-------------------------- MODULE WheelStoreProofs --------------------------
(***************************************************************************)
(* The safety of the cache directory for any number of processes, wheels   *)
(* and archives.                                                           *)
(*                                                                         *)
(* That nobody takes away what is in use rests on three things: which      *)
(* processes are in without the lock (Locked), that there is one lock file *)
(* as long as `clear` has not run (OneFile), and that an archive is linked *)
(* for one wheel only (Unlinked, LinkedOnce).                              *)
(***************************************************************************)
EXTENDS WheelStore, TLAPS

InstallSteps ==
    {"plan", "get", "revalidated", "extracted", "persisted", "linked", "fetched", "install"}

Steps(c) ==
    CASE c = "install" -> InstallSteps
      [] c = "clear"   -> {"wipe", "drop", "unlink", "end"}
      [] OTHER         -> {"evict", "scan", "sweep", "end"}

\* A process is at a step of its command, for a wheel, with the mode the
\* command takes; only cleaners do without the lock.
Shape ==
    \A p \in Process : at[p] # "out" =>
        /\ wheel[p] \in Wheel
        /\ step[p] \in Steps(command[p])
        /\ at[p] # "in" => step[p] = FirstStep(command[p])
        /\ mode[p] = IF command[p] = "install" THEN "Shared" ELSE "Exclusive"
        /\ ~patient[p] \/ at[p] = "busy" => command[p] # "install"

\* Some process has been in without the lock.
Bypassed == ~(history \subseteq {"clear"})

\* A lock is held by processes that are in, on a file they have open.  Who is
\* in without a lock was forced or got none, or is about to remove the lock file.
Locked ==
    \A p \in Process :
        /\ held[p] # "None" => at[p] = "in" /\ held[p] = mode[p] /\ file[p] # NoFile
        /\ at[p] = "in" /\ held[p] = "None" => Bypassed \/ step[p] = "unlink"
        /\ At(p, "unlink") => held[p] = "None"

\* A process that tries for a lock has a file open.
Opened == \A p \in Process : at[p] \in {"opened", "waiting"} => file[p] # NoFile

\* Locks on one file are compatible.
Compatible ==
    \A p, q \in Process :
        p # q /\ file[p] = file[q] /\ held[p] # "None" /\ held[q] # "None"
            => held[p] = "Shared" /\ held[q] = "Shared"

\* Only `clear` with the lock makes room for another lock file.
OneFile ==
    /\ path <= created /\ \A p \in Process : file[p] <= created
    /\ "clear" \notin history => created <= 1 /\ (path = NoFile => created = 0)
    /\ \A p \in Process : at[p] = "in" /\ command[p] = "clear" =>
         /\ history # {}
         /\ held[p] # "None" \/ step[p] \in {"drop", "unlink"} => "clear" \in history

\* Ids of archives are new.
Counted ==
    /\ archives \subseteq 1 .. persisted
    /\ \A w \in Wheel : link[w] <= persisted /\ pointer[w] <= persisted
    /\ \A p \in Process : archive[p] <= persisted

\* An archive that is about to be linked is linked nowhere, and in one hand.
Unlinked ==
    \A p \in Process : At(p, "persisted") =>
        /\ archive[p] # None
        /\ \A w \in Wheel : link[w] # archive[p]
        /\ \A q \in Process : At(q, "persisted") /\ archive[q] = archive[p] => p = q

\* No archive is linked for two wheels.
LinkedOnce == \A v, w \in Wheel : link[v] = link[w] /\ link[v] # None => v = w

\* What a process is about to link or to install is there.
InHand ==
    Locks =>
        \A p \in Process : at[p] = "in" =>
            /\ step[p] \in {"persisted", "linked"} => archive[p] \in archives
            /\ step[p] = "install" /\ Kind[wheel[p]] \in {"registry"} \cup FromSource
                 => archive[p] \in archives

\* A cleaner that has searched for references knows the links: all of them, or
\* those there were before it removed some.
Searched ==
    Undisturbed => \A p \in Process : at[p] = "in" =>
        /\ command[p] \in {"prune", "prune_ci"} /\ step[p] \in {"sweep", "end"} =>
             \A w \in Wheel : snap[p][w] = link[w]
        /\ command[p] = "remove" /\ step[p] \in {"evict", "sweep", "end"} =>
             /\ \A w \in Wheel : link[w] \in {None, snap[p][w]}
             /\ \A v, w \in Wheel : snap[p][v] = snap[p][w] /\ snap[p][v] # None => v = w
        /\ command[p] = "remove" /\ step[p] \in {"sweep", "end"}
           /\ Kind[wheel[p]] \notin {"source", "editable"} =>
             link[wheel[p]] = None /\ pointer[wheel[p]] = None

LockInv  == Shape /\ Opened /\ Locked /\ Compatible /\ OneFile
StoreInv == Counted /\ Unlinked /\ LinkedOnce /\ InHand /\ Searched
                /\ LinksResolve /\ PruneCollects /\ RemoveForgets
IInv     == TypeOK /\ LockInv /\ StoreInv
-----------------------------------------------------------------------------
\* `create` opens a file at the path.
LEMMA CreateType ==
    ASSUME LockTypeOK, NEW p \in Process, NEW m \in Mode, NEW wait \in BOOLEAN, Create(p, m, wait)
    PROVE  LockTypeOK'
  <1>1. path' \in File \cup {NoFile} /\ created' \in 0 .. MaxFiles
    BY MaxFilesAssumption DEF LockTypeOK, Create, File, NoFile
  <1>2. file' \in [Process -> File \cup {NoFile}]
    BY MaxFilesAssumption DEF LockTypeOK, Create, File, NoFile
  <1>3. mode' \in [Process -> Mode] /\ patient' \in [Process -> BOOLEAN]
    BY DEF LockTypeOK, Create
  <1>4. held' \in [Process -> Mode \cup {"None"}] /\ at' \in [Process -> Where]
    BY DEF LockTypeOK, Create, Where
  <1> QED BY <1>1, <1>2, <1>3, <1>4 DEF LockTypeOK

\* What the planner and the distribution database take for unzipped are
\* archives.
LEMMA CachedType ==
    ASSUME TypeOK, NEW w \in Wheel
    PROVE  Planned(w) \in Archive \cup {None} /\ Gettable(w) \in Archive \cup {None}
  <1>1. link[w] \in Archive \cup {None} /\ pointer[w] \in Archive \cup {None}
    BY DEF TypeOK
  <1>2. Planned(w) \in {link[w], pointer[w], None}
    BY StoreAssumption DEF Planned, Kinds, FromSource
  <1>3. Gettable(w) \in {link[w], pointer[w], None}
    BY StoreAssumption DEF Gettable, Kinds, FromSource
  <1> QED BY <1>1, <1>2, <1>3

\* Every step keeps the types of the state.
LEMMA TypeStep == TypeOK /\ Shape /\ [Next]_vars => TypeOK'
  <1> SUFFICES ASSUME TypeOK, Shape, [Next]_vars PROVE TypeOK'
    OBVIOUS
  <1> USE StoreAssumption, MaxFilesAssumption
  <1> USE DEF TypeOK, LockTypeOK, lockVars, Archive, None, NoFile, File, Mode, Where, Kinds,
              Cleaning, Location, Goto, At
  <1>1. ASSUME NEW p \in Process, NEW c \in Command, NEW w \in Wheel, Begin(p, c, w) PROVE TypeOK'
    <2>1. LockTypeOK'
      BY <1>1, CreateType DEF Begin
    <2>2. FirstStep(c) \in Location
      BY DEF FirstStep
    <2> QED BY <1>1, <2>1, <2>2 DEF Begin
  <1>2. ASSUME NEW p \in Process, Enter(p) PROVE TypeOK'
    BY <1>2 DEF Enter, Acquire
  <1>3. ASSUME NEW p \in Process, Wait(p) PROVE TypeOK'
    BY <1>3 DEF Wait, Contend, storeVars
  <1>4. ASSUME NEW p \in Process, Forced(p) PROVE TypeOK'
    BY <1>4 DEF Forced, Override
  <1>5. ASSUME NEW p \in Process, Reopen(p) PROVE TypeOK'
    <2>1. LockTypeOK'
      BY <1>5, CreateType DEF Reopen
    <2> QED BY <1>5, <2>1 DEF Reopen, storeVars
  <1>6. ASSUME NEW p \in Process, Die(p) PROVE TypeOK'
    BY <1>6 DEF Die, Leave, Exit, Forget
  <1>7. ASSUME NEW p \in Process, Finish(p) PROVE TypeOK'
    BY <1>7 DEF Finish, Leave, Exit, Forget
  <1>8. ASSUME NEW p \in Process, PlanCached(p) PROVE TypeOK'
    <2>1. wheel[p] \in Wheel
      BY <1>8 DEF PlanCached, Shape
    <2>2. Planned(wheel[p]) \in Archive \cup {None}
      BY <2>1, CachedType
    <2> QED BY <1>8, <2>2 DEF PlanCached, Take
  <1>9. ASSUME NEW p \in Process, PlanRemote(p) PROVE TypeOK'
    BY <1>9 DEF PlanRemote
  <1>10. ASSUME NEW p \in Process, GetCached(p) PROVE TypeOK'
    <2>1. wheel[p] \in Wheel
      BY <1>10 DEF GetCached, Shape
    <2>2. Gettable(wheel[p]) \in Archive \cup {None}
      BY <2>1, CachedType
    <2> QED BY <1>10, <2>2 DEF GetCached, Take
  <1>11. ASSUME NEW p \in Process, Extract(p) PROVE TypeOK'
    <2>1. PICK s \in {FALSE} \cup {Kind[wheel[p]] \in {"registry", "url"} /\ pointer[wheel[p]] # None} :
              skip' = [skip EXCEPT ![p] = s]
      BY <1>11 DEF Extract
    <2>2. s \in BOOLEAN
      OBVIOUS
    <2>3. skip' \in [Process -> BOOLEAN]
      BY <2>1, <2>2
    <2> QED BY <1>11, <2>3 DEF Extract
  <1>12. ASSUME NEW p \in Process, Persist(p) PROVE TypeOK'
    BY <1>12 DEF Persist
  <1>13. ASSUME NEW p \in Process, CreateLink(p) PROVE TypeOK'
    BY <1>13 DEF CreateLink
  <1>14. ASSUME NEW p \in Process, WritePointer(p) PROVE TypeOK'
    BY <1>14 DEF WritePointer
  <1>15. ASSUME NEW p \in Process, Fetched(p) PROVE TypeOK'
    BY <1>15 DEF Fetched
  <1>16. ASSUME NEW p \in Process, Evict(p) PROVE TypeOK'
    BY <1>16 DEF Evict
  <1>17. ASSUME NEW p \in Process, Scan(p) PROVE TypeOK'
    BY <1>17 DEF Scan, Exists
  <1>18. ASSUME NEW p \in Process, Swept(p) PROVE TypeOK'
    BY <1>18 DEF Swept
  <1>19. ASSUME NEW p \in Process, Wiped(p) PROVE TypeOK'
    BY <1>19 DEF Wiped
  <1>20. ASSUME NEW p \in Process, DropLock(p) PROVE TypeOK'
    BY <1>20 DEF DropLock, Drop
  <1>21. ASSUME NEW p \in Process, RemoveLock(p) PROVE TypeOK'
    BY <1>21 DEF RemoveLock, Unlink, Exit, Forget
  <1>22. ASSUME NEW p \in Process, NEW w \in Wheel, EvictLink(p, w) PROVE TypeOK'
    BY <1>22 DEF EvictLink, Evicted
  <1>23. ASSUME NEW p \in Process, NEW w \in Wheel, EvictPointer(p, w) PROVE TypeOK'
    BY <1>23 DEF EvictPointer, Evicted
  <1>24. ASSUME NEW p \in Process, NEW a \in archives, RemoveArchive(p, a) PROVE TypeOK'
    BY <1>24 DEF RemoveArchive
  <1>25. CASE UNCHANGED vars
    BY <1>25 DEF vars, storeVars
  <1>26. ASSUME NEW p \in Process, Unlocked(p) PROVE TypeOK'
    BY <1>26 DEF Unlocked, Unsupported
  <1>27. ASSUME NEW p \in Process, Revalidate(p) PROVE TypeOK'
    <2>1. wheel[p] \in Wheel
      BY <1>27 DEF Revalidate, Shape
    <2> QED BY <1>27, <2>1 DEF Revalidate
  <1>28. ASSUME NEW p \in Process, RewritePointer(p) PROVE TypeOK'
    BY <1>28 DEF RewritePointer
  <1>29. ASSUME NEW p \in Process, Unmatched(p) PROVE TypeOK'
    BY <1>29 DEF Unmatched
  <1> QED
    BY <1>1, <1>2, <1>3, <1>4, <1>5, <1>6, <1>7, <1>8, <1>9, <1>10, <1>11, <1>12, <1>13, <1>14, <1>15, <1>16, <1>17, <1>18, <1>19, <1>20, <1>21, <1>22, <1>23, <1>24, <1>25, <1>26, <1>27, <1>28, <1>29
       DEF Next, Install, Clean
-----------------------------------------------------------------------------
\* A process goes on in its command: to another step, of which the last two of
\* `clear` are for those that have the lock.
Working(p) ==
    /\ at[p] = "in" /\ step[p] # "unlink"
    /\ \E s \in Steps(command[p]) :
         /\ step' = [step EXCEPT ![p] = s]
         /\ s = step[p] \/ (s # "unlink" /\ (s = "drop" => held[p] # "None"))
    /\ UNCHANGED <<lockVars, command, wheel, history>>

\* Which steps a command has.
LEMMA StepsOf ==
    ASSUME TypeOK, Shape, NEW p \in Process, at[p] = "in"
    PROVE  /\ step[p] \in Steps(command[p])
           /\ step[p] \in InstallSteps
                <=> command[p] = "install"
           /\ step[p] \in {"wipe", "drop", "unlink"} => command[p] = "clear"
           /\ step[p] \in {"evict", "scan", "sweep"} => command[p] \notin {"install", "clear"}
           /\ \A s \in InstallSteps :
                command[p] = "install" => s \in Steps(command[p])
           /\ \A s \in {"evict", "scan", "sweep", "end"} :
                command[p] \notin {"install", "clear"} => s \in Steps(command[p])
           /\ \A s \in {"wipe", "drop", "unlink", "end"} :
                command[p] = "clear" => s \in Steps(command[p])
  <1>1. step[p] \in Steps(command[p])
    BY DEF Shape
  <1> QED BY <1>1 DEF Steps, InstallSteps

\* Installing a wheel is work in the command.
LEMMA InstallWorks ==
    ASSUME TypeOK, Shape, NEW p \in Process, Install(p)
    PROVE  Working(p)
  <1> USE DEF At, Goto, Working, TypeOK, lockVars, InstallSteps
  <1>1. CASE PlanCached(p) \/ GetCached(p)
    BY <1>1, StepsOf DEF PlanCached, GetCached, Take
  <1>2. CASE PlanRemote(p) \/ Extract(p) \/ Persist(p) \/ Fetched(p)
    BY <1>2, StepsOf DEF PlanRemote, Extract, Persist, Fetched
  <1>3. CASE CreateLink(p) \/ WritePointer(p)
    BY <1>3, StepsOf DEF CreateLink, WritePointer
  <1>4. CASE Revalidate(p) \/ RewritePointer(p)
    BY <1>4, StepsOf DEF Revalidate, RewritePointer
  <1> QED BY <1>1, <1>2, <1>3, <1>4 DEF Install

\* So is cleaning, until `clear` gives up the lock.
LEMMA CleanWorks ==
    ASSUME TypeOK, Shape, NEW p \in Process, Clean(p)
    PROVE  Working(p) \/ DropLock(p) \/ RemoveLock(p)
  <1> USE DEF At, Goto, Working, TypeOK, lockVars
  <1>1. ASSUME NEW w \in Wheel, EvictLink(p, w) \/ EvictPointer(p, w) PROVE Working(p)
    BY <1>1, StepsOf DEF EvictLink, EvictPointer
  <1>2. ASSUME NEW a \in archives, RemoveArchive(p, a) PROVE Working(p)
    BY <1>2, StepsOf DEF RemoveArchive
  <1>3. CASE Evict(p) \/ Unmatched(p) \/ Scan(p) \/ Swept(p)
    BY <1>3, StepsOf DEF Evict, Unmatched, Scan, Swept
  <1>4. CASE Wiped(p)
    BY <1>4, StepsOf DEF Wiped
  <1> QED BY <1>1, <1>2, <1>3, <1>4 DEF Clean

\* Work in a command leaves the lock as it is.
LEMMA WorkKeepsLock ==
    ASSUME TypeOK, LockInv, NEW p \in Process, Working(p)
    PROVE  LockInv'
  <1> USE DEF LockInv, TypeOK, Working, lockVars
  <1>1. Shape'
    BY DEF Shape
  <1>2. Locked' /\ Opened'
    BY DEF Locked, Bypassed, At, Opened
  <1>3. Compatible'
    BY DEF Compatible
  <1>4. OneFile'
    BY DEF OneFile
  <1> QED BY <1>1, <1>2, <1>3, <1>4

\* A new file is made only when there was none, or after `clear`.
LEMMA CreateOneFile ==
    ASSUME TypeOK, OneFile, NEW p \in Process, NEW m, NEW wait, Create(p, m, wait),
           at[p] # "in", \A q \in Process \ {p} : command'[q] = command[q] /\ step'[q] = step[q],
           UNCHANGED history
    PROVE  OneFile'
  <1> USE MaxFilesAssumption DEF TypeOK, LockTypeOK, NoFile, File, Where, OneFile, Create
  <1>1. CASE path # NoFile
    BY <1>1
  <1>2. CASE path = NoFile
    <2>1. path' = created + 1 /\ created' = created + 1 /\ file' = [file EXCEPT ![p] = created + 1]
      BY <1>2
    <2>2. path' <= created' /\ \A q \in Process : file'[q] <= created'
      BY <2>1
    <2>3. "clear" \notin history' => created' <= 1 /\ path' # NoFile
      BY <1>2, <2>1
    <2> QED BY <2>2, <2>3
  <1> QED BY <1>1, <1>2

\* Every step keeps what is known of the lock.
LEMMA LockStep == TypeOK /\ LockInv /\ [Next]_vars => LockInv'
  <1> SUFFICES ASSUME TypeOK, LockInv, [Next]_vars PROVE LockInv'
    OBVIOUS
  <1> USE DEF LockInv, TypeOK, LockTypeOK, NoFile, File, Mode, Where
  <1>1. ASSUME NEW p \in Process, NEW c \in Command, NEW w \in Wheel, Begin(p, c, w) PROVE LockInv'
    <2>1. Shape'
      <3>1. FirstStep(c) \in Steps(c)
        BY StoreAssumption DEF FirstStep, Steps, InstallSteps, Cleaning
      <3> QED BY <1>1, <3>1 DEF Shape, Begin, Create
    <2>2. Locked' /\ Opened'
      <3>1. at[p] = "out" /\ held' = held /\ Bypassed' = Bypassed
        BY <1>1 DEF Begin, Create, Bypassed
      <3>2. held[p] = "None"
        BY <3>1 DEF Locked
      <3>3. /\ at' = [at EXCEPT ![p] = "opened"]
            /\ \A q \in Process \ {p} : /\ file'[q] = file[q] /\ mode'[q] = mode[q]
                                       /\ step'[q] = step[q]
        BY <1>1 DEF Begin, Create
      <3>4. Locked'
        BY <3>1, <3>2, <3>3 DEF Locked, At
      <3>5. file'[p] # NoFile
        BY <1>1, MaxFilesAssumption DEF Begin, Create
      <3> QED BY <3>3, <3>4, <3>5 DEF Opened
    <2>3. Compatible'
      BY <1>1 DEF Compatible, Locked, At, Begin, Create
    <2>4. OneFile'
      BY <1>1, CreateOneFile DEF Begin
    <2> QED BY <2>1, <2>2, <2>3, <2>4
  <1>2. ASSUME NEW p \in Process, Enter(p) PROVE LockInv'
    <2>1. Shape'
      BY <1>2 DEF Shape, Enter, Acquire
    <2>2. Locked' /\ Opened'
      <3>1. file[p] # NoFile
        BY <1>2 DEF Opened, Enter, Acquire
      <3> QED BY SMTT(60), <1>2, <3>1 DEF Locked, Bypassed, At, Shape, FirstStep, Opened, Enter, Acquire
    <2>3. Compatible'
      BY <1>2 DEF Compatible, Locked, At, Enter, Acquire, Grantable
    <2>4. OneFile'
      BY <1>2 DEF OneFile, Enter, Acquire
    <2> QED BY <2>1, <2>2, <2>3, <2>4
  <1>3. ASSUME NEW p \in Process, Wait(p) PROVE LockInv'
    <2>1. Shape'
      BY <1>3 DEF Shape, Wait, Contend, storeVars
    <2>2. Locked' /\ Opened'
      BY <1>3 DEF Locked, Bypassed, At, Opened, Wait, Contend, storeVars
    <2>3. Compatible'
      BY <1>3 DEF Compatible, Locked, At, Wait, Contend, storeVars
    <2>4. OneFile'
      BY <1>3 DEF OneFile, Wait, Contend, storeVars
    <2> QED BY <2>1, <2>2, <2>3, <2>4
  <1>4. ASSUME NEW p \in Process, Forced(p) PROVE LockInv'
    <2>1. Shape'
      BY <1>4 DEF Shape, Forced, Override
    <2>2. Locked' /\ Opened'
      BY <1>4 DEF Locked, Bypassed, At, Opened, Forced, Override
    <2>3. Compatible'
      BY <1>4 DEF Compatible, Locked, At, Forced, Override
    <2>4. OneFile'
      BY <1>4 DEF OneFile, Forced, Override, Shape, Locked, FirstStep
    <2> QED BY <2>1, <2>2, <2>3, <2>4
  <1>5. ASSUME NEW p \in Process, Reopen(p) PROVE LockInv'
    <2>1. Shape'
      BY <1>5 DEF Shape, Reopen, Create, storeVars
    <2>2. Locked' /\ Opened'
      BY <1>5 DEF Locked, Bypassed, At, Opened, Reopen, Create, storeVars
    <2>3. Compatible'
      <3>1. held[p] = "None" /\ held' = held
        BY <1>5 DEF Locked, Reopen, Create
      <3>2. \A q \in Process \ {p} : file'[q] = file[q]
        BY <1>5 DEF Reopen, Create
      <3> QED BY <3>1, <3>2 DEF Compatible
    <2>4. OneFile'
      BY <1>5, CreateOneFile DEF Reopen, storeVars
    <2> QED BY <2>1, <2>2, <2>3, <2>4
  <1>6. ASSUME NEW p \in Process, Die(p) PROVE LockInv'
    <2>1. Shape'
      BY <1>6 DEF Shape, Die, Leave, Exit, Forget
    <2>2. Locked' /\ Opened'
      BY <1>6 DEF Locked, Bypassed, At, Opened, Die, Leave, Exit, Forget
    <2>3. Compatible'
      BY <1>6 DEF Compatible, Locked, At, Die, Leave, Exit, Forget
    <2>4. OneFile'
      BY <1>6 DEF OneFile, Die, Leave, Exit, Forget
    <2> QED BY <2>1, <2>2, <2>3, <2>4
  <1>7. ASSUME NEW p \in Process, Finish(p) PROVE LockInv'
    <2>1. Shape'
      BY <1>7 DEF Shape, Finish, Leave, Exit, Forget
    <2>2. Locked' /\ Opened'
      BY <1>7 DEF Locked, Bypassed, At, Opened, Finish, Leave, Exit, Forget
    <2>3. Compatible'
      BY <1>7 DEF Compatible, Locked, At, Finish, Leave, Exit, Forget
    <2>4. OneFile'
      BY <1>7 DEF OneFile, Finish, Leave, Exit, Forget
    <2> QED BY <2>1, <2>2, <2>3, <2>4
  <1>8. ASSUME NEW p \in Process, DropLock(p) PROVE LockInv'
    <2>1. Shape'
      BY <1>8 DEF Shape, At, DropLock, Drop, Goto, Steps, InstallSteps
    <2>2. Locked' /\ Opened'
      BY <1>8 DEF Locked, Bypassed, At, Opened, DropLock, Drop, Goto, Steps
    <2>3. Compatible'
      BY <1>8 DEF Compatible, Locked, At, DropLock, Drop, Goto, Steps
    <2>4. OneFile'
      BY <1>8 DEF OneFile, At, DropLock, Drop, Goto, Steps
    <2> QED BY <2>1, <2>2, <2>3, <2>4
  <1>9. ASSUME NEW p \in Process, RemoveLock(p) PROVE LockInv'
    <2>1. Shape'
      BY <1>9 DEF Shape, At, RemoveLock, Unlink, Exit, Forget, Goto
    <2>2. Locked' /\ Opened'
      BY <1>9 DEF Locked, Bypassed, At, Opened, RemoveLock, Unlink, Exit, Forget, Goto
    <2>3. Compatible'
      BY <1>9 DEF Compatible, Locked, At, RemoveLock, Unlink, Exit, Forget, Goto
    <2>4. OneFile'
      BY <1>9, StepsOf DEF OneFile, At, RemoveLock, Unlink, Exit, Forget
    <2> QED BY <2>1, <2>2, <2>3, <2>4
  <1>10. ASSUME NEW p \in Process, Install(p) \/ Clean(p) PROVE LockInv'
    BY <1>10, InstallWorks, CleanWorks, WorkKeepsLock, <1>9, <1>8
  <1>11. CASE UNCHANGED vars
    BY <1>11 DEF vars, lockVars, storeVars, Shape, Opened, Locked, Bypassed, At, Compatible, OneFile
  <1>12. ASSUME NEW p \in Process, Unlocked(p) PROVE LockInv'
    <2>1. Shape'
      BY <1>12 DEF Shape, Unlocked, Unsupported
    <2>2. Locked' /\ Opened'
      <3>1. held[p] = "None" /\ held' = held
        BY <1>12 DEF Locked, Unlocked, Unsupported
      <3>2. step[p] = FirstStep(command[p]) /\ step' = step
        BY <1>12 DEF Shape, Unlocked
      <3>3. step[p] # "unlink"
        BY <3>2 DEF FirstStep
      <3>4. at' = [at EXCEPT ![p] = "in"] /\ file' = [file EXCEPT ![p] = NoFile] /\ mode' = mode
        BY <1>12 DEF Unlocked, Unsupported
      <3>5. history' = history \cup {"lockless"}
        BY <1>12 DEF Unlocked
      <3> QED BY <3>1, <3>2, <3>3, <3>4, <3>5 DEF Locked, Bypassed, At, Opened
    <2>3. Compatible'
      <3>1. held[p] = "None" /\ held' = held
        BY <1>12 DEF Locked, Unlocked, Unsupported
      <3> QED BY <1>12, <3>1 DEF Compatible, Unlocked, Unsupported
    <2>4. OneFile'
      <3>1. command[p] # "clear"
        BY <1>12 DEF Shape, Unlocked
      <3> QED BY <1>12, <3>1 DEF OneFile, Unlocked, Unsupported
    <2> QED BY <2>1, <2>2, <2>3, <2>4
  <1> QED
    BY <1>1, <1>2, <1>3, <1>4, <1>5, <1>6, <1>7, <1>8, <1>9, <1>10, <1>11, <1>12 DEF Next
-----------------------------------------------------------------------------
\* With one lock file, an exclusive lock excludes all others.
Exclusion ==
    created <= 1 =>
        \A p, q \in Process : held[p] = "Exclusive" /\ held[q] # "None" => p = q

LEMMA LockExcludes == TypeOK /\ LockInv => Exclusion
  <1> SUFFICES ASSUME TypeOK, LockInv, created <= 1, NEW p \in Process, NEW q \in Process,
                      held[p] = "Exclusive", held[q] # "None", p # q
               PROVE  FALSE
    BY DEF Exclusion
  <1>1. ASSUME NEW r \in Process, held[r] # "None" PROVE file[r] = 1
    <2>1. created \in Nat /\ file[r] \in Nat
      BY MaxFilesAssumption DEF TypeOK, LockTypeOK, NoFile, File
    <2>2. file[r] # 0 /\ file[r] <= created
      BY <1>1 DEF LockInv, Locked, OneFile, NoFile
    <2> QED BY <2>1, <2>2
  <1> QED BY <1>1 DEF LockInv, Compatible

\* While a cleaner is at work, who else is in is about to remove the lock file.
LEMMA CleanerAlone ==
    ASSUME TypeOK, LockInv, Locks,
           NEW p \in Process, at[p] = "in", command[p] # "install", step[p] # "unlink",
           NEW q \in Process, q # p, at[q] = "in"
    PROVE  step[q] = "unlink"
  <1>1. held[p] = "Exclusive"
    BY DEF LockInv, Locked, Bypassed, Shape, TypeOK, LockTypeOK, Locks
  <1>2. held[q] = "None"
    BY <1>1, LockExcludes DEF Exclusion, Locks
  <1> QED BY <1>2 DEF LockInv, Locked, Bypassed, Locks

\* If every process had its lock and none was `clear`, nobody else is in.
LEMMA NobodyElse ==
    ASSUME TypeOK, LockInv, Undisturbed,
           NEW p \in Process, at[p] = "in", command[p] # "install",
           NEW q \in Process, at[q] = "in"
    PROVE  p = q
  <1>1. Locks
    BY DEF Undisturbed, LockInv, OneFile, Locks
  <1>2. step[p] # "unlink" /\ step[q] # "unlink"
    BY StepsOf DEF Undisturbed, LockInv, OneFile
  <1> QED BY <1>1, <1>2, CleanerAlone DEF Undisturbed

\* A step of p that leaves the store alone, and after which p has nothing in
\* hand.
Aside(p) ==
    /\ UNCHANGED <<archives, persisted, link, pointer>>
    /\ \A q \in Process \ {p} :
         /\ at'[q] = at[q] /\ command'[q] = command[q] /\ wheel'[q] = wheel[q]
         /\ step'[q] = step[q] /\ archive'[q] = archive[q] /\ snap'[q] = snap[q]
    /\ history \subseteq history' /\ created <= created'
    /\ archive'[p] \in {archive[p], None}
    /\ at'[p] = "in" =>
         /\ step'[p] \notin {"persisted", "linked", "fetched", "install", "sweep"}
         /\ step'[p] = "evict" => command'[p] # "remove"
         /\ step'[p] = "end" => command'[p] = "clear"

LEMMA AsideKeepsStore ==
    ASSUME TypeOK, TypeOK', StoreInv, NEW p \in Process, Aside(p)
    PROVE  StoreInv'
  <1>1. UNCHANGED <<archives, persisted, link, pointer>>
    BY DEF Aside
  <1>2. Undisturbed' => Undisturbed
    BY DEF Aside, Undisturbed
  <1>3. ASSUME NEW q \in Process, q # p
        PROVE  /\ at'[q] = at[q] /\ command'[q] = command[q] /\ wheel'[q] = wheel[q]
               /\ step'[q] = step[q] /\ archive'[q] = archive[q] /\ snap'[q] = snap[q]
               /\ \A l : At(q, l)' <=> At(q, l)
    BY <1>3 DEF Aside, At
  <1>4. /\ ~At(p, "persisted")' /\ ~At(p, "linked")' /\ ~At(p, "fetched")'
        /\ ~At(p, "install")' /\ ~At(p, "sweep")'
        /\ At(p, "evict")' => command'[p] # "remove"
        /\ At(p, "end")' => command'[p] = "clear"
    BY DEF Aside, At
  <1>5. Counted'
    <2>1. archive'[p] <= persisted
      BY DEF Counted, StoreInv, Aside, TypeOK, None
    <2> QED BY <1>1, <1>3, <2>1 DEF Counted, StoreInv
  <1>6. Unlinked' /\ LinkedOnce'
    BY <1>1, <1>3, <1>4 DEF Unlinked, LinkedOnce, StoreInv
  <1>7. InHand'
    <2>1. Locks' => Locks
      BY DEF Aside, TypeOK, LockTypeOK, Locks
    <2> QED BY <1>1, <1>3, <1>4, <2>1 DEF InHand, StoreInv, At
  <1>8. Searched'
    BY <1>1, <1>2, <1>3, <1>4 DEF Searched, StoreInv, At
  <1>9. LinksResolve'
    BY <1>1, <1>2 DEF LinksResolve, Exists, StoreInv
  <1>10. PruneCollects'
    BY <1>1, <1>2, <1>3, <1>4 DEF PruneCollects, StoreInv
  <1>11. RemoveForgets'
    BY <1>1, <1>2, <1>3, <1>4 DEF RemoveForgets, Exists, StoreInv
  <1> QED BY <1>5, <1>6, <1>7, <1>8, <1>9, <1>10, <1>11 DEF StoreInv

\* Starting, ending, and the steps of a command before it has anything.
LEMMA AsideSteps ==
    ASSUME TypeOK, LockInv, NEW p \in Process,
           \/ \E c \in Command, w \in Wheel : Begin(p, c, w)
           \/ Enter(p) \/ Wait(p) \/ Unlocked(p) \/ Forced(p) \/ Reopen(p) \/ Die(p) \/ Finish(p)
           \/ PlanRemote(p) \/ Extract(p) \/ Wiped(p) \/ DropLock(p) \/ RemoveLock(p)
    PROVE  Aside(p)
  <1> USE DEF TypeOK, LockTypeOK, Aside, At, Goto, lockVars, storeVars
  <1>1. ASSUME NEW m, NEW wait, Create(p, m, wait)
        PROVE  created <= created' /\ at'[p] = "opened" /\ \A q \in Process \ {p} : at'[q] = at[q]
    BY <1>1, MaxFilesAssumption DEF Create
  <1>2. ASSUME NEW c \in Command, NEW w \in Wheel, Begin(p, c, w) PROVE Aside(p)
    BY <1>2, <1>1 DEF Begin
  <1>3. ASSUME Reopen(p) PROVE Aside(p)
    BY <1>3, <1>1 DEF Reopen
  <1>4. ASSUME Enter(p) \/ Unlocked(p) \/ Forced(p) PROVE Aside(p)
    <2>1. at[p] \in {"opened", "waiting", "busy"}
      BY <1>4 DEF Enter, Acquire, Unlocked, Forced, Override
    <2>2. step[p] = FirstStep(command[p])
      BY <2>1 DEF LockInv, Shape
    <2> QED BY <1>4, <2>2 DEF Enter, Acquire, Unlocked, Unsupported, Forced, Override, FirstStep
  <1>5. ASSUME Wait(p) PROVE Aside(p)
    BY <1>5 DEF Wait, Contend
  <1>6. ASSUME Die(p) \/ Finish(p) PROVE Aside(p)
    BY <1>6 DEF Die, Finish, Leave, Exit, Forget
  <1>7. ASSUME PlanRemote(p) \/ Extract(p) PROVE Aside(p)
    BY <1>7 DEF PlanRemote, Extract
  <1>8. ASSUME Wiped(p) PROVE Aside(p)
    BY <1>8, StepsOf DEF Wiped, LockInv
  <1>9. ASSUME DropLock(p) PROVE Aside(p)
    BY <1>9 DEF DropLock, Drop
  <1>10. ASSUME RemoveLock(p) PROVE Aside(p)
    BY <1>10 DEF RemoveLock, Unlink, Exit, Forget
  <1> QED BY <1>2, <1>3, <1>4, <1>5, <1>6, <1>7, <1>8, <1>9, <1>10

\* A step of a process that installs leaves others, the lock and the search of
\* a cleaner alone.
Installs(p) ==
    /\ command[p] = "install" /\ at[p] = "in"
    /\ UNCHANGED <<lockVars, command, wheel, snap, history>>
    /\ \A q \in Process \ {p} : step'[q] = step[q] /\ archive'[q] = archive[q]
    /\ step'[p] \in InstallSteps

\* While a process installs, no cleaner that was not forced is in.
LEMMA InstallKeepsCleaned ==
    ASSUME TypeOK, LockInv, NEW p \in Process, Installs(p)
    PROVE  Searched' /\ PruneCollects' /\ RemoveForgets'
  <1>1. UNCHANGED <<at, command, wheel, snap, history>>
    BY DEF Installs, lockVars
  <1>2. ASSUME Undisturbed, NEW q \in Process, at[q] = "in" PROVE command[q] = "install"
    BY <1>2, NobodyElse DEF Installs
  <1>3. Undisturbed' => Undisturbed
    BY <1>1 DEF Undisturbed
  <1> QED BY <1>1, <1>2, <1>3 DEF Searched, PruneCollects, RemoveForgets, At

\* An archive is persisted, linked, pointed to and installed.
LEMMA InstallKeepsStore ==
    ASSUME TypeOK, TypeOK', LockInv, StoreInv, NEW p \in Process, Install(p)
    PROVE  StoreInv'
  <1>1. CASE PlanRemote(p) \/ Extract(p)
    BY <1>1, AsideSteps, AsideKeepsStore
  <1>2. CASE PlanCached(p) \/ GetCached(p)
    <2>1. PICK a \in {Planned(wheel[p]), Gettable(wheel[p])} : Take(p, a)
      BY <1>2 DEF PlanCached, GetCached
    <2>2. wheel[p] \in Wheel /\ command[p] = "install" /\ at[p] = "in"
      BY <1>2, StepsOf DEF PlanCached, GetCached, At, LockInv, Shape, InstallSteps
    <2>3. a \in {link[wheel[p]], pointer[wheel[p]], None}
      BY <2>2, StoreAssumption DEF Planned, Gettable, Kinds, FromSource
    <2>4. Kind[wheel[p]] \in {"registry"} \cup FromSource => a \in archives
      BY <2>1 DEF Planned, Gettable, Exists, Take, FromSource
    <2>5. Installs(p)
      BY <2>1, <2>2 DEF Installs, Take, Goto, TypeOK, lockVars, InstallSteps
    <2>6. Counted'
      BY <2>1, <2>2, <2>3 DEF Take, Counted, StoreInv, TypeOK, None
    <2>7. Unlinked' /\ LinkedOnce' /\ LinksResolve'
      BY <2>1 DEF Take, Goto, Unlinked, LinkedOnce, LinksResolve, Undisturbed, Exists, StoreInv,
                  At, TypeOK, lockVars
    <2>8. InHand'
      BY <2>1, <2>4 DEF Take, Goto, InHand, StoreInv, TypeOK, lockVars, Locks
    <2> QED BY <2>5, <2>6, <2>7, <2>8, InstallKeepsCleaned DEF StoreInv
  <1>3. CASE Persist(p)
    <2>1. command[p] = "install" /\ at[p] = "in"
      BY <1>3, StepsOf DEF Persist, At, LockInv, InstallSteps
    <2>2. Installs(p)
      BY <1>3, <2>1 DEF Installs, Persist, Goto, TypeOK, lockVars, InstallSteps
    <2>3. persisted \in Nat
      BY DEF TypeOK
    <2>4. Counted'
      <3>1. archives' \subseteq 1 .. persisted'
        BY <1>3, <2>3 DEF Persist, Counted, StoreInv
      <3>2. \A w \in Wheel : link'[w] <= persisted' /\ pointer'[w] <= persisted'
        BY <1>3, <2>3 DEF Persist, Counted, StoreInv, TypeOK, Archive, None
      <3>3. \A q \in Process : archive'[q] <= persisted'
        BY <1>3, <2>3 DEF Persist, Counted, StoreInv, TypeOK, Archive, None
      <3> QED BY <3>1, <3>2, <3>3 DEF Counted
    <2>5. Unlinked'
      BY <1>3, <2>3 DEF Persist, Unlinked, Counted, StoreInv, At, Goto, TypeOK, None, lockVars
    <2>6. LinkedOnce' /\ LinksResolve'
      BY <1>3 DEF Persist, LinkedOnce, LinksResolve, Undisturbed, Exists, StoreInv
    <2>7. InHand'
      BY <1>3 DEF Persist, Goto, InHand, StoreInv, TypeOK, lockVars, Locks
    <2> QED BY <2>2, <2>4, <2>5, <2>6, <2>7, InstallKeepsCleaned DEF StoreInv
  <1>4. CASE CreateLink(p)
    <2>1. command[p] = "install" /\ at[p] = "in" /\ wheel[p] \in Wheel
      BY <1>4, StepsOf DEF CreateLink, At, LockInv, Shape, InstallSteps
    <2>2. Installs(p)
      BY <1>4, <2>1 DEF Installs, CreateLink, Goto, TypeOK, lockVars, InstallSteps
    <2>3. Counted'
      BY <1>4, <2>1 DEF CreateLink, Counted, StoreInv, TypeOK
    <2>4. Unlinked'
      BY <1>4, <2>1 DEF CreateLink, Unlinked, StoreInv, At, Goto, TypeOK, lockVars
    <2>5. LinkedOnce'
      BY <1>4, <2>1 DEF CreateLink, Unlinked, LinkedOnce, StoreInv, At, TypeOK
    <2>6. LinksResolve'
      <3> SUFFICES ASSUME Undisturbed PROVE \A w \in Wheel : link'[w] # None => link'[w] \in archives'
        BY <1>4 DEF CreateLink, LinksResolve, Undisturbed, Exists
      <3>1. Locks
        BY DEF LockInv, OneFile, Undisturbed, Locks
      <3>2. archive[p] \in archives
        BY <1>4, <3>1 DEF CreateLink, At, InHand, StoreInv
      <3> QED BY <1>4, <3>2 DEF CreateLink, LinksResolve, StoreInv, Exists, TypeOK
    <2>7. InHand'
      BY <1>4 DEF CreateLink, Goto, InHand, StoreInv, TypeOK, At, lockVars, Locks
    <2> QED BY <2>2, <2>3, <2>4, <2>5, <2>6, <2>7, InstallKeepsCleaned DEF StoreInv
  <1>5. CASE WritePointer(p)
    <2>1. command[p] = "install" /\ at[p] = "in" /\ wheel[p] \in Wheel
      BY <1>5, StepsOf DEF WritePointer, At, LockInv, Shape, InstallSteps
    <2>2. Installs(p)
      BY <1>5, <2>1 DEF Installs, WritePointer, Goto, TypeOK, lockVars, InstallSteps
    <2>3. Counted'
      BY <1>5, <2>1 DEF WritePointer, Counted, StoreInv, TypeOK
    <2>4. Unlinked' /\ LinkedOnce' /\ LinksResolve'
      BY <1>5 DEF WritePointer, Goto, Unlinked, LinkedOnce, LinksResolve, Undisturbed, Exists,
                  StoreInv, At, TypeOK, lockVars
    <2>5. InHand'
      BY <1>5 DEF WritePointer, Goto, InHand, StoreInv, TypeOK, At, lockVars, Locks
    <2> QED BY <2>2, <2>3, <2>4, <2>5, InstallKeepsCleaned DEF StoreInv
  <1>6. CASE Fetched(p)
    <2>1. command[p] = "install" /\ at[p] = "in"
      BY <1>6, StepsOf DEF Fetched, At, LockInv, InstallSteps
    <2>2. Installs(p)
      BY <1>6, <2>1 DEF Installs, Fetched, Goto, TypeOK, lockVars, InstallSteps
    <2>3. Counted' /\ Unlinked' /\ LinkedOnce' /\ LinksResolve'
      BY <1>6 DEF Fetched, Goto, Counted, Unlinked, LinkedOnce, LinksResolve, Undisturbed, Exists,
                  StoreInv, At, TypeOK, lockVars
    <2>4. InHand'
      BY <1>6 DEF Fetched, Goto, InHand, StoreInv, TypeOK, At, Exists, lockVars, Locks
    <2> QED BY <2>2, <2>3, <2>4, InstallKeepsCleaned DEF StoreInv
  <1>7. CASE Revalidate(p)
    <2>1. command[p] = "install" /\ at[p] = "in" /\ wheel[p] \in Wheel
      BY <1>7, StepsOf DEF Revalidate, At, LockInv, Shape, InstallSteps
    <2>2. Installs(p)
      BY <1>7, <2>1 DEF Installs, Revalidate, Goto, TypeOK, lockVars, InstallSteps
    <2>3. Counted'
      BY <1>7, <2>1 DEF Revalidate, Counted, StoreInv, TypeOK
    <2>4. Unlinked' /\ LinkedOnce' /\ LinksResolve'
      BY <1>7 DEF Revalidate, Goto, Unlinked, LinkedOnce, LinksResolve, Undisturbed, Exists,
                  StoreInv, At, TypeOK, lockVars
    <2>5. InHand'
      BY <1>7 DEF Revalidate, Goto, InHand, StoreInv, TypeOK, At, lockVars, Locks
    <2> QED BY <2>2, <2>3, <2>4, <2>5, InstallKeepsCleaned DEF StoreInv
  <1>8. CASE RewritePointer(p)
    <2>1. command[p] = "install" /\ at[p] = "in" /\ wheel[p] \in Wheel
      BY <1>8, StepsOf DEF RewritePointer, At, LockInv, Shape, InstallSteps
    <2>2. Installs(p)
      BY <1>8, <2>1 DEF Installs, RewritePointer, Goto, TypeOK, lockVars, InstallSteps
    <2>3. Counted'
      BY <1>8, <2>1 DEF RewritePointer, Counted, StoreInv, TypeOK
    <2>4. Unlinked' /\ LinkedOnce' /\ LinksResolve'
      BY <1>8 DEF RewritePointer, Goto, Unlinked, LinkedOnce, LinksResolve, Undisturbed, Exists,
                  StoreInv, At, TypeOK, lockVars
    <2>5. InHand'
      BY <1>8 DEF RewritePointer, Goto, InHand, StoreInv, TypeOK, At, lockVars, Locks
    <2> QED BY <2>2, <2>3, <2>4, <2>5, InstallKeepsCleaned DEF StoreInv
  <1> QED BY <1>1, <1>2, <1>3, <1>4, <1>5, <1>6, <1>7, <1>8 DEF Install

\* A cleaner removes entries of wheels, searches, and removes archives.
LEMMA CleanKeepsStore ==
    ASSUME TypeOK, TypeOK', LockInv, StoreInv, NEW p \in Process, Clean(p)
    PROVE  StoreInv'
  <1>1. CASE Wiped(p) \/ DropLock(p) \/ RemoveLock(p)
    BY <1>1, AsideSteps, AsideKeepsStore
  <1>2. ASSUME NEW w \in Wheel, EvictLink(p, w) PROVE StoreInv'
    <2>1. at[p] = "in" /\ command[p] # "install" /\ step[p] \in {"evict", "wipe"}
      BY <1>2, StepsOf DEF EvictLink, At, LockInv
    <2>2. UNCHANGED <<at, archives, persisted, pointer, command, wheel, step, archive, snap,
                      history, created>>
      BY <1>2 DEF EvictLink, lockVars
    <2>3. link' = [link EXCEPT ![w] = None]
      BY <1>2 DEF EvictLink
    <2>4. Counted' /\ Unlinked' /\ LinkedOnce'
      BY <2>2, <2>3 DEF Counted, Unlinked, LinkedOnce, StoreInv, At, TypeOK, None
    <2>5. InHand'
      BY <2>2 DEF InHand, StoreInv, Locks
    <2>6. LinksResolve'
      BY <2>2, <2>3 DEF LinksResolve, Undisturbed, Exists, StoreInv, TypeOK
    <2>7. ASSUME Undisturbed, NEW q \in Process, at[q] = "in" PROVE q = p
      BY <2>1, <2>7, NobodyElse
    <2>8. Searched' /\ PruneCollects' /\ RemoveForgets'
      BY <2>1, <2>2, <2>3, <2>7
         DEF Searched, PruneCollects, RemoveForgets, Undisturbed, StoreInv, At, TypeOK
    <2> QED BY <2>4, <2>5, <2>6, <2>8 DEF StoreInv
  <1>3. ASSUME NEW w \in Wheel, EvictPointer(p, w) PROVE StoreInv'
    <2>1. at[p] = "in" /\ command[p] # "install" /\ step[p] \in {"evict", "wipe"}
      BY <1>3, StepsOf DEF EvictPointer, At, LockInv
    <2>2. UNCHANGED <<at, archives, persisted, link, command, wheel, step, archive, snap, history,
                      created>>
      BY <1>3 DEF EvictPointer, lockVars
    <2>3. pointer' = [pointer EXCEPT ![w] = None]
      BY <1>3 DEF EvictPointer
    <2>4. Counted' /\ Unlinked' /\ LinkedOnce'
      BY <2>2, <2>3 DEF Counted, Unlinked, LinkedOnce, StoreInv, At, TypeOK, None
    <2>5. InHand' /\ LinksResolve'
      BY <2>2 DEF InHand, LinksResolve, Undisturbed, Exists, StoreInv, Locks
    <2>6. ASSUME Undisturbed, NEW q \in Process, at[q] = "in" PROVE q = p
      BY <2>1, <2>6, NobodyElse
    <2>7. Searched' /\ PruneCollects' /\ RemoveForgets'
      BY <2>1, <2>2, <2>6
         DEF Searched, PruneCollects, RemoveForgets, Undisturbed, StoreInv, At
    <2> QED BY <2>4, <2>5, <2>7 DEF StoreInv
  <1>4. ASSUME NEW a \in archives, RemoveArchive(p, a) PROVE StoreInv'
    <2>1. /\ at[p] = "in" /\ command[p] # "install" /\ step[p] \in {"sweep", "wipe"}
          /\ step[p] = "sweep" => Unused(p, a) /\ command[p] # "clear"
          /\ step[p] = "wipe" => command[p] = "clear"
      BY <1>4, StepsOf DEF RemoveArchive, At, LockInv
    <2>2. UNCHANGED <<at, persisted, link, pointer, command, wheel, step, archive, snap, history,
                      created>>
      BY <1>4 DEF RemoveArchive, lockVars
    <2>3. archives' = archives \ {a}
      BY <1>4 DEF RemoveArchive
    <2>4. Counted' /\ Unlinked' /\ LinkedOnce'
      BY <2>2, <2>3 DEF Counted, Unlinked, LinkedOnce, StoreInv, At
    <2>5. InHand'
      <3> SUFFICES ASSUME Locks, NEW q \in Process, at[q] = "in"
                   PROVE  step[q] \in {"unlink", "sweep", "wipe"}
        BY <2>2 DEF InHand, Locks
      <3> QED BY <2>1, CleanerAlone
    <2>6. ASSUME Undisturbed PROVE step[p] = "sweep" /\ \A w \in Wheel : link[w] # a
      <3>1. step[p] = "sweep"
        BY <2>1, <2>6 DEF LockInv, OneFile, Undisturbed
      <3>2. a # None
        BY DEF TypeOK, Archive, None
      <3>3. CASE command[p] = "remove"
        BY <2>1, <2>6, <3>1, <3>2, <3>3
           DEF Searched, StoreInv, Unused, LinksResolve
      <3>4. CASE command[p] # "remove"
        <4>1. command[p] \in {"prune", "prune_ci"}
          BY <2>1, <3>1, <3>4 DEF TypeOK, Cleaning
        <4> QED BY <2>1, <2>6, <3>1, <3>4, <4>1 DEF Searched, StoreInv, Unused
      <3> QED BY <3>1, <3>3, <3>4
    <2>7. LinksResolve'
      BY <2>2, <2>3, <2>6 DEF LinksResolve, Undisturbed, Exists, StoreInv
    <2>8. ASSUME Undisturbed, NEW q \in Process, at[q] = "in" PROVE q = p
      BY <2>1, <2>8, NobodyElse
    <2>9. Searched' /\ PruneCollects' /\ RemoveForgets'
      BY <2>1, <2>2, <2>8
         DEF Searched, PruneCollects, RemoveForgets, Undisturbed, StoreInv, At
    <2> QED BY <2>4, <2>5, <2>7, <2>9 DEF StoreInv
  <1>5. CASE Evict(p)
    <2>1. at[p] = "in" /\ step[p] = "evict" /\ command[p] \notin {"install", "clear"}
      BY <1>5, StepsOf DEF Evict, At, LockInv
    <2>2. UNCHANGED <<at, archives, persisted, link, pointer, command, wheel, archive, snap, history,
                      created>>
      BY <1>5 DEF Evict, lockVars
    <2>3. step' = [step EXCEPT ![p] = IF command[p] = "remove" THEN "sweep" ELSE "scan"]
      BY <1>5 DEF Evict, Goto
    <2>4. Counted' /\ Unlinked' /\ LinkedOnce' /\ LinksResolve'
      BY <2>2, <2>3 DEF Counted, Unlinked, LinkedOnce, LinksResolve, Undisturbed, Exists, StoreInv,
                        At, TypeOK
    <2>5. InHand'
      BY <2>2, <2>3 DEF InHand, StoreInv, TypeOK, Locks
    <2>6. ASSUME Undisturbed, NEW q \in Process, at[q] = "in" PROVE q = p
      BY <2>1, <2>6, NobodyElse
    <2>7. command[p] = "remove" /\ Kind[wheel[p]] # "editable" =>
            link[wheel[p]] = None /\ pointer[wheel[p]] = None
      BY <1>5 DEF Evict, Evicted
    <2>8. Searched' /\ PruneCollects' /\ RemoveForgets'
      BY <2>1, <2>2, <2>3, <2>6, <2>7
         DEF Searched, PruneCollects, RemoveForgets, Undisturbed, StoreInv, At, TypeOK
    <2> QED BY <2>4, <2>5, <2>8 DEF StoreInv
  <1>6. CASE Scan(p)
    <2>1. at[p] = "in" /\ step[p] = "scan" /\ command[p] \notin {"install", "clear"}
      BY <1>6, StepsOf DEF Scan, At, LockInv
    <2>2. UNCHANGED <<at, archives, persisted, link, pointer, command, wheel, archive, history,
                      created>>
      BY <1>6 DEF Scan, lockVars
    <2>3. step' = [step EXCEPT ![p] = IF command[p] = "remove" THEN "evict" ELSE "sweep"]
      BY <1>6 DEF Scan, Goto
    <2>4. Undisturbed => \A w \in Wheel : snap'[p][w] = link[w]
      BY <1>6 DEF Scan, LinksResolve, StoreInv, TypeOK
    <2>5. Counted' /\ Unlinked' /\ LinkedOnce' /\ LinksResolve'
      BY <2>2, <2>3 DEF Counted, Unlinked, LinkedOnce, LinksResolve, Undisturbed, Exists, StoreInv,
                        At, TypeOK
    <2>6. InHand'
      BY <2>2, <2>3 DEF InHand, StoreInv, TypeOK, Locks
    <2>7. ASSUME Undisturbed, NEW q \in Process, at[q] = "in" PROVE q = p
      BY <2>1, <2>7, NobodyElse
    <2>8. Searched' /\ PruneCollects' /\ RemoveForgets'
      BY <2>1, <2>2, <2>3, <2>4, <2>7
         DEF Searched, PruneCollects, RemoveForgets, Undisturbed, LinkedOnce, StoreInv, At, TypeOK
    <2> QED BY <2>5, <2>6, <2>8 DEF StoreInv
  <1>7. CASE Swept(p)
    <2>1. at[p] = "in" /\ step[p] = "sweep" /\ command[p] \notin {"install", "clear"}
      BY <1>7, StepsOf DEF Swept, At, LockInv
    <2>2. UNCHANGED <<at, archives, persisted, link, pointer, command, wheel, archive, snap, history,
                      created>>
      BY <1>7 DEF Swept, lockVars
    <2>3. step' = [step EXCEPT ![p] = "end"]
      BY <1>7 DEF Swept, Goto
    <2>4. Counted' /\ Unlinked' /\ LinkedOnce' /\ LinksResolve'
      BY <2>2, <2>3 DEF Counted, Unlinked, LinkedOnce, LinksResolve, Undisturbed, Exists, StoreInv,
                        At, TypeOK
    <2>5. InHand'
      BY <2>2, <2>3 DEF InHand, StoreInv, TypeOK, Locks
    <2>6. ASSUME Undisturbed, NEW q \in Process, at[q] = "in" PROVE q = p
      BY <2>1, <2>6, NobodyElse
    <2>7. Searched'
      BY <2>1, <2>2, <2>3, <2>6 DEF Searched, Undisturbed, StoreInv, TypeOK
    <2>8. PruneCollects'
      <3>1. ASSUME Undisturbed, command[p] \in {"prune", "prune_ci"}
            PROVE  archives = {link[w] : w \in Wheel} \ {None}
        <4>1. \A w \in Wheel : snap[p][w] = link[w]
          BY <2>1, <3>1 DEF Searched, StoreInv
        <4>2. \A a \in archives : \E w \in Wheel : snap[p][w] = a
          BY <1>7, <3>1 DEF Swept, Unused
        <4>3. None \notin archives
          BY DEF TypeOK, Archive, None
        <4>4. \A w \in Wheel : link[w] # None => link[w] \in archives
          BY <3>1 DEF LinksResolve, StoreInv, Exists
        <4> QED BY <4>1, <4>2, <4>3, <4>4
      <3> QED BY <2>2, <2>6, <3>1 DEF PruneCollects, Undisturbed, At
    <2>9. RemoveForgets'
      <3>1. ASSUME Undisturbed, command[p] = "remove", Kind[wheel[p]] \notin {"source", "editable"}
            PROVE  /\ link[wheel[p]] = None /\ pointer[wheel[p]] = None
                   /\ ~Exists(snap[p][wheel[p]])
        <4>1. link[wheel[p]] = None /\ pointer[wheel[p]] = None /\ wheel[p] \in Wheel
          BY <2>1, <3>1 DEF Searched, StoreInv, LockInv, Shape
        <4>2. SUFFICES ASSUME Exists(snap[p][wheel[p]]) PROVE FALSE
          BY <4>1
        <4>3. ~Unused(p, snap[p][wheel[p]])
          BY <1>7, <4>2 DEF Swept, Exists
        <4>4. PICK w \in Wheel : snap[p][w] = snap[p][wheel[p]] /\ Exists(link[w])
          BY <3>1, <4>1, <4>3 DEF Unused
        <4>5. w = wheel[p]
          BY <2>1, <3>1, <4>1, <4>2, <4>4 DEF Searched, StoreInv, Exists
        <4> QED BY <4>1, <4>4, <4>5 DEF Exists
      <3> QED BY <2>2, <2>6, <3>1 DEF RemoveForgets, Undisturbed, At, Exists
    <2> QED BY <2>4, <2>5, <2>7, <2>8, <2>9 DEF StoreInv
  <1>8. CASE Unmatched(p)
    <2>1. /\ at[p] = "in" /\ step[p] = "evict" /\ command[p] = "remove"
          /\ Kind[wheel[p]] = "source"
      BY <1>8 DEF Unmatched, At
    <2>2. UNCHANGED <<at, archives, persisted, link, pointer, command, wheel, archive, snap, history,
                      created>>
      BY <1>8 DEF Unmatched, lockVars
    <2>3. step' = [step EXCEPT ![p] = "sweep"]
      BY <1>8 DEF Unmatched, Goto
    <2>4. Counted' /\ Unlinked' /\ LinkedOnce' /\ LinksResolve'
      BY <2>2, <2>3 DEF Counted, Unlinked, LinkedOnce, LinksResolve, Undisturbed, Exists, StoreInv,
                        At, TypeOK
    <2>5. InHand'
      BY <2>2, <2>3 DEF InHand, StoreInv, TypeOK, Locks
    <2>6. ASSUME Undisturbed, NEW q \in Process, at[q] = "in" PROVE q = p
      BY <2>1, <2>6, NobodyElse
    <2>7. Searched' /\ PruneCollects' /\ RemoveForgets'
      BY <2>1, <2>2, <2>3, <2>6
         DEF Searched, PruneCollects, RemoveForgets, Undisturbed, StoreInv, At, TypeOK
    <2> QED BY <2>4, <2>5, <2>7 DEF StoreInv
  <1> QED BY <1>1, <1>2, <1>3, <1>4, <1>5, <1>6, <1>7, <1>8 DEF Clean

\* Every step keeps what is known of the store.
LEMMA StoreStep == TypeOK /\ TypeOK' /\ LockInv /\ StoreInv /\ [Next]_vars => StoreInv'
  <1> SUFFICES ASSUME TypeOK, TypeOK', LockInv, StoreInv, [Next]_vars PROVE StoreInv'
    OBVIOUS
  <1>1. ASSUME NEW p \in Process,
               \/ \E c \in Command, w \in Wheel : Begin(p, c, w)
               \/ Enter(p) \/ Wait(p) \/ Unlocked(p) \/ Forced(p) \/ Reopen(p) \/ Die(p) \/ Finish(p)
        PROVE  StoreInv'
    BY <1>1, AsideSteps, AsideKeepsStore
  <1>2. ASSUME NEW p \in Process, Install(p) PROVE StoreInv'
    BY <1>2, InstallKeepsStore
  <1>3. ASSUME NEW p \in Process, Clean(p) PROVE StoreInv'
    BY <1>3, CleanKeepsStore
  <1>4. CASE UNCHANGED vars
    BY <1>4 DEF vars, lockVars, storeVars, StoreInv, Counted, Unlinked, LinkedOnce, InHand, Searched,
                LinksResolve, PruneCollects, RemoveForgets, Undisturbed, At, Exists, Locks
  <1> QED BY <1>1, <1>2, <1>3, <1>4 DEF Next
-----------------------------------------------------------------------------
\* The initial states satisfy the inductive invariant.
LEMMA InitInductive == Init => IInv
  <1> SUFFICES ASSUME Init PROVE IInv
    OBVIOUS
  <1> USE DEF Init, LockInit, NoFile, None
  <1>1. TypeOK
    BY StoreAssumption, MaxFilesAssumption
       DEF TypeOK, LockTypeOK, Archive, File, Mode, Where, Cleaning, Location
  <1>2. LockInv
    BY DEF LockInv, Shape, Opened, Locked, Bypassed, At, Compatible, OneFile
  <1>3. StoreInv
    BY DEF StoreInv, Counted, Unlinked, LinkedOnce, InHand, Searched, LinksResolve, PruneCollects,
           RemoveForgets, At
  <1> QED BY <1>1, <1>2, <1>3 DEF IInv

\* The inductive invariant holds in every state a cache directory can reach.
THEOREM StoreInductive == Spec => []IInv
  <1>1. IInv /\ [Next]_vars => IInv'
    BY TypeStep, LockStep, StoreStep DEF IInv, LockInv
  <1> QED BY InitInductive, <1>1, PTL DEF Spec

\* Files, pointers, links, locks and program counters keep their types.
THEOREM StoreTypeCorrect == Spec => []TypeOK
  <1>1. IInv => TypeOK BY DEF IInv
  <1> QED BY StoreInductive, <1>1, PTL

\* An archive that was handed to the installer, for a wheel of a remote index or
\* one built from source, stays until it is installed.
THEOREM InstalledIsThere == Spec => []InstallsWhole
  <1>1. IInv => InstallsWhole
    <2> SUFFICES ASSUME IInv, Locks, NEW p \in Process, Installing(p),
                        Kind[wheel[p]] \in {"registry"} \cup FromSource
                 PROVE  Exists(archive[p])
      BY DEF InstallsWhole
    <2>1. archive[p] \in archives
      BY DEF IInv, StoreInv, InHand, Installing, At
    <2> QED BY <2>1 DEF IInv, TypeOK, Archive, None, Exists
  <1> QED BY StoreInductive, <1>1, PTL

\* Links resolve, whatever processes die between moving an archive and linking
\* it, as long as no cleaner was forced and none was `clear`.
THEOREM LinksAlwaysResolve == Spec => []LinksResolve
  <1>1. IInv => LinksResolve BY DEF IInv, StoreInv
  <1> QED BY StoreInductive, <1>1, PTL

\* `prune` leaves the archives that are linked and no others.
THEOREM PruneLeavesLinked == Spec => []PruneCollects
  <1>1. IInv => PruneCollects BY DEF IInv, StoreInv
  <1> QED BY StoreInductive, <1>1, PTL

\* `remove` leaves nothing of a wheel that is kept under the name of its package:
\* no link, no pointer and no archive.
THEOREM RemoveLeavesNothing == Spec => []RemoveForgets
  <1>1. IInv => RemoveForgets BY DEF IInv, StoreInv
  <1> QED BY StoreInductive, <1>1, PTL
=============================================================================
