------------------------- MODULE ResolverFetchProofs -------------------------
(***************************************************************************)
(* The protocol of solvers and fetchers, for any number of nested          *)
(* resolutions, packages and distributions, and a channel of any capacity. *)
(***************************************************************************)
EXTENDS ResolverFetch, TLAPS

\* Where solver r is, or will be once it has sent its request.
At(r) == IF pc[r] = "sending" THEN send[r].then ELSE pc[r]

\* Where it decides on a package, and on a distribution.
OnPackage == {"versions", "candidate"}
OnDist    == {"batch", "metadata", "dependencies"}

Registered(k) == index[k] # "absent"

\* A solver decides on what it has registered, and when it has visited all
\* dependencies.
SolverOK(r) ==
    /\ pc[r] = "sending" => send[r].key \in Key /\ send[r].then \in {"visit", "versions", "batch"}
    /\ At(r) \in OnPackage => focus[r] \in Package
    /\ At(r) \in OnDist => focus[r] \in Dist
    /\ At(r) \in OnPackage \cup OnDist => Registered(focus[r])
    /\ At(r) \in OnPackage \cup OnDist \cup {"propagate"} => agenda[r] = {}

\* What the partial solution mentions has been visited, or is about to be.
Announced(r) ==
    \A p \in Known(r) \ AnyUrl[r] : p \in agenda[r] \/ Registered(p)

\* A fetcher that does not run has no work, and a resolution that has ended, or
\* not begun, no solver at work.
LifeOK(r) ==
    /\ life[r] # "live" => queue[r] = <<>> /\ inflight[r] = {}
    /\ life[r] = "unborn" <=> pc[r] = "unborn"
    /\ life[r] \in {"ok", "err"} => pc[r] \in Ended

\* What is requested is registered.
RequestsOK(r) ==
    /\ pc[r] = "sending" => Registered(send[r].key)
    /\ \A i \in 1..Len(queue[r]) : Registered(queue[r][i].key)
    /\ \A task \in inflight[r] : Registered(task.key)

EachOK(r) == SolverOK(r) /\ Announced(r) /\ LifeOK(r) /\ RequestsOK(r)

IInv ==
    /\ TypeOK /\ NoUnregisteredTask
    /\ \A r \in Resolver : EachOK(r)
    /\ FetchedOnce /\ JobsOwned
-----------------------------------------------------------------------------
(* Requests, and what a step does to the place of a fetch.                 *)

\* A fetch is told from a prefetch by its kind, and from another fetch by its key.
LEMMA RequestShape ==
    /\ \A k \in Key : FetchOf(k) \in Request /\ FetchOf(k).key = k /\ FetchOf(k).kind # "Prefetch"
    /\ \A p \in Package :
          Prefetch(p) \in Request /\ Prefetch(p).key = p /\ Prefetch(p).kind = "Prefetch"
    /\ \A task \in Request : task.key \in Key
    /\ \A task \in Request : task.kind # "Prefetch" => task = FetchOf(task.key)
    /\ \A p \in Package, k \in Key : Prefetch(p) # FetchOf(k)
    /\ \A j, k \in Key : FetchOf(j) = FetchOf(k) => j = k
BY FetchAssumption DEF FetchOf, Prefetch, Request, Key

Grows == \A k \in Key : Registered(k) => Registered(k)'

\* A resolution that a step leaves alone keeps its part of the invariant, as
\* long as no key is unregistered.
LEMMA OtherEach ==
    ASSUME TypeOK, Grows, NEW q \in Resolver, EachOK(q),
           pc'[q] = pc[q], send'[q] = send[q], focus'[q] = focus[q], agenda'[q] = agenda[q],
           pins'[q] = pins[q], life'[q] = life[q], queue'[q] = queue[q], inflight'[q] = inflight[q]
    PROVE  EachOK(q)'
<1>1. SolverOK(q)'
  BY DEF EachOK, SolverOK, Grows, At, OnPackage, OnDist, Key
<1>2. Announced(q)'
  <2>1. Known(q) \subseteq Key
    BY FetchAssumption DEF Known, TypeOK, Key
  <2>2. Known(q)' = Known(q)
    BY DEF Known
  <2> QED BY <2>1, <2>2 DEF EachOK, Announced, Grows
<1>3. LifeOK(q)'
  BY DEF EachOK, LifeOK
<1>4. RequestsOK(q)'
  <2>1. \A i \in 1..Len(queue[q]) : queue[q][i] \in Request
    BY DEF TypeOK
  <2>2. \A task \in inflight[q] : task \in Request
    BY DEF TypeOK
  <2> QED BY <2>1, <2>2, RequestShape DEF EachOK, RequestsOK, SolverOK, Grows
<1> QED BY <1>1, <1>2, <1>3, <1>4 DEF EachOK

\* A key that is not registered is fetched nowhere.
LEMMA FreeKey ==
    ASSUME TypeOK, \A r \in Resolver : EachOK(r), NEW k \in Key, index[k] = "absent"
    PROVE  \A r \in Resolver : /\ ~Sending(r, k) /\ ~Fetching(r, k)
                               /\ \A i \in 1..Len(queue[r]) : ~Queued(r, i, k)
BY RequestShape DEF EachOK, RequestsOK, Registered, Sending, Fetching, Queued

\* Fetches that stay where they are, or are dropped, stay in one place.
LEMMA OnceKept ==
    ASSUME FetchedOnce,
           \A q \in Resolver : queue'[q] = queue[q] \/ queue'[q] = <<>>,
           \A q \in Resolver, k \in Key :
              (Sending(q, k)' => Sending(q, k)) /\ (Fetching(q, k)' => Fetching(q, k))
    PROVE  FetchedOnce'
<1>1. \A q \in Resolver, k \in Key : \A i \in 1..Len(queue'[q]) :
        Queued(q, i, k)' => i \in 1..Len(queue[q]) /\ Queued(q, i, k)
  BY DEF Queued
<1> QED BY <1>1 DEF FetchedOnce

\* A fetch that was nowhere is in one place when a solver or a fetcher has it.
LEMMA OnceNew ==
    ASSUME FetchedOnce, TypeOK, NEW r \in Resolver, NEW k \in Key,
           \A q \in Resolver : /\ ~Sending(q, k) /\ ~Fetching(q, k)
                               /\ \A i \in 1..Len(queue[q]) : ~Queued(q, i, k),
           queue' = queue,
           \A q \in Resolver, j \in Key :
              /\ Sending(q, j)' => Sending(q, j) \/ (q = r /\ j = k)
              /\ Fetching(q, j)' => Fetching(q, j) \/ (q = r /\ j = k),
           ~(Sending(r, k)' /\ Fetching(r, k)')
    PROVE  FetchedOnce'
<1>1. \A q \in Resolver, j \in Key : \A i \in 1..Len(queue'[q]) :
        i \in 1..Len(queue[q]) /\ (Queued(q, i, j)' <=> Queued(q, i, j))
  BY DEF Queued
<1> QED BY <1>1 DEF FetchedOnce

\* A key that stays registered has its fetch where it was.
LEMMA OwnedKept ==
    ASSUME NEW k \in Key, HasOwner(k), queue' = queue,
           \A q \in Resolver :
              (Sending(q, k) => Sending(q, k)') /\ (Fetching(q, k) => Fetching(q, k)')
    PROVE  HasOwner(k)'
<1>1. PICK q \in Resolver :
        Sending(q, k) \/ Fetching(q, k) \/ \E i \in 1..Len(queue[q]) : Queued(q, i, k)
  BY DEF HasOwner
<1>2. \A i : Queued(q, i, k) => Queued(q, i, k)'
  BY DEF Queued
<1> QED BY <1>1, <1>2 DEF HasOwner
-----------------------------------------------------------------------------
(* Steps of solvers, by what they do to the index and to requests.         *)

\* A solver that is at work, and not sending.
Thinking(r) == pc[r] \notin Ended \cup {"unborn", "sending"}

\* The other solvers do nothing.
Alone(r) ==
    \A q \in Resolver \ {r} : /\ pc'[q] = pc[q] /\ send'[q] = send[q] /\ focus'[q] = focus[q]
                              /\ agenda'[q] = agenda[q] /\ pins'[q] = pins[q]

\* A step of a solver that registers and sends nothing.
LEMMA LocalStep ==
    ASSUME IInv, TypeOK', NEW r \in Resolver, Thinking(r), Alone(r),
           UNCHANGED <<index, life, stack, send, queue, inflight>>,
           pc'[r] \notin {"unborn", "sending", "unhashed", "unregistered"},
           SolverOK(r)', Announced(r)'
    PROVE  IInv'
<1>1. Grows
  BY DEF Grows, Registered
<1>2. EachOK(r)'
  <2>1. LifeOK(r)'
    BY DEF IInv, EachOK, LifeOK, Thinking, Ended
  <2>2. RequestsOK(r)'
    BY DEF IInv, EachOK, RequestsOK, Registered
  <2> QED BY <2>1, <2>2 DEF EachOK
<1>3. \A q \in Resolver : EachOK(q)'
  <2> SUFFICES ASSUME NEW q \in Resolver, q # r PROVE EachOK(q)'
    BY <1>2
  <2> QED BY <1>1, OtherEach DEF IInv, Alone
<1>4. NoUnregisteredTask'
  BY DEF IInv, NoUnregisteredTask, Alone
<1>5. \A q \in Resolver, k \in Key :
        (Sending(q, k)' <=> Sending(q, k)) /\ (Fetching(q, k)' <=> Fetching(q, k))
  BY DEF Sending, Fetching, Alone, Thinking
<1>6. FetchedOnce'
  BY <1>5, OnceKept DEF IInv
<1>7. JobsOwned'
  <2>1. \A q \in Resolver : CutShort(q) => CutShort(q)'
    BY DEF CutShort, Alone, Thinking, Ended
  <2> SUFFICES ASSUME \A q \in Resolver : ~CutShort(q)', NEW k \in Key, index'[k] = "waiting"
               PROVE  HasOwner(k)'
    BY DEF JobsOwned
  <2>2. HasOwner(k)
    BY <2>1 DEF IInv, JobsOwned
  <2> QED BY <2>2, <1>5, OwnedKept
<1> QED BY <1>3, <1>4, <1>6, <1>7 DEF IInv

\* A step of a solver that registers a key and goes on to send its request.
LEMMA RegisterStep ==
    ASSUME IInv, TypeOK', NEW r \in Resolver, Thinking(r), Alone(r), NEW k \in Key,
           index[k] = "absent", index' = [index EXCEPT ![k] = "waiting"],
           pc'[r] = "sending", send'[r].key = k,
           UNCHANGED <<life, stack, queue, inflight>>,
           SolverOK(r)', Announced(r)'
    PROVE  IInv'
<1>0. index \in [Key -> {"absent", "waiting"} \cup Response] /\ index'[k] = "waiting"
  BY DEF IInv, TypeOK
<1>1. Grows
  BY <1>0 DEF Grows, Registered
<1>2. EachOK(r)'
  <2>1. LifeOK(r)'
    BY DEF IInv, EachOK, LifeOK, Thinking, Ended
  <2>2. RequestsOK(r)'
    <3>1. \A i \in 1..Len(queue[r]) : queue[r][i].key \in Key
      BY RequestShape DEF IInv, TypeOK
    <3>2. \A task \in inflight[r] : task.key \in Key
      BY RequestShape DEF IInv, TypeOK
    <3>3. Registered(k)'
      BY <1>0 DEF Registered
    <3> QED BY <3>1, <3>2, <3>3, <1>1 DEF IInv, EachOK, RequestsOK, Grows
  <2> QED BY <2>1, <2>2 DEF EachOK
<1>3. \A q \in Resolver : EachOK(q)'
  <2> SUFFICES ASSUME NEW q \in Resolver, q # r PROVE EachOK(q)'
    BY <1>2
  <2> QED BY <1>1, OtherEach DEF IInv, Alone
<1>4. NoUnregisteredTask'
  BY DEF IInv, NoUnregisteredTask, Alone
<1>5. \A q \in Resolver, j \in Key :
        /\ Sending(q, j)' <=> Sending(q, j) \/ (q = r /\ j = k)
        /\ Fetching(q, j)' <=> Fetching(q, j)
  BY DEF Sending, Fetching, Alone, Thinking
<1>6. FetchedOnce'
  BY <1>5, OnceNew, FreeKey DEF IInv
<1>7. JobsOwned'
  <2>1. \A q \in Resolver : CutShort(q) => CutShort(q)'
    BY DEF CutShort, Alone, Thinking, Ended
  <2> SUFFICES ASSUME \A q \in Resolver : ~CutShort(q)', NEW j \in Key, index'[j] = "waiting"
               PROVE  HasOwner(j)'
    BY DEF JobsOwned
  <2>2. CASE j = k
    BY <2>2, <1>5 DEF HasOwner
  <2>3. CASE j # k
    <3>1. HasOwner(j)
      BY <2>1, <2>3, <1>0 DEF IInv, JobsOwned
    <3> QED BY <3>1, <1>5, OwnedKept
  <2> QED BY <2>2, <2>3
<1> QED BY <1>3, <1>4, <1>6, <1>7 DEF IInv

\* `register`, and the request if the key is new.
LEMMA RegisterTypes ==
    ASSUME TypeOK, NEW r \in Resolver, NEW k \in Key, NEW l \in Location \ {"sending"},
           RegisterAndSend(r, k, l)
    PROVE  /\ index' \in [Key -> {"absent", "waiting"} \cup Response]
           /\ pc' \in [Resolver -> Location]
           /\ send' \in [Resolver -> [key : Key \cup {Root}, then : Location]]
           /\ Registered(k)' /\ Grows
           /\ \A q \in Resolver \ {r} : pc'[q] = pc[q] /\ send'[q] = send[q]
           /\ pc'[r] \in {l, "sending"} /\ At(r)' = l
           /\ pc'[r] = "sending" => send'[r].key = k /\ send'[r].then = l
<1>1. "waiting" # "absent" /\ "sending" \in Location /\ k \in Key \cup {Root}
  BY DEF Location
<1>2. CASE index[k] = "absent"
  <2> DEFINE s == [key |-> k, then |-> l]
  <2>1. s \in [key : Key \cup {Root}, then : Location] /\ s.key = k /\ s.then = l
    BY <1>1
  <2> HIDE DEF s
  <2>2. /\ index' = [index EXCEPT ![k] = "waiting"] /\ send' = [send EXCEPT ![r] = s]
        /\ pc' = [pc EXCEPT ![r] = "sending"]
    BY <1>2 DEF RegisterAndSend, Goto, s
  <2>3. /\ index' \in [Key -> {"absent", "waiting"} \cup Response]
        /\ index'[k] = "waiting" /\ \A j \in Key : j # k => index'[j] = index[j]
    BY <2>2 DEF TypeOK
  <2>4. /\ pc' \in [Resolver -> Location] /\ pc'[r] = "sending"
        /\ send' \in [Resolver -> [key : Key \cup {Root}, then : Location]] /\ send'[r] = s
        /\ \A q \in Resolver \ {r} : pc'[q] = pc[q] /\ send'[q] = send[q]
    BY <1>1, <2>1, <2>2 DEF TypeOK
  <2> QED BY <1>1, <2>1, <2>3, <2>4 DEF Registered, Grows, At
<1>3. CASE index[k] # "absent"
  <2>1. index' = index /\ send' = send /\ pc' = [pc EXCEPT ![r] = l]
    BY <1>3 DEF RegisterAndSend, Goto
  <2>2. /\ pc' \in [Resolver -> Location] /\ pc'[r] = l
        /\ \A q \in Resolver \ {r} : pc'[q] = pc[q]
    BY <2>1 DEF TypeOK
  <2> QED BY <1>3, <2>1, <2>2 DEF Registered, Grows, At, TypeOK
<1> QED BY <1>2, <1>3

\* A step that goes on with `register`.
LEMMA RegisterOrGo ==
    ASSUME IInv, TypeOK', NEW r \in Resolver, Thinking(r), Alone(r),
           NEW k \in Key, NEW l \in {"visit", "versions", "batch"}, RegisterAndSend(r, k, l),
           UNCHANGED <<life, stack, queue, inflight>>, pins'[r] = pins[r],
           l = "versions" => focus'[r] = k /\ k \in Package,
           l = "batch" => focus'[r] \in Dist /\ Registered(focus[r])',
           l # "visit" => agenda'[r] = {},
           \A p \in agenda[r] : p = k \/ p \in agenda'[r]
    PROVE  IInv'
<1>0. l \in Location \ {"sending"} /\ TypeOK /\ pc[r] # "sending"
  BY DEF Location, IInv, Thinking
<1>1. /\ Registered(k)' /\ Grows /\ At(r)' = l /\ pc'[r] \in {l, "sending"}
      /\ pc'[r] = "sending" => send'[r].key = k /\ send'[r].then = l
  BY <1>0, RegisterTypes
<1>2. SolverOK(r)'
  BY <1>1 DEF SolverOK, OnPackage, OnDist
<1>3. Announced(r)'
  <2>1. Known(r) \subseteq Key /\ Known(r)' = Known(r)
    BY FetchAssumption, <1>0 DEF Known, TypeOK, Key
  <2> QED BY <2>1, <1>1 DEF IInv, EachOK, Announced, Grows
<1>4. CASE index[k] = "absent"
  <2>1. index' = [index EXCEPT ![k] = "waiting"] /\ pc'[r] = "sending"
    BY <1>4, <1>0 DEF RegisterAndSend, Goto, TypeOK
  <2> QED BY <2>1, <1>1, <1>2, <1>3, <1>4, RegisterStep
<1>5. CASE index[k] # "absent"
  <2>1. UNCHANGED <<index, send>> /\ pc'[r] = l
    BY <1>5, <1>0 DEF RegisterAndSend, Goto, TypeOK
  <2> QED BY <2>1, <1>2, <1>3, LocalStep
<1> QED BY <1>4, <1>5

\* A dependency that was visited is registered.
LEMMA VisitStep == ASSUME IInv, NEW r \in Resolver, NEW p \in Package, Visit(r, p) PROVE IInv'
<1>0. TypeOK /\ p \in Key /\ "visit" \in Location \ {"sending"} /\ RegisterAndSend(r, p, "visit")
  BY DEF IInv, Key, Location, Visit
<1>1. /\ agenda' \in [Resolver -> SUBSET Package] /\ agenda'[r] = agenda[r] \ {p}
      /\ \A q \in Resolver \ {r} : agenda'[q] = agenda[q]
  BY <1>0 DEF TypeOK, Visit
<1>2. TypeOK'
  BY <1>0, <1>1, RegisterTypes DEF TypeOK, Visit
<1>3. Thinking(r)
  BY DEF Visit, Thinking, Ended
<1>4. Alone(r)
  BY <1>0, <1>1, RegisterTypes DEF Alone, Visit
<1>5. UNCHANGED <<life, stack, queue, inflight>> /\ pins'[r] = pins[r]
  BY DEF Visit
<1> QED BY <1>0, <1>1, <1>2, <1>3, <1>4, <1>5, RegisterOrGo

\* The package that is picked is registered before its versions are awaited.
LEMMA PickStep == ASSUME IInv, NEW r \in Resolver, NEW p \in Package, Pick(r, p) PROVE IInv'
<1>0. TypeOK /\ p \in Key /\ "versions" \in Location \ {"sending"} /\ RegisterAndSend(r, p, "versions")
  BY DEF IInv, Key, Location, Pick
<1>1. /\ focus' \in [Resolver -> Key \cup {Root}] /\ focus'[r] = p
      /\ \A q \in Resolver \ {r} : focus'[q] = focus[q]
  BY <1>0 DEF TypeOK, Pick
<1>2. TypeOK'
  BY <1>0, <1>1, RegisterTypes DEF TypeOK, Pick
<1>3. Thinking(r)
  BY DEF Pick, Thinking, Ended
<1>4. Alone(r)
  BY <1>0, <1>1, RegisterTypes DEF Alone, Pick
<1>5. UNCHANGED <<life, stack, queue, inflight, agenda>> /\ pins'[r] = pins[r]
  BY DEF Pick
<1>6. agenda[r] = {}
  BY DEF IInv, EachOK, SolverOK, At, Pick
<1> QED BY <1>0, <1>1, <1>2, <1>3, <1>4, <1>5, <1>6, RegisterOrGo

\* A wheel requested ahead is registered; the candidate stays so.
LEMMA BatchPrefetchStep ==
    ASSUME IInv, NEW r \in Resolver, NEW d \in Dist, BatchPrefetch(r, d) PROVE IInv'
<1>0. TypeOK /\ d \in Key /\ "batch" \in Location \ {"sending"} /\ RegisterAndSend(r, d, "batch")
  BY DEF IInv, Key, Location, BatchPrefetch
<1>2. TypeOK'
  BY <1>0, RegisterTypes DEF TypeOK, BatchPrefetch
<1>3. Thinking(r)
  BY DEF BatchPrefetch, Thinking, Ended
<1>4. Alone(r)
  BY <1>0, RegisterTypes DEF Alone, BatchPrefetch
<1>5. UNCHANGED <<life, stack, queue, inflight, agenda, focus>> /\ pins'[r] = pins[r]
  BY DEF BatchPrefetch
<1>6. agenda[r] = {} /\ focus[r] \in Dist /\ focus[r] \in Key /\ Registered(focus[r])
  BY DEF IInv, EachOK, SolverOK, At, BatchPrefetch, OnDist, Key
<1>7. Registered(focus[r])'
  BY <1>0, <1>5, <1>6, RegisterTypes DEF Grows
<1> QED BY <1>0, <1>2, <1>3, <1>4, <1>5, <1>6, <1>7, RegisterOrGo

\* `UNCHANGED` of all but the location of a solver.
LEMMA GotoTypes ==
    ASSUME TypeOK, NEW r \in Resolver, NEW l \in Location, Goto(r, l)
    PROVE  /\ pc' \in [Resolver -> Location] /\ pc'[r] = l
           /\ \A q \in Resolver \ {r} : pc'[q] = pc[q]
BY DEF TypeOK, Goto

\* A step that neither requests nor selects anything.
LEMMA GoOn ==
    ASSUME IInv, TypeOK', NEW r \in Resolver, Thinking(r), Alone(r),
           UNCHANGED <<index, life, stack, send, focus, agenda, queue, inflight>>,
           pins'[r] \subseteq pins[r],
           pc'[r] \notin {"unborn", "sending", "unhashed", "unregistered"},
           pc'[r] \in OnPackage \cup OnDist => pc[r] \in OnPackage \cup OnDist,
           pc'[r] \in OnPackage => pc[r] \in OnPackage,
           pc'[r] \in OnDist => pc[r] \in OnDist,
           pc'[r] \in OnPackage \cup OnDist \cup {"propagate"} => agenda[r] = {}
    PROVE  IInv'
<1>1. At(r) = pc[r] /\ At(r)' = pc'[r]
  BY DEF At, Thinking
<1>2. SolverOK(r)'
  BY <1>1 DEF IInv, EachOK, SolverOK, Registered
<1>3. Announced(r)'
  <2>1. Known(r)' \subseteq Known(r)
    BY DEF Known
  <2> QED BY <2>1 DEF IInv, EachOK, Announced, Registered
<1> QED BY <1>2, <1>3, LocalStep

\* All dependencies were visited when the solver propagates.
LEMMA PropagateStep == ASSUME IInv, NEW r \in Resolver, Propagate(r) PROVE IInv'
<1>0. TypeOK /\ "propagate" \in Location /\ Goto(r, "propagate")
  BY DEF IInv, Location, Propagate
<1>1. TypeOK'
  BY <1>0, GotoTypes DEF TypeOK, Propagate
<1>2. Thinking(r) /\ Alone(r)
  BY <1>0, GotoTypes DEF Propagate, Thinking, Ended, Alone
<1> QED BY <1>0, <1>1, <1>2, GotoTypes, GoOn DEF Propagate, OnPackage, OnDist

\* A solver that is done waits for nothing.
LEMMA SolvedStep == ASSUME IInv, NEW r \in Resolver, Solved(r) PROVE IInv'
<1>0. TypeOK /\ "solved" \in Location /\ Goto(r, "solved")
  BY DEF IInv, Location, Solved
<1>1. TypeOK'
  BY <1>0, GotoTypes DEF TypeOK, Solved
<1>2. Thinking(r) /\ Alone(r)
  BY <1>0, GotoTypes DEF Solved, Thinking, Ended, Alone
<1> QED BY <1>0, <1>1, <1>2, GotoTypes, GoOn DEF Solved, OnPackage, OnDist

\* The candidate whose metadata the solver goes on to await was registered.
LEMMA BatchEndStep == ASSUME IInv, NEW r \in Resolver, BatchEnd(r) PROVE IInv'
<1>0. TypeOK /\ "metadata" \in Location /\ Goto(r, "metadata")
  BY DEF IInv, Location, BatchEnd
<1>1. TypeOK'
  BY <1>0, GotoTypes DEF TypeOK, BatchEnd
<1>2. Thinking(r) /\ Alone(r)
  BY <1>0, GotoTypes DEF BatchEnd, Thinking, Ended, Alone
<1>3. agenda[r] = {}
  BY DEF IInv, EachOK, SolverOK, At, BatchEnd, OnDist
<1> QED BY <1>0, <1>1, <1>2, <1>3, GotoTypes, GoOn DEF BatchEnd, OnPackage, OnDist

\* `wait_blocking` finds its key registered.
LEMMA WaitStep == ASSUME IInv, NEW r \in Resolver, Wait(r) PROVE IInv'
<1>0. TypeOK /\ pc[r] \in {"versions", "metadata"}
  BY DEF IInv, Wait
<1>1. Registered(focus[r]) /\ agenda[r] = {}
  BY <1>0 DEF IInv, EachOK, SolverOK, At, OnPackage, OnDist
<1> DEFINE l == IF pc[r] = "versions" THEN "candidate" ELSE "dependencies"
<1>2. l \in Location /\ Goto(r, l) /\ UNCHANGED index
  BY <1>1 DEF Wait, Registered, Location
<1> HIDE DEF l
<1>3. TypeOK'
  BY <1>0, <1>2, GotoTypes DEF TypeOK, Wait
<1>4. Thinking(r) /\ Alone(r)
  BY <1>0, <1>2, GotoTypes DEF Wait, Thinking, Ended, Alone
<1>5. pc'[r] = l
  BY <1>0, <1>2, GotoTypes
<1> QED BY <1>0, <1>1, <1>2, <1>3, <1>4, <1>5, GoOn DEF Wait, OnPackage, OnDist, l

\* Backtracking keeps some of the selected distributions.
LEMMA GiveUpTypes ==
    ASSUME TypeOK, NEW r \in Resolver, NEW d \in Dist, GiveUp(r, d)
    PROVE  /\ pc' \in [Resolver -> Location] /\ pc'[r] = "propagate"
           /\ pins' \in [Resolver -> SUBSET Dist] /\ pins'[r] \subseteq pins[r]
           /\ rejected' \in [Resolver -> SUBSET Dist] /\ preVisited' \in [Resolver -> SUBSET Package]
           /\ \A q \in Resolver \ {r} : pc'[q] = pc[q] /\ pins'[q] = pins[q]
<1>1. "propagate" \in Location /\ Goto(r, "propagate")
  BY DEF Location, GiveUp
<1>2. PICK keep \in SUBSET (pins[r] \ {d}) :
         /\ pins' = [pins EXCEPT ![r] = keep]
         /\ preVisited' = [preVisited EXCEPT ![r] = @ \ ({Of[d]} \cup Reranged(pins[r] \ keep))]
  BY DEF GiveUp
<1>3. /\ pins' \in [Resolver -> SUBSET Dist] /\ pins'[r] \subseteq pins[r]
      /\ \A q \in Resolver \ {r} : pins'[q] = pins[q]
  BY <1>2 DEF TypeOK
<1>4. rejected' \in [Resolver -> SUBSET Dist] /\ preVisited' \in [Resolver -> SUBSET Package]
  BY <1>2 DEF TypeOK, GiveUp
<1> QED BY <1>1, <1>3, <1>4, GotoTypes

\* A solver that backtracks mentions no package it did not mention before.
LEMMA BacktrackStep ==
    ASSUME IInv, NEW r \in Resolver, NEW d \in Dist, GiveUp(r, d), agenda[r] = {}, Thinking(r),
           UNCHANGED <<index, life, stack, send, focus, agenda, queue, inflight>>
    PROVE  IInv'
<1>0. TypeOK
  BY DEF IInv
<1>1. TypeOK'
  BY <1>0, GiveUpTypes DEF TypeOK
<1>2. Alone(r)
  BY <1>0, GiveUpTypes DEF Alone
<1> QED BY <1>0, <1>1, <1>2, GiveUpTypes, GoOn DEF OnPackage, OnDist

\* The solver gives the resolution up.
LEMMA FailStep ==
    ASSUME IInv, NEW r \in Resolver, Goto(r, "failed"), Thinking(r),
           UNCHANGED <<index, life, stack, send, focus, agenda, pins, rejected, queue, inflight>>,
           preVisited' \in [Resolver -> SUBSET Package]
    PROVE  IInv'
<1>0. TypeOK /\ "failed" \in Location
  BY DEF IInv, Location
<1>1. TypeOK'
  BY <1>0, GotoTypes DEF TypeOK
<1>2. Alone(r)
  BY <1>0, GotoTypes DEF Alone
<1> QED BY <1>0, <1>1, <1>2, GotoTypes, GoOn DEF OnPackage, OnDist

\* A package without versions: a distribution is given up, or the resolution.
LEMMA NoVersionsStep == ASSUME IInv, NEW r \in Resolver, NoVersions(r) PROVE IInv'
<1>1. TypeOK /\ Thinking(r) /\ agenda[r] = {} /\ preVisited \in [Resolver -> SUBSET Package]
  BY DEF IInv, TypeOK, EachOK, SolverOK, At, NoVersions, Thinking, Ended, OnPackage
<1>2. CASE \E d \in pins[r] : focus[r] \in Depends[d] /\ GiveUp(r, d)
  <2>1. PICK d \in pins[r] : GiveUp(r, d)
    BY <1>2
  <2>2. d \in Dist
    BY <1>1 DEF TypeOK
  <2> QED BY <1>1, <2>1, <2>2, BacktrackStep DEF NoVersions
<1>3. CASE Goto(r, "failed") /\ UNCHANGED <<pins, rejected, preVisited>>
  BY <1>1, <1>3, FailStep DEF NoVersions
<1> QED BY <1>2, <1>3 DEF NoVersions

\* Two selected distributions are incompatible.
LEMMA ConflictStep == ASSUME IInv, NEW r \in Resolver, NEW d \in Dist, Conflict(r, d) PROVE IInv'
<1>1. Thinking(r) /\ agenda[r] = {}
  BY DEF IInv, EachOK, SolverOK, At, Conflict, Thinking, Ended
<1> QED BY <1>1, BacktrackStep DEF Conflict

\* Dependencies of the selected version are to be visited before anything else.
LEMMA GetDependenciesStep == ASSUME IInv, NEW r \in Resolver, GetDependencies(r) PROVE IInv'
<1>0. TypeOK /\ Thinking(r) /\ agenda[r] = {} /\ preVisited \in [Resolver -> SUBSET Package]
  BY DEF IInv, TypeOK, EachOK, SolverOK, At, GetDependencies, Thinking, Ended, OnDist
<1> DEFINE d == focus[r]
<1>1. d \in Dist
  BY DEF IInv, EachOK, SolverOK, At, GetDependencies, OnDist
<1> HIDE DEF d
<1>2. CASE /\ index[d] = "Found"
           /\ pins' = [pins EXCEPT ![r] = @ \cup {d}]
           /\ agenda' = [agenda EXCEPT ![r] = Depends[d] \ AnyUrl[r]]
           /\ preVisited' = [preVisited EXCEPT ![r] = @ \ Reranged({d})]
           /\ Goto(r, "visit")
           /\ UNCHANGED rejected
  <2>0. "visit" \in Location /\ Goto(r, "visit")
    BY <1>2 DEF Location
  <2>1. /\ pins' \in [Resolver -> SUBSET Dist] /\ pins'[r] = pins[r] \cup {d}
        /\ \A q \in Resolver \ {r} : pins'[q] = pins[q]
    BY <1>0, <1>1, <1>2 DEF TypeOK
  <2>2. Depends[d] \subseteq Package
    BY <1>1, FetchAssumption
  <2>3. /\ agenda' \in [Resolver -> SUBSET Package] /\ agenda'[r] = Depends[d] \ AnyUrl[r]
        /\ \A q \in Resolver \ {r} : agenda'[q] = agenda[q]
    BY <1>0, <1>2, <2>2 DEF TypeOK
  <2>4. UNCHANGED <<index, life, stack, send, focus, queue, inflight, rejected>>
    BY <1>2 DEF GetDependencies
  <2>41. preVisited' \in [Resolver -> SUBSET Package]
    BY <1>0, <1>2
  <2>5. TypeOK'
    BY <1>0, <2>0, <2>1, <2>3, <2>4, <2>41, GotoTypes DEF TypeOK
  <2>6. Alone(r)
    BY <1>0, <2>0, <2>1, <2>3, <2>4, GotoTypes DEF Alone
  <2>7. pc'[r] = "visit"
    BY <1>0, <2>0, GotoTypes
  <2>8. SolverOK(r)'
    BY <2>7 DEF SolverOK, At, OnPackage, OnDist
  <2>9. Announced(r)'
    <3>1. Known(r)' = Known(r) \cup Depends[d]
      BY <2>1 DEF Known
    <3> QED BY <1>0, <2>3, <2>4, <3>1 DEF IInv, EachOK, Announced, Registered
  <2> QED BY <1>0, <2>4, <2>5, <2>6, <2>7, <2>8, <2>9, LocalStep
<1>3. CASE index[d] = "Unavailable" /\ GiveUp(r, d) /\ UNCHANGED agenda
  BY <1>0, <1>1, <1>3, BacktrackStep DEF GetDependencies
<1>4. CASE /\ index[d] = "Error" /\ Goto(r, "failed")
           /\ UNCHANGED <<agenda, pins, rejected, preVisited>>
  BY <1>0, <1>4, FailStep DEF GetDependencies
<1> QED BY <1>2, <1>3, <1>4 DEF GetDependencies, d

\* A distribution that the hash-checking policy forbids is registered, and never
\* requested: the resolution has failed, so nobody is promised an answer.
LEMMA UnhashedStep ==
    ASSUME IInv, TypeOK', NEW r \in Resolver, NEW d \in Dist, Thinking(r), Alone(r),
           index' = [index EXCEPT ![d] = "waiting"], pc'[r] = "unhashed",
           UNCHANGED <<life, stack, send, agenda, pins, queue, inflight>>
    PROVE  IInv'
<1>0. index \in [Key -> {"absent", "waiting"} \cup Response] /\ d \in Key
  BY DEF IInv, TypeOK, Key
<1>1. Grows
  BY <1>0 DEF Grows, Registered
<1>2. EachOK(r)'
  <2>1. SolverOK(r)'
    BY DEF SolverOK, At, OnPackage, OnDist
  <2>2. Announced(r)'
    <3>1. Known(r) \subseteq Key /\ Known(r)' = Known(r)
      BY FetchAssumption DEF Known, IInv, TypeOK, Key
    <3> QED BY <3>1, <1>1 DEF IInv, EachOK, Announced, Grows
  <2>3. LifeOK(r)'
    BY DEF IInv, EachOK, LifeOK, Thinking, Ended
  <2>4. RequestsOK(r)'
    <3>1. \A i \in 1..Len(queue[r]) : queue[r][i].key \in Key
      BY RequestShape DEF IInv, TypeOK
    <3>2. \A task \in inflight[r] : task.key \in Key
      BY RequestShape DEF IInv, TypeOK
    <3> QED BY <3>1, <3>2, <1>1 DEF IInv, EachOK, RequestsOK, Grows
  <2> QED BY <2>1, <2>2, <2>3, <2>4 DEF EachOK
<1>3. \A q \in Resolver : EachOK(q)'
  <2> SUFFICES ASSUME NEW q \in Resolver, q # r PROVE EachOK(q)'
    BY <1>2
  <2> QED BY <1>1, OtherEach DEF IInv, Alone
<1>4. NoUnregisteredTask'
  BY DEF IInv, NoUnregisteredTask, Alone
<1>5. \A q \in Resolver, k \in Key :
        (Sending(q, k)' => Sending(q, k)) /\ (Fetching(q, k)' => Fetching(q, k))
  BY DEF Sending, Fetching, Alone
<1>6. FetchedOnce'
  BY <1>5, OnceKept DEF IInv
<1>7. JobsOwned'
  BY DEF JobsOwned, CutShort
<1> QED BY <1>3, <1>4, <1>6, <1>7 DEF IInv

\* The candidate is registered, whichever resolution was first.
LEMMA ChooseVersionStep ==
    ASSUME IInv, NEW r \in Resolver, NEW d \in Dist, ChooseVersion(r, d) PROVE IInv'
<1>0. TypeOK /\ d \in Key /\ "batch" \in Location \ {"sending"} /\ "unhashed" \in Location
  BY DEF IInv, Key, Location
<1>1. /\ focus' \in [Resolver -> Key \cup {Root}] /\ focus'[r] = d
      /\ \A q \in Resolver \ {r} : focus'[q] = focus[q]
  BY <1>0 DEF TypeOK, ChooseVersion
<1>2. Thinking(r) /\ agenda[r] = {}
  BY DEF IInv, EachOK, SolverOK, At, OnPackage, ChooseVersion, Thinking, Ended
<1>3. UNCHANGED <<life, stack, agenda, pins, rejected, preVisited, queue, inflight>>
  BY DEF ChooseVersion
<1>4. CASE index[d] = "absent" /\ d \in Unhashed
  <2>1. index' = [index EXCEPT ![d] = "waiting"] /\ Goto(r, "unhashed") /\ UNCHANGED send
    BY <1>4 DEF ChooseVersion
  <2>2. index' \in [Key -> {"absent", "waiting"} \cup Response]
    BY <1>0, <2>1 DEF TypeOK
  <2>3. TypeOK'
    BY <1>0, <1>1, <1>3, <2>1, <2>2, GotoTypes DEF TypeOK
  <2>4. Alone(r) /\ pc'[r] = "unhashed"
    BY <1>0, <1>1, <1>3, <2>1, GotoTypes DEF Alone
  <2> QED BY <1>2, <1>3, <2>1, <2>3, <2>4, UnhashedStep
<1>5. CASE ~(index[d] = "absent" /\ d \in Unhashed)
  <2>1. RegisterAndSend(r, d, "batch")
    BY <1>5 DEF ChooseVersion
  <2>2. TypeOK'
    BY <1>0, <1>1, <1>3, <2>1, RegisterTypes DEF TypeOK
  <2>3. Alone(r)
    BY <1>0, <1>1, <1>3, <2>1, RegisterTypes DEF Alone
  <2>4. Registered(focus[r])'
    BY <1>0, <1>1, <2>1, RegisterTypes DEF Registered
  <2> QED BY <1>0, <1>1, <1>2, <1>3, <2>1, <2>2, <2>3, <2>4, RegisterOrGo
<1> QED BY <1>4, <1>5

\* What `blocking_send` makes of a channel.
LEMMA AppendRequest ==
    ASSUME NEW s \in Seq(Request), NEW x \in Request
    PROVE  /\ Append(s, x) \in Seq(Request) /\ Len(Append(s, x)) = Len(s) + 1 /\ Len(s) \in Nat
           /\ Append(s, x)[Len(s) + 1] = x
           /\ \A i \in 1..Len(s) : Append(s, x)[i] = s[i]
OBVIOUS

\* The queue of a live resolution gets one more request, for a registered key.
LEMMA EnqueueTypes ==
    ASSUME TypeOK, NEW r \in Resolver, Len(queue[r]) < Capacity, NEW x \in Request,
           queue' = [queue EXCEPT ![r] = Append(@, x)]
    PROVE  /\ queue' \in [Resolver -> Seq(Request)]
           /\ \A q \in Resolver : Len(queue'[q]) <= Capacity
           /\ queue'[r] = Append(queue[r], x)
           /\ \A q \in Resolver \ {r} : queue'[q] = queue[q]
<1>1. queue[r] \in Seq(Request) /\ Capacity \in Nat
  BY FetchAssumption DEF TypeOK
<1>2. queue'[r] = Append(queue[r], x) /\ \A q \in Resolver \ {r} : queue'[q] = queue[q]
  BY DEF TypeOK
<1>3. Len(queue'[r]) <= Capacity
  BY <1>1, <1>2, AppendRequest
<1>4. queue' \in [Resolver -> Seq(Request)]
  BY <1>1, AppendRequest DEF TypeOK
<1> QED BY <1>2, <1>3, <1>4 DEF TypeOK

\* A queue that gets a request for a registered key has only such requests.
LEMMA EnqueueRequests ==
    ASSUME TypeOK, NEW r \in Resolver, EachOK(r), NEW x \in Request, Registered(x.key),
           queue'[r] = Append(queue[r], x), UNCHANGED <<index, inflight>>,
           pc'[r] = "sending" => pc[r] = "sending" /\ send'[r] = send[r]
    PROVE  RequestsOK(r)'
<1>1. queue[r] \in Seq(Request)
  BY DEF TypeOK
<1>2. \A i \in 1..Len(queue'[r]) : i \in 1..Len(queue[r]) \/ i = Len(queue[r]) + 1
  BY <1>1, AppendRequest
<1>3. \A i \in 1..Len(queue'[r]) : Registered(queue'[r][i].key)
  BY <1>1, <1>2, AppendRequest DEF EachOK, RequestsOK
<1> QED BY <1>3 DEF EachOK, RequestsOK, Registered

\* A request sent to a live fetcher: its fetch moves into the queue.
LEMMA SentStep ==
    ASSUME IInv, NEW r \in Resolver, pc[r] = "sending", life[r] = "live",
           Len(queue[r]) < Capacity,
           queue' = [queue EXCEPT ![r] = Append(@, FetchOf(send[r].key))],
           Goto(r, send[r].then),
           UNCHANGED <<index, life, stack, send, focus, agenda, pins, rejected, preVisited, inflight>>
    PROVE  IInv'
<1> DEFINE k == send[r].key
           l == send[r].then
<1>0. TypeOK /\ EachOK(r)
  BY DEF IInv
<1>1. k \in Key /\ l \in {"visit", "versions", "batch"} /\ Registered(k) /\ At(r) = l
  BY <1>0 DEF EachOK, SolverOK, RequestsOK, At
<1>2. FetchOf(k) \in Request /\ FetchOf(k).key = k
  BY <1>1, RequestShape
<1> HIDE DEF k, l
<1>3. queue' = [queue EXCEPT ![r] = Append(@, FetchOf(k))] /\ Goto(r, l) /\ l \in Location
  BY <1>1 DEF k, l, Location
<1>4. /\ pc' \in [Resolver -> Location] /\ pc'[r] = l
      /\ \A q \in Resolver \ {r} : pc'[q] = pc[q]
  BY <1>0, <1>3, GotoTypes
<1>5. /\ queue' \in [Resolver -> Seq(Request)]
      /\ \A q \in Resolver : Len(queue'[q]) <= Capacity
      /\ queue'[r] = Append(queue[r], FetchOf(k))
      /\ \A q \in Resolver \ {r} : queue'[q] = queue[q]
  BY <1>0, <1>2, <1>3, EnqueueTypes
<1>6. TypeOK'
  BY <1>0, <1>4, <1>5 DEF TypeOK
<1>7. EachOK(r)'
  <2>1. At(r)' = At(r)
    BY <1>1, <1>4 DEF At
  <2>2. SolverOK(r)'
    BY <1>0, <1>1, <1>4, <2>1 DEF EachOK, SolverOK, Registered
  <2>3. Announced(r)'
    BY <1>0 DEF EachOK, Announced, Known, Registered
  <2>4. LifeOK(r)'
    BY <1>0, <1>1, <1>4 DEF EachOK, LifeOK
  <2>5. RequestsOK(r)'
    BY <1>0, <1>1, <1>2, <1>4, <1>5, EnqueueRequests
  <2> QED BY <2>2, <2>3, <2>4, <2>5 DEF EachOK
<1>8. \A q \in Resolver : EachOK(q)'
  <2> SUFFICES ASSUME NEW q \in Resolver, q # r PROVE EachOK(q)'
    BY <1>7
  <2>1. Grows
    BY DEF Grows, Registered
  <2> QED BY <1>0, <1>4, <1>5, <2>1, OtherEach DEF IInv
<1>9. NoUnregisteredTask'
  BY <1>1, <1>4 DEF IInv, NoUnregisteredTask
<1>10. /\ Sending(r, k)
       /\ \A q \in Resolver, j \in Key :
            /\ Sending(q, j)' <=> q # r /\ Sending(q, j)
            /\ Sending(r, j) => j = k
            /\ Fetching(q, j)' <=> Fetching(q, j)
  BY <1>1, <1>4 DEF Sending, Fetching, k
<1>11. queue[r] \in Seq(Request) /\ Len(queue[r]) \in Nat
  BY <1>0 DEF TypeOK
<1>12. \A q \in Resolver, j \in Key : \A i \in 1..Len(queue'[q]) :
         Queued(q, i, j)' =>
            \/ i \in 1..Len(queue[q]) /\ Queued(q, i, j)
            \/ q = r /\ i = Len(queue[r]) + 1 /\ j = k
  <2> SUFFICES ASSUME NEW q \in Resolver, NEW j \in Key, NEW i \in 1..Len(queue'[q]),
                      Queued(q, i, j)'
               PROVE  \/ i \in 1..Len(queue[q]) /\ Queued(q, i, j)
                      \/ q = r /\ i = Len(queue[r]) + 1 /\ j = k
    OBVIOUS
  <2>1. CASE q # r
    BY <2>1, <1>5 DEF Queued
  <2>2. CASE q = r
    <3>1. i \in 1..Len(queue[r]) \/ i = Len(queue[r]) + 1
      BY <2>2, <1>2, <1>5, <1>11, AppendRequest
    <3>2. i \in 1..Len(queue[r]) => queue'[r][i] = queue[r][i]
      BY <1>2, <1>5, <1>11, AppendRequest
    <3>3. i = Len(queue[r]) + 1 => queue'[r][i] = FetchOf(k)
      BY <1>2, <1>5, <1>11, AppendRequest
    <3>4. queue'[r][i] = FetchOf(j)
      BY <2>2 DEF Queued
    <3> QED BY <2>2, <3>1, <3>2, <3>3, <3>4, <1>1, RequestShape DEF Queued
  <2> QED BY <2>1, <2>2
<1>13. FetchedOnce'
  BY <1>10, <1>12 DEF IInv, FetchedOnce
<1>14. JobsOwned'
  <2>1. \A q \in Resolver : CutShort(q) => CutShort(q)'
    BY <1>4 DEF CutShort
  <2> SUFFICES ASSUME \A q \in Resolver : ~CutShort(q)', NEW j \in Key, index'[j] = "waiting"
               PROVE  HasOwner(j)'
    BY DEF JobsOwned
  <2>2. HasOwner(j)
    BY <2>1 DEF IInv, JobsOwned
  <2>3. PICK q \in Resolver :
          Sending(q, j) \/ Fetching(q, j) \/ \E i \in 1..Len(queue[q]) : Queued(q, i, j)
    BY <2>2 DEF HasOwner
  <2>4. CASE Sending(q, j) /\ q = r
    <3>1. PICK n \in Nat : n = Len(queue[r]) + 1
      BY <1>11
    <3>2. j = k /\ n \in 1..Len(queue'[r]) /\ queue'[r][n] = FetchOf(k)
      BY <2>4, <3>1, <1>2, <1>5, <1>10, <1>11, AppendRequest
    <3>3. Queued(r, n, j)'
      BY <3>2 DEF Queued
    <3> QED BY <3>2, <3>3 DEF HasOwner
  <2>5. CASE (Sending(q, j) /\ q # r) \/ Fetching(q, j)
    BY <2>5, <1>10 DEF HasOwner
  <2>6. CASE \E i \in 1..Len(queue[q]) : Queued(q, i, j)
    <3>1. PICK i \in 1..Len(queue[q]) : Queued(q, i, j)
      BY <2>6
    <3>2. i \in 1..Len(queue'[q]) /\ queue'[q][i] = queue[q][i]
      BY <1>2, <1>5, <1>11, AppendRequest
    <3> QED BY <3>1, <3>2 DEF HasOwner, Queued
  <2> QED BY <2>3, <2>4, <2>5, <2>6
<1> QED BY <1>6, <1>8, <1>9, <1>13, <1>14 DEF IInv

\* A request that a fetcher no longer takes: the resolution was cut short.
LEMMA RefusedStep ==
    ASSUME IInv, NEW r \in Resolver, pc[r] = "sending", life[r] # "live", Goto(r, "failed"),
           UNCHANGED <<index, life, stack, send, focus, agenda, pins, rejected, preVisited,
                       queue, inflight>>
    PROVE  IInv'
<1>0. TypeOK /\ EachOK(r) /\ "failed" \in Location
  BY DEF IInv, Location
<1>1. /\ pc' \in [Resolver -> Location] /\ pc'[r] = "failed"
      /\ \A q \in Resolver \ {r} : pc'[q] = pc[q]
  BY <1>0, GotoTypes
<1>2. TypeOK'
  BY <1>0, <1>1 DEF TypeOK
<1>3. life[r] \in {"aborted", "dropped"}
  BY <1>0 DEF EachOK, LifeOK, TypeOK, Life, Ended
<1>4. EachOK(r)'
  <2>1. SolverOK(r)'
    BY <1>1 DEF SolverOK, At, OnPackage, OnDist
  <2>2. Announced(r)'
    BY <1>0 DEF EachOK, Announced, Known, Registered
  <2>3. LifeOK(r)'
    BY <1>0, <1>1, <1>3 DEF EachOK, LifeOK, Ended
  <2>4. RequestsOK(r)'
    BY <1>0, <1>1 DEF EachOK, RequestsOK, Registered
  <2> QED BY <2>1, <2>2, <2>3, <2>4 DEF EachOK
<1>5. \A q \in Resolver : EachOK(q)'
  <2> SUFFICES ASSUME NEW q \in Resolver, q # r PROVE EachOK(q)'
    BY <1>4
  <2>1. Grows
    BY DEF Grows, Registered
  <2> QED BY <1>0, <1>1, <2>1, OtherEach DEF IInv
<1>6. NoUnregisteredTask'
  BY <1>1 DEF IInv, NoUnregisteredTask
<1>7. FetchedOnce'
  <2>1. \A q \in Resolver, k \in Key :
          (Sending(q, k)' => Sending(q, k)) /\ (Fetching(q, k)' => Fetching(q, k))
    BY <1>1 DEF Sending, Fetching
  <2> QED BY <2>1, OnceKept DEF IInv
<1>8. JobsOwned'
  BY <1>3 DEF JobsOwned, CutShort
<1> QED BY <1>2, <1>5, <1>6, <1>7, <1>8 DEF IInv

\* `blocking_send`: the request is queued, or the channel is closed.
LEMMA SendStep == ASSUME IInv, NEW r \in Resolver, Send(r) PROVE IInv'
<1>1. CASE life[r] = "live"
  BY <1>1, SentStep DEF Send
<1>2. CASE life[r] # "live"
  BY <1>2, RefusedStep DEF Send
<1> QED BY <1>1, <1>2

\* What `pre_visit` asks for was registered when the dependency was visited.
LEMMA PreVisitStep == ASSUME IInv, NEW r \in Resolver, NEW p \in Package, PreVisit(r, p) PROVE IInv'
<1>0. TypeOK /\ EachOK(r) /\ pc[r] = "propagate" /\ p \in ToPreVisit(r)
  BY DEF IInv, PreVisit
<1>1. preVisited' \in [Resolver -> SUBSET Package]
  BY <1>0 DEF TypeOK, PreVisit
<1>2. UNCHANGED <<index, life, stack, send, focus, agenda, pins, rejected, inflight>>
  BY DEF PreVisit
<1>3. CASE life[r] # "live"
  <2>1. Thinking(r)
    BY <1>0 DEF Thinking, Ended
  <2> QED BY <1>1, <1>2, <1>3, <2>1, FailStep DEF PreVisit
<1>4. CASE life[r] = "live"
  <2>1. Registered(p)
    <3>1. agenda[r] = {}
      BY <1>0 DEF EachOK, SolverOK, At
    <3>2. p \in Known(r) \ AnyUrl[r]
      BY <1>0 DEF ToPreVisit, Undecided
    <3> QED BY <1>0, <3>1, <3>2 DEF EachOK, Announced
  <2> DEFINE x == Prefetch(p)
  <2>2. x \in Request /\ x.key = p /\ \A k \in Key : x # FetchOf(k)
    BY RequestShape
  <2>3. /\ Len(queue[r]) < Capacity /\ queue' = [queue EXCEPT ![r] = Append(@, x)]
        /\ UNCHANGED pc
    BY <1>4 DEF PreVisit
  <2> HIDE DEF x
  <2>4. /\ queue' \in [Resolver -> Seq(Request)]
        /\ \A q \in Resolver : Len(queue'[q]) <= Capacity
        /\ queue'[r] = Append(queue[r], x)
        /\ \A q \in Resolver \ {r} : queue'[q] = queue[q]
    BY <1>0, <2>2, <2>3, EnqueueTypes
  <2>5. TypeOK'
    BY <1>0, <1>1, <1>2, <2>3, <2>4 DEF TypeOK
  <2>6. EachOK(r)'
    <3>1. SolverOK(r)'
      BY <1>0, <1>2, <2>3 DEF EachOK, SolverOK, At, Registered
    <3>2. Announced(r)'
      BY <1>0, <1>2 DEF EachOK, Announced, Known, Registered
    <3>3. LifeOK(r)'
      BY <1>0, <1>2, <1>4, <2>3 DEF EachOK, LifeOK
    <3>4. RequestsOK(r)'
      BY <1>0, <1>2, <2>1, <2>2, <2>3, <2>4, EnqueueRequests
    <3> QED BY <3>1, <3>2, <3>3, <3>4 DEF EachOK
  <2>7. \A q \in Resolver : EachOK(q)'
    <3> SUFFICES ASSUME NEW q \in Resolver, q # r PROVE EachOK(q)'
      BY <2>6
    <3>1. Grows
      BY <1>2 DEF Grows, Registered
    <3> QED BY <1>0, <1>2, <2>3, <2>4, <3>1, OtherEach DEF IInv
  <2>8. NoUnregisteredTask'
    BY <2>3 DEF IInv, NoUnregisteredTask
  <2>9. \A q \in Resolver, j \in Key :
          (Sending(q, j)' <=> Sending(q, j)) /\ (Fetching(q, j)' <=> Fetching(q, j))
    BY <1>2, <2>3 DEF Sending, Fetching
  <2>10. queue[r] \in Seq(Request) /\ Len(queue[r]) \in Nat
    BY <1>0 DEF TypeOK
  <2>11. \A q \in Resolver, j \in Key : \A i \in 1..Len(queue'[q]) :
           Queued(q, i, j)' => i \in 1..Len(queue[q]) /\ Queued(q, i, j)
    <3> SUFFICES ASSUME NEW q \in Resolver, NEW j \in Key, NEW i \in 1..Len(queue'[q]),
                        Queued(q, i, j)'
                 PROVE  i \in 1..Len(queue[q]) /\ Queued(q, i, j)
      OBVIOUS
    <3>1. CASE q # r
      BY <3>1, <2>4 DEF Queued
    <3>2. CASE q = r
      <4>1. i \in 1..Len(queue[r]) \/ i = Len(queue[r]) + 1
        BY <3>2, <2>2, <2>4, <2>10, AppendRequest
      <4>2. i \in 1..Len(queue[r]) => queue'[r][i] = queue[r][i]
        BY <2>2, <2>4, <2>10, AppendRequest
      <4>3. i = Len(queue[r]) + 1 => queue'[r][i] = x
        BY <2>2, <2>4, <2>10, AppendRequest
      <4>4. queue'[r][i] = FetchOf(j)
        BY <3>2 DEF Queued
      <4> QED BY <3>2, <4>1, <4>2, <4>3, <4>4, <2>2 DEF Queued
    <3> QED BY <3>1, <3>2
  <2>12. FetchedOnce'
    BY <2>9, <2>11 DEF IInv, FetchedOnce
  <2>13. JobsOwned'
    <3> SUFFICES ASSUME \A q \in Resolver : ~CutShort(q)', NEW j \in Key, index'[j] = "waiting"
                 PROVE  HasOwner(j)'
      BY DEF JobsOwned
    <3>1. HasOwner(j)
      BY <1>2, <2>3 DEF IInv, JobsOwned, CutShort
    <3>2. PICK q \in Resolver :
            Sending(q, j) \/ Fetching(q, j) \/ \E i \in 1..Len(queue[q]) : Queued(q, i, j)
      BY <3>1 DEF HasOwner
    <3>3. CASE Sending(q, j) \/ Fetching(q, j)
      BY <3>3, <2>9 DEF HasOwner
    <3>4. CASE \E i \in 1..Len(queue[q]) : Queued(q, i, j)
      <4>1. PICK i \in 1..Len(queue[q]) : Queued(q, i, j)
        BY <3>4
      <4>2. i \in 1..Len(queue'[q]) /\ queue'[q][i] = queue[q][i]
        BY <2>2, <2>4, <2>10, AppendRequest
      <4> QED BY <4>1, <4>2 DEF HasOwner, Queued
    <3> QED BY <3>2, <3>3, <3>4
  <2> QED BY <2>5, <2>7, <2>8, <2>12, <2>13 DEF IInv
<1> QED BY <1>3, <1>4
-----------------------------------------------------------------------------
(* Steps of fetchers.                                                      *)

\* What the fetcher takes from a channel.
LEMMA TakeRequest ==
    ASSUME NEW s \in Seq(Request), s # <<>>
    PROVE  /\ Head(s) \in Request /\ Tail(s) \in Seq(Request) /\ Len(s) \in Nat \ {0}
           /\ Head(s) = s[1] /\ 1 \in 1..Len(s) /\ Len(Tail(s)) = Len(s) - 1
           /\ \A i \in 1..Len(Tail(s)) : Tail(s)[i] = s[i + 1] /\ i + 1 \in 1..Len(s)
           /\ \A i \in 1..Len(s) : i = 1 \/ (i - 1 \in 1..Len(Tail(s)) /\ Tail(s)[i - 1] = s[i])
OBVIOUS

\* A fetch moves from the head of the queue to the futures in flight.
LEMMA ReceiveStep == ASSUME IInv, NEW r \in Resolver, Receive(r) PROVE IInv'
<1> DEFINE x == Head(queue[r])
<1>0. /\ TypeOK /\ EachOK(r) /\ queue[r] \in Seq(Request) /\ queue[r] # <<>> /\ life[r] = "live"
      /\ UNCHANGED <<index, life, stack, pc, send, focus, agenda, pins, rejected, preVisited>>
  BY DEF IInv, TypeOK, Receive, solver
<1>1. x \in Request /\ x = queue[r][1] /\ 1 \in 1..Len(queue[r])
  BY <1>0, TakeRequest
<1> HIDE DEF x
<1>2. /\ inflight' \in [Resolver -> SUBSET Request] /\ inflight'[r] = inflight[r] \cup {x}
      /\ \A q \in Resolver \ {r} : inflight'[q] = inflight[q]
  BY <1>0, <1>1 DEF TypeOK, Receive, x
<1>3. /\ queue' \in [Resolver -> Seq(Request)] /\ queue'[r] = Tail(queue[r])
      /\ \A q \in Resolver \ {r} : queue'[q] = queue[q]
  BY <1>0, TakeRequest DEF TypeOK, Receive
<1>4. \A q \in Resolver : Len(queue'[q]) <= Capacity
  <2>1. Len(queue'[r]) <= Capacity
    BY <1>0, <1>3, TakeRequest, FetchAssumption DEF TypeOK
  <2> QED BY <1>0, <1>3, <2>1 DEF TypeOK
<1>5. TypeOK'
  BY <1>0, <1>2, <1>3, <1>4 DEF TypeOK
<1>6. EachOK(r)'
  <2>1. SolverOK(r)' /\ Announced(r)'
    BY <1>0 DEF EachOK, SolverOK, At, Announced, Known, Registered
  <2>2. LifeOK(r)'
    BY <1>0 DEF EachOK, LifeOK
  <2>3. RequestsOK(r)'
    BY <1>0, <1>1, <1>2, <1>3, TakeRequest DEF EachOK, RequestsOK, Registered
  <2> QED BY <2>1, <2>2, <2>3 DEF EachOK
<1>7. \A q \in Resolver : EachOK(q)'
  <2> SUFFICES ASSUME NEW q \in Resolver, q # r PROVE EachOK(q)'
    BY <1>6
  <2>1. Grows
    BY <1>0 DEF Grows, Registered
  <2> QED BY <1>0, <1>2, <1>3, <2>1, OtherEach DEF IInv
<1>8. NoUnregisteredTask'
  BY <1>0 DEF IInv, NoUnregisteredTask
<1>9. \A q \in Resolver, j \in Key :
        /\ Sending(q, j)' <=> Sending(q, j)
        /\ Fetching(q, j)' <=> Fetching(q, j) \/ (q = r /\ Queued(r, 1, j))
  BY <1>0, <1>1, <1>2 DEF Sending, Fetching, Queued
<1>10. \A q \in Resolver, j \in Key : \A i \in 1..Len(queue'[q]) :
         Queued(q, i, j)' =>
            \/ q # r /\ i \in 1..Len(queue[q]) /\ Queued(q, i, j)
            \/ q = r /\ i + 1 \in 1..Len(queue[r]) /\ Queued(r, i + 1, j)
  <2> SUFFICES ASSUME NEW q \in Resolver, NEW j \in Key, NEW i \in 1..Len(queue'[q]),
                      Queued(q, i, j)'
               PROVE  \/ q # r /\ i \in 1..Len(queue[q]) /\ Queued(q, i, j)
                      \/ q = r /\ i + 1 \in 1..Len(queue[r]) /\ Queued(r, i + 1, j)
    OBVIOUS
  <2>1. CASE q # r
    BY <2>1, <1>3 DEF Queued
  <2>2. CASE q = r
    BY <2>2, <1>0, <1>3, TakeRequest DEF Queued
  <2> QED BY <2>1, <2>2
<1>11. FetchedOnce'
  BY SMTT(60), <1>1, <1>9, <1>10 DEF IInv, FetchedOnce
<1>12. JobsOwned'
  <2> SUFFICES ASSUME \A q \in Resolver : ~CutShort(q)', NEW j \in Key, index'[j] = "waiting"
               PROVE  HasOwner(j)'
    BY DEF JobsOwned
  <2>1. HasOwner(j)
    BY <1>0 DEF IInv, JobsOwned, CutShort
  <2>2. PICK q \in Resolver :
          Sending(q, j) \/ Fetching(q, j) \/ \E i \in 1..Len(queue[q]) : Queued(q, i, j)
    BY <2>1 DEF HasOwner
  <2>3. CASE Sending(q, j) \/ Fetching(q, j)
    BY <2>3, <1>9 DEF HasOwner
  <2>4. CASE \E i \in 1..Len(queue[q]) : Queued(q, i, j)
    <3>1. PICK i \in 1..Len(queue[q]) : Queued(q, i, j)
      BY <2>4
    <3>2. CASE q # r
      BY <3>1, <3>2, <1>3 DEF HasOwner, Queued
    <3>3. CASE q = r /\ i = 1
      BY <3>1, <3>3, <1>9 DEF HasOwner
    <3>4. CASE q = r /\ i # 1
      <4>1. i - 1 \in 1..Len(queue'[r]) /\ queue'[r][i - 1] = queue[r][i]
        BY <3>4, <1>0, <1>3, TakeRequest
      <4>2. Queued(r, i - 1, j)'
        BY <3>1, <3>4, <4>1 DEF Queued
      <4> QED BY <4>1, <4>2 DEF HasOwner
    <3> QED BY <3>2, <3>3, <3>4
  <2> QED BY <2>2, <2>3, <2>4
<1> QED BY <1>5, <1>7, <1>8, <1>11, <1>12 DEF IInv

\* A future of fetcher r ends, or becomes another.
LEMMA FutureEach ==
    ASSUME IInv, NEW r \in Resolver, inflight[r] # {}, Grows,
           UNCHANGED <<life, stack, pc, send, focus, agenda, pins, queue>>,
           \A q \in Resolver \ {r} : inflight'[q] = inflight[q],
           \A task \in inflight'[r] : task \in inflight[r] \/ Registered(task.key)'
    PROVE  /\ \A q \in Resolver : EachOK(q)'
           /\ NoUnregisteredTask'
           /\ \A q \in Resolver : CutShort(q)' <=> CutShort(q)
<1>0. TypeOK /\ EachOK(r)
  BY DEF IInv
<1>1. EachOK(r)'
  <2>1. SolverOK(r)'
    BY <1>0 DEF EachOK, SolverOK, Grows, At, OnPackage, OnDist, Key
  <2>2. Announced(r)'
    <3>1. Known(r) \subseteq Key /\ Known(r)' = Known(r)
      BY FetchAssumption, <1>0 DEF Known, TypeOK, Key
    <3> QED BY <3>1, <1>0 DEF EachOK, Announced, Grows
  <2>3. LifeOK(r)'
    BY <1>0 DEF EachOK, LifeOK
  <2>4. RequestsOK(r)'
    <3>1. \A i \in 1..Len(queue[r]) : queue[r][i].key \in Key
      BY <1>0, RequestShape DEF TypeOK
    <3>2. \A task \in inflight[r] : task.key \in Key
      BY <1>0, RequestShape DEF TypeOK
    <3> QED BY <3>1, <3>2, <1>0 DEF EachOK, RequestsOK, SolverOK, Grows
  <2> QED BY <2>1, <2>2, <2>3, <2>4 DEF EachOK
<1>2. \A q \in Resolver : EachOK(q)'
  <2> SUFFICES ASSUME NEW q \in Resolver, q # r PROVE EachOK(q)'
    BY <1>1
  <2> QED BY <1>0, OtherEach DEF IInv
<1>3. NoUnregisteredTask'
  BY DEF IInv, NoUnregisteredTask
<1>4. \A q \in Resolver : CutShort(q)' <=> CutShort(q)
  BY DEF CutShort
<1> QED BY <1>2, <1>3, <1>4

\* A future ends, and has answered for the key it was to fetch.
LEMMA AnswerStep ==
    ASSUME IInv, NEW r \in Resolver, NEW k \in Key, NEW answer \in Response,
           NEW task \in inflight[r], Respond(r, task, k, answer),
           task = FetchOf(k) \/ \A j \in Key : task # FetchOf(j),
           UNCHANGED <<life, stack, solver, queue>>
    PROVE  IInv'
<1>0. TypeOK /\ UNCHANGED <<pc, send, focus, agenda, pins, rejected, preVisited>>
  BY DEF IInv, solver
<1>1. /\ index' \in [Key -> {"absent", "waiting"} \cup Response] /\ index'[k] \in Response
      /\ \A j \in Key \ {k} : index'[j] = index[j]
  BY <1>0 DEF TypeOK, Respond
<1>2. /\ inflight' \in [Resolver -> SUBSET Request] /\ inflight'[r] = inflight[r] \ {task}
      /\ \A q \in Resolver \ {r} : inflight'[q] = inflight[q]
  BY <1>0 DEF TypeOK, Respond
<1>3. TypeOK'
  BY <1>0, <1>1, <1>2 DEF TypeOK
<1>4. Grows
  BY <1>1 DEF Grows, Registered, Response
<1>5. /\ \A q \in Resolver : EachOK(q)'
      /\ NoUnregisteredTask'
      /\ \A q \in Resolver : CutShort(q)' <=> CutShort(q)
  BY <1>0, <1>2, <1>4, FutureEach
<1>6. FetchedOnce'
  <2>1. \A q \in Resolver, j \in Key :
          (Sending(q, j)' => Sending(q, j)) /\ (Fetching(q, j)' => Fetching(q, j))
    BY <1>0, <1>2 DEF Sending, Fetching
  <2> QED BY <2>1, OnceKept DEF IInv
<1>7. JobsOwned'
  <2> SUFFICES ASSUME \A q \in Resolver : ~CutShort(q)', NEW j \in Key, index'[j] = "waiting"
               PROVE  HasOwner(j)'
    BY DEF JobsOwned
  <2>1. j # k
    BY <1>1 DEF Response
  <2>2. HasOwner(j)
    BY <1>1, <1>5, <2>1 DEF IInv, JobsOwned
  <2>3. \A q \in Resolver :
          (Sending(q, j) => Sending(q, j)') /\ (Fetching(q, j) => Fetching(q, j)')
    BY <1>0, <1>2, <2>1, RequestShape DEF Sending, Fetching
  <2> QED BY <2>2, <2>3, OwnedKept
<1> QED BY <1>3, <1>5, <1>6, <1>7 DEF IInv

\* A prefetch ends without an answer.
LEMMA DropStep ==
    ASSUME IInv, NEW r \in Resolver, NEW p \in Package, Prefetch(p) \in inflight[r],
           inflight' = [inflight EXCEPT ![r] = @ \ {Prefetch(p)}],
           UNCHANGED <<index, life, stack, solver, queue>>
    PROVE  IInv'
<1>0. TypeOK /\ UNCHANGED <<pc, send, focus, agenda, pins, rejected, preVisited>>
  BY DEF IInv, solver
<1>2. /\ inflight' \in [Resolver -> SUBSET Request] /\ inflight'[r] = inflight[r] \ {Prefetch(p)}
      /\ \A q \in Resolver \ {r} : inflight'[q] = inflight[q]
  BY <1>0 DEF TypeOK
<1>3. TypeOK'
  BY <1>0, <1>2 DEF TypeOK
<1>4. Grows
  BY DEF Grows, Registered
<1>5. /\ \A q \in Resolver : EachOK(q)'
      /\ NoUnregisteredTask'
      /\ \A q \in Resolver : CutShort(q)' <=> CutShort(q)
  BY <1>0, <1>2, <1>4, FutureEach
<1>6. \A q \in Resolver, j \in Key :
        (Sending(q, j)' <=> Sending(q, j)) /\ (Fetching(q, j)' <=> Fetching(q, j))
  BY <1>0, <1>2, RequestShape DEF Sending, Fetching
<1>7. FetchedOnce'
  BY <1>6, OnceKept DEF IInv
<1>8. JobsOwned'
  BY <1>5, <1>6, OwnedKept DEF IInv, JobsOwned
<1> QED BY <1>3, <1>5, <1>7, <1>8 DEF IInv

\* A prefetch is the first to register its candidate, and goes on to fetch it.
LEMMA PrefetchOnStep ==
    ASSUME IInv, NEW r \in Resolver, NEW p \in Package, NEW d \in Dist,
           Prefetch(p) \in inflight[r], index[d] = "absent",
           index' = [index EXCEPT ![d] = "waiting"],
           inflight' = [inflight EXCEPT ![r] = (@ \ {Prefetch(p)}) \cup {FetchOf(d)}],
           UNCHANGED <<life, stack, solver, queue>>
    PROVE  IInv'
<1>0. /\ TypeOK /\ UNCHANGED <<pc, send, focus, agenda, pins, rejected, preVisited>>
      /\ d \in Key /\ FetchOf(d) \in Request /\ FetchOf(d).key = d
  BY RequestShape DEF IInv, solver, Key
<1>1. /\ index' \in [Key -> {"absent", "waiting"} \cup Response] /\ index'[d] = "waiting"
      /\ \A j \in Key \ {d} : index'[j] = index[j]
  BY <1>0 DEF TypeOK
<1>2. /\ inflight' \in [Resolver -> SUBSET Request]
      /\ inflight'[r] = (inflight[r] \ {Prefetch(p)}) \cup {FetchOf(d)}
      /\ \A q \in Resolver \ {r} : inflight'[q] = inflight[q]
  BY <1>0 DEF TypeOK
<1>3. TypeOK'
  BY <1>0, <1>1, <1>2 DEF TypeOK
<1>4. Grows
  BY <1>1 DEF Grows, Registered
<1>5. /\ \A q \in Resolver : EachOK(q)'
      /\ NoUnregisteredTask'
      /\ \A q \in Resolver : CutShort(q)' <=> CutShort(q)
  <2>1. \A task \in inflight'[r] : task \in inflight[r] \/ Registered(task.key)'
    BY <1>0, <1>1, <1>2 DEF Registered
  <2> QED BY <1>0, <1>2, <1>4, <2>1, FutureEach
<1>6. \A q \in Resolver, j \in Key :
        /\ Sending(q, j)' <=> Sending(q, j)
        /\ Fetching(q, j)' <=> Fetching(q, j) \/ (q = r /\ j = d)
  BY <1>0, <1>2, RequestShape DEF Sending, Fetching
<1>7. FetchedOnce'
  <2>1. \A q \in Resolver : /\ ~Sending(q, d) /\ ~Fetching(q, d)
                            /\ \A i \in 1..Len(queue[q]) : ~Queued(q, i, d)
    BY <1>0, FreeKey DEF IInv
  <2> QED BY <1>0, <1>6, <2>1, OnceNew DEF IInv
<1>8. JobsOwned'
  <2> SUFFICES ASSUME \A q \in Resolver : ~CutShort(q)', NEW j \in Key, index'[j] = "waiting"
               PROVE  HasOwner(j)'
    BY DEF JobsOwned
  <2>1. CASE j = d
    BY <2>1, <1>6 DEF HasOwner
  <2>2. CASE j # d
    <3>1. HasOwner(j)
      BY <1>1, <1>5, <2>2 DEF IInv, JobsOwned
    <3> QED BY <3>1, <1>6, OwnedKept
  <2> QED BY <2>1, <2>2
<1> QED BY <1>3, <1>5, <1>7, <1>8 DEF IInv

\* A fetch answers with a response.
LEMMA OutcomesOK ==
    ASSUME NEW k \in Key
    PROVE  Outcomes(k) \subseteq Response /\ Answers[k] \subseteq Response
BY FetchAssumption DEF Outcomes, Response

\* A fetch ends with an answer for its key.
LEMMA FetchStep == ASSUME IInv, NEW r \in Resolver, NEW task, Fetch(r, task) PROVE IInv'
<1>1. task \in inflight[r] /\ task.kind # "Prefetch" /\ task \in Request
  BY DEF Fetch, IInv, TypeOK
<1>2. task.key \in Key /\ task = FetchOf(task.key)
  BY <1>1, RequestShape
<1>3. PICK answer \in Outcomes(task.key) : Respond(r, task, task.key, answer)
  BY DEF Fetch
<1>4. answer \in Response
  BY <1>2, <1>3, OutcomesOK
<1> QED BY <1>1, <1>2, <1>3, <1>4, AnswerStep DEF Fetch

\* So does a build.
LEMMA BuiltStep == ASSUME IInv, NEW r \in Resolver, NEW d \in Sdist, Built(r, d) PROVE IInv'
<1>1. d \in Key /\ FetchOf(d) \in inflight[r]
  BY DEF Built, Sdist, Key
<1>2. PICK answer \in (IF life[d] = "ok" THEN Answers[d] ELSE {})
                \cup (IF life[d] # "ok" \/ pins[d] \cap stack[d] # {} THEN {"Error"} ELSE {}) :
        Respond(r, FetchOf(d), d, answer)
  BY DEF Built
<1>3. answer \in Response
  BY <1>1, <1>2, OutcomesOK DEF Response
<1> QED BY <1>1, <1>2, <1>3, AnswerStep DEF Built

\* A prefetch answers, goes on to fetch what it registered, or ends.
LEMMA PrefetchCandidateStep ==
    ASSUME IInv, NEW r \in Resolver, NEW p \in Package, NEW d \in Dist, PrefetchCandidate(r, p, d)
    PROVE  IInv'
<1>0. Prefetch(p) \in inflight[r] /\ UNCHANGED <<life, stack, solver, queue>> /\ d \in Key
  BY DEF PrefetchCandidate, Key
<1>1. CASE d \in Provided
  <2>1. Respond(r, Prefetch(p), d, "Found") /\ "Found" \in Response
    BY <1>1 DEF PrefetchCandidate, Response
  <2>2. \A j \in Key : Prefetch(p) # FetchOf(j)
    BY RequestShape
  <2> QED BY <1>0, <2>1, <2>2, AnswerStep
<1>2. CASE d \notin Provided /\ index[d] = "absent" /\ d \notin Unhashed
  <2>1. /\ index' = [index EXCEPT ![d] = "waiting"]
        /\ inflight' = [inflight EXCEPT ![r] = (@ \ {Prefetch(p)}) \cup {FetchOf(d)}]
    BY <1>2 DEF PrefetchCandidate
  <2> QED BY <1>0, <1>2, <2>1, PrefetchOnStep
<1>3. CASE d \notin Provided /\ ~(index[d] = "absent" /\ d \notin Unhashed)
  <2>1. index' = index /\ inflight' = [inflight EXCEPT ![r] = (@ \ {Prefetch(p)}) \cup {}]
    BY <1>3 DEF PrefetchCandidate
  <2>2. inflight' = [inflight EXCEPT ![r] = @ \ {Prefetch(p)}]
    BY <2>1
  <2> QED BY <1>0, <2>1, <2>2, DropStep
<1> QED BY <1>1, <1>2, <1>3

\* A prefetch waits for versions that were registered.
LEMMA PrefetchNothingStep ==
    ASSUME IInv, NEW r \in Resolver, NEW p \in Package, PrefetchNothing(r, p) PROVE IInv'
<1>1. Prefetch(p) \in inflight[r] /\ Prefetch(p).key = p
  BY RequestShape DEF PrefetchNothing
<1>2. index[p] # "absent"
  BY <1>1 DEF IInv, EachOK, RequestsOK, Registered
<1> QED BY <1>1, <1>2, DropStep DEF PrefetchNothing, solver

\* A nested resolution starts, with nothing registered or requested.
LEMMA BuildStep == ASSUME IInv, NEW r \in Resolver, NEW d \in Sdist, Build(r, d) PROVE IInv'
<1>0. /\ TypeOK /\ d \in Resolver /\ d \in Dist /\ life[d] = "unborn" /\ EachOK(d)
      /\ Goto(d, "visit") /\ "visit" \in Location
      /\ UNCHANGED <<index, send, focus, agenda, pins, rejected, preVisited, queue, inflight>>
  BY DEF Build, IInv, Resolver, Sdist, Location
<1>1. pc[d] = "unborn"
  BY <1>0 DEF EachOK, LifeOK
<1>2. /\ pc' \in [Resolver -> Location] /\ pc'[d] = "visit"
      /\ \A q \in Resolver \ {d} : pc'[q] = pc[q]
  BY <1>0, GotoTypes
<1>3. /\ life' \in [Resolver -> Life] /\ life'[d] = "live"
      /\ \A q \in Resolver \ {d} : life'[q] = life[q]
  BY <1>0 DEF TypeOK, Build, Life
<1>4. stack' \in [Resolver -> SUBSET Dist]
  BY <1>0 DEF TypeOK, Build
<1>5. TypeOK'
  BY <1>0, <1>2, <1>3, <1>4 DEF TypeOK
<1>6. EachOK(d)'
  <2>1. SolverOK(d)'
    BY <1>2 DEF SolverOK, At, OnPackage, OnDist
  <2>2. Announced(d)'
    BY <1>0 DEF EachOK, Announced, Known, Registered
  <2>3. LifeOK(d)'
    BY <1>2, <1>3 DEF LifeOK
  <2>4. RequestsOK(d)'
    BY <1>0, <1>2 DEF EachOK, RequestsOK, Registered
  <2> QED BY <2>1, <2>2, <2>3, <2>4 DEF EachOK
<1>7. \A q \in Resolver : EachOK(q)'
  <2> SUFFICES ASSUME NEW q \in Resolver, q # d PROVE EachOK(q)'
    BY <1>6
  <2>1. Grows
    BY <1>0 DEF Grows, Registered
  <2> QED BY <1>0, <1>2, <1>3, <2>1, OtherEach DEF IInv
<1>8. NoUnregisteredTask'
  BY <1>2 DEF IInv, NoUnregisteredTask
<1>9. \A q \in Resolver, j \in Key :
        (Sending(q, j)' <=> Sending(q, j)) /\ (Fetching(q, j)' <=> Fetching(q, j))
  BY <1>0, <1>1, <1>2 DEF Sending, Fetching
<1>10. FetchedOnce'
  BY <1>0, <1>9, OnceKept DEF IInv
<1>11. JobsOwned'
  <2>1. \A q \in Resolver : CutShort(q) => CutShort(q)'
    BY <1>0, <1>1, <1>2, <1>3 DEF CutShort
  <2> QED BY <1>0, <1>9, <2>1, OwnedKept DEF IInv, JobsOwned
<1> QED BY <1>5, <1>7, <1>8, <1>10, <1>11 DEF IInv

\* An error of a future ends the resolution and those it awaited.
LEMMA FetchFailsStep == ASSUME IInv, NEW r \in Resolver, NEW task, FetchFails(r, task) PROVE IInv'
<1>0. /\ TypeOK /\ EachOK(r) /\ inflight[r] # {}
      /\ UNCHANGED <<index, stack, pc, send, focus, agenda, pins, rejected, preVisited>>
  BY DEF FetchFails, IInv, solver
<1>1. life[r] = "live"
  BY <1>0 DEF EachOK, LifeOK
<1>2. PICK awaited \in SUBSET Resolver :
        /\ \A c \in awaited : life[c] = "live"
        /\ life' = [c \in Resolver |->
             IF c = r THEN "aborted" ELSE IF c \in awaited THEN "dropped" ELSE life[c]]
        /\ inflight' = [c \in Resolver |-> IF c \in awaited \cup {r} THEN {} ELSE inflight[c]]
        /\ queue' = [c \in Resolver |-> IF c \in awaited \cup {r} THEN <<>> ELSE queue[c]]
  BY DEF FetchFails, Abort
<1>3. TypeOK'
  <2>1. life' \in [Resolver -> Life]
    BY <1>0, <1>2 DEF TypeOK, Life
  <2>2. inflight' \in [Resolver -> SUBSET Request]
    BY <1>0, <1>2 DEF TypeOK
  <2>3. <<>> \in Seq(Request) /\ Len(<<>>) <= Capacity
    BY FetchAssumption
  <2>4. queue' \in [Resolver -> Seq(Request)] /\ \A q \in Resolver : Len(queue'[q]) <= Capacity
    BY <1>0, <1>2, <2>3 DEF TypeOK
  <2> QED BY <1>0, <2>1, <2>2, <2>4 DEF TypeOK
<1>4. \A q \in Resolver : EachOK(q)'
  <2> SUFFICES ASSUME NEW q \in Resolver PROVE EachOK(q)'
    OBVIOUS
  <2>0. EachOK(q)
    BY DEF IInv
  <2>1. CASE q \in awaited \cup {r}
    <3>1. /\ life[q] = "live" /\ life'[q] \in {"aborted", "dropped"}
          /\ queue'[q] = <<>> /\ inflight'[q] = {}
      BY <2>1, <1>1, <1>2
    <3>2. SolverOK(q)'
      BY <1>0, <2>0 DEF EachOK, SolverOK, At, Registered
    <3>3. Announced(q)'
      BY <1>0, <2>0 DEF EachOK, Announced, Known, Registered
    <3>4. LifeOK(q)'
      BY <1>0, <2>0, <3>1 DEF EachOK, LifeOK
    <3>5. RequestsOK(q)'
      BY <1>0, <2>0, <3>1 DEF EachOK, RequestsOK, Registered
    <3> QED BY <3>2, <3>3, <3>4, <3>5 DEF EachOK
  <2>2. CASE q \notin awaited \cup {r}
    <3>1. life'[q] = life[q] /\ queue'[q] = queue[q] /\ inflight'[q] = inflight[q]
      BY <2>2, <1>2
    <3>2. Grows
      BY <1>0 DEF Grows, Registered
    <3> QED BY <1>0, <2>0, <3>1, <3>2, OtherEach
  <2> QED BY <2>1, <2>2
<1>5. NoUnregisteredTask'
  BY <1>0 DEF IInv, NoUnregisteredTask
<1>6. FetchedOnce'
  <2>1. \A q \in Resolver : queue'[q] = queue[q] \/ queue'[q] = <<>>
    BY <1>2
  <2>2. \A q \in Resolver, k \in Key :
          (Sending(q, k)' => Sending(q, k)) /\ (Fetching(q, k)' => Fetching(q, k))
    BY <1>0, <1>2 DEF Sending, Fetching
  <2> QED BY <2>1, <2>2, OnceKept DEF IInv
<1>7. JobsOwned'
  BY <1>2 DEF JobsOwned, CutShort
<1> QED BY <1>3, <1>4, <1>5, <1>6, <1>7 DEF IInv

\* A resolution returns, with nothing in flight.
LEMMA JoinStep == ASSUME IInv, NEW r \in Resolver, Join(r) PROVE IInv'
<1>0. /\ TypeOK /\ EachOK(r) /\ life[r] = "live" /\ pc[r] \in Ended
      /\ queue[r] = <<>> /\ inflight[r] = {}
      /\ UNCHANGED <<index, stack, pc, send, focus, agenda, pins, rejected, preVisited,
                     queue, inflight>>
  BY DEF Join, IInv, solver
<1>1. /\ life' \in [Resolver -> Life] /\ life'[r] \in {"ok", "err"}
      /\ \A q \in Resolver \ {r} : life'[q] = life[q]
  BY <1>0 DEF TypeOK, Join, Life
<1>2. TypeOK'
  BY <1>0, <1>1 DEF TypeOK
<1>3. EachOK(r)'
  <2>1. SolverOK(r)' /\ Announced(r)' /\ RequestsOK(r)'
    BY <1>0 DEF EachOK, SolverOK, At, Announced, Known, RequestsOK, Registered
  <2>2. LifeOK(r)'
    BY <1>0, <1>1 DEF LifeOK, Ended
  <2> QED BY <2>1, <2>2 DEF EachOK
<1>4. \A q \in Resolver : EachOK(q)'
  <2> SUFFICES ASSUME NEW q \in Resolver, q # r PROVE EachOK(q)'
    BY <1>3
  <2>1. Grows
    BY <1>0 DEF Grows, Registered
  <2> QED BY <1>0, <1>1, <2>1, OtherEach DEF IInv
<1>5. NoUnregisteredTask'
  BY <1>0 DEF IInv, NoUnregisteredTask
<1>6. \A q \in Resolver, j \in Key :
        (Sending(q, j)' <=> Sending(q, j)) /\ (Fetching(q, j)' <=> Fetching(q, j))
  BY <1>0 DEF Sending, Fetching
<1>7. FetchedOnce'
  BY <1>0, <1>6, OnceKept DEF IInv
<1>8. JobsOwned'
  <2>1. \A q \in Resolver : CutShort(q) => CutShort(q)'
    BY <1>0, <1>1 DEF CutShort
  <2> QED BY <1>0, <1>6, <2>1, OwnedKept DEF IInv, JobsOwned
<1> QED BY <1>2, <1>4, <1>5, <1>7, <1>8 DEF IInv
-----------------------------------------------------------------------------
(* The theorems. *)

\* Nothing is registered, requested or selected at first.
LEMMA InitInv == Init => IInv
<1> SUFFICES ASSUME Init PROVE IInv
  OBVIOUS
<1>1. Resolver = {Root} \cup Sdist /\ Sdist \subseteq Dist /\ Dist \subseteq Key /\ Root \in Resolver
  BY DEF Resolver, Sdist, Key
<1>2. TypeOK
  <2>1. send \in [Resolver -> [key : Key \cup {Root}, then : Location]]
    BY DEF Init, Location
  <2>2. agenda \in [Resolver -> SUBSET Package]
    BY FetchAssumption DEF Init
  <2>3. <<>> \in Seq(Request) /\ Len(<<>>) <= Capacity
    BY FetchAssumption
  <2>4. queue \in [Resolver -> Seq(Request)] /\ \A r \in Resolver : Len(queue[r]) <= Capacity
    BY <2>3 DEF Init
  <2> QED BY <2>1, <2>2, <2>4 DEF Init, TypeOK, Life, Location
<1>3. \A r \in Resolver : pc[r] \in {"visit", "unborn"} /\ queue[r] = <<>> /\ inflight[r] = {}
  BY DEF Init
<1>4. \A r \in Resolver : EachOK(r)
  <2> SUFFICES ASSUME NEW r \in Resolver PROVE EachOK(r)
    OBVIOUS
  <2>1. SolverOK(r)
    BY <1>3 DEF SolverOK, At, OnPackage, OnDist
  <2>2. Announced(r)
    BY DEF Announced, Known, Init
  <2>3. LifeOK(r)
    BY <1>3 DEF LifeOK, Init
  <2>4. RequestsOK(r)
    BY <1>3 DEF RequestsOK
  <2> QED BY <2>1, <2>2, <2>3, <2>4 DEF EachOK
<1>5. FetchedOnce
  BY <1>3 DEF FetchedOnce, Sending, Fetching, Queued
<1>6. NoUnregisteredTask /\ JobsOwned
  BY <1>3 DEF NoUnregisteredTask, JobsOwned, Init
<1> QED BY <1>2, <1>4, <1>5, <1>6 DEF IInv

\* Every step preserves the invariant.
LEMMA NextInv == IInv /\ [Next]_vars => IInv'
<1> SUFFICES ASSUME IInv, [Next]_vars PROVE IInv'
  OBVIOUS
<1>1. ASSUME NEW r \in Resolver, Solve(r) PROVE IInv'
  BY <1>1, SendStep, PropagateStep, SolvedStep, NoVersionsStep, BatchEndStep, GetDependenciesStep,
     WaitStep, VisitStep, PreVisitStep, PickStep, ChooseVersionStep, BatchPrefetchStep, ConflictStep
     DEF Solve
<1>2. ASSUME NEW r \in Resolver, Serve(r) PROVE IInv'
  BY <1>2, ReceiveStep, JoinStep, FetchStep, BuildStep, BuiltStep, PrefetchNothingStep,
     PrefetchCandidateStep DEF Serve
<1>3. ASSUME NEW r \in Resolver, NEW task \in inflight[r], FetchFails(r, task) PROVE IInv'
  BY <1>3, FetchFailsStep
<1>4. CASE UNCHANGED vars
  BY <1>4 DEF vars, solver, IInv, TypeOK, NoUnregisteredTask, EachOK, SolverOK, At, Registered,
     Announced, Known, LifeOK, RequestsOK, FetchedOnce, JobsOwned, HasOwner, CutShort,
     Sending, Fetching, Queued
<1> QED BY <1>1, <1>2, <1>3, <1>4 DEF Next

\* The inductive invariant: where each solver is says what it has registered, and
\* each request is for a registered key.
THEOREM FetchInductive == Spec => []IInv
BY InitInv, NextInv, PTL DEF Spec

\* The state of solvers, fetchers, channels and the index is well typed, and no
\* channel ever holds more than its capacity.
THEOREM FetchTypeCorrect == Spec => []TypeOK
<1>1. IInv => TypeOK
  BY DEF IInv
<1> QED BY <1>1, FetchInductive, PTL

\* No key is fetched twice, however many resolutions share the index and whatever
\* they prefetch: `register` gives it to one, and it is handed on from there.
THEOREM FetchesAreUnique == Spec => []FetchedOnce
<1>1. IInv => FetchedOnce
  BY DEF IInv
<1> QED BY <1>1, FetchInductive, PTL

\* While no resolution was cut short, every key that is being waited for has a
\* solver, a channel or a future that will call `done`.
THEOREM WaitsAreOwned == Spec => []JobsOwned
<1>1. IInv => JobsOwned
  BY DEF IInv
<1> QED BY <1>1, FetchInductive, PTL

\* Neither a solver nor a prefetch ever waits for a key nobody has registered:
\* the error `UnregisteredTask` cannot happen.
THEOREM WaitsAreRegistered == Spec => []NoUnregisteredTask
<1>1. IInv => NoUnregisteredTask
  BY DEF IInv
<1> QED BY <1>1, FetchInductive, PTL
=============================================================================
