-------------------------- MODULE SourceBuildProofs --------------------------
(***************************************************************************)
(* What a source distribution's cache shard serves, for any number of      *)
(* processes, interpreters, revisions and edits of the source.             *)
(*                                                                         *)
(* The argument is about the times at which things are read: the stamp of  *)
(* the source is noted (`info`) before it is unpacked or built, so what a  *)
(* revision has is of that edit or a later one.  A revision that differs   *)
(* from its own hash must have a pointer that no call can find current.    *)
(***************************************************************************)
EXTENDS SourceBuild, TLAPS

Inside == {"locked", "stat", "unpacked", "revised", "ready", "building", "moved"}
Using  == {"revised", "ready", "building", "moved"}

\* The states of the source that a folder has something of.
States(f) == ({f.src, f.metadata} \cup {f.wheels[t] : t \in Tag}) \ {Missing}

\* Folder f has nothing of a state before the one noted in pointer r, and the
\* hash of an archive was taken after that.
Holds(f, r) ==
    /\ \A c \in States(f) : c >= r.info
    /\ kind = "archive" /\ r.hash # Missing => r.info <= r.hash

\* It has nothing but what was hashed.
Hashed(f, r) == kind = "archive" /\ r.hash # Missing => States(f) \subseteq {r.hash}

\* Nothing in the shard is of a state that has not been.  Every change to an
\* archive shows.
Past ==
    /\ stamp <= content /\ (kind # "tree" => stamp = content)
    /\ pointer.info <= content /\ pointer.hash <= content
    /\ \A r \in Revision : \A c \in States(revisions[r]) : c <= content

\* Revisions are new when they are made.
Minted ==
    /\ pointer.id <= minted
    /\ \A r \in Revision : r > minted => States(revisions[r]) = {}

\* The current revision is of the state noted, and of later ones.  While it can
\* be found current, it has nothing but what was hashed.
Current_ ==
    pointer.id # Missing =>
        /\ kind # "url" => Holds(revisions[pointer.id], pointer)
        /\ pointer.info = content => Hashed(revisions[pointer.id], pointer)

ShardOK == Past /\ Minted /\ Current_

\* A call c knows of no state that has not been.
Bounded(c) ==
    /\ c.began <= stamp /\ c.built <= content
    /\ c.rev.info <= content /\ c.rev.hash <= content

\* A call that uses a revision has the pointer to it in hand, and a call that
\* can find the pointer current has a revision that is as it was hashed.
Consistent(c) ==
    /\ c.pc \in Using => c.rev = pointer /\ pointer.id # Missing
    /\ c.pc \in Using \/ (c.pc = "stat" /\ pointer.id # Missing /\ c.rev.info = pointer.info)
         => Hashed(revisions[pointer.id], pointer)

\* A call notes the state of a local source after it began.
Noted(c) ==
    kind # "url" /\ c.pc \in {"stat", "unpacked"} \cup Using => c.rev.info >= c.began

\* What was just unpacked is of the state noted, or of a later one.
Unpacked(c) ==
    c.pc = "unpacked" =>
        /\ c.rev.id \in Revision /\ c.rev.id <= minted
        /\ kind # "url" => Holds(revisions[c.rev.id], c.rev)
        /\ Hashed(revisions[c.rev.id], c.rev)

\* What is built is what the revision has.
Building(c) ==
    /\ c.pc = "ready" /\ kind # "tree" => revisions[c.rev.id].src # Missing
    /\ c.pc \in {"building", "moved"} =>
         /\ kind # "url" => c.built >= c.rev.info
         /\ kind = "archive" /\ c.rev.hash # Missing => c.built = c.rev.hash
    /\ c.pc \in {"ready", "building", "moved"} => c.want \in {Missing, c.rev.hash}

\* So is what is returned.
Returned(c) ==
    c.pc = "returned" =>
        /\ kind # "url" => c.built >= c.began
        /\ kind = "archive" /\ c.want # Missing => c.built = c.want

\* Calls that use the shard hold its lock.
Locked(p) == proc[p].pc \in Inside => lock = p

CallOK(p) ==
    /\ Locked(p)
    /\ Bounded(proc[p]) /\ Consistent(proc[p]) /\ Noted(proc[p])
    /\ Unpacked(proc[p]) /\ Building(proc[p]) /\ Returned(proc[p])

IInv == TypeOK /\ ShardOK /\ \A p \in Process : CallOK(p)
-----------------------------------------------------------------------------
(* How a step changes the calls.                                           *)

\* Call p goes to l with pointer r in hand and b built; others stay.
Moves(p, l, r, b) ==
    /\ proc' \in [Process -> Call]
    /\ proc'[p].pc = l /\ proc'[p].rev = r /\ proc'[p].built = b
    /\ proc'[p].began = proc[p].began /\ proc'[p].want = proc[p].want
    /\ proc'[p].op = proc[p].op /\ proc'[p].tag = proc[p].tag
    /\ \A q \in Process \ {p} : proc'[q] = proc[q]

\* What is nothing has the type of what is there.
LEMMA NothingTypes ==
    /\ NoPointer \in Pointer /\ NoFolder \in Folder /\ NoCall \in Call
    /\ NoCall.pc = "idle" /\ NoCall.began = 0 /\ NoCall.built = 0 /\ NoCall.want = 0
    /\ NoCall.rev.info = 0 /\ NoCall.rev.hash = 0
<1>1. 0 \in Maybe /\ Missing = 0
  BY SourceAssumption DEF Maybe, Missing
<1>2. NoPointer \in Pointer
  BY <1>1 DEF NoPointer, Pointer
<1>3. [t \in Tag |-> Missing] \in [Tag -> Maybe]
  BY <1>1
<1>4. NoFolder \in Folder
  BY <1>1, <1>3 DEF NoFolder, Folder
<1>5. (CHOOSE t \in Tag : TRUE) \in Tag
  BY SourceAssumption
<1>6. NoCall \in Call
  BY <1>1, <1>2, <1>5 DEF NoCall, Call, Place
<1>. QED
  BY <1>1, <1>2, <1>4, <1>6 DEF NoCall, NoPointer

\* A call is one of the calls, whatever it goes to.
LEMMA Puts ==
    ASSUME TypeOK, NEW p \in Process, NEW c \in Call, proc' = [proc EXCEPT ![p] = c]
    PROVE  /\ proc' \in [Process -> Call] /\ proc'[p] = c
           /\ \A q \in Process \ {p} : proc'[q] = proc[q]
BY DEF TypeOK

\* A step to l.
LEMMA GoesTo ==
    ASSUME TypeOK, NEW p \in Process, NEW l \in Place, Goto(p, l)
    PROVE  Moves(p, l, proc[p].rev, proc[p].built)
<1>. DEFINE c == [proc[p] EXCEPT !.pc = l]
<1>1. proc[p] \in Call
  BY DEF TypeOK
<1>2. c \in Call
  BY <1>1 DEF Call
<1>3. /\ c.pc = l /\ c.rev = proc[p].rev /\ c.built = proc[p].built
      /\ c.began = proc[p].began /\ c.want = proc[p].want
      /\ c.op = proc[p].op /\ c.tag = proc[p].tag
  BY <1>1 DEF Call
<1>4. proc' = [proc EXCEPT ![p] = c]
  BY DEF Goto
<1>. HIDE DEF c
<1>. QED
  BY <1>2, <1>3, <1>4, Puts DEF Moves

\* A step to l with b built.
LEMMA GoesBuilt ==
    ASSUME TypeOK, NEW p \in Process, NEW l \in Place, NEW b \in Maybe,
           proc' = [proc EXCEPT ![p].pc = l, ![p].built = b]
    PROVE  Moves(p, l, proc[p].rev, b)
<1>. DEFINE c == [proc[p] EXCEPT !.pc = l, !.built = b]
<1>1. proc[p] \in Call
  BY DEF TypeOK
<1>2. c \in Call
  BY <1>1 DEF Call
<1>3. /\ c.pc = l /\ c.rev = proc[p].rev /\ c.built = b
      /\ c.began = proc[p].began /\ c.want = proc[p].want
      /\ c.op = proc[p].op /\ c.tag = proc[p].tag
  BY <1>1 DEF Call
<1>4. proc' = [proc EXCEPT ![p] = c]
  OBVIOUS
<1>. HIDE DEF c
<1>. QED
  BY <1>2, <1>3, <1>4, Puts DEF Moves

\* A step to l with pointer r in hand.
LEMMA GoesWith ==
    ASSUME TypeOK, NEW p \in Process, NEW l \in Place, NEW r \in Pointer,
           proc' = [proc EXCEPT ![p].pc = l, ![p].rev = r]
    PROVE  Moves(p, l, r, proc[p].built)
<1>. DEFINE c == [proc[p] EXCEPT !.pc = l, !.rev = r]
<1>1. proc[p] \in Call
  BY DEF TypeOK
<1>2. c \in Call
  BY <1>1 DEF Call
<1>3. /\ c.pc = l /\ c.rev = r /\ c.built = proc[p].built
      /\ c.began = proc[p].began /\ c.want = proc[p].want
      /\ c.op = proc[p].op /\ c.tag = proc[p].tag
  BY <1>1 DEF Call
<1>4. proc' = [proc EXCEPT ![p] = c]
  OBVIOUS
<1>. HIDE DEF c
<1>. QED
  BY <1>2, <1>3, <1>4, Puts DEF Moves

\* `Stat` notes the state of the source.
LEMMA StatMoves ==
    ASSUME TypeOK, NEW p \in Process, Stat(p)
    PROVE  \E r \in Pointer :
              /\ Moves(p, "stat", r, proc[p].built)
              /\ r.id = proc[p].rev.id /\ r.hash = proc[p].rev.hash
              /\ r.info = IF kind = "url" THEN Missing ELSE stamp
<1>. DEFINE i == IF kind = "url" THEN Missing ELSE stamp
            r == [proc[p].rev EXCEPT !.info = i]
<1>1. proc[p].rev \in Pointer
  BY DEF TypeOK, Call
<1>2. i \in Maybe
  BY SourceAssumption DEF TypeOK, Maybe, Content, Missing
<1>3. r \in Pointer /\ r.id = proc[p].rev.id /\ r.hash = proc[p].rev.hash /\ r.info = i
  BY <1>1, <1>2 DEF Pointer
<1>4. proc' = [proc EXCEPT ![p].pc = "stat", ![p].rev = r]
  BY DEF Stat
<1>5. "stat" \in Place
  BY DEF Place
<1>. HIDE DEF r
<1>. QED
  BY <1>3, <1>4, <1>5, GoesWith

\* `Unpack` makes a revision and takes it in hand.
LEMMA UnpackMoves ==
    ASSUME TypeOK, NEW p \in Process, Unpack(p)
    PROVE  \E r \in Pointer :
              /\ Moves(p, "unpacked", r, proc[p].built)
              /\ r.id = minted + 1 /\ r.info = proc[p].rev.info
              /\ r.hash = IF kind = "url" \/ proc[p].want # Missing THEN content ELSE Missing
<1>. DEFINE h == IF kind = "url" \/ proc[p].want # Missing THEN content ELSE Missing
            r == [proc[p].rev EXCEPT !.id = minted + 1, !.hash = h]
<1>1. proc[p].rev \in Pointer
  BY DEF TypeOK, Call
<1>2. h \in Maybe
  BY SourceAssumption DEF TypeOK, Maybe, Content, Missing
<1>3. minted + 1 \in Revision
  BY SourceAssumption DEF TypeOK, Unpack, Revision
<1>4. r \in Pointer /\ r.id = minted + 1 /\ r.info = proc[p].rev.info /\ r.hash = h
  BY <1>1, <1>2, <1>3 DEF Pointer
<1>5. proc' = [proc EXCEPT ![p].pc = "unpacked", ![p].rev = r]
  BY DEF Unpack
<1>6. "unpacked" \in Place
  BY DEF Place
<1>. HIDE DEF r
<1>. QED
  BY <1>4, <1>5, <1>6, GoesWith

\* `Begin` starts with nothing in hand.
LEMMA BeginMoves ==
    ASSUME TypeOK, NEW p \in Process, Begin(p)
    PROVE  /\ proc' \in [Process -> Call]
           /\ proc'[p].pc = "begun" /\ proc'[p].began = stamp /\ proc'[p].built = 0
           /\ proc'[p].rev.info = 0 /\ proc'[p].rev.hash = 0
           /\ \A q \in Process \ {p} : proc'[q] = proc[q]
<1>1. PICK op \in {"wheel", "metadata"}, t \in Tag,
           w \in IF kind = "tree" THEN {Missing} ELSE Maybe :
         proc' = [proc EXCEPT ![p] = [NoCall EXCEPT
                   !.pc = "begun", !.op = op, !.tag = t, !.want = w, !.began = stamp]]
  BY DEF Begin
<1>. DEFINE c == [NoCall EXCEPT
                   !.pc = "begun", !.op = op, !.tag = t, !.want = w, !.began = stamp]
<1>2. w \in Maybe /\ stamp \in Maybe
  BY SourceAssumption DEF Maybe, Missing, TypeOK, Content
<1>3. c \in Call
  BY <1>2, NothingTypes DEF Call, Place
<1>4. c.pc = "begun" /\ c.began = stamp /\ c.built = 0 /\ c.rev.info = 0 /\ c.rev.hash = 0
  BY NothingTypes DEF Call
<1>. HIDE DEF c
<1>. QED
  BY <1>1, <1>3, <1>4, Puts DEF c
-----------------------------------------------------------------------------
(* The numbers and the folders.                                            *)

\* A pointer is made of numbers.
LEMMA PointerNat ==
    ASSUME NEW r \in Pointer
    PROVE  /\ r.info \in Nat /\ r.hash \in Nat /\ r.id \in Nat
           /\ r.id # Missing => r.id \in Revision
<1>1. r.info \in Maybe /\ r.hash \in Maybe /\ r.id \in Revision \cup {Missing}
  BY DEF Pointer
<1>. QED
  BY <1>1, SourceAssumption DEF Maybe, Revision, Missing

\* What the calls and the pointer say are natural numbers.
LEMMA Numbers ==
    ASSUME TypeOK
    PROVE  /\ content \in Nat /\ content \in Maybe /\ content # Missing /\ minted \in Nat /\ Missing = 0
           /\ stamp \in Nat /\ stamp \in Maybe
           /\ pointer.info \in Nat /\ pointer.hash \in Nat /\ pointer.id \in Nat
           /\ pointer.id # Missing => pointer.id \in Revision
           /\ \A r \in Revision : r \in Nat /\ r # Missing
           /\ \A p \in Process :
                /\ proc[p].began \in Nat /\ proc[p].built \in Nat /\ proc[p].want \in Nat
                /\ proc[p].rev.info \in Nat /\ proc[p].rev.hash \in Nat /\ proc[p].rev.id \in Nat
<1>1. Maybe \subseteq Nat /\ Revision \subseteq Nat /\ Content \subseteq Maybe /\ 0 \notin Content
      /\ Missing = 0 /\ 0 \notin Revision
  BY SourceAssumption DEF Maybe, Revision, Content, Missing
<1>2. content \in Content /\ stamp \in Content /\ minted \in Nat /\ pointer \in Pointer
  BY SourceAssumption DEF TypeOK
<1>4. \A p \in Process : proc[p] \in Call
  BY DEF TypeOK
<1>5. \A c \in Call : c.rev \in Pointer /\ c.began \in Nat /\ c.built \in Nat /\ c.want \in Nat
  BY <1>1 DEF Call
<1>6. \A p \in Process :
        /\ proc[p].began \in Nat /\ proc[p].built \in Nat /\ proc[p].want \in Nat
        /\ proc[p].rev.info \in Nat /\ proc[p].rev.hash \in Nat /\ proc[p].rev.id \in Nat
<2>. TAKE p \in Process
<2>1. proc[p].began \in Nat /\ proc[p].built \in Nat /\ proc[p].want \in Nat
  BY <1>4, <1>5
<2>2. proc[p].rev \in Pointer
  BY <1>4, <1>5
<2>. QED
  BY <2>1, <2>2, PointerNat
<1>7. /\ content \in Nat /\ content \in Maybe /\ content # Missing /\ stamp \in Nat /\ stamp \in Maybe
      /\ \A r \in Revision : r \in Nat /\ r # Missing
  BY <1>1, <1>2
<1>8. /\ pointer.info \in Nat /\ pointer.hash \in Nat /\ pointer.id \in Nat
      /\ pointer.id # Missing => pointer.id \in Revision
  BY <1>2, PointerNat
<1>. QED
  BY <1>1, <1>2, <1>6, <1>7, <1>8

\* A folder has states of the source.
LEMMA StatesNat ==
    ASSUME NEW f \in Folder
    PROVE  /\ \A c \in States(f) : c \in Nat /\ c # Missing
           /\ \A c : c \in {f.src, f.metadata} /\ c # Missing => c \in States(f)
           /\ \A t \in Tag : f.wheels[t] # Missing => f.wheels[t] \in States(f)
<1>1. Maybe \subseteq Nat
  BY SourceAssumption DEF Maybe
<1>. QED
  BY <1>1 DEF States, Folder

\* A folder that gets state c as its source.
LEMMA PutSource ==
    ASSUME NEW f \in Folder, NEW c \in Maybe, NEW g \in Folder,
           g.src = c, g.metadata = f.metadata, g.wheels = f.wheels
    PROVE  States(g) \subseteq States(f) \cup ({c} \ {Missing})
BY DEF States

\* A folder that gets metadata of state c.
LEMMA PutMetadata ==
    ASSUME NEW f \in Folder, NEW c \in Maybe
    PROVE  LET g == [f EXCEPT !.metadata = c]
           IN  g \in Folder /\ g.src = f.src /\ States(g) \subseteq States(f) \cup ({c} \ {Missing})
<1>. DEFINE g == [f EXCEPT !.metadata = c]
<1>1. g \in Folder
  BY DEF Folder
<1>2. g.src = f.src /\ g.metadata = c /\ g.wheels = f.wheels
  BY DEF Folder
<1>. QED
  BY <1>1, <1>2 DEF States

\* A folder that gets a wheel of state c.
LEMMA PutWheel ==
    ASSUME NEW f \in Folder, NEW c \in Maybe, NEW t \in Tag
    PROVE  LET g == [f EXCEPT !.wheels[t] = c]
           IN  g \in Folder /\ g.src = f.src /\ States(g) \subseteq States(f) \cup ({c} \ {Missing})
<1>. DEFINE g == [f EXCEPT !.wheels[t] = c]
            w == [f.wheels EXCEPT ![t] = c]
<1>1. w \in [Tag -> Maybe] /\ \A u \in Tag : w[u] \in {f.wheels[u], c}
  BY DEF Folder
<1>2. g = [f EXCEPT !.wheels = w]
  BY DEF Folder
<1>. HIDE DEF w
<1>3. g \in Folder
  BY <1>1, <1>2 DEF Folder
<1>4. g.src = f.src /\ g.metadata = f.metadata /\ g.wheels = w
  BY <1>2 DEF Folder
<1>. HIDE DEF g
<1>. QED
  BY <1>1, <1>3, <1>4 DEF States, g
-----------------------------------------------------------------------------
(* The lock: only its holder is at work on the shard.                      *)

CallInv(c) ==
    Bounded(c) /\ Consistent(c) /\ Noted(c) /\ Unpacked(c) /\ Building(c) /\ Returned(c)

\* The parts of a call's invariant.
LEMMA CallParts ==
    ASSUME NEW p PROVE CallOK(p) <=> Locked(p) /\ CallInv(proc[p])
BY DEF CallOK, CallInv

\* A step of one call that leaves the shard alone.
LEMMA LocalStep ==
    ASSUME IInv, NEW p \in Process,
           UNCHANGED <<kind, content, stamp, pointer, revisions, minted>>,
           proc' \in [Process -> Call], \A q \in Process \ {p} : proc'[q] = proc[q],
           lock' \in Process \cup {Nobody},
           \A q \in Process \ {p} : lock = q => lock' = q,
           CallOK(p)'
    PROVE  IInv'
<1>1. TypeOK'
  BY DEF IInv, TypeOK
<1>2. ShardOK'
  BY DEF IInv, ShardOK, Past, Minted, Current_, Holds, Hashed
<1>3. ASSUME NEW q \in Process \ {p} PROVE CallOK(q)'
  <2>1. CallOK(q) /\ proc'[q] = proc[q]
    BY <1>3 DEF IInv
  <2>2. Locked(q)'
    BY <1>3, <2>1 DEF CallOK, Locked
  <2>. QED
    BY <2>1, <2>2 DEF CallOK, Bounded, Consistent, Noted, Unpacked, Building, Returned,
         Holds, Hashed
<1>. QED
  BY <1>1, <1>2, <1>3 DEF IInv

\* A step of the call that holds the lock.
LEMMA HolderStep ==
    ASSUME IInv, NEW p \in Process, lock = p, kind' = kind, content' = content, stamp' = stamp,
           TypeOK', ShardOK', \A q \in Process \ {p} : proc'[q] = proc[q],
           CallOK(p)'
    PROVE  IInv'
<1>1. ASSUME NEW q \in Process \ {p} PROVE CallOK(q)'
  <2>1. CallOK(q) /\ proc'[q] = proc[q]
    BY <1>1 DEF IInv
  <2>2. proc[q].pc \notin Inside
    BY <1>1, <2>1 DEF CallOK, Locked
  <2>3. Locked(q)'
    BY <2>1, <2>2 DEF Locked
  <2>4. CallInv(proc[q])
    BY <2>1, CallParts
  <2>5. CallInv(proc[q])'
    BY <2>1, <2>2, <2>4 DEF CallInv, Inside, Using, Bounded, Consistent, Noted, Unpacked,
         Building, Returned
  <2>. QED
    BY <2>3, <2>5 DEF CallOK, CallInv
<1>. QED
  BY <1>1 DEF IInv

\* What a call that ends leaves.
LEMMA ExitStep ==
    ASSUME IInv, NEW p \in Process, Exit(p)
    PROVE  /\ proc' \in [Process -> Call] /\ \A q \in Process \ {p} : proc'[q] = proc[q]
           /\ lock' \in Process \cup {Nobody}
           /\ \A q \in Process \ {p} : lock = q => lock' = q
           /\ content' = content /\ stamp' = stamp => CallOK(p)'
<1>1. /\ proc' \in [Process -> Call] /\ proc'[p] = NoCall
      /\ \A q \in Process \ {p} : proc'[q] = proc[q]
  BY NothingTypes, Puts DEF IInv, Exit
<1>2. /\ lock' \in Process \cup {Nobody}
      /\ \A q \in Process \ {p} : lock = q => lock' = q
  BY SourceAssumption DEF IInv, TypeOK, Exit
<1>3. ASSUME content' = content, stamp' = stamp PROVE CallOK(p)'
  <2>1. content' \in Nat /\ stamp' \in Nat
    BY <1>3, Numbers DEF IInv
  <2>2. Bounded(proc[p])'
    BY <1>1, <2>1, NothingTypes DEF Bounded
  <2>. QED
    BY <1>1, <2>2, NothingTypes DEF CallOK, Locked, Inside, Using, Consistent, Noted, Unpacked,
         Building, Returned
<1>. QED
  BY <1>1, <1>2, <1>3

\* A step of the call that holds the lock and leaves the shard alone.
LEMMA WorkStep ==
    ASSUME IInv, NEW p \in Process, NEW l \in Inside, NEW r, NEW b,
           Moves(p, l, r, b), lock' = p, lock \in {p, Nobody},
           UNCHANGED <<kind, content, stamp, pointer, revisions, minted>>,
           CallInv(proc[p])'
    PROVE  IInv'
<1>1. CallOK(p)'
  BY DEF CallOK, CallInv, Locked
<1>2. \A q \in Process \ {p} : lock = q => lock' = q
  BY SourceAssumption
<1>. QED
  BY <1>1, <1>2, LocalStep DEF Moves

\* A call that returns.
LEMMA ReturnStep ==
    ASSUME IInv, NEW p \in Process, NEW c \in Maybe, c <= content, Return(p, c),
           UNCHANGED <<kind, content, stamp, pointer, revisions, minted>>,
           kind # "url" => c >= proc[p].began,
           kind = "archive" /\ proc[p].want # Missing => c = proc[p].want
    PROVE  IInv'
<1>. USE DEF IInv
<1>1. Moves(p, "returned", proc[p].rev, c)
  BY GoesBuilt DEF Return, Place
<1>2. /\ lock' \in Process \cup {Nobody}
      /\ \A q \in Process \ {p} : lock = q => lock' = q
  BY SourceAssumption DEF TypeOK, Return
<1>3. Bounded(proc[p])'
  BY <1>1 DEF Moves, Bounded, CallOK
<1>4. Returned(proc[p])'
  BY <1>1 DEF Moves, Returned
<1>5. CallOK(p)'
  BY <1>1, <1>3, <1>4 DEF Moves, CallOK, Locked, Inside, Using, Consistent, Noted, Unpacked,
       Building
<1>. QED
  BY <1>1, <1>2, <1>5, LocalStep DEF Moves
-----------------------------------------------------------------------------
(* The steps.                                                              *)

\* A call begins, waits for the lock and looks at the source.
LEMMA BeginStep ==
    ASSUME IInv, NEW p \in Process, Begin(p)
    PROVE  IInv'
<1>. USE DEF IInv
<1>1. UNCHANGED <<kind, content, stamp, pointer, revisions, minted, lock>>
  BY DEF Begin
<1>2. Bounded(proc[p])'
  BY <1>1, BeginMoves, Numbers DEF Bounded
<1>3. CallOK(p)'
  BY <1>2, BeginMoves DEF CallOK, Locked, Inside, Using, Consistent, Noted, Unpacked, Building,
       Returned
<1>4. lock' \in Process \cup {Nobody}
  BY <1>1 DEF TypeOK
<1>. QED
  BY <1>1, <1>3, <1>4, BeginMoves, LocalStep

\* The lock is taken when nobody has it.
LEMMA LockStep ==
    ASSUME IInv, NEW p \in Process, Lock(p)
    PROVE  IInv'
<1>. USE DEF IInv
<1>1. Moves(p, "locked", proc[p].rev, proc[p].built)
  BY GoesTo DEF Lock, Place
<1>2. UNCHANGED <<kind, content, stamp, pointer, revisions, minted>> /\ lock' = p /\ lock = Nobody
  BY DEF Lock
<1>3. CallInv(proc[p])'
  BY <1>1, <1>2 DEF CallInv, Moves, CallOK, Using, Bounded, Consistent, Noted, Unpacked, Building,
       Returned
<1>. QED
  BY <1>1, <1>2, <1>3, WorkStep DEF Inside

\* Static metadata of a tree is of the present state.
LEMMA StaticTreeStep ==
    ASSUME IInv, NEW p \in Process, StaticTree(p)
    PROVE  IInv'
<1>. USE DEF IInv
<1>1. content \in Maybe /\ content <= content /\ content >= proc[p].began
  BY Numbers DEF CallOK, Bounded, ShardOK, Past
<1>. QED
  BY <1>1, ReturnStep DEF StaticTree

\* A call that notes a state that the pointer has: the pointer's state is the
\* present one, and the revision is as it was hashed.
LEMMA StatStep ==
    ASSUME IInv, NEW p \in Process, Stat(p)
    PROVE  IInv'
<1>. USE DEF IInv
<1>1. PICK r \in Pointer :
          /\ Moves(p, "stat", r, proc[p].built)
          /\ r.id = proc[p].rev.id /\ r.hash = proc[p].rev.hash
          /\ r.info = IF kind = "url" THEN Missing ELSE stamp
  BY StatMoves
<1>2. UNCHANGED <<kind, content, stamp, pointer, revisions, minted, lock>> /\ lock = p
  BY DEF Stat, At, CallOK, Locked, Inside
<1>3. Bounded(proc[p])'
  BY <1>1, <1>2, Numbers DEF Moves, CallOK, Bounded, ShardOK, Past
<1>4. Consistent(proc[p])'
  BY <1>1, <1>2 DEF Moves, Consistent, Using, ShardOK, Past, Current_, Hashed
<1>5. Noted(proc[p])'
  BY <1>1, <1>2, Numbers DEF Moves, CallOK, Bounded, Noted
<1>6. CallInv(proc[p])'
  BY <1>1, <1>3, <1>4, <1>5 DEF CallInv, Moves, Unpacked, Building, Returned
<1>. QED
  BY <1>1, <1>2, <1>6, WorkStep DEF Inside

\* A call that finds the pointer current.
LEMMA UsePointerStep ==
    ASSUME IInv, NEW p \in Process, UsePointer(p)
    PROVE  IInv'
<1>. USE DEF IInv
<1>1. Moves(p, "revised", pointer, proc[p].built)
  BY GoesWith DEF UsePointer, TypeOK, Place
<1>2. UNCHANGED <<kind, content, stamp, pointer, revisions, minted, lock>> /\ lock = p
  BY DEF UsePointer, At, CallOK, Locked, Inside
<1>3. /\ pointer.id # Missing /\ proc[p].pc = "stat"
      /\ kind # "url" => pointer.info = proc[p].rev.info
  BY DEF UsePointer, Current, At
<1>4. Bounded(proc[p])'
  BY <1>1, <1>2 DEF Moves, CallOK, Bounded, ShardOK, Past
<1>5. Hashed(revisions[pointer.id], pointer)
  BY <1>3 DEF CallOK, Consistent, Hashed
<1>6. Consistent(proc[p])'
  BY <1>1, <1>2, <1>3, <1>5 DEF Moves, Consistent, Using, Hashed
<1>7. Noted(proc[p])'
  BY <1>1, <1>2, <1>3 DEF Moves, CallOK, Noted
<1>8. CallInv(proc[p])'
  BY <1>1, <1>4, <1>6, <1>7 DEF CallInv, Moves, Unpacked, Building, Returned
<1>. QED
  BY <1>1, <1>2, <1>8, WorkStep DEF Inside

\* What the revision in use has, for the call that uses it.
LEMMA InUse ==
    ASSUME IInv, NEW p \in Process, proc[p].pc \in Using
    PROVE  /\ lock = p /\ proc[p].rev = pointer /\ pointer.id \in Revision
           /\ Folder_(p) = revisions[pointer.id] /\ Folder_(p) \in Folder
           /\ \A c \in States(Folder_(p)) :
                /\ c <= content
                /\ kind # "url" => c >= pointer.info /\ c >= proc[p].began
                /\ kind = "archive" /\ pointer.hash # Missing => c = pointer.hash
<1>. USE DEF IInv
<1>1. lock = p /\ proc[p].rev = pointer /\ pointer.id # Missing
  BY DEF CallOK, Locked, Consistent, Using, Inside
<1>2. pointer.id \in Revision
  BY <1>1, Numbers
<1>3. Folder_(p) = revisions[pointer.id]
  BY <1>1 DEF Folder_
<1>4. Folder_(p) \in Folder
  BY <1>2, <1>3 DEF TypeOK
<1>5. ASSUME NEW c \in States(Folder_(p)) PROVE c \in Nat /\ c <= content
  BY <1>2, <1>3, <1>4, StatesNat DEF ShardOK, Past
<1>6. ASSUME NEW c \in States(Folder_(p)), kind # "url"
      PROVE  c >= pointer.info /\ c >= proc[p].began
  <2>1. c >= pointer.info
    BY <1>1, <1>3, <1>6 DEF ShardOK, Current_, Holds
  <2>2. pointer.info >= proc[p].began
    BY <1>1, <1>6 DEF CallOK, Noted
  <2>. QED
    BY <1>5, <2>1, <2>2, Numbers
<1>7. Hashed(Folder_(p), pointer)
  BY <1>3 DEF CallOK, Consistent
<1>8. ASSUME NEW c \in States(Folder_(p)), kind = "archive", pointer.hash # Missing
      PROVE  c = pointer.hash
  BY <1>7, <1>8 DEF Hashed
<1>. QED
  BY <1>1, <1>2, <1>3, <1>4, <1>5, <1>6, <1>8

\* What is cached is one of the states that the folder has.
LEMMA CachedStates ==
    ASSUME TypeOK, NEW p \in Process, Folder_(p) \in Folder, Cached(p) # Missing
    PROVE  Cached(p) \in States(Folder_(p)) /\ Cached(p) \in Maybe
<1>1. proc[p].tag \in Tag
  BY DEF TypeOK, Call
<1>2. Folder_(p).wheels[proc[p].tag] \in Maybe /\ Folder_(p).metadata \in Maybe
  BY <1>1 DEF Folder
<1>. QED
  BY <1>1, <1>2, StatesNat DEF Cached

\* A call that finds what it wants, or reads it in the unpacked source.
LEMMA FindStep ==
    ASSUME IInv, NEW p \in Process, Find(p) \/ StaticArchive(p)
    PROVE  IInv'
<1>. USE DEF IInv
<1>1. proc[p].pc \in Using /\ Satisfies(p)
  BY DEF Find, StaticArchive, At, Using
<1>2. UNCHANGED <<kind, content, stamp, pointer, revisions, minted>>
  BY DEF Find, StaticArchive
<1>3. PICK c \in Maybe : c \in States(Folder_(p)) /\ Return(p, c)
  <2>1. CASE Find(p)
    BY <1>1, <2>1, InUse, CachedStates DEF Find
  <2>2. CASE StaticArchive(p)
    <3>1. Folder_(p).src \in States(Folder_(p)) /\ Folder_(p).src \in Maybe
      BY <1>1, <2>2, InUse, StatesNat DEF StaticArchive, Folder
    <3>. QED
      BY <2>2, <3>1 DEF StaticArchive
  <2>. QED
    BY <2>1, <2>2
<1>4. c <= content /\ (kind # "url" => c >= proc[p].began)
  BY <1>1, <1>3, InUse
<1>5. kind = "archive" /\ proc[p].want # Missing => c = proc[p].want
  BY <1>1, <1>3, InUse DEF Satisfies
<1>. QED
  BY <1>2, <1>3, <1>4, <1>5, ReturnStep

\* A call that has the source.
LEMMA SourcePresentStep ==
    ASSUME IInv, NEW p \in Process, SourcePresent(p)
    PROVE  IInv'
<1>. USE DEF IInv
<1>1. Moves(p, "ready", proc[p].rev, proc[p].built)
  BY GoesTo DEF SourcePresent, Place
<1>2. UNCHANGED <<kind, content, stamp, pointer, revisions, minted, lock>> /\ proc[p].pc = "revised"
  BY DEF SourcePresent, At
<1>3. lock = p /\ (kind # "tree" => revisions[proc[p].rev.id].src # Missing)
  BY <1>2, InUse DEF SourcePresent, Using, Folder_
<1>4. Bounded(proc[p])' /\ Noted(proc[p])'
  BY <1>1, <1>2 DEF Moves, CallOK, Bounded, Noted, Using
<1>5. Consistent(proc[p])'
  BY <1>1, <1>2 DEF Moves, CallOK, Consistent, Using, Hashed
<1>6. Building(proc[p])'
  BY <1>1, <1>2, <1>3 DEF Moves, Building, SourcePresent, Satisfies
<1>7. CallInv(proc[p])'
  BY <1>1, <1>4, <1>5, <1>6 DEF CallInv, Moves, Unpacked, Returned
<1>. QED
  BY <1>1, <1>2, <1>3, <1>7, WorkStep DEF Inside

\* The back end reads a source that is of the state noted, or of a later one,
\* and as it was hashed.
LEMMA BuildStep ==
    ASSUME IInv, NEW p \in Process, Build(p)
    PROVE  IInv'
<1>. USE DEF IInv
<1>. DEFINE b == IF kind = "tree" THEN content ELSE Folder_(p).src
<1>1. UNCHANGED <<kind, content, stamp, pointer, revisions, minted, lock>> /\ proc[p].pc = "ready"
  BY DEF Build, At
<1>2. proc[p].pc \in Using
  BY <1>1 DEF Using
<1>3. kind # "tree" => b \in States(Folder_(p))
  BY <1>1, <1>2, InUse, StatesNat DEF CallOK, Building
<1>4. b \in Maybe
  BY <1>2, InUse, Numbers DEF Folder
<1>5. Moves(p, "building", proc[p].rev, b)
  BY <1>4, GoesBuilt DEF Build, Place
<1>6. b <= content
  BY <1>2, <1>3, InUse, Numbers
<1>7. kind # "url" => b >= pointer.info
  BY <1>2, <1>3, InUse, Numbers DEF ShardOK, Past
<1>8. kind = "archive" /\ pointer.hash # Missing => b = pointer.hash
  BY <1>2, <1>3, InUse
<1>. HIDE DEF b
<1>9. Bounded(proc[p])' /\ Noted(proc[p])'
  BY <1>1, <1>5, <1>6 DEF Moves, CallOK, Bounded, Noted, Using
<1>10. Consistent(proc[p])'
  BY <1>1, <1>5 DEF Moves, CallOK, Consistent, Using, Hashed
<1>11. Building(proc[p])'
  BY <1>1, <1>2, <1>5, <1>7, <1>8, InUse DEF Moves, Building, CallOK
<1>12. CallInv(proc[p])'
  BY <1>5, <1>9, <1>10, <1>11 DEF CallInv, Moves, Unpacked, Returned
<1>. QED
  BY <1>1, <1>2, <1>5, <1>12, InUse, WorkStep DEF Inside

\* The back end tells the metadata without the wheel.
LEMMA PrepareMetadataStep ==
    ASSUME IInv, NEW p \in Process, PrepareMetadata(p)
    PROVE  IInv'
<1>. USE DEF IInv
<1>1. Moves(p, "moved", proc[p].rev, proc[p].built)
  BY GoesTo DEF PrepareMetadata, Place
<1>2. UNCHANGED <<kind, content, stamp, pointer, revisions, minted, lock>> /\ proc[p].pc = "building"
  BY DEF PrepareMetadata, At
<1>3. lock = p
  BY <1>2, InUse DEF Using
<1>4. Bounded(proc[p])' /\ Noted(proc[p])' /\ Building(proc[p])'
  BY <1>1, <1>2 DEF Moves, CallOK, Bounded, Noted, Building, Using
<1>5. Consistent(proc[p])'
  BY <1>1, <1>2 DEF Moves, CallOK, Consistent, Using, Hashed
<1>6. CallInv(proc[p])'
  BY <1>1, <1>4, <1>5 DEF CallInv, Moves, Unpacked, Returned
<1>. QED
  BY <1>1, <1>2, <1>3, <1>6, WorkStep DEF Inside

\* A call ends, fails or its process dies.
LEMMA EndStep ==
    ASSUME IInv, NEW p \in Process, End(p)
    PROVE  IInv'
BY ExitStep, LocalStep DEF End
-----------------------------------------------------------------------------
(* The steps that change the shard.                                        *)

\* One folder gets something of state c.
LEMMA FolderWritten ==
    ASSUME IInv, NEW r \in Revision, NEW g \in Folder, NEW c \in Maybe,
           revisions' = [revisions EXCEPT ![r] = g],
           States(g) \subseteq States(revisions[r]) \cup ({c} \ {Missing}),
           c <= content, minted' \in Nat, minted <= minted', r <= minted'
    PROVE  /\ revisions' \in [Revision -> Folder] /\ revisions'[r] = g
           /\ \A q \in Revision \ {r} : revisions'[q] = revisions[q]
           /\ \A q \in Revision : \A x \in States(revisions'[q]) : x <= content
           /\ \A q \in Revision : q > minted' => States(revisions'[q]) = {}
<1>. USE DEF IInv
<1>1. /\ revisions' \in [Revision -> Folder] /\ revisions'[r] = g
      /\ \A q \in Revision \ {r} : revisions'[q] = revisions[q]
  BY DEF TypeOK
<1>2. \A x \in States(revisions[r]) : x <= content
  BY DEF ShardOK, Past
<1>3. \A x \in States(g) : x <= content
  BY <1>2
<1>4. ASSUME NEW q \in Revision PROVE \A x \in States(revisions'[q]) : x <= content
  <2>1. CASE q = r
    BY <1>1, <1>3, <2>1
  <2>2. CASE q # r
    BY <1>1, <2>2 DEF ShardOK, Past
  <2>. QED
    BY <2>1, <2>2
<1>5. ASSUME NEW q \in Revision, q > minted' PROVE States(revisions'[q]) = {}
  <2>1. q \in Nat /\ r \in Nat /\ minted \in Nat
    BY Numbers
  <2>2. q # r /\ q > minted
    BY <1>5, <2>1
  <2>. QED
    BY <1>1, <2>2 DEF ShardOK, Minted
<1>. QED
  BY <1>1, <1>4, <1>5

\* The revision in use gets something of state c, which is not older than the
\* state noted; unless it can no longer be found current, c is what was hashed.
LEMMA RevisionWritten ==
    ASSUME IInv, NEW p \in Process, proc[p].pc \in Using, NEW g \in Folder, NEW c \in Maybe,
           revisions' = [revisions EXCEPT ![pointer.id] = g],
           States(g) \subseteq States(revisions[pointer.id]) \cup ({c} \ {Missing}),
           c <= content, kind # "url" => c >= pointer.info,
           UNCHANGED <<kind, content, stamp, pointer, minted>>,
           \/ pointer.info # content
           \/ kind = "archive" /\ pointer.hash # Missing => c = pointer.hash
    PROVE  /\ ShardOK' /\ revisions' \in [Revision -> Folder] /\ revisions'[pointer.id] = g
           /\ (kind = "archive" /\ pointer.hash # Missing => c = pointer.hash)
                 => Hashed(revisions[pointer.id], pointer)'
<1>. USE DEF IInv
<1>1. proc[p].rev = pointer /\ pointer.id \in Revision
  BY InUse
<1>2. minted' \in Nat /\ minted <= minted' /\ pointer.id <= minted'
  BY Numbers DEF ShardOK, Minted
<1>3. /\ revisions' \in [Revision -> Folder] /\ revisions'[pointer.id] = g
      /\ \A q \in Revision : \A x \in States(revisions'[q]) : x <= content
      /\ \A q \in Revision : q > minted' => States(revisions'[q]) = {}
  BY <1>1, <1>2, FolderWritten
<1>4. Past' /\ Minted'
  BY <1>3 DEF Past, Minted, ShardOK
<1>5. ASSUME kind # "url" PROVE Holds(revisions[pointer.id], pointer)'
  <2>1. Holds(revisions[pointer.id], pointer)
    BY <1>1, <1>5, Numbers DEF ShardOK, Current_
  <2>2. \A x \in States(g) : x >= pointer.info
    BY <1>5, <2>1 DEF Holds
  <2>. QED
    BY <1>3, <2>1, <2>2 DEF Holds
<1>6. ASSUME kind = "archive" /\ pointer.hash # Missing => c = pointer.hash
      PROVE  Hashed(revisions[pointer.id], pointer)'
  <2>1. Hashed(revisions[pointer.id], pointer)
    BY DEF CallOK, Consistent
  <2>. QED
    BY <1>3, <1>6, <2>1 DEF Hashed
<1>7. Current_'
  BY <1>5, <1>6 DEF Current_
<1>. QED
  BY <1>3, <1>4, <1>6, <1>7 DEF ShardOK

\* A new revision has what is unpacked, and nothing else.
LEMMA UnpackStep ==
    ASSUME IInv, NEW p \in Process, Unpack(p)
    PROVE  IInv'
<1>. USE DEF IInv
<1>1. PICK r \in Pointer :
          /\ Moves(p, "unpacked", r, proc[p].built)
          /\ r.id = minted + 1 /\ r.info = proc[p].rev.info
          /\ r.hash = IF kind = "url" \/ proc[p].want # Missing THEN content ELSE Missing
  BY UnpackMoves
<1>2. /\ UNCHANGED <<kind, content, stamp, pointer, lock>> /\ minted' = minted + 1
      /\ proc[p].pc = "stat" /\ lock = p
  BY DEF Unpack, At, CallOK, Locked, Inside
<1>3. minted + 1 \in Revision /\ minted' \in 0 .. MaxRevisions
  BY <1>2, SourceAssumption DEF TypeOK, Unpack, Revision
<1>. DEFINE f == revisions[minted + 1]
            g == [f EXCEPT !.src = content]
<1>4. f \in Folder
  BY <1>3 DEF TypeOK
<1>5. g \in Folder /\ g.src = content /\ g.metadata = f.metadata /\ g.wheels = f.wheels
  BY <1>4, Numbers DEF Folder
<1>6. revisions' = [revisions EXCEPT ![minted + 1] = g]
  BY DEF Unpack
<1>. HIDE DEF g
<1>7. States(g) \subseteq States(f) \cup ({content} \ {Missing})
  BY <1>4, <1>5, PutSource, Numbers
<1>8. States(f) = {}
  BY <1>3, Numbers DEF ShardOK, Minted
<1>9. /\ revisions' \in [Revision -> Folder] /\ revisions'[minted + 1] = g
      /\ \A q \in Revision \ {minted + 1} : revisions'[q] = revisions[q]
      /\ \A q \in Revision : \A x \in States(revisions'[q]) : x <= content
      /\ \A q \in Revision : q > minted' => States(revisions'[q]) = {}
  <2>1. content \in Maybe /\ content <= content /\ minted' \in Nat /\ minted <= minted'
        /\ minted + 1 <= minted'
    BY <1>2, Numbers
  <2>. QED
    BY <1>3, <1>5, <1>6, <1>7, <2>1, FolderWritten
<1>10. TypeOK'
  BY <1>1, <1>2, <1>3, <1>9 DEF TypeOK, Moves
<1>11. Past' /\ Minted'
  BY <1>2, <1>9, Numbers DEF Past, Minted, ShardOK
<1>12. Current_'
  <2>1. pointer.id # minted + 1
    BY Numbers DEF ShardOK, Minted
  <2>2. pointer.id # Missing => revisions'[pointer.id] = revisions[pointer.id]
    BY <1>9, <2>1, Numbers
  <2>. QED
    BY <1>2, <2>2 DEF ShardOK, Current_, Holds, Hashed
<1>13. proc[p].rev.info <= content
  BY DEF CallOK, Bounded
<1>14. Bounded(proc[p])' /\ Noted(proc[p])'
  BY <1>1, <1>2, Numbers DEF Moves, CallOK, Bounded, Noted
<1>15. States(g) \subseteq {content}
  BY <1>7, <1>8
<1>16. Unpacked(proc[p])'
  <2>1. \A c \in States(g) : c >= r.info
    BY <1>1, <1>13, <1>15, Numbers
  <2>2. kind = "archive" /\ r.hash # Missing => r.hash = content
    BY <1>1
  <2>3. kind = "archive" /\ r.hash # Missing => r.info <= r.hash /\ States(g) \subseteq {r.hash}
    BY <1>1, <1>13, <1>15, <2>2
  <2>4. r.id \in Revision /\ r.id <= minted'
    BY <1>1, <1>2, <1>3, Numbers
  <2>5. revisions'[r.id] = g /\ proc'[p].rev = r /\ kind' = kind
    BY <1>1, <1>2, <1>9 DEF Moves
  <2>. QED
    BY <2>1, <2>3, <2>4, <2>5 DEF Unpacked, Holds, Hashed
<1>17. CallOK(p)'
  BY <1>1, <1>2, <1>14, <1>16 DEF CallOK, Locked, Moves, Using, Consistent, Building, Returned
<1>. QED
  BY <1>1, <1>2, <1>10, <1>11, <1>12, <1>17, HolderStep DEF ShardOK, Moves

\* The pointer is to what was just unpacked.
LEMMA WritePointerStep ==
    ASSUME IInv, NEW p \in Process, WritePointer(p)
    PROVE  IInv'
<1>. USE DEF IInv
<1>1. Moves(p, "revised", proc[p].rev, proc[p].built)
  BY GoesTo DEF WritePointer, Place
<1>2. /\ UNCHANGED <<kind, content, stamp, revisions, minted, lock>> /\ pointer' = proc[p].rev
      /\ proc[p].pc = "unpacked" /\ lock = p
  BY DEF WritePointer, At, CallOK, Locked, Inside
<1>3. /\ proc[p].rev.id \in Revision /\ proc[p].rev.id <= minted
      /\ kind # "url" => Holds(revisions[proc[p].rev.id], proc[p].rev)
      /\ Hashed(revisions[proc[p].rev.id], proc[p].rev)
  BY <1>2 DEF CallOK, Unpacked
<1>4. TypeOK'
  BY <1>1, <1>2 DEF TypeOK, Moves, Call
<1>5. Past' /\ Minted'
  BY <1>2, <1>3 DEF ShardOK, Past, Minted, CallOK, Bounded
<1>6. Current_'
  BY <1>2, <1>3 DEF Current_, Holds, Hashed
<1>7. Bounded(proc[p])' /\ Noted(proc[p])'
  BY <1>1, <1>2 DEF Moves, CallOK, Bounded, Noted
<1>8. Consistent(proc[p])'
  BY <1>1, <1>2, <1>3, Numbers DEF Moves, Consistent, Hashed
<1>9. CallOK(p)'
  BY <1>1, <1>2, <1>7, <1>8 DEF CallOK, Locked, Moves, Unpacked, Building, Returned
<1>. QED
  BY <1>1, <1>2, <1>4, <1>5, <1>6, <1>9, HolderStep DEF ShardOK, Moves

\* A new revision of a tree has nothing.
LEMMA NewTreeStep ==
    ASSUME IInv, NEW p \in Process, NewTree(p)
    PROVE  IInv'
<1>. USE DEF IInv
<1>1. /\ UNCHANGED <<kind, content, stamp, revisions, lock>> /\ minted' = minted + 1 /\ kind = "tree"
      /\ proc[p].pc = "stat" /\ lock = p
  BY DEF NewTree, At, CallOK, Locked, Inside
<1>2. minted + 1 \in Revision /\ minted' \in 0 .. MaxRevisions
  BY <1>1, SourceAssumption DEF TypeOK, NewTree, Revision
<1>3. /\ pointer' \in Pointer /\ pointer'.id = minted + 1
      /\ pointer'.info = proc[p].rev.info /\ pointer'.hash = 0
  <2>1. proc[p].rev.info \in Maybe /\ 0 \in Maybe /\ Missing = 0
    BY SourceAssumption DEF TypeOK, Call, Pointer, Maybe, Missing
  <2>. QED
    BY <1>2, <2>1 DEF NewTree, Pointer
<1>4. Moves(p, "revised", pointer', proc[p].built)
  <2>1. proc' = [proc EXCEPT ![p].pc = "revised", ![p].rev = pointer']
    BY DEF NewTree
  <2>. QED
    BY <1>3, <2>1, GoesWith DEF Place
<1>5. TypeOK'
  BY <1>1, <1>2, <1>3, <1>4 DEF TypeOK, Moves
<1>6. Past'
  BY <1>1, <1>3, Numbers DEF ShardOK, Past, CallOK, Bounded
<1>7. Minted'
  <2>1. pointer'.id <= minted'
    BY <1>1, <1>3, Numbers
  <2>2. ASSUME NEW r \in Revision, r > minted' PROVE States(revisions[r]) = {}
    <3>1. r > minted
      BY <1>1, <2>2, Numbers
    <3>. QED
      BY <3>1 DEF ShardOK, Minted
  <2>. QED
    BY <1>1, <2>1, <2>2 DEF Minted
<1>8. States(revisions[minted + 1]) = {}
  BY <1>2, Numbers DEF ShardOK, Minted
<1>9. Current_'
  BY <1>1, <1>3, <1>8 DEF Current_, Holds, Hashed
<1>10. Bounded(proc[p])' /\ Noted(proc[p])'
  BY <1>1, <1>3, <1>4, Numbers DEF Moves, CallOK, Bounded, Noted
<1>11. Consistent(proc[p])'
  BY <1>1, <1>2, <1>3, <1>4, Numbers DEF Moves, Consistent, Hashed
<1>12. CallOK(p)'
  BY <1>1, <1>4, <1>10, <1>11 DEF CallOK, Locked, Moves, Unpacked, Building, Returned
<1>. QED
  BY <1>1, <1>4, <1>5, <1>6, <1>7, <1>9, <1>12, HolderStep DEF ShardOK, Moves

\* The source is unpacked again.  If it is not what was hashed, it has changed
\* since the pointer was written, and no call finds the pointer current again.
LEMMA HealStep ==
    ASSUME IInv, NEW p \in Process, Heal(p)
    PROVE  IInv'
<1>. USE DEF IInv
<1>. DEFINE ok == proc[p].rev.hash \in {Missing, content}
            f == revisions[pointer.id]
            g == [f EXCEPT !.src = content, !.healed = @ \/ (ok /\ kind = "url")]
<1>1. /\ UNCHANGED <<kind, content, stamp, pointer, minted>>
      /\ proc[p].pc = "revised" /\ proc[p].pc \in Using
  BY DEF Heal, At, Using
<1>2. lock = p /\ proc[p].rev = pointer /\ pointer.id \in Revision /\ f \in Folder
  BY <1>1, InUse
<1>3. g \in Folder
  BY <1>2, Numbers DEF Folder
<1>4. g.src = content /\ g.metadata = f.metadata /\ g.wheels = f.wheels
  BY <1>2 DEF Folder
<1>5. revisions' = [revisions EXCEPT ![pointer.id] = g]
  BY <1>2 DEF Heal
<1>. HIDE DEF g
<1>6. States(g) \subseteq States(f) \cup ({content} \ {Missing})
  BY <1>2, <1>3, <1>4, PutSource, Numbers
<1>7. /\ content \in Maybe /\ content <= content
      /\ kind # "url" => content >= pointer.info
  BY Numbers DEF ShardOK, Past
<1>8. \/ pointer.info # content
      \/ kind = "archive" /\ pointer.hash # Missing => content = pointer.hash
  <2>. SUFFICES ASSUME pointer.info = content, kind = "archive", pointer.hash # Missing
                PROVE  content = pointer.hash
    OBVIOUS
  <2>1. pointer.info <= pointer.hash
    BY <1>2, Numbers DEF ShardOK, Current_, Holds
  <2>2. pointer.hash <= content
    BY DEF ShardOK, Past
  <2>. QED
    BY <2>1, <2>2, Numbers
<1>9. /\ ShardOK' /\ revisions' \in [Revision -> Folder] /\ revisions'[pointer.id] = g
      /\ (kind = "archive" /\ pointer.hash # Missing => content = pointer.hash)
            => Hashed(revisions[pointer.id], pointer)'
  BY <1>1, <1>3, <1>5, <1>6, <1>7, <1>8, RevisionWritten
<1>10. CASE ok
  <2>1. Goto(p, "ready") /\ lock' = lock
    BY <1>10 DEF Heal
  <2>2. Moves(p, "ready", pointer, proc[p].built)
    BY <1>2, <2>1, GoesTo DEF Place
  <2>3. TypeOK'
    BY <1>1, <1>9, <2>1, <2>2 DEF TypeOK, Moves
  <2>4. Bounded(proc[p])' /\ Noted(proc[p])'
    BY <1>1, <1>2, <2>2 DEF Moves, CallOK, Bounded, Noted, Using
  <2>5. Hashed(revisions[pointer.id], pointer)'
    BY <1>2, <1>9, <1>10
  <2>6. Consistent(proc[p])'
    BY <1>1, <1>2, <2>2, <2>5, Numbers DEF Moves, Consistent
  <2>7. Building(proc[p])'
    BY <1>1, <1>2, <1>4, <1>9, <2>2, Numbers DEF Moves, Building, Heal, Satisfies
  <2>8. CallOK(p)'
    BY <1>2, <2>1, <2>2, <2>4, <2>6, <2>7 DEF CallOK, Locked, Moves, Unpacked, Returned
  <2>. QED
    BY <1>1, <1>2, <1>9, <2>2, <2>3, <2>8, HolderStep DEF Moves
<1>11. CASE ~ok
  <2>1. Exit(p)
    BY <1>11 DEF Heal
  <2>2. /\ proc' \in [Process -> Call] /\ \A q \in Process \ {p} : proc'[q] = proc[q]
        /\ lock' \in Process \cup {Nobody} /\ CallOK(p)'
    BY <1>1, <2>1, ExitStep
  <2>3. TypeOK'
    BY <1>1, <1>9, <2>2 DEF TypeOK
  <2>. QED
    BY <1>1, <1>2, <1>9, <2>2, <2>3, HolderStep
<1>. QED
  BY <1>10, <1>11

\* The wheel is of the state noted or of a later one, and of what was hashed.
LEMMA MoveWheelStep ==
    ASSUME IInv, NEW p \in Process, MoveWheel(p)
    PROVE  IInv'
<1>. USE DEF IInv
<1>. DEFINE f == revisions[pointer.id]
            c == proc[p].built
            g == [f EXCEPT !.wheels[proc[p].tag] = c]
<1>1. /\ UNCHANGED <<kind, content, stamp, pointer, minted, lock>>
      /\ proc[p].pc = "building" /\ proc[p].pc \in Using
  BY DEF MoveWheel, At, Using
<1>2. lock = p /\ proc[p].rev = pointer /\ pointer.id \in Revision /\ f \in Folder
  BY <1>1, InUse
<1>3. c \in Maybe /\ proc[p].tag \in Tag
  BY DEF TypeOK, Call
<1>4. g \in Folder /\ States(g) \subseteq States(f) \cup ({c} \ {Missing})
  BY ZenonT(60), <1>2, <1>3, PutWheel
<1>5. revisions' = [revisions EXCEPT ![pointer.id] = g]
  BY <1>2 DEF MoveWheel
<1>. HIDE DEF g
<1>6. /\ c <= content
      /\ kind # "url" => c >= pointer.info
      /\ kind = "archive" /\ pointer.hash # Missing => c = pointer.hash
  BY <1>1, <1>2 DEF CallOK, Bounded, Building
<1>7. /\ ShardOK' /\ revisions' \in [Revision -> Folder]
      /\ Hashed(revisions[pointer.id], pointer)'
  BY <1>1, <1>3, <1>4, <1>5, <1>6, RevisionWritten
<1>8. Moves(p, "moved", pointer, c)
  BY <1>2, GoesTo DEF MoveWheel, Place
<1>9. TypeOK'
  BY <1>1, <1>7, <1>8 DEF TypeOK, Moves
<1>10. Bounded(proc[p])' /\ Noted(proc[p])' /\ Building(proc[p])'
  BY <1>1, <1>2, <1>8 DEF Moves, CallOK, Bounded, Noted, Building, Using
<1>11. Consistent(proc[p])'
  BY <1>1, <1>2, <1>7, <1>8, Numbers DEF Moves, Consistent
<1>12. CallOK(p)'
  BY <1>1, <1>2, <1>8, <1>10, <1>11 DEF CallOK, Locked, Moves, Unpacked, Returned
<1>. QED
  BY <1>1, <1>2, <1>7, <1>8, <1>9, <1>12, HolderStep DEF Moves

\* So is the metadata, and the call returns.
LEMMA WriteMetadataStep ==
    ASSUME IInv, NEW p \in Process, WriteMetadata(p)
    PROVE  IInv'
<1>. USE DEF IInv
<1>. DEFINE f == revisions[pointer.id]
            c == proc[p].built
            g == [f EXCEPT !.metadata = c]
<1>1. /\ UNCHANGED <<kind, content, stamp, pointer, minted>>
      /\ proc[p].pc = "moved" /\ proc[p].pc \in Using
  BY DEF WriteMetadata, At, Using
<1>2. lock = p /\ proc[p].rev = pointer /\ pointer.id \in Revision /\ f \in Folder
  BY <1>1, InUse
<1>3. c \in Maybe
  BY DEF TypeOK, Call
<1>4. g \in Folder /\ States(g) \subseteq States(f) \cup ({c} \ {Missing})
  BY <1>2, <1>3, PutMetadata
<1>5. revisions' = [revisions EXCEPT ![pointer.id] = g]
  BY <1>2 DEF WriteMetadata
<1>. HIDE DEF g
<1>6. /\ c <= content
      /\ kind # "url" => c >= pointer.info
      /\ kind = "archive" /\ pointer.hash # Missing => c = pointer.hash
      /\ proc[p].want \in {Missing, pointer.hash}
  BY <1>1, <1>2 DEF CallOK, Bounded, Building
<1>7. kind # "url" => c >= proc[p].began
  <2>1. kind # "url" => pointer.info >= proc[p].began
    BY <1>1, <1>2 DEF CallOK, Noted
  <2>. QED
    BY <1>6, <2>1, Numbers
<1>8. ShardOK' /\ revisions' \in [Revision -> Folder]
  BY <1>1, <1>3, <1>4, <1>5, <1>6, RevisionWritten
<1>9. Moves(p, "returned", proc[p].rev, c)
  BY <1>3, GoesBuilt DEF WriteMetadata, Return, Place
<1>10. lock' \in Process \cup {Nobody}
  BY DEF TypeOK, WriteMetadata, Return
<1>11. TypeOK'
  BY <1>1, <1>8, <1>9, <1>10 DEF TypeOK, Moves
<1>12. Bounded(proc[p])' /\ Returned(proc[p])'
  BY <1>1, <1>6, <1>7, <1>9 DEF Moves, CallOK, Bounded, Returned
<1>13. CallOK(p)'
  BY <1>9, <1>12 DEF CallOK, Locked, Moves, Inside, Using, Consistent, Noted, Unpacked, Building
<1>. QED
  BY <1>1, <1>2, <1>8, <1>9, <1>11, <1>13, HolderStep DEF Moves

\* An edit leaves the shard with a pointer that is not current.
LEMMA EditStep ==
    ASSUME IInv, NEW seen \in BOOLEAN, Edit(seen)
    PROVE  IInv'
<1>. USE DEF IInv
<1>1. /\ UNCHANGED <<kind, pointer, revisions, minted, lock, proc>>
      /\ content' = content + 1 /\ content < MaxContent
      /\ stamp' \in {stamp, content + 1} /\ (kind # "tree" => stamp' = content + 1)
  BY DEF Edit
<1>2. TypeOK'
  BY <1>1, SourceAssumption DEF TypeOK, Content
<1>3. Past'
  <2>1. \A r \in Revision : \A c \in States(revisions[r]) : c <= content + 1
    <3>1. SUFFICES ASSUME NEW r \in Revision, NEW c \in States(revisions[r])
                   PROVE  c <= content + 1
      OBVIOUS
    <3>2. revisions[r] \in Folder
      BY DEF TypeOK
    <3>3. c \in Nat /\ c <= content
      BY <3>2, StatesNat DEF ShardOK, Past
    <3>. QED
      BY <3>3, Numbers
  <2>. QED
    BY <1>1, <2>1, Numbers DEF ShardOK, Past
<1>4. Minted'
  BY <1>1 DEF ShardOK, Minted
<1>5. Current_'
  <2>1. pointer.info # content'
    BY <1>1, Numbers DEF ShardOK, Past
  <2>. QED
    BY <1>1, <2>1 DEF ShardOK, Current_, Holds
<1>6. ASSUME NEW p \in Process PROVE CallOK(p)'
  <2>1. Bounded(proc[p])'
    BY <1>1, Numbers DEF CallOK, Bounded, ShardOK, Past
  <2>. QED
    BY <1>1, <2>1 DEF CallOK, Locked, Consistent, Noted, Unpacked, Building, Returned, Holds,
         Hashed
<1>. QED
  BY <1>2, <1>3, <1>4, <1>5, <1>6 DEF ShardOK

\* A prune leaves less in the folders.
LEMMA PruneStep ==
    ASSUME IInv, NEW ci \in BOOLEAN, Prune(ci)
    PROVE  IInv'
<1>. USE DEF IInv
<1>1. UNCHANGED <<kind, content, stamp, pointer, minted, lock, proc>>
  BY DEF Prune
<1>2. ASSUME NEW f \in Folder, NEW h \in BOOLEAN
      PROVE  /\ [f EXCEPT !.src = Missing, !.healed = h] \in Folder
             /\ States([f EXCEPT !.src = Missing, !.healed = h]) \subseteq States(f)
  <2>. DEFINE g == [f EXCEPT !.src = Missing, !.healed = h]
  <2>1. g.src = Missing /\ g.metadata = f.metadata /\ g.wheels = f.wheels
    BY DEF Folder
  <2>2. Missing \in Maybe
    BY SourceAssumption DEF Maybe, Missing
  <2>3. g \in Folder
    BY <2>2 DEF Folder
  <2>. HIDE DEF g
  <2>4. States(g) \subseteq States(f)
    BY <2>1, <2>2, <2>3, PutSource
  <2>. QED
    BY <2>3, <2>4 DEF g
<1>3. States(NoFolder) = {}
  BY DEF States, NoFolder
<1>4. ASSUME NEW r \in Revision
      PROVE  /\ Pruned[r] \in Folder /\ States(Pruned[r]) \subseteq States(revisions[r])
  <2>1. revisions[r] \in Folder /\ revisions[r].healed \in BOOLEAN
    BY DEF TypeOK, Folder
  <2>2. Pruned[r] \in {NoFolder, revisions[r], [revisions[r] EXCEPT !.src = Missing]}
    BY DEF Pruned
  <2>3. [revisions[r] EXCEPT !.src = Missing]
          = [revisions[r] EXCEPT !.src = Missing, !.healed = revisions[r].healed]
    BY <2>1 DEF Folder
  <2>4. CASE Pruned[r] = [revisions[r] EXCEPT !.src = Missing]
    BY <1>2, <2>1, <2>3, <2>4
  <2>5. CASE Pruned[r] \in {NoFolder, revisions[r]}
    BY <1>3, <2>1, <2>5, NothingTypes
  <2>. QED
    BY <2>2, <2>4, <2>5
<1>5. ASSUME NEW r \in Revision
      PROVE  revisions'[r] \in Folder /\ States(revisions'[r]) \subseteq States(revisions[r])
  <2>1. revisions'[r] \in {Pruned[r], [Pruned[r] EXCEPT !.src = Missing, !.healed = FALSE]}
    BY DEF Prune
  <2>2. CASE revisions'[r] = Pruned[r]
    BY <1>4, <2>2
  <2>3. CASE revisions'[r] = [Pruned[r] EXCEPT !.src = Missing, !.healed = FALSE]
    <3>1. Pruned[r] \in Folder /\ FALSE \in BOOLEAN
      BY <1>4
    <3>. QED
      BY <1>2, <1>4, <2>3, <3>1
  <2>. QED
    BY <2>1, <2>2, <2>3
<1>6. revisions' \in [Revision -> Folder]
  BY <1>5 DEF Prune
<1>7. TypeOK'
  BY <1>1, <1>6 DEF TypeOK
<1>8. Past' /\ Minted'
  BY <1>1, <1>5 DEF ShardOK, Past, Minted
<1>9. Current_'
  <2>1. pointer.id # Missing => States(revisions'[pointer.id]) \subseteq States(revisions[pointer.id])
    BY <1>5, Numbers
  <2>. QED
    BY <1>1, <2>1 DEF ShardOK, Current_, Holds, Hashed
<1>10. ASSUME NEW p \in Process PROVE CallOK(p)'
  <2>1. proc'[p] = proc[p] /\ proc[p].pc = "idle"
    BY <1>1 DEF Prune, At
  <2>. QED
    BY <1>1, <2>1 DEF CallOK, Locked, Inside, Using, Bounded, Consistent, Noted, Unpacked, Building,
         Returned
<1>. QED
  BY <1>7, <1>8, <1>9, <1>10 DEF ShardOK
-----------------------------------------------------------------------------
(* The theorems.                                                           *)

\* An empty shard is in order.
LEMMA InitInv == Init => IInv
<1>. SUFFICES ASSUME Init PROVE IInv
  OBVIOUS
<1>1. States(NoFolder) = {}
  BY DEF States, NoFolder
<1>2. /\ pointer = NoPointer /\ content = 1 /\ stamp = 1 /\ minted = 0 /\ lock = Nobody
      /\ \A r \in Revision : revisions[r] = NoFolder
      /\ \A p \in Process : proc[p] = NoCall
  BY DEF Init
<1>3. TypeOK
  <2>1. kind \in {"url", "archive", "tree"} /\ {content, stamp} \subseteq Content /\ minted \in 0 .. MaxRevisions
    BY SourceAssumption DEF Init, Content
  <2>2. revisions \in [Revision -> Folder] /\ proc \in [Process -> Call] /\ pointer \in Pointer
    BY NothingTypes DEF Init
  <2>. QED
    BY <1>2, <2>1, <2>2 DEF TypeOK
<1>4. NoPointer.info = 0 /\ NoPointer.hash = 0 /\ NoPointer.id = 0
  BY DEF NoPointer, Missing
<1>5. ShardOK
  BY <1>1, <1>2, <1>4 DEF ShardOK, Past, Minted, Current_, Missing
<1>6. ASSUME NEW p \in Process PROVE CallOK(p)
  <2>1. Bounded(proc[p])
    BY <1>2, NothingTypes DEF Bounded
  <2>. QED
    BY <1>2, <2>1, NothingTypes DEF CallOK, Locked, Inside, Using, Consistent, Noted, Unpacked,
         Building, Returned
<1>. QED
  BY <1>3, <1>5, <1>6 DEF IInv

\* Every step keeps it so.
LEMMA NextInv == IInv /\ [Next]_vars => IInv'
<1>. SUFFICES ASSUME IInv, [Next]_vars PROVE IInv'
  OBVIOUS
<1>1. CASE Edit(TRUE) \/ Edit(FALSE)
  BY <1>1, EditStep
<1>2. CASE Prune(FALSE) \/ Prune(TRUE)
  BY <1>2, PruneStep
<1>3. ASSUME NEW p \in Process, Step(p) PROVE IInv'
  BY <1>3, BeginStep, LockStep, StaticTreeStep, StatStep, UsePointerStep, UnpackStep,
     WritePointerStep, NewTreeStep, FindStep, SourcePresentStep, HealStep, BuildStep,
     MoveWheelStep, PrepareMetadataStep, WriteMetadataStep, EndStep DEF Step
<1>4. CASE UNCHANGED vars
  <2>. USE <1>4 DEF vars
  <2>1. TypeOK'
    BY DEF IInv, TypeOK
  <2>2. ShardOK'
    BY DEF IInv, ShardOK, Past, Minted, Current_, Holds, Hashed
  <2>3. ASSUME NEW p \in Process PROVE CallOK(p)'
    BY DEF IInv, CallOK, Locked, Bounded, Consistent, Noted, Unpacked, Building, Returned,
         Holds, Hashed
  <2>. QED
    BY <2>1, <2>2, <2>3 DEF IInv
<1>. QED
  BY <1>1, <1>2, <1>3, <1>4 DEF Next

\* The inductive invariant: a shard's pointer notes a state of the source that
\* nothing in its revision is older than, calls at work hold the lock, and a
\* revision that differs from its hash is one that no call finds current.
THEOREM SourceInductive == Spec => []IInv
BY InitInv, NextInv, PTL DEF Spec

\* Every state has the types of TypeOK.
THEOREM SourceTypeCorrect == Spec => []TypeOK
<1>1. IInv => TypeOK
  BY DEF IInv
<1>. QED
  BY <1>1, SourceInductive, PTL

\* What `build_wheel` or `download_and_build_metadata` returns of a local source
\* is not older than the last change to it, before the call began, that its cache
\* info shows, whatever the edits, prunes and deaths of processes before and
\* meanwhile.
THEOREM NeverServesOlder == Spec => []ReturnsFresh
<1>1. IInv => ReturnsFresh
  BY DEF IInv, CallOK, Returned, ReturnsFresh, At
<1>. QED
  BY <1>1, SourceInductive, PTL

\* While the pointer is current, everything in its revision, for every
\* interpreter, is of the state of the source that is stamped, or of a later one
\* that the stamp does not show: for an archive, of one state.
THEOREM CurrentRevisionIsAsStamped == Spec => []RevisionUniform
<1>1. IInv => RevisionUniform
  <2>. SUFFICES ASSUME IInv, kind # "url", pointer.id # Missing, pointer.info = stamp
                PROVE  LET f == revisions[pointer.id]
                       IN  {f.src, f.metadata} \cup {f.wheels[t] : t \in Tag}
                             \subseteq {Missing} \cup stamp .. content
    BY DEF RevisionUniform
  <2>1. pointer.id \in Revision
    BY Numbers DEF IInv
  <2>2. revisions[pointer.id] \in Folder
    BY <2>1 DEF IInv, TypeOK
  <2>3. ASSUME NEW c \in States(revisions[pointer.id]) PROVE c \in stamp .. content
    <3>1. c >= stamp /\ c <= content /\ c \in Nat
      BY <2>1, <2>2, <2>3, StatesNat DEF IInv, ShardOK, Past, Current_, Holds
    <3>. QED
      BY <3>1, Numbers DEF IInv
  <2>. QED
    BY <2>3 DEF States
<1>. QED
  BY <1>1, SourceInductive, PTL

\* No wheel of an archive on disk is built or returned from an archive that has
\* not the hash that was asked for.
THEOREM HashOfArchiveKept == Spec => []HashGuaranteedOnDisk
<1>1. IInv => HashGuaranteedOnDisk
  <2>. SUFFICES ASSUME IInv, kind = "archive", NEW p \in Process, proc[p].want # Missing,
                       proc[p].pc \in {"building", "moved", "returned"}
                PROVE  proc[p].built = proc[p].want
    BY DEF HashGuaranteedOnDisk, HashGuaranteed
  <2>1. CASE proc[p].pc \in {"building", "moved"}
    BY <2>1 DEF IInv, CallOK, Building
  <2>2. CASE proc[p].pc = "returned"
    BY <2>2 DEF IInv, CallOK, Returned
  <2>. QED
    BY <2>1, <2>2
<1>. QED
  BY <1>1, SourceInductive, PTL
=============================================================================
