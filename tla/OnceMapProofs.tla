--------------------------- MODULE OnceMapProofs ---------------------------
(***************************************************************************)
(* The safety of `OnceMap` for any number of tasks, keys and values.       *)
(*                                                                         *)
(* The invariants the runs check are not inductive: that two tasks never   *)
(* run the same job rests on entries in use not being absent, and that a   *)
(* woken waiter finds a value rests on a notifier having stored one.       *)
(***************************************************************************)
EXTENDS OnceMap, TLAPS

\* A task has a key exactly while it is in a call or a job.
KeyInUse == \A t \in Task : pc[t] = "idle" <=> key[t] = NoKey

\* The entry of a task that is in a call or a job exists.
EntryPresent == \A t \in Task : pc[t] # "idle" => items[key[t]] # Absent

\* A task about to notify has stored a value.
NotifierStored ==
    \A t \in Task : pc[t] = "notifying" => items[key[t]].tag = "Filled"

\* A notified waiter has a value to read.
NotifiedHasValue ==
    \A t \in notified :
        pc[t] \in {"subscribed", "sleeping"} /\ items[key[t]].tag = "Filled"

\* A job in progress is in the hands of the task that was told to run it.
WaitingHasRunner ==
    \A k \in Key : items[k] = Waiting => \E t \in Task : pc[t] = "running" /\ key[t] = k

IInv ==
    /\ TypeOK /\ KeyInUse /\ EntryPresent /\ NotifierStored /\ NotifiedHasValue
    /\ WaitingHasRunner /\ RunOnce /\ NoLostWakeup /\ NoPanic

\* What the tags of entries say.
LEMMA EntryTags ==
    /\ Absent \in Entry /\ Waiting \in Entry
    /\ \A v \in Value : Filled(v) \in Entry /\ Filled(v).tag = "Filled"
                        /\ Filled(v).value = v /\ Filled(v) # Waiting /\ Filled(v) # Absent
    /\ Absent # Waiting /\ Absent.tag # "Filled" /\ Waiting.tag # "Filled"
    /\ \A e \in Entry : e.tag = "Filled" => e.value \in Value
    /\ \A e \in Entry : e = Absent \/ e = Waiting \/ e.tag = "Filled"
  <1>1. \A v \in Value : Filled(v).tag = "Filled"
    BY DEF Filled
  <1>2. Absent.tag = "Absent" /\ Waiting.tag = "Waiting"
    BY DEF Absent, Waiting
  <1>3. \A v \in Value : Filled(v).value = v
    BY DEF Filled
  <1> QED BY <1>1, <1>2, <1>3 DEF Entry

\* Every step preserves the inductive invariant.
THEOREM InductiveStep == IInv /\ [Next]_vars => IInv'
  <1> SUFFICES ASSUME IInv, [Next]_vars PROVE IInv'
    OBVIOUS
  <1> USE EntryTags, OnceMapAssumption
  <1> USE DEF IInv, TypeOK, KeyInUse, EntryPresent, NotifierStored, NotifiedHasValue,
              WaitingHasRunner, RunOnce, NoLostWakeup, NoPanic, Asleep, Goto, Location
  <1>1. ASSUME NEW t \in Task, NEW k \in Key, Register(t, k) PROVE IInv'
    BY <1>1 DEF Register
  <1>2. ASSUME NEW t \in Task, NEW k \in Key, Lookup(t, k) PROVE IInv'
    BY <1>2 DEF Lookup
  <1>3. ASSUME NEW t \in Task, NEW k \in Key, CloneNotify(t, k) PROVE IInv'
    BY <1>3 DEF CloneNotify
  <1>4. ASSUME NEW t \in Task, NEW k \in Key, NEW v \in Value, DoneUnregistered(t, k, v)
        PROVE IInv'
    BY <1>4 DEF DoneUnregistered
  <1>5. ASSUME NEW t \in Task, Subscribe(t) PROVE IInv'
    BY <1>5 DEF Subscribe
  <1>6. ASSUME NEW t \in Task, Recheck(t) PROVE IInv'
    BY <1>6 DEF Recheck
  <1>7. ASSUME NEW t \in Task, Wake(t) PROVE IInv'
    BY <1>7 DEF Wake
  <1>8. ASSUME NEW t \in Task, NotifyWaiters(t) PROVE IInv'
    BY <1>8 DEF NotifyWaiters
  <1>9. ASSUME NEW t \in Task, NEW v \in Value, Done(t, v) PROVE IInv'
    BY <1>9 DEF Done
  <1>10. ASSUME NEW t \in Task, Cancel(t) PROVE IInv'
    BY <1>10 DEF Cancel
  <1>11. ASSUME NEW k \in Key, Remove(k) PROVE IInv'
    BY <1>11 DEF Remove
  <1>12. CASE UNCHANGED vars
    BY <1>12 DEF vars
  <1> QED
    BY <1>1, <1>2, <1>3, <1>4, <1>5, <1>6, <1>7, <1>8, <1>9, <1>10, <1>11, <1>12
       DEF Next, Step

\* The initial states satisfy the inductive invariant.
LEMMA InitInductive == Init => IInv
  BY EntryTags, OnceMapAssumption
     DEF Init, IInv, TypeOK, KeyInUse, EntryPresent, NotifierStored, NotifiedHasValue,
         WaitingHasRunner, RunOnce, NoLostWakeup, NoPanic, Asleep, Location

\* The inductive invariant holds in every state `OnceMap` can reach.
THEOREM Inductive == Spec => []IInv
  BY InitInductive, InductiveStep, PTL DEF Spec

\* Entries, program counters and results keep their types: in particular the
\* cell of an entry that is `Filled` is never found empty by a reader.
THEOREM TypeCorrect == Spec => []TypeOK
  <1>1. IInv => TypeOK BY DEF IInv
  <1> QED BY Inductive, <1>1, PTL

\* However many tasks call `register` and `register_or_wait`, no job is handed
\* to two of them.
THEOREM JobsRunOnce == Spec => []RunOnce
  <1>1. IInv => RunOnce BY DEF IInv
  <1> QED BY Inductive, <1>1, PTL

\* The check, `notified()`, second check protocol of `register_or_wait` loses
\* no wake-up against `done`, for any number of waiters.
THEOREM WakeupsArrive == Spec => []NoLostWakeup
  <1>1. IInv => NoLostWakeup BY DEF IInv
  <1> QED BY Inductive, <1>1, PTL

\* Neither the `expect`s nor the `unreachable!` of `register_or_wait` is reached.
THEOREM PanicFree == Spec => []NoPanic
  <1>1. IInv => NoPanic BY DEF IInv
  <1> QED BY Inductive, <1>1, PTL
-----------------------------------------------------------------------------
\* Every step of the map is a step of the table of jobs, or leaves it alone.
LEMMA StepSimulation == IInv /\ IInv' /\ [Next]_vars => [M!Next]_M!memoVars
  <1> SUFFICES ASSUME IInv, IInv', [Next]_vars PROVE [M!Next]_M!memoVars
    OBVIOUS
  <1> USE EntryTags, OnceMapAssumption
  <1> USE DEF IInv, TypeOK, KeyInUse, Goto, PhaseOf, Location, M!memoVars
  <1>1. ASSUME NEW t \in Task, NEW k \in Key, Register(t, k) PROVE M!Claim(t, k)
    BY ZenonT(60), <1>1 DEF Register, M!Claim, M!Idle, M!Become, M!Vacant, M!Pending, Absent, Waiting
  <1>2. ASSUME NEW t \in Task, NEW k \in Key, Lookup(t, k) PROVE M!Hit(t, k)
    BY <1>2 DEF Lookup, M!Hit, M!Idle
  <1>3. ASSUME NEW t \in Task, NEW k \in Key, CloneNotify(t, k) PROVE M!Join(t, k)
    BY ZenonT(60), <1>3 DEF CloneNotify, M!Join, M!Idle, M!Become, M!Pending, Waiting
  <1>4. ASSUME NEW t \in Task, NEW k \in Key, NEW v \in Value, DoneUnregistered(t, k, v)
        PROVE M!Put(t, k, v)
    BY <1>4 DEF DoneUnregistered, M!Put, M!Idle, M!Ready, Filled
  <1>5. ASSUME NEW t \in Task, Subscribe(t) PROVE UNCHANGED M!memoVars
    BY <1>5 DEF Subscribe
  <1>6. ASSUME NEW t \in Task, Recheck(t) PROVE M!Deliver(t) \/ UNCHANGED M!memoVars
    <2>1. CASE items[key[t]].tag = "Filled"
      <3>1. PhaseOf(t) = "waiting" /\ key[t] \in Key
        BY <1>6 DEF Recheck
      <3>2. got' = [got EXCEPT ![t] = items[key[t]].value] /\ UNCHANGED items
        BY <1>6, <2>1 DEF Recheck
      <3>3. pc' = [pc EXCEPT ![t] = "idle"] /\ key' = [key EXCEPT ![t] = NoKey]
        BY <1>6, <2>1 DEF Recheck
      <3>4. M!Become(t, "idle", NoKey)
        BY ZenonT(60), <3>3 DEF M!Become
      <3> QED BY <2>1, <3>1, <3>2, <3>4 DEF M!Deliver
    <2>2. CASE items[key[t]].tag # "Filled"
      <3>1. items[key[t]] = Waiting
        BY <1>6, <2>2 DEF Recheck, EntryPresent
      <3> QED BY <1>6, <2>2, <3>1 DEF Recheck
    <2> QED BY <2>1, <2>2
  <1>7. ASSUME NEW t \in Task, Wake(t) PROVE M!Deliver(t)
    <2>1. items[key[t]].tag = "Filled" /\ PhaseOf(t) = "waiting" /\ key[t] \in Key
      BY <1>7 DEF Wake, NotifiedHasValue
    <2>2. got' = [got EXCEPT ![t] = items[key[t]].value] /\ UNCHANGED items
      BY <1>7, <2>1 DEF Wake
    <2>3. pc' = [pc EXCEPT ![t] = "idle"] /\ key' = [key EXCEPT ![t] = NoKey]
      BY <1>7, <2>1 DEF Wake
    <2>4. M!Become(t, "idle", NoKey)
      BY ZenonT(60), <2>3 DEF M!Become
    <2> QED BY <2>1, <2>2, <2>4 DEF M!Deliver
  <1>8. ASSUME NEW t \in Task, NotifyWaiters(t) PROVE UNCHANGED M!memoVars
    BY <1>8 DEF NotifyWaiters
  <1>9. ASSUME NEW t \in Task, NEW v \in Value, Done(t, v) PROVE M!Publish(t, v)
    <2>1. PhaseOf(t) = "running" /\ key[t] \in Key
      BY <1>9 DEF Done
    <2>2. items' = [items EXCEPT ![key[t]] = M!Ready(v)] /\ UNCHANGED got
      BY <1>9 DEF Done, M!Ready, Filled
    <2>3. CASE items[key[t]] = Waiting
      <3>1. pc' = [pc EXCEPT ![t] = "notifying"] /\ key' = [key EXCEPT ![t] = key[t]]
        BY <1>9, <2>3 DEF Done
      <3>2. M!Become(t, "idle", NoKey)
        BY ZenonT(60), <3>1 DEF M!Become
      <3> QED BY <2>1, <2>2, <3>2 DEF M!Publish
    <2>4. CASE items[key[t]] # Waiting
      <3>1. pc' = [pc EXCEPT ![t] = "idle"] /\ key' = [key EXCEPT ![t] = NoKey]
        BY <1>9, <2>4 DEF Done
      <3>2. M!Become(t, "idle", NoKey)
        BY ZenonT(60), <3>1 DEF M!Become
      <3> QED BY <2>1, <2>2, <3>2 DEF M!Publish
    <2> QED BY <2>3, <2>4
  <1>10. ASSUME NEW t \in Task, Cancel(t) PROVE M!Leave(t)
    BY ZenonT(60), <1>10 DEF Cancel, M!Leave, M!Become
  <1>11. ASSUME NEW k \in Key, Remove(k) PROVE M!Evict(k)
    BY <1>11 DEF Remove, WaitingHasRunner, M!Evict, M!Vacant, Absent
  <1>12. CASE UNCHANGED vars
    BY <1>12 DEF vars
  <1> QED
    BY <1>1, <1>2, <1>3, <1>4, <1>5, <1>6, <1>7, <1>8, <1>9, <1>10, <1>11, <1>12
       DEF Next, Step, M!Next

\* `OnceMap` implements the abstract table of jobs: its callers may treat
\* waiting for a job as one indivisible step that returns the job's value.
THEOREM Refinement == Spec => ImplementsMemo
  <1>1. Init => M!Init
    BY OnceMapAssumption DEF Init, M!Init, PhaseOf, M!Vacant, M!Ready, Absent, Filled
  <1> QED BY <1>1, Inductive, StepSimulation, PTL DEF Spec, ImplementsMemo, M!Spec
=============================================================================
