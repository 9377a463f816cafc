-------------------------------- MODULE Memo --------------------------------
(***************************************************************************)
(* What the rest of uv relies on when it uses a `OnceMap`: a table of jobs *)
(* keyed by name, each started by one task, whose result every other task  *)
(* that asks for the key receives in one indivisible step once it exists.  *)
(* `OnceMap` is shown to implement this specification.                     *)
(***************************************************************************)
CONSTANTS
    Task,     \* the tasks and threads that share the table
    Key,      \* the names of the jobs
    Value,    \* the results of the jobs
    NoKey,    \* "this task is not using the table"
    NoValue   \* "this task has received nothing yet"

VARIABLES
    slot,     \* the state of each job, and its result
    phase,    \* what each task is doing with the table
    target,   \* the key the task is doing it to
    got       \* the last result each task received

memoVars == <<slot, phase, target, got>>

Vacant   == [tag |-> "Absent"]
Pending  == [tag |-> "Waiting"]
Ready(v) == [tag |-> "Filled", value |-> v]

Idle(t) == phase[t] = "idle"

Become(t, p, k) ==
    /\ phase'  = [phase EXCEPT ![t] = p]
    /\ target' = [target EXCEPT ![t] = k]

Init ==
    /\ slot \in [Key -> {Vacant} \cup {Ready(v) : v \in Value}]
    /\ phase = [t \in Task |-> "idle"]
    /\ target = [t \in Task |-> NoKey]
    /\ got = [t \in Task |-> NoValue]

\* A task finds the job not started, and has to run it.
Claim(t, k) ==
    /\ Idle(t) /\ slot[k] = Vacant
    /\ slot' = [slot EXCEPT ![k] = Pending]
    /\ Become(t, "running", k)
    /\ UNCHANGED got

\* A task finds the job running, and waits for its result.
Join(t, k) ==
    /\ Idle(t) /\ slot[k] = Pending
    /\ Become(t, "waiting", k)
    /\ UNCHANGED <<slot, got>>

\* A task that is not waiting finds the result.
Hit(t, k) ==
    /\ Idle(t) /\ slot[k].tag = "Filled"
    /\ got' = [got EXCEPT ![t] = slot[k].value]
    /\ UNCHANGED <<slot, phase, target>>

\* The task that ran the job stores its result.
Publish(t, v) ==
    /\ phase[t] = "running"
    /\ slot' = [slot EXCEPT ![target[t]] = Ready(v)]
    /\ Become(t, "idle", NoKey)
    /\ UNCHANGED got

\* A task that did not claim the key stores a result for it all the same.
Put(t, k, v) ==
    /\ Idle(t)
    /\ slot' = [slot EXCEPT ![k] = Ready(v)]
    /\ UNCHANGED <<phase, target, got>>

\* A waiting task receives the result, which is there.
Deliver(t) ==
    /\ phase[t] = "waiting" /\ slot[target[t]].tag = "Filled"
    /\ got' = [got EXCEPT ![t] = slot[target[t]].value]
    /\ Become(t, "idle", NoKey)
    /\ UNCHANGED slot

\* A waiting task is cancelled.
Leave(t) ==
    /\ phase[t] = "waiting"
    /\ Become(t, "idle", NoKey)
    /\ UNCHANGED <<slot, got>>

\* A result nobody is using is forgotten.
Evict(k) ==
    /\ slot[k].tag = "Filled"
    /\ \A t \in Task : target[t] # k
    /\ slot' = [slot EXCEPT ![k] = Vacant]
    /\ UNCHANGED <<phase, target, got>>

Next ==
    \/ \E t \in Task, k \in Key : Claim(t, k) \/ Join(t, k) \/ Hit(t, k)
    \/ \E t \in Task, v \in Value : Publish(t, v)
    \/ \E t \in Task, k \in Key, v \in Value : Put(t, k, v)
    \/ \E t \in Task : Deliver(t) \/ Leave(t)
    \/ \E k \in Key : Evict(k)

Spec == Init /\ [][Next]_memoVars
=============================================================================
