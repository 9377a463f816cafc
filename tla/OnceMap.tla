------------------------------ MODULE OnceMap ------------------------------
(***************************************************************************)
(* `OnceMap` (crates/uv-once-map): a concurrent map of jobs, in which a    *)
(* job is either `Waiting`, with a `Notify` its waiters sleep on, or       *)
(* `Filled`.  The map's operations and `Notify` calls are atomic; what     *)
(* lies between two of them in a function is interleaved.                  *)
(*                                                                         *)
(* `Notify` is tokio's: a `Notified` future is woken by every call of      *)
(* `notify_waiters` after its creation, polled or not.  An entry's         *)
(* `Notify` is identified with its key: the entry is replaced only by      *)
(* `remove`, which its callers call when no other operation on the map is  *)
(* running (`WorkspaceCache::invalidate_workspace`, `uv add`).             *)
(***************************************************************************)
CONSTANTS
    Task,     \* the tasks and threads that share the map
    Key,      \* the keys they use
    Value,    \* the results of jobs
    NoKey,    \* the key of a task that is not in a call
    NoValue   \* the result of a task that has received none

ASSUME OnceMapAssumption == NoKey \notin Key /\ NoValue \notin Value

VARIABLES
    items,     \* the map
    pc,        \* where each task is in `register_or_wait`, its job or `done`
    key,       \* the key it is there for
    notified,  \* tasks whose `Notified` future exists and has been woken
    got        \* the last value each task received

vars == <<items, pc, key, notified, got>>

Absent    == [tag |-> "Absent"]
Waiting   == [tag |-> "Waiting"]
Filled(v) == [tag |-> "Filled", value |-> v]
Entry     == {Absent, Waiting} \cup {Filled(v) : v \in Value}

Location ==
    { "idle",        \* outside the map
      "running",     \* was told to run the job, and has not called `done`
      "cloned",      \* holds the entry's `Notify`, `notified()` not called
      "subscribed",  \* holds a `Notified` future, second look not taken
      "sleeping",    \* awaits the `Notified` future
      "notifying",   \* replaced a `Waiting` entry, `notify_waiters` not called
      "panicked" }   \* failed an `expect` or reached an `unreachable!`

Goto(t, l, k) ==
    /\ pc'  = [pc EXCEPT ![t] = l]
    /\ key' = [key EXCEPT ![t] = k]

\* Mutant: a second task may claim a job that is running.
RegisterUnlessFilled(t, k) ==
    /\ pc[t] = "idle" /\ items[k].tag # "Filled"
    /\ items' = [items EXCEPT ![k] = Waiting]
    /\ Goto(t, "running", k)
    /\ UNCHANGED <<notified, got>>

\* `default` and `from_iter`: a map starts empty, or with some results.
Init ==
    /\ items \in [Key -> {Absent} \cup {Filled(v) : v \in Value}]
    /\ pc = [t \in Task |-> "idle"]
    /\ key = [t \in Task |-> NoKey]
    /\ notified = {}
    /\ got = [t \in Task |-> NoValue]
-----------------------------------------------------------------------------
\* `register` that returns true, and `register_or_wait` that returns `None`.
\* A `register` that returns false changes nothing.  A `wait` or `wait_blocking`
\* for an absent key also registers it, gives `UnregisteredTask` and leaves no one
\* to call `done`: an internal error of the caller, which ends the resolution.
\* ResolverFetch has that step, and shows that its callers never take it; tasks
\* here call `wait` for keys that are registered.
Register(t, k) ==
    /\ pc[t] = "idle" /\ items[k] = Absent
    /\ items' = [items EXCEPT ![k] = Waiting]
    /\ Goto(t, "running", k)
    /\ UNCHANGED <<notified, got>>

\* `register_or_wait`, `wait` and `get` on an entry with a value.
Lookup(t, k) ==
    /\ pc[t] = "idle" /\ items[k].tag = "Filled"
    /\ got' = [got EXCEPT ![t] = items[k].value]
    /\ UNCHANGED <<items, pc, key, notified>>

\* `register_or_wait` and `wait` on a running job: `notify.clone()`.
CloneNotify(t, k) ==
    /\ pc[t] = "idle" /\ items[k] = Waiting
    /\ Goto(t, "cloned", k)
    /\ UNCHANGED <<items, notified, got>>

\* `let notification = notify.notified()`
Subscribe(t) ==
    /\ pc[t] = "cloned"
    /\ Goto(t, "subscribed", key[t])
    /\ UNCHANGED <<items, notified, got>>

\* Mutant: no second look.
RecheckSkipped(t) ==
    /\ pc[t] = "subscribed"
    /\ Goto(t, "sleeping", key[t])
    /\ UNCHANGED <<items, notified, got>>

\* The second look at the map, after the waiter has been registered.  An
\* absent entry fails `expect("map is append-only")`.
Recheck(t) ==
    LET entry == items[key[t]]
        found == entry.tag = "Filled" IN
    /\ pc[t] = "subscribed"
    /\ Goto(t, IF found THEN "idle" ELSE IF entry = Waiting THEN "sleeping" ELSE "panicked",
               IF found THEN NoKey ELSE key[t])
    /\ notified' = IF found THEN notified \ {t} ELSE notified
    /\ got' = IF found THEN [got EXCEPT ![t] = entry.value] ELSE got
    /\ UNCHANGED items

\* `notification.await` returns, and the map is read for the last time: an
\* absent entry fails the `expect`, a waiting one is `unreachable!`.
Wake(t) ==
    LET entry == items[key[t]]
        found == entry.tag = "Filled" IN
    /\ pc[t] = "sleeping" /\ t \in notified
    /\ Goto(t, IF found THEN "idle" ELSE "panicked", IF found THEN NoKey ELSE key[t])
    /\ notified' = notified \ {t}
    /\ got' = IF found THEN [got EXCEPT ![t] = entry.value] ELSE got
    /\ UNCHANGED items

\* The future of a waiter is dropped at its only await point.
Cancel(t) ==
    /\ pc[t] = "sleeping"
    /\ notified' = notified \ {t}
    /\ Goto(t, "idle", NoKey)
    /\ UNCHANGED <<items, got>>

\* Mutant: nobody is notified.
DoneSilently(t, v) ==
    /\ pc[t] = "running"
    /\ items' = [items EXCEPT ![key[t]] = Filled(v)]
    /\ Goto(t, "idle", NoKey)
    /\ UNCHANGED <<notified, got>>

\* `done`, up to `insert`: by the task that ran the job ...
\* The replaced entry decides whether there is anyone to notify.
Done(t, v) ==
    /\ pc[t] = "running"
    /\ items' = [items EXCEPT ![key[t]] = Filled(v)]
    /\ IF items[key[t]] = Waiting
         THEN Goto(t, "notifying", key[t])
         ELSE Goto(t, "idle", NoKey)
    /\ UNCHANGED <<notified, got>>

\* ... or by a task that never registered the key, as when a lock file's
\* metadata or the members of a workspace are put in the map.
DoneUnregistered(t, k, v) ==
    /\ pc[t] = "idle"
    /\ items' = [items EXCEPT ![k] = Filled(v)]
    /\ IF items[k] = Waiting
         THEN Goto(t, "notifying", k)
         ELSE UNCHANGED <<pc, key>>
    /\ UNCHANGED <<notified, got>>

\* Mutant: one `Notify` for the whole map.
NotifyEveryone(t) ==
    /\ pc[t] = "notifying"
    /\ notified' = notified \cup {u \in Task : pc[u] \in {"subscribed", "sleeping"}}
    /\ Goto(t, "idle", NoKey)
    /\ UNCHANGED <<items, got>>

\* `notify.notify_waiters()`
NotifyWaiters(t) ==
    /\ pc[t] = "notifying"
    /\ notified' = notified \cup
         {u \in Task : pc[u] \in {"subscribed", "sleeping"} /\ key[u] = key[t]}
    /\ Goto(t, "idle", NoKey)
    /\ UNCHANGED <<items, got>>

\* Mutant: the value is taken, and its empty cell stays in the map.
RemoveTakesOnly(k) ==
    /\ items[k].tag = "Filled"
    /\ \A t \in Task : key[t] # k
    /\ items' = [items EXCEPT ![k] = Filled(NoValue)]
    /\ UNCHANGED <<pc, key, notified, got>>

\* Mutant: an entry is removed while its job runs.
RemoveRunning(k) ==
    /\ items[k] # Absent
    /\ items' = [items EXCEPT ![k] = Absent]
    /\ UNCHANGED <<pc, key, notified, got>>

\* `remove`, whatever the entry.  The guard on the tasks is not in `remove`: it is
\* the contract of its two callers, `invalidate_workspace` ("there are no parallel
\* workspace operations") and `uv add`, which calls it between two resolutions.
Remove(k) ==
    /\ items[k] # Absent
    /\ \A t \in Task : key[t] # k
    /\ items' = [items EXCEPT ![k] = Absent]
    /\ UNCHANGED <<pc, key, notified, got>>

\* The steps a task takes on its own once it is in a call or a job.
Step(t) ==
    \/ Subscribe(t) \/ Recheck(t) \/ Wake(t) \/ NotifyWaiters(t)
    \/ \E v \in Value : Done(t, v)

Next ==
    \/ \E t \in Task, k \in Key : Register(t, k) \/ Lookup(t, k) \/ CloneNotify(t, k)
    \/ \E t \in Task, k \in Key, v \in Value : DoneUnregistered(t, k, v)
    \/ \E t \in Task : Step(t) \/ Cancel(t)
    \/ \E k \in Key : Remove(k)

Spec == Init /\ [][Next]_vars

\* The executor polls every task that can run, and jobs end by calling
\* `done`, which is what `register` asks of its caller.
FairSpec == Spec /\ \A t \in Task : WF_vars(Step(t))
-----------------------------------------------------------------------------
TypeOK ==
    /\ items \in [Key -> Entry]
    /\ pc \in [Task -> Location]
    /\ key \in [Task -> Key \cup {NoKey}]
    /\ notified \in SUBSET Task
    /\ got \in [Task -> Value \cup {NoValue}]

Asleep(t) == pc[t] = "sleeping" /\ t \notin notified

\* A job runs at most once at a time ("Run tasks only once"): no two tasks
\* have been told to run the job of the same key.
RunOnce ==
    \A t, u \in Task :
        pc[t] = "running" /\ pc[u] = "running" /\ key[t] = key[u] => t = u

\* No wake-up is lost: a waiter sleeps un-notified only while its entry has
\* no value, or while the task that stored the value is about to notify.
\* This is what the second look at the map in `register_or_wait` is for.
NoLostWakeup ==
    \A t \in Task : Asleep(t) =>
        \/ items[key[t]] = Waiting
        \/ \E u \in Task : pc[u] = "notifying" /\ key[u] = key[t]

\* No task fails `expect("map is append-only")` or reaches
\* `unreachable!("notify was called")`.
NoPanic == \A t \in Task : pc[t] # "panicked"

\* A task that waits for a job is eventually given its result, or cancelled.
WaitersReturn == \A t \in Task : pc[t] = "sleeping" ~> pc[t] = "idle"

\* What the rest of uv sees a task do: the steps of a wait are one phase, and
\* a task that only has to notify is through.
PhaseOf(t) ==
    IF pc[t] = "notifying" THEN "idle"
    ELSE IF pc[t] \in {"cloned", "subscribed", "sleeping"} THEN "waiting"
    ELSE pc[t]

M == INSTANCE Memo WITH
    slot   <- items,
    phase  <- [t \in Task |-> PhaseOf(t)],
    target <- [t \in Task |-> IF PhaseOf(t) = "idle" THEN NoKey ELSE key[t]]

\* Every behaviour of the map is one of the table's: in particular waiters
\* receive the value of the entry, and only once there is one.
ImplementsMemo == M!Spec
=============================================================================
