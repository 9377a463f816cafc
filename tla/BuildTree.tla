----------------------------- MODULE BuildTree -----------------------------
(***************************************************************************)
(* The builds that one command starts, and those of another process beside *)
(* it: `Preparer` (uv-installer), `BuildDispatch::{resolve, install,       *)
(* setup_build}` (uv-dispatch), `SourceBuild::setup` (uv-build-frontend)   *)
(* and the builds of the distribution database.                            *)
(*                                                                         *)
(* To build a source distribution, its build requirements are resolved,    *)
(* which takes their metadata, and installed, which takes their wheels;    *)
(* each may be a source distribution in turn.  All the builds of a process *)
(* share two maps of jobs, the index (metadata) and the downloads in       *)
(* flight (wheels), the resolution of the default back end, and the build  *)
(* environments that are left for another use.  Processes share the cache, *)
(* with a lock per source distribution.                                    *)
(*                                                                         *)
(* A job waits for jobs, for a lock and for a mutex, and holds some of     *)
(* these while it waits for others.                                        *)
(***************************************************************************)
EXTENDS FiniteSets

CONSTANTS
    Process,    \* uv processes
    Dist,       \* distributions
    Source,     \* those that must be built
    Static,     \* source distributions that state their metadata
    Default,    \* source distributions without a build back end of their own
    Faulty,     \* distributions that may fail to be fetched or built
    Graphs,     \* build requirements, resolved: what each needs
    Extra,      \* what its `get_requires_for_build_wheel` asks for
    Request,    \* what each process is asked to install
    Resolves    \* the processes that resolve first; others have a lock file

ASSUME BuildAssumption ==
    /\ Source \subseteq Dist /\ Static \subseteq Source
    /\ Default \subseteq Source /\ Faulty \subseteq Dist
    /\ Graphs \subseteq [Dist -> SUBSET Dist] /\ Extra \in [Dist -> SUBSET Dist]
    /\ \A g \in Graphs : \A d, e \in Default : g[d] = g[e]
    /\ Request \in [Process -> SUBSET Dist] /\ Resolves \subseteq Process

\* A job makes the metadata or the wheel of a distribution.  The command
\* itself, which is no job, resolves and prepares in the same way.
Job  == {"metadata", "wheel"} \X Dist
Top  == <<"command", "command">>
Node == Job \cup {Top}
None == <<"none", "none">>

ASSUME NoneAssumption == None \notin Process \X Job

VARIABLES
    graph,      \* what each distribution requires
    jobs,       \* per process, `OnceMap` entries: the index and `in_flight`
    frame,      \* per process, how far each node is
    mutex,      \* per process, who holds `default_resolution`
    resolved,   \* the processes for which it is filled
    arena,      \* per process, the build environments that can be used again
    shard,      \* who holds the lock of a source distribution
    stored      \* what is in the cache

vars == <<graph, jobs, frame, mutex, resolved, arena, shard, stored>>

Place ==
    { "idle",      \* not started, or ended
      "lock",      \* to be fetched, or waiting for the lock of the shard
      "look",      \* has the lock
      "default",   \* waits for the mutex
      "resolve",   \* waits for metadata
      "install",   \* about to plan
      "prepare",   \* waits for wheels
      "run",       \* the back end runs
      "done", "failed" }   \* of the command

\* chain: the nodes that wait for this one to return, up to the command.
\* pending: the jobs it waits for.  again: it installs the extra requirements.
Frame == [pc : Place, chain : SUBSET Node, pending : SUBSET Job, again : BOOLEAN]

TypeOK ==
    /\ graph \in Graphs
    /\ jobs \in [Process -> [Job -> {"absent", "waiting", "ok", "err"}]]
    /\ frame \in [Process -> [Node -> Frame]]
    /\ mutex \in [Process -> Job \cup {None}]
    /\ resolved \subseteq Process
    /\ arena \in [Process -> SUBSET Source]
    /\ shard \in [Source -> (Process \X Job) \cup {None}]
    /\ stored \subseteq Job

Metadata(ds) == {"metadata"} \X ds
Wheels(ds)   == {"wheel"} \X ds
At(p, n, l)  == frame[p][n].pc = l
Idle         == [pc |-> "idle", chain |-> {}, pending |-> {}, again |-> FALSE]

Init ==
    /\ graph \in Graphs
    /\ jobs = [p \in Process |-> [j \in Job |-> "absent"]]
    /\ frame = [p \in Process |-> [n \in Node |->
         IF n # Top THEN Idle
         ELSE [Idle EXCEPT !.pc = IF p \in Resolves THEN "resolve" ELSE "install",
                           !.pending = IF p \in Resolves THEN Metadata(Request[p]) ELSE {}]]]
    /\ mutex = [p \in Process |-> None]
    /\ resolved = {}
    /\ arena = [p \in Process |-> {}]
    /\ shard = [d \in Source |-> None]
    /\ stored = {}

\* What a node resolves and installs.
Needs(p, n) ==
    IF n = Top THEN Request[p]
    ELSE graph[n[2]] \cup IF frame[p][n].again THEN Extra[n[2]] ELSE {}

\* The `BuildStack` in `install`.
Stack(p, n) == {m[2] : m \in (frame[p][n].chain \cup {n}) \ {Top}}

\* A node goes on to l, where it waits for the jobs js.
Proceed(p, n, l, js) ==
    frame' = [frame EXCEPT ![p][n].pc = l, ![p][n].pending = js]
-----------------------------------------------------------------------------
(* `register_or_wait` and `done`.                                          *)

\* A job that nobody has registered is started by the node that wants it.
Start(p, n, j) ==
    /\ j \in frame[p][n].pending /\ jobs[p][j] = "absent"
    /\ jobs' = [jobs EXCEPT ![p][j] = "waiting"]
    /\ frame' = [frame EXCEPT ![p][j] =
                   [Idle EXCEPT !.pc = "lock", !.chain = frame[p][n].chain \cup {n}]]
    /\ UNCHANGED <<graph, mutex, resolved, arena, shard, stored>>

\* The result of a job arrives, at the node that runs it or at one that waits.
Collect(p, n, j) ==
    /\ j \in frame[p][n].pending /\ jobs[p][j] = "ok"
    /\ frame' = [frame EXCEPT ![p][n].pending = @ \ {j}]
    /\ UNCHANGED <<graph, jobs, mutex, resolved, arena, shard, stored>>

\* Mutant: an error leaves without `done`.
StopEarly(p, n, result) ==
    LET gone == {n} \cup {m \in Node : n \in frame[p][m].chain} IN
    /\ frame' = [frame EXCEPT ![p] = [m \in Node |->
         IF m \notin gone THEN @[m]
         ELSE IF m # Top THEN Idle
         ELSE [Idle EXCEPT !.pc = IF result = "ok" THEN "done" ELSE "failed"]]]
    /\ jobs' = IF n = Top \/ result = "err" THEN jobs ELSE [jobs EXCEPT ![p][n] = result]
    /\ mutex' = [mutex EXCEPT ![p] = IF @ \in gone THEN None ELSE @]
    /\ shard' = [d \in Source |-> IF shard[d] \in {p} \X gone THEN None ELSE shard[d]]

\* A node returns, and gives up the locks it holds.  The futures it still had
\* are dropped, with all they were waiting for: `try_collect` ends at the first
\* error, and so does the fetcher of a resolution.  For those, `done` is never
\* called.
Stop(p, n, result) ==
    LET gone == {n} \cup {m \in Node : n \in frame[p][m].chain} IN
    /\ frame' = [frame EXCEPT ![p] = [m \in Node |->
         IF m \notin gone THEN @[m]
         ELSE IF m # Top THEN Idle
         ELSE [Idle EXCEPT !.pc = IF result = "ok" THEN "done" ELSE "failed"]]]
    /\ jobs' = IF n = Top THEN jobs ELSE [jobs EXCEPT ![p][n] = result]
    /\ mutex' = [mutex EXCEPT ![p] = IF @ \in gone THEN None ELSE @]
    /\ shard' = [d \in Source |-> IF shard[d] \in {p} \X gone THEN None ELSE shard[d]]

\* A job the node waits for has failed, here or elsewhere (`Error::Thread`).
Fail(p, n) ==
    /\ \E j \in frame[p][n].pending : jobs[p][j] = "err"
    /\ Stop(p, n, "err")
    /\ UNCHANGED <<graph, resolved, arena, stored>>

\* Whether a failed job is bound to be seen: `try_collect` sees it at once, the
\* solver of a resolution may be waiting for another one.
Noticed(p, n) ==
    At(p, n, "resolve") => \A j \in frame[p][n].pending : jobs[p][j] # "waiting"
-----------------------------------------------------------------------------
(* `get_or_build_wheel` and `get_or_build_wheel_metadata`.                 *)

\* What needs no build is fetched.
Get(p, j) ==
    /\ At(p, j, "lock") /\ j[2] \notin Source
    /\ stored' = stored \cup {j}
    /\ Stop(p, j, "ok")
    /\ UNCHANGED <<graph, resolved, arena>>

Lock(p, j) ==
    /\ At(p, j, "lock") /\ j[2] \in Source
    /\ shard[j[2]] = None
    /\ shard' = [shard EXCEPT ![j[2]] = <<p, j>>]
    /\ Proceed(p, j, "look", {})
    /\ UNCHANGED <<graph, jobs, mutex, resolved, arena, stored>>

\* Mutant: the cache is not looked at again.
FoundNever(j) == j[1] = "metadata" /\ j[2] \in Static

\* What is in the cache by now, or stated by the source, is not built.
Found(j) == j \in stored \/ (j[1] = "metadata" /\ j[2] \in Static)

Use(p, j) ==
    /\ At(p, j, "look") /\ Found(j)
    /\ Stop(p, j, "ok")
    /\ UNCHANGED <<graph, resolved, arena, stored>>

\* `build_distribution` takes the environment the metadata was built in out of
\* the arena.
Reuse(p, j) ==
    /\ At(p, j, "look") /\ ~Found(j) /\ j[1] = "wheel" /\ j[2] \in arena[p]
    /\ arena' = [arena EXCEPT ![p] = @ \ {j[2]}]
    /\ Proceed(p, j, "run", {})
    /\ UNCHANGED <<graph, jobs, mutex, resolved, shard, stored>>

\* `setup_build` and `SourceBuild::setup`, with build isolation.  (Without it,
\* or with the built-in back end, nothing is resolved or installed and the build
\* only runs.)
Setup(p, j) ==
    /\ At(p, j, "look") /\ ~Found(j)
    /\ j[1] = "metadata" \/ j[2] \notin arena[p]
    /\ IF j[2] \in Default
         THEN Proceed(p, j, "default", {})
         ELSE Proceed(p, j, "resolve", Metadata(Needs(p, j)))
    /\ UNCHANGED <<graph, jobs, mutex, resolved, arena, shard, stored>>

\* `get_resolved_requirements`: the default requirements are resolved once,
\* under a mutex.
ResolveDefault(p, j) ==
    /\ At(p, j, "default") /\ mutex[p] = None
    /\ IF p \in resolved
         THEN Proceed(p, j, "install", {}) /\ UNCHANGED mutex
         ELSE /\ mutex' = [mutex EXCEPT ![p] = j]
              /\ Proceed(p, j, "resolve", Metadata(Needs(p, j)))
    /\ UNCHANGED <<graph, jobs, resolved, arena, shard, stored>>

\* The resolution has what it needs.  Requirements named by a URL, whose metadata
\* `LookaheadResolver` gets before the resolver starts (and whose keys it leaves
\* without a `done` when that fails), are left out.
Resolve(p, n) ==
    /\ At(p, n, "resolve") /\ frame[p][n].pending = {}
    /\ Proceed(p, n, "install", {})
    /\ mutex' = [mutex EXCEPT ![p] = IF @ = n THEN None ELSE @]
    /\ resolved' = IF mutex[p] = n THEN resolved \cup {p} ELSE resolved
    /\ UNCHANGED <<graph, jobs, arena, shard, stored>>

\* Mutant: the plan takes the wheels in flight for cached.
RemoteIdle(p, n) == {d \in Needs(p, n) : jobs[p][<<"wheel", d>>] = "absent"}

\* What the planner does not find in the cache.
Remote(p, n) == {d \in Needs(p, n) : <<"wheel", d>> \notin stored}

\* `install`: a distribution that is being built further up is an error.
Install(p, n) ==
    /\ At(p, n, "install")
    /\ IF n # Top /\ Remote(p, n) \cap Stack(p, n) # {}
         THEN Stop(p, n, "err")
         ELSE /\ Proceed(p, n, "prepare", Wheels(Remote(p, n)))
              /\ UNCHANGED <<jobs, mutex, shard>>
    /\ UNCHANGED <<graph, resolved, arena, stored>>

\* The requirements are installed.  The back end may name more of them, which
\* `create_pep517_build_environment` resolves and installs with the others.
Installed(p, j) ==
    /\ j # Top /\ At(p, j, "prepare") /\ frame[p][j].pending = {}
    /\ IF ~frame[p][j].again /\ ~(Extra[j[2]] \subseteq graph[j[2]])
         THEN frame' = [frame EXCEPT ![p][j].again = TRUE, ![p][j].pc = "resolve",
                          ![p][j].pending = Metadata(graph[j[2]] \cup Extra[j[2]])]
         ELSE Proceed(p, j, "run", {})
    /\ UNCHANGED <<graph, jobs, mutex, resolved, arena, shard, stored>>

\* The command has its wheels.
Prepared(p) ==
    /\ At(p, Top, "prepare") /\ frame[p][Top].pending = {}
    /\ Stop(p, Top, "ok")
    /\ UNCHANGED <<graph, resolved, arena, stored>>

\* The back end has run, and the result is in the cache.  A back end that has
\* no hook for metadata builds the wheel for it, in the same environment.
Build(p, j) ==
    /\ At(p, j, "run")
    /\ \E made \in {{j[1]}, {"metadata", "wheel"}} :
         /\ j[1] = "wheel" => Cardinality(made) = 2
         /\ stored' = stored \cup (made \X {j[2]})
    /\ arena' = [arena EXCEPT ![p] = @ \cup {j[2]}]
    /\ Stop(p, j, "ok")
    /\ UNCHANGED <<graph, resolved>>

\* A fetch, a resolution or a build fails, or the lock is waited for too long.
\* What the preparer refuses before it starts a job (`--no-build`, `--no-binary`)
\* or after it (a name or version that is not as asked) ends the command in the
\* same way, and is not told apart.
Break(p, j) ==
    /\ j[2] \in Faulty /\ frame[p][j].pc \in {"lock", "look", "resolve", "install", "run"}
    /\ Stop(p, j, "err")
    /\ UNCHANGED <<graph, resolved, arena, stored>>

\* The process is killed.
Die(p) ==
    /\ frame[p][Top].pc \notin {"done", "failed"}
    /\ Stop(p, Top, "err")
    /\ UNCHANGED <<graph, resolved, arena, stored>>
-----------------------------------------------------------------------------
Step(p) ==
    \/ Prepared(p)
    \/ \E n \in Node :
         \/ (Noticed(p, n) /\ Fail(p, n)) \/ Resolve(p, n) \/ Install(p, n) \/ Installed(p, n)
         \/ \E j \in frame[p][n].pending : Start(p, n, j) \/ Collect(p, n, j)
    \/ \E j \in Job :
         \/ Get(p, j) \/ Lock(p, j) \/ Use(p, j) \/ Reuse(p, j) \/ Setup(p, j)
         \/ ResolveDefault(p, j) \/ Build(p, j)

Ended(p) == frame[p][Top].pc \in {"done", "failed"}

Over == (\A p \in Process : Ended(p)) /\ UNCHANGED vars

Next ==
    \/ \E p \in Process :
         \/ Step(p) \/ Die(p)
         \/ \E n \in Node : Fail(p, n)
         \/ \E j \in Job : Break(p, j)
    \/ Over

Spec == Init /\ [][Next]_vars

\* The executor polls what can go on, and the system runs every process.
FairSpec == Spec /\ \A p \in Process : WF_vars(Step(p))
-----------------------------------------------------------------------------
\* No set of distributions of which each requires another of the set.
Acyclic ==
    \A S \in (SUBSET Dist) \ {{}} :
        \E d \in S : (graph[d] \cup Extra[d]) \cap S = {}

\* A source distribution is built by one job at a time, of all processes, and
\* its wheel is not built if the cache has it: the lock of the shard is held
\* from the look at the cache to the end of the build, through the builds of
\* all the requirements.
BuildsOnce ==
    \A p, q \in Process : \A i, j \in Job :
        At(p, i, "run") /\ At(q, j, "run") /\ i[2] = j[2] =>
            <<p, i>> = <<q, j>> /\ i \notin stored

\* A back end runs with all of its requirements, those it asks for itself
\* included, although some were built by other jobs or by other processes.
EnvironmentReady ==
    \A p \in Process : \A j \in Job :
        At(p, j, "run") => Wheels(graph[j[2]] \cup Extra[j[2]]) \subseteq stored

\* A resolution has yet to look at a job that has failed.
Unseen(p) ==
    \E n \in Node : At(p, n, "resolve") /\ \E j \in frame[p][n].pending : jobs[p][j] = "err"

\* Without a cycle in the requirements every process ends: jobs, locks and the
\* mutex are waited for in the order of the requirements, and what a failed
\* preparation leaves behind keeps nobody waiting.  The one exception is an
\* error that a resolution does not look at: its solver may wait for a build
\* that waits for a job the error has dropped (see ResolverFetch!JobsAnswered).
CommandsReturn == Acyclic => <>[](\A p \in Process : Ended(p) \/ Unseen(p))

\* "Push the current distribution onto the build stack, to prevent cyclic
\* dependencies" (`setup_build`): a cycle ends the command as well.
CyclesReturn == <>(\A p \in Process : Ended(p))
=============================================================================
