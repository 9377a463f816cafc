--------------------------- MODULE ResolverFetch ---------------------------
(***************************************************************************)
(* How resolutions obtain metadata (crates/uv-resolver/src/resolver).      *)
(*                                                                         *)
(* A `Resolver` is a PubGrub solver on a thread of its own and a fetcher,  *)
(* a stream of futures on the async runtime.  The solver registers a key   *)
(* in the `InMemoryIndex`, sends a request through a bounded channel, and  *)
(* later blocks on the key; the fetcher answers.  A source distribution    *)
(* whose metadata has to be built starts another `Resolver` for its build  *)
(* requirements (crates/uv-dispatch), which shares the index.              *)
(*                                                                         *)
(* `register`, `wait` and `done` are indivisible here, as OnceMap.tla      *)
(* shows they may be taken to be.  The solver's choices (which package,    *)
(* which version, what to give up in a conflict) are nondeterministic.     *)
(* Left out: that an explicit index has keys of its own (two lists under   *)
(* one name), and distributions given by a URL, whose metadata the solver  *)
(* requests when it visits the package.                                    *)
(***************************************************************************)
EXTENDS Naturals, Sequences, FiniteSets

CONSTANTS
    Package,   \* names; a name is also the key of its version list, from
               \* whichever index
    Dist,      \* distributions; each is also the key of its metadata
    Of,        \* Of[d]: the package d is a version of
    Wheel,     \* the distributions whose metadata never has to be built
    Provided,  \* those whose metadata the registry serves with the versions
    Unhashed,  \* those the hash-checking policy forbids
    Root,      \* the resolution the user asked for
    AnyUrl,    \* AnyUrl[r]: packages that are a direct URL in some fork of r
    Explicit,  \* Explicit[r]: packages r takes from an explicit index
    Requires,  \* Requires[r]: the requirements of resolution r
    Depends,   \* Depends[d]: the dependencies in the metadata of d
    Answers,   \* Answers[k]: the responses a fetch of k may give
    Fatal,     \* keys whose fetch may fail with a client error
    Capacity   \* of the request channel (300 in the code)

Key      == Package \cup Dist
Sdist    == Dist \ Wheel
Resolver == {Root} \cup Sdist    \* a nested resolution is named after its build
Response == {"Found", "Unavailable", "Error"}

ASSUME FetchAssumption ==
    /\ Package \cap Dist = {} /\ Root \notin Key
    /\ Of \in [Dist -> Package]
    /\ Wheel \subseteq Dist /\ Provided \subseteq Dist /\ Unhashed \subseteq Dist
    /\ Fatal \subseteq Key
    /\ AnyUrl \in [Resolver -> SUBSET Package] /\ Explicit \in [Resolver -> SUBSET Package]
    /\ Requires \in [Resolver -> SUBSET Package]
    /\ Depends \in [Dist -> SUBSET Package]
    /\ Answers \in [Key -> SUBSET Response]
    /\ Capacity \in Nat \ {0}

Request == [kind : {"Package", "Prefetch"}, key : Package] \cup [kind : {"Dist"}, key : Dist]
FetchOf(k) == [kind |-> IF k \in Package THEN "Package" ELSE "Dist", key |-> k]
Prefetch(p) == [kind |-> "Prefetch", key |-> p]

VARIABLES
    index,       \* the shared index: absent, waiting, or a response
    life,        \* the `resolve` future of each resolution
    stack,       \* its `BuildStack`
    pc,          \* where its solver thread is
    send,        \* the key whose request the solver is sending, and what then
    focus,       \* the package or distribution the solver is deciding on
    agenda,      \* dependencies `visit_dependencies` has yet to visit
    pins,        \* the distributions currently selected
    rejected,    \* those found incompatible or unavailable
    preVisited,  \* packages `pre_visit` sent a `Prefetch` for, with their range
    queue,       \* the request channel
    inflight     \* the futures of `buffer_unordered`

solver == <<pc, send, focus, agenda, pins, rejected, preVisited>>
vars   == <<index, life, stack, solver, queue, inflight>>

\* "versions" and "metadata" are calls of `wait_blocking`.
Location == {"unborn", "visit", "propagate", "sending", "versions", "candidate", "batch",
             "metadata", "dependencies", "solved", "failed", "unhashed", "unregistered"}
Ended    == {"solved", "failed", "unhashed", "unregistered"}

\* "aborted": `fetch` returned an error; "dropped": the future that awaited it
\* was.  Neither runs the fetcher to its end.
Life == {"unborn", "live", "ok", "err", "aborted", "dropped"}

\* The packages the partial solution mentions, and those still to be decided.
Known(r)     == Requires[r] \cup UNION {Depends[d] : d \in pins[r]}
Undecided(r) == Known(r) \ {Of[d] : d \in pins[r]}
Versions(p)  == {d \in Dist : Of[d] = p}

Goto(r, l) == pc' = [pc EXCEPT ![r] = l]

Init ==
    /\ index = [k \in Key |-> "absent"]
    /\ life  = [r \in Resolver |-> IF r = Root THEN "live" ELSE "unborn"]
    /\ stack = [r \in Resolver |-> {}]
    /\ pc    = [r \in Resolver |-> IF r = Root THEN "visit" ELSE "unborn"]
    /\ send  = [r \in Resolver |-> [key |-> Root, then |-> "visit"]]
    /\ focus = [r \in Resolver |-> Root]
    /\ agenda = [r \in Resolver |-> Requires[r] \ AnyUrl[r]]
    /\ pins = [r \in Resolver |-> {}]
    /\ rejected = [r \in Resolver |-> {}]
    /\ preVisited = [r \in Resolver |-> {}]
    /\ queue = [r \in Resolver |-> <<>>]
    /\ inflight = [r \in Resolver |-> {}]
-----------------------------------------------------------------------------
(* The solver thread. *)

\* Mutant: a running job does not count as registered.
RegisterUnlessAnswered(r, k, l) ==
    IF index[k] \in {"absent", "waiting"}
      THEN /\ index' = [index EXCEPT ![k] = "waiting"]
           /\ send' = [send EXCEPT ![r] = [key |-> k, then |-> l]]
           /\ Goto(r, "sending")
      ELSE Goto(r, l) /\ UNCHANGED <<index, send>>

\* `if index.register(k) { request_sink.blocking_send(..) }`, then go to l.
RegisterAndSend(r, k, l) ==
    IF index[k] = "absent"
      THEN /\ index' = [index EXCEPT ![k] = "waiting"]
           /\ send' = [send EXCEPT ![r] = [key |-> k, then |-> l]]
           /\ Goto(r, "sending")
      ELSE /\ Goto(r, l)
           /\ UNCHANGED <<index, send>>

\* Mutant: the channel has no bound.
SendUnbounded(r) ==
    /\ pc[r] = "sending" /\ life[r] = "live"
    /\ queue' = [queue EXCEPT ![r] = Append(@, FetchOf(send[r].key))]
    /\ Goto(r, send[r].then)
    /\ UNCHANGED <<index, life, stack, send, focus, agenda, pins, rejected, preVisited, inflight>>

\* `blocking_send` blocks while the channel is full, and fails once the
\* fetcher has dropped the receiver.
Send(r) ==
    /\ pc[r] = "sending"
    /\ life[r] = "live" => Len(queue[r]) < Capacity
    /\ IF life[r] = "live"
         THEN /\ queue' = [queue EXCEPT ![r] = Append(@, FetchOf(send[r].key))]
              /\ Goto(r, send[r].then)
         ELSE Goto(r, "failed") /\ UNCHANGED queue
    /\ UNCHANGED <<index, life, stack, send, focus, agenda, pins, rejected, preVisited, inflight>>

\* `visit_dependencies`: one dependency of the version just added.
Visit(r, p) ==
    /\ pc[r] = "visit" /\ p \in agenda[r]
    /\ agenda' = [agenda EXCEPT ![r] = @ \ {p}]
    /\ RegisterAndSend(r, p, "visit")
    /\ UNCHANGED <<life, stack, focus, pins, rejected, preVisited, queue, inflight>>

\* The dependencies are added to the state, and `unit_propagation` runs.
Propagate(r) ==
    /\ pc[r] = "visit" /\ agenda[r] = {}
    /\ Goto(r, "propagate")
    /\ UNCHANGED <<index, life, stack, send, focus, agenda, pins, rejected, preVisited,
                   queue, inflight>>

\* Mutant: packages with a URL in some fork are pre-visited too.
ToPreVisitAll(r) == Undecided(r) \ (Explicit[r] \cup preVisited[r])

\* What `pre_visit` has not sent for its current range.
ToPreVisit(r) == Undecided(r) \ (AnyUrl[r] \cup Explicit[r] \cup preVisited[r])

\* `pre_visit`: one package of the pass that follows each propagation.
PreVisit(r, p) ==
    /\ pc[r] = "propagate" /\ p \in ToPreVisit(r)
    /\ life[r] = "live" => Len(queue[r]) < Capacity
    /\ preVisited' = [preVisited EXCEPT ![r] = @ \cup {p}]
    /\ IF life[r] = "live"
         THEN queue' = [queue EXCEPT ![r] = Append(@, Prefetch(p))] /\ UNCHANGED pc
         ELSE Goto(r, "failed") /\ UNCHANGED queue
    /\ UNCHANGED <<index, life, stack, send, focus, agenda, pins, rejected, inflight>>

\* `pick_highest_priority_pkg` and `request_package`.
Pick(r, p) ==
    /\ pc[r] = "propagate" /\ ToPreVisit(r) = {} /\ p \in Undecided(r)
    /\ focus' = [focus EXCEPT ![r] = p]
    /\ RegisterAndSend(r, p, "versions")
    /\ UNCHANGED <<life, stack, agenda, pins, rejected, preVisited, queue, inflight>>

\* No package is left to decide: the solver returns its solution, and drops
\* the sending side of the channel.
Solved(r) ==
    /\ pc[r] = "propagate" /\ Undecided(r) = {}
    /\ Goto(r, "solved")
    /\ UNCHANGED <<index, life, stack, send, focus, agenda, pins, rejected, preVisited,
                   queue, inflight>>

\* What selecting or giving up a distribution does to the ranges of packages:
\* `pre_visit` sends those again whose range is another.
Reranged(dists) == UNION {Depends[d] : d \in dists}

\* Distribution d is given up, and the solver backtracks.
GiveUp(r, d) ==
    /\ rejected' = [rejected EXCEPT ![r] = @ \cup {d}]
    /\ \E keep \in SUBSET (pins[r] \ {d}) :
         /\ pins' = [pins EXCEPT ![r] = keep]
         /\ preVisited' = [preVisited EXCEPT ![r] = @ \ ({Of[d]} \cup Reranged(pins[r] \ keep))]
    /\ Goto(r, "propagate")

\* `wait_blocking` returns.  On a key that nobody registered, it registers the
\* key and returns the internal error `UnregisteredTask`.
Wait(r) ==
    /\ pc[r] \in {"versions", "metadata"} /\ index[focus[r]] # "waiting"
    /\ IF index[focus[r]] = "absent"
         THEN index' = [index EXCEPT ![focus[r]] = "waiting"] /\ Goto(r, "unregistered")
         ELSE /\ Goto(r, IF pc[r] = "versions" THEN "candidate" ELSE "dependencies")
              /\ UNCHANGED index
    /\ UNCHANGED <<life, stack, send, focus, agenda, pins, rejected, preVisited, queue, inflight>>

\* `choose_version_registry`: a candidate among the versions of the package is
\* requested in `visit_candidate`, which registers it before it looks at the
\* hash-checking policy.
ChooseVersion(r, d) ==
    /\ pc[r] = "candidate" /\ index[focus[r]] = "Found"
    /\ Of[d] = focus[r] /\ d \notin rejected[r]
    /\ focus' = [focus EXCEPT ![r] = d]
    /\ IF index[d] = "absent" /\ d \in Unhashed
         THEN /\ index' = [index EXCEPT ![d] = "waiting"]
              /\ Goto(r, "unhashed") /\ UNCHANGED send
         ELSE RegisterAndSend(r, d, "batch")
    /\ UNCHANGED <<life, stack, agenda, pins, rejected, preVisited, queue, inflight>>

\* There is no version left, or no package: the blame falls on a selected
\* distribution that depends on it, or there is no solution.
NoVersions(r) ==
    /\ pc[r] = "candidate"
    /\ \/ index[focus[r]] = "Unavailable"
       \/ index[focus[r]] = "Found" /\ Versions(focus[r]) \subseteq rejected[r]
    /\ \/ /\ \E d \in pins[r] : focus[r] \in Depends[d] /\ GiveUp(r, d)
       \/ /\ focus[r] \in Requires[r]
          /\ Goto(r, "failed") /\ UNCHANGED <<pins, rejected, preVisited>>
    /\ UNCHANGED <<index, life, stack, send, focus, agenda, queue, inflight>>

\* `prefetch_batches`: wheels of the same package are requested ahead.
BatchPrefetch(r, d) ==
    /\ pc[r] = "batch" /\ d \in Wheel /\ Of[d] = Of[focus[r]] /\ index[d] = "absent"
    /\ RegisterAndSend(r, d, "batch")
    /\ UNCHANGED <<life, stack, focus, agenda, pins, rejected, preVisited, queue, inflight>>

BatchEnd(r) ==
    /\ pc[r] = "batch"
    /\ Goto(r, "metadata")
    /\ UNCHANGED <<index, life, stack, send, focus, agenda, pins, rejected, preVisited,
                   queue, inflight>>

\* `get_dependencies`: the version is selected, given up, or ends the resolution.
GetDependencies(r) ==
    LET d == focus[r] IN
    /\ pc[r] = "dependencies"
    /\ \/ /\ index[d] = "Found"
          /\ pins' = [pins EXCEPT ![r] = @ \cup {d}]
          /\ agenda' = [agenda EXCEPT ![r] = Depends[d] \ AnyUrl[r]]
          /\ preVisited' = [preVisited EXCEPT ![r] = @ \ Reranged({d})]
          /\ Goto(r, "visit")
          /\ UNCHANGED rejected
       \/ index[d] = "Unavailable" /\ GiveUp(r, d) /\ UNCHANGED agenda
       \/ index[d] = "Error" /\ Goto(r, "failed") /\ UNCHANGED <<agenda, pins, rejected, preVisited>>
    /\ UNCHANGED <<index, life, stack, send, focus, queue, inflight>>

\* Two selected distributions turn out to be incompatible.
Conflict(r, d) ==
    /\ pc[r] = "propagate" /\ d \in pins[r]
    /\ GiveUp(r, d)
    /\ UNCHANGED <<index, life, stack, send, focus, agenda, queue, inflight>>
-----------------------------------------------------------------------------
(* The fetcher. *)

\* Mutant: the fetcher shares a thread with the solver, whose sends block both.
ReceiveOnSolverThread(r) ==
    /\ life[r] = "live" /\ queue[r] # <<>> /\ pc[r] # "sending"
    /\ inflight' = [inflight EXCEPT ![r] = @ \cup {Head(queue[r])}]
    /\ queue' = [queue EXCEPT ![r] = Tail(@)]
    /\ UNCHANGED <<index, life, stack, solver>>

\* `buffer_unordered` takes a request from the channel, and starts its future.
Receive(r) ==
    /\ life[r] = "live" /\ queue[r] # <<>>
    /\ inflight' = [inflight EXCEPT ![r] = @ \cup {Head(queue[r])}]
    /\ queue' = [queue EXCEPT ![r] = Tail(@)]
    /\ UNCHANGED <<index, life, stack, solver>>

\* A future ends with a response, which `fetch` stores with `done`.
Respond(r, task, k, answer) ==
    /\ index' = [index EXCEPT ![k] = answer]
    /\ inflight' = [inflight EXCEPT ![r] = @ \ {task}]

\* What the fetch of k can answer: metadata that came with the versions of its
\* package, or what the provider finds.
Outcomes(k) ==
    IF k \in Provided /\ index[Of[k]] = "Found" THEN {"Found"} ELSE Answers[k]

\* Version lists, and metadata that need no build.
Fetch(r, task) ==
    LET k == task.key IN
    /\ task \in inflight[r] /\ task.kind # "Prefetch"
    /\ k \in Sdist => life[k] = "unborn"
    /\ \E answer \in Outcomes(k) : Respond(r, task, k, answer)
    /\ UNCHANGED <<life, stack, solver, queue>>

\* The metadata of a source distribution is built: its build requirements are
\* resolved by another `Resolver`.
Build(r, d) ==
    /\ FetchOf(d) \in inflight[r] /\ d \in Sdist \ Provided /\ life[d] = "unborn"
    /\ life' = [life EXCEPT ![d] = "live"]
    /\ stack' = [stack EXCEPT ![d] = stack[r] \cup {d}]
    /\ Goto(d, "visit")
    /\ UNCHANGED <<index, send, focus, agenda, pins, rejected, preVisited, queue, inflight>>

\* The nested resolution has ended.  If it failed, the answer is an `Error`; if it
\* needs a distribution that is being built, `install` refuses, unless the
\* distribution is cached.
Built(r, d) ==
    /\ FetchOf(d) \in inflight[r] /\ d \in Sdist /\ life[d] \in {"ok", "err", "aborted"}
    /\ LET refused == life[d] # "ok" \/ pins[d] \cap stack[d] # {} IN
       \E answer \in (IF life[d] = "ok" THEN Answers[d] ELSE {})
                     \cup (IF refused THEN {"Error"} ELSE {}) :
         Respond(r, FetchOf(d), d, answer)
    /\ UNCHANGED <<life, stack, solver, queue>>

\* Mutant: the candidate is registered before its `Requires-Python` is looked at.
PrefetchRegistersFirst(r, p, d) ==
    /\ Prefetch(p) \in inflight[r] /\ index[p] = "Found" /\ Of[d] = p
    /\ index' = IF index[d] = "absent" THEN [index EXCEPT ![d] = "waiting"] ELSE index
    /\ inflight' = [inflight EXCEPT ![r] = @ \ {Prefetch(p)}]
    /\ UNCHANGED <<life, stack, solver, queue>>

\* A `Prefetch` whose package has versions picks a candidate.  Metadata that
\* came with the versions are stored whether or not the key is registered;
\* otherwise the future goes on to fetch them if it is first to register.
PrefetchCandidate(r, p, d) ==
    /\ Prefetch(p) \in inflight[r] /\ index[p] = "Found" /\ Of[d] = p
    /\ IF d \in Provided
         THEN Respond(r, Prefetch(p), d, "Found")
         ELSE LET first == index[d] = "absent" /\ d \notin Unhashed IN
              /\ index' = IF first THEN [index EXCEPT ![d] = "waiting"] ELSE index
              /\ inflight' = [inflight EXCEPT ![r] =
                   (@ \ {Prefetch(p)}) \cup IF first THEN {FetchOf(d)} ELSE {}]
    /\ UNCHANGED <<life, stack, solver, queue>>

\* `fetch` returns an error: the receiver and the futures in flight are
\* dropped, and with them the resolutions they were awaiting.
Abort(r) ==
    LET awaited == {c \in Resolver : life[c] = "live" /\
                      \E task \in inflight[r] : task.kind = "Dist" /\ task.key \in stack[c]}
        gone    == awaited \cup {r} IN
    /\ life' = [c \in Resolver |->
         IF c = r THEN "aborted" ELSE IF c \in awaited THEN "dropped" ELSE life[c]]
    /\ inflight' = [c \in Resolver |-> IF c \in gone THEN {} ELSE inflight[c]]
    /\ queue' = [c \in Resolver |-> IF c \in gone THEN <<>> ELSE queue[c]]

\* A future fails: `response?` in `fetch`.
FetchFails(r, task) ==
    /\ task \in inflight[r] /\ task.kind # "Prefetch" /\ task.key \in Fatal
    /\ task.key \in Sdist => life[task.key] = "unborn"
    /\ Abort(r)
    /\ UNCHANGED <<index, stack, solver>>

\* A `Prefetch` finds no package, or no candidate it may fetch.  One that nobody
\* registered is the internal error `UnregisteredTask`.
PrefetchNothing(r, p) ==
    /\ Prefetch(p) \in inflight[r] /\ index[p] # "waiting"
    /\ IF index[p] = "absent"
         THEN index' = [index EXCEPT ![p] = "waiting"] /\ Abort(r) /\ Goto(r, "unregistered")
         ELSE /\ inflight' = [inflight EXCEPT ![r] = @ \ {Prefetch(p)}]
              /\ UNCHANGED <<index, life, pc, queue>>
    /\ UNCHANGED <<stack, send, focus, agenda, pins, rejected, preVisited>>

\* `try_join!`: the solver has ended, and so has the stream of responses.
Join(r) ==
    /\ life[r] = "live" /\ pc[r] \in Ended
    /\ queue[r] = <<>> /\ inflight[r] = {}
    /\ life' = [life EXCEPT ![r] = IF pc[r] = "solved" THEN "ok" ELSE "err"]
    /\ UNCHANGED <<index, stack, solver, queue, inflight>>
-----------------------------------------------------------------------------
Solve(r) ==
    \/ Send(r) \/ Propagate(r) \/ Solved(r) \/ NoVersions(r) \/ BatchEnd(r)
    \/ GetDependencies(r) \/ Wait(r)
    \/ \E p \in Package : Visit(r, p) \/ PreVisit(r, p) \/ Pick(r, p)
    \/ \E d \in Dist : ChooseVersion(r, d) \/ BatchPrefetch(r, d) \/ Conflict(r, d)

Serve(r) ==
    \/ Receive(r) \/ Join(r)
    \/ \E task \in inflight[r] : Fetch(r, task)
    \/ \E d \in Sdist : Build(r, d) \/ Built(r, d)
    \/ \E p \in Package : PrefetchNothing(r, p) \/ \E d \in Dist : PrefetchCandidate(r, p, d)

Next ==
    \/ \E r \in Resolver : Solve(r) \/ Serve(r)
    \/ \E r \in Resolver : \E task \in inflight[r] : FetchFails(r, task)

Spec == Init /\ [][Next]_vars

\* Solver threads are scheduled, and the executor polls each fetcher while it
\* has something to do.
FairSpec == Spec /\ \A r \in Resolver : WF_vars(Solve(r)) /\ WF_vars(Serve(r))
-----------------------------------------------------------------------------
TypeOK ==
    /\ index \in [Key -> {"absent", "waiting"} \cup Response]
    /\ life \in [Resolver -> Life]
    /\ stack \in [Resolver -> SUBSET Dist]
    /\ pc \in [Resolver -> Location]
    /\ send \in [Resolver -> [key : Key \cup {Root}, then : Location]]
    /\ focus \in [Resolver -> Key \cup {Root}]
    /\ agenda \in [Resolver -> SUBSET Package]
    /\ pins \in [Resolver -> SUBSET Dist]
    /\ rejected \in [Resolver -> SUBSET Dist]
    /\ preVisited \in [Resolver -> SUBSET Package]
    /\ queue \in [Resolver -> Seq(Request)]
    /\ \A r \in Resolver : Len(queue[r]) <= Capacity
    /\ inflight \in [Resolver -> SUBSET Request]

\* The fetch of k is with a solver that has registered k and is sending the
\* request, in a channel, or a future in flight.
Sending(r, k)   == pc[r] = "sending" /\ send[r].key = k
Queued(r, i, k) == queue[r][i] = FetchOf(k)
Fetching(r, k)  == FetchOf(k) \in inflight[r]
HasOwner(k) ==
    \E r \in Resolver : Sending(r, k) \/ Fetching(r, k) \/ \E i \in 1..Len(queue[r]) : Queued(r, i, k)

\* A resolution was cut short between `register` and `done`.
CutShort(r) == life[r] \in {"aborted", "dropped"} \/ pc[r] \in {"unhashed", "unregistered"}

\* Every key that is being waited for has someone who will call `done` for it
\* ("you need to start a job and call `done` eventually or other tasks will
\* hang"), whichever resolution registered it, unless one was cut short.
JobsOwned ==
    (\A r \in Resolver : ~CutShort(r)) => \A k \in Key : index[k] = "waiting" => HasOwner(k)

\* Nothing is fetched twice, whichever resolutions ask for it: the fetch of a
\* key is in one place.
FetchedOnce ==
    \A k \in Key, r, q \in Resolver :
        /\ Sending(r, k) \/ Fetching(r, k) =>
             /\ \A i \in 1..Len(queue[q]) : ~Queued(q, i, k)
             /\ Sending(q, k) \/ Fetching(q, k) => r = q
        /\ ~(Sending(r, k) /\ Fetching(r, k))
        /\ \A i \in 1..Len(queue[r]), j \in 1..Len(queue[q]) :
             Queued(r, i, k) /\ Queued(q, j, k) => r = q /\ i = j

\* No resolution fails with the internal error `UnregisteredTask`: whatever a
\* solver or a `Prefetch` waits for was registered before.
NoUnregisteredTask == \A r \in Resolver : pc[r] # "unregistered"

\* The resolution the user asked for returns, with a result or an error: the
\* solver, blocked on a full channel or on a key, and the fetcher, which awaits
\* keys and nested resolutions, never wait for each other.
ResolveReturns == <>(life[Root] # "live")

\* Every registered key is answered, unless the command returns first.
JobsAnswered ==
    \A k \in Key : index[k] = "waiting" ~> (index[k] \in Response \/ life[Root] # "live")
=============================================================================
