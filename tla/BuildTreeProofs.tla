--------------------------- MODULE BuildTreeProofs ---------------------------
(***************************************************************************)
(* The builds of any number of processes, whatever requires what: cycles   *)
(* of build requirements, failures and deaths included.                    *)
(***************************************************************************)
EXTENDS BuildTree, TLAPS

\* The places of a job that is at work on its shard, and of one that found
\* nothing there.
Working == {"look", "default", "resolve", "install", "prepare", "run"}
Making  == Working \ {"look"}

\* A job at work holds the lock of its source distribution.
Holding ==
    \A p \in Process : \A j \in Job :
        frame[p][j].pc \in Working => j[2] \in Source /\ shard[j[2]] = <<p, j>>

\* What it is to make is not in the cache.
Unmade ==
    \A p \in Process : \A j \in Job : frame[p][j].pc \in Making => j \notin stored

\* A wheel that a job has answered with is in the cache.
Answered ==
    \A p \in Process : \A j \in Job : jobs[p][j] = "ok" /\ j[1] = "wheel" => j \in stored

\* A job that installs has the wheels it needs, or waits for them.
Awaited ==
    \A p \in Process : \A j \in Job :
        At(p, j, "prepare") => Wheels(Needs(p, j)) \subseteq stored \cup frame[p][j].pending

\* The environments left for another use are complete.
ArenaReady ==
    \A p \in Process : \A d \in arena[p] : Wheels(graph[d] \cup Extra[d]) \subseteq stored

IInv ==
    /\ TypeOK /\ Holding /\ Unmade
    /\ Answered /\ Awaited /\ ArenaReady /\ EnvironmentReady
-----------------------------------------------------------------------------
(* How a step changes the frames.                                          *)

\* Node n of process p gets frame f; the others keep theirs.
Changes(p, n, f) ==
    /\ frame' \in [Process -> [Node -> Frame]] /\ frame'[p][n] = f
    /\ \A q \in Process : \A m \in Node : q # p \/ m # n => frame'[q][m] = frame[q][m]

\* The command is no job, and a job is a pair.
LEMMA Nodes ==
    /\ Top \in Node /\ Top \notin Job /\ None \notin Job
    /\ \A j \in Job : /\ j \in Node /\ j # Top /\ j[1] \in {"metadata", "wheel"} /\ j[2] \in Dist
                      /\ j = <<j[1], j[2]>>
    /\ \A n \in Node : n # Top => n \in Job
BY DEF Top, Node, Job, None

\* The frame of what does nothing.
LEMMA IdleFrame ==
    /\ Idle \in Frame /\ Idle.pc = "idle"
    /\ \A l \in Place : [Idle EXCEPT !.pc = l] \in Frame
    /\ \A l \in Place, c \in SUBSET Node :
          /\ [Idle EXCEPT !.pc = l, !.chain = c] \in Frame
          /\ [Idle EXCEPT !.pc = l, !.chain = c].pc = l
BY DEF Idle, Frame, Place

\* A frame is put in its place.
LEMMA Puts ==
    ASSUME TypeOK, NEW p \in Process, NEW n \in Node, NEW f \in Frame,
           frame' = [frame EXCEPT ![p][n] = f]
    PROVE  Changes(p, n, f)
<1>1. frame \in [Process -> [Node -> Frame]]
  BY DEF TypeOK
<1>2. frame' = [frame EXCEPT ![p] = [frame[p] EXCEPT ![n] = f]]
  BY <1>1
<1>3. [frame[p] EXCEPT ![n] = f] \in [Node -> Frame]
  BY <1>1
<1>4. frame' \in [Process -> [Node -> Frame]]
  BY <1>1, <1>2, <1>3
<1>5. frame'[p] = [frame[p] EXCEPT ![n] = f] /\ \A q \in Process \ {p} : frame'[q] = frame[q]
  BY <1>1, <1>2
<1>6. frame'[p][n] = f /\ \A m \in Node \ {n} : frame'[p][m] = frame[p][m]
  BY <1>1, <1>5
<1>. QED
  BY <1>4, <1>5, <1>6 DEF Changes

\* `Proceed` moves a node, with the jobs it waits for.
LEMMA Proceeds ==
    ASSUME TypeOK, NEW p \in Process, NEW n \in Node, NEW l \in Place, NEW js \in SUBSET Job,
           Proceed(p, n, l, js)
    PROVE  \E f \in Frame : /\ Changes(p, n, f) /\ f.pc = l /\ f.pending = js
                            /\ f.again = frame[p][n].again
<1>. DEFINE f == [frame[p][n] EXCEPT !.pc = l, !.pending = js]
<1>1. frame[p][n] \in Frame
  BY DEF TypeOK
<1>2. f \in Frame /\ f.pc = l /\ f.pending = js /\ f.again = frame[p][n].again
  BY <1>1 DEF Frame
<1>3. frame' = [frame EXCEPT ![p][n] = f]
  BY DEF Proceed
<1>. HIDE DEF f
<1>. QED
  BY <1>2, <1>3, Puts

\* What a node needs is a set of distributions.
LEMMA NeedsType ==
    ASSUME TypeOK, NEW p \in Process, NEW n \in Node
    PROVE  Needs(p, n) \subseteq Dist
<1>1. graph \in [Dist -> SUBSET Dist] /\ Extra \in [Dist -> SUBSET Dist]
      /\ Request \in [Process -> SUBSET Dist]
  BY BuildAssumption DEF TypeOK
<1>2. CASE n = Top
  BY <1>1, <1>2 DEF Needs
<1>3. CASE n # Top
  <2>1. n[2] \in Dist
    BY <1>3, Nodes
  <2>2. graph[n[2]] \subseteq Dist /\ Extra[n[2]] \subseteq Dist
    BY <1>1, <2>1
  <2>. QED
    BY <1>3, <2>2 DEF Needs
<1>. QED
  BY <1>2, <1>3

\* The metadata or the wheels of distributions are jobs.
LEMMA JobSets ==
    ASSUME NEW ds \in SUBSET Dist
    PROVE  Metadata(ds) \in SUBSET Job /\ Wheels(ds) \in SUBSET Job
BY DEF Metadata, Wheels, Job
-----------------------------------------------------------------------------
(* A step of one node.                                                     *)

\* Frame f is one that node n of process p may get.
Allowed(p, n, f) ==
    n # Top =>
        /\ f.pc \in Working => n[2] \in Source /\ shard'[n[2]] = <<p, n>>
        /\ f.pc \in Making => n \notin stored
        /\ f.pc = "prepare" =>
             Wheels(graph[n[2]] \cup (IF f.again THEN Extra[n[2]] ELSE {}))
               \subseteq stored \cup f.pending
        /\ f.pc = "run" => Wheels(graph[n[2]] \cup Extra[n[2]]) \subseteq stored

\* A step of one node that ends no job.
LEMMA NodeStep ==
    ASSUME IInv, NEW p \in Process, NEW n \in Node, NEW f \in Frame,
           Changes(p, n, f), Allowed(p, n, f),
           graph' = graph, stored' = stored,
           jobs' \in [Process -> [Job -> {"absent", "waiting", "ok", "err"}]],
           \A q \in Process : \A j \in Job : jobs'[q][j] = "ok" => jobs[q][j] = "ok",
           mutex' \in [Process -> Job \cup {None}], resolved' \subseteq Process,
           arena' \in [Process -> SUBSET Source], \A q \in Process : arena'[q] \subseteq arena[q],
           shard' \in [Source -> (Process \X Job) \cup {None}],
           \A d \in Source : shard[d] # None => shard'[d] = shard[d]
    PROVE  IInv'
<1>. USE DEF IInv
<1>1. TypeOK'
  BY DEF TypeOK, Changes
<1>3. Holding'
  <2>. SUFFICES ASSUME NEW q \in Process, NEW j \in Job, frame'[q][j].pc \in Working
                PROVE  j[2] \in Source /\ shard'[j[2]] = <<q, j>>
    BY DEF Holding
  <2>1. CASE q = p /\ j = n
    BY <2>1, Nodes DEF Changes, Allowed
  <2>2. CASE q # p \/ j # n
    <3>1. frame'[q][j] = frame[q][j]
      BY <2>2, Nodes DEF Changes
    <3>2. j[2] \in Source /\ shard[j[2]] = <<q, j>>
      BY <3>1 DEF Holding
    <3>3. <<q, j>> \in Process \X Job
      OBVIOUS
    <3>4. shard[j[2]] # None
      BY <3>2, <3>3, NoneAssumption
    <3>. QED
      BY <3>2, <3>4
  <2>. QED
    BY <2>1, <2>2
<1>4. Unmade'
  BY Nodes DEF Changes, Allowed, Unmade
<1>5. Answered'
  BY DEF Answered
<1>6. Awaited'
  <2>. SUFFICES ASSUME NEW q \in Process, NEW j \in Job, frame'[q][j].pc = "prepare"
                PROVE  Wheels(Needs(q, j))' \subseteq stored \cup frame'[q][j].pending
    BY DEF Awaited, At
  <2>1. CASE q = p /\ j = n
    BY <2>1, Nodes DEF Changes, Allowed, Needs, Wheels
  <2>2. CASE q # p \/ j # n
    <3>1. frame'[q][j] = frame[q][j]
      BY <2>2, Nodes DEF Changes
    <3>2. Wheels(Needs(q, j)) \subseteq stored \cup frame[q][j].pending
      BY <3>1 DEF Awaited, At
    <3>. QED
      BY <3>1, <3>2 DEF Needs, Wheels
  <2>. QED
    BY <2>1, <2>2
<1>7. ArenaReady'
  BY DEF ArenaReady, Wheels
<1>8. EnvironmentReady'
  <2>. SUFFICES ASSUME NEW q \in Process, NEW j \in Job, frame'[q][j].pc = "run"
                PROVE  Wheels(graph[j[2]] \cup Extra[j[2]]) \subseteq stored
    BY DEF EnvironmentReady, At, Wheels
  <2>1. CASE q = p /\ j = n
    BY <2>1, Nodes DEF Changes, Allowed
  <2>2. CASE q # p \/ j # n
    <3>1. frame'[q][j] = frame[q][j]
      BY <2>2, Nodes DEF Changes
    <3>. QED
      BY <3>1 DEF EnvironmentReady, At
  <2>. QED
    BY <2>1, <2>2
<1>. QED
  BY <1>1, <1>3, <1>4, <1>5, <1>6, <1>7, <1>8

\* A job is started by the node that wants it.
LEMMA StartStep ==
    ASSUME IInv, NEW p \in Process, NEW n \in Node, NEW j \in frame[p][n].pending, Start(p, n, j)
    PROVE  IInv'
<1>. USE DEF IInv
<1>. DEFINE c == frame[p][n].chain \cup {n}
            f == [Idle EXCEPT !.pc = "lock", !.chain = c]
<1>1. frame[p][n] \in Frame
  BY DEF TypeOK
<1>2. c \in SUBSET Node /\ j \in Job /\ "lock" \in Place
  BY <1>1 DEF Frame, Place
<1>3. f \in Frame /\ f.pc = "lock"
  BY <1>2, IdleFrame
<1>4. Changes(p, j, f)
  BY <1>2, <1>3, Puts, Nodes DEF Start
<1>. HIDE DEF f
<1>5. Allowed(p, j, f)
  BY <1>3 DEF Allowed, Working, Making
<1>6. /\ jobs' \in [Process -> [Job -> {"absent", "waiting", "ok", "err"}]]
      /\ \A q \in Process : \A i \in Job : jobs'[q][i] = "ok" => jobs[q][i] = "ok"
  <2>1. jobs' = [jobs EXCEPT ![p] = [jobs[p] EXCEPT ![j] = "waiting"]]
    BY DEF Start
  <2>2. jobs \in [Process -> [Job -> {"absent", "waiting", "ok", "err"}]]
    BY DEF TypeOK
  <2>. QED
    BY <1>2, <2>1, <2>2
<1>7. UNCHANGED <<graph, mutex, resolved, arena, shard, stored>>
  BY DEF Start
<1>. QED
  BY <1>2, <1>3, <1>4, <1>5, <1>6, <1>7, NodeStep, Nodes DEF TypeOK

\* The frames that are there are allowed.
LEMMA FrameAllowed ==
    ASSUME IInv, NEW p \in Process, NEW n \in Node, shard' = shard
    PROVE  Allowed(p, n, frame[p][n])
<1>. SUFFICES ASSUME n # Top PROVE Allowed(p, n, frame[p][n])
  BY DEF Allowed
<1>1. n \in Job
  BY Nodes
<1>. QED
  BY <1>1 DEF IInv, Allowed, Holding, Unmade, Awaited, EnvironmentReady, Needs, At

\* A node gets the result of a job: if it is a wheel, it is in the cache.
LEMMA CollectStep ==
    ASSUME IInv, NEW p \in Process, NEW n \in Node, NEW j \in frame[p][n].pending,
           Collect(p, n, j)
    PROVE  IInv'
<1>. USE DEF IInv
<1>. DEFINE f == [frame[p][n] EXCEPT !.pending = @ \ {j}]
<1>1. frame[p][n] \in Frame
  BY DEF TypeOK
<1>2. j \in Job
  BY <1>1 DEF Frame
<1>3. /\ f \in Frame /\ f.pc = frame[p][n].pc /\ f.again = frame[p][n].again
      /\ f.pending = frame[p][n].pending \ {j}
  BY <1>1 DEF Frame
<1>4. Changes(p, n, f)
  BY <1>3, Puts DEF Collect
<1>. HIDE DEF f
<1>5. UNCHANGED <<graph, jobs, mutex, resolved, arena, shard, stored>>
  BY DEF Collect
<1>6. Allowed(p, n, frame[p][n])
  BY <1>5, FrameAllowed
<1>7. j[1] = "wheel" => j \in stored
  BY <1>2 DEF Collect, Answered
<1>8. \A ds : j \in Wheels(ds) => j \in stored
  BY <1>7 DEF Wheels
<1>9. Allowed(p, n, f)
  BY <1>3, <1>6, <1>8 DEF Allowed
<1>. QED
  BY <1>3, <1>4, <1>5, <1>9, NodeStep DEF TypeOK

\* A node returns, with all that it waits for.  What it adds to the cache is of
\* a distribution that needs no build, or of the one it has the lock of.
LEMMA StopStep ==
    ASSUME IInv, NEW p \in Process, NEW n \in Node, NEW result \in {"ok", "err"},
           Stop(p, n, result), graph' = graph, resolved' = resolved,
           stored \subseteq stored', stored' \subseteq Job,
           \A j \in stored' \ stored : j[2] \notin Source \/ shard[j[2]] = <<p, n>>,
           n # Top /\ result = "ok" /\ n[1] = "wheel" => n \in stored',
           arena' \in [Process -> SUBSET Source], ArenaReady'
    PROVE  IInv'
<1>. USE DEF IInv
<1>. DEFINE gone == {n} \cup {m \in Node : n \in frame[p][m].chain}
            ended(m) == IF m # Top THEN Idle
                        ELSE [Idle EXCEPT !.pc = IF result = "ok" THEN "done" ELSE "failed"]
<1>1. /\ frame' = [frame EXCEPT ![p] = [m \in Node |->
                     IF m \notin gone THEN @[m] ELSE ended(m)]]
      /\ jobs' = IF n = Top THEN jobs ELSE [jobs EXCEPT ![p][n] = result]
      /\ mutex' = [mutex EXCEPT ![p] = IF @ \in gone THEN None ELSE @]
      /\ shard' = [d \in Source |-> IF shard[d] \in {p} \X gone THEN None ELSE shard[d]]
  BY DEF Stop
<1>2. \A m : ended(m) \in Frame
  <2>1. \A l \in Place : [Idle EXCEPT !.pc = l] \in Frame
    BY IdleFrame
  <2>. QED
    BY <2>1, IdleFrame DEF Place
<1>3. frame \in [Process -> [Node -> Frame]]
  BY DEF TypeOK
<1>. HIDE DEF gone
<1>4. /\ frame' \in [Process -> [Node -> Frame]]
      /\ \A q \in Process \ {p} : frame'[q] = frame[q]
      /\ \A m \in Node : frame'[p][m] = IF m \notin gone THEN frame[p][m] ELSE ended(m)
  BY <1>1, <1>2, <1>3
<1>. HIDE DEF ended
<1>5. \A j \in Job : ended(j).pc = "idle"
  BY Nodes, IdleFrame DEF ended
<1>6. /\ jobs' \in [Process -> [Job -> {"absent", "waiting", "ok", "err"}]]
      /\ \A q \in Process : \A j \in Job :
           jobs'[q][j] = "ok" => jobs[q][j] = "ok" \/ (j = n /\ result = "ok")
  <2>1. jobs \in [Process -> [Job -> {"absent", "waiting", "ok", "err"}]]
    BY DEF TypeOK
  <2>2. CASE n = Top
    BY <1>1, <2>1, <2>2
  <2>3. CASE n # Top
    <3>1. jobs' = [jobs EXCEPT ![p] = [jobs[p] EXCEPT ![n] = result]] /\ n \in Job
      BY <1>1, <2>3, Nodes
    <3>. QED
      BY <2>1, <3>1
  <2>. QED
    BY <2>2, <2>3
<1>7. TypeOK'
  <2>1. mutex' \in [Process -> Job \cup {None}]
    BY <1>1 DEF TypeOK
  <2>2. shard' \in [Source -> (Process \X Job) \cup {None}]
    BY <1>1 DEF TypeOK
  <2>. QED
    BY <1>4, <1>6, <2>1, <2>2 DEF TypeOK
<1>8. ASSUME NEW q \in Process, NEW j \in Job, frame'[q][j].pc # "idle"
      PROVE  frame'[q][j] = frame[q][j] /\ (q # p \/ j \notin gone)
  BY <1>4, <1>5, <1>8, Nodes
<1>9. ASSUME NEW q \in Process, NEW j \in Job, frame'[q][j].pc \in Working
      PROVE  /\ frame'[q][j] = frame[q][j]
             /\ j[2] \in Source /\ shard[j[2]] = <<q, j>> /\ shard'[j[2]] = <<q, j>>
             /\ <<q, j>> # <<p, n>>
  <2>1. frame'[q][j] = frame[q][j] /\ (q # p \/ j \notin gone)
    BY <1>8, <1>9 DEF Working
  <2>2. j[2] \in Source /\ shard[j[2]] = <<q, j>>
    BY <1>9, <2>1 DEF Holding
  <2>3. <<q, j>> \notin {p} \X gone
    BY <2>1
  <2>4. n \in gone
    BY DEF gone
  <2>. QED
    BY <1>1, <2>1, <2>2, <2>3, <2>4
<1>10. Holding'
  BY <1>9 DEF Holding
<1>11. Unmade'
  <2>. SUFFICES ASSUME NEW q \in Process, NEW j \in Job, frame'[q][j].pc \in Making
                PROVE  j \notin stored'
    BY DEF Unmade
  <2>1. frame'[q][j].pc \in Working
    BY DEF Making
  <2>2. j \notin stored
    BY <1>9, <2>1 DEF Unmade
  <2>. QED
    BY <1>9, <2>1, <2>2
<1>12. Answered'
  BY <1>6, Nodes DEF Answered
<1>13. Awaited'
  <2>. SUFFICES ASSUME NEW q \in Process, NEW j \in Job, frame'[q][j].pc = "prepare"
                PROVE  Wheels(Needs(q, j))' \subseteq stored' \cup frame'[q][j].pending
    BY DEF Awaited, At
  <2>1. frame'[q][j] = frame[q][j]
    BY <1>8
  <2>2. Wheels(Needs(q, j)) \subseteq stored \cup frame[q][j].pending
    BY <2>1 DEF Awaited, At
  <2>. QED
    BY <2>1, <2>2 DEF Needs, Wheels
<1>14. EnvironmentReady'
  <2>. SUFFICES ASSUME NEW q \in Process, NEW j \in Job, frame'[q][j].pc = "run"
                PROVE  Wheels(graph[j[2]] \cup Extra[j[2]]) \subseteq stored'
    BY DEF EnvironmentReady, At, Wheels
  <2>1. frame'[q][j] = frame[q][j]
    BY <1>8
  <2>. QED
    BY <2>1 DEF EnvironmentReady, At
<1>. QED
  BY <1>7, <1>10, <1>11, <1>12, <1>13, <1>14

\* A node returns, and adds nothing to the cache.
LEMMA PlainStop ==
    ASSUME IInv, NEW p \in Process, NEW n \in Node, NEW result \in {"ok", "err"},
           Stop(p, n, result), UNCHANGED <<graph, resolved, arena, stored>>,
           n # Top /\ result = "ok" /\ n[1] = "wheel" => n \in stored
    PROVE  IInv'
<1>1. arena' \in [Process -> SUBSET Source] /\ stored' \subseteq Job /\ ArenaReady'
  BY DEF IInv, TypeOK, ArenaReady, Wheels
<1>. QED
  BY <1>1, StopStep

\* A node that sees a failed job, that fails itself, or whose process dies.
LEMMA FailStep ==
    ASSUME IInv, NEW p \in Process, NEW n \in Node, Fail(p, n)
    PROVE  IInv'
BY PlainStop DEF Fail

\* So is a job that breaks.
LEMMA BreakStep ==
    ASSUME IInv, NEW p \in Process, NEW j \in Job, Break(p, j)
    PROVE  IInv'
BY PlainStop, Nodes DEF Break

\* The command ends, well or not.
LEMMA EndStep ==
    ASSUME IInv, NEW p \in Process, Die(p) \/ Prepared(p)
    PROVE  IInv'
BY PlainStop, Nodes DEF Die, Prepared

\* What is found is in the cache, or is metadata.
LEMMA UseStep ==
    ASSUME IInv, NEW p \in Process, NEW j \in Job, Use(p, j)
    PROVE  IInv'
BY PlainStop, Nodes DEF Use, Found

\* What needs no build is fetched.
LEMMA GetStep ==
    ASSUME IInv, NEW p \in Process, NEW j \in Job, Get(p, j)
    PROVE  IInv'
<1>1. stored' = stored \cup {j} /\ Stop(p, j, "ok") /\ UNCHANGED <<graph, resolved, arena>>
  BY DEF Get
<1>2. arena' \in [Process -> SUBSET Source] /\ stored' \subseteq Job /\ ArenaReady'
  BY <1>1 DEF IInv, TypeOK, ArenaReady, Wheels
<1>3. \A i \in stored' \ stored : i[2] \notin Source
  BY <1>1 DEF Get
<1>. QED
  BY <1>1, <1>2, <1>3, StopStep, Nodes

\* The back end has run in a complete environment, which can be used again.
LEMMA BuildStep ==
    ASSUME IInv, NEW p \in Process, NEW j \in Job, Build(p, j)
    PROVE  IInv'
<1>. USE DEF IInv
<1>1. PICK made \in {{j[1]}, {"metadata", "wheel"}} : stored' = stored \cup (made \X {j[2]})
  BY DEF Build
<1>2. /\ arena' = [arena EXCEPT ![p] = @ \cup {j[2]}]
      /\ Stop(p, j, "ok") /\ UNCHANGED <<graph, resolved>> /\ frame[p][j].pc = "run"
  BY DEF Build, At
<1>3. j[2] \in Source /\ shard[j[2]] = <<p, j>>
  BY <1>2 DEF Holding, Working
<1>4. j[1] \in {"metadata", "wheel"} /\ j[2] \in Dist /\ j = <<j[1], j[2]>>
  BY Nodes
<1>5. stored' \subseteq Job
  <2>1. made \X {j[2]} \subseteq Job
    BY <1>4 DEF Job
  <2>. QED
    BY <1>1, <2>1 DEF TypeOK
<1>6. j \in stored'
  <2>1. j[1] \in made
    BY <1>4
  <2>2. <<j[1], j[2]>> \in made \X {j[2]}
    BY <2>1
  <2>. QED
    BY <1>1, <1>4, <2>2
<1>7. \A i \in stored' \ stored : shard[i[2]] = <<p, j>>
  <2>1. \A i \in made \X {j[2]} : i[2] = j[2]
    OBVIOUS
  <2>. QED
    BY <1>1, <1>3, <2>1
<1>8. arena' \in [Process -> SUBSET Source]
  BY <1>2, <1>3 DEF TypeOK
<1>9. ArenaReady'
  <2>. SUFFICES ASSUME NEW q \in Process, NEW d \in arena'[q]
                PROVE  Wheels(graph[d] \cup Extra[d]) \subseteq stored
    BY <1>1, <1>2 DEF ArenaReady, Wheels
  <2>1. d \in arena[q] \/ (q = p /\ d = j[2])
    BY <1>2 DEF TypeOK
  <2>2. Wheels(graph[j[2]] \cup Extra[j[2]]) \subseteq stored
    BY <1>2 DEF EnvironmentReady, At
  <2>. QED
    BY <2>1, <2>2 DEF ArenaReady
<1>10. j \in Node /\ j # Top
  BY Nodes
<1>. QED
  BY <1>1, <1>2, <1>5, <1>6, <1>7, <1>8, <1>9, <1>10, StopStep
-----------------------------------------------------------------------------
(* The steps of a build.                                                   *)

\* A node goes on, and nothing but its frame and the mutex changes.
LEMMA GoOn ==
    ASSUME IInv, NEW p \in Process, NEW n \in Node, NEW f \in Frame,
           Changes(p, n, f), Allowed(p, n, f),
           UNCHANGED <<graph, jobs, arena, shard, stored>>,
           mutex' \in [Process -> Job \cup {None}], resolved' \subseteq Process
    PROVE  IInv'
BY NodeStep DEF IInv, TypeOK

\* A job takes the lock, which nobody has.
LEMMA LockStep ==
    ASSUME IInv, NEW p \in Process, NEW j \in Job, Lock(p, j)
    PROVE  IInv'
<1>. USE DEF IInv
<1>1. /\ UNCHANGED <<graph, jobs, mutex, resolved, arena, stored>> /\ j[2] \in Source
      /\ shard[j[2]] = None /\ shard' = [shard EXCEPT ![j[2]] = <<p, j>>]
  BY DEF Lock
<1>2. PICK f \in Frame : Changes(p, j, f) /\ f.pc = "look"
  BY Proceeds, Nodes DEF Lock, Place
<1>3. /\ shard' \in [Source -> (Process \X Job) \cup {None}]
      /\ shard'[j[2]] = <<p, j>> /\ \A d \in Source : shard[d] # None => shard'[d] = shard[d]
  BY <1>1 DEF TypeOK
<1>4. Allowed(p, j, f)
  BY <1>1, <1>2, <1>3 DEF Allowed, Making, Working
<1>. QED
  BY <1>1, <1>2, <1>3, <1>4, NodeStep, Nodes DEF TypeOK

\* An environment that is left is complete.
LEMMA ReuseStep ==
    ASSUME IInv, NEW p \in Process, NEW j \in Job, Reuse(p, j)
    PROVE  IInv'
<1>. USE DEF IInv
<1>1. /\ UNCHANGED <<graph, jobs, mutex, resolved, shard, stored>>
      /\ frame[p][j].pc = "look" /\ j \notin stored /\ j[2] \in arena[p]
      /\ arena' = [arena EXCEPT ![p] = @ \ {j[2]}]
  BY DEF Reuse, At, Found
<1>2. PICK f \in Frame : Changes(p, j, f) /\ f.pc = "run"
  BY Proceeds, Nodes DEF Reuse, Place
<1>3. /\ arena' \in [Process -> SUBSET Source]
      /\ \A q \in Process : arena'[q] \subseteq arena[q]
  BY <1>1 DEF TypeOK
<1>4. j[2] \in Source /\ shard'[j[2]] = <<p, j>>
  BY <1>1 DEF Holding, Working
<1>5. Wheels(graph[j[2]] \cup Extra[j[2]]) \subseteq stored
  BY <1>1 DEF ArenaReady
<1>6. Allowed(p, j, f)
  BY <1>1, <1>2, <1>4, <1>5 DEF Allowed
<1>. QED
  BY <1>1, <1>2, <1>3, <1>6, NodeStep, Nodes DEF TypeOK

\* A frame of a place at which nothing is said of the cache.
LEMMA AllowedMaking ==
    ASSUME IInv, NEW p \in Process, NEW n \in Node, NEW f, shard' = shard,
           f.pc \in {"default", "resolve", "install"},
           n # Top => n \notin stored /\ frame[p][n].pc \in Working
    PROVE  Allowed(p, n, f)
BY Nodes DEF Allowed, IInv, Holding, Making, Working

\* Nothing is found, and a build is set up.
LEMMA SetupStep ==
    ASSUME IInv, NEW p \in Process, NEW j \in Job, Setup(p, j)
    PROVE  IInv'
<1>. USE DEF IInv
<1>1. /\ UNCHANGED <<graph, jobs, mutex, resolved, arena, shard, stored>>
      /\ frame[p][j].pc \in Working /\ j \notin stored
  BY DEF Setup, At, Found, Working
<1>2. {} \in SUBSET Job /\ Metadata(Needs(p, j)) \in SUBSET Job
  BY NeedsType, JobSets, Nodes
<1>3. \E f \in Frame : Changes(p, j, f) /\ f.pc \in {"default", "resolve"}
  BY <1>2, Proceeds, Nodes DEF Setup, Place
<1>. QED
  BY <1>1, <1>3, AllowedMaking, GoOn, Nodes DEF TypeOK

\* The default requirements are taken from the process, or resolved for it.
LEMMA ResolveDefaultStep ==
    ASSUME IInv, NEW p \in Process, NEW j \in Job, ResolveDefault(p, j)
    PROVE  IInv'
<1>. USE DEF IInv
<1>1. /\ UNCHANGED <<graph, jobs, resolved, arena, shard, stored>>
      /\ frame[p][j].pc \in Working /\ j \notin stored
  BY DEF ResolveDefault, At, Working, Making, Unmade
<1>2. {} \in SUBSET Job /\ Metadata(Needs(p, j)) \in SUBSET Job
  BY NeedsType, JobSets, Nodes
<1>3. \E f \in Frame : Changes(p, j, f) /\ f.pc \in {"install", "resolve"}
  BY <1>2, Proceeds, Nodes DEF ResolveDefault, Place
<1>4. mutex' \in [Process -> Job \cup {None}]
  BY DEF ResolveDefault, TypeOK
<1>. QED
  BY <1>1, <1>3, <1>4, AllowedMaking, GoOn, Nodes DEF TypeOK

\* A resolution has what it needs.
LEMMA ResolveStep ==
    ASSUME IInv, NEW p \in Process, NEW n \in Node, Resolve(p, n)
    PROVE  IInv'
<1>. USE DEF IInv
<1>1. UNCHANGED <<graph, jobs, arena, shard, stored>>
  BY DEF Resolve
<1>2. n # Top => n \notin stored /\ frame[p][n].pc \in Working
  BY Nodes DEF Resolve, At, Working, Making, Unmade
<1>3. \E f \in Frame : Changes(p, n, f) /\ f.pc = "install"
  BY Proceeds DEF Resolve, Place
<1>4. mutex' \in [Process -> Job \cup {None}] /\ resolved' \subseteq Process
  BY DEF Resolve, TypeOK
<1>. QED
  BY <1>1, <1>2, <1>3, <1>4, AllowedMaking, GoOn

\* The plan waits for the wheels that the cache has not.
LEMMA InstallStep ==
    ASSUME IInv, NEW p \in Process, NEW n \in Node, Install(p, n)
    PROVE  IInv'
<1>. USE DEF IInv
<1>1. CASE Stop(p, n, "err")
  BY <1>1, PlainStop DEF Install
<1>2. CASE /\ Proceed(p, n, "prepare", Wheels(Remote(p, n)))
           /\ UNCHANGED <<jobs, mutex, shard>>
  <2>1. UNCHANGED <<graph, jobs, mutex, resolved, arena, shard, stored>>
    BY <1>2 DEF Install
  <2>2. Wheels(Remote(p, n)) \in SUBSET Job
    BY NeedsType, JobSets DEF Remote
  <2>3. PICK f \in Frame : /\ Changes(p, n, f) /\ f.pc = "prepare"
                            /\ f.pending = Wheels(Remote(p, n)) /\ f.again = frame[p][n].again
    BY <1>2, <2>2, Proceeds DEF Place
  <2>4. n # Top => /\ n \notin stored /\ n[2] \in Source /\ shard[n[2]] = <<p, n>>
    BY Nodes DEF Install, At, Holding, Working, Making, Unmade
  <2>5. Wheels(Needs(p, n)) \subseteq stored \cup Wheels(Remote(p, n))
    BY DEF Wheels, Remote
  <2>6. Allowed(p, n, f)
    BY <2>1, <2>3, <2>4, <2>5 DEF Allowed, Needs
  <2>. QED
    BY <2>1, <2>3, <2>6, GoOn DEF TypeOK
<1>. QED
  BY <1>1, <1>2 DEF Install

\* What is waited for has come: the environment is complete, or the back end
\* asks for more.
LEMMA InstalledStep ==
    ASSUME IInv, NEW p \in Process, NEW n \in Node, Installed(p, n)
    PROVE  IInv'
<1>. USE DEF IInv
<1>1. /\ UNCHANGED <<graph, jobs, mutex, resolved, arena, shard, stored>>
      /\ n # Top /\ frame[p][n].pc = "prepare" /\ frame[p][n].pending = {}
  BY DEF Installed, At
<1>2. n \in Job
  BY <1>1, Nodes
<1>3. /\ n \notin stored /\ frame[p][n].pc \in Working
      /\ n[2] \in Source /\ shard[n[2]] = <<p, n>>
  BY <1>1, <1>2 DEF Holding, Working, Making, Unmade
<1>4. Wheels(Needs(p, n)) \subseteq stored
  BY <1>1, <1>2 DEF Awaited, At
<1>5. CASE ~frame[p][n].again /\ ~(Extra[n[2]] \subseteq graph[n[2]])
  <2>. DEFINE js == Metadata(graph[n[2]] \cup Extra[n[2]])
              f == [frame[p][n] EXCEPT !.again = TRUE, !.pc = "resolve", !.pending = js]
  <2>1. graph[n[2]] \cup Extra[n[2]] \subseteq Dist
    <3>1. n[2] \in Dist /\ graph \in [Dist -> SUBSET Dist] /\ Extra \in [Dist -> SUBSET Dist]
      BY <1>2, BuildAssumption, Nodes DEF TypeOK
    <3>. QED
      BY <3>1
  <2>2. js \in SUBSET Job
    BY <2>1, JobSets
  <2>3. frame[p][n] \in Frame
    BY DEF TypeOK
  <2>4. f \in Frame /\ f.pc = "resolve"
    BY <2>2, <2>3 DEF Frame, Place
  <2>5. frame' = [frame EXCEPT ![p][n] = f]
    <3>1. frame' = [frame EXCEPT ![p][n].again = TRUE, ![p][n].pc = "resolve",
                                 ![p][n].pending = js]
      BY <1>5 DEF Installed
    <3>. HIDE DEF js
    <3>. QED
      BY <3>1
  <2>. HIDE DEF f
  <2>6. Changes(p, n, f)
    BY <2>4, <2>5, Puts
  <2>7. Allowed(p, n, f)
    BY <1>1, <1>3, <2>4, AllowedMaking
  <2>. QED
    BY <1>1, <2>4, <2>6, <2>7, GoOn DEF TypeOK
<1>6. CASE frame[p][n].again \/ Extra[n[2]] \subseteq graph[n[2]]
  <2>1. PICK f \in Frame : Changes(p, n, f) /\ f.pc = "run"
    BY <1>6, Proceeds DEF Installed, Place
  <2>2. Wheels(graph[n[2]] \cup Extra[n[2]]) \subseteq stored
    BY <1>1, <1>4, <1>6 DEF Needs, Wheels
  <2>3. Allowed(p, n, f)
    BY <1>1, <1>3, <2>1, <2>2 DEF Allowed
  <2>. QED
    BY <1>1, <2>1, <2>3, GoOn DEF TypeOK
<1>. QED
  BY <1>5, <1>6
-----------------------------------------------------------------------------
(* The theorems.                                                           *)

\* Nothing is at work, and nothing is answered, at the start.
LEMMA InitInv == Init => IInv
<1>. SUFFICES ASSUME Init PROVE IInv
  OBVIOUS
<1>1. /\ frame \in [Process -> [Node -> Frame]]
      /\ \A p \in Process : \A j \in Job : frame[p][j] = Idle
  <2>1. \A p \in Process : \A n \in Node : frame[p][n] =
         IF n # Top THEN Idle
         ELSE [Idle EXCEPT !.pc = IF p \in Resolves THEN "resolve" ELSE "install",
                           !.pending = IF p \in Resolves THEN Metadata(Request[p]) ELSE {}]
    BY DEF Init
  <2>2. ASSUME NEW p \in Process, NEW n \in Node PROVE frame[p][n] \in Frame
    <3>1. Metadata(Request[p]) \in SUBSET Job
      BY BuildAssumption, JobSets
    <3>2. CASE n # Top
      BY <2>1, <3>2, IdleFrame
    <3>3. CASE n = Top
      <4>. DEFINE l == IF p \in Resolves THEN "resolve" ELSE "install"
                  js == IF p \in Resolves THEN Metadata(Request[p]) ELSE {}
      <4>1. l \in Place /\ js \in SUBSET Job
        BY <3>1 DEF Place
      <4>2. frame[p][n] = [Idle EXCEPT !.pc = l, !.pending = js]
        BY <2>1, <3>3
      <4>. HIDE DEF l, js
      <4>. QED
        BY <4>1, <4>2 DEF Idle, Frame
    <3>. QED
      BY <3>2, <3>3
  <2>3. frame \in [Process -> [Node -> Frame]]
    <3>1. \A p \in Process : frame[p] \in [Node -> Frame]
      <4>. SUFFICES ASSUME NEW p \in Process PROVE frame[p] \in [Node -> Frame]
        OBVIOUS
      <4>1. frame[p] = [n \in Node |-> frame[p][n]]
        BY DEF Init
      <4>. QED
        BY <2>2, <4>1
    <3>2. frame = [p \in Process |-> frame[p]]
      BY DEF Init
    <3>. QED
      BY <3>1, <3>2
  <2>. QED
    BY <2>1, <2>3, Nodes
<1>2. TypeOK
  <2>1. /\ jobs \in [Process -> [Job -> {"absent", "waiting", "ok", "err"}]]
        /\ mutex \in [Process -> Job \cup {None}] /\ arena \in [Process -> SUBSET Source]
        /\ shard \in [Source -> (Process \X Job) \cup {None}]
    BY DEF Init
  <2>. QED
    BY <1>1, <2>1 DEF Init, TypeOK
<1>3. Holding /\ Unmade /\ Awaited /\ EnvironmentReady
  BY <1>1, IdleFrame DEF Holding, Unmade, Awaited, EnvironmentReady, At, Working, Making
<1>4. Answered /\ ArenaReady
  BY DEF Init, Answered, ArenaReady
<1>. QED
  BY <1>2, <1>3, <1>4 DEF IInv

\* Every step keeps it so.
LEMMA NextInv == IInv /\ [Next]_vars => IInv'
<1>. SUFFICES ASSUME IInv, [Next]_vars PROVE IInv'
  OBVIOUS
<1>1. ASSUME NEW p \in Process, Step(p) PROVE IInv'
  <2>1. CASE Prepared(p)
    BY <2>1, EndStep
  <2>2. ASSUME NEW n \in Node, \/ Fail(p, n) \/ Resolve(p, n) \/ Install(p, n) \/ Installed(p, n)
        PROVE  IInv'
    BY <2>2, FailStep, ResolveStep, InstallStep, InstalledStep
  <2>3. ASSUME NEW n \in Node, NEW j \in frame[p][n].pending, Start(p, n, j) \/ Collect(p, n, j)
        PROVE  IInv'
    BY <2>3, StartStep, CollectStep
  <2>4. ASSUME NEW j \in Job,
               \/ Get(p, j) \/ Lock(p, j) \/ Use(p, j) \/ Reuse(p, j) \/ Setup(p, j)
               \/ ResolveDefault(p, j) \/ Build(p, j)
        PROVE  IInv'
    BY <2>4, GetStep, LockStep, UseStep, ReuseStep, SetupStep, ResolveDefaultStep, BuildStep
  <2>. QED
    BY <1>1, <2>1, <2>2, <2>3, <2>4 DEF Step
<1>2. ASSUME NEW p \in Process, Die(p) PROVE IInv'
  BY <1>2, EndStep
<1>3. ASSUME NEW p \in Process, NEW n \in Node, Fail(p, n) PROVE IInv'
  BY <1>3, FailStep
<1>4. ASSUME NEW p \in Process, NEW j \in Job, Break(p, j) PROVE IInv'
  BY <1>4, BreakStep
<1>5. CASE UNCHANGED vars
  BY <1>5 DEF vars, IInv, TypeOK, Holding, Unmade, Answered, Awaited, ArenaReady,
       EnvironmentReady, At, Needs, Wheels
<1>. QED
  BY <1>1, <1>2, <1>3, <1>4, <1>5 DEF Next, Over

\* The inductive invariant: jobs at work hold the lock of their shard and make
\* what is not there, wheels that are answered with are stored, and a job that
\* installs lacks only what it waits for.
THEOREM BuildInductive == Spec => []IInv
BY InitInv, NextInv, PTL DEF Spec

\* `BuildDispatch` and the distribution database build a source distribution in
\* one job at a time, of all processes that share the cache, and never a wheel
\* that is there: for all requirements, cycles and failures included.
THEOREM BuildsAreExclusive == Spec => []BuildsOnce
<1>1. IInv => BuildsOnce
  <2>. SUFFICES ASSUME IInv, NEW p \in Process, NEW q \in Process, NEW i \in Job, NEW j \in Job,
                       At(p, i, "run"), At(q, j, "run"), i[2] = j[2]
                PROVE  <<p, i>> = <<q, j>> /\ i \notin stored
    BY DEF BuildsOnce
  <2>1. shard[i[2]] = <<p, i>> /\ shard[j[2]] = <<q, j>>
    BY DEF IInv, Holding, Working, At
  <2>2. i \notin stored
    BY DEF IInv, Unmade, Making, Working, At
  <2>. QED
    BY <2>1, <2>2
<1>. QED
  BY <1>1, BuildInductive, PTL

\* A back end runs only when the wheels of all its requirements are stored,
\* those that it asks for itself and an environment used again included.
THEOREM BackEndsHaveRequirements == Spec => []EnvironmentReady
<1>1. IInv => EnvironmentReady
  BY DEF IInv
<1>. QED
  BY <1>1, BuildInductive, PTL
=============================================================================
