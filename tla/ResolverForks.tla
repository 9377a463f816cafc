--------------------------- MODULE ResolverForks ---------------------------
(***************************************************************************)
(* Universal resolution (crates/uv-resolver/src/resolver).                 *)
(*                                                                         *)
(* A universal resolution solves for every marker environment and every    *)
(* choice of conflicting extras and groups at once.  It keeps a stack of   *)
(* fork states; each stands for a part of that space.  Where the           *)
(* dependencies of a version differ between environments, or belong to     *)
(* conflicting items, `ForkedDependencies::fork` splits the state; a       *)
(* version that supports only some platforms or Python versions splits it  *)
(* too.  The lock file is put together from one resolution per fork.       *)
(*                                                                         *)
(* A marker is the set of environments it admits.  Which package is        *)
(* decided next is nondeterministic.                                       *)
(* Packages have one version here; what a package needs in another version *)
(* may as well be asked of another package.                                *)
(***************************************************************************)
EXTENDS Integers, Sequences

CONSTANTS
    Env,        \* marker environments
    Py,         \* Py[e]: the Python version of e
    Target,     \* `requires-python`: a record with fields lo and hi
    Initial,    \* the markers of the initial forks
    Item,       \* packages, and extras and groups of packages, that may conflict
    Extra,      \* those that are extras
    Base,       \* Base[i]: the package of i; a package is its own
    Twin,       \* Twin[<<i, n>>]: the extra of package n that is named as extra i
    Declared,   \* the lists of conflict sets that may be declared
    Package,    \* what may be visited: Root and items
    Root,       \* what the user asks for
    Normal,     \* the items visited that are packages
    Dep,        \* their dependencies
    Deps,       \* Deps[p]: those of p
    Marker,     \* Marker[d]: the marker of d
    ItemOf,     \* ItemOf[d]: what d depends on
    Platforms,  \* the markers a version may be split on
    None        \* no package, no dependency

Interval == [lo : Int, hi : Int]
Within(r) == {e \in Env : r.lo <= Py[e] /\ Py[e] <= r.hi}

ASSUME ForksAssumption ==
    /\ Py \in [Env -> Int] /\ Target \in Interval
    /\ \A m \in SUBSET Env : m # {} =>    \* there are finitely many Python versions
         (\E e \in m : \A f \in m : Py[e] <= Py[f]) /\ (\E e \in m : \A f \in m : Py[f] <= Py[e])
    /\ Initial \subseteq SUBSET Env
    /\ \A m, n \in Initial : m # n => m \cap n = {}
    /\ Extra \subseteq Item /\ Base \in [Item -> Item] /\ \A i \in Item : Base[Base[i]] = Base[i]
    /\ Twin \in [Extra \X Item -> Extra]
    /\ Declared \subseteq Seq(SUBSET Item)
    /\ Root \in Package /\ Normal \subseteq Package \ {Root} /\ Deps \in [Package -> SUBSET Dep]
    /\ \A p, q \in Package : p # q => Deps[p] \cap Deps[q] = {}
    /\ Marker \in [Dep -> SUBSET Env] /\ ItemOf \in [Dep -> Item]
    /\ Platforms \subseteq SUBSET Env /\ None \notin Package /\ None \notin Dep

VARIABLES
    conflicts,    \* the conflict sets of the workspace, in order
    phase,        \* where the solver is
    state,        \* the `ForkState` it works on
    forkedStates, \* those still to be solved
    resolutions,  \* those solved
    package,      \* the package whose dependencies are being forked
    names,        \* the names `fork` has yet to look at
    deps,         \* the dependencies of the current name it has yet to look at
    dep, marker,  \* its `Forker`: a dependency, and the rest of its marker
    old,          \* the forks the `Forker` has yet to look at
    forks,        \* the forks so far
    set           \* the conflict set `fork` looks at next

call == <<package, names, deps, dep, marker, old, forks, set>>
vars == <<conflicts, phase, state, forkedStates, resolutions, call>>

Phase == {"pick", "solve", "names", "deps", "split", "sets", "end", "failed"}
-----------------------------------------------------------------------------
(* `PythonRequirement` and `ResolverEnvironment`. *)

Greater(a, b) == IF a >= b THEN a ELSE b
Lesser(a, b)  == IF a <= b THEN a ELSE b

\* `requires_python`: the bounds of the Python versions of a marker.
Lowest(m)  == CHOOSE v \in {Py[e] : e \in m} : \A e \in m : v <= Py[e]
Highest(m) == CHOOSE v \in {Py[e] : e \in m} : \A e \in m : Py[e] <= v

\* `raises` and `narrow`.
Raises(python, m) == m # {} /\ Lowest(m) > python.lo
Narrow(python, m) ==
    IF m = {} THEN python
    ELSE [lo |-> Greater(python.lo, Lowest(m)), hi |-> Lesser(python.hi, Highest(m))]

IncludedByMarker(env, m) == env.markers \cap m # {}

\* Leaving a package out leaves out its extras, but not those included.
IncludedByGroup(env, i) ==
    /\ i \notin env.exclude
    /\ i \in Extra /\ Base[i] \in env.exclude => i \in env.include

\* `filter_by_group` gives no environment if an item would be both in and out.
Compatible(env, in, out) == in \cap env.exclude = {} /\ out \cap env.include = {}
-----------------------------------------------------------------------------
(* `Fork`: an environment, with the dependencies of one package in it. *)

Name(d) == Base[ItemOf[d]]

\* The dependencies on a package with a `parent`.
Child == UNION {{d \in Deps[p] : Name(d) = ItemOf[d]} : p \in Normal}

AddDependencies(f, ds) ==
    [f EXCEPT !.deps = @ \cup ds, !.conflicts = @ \cup {ItemOf[d] : d \in ds}]

\* Mutant: the items stay.
RetainItems(f, keep) == [f EXCEPT !.deps = keep]

\* Dependencies that leave take their items with them.
Retain(f, keep) ==
    [f EXCEPT !.deps = keep, !.conflicts = @ \ {ItemOf[d] : d \in f.deps \ keep}]

\* Mutant: dependencies that only some of the environments need leave.
SetEnvWithin(f, m) ==
    Retain([f EXCEPT !.markers = @ \cap m], {d \in f.deps : f.markers \cap m \subseteq Marker[d]})

\* `set_env`, with the environment narrowed to m.
SetEnv(f, m) ==
    Retain([f EXCEPT !.markers = @ \cap m], {d \in f.deps : Marker[d] \cap f.markers \cap m # {}})

\* Mutant: what is not included leaves, excluded or not.
FilterForkIncluded(f, in, out) ==
    LET g == [f EXCEPT !.include = @ \cup in, !.exclude = @ \cup out] IN
    Retain(g, {d \in f.deps : ItemOf[d] \in g.include \/ d \in Child})

\* `Fork::filter`.
FilterFork(f, in, out) ==
    LET g == [f EXCEPT !.include = @ \cup in, !.exclude = @ \cup out] IN
    Retain(g, {d \in f.deps : IncludedByGroup(g, ItemOf[d]) \/ d \in Child})

\* Mutant: the part without the marker is not narrowed.
ForkerPartsWide(f, d, m) == {f, AddDependencies(SetEnv(f, m), {d})}

\* `Forker::fork` on one fork: a part without the marker if there is one, and a
\* part with it.
ForkerParts(f, d, m) ==
    LET parts == {SetEnv(f, Env \ m), SetEnv(f, m)} IN
    {IF IncludedByMarker(g, Marker[d]) THEN AddDependencies(g, {d}) ELSE g :
        g \in {h \in parts : h.markers # {}}}

\* At most one item of set s is possible in fork f, and it does not conflict
\* with a possible item of another set: nothing is left to decide.
Dominated(f, s) ==
    LET possible == {i \in s : IncludedByGroup(f, i)} IN
    /\ \A i, j \in possible : i = j
    /\ \A i \in possible : \A k \in 1..Len(conflicts) :
         conflicts[k] # s /\ i \in conflicts[k] =>
            \A j \in conflicts[k] \ {i} : ~IncludedByGroup(f, j)

\* Mutant: no part without any of the items.
ConflictPartsEach(f, s) ==
    IF f.conflicts \cap s = {} THEN {f}
    ELSE {FilterFork(f, {i}, s \ {i}) : i \in {j \in s : Compatible(f, {j}, s \ {j})}}

\* Mutant: a set is taken for decided.
ConflictPartsDecided(f, s) ==
    IF f.conflicts \cap s = {} THEN {f}
    ELSE {FilterFork(f, {}, {i \in s : ~IncludedByGroup(f, i)})}

\* Mutant: nothing is filtered where nothing is left to decide.
ConflictPartsUnfiltered(f, s) ==
    IF f.conflicts \cap s = {} \/ Dominated(f, s) THEN {f}
    ELSE (IF Compatible(f, {}, s) THEN {FilterFork(f, {}, s)} ELSE {})
         \cup {FilterFork(f, {i}, s \ {i}) : i \in {j \in s : Compatible(f, {j}, s \ {j})}}

\* What `fork` makes of a fork for a conflict set: a part without any of the
\* items and a part for each of them.
ConflictParts(f, s) ==
    IF f.conflicts \cap s = {} THEN {f}
    ELSE IF Dominated(f, s)
      THEN LET out == {i \in s : ~IncludedByGroup(f, i)} IN
           IF Compatible(f, {}, out) THEN {FilterFork(f, {}, out)} ELSE {}
    ELSE (IF Compatible(f, {}, s) THEN {FilterFork(f, {}, s)} ELSE {})
         \cup {FilterFork(f, {i}, s \ {i}) : i \in {j \in s : Compatible(f, {j}, s \ {j})}}
-----------------------------------------------------------------------------
(* The solver. *)

\* The state for an environment the resolver starts with.  Those come from the
\* markers in `environments` or from the forks of a lock file; the include and
\* exclude rules of the latter (a resolution that starts from a lock with
\* conflicts) are left out, and each starts without any.
NewState(m) == [markers |-> m, include |-> {}, exclude |-> {}, python |-> Narrow(Target, m),
                deps |-> {}, added |-> {}]
NewFork(env) == [markers |-> env.markers, include |-> env.include, exclude |-> env.exclude,
                 deps |-> {}, conflicts |-> {}]

\* `with_env`.
WithEnv(s, env) ==
    [s EXCEPT !.markers = env.markers, !.include = env.include, !.exclude = env.exclude,
              !.python = Narrow(@, env.markers)]

\* The locals of `fork` are gone when it returns.
Return ==
    /\ package' = None /\ dep' = None
    /\ names' = {} /\ deps' = {} /\ marker' = {} /\ old' = {} /\ forks' = {} /\ set' = 1

\* `initial_forked_states`.
Init ==
    /\ conflicts \in Declared
    /\ phase = "pick"
    /\ state = NewState({}) /\ forkedStates = {NewState(m) : m \in Initial}
    /\ resolutions = {}
    /\ package = None /\ dep = None
    /\ names = {} /\ deps = {} /\ marker = {} /\ old = {} /\ forks = {} /\ set = 1

\* The next fork state; the fork strategy only decides which.
Pick(s) ==
    /\ phase = "pick" /\ s \in forkedStates
    /\ state' = s /\ forkedStates' = forkedStates \ {s}
    /\ phase' = "solve"
    /\ UNCHANGED <<conflicts, resolutions, call>>

Finish ==
    /\ phase = "pick" /\ forkedStates = {}
    /\ phase' = "end"
    /\ UNCHANGED <<conflicts, state, forkedStates, resolutions, call>>

\* The packages asked for and not decided yet.
Undecided(s) == (({Root} \cup {ItemOf[d] : d \in s.deps}) \cap Package) \ s.added

\* Every package has been decided.
Solved ==
    /\ phase = "solve" /\ Undecided(state) = {}
    /\ resolutions' = resolutions \cup {state}
    /\ state' = NewState({})
    /\ phase' = "pick"
    /\ UNCHANGED <<conflicts, forkedStates, call>>

\* Unit propagation finds that there is no solution.
NoSolution ==
    /\ phase = "solve"
    /\ phase' = "failed"
    /\ UNCHANGED <<conflicts, state, forkedStates, resolutions, call>>

\* Mutant: only those that every environment of the state needs.
RelevantAlways(p) == {d \in Deps[p] : state.markers \subseteq Marker[d]}

\* `is_requirement_applicable`: the dependencies of p that matter to the fork
\* state.  For an extra, the name of the extra is looked up with the package
\* depended on, not with the package that has the extra.
Relevant(p) ==
    {d \in Deps[p] : /\ p \in Extra => IncludedByGroup(state, Twin[<<p, Name(d)>>])
                     /\ Marker[d] \cap Within(state.python) # {}
                     /\ IncludedByMarker(state, Marker[d])}

\* Mutant: the conflict sets are counted from zero.
VisitZero(p) ==
    /\ phase = "solve" /\ p \in Undecided(state)
    /\ package' = p
    /\ names' = {Name(d) : d \in Relevant(p)}
    /\ forks' = {NewFork(state)} /\ set' = 0
    /\ phase' = "names"
    /\ UNCHANGED <<conflicts, state, forkedStates, resolutions, deps, dep, marker, old>>

Visit(p) ==
    /\ phase = "solve" /\ p \in Undecided(state)
    /\ package' = p
    /\ names' = {Name(d) : d \in Relevant(p)}
    /\ forks' = {NewFork(state)} /\ set' = 1
    /\ phase' = "names"
    /\ UNCHANGED <<conflicts, state, forkedStates, resolutions, deps, dep, marker, old>>

\* The dependencies with name n: they do not fork if they have one marker, which
\* does not raise the Python requirement.
ForkName(n) ==
    LET ds == {d \in Relevant(package) : Name(d) = n} IN
    /\ phase = "names" /\ n \in names
    /\ names' = names \ {n}
    /\ IF \A d, e \in ds : Marker[d] = Marker[e] /\ ~Raises(state.python, Marker[d])
         THEN /\ forks' = {AddDependencies(f, {d \in ds : IncludedByMarker(f, Marker[d])}) :
                             f \in forks}
              /\ UNCHANGED <<phase, deps>>
         ELSE deps' = ds /\ phase' = "deps" /\ UNCHANGED forks
    /\ UNCHANGED <<conflicts, state, forkedStates, resolutions, package, dep, marker, old, set>>

\* `ForkingPossibility`: a dependency that is always included goes to every
\* fork, another becomes a `Forker`.
ForkDep(d) ==
    /\ phase = "deps" /\ d \in deps
    /\ deps' = deps \ {d}
    /\ IF Marker[d] = Env
         THEN /\ forks' = {AddDependencies(f, {d}) : f \in forks}
              /\ UNCHANGED <<phase, dep, marker, old>>
         ELSE /\ dep' = d /\ marker' = Marker[d]
              /\ old' = forks /\ forks' = {}
              /\ phase' = "split"
    /\ UNCHANGED <<conflicts, state, forkedStates, resolutions, package, names, set>>

NextName ==
    /\ phase = "deps" /\ deps = {}
    /\ phase' = "names"
    /\ UNCHANGED <<conflicts, state, forkedStates, resolutions, call>>

\* The `Forker` splits one fork, and goes on with what is left of its marker.
\* Parts outside the Python requirement are dropped.
SplitFork(f) ==
    /\ phase = "split" /\ f \in old
    /\ old' = old \ {f}
    /\ IF IncludedByMarker(f, marker)
         THEN /\ forks' = forks \cup
                   {g \in ForkerParts(f, dep, marker) : IncludedByMarker(g, Within(state.python))}
              /\ marker' = marker \ f.markers
         ELSE forks' = forks \cup {f} /\ UNCHANGED marker
    /\ UNCHANGED <<conflicts, phase, state, forkedStates, resolutions, package, names, deps, dep, set>>

NextDep ==
    /\ phase = "split" /\ old = {}
    /\ phase' = "deps" /\ dep' = None /\ marker' = {}
    /\ UNCHANGED <<conflicts, state, forkedStates, resolutions, package, names, deps, old, forks, set>>

NamesDone ==
    /\ phase = "names" /\ names = {}
    /\ phase' = "sets"
    /\ UNCHANGED <<conflicts, state, forkedStates, resolutions, call>>

\* The next conflict set, for each of the forks.
ForkSet ==
    /\ phase = "sets" /\ set <= Len(conflicts)
    /\ forks' = UNION {ConflictParts(f, conflicts[set]) : f \in forks}
    /\ set' = set + 1
    /\ UNCHANGED <<conflicts, phase, state, forkedStates, resolutions, package, names, deps, dep,
                   marker, old>>

AddVersion(s, ds) == [s EXCEPT !.added = @ \cup {package}, !.deps = @ \cup ds]

\* `ForkedDependencies::Unforked`: the state stays as it is, with what
\* dependencies the one fork has, if there is one.
Unforked ==
    /\ phase = "sets" /\ set > Len(conflicts)
    /\ \A f, g \in forks : f = g
    /\ state' = AddVersion(state, UNION {f.deps : f \in forks})
    /\ phase' = "solve" /\ Return
    /\ UNCHANGED <<conflicts, forkedStates, resolutions>>

\* `forks_to_fork_states`.
Forked ==
    /\ phase = "sets" /\ set > Len(conflicts)
    /\ \E f, g \in forks : f # g
    /\ forkedStates' = forkedStates \cup {AddVersion(WithEnv(state, f), f.deps) : f \in forks}
    /\ state' = NewState({})
    /\ phase' = "pick" /\ Return
    /\ UNCHANGED <<conflicts, resolutions>>

Narrowed(s, m) == WithEnv(s, [s EXCEPT !.markers = @ \cap m])

\* `fork_version_by_marker`: a version does not support some platform.
ForkVersion(m) ==
    /\ phase = "solve"
    /\ IncludedByMarker(state, m) /\ IncludedByMarker(state, Env \ m)
    /\ forkedStates' = forkedStates \cup {Narrowed(state, m), Narrowed(state, Env \ m)}
    /\ state' = NewState({})
    /\ phase' = "pick"
    /\ UNCHANGED <<conflicts, resolutions, call>>

\* Mutant: one of the parts may be empty.
ForkPythonAny(v) ==
    /\ phase = "solve"
    /\ forkedStates' = forkedStates \cup
         {Narrowed(state, Within(r)) :
            r \in {q \in {[state.python EXCEPT !.hi = v - 1], [state.python EXCEPT !.lo = v]} :
                     IncludedByMarker(state, Within(q))}}
    /\ state' = NewState({})
    /\ phase' = "pick"
    /\ UNCHANGED <<conflicts, resolutions, call>>

\* `fork_version_by_python_requirement`: a version requires Python v or later.
ForkPython(v) ==
    LET lower == [state.python EXCEPT !.hi = v - 1]
        upper == [state.python EXCEPT !.lo = v] IN
    /\ phase = "solve" /\ lower.lo <= lower.hi /\ upper.lo <= upper.hi
    /\ \E r \in {lower, upper} : IncludedByMarker(state, Within(r))
    /\ forkedStates' = forkedStates \cup
         {Narrowed(state, Within(r)) : r \in {q \in {lower, upper} : IncludedByMarker(state, Within(q))}}
    /\ state' = NewState({})
    /\ phase' = "pick"
    /\ UNCHANGED <<conflicts, resolutions, call>>

Ended == phase \in {"end", "failed"} /\ UNCHANGED vars

Step ==
    \/ Finish \/ Solved \/ NoSolution \/ NextName \/ NextDep \/ NamesDone \/ ForkSet
    \/ Unforked \/ Forked
    \/ \E s \in forkedStates : Pick(s)
    \/ \E p \in Package : Visit(p)
    \/ \E n \in names : ForkName(n)
    \/ \E d \in deps : ForkDep(d)
    \/ \E f \in old : SplitFork(f)
    \/ \E m \in Platforms : ForkVersion(m)
    \/ \E v \in {Py[e] : e \in Env} : ForkPython(v)

Next == Step \/ Ended

Spec     == Init /\ [][Next]_vars
FairSpec == Spec /\ WF_vars(Step)
-----------------------------------------------------------------------------
State ==
    [markers : SUBSET Env, include : SUBSET Item, exclude : SUBSET Item, python : Interval,
     deps : SUBSET Dep, added : SUBSET Package]
Fork ==
    [markers : SUBSET Env, include : SUBSET Item, exclude : SUBSET Item,
     deps : SUBSET Dep, conflicts : SUBSET Item]

TypeOK ==
    /\ conflicts \in Declared /\ phase \in Phase
    /\ state \in State /\ forkedStates \subseteq State /\ resolutions \subseteq State
    /\ package \in Package \cup {None} /\ dep \in Dep \cup {None}
    /\ names \subseteq Item /\ deps \subseteq Dep /\ marker \subseteq Env
    /\ old \subseteq Fork /\ forks \subseteq Fork
    /\ set \in 1..(Len(conflicts) + 1)

\* The parts the space is cut into at the moment.
Parts ==
    forkedStates \cup resolutions \cup
    (IF phase \in {"pick", "end"} THEN {}
     ELSE IF phase \in {"names", "deps", "split", "sets"} THEN old \cup forks
     ELSE {state})

\* No environment is solved twice: two parts differ in their markers or in an
\* item one includes and the other excludes.  The lock file would otherwise
\* hold two versions of a package for one environment.
Disjoint ==
    \A a, b \in Parts : a # b =>
        \/ a.markers \cap b.markers = {}
        \/ a.include \cap b.exclude # {} \/ a.exclude \cap b.include # {}

\* The items that some declared conflict mentions.
Conflicting == UNION {conflicts[k] : k \in 1..Len(conflicts)}

\* A choice of them that the declared conflicts allow.  An extra comes with its
\* package.
Allowed(choice) ==
    /\ \A k \in 1..Len(conflicts) : \A i, j \in choice \cap conflicts[k] : i = j
    /\ \A i \in choice \cap Extra : Base[i] \in Conflicting => Base[i] \in choice

Contains(part, e, choice) ==
    e \in part.markers /\ part.include \subseteq choice /\ part.exclude \cap choice = {}

Supported == (UNION Initial) \cap Within(Target)

\* No environment is forgotten: each supported environment is in some part,
\* whichever items are chosen, until the resolution fails.
Covered ==
    phase # "failed" =>
    \A e \in Supported, choice \in SUBSET Conflicting :
        Allowed(choice) => \E part \in Parts : Contains(part, e, choice)

\* d is needed in environment e if `choice` is chosen.  An extra needs its
\* package.
Needed(d, e, choice) ==
    /\ e \in Marker[d]
    /\ ItemOf[d] \in Conflicting => ItemOf[d] \in choice
    /\ ItemOf[d] \in Extra /\ Name(d) \in Conflicting => Name(d) \in choice

\* No dependency is lost: what a visited package needs in an environment, for a
\* choice of items, is among the dependencies of the fork state that stands
\* for them, however often the state was split before and after.
NothingLost ==
    \A s \in forkedStates \cup resolutions, e \in Supported, choice \in SUBSET Conflicting :
        Allowed(choice) /\ Contains(s, e, choice) =>
            \A p \in s.added : \A d \in Deps[p] : Needed(d, e, choice) => d \in s.deps

\* No item is in two conflict sets, and no extra in one of them is an extra of a
\* package in one of them.
SetsApart ==
    /\ \A k, l \in 1..Len(conflicts) :
         conflicts[k] = conflicts[l] \/ conflicts[k] \cap conflicts[l] = {}
    /\ \A i \in Conflicting \cap Extra : Base[i] \notin Conflicting

Together(c, d) ==
    \E k \in 1..Len(conflicts) :
        {ItemOf[c], ItemOf[d]} \subseteq conflicts[k] /\ ItemOf[c] # ItemOf[d]

\* As long as the conflict sets are apart, no fork state takes the dependencies
\* of two conflicting items, even by way of different packages: its solution
\* could not satisfy both.
ConflictFree ==
    SetsApart =>
    \A s \in forkedStates \cup resolutions :
        \A c, d \in s.deps \ Child : ~Together(c, d)

\* A fork state has a dependency on an item that it leaves out.
KeepsExcluded(s) == \E d \in s.deps \ Child : ItemOf[d] \in s.exclude

\* As long as the conflict sets are apart, no fork state takes the dependencies
\* of an item it leaves out.
ExcludedGone == SetsApart => \A s \in forkedStates \cup resolutions : ~KeepsExcluded(s)

\* The same whatever the conflict sets: `Unforked` keeps the environment of the
\* state, so what the one fork has left out is not recorded, and three pairs in
\* a row are enough to break it (ForkOverlap.cfg).
ExcludedAlwaysGone == \A s \in forkedStates \cup resolutions : ~KeepsExcluded(s)

\* `Fork::conflicts`, kept apart for speed, are the items of the dependencies.
ConflictsCurrent ==
    \A f \in forks \cup old : f.conflicts = {ItemOf[d] : d \in f.deps}

\* The resolution ends: every split makes the parts smaller.
SolveEnds == <>(phase \in {"end", "failed"})
=============================================================================
