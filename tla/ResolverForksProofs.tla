------------------------ MODULE ResolverForksProofs ------------------------
(***************************************************************************)
(* The forks of a universal resolution never overlap, whatever the         *)
(* packages, markers, conflict sets and Python versions.                   *)
(*                                                                         *)
(* Disjoint is not inductive: a state that is split must not have a copy   *)
(* among those that wait or are solved, and the forks of a call of `fork`  *)
(* must lie inside the state they are to replace.                          *)
(*                                                                         *)
(* Nor do the items that a fork keeps apart ever differ from those of its  *)
(* dependencies: the dependencies on one item leave a fork together.       *)
(*                                                                         *)
(* The forks leave nothing out.  A `Forker` drops parts outside the Python *)
(* requirement: that no supported environment goes with them rests on the  *)
(* requirement being narrowed only as far as the markers are (PythonOK).   *)
(* The shortcut for conflict sets with nothing left to decide rests on     *)
(* packages being left out only if they conflict (ExcludedConflict): an    *)
(* allowed choice has the package of each extra it has.                    *)
(*                                                                         *)
(* Nor do they lose a dependency: each fork that stands for an environment *)
(* and a choice has what they need, and a fork that comes back alone       *)
(* stands for all that the state does.                                     *)
(*                                                                         *)
(* Conflict sets that have no item in common do what they are for: a state *)
(* takes no dependencies of two items of a set, nor of one it leaves out.  *)
(***************************************************************************)
EXTENDS ResolverForks, TLAPS

\* The types of the constants, without the rest of the assumption.
LEMMA ConstantTypes ==
    /\ ItemOf \in [Dep -> Item] /\ Marker \in [Dep -> SUBSET Env] /\ Base \in [Item -> Item]
    /\ Deps \in [Package -> SUBSET Dep] /\ Initial \subseteq SUBSET Env
    /\ Declared \subseteq Seq(SUBSET Item) /\ Platforms \subseteq SUBSET Env
  BY ForksAssumption

\* `narrow` gives an interval: a marker has a lowest and a highest version.
LEMMA NarrowType ==
    ASSUME NEW r \in Interval, NEW m \in SUBSET Env
    PROVE  Narrow(r, m) \in Interval
  <1>1. CASE m = {}
    BY <1>1 DEF Narrow
  <1>2. CASE m # {}
    <2>1. PICK e \in m : \A f \in m : Py[e] <= Py[f]
      BY <1>2, ForksAssumption
    <2>2. PICK h \in m : \A f \in m : Py[f] <= Py[h]
      BY <1>2, ForksAssumption
    <2>3. Lowest(m) \in {Py[f] : f \in m}
      BY <2>1 DEF Lowest
    <2>4. Highest(m) \in {Py[f] : f \in m}
      BY <2>2 DEF Highest
    <2>5. Lowest(m) \in Int /\ Highest(m) \in Int
      BY <2>3, <2>4, ForksAssumption
    <2> QED
      BY <1>2, <2>5 DEF Narrow, Greater, Lesser, Interval
  <1> QED BY <1>1, <1>2

\* Constructors of states and forks give states and forks.
LEMMA StateTypes ==
    /\ \A m \in SUBSET Env : NewState(m) \in State
    /\ \A s \in State : NewFork(s) \in Fork
    /\ \A s \in State, f \in Fork : WithEnv(s, f) \in State
    /\ \A s \in State : \A m : Narrowed(s, m) \in State
  <1>1. ASSUME NEW m \in SUBSET Env PROVE NewState(m) \in State
    <2>1. Narrow(Target, m) \in Interval
      BY NarrowType, ForksAssumption
    <2> QED BY <2>1 DEF NewState, State
  <1>2. \A s \in State : NewFork(s) \in Fork
    BY DEF NewFork, State, Fork
  <1>3. ASSUME NEW s \in State, NEW f \in Fork PROVE WithEnv(s, f) \in State
    <2>1. Narrow(s.python, f.markers) \in Interval
      BY NarrowType DEF State, Fork
    <2> QED BY <2>1 DEF WithEnv, State, Fork
  <1>4. ASSUME NEW s \in State, NEW m PROVE Narrowed(s, m) \in State
    <2>1. s.markers \cap m \in SUBSET Env
      BY DEF State
    <2>2. Narrow(s.python, s.markers \cap m) \in Interval
      BY <2>1, NarrowType DEF State
    <2> QED BY <2>1, <2>2 DEF Narrowed, WithEnv, State
  <1> QED BY <1>1, <1>2, <1>3, <1>4

\* So do the operations on forks, ...
LEMMA ForkTypes ==
    ASSUME NEW f \in Fork
    PROVE  /\ \A ds \in SUBSET Dep : AddDependencies(f, ds) \in Fork
           /\ \A m : SetEnv(f, m) \in Fork
           /\ \A in, out \in SUBSET Item : FilterFork(f, in, out) \in Fork
  <1>1. ASSUME NEW ds \in SUBSET Dep PROVE AddDependencies(f, ds) \in Fork
    <2>1. {ItemOf[d] : d \in ds} \subseteq Item
      BY ConstantTypes
    <2> QED BY <2>1 DEF AddDependencies, Fork
  <1>2. ASSUME NEW g \in Fork, NEW keep \in SUBSET Dep PROVE Retain(g, keep) \in Fork
    BY ConstantTypes DEF Retain, Fork
  <1>3. ASSUME NEW m PROVE SetEnv(f, m) \in Fork
    <2>1. [f EXCEPT !.markers = @ \cap m] \in Fork
      BY DEF Fork
    <2> QED BY <2>1, <1>2 DEF SetEnv, Fork
  <1>4. ASSUME NEW in \in SUBSET Item, NEW out \in SUBSET Item PROVE FilterFork(f, in, out) \in Fork
    <2>1. [f EXCEPT !.include = @ \cup in, !.exclude = @ \cup out] \in Fork
      BY DEF Fork
    <2> QED BY <2>1, <1>2 DEF FilterFork, Fork
  <1> QED BY <1>1, <1>3, <1>4

\* ... the splits by marker and by conflict set, ...
LEMMA PartTypes ==
    ASSUME NEW f \in Fork
    PROVE  /\ \A d \in Dep, m \in SUBSET Env : ForkerParts(f, d, m) \subseteq Fork
           /\ \A s \in SUBSET Item : ConflictParts(f, s) \subseteq Fork
  <1>1. ASSUME NEW d \in Dep, NEW m \in SUBSET Env PROVE ForkerParts(f, d, m) \subseteq Fork
    <2>1. SetEnv(f, Env \ m) \in Fork /\ SetEnv(f, m) \in Fork
      BY ForkTypes
    <2>2. \A g \in Fork : AddDependencies(g, {d}) \in Fork
      BY ForkTypes
    <2> QED BY <2>1, <2>2 DEF ForkerParts
  <1>2. ASSUME NEW s \in SUBSET Item PROVE ConflictParts(f, s) \subseteq Fork
    <2>1. \A in, out \in SUBSET s : FilterFork(f, in, out) \in Fork
      BY ForkTypes
    <2> QED BY <2>1 DEF ConflictParts
  <1> QED BY <1>1, <1>2

\* ... and the addition of a version.
LEMMA AddVersionType ==
    ASSUME NEW s \in State, NEW ds \in SUBSET Dep, package \in Package
    PROVE  AddVersion(s, ds) \in State
  BY DEF AddVersion, State

\* A dependency has a name.
LEMMA RelevantTypes ==
    ASSUME NEW p \in Package
    PROVE  Relevant(p) \subseteq Dep /\ \A d \in Relevant(p) : Name(d) \in Item
  BY ConstantTypes DEF Relevant, Name

\* The solver is in a call of `fork` for a package.
InFork == phase \in {"names", "deps", "split", "sets"}
InCall == (InFork => package \in Package) /\ (phase = "split" => dep \in Dep)
TInv == TypeOK /\ InCall

\* Every step keeps the types.
LEMMA TypeStep == TInv /\ [Next]_vars => TInv'
  <1> SUFFICES ASSUME TInv, [Next]_vars PROVE TInv'
    OBVIOUS
  <1> USE DEF TInv, TypeOK, InCall, InFork, Phase
  <1>a. NewState({}) \in State
    BY StateTypes
  <1>b. conflicts \in Seq(SUBSET Item) /\ Len(conflicts) \in Nat
    BY ConstantTypes
  <1>1. CASE Finish \/ NoSolution \/ NextName \/ NextDep \/ NamesDone \/ Ended
    BY <1>1 DEF Finish, NoSolution, NextName, NextDep, NamesDone, Ended, call, vars
  <1>2. CASE Solved
    BY <1>2, <1>a DEF Solved, call
  <1>3. CASE ForkSet
    <2>1. conflicts[set] \in SUBSET Item
      BY <1>3, <1>b DEF ForkSet
    <2>2. \A f \in forks : ConflictParts(f, conflicts[set]) \subseteq Fork
      BY <2>1, PartTypes
    <2>3. forks' \subseteq Fork
      BY <1>3, <2>2 DEF ForkSet
    <2> QED BY <1>3, <1>b, <2>3 DEF ForkSet
  <1>4. CASE Unforked
    <2>1. UNION {f.deps : f \in forks} \in SUBSET Dep
      BY DEF Fork
    <2>2. state' \in State
      BY <1>4, <2>1, AddVersionType DEF Unforked
    <2> QED BY <1>4, <1>b, <2>2 DEF Unforked, Return
  <1>5. CASE Forked
    <2>1. \A f \in forks : AddVersion(WithEnv(state, f), f.deps) \in State
      <3> TAKE f \in forks
      <3>1. WithEnv(state, f) \in State /\ f.deps \in SUBSET Dep
        BY StateTypes DEF Fork
      <3> QED BY <1>5, <3>1, AddVersionType DEF Forked
    <2> QED BY <1>5, <1>a, <1>b, <2>1 DEF Forked, Return
  <1>6. ASSUME NEW s \in forkedStates, Pick(s) PROVE TInv'
    BY <1>6 DEF Pick, call
  <1>7. ASSUME NEW p \in Package, Visit(p) PROVE TInv'
    <2>1. names' \subseteq Item
      BY <1>7, RelevantTypes DEF Visit
    <2>2. forks' \subseteq Fork
      BY <1>7, StateTypes DEF Visit
    <2> QED BY <1>7, <1>b, <2>1, <2>2 DEF Visit
  <1>8. ASSUME NEW n \in names, ForkName(n) PROVE TInv'
    <2> DEFINE ds == {d \in Relevant(package) : Name(d) = n}
    <2>1. ds \subseteq Dep
      BY <1>8, RelevantTypes DEF ForkName
    <2>2. \A f \in forks : AddDependencies(f, {d \in ds : IncludedByMarker(f, Marker[d])}) \in Fork
      BY <2>1, ForkTypes
    <2> DEFINE grown == {AddDependencies(f, {d \in ds : IncludedByMarker(f, Marker[d])}) : f \in forks}
    <2>3. /\ forks' = grown \/ forks' = forks
          /\ deps' = ds \/ deps' = deps
      BY <1>8 DEF ForkName
    <2>5. grown \subseteq Fork
      BY <2>2
    <2>6. forks' \subseteq Fork /\ deps' \subseteq Dep
      <3> HIDE DEF grown, ds
      <3> QED BY <2>1, <2>3, <2>5
    <2>4. phase' \in {"names", "deps"}
      BY <1>8 DEF ForkName
    <2> QED BY <1>8, <2>4, <2>6 DEF ForkName
  <1>9. ASSUME NEW d \in deps, ForkDep(d) PROVE TInv'
    <2>1. \A f \in forks : AddDependencies(f, {d}) \in Fork
      BY ForkTypes
    <2>2. Marker[d] \subseteq Env
      BY ConstantTypes
    <2> DEFINE grown == {AddDependencies(f, {d}) : f \in forks}
    <2>3. grown \subseteq Fork
      BY <2>1
    <2>4. /\ forks' = grown \/ forks' = {}
          /\ old' = old \/ old' = forks
      BY <1>9 DEF ForkDep
    <2>5. forks' \subseteq Fork /\ old' \subseteq Fork
      <3> HIDE DEF grown
      <3> QED BY <2>3, <2>4
    <2> QED BY <1>9, <2>2, <2>5 DEF ForkDep
  <1>10. ASSUME NEW f \in old, SplitFork(f) PROVE TInv'
    <2>1. ForkerParts(f, dep, marker) \subseteq Fork
      BY <1>10, PartTypes DEF SplitFork
    <2> QED BY <1>10, <2>1 DEF SplitFork
  <1>11. ASSUME NEW m \in Platforms, ForkVersion(m) PROVE TInv'
    <2>1. Narrowed(state, m) \in State /\ Narrowed(state, Env \ m) \in State
      BY StateTypes
    <2> QED BY <1>11, <1>a, <2>1 DEF ForkVersion, call
  <1>12. ASSUME NEW v \in {Py[e] : e \in Env}, ForkPython(v) PROVE TInv'
    <2>1. \A r : Narrowed(state, Within(r)) \in State
      BY StateTypes
    <2> QED BY <1>12, <1>a, <2>1 DEF ForkPython, call
  <1>13. CASE UNCHANGED vars
    BY <1>13 DEF vars, call
  <1> QED
    BY <1>1, <1>2, <1>3, <1>4, <1>5, <1>6, <1>7, <1>8, <1>9, <1>10, <1>11, <1>12, <1>13
       DEF Next, Step

\* They hold at the start.
LEMMA TypeInit == Init => TInv
  BY StateTypes, ConstantTypes DEF Init, TInv, TypeOK, InCall, InFork, Phase

\* The states, forks and locals of the solver are well typed: `set` never runs past
\* the conflict sets, and markers stay sets of environments.
THEOREM ForksTypeCorrect == Spec => []TypeOK
  BY TypeInit, TypeStep, PTL DEF Spec, TInv
-----------------------------------------------------------------------------
(* Regions: what a state or a fork stands for. *)

\* Nothing belongs to both.
Apart(a, b) ==
    \/ a.markers \cap b.markers = {}
    \/ a.include \cap b.exclude # {} \/ a.exclude \cap b.include # {}

\* All that belongs to f belongs to s.
Inside(f, s) ==
    f.markers \subseteq s.markers /\ s.include \subseteq f.include /\ s.exclude \subseteq f.exclude

PairsApart(S) == \A a, b \in S : a # b => Apart(a, b)
AllApart(S, T) == \A a \in S, b \in T : Apart(a, b)

\* What lies inside of parts that are apart is apart.
LEMMA ApartInside ==
    ASSUME NEW a, NEW b, NEW f, NEW g, Apart(a, b), Inside(f, a), Inside(g, b)
    PROVE  Apart(f, g)
  BY DEF Apart, Inside

\* Apart is symmetric, ...
LEMMA ApartSymmetric == \A a, b : Apart(a, b) => Apart(b, a)
  BY DEF Apart

\* ... and Inside a preorder.
LEMMA InsideSelf == \A a : Inside(a, a)
  BY DEF Inside

\* Inside is transitive.
LEMMA InsideTransitive == \A a, b, c : Inside(a, b) /\ Inside(b, c) => Inside(a, c)
  BY DEF Inside

\* Where the operations on forks leave a fork.
LEMMA ForkRegions ==
    ASSUME NEW f \in Fork
    PROVE  /\ \A ds : Inside(AddDependencies(f, ds), f)
           /\ \A m : Inside(SetEnv(f, m), f) /\ SetEnv(f, m).markers \subseteq m
           /\ \A in, out \in SUBSET Item : LET g == FilterFork(f, in, out) IN
                Inside(g, f) /\ in \subseteq g.include /\ out \subseteq g.exclude
  <1>1. ASSUME NEW ds PROVE Inside(AddDependencies(f, ds), f)
    BY DEF AddDependencies, Fork, Inside
  <1>2. ASSUME NEW g \in Fork, NEW keep
        PROVE /\ Retain(g, keep).markers = g.markers
              /\ Retain(g, keep).include = g.include
              /\ Retain(g, keep).exclude = g.exclude
    BY DEF Retain, Fork
  <1>3. ASSUME NEW m PROVE Inside(SetEnv(f, m), f) /\ SetEnv(f, m).markers \subseteq m
    <2> DEFINE g == [f EXCEPT !.markers = @ \cap m]
    <2>1. g \in Fork /\ g.markers = f.markers \cap m /\ g.include = f.include /\ g.exclude = f.exclude
      BY DEF Fork
    <2> QED BY <2>1, <1>2 DEF SetEnv, Inside
  <1>4. ASSUME NEW in \in SUBSET Item, NEW out \in SUBSET Item
        PROVE  LET g == FilterFork(f, in, out) IN
                 Inside(g, f) /\ in \subseteq g.include /\ out \subseteq g.exclude
    <2> DEFINE g == [f EXCEPT !.include = @ \cup in, !.exclude = @ \cup out]
    <2>1. /\ g \in Fork /\ g.markers = f.markers
          /\ g.include = f.include \cup in /\ g.exclude = f.exclude \cup out
      BY DEF Fork
    <2> QED BY <2>1, <1>2 DEF FilterFork, Inside
  <1> QED BY <1>1, <1>3, <1>4

\* Where the operations on states leave a state.
LEMMA StateRegions ==
    ASSUME NEW s \in State
    PROVE  /\ Inside(NewFork(s), s)
           /\ \A f \in Fork : \A ds : Inside(AddVersion(WithEnv(s, f), ds), f)
           /\ \A ds : Inside(AddVersion(s, ds), s)
           /\ \A m : Inside(Narrowed(s, m), s) /\ Narrowed(s, m).markers \subseteq m
  <1>1. Inside(NewFork(s), s)
    BY DEF NewFork, Inside
  <1>2. ASSUME NEW t \in State, NEW ds PROVE Inside(AddVersion(t, ds), t)
    BY DEF AddVersion, State, Inside
  <1>3. ASSUME NEW f \in Fork PROVE Inside(WithEnv(s, f), f)
    BY DEF WithEnv, State, Inside
  <1>4. ASSUME NEW m PROVE Inside(Narrowed(s, m), s) /\ Narrowed(s, m).markers \subseteq m
    <2> DEFINE t == [s EXCEPT !.markers = @ \cap m]
    <2>1. t.markers = s.markers \cap m /\ t.include = s.include /\ t.exclude = s.exclude
      BY DEF State
    <2> HIDE DEF t
    <2>2. /\ WithEnv(s, t).markers = t.markers
          /\ WithEnv(s, t).include = t.include /\ WithEnv(s, t).exclude = t.exclude
      BY DEF WithEnv, State
    <2>3. Narrowed(s, m) = WithEnv(s, t)
      BY DEF Narrowed, t
    <2> QED BY <2>1, <2>2, <2>3 DEF Inside
  <1>5. ASSUME NEW f \in Fork, NEW ds PROVE Inside(AddVersion(WithEnv(s, f), ds), f)
    BY <1>2, <1>3, StateTypes, InsideTransitive
  <1> QED BY <1>1, <1>2, <1>4, <1>5

\* The parts of a fork lie inside it, apart from each other.
LEMMA ForkerPartsApart ==
    ASSUME NEW f \in Fork, NEW d \in Dep, NEW m \in SUBSET Env
    PROVE  PairsApart(ForkerParts(f, d, m)) /\ \A g \in ForkerParts(f, d, m) : Inside(g, f)
  <1> DEFINE out == SetEnv(f, Env \ m)
             in  == SetEnv(f, m)
             With(g) == IF IncludedByMarker(g, Marker[d]) THEN AddDependencies(g, {d}) ELSE g
  <1>1. out \in Fork /\ in \in Fork
    BY ForkTypes
  <1>2. Inside(out, f) /\ Inside(in, f) /\ Apart(out, in)
    BY ForkRegions DEF Apart
  <1>3. ForkerParts(f, d, m) \subseteq {With(out), With(in)}
    BY DEF ForkerParts
  <1> HIDE DEF out, in
  <1>4. \A g \in Fork : Inside(With(g), g)
    BY ForkRegions, InsideSelf
  <1>5. Apart(With(out), With(in)) /\ Apart(With(in), With(out))
    BY <1>1, <1>2, <1>4, ApartInside, ApartSymmetric
  <1>6. Inside(With(out), f) /\ Inside(With(in), f)
    BY <1>1, <1>2, <1>4, InsideTransitive
  <1> HIDE DEF With
  <1> QED BY <1>3, <1>5, <1>6 DEF PairsApart

\* So do the parts for a conflict set: one item is in and the others are out.
LEMMA ConflictPartsApart ==
    ASSUME NEW f \in Fork, NEW s \in SUBSET Item
    PROVE  PairsApart(ConflictParts(f, s)) /\ \A g \in ConflictParts(f, s) : Inside(g, f)
  <1> DEFINE rest == FilterFork(f, {}, s)
             Only(i) == FilterFork(f, {i}, s \ {i})
             shut == {i \in s : ~IncludedByGroup(f, i)}
  <1>1. \/ ConflictParts(f, s) \subseteq {f}
        \/ ConflictParts(f, s) \subseteq {FilterFork(f, {}, shut)}
        \/ ConflictParts(f, s) \subseteq {rest} \cup {Only(i) : i \in s}
    BY DEF ConflictParts
  <1>2. Inside(f, f) /\ Inside(FilterFork(f, {}, shut), f)
    BY ForkRegions, InsideSelf
  <1>3. Inside(rest, f) /\ s \subseteq rest.exclude
    BY ForkRegions
  <1>4. ASSUME NEW i \in s
        PROVE  Inside(Only(i), f) /\ i \in Only(i).include /\ s \ {i} \subseteq Only(i).exclude
    BY ForkRegions
  <1> HIDE DEF rest, Only, shut
  <1>5. \A i \in s : Apart(rest, Only(i)) /\ Apart(Only(i), rest)
    BY <1>3, <1>4 DEF Apart
  <1>6. \A i, j \in s : i # j => Apart(Only(i), Only(j))
    BY <1>4 DEF Apart
  <1>7. CASE ConflictParts(f, s) \subseteq {f} \/ ConflictParts(f, s) \subseteq {FilterFork(f, {}, shut)}
    BY <1>2, <1>7 DEF PairsApart
  <1>8. CASE ConflictParts(f, s) \subseteq {rest} \cup {Only(i) : i \in s}
    BY <1>3, <1>4, <1>5, <1>6, <1>8 DEF PairsApart
  <1> QED BY <1>1, <1>7, <1>8

\* The states waiting and the states solved.
StatesApart ==
    PairsApart(forkedStates) /\ PairsApart(resolutions) /\ AllApart(forkedStates, resolutions)

\* The state being solved, of which no copy waits or is solved.
CurrentApart ==
    phase \notin {"pick", "end"} => AllApart({state}, forkedStates \cup resolutions)

\* The forks of a call of `fork`, those a `Forker` has yet to look at included.
ForksApart ==
    /\ phase # "split" => old = {}
    /\ InFork =>
         /\ PairsApart(forks) /\ PairsApart(old) /\ AllApart(old, forks)
         /\ \A f \in old \cup forks : Inside(f, state)

DInv == TInv /\ StatesApart /\ CurrentApart /\ ForksApart

\* The inductive invariant implies what the runs check.
LEMMA DisjointFromDInv == DInv => Disjoint
  <1> SUFFICES ASSUME DInv, NEW a \in Parts, NEW b \in Parts, a # b PROVE Apart(a, b)
    BY DEF Disjoint, Apart
  <1> USE DEF DInv, StatesApart, CurrentApart, ForksApart, InFork, PairsApart, AllApart
  <1>1. CASE a \in forkedStates \cup resolutions /\ b \in forkedStates \cup resolutions
    BY <1>1, ApartSymmetric
  <1>2. CASE phase \in {"pick", "end"}
    BY <1>1, <1>2 DEF Parts
  <1>3. CASE phase \in {"solve", "failed"}
    BY <1>1, <1>3, ApartSymmetric DEF Parts
  <1>4. CASE InFork
    <2>1. \A f \in old \cup forks, s \in forkedStates \cup resolutions : Apart(f, s)
      BY <1>4, ApartInside, InsideSelf
    <2>2. Parts = forkedStates \cup resolutions \cup (old \cup forks)
      BY <1>4 DEF Parts
    <2> QED BY <1>1, <1>4, <2>1, <2>2, ApartSymmetric
  <1> QED BY <1>2, <1>3, <1>4 DEF TInv, TypeOK, Phase

\* The state being solved is replaced by parts of it.
LEMMA SplitState ==
    ASSUME StatesApart, AllApart({state}, forkedStates \cup resolutions),
           NEW S, PairsApart(S), \A s \in S : Inside(s, state)
    PROVE  PairsApart(forkedStates \cup S) /\ AllApart(forkedStates \cup S, resolutions)
  <1>1. \A s \in S, t \in forkedStates \cup resolutions : Apart(s, t) /\ Apart(t, s)
    BY ApartInside, InsideSelf, ApartSymmetric DEF AllApart
  <1> QED BY <1>1 DEF StatesApart, PairsApart, AllApart

\* The forks of a call are replaced by parts of them: Split[f] are those of f.
LEMMA SplitForks ==
    ASSUME NEW S, PairsApart(S), NEW Split,
           \A f \in S : PairsApart(Split[f]) /\ \A g \in Split[f] : Inside(g, f)
    PROVE  PairsApart(UNION {Split[f] : f \in S})
  <1> SUFFICES ASSUME NEW f \in S, NEW g \in S, NEW a \in Split[f], NEW b \in Split[g], a # b
               PROVE  Apart(a, b)
    BY DEF PairsApart
  <1>1. CASE f = g
    BY <1>1 DEF PairsApart
  <1>2. CASE f # g
    BY <1>2, ApartInside DEF PairsApart
  <1> QED BY <1>1, <1>2

\* Every step preserves the inductive invariant.
LEMMA DisjointStep == DInv /\ [Next]_vars => DInv'
  <1> SUFFICES ASSUME DInv, [Next]_vars PROVE (StatesApart /\ CurrentApart /\ ForksApart)'
    BY TypeStep DEF DInv
  <1>t. TInv
    BY DEF DInv
  <1> USE DEF InFork
  <1>1. CASE Finish \/ NoSolution \/ NextName \/ NextDep \/ NamesDone \/ Ended \/ UNCHANGED vars
    BY <1>1 DEF Finish, NoSolution, NextName, NextDep, NamesDone, Ended, call, vars,
                DInv, StatesApart, CurrentApart, ForksApart
  <1>2. CASE Solved
    <2>1. AllApart({state}, forkedStates \cup resolutions)
      BY <1>2 DEF Solved, DInv, CurrentApart
    <2>2. PairsApart(resolutions \cup {state}) /\ AllApart(forkedStates, resolutions \cup {state})
      BY <2>1, ApartSymmetric DEF DInv, StatesApart, PairsApart, AllApart
    <2> QED BY <1>2, <2>2 DEF Solved, call, DInv, StatesApart, CurrentApart, ForksApart
  <1>3. CASE ForkSet
    <2> DEFINE Split == [f \in forks |-> ConflictParts(f, conflicts[set])]
    <2>1. conflicts[set] \in SUBSET Item
      BY <1>3, <1>t, ConstantTypes DEF ForkSet, TInv, TypeOK
    <2>2. forks \subseteq Fork
      BY <1>t DEF TInv, TypeOK
    <2>3. \A f \in forks : PairsApart(Split[f]) /\ \A g \in Split[f] : Inside(g, f)
      BY <2>1, <2>2, ConflictPartsApart
    <2>4. forks' = UNION {Split[f] : f \in forks}
      BY <1>3 DEF ForkSet
    <2> HIDE DEF Split
    <2>5. /\ PairsApart(forks) /\ PairsApart(old) /\ AllApart(old, forks)
          /\ \A f \in old \cup forks : Inside(f, state)
      BY <1>3 DEF ForkSet, DInv, ForksApart
    <2>6. PairsApart(forks')
      BY <2>3, <2>4, <2>5, SplitForks
    <2>7. \A g \in forks' : \E f \in forks : Inside(g, f)
      BY <2>3, <2>4
    <2>8. AllApart(old, forks') /\ \A g \in forks' : Inside(g, state)
      BY <2>5, <2>7, ApartInside, InsideSelf, InsideTransitive DEF AllApart
    <2>9. ForksApart'
      BY <1>3, <2>5, <2>6, <2>8 DEF ForkSet, DInv, ForksApart
    <2> QED BY <1>3, <2>9 DEF ForkSet, DInv, StatesApart, CurrentApart
  <1>4. CASE Unforked
    <2>1. \E ds : state' = AddVersion(state, ds)
      BY <1>4 DEF Unforked
    <2>2. Inside(state', state)
      BY <1>t, <2>1, StateRegions DEF TInv, TypeOK
    <2>3. AllApart({state}, forkedStates \cup resolutions)
      BY <1>4 DEF Unforked, DInv, CurrentApart
    <2>4. AllApart({state'}, forkedStates \cup resolutions)
      BY <2>2, <2>3, ApartInside, InsideSelf DEF AllApart
    <2> QED BY <1>4, <2>4 DEF Unforked, Return, DInv, StatesApart, CurrentApart, ForksApart
  <1>5. CASE Forked
    <2> DEFINE S == {AddVersion(WithEnv(state, f), f.deps) : f \in forks}
    <2>1. \A f \in forks : Inside(AddVersion(WithEnv(state, f), f.deps), f)
      BY <1>t, StateRegions DEF TInv, TypeOK
    <2>2. PairsApart(forks) /\ \A f \in forks : Inside(f, state)
      BY <1>5 DEF Forked, DInv, ForksApart
    <2>3. PairsApart(S)
      BY <2>1, <2>2, ApartInside DEF PairsApart
    <2>4. \A s \in S : Inside(s, state)
      BY <2>1, <2>2, InsideTransitive
    <2>5. /\ forkedStates' = forkedStates \cup S /\ resolutions' = resolutions
          /\ phase' = "pick" /\ old' = {}
      BY <1>5 DEF Forked, Return
    <2> HIDE DEF S
    <2>6. StatesApart /\ AllApart({state}, forkedStates \cup resolutions)
      BY <1>5 DEF Forked, DInv, CurrentApart
    <2>7. StatesApart'
      BY <2>3, <2>4, <2>5, <2>6, SplitState DEF StatesApart
    <2> QED BY <2>5, <2>7 DEF CurrentApart, ForksApart
  <1>6. ASSUME NEW s \in forkedStates, Pick(s)
        PROVE  (StatesApart /\ CurrentApart /\ ForksApart)'
    <2>1. StatesApart'
      BY <1>6 DEF Pick, DInv, StatesApart, PairsApart, AllApart
    <2>2. AllApart({s}, (forkedStates \ {s}) \cup resolutions)
      BY DEF DInv, StatesApart, PairsApart, AllApart
    <2> QED BY <1>6, <2>1, <2>2 DEF Pick, call, DInv, CurrentApart, ForksApart
  <1>7. ASSUME NEW p \in Package, Visit(p)
        PROVE  (StatesApart /\ CurrentApart /\ ForksApart)'
    <2>1. forks' = {NewFork(state)} /\ old' = {} /\ state' = state
      BY <1>7 DEF Visit, DInv, ForksApart
    <2>2. Inside(NewFork(state), state)
      BY <1>t, StateRegions DEF TInv, TypeOK
    <2>3. ForksApart'
      BY <2>1, <2>2 DEF ForksApart, PairsApart, AllApart
    <2> QED BY <1>7, <2>3 DEF Visit, DInv, StatesApart, CurrentApart
  <1>8. ASSUME NEW n \in names, ForkName(n)
        PROVE  (StatesApart /\ CurrentApart /\ ForksApart)'
    <2> DEFINE ds == {d \in Relevant(package) : Name(d) = n}
               Grow == [f \in forks |-> {d \in ds : IncludedByMarker(f, Marker[d])}]
               grown == {AddDependencies(f, Grow[f]) : f \in forks}
    <2>1. forks' = grown \/ forks' = forks
      BY <1>8 DEF ForkName
    <2>2. forks \in SUBSET Fork
      BY <1>t DEF TInv, TypeOK
    <2>3. PairsApart(forks) /\ old = {} /\ \A f \in forks : Inside(f, state)
      BY <1>8 DEF ForkName, DInv, ForksApart
    <2> HIDE DEF Grow
    <2>4. PairsApart(grown) /\ \A g \in grown : \E f \in forks : Inside(g, f)
      <3>1. \A f \in forks : Inside(AddDependencies(f, Grow[f]), f)
        BY <2>2, ForkRegions
      <3> QED BY <2>3, <3>1, ApartInside DEF PairsApart
    <2> HIDE DEF grown
    <2>5. PairsApart(forks') /\ \A f \in forks' : Inside(f, state)
      BY <2>1, <2>3, <2>4, InsideTransitive
    <2>6. ForksApart'
      BY <1>8, <2>3, <2>5 DEF ForkName, ForksApart, PairsApart, AllApart
    <2> QED BY <1>8, <2>6 DEF ForkName, DInv, StatesApart, CurrentApart
  <1>9. ASSUME NEW d \in deps, ForkDep(d)
        PROVE  (StatesApart /\ CurrentApart /\ ForksApart)'
    <2> DEFINE Grow == [f \in forks |-> {d}]
               grown == {AddDependencies(f, Grow[f]) : f \in forks}
    <2>1. \/ forks' = grown /\ old' = old /\ phase' = phase
          \/ forks' = {} /\ old' = forks /\ phase' = "split"
      BY <1>9 DEF ForkDep
    <2>2. forks \in SUBSET Fork
      BY <1>t DEF TInv, TypeOK
    <2>3. phase = "deps" /\ PairsApart(forks) /\ old = {} /\ \A f \in forks : Inside(f, state)
      BY <1>9 DEF ForkDep, DInv, ForksApart
    <2> HIDE DEF Grow
    <2>4. PairsApart(grown) /\ \A g \in grown : \E f \in forks : Inside(g, f)
      <3>1. \A f \in forks : Inside(AddDependencies(f, Grow[f]), f)
        BY <2>2, ForkRegions
      <3> QED BY <2>3, <3>1, ApartInside DEF PairsApart
    <2> HIDE DEF grown
    <2>5. \A g \in grown : Inside(g, state)
      BY <2>3, <2>4, InsideTransitive
    <2>6. state' = state
      BY <1>9 DEF ForkDep
    <2>7. ForksApart'
      BY <2>1, <2>3, <2>4, <2>5, <2>6 DEF ForksApart, PairsApart, AllApart
    <2>8. phase' # "pick" /\ phase' # "end" /\ CurrentApart'
      BY <1>9, <2>1, <2>3 DEF ForkDep, DInv, CurrentApart
    <2> QED BY <1>9, <2>7, <2>8 DEF ForkDep, DInv, StatesApart
  <1>10. ASSUME NEW f \in old, SplitFork(f)
         PROVE  (StatesApart /\ CurrentApart /\ ForksApart)'
    <2>1. f \in Fork /\ dep \in Dep /\ marker \in SUBSET Env
      BY <1>10, <1>t DEF SplitFork, TInv, TypeOK, InCall
    <2> DEFINE S == ForkerParts(f, dep, marker)
    <2>2. PairsApart(S) /\ \A g \in S : Inside(g, f)
      BY <2>1, ForkerPartsApart
    <2> HIDE DEF S
    <2>3. \E T : forks' = forks \cup T /\ PairsApart(T) /\ \A g \in T : Inside(g, f)
      <3>1. CASE IncludedByMarker(f, marker)
        <4> WITNESS {g \in S : IncludedByMarker(g, Within(state.python))}
        <4> QED BY <1>10, <2>2, <3>1 DEF SplitFork, PairsApart, S
      <3>2. CASE ~IncludedByMarker(f, marker)
        <4> WITNESS {f}
        <4> QED BY <1>10, <3>2, InsideSelf DEF SplitFork, PairsApart
      <3> QED BY <3>1, <3>2
    <2>4. PICK T : forks' = forks \cup T /\ PairsApart(T) /\ \A g \in T : Inside(g, f)
      BY <2>3
    <2>5. /\ phase = "split" /\ PairsApart(forks) /\ PairsApart(old) /\ AllApart(old, forks)
          /\ \A g \in old \cup forks : Inside(g, state)
      BY <1>10 DEF SplitFork, DInv, ForksApart
    <2>6. old' = old \ {f} /\ state' = state /\ phase' = phase
      BY <1>10 DEF SplitFork
    <2>7. \A g \in T, h \in forks \cup old' : Apart(g, h) /\ Apart(h, g)
      BY <2>4, <2>5, <2>6, ApartInside, InsideSelf, ApartSymmetric DEF PairsApart, AllApart
    <2>8. PairsApart(forks') /\ PairsApart(old') /\ AllApart(old', forks')
      BY <2>4, <2>5, <2>6, <2>7 DEF PairsApart, AllApart
    <2>9. \A g \in old' \cup forks' : Inside(g, state)
      BY <2>4, <2>5, <2>6, InsideTransitive
    <2>10. ForksApart'
      BY <2>5, <2>6, <2>8, <2>9 DEF ForksApart
    <2> QED BY <1>10, <2>6, <2>10 DEF SplitFork, DInv, StatesApart, CurrentApart
  <1>11. ASSUME NEW S, PairsApart(S), \A s \in S : Inside(s, state),
                phase = "solve", forkedStates' = forkedStates \cup S,
                resolutions' = resolutions, phase' = "pick", UNCHANGED call
         PROVE  (StatesApart /\ CurrentApart /\ ForksApart)'
    <2>1. StatesApart /\ AllApart({state}, forkedStates \cup resolutions)
      BY <1>11 DEF DInv, CurrentApart
    <2>2. StatesApart'
      BY <1>11, <2>1, SplitState DEF StatesApart
    <2> QED BY <1>11, <2>2 DEF call, DInv, CurrentApart, ForksApart
  <1>12. ASSUME NEW m \in Platforms, ForkVersion(m)
         PROVE  (StatesApart /\ CurrentApart /\ ForksApart)'
    <2> DEFINE S == {Narrowed(state, m), Narrowed(state, Env \ m)}
    <2>1. /\ Inside(Narrowed(state, m), state) /\ Narrowed(state, m).markers \subseteq m
          /\ Inside(Narrowed(state, Env \ m), state)
          /\ Narrowed(state, Env \ m).markers \subseteq Env \ m
      BY <1>t, StateRegions DEF TInv, TypeOK
    <2>2. PairsApart(S) /\ \A s \in S : Inside(s, state)
      BY <2>1 DEF PairsApart, Apart
    <2> HIDE DEF S
    <2>3. phase = "solve" /\ forkedStates' = forkedStates \cup S
      BY <1>12 DEF ForkVersion, S
    <2> QED BY <1>11, <1>12, <2>2, <2>3 DEF ForkVersion
  <1>13. ASSUME NEW v \in {Py[e] : e \in Env}, ForkPython(v)
         PROVE  (StatesApart /\ CurrentApart /\ ForksApart)'
    <2> DEFINE lower == [state.python EXCEPT !.hi = v - 1]
               upper == [state.python EXCEPT !.lo = v]
               S == {Narrowed(state, Within(r)) :
                       r \in {q \in {lower, upper} : IncludedByMarker(state, Within(q))}}
    <2>1. v \in Int /\ Py \in [Env -> Int] /\ state.python \in Interval
      BY <1>t, ForksAssumption DEF TInv, TypeOK, State
    <2>2. Within(lower) \cap Within(upper) = {}
      BY <2>1 DEF Within, Interval
    <2>3. phase = "solve" /\ forkedStates' = forkedStates \cup S
      BY <1>13 DEF ForkPython
    <2> HIDE DEF lower, upper
    <2>4. \A r : Inside(Narrowed(state, Within(r)), state) /\ Narrowed(state, Within(r)).markers \subseteq Within(r)
      BY <1>t, StateRegions DEF TInv, TypeOK
    <2>5. /\ Apart(Narrowed(state, Within(lower)), Narrowed(state, Within(upper)))
          /\ Apart(Narrowed(state, Within(upper)), Narrowed(state, Within(lower)))
      BY <2>2, <2>4 DEF Apart
    <2>6. PairsApart(S) /\ \A s \in S : Inside(s, state)
      BY <2>4, <2>5 DEF PairsApart
    <2> HIDE DEF S
    <2> QED BY <1>11, <1>13, <2>3, <2>6 DEF ForkPython
  <1> QED
    BY <1>1, <1>2, <1>3, <1>4, <1>5, <1>6, <1>7, <1>8, <1>9, <1>10, <1>12, <1>13 DEF Next, Step

\* The initial forks are disjoint, by assumption.
LEMMA DisjointInit == Init => DInv
  <1> SUFFICES ASSUME Init PROVE DInv
    OBVIOUS
  <1>1. \A m \in Initial : NewState(m).markers = m
    BY DEF NewState
  <1>2. \A m, n \in Initial : m # n => m \cap n = {}
    BY ForksAssumption
  <1>3. PairsApart(forkedStates)
    BY <1>1, <1>2 DEF Init, PairsApart, Apart
  <1> QED
    BY <1>3, TypeInit
       DEF Init, DInv, StatesApart, CurrentApart, ForksApart, InFork, PairsApart, AllApart

\* No environment is solved twice, for any packages, dependencies, markers and
\* conflict sets, and in any order in which `solve` and `fork` look at them.
THEOREM ForksDisjoint == Spec => []Disjoint
  BY DisjointInit, DisjointStep, DisjointFromDInv, PTL DEF Spec
-----------------------------------------------------------------------------
(* The dependencies of a fork and their items.                             *)

\* The dependencies with the name of d that matter have one marker.
OneMarker(d) == \A c \in Relevant(package) : Name(c) = Name(d) => Marker[c] = Marker[d]

\* A fork has dependencies of the package, and the items of those.  Until the
\* conflict sets are looked at, a dependency whose name has several markers is
\* in a fork only if all environments of the fork have it.
ForkOK(f) ==
    /\ f.deps \subseteq Relevant(package)
    /\ f.conflicts = {ItemOf[d] : d \in f.deps}
    /\ phase # "sets" => \A d \in f.deps : f.markers \subseteq Marker[d] \/ OneMarker(d)

\* Forks by markers have no environment in common.
MarkersApart ==
    phase # "sets" =>
        \A f, g \in old \cup forks :
            f # g \/ (f \in old /\ g \in forks) => f.markers \cap g.markers = {}

\* A `Forker` has looked at none of the environments of the forks it has yet to
\* split.
MarkerLeft ==
    /\ deps \subseteq IF phase \in {"deps", "split"} THEN Relevant(package) ELSE {}
    /\ phase = "split" =>
         dep \in Relevant(package) /\ \A f \in old : marker \cap f.markers = Marker[dep] \cap f.markers

ForksOK == IF InFork THEN \A f \in old \cup forks : ForkOK(f) ELSE old \cup forks = {}

VInv == DInv /\ MarkersApart /\ MarkerLeft /\ ForksOK

\* What the operations on forks make of their fields.
LEMMA ForkFields ==
    ASSUME NEW f \in Fork
    PROVE  /\ \A ds : LET g == AddDependencies(f, ds) IN
                /\ g.markers = f.markers /\ g.deps = f.deps \cup ds
                /\ g.conflicts = f.conflicts \cup {ItemOf[d] : d \in ds}
           /\ \A m : LET g == SetEnv(f, m) IN
                /\ g.markers = f.markers \cap m
                /\ g.deps = {d \in f.deps : Marker[d] \cap f.markers \cap m # {}}
                /\ g.conflicts = f.conflicts \ {ItemOf[d] : d \in f.deps \ g.deps}
           /\ \A in, out : LET g == FilterFork(f, in, out) IN
                /\ g.markers = f.markers
                /\ g.include = f.include \cup in /\ g.exclude = f.exclude \cup out
                /\ g.deps = {d \in f.deps : IncludedByGroup(g, ItemOf[d]) \/ d \in Child}
                /\ g.conflicts = f.conflicts \ {ItemOf[d] : d \in f.deps \ g.deps}
  <1>1. ASSUME NEW ds
        PROVE  LET g == AddDependencies(f, ds) IN
                 /\ g.markers = f.markers /\ g.deps = f.deps \cup ds
                 /\ g.conflicts = f.conflicts \cup {ItemOf[d] : d \in ds}
    BY DEF AddDependencies, Fork
  <1>2. ASSUME NEW h \in Fork, NEW keep
        PROVE  /\ Retain(h, keep).markers = h.markers /\ Retain(h, keep).deps = keep
               /\ Retain(h, keep).conflicts = h.conflicts \ {ItemOf[d] : d \in h.deps \ keep}
    BY DEF Retain, Fork
  <1>3. ASSUME NEW m
        PROVE  LET g == SetEnv(f, m) IN
                 /\ g.markers = f.markers \cap m
                 /\ g.deps = {d \in f.deps : Marker[d] \cap f.markers \cap m # {}}
                 /\ g.conflicts = f.conflicts \ {ItemOf[d] : d \in f.deps \ g.deps}
    <2> DEFINE h == [f EXCEPT !.markers = @ \cap m]
               keep == {d \in f.deps : Marker[d] \cap f.markers \cap m # {}}
    <2>1. /\ h \in Fork /\ h.markers = f.markers \cap m
          /\ h.deps = f.deps /\ h.conflicts = f.conflicts
      BY DEF Fork
    <2>2. SetEnv(f, m) = Retain(h, keep)
      BY DEF SetEnv
    <2> HIDE DEF h, keep
    <2>3. /\ SetEnv(f, m).markers = f.markers \cap m /\ SetEnv(f, m).deps = keep
          /\ SetEnv(f, m).conflicts = f.conflicts \ {ItemOf[d] : d \in f.deps \ keep}
      BY <1>2, <2>1, <2>2
    <2> QED BY <2>3 DEF keep
  <1>4. ASSUME NEW in, NEW out
        PROVE  LET g == FilterFork(f, in, out) IN
                 /\ g.markers = f.markers
                 /\ g.include = f.include \cup in /\ g.exclude = f.exclude \cup out
                 /\ g.deps = {d \in f.deps : IncludedByGroup(g, ItemOf[d]) \/ d \in Child}
                 /\ g.conflicts = f.conflicts \ {ItemOf[d] : d \in f.deps \ g.deps}
    <2> DEFINE h == [f EXCEPT !.include = @ \cup in, !.exclude = @ \cup out]
               keep == {d \in f.deps : IncludedByGroup(h, ItemOf[d]) \/ d \in Child}
    <2>1. /\ h.markers = f.markers /\ h.include = f.include \cup in
          /\ h.exclude = f.exclude \cup out /\ h.deps = f.deps /\ h.conflicts = f.conflicts
      BY DEF Fork
    <2>2. FilterFork(f, in, out) = [h EXCEPT !.deps = keep,
                                       !.conflicts = @ \ {ItemOf[d] : d \in h.deps \ keep}]
      BY DEF FilterFork, Retain
    <2>3. LET g == FilterFork(f, in, out) IN
            /\ g.markers = h.markers /\ g.include = h.include /\ g.exclude = h.exclude
            /\ g.deps = keep /\ g.conflicts = h.conflicts \ {ItemOf[d] : d \in h.deps \ keep}
      BY <2>2 DEF Fork
    <2>4. \A i : IncludedByGroup(FilterFork(f, in, out), i) <=> IncludedByGroup(h, i)
      BY <2>3 DEF IncludedByGroup
    <2> HIDE DEF h
    <2> QED BY <2>1, <2>3, <2>4
  <1> QED BY <1>1, <1>3, <1>4

\* If what is kept and what leaves have no item in common, the items left are
\* those of what is kept.
LEMMA ItemsKept ==
    ASSUME NEW D, NEW K \in SUBSET D, \A c \in K, d \in D \ K : ItemOf[c] # ItemOf[d]
    PROVE  {ItemOf[d] : d \in D} \ {ItemOf[d] : d \in D \ K} = {ItemOf[d] : d \in K}
  OBVIOUS

\* Dependencies of one package on one item have a parent together.
LEMMA ChildTogether ==
    ASSUME NEW p \in Package, NEW c \in Deps[p], NEW d \in Deps[p], ItemOf[c] = ItemOf[d], c \in Child
    PROVE  d \in Child
  <1>1. PICK q \in Normal : c \in Deps[q] /\ Name(c) = ItemOf[c]
    BY DEF Child
  <1>2. q = p
    BY <1>1, ForksAssumption
  <1>3. Name(d) = ItemOf[d]
    BY <1>1 DEF Name
  <1> QED BY <1>1, <1>2, <1>3 DEF Child

\* So a conflict set takes all of them or none.
LEMMA FilterItems ==
    ASSUME NEW f \in Fork, NEW p \in Package, f.deps \subseteq Deps[p],
           f.conflicts = {ItemOf[d] : d \in f.deps}, NEW s,
           NEW g \in ConflictParts(f, s)
    PROVE  g.deps \subseteq f.deps /\ g.conflicts = {ItemOf[d] : d \in g.deps}
  <1>1. g = f \/ \E in, out : g = FilterFork(f, in, out)
    BY DEF ConflictParts
  <1>2. ASSUME NEW in, NEW out, g = FilterFork(f, in, out)
        PROVE  g.deps \subseteq f.deps /\ g.conflicts = {ItemOf[d] : d \in g.deps}
    <2>1. /\ g.deps = {d \in f.deps : IncludedByGroup(g, ItemOf[d]) \/ d \in Child}
          /\ g.conflicts = f.conflicts \ {ItemOf[d] : d \in f.deps \ g.deps}
      BY <1>2, ForkFields
    <2>2. \A c \in g.deps, d \in f.deps \ g.deps : ItemOf[c] # ItemOf[d]
      BY <2>1, ChildTogether
    <2> QED BY <2>1, <2>2, ItemsKept
  <1> QED BY <1>1, <1>2

\* Nor does a marker tell dependencies on one item apart.
LEMMA ForkerItems ==
    ASSUME NEW f \in Fork, ForkOK(f), phase = "split", package \in Package,
           dep \in Relevant(package), marker \in SUBSET Env,
           marker \cap f.markers = Marker[dep] \cap f.markers,
           NEW g \in ForkerParts(f, dep, marker)
    PROVE  /\ g.deps \subseteq Relevant(package)
           /\ g.conflicts = {ItemOf[d] : d \in g.deps}
           /\ \A d \in g.deps : g.markers \subseteq Marker[d] \/ OneMarker(d)
  <1>1. PICK m \in {Env \ marker, marker} :
          LET h == SetEnv(f, m) IN
            /\ h.markers # {}
            /\ g = IF IncludedByMarker(h, Marker[dep]) THEN AddDependencies(h, {dep}) ELSE h
    BY DEF ForkerParts
  <1> DEFINE h == SetEnv(f, m)
  <1>2. h \in Fork
    BY ForkTypes
  <1>3. /\ h.markers = f.markers \cap m
        /\ h.deps = {d \in f.deps : Marker[d] \cap f.markers \cap m # {}}
        /\ h.conflicts = f.conflicts \ {ItemOf[d] : d \in f.deps \ h.deps}
    BY ForkFields
  <1>4. /\ h.markers # {}
        /\ g = IF IncludedByMarker(h, Marker[dep]) THEN AddDependencies(h, {dep}) ELSE h
    BY <1>1
  <1> HIDE DEF h
  <1>5. f.markers \subseteq Env /\ \A d \in f.deps : d \in Relevant(package)
    BY DEF Fork, ForkOK
  <1>6. \A c \in h.deps, d \in f.deps \ h.deps : ItemOf[c] # ItemOf[d]
    <2> SUFFICES ASSUME NEW c \in h.deps, NEW d \in f.deps \ h.deps, ItemOf[c] = ItemOf[d] PROVE FALSE
      OBVIOUS
    <2>1. ~(f.markers \subseteq Marker[d])
      BY <1>3, <1>4
    <2>2. OneMarker(d)
      BY <2>1 DEF ForkOK
    <2>3. Marker[c] = Marker[d]
      BY <1>3, <1>5, <2>2 DEF OneMarker, Name
    <2> QED BY <1>3, <2>3
  <1>7. h.conflicts = {ItemOf[d] : d \in h.deps}
    BY <1>3, <1>6, ItemsKept DEF ForkOK
  <1>8. \A d \in h.deps : h.markers \subseteq Marker[d] \/ OneMarker(d)
    BY <1>3 DEF ForkOK
  <1>9. CASE IncludedByMarker(h, Marker[dep])
    <2>1. /\ g.markers = h.markers /\ g.deps = h.deps \cup {dep}
          /\ g.conflicts = h.conflicts \cup {ItemOf[d] : d \in {dep}}
      BY <1>2, <1>4, <1>9, ForkFields
    <2>2. m = marker /\ h.markers \subseteq Marker[dep]
      BY <1>3, <1>9 DEF IncludedByMarker
    <2> QED BY <1>3, <1>5, <1>7, <1>8, <2>1, <2>2
  <1>10. CASE ~IncludedByMarker(h, Marker[dep])
    BY <1>3, <1>4, <1>5, <1>7, <1>8, <1>10
  <1> QED BY <1>9, <1>10

\* What matters depends on the state and the package only.
LEMMA RelevantSame ==
    ASSUME state' = state, package' = package
    PROVE  Relevant(package)' = Relevant(package) /\ \A d : OneMarker(d)' <=> OneMarker(d)
  <1>1. Relevant(package)' = Relevant(package)
    BY DEF Relevant, IncludedByGroup, IncludedByMarker
  <1> QED BY <1>1 DEF OneMarker

\* Every step preserves the inductive invariant.
LEMMA ItemsStep == VInv /\ [Next]_vars => VInv'
  <1> SUFFICES ASSUME VInv, [Next]_vars PROVE (MarkersApart /\ MarkerLeft /\ ForksOK)'
    BY DisjointStep DEF VInv
  <1>t. TInv /\ TypeOK /\ (phase # "split" => old = {})
    BY DEF VInv, DInv, TInv, ForksApart
  <1>i. MarkersApart /\ MarkerLeft /\ ForksOK
    BY DEF VInv
  <1>p. InFork => package \in Package
    BY <1>t DEF TInv, InCall
  <1>f. old \in SUBSET Fork /\ forks \in SUBSET Fork
    BY <1>t DEF TypeOK
  <1>1. CASE UNCHANGED vars
    BY <1>1, <1>i
       DEF vars, call, MarkersApart, MarkerLeft, ForksOK, ForkOK, InFork, OneMarker, Relevant,
           IncludedByGroup, IncludedByMarker
  <1>2. ASSUME ~InFork, ~InFork', UNCHANGED call
        PROVE  (MarkersApart /\ MarkerLeft /\ ForksOK)'
    BY <1>2, <1>i DEF call, MarkersApart, MarkerLeft, ForksOK, InFork
  <1>3. CASE \/ Finish \/ NoSolution \/ Solved \/ Ended
             \/ (\E s \in forkedStates : Pick(s))
             \/ (\E m \in Platforms : ForkVersion(m))
             \/ (\E v \in {Py[e] : e \in Env} : ForkPython(v))
    <2>1. ~InFork /\ ~InFork' /\ UNCHANGED call
      BY <1>3 DEF Finish, NoSolution, Solved, Ended, Pick, ForkVersion, ForkPython, InFork, vars, call
    <2> QED BY <1>2, <2>1
  <1>4. CASE Unforked \/ Forked
    BY <1>4 DEF Unforked, Forked, Return, MarkersApart, MarkerLeft, ForksOK, InFork
  <1>5. ASSUME NEW p \in Package, Visit(p) PROVE (MarkersApart /\ MarkerLeft /\ ForksOK)'
    <2>1. old = {} /\ deps = {}
      BY <1>5, <1>i DEF Visit, ForksOK, MarkerLeft, InFork
    <2>2. /\ forks' = {NewFork(state)} /\ old' = {} /\ deps' = {}
          /\ phase' = "names"
      BY <1>5, <2>1 DEF Visit
    <2>3. NewFork(state).deps = {} /\ NewFork(state).conflicts = {}
      BY DEF NewFork
    <2>4. ASSUME NEW g, g = NewFork(state) PROVE ForkOK(g)'
      BY <2>3, <2>4 DEF ForkOK
    <2>5. ForksOK'
      <3>1. \A g \in old' \cup forks' : ForkOK(g)'
        BY <2>2, <2>4
      <3> QED BY <2>2, <3>1 DEF ForksOK, InFork
    <2> QED BY <2>2, <2>5 DEF MarkersApart, MarkerLeft
  <1>6. ASSUME InFork, state' = state, package' = package
        PROVE  /\ Relevant(package)' = Relevant(package)
               /\ \A d : OneMarker(d)' <=> OneMarker(d)
               /\ \A f \in old \cup forks : ForkOK(f)
               /\ Relevant(package) \subseteq Deps[package] /\ Relevant(package) \subseteq Dep
    BY <1>6, <1>i, <1>p, RelevantSame, ConstantTypes DEF ForksOK, Relevant
  <1>7. CASE NextName \/ NextDep \/ NamesDone
    <2>1. /\ InFork /\ InFork' /\ state' = state /\ package' = package /\ old' = old /\ forks' = forks
          /\ deps' = deps /\ (phase' = "split" => phase = "split")
          /\ phase # "sets" /\ phase' # "split" /\ (phase' # "deps" => deps' = {})
      BY <1>7, <1>i DEF NextName, NextDep, NamesDone, call, InFork, MarkerLeft
    <2>2. ForksOK'
      BY <1>6, <2>1 DEF ForksOK, ForkOK
    <2>3. MarkerLeft'
      <3>1. deps \subseteq Relevant(package)
        BY <2>1, <1>i DEF MarkerLeft
      <3> QED BY <1>6, <2>1, <3>1 DEF MarkerLeft
    <2> QED BY <1>i, <2>1, <2>2, <2>3 DEF MarkersApart
  <1>8. ASSUME NEW n \in names, ForkName(n) PROVE (MarkersApart /\ MarkerLeft /\ ForksOK)'
    <2> DEFINE ds == {d \in Relevant(package) : Name(d) = n}
               Grow == [f \in forks |-> {d \in ds : IncludedByMarker(f, Marker[d])}]
    <2>1. /\ InFork /\ InFork' /\ state' = state /\ package' = package /\ old = {} /\ old' = {}
          /\ phase = "names" /\ deps = {}
      BY <1>8, <1>t, <1>i DEF ForkName, InFork, MarkerLeft
    <2>2. \/ /\ \A d, e \in ds : Marker[d] = Marker[e]
             /\ forks' = {AddDependencies(f, Grow[f]) : f \in forks} /\ deps' = deps /\ phase' = "names"
          \/ forks' = forks /\ deps' = ds /\ phase' = "deps"
      BY <1>8 DEF ForkName
    <2>3. MarkerLeft'
      BY <1>6, <2>1, <2>2 DEF MarkerLeft
    <2>4. CASE forks' = forks
      BY <1>6, <1>i, <2>1, <2>2, <2>4 DEF ForksOK, ForkOK, MarkersApart, MarkerLeft
    <2>5. CASE /\ \A d, e \in ds : Marker[d] = Marker[e]
               /\ forks' = {AddDependencies(f, Grow[f]) : f \in forks} /\ deps' = deps /\ phase' = "names"
      <3>1. \A d \in ds : OneMarker(d)
        BY <2>5 DEF OneMarker
      <3>2. \A f \in forks : Grow[f] \subseteq ds
        OBVIOUS
      <3>3. ds \subseteq Relevant(package)
        OBVIOUS
      <3> HIDE DEF Grow, ds
      <3>4. ASSUME NEW f \in forks, NEW g, g = AddDependencies(f, Grow[f]) PROVE ForkOK(g)'
        <4>1. /\ g.markers = f.markers /\ g.deps = f.deps \cup Grow[f]
              /\ g.conflicts = f.conflicts \cup {ItemOf[d] : d \in Grow[f]}
          BY <1>f, <3>4, ForkFields
        <4>2. ForkOK(f)
          BY <1>6, <2>1
        <4>3. \A d \in g.deps : d \in f.deps \/ d \in ds
          BY <3>2, <4>1
        <4>4. \A d \in g.deps : g.markers \subseteq Marker[d] \/ OneMarker(d)
          BY <2>1, <3>1, <4>1, <4>2, <4>3 DEF ForkOK
        <4>5. g.deps \subseteq Relevant(package) /\ g.conflicts = {ItemOf[d] : d \in g.deps}
          BY <3>3, <4>1, <4>2, <4>3 DEF ForkOK
        <4> QED BY <1>6, <2>1, <4>4, <4>5 DEF ForkOK
      <3>5. ForksOK'
        <4>1. \A g \in old' \cup forks' : ForkOK(g)'
          BY <2>1, <2>5, <3>4
        <4> QED BY <2>1, <4>1 DEF ForksOK
      <3>6. \A f \in forks : AddDependencies(f, Grow[f]).markers = f.markers
        BY <1>f, ForkFields
      <3>7. MarkersApart'
        BY <1>i, <2>1, <2>5, <3>6 DEF MarkersApart
      <3> QED BY <2>3, <3>5, <3>7
    <2> QED BY <2>2, <2>4, <2>5
  <1>9. ASSUME NEW d \in deps, ForkDep(d) PROVE (MarkersApart /\ MarkerLeft /\ ForksOK)'
    <2>1. /\ InFork /\ InFork' /\ state' = state /\ package' = package /\ old = {}
          /\ phase = "deps" /\ deps' = deps \ {d}
      BY <1>9, <1>t DEF ForkDep, InFork
    <2>2. deps \subseteq Relevant(package)
      BY <1>i, <2>1 DEF MarkerLeft
    <2>3. CASE Marker[d] = Env
      <3>1. /\ forks' = {AddDependencies(f, {d}) : f \in forks}
            /\ phase' = "deps" /\ old' = {}
        BY <1>9, <2>1, <2>3 DEF ForkDep
      <3>2. \A f \in forks : AddDependencies(f, {d}).markers = f.markers
        BY <1>f, ForkFields
      <3>3. ASSUME NEW f \in forks, NEW g, g = AddDependencies(f, {d}) PROVE ForkOK(g)'
        <4>1. /\ g.markers = f.markers /\ g.deps = f.deps \cup {d}
              /\ g.conflicts = f.conflicts \cup {ItemOf[c] : c \in {d}}
          BY <1>f, <3>3, ForkFields
        <4>2. ForkOK(f) /\ f.markers \subseteq Env
          BY <1>6, <1>f, <2>1 DEF Fork
        <4>3. \A c \in g.deps : g.markers \subseteq Marker[c] \/ OneMarker(c)
          BY <2>1, <2>3, <4>1, <4>2 DEF ForkOK
        <4>4. g.deps \subseteq Relevant(package) /\ g.conflicts = {ItemOf[c] : c \in g.deps}
          BY <2>2, <4>1, <4>2 DEF ForkOK
        <4> QED BY <1>6, <2>1, <4>3, <4>4 DEF ForkOK
      <3>4. ForksOK'
        <4>1. \A g \in old' \cup forks' : ForkOK(g)'
          BY <3>1, <3>3
        <4> QED BY <2>1, <4>1 DEF ForksOK
      <3>5. MarkersApart'
        <4>1. \A g, h \in forks : g # h => g.markers \cap h.markers = {}
          BY <1>i, <2>1 DEF MarkersApart
        <4>2. ASSUME NEW g \in forks', NEW h \in forks', g # h PROVE g.markers \cap h.markers = {}
          <5>1. PICK a \in forks : g = AddDependencies(a, {d})
            BY <3>1
          <5>2. PICK b \in forks : h = AddDependencies(b, {d})
            BY <3>1
          <5>3. a # b /\ g.markers = a.markers /\ h.markers = b.markers
            BY <3>2, <4>2, <5>1, <5>2
          <5> QED BY <4>1, <5>3
        <4> QED BY <3>1, <4>2 DEF MarkersApart
      <3>6. MarkerLeft'
        BY <1>6, <2>1, <2>2, <3>1 DEF MarkerLeft
      <3> QED BY <3>4, <3>5, <3>6
    <2>4. CASE Marker[d] # Env
      <3>1. /\ forks' = {} /\ old' = forks /\ dep' = d /\ marker' = Marker[d]
            /\ phase' = "split"
        BY <1>9, <2>4 DEF ForkDep
      <3>2. ForksOK' /\ MarkersApart'
        BY <1>6, <1>i, <2>1, <3>1 DEF ForksOK, ForkOK, MarkersApart
      <3>3. MarkerLeft'
        BY <1>6, <2>1, <2>2, <3>1 DEF MarkerLeft
      <3> QED BY <3>2, <3>3
    <2> QED BY <2>3, <2>4
  <1>10. ASSUME NEW f \in old, SplitFork(f) PROVE (MarkersApart /\ MarkerLeft /\ ForksOK)'
    <2>1. /\ InFork /\ InFork' /\ state' = state /\ package' = package
          /\ phase = "split" /\ phase' = "split" /\ deps' = deps /\ dep' = dep /\ old' = old \ {f}
      BY <1>10 DEF SplitFork, InFork
    <2>2. /\ dep \in Relevant(package) /\ deps \subseteq Relevant(package)
          /\ \A g \in old : marker \cap g.markers = Marker[dep] \cap g.markers
      BY <1>i, <2>1 DEF MarkerLeft
    <2>3. f \in Fork /\ ForkOK(f) /\ package \in Package /\ marker \in SUBSET Env /\ dep \in Dep
      BY <1>6, <1>f, <1>p, <1>t, <2>1, <2>2 DEF TypeOK
    <2>4. PICK T : /\ forks' = forks \cup T
                   /\ \A g \in T : g = f \/ g \in ForkerParts(f, dep, marker)
                   /\ T \subseteq {f} \/ T \subseteq ForkerParts(f, dep, marker)
      <3>1. CASE IncludedByMarker(f, marker)
        <4> DEFINE S == {g \in ForkerParts(f, dep, marker) : IncludedByMarker(g, Within(state.python))}
        <4>1. forks' = forks \cup S
          BY <1>10, <3>1 DEF SplitFork
        <4>2. S \subseteq ForkerParts(f, dep, marker)
          OBVIOUS
        <4> HIDE DEF S
        <4> QED BY <4>1, <4>2
      <3>2. CASE ~IncludedByMarker(f, marker)
        <4>1. forks' = forks \cup {f}
          BY <1>10, <3>2 DEF SplitFork
        <4> QED BY <4>1
      <3> QED BY <3>1, <3>2
    <2>5. \A g \in ForkerParts(f, dep, marker) :
            /\ g.deps \subseteq Relevant(package)
            /\ g.conflicts = {ItemOf[d] : d \in g.deps}
            /\ \A d \in g.deps : g.markers \subseteq Marker[d] \/ OneMarker(d)
      BY <2>1, <2>2, <2>3, ForkerItems
    <2>6. ForksOK'
      <3>1. ASSUME NEW g \in old \cup forks \cup T PROVE ForkOK(g)'
        <4>1. ForkOK(g)
          BY <1>6, <2>1, <2>4, <2>5 DEF ForkOK
        <4> QED BY <1>6, <2>1, <4>1 DEF ForkOK
      <3>2. \A g \in old' \cup forks' : ForkOK(g)'
        BY <2>1, <2>4, <3>1
      <3> QED BY <2>1, <3>2 DEF ForksOK
    <2>7. \A g \in T : g.markers \subseteq f.markers
      BY <2>3, <2>4, ForkerPartsApart DEF Inside
    <2>8. \A g, h \in T : g # h => g.markers \cap h.markers = {}
      <3>1. \A g, h \in ForkerParts(f, dep, marker) : g # h => g.markers \cap h.markers = {}
        <4> DEFINE With(h) == IF IncludedByMarker(h, Marker[dep]) THEN AddDependencies(h, {dep}) ELSE h
        <4>1. SetEnv(f, Env \ marker) \in Fork /\ SetEnv(f, marker) \in Fork
          BY <2>3, ForkTypes
        <4>2. SetEnv(f, Env \ marker).markers \cap SetEnv(f, marker).markers = {}
          BY <2>3, ForkFields
        <4>3. \A h \in Fork : With(h).markers = h.markers
          BY ForkFields
        <4>4. ForkerParts(f, dep, marker) \subseteq {With(SetEnv(f, Env \ marker)), With(SetEnv(f, marker))}
          BY DEF ForkerParts
        <4> HIDE DEF With
        <4> QED BY <4>1, <4>2, <4>3, <4>4
      <3> QED BY <2>4, <3>1
    <2>9. MarkersApart'
      <3>1. \A g, h \in old \cup forks :
              g # h \/ (g \in old /\ h \in forks) => g.markers \cap h.markers = {}
        BY <1>i, <2>1 DEF MarkersApart
      <3>2. \A g \in T, h \in old' \cup forks : g.markers \cap h.markers = {}
        BY <2>1, <2>7, <3>1
      <3> QED BY <2>1, <2>4, <2>8, <3>1, <3>2 DEF MarkersApart
    <2>10. MarkerLeft'
      <3>1. marker' = marker \/ marker' = marker \ f.markers
        BY <1>10 DEF SplitFork
      <3>2. \A g \in old' : g.markers \cap f.markers = {}
        BY <1>i, <2>1 DEF MarkersApart
      <3>3. \A g \in old' : marker' \cap g.markers = Marker[dep] \cap g.markers
        BY <2>1, <2>2, <3>1, <3>2
      <3> QED BY <1>6, <2>1, <2>2, <3>3 DEF MarkerLeft
    <2> QED BY <2>6, <2>9, <2>10
  <1>11. CASE ForkSet
    <2>1. /\ InFork /\ InFork' /\ state' = state /\ package' = package /\ phase = "sets"
          /\ phase' = "sets" /\ deps' = deps /\ old = {} /\ old' = {}
      BY <1>11, <1>t DEF ForkSet, InFork
    <2>2. ASSUME NEW f \in forks, NEW g \in ConflictParts(f, conflicts[set]) PROVE ForkOK(g)'
      <3>1. ForkOK(f) /\ f \in Fork /\ package \in Package
        BY <1>6, <1>f, <1>p, <2>1
      <3>2. g.deps \subseteq f.deps /\ g.conflicts = {ItemOf[d] : d \in g.deps}
        BY <1>6, <2>1, <3>1, FilterItems DEF ForkOK
      <3> QED BY <1>6, <2>1, <3>1, <3>2 DEF ForkOK
    <2>3. \A g \in old' \cup forks' : ForkOK(g)'
      BY <1>11, <2>1, <2>2 DEF ForkSet
    <2> QED BY <1>i, <2>1, <2>3 DEF ForksOK, MarkersApart, MarkerLeft
  <1> QED
    BY <1>1, <1>3, <1>4, <1>5, <1>7, <1>8, <1>9, <1>10, <1>11 DEF Next, Step

\* `fork` starts without forks.
LEMMA ItemsInit == Init => VInv
  BY DisjointInit DEF Init, VInv, MarkersApart, MarkerLeft, ForksOK, InFork

\* `Fork::conflicts` are the items of the dependencies of the fork, for any
\* dependencies and markers: those that leave a fork never share an item with
\* those that stay.
THEOREM ForkItemsCurrent == Spec => []ConflictsCurrent
  <1>1. VInv => ConflictsCurrent
    BY DEF VInv, ForksOK, ForkOK, ConflictsCurrent
  <1> QED BY <1>1, ItemsInit, ItemsStep, PTL DEF Spec
-----------------------------------------------------------------------------
(* Nothing is left out.                                                    *)

\* Supported environments of a state are within its Python requirement.
PythonOK ==
    \A s \in forkedStates \cup {state} : s.markers \cap Within(Target) \subseteq Within(s.python)

\* Only items that conflict with others are left out.
ExcludedConflict ==
    /\ \A s \in forkedStates \cup {state} : s.exclude \subseteq Conflicting
    /\ \A f \in old \cup forks : f.exclude \subseteq Conflicting

CInv == DInv /\ PythonOK /\ ExcludedConflict /\ Covered

\* A part that stands for all that p stands for contains what p contains.
LEMMA ContainsInside ==
    ASSUME NEW p, NEW q, NEW e, NEW choice, Contains(p, e, choice), Inside(p, q)
    PROVE  Contains(q, e, choice)
  BY DEF Contains, Inside

\* `narrow` keeps the environments of the marker.
LEMMA NarrowKeeps ==
    ASSUME NEW r \in Interval, NEW m \in SUBSET Env, NEW e \in m, e \in Within(r)
    PROVE  e \in Within(Narrow(r, m))
  <1>1. PICK lo \in m : \A f \in m : Py[lo] <= Py[f]
    BY ForksAssumption
  <1>2. PICK hi \in m : \A f \in m : Py[f] <= Py[hi]
    BY ForksAssumption
  <1>3. Lowest(m) \in {Py[f] : f \in m} /\ \A f \in m : Lowest(m) <= Py[f]
    BY <1>1 DEF Lowest
  <1>4. Highest(m) \in {Py[f] : f \in m} /\ \A f \in m : Py[f] <= Highest(m)
    BY <1>2 DEF Highest
  <1>5. Py \in [Env -> Int] /\ m # {}
    BY ForksAssumption
  <1>6. Lowest(m) \in Int /\ Highest(m) \in Int /\ Py[e] \in Int
    BY <1>3, <1>4, <1>5
  <1> QED
    BY <1>3, <1>4, <1>5, <1>6 DEF Narrow, Within, Greater, Lesser, Interval

\* The operations on forks lose no environment.
LEMMA ForksKeep ==
    ASSUME NEW f \in Fork, NEW e, NEW choice, Contains(f, e, choice)
    PROVE  /\ \A ds : Contains(AddDependencies(f, ds), e, choice)
           /\ \A m : e \in m => Contains(SetEnv(f, m), e, choice)
           /\ \A in, out \in SUBSET Item :
                in \subseteq choice /\ out \cap choice = {} => Contains(FilterFork(f, in, out), e, choice)
  <1>1. ASSUME NEW ds PROVE Contains(AddDependencies(f, ds), e, choice)
    BY DEF AddDependencies, Fork, Contains
  <1>2. ASSUME NEW g \in Fork, NEW keep, Contains(g, e, choice) PROVE Contains(Retain(g, keep), e, choice)
    BY <1>2 DEF Retain, Fork, Contains
  <1>3. ASSUME NEW m, e \in m PROVE Contains(SetEnv(f, m), e, choice)
    <2> DEFINE g == [f EXCEPT !.markers = @ \cap m]
    <2>1. g \in Fork /\ Contains(g, e, choice)
      BY <1>3 DEF Fork, Contains
    <2> QED BY <2>1, <1>2 DEF SetEnv
  <1>4. ASSUME NEW in \in SUBSET Item, NEW out \in SUBSET Item, in \subseteq choice, out \cap choice = {}
        PROVE  Contains(FilterFork(f, in, out), e, choice)
    <2> DEFINE g == [f EXCEPT !.include = @ \cup in, !.exclude = @ \cup out]
    <2>1. g \in Fork /\ Contains(g, e, choice)
      BY <1>4 DEF Fork, Contains
    <2> QED BY <2>1, <1>2 DEF FilterFork
  <1> QED BY <1>1, <1>3, <1>4

\* Nor do those on states.
LEMMA StatesKeep ==
    ASSUME NEW s \in State, NEW e, NEW choice
    PROVE  /\ Contains(s, e, choice) => Contains(NewFork(s), e, choice)
           /\ \A f \in Fork : \A ds :
                Contains(f, e, choice) => Contains(AddVersion(WithEnv(s, f), ds), e, choice)
           /\ \A ds : Contains(s, e, choice) => Contains(AddVersion(s, ds), e, choice)
           /\ \A m : Contains(s, e, choice) /\ e \in m => Contains(Narrowed(s, m), e, choice)
  <1>1. Contains(s, e, choice) => Contains(NewFork(s), e, choice)
    BY DEF NewFork, Contains
  <1>2. ASSUME NEW t \in State, NEW ds, Contains(t, e, choice) PROVE Contains(AddVersion(t, ds), e, choice)
    BY <1>2 DEF AddVersion, State, Contains
  <1>3. ASSUME NEW f, Contains(f, e, choice) PROVE Contains(WithEnv(s, f), e, choice)
    BY <1>3 DEF WithEnv, State, Contains
  <1>4. ASSUME NEW m, Contains(s, e, choice), e \in m PROVE Contains(Narrowed(s, m), e, choice)
    <2> DEFINE t == [s EXCEPT !.markers = @ \cap m]
    <2>1. Contains(t, e, choice)
      BY <1>4 DEF State, Contains
    <2>2. Narrowed(s, m) = WithEnv(s, t)
      BY DEF Narrowed
    <2> HIDE DEF t
    <2> QED BY <2>1, <2>2, <1>3
  <1>5. ASSUME NEW f \in Fork, NEW ds, Contains(f, e, choice)
        PROVE  Contains(AddVersion(WithEnv(s, f), ds), e, choice)
    <2>1. WithEnv(s, f) \in State /\ Contains(WithEnv(s, f), e, choice)
      BY <1>3, <1>5, StateTypes
    <2> QED BY <1>2, <2>1
  <1> QED BY <1>1, <1>2, <1>4, <1>5

\* A `Forker` loses no environment the Python requirement admits.
LEMMA ForkerKeeps ==
    ASSUME NEW f \in Fork, NEW d \in Dep, NEW m \in SUBSET Env, NEW e \in Env, NEW choice,
           Contains(f, e, choice)
    PROVE  \E g \in ForkerParts(f, d, m) : Contains(g, e, choice)
  <1> DEFINE With(g) == IF IncludedByMarker(g, Marker[d]) THEN AddDependencies(g, {d}) ELSE g
  <1>1. PICK n \in {m, Env \ m} : e \in n
    OBVIOUS
  <1>2. SetEnv(f, n) \in Fork /\ Contains(SetEnv(f, n), e, choice)
    BY <1>1, ForksKeep, ForkTypes
  <1>3. SetEnv(f, n).markers # {}
    BY <1>2 DEF Contains
  <1>4. With(SetEnv(f, n)) \in ForkerParts(f, d, m)
    BY <1>3 DEF ForkerParts
  <1>5. Contains(With(SetEnv(f, n)), e, choice)
    BY <1>2, ForksKeep
  <1> QED BY <1>4, <1>5

\* A conflict set loses no choice it allows: the choice holds none of its items,
\* and is in the part without any, or one, and is in the part of that one.
LEMMA ConflictKeeps ==
    ASSUME NEW f \in Fork, NEW k \in 1..Len(conflicts), conflicts[k] \in SUBSET Item,
           f.exclude \subseteq Conflicting,
           NEW e, NEW choice \in SUBSET Conflicting, Allowed(choice), Contains(f, e, choice)
    PROVE  \E g \in ConflictParts(f, conflicts[k]) : Contains(g, e, choice)
  <1> DEFINE s == conflicts[k]
             out == {i \in s : ~IncludedByGroup(f, i)}
  <1>1. CASE f.conflicts \cap s = {}
    BY <1>1 DEF ConflictParts
  <1>2. CASE f.conflicts \cap s # {} /\ Dominated(f, s)
    <2>1. \A i \in choice : IncludedByGroup(f, i)
      BY DEF IncludedByGroup, Contains, Allowed
    <2>2. out \cap choice = {} /\ out \in SUBSET Item
      BY <2>1
    <2>3. Compatible(f, {}, out)
      BY <2>1 DEF Compatible, Contains
    <2>4. FilterFork(f, {}, out) \in ConflictParts(f, s)
      BY <1>2, <2>3 DEF ConflictParts
    <2> QED BY <2>2, <2>4, ForksKeep
  <1>3. CASE f.conflicts \cap s # {} /\ ~Dominated(f, s)
    <2>1. CASE choice \cap s = {}
      <3>1. Compatible(f, {}, s)
        BY <2>1 DEF Compatible, Contains
      <3>2. FilterFork(f, {}, s) \in ConflictParts(f, s)
        BY <1>3, <3>1 DEF ConflictParts
      <3> QED BY <2>1, <3>2, ForksKeep
    <2>2. CASE choice \cap s # {}
      <3>1. PICK i \in choice \cap s : TRUE
        BY <2>2
      <3>2. choice \cap (s \ {i}) = {}
        BY <3>1 DEF Allowed
      <3>3. Compatible(f, {i}, s \ {i})
        BY <3>1, <3>2 DEF Compatible, Contains
      <3>4. FilterFork(f, {i}, s \ {i}) \in ConflictParts(f, s)
        BY <1>3, <3>1, <3>3 DEF ConflictParts
      <3>5. {i} \in SUBSET Item /\ s \ {i} \in SUBSET Item
        BY <3>1
      <3> QED BY <3>1, <3>2, <3>4, <3>5, ForksKeep
    <2> QED BY <2>1, <2>2
  <1> QED BY <1>1, <1>2, <1>3
-----------------------------------------------------------------------------
\* A state narrowed to some of its environments keeps the supported ones within
\* its Python requirement.
LEMMA WithEnvPython ==
    ASSUME NEW s \in State, s.markers \cap Within(Target) \subseteq Within(s.python),
           NEW t, t.markers \subseteq s.markers
    PROVE  WithEnv(s, t).markers \cap Within(Target) \subseteq Within(WithEnv(s, t).python)
  <1>1. WithEnv(s, t).markers = t.markers /\ WithEnv(s, t).python = Narrow(s.python, t.markers)
    BY DEF WithEnv, State
  <1>2. t.markers \in SUBSET Env /\ s.python \in Interval
    BY DEF State
  <1>3. \A e \in t.markers \cap Within(Target) : e \in Within(Narrow(s.python, t.markers))
    BY <1>2, NarrowKeeps
  <1> QED BY <1>1, <1>3

\* A new state is narrowed from the target, and leaves nothing out.
LEMMA NewStatePython ==
    ASSUME NEW m \in SUBSET Env
    PROVE  /\ NewState(m).markers \cap Within(Target) \subseteq Within(NewState(m).python)
           /\ NewState(m).exclude = {}
  <1>1. /\ NewState(m).markers = m /\ NewState(m).python = Narrow(Target, m)
        /\ NewState(m).exclude = {}
    BY DEF NewState
  <1>2. \A e \in m \cap Within(Target) : e \in Within(Narrow(Target, m))
    BY NarrowKeeps, ForksAssumption
  <1> QED BY <1>1, <1>2

\* The same for a split by platform or Python version.
LEMMA NarrowedPython ==
    ASSUME NEW s \in State, s.markers \cap Within(Target) \subseteq Within(s.python), NEW m
    PROVE  /\ Narrowed(s, m).markers \cap Within(Target) \subseteq Within(Narrowed(s, m).python)
           /\ Narrowed(s, m).exclude = s.exclude
  <1> DEFINE t == [s EXCEPT !.markers = @ \cap m]
  <1>1. t.markers = s.markers \cap m /\ t.exclude = s.exclude
    BY DEF State
  <1>2. Narrowed(s, m) = WithEnv(s, t)
    BY DEF Narrowed
  <1> HIDE DEF t
  <1>3. WithEnv(s, t).exclude = t.exclude
    BY DEF WithEnv, State
  <1> QED BY <1>1, <1>2, <1>3, WithEnvPython

\* A version that is added changes none of this.
LEMMA AddVersionPython ==
    ASSUME NEW s \in State, NEW ds
    PROVE  /\ AddVersion(s, ds).markers = s.markers /\ AddVersion(s, ds).python = s.python
           /\ AddVersion(s, ds).exclude = s.exclude
  BY DEF AddVersion, State

\* A version that is split for leaves parts of the state to be solved.
LEMMA VersionSplits ==
    ASSUME (\E m : ForkVersion(m)) \/ (\E v : ForkPython(v))
    PROVE  \E S : /\ \A s \in S : \E m : s = Narrowed(state, m)
                  /\ forkedStates' = forkedStates \cup S /\ state' = NewState({}) /\ UNCHANGED call
  <1>1. ASSUME NEW m, ForkVersion(m)
        PROVE  \E S : /\ \A s \in S : \E n : s = Narrowed(state, n)
                      /\ forkedStates' = forkedStates \cup S /\ state' = NewState({}) /\ UNCHANGED call
    <2> DEFINE S == {Narrowed(state, m), Narrowed(state, Env \ m)}
    <2>1. \A s \in S : \E n : s = Narrowed(state, n)
      OBVIOUS
    <2>2. forkedStates' = forkedStates \cup S /\ state' = NewState({}) /\ UNCHANGED call
      BY <1>1 DEF ForkVersion
    <2> HIDE DEF S
    <2> QED BY <2>1, <2>2
  <1>2. ASSUME NEW v, ForkPython(v)
        PROVE  \E S : /\ \A s \in S : \E n : s = Narrowed(state, n)
                      /\ forkedStates' = forkedStates \cup S /\ state' = NewState({}) /\ UNCHANGED call
    <2> DEFINE S == {Narrowed(state, Within(r)) :
                       r \in {q \in {[state.python EXCEPT !.hi = v - 1], [state.python EXCEPT !.lo = v]} :
                                IncludedByMarker(state, Within(q))}}
    <2>1. \A s \in S : \E n : s = Narrowed(state, n)
      OBVIOUS
    <2>2. forkedStates' = forkedStates \cup S /\ state' = NewState({}) /\ UNCHANGED call
      BY <1>2 DEF ForkPython
    <2> HIDE DEF S
    <2> QED BY <2>1, <2>2
  <1> QED BY <1>1, <1>2

\* Every step keeps supported environments within the Python requirements.
LEMMA PythonStep == DInv /\ PythonOK /\ [Next]_vars => PythonOK'
  <1> SUFFICES ASSUME DInv, PythonOK, [Next]_vars PROVE PythonOK'
    OBVIOUS
  <1>t. TypeOK
    BY DEF DInv, TInv
  <1>a. NewState({}).markers \cap Within(Target) \subseteq Within(NewState({}).python)
    BY NewStatePython
  <1>1. CASE state' = state /\ forkedStates' = forkedStates
    BY <1>1 DEF PythonOK
  <1>2. CASE Solved
    BY <1>2, <1>a DEF Solved, PythonOK
  <1>3. CASE Unforked
    <2>1. PICK ds : state' = AddVersion(state, ds)
      BY <1>3 DEF Unforked
    <2> QED BY <1>3, <1>t, <2>1, AddVersionPython DEF Unforked, PythonOK, TypeOK
  <1>4. CASE Forked
    <2>1. ASSUME NEW f \in forks
          PROVE  LET s == AddVersion(WithEnv(state, f), f.deps) IN
                   s.markers \cap Within(Target) \subseteq Within(s.python)
      <3>1. f.markers \subseteq state.markers
        BY <1>4 DEF Forked, DInv, ForksApart, InFork, Inside
      <3>2. WithEnv(state, f).markers \cap Within(Target) \subseteq Within(WithEnv(state, f).python)
        BY <1>t, <3>1, WithEnvPython DEF TypeOK, PythonOK
      <3>3. WithEnv(state, f) \in State
        BY <1>t, StateTypes DEF TypeOK
      <3> QED BY <3>2, <3>3, AddVersionPython
    <2> QED BY <1>4, <1>a, <2>1 DEF Forked, PythonOK
  <1>5. ASSUME NEW s \in forkedStates, Pick(s) PROVE PythonOK'
    BY <1>5 DEF Pick, PythonOK
  <1>6. CASE (\E m : ForkVersion(m)) \/ (\E v : ForkPython(v))
    <2>1. PICK S : /\ \A s \in S : \E m : s = Narrowed(state, m)
                   /\ forkedStates' = forkedStates \cup S /\ state' = NewState({})
      BY <1>6, VersionSplits
    <2>2. \A s \in S : s.markers \cap Within(Target) \subseteq Within(s.python)
      BY <1>t, <2>1, NarrowedPython DEF TypeOK, PythonOK
    <2> QED BY <1>a, <2>1, <2>2 DEF PythonOK
  <1> QED
    BY <1>1, <1>2, <1>3, <1>4, <1>5, <1>6
       DEF Next, Step, Finish, NoSolution, NextName, NextDep, NamesDone, ForkSet, Visit, ForkName,
           ForkDep, SplitFork, Ended, vars

\* What is left out is left out because of a conflict set.
LEMMA ForksExclude ==
    ASSUME NEW f \in Fork
    PROVE  /\ \A ds : AddDependencies(f, ds).exclude = f.exclude
           /\ \A m : SetEnv(f, m).exclude = f.exclude
           /\ \A in, out \in SUBSET Item : FilterFork(f, in, out).exclude = f.exclude \cup out
  <1>1. ASSUME NEW ds PROVE AddDependencies(f, ds).exclude = f.exclude
    BY DEF AddDependencies, Fork
  <1>2. ASSUME NEW g \in Fork, NEW keep PROVE Retain(g, keep).exclude = g.exclude
    BY DEF Retain, Fork
  <1>3. ASSUME NEW m PROVE SetEnv(f, m).exclude = f.exclude
    <2>1. [f EXCEPT !.markers = @ \cap m] \in Fork /\ [f EXCEPT !.markers = @ \cap m].exclude = f.exclude
      BY DEF Fork
    <2> QED BY <2>1, <1>2 DEF SetEnv
  <1>4. ASSUME NEW in \in SUBSET Item, NEW out \in SUBSET Item
        PROVE  FilterFork(f, in, out).exclude = f.exclude \cup out
    <2> DEFINE g == [f EXCEPT !.include = @ \cup in, !.exclude = @ \cup out]
    <2>1. g \in Fork /\ g.exclude = f.exclude \cup out
      BY DEF Fork
    <2> QED BY <2>1, <1>2 DEF FilterFork
  <1> QED BY <1>1, <1>3, <1>4

\* Every step leaves out only items that conflict.
LEMMA ExcludedStep == TInv /\ ExcludedConflict /\ PythonOK /\ [Next]_vars => ExcludedConflict'
  <1> SUFFICES ASSUME TInv, ExcludedConflict, PythonOK, [Next]_vars PROVE ExcludedConflict'
    OBVIOUS
  <1>t. TypeOK
    BY DEF TInv
  <1>c. conflicts' = conflicts
    BY DEF Next, Step, Finish, Solved, NoSolution, NextName, NextDep, NamesDone, ForkSet, Unforked,
           Forked, Pick, Visit, ForkName, ForkDep, SplitFork, ForkVersion, ForkPython, Ended, vars
  <1>k. Conflicting' = Conflicting
    BY <1>c DEF Conflicting
  <1>a. NewState({}).exclude = {}
    BY NewStatePython
  <1> USE DEF ExcludedConflict
  <1>1. CASE UNCHANGED <<state, forkedStates, old, forks>>
    BY <1>1, <1>k
  <1>2. CASE Solved
    BY <1>2, <1>a, <1>k DEF Solved, call
  <1>3. CASE ForkSet
    <2>1. /\ set \in 1..Len(conflicts) /\ conflicts[set] \in SUBSET Item
          /\ conflicts[set] \subseteq Conflicting
      BY <1>3, <1>t, ConstantTypes DEF ForkSet, TypeOK, Conflicting
    <2>2. ASSUME NEW f \in forks, NEW g \in ConflictParts(f, conflicts[set])
          PROVE  g.exclude \subseteq Conflicting
      <3>1. f \in Fork /\ f.exclude \subseteq Conflicting
        BY <1>t DEF TypeOK
      <3>2. \A in, out \in SUBSET conflicts[set] :
              FilterFork(f, in, out).exclude \subseteq Conflicting
        BY <2>1, <3>1, ForksExclude
      <3>3. g = f \/ \E in, out \in SUBSET conflicts[set] : g = FilterFork(f, in, out)
        BY <2>2 DEF ConflictParts
      <3> QED BY <3>1, <3>2, <3>3
    <2> QED BY <1>3, <1>k, <2>2 DEF ForkSet
  <1>4. CASE Unforked
    <2>1. PICK ds : state' = AddVersion(state, ds)
      BY <1>4 DEF Unforked
    <2> QED BY <1>4, <1>k, <1>t, <2>1, AddVersionPython DEF Unforked, Return, TypeOK
  <1>5. CASE Forked
    <2>1. ASSUME NEW f \in forks
          PROVE  AddVersion(WithEnv(state, f), f.deps).exclude \subseteq Conflicting
      <3>1. WithEnv(state, f) \in State /\ WithEnv(state, f).exclude = f.exclude
        BY <1>t, StateTypes DEF TypeOK, WithEnv, State
      <3> QED BY <3>1, AddVersionPython
    <2> QED BY <1>5, <1>a, <1>k, <2>1 DEF Forked, Return
  <1>6. ASSUME NEW s \in forkedStates, Pick(s) PROVE ExcludedConflict'
    BY <1>6, <1>k DEF Pick, call
  <1>7. ASSUME NEW p, Visit(p) PROVE ExcludedConflict'
    <2>1. NewFork(state).exclude = state.exclude
      BY DEF NewFork
    <2> QED BY <1>7, <1>k, <2>1 DEF Visit
  <1>8. ASSUME NEW n, ForkName(n) PROVE ExcludedConflict'
    <2>1. \A f \in forks : \A ds : AddDependencies(f, ds).exclude = f.exclude
      BY <1>t, ForksExclude DEF TypeOK
    <2> DEFINE Grow == [f \in forks |-> {d \in {c \in Relevant(package) : Name(c) = n} :
                                             IncludedByMarker(f, Marker[d])}]
    <2>2. forks' = forks \/ forks' = {AddDependencies(f, Grow[f]) : f \in forks}
      BY <1>8 DEF ForkName
    <2> HIDE DEF Grow
    <2>3. \A g \in forks' : \E f \in forks : g.exclude = f.exclude
      BY <2>1, <2>2
    <2> QED BY <1>8, <1>k, <2>3 DEF ForkName
  <1>9. ASSUME NEW d, ForkDep(d) PROVE ExcludedConflict'
    <2>1. \A f \in forks : \A ds : AddDependencies(f, ds).exclude = f.exclude
      BY <1>t, ForksExclude DEF TypeOK
    <2>2. \A g \in forks' \cup old' : \E f \in forks \cup old : g.exclude = f.exclude
      BY <1>9, <2>1 DEF ForkDep
    <2> QED BY <1>9, <1>k, <2>2 DEF ForkDep
  <1>10. ASSUME NEW f \in old, SplitFork(f) PROVE ExcludedConflict'
    <2>1. \A g \in Fork : \A ds : AddDependencies(g, ds).exclude = g.exclude
      BY ForksExclude
    <2>2. \A m : SetEnv(f, m) \in Fork /\ SetEnv(f, m).exclude = f.exclude
      BY <1>t, ForksExclude, ForkTypes DEF TypeOK
    <2>3. \A g \in ForkerParts(f, dep, marker) : g.exclude = f.exclude
      BY <2>1, <2>2 DEF ForkerParts
    <2> QED BY <1>10, <1>k, <2>3 DEF SplitFork
  <1>11. CASE (\E m : ForkVersion(m)) \/ (\E v : ForkPython(v))
    <2>1. PICK S : /\ \A s \in S : \E m : s = Narrowed(state, m)
                   /\ forkedStates' = forkedStates \cup S /\ state' = NewState({}) /\ UNCHANGED call
      BY <1>11, VersionSplits
    <2>2. \A s \in S : s.exclude \subseteq Conflicting
      BY <1>t, <2>1, NarrowedPython DEF TypeOK, PythonOK
    <2> QED BY <1>a, <1>k, <2>1, <2>2 DEF call
  <1> QED
    BY <1>1, <1>2, <1>3, <1>4, <1>5, <1>6, <1>7, <1>8, <1>9, <1>10, <1>11
       DEF Next, Step, Finish, NoSolution, NextName, NextDep, NamesDone, Ended, vars, call

\* After a step, the part an environment and a choice were in, or one made of it,
\* contains them.
LEMMA CoveredStep ==
    ASSUME CInv, [Next]_vars, TypeOK', phase' # "failed",
           NEW e \in Supported, NEW choice \in SUBSET Conflicting, Allowed(choice)
    PROVE  \E part \in Parts' : Contains(part, e, choice)
  <1>t. TInv /\ TypeOK
    BY DEF CInv, DInv, TInv
  <1>p. /\ phase \in {"pick", "end"} => Parts = forkedStates \cup resolutions
        /\ phase \in {"solve", "failed"} => Parts = forkedStates \cup resolutions \cup {state}
        /\ InFork => Parts = forkedStates \cup resolutions \cup (old \cup forks)
    BY DEF Parts, InFork
  <1>n. /\ phase' \in {"pick", "end"} => Parts' = forkedStates' \cup resolutions'
        /\ phase' = "solve" => Parts' = forkedStates' \cup resolutions' \cup {state'}
        /\ InFork' => Parts' = forkedStates' \cup resolutions' \cup (old' \cup forks')
    BY DEF Parts, InFork
  <1>m. forkedStates' \cup resolutions' \subseteq Parts'
    BY DEF Parts
  <1>1. CASE Ended \/ UNCHANGED vars
    <2>1. Parts' = Parts /\ phase # "failed"
      BY <1>1 DEF Ended, vars, call, Parts
    <2> QED BY <2>1 DEF CInv, Covered
  <1>2. CASE Step
    <2>1. phase # "failed"
      BY <1>2 DEF Step, Finish, Solved, NoSolution, NextName, NextDep, NamesDone, ForkSet, Unforked,
           Forked, Pick, Visit, ForkName, ForkDep, SplitFork, ForkVersion, ForkPython
    <2>2. PICK q \in Parts : Contains(q, e, choice)
      BY <2>1 DEF CInv, Covered
    <2>e. e \in Env /\ e \in Within(Target)
      BY DEF Supported, Within
    <2>3. CASE q \in forkedStates \cup resolutions /\ ~(\E s \in forkedStates : Pick(s))
      <3>1. forkedStates \cup resolutions \subseteq forkedStates' \cup resolutions'
        BY <1>2, <2>3
           DEF Step, Finish, Solved, NoSolution, NextName, NextDep, NamesDone, ForkSet, Unforked,
               Forked, Visit, ForkName, ForkDep, SplitFork, ForkVersion, ForkPython
      <3> QED BY <1>m, <2>2, <2>3, <3>1
    <2>4. CASE \E s \in forkedStates : Pick(s)
      <3>1. /\ phase = "pick" /\ phase' = "solve"
            /\ forkedStates \cup resolutions = forkedStates' \cup resolutions' \cup {state'}
        BY <2>4 DEF Pick
      <3> QED BY <1>n, <1>p, <2>2, <3>1
    <2>5. CASE phase = "solve" /\ q = state
      <3>s. state \in State
        BY <1>t DEF TypeOK
      <3>1. CASE Solved
        BY <1>m, <2>2, <2>5, <3>1 DEF Solved
      <3>2. ASSUME NEW p, Visit(p) PROVE \E part \in Parts' : Contains(part, e, choice)
        <4>1. InFork' /\ forks' = {NewFork(state)}
          BY <3>2 DEF Visit, InFork
        <4> QED BY <1>n, <2>2, <2>5, <3>s, <4>1, StatesKeep
      <3>3. ASSUME NEW m, ForkVersion(m) PROVE \E part \in Parts' : Contains(part, e, choice)
        <4>1. PICK n \in {m, Env \ m} : e \in n
          BY <2>e
        <4>2. Narrowed(state, n) \in forkedStates'
          BY <3>3 DEF ForkVersion
        <4> QED BY <1>m, <2>2, <2>5, <3>s, <4>1, <4>2, StatesKeep
      <3>4. ASSUME NEW v \in {Py[i] : i \in Env}, ForkPython(v)
            PROVE  \E part \in Parts' : Contains(part, e, choice)
        <4> DEFINE lower == [state.python EXCEPT !.hi = v - 1]
                   upper == [state.python EXCEPT !.lo = v]
        <4>1. v \in Int /\ Py \in [Env -> Int] /\ state.python \in Interval
          BY <3>s, ForksAssumption DEF State
        <4>2. e \in state.markers /\ e \in Within(state.python)
          BY <2>2, <2>5, <2>e DEF CInv, PythonOK, Contains
        <4>3. e \in Within(lower) \/ e \in Within(upper)
          BY <2>e, <4>1, <4>2 DEF Within, Interval
        <4>4. \A r \in {lower, upper} :
                IncludedByMarker(state, Within(r)) => Narrowed(state, Within(r)) \in forkedStates'
          BY <3>4 DEF ForkPython
        <4> HIDE DEF lower, upper
        <4>5. PICK r \in {lower, upper} : e \in Within(r)
          BY <4>3
        <4>6. Narrowed(state, Within(r)) \in forkedStates'
          BY <4>2, <4>4, <4>5 DEF IncludedByMarker
        <4> QED BY <1>m, <2>2, <2>5, <3>s, <4>5, <4>6, StatesKeep
      <3>5. ~NoSolution
        BY DEF NoSolution
      <3> QED
        BY <1>2, <2>4, <2>5, <3>1, <3>2, <3>3, <3>4, <3>5
           DEF Step, Finish, NextName, NextDep, NamesDone, ForkSet, Unforked, Forked, ForkName,
               ForkDep, SplitFork
    <2>6. CASE InFork /\ q \in old \cup forks
      <3>f. q \in Fork /\ q.exclude \subseteq Conflicting /\ state \in State /\ Inside(q, state)
        BY <1>t, <2>6 DEF TypeOK, CInv, DInv, ForksApart, ExcludedConflict
      <3>o. phase # "split" => old = {}
        BY DEF CInv, DInv, ForksApart
      <3>1. CASE NextName \/ NextDep \/ NamesDone
        <4>1. InFork' /\ old' \cup forks' = old \cup forks
          BY <3>1 DEF NextName, NextDep, NamesDone, call, InFork
        <4> QED BY <1>n, <2>2, <2>6, <4>1
      <3>2. CASE ForkSet
        <4>1. set \in 1..Len(conflicts) /\ conflicts[set] \in SUBSET Item
          BY <1>t, <3>2, ConstantTypes DEF ForkSet, TypeOK
        <4>2. q \in forks
          BY <2>6, <3>2, <3>o DEF ForkSet
        <4>3. \E g \in ConflictParts(q, conflicts[set]) : Contains(g, e, choice)
          BY <2>2, <3>f, <4>1, ConflictKeeps
        <4>4. InFork' /\ ConflictParts(q, conflicts[set]) \subseteq forks'
          BY <3>2, <4>2 DEF ForkSet, InFork
        <4> QED BY <1>n, <4>3, <4>4
      <3>3. CASE Unforked
        <4>1. PICK ds : phase' = "solve" /\ state' = AddVersion(state, ds)
          BY <3>3 DEF Unforked
        <4>2. Contains(state, e, choice)
          BY <2>2, <3>f, ContainsInside
        <4> QED BY <1>n, <3>f, <4>1, <4>2, StatesKeep
      <3>4. CASE Forked
        <4>1. q \in forks
          BY <2>6, <3>4, <3>o DEF Forked
        <4>2. AddVersion(WithEnv(state, q), q.deps) \in forkedStates'
          BY <3>4, <4>1 DEF Forked
        <4> QED BY <1>m, <2>2, <3>f, <4>2, StatesKeep
      <3>5. ASSUME NEW n, ForkName(n) PROVE \E part \in Parts' : Contains(part, e, choice)
        <4>1. q \in forks /\ InFork'
          BY <2>6, <3>5, <3>o DEF ForkName, InFork
        <4> DEFINE Grow == [f \in forks |-> {d \in {c \in Relevant(package) : Name(c) = n} :
                                                 IncludedByMarker(f, Marker[d])}]
        <4>2. forks' = forks \/ forks' = {AddDependencies(f, Grow[f]) : f \in forks}
          BY <3>5 DEF ForkName
        <4> HIDE DEF Grow
        <4>3. q \in forks' \/ AddDependencies(q, Grow[q]) \in forks'
          BY <4>1, <4>2
        <4> QED BY <1>n, <2>2, <3>f, <4>1, <4>3, ForksKeep
      <3>6. ASSUME NEW d, ForkDep(d) PROVE \E part \in Parts' : Contains(part, e, choice)
        <4>1. q \in forks /\ InFork'
          BY <2>6, <3>6, <3>o DEF ForkDep, InFork
        <4>2. q \in old' \/ AddDependencies(q, {d}) \in forks'
          BY <3>6, <4>1 DEF ForkDep
        <4> QED BY <1>n, <2>2, <3>f, <4>1, <4>2, ForksKeep
      <3>7. ASSUME NEW f \in old, SplitFork(f) PROVE \E part \in Parts' : Contains(part, e, choice)
        <4>1. InFork' /\ dep \in Dep /\ marker \in SUBSET Env
          BY <1>t, <3>7 DEF SplitFork, InFork, TInv, TypeOK, InCall
        <4>2. CASE q # f \/ q \in forks
          <5>1. q \in old' \cup forks'
            BY <2>6, <3>7, <4>2 DEF SplitFork
          <5> QED BY <1>n, <2>2, <4>1, <5>1
        <4>3. CASE q = f /\ ~IncludedByMarker(f, marker)
          <5>1. q \in forks'
            BY <3>7, <4>3 DEF SplitFork
          <5> QED BY <1>n, <2>2, <4>1, <5>1
        <4>4. CASE q = f /\ IncludedByMarker(f, marker)
          <5>1. PICK g \in ForkerParts(f, dep, marker) : Contains(g, e, choice)
            BY <2>2, <2>e, <3>f, <4>1, <4>4, ForkerKeeps
          <5>2. e \in Within(state.python)
            BY <2>2, <2>e, <3>f DEF CInv, PythonOK, Contains, Inside
          <5>3. g \in forks'
            BY <3>7, <4>4, <5>1, <5>2 DEF SplitFork, IncludedByMarker, Contains
          <5> QED BY <1>n, <4>1, <5>1, <5>3
        <4> QED BY <4>2, <4>3, <4>4
      <3> QED
        BY <1>2, <2>4, <2>6, <3>1, <3>2, <3>3, <3>4, <3>5, <3>6, <3>7
           DEF Step, InFork, Finish, Solved, NoSolution, Visit, ForkVersion, ForkPython
    <2>7. phase \in Phase
      BY <1>t DEF TypeOK
    <2> QED BY <1>p, <2>1, <2>2, <2>3, <2>4, <2>5, <2>6, <2>7 DEF Phase, InFork
  <1> QED BY <1>1, <1>2 DEF Next

\* Every step preserves the inductive invariant.
LEMMA CoverInductive == CInv /\ [Next]_vars => CInv'
  <1> SUFFICES ASSUME CInv, [Next]_vars PROVE CInv'
    OBVIOUS
  <1>1. DInv'
    BY DisjointStep DEF CInv
  <1>2. PythonOK' /\ ExcludedConflict'
    BY PythonStep, ExcludedStep DEF CInv, DInv
  <1>3. conflicts' = conflicts
    BY DEF Next, Step, Finish, Solved, NoSolution, NextName, NextDep, NamesDone, ForkSet, Unforked,
           Forked, Pick, Visit, ForkName, ForkDep, SplitFork, ForkVersion, ForkPython, Ended, vars
  <1>4. Conflicting' = Conflicting
    BY <1>3 DEF Conflicting
  <1>5. Covered'
    <2> SUFFICES ASSUME phase' # "failed", NEW e \in Supported, NEW choice \in SUBSET Conflicting,
                        Allowed(choice)'
                 PROVE  \E part \in Parts' : Contains(part, e, choice)
      BY <1>4 DEF Covered
    <2>1. Allowed(choice)
      BY <1>3, <1>4 DEF Allowed
    <2>2. TypeOK'
      BY <1>1 DEF DInv, TInv
    <2> QED BY <2>1, <2>2, CoveredStep
  <1> QED BY <1>1, <1>2, <1>5 DEF CInv

\* The initial forks contain the supported environments, with every choice.
LEMMA CoverInit == Init => CInv
  <1> SUFFICES ASSUME Init PROVE CInv
    OBVIOUS
  <1>1. DInv
    BY DisjointInit
  <1>2. PythonOK /\ ExcludedConflict
    BY NewStatePython, ConstantTypes DEF Init, PythonOK, ExcludedConflict
  <1>3. Covered
    <2> SUFFICES ASSUME NEW e \in Supported, NEW choice PROVE \E part \in Parts : Contains(part, e, choice)
      BY DEF Covered
    <2>1. PICK m \in Initial : e \in m
      BY DEF Supported
    <2>2. NewState(m) \in Parts
      BY DEF Init, Parts
    <2>3. Contains(NewState(m), e, choice)
      BY <2>1 DEF NewState, Contains
    <2> QED BY <2>2, <2>3
  <1> QED BY <1>1, <1>2, <1>3 DEF CInv

\* No environment is forgotten: for any packages, markers and conflict sets, a
\* supported environment and an allowed choice of items are in some part until
\* the resolution fails.
THEOREM ForksCover == Spec => []Covered
  BY CoverInit, CoverInductive, PTL DEF Spec, CInv
-----------------------------------------------------------------------------
(* What a state has of dependencies.                                       *)

\* No extra that goes by the name of one with dependencies, in a package that
\* is depended on, is in a conflict, nor is that package.
TwinsFree ==
    \A declared \in Declared : \A k \in 1..Len(declared) :
        \A p \in Package \cap Extra : \A d \in Deps[p] :
            LET t == Twin[<<p, Name(d)>>] IN {t, Base[t]} \cap declared[k] = {}

\* Where a state stands for environment e and a choice, it has d if a package
\* it has added needs d.
StatesHave(d, e, choice) ==
    \A s \in forkedStates \cup resolutions \cup {state} :
        Contains(s, e, choice) => \A p \in s.added : d \in Deps[p] => d \in s.deps

\* So have the forks, once they have looked at d.
ForksHave(d, e, choice) ==
    InFork /\ d \in Deps[package] /\ Name(d) \notin names /\ d \notin deps =>
        /\ \A f \in forks : Contains(f, e, choice) => d \in f.deps
        /\ d # dep => \A f \in old : Contains(f, e, choice) => d \in f.deps

NamesSeen == phase = "sets" => names = {}

NInv ==
    /\ CInv /\ VInv /\ NamesSeen
    /\ \A e \in Supported, choice \in SUBSET Conflicting : Allowed(choice) =>
         \A d \in Dep : Needed(d, e, choice) => StatesHave(d, e, choice) /\ ForksHave(d, e, choice)

\* A dependency that is needed is not left out with what is left out.
LEMMA NeededIncluded ==
    ASSUME NEW g, g.exclude \subseteq Conflicting,
           NEW e, NEW choice, Contains(g, e, choice), NEW d, Needed(d, e, choice)
    PROVE  IncludedByGroup(g, ItemOf[d])
  BY DEF Needed, Contains, IncludedByGroup, Name

\* It matters to a state that stands for where it is needed.
LEMMA NeededRelevant ==
    ASSUME CInv, TwinsFree, NEW e \in Supported, NEW choice, Contains(state, e, choice),
           NEW p \in Package, NEW d \in Deps[p], Needed(d, e, choice)
    PROVE  d \in Relevant(p)
  <1>1. e \in Marker[d] /\ e \in state.markers
    BY DEF Needed, Contains
  <1>2. e \in Within(state.python)
    BY <1>1 DEF CInv, PythonOK, Supported
  <1>3. ASSUME p \in Extra PROVE IncludedByGroup(state, Twin[<<p, Name(d)>>])
    <2> DEFINE t == Twin[<<p, Name(d)>>]
    <2>1. conflicts \in Declared
      BY DEF CInv, DInv, TInv, TypeOK
    <2>2. t \notin Conflicting /\ Base[t] \notin Conflicting
      BY <1>3, <2>1 DEF TwinsFree, Conflicting
    <2>3. state.exclude \subseteq Conflicting
      BY DEF CInv, ExcludedConflict
    <2> HIDE DEF t
    <2>4. IncludedByGroup(state, t)
      BY <2>2, <2>3 DEF IncludedByGroup
    <2> QED BY <2>4 DEF t
  <1> QED BY <1>1, <1>2, <1>3 DEF Relevant, IncludedByMarker

\* A `Forker` takes it from no fork that needs it, and gives it to those that do.
LEMMA ForkerGives ==
    ASSUME NEW f \in Fork, NEW c \in Dep, NEW m \in SUBSET Env, NEW e, NEW choice, NEW d \in Dep,
           NEW g \in ForkerParts(f, c, m), Contains(g, e, choice), e \in Marker[d],
           d \in f.deps \/ d = c
    PROVE  d \in g.deps
  <1>1. PICK n \in {Env \ m, m} :
          g = IF IncludedByMarker(SetEnv(f, n), Marker[c])
              THEN AddDependencies(SetEnv(f, n), {c}) ELSE SetEnv(f, n)
    BY DEF ForkerParts
  <1> DEFINE h == SetEnv(f, n)
  <1>2. h \in Fork /\ h.markers = f.markers \cap n
    BY ForkTypes, ForkFields
  <1>3. h.deps = {b \in f.deps : Marker[b] \cap f.markers \cap n # {}}
    BY ForkFields
  <1>4. g = IF IncludedByMarker(h, Marker[c]) THEN AddDependencies(h, {c}) ELSE h
    BY <1>1
  <1> HIDE DEF h
  <1>5. AddDependencies(h, {c}).markers = h.markers /\ AddDependencies(h, {c}).deps = h.deps \cup {c}
    BY <1>2, ForkFields
  <1>6. e \in h.markers
    BY <1>4, <1>5 DEF Contains
  <1>7. d \in f.deps => d \in h.deps
    BY <1>2, <1>3, <1>6
  <1>8. d = c => IncludedByMarker(h, Marker[c])
    BY <1>6 DEF IncludedByMarker
  <1> QED BY <1>4, <1>5, <1>7, <1>8

\* A conflict set takes it from no fork that needs it.
LEMMA ConflictGives ==
    ASSUME NEW f \in Fork, NEW s, NEW e, NEW choice, NEW d,
           NEW g \in ConflictParts(f, s), g.exclude \subseteq Conflicting,
           Contains(g, e, choice), Needed(d, e, choice), d \in f.deps
    PROVE  d \in g.deps
  <1>1. g = f \/ \E in, out : g = FilterFork(f, in, out)
    BY DEF ConflictParts
  <1>2. ASSUME NEW in, NEW out, g = FilterFork(f, in, out) PROVE d \in g.deps
    <2>1. g.deps = {c \in f.deps : IncludedByGroup(g, ItemOf[c]) \/ c \in Child}
      BY <1>2, ForkFields
    <2>2. IncludedByGroup(g, ItemOf[d])
      BY NeededIncluded
    <2> QED BY <2>1, <2>2
  <1> QED BY <1>1, <1>2

\* What is made of a state has its packages and dependencies.
LEMMA StateFields ==
    ASSUME NEW s \in State
    PROVE  /\ \A ds : LET t == AddVersion(s, ds) IN
                /\ t.added = s.added \cup {package} /\ t.deps = s.deps \cup ds
           /\ \A f : WithEnv(s, f).added = s.added /\ WithEnv(s, f).deps = s.deps
           /\ \A m : Narrowed(s, m).added = s.added /\ Narrowed(s, m).deps = s.deps
  <1>1. \A ds : LET t == AddVersion(s, ds) IN
           /\ t.added = s.added \cup {package} /\ t.deps = s.deps \cup ds
    BY DEF AddVersion, State
  <1>2. \A f : WithEnv(s, f).added = s.added /\ WithEnv(s, f).deps = s.deps
    BY DEF WithEnv, State
  <1>3. \A m : Narrowed(s, m).added = s.added /\ Narrowed(s, m).deps = s.deps
    BY <1>2 DEF Narrowed
  <1> QED BY <1>1, <1>2, <1>3

\* When `fork` returns, what the state stands for is in one of the forks.
LEMMA ForksCoverState ==
    ASSUME CInv, phase = "sets", NEW e \in Supported, NEW choice \in SUBSET Conflicting,
           Allowed(choice), Contains(state, e, choice)
    PROVE  \E f \in forks : Contains(f, e, choice)
  <1>1. Parts = forkedStates \cup resolutions \cup (old \cup forks) /\ old = {}
    BY DEF Parts, CInv, DInv, ForksApart
  <1>2. PICK part \in Parts : Contains(part, e, choice)
    BY DEF CInv, Covered
  <1>3. part \notin forkedStates \cup resolutions
    BY <1>2 DEF CInv, DInv, CurrentApart, AllApart, Apart, Contains
  <1> QED BY <1>1, <1>2, <1>3

\* No step takes what is needed from a state.
LEMMA StatesStep ==
    ASSUME CInv, VInv, TwinsFree, NamesSeen, [Next]_vars,
           NEW e \in Supported, NEW choice \in SUBSET Conflicting, Allowed(choice),
           NEW d \in Dep, Needed(d, e, choice), StatesHave(d, e, choice), ForksHave(d, e, choice)
    PROVE  StatesHave(d, e, choice)'
  <1>t. TInv /\ TypeOK /\ state \in State
    BY DEF CInv, DInv, TInv, TypeOK
  <1>f. InFork => \A f \in old \cup forks : f \in Fork /\ Inside(f, state)
    BY <1>t DEF CInv, DInv, ForksApart, TypeOK
  <1>1. CASE UNCHANGED <<state, forkedStates, resolutions>>
    BY <1>1 DEF StatesHave
  <1>2. CASE Solved
    <2>1. ~Contains(NewState({}), e, choice)
      BY DEF NewState, Contains
    <2> QED BY <1>2, <2>1 DEF Solved, StatesHave
  <1>3. ASSUME NEW s \in forkedStates, Pick(s) PROVE StatesHave(d, e, choice)'
    BY <1>3 DEF Pick, StatesHave
  <1>4. ASSUME phase = "sets", d \in Deps[package], NEW f \in forks, Contains(f, e, choice)
        PROVE  d \in f.deps
    BY <1>4 DEF NamesSeen, VInv, MarkerLeft, ForksHave, InFork
  <1>5. CASE Unforked
    <2> DEFINE ds == UNION {f.deps : f \in forks}
    <2>1. /\ phase = "sets" /\ state' = AddVersion(state, ds)
          /\ forkedStates' = forkedStates /\ resolutions' = resolutions
      BY <1>5 DEF Unforked
    <2>2. /\ state'.added = state.added \cup {package} /\ state'.deps = state.deps \cup ds
          /\ Inside(state', state)
      BY <1>t, <2>1, StateFields, StateRegions
    <2>3. ASSUME Contains(state', e, choice), d \in Deps[package] PROVE d \in ds
      <3>1. Contains(state, e, choice)
        BY <2>2, <2>3, ContainsInside
      <3>2. PICK f \in forks : Contains(f, e, choice)
        BY <2>1, <3>1, ForksCoverState
      <3> QED BY <1>4, <2>1, <2>3, <3>2
    <2>4. Contains(state', e, choice) => Contains(state, e, choice)
      BY <2>2, ContainsInside
    <2> HIDE DEF ds
    <2> QED BY <2>1, <2>2, <2>3, <2>4 DEF StatesHave
  <1>6. CASE Forked
    <2>1. /\ phase = "sets" /\ InFork /\ resolutions' = resolutions /\ state' = NewState({})
          /\ forkedStates' = forkedStates \cup {AddVersion(WithEnv(state, f), f.deps) : f \in forks}
      BY <1>6 DEF Forked, InFork
    <2>2. ~Contains(NewState({}), e, choice)
      BY DEF NewState, Contains
    <2>3. ASSUME NEW f \in forks, NEW s, s = AddVersion(WithEnv(state, f), f.deps),
                 Contains(s, e, choice), NEW p \in s.added, d \in Deps[p]
          PROVE  d \in s.deps
      <3>1. WithEnv(state, f) \in State
        BY <1>f, <1>t, <2>1, StateTypes
      <3>2. s.added = state.added \cup {package} /\ s.deps = state.deps \cup f.deps
        BY <1>t, <2>3, <3>1, StateFields
      <3>3. Inside(s, f) /\ Inside(f, state)
        BY <1>f, <1>t, <2>1, <2>3, StateRegions
      <3>4. Contains(f, e, choice) /\ Contains(state, e, choice)
        BY <2>3, <3>3, ContainsInside
      <3> QED BY <1>4, <2>1, <2>3, <3>2, <3>4 DEF StatesHave
    <2> QED BY <2>1, <2>2, <2>3 DEF StatesHave
  <1>7. CASE (\E m : ForkVersion(m)) \/ (\E v : ForkPython(v))
    <2>1. PICK S : /\ \A s \in S : \E m : s = Narrowed(state, m)
                   /\ forkedStates' = forkedStates \cup S /\ state' = NewState({}) /\ UNCHANGED call
      BY <1>7, VersionSplits
    <2>2. \A m : /\ Narrowed(state, m).added = state.added /\ Narrowed(state, m).deps = state.deps
                 /\ Inside(Narrowed(state, m), state)
      BY <1>t, StateFields, StateRegions
    <2>3. \A s \in S : s.added = state.added /\ s.deps = state.deps /\ Inside(s, state)
      BY <2>1, <2>2
    <2>4. \A s \in S : Contains(s, e, choice) => Contains(state, e, choice)
      BY <2>3, ContainsInside
    <2>5. ~Contains(NewState({}), e, choice)
      BY DEF NewState, Contains
    <2>6. resolutions' = resolutions
      BY <1>7 DEF ForkVersion, ForkPython
    <2> QED BY <2>1, <2>3, <2>4, <2>5, <2>6 DEF StatesHave
  <1> QED
    BY <1>1, <1>2, <1>3, <1>5, <1>6, <1>7
       DEF Next, Step, Finish, NoSolution, NextName, NextDep, NamesDone, ForkSet, Visit, ForkName,
           ForkDep, SplitFork, Ended, vars

\* Nor from a fork that has looked at it.
LEMMA ForksStep ==
    ASSUME CInv, CInv', VInv, TwinsFree, [Next]_vars,
           NEW e \in Supported, NEW choice \in SUBSET Conflicting, Allowed(choice),
           NEW d \in Dep, Needed(d, e, choice), ForksHave(d, e, choice)
    PROVE  ForksHave(d, e, choice)'
  <1>t. TInv /\ TypeOK /\ (phase # "split" => old = {})
    BY DEF CInv, DInv, TInv, ForksApart
  <1>p. InFork => package \in Package
    BY <1>t DEF TInv, InCall
  <1>f. InFork => \A f \in old \cup forks : f \in Fork /\ Inside(f, state)
    BY <1>t DEF CInv, DInv, ForksApart, TypeOK
  <1>r. ASSUME InFork, d \in Deps[package], NEW f \in old \cup forks, Contains(f, e, choice)
        PROVE  d \in Relevant(package) /\ e \in f.markers /\ e \in Marker[d]
    <2>1. Contains(state, e, choice)
      BY <1>f, <1>r, ContainsInside
    <2>2. e \in f.markers /\ e \in Marker[d]
      BY <1>r DEF Contains, Needed
    <2> QED BY <1>p, <1>r, <2>1, <2>2, NeededRelevant
  <1>m. MarkerLeft
    BY DEF VInv
  <1>1. CASE UNCHANGED vars
    BY <1>1 DEF vars, call, ForksHave, InFork
  <1>2. CASE ~InFork'
    BY <1>2 DEF ForksHave
  <1>3. ASSUME NEW p \in Package, Visit(p) PROVE ForksHave(d, e, choice)'
    <2>1. /\ package' = p /\ names' = {Name(c) : c \in Relevant(p)} /\ forks' = {NewFork(state)}
          /\ old' = {}
      BY <1>3, <1>t DEF Visit
    <2>2. ASSUME d \in Deps[p], Contains(NewFork(state), e, choice) PROVE Name(d) \in names'
      <3>1. Contains(state, e, choice)
        BY <2>2, <1>t, StateRegions, ContainsInside DEF TypeOK
      <3>2. d \in Relevant(p)
        BY <2>2, <3>1, NeededRelevant
      <3> QED BY <2>1, <3>2
    <2> QED BY <2>1, <2>2 DEF ForksHave
  <1>4. CASE NextName \/ NextDep \/ NamesDone
    <2>1. /\ InFork /\ package' = package /\ names' = names /\ deps' = deps
          /\ forks' = forks /\ old' = {}
      BY <1>4, <1>t DEF NextName, NextDep, NamesDone, call, InFork
    <2> QED BY <2>1 DEF ForksHave
  <1>5. ASSUME NEW n, ForkName(n) PROVE ForksHave(d, e, choice)'
    <2> DEFINE ds == {c \in Relevant(package) : Name(c) = n}
               Grow == [f \in forks |-> {c \in ds : IncludedByMarker(f, Marker[c])}]
    <2>1. /\ InFork /\ package' = package /\ names' = names \ {n} /\ deps = {} /\ old' = {}
      BY <1>5, <1>m, <1>t DEF ForkName, InFork, MarkerLeft
    <2>2. \/ forks' = {AddDependencies(f, Grow[f]) : f \in forks}
          \/ forks' = forks /\ deps' = ds
      BY <1>5 DEF ForkName
    <2> SUFFICES ASSUME d \in Deps[package], Name(d) \notin names', d \notin deps',
                        NEW g \in forks', Contains(g, e, choice)
                 PROVE  d \in g.deps
      BY <2>1 DEF ForksHave
    <2>3. \A f \in forks : Contains(f, e, choice) /\ Name(d) # n => d \in f.deps
      BY <2>1 DEF ForksHave
    <2>4. CASE forks' = forks /\ deps' = ds
      <3>1. d \in Relevant(package)
        BY <1>r, <2>1, <2>4
      <3> QED BY <2>3, <2>4, <3>1
    <2>5. CASE forks' = {AddDependencies(f, Grow[f]) : f \in forks}
      <3>1. PICK f \in forks : g = AddDependencies(f, Grow[f])
        BY <2>5
      <3>2. g.deps = f.deps \cup Grow[f] /\ Inside(g, f)
        BY <1>f, <2>1, <3>1, ForkFields, ForkRegions
      <3>3. Contains(f, e, choice)
        BY <3>2, ContainsInside
      <3>4. d \in Relevant(package) /\ e \in f.markers /\ e \in Marker[d]
        BY <1>r, <2>1, <3>3
      <3>5. Name(d) = n => d \in Grow[f]
        BY <3>4 DEF IncludedByMarker
      <3> QED BY <2>3, <3>2, <3>3, <3>5
    <2> QED BY <2>2, <2>4, <2>5
  <1>6. ASSUME NEW c, ForkDep(c) PROVE ForksHave(d, e, choice)'
    <2>1. /\ InFork /\ package' = package /\ names' = names /\ deps' = deps \ {c} /\ old = {}
          /\ \/ forks' = {AddDependencies(f, {c}) : f \in forks} /\ old' = {}
             \/ forks' = {} /\ old' = forks /\ dep' = c
      BY <1>6, <1>t DEF ForkDep, InFork
    <2>2. ASSUME d \in Deps[package], Name(d) \notin names', d \notin deps', d # c,
                 NEW f \in forks, Contains(f, e, choice)
          PROVE  d \in f.deps
      BY <2>1, <2>2 DEF ForksHave
    <2>3. ASSUME d \in Deps[package], Name(d) \notin names', d \notin deps',
                 NEW f \in forks, Contains(AddDependencies(f, {c}), e, choice)
          PROVE  d \in AddDependencies(f, {c}).deps
      <3>1. AddDependencies(f, {c}).deps = f.deps \cup {c} /\ Inside(AddDependencies(f, {c}), f)
        BY <1>f, <2>1, ForkFields, ForkRegions
      <3>2. Contains(f, e, choice)
        BY <2>3, <3>1, ContainsInside
      <3> QED BY <2>2, <2>3, <3>1, <3>2
    <2> QED BY <2>1, <2>2, <2>3 DEF ForksHave
  <1>7. ASSUME NEW f \in old, SplitFork(f) PROVE ForksHave(d, e, choice)'
    <2>1. /\ InFork /\ package' = package /\ names' = names /\ deps' = deps /\ old' = old \ {f}
          /\ dep' = dep /\ phase = "split"
      BY <1>7 DEF SplitFork, InFork
    <2>2. /\ f \in Fork /\ dep \in Dep /\ marker \in SUBSET Env
          /\ marker \cap f.markers = Marker[dep] \cap f.markers
      BY <1>f, <1>m, <1>t, <2>1 DEF MarkerLeft, TypeOK, TInv, InCall
    <2>3. \A g \in forks' : \/ g \in forks
                            \/ g \in ForkerParts(f, dep, marker)
                            \/ g = f /\ ~IncludedByMarker(f, marker)
      BY <1>7 DEF SplitFork
    <2> SUFFICES ASSUME d \in Deps[package], Name(d) \notin names, d \notin deps
                 PROVE  /\ \A g \in forks' : Contains(g, e, choice) => d \in g.deps
                        /\ d # dep => \A g \in old' : Contains(g, e, choice) => d \in g.deps
      BY <2>1 DEF ForksHave
    <2>4. /\ \A g \in forks : Contains(g, e, choice) => d \in g.deps
          /\ d # dep => \A g \in old : Contains(g, e, choice) => d \in g.deps
      BY <2>1 DEF ForksHave
    <2>5. ASSUME NEW g \in ForkerParts(f, dep, marker), Contains(g, e, choice) PROVE d \in g.deps
      <3>1. Inside(g, f)
        BY <2>2, ForkerPartsApart
      <3>2. Contains(f, e, choice)
        BY <2>5, <3>1, ContainsInside
      <3>3. e \in Marker[d] /\ (d \in f.deps \/ d = dep)
        BY <2>4, <3>2 DEF Needed
      <3> QED BY <2>2, <2>5, <3>3, ForkerGives
    <2>6. ASSUME Contains(f, e, choice), ~IncludedByMarker(f, marker) PROVE d \in f.deps
      <3>1. e \in f.markers /\ e \in Marker[d]
        BY <1>r, <2>1, <2>6
      <3>2. d # dep
        BY <2>2, <2>6, <3>1 DEF IncludedByMarker
      <3> QED BY <2>4, <2>6, <3>2
    <2> QED BY <2>1, <2>3, <2>4, <2>5, <2>6
  <1>8. CASE ForkSet
    <2>1. /\ InFork /\ InFork' /\ package' = package /\ names' = names /\ deps' = deps /\ old' = {}
          /\ forks' = UNION {ConflictParts(f, conflicts[set]) : f \in forks}
          /\ conflicts' = conflicts
      BY <1>8, <1>t DEF ForkSet, InFork
    <2>2. \A g \in forks' : g.exclude \subseteq Conflicting
      BY <2>1 DEF CInv, ExcludedConflict, Conflicting
    <2>3. conflicts[set] \in SUBSET Item
      BY <1>8, <1>t, ConstantTypes DEF ForkSet, TypeOK
    <2> SUFFICES ASSUME d \in Deps[package], Name(d) \notin names, d \notin deps,
                        NEW f \in forks, NEW g \in ConflictParts(f, conflicts[set]), Contains(g, e, choice)
                 PROVE  d \in g.deps
      BY <2>1 DEF ForksHave
    <2>4. Contains(f, e, choice)
      BY <1>f, <2>1, <2>3, ConflictPartsApart, ContainsInside
    <2>5. d \in f.deps
      BY <2>1, <2>4 DEF ForksHave
    <2> QED BY <1>f, <2>1, <2>2, <2>5, ConflictGives
  <1>9. CASE \/ Finish \/ NoSolution \/ Solved \/ Ended \/ Unforked \/ Forked
             \/ (\E s \in forkedStates : Pick(s))
             \/ (\E m \in Platforms : ForkVersion(m))
             \/ (\E v \in {Py[i] : i \in Env} : ForkPython(v))
    <2>1. ~InFork'
      BY <1>9 DEF Finish, NoSolution, Solved, Ended, Unforked, Forked, Pick, ForkVersion, ForkPython,
                  InFork, vars
    <2> QED BY <1>2, <2>1
  <1> QED
    BY <1>1, <1>3, <1>4, <1>5, <1>6, <1>7, <1>8, <1>9 DEF Next, Step

\* Every step preserves the inductive invariant, unless the name of an extra
\* misleads `is_requirement_applicable`.
LEMMA NothingLostStep == TwinsFree /\ NInv /\ [Next]_vars => NInv'
  <1> SUFFICES ASSUME TwinsFree, NInv, [Next]_vars PROVE NInv'
    OBVIOUS
  <1>1. CInv' /\ VInv'
    BY CoverInductive, ItemsStep DEF NInv
  <1>2. NamesSeen'
    BY DEF NInv, NamesSeen, Next, Step, Finish, Solved, NoSolution, NextName, NextDep, NamesDone,
           ForkSet, Unforked, Forked, Pick, Visit, ForkName, ForkDep, SplitFork, ForkVersion,
           ForkPython, Ended, vars, call
  <1>3. conflicts' = conflicts
    BY DEF Next, Step, Finish, Solved, NoSolution, NextName, NextDep, NamesDone, ForkSet, Unforked,
           Forked, Pick, Visit, ForkName, ForkDep, SplitFork, ForkVersion, ForkPython, Ended, vars
  <1>4. Conflicting' = Conflicting
    BY <1>3 DEF Conflicting
  <1>5. ASSUME NEW e \in Supported, NEW choice \in SUBSET Conflicting, Allowed(choice)',
               NEW d \in Dep, Needed(d, e, choice)'
        PROVE  StatesHave(d, e, choice)' /\ ForksHave(d, e, choice)'
    <2>1. Allowed(choice) /\ Needed(d, e, choice)
      BY <1>3, <1>4, <1>5 DEF Allowed, Needed
    <2>2. StatesHave(d, e, choice) /\ ForksHave(d, e, choice)
      BY <2>1 DEF NInv
    <2>3. CInv /\ VInv /\ NamesSeen
      BY DEF NInv
    <2> QED BY <1>1, <2>1, <2>2, <2>3, StatesStep, ForksStep
  <1> QED BY <1>1, <1>2, <1>4, <1>5 DEF NInv

\* At the start nothing has been added.
LEMMA NothingLostInit == Init => NInv
  <1> SUFFICES ASSUME Init PROVE NInv
    OBVIOUS
  <1>1. CInv /\ VInv /\ NamesSeen /\ ~InFork
    BY CoverInit, ItemsInit DEF Init, NamesSeen, InFork
  <1>2. \A m : NewState(m).added = {}
    BY DEF NewState
  <1>3. \A s \in forkedStates \cup resolutions \cup {state} : s.added = {}
    BY <1>2 DEF Init
  <1> QED BY <1>1, <1>3 DEF NInv, StatesHave, ForksHave

\* No dependency is lost, for any packages, markers, conflict sets and order of
\* splits, as long as no extra of a package depended on has the name of the extra
\* that depends on it and is in a conflict with others.
THEOREM DependenciesKept == TwinsFree => (Spec => []NothingLost)
  <1>1. NInv => NothingLost
    <2> SUFFICES ASSUME NInv, NEW s \in forkedStates \cup resolutions, NEW e \in Supported,
                        NEW choice \in SUBSET Conflicting, Allowed(choice), Contains(s, e, choice),
                        NEW p \in s.added, NEW d \in Deps[p], Needed(d, e, choice)
                 PROVE  d \in s.deps
      BY DEF NothingLost
    <2>1. TypeOK
      BY DEF NInv, CInv, DInv, TInv
    <2>2. d \in Dep
      BY <2>1, ConstantTypes DEF TypeOK, State
    <2> QED BY <2>2 DEF NInv, StatesHave
  <1> SUFFICES ASSUME TwinsFree PROVE Spec => []NothingLost
    OBVIOUS
  <1>2. NInv /\ [Next]_vars => NInv'
    BY NothingLostStep
  <1> QED BY <1>1, <1>2, NothingLostInit, PTL DEF Spec
-----------------------------------------------------------------------------
(* Conflict sets that have no item in common.                              *)

\* A set of one item conflicts with nothing.
Lone(s) == \A i, j \in s : i = j

\* A state or a fork has decided on no item of a conflict set, or on all.
Decided(p, s) ==
    \/ s \cap (p.include \cup p.exclude) = {}
    \/ /\ ~Lone(s) /\ Lone(s \cap p.include)
       /\ s \subseteq p.include \cup p.exclude /\ s \cap p.include \cap p.exclude = {}
Settled(p) == \A k \in 1..Len(conflicts) : Decided(p, conflicts[k])

\* An item of the set that p depends on is one that p includes.
Chosen(p, s) ==
    \A d \in p.deps \ Child : ItemOf[d] \in s => ItemOf[d] \in p.include \/ Lone(s)

SameItems(p, q) == p.include = q.include /\ p.exclude = q.exclude

Made(p) == Settled(p) /\ \A k \in 1..Len(conflicts) : Chosen(p, conflicts[k])

StatesChosen ==
    /\ \A s \in forkedStates \cup resolutions \cup {state} : Made(s)
    /\ \A s \in resolutions : s.exclude \subseteq Conflicting

\* The conflict sets before the next have been looked at.
ForksChosen ==
    /\ \A f \in old \cup forks : Settled(f)
    /\ InFork /\ phase # "sets" => set = 1
    /\ \A f \in forks : \A k \in 1..(set - 1) : Chosen(f, conflicts[k])

\* If a set has split the forks, there are several to the end.
OneOrSplit ==
    InFork =>
        \/ \A f \in old \cup forks : SameItems(f, state)
        \/ phase = "sets" /\ \E f, g \in forks : f.exclude # g.exclude

XInv == CInv /\ VInv /\ (SetsApart => StatesChosen /\ ForksChosen /\ OneOrSplit)

\* Nothing but the items matters to what is decided.
LEMMA SettledSame ==
    ASSUME NEW p, NEW q, SameItems(p, q), Settled(p)
    PROVE  Settled(q)
  BY DEF SameItems, Settled, Decided

\* What is added to a part is chosen if it was, and a part that includes more has
\* chosen what the other has.
LEMMA ChosenInside ==
    ASSUME NEW p, NEW q, q.deps \subseteq p.deps, p.include \subseteq q.include, NEW s, Chosen(p, s)
    PROVE  Chosen(q, s)
  BY DEF Chosen

\* A conflicting item is possible unless it is left out itself.
LEMMA PossibleItem ==
    ASSUME SetsApart, NEW p, p.exclude \subseteq Conflicting, NEW i \in Conflicting
    PROVE  IncludedByGroup(p, i) <=> i \notin p.exclude
  BY DEF SetsApart, IncludedByGroup

\* What `fork` makes of a fork for a conflict set has chosen among its items: either
\* they were decided before, or there is now a part with each.
LEMMA SetChosen ==
    ASSUME TypeOK, SetsApart, NEW f \in Fork, Settled(f), f.exclude \subseteq Conflicting,
           f.conflicts = {ItemOf[d] : d \in f.deps},
           NEW k \in 1..Len(conflicts), NEW s, s = conflicts[k]
    PROVE  LET parts == ConflictParts(f, s) IN
           /\ \A g \in parts : Settled(g) /\ Chosen(g, s) /\ g.deps \subseteq f.deps
           /\ \/ parts # {} /\ \A g \in parts : SameItems(g, f)
              \/ \E g, h \in parts : g.exclude # h.exclude
  <1> DEFINE parts == ConflictParts(f, s)
             shut  == {i \in s : ~IncludedByGroup(f, i)}
  <1>1. s \subseteq Conflicting /\ Decided(f, s)
    BY DEF Conflicting, Settled
  <1>2. \A i \in s : IncludedByGroup(f, i) <=> i \notin f.exclude
    BY <1>1, PossibleItem
  <1>3. ASSUME NEW in, NEW out, NEW g, g = FilterFork(f, in, out)
        PROVE  /\ g.include = f.include \cup in /\ g.exclude = f.exclude \cup out
               /\ g.deps \subseteq f.deps
               /\ \A d \in g.deps \ Child : ItemOf[d] \notin g.exclude
    <2>1. /\ g.include = f.include \cup in /\ g.exclude = f.exclude \cup out
          /\ g.deps = {d \in f.deps : IncludedByGroup(g, ItemOf[d]) \/ d \in Child}
      BY <1>3, ForkFields
    <2> QED BY <2>1 DEF IncludedByGroup
  <1>5. shut = s \cap f.exclude
    BY <1>2
  <1>6. CASE f.conflicts \cap s = {}
    <2>1. parts = {f}
      BY <1>6 DEF ConflictParts
    <2>2. \A d \in f.deps : ItemOf[d] \notin s
      BY <1>6
    <2>3. Chosen(f, s)
      BY <2>2 DEF Chosen
    <2> QED BY <2>1, <2>3 DEF SameItems
  <1>7. CASE f.conflicts \cap s # {} /\ Dominated(f, s)
    <2>1. shut \cap f.include = {}
      BY <1>1, <1>5 DEF Decided
    <2>2. parts = {FilterFork(f, {}, shut)}
      BY <1>7, <2>1 DEF ConflictParts, Compatible
    <2> DEFINE g == FilterFork(f, {}, shut)
    <2>a. /\ g.include = f.include \cup {} /\ g.exclude = f.exclude \cup shut
          /\ g.deps \subseteq f.deps /\ \A d \in g.deps \ Child : ItemOf[d] \notin g.exclude
      BY <1>3
    <2> HIDE DEF g
    <2>3. g.include = f.include /\ g.exclude = f.exclude
      BY <1>5, <2>a
    <2>4. ASSUME NEW d \in g.deps \ Child, ItemOf[d] \in s PROVE ItemOf[d] \in g.include \/ Lone(s)
      <3>1. ItemOf[d] \notin f.exclude
        BY <2>a, <2>3, <2>4
      <3>2. CASE s \cap (f.include \cup f.exclude) = {}
        <4>1. {i \in s : IncludedByGroup(f, i)} = s
          BY <1>2, <3>2
        <4>2. Lone(s)
          BY <1>7, <4>1 DEF Dominated, Lone
        <4> QED BY <4>2
      <3>3. CASE s \subseteq f.include \cup f.exclude
        BY <2>3, <2>4, <3>1, <3>3
      <3> QED BY <1>1, <3>2, <3>3 DEF Decided
    <2>5. SameItems(g, f) /\ SameItems(f, g)
      BY <2>3 DEF SameItems
    <2>6. Settled(g)
      BY <2>5, SettledSame
    <2>7. Chosen(g, s)
      BY <2>4 DEF Chosen
    <2> QED BY <2>2, <2>a, <2>5, <2>6, <2>7 DEF g
  <1>8. CASE f.conflicts \cap s # {} /\ ~Dominated(f, s)
    <2> DEFINE rest == FilterFork(f, {}, s)
               Only(i) == FilterFork(f, {i}, s \ {i})
    <2>1. \E i, j \in s : i # j /\ i \notin f.exclude /\ j \notin f.exclude
      <3>1. \A i \in s : \A l \in 1..Len(conflicts) :
              conflicts[l] # s => i \notin conflicts[l]
        BY DEF SetsApart
      <3> QED BY <1>2, <1>8, <3>1 DEF Dominated
    <2>2. ~Lone(s) /\ s \cap (f.include \cup f.exclude) = {}
      BY <1>1, <2>1 DEF Decided, Lone
    <2>3. parts = {rest} \cup {Only(i) : i \in s}
      <3>1. Compatible(f, {}, s) /\ \A j \in s : Compatible(f, {j}, s \ {j})
        BY <2>2 DEF Compatible
      <3>2. {j \in s : Compatible(f, {j}, s \ {j})} = s
        BY <3>1
      <3> QED BY <1>8, <3>1, <3>2 DEF ConflictParts
    <2>r. rest = FilterFork(f, {}, s)
      OBVIOUS
    <2> HIDE DEF rest
    <2>4. /\ \A j : j \in rest.include <=> j \in f.include
          /\ rest.exclude = f.exclude \cup s
          /\ rest.deps \subseteq f.deps /\ \A d \in rest.deps \ Child : ItemOf[d] \notin rest.exclude
      BY <1>3, <2>r
    <2>5. ASSUME NEW i
          PROVE  /\ Only(i).include = f.include \cup {i} /\ Only(i).exclude = f.exclude \cup (s \ {i})
                 /\ Only(i).deps \subseteq f.deps
                 /\ \A d \in Only(i).deps \ Child : ItemOf[d] \notin Only(i).exclude
      BY <1>3
    <2> HIDE DEF Only
    <2>6. Chosen(rest, s)
      BY <2>4 DEF Chosen
    <2>7. ASSUME NEW i \in s PROVE Chosen(Only(i), s)
      <3>1. \A d \in Only(i).deps \ Child : ItemOf[d] \in s => ItemOf[d] = i
        BY <2>5
      <3> QED BY <2>5, <3>1 DEF Chosen
    <2>8. ASSUME NEW g, NEW in \in SUBSET s, Lone(in), g.include = f.include \cup in,
                 g.exclude = f.exclude \cup (s \ in)
          PROVE  Settled(g)
      <3> SUFFICES ASSUME NEW l \in 1..Len(conflicts) PROVE Decided(g, conflicts[l])
        BY DEF Settled
      <3>1. CASE conflicts[l] = s
        <4>1. s \cap g.include = in /\ s \cap g.exclude = s \ in
          BY <2>2, <2>8
        <4> QED BY <2>2, <2>8, <3>1, <4>1 DEF Decided
      <3>2. CASE conflicts[l] \cap s = {}
        <4>1. Decided(f, conflicts[l])
          BY DEF Settled
        <4>2. /\ conflicts[l] \cap g.include = conflicts[l] \cap f.include
              /\ conflicts[l] \cap g.exclude = conflicts[l] \cap f.exclude
          BY <2>8, <3>2
        <4> QED BY <4>1, <4>2 DEF Decided
      <3> QED BY <3>1, <3>2 DEF SetsApart
    <2>9. Settled(rest)
      <3>0. rest.include = f.include \cup {}
        BY <2>4
      <3>1. Lone({}) /\ rest.include = f.include \cup {} /\ rest.exclude = f.exclude \cup (s \ {})
        BY <2>4, <3>0 DEF Lone
      <3> QED BY <2>8, <3>1
    <2>10. ASSUME NEW i \in s PROVE Settled(Only(i))
      <3>1. Lone({i}) /\ {i} \in SUBSET s
        BY DEF Lone
      <3> QED BY <2>5, <2>8, <3>1
    <2>11. PICK i \in s : TRUE
      BY <2>1
    <2>12. rest.exclude # Only(i).exclude
      BY <2>2, <2>4, <2>5
    <2> QED BY <2>3, <2>4, <2>5, <2>6, <2>7, <2>9, <2>10, <2>12
  <1> QED BY <1>6, <1>7, <1>8

\* Markers and dependencies leave the items of a fork alone.
LEMMA MarkersSame ==
    ASSUME NEW f \in Fork
    PROVE  /\ \A ds : SameItems(AddDependencies(f, ds), f)
           /\ \A m : SameItems(SetEnv(f, m), f)
           /\ \A d, m : \A g \in ForkerParts(f, d, m) : SameItems(g, f)
  <1>1. ASSUME NEW g \in Fork, NEW ds PROVE SameItems(AddDependencies(g, ds), g)
    BY DEF AddDependencies, Fork, SameItems
  <1>2. ASSUME NEW m PROVE SameItems(SetEnv(f, m), f)
    <2> DEFINE h == [f EXCEPT !.markers = @ \cap m]
    <2>1. h \in Fork /\ SameItems(h, f)
      BY DEF Fork, SameItems
    <2>2. \A keep : SameItems(Retain(h, keep), h)
      BY <2>1 DEF Retain, Fork, SameItems
    <2> HIDE DEF h
    <2>3. \E keep : SetEnv(f, m) = Retain(h, keep)
      BY DEF SetEnv, h
    <2> QED BY <2>1, <2>2, <2>3 DEF SameItems
  <1>3. ASSUME NEW d, NEW m, NEW g \in ForkerParts(f, d, m) PROVE SameItems(g, f)
    <2>1. \E n : g = SetEnv(f, n) \/ g = AddDependencies(SetEnv(f, n), {d})
      BY DEF ForkerParts
    <2>2. \A n : SetEnv(f, n) \in Fork
      BY ForkTypes
    <2> QED BY <1>1, <1>2, <2>1, <2>2 DEF SameItems
  <1> QED BY <1>1, <1>2, <1>3

\* What is made of a state has its items, or those of the fork it is made from.
LEMMA StatesSame ==
    ASSUME NEW s \in State
    PROVE  /\ \A ds : SameItems(AddVersion(s, ds), s)
           /\ \A f : SameItems(WithEnv(s, f), f)
           /\ \A m : SameItems(Narrowed(s, m), s)
  <1>1. \A ds : SameItems(AddVersion(s, ds), s)
    BY DEF AddVersion, State, SameItems
  <1>2. \A f : SameItems(WithEnv(s, f), f)
    BY DEF WithEnv, State, SameItems
  <1>3. ASSUME NEW m PROVE SameItems(Narrowed(s, m), s)
    <2> DEFINE t == [s EXCEPT !.markers = @ \cap m]
    <2>1. SameItems(t, s)
      BY DEF State, SameItems
    <2> HIDE DEF t
    <2>2. Narrowed(s, m) = WithEnv(s, t)
      BY DEF Narrowed, t
    <2> QED BY <1>2, <2>1, <2>2 DEF SameItems
  <1> QED BY <1>1, <1>2, <1>3

\* The conflict sets never change.
LEMMA ConflictsSame == [Next]_vars => conflicts' = conflicts
  BY DEF Next, Step, Finish, Solved, NoSolution, NextName, NextDep, NamesDone, ForkSet, Unforked,
         Forked, Pick, Visit, ForkName, ForkDep, SplitFork, ForkVersion, ForkPython, Ended, vars

\* A state that a step makes has chosen: where it is made from the forks, they have
\* looked at every set, and one that came back alone has the items of the state.
LEMMA StatesChosenStep ==
    ASSUME CInv, SetsApart, StatesChosen, ForksChosen, OneOrSplit, [Next]_vars
    PROVE  StatesChosen'
  <1>t. TInv /\ TypeOK /\ state \in State /\ set \in Int
    BY DEF CInv, DInv, TInv, TypeOK
  <1>f. InFork => \A f \in old \cup forks : f \in Fork /\ Inside(f, state)
    BY <1>t DEF CInv, DInv, ForksApart, TypeOK
  <1>c. conflicts' = conflicts
    BY ConflictsSame
  <1>m. \A p : Made(p)' <=> Made(p)
    BY <1>c DEF Made, Settled
  <1>k. Conflicting' = Conflicting
    BY <1>c DEF Conflicting
  <1>n. Made(NewState({}))
    BY DEF NewState, Made, Settled, Decided, Chosen
  <1>e. state.exclude \subseteq Conflicting
    BY DEF CInv, ExcludedConflict
  <1> SUFFICES /\ \A s \in forkedStates' \cup resolutions' \cup {state'} : Made(s)
               /\ \A s \in resolutions' : s.exclude \subseteq Conflicting
    BY <1>k, <1>m DEF StatesChosen
  <1> USE DEF StatesChosen
  <1>1. CASE UNCHANGED <<state, forkedStates, resolutions>>
    BY <1>1
  <1>2. CASE Solved
    BY <1>2, <1>e, <1>n DEF Solved
  <1>3. ASSUME NEW s \in forkedStates, Pick(s)
        PROVE  /\ \A t \in forkedStates' \cup resolutions' \cup {state'} : Made(t)
               /\ \A t \in resolutions' : t.exclude \subseteq Conflicting
    BY <1>3 DEF Pick
  <1>4. ASSUME set > Len(conflicts), NEW f \in forks, NEW k \in 1..Len(conflicts)
        PROVE  Chosen(f, conflicts[k])
    <2>1. k \in 1..(set - 1)
      BY <1>t, <1>4
    <2> QED BY <2>1 DEF ForksChosen
  <1>5. CASE Unforked
    <2> DEFINE ds == UNION {f.deps : f \in forks}
    <2>1. /\ phase = "sets" /\ InFork /\ set > Len(conflicts) /\ state' = AddVersion(state, ds)
          /\ forkedStates' = forkedStates /\ resolutions' = resolutions
          /\ \A f, g \in forks : f = g
      BY <1>5 DEF Unforked, InFork
    <2>2. \A f \in forks : f.include = state.include
      BY <2>1 DEF OneOrSplit, SameItems
    <2>3. SameItems(state', state) /\ SameItems(state, state') /\ state'.deps = state.deps \cup ds
      BY <1>t, <2>1, StatesSame, StateFields DEF SameItems
    <2>4. Settled(state')
      BY <2>3, SettledSame DEF Made
    <2>5. ASSUME NEW k \in 1..Len(conflicts) PROVE Chosen(state', conflicts[k])
      <3>1. Chosen(state, conflicts[k]) /\ \A f \in forks : Chosen(f, conflicts[k])
        BY <1>4, <2>1 DEF Made
      <3> QED BY <2>2, <2>3, <3>1 DEF Chosen, SameItems
    <2> QED BY <2>1, <2>4, <2>5 DEF Made
  <1>6. CASE Forked
    <2>1. /\ phase = "sets" /\ InFork /\ set > Len(conflicts)
          /\ resolutions' = resolutions /\ state' = NewState({})
          /\ forkedStates' = forkedStates \cup {AddVersion(WithEnv(state, f), f.deps) : f \in forks}
      BY <1>6 DEF Forked, InFork
    <2>2. ASSUME NEW f \in forks, NEW s, s = AddVersion(WithEnv(state, f), f.deps) PROVE Made(s)
      <3>1. WithEnv(state, f) \in State
        BY <1>f, <1>t, <2>1, StateTypes
      <3>2. s.deps = state.deps \cup f.deps /\ SameItems(f, s)
        BY <1>t, <2>2, <3>1, StateFields, StatesSame DEF SameItems
      <3>3. Settled(s)
        BY <3>2, SettledSame DEF ForksChosen
      <3>4. ASSUME NEW k \in 1..Len(conflicts) PROVE Chosen(s, conflicts[k])
        <4>1. Chosen(state, conflicts[k]) /\ Chosen(f, conflicts[k])
          BY <1>4, <2>1 DEF Made
        <4>2. state.include \subseteq s.include /\ f.include = s.include
          BY <1>f, <2>1, <3>2 DEF Inside, SameItems
        <4> QED BY <3>2, <4>1, <4>2 DEF Chosen
      <3> QED BY <3>3, <3>4 DEF Made
    <2> QED BY <1>n, <2>1, <2>2
  <1>7. CASE (\E m : ForkVersion(m)) \/ (\E v : ForkPython(v))
    <2>1. PICK S : /\ \A s \in S : \E m : s = Narrowed(state, m)
                   /\ forkedStates' = forkedStates \cup S /\ state' = NewState({}) /\ UNCHANGED call
      BY <1>7, VersionSplits
    <2>2. resolutions' = resolutions
      BY <1>7 DEF ForkVersion, ForkPython
    <2>3. ASSUME NEW s \in S PROVE Made(s)
      <3>1. SameItems(state, s) /\ s.deps = state.deps
        BY <1>t, <2>1, StatesSame, StateFields DEF SameItems
      <3>2. Settled(s)
        BY <3>1, SettledSame DEF Made
      <3> QED BY <3>1, <3>2 DEF Made, Chosen, SameItems
    <2> QED BY <1>n, <2>1, <2>2, <2>3
  <1> QED
    BY <1>1, <1>2, <1>3, <1>5, <1>6, <1>7
       DEF Next, Step, Finish, NoSolution, NextName, NextDep, NamesDone, ForkSet, Visit, ForkName,
           ForkDep, SplitFork, Ended, vars

\* While `fork` looks at markers, its forks have the items of the state; each conflict
\* set then leaves them as they are or splits one, for good.
LEMMA ForksChosenStep ==
    ASSUME CInv, VInv, SetsApart, StatesChosen, ForksChosen, OneOrSplit, [Next]_vars
    PROVE  ForksChosen' /\ OneOrSplit'
  <1>t. TInv /\ TypeOK /\ set \in Int
    BY DEF CInv, DInv, TInv, TypeOK
  <1>f. old \cup forks \subseteq Fork
    BY <1>t DEF TypeOK
  <1>c. conflicts' = conflicts
    BY ConflictsSame
  <1>s. \A p : Settled(p)' <=> Settled(p)
    BY <1>c DEF Settled
  <1>v. ForksOK'
    BY ItemsStep DEF VInv
  <1>1. CASE ~InFork'
    <2>1. old' \cup forks' = {}
      BY <1>1, <1>v DEF ForksOK
    <2> QED BY <1>1, <2>1 DEF ForksChosen, OneOrSplit
  <1>2. CASE /\ UNCHANGED <<state, old, forks, set>> /\ InFork
             /\ phase' = phase \/ phase # "sets"
    BY <1>2, <1>c, <1>s DEF ForksChosen, OneOrSplit
  <1>3. ASSUME NEW p, Visit(p) PROVE ForksChosen' /\ OneOrSplit'
    <2>1. /\ forks' = {NewFork(state)} /\ old' = old /\ set' = 1 /\ state' = state
          /\ ~InFork
      BY <1>3 DEF Visit, InFork
    <2>2. old = {}
      BY <2>1 DEF VInv, ForksOK
    <2>3. SameItems(NewFork(state), state) /\ SameItems(state, NewFork(state))
      BY DEF NewFork, SameItems
    <2>4. Settled(NewFork(state))
      BY <2>3, SettledSame DEF StatesChosen, Made
    <2> QED BY <1>s, <2>1, <2>2, <2>3, <2>4 DEF ForksChosen, OneOrSplit
  <1>4. ASSUME InFork, phase # "sets", phase' # "sets", UNCHANGED <<state, set>>,
               \A g \in old' \cup forks' : \E f \in old \cup forks : SameItems(g, f)
        PROVE  ForksChosen' /\ OneOrSplit'
    <2>1. set' = 1
      BY <1>4 DEF ForksChosen
    <2>2. ASSUME NEW g \in old' \cup forks' PROVE Settled(g) /\ SameItems(g, state)
      <3>1. PICK f \in old \cup forks : SameItems(g, f)
        BY <1>4
      <3>2. Settled(f) /\ SameItems(f, state)
        BY <1>4 DEF ForksChosen, OneOrSplit
      <3>3. SameItems(f, g) /\ SameItems(g, state)
        BY <3>1, <3>2 DEF SameItems
      <3> QED BY <3>2, <3>3, SettledSame
    <2>3. \A f \in forks' : \A k \in 1..(set' - 1) : Chosen(f, conflicts'[k])
      BY <2>1
    <2>4. ForksChosen'
      BY <1>s, <2>1, <2>2, <2>3 DEF ForksChosen
    <2> QED BY <1>4, <2>2, <2>4 DEF OneOrSplit
  <1>5. ASSUME NEW n, ForkName(n) PROVE ForksChosen' /\ OneOrSplit'
    <2> DEFINE Grow == [f \in forks |-> {d \in {c \in Relevant(package) : Name(c) = n} :
                                             IncludedByMarker(f, Marker[d])}]
    <2>1. forks' = forks \/ forks' = {AddDependencies(f, Grow[f]) : f \in forks}
      BY <1>5 DEF ForkName
    <2> HIDE DEF Grow
    <2>2. \A f \in Fork : SameItems(f, f) /\ \A ds : SameItems(AddDependencies(f, ds), f)
      BY MarkersSame DEF SameItems
    <2>3. old' = old
      BY <1>5 DEF ForkName
    <2>4. \A g \in old' \cup forks' : \E f \in old \cup forks : SameItems(g, f)
      BY <1>f, <2>1, <2>2, <2>3
    <2>5. InFork /\ phase # "sets" /\ phase' # "sets" /\ UNCHANGED <<state, set>>
      BY <1>5 DEF ForkName, InFork
    <2> QED BY <1>4, <2>4, <2>5
  <1>6. ASSUME NEW d, ForkDep(d) PROVE ForksChosen' /\ OneOrSplit'
    <2>1. \A f \in Fork : SameItems(f, f) /\ \A ds : SameItems(AddDependencies(f, ds), f)
      BY MarkersSame DEF SameItems
    <2>2. \A g \in old' \cup forks' : \E f \in old \cup forks : SameItems(g, f)
      BY <1>6, <1>f, <2>1 DEF ForkDep
    <2>3. InFork /\ phase # "sets" /\ phase' # "sets" /\ UNCHANGED <<state, set>>
      BY <1>6 DEF ForkDep, InFork
    <2> QED BY <1>4, <2>2, <2>3
  <1>7. ASSUME NEW f \in old, SplitFork(f) PROVE ForksChosen' /\ OneOrSplit'
    <2>1. \A g \in Fork : SameItems(g, g)
      BY DEF SameItems
    <2>2. \A g \in ForkerParts(f, dep, marker) : SameItems(g, f)
      BY <1>f, MarkersSame
    <2>3. \A g \in old' \cup forks' : \E h \in old \cup forks : SameItems(g, h)
      BY <1>7, <1>f, <2>1, <2>2 DEF SplitFork
    <2>4. InFork /\ phase # "sets" /\ phase' # "sets" /\ UNCHANGED <<state, set>>
      BY <1>7 DEF SplitFork, InFork
    <2> QED BY <1>4, <2>3, <2>4
  <1>8. CASE ForkSet
    <2> DEFINE s == conflicts[set]
    <2>1. /\ phase = "sets" /\ phase' = "sets" /\ InFork /\ state' = state /\ set' = set + 1
          /\ set \in 1..Len(conflicts) /\ forks' = UNION {ConflictParts(f, s) : f \in forks}
          /\ old = {} /\ old' = {}
      BY <1>8, <1>t DEF ForkSet, InFork, TypeOK, CInv, DInv, ForksApart
    <2>2. s \in SUBSET Item
      BY <1>t, <2>1, ConstantTypes DEF TypeOK
    <2>3. ASSUME NEW f \in forks
          PROVE  /\ \A g \in ConflictParts(f, s) :
                      /\ Settled(g) /\ Chosen(g, s) /\ g.deps \subseteq f.deps
                      /\ f.include \subseteq g.include
                 /\ \/ ConflictParts(f, s) # {} /\ \A g \in ConflictParts(f, s) : SameItems(g, f)
                    \/ \E g, h \in ConflictParts(f, s) : g.exclude # h.exclude
      <3>1. /\ f \in Fork /\ Settled(f) /\ f.exclude \subseteq Conflicting
            /\ f.conflicts = {ItemOf[d] : d \in f.deps}
        BY <1>f, <2>1 DEF ForksChosen, CInv, ExcludedConflict, VInv, ForksOK, ForkOK
      <3>2. \A g \in ConflictParts(f, s) : f.include \subseteq g.include
        BY <2>2, <3>1, ConflictPartsApart DEF Inside
      <3> HIDE DEF s
      <3>3. s = conflicts[set]
        BY DEF s
      <3> QED BY <1>t, <2>1, <3>1, <3>2, <3>3, SetChosen
    <2> HIDE DEF s
    <2>4. ForksChosen'
      <3>1. \A g \in old' \cup forks' : Settled(g)
        BY <2>1, <2>3
      <3>2. ASSUME NEW g \in forks', NEW k \in 1..(set' - 1) PROVE Chosen(g, conflicts[k])
        <4>1. PICK f \in forks : g \in ConflictParts(f, s)
          BY <2>1
        <4>2. CASE k = set
          BY <2>3, <4>1, <4>2 DEF s
        <4>3. CASE k # set
          <5>1. k \in 1..(set - 1)
            BY <2>1, <4>3
          <5>2. Chosen(f, conflicts[k])
            BY <5>1 DEF ForksChosen
          <5> QED BY <2>3, <4>1, <5>2, ChosenInside
        <4> QED BY <4>2, <4>3
      <3> QED BY <1>c, <1>s, <2>1, <3>1, <3>2 DEF ForksChosen
    <2>5. CASE \E f \in forks : \E g, h \in ConflictParts(f, s) : g.exclude # h.exclude
      <3>1. \E g, h \in forks' : g.exclude # h.exclude
        BY <2>1, <2>5
      <3> QED BY <2>1, <2>4, <3>1 DEF OneOrSplit
    <2>6. CASE \A f \in forks : /\ ConflictParts(f, s) # {}
                                /\ \A g \in ConflictParts(f, s) : SameItems(g, f)
      <3>1. CASE \A f \in old \cup forks : SameItems(f, state)
        <4>1. \A g \in old' \cup forks' : SameItems(g, state)
          BY <2>1, <2>6, <3>1 DEF SameItems
        <4> QED BY <2>1, <2>4, <4>1 DEF OneOrSplit
      <3>2. CASE \E f, g \in forks : f.exclude # g.exclude
        <4>1. PICK f \in forks, g \in forks : f.exclude # g.exclude
          BY <3>2
        <4>2. PICK a \in ConflictParts(f, s), b \in ConflictParts(g, s) : TRUE
          BY <2>6
        <4>3. a \in forks' /\ b \in forks' /\ a.exclude # b.exclude
          BY <2>1, <2>6, <4>1, <4>2 DEF SameItems
        <4> QED BY <2>1, <2>4, <4>3 DEF OneOrSplit
      <3> QED BY <2>1, <3>1, <3>2 DEF OneOrSplit
    <2> QED BY <2>3, <2>5, <2>6
  <1>9. CASE NextName \/ NextDep \/ NamesDone
    BY <1>2, <1>9 DEF NextName, NextDep, NamesDone, InFork, call
  <1>10. CASE UNCHANGED vars
    BY <1>1, <1>2, <1>10 DEF vars, call, InFork
  <1>11. CASE \/ Finish \/ Solved \/ NoSolution \/ Unforked \/ Forked \/ Ended
              \/ (\E p : Pick(p)) \/ (\E m : ForkVersion(m)) \/ (\E v : ForkPython(v))
    <2>1. ~InFork' \/ UNCHANGED vars
      BY <1>11 DEF Finish, Solved, NoSolution, Unforked, Forked, Ended, Pick, ForkVersion,
                   ForkPython, InFork
    <2> QED BY <1>1, <1>10, <2>1
  <1> QED
    BY <1>3, <1>5, <1>6, <1>7, <1>8, <1>9, <1>10, <1>11 DEF Next, Step

\* Every step preserves the inductive invariant.
LEMMA ChosenStep == XInv /\ [Next]_vars => XInv'
  <1> SUFFICES ASSUME XInv, [Next]_vars PROVE XInv'
    OBVIOUS
  <1>1. CInv' /\ VInv'
    BY CoverInductive, ItemsStep DEF XInv
  <1>2. conflicts' = conflicts
    BY ConflictsSame
  <1>3. SetsApart' => SetsApart
    BY <1>2 DEF SetsApart, Conflicting
  <1>4. SetsApart => (StatesChosen /\ ForksChosen /\ OneOrSplit)'
    BY StatesChosenStep, ForksChosenStep DEF XInv
  <1> QED BY <1>1, <1>3, <1>4 DEF XInv

\* At the start nothing is decided.
LEMMA ChosenInit == Init => XInv
  <1> SUFFICES ASSUME Init PROVE XInv
    OBVIOUS
  <1>1. CInv /\ VInv /\ ~InFork /\ old \cup forks = {} /\ resolutions = {}
    BY CoverInit, ItemsInit DEF Init, InFork
  <1>2. \A m : NewState(m).include = {} /\ NewState(m).exclude = {} /\ NewState(m).deps = {}
    BY DEF NewState
  <1>3. \A s \in forkedStates \cup resolutions \cup {state} :
          s.include = {} /\ s.exclude = {} /\ s.deps = {}
    BY <1>2 DEF Init
  <1>4. \A s \in forkedStates \cup resolutions \cup {state} : Made(s)
    BY <1>3 DEF Made, Settled, Decided, Chosen
  <1> QED BY <1>1, <1>4 DEF XInv, StatesChosen, ForksChosen, OneOrSplit

\* Whatever the conflict sets, as long as no item is in two of them and no extra in
\* one belongs to a package in one, the states that `forks_to_fork_states` makes never
\* take dependencies of two conflicting items, however many packages bring them.
THEOREM ConflictsNeverMeet == Spec => []ConflictFree
  <1>1. XInv => ConflictFree
    <2> SUFFICES ASSUME XInv, SetsApart, NEW s \in forkedStates \cup resolutions,
                        NEW c \in s.deps \ Child, NEW d \in s.deps \ Child,
                        NEW k \in 1..Len(conflicts), ItemOf[c] \in conflicts[k],
                        ItemOf[d] \in conflicts[k]
                 PROVE  ItemOf[c] = ItemOf[d]
      BY DEF ConflictFree, Together
    <2>1. Chosen(s, conflicts[k]) /\ Decided(s, conflicts[k])
      BY DEF XInv, StatesChosen, Made, Settled
    <2> QED BY <2>1 DEF Chosen, Decided, Lone
  <1> QED BY <1>1, ChosenInit, ChosenStep, PTL DEF Spec

\* Nor those of an item that they leave out.
THEOREM ExcludedNeverKept == Spec => []ExcludedGone
  <1>1. XInv => ExcludedGone
    <2> SUFFICES ASSUME XInv, SetsApart, NEW s \in forkedStates \cup resolutions,
                        NEW d \in s.deps \ Child, ItemOf[d] \in s.exclude
                 PROVE  FALSE
      BY DEF ExcludedGone, KeepsExcluded
    <2>1. s.exclude \subseteq Conflicting
      BY DEF XInv, CInv, ExcludedConflict, StatesChosen
    <2>2. PICK k \in 1..Len(conflicts) : ItemOf[d] \in conflicts[k]
      BY <2>1 DEF Conflicting
    <2>3. Chosen(s, conflicts[k]) /\ Decided(s, conflicts[k])
      BY DEF XInv, StatesChosen, Made, Settled
    <2>4. ItemOf[d] \in s.include \/ Lone(conflicts[k])
      BY <2>2, <2>3 DEF Chosen
    <2> QED BY <2>2, <2>3, <2>4 DEF Decided
  <1> QED BY <1>1, ChosenInit, ChosenStep, PTL DEF Spec
=============================================================================
