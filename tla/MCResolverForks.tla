-------------------------- MODULE MCResolverForks --------------------------
(* Instances of ResolverForks for TLC. *)
EXTENDS ResolverForks

\* Python versions on two platforms; the first version of three is below the
\* target.
OnePython == {10} \X {"linux", "win32"}
ThreePythons == (9..11) \X {"linux", "win32"}
MCPy == [e \in Env |-> e[1]]
MCTarget == [lo |-> 10, hi |-> 11]
Linux == {e \in Env : e[2] = "linux"}
Win32 == Env \ Linux
Since(v) == {e \in Env : e[1] >= v}

OneFork == {Env}
TwoForks == {Linux, Win32}

\* Packages p and q, with extras x and y and a group g.
P == <<"p", "">>
PX == <<"p", "x">>
PY == <<"p", "y">>
Q == <<"q", "">>
QX == <<"q", "x">>
QG == <<"q", "g">>
MCRoot == <<"root", "">>
MCItem == {"p", "q"} \X {"", "x", "y", "g"}
MCExtra == {"p", "q"} \X {"x", "y"}
MCBase == [i \in MCItem |-> <<i[1], "">>]
MCTwin == [t \in MCExtra \X MCItem |-> <<t[2][1], t[1][2]>>]

\* Lists of conflict sets: overlapping pairs in both orders, a triple, all
\* pairs of a triple, and pairs that have nothing in common.
ConflictLists ==
    LET pairs == {{P, QG}, {PX, PY}, {PX, QG}, {P, PX}} IN
    {<<s, t>> : s \in pairs, t \in pairs} \cup
    {<<{PX, PY, QG}>>, <<{PX, PY}, {PX, QG}, {PY, QG}>>,
     <<{PX, PY}, {Q, QG}>>}
Chain == {<<{PX, PY}, {PX, QX}, {QG, QX}>>}
OneOrNone == {<<>>, <<{PX, Q}>>}
SameName == {<<{PY, QX}>>}

\* A dependency: who has it, what it depends on, and its marker.
ItemDeps ==
    {<<MCRoot, P, Env>>, <<MCRoot, PX, Linux>>, <<MCRoot, QG, Env>>,
     <<Q, P, Env>>, <<Q, PY, Env>>, <<QG, Q, Win32>>}
MarkerDeps ==
    {<<MCRoot, P, Linux>>, <<MCRoot, P, Win32 \cap Since(10)>>,
     <<MCRoot, QG, Win32 \cup (Env \ Since(11))>>, <<P, Q, Since(11)>>,
     <<Q, P, Linux \cup (Env \ Since(10))>>, <<Q, P, Win32>>, <<Q, PX, Linux>>}
SameNameDeps == {<<MCRoot, PX, Env>>, <<MCRoot, QX, Env>>, <<PX, Q, Env>>}

ChainDeps ==
    {<<MCRoot, PY, Env>>, <<MCRoot, P, Env>>, <<MCRoot, Q, Env>>,
     <<P, PX, Env>>, <<P, QG, Env>>, <<Q, QG, Env>>}

MCPackage == {d[1] : d \in Dep} \cup {MCRoot}
MCNormal == MCPackage \cap {P, Q}
MCDeps == [p \in MCPackage |-> {d \in Dep : d[1] = p}]
MCMarker == [d \in Dep |-> d[3]]
MCItemOf == [d \in Dep |-> d[2]]
OnePlatform == {Linux}
NoPlatforms == {}
=============================================================================
