----------------------------- MODULE MCBuildTree -----------------------------
(* Instances of BuildTree, with up to four distributions.                 *)
EXTENDS BuildTree, TLC

Requires(ab, c) ==
    [d \in Dist |-> CASE d \in {"a", "b"} -> ab [] d = "c" -> c [] OTHER -> {}]

\* a and b use the default back end, which may require c.  w is a wheel.
Layered == {Requires({"w"}, {}), Requires({"c", "w"}, {}), Requires({"c"}, {"w"}),
            Requires({"c"}, {"b"})}

\* The back end of a asks for b once it runs.
LateExtra == [d \in Dist |-> IF d = "a" THEN {"b"} ELSE {}]
NoExtra   == [d \in Dist |-> {}]

\* Each requires the other.
Mutual == {[d \in Dist |-> Dist \ {d}]}

\* a and b share c, and b requires w as well.
Crossed == {[d \in Dist |-> CASE d = "a" -> {"c"} [] d = "b" -> {"c", "w"} [] OTHER -> {}]}

AskAll == [p \in Process |-> Dist]
AskPair == [p \in Process |-> {"a", "b"}]
AskTwo == [p \in Process |-> IF p = "p1" THEN {"a", "b"} ELSE {"b"}]
=============================================================================
