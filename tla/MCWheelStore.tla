---------------------------- MODULE MCWheelStore ----------------------------
(* Instances of WheelStore: the kinds of wheels.                           *)
EXTENDS WheelStore, TLC

CONSTANTS p1, p2, w1, w2

KindRegistry      == [w \in {w1} |-> "registry"]
KindRegistrySource == w1 :> "registry" @@ w2 :> "source"
KindEditable      == [w \in {w1} |-> "editable"]
KindPath          == [w \in {w1} |-> "path"]

Symmetry == Permutations(Process)
=============================================================================
