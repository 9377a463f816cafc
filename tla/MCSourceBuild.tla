---------------------------- MODULE MCSourceBuild ----------------------------
(* Instances of SourceBuild: two processes are alike.                      *)
EXTENDS SourceBuild, TLC

CONSTANTS p1, p2

Symmetry == Permutations(Process)
=============================================================================
