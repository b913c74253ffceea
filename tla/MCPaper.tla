-------------------------------- MODULE MCPaper --------------------------------
(* Paper for TLC. *)
EXTENDS Paper, TLC

Symmetry == Permutations(Users) \cup Permutations(Pos) \cup Permutations(Req)
SomeMoves == {-2, 1}
=============================================================================
