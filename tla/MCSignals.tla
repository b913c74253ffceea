------------------------------ MODULE MCSignals ------------------------------
(* Signals for TLC: ids are handed out as they come, so they are symmetric. *)
EXTENDS Signals, TLC

IdSymmetry == Permutations(Ids)
=============================================================================
