------------------------------ MODULE MCAccounts ------------------------------
(* Accounts on a small instance.                                           *)
EXTENDS Accounts, TLC

Symmetry == Permutations(Req) \cup Permutations(Keys) \cup Permutations(Sess) \cup Permutations(Token)

=============================================================================
