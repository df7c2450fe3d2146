--------------------------- MODULE MCSessionStore ---------------------------
(* Symmetry for the instances of SessionStore that check invariants.        *)
EXTENDS SessionStore, TLC

Symmetry == Permutations(Procs) \cup Permutations(Addrs)
=============================================================================
