----------------------------- MODULE MCSession -----------------------------
(* Symmetry of the TLC runs of Session that check no liveness. *)
EXTENDS Session, TLC

TokenSymmetry == Permutations(Tokens) \cup Permutations(Procs)
=============================================================================
