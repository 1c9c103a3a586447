----------------------------- MODULE MCBrowser -----------------------------
(* Symmetry of the TLC run of Browser. *)
EXTENDS Browser, TLC

TabSymmetry == Permutations(Tabs) \cup Permutations(Users)
=============================================================================
