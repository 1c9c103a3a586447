----------------------------- MODULE MCListing -----------------------------
(* Constants of the TLC run of Listing: filters with three pages of rows, *)
(* with two, with one and with none. *)
EXTENDS Listing

Pages ==
  [f \in Filters |-> CASE f = Empty -> 3
                       [] f.search = "" -> 2
                       [] f.choice = "" -> 1
                       [] OTHER -> 0]
=============================================================================
