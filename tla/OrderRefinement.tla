-------------------------- MODULE OrderRefinement --------------------------
(***************************************************************************)
(* OrderFlow implements OrderContract: the lock, read and commit steps of  *)
(* a transaction collapse into the one step that publishes it, PENDING and *)
(* PROCESSING are both OPEN, and everything else is a stutter.             *)
(***************************************************************************)
EXTENDS OrderFlow

StateOf(o) ==
  IF orders[o].status \in {"PENDING", "PROCESSING"} THEN "OPEN" ELSE orders[o].status

Contract == INSTANCE OrderContract WITH
  Orders <- Requests,
  terms <- [o \in Requests |-> [reseller |-> Reseller(o), kind |-> AdapterOf(o)]],
  state <- [o \in Requests |-> StateOf(o)],
  quantity <- [o \in Requests |-> orders[o].quantity],
  unit <- [o \in Requests |-> orders[o].unit]

\* The order service keeps its contract: whatever the interleaving of
\* requests, workers and admins, and wherever a failure interrupts one of
\* them, each step the database publishes is a step the contract allows.
KeepsContract == Contract!Spec
=============================================================================
