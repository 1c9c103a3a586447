---------------------------- MODULE MCOrderFlow ----------------------------
(* Constants of the TLC runs of OrderFlow: one variant per kind of product. *)
EXTENDS OrderFlowInv, TLC

CONSTANTS panel, wa, bare, dnsless, broken

OneEach ==
  [v \in Variants |-> CASE v = panel -> "panel" [] v = wa -> "whatsapp" [] v = bare -> "none"
                        [] v = dnsless -> "nodns" [] v = broken -> "broken"]
Credits == [u \in Resellers |-> 3]
Withdraw == {-1, 2}

\* Two prices, so that a quote may be stale; nothing keeps a price from being negative.
TwoPrices == {-1, 2}
Symmetry == Permutations(Requests) \cup Permutations(Keys)

\* Requests and keys are interchangeable, but TLC cannot use that where it checks
\* liveness: one of each group of initial states that differ by a renaming.
First == CHOOSE r \in Requests : TRUE
InitUpToRenaming ==
  /\ Init
  /\ req[First].key = CHOOSE k \in Keys : TRUE
  /\ \A r \in Requests : req[First].quantity <= req[r].quantity
FairSpecUpToRenaming == InitUpToRenaming /\ [][Next]_vars /\ Fairness
=============================================================================
