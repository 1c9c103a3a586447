--------------------------- MODULE OrderContract ---------------------------
(***************************************************************************)
(* What the order service promises, with no row locks, workers, streams or *)
(* local variables: credit is spent and returned in one step, an order is  *)
(* delivered unit by unit, and it closes once.                             *)
(*                                                                         *)
(* The two steps a reader would not expect are in the code as well: an     *)
(* order without a provider closes FAILED and keeps its charge, and an     *)
(* admin closes a whatsapp order without any credential.                   *)
(***************************************************************************)
EXTENDS Integers

CONSTANTS Orders, Resellers, MaxQuantity, Prices, Amounts

VARIABLES
  balance,   \* [Resellers -> Int]
  terms,     \* [Orders -> [reseller, kind]], who would pay and what serves it
  state,     \* [Orders -> {"NONE", "OPEN", "COMPLETED", "FAILED"}]
  quantity,  \* units paid for, net of refunds
  unit,      \* price paid per unit
  creds      \* credentials handed over

vars == <<balance, terms, state, quantity, unit, creds>>

Init ==
  /\ balance \in [Resellers -> Int]
  /\ \A o \in Orders : terms[o].reseller \in Resellers
  /\ state = [o \in Orders |-> "NONE"]
  /\ quantity = [o \in Orders |-> 0]
  /\ unit = [o \in Orders |-> 0]
  /\ creds = [o \in Orders |-> 0]

\* A purchase is paid in full from credit the reseller has.
Buy(o, n, price) ==
  LET u == terms[o].reseller IN
  /\ state[o] = "NONE"
  /\ price * n <= balance[u]
  /\ balance' = [balance EXCEPT ![u] = @ - price * n]
  /\ state' = [state EXCEPT ![o] = "OPEN"]
  /\ quantity' = [quantity EXCEPT ![o] = n]
  /\ unit' = [unit EXCEPT ![o] = price]
  /\ UNCHANGED <<terms, creds>>

\* Only paid units of an open order are delivered.
Deliver(o) ==
  /\ state[o] = "OPEN"
  /\ creds[o] < quantity[o]
  /\ creds' = [creds EXCEPT ![o] = @ + 1]
  /\ UNCHANGED <<balance, terms, state, quantity, unit>>

\* A refund returns exactly the undelivered units, at the price paid.
Refund(o) ==
  LET u == terms[o].reseller IN
  /\ state[o] = "OPEN"
  /\ creds[o] < quantity[o]
  /\ balance' = [balance EXCEPT ![u] = @ + unit[o] * (quantity[o] - creds[o])]
  /\ quantity' = [quantity EXCEPT ![o] = creds[o]]
  /\ UNCHANGED <<terms, state, unit, creds>>

\* An order completes with everything paid for delivered, or fails with
\* nothing delivered and nothing left charged.
Settle(o) ==
  /\ state[o] = "OPEN"
  /\ creds[o] = quantity[o]
  /\ state' = [state EXCEPT ![o] = IF creds[o] > 0 THEN "COMPLETED" ELSE "FAILED"]
  /\ UNCHANGED <<balance, terms, quantity, unit, creds>>

CloseByHand(o) ==
  /\ state[o] = "OPEN"
  /\ \/ terms[o].kind = "whatsapp" /\ state' = [state EXCEPT ![o] = "COMPLETED"]
     \/ terms[o].kind = "none" /\ state' = [state EXCEPT ![o] = "FAILED"]
  /\ creds[o] = 0
  /\ UNCHANGED <<balance, terms, quantity, unit, creds>>

\* An admin's adjustment never leaves a balance below zero.
Adjust(u, amount) ==
  /\ balance[u] + amount >= 0
  /\ balance' = [balance EXCEPT ![u] = @ + amount]
  /\ UNCHANGED <<terms, state, quantity, unit, creds>>

Next ==
  \/ \E o \in Orders :
       \/ \E n \in 1..MaxQuantity, price \in Prices : Buy(o, n, price)
       \/ Deliver(o) \/ Refund(o) \/ Settle(o) \/ CloseByHand(o)
  \/ \E u \in Resellers, amount \in Amounts : Adjust(u, amount)

Spec == Init /\ [][Next]_vars
=============================================================================
