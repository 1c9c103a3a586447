---------------------------- MODULE OrderFlowInv ----------------------------
(***************************************************************************)
(* The inductive invariant behind the safety properties of OrderFlow, in   *)
(* named parts.                                                            *)
(***************************************************************************)
EXTENDS OrderRefinement

\* A process that fulfils or acknowledges works on an order, a request on its
\* own, and requests, workers and admins keep to their own code.
JobOK ==
  \A p \in Procs :
    /\ pc[p] \in Fulfilling \cup {"claim", "ack"} => job[p] \in Requests
    /\ p \in Requests => job[p] = p /\ pc[p] \notin {"idle", "read", "ack", "adjust"}
    /\ p \in Workers => pc[p] \in Fulfilling \cup {"idle", "read", "claim", "ack"}
    /\ p \in Admins => pc[p] \in Fulfilling \cup {"idle", "claim", "adjust"}

\* A row lock has one holder, a holder has one row lock, and as long as it is
\* held the balance read under it is the balance.
LockInv ==
  /\ \A u \in Resellers : locked[u] # NoProc =>
       /\ seen[locked[u]] = balance[u]
       /\ pc[locked[u]] \in {"commit", "refund", "adjust"}
       /\ \A v \in Resellers : locked[v] = locked[u] => v = u
  /\ \A r \in Requests : pc[r] = "commit" => locked[Reseller(r)] = r
  /\ \A p \in Procs : pc[p] = "refund" => locked[Reseller(job[p])] = p

\* A request has no order until it commits, and gets to the transaction with a
\* quantity in range.
RequestOK(r) ==
  /\ pc[r] \in {"check", "quote", "lock", "commit"} => ~Placed(r)
  /\ pc[r] \in {"lock", "commit"} => req[r].quantity \in 1..MaxQuantity

\* What a row says of the credentials behind it.
OrderOK(o) ==
  /\ creds[o] <= orders[o].quantity
  /\ orders[o].status = "NONE" => creds[o] = 0 /\ orders[o] = NoRow
  /\ orders[o].status = "PENDING" => creds[o] = 0 /\ orders[o].quantity > 0
  /\ orders[o].status = "COMPLETED" =>
       \/ creds[o] = orders[o].quantity /\ creds[o] > 0
       \/ AdapterOf(o) = "whatsapp" /\ creds[o] = 0
  /\ orders[o].status = "FAILED" =>
       creds[o] = 0 /\ (orders[o].quantity = 0 \/ AdapterOf(o) = "none")

\* Where a fulfiller stands and what its locals say of the rows.
WorkOK(p) ==
  LET o == job[p] IN
  /\ pc[p] \in Fulfilling => orders[o].status = "PROCESSING"
  /\ pc[p] \notin Fulfilling \/ pc[p] = "load" => made[p] = 0
  /\ pc[p] = "load" => creds[o] = 0 /\ orders[o].quantity > 0
  /\ pc[p] \in {"provision", "persist", "refund_lock", "refund"} =>
       creds[o] = made[p] /\ orders[o].quantity = want[p] /\ made[p] < want[p]
  /\ pc[p] \in {"complete", "partial"} => creds[o] = orders[o].quantity /\ creds[o] > 0
  /\ pc[p] = "fail" => creds[o] = 0 /\ (orders[o].quantity = 0 \/ AdapterOf(o) = "none")

RequestInv == \A r \in Requests : RequestOK(r)
OrderInv == \A o \in Requests : OrderOK(o)
WorkInv == \A p \in Procs : WorkOK(p)

\* Two processes inside fulfill_order work on different orders.
ApartInv ==
  \A p, q \in Procs : p # q /\ pc[p] \in Fulfilling /\ pc[q] \in Fulfilling => job[p] # job[q]

IInv ==
  /\ TypeOK /\ JobOK /\ LockInv /\ RequestInv /\ OrderInv /\ WorkInv /\ ApartInv
  /\ LedgerChained /\ NeverOverdrawn
=============================================================================
