------------------------------ MODULE OrderFlow ------------------------------
(***************************************************************************)
(* The life of an order: the purchase handler (handlers/orders.rs), the    *)
(* reservation and fulfilment services (services/orders.rs), the Redis     *)
(* Stream worker (queue.rs) and the admin endpoints that act on the same   *)
(* rows (handlers/admin.rs, handlers/dashboard.rs).                        *)
(*                                                                         *)
(* A process is one HTTP purchase request, one worker task or one admin    *)
(* session.  One step is one SQL statement, one Redis command or one       *)
(* provider call; the reads of one stretch of code that nothing            *)
(* tells apart share a step.  A transaction that locks the reseller's row  *)
(* (SELECT ... FOR UPDATE) is two steps: taking the lock and reading the   *)
(* balance, then the writes and the COMMIT that publish them together.     *)
(***************************************************************************)
EXTENDS Integers, Sequences, FiniteSets

CONSTANTS
  Requests,         \* purchase requests; an order is named by the request that placed it
  Workers,          \* run_worker tasks
  Admins,           \* admin sessions
  Resellers,
  Keys,             \* Idempotency-Key values
  Variants,
  NoOrder, NoProc,  \* sentinels
  Adapter,          \* [Variants -> AdapterKinds], the adapter of the variant's product
  UseMock,          \* settings.use_mock_provider
  InitialCredits,   \* [Resellers -> Int]
  Prices,           \* prices an admin gives a variant
  Amounts,          \* amounts an admin adds to a balance
  Quantities,       \* quantities a client asks for
  MaxQuantity,      \* 50 in reserve_order
  AsyncThreshold,   \* settings.async_threshold
  GroupReady,       \* whether the consumer group exists from an earlier run
  Faults,           \* the kinds of infrastructure failure considered
  MaxFaults,        \* bound: failures in one behaviour
  MaxEdits          \* bound: variant edits and credit adjustments in one behaviour

\* What the fulfilment service finds behind a product: a panel that returns a
\* DNS host, one that returns none (hotplayer, golden_api, redfoxx), the
\* whatsapp stub, no provider row at all, or a row get_provider rejects.
AdapterKinds == {"panel", "nodns", "whatsapp", "none", "broken"}

Procs == Requests \cup Workers \cup Admins

ASSUME ProcsAssumption ==
  /\ Requests \cap Workers = {} /\ Requests \cap Admins = {} /\ Workers \cap Admins = {}
  /\ NoOrder \notin Requests
  /\ NoProc \notin Procs

ASSUME CatalogAssumption ==
  /\ Adapter \in [Variants -> AdapterKinds]
  /\ UseMock \in BOOLEAN /\ GroupReady \in BOOLEAN
  /\ Prices \subseteq Int

\* No handler and no column keeps a price, or the credit a reseller opens with, from
\* being negative.
ASSUME CreditsAssumption == InitialCredits \in [Resellers -> Int] /\ Amounts \subseteq Int

ASSUME BoundsAssumption ==
  /\ Quantities \subseteq Int
  /\ MaxQuantity \in Nat /\ AsyncThreshold \in Nat
  /\ MaxFaults \in Nat /\ MaxEdits \in Nat
  /\ Faults \subseteq {"db", "crash", "enqueue", "ack"}

VARIABLES
  pc,          \* where each process stands
  req,         \* [Requests -> Input], the request body and header
  resp,        \* [Requests -> Reply]
  quote,       \* unit price read by a request outside the transaction
  job,         \* the order a process is fulfilling
  want, made,  \* locals of fulfill_order: order.quantity, credentials_created
  seen,        \* balance read under the row lock
  locked,      \* [Resellers -> holder of the users row lock]
  balance,     \* users.credit_balance
  ledger,      \* credit_transactions of a reseller, oldest first
  orders,      \* orders rows
  creds,       \* number of credentials rows of an order
  lines,       \* number of lines the provider created for an order
  catalog,     \* price and active flag of a variant
  queue,       \* stream entries not yet delivered to the group
  pel,         \* entries delivered to a consumer and not acknowledged
  groupExists,
  faults, edits

money == <<balance, ledger, locked, seen>>
stream == <<queue, pel, groupExists>>
locals == <<job, want, made>>
tables == <<orders, creds, lines, catalog>>
budget == <<faults, edits>>
vars == <<pc, req, resp, quote, job, want, made, seen, locked, balance, ledger, orders,
          creds, lines, catalog, queue, pel, groupExists, faults, edits>>

Input == [reseller : Resellers, key : Keys, variant : Variants, quantity : Quantities]
Reply == {"none", "201", "202", "400", "409", "500"}
Status == {"NONE", "PENDING", "PROCESSING", "COMPLETED", "FAILED"}
OrderRow == [status : Status, quantity : Int, unit : Int, reason : BOOLEAN]
LedgerRow == [delta : Int, after : Int, actor : {"RESELLER", "ADMIN", "SYSTEM"},
              ref : Requests \cup {NoOrder}]

\* Locations inside fulfill_order after the claim was won.
Fulfilling == {"load", "provision", "persist", "complete", "refund_lock", "refund",
               "partial", "fail"}
Locations == Fulfilling \cup
  {"check", "quote", "lock", "commit", "enqueue", "claim", "answer", "done",
   "idle", "read", "ack", "adjust"}

NoRow == [status |-> "NONE", quantity |-> 0, unit |-> 0, reason |-> FALSE]

\* resellers_create books the opening credits as a ledger row when there are any.
Opening(u) ==
  IF InitialCredits[u] > 0
    THEN << [delta |-> InitialCredits[u], after |-> InitialCredits[u],
             actor |-> "ADMIN", ref |-> NoOrder] >>
    ELSE << >>

Init ==
  /\ pc = [p \in Procs |-> IF p \in Requests THEN "check" ELSE "idle"]
  /\ req \in [Requests -> Input]
  /\ resp = [r \in Requests |-> "none"]
  /\ quote = [r \in Requests |-> 0]
  /\ job = [p \in Procs |-> IF p \in Requests THEN p ELSE NoOrder]
  /\ want = [p \in Procs |-> 0]
  /\ made = [p \in Procs |-> 0]
  /\ seen = [p \in Procs |-> 0]
  /\ locked = [u \in Resellers |-> NoProc]
  /\ balance = InitialCredits
  /\ ledger = [u \in Resellers |-> Opening(u)]
  /\ orders = [r \in Requests |-> NoRow]
  /\ creds = [r \in Requests |-> 0]
  /\ lines = [r \in Requests |-> 0]
  /\ \E price \in Prices : catalog = [v \in Variants |-> [price |-> price, active |-> TRUE]]
  /\ queue = << >> /\ pel = {}
  /\ groupExists = GroupReady
  /\ faults = 0 /\ edits = 0

-----------------------------------------------------------------------------
(* Helpers *)

Goto(p, l) == pc' = [pc EXCEPT ![p] = l]

Reseller(o) == req[o].reseller
AdapterOf(o) == Adapter[req[o].variant]
Placed(o) == orders[o].status # "NONE"
Total(r) == quote[r] * req[r].quantity

\* A committed order of this reseller already carries this key.
KeyTaken(r) ==
  \E q \in Requests : /\ Placed(q)
                      /\ req[q].reseller = req[r].reseller
                      /\ req[q].key = req[r].key

\* The unique constraints uq_reseller_idempotency and uq_reseller_key.
KeyConflictUnchecked(r) == FALSE
KeyConflict(r) == KeyTaken(r)

AffordableUnit(r) == seen[r] >= quote[r]
Affordable(r) == seen[r] >= Total(r)

\* SELECT ... FROM users ... FOR UPDATE
PlainRead(p, u) == seen' = [seen EXCEPT ![p] = balance[u]] /\ UNCHANGED locked
LockRow(p, u) ==
  /\ locked[u] = NoProc
  /\ locked' = [locked EXCEPT ![u] = p]
  /\ seen' = [seen EXCEPT ![p] = balance[u]]

\* The row lock goes with the end of the transaction, committed or not.
KeepLock(p, u) == seen' = [seen EXCEPT ![p] = 0] /\ UNCHANGED locked
UnlockRow(p, u) ==
  /\ locked' = [locked EXCEPT ![u] = NoProc]
  /\ seen' = [seen EXCEPT ![p] = 0]

\* UPDATE users SET credit_balance and INSERT INTO credit_transactions, both
\* with the balance computed from the row as it was read under the lock.
Post(p, u, delta, actor, ref) ==
  /\ balance' = [balance EXCEPT ![u] = seen[p] + delta]
  /\ ledger' = [ledger EXCEPT ![u] =
       Append(@, [delta |-> delta, after |-> seen[p] + delta, actor |-> actor, ref |-> ref])]

\* Where fulfill_order returns to: Ok for the caller that reads the outcome...
AfterOk(p) == IF p \in Requests THEN "answer" ELSE IF p \in Workers THEN "ack" ELSE "idle"
\* ... and Err, which the worker logs and everyone else turns into a 500.
AfterErr(p) == IF p \in Requests THEN "done" ELSE IF p \in Workers THEN "ack" ELSE "idle"

Return(p, l) ==
  /\ Goto(p, l)
  /\ want' = [want EXCEPT ![p] = 0]
  /\ made' = [made EXCEPT ![p] = 0]
  /\ job' = [job EXCEPT ![p] = IF p \in Admins THEN NoOrder ELSE @]

ReplyErr(p) == resp' = IF p \in Requests THEN [resp EXCEPT ![p] = "500"] ELSE resp

Reject(r, code) == Goto(r, "done") /\ resp' = [resp EXCEPT ![r] = code]

SetStatus(o, s) == orders' = [orders EXCEPT ![o].status = s]

-----------------------------------------------------------------------------
(* POST /orders: create_order and reserve_order.  "400" stands for every    *)
(* refusal of the request itself, 404 included.                             *)

\* Replay detection: a known key is answered with the existing order.
CheckReplay(r) ==
  /\ pc[r] = "check"
  /\ \/ KeyTaken(r) /\ Reject(r, "409")
     \/ ~KeyTaken(r) /\ Goto(r, "quote") /\ UNCHANGED resp
  /\ UNCHANGED <<req, quote, locals, money, tables, stream, budget>>

\* Provider rules, device check, quantity range and the reads of the variant
\* and product, all before the transaction.  Any request may carry a MAC the
\* panel refuses.
Quote(r) ==
  LET item == catalog[req[r].variant]
      acceptable == item.active /\ req[r].quantity \in 1..MaxQuantity
  IN /\ pc[r] = "quote"
     /\ \/ Reject(r, "400") /\ UNCHANGED quote
        \/ /\ acceptable
           /\ quote' = [quote EXCEPT ![r] = item.price]
           /\ Goto(r, "lock")
           /\ UNCHANGED resp
     /\ UNCHANGED <<req, locals, money, tables, stream, budget>>

LockReseller(r) ==
  /\ pc[r] = "lock"
  /\ LockRow(r, Reseller(r))
  /\ Goto(r, "commit")
  /\ UNCHANGED <<req, resp, quote, locals, balance, ledger, tables, stream, budget>>

\* Too little credit rolls back with a 400, a key that was inserted meanwhile
\* violates the unique constraint and rolls back with a 500.
ReserveRollback(r) ==
  /\ pc[r] = "commit"
  /\ \/ ~Affordable(r) /\ Reject(r, "400")
     \/ Affordable(r) /\ KeyConflict(r) /\ Reject(r, "500")
  /\ UnlockRow(r, Reseller(r))
  /\ UNCHANGED <<req, quote, locals, balance, ledger, tables, stream, budget>>

\* Deduct, insert the PENDING order, its ledger row and its key, commit; then
\* small orders are fulfilled inline and larger ones go to the stream.
ReserveCommit(r) ==
  /\ pc[r] = "commit"
  /\ Affordable(r)
  /\ ~KeyConflict(r)
  /\ Post(r, Reseller(r), -Total(r), "RESELLER", r)
  /\ orders' = [orders EXCEPT ![r] = [status |-> "PENDING", quantity |-> req[r].quantity,
                                      unit |-> quote[r], reason |-> FALSE]]
  /\ UnlockRow(r, Reseller(r))
  /\ Goto(r, IF req[r].quantity <= AsyncThreshold THEN "claim" ELSE "enqueue")
  /\ UNCHANGED <<req, resp, quote, locals, creds, lines, catalog, stream, budget>>

\* XADD.  A failure is only logged; the group, once created, starts at "$",
\* so an entry added before it exists is never delivered.
Enqueue(r) ==
  /\ pc[r] = "enqueue"
  /\ \/ queue' = (IF groupExists THEN Append(queue, r) ELSE queue) /\ UNCHANGED faults
     \/ /\ "enqueue" \in Faults /\ faults < MaxFaults
        /\ faults' = faults + 1
        /\ UNCHANGED queue
  /\ Reject(r, "202")
  /\ UNCHANGED <<req, quote, locals, money, tables, pel, groupExists, edits>>

DeliveredUnlessFailed(r) == orders[r].status # "FAILED"
Delivered(r) == orders[r].status = "COMPLETED"

\* After inline fulfilment the handler reads the status back.
Answer(r) ==
  /\ pc[r] = "answer"
  /\ Reject(r, IF Delivered(r) THEN "201" ELSE "400")
  /\ UNCHANGED <<req, quote, locals, money, tables, stream, budget>>

-----------------------------------------------------------------------------
(* fulfill_order, run by a request, a worker or an admin session *)

ClaimableAgain(o) == orders[o].status \in {"PENDING", "PROCESSING"}
Claimable(o) == orders[o].status = "PENDING"

\* UPDATE orders SET status = 'PROCESSING' WHERE uuid = $1 AND status = 'PENDING'
Claim(p) ==
  LET o == job[p] IN
  /\ pc[p] = "claim"
  /\ \/ Claimable(o) /\ SetStatus(o, "PROCESSING") /\ Goto(p, "load") /\ UNCHANGED locals
     \/ ~Claimable(o) /\ Return(p, AfterOk(p)) /\ UNCHANGED orders
  /\ UNCHANGED <<req, resp, quote, money, creds, lines, catalog, stream, budget>>

\* Read order, provider, variant and customer, then ask the factory for the adapter.
Load(p) ==
  LET o == job[p]
      rejected == AdapterOf(o) = "broken" /\ ~UseMock
  IN /\ pc[p] = "load"
     /\ \/ AdapterOf(o) = "none" /\ Goto(p, "fail") /\ UNCHANGED <<resp, locals>>
        \/ rejected /\ Return(p, AfterErr(p)) /\ ReplyErr(p)
        \/ /\ AdapterOf(o) # "none" /\ ~rejected
           /\ want' = [want EXCEPT ![p] = orders[o].quantity]
           /\ Goto(p, "provision")
           /\ UNCHANGED <<resp, job, made>>
     /\ UNCHANGED <<req, quote, money, tables, stream, budget>>

\* The loop breaks to the refund of the units it did not reach.
OnProviderError == "refund_lock"

\* One provider call.  The mock never fails, the whatsapp stub always does.
Provision(p) ==
  LET o == job[p] IN
  /\ pc[p] = "provision"
  /\ \/ /\ UseMock \/ AdapterOf(o) # "whatsapp"
        /\ lines' = [lines EXCEPT ![o] = @ + 1]
        /\ Goto(p, "persist")
     \/ ~UseMock /\ Goto(p, OnProviderError) /\ UNCHANGED lines
  /\ UNCHANGED <<req, resp, quote, locals, money, orders, creds, catalog, stream, budget>>

\* for _ in 0..order.quantity
LastUnitInclusive(p) == made[p] = want[p]
LastUnit(p) == made[p] + 1 = want[p]

\* INSERT INTO credentials: dns_domain is NOT NULL, so a credential without a
\* DNS host is refused and the ? returns the error.
Persist(p) ==
  LET o == job[p]
      refused == AdapterOf(o) = "nodns" /\ ~UseMock
  IN /\ pc[p] = "persist"
     /\ \/ refused /\ Return(p, AfterErr(p)) /\ ReplyErr(p) /\ UNCHANGED creds
        \/ /\ ~refused
           /\ creds' = [creds EXCEPT ![o] = @ + 1]
           /\ made' = [made EXCEPT ![p] = @ + 1]
           /\ Goto(p, IF LastUnit(p) THEN "complete" ELSE "provision")
           /\ UNCHANGED <<resp, job, want>>
     /\ UNCHANGED <<req, quote, money, orders, lines, catalog, stream, budget>>

\* Every unit delivered.
Complete(p) ==
  /\ pc[p] = "complete"
  /\ SetStatus(job[p], "COMPLETED")
  /\ Return(p, AfterOk(p))
  /\ UNCHANGED <<req, resp, quote, money, creds, lines, catalog, stream, budget>>

RefundLock(p) ==
  /\ pc[p] = "refund_lock"
  /\ LockRow(p, Reseller(job[p]))
  /\ Goto(p, "refund")
  /\ UNCHANGED <<req, resp, quote, locals, balance, ledger, tables, stream, budget>>

UnprocessedAll(p) == want[p]
Unprocessed(p) == want[p] - made[p]

\* Pay back the units not delivered and shrink the order to what was.
Refund(p) ==
  LET o == job[p] IN
  /\ pc[p] = "refund"
  /\ Post(p, Reseller(o), orders[o].unit * Unprocessed(p), "SYSTEM", o)
  /\ orders' = [orders EXCEPT ![o].quantity = made[p]]
  /\ UnlockRow(p, Reseller(o))
  /\ Goto(p, IF made[p] > 0 THEN "partial" ELSE "fail")
  /\ UNCHANGED <<req, resp, quote, locals, creds, lines, catalog, stream, budget>>

ClosingStatusRefunded(p) == "REFUNDED"
ClosingStatusCompleted(p) == "COMPLETED"
ClosingStatus(p) == IF pc[p] = "partial" THEN "COMPLETED" ELSE "FAILED"

\* The closing UPDATE after a refund, or mark_failed.
Close(p) ==
  LET o == job[p] IN
  /\ pc[p] \in {"partial", "fail"}
  /\ orders' = [orders EXCEPT ![o].status = ClosingStatus(p), ![o].reason = TRUE]
  /\ Return(p, AfterOk(p))
  /\ UNCHANGED <<req, resp, quote, money, creds, lines, catalog, stream, budget>>

Fulfil(p) ==
  \/ Claim(p) \/ Load(p) \/ Provision(p) \/ Persist(p) \/ Complete(p)
  \/ RefundLock(p) \/ Refund(p) \/ Close(p)

-----------------------------------------------------------------------------
(* The stream worker: worker_once *)

\* XGROUP CREATE ... $ MKSTREAM; BUSYGROUP leaves an existing group alone.
ResetGroup == groupExists' = TRUE /\ queue' = << >>
CreateGroup == groupExists' = TRUE /\ queue' = (IF groupExists THEN queue ELSE << >>)

EnsureGroup(w) ==
  /\ pc[w] = "idle"
  /\ CreateGroup
  /\ Goto(w, "read")
  /\ UNCHANGED <<req, resp, quote, locals, money, tables, pel, budget>>

\* XREADGROUP ">" COUNT 1 hands over the oldest undelivered entry.
ReadEntry(w) ==
  /\ pc[w] = "read"
  /\ queue # << >>
  /\ job' = [job EXCEPT ![w] = Head(queue)]
  /\ queue' = Tail(queue)
  /\ pel' = pel \cup {Head(queue)}
  /\ Goto(w, "claim")
  /\ UNCHANGED <<req, resp, quote, want, made, money, tables, groupExists, budget>>

\* The blocking read times out and the loop starts over.
ReadTimeout(w) ==
  /\ pc[w] = "read"
  /\ queue = << >>
  /\ Goto(w, "idle")
  /\ UNCHANGED <<req, resp, quote, locals, money, tables, stream, budget>>

\* XACK whatever fulfill_order returned; its own failure is ignored and the
\* entry then stays pending, where nothing reads it again.
Ack(w) ==
  /\ pc[w] = "ack"
  /\ \/ pel' = pel \ {job[w]} /\ UNCHANGED faults
     \/ /\ "ack" \in Faults /\ faults < MaxFaults
        /\ faults' = faults + 1
        /\ UNCHANGED pel
  /\ job' = [job EXCEPT ![w] = NoOrder]
  /\ Goto(w, "idle")
  /\ UNCHANGED <<req, resp, quote, want, made, money, tables, queue, groupExists, edits>>

-----------------------------------------------------------------------------
(* Admin endpoints that touch orders, balances and prices *)

\* POST whatsapp_order: fulfil any existing order, whatever its provider.
AdminFulfil(a, o) ==
  /\ pc[a] = "idle"
  /\ Placed(o)
  /\ job' = [job EXCEPT ![a] = o]
  /\ Goto(a, "claim")
  /\ UNCHANGED <<req, resp, quote, want, made, money, tables, stream, budget>>

Completable(o) == orders[o].status = "PENDING" /\ AdapterOf(o) = "whatsapp"

\* POST whatsapp-orders/{uuid}/complete: one guarded UPDATE.
CompleteWhatsApp(a, o) ==
  /\ pc[a] = "idle"
  /\ Completable(o)
  /\ SetStatus(o, "COMPLETED")
  /\ UNCHANGED <<pc, req, resp, quote, locals, money, creds, lines, catalog, stream, budget>>

\* POST resellers/{id}/credits: lock and read the balance...
AdjustLock(a, u) ==
  /\ pc[a] = "idle"
  /\ edits < MaxEdits
  /\ edits' = edits + 1
  /\ LockRow(a, u)
  /\ Goto(a, "adjust")
  /\ UNCHANGED <<req, resp, quote, locals, balance, ledger, tables, stream, faults>>

\* ... then book the amount, or roll back when the balance would go negative.
Adjust(a, u) ==
  /\ pc[a] = "adjust"
  /\ locked[u] = a
  /\ \E amount \in Amounts \ {0} :
       \/ seen[a] + amount < 0 /\ UNCHANGED <<balance, ledger>>
       \/ seen[a] + amount >= 0 /\ Post(a, u, amount, "ADMIN", NoOrder)
  /\ UnlockRow(a, u)
  /\ Goto(a, "idle")
  /\ UNCHANGED <<req, resp, quote, locals, tables, stream, budget>>

\* PATCH products/{id}/variants/{id}, or deactivating the product.
EditVariant(a, v) ==
  /\ pc[a] = "idle"
  /\ edits < MaxEdits
  /\ edits' = edits + 1
  /\ \E price \in Prices, active \in BOOLEAN :
       catalog' = [catalog EXCEPT ![v] = [price |-> price, active |-> active]]
  /\ UNCHANGED <<pc, req, resp, quote, locals, money, orders, creds, lines, stream, faults>>

-----------------------------------------------------------------------------
(* Failures *)

\* Whatever ends a process rolls its open transaction back.
ReleaseAll(p) ==
  /\ locked' = [u \in Resellers |-> IF locked[u] = p THEN NoProc ELSE locked[u]]
  /\ seen' = [seen EXCEPT ![p] = 0]

\* A statement fails: the ? operator returns the error to the caller.
DbError(p) ==
  /\ "db" \in Faults /\ faults < MaxFaults
  /\ pc[p] \notin {"done", "idle", "read", "ack", "enqueue", "provision"}
  /\ faults' = faults + 1
  /\ ReleaseAll(p)
  /\ Return(p, AfterErr(p))
  /\ ReplyErr(p)
  /\ UNCHANGED <<req, quote, balance, ledger, tables, stream, edits>>

\* The process dies, or the handler's future is dropped at an await because
\* the client went away.  A restarted worker is a new consumer: it reads new
\* entries only and its predecessor's pending entry stays behind.
Crash(p) ==
  /\ "crash" \in Faults /\ faults < MaxFaults
  /\ pc[p] \notin {"done", "idle"}
  /\ faults' = faults + 1
  /\ ReleaseAll(p)
  /\ Goto(p, IF p \in Requests THEN "done" ELSE "idle")
  /\ want' = [want EXCEPT ![p] = 0]
  /\ made' = [made EXCEPT ![p] = 0]
  /\ job' = [job EXCEPT ![p] = IF p \in Requests THEN p ELSE NoOrder]
  /\ UNCHANGED <<req, resp, quote, balance, ledger, tables, stream, edits>>

-----------------------------------------------------------------------------

Purchase(r) ==
  \/ CheckReplay(r) \/ Quote(r) \/ LockReseller(r) \/ ReserveRollback(r)
  \/ ReserveCommit(r) \/ Enqueue(r) \/ Answer(r)

Work(w) == EnsureGroup(w) \/ ReadEntry(w) \/ ReadTimeout(w) \/ Ack(w)

Administer(a) ==
  \/ \E o \in Requests : AdminFulfil(a, o) \/ CompleteWhatsApp(a, o)
  \/ \E u \in Resellers : AdjustLock(a, u) \/ Adjust(a, u)
  \/ \E v \in Variants : EditVariant(a, v)

Next ==
  \/ \E r \in Requests : Purchase(r)
  \/ \E w \in Workers : Work(w)
  \/ \E a \in Admins : Administer(a)
  \/ \E p \in Procs : Fulfil(p) \/ DbError(p) \/ Crash(p)

Spec == Init /\ [][Next]_vars

\* A process that can run is eventually run: handlers and the worker are tokio
\* tasks, every statement and every provider call returns, and Postgres serves
\* the waiters of a row lock in turn (strong fairness of the lock steps).  No
\* fairness is asked of what an admin chooses to start.
Fairness ==
  /\ \A r \in Requests : WF_vars(Purchase(r)) /\ SF_vars(LockReseller(r))
  /\ \A w \in Workers : WF_vars(Work(w))
  /\ \A p \in Procs : WF_vars(Fulfil(p)) /\ SF_vars(RefundLock(p))
  /\ \A a \in Admins : WF_vars(\E u \in Resellers : Adjust(a, u))

FairSpec == Spec /\ Fairness
-----------------------------------------------------------------------------
(* Properties *)

Terminal == {"COMPLETED", "FAILED"}
Rows(o, actor) == {i \in DOMAIN ledger[Reseller(o)] :
                     ledger[Reseller(o)][i].ref = o /\ ledger[Reseller(o)][i].actor = actor}

TypeOK ==
  /\ pc \in [Procs -> Locations]
  /\ req \in [Requests -> Input]
  /\ resp \in [Requests -> Reply]
  /\ quote \in [Requests -> Int]
  /\ job \in [Procs -> Requests \cup {NoOrder}]
  /\ want \in [Procs -> Int] /\ made \in [Procs -> Int]
  /\ seen \in [Procs -> Int]
  /\ locked \in [Resellers -> Procs \cup {NoProc}]
  /\ balance \in [Resellers -> Int]
  /\ ledger \in [Resellers -> Seq(LedgerRow)]
  /\ orders \in [Requests -> OrderRow]
  /\ creds \in [Requests -> Nat] /\ lines \in [Requests -> Nat]
  /\ catalog \in [Variants -> [price : Int, active : BOOLEAN]]
  /\ queue \in Seq(Requests)
  /\ pel \in SUBSET Requests
  /\ groupExists \in BOOLEAN
  /\ faults \in Nat /\ edits \in Nat

\* credit_transactions is a running account: each row's balance_after is the
\* previous row's plus its delta, and the last one is users.credit_balance.
\* It takes two transactions on one reseller, one of them reading a balance
\* the other is about to change, to break it.  It starts at zero, or at an opening
\* credit below zero, which no row books.
Start(u) == IF InitialCredits[u] > 0 THEN 0 ELSE InitialCredits[u]
LedgerChained ==
  \A u \in Resellers :
    LET rows == ledger[u]
        Before(i) == IF i = 1 THEN Start(u) ELSE rows[i - 1].after
    IN /\ \A i \in 1..Len(rows) : rows[i].after = Before(i) + rows[i].delta
       /\ balance[u] = Before(Len(rows) + 1)

\* A reseller never spends credit it does not have, whatever the interleaving of its
\* purchases with refunds and adjustments.  Below zero is only who opened there, or who
\* ordered at a negative price, which pays the buyer and is taken back by the refund.
Exposed(u) ==
  InitialCredits[u] < 0 \/ \E o \in Requests : Reseller(o) = u /\ orders[o].unit < 0
NeverOverdrawn == \A u \in Resellers : balance[u] >= 0 \/ Exposed(u)

\* One Idempotency-Key buys once: two placed orders of a reseller differ in
\* their key, and each placed order is charged by exactly one ledger row, of
\* the price quoted to it times the quantity asked for.
ChargedOnce ==
  /\ \A o, q \in Requests :
       Placed(o) /\ Placed(q) /\ o # q /\ Reseller(o) = Reseller(q) => req[o].key # req[q].key
  /\ \A o \in Requests :
       IF Placed(o)
         THEN \E i \in Rows(o, "RESELLER") :
                /\ Rows(o, "RESELLER") = {i}
                /\ ledger[Reseller(o)][i].delta = -(orders[o].unit * req[o].quantity)
         ELSE Rows(o, "RESELLER") = {}

\* What a reseller has paid for an order, net of refunds, is always its unit
\* price times the quantity the order now has: either nothing was refunded
\* and the quantity is the one ordered, or one refund row covers the difference.
NetPaidMatchesQuantity ==
  \A o \in Requests : Placed(o) =>
    \/ Rows(o, "SYSTEM") = {} /\ orders[o].quantity = req[o].quantity
    \/ \E i \in Rows(o, "SYSTEM") :
         /\ Rows(o, "SYSTEM") = {i}
         /\ ledger[Reseller(o)][i].delta = orders[o].unit * (req[o].quantity - orders[o].quantity)

\* The claim admits one fulfiller: worker, inline request and admin endpoint
\* never work on the same order at once, and its row says PROCESSING.
SingleFulfiller ==
  \A p \in Procs : pc[p] \in Fulfilling =>
    /\ orders[job[p]].status = "PROCESSING"
    /\ \A q \in Procs : q # p /\ pc[q] \in Fulfilling => job[q] # job[p]

\* The provider is never asked for more lines than were ordered, and at most
\* one of them is missing from the credentials table.
NoExcessLines ==
  \A o \in Requests :
    /\ lines[o] <= IF Placed(o) THEN req[o].quantity ELSE 0
    /\ lines[o] - creds[o] \in {0, 1}

\* A completed order holds the credentials it was charged for, at least one; a
\* failed order holds none.  An admin may complete a whatsapp order by hand.
DeliveredAsSold ==
  \A o \in Requests :
    /\ orders[o].status = "COMPLETED" =>
         \/ creds[o] = orders[o].quantity /\ creds[o] > 0
         \/ AdapterOf(o) = "whatsapp" /\ creds[o] = 0
    /\ orders[o].status = "FAILED" => creds[o] = 0

\* A failed order of a product that has a provider was refunded in full.
FailedIsRefunded ==
  \A o \in Requests :
    orders[o].status = "FAILED" /\ AdapterOf(o) # "none" => orders[o].quantity = 0

\* A terminal order is final: no late fulfiller changes its status, quantity,
\* reason or credentials.
TerminalIsFinal ==
  [][\A o \in Requests : orders[o].status \in Terminal =>
       orders'[o] = orders[o] /\ creds'[o] = creds[o]]_vars

\* At every step, crashes included, a reseller holds at most the credentials it
\* has paid for net of refunds (NetPaidMatchesQuantity says what it paid).
PaidForWhatItHolds == \A o \in Requests : creds[o] <= orders[o].quantity

\* What the client was told is still so: 201 means delivered in full at the
\* quantity charged (or closed by an admin's hand, a whatsapp order), 202 means
\* an order exists, 409 means another order carries the key, and a 400 after
\* the reservation is never said of an order still waiting to be fulfilled.
RepliesAreTruthful ==
  \A r \in Requests :
    /\ resp[r] = "201" =>
         /\ orders[r].status = "COMPLETED"
         /\ \/ creds[r] = orders[r].quantity /\ creds[r] > 0
            \/ AdapterOf(r) = "whatsapp" /\ creds[r] = 0
    /\ resp[r] = "202" => Placed(r)
    /\ resp[r] = "409" => KeyTaken(r) /\ ~Placed(r)
    /\ resp[r] = "400" => orders[r].status # "PENDING"

\* Somebody will move the order on: PENDING it is in the hands of a process or
\* in the stream, PROCESSING somebody is inside fulfill_order for it.
Owned(o) ==
  \/ /\ orders[o].status = "PENDING"
     /\ \/ \E p \in Procs : job[p] = o /\ pc[p] \in {"claim", "enqueue"}
        \/ \E i \in 1..Len(queue) : queue[i] = o
  \/ orders[o].status = "PROCESSING" /\ \E p \in Procs : job[p] = o /\ pc[p] \in Fulfilling

Stranded == {o \in Requests : orders[o].status \in {"PENDING", "PROCESSING"} /\ ~Owned(o)}

\* One failure strands at most one order: a crash, a failed statement or a lost
\* XADD leaves behind the order in hand and no other, and nothing is left
\* behind without a failure, once the group exists and the panel works.
EachFailureStrandsOne ==
  GroupReady => Cardinality({o \in Stranded : AdapterOf(o) \notin {"broken", "nodns"}}) <= faults

\* Every reserved order is eventually delivered or failed (under FairSpec).
EveryOrderSettles ==
  \A o \in Requests : orders[o].status = "PENDING" ~> orders[o].status \in Terminal

\* Every purchase request is eventually answered, however the row lock is contended.
EveryRequestAnswered == \A r \in Requests : <>(resp[r] # "none")

-----------------------------------------------------------------------------
(* A statement of the repository's comments that the code does not meet *)

\* services/orders.rs: "refund unprocessed items on partial failure", "a TOTAL
\* failure marks the order FAILED": a failed order leaves nothing charged.
FailedOrdersAreRefunded ==
  \A o \in Requests : orders[o].status = "FAILED" => orders[o].quantity = 0 \/ orders[o].unit = 0
=============================================================================
