--------------------------- MODULE OrderFlow_proofs ---------------------------
(***************************************************************************)
(* The inductive invariant of OrderFlow and what follows from it, for      *)
(* every set of requests, workers, admins, resellers and variants and      *)
(* every value of the bounds.                                              *)
(*                                                                         *)
(* Types come first; the lemmas about writers say which actions write      *)
(* which variables, and a proof about a variable looks at its writers.     *)
(*                                                                         *)
(* Money: the row lock of a reseller makes the money transactions atomic.  *)
(* Nobody writes a balance another transaction has read and not yet        *)
(* released, so credit_transactions is a running account.                  *)
(*                                                                         *)
(* Orders: the claim admits one fulfiller per order, so what a fulfiller   *)
(* knows of its order stays true between its steps.  Every step is shown   *)
(* to move one process and to touch at most one order, which no other      *)
(* fulfiller has in hand; what remains is to look at that process and that *)
(* order.  With the lock this makes IInv inductive.                        *)
(*                                                                         *)
(* Promises: after lemmas on what a step does to a status and to a         *)
(* process, five parts each add an invariant of their own to IInv: the     *)
(* lines at the provider, the replies, the orders left behind by failures, *)
(* the rows of the ledger, and the refinement of OrderContract.            *)
(***************************************************************************)
EXTENDS OrderFlowInv, FiniteSetTheorems, TLAPS

-----------------------------------------------------------------------------
(* Writers *)

\* A request body does not change.
LEMMA Constant == [Next]_vars => req' = req
  BY DEF Next, Purchase, CheckReplay, Quote, LockReseller, ReserveRollback, ReserveCommit,
         Enqueue, Answer, Work, EnsureGroup, ReadEntry, ReadTimeout, Ack, Administer,
         AdminFulfil, CompleteWhatsApp, AdjustLock, Adjust, EditVariant, Fulfil, Claim,
         Load, Provision, Persist, Complete, RefundLock, Refund, Close, DbError, Crash, vars


\* Only the loop and whatever leaves it touch the locals of fulfill_order.
LEMMA LocalsWriters ==
  [Next]_vars =>
    \/ UNCHANGED <<want, made>>
    \/ \E p \in Procs : \/ Load(p) 
                        \/ Persist(p)
                        \/ want' = [want EXCEPT ![p] = 0] /\ made' = [made EXCEPT ![p] = 0]
  BY DEF Next, Purchase, CheckReplay, Quote, LockReseller, ReserveRollback, ReserveCommit,
         Enqueue, Answer, Work, EnsureGroup, ReadEntry, ReadTimeout, Ack, Administer,
         AdminFulfil, CompleteWhatsApp, AdjustLock, Adjust, EditVariant, Fulfil, Claim,
         Provision, Complete, RefundLock, Refund, Close, DbError, Crash, vars, Return,
         locals

\* Three transactions write users.credit_balance and credit_transactions.
LEMMA MoneyWriters ==
  [Next]_vars =>
    \/ UNCHANGED <<balance, ledger>>
    \/ \E r \in Requests : ReserveCommit(r)
    \/ \E p \in Procs : Refund(p)
    \/ \E a \in Admins, u \in Resellers : Adjust(a, u)
  BY DEF Next, Purchase, CheckReplay, Quote, LockReseller, ReserveRollback, Enqueue, Answer,
         Work, EnsureGroup, ReadEntry, ReadTimeout, Ack, Administer, AdminFulfil,
         CompleteWhatsApp, AdjustLock, EditVariant, Fulfil, Claim, Load, Persist, Provision,
         Complete, RefundLock, Close, DbError, Crash, vars, money

\* Who takes and who gives back the row lock of a reseller.
LEMMA LockWriters ==
  [Next]_vars =>
    \/ UNCHANGED <<locked, seen>>
    \/ \E r \in Requests : LockReseller(r) \/ ReserveRollback(r) \/ ReserveCommit(r)
    \/ \E p \in Procs : RefundLock(p) \/ Refund(p) \/ DbError(p) \/ Crash(p)
    \/ \E a \in Admins, u \in Resellers : AdjustLock(a, u) \/ Adjust(a, u)
  BY DEF Next, Purchase, CheckReplay, Quote, Enqueue, Answer, Work, EnsureGroup, ReadEntry,
         ReadTimeout, Ack, Administer, AdminFulfil, CompleteWhatsApp, EditVariant, Fulfil,
         Claim, Load, Persist, Provision, Complete, Close, vars, money

\* The statements that write an orders row.
LEMMA OrderWriters ==
  [Next]_vars =>
    \/ UNCHANGED orders
    \/ \E r \in Requests : ReserveCommit(r)
    \/ \E p \in Procs : Claim(p) \/ Complete(p) \/ Refund(p) \/ Close(p)
    \/ \E a \in Admins, o \in Requests : CompleteWhatsApp(a, o)
  BY DEF Next, Purchase, CheckReplay, Quote, LockReseller, ReserveRollback, Enqueue, Answer,
         Work, EnsureGroup, ReadEntry, ReadTimeout, Ack, Administer, AdminFulfil,
         AdjustLock, Adjust, EditVariant, Fulfil, Load, Persist, Provision, RefundLock,
         DbError, Crash, vars, tables

\* The statements that add a line or a credential.
LEMMA DeliveryWriters ==
  [Next]_vars =>
    \/ UNCHANGED <<creds, lines>>
    \/ \E p \in Procs : Provision(p) \/ Persist(p)
  BY DEF Next, Purchase, CheckReplay, Quote, LockReseller, ReserveRollback, ReserveCommit,
         Enqueue, Answer, Work, EnsureGroup, ReadEntry, ReadTimeout, Ack, Administer,
         AdminFulfil, CompleteWhatsApp, AdjustLock, Adjust, EditVariant, Fulfil, Claim,
         Load, Complete, RefundLock, Refund, Close, DbError, Crash, vars, tables

\* Only an admin writes a variant.
LEMMA CatalogWriters ==
  [Next]_vars => UNCHANGED catalog \/ \E a \in Admins, v \in Variants : EditVariant(a, v)
  BY DEF Next, Purchase, CheckReplay, Quote, LockReseller, ReserveRollback, ReserveCommit,
         Enqueue, Answer, Work, EnsureGroup, ReadEntry, ReadTimeout, Ack, Administer,
         AdminFulfil, CompleteWhatsApp, AdjustLock, Adjust, Fulfil, Claim, Load, Complete,
         Provision, Persist, RefundLock, Refund, Close, DbError, Crash, vars, tables

\* The commands that change the stream and its group.
LEMMA StreamWriters ==
  [Next]_vars => 
    \/ UNCHANGED stream
    \/ \E r \in Requests : Enqueue(r)
    \/ \E w \in Workers : EnsureGroup(w) \/ ReadEntry(w) \/ Ack(w)
  BY DEF Next, Purchase, CheckReplay, Quote, LockReseller, ReserveRollback, ReserveCommit,
         Answer, Work, ReadTimeout, Administer, AdminFulfil, CompleteWhatsApp, AdjustLock,
         Adjust, EditVariant, Fulfil, Claim, Load, Complete, Provision, Persist, RefundLock,
         Refund, Close, DbError, Crash, vars, stream

\* The bounded counters count up by one.
LEMMA BudgetWriters ==
  [Next]_vars => faults' \in {faults, faults + 1} /\ edits' \in {edits, edits + 1}
  BY DEF Next, Purchase, CheckReplay, Quote, LockReseller, ReserveRollback, ReserveCommit,
         Enqueue, Answer, Work, EnsureGroup, ReadEntry, ReadTimeout, Ack, Administer,
         AdminFulfil, CompleteWhatsApp, AdjustLock, Adjust, EditVariant, Fulfil, Claim,
         Load, Complete, Provision, Persist, RefundLock, Refund, Close, DbError, Crash,
         vars, budget

\* Who takes up or puts down an order.
LEMMA JobWriters ==
  [Next]_vars =>
    \/ UNCHANGED job
    \/ \E p \in Procs : job' = [job EXCEPT ![p] = IF p \in Admins THEN NoOrder ELSE @]
    \/ \E p \in Procs : job' = [job EXCEPT ![p] = IF p \in Requests THEN p ELSE NoOrder]
    \/ \E w \in Workers : ReadEntry(w) \/ Ack(w)
    \/ \E a \in Admins, o \in Requests : AdminFulfil(a, o)
  BY DEF Next, Purchase, CheckReplay, Quote, LockReseller, ReserveRollback, ReserveCommit,
         Enqueue, Answer, Work, EnsureGroup, ReadTimeout, Administer, CompleteWhatsApp,
         AdjustLock, Adjust, EditVariant, Fulfil, Claim, Load, Complete, Provision, Persist,
         RefundLock, Refund, Close, DbError, Crash, vars, locals, Return

-----------------------------------------------------------------------------
(* Types, variable by variable *)

LEMMA Places ==
  {"check", "quote", "lock", "commit", "enqueue", "claim", "answer", "done", "idle", "read",
   "ack", "adjust", "load", "provision", "persist", "complete", "refund_lock", "refund",
   "partial", "fail"} \subseteq Locations
  BY DEF Locations, Fulfilling

\* The fields of a request.
LEMMA RequestType ==
  ASSUME TypeOK, NEW r \in Requests
  PROVE  Reseller(r) \in Resellers /\ req[r].quantity \in Int /\ quote[r] \in Int
<1>1. req[r] \in Input /\ quote[r] \in Int
  BY DEF TypeOK
<1>2. req[r].reseller \in Resellers /\ req[r].quantity \in Quantities
  BY <1>1 DEF Input
<1> QED
  BY <1>1, <1>2, BoundsAssumption DEF Reseller

LEMMA PcType == TypeOK /\ [Next]_vars => pc' \in [Procs -> Locations]
<1> SUFFICES ASSUME pc \in [Procs -> Locations], [Next]_vars
             PROVE  pc' \in [Procs -> Locations]
  BY DEF TypeOK
<1> USE Places DEF Goto, Reject, Return, AfterOk, AfterErr, Procs
<1>1. ASSUME NEW r \in Requests, Purchase(r) PROVE pc' \in [Procs -> Locations]
  BY <1>1 DEF Purchase, CheckReplay, Quote, LockReseller, ReserveRollback, ReserveCommit,
              Enqueue, Answer
<1>2. ASSUME NEW w \in Workers, Work(w) PROVE pc' \in [Procs -> Locations]
  BY <1>2 DEF Work, EnsureGroup, ReadEntry, ReadTimeout, Ack
<1>3. ASSUME NEW a \in Admins, Administer(a) PROVE pc' \in [Procs -> Locations]
  BY <1>3 DEF Administer, AdminFulfil, CompleteWhatsApp, AdjustLock, Adjust, EditVariant
<1>4. ASSUME NEW p \in Procs, Fulfil(p) PROVE pc' \in [Procs -> Locations]
  BY <1>4 DEF Fulfil, Claim, Load, Provision, OnProviderError, Persist, Complete, RefundLock,
              Refund, Close
<1>5. ASSUME NEW p \in Procs, DbError(p) \/ Crash(p) PROVE pc' \in [Procs -> Locations]
  BY <1>5 DEF DbError, Crash
<1>6. CASE UNCHANGED vars
  BY <1>6 DEF vars
<1> QED
  BY <1>1, <1>2, <1>3, <1>4, <1>5, <1>6 DEF Next

LEMMA ReplyType == TypeOK /\ [Next]_vars => resp' \in [Requests -> Reply]
<1> SUFFICES ASSUME resp \in [Requests -> Reply], [Next]_vars
             PROVE  resp' \in [Requests -> Reply]
  BY DEF TypeOK
<1> QED
  BY DEF Next, Purchase, CheckReplay, Quote, LockReseller, ReserveRollback, ReserveCommit,
         Enqueue, Answer, Work, EnsureGroup, ReadEntry, ReadTimeout, Ack, Administer,
         AdminFulfil, CompleteWhatsApp, AdjustLock, Adjust, EditVariant, Fulfil, Claim,
         Load, Provision, Persist, Complete, RefundLock, Refund, Close, DbError, Crash,
         vars, Reject, ReplyErr, Reply

LEMMA QuoteType == TypeOK /\ [Next]_vars => quote' \in [Requests -> Int]
<1> SUFFICES ASSUME quote \in [Requests -> Int], req \in [Requests -> Input],
                    catalog \in [Variants -> [price : Int, active : BOOLEAN]], [Next]_vars
             PROVE  quote' \in [Requests -> Int]
  BY DEF TypeOK
<1> QED
  BY DEF Next, Purchase, CheckReplay, Quote, LockReseller, ReserveRollback, ReserveCommit,
         Enqueue, Answer, Work, EnsureGroup, ReadEntry, ReadTimeout, Ack, Administer,
         AdminFulfil, CompleteWhatsApp, AdjustLock, Adjust, EditVariant, Fulfil, Claim,
         Load, Provision, Persist, Complete, RefundLock, Refund, Close, DbError, Crash,
         vars, Input

LEMMA JobType == TypeOK /\ [Next]_vars => job' \in [Procs -> Requests \cup {NoOrder}]
<1> SUFFICES ASSUME TypeOK, [Next]_vars
             PROVE  job' \in [Procs -> Requests \cup {NoOrder}]
  OBVIOUS
<1> USE DEF TypeOK, Procs
<1>1. ASSUME NEW w \in Workers, ReadEntry(w) PROVE job' \in [Procs -> Requests \cup {NoOrder}]
  BY <1>1 DEF ReadEntry
<1>2. ASSUME NEW w \in Workers, Ack(w) PROVE job' \in [Procs -> Requests \cup {NoOrder}]
  BY <1>2 DEF Ack
<1>3. ASSUME NEW a \in Admins, NEW o \in Requests, AdminFulfil(a, o)
      PROVE  job' \in [Procs -> Requests \cup {NoOrder}]
  BY <1>3 DEF AdminFulfil
<1> QED
  BY <1>1, <1>2, <1>3, JobWriters

\* In a process that may use it, the order in hand is an order.
LEMMA JobStep == TypeOK /\ JobOK /\ [Next]_vars => JobOK'
<1> SUFFICES ASSUME pc \in [Procs -> Locations], job \in [Procs -> Requests \cup {NoOrder}],
                    queue \in Seq(Requests), JobOK, [Next]_vars
             PROVE  JobOK'
  BY DEF TypeOK
<1> USE ProcsAssumption
    DEF JobOK, Procs, Fulfilling, Goto, Reject, Return, AfterOk, AfterErr, locals
<1>1. ASSUME NEW r \in Requests, Purchase(r) PROVE JobOK'
  BY <1>1 DEF Purchase, CheckReplay, Quote, LockReseller, ReserveRollback, ReserveCommit,
              Enqueue, Answer
<1>2. ASSUME NEW w \in Workers, Work(w) PROVE JobOK'
  BY <1>2 DEF Work, EnsureGroup, ReadEntry, ReadTimeout, Ack
<1>3. ASSUME NEW a \in Admins, Administer(a) PROVE JobOK'
  BY <1>3 DEF Administer, AdminFulfil, CompleteWhatsApp, AdjustLock, Adjust, EditVariant
<1>4. ASSUME NEW p \in Procs, Fulfil(p) PROVE JobOK'
  BY <1>4 DEF Fulfil, Claim, Load, Provision, OnProviderError, Persist, Complete, RefundLock,
              Refund, Close
<1>5. ASSUME NEW p \in Procs, DbError(p) PROVE JobOK'
  <2>1. /\ pc[p] \notin {"done", "idle", "read", "ack", "enqueue", "provision"}
        /\ pc' = [pc EXCEPT ![p] = AfterErr(p)]
        /\ job' = [job EXCEPT ![p] = IF p \in Admins THEN NoOrder ELSE @]
    BY <1>5 DEF DbError
  <2> QED
    BY <2>1
<1>6. ASSUME NEW p \in Procs, Crash(p) PROVE JobOK'
  <2>1. pc'[p] = IF p \in Requests THEN "done" ELSE "idle"
    BY <1>6 DEF Crash
  <2>2. job'[p] = IF p \in Requests THEN p ELSE NoOrder
    BY <1>6 DEF Crash
  <2>3. \A q \in Procs \ {p} : pc'[q] = pc[q] /\ job'[q] = job[q]
    BY <1>6 DEF Crash
  <2> QED
    BY <2>1, <2>2, <2>3
<1>7. CASE UNCHANGED vars
  BY <1>7 DEF vars
<1> QED
  BY <1>1, <1>2, <1>3, <1>4, <1>5, <1>6, <1>7 DEF Next

LEMMA LocalsType ==
  TypeOK /\ JobOK /\ [Next]_vars => want' \in [Procs -> Int] /\ made' \in [Procs -> Int]
<1> SUFFICES ASSUME TypeOK, JobOK, [Next]_vars
             PROVE  want' \in [Procs -> Int] /\ made' \in [Procs -> Int]
  OBVIOUS
<1> USE DEF TypeOK
<1>1. ASSUME NEW p \in Procs, Load(p)
      PROVE  want' \in [Procs -> Int] /\ made' \in [Procs -> Int]
  <2>1. job[p] \in Requests
    BY <1>1 DEF Load, JobOK, Fulfilling
  <2>2. orders[job[p]].quantity \in Int
    BY <2>1 DEF OrderRow
  <2> QED
    BY <1>1, <2>2 DEF Load, Return, locals
<1>2. ASSUME NEW p \in Procs, Persist(p)
      PROVE  want' \in [Procs -> Int] /\ made' \in [Procs -> Int]
  BY <1>2 DEF Persist, Return
<1> QED
  BY <1>1, <1>2, LocalsWriters

\* A posting is a well-formed row.
LEMMA PostType ==
  ASSUME TypeOK, NEW p \in Procs, NEW u \in Resellers, NEW delta \in Int,
         NEW actor \in {"RESELLER", "ADMIN", "SYSTEM"}, NEW ref \in Requests \cup {NoOrder},
         Post(p, u, delta, actor, ref)
  PROVE  balance' \in [Resellers -> Int] /\ ledger' \in [Resellers -> Seq(LedgerRow)]
<1> DEFINE row == [delta |-> delta, after |-> seen[p] + delta, actor |-> actor, ref |-> ref]
<1>1. seen[p] + delta \in Int
  BY DEF TypeOK
<1>2. row \in LedgerRow
  BY <1>1 DEF LedgerRow
<1>3. Append(ledger[u], row) \in Seq(LedgerRow)
  BY <1>2 DEF TypeOK
<1> QED
  BY <1>1, <1>3 DEF Post, TypeOK

LEMMA MoneyType ==
  TypeOK /\ JobOK /\ [Next]_vars =>
    balance' \in [Resellers -> Int] /\ ledger' \in [Resellers -> Seq(LedgerRow)]
<1> SUFFICES ASSUME TypeOK, JobOK, [Next]_vars
             PROVE  balance' \in [Resellers -> Int] /\ ledger' \in [Resellers -> Seq(LedgerRow)]
  OBVIOUS
<1> DEFINE Typed == balance' \in [Resellers -> Int] /\ ledger' \in [Resellers -> Seq(LedgerRow)]
<1>1. ASSUME NEW r \in Requests, ReserveCommit(r) PROVE Typed
  <2>1. r \in Procs /\ Reseller(r) \in Resellers /\ req[r].quantity \in Int /\ quote[r] \in Int
    BY RequestType DEF Procs
  <2>2. -Total(r) \in Int
    BY <2>1 DEF Total
  <2> QED
    BY <1>1, <2>1, <2>2, PostType DEF ReserveCommit
<1>2. ASSUME NEW p \in Procs, Refund(p) PROVE Typed
  <2>1. job[p] \in Requests
    BY <1>2 DEF Refund, JobOK, Fulfilling
  <2>2. Reseller(job[p]) \in Resellers /\ orders[job[p]].unit \in Int
    BY <2>1, RequestType DEF TypeOK, OrderRow
  <2>3. want[p] \in Int /\ made[p] \in Int
    BY DEF TypeOK
  <2>4. orders[job[p]].unit * Unprocessed(p) \in Int
    BY <2>2, <2>3 DEF Unprocessed
  <2> QED
    BY <1>2, <2>1, <2>2, <2>4, PostType DEF Refund
<1>3. ASSUME NEW a \in Admins, NEW u \in Resellers, Adjust(a, u) PROVE Typed
  <2>1. PICK amount \in Amounts \ {0} :
          UNCHANGED <<balance, ledger>> \/ Post(a, u, amount, "ADMIN", NoOrder)
    BY <1>3 DEF Adjust
  <2>2. amount \in Int /\ a \in Procs
    BY CreditsAssumption DEF Procs
  <2>3. CASE UNCHANGED <<balance, ledger>>
    BY <2>3 DEF TypeOK
  <2>4. CASE Post(a, u, amount, "ADMIN", NoOrder)
    BY <2>2, <2>4, PostType
  <2> QED
    BY <2>1, <2>3, <2>4
<1>4. CASE UNCHANGED <<balance, ledger>>
  BY <1>4 DEF TypeOK
<1> QED
  BY <1>1, <1>2, <1>3, <1>4, MoneyWriters

LEMMA LockType ==
  TypeOK /\ JobOK /\ [Next]_vars =>
    seen' \in [Procs -> Int] /\ locked' \in [Resellers -> Procs \cup {NoProc}]
<1> SUFFICES ASSUME TypeOK, JobOK, [Next]_vars
             PROVE  seen' \in [Procs -> Int] /\ locked' \in [Resellers -> Procs \cup {NoProc}]
  OBVIOUS
<1> DEFINE Typed == seen' \in [Procs -> Int] /\ locked' \in [Resellers -> Procs \cup {NoProc}]
<1>0. /\ seen \in [Procs -> Int] /\ locked \in [Resellers -> Procs \cup {NoProc}]
      /\ balance \in [Resellers -> Int]
  BY DEF TypeOK
<1>1. ASSUME NEW p \in Procs, NEW u \in Resellers, LockRow(p, u) \/ UnlockRow(p, u) PROVE Typed
  BY <1>0, <1>1 DEF LockRow, UnlockRow
<1>2. ASSUME NEW p \in Procs, DbError(p) \/ Crash(p) PROVE Typed
  BY <1>0, <1>2 DEF DbError, Crash, ReleaseAll
<1>3. ASSUME NEW r \in Requests, LockReseller(r) \/ ReserveRollback(r) \/ ReserveCommit(r)
      PROVE  Typed
  <2>1. r \in Procs /\ Reseller(r) \in Resellers
    BY RequestType DEF Procs
  <2> QED
    BY <1>1, <1>3, <2>1 DEF LockReseller, ReserveRollback, ReserveCommit
<1>4. ASSUME NEW p \in Procs, RefundLock(p) \/ Refund(p) PROVE Typed
  <2>1. job[p] \in Requests
    BY <1>4 DEF RefundLock, Refund, JobOK, Fulfilling
  <2>2. Reseller(job[p]) \in Resellers
    BY <2>1, RequestType
  <2> QED
    BY <1>1, <1>4, <2>2 DEF RefundLock, Refund
<1>5. ASSUME NEW a \in Admins, NEW u \in Resellers, AdjustLock(a, u) \/ Adjust(a, u) PROVE Typed
  <2>1. a \in Procs
    BY DEF Procs
  <2> QED
    BY <1>1, <1>5, <2>1 DEF AdjustLock, Adjust
<1>6. CASE UNCHANGED <<locked, seen>>
  BY <1>0, <1>6
<1> QED
  BY <1>2, <1>3, <1>4, <1>5, <1>6, LockWriters

LEMMA OrdersType == TypeOK /\ JobOK /\ [Next]_vars => orders' \in [Requests -> OrderRow]
<1> SUFFICES ASSUME TypeOK, JobOK, [Next]_vars
             PROVE  orders' \in [Requests -> OrderRow]
  OBVIOUS
<1> USE DEF OrderRow, Status
<1>0. orders \in [Requests -> OrderRow]
  BY DEF TypeOK
<1>1. ASSUME NEW r \in Requests, ReserveCommit(r) PROVE orders' \in [Requests -> OrderRow]
  <2>1. req[r].quantity \in Int /\ quote[r] \in Int
    BY RequestType
  <2> QED
    BY <1>0, <1>1, <2>1 DEF ReserveCommit
<1>2. ASSUME NEW p \in Procs, Claim(p) \/ Complete(p) PROVE orders' \in [Requests -> OrderRow]
  BY <1>0, <1>2 DEF Claim, Complete, SetStatus
<1>3. ASSUME NEW p \in Procs, Refund(p) PROVE orders' \in [Requests -> OrderRow]
  <2>1. made[p] \in Int
    BY DEF TypeOK
  <2> QED
    BY <1>0, <1>3, <2>1 DEF Refund
<1>4. ASSUME NEW p \in Procs, Close(p) PROVE orders' \in [Requests -> OrderRow]
  <2>1. ClosingStatus(p) \in {"COMPLETED", "FAILED"}
    BY DEF ClosingStatus
  <2> QED
    BY <1>0, <1>4, <2>1 DEF Close
<1>5. ASSUME NEW a \in Admins, NEW o \in Requests, CompleteWhatsApp(a, o)
      PROVE  orders' \in [Requests -> OrderRow]
  BY <1>0, <1>5 DEF CompleteWhatsApp, SetStatus
<1> QED
  BY <1>0, <1>1, <1>2, <1>3, <1>4, <1>5, OrderWriters

LEMMA DeliveryType ==
  TypeOK /\ [Next]_vars => creds' \in [Requests -> Nat] /\ lines' \in [Requests -> Nat]
<1> SUFFICES ASSUME TypeOK, [Next]_vars
             PROVE  creds' \in [Requests -> Nat] /\ lines' \in [Requests -> Nat]
  OBVIOUS
<1>0. creds \in [Requests -> Nat] /\ lines \in [Requests -> Nat]
  BY DEF TypeOK
<1>1. ASSUME NEW p \in Procs, Provision(p)
      PROVE  creds' \in [Requests -> Nat] /\ lines' \in [Requests -> Nat]
  BY <1>0, <1>1 DEF Provision
<1>2. ASSUME NEW p \in Procs, Persist(p)
      PROVE  creds' \in [Requests -> Nat] /\ lines' \in [Requests -> Nat]
  BY <1>0, <1>2 DEF Persist
<1> QED
  BY <1>0, <1>1, <1>2, DeliveryWriters

LEMMA CatalogType ==
  TypeOK /\ [Next]_vars => catalog' \in [Variants -> [price : Int, active : BOOLEAN]]
<1> SUFFICES ASSUME TypeOK, [Next]_vars
             PROVE  catalog' \in [Variants -> [price : Int, active : BOOLEAN]]
  OBVIOUS
<1>1. ASSUME NEW a \in Admins, NEW v \in Variants, EditVariant(a, v)
      PROVE  catalog' \in [Variants -> [price : Int, active : BOOLEAN]]
  BY <1>1, CatalogAssumption DEF TypeOK, EditVariant
<1> QED
  BY <1>1, CatalogWriters DEF TypeOK

LEMMA StreamType ==
  TypeOK /\ JobOK /\ [Next]_vars =>
    queue' \in Seq(Requests) /\ pel' \in SUBSET Requests
    /\ groupExists' \in BOOLEAN
<1> DEFINE Typed == /\ queue' \in Seq(Requests) /\ pel' \in SUBSET Requests
                    /\ groupExists' \in BOOLEAN
<1> SUFFICES ASSUME TypeOK, JobOK, [Next]_vars PROVE Typed
  OBVIOUS
<1>0. /\ queue \in Seq(Requests) /\ pel \in SUBSET Requests
      /\ groupExists \in BOOLEAN
  BY DEF TypeOK
<1>1. ASSUME NEW r \in Requests, Enqueue(r) PROVE Typed
  <2>1. Append(queue, r) \in Seq(Requests)
    BY <1>0
  <2> QED
    BY <1>0, <1>1, <2>1 DEF Enqueue
<1>2. ASSUME NEW w \in Workers, EnsureGroup(w) PROVE Typed
  BY <1>0, <1>2 DEF EnsureGroup, CreateGroup
<1>3. ASSUME NEW w \in Workers, ReadEntry(w) PROVE Typed
  BY <1>0, <1>3 DEF ReadEntry
<1>4. ASSUME NEW w \in Workers, Ack(w) PROVE Typed
  <2>1. job[w] \in Requests
    BY <1>4 DEF Ack, JobOK, Procs
  <2> QED
    BY <1>0, <1>4, <2>1 DEF Ack
<1> QED
  BY <1>0, <1>1, <1>2, <1>3, <1>4, StreamWriters DEF stream

-----------------------------------------------------------------------------

LEMMA TypeInit == Init => TypeOK /\ JobOK
<1> SUFFICES ASSUME Init PROVE TypeOK /\ JobOK
  OBVIOUS
<1> USE ProcsAssumption, CatalogAssumption, CreditsAssumption, BoundsAssumption
<1>1. ledger \in [Resellers -> Seq(LedgerRow)]
  <2>1. ASSUME NEW u \in Resellers PROVE Opening(u) \in Seq(LedgerRow)
    <3>1. [delta |-> InitialCredits[u], after |-> InitialCredits[u],
           actor |-> "ADMIN", ref |-> NoOrder] \in LedgerRow
      BY DEF LedgerRow
    <3> QED
      BY <3>1 DEF Opening
  <2> QED
    BY <2>1 DEF Init
<1>2. catalog \in [Variants -> [price : Int, active : BOOLEAN]]
  BY DEF Init
<1>3. orders \in [Requests -> OrderRow]
  BY DEF Init, OrderRow, NoRow, Status
<1> QED
  BY <1>1, <1>2, <1>3 DEF Init, TypeOK, JobOK, Procs, Locations, Fulfilling, Reply

LEMMA TypeStep == TypeOK /\ JobOK /\ [Next]_vars => (TypeOK /\ JobOK)'
<1> SUFFICES ASSUME TypeOK, JobOK, [Next]_vars PROVE (TypeOK /\ JobOK)'
  OBVIOUS
<1>1. req' \in [Requests -> Input]
  BY Constant DEF TypeOK
<1>2. faults' \in Nat /\ edits' \in Nat
  BY BudgetWriters DEF TypeOK
<1> QED
  BY <1>1, <1>2, PcType, ReplyType, QuoteType, JobType, JobStep, LocalsType, MoneyType,
     LockType, OrdersType, DeliveryType, CatalogType, StreamType DEF TypeOK

\* The model stays within its types, and whoever fulfils or acknowledges has
\* an order in hand; so every row, ledger entry and stream entry the code
\* writes is well formed whatever fails in between.
THEOREM TypeCorrect == Spec => [](TypeOK /\ JobOK)
  BY TypeInit, TypeStep, PTL DEF Spec

-----------------------------------------------------------------------------
(* The row lock and the ledger *)

\* Where a process holds a row lock.
Holding == {"commit", "refund", "adjust"}

\* A step that concerns no lock: one process moves, from and to places where
\* it holds none.
Quiet ==
  /\ UNCHANGED <<locked, seen, balance, ledger>>
  /\ \E p \in Procs :
       /\ pc[p] \notin Holding /\ pc'[p] \notin Holding
       /\ \A q \in Procs \ {p} : pc'[q] = pc[q] /\ job'[q] = job[q]

\* The three ways a lock changes hands.
Take(p, u) ==
  /\ LockRow(p, u)
  /\ pc[p] \notin Holding
  /\ UNCHANGED <<balance, ledger, job>>
  /\ \/ p \in Requests /\ u = Reseller(p) /\ Goto(p, "commit")
     \/ u = Reseller(job[p]) /\ Goto(p, "refund")
     \/ Goto(p, "adjust")

Give(p, u) ==
  /\ UnlockRow(p, u)
  /\ locked[u] = p
  /\ pc'[p] \notin Holding
  /\ \A q \in Procs \ {p} : pc'[q] = pc[q]
  /\ UNCHANGED job
  /\ \/ UNCHANGED <<balance, ledger>>
     \/ \E delta \in Int, actor \in {"RESELLER", "ADMIN", "SYSTEM"}, ref \in Requests \cup {NoOrder} :
          Post(p, u, delta, actor, ref)

Drop(p) ==
  /\ ReleaseAll(p)
  /\ pc'[p] \notin Holding
  /\ \A q \in Procs \ {p} : pc'[q] = pc[q] /\ job'[q] = job[q]
  /\ UNCHANGED <<balance, ledger>>

\* Every step is one of these.
LEMMA LockMoves ==
  ASSUME TypeOK, JobOK, LockInv, [Next]_vars
  PROVE  \/ UNCHANGED vars
         \/ Quiet
         \/ \E p \in Procs, u \in Resellers : Take(p, u) \/ Give(p, u)
         \/ \E p \in Procs : Drop(p)
<1> DEFINE Goal == \/ UNCHANGED vars
                   \/ Quiet
                   \/ \E p \in Procs, u \in Resellers : Take(p, u) \/ Give(p, u)
                   \/ \E p \in Procs : Drop(p)
<1> USE DEF Holding
<1>0. pc \in [Procs -> Locations] /\ job \in [Procs -> Requests \cup {NoOrder}]
  BY DEF TypeOK
<1>1. ASSUME NEW r \in Requests, Purchase(r) PROVE Goal
  <2>0. r \in Procs /\ Reseller(r) \in Resellers
    BY RequestType DEF Procs
  <2>1. CASE CheckReplay(r) \/ Quote(r) \/ Enqueue(r) \/ Answer(r)
    <3>1. Quiet
      BY <1>0, <2>0, <2>1 DEF CheckReplay, Quote, Enqueue, Answer, Reject, Goto, locals, money, Quiet
    <3> QED
      BY <3>1
  <2>2. CASE LockReseller(r)
    <3>1. Take(r, Reseller(r))
      BY <2>2 DEF LockReseller, Take, locals
    <3> QED
      BY <2>0, <3>1
  <2>3. CASE ReserveRollback(r)
    <3>1. locked[Reseller(r)] = r
      BY <2>3 DEF ReserveRollback, LockInv
    <3>2. Give(r, Reseller(r))
      BY <1>0, <2>0, <2>3, <3>1 DEF ReserveRollback, Give, locals, Reject, Goto
    <3> QED
      BY <2>0, <3>2
  <2>4. CASE ReserveCommit(r)
    <3>1. locked[Reseller(r)] = r
      BY <2>4 DEF ReserveCommit, LockInv
    <3>2. -Total(r) \in Int
      BY RequestType DEF Total
    <3>3. /\ UnlockRow(r, Reseller(r)) /\ Post(r, Reseller(r), -Total(r), "RESELLER", r)
          /\ UNCHANGED job
          /\ Goto(r, IF req[r].quantity <= AsyncThreshold THEN "claim" ELSE "enqueue")
      BY <2>4 DEF ReserveCommit, locals
    <3>4. pc'[r] \notin Holding /\ \A q \in Procs \ {r} : pc'[q] = pc[q]
      BY <1>0, <2>0, <3>3 DEF Goto
    <3>5. Give(r, Reseller(r))
      BY <3>1, <3>2, <3>3, <3>4 DEF Give
    <3> QED
      BY <2>0, <3>5
  <2> QED
    BY <1>1, <2>1, <2>2, <2>3, <2>4 DEF Purchase
<1>2. ASSUME NEW w \in Workers, Work(w) PROVE Goal
  <2>1. Quiet
    BY <1>0, <1>2 DEF Work, EnsureGroup, ReadEntry, ReadTimeout, Ack, Goto, locals, money, Quiet, Procs
  <2> QED
    BY <2>1
<1>3. ASSUME NEW a \in Admins, Administer(a) PROVE Goal
  <2>0. a \in Procs
    BY DEF Procs
  <2>1. CASE \/ \E o \in Requests : AdminFulfil(a, o) \/ CompleteWhatsApp(a, o)
             \/ \E v \in Variants : EditVariant(a, v)
    <3>1. Quiet
      BY <1>0, <2>0, <2>1 DEF AdminFulfil, CompleteWhatsApp, EditVariant, Goto, locals, money, Quiet
    <3> QED
      BY <3>1
  <2>2. ASSUME NEW u \in Resellers, AdjustLock(a, u) PROVE Goal
    <3>1. Take(a, u)
      BY <2>2 DEF AdjustLock, Take, locals
    <3> QED
      BY <2>0, <3>1
  <2>3. ASSUME NEW u \in Resellers, Adjust(a, u) PROVE Goal
    <3>1. \/ UNCHANGED <<balance, ledger>>
          \/ \E delta \in Int : Post(a, u, delta, "ADMIN", NoOrder)
      BY <2>3, CreditsAssumption DEF Adjust
    <3>2. Give(a, u)
      BY <1>0, <2>0, <2>3, <3>1 DEF Adjust, Give, locals, Goto
    <3> QED
      BY <2>0, <3>2
  <2> QED
    BY <1>3, <2>1, <2>2, <2>3 DEF Administer
<1>4. ASSUME NEW p \in Procs, Fulfil(p) PROVE Goal
  <2>1. CASE Claim(p) \/ Load(p) \/ Provision(p) \/ Persist(p) \/ Complete(p) \/ Close(p)
    <3>1. Quiet
      BY <1>0, <2>1 DEF Claim, Load, Provision, OnProviderError, Persist, Complete, Close, Return,
                        Goto, AfterOk, AfterErr, locals, money, Quiet
    <3> QED
      BY <3>1
  <2>2. CASE RefundLock(p)
    <3>1. job[p] \in Requests
      BY <2>2 DEF RefundLock, JobOK, Fulfilling
    <3>2. Take(p, Reseller(job[p]))
      BY <2>2 DEF RefundLock, Take, locals
    <3> QED
      BY <3>1, <3>2, RequestType
  <2>3. CASE Refund(p)
    <3>1. job[p] \in Requests /\ locked[Reseller(job[p])] = p
      BY <2>3 DEF Refund, JobOK, Fulfilling, LockInv
    <3>2. orders[job[p]].unit * Unprocessed(p) \in Int
      <4>1. orders[job[p]].unit \in Int
        BY <3>1 DEF TypeOK, OrderRow
      <4>2. want[p] \in Int /\ made[p] \in Int
        BY DEF TypeOK
      <4> QED
        BY <4>1, <4>2 DEF Unprocessed
    <3>3. /\ UnlockRow(p, Reseller(job[p]))
          /\ Post(p, Reseller(job[p]), orders[job[p]].unit * Unprocessed(p), "SYSTEM", job[p])
          /\ UNCHANGED job
          /\ Goto(p, IF made[p] > 0 THEN "partial" ELSE "fail")
      BY <2>3 DEF Refund, locals
    <3>4. pc'[p] \notin Holding /\ \A q \in Procs \ {p} : pc'[q] = pc[q]
      BY <1>0, <3>3 DEF Goto
    <3>5. Give(p, Reseller(job[p]))
      BY <3>1, <3>2, <3>3, <3>4 DEF Give
    <3> QED
      BY <3>1, <3>5, RequestType
  <2> QED
    BY <1>4, <2>1, <2>2, <2>3 DEF Fulfil
<1>5. ASSUME NEW p \in Procs, DbError(p) PROVE Goal
  <2>1. Drop(p)
    BY <1>0, <1>5 DEF DbError, Drop, Return, Goto, AfterErr
  <2> QED
    BY <2>1
<1>6. ASSUME NEW p \in Procs, Crash(p) PROVE Goal
  <2>1. Drop(p)
    BY <1>0, <1>6 DEF Crash, Drop, Goto
  <2> QED
    BY <2>1
<1> QED
  BY <1>1, <1>2, <1>3, <1>4, <1>5, <1>6 DEF Next

-----------------------------------------------------------------------------
(* The lock invariant *)

LEMMA LockInit == Init => LockInv
  BY DEF Init, LockInv, Procs

LEMMA LockQuiet ==
  ASSUME TypeOK, LockInv, Quiet, req' = req
  PROVE  LockInv'
<1>1. PICK p \in Procs : /\ pc[p] \notin Holding /\ pc'[p] \notin Holding
                         /\ \A q \in Procs \ {p} : pc'[q] = pc[q] /\ job'[q] = job[q]
  BY DEF Quiet
<1>2. UNCHANGED <<locked, seen, balance>>
  BY DEF Quiet
<1>3. \A u \in Resellers : locked[u] # NoProc => locked[u] \in Procs /\ locked[u] # p
  BY <1>1 DEF LockInv, Holding, TypeOK
<1> QED
  BY <1>1, <1>2, <1>3, ProcsAssumption DEF LockInv, Holding, Reseller, Procs

LEMMA LockTaken ==
  ASSUME TypeOK, JobOK, LockInv, NEW p \in Procs, NEW u \in Resellers, Take(p, u), req' = req
  PROVE  LockInv'
<1>0. /\ pc \in [Procs -> Locations] /\ seen \in [Procs -> Int]
      /\ locked \in [Resellers -> Procs \cup {NoProc}]
  BY DEF TypeOK
<1>1. /\ locked[u] = NoProc /\ locked' = [locked EXCEPT ![u] = p]
      /\ seen' = [seen EXCEPT ![p] = balance[u]]
      /\ pc[p] \notin Holding /\ UNCHANGED <<balance, job>>
  BY DEF Take, LockRow
<1>2. \A v \in Resellers : locked[v] # p
  BY <1>1, ProcsAssumption DEF LockInv, Holding
<1>3. /\ \/ p \in Requests /\ u = Reseller(p) /\ pc'[p] = "commit"
         \/ u = Reseller(job[p]) /\ pc'[p] = "refund"
         \/ pc'[p] = "adjust"
      /\ \A q \in Procs \ {p} : pc'[q] = pc[q]
  BY <1>0 DEF Take, Goto
<1>4. ASSUME NEW v \in Resellers, locked'[v] # NoProc
      PROVE  /\ seen'[locked'[v]] = balance'[v]
             /\ pc'[locked'[v]] \in Holding
             /\ \A w \in Resellers : locked'[w] = locked'[v] => w = v
  <2>1. CASE v = u
    BY <1>0, <1>1, <1>2, <1>3, <2>1 DEF Holding
  <2>2. CASE v # u
    <3>1. locked'[v] = locked[v] /\ locked[v] \in Procs \ {p}
      BY <1>0, <1>1, <1>2, <1>4, <2>2
    <3>2. seen'[locked[v]] = seen[locked[v]] /\ pc'[locked[v]] = pc[locked[v]]
      BY <1>0, <1>1, <1>3, <3>1
    <3>3. seen[locked[v]] = balance[v] /\ pc[locked[v]] \in Holding
          /\ \A w \in Resellers : locked[w] = locked[v] => w = v
      BY <1>4, <3>1 DEF LockInv, Holding
    <3> QED
      BY <1>0, <1>1, <3>1, <3>2, <3>3
  <2> QED
    BY <2>1, <2>2
<1>5. ASSUME NEW r \in Requests, pc'[r] = "commit" PROVE locked'[Reseller(r)] = r
  <2>1. r \in Procs /\ Reseller(r) \in Resellers
    BY RequestType DEF Procs
  <2>2. CASE r = p
    <3>1. u = Reseller(r)
      BY <1>3, <1>5, <2>2
    <3> QED
      BY <1>0, <1>1, <2>2, <3>1
  <2>3. CASE r # p
    <3>1. locked[Reseller(r)] = r
      BY <1>3, <1>5, <2>1, <2>3 DEF LockInv
    <3> QED
      BY <1>0, <1>1, <2>1, <3>1, ProcsAssumption
  <2> QED
    BY <2>2, <2>3
<1>6. ASSUME NEW q \in Procs, pc'[q] = "refund" PROVE locked'[Reseller(job[q])] = q
  <2>1. CASE q = p
    BY <1>0, <1>1, <1>3, <1>6, <2>1
  <2>2. CASE q # p
    <3>1. pc[q] = "refund"
      BY <1>3, <1>6, <2>2
    <3>2. job[q] \in Requests
      BY <3>1 DEF JobOK, Fulfilling
    <3>3. locked[Reseller(job[q])] = q /\ Reseller(job[q]) \in Resellers
      BY <3>1, <3>2, RequestType DEF LockInv
    <3> QED
      BY <1>0, <1>1, <3>3, ProcsAssumption
  <2> QED
    BY <2>1, <2>2
<1> QED
  BY <1>1, <1>4, <1>5, <1>6 DEF LockInv, Reseller, Holding

\* A release frees the holder's only lock; a posting changes that balance only.
LEMMA LockGiven ==
  ASSUME TypeOK, JobOK, LockInv, NEW p \in Procs, NEW u \in Resellers, Give(p, u), req' = req
  PROVE  LockInv'
<1>0. /\ seen \in [Procs -> Int] /\ locked \in [Resellers -> Procs \cup {NoProc}]
      /\ balance \in [Resellers -> Int]
  BY DEF TypeOK
<1>1. /\ locked[u] = p /\ locked' = [locked EXCEPT ![u] = NoProc]
      /\ seen' = [seen EXCEPT ![p] = 0] /\ UNCHANGED job
      /\ pc'[p] \notin Holding /\ \A q \in Procs \ {p} : pc'[q] = pc[q]
  BY DEF Give, UnlockRow
<1>2. \A v \in Resellers : v # u => balance'[v] = balance[v]
  BY <1>0 DEF Give, Post
<1>3. \A v \in Resellers : locked[v] = p => v = u
  BY <1>1, ProcsAssumption DEF LockInv
<1>4. ASSUME NEW v \in Resellers, locked'[v] # NoProc
      PROVE  /\ seen'[locked'[v]] = balance'[v]
             /\ pc'[locked'[v]] \in Holding
             /\ \A w \in Resellers : locked'[w] = locked'[v] => w = v
  <2>1. v # u /\ locked'[v] = locked[v] /\ locked[v] \in Procs \ {p}
    BY <1>0, <1>1, <1>3, <1>4
  <2>2. /\ seen[locked[v]] = balance[v] /\ pc[locked[v]] \in Holding
        /\ \A w \in Resellers : locked[w] = locked[v] => w = v
    BY <1>4, <2>1 DEF LockInv, Holding
  <2> QED
    BY <1>0, <1>1, <1>2, <1>4, <2>1, <2>2
<1>5. ASSUME NEW r \in Requests, pc'[r] = "commit" PROVE locked'[Reseller(r)] = r
  <2>1. r \in Procs /\ r # p /\ Reseller(r) \in Resellers
    BY <1>1, <1>5, RequestType DEF Procs, Holding
  <2>2. locked[Reseller(r)] = r
    BY <1>1, <1>5, <2>1 DEF LockInv
  <2> QED
    BY <1>0, <1>1, <2>1, <2>2
<1>6. ASSUME NEW q \in Procs, pc'[q] = "refund" PROVE locked'[Reseller(job[q])] = q
  <2>1. q # p /\ pc[q] = "refund"
    BY <1>1, <1>6 DEF Holding
  <2>2. job[q] \in Requests
    BY <2>1 DEF JobOK, Fulfilling
  <2>3. locked[Reseller(job[q])] = q /\ Reseller(job[q]) \in Resellers
    BY <2>1, <2>2, RequestType DEF LockInv
  <2> QED
    BY <1>0, <1>1, <2>1, <2>3
<1> QED
  BY <1>1, <1>4, <1>5, <1>6 DEF LockInv, Reseller, Holding

LEMMA LockDropped ==
  ASSUME TypeOK, JobOK, LockInv, NEW p \in Procs, Drop(p), req' = req
  PROVE  LockInv'
<1>0. seen \in [Procs -> Int] /\ locked \in [Resellers -> Procs \cup {NoProc}]
  BY DEF TypeOK
<1>1. /\ locked' = [v \in Resellers |-> IF locked[v] = p THEN NoProc ELSE locked[v]]
      /\ seen' = [seen EXCEPT ![p] = 0] /\ UNCHANGED balance
      /\ pc'[p] \notin Holding
      /\ \A q \in Procs \ {p} : pc'[q] = pc[q] /\ job'[q] = job[q]
  BY DEF Drop, ReleaseAll
<1>2. ASSUME NEW v \in Resellers, locked'[v] # NoProc
      PROVE  /\ seen'[locked'[v]] = balance'[v]
             /\ pc'[locked'[v]] \in Holding
             /\ \A w \in Resellers : locked'[w] = locked'[v] => w = v
  <2>1. locked'[v] = locked[v] /\ locked[v] \in Procs \ {p}
    BY <1>0, <1>1, <1>2
  <2>2. /\ seen[locked[v]] = balance[v] /\ pc[locked[v]] \in Holding
        /\ \A w \in Resellers : locked[w] = locked[v] => w = v
    BY <1>2, <2>1 DEF LockInv, Holding
  <2> QED
    BY <1>0, <1>1, <1>2, <2>1, <2>2
<1>3. ASSUME NEW r \in Requests, pc'[r] = "commit" PROVE locked'[Reseller(r)] = r
  <2>1. r \in Procs /\ r # p /\ Reseller(r) \in Resellers
    BY <1>1, <1>3, RequestType DEF Procs, Holding
  <2>2. locked[Reseller(r)] = r
    BY <1>1, <1>3, <2>1 DEF LockInv
  <2> QED
    BY <1>1, <2>1, <2>2
<1>4. ASSUME NEW q \in Procs, pc'[q] = "refund" PROVE locked'[Reseller(job'[q])] = q
  <2>1. q # p /\ pc[q] = "refund" /\ job'[q] = job[q]
    BY <1>1, <1>4 DEF Holding
  <2>2. job[q] \in Requests
    BY <2>1 DEF JobOK, Fulfilling
  <2>3. locked[Reseller(job[q])] = q /\ Reseller(job[q]) \in Resellers
    BY <2>1, <2>2, RequestType DEF LockInv
  <2> QED
    BY <1>1, <2>1, <2>3
<1> QED
  BY <1>2, <1>3, <1>4 DEF LockInv, Reseller, Holding

LEMMA LockStep == TypeOK /\ JobOK /\ LockInv /\ [Next]_vars => LockInv'
<1> SUFFICES ASSUME TypeOK, JobOK, LockInv, [Next]_vars PROVE LockInv'
  OBVIOUS
<1>1. req' = req
  BY Constant
<1>2. CASE UNCHANGED vars
  BY <1>2 DEF vars, LockInv, Reseller
<1> QED
  BY <1>1, <1>2, LockMoves, LockQuiet, LockTaken, LockGiven, LockDropped

-----------------------------------------------------------------------------
(* The running account *)

LEMMA LedgerInit == Init => LedgerChained
<1> SUFFICES ASSUME Init, NEW u \in Resellers
             PROVE  LET rows == ledger[u]
                        Before(i) == IF i = 1 THEN Start(u) ELSE rows[i - 1].after
                    IN /\ \A i \in 1..Len(rows) : rows[i].after = Before(i) + rows[i].delta
                       /\ balance[u] = Before(Len(rows) + 1)
  BY DEF LedgerChained
<1>1. ledger[u] = Opening(u) /\ balance[u] = InitialCredits[u] /\ InitialCredits[u] \in Int
  BY CreditsAssumption DEF Init
<1>2. CASE InitialCredits[u] > 0
  BY <1>1, <1>2 DEF Opening, Start
<1>3. CASE ~(InitialCredits[u] > 0)
  BY <1>1, <1>3 DEF Opening, Start
<1> QED
  BY <1>2, <1>3

\* A posting by a transaction that read the current balance extends the account.
LEMMA PostChained ==
  ASSUME TypeOK, LedgerChained, NEW p \in Procs, NEW u \in Resellers, NEW delta \in Int,
         NEW actor, NEW ref, Post(p, u, delta, actor, ref), seen[p] = balance[u]
  PROVE  LedgerChained'
<1> DEFINE row == [delta |-> delta, after |-> balance[u] + delta, actor |-> actor, ref |-> ref]
<1>0. /\ balance \in [Resellers -> Int] /\ ledger \in [Resellers -> Seq(LedgerRow)]
  BY DEF TypeOK
<1>1. /\ balance' = [balance EXCEPT ![u] = balance[u] + delta]
      /\ ledger' = [ledger EXCEPT ![u] = Append(ledger[u], row)]
  BY DEF Post
<1>2. ASSUME NEW v \in Resellers
      PROVE  LET rows == ledger'[v]
                 Before(i) == IF i = 1 THEN Start(v) ELSE rows[i - 1].after
             IN /\ \A i \in 1..Len(rows) : rows[i].after = Before(i) + rows[i].delta
                /\ balance'[v] = Before(Len(rows) + 1)
  <2>0. LET rows == ledger[v]
            Before(i) == IF i = 1 THEN Start(v) ELSE rows[i - 1].after
        IN /\ \A i \in 1..Len(rows) : rows[i].after = Before(i) + rows[i].delta
           /\ balance[v] = Before(Len(rows) + 1)
    BY DEF LedgerChained
  <2>1. CASE v # u
    BY <1>0, <1>1, <2>0, <2>1
  <2>2. CASE v = u
    <3> DEFINE old == ledger[u]  n == Len(old)  new == Append(old, row)
    <3>1. ledger'[v] = new /\ balance'[v] = balance[u] + delta
      BY <1>0, <1>1, <2>2
    <3>2. old \in Seq(LedgerRow) /\ n \in Nat
      BY <1>0
    <3> HIDE DEF old, row
    <3>3. Len(new) = n + 1 /\ new[n + 1] = row /\ \A i \in 1..n : new[i] = old[i]
      BY <3>2
    <3>4. row.delta = delta /\ row.after = balance[u] + delta
      BY DEF row
    <3>5. balance[u] = IF n + 1 = 1 THEN Start(u) ELSE old[n].after
      BY <2>0, <2>2, <3>2 DEF old
    <3>6. \A i \in 1..n : old[i].after = (IF i = 1 THEN Start(u) ELSE old[i - 1].after) + old[i].delta
      BY <2>0, <2>2 DEF old
    <3> HIDE DEF new, n
    <3>7. ASSUME NEW i \in 1..(n + 1)
          PROVE  new[i].after = (IF i = 1 THEN Start(u) ELSE new[i - 1].after) + new[i].delta
      <4>1. CASE i \in 1..n
        <5>1. i # 1 => i - 1 \in 1..n
          BY <3>2, <4>1
        <5> QED
          BY <3>3, <3>6, <4>1, <5>1
      <4>2. CASE i = n + 1
        <5>1. n # 0 => n \in 1..n
          BY <3>2
        <5>2. balance[u] = IF i = 1 THEN Start(u) ELSE new[i - 1].after
          BY <3>2, <3>3, <3>5, <4>2, <5>1
        <5> QED
          BY <3>3, <3>4, <4>2, <5>2
      <4> QED
        BY <3>2, <4>1, <4>2
    <3>8. balance'[v] = IF (n + 1) + 1 = 1 THEN Start(u) ELSE new[((n + 1) + 1) - 1].after
      BY <3>1, <3>2, <3>3, <3>4
    <3>9. Start(v) = Start(u)
      BY <2>2
    <3> QED
      BY <3>1, <3>3, <3>7, <3>8, <3>9
  <2> QED
    BY <2>1, <2>2
<1> QED
  BY <1>2 DEF LedgerChained

LEMMA LedgerStep ==
  TypeOK /\ JobOK /\ LockInv /\ LedgerChained /\ [Next]_vars => LedgerChained'
<1> SUFFICES ASSUME TypeOK, JobOK, LockInv, LedgerChained, [Next]_vars PROVE LedgerChained'
  OBVIOUS
<1>1. CASE UNCHANGED <<balance, ledger>>
  BY <1>1 DEF LedgerChained
<1>2. ASSUME NEW p \in Procs, NEW u \in Resellers, Give(p, u), ~UNCHANGED <<balance, ledger>>
      PROVE  LedgerChained'
  <2>1. seen[p] = balance[u]
    BY <1>2, ProcsAssumption DEF Give, LockInv
  <2> QED
    BY <1>2, <2>1, PostChained DEF Give
<1>3. \/ UNCHANGED <<balance, ledger>>
      \/ \E p \in Procs, u \in Resellers : Give(p, u)
  BY LockMoves DEF vars, Quiet, Take, Drop
<1> QED
  BY <1>1, <1>2, <1>3

\* Whatever the interleaving of purchases, refunds and adjustments, and
\* wherever a failure interrupts them, each row of credit_transactions
\* continues the one before it and the last one is users.credit_balance: no
\* update is lost.
THEOREM LedgerCorrect == Spec => []LedgerChained
<1> DEFINE Inv == TypeOK /\ JobOK /\ LockInv /\ LedgerChained
<1>1. Init => Inv
  BY TypeInit, LockInit, LedgerInit
<1>2. Inv /\ [Next]_vars => Inv'
  BY TypeStep, LockStep, LedgerStep
<1>3. Inv => LedgerChained
  OBVIOUS
<1> QED
  BY <1>1, <1>2, <1>3, PTL DEF Spec

-----------------------------------------------------------------------------
(* The orders and who fulfils them *)

WInv == RequestInv /\ OrderInv /\ WorkInv /\ ApartInv

\* Only p moves, and no order but o changes; o is an order nobody else works on.
Touches(p, o) ==
  /\ \A q \in Procs \ {p} : /\ pc'[q] = pc[q] /\ job'[q] = job[q]
                            /\ want'[q] = want[q] /\ made'[q] = made[q]
  /\ \A x \in Requests \ {o} : orders'[x] = orders[x] /\ creds'[x] = creds[x]
  /\ req' = req
  /\ o \in Requests => o = p \/ Placed(o)
  /\ \A q \in Procs \ {p} : pc[q] \in Fulfilling => job[q] # o

LEMMA OneAtATime ==
  ASSUME TypeOK, JobOK, WInv, NEW p \in Procs, NEW o \in Requests \cup {NoOrder},
         Touches(p, o),
         o \in Requests => OrderOK(o)',
         WorkOK(p)',
         p \in Requests => RequestOK(p)',
         pc'[p] \in Fulfilling => job'[p] = o
  PROVE  WInv'
<1>1. ASSUME NEW x \in Requests PROVE OrderOK(x)'
  <2>1. CASE x = o
    BY <2>1
  <2>2. CASE x # o
    <3>1. OrderOK(x)
      BY DEF WInv, OrderInv
    <3> QED
      BY <2>2, <3>1 DEF OrderOK, AdapterOf, Touches
  <2> QED
    BY <2>1, <2>2
<1>2. ASSUME NEW r \in Requests, r # p PROVE RequestOK(r)'
  <2>1. RequestOK(r) /\ pc'[r] = pc[r] /\ req' = req
    BY <1>2 DEF WInv, RequestInv, Touches, Procs
  <2>2. CASE r = o
    <3>1. Placed(r)
      BY <1>2, <2>2 DEF Touches
    <3> QED
      BY <2>1, <3>1 DEF RequestOK
  <2>3. CASE r # o
    BY <2>1, <2>3 DEF RequestOK, Placed, Touches
  <2> QED
    BY <2>2, <2>3
<1>3. ASSUME NEW q \in Procs, q # p PROVE WorkOK(q)'
  <2>1. /\ WorkOK(q) /\ pc'[q] = pc[q] /\ job'[q] = job[q]
        /\ want'[q] = want[q] /\ made'[q] = made[q] /\ req' = req
    BY <1>3 DEF WInv, WorkInv, Touches
  <2>2. CASE pc[q] \in Fulfilling
    <3>1. job[q] \in Requests /\ job[q] # o
      BY <1>3, <2>2 DEF JobOK, Touches
    <3>2. orders'[job[q]] = orders[job[q]] /\ creds'[job[q]] = creds[job[q]]
      BY <3>1 DEF Touches
    <3> QED
      BY <2>1, <3>2 DEF WorkOK, AdapterOf
  <2>3. CASE pc[q] \notin Fulfilling
    BY <2>1, <2>3 DEF WorkOK, Fulfilling
  <2> QED
    BY <2>2, <2>3
<1>4. ApartInv'
  BY DEF WInv, ApartInv, Touches
<1> QED
  BY <1>1, <1>2, <1>3, <1>4 DEF WInv, OrderInv, RequestInv, WorkInv

\* Most steps touch no order and leave p outside fulfill_order.
LEMMA Elsewhere ==
  ASSUME TypeOK, JobOK, WInv, NEW p \in Procs,
         \A q \in Procs \ {p} : /\ pc'[q] = pc[q] /\ job'[q] = job[q]
                                /\ want'[q] = want[q] /\ made'[q] = made[q],
         UNCHANGED <<req, orders, creds>>,
         pc'[p] \notin Fulfilling,
         made'[p] = 0,
         p \in Requests => RequestOK(p)'
  PROVE  WInv'
<1>1. NoOrder \notin Requests /\ \A q \in Procs : pc[q] \in Fulfilling => job[q] # NoOrder
  BY ProcsAssumption DEF JobOK
<1>2. Touches(p, NoOrder)
  BY <1>1 DEF Touches
<1>3. WorkOK(p)'
  BY DEF WorkOK, Fulfilling
<1> QED
  BY <1>1, <1>2, <1>3, OneAtATime

-----------------------------------------------------------------------------

LEMMA WInit == Init => WInv
<1> SUFFICES ASSUME Init PROVE WInv
  OBVIOUS
<1>1. RequestInv
  BY DEF Init, RequestInv, RequestOK, Placed, NoRow, Procs
<1>2. OrderInv
  BY DEF Init, OrderInv, OrderOK, NoRow
<1>3. WorkInv /\ ApartInv
  BY DEF Init, WorkInv, WorkOK, ApartInv, Fulfilling, Procs
<1> QED
  BY <1>1, <1>2, <1>3 DEF WInv

LEMMA PurchaseKeeps ==
  ASSUME TypeOK, JobOK, WInv, NEW r \in Requests, Purchase(r)
  PROVE  WInv'
<1> USE DEF Goto, Reject, locals, tables
<1>0. /\ r \in Procs /\ pc \in [Procs -> Locations] /\ orders \in [Requests -> OrderRow]
      /\ creds \in [Requests -> Nat]
  BY DEF Procs, TypeOK
<1>1. RequestOK(r) /\ OrderOK(r) /\ WorkOK(r)
  BY <1>0 DEF WInv, RequestInv, OrderInv, WorkInv
<1>2. CASE \/ CheckReplay(r) \/ Quote(r) \/ LockReseller(r) \/ ReserveRollback(r)
           \/ Enqueue(r) \/ Answer(r)
  <2>1. /\ UNCHANGED <<req, orders, creds, job, want, made>>
        /\ pc[r] \notin Fulfilling /\ pc'[r] \notin Fulfilling
        /\ \A q \in Procs \ {r} : pc'[q] = pc[q]
    BY <1>0, <1>2 DEF CheckReplay, Quote, LockReseller, ReserveRollback, Enqueue, Answer, Fulfilling
  <2>2. made'[r] = 0
    BY <1>1, <2>1 DEF WorkOK
  <2>3. RequestOK(r)'
    BY <1>0, <1>1, <1>2 DEF CheckReplay, Quote, LockReseller, ReserveRollback, Enqueue, Answer,
                            RequestOK, Placed
  <2> QED
    BY <1>0, <2>1, <2>2, <2>3, Elsewhere
<1>3. CASE ReserveCommit(r)
  <2>1. /\ UNCHANGED <<req, creds, job, want, made>>
        /\ pc[r] = "commit" /\ pc'[r] \in {"claim", "enqueue"}
        /\ \A q \in Procs \ {r} : pc'[q] = pc[q]
        /\ orders' = [orders EXCEPT ![r] = [status |-> "PENDING", quantity |-> req[r].quantity,
                                            unit |-> quote[r], reason |-> FALSE]]
    BY <1>0, <1>3 DEF ReserveCommit
  <2>2. orders[r].status = "NONE" /\ creds[r] = 0 /\ req[r].quantity \in 1..MaxQuantity
    BY <1>1, <2>1 DEF RequestOK, Placed, OrderOK
  <2>3. ASSUME NEW q \in Procs, pc[q] \in Fulfilling PROVE job[q] # r
    BY <2>2, <2>3 DEF WInv, WorkInv, WorkOK
  <2>4. Touches(r, r)
    BY <1>0, <2>1, <2>3 DEF Touches
  <2>5. orders'[r].unit = quote[r] /\ orders'[r].quantity = req[r].quantity /\ orders'[r].status = "PENDING"
    BY <1>0, <2>1
  <2>6. OrderOK(r)'
    BY <2>1, <2>2, <2>5, RequestType, BoundsAssumption DEF OrderOK
  <2>7. WorkOK(r)' /\ pc'[r] \notin Fulfilling /\ RequestOK(r)'
    BY <1>1, <2>1 DEF WorkOK, RequestOK, Fulfilling
  <2> QED
    BY <1>0, <2>4, <2>6, <2>7, OneAtATime
<1> QED
  BY <1>2, <1>3 DEF Purchase

LEMMA WorkKeeps ==
  ASSUME TypeOK, JobOK, WInv, NEW w \in Workers, Work(w)
  PROVE  WInv'
<1>0. /\ w \in Procs /\ w \notin Requests /\ pc \in [Procs -> Locations]
      /\ job \in [Procs -> Requests \cup {NoOrder}]
  BY ProcsAssumption DEF Procs, TypeOK
<1>1. /\ UNCHANGED <<req, orders, creds, want, made>>
      /\ pc[w] \notin Fulfilling /\ pc'[w] \notin Fulfilling
      /\ \A q \in Procs \ {w} : pc'[q] = pc[q] /\ job'[q] = job[q]
  BY <1>0 DEF Work, EnsureGroup, ReadEntry, ReadTimeout, Ack, Goto, locals, tables, Fulfilling
<1>2. made'[w] = 0
  BY <1>0, <1>1 DEF WInv, WorkInv, WorkOK
<1> QED
  BY <1>0, <1>1, <1>2, Elsewhere

LEMMA AdminKeeps ==
  ASSUME TypeOK, JobOK, WInv, NEW a \in Admins, Administer(a)
  PROVE  WInv'
<1> USE DEF Goto, locals, tables
<1>0. /\ a \in Procs /\ a \notin Requests /\ pc \in [Procs -> Locations]
      /\ orders \in [Requests -> OrderRow] /\ job \in [Procs -> Requests \cup {NoOrder}]
  BY ProcsAssumption DEF Procs, TypeOK
<1>1. WorkOK(a)
  BY <1>0 DEF WInv, WorkInv
<1>2. CASE \/ \E o \in Requests : AdminFulfil(a, o)
           \/ \E u \in Resellers : AdjustLock(a, u) \/ Adjust(a, u)
           \/ \E v \in Variants : EditVariant(a, v)
  <2>1. /\ UNCHANGED <<req, orders, creds, want, made>>
        /\ pc[a] \notin Fulfilling /\ pc'[a] \notin Fulfilling
        /\ \A q \in Procs \ {a} : pc'[q] = pc[q] /\ job'[q] = job[q]
    BY <1>0, <1>2 DEF AdminFulfil, AdjustLock, Adjust, EditVariant, Fulfilling
  <2>2. made'[a] = 0
    BY <1>1, <2>1 DEF WorkOK
  <2> QED
    BY <1>0, <2>1, <2>2, Elsewhere
<1>3. ASSUME NEW o \in Requests, CompleteWhatsApp(a, o) PROVE WInv'
  <2>1. /\ UNCHANGED <<pc, req, creds, job, want, made>> /\ pc[a] = "idle"
        /\ orders[o].status = "PENDING" /\ AdapterOf(o) = "whatsapp"
        /\ orders' = [orders EXCEPT ![o].status = "COMPLETED"]
    BY <1>3 DEF CompleteWhatsApp, Completable, SetStatus
  <2>2. OrderOK(o)
    BY DEF WInv, OrderInv
  <2>3. ASSUME NEW q \in Procs, pc[q] \in Fulfilling PROVE job[q] # o
    BY <2>1, <2>3 DEF WInv, WorkInv, WorkOK
  <2>4. Touches(a, o)
    BY <1>0, <2>1, <2>3 DEF Touches, Placed
  <2>5. /\ orders'[o].status = "COMPLETED" /\ orders'[o].unit = orders[o].unit
        /\ orders'[o].quantity = orders[o].quantity
    BY <1>0, <2>1 DEF OrderRow
  <2>6. OrderOK(o)'
    BY <2>1, <2>2, <2>5 DEF OrderOK, AdapterOf
  <2>7. WorkOK(a)' /\ pc'[a] \notin Fulfilling
    BY <1>1, <2>1 DEF WorkOK, Fulfilling
  <2> QED
    BY <1>0, <2>4, <2>6, <2>7, OneAtATime
<1> QED
  BY <1>2, <1>3 DEF Administer

\* An error or a crash leaves the rows as they are and p outside.
LEMMA FailureKeeps ==
  ASSUME TypeOK, JobOK, WInv, NEW p \in Procs, DbError(p) \/ Crash(p)
  PROVE  WInv'
<1>0. /\ pc \in [Procs -> Locations] /\ made \in [Procs -> Int]
  BY DEF TypeOK
<1>1. /\ UNCHANGED <<req, orders, creds>>
      /\ pc'[p] \in {"done", "idle", "ack"} /\ made'[p] = 0
      /\ \A q \in Procs \ {p} : /\ pc'[q] = pc[q] /\ job'[q] = job[q]
                                /\ want'[q] = want[q] /\ made'[q] = made[q]
  <2>1. CASE DbError(p)
    BY <1>0, <2>1 DEF DbError, Return, Goto, AfterErr, tables
  <2>2. CASE Crash(p)
    BY <1>0, <2>2 DEF Crash, Goto, tables
  <2> QED
    BY <2>1, <2>2
<1>2. pc'[p] \notin Fulfilling /\ RequestOK(p)'
  BY <1>1 DEF Fulfilling, RequestOK
<1> QED
  BY <1>1, <1>2, Elsewhere

\* Inside fulfill_order p has an order in hand that is its own.
LEMMA OwnOrder ==
  ASSUME JobOK, WInv, NEW p \in Procs, pc[p] \in Fulfilling
  PROVE  /\ job[p] \in Requests /\ Placed(job[p]) /\ OrderOK(job[p]) /\ WorkOK(p)
         /\ \A q \in Procs \ {p} : pc[q] \in Fulfilling => job[q] # job[p]
<1>1. job[p] \in Requests
  BY DEF JobOK
<1>2. OrderOK(job[p]) /\ WorkOK(p)
  BY <1>1 DEF WInv, OrderInv, WorkInv
<1>3. orders[job[p]].status = "PROCESSING"
  BY <1>2 DEF WorkOK
<1> QED
  BY <1>1, <1>2, <1>3 DEF WInv, ApartInv, Placed

LEMMA FulfilKeeps ==
  ASSUME TypeOK, JobOK, WInv, NEW p \in Procs, Fulfil(p)
  PROVE  WInv'
<1>0. /\ pc \in [Procs -> Locations] /\ orders \in [Requests -> OrderRow]
      /\ job \in [Procs -> Requests \cup {NoOrder}]
      /\ creds \in [Requests -> Nat] /\ want \in [Procs -> Int] /\ made \in [Procs -> Int]
  BY DEF TypeOK
<1> USE DEF Goto, locals, tables, SetStatus
<1>1. PICK o \in Requests : o = job[p]
  BY DEF Fulfil, Claim, Load, Provision, Persist, Complete, RefundLock, Refund, Close, JobOK,
         Fulfilling
<1> USE <1>1
<1>2. WorkOK(p) /\ OrderOK(o)
  BY <1>1 DEF WInv, WorkInv, OrderInv
<1>3. CASE Claim(p)
  <2>1. CASE Claimable(o)
    <3>1. /\ UNCHANGED <<req, creds, job, want, made>>
          /\ orders[o].status = "PENDING" /\ pc[p] = "claim"
          /\ orders' = [orders EXCEPT ![o].status = "PROCESSING"]
          /\ pc' = [pc EXCEPT ![p] = "load"]
      BY <1>3, <2>1 DEF Claim, Claimable
    <3>2. ASSUME NEW q \in Procs, pc[q] \in Fulfilling PROVE job[q] # o
      BY <3>1, <3>2 DEF WInv, WorkInv, WorkOK
    <3>3. Touches(p, o)
      BY <1>0, <1>1, <3>1, <3>2 DEF Touches, Placed
    <3>4. /\ orders'[o].status = "PROCESSING" /\ orders'[o].unit = orders[o].unit
          /\ orders'[o].quantity = orders[o].quantity
      BY <1>0, <1>1, <3>1 DEF OrderRow
    <3>5. OrderOK(o)'
      BY <1>2, <3>1, <3>4 DEF OrderOK, AdapterOf
    <3>6. made[p] = 0
      BY <1>2, <3>1 DEF WorkOK, Fulfilling
    <3>7. WorkOK(p)' /\ RequestOK(p)'
      BY <1>0, <1>2, <3>1, <3>4, <3>6 DEF WorkOK, OrderOK, RequestOK
    <3> QED
      BY <1>1, <3>1, <3>3, <3>5, <3>7, OneAtATime
  <2>2. CASE ~Claimable(o)
    <3>1. /\ UNCHANGED <<req, orders, creds>>
          /\ pc'[p] \in {"answer", "ack", "idle"} /\ made'[p] = 0
          /\ \A q \in Procs \ {p} : /\ pc'[q] = pc[q] /\ job'[q] = job[q]
                                    /\ want'[q] = want[q] /\ made'[q] = made[q]
      BY <1>0, <1>3, <2>2 DEF Claim, Return, AfterOk
    <3>2. pc'[p] \notin Fulfilling /\ RequestOK(p)'
      BY <3>1 DEF Fulfilling, RequestOK
    <3> QED
      BY <3>1, <3>2, Elsewhere
  <2> QED
    BY <2>1, <2>2
<1>4. CASE ~Claim(p)
  <2>0. pc[p] \in Fulfilling
    BY <1>4 DEF Fulfil, Load, Provision, Persist, Complete, RefundLock, Refund, Close, Fulfilling
  <2>1. /\ Placed(o) /\ orders[o].status = "PROCESSING"
        /\ \A q \in Procs \ {p} : pc[q] \in Fulfilling => job[q] # o
    BY <1>2, <2>0, OwnOrder DEF WorkOK
  \* p leaves with the rows as they are: the factory or the insert refuses.
  <2>2. ASSUME Return(p, AfterErr(p)), UNCHANGED <<req, orders, creds>> PROVE WInv'
    <3>1. /\ pc'[p] \in {"done", "ack", "idle"} /\ made'[p] = 0
          /\ \A q \in Procs \ {p} : /\ pc'[q] = pc[q] /\ job'[q] = job[q]
                                    /\ want'[q] = want[q] /\ made'[q] = made[q]
      BY <1>0, <2>2 DEF Return, AfterErr
    <3>2. pc'[p] \notin Fulfilling /\ RequestOK(p)'
      BY <3>1 DEF Fulfilling, RequestOK
    <3> QED
      BY <2>2, <3>1, <3>2, Elsewhere
  \* p stays and moves on to l, with its row and locals as they are.
  <2>3. ASSUME NEW l \in Fulfilling, pc' = [pc EXCEPT ![p] = l], UNCHANGED <<req, job, orders>>,
               \A q \in Procs \ {p} : want'[q] = want[q] /\ made'[q] = made[q],
               \A x \in Requests \ {o} : creds'[x] = creds[x],
               OrderOK(o)', WorkOK(p)'
        PROVE  WInv'
    <3>1. Touches(p, o)
      BY <1>0, <2>1, <2>3 DEF Touches
    <3>2. RequestOK(p)'
      BY <1>0, <2>3 DEF RequestOK, Fulfilling
    <3> QED
      BY <1>1, <2>3, <3>1, <3>2, OneAtATime
  <2>4. CASE Load(p)
    <3>0. pc[p] = "load" /\ UNCHANGED <<req, orders, creds>>
      BY <2>4 DEF Load
    <3>1. creds[o] = 0 /\ orders[o].quantity > 0 /\ made[p] = 0
      BY <1>2, <3>0 DEF WorkOK
    <3>2. OrderOK(o)'
      BY <1>2, <3>0 DEF OrderOK, AdapterOf, Load
    <3>3. CASE Return(p, AfterErr(p))
      BY <2>2, <3>0, <3>3
    <3>4. CASE AdapterOf(o) = "none" /\ Goto(p, "fail") /\ UNCHANGED locals
      <4>1. WorkOK(p)'
        BY <1>0, <2>1, <3>0, <3>1, <3>4 DEF WorkOK, AdapterOf, Fulfilling
      <4> QED
        BY <2>3, <3>0, <3>2, <3>4, <4>1 DEF Fulfilling
    <3>5. CASE want' = [want EXCEPT ![p] = orders[o].quantity] /\ Goto(p, "provision")
               /\ UNCHANGED <<job, made>>
      <4>1. WorkOK(p)'
        BY <1>0, <2>1, <3>0, <3>1, <3>5 DEF WorkOK, Fulfilling
      <4>2. \A q \in Procs \ {p} : want'[q] = want[q] /\ made'[q] = made[q]
        BY <1>0, <3>5
      <4> QED
        BY <2>3, <3>0, <3>2, <3>5, <4>1, <4>2 DEF Fulfilling
    <3> QED
      BY <2>4, <3>3, <3>4, <3>5 DEF Load
  <2>5. CASE Provision(p) \/ RefundLock(p)
    <3>1. PICK l \in {"persist", "refund_lock", "refund"} : pc' = [pc EXCEPT ![p] = l]
      BY <2>5 DEF Provision, RefundLock, OnProviderError
    <3>2. pc[p] \in {"provision", "refund_lock"} /\ UNCHANGED <<req, job, want, made, orders, creds>>
      BY <2>5 DEF Provision, RefundLock
    <3>3. OrderOK(o)' /\ WorkOK(p)'
      BY <1>0, <1>2, <2>1, <3>1, <3>2 DEF OrderOK, WorkOK, AdapterOf, Fulfilling
    <3> QED
      BY <2>3, <3>1, <3>2, <3>3 DEF Fulfilling
  <2>6. CASE Persist(p)
    <3>0. pc[p] = "persist" /\ UNCHANGED <<req, orders>>
      BY <2>6 DEF Persist
    <3>1. creds[o] = made[p] /\ orders[o].quantity = want[p] /\ made[p] < want[p]
      BY <1>2, <3>0 DEF WorkOK
    <3>2. CASE Return(p, AfterErr(p)) /\ UNCHANGED creds
      BY <2>2, <3>0, <3>2
    <3>3. CASE /\ creds' = [creds EXCEPT ![o] = @ + 1] /\ made' = [made EXCEPT ![p] = @ + 1]
               /\ Goto(p, IF LastUnit(p) THEN "complete" ELSE "provision")
               /\ UNCHANGED <<job, want>>
      <4>1. creds'[o] = creds[o] + 1 /\ made'[p] = made[p] + 1
            /\ creds[o] \in Nat /\ made[p] \in Int /\ want[p] \in Int
        BY <1>0, <1>1, <3>3
      <4>2. OrderOK(o)'
        BY <1>2, <2>1, <3>0, <3>1, <4>1 DEF OrderOK
      <4>3. pc'[p] = IF made[p] + 1 = want[p] THEN "complete" ELSE "provision"
        BY <1>0, <3>3 DEF LastUnit
      <4>4. WorkOK(p)'
        BY <2>1, <3>0, <3>1, <3>3, <4>1, <4>3 DEF WorkOK, Fulfilling
      <4>5. /\ \A q \in Procs \ {p} : want'[q] = want[q] /\ made'[q] = made[q]
            /\ \A x \in Requests \ {o} : creds'[x] = creds[x]
        BY <1>0, <3>3
      <4> QED
        BY <2>3, <3>0, <3>3, <4>2, <4>4, <4>5 DEF Fulfilling
    <3> QED
      BY <2>6, <3>2, <3>3 DEF Persist
  <2>7. CASE Refund(p)
    <3>1. /\ pc[p] = "refund" /\ UNCHANGED <<req, job, want, made, creds>>
          /\ orders' = [orders EXCEPT ![o].quantity = made[p]]
          /\ pc' = [pc EXCEPT ![p] = IF made[p] > 0 THEN "partial" ELSE "fail"]
      BY <2>7 DEF Refund
    <3>2. creds[o] = made[p] /\ creds[o] \in Nat
      BY <1>0, <1>1, <1>2, <3>1 DEF WorkOK
    <3>3. /\ orders'[o].status = orders[o].status /\ orders'[o].unit = orders[o].unit
          /\ orders'[o].quantity = made[p]
      BY <1>0, <1>1, <3>1 DEF OrderRow
    <3>4. OrderOK(o)'
      BY <1>2, <2>1, <3>1, <3>2, <3>3 DEF OrderOK
    <3>5. WorkOK(p)' /\ RequestOK(p)'
      BY <1>0, <2>1, <3>1, <3>2, <3>3 DEF WorkOK, RequestOK, Fulfilling
    <3>6. Touches(p, o)
      BY <1>0, <2>1, <3>1 DEF Touches
    <3> QED
      BY <1>1, <3>1, <3>4, <3>5, <3>6, OneAtATime
  <2>8. CASE Complete(p) \/ Close(p)
    <3> DEFINE s == IF pc[p] \in {"complete", "partial"} THEN "COMPLETED" ELSE "FAILED"
    <3>1. /\ pc[p] \in {"complete", "partial", "fail"} /\ UNCHANGED <<req, creds>>
          /\ pc'[p] \in {"answer", "ack", "idle"} /\ made'[p] = 0
          /\ \A q \in Procs \ {p} : /\ pc'[q] = pc[q] /\ job'[q] = job[q]
                                    /\ want'[q] = want[q] /\ made'[q] = made[q]
      BY <1>0, <2>8 DEF Complete, Close, Return, AfterOk
    <3>2. \/ orders' = [orders EXCEPT ![o].status = s]
          \/ orders' = [orders EXCEPT ![o].status = s, ![o].reason = TRUE]
      BY <2>8 DEF Complete, Close, ClosingStatus
    <3>3. /\ orders'[o].status = s /\ orders'[o].unit = orders[o].unit
          /\ orders'[o].quantity = orders[o].quantity
          /\ \A x \in Requests \ {o} : orders'[x] = orders[x]
      <4> HIDE DEF s
      <4> QED
        BY <1>0, <1>1, <3>2 DEF OrderRow
    <3>4. OrderOK(o)'
      BY <1>2, <3>1, <3>3 DEF OrderOK, WorkOK, AdapterOf
    <3>5. WorkOK(p)' /\ RequestOK(p)' /\ pc'[p] \notin Fulfilling
      BY <3>1 DEF WorkOK, RequestOK, Fulfilling
    <3>6. Touches(p, o)
      BY <2>1, <3>1, <3>3 DEF Touches
    <3> QED
      BY <1>1, <3>4, <3>5, <3>6, OneAtATime
  <2> QED
    BY <1>4, <2>4, <2>5, <2>6, <2>7, <2>8 DEF Fulfil
<1> QED
  BY <1>3, <1>4

LEMMA WStep == TypeOK /\ JobOK /\ WInv /\ [Next]_vars => WInv'
<1> SUFFICES ASSUME TypeOK, JobOK, WInv, [Next]_vars PROVE WInv'
  OBVIOUS
<1>1. CASE UNCHANGED vars
  BY <1>1 DEF vars, WInv, RequestInv, RequestOK, Placed, OrderInv, OrderOK, AdapterOf, WorkInv,
              WorkOK, ApartInv
<1> QED
  BY <1>1, PurchaseKeeps, WorkKeeps, AdminKeeps, FulfilKeeps, FailureKeeps DEF Next

-----------------------------------------------------------------------------
(* The safety theorems *)

\* The price an order was placed at stays, as no order is placed twice.
LEMMA UnitStays ==
  ASSUME TypeOK, JobOK, WInv, [Next]_vars, NEW o \in Requests
  PROVE  orders'[o].unit = orders[o].unit \/ orders[o].unit = 0
<1>0. orders \in [Requests -> OrderRow]
  BY DEF TypeOK
<1>1. ASSUME NEW r \in Requests, ReserveCommit(r), r = o PROVE orders[o].unit = 0
  <2>1. ~Placed(o) /\ OrderOK(o)
    BY <1>1 DEF ReserveCommit, WInv, RequestInv, RequestOK, OrderInv
  <2>2. QED  BY <2>1 DEF Placed, OrderOK, NoRow
<1>2. ASSUME NEW r \in Requests, ReserveCommit(r), r # o PROVE orders'[o] = orders[o]
  BY <1>0, <1>2 DEF ReserveCommit
<1>3. ASSUME NEW p \in Procs, Claim(p) \/ Complete(p) PROVE orders'[o].unit = orders[o].unit
  BY <1>0, <1>3 DEF Claim, Complete, SetStatus, OrderRow
<1>4. ASSUME NEW p \in Procs, Refund(p) PROVE orders'[o].unit = orders[o].unit
  BY <1>0, <1>4 DEF Refund, OrderRow
<1>5. ASSUME NEW p \in Procs, Close(p) PROVE orders'[o].unit = orders[o].unit
  BY <1>0, <1>5 DEF Close, OrderRow
<1>6. ASSUME NEW a \in Admins, NEW x \in Requests, CompleteWhatsApp(a, x)
      PROVE  orders'[o].unit = orders[o].unit
  BY <1>0, <1>6 DEF CompleteWhatsApp, SetStatus, OrderRow
<1> QED
  BY <1>1, <1>2, <1>3, <1>4, <1>5, <1>6, OrderWriters

\* Hence who has ordered at a negative price has for good.
LEMMA ExposedStays ==
  ASSUME TypeOK, JobOK, WInv, [Next]_vars, NEW u \in Resellers, Exposed(u)
  PROVE  Exposed(u)'
<1>1. CASE InitialCredits[u] < 0
  BY <1>1 DEF Exposed
<1>2. CASE \E o \in Requests : Reseller(o) = u /\ orders[o].unit < 0
  <2>1. PICK o \in Requests : Reseller(o) = u /\ orders[o].unit < 0
    BY <1>2
  <2>2. orders'[o].unit = orders[o].unit
    BY <2>1, UnitStays
  <2>3. Reseller(o)' = u
    BY <2>1, Constant DEF Reseller
  <2> QED
    BY <2>1, <2>2, <2>3 DEF Exposed
<1> QED
  BY <1>1, <1>2 DEF Exposed

LEMMA OverdrawnStep ==
  ASSUME TypeOK, JobOK, LockInv, WInv, NeverOverdrawn, [Next]_vars
  PROVE  NeverOverdrawn'
<1>0. /\ balance \in [Resellers -> Int]
      /\ \A u \in Resellers : (balance[u] >= 0 \/ Exposed(u)) /\ (Exposed(u) => Exposed(u)')
  BY ExposedStays DEF TypeOK, NeverOverdrawn
<1>1. ASSUME NEW p \in Procs, NEW u \in Resellers, NEW delta \in Int, NEW actor, NEW ref,
             Post(p, u, delta, actor, ref), seen[p] + delta >= 0 \/ Exposed(u)
      PROVE  NeverOverdrawn'
  <2>1. \A v \in Resellers : balance'[v] = IF v = u THEN seen[p] + delta ELSE balance[v]
    BY <1>0, <1>1 DEF Post
  <2> QED
    BY <1>0, <1>1, <2>1 DEF NeverOverdrawn
<1>2. CASE UNCHANGED <<balance, ledger>>
  BY <1>0, <1>2 DEF NeverOverdrawn
<1>3. ASSUME NEW r \in Requests, ReserveCommit(r) PROVE NeverOverdrawn'
  <2>1. /\ r \in Procs /\ Reseller(r) \in Resellers /\ Total(r) \in Int
        /\ seen[r] \in Int
    BY RequestType DEF Procs, Total, TypeOK
  <2>2. seen[r] + (-Total(r)) >= 0
    BY <1>3, <2>1 DEF ReserveCommit, Affordable
  <2>3. Post(r, Reseller(r), -Total(r), "RESELLER", r)
    BY <1>3 DEF ReserveCommit
  <2> QED
    BY <1>1, <2>1, <2>2, <2>3
<1>4. ASSUME NEW p \in Procs, Refund(p) PROVE NeverOverdrawn'
  <2>1. pc[p] = "refund" /\ pc[p] \in Fulfilling
    BY <1>4 DEF Refund, Fulfilling
  <2>2. /\ job[p] \in Requests /\ OrderOK(job[p]) /\ WorkOK(p)
        /\ locked[Reseller(job[p])] = p
    BY <2>1, OwnOrder DEF LockInv
  <2>3. Reseller(job[p]) \in Resellers
    BY <2>2, RequestType
  <2>4. seen[p] = balance[Reseller(job[p])]
    BY <2>2, <2>3, ProcsAssumption DEF LockInv
  <2>5. /\ orders[job[p]].unit \in Int
        /\ want[p] \in Int /\ made[p] \in Int /\ made[p] < want[p]
    BY <2>1, <2>2 DEF WorkOK, TypeOK, OrderRow
  <2>6. Unprocessed(p) \in Nat
    BY <2>5 DEF Unprocessed
  <2>7. orders[job[p]].unit * Unprocessed(p) \in Int
    BY <2>5, <2>6
  <2>8. seen[p] + orders[job[p]].unit * Unprocessed(p) >= 0 \/ Exposed(Reseller(job[p]))
    <3>1. CASE orders[job[p]].unit < 0
      BY <2>2, <3>1 DEF Exposed
    <3>2. CASE orders[job[p]].unit >= 0
      <4>1. orders[job[p]].unit \in Nat
        BY <2>5, <3>2
      <4>2. orders[job[p]].unit * Unprocessed(p) \in Nat
        BY <2>6, <4>1
      <4> QED
        BY <1>0, <2>3, <2>4, <4>2
    <3> QED
      BY <2>5, <3>1, <3>2
  <2> QED
    BY <1>1, <1>4, <2>2, <2>3, <2>7, <2>8 DEF Refund
<1>5. ASSUME NEW a \in Admins, NEW u \in Resellers, Adjust(a, u) PROVE NeverOverdrawn'
  <2>1. PICK amount \in Amounts \ {0} :
          \/ UNCHANGED <<balance, ledger>>
          \/ seen[a] + amount >= 0 /\ Post(a, u, amount, "ADMIN", NoOrder)
    BY <1>5 DEF Adjust
  <2>2. amount \in Int /\ a \in Procs
    BY CreditsAssumption DEF Procs
  <2> QED
    BY <1>1, <1>2, <2>1, <2>2
<1> QED
  BY <1>2, <1>3, <1>4, <1>5, MoneyWriters

LEMMA IInvInit == Init => IInv
<1> SUFFICES ASSUME Init PROVE IInv
  OBVIOUS
<1>1. NeverOverdrawn
  BY CreditsAssumption DEF Init, NeverOverdrawn, Exposed
<1> QED
  BY <1>1, TypeInit, LockInit, LedgerInit, WInit DEF IInv, WInv

LEMMA IInvStep == IInv /\ [Next]_vars => IInv'
  BY TypeStep, LockStep, LedgerStep, WStep, OverdrawnStep DEF IInv, WInv

THEOREM Invariance == Spec => []IInv
  BY IInvInit, IInvStep, PTL DEF Spec

\* For all prices and opening credits, negative ones included, which nothing refuses: no
\* interleaving of purchases, refunds and credit adjustments, and no failure between
\* their statements, leaves a reseller below zero that neither opened there nor
\* ordered at a negative price.
THEOREM SolvencyCorrect == Spec => []NeverOverdrawn
<1>1. IInv => NeverOverdrawn
  BY DEF IInv
<1> QED
  BY <1>1, Invariance, PTL

\* The conditional UPDATE admits one fulfiller: the inline request, the workers
\* and the admin endpoints never work on one order at once.
THEOREM ClaimCorrect == Spec => []SingleFulfiller
<1>1. IInv => SingleFulfiller
  BY DEF IInv, SingleFulfiller, WorkInv, WorkOK, ApartInv
<1> QED
  BY <1>1, Invariance, PTL

\* A completed order holds what it was charged for, a failed one nothing, and
\* a failed one that had a provider was refunded in full.
THEOREM SettlementCorrect == Spec => [](DeliveredAsSold /\ FailedIsRefunded)
<1>1. IInv => DeliveredAsSold /\ FailedIsRefunded
  BY DEF IInv, OrderInv, OrderOK, DeliveredAsSold, FailedIsRefunded
<1> QED
  BY <1>1, Invariance, PTL

\* At every step, in the middle of a delivery or between a refund and the
\* closing update, wherever a crash or an error cuts in, an order has no more
\* credentials than units that are paid for.
THEOREM HoldingCorrect == Spec => []PaidForWhatItHolds
<1>1. IInv => PaidForWhatItHolds
  BY DEF IInv, OrderInv, OrderOK, PaidForWhatItHolds
<1> QED
  BY <1>1, Invariance, PTL

\* Everybody inside fulfill_order has an order that is not closed.
LEMMA ClosedStays ==
  ASSUME IInv, [Next]_vars, NEW o \in Requests, orders[o].status \in Terminal
  PROVE  orders'[o] = orders[o] /\ creds'[o] = creds[o]
<1>0. TypeOK /\ JobOK /\ WInv /\ orders \in [Requests -> OrderRow] /\ creds \in [Requests -> Nat]
  BY DEF IInv, WInv, TypeOK
<1>1. ASSUME NEW p \in Procs, pc[p] \in Fulfilling PROVE job[p] # o
  BY <1>0, <1>1 DEF WInv, WorkInv, WorkOK, Terminal
<1>2. orders'[o] = orders[o]
  <2>1. ASSUME NEW r \in Requests, ReserveCommit(r) PROVE orders'[o] = orders[o]
    <3>1. orders[r].status = "NONE"
      BY <1>0, <2>1 DEF ReserveCommit, WInv, RequestInv, RequestOK, Placed
    <3>2. r # o
      BY <3>1 DEF Terminal
    <3> QED
      BY <1>0, <2>1, <3>2 DEF ReserveCommit
  <2>2. ASSUME NEW p \in Procs, Claim(p) PROVE orders'[o] = orders[o]
    BY <1>0, <2>2 DEF Claim, Claimable, SetStatus, Terminal
  <2>3. ASSUME NEW p \in Procs, Complete(p) \/ Refund(p) \/ Close(p) PROVE orders'[o] = orders[o]
    <3>1. job[p] # o
      BY <1>1, <2>3 DEF Complete, Refund, Close, Fulfilling
    <3> QED
      BY <1>0, <2>3, <3>1 DEF Complete, SetStatus, Refund, Close
  <2>4. ASSUME NEW a \in Admins, NEW x \in Requests, CompleteWhatsApp(a, x)
        PROVE  orders'[o] = orders[o]
    BY <1>0, <2>4 DEF CompleteWhatsApp, Completable, SetStatus, Terminal
  <2> QED
    BY <2>1, <2>2, <2>3, <2>4, OrderWriters
<1>3. creds'[o] = creds[o]
  <2>1. ASSUME NEW p \in Procs, Provision(p) PROVE creds'[o] = creds[o]
    BY <2>1 DEF Provision
  <2>2. ASSUME NEW p \in Procs, Persist(p) PROVE creds'[o] = creds[o]
    <3>1. job[p] # o
      BY <1>1, <2>2 DEF Persist, Fulfilling
    <3> QED
      BY <1>0, <2>2, <3>1 DEF Persist
  <2> QED
    BY <2>1, <2>2, DeliveryWriters
<1> QED
  BY <1>2, <1>3

\* No late fulfiller, worker or admin changes an order that is closed.
THEOREM FinalityCorrect == Spec => TerminalIsFinal
<1> DEFINE Final == \A o \in Requests : orders[o].status \in Terminal =>
                      orders'[o] = orders[o] /\ creds'[o] = creds[o]
<1>1. IInv /\ [Next]_vars => [Final]_vars
  BY ClosedStays
<1> QED
  BY <1>1, Invariance, PTL DEF Spec, TerminalIsFinal

-----------------------------------------------------------------------------
(* What a step does to a status, and to a process *)

\* A row is never deleted, and only its own request makes it wait.
LEMMA StatusMoves ==
  ASSUME IInv, [Next]_vars, NEW o \in Requests
  PROVE  /\ Placed(o) => Placed(o)'
         /\ ~Placed(o) /\ Placed(o)' => ReserveCommit(o)
         /\ orders'[o].status = "PENDING" => orders[o].status = "PENDING" \/ ReserveCommit(o)
         /\ orders'[o].status = "PROCESSING" =>
              \/ orders[o].status = "PROCESSING"
              \/ orders[o].status = "PENDING" /\ \E p \in Procs : Claim(p) /\ job[p] = o
<1>0. /\ orders \in [Requests -> OrderRow] /\ JobOK /\ WInv /\ orders[o] \in OrderRow
  BY DEF IInv, TypeOK, WInv
<1> USE DEF Placed
<1>1. CASE UNCHANGED orders
  BY <1>1
<1>2. ASSUME NEW r \in Requests, ReserveCommit(r)
      PROVE  /\ orders[r].status = "NONE" /\ orders'[r].status = "PENDING"
             /\ o # r => orders'[o] = orders[o]
  BY <1>0, <1>2 DEF ReserveCommit, WInv, RequestInv, RequestOK
<1>3. ASSUME NEW p \in Procs, Claim(p)
      PROVE  /\ job[p] # o => orders'[o] = orders[o]
             /\ job[p] = o => \/ orders'[o] = orders[o]
                              \/ orders[o].status = "PENDING" /\ orders'[o].status = "PROCESSING"
  BY <1>0, <1>3 DEF Claim, Claimable, SetStatus, OrderRow
<1>4. ASSUME NEW p \in Procs, Complete(p) \/ Refund(p) \/ Close(p)
      PROVE  /\ job[p] # o => orders'[o] = orders[o]
             /\ job[p] = o => /\ orders[o].status = "PROCESSING"
                              /\ orders'[o].status \in {"PROCESSING", "COMPLETED", "FAILED"}
  BY <1>0, <1>4 DEF Complete, Refund, Close, ClosingStatus, SetStatus, OrderRow, WInv, WorkInv,
                    WorkOK, Fulfilling
<1>5. ASSUME NEW a \in Admins, NEW x \in Requests, CompleteWhatsApp(a, x)
      PROVE  \/ orders'[o] = orders[o]
             \/ orders[o].status = "PENDING" /\ orders'[o].status = "COMPLETED"
  BY <1>0, <1>5 DEF CompleteWhatsApp, Completable, SetStatus, OrderRow
<1>6. CASE \E r \in Requests : ReserveCommit(r)
  BY <1>2, <1>6
<1>7. CASE \E p \in Procs : Claim(p)
  BY <1>3, <1>7
<1>8. CASE \E p \in Procs : Complete(p) \/ Refund(p) \/ Close(p)
  BY <1>4, <1>8
<1>9. CASE \E a \in Admins, x \in Requests : CompleteWhatsApp(a, x)
  BY <1>5, <1>9
<1>10. QED  BY <1>1, <1>6, <1>7, <1>8, <1>9, OrderWriters

\* Only the claim of a waiting order leads into fulfill_order, and within it only
\* its own steps move a process.
LEMMA InHand ==
  ASSUME TypeOK, [Next]_vars, NEW p \in Procs, pc'[p] \in Fulfilling
  PROVE  /\ job'[p] = job[p]
         /\ \/ pc'[p] = pc[p]
            \/ Claim(p) /\ orders[job[p]].status = "PENDING" /\ pc'[p] = "load"
            \/ Load(p) \/ Provision(p) \/ Persist(p) \/ RefundLock(p) \/ Refund(p)
<1> DEFINE Goal == /\ job'[p] = job[p]
                   /\ \/ pc'[p] = pc[p]
                      \/ Claim(p) /\ orders[job[p]].status = "PENDING" /\ pc'[p] = "load"
                      \/ Load(p) \/ Provision(p) \/ Persist(p) \/ RefundLock(p) \/ Refund(p)
<1>0. pc \in [Procs -> Locations] /\ job \in [Procs -> Requests \cup {NoOrder}]
  BY DEF TypeOK
<1> USE DEF Goto, locals, Fulfilling
<1>1. CASE UNCHANGED vars
  BY <1>1 DEF vars
<1>2. ASSUME NEW r \in Requests, Purchase(r) PROVE Goal
  BY <1>0, <1>2 DEF Procs, Purchase, CheckReplay, Quote, LockReseller, ReserveRollback,
                    ReserveCommit, Enqueue, Answer, Reject
<1>3. ASSUME NEW w \in Workers, Work(w) PROVE Goal
  BY <1>0, <1>3 DEF Procs, Work, EnsureGroup, ReadEntry, ReadTimeout, Ack
<1>4. ASSUME NEW a \in Admins, Administer(a) PROVE Goal
  BY <1>0, <1>4 DEF Procs, Administer, AdminFulfil, CompleteWhatsApp, AdjustLock, Adjust,
                    EditVariant
<1>5. ASSUME NEW q \in Procs, Fulfil(q) PROVE Goal
  <2>1. CASE Claim(q)
    BY <1>0, <2>1 DEF Claim, Claimable, Return, AfterOk
  <2>2. CASE Load(q) \/ Provision(q) \/ Persist(q) \/ RefundLock(q)
    <3>1. CASE q = p
      BY <1>0, <2>2, <3>1 DEF Load, Provision, Persist, RefundLock, Return, AfterErr
    <3>2. CASE q # p
      BY <1>0, <2>2, <3>2 DEF Load, Provision, Persist, RefundLock, Return, AfterErr
    <3>3. QED  BY <3>1, <3>2
  <2>3. CASE Complete(q) \/ Refund(q) \/ Close(q)
    <3>1. CASE q = p
      BY <1>0, <2>3, <3>1 DEF Complete, Refund, Close, Return, AfterOk
    <3>2. CASE q # p
      BY <1>0, <2>3, <3>2 DEF Complete, Refund, Close, Return, AfterOk
    <3>3. QED  BY <3>1, <3>2
  <2>4. QED  BY <1>5, <2>1, <2>2, <2>3 DEF Fulfil
<1>6. ASSUME NEW q \in Procs, DbError(q) \/ Crash(q) PROVE Goal
  BY <1>0, <1>6 DEF DbError, Crash, Return, AfterErr
<1>7. QED  BY <1>1, <1>2, <1>3, <1>4, <1>5, <1>6 DEF Next

\* A process stands where its own steps brought it.
LEMMA OwnMoves ==
  ASSUME TypeOK, [Next]_vars, NEW p \in Procs
  PROVE  \/ /\ pc'[p] = pc[p] /\ job'[p] = job[p]
            /\ p \in Requests => resp'[p] = resp[p]
         \/ p \in Requests /\ Purchase(p)
         \/ p \in Workers /\ Work(p)
         \/ p \in Admins /\ Administer(p)
         \/ Fulfil(p) \/ DbError(p) \/ Crash(p)
<1> DEFINE Stays == /\ pc'[p] = pc[p] /\ job'[p] = job[p]
                    /\ p \in Requests => resp'[p] = resp[p]
<1>0. /\ pc \in [Procs -> Locations] /\ job \in [Procs -> Requests \cup {NoOrder}]
      /\ resp \in [Requests -> Reply]
  BY DEF TypeOK
<1> USE DEF Goto, locals
<1>1. CASE UNCHANGED vars
  BY <1>1 DEF vars
<1>2. ASSUME NEW r \in Requests, Purchase(r), r # p PROVE Stays
  BY <1>0, <1>2 DEF Purchase, CheckReplay, Quote, LockReseller, ReserveRollback, ReserveCommit,
                    Enqueue, Answer, Reject
<1>3. ASSUME NEW w \in Workers, Work(w), w # p PROVE Stays
  BY <1>0, <1>3 DEF Work, EnsureGroup, ReadEntry, ReadTimeout, Ack
<1>4. ASSUME NEW a \in Admins, Administer(a), a # p PROVE Stays
  BY <1>0, <1>4 DEF Administer, AdminFulfil, CompleteWhatsApp, AdjustLock, Adjust, EditVariant
<1>5. ASSUME NEW q \in Procs, Fulfil(q), q # p PROVE Stays
  BY <1>0, <1>5 DEF Fulfil, Claim, Load, Provision, Persist, Complete, RefundLock, Refund, Close,
                    Return, ReplyErr
<1>6. ASSUME NEW q \in Procs, DbError(q) \/ Crash(q), q # p PROVE Stays
  BY <1>0, <1>6 DEF DbError, Crash, Return, ReplyErr
<1>7. QED  BY <1>1, <1>2, <1>3, <1>4, <1>5, <1>6 DEF Next

-----------------------------------------------------------------------------
(* Lines at the provider *)

\* A fulfiller has stored every line but the one it is about to store; an order
\* nobody has begun has none outstanding.
LinesInv ==
  /\ NoExcessLines
  /\ \A o \in Requests : Placed(o) => orders[o].quantity <= req[o].quantity
  /\ \A o \in Requests : orders[o].status \in {"NONE", "PENDING"} => lines[o] = creds[o]
  /\ \A p \in Procs : pc[p] \in Fulfilling =>
       lines[job[p]] = IF pc[p] = "persist" THEN creds[job[p]] + 1 ELSE creds[job[p]]

LEMMA LinesInit == Init => LinesInv
BY DEF Init, LinesInv, NoExcessLines, Placed, NoRow, Fulfilling, Procs

\* The quantity of an order is the one asked for, or less.
LEMMA OnlyShrinks ==
  ASSUME IInv, LinesInv, [Next]_vars, NEW o \in Requests, Placed(o)'
  PROVE  orders'[o].quantity <= req'[o].quantity
<1>0. /\ orders \in [Requests -> OrderRow] /\ JobOK /\ WInv /\ orders[o] \in OrderRow
      /\ req' = req /\ req[o].quantity \in Int /\ made \in [Procs -> Int] /\ TypeOK
  BY Constant, RequestType DEF IInv, TypeOK, WInv
<1>1. ASSUME Placed(o), orders'[o].quantity = orders[o].quantity
      PROVE  orders'[o].quantity <= req'[o].quantity
  BY <1>0, <1>1 DEF LinesInv
<1>2. CASE UNCHANGED orders
  BY <1>0, <1>1, <1>2 DEF Placed
<1>3. ASSUME NEW r \in Requests, ReserveCommit(r) PROVE orders'[o].quantity <= req'[o].quantity
  <2>1. orders' = [orders EXCEPT ![r] = [status |-> "PENDING", quantity |-> req[r].quantity,
                                         unit |-> quote[r], reason |-> FALSE]]
    BY <1>3 DEF ReserveCommit
  <2>2. CASE r = o
    BY <1>0, <2>1, <2>2
  <2>3. CASE r # o
    BY <1>0, <1>1, <2>1, <2>3 DEF Placed
  <2>4. QED  BY <2>2, <2>3
<1>4. ASSUME NEW p \in Procs, Refund(p) PROVE orders'[o].quantity <= req'[o].quantity
  <2>1. pc[p] = "refund" /\ orders' = [orders EXCEPT ![job[p]].quantity = made[p]]
    BY <1>4 DEF Refund
  <2>2. WorkOK(p) /\ made[p] \in Int /\ want[p] \in Int
    BY <1>0 DEF WInv, WorkInv, TypeOK
  <2>3. CASE job[p] = o
    <3>1. /\ orders'[o].quantity = made[p] /\ orders[o].quantity = want[p] /\ made[p] < want[p]
          /\ Placed(o)
      BY <1>0, <2>1, <2>2, <2>3 DEF WorkOK, Fulfilling, Placed, OrderRow
    <3>2. orders[o].quantity <= req[o].quantity
      BY <3>1 DEF LinesInv
    <3>3. QED  BY <1>0, <2>2, <3>1, <3>2
  <2>4. CASE job[p] # o
    BY <1>0, <1>1, <2>1, <2>4 DEF Placed
  <2>5. QED  BY <2>3, <2>4
<1>5. ASSUME NEW p \in Procs, Claim(p) \/ Complete(p) \/ Close(p)
      PROVE  orders'[o].quantity = orders[o].quantity
  BY <1>0, <1>5 DEF Claim, Complete, Close, SetStatus, OrderRow
<1>6. ASSUME NEW a \in Admins, NEW x \in Requests, CompleteWhatsApp(a, x)
      PROVE  orders'[o].quantity = orders[o].quantity
  BY <1>0, <1>6 DEF CompleteWhatsApp, SetStatus, OrderRow
<1>7. CASE Placed(o)
  BY <1>1, <1>2, <1>3, <1>4, <1>5, <1>6, <1>7, OrderWriters
<1>8. CASE ~Placed(o)
  BY <1>3, <1>8, StatusMoves
<1>9. QED  BY <1>7, <1>8

\* The two steps that count: a line is created by whoever has the order in hand
\* and has stored what it created before.
LEMMA LinesMove ==
  ASSUME IInv, LinesInv, [Next]_vars, NEW p \in Procs, Provision(p) \/ Persist(p), NEW o \in Requests,
         o = job[p]
  PROVE  /\ Placed(o) /\ orders' = orders /\ orders[o].status = "PROCESSING"
         /\ lines'[o] \in Nat /\ creds'[o] \in Nat
         /\ lines'[o] <= req[o].quantity
         /\ lines'[o] - creds'[o] \in {0, 1}
         /\ \A x \in Requests \ {o} : lines'[x] = lines[x] /\ creds'[x] = creds[x]
         /\ \A q \in Procs : q # p /\ pc[q] \in Fulfilling => job[q] # o
         /\ pc'[p] \in Fulfilling =>
              lines'[o] = IF pc'[p] = "persist" THEN creds'[o] + 1 ELSE creds'[o]
<1>1. /\ TypeOK /\ JobOK /\ WInv /\ pc[p] \in {"provision", "persist"} /\ pc[p] \in Fulfilling
      /\ pc \in [Procs -> Locations] /\ lines \in [Requests -> Nat] /\ creds \in [Requests -> Nat]
      /\ made[p] \in Int /\ want[p] \in Int /\ req[o].quantity \in Int
  BY RequestType DEF IInv, WInv, TypeOK, Provision, Persist, Fulfilling
<1>2. Placed(o) /\ WorkOK(p) /\ \A q \in Procs \ {p} : pc[q] \in Fulfilling => job[q] # o
  BY <1>1, OwnOrder
<1>3. /\ orders[o].status = "PROCESSING" /\ creds[o] = made[p] /\ made[p] < want[p]
      /\ orders[o].quantity = want[p] /\ orders[o].quantity <= req[o].quantity
  BY <1>1, <1>2 DEF WorkOK, LinesInv
<1>4. CASE Provision(p)
  <2>1. pc[p] = "provision" /\ lines[o] = creds[o] /\ UNCHANGED <<orders, creds>>
    BY <1>1, <1>4 DEF Provision, LinesInv
  <2>2. CASE lines' = [lines EXCEPT ![o] = lines[o] + 1] /\ Goto(p, "persist")
    BY <1>1, <1>2, <1>3, <2>1, <2>2 DEF Goto
  <2>3. CASE UNCHANGED lines /\ Goto(p, "refund_lock")
    BY <1>1, <1>2, <1>3, <2>1, <2>3 DEF Goto
  <2>4. QED  BY <1>4, <2>2, <2>3 DEF Provision, OnProviderError
<1>5. CASE Persist(p)
  <2>1. pc[p] = "persist" /\ lines[o] = creds[o] + 1 /\ UNCHANGED <<orders, lines>>
    BY <1>1, <1>5 DEF Persist, LinesInv
  <2>2. CASE Return(p, AfterErr(p)) /\ UNCHANGED creds
    BY <1>1, <1>2, <1>3, <2>1, <2>2 DEF Return, Goto, AfterErr, Fulfilling
  <2>3. CASE creds' = [creds EXCEPT ![o] = creds[o] + 1]
             /\ Goto(p, IF LastUnit(p) THEN "complete" ELSE "provision")
    BY <1>1, <1>2, <1>3, <2>1, <2>3 DEF Goto
  <2>4. QED  BY <1>5, <2>2, <2>3 DEF Persist
<1>6. QED  BY <1>4, <1>5

LEMMA LinesStep == IInv /\ LinesInv /\ [Next]_vars => LinesInv'
<1> SUFFICES ASSUME IInv, LinesInv, [Next]_vars PROVE LinesInv'
  OBVIOUS
<1>0. /\ TypeOK /\ JobOK /\ WInv /\ req' = req
  BY Constant DEF IInv, WInv
<1>1. \A o \in Requests : Placed(o)' => orders'[o].quantity <= req'[o].quantity
  BY OnlyShrinks
<1>2. CASE \E p \in Procs : Provision(p) \/ Persist(p)
  <2>1. PICK p \in Procs : Provision(p) \/ Persist(p)
    BY <1>2
  <2>2. PICK o \in Requests : o = job[p]
    BY <1>0, <2>1 DEF JobOK, Provision, Persist, Fulfilling
  <2>3. NoExcessLines'
    BY <1>0, <2>1, <2>2, LinesMove DEF NoExcessLines, LinesInv, Placed
  <2>4. \A x \in Requests : orders'[x].status \in {"NONE", "PENDING"} => lines'[x] = creds'[x]
    BY <2>1, <2>2, LinesMove DEF LinesInv
  <2>5. ASSUME NEW q \in Procs, pc'[q] \in Fulfilling
        PROVE  lines'[job'[q]] = IF pc'[q] = "persist" THEN creds'[job'[q]] + 1 ELSE creds'[job'[q]]
    <3>1. job'[q] = job[q]
      BY <1>0, <2>5, InHand
    <3>2. CASE q = p
      BY <2>1, <2>2, <2>5, <3>1, <3>2, LinesMove
    <3>3. CASE q # p
      <4>1. pc'[q] = pc[q]
        BY <1>0, <2>1, <3>3 DEF Provision, Persist, Goto, Return, TypeOK
      <4>2. job[q] # o /\ job[q] \in Requests
        BY <1>0, <2>1, <2>2, <2>5, <3>3, <4>1, LinesMove DEF JobOK
      <4>3. lines'[job[q]] = lines[job[q]] /\ creds'[job[q]] = creds[job[q]]
        BY <2>1, <2>2, <4>2, LinesMove
      <4>4. QED  BY <2>5, <3>1, <4>1, <4>3 DEF LinesInv
    <3>4. QED  BY <3>2, <3>3
  <2>6. QED  BY <1>1, <2>3, <2>4, <2>5 DEF LinesInv
<1>3. CASE ~\E p \in Procs : Provision(p) \/ Persist(p)
  <2>1. UNCHANGED <<creds, lines>>
    BY <1>3, DeliveryWriters
  <2>2. ASSUME NEW o \in Requests
        PROVE  /\ lines'[o] <= IF orders'[o].status # "NONE" THEN req'[o].quantity ELSE 0
               /\ lines'[o] - creds'[o] \in {0, 1}
    <3>1. /\ lines[o] <= IF Placed(o) THEN req[o].quantity ELSE 0
          /\ lines[o] - creds[o] \in {0, 1} /\ lines[o] \in Nat /\ req[o].quantity \in Int
      BY <1>0, RequestType DEF LinesInv, NoExcessLines, TypeOK
    <3>2. CASE Placed(o)
      <4>1. orders'[o].status # "NONE"
        BY <3>2, StatusMoves DEF Placed
      <4>2. QED  BY <1>0, <2>1, <3>1, <3>2, <4>1
    <3>3. CASE ~Placed(o) /\ Placed(o)'
      <4>1. req[o].quantity \in 1..MaxQuantity
        BY <1>0, <3>3, StatusMoves DEF ReserveCommit, WInv, RequestInv, RequestOK
      <4>2. QED  BY <1>0, <2>1, <3>1, <3>3, <4>1, BoundsAssumption DEF Placed
    <3>4. CASE ~Placed(o) /\ ~Placed(o)'
      BY <1>0, <2>1, <3>1, <3>4 DEF Placed
    <3>5. QED  BY <3>2, <3>3, <3>4
  <2>3. ASSUME NEW x \in Requests, orders'[x].status \in {"NONE", "PENDING"}
        PROVE  lines'[x] = creds'[x]
    <3>1. CASE orders[x].status \in {"NONE", "PENDING"}
      BY <2>1, <3>1 DEF LinesInv
    <3>2. CASE orders[x].status \notin {"NONE", "PENDING"}
      BY <2>3, <3>2, StatusMoves, <1>0 DEF Placed, ReserveCommit, WInv, RequestInv, RequestOK
    <3>3. QED  BY <3>1, <3>2
  <2>4. ASSUME NEW q \in Procs, pc'[q] \in Fulfilling
        PROVE  lines'[job'[q]] = IF pc'[q] = "persist" THEN creds'[job'[q]] + 1 ELSE creds'[job'[q]]
    <3>1. job'[q] = job[q]
      BY <1>0, <2>4, InHand
    <3>2. CASE pc'[q] = pc[q]
      BY <2>1, <2>4, <3>1, <3>2 DEF LinesInv
    <3>3. CASE Claim(q) /\ orders[job[q]].status = "PENDING" /\ pc'[q] = "load"
      <4>1. job[q] \in Requests
        BY <1>0, <3>3 DEF JobOK, Claim
      <4>2. QED  BY <2>1, <3>1, <3>3, <4>1 DEF LinesInv
    <3>4. CASE Load(q) \/ RefundLock(q) \/ Refund(q)
      <4>1. pc[q] \in Fulfilling \ {"persist"} /\ pc'[q] # "persist"
        BY <1>0, <3>4 DEF Load, RefundLock, Refund, Fulfilling, Goto, Return, AfterErr, TypeOK
      <4>2. QED  BY <2>1, <3>1, <4>1 DEF LinesInv
    <3>5. QED  BY <1>0, <1>3, <2>4, <3>2, <3>3, <3>4, InHand
  <2>5. NoExcessLines'
    BY <2>2 DEF NoExcessLines, Placed
  <2>6. QED  BY <1>1, <2>3, <2>4, <2>5 DEF LinesInv
<1>4. QED  BY <1>2, <1>3

\* fulfill_order never asks the panel for more lines than were ordered, and at
\* most one of those it got is missing from the credentials table.
THEOREM LinesCorrect == Spec => []NoExcessLines
<1>1. LinesInv => NoExcessLines
  BY DEF LinesInv
<1>2. Spec => [](IInv /\ LinesInv)
  BY IInvInit, IInvStep, LinesInit, LinesStep, PTL DEF Spec
<1>3. QED  BY <1>1, <1>2, PTL

-----------------------------------------------------------------------------
(* What a client is told *)

\* A request has its answer only when it is over, and an order from the commit on;
\* what it was told was true when it was said.
ReplyOK(r) ==
  /\ resp[r] # "none" => pc[r] = "done"
  /\ pc[r] \in Fulfilling \cup {"enqueue", "claim", "answer"} => Placed(r)
  /\ pc[r] = "answer" => orders[r].status # "PENDING"
  /\ resp[r] = "201" => orders[r].status = "COMPLETED"
  /\ resp[r] = "202" => Placed(r)
  /\ resp[r] = "409" => KeyTaken(r) /\ ~Placed(r)
  /\ resp[r] = "400" => orders[r].status # "PENDING"

RepliesInv == \A r \in Requests : ReplyOK(r)

LEMMA RepliesInit == Init => RepliesInv
BY DEF Init, RepliesInv, ReplyOK, Fulfilling, Procs

\* An order never disappears, so a key once taken stays taken.
LEMMA KeyStaysTaken ==
  ASSUME IInv, [Next]_vars, NEW r \in Requests, KeyTaken(r)
  PROVE  KeyTaken(r)'
<1>1. PICK q \in Requests : /\ Placed(q) /\ req[q].reseller = req[r].reseller
                            /\ req[q].key = req[r].key
  BY DEF KeyTaken
<1>2. Placed(q)' /\ req' = req
  BY <1>1, StatusMoves, Constant
<1>3. QED  BY <1>1, <1>2 DEF KeyTaken

\* What a reply promises is not taken back: unless the request is in its
\* transaction, its order only moves on.
LEMMA PromiseKept ==
  ASSUME IInv, [Next]_vars, NEW r \in Requests, ~ReserveCommit(r)
  PROVE  /\ Placed(r)' <=> Placed(r)
         /\ orders[r].status = "COMPLETED" => orders'[r].status = "COMPLETED"
         /\ orders[r].status # "PENDING" => orders'[r].status # "PENDING"
         /\ KeyTaken(r) => KeyTaken(r)'
BY StatusMoves, ClosedStays, KeyStaysTaken DEF Terminal

LEMMA RepliesStep == IInv /\ RepliesInv /\ [Next]_vars => RepliesInv'
<1> SUFFICES ASSUME IInv, RepliesInv, [Next]_vars, NEW r \in Requests PROVE ReplyOK(r)'
  BY DEF RepliesInv
<1>0. /\ TypeOK /\ JobOK /\ WInv /\ ReplyOK(r) /\ RequestOK(r) /\ WorkOK(r)
      /\ r \in Procs /\ job[r] = r /\ r \notin Workers /\ r \notin Admins
      /\ pc \in [Procs -> Locations] /\ resp \in [Requests -> Reply]
      /\ orders \in [Requests -> OrderRow]
  BY ProcsAssumption DEF IInv, WInv, RequestInv, WorkInv, RepliesInv, TypeOK, JobOK, Procs
<1> USE DEF Goto, Reject
<1>1. CASE ReserveCommit(r)
  <2>1. /\ pc[r] = "commit" /\ pc'[r] \in {"claim", "enqueue"} /\ resp'[r] = resp[r]
        /\ orders'[r].status = "PENDING"
    BY <1>0, <1>1 DEF ReserveCommit
  <2>2. resp'[r] = "none"
    BY <1>0, <2>1 DEF ReplyOK
  <2>3. QED  BY <2>1, <2>2 DEF ReplyOK, Placed
<1>2. ASSUME ~ReserveCommit(r), pc[r] # "done", pc'[r] = "done", resp'[r] \in {resp[r], "500"}
      PROVE  ReplyOK(r)'
  BY <1>0, <1>2, PromiseKept DEF ReplyOK, Fulfilling
<1>3. CASE CheckReplay(r)
  <2>1. pc[r] = "check" /\ resp[r] = "none" /\ ~Placed(r) /\ ~ReserveCommit(r)
    BY <1>0, <1>3 DEF CheckReplay, ReplyOK, RequestOK, ReserveCommit
  <2>2. \/ KeyTaken(r) /\ pc'[r] = "done" /\ resp'[r] = "409"
        \/ pc'[r] = "quote" /\ resp'[r] = "none"
    BY <1>0, <1>3, <2>1 DEF CheckReplay
  <2>3. QED  BY <1>0, <2>1, <2>2, PromiseKept DEF ReplyOK, Fulfilling
<1>4. CASE Quote(r) \/ LockReseller(r) \/ ReserveRollback(r)
  <2>1. pc[r] \in {"quote", "lock", "commit"} /\ resp[r] = "none" /\ ~Placed(r) /\ UNCHANGED orders
    BY <1>0, <1>4 DEF Quote, LockReseller, ReserveRollback, ReplyOK, RequestOK, tables
  <2>2. \/ pc'[r] = "done" /\ resp'[r] \in {"400", "500"}
        \/ pc'[r] \in {"lock", "commit"} /\ resp'[r] = "none"
    BY <1>0, <1>4, <2>1 DEF Quote, LockReseller, ReserveRollback
  <2>3. QED  BY <2>1, <2>2 DEF ReplyOK, Placed, Fulfilling
<1>5. CASE Enqueue(r) \/ Answer(r)
  <2>1. /\ pc[r] \in {"enqueue", "answer"} /\ Placed(r) /\ UNCHANGED orders
        /\ pc[r] = "answer" => orders[r].status # "PENDING"
    BY <1>0, <1>5 DEF Enqueue, Answer, ReplyOK, tables
  <2>2. /\ pc'[r] = "done"
        /\ \/ resp'[r] = "202"
           \/ resp'[r] = "201" /\ orders[r].status = "COMPLETED"
           \/ resp'[r] = "400" /\ pc[r] = "answer"
    BY <1>0, <1>5 DEF Enqueue, Answer, Delivered
  <2>3. QED  BY <2>1, <2>2 DEF ReplyOK, Placed, Fulfilling
<1>6. CASE Fulfil(r)
  <2>0. /\ pc[r] \in Fulfilling \cup {"claim"} /\ Placed(r) /\ resp[r] = "none" /\ ~ReserveCommit(r)
    BY <1>0, <1>6 DEF Fulfil, Claim, Load, Provision, Persist, Complete, RefundLock, Refund, Close,
                      ReplyOK, Fulfilling, ReserveCommit
  <2>1. Placed(r)'
    BY <2>0, PromiseKept
  <2>2. ASSUME pc'[r] = "answer", resp'[r] = resp[r], orders'[r].status # "PENDING"
        PROVE  ReplyOK(r)'
    BY <2>0, <2>1, <2>2 DEF ReplyOK, Fulfilling
  <2>3. ASSUME pc'[r] \in Fulfilling, resp'[r] = resp[r] PROVE ReplyOK(r)'
    BY <2>0, <2>1, <2>3 DEF ReplyOK, Fulfilling
  <2>4. ASSUME Return(r, AfterErr(r)), ReplyErr(r) PROVE ReplyOK(r)'
    BY <1>0, <1>2, <2>0, <2>4 DEF Return, AfterErr, ReplyErr, Fulfilling
  <2>5. CASE Claim(r)
    BY <1>0, <2>2, <2>3, <2>5 DEF Claim, Claimable, Return, AfterOk, Fulfilling
  <2>6. CASE Load(r) \/ Persist(r)
    BY <1>0, <2>3, <2>4, <2>6 DEF Load, Persist, Fulfilling
  <2>7. CASE Provision(r) \/ RefundLock(r) \/ Refund(r)
    BY <1>0, <2>3, <2>7 DEF Provision, OnProviderError, RefundLock, Refund, Fulfilling
  <2>8. CASE Complete(r) \/ Close(r)
    <3>1. pc'[r] = "answer" /\ resp' = resp
      BY <1>0, <2>8 DEF Complete, Close, Return, AfterOk
    <3>2. orders[r].status = "PROCESSING"
      BY <1>0, <2>8 DEF Complete, Close, WorkOK, Fulfilling
    <3>3. QED  BY <2>0, <2>2, <3>1, <3>2, PromiseKept
  <2>9. QED  BY <1>6, <2>5, <2>6, <2>7, <2>8 DEF Fulfil
<1>7. CASE DbError(r) \/ Crash(r)
  <2>1. pc[r] # "done" /\ pc'[r] = "done" /\ resp'[r] \in {resp[r], "500"}
    BY <1>0, <1>7 DEF DbError, Crash, Return, AfterErr, ReplyErr
  <2>2. ~ReserveCommit(r)
    BY <1>0, <2>1 DEF ReserveCommit
  <2>3. QED  BY <1>2, <2>1, <2>2
<1>8. CASE ~ReserveCommit(r) /\ pc'[r] = pc[r] /\ resp'[r] = resp[r]
  BY <1>0, <1>8, PromiseKept DEF ReplyOK, Fulfilling
<1>9. CASE Purchase(r)
  BY <1>1, <1>3, <1>4, <1>5, <1>9 DEF Purchase
<1>10. QED  BY <1>0, <1>1, <1>6, <1>7, <1>8, <1>9, OwnMoves

\* What a client was told about its purchase stays true: 201 delivered in full,
\* 202 an order exists, 409 another order has the key, 400 nothing is waiting.
THEOREM RepliesCorrect == Spec => []RepliesAreTruthful
<1>1. IInv /\ RepliesInv => RepliesAreTruthful
  BY DEF IInv, OrderInv, OrderOK, RepliesInv, ReplyOK, RepliesAreTruthful
<1>2. Spec => [](IInv /\ RepliesInv)
  BY IInvInit, IInvStep, RepliesInit, RepliesStep, PTL DEF Spec
<1>3. QED  BY <1>1, <1>2, PTL

-----------------------------------------------------------------------------
(* Orders nobody will move on *)

\* The orders the property counts: the panel would deliver them.
Abandoned == {o \in Stranded : AdapterOf(o) \notin {"broken", "nodns"}}

\* A failure of p: a statement, the process itself, or the XADD of its order.
Fails(p) ==
  \/ DbError(p) \/ Crash(p)
  \/ p \in Requests /\ Enqueue(p) /\ faults' = faults + 1

\* A failure is counted, and it is the step of one process.
LEMMA FailsAlone ==
  ASSUME TypeOK, JobOK, NEW p \in Procs, Fails(p)
  PROVE  /\ faults' = faults + 1
         /\ \A q \in Procs : Fails(q) => q = p
<1>0. pc \in [Procs -> Locations]
  BY DEF TypeOK
<1> USE DEF Goto, Reject
<1>1. ASSUME NEW q \in Procs, Fails(q)
      PROVE  pc'[q] # pc[q] /\ \A x \in Procs \ {q} : pc'[x] = pc[x]
  <2>1. CASE DbError(q)
    BY <1>0, <2>1 DEF DbError, Return, AfterErr
  <2>2. CASE Crash(q)
    BY <1>0, <2>2 DEF Crash
  <2>3. CASE q \in Requests /\ Enqueue(q)
    BY <1>0, <2>3 DEF Enqueue
  <2>4. QED  BY <1>1, <2>1, <2>2, <2>3 DEF Fails
<1>2. faults' = faults + 1
  BY DEF Fails, DbError, Crash
<1>3. QED  BY <1>1, <1>2

\* Whoever holds a waiting order keeps it, hands it to the stream or claims it.
LEMMA HolderKeeps ==
  ASSUME IInv, groupExists, [Next]_vars, NEW o \in Requests, NEW p \in Procs, job[p] = o,
         pc[p] \in {"claim", "enqueue"}, orders[o].status = "PENDING",
         orders'[o].status = "PENDING", ~Fails(p)
  PROVE  Owned(o)'
<1>0. /\ TypeOK /\ JobOK /\ pc \in [Procs -> Locations] /\ queue \in Seq(Requests)
      /\ orders \in [Requests -> OrderRow]
  BY DEF IInv, TypeOK
<1>1. CASE pc'[p] = pc[p] /\ job'[p] = job[p]
  BY <1>1 DEF Owned
<1>2. CASE p \in Requests /\ Purchase(p)
  <2>1. Enqueue(p) /\ p = o
    BY <1>0, <1>2 DEF Purchase, CheckReplay, Quote, LockReseller, ReserveRollback, ReserveCommit,
                      Answer, JobOK
  <2>2. queue' = Append(queue, o)
    BY <2>1, <1>2 DEF Enqueue, Fails
  <2>3. Len(queue') = Len(queue) + 1 /\ queue'[Len(queue) + 1] = o /\ Len(queue) \in Nat
    BY <1>0, <2>2
  <2>4. QED  BY <2>3 DEF Owned
<1>3. CASE Fulfil(p)
  <2>1. Claim(p) /\ Claimable(o)
    BY <1>3 DEF Fulfil, Load, Provision, Persist, Complete, RefundLock, Refund, Close, Claimable
  <2>2. orders'[o].status = "PROCESSING"
    BY <1>0, <2>1 DEF Claim, SetStatus, OrderRow
  <2>3. QED  BY <2>2
<1>4. CASE p \in Workers /\ Work(p)
  BY <1>4 DEF Work, EnsureGroup, ReadEntry, ReadTimeout, Ack
<1>5. CASE p \in Admins /\ Administer(p)
  <2>1. pc[p] \in {"idle", "adjust"}
    BY <1>5 DEF Administer, AdminFulfil, CompleteWhatsApp, AdjustLock, Adjust, EditVariant
  <2>2. QED  BY <2>1
<1>6. QED  BY <1>0, <1>1, <1>2, <1>3, <1>4, <1>5, OwnMoves DEF Fails

\* What waits in the stream stays there until a worker takes it.
LEMMA EntryKeeps ==
  ASSUME IInv, groupExists, [Next]_vars, NEW o \in Requests, NEW i \in 1..Len(queue), queue[i] = o,
         orders'[o].status = "PENDING"
  PROVE  Owned(o)'
<1>0. /\ queue \in Seq(Requests) /\ pc \in [Procs -> Locations] /\ Len(queue) \in Nat
      /\ job \in [Procs -> Requests \cup {NoOrder}]
  BY DEF IInv, TypeOK
<1>1. ASSUME queue' = queue PROVE Owned(o)'
  BY <1>1 DEF Owned
<1>2. ASSUME NEW r \in Requests, Enqueue(r) PROVE Owned(o)'
  <2>1. CASE queue' = Append(queue, r)
    <3>1. Len(queue') = Len(queue) + 1 /\ queue'[i] = o
      BY <1>0, <2>1
    <3>2. QED  BY <1>0, <3>1 DEF Owned
  <2>2. CASE UNCHANGED queue
    BY <1>1, <2>2
  <2>3. QED  BY <1>2, <2>1, <2>2 DEF Enqueue
<1>3. ASSUME NEW w \in Workers, ReadEntry(w) PROVE Owned(o)'
  <2>1. /\ job' = [job EXCEPT ![w] = Head(queue)] /\ pc' = [pc EXCEPT ![w] = "claim"]
        /\ queue' = Tail(queue) /\ queue # << >> /\ w \in Procs
    BY <1>3 DEF ReadEntry, Goto, Procs
  <2>2. CASE i = 1
    <3>1. job'[w] = o /\ pc'[w] = "claim"
      BY <1>0, <2>1, <2>2
    <3>2. QED  BY <2>1, <3>1 DEF Owned
  <2>3. CASE i # 1
    <3>1. i - 1 \in 1..Len(queue') /\ queue'[i - 1] = o
      BY <1>0, <2>1, <2>3
    <3>2. QED  BY <3>1 DEF Owned
  <2>4. QED  BY <2>2, <2>3
<1>4. ASSUME NEW w \in Workers, EnsureGroup(w) \/ Ack(w) PROVE queue' = queue
  BY <1>4 DEF EnsureGroup, CreateGroup, Ack
<1>5. QED  BY <1>1, <1>2, <1>3, <1>4, StreamWriters DEF stream

\* Whoever is inside fulfill_order leaves it with the order settled, unless it
\* fails or the provider row is unusable.
LEMMA FulfillerKeeps ==
  ASSUME IInv, [Next]_vars, NEW o \in Requests, NEW p \in Procs, job[p] = o,
         pc[p] \in Fulfilling, AdapterOf(o) \notin {"broken", "nodns"},
         orders'[o].status = "PROCESSING", ~Fails(p)
  PROVE  pc'[p] \in Fulfilling /\ job'[p] = o
<1>0. /\ TypeOK /\ JobOK /\ pc \in [Procs -> Locations] /\ orders \in [Requests -> OrderRow]
  BY DEF IInv, TypeOK
<1> USE DEF Goto, locals
<1>1. CASE pc'[p] = pc[p] /\ job'[p] = job[p]
  BY <1>1
<1>2. CASE p \in Requests /\ Purchase(p)
  BY <1>2 DEF Purchase, CheckReplay, Quote, LockReseller, ReserveRollback, ReserveCommit, Enqueue,
              Answer, Fulfilling
<1>3. CASE p \in Workers /\ Work(p)
  BY <1>3 DEF Work, EnsureGroup, ReadEntry, ReadTimeout, Ack, Fulfilling
<1>4. CASE p \in Admins /\ Administer(p)
  <2>1. pc[p] \in {"idle", "adjust"}
    BY <1>4 DEF Administer, AdminFulfil, CompleteWhatsApp, AdjustLock, Adjust, EditVariant
  <2>2. QED  BY <2>1 DEF Fulfilling
<1>5. CASE Complete(p) \/ Close(p)
  <2>1. orders'[o].status \in {"COMPLETED", "FAILED"}
    BY <1>0, <1>5 DEF Complete, Close, ClosingStatus, SetStatus, OrderRow
  <2>2. QED  BY <2>1
<1>6. CASE Claim(p) \/ Load(p)
  BY <1>0, <1>6 DEF Claim, Load, Fulfilling
<1>7. CASE Provision(p) \/ Persist(p) \/ RefundLock(p) \/ Refund(p)
  BY <1>0, <1>7 DEF Provision, OnProviderError, Persist, RefundLock, Refund, Fulfilling
<1>8. QED  BY <1>0, <1>1, <1>2, <1>3, <1>4, <1>5, <1>6, <1>7, OwnMoves DEF Fails, Fulfil

\* Only a failure abandons an order: the one the failing process had in hand.
LEMMA OnlyFailuresAbandon ==
  ASSUME IInv, groupExists, [Next]_vars, NEW o \in Requests, o \notin Abandoned, o \in Abandoned'
  PROVE  \E p \in Procs : Fails(p) /\ job[p] = o
<1> SUFFICES ASSUME \A p \in Procs : job[p] = o => ~Fails(p)
             PROVE  Owned(o)'
  BY DEF Abandoned, Stranded
<1>0. /\ TypeOK /\ JobOK /\ pc \in [Procs -> Locations] /\ orders \in [Requests -> OrderRow]
      /\ o \in Procs
  BY DEF IInv, TypeOK, Procs
<1>1. /\ AdapterOf(o) \notin {"broken", "nodns"}
      /\ orders'[o].status \in {"PENDING", "PROCESSING"}
      /\ orders[o].status \in {"PENDING", "PROCESSING"} => Owned(o)
  BY Constant DEF Abandoned, Stranded, AdapterOf
<1>2. CASE ReserveCommit(o)
  <2>1. pc'[o] \in {"claim", "enqueue"} /\ job'[o] = o /\ orders'[o].status = "PENDING"
    BY <1>0, <1>2 DEF ReserveCommit, Goto, locals, JobOK
  <2>2. QED  BY <1>0, <2>1 DEF Owned
<1>3. CASE orders'[o].status = "PENDING" /\ ~ReserveCommit(o)
  <2>1. orders[o].status = "PENDING"
    BY <1>3, StatusMoves
  <2>2. CASE \E p \in Procs : job[p] = o /\ pc[p] \in {"claim", "enqueue"}
    BY <1>3, <2>1, <2>2, HolderKeeps
  <2>3. CASE \E i \in 1..Len(queue) : queue[i] = o
    BY <1>3, <2>3, EntryKeeps
  <2>4. QED  BY <1>1, <2>1, <2>2, <2>3 DEF Owned
<1>4. CASE orders'[o].status = "PROCESSING"
  <2>1. CASE orders[o].status = "PROCESSING"
    <3>1. PICK p \in Procs : job[p] = o /\ pc[p] \in Fulfilling
      BY <1>1, <2>1 DEF Owned
    <3>2. pc'[p] \in Fulfilling /\ job'[p] = o
      BY <1>1, <1>4, <3>1, FulfillerKeeps
    <3>3. QED  BY <1>4, <3>2 DEF Owned
  <2>2. CASE orders[o].status = "PENDING" /\ \E p \in Procs : Claim(p) /\ job[p] = o
    <3>1. PICK p \in Procs : Claim(p) /\ job[p] = o
      BY <2>2
    <3>2. pc'[p] = "load" /\ job'[p] = o
      BY <1>0, <2>2, <3>1 DEF Claim, Claimable, Goto, locals
    <3>3. QED  BY <1>4, <3>2 DEF Owned, Fulfilling
  <2>3. QED  BY <1>4, <2>1, <2>2, StatusMoves
<1>5. QED  BY <1>1, <1>2, <1>3, <1>4

\* Inductive form of EachFailureStrandsOne: the group never goes away, and the
\* set it counts is finite.
StrandedInv ==
  GroupReady => groupExists /\ IsFiniteSet(Abandoned) /\ Cardinality(Abandoned) <= faults

\* A set that gains at most one element grows by at most one.
LEMMA GainsOne ==
  ASSUME NEW S, NEW T, NEW x, IsFiniteSet(S), T \subseteq S \cup {x}
  PROVE  /\ IsFiniteSet(T) /\ Cardinality(T) <= Cardinality(S) + 1
         /\ T \subseteq S => Cardinality(T) <= Cardinality(S)
<1>1. /\ IsFiniteSet(S \cup {x})
      /\ Cardinality(S \cup {x}) \in {Cardinality(S), Cardinality(S) + 1}
  BY FS_AddElement
<1>2. IsFiniteSet(T) /\ Cardinality(T) <= Cardinality(S \cup {x})
  BY <1>1, FS_Subset
<1>3. T \subseteq S => Cardinality(T) <= Cardinality(S)
  BY FS_Subset
<1>4. /\ Cardinality(S) \in Nat /\ Cardinality(T) \in Nat /\ Cardinality(S \cup {x}) \in Nat
  BY <1>1, <1>2, FS_CardinalityType
<1>5. QED  BY <1>1, <1>2, <1>3, <1>4

LEMMA StrandedInit == Init => StrandedInv
<1> SUFFICES ASSUME Init, GroupReady PROVE StrandedInv
  BY DEF StrandedInv
<1>1. Stranded = {}
  BY DEF Init, Stranded, NoRow
<1>2. Abandoned = {}
  BY <1>1 DEF Abandoned
<1>3. IsFiniteSet(Abandoned) /\ Cardinality(Abandoned) = 0
  BY <1>2, FS_EmptySet
<1>4. QED  BY <1>3 DEF Init, StrandedInv

LEMMA StrandedStep == IInv /\ StrandedInv /\ [Next]_vars => StrandedInv'
<1> SUFFICES ASSUME IInv, StrandedInv, [Next]_vars, GroupReady
             PROVE  groupExists' /\ IsFiniteSet(Abandoned') /\ Cardinality(Abandoned') <= faults'
  BY DEF StrandedInv
<1>0. /\ TypeOK /\ JobOK /\ groupExists /\ IsFiniteSet(Abandoned) /\ Cardinality(Abandoned) <= faults
      /\ faults \in Nat /\ faults' \in {faults, faults + 1}
  BY BudgetWriters DEF IInv, TypeOK, StrandedInv
<1>1. groupExists'
  BY <1>0, StreamWriters DEF stream, Enqueue, EnsureGroup, CreateGroup, ReadEntry, Ack
<1>2. ASSUME NEW o \in Abandoned', o \notin Abandoned
      PROVE  \E p \in Procs : Fails(p) /\ job[p] = o
  <2>1. o \in Requests
    BY <1>2 DEF Abandoned, Stranded
  <2>2. QED  BY <1>0, <1>2, <2>1, OnlyFailuresAbandon
<1>3. CASE \E p \in Procs : Fails(p)
  <2>1. PICK p \in Procs : Fails(p)
    BY <1>3
  <2>2. faults' = faults + 1 /\ \A q \in Procs : Fails(q) => q = p
    BY <1>0, <2>1, FailsAlone
  <2>3. Abandoned' \subseteq Abandoned \cup {job[p]}
    BY <1>2, <2>2
  <2>4. IsFiniteSet(Abandoned') /\ Cardinality(Abandoned') <= Cardinality(Abandoned) + 1
    BY <1>0, <2>3, GainsOne
  <2>5. Cardinality(Abandoned') \in Nat /\ Cardinality(Abandoned) \in Nat
    BY <1>0, <2>4, FS_CardinalityType
  <2>6. QED  BY <1>0, <1>1, <2>2, <2>4, <2>5
<1>4. CASE ~\E p \in Procs : Fails(p)
  <2>1. Abandoned' \subseteq Abandoned
    BY <1>2, <1>4
  <2>2. IsFiniteSet(Abandoned') /\ Cardinality(Abandoned') <= Cardinality(Abandoned)
    BY <1>0, <2>1, FS_Subset
  <2>3. Cardinality(Abandoned') \in Nat /\ Cardinality(Abandoned) \in Nat
    BY <1>0, <2>2, FS_CardinalityType
  <2>4. QED  BY <1>0, <1>1, <2>2, <2>3
<1>5. QED  BY <1>3, <1>4

\* Without a failure no order is left behind, and each failure leaves behind at
\* most the order in hand, for any number of requests, workers and admins.
THEOREM StrandingCorrect == Spec => []EachFailureStrandsOne
<1>1. StrandedInv => EachFailureStrandsOne
  BY DEF StrandedInv, EachFailureStrandsOne, Abandoned
<1>2. Spec => [](IInv /\ StrandedInv)
  BY IInvInit, IInvStep, StrandedInit, StrandedStep, PTL DEF Spec
<1>3. QED  BY <1>1, <1>2, PTL

-----------------------------------------------------------------------------
(* The rows of the ledger.  A charge is posted with the row that makes the   *)
(* order exist, so no other can follow.  A refund can follow nothing but     *)
(* fulfilment before its own refund, which one process does for one order:   *)
(* as long as somebody is there, or the order waits, nothing was refunded.   *)

\* Inside fulfill_order with the refund still to come, if there will be one.
BeforeRefund == {"load", "provision", "persist", "complete", "refund_lock", "refund"}

\* One Idempotency-Key buys once.
KeysApart ==
  \A o, q \in Requests :
    Placed(o) /\ Placed(q) /\ o # q /\ Reseller(o) = Reseller(q) => req[o].key # req[q].key

OneCharge(o) ==
  IF Placed(o)
    THEN \E i \in Rows(o, "RESELLER") :
           /\ Rows(o, "RESELLER") = {i}
           /\ ledger[Reseller(o)][i].delta = -(orders[o].unit * req[o].quantity)
    ELSE Rows(o, "RESELLER") = {}

OneRefund(o) ==
  IF Placed(o)
    THEN \/ Rows(o, "SYSTEM") = {} /\ orders[o].quantity = req[o].quantity
         \/ \E i \in Rows(o, "SYSTEM") :
              /\ Rows(o, "SYSTEM") = {i}
              /\ ledger[Reseller(o)][i].delta =
                   orders[o].unit * (req[o].quantity - orders[o].quantity)
    ELSE Rows(o, "SYSTEM") = {}

\* Nothing was refunded of an order that waits, nor of one in hand.
WaitingUnrefunded == \A o \in Requests : orders[o].status = "PENDING" => Rows(o, "SYSTEM") = {}
InHandUnrefunded == \A p \in Procs : pc[p] \in BeforeRefund => Rows(job[p], "SYSTEM") = {}

RowsInv ==
  /\ KeysApart
  /\ \A o \in Requests : OneCharge(o) /\ OneRefund(o)
  /\ WaitingUnrefunded /\ InHandUnrefunded

-----------------------------------------------------------------------------
(* Rows *)

LEMMA SameRows ==
  ASSUME NEW o \in Requests, NEW actor, ledger' = ledger, req' = req
  PROVE  Rows(o, actor)' = Rows(o, actor)
BY DEF Rows, Reseller

\* Posting adds one row, to the order and actor it names, and keeps the others.
LEMMA PostRows ==
  ASSUME TypeOK, NEW p \in Procs, NEW u \in Resellers, NEW delta \in Int,
         NEW actor \in {"RESELLER", "ADMIN", "SYSTEM"}, NEW ref \in Requests \cup {NoOrder},
         Post(p, u, delta, actor, ref), req' = req,
         NEW o \in Requests, NEW a
  PROVE  /\ \A i \in Rows(o, a) : ledger'[Reseller(o)][i] = ledger[Reseller(o)][i]
         /\ Rows(o, a)' = Rows(o, a) \cup (IF u = Reseller(o) /\ ref = o /\ a = actor
                                           THEN {Len(ledger[u]) + 1} ELSE {})
         /\ ledger'[u][Len(ledger[u]) + 1].delta = delta
<1> DEFINE row == [delta |-> delta, after |-> seen[p] + delta, actor |-> actor, ref |-> ref]
           n == Len(ledger[u]) + 1
           s == ledger[Reseller(o)]
           t == ledger'[Reseller(o)]
<1>1. ledger[u] \in Seq(LedgerRow) /\ s \in Seq(LedgerRow) /\ seen[p] \in Int
  BY RequestType DEF TypeOK
<1>2. row \in LedgerRow /\ row.delta = delta /\ row.actor = actor /\ row.ref = ref
  BY <1>1 DEF LedgerRow
<1>3. /\ ledger' = [ledger EXCEPT ![u] = Append(ledger[u], row)]
      /\ ledger \in [Resellers -> Seq(LedgerRow)]
  BY DEF Post, TypeOK
<1> HIDE DEF row
<1>4. /\ ledger'[u] = Append(ledger[u], row)
      /\ \A v \in Resellers \ {u} : ledger'[v] = ledger[v]
  BY <1>3
<1>5. /\ DOMAIN ledger[u] = 1..(n - 1) /\ DOMAIN ledger'[u] = 1..n /\ n \in Nat \ {0}
      /\ ledger'[u][n] = row /\ \A i \in 1..(n - 1) : ledger'[u][i] = ledger[u][i]
  BY <1>1, <1>2, <1>4
<1>6. Reseller(o) \in Resellers
  BY RequestType
<1>7. Rows(o, a)' = {i \in DOMAIN t : t[i].ref = o /\ t[i].actor = a}
  BY DEF Rows, Reseller
<1>8. Rows(o, a) = {i \in DOMAIN s : s[i].ref = o /\ s[i].actor = a}
  BY DEF Rows
<1> HIDE DEF n
<1>9. CASE u = Reseller(o)
  <2>1. DOMAIN t = 1..n /\ DOMAIN s = 1..(n - 1) /\ t[n] = row
        /\ \A i \in 1..(n - 1) : t[i] = s[i]
    BY <1>5, <1>9
  <2>2. 1..n = (1..(n - 1)) \cup {n} /\ n \notin 1..(n - 1)
    BY <1>5
  <2> HIDE DEF s, t
  <2>3. Rows(o, a)' = Rows(o, a) \cup (IF ref = o /\ a = actor THEN {n} ELSE {})
    BY <1>2, <1>7, <1>8, <2>1, <2>2
  <2>4. \A i \in Rows(o, a) : t[i] = s[i]
    BY <1>8, <2>1
  <2>5. ledger'[u][n].delta = delta
    BY <1>2, <1>5
  <2>6. QED  BY <1>9, <2>3, <2>4, <2>5 DEF n, s, t
<1>10. CASE u # Reseller(o)
  <2>1. t = s
    BY <1>4, <1>6, <1>10
  <2>2. ledger'[u][n].delta = delta
    BY <1>2, <1>5
  <2>3. QED  BY <1>7, <1>8, <1>10, <2>1, <2>2 DEF n
<1>11. QED  BY <1>9, <1>10

-----------------------------------------------------------------------------
(* Who is in hand *)

\* Only the claim of a waiting order leads into fulfill_order.
LEMMA EntersBeforeRefund ==
  ASSUME TypeOK, [Next]_vars, NEW p \in Procs, pc'[p] \in BeforeRefund
  PROVE  /\ job'[p] = job[p]
         /\ \/ pc[p] \in BeforeRefund
            \/ Claim(p) /\ orders[job[p]].status = "PENDING"
BY InHand DEF Load, Provision, Persist, RefundLock, Refund, BeforeRefund, Fulfilling

\* A step that posts nothing changes neither unit, quantity nor existence of an
\* order, and lets none wait that did not.
LEMMA QuietOrders ==
  ASSUME IInv, [Next]_vars, NEW o \in Requests,
         \A r \in Requests : ~ReserveCommit(r), \A p \in Procs : ~Refund(p)
  PROVE  /\ orders'[o].unit = orders[o].unit /\ orders'[o].quantity = orders[o].quantity
         /\ Placed(o)' = Placed(o)
         /\ orders'[o].status = "PENDING" => orders[o].status = "PENDING"
<1>0. /\ orders \in [Requests -> OrderRow] /\ JobOK /\ WInv
  BY DEF IInv, TypeOK, WInv
<1>1. orders[o] \in OrderRow
  BY <1>0
<1> USE DEF Placed, SetStatus
<1>2. CASE UNCHANGED orders
  BY <1>2
<1>3. ASSUME NEW p \in Procs, Claim(p) \/ Complete(p) \/ Close(p), job[p] = o
      PROVE  orders[o].status \in {"PENDING", "PROCESSING"} \/ UNCHANGED orders
  BY <1>0, <1>3 DEF Claim, Claimable, Complete, Close, WInv, WorkInv, WorkOK, Fulfilling
<1>4. ASSUME NEW p \in Procs, Claim(p) \/ Complete(p) \/ Close(p), ~UNCHANGED orders
      PROVE  /\ orders'[o].unit = orders[o].unit /\ orders'[o].quantity = orders[o].quantity
             /\ orders'[o].status \in {orders[o].status, "PROCESSING", "COMPLETED", "FAILED"}
             /\ orders'[o].status # orders[o].status => job[p] = o
  BY <1>0, <1>1, <1>4 DEF Claim, Complete, Close, ClosingStatus, OrderRow
<1>5. ASSUME NEW a \in Admins, NEW x \in Requests, CompleteWhatsApp(a, x)
      PROVE  /\ orders'[o].unit = orders[o].unit /\ orders'[o].quantity = orders[o].quantity
             /\ orders'[o].status \in {orders[o].status, "COMPLETED"}
             /\ orders'[o].status # orders[o].status => orders[o].status = "PENDING"
  BY <1>0, <1>1, <1>5 DEF CompleteWhatsApp, Completable, OrderRow
<1>6. CASE \E p \in Procs : Claim(p) \/ Complete(p) \/ Close(p)
  BY <1>2, <1>3, <1>4, <1>6
<1>7. CASE \E a \in Admins, x \in Requests : CompleteWhatsApp(a, x)
  BY <1>5, <1>7
<1>8. QED  BY <1>2, <1>6, <1>7, OrderWriters

-----------------------------------------------------------------------------
(* The steps *)

LEMMA RowsInit == Init => RowsInv
<1> SUFFICES ASSUME Init PROVE RowsInv  OBVIOUS
<1>1. \A o \in Requests : orders[o].status = "NONE" /\ ~Placed(o)
  BY DEF Init, NoRow, Placed
<1>2. ASSUME NEW o \in Requests, NEW a \in {"RESELLER", "SYSTEM"} PROVE Rows(o, a) = {}
  <2>1. req[o] \in Input
    BY DEF Init
  <2>2. Reseller(o) \in Resellers
    BY <2>1 DEF Input, Reseller
  <2>3. ledger[Reseller(o)] = Opening(Reseller(o))
    BY <2>2 DEF Init
  <2>4. \A i \in DOMAIN Opening(Reseller(o)) : Opening(Reseller(o))[i].actor = "ADMIN"
    BY DEF Opening
  <2>5. QED  BY <2>3, <2>4 DEF Rows
<1>3. \A p \in Procs : pc[p] \notin BeforeRefund
  BY DEF Init, BeforeRefund
<1>4. QED
  BY <1>1, <1>2, <1>3
  DEF RowsInv, KeysApart, OneCharge, OneRefund, WaitingUnrefunded, InHandUnrefunded

\* Rows of no consequence: a posting for nobody's order, or none at all.
LEMMA QuietRows ==
  ASSUME IInv, RowsInv, [Next]_vars,
         \A r \in Requests : ~ReserveCommit(r), \A p \in Procs : ~Refund(p)
  PROVE  RowsInv'
<1>0. TypeOK /\ req' = req
  BY Constant DEF IInv
<1>1. ASSUME NEW o \in Requests, NEW a \in {"RESELLER", "SYSTEM"}
      PROVE  /\ Rows(o, a)' = Rows(o, a)
             /\ \A i \in Rows(o, a) : ledger'[Reseller(o)][i] = ledger[Reseller(o)][i]
  <2>1. CASE UNCHANGED ledger
    BY <1>0, <2>1, SameRows
  <2>2. CASE ledger' # ledger
    <3>1. PICK c \in Admins, u \in Resellers : Adjust(c, u)
      BY <2>2, MoneyWriters
    <3>2. PICK amount \in Int : Post(c, u, amount, "ADMIN", NoOrder)
      BY <2>2, <3>1, CreditsAssumption DEF Adjust
    <3>3. c \in Procs
      BY DEF Procs
    <3>4. "ADMIN" \in {"RESELLER", "ADMIN", "SYSTEM"} /\ NoOrder \in Requests \cup {NoOrder}
          /\ a # "ADMIN"
      OBVIOUS
    <3>5. /\ \A i \in Rows(o, a) : ledger'[Reseller(o)][i] = ledger[Reseller(o)][i]
          /\ Rows(o, a)' = Rows(o, a) \cup (IF u = Reseller(o) /\ NoOrder = o /\ a = "ADMIN"
                                            THEN {Len(ledger[u]) + 1} ELSE {})
      BY <1>0, <3>2, <3>3, <3>4, PostRows
    <3>6. QED  BY <3>4, <3>5
  <2>3. QED  BY <2>1, <2>2
<1>2. \A o \in Requests : Reseller(o)' = Reseller(o)
  BY <1>0 DEF Reseller
<1>3. \A o \in Requests :
        /\ orders'[o].unit = orders[o].unit /\ orders'[o].quantity = orders[o].quantity
        /\ Placed(o)' = Placed(o)
        /\ orders'[o].status = "PENDING" => orders[o].status = "PENDING"
  BY QuietOrders
<1>4. KeysApart'
  BY <1>0, <1>2, <1>3 DEF RowsInv, KeysApart
<1>5. \A o \in Requests : OneCharge(o)'
  BY <1>0, <1>1, <1>2, <1>3 DEF RowsInv, OneCharge
<1>6. \A o \in Requests : OneRefund(o)'
  BY <1>0, <1>1, <1>2, <1>3 DEF RowsInv, OneRefund
<1>7. WaitingUnrefunded'
  BY <1>1, <1>3 DEF RowsInv, WaitingUnrefunded
<1>8. InHandUnrefunded'
  <2> SUFFICES ASSUME NEW p \in Procs, pc'[p] \in BeforeRefund
               PROVE  (Rows(job[p], "SYSTEM") = {})'
    BY DEF InHandUnrefunded
  <2>1. /\ job'[p] = job[p]
        /\ pc[p] \in BeforeRefund \/ (pc[p] = "claim" /\ orders[job[p]].status = "PENDING")
    BY <1>0, EntersBeforeRefund DEF Claim
  <2>2. job[p] \in Requests
    BY <2>1 DEF IInv, JobOK, BeforeRefund, Fulfilling
  <2>3. Rows(job[p], "SYSTEM") = {}
    BY <2>1, <2>2 DEF RowsInv, WaitingUnrefunded, InHandUnrefunded
  <2>4. \A o \in Requests : Rows(o, "SYSTEM")' = Rows(o, "SYSTEM")
    BY <1>1
  <2>5. PICK o \in Requests : o = job[p]
    BY <2>2
  <2>6. Rows(o, "SYSTEM")' = {} /\ job'[p] = o
    BY <2>1, <2>3, <2>4, <2>5
  <2>7. QED  BY <2>6 DEF Rows, Reseller
<1>9. QED  BY <1>4, <1>5, <1>6, <1>7, <1>8 DEF RowsInv

\* The reservation posts the charge of an order nothing was posted for.
LEMMA ChargeRows ==
  ASSUME IInv, RowsInv, [Next]_vars, NEW r \in Requests, ReserveCommit(r)
  PROVE  RowsInv'
<1>0. /\ TypeOK /\ req' = req /\ r \in Procs /\ job' = job
      /\ orders \in [Requests -> OrderRow] /\ pc \in [Procs -> Locations]
  BY Constant DEF IInv, TypeOK, Procs, ReserveCommit, locals
<1>1. /\ pc[r] = "commit" /\ ~KeyTaken(r)
      /\ Post(r, Reseller(r), -Total(r), "RESELLER", r)
      /\ orders' = [orders EXCEPT ![r] = [status |-> "PENDING", quantity |-> req[r].quantity,
                                          unit |-> quote[r], reason |-> FALSE]]
  BY DEF ReserveCommit, KeyConflict
<1>2. Reseller(r) \in Resellers /\ req[r].quantity \in Int /\ quote[r] \in Int
  BY <1>0, RequestType
<1>3. -Total(r) \in Int /\ -Total(r) = -(quote[r] * req[r].quantity)
  BY <1>2 DEF Total
<1>4. ~Placed(r)
  BY <1>1 DEF IInv, RequestInv, RequestOK
<1>5. /\ Placed(r)' /\ orders'[r].unit = quote[r] /\ orders'[r].quantity = req[r].quantity
      /\ \A o \in Requests \ {r} : orders'[o] = orders[o] /\ Placed(o)' = Placed(o)
  BY <1>0, <1>1 DEF Placed
<1>6. \A o \in Requests : Reseller(o)' = Reseller(o)
  BY <1>0 DEF Reseller
<1> DEFINE n == Len(ledger[Reseller(r)]) + 1
<1>7. ASSUME NEW o \in Requests, NEW a \in {"RESELLER", "SYSTEM"}
      PROVE  /\ \A i \in Rows(o, a) : ledger'[Reseller(o)][i] = ledger[Reseller(o)][i]
             /\ Rows(o, a)' = Rows(o, a) \cup (IF r = o /\ a = "RESELLER" THEN {n} ELSE {})
             /\ ledger'[Reseller(r)][n].delta = -Total(r)
  <2>1. PICK u \in Resellers, charge \in Int : u = Reseller(r) /\ charge = -Total(r)
    BY <1>2, <1>3
  <2>2. Post(r, u, charge, "RESELLER", r)
    BY <1>1, <2>1
  <2>3. r \in Procs /\ r \in Requests \cup {NoOrder}
        /\ "RESELLER" \in {"RESELLER", "ADMIN", "SYSTEM"}
    BY <1>0
  <2>4. TypeOK /\ req' = req
    BY <1>0
  <2>5. /\ \A i \in Rows(o, a) : ledger'[Reseller(o)][i] = ledger[Reseller(o)][i]
        /\ Rows(o, a)' = Rows(o, a) \cup (IF u = Reseller(o) /\ r = o /\ a = "RESELLER"
                                          THEN {Len(ledger[u]) + 1} ELSE {})
        /\ ledger'[u][Len(ledger[u]) + 1].delta = charge
    BY <2>2, <2>3, <2>4, PostRows
  <2>6. r = o => u = Reseller(o)
    BY <2>1
  <2>7. QED  BY <2>1, <2>5, <2>6
<1> HIDE DEF n
<1>8. KeysApart'
  BY <1>0, <1>1, <1>5, <1>6 DEF RowsInv, KeysApart, KeyTaken, Reseller
<1>9. ASSUME NEW o \in Requests PROVE OneCharge(o)'
  <2>1. CASE o = r
    <3>1. Rows(r, "RESELLER")' = {n}
      BY <1>4, <1>7 DEF RowsInv, OneCharge
    <3>2. ledger'[Reseller(r)][n].delta = -(orders'[r].unit * req[r].quantity)
      BY <1>3, <1>5, <1>7
    <3>3. QED  BY <1>0, <1>5, <1>6, <2>1, <3>1, <3>2 DEF OneCharge
  <2>2. CASE o # r
    BY <1>0, <1>5, <1>6, <1>7, <2>2 DEF RowsInv, OneCharge
  <2>3. QED  BY <2>1, <2>2
<1>10. ASSUME NEW o \in Requests PROVE OneRefund(o)'
  <2>1. CASE o = r
    BY <1>0, <1>4, <1>5, <1>7, <2>1 DEF RowsInv, OneRefund
  <2>2. CASE o # r
    BY <1>0, <1>5, <1>6, <1>7, <2>2 DEF RowsInv, OneRefund
  <2>3. QED  BY <2>1, <2>2
<1>11. \A o \in Requests : Rows(o, "SYSTEM")' = Rows(o, "SYSTEM")
  BY <1>7
<1>12. Rows(r, "SYSTEM") = {}
  BY <1>4 DEF RowsInv, OneRefund
<1>13. WaitingUnrefunded'
  BY <1>5, <1>11, <1>12 DEF RowsInv, WaitingUnrefunded
<1>14. InHandUnrefunded'
  <2> SUFFICES ASSUME NEW p \in Procs, pc'[p] \in BeforeRefund
               PROVE  (Rows(job[p], "SYSTEM") = {})'
    BY DEF InHandUnrefunded
  <2>1. pc[p] \in BeforeRefund
    BY <1>0, <1>1, EntersBeforeRefund DEF ReserveCommit, Goto, BeforeRefund
  <2>2. PICK o \in Requests : o = job[p]
    BY <2>1 DEF IInv, JobOK, BeforeRefund, Fulfilling
  <2>3. Rows(o, "SYSTEM")' = {} /\ job'[p] = o
    BY <1>0, <1>11, <2>1, <2>2 DEF RowsInv, InHandUnrefunded
  <2>4. QED  BY <2>3 DEF Rows, Reseller
<1>15. QED  BY <1>8, <1>9, <1>10, <1>13, <1>14 DEF RowsInv

\* The refund posts the first refund row of its order, and takes it out of hand.
LEMMA RefundRows ==
  ASSUME IInv, RowsInv, [Next]_vars, NEW p \in Procs, Refund(p)
  PROVE  RowsInv'
<1>0. /\ TypeOK /\ req' = req /\ job' = job
      /\ orders \in [Requests -> OrderRow] /\ pc \in [Procs -> Locations]
      /\ want[p] \in Int /\ made[p] \in Int
  BY Constant DEF IInv, TypeOK, Refund, locals
<1>1. PICK o \in Requests : o = job[p]
  BY DEF IInv, JobOK, Refund, Fulfilling
<1> DEFINE back == orders[o].unit * (want[p] - made[p])
<1>2. /\ pc[p] = "refund" /\ pc' = [pc EXCEPT ![p] = IF made[p] > 0 THEN "partial" ELSE "fail"]
      /\ Post(p, Reseller(o), back, "SYSTEM", o)
      /\ orders' = [orders EXCEPT ![o].quantity = made[p]]
  BY <1>1 DEF Refund, Unprocessed, Goto
<1>3. orders[o].status = "PROCESSING" /\ orders[o].quantity = want[p] /\ Placed(o)
  BY <1>1, <1>2 DEF IInv, WorkInv, WorkOK, Fulfilling, Placed
<1>4. Rows(o, "SYSTEM") = {}
  BY <1>1, <1>2 DEF RowsInv, InHandUnrefunded, BeforeRefund
<1>5. orders[o].quantity = req[o].quantity
  BY <1>3, <1>4 DEF RowsInv, OneRefund
<1>6. orders[o].unit \in Int /\ req[o].quantity \in Int /\ Reseller(o) \in Resellers
  BY <1>0, RequestType DEF OrderRow
<1>7. back \in Int
  BY <1>0, <1>6
<1>8. /\ orders'[o].unit = orders[o].unit /\ orders'[o].quantity = made[p]
      /\ orders'[o].status = orders[o].status
      /\ \A x \in Requests \ {o} : orders'[x] = orders[x]
      /\ \A x \in Requests : Placed(x)' = Placed(x)
  BY <1>0, <1>2 DEF OrderRow, Placed
<1>9. \A x \in Requests : Reseller(x)' = Reseller(x)
  BY <1>0 DEF Reseller
<1> DEFINE n == Len(ledger[Reseller(o)]) + 1
<1>10. ASSUME NEW x \in Requests, NEW a \in {"RESELLER", "SYSTEM"}
       PROVE  /\ \A i \in Rows(x, a) : ledger'[Reseller(x)][i] = ledger[Reseller(x)][i]
              /\ Rows(x, a)' = Rows(x, a) \cup (IF o = x /\ a = "SYSTEM" THEN {n} ELSE {})
              /\ ledger'[Reseller(o)][n].delta = back
  <2>1. PICK u \in Resellers, sum \in Int : u = Reseller(o) /\ sum = back
    BY <1>6, <1>7
  <2>2. Post(p, u, sum, "SYSTEM", o)
    BY <1>2, <2>1
  <2>3. p \in Procs /\ o \in Requests \cup {NoOrder}
        /\ "SYSTEM" \in {"RESELLER", "ADMIN", "SYSTEM"}
    OBVIOUS
  <2>4. TypeOK /\ req' = req
    BY <1>0
  <2>5. /\ \A i \in Rows(x, a) : ledger'[Reseller(x)][i] = ledger[Reseller(x)][i]
        /\ Rows(x, a)' = Rows(x, a) \cup (IF u = Reseller(x) /\ o = x /\ a = "SYSTEM"
                                          THEN {Len(ledger[u]) + 1} ELSE {})
        /\ ledger'[u][Len(ledger[u]) + 1].delta = sum
    BY <2>2, <2>3, <2>4, PostRows
  <2>6. o = x => u = Reseller(x)
    BY <2>1
  <2>7. QED  BY <2>1, <2>5, <2>6
<1> HIDE DEF n
<1>11. KeysApart'
  BY <1>0, <1>8, <1>9 DEF RowsInv, KeysApart
<1>12. ASSUME NEW x \in Requests PROVE OneCharge(x)'
  <2>1. orders'[x].unit = orders[x].unit
    BY <1>8
  <2>2. QED  BY <1>0, <1>8, <1>9, <1>10, <2>1 DEF RowsInv, OneCharge
<1>13. ASSUME NEW x \in Requests PROVE OneRefund(x)'
  <2>1. CASE x = o
    <3>1. Rows(o, "SYSTEM")' = {n}
      BY <1>4, <1>10
    <3>2. ledger'[Reseller(o)][n].delta = orders'[o].unit * (req[o].quantity - orders'[o].quantity)
      BY <1>3, <1>5, <1>8, <1>10
    <3>3. QED  BY <1>0, <1>3, <1>8, <1>9, <2>1, <3>1, <3>2 DEF OneRefund
  <2>2. CASE x # o
    BY <1>0, <1>8, <1>9, <1>10, <2>2 DEF RowsInv, OneRefund
  <2>3. QED  BY <2>1, <2>2
<1>14. WaitingUnrefunded'
  BY <1>3, <1>8, <1>10 DEF RowsInv, WaitingUnrefunded
<1>15. InHandUnrefunded'
  <2> SUFFICES ASSUME NEW q \in Procs, pc'[q] \in BeforeRefund
               PROVE  (Rows(job[q], "SYSTEM") = {})'
    BY DEF InHandUnrefunded
  <2>1. q # p /\ pc[q] \in BeforeRefund
    BY <1>0, <1>2 DEF BeforeRefund
  <2>2. job[q] # job[p]
    BY <1>2, <2>1 DEF IInv, ApartInv, BeforeRefund, Fulfilling
  <2>3. PICK x \in Requests : x = job[q]
    BY <2>1 DEF IInv, JobOK, BeforeRefund, Fulfilling
  <2>4. Rows(x, "SYSTEM")' = {} /\ job'[q] = x
    BY <1>0, <1>1, <1>10, <2>1, <2>2, <2>3 DEF RowsInv, InHandUnrefunded
  <2>5. QED  BY <2>4 DEF Rows, Reseller
<1>16. QED  BY <1>11, <1>12, <1>13, <1>14, <1>15 DEF RowsInv

-----------------------------------------------------------------------------

\* The strengthening is inductive, beside the invariant of the orders.
THEOREM RowsCorrect == Spec => []RowsInv
<1>1. IInv /\ RowsInv /\ [Next]_vars => RowsInv'
  BY ChargeRows, RefundRows, QuietRows
<1>2. QED  BY <1>1, RowsInit, IInvInit, IInvStep, PTL DEF Spec

\* For any number of purchases with any keys, workers, admins and failures: a
\* key buys once, and what was bought is charged once, at the price quoted
\* (reserve_order with its unique constraints).
THEOREM ChargeCorrect == Spec => []ChargedOnce
<1>1. RowsInv => ChargedOnce
  BY DEF RowsInv, KeysApart, OneCharge, ChargedOnce
<1>2. QED  BY <1>1, RowsCorrect, PTL

\* Nor is anything refunded twice: charge and refund of an order always add up
\* to its unit price times the quantity it has (fulfill_order).
THEOREM RefundCorrect == Spec => []NetPaidMatchesQuantity
<1>1. RowsInv => NetPaidMatchesQuantity
  BY DEF RowsInv, OneRefund, NetPaidMatchesQuantity
<1>2. QED  BY <1>1, RowsCorrect, PTL

-----------------------------------------------------------------------------
(* The refinement of OrderContract *)

\* What a request is charged is a price the catalog had.
PriceInv ==
  /\ \A v \in Variants : catalog[v].price \in Prices
  /\ \A r \in Requests : pc[r] \in {"lock", "commit"} => quote[r] \in Prices

LEMMA PriceInit == Init => PriceInv
  BY DEF Init, PriceInv, Procs

LEMMA QuoteWriters ==
  [Next]_vars => UNCHANGED quote \/ \E r \in Requests : Quote(r)
  BY DEF Next, Purchase, CheckReplay, LockReseller, ReserveRollback, ReserveCommit, Enqueue,
         Answer, Work, EnsureGroup, ReadEntry, ReadTimeout, Ack, Administer, AdminFulfil,
         CompleteWhatsApp, AdjustLock, Adjust, EditVariant, Fulfil, Claim, Load, Provision,
         Persist, Complete, RefundLock, Refund, Close, DbError, Crash, vars

LEMMA ToTransaction ==
  ASSUME pc \in [Procs -> Locations], JobOK, [Next]_vars, NEW r \in Requests,
         pc'[r] \in {"lock", "commit"}
  PROVE  pc[r] \in {"lock", "commit"} \/ Quote(r)
<1> USE DEF Goto, Reject, Return, AfterOk, AfterErr, Procs
<1>1. ASSUME NEW q \in Requests, Purchase(q) PROVE pc[r] \in {"lock", "commit"} \/ Quote(r)
  BY <1>1 DEF Purchase, CheckReplay, LockReseller, ReserveRollback, ReserveCommit, Enqueue,
              Answer, Quote
<1>2. ASSUME NEW w \in Workers, Work(w) PROVE pc[r] \in {"lock", "commit"}
  BY <1>2 DEF Work, EnsureGroup, ReadEntry, ReadTimeout, Ack
<1>3. ASSUME NEW a \in Admins, Administer(a) PROVE pc[r] \in {"lock", "commit"}
  BY <1>3 DEF Administer, AdminFulfil, CompleteWhatsApp, AdjustLock, Adjust, EditVariant
<1>4. ASSUME NEW p \in Procs, Fulfil(p) PROVE pc[r] \in {"lock", "commit"}
  BY <1>4 DEF Fulfil, Claim, Load, Provision, OnProviderError, Persist, Complete, RefundLock,
              Refund, Close
<1>5. ASSUME NEW p \in Procs, DbError(p) \/ Crash(p) PROVE pc[r] \in {"lock", "commit"}
  BY <1>5 DEF DbError, Crash
<1>6. CASE UNCHANGED vars
  BY <1>6 DEF vars
<1> QED
  BY <1>1, <1>2, <1>3, <1>4, <1>5, <1>6 DEF Next

LEMMA PriceStep == TypeOK /\ JobOK /\ PriceInv /\ [Next]_vars => PriceInv'
<1> SUFFICES ASSUME TypeOK, JobOK, PriceInv, [Next]_vars PROVE PriceInv'
  OBVIOUS
<1>0. /\ catalog \in [Variants -> [price : Int, active : BOOLEAN]]
      /\ quote \in [Requests -> Int] /\ pc \in [Procs -> Locations]
      /\ req \in [Requests -> Input]
  BY DEF TypeOK
<1>1. ASSUME NEW v \in Variants PROVE catalog'[v].price \in Prices
  <2>1. ASSUME NEW a \in Admins, NEW x \in Variants, EditVariant(a, x)
        PROVE  catalog'[v].price \in Prices
    BY <1>0, <2>1 DEF EditVariant, PriceInv
  <2> QED
    BY <2>1, CatalogWriters DEF PriceInv
<1>2. ASSUME NEW r \in Requests, pc'[r] \in {"lock", "commit"} PROVE quote'[r] \in Prices
  <2>1. CASE Quote(r)
    <3>1. req[r].variant \in Variants
      BY <1>0 DEF Input
    <3>2. pc'[r] # "done"
      BY <1>2
    <3>3. quote' = [quote EXCEPT ![r] = catalog[req[r].variant].price]
      <4>1. r \in Procs
        BY DEF Procs
      <4> QED
        BY <1>0, <2>1, <3>2, <4>1 DEF Quote, Reject, Goto
    <3> QED
      BY <1>0, <3>1, <3>3 DEF PriceInv
  <2>2. CASE ~Quote(r)
    <3>1. pc[r] \in {"lock", "commit"}
      BY <1>0, <1>2, <2>2, ToTransaction
    <3>2. quote'[r] = quote[r]
      <4>1. ASSUME NEW q \in Requests, Quote(q) PROVE quote'[r] = quote[r]
        <5>1. q # r
          BY <2>2, <4>1
        <5> QED
          BY <1>0, <4>1, <5>1 DEF Quote
      <4> QED
        BY <4>1, QuoteWriters
    <3> QED
      BY <3>1, <3>2 DEF PriceInv
  <2> QED
    BY <2>1, <2>2
<1> QED
  BY <1>1, <1>2 DEF PriceInv

-----------------------------------------------------------------------------
(* The abstract variables, order by order *)

terms == [o \in Requests |-> [reseller |-> Reseller(o), kind |-> AdapterOf(o)]]
state == [o \in Requests |-> StateOf(o)]
quantity == [o \in Requests |-> orders[o].quantity]
unit == [o \in Requests |-> orders[o].unit]

\* A step that changes one order changes one entry of each function.
LEMMA OneEntry ==
  ASSUME req' = req, NEW o \in Requests,
         \A x \in Requests \ {o} : orders'[x] = orders[x]
  PROVE  /\ terms' = terms
         /\ state' = [state EXCEPT ![o] = StateOf(o)']
         /\ quantity' = [quantity EXCEPT ![o] = orders'[o].quantity]
         /\ unit' = [unit EXCEPT ![o] = orders'[o].unit]
<1>1. terms' = terms
  BY DEF terms, Reseller, AdapterOf
<1>2. state' = [state EXCEPT ![o] = StateOf(o)']
  BY DEF state, StateOf
<1>3. quantity' = [quantity EXCEPT ![o] = orders'[o].quantity]
  BY DEF quantity
<1>4. unit' = [unit EXCEPT ![o] = orders'[o].unit]
  BY DEF unit
<1> QED
  BY <1>1, <1>2, <1>3, <1>4

\* The values at one order.
LEMMA Entries ==
  ASSUME NEW o \in Requests
  PROVE  /\ terms[o].reseller = Reseller(o) /\ terms[o].kind = AdapterOf(o)
         /\ state[o] = StateOf(o)
         /\ quantity[o] = orders[o].quantity
         /\ unit[o] = orders[o].unit
  BY DEF terms, state, quantity, unit

Abstract == <<balance, terms, state, quantity, unit, creds>>

\* A step that leaves the abstract variables alone.
LEMMA Stutters ==
  ASSUME UNCHANGED <<req, orders, balance, creds>>
  PROVE  UNCHANGED Abstract
  BY DEF Abstract, terms, state, quantity, unit, StateOf, Reseller, AdapterOf

LEMMA RefinesInit == Init => Contract!Init
<1> SUFFICES ASSUME Init PROVE Contract!Init
  OBVIOUS
<1>1. \A o \in Requests : Reseller(o) \in Resellers
  BY DEF Init, Reseller, Input
<1>2. \A o \in Requests : orders[o] = NoRow /\ StateOf(o) = "NONE"
  BY DEF Init, StateOf, NoRow
<1>3. balance \in [Resellers -> Int] /\ creds = [o \in Requests |-> 0]
  BY CreditsAssumption DEF Init
<1>4. \A o \in Requests : [x \in Requests |-> [reseller |-> Reseller(x), kind |-> AdapterOf(x)]][o].reseller
                            \in Resellers
  BY <1>1
<1>5. /\ [o \in Requests |-> StateOf(o)] = [o \in Requests |-> "NONE"]
      /\ [o \in Requests |-> orders[o].quantity] = [o \in Requests |-> 0]
      /\ [o \in Requests |-> orders[o].unit] = [o \in Requests |-> 0]
  BY <1>2 DEF NoRow
<1> QED
  BY <1>3, <1>4, <1>5 DEF Contract!Init

ContractStep == Contract!Next \/ UNCHANGED Abstract

LEMMA RefinesCommit ==
  ASSUME IInv, PriceInv, NEW r \in Requests, ReserveCommit(r)
  PROVE  ContractStep
<1>0. /\ TypeOK /\ RequestOK(r) /\ OrderOK(r) /\ orders \in [Requests -> OrderRow]
      /\ balance \in [Resellers -> Int]
  BY DEF IInv, TypeOK, RequestInv, OrderInv
<1>1. /\ r \in Procs /\ Reseller(r) \in Resellers /\ quote[r] \in Prices
      /\ req[r].quantity \in 1..MaxQuantity /\ quote[r] \in Int /\ req[r].quantity \in Int
  BY <1>0, RequestType DEF ReserveCommit, RequestOK, PriceInv, Procs
<1>2. seen[r] = balance[Reseller(r)]
  BY <1>1, ProcsAssumption DEF ReserveCommit, IInv, LockInv
<1>3. orders[r].status = "NONE"
  BY <1>0 DEF ReserveCommit, RequestOK, Placed
<1>4. /\ orders'[r].status = "PENDING" /\ orders'[r].quantity = req[r].quantity
      /\ orders'[r].unit = quote[r]
      /\ \A x \in Requests \ {r} : orders'[x] = orders[x]
  BY <1>0 DEF ReserveCommit
<1>5. /\ terms' = terms /\ state' = [state EXCEPT ![r] = "OPEN"]
      /\ quantity' = [quantity EXCEPT ![r] = req[r].quantity]
      /\ unit' = [unit EXCEPT ![r] = quote[r]]
  BY <1>4, OneEntry DEF ReserveCommit, StateOf
<1>6. state[r] = "NONE"
  BY <1>3, Entries DEF StateOf
<1>7. /\ quote[r] * req[r].quantity <= balance[Reseller(r)]
      /\ balance' = [balance EXCEPT ![Reseller(r)] = @ - quote[r] * req[r].quantity]
  <2> DEFINE t == quote[r] * req[r].quantity
  <2>1. t \in Int
    BY <1>1
  <2>2. Total(r) = t
    BY DEF Total
  <2> HIDE DEF t
  <2>3. balance' = [balance EXCEPT ![Reseller(r)] = seen[r] + (-t)] /\ seen[r] >= t
    BY <2>2 DEF ReserveCommit, Post, Affordable
  <2>4. balance[Reseller(r)] \in Int
    BY <1>0, <1>1
  <2>5. seen[r] + (-t) = balance[Reseller(r)] - t /\ t <= balance[Reseller(r)]
    BY <1>2, <2>1, <2>3, <2>4
  <2>6. balance' = [balance EXCEPT ![Reseller(r)] = @ - t]
    BY <2>3, <2>5
  <2> QED
    BY <2>5, <2>6 DEF t
<1>8. terms[r].reseller = Reseller(r) /\ UNCHANGED creds
  BY Entries DEF ReserveCommit
<1>9. PICK n \in 1..MaxQuantity, price \in Prices : n = req[r].quantity /\ price = quote[r]
  BY <1>1
<1>10. Contract!Buy(r, n, price)
  BY <1>5, <1>6, <1>7, <1>8, <1>9 DEF Contract!Buy, terms, state, quantity, unit
<1> QED
  BY <1>10 DEF ContractStep, Contract!Next

\* The claim is invisible: PENDING and PROCESSING are both OPEN.
LEMMA RefinesClaim ==
  ASSUME IInv, NEW p \in Procs, Claim(p)
  PROVE  ContractStep
<1>0. orders \in [Requests -> OrderRow] /\ JobOK
  BY DEF IInv, TypeOK
<1>1. UNCHANGED <<req, balance, creds>>
  BY DEF Claim, money
<1>2. CASE UNCHANGED orders
  BY <1>1, <1>2, Stutters DEF ContractStep
<1>3. CASE ~UNCHANGED orders
  <2>1. PICK o \in Requests : o = job[p]
    BY <1>0 DEF Claim, JobOK
  <2>2. orders[o].status = "PENDING" /\ orders' = [orders EXCEPT ![o].status = "PROCESSING"]
    BY <1>3, <2>1 DEF Claim, Claimable, SetStatus
  <2>3. /\ orders'[o].status = "PROCESSING" /\ orders'[o].quantity = orders[o].quantity
        /\ orders'[o].unit = orders[o].unit
        /\ \A x \in Requests \ {o} : orders'[x] = orders[x]
    BY <1>0, <2>2 DEF OrderRow
  <2>4. StateOf(o)' = StateOf(o)
    BY <2>2, <2>3 DEF StateOf
  <2>5. /\ terms' = terms /\ state' = [state EXCEPT ![o] = state[o]]
        /\ quantity' = [quantity EXCEPT ![o] = quantity[o]]
        /\ unit' = [unit EXCEPT ![o] = unit[o]]
    BY <1>1, <2>3, <2>4, OneEntry, Entries
  <2>6. UNCHANGED Abstract
    BY <1>1, <2>5 DEF Abstract, state, quantity, unit
  <2> QED
    BY <2>6 DEF ContractStep
<1> QED
  BY <1>2, <1>3

LEMMA RefinesPersist ==
  ASSUME IInv, NEW p \in Procs, Persist(p)
  PROVE  ContractStep
<1>0. /\ orders \in [Requests -> OrderRow] /\ JobOK /\ WInv /\ creds \in [Requests -> Nat]
  BY DEF IInv, TypeOK, WInv
<1>1. UNCHANGED <<req, balance, orders>> /\ pc[p] = "persist" /\ pc[p] \in Fulfilling
  BY DEF Persist, money, Fulfilling
<1>2. PICK o \in Requests : o = job[p]
  BY <1>0, <1>1 DEF JobOK
<1>3. CASE UNCHANGED creds
  BY <1>1, <1>3, Stutters DEF ContractStep
<1>4. CASE creds' = [creds EXCEPT ![o] = @ + 1]
  <2>1. /\ orders[o].status = "PROCESSING" /\ creds[o] < orders[o].quantity
    BY <1>0, <1>1, <1>2, OwnOrder DEF WorkOK
  <2>2. state[o] = "OPEN" /\ creds[o] < quantity[o]
    BY <2>1, Entries DEF StateOf
  <2>3. UNCHANGED <<balance, terms, state, quantity, unit>>
    BY <1>1 DEF terms, state, quantity, unit, StateOf, Reseller, AdapterOf
  <2>4. Contract!Deliver(o)
    BY <1>4, <2>2, <2>3 DEF Contract!Deliver, terms, state, quantity, unit
  <2> QED
    BY <2>4 DEF ContractStep, Contract!Next
<1> QED
  BY <1>2, <1>3, <1>4 DEF Persist

LEMMA RefinesRefund ==
  ASSUME IInv, NEW p \in Procs, Refund(p)
  PROVE  ContractStep
<1>0. /\ orders \in [Requests -> OrderRow] /\ JobOK /\ WInv /\ TypeOK /\ LockInv
      /\ creds \in [Requests -> Nat]
      /\ balance \in [Resellers -> Int] /\ want \in [Procs -> Int] /\ made \in [Procs -> Int]
  BY DEF IInv, TypeOK, WInv
<1>1. /\ UNCHANGED <<req, creds>> /\ pc[p] = "refund" /\ pc[p] \in Fulfilling
  BY DEF Refund, Fulfilling
<1>2. PICK o \in Requests : o = job[p]
  BY <1>0, <1>1 DEF JobOK
<1>3. PICK u \in Resellers : u = Reseller(o)
  BY <1>0, RequestType
<1>4. seen[p] = balance[u]
  BY <1>0, <1>1, <1>2, <1>3, ProcsAssumption DEF LockInv
<1>5. /\ orders[o].status = "PROCESSING" /\ creds[o] = made[p]
      /\ orders[o].quantity = want[p] /\ made[p] < want[p]
  BY <1>0, <1>1, <1>2, OwnOrder DEF WorkOK
<1>6. orders' = [orders EXCEPT ![o].quantity = made[p]]
  BY <1>2 DEF Refund
<1>7. /\ orders'[o].status = "PROCESSING" /\ orders'[o].quantity = creds[o]
      /\ orders'[o].unit = orders[o].unit
      /\ \A x \in Requests \ {o} : orders'[x] = orders[x]
  BY <1>0, <1>5, <1>6 DEF OrderRow
<1>8. /\ terms' = terms /\ state' = [state EXCEPT ![o] = state[o]]
      /\ quantity' = [quantity EXCEPT ![o] = creds[o]]
      /\ unit' = [unit EXCEPT ![o] = unit[o]]
  BY <1>1, <1>5, <1>7, OneEntry, Entries DEF StateOf
<1>9. state[o] = "OPEN" /\ creds[o] < quantity[o] /\ terms[o].reseller = u
  BY <1>3, <1>5, Entries DEF StateOf
<1>10. balance' = [balance EXCEPT ![u] = @ + unit[o] * (quantity[o] - creds[o])]
  <2>1. unit[o] = orders[o].unit /\ quantity[o] - creds[o] = Unprocessed(p)
    BY <1>5, Entries DEF Unprocessed
  <2> QED
    BY <1>2, <1>3, <1>4, <2>1 DEF Refund, Post
<1>11. UNCHANGED <<terms, state, unit, creds>>
  BY <1>1, <1>8 DEF state, unit
<1>12. Contract!Refund(o)
  BY <1>8, <1>9, <1>10, <1>11 DEF Contract!Refund, terms, state, quantity, unit
<1> QED
  BY <1>12 DEF ContractStep, Contract!Next

\* Closing an open order: settled when what is charged is what was delivered,
\* closed by hand otherwise.
LEMMA RefinesClosing ==
  ASSUME IInv, NEW o \in Requests, NEW s \in {"COMPLETED", "FAILED"},
         UNCHANGED <<req, balance, creds>>,
         orders[o].status \in {"PENDING", "PROCESSING"},
         \/ orders' = [orders EXCEPT ![o].status = s]
         \/ orders' = [orders EXCEPT ![o].status = s, ![o].reason = TRUE],
         \/ creds[o] = orders[o].quantity /\ s = IF creds[o] > 0 THEN "COMPLETED" ELSE "FAILED"
         \/ creds[o] = 0 /\ AdapterOf(o) = "whatsapp" /\ s = "COMPLETED"
         \/ creds[o] = 0 /\ AdapterOf(o) = "none" /\ s = "FAILED"
  PROVE  ContractStep
<1>0. orders \in [Requests -> OrderRow]
  BY DEF IInv, TypeOK
<1>1. /\ orders'[o].status = s /\ orders'[o].quantity = orders[o].quantity
      /\ orders'[o].unit = orders[o].unit
      /\ \A x \in Requests \ {o} : orders'[x] = orders[x]
  BY <1>0 DEF OrderRow
<1>2. /\ terms' = terms /\ state' = [state EXCEPT ![o] = s]
      /\ quantity' = [quantity EXCEPT ![o] = quantity[o]]
      /\ unit' = [unit EXCEPT ![o] = unit[o]]
  BY <1>1, OneEntry, Entries DEF StateOf
<1>3. UNCHANGED <<balance, terms, quantity, unit, creds>>
  BY <1>2 DEF quantity, unit
<1>4. state[o] = "OPEN" /\ quantity[o] = orders[o].quantity /\ terms[o].kind = AdapterOf(o)
  BY Entries DEF StateOf
<1>5. CASE creds[o] = orders[o].quantity /\ s = IF creds[o] > 0 THEN "COMPLETED" ELSE "FAILED"
  <2>1. Contract!Settle(o)
    BY <1>2, <1>3, <1>4, <1>5 DEF Contract!Settle, terms, state, quantity, unit
  <2> QED
    BY <2>1 DEF ContractStep, Contract!Next
<1>6. CASE \/ creds[o] = 0 /\ AdapterOf(o) = "whatsapp" /\ s = "COMPLETED"
           \/ creds[o] = 0 /\ AdapterOf(o) = "none" /\ s = "FAILED"
  <2>1. Contract!CloseByHand(o)
    BY <1>2, <1>3, <1>4, <1>6 DEF Contract!CloseByHand, terms, state, quantity, unit
  <2> QED
    BY <2>1 DEF ContractStep, Contract!Next
<1> QED
  BY <1>5, <1>6

LEMMA RefinesClose ==
  ASSUME IInv, NEW p \in Procs, Complete(p) \/ Close(p)
  PROVE  ContractStep
<1>0. JobOK /\ WInv
  BY DEF IInv, WInv
<1>1. /\ UNCHANGED <<req, creds, balance>> /\ pc[p] \in {"complete", "partial", "fail"}
      /\ pc[p] \in Fulfilling
  BY DEF Complete, Close, money, Fulfilling
<1>2. PICK o \in Requests : o = job[p]
  BY <1>0, <1>1 DEF JobOK
<1>3. orders[o].status = "PROCESSING" /\ WorkOK(p)
  BY <1>0, <1>1, <1>2, OwnOrder DEF WorkOK
<1>4. CASE pc[p] \in {"complete", "partial"}
  <2>1. creds[o] = orders[o].quantity /\ creds[o] > 0
    BY <1>2, <1>3, <1>4 DEF WorkOK
  <2>2. \/ orders' = [orders EXCEPT ![o].status = "COMPLETED"]
        \/ orders' = [orders EXCEPT ![o].status = "COMPLETED", ![o].reason = TRUE]
    BY <1>2, <1>4 DEF Complete, Close, SetStatus, ClosingStatus
  <2> QED
    BY <1>1, <1>3, <2>1, <2>2, RefinesClosing
<1>5. CASE pc[p] = "fail"
  <2>1. creds[o] = 0 /\ (orders[o].quantity = 0 \/ AdapterOf(o) = "none")
    BY <1>2, <1>3, <1>5 DEF WorkOK
  <2>2. orders' = [orders EXCEPT ![o].status = "FAILED", ![o].reason = TRUE]
    BY <1>2, <1>5 DEF Complete, Close, ClosingStatus
  <2>3. \/ creds[o] = orders[o].quantity /\ "FAILED" = IF creds[o] > 0 THEN "COMPLETED" ELSE "FAILED"
        \/ creds[o] = 0 /\ AdapterOf(o) = "none"
    BY <2>1
  <2> QED
    BY <1>1, <1>3, <2>2, <2>3, RefinesClosing
<1> QED
  BY <1>1, <1>4, <1>5

LEMMA RefinesAdjust ==
  ASSUME IInv, NEW a \in Admins, NEW u \in Resellers, Adjust(a, u)
  PROVE  ContractStep
<1>0. balance \in [Resellers -> Int] /\ a \in Procs
  BY DEF IInv, TypeOK, Procs
<1>1. UNCHANGED <<req, orders, creds>> /\ locked[u] = a
  BY DEF Adjust, tables
<1>2. seen[a] = balance[u]
  BY <1>0, <1>1, ProcsAssumption DEF IInv, LockInv
<1>3. PICK amount \in Amounts \ {0} :
        \/ UNCHANGED <<balance, ledger>>
        \/ seen[a] + amount >= 0 /\ Post(a, u, amount, "ADMIN", NoOrder)
  BY DEF Adjust
<1>4. CASE UNCHANGED balance
  BY <1>1, <1>4, Stutters DEF ContractStep
<1>5. CASE seen[a] + amount >= 0 /\ Post(a, u, amount, "ADMIN", NoOrder)
  <2>1. balance[u] + amount >= 0 /\ balance' = [balance EXCEPT ![u] = @ + amount]
    BY <1>2, <1>5 DEF Post
  <2>2. UNCHANGED <<terms, state, quantity, unit, creds>>
    BY <1>1 DEF terms, state, quantity, unit, StateOf, Reseller, AdapterOf
  <2>3. Contract!Adjust(u, amount)
    BY <2>1, <2>2 DEF Contract!Adjust, terms, state, quantity, unit
  <2> QED
    BY <1>3, <2>3 DEF ContractStep, Contract!Next
<1> QED
  BY <1>3, <1>4, <1>5

LEMMA RefinesNext == IInv /\ PriceInv /\ [Next]_vars => ContractStep
<1> SUFFICES ASSUME IInv, PriceInv, [Next]_vars PROVE ContractStep
  OBVIOUS
<1>1. ASSUME NEW a \in Admins, NEW o \in Requests, CompleteWhatsApp(a, o) PROVE ContractStep
  <2>1. /\ orders[o].status = "PENDING" /\ AdapterOf(o) = "whatsapp"
        /\ UNCHANGED <<req, balance, creds>>
        /\ orders' = [orders EXCEPT ![o].status = "COMPLETED"]
    BY <1>1 DEF CompleteWhatsApp, Completable, SetStatus, money
  <2>2. creds[o] = 0
    BY <2>1 DEF IInv, OrderInv, OrderOK
  <2> QED
    BY <2>1, <2>2, RefinesClosing
<1>2. CASE UNCHANGED <<orders, balance, ledger, creds, lines>>
  BY <1>2, Constant, Stutters DEF ContractStep
<1>3. ASSUME NEW p \in Procs, Provision(p) PROVE ContractStep
  BY <1>3, Stutters DEF Provision, ContractStep, money
<1> QED
  BY <1>1, <1>2, <1>3, OrderWriters, MoneyWriters, DeliveryWriters, RefinesCommit, RefinesClaim,
     RefinesPersist, RefinesRefund, RefinesClose, RefinesAdjust

\* The order service keeps its contract: each step that changes a balance, an
\* order or a credential, whatever the interleaving and wherever a failure
\* cuts in, is a step of OrderContract, and all the others are invisible.
THEOREM Refinement == Spec => KeepsContract
<1>1. Init => Contract!Init
  BY RefinesInit
<1>2. IInv /\ PriceInv /\ [Next]_vars => [Contract!Next]_(Contract!vars)
  BY RefinesNext DEF ContractStep, Abstract, Contract!vars, terms, state, quantity, unit
<1>3. Init => IInv /\ PriceInv
  BY IInvInit, PriceInit
<1>4. IInv /\ PriceInv /\ [Next]_vars => (IInv /\ PriceInv)'
  BY IInvStep, PriceStep DEF IInv
<1> QED
  BY <1>1, <1>2, <1>3, <1>4, PTL DEF Spec, KeepsContract, Contract!Spec
=============================================================================
