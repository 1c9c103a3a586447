---------------------------- MODULE CatalogCache ----------------------------
(***************************************************************************)
(* The catalog endpoints (handlers/catalog.rs): GET categories and GET     *)
(* products read through a cache in Redis that no admin write invalidates; *)
(* products puts a single-flight lock in front of the database.            *)
(*                                                                         *)
(* A process is one request after another, a step one Redis command or one *)
(* read of the database.  A page is known by its age, the ticks since it   *)
(* was read: what it shows was true that long ago.  The three queries of a *)
(* products page run outside a transaction; it is as old as the first.     *)
(***************************************************************************)
EXTENDS Integers, FiniteSets

CONSTANTS
  Procs,
  Pages,        \* cache keys
  Guarded,      \* the pages behind a single-flight lock: those of products
  CacheTtl,     \* 300 seconds
  LockTtl,      \* EX 5
  MaxPolls,     \* 40 polls, 25 ms apart; here a tick apart
  MaxDelay,     \* ticks a request may take from its first query to its reply
  MayFail       \* whether Redis commands and queries may fail

ASSUME CacheAssumption ==
  /\ Guarded \subseteq Pages
  /\ CacheTtl \in Nat \ {0} /\ LockTtl \in Nat \ {0}
  /\ MaxPolls \in Nat /\ MaxDelay \in Nat /\ MayFail \in BOOLEAN

VARIABLES
  pc, page,    \* where a process stands, and the page it was asked for
  owns,        \* local `locked`: the process won the lock
  polls,       \* polls a process made without finding the page
  slept,       \* whether the sleep before the next poll is over
  result,      \* age of the page in hand, from the database or the cache
  delay,       \* ticks since a process began to compute
  cached,      \* age of the cached page
  ttl,         \* ticks left of the cached page; 0 when there is none
  lockTtl,     \* ticks left of the lock key; 0 when it is free
  robbed       \* history: winners whose key one that had lost its own deleted

vars == <<pc, page, owns, polls, slept, result, delay, cached, ttl, lockTtl, robbed>>
locals == <<owns, polls, slept, result, delay>>
counters == <<polls, slept, delay>>
store == <<cached, ttl>>
lock == <<lockTtl, robbed>>

\* Ages beyond this one are not told apart.
MaxAge == CacheTtl + MaxDelay + 1

Init ==
  /\ pc = [p \in Procs |-> "idle"]
  /\ page \in [Procs -> Pages]
  /\ owns = [p \in Procs |-> FALSE]
  /\ polls = [p \in Procs |-> 0]
  /\ slept = [p \in Procs |-> FALSE]
  /\ result = [p \in Procs |-> 0]
  /\ delay = [p \in Procs |-> 0]
  /\ cached = [k \in Pages |-> 0]
  /\ ttl = [k \in Pages |-> 0]
  /\ lockTtl = [k \in Pages |-> 0] /\ robbed = {}

-----------------------------------------------------------------------------

Goto(p, l) == pc' = [pc EXCEPT ![p] = l]
Cached(p) == ttl[page[p]] > 0

Reset(p) ==
  /\ owns' = [owns EXCEPT ![p] = FALSE]
  /\ polls' = [polls EXCEPT ![p] = 0]
  /\ slept' = [slept EXCEPT ![p] = FALSE]
  /\ delay' = [delay EXCEPT ![p] = 0]

\* The response is sent with the page in hand...
Reply(p) == Goto(p, "sent") /\ Reset(p)
\* ... or the ? operator turned a failure into a 500, and nothing else happens.
Fail(p) == MayFail /\ Goto(p, "idle") /\ Reset(p) /\ UNCHANGED <<page, result, lock>>

RenewedByHit(k) == CacheTtl
LeftAfterHit(k) == ttl[k]

\* The cached page is the reply; reading it leaves its TTL alone.
Hit(p) ==
  /\ Cached(p)
  /\ ttl' = [ttl EXCEPT ![page[p]] = LeftAfterHit(page[p])]
  /\ UNCHANGED cached
  /\ result' = [result EXCEPT ![p] = cached[page[p]]]
  /\ Reply(p)

Arrive(p, k) ==
  /\ pc[p] \in {"idle", "sent"}
  /\ page' = [page EXCEPT ![p] = k]
  /\ result' = [result EXCEPT ![p] = 0]
  /\ Goto(p, "get")
  /\ UNCHANGED <<owns, counters, store, lock>>

\* GET of the cached page.
Get(p) ==
  /\ pc[p] = "get"
  /\ \/ Hit(p)
     \/ /\ ~Cached(p)
        /\ Goto(p, IF page[p] \in Guarded THEN "lock" ELSE "compute")
        /\ UNCHANGED <<locals, store>>
  /\ UNCHANGED <<page, lock>>

FreeAnyway(k) == TRUE
Free(k) == lockTtl[k] = 0

\* SET key:lock NX EX 5; a failure counts as a lock not won, although it may
\* be only the reply that was lost.
Lock(p) ==
  LET k == page[p] IN
  /\ pc[p] = "lock"
  /\ \/ /\ Free(k)
        /\ lockTtl' = [lockTtl EXCEPT ![k] = LockTtl]
        /\ owns' = [owns EXCEPT ![p] = TRUE]
        /\ robbed' = robbed \ {p}
        /\ Goto(p, "compute")
     \/ /\ \/ (~Free(k) \/ MayFail) /\ UNCHANGED lockTtl
           \/ MayFail /\ Free(k) /\ lockTtl' = [lockTtl EXCEPT ![k] = LockTtl]
        /\ Goto(p, "poll")
        /\ UNCHANGED <<owns, robbed>>
  /\ UNCHANGED <<page, counters, result, store>>

NeverGivesUp(p) == FALSE
GivesUp(p) == polls[p] = MaxPolls

\* Sleep, then GET again; after the last poll the loser computes as well.
Poll(p) ==
  /\ pc[p] = "poll"
  /\ \/ ~GivesUp(p) /\ slept[p] /\ Hit(p)
     \/ /\ ~GivesUp(p) /\ slept[p] /\ ~Cached(p)
        /\ polls' = [polls EXCEPT ![p] = IF @ < MaxPolls THEN @ + 1 ELSE @]
        /\ slept' = [slept EXCEPT ![p] = FALSE]
        /\ UNCHANGED <<pc, owns, result, delay, store>>
     \/ GivesUp(p) /\ Goto(p, "compute") /\ UNCHANGED <<locals, store>>
  /\ UNCHANGED <<page, lock>>

\* The queries.
Compute(p) ==
  /\ pc[p] = "compute"
  /\ result' = [result EXCEPT ![p] = 0]
  /\ Goto(p, "store")
  /\ UNCHANGED <<page, owns, counters, store, lock>>

PageTtl == CacheTtl

\* SET EX 300, whatever was stored meanwhile.
Store(p) ==
  LET k == page[p] IN
  /\ pc[p] = "store"
  /\ cached' = [cached EXCEPT ![k] = result[p]]
  /\ ttl' = [ttl EXCEPT ![k] = PageTtl]
  /\ \/ /\ IF owns[p] THEN Goto(p, "unlock") /\ UNCHANGED locals
                     ELSE Reply(p) /\ UNCHANGED result
        /\ UNCHANGED <<page, lock>>
     \/ Fail(p)  \* only the reply is lost

\* A winner has lost its key: it took longer than the key lives, or was robbed of it.
Lost(p) == delay[p] >= LockTtl \/ p \in robbed

\* DEL key:lock, whoever holds it by now; the result is ignored.
Unlock(p) ==
  /\ pc[p] = "unlock"
  /\ \/ /\ lockTtl' = [lockTtl EXCEPT ![page[p]] = 0]
        /\ robbed' = IF Lost(p)
                     THEN robbed \cup {q \in Procs \ {p} : owns[q] /\ page[q] = page[p]}
                     ELSE robbed
     \/ MayFail /\ UNCHANGED lock
  /\ Reply(p)
  /\ UNCHANGED <<page, result, store>>

\* A Redis GET or SET EX, or a query, fails.  The lock is not released.
Error(p) == pc[p] \in {"get", "poll", "compute", "store"} /\ Fail(p) /\ UNCHANGED store

-----------------------------------------------------------------------------

Older(age) == IF age < MaxAge THEN age + 1 ELSE age

\* Time passes and keys expire.
Computing == {"compute", "store", "unlock"}
Tick ==
  /\ \A p \in Procs : pc[p] \in Computing => delay[p] < MaxDelay
  /\ delay' = [p \in Procs |-> IF pc[p] \in Computing THEN delay[p] + 1 ELSE delay[p]]
  /\ slept' = [p \in Procs |-> pc[p] = "poll"]
  /\ result' = [p \in Procs |-> IF pc[p] = "store" THEN Older(result[p]) ELSE result[p]]
  /\ cached' = [k \in Pages |-> IF ttl[k] > 1 THEN Older(cached[k]) ELSE 0]
  /\ ttl' = [k \in Pages |-> IF ttl[k] > 0 THEN ttl[k] - 1 ELSE 0]
  /\ lockTtl' = [k \in Pages |-> IF lockTtl[k] > 0 THEN lockTtl[k] - 1 ELSE 0]
  /\ UNCHANGED <<pc, page, owns, polls, robbed>>

Serve(p) ==
  Get(p) \/ Lock(p) \/ Poll(p) \/ Compute(p) \/ Store(p) \/ Unlock(p)

Next ==
  \/ Tick
  \/ \E p \in Procs : Serve(p) \/ Error(p) \/ \E k \in Pages : Arrive(p, k)

Spec == Init /\ [][Next]_vars

\* Time passes and a request that arrived is served: sleeps end, queries and
\* commands return.  Nobody has to ask for anything.
FairSpec == Spec /\ WF_vars(Tick) /\ \A p \in Procs : WF_vars(Serve(p))

-----------------------------------------------------------------------------
(* Properties *)

Types ==
  /\ pc \in [Procs -> {"idle", "get", "lock", "poll", "compute", "store", "unlock", "sent"}]
  /\ page \in [Procs -> Pages]
  /\ owns \in [Procs -> BOOLEAN] /\ slept \in [Procs -> BOOLEAN]
  /\ polls \in [Procs -> 0..MaxPolls] /\ delay \in [Procs -> 0..MaxDelay]
  /\ result \in [Procs -> 0..MaxAge] /\ cached \in [Pages -> 0..MaxAge]
  /\ ttl \in [Pages -> 0..CacheTtl] /\ lockTtl \in [Pages -> 0..LockTtl]
  /\ robbed \subseteq Procs

\* A page that is sent was read from the database no longer ago than the cache
\* keeps pages plus the time a request may hold one, although a slow request
\* may store its page over a newer one.
SentPageIsRecent ==
  \A p \in Procs : pc[p] = "sent" => result[p] <= CacheTtl + MaxDelay

\* Types, and: one request computes a guarded page for the others.  A second winner joins
\* the first only when the first has taken longer than the key lives, or when a winner
\* that had lost its own key, in either way, deleted that of the first when it was done.
Holders(k) == {p \in Procs : owns[p] /\ page[p] = k /\ ~Lost(p)}
OneWinner == Types /\ \A k \in Pages : Cardinality(Holders(k)) <= 1

\* Every request is answered, also when the winner of the lock dies without
\* storing a page (under FairSpec).
EveryCallerAnswered == \A p \in Procs : pc[p] = "get" ~> pc[p] \in {"sent", "idle"}
=============================================================================
