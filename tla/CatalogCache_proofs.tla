------------------------ MODULE CatalogCache_proofs ------------------------
(***************************************************************************)
(* Pages sent are recent and the single-flight lock has one winner, for    *)
(* any numbers of processes and pages and any lifetimes (SentPageIsRecent  *)
(* and OneWinner of CatalogCache).                                         *)
(*                                                                         *)
(* Both follow from two clocks that run side by side: the age of a page in *)
(* hand and the time its process has spent computing, the life of a lock   *)
(* and the time its winner has held it.  A winner that takes longer has    *)
(* lost its lock, and whoever it then robs of theirs is accounted for, so  *)
(* nothing is assumed of how long a request takes.                         *)
(***************************************************************************)
EXTENDS CatalogCache, FiniteSetTheorems, TLAPS

\* What is in hand is as old as the time spent on it; what is cached was in
\* hand when its key was written.
Recent ==
  /\ \A p \in Procs : pc[p] \in {"store", "unlock"} => result[p] <= delay[p]
  /\ \A p \in Procs : pc[p] = "sent" => result[p] <= CacheTtl + MaxDelay
  /\ \A k \in Pages : ttl[k] > 0 => cached[k] + ttl[k] <= CacheTtl + MaxDelay

\* The clock of a computation starts at nought, and a winner is one that computes.
Clocks ==
  /\ \A p \in Procs : pc[p] \notin Computing => delay[p] = 0
  /\ \A p \in Procs : owns[p] => pc[p] \in Computing
  /\ \A p \in Procs : pc[p] = "unlock" => owns[p]

Holds(p) == owns[p] /\ ~Lost(p)

\* The key of a winner that has not lost it is there, and lives as long as the winner
\* may still take.
LockOutlives ==
  \A p \in Procs : Holds(p) => lockTtl[page[p]] + delay[p] >= LockTtl
Single ==
  \A p, q \in Procs : Holds(p) /\ Holds(q) /\ page[p] = page[q] => p = q

Inv == Types /\ Clocks /\ Recent /\ LockOutlives /\ Single

-----------------------------------------------------------------------------

LEMMA Bounds ==
  /\ CacheTtl \in Nat \ {0} /\ LockTtl \in Nat \ {0} /\ MaxPolls \in Nat /\ MaxDelay \in Nat
  /\ MaxAge \in Nat /\ MaxAge = CacheTtl + MaxDelay + 1
BY CacheAssumption DEF MaxAge

LEMMA InitInv == Init => Inv
<1> SUFFICES ASSUME Init PROVE Inv
  OBVIOUS
<1>1. Types
  BY Bounds DEF Init, Types
<1>2. Clocks /\ Recent /\ LockOutlives /\ Single
  BY Bounds DEF Init, Clocks, Recent, LockOutlives, Single, Holds
<1>3. QED  BY <1>1, <1>2 DEF Inv

\* Everything a step of one process leaves alone.
Others(p) ==
  \A q \in Procs \ {p} :
    /\ pc'[q] = pc[q] /\ page'[q] = page[q] /\ owns'[q] = owns[q]
    /\ result'[q] = result[q] /\ delay'[q] = delay[q]

\* A process that computes keeps its page and its lock; what it stores is recent.
LEMMA OneMoves ==
  ASSUME Inv, Types', NEW p \in Procs, Others(p),
         pc'[p] \notin Computing => delay'[p] = 0,
         pc'[p] = "unlock" => owns'[p],
         pc'[p] \in {"store", "unlock"} => result'[p] <= delay'[p],
         pc'[p] = "sent" => result'[p] <= CacheTtl + MaxDelay,
         \A k \in Pages : ttl'[k] > 0 => cached'[k] + ttl'[k] <= CacheTtl + MaxDelay,
         owns'[p] => /\ pc'[p] \in Computing
                     /\ \/ /\ Holds(p)' => Holds(p)
                           /\ page'[p] = page[p] /\ delay'[p] = delay[p] /\ lockTtl' = lockTtl
                        \/ /\ lockTtl[page'[p]] = 0
                           /\ lockTtl'[page'[p]] + delay'[p] >= LockTtl,
         \A q \in Procs \ {p} :
           Holds(q)' => Holds(q) /\ lockTtl'[page[q]] >= lockTtl[page[q]]
  PROVE  Inv'
<1>1. Clocks'
  BY DEF Inv, Clocks, Others
<1>2. Recent'
  BY DEF Inv, Recent, Others
<1>3. ASSUME NEW q \in Procs, Holds(q) PROVE lockTtl[page[q]] > 0
  <2>1. delay[q] \in Nat /\ lockTtl[page[q]] \in Nat /\ delay[q] < LockTtl
    BY <1>3, Bounds DEF Inv, Types, Holds, Lost
  <2>2. lockTtl[page[q]] + delay[q] >= LockTtl
    BY <1>3 DEF Inv, LockOutlives
  <2>3. QED  BY <2>1, <2>2, Bounds
<1>4. LockOutlives'
  <2> SUFFICES ASSUME NEW q \in Procs, Holds(q)'
               PROVE  lockTtl'[page'[q]] + delay'[q] >= LockTtl
    BY DEF LockOutlives
  <2>1. CASE q = p
    <3>1. owns'[p]
      BY <2>1 DEF Holds
    <3>2. CASE /\ Holds(p)
               /\ page'[p] = page[p] /\ delay'[p] = delay[p] /\ lockTtl' = lockTtl
      BY <2>1, <3>2 DEF Inv, LockOutlives
    <3>3. CASE lockTtl'[page'[p]] + delay'[p] >= LockTtl
      BY <2>1, <3>3
    <3>4. QED  BY <2>1, <3>1, <3>2, <3>3
  <2>2. CASE q # p
    <3>1. Holds(q) /\ page'[q] = page[q] /\ delay'[q] = delay[q]
      BY <2>2 DEF Others
    <3>2. lockTtl[page[q]] + delay[q] >= LockTtl /\ lockTtl'[page[q]] >= lockTtl[page[q]]
      BY <2>2, <3>1 DEF Inv, LockOutlives
    <3>3. page[q] \in Pages /\ lockTtl[page[q]] \in Int /\ lockTtl'[page[q]] \in Int
          /\ delay[q] \in Int
      BY DEF Inv, Types
    <3>4. QED  BY <3>1, <3>2, <3>3, Bounds
  <2>3. QED  BY <2>1, <2>2
<1>5. ASSUME NEW q \in Procs, Holds(q)', q # p, Holds(p)', page'[q] = page'[p] PROVE FALSE
  <2>1. Holds(q) /\ page'[q] = page[q] /\ lockTtl[page[q]] > 0
    BY <1>3, <1>5 DEF Others
  <2>2. ~(Holds(p) /\ page'[p] = page[p])
    BY <1>5, <2>1 DEF Inv, Single
  <2>3. lockTtl[page'[p]] = 0
    BY <1>5, <2>2 DEF Holds
  <2>4. QED  BY <1>5, <2>1, <2>3
<1>6. Single'
  <2> SUFFICES ASSUME NEW q \in Procs, NEW x \in Procs, Holds(q)', Holds(x)', page'[q] = page'[x],
                      q # x
               PROVE  FALSE
    BY DEF Single
  <2>1. CASE q # p /\ x # p
    <3>1. Holds(q) /\ Holds(x) /\ page[q] = page[x]
      BY <2>1 DEF Others
    <3>2. QED  BY <3>1 DEF Inv, Single
  <2>2. QED  BY <1>5, <2>1
<1>7. QED  BY <1>1, <1>2, <1>4, <1>6 DEF Inv

\* What a step leaves of the other winners, when it leaves the locks alone.
LEMMA OthersHold ==
  ASSUME Inv, NEW p \in Procs, Others(p), UNCHANGED lock
  PROVE  \A q \in Procs \ {p} :
           Holds(q)' => Holds(q) /\ lockTtl'[page[q]] >= lockTtl[page[q]]
<1>1. \A q \in Procs : page[q] \in Pages /\ lockTtl[page[q]] \in Int
  BY DEF Inv, Types
<1>2. \A q \in Procs \ {p} : Holds(q)' <=> Holds(q)
  BY DEF Others, Holds, Lost, lock
<1>3. QED  BY <1>1, <1>2 DEF lock

\* Whoever replies has nothing left of its computation.
LEMMA ResetLocals ==
  ASSUME Types, NEW p \in Procs, Reset(p)
  PROVE  /\ owns' \in [Procs -> BOOLEAN] /\ slept' \in [Procs -> BOOLEAN]
         /\ polls' \in [Procs -> 0..MaxPolls] /\ delay' \in [Procs -> 0..MaxDelay]
         /\ ~owns'[p] /\ delay'[p] = 0
         /\ \A q \in Procs \ {p} : owns'[q] = owns[q] /\ delay'[q] = delay[q]
BY Bounds DEF Types, Reset

LEMMA GotoType ==
  ASSUME Types, NEW p \in Procs, NEW l, Goto(p, l),
         l \in {"idle", "get", "lock", "poll", "compute", "store", "unlock", "sent"}
  PROVE  /\ pc' \in [Procs -> {"idle", "get", "lock", "poll", "compute", "store", "unlock", "sent"}]
         /\ pc'[p] = l /\ \A q \in Procs \ {p} : pc'[q] = pc[q]
BY DEF Types, Goto

-----------------------------------------------------------------------------
(* The steps *)

LEMMA FailInv ==
  ASSUME Inv, NEW p \in Procs, Fail(p),
         ttl' \in [Pages -> 0..CacheTtl], cached' \in [Pages -> 0..MaxAge],
         \A k \in Pages : ttl'[k] > 0 => cached'[k] + ttl'[k] <= CacheTtl + MaxDelay
  PROVE  Inv'
<1>1. Goto(p, "idle") /\ Reset(p) /\ UNCHANGED <<page, result, lock>>
  BY DEF Fail
<1>2. Types
  BY DEF Inv
<1>3. pc'[p] = "idle" /\ Types' /\ Others(p) /\ ~owns'[p] /\ delay'[p] = 0
  BY <1>1, <1>2, ResetLocals, GotoType DEF Types, Others, lock
<1>4. \A q \in Procs \ {p} :
        Holds(q)' => Holds(q) /\ lockTtl'[page[q]] >= lockTtl[page[q]]
  BY <1>1, <1>3, OthersHold
<1>5. QED  BY <1>3, <1>4, OneMoves DEF Computing

LEMMA HitInv ==
  ASSUME Inv, NEW p \in Procs, Hit(p), UNCHANGED <<page, lock>>
  PROVE  Inv'
<1>1. /\ Goto(p, "sent") /\ Reset(p) /\ cached' = cached /\ ttl[page[p]] > 0
      /\ result' = [result EXCEPT ![p] = cached[page[p]]]
  BY DEF Hit, Reply, Cached
<1>2. Types /\ page[p] \in Pages
  BY DEF Inv, Types
<1>3. ttl' = ttl
  BY <1>2 DEF Hit, LeftAfterHit, Types
<1>4. pc'[p] = "sent" /\ Types' /\ Others(p) /\ ~owns'[p] /\ delay'[p] = 0
  BY <1>1, <1>2, <1>3, ResetLocals, GotoType DEF Types, Others, lock
<1>5. cached[page[p]] + ttl[page[p]] <= CacheTtl + MaxDelay
  BY <1>1, <1>2 DEF Inv, Recent
<1>6. result'[p] <= CacheTtl + MaxDelay
  BY <1>1, <1>2, <1>5, Bounds DEF Types
<1>7. \A q \in Procs \ {p} :
        Holds(q)' => Holds(q) /\ lockTtl'[page[q]] >= lockTtl[page[q]]
  BY <1>4, OthersHold
<1>8. \A k \in Pages : ttl'[k] > 0 => cached'[k] + ttl'[k] <= CacheTtl + MaxDelay
  BY <1>1, <1>3 DEF Inv, Recent
<1>9. QED  BY <1>4, <1>6, <1>7, <1>8, OneMoves DEF Computing

\* A step of p that leaves cache and locks alone, and computes nothing.
LEMMA QuietInv ==
  ASSUME Inv, Types', NEW p \in Procs, Others(p), UNCHANGED <<store, lock>>,
         ~owns'[p], delay'[p] = 0,
         pc'[p] \in {"get", "lock", "poll", "compute"}
  PROVE  Inv'
<1>1. \A q \in Procs \ {p} :
        Holds(q)' => Holds(q) /\ lockTtl'[page[q]] >= lockTtl[page[q]]
  BY OthersHold
<1>2. \A k \in Pages : ttl'[k] > 0 => cached'[k] + ttl'[k] <= CacheTtl + MaxDelay
  BY DEF Inv, Recent, store
<1>3. QED  BY <1>1, <1>2, OneMoves

\* Who is not computing owns nothing and has spent nothing.
LEMMA AtRest ==
  ASSUME Inv, NEW p \in Procs, pc[p] \notin Computing
  PROVE  ~owns[p] /\ delay[p] = 0
BY DEF Inv, Clocks

LEMMA ArriveInv ==
  ASSUME Inv, NEW p \in Procs, NEW k \in Pages, Arrive(p, k) PROVE Inv'
<1>1. Types /\ Goto(p, "get") /\ UNCHANGED <<owns, polls, slept, delay, store, lock>>
      /\ page' = [page EXCEPT ![p] = k] /\ result' = [result EXCEPT ![p] = 0]
  BY DEF Inv, Arrive, counters
<1>2. Types' /\ Others(p) /\ pc'[p] = "get"
  BY <1>1, GotoType, Bounds DEF Types, Others, store, lock
<1>3. ~owns[p] /\ delay[p] = 0
  BY AtRest DEF Arrive, Computing
<1>4. QED  BY <1>1, <1>2, <1>3, QuietInv

LEMMA GetInv ==
  ASSUME Inv, NEW p \in Procs, Get(p) PROVE Inv'
<1>1. CASE Hit(p)
  BY <1>1, HitInv DEF Get
<1>2. CASE ~Hit(p)
  <2>1. PICK l \in {"lock", "compute"} : Goto(p, l)
    BY <1>2 DEF Get
  <2>2. Types /\ UNCHANGED <<page, owns, polls, slept, result, delay, store, lock>>
    BY <1>2 DEF Inv, Get, locals
  <2>3. Types' /\ Others(p) /\ pc'[p] = l
    BY <2>1, <2>2, GotoType DEF Types, Others, store, lock
  <2>4. ~owns[p] /\ delay[p] = 0
    BY AtRest DEF Get, Computing
  <2>5. QED  BY <2>2, <2>3, <2>4, QuietInv
<1>3. QED  BY <1>1, <1>2

\* A lock is taken only where there is none.
LEMMA LockInv ==
  ASSUME Inv, NEW p \in Procs, Lock(p) PROVE Inv'
<1> DEFINE k == page[p]
<1>1. Types /\ k \in Pages /\ ~owns[p] /\ delay[p] = 0
      /\ UNCHANGED <<page, polls, slept, delay, result, cached, ttl>>
  BY AtRest DEF Inv, Types, Lock, Computing, counters, store
<1>2. lockTtl' = lockTtl \/ (lockTtl[k] = 0 /\ lockTtl' = [lockTtl EXCEPT ![k] = LockTtl])
  BY DEF Lock, Free
<1>3. lockTtl' \in [Pages -> 0..LockTtl] /\ robbed' \subseteq Procs
  BY <1>1, <1>2, Bounds DEF Types, Lock
<1>4. \A q \in Procs : page[q] \in Pages /\ lockTtl'[page[q]] >= lockTtl[page[q]]
  BY <1>1, <1>2, <1>3, Bounds DEF Types
<1>5. \A j \in Pages : ttl'[j] > 0 => cached'[j] + ttl'[j] <= CacheTtl + MaxDelay
  BY <1>1 DEF Inv, Recent
<1>6. \A q \in Procs \ {p} : owns'[q] = owns[q] /\ (q \in robbed' <=> q \in robbed)
  BY <1>1 DEF Types, Lock
<1>7. \A q \in Procs \ {p} :
        Holds(q)' => Holds(q) /\ lockTtl'[page[q]] >= lockTtl[page[q]]
  BY <1>1, <1>4, <1>6 DEF Holds, Lost
<1>8. CASE /\ Goto(p, "compute") /\ owns' = [owns EXCEPT ![p] = TRUE]
           /\ Free(k) /\ lockTtl' = [lockTtl EXCEPT ![k] = LockTtl]
  <2>1. Types' /\ Others(p) /\ pc'[p] = "compute" /\ owns'[p]
    BY <1>1, <1>3, <1>8, GotoType DEF Types, Others
  <2>2. lockTtl[k] = 0 /\ lockTtl'[k] = LockTtl
    BY <1>1, <1>8 DEF Free, Types
  <2>3. QED  BY <1>1, <1>5, <1>7, <2>1, <2>2, Bounds, OneMoves DEF Computing
<1>9. CASE Goto(p, "poll") /\ UNCHANGED owns
  <2>1. Types' /\ Others(p) /\ pc'[p] = "poll"
    BY <1>1, <1>3, <1>9, GotoType DEF Types, Others
  <2>2. QED  BY <1>1, <1>5, <1>7, <1>9, <2>1, OneMoves DEF Computing
<1>10. QED  BY <1>8, <1>9 DEF Lock

LEMMA PollInv ==
  ASSUME Inv, NEW p \in Procs, Poll(p) PROVE Inv'
<1>1. Types /\ ~owns[p] /\ delay[p] = 0 /\ pc[p] = "poll"
  BY AtRest DEF Inv, Poll, Computing
<1>2. CASE Hit(p)
  BY <1>2, HitInv DEF Poll
<1>3. CASE ~Hit(p)
  <2>1. UNCHANGED <<page, owns, result, delay, store, lock>>
    BY <1>3 DEF Poll, locals
  <2>2. polls' \in [Procs -> 0..MaxPolls] /\ slept' \in [Procs -> BOOLEAN]
    <3>1. CASE UNCHANGED <<polls, slept>>
      BY <1>1, <3>1 DEF Types
    <3>2. CASE /\ polls' = [polls EXCEPT ![p] = IF @ < MaxPolls THEN @ + 1 ELSE @]
               /\ slept' = [slept EXCEPT ![p] = FALSE]
      <4>1. polls[p] \in 0..MaxPolls
        BY <1>1 DEF Types
      <4>2. (IF polls[p] < MaxPolls THEN polls[p] + 1 ELSE polls[p]) \in 0..MaxPolls
        BY <4>1, Bounds
      <4>3. QED  BY <1>1, <3>2, <4>2 DEF Types
    <3>3. QED  BY <1>3, <3>1, <3>2 DEF Poll, locals
  <2>3. UNCHANGED pc \/ Goto(p, "compute")
    BY <1>3 DEF Poll
  <2>4. Types' /\ Others(p) /\ pc'[p] \in {"poll", "compute"}
    <3>1. CASE UNCHANGED pc
      BY <1>1, <2>1, <2>2, <3>1 DEF Types, Others, store, lock
    <3>2. CASE Goto(p, "compute")
      BY <1>1, <2>1, <2>2, <3>2, GotoType DEF Types, Others, store, lock
    <3>3. QED  BY <2>3, <3>1, <3>2
  <2>5. QED  BY <1>1, <2>1, <2>4, QuietInv
<1>4. QED  BY <1>2, <1>3

LEMMA ComputeInv ==
  ASSUME Inv, NEW p \in Procs, Compute(p) PROVE Inv'
<1>1. Types /\ Goto(p, "store") /\ UNCHANGED <<page, owns, polls, slept, delay, cached, ttl, lock>>
      /\ result' = [result EXCEPT ![p] = 0] /\ pc[p] = "compute"
  BY DEF Inv, Compute, counters, store
<1>2. Types' /\ Others(p) /\ pc'[p] = "store" /\ result'[p] = 0
  BY <1>1, GotoType, Bounds DEF Types, Others, lock
<1>3. delay'[p] >= 0
  BY <1>1 DEF Types
<1>4. \A q \in Procs \ {p} :
        Holds(q)' => Holds(q) /\ lockTtl'[page[q]] >= lockTtl[page[q]]
  BY <1>1, <1>2, OthersHold
<1>6. /\ Holds(p)' => Holds(p)
      /\ page'[p] = page[p] /\ delay'[p] = delay[p] /\ lockTtl' = lockTtl
  BY <1>1 DEF Holds, Lost, lock
<1>5. \A k \in Pages : ttl'[k] > 0 => cached'[k] + ttl'[k] <= CacheTtl + MaxDelay
  BY <1>1 DEF Inv, Recent
<1>7. pc'[p] \in Computing /\ pc'[p] # "unlock" /\ pc'[p] # "sent" /\ result'[p] <= delay'[p]
  BY <1>2, <1>3 DEF Computing
<1>8. QED  BY <1>2, <1>4, <1>5, <1>6, <1>7, OneMoves

LEMMA StoreInv ==
  ASSUME Inv, NEW p \in Procs, Store(p) PROVE Inv'
<1> DEFINE k == page[p]
<1>1. Types /\ k \in Pages /\ pc[p] = "store"
      /\ cached' = [cached EXCEPT ![k] = result[p]] /\ ttl' = [ttl EXCEPT ![k] = PageTtl]
  BY DEF Inv, Types, Store
<1>2. /\ result[p] \in 0..MaxAge /\ delay[p] \in 0..MaxDelay /\ result[p] <= delay[p]
  BY <1>1 DEF Inv, Recent, Types
<1>3. cached' \in [Pages -> 0..MaxAge] /\ ttl' \in [Pages -> 0..CacheTtl]
  BY <1>1, <1>2, Bounds DEF Types, PageTtl
<1>4. \A j \in Pages : ttl'[j] > 0 => cached'[j] + ttl'[j] <= CacheTtl + MaxDelay
  <2> SUFFICES ASSUME NEW j \in Pages, ttl'[j] > 0
               PROVE  cached'[j] + ttl'[j] <= CacheTtl + MaxDelay
    OBVIOUS
  <2>1. CASE j = k
    <3>1. cached'[j] = result[p] /\ ttl'[j] = CacheTtl
      BY <1>1, <2>1 DEF Types, PageTtl
    <3>2. QED  BY <1>2, <3>1, Bounds
  <2>2. CASE j # k
    BY <1>1, <2>2 DEF Inv, Recent, Types
  <2>3. QED  BY <2>1, <2>2
<1>5. CASE Fail(p)
  BY <1>3, <1>4, <1>5, FailInv
<1>6. CASE ~Fail(p)
  <2>1. UNCHANGED <<page, lock>>
    BY <1>6 DEF Store
  <2>2. Others(p) => \A q \in Procs \ {p} :
          Holds(q)' => Holds(q) /\ lockTtl'[page[q]] >= lockTtl[page[q]]
    BY <2>1, OthersHold
  <2>3. CASE owns[p]
    <3>1. Goto(p, "unlock") /\ UNCHANGED <<owns, polls, slept, result, delay>>
      BY <1>6, <2>3 DEF Store, locals
    <3>2. Types' /\ Others(p) /\ pc'[p] = "unlock"
      BY <1>1, <1>3, <2>1, <3>1, GotoType DEF Types, Others, lock
    <3>3. /\ Holds(p)' => Holds(p)
          /\ page'[p] = page[p] /\ delay'[p] = delay[p] /\ lockTtl' = lockTtl
      BY <2>1, <3>1 DEF Holds, Lost, lock
    <3>4. pc'[p] \in Computing /\ pc'[p] # "sent" /\ owns'[p] /\ result'[p] <= delay'[p]
      BY <1>2, <2>3, <3>1, <3>2 DEF Computing
    <3>5. QED  BY <1>4, <2>2, <3>2, <3>3, <3>4, OneMoves
  <2>4. CASE ~owns[p]
    <3>1. Goto(p, "sent") /\ Reset(p) /\ UNCHANGED result
      BY <1>6, <2>4 DEF Store, Reply
    <3>2. Types' /\ Others(p) /\ pc'[p] = "sent" /\ ~owns'[p] /\ delay'[p] = 0
      BY <1>1, <1>3, <2>1, <3>1, GotoType, ResetLocals DEF Types, Others, lock
    <3>3. result'[p] <= CacheTtl + MaxDelay
      BY <1>2, <3>1, Bounds
    <3>4. QED  BY <1>4, <2>2, <3>2, <3>3, OneMoves DEF Computing
  <2>5. QED  BY <2>3, <2>4
<1>7. QED  BY <1>5, <1>6

\* Whoever deletes the lock has it, and no other does, or it robs whoever has.
LEMMA UnlockInv ==
  ASSUME Inv, NEW p \in Procs, Unlock(p) PROVE Inv'
<1> DEFINE k == page[p]
<1>1. Types /\ k \in Pages /\ pc[p] = "unlock" /\ owns[p] /\ Goto(p, "sent") /\ Reset(p)
      /\ UNCHANGED <<page, result, cached, ttl>>
  BY DEF Inv, Types, Clocks, Unlock, Reply, store
<1>2. result[p] <= delay[p] /\ delay[p] \in 0..MaxDelay /\ result[p] \in 0..MaxAge
  BY <1>1 DEF Inv, Recent, Types
<1>3. \/ UNCHANGED lock
      \/ /\ lockTtl' = [lockTtl EXCEPT ![k] = 0]
         /\ robbed \subseteq robbed' /\ robbed' \subseteq robbed \cup Procs
         /\ Lost(p) => \A q \in Procs \ {p} : owns[q] /\ page[q] = k => q \in robbed'
  BY DEF Unlock
<1>4. lockTtl' \in [Pages -> 0..LockTtl] /\ robbed' \subseteq Procs
  BY <1>1, <1>3, Bounds DEF Types, lock
<1>5. Types' /\ Others(p) /\ pc'[p] = "sent" /\ ~owns'[p] /\ delay'[p] = 0
  BY <1>1, <1>4, ResetLocals, GotoType DEF Types, Others
<1>6. ASSUME NEW q \in Procs \ {p}, Holds(q)'
      PROVE  Holds(q) /\ lockTtl'[page[q]] >= lockTtl[page[q]]
  <2>1. CASE UNCHANGED lock
    BY <1>5, <1>6, <2>1, OthersHold
  <2>2. CASE /\ lockTtl' = [lockTtl EXCEPT ![k] = 0] /\ robbed \subseteq robbed'
             /\ Lost(p) => \A x \in Procs \ {p} : owns[x] /\ page[x] = k => x \in robbed'
    <3>1. owns[q] /\ delay'[q] = delay[q] /\ q \notin robbed'
      BY <1>5, <1>6 DEF Others, Holds, Lost
    <3>2. Holds(q)
      BY <1>6, <2>2, <3>1 DEF Holds, Lost
    <3>3. page[q] # k
      <4>1. CASE Lost(p)
        BY <2>2, <3>1, <4>1
      <4>2. CASE ~Lost(p)
        BY <1>1, <3>2, <4>2 DEF Inv, Single, Holds
      <4>3. QED  BY <4>1, <4>2
    <3>4. lockTtl'[page[q]] = lockTtl[page[q]] /\ lockTtl[page[q]] \in Int
      BY <1>1, <2>2, <3>3 DEF Types
    <3>5. QED  BY <3>2, <3>4
  <2>3. QED  BY <1>3, <2>1, <2>2
<1>7. result'[p] <= CacheTtl + MaxDelay
  BY <1>1, <1>2, Bounds
<1>8. \A j \in Pages : ttl'[j] > 0 => cached'[j] + ttl'[j] <= CacheTtl + MaxDelay
  BY <1>1 DEF Inv, Recent
<1>9. QED  BY <1>5, <1>6, <1>7, <1>8, OneMoves DEF Computing

LEMMA ErrorInv ==
  ASSUME Inv, NEW p \in Procs, Error(p) PROVE Inv'
<1>1. Fail(p) /\ UNCHANGED <<cached, ttl>>
  BY DEF Error, store
<1>2. QED  BY <1>1, FailInv DEF Inv, Types, Recent

\* All clocks move by one.
LEMMA TickInv ==
  ASSUME Inv, Tick PROVE Inv'
<1>1. Types /\ UNCHANGED <<pc, page, owns, polls, robbed>>
  BY DEF Inv, Tick
<1>2. ASSUME NEW age \in 0..MaxAge PROVE Older(age) \in 0..MaxAge /\ Older(age) <= age + 1
  BY <1>2, Bounds DEF Older
<1>3. \A p \in Procs :
        /\ delay'[p] = IF pc[p] \in Computing THEN delay[p] + 1 ELSE delay[p]
        /\ result'[p] = IF pc[p] = "store" THEN Older(result[p]) ELSE result[p]
        /\ pc[p] \in Computing => delay[p] < MaxDelay
        /\ delay[p] \in 0..MaxDelay /\ result[p] \in 0..MaxAge
  BY <1>1 DEF Tick, Types
<1>4. \A k \in Pages :
        /\ cached'[k] = IF ttl[k] > 1 THEN Older(cached[k]) ELSE 0
        /\ ttl'[k] = IF ttl[k] > 0 THEN ttl[k] - 1 ELSE 0
        /\ lockTtl'[k] = IF lockTtl[k] > 0 THEN lockTtl[k] - 1 ELSE 0
        /\ cached[k] \in 0..MaxAge /\ ttl[k] \in 0..CacheTtl /\ lockTtl[k] \in 0..LockTtl
  BY <1>1 DEF Tick, Types
<1>5. Types'
  <2>1. delay' \in [Procs -> 0..MaxDelay] /\ slept' \in [Procs -> BOOLEAN]
    BY <1>3, Bounds DEF Tick
  <2>2. result' \in [Procs -> 0..MaxAge]
    BY <1>2, <1>3 DEF Tick
  <2>3. cached' \in [Pages -> 0..MaxAge]
    BY <1>2, <1>4, Bounds DEF Tick
  <2>4. ttl' \in [Pages -> 0..CacheTtl] /\ lockTtl' \in [Pages -> 0..LockTtl]
    BY <1>4, Bounds DEF Tick
  <2>5. QED  BY <1>1, <2>1, <2>2, <2>3, <2>4 DEF Types
<1>6. Clocks'
  BY <1>1, <1>3 DEF Inv, Clocks
<1>7. Recent'
  <2>1. ASSUME NEW p \in Procs, pc'[p] \in {"store", "unlock"} PROVE result'[p] <= delay'[p]
    <3>1. delay'[p] = delay[p] + 1 /\ result[p] <= delay[p]
      BY <1>1, <1>3, <2>1 DEF Inv, Recent, Computing
    <3>2. QED  BY <1>2, <1>3, <3>1, Bounds
  <2>2. ASSUME NEW p \in Procs, pc'[p] = "sent" PROVE result'[p] <= CacheTtl + MaxDelay
    BY <1>1, <1>3, <2>2 DEF Inv, Recent
  <2>3. ASSUME NEW k \in Pages, ttl'[k] > 0 PROVE cached'[k] + ttl'[k] <= CacheTtl + MaxDelay
    <3>1. ttl[k] > 1 /\ ttl'[k] = ttl[k] - 1 /\ cached'[k] = Older(cached[k])
      BY <1>4, <2>3, Bounds
    <3>2. cached[k] + ttl[k] <= CacheTtl + MaxDelay
      BY <3>1, <1>4, Bounds DEF Inv, Recent
    <3>3. QED  BY <1>2, <1>4, <3>1, <3>2, Bounds
  <2>4. QED  BY <2>1, <2>2, <2>3 DEF Recent
<1>8. \A p \in Procs : Holds(p)' => Holds(p)
  BY <1>1, <1>3, Bounds DEF Holds, Lost
<1>9. LockOutlives'
  <2> SUFFICES ASSUME NEW p \in Procs, Holds(p)'
               PROVE  lockTtl'[page'[p]] + delay'[p] >= LockTtl
    BY DEF LockOutlives
  <2>1. Holds(p) /\ page'[p] = page[p] /\ page[p] \in Pages /\ pc[p] \in Computing
    BY <1>1, <1>8 DEF Inv, Clocks, Types, Holds
  <2>2. lockTtl[page[p]] + delay[p] >= LockTtl
    BY <2>1 DEF Inv, LockOutlives
  <2>3. lockTtl'[page[p]] >= lockTtl[page[p]] - 1 /\ delay'[p] = delay[p] + 1
    BY <1>3, <1>4, <2>1, Bounds
  <2>4. lockTtl'[page[p]] \in Int /\ lockTtl[page[p]] \in Int /\ delay[p] \in Int
    BY <1>1, <1>5, <2>1 DEF Types
  <2>5. QED  BY <2>1, <2>2, <2>3, <2>4, Bounds
<1>10. Single'
  BY <1>1, <1>8 DEF Inv, Single
<1>11. QED  BY <1>5, <1>6, <1>7, <1>9, <1>10 DEF Inv

LEMMA NextInv == Inv /\ [Next]_vars => Inv'
<1> SUFFICES ASSUME Inv, [Next]_vars PROVE Inv'
  OBVIOUS
<1>1. CASE UNCHANGED vars
  BY <1>1 DEF vars, Inv, Types, Clocks, Recent, LockOutlives, Single, Holds, Lost
<1>2. ASSUME NEW p \in Procs, Serve(p) PROVE Inv'
  BY <1>2, GetInv, LockInv, PollInv, ComputeInv, StoreInv, UnlockInv DEF Serve
<1>3. QED  BY <1>1, <1>2, TickInv, ErrorInv, ArriveInv DEF Next

-----------------------------------------------------------------------------

\* The strengthening is inductive.
THEOREM InvAlways == Spec => []Inv
BY InitInv, NextInv, PTL DEF Spec

\* No reply of the catalog is older than the cache keeps pages plus the time a
\* request may take, however late a page is stored (handlers/catalog.rs), for all
\* values of the constants.
THEOREM PagesAreRecent == Spec => []SentPageIsRecent
<1>1. Inv => SentPageIsRecent
  BY DEF Inv, Recent, SentPageIsRecent
<1>2. QED  BY <1>1, InvAlways, PTL

\* Whatever requests take, and for all values of the constants: the single-flight lock,
\* whose DEL asks nobody whose lock it is (handlers/catalog.rs), has one winner that has
\* not lost it, by taking longer than the key lives or to the DEL of one that had.
THEOREM LockHasOneWinner == Spec => []OneWinner
<1>1. ASSUME Inv, NEW k \in Pages PROVE Cardinality(Holders(k)) <= 1
  <2>1. CASE Holders(k) = {}
    BY <2>1, FS_EmptySet
  <2>2. CASE Holders(k) # {}
    <3>1. PICK w \in Procs : w \in Holders(k)
      BY <2>2 DEF Holders
    <3>2. Holders(k) = {w}
      BY <1>1, <3>1 DEF Inv, Single, Holders, Holds
    <3>3. Cardinality({w}) = 1
      BY FS_Singleton
    <3>4. Cardinality(Holders(k)) <= 1
      BY <3>2, <3>3
    <3>5. QED  BY <3>4
  <2>3. QED  BY <2>1, <2>2
<1>2. Inv => OneWinner
  BY <1>1 DEF Inv, OneWinner
<1>3. QED  BY <1>2, InvAlways, PTL
=============================================================================
