-------------------------- MODULE RateLimit_proofs --------------------------
(***************************************************************************)
(* For any requests, clients, limits and windows, and however many losses: *)
(* a bucket lets less than twice its limit pass in the length of a window, *)
(* and a Retry-After that Redis answered is short of less than one unit.   *)
(*                                                                         *)
(* The first is no inductive invariant by itself.  What a bucket let pass  *)
(* lately is paid for by what it may still let pass before its key goes    *)
(* away (Budget); counted over the stretch since the key got its TTL the   *)
(* two together stay below one limit, counted over a whole window below    *)
(* two, because the request that opened the window is older than its TTL.  *)
(***************************************************************************)
EXTENDS RateLimit, FiniteSetTheorems, TLAPS

Expiring(b) == {r \in Requests : pc[r] = "expire" /\ Bucket(r) = b}

\* What a bucket may still let pass before its key is removed: what is left of
\* the limit, and the request between its INCR and its EXPIRE.
Budget(b) ==
  (IF count[b] < Limit(b) THEN Limit(b) - count[b] ELSE 0)
    + (IF Limit(b) > 0 /\ Expiring(b) # {} THEN 1 ELSE 0)

\* The requests a bucket let pass since its key got the TTL.
SinceTtl(b) == {r \in Requests : passed[b][r] < Window(b) - ttl[b]}

Excused == Cardinality(lost \cap {"incr", "reply"})
Less(n) == IF n > 0 THEN n - 1 ELSE 0

\* A key waits for its TTL as long as its creator lives; nobody else sets one.
Keys ==
  /\ \A b \in Buckets : ttl[b] # NoTtl => count[b] > 0
  /\ \A r \in Requests : pc[r] \in {"expire", "ttl", "throttled"} => left[r] # << >>
  /\ \A r \in Requests : pc[r] = "expire" =>
       got[r] = 1 /\ count[Bucket(r)] > 0 /\ ttl[Bucket(r)] = NoTtl
  /\ \A q, r \in Requests :
       pc[q] = "expire" /\ pc[r] = "expire" /\ Bucket(q) = Bucket(r) => q = r

PaidBy(b) ==
  /\ IsFiniteSet(Recent(b))
  /\ count[b] = 0 => Cardinality(Recent(b)) <= Less(Limit(b)) + Excused
  /\ count[b] > 0 =>
       Cardinality(Recent(b)) + Budget(b) <= Less(2 * Limit(b)) + Excused
  /\ ttl[b] # NoTtl =>
       Cardinality(SinceTtl(b)) + Budget(b) <= Less(Limit(b)) + Excused
Paid == \A b \in Buckets : PaidBy(b)

\* While the key that refused a request lives, the wait is at most a unit shorter.
Waits ==
  \A r \in Requests :
    /\ pc[r] # "throttled" => wait[r] < 0
    /\ pc[r] = "throttled" =>
         LET b == Bucket(r) IN
         /\ refused[r] <= born[b]
         /\ wait[r] >= 0 /\ refused[r] = born[b] /\ count[b] > 0 =>
              ttl[b] # NoTtl /\ ttl[b] <= wait[r] + 1

Inv == Types /\ Keys /\ Paid /\ Waits

-----------------------------------------------------------------------------
(* Counting *)

LEMMA AtMostOneMore ==
  ASSUME NEW S, IsFiniteSet(S), NEW T, NEW r, NEW cost \in {0, 1},
         T \subseteq (IF cost = 0 THEN S ELSE S \cup {r})
  PROVE  /\ IsFiniteSet(T) /\ Cardinality(T) \in Nat /\ Cardinality(S) \in Nat
         /\ Cardinality(T) <= Cardinality(S) + cost
<1>1. Cardinality(S) \in Nat
  BY FS_CardinalityType
<1>2. PICK U : /\ U = (IF cost = 0 THEN S ELSE S \cup {r})
               /\ IsFiniteSet(U) /\ Cardinality(U) <= Cardinality(S) + cost
  <2>1. IsFiniteSet(S \cup {r}) /\ Cardinality(S \cup {r}) <= Cardinality(S) + 1
    <3>1. /\ IsFiniteSet(S \cup {r})
          /\ Cardinality(S \cup {r}) = IF r \in S THEN Cardinality(S) ELSE Cardinality(S) + 1
      BY FS_AddElement
    <3>2. QED  BY <1>1, <3>1
  <2>2. CASE cost = 0
    BY <1>1, <2>2
  <2>3. CASE cost = 1
    BY <2>1, <2>3
  <2>4. QED  BY <2>2, <2>3
<1>3. T \subseteq U
  BY <1>2
<1>4. IsFiniteSet(T) /\ Cardinality(T) <= Cardinality(U)
  BY <1>2, <1>3, FS_Subset
<1>5. Cardinality(T) \in Nat /\ Cardinality(U) \in Nat
  BY <1>2, <1>4, FS_CardinalityType
<1>6. QED  BY <1>1, <1>2, <1>4, <1>5

LEMMA TwoLosses == ASSUME NEW S PROVE IsFiniteSet(S \cap {"incr", "reply"})
<1>1. IsFiniteSet({"incr"}) /\ IsFiniteSet({"reply"})
  BY FS_Singleton
<1>2. IsFiniteSet({"incr"} \cup {"reply"})
  BY <1>1, FS_Union
<1>3. S \cap {"incr", "reply"} \subseteq {"incr"} \cup {"reply"}
  OBVIOUS
<1>4. QED  BY <1>2, <1>3, FS_Subset

LEMMA ExcusedType == Excused \in Nat /\ Excused' \in Nat
<1>1. IsFiniteSet(lost \cap {"incr", "reply"}) /\ IsFiniteSet(lost' \cap {"incr", "reply"})
  BY TwoLosses
<1>2. QED  BY <1>1, FS_CardinalityType DEF Excused

\* Losses are never forgotten, and another INCR that fails open counts.
LEMMA ExcusedGrows ==
  ASSUME NEW what, what \notin lost, lost' = lost \cup {what}
  PROVE  Excused' = IF what \in {"incr", "reply"} THEN Excused + 1 ELSE Excused
<1> DEFINE S == lost \cap {"incr", "reply"}
           T == lost' \cap {"incr", "reply"}
<1>2. IsFiniteSet(S)
  BY TwoLosses
<1>3. CASE what \in {"incr", "reply"}
  <2>1. T = S \cup {what} /\ what \notin S
    BY <1>3
  <2>2. Cardinality(S \cup {what}) = Cardinality(S) + 1
    <3> HIDE DEF S
    <3>1. QED  BY <1>2, <2>1, FS_AddElement
  <2>3. Cardinality(T) = Cardinality(S) + 1
    BY <2>1, <2>2
  <2>4. QED  BY <1>3, <2>3 DEF Excused
<1>4. CASE what \notin {"incr", "reply"}
  BY <1>4 DEF Excused
<1>5. QED  BY <1>3, <1>4

LEMMA LossGrows ==
  ASSUME NEW what, Loses(what)
  PROVE  Excused' = IF what \in {"incr", "reply"} THEN Excused + 1 ELSE Excused
BY ExcusedGrows DEF Loses

LEMMA BucketFacts ==
  ASSUME Types, NEW b \in Buckets
  PROVE  /\ Limit(b) \in Nat /\ Window(b) \in Nat /\ Window(b) > 0
         /\ count[b] \in Nat /\ born[b] \in Nat /\ ttl[b] \in Int
         /\ ttl[b] = NoTtl \/ (ttl[b] >= 1 /\ ttl[b] <= Window(b))
         /\ passed[b] \in [Requests -> 0..Window(b)]
         /\ Budget(b) \in Nat
<1>1. b[1] \in Scopes
  BY DEF Buckets
<1>2. Limit(b) \in Nat /\ Window(b) \in Nat /\ Window(b) > 0
  <2>1. LimitOf[b[1]] \in Nat /\ WindowOf[b[1]] \in Nat \ {0}
    BY <1>1, LimitsAssumption
  <2>2. \A n \in Nat \ {0} : n > 0
    OBVIOUS
  <2>3. QED  BY <2>1, <2>2 DEF Limit, Window
<1>3. count[b] \in Nat /\ born[b] \in Nat
  BY DEF Types
<1>4. passed[b] \in [Requests -> 0..Window(b)] /\ ttl[b] \in {NoTtl} \cup 1..Window(b)
  BY DEF Types
<1>5. QED  BY <1>2, <1>3, <1>4 DEF Budget, NoTtl

LEMMA BucketFactsNext ==
  ASSUME Types', NEW b \in Buckets
  PROVE  /\ count'[b] \in Nat /\ born'[b] \in Nat /\ ttl'[b] \in Int
         /\ ttl'[b] = NoTtl \/ (ttl'[b] >= 1 /\ ttl'[b] <= Window(b))
         /\ passed'[b] \in [Requests -> 0..Window(b)]
         /\ Budget(b)' \in Nat
<1>1. b[1] \in Scopes
  BY DEF Buckets
<1>2. Limit(b) \in Nat /\ Window(b) \in Nat
  BY <1>1, LimitsAssumption DEF Limit, Window
<1>3. count'[b] \in Nat /\ born'[b] \in Nat
  BY DEF Types
<1>4. passed'[b] \in [Requests -> 0..Window(b)] /\ ttl'[b] \in {NoTtl} \cup 1..Window(b)
  BY DEF Types
<1>5. QED  BY <1>2, <1>3, <1>4 DEF Budget, NoTtl

LEMMA SincePast ==
  ASSUME Types, NEW b \in Buckets, ttl[b] # NoTtl PROVE SinceTtl(b) \subseteq Recent(b)
BY BucketFacts DEF SinceTtl, Recent

\* What a request that passes a bucket, or does not, adds to what passed it.
LEMMA PassCounts ==
  ASSUME Types, NEW b \in Buckets, PaidBy(b), NEW r \in Requests, NEW cost \in {0, 1},
         passed'[b] = IF cost = 0 THEN passed[b] ELSE [passed[b] EXCEPT ![r] = 0]
  PROVE  /\ IsFiniteSet(Recent(b)')
         /\ Cardinality(Recent(b)) \in Nat /\ Cardinality(Recent(b)') \in Nat
         /\ Cardinality(Recent(b)') <= Cardinality(Recent(b)) + cost
         /\ ttl'[b] = ttl[b] /\ ttl[b] # NoTtl =>
              /\ Cardinality(SinceTtl(b)) \in Nat /\ Cardinality(SinceTtl(b)') \in Nat
              /\ Cardinality(SinceTtl(b)') <= Cardinality(SinceTtl(b)) + cost
<1>1. passed[b] \in [Requests -> 0..Window(b)] /\ Window(b) \in Nat /\ ttl[b] \in Int
  BY BucketFacts
<1>2. Recent(b)' \subseteq (IF cost = 0 THEN Recent(b) ELSE Recent(b) \cup {r})
  BY <1>1 DEF Recent, Window
<1>3. IsFiniteSet(Recent(b))
  BY DEF PaidBy
<1>4. ASSUME ttl'[b] = ttl[b], ttl[b] # NoTtl
      PROVE  /\ SinceTtl(b)' \subseteq (IF cost = 0 THEN SinceTtl(b) ELSE SinceTtl(b) \cup {r})
             /\ IsFiniteSet(SinceTtl(b))
  <2>1. IsFiniteSet(SinceTtl(b))
    BY <1>3, <1>4, SincePast, FS_Subset
  <2>2. SinceTtl(b)' \subseteq (IF cost = 0 THEN SinceTtl(b) ELSE SinceTtl(b) \cup {r})
    BY <1>1, <1>4 DEF SinceTtl, Window
  <2>3. QED  BY <2>1, <2>2
<1>5. QED  BY <1>2, <1>3, <1>4, AtMostOneMore

-----------------------------------------------------------------------------
(* What a request pays for *)

LEMMA LessFacts ==
  ASSUME NEW n \in Nat
  PROVE  Less(n) \in Nat /\ Less(2 * n) \in Nat /\ Less(n) <= n /\ 2 * Less(n) <= Less(2 * n)
         /\ Less(n) + n <= Less(2 * n)
BY DEF Less

\* A bucket somebody else was counted in.
LEMMA PaidElsewhere ==
  ASSUME Types, Types', NEW b \in Buckets, PaidBy(b),
         count'[b] = count[b], ttl'[b] = ttl[b], passed'[b] = passed[b],
         Expiring(b)' \subseteq Expiring(b), Excused' >= Excused
  PROVE  PaidBy(b)'
<1>1. Recent(b)' = Recent(b) /\ SinceTtl(b)' = SinceTtl(b)
  BY DEF Recent, SinceTtl, Window
<1>2. Budget(b)' <= Budget(b) /\ Budget(b) \in Nat /\ Budget(b)' \in Nat
  <2>1. Limit(b)' = Limit(b) /\ Limit(b) \in Nat /\ count[b] \in Nat
    BY BucketFacts DEF Limit
  <2>2. QED  BY <2>1 DEF Budget
<1>3. IsFiniteSet(Recent(b)) /\ Cardinality(Recent(b)) \in Nat
      /\ (ttl[b] # NoTtl => Cardinality(SinceTtl(b)) \in Nat)
  <2>1. IsFiniteSet(Recent(b))
    BY DEF PaidBy
  <2>2. ASSUME ttl[b] # NoTtl PROVE IsFiniteSet(SinceTtl(b))
    BY <2>1, <2>2, SincePast, FS_Subset
  <2>3. QED  BY <2>1, <2>2, FS_CardinalityType
<1>4. Less(Limit(b)) \in Nat /\ Less(2 * Limit(b)) \in Nat /\ Excused \in Nat /\ Excused' \in Nat
  BY BucketFacts, LessFacts, ExcusedType
<1>5. Less(Limit(b))' = Less(Limit(b)) /\ Less(2 * Limit(b))' = Less(2 * Limit(b))
  BY DEF Less, Limit
<1>6. QED  BY <1>1, <1>2, <1>3, <1>4, <1>5 DEF PaidBy

\* A step at a bucket that has a key and keeps it: a pass is paid for by the
\* budget or by a loss.
LEMMA PaidHere ==
  ASSUME Types, Types', NEW b \in Buckets, PaidBy(b), NEW r \in Requests, NEW cost \in {0, 1},
         passed'[b] = IF cost = 0 THEN passed[b] ELSE [passed[b] EXCEPT ![r] = 0],
         count[b] > 0, count'[b] > 0,
         cost + Budget(b)' + Excused <= Budget(b) + Excused',
         \/ ttl'[b] = ttl[b]
         \/ ttl'[b] = Window(b) /\ Budget(b)' <= Less(Limit(b))
  PROVE  PaidBy(b)'
<1>1. /\ Limit(b) \in Nat /\ Window(b) \in Nat /\ Budget(b) \in Nat /\ Budget(b)' \in Nat
      /\ count'[b] \in Nat
  BY BucketFacts, BucketFactsNext
<1>2. Less(Limit(b)) \in Nat /\ Less(2 * Limit(b)) \in Nat /\ Excused \in Nat /\ Excused' \in Nat
  BY <1>1, LessFacts, ExcusedType
<1>3. Less(Limit(b))' = Less(Limit(b)) /\ Less(2 * Limit(b))' = Less(2 * Limit(b))
  BY DEF Less, Limit
<1>4. IsFiniteSet(Recent(b)') /\ Cardinality(Recent(b)') + Budget(b)' <= Less(2 * Limit(b)) + Excused'
  BY <1>1, <1>2, PassCounts DEF PaidBy
<1>5. CASE ttl'[b] = ttl[b]
  <2>1. ttl[b] # NoTtl => Cardinality(SinceTtl(b)') + Budget(b)' <= Less(Limit(b)) + Excused'
    <3>1. ASSUME ttl[b] # NoTtl
          PROVE  /\ Cardinality(SinceTtl(b)) \in Nat /\ Cardinality(SinceTtl(b)') \in Nat
                 /\ Cardinality(SinceTtl(b)') <= Cardinality(SinceTtl(b)) + cost
                 /\ Cardinality(SinceTtl(b)) + Budget(b) <= Less(Limit(b)) + Excused
      BY <1>5, <3>1, PassCounts DEF PaidBy
    <3>2. QED  BY <1>1, <1>2, <3>1
  <2>2. QED  BY <1>1, <1>3, <1>4, <1>5, <2>1 DEF PaidBy, NoTtl
<1>6. CASE ttl'[b] = Window(b) /\ Budget(b)' <= Less(Limit(b))
  <2>1. SinceTtl(b)' = {}
    <3>1. passed'[b] \in [Requests -> 0..Window(b)]
      BY BucketFactsNext
    <3>2. QED  BY <1>1, <1>6, <3>1 DEF SinceTtl, Window
  <2>2. Cardinality(SinceTtl(b)') = 0
    BY <2>1, FS_EmptySet
  <2>3. QED  BY <1>1, <1>2, <1>3, <1>4, <1>6, <2>2 DEF PaidBy
<1>7. QED  BY <1>5, <1>6

\* A step at a bucket without a key, which creates one or does not.
LEMMA PaidAnew ==
  ASSUME Types, Types', NEW b \in Buckets, PaidBy(b), NEW r \in Requests, NEW cost \in {0, 1},
         passed'[b] = IF cost = 0 THEN passed[b] ELSE [passed[b] EXCEPT ![r] = 0],
         count[b] = 0, ttl'[b] = NoTtl,
         cost + Excused <= Excused',
         count'[b] > 0 => \/ cost = 0 /\ Budget(b)' <= Limit(b)
                          \/ Budget(b)' <= Less(Limit(b))
  PROVE  PaidBy(b)'
<1>1. /\ Limit(b) \in Nat /\ Budget(b)' \in Nat /\ count'[b] \in Nat
  BY BucketFacts, BucketFactsNext
<1>2. Less(Limit(b)) \in Nat /\ Less(2 * Limit(b)) \in Nat /\ Excused \in Nat /\ Excused' \in Nat
      /\ 2 * Less(Limit(b)) <= Less(2 * Limit(b)) /\ Less(Limit(b)) + Limit(b) <= Less(2 * Limit(b))
  BY <1>1, LessFacts, ExcusedType
<1>3. Less(Limit(b))' = Less(Limit(b)) /\ Less(2 * Limit(b))' = Less(2 * Limit(b))
  BY DEF Less, Limit
<1>4. IsFiniteSet(Recent(b)') /\ Cardinality(Recent(b)') \in Nat
      /\ Cardinality(Recent(b)') <= Less(Limit(b)) + Excused + cost
  BY <1>1, <1>2, PassCounts DEF PaidBy
<1>5. QED  BY <1>1, <1>2, <1>3, <1>4 DEF PaidBy

-----------------------------------------------------------------------------
(* One request moves *)

Others(r) ==
  \A q \in Requests \ {r} :
    /\ pc'[q] = pc[q] /\ left'[q] = left[q] /\ got'[q] = got[q]
    /\ wait'[q] = wait[q] /\ refused'[q] = refused[q]
OtherBuckets(b) ==
  \A c \in Buckets \ {b} :
    count'[c] = count[c] /\ ttl'[c] = ttl[c] /\ born'[c] = born[c] /\ passed'[c] = passed[c]

LEMMA BucketType ==
  ASSUME Types, NEW r \in Requests, left[r] # << >> PROVE Bucket(r) \in Buckets
BY DEF Types, Bucket

LEMMA GotoType ==
  ASSUME Types, NEW r \in Requests,
         NEW l \in {"count", "expire", "ttl", "served", "throttled", "dropped"}, Goto(r, l)
  PROVE  /\ pc' \in [Requests -> {"count", "expire", "ttl", "served", "throttled", "dropped"}]
         /\ pc'[r] = l /\ \A q \in Requests \ {r} : pc'[q] = pc[q]
BY DEF Types, Goto

LEMMA LostType == ASSUME Types, NEW what, Loses(what) PROVE lost' \subseteq Losses
BY DEF Types, Loses

\* What Judge does to a request and to the bucket it stands at.
LEMMA Judged ==
  ASSUME Types, NEW r \in Requests, left[r] # << >>, NEW n, Judge(r, n)
  PROVE  /\ pc' \in [Requests -> {"count", "expire", "ttl", "served", "throttled", "dropped"}]
         /\ left' \in [Requests -> Seq(Buckets)] /\ \A q \in Requests : Len(left'[q]) <= 2
         /\ passed' \in [Buckets -> [Requests -> Nat]]
         /\ \A b \in Buckets, q \in Requests : passed'[b][q] <= Window(b)
         /\ \A q \in Requests \ {r} : pc'[q] = pc[q] /\ left'[q] = left[q]
         /\ \A c \in Buckets \ {Bucket(r)} : passed'[c] = passed[c]
         /\ pc'[r] \in {"count", "ttl", "served"}
         /\ pc'[r] = "ttl" => left'[r] # << >>
         /\ passed'[Bucket(r)] = IF Over(n, Bucket(r)) THEN passed[Bucket(r)]
                                                       ELSE [passed[Bucket(r)] EXCEPT ![r] = 0]
<1>1. Bucket(r) \in Buckets
  BY BucketType
<1>2. CASE Over(n, Bucket(r))
  <2>1. Goto(r, "ttl") /\ UNCHANGED <<left, passed>>
    BY <1>2 DEF Judge
  <2>2. QED  BY <1>2, <2>1, GotoType DEF Types
<1>3. CASE ~Over(n, Bucket(r))
  <2>1. /\ passed' = [passed EXCEPT ![Bucket(r)] = [passed[Bucket(r)] EXCEPT ![r] = 0]]
        /\ left' = [left EXCEPT ![r] = Tail(left[r])]
        /\ \E l \in {"served", "count"} : Goto(r, l)
    BY <1>3 DEF Judge
  <2>2. PICK l \in {"served", "count"} : Goto(r, l)
    BY <2>1
  <2>3. /\ pc' \in [Requests -> {"count", "expire", "ttl", "served", "throttled", "dropped"}]
        /\ pc'[r] = l /\ \A q \in Requests \ {r} : pc'[q] = pc[q]
    BY <2>2, GotoType
  <2>4. Tail(left[r]) \in Seq(Buckets) /\ Len(Tail(left[r])) <= 2
    BY DEF Types
  <2>5. left' \in [Requests -> Seq(Buckets)] /\ (\A q \in Requests : Len(left'[q]) <= 2)
        /\ (\A q \in Requests \ {r} : left'[q] = left[q])
    BY <2>1, <2>4 DEF Types
  <2>6. \A b \in Buckets : passed'[b] = IF b = Bucket(r) THEN [passed[b] EXCEPT ![r] = 0] ELSE passed[b]
    BY <2>1 DEF Types
  <2>7. passed' \in [Buckets -> [Requests -> Nat]]
    BY <1>1, <2>1 DEF Types
  <2>8. \A b \in Buckets, q \in Requests : passed'[b][q] <= Window(b)
    <3> SUFFICES ASSUME NEW b \in Buckets, NEW q \in Requests PROVE passed'[b][q] <= Window(b)
      OBVIOUS
    <3>1. passed[b] \in [Requests -> 0..Window(b)] /\ Window(b) \in Nat
      BY BucketFacts
    <3>2. passed'[b][q] = passed[b][q] \/ passed'[b][q] = 0
      BY <2>6, <3>1
    <3>3. passed[b][q] \in 0..Window(b)
      BY <3>1
    <3>4. QED  BY <3>1, <3>2, <3>3
  <2>9. QED  BY <1>1, <1>3, <2>3, <2>5, <2>6, <2>7, <2>8
<1>4. QED  BY <1>2, <1>3

LEMMA PaidStep ==
  ASSUME Types, Types', Paid, NEW r \in Requests, NEW b \in Buckets, Others(r), OtherBuckets(b),
         pc'[r] = "expire" => Bucket(r)' = b, Excused' >= Excused, PaidBy(b)'
  PROVE  Paid'
<1> SUFFICES ASSUME NEW c \in Buckets, c # b PROVE PaidBy(c)'
  BY DEF Paid
<1>1. Expiring(c)' \subseteq Expiring(c)
  BY DEF Expiring, Others, Bucket
<1>2. PaidBy(c) /\ count'[c] = count[c] /\ ttl'[c] = ttl[c] /\ passed'[c] = passed[c]
  BY DEF Paid, OtherBuckets
<1>3. QED  BY <1>1, <1>2, PaidElsewhere

LEMMA KeysStep ==
  ASSUME Types, Types', Keys, NEW r \in Requests, NEW b \in Buckets, Others(r), OtherBuckets(b),
         count'[b] >= count[b],
         \/ ttl'[b] = ttl[b]
         \/ count'[b] > 0 /\ \A q \in Requests \ {r} : ~(pc[q] = "expire" /\ Bucket(q) = b),
         pc'[r] \in {"expire", "ttl", "throttled"} => left'[r] # << >>,
         pc'[r] = "expire" =>
           Bucket(r)' = b /\ got'[r] = 1 /\ count[b] = 0 /\ count'[b] > 0 /\ ttl'[b] = NoTtl
  PROVE  Keys'
<1>0. count[b] \in Nat /\ count'[b] \in Nat
  BY BucketFacts, BucketFactsNext
<1>1. \A c \in Buckets : ttl'[c] # NoTtl => count'[c] > 0
  <2> SUFFICES ASSUME NEW c \in Buckets, ttl'[c] # NoTtl PROVE count'[c] > 0
    OBVIOUS
  <2>1. CASE c = b
    BY <1>0, <2>1 DEF Keys
  <2>2. CASE c # b
    BY <2>2 DEF Keys, OtherBuckets
  <2>3. QED  BY <2>1, <2>2
<1>2. \A q \in Requests : pc'[q] \in {"expire", "ttl", "throttled"} => left'[q] # << >>
  BY DEF Keys, Others
<1>3. ASSUME NEW q \in Requests, q # r, pc'[q] = "expire"
      PROVE  /\ pc[q] = "expire" /\ Bucket(q)' = Bucket(q) /\ Bucket(q) \in Buckets
             /\ got'[q] = 1 /\ count[Bucket(q)] > 0 /\ ttl[Bucket(q)] = NoTtl
             /\ count'[Bucket(q)] > 0 /\ ttl'[Bucket(q)] = NoTtl
  <2>1. pc[q] = "expire" /\ left'[q] = left[q] /\ got'[q] = got[q]
    BY <1>3 DEF Others
  <2>2. Bucket(q)' = Bucket(q) /\ Bucket(q) \in Buckets
    BY <2>1, BucketType DEF Bucket, Keys
  <2>3. got[q] = 1 /\ count[Bucket(q)] > 0 /\ ttl[Bucket(q)] = NoTtl
    BY <2>1 DEF Keys
  <2>4. count'[Bucket(q)] > 0 /\ ttl'[Bucket(q)] = NoTtl
    BY <1>0, <1>3, <2>1, <2>2, <2>3 DEF OtherBuckets
  <2>5. QED  BY <2>1, <2>2, <2>3, <2>4
<1>4. \A q \in Requests : pc'[q] = "expire" =>
        got'[q] = 1 /\ count'[Bucket(q)'] > 0 /\ ttl'[Bucket(q)'] = NoTtl
  BY <1>3
<1>5. ASSUME NEW q \in Requests, NEW s \in Requests, pc'[q] = "expire", pc'[s] = "expire",
             Bucket(q)' = Bucket(s)'
      PROVE  q = s
  <2>1. CASE q # r /\ s # r
    BY <1>3, <1>5, <2>1 DEF Keys
  <2>2. CASE q = r /\ s # r
    BY <1>3, <1>5, <2>2
  <2>3. CASE q # r /\ s = r
    BY <1>3, <1>5, <2>3
  <2>4. QED  BY <2>1, <2>2, <2>3
<1>6. QED  BY <1>1, <1>2, <1>4, <1>5 DEF Keys, Bucket

LEMMA WaitsStep ==
  ASSUME Types, Types', Keys, Waits, NEW r \in Requests, NEW b \in Buckets,
         Others(r), OtherBuckets(b),
         \/ born'[b] = born[b] /\ ttl'[b] = ttl[b] /\ (count'[b] > 0 => count[b] > 0)
         \/ born'[b] > born[b]
         \/ born'[b] = born[b] /\ pc[r] = "expire" /\ Bucket(r) = b,
         pc'[r] # "throttled" /\ wait'[r] < 0
  PROVE  Waits'
<1> SUFFICES ASSUME NEW q \in Requests, q # r, pc'[q] = "throttled"
             PROVE  LET c == Bucket(q)' IN
                    /\ refused'[q] <= born'[c]
                    /\ wait'[q] >= 0 /\ refused'[q] = born'[c] /\ count'[c] > 0 =>
                         ttl'[c] # NoTtl /\ ttl'[c] <= wait'[q] + 1
  <2>1. ASSUME NEW q \in Requests, pc'[q] # "throttled" PROVE wait'[q] < 0
    BY <2>1 DEF Others, Waits
  <2>2. QED  BY <2>1 DEF Waits, Bucket
<1>1. pc[q] = "throttled" /\ Bucket(q)' = Bucket(q) /\ wait'[q] = wait[q] /\ refused'[q] = refused[q]
  BY DEF Others, Bucket
<1>2. Bucket(q) \in Buckets
  BY <1>1, BucketType DEF Keys
<1>3. refused[q] \in Nat /\ wait[q] \in Int
  BY DEF Types
<1>4. born[Bucket(q)] \in Nat /\ born'[Bucket(q)] \in Nat
  BY <1>2, BucketFacts, BucketFactsNext
<1>5. refused[q] <= born[Bucket(q)]
  BY <1>1 DEF Waits
<1>6. CASE Bucket(q) # b
  BY <1>1, <1>2, <1>6 DEF Waits, OtherBuckets
<1>7. CASE Bucket(q) = b /\ born'[b] > born[b]
  BY <1>1, <1>3, <1>4, <1>5, <1>7
<1>8. CASE Bucket(q) = b /\ born'[b] = born[b] /\ ttl'[b] = ttl[b] /\ (count'[b] > 0 => count[b] > 0)
  BY <1>1, <1>8 DEF Waits
<1>9. CASE Bucket(q) = b /\ born'[b] = born[b] /\ pc[r] = "expire" /\ Bucket(r) = b
  <2>1. ttl[b] = NoTtl /\ count[b] > 0
    BY <1>9 DEF Keys
  <2>2. ~(wait[q] >= 0 /\ refused[q] = born[b])
    BY <1>1, <1>9, <2>1 DEF Waits
  <2>3. QED  BY <1>1, <1>5, <1>9, <2>2
<1>10. QED  BY <1>6, <1>7, <1>8, <1>9

-----------------------------------------------------------------------------
(* The steps *)

LEMMA InitInv == Init => Inv
<1> SUFFICES ASSUME Init PROVE Inv
  OBVIOUS
<1>1. \A b \in Buckets : Limit(b) \in Nat /\ Window(b) \in Nat /\ Window(b) > 0
  <2>1. \A b \in Buckets : b[1] \in Scopes
    BY DEF Buckets
  <2>2. \A s \in Scopes : LimitOf[s] \in Nat /\ WindowOf[s] \in Nat /\ WindowOf[s] > 0
    BY LimitsAssumption
  <2>3. QED  BY <2>1, <2>2 DEF Limit, Window
<1>2. left \in [Requests -> Seq(Buckets)] /\ \A r \in Requests : Len(left[r]) <= 2
  <2>1. PICK kind \in [Requests -> Kinds], client \in [Requests -> Clients] :
          left = [r \in Requests |-> BucketsOf(kind[r], client[r])]
    BY DEF Init
  <2>2. ASSUME NEW k \in Kinds, NEW c \in Clients
        PROVE  BucketsOf(k, c) \in Seq(Buckets) /\ Len(BucketsOf(k, c)) <= 2
    <3>1. \A s \in Scopes : <<s, c>> \in Buckets
      BY DEF Buckets
    <3>2. CASE k = "exempt"
      BY <3>2 DEF BucketsOf
    <3>3. CASE k = "anon"
      BY <3>1, <3>3, KindsAssumption DEF BucketsOf
    <3>4. CASE k = "user"
      BY <3>1, <3>4, KindsAssumption DEF BucketsOf
    <3>5. CASE k = "purchase"
      BY <3>1, <3>5, KindsAssumption DEF BucketsOf
    <3>6. QED  BY <3>2, <3>3, <3>4, <3>5, KindsAssumption
  <2>3. QED  BY <2>1, <2>2
<1>3. Types
  BY <1>1, <1>2 DEF Init, Types, NoTtl
<1>4. Keys
  BY DEF Init, Keys
<1>5. Waits
  BY DEF Init, Waits, NoTtl
<1>6. Paid
  <2> SUFFICES ASSUME NEW b \in Buckets PROVE PaidBy(b)
    BY DEF Paid
  <2>1. Recent(b) = {}
    BY <1>1 DEF Recent, Init
  <2>2. IsFiniteSet(Recent(b)) /\ Cardinality(Recent(b)) = 0
    BY <2>1, FS_EmptySet
  <2>3. count[b] = 0 /\ ttl[b] = NoTtl
    BY DEF Init
  <2>4. QED  BY <1>1, <2>2, <2>3, LessFacts, ExcusedType DEF PaidBy
<1>7. QED  BY <1>3, <1>4, <1>5, <1>6 DEF Inv

\* A step that neither Redis nor a bucket notices.
LEMMA QuietInv ==
  ASSUME Inv, Types', NEW r \in Requests, Others(r), UNCHANGED <<redis, passed>>,
         Excused' >= Excused, pc'[r] # "expire",
         pc'[r] \in {"ttl", "throttled"} => left'[r] # << >>,
         pc'[r] # "throttled" => wait'[r] < 0,
         pc'[r] = "throttled" =>
           LET b == Bucket(r)' IN
           refused'[r] <= born[b] /\ (wait'[r] >= 0 /\ count[b] > 0 => ttl[b] # NoTtl /\ ttl[b] <= wait'[r] + 1)
  PROVE  Inv'
<1>1. Types /\ Keys /\ Paid /\ Waits /\ UNCHANGED <<count, ttl, born, passed>>
  BY DEF Inv, redis
<1>2. Paid'
  <2> SUFFICES ASSUME NEW b \in Buckets PROVE PaidBy(b)'
    BY DEF Paid
  <2>1. Expiring(b)' \subseteq Expiring(b)
    BY DEF Expiring, Others, Bucket
  <2>2. QED  BY <1>1, <2>1, PaidElsewhere DEF Paid
<1>3. Keys'
  BY <1>1 DEF Keys, Others, Bucket
<1>4. Waits'
  BY <1>1 DEF Waits, Others, Bucket
<1>5. QED  BY <1>2, <1>3, <1>4 DEF Inv

LEMMA ExemptInv ==
  ASSUME Inv, NEW r \in Requests, Exempt(r) PROVE Inv'
<1>1. Types /\ Waits /\ Goto(r, "served") /\ pc[r] = "count"
      /\ UNCHANGED <<left, got, redis, passed, wait, refused, lost>>
  BY DEF Inv, Exempt, answers
<1>2. Types' /\ Others(r) /\ pc'[r] = "served"
  BY <1>1, GotoType DEF Types, Others, redis
<1>3. wait'[r] < 0
  BY <1>1 DEF Waits
<1>4. Excused' >= Excused
  BY <1>1, ExcusedType DEF Excused
<1>5. QED  BY <1>1, <1>2, <1>3, <1>4, QuietInv

LEMMA DropInv ==
  ASSUME Inv, NEW r \in Requests, Drop(r) PROVE Inv'
<1>1. Types /\ Waits /\ Goto(r, "dropped") /\ pc[r] \in {"expire", "ttl"} /\ Loses("drop")
      /\ got' = [got EXCEPT ![r] = 0] /\ UNCHANGED <<left, redis, passed, wait, refused>>
  BY DEF Inv, Drop, answers
<1>2. Types' /\ Others(r) /\ pc'[r] = "dropped"
  BY <1>1, GotoType, LostType DEF Types, Others, redis
<1>3. wait'[r] < 0
  BY <1>1 DEF Waits
<1>4. Excused' >= Excused
  BY <1>1, ExcusedType, LossGrows
<1>5. QED  BY <1>1, <1>2, <1>3, <1>4, QuietInv

LEMMA ThrottleInv ==
  ASSUME Inv, NEW r \in Requests, Throttle(r) PROVE Inv'
<1> DEFINE b == Bucket(r)
<1>1. Types /\ Waits /\ Goto(r, "throttled") /\ pc[r] = "ttl" /\ left[r] # << >>
      /\ refused' = [refused EXCEPT ![r] = born[b]]
      /\ UNCHANGED <<left, got, count, ttl, born, passed>>
  BY DEF Inv, Keys, Throttle, redis
<1>2. b \in Buckets /\ count[b] \in Nat /\ born[b] \in Nat /\ ttl[b] \in Int
      /\ (ttl[b] = NoTtl \/ ttl[b] >= 1)
  BY <1>1, BucketType, BucketFacts
<1>3. lost' \subseteq Losses /\ Excused' >= Excused
  <2>1. CASE UNCHANGED lost
    BY <1>1, <2>1, ExcusedType DEF Types, Excused
  <2>2. CASE Loses("ttl")
    BY <1>1, <2>2, LostType, LossGrows, ExcusedType
  <2>3. QED  BY <2>1, <2>2 DEF Throttle
<1>4. PICK w \in Int : /\ wait' = [wait EXCEPT ![r] = w]
                       /\ w < 0 \/ (w \in {ttl[b], ttl[b] - 1} /\ ttl[b] # NoTtl)
  <2>1. CASE \E seconds \in TtlReplies(b) : wait' = [wait EXCEPT ![r] = seconds]
    <3>1. PICK v \in TtlReplies(b) : wait' = [wait EXCEPT ![r] = v]
      BY <2>1
    <3>2. v \in Int /\ (v < 0 \/ (v \in {ttl[b], ttl[b] - 1} /\ ttl[b] # NoTtl))
      BY <1>2 DEF NoTtl, TtlReplies
    <3>3. QED  BY <3>1, <3>2
  <2>2. CASE UNCHANGED wait
    <3>1. wait' = [wait EXCEPT ![r] = wait[r]] /\ wait[r] < 0 /\ wait[r] \in Int
      BY <1>1, <2>2 DEF Waits, Types
    <3>2. QED  BY <3>1
  <2>3. QED  BY <2>1, <2>2 DEF Throttle
<1>5. wait' \in [Requests -> Int] /\ wait'[r] = w /\ \A q \in Requests \ {r} : wait'[q] = wait[q]
  BY <1>1, <1>4 DEF Types
<1>6. Types' /\ Others(r) /\ pc'[r] = "throttled" /\ refused'[r] = born[b]
  BY <1>1, <1>2, <1>3, <1>5, GotoType DEF Types, Others
<1>7. wait'[r] >= 0 /\ count[b] > 0 => ttl[b] # NoTtl /\ ttl[b] <= wait'[r] + 1
  BY <1>2, <1>4, <1>5
<1>8. Bucket(r)' = b
  BY <1>1 DEF Bucket
<1>9. QED  BY <1>1, <1>2, <1>3, <1>6, <1>7, <1>8, QuietInv DEF redis

\* INCR: the first of a window has the whole limit before it.
LEMMA IncrInv ==
  ASSUME Inv, NEW r \in Requests, Incr(r) PROVE Inv'
<1>0. PICK b \in Buckets : b = Bucket(r)
  BY BucketType DEF Inv, Keys, Incr
<1> DEFINE n == count[b] + 1
<1>1. /\ b = Bucket(r) /\ Types /\ Keys /\ Paid /\ Waits /\ pc[r] = "count" /\ left[r] # << >>
      /\ count' = [count EXCEPT ![b] = n]
      /\ born' = (IF n = 1 THEN [born EXCEPT ![b] = born[b] + 1] ELSE born)
      /\ UNCHANGED <<ttl, wait, refused, lost>>
  BY <1>0 DEF Inv, Incr, answers
<1>2. b \in Buckets /\ Limit(b) \in Nat /\ count[b] \in Nat /\ born[b] \in Nat
  BY <1>1, BucketType, BucketFacts
<1>3. /\ count' \in [Buckets -> Nat] /\ born' \in [Buckets -> Nat]
      /\ count'[b] = n /\ (n = 1 => born'[b] = born[b] + 1) /\ (n # 1 => born'[b] = born[b])
      /\ \A c \in Buckets \ {b} : count'[c] = count[c] /\ born'[c] = born[c]
  <2>0. count \in [Buckets -> Nat] /\ born \in [Buckets -> Nat]
    BY <1>1 DEF Types
  <2>1. n \in Nat /\ count \in [Buckets -> Nat] /\ born \in [Buckets -> Nat]
    BY <1>2, <2>0
  <2>2. CASE n = 1
    BY <1>1, <1>2, <2>1, <2>2
  <2>3. CASE n # 1
    BY <1>1, <1>2, <2>1, <2>3
  <2>4. QED  BY <2>2, <2>3
<1>4. wait'[r] < 0 /\ Excused' = Excused /\ Excused \in Nat
  BY <1>1, ExcusedType DEF Waits, Excused
<1>5. CASE n = 1
  <2>1. Goto(r, "expire") /\ got' = [got EXCEPT ![r] = 1] /\ UNCHANGED <<left, passed>>
    BY <1>1, <1>5 DEF Incr, FirstInWindow
  <2>2. Types' /\ Others(r) /\ OtherBuckets(b) /\ pc'[r] = "expire" /\ got'[r] = 1
    BY <1>1, <1>3, <2>1, GotoType DEF Types, Others, OtherBuckets
  <2>3. count[b] = 0 /\ count'[b] = 1 /\ ttl[b] = NoTtl /\ ttl'[b] = NoTtl /\ Bucket(r)' = b
    BY <1>1, <1>2, <1>3, <1>5, <2>1 DEF Keys, Bucket
  <2>4. Keys'
    BY <1>1, <1>2, <2>1, <2>2, <2>3, KeysStep
  <2>5. Waits'
    BY <1>1, <1>2, <1>3, <1>4, <1>5, <2>2, WaitsStep
  <2>6. Budget(b)' <= Limit(b)
    BY <1>2, <2>3 DEF Budget, Limit
  <2>7. PaidBy(b)'
    <3> DEFINE cost == 0
    <3>1. /\ cost \in {0, 1} /\ PaidBy(b) /\ cost + Excused <= Excused'
          /\ passed'[b] = IF cost = 0 THEN passed[b] ELSE [passed[b] EXCEPT ![r] = 0]
          /\ count'[b] > 0 => \/ cost = 0 /\ Budget(b)' <= Limit(b)
                              \/ Budget(b)' <= Less(Limit(b))
      BY <1>1, <1>2, <1>4, <2>1, <2>6 DEF Paid
    <3> HIDE DEF cost
    <3>2. QED  BY <1>1, <1>2, <2>2, <2>3, <3>1, PaidAnew
  <2>8. Paid'
    BY <1>1, <1>2, <1>4, <2>2, <2>3, <2>7, PaidStep
  <2>9. QED  BY <2>2, <2>4, <2>5, <2>8 DEF Inv
<1>6. CASE n # 1
  <2>1. Judge(r, n) /\ UNCHANGED got
    BY <1>1, <1>6 DEF Incr, FirstInWindow
  <2>2. Types' /\ Others(r) /\ OtherBuckets(b) /\ pc'[r] \in {"count", "ttl", "served"}
        /\ (pc'[r] = "ttl" => left'[r] # << >>)
    BY <1>1, <1>3, <2>1, Judged DEF Types, Others, OtherBuckets
  <2>3. Keys'
    BY <1>1, <1>2, <1>3, <2>2, KeysStep
  <2>4. Waits'
    BY <1>1, <1>2, <1>3, <1>4, <1>6, <2>2, WaitsStep
  <2>5. PICK cost \in {0, 1} : /\ cost = 0 <=> Over(n, b)
                               /\ passed'[b] = IF cost = 0 THEN passed[b]
                                                          ELSE [passed[b] EXCEPT ![r] = 0]
    BY <1>1, <2>1, Judged
  <2>6. Expiring(b)' = Expiring(b)
    BY <1>1, <2>2 DEF Expiring, Others, Bucket
  <2>7. cost + Budget(b)' <= Budget(b)
    BY <1>2, <1>3, <2>5, <2>6 DEF Budget, Over, Limit
  <2>8. count[b] > 0 /\ count'[b] > 0 /\ ttl'[b] = ttl[b]
    BY <1>1, <1>2, <1>3, <1>6
  <2>9. PaidBy(b)'
    <3>1. PaidBy(b) /\ cost + Budget(b)' + Excused <= Budget(b) + Excused'
      BY <1>1, <1>2, <1>4, <2>2, <2>7, BucketFacts, BucketFactsNext DEF Paid
    <3>2. QED  BY <1>1, <1>2, <2>2, <2>5, <2>8, <3>1, PaidHere
  <2>10. Paid'
    BY <1>1, <1>2, <1>4, <2>2, <2>9, PaidStep
  <2>11. QED  BY <2>2, <2>3, <2>4, <2>10 DEF Inv
<1>7. QED  BY <1>5, <1>6

\* A failed INCR lets the request pass at the expense of the loss.
LEMMA IncrLostInv ==
  ASSUME Inv, NEW r \in Requests, IncrLost(r) PROVE Inv'
<1>0. PICK b \in Buckets : b = Bucket(r)
  BY BucketType DEF Inv, Keys, IncrLost
<1>1. /\ b = Bucket(r) /\ Types /\ Keys /\ Paid /\ Waits /\ pc[r] = "count" /\ left[r] # << >>
      /\ Judge(r, 0) /\ UNCHANGED <<ttl, got, wait, refused>>
  BY <1>0 DEF Inv, IncrLost, answers, redis
<1>2. b \in Buckets /\ Limit(b) \in Nat /\ count[b] \in Nat /\ born[b] \in Nat
  BY <1>1, BucketType, BucketFacts
<1>3. Excused' = Excused + 1 /\ Excused \in Nat /\ lost' \subseteq Losses
  <2>1. PICK what \in {"incr", "reply"} : Loses(what)
    BY DEF IncrLost
  <2>2. QED  BY <1>1, <2>1, LossGrows, LostType, ExcusedType
<1>4. /\ count' \in [Buckets -> Nat] /\ born' \in [Buckets -> Nat]
      /\ count'[b] \in {count[b], count[b] + 1} /\ born'[b] \in {born[b], born[b] + 1}
      /\ count'[b] > 0 /\ count[b] = 0 => born'[b] = born[b] + 1
      /\ \A c \in Buckets \ {b} : count'[c] = count[c] /\ born'[c] = born[c]
  <2>1. CASE UNCHANGED redis
    BY <1>1, <1>2, <2>1 DEF redis, Types
  <2>2. CASE /\ count' = [count EXCEPT ![b] = count[b] + 1]
             /\ born' = (IF count[b] = 0 THEN [born EXCEPT ![b] = born[b] + 1] ELSE born)
    <3>1. count \in [Buckets -> Nat] /\ born \in [Buckets -> Nat]
      BY <1>1 DEF Types
    <3>2. CASE count[b] = 0
      BY <1>2, <2>2, <3>1, <3>2
    <3>3. CASE count[b] # 0
      BY <1>2, <2>2, <3>1, <3>3
    <3>4. QED  BY <3>2, <3>3
  <2>3. QED  BY <1>0, <2>1, <2>2 DEF IncrLost
<1>5. wait'[r] < 0
  BY <1>1 DEF Waits
<1>6. Types' /\ Others(r) /\ OtherBuckets(b) /\ pc'[r] \in {"count", "ttl", "served"}
      /\ (pc'[r] = "ttl" => left'[r] # << >>)
  BY <1>1, <1>3, <1>4, Judged DEF Types, Others, OtherBuckets
<1>7. Keys'
  BY <1>1, <1>2, <1>4, <1>6, KeysStep
<1>8. Waits'
  BY <1>1, <1>2, <1>4, <1>5, <1>6, WaitsStep
<1>9. passed'[b] = [passed[b] EXCEPT ![r] = 0]
  BY <1>1, <1>2, Judged DEF Over
<1>10. Expiring(b)' = Expiring(b)
  BY <1>1, <1>6 DEF Expiring, Others, Bucket
<1>11. Budget(b) \in Nat /\ Budget(b)' \in Nat
  BY <1>1, <1>2, <1>6, BucketFacts, BucketFactsNext
<1>12. PaidBy(b)'
  <2>1. CASE count[b] > 0
    <3>1. Budget(b)' <= Budget(b)
      BY <1>2, <1>4, <1>10 DEF Budget, Limit
    <3>2. 1 + Budget(b)' + Excused <= Budget(b) + Excused'
      BY <1>3, <1>11, <3>1
    <3>3. count'[b] > 0 /\ ttl'[b] = ttl[b]
      BY <1>1, <1>2, <1>4, <2>1
    <3>4. PaidBy(b)
      BY <1>1 DEF Paid
    <3> DEFINE cost == 1
    <3>5. /\ cost \in {0, 1} /\ cost + Budget(b)' + Excused <= Budget(b) + Excused'
          /\ passed'[b] = IF cost = 0 THEN passed[b] ELSE [passed[b] EXCEPT ![r] = 0]
      BY <1>9, <3>2
    <3> HIDE DEF cost
    <3>6. QED  BY <1>1, <1>6, <2>1, <3>3, <3>4, <3>5, PaidHere
  <2>2. CASE count[b] = 0
    <3>1. Expiring(b)' = {} /\ ttl'[b] = NoTtl
      BY <1>1, <1>2, <1>10, <2>2 DEF Expiring, Keys
    <3>2. count'[b] > 0 => Budget(b)' <= Less(Limit(b))
      BY <1>2, <1>4, <2>2, <3>1 DEF Budget, Limit, Less
    <3>3. PaidBy(b)
      BY <1>1 DEF Paid
    <3> DEFINE cost == 1
    <3>4. /\ cost \in {0, 1} /\ cost + Excused <= Excused'
          /\ passed'[b] = IF cost = 0 THEN passed[b] ELSE [passed[b] EXCEPT ![r] = 0]
      BY <1>3, <1>9
    <3> HIDE DEF cost
    <3>5. QED  BY <1>1, <1>6, <2>2, <3>1, <3>2, <3>3, <3>4, PaidAnew
  <2>3. QED  BY <1>2, <2>1, <2>2
<1>13. Paid'
  BY <1>1, <1>2, <1>3, <1>6, <1>12, PaidStep
<1>14. QED  BY <1>6, <1>7, <1>8, <1>13 DEF Inv

\* EXPIRE: nothing passed since then, and one request less may still pass.
LEMMA ExpireInv ==
  ASSUME Inv, NEW r \in Requests, Expire(r) PROVE Inv'
<1>0. PICK b \in Buckets : b = Bucket(r)
  BY BucketType DEF Inv, Keys, Expire
<1>1. /\ b = Bucket(r) /\ Types /\ Keys /\ Paid /\ Waits /\ pc[r] = "expire" /\ left[r] # << >>
      /\ Judge(r, 1) /\ got' = [got EXCEPT ![r] = 0]
      /\ UNCHANGED <<count, born, wait, refused>>
  BY <1>0 DEF Inv, Expire, answers, Keys
<1>2. b \in Buckets /\ Limit(b) \in Nat /\ Window(b) \in Nat /\ Window(b) > 0
      /\ count[b] \in Nat /\ count[b] > 0 /\ ttl[b] = NoTtl
  BY <1>1, BucketType, BucketFacts DEF Keys
<1>3. Excused' = Excused /\ Excused \in Nat /\ lost' \subseteq Losses
  <2>1. CASE UNCHANGED lost
    BY <1>1, <2>1, ExcusedType DEF Types, Excused
  <2>2. CASE Loses("expire")
    BY <1>1, <2>2, LostType, LossGrows, ExcusedType
  <2>3. QED  BY <2>1, <2>2 DEF Expire
<1>4. PICK w \in {NoTtl, Window(b)} : ttl' = [ttl EXCEPT ![b] = w]
  <2>1. CASE UNCHANGED ttl
    BY <1>1, <1>2, <2>1 DEF Types
  <2>2. CASE ttl' = [ttl EXCEPT ![b] = IF count[b] > 0 THEN Lifetime(b) ELSE NoTtl]
    BY <1>2, <2>2 DEF Lifetime
  <2>3. QED  BY <1>0, <2>1, <2>2 DEF Expire
<1>5. /\ ttl' \in [Buckets -> Int] /\ \A c \in Buckets : ttl'[c] \in {NoTtl} \cup 1..Window(c)
      /\ ttl'[b] = w /\ \A c \in Buckets \ {b} : ttl'[c] = ttl[c]
  <2>1. \A c \in Buckets : ttl[c] \in {NoTtl} \cup 1..Window(c)
    BY <1>1 DEF Types
  <2>2. w \in Int /\ w \in {NoTtl} \cup 1..Window(b)
    BY <1>2 DEF NoTtl
  <2>3. ttl \in [Buckets -> Int]
    BY <1>1 DEF Types
  <2>4. QED  BY <1>4, <2>1, <2>2, <2>3
<1>6. wait'[r] < 0
  BY <1>1 DEF Waits
<1>7. Types' /\ Others(r) /\ OtherBuckets(b) /\ pc'[r] \in {"count", "ttl", "served"}
      /\ (pc'[r] = "ttl" => left'[r] # << >>)
  BY <1>1, <1>3, <1>5, Judged DEF Types, Others, OtherBuckets
<1>8. \A q \in Requests \ {r} : ~(pc[q] = "expire" /\ Bucket(q) = b)
  BY <1>1 DEF Keys
<1>9. Keys'
  BY <1>1, <1>2, <1>7, <1>8, KeysStep
<1>10. Waits'
  BY <1>1, <1>2, <1>6, <1>7, WaitsStep
<1>11. PICK cost \in {0, 1} : /\ cost = 0 <=> Over(1, b)
                              /\ passed'[b] = IF cost = 0 THEN passed[b]
                                                         ELSE [passed[b] EXCEPT ![r] = 0]
  BY <1>1, Judged
<1>12. Expiring(b) # {} /\ Expiring(b)' = {}
  BY <1>1, <1>7, <1>8 DEF Expiring, Others, Bucket
<1>13. cost + Budget(b)' <= Budget(b) /\ Budget(b)' <= Less(Limit(b))
  BY <1>1, <1>2, <1>11, <1>12 DEF Budget, Over, Limit, Less
<1>14. PaidBy(b)'
  <2>1. PaidBy(b) /\ cost + Budget(b)' + Excused <= Budget(b) + Excused'
    BY <1>1, <1>2, <1>3, <1>7, <1>13, BucketFacts, BucketFactsNext DEF Paid
  <2>2. count'[b] > 0 /\ (ttl'[b] = ttl[b] \/ (ttl'[b] = Window(b) /\ Budget(b)' <= Less(Limit(b))))
    BY <1>1, <1>2, <1>5, <1>13
  <2>3. QED  BY <1>1, <1>2, <1>7, <1>11, <2>1, <2>2, PaidHere
<1>15. Paid'
  BY <1>1, <1>2, <1>3, <1>7, <1>14, PaidStep
<1>16. QED  BY <1>7, <1>9, <1>10, <1>15 DEF Inv

\* Time: a window that ends leaves behind what passed since it began.
LEMMA TickInv ==
  ASSUME Inv, Tick PROVE Inv'
<1>1. Types /\ Keys /\ Paid /\ Waits /\ UNCHANGED <<pc, left, got, born, refused, lost>>
  BY DEF Inv, Tick
<1>2. \A b \in Buckets :
        /\ count'[b] = IF ttl[b] = 1 THEN 0 ELSE count[b]
        /\ ttl'[b] = IF ttl[b] = NoTtl \/ ttl[b] = 1 THEN NoTtl ELSE ttl[b] - 1
        /\ \A r \in Requests :
             /\ passed'[b][r] = IF passed[b][r] < Window(b) THEN passed[b][r] + 1 ELSE passed[b][r]
             /\ passed[b][r] \in Nat /\ passed[b][r] <= Window(b)
  BY <1>1 DEF Tick, Types
<1>3. \A r \in Requests : wait[r] \in Int /\ wait'[r] = IF wait[r] > 0 THEN wait[r] - 1 ELSE wait[r]
  BY <1>1 DEF Tick, Types
<1>4. Types'
  <2>1. wait' \in [Requests -> Int]
    BY <1>3 DEF Tick
  <2>2. count' \in [Buckets -> Nat]
    BY <1>1, <1>2 DEF Tick, Types
  <2>3. ttl' \in [Buckets -> Int] /\ \A b \in Buckets : ttl'[b] \in {NoTtl} \cup 1..Window(b)
    <3>1. \A b \in Buckets : ttl'[b] \in Int /\ ttl'[b] \in {NoTtl} \cup 1..Window(b)
      BY <1>1, <1>2, BucketFacts DEF NoTtl
    <3>2. QED  BY <3>1 DEF Tick
  <2>4. passed' \in [Buckets -> [Requests -> Nat]]
    BY <1>2 DEF Tick
  <2>5. \A b \in Buckets, r \in Requests : passed'[b][r] <= Window(b)
    BY <1>1, <1>2, BucketFacts
  <2>6. QED  BY <1>1, <2>1, <2>2, <2>3, <2>4, <2>5 DEF Types
<1>5. Keys'
  <2>1. \A b \in Buckets : ttl'[b] # NoTtl => count'[b] > 0
    BY <1>1, <1>2 DEF Keys
  <2>2. \A r \in Requests : pc[r] = "expire" =>
          Bucket(r)' = Bucket(r) /\ count'[Bucket(r)] > 0 /\ ttl'[Bucket(r)] = NoTtl
    <3>1. ASSUME NEW r \in Requests, pc[r] = "expire"
          PROVE  Bucket(r) \in Buckets /\ ttl[Bucket(r)] = NoTtl /\ count[Bucket(r)] > 0
                 /\ Bucket(r)' = Bucket(r)
      BY <1>1, <3>1, BucketType DEF Keys, Bucket
    <3>2. QED  BY <1>2, <3>1 DEF NoTtl
  <2>3. \A r \in Requests : Bucket(r)' = Bucket(r)
    BY <1>1 DEF Bucket
  <2>4. QED  BY <1>1, <2>1, <2>2, <2>3 DEF Keys
<1>6. Waits'
  <2> SUFFICES ASSUME NEW r \in Requests, pc[r] = "throttled", NEW b \in Buckets, b = Bucket(r)
               PROVE  /\ refused[r] <= born[b]
                      /\ wait'[r] >= 0 /\ refused[r] = born[b] /\ count'[b] > 0 =>
                           ttl'[b] # NoTtl /\ ttl'[b] <= wait'[r] + 1
    <3>1. \A r \in Requests : pc[r] # "throttled" => wait'[r] < 0
      BY <1>1, <1>3 DEF Waits
    <3>2. \A r \in Requests : Bucket(r)' = Bucket(r) /\ (pc[r] = "throttled" => Bucket(r) \in Buckets)
      BY <1>1, BucketType DEF Bucket, Keys
    <3>3. QED  BY <1>1, <3>1, <3>2 DEF Waits
  <2>1. /\ refused[r] <= born[b]
        /\ wait[r] >= 0 /\ refused[r] = born[b] /\ count[b] > 0 =>
             ttl[b] # NoTtl /\ ttl[b] <= wait[r] + 1
    BY <1>1 DEF Waits
  <2>2. SUFFICES ASSUME wait'[r] >= 0, refused[r] = born[b], count'[b] > 0
                 PROVE  ttl'[b] # NoTtl /\ ttl'[b] <= wait'[r] + 1
    BY <2>1
  <2>3. wait[r] >= 0 /\ ttl[b] # 1 /\ count[b] > 0
    BY <1>2, <1>3, <2>2
  <2>4. ttl[b] # NoTtl /\ ttl[b] <= wait[r] + 1 /\ ttl[b] \in Int /\ ttl[b] > 1
    BY <1>1, <2>1, <2>2, <2>3, BucketFacts
  <2>5. QED  BY <1>2, <1>3, <2>4 DEF NoTtl
<1>7. Paid'
  <2> SUFFICES ASSUME NEW b \in Buckets PROVE PaidBy(b)'
    BY DEF Paid
  <2>1. PaidBy(b) /\ Excused' = Excused /\ Excused \in Nat
    BY <1>1, ExcusedType DEF Paid, Excused
  <2>2. /\ Limit(b) \in Nat /\ Less(Limit(b)) \in Nat /\ Less(2 * Limit(b)) \in Nat /\ Window(b) \in Nat
        /\ Budget(b) \in Nat /\ count[b] \in Nat /\ ttl[b] \in Int
        /\ ttl[b] = NoTtl \/ (ttl[b] >= 1 /\ ttl[b] <= Window(b))
    BY <1>1, BucketFacts, LessFacts
  <2>3. Recent(b)' \subseteq Recent(b)
    BY <1>2, <2>2 DEF Recent, Window
  <2>4. /\ IsFiniteSet(Recent(b)') /\ Cardinality(Recent(b)') \in Nat
        /\ Cardinality(Recent(b)) \in Nat /\ Cardinality(Recent(b)') <= Cardinality(Recent(b))
    BY <2>1, <2>3, FS_Subset, FS_CardinalityType DEF PaidBy
  <2>5. ttl[b] # NoTtl => IsFiniteSet(SinceTtl(b)) /\ Cardinality(SinceTtl(b)) \in Nat
    BY <1>1, <2>1, SincePast, FS_Subset, FS_CardinalityType DEF PaidBy
  <2>6. CASE ttl[b] = 1
    <3>1. Recent(b)' \subseteq SinceTtl(b)
      BY <1>2, <2>2, <2>6 DEF Recent, SinceTtl, Window
    <3>2. Cardinality(Recent(b)') <= Cardinality(SinceTtl(b))
      BY <2>5, <2>6, <3>1, FS_Subset DEF NoTtl
    <3>3. Cardinality(SinceTtl(b)) + Budget(b) <= Less(Limit(b)) + Excused
      BY <2>1, <2>6 DEF PaidBy, NoTtl
    <3>4. Cardinality(Recent(b)') <= Less(Limit(b)) + Excused'
      BY <2>1, <2>2, <2>4, <2>5, <2>6, <3>2, <3>3 DEF NoTtl
    <3>5. count'[b] = 0 /\ ttl'[b] = NoTtl /\ Less(Limit(b))' = Less(Limit(b))
      BY <1>2, <2>6 DEF Less, Limit
    <3>6. QED  BY <2>4, <3>4, <3>5 DEF PaidBy
  <2>7. CASE ttl[b] # 1
    <3>1. /\ count'[b] = count[b] /\ Budget(b)' = Budget(b)
          /\ Less(Limit(b))' = Less(Limit(b)) /\ Less(2 * Limit(b))' = Less(2 * Limit(b))
      BY <1>1, <1>2, <2>7 DEF Budget, Expiring, Bucket, Less, Limit
    <3>2. ASSUME ttl'[b] # NoTtl
          PROVE  Cardinality(SinceTtl(b)') + Budget(b)' <= Less(Limit(b)) + Excused'
      <4>1. ttl[b] # NoTtl /\ ttl'[b] = ttl[b] - 1 /\ ttl[b] > 1
        BY <1>2, <2>2, <2>7, <3>2
      <4>2. SinceTtl(b)' \subseteq SinceTtl(b)
        BY <1>2, <2>2, <4>1 DEF SinceTtl, Window
      <4>3. Cardinality(SinceTtl(b)') <= Cardinality(SinceTtl(b)) /\ Cardinality(SinceTtl(b)') \in Nat
            /\ Cardinality(SinceTtl(b)) \in Nat
        BY <2>5, <4>1, <4>2, FS_Subset, FS_CardinalityType
      <4>4. QED  BY <2>1, <2>2, <3>1, <4>1, <4>3 DEF PaidBy
    <3>3. QED  BY <2>1, <2>2, <2>4, <3>1, <3>2 DEF PaidBy
  <2>8. QED  BY <2>6, <2>7
<1>8. QED  BY <1>4, <1>5, <1>6, <1>7 DEF Inv

LEMMA NextInv == Inv /\ [Next]_vars => Inv'
<1> SUFFICES ASSUME Inv, [Next]_vars PROVE Inv'
  OBVIOUS
<1>1. CASE UNCHANGED vars
  BY <1>1 DEF vars, Inv, Types, Keys, Waits, Paid, PaidBy, Bucket, Recent, SinceTtl, Budget,
              Expiring, Excused
<1>2. ASSUME NEW r \in Requests, Call(r) PROVE Inv'
  BY <1>2, ExemptInv, IncrInv, IncrLostInv, ExpireInv, ThrottleInv DEF Call
<1>3. QED  BY <1>1, <1>2, TickInv, DropInv DEF Next

-----------------------------------------------------------------------------

\* The strengthening is inductive.
THEOREM InvAlways == Spec => []Inv
BY InitInv, NextInv, PTL DEF Spec

\* Whatever the interleaving of INCR and EXPIRE (middleware/ratelimit.rs), for
\* all limits and windows and any number of requests and losses: less than twice
\* the limit passes a bucket in the length of a window, but for INCRs that failed open.
THEOREM BurstsAreBounded == Spec => []AtMostTwoBursts
<1>1. ASSUME Inv, NEW b \in Buckets
      PROVE  Cardinality(Recent(b)) <= (IF Limit(b) = 0 THEN 0 ELSE 2 * Limit(b) - 1) + Excused
  <2>1. /\ Limit(b) \in Nat /\ Budget(b) \in Nat /\ count[b] \in Nat /\ Excused \in Nat
        /\ Cardinality(Recent(b)) \in Nat /\ PaidBy(b)
    BY <1>1, BucketFacts, ExcusedType, FS_CardinalityType DEF Inv, Paid, PaidBy
  <2>2. QED  BY <2>1 DEF PaidBy, Less
<1>2. Inv => AtMostTwoBursts
  BY <1>1 DEF Inv, AtMostTwoBursts, Excused
<1>3. QED  BY <1>2, InvAlways, PTL

\* The Retry-After header, when Redis answered TTL (middleware/ratelimit.rs),
\* names a time at which the key that refused is gone or in its last unit (the answer is
\* rounded), for all limits and windows.
THEOREM WaitsAreHonest == Spec => []RetryAfterIsHonest
<1>1. ASSUME Inv, NEW r \in Requests, pc[r] = "throttled", wait[r] = 0, NEW b \in Buckets, b = Bucket(r)
      PROVE  count[b] = 0 \/ born[b] # refused[r] \/ ttl[b] = 1
  <2>1. count[b] \in Nat /\ (ttl[b] = NoTtl \/ ttl[b] >= 1)
    BY <1>1, BucketFacts DEF Inv
  <2>2. ttl[b] \in Int
    BY <1>1, BucketFacts DEF Inv
  <2>3. QED  BY <1>1, <2>1, <2>2 DEF Inv, Waits, NoTtl
<1>2. ASSUME Inv, NEW r \in Requests, pc[r] = "throttled" PROVE Bucket(r) \in Buckets
  BY <1>2, BucketType DEF Inv, Keys
<1>3. Inv => RetryAfterIsHonest
  BY <1>1, <1>2 DEF RetryAfterIsHonest
<1>4. QED  BY <1>3, InvAlways, PTL
=============================================================================
