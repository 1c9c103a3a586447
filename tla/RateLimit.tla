----------------------------- MODULE RateLimit -----------------------------
(***************************************************************************)
(* The throttling middleware (middleware/ratelimit.rs): every request is   *)
(* counted in one or two fixed-window buckets in Redis before it reaches   *)
(* its handler.                                                            *)
(*                                                                         *)
(* A process is one HTTP request and a step is one Redis command with the  *)
(* code that follows it up to the next await.  Time is relative: a Tick    *)
(* lets every key age by one unit.  INCR and EXPIRE are two commands, and  *)
(* anything may happen between them.                                       *)
(***************************************************************************)
EXTENDS Integers, Sequences, FiniteSets

CONSTANTS
  Requests,
  Clients,      \* a JWT subject or an IP address
  Scopes,       \* the scopes considered, among "anon", "user" and "purchase"
  LimitOf,      \* [Scopes -> Nat], settings.rate_limit_*
  WindowOf,     \* [Scopes -> Nat \ {0}], seconds of window_for
  Kinds,        \* the kinds of request considered, see BucketsOf
  Losses,       \* what may fail: a command, "reply" of INCR, or "drop", a client that goes away
  MaxLosses     \* bound: losses in one behaviour, each of another kind

ASSUME LimitsAssumption ==
  /\ Scopes \subseteq {"anon", "user", "purchase"}
  /\ LimitOf \in [Scopes -> Nat]
  /\ WindowOf \in [Scopes -> Nat \ {0}]

ASSUME KindsAssumption ==
  /\ Kinds \subseteq {"exempt", "anon", "user", "purchase"}
  /\ Kinds \ {"exempt"} \subseteq Scopes /\ ("purchase" \in Kinds => "user" \in Scopes)
  /\ Losses \subseteq {"incr", "reply", "expire", "ttl", "drop"} /\ MaxLosses \in Nat

VARIABLES
  pc,       \* where each request stands
  left,     \* buckets a request still has to pass, in order
  got,      \* local `count` of a request between INCR and EXPIRE
  count,    \* value of the bucket's key, 0 when there is no key
  ttl,      \* time to live of the key, NoTtl when it has none
  born,     \* how often the key was created
  passed,   \* ticks since a bucket let a request pass, at most its window (also when it never did)
  wait,     \* the seconds Redis answered TTL with, counted down; negative: nothing promised
  refused,  \* the key, by birth, that refused a request
  lost      \* what was lost so far

vars == <<pc, left, got, count, ttl, born, passed, wait, refused, lost>>
redis == <<count, ttl, born>>
answers == <<wait, refused>>

Buckets == Scopes \X Clients
Limit(b) == LimitOf[b[1]]
Window(b) == WindowOf[b[1]]
NoTtl == -1

\* throttle_buckets: OPTIONS and paths outside /api are exempt, a valid bearer
\* token selects the user's buckets, a purchase counts in both of them, and
\* everyone else is known by address.
BucketsOf(kind, c) ==
  CASE kind = "exempt"   -> << >>
    [] kind = "anon"     -> << <<"anon", c>> >>
    [] kind = "user"     -> << <<"user", c>> >>
    [] kind = "purchase" -> << <<"user", c>>, <<"purchase", c>> >>

Init ==
  /\ pc = [r \in Requests |-> "count"]
  /\ \E kind \in [Requests -> Kinds], client \in [Requests -> Clients] :
       left = [r \in Requests |-> BucketsOf(kind[r], client[r])]
  /\ got = [r \in Requests |-> 0]
  /\ count = [b \in Buckets |-> 0]
  /\ ttl = [b \in Buckets |-> NoTtl]
  /\ born = [b \in Buckets |-> 0]
  /\ passed = [b \in Buckets |-> [r \in Requests |-> Window(b)]]
  /\ wait = [r \in Requests |-> NoTtl]
  /\ refused = [r \in Requests |-> 0]
  /\ lost = {}

-----------------------------------------------------------------------------

Bucket(r) == Head(left[r])
Goto(r, l) == pc' = [pc EXCEPT ![r] = l]
Loses(what) ==
  /\ what \in Losses \ lost /\ Cardinality(lost) < MaxLosses
  /\ lost' = lost \cup {what}

OverLenient(n, b) == n > Limit(b) + 1
Over(n, b) == n > Limit(b)

\* count > limit asks for the TTL of the refusal, otherwise the next bucket is
\* looked at and after the last one the handler is called.
Judge(r, n) ==
  LET b == Bucket(r) IN
  \/ Over(n, b) /\ Goto(r, "ttl") /\ UNCHANGED <<left, passed>>
  \/ /\ ~Over(n, b)
     /\ passed' = [passed EXCEPT ![b][r] = 0]
     /\ left' = [left EXCEPT ![r] = Tail(@)]
     /\ Goto(r, IF Len(left[r]) = 1 THEN "served" ELSE "count")

Exempt(r) ==
  /\ pc[r] = "count"
  /\ left[r] = << >>
  /\ Goto(r, "served")
  /\ UNCHANGED <<left, got, redis, passed, answers, lost>>

EachTime(n) == TRUE
FromZero(n) == n = 0
FirstInWindow(n) == n = 1

Lifetime(b) == Window(b)

\* INCR, creating the key if need be.
Incr(r) ==
  LET b == Bucket(r)
      n == count[b] + 1
  IN /\ pc[r] = "count"
     /\ left[r] # << >>
     /\ count' = [count EXCEPT ![b] = n]
     /\ born' = (IF n = 1 THEN [born EXCEPT ![b] = @ + 1] ELSE born)
     /\ \/ FirstInWindow(n) /\ Goto(r, "expire") /\ got' = [got EXCEPT ![r] = n]
           /\ UNCHANGED <<left, passed>>
        \/ ~FirstInWindow(n) /\ Judge(r, n) /\ UNCHANGED got
     /\ UNCHANGED <<ttl, answers, lost>>

\* A failed INCR reads as 0 and the bucket lets the request pass; when only the
\* reply was lost the key is counted, or created without a TTL.
IncrLost(r) ==
  LET b == Bucket(r) IN
  /\ pc[r] = "count"
  /\ left[r] # << >>
  /\ \/ Loses("incr") /\ UNCHANGED redis
     \/ /\ Loses("reply")
        /\ count' = [count EXCEPT ![b] = @ + 1]
        /\ born' = (IF count[b] = 0 THEN [born EXCEPT ![b] = @ + 1] ELSE born)
        /\ UNCHANGED ttl
  /\ Judge(r, 0)
  /\ UNCHANGED <<got, answers>>

\* The first request of a window starts the TTL; the result is ignored.
Expire(r) ==
  LET b == Bucket(r) IN
  /\ pc[r] = "expire"
  /\ \/ ttl' = [ttl EXCEPT ![b] = IF count[b] > 0 THEN Lifetime(b) ELSE NoTtl] /\ UNCHANGED lost
     \/ Loses("expire") /\ UNCHANGED ttl
  /\ Judge(r, got[r])
  /\ got' = [got EXCEPT ![r] = 0]
  /\ UNCHANGED <<count, born, answers>>

\* What Redis may answer to TTL: -1 without expiry, -2 without key, otherwise the time
\* left, of which the milliseconds are rounded to the nearest second.  A key in its n-th
\* last unit has between n - 1 and n left and answers either, so the last answers are 0.
TtlReplies(b) ==
  IF count[b] = 0 THEN {-2} ELSE IF ttl[b] = NoTtl THEN {-1} ELSE {ttl[b], ttl[b] - 1}

\* TTL for the Retry-After header.  When it fails the window's length is a guess,
\* which promises nothing.
Throttle(r) ==
  LET b == Bucket(r) IN
  /\ pc[r] = "ttl"
  /\ \/ /\ \E seconds \in TtlReplies(b) : wait' = [wait EXCEPT ![r] = seconds]
        /\ UNCHANGED lost
     \/ Loses("ttl") /\ UNCHANGED wait
  /\ refused' = [refused EXCEPT ![r] = born[b]]
  /\ Goto(r, "throttled")
  /\ UNCHANGED <<left, got, redis, passed>>

\* The client closes the connection and the middleware's future is dropped.
Drop(r) ==
  /\ pc[r] \in {"expire", "ttl"}
  /\ Loses("drop")
  /\ Goto(r, "dropped")
  /\ got' = [got EXCEPT ![r] = 0]
  /\ UNCHANGED <<left, redis, passed, answers>>

\* One unit of time passes; Redis removes the keys whose time has come.
Tick ==
  /\ count' = [b \in Buckets |-> IF ttl[b] = 1 THEN 0 ELSE count[b]]
  /\ ttl' = [b \in Buckets |-> IF ttl[b] = NoTtl \/ ttl[b] = 1 THEN NoTtl ELSE ttl[b] - 1]
  /\ passed' = [b \in Buckets |->
                 [r \in Requests |-> IF passed[b][r] < Window(b) THEN passed[b][r] + 1 ELSE passed[b][r]]]
  /\ wait' = [r \in Requests |-> IF wait[r] > 0 THEN wait[r] - 1 ELSE wait[r]]
  /\ UNCHANGED <<pc, left, got, born, refused, lost>>

Call(r) == Exempt(r) \/ Incr(r) \/ IncrLost(r) \/ Expire(r) \/ Throttle(r)

Next == Tick \/ \E r \in Requests : Call(r) \/ Drop(r)

Spec == Init /\ [][Next]_vars

\* Time passes and every Redis command that was sent returns, with an error or
\* without.
FairSpec == Spec /\ WF_vars(Tick) /\ \A r \in Requests : WF_vars(Call(r))

-----------------------------------------------------------------------------
(* Properties *)

Types ==
  /\ pc \in [Requests -> {"count", "expire", "ttl", "served", "throttled", "dropped"}]
  /\ left \in [Requests -> Seq(Buckets)] /\ \A r \in Requests : Len(left[r]) <= 2
  /\ got \in [Requests -> Nat]
  /\ count \in [Buckets -> Nat] /\ born \in [Buckets -> Nat]
  /\ ttl \in [Buckets -> Int] /\ \A b \in Buckets : ttl[b] \in {NoTtl} \cup 1..Window(b)
  /\ passed \in [Buckets -> [Requests -> Nat]]
  /\ \A b \in Buckets, r \in Requests : passed[b][r] <= Window(b)
  /\ wait \in [Requests -> Int] /\ refused \in [Requests -> Nat]
  /\ lost \subseteq Losses

\* Types, and: a fixed window lets a burst pass at its end and another at the start of the
\* next, but the request that opened the first is by then too old to count: in
\* any stretch of one window's length a bucket lets less than twice its limit
\* pass, whatever the interleaving of INCR and EXPIRE, plus one for each INCR
\* that failed open.
Recent(b) == {r \in Requests : passed[b][r] < Window(b)}
AtMostTwoBursts ==
  Types /\ \A b \in Buckets :
    Cardinality(Recent(b))
      <= (IF Limit(b) = 0 THEN 0 ELSE 2 * Limit(b) - 1) + Cardinality(lost \cap {"incr", "reply"})

\* A client told to wait finds the bucket reopened when the wait is over, or within the
\* unit in which it ends: the key that refused it is gone, or in its last unit, as the
\* rounded TTL may be short of less than one, since nobody extends the life of a key.
RetryAfterIsHonest ==
  \A r \in Requests : pc[r] = "throttled" /\ wait[r] = 0 =>
    LET b == Bucket(r) IN count[b] = 0 \/ born[b] # refused[r] \/ ttl[b] = 1

\* A bucket that refuses requests opens again (under FairSpec), unless its key
\* may have been left without a TTL: by a lost EXPIRE, a lost reply of INCR or a
\* client that went away in between.
BucketReopens ==
  \A b \in Buckets :
    count[b] > Limit(b) ~> count[b] = 0 \/ lost \cap {"expire", "reply", "drop"} # {}
=============================================================================
