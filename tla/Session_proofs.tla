--------------------------- MODULE Session_proofs ---------------------------
(***************************************************************************)
(* A spent token is refused until its exp, for any numbers of processes,   *)
(* users and tokens and any lifetimes (SpentIsRefused of Session).         *)
(*                                                                         *)
(* The blacklist key of a token starts with the lifetime of a refresh      *)
(* token, whatever kind of token it names and however late it is written,  *)
(* so it never runs out before the token does but for the leeway.  What    *)
(* could break this is a key that is written over, a jti that is drawn     *)
(* again while a request still holds it, or a request that revokes a token *)
(* it does not hold.                                                       *)
(***************************************************************************)
EXTENDS Session, TLAPS

Places == {"idle", "authenticate", "lookup", "load", "store", "handler",
           "refresh", "refresh_user", "rotate", "logout", "logout_access"}

TypeInv ==
  /\ pc \in [Procs -> Places]
  /\ token \in [Procs -> Tokens \cup {NoToken}]
  /\ access \in [Procs -> Tokens \cup {NoToken}]
  /\ owner \in [Tokens -> Users]
  /\ life \in [Tokens -> 0..(RefreshTtl + Leeway)]
  /\ blacklist \in [Tokens -> 0..RefreshTtl]
  /\ cache \in [Users -> 0..CacheTtl]
  /\ active \in [Users -> BOOLEAN]
  /\ spent \subseteq Tokens

\* Whoever is on the way has a token, and who revokes an access token has one.
HandInv ==
  \A p \in Procs :
    /\ pc[p] # "idle" => token[p] \in Tokens
    /\ pc[p] = "logout_access" => access[p] \in Tokens

\* The key of a spent token lasts as long as the token without its leeway.
KeyOutlasts == \A t \in spent : life[t] <= blacklist[t] + Leeway

Inv == TypeInv /\ HandInv /\ KeyOutlasts

-----------------------------------------------------------------------------

LEMMA Bounds ==
  /\ AccessTtl \in Nat \ {0} /\ RefreshTtl \in Nat \ {0} /\ AccessTtl <= RefreshTtl
  /\ Leeway \in Nat /\ CacheTtl \in Nat \ {0}
  /\ NoToken \notin Tokens
BY SessionAssumption

LEMMA InitInv == Init => Inv
<1> SUFFICES ASSUME Init PROVE Inv
  OBVIOUS
<1>1. TypeInv
  BY Bounds DEF Init, TypeInv, Places
<1>2. HandInv /\ KeyOutlasts
  BY DEF Init, HandInv, KeyOutlasts
<1>3. QED  BY <1>1, <1>2 DEF Inv

\* A token in somebody's hand is not drawn again.
LEMMA HeldIsNotFresh ==
  ASSUME NEW p \in Procs PROVE ~Fresh(token[p]) /\ ~Fresh(access[p])
BY DEF Fresh, InHand

\* A request that moves on with what it was given, or ends, keeps the invariant
\* as long as it leaves the tokens alone.
LEMMA MovesOn ==
  ASSUME Inv, NEW p \in Procs, NEW l \in Places \ {"idle", "logout_access"},
         pc[p] # "idle", Goto(p, l), UNCHANGED <<token, access>>,
         UNCHANGED <<issued, blacklist, active, spent>>, cache' \in [Users -> 0..CacheTtl]
  PROVE  Inv'
BY DEF Inv, TypeInv, HandInv, KeyOutlasts, Goto, issued

LEMMA Ends ==
  ASSUME TypeInv, HandInv, NEW p \in Procs, End(p)
  PROVE  /\ pc' \in [Procs -> Places]
         /\ token' \in [Procs -> Tokens \cup {NoToken}]
         /\ access' \in [Procs -> Tokens \cup {NoToken}]
         /\ HandInv'
<1>1. /\ pc' = [pc EXCEPT ![p] = "idle"] /\ token' = [token EXCEPT ![p] = NoToken]
      /\ access' = [access EXCEPT ![p] = NoToken]
  BY DEF End, Goto
<1>2. "idle" \in Places
  BY DEF Places
<1>3. QED  BY <1>1, <1>2 DEF TypeInv, HandInv

LEMMA AnswerInv ==
  ASSUME Inv, NEW p \in Procs, Answer(p) PROVE Inv'
BY Ends DEF Answer, Inv, TypeInv, KeyOutlasts, issued, keys

\* Writing the key of a token renews it: it never ends sooner than before.
LEMMA RevokeInv ==
  ASSUME Inv, NEW t \in Tokens,
         blacklist' \in {blacklist, [blacklist EXCEPT ![t] = BlacklistTtl]},
         spent' = spent \/ (spent' = spent \cup {t} /\ blacklist'[t] = RefreshTtl),
         UNCHANGED issued
  PROVE  /\ blacklist' \in [Tokens -> 0..RefreshTtl] /\ spent' \subseteq Tokens
         /\ KeyOutlasts'
<1>1. /\ blacklist \in [Tokens -> 0..RefreshTtl] /\ spent \subseteq Tokens
      /\ life' = life /\ life \in [Tokens -> 0..(RefreshTtl + Leeway)]
  BY DEF Inv, TypeInv, issued
<1>2. blacklist' \in [Tokens -> 0..RefreshTtl]
  BY <1>1, Bounds DEF BlacklistTtl
<1>3. \A x \in Tokens : blacklist'[x] = blacklist[x] \/ (x = t /\ blacklist'[x] = RefreshTtl)
  BY <1>1, Bounds DEF BlacklistTtl
<1>4. ASSUME NEW x \in spent' PROVE life'[x] <= blacklist'[x] + Leeway
  <2>1. x \in Tokens /\ life[x] \in 0..(RefreshTtl + Leeway)
    BY <1>1, <1>4
  <2>2. CASE blacklist'[x] = RefreshTtl
    BY <1>1, <2>1, <2>2, Bounds
  <2>3. CASE blacklist'[x] # RefreshTtl
    BY <1>1, <1>3, <1>4, <2>1, <2>3 DEF Inv, KeyOutlasts
  <2>4. QED  BY <2>2, <2>3
<1>5. QED  BY <1>1, <1>2, <1>4 DEF KeyOutlasts

LEMMA RevokeErrorInv ==
  ASSUME Inv, NEW p \in Procs, NEW t \in Tokens, RevokeError(p, t) PROVE Inv'
<1>1. /\ blacklist' \in [Tokens -> 0..RefreshTtl] /\ spent' \subseteq Tokens
      /\ KeyOutlasts'
  BY RevokeInv DEF RevokeError
<1>2. QED  BY <1>1, Ends DEF RevokeError, Inv, TypeInv, issued

-----------------------------------------------------------------------------
(* The steps *)

LEMMA LoginInv ==
  ASSUME Inv, NEW p \in Procs, NEW u \in Users, Login(p, u) PROVE Inv'
<1>1. PICK a \in Tokens, r \in Tokens : Mint(u, a, r) /\ spent' = spent \ {a, r}
  BY DEF Login
<1>2. UNCHANGED <<pc, token, access, blacklist, cache, active>>
  BY DEF Login, keys
<1>3. owner' \in [Tokens -> Users] /\ life' \in [Tokens -> 0..(RefreshTtl + Leeway)]
  BY <1>1, Bounds DEF Mint, Inv, TypeInv
<1>4. \A t \in Tokens \ {a, r} : life'[t] = life[t]
  BY <1>1 DEF Mint, Inv, TypeInv
<1>5. KeyOutlasts'
  BY <1>1, <1>2, <1>4 DEF Inv, TypeInv, KeyOutlasts
<1>6. QED  BY <1>1, <1>2, <1>3, <1>5 DEF Inv, TypeInv, HandInv

LEMMA ArriveInv ==
  ASSUME Inv, NEW p \in Procs, ArriveRequest(p) \/ ArriveRefresh(p) \/ ArriveLogout(p)
  PROVE  Inv'
<1>1. PICK t \in Tokens, l \in {"authenticate", "refresh", "logout"} : Present(p, t, l)
  BY DEF ArriveRequest, ArriveRefresh, ArriveLogout
<1>2. access' \in [Procs -> Tokens \cup {NoToken}]
  BY DEF ArriveRequest, ArriveRefresh, ArriveLogout, Inv, TypeInv
<1>3. /\ pc' = [pc EXCEPT ![p] = l] /\ token' = [token EXCEPT ![p] = t]
      /\ UNCHANGED <<owner, life, blacklist, cache, active, spent>>
  BY <1>1 DEF Present, Goto, issued, keys
<1>4. \A q \in Procs \ {p} : access'[q] = access[q]
  BY DEF ArriveRequest, ArriveRefresh, ArriveLogout, Inv, TypeInv
<1>5. TypeInv'
  BY <1>2, <1>3 DEF Inv, TypeInv, Places
<1>6. HandInv'
  BY <1>3, <1>4 DEF Inv, TypeInv, HandInv
<1>7. KeyOutlasts'
  BY <1>3 DEF Inv, KeyOutlasts
<1>8. QED  BY <1>5, <1>6, <1>7 DEF Inv

\* The extractor and the checks of a refresh touch no token.
LEMMA CheckInv ==
  ASSUME Inv, NEW p \in Procs,
         \/ CheckBlacklist(p) \/ LookUp(p) \/ LoadUser(p) \/ StoreUser(p) \/ Handle(p)
         \/ RefreshCheck(p) \/ RefreshUser(p)
  PROVE  Inv'
<1>1. CASE Answer(p)
  BY <1>1, AnswerInv
<1>2. CASE ~Answer(p)
  <2>1. PICK l \in {"lookup", "load", "store", "handler", "refresh_user", "rotate"} : Goto(p, l)
    BY <1>2 DEF CheckBlacklist, LookUp, LoadUser, StoreUser, Handle, RefreshCheck, RefreshUser,
                RedisError
  <2>2. pc[p] # "idle"
    BY DEF CheckBlacklist, LookUp, LoadUser, StoreUser, Handle, RefreshCheck, RefreshUser
  <2>3. UNCHANGED <<token, access, owner, life, blacklist, active, spent>>
    BY <1>2 DEF CheckBlacklist, LookUp, LoadUser, StoreUser, Handle, RefreshCheck, RefreshUser,
                RedisError, issued, keys
  <2>4. cache' \in [Users -> 0..CacheTtl]
    <3>1. cache' = cache \/ cache' = [cache EXCEPT ![UserOf(p)] = CacheTtl]
      BY <1>2 DEF CheckBlacklist, LookUp, LoadUser, StoreUser, Handle, RefreshCheck,
                  RefreshUser, RedisError, keys
    <3>2. QED  BY <3>1, Bounds DEF Inv, TypeInv
  <2>5. l \in Places \ {"idle", "logout_access"}
    BY DEF Places
  <2>6. QED  BY <2>1, <2>2, <2>3, <2>4, <2>5, MovesOn DEF issued
<1>3. QED  BY <1>1, <1>2

LEMMA RotateInv ==
  ASSUME Inv, NEW p \in Procs, Rotate(p) PROVE Inv'
<1>1. token[p] \in Tokens
  BY DEF Rotate, Inv, HandInv
<1>2. CASE RevokeError(p, token[p])
  BY <1>1, <1>2, RevokeErrorInv
<1>3. CASE ~RevokeError(p, token[p])
  <2>1. PICK a \in Tokens, r \in Tokens :
          /\ Mint(UserOf(p), a, r)
          /\ blacklist' = [blacklist EXCEPT ![token[p]] = BlacklistTtl]
          /\ spent' = (spent \cup {token[p]}) \ {a, r}
          /\ End(p)
          /\ UNCHANGED <<cache, active>>
    BY <1>3 DEF Rotate
  <2>2. token[p] \notin {a, r}
    BY <2>1, HeldIsNotFresh DEF Mint
  <2>3. UserOf(p) \in Users
    BY <1>1 DEF UserOf, Inv, TypeInv
  <2>4. owner' \in [Tokens -> Users] /\ life' \in [Tokens -> 0..(RefreshTtl + Leeway)]
    BY <2>1, <2>3, Bounds DEF Mint, Inv, TypeInv
  <2>5. \A t \in Tokens \ {a, r} : life'[t] = life[t]
    BY <2>1 DEF Mint, Inv, TypeInv
  <2>6. /\ blacklist' \in [Tokens -> 0..RefreshTtl] /\ blacklist'[token[p]] = RefreshTtl
        /\ \A t \in Tokens \ {token[p]} : blacklist'[t] = blacklist[t]
    BY <1>1, <2>1, Bounds DEF BlacklistTtl, Inv, TypeInv
  <2>7. ASSUME NEW t \in spent' PROVE life'[t] <= blacklist'[t] + Leeway
    <3>1. t \in Tokens \ {a, r} /\ life'[t] = life[t] /\ life[t] \in 0..(RefreshTtl + Leeway)
      BY <1>1, <2>1, <2>5 DEF Inv, TypeInv
    <3>2. CASE t = token[p]
      BY <2>6, <3>1, <3>2, Bounds
    <3>3. CASE t # token[p]
      BY <2>1, <2>6, <3>1, <3>3 DEF Inv, KeyOutlasts
    <3>4. QED  BY <3>2, <3>3
  <2>8. QED  BY <1>1, <2>1, <2>4, <2>6, <2>7, Ends DEF Inv, TypeInv, KeyOutlasts
<1>4. QED  BY <1>2, <1>3

LEMMA LogoutInv ==
  ASSUME Inv, NEW p \in Procs, LogoutRefresh(p) \/ LogoutAccess(p) PROVE Inv'
<1>1. PICK t \in Tokens :
        \/ RevokeError(p, t)
        \/ /\ Revoke(t) /\ UNCHANGED <<issued, cache, active>>
           /\ \/ End(p)
              \/ /\ access[p] # NoToken /\ pc[p] # "idle"
                 /\ Goto(p, "logout_access") /\ UNCHANGED <<token, access>>
  <2>1. CASE LogoutRefresh(p)
    BY <2>1 DEF LogoutRefresh, Inv, HandInv
  <2>2. CASE LogoutAccess(p)
    BY <2>2 DEF LogoutAccess, Inv, HandInv
  <2>3. QED  BY <2>1, <2>2
<1>2. CASE RevokeError(p, t)
  BY <1>2, RevokeErrorInv
<1>3. CASE ~RevokeError(p, t)
  <2>1. Revoke(t) /\ UNCHANGED <<owner, life, cache, active>>
    BY <1>1, <1>3 DEF issued
  <2>2. blacklist'[t] = RefreshTtl
    BY <2>1, Bounds DEF Revoke, BlacklistTtl, Inv, TypeInv
  <2>3. /\ blacklist' \in [Tokens -> 0..RefreshTtl] /\ spent' \subseteq Tokens
        /\ KeyOutlasts'
    BY <2>1, <2>2, RevokeInv DEF Revoke, issued
  <2>4. CASE End(p)
    BY <2>1, <2>3, <2>4, Ends DEF Inv, TypeInv
  <2>5. CASE ~End(p)
    <3>1. /\ access[p] # NoToken /\ pc' = [pc EXCEPT ![p] = "logout_access"]
          /\ UNCHANGED <<token, access>> /\ pc[p] # "idle"
      BY <1>1, <1>3, <2>5 DEF Goto
    <3>2. access[p] \in Tokens
      BY <3>1 DEF Inv, TypeInv
    <3>3. QED  BY <2>1, <2>3, <3>1, <3>2 DEF Inv, TypeInv, HandInv, Places
  <2>6. QED  BY <2>4, <2>5
<1>4. QED  BY <1>2, <1>3

\* Token and key lose a tick together, and a token that is forgotten is not spent.
LEMMA TickInv ==
  ASSUME Inv, Tick PROVE Inv'
<1>1. UNCHANGED <<pc, token, access, owner, active>>
  BY DEF Tick
<1>2. ASSUME NEW n \in Nat PROVE Minus1(n) \in 0..n /\ n <= Minus1(n) + 1
  BY DEF Minus1
<1>3. \A t \in Tokens : life'[t] = Minus1(life[t]) /\ life[t] \in 0..(RefreshTtl + Leeway)
  BY DEF Tick, Inv, TypeInv
<1>4. \A t \in Tokens : /\ blacklist[t] \in 0..RefreshTtl
                        /\ blacklist'[t] \in {0, Minus1(blacklist[t])}
                        /\ (life[t] > 1 \/ t \in InHand) => blacklist'[t] = Minus1(blacklist[t])
  BY DEF Tick, Inv, TypeInv
<1>5. \A t \in spent' : t \in spent /\ (life[t] > 1 \/ t \in InHand)
  BY DEF Tick
<1>6. life' \in [Tokens -> 0..(RefreshTtl + Leeway)] /\ blacklist' \in [Tokens -> 0..RefreshTtl]
  BY <1>2, <1>3, <1>4, Bounds DEF Tick, Minus1
<1>7. cache' \in [Users -> 0..CacheTtl]
  BY Bounds DEF Tick, Minus1, Inv, TypeInv
<1>8. ASSUME NEW t \in spent' PROVE life'[t] <= blacklist'[t] + Leeway
  <2>1. t \in Tokens /\ t \in spent /\ life[t] <= blacklist[t] + Leeway
    BY <1>5, <1>8 DEF Inv, TypeInv, KeyOutlasts
  <2>2. /\ life'[t] = Minus1(life[t]) /\ blacklist'[t] = Minus1(blacklist[t])
        /\ life[t] \in Nat /\ blacklist[t] \in Nat
    BY <1>3, <1>4, <1>5, <2>1, Bounds
  <2>3. QED  BY <2>1, <2>2, Bounds DEF Minus1
<1>9. QED  BY <1>1, <1>5, <1>6, <1>7, <1>8 DEF Inv, TypeInv, HandInv, KeyOutlasts

LEMMA ToggleInv ==
  ASSUME Inv, NEW u \in Users, Toggle(u) PROVE Inv'
BY DEF Toggle, Inv, TypeInv, HandInv, KeyOutlasts, issued, keys

LEMMA NextInv == Inv /\ [Next]_vars => Inv'
<1> SUFFICES ASSUME Inv, [Next]_vars PROVE Inv'
  OBVIOUS
<1>1. CASE UNCHANGED vars
  BY <1>1 DEF vars, Inv, TypeInv, HandInv, KeyOutlasts
<1>2. ASSUME NEW p \in Procs, Arrive(p) PROVE Inv'
  BY <1>2, LoginInv, ArriveInv DEF Arrive
<1>3. ASSUME NEW p \in Procs, Serve(p) PROVE Inv'
  BY <1>3, CheckInv, RotateInv, LogoutInv DEF Serve
<1>4. QED  BY <1>1, <1>2, <1>3, TickInv, ToggleInv DEF Next

\* Only the two checks let a request past the blacklist, and not when it is listed.
LEMMA OnlyUnlistedPass ==
  ASSUME Inv, [Next]_vars, NEW p \in Procs, Passes(p)
  PROVE  ~Listed(p)
<1>1. /\ pc \in [Procs -> Places] /\ pc[p] \in {"authenticate", "refresh"}
      /\ pc'[p] \in {"lookup", "refresh_user"}
  BY DEF Inv, TypeInv, Passes, Checking
<1>2. pc'[p] # pc[p] /\ pc'[p] # "idle"
  BY <1>1
<1>3. ~UNCHANGED pc
  BY <1>2
<1>4. PICK q \in Procs : Arrive(q) \/ Serve(q)
  BY <1>3 DEF Next, vars, Tick, Toggle
<1>5. ~Arrive(q)
  BY <1>1, <1>2, <1>3
  DEF Arrive, ArriveRequest, ArriveRefresh, ArriveLogout, Present, Login, Goto
<1>6. q = p
  BY <1>1, <1>2, <1>4, <1>5
  DEF Serve, CheckBlacklist, LookUp, LoadUser, StoreUser, Handle, RefreshCheck, RefreshUser,
      Rotate, LogoutRefresh, LogoutAccess, Answer, RedisError, RevokeError, End, Goto
<1>7. CheckBlacklist(p) \/ RefreshCheck(p)
  BY <1>1, <1>4, <1>5, <1>6
  DEF Serve, LookUp, LoadUser, StoreUser, Handle, RefreshUser, Rotate, LogoutRefresh, LogoutAccess
<1>8. ~Answer(p)
  BY <1>1, <1>2 DEF Answer, End, Goto
<1>9. QED  BY <1>7, <1>8 DEF CheckBlacklist, RefreshCheck, RedisError

-----------------------------------------------------------------------------

\* The strengthening is inductive.
THEOREM InvAlways == Spec => []Inv
BY InitInv, NextInv, PTL DEF Spec

\* Who passes the blacklist with a spent token holds one within its leeway: the
\* extractor and refresh refuse it before (middleware/auth.rs, handlers/auth.rs),
\* for all values of the constants.
THEOREM SpentStaysSpent == Spec => SpentIsRefused
<1> DEFINE Refused == \A p \in Procs : Passes(p) /\ token[p] \in spent => life[token[p]] <= Leeway
<1>1. ASSUME Inv, [Next]_vars, NEW p \in Procs, Passes(p), token[p] \in spent
      PROVE  life[token[p]] <= Leeway
  <2>1. token[p] \in Tokens /\ blacklist[token[p]] \in Nat /\ life[token[p]] \in Nat
    BY <1>1, Bounds DEF Inv, TypeInv
  <2>2. ~Listed(p)
    BY <1>1, OnlyUnlistedPass
  <2>3. QED  BY <1>1, <2>1, <2>2, Bounds DEF Listed, Inv, KeyOutlasts
<1>2. Inv /\ [Next]_vars => [Refused]_vars
  BY <1>1
<1>3. QED  BY <1>2, InvAlways, PTL DEF Spec, SpentIsRefused
=============================================================================
