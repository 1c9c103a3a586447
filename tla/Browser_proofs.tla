--------------------------- MODULE Browser_proofs ---------------------------
(***************************************************************************)
(* For any tabs, users and number of token pairs: a logout lasts           *)
(* (LoggedOutStays of Browser), a tab sends its requests as the user it    *)
(* displays (SentAsDisplayed), a session is renewed once (RenewedOnce) and *)
(* is not given up before (GivenUpWhenOver).                               *)
(*                                                                         *)
(* The store is empty after a logout, so the only way to fill it without a *)
(* login is a refresh that was sent before. Such a refresh carries a token *)
(* (Sound), the store has none, and the two differing is what late         *)
(* records.                                                                *)
(*                                                                         *)
(* The second part follows the user instead: both stored tokens are of one *)
(* user, a refresh mints for the user of the token it spends, and a tab    *)
(* shows, or is about to be told, the user of the stored access token      *)
(* (SessionInv).                                                           *)
(*                                                                         *)
(* The third follows the pairs that refreshes mint: their tokens are never *)
(* stored as refresh tokens (RenewInv), so a call that is refused again    *)
(* after its refresh is refused with a session that is over.               *)
(***************************************************************************)
EXTENDS Browser, TLAPS

Minted(g, w) == g # 0 /\ w[g] # NoUser

\* The tokens of a call, where it needs them, are some that were minted.
Sound(c, w) ==
  /\ c.at \in {"refresh", "rotated"} \/ c.op = "logout" => Minted(c.with, w)
  /\ c.at \in {"minted", "rotated"} => Minted(c.token, w)

StoreInv ==
  /\ store \in [access : 0..MaxPairs, refresh : 0..MaxPairs]
  /\ store.access # 0 => Minted(store.access, owner)
  /\ store.refresh # 0 => Minted(store.refresh, owner)

CallInv ==
  /\ call \in [Tabs -> [Slots -> CallType]]
  /\ \A t \in Tabs, s \in Slots : Sound(call[t][s], owner)

TokenInv ==
  /\ owner \in [Pairs -> Users \cup {NoUser}]
  /\ expired \subseteq Pairs /\ spent \subseteq Pairs

TabInv ==
  /\ tab \in [Tabs -> [user : Users \cup {NoUser}, loading : BOOLEAN]]
  /\ foreign \subseteq Tabs /\ faults \in 0..MaxFaults

\* What LoggedOutStays says of the store, with the two flags it speaks of.
OutInv ==
  /\ out \in BOOLEAN /\ late \in BOOLEAN
  /\ out /\ ~late => store = Empty

Inv == StoreInv /\ CallInv /\ TokenInv /\ TabInv /\ OutInv

-----------------------------------------------------------------------------
(* Facts about single definitions *)

LEMMA Bounds == MaxPairs \in Nat /\ MaxFaults \in Nat
BY BrowserAssumption

\* A token that is typed and not 0 belongs to a pair.
LEMMA TokenIsPair ==
  ASSUME NEW g \in 0..MaxPairs, g # 0 PROVE g \in Pairs
BY Bounds DEF Pairs

LEMMA FreshPair ==
  ASSUME Fresh # {} PROVE NextPair \in Pairs /\ owner[NextPair] = NoUser
BY DEF Fresh, NextPair

\* Minting leaves what was minted minted.
LEMMA Mint ==
  ASSUME Inv, Fresh # {}, NEW u \in Users, owner' = [owner EXCEPT ![NextPair] = u]
  PROVE  /\ owner' \in [Pairs -> Users \cup {NoUser}]
         /\ NextPair \in 1..MaxPairs /\ Minted(NextPair, owner')
         /\ \A g \in 0..MaxPairs : Minted(g, owner) => Minted(g, owner')
<1>1. u # NoUser
  BY BrowserAssumption
<1>2. NextPair \in Pairs
  BY FreshPair
<1>3. owner' \in [Pairs -> Users \cup {NoUser}]
  BY <1>2 DEF Inv, TokenInv
<1>4. NextPair \in 1..MaxPairs /\ NextPair # 0
  BY <1>2, Bounds DEF Pairs
<1>5. owner'[NextPair] = u /\ \A g \in Pairs : g # NextPair => owner'[g] = owner[g]
  BY <1>2 DEF Inv, TokenInv
<1>6. ASSUME NEW g \in 0..MaxPairs, Minted(g, owner) PROVE Minted(g, owner')
  <2>1. g \in Pairs
    BY <1>6, TokenIsPair DEF Minted
  <2>2. QED  BY <1>1, <1>5, <1>6, <2>1 DEF Minted
<1>7. QED  BY <1>1, <1>3, <1>4, <1>5, <1>6 DEF Minted

\* A call that is set soundly leaves the calls sound.
LEMMA SetCallInv ==
  ASSUME Inv, NEW t \in Tabs, NEW s \in Slots, NEW c \in CallType, SetCall(t, s, c),
         Sound(c, owner'),
         \A g \in 0..MaxPairs : Minted(g, owner) => Minted(g, owner')
  PROVE  CallInv'
<1>1. call' \in [Tabs -> [Slots -> CallType]]
  BY DEF Inv, CallInv, SetCall
<1>2. ASSUME NEW u \in Tabs, NEW x \in Slots PROVE Sound(call'[u][x], owner')
  <2>1. CASE u = t /\ x = s
    <3>1. call'[u][x] = c
      BY <2>1 DEF Inv, CallInv, SetCall
    <3>2. QED  BY <3>1
  <2>2. CASE ~(u = t /\ x = s)
    <3>1. call'[u][x] = call[u][x]
      BY <2>2 DEF Inv, CallInv, SetCall
    <3>2. call[u][x] \in CallType /\ Sound(call[u][x], owner)
      BY DEF Inv, CallInv
    <3>3. call[u][x].token \in 0..MaxPairs /\ call[u][x].with \in 0..MaxPairs
      BY <3>2 DEF CallType
    <3>4. QED  BY <3>1, <3>2, <3>3 DEF Sound
  <2>3. QED  BY <2>1, <2>2
<1>3. QED  BY <1>1, <1>2 DEF CallInv

LEMMA IdleSound == Idle \in CallType /\ \A w : Sound(Idle, w)
BY Bounds DEF Idle, CallType, Sound

\* A request that is no logout needs no token.
LEMMA RequestSound ==
  ASSUME NEW op \in {"me", "login", "data"}, NEW g \in 0..MaxPairs
  PROVE  Request(op, g) \in CallType /\ \A w : Sound(Request(op, g), w)
BY Bounds DEF Request, Retried, CallType, Sound

\* Ending a call keeps the calls sound.
LEMMA EndCall ==
  ASSUME Inv, NEW t \in Tabs, NEW s \in Slots, SetCall(t, s, Idle), owner' = owner
  PROVE  CallInv'
BY IdleSound, SetCallInv

LEMMA ReloadInv ==
  ASSUME Inv, NEW t \in Tabs, Reload(t), owner' = owner, UNCHANGED <<foreign, faults>>
  PROVE  CallInv' /\ TabInv'
<1>1. CallInv'
  BY IdleSound DEF Inv, CallInv, Reload
<1>2. TabInv'
  BY DEF Inv, TabInv, Reload, Loading
<1>3. QED  BY <1>1, <1>2

\* What the service may still spend are tokens of some pair.
LEMMA DroppedPairs ==
  ASSUME Inv, NEW t \in Tabs PROVE Dropped(t) \subseteq Pairs
<1>1. ASSUME NEW s \in Slots, Waits(call[t][s]) PROVE call[t][s].with \in Pairs
  <2>1. call[t][s] \in CallType /\ Sound(call[t][s], owner)
    BY DEF Inv, CallInv
  <2>2. call[t][s].with \in 0..MaxPairs /\ call[t][s].with # 0
    BY <1>1, <2>1 DEF CallType, Sound, Waits, Minted
  <2>3. QED  BY <2>2, TokenIsPair
<1>2. QED  BY <1>1 DEF Dropped

LEMMA ExpelInv ==
  ASSUME Inv, NEW t \in Tabs, Expel(t, Empty), faults' \in 0..MaxFaults PROVE Inv'
<1>1. CallInv'
  BY IdleSound DEF Inv, CallInv, Expel, Reload
<1>2. TabInv'
  BY DEF Inv, TabInv, Expel, Reload, Loading
<1>3. TokenInv'
  BY DroppedPairs DEF Inv, TokenInv, Expel, MaySpend
<1>4. StoreInv'
  BY Bounds DEF StoreInv, Expel, Empty
<1>5. OutInv'
  BY DEF Inv, OutInv, Expel
<1>6. QED  BY <1>1, <1>2, <1>3, <1>4, <1>5 DEF Inv

LEMMA FinishLogoutInv ==
  ASSUME Inv, NEW t \in Tabs, FinishLogout(t), owner' = owner, foreign' = foreign,
         faults' \in 0..MaxFaults
  PROVE  StoreInv' /\ CallInv' /\ TabInv' /\ OutInv'
<1>1. CallInv'
  BY EndCall DEF FinishLogout, Slots
<1>2. TabInv'
  BY DEF Inv, TabInv, FinishLogout, SetTab, SignedOut
<1>3. StoreInv'
  BY Bounds DEF StoreInv, FinishLogout, Removed, Empty
<1>4. OutInv'
  BY DEF OutInv, FinishLogout, Removed
<1>5. QED  BY <1>1, <1>2, <1>3, <1>4

LEMMA RejectInv ==
  ASSUME Inv, NEW t \in Tabs, NEW s \in Slots, Reject(t, s), faults' \in 0..MaxFaults
  PROVE  StoreInv' /\ CallInv' /\ TabInv' /\ OutInv' /\ owner' = owner /\ expired' = expired
<1>0. owner' = owner /\ expired' = expired /\ foreign' = foreign
  BY DEF Reject
<1>1. CASE /\ store' = Empty /\ late' = FALSE /\ SetTab(t, SignedOut)
           /\ SetCall(t, s, Idle) /\ UNCHANGED out
  <2>1. CallInv'
    BY <1>0, <1>1, EndCall
  <2>2. TabInv'
    BY <1>0, <1>1 DEF Inv, TabInv, SetTab, SignedOut
  <2>3. StoreInv'
    BY <1>1, Bounds DEF StoreInv, Empty
  <2>4. OutInv'
    BY <1>1 DEF Inv, OutInv
  <2>5. QED  BY <1>0, <2>1, <2>2, <2>3, <2>4
<1>2. CASE FinishLogout(t)
  BY <1>0, <1>2, FinishLogoutInv
<1>3. CASE SetCall(t, s, Idle) /\ UNCHANGED <<store, tab, out, late>>
  <2>1. CallInv'
    BY <1>0, <1>3, EndCall
  <2>2. QED  BY <1>0, <1>3, <2>1 DEF Inv, StoreInv, TabInv, OutInv
<1>4. QED  BY <1>1, <1>2, <1>3 DEF Reject

LEMMA On401Inv ==
  ASSUME Inv, NEW t \in Tabs, NEW s \in Slots, On401(t, s), faults' \in 0..MaxFaults
  PROVE  Inv'
<1> DEFINE c == call[t][s]
<1>0. c \in CallType /\ Sound(c, owner)
  BY DEF Inv, CallInv
<1>1. CASE c.retried
  <2>1. Reject(t, s) /\ UNCHANGED spent
    BY <1>1 DEF On401
  <2>2. QED  BY <2>1, RejectInv DEF Inv, TokenInv
<1>2. CASE ~c.retried /\ store.refresh # 0
  <2> DEFINE d == [c EXCEPT !.at = "refresh", !.with = store.refresh, !.retried = TRUE]
  <2>1. SetCall(t, s, d) /\ UNCHANGED <<store, tab, owner, expired, spent, foreign, out, late>>
    BY <1>2 DEF On401, service, history
  <2>2. d \in CallType
    BY <1>0 DEF Inv, StoreInv, CallType
  <2>3. d.at = "refresh" /\ d.with = store.refresh
    BY <1>0 DEF CallType
  <2>4. Sound(d, owner)
    BY <1>2, <2>3 DEF Inv, StoreInv, Sound
  <2> HIDE DEF d
  <2>5. owner' = owner
    BY <2>1
  <2>6. CallInv'
    BY <2>1, <2>2, <2>4, <2>5, SetCallInv
  <2>7. QED  BY <2>1, <2>6 DEF Inv, StoreInv, TokenInv, TabInv, OutInv
<1>3. CASE ~c.retried /\ store.refresh = 0
  <2>1. Expel(t, [store EXCEPT !.access = 0])
    BY <1>3 DEF On401
  <2>2. [store EXCEPT !.access = 0] = Empty
    BY <1>3 DEF Inv, StoreInv, Empty
  <2>3. QED  BY <2>1, <2>2, ExpelInv
<1>4. QED  BY <1>1, <1>2, <1>3

-----------------------------------------------------------------------------
(* The actions *)

LEMMA InitInv == Init => Inv
<1> SUFFICES ASSUME Init PROVE Inv  OBVIOUS
<1>1. StoreInv
  BY Bounds DEF Init, StoreInv, Empty
<1>2. CallInv
  BY IdleSound DEF Init, CallInv
<1>3. TokenInv
  BY DEF Init, TokenInv
<1>4. TabInv
  BY Bounds DEF Init, TabInv, Loading
<1>5. OutInv
  BY DEF Init, OutInv
<1>6. QED  BY <1>1, <1>2, <1>3, <1>4, <1>5 DEF Inv

\* A step that changes no call but sets one, and no token.
LEMMA OneCallInv ==
  ASSUME Inv, NEW t \in Tabs, NEW s \in Slots, NEW c \in CallType, SetCall(t, s, c),
         Sound(c, owner), UNCHANGED <<store, owner, expired, spent, out, late>>, TabInv'
  PROVE  Inv'
<1>1. owner' = owner
  OBVIOUS
<1>2. CallInv'
  BY <1>1, SetCallInv
<1>3. QED  BY <1>2 DEF Inv, StoreInv, TokenInv, OutInv

LEMMA StartInv == ASSUME Inv, NEW t \in Tabs, Start(t) PROVE Inv'
<1>0. store.access \in 0..MaxPairs
  BY DEF Inv, StoreInv
<1>1. UNCHANGED <<store, owner, expired, spent, out, late, faults>>
  BY DEF Start, service
<1>2. CASE store.access = 0
  <2>1. SetTab(t, SignedOut) /\ UNCHANGED <<call, foreign>>
    BY <1>2 DEF Start
  <2>2. TabInv'
    BY <1>1, <2>1 DEF Inv, TabInv, SetTab, SignedOut
  <2>3. CallInv'
    BY <1>1, <2>1 DEF Inv, CallInv
  <2>4. QED  BY <1>1, <2>2, <2>3 DEF Inv, StoreInv, TokenInv, OutInv
<1>3. CASE store.access # 0
  <2>1. SetCall(t, "main", Request("me", store.access)) /\ foreign' = foreign \ {t}
        /\ tab' = tab
    BY <1>3 DEF Start
  <2>2. TabInv'
    BY <1>1, <2>1 DEF Inv, TabInv
  <2>3. QED  BY <1>0, <1>1, <2>1, <2>2, RequestSound, OneCallInv DEF Slots
<1>4. QED  BY <1>2, <1>3

LEMMA ActInv == ASSUME Inv, NEW t \in Tabs, Act(t) PROVE Inv'
<1>0. store.access \in 0..MaxPairs
  BY DEF Inv, StoreInv
<1>1. CASE SubmitLogin(t)
  <2>1. SetCall(t, "main", Request("login", store.access))
        /\ UNCHANGED <<store, tab, owner, expired, spent, foreign, out, late, faults>>
    BY <1>1 DEF SubmitLogin, service, history
  <2>2. TabInv'
    BY <2>1 DEF Inv, TabInv
  <2>3. QED  BY <1>0, <2>1, <2>2, RequestSound, OneCallInv DEF Slots
<1>2. CASE Logout(t)
  <2>1. UNCHANGED <<owner, expired, spent, foreign, faults>>
    BY <1>2 DEF Logout, service
  <2>2. CASE store.refresh = 0
    <3>1. FinishLogout(t)
      BY <1>2, <2>2 DEF Logout
    <3>2. faults' \in 0..MaxFaults
      BY <2>1 DEF Inv, TabInv
    <3>3. StoreInv' /\ CallInv' /\ TabInv' /\ OutInv'
      BY <2>1, <3>1, <3>2, FinishLogoutInv
    <3>4. QED  BY <2>1, <3>3 DEF Inv, TokenInv
  <2>3. CASE store.refresh # 0
    <3> DEFINE c == [Request("logout", store.access) EXCEPT !.with = store.refresh]
    <3>1. SetCall(t, "main", c) /\ UNCHANGED <<store, tab, out, late>>
      BY <1>2, <2>3 DEF Logout
    <3>2. c \in CallType /\ c.with = store.refresh /\ c.at = "sent"
      BY <1>0 DEF Request, Retried, CallType, Inv, StoreInv
    <3>3. Sound(c, owner)
      BY <2>3, <3>2 DEF Inv, StoreInv, Sound
    <3> HIDE DEF c
    <3>4. TabInv'
      BY <2>1, <3>1 DEF Inv, TabInv
    <3>5. QED  BY <2>1, <3>1, <3>2, <3>3, <3>4, OneCallInv DEF Slots
  <2>4. QED  BY <2>2, <2>3
<1>3. CASE Browse(t)
  <2>1. SetCall(t, "page", Request("data", store.access))
        /\ UNCHANGED <<store, tab, owner, expired, spent, foreign, out, late, faults>>
    BY <1>3 DEF Browse, service, history
  <2>2. TabInv'
    BY <2>1 DEF Inv, TabInv
  <2>3. QED  BY <1>0, <2>1, <2>2, RequestSound, OneCallInv DEF Slots
<1>4. CASE PressReload(t)
  <2>1. Reload(t) /\ MaySpend(Dropped(t))
        /\ UNCHANGED <<store, owner, expired, foreign, out, late, faults>>
    BY <1>4 DEF PressReload, history
  <2>2. CallInv' /\ TabInv'
    BY <2>1, ReloadInv
  <2>3. TokenInv'
    BY <2>1, DroppedPairs DEF Inv, TokenInv, MaySpend
  <2>4. QED  BY <2>1, <2>2, <2>3 DEF Inv, StoreInv, OutInv
<1>5. QED  BY <1>1, <1>2, <1>3, <1>4 DEF Act

\* The replies that end in the interceptor's error branch.
LEMMA ErrorInv ==
  ASSUME Inv, NEW t \in Tabs, NEW s \in Slots,
         Refused(t, s) \/ Lost(t, s) \/ RefuseRefresh(t, s)
  PROVE  Inv'
<1>0. /\ call[t][s] \in CallType /\ Sound(call[t][s], owner)
      /\ faults \in 0..MaxFaults
  BY DEF Inv, CallInv, TabInv
<1>1. CASE Refused(t, s)
  <2>1. On401(t, s) /\ faults' = faults
    BY <1>1 DEF Refused
  <2>2. QED  BY <1>0, <2>1, On401Inv
<1>2. CASE Lost(t, s)
  <2>1. faults' \in 0..MaxFaults
    BY <1>0, <1>2, Bounds DEF Lost
  <2>2. CASE Expel(t, Empty)
    BY <2>1, <2>2, ExpelInv
  <2>3. CASE Reject(t, s) /\ MaySpend(IF call[t][s].op = "logout" THEN {call[t][s].with} ELSE {})
    <3>1. StoreInv' /\ CallInv' /\ TabInv' /\ OutInv' /\ owner' = owner /\ expired' = expired
      BY <2>1, <2>3, RejectInv
    <3>2. call[t][s].op = "logout" => call[t][s].with \in Pairs
      BY <1>0, TokenIsPair DEF CallType, Sound, Minted
    <3>3. spent' \subseteq Pairs
      BY <2>3, <3>2 DEF MaySpend, Inv, TokenInv
    <3>4. QED  BY <3>1, <3>3 DEF Inv, TokenInv
  <2>4. CASE On401(t, s)
    BY <2>1, <2>4, On401Inv
  <2>5. QED  BY <1>2, <2>2, <2>3, <2>4 DEF Lost
<1>3. CASE RefuseRefresh(t, s)
  <2>1. Expel(t, Empty) /\ faults' = faults
    BY <1>3 DEF RefuseRefresh
  <2>2. QED  BY <1>0, <2>1, ExpelInv
<1>4. QED  BY <1>1, <1>2, <1>3

LEMMA RotateInv ==
  ASSUME Inv, NEW t \in Tabs, NEW s \in Slots, Rotate(t, s) PROVE Inv'
<1> DEFINE c == call[t][s]
           d == [c EXCEPT !.at = "rotated", !.token = NextPair]
<1>0. /\ c \in CallType /\ c.with \in Pairs /\ owner[c.with] \in Users
      /\ Minted(c.with, owner) /\ c.with \in 0..MaxPairs
  <2>1. c \in CallType /\ Sound(c, owner) /\ c.at = "refresh"
    BY DEF Inv, CallInv, Rotate
  <2>2. Minted(c.with, owner) /\ c.with \in 0..MaxPairs
    BY <2>1 DEF Sound, CallType
  <2>3. c.with \in Pairs
    BY <2>2, TokenIsPair DEF Minted
  <2>4. owner[c.with] \in Users
    BY <2>2, <2>3 DEF Inv, TokenInv, Minted
  <2>5. QED  BY <2>1, <2>2, <2>3, <2>4
<1>1. /\ Fresh # {} /\ owner' = [owner EXCEPT ![NextPair] = owner[c.with]]
      /\ SetCall(t, s, d) /\ spent' = spent \cup {c.with}
      /\ UNCHANGED <<store, tab, expired, foreign, out, late, faults>>
  BY DEF Rotate, Spend, history
<1>2. /\ owner' \in [Pairs -> Users \cup {NoUser}]
      /\ NextPair \in 1..MaxPairs /\ Minted(NextPair, owner')
      /\ \A g \in 0..MaxPairs : Minted(g, owner) => Minted(g, owner')
  BY <1>0, <1>1, Mint
<1>3. d \in CallType /\ d.with = c.with /\ d.token = NextPair
  <2>1. NextPair \in 0..MaxPairs
    BY <1>2, Bounds
  <2>2. d \in CallType
    BY <1>0, <2>1 DEF CallType
  <2>3. d.with = c.with /\ d.token = NextPair
    BY <1>0 DEF CallType
  <2>4. QED  BY <2>2, <2>3
<1>4. Sound(d, owner')
  BY <1>0, <1>2, <1>3 DEF Sound
<1>5. CallInv'
  <2> HIDE DEF d
  <2>1. QED  BY <1>1, <1>2, <1>3, <1>4, SetCallInv
<1>6. StoreInv'
  BY <1>1, <1>2 DEF Inv, StoreInv
<1>7. TokenInv'
  BY <1>0, <1>1, <1>2 DEF Inv, TokenInv
<1>8. TabInv' /\ OutInv'
  BY <1>1 DEF Inv, TabInv, OutInv
<1>9. QED  BY <1>5, <1>6, <1>7, <1>8 DEF Inv

\* The reply of a refresh fills the store: after a logout the token it was sent
\* with is not the stored one, and the reply is late.
LEMMA RefreshReplyInv ==
  ASSUME Inv, NEW t \in Tabs, NEW s \in Slots, RefreshReply(t, s) PROVE Inv'
<1> DEFINE c == call[t][s]
           d == [c EXCEPT !.at = "sent", !.with = IF c.op = "logout" THEN c.with ELSE 0]
<1>0. /\ c \in CallType /\ Sound(c, owner) /\ c.at = "rotated"
      /\ Minted(c.with, owner) /\ Minted(c.token, owner)
  BY DEF Inv, CallInv, RefreshReply, Sound
<1>1. /\ store' = [store EXCEPT !.access = c.token]
      /\ late' = (late \/ c.with # store.refresh)
      /\ SetCall(t, s, d) /\ UNCHANGED <<tab, owner, expired, spent, foreign, out, faults>>
  BY DEF RefreshReply, service
<1>2. d \in CallType /\ d.at = "sent" /\ d.op = c.op /\ (c.op = "logout" => d.with = c.with)
  <2>1. (IF c.op = "logout" THEN c.with ELSE 0) \in 0..MaxPairs
    BY <1>0, Bounds DEF CallType
  <2>2. d \in CallType
    BY <1>0, <2>1 DEF CallType
  <2>3. d.at = "sent" /\ d.op = c.op /\ (c.op = "logout" => d.with = c.with)
    BY <1>0 DEF CallType
  <2>4. QED  BY <2>2, <2>3
<1>3. Sound(d, owner)
  BY <1>0, <1>2 DEF Sound
<1>4. CallInv'
  <2> HIDE DEF d
  <2>1. QED  BY <1>1, <1>2, <1>3, SetCallInv
<1>5. StoreInv'
  <2>1. c.token \in 0..MaxPairs
    BY <1>0 DEF CallType
  <2>2. QED  BY <1>0, <1>1, <2>1 DEF Inv, StoreInv
<1>6. OutInv'
  <2>1. out' = out /\ late' \in BOOLEAN
    BY <1>1 DEF Inv, OutInv
  <2>2. ASSUME out, ~late' PROVE FALSE
    <3>1. store = Empty /\ c.with = store.refresh
      BY <1>1, <2>2 DEF Inv, OutInv
    <3>2. QED  BY <1>0, <3>1 DEF Empty, Minted
  <2>3. QED  BY <2>1, <2>2 DEF Inv, OutInv
<1>7. TokenInv' /\ TabInv'
  BY <1>1 DEF Inv, TokenInv, TabInv
<1>8. QED  BY <1>4, <1>5, <1>6, <1>7 DEF Inv

LEMMA AnswerInv == ASSUME Inv, NEW t \in Tabs, Answer(t) PROVE Inv'
<1>0. "main" \in Slots /\ "page" \in Slots
  BY DEF Slots
<1> DEFINE c == call[t]["main"]
<1>00. c \in CallType /\ Sound(c, owner)
  BY <1>0 DEF Inv, CallInv
<1>1. CASE Served(t)
  <2>1. SetCall(t, "page", Idle)
        /\ UNCHANGED <<store, tab, owner, expired, spent, foreign, out, late, faults>>
    BY <1>1 DEF Served, service, history
  <2>2. TabInv'
    BY <2>1 DEF Inv, TabInv
  <2>3. QED  BY <1>0, <2>1, <2>2, IdleSound, OneCallInv
<1>2. CASE MeReply(t)
  <2>1. /\ SetTab(t, [user |-> owner[c.token], loading |-> FALSE]) /\ SetCall(t, "main", Idle)
        /\ UNCHANGED <<store, owner, expired, spent, foreign, out, late, faults>>
        /\ c.token # 0
    BY <1>2 DEF MeReply, Valid, service, history
  <2>2. owner[c.token] \in Users \cup {NoUser}
    BY <1>00, <2>1, TokenIsPair DEF CallType, Inv, TokenInv
  <2>3. TabInv'
    BY <2>1, <2>2 DEF Inv, TabInv, SetTab
  <2>4. QED  BY <1>0, <2>1, <2>3, IdleSound, OneCallInv
<1>3. CASE LoginReply(t)
  <2>1. /\ c.at = "minted" /\ store' = [access |-> c.token, refresh |-> c.token]
        /\ SetCall(t, "main", Request("me", c.token))
        /\ foreign' = (foreign \cup Tabs) \ {t} /\ out' = FALSE /\ late' = FALSE
        /\ UNCHANGED <<tab, owner, expired, spent, faults>>
    BY <1>3 DEF LoginReply, service
  <2>2. c.token \in 0..MaxPairs /\ Minted(c.token, owner)
    BY <1>00, <2>1 DEF CallType, Sound
  <2>3. StoreInv'
    BY <2>1, <2>2 DEF StoreInv
  <2>4. CallInv'
    BY <1>0, <2>1, <2>2, RequestSound, SetCallInv
  <2>5. TabInv' /\ TokenInv' /\ OutInv'
    BY <2>1 DEF Inv, TabInv, TokenInv, OutInv
  <2>6. QED  BY <2>3, <2>4, <2>5 DEF Inv
<1>4. CASE RevokeLogout(t)
  <2>1. /\ c.op = "logout" /\ spent' = spent \cup {c.with} /\ FinishLogout(t)
        /\ UNCHANGED <<owner, expired, foreign, faults>>
    BY <1>4 DEF RevokeLogout
  <2>2. faults' \in 0..MaxFaults
    BY <2>1 DEF Inv, TabInv
  <2>3. StoreInv' /\ CallInv' /\ TabInv' /\ OutInv'
    BY <2>1, <2>2, FinishLogoutInv
  <2>4. c.with \in Pairs
    BY <1>00, <2>1, TokenIsPair DEF CallType, Sound, Minted
  <2>5. TokenInv'
    BY <2>1, <2>4 DEF Inv, TokenInv
  <2>6. QED  BY <2>3, <2>5 DEF Inv
<1>5. CASE \E u \in Users : MintLogin(t, u)
  <2> PICK u \in Users : MintLogin(t, u)  BY <1>5
  <2> DEFINE d == [c EXCEPT !.at = "minted", !.token = NextPair]
  <2>1. /\ c.op = "login" /\ Fresh # {} /\ owner' = [owner EXCEPT ![NextPair] = u]
        /\ SetCall(t, "main", d)
        /\ UNCHANGED <<store, tab, expired, spent, foreign, out, late, faults>>
    BY DEF MintLogin, history
  <2>2. /\ owner' \in [Pairs -> Users \cup {NoUser}]
        /\ NextPair \in 1..MaxPairs /\ Minted(NextPair, owner')
        /\ \A g \in 0..MaxPairs : Minted(g, owner) => Minted(g, owner')
    BY <2>1, Mint
  <2>3. d \in CallType /\ d.at = "minted" /\ d.token = NextPair /\ d.op = "login"
    <3>1. NextPair \in 0..MaxPairs
      BY <2>2, Bounds
    <3>2. d \in CallType
      BY <1>00, <3>1 DEF CallType
    <3>3. d.at = "minted" /\ d.token = NextPair /\ d.op = c.op
      BY <1>00 DEF CallType
    <3>4. QED  BY <2>1, <3>2, <3>3
  <2>4. Sound(d, owner')
    BY <2>2, <2>3 DEF Sound
  <2>5. CallInv'
    <3> HIDE DEF d
    <3>1. QED  BY <1>0, <2>1, <2>2, <2>3, <2>4, SetCallInv
  <2>6. StoreInv'
    BY <2>1, <2>2 DEF Inv, StoreInv
  <2>7. TokenInv' /\ TabInv' /\ OutInv'
    BY <2>1, <2>2 DEF Inv, TokenInv, TabInv, OutInv
  <2>8. QED  BY <2>5, <2>6, <2>7 DEF Inv
<1>6. CASE \E s \in Slots : Refused(t, s) \/ Lost(t, s) \/ RefuseRefresh(t, s)
  BY <1>6, ErrorInv
<1>7. CASE \E s \in Slots : Rotate(t, s)
  BY <1>7, RotateInv
<1>8. CASE \E s \in Slots : RefreshReply(t, s)
  BY <1>8, RefreshReplyInv
<1>9. QED  BY <1>1, <1>2, <1>3, <1>4, <1>5, <1>6, <1>7, <1>8 DEF Answer

LEMMA ExpireInv == ASSUME Inv, NEW g \in Pairs, Expire(g) PROVE Inv'
BY DEF Expire, history, Inv, StoreInv, CallInv, TokenInv, TabInv, OutInv

-----------------------------------------------------------------------------

\* The strengthening is inductive.
THEOREM InvAlways == Spec => []Inv
<1>1. Inv /\ [Next]_vars => Inv'
  <2> SUFFICES ASSUME Inv, [Next]_vars PROVE Inv'  OBVIOUS
  <2>1. CASE UNCHANGED vars
    BY <2>1 DEF vars, service, history, Inv, StoreInv, CallInv, TokenInv, TabInv, OutInv
  <2>2. CASE Next
    BY <2>2, StartInv, ActInv, AnswerInv, ExpireInv DEF Next
  <2>3. QED  BY <2>1, <2>2
<1>2. QED  BY <1>1, InitInv, PTL DEF Spec

\* After a logout the browser holds no token until somebody logs in, unless a
\* refresh sent before it is answered after it (logout and the response
\* interceptor of AuthContext.jsx and axios.js), for all values of the constants.
THEOREM LogoutLasts == Spec => []LoggedOutStays
<1>1. Inv => LoggedOutStays
  <2> SUFFICES ASSUME Inv PROVE LoggedOutStays  OBVIOUS
  <2>1. ASSUME NEW t \in Tabs, call[t]["main"].op = "logout" PROVE call[t]["main"].with # 0
    BY <2>1 DEF Inv, CallInv, Slots, Sound, Minted
  <2>2. Types
    BY <2>1 DEF Types, Inv, StoreInv, CallInv, TokenInv, TabInv, OutInv, Minted
  <2>3. QED  BY <2>2 DEF LoggedOutStays, Inv, OutInv
<1>2. QED  BY <1>1, InvAlways, PTL

-----------------------------------------------------------------------------
(* Whose tokens are stored, and how often they were renewed *)

\* A call is one its slot can have; a login is sent from a tab nobody is signed
\* in on; a refresh that was answered has used up its token and minted for the
\* same user; and a tab asks who it is with a token that was minted.
Fits(t, s) ==
  /\ call[t][s].op \in IF s = "page" THEN {"none", "data"} ELSE {"none", "me", "login", "logout"}
  /\ call[t][s].op = "login" => tab[t] = SignedOut
  /\ call[t][s].at = "minted" => call[t][s].op = "login"
  /\ call[t][s].at = "rotated" =>
       call[t][s].with \in spent /\ owner[call[t][s].token] = owner[call[t][s].with]
  /\ call[t][s].op = "me" => Minted(call[t][s].token, owner)

FitInv ==
  \A t \in Tabs : /\ tab[t].loading => tab[t].user = NoUser
                  /\ \A s \in Slots : Fits(t, s)

\* Both tokens of the store are of one user, as long as no refresh came late.
StoreFit ==
  /\ store.access = 0 => store.refresh = 0
  /\ store.access # 0 /\ store.refresh # 0 /\ ~late => owner[store.access] = owner[store.refresh]
  /\ RenewedOnce

Asking(t) == call[t]["main"].op = "me" /\ call[t]["main"].at = "sent"

\* What a tab shows, and what it is about to show, is the user of the store.
Agrees(t) ==
  store.access # 0 /\ ~late /\ t \notin foreign =>
    /\ tab[t].user # NoUser => tab[t].user = owner[store.access]
    /\ Asking(t) => owner[call[t]["main"].token] = owner[store.access]

SessionInv == FitInv /\ StoreFit /\ \A t \in Tabs : Agrees(t)

\* Nothing is taken back at the service.
Keeps ==
  /\ spent \subseteq spent'
  /\ \A g \in 0..MaxPairs : Minted(g, owner) => Minted(g, owner') /\ owner'[g] = owner[g]

OnlyTab(t) == \A u \in Tabs \ {t} : tab'[u] = tab[u] /\ call'[u] = call[u]

\* What a step writes of the service: more spent tokens, and one new pair at most.
Writes ==
  /\ spent \subseteq spent'
  /\ \/ owner' = owner
     \/ /\ Fresh # {}
        /\ \E u : owner' = [owner EXCEPT ![NextPair] = u]

LEMMA AnswerWrites ==
  ASSUME NEW t \in Tabs, Answer(t) PROVE Writes
<1>1. ASSUME NEW tokens, MaySpend(tokens) PROVE spent \subseteq spent'
  BY <1>1 DEF MaySpend
<1>2. ASSUME NEW k, Expel(t, k) PROVE Writes
  BY <1>1, <1>2 DEF Expel, Writes
<1>3. ASSUME NEW s \in Slots, Reject(t, s) PROVE owner' = owner
  BY <1>3 DEF Reject
<1>4. ASSUME NEW s \in Slots, On401(t, s) PROVE Writes
  <2>1. CASE Reject(t, s) /\ UNCHANGED spent
    BY <1>3, <2>1 DEF Writes
  <2>2. CASE Expel(t, [store EXCEPT !.access = 0])
    BY <1>2, <2>2
  <2>3. CASE UNCHANGED service
    BY <2>3 DEF Writes, service
  <2>4. QED  BY <1>4, <2>1, <2>2, <2>3 DEF On401
<1>5. CASE Served(t) \/ MeReply(t) \/ LoginReply(t)
  BY <1>5 DEF Served, MeReply, LoginReply, Writes, service
<1>6. CASE RevokeLogout(t)
  BY <1>6 DEF RevokeLogout, Writes
<1>7. ASSUME NEW u \in Users, MintLogin(t, u) PROVE Writes
  BY <1>7 DEF MintLogin, Writes
<1>8. ASSUME NEW s \in Slots, Refused(t, s) PROVE Writes
  BY <1>4, <1>8 DEF Refused
<1>9. ASSUME NEW s \in Slots, Lost(t, s) PROVE Writes
  <2>1. CASE Expel(t, Empty)
    BY <1>2, <2>1
  <2>2. CASE On401(t, s)
    BY <1>4, <2>2
  <2>3. CASE Reject(t, s) /\ MaySpend(IF call[t][s].op = "logout" THEN {call[t][s].with} ELSE {})
    BY <1>1, <1>3, <2>3 DEF Writes
  <2>4. QED  BY <1>9, <2>1, <2>2, <2>3 DEF Lost
<1>10. ASSUME NEW s \in Slots, RefuseRefresh(t, s) PROVE Writes
  BY <1>2, <1>10 DEF RefuseRefresh
<1>11. ASSUME NEW s \in Slots, Rotate(t, s) PROVE Writes
  BY <1>11 DEF Rotate, Spend, Writes
<1>12. ASSUME NEW s \in Slots, RefreshReply(t, s) PROVE Writes
  BY <1>12 DEF RefreshReply, Writes, service
<1>13. QED
  BY <1>5, <1>6, <1>7, <1>8, <1>9, <1>10, <1>11, <1>12 DEF Answer

LEMMA KeepsPairs ==
  ASSUME Inv, Next PROVE Keeps
<1>1. spent \subseteq spent'
  <2>1. ASSUME NEW t \in Tabs, Start(t) PROVE spent' = spent
    BY <2>1 DEF Start, service
  <2>2. ASSUME NEW t \in Tabs, Act(t) PROVE spent \subseteq spent'
    BY <2>2 DEF Act, SubmitLogin, Logout, Browse, PressReload, MaySpend, service
  <2>3. ASSUME NEW g \in Pairs, Expire(g) PROVE spent' = spent
    BY <2>3 DEF Expire
  <2>4. QED  BY <2>1, <2>2, <2>3, AnswerWrites DEF Next, Writes
<1>2. \/ owner' = owner
      \/ /\ Fresh # {}
         /\ \E u : owner' = [owner EXCEPT ![NextPair] = u]
  <2>1. ASSUME NEW t \in Tabs, Start(t) PROVE owner' = owner
    BY <2>1 DEF Start, service
  <2>2. ASSUME NEW t \in Tabs, Act(t) PROVE owner' = owner
    BY <2>2 DEF Act, SubmitLogin, Logout, Browse, PressReload, service
  <2>3. ASSUME NEW g \in Pairs, Expire(g) PROVE owner' = owner
    BY <2>3 DEF Expire
  <2>4. QED  BY <2>1, <2>2, <2>3, AnswerWrites DEF Next, Writes
<1>3. ASSUME NEW g \in 0..MaxPairs, Minted(g, owner)
      PROVE  Minted(g, owner') /\ owner'[g] = owner[g]
  <2>1. CASE owner' = owner
    BY <1>3, <2>1
  <2>2. CASE Fresh # {} /\ \E u : owner' = [owner EXCEPT ![NextPair] = u]
    <3>1. g # NextPair /\ g \in Pairs
      BY <1>3, <2>2, FreshPair, TokenIsPair DEF Minted
    <3>2. owner'[g] = owner[g]
      BY <2>2, <3>1 DEF Inv, TokenInv
    <3>3. QED  BY <1>3, <3>2 DEF Minted
  <2>3. QED  BY <1>2, <2>1, <2>2
<1>4. QED  BY <1>1, <1>3 DEF Keeps

\* No step but one of its own changes a tab or its calls.
LEMMA Alone ==
  ASSUME Inv, NEW t \in Tabs, Start(t) \/ Act(t) \/ Answer(t) PROVE OnlyTab(t)
<1>0. /\ tab \in [Tabs -> [user : Users \cup {NoUser}, loading : BOOLEAN]]
      /\ call \in [Tabs -> [Slots -> CallType]]
  BY DEF Inv, TabInv, CallInv
<1> USE DEF OnlyTab, SetTab, SetCall
<1>1. CASE Start(t)
  BY <1>0, <1>1 DEF Start
<1>2. ASSUME FinishLogout(t) PROVE OnlyTab(t)
  BY <1>0, <1>2 DEF FinishLogout
<1>3. ASSUME Reload(t) PROVE OnlyTab(t)
  BY <1>0, <1>3 DEF Reload
<1>4. CASE Act(t)
  BY <1>0, <1>2, <1>3, <1>4 DEF Act, SubmitLogin, Logout, Browse, PressReload
<1>5. ASSUME NEW s \in Slots, Reject(t, s) PROVE OnlyTab(t)
  BY <1>0, <1>2, <1>5 DEF Reject
<1>6. ASSUME NEW s \in Slots, On401(t, s) PROVE OnlyTab(t)
  BY <1>0, <1>3, <1>5, <1>6 DEF On401, Expel
<1>7. CASE \E s \in Slots : Refused(t, s) \/ Lost(t, s) \/ RefuseRefresh(t, s)
  BY <1>3, <1>5, <1>6, <1>7 DEF Refused, Lost, RefuseRefresh, Expel
<1>8. CASE \E s \in Slots : Rotate(t, s) \/ RefreshReply(t, s)
  BY <1>0, <1>8 DEF Rotate, RefreshReply
<1>9. CASE Served(t) \/ MeReply(t) \/ LoginReply(t) \/ RevokeLogout(t) \/ \E u \in Users : MintLogin(t, u)
  BY <1>0, <1>2, <1>9 DEF Served, MeReply, LoginReply, RevokeLogout, MintLogin
<1>10. QED  BY <1>1, <1>4, <1>7, <1>8, <1>9 DEF Answer

\* A call that stays as it is still fits.
LEMMA CallStays ==
  ASSUME Inv, Keeps, NEW t \in Tabs, NEW s \in Slots, Fits(t, s), call'[t][s] = call[t][s],
         call[t][s].op = "login" => tab'[t] = tab[t]
  PROVE  Fits(t, s)'
<1>1. call[t][s] \in CallType /\ Sound(call[t][s], owner)
  BY DEF Inv, CallInv
<1>2. call[t][s].token \in 0..MaxPairs /\ call[t][s].with \in 0..MaxPairs
  BY <1>1 DEF CallType
<1>3. QED  BY <1>1, <1>2 DEF Fits, Keeps, Sound

LEMMA IdleFits ==
  ASSUME NEW t, NEW s, call'[t][s] = Idle PROVE Fits(t, s)'
BY DEF Fits, Idle

\* It is enough to look at the tab that moved.
LEMMA FitStep ==
  ASSUME Inv, FitInv, Keeps, NEW t \in Tabs, OnlyTab(t), tab'[t].loading => tab'[t].user = NoUser,
         Fits(t, "main")', Fits(t, "page")'
  PROVE  FitInv'
<1>1. ASSUME NEW u \in Tabs, u # t
      PROVE  /\ tab'[u].loading => tab'[u].user = NoUser
             /\ \A s \in Slots : Fits(u, s)'
  <2>1. tab'[u] = tab[u] /\ call'[u] = call[u]
    BY <1>1 DEF OnlyTab
  <2>2. \A s \in Slots : Fits(u, s)'
    BY <2>1, CallStays DEF FitInv
  <2>3. QED  BY <2>1, <2>2 DEF FitInv
<1>2. \A s \in Slots : Fits(t, s)'
  BY DEF Slots
<1>3. QED  BY <1>1, <1>2 DEF FitInv

\* An empty store is nobody's.
LEMMA EmptyFits ==
  ASSUME store' = Empty
  PROVE  StoreFit' /\ \A u \in Tabs : Agrees(u)'
BY DEF Empty, StoreFit, RenewedOnce, Agrees

LEMMA StoreStays ==
  ASSUME Inv, Keeps, StoreFit, store' = store, late' = late PROVE StoreFit'
<1>1. /\ store.access # 0 => owner'[store.access] = owner[store.access]
      /\ store.refresh # 0 => owner'[store.refresh] = owner[store.refresh]
  BY DEF Inv, StoreInv, Keeps
<1>2. QED  BY <1>1 DEF StoreFit, RenewedOnce, Keeps

\* A tab agrees with an unchanged store unless it learns something new.
LEMMA AgreesStays ==
  ASSUME Inv, Keeps, FitInv, NEW u \in Tabs, Agrees(u), UNCHANGED <<store, late, foreign>>,
         tab'[u].user \in {tab[u].user, NoUser},
         Asking(u)' => call'[u]["main"] = call[u]["main"]
  PROVE  Agrees(u)'
<1>1. store.access # 0 => owner'[store.access] = owner[store.access]
  BY DEF Inv, StoreInv, Keeps
<1>2. ASSUME Asking(u)' PROVE Asking(u) /\ owner'[call[u]["main"].token] = owner[call[u]["main"].token]
  <2>1. Asking(u) /\ call[u]["main"] \in CallType /\ Minted(call[u]["main"].token, owner)
    BY <1>2 DEF Asking, Inv, CallInv, FitInv, Fits, Slots
  <2>2. call[u]["main"].token \in 0..MaxPairs
    BY <2>1 DEF CallType
  <2>3. QED  BY <2>1, <2>2 DEF Keeps
<1>3. QED  BY <1>1, <1>2 DEF Agrees, Asking

\* A step that sets one call of a tab and nothing else of the browser.
LEMMA CallStep ==
  ASSUME Inv, SessionInv, Keeps, NEW t \in Tabs, NEW s \in Slots, OnlyTab(t),
         UNCHANGED <<store, tab, late, foreign>>,
         \A x \in Slots \ {s} : call'[t][x] = call[t][x], Fits(t, s)',
         Asking(t)' => call'[t]["main"] = call[t]["main"]
  PROVE  SessionInv'
<1>1. \A x \in Slots : Fits(t, x)'
  BY CallStays DEF SessionInv, FitInv
<1>2. Fits(t, "main")' /\ Fits(t, "page")' /\ (tab'[t].loading => tab'[t].user = NoUser)
  BY <1>1 DEF Slots, SessionInv, FitInv
<1>3. FitInv'
  BY <1>2, FitStep DEF SessionInv
<1>4. \A u \in Tabs : Agrees(u)'
  <2>1. ASSUME NEW u \in Tabs PROVE Agrees(u)'
    <3>1. tab'[u].user \in {tab[u].user, NoUser} /\ (Asking(u)' => call'[u]["main"] = call[u]["main"])
      BY DEF OnlyTab
    <3>2. QED  BY <3>1, AgreesStays DEF SessionInv
  <2>2. QED  BY <2>1
<1>5. QED  BY <1>3, <1>4, StoreStays DEF SessionInv

\* A step that empties the store, or reloads or signs out its tab.
LEMMA ResetStep ==
  ASSUME Inv, SessionInv, Keeps, NEW t \in Tabs, OnlyTab(t),
         tab'[t] \in {Loading, SignedOut}, call'[t]["main"] = Idle,
         call'[t]["page"] \in {Idle, call[t]["page"]},
         store' = Empty \/ UNCHANGED <<store, late, foreign>>
  PROVE  SessionInv'
<1>1. Fits(t, "main")' /\ Fits(t, "page")'
  <2>1. call[t]["page"].op # "login" /\ Fits(t, "page") /\ "page" \in Slots
    BY DEF SessionInv, FitInv, Fits, Slots
  <2>2. QED  BY <2>1, IdleFits, CallStays
<1>2. tab'[t].loading => tab'[t].user = NoUser
  BY DEF Loading, SignedOut
<1>3. FitInv'
  BY <1>1, <1>2, FitStep DEF SessionInv
<1>4. CASE store' = Empty
  BY <1>3, <1>4, EmptyFits DEF SessionInv
<1>5. CASE UNCHANGED <<store, late, foreign>>
  <2>1. ASSUME NEW u \in Tabs PROVE Agrees(u)'
    <3>1. tab'[u].user \in {tab[u].user, NoUser} /\ (Asking(u)' => call'[u]["main"] = call[u]["main"])
      BY DEF OnlyTab, Loading, SignedOut, Asking, Idle
    <3>2. QED  BY <1>5, <3>1, AgreesStays DEF SessionInv
  <2>2. QED  BY <1>3, <1>5, <2>1, StoreStays DEF SessionInv
<1>6. QED  BY <1>4, <1>5

LEMMA SessionInit == Init => SessionInv
BY DEF Init, SessionInv, FitInv, Fits, Loading, Idle, StoreFit, Empty, RenewedOnce, Agrees

\* The response interceptor and the code behind it.
LEMMA RejectSession ==
  ASSUME Inv, SessionInv, Keeps, NEW t \in Tabs, NEW s \in Slots, OnlyTab(t), Reject(t, s)
  PROVE  SessionInv'
<1>0. /\ call \in [Tabs -> [Slots -> CallType]] /\ Fits(t, s) /\ foreign' = foreign
      /\ tab \in [Tabs -> [user : Users \cup {NoUser}, loading : BOOLEAN]]
  BY DEF Inv, CallInv, TabInv, SessionInv, FitInv, Reject
<1>1. CASE call[t][s].op \in {"me", "logout"}
  <2>1. s = "main"
    BY <1>0, <1>1 DEF Fits, Slots
  <2>2. store' = Empty /\ SetTab(t, SignedOut) /\ SetCall(t, "main", Idle)
    BY <1>1, <2>1 DEF Reject, FinishLogout, Removed
  <2>3. /\ tab'[t] = SignedOut /\ call'[t]["main"] = Idle /\ call'[t]["page"] = call[t]["page"]
    BY <1>0, <2>2 DEF SetTab, SetCall, Slots
  <2>4. QED  BY <2>2, <2>3, ResetStep
<1>2. CASE call[t][s].op \in {"login", "data"}
  <2>1. SetCall(t, s, Idle) /\ UNCHANGED <<store, tab, late>>
    BY <1>2 DEF Reject
  <2>2. call'[t][s] = Idle /\ \A x \in Slots \ {s} : call'[t][x] = call[t][x]
    BY <1>0, <2>1 DEF SetCall
  <2>3. Asking(t)' => call'[t]["main"] = call[t]["main"]
    BY <2>2 DEF Asking, Idle, Slots
  <2>4. Fits(t, s)'
    BY <2>2, IdleFits
  <2>5. QED  BY <1>0, <2>1, <2>2, <2>3, <2>4, CallStep
<1>3. QED  BY <1>1, <1>2 DEF Reject

LEMMA ExpelSession ==
  ASSUME Inv, SessionInv, Keeps, NEW t \in Tabs, OnlyTab(t), Expel(t, Empty)
  PROVE  SessionInv'
<1>1. store' = Empty /\ Reload(t)
  BY DEF Expel
<1>2. tab'[t] = Loading /\ call'[t]["main"] = Idle /\ call'[t]["page"] = Idle
  BY <1>1 DEF Reload, Inv, TabInv, CallInv, Slots
<1>3. QED  BY <1>1, <1>2, ResetStep

LEMMA On401Session ==
  ASSUME Inv, SessionInv, Keeps, NEW t \in Tabs, NEW s \in Slots, OnlyTab(t), On401(t, s),
         call[t][s].at = "sent"
  PROVE  SessionInv'
<1> DEFINE c == call[t][s]
<1>0. /\ call \in [Tabs -> [Slots -> CallType]] /\ Fits(t, s) /\ c \in CallType
  BY DEF Inv, CallInv, SessionInv, FitInv
<1>1. CASE c.retried
  BY <1>1, RejectSession DEF On401
<1>2. CASE ~c.retried /\ store.refresh # 0
  <2>1. PICK d \in {[c EXCEPT !.at = "refresh", !.with = store.refresh, !.retried = TRUE]} :
          SetCall(t, s, d) /\ UNCHANGED <<store, tab, owner, spent, foreign, late>>
    BY <1>2 DEF On401, service, history
  <2>2. d.at = "refresh" /\ d.op = c.op /\ d.token = c.token
    BY <1>0, <2>1 DEF CallType
  <2>3. call'[t][s] = d /\ \A x \in Slots \ {s} : call'[t][x] = call[t][x]
    BY <1>0, <2>1 DEF SetCall
  <2>4. Fits(t, s)'
    BY <1>0, <2>1, <2>2, <2>3 DEF Fits
  <2>5. Asking(t)' => call'[t]["main"] = call[t]["main"]
    BY <2>2, <2>3 DEF Asking, Slots
  <2>6. QED  BY <2>1, <2>3, <2>4, <2>5, CallStep
<1>3. CASE ~c.retried /\ store.refresh = 0
  <2>1. Expel(t, [store EXCEPT !.access = 0])
    BY <1>3 DEF On401
  <2>2. [store EXCEPT !.access = 0] = Empty
    BY <1>3 DEF Inv, StoreInv, Empty
  <2>3. QED  BY <2>1, <2>2, ExpelSession
<1>4. QED  BY <1>1, <1>2, <1>3

LEMMA StartSession ==
  ASSUME Inv, SessionInv, Keeps, NEW t \in Tabs, OnlyTab(t), Start(t)
  PROVE  SessionInv'
<1>0. /\ call \in [Tabs -> [Slots -> CallType]] /\ ~Busy(t, "main")
      /\ tab \in [Tabs -> [user : Users \cup {NoUser}, loading : BOOLEAN]]
      /\ UNCHANGED <<store, owner, spent, late>> /\ tab[t].loading
      /\ tab[t].user = NoUser /\ "main" \in Slots /\ "page" \in Slots
  BY DEF Inv, CallInv, TabInv, Start, service, SessionInv, FitInv, Slots
<1>1. CASE store.access = 0
  <2>1. SetTab(t, SignedOut) /\ UNCHANGED <<call, foreign>> /\ store' = Empty
    BY <1>0, <1>1 DEF Start, SessionInv, StoreFit, Inv, StoreInv, Empty
  <2>2. tab'[t] = SignedOut
    BY <1>0, <2>1 DEF SetTab
  <2>3. ASSUME NEW s \in Slots PROVE Fits(t, s)'
    <3>1. Fits(t, s) /\ call'[t][s] = call[t][s] /\ call[t][s].op # "login"
      BY <1>0, <2>1 DEF SessionInv, FitInv, Fits, SignedOut
    <3>2. QED  BY <3>1, CallStays
  <2>4. FitInv'
    BY <1>0, <2>2, <2>3, FitStep DEF SessionInv, SignedOut
  <2>5. QED  BY <2>1, <2>4, EmptyFits DEF SessionInv
<1>2. CASE store.access # 0
  <2>1. /\ SetCall(t, "main", Request("me", store.access)) /\ foreign' = foreign \ {t}
        /\ tab' = tab
    BY <1>2 DEF Start
  <2>2. /\ call'[t]["main"] = Request("me", store.access) /\ call'[t]["page"] = call[t]["page"]
    BY <1>0, <2>1 DEF SetCall, Slots
  <2>3. /\ call'[t]["main"].op = "me" /\ call'[t]["main"].at = "sent"
        /\ call'[t]["main"].token = store.access
    BY <2>2 DEF Request
  <2>4. Minted(store.access, owner')
    BY <1>0, <1>2 DEF Inv, StoreInv
  <2>5. Fits(t, "main")'
    BY <2>3, <2>4 DEF Fits
  <2>6. Fits(t, "page")'
    BY <1>0, <2>1, <2>2, CallStays DEF SessionInv, FitInv
  <2>7. FitInv'
    BY <1>0, <2>1, <2>5, <2>6, FitStep DEF SessionInv
  <2>8. ASSUME NEW u \in Tabs PROVE Agrees(u)'
    <3>1. CASE u = t
      BY <1>0, <2>1, <2>3, <3>1 DEF Agrees
    <3>2. CASE u # t
      <4>1. call'[u] = call[u] /\ (u \in foreign' <=> u \in foreign)
        BY <2>1, <3>2 DEF OnlyTab
      <4>2. Agrees(u)
        BY DEF SessionInv
      <4>3. QED  BY <1>0, <2>1, <4>1, <4>2 DEF Agrees, Asking
    <3>3. QED  BY <3>1, <3>2
  <2>9. QED  BY <1>0, <2>7, <2>8, StoreStays DEF SessionInv
<1>3. QED  BY <1>1, <1>2

LEMMA ActSession ==
  ASSUME Inv, SessionInv, Keeps, NEW t \in Tabs, OnlyTab(t), Act(t)
  PROVE  SessionInv'
<1>0. /\ call \in [Tabs -> [Slots -> CallType]] /\ store.access \in 0..MaxPairs
      /\ tab \in [Tabs -> [user : Users \cup {NoUser}, loading : BOOLEAN]]
      /\ "main" \in Slots /\ "page" \in Slots
  BY DEF Inv, CallInv, TabInv, StoreInv, Slots
\* A call that is sent and does not ask who the tab is.
<1>1. ASSUME NEW s \in Slots, NEW c \in CallType, SetCall(t, s, c),
             UNCHANGED <<store, tab, foreign, late>>, c.at = "sent",
             c.op \in IF s = "page" THEN {"data"} ELSE {"login", "logout"},
             c.op = "login" => tab[t] = SignedOut
      PROVE  SessionInv'
  <2>1. call'[t][s] = c /\ \A x \in Slots \ {s} : call'[t][x] = call[t][x]
    BY <1>0, <1>1 DEF SetCall
  <2>2. Fits(t, s)'
    BY <1>1, <2>1 DEF Fits
  <2>3. Asking(t)' => call'[t]["main"] = call[t]["main"]
    BY <1>1, <2>1 DEF Asking, Slots
  <2>4. QED  BY <1>1, <2>1, <2>2, <2>3, CallStep
<1>2. CASE SubmitLogin(t)
  <2>1. /\ SetCall(t, "main", Request("login", store.access)) /\ tab[t] = SignedOut
        /\ UNCHANGED <<store, tab, foreign, late>>
    BY <1>0, <1>2 DEF SubmitLogin, LoginOpen, SignedOut, history
  <2>2. /\ Request("login", store.access) \in CallType
        /\ Request("login", store.access).at = "sent" /\ Request("login", store.access).op = "login"
    BY <1>0, RequestSound DEF Request
  <2>3. QED  BY <1>0, <1>1, <2>1, <2>2
<1>3. CASE Browse(t)
  <2>1. /\ SetCall(t, "page", Request("data", store.access))
        /\ UNCHANGED <<store, tab, foreign, late>>
    BY <1>3 DEF Browse, history
  <2>2. /\ Request("data", store.access) \in CallType
        /\ Request("data", store.access).at = "sent" /\ Request("data", store.access).op = "data"
    BY <1>0, RequestSound DEF Request
  <2>3. QED  BY <1>0, <1>1, <2>1, <2>2
<1>4. CASE Logout(t) /\ store.refresh # 0
  <2>1. PICK c \in {[Request("logout", store.access) EXCEPT !.with = store.refresh]} :
          SetCall(t, "main", c) /\ UNCHANGED <<store, tab, foreign, late>>
    BY <1>4 DEF Logout
  <2>2. c \in CallType /\ c.at = "sent" /\ c.op = "logout"
    BY <1>0, <2>1 DEF Request, Retried, CallType, Inv, StoreInv
  <2>3. QED  BY <1>0, <1>1, <2>1, <2>2
<1>5. CASE Logout(t) /\ store.refresh = 0
  <2>1. FinishLogout(t)
    BY <1>5 DEF Logout
  <2>2. /\ store' = Empty /\ tab'[t] = SignedOut /\ call'[t]["main"] = Idle
        /\ call'[t]["page"] = call[t]["page"]
    BY <1>0, <2>1 DEF FinishLogout, Removed, SetTab, SetCall, Slots
  <2>3. QED  BY <2>2, ResetStep
<1>6. CASE PressReload(t)
  <2>1. Reload(t) /\ UNCHANGED <<store, foreign, late>>
    BY <1>6 DEF PressReload, history
  <2>2. tab'[t] = Loading /\ call'[t]["main"] = Idle /\ call'[t]["page"] = Idle
    BY <1>0, <2>1 DEF Reload
  <2>3. QED  BY <2>1, <2>2, ResetStep
<1>7. QED  BY <1>2, <1>3, <1>4, <1>5, <1>6 DEF Act

\* Only the login of its own tab and refreshes of its session fill the store with
\* what a tab does not know.
LEMMA LoginSession ==
  ASSUME Inv, SessionInv, Keeps, NEW t \in Tabs, OnlyTab(t), LoginReply(t)
  PROVE  SessionInv'
<1> DEFINE c == call[t]["main"]
<1>0. /\ call \in [Tabs -> [Slots -> CallType]] /\ "main" \in Slots /\ "page" \in Slots
      /\ c.at = "minted" /\ Minted(c.token, owner) /\ c.op = "login" /\ tab[t] = SignedOut
  BY DEF Inv, CallInv, Sound, LoginReply, SessionInv, FitInv, Fits, Slots
<1>1. /\ store' = [access |-> c.token, refresh |-> c.token]
      /\ SetCall(t, "main", Request("me", c.token))
      /\ foreign' = (foreign \cup Tabs) \ {t} /\ late' = FALSE
      /\ UNCHANGED <<tab, owner, spent>>
  BY DEF LoginReply, service
<1>2. call'[t]["main"] = Request("me", c.token) /\ call'[t]["page"] = call[t]["page"]
  BY <1>0, <1>1 DEF SetCall, Slots
<1>3. call'[t]["main"].op = "me" /\ call'[t]["main"].at = "sent" /\ call'[t]["main"].token = c.token
  BY <1>2 DEF Request
<1>4. Fits(t, "main")' /\ Fits(t, "page")'
  <2>1. Fits(t, "main")'
    BY <1>0, <1>1, <1>3 DEF Fits
  <2>2. QED  BY <1>0, <1>1, <1>2, <2>1, CallStays DEF SessionInv, FitInv
<1>5. FitInv'
  BY <1>0, <1>1, <1>4, FitStep DEF SessionInv, SignedOut
<1>6. StoreFit'
  BY <1>0, <1>1 DEF StoreFit, RenewedOnce, Minted
<1>7. ASSUME NEW u \in Tabs PROVE Agrees(u)'
  BY <1>0, <1>1, <1>3 DEF Agrees, SignedOut
<1>8. QED  BY <1>5, <1>6, <1>7 DEF SessionInv

LEMMA RefreshSession ==
  ASSUME Inv, SessionInv, Keeps, NEW t \in Tabs, NEW s \in Slots, OnlyTab(t), RefreshReply(t, s)
  PROVE  SessionInv'
<1> DEFINE c == call[t][s]
<1>0. /\ call \in [Tabs -> [Slots -> CallType]] /\ c \in CallType
      /\ c.at = "rotated" /\ Minted(c.with, owner) /\ Minted(c.token, owner) /\ Fits(t, s)
      /\ c.with \in spent /\ owner[c.token] = owner[c.with]
  BY DEF Inv, CallInv, Sound, RefreshReply, SessionInv, FitInv, Fits
<1>1. PICK d \in {[c EXCEPT !.at = "sent", !.with = IF c.op = "logout" THEN c.with ELSE 0]} :
        /\ SetCall(t, s, d) /\ store' = [store EXCEPT !.access = c.token]
        /\ late' = (late \/ c.with # store.refresh)
        /\ UNCHANGED <<tab, owner, spent, foreign>>
  BY DEF RefreshReply, service
<1>2. d.at = "sent" /\ d.op = c.op /\ d.token = c.token
  BY <1>0, <1>1 DEF CallType
<1>3. call'[t][s] = d /\ \A x \in Slots \ {s} : call'[t][x] = call[t][x]
  BY <1>0, <1>1 DEF SetCall
<1>4. store'.access = c.token /\ store'.refresh = store.refresh /\ c.token # 0
  BY <1>0, <1>1 DEF Inv, StoreInv, Minted
<1>5. Fits(t, s)'
  BY <1>0, <1>1, <1>2, <1>3 DEF Fits
<1>6. \A x \in Slots \ {s} : Fits(t, x)'
  BY <1>1, <1>3, CallStays DEF SessionInv, FitInv
<1>7. FitInv'
  BY <1>1, <1>5, <1>6, FitStep DEF Slots, SessionInv, FitInv
<1>8. ASSUME ~late'
      PROVE  /\ ~late /\ c.with = store.refresh /\ store.access # 0
             /\ owner[c.token] = owner[store.access] /\ owner[c.token] = owner[store.refresh]
  <2>1. ~late /\ c.with = store.refresh /\ store.refresh # 0
    BY <1>0, <1>1, <1>8 DEF Minted
  <2>2. QED  BY <1>0, <2>1 DEF SessionInv, StoreFit
<1>9. StoreFit'
  BY <1>0, <1>1, <1>4, <1>8 DEF StoreFit, RenewedOnce
<1>10. ASSUME NEW u \in Tabs PROVE Agrees(u)'
  <2> SUFFICES ASSUME ~late', u \notin foreign
               PROVE  /\ tab[u].user # NoUser => tab[u].user = owner[c.token]
                      /\ Asking(u)' => owner[call'[u]["main"].token] = owner[c.token]
    BY <1>1, <1>4 DEF Agrees
  <2>1. /\ ~late /\ store.access # 0 /\ owner[c.token] = owner[store.access] /\ Agrees(u)
    BY <1>8 DEF SessionInv
  <2>2. CASE u = t /\ s = "main"
    BY <1>2, <1>3, <2>1, <2>2 DEF Agrees
  <2>3. CASE ~(u = t /\ s = "main")
    <3>1. call'[u]["main"] = call[u]["main"]
      BY <1>3, <2>3 DEF OnlyTab, Slots
    <3>2. QED  BY <2>1, <3>1 DEF Agrees, Asking
  <2>4. QED  BY <2>2, <2>3
<1>11. QED  BY <1>7, <1>9, <1>10 DEF SessionInv

LEMMA AnswerSession ==
  ASSUME Inv, SessionInv, Keeps, NEW t \in Tabs, OnlyTab(t), Answer(t)
  PROVE  SessionInv'
<1>0. /\ call \in [Tabs -> [Slots -> CallType]] /\ "main" \in Slots /\ "page" \in Slots
      /\ tab \in [Tabs -> [user : Users \cup {NoUser}, loading : BOOLEAN]]
      /\ call[t]["main"] \in CallType /\ Fits(t, "main") /\ Fits(t, "page")
  BY DEF Inv, CallInv, TabInv, SessionInv, FitInv, Slots
<1>1. CASE Served(t)
  <2>1. SetCall(t, "page", Idle) /\ UNCHANGED <<store, tab, late, foreign>>
    BY <1>1 DEF Served, history
  <2>2. call'[t]["page"] = Idle /\ call'[t]["main"] = call[t]["main"]
    BY <1>0, <2>1 DEF SetCall, Slots
  <2>3. \A x \in Slots \ {"page"} : call'[t][x] = call[t][x]
    BY <2>2 DEF Slots
  <2>4. QED  BY <1>0, <2>1, <2>2, <2>3, IdleFits, CallStep
<1>2. CASE MeReply(t)
  <2>1. /\ SetTab(t, [user |-> owner[call[t]["main"].token], loading |-> FALSE])
        /\ SetCall(t, "main", Idle) /\ UNCHANGED <<store, owner, spent, foreign, late>>
        /\ Asking(t)
    BY <1>2 DEF MeReply, service, history, Asking
  <2>2. /\ call'[t]["main"] = Idle /\ call'[t]["page"] = call[t]["page"]
        /\ tab'[t] = [user |-> owner[call[t]["main"].token], loading |-> FALSE]
    BY <1>0, <2>1 DEF SetCall, SetTab, Slots
  <2>3. Fits(t, "main")' /\ Fits(t, "page")'
    <3>1. call[t]["page"].op # "login"
      BY <1>0 DEF Fits
    <3>2. QED  BY <1>0, <2>2, <3>1, IdleFits, CallStays
  <2>4. FitInv'
    BY <2>2, <2>3, FitStep DEF SessionInv
  <2>5. ASSUME NEW u \in Tabs PROVE Agrees(u)'
    <3>1. Agrees(u)
      BY DEF SessionInv
    <3>2. CASE u = t
      BY <2>1, <2>2, <3>1, <3>2 DEF Agrees, Asking, Idle
    <3>3. CASE u # t
      BY <2>1, <3>1, <3>3 DEF Agrees, Asking, OnlyTab
    <3>4. QED  BY <3>2, <3>3
  <2>6. QED  BY <2>1, <2>4, <2>5, StoreStays DEF SessionInv
<1>3. CASE LoginReply(t)
  BY <1>3, LoginSession
<1>4. CASE RevokeLogout(t)
  <2>1. FinishLogout(t)
    BY <1>4 DEF RevokeLogout
  <2>2. /\ store' = Empty /\ tab'[t] = SignedOut /\ call'[t]["main"] = Idle
        /\ call'[t]["page"] = call[t]["page"]
    BY <1>0, <2>1 DEF FinishLogout, Removed, SetTab, SetCall, Slots
  <2>3. QED  BY <2>2, ResetStep
<1>5. CASE \E u \in Users : MintLogin(t, u)
  <2>1. PICK d \in {[call[t]["main"] EXCEPT !.at = "minted", !.token = NextPair]} :
          /\ SetCall(t, "main", d) /\ UNCHANGED <<store, tab, foreign, late>>
          /\ call[t]["main"].op = "login"
    BY <1>5 DEF MintLogin, history
  <2>2. d.at = "minted" /\ d.op = "login"
    BY <1>0, <2>1 DEF CallType
  <2>3. call'[t]["main"] = d /\ \A x \in Slots \ {"main"} : call'[t][x] = call[t][x]
    BY <1>0, <2>1 DEF SetCall
  <2>4. Fits(t, "main")' /\ ~Asking(t)'
    BY <1>0, <2>1, <2>2, <2>3 DEF Fits, Asking
  <2>5. QED  BY <1>0, <2>1, <2>3, <2>4, CallStep
<1>6. ASSUME NEW s \in Slots, Refused(t, s) PROVE SessionInv'
  BY <1>6, On401Session DEF Refused
<1>7. ASSUME NEW s \in Slots, Lost(t, s) PROVE SessionInv'
  BY <1>7, ExpelSession, RejectSession, On401Session DEF Lost
<1>8. ASSUME NEW s \in Slots, RefuseRefresh(t, s) PROVE SessionInv'
  BY <1>8, ExpelSession DEF RefuseRefresh
<1>9. ASSUME NEW s \in Slots, Rotate(t, s) PROVE SessionInv'
  <2>0. /\ Fits(t, s) /\ call[t][s] \in CallType /\ Minted(call[t][s].with, owner)
        /\ call[t][s].with \in 0..MaxPairs /\ Fresh # {} /\ call[t][s].at = "refresh"
    BY <1>9 DEF SessionInv, FitInv, Inv, CallInv, Sound, Rotate, CallType
  <2>1. PICK d \in {[call[t][s] EXCEPT !.at = "rotated", !.token = NextPair]} :
          /\ SetCall(t, s, d) /\ UNCHANGED <<store, tab, foreign, late>>
          /\ spent' = spent \cup {call[t][s].with}
          /\ owner' = [owner EXCEPT ![NextPair] = owner[call[t][s].with]]
    BY <1>9 DEF Rotate, Spend, history
  <2>2. /\ d.at = "rotated" /\ d.op = call[t][s].op /\ d.token = NextPair
        /\ d.with = call[t][s].with
    BY <2>0, <2>1 DEF CallType
  <2>3. call'[t][s] = d /\ \A x \in Slots \ {s} : call'[t][x] = call[t][x]
    BY <1>0, <2>1 DEF SetCall
  <2>4. owner'[NextPair] = owner[d.with] /\ owner'[d.with] = owner[d.with] /\ NextPair # 0
    BY <2>0, <2>1, <2>2, FreshPair, Bounds DEF Inv, TokenInv, Keeps, Pairs
  <2>5. Fits(t, s)'
    <3>1. /\ d.op \in IF s = "page" THEN {"none", "data"} ELSE {"none", "me", "login", "logout"}
          /\ d.op = "login" => tab'[t] = SignedOut
      BY <2>0, <2>1, <2>2 DEF Fits
    <3>2. d.with \in spent' /\ owner'[d.token] = owner'[d.with]
      BY <2>1, <2>2, <2>4
    <3>3. Minted(d.token, owner')
      BY <2>0, <2>2, <2>4 DEF Minted
    <3>4. QED  BY <2>2, <2>3, <3>1, <3>2, <3>3 DEF Fits
  <2>6. Asking(t)' => call'[t]["main"] = call[t]["main"]
    BY <2>2, <2>3 DEF Asking, Slots
  <2>7. QED  BY <2>1, <2>3, <2>5, <2>6, CallStep
<1>10. ASSUME NEW s \in Slots, RefreshReply(t, s) PROVE SessionInv'
  BY <1>10, RefreshSession
<1>11. QED  BY <1>1, <1>2, <1>3, <1>4, <1>5, <1>6, <1>7, <1>8, <1>9, <1>10 DEF Answer

LEMMA ExpireSession ==
  ASSUME SessionInv, NEW g, Expire(g) PROVE SessionInv'
BY DEF Expire, history, SessionInv, FitInv, Fits, StoreFit, RenewedOnce, Agrees, Asking

LEMMA SessionStep == Inv /\ SessionInv /\ [Next]_vars => SessionInv'
<1> SUFFICES ASSUME Inv, SessionInv, [Next]_vars PROVE SessionInv'  OBVIOUS
<1>1. CASE UNCHANGED vars
  BY <1>1 DEF vars, service, history, SessionInv, FitInv, Fits, StoreFit, RenewedOnce, Agrees, Asking
<1>2. CASE Next
  <2>1. Keeps
    BY <1>2, KeepsPairs
  <2>2. ASSUME NEW t \in Tabs, Start(t) \/ Act(t) \/ Answer(t) PROVE SessionInv'
    BY <2>1, <2>2, Alone, StartSession, ActSession, AnswerSession
  <2>3. QED  BY <1>2, <2>2, ExpireSession DEF Next
<1>3. QED  BY <1>1, <1>2

\* The strengthened invariant holds of every run.
THEOREM SessionAlways == Spec => []SessionInv
<1>1. Inv /\ SessionInv /\ [Next]_vars => SessionInv'
  BY SessionStep
<1>2. QED  BY <1>1, SessionInit, InvAlways, PTL DEF Spec

\* A tab sends its requests as the user it displays, unless another tab logged in
\* since it asked, or a refresh of an earlier session was answered late; for any
\* number of tabs, users and pairs.
THEOREM TabsSpeakForTheirUser == Spec => []SentAsDisplayed
<1>1. SessionInv => SentAsDisplayed
  BY DEF SessionInv, Agrees, SentAsDisplayed
<1>2. QED  BY <1>1, SessionAlways, PTL

\* A session is renewed once: the successor of the refresh token is not stored,
\* so with an access token of its own the stored one is used up.
THEOREM SessionsAreRenewedOnce == Spec => []RenewedOnce
<1>1. SessionInv => RenewedOnce
  BY DEF SessionInv, StoreFit
<1>2. QED  BY <1>1, SessionAlways, PTL

-----------------------------------------------------------------------------
(* When a session is given up *)

\* A call on its way with the access token of a refresh of its own.
Renewed(c) == c.at = "rotated" \/ (c.at = "sent" /\ c.retried)

\* The pair a refresh brought is none that was logged in with, so its token is
\* never the stored refresh token.
RenewInv ==
  \A t \in Tabs, s \in Slots :
    /\ call[t][s].at \in {"refresh", "rotated"} => call[t][s].retried
    /\ Renewed(call[t][s]) =>
         /\ Minted(call[t][s].token, owner) /\ call[t][s].token # store.refresh
         /\ \A u \in Tabs, x \in Slots :
              call[u][x].at = "minted" => call[u][x].token # call[t][s].token

\* Neither renewed nor about to log in.
Plain(c) ==
  ~Renewed(c) /\ c.at \notin {"minted", "rotated"} /\ (c.at = "refresh" => c.retried)

LEMMA PlainIdle == Plain(Idle)
BY DEF Plain, Renewed, Idle

LEMMA PlainRequest ==
  ASSUME NEW op, NEW token PROVE Plain(Request(op, token))
BY DEF Plain, Renewed, Request, Retried

\* A step that only ends calls and sends plain ones, and stores no new refresh token.
LEMMA RenewKeeps ==
  ASSUME Inv, RenewInv, Keeps, store'.refresh \in {0, store.refresh},
         \A t \in Tabs, s \in Slots : call'[t][s] = call[t][s] \/ Plain(call'[t][s])
  PROVE  RenewInv'
<1> SUFFICES ASSUME NEW t \in Tabs, NEW s \in Slots
             PROVE  /\ call'[t][s].at \in {"refresh", "rotated"} => call'[t][s].retried
                    /\ Renewed(call'[t][s]) =>
                         /\ Minted(call'[t][s].token, owner')
                         /\ call'[t][s].token # store'.refresh
                         /\ \A u \in Tabs, x \in Slots :
                              call'[u][x].at = "minted" => call'[u][x].token # call'[t][s].token
  BY DEF RenewInv
<1>1. CASE Plain(call'[t][s])
  BY <1>1 DEF Plain
<1>2. CASE call'[t][s] = call[t][s]
  <2>1. call[t][s].token \in 0..MaxPairs
    BY DEF Inv, CallInv, CallType
  <2>2. call[t][s].at \in {"refresh", "rotated"} => call[t][s].retried
    BY DEF RenewInv
  <2>3. ASSUME Renewed(call[t][s])
        PROVE  /\ Minted(call[t][s].token, owner') /\ call[t][s].token # store'.refresh
               /\ \A u \in Tabs, x \in Slots :
                    call'[u][x].at = "minted" => call'[u][x].token # call[t][s].token
    <3>1. /\ Minted(call[t][s].token, owner) /\ call[t][s].token # store.refresh
          /\ \A u \in Tabs, x \in Slots :
               call[u][x].at = "minted" => call[u][x].token # call[t][s].token
      BY <2>3 DEF RenewInv
    <3>2. Minted(call[t][s].token, owner') /\ call[t][s].token # store'.refresh
      BY <2>1, <3>1 DEF Keeps, Minted
    <3>3. ASSUME NEW u \in Tabs, NEW x \in Slots, call'[u][x].at = "minted"
          PROVE  call'[u][x].token # call[t][s].token
      BY <3>1, <3>3 DEF Plain
    <3>4. QED  BY <3>2, <3>3
  <2>4. QED  BY <1>2, <2>2, <2>3
<1>3. QED  BY <1>1, <1>2

\* One call is set to c, and the stored refresh token is not written.
LEMMA RenewCall ==
  ASSUME Inv, RenewInv, Keeps, NEW t \in Tabs, NEW s \in Slots, NEW c \in CallType,
         SetCall(t, s, c), store'.refresh = store.refresh,
         c.at \in {"refresh", "rotated"} => c.retried,
         Renewed(c) => /\ Minted(c.token, owner') /\ c.token # store.refresh
                       /\ \A u \in Tabs, x \in Slots :
                            call[u][x].at = "minted" => call[u][x].token # c.token,
         c.at = "minted" => /\ ~Renewed(c)
                            /\ \A u \in Tabs, x \in Slots :
                                 Renewed(call[u][x]) => call[u][x].token # c.token
  PROVE  RenewInv'
<1>1. /\ call'[t][s] = c
      /\ \A u \in Tabs, x \in Slots : (u # t \/ x # s) => call'[u][x] = call[u][x]
  BY DEF SetCall, Inv, CallInv
<1> SUFFICES ASSUME NEW u \in Tabs, NEW x \in Slots
             PROVE  /\ call'[u][x].at \in {"refresh", "rotated"} => call'[u][x].retried
                    /\ Renewed(call'[u][x]) =>
                         /\ Minted(call'[u][x].token, owner')
                         /\ call'[u][x].token # store'.refresh
                         /\ \A v \in Tabs, y \in Slots :
                              call'[v][y].at = "minted" => call'[v][y].token # call'[u][x].token
  BY DEF RenewInv
<1>2. CASE u = t /\ x = s
  <2>1. call'[u][x] = c
    BY <1>1, <1>2
  <2>2. ASSUME Renewed(c), NEW v \in Tabs, NEW y \in Slots, call'[v][y].at = "minted"
        PROVE  call'[v][y].token # c.token
    <3>1. CASE v = t /\ y = s
      BY <1>1, <2>2, <3>1
    <3>2. CASE ~(v = t /\ y = s)
      <4>1. call'[v][y] = call[v][y]
        BY <1>1, <3>2
      <4>2. QED  BY <2>2, <4>1
    <3>3. QED  BY <3>1, <3>2
  <2>3. QED  BY <2>1, <2>2
<1>3. CASE ~(u = t /\ x = s)
  <2>1. call'[u][x] = call[u][x] /\ call[u][x].token \in 0..MaxPairs
    BY <1>1, <1>3 DEF Inv, CallInv, CallType
  <2>2. ASSUME Renewed(call[u][x])
        PROVE  /\ Minted(call[u][x].token, owner') /\ call[u][x].token # store'.refresh
               /\ \A v \in Tabs, y \in Slots :
                    call'[v][y].at = "minted" => call'[v][y].token # call[u][x].token
    <3>1. /\ Minted(call[u][x].token, owner) /\ call[u][x].token # store.refresh
          /\ \A v \in Tabs, y \in Slots :
               call[v][y].at = "minted" => call[v][y].token # call[u][x].token
      BY <2>2 DEF RenewInv
    <3>2. Minted(call[u][x].token, owner') /\ call[u][x].token # store'.refresh
      BY <2>1, <3>1 DEF Keeps
    <3>3. ASSUME NEW v \in Tabs, NEW y \in Slots, call'[v][y].at = "minted"
          PROVE  call'[v][y].token # call[u][x].token
      <4>1. CASE v = t /\ y = s
        BY <1>1, <2>2, <3>3, <4>1
      <4>2. CASE ~(v = t /\ y = s)
        <5>1. call'[v][y] = call[v][y]
          BY <1>1, <4>2
        <5>2. QED  BY <3>1, <3>3, <5>1
      <4>3. QED  BY <4>1, <4>2
    <3>4. QED  BY <3>2, <3>3
  <2>3. call[u][x].at \in {"refresh", "rotated"} => call[u][x].retried
    BY DEF RenewInv
  <2>4. QED  BY <2>1, <2>2, <2>3
<1>4. QED  BY <1>2, <1>3

LEMMA RenewInit == Init => RenewInv
BY DEF Init, RenewInv, Renewed, Idle

LEMMA RenewReload ==
  ASSUME Inv, RenewInv, Keeps, NEW t \in Tabs, Reload(t), store'.refresh \in {0, store.refresh}
  PROVE  RenewInv'
<1>1. \A u \in Tabs, x \in Slots : call'[u][x] = call[u][x] \/ call'[u][x] = Idle
  BY DEF Reload, Inv, CallInv
<1>2. QED  BY <1>1, PlainIdle, RenewKeeps

LEMMA RenewPlain ==
  ASSUME Inv, RenewInv, Keeps, NEW t \in Tabs, NEW s \in Slots, NEW c, SetCall(t, s, c), Plain(c),
         store'.refresh \in {0, store.refresh}
  PROVE  RenewInv'
<1>1. \A u \in Tabs, x \in Slots : call'[u][x] = call[u][x] \/ call'[u][x] = c
  BY DEF SetCall, Inv, CallInv
<1>2. QED  BY <1>1, RenewKeeps

LEMMA RenewReject ==
  ASSUME Inv, RenewInv, Keeps, NEW t \in Tabs, NEW s \in Slots, Reject(t, s) \/ On401(t, s)
  PROVE  RenewInv'
<1>0. /\ "main" \in Slots /\ call[t][s] \in CallType
      /\ store.access \in 0..MaxPairs /\ store.refresh \in 0..MaxPairs
      /\ store \in [access : 0..MaxPairs, refresh : 0..MaxPairs]
  BY DEF Slots, Inv, CallInv, StoreInv
<1>1. ASSUME Reject(t, s) PROVE RenewInv'
  <2>1. /\ store'.refresh \in {0, store.refresh}
        /\ SetCall(t, s, Idle) \/ SetCall(t, "main", Idle)
    BY <1>1 DEF Reject, FinishLogout, Empty, Removed
  <2>2. QED  BY <1>0, <2>1, PlainIdle, RenewPlain
<1>2. CASE On401(t, s)
  <2>1. CASE call[t][s].retried
    BY <1>1, <1>2, <2>1 DEF On401
  <2>2. CASE ~call[t][s].retried /\ store.refresh # 0
    <3>1. PICK c \in {[call[t][s] EXCEPT !.at = "refresh", !.with = store.refresh, !.retried = TRUE]} :
            SetCall(t, s, c) /\ store' = store
      BY <1>2, <2>2 DEF On401
    <3>2. Plain(c)
      BY <1>0, <3>1 DEF Plain, Renewed, CallType
    <3>3. QED  BY <3>1, <3>2, RenewPlain
  <2>3. CASE ~call[t][s].retried /\ store.refresh = 0
    <3>1. Reload(t) /\ store' = [store EXCEPT !.access = 0]
      BY <1>2, <2>3 DEF On401, Expel
    <3>2. store'.refresh = store.refresh
      BY <1>0, <3>1
    <3>3. QED  BY <3>1, <3>2, RenewReload
  <2>4. QED  BY <2>1, <2>2, <2>3
<1>3. QED  BY <1>1, <1>2

LEMMA RenewStartAct ==
  ASSUME Inv, RenewInv, Keeps, NEW t \in Tabs, Start(t) \/ Act(t)
  PROVE  RenewInv'
<1>0. "main" \in Slots /\ "page" \in Slots
  BY DEF Slots
<1>1. CASE Start(t)
  <2>1. store' = store
    BY <1>1 DEF Start
  <2>2. call' = call \/ SetCall(t, "main", Request("me", store.access))
    BY <1>1 DEF Start
  <2>3. CASE call' = call
    BY <2>1, <2>3, RenewKeeps
  <2>4. CASE SetCall(t, "main", Request("me", store.access))
    BY <1>0, <2>1, <2>4, PlainRequest, RenewPlain
  <2>5. QED  BY <2>2, <2>3, <2>4
<1>2. CASE SubmitLogin(t)
  BY <1>0, <1>2, PlainRequest, RenewPlain DEF SubmitLogin
<1>3. CASE Browse(t)
  BY <1>0, <1>3, PlainRequest, RenewPlain DEF Browse
<1>4. CASE PressReload(t)
  BY <1>4, RenewReload DEF PressReload
<1>5. CASE Logout(t) /\ store.refresh = 0
  BY <1>0, <1>5, PlainIdle, RenewPlain DEF Logout, FinishLogout, Removed, Empty
<1>6. CASE Logout(t) /\ store.refresh # 0
  <2>1. PICK c \in {[Request("logout", store.access) EXCEPT !.with = store.refresh]} :
          SetCall(t, "main", c) /\ store' = store
    BY <1>6 DEF Logout
  <2>2. Plain(c)
    BY <2>1 DEF Plain, Renewed, Request, Retried
  <2>3. QED  BY <1>0, <2>1, <2>2, RenewPlain
<1>7. QED  BY <1>1, <1>2, <1>3, <1>4, <1>5, <1>6 DEF Act

\* The token of a new pair is nobody's yet.
LEMMA NewToken ==
  ASSUME Inv, Fresh # {}
  PROVE  /\ NextPair \in Pairs /\ NextPair \in 0..MaxPairs /\ NextPair # 0
         /\ NextPair # store.refresh
         /\ \A g \in 0..MaxPairs : Minted(g, owner) => g # NextPair
<1>1. NextPair \in Pairs /\ owner[NextPair] = NoUser
  BY FreshPair
<1>2. NextPair \in 0..MaxPairs /\ NextPair # 0
  BY <1>1, Bounds DEF Pairs
<1>3. \A g \in 0..MaxPairs : Minted(g, owner) => g # NextPair
  BY <1>1 DEF Minted
<1>4. NextPair # store.refresh
  BY <1>2, <1>3 DEF Inv, StoreInv
<1>5. QED  BY <1>1, <1>2, <1>3, <1>4

LEMMA RenewMint ==
  ASSUME Inv, RenewInv, Keeps, NEW t \in Tabs, NEW u \in Users, MintLogin(t, u)
  PROVE  RenewInv'
<1>0. "main" \in Slots /\ call[t]["main"] \in CallType
  BY DEF Slots, Inv, CallInv
<1>1. PICK c \in {[call[t]["main"] EXCEPT !.at = "minted", !.token = NextPair]} :
        SetCall(t, "main", c) /\ store' = store /\ Fresh # {}
  BY DEF MintLogin
<1>2. c \in CallType /\ c.at = "minted" /\ c.token = NextPair
  BY <1>0, <1>1, NewToken DEF CallType
<1>3. ASSUME NEW v \in Tabs, NEW x \in Slots, Renewed(call[v][x]) PROVE call[v][x].token # c.token
  <2>1. call[v][x].token \in 0..MaxPairs /\ Minted(call[v][x].token, owner)
    BY <1>3 DEF Inv, CallInv, CallType, RenewInv
  <2>2. QED  BY <1>1, <1>2, <2>1, NewToken
<1>4. ~Renewed(c) /\ c.at \notin {"refresh", "rotated"}
  BY <1>2 DEF Renewed
<1>5. QED  BY <1>0, <1>1, <1>2, <1>3, <1>4, RenewCall

LEMMA RenewRotate ==
  ASSUME Inv, RenewInv, Keeps, NEW t \in Tabs, NEW s \in Slots, Rotate(t, s)
  PROVE  RenewInv'
<1>0. /\ call[t][s] \in CallType /\ call[t][s].at = "refresh" /\ call[t][s].retried
      /\ Minted(call[t][s].with, owner)
  BY DEF Inv, CallInv, Sound, Rotate, RenewInv
<1>1. PICK c \in {[call[t][s] EXCEPT !.at = "rotated", !.token = NextPair]} :
        /\ SetCall(t, s, c) /\ store' = store /\ Fresh # {}
        /\ owner' = [owner EXCEPT ![NextPair] = owner[call[t][s].with]]
  BY DEF Rotate
<1>2. c \in CallType /\ c.at = "rotated" /\ c.token = NextPair /\ c.retried
  BY <1>0, <1>1, NewToken DEF CallType
<1>3. ASSUME NEW v \in Tabs, NEW x \in Slots, call[v][x].at = "minted"
      PROVE  call[v][x].token # c.token
  <2>1. call[v][x].token \in 0..MaxPairs /\ Minted(call[v][x].token, owner)
    BY <1>3 DEF Inv, CallInv, CallType, Sound
  <2>2. QED  BY <1>1, <1>2, <2>1, NewToken
<1>4. Minted(c.token, owner') /\ c.token # store.refresh
  <2>1. owner'[NextPair] = owner[call[t][s].with] /\ NextPair # 0 /\ NextPair # store.refresh
    BY <1>1, NewToken DEF Inv, TokenInv
  <2>2. QED  BY <1>0, <1>2, <2>1 DEF Minted
<1>5. c.at # "minted"
  BY <1>2
<1>6. QED  BY <1>1, <1>2, <1>3, <1>4, <1>5, RenewCall

LEMMA RenewRefreshReply ==
  ASSUME Inv, RenewInv, Keeps, NEW t \in Tabs, NEW s \in Slots, RefreshReply(t, s)
  PROVE  RenewInv'
<1>0. call[t][s] \in CallType /\ call[t][s].at = "rotated" /\ Renewed(call[t][s])
  <2>1. call[t][s] \in CallType
    BY DEF Inv, CallInv
  <2>2. call[t][s].at = "rotated"
    BY DEF RefreshReply
  <2>3. QED  BY <2>1, <2>2 DEF Renewed
<1>1. PICK c \in {[call[t][s] EXCEPT !.at = "sent",
                     !.with = IF call[t][s].op = "logout" THEN call[t][s].with ELSE 0]} :
        /\ SetCall(t, s, c) /\ store' = [store EXCEPT !.access = call[t][s].token]
        /\ owner' = owner
  BY DEF RefreshReply, service
<1>2. c \in CallType /\ c.at = "sent" /\ c.token = call[t][s].token
  <2>1. PICK w \in 0..MaxPairs : w = IF call[t][s].op = "logout" THEN call[t][s].with ELSE 0
    BY <1>0, Bounds DEF CallType
  <2>2. c = [call[t][s] EXCEPT !.at = "sent", !.with = w]
    BY <1>1, <2>1
  <2>3. QED  BY <1>0, <2>2 DEF CallType
<1>3. store'.refresh = store.refresh
  BY <1>1 DEF Inv, StoreInv
<1>4. /\ Minted(c.token, owner') /\ c.token # store.refresh
      /\ \A u \in Tabs, x \in Slots : call[u][x].at = "minted" => call[u][x].token # c.token
  BY <1>0, <1>1, <1>2 DEF RenewInv
<1>5. c.at # "minted" /\ c.at \notin {"refresh", "rotated"}
  BY <1>2
<1>6. QED  BY <1>1, <1>2, <1>3, <1>4, <1>5, RenewCall

LEMMA RenewLoginReply ==
  ASSUME Inv, RenewInv, Keeps, NEW t \in Tabs, LoginReply(t)
  PROVE  RenewInv'
<1> DEFINE m == call[t]["main"]
<1>0. "main" \in Slots /\ m.at = "minted"
  BY DEF Slots, LoginReply
<1>1. /\ SetCall(t, "main", Request("me", m.token)) /\ store'.refresh = m.token /\ owner' = owner
  BY DEF LoginReply, service
<1>2. \A u \in Tabs, x \in Slots :
        call'[u][x] = call[u][x] \/ Plain(call'[u][x])
  BY <1>1, PlainRequest DEF SetCall, Inv, CallInv
<1>3. ASSUME NEW u \in Tabs, NEW x \in Slots
      PROVE  /\ call'[u][x].at \in {"refresh", "rotated"} => call'[u][x].retried
             /\ Renewed(call'[u][x]) =>
                  /\ Minted(call'[u][x].token, owner') /\ call'[u][x].token # store'.refresh
                  /\ \A v \in Tabs, y \in Slots :
                       call'[v][y].at = "minted" => call'[v][y].token # call'[u][x].token
  <2>1. CASE Plain(call'[u][x])
    BY <2>1 DEF Plain
  <2>2. CASE call'[u][x] = call[u][x]
    <3>1. ASSUME Renewed(call[u][x]), NEW v \in Tabs, NEW y \in Slots, call'[v][y].at = "minted"
          PROVE  call'[v][y].token # call[u][x].token
      <4>1. call'[v][y] = call[v][y]
        BY <1>2, <3>1 DEF Plain
      <4>2. QED  BY <3>1, <4>1 DEF RenewInv
    <3>2. ASSUME Renewed(call[u][x])
          PROVE  Minted(call[u][x].token, owner') /\ call[u][x].token # store'.refresh
      BY <1>0, <1>1, <3>2 DEF RenewInv
    <3>3. call[u][x].at \in {"refresh", "rotated"} => call[u][x].retried
      BY DEF RenewInv
    <3>4. QED  BY <2>2, <3>1, <3>2, <3>3
  <2>3. QED  BY <1>2, <2>1, <2>2
<1>4. QED  BY <1>3 DEF RenewInv

LEMMA RenewAnswer ==
  ASSUME Inv, RenewInv, Keeps, NEW t \in Tabs, Answer(t)
  PROVE  RenewInv'
<1>0. "main" \in Slots /\ "page" \in Slots /\ store.refresh \in 0..MaxPairs
  BY DEF Slots, Inv, StoreInv
<1>1. CASE Served(t)
  BY <1>0, <1>1, PlainIdle, RenewPlain DEF Served
<1>2. CASE MeReply(t)
  BY <1>0, <1>2, PlainIdle, RenewPlain DEF MeReply
<1>3. CASE LoginReply(t)
  BY <1>3, RenewLoginReply
<1>4. CASE RevokeLogout(t)
  BY <1>0, <1>4, PlainIdle, RenewPlain DEF RevokeLogout, FinishLogout, Removed, Empty
<1>5. CASE \E u \in Users : MintLogin(t, u)
  BY <1>5, RenewMint
<1>6. ASSUME NEW s \in Slots, Refused(t, s) PROVE RenewInv'
  BY <1>6, RenewReject DEF Refused
<1>7. ASSUME NEW k, Expel(t, k), k.refresh = 0 PROVE RenewInv'
  BY <1>7, RenewReload DEF Expel
<1>8. Empty.refresh = 0
  BY DEF Empty
<1>9. ASSUME NEW s \in Slots, Lost(t, s) PROVE RenewInv'
  <2>1. Expel(t, Empty) \/ Reject(t, s) \/ On401(t, s)
    BY <1>9 DEF Lost
  <2>2. QED  BY <1>7, <1>8, <2>1, RenewReject
<1>10. ASSUME NEW s \in Slots, RefuseRefresh(t, s) PROVE RenewInv'
  BY <1>7, <1>8, <1>10 DEF RefuseRefresh
<1>11. ASSUME NEW s \in Slots, Rotate(t, s) \/ RefreshReply(t, s) PROVE RenewInv'
  BY <1>11, RenewRotate, RenewRefreshReply
<1>12. QED  BY <1>1, <1>2, <1>3, <1>4, <1>5, <1>6, <1>9, <1>10, <1>11 DEF Answer

LEMMA RenewStep == Inv /\ RenewInv /\ [Next]_vars => RenewInv'
<1> SUFFICES ASSUME Inv, RenewInv, [Next]_vars PROVE RenewInv'  OBVIOUS
<1>1. CASE UNCHANGED vars
  BY <1>1 DEF vars, service, RenewInv, Renewed
<1>2. CASE Next
  <2>1. Keeps
    BY <1>2, KeepsPairs
  <2>2. ASSUME NEW g \in Pairs, Expire(g) PROVE RenewInv'
    BY <2>2 DEF Expire, RenewInv, Renewed
  <2>3. QED  BY <1>2, <2>1, <2>2, RenewStartAct, RenewAnswer DEF Next
<1>3. QED  BY <1>1, <1>2

\* The token a refresh brought is never the stored refresh token.
THEOREM RenewAlways == Spec => []RenewInv
<1>1. QED  BY RenewStep, RenewInit, InvAlways, PTL DEF Spec

\* Which call is to blame when a session is given up.
Blamed(t, s) ==
  /\ call[t][s] # call'[t][s]
  /\ \/ call[t][s].op = "logout"
     \/ call[t][s].at = "sent" /\ call[t][s].token # store.access
     \/ call[t][s].at = "refresh" /\ call[t][s].with # store.refresh

\* The unspent refresh token is given up, with nothing lost and nothing late.
GivesUp ==
  /\ store.refresh # 0 /\ store'.refresh = 0 /\ store.refresh \notin spent
  /\ faults' = 0 /\ ~late

\* A retried call that asks who the user is carries the token its refresh brought.
\* Were that the stored one, the refresh token beside it would be used up.
LEMMA BlamedMe ==
  ASSUME Inv, SessionInv, RenewInv, GivesUp, NEW t \in Tabs, NEW s \in Slots,
         call[t][s].op = "me", call[t][s].at = "sent", call[t][s].retried, call'[t][s] = Idle
  PROVE  Blamed(t, s)
<1>1. call[t][s].token # store.refresh
  BY DEF RenewInv, Renewed
<1>2. store.access # 0 /\ (store.access # store.refresh => store.refresh \in spent)
  BY DEF SessionInv, StoreFit, RenewedOnce, GivesUp
<1>3. call[t][s].token # store.access
  BY <1>1, <1>2 DEF GivesUp
<1>4. call[t][s] # Idle
  BY DEF Idle
<1>5. QED  BY <1>3, <1>4 DEF Blamed

\* Whoever finishes a logout was logging out.
LEMMA BlamedLogout ==
  ASSUME NEW t \in Tabs, NEW s \in Slots, call[t][s].op = "logout", call'[t][s] = Idle
  PROVE  Blamed(t, s)
<1>1. call[t][s] # Idle
  BY DEF Idle
<1>2. QED  BY <1>1 DEF Blamed

LEMMA BlamedReject ==
  ASSUME Inv, SessionInv, RenewInv, GivesUp, NEW t \in Tabs, NEW s \in Slots, Refused(t, s)
  PROVE  Blamed(t, s)
<1>0. /\ call \in [Tabs -> [Slots -> CallType]] /\ call[t][s].at = "sent" /\ On401(t, s)
      /\ store \in [access : 0..MaxPairs, refresh : 0..MaxPairs] /\ store.refresh # 0
      /\ store'.refresh = 0 /\ "main" \in Slots
  BY DEF Inv, CallInv, StoreInv, Refused, GivesUp, Slots
<1>1. CASE call[t][s].retried
  <2>1. Reject(t, s)
    BY <1>0, <1>1 DEF On401
  <2>2. CASE call[t][s].op = "me"
    <3>1. call'[t][s] = Idle
      BY <1>0, <2>1, <2>2 DEF Reject, SetCall
    <3>2. QED  BY <1>0, <1>1, <2>2, <3>1, BlamedMe
  <2>3. CASE call[t][s].op = "logout"
    BY <1>0, <2>3 DEF Refused
  <2>4. CASE call[t][s].op \notin {"me", "logout"}
    BY <1>0, <2>1, <2>4 DEF Reject
  <2>5. QED  BY <2>2, <2>3, <2>4
<1>2. CASE ~call[t][s].retried
  BY <1>0, <1>2 DEF On401
<1>3. QED  BY <1>1, <1>2

LEMMA BlameStep ==
  ASSUME Inv, SessionInv, RenewInv, GivesUp, [Next]_vars
  PROVE  \E t \in Tabs, s \in Slots : Blamed(t, s)
<1>0. /\ call \in [Tabs -> [Slots -> CallType]] /\ store.refresh # 0 /\ store'.refresh = 0
      /\ "main" \in Slots /\ "page" \in Slots /\ faults \in Nat /\ faults' = 0
      /\ store \in [access : 0..MaxPairs, refresh : 0..MaxPairs]
  BY Bounds DEF Inv, CallInv, StoreInv, TabInv, GivesUp, Slots
<1>1. store' # store
  BY <1>0
<1>2. Next
  BY <1>1 DEF vars
<1>3. ASSUME NEW g \in Pairs, Expire(g) PROVE FALSE
  BY <1>1, <1>3 DEF Expire
<1>4. ASSUME NEW t \in Tabs, Start(t) PROVE FALSE
  BY <1>1, <1>4 DEF Start
<1>5. ASSUME NEW t \in Tabs, Act(t) PROVE FALSE
  BY <1>0, <1>1, <1>5 DEF Act, SubmitLogin, Logout, Browse, PressReload
<1>6. ASSUME NEW t \in Tabs, Answer(t) PROVE \E s \in Slots : Blamed(t, s)
  <2>1. CASE Served(t) \/ MeReply(t) \/ \E u \in Users : MintLogin(t, u)
    BY <1>1, <2>1 DEF Served, MeReply, MintLogin
  <2>2. CASE LoginReply(t)
    <3>1. store'.refresh = call[t]["main"].token /\ call[t]["main"].at = "minted"
      BY <2>2 DEF LoginReply
    <3>2. call[t]["main"].token # 0
      BY <1>0, <3>1 DEF Inv, CallInv, Sound, Minted
    <3>3. QED  BY <1>0, <3>1, <3>2
  <2>3. CASE RevokeLogout(t)
    <3>1. call[t]["main"].op = "logout" /\ call'[t]["main"] = Idle
      BY <1>0, <2>3 DEF RevokeLogout, FinishLogout, SetCall
    <3>2. QED  BY <1>0, <3>1, BlamedLogout
  <2>4. ASSUME NEW s \in Slots, Refused(t, s) PROVE Blamed(t, s)
    BY <2>4, BlamedReject
  <2>5. ASSUME NEW s \in Slots, Lost(t, s) PROVE FALSE
    BY <1>0, <2>5 DEF Lost
  <2>6. ASSUME NEW s \in Slots, RefuseRefresh(t, s) PROVE Blamed(t, s)
    <3>1. call[t][s].at = "refresh" /\ call[t][s].with # store.refresh /\ Reload(t)
      BY <2>6 DEF RefuseRefresh, Expel, GivesUp
    <3>2. call'[t][s] = Idle
      BY <1>0, <3>1 DEF Reload
    <3>3. call[t][s] # Idle
      BY <3>1 DEF Idle
    <3>4. QED  BY <3>1, <3>2, <3>3 DEF Blamed
  <2>7. ASSUME NEW s \in Slots, Rotate(t, s) PROVE FALSE
    BY <1>1, <2>7 DEF Rotate
  <2>8. ASSUME NEW s \in Slots, RefreshReply(t, s) PROVE FALSE
    <3>1. store' = [store EXCEPT !.access = call[t][s].token]
      BY <2>8 DEF RefreshReply
    <3>2. QED  BY <1>0, <3>1
  <2>9. QED
    BY <1>6, <2>1, <2>2, <2>3, <2>4, <2>5, <2>6, <2>7, <2>8 DEF Answer
<1>7. QED  BY <1>2, <1>3, <1>4, <1>5, <1>6 DEF Next

\* A session that could still be renewed is given up only by a logout or, where no
\* reply was lost and no refresh late, by a call that was sent with the tokens of an
\* earlier one (the catch blocks behind the response interceptor of lib/axios.js).
THEOREM SessionsEndWhenOver == Spec => GivenUpWhenOver
<1>1. Inv /\ SessionInv /\ RenewInv /\ [Next]_vars =>
        [(/\ store.refresh # 0 /\ store'.refresh = 0 /\ store.refresh \notin spent
          /\ faults' = 0 /\ ~late)
         => \E t \in Tabs, s \in Slots :
              LET c == call[t][s] IN
              /\ c # call'[t][s]
              /\ \/ c.op = "logout"
                 \/ c.at = "sent" /\ c.token # store.access
                 \/ c.at = "refresh" /\ c.with # store.refresh]_vars
  BY BlameStep DEF GivesUp, Blamed
<1>2. QED  BY <1>1, InvAlways, SessionAlways, RenewAlways, PTL DEF Spec, GivenUpWhenOver
=============================================================================
