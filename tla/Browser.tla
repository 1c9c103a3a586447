------------------------------ MODULE Browser ------------------------------
(***************************************************************************)
(* The signed-in browser: the token store and interceptors of              *)
(* lib/axios.js, AuthContext.jsx, the route guards of App.jsx, the login   *)
(* form and the logout of both layouts, with the token endpoints of        *)
(* handlers/auth.rs as Session models them.                                *)
(*                                                                         *)
(* localStorage is shared by the tabs, the user and the route are not.  A  *)
(* tab has two calls at most: one of AuthContext ("main": me, login or     *)
(* logout) and one of its page ("page").  A call that is answered 401 is   *)
(* retried once, after a refresh of its own.  Tokens are known by the pair *)
(* they were minted in; 0 is no token.                                     *)
(***************************************************************************)
EXTENDS Integers, FiniteSets

CONSTANTS
  Tabs,
  Users, NoUser,
  MaxPairs,    \* token pairs minted; bounds the runs
  MaxCalls,    \* calls in flight at once; bounds the runs
  MaxFaults    \* lost replies and server errors; bounds the runs

ASSUME BrowserAssumption ==
  /\ NoUser \notin Users
  /\ MaxPairs \in Nat \ {0} /\ MaxCalls \in Nat \ {0} /\ MaxFaults \in Nat

Slots == {"main", "page"}
Pairs == 1..MaxPairs

VARIABLES
  store,     \* [access, refresh], localStorage
  tab,       \* [Tabs -> [user, loading]], the state of AuthContext
  call,      \* [Tabs -> [Slots -> the request in flight]]
  owner,     \* [Pairs -> Users \cup {NoUser}], who a pair was minted for
  expired,   \* pairs whose access token has expired
  spent,     \* pairs whose refresh token is on the blacklist
  foreign,   \* history: tabs whose user was read before another tab logged in
  out,       \* history: the last login or logout was a logout
  late,      \* history: the access token was stored by an outdated refresh
  faults     \* history: lost replies and errors

service == <<owner, expired, spent>>
history == <<foreign, out, late>>
vars == <<store, tab, call, service, history, faults>>

Idle == [op |-> "none", at |-> "none", token |-> 0, with |-> 0, retried |-> FALSE]
Loading == [user |-> NoUser, loading |-> TRUE]
Empty == [access |-> 0, refresh |-> 0]

Init ==
  /\ store = Empty
  /\ tab = [t \in Tabs |-> Loading]
  /\ call = [t \in Tabs |-> [s \in Slots |-> Idle]]
  /\ owner = [g \in Pairs |-> NoUser]
  /\ expired = {} /\ spent = {}
  /\ foreign = {} /\ out = FALSE /\ late = FALSE /\ faults = 0

-----------------------------------------------------------------------------
(* Routes: what PublicRoute and ProtectedRoute let a tab open *)

LoginAlwaysOpen(t) == ~tab[t].loading
LoginOpen(t) == ~tab[t].loading /\ tab[t].user = NoUser
ShopOpen(t) == ~tab[t].loading /\ tab[t].user # NoUser

SetTab(t, x) == tab' = [tab EXCEPT ![t] = x]
Busy(t, s) == call[t][s].op # "none"
Room == Cardinality({x \in Tabs \X Slots : Busy(x[1], x[2])}) < MaxCalls
SetCall(t, s, c) == call' = [call EXCEPT ![t][s] = c]

RetriedAlready(op) == op = "me"
Retried(op) == FALSE

\* The request interceptor: every call carries the access token of the moment.
Request(op, token) ==
  [op |-> op, at |-> "sent", token |-> token, with |-> 0, retried |-> Retried(op)]

-----------------------------------------------------------------------------
(* AuthContext *)

SignedOut == [user |-> NoUser, loading |-> FALSE]

\* fetchUser when the application starts.
Start(t) ==
  /\ tab[t].loading /\ ~Busy(t, "main") /\ Room
  /\ IF store.access = 0
     THEN SetTab(t, SignedOut) /\ UNCHANGED <<call, foreign>>
     ELSE /\ SetCall(t, "main", Request("me", store.access))
          /\ foreign' = foreign \ {t}
          /\ UNCHANGED tab
  /\ UNCHANGED <<store, service, out, late, faults>>

SubmitLogin(t) ==
  /\ LoginOpen(t) /\ ~Busy(t, "main") /\ Room
  /\ SetCall(t, "main", Request("login", store.access))
  /\ UNCHANGED <<store, tab, service, history, faults>>

KeepAccess == [store EXCEPT !.refresh = 0]
Removed == Empty

\* The finally block of logout; the guards take the tab to the login page.
FinishLogout(t) ==
  /\ store' = Removed
  /\ SetTab(t, SignedOut)
  /\ SetCall(t, "main", Idle)
  /\ out' = TRUE /\ late' = FALSE

Logout(t) ==
  /\ ShopOpen(t) /\ ~Busy(t, "main") /\ Room
  /\ IF store.refresh = 0
     THEN FinishLogout(t)
     ELSE /\ SetCall(t, "main", [Request("logout", store.access) EXCEPT !.with = store.refresh])
          /\ UNCHANGED <<store, tab, out, late>>
  /\ UNCHANGED <<service, foreign, faults>>

\* Any request of a page.
Browse(t) ==
  /\ ShopOpen(t) /\ ~Busy(t, "page") /\ Room
  /\ SetCall(t, "page", Request("data", store.access))
  /\ UNCHANGED <<store, tab, service, history, faults>>

-----------------------------------------------------------------------------
(* The end of a call *)

\* Nobody waits for these any more, but the service may spend their refresh tokens
\* all the same.
Waits(c) == c.at = "refresh" \/ (c.op = "logout" /\ c.at = "sent")
Dropped(t) == {call[t][s].with : s \in {x \in Slots : Waits(call[t][x])}}
MaySpend(tokens) == spent' \in {spent, spent \cup tokens}

Reload(t) ==
  /\ tab' = [tab EXCEPT ![t] = Loading]
  /\ call' = [call EXCEPT ![t] = [s \in Slots |-> Idle]]

PressReload(t) ==
  /\ ~tab[t].loading
  /\ Reload(t)
  /\ MaySpend(Dropped(t))
  /\ UNCHANGED <<store, owner, expired, history, faults>>

\* The response interceptor gives up: location = '/login'.
Expel(t, kept) ==
  /\ store' = kept
  /\ late' = FALSE
  /\ Reload(t)
  /\ MaySpend(Dropped(t))
  /\ UNCHANGED <<owner, expired, foreign, out>>

\* A call is rejected: what the code that waits for it does.
Reject(t, s) ==
  LET c == call[t][s] IN
  /\ \/ /\ c.op = "me"
        /\ store' = Empty /\ late' = FALSE
        /\ SetTab(t, SignedOut)
        /\ SetCall(t, s, Idle)
        /\ UNCHANGED out
     \/ /\ c.op = "logout"
        /\ FinishLogout(t)
     \/ /\ c.op \in {"login", "data"}
        /\ SetCall(t, s, Idle)
        /\ UNCHANGED <<store, tab, out, late>>
  /\ UNCHANGED <<owner, expired, foreign>>

\* The response interceptor on a 401.
On401(t, s) ==
  LET c == call[t][s] IN
  IF c.retried THEN Reject(t, s) /\ UNCHANGED spent
  ELSE IF store.refresh # 0
  THEN /\ SetCall(t, s, [c EXCEPT !.at = "refresh", !.with = store.refresh, !.retried = TRUE])
       /\ UNCHANGED <<store, tab, service, history>>
  ELSE Expel(t, [store EXCEPT !.access = 0])

-----------------------------------------------------------------------------
(* Replies *)

Valid(g) == g # 0 /\ g \notin expired

Refused(t, s) ==
  LET c == call[t][s] IN
  /\ c.at = "sent"
  /\ \/ c.op \in {"me", "data"} /\ ~Valid(c.token)
     \/ c.op = "login"                  \* a wrong password
  /\ On401(t, s)
  /\ UNCHANGED faults

Served(t) ==
  LET c == call[t]["page"] IN
  /\ c.op = "data" /\ c.at = "sent" /\ Valid(c.token)
  /\ SetCall(t, "page", Idle)
  /\ UNCHANGED <<store, tab, service, history, faults>>

MeReply(t) ==
  LET c == call[t]["main"] IN
  /\ c.op = "me" /\ c.at = "sent" /\ Valid(c.token)
  /\ SetTab(t, [user |-> owner[c.token], loading |-> FALSE])
  /\ SetCall(t, "main", Idle)
  /\ UNCHANGED <<store, service, history, faults>>

Fresh == {g \in Pairs : owner[g] = NoUser}
NextPair == CHOOSE g \in Fresh : TRUE

MintLogin(t, u) ==
  LET c == call[t]["main"] IN
  /\ c.op = "login" /\ c.at = "sent" /\ Fresh # {}
  /\ owner' = [owner EXCEPT ![NextPair] = u]
  /\ SetCall(t, "main", [c EXCEPT !.at = "minted", !.token = NextPair])
  /\ UNCHANGED <<store, tab, expired, spent, history, faults>>

\* login stores the pair and fetches the user.
LoginReply(t) ==
  LET c == call[t]["main"] IN
  /\ c.at = "minted"
  /\ store' = [access |-> c.token, refresh |-> c.token]
  /\ SetCall(t, "main", Request("me", c.token))
  /\ foreign' = (foreign \cup Tabs) \ {t}
  /\ out' = FALSE /\ late' = FALSE
  /\ UNCHANGED <<tab, service, faults>>

RevokeLogout(t) ==
  LET c == call[t]["main"] IN
  /\ c.op = "logout" /\ c.at = "sent"
  /\ spent' = spent \cup {c.with}
  /\ FinishLogout(t)
  /\ UNCHANGED <<owner, expired, foreign, faults>>

\* A reply is lost, or is an error other than 401, or is a 401 because Redis failed.
Lost(t, s) ==
  LET c == call[t][s] IN
  /\ Busy(t, s) /\ faults < MaxFaults
  /\ faults' = faults + 1
  /\ IF c.at \in {"refresh", "rotated"}
     THEN Expel(t, Empty)
     ELSE \/ Reject(t, s) /\ MaySpend(IF c.op = "logout" THEN {c.with} ELSE {})
          \/ c.at = "sent" /\ On401(t, s)

-----------------------------------------------------------------------------
(* POST /auth/refresh, as one step: Session has its commands. *)

RefuseRefresh(t, s) ==
  /\ call[t][s].at = "refresh" /\ call[t][s].with \in spent
  /\ Expel(t, Empty)
  /\ UNCHANGED faults

SpendNothing(g) == spent
Spend(g) == spent \cup {g}

Rotate(t, s) ==
  LET c == call[t][s] IN
  /\ c.at = "refresh" /\ c.with \notin spent /\ Fresh # {}
  /\ spent' = Spend(c.with)
  /\ owner' = [owner EXCEPT ![NextPair] = owner[c.with]]
  /\ SetCall(t, s, [c EXCEPT !.at = "rotated", !.token = NextPair])
  /\ UNCHANGED <<store, tab, expired, history, faults>>

\* Only the access token is stored; the call is sent again with it.
RefreshReply(t, s) ==
  LET c == call[t][s] IN
  /\ c.at = "rotated"
  /\ store' = [store EXCEPT !.access = c.token]
  /\ late' = (late \/ c.with # store.refresh)
  /\ SetCall(t, s, [c EXCEPT !.at = "sent",
                             !.with = IF c.op = "logout" THEN @ ELSE 0])
  /\ UNCHANGED <<tab, service, foreign, out, faults>>

\* What nobody holds any more may as well last.
Held == ({store.access} \cup {call[t][s].token : t \in Tabs, s \in Slots}) \ {0}

Expire(g) ==
  /\ g \in Held \ expired
  /\ expired' = expired \cup {g}
  /\ UNCHANGED <<store, tab, call, owner, spent, history, faults>>

-----------------------------------------------------------------------------

Act(t) ==
  SubmitLogin(t) \/ Logout(t) \/ Browse(t) \/ PressReload(t)

Answer(t) ==
  \/ Served(t) \/ MeReply(t) \/ LoginReply(t) \/ RevokeLogout(t)
  \/ \E u \in Users : MintLogin(t, u)
  \/ \E s \in Slots : \/ Refused(t, s) \/ Lost(t, s)
                      \/ RefuseRefresh(t, s) \/ Rotate(t, s) \/ RefreshReply(t, s)

Next ==
  \/ \E t \in Tabs : Start(t) \/ Act(t) \/ Answer(t)
  \/ \E g \in Pairs : Expire(g)

Spec == Init /\ [][Next]_vars

-----------------------------------------------------------------------------
(* Properties *)

CallType ==
  [op : {"none", "me", "login", "logout", "data"},
   at : {"none", "sent", "refresh", "rotated", "minted"},
   token : 0..MaxPairs, with : 0..MaxPairs, retried : BOOLEAN]

\* Types. What is stored was minted, and a logout in flight has a token to revoke.
Types ==
  /\ store \in [access : 0..MaxPairs, refresh : 0..MaxPairs]
  /\ tab \in [Tabs -> [user : Users \cup {NoUser}, loading : BOOLEAN]]
  /\ call \in [Tabs -> [Slots -> CallType]]
  /\ owner \in [Pairs -> Users \cup {NoUser}]
  /\ expired \subseteq Pairs /\ spent \subseteq Pairs
  /\ foreign \subseteq Tabs /\ out \in BOOLEAN /\ late \in BOOLEAN
  /\ faults \in 0..MaxFaults
  /\ \A g \in {store.access, store.refresh} : g # 0 => owner[g] # NoUser
  /\ \A t \in Tabs : call[t]["main"].op = "logout" => call[t]["main"].with # 0

\* Types, and: after a logout the browser holds no token until somebody logs in, unless a
\* refresh sent before the logout is answered after it.
LoggedOutStays == Types /\ (out /\ ~late => store = Empty)

\* A tab sends its requests as the user it displays, unless another tab logged in
\* since it asked who that is, or a refresh of an earlier session was answered
\* late.
SentAsDisplayed ==
  \A t \in Tabs :
    tab[t].user # NoUser /\ store.access # 0 /\ owner[store.access] # tab[t].user =>
      t \in foreign \/ late

\* A session is renewed once: when the access token is not the one that came with
\* the refresh token, the refresh token is used up, since its successor is not
\* stored.
RenewedOnce ==
  store.refresh # 0 /\ store.access # 0 /\ store.access # store.refresh /\ ~late =>
    store.refresh \in spent

\* A session that could still be renewed is given up only by a logout or, as long
\* as no reply was lost and no refresh was answered late, by a call that was sent
\* with the tokens of an earlier one.
GivenUpWhenOver ==
  [][(/\ store.refresh # 0 /\ store'.refresh = 0 /\ store.refresh \notin spent
      /\ faults' = 0 /\ ~late)
     => \E t \in Tabs, s \in Slots :
          LET c == call[t][s] IN
          /\ c # call'[t][s]
          /\ \/ c.op = "logout"
             \/ c.at = "sent" /\ c.token # store.access
             \/ c.at = "refresh" /\ c.with # store.refresh]_vars
=============================================================================
