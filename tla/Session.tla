------------------------------ MODULE Session ------------------------------
(***************************************************************************)
(* Sessions: handlers/auth.rs (login, refresh, logout), the AuthUser       *)
(* extractor of middleware/auth.rs, the tokens of utils/jwt.rs and the     *)
(* admin endpoints that switch a reseller on and off.                      *)
(*                                                                         *)
(* A process is one HTTP request after another; a step is one Redis        *)
(* command or SQL statement.  A token stands for its jti and may be        *)
(* presented by anyone, any number of times, to any endpoint: decode_token *)
(* does not tell access and refresh tokens apart.  Time is relative: a     *)
(* Tick ages every token and every Redis key.                              *)
(***************************************************************************)
EXTENDS Integers, FiniteSets

CONSTANTS
  Procs,
  Users,
  Tokens,        \* jti values; one is drawn again only when nothing remembers it
  NoToken,
  AccessTtl,     \* jwt_access_ttl_minutes
  RefreshTtl,    \* jwt_refresh_ttl_days
  Leeway,        \* the 60 seconds jsonwebtoken accepts a token beyond exp
  CacheTtl,      \* the 60 seconds of user:{id}
  MayFail     \* whether Redis commands may fail

ASSUME SessionAssumption ==
  /\ NoToken \notin Tokens
  /\ AccessTtl \in Nat \ {0} /\ RefreshTtl \in Nat \ {0} /\ AccessTtl <= RefreshTtl
  /\ Leeway \in Nat /\ CacheTtl \in Nat \ {0}
  /\ MayFail \in BOOLEAN

VARIABLES
  pc,         \* where each process stands
  token,      \* the token a process was given
  access,     \* the access token of a logout body
  owner,      \* [Tokens -> Users], sub of the claims
  life,       \* ticks until decode_token refuses the token; 0 for none or expired
  blacklist,  \* ticks left of blacklist:{jti}, 0 when there is no key
  cache,      \* ticks left of user:{id}, which holds an active user; 0 when there is none
  active,     \* users.is_active
  spent       \* tokens logged out or rotated away by a command that succeeded

vars == <<pc, token, access, owner, life, blacklist, cache, active, spent>>
keys == <<blacklist, cache>>
issued == <<owner, life>>

Init ==
  /\ pc = [p \in Procs |-> "idle"]
  /\ token = [p \in Procs |-> NoToken]
  /\ access = [p \in Procs |-> NoToken]
  /\ owner \in [Tokens -> Users]
  /\ life = [t \in Tokens |-> 0]
  /\ blacklist = [t \in Tokens |-> 0]
  /\ cache = [u \in Users |-> 0]
  /\ active = [u \in Users |-> TRUE]
  /\ spent = {}

-----------------------------------------------------------------------------

Goto(p, l) == pc' = [pc EXCEPT ![p] = l]
End(p) ==
  /\ Goto(p, "idle")
  /\ token' = [token EXCEPT ![p] = NoToken]
  /\ access' = [access EXCEPT ![p] = NoToken]

UserOf(p) == owner[token[p]]
Decodes(t) == life[t] > 0
InHand == {token[p] : p \in Procs} \cup {access[p] : p \in Procs}

\* A new jti: no live token, no key and no request knows it.
Fresh(t) == life[t] = 0 /\ blacklist[t] = 0 /\ t \notin InHand

\* generate_tokens
Mint(u, a, r) ==
  /\ a # r /\ Fresh(a) /\ Fresh(r)
  /\ owner' = [owner EXCEPT ![a] = u, ![r] = u]
  /\ life' = [life EXCEPT ![a] = AccessTtl + Leeway, ![r] = RefreshTtl + Leeway]

BlacklistAccessTtl == AccessTtl
BlacklistTtl == RefreshTtl

Revoke(t) ==
  /\ blacklist' = [blacklist EXCEPT ![t] = BlacklistTtl]
  /\ spent' = spent \cup {t}

\* The request is answered and changes nothing more: refused with a 401, which
\* is also what a Redis error becomes, or done.
Answer(p) == End(p) /\ UNCHANGED <<issued, keys, active, spent>>
RedisError(p) == MayFail /\ Answer(p)
\* A SETEX that fails has not been executed, or only its reply is lost.
RevokeError(p, t) ==
  /\ MayFail
  /\ blacklist' \in {blacklist, [blacklist EXCEPT ![t] = BlacklistTtl]}
  /\ End(p)
  /\ UNCHANGED <<issued, cache, active, spent>>

-----------------------------------------------------------------------------
(* POST /auth/login: one SELECT of an active user, then the pair. *)

Login(p, u) ==
  /\ pc[p] = "idle"
  /\ active[u]
  /\ \E a, r \in Tokens : Mint(u, a, r) /\ spent' = spent \ {a, r}
  /\ UNCHANGED <<pc, token, access, keys, active>>

(* A request that carries a bearer token, a refresh or a logout arrives. *)

Present(p, t, l) ==
  /\ pc[p] = "idle"
  /\ Decodes(t)
  /\ Goto(p, l)
  /\ token' = [token EXCEPT ![p] = t]
  /\ UNCHANGED <<issued, keys, active, spent>>

ArriveRequest(p) == \E t \in Tokens : Present(p, t, "authenticate") /\ UNCHANGED access
ArriveRefresh(p) == \E t \in Tokens : Present(p, t, "refresh") /\ UNCHANGED access
\* The body's access token is optional, and ignored when it does not decode.
ArriveLogout(p) ==
  \E t \in Tokens, a \in {x \in Tokens : Decodes(x)} \cup {NoToken} :
    Present(p, t, "logout") /\ access' = [access EXCEPT ![p] = a]

-----------------------------------------------------------------------------
(* The AuthUser extractor *)

Listed(p) == blacklist[token[p]] > 0

CheckBlacklist(p) ==
  /\ pc[p] = "authenticate"
  /\ \/ Listed(p) /\ Answer(p)
     \/ RedisError(p)
     \/ ~Listed(p) /\ Goto(p, "lookup")
        /\ UNCHANGED <<token, access, issued, keys, active, spent>>

\* GET user:{id}; a miss or a failure asks the database.
LookUp(p) ==
  /\ pc[p] = "lookup"
  /\ \/ cache[UserOf(p)] > 0 /\ Goto(p, "store")
     \/ (cache[UserOf(p)] = 0 \/ MayFail) /\ Goto(p, "load")
  /\ UNCHANGED <<token, access, issued, keys, active, spent>>

LoadUser(p) ==
  /\ pc[p] = "load"
  /\ \/ (~active[UserOf(p)] \/ MayFail) /\ Answer(p)
     \/ active[UserOf(p)] /\ Goto(p, "store")
        /\ UNCHANGED <<token, access, issued, keys, active, spent>>

\* SET EX 60 of the user just read, wherever it was read; errors are ignored.
StoreUser(p) ==
  /\ pc[p] = "store"
  /\ \/ cache' = [cache EXCEPT ![UserOf(p)] = CacheTtl]
     \/ MayFail /\ UNCHANGED cache
  /\ Goto(p, "handler")
  /\ UNCHANGED <<token, access, issued, blacklist, active, spent>>

\* The handler runs as the authenticated user and ends.
Handle(p) == pc[p] = "handler" /\ Answer(p)

-----------------------------------------------------------------------------
(* POST /auth/refresh *)

ActiveUnchecked(u) == TRUE
ActiveOnly(u) == active[u]

RefreshCheck(p) ==
  /\ pc[p] = "refresh"
  /\ \/ Listed(p) /\ Answer(p)
     \/ RedisError(p)
     \/ ~Listed(p) /\ Goto(p, "refresh_user")
        /\ UNCHANGED <<token, access, issued, keys, active, spent>>

RefreshUser(p) ==
  /\ pc[p] = "refresh_user"
  /\ \/ (~ActiveOnly(UserOf(p)) \/ MayFail) /\ Answer(p)
     \/ ActiveOnly(UserOf(p)) /\ Goto(p, "rotate")
        /\ UNCHANGED <<token, access, issued, keys, active, spent>>

\* SETEX blacklist:{jti}, then a new pair.
Rotate(p) ==
  LET t == token[p] IN
  /\ pc[p] = "rotate"
  /\ \/ RevokeError(p, t)
     \/ \E a, r \in Tokens :
          /\ Mint(UserOf(p), a, r)
          /\ blacklist' = [blacklist EXCEPT ![t] = BlacklistTtl]
          /\ spent' = (spent \cup {t}) \ {a, r}
          /\ End(p)
          /\ UNCHANGED <<cache, active>>

-----------------------------------------------------------------------------
(* POST /auth/logout: the refresh token first, then the access token. *)

LogoutRefresh(p) ==
  /\ pc[p] = "logout"
  /\ \/ RevokeError(p, token[p])
     \/ /\ Revoke(token[p])
        /\ IF access[p] # NoToken /\ Decodes(access[p])
             THEN Goto(p, "logout_access") /\ UNCHANGED <<token, access>>
             ELSE End(p)
        /\ UNCHANGED <<issued, cache, active>>

LogoutAccess(p) ==
  /\ pc[p] = "logout_access"
  /\ \/ RevokeError(p, access[p])
     \/ Revoke(access[p]) /\ End(p) /\ UNCHANGED <<issued, cache, active>>

-----------------------------------------------------------------------------

\* PATCH, DELETE and toggle of a reseller write is_active and leave Redis alone.
Toggle(u) ==
  /\ active' = [active EXCEPT ![u] = ~@]
  /\ UNCHANGED <<pc, token, access, issued, keys, spent>>

Minus1(n) == IF n > 0 THEN n - 1 ELSE 0

\* The key of a token that no longer decodes is of no consequence, and is
\* forgotten early so that its jti may stand for another one.
Tick ==
  /\ life' = [t \in Tokens |-> Minus1(life[t])]
  /\ blacklist' = [t \in Tokens |-> IF life[t] > 1 \/ t \in InHand THEN Minus1(blacklist[t])
                                   ELSE 0]
  /\ cache' = [u \in Users |-> Minus1(cache[u])]
  /\ spent' = {t \in spent : life[t] > 1 \/ t \in InHand}
  /\ UNCHANGED <<pc, token, access, owner, active>>

Arrive(p) ==
  ArriveRequest(p) \/ ArriveRefresh(p) \/ ArriveLogout(p) \/ \E u \in Users : Login(p, u)

Serve(p) ==
  \/ CheckBlacklist(p) \/ LookUp(p) \/ LoadUser(p) \/ StoreUser(p) \/ Handle(p)
  \/ RefreshCheck(p) \/ RefreshUser(p) \/ Rotate(p)
  \/ LogoutRefresh(p) \/ LogoutAccess(p)

Next == Tick \/ (\E p \in Procs : Arrive(p) \/ Serve(p)) \/ \E u \in Users : Toggle(u)

Spec == Init /\ [][Next]_vars

\* Time passes and a request that arrived is served; who arrives is up to the
\* clients and who is switched off is up to the admins.
FairSpec == Spec /\ WF_vars(Tick) /\ \A p \in Procs : WF_vars(Serve(p))

-----------------------------------------------------------------------------
(* Properties *)

Checking == {"authenticate", "refresh"}
Passes(p) == pc[p] \in Checking /\ pc'[p] \in {"lookup", "refresh_user"}

\* A token that was logged out or rotated away does not pass the blacklist
\* again before the exp it carries, however long the request took.
SpentIsRefused ==
  [][\A p \in Procs : Passes(p) /\ token[p] \in spent => life[token[p]] <= Leeway]_vars

\* A reseller that stays deactivated is at last refused everywhere: refresh
\* mints nothing for it, its tokens run out and so does its cache entry.
DeactivationTakesHold ==
  \A u \in Users :
    <>[](~active[u]) => <>[](\A p \in Procs : pc[p] = "handler" => UserOf(p) # u)
=============================================================================
