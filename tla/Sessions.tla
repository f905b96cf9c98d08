------------------------------ MODULE Sessions ------------------------------
(***************************************************************************)
(* A browser's session after the sign-in: the ID-token and refresh-token   *)
(* cookies auth-verify sets, the refresh and sign-out endpoints, and the   *)
(* refresh tokens Cognito honours.  Two deployments share the code: the    *)
(* single-tenant site (handlers/auth-verify, handlers/auth-signout) and    *)
(* the shared distribution (shared-distribution/triggers), where one pool  *)
(* and one cookie jar serve many tenants' hosts and a tenant may be        *)
(* deleted under its users.                                                *)
(*                                                                         *)
(* Each browser is one pool user, and each tenant's host has one client.  *)
(* Answers travel apart from the work that made them, so they arrive late, *)
(* out of order or not at all.                                             *)
(***************************************************************************)
EXTENDS Naturals, FiniteSets

CONSTANTS Browsers, SessionTenants,
          Deployments,        \* a subset of {"single", "shared"}
          IdTtl,              \* an ID token's lifetime
          SharedIdAge,        \* ID_TOKEN_MAX_AGE of the shared auth-verify
          RefreshValidity,    \* a refresh token's lifetime, VESTIBULUM_REFRESH_TOKEN_VALIDITY_SECONDS
          RefreshCookieAge,   \* REFRESH_TOKEN_MAX_AGE
          RotationGrace,      \* RetryGracePeriodSeconds of refresh-token rotation
          MaxTokens, SMaxTime \* bounds: refresh tokens minted, the clock

ASSUME SessionAssumption ==
    /\ SessionTenants # {} /\ Deployments \subseteq {"single", "shared"}
    /\ {IdTtl, SharedIdAge, RefreshValidity, RefreshCookieAge, RotationGrace} \subseteq Nat \ {0}
    /\ MaxTokens \in Nat /\ SMaxTime \in Nat

VARIABLES deployment,  \* which deployment this is
          sNow,
          jar,         \* per browser: the cookies it holds
          honoured,    \* Cognito: the refresh tokens it honours, and until when
          answers,     \* answers on their way to a browser
          delivered,   \* history: refresh tokens whose cookies have reached their browser
          missed,      \* history: refresh tokens whose replacement was lost on its way
          stranded,    \* history: browsers a sign-out left without a cookie for a live session
          tenants,     \* tenants whose app client exists
          minted       \* refresh tokens minted so far

history == <<delivered, missed, stranded>>

sVars == <<deployment, sNow, jar, honoured, answers, history, tenants, minted>>

SInit ==
    /\ deployment \in Deployments
    /\ sNow = 0
    /\ jar = [b \in Browsers |-> {}]
    /\ honoured = {} /\ answers = {}
    /\ delivered = {} /\ missed = {} /\ stranded = {}
    /\ tenants = SessionTenants
    /\ minted = 0

\* A refresh token: whose it is, the sign-in its line began with, and its number.
RefreshToken(b, t, session, n) == [user |-> b, tenant |-> t, session |-> session, n |-> n]

\* A token Cognito honours until its session ends, unless it is exchanged before.
Honour(k, end) == [token |-> k, until |-> end, ends |-> end]

\* A cookie goes to the hosts its Domain covers; every handler sets the exact
\* host, so a tenant's cookies are its own.
CookieDomain(t) == {t}

IdCookieShort == IdTtl

\* Max-Age of the ID-token cookie: on the site it lasts as long as the refresh
\* token, so that a sign-out can still name its user; shared, 15 minutes.
IdCookieAge == IF deployment = "single" THEN RefreshValidity ELSE SharedIdAge

IdCookie(b, t) == [name |-> "id-token", hosts |-> CookieDomain(t), tenant |-> t, user |-> b,
                   exp |-> sNow + IdTtl, age |-> IdCookieAge, token |-> RefreshToken(b, t, 0, 0)]
RefreshCookie(k) == [name |-> "refresh-token", hosts |-> CookieDomain(k.tenant), tenant |-> k.tenant,
                     user |-> k.user, exp |-> 0, age |-> RefreshCookieAge, token |-> k]

\* What a browser sends to a tenant's host under one name.
Sent(b, t, name) == {c \in jar[b] : c.name = name /\ t \in c.hosts}

\* replaces: the refresh token that was exchanged for the one in the cookies.
Answer(b, t, cookies, replaces) ==
    [to |-> b, host |-> t, cookies |-> cookies, replaces |-> replaces]

\* The single site has one host.
SessionHosts == IF deployment = "single" THEN {CHOOSE t \in SessionTenants : TRUE} ELSE SessionTenants

\* The challenge is answered: Cognito mints both tokens, auth-verify puts them
\* in cookies for the host.
Redeem(b, t) ==
    /\ minted < MaxTokens
    /\ t \in tenants
    /\ minted' = minted + 1
    /\ LET k == RefreshToken(b, t, minted + 1, minted + 1)
       IN  /\ honoured' = honoured \cup {Honour(k, sNow + RefreshValidity)}
           /\ answers' = answers \cup {Answer(b, t, {IdCookie(b, t), RefreshCookie(k)}, {})}
    /\ UNCHANGED <<deployment, sNow, jar, history, tenants>>

\* Cognito exchanges a refresh token for its successor, which has the rest of the
\* session's life; the token itself is honoured for the grace and no longer.
ExchangeToken(r, k) ==
    LET grace == IF r.until < sNow + RotationGrace THEN r.until ELSE sNow + RotationGrace
    IN  honoured' = (honoured \ {r}) \cup {[r EXCEPT !.until = grace], Honour(k, r.ends)}

\* Mutant: only the ID token is put in a cookie, as before tokens were rotated.
Refresh_KeepOld(b, t) ==
    /\ deployment = "shared"
    /\ minted < MaxTokens /\ minted' = minted + 1
    /\ \E c \in Sent(b, t, "refresh-token"), r \in honoured :
         LET k == RefreshToken(b, t, c.token.session, minted + 1)
         IN  /\ r.token = c.token /\ r.token.tenant = t
             /\ ExchangeToken(r, k)
             /\ answers' = answers \cup {Answer(b, t, {IdCookie(b, t)}, {c.token})}
    /\ UNCHANGED <<deployment, sNow, jar, history, tenants>>

\* Shared auth-verify's refresh: GetTokensFromRefreshToken for the host's
\* client, whose row may still be found after the client is gone.  A token of
\* another client, a revoked, an exchanged or an expired one is refused.
Refresh(b, t) ==
    /\ deployment = "shared"
    /\ minted < MaxTokens /\ minted' = minted + 1
    /\ \E c \in Sent(b, t, "refresh-token"), r \in honoured :
         LET k == RefreshToken(b, t, c.token.session, minted + 1)
         IN  /\ r.token = c.token /\ r.token.tenant = t
             /\ ExchangeToken(r, k)
             /\ answers' = answers \cup {Answer(b, t, {IdCookie(b, t), RefreshCookie(k)}, {c.token})}
    /\ UNCHANGED <<deployment, sNow, jar, history, tenants>>

\* Verified means genuine, and expired by at most the grace.
RefreshGrace == RefreshValidity
Verified(c) == sNow <= c.exp + RefreshGrace

\* The site's sign-out: the user of the verified ID token is signed out
\* everywhere, if the call to Cognito works; the cookies are cleared anyway.
SignOutSite(b, t) ==
    /\ deployment = "single"
    /\ \/ \E c \in Sent(b, t, "id-token") :
            /\ Verified(c)
            /\ honoured' = {r \in honoured : r.token.user # c.user}
       \/ UNCHANGED honoured
    /\ answers' = answers \cup {Answer(b, t, {}, {})}
    /\ UNCHANGED <<deployment, sNow, jar, history, tenants, minted>>

\* The shared one clears the host's cookies and revokes nothing.
SignOutShared(b, t) ==
    /\ deployment = "shared"
    /\ answers' = answers \cup {Answer(b, t, {}, {})}
    /\ UNCHANGED <<deployment, sNow, jar, honoured, history, tenants, minted>>

\* The names of the cookies an answer sets; a sign-out clears both.
Names(a) ==
    IF a.cookies = {} THEN {"id-token", "refresh-token"} ELSE {c.name : c \in a.cookies}

\* The browser takes an answer: cookies of the same name and domain replace
\* each other.
Deliver(a) ==
    /\ LET kept == {c \in jar[a.to] : c.hosts # CookieDomain(a.host) \/ c.name \notin Names(a)}
           new  == {[c EXCEPT !.age = sNow + @] : c \in a.cookies}
       IN  jar' = [jar EXCEPT ![a.to] = kept \cup new]
    /\ delivered' = delivered \cup {c.token : c \in {c \in a.cookies : c.name = "refresh-token"}}
    /\ stranded' = IF a.cookies = {} /\ \E r \in honoured : r.token.user = a.to /\ r.token \in delivered
                   THEN stranded \cup {a.to} ELSE stranded
    /\ answers' = answers \ {a}
    /\ UNCHANGED <<deployment, sNow, honoured, missed, tenants, minted>>

Lose(a) ==
    /\ answers' = answers \ {a} /\ missed' = missed \cup a.replaces
    /\ UNCHANGED <<deployment, sNow, jar, honoured, delivered, stranded, tenants, minted>>

\* delete-tenant: the users are signed out one by one, as far as the calls work,
\* and later the client is deleted; a user may sign in between the two.
SignOutUsers(t) ==
    /\ deployment = "shared" /\ t \in tenants
    /\ \E users \in SUBSET Browsers :
         honoured' = {r \in honoured : r.token.user \notin users}
    /\ UNCHANGED <<deployment, sNow, jar, answers, history, tenants, minted>>

\* Cognito honours nothing of a client that is gone.
DeleteClient(t) ==
    /\ deployment = "shared" /\ t \in tenants
    /\ tenants' = tenants \ {t}
    /\ honoured' = {r \in honoured : r.token.tenant # t}
    /\ UNCHANGED <<deployment, sNow, jar, answers, history, minted>>

\* Cookies past their Max-Age and tokens past their validity disappear.  A
\* tick is longer than any request: answers arrive or are lost within it.
STick ==
    /\ sNow < SMaxTime
    /\ answers = {}
    /\ sNow' = sNow + 1
    /\ jar' = [b \in Browsers |-> {c \in jar[b] : sNow + 1 < c.age}]
    /\ honoured' = {r \in honoured : sNow + 1 < r.until}
    /\ UNCHANGED <<deployment, answers, history, tenants, minted>>

SNext ==
    \/ \E b \in Browsers, t \in SessionHosts :
         Redeem(b, t) \/ Refresh(b, t) \/ SignOutSite(b, t) \/ SignOutShared(b, t)
    \/ \E a \in answers : Deliver(a) \/ Lose(a)
    \/ \E t \in SessionTenants : SignOutUsers(t) \/ DeleteClient(t)
    \/ STick

SSpec == SInit /\ [][SNext]_sVars

(***************************************************************************)
(* Properties.                                                             *)
(***************************************************************************)

\* A browser that received a session, and that no failed or late sign-out left
\* without cookies, can end that session from the site as long as Cognito honours its refresh
\* token: the ID-token cookie is still there and still verifies within the
\* grace, though the ID token itself expired long ago.
RevocableWhileAlive ==
    deployment = "single" =>
        \A r \in honoured :
            r.token \in delivered /\ r.token.user \notin stranded =>
                \E t \in SessionTenants : \E c \in Sent(r.token.user, t, "id-token") :
                    c.user = r.token.user /\ Verified(c)

\* One jar, many tenants: what a host is sent was minted for that tenant, so
\* an answer for one tenant never replaces, clears or feeds another's session.
JarKeepsTenantsApart ==
    \A b \in Browsers, t \in SessionTenants :
        /\ \A c \in jar[b] : t \in c.hosts => c.tenant = t
        /\ Cardinality(Sent(b, t, "id-token")) <= 1

\* Rotation does not cut a session off: while Cognito honours any token of the line
\* that began with a sign-in, it honours the one in the browser's jar, however many
\* refreshes overlapped and in whatever order their answers came.  Only a refresh
\* whose answer was lost leaves the browser with a token that has had its day.
RotationKeepsSession ==
    \A b \in Browsers, t \in SessionTenants :
        \A c \in Sent(b, t, "refresh-token") : \A r \in honoured :
            r.token.session = c.token.session =>
                c.token \in missed \/ \E q \in honoured : q.token = c.token

\* A browser's sessions are its tenants' own, and a live one can be ended.
SessionsAreOwn == RevocableWhileAlive /\ JarKeepsTenantsApart
=============================================================================
