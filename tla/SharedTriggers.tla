--------------------------- MODULE SharedTriggers ---------------------------
(***************************************************************************)
(* The Cognito triggers of the shared distribution and the redemption at   *)
(* its auth-verify: one user pool and one set of tables for many tenants,  *)
(* each of which has an app client and a ClientConfig row.                 *)
(*                                                                         *)
(* A row names its client's subdomain, and two clients may name the same   *)
(* one: creates that overlap can leave it so (run admin_unique).  A host   *)
(* is known by its subdomain only.                                         *)
(*                                                                         *)
(* Rows are read through the caches of ConfigCache, of which only the      *)
(* contract is used here: what a call gets was current at most ConfigAge   *)
(* before (NeverTooOld).  VerifyAuthChallengeResponse is that of           *)
(* MagicLink; its contract is used too: a secret is redeemed once, by the  *)
(* session it was mailed for, before it expires (OneTimeSecret).           *)
(* An attempt is one InitiateAuth and names its session and its token.     *)
(***************************************************************************)
EXTENDS Integers, FiniteSets

CONSTANTS
    Clients,          \* app clients, one per tenant that is created
    Subdomains,       \* the tenants' hosts
    Inboxes,          \* addresses
    Attempts,         \* sign-ins that are started
    ConfigAge,        \* lifetime of a cache entry and lag of the read
    SendsPerSite,     \* VESTIBULUM_TOKEN_SENDS_PER_WINDOW
    LinkTtl,          \* VESTIBULUM_TOKEN_TTL_MINUTES, in ticks
    SendWindow,       \* ticks per rate-limit window
    MaxEdits,         \* bound: changes of one client's row
    TriggerMaxTime    \* bound: the clock stops here

ASSUME TriggerAssumption ==
    /\ Clients # {} /\ Subdomains # {} /\ Inboxes # {}
    /\ ConfigAge \in Nat \ {0} /\ SendsPerSite \in Nat /\ LinkTtl \in Nat \ {0}
    /\ SendWindow \in Nat \ {0} /\ MaxEdits \in Nat /\ TriggerMaxTime \in Nat

VARIABLES
    trigNow,
    config,     \* ClientConfig: the row of each client
    replaced,   \* history: the rows it had, each with the time it was replaced
    members,    \* Cognito: addresses that have signed up
    denied,     \* DenylistTable: addresses, with the time of the bounce
    sends,      \* RateLimitTable: the counter of each address and window
    links,      \* TokenTable: attempts whose row is there
    posted,     \* SES: the hosts each attempt's mail has linked to
    attempt     \* where each attempt is

trigVars == <<trigNow, config, replaced, members, denied, sends, links, posted, attempt>>

never == TriggerMaxTime + 1

Windows == 0..(TriggerMaxTime \div SendWindow)

\* A row has the subdomain of its client, which is also its siteBaseUrl, and the
\* inboxes whose domain it allows.
NoRow == [there |-> FALSE, sub |-> {}, allows |-> {}]

TenantRows == [there : {TRUE}, sub : {{h} : h \in Subdomains}, allows : SUBSET Inboxes]

Unstarted == [stage |-> "unstarted", client |-> CHOOSE c \in Clients : TRUE,
              inbox |-> CHOOSE i \in Inboxes : TRUE, begun |-> 0, at |-> 0,
              link |-> {}, arrived |-> {}]

TrigInit ==
    /\ trigNow = 0
    /\ config \in [Clients -> {NoRow} \union TenantRows]
    /\ replaced = [c \in Clients |-> {}]
    /\ members = {} /\ denied = [i \in Inboxes |-> never]
    /\ sends = [i \in Inboxes |-> [w \in Windows |-> 0]]
    /\ links = {} /\ posted = [a \in Attempts |-> {}]
    /\ attempt = [a \in Attempts |-> Unstarted]

store == <<config, replaced, members, denied>>

-----------------------------------------------------------------------------
(* What the triggers share. *)

\* loadClientConfigByClientId: the client's row, or one that was replaced less than
\* ConfigAge ago.
LoadedByClient(c) ==
    {config[c]} \union {r.row : r \in {r \in replaced[c] : trigNow < r.until + ConfigAge}}

\* loadClientConfigBySubdomain queries SubdomainIndex with Limit 1: the client of any
\* one row that names the host, now or less than ConfigAge ago.
LoadedBySubdomain(h) == {c \in Clients : \E r \in LoadedByClient(c) : h \in r.sub}

At(a, stage) == attempt[a].stage = stage

Goto(a, stage) == attempt' = [attempt EXCEPT ![a].stage = stage]

\* An exception of the trigger: Cognito refuses and there is no session.
Throw(a) == Goto(a, "refused")

\* failClosedChallenge: a session no answer can redeem.
FailClosedChallenge(a) == Goto(a, "unanswerable")

-----------------------------------------------------------------------------
(* PreSignUp *)

\* The user signs up with a tenant's client: the row must be there and allow the
\* address's domain; any failure refuses, which changes nothing.
SharedPreSignUp(c, i) ==
    /\ i \notin members
    /\ \E r \in LoadedByClient(c) : r.there /\ i \in r.allows
    /\ members' = members \union {i}
    /\ UNCHANGED <<trigNow, config, replaced, denied, sends, links, posted, attempt>>

-----------------------------------------------------------------------------
(* CreateAuthChallenge, an await a step *)

Begin(a, c, i) ==
    /\ At(a, "unstarted") /\ i \in members
    /\ attempt' = [attempt EXCEPT ![a] = [Unstarted EXCEPT !.stage = "load", !.client = c,
                                                           !.inbox = i, !.begun = trigNow]]
    /\ UNCHANGED <<trigNow, store, sends, links, posted>>

\* Mutant: without a row the link goes to the distribution's first host.
SiteBaseUrl_Default(r) == IF r.there THEN r.sub ELSE {CHOOSE h \in Subdomains : TRUE}

\* cfg.siteBaseUrl: only the client's own, never a default.
SiteBaseUrl(r) == IF r.there THEN r.sub ELSE {}

\* The row arrives or the read throws; without one the trigger throws.  The clock
\* is read here, and used for the window and for the link's lifetime.
LoadConfig(a) ==
    /\ At(a, "load")
    /\ \/ \E r \in LoadedByClient(attempt[a].client) :
            LET url == SiteBaseUrl(r)
            IN  IF url = {} THEN Throw(a)
                ELSE attempt' = [attempt EXCEPT ![a] =
                        [@ EXCEPT !.stage = "denylist", !.at = trigNow, !.link = url]]
       \/ Throw(a)
    /\ UNCHANGED <<trigNow, store, sends, links, posted>>

\* The key is resolved and the denylist read: a missing table and a listed address
\* close the challenge, any other failure throws.
CheckDenylist(a) ==
    /\ At(a, "denylist")
    /\ \/ denied[attempt[a].inbox] = never /\ Goto(a, "limit")
       \/ FailClosedChallenge(a)
       \/ Throw(a)
    /\ UNCHANGED <<trigNow, store, sends, links, posted>>

WindowOf(a) == attempt[a].at \div SendWindow

\* The condition of the update: strictly below the limit.
UnderCap(i, w) == sends[i][w] < SendsPerSite

\* tryConsumeRateLimit: one counter for the address, whichever tenant asks; a failed
\* update may have counted.
ConsumeSends(a) ==
    LET i == attempt[a].inbox
        counted == sends' = [sends EXCEPT ![i][WindowOf(a)] = @ + 1]
    IN  /\ At(a, "limit")
        /\ \/ UnderCap(i, WindowOf(a)) /\ counted /\ (Goto(a, "token") \/ Throw(a))
           \/ ~UnderCap(i, WindowOf(a)) /\ FailClosedChallenge(a) /\ UNCHANGED sends
           \/ Throw(a) /\ UNCHANGED sends
        /\ UNCHANGED <<trigNow, store, links, posted>>

\* PutItem of the token's hash; a failure throws, whether or not it was stored.
PutLink(a) ==
    /\ At(a, "token")
    /\ \/ links' = links \union {a} /\ (Goto(a, "send") \/ Throw(a))
       \/ Throw(a) /\ UNCHANGED links
    /\ UNCHANGED <<trigNow, store, sends, posted>>

\* SendEmail of the link on the host of the tenant that asked.  Only now is the challenge there.
SendLink(a) ==
    /\ At(a, "send")
    /\ \/ posted' = [posted EXCEPT ![a] = attempt[a].link] /\ (Goto(a, "open") \/ Throw(a))
       \/ Throw(a) /\ UNCHANGED posted
    /\ UNCHANGED <<trigNow, store, sends, links>>

-----------------------------------------------------------------------------
(* auth-verify, the redemption *)

\* Cognito: a session belongs to the client it was begun with.
SessionOfClient(a, c) == attempt[a].client = c

\* VerifyAuthChallengeResponse: the answer is this session's own token, its row is
\* there and has not expired; the row is consumed.
Verifies(a, b) ==
    a = b /\ a \in links /\ trigNow < attempt[a].at + LinkTtl

\* Mutant: the redemption asks Cognito with the client the session names.
RedeemingClient_Trusted(a, h) == {attempt[a].client}

\* The client of the row that is found for the host, if one is.
RedeemingClient(a, h) == LoadedBySubdomain(h)

\* POST /auth-verify at host h, with attempt a's session and the link that was mailed
\* for b.  A session of another client is refused by Cognito and not used up; a wrong
\* answer ends it.  Cookies are set for that host.
RedeemLink(a, b, h) ==
    /\ At(a, "open") /\ posted[b] # {}
    /\ \E client \in RedeemingClient(a, h) :
         /\ SessionOfClient(a, client)
         /\ IF Verifies(a, b)
            THEN /\ links' = links \ {a}
                 /\ attempt' = [attempt EXCEPT ![a] = [@ EXCEPT !.stage = "in", !.arrived = {h}]]
            ELSE Goto(a, "refused") /\ UNCHANGED links
    /\ UNCHANGED <<trigNow, store, sends, posted>>

-----------------------------------------------------------------------------
(* Around them *)

\* The admin Lambda creates a new client's row, with a subdomain that is not always
\* free, or updates what a row allows, or deletes it.  A client is created once.
EditConfig(c) ==
    /\ Cardinality(replaced[c]) < MaxEdits
    /\ config[c].there \/ replaced[c] = {}
    /\ \E r \in {NoRow} \union TenantRows :
         /\ r # config[c] /\ (config[c].there /\ r.there => r.sub = config[c].sub)
         /\ config' = [config EXCEPT ![c] = r]
    /\ replaced' = [replaced EXCEPT ![c] = @ \union {[row |-> config[c], until |-> trigNow]}]
    /\ UNCHANGED <<trigNow, members, denied, sends, links, posted, attempt>>

\* The bounce handler lists the address.
Deny(i) ==
    /\ denied[i] = never /\ denied' = [denied EXCEPT ![i] = trigNow]
    /\ UNCHANGED <<trigNow, config, replaced, members, sends, links, posted, attempt>>

\* DynamoDB's TTL, some time after the link expired.
SweepLink(a) ==
    /\ a \in links /\ trigNow >= attempt[a].at + LinkTtl /\ links' = links \ {a}
    /\ UNCHANGED <<trigNow, store, sends, posted, attempt>>

TrigTick ==
    /\ trigNow < TriggerMaxTime /\ trigNow' = trigNow + 1
    /\ UNCHANGED <<store, sends, links, posted, attempt>>

TrigNext ==
    \/ \E c \in Clients, i \in Inboxes : SharedPreSignUp(c, i)
    \/ \E a \in Attempts :
         \/ \E c \in Clients, i \in Inboxes : Begin(a, c, i)
         \/ LoadConfig(a) \/ CheckDenylist(a) \/ ConsumeSends(a) \/ PutLink(a) \/ SendLink(a)
         \/ \E b \in Attempts, h \in Subdomains : RedeemLink(a, b, h)
         \/ SweepLink(a)
    \/ \E c \in Clients : EditConfig(c)
    \/ \E i \in Inboxes : Deny(i)
    \/ TrigTick

TrigSpec == TrigInit /\ [][TrigNext]_trigVars

-----------------------------------------------------------------------------
(* Properties. *)

Posted(i, w) == {a \in Attempts : attempt[a].inbox = i /\ WindowOf(a) = w /\ posted[a] # {}}

\* The hosts a client's rows have named.
Named(c) ==
    {h \in Subdomains : h \in config[c].sub \/ \E r \in replaced[c] : h \in r.row.sub}

\* Tenants that share a pool, its tables, its mail and even a subdomain stay apart: a
\* mail links to a host of the client that asked and to no other, and a sign-in ends
\* at the host its mail links to; tenants together do not mail an address more often
\* than the window allows; an address that bounced before a sign-in was started is
\* not mailed; and a tenant whose row has been gone for ConfigAge starts no sign-in.
TenantsStayApart ==
    /\ \A a \in Attempts :
         /\ posted[a] \subseteq Named(attempt[a].client)
         /\ attempt[a].arrived \subseteq posted[a]
         /\ posted[a] # {} => attempt[a].begun <= denied[attempt[a].inbox]
         /\ posted[a] # {} =>
              \/ config[attempt[a].client].there
              \/ \E r \in replaced[attempt[a].client] :
                   r.row.there /\ attempt[a].begun < r.until + ConfigAge
    /\ \A i \in Inboxes, w \in Windows : Cardinality(Posted(i, w)) <= SendsPerSite

=============================================================================
