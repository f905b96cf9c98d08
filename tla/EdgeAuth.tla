------------------------------ MODULE EdgeAuth -------------------------------
(***************************************************************************)
(* Verifying viewer requests while the pool rotates its signing keys.  One *)
(* warm process of one of the four verifiers (`kind', drawn initially)     *)
(* serves concurrent requests; each either finds the keys it needs in the  *)
(* process's JWKS cache or fetches the published set, and an answer may be *)
(* computed by the endpoint well before it lands.  The issuer verifier     *)
(* keeps a copy of the last good set in a store and falls back to it.      *)
(***************************************************************************)
EXTENDS TokenChecks, FiniteSets

CONSTANTS
    Viewers,       \* requests, each served once
    Odd,           \* of these, the ones who come alone with a request that may be flawed
    Verifiers,     \* kinds to explore
    JwksTtl,       \* lifetime of the edge caches (JWKS_CACHE_TTL_MS, JWKS_TTL_MS)
    MaxStale,      \* maxStalenessSeconds of the fallback
    Latency,       \* bound on a fetch, the fetcher's timeout
    EdgeMaxTime,   \* bound on the clock
    EdgeFaults     \* which of "fetch", "body", "store" may fail

ASSUME EdgeAssumption ==
    /\ Verifiers \subseteq {"edge", "shared", "issuer", "pools"}
    /\ JwksTtl \in Nat \ {0} /\ MaxStale \in Nat /\ Latency \in Nat /\ EdgeMaxTime \in Nat
    /\ Odd \subseteq Viewers
    /\ EdgeFaults \subseteq {"fetch", "body", "store"}

VARIABLES
    kind,        \* which verifier the process runs
    clock,
    born,        \* per key: when it was published, or Absent
    retired,     \* per key: when it was withdrawn, or Absent
    jwks,        \* the process's key cache: [gen, full, keys, at, from]
    stored,      \* the persisted envelope: [full, keys, at]
    viewer       \* per request: where it stands

edgeVars == <<kind, clock, born, retired, jwks, stored, viewer>>

Published == {k \in SigningKeys : born[k] # Absent /\ retired[k] = Absent}

NoSet == [full |-> FALSE, keys |-> {}, at |-> 0]

(* A request that has not arrived, and one that was decided: only what     *)
(* the properties look at is kept.                                         *)
Unasked == [pc |-> "unasked"]
Away == [pc |-> "away"]

Decided(out, tok, sound, t0, held) ==
    LET gone == tok.kid \in SigningKeys /\ retired[tok.kid] # Absent /\ out = "pass" IN
    [pc |-> "done", out |-> out, sound |-> sound, held |-> held,
     late |-> tok.kid \in Published /\ t0 >= born[tok.kid] + JwksTtl,
     sinceAsked |-> IF gone THEN t0 - retired[tok.kid] ELSE Absent]

----------------------------------------------------------------------------
(* Requests: a genuine token of each key on its tenant's own host, and for *)
(* the viewers in Odd with at most one thing wrong about the token, the    *)
(* host or the cookies.                                                    *)

GoodToken(k, n) ==
    [form |-> "jwt", kid |-> k, genuine |-> TRUE, alg |-> "RS256", iss |-> "own", aud |-> "own",
     use |-> "id", tenant |-> n, exp |-> EdgeMaxTime, nbf |-> 0]

Flawed(g) ==
    {[g EXCEPT !.form = "garbage"], [g EXCEPT !.kid = "none"], [g EXCEPT !.genuine = FALSE],
     [g EXCEPT !.alg = "ES256"], [g EXCEPT !.alg = "EdDSA"], [g EXCEPT !.iss = "other"],
     [g EXCEPT !.aud = "other"], [g EXCEPT !.aud = "none"], [g EXCEPT !.use = "access"],
     [g EXCEPT !.tenant = NoTenantId], [g EXCEPT !.exp = 0], [g EXCEPT !.exp = Absent],
     [g EXCEPT !.nbf = EdgeMaxTime]}

OneCookie == <<<<[name |-> "id_token", value |-> "token"]>>>>

OddCookies ==
    {<<>>, <<<<[name |-> Empty, value |-> "token"]>>>>, <<<<[name |-> "id_token", value |-> Empty]>>>>,
     <<<<[name |-> "other", value |-> "x"]>>, <<[name |-> Empty, value |-> "y"],
                                                [name |-> "id_token", value |-> "token"]>>>>}

Request(t, h, c) == [tok |-> t, host |-> h, cookies |-> c]

Home == CHOOSE t \in Tenants : TRUE

Plain == {Request(GoodToken(k, Home), GoodHost(Home), OneCookie) : k \in SigningKeys}

OddHosts ==
    {h \in Hosts : \/ \E m \in Tenants : NormalizeHost(h) = GoodHost(m)
                   \/ h \in {[GoodHost(Home) EXCEPT !.labels = 0], [GoodHost(Home) EXCEPT !.labels = 2],
                             [GoodHost(Home) EXCEPT !.parent = "other"],
                             [GoodHost(Home) EXCEPT !.shaped = FALSE]}}

RequestsWith(good) ==
    {Request(t, GoodHost(Home), OneCookie) : t \in {good} \cup Flawed(good)}
      \cup {Request(good, GoodHost(Home), c) : c \in OddCookies}
      \cup {Request(good, h, OneCookie) : h \in OddHosts}

Requests == UNION {RequestsWith(GoodToken(k, Home)) : k \in SigningKeys}

----------------------------------------------------------------------------
(* What each verifier decides once it has keys.                            *)
Verdict(q, keys) ==
    CASE kind = "edge" -> EdgeVerify(q.tok, keys, clock)
      [] kind = "shared" -> SharedVerify(q.tok, keys, q.host, clock)
      [] kind = "issuer" -> IssuerVerify(q.tok, keys, clock)
      [] kind = "pools" -> PoolsVerify(q.tok, keys, clock)

(* The shared edge reads its cookie with a parser of its own.              *)
TokenCookie(headers) ==
    IF kind = "shared" THEN ExtractTokenFromCookies(headers) ELSE GetCookieValue(headers)

(* The request is answered before any key is needed: no host, no tenant    *)
(* label, no token.  The edges send the viewer to the login page, the      *)
(* other two throw at a token that is empty or no string.                  *)
EarlyAnswer(q) ==
    IF kind = "shared" /\ ExtractTenantSubdomain(q.host) = NoTenantId THEN "host-not-tenant-shape"
    ELSE IF TokenCookie(q.cookies) \in {NoCookie, Empty}
    THEN IF kind \in {"edge", "shared"} THEN "login" ELSE "malformed_token"
    ELSE "none"

(* Whether the verifier looks for the token's key at all.                  *)
NeedsKey(tok) ==
    CASE kind = "shared" -> TRUE
      [] kind = "pools" -> tok.form = "jwt" /\ tok.kid # "none" /\ tok.iss = "own"
      [] OTHER -> tok.form = "jwt" /\ tok.kid # "none"

(* TtlBoundedJwksCache.getActiveInner: the inner cache is replaced once it *)
(* is a TTL old.                                                           *)
ActiveInner ==
    IF kind = "edge" /\ clock - jwks.at >= JwksTtl
    THEN [gen |-> jwks.gen + 1, full |-> FALSE, keys |-> {}, at |-> clock]
    ELSE jwks

(* JwksCache.getJwks: the set is used while younger than the TTL.  The     *)
(* library's cache is used while it holds the kid, however old it is.      *)
KeyHit(c, tok) ==
    IF kind = "shared" THEN c.full /\ clock - c.at < JwksTtl
    ELSE tok.kid \in c.keys

(* What a token must be for the verifier to admit it, whatever the order   *)
(* of its checks.                                                          *)
Genuine(q) ==
    LET t == q.tok IN
    /\ t.form = "jwt" /\ t.genuine /\ t.iss = "own" /\ t.use = "id"
    /\ ~Expired(t, clock) /\ ~NotYet(t, clock)
    /\ kind \in {"edge", "shared"} => t.alg = "RS256"
    /\ kind = "issuer" => t.alg \in {"RS256", "ES256"}
    /\ kind \in {"shared", "issuer"} => t.exp # Absent
    /\ IF kind = "shared" THEN t.aud # "none" ELSE t.aud = "own"
    /\ kind = "shared" =>
          /\ q.host.parent = "own" /\ q.host.labels = 1 /\ q.host.shaped
          /\ q.host.label = t.tenant
    /\ q.cookies \in {OneCookie} \cup {c \in OddCookies : Len(c) = 2}

(* The decision, or for a signature failure of the issuer verifier the one *)
(* rebuild and retry: the process's cache starts empty again.              *)
Conclude(v, q, out, c) ==
    IF kind = "issuer" /\ out = "invalid_signature" /\ ~q.retried
    THEN /\ viewer' = [viewer EXCEPT ![v] = [q EXCEPT !.pc = "again", !.retried = TRUE]]
         /\ jwks' = [gen |-> c.gen + 1, full |-> FALSE, keys |-> {}, at |-> clock]
    ELSE /\ viewer' = [viewer EXCEPT ![v] =
                Decided(out, q.tok, Genuine(q), q.t0, q.tok.kid \in q.keys)]
         /\ jwks' = c

(* From the cache if it serves, else a fetch begins.                       *)
Lookup(v, q) ==
    LET c == ActiveInner
        p == [q EXCEPT !.t0 = clock, !.gen = c.gen] IN
    IF ~NeedsKey(q.tok) \/ KeyHit(c, q.tok)
    THEN Conclude(v, [p EXCEPT !.keys = c.keys], Verdict(p, c.keys), c)
    ELSE jwks' = c /\ viewer' = [viewer EXCEPT ![v] = [p EXCEPT !.pc = "fetching"]]

Ask(v) ==
    /\ viewer[v] = Unasked
    /\ \E q \in (IF v \in Odd THEN Requests ELSE Plain) :
         LET p == [tok |-> q.tok, host |-> q.host, cookies |-> q.cookies, pc |-> "asked",
                   t0 |-> clock, gen |-> 0, keys |-> {}, retried |-> FALSE] IN
         IF EarlyAnswer(p) # "none"
         THEN /\ viewer' = [viewer EXCEPT ![v] =
                     Decided(EarlyAnswer(p), p.tok, Genuine(p), clock, FALSE)]
              /\ UNCHANGED jwks
         ELSE Lookup(v, p)
    /\ UNCHANGED <<kind, clock, born, retired, stored>>

Again(v) ==
    /\ viewer[v].pc = "again"
    /\ Lookup(v, viewer[v])
    /\ UNCHANGED <<kind, clock, born, retired, stored>>

(* The endpoint answers with the set published at that moment, or the      *)
(* fetch fails (no answer, or a body that is no key set).                  *)
Serve(v) ==
    /\ viewer[v].pc = "fetching"
    /\ \/ viewer' = [viewer EXCEPT ![v] = [@ EXCEPT !.pc = "served", !.keys = Published]]
       \/ \E f \in EdgeFaults \cap {"fetch", "body"} : viewer' = [viewer EXCEPT ![v].pc = f]
    /\ UNCHANGED <<kind, clock, born, retired, jwks, stored>>

(* Mutant: the shared cache dates the keys from when the answer landed.    *)
FillDatedLate(q, keys) ==
    IF kind = "shared" THEN [jwks EXCEPT !.full = TRUE, !.keys = keys, !.at = clock]
    ELSE IF jwks.gen = q.gen THEN [jwks EXCEPT !.full = TRUE, !.keys = keys]
    ELSE jwks

(* The keys of an answer enter the cache the request started on: the       *)
(* shared cache dates them from before the fetch, the library's cache may  *)
(* have been replaced meanwhile.                                           *)
Fill(q, keys) ==
    IF kind = "shared" THEN [jwks EXCEPT !.full = TRUE, !.keys = keys, !.at = q.t0]
    ELSE IF jwks.gen = q.gen THEN [jwks EXCEPT !.full = TRUE, !.keys = keys]
    ELSE jwks

(* Only the issuer verifier persists the set it fetched, best-effort.      *)
Persist(keys) ==
    IF kind = "issuer"
    THEN \/ stored' = [full |-> TRUE, keys |-> keys, at |-> clock]
         \/ "store" \in EdgeFaults /\ UNCHANGED stored
    ELSE UNCHANGED stored

Land(v) ==
    /\ viewer[v].pc = "served"
    /\ LET q == viewer[v] IN
         Conclude(v, q, Verdict(q, q.keys), Fill(q, q.keys)) /\ Persist(q.keys)
    /\ UNCHANGED <<kind, clock, born, retired>>

(* readCachedJwks: the persisted set is usable while its own date says so. *)
ReadCachedJwks == stored.full /\ clock - stored.at <= MaxStale /\ stored.keys # {}

FallBack(v) ==
    /\ viewer[v].pc \in {"fetch", "body"} /\ kind = "issuer" /\ ReadCachedJwks
    /\ LET q == [viewer[v] EXCEPT !.keys = stored.keys] IN
         Conclude(v, q, Verdict(q, q.keys), Fill(q, q.keys))
    /\ UNCHANGED <<kind, clock, born, retired, stored>>

(* Without keys every verifier fails closed.  The shared cache forgets its *)
(* set; only a failed fetch makes the issuer verifier try again.           *)
FailClosed(v) ==
    /\ viewer[v].pc \in {"fetch", "body"}
    /\ kind = "issuer" => ~ReadCachedJwks \/ "store" \in EdgeFaults
    /\ LET q == viewer[v]
           out == CASE kind \in {"edge", "shared"} -> "login"
                    [] kind = "issuer" /\ q.pc = "fetch" -> ToIssuerError("fetch")
                    [] OTHER -> "malformed_token"
           c == IF kind = "shared" THEN [jwks EXCEPT !.full = FALSE, !.keys = {}, !.at = 0] ELSE jwks IN
         Conclude(v, q, out, c)
    /\ UNCHANGED <<kind, clock, born, retired, stored>>

(* The pool publishes a new key, or withdraws one while another remains.   *)
Rotate ==
    /\ \E k \in SigningKeys :
         \/ born[k] = Absent /\ born' = [born EXCEPT ![k] = clock] /\ UNCHANGED retired
         \/ /\ k \in Published /\ Published # {k}
            /\ retired' = [retired EXCEPT ![k] = clock] /\ UNCHANGED born
    /\ UNCHANGED <<kind, clock, jwks, stored, viewer>>

(* Time passes; a fetch does not outlast its timeout.                      *)
EdgeTick ==
    /\ clock < EdgeMaxTime
    /\ \A v \in Viewers :
         viewer[v].pc \in {"fetching", "served", "fetch", "body"} => clock - viewer[v].t0 < Latency
    /\ clock' = clock + 1
    /\ UNCHANGED <<kind, born, retired, jwks, stored, viewer>>

EdgeInit ==
    /\ kind \in Verifiers
    /\ clock = 0
    /\ born \in {[k \in SigningKeys |-> IF k = first THEN 0 ELSE Absent] : first \in SigningKeys}
    /\ retired = [k \in SigningKeys |-> Absent]
    /\ jwks = [gen |-> 0, full |-> FALSE, keys |-> {}, at |-> 0]
    /\ stored = NoSet
    /\ \E crowd \in {Viewers \ Odd} \cup {{v} : v \in Odd} :
         viewer = [v \in Viewers |-> IF v \in crowd THEN Unasked ELSE Away]

EdgeNext ==
    \/ \E v \in Viewers :
         Ask(v) \/ Again(v) \/ Serve(v) \/ Land(v) \/ FallBack(v) \/ FailClosed(v)
    \/ Rotate \/ EdgeTick

EdgeSpec == EdgeInit /\ [][EdgeNext]_edgeVars

----------------------------------------------------------------------------
Judged == {v \in Viewers : viewer[v].pc = "done"}

(* Every verifier admits a request exactly when its token is genuine for   *)
(* that verifier and host and signed by a key the verifier held: neither   *)
(* the order of the checks, an early answer, a retry nor a fallback lets   *)
(* anything else through or turns a genuine token away.                    *)
AdmitsExactlyGenuine ==
    \A v \in Judged :
        viewer[v].out = "pass" <=> viewer[v].sound /\ viewer[v].held

(* "The cache never serves stale keys past the TTL": neither edge admits a *)
(* token signed by a key that was withdrawn a TTL before the request came, *)
(* however fetches overlap and answers are delayed.                        *)
NoLongRetiredKey ==
    \A v \in Judged :
        kind \in {"edge", "shared"} /\ viewer[v].out = "pass"
            => viewer[v].sinceAsked < JwksTtl

(* A key that has been published for a TTL is known to the shared edge: a  *)
(* genuine token it signed is never refused for its signature, however     *)
(* late the answer of an older fetch replaced the newer set.               *)
RotationHeals ==
    \A v \in Judged :
        kind = "shared" /\ viewer[v].late /\ viewer[v].sound => viewer[v].out # "bad-signature"

(* What a process knows of the pool's keys is never older than a TTL, and  *)
(* never behind it by more.                                                *)
KeysKeepUp == NoLongRetiredKey /\ RotationHeals

=============================================================================
