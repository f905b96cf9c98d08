-------------------------- MODULE RequestPipeline ---------------------------
(***************************************************************************)
(* A request on its way to a handler in a process built on foundation: its *)
(* tenant is resolved from the host, its region detected, the tenant's     *)
(* residency looked up through a cache, and a frozen context with its      *)
(* logger is carried by AsyncLocalStorage.  Requests interleave at every   *)
(* await; a task started from a request keeps the stores it inherited.     *)
(***************************************************************************)
EXTENDS Integers, Sequences

CONSTANTS Requests,       \* requests served
          Arrivals,       \* the requests that may arrive: [host, cdn, cf, langs]
          Composites,     \* resolver stacks a consumer may configure: sequences of strategies
          Directory,      \* the custom-domain lookup: host name -> "tenant", "unknown", "error", "invalid"
          Reserved,       \* reservedLabels
          CountryMap,     \* RegionRegistryOptions.countryMapping
          AllowedRegions, Default,
          FallbackOrders, \* orders of the detection sources
          ResidencyTtl, PolicyTime,
          PipeMaxTime, MaxMoves  \* bounds: the clock, changes of residency

\* The library's two, a consumer's own that is marked untrusted, and one unmarked.
Strategies == {"subdomain", "custom", "header", "unmarked"}

ASSUME PipeAssumption ==
    /\ Composites \subseteq Seq(Strategies)
    /\ ResidencyTtl \in Nat /\ PolicyTime \in Nat /\ PipeMaxTime \in Nat /\ MaxMoves \in Nat

None == "none"
NoTenant == <<>>                  \* null
ResolverError == << "TenantResolverError" >>
NoLogger == [req |-> None, tenant |-> NoTenant]

(***************************************************************************)
(* Tenant strategies.  A host is the labels in front of a domain, whether  *)
(* the domain is the application's, and how it is spelled.                 *)
(***************************************************************************)
\* toLowerCase, one trailing dot off, then a port off: "acme.app.:443" keeps
\* its dot, and matches nothing afterwards.
NormalizedHost(h) == [h EXCEPT !.form = IF h.form = "dotport" THEN "dot" ELSE "plain"]

\* The apex, another domain, a reserved leftmost label and a label that is no
\* tenant id resolve to null; more than one label is kept whole.
SubdomainResolve(h) ==
    LET n == NormalizedHost(h)
    IN  IF n.form = "plain" /\ n.own /\ n.labels # <<>> /\ n.labels[1] \notin Reserved /\ n.shaped
        THEN n.labels ELSE NoTenant

\* The lookup's failure is an error, an identifier that does not validate null.
CustomDomainResolve(h) ==
    LET n == NormalizedHost(h)
        entry == IF n.form = "plain" THEN Directory[n.own] ELSE "unknown"
    IN  CASE entry = "tenant" -> n.labels
          [] entry \in {"unknown", "invalid"} -> NoTenant
          [] entry = "error" -> ResolverError

\* A strategy of the consumer's own that reads the first label from a header.
HeaderResolve(h) == h.claimed

TrustClass(s) == CASE s \in {"subdomain", "custom"} -> "server-trust-anchored"
                   [] s = "header" -> "untrusted"
                   [] s = "unmarked" -> None

Resolve(s, h) == CASE s = "subdomain" -> SubdomainResolve(h)
                   [] s = "custom" -> CustomDomainResolve(h)
                   [] s \in {"header", "unmarked"} -> HeaderResolve(h)

\* Whom a request may be found to belong to.
Tenants == {Resolve(s, q.host) : s \in Strategies, q \in Arrivals} \ {NoTenant, ResolverError}

\* The composite's constructor: something to ask, and not both trust classes.
CompositeAccepts(stack) ==
    LET classes == {TrustClass(stack[i]) : i \in DOMAIN stack}
    IN  stack # <<>> /\ ~({"server-trust-anchored", "untrusted"} \subseteq classes)

(***************************************************************************)
(* Regions.                                                                *)
(***************************************************************************)
\* A mapping to a region outside the allowed list counts as no mapping.
CountryToRegion(c) ==
    IF c \in DOMAIN CountryMap /\ CountryMap[c] \in AllowedRegions THEN CountryMap[c] ELSE None

UnknownCountries == {"XX", "T1", "ZZ", ""}

FirstRegion(countries) ==
    LET found == SelectSeq(countries, LAMBDA c : c \notin UnknownCountries /\ CountryToRegion(c) # None)
    IN  IF found = <<>> THEN None ELSE CountryToRegion(Head(found))

LangToCountry(l) == CASE l \in {"zh", "zh-cn", "zh-hans"} -> "CN" [] l = "de" -> "DE"
                      [] l = "fr" -> "FR" [] l = "ja" -> "JP" [] OTHER -> "XX"

TrySource(source, q) ==
    CASE source = "cdn-geo-header" -> FirstRegion(<<q.cdn, q.cf>>)
      [] source = "accept-language" -> FirstRegion([i \in DOMAIN q.langs |-> LangToCountry(q.langs[i])])
      [] source = "default" -> Default

DetectSync(q, order) ==
    LET found == SelectSeq(order, LAMBDA s : TrySource(s, q) # None)
    IN  IF found = <<>> THEN Default ELSE TrySource(Head(found), q)

(***************************************************************************)
(* The process.                                                            *)
(***************************************************************************)
VARIABLES stack, order,   \* the composite and the fallback order it was built with
          pNow,
          home,           \* the residency policy: each tenant's region, or None
          wasHome,        \* history, per tenant and region: when it was last its residency
          moves,          \* changes of residency so far, to bound them
          cache,          \* CachedResidencyPolicy: value and expiry, by tenant
          req,            \* per request: where it is and what it has found
          store           \* per task <<request, task>>: the context its async scope holds

homes == <<home, wasHome, moves>>

pVars == <<stack, order, pNow, homes, cache, req, store>>

Tasks == Requests \X {"main", "child"}
NoScope == [req |-> None, tenant |-> NoTenant, logger |-> NoLogger]
Regions == AllowedRegions \cup {None}
Never == -(ResidencyTtl + PolicyTime) - 1

PInit ==
    /\ stack \in {s \in Composites : CompositeAccepts(s)}
    /\ order \in FallbackOrders
    /\ pNow = 0
    /\ home \in [Tenants -> Regions] /\ moves = 0
    /\ wasHome = [t \in Tenants |-> [g \in Regions |-> IF g = home[t] THEN 0 ELSE Never]]
    /\ cache = [t \in Tenants |-> [value |-> None, expires |-> 0]]
    /\ req = [r \in Requests |-> [at |-> "new", q |-> CHOOSE q \in Arrivals : TRUE, asked |-> 0,
                                  tenant |-> NoTenant, region |-> None, time |-> 0]]
    /\ store = [t \in Tasks |-> NoScope]

\* The attached property can be copied with the others.
LoggerOfCopyKept(context) == context.logger

\* The logger sits under a non-enumerable key: a context built by spreading an
\* existing one has none.
LoggerOfCopy(context) == NoLogger

\* createRequestContext: the logger's bindings are those of the new context.
CreateRequestContext(r, tenant) ==
    [req |-> r, tenant |-> tenant, logger |-> [req |-> r, tenant |-> tenant]]

\* A request arrives and runs in the scope of a context without tenant.
RunWithRequestContext(r, q) ==
    /\ req[r].at = "new"
    /\ store' = [store EXCEPT ![<<r, "main">>] = CreateRequestContext(r, NoTenant)]
    /\ req' = [req EXCEPT ![r] = [@ EXCEPT !.at = "resolving", !.q = q]]
    /\ UNCHANGED <<stack, order, pNow, homes, cache>>

\* The composite asks one strategy after the other; an error ends it.
ResolveTenant(r) ==
    /\ req[r].at = "resolving"
    /\ LET i == req[r].asked + 1
           found == IF i > Len(stack) THEN NoTenant ELSE Resolve(stack[i], req[r].q.host)
       IN  req' = [req EXCEPT ![r] =
             IF i > Len(stack) THEN [@ EXCEPT !.at = "detecting"]
             ELSE IF found = ResolverError THEN [@ EXCEPT !.at = "failed"]
             ELSE IF found = NoTenant THEN [@ EXCEPT !.asked = i]
             ELSE [@ EXCEPT !.asked = i, !.tenant = found, !.at = "detecting"]]
    /\ UNCHANGED <<stack, order, pNow, homes, cache, store>>

CacheHit(t) == cache[t].expires > pNow

Routed(r, region) == [req[r] EXCEPT !.at = "routed", !.region = region, !.time = pNow]
Chosen(r, residency) == IF residency # None THEN residency ELSE DetectSync(req[r].q, order)

\* detect: the synchronous answer stands unless the tenant has a residency,
\* cached or asked for.
Detect(r) ==
    /\ req[r].at = "detecting"
    /\ req' = [req EXCEPT ![r] =
          CASE req[r].tenant = NoTenant -> Routed(r, DetectSync(req[r].q, order))
            [] req[r].tenant # NoTenant /\ CacheHit(req[r].tenant)
               -> Routed(r, Chosen(r, cache[req[r].tenant].value))
            [] OTHER -> [@ EXCEPT !.at = "asking"]]
    /\ UNCHANGED <<stack, order, pNow, homes, cache, store>>

PolicyReads(r) ==
    /\ req[r].at = "asking"
    /\ req' = [req EXCEPT ![r] = [@ EXCEPT !.at = "answered", !.region = home[req[r].tenant],
                                             !.time = pNow]]
    /\ UNCHANGED <<stack, order, pNow, homes, cache, store>>

\* Mutant: one entry serves every tenant.
PolicyAnswers_OneEntry(r) ==
    /\ req[r].at = "answered"
    /\ cache' = [t \in Tenants |-> [value |-> req[r].region, expires |-> pNow + ResidencyTtl]]
    /\ req' = [req EXCEPT ![r] = Routed(r, Chosen(r, req[r].region))]
    /\ UNCHANGED <<stack, order, pNow, homes, store>>

\* The policy's answer arrives and is cached for the request's tenant, null as
\* well, from now on.
PolicyAnswers(r) ==
    /\ req[r].at = "answered"
    /\ cache' = [cache EXCEPT ![req[r].tenant] = [value |-> req[r].region,
                                                  expires |-> pNow + ResidencyTtl]]
    /\ req' = [req EXCEPT ![r] = Routed(r, Chosen(r, req[r].region))]
    /\ UNCHANGED <<stack, order, pNow, homes, store>>

\* A task starts in the current scope and inherits its store.
StartTask(r) ==
    /\ req[r].at \notin {"new", "failed"}
    /\ store[<<r, "child">>] = NoScope
    /\ store' = [store EXCEPT ![<<r, "child">>] = store[<<r, "main">>]]
    /\ UNCHANGED <<stack, order, pNow, homes, cache, req>>

\* setRequestContext, once the tenant is known: with a context made anew, or
\* with a spread of the current one.  Only this task's scope changes.
SetRequestContext(r) ==
    /\ req[r].at = "routed"
    /\ LET current == store[<<r, "main">>]
       IN  \/ store' = [store EXCEPT ![<<r, "main">>] = CreateRequestContext(r, req[r].tenant)]
           \/ store' = [store EXCEPT ![<<r, "main">>] =
                 [current EXCEPT !.tenant = req[r].tenant, !.logger = LoggerOfCopy(current)]]
    /\ req' = [req EXCEPT ![r] = [@ EXCEPT !.at = "handling"]]
    /\ UNCHANGED <<stack, order, pNow, homes, cache>>

ChangeResidency(t, region) ==
    /\ region # home[t] /\ moves < MaxMoves /\ moves' = moves + 1
    /\ home' = [home EXCEPT ![t] = region]
    /\ wasHome' = [wasHome EXCEPT ![t] = [@ EXCEPT ![region] = pNow]]
    /\ UNCHANGED <<stack, order, pNow, cache, req, store>>

\* The policy answers within PolicyTime.
PTick ==
    /\ pNow < PipeMaxTime
    /\ \A r \in Requests : req[r].at = "answered" => pNow < req[r].time + PolicyTime
    /\ pNow' = pNow + 1
    /\ wasHome' = [t \in Tenants |-> [wasHome[t] EXCEPT ![home[t]] = pNow + 1]]
    /\ UNCHANGED <<stack, order, home, moves, cache, req, store>>

PNext ==
    \/ \E r \in Requests, q \in Arrivals : RunWithRequestContext(r, q)
    \/ \E r \in Requests : \/ ResolveTenant(r) \/ Detect(r) \/ PolicyReads(r) \/ PolicyAnswers(r)
                           \/ StartTask(r) \/ SetRequestContext(r)
    \/ \E t \in Tenants, g \in Regions : ChangeResidency(t, g)
    \/ PTick

PSpec == PInit /\ [][PNext]_pVars

(***************************************************************************)
(* Properties.                                                             *)
(***************************************************************************)
\* getLogger in a task: the logger of its context, or (NoLogger) the root.
GetLogger(t) == store[t].logger

\* Whatever is interleaved and however the context was replaced, a line that
\* carries a request and a tenant carries those of the context in force.
LinesNameTheirContext ==
    \A t \in Tasks : GetLogger(t) # NoLogger =>
        GetLogger(t).req = t[1] /\ GetLogger(t).tenant = store[t].tenant

\* A tenant's request goes to a region that was this tenant's residency no longer
\* ago than the cache's life and one answer of the policy, whatever other tenants'
\* requests read and cached in the meantime.
RoutedHome ==
    \A r \in Requests : req[r].at = "routed" /\ req[r].tenant # NoTenant =>
        \E g \in Regions : /\ req[r].time <= wasHome[req[r].tenant][g] + ResidencyTtl + PolicyTime
                           /\ req[r].region = Chosen(r, g)

\* Requests that interleave keep their own context and their own tenant's region.
RequestsStayApart == LinesNameTheirContext /\ RoutedHome
=============================================================================
