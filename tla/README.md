# saas-foundation in TLA+

A verification project for the TypeScript monorepo `saas-foundation`: TLA+
modules translated from its source, TLC configurations that check them on small
instances, and proofs, checked by TLAPS, of the properties that matter most for
every instance. `PROJECT.json` lists components, runs, mutants, the map from
definitions to source lines, findings, hazards and theorems.

Paths below are relative to the repository: `V` is
`packages/vestibulum/src/lambda`, `VS` is `packages/vestibulum/src`, `F` is
`packages/foundation/src`, `C` is `packages/vestibulum-cdk/lib`.

Running things: `tlc -config Admin.cfg MCTenantAdmin` checks one run,
`tlapm TenantAdminProofs.tla` the proofs of one module.

## 1. The system

* **vestibulum**: passwordless sign-in on AWS Cognito (magic links and 8-digit
  codes), a shared distribution that serves many tenants from one CloudFront
  distribution and user pool, JWT verification, identity-provider management.
* **foundation**: the building blocks SaaS back ends share: key-value stores,
  rate limiters, secrets, audit log, feature toggles, sessions, tenant and region
  resolution, request context, networking, logging, adapters.
* **vestibulum-cdk**, **foundation-cdk**: CDK constructs. The first does more than
  declare: it refuses configurations, bakes and bundles edge functions, orders
  resources and grants rights, and Lambdas of its own run in the deployed stacks.

The state lives in DynamoDB tables, Postgres tables, Cognito, Secrets Manager,
CloudFormation stacks and per-process memory. Lambdas and library calls run
concurrently and share it. Almost no operation is one transaction: each is a chain
of awaited calls, between which others run, calls fail with or without effect, and
a process may die. That is where the models put their steps.

### Inventory

| Component | State | What is hard | What makes it correct |
|---|---|---|---|
| Starting a sign-in: `V/handlers/auth-login`, `pre-signup`, `create-auth-challenge` | token, binding, rate-limit and denylist tables; Cognito users and sessions | eligibility read at several awaits while it changes; counters shared by overlapping requests; the mail fails after the row was stored | caps on mail hold; nobody barred is mailed; only mailed challenges can be answered; every request ends |
| Redeeming: `V/handlers/auth-verify`, `verify-auth-challenge`, `define-auth-challenge` | the same tables, the session's rounds | two redemptions of one secret; a lost answer to the consuming delete; another session's link; expiry and late sweeps | one sign-in per secret; only one's own secret; never late; never for someone ineligible |
| Bounce handler: `V/handlers/bounce-handler` | quarantine flag, denylist, cached HMAC key | bad records in a batch, retries, users that come and go, key rotation | what is acknowledged is refused from then on |
| Admin Lambda, reconciler: `V/shared-distribution/admin` | ClientConfig, reservations, idempotency tables; app clients | no transaction spans Cognito and DynamoDB; reservations expire; paged readings | reservations exclude; clients never outlive rows; reports are right |
| Client-config cache and triggers: `V/shared-distribution/shared`, `triggers` | a map of promises; the pool's tables | loads settle out of order; many tenants in one pool and one table | bounded staleness; tenants stay apart |
| Edge gates, JWT verification: `V/edge`, `V/shared-distribution/edge`, `VS/verify` | cached key sets, a stored copy | rotation against caches, late answers, fallbacks | exactly the genuine tokens pass; keys keep up |
| Session cookies, sign-out: `auth-verify`, `auth-signout` | cookie jars, refresh tokens | answers late or out of order; tenants deleted under their users | a live session can be ended; rotation does not cut one off |
| Hooks: `V/pre-token-generation.ts`, `post-confirmation.ts` | the account, the claims | errors between sign-up, provisioning and token | a hook that fails is not passed over |
| Identity-provider managers, client secrets: `VS/idp`, `VS/secrets` | Cognito providers, secrets, the consumer's pins | several stores, lost answers | what the consumer is told is true |
| Discovery: `VS/discovery` | one connection | names that resolve anew, servers that stall, several signatures | dials only what was checked; ends; signed means signed |
| Key-value stores: `F/kv` | rows with expiry and versions | three back ends, takeovers, retried requests | exclusive leases, unique tokens, freshest claims |
| Rate limiters: `F/rate-limit` | one row per key | optimistic writes, clocks, rows that expire | admission bounded by capacity, time and known leaks |
| Secrets, feature toggles, Keycloak: `F/secrets`, `F/feature-toggles`, `F/identity` | caches in front of remote stores | overlapping misses, buffers that are zeroed, repeated creates | the cache owns its bytes; bounded age; no user overwritten |
| Audit log: `F/audit` | append-only stores | one store of several fails | acknowledged is kept, kept is redacted |
| Sealed cookies: `F/session` | the keys of each process | rotation process by process | rotation ends no session |
| Tenant, region, request context: `F/tenant`, `F/region`, `F/request-context` | a residency cache, async-local stores | requests interleave | each keeps its own tenant, region and logger |
| CDK constructs: `C` | CloudFormation's resources, function versions, pool settings | partial deployments, rollbacks, custom resources that do not run again | deployments converge; what is deployed works |

Interaction: auth-login calls Cognito, which calls CreateAuthChallenge (and
PreSignUp) synchronously; auth-verify calls Cognito, which calls Verify and Define;
the bounce handler writes what CreateAuthChallenge reads; the admin Lambda writes
the rows that the triggers read through the cache and that the reconciler compares
with Cognito. So `MagicLink` extends `ChallengeIssue`, `Reconciler` extends
`TenantAdmin`, `EdgeAuth` extends `TokenChecks`, `Discovery` extends `Addresses`.
`SharedTriggers` uses two components by their contracts, which other runs check: the
cache (`NeverTooOld`) and the redemption (`OneTimeSecret`). `SiteStack` composes the
deployment of a site with a visitor who uses it meanwhile.

## 2. Modules

| Module | Models |
|---|---|
| `ChallengeIssue` | auth-login, PreSignUp, CreateAuthChallenge |
| `MagicLink` | auth-verify, Verify, Define, after `ChallengeIssue` |
| `OneTimeSecret` | what a mailed secret promises: abstract specification of `MagicLink` |
| `BounceHandler` | bounce-handler, email-hmac |
| `TenantAdmin` | createTenant, updateTenant, deleteTenant |
| `TenantLifecycle` | the order in which client and row come and go: abstract specification of `TenantAdmin` |
| `Reconciler` | the hourly run beside `TenantAdmin` |
| `ConfigCache` | TtlCache and the two loaders |
| `SharedTriggers` | PreSignUp, CreateAuthChallenge and auth-verify of the shared distribution |
| `Sessions` | cookies, refresh, both sign-outs, and a tenant's deletion |
| `TokenChecks` | the order of checks of the four verifiers |
| `EdgeAuth` | both edge functions, the issuer and the multi-pool verifier with their key caches and the JWKS fallback |
| `SealedCookies` | sealing and unsealing under rotation |
| `TokenClaims` | the pre-token and post-confirmation hooks and the shared pool's wrapper |
| `Federation` | OIDC and SAML managers, provider names, the client-secret store |
| `Addresses`, `Discovery` | reserved ranges; the OIDC probe and SAML metadata |
| `KvStore` | the memory, DynamoDB and Postgres adapters |
| `RateLimiter` | token bucket, DynamoDB and Postgres limiter |
| `AuditLog`, `SecretCache`, `FeatureToggles`, `Keycloak`, `RequestPipeline` | the parts of foundation they are named for |
| `IdentityStack`, `SiteStack`, `SharedStack`, `CostGuard` | the CDK constructs and the Lambdas they bring |
| `MagicLinkProofs` | theorems about `ChallengeIssue` and `MagicLink` |
| `TenantAdminProofs` | about `TenantAdmin` and `Reconciler` |
| `ConfigCacheProofs`, `BounceProofs` | about `ConfigCache`; about `BounceHandler` |
| `StoreProofs` | about `RateLimiter`, `KvStore`, `SecretCache` |
| `PlatformProofs` | about `FeatureToggles`, `Keycloak`, `RequestPipeline`, `AuditLog` |
| `EdgeProofs` | about `SealedCookies`, `Sessions`, `SharedTriggers`, `EdgeAuth` |
| `DeployProofs` | about `Discovery`, `Federation`, `TokenClaims`, `IdentityStack`, `SharedStack`, `SiteStack` |
| `MC*` | instances for TLC |

### How models relate to code

* **A step ends at an await.** Code between two awaits of one handler is atomic
  (one JavaScript thread, no shared memory between containers); a remote call takes
  effect at one moment of the step. `pc`, `step`, `state` or `stage` names the await
  a call has come to.
* **Failures.** A remote call may succeed, fail, or take effect and lose the answer.
  Constants named `Faults` say which dependencies fail in an instance; `"crash"` lets
  a Lambda die at any await, which drops its locals and leaves its writes; `"stale"`
  makes reads eventually consistent where the code does not ask for consistency.
  Where the code itself repeats a request (`transientRetry`, the limiters, the
  DynamoDB adapter) the repetition is in the model.
* **Fresh random values** are named by the request that drew them. The 8-digit code
  is drawn from `Codes`, and two requests may draw the same. Hashes, HMACs, ciphers
  and signatures are perfect; what matters is which key made them.
* **Time** is a counter; expiry comparisons keep the code's strictness. Rows that
  expired stay until a separate sweep, as with DynamoDB's TTL.
* **Documents** (tokens, hosts, addresses, metadata, configurations) are records of
  what the code looks at.
* **External**: Cognito, SES, CloudFormation, CloudFront, IAM, Keycloak and the
  providers are modelled from how the code uses them, at their weakest.
* **Left out**: log and metric wording, HTML, header formatting.

**ChallengeIssue.** A *flow* is one sign-in request; its actions follow the awaits in
the code's order. A challenge that is suppressed goes through the same steps and ends
unanswerable, as the code does to look the same from outside. `Direct` is a caller
that talks to Cognito with the public client id and never passes auth-login.
`SetStatus` and `Quarantine` are the administrators and the bounce handler.

**MagicLink.** A *try* is one redemption, from the browser with its binding cookie or
directly. Cognito is taken at its weakest: it may run Verify for several answers to
one session at a time.

**TenantAdmin.** One request per element of `Creates`, `Deletes`, `Updates`; `pc`
follows the numbered steps of the code's comments. `releaseReservations` is a
`Promise.all` of two deletes: both are in flight at once, and the request goes on when
the first fails. `Deadline` is the Lambda's timeout; the repository fixes no number
for it, so it is a constant. DynamoDB may cancel the reserving transaction for reasons
of its own (throttling, a conflict with another transaction); the code answers 409 to
every cancellation, and `Reserve` has both causes. **Reconciler**: pages are arbitrary
non-empty subsets, so no order of ids is assumed.

**ConfigCache.** A *load* is a promise, with an expiry taken from its start; a
rejected one evicts the entry only if it still is this load.

**SharedTriggers.** An *attempt* is one InitiateAuth of one client. Client, subdomain
and host are values of their own: a row names its client's subdomain, two rows may
name the same one (as `admin_unique` shows), and redemption looks the client up by
subdomain with `Limit: 1`, so it gets any of them. `EditConfig` is the admin Lambda as
the triggers see it, `Deny` the bounce handler.

**BounceHandler.** The denylist holds rows under the key their writer had; as
quarantine-check reads it, only a row under the current secret counts. Deleting a
flagged user, rotating the secret, and writing with the key from before a rotation
undo a quarantine; `lost` remembers whose. Lambda's retries are external: any number
of attempts up to `MaxAttempts`, and nothing is claimed about them.

**Sessions.** Cookies travel in answers that are delivered later, out of order, or
lost. `deployment` is drawn initially: the single site or the shared distribution. In
the second a refresh rotates the refresh token, and Cognito goes on honouring the old
one for `RotationGrace`; the shared ID-token cookie has its own age (`SharedIdAge`).

**EdgeAuth.** `kind` says which verifier runs. Viewers are served concurrently by one
warm process; a fetch is answered by the endpoint at one moment and lands up to
`Latency` later. `Odd` viewers come alone with any flawed request; the others carry
sound tokens while keys rotate.

**KvStore.** `usage` says what callers keep under the key: a lock (putIfAbsent,
guarded delete), a versioned record (compareAndSet), claims (putIfFresher) or a plain
value with a counter. The DynamoDB adapter is modelled request by request. Two history
variables keep books beside the code: the generation of the row (how often it was
removed), which calls and leases carry, and `crossed`, which says that a request
guarded by a version was applied to a row of a later generation.

**RateLimiter.** Tokens are counted in what a millisecond refills, which makes every
quantity of `token-bucket.ts` that decides an admission an integer. The code computes
with doubles: what they round off a token count is not modelled, and neither are the
two answers derived from it, `retryAfter`, which can be a second longer than needed at
rates such as 0.1, and `resetAt`. `admitted`, `leaked` and `mark` are history
variables: books kept beside the code.

**SecretCache.** Buffers have identities: the cache hands out the very buffer it owns
and zeroes it when the entry goes; `made` and `zeroed` say which exist and which are
wiped. **FeatureToggles**: one cache per process over one table. **Keycloak**: users
remember the call that made them, `initiateMagicLink` with `forceCreate` among them.
**AuditLog**: metadata is a sequence of paths with sizes; an emit is scrubbed, capped
and put to every store. **RequestPipeline**: resolution and detection are operators;
each tenant's residency, the cache with an entry per tenant and the async-local stores
are state. **SealedCookies**: an instance keeps the promise of its keys, and
deployments replace instances one by one.

**Federation.** A manager keeps nothing; `pins` and `told` are what the consumer keeps
of its answers. `attachToAppClients` and `delete` are given any set of app clients:
`delete` detaches only those, none by default, and removes the provider whatever other
clients list it. **Discovery**: every lookup may answer anew, also with text that is
no address, for which the two probes differ; `stage` is how far the connection has
come, and `Close` is the `finally` block's `dispatcher.close()`, which waits for a
body that is still open. A SAML document has entities, other elements with
identifiers, and signatures with references, any of which may be moved, repeated or
broken. **TokenClaims**: one hook invocation is one step. That Cognito takes a
confirmation back when post-confirmation throws is not relied on: the account may stay
confirmed, or the user may be made by an administrator, for whom the trigger never
runs.

**IdentityStack, SiteStack, SharedStack, CostGuard.** The validations are operators
that decide which configurations deploy. Resources, references, explicit dependencies,
environment and grants are functions of the configuration; CloudFormation creates,
updates, fails and rolls back in any order they allow. The handlers' needs
(`HandlerEnv`, `HandlerCalls`, `AuthLoginUses`, ...) are translated from the handlers'
own sources, so that "wired" compares two pieces of code that are written apart.
`baking` is the gap between the baker's two Lambda calls; `bundleDir` is the directory
that syntheses share, path by path. In `SiteStack` the edge function is a resource of
the site's stack in us-east-1 and has a stack of its own elsewhere (`inRegion`), which
is updated first and not rolled back with the site's; the three auth Lambdas are
updated one by one, and Cognito refuses a session opened under another client than the
one that redeems it. In `CostGuard` each notification has `DeliveryAttempts` attempts,
each of which may fail or lose Cognito's answer; one that used them up is dropped, and
the alarm notifies again only after it has returned to OK.

## 3. Runs

"Half-way" means: a call may succeed, fail, or take effect and lose its answer.

| Run | Checks | Instance |
|---|---|---|
| `issue` | `IssuePromise` | two flows; a behaviour is either a self-signup deployment whose windows pass and Lambdas die, or an admin-only one with every administrator's change, a bounce at any moment and six dependencies failing half-way |
| `link_race` | `OwnSecretOnly`, `NoLateSignIn`, `ImplementsOneTimeSecret`, `CorrectAnswerWins` | two flows of one user with equal codes, two tries with any answer, no failures |
| `link_faults` | `OneAnswerPerBinding`, `NoSignInWhenIneligible`, `EveryoneIsAnswered` | one flow, browser and direct tries, six dependencies failing half-way, the user disabled and enabled, rows expiring and swept |
| `admin` | `ReservationExcludes`, `ReportIsRight`, `NamesComeFree`, `ImplementsLifecycle` | two creates, a delete and an update of one tenant, everything failing half-way, transactions cancelled for no reason of the code's, lagging index, deaths, reservations that expire; or the reconciler beside two creates and a delete |
| `bounce` | `QuarantineIsRight`, `EveryInvocationEnds` | two deliveries, two containers, a rotation, everything failing half-way |
| `platform` | `AdmittedIsPaid`, `SweptOnlyWhenFull`, `KvContract`, `AuditPromise`, `CacheOwnsItsBytes`, `ToggleAgeBounded`, `RequestsStayApart`, `FailsNotOverwrites` | the seven parts of foundation, one at a time |
| `edge` | `NeverTooOld`, `AdmitsExactlyGenuine`, `KeysKeepUp`, `RotationKeepsSession`, `SessionsAreOwn`, `TenantsStayApart`, `SessionsSurviveRotation` | verifiers, sessions, config cache, triggers, sealed cookies, one at a time |
| `deploy` | `DialsOnlyChecked`, `SignedCoversParsed`, `ToldIsTrue`, `HooksFailClosed`, `PoolWorks`, `SiteWorks`, `SharedWorks`, `ProbeEnds`, `DeployConverges`, `SpikeClosesSignUp`, `VisitorArrives` | four stacks, the managers, the hooks, the probes, one at a time |
| `admin_unique`, `kv_lease`, `self_defence`, `idp_collision` | one documented claim each | refuted, see section 6 |

`MCPlatform`, `MCEdge` and `MCDeploy` are suites: their components share no state, so
a behaviour exercises one of them (`active`) and leaves the others as they are
initially. The suite's states are the sum of the components' and not their product,
and each property is checked against exactly the component it is about.
`MCChallengeIssue` and `MCTenantAdmin` hold two instances of their module each, in
the same way. The comment above each property in its module says what it states and
about which code.

### Bounds, and why they are enough

* Two tries per secret, two creates per key, two deliveries per address, two callers
  of a store, two calls of Keycloak: every race here is between one actor and one
  other; the proofs cover any number where there are some. Two flows are needed for
  "another session's link", three calls for the limiter's lost update and for the
  secret cache of one entry (hold, overflow, replace), two tenants wherever tenants
  must stay apart, two processes for caches that differ.
* Clocks run beyond the longest lifetime of their component: a window of a day, a
  reservation, a cache entry, a lease twice, a refresh token's validity, a bucket's
  row. `MaxTime = 0` is used where a run has no timed property.
* Retry bounds of 2 give a first attempt, a retry and the exhausted case.
* One fault per deployment suffices to leave any prefix of it behind, and three
  deployments to fail, repair and change; three syntheses over one directory do the
  same for the bundle.
* Configurations, tokens, hosts and documents are chosen so that every check of the
  code decides at least one of them: the sound ones, and each flaw by itself. The
  identity stack's are two that deploy, two that the constructor accepts and AWS refuses
  (an attribute too many, with a quota of two; a zone that resolves elsewhere) and six
  that the constructor refuses. The signed documents include the wrappings: the signed
  entity behind another one, its identifier repeated, two signatures.
* Between them the runs take every action and every alternative but one outcome of
  CloudFormation that the construct is there to prevent, a wait that cannot be deleted
  ("wedged").
* Symmetry is used only in runs without liveness, over values that no definition
  tells apart.
* Deadlock is not checked: requests are finite in number, and all of them may end.

### Fairness

Weak fairness on the steps of a running handler: an awaited call is answered, fails
or times out, and the event loop runs the continuation. Nothing is assumed of
administrators, failures, sweeps or, outside the four below, of users and the clock.
Nothing is assumed of Lambda's deliveries and retries either: `EveryInvocationEnds` is
about an invocation that has begun.
In the deploy suite: `IdProgress` (CloudFormation goes on, SES verifies in the end,
the operator repeats a failed deployment, and a poll is answered), `SiteProgress`
(CloudFormation goes on), `VisitorProgress` (a visitor who wants to arrive goes on,
and rate windows end), `GuardProgress` (hours end, SNS delivers, the handler goes
on; each of its attempts may fail), `DProgress` (the probe and a timer it has set go on;
nothing is assumed of the server).

## 4. Proofs

All proofs are checked by `tlapm` with SMT, Zenon and LS4, without trusted steps.
They hold for every value of the constants that satisfies the modules' `ASSUME`s:
any number of requests, users, addresses, tenants, keys, any lifetimes, any set of
failing dependencies.

Every invariant, action property and refinement of the passing runs is stated by a
theorem; a run shows it on a small instance, with a mutant that breaks it, and the
theorem for all instances. Further theorems state types and properties the runs do
not repeat.

**MagicLinkProofs.** `LinkInv` is the inductive invariant: `FlowInv` (how far a flow's
Create is: an open challenge has a token that was stored and mailed, and a binding row
outlives its link), `TryInv` (what a try has passed at each `pc`) and `ClaimInv` (a
claimed secret's row is gone and it has one claimant). `SingleUse` alone is not
inductive: two tries both before the delete satisfy it, and only the fact that a claim
implies the row is gone excludes a second claim. From it follow `SecretSignsInOnce`,
`OnlyOwnSecret`, `NeverLate`, `IneligibleNeverSignsIn`, `BindingAnswersOnce`, the
action property `OnlyTheSecretSpendsTheRow`, and `Implements`: every step of the
protocol is a step of `OneTimeSecret` or none, under the mapping `secretOf`.

`IssuePromise` rests on `IssueInv`. Its heart is `CountInv`, a ledger: the flows that
have passed a counter in a window (mailed, or clear and beyond it) are never more than
the counter says, counted with the library's theorems on cardinality. `FlowsOK` says
which checks lie behind a flow at each await, who may be barred meanwhile, and what an
open challenge is. `IssueKeepsPromise` is about issuing alone, `ProtocolKeepsPromise`
about issuing beside redemptions, whose steps leave the ledger alone.

**TenantAdminProofs.** `AdminInv` has three parts: `HoldInv` (a held reservation
expires `ResLife` after its holder read the clock, and the holder is within its
`Deadline`), `LifeInv` (which of client and row exist at each `pc`) and `ServedInv`
(only standing tenants are recorded or answered with). `ReservationsExclude` needs
`Deadline <= ResLife`, which is part of its statement: with a longer timeout two
creates can hold one key, because releases are unconditional deletes.
`AnswersAreServed`, `ClientsGoFirst`, `NothingResurrects` and `Implements` (refinement
of `TenantLifecycle` under `stageOf`) follow. `ReportsAreRight` adds `ScanInv`: what
lasted from the start of a reconciler's reading is either already listed or still in
the pages to come. `NamesAreFreed` adds `Attributed`: every reservation row bears the
expiry of a create that wrote it and has gone on since, so what blocks a name is never
older than a reservation's life. (A create may be answered 409 all the same, when its
transaction is cancelled for another reason.)

**ConfigCacheProofs.** `CacheInv`: entries carry the expiry of their load's start; a
load in flight that lost its entry is a lifetime older than the entry that replaced
it; reads were current at most `Lag` before their load's start. It gives
`StalenessBounded`, `CacheIsSound` and the action property `EvictsOnlyItself`.

**BounceProofs.** `BInv`: every record and recipient a delivery has passed is safe or
in its list of errors, an acknowledged delivery has left every record safe, and a
container works on one delivery at a time. Safe means refused under the current
secret, or undone by one of the three events of `lost`. `QuarantineKept` follows for
any batches, retries and rotations.

**StoreProofs.** *Rate limiters.* `LedgerInv`: what was admitted and what the bucket
holds is at most the capacity, the time up to which refills were granted, and the
leaks; and a row's ttl covers its refill and the clocks' skew. `AdmittedIsPaid` alone
is not inductive, because it does not say what the bucket may still hand out. The
assumption on `Skew` (below the 60 s margin) and on `Margin >= 1` are what
`SweepsOnlyFull` needs: the ttl rounds the start down to a second, and the margin is
what makes up for that. *Key-value stores.* `KvInv`: a lease and a call carry the
generation of the row they saw (`LeaseOK`, `LockJobOK`); until a request crosses
generations, the row of a live lease is the holder's. `TokenInv` says that versions
told are not above the row's, and `ClaimInv` that an acknowledged claims write is in
the row or behind a later one. *Secret cache.* `SecretInv`: every buffer is in exactly
one place, in the cache, on its way there with a call, or zeroed (`PlaceInv`,
`OwnedInv`, `GivenInv`), and the order of use lists every cached key once (`MapInv`),
from which the bound on entries follows.

**PlatformProofs.** `ToggleAges`: an entry, and a read in flight, was the table's
value at a moment within the TTL and one read. `IdpInv`: whoever made a user was told
so or lost the answer (`MadeByAnswered`), and a call that will be told "exists" made
none. `PipeInv`: the logger in a scope is that of its own request and tenant, and what
a tenant's entry, an answer under way and a routed request hold was that very tenant's
region at a moment the cache still covers. `AuditInv`: a row is its put's, scrubbed,
with the end of life that the put computed once, whatever is repeated.

**EdgeProofs.** `SealInv`: a process runs the deployed configuration or the one before
it, and each of the two, unless it is older than the cookie, has the secret of a live
cookie as its primary or its fallback. `SInv`: every cookie, in a jar or on its way,
is for one host, of its tenant and its browser (`AnswersOwn`, `JarOwn`), and on the
single site an ID-token cookie outlasts every delivered session that Cognito honours,
unless a sign-out cleared it (`CookieOutlasts`). For rotation it follows a token
through its life: one that was never sent back is honoured as long as its session
(`Underway`), one that is being exchanged is in its grace (`InGrace`), and one in a
jar lasts, is being replaced, or had its replacement lost (`JarLasts`). `TrigInv`: per
attempt, which row of its client let it in and what it has passed at each stage; the
attempts that have a slot of a window are counted as in `CountInv`. `EdgeInv`: the key
sets of both edges are dated; they hold nothing retired before their date (`Fresh`),
and a fetched one everything published before it and not withdrawn since (`Complete`),
however late its answer arrives.

**DeployProofs.** `DialInv`: no private address is among those of a probe that goes on
to connect, and one that was dialled is among them; `JudgeInv`: a probe that ends as
metadata has judged a document with an entity. `SignedIsParsed` rests on the lemma
that an identifier names one element of a document that is reported as signed, so that
the digest of a reference is that of the entity which the parser reads. `FedInv`: what
a manager has in hand at each step agrees with Secrets Manager, Cognito and the
consumer's pins. `ToldStaysTrue` has two hypotheses in its statement, calls one at a
time and names that do not collide: overlapping upserts of one tenant break it without
the first, and `idp_collision` shows that the managers do not ensure the second.
`ClaimsInv`: success is shown only after the provisioner returned, and a token is
minted with the row's tenant or the resolver's claims. `RestingInv`: a stack at rest
has exactly the resources its last deployment wanted, each with the props of that
deployment. `BundleInv`: from staging on, the files in the shared directory are of the
synthesis's own props, and only `shared/` outlives the clean-up beside the bundle;
`VisitInv`: a request is answered as the tenant's whose host it came with. `SiteInv`:
while a bake runs, `$LATEST` is what it will publish; the bake's last request that
succeeded names the version it published; a site at rest is associated with the
version of its deployment, on its runtime as long as no rollback left the edge
function's own stack behind (`InStep`).

**Assumptions.** Each module names its `ASSUME`, and TLC evaluates it in the runs.
Nearly all give constants their types (lifetimes and bounds are naturals, marks like
`NoOne` are not members). More is said only by `LimiterAssumption` (skew and margin,
above) and by the positive lifetimes of caches (`ConfigCache`, `EdgeAuth`,
`SharedTriggers`). `AuditAssumption` allows a retention of 0, which a fraction of a
day is rounded to.

**Only model-checked:** liveness (`EveryoneIsAnswered`, `CorrectAnswerWins`,
`EveryInvocationEnds`, `ProbeEnds`, `DeployConverges`, `SpikeClosesSignUp`,
`VisitorArrives`), because the prover knows neither fairness nor ENABLED; and the
operators of `Addresses` and the reference definitions over sequences of any length,
which would take an induction over data.

## 5. Mutants

Each property has a mutant: an operator just before the definition it replaces
(`ConsumeToken_Unconditional`, `DynamoTakeoverUnguarded`, ...), with a bug someone
could plausibly write there: a dropped condition, a swallowed error, a swapped
order, an off-by-one. With the mutant in place TLC finds the property violated.
Properties with several parts have a mutant for several of them.

## 6. Where code and documentation disagree

Shown by a run:

* `admin_unique`: subdomains are not unique. Only reservations are checked, and
  they are gone when a create ends.
* `kv_lease`: a DynamoDB lease can be held twice. Versions start at 1 again when a
  released key is created anew, so a takeover's version guard matches the new row. The
  proof of `KvContract` showed that the other adapters have the same gap elsewhere: a
  guarded delete that arrives after its row was released and created again finds the
  version it expects. `KvContract` therefore promises exclusive leases up to the first
  such request, in all adapters, and the run shows that the exception is needed.
* `self_defence`: closing self-signup resets the pool settings that the update's
  request does not name, the triggers among them.
* `idp_collision`: provider names are not kept apart. The managers pass an empty map
  where `normaliseIdpName` expects the consumer's records.

Listed as findings without a run of their own: the Postgres limiter's commit off one
token count (`AdmittedIsPaid` counts it as a leak), the cached null of the
client-config loader, sessions refused by processes that still run with the old
secret (`SessionsSurviveRotation` states the exception), the 409 that stands for every
cancelled transaction (`Reserve` has both causes), the token of a user who signs in while
the tenant is being deleted, the probe that waits for a body with its timer off
(`ProbeEnds` excepts it), the edge function that keeps a runtime its site rolled back
(`SiteWorks` excepts it), `shared/` left in the edge function's asset (`SharedWorks` says
so), and the fifty-first attribute (`DeployConverges` excepts it through `AwsAccepts`).

Observed while modelling, by module:

* **ChallengeIssue, BounceHandler.** `create-auth-challenge/index.ts:159-160` says the
  code of an unanswerable challenge is never stored; if SES fails, the row with its
  hash has been written already. `quarantine-check.ts:4-5` says hard bounces go to the
  denylist; those of known users only get the flag, which goes with the user.
  `email-hmac.ts:63-65` says a stale key heals at the next cold start; rows written
  under the old key never match again.
* **TenantAdmin.** `03-tenant-onboarding.md:136-138` promises that a repeated
  idempotency key creates nothing; a second call that reads before the first one
  records, and reserves after it released, creates again. Once the client is deleted and the row's delete has failed, every
  retry fails on the missing client. The reconciler may report a tenant that is being
  created; its comments allow for that.
* **RateLimiter.** `types.ts:21` calls `resetAt` the time at which the bucket is full;
  it is computed before the cost is taken. `dynamo-limiter.ts:29` calls the unknown-key
  strategy `allow` a pass-through; `resolveKey` treats it like the shared bucket.
* **SharedTriggers.** `allowedEmailDomains` is enforced at PreSignUp only, while
  `07-security-and-isolation.md:141-146` says more; CreateAuthChallenge checks no
  allow-list, and a domain that is removed stops sign-ups after the cache's age.
* **Sessions.** The shared auth-verify reads `headers['cookie']` only, although a
  comment in `signin.ts` speaks of the `cookies` array. The shared sign-out revokes
  nothing. A late sign-out answer clears a newer session's cookies.
* **EdgeAuth, TokenChecks.** The fallback's document says a stored copy is used "for at
  most `maxStalenessSeconds`"; the library's own cache may keep its keys longer.
  `mapVerifyErrorToResponse` looks for `iss` and finds it in "missing".
* **SealedCookies.** A key derivation that failed is kept for the life of the instance,
  and unseal throws from then on. `key-derivation.ts` says there is no cache in the class.
* **TokenClaims.** V2 pools ignore `claimsOverrideDetails`, although the document says
  both are set. A handler made by `createPreTokenGenerationHandler` cannot be wrapped:
  the wrapper always throws.
* **Federation.** `UNSAFE_CHARS` is a global regular expression used with `test`, so it
  has state; `/` is allowed although the comment excludes it. Concurrent upserts of one
  tenant can leave the pin different from what Cognito has. Attaching and detaching
  omit app-client settings. A delete that is not given an app client leaves the deleted
  provider in its list. A deleted secret cannot be stored again for seven days.
  Cognito fetches a SAML URL again after it was vetted. `secretRef` may throw after
  Cognito was written.
* **Discovery.** A `validUntil` in the past is not refused.
* **Addresses.** `isReservedIp` says no for IPv6 text it cannot parse; `expandIPv6`
  refuses a dotted tail after a compressed part. In the anonymisation (not modelled)
  an uncompressed IPv6 address with a dotted tail stays whole, and some compressed
  ones lose too much.
* **KvStore.** A guarded delete that is repeated after a lost answer deletes another's
  row; the memory store's compareAndSet with version 0 over an expired row starts at
  version 1; in Postgres a row at `expires_at = now` is neither live nor overwritable;
  DynamoDB's put is a read and a write; compareAndSet on expired rows differs between
  adapters. In code that is not modelled: `DynamoKv`'s get and list disagree at the
  boundary, list uses `begins_with` on a partition key, and `MemoryKv`'s index cursors
  skip keys after deletes.
* **AuditLog.** An oversized event under `reject` throws `AuditEventValidationError`
  where the document says `AuditWriteError`; the `metadata_truncated` flag may exceed
  the cap; an `emit` in flight is lost when the process stops.
* **SecretCache.** A buffer a caller still holds is zeroed by another call's miss or
  eviction (documented); an older fetch that is answered after a `fresh` one overwrites
  the newer value for a lifetime.
* **Keycloak.** The cached service token is not dropped on a 401.
* **RequestPipeline.** Composites carry no trust class, so they nest across classes;
  `acme.app.:443` resolves to null; `PHASE_FLAG_KEY` is never set; the residency cache
  does not coalesce, caches null, and an older answer may overwrite a newer one;
  contexts made before `configureRootLogger` keep the default logger. Redaction paths
  `*.x` match one level.
* **IdentityStack.** A consumer's attribute named `email_quarantined` overrides the
  construct's; `required` is ignored; the create
  floor may equal the function's timeout; the match of sender and zone is sensitive to
  case and a trailing dot; a switch of enrollment may deploy the environment before
  the policy; SES may take longer than the wait.
* **CostGuard.** The handler acts on any message of a shared topic; a later change of
  the template undoes the defence; an edit between Describe and Update is lost; when every
  attempt at a notification fails, sign-up stays open until the alarm has returned to OK
  and an hour exceeds the cap again (`SpikeClosesSignUp` excepts it).
* **SiteStack.** While the auth Lambdas and the gate disagree on the client, a mailed link
  is refused and spent, or the gate sends a new session back. A comment says `/auth-verify` triggers mail; `/auth-login` does, and has
  no rate rule. The "GET /login" rule matches every method, and `/login*` takes
  application paths that begin so.
* **SharedStack.** preSignUp, createAuth, verifyAuth and admin lack variables or grants
  their code needs (`SharedWorks` is about the others); the pool's issuer is baked from
  an unresolved token; the built-in pre-token bundle adds no `tenant_id`
  (`06-trigger-handlers.md:6`); the documented call of `preTokenGeneration` after
  construction throws (`06-trigger-handlers.md:359-364`); an empty list of alternative
  names is refused by CloudFront; `/login` has no rewrite; a CLOUDFRONT web ACL cannot
  be created outside us-east-1.

## 7. Not modelled, and why

* `foundation-cdk` and the small constructs of `vestibulum-cdk` (metrics, aspects,
  custom attributes, hosted UI domain, trigger hooks, bucket life cycles, security
  headers, the shared distribution's WAF): declarations without steps or state. CI
  scripts and the login pages' scripts: tooling and presentation.
* Pools, profiles and SP metadata; queue and object storage adapters; the logger's
  output: constant data, one SDK call each, or formatting.
* `DynamoKv` and `MemoryKv`, index queries and lists; `peek` and the memory limiter; the
  memory toggle store; `verifyProfileLockdown`; ULIDs: they only read, run in one turn
  of the event loop, are test doubles, or are taken as unique.
* The walk over trusted proxies, the anonymisation of addresses, parsing of cookie
  headers in foundation: string functions without state.
* Several pools behind one multi-pool verifier: the model has one, and a token of another
  issuer is unknown to it.
* The HMAC key that CreateAuthChallenge caches over a rotation (`BounceHandler` has it).
* Cryptography is taken as perfect.
* The AWS SDK's own retries: one call has one effect, except where the repository's
  code repeats it. A repeated unconditional delete of a reservation after someone else
  reserved the key is therefore not covered (listed as a hazard with a note).
* The denylist's one-year expiry, and several configurations for one bucket.

## 8. Plan

1. **Proofs**: action properties beside the invariants (a kept audit row is never
   rewritten, a zeroed buffer never comes back, a key-value version never falls while
   its row stands), the safety half of `CostGuard`, and lemmas that state the operators
   of `Addresses`, `RequestPipeline` and `TokenChecks` without their case analysis.
2. **Contracts**: the key-value contract as an abstract specification of its own with
   the three adapters as refinements; `SharedTriggers` over `ConfigCache` and
   `MagicLink` themselves instead of their contracts.
3. **Operators**: trusted-proxy walk and anonymisation against reference definitions.
