---------------------------- MODULE SharedStack ------------------------------
(***************************************************************************)
(* The SharedDistributionIdentity construct: what it accepts, the bundle   *)
(* it builds for the edge function while it synthesises, its functions'    *)
(* environment and grants, its distribution, and a visit to a tenant's     *)
(* host once it is deployed.  A synthesis may die at any step and is run   *)
(* again over the directory it left.  CloudFormation, CloudFront, ACM and  *)
(* IAM are external.                                                       *)
(***************************************************************************)
EXTENDS Integers, Sequences, FiniteSets

CONSTANTS SharedConfigs,   \* props an operator may construct with
          Visits,          \* [host, path, cookie] a browser may ask for
          MaxSyntheses,    \* bound
          MaxHops          \* bound on redirects one visit follows

ASSUME SharedAssumption == \A v \in Visits : DOMAIN v = {"host", "path", "cookie"}

VARIABLES props, synth, syntheses,
          bundleDir,       \* path below bundleOutDir -> what it was made from
          poolTriggers,    \* operation -> functions added for it
          visit, hop, answered
sharedVars == <<props, synth, syntheses, bundleDir, poolTriggers, visit, hop, answered>>

NoConfig == [none |-> TRUE]
NoVisit == [none |-> TRUE]
NoAnswer == [status |-> 0]
NoFiles == <<>>              \* the function with no files
File(name, made) == [f \in {name} |-> made]
PutFiles(files, more) ==
    [f \in DOMAIN files \cup DOMAIN more |-> IF f \in DOMAIN more THEN more[f] ELSE files[f]]
Remove(files, names) == [f \in DOMAIN files \ names |-> files[f]]

-----------------------------------------------------------------------------
(* What the constructors accept                                            *)

\* SharedDistributionIdentity's own checks, on minutes and seconds.
PropsAccepted(p) ==
    /\ p.parent # ""
    /\ p.sender = "address"
    /\ p.idTokenMinutes >= 5
    /\ p.jwksSeconds >= 60

\* WildcardCert: exactly one of a zone to validate in and an existing certificate.
CertAccepted(p) == p.hostedZone # p.existingCert
AdminAccepted(p) == p.adminCors # "wildcard"

\* Names on the certificate; an imported one is taken to cover both.
CertNames(p) ==
    {"*.parent"} \cup (IF p.existingCert \/ p.sans = "default" THEN {"parent"} ELSE {})
DomainNames(p) == {"*.parent", "parent"}

-----------------------------------------------------------------------------
(* The edge function's bundle                                              *)

\* The pool's id is a CDK token while the app is being synthesised, so the
\* issuer written into the bundle is the token's text.
ResolveEdgeConfig(p) ==
    [parent |-> p.parent, issuer |-> "unresolved token", ttl |-> p.jwksSeconds]
PlaceholderConfig == [parent |-> "placeholder", issuer |-> "placeholder", ttl |-> 0]

\* Each step of EdgeFunction's constructor, by what it does to the directory.
WriteConfig(p) == bundleDir' = PutFiles(bundleDir, File("edge-config.ts", ResolveEdgeConfig(p)))
StageSourcesAsShipped(p) ==
    bundleDir' = PutFiles(PutFiles(bundleDir, File("_staging", PlaceholderConfig)), File("shared", "sources"))
\* The handler's sources, with generated/edge-config.ts overwritten, in _staging, and
\* the sources they import in _staging/../shared.
StageSources(p) ==
    bundleDir' = PutFiles(PutFiles(bundleDir, File("_staging", ResolveEdgeConfig(p))), File("shared", "sources"))
BuildBundle(p) ==
    /\ "shared" \in DOMAIN bundleDir
    /\ bundleDir' = PutFiles(bundleDir, File("index.mjs", bundleDir["_staging"]))
\* What is removed is shared one directory further up, where nothing was put.
Tidy(p) == bundleDir' = Remove(bundleDir, {"_staging", "../shared", "edge-config.ts"})

-----------------------------------------------------------------------------
(* Synthesis                                                               *)

Operations == {"preSignUp", "createAuth", "preToken", "defineAuth", "verifyAuth", "postConfirmation"}

\* attachToUserPool and the consumer's hooks: one function for each operation.
AttachToUserPool(p) ==
    [op \in Operations |->
        CASE op = "preToken" -> IF p.preToken = "built in" THEN {"built in"} ELSE {"consumer's"}
          [] op = "postConfirmation" -> IF p.postConfirmation THEN {"consumer's"} ELSE {}
          [] OTHER -> {"built in"}]

SharedInit ==
    /\ props = NoConfig /\ synth = "idle" /\ syntheses = 0
    /\ bundleDir = NoFiles
    /\ poolTriggers = [op \in Operations |-> {}]
    /\ visit = NoVisit /\ hop = 0 /\ answered = NoAnswer

\* Two of the checks, the triggers and the pool come before the edge function.
Construct(p) ==
    /\ synth \in {"idle", "synthesised", "live"} /\ visit = NoVisit
    /\ syntheses < MaxSyntheses
    /\ props' = p /\ syntheses' = syntheses + 1
    /\ \/ /\ PropsAccepted(p) /\ CertAccepted(p)
          /\ synth' = "write" /\ poolTriggers' = AttachToUserPool(p)
       \/ /\ ~(PropsAccepted(p) /\ CertAccepted(p))
          /\ synth' = "idle" /\ UNCHANGED poolTriggers
    /\ UNCHANGED <<bundleDir, visit, hop, answered>>

After == [write |-> "stage", stage |-> "build", build |-> "tidy", tidy |-> "admin"]
BundleStep ==
    /\ \/ synth = "write" /\ WriteConfig(props)
       \/ synth = "stage" /\ StageSources(props)
       \/ synth = "build" /\ BuildBundle(props)
       \/ synth = "tidy" /\ Tidy(props)
    /\ synth' = After[synth]
    /\ UNCHANGED <<props, syntheses, poolTriggers, visit, hop, answered>>

\* The admin Lambda, with its check, comes after the edge function.
AdminStep ==
    /\ synth = "admin"
    /\ synth' = IF AdminAccepted(props) THEN "synthesised" ELSE "idle"
    /\ UNCHANGED <<props, syntheses, bundleDir, poolTriggers, visit, hop, answered>>

\* A step throws, or the process dies; what is on disk stays.
Dies ==
    /\ synth \in DOMAIN After
    /\ synth' = "idle"
    /\ UNCHANGED <<props, syntheses, bundleDir, poolTriggers, visit, hop, answered>>

\* preTokenGeneration(fn) after construction: the constructor always wired one,
\* so addTrigger throws and the app does not synthesise; postConfirmation(fn)
\* is accepted once.
HookAdded(op) ==
    /\ synth = "synthesised"
    /\ op \in {"preToken", "postConfirmation"}
    /\ \/ poolTriggers[op] = {} /\ poolTriggers' = [poolTriggers EXCEPT ![op] = {"consumer's"}]
          /\ UNCHANGED synth
       \/ poolTriggers[op] # {} /\ synth' = "idle" /\ UNCHANGED poolTriggers
    /\ UNCHANGED <<props, syntheses, bundleDir, visit, hop, answered>>

\* CloudFront wants every alias on the certificate, the certificate and a
\* CLOUDFRONT web ACL in us-east-1.
Deployable(p) ==
    /\ DomainNames(p) \subseteq CertNames(p)
    /\ p.region = "us-east-1" \/ (p.cloudFrontAcl /\ (p.existingCert \/ p.crossRegion))
Deploy ==
    /\ synth = "synthesised"
    /\ synth' = IF Deployable(props) THEN "live" ELSE "idle"
    /\ UNCHANGED <<props, syntheses, bundleDir, poolTriggers, visit, hop, answered>>

-----------------------------------------------------------------------------
(* The functions: environment and grants against what their bundles use    *)

SharedFns == {"preSignUp", "createAuth", "preToken", "defineAuth", "verifyAuth",
              "authVerify", "authSignout", "admin", "reconciler"}

SharedEnv(f) ==
    {"CLIENT_CONFIG_TABLE"}
    \cup (CASE f = "createAuth" -> {"SES_FROM", "SES_REGION", "ENROLLMENT"}
            [] f = "verifyAuth" -> {"ENROLLMENT"}
            [] f \in {"authVerify", "authSignout"} -> {"TENANT_PARENT"}
            [] f = "admin" -> {"USER_POOL_ID", "IDEMPOTENCY_TABLE", "RESERVATIONS_TABLE", "TENANT_PARENT"}
            [] f = "reconciler" -> {"USER_POOL_ID"}
            [] OTHER -> {})

ReadRows(table) == {<<"GetItem", table>>, <<"Query", table>>, <<"Scan", table>>}
ReadWriteRows(table) ==
    ReadRows(table) \cup {<<"PutItem", table>>, <<"UpdateItem", table>>, <<"DeleteItem", table>>}
OnPool(calls) == calls \X {"pool"}

SharedGrants(f) ==
    CASE f = "admin" ->
            ReadWriteRows("clientConfig") \cup ReadWriteRows("reservations") \cup ReadRows("tokens")
            \cup OnPool({"CreateUserPoolClient", "DeleteUserPoolClient", "ListUserPoolClients",
                         "AdminUserGlobalSignOut", "ListUsers"})
      [] f = "reconciler" -> ReadRows("clientConfig") \cup OnPool({"ListUserPoolClients"})
      [] f = "authVerify" ->
            ReadRows("clientConfig") \cup OnPool({"RespondToAuthChallenge", "InitiateAuth"})
      [] f \in {"preSignUp", "createAuth", "preToken", "authSignout"} -> ReadRows("clientConfig")
      [] OTHER -> {}

\* The five triggers run the single-tenant bundles.
BundleEnv(f) ==
    CASE f = "preSignUp" -> {"RATE_LIMIT_TABLE"}
      [] f = "createAuth" -> {"TOKEN_TABLE", "RATE_LIMIT_TABLE", "DENYLIST_TABLE", "SES_FROM",
                              "DOMAIN", "HMAC_SECRET", "ENROLLMENT"}
      [] f = "verifyAuth" -> {"TOKEN_TABLE", "HMAC_SECRET", "ENROLLMENT"}
      [] f \in {"authVerify", "authSignout"} -> {"CLIENT_CONFIG_TABLE", "TENANT_PARENT"}
      [] f = "admin" -> {"USER_POOL_ID", "CLIENT_CONFIG_TABLE", "IDEMPOTENCY_TABLE",
                         "RESERVATIONS_TABLE", "TENANT_PARENT"}
      [] f = "reconciler" -> {"USER_POOL_ID", "CLIENT_CONFIG_TABLE"}
      [] OTHER -> {}
TriggerCalls(f) ==
    CASE f = "preSignUp" -> {<<"UpdateItem", "rateLimit">>}
      [] f = "createAuth" -> {<<"GetSecretValue", "secret">>, <<"PutItem", "tokens">>,
                              <<"UpdateItem", "rateLimit">>, <<"GetItem", "denylist">>,
                              <<"SendEmail", "identity">>}
      [] f = "verifyAuth" -> {<<"GetSecretValue", "secret">>, <<"GetItem", "tokens">>,
                              <<"DeleteItem", "tokens">>}
      [] OTHER -> {}
AuthVerifyCalls == {<<"Query", "clientConfig">>, <<"RespondToAuthChallenge", "pool">>,
                    <<"GetTokensFromRefreshToken", "pool">>}
AuthSignoutCalls == {<<"Query", "clientConfig">>}
AdminCalls ==
    {<<"GetItem", "idempotency">>, <<"PutItem", "idempotency">>,
     <<"PutItem", "reservations">>, <<"DeleteItem", "reservations">>}
    \cup ({"PutItem", "Query", "UpdateItem", "DeleteItem", "Scan"} \X {"clientConfig"})
    \cup OnPool({"CreateUserPoolClient", "DeleteUserPoolClient", "ListUsers", "AdminUserGlobalSignOut"})
ReconcilerCalls == {<<"ListUserPoolClients", "pool">>, <<"Scan", "clientConfig">>}
BundleCalls(f) ==
    CASE f = "authVerify" -> AuthVerifyCalls
      [] f = "authSignout" -> AuthSignoutCalls
      [] f = "admin" -> AdminCalls
      [] f = "reconciler" -> ReconcilerCalls
      [] OTHER -> TriggerCalls(f)

\* Cognito has no action of its own for the refresh: who may InitiateAuth may make it.
Permitted(f) ==
    SharedGrants(f) \cup (IF <<"InitiateAuth", "pool">> \in SharedGrants(f)
                          THEN {<<"GetTokensFromRefreshToken", "pool">>} ELSE {})
LacksEnv(f) == BundleEnv(f) \ SharedEnv(f)
LacksCalls(f) == BundleCalls(f) \ Permitted(f)

-----------------------------------------------------------------------------
(* A visit                                                                 *)

\* The behaviours in CloudFront's order: what answers, whether the edge
\* function runs first, and the Host header the origin is sent.
CacheBehaviour(origin, gated, host) == [origin |-> origin, gated |-> gated, host |-> host]
BehaviourOf(path) ==
    CASE path = "/login/callback" -> CacheBehaviour("authVerify", FALSE, "viewer")
      [] path = "/logout" -> CacheBehaviour("authSignout", FALSE, "viewer")
      [] path \in {"/login", "/login/asset"} -> CacheBehaviour("bucket", FALSE, "origin")
      [] OTHER -> CacheBehaviour("bucket", TRUE, "origin")

\* check-auth with the configuration in its bundle: a token of the pool is of
\* another issuer than the one baked in.
EdgeAnswer(v, cfg) ==
    CASE v.host \notin {"acme", "globex"} -> "refused"
      [] v.cookie = "none" -> "login"
      [] cfg.issuer # "pool" -> "refused"
      [] v.cookie # v.host -> "refused"
      [] OTHER -> "passed"

\* The bucket holds login.html and its assets; no function rewrites "/login".
BucketStatus(path) == IF path = "/login/asset" THEN 200 ELSE 403
\* The Function URLs answer for the tenant the Host header names.
HandlerTenant(v, host) == IF host = "viewer" /\ v.host # "parent" THEN v.host ELSE "invalid host"

Arrive(v) ==
    /\ synth = "live" /\ visit = NoVisit
    /\ visit' = v /\ hop' = 0 /\ answered' = NoAnswer
    /\ UNCHANGED <<props, synth, syntheses, bundleDir, poolTriggers>>

Serve ==
    /\ visit # NoVisit /\ answered = NoAnswer /\ hop <= MaxHops
    /\ LET b == BehaviourOf(visit.path)
           edge == EdgeAnswer(visit, bundleDir["index.mjs"])
       IN  \/ /\ b.gated /\ edge = "login"
              /\ visit' = [visit EXCEPT !.path = "/login"] /\ hop' = hop + 1
              /\ UNCHANGED answered
           \/ /\ b.gated /\ edge = "refused"
              /\ answered' = [status |-> 403] /\ UNCHANGED <<visit, hop>>
           \/ /\ ~b.gated \/ edge = "passed"
              /\ answered' = IF b.origin = "bucket"
                             THEN [status |-> BucketStatus(visit.path)]
                             ELSE [status |-> 200, by |-> b.origin,
                                   tenant |-> HandlerTenant(visit, b.host)]
              /\ UNCHANGED <<visit, hop>>
    /\ UNCHANGED <<props, synth, syntheses, bundleDir, poolTriggers>>

Leave ==
    /\ answered # NoAnswer
    /\ visit' = NoVisit /\ hop' = 0 /\ answered' = NoAnswer
    /\ UNCHANGED <<props, synth, syntheses, bundleDir, poolTriggers>>

SharedNext ==
    \/ \E p \in SharedConfigs : Construct(p)
    \/ BundleStep \/ AdminStep \/ Dies \/ Deploy \/ Serve \/ Leave
    \/ \E op \in Operations : HookAdded(op)
    \/ \E v \in Visits : Arrive(v)

SharedSpec == SharedInit /\ [][SharedNext]_sharedVars

-----------------------------------------------------------------------------
(* Properties                                                              *)

\* What edge-function.ts hands to Code.fromAsset is the bundle of this
\* synthesis's configuration, also over the directory that a synthesis which
\* died half way left behind: of the staged files only the copy of the shared
\* sources stays beside it, the configuration and the handler's sources do not.
EdgeAssetIsCurrent ==
    synth \in {"admin", "synthesised", "live"} =>
        /\ bundleDir["index.mjs"] = ResolveEdgeConfig(props)
        /\ DOMAIN bundleDir = {"index.mjs", "shared"}

\* A request to a Function URL behind the distribution is answered for the
\* tenant whose host the viewer asked for (cloudfront-distribution.ts forwards
\* Host), and no visit is sent to the login page by the login page.
TenantAnsweredAsItself ==
    /\ "tenant" \in DOMAIN answered /\ visit.host # "parent" => answered.tenant = visit.host
    /\ hop <= 1

\* A function of a deployed construct finds the environment its bundle reads and
\* may make the calls its bundle makes, except for what the construct provides to
\* nobody: three triggers run single-tenant bundles whose tables, key, link domain
\* and mail it neither names nor grants, and the admin's idempotency table is named
\* but never made.
UnprovidedEnv == {"RATE_LIMIT_TABLE", "TOKEN_TABLE", "DENYLIST_TABLE", "DOMAIN", "HMAC_SECRET"}
Unprovided == {"rateLimit", "tokens", "denylist", "secret", "identity", "idempotency"}
OthersWired ==
    synth = "live" =>
        \A f \in SharedFns :
            /\ LacksEnv(f) \subseteq UnprovidedEnv
            /\ \A call \in LacksCalls(f) : call[2] \in Unprovided
            /\ f \notin {"preSignUp", "createAuth", "verifyAuth", "admin"} =>
                  LacksEnv(f) = {} /\ LacksCalls(f) = {}

\* The edge runs the bundle of its configuration, tenants' requests reach the
\* handlers as theirs, and the handlers lack only what nobody is given.
SharedWorks == EdgeAssetIsCurrent /\ TenantAnsweredAsItself /\ OthersWired
=============================================================================
