----------------------------- MODULE SiteStack -------------------------------
(***************************************************************************)
(* The MagicLinkAuthSite and EdgeResources constructs: what they accept,   *)
(* the deployment of the check-auth edge function with the custom resource *)
(* that bakes the pool and client into it, the behaviours of the           *)
(* distribution, its web ACL, and the auth Lambdas' environment and        *)
(* grants.  A visitor signs in through the deployed site while it is being *)
(* updated.  CloudFormation, Lambda's versions, Cognito and CloudFront's   *)
(* matching are external.  The edge function is a resource of the site's   *)
(* stack when that is in us-east-1; elsewhere CDK puts it in a stack of    *)
(* its own there, which is updated before the site's and not rolled back   *)
(* with it.                                                                *)
(***************************************************************************)
EXTENDS Integers, Sequences, FiniteSets

CONSTANTS SiteConfigs,    \* deployments an operator may ask for
          MaxSiteDeploys, \* bound
          MaxSiteFaults,  \* bound
          LoginLimit, VerifyLimit   \* requests per window the web ACL lets through

VARIABLES inRegion,   \* the site's stack is in us-east-1, with the edge function
          aim,        \* the deployment under way, or the last one asked for
          deployed,   \* the last one that finished; NoSite before
          siteStage, done, siteDeploys, siteFaults,
          fnProps,    \* properties CloudFormation last gave the edge function
          latest,     \* its $LATEST: code and runtime
          published,  \* its versions
          bakeRequest,\* properties of the bake CloudFormation last saw succeed
          baking,     \* the baker has replaced the code and not yet published
          bakedArn,   \* version the bake answered
          associated, \* version the distribution runs; 0: no distribution
          handlerEnv, \* pool and client in each auth Lambda's environment
          visitor, hits
siteVars == <<inRegion, aim, deployed, siteStage, done, siteDeploys, siteFaults, fnProps, latest,
              published, bakeRequest, baking, bakedArn, associated, handlerEnv, visitor, hits>>
deployVars == <<inRegion, aim, deployed, siteStage, done, siteDeploys, siteFaults, fnProps, latest,
                published, bakeRequest, baking, bakedArn, associated, handlerEnv>>

NoSite == [none |-> TRUE]
Placeholder == "PLACEHOLDER"

-----------------------------------------------------------------------------
(* Synthesis                                                               *)

AuthSiteBundleNames == {"auth-verify", "auth-signout", "auth-login", "check-auth",
                        "check-auth-config-baker"}

\* The manifest is read, and every bundle is declared in it and on disk.
ResolveBundleAssetPath(c, name) == name \in c.declared /\ (c.skipAssetCheck \/ name \in c.onDisk)
ResolveAuthSiteBundlePaths(c) ==
    c.manifest /\ \A name \in AuthSiteBundleNames : ResolveBundleAssetPath(c, name)

\* The edge resources live in us-east-1, unless the region is not known yet.
EdgeResourcesAccepted(c) == c.edgeRegion \in {"us-east-1", "token"}

\* Links point at the site that serves them, unless either name is a token.
LinkDomainMatches(c) ==
    "token" \in {c.linkDomain, c.domain} \/ c.linkDomain = c.domain

SiteAccepts(c) ==
    /\ EdgeResourcesAccepted(c)
    /\ LinkDomainMatches(c)
    /\ ResolveAuthSiteBundlePaths(c)
    /\ c.floor \in 500..6000

-----------------------------------------------------------------------------
(* The distribution                                                        *)

\* Paths of the site, by the prefix that routes them.
LoginPaths == {"/login", "/login/callback", "/login.js"}
LoginObjects == {"/login.html", "/login-callback.html", "/login.js"}

\* The function in front of the login pages names the page objects.
Rewrite(path) ==
    CASE path = "/login" -> "/login.html"
      [] path = "/login/callback" -> "/login-callback.html"
      [] OTHER -> path

\* First match: login pages ungated from the bucket, the auth endpoints ungated
\* with cookies forwarded, everything else from the application behind the gate.
EveryPathGated(path) ==
    CASE path \in LoginPaths -> [origin |-> "bucket", gated |-> TRUE, cookies |-> FALSE]
      [] path \in {"/auth-verify", "/auth-login", "/auth-signout"} ->
             [origin |-> path, gated |-> FALSE, cookies |-> TRUE]
      [] OTHER -> [origin |-> "application", gated |-> TRUE, cookies |-> FALSE]
Behaviour(path) ==
    CASE path \in LoginPaths -> [origin |-> "bucket", gated |-> FALSE, cookies |-> FALSE]
      [] path \in {"/auth-verify", "/auth-login", "/auth-signout"} ->
             [origin |-> path, gated |-> FALSE, cookies |-> TRUE]
      [] OTHER -> [origin |-> "application", gated |-> TRUE, cookies |-> FALSE]

\* The two rate rules of defaultWafRules: by path prefix, whatever the method.
RateRule(path) ==
    CASE path \in LoginPaths -> "LoginRateLimit"
      [] path = "/auth-verify" -> "AuthRateLimit"
      [] OTHER -> "none"
Limit(rule) == IF rule = "LoginRateLimit" THEN LoginLimit ELSE VerifyLimit
Blocked(path) == deployed.webAcl /\ RateRule(path) # "none" /\ hits[RateRule(path)] >= Limit(RateRule(path))

-----------------------------------------------------------------------------
(* The auth Lambdas                                                        *)

AuthFns == {"auth-verify", "auth-signout", "auth-login"}
AuthEnv(f) ==
    {"USER_POOL_ID", "CLIENT_ID", "DOMAIN", "METRICS_NAMESPACE"}
    \cup (CASE f = "auth-verify" -> {"BINDING_TABLE", "REFRESH_TOKEN_VALIDITY_SECONDS"}
            [] f = "auth-signout" -> {"REFRESH_TOKEN_VALIDITY_SECONDS"}
            [] OTHER -> {"ENROLLMENT", "RATE_LIMIT_TABLE", "BINDING_TABLE", "SIGNIN_FLOOR_MS",
                         "TOKEN_TTL_MINUTES", "LOGIN_IP_PER_WINDOW"})
AuthGrants(f, enrollment) ==
    CASE f = "auth-verify" -> {"RespondToAuthChallenge", "DeleteItem binding"}
      [] f = "auth-signout" -> {"AdminUserGlobalSignOut"}
      [] OTHER -> {"InitiateAuth", "UpdateItem rateLimit", "PutItem binding"}
                  \cup (IF enrollment = "self-signup" THEN {"SignUp"} ELSE {"ListUsers"})

\* What the handlers read and call.
AuthLoginUses(enrollment) ==
    {"DOMAIN", "RATE_LIMIT_TABLE", "BINDING_TABLE", "CLIENT_ID",
     "InitiateAuth", "UpdateItem rateLimit", "PutItem binding"}
    \cup (IF enrollment = "self-signup" THEN {"SignUp"} ELSE {"USER_POOL_ID", "ListUsers"})
AuthVerifyUses == {"DOMAIN", "CLIENT_ID", "BINDING_TABLE", "DeleteItem binding",
                   "RespondToAuthChallenge"}
AuthSignoutUses == {"DOMAIN", "USER_POOL_ID", "CLIENT_ID", "AdminUserGlobalSignOut"}
Uses(f, enrollment) ==
    CASE f = "auth-verify" -> AuthVerifyUses
      [] f = "auth-signout" -> AuthSignoutUses
      [] OTHER -> AuthLoginUses(enrollment)
Wired(f, enrollment) == Uses(f, enrollment) \subseteq AuthEnv(f) \cup AuthGrants(f, enrollment)

-----------------------------------------------------------------------------
(* Deploying                                                               *)

Code(base) == [base |-> base, pool |-> Placeholder, client |-> Placeholder]
SiteInit ==
    /\ inRegion \in BOOLEAN
    /\ aim = NoSite /\ deployed = NoSite /\ siteStage = "resting" /\ done = {}
    /\ siteDeploys = 0 /\ siteFaults = 0
    /\ fnProps = NoSite /\ latest = NoSite /\ published = <<>>
    /\ bakeRequest = NoSite /\ baking = FALSE /\ bakedArn = 0 /\ associated = 0
    /\ handlerEnv = [f \in AuthFns |-> NoSite]
    /\ visitor = [at |-> "away", session |-> NoSite, cookie |-> NoSite]
    /\ hits = [r \in {"LoginRateLimit", "AuthRateLimit"} |-> 0]

\* Properties of the edge function that differ between deployments.
EdgeProps(c) == [base |-> c.base, runtime |-> c.runtime]

\* A deployment that changes nothing is none: after a rollback the edge function's
\* own stack may still be at the deployment that failed.
DeploySite(c) ==
    /\ siteStage = "resting" /\ siteDeploys < MaxSiteDeploys
    /\ SiteAccepts(c) /\ (c # deployed \/ fnProps # EdgeProps(c))
    /\ aim' = c /\ siteStage' = "deploying" /\ done' = {} /\ siteDeploys' = siteDeploys + 1
    /\ UNCHANGED <<inRegion, deployed, siteFaults, fnProps, latest, published, bakeRequest, baking,
                   bakedArn, associated, handlerEnv, visitor, hits>>

\* A stack of its own is up to date before the site's stack is touched.
Step(s) == siteStage # "resting" /\ s \notin done /\ (s = "function" \/ inRegion \/ "function" \in done)
Done(s) == done' = done \cup {s}

\* New code brings the placeholders back; a new runtime alone keeps the code.
UpdateEdgeFunction ==
    /\ Step("function") /\ ~baking
    /\ fnProps' = EdgeProps(aim)
    /\ latest' = [code |-> IF fnProps = NoSite THEN Code(aim.base)
                           ELSE IF fnProps.base # aim.base THEN Code(aim.base) ELSE latest.code,
                  runtime |-> aim.runtime]
    /\ Done("function")
    /\ UNCHANGED <<inRegion, aim, deployed, siteStage, siteDeploys, siteFaults, published, bakeRequest,
                   baking, bakedArn, associated, handlerEnv, visitor, hits>>

\* Properties of the bake: it runs again exactly when one of them changes.
BakePropertiesNoRuntime(c) == [pool |-> c.pool, client |-> c.client, baseSha |-> c.base]
BakeProperties(c) ==
    [pool |-> c.pool, client |-> c.client, baseSha |-> c.base, runtime |-> c.runtime]

\* The placeholders of the pristine bundle, replaced; one that survives throws.
Inject(c) == [base |-> c.base, pool |-> c.pool, client |-> c.client]

SkipBake ==
    /\ Step("bake") /\ "function" \in done /\ BakeProperties(aim) = bakeRequest
    /\ Done("bake")
    /\ UNCHANGED <<inRegion, aim, deployed, siteStage, siteDeploys, siteFaults, fnProps, latest, published,
                   bakeRequest, baking, bakedArn, associated, handlerEnv, visitor, hits>>
UpdateFunctionCode ==
    /\ Step("bake") /\ "function" \in done /\ ~baking
    /\ BakeProperties(aim) # bakeRequest
    /\ Placeholder \notin {Inject(aim).pool, Inject(aim).client}
    /\ latest' = [latest EXCEPT !.code = Inject(aim)] /\ baking' = TRUE
    /\ UNCHANGED <<inRegion, aim, deployed, siteStage, done, siteDeploys, siteFaults, fnProps, published,
                   bakeRequest, bakedArn, associated, handlerEnv, visitor, hits>>

\* Lambda answers the last version when nothing changed since.
PublishVersion ==
    /\ baking
    /\ published' = IF published # <<>> /\ published[Len(published)] = latest THEN published
                    ELSE Append(published, latest)
    /\ bakedArn' = Len(published')
    /\ bakeRequest' = BakeProperties(aim) /\ baking' = FALSE
    /\ Done("bake")
    /\ UNCHANGED <<inRegion, aim, deployed, siteStage, siteDeploys, siteFaults, fnProps, latest, associated,
                   handlerEnv, visitor, hits>>

\* Each auth Lambda is a resource of its own.
UpdateHandler(f) ==
    /\ Step(f)
    /\ handlerEnv' = [handlerEnv EXCEPT ![f] = [pool |-> aim.pool, client |-> aim.client]]
    /\ Done(f)
    /\ UNCHANGED <<inRegion, aim, deployed, siteStage, siteDeploys, siteFaults, fnProps, latest, published,
                   bakeRequest, baking, bakedArn, associated, visitor, hits>>

\* The association names the version the bake answered, never the bare function.
UpdateDistribution ==
    /\ Step("distribution") /\ {"bake"} \cup AuthFns \subseteq done
    /\ associated' = bakedArn
    /\ Done("distribution")
    /\ UNCHANGED <<inRegion, aim, deployed, siteStage, siteDeploys, siteFaults, fnProps, latest, published,
                   bakeRequest, baking, bakedArn, handlerEnv, visitor, hits>>

FinishSite ==
    /\ siteStage # "resting" /\ "distribution" \in done
    /\ deployed' = aim /\ siteStage' = "resting"
    /\ UNCHANGED <<inRegion, aim, done, siteDeploys, siteFaults, fnProps, latest, published, bakeRequest,
                   baking, bakedArn, associated, handlerEnv, visitor, hits>>

\* A step of the site's stack fails: a first deployment is deleted, an update is
\* undone by the same steps.  A bake that failed is sent again with the properties
\* it had before.  An edge function in its own stack stays as the failed deployment
\* made it.
SiteFault ==
    /\ siteStage = "deploying" /\ siteFaults < MaxSiteFaults /\ "distribution" \notin done
    /\ inRegion \/ "function" \in done
    /\ siteFaults' = siteFaults + 1 /\ baking' = FALSE
    /\ done' = IF inRegion \/ deployed = NoSite THEN {} ELSE {"function"}
    /\ IF deployed = NoSite
       THEN /\ aim' = NoSite /\ siteStage' = "resting"
            /\ IF inRegion THEN fnProps' = NoSite /\ latest' = NoSite /\ published' = <<>>
               ELSE UNCHANGED <<fnProps, latest, published>>
            /\ bakeRequest' = NoSite /\ bakedArn' = 0 /\ associated' = 0
            /\ handlerEnv' = [f \in AuthFns |-> NoSite]
       ELSE /\ aim' = deployed /\ siteStage' = "rolling back"
            /\ bakeRequest' = IF baking THEN NoSite ELSE bakeRequest
            /\ UNCHANGED <<fnProps, latest, published, bakedArn, associated, handlerEnv>>
    /\ UNCHANGED <<inRegion, deployed, siteDeploys, visitor, hits>>

\* A step of the edge function's own stack fails, and that stack alone is put back:
\* code it had replaced is the bundle's again, with its placeholders.  The site's
\* stack is not reached.
EdgeStackFault ==
    /\ siteStage = "deploying" /\ siteFaults < MaxSiteFaults /\ ~inRegion /\ "function" \notin done
    /\ siteFaults' = siteFaults + 1 /\ siteStage' = "resting"
    /\ latest' \in IF fnProps # NoSite /\ fnProps # EdgeProps(aim)
                   THEN {latest, [latest EXCEPT !.code = Code(fnProps.base)]} ELSE {latest}
    /\ UNCHANGED <<inRegion, aim, deployed, done, siteDeploys, fnProps, published, bakeRequest, baking,
                   bakedArn, associated, handlerEnv, visitor, hits>>

-----------------------------------------------------------------------------
(* A visitor                                                               *)

\* check-auth runs the associated version: it accepts tokens of the pool and
\* client baked into it.
Passes(cookie) ==
    cookie # NoSite /\ cookie = [pool |-> published[associated].code.pool,
                                 client |-> published[associated].code.client]

\* Where a request leaves the visitor: at the gate's /login, at the object the
\* bucket has, or where the origin's answer puts it.
Answer(path, then) ==
    IF Behaviour(path).gated /\ ~Passes(visitor.cookie) THEN "sent to /login"
    ELSE IF Behaviour(path).origin = "bucket" /\ Rewrite(path) \notin LoginObjects THEN "missing page"
    ELSE then

\* The endpoint has opened a session, or set or cleared the cookie.
Visit(from, path, then, session, cookie) ==
    /\ associated > 0 /\ deployed # NoSite /\ visitor.at \in from
    /\ hits' = IF deployed.webAcl /\ RateRule(path) # "none"
                  /\ hits[RateRule(path)] < Limit(RateRule(path))
               THEN [hits EXCEPT ![RateRule(path)] = @ + 1] ELSE hits
    /\ ~Blocked(path)
    /\ visitor' = [at |-> Answer(path, then), session |-> session,
                   cookie |-> IF Behaviour(path).cookies THEN cookie ELSE visitor.cookie]
    /\ UNCHANGED deployVars

Stay(from, path, then) == Visit(from, path, then, visitor.session, visitor.cookie)

Open == Stay({"away", "signed in"}, "/", "home")
\* The gate's redirect, or the link the callback page offers after a refusal.
LoginPage == Stay({"sent to /login", "refused"}, "/login", "login page")
\* auth-login asks Cognito for a session of its client and keeps it in the binding.
RequestLink == Visit({"login page"}, "/auth-login", "mailed", handlerEnv["auth-login"], visitor.cookie)
FollowLink == deployed # NoSite /\ deployed.linkDomain = deployed.domain
              /\ Stay({"mailed"}, "/login/callback", "callback page")
\* auth-verify takes the binding and answers the challenge with its own client: Cognito
\* refuses a session of another one, the handler answers 401, and the link is spent.
Verify ==
    \/ /\ visitor.session = handlerEnv["auth-verify"]
       /\ Visit({"callback page"}, "/auth-verify", "signed in", NoSite, handlerEnv["auth-verify"])
    \/ /\ visitor.session # handlerEnv["auth-verify"]
       /\ Visit({"callback page"}, "/auth-verify", "refused", NoSite, visitor.cookie)
SignOut == Visit({"home"}, "/auth-signout", "away", visitor.session, NoSite)
Reload == Stay({"home"}, "/", "home")
WindowPasses ==
    /\ \E r \in DOMAIN hits : hits[r] > 0
    /\ hits' = [r \in DOMAIN hits |-> 0]
    /\ UNCHANGED <<deployVars, visitor>>

SiteNext ==
    \/ \E c \in SiteConfigs : DeploySite(c)
    \/ UpdateEdgeFunction \/ SkipBake \/ UpdateFunctionCode \/ PublishVersion
    \/ \E f \in AuthFns : UpdateHandler(f)
    \/ UpdateDistribution \/ FinishSite \/ SiteFault \/ EdgeStackFault
    \/ Open \/ LoginPage \/ RequestLink \/ FollowLink \/ Verify \/ SignOut \/ Reload
    \/ WindowPasses

SiteSpec == SiteInit /\ [][SiteNext]_siteVars

\* CloudFormation finishes what it started; the visitor goes on, and windows end.
SiteProgress ==
    \/ UpdateEdgeFunction \/ SkipBake \/ UpdateFunctionCode \/ PublishVersion
    \/ (\E f \in AuthFns : UpdateHandler(f)) \/ UpdateDistribution \/ FinishSite
VisitorProgress ==
    Open \/ LoginPage \/ RequestLink \/ FollowLink \/ Verify \/ WindowPasses

-----------------------------------------------------------------------------
(* Properties                                                              *)

\* The gate never runs a version with placeholders, and once a deployment or a
\* rollback has finished it runs exactly the bundle, pool and client of that
\* deployment, however many bakes failed before.  It runs on that deployment's
\* runtime too, but for one case: where the edge function has its own stack and a
\* deployment failed after updating it, the site's rollback bakes the old bundle on
\* the new runtime, and the bake's properties do not show it.
EdgeServesCurrentConfig ==
    associated > 0 =>
        /\ published[associated].code.pool # Placeholder
        /\ siteStage = "resting" =>
              /\ published[associated].code = Inject(deployed)
              /\ inRegion \/ siteFaults = 0 => published[associated].runtime = deployed.runtime

\* A visitor gets to the application, signing in on the way: the login pages are
\* outside the gate and the cookies pass.  A client replaced under way makes the gate
\* send the visitor back, or Cognito refuse the link that was mailed, while the
\* Lambdas and the gate disagree on the client; once the deployment ends they agree.
VisitorArrives == []<>(visitor.at = "home" \/ associated = 0)

\* In a deployed site no auth Lambda lacks a variable or a permission its
\* handler uses.
AuthFnsWired ==
    siteStage = "resting" /\ deployed # NoSite =>
        \A f \in AuthFns : Wired(f, deployed.enrollment)

\* The gate and the handlers of a deployed site are the ones it was given.
SiteWorks == EdgeServesCurrentConfig /\ AuthFnsWired
=============================================================================
