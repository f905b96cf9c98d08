--------------------------- MODULE IdentityStack -----------------------------
(***************************************************************************)
(* The MagicLinkIdentity construct: what it accepts at synthesis, the      *)
(* resources it declares with their dependencies and removal policies, the *)
(* environment and grants of its Lambdas, the IAM fence around the mail    *)
(* and the wait for SES verification.  CloudFormation, which creates,      *)
(* updates and rolls the resources back, and the rules of Cognito, SES and *)
(* IAM are external.                                                       *)
(***************************************************************************)
EXTENDS Integers, Sequences, FiniteSets, FiniteSetsExt, Functions

CONSTANTS Configs,      \* props an operator may write
          Recipients,   \* sets of addresses a send may name
          MaxCustomAttributesPerPool,  \* Cognito's quota, 50
          MaxStackFaults,   \* bound: deployment faults, a timed-out wait among them
          MaxChanges        \* bound: changes of the configuration

ASSUME IdAssumption == [none |-> TRUE] \notin Configs   \* NoProps is not among them

VARIABLES target,  \* the props the operator wants deployed
          base,    \* the props last deployed, NoProps before the first time
          built,   \* resource -> the props it was created or last updated with
          phase,   \* of the stack operation
          ses,     \* the sender domain: "absent", "pending" or "verified"
          waitId,  \* physical id CloudFormation holds for the wait
          stackFaults, changes,
          mailed   \* the last mail IAM let through
idVars == <<target, base, built, phase, ses, waitId, stackFaults, changes, mailed>>

NoProps == [none |-> TRUE]
NoMail == [to |-> {}, under |-> NoProps]
Unset == <<>>    \* an optional prop that is absent; a present one is <<value>>

\* A prop whose value is a token at synthesis stands for what it resolves to later.
Tokens == {"token", "token elsewhere"}

-----------------------------------------------------------------------------
(* Synthesis                                                               *)

\* The first offence throws: too many attributes, an illegal, over-long or
\* repeated name, required and immutable, lengths on something not a string,
\* lengths the wrong way round.
ValidateCustomAttributeDeclarations(attrs) ==
    /\ Len(attrs) <= MaxCustomAttributesPerPool
    /\ \A i \in DOMAIN attrs :
        LET a == attrs[i] IN
        /\ a.legal
        /\ a.length \in 1..20
        /\ \A j \in 1..(i - 1) : attrs[j].name # a.name
        /\ ~(a.required /\ ~a.mutable)
        /\ a.type # "String" => a.min = Unset /\ a.max = Unset
        /\ a.min # Unset /\ a.max # Unset => a.min[1] <= a.max[1]

\* Overhead of the standard claims, then each attribute's longest value and key.
EstimateTokenSizeBytes(attrs) ==
    2560 + MapThenSumSet(LAMBDA i : (IF attrs[i].max = Unset THEN 256 ELSE attrs[i].max[1])
                                    + 13 + attrs[i].length,
                         DOMAIN attrs)
ValidateTokenSize(attrs) == EstimateTokenSizeBytes(attrs) <= 6 * 1024

\* An address with both parts; the sender's domain is the zone or below it.  A
\* zone name that is a token is not compared.
ValidateSesIdentitySender(p) == p.sender = "address"
ValidateSenderMatchesHostedZone(p) == p.zone \in {"same", "parent"} \cup Tokens
ValidateSignupModeForFederation(p) == p.federation => p.signupMode # "unset"
ValidateEnrollment(p) == p.enrollment \in {"admin-only", "self-signup"}

\* Patterns, when given, are not empty; an allow pattern holds an "@".
ValidateRecipientPatterns(patterns, needsAt) ==
    patterns # Unset =>
        patterns[1] # {} /\ \A pat \in patterns[1] : ~pat.empty /\ (needsAt => pat.at)

\* A custom Hosted UI domain wants its certificate in us-east-1; federation
\* wants some domain.  A certificate ARN that is a token is let through.
HostedUiAccepted(p) ==
    /\ p.federation => p.hostedUi # "none"
    /\ p.hostedUi \notin {"none", "cognito"} => p.hostedUi \in {"us-east-1"} \cup Tokens

\* Region and account of a consumer's trigger, compared unless they are tokens.
ValidateSameAccountRegion(p) == p.trigger \in {"none", "same"} \cup Tokens

ValidateFederationCallbackUrls(urls) == urls \subseteq {"https", "localhost"}

\* addAppClient: never a secret; the OAuth block defaults to the code flow of a
\* federated pool; the session lasts exactly as long as the link.
BuildAppClientOptions(p) ==
    [accepted |-> /\ ~p.client.secret
                  /\ p.federation => ValidateFederationCallbackUrls(p.client.callbacks),
     flows |-> {"custom"},
     oAuth |-> p.federation \/ p.client.callbacks # {},
     authSession |-> p.ttl]

\* The alarm of the cost guard needs a positive threshold.
GuardAccepted(p) == p.guard.enabled => p.guard.cap > 0

\* The constructor runs to its end.
Accepts(p) ==
    /\ ValidateSesIdentitySender(p)
    /\ ValidateSenderMatchesHostedZone(p)
    /\ ValidateCustomAttributeDeclarations(p.attrs)
    /\ ValidateTokenSize(p.attrs)
    /\ ValidateSignupModeForFederation(p)
    /\ ValidateEnrollment(p)
    /\ p.linkDomain \in {"host", "token"}
    /\ ValidateRecipientPatterns(p.allowed, TRUE)
    /\ ValidateRecipientPatterns(p.denied, FALSE)
    /\ HostedUiAccepted(p)
    /\ p.ttl \in 3..15
    /\ p.floor \in 100..5000
    /\ p.perDay >= 1
    /\ ValidateSameAccountRegion(p)
    /\ GuardAccepted(p)
    /\ BuildAppClientOptions(p).accepted

\* The custom attributes of the pool: the quarantine flag and the consumer's.
PoolAttributes(p) == {"email_quarantined"} \cup {p.attrs[i].name : i \in DOMAIN p.attrs}

\* Defined together: sign-up only by an administrator unless enrolment says so,
\* the triggers, the advanced-security mode, the tier, and the version of the
\* token trigger.
Pool(p) ==
    [adminOnly |-> p.enrollment # "self-signup",
     attributes |-> PoolAttributes(p),
     triggers |-> {"preSignUp", "defineAuth", "createAuth", "verifyAuth"}
                  \cup (IF p.trigger = "none" THEN {} ELSE {"preTokenGeneration"}),
     addOns |-> p.advanced, tier |-> p.tier, tokenVersion |-> p.tokenVersion]

-----------------------------------------------------------------------------
(* Resources                                                               *)

Resources == {"store", "bindings", "mailSet", "identity", "dns", "wait", "triggers",
              "pool", "bounceFn", "allowList", "riskConfig", "client", "domain", "guard"}

\* "store": the HMAC secret and the token, rate-limit and denylist tables;
\* "mailSet": the bounce topic and the configuration set that feeds it.
Wanted(p) ==
    IF p = NoProps THEN {}
    ELSE Resources \ ((IF p.enrollment = "admin-only" THEN {} ELSE {"allowList"})
                      \cup (IF p.advanced = "off" THEN {"riskConfig"} ELSE {})
                      \cup (IF p.hostedUi = "none" THEN {"domain"} ELSE {})
                      \cup (IF p.guard.enabled THEN {} ELSE {"guard"}))

\* What a resource's properties refer to.  The allow-list grants are a policy of
\* their own: as part of the triggers' roles they would close a cycle.
References(r) ==
    CASE r = "identity" -> {"mailSet"}
      [] r = "dns" -> {"identity"}
      [] r = "triggers" -> {"store", "mailSet"}
      [] r = "pool" -> {"triggers"}
      [] r = "bounceFn" -> {"pool", "store", "mailSet"}
      [] r \in {"allowList", "riskConfig", "client", "domain", "guard"} -> {"pool"}
      [] OTHER -> {}
\* What addDependency adds: the wait comes after the records, the pool after the wait.
PoolDoesNotWait(r) == IF r = "wait" THEN {"identity", "dns"} ELSE {}
AddedDependencies(r) ==
    CASE r = "wait" -> {"identity", "dns"}
      [] r = "pool" -> {"wait"}
      [] OTHER -> {}
DependsOn(r) == References(r) \cup AddedDependencies(r)

\* A pool, the secret and the tables that hold state survive the stack; the
\* pending sign-ins and the SES identity do not.
Retained == {"store", "pool"}

OnEvent(request, held) == IF request = "Create" THEN "ses-verify" ELSE held

\* isComplete of the wait: an error reads as not yet.
IsComplete(readable) == readable /\ ses = "verified"

-----------------------------------------------------------------------------
(* What Cognito and SES accept (external)                                  *)

Creatable(r, p) ==
    CASE r = "identity" -> ses = "absent" \/ r \in DOMAIN built
      [] r = "pool" -> /\ ses = "verified"
                       /\ Cardinality(Pool(p).attributes) <= MaxCustomAttributesPerPool
                       /\ p.trigger \notin {"elsewhere", "token elsewhere"}
      [] r = "domain" -> p.hostedUi \in {"cognito", "us-east-1", "token"}
      [] r = "client" -> BuildAppClientOptions(p).authSession \in 3..15
      [] OTHER -> TRUE

SesVerifies ==
    /\ ses = "pending" /\ "dns" \in DOMAIN built
    /\ target.zone \notin {"other", "token elsewhere"}
    /\ ses' = "verified"
    /\ UNCHANGED <<target, base, built, phase, waitId, stackFaults, changes, mailed>>

-----------------------------------------------------------------------------
(* Deploying (CloudFormation)                                              *)

IdInit ==
    /\ target \in {p \in Configs : Accepts(p)}
    /\ base = NoProps /\ built = <<>>
    /\ phase = "resting" /\ ses = "absent" /\ waitId = "none"
    /\ stackFaults = 0 /\ changes = 0 /\ mailed = NoMail

Deployed == phase = "resting" /\ base = target

\* The operator changes the configuration; the sender's domain stays.
Change(p) ==
    /\ Deployed /\ changes < MaxChanges
    /\ p # target /\ Accepts(p) /\ p.zone = target.zone
    /\ target' = p /\ changes' = changes + 1
    /\ UNCHANGED <<base, built, phase, ses, waitId, stackFaults, mailed>>

StartDeploy ==
    /\ phase = "resting" /\ base # target
    /\ phase' = "deploying"
    /\ UNCHANGED <<target, base, built, ses, waitId, stackFaults, changes, mailed>>

At(r, p) == r \in DOMAIN built /\ built[r] = p
Ready(r) ==
    /\ phase = "deploying" /\ r \in Wanted(target) /\ ~At(r, target)
    /\ \A d \in DependsOn(r) \cap Wanted(target) : At(d, target)
With(r, p) == [x \in DOMAIN built \cup {r} |-> IF x = r THEN p ELSE built[x]]
Without(r) == Restrict(built, DOMAIN built \ {r})

RollBack == phase' = "rolling back" /\ UNCHANGED <<target, base, changes, mailed>>

\* A resource is created, or updated in place.
Build(r) ==
    /\ Ready(r) /\ Creatable(r, target)
    /\ r = "wait" => "wait" \in DOMAIN built   \* its properties name the domain only
    /\ built' = With(r, target)
    /\ ses' = IF r = "identity" /\ r \notin DOMAIN built THEN "pending" ELSE ses
    /\ UNCHANGED <<target, base, phase, waitId, stackFaults, changes, mailed>>
Refused(r) ==
    /\ Ready(r) /\ ~Creatable(r, target)
    /\ RollBack /\ UNCHANGED <<built, ses, waitId, stackFaults>>
Fault(r) ==
    /\ Ready(r) /\ stackFaults < MaxStackFaults
    /\ stackFaults' = stackFaults + 1
    /\ RollBack /\ UNCHANGED <<built, ses, waitId>>

\* The wait is created: until it completes CloudFormation holds a placeholder.
StartWait ==
    /\ Ready("wait") /\ "wait" \notin DOMAIN built /\ waitId = "none"
    /\ waitId' = "placeholder"
    /\ UNCHANGED <<target, base, built, phase, ses, stackFaults, changes, mailed>>
Poll(readable) ==
    /\ phase = "deploying" /\ waitId = "placeholder" /\ IsComplete(readable)
    /\ waitId' = OnEvent("Create", waitId) /\ built' = With("wait", target)
    /\ UNCHANGED <<target, base, phase, ses, stackFaults, changes, mailed>>
\* Records in a zone that does not serve the sender's domain verify nothing.
WaitTimesOut ==
    /\ phase = "deploying" /\ waitId = "placeholder" /\ target.zone \in {"other", "token elsewhere"}
    /\ RollBack /\ UNCHANGED <<built, ses, waitId, stackFaults>>

\* Rolling back: what the last deployment had goes back to it, the rest is
\* deleted, dependents first.  A wait whose id changes under Delete wedges the
\* stack; an SES identity that is deleted loses its verification.
DeleteWait ==
    /\ phase = "rolling back" /\ base = NoProps /\ waitId # "none"
    /\ "pool" \notin DOMAIN built
    /\ IF OnEvent("Delete", waitId) = waitId
       THEN phase' = phase /\ waitId' = "none" /\ built' = Without("wait")
       ELSE phase' = "wedged" /\ UNCHANGED <<waitId, built>>
    /\ UNCHANGED <<target, base, ses, stackFaults, changes, mailed>>
Undo(r) ==
    /\ phase = "rolling back" /\ r \in DOMAIN built /\ built[r] # base
    /\ r = "wait" => base # NoProps
    /\ IF r \in Wanted(base)
       THEN (\A d \in DependsOn(r) : At(d, base)) /\ built' = With(r, base) /\ ses' = ses
       ELSE /\ \A x \in DOMAIN built : r \notin DependsOn(x)
            /\ waitId # "none" => r \notin DependsOn("wait")
            /\ built' = Without(r)
            /\ ses' = IF r = "identity" /\ r \notin Retained THEN "absent" ELSE ses
    /\ UNCHANGED <<target, base, phase, waitId, stackFaults, changes, mailed>>
RolledBack ==
    /\ phase = "rolling back" /\ (base = NoProps => waitId = "none")
    /\ DOMAIN built = Wanted(base) /\ \A r \in DOMAIN built : built[r] = base
    /\ phase' = "resting"
    /\ UNCHANGED <<target, base, built, ses, waitId, stackFaults, changes, mailed>>

\* Everything wanted is there: what is no longer wanted goes.
Finish ==
    /\ phase = "deploying" /\ \A r \in Wanted(target) : At(r, target)
    /\ built' = Restrict(built, Wanted(target))
    /\ base' = target /\ phase' = "resting"
    /\ UNCHANGED <<target, ses, waitId, stackFaults, changes, mailed>>

-----------------------------------------------------------------------------
(* The Lambdas: environment and grants against what the handlers use       *)

TriggerFns == {"preSignUp", "defineAuth", "createAuth", "verifyAuth"}
Fns == TriggerFns \cup {"bounce"}
ResourceOf(f) == IF f \in TriggerFns THEN "triggers" ELSE "bounceFn"

CommonEnv == {"TOKEN_TABLE", "RATE_LIMIT_TABLE", "DENYLIST_TABLE", "SES_FROM", "SES_REGION",
              "DOMAIN", "TOKEN_TTL_MINUTES", "TOKEN_SENDS_PER_WINDOW", "TOKEN_SENDS_PER_DAY",
              "SIGN_UPS_PER_WINDOW", "ALLOWED_EMAIL_DOMAINS", "HMAC_SECRET", "CONFIGURATION_SET"}
Env(f) ==
    CommonEnv \cup (CASE f = "preSignUp" -> {"SIGNUP_MODE"}
                      [] f = "createAuth" -> {"ENROLLMENT", "CREATE_FLOOR_MS"}
                      [] f = "verifyAuth" -> {"ENROLLMENT"}
                      [] f = "bounce" -> {"USER_POOL_ID"}
                      [] OTHER -> {})

\* grantReadData and grantWriteData of a table.
Read(table) == {<<"GetItem", table>>, <<"Query", table>>}
Write(table) == {<<"PutItem", table>>, <<"UpdateItem", table>>, <<"DeleteItem", table>>}
GetSecret == <<"GetSecretValue", "secret">>
SendMail == {<<"SendEmail", "identity">>, <<"SendEmail", "configuration set">>}

RoleGrants(f) ==
    CASE f = "preSignUp" -> Write("rateLimit")
      [] f = "createAuth" -> Write("token") \cup Read("denylist") \cup Read("rateLimit")
                             \cup Write("rateLimit") \cup SendMail \cup {GetSecret}
      [] f = "verifyAuth" -> Read("token") \cup Write("token") \cup {GetSecret}
      [] f = "bounce" -> Write("denylist")
                         \cup {GetSecret, <<"AdminUpdateUserAttributes", "pool">>,
                               <<"AdminDisableUser", "pool">>}
      [] OTHER -> {}

\* The policies that let Create and Verify ask the pool about a user.
AllowListCreateOnly == [f \in {"createAuth"} |-> {<<"AdminGetUser", "pool">>}]
AllowListPolicies == [f \in {"createAuth", "verifyAuth"} |-> {<<"AdminGetUser", "pool">>}]
Grants(f) ==
    RoleGrants(f) \cup (IF "allowList" \in DOMAIN built /\ f \in DOMAIN AllowListPolicies
                        THEN AllowListPolicies[f] ELSE {})

\* What the handlers read from their environment and call, by enrolment.  SES checks
\* a send against the configuration set it names as well.
PreSignUpEnv == {"SIGNUP_MODE", "ALLOWED_EMAIL_DOMAINS", "RATE_LIMIT_TABLE", "SIGN_UPS_PER_WINDOW"}
PreSignUpCalls == {<<"UpdateItem", "rateLimit">>}
CreateAuthEnv ==
    {"TOKEN_TABLE", "RATE_LIMIT_TABLE", "DENYLIST_TABLE", "SES_FROM", "DOMAIN", "CONFIGURATION_SET",
     "TOKEN_TTL_MINUTES", "ENROLLMENT", "TOKEN_SENDS_PER_WINDOW", "TOKEN_SENDS_PER_DAY", "HMAC_SECRET",
     "CREATE_FLOOR_MS"}
EligibilityCalls(enrollment) == IF enrollment = "admin-only" THEN {<<"AdminGetUser", "pool">>} ELSE {}
CreateAuthCalls(enrollment) ==
    {GetSecret, <<"GetItem", "denylist">>, <<"UpdateItem", "rateLimit">>, <<"PutItem", "token">>}
    \cup SendMail \cup EligibilityCalls(enrollment)
VerifyAuthEnv == {"ENROLLMENT", "TOKEN_TABLE", "HMAC_SECRET"}
VerifyAuthCalls(enrollment) ==
    {GetSecret, <<"GetItem", "token">>, <<"DeleteItem", "token">>} \cup EligibilityCalls(enrollment)
BounceEnv == {"USER_POOL_ID", "DENYLIST_TABLE", "HMAC_SECRET"}
BounceCalls == {<<"AdminUpdateUserAttributes", "pool">>, <<"PutItem", "denylist">>, GetSecret}

HandlerEnv(f) ==
    CASE f = "preSignUp" -> PreSignUpEnv
      [] f = "createAuth" -> CreateAuthEnv
      [] f = "verifyAuth" -> VerifyAuthEnv
      [] f = "bounce" -> BounceEnv
      [] OTHER -> {}
HandlerCalls(f, enrollment) ==
    CASE f = "preSignUp" -> PreSignUpCalls
      [] f = "createAuth" -> CreateAuthCalls(enrollment)
      [] f = "verifyAuth" -> VerifyAuthCalls(enrollment)
      [] f = "bounce" -> BounceCalls
      [] OTHER -> {}

Lacks(f) == (HandlerEnv(f) \ Env(f)) \cup (HandlerCalls(f, built[ResourceOf(f)].enrollment) \ Grants(f))

-----------------------------------------------------------------------------
(* The fence around the mail                                               *)

Matches(patterns, a) == \E pat \in patterns : a \in pat.matches
TestMarkers == {[at |-> TRUE, empty |-> FALSE, matches |-> {"e2e marker"}],
                [at |-> TRUE, empty |-> FALSE, matches |-> {"maildummy"}]}
DenyPatterns(p) ==
    (IF p.enrollment = "admin-only" /\ ~p.allowTest THEN TestMarkers ELSE {})
    \cup (IF p.denied = Unset THEN {} ELSE p.denied[1])

\* ForAllValues holds of no recipients at all; Null refuses exactly that.
AllowHoldsForNobody(p, rs) ==
    p.allowed # Unset => \A a \in rs : Matches(p.allowed[1], a)
AllowHolds(p, rs) ==
    p.allowed # Unset => rs # {} /\ \A a \in rs : Matches(p.allowed[1], a)
DenyHolds(p, rs) == \E a \in rs : Matches(DenyPatterns(p), a)
Authorised(p, rs) == AllowHolds(p, rs) /\ ~DenyHolds(p, rs)

\* The Create trigger asks SES to mail, whatever a fault in it makes it ask.
Send(rs) ==
    /\ {"triggers", "pool"} \subseteq DOMAIN built
    /\ Authorised(built["triggers"], rs)
    /\ mailed' = [to |-> rs, under |-> built["triggers"]]
    /\ UNCHANGED <<target, base, built, phase, ses, waitId, stackFaults, changes>>

IdNext ==
    \/ SesVerifies \/ StartDeploy \/ StartWait \/ WaitTimesOut \/ DeleteWait \/ RolledBack \/ Finish
    \/ \E p \in Configs : Change(p)
    \/ \E readable \in BOOLEAN : Poll(readable)
    \/ \E r \in Resources : Build(r) \/ Refused(r) \/ Fault(r) \/ Undo(r)
    \/ \E rs \in Recipients : Send(rs)

IdSpec == IdInit /\ [][IdNext]_idVars

\* What goes on by itself: the operator deploys again after a failure,
\* CloudFormation and SES do their part.
IdProgress ==
    \/ SesVerifies \/ StartDeploy \/ StartWait \/ WaitTimesOut \/ DeleteWait \/ RolledBack \/ Finish
    \/ Poll(TRUE)
    \/ \E r \in Resources : Build(r) \/ Refused(r) \/ Undo(r)

-----------------------------------------------------------------------------
(* Properties                                                              *)

\* What synthesis cannot see, or does not: the tokens resolve to where the resources
\* must be, and the quarantine flag makes no more attributes than Cognito's quota of
\* the quota a consumer may declare.
AwsAccepts(p) ==
    /\ "token elsewhere" \notin {p.zone, p.trigger, p.hostedUi}
    /\ Cardinality(PoolAttributes(p)) <= MaxCustomAttributesPerPool

\* Once faults stop, a deployment of a configuration the constructor accepts and AWS
\* does not refuse arrives, from a cold sender domain and after any rollback: the
\* pool waits for SES, nothing left behind collides, and no delete wedges the stack.
\* One that AWS refuses is rolled back each time.
DeployConverges ==
    (phase # "resting") ~> (phase = "resting" /\ (AwsAccepts(target) => base = target))

\* In a deployed stack no handler lacks a variable it reads or a permission it
\* uses, also after enrolment was switched or an update was rolled back.
HandlersWired == Deployed => \A f \in Fns : Lacks(f) = {}

\* IAM lets no mail out that names nobody, someone outside the allow patterns,
\* or, in admin-only mode, a test marker the stage did not opt into.
MailStaysInFence ==
    mailed # NoMail =>
        LET p == mailed.under IN
        /\ p.allowed # Unset => mailed.to # {} /\ \A a \in mailed.to : Matches(p.allowed[1], a)
        /\ p.enrollment = "admin-only" /\ ~p.allowTest =>
               mailed.to \cap {"e2e marker", "maildummy"} = {}

\* The deployed pool does what its handlers and its mail policy promise.
PoolWorks == HandlersWired /\ MailStaysInFence
=============================================================================
