---------------------------- MODULE TokenClaims ------------------------------
(***************************************************************************)
(* The Cognito hooks around a token: createPostConfirmationHandler, which  *)
(* provisions the account, createPreTokenGenerationHandler with its V1 and *)
(* V2 answers, and the shared pool's wrapPreTokenHandler around a          *)
(* consumer's handler.  One invocation is one step; what Cognito does with *)
(* the answer is external.                                                 *)
(***************************************************************************)
EXTENDS Sequences, Functions

CONSTANTS Pools,        \* event families to explore: a subset of {"v1", "v2"}
          Rows          \* tenant ids a client's row may name; NoRowFound: no row

ASSUME ClaimsAssumption == Pools \subseteq {"v1", "v2"}

TenantId == "custom:tenant_id"
ReservedClaims == {"sub", "iss"}
NoRowFound == "no row"
NotGiven == <<>>     \* an absent part; a present one is <<part>>
NoClaims == <<>>  \* the function with no claim
NoDetails == [set |-> NoClaims, suppress |-> {}, groups |-> NotGiven]
Merged(f, name, value) == [n \in DOMAIN f \cup {name} |-> IF n = name THEN value ELSE f[n]]

\* A value is written as the text Cognito takes: a string as it is, an array as
\* JSON, a number or a boolean as its text.
StringifyClaimValues(claims) == [n \in DOMAIN claims |-> claims[n].text]
IsReservedClaim(name) == name \in ReservedClaims

\* Either V2 marker makes an event V2; the version field is not looked at.
DetectPreTokenEventVersion(event) ==
    IF event.response.v2 # NotGiven \/ event.scopes THEN "v2" ELSE "v1"

\* identities: absent, unparseable, an empty list, or a first entry; a provider
\* type that is not SAML counts as OIDC.
ParseIdentity(raw) ==
    IF raw.absent \/ ~raw.json \/ raw.list = <<>> \/ raw.list[1].name = "" THEN [kind |-> "cognito"]
    ELSE [kind |-> "federated", name |-> raw.list[1].name,
          type |-> IF raw.list[1].type = "SAML" THEN "SAML" ELSE "OIDC"]

\* custom:idpGroups, cut at separators: empty parts are dropped.
ParseFederatedGroups(parts) == SelectSeq(parts, LAMBDA p : p # "")

GroupOverride(out) == IF out.groups = {} THEN NotGiven ELSE <<out.groups>>

\* The V1 answer replaces the whole response; scopes are dropped.
ApplyV1Response(out) ==
    [v1 |-> <<[set |-> StringifyClaimValues(out.set), suppress |-> out.suppress,
               groups |-> GroupOverride(out)]>>, v2 |-> NotGiven]

\* The V2 answer carries the same claims on the ID and on the access token.
ApplyV2Response(out) ==
    LET claims == [set |-> StringifyClaimValues(out.set), suppress |-> out.suppress]
    IN  [v1 |-> NotGiven,
         v2 |-> <<[id |-> claims, access |-> claims, addScopes |-> out.scopes,
                   groups |-> GroupOverride(out)]>>]

Failed == [threw |-> TRUE]
Answered(response) == [threw |-> FALSE, response |-> response]

\* createPreTokenGenerationHandler: the resolver throws, names a reserved
\* claim, or its output is applied.  onError cannot change the outcome.
PreTokenHandler(event, out) ==
    IF out.throws \/ \E n \in DOMAIN out.set : IsReservedClaim(n) THEN Failed
    ELSE Answered(IF DetectPreTokenEventVersion(event) = "v2"
                  THEN ApplyV2Response(out) ELSE ApplyV1Response(out))

\* Without the rethrow.
PostConfirmationSwallowed(provision, onError) == Answered(NotGiven)

\* createPostConfirmationHandler: a provisioner that throws fails the
\* confirmation, whatever onError does.
PostConfirmationHandler(provision, onError) ==
    IF provision = "throws" THEN Failed ELSE Answered(NotGiven)

\* A consumer's resolver: the role by how the user signed in, a number, and the
\* groups the identity provider named; or one that names a reserved claim.
Resolved(event, act) ==
    [set |-> Merged(Merged(NoClaims, "role",
                           [type |-> "string", text |-> ParseIdentity(event.user.identities).kind]),
                    IF act = "reserved" THEN "sub" ELSE "level", [type |-> "number", text |-> "7"]),
     suppress |-> {}, scopes |-> {}, throws |-> act = "throws",
     groups |-> Range(ParseFederatedGroups(event.user.groups))]

(***************************************************************************)
(* wrapPreTokenHandler.                                                    *)
(***************************************************************************)
Details(response) == IF response.v1 = NotGiven THEN NoDetails ELSE response.v1[1]

\* custom:tenant_id is set before the inner handler runs.
PreSet(response, tenant) ==
    [response EXCEPT !.v1 = <<[Details(response) EXCEPT !.set = Merged(@, TenantId, tenant)]>>]

\* What a consumer's handler may do to the response it is given.
Inner(act, event) ==
    CASE act = "throws" -> Failed
      [] act = "same" -> Answered(event.response)
      [] act = "role" -> Answered([event.response EXCEPT !.v1[1].set = Merged(@, "role", "admin")])
      [] act = "steal" -> Answered([event.response EXCEPT !.v1[1].set = Merged(@, TenantId, "other")])
      [] act = "suppress" -> Answered([event.response EXCEPT !.v1[1].suppress = @ \cup {TenantId}])
      [] act = "drop" -> Answered([event.response EXCEPT !.v1 = NotGiven])
      [] act = "resolver" -> PreTokenHandler(event, Resolved(event, act))
InnerActs == {"throws", "same", "role", "steal", "suppress", "drop", "resolver"}

\* Without the look at claimsToSuppress.
KeptUnlessSet(details, tenant) == TenantId \in DOMAIN details.set /\ details.set[TenantId] = tenant

\* After the inner handler the claim must still be there, and not suppressed.
Kept(details, tenant) ==
    /\ TenantId \in DOMAIN details.set
    /\ details.set[TenantId] = tenant
    /\ TenantId \notin details.suppress

WrapPreTokenHandler(event, tenant, act) ==
    IF tenant = NoRowFound THEN Failed
    ELSE LET result == Inner(act, [event EXCEPT !.response = PreSet(@, tenant)])
         IN  IF result.threw \/ ~Kept(Details(result.response), tenant)
             THEN Failed ELSE result

(***************************************************************************)
(* External: the token Cognito mints.  A pool of either family reads its   *)
(* own part of the answer, and suppresses after it overrides.              *)
(***************************************************************************)
MintedDetails(pool, response) ==
    IF pool = "v1" THEN Details(response)
    ELSE IF response.v2 = NotGiven THEN NoDetails
    ELSE [set |-> response.v2[1].id.set, suppress |-> response.v2[1].id.suppress,
          groups |-> response.v2[1].groups]

MintedClaims(d) == Restrict(d.set, DOMAIN d.set \ d.suppress)

VARIABLES minting,    \* the sign-in: hook, pool family, event, row, the consumer's doing
          account,    \* "unconfirmed" or "confirmed", whether it was provisioned, and what its
                      \* user was shown of the sign-up ("nothing", "error", "success", "invited")
          claimsOut   \* "none", "refused" or "minted", and the token's claims and groups

claimVars == <<minting, account, claimsOut>>

Accounts == {[identities |-> [absent |-> TRUE, json |-> FALSE, list |-> <<>>], groups |-> <<>>],
             [identities |-> [absent |-> FALSE, json |-> TRUE,
                              list |-> <<[name |-> "corp", type |-> "SAML"]>>],
              groups |-> <<"staff", "">>]}

\* Events as a pool sends them: a V2 pool's request names the scopes.  The
\* response comes empty, absent, or with claims an earlier layer put there.
Events(pool) ==
    [scopes : {pool = "v2"}, user : Accounts,
     response : {[v1 |-> d, v2 |-> NotGiven] :
                   d \in {NotGiven, <<NoDetails>>, <<[NoDetails EXCEPT !.suppress = {TenantId}]>>,
                          <<[NoDetails EXCEPT !.set = Merged(NoClaims, TenantId, "other")]>>}}]

\* The wrapped handler of a shared pool, or the plain one of a pool of its own.
ClaimsInit ==
    /\ \E pool \in Pools :
         minting \in [hook : {"wrapped"}, pool : {"v1"}, event : Events("v1"), row : Rows, act : InnerActs]
                     \cup [hook : {"plain"}, pool : {pool}, event : Events(pool), row : {NoRowFound},
                           act : {"resolver", "reserved", "throws"}]
    /\ account = [state |-> "unconfirmed", provisioned |-> FALSE, shown |-> "nothing"]
    /\ claimsOut = [state |-> "none", claims |-> NoClaims, groups |-> NotGiven]

\* The provisioner works or throws.  After an error Cognito shows the user a
\* failed sign-up; whether it also takes the confirmation back is its own affair
\* (external), and the user may try again if it does.
Confirm(provision, onError) ==
    /\ account.state = "unconfirmed"
    /\ IF PostConfirmationHandler(provision, onError).threw
       THEN \E state \in {"unconfirmed", "confirmed"} :
              account' = [account EXCEPT !.state = state, !.shown = "error"]
       ELSE account' = [state |-> "confirmed", provisioned |-> provision # "throws", shown |-> "success"]
    /\ UNCHANGED <<minting, claimsOut>>

\* An administrator makes the account: the hook does not run.
AdminCreateUser ==
    /\ account.state = "unconfirmed" /\ account.shown = "nothing"
    /\ account' = [account EXCEPT !.state = "confirmed", !.shown = "invited"]
    /\ UNCHANGED <<minting, claimsOut>>

Mint ==
    /\ account.state = "confirmed" /\ claimsOut.state = "none"
    /\ LET r == IF minting.hook = "plain"
                THEN PreTokenHandler(minting.event, Resolved(minting.event, minting.act))
                ELSE WrapPreTokenHandler(minting.event, minting.row, minting.act)
       IN  claimsOut' =
             IF r.threw THEN [claimsOut EXCEPT !.state = "refused"]
             ELSE LET d == MintedDetails(minting.pool, r.response)
                  IN  [state |-> "minted", claims |-> MintedClaims(d), groups |-> d.groups]
    /\ UNCHANGED <<minting, account>>

ClaimsNext ==
    \/ \E provision \in {"works", "throws"}, onError \in {"none", "works", "throws"} :
          Confirm(provision, onError)
    \/ AdminCreateUser
    \/ Mint

ClaimsSpec == ClaimsInit /\ [][ClaimsNext]_claimVars

\* "This claim is load-bearing: the edge's structural Host <-> tenant_id check
\* depends on it being present in every token": whatever the consumer's handler
\* does, a token of the shared pool names the tenant of the client's row, or
\* none is minted.
TokenNamesItsTenant ==
    claimsOut.state = "minted" /\ minting.hook = "wrapped" =>
        TenantId \in DOMAIN claimsOut.claims /\ claimsOut.claims[TenantId] = minting.row

\* In a pool of either event family the token says what the resolver decided
\* from the user's identity and groups, and never overrides a reserved claim.
TokenCarriesResolved ==
    claimsOut.state = "minted" /\ minting.hook = "plain" =>
        LET out == Resolved(minting.event, minting.act)
        IN  /\ claimsOut.claims = StringifyClaimValues(out.set)
            /\ DOMAIN claimsOut.claims \cap ReservedClaims = {}
            /\ claimsOut.groups = IF out.groups = {} THEN NotGiven ELSE <<out.groups>>

\* "The user sees a sign-up failure rather than a silently half-created account":
\* whoever was told that the sign-up succeeded has an account that was provisioned,
\* though one whose sign-up failed may be able to sign in as well.
NotSilentlyHalfCreated == account.shown = "success" => account.provisioned

\* A hook that cannot do its work is not passed over: no success is shown without
\* the provisioning, and no token minted that lacks the tenant or the resolver's
\* claims.
HooksFailClosed == NotSilentlyHalfCreated /\ TokenNamesItsTenant /\ TokenCarriesResolved
=============================================================================
