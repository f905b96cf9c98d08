------------------------------ MODULE MCDeploy -------------------------------
(* The constructs that deploy the identity stacks, and the managers, hooks and *)
(* probes an operator uses around them, for TLC.  They share no state, so a    *)
(* behaviour exercises one of them (active) and leaves the others as they are  *)
(* initially; the pins in MCInit keep those in one state.                      *)
EXTENDS IdentityStack, SiteStack, CostGuard, SharedStack, Federation, TokenClaims,
        Discovery, TLC

VARIABLE active

\* MagicLinkIdentity: two stacks that deploy, two that only AWS refuses, and six
\* the constructor refuses.
Pat(ms) == [at |-> TRUE, empty |-> FALSE, matches |-> ms]
Attr(n) == [name |-> n, legal |-> TRUE, length |-> 4, type |-> "String", required |-> FALSE,
            mutable |-> TRUE, min |-> <<1>>, max |-> <<20>>]
Plain ==
    [sender |-> "address", zone |-> "parent", attrs |-> <<Attr("role")>>, federation |-> FALSE,
     signupMode |-> "unset", enrollment |-> "admin-only", linkDomain |-> "host",
     allowed |-> <<{Pat({"person", "e2e marker"})}>>, denied |-> <<>>, allowTest |-> FALSE,
     hostedUi |-> "none", ttl |-> 10, floor |-> 1000, perDay |-> 20, trigger |-> "none",
     tokenVersion |-> "V1_0", advanced |-> "off", tier |-> "Lite",
     guard |-> [enabled |-> FALSE, cap |-> 0, selfDefence |-> FALSE],
     client |-> [secret |-> FALSE, callbacks |-> {}]]
Federated == [Plain EXCEPT !.federation = TRUE, !.signupMode = "open", !.hostedUi = "us-east-1",
                           !.advanced = "audit", !.trigger = "same", !.enrollment = "self-signup",
                           !.allowed = <<>>, !.client.callbacks = {"https"},
                           !.guard = [enabled |-> TRUE, cap |-> 100, selfDefence |-> TRUE]]
IdentityConfigs ==
    {Plain, Federated,
     [Plain EXCEPT !.attrs = <<Attr("role"), Attr("team")>>],
     [Plain EXCEPT !.zone = "token elsewhere"],
     [Plain EXCEPT !.zone = "other"], [Plain EXCEPT !.ttl = 2],
     [Plain EXCEPT !.trigger = "elsewhere"], [Plain EXCEPT !.attrs = <<Attr("a"), Attr("a")>>],
     [Federated EXCEPT !.hostedUi = "elsewhere"], [Federated EXCEPT !.client.callbacks = {"http"}]}
Addressees == {{}, {"person"}, {"person", "outsider"}, {"person", "e2e marker"}}

\* MagicLinkAuthSite: new runtime; new bundle and client; and three refused.
Site == [base |-> 1, runtime |-> 1, pool |-> "p1", client |-> "c1", domain |-> "site",
         linkDomain |-> "site", edgeRegion |-> "us-east-1", manifest |-> TRUE,
         declared |-> AuthSiteBundleNames, onDisk |-> AuthSiteBundleNames,
         skipAssetCheck |-> FALSE, floor |-> 2500, webAcl |-> TRUE, enrollment |-> "admin-only"]
Sites ==
    {Site, [Site EXCEPT !.runtime = 2],
     [Site EXCEPT !.base = 2, !.client = "c2", !.enrollment = "self-signup", !.webAcl = FALSE],
     [Site EXCEPT !.linkDomain = "sender"], [Site EXCEPT !.onDisk = {}],
     [Site EXCEPT !.edgeRegion = "elsewhere"]}

\* SharedDistributionIdentity: another cache time and hook, an own certificate, one
\* that lacks a name, another region, and two refused.
Shared == [parent |-> "parent", sender |-> "address", idTokenMinutes |-> 60, jwksSeconds |-> 900,
           hostedZone |-> TRUE, existingCert |-> FALSE, adminCors |-> "none", sans |-> "default",
           preToken |-> "built in", postConfirmation |-> FALSE, cloudFrontAcl |-> FALSE,
           crossRegion |-> FALSE, region |-> "us-east-1"]
Shareds ==
    {Shared, [Shared EXCEPT !.jwksSeconds = 60, !.preToken = "consumer's"],
     [Shared EXCEPT !.existingCert = TRUE, !.hostedZone = FALSE],
     [Shared EXCEPT !.sans = "wildcard only"],
     [Shared EXCEPT !.region = "elsewhere", !.cloudFrontAcl = TRUE, !.crossRegion = TRUE,
                    !.postConfirmation = TRUE],
     [Shared EXCEPT !.adminCors = "wildcard"], [Shared EXCEPT !.idTokenMinutes = 4]}
Requested == [host : {"acme", "globex", "parent"},
              path : {"/", "/login", "/login/asset", "/login/callback", "/logout"},
              cookie : {"none", "acme"}]

\* Federation: an identifier that loses a character, and one that keeps all.
Ids == {<<"a", "-">>, <<"b">>}

\* Discovery: addresses plain, mapped, mixed and unreadable; documents sound,
\* unsigned, and with a second entity beside or under the signed one.
Pub == Quad(<<93, 184, 216, 34>>, FALSE)
Pri == Quad(<<10, 0, 0, 1>>, FALSE)
MapPub == Six(None, TRUE, <<65535, 24000, 1>>, None, FALSE)
MapPri == Six(None, TRUE, <<65535>>, <<10, 0, 0, 1>>, FALSE)
Lookups == {<<>>, <<Pub>>, <<Pri>>, <<Pub, MapPri>>, <<MapPub>>, <<Pri, Pub>>, <<NotAnAddress>>}

Configuration == [json |-> TRUE, complete |-> TRUE, sameIssuer |-> TRUE, responseTypes |-> {"code"},
                  algs |-> {"RS256"}, authMethods |-> {"client_secret_post"}]
Configurations ==
    {Configuration, [Configuration EXCEPT !.sameIssuer = FALSE],
     [Configuration EXCEPT !.algs = {"RS256", "none"}], [Configuration EXCEPT !.json = FALSE]}

Certificate == [parses |-> TRUE, use |-> "signing", notAfter |-> 1]
Entity(id, content) ==
    [id |-> id, content |-> content, named |-> TRUE, idpSso |-> TRUE, bindings |-> {"HTTP-POST"},
     certs |-> {Certificate}, validUntil |-> "none", cacheDuration |-> {}]
Signature(parent, uri) ==
    [parent |-> parent, refs |-> << [uri |-> uri, digest |-> "idp's"] >>, wellFormed |-> TRUE, intact |-> TRUE]
Document(entities, signatures) ==
    [doctype |-> FALSE, parses |-> TRUE, entities |-> entities, others |-> <<>>, signatures |-> signatures]
Theirs == Entity("i1", "idp's")
Documents ==
    {Document(<<Theirs>>, <<Signature(1, "i1")>>),
     Document(<<Theirs>>, <<>>),
     \* the signed entity behind another one, with the signature moved or left
     Document(<<Entity("i2", "other"), Theirs>>, <<Signature(1, "i1")>>),
     Document(<<Entity("i2", "other"), Theirs>>, <<Signature(2, "i1")>>),
     \* its identifier repeated, by an entity and by another element
     Document(<<Entity("i1", "other"), Theirs>>, <<Signature(1, "i1")>>),
     [Document(<<Entity("i1", "other")>>, <<Signature(1, "i1")>>) EXCEPT
        !.others = << [id |-> "i1", content |-> "idp's"] >>],
     \* two signatures, of which the one that fails is first, or second
     Document(<<Theirs>>, <<[Signature(1, "i1") EXCEPT !.intact = FALSE], Signature(1, "i1")>>),
     Document(<<Entity("i1", "other"), Entity("i2", "idp's")>>, <<Signature(1, "i2"), Signature(1, "i1")>>),
     Document(<<[Theirs EXCEPT !.certs = {[Certificate EXCEPT !.notAfter = -1]}]>>, <<>>),
     [Document(<<>>, <<>>) EXCEPT !.doctype = TRUE]}

mcVars == <<active, idVars, siteVars, guardVars, sharedVars, fedVars, claimVars, dVars>>

MCInit ==
    /\ active \in {"identity", "site", "guard", "shared", "federation", "claims", "discovery"}
    /\ IdInit /\ (active # "identity" => target = Plain)
    /\ SiteInit /\ GuardInit /\ SharedInit /\ FedInit
    /\ ClaimsInit /\ (active # "claims" =>
                        minting = [hook |-> "wrapped", pool |-> "v1", row |-> "a", act |-> "same",
                                   event |-> CHOOSE e \in Events("v1") : e.response.v1 = <<>>])
    /\ DInit /\ (active # "discovery" => probe = "oidc" /\ url = "good" /\ sent = 0)

Only(name, others) == active = name \/ UNCHANGED others

MCNext ==
    /\ UNCHANGED active
    /\ Only("identity", idVars) /\ Only("site", siteVars) /\ Only("guard", guardVars)
    /\ Only("shared", sharedVars) /\ Only("federation", fedVars) /\ Only("claims", claimVars)
    /\ Only("discovery", dVars)
    /\ \/ active = "identity" /\ IdNext
       \/ active = "site" /\ SiteNext
       \/ active = "guard" /\ GuardNext
       \/ active = "shared" /\ SharedNext
       \/ active = "federation" /\ FedNext
       \/ active = "claims" /\ ClaimsNext
       \/ active = "discovery" /\ DNext

\* What goes on by itself does, in the component that is active.
MCFairness ==
    /\ WF_idVars(active = "identity" /\ IdProgress)
    /\ WF_siteVars(active = "site" /\ SiteProgress)
    /\ WF_siteVars(active = "site" /\ VisitorProgress)
    /\ WF_guardVars(active = "guard" /\ GuardProgress)
    /\ WF_dVars(active = "discovery" /\ DProgress)

MCSpec == MCInit /\ [][MCNext]_mcVars /\ MCFairness
=============================================================================
