---------------------------- MODULE DeployProofs ----------------------------
(*****************************************************************************)
(* Proofs about deploying and federating a pool: the discovery probes, the   *)
(* managers of a tenant's identity provider and its secret, the tokens that  *)
(* are minted for the accounts that come of it, and the three stacks: the    *)
(* identity, the site in front of it and the shared distribution.            *)
(*****************************************************************************)
EXTENDS Discovery, Federation, TokenClaims, IdentityStack, SiteStack, SharedStack,
        WellFoundedInduction, TLAPS

\* A set of naturals that is not empty has a least member.
LEMMA LeastNatural ==
    ASSUME NEW S \in SUBSET Nat, S # {}
    PROVE  \E i \in S : \A j \in S : i <= j
<1> DEFINE below == OpToRel(<, Nat)
<1>1. below = {p \in Nat \X Nat : p[1] < p[2]}
  BY DEF OpToRel
<1>2. IsWellFoundedOn(below, Nat)
  BY NatLessThanWellFounded
<1> HIDE DEF below
<1>3. \E i \in S : \A j \in S : ~(<<j, i>> \in below)
  BY <1>2, WFMin
<1>4. \A i \in S, j \in S : ~(<<j, i>> \in below) => i <= j
  BY <1>1
<1> QED  BY <1>3, <1>4

-----------------------------------------------------------------------------
(* The discovery probes.  What is dialled was resolved and checked, because    *)
(* nothing is dialled before the answer is checked and the answer is not       *)
(* asked for again; a probe that ends as metadata has judged a document that   *)
(* has an entity.  The reference that was checked names that entity and, as     *)
(* identifiers that are repeated are refused, no other element.                 *)

Early == {"start", "resolve", "connect"}

DialInv ==
    /\ addresses \in Seq(Texts)
    /\ stage \in Early => dialled = Missing /\ dispatcher = "none" /\ timer = "off"
    /\ stage = "connect" =>
          /\ addresses # <<>>
          /\ \A i \in DOMAIN addresses : ~IsPrivateAddress(addresses[i]) /\ IsIP(addresses[i])
    /\ dialled # Missing => /\ ~IsPrivateAddress(dialled)
                            /\ \E i \in DOMAIN addresses : addresses[i] = dialled
    /\ dispatcher \in {"none", "busy", "idle", "closed"}
    /\ stage \in {"judge", "closing", "done"} => timer = "off"
    /\ stage = "judge" => dispatcher # "busy"
    /\ stage = "done" => dispatcher \in {"none", "closed"}

JudgeInv ==
    /\ probe \in {"oidc", "samlUrl", "samlXml"} /\ url \in UrlShapes
    /\ outcome = "metadata" /\ probe # "oidc" =>
          doc \in SamlDocuments /\ FirstEntity(doc) = 1

LEMMA JunkIsPrivate == IsPrivateAddress(NotAnAddress)
  BY DEF IsPrivateAddress, IsPrivateIPv4, IsIpShape, NotAnAddress

LEMMA DialStep ==
    ASSUME DialInv, [DNext]_dVars
    PROVE  DialInv'
<1> USE DEF DialInv, Early
<1>1. CASE CheckUrl
  BY <1>1 DEF CheckUrl, Settle
<1>2. CASE Pasted
  BY <1>2 DEF Pasted, Settle
<1>3. CASE Resolve
  <2>1. CASE Settle(Unreachable(probe)) /\ UNCHANGED addresses
    BY <1>3, <2>1 DEF Resolve, Settle
  <2>2. ASSUME NEW answer \in Answers, addresses' = answer,
               CASE answer = <<>> -> Settle(Unreachable(probe))
                 [] answer # <<>> /\ (\E i \in DOMAIN answer : IsPrivateAddress(answer[i])) ->
                      Settle("ssrf_blocked_destination")
                 [] OTHER -> stage' = "connect" /\ UNCHANGED <<timer, outcome>>
        PROVE  DialInv'
    <3>1. /\ answer \in Seq(Texts)
          /\ \/ Settle(Unreachable(probe)) \/ Settle("ssrf_blocked_destination")
             \/ /\ answer # <<>>
                /\ \A i \in DOMAIN answer : ~IsPrivateAddress(answer[i]) /\ IsIP(answer[i])
                /\ stage' = "connect" /\ UNCHANGED <<timer, outcome>>
      BY <2>2, DiscoveryAssumption, LookupAssumption, JunkIsPrivate
    <3>2. stage = "resolve" /\ UNCHANGED <<dialled, dispatcher>>
      BY <1>3 DEF Resolve
    <3> QED  BY <2>2, <3>1, <3>2 DEF Settle
  <2> QED  BY <1>3, <2>1, <2>2 DEF Resolve
<1>4. CASE Connect
  <2>1. 1 \in DOMAIN addresses /\ IsIP(addresses[1])
    BY <1>4 DEF Connect
  <2>2. /\ stage = "connect" /\ dialled' = addresses[1] /\ dispatcher' = "busy"
        /\ stage' = "headers" /\ UNCHANGED addresses
    BY <1>4, <2>1 DEF Connect, PinnedLookup
  <2> QED  BY <2>1, <2>2
<1>5. CASE TimerFires
  BY <1>5 DEF TimerFires, Settle, ExchangeOver
<1>6. CASE Headers
  BY <1>6 DEF Headers, Settle, ExchangeOver, TimerAfterHeaders
<1>7. CASE Chunk
  BY <1>7 DEF Chunk, Settle, ExchangeOver
<1>8. CASE BodyEnds
  BY <1>8 DEF BodyEnds, ExchangeOver
<1>9. CASE BodyBreaks
  BY <1>9 DEF BodyBreaks, Settle, ExchangeOver
<1>10. CASE Judge
  BY <1>10 DEF Judge
<1>11. CASE UnreadEnds
  BY <1>11 DEF UnreadEnds, ExchangeOver
<1>12. CASE Close
  BY <1>12 DEF Close
<1>13. CASE UNCHANGED dVars
  BY <1>13 DEF dVars
<1> QED
  BY <1>1, <1>2, <1>3, <1>4, <1>5, <1>6, <1>7, <1>8, <1>9, <1>10, <1>11, <1>12,
     <1>13 DEF DNext

\* No connection of a discovery probe goes to an address it did not check, or to a
\* private one, and a probe that has ended leaves no dispatcher open and no timer set.
THEOREM DialsChecked == DSpec => []DialsOnlyChecked
<1>1. DInit => DialInv
  BY DEF DInit, DialInv, Early
<1>2. DialInv /\ [DNext]_dVars => DialInv'
  BY DialStep
<1>3. DialInv => DialsOnlyChecked
  BY DEF DialInv, DialsOnlyChecked
<1> QED  BY <1>1, <1>2, <1>3, PTL DEF DSpec

-----------------------------------------------------------------------------
LEMMA VerdictNeedsEntity ==
    ASSUME NEW d \in SamlDocuments, SamlVerdict(d, 0) = "metadata"
    PROVE  FirstEntity(d) = 1
  BY DEF SamlVerdict, FirstEntity

LEMMA JudgeStep ==
    ASSUME JudgeInv, [DNext]_dVars
    PROVE  JudgeInv'
<1> USE DEF JudgeInv
<1>1. CASE CheckUrl
  <2>1. UrlRefusal(probe, url) # "metadata" \/ probe \notin {"samlUrl", "oidc"}
    BY DEF UrlRefusal, UrlShapes
  <2> QED  BY <1>1, <2>1 DEF CheckUrl, Settle
<1>2. CASE Pasted
  BY <1>2 DEF Pasted, Settle
<1>3. CASE Resolve
  <2>1. \/ Settle(Unreachable(probe)) \/ Settle("ssrf_blocked_destination")
        \/ stage' = "connect" /\ UNCHANGED outcome
    BY <1>3 DEF Resolve
  <2>2. stage = "resolve" /\ UNCHANGED <<probe, url, doc>>
    BY <1>3 DEF Resolve
  <2> QED  BY <2>1, <2>2 DEF Settle, Unreachable
<1>4. CASE Connect
  BY <1>4 DEF Connect, Settle
<1>5. CASE TimerFires
  BY <1>5 DEF TimerFires, Settle, ExchangeOver
<1>6. CASE Headers
  BY <1>6 DEF Headers, Settle, Unreachable, BadStatus
<1>7. CASE Chunk
  BY <1>7 DEF Chunk, Settle, ExchangeOver
<1>8. CASE BodyEnds
  BY <1>8 DEF BodyEnds, ExchangeOver
<1>9. CASE BodyBreaks
  BY <1>9 DEF BodyBreaks, Settle, ExchangeOver
<1>10. CASE Judge
  <2>1. CASE probe = "oidc"
    BY <1>10, <2>1 DEF Judge
  <2>2. CASE probe # "oidc"
    <3>1. doc' \in SamlDocuments /\ outcome' = SamlVerdict(doc', 0) /\ UNCHANGED <<probe, url>>
      BY <1>10, <2>2, DiscoveryAssumption DEF Judge
    <3>2. outcome' = "metadata" => FirstEntity(doc') = 1
      BY <3>1, VerdictNeedsEntity
    <3> QED  BY <1>10, <3>1, <3>2 DEF Judge
  <2> QED  BY <2>1, <2>2
<1>11. CASE UnreadEnds
  BY <1>11 DEF UnreadEnds, ExchangeOver
<1>12. CASE Close
  BY <1>12 DEF Close
<1>13. CASE UNCHANGED dVars
  BY <1>13 DEF dVars
<1> QED
  BY <1>1, <1>2, <1>3, <1>4, <1>5, <1>6, <1>7, <1>8, <1>9, <1>10, <1>11, <1>12,
     <1>13 DEF DNext

\* A reference to the entity that is read, which nothing else in the document can
\* mean, has that entity's content when its digest matches.
LEMMA DigestIsOfNamed ==
    ASSUME NEW d \in SamlDocuments, NEW r, 1 \in NamedEntities(d, r.uri), r.uri # NoId,
           ~Ambiguous(d, r.uri), DigestMatches(d, r)
    PROVE  d.entities[1].content = r.digest
  BY DEF Ambiguous, DigestMatches

\* A document reported as signed has a signature made of what is read.
LEMMA SignedMeans ==
    ASSUME NEW d \in SamlDocuments, FirstEntity(d) = 1, SignatureStatus(d) = "signed"
    PROVE  \E i \in DOMAIN d.signatures :
              LET s == d.signatures[i]
              IN  s.intact /\ \E k \in DOMAIN s.refs : s.refs[k].digest = d.entities[1].content
<1>1. d.signatures \in Seq(Signatures) /\ d.entities \in Seq(Entities)
  BY DEF SamlDocuments
<1>2. /\ DirectSignatures(d) # {}
      /\ CheckSignature(d, DirectSignature(d)) = "valid"
      /\ Len(DirectSignature(d).refs) = 1
      /\ DirectSignature(d).refs[1].uri # NoId
      /\ DirectSignature(d).refs[1].uri = d.entities[1].id
  <2>1. d.signatures # <<>> /\ DirectSignatures(d) # {}
    BY DEF SignatureStatus
  <2>2. CheckSignature(d, DirectSignature(d)) \in {"throws", "valid", "invalid"}
    BY DEF CheckSignature
  <2>3. CheckSignature(d, DirectSignature(d)) = "valid"
    BY <2>1, <2>2 DEF SignatureStatus
  <2> QED  BY <2>1, <2>3 DEF SignatureStatus
<1>3. DirectSignatures(d) \in SUBSET Nat
  BY <1>1 DEF DirectSignatures
<1>4. PICK n \in DirectSignatures(d) : DirectSignature(d) = d.signatures[n]
  BY <1>2, <1>3, LeastNatural DEF DirectSignature
<1>5. n \in DOMAIN d.signatures
  BY <1>4 DEF DirectSignatures
<1>6. PICK s \in Signatures : s = d.signatures[n]
  BY <1>1, <1>5
<1>7. 1 \in DOMAIN s.refs
  <2>1. s.refs \in Seq([uri : STRING, digest : STRING])
    BY DEF Signatures
  <2> QED  BY <1>2, <1>4, <1>6, <2>1
<1>8. s.intact /\ ~Ambiguous(d, s.refs[1].uri) /\ DigestMatches(d, s.refs[1])
  BY <1>2, <1>4, <1>6, <1>7 DEF CheckSignature
<1>9. 1 \in NamedEntities(d, s.refs[1].uri)
  BY <1>1, <1>2, <1>4, <1>6 DEF NamedEntities, FirstEntity
<1>10. d.entities[1].content = s.refs[1].digest
  BY <1>2, <1>4, <1>6, <1>8, <1>9, DigestIsOfNamed
<1> QED  BY <1>5, <1>6, <1>7, <1>8, <1>10

\* parseSamlMetadata reports "signed" only of metadata whose first entity, the one
\* it reads, has the very content that the maker of a signature in it signed.
THEOREM SignedIsParsed == DSpec => []SignedCoversParsed
<1>1. DInit => JudgeInv
  BY DiscoveryAssumption DEF DInit, JudgeInv
<1>2. JudgeInv /\ [DNext]_dVars => JudgeInv'
  BY JudgeStep
<1>3. JudgeInv => SignedCoversParsed
  BY SignedMeans DEF JudgeInv, SignedCoversParsed
<1> QED  BY <1>1, <1>2, <1>3, PTL DEF DSpec

------------------------------------------------------------------------------

(* The identity-provider managers.  Versions of a secret only grow, a call in  *)
(* flight holds one that was current when it was read, and while calls are     *)
(* serialised the client list a call has read is still the client's list when  *)
(* it writes it back.                                                          *)

\* No two tenants' identifiers give the same provider name.
NamesApart == \A t, u \in TenantIds : NormaliseIdpName(t) = NormaliseIdpName(u) => t = u

FedSteps == {"create", "put", "schedule", "read", "parse", "describe", "createIdp", "updateIdp",
             "describeClient", "updateClient"}

FedCalls == [op : Ops, tenant : TenantIds, step : FedSteps, version : Nat,
             ids : SUBSET AppClients, todo : SUBSET AppClients, on : SUBSET AppClients, seen : SUBSET ProviderNames]

FedIdps == [type : Ops \cup {"none"}, tenant : TenantIds \cup {<<>>}, version : Nat]

FedTypes ==
    /\ secrets \in [SecretNames -> [version : Nat, deleting : BOOLEAN]]
    /\ idps \in [ProviderNames -> FedIdps]
    /\ clients \in [AppClients -> SUBSET ProviderNames]
    /\ calls \in [FedCallers -> FedCalls \cup {FedIdle}]
    /\ minted \in Nat
    /\ pins \in [TenantIds -> Nat]
    /\ told \in [ProviderNames \X AppClients -> {"in", "out", "unknown"}]
    /\ \A n \in SecretNames : secrets[n].version <= minted

\* A version of t's secret that was current once.
VersionOK(t, v) ==
    /\ v <= minted
    /\ secrets[SecretName(t)].version # 0 => v <= secrets[SecretName(t)].version

PinOK(t) ==
    /\ VersionOK(t, pins[t])
    /\ idps[NormaliseIdpName(t)].type = "oidc" =>
          /\ VersionOK(t, idps[NormaliseIdpName(t)].version)
          /\ pins[t] <= idps[NormaliseIdpName(t)].version

AttachOK(p, c) ==
    /\ told[<<p, c>>] = "in" => p \in clients[c]
    /\ told[<<p, c>>] = "out" => p \notin clients[c]

\* Which operation a step belongs to.
StepOK(r) ==
    /\ r.step \in {"create", "put"} => r.op = "store"
    /\ r.step = "schedule" => r.op = "deleteSecret"
    /\ r.step = "read" => r.op = "oidc"
    /\ r.step = "parse" => r.op = "saml"
    /\ r.step \in {"describe", "createIdp", "updateIdp"} => r.op \in {"oidc", "saml"}
    /\ r.step \in {"describeClient", "updateClient"} => r.op \in {"delete", "attach"}
    /\ r.op = "saml" => r.version = 0

\* What an upsert has read, and what an attach or a delete has seen.
ReadOK(r) ==
    r.op = "oidc" /\ r.step \in {"describe", "createIdp", "updateIdp"} =>
        VersionOK(r.tenant, r.version) /\ pins[r.tenant] <= r.version

ListOK(r) ==
    /\ r.step = "describeClient" => r.todo \subseteq r.ids
    /\ r.step = "updateClient" =>
          /\ r.todo \subseteq r.ids
          /\ \A c, d \in r.on : c = d
          /\ \A c \in r.on : r.seen = clients[c] /\ c \in r.ids

CallOK(r) == r # FedIdle => StepOK(r) /\ ReadOK(r) /\ ListOK(r)

FedInv ==
    /\ FedTypes
    /\ \A t \in TenantIds : PinOK(t)
    /\ \A p \in ProviderNames, c \in AppClients : AttachOK(p, c)
    /\ \A x \in FedCallers : CallOK(calls[x])
    /\ \A x, y \in FedCallers : InManager(x) /\ InManager(y) => x = y

-----------------------------------------------------------------------------
LEMMA NamesTyped ==
    /\ \A t \in TenantIds : NormaliseIdpName(t) \in ProviderNames /\ SecretName(t) \in SecretNames
    /\ \A r \in FedCalls : r # FedIdle /\ r.op \in Ops /\ r.tenant \in TenantIds
<1>1. \A t \in TenantIds : NormaliseIdpName(t) \in ProviderNames /\ SecretName(t) \in SecretNames
  BY DEF ProviderNames, SecretNames
<1>2. \A r \in FedCalls : r.op \in Ops /\ r.tenant \in TenantIds
  BY DEF FedCalls
<1>3. \A r \in FedCalls : r # FedIdle
  BY <1>2 DEF FedIdle, Ops, ManagerOps
<1> QED  BY <1>1, <1>2, <1>3

\* A step outside the managers' lists: secrets move on, the rest stays.
LEMMA SecretsMove ==
    ASSUME FedInv, NEW x \in FedCallers, NEW r \in FedCalls \cup {FedIdle},
           calls' = [calls EXCEPT ![x] = r],
           UNCHANGED <<idps, clients, pins, told>>,
           minted' \in Nat, secrets' \in [SecretNames -> [version : Nat, deleting : BOOLEAN]],
           \A n \in SecretNames : secrets'[n].version <= minted',
           \A t \in TenantIds, v \in Nat : VersionOK(t, v) => VersionOK(t, v)',
           CallOK(r)', r # FedIdle => \/ InManager(x) /\ r.op = calls[x].op
                                      \/ r.op \notin ManagerOps
                                      \/ \A y \in FedCallers : ~InManager(y)
    PROVE  FedInv'
<1>1. FedTypes'
  BY DEF FedInv, FedTypes
<1>2. ASSUME NEW t \in TenantIds PROVE PinOK(t)'
  <2>1. pins[t] \in Nat /\ idps[NormaliseIdpName(t)].version \in Nat
    BY NamesTyped DEF FedInv, FedTypes, FedIdps
  <2> QED  BY <2>1 DEF FedInv, PinOK
<1>3. ASSUME NEW p \in ProviderNames, NEW c \in AppClients PROVE AttachOK(p, c)'
  BY DEF FedInv, AttachOK
<1>4. ASSUME NEW y \in FedCallers PROVE CallOK(calls[y])'
  <2>1. CASE y = x
    BY <2>1 DEF FedInv, FedTypes
  <2>2. CASE y # x
    <3>1. PICK k \in FedCalls \cup {FedIdle} : k = calls[y] /\ calls'[y] = k
      BY <2>2 DEF FedInv, FedTypes
    <3>2. CallOK(k)
      BY <3>1 DEF FedInv
    <3>3. k # FedIdle => k.version \in Nat /\ k.tenant \in TenantIds
      BY DEF FedCalls
    <3>4. CallOK(k)'
      BY <3>2, <3>3 DEF CallOK, StepOK, ReadOK, ListOK
    <3> QED  BY <3>1, <3>4
  <2> QED  BY <2>1, <2>2
<1>5. \A y, z \in FedCallers : InManager(y)' /\ InManager(z)' => y = z
  <2>1. \A y \in FedCallers : InManager(y)' => (y # x /\ InManager(y)) \/ (y = x /\ r # FedIdle /\ r.op \in ManagerOps)
    BY DEF InManager, FedInv, FedTypes
  <2> QED  BY <2>1 DEF FedInv, InManager
<1> QED  BY <1>1, <1>2, <1>3, <1>4, <1>5 DEF FedInv

\* A step of the one manager call there is.
LEMMA ManagerMoves ==
    ASSUME FedInv, NEW x \in FedCallers, InManager(x), NEW r \in FedCalls \cup {FedIdle},
           calls' = [calls EXCEPT ![x] = r], UNCHANGED <<secrets, minted>>,
           CallOK(r)', r # FedIdle => r.op = calls[x].op,
           FedTypes', \A t \in TenantIds : PinOK(t)',
           \A p \in ProviderNames, c \in AppClients : AttachOK(p, c)'
    PROVE  FedInv'
<1>1. ASSUME NEW y \in FedCallers PROVE CallOK(calls[y])'
  <2>1. CASE y = x
    BY <2>1 DEF FedInv, FedTypes
  <2>2. CASE y # x
    <3>1. PICK k \in FedCalls \cup {FedIdle} : k = calls[y] /\ calls'[y] = k
      BY <2>2 DEF FedInv, FedTypes
    <3>2. CallOK(k) /\ (k # FedIdle => k.op \notin ManagerOps)
      BY <2>2, <3>1 DEF FedInv, InManager
    <3>3. CallOK(k)'
      BY <3>2 DEF CallOK, StepOK, ReadOK, ListOK, ManagerOps
    <3> QED  BY <3>1, <3>3
  <2> QED  BY <2>1, <2>2
<1>2. \A y \in FedCallers : InManager(y)' => y = x
  BY DEF InManager, FedInv, FedTypes
<1> QED  BY <1>1, <1>2 DEF FedInv

-----------------------------------------------------------------------------
\* A call begins.
LEMMA CallKeeps ==
    ASSUME Serialised, FedInv, NEW x \in FedCallers, NEW op \in Ops, NEW t \in TenantIds,
           NEW ids \in SUBSET AppClients, Call(x, op, t, ids)
    PROVE  FedInv'
<1> DEFINE r == [op |-> op, tenant |-> t, step |-> FirstStep(op),
                 version |-> 0, ids |-> ids, todo |-> ids, on |-> {}, seen |-> {}]
<1>1. /\ calls' = [calls EXCEPT ![x] = r]
      /\ UNCHANGED <<secrets, idps, clients, minted, pins, told>>
      /\ op \in ManagerOps => \A y \in FedCallers : ~InManager(y)
  BY DEF Call
<1>2. FirstStep(op) \in FedSteps
  BY DEF FirstStep, Ops, ManagerOps, FedSteps
<1>3. /\ r \in FedCalls /\ r.op = op /\ r.step = FirstStep(op) /\ r.todo = ids /\ r.ids = ids
      /\ r.version = 0
  BY <1>2 DEF FedCalls
<1> HIDE DEF r
<1>4. CallOK(r)'
  <2>1. StepOK(r) /\ FirstStep(op) \notin {"describe", "createIdp", "updateIdp", "updateClient"}
    BY <1>3 DEF StepOK, FirstStep, Ops, ManagerOps
  <2> QED  BY <1>3, <2>1 DEF CallOK, StepOK, ReadOK, ListOK
<1>5. \A u \in TenantIds, v \in Nat : VersionOK(u, v) => VersionOK(u, v)'
  BY <1>1 DEF VersionOK
<1>6. /\ minted' \in Nat /\ secrets' \in [SecretNames -> [version : Nat, deleting : BOOLEAN]]
      /\ \A n \in SecretNames : secrets'[n].version <= minted'
  BY <1>1 DEF FedInv, FedTypes
<1> QED  BY <1>1, <1>3, <1>4, <1>5, <1>6, SecretsMove

\* A call ends and nothing else changes but what the consumer no longer knows.
LEMMA FailKeeps ==
    ASSUME FedInv, NEW x \in FedCallers, Fail(x)
    PROVE  FedInv'
<1>1. /\ calls' = [calls EXCEPT ![x] = FedIdle]
      /\ told' = [pc \in DOMAIN told |->
                  IF pc[1] = Name(x) /\ pc[2] \in calls[x].ids THEN "unknown" ELSE told[pc]]
      /\ UNCHANGED <<secrets, idps, clients, minted, pins>>
  BY DEF Fail, Return, Forget
<1>2. told' \in [ProviderNames \X AppClients -> {"in", "out", "unknown"}]
  BY <1>1 DEF FedInv, FedTypes
<1>3. FedTypes'
  BY <1>1, <1>2 DEF FedInv, FedTypes
<1>4. \A t \in TenantIds : PinOK(t)'
  BY <1>1 DEF FedInv, PinOK, VersionOK
<1>5. ASSUME NEW p \in ProviderNames, NEW c \in AppClients PROVE AttachOK(p, c)'
  <2>1. told'[<<p, c>>] \in {"unknown", told[<<p, c>>]}
    BY <1>1 DEF FedInv, FedTypes
  <2> QED  BY <1>1, <2>1 DEF FedInv, AttachOK
<1>6. ASSUME NEW y \in FedCallers
      PROVE  CallOK(calls[y])' /\ (InManager(y)' => InManager(y))
  <2>1. PICK k \in FedCalls \cup {FedIdle} : k = calls[y] /\ calls'[y] \in {k, FedIdle}
    BY <1>1 DEF FedInv, FedTypes
  <2>2. CallOK(k)' /\ CallOK(FedIdle)'
    BY <1>1, <2>1 DEF FedInv, CallOK, StepOK, ReadOK, ListOK, VersionOK
  <2>3. CallOK(calls[y])'
    BY <2>1, <2>2
  <2> QED  BY <2>1, <2>3 DEF InManager
<1> QED  BY <1>3, <1>4, <1>5, <1>6 DEF FedInv

\* A secret gets a version it never had.
LEMMA NewVersion ==
    ASSUME FedInv, NEW n \in SecretNames, minted' = minted + 1,
           secrets' = [secrets EXCEPT ![n].version = minted + 1]
    PROVE  /\ minted' \in Nat /\ secrets' \in [SecretNames -> [version : Nat, deleting : BOOLEAN]]
           /\ \A m \in SecretNames : secrets'[m].version <= minted'
           /\ \A t \in TenantIds, v \in Nat : VersionOK(t, v) => VersionOK(t, v)'
<1>1. minted \in Nat /\ secrets \in [SecretNames -> [version : Nat, deleting : BOOLEAN]]
  BY DEF FedInv, FedTypes
<1>2. minted' \in Nat /\ secrets' \in [SecretNames -> [version : Nat, deleting : BOOLEAN]]
  BY <1>1
<1>3. \A m \in SecretNames : secrets'[m].version = IF m = n THEN minted + 1 ELSE secrets[m].version
  BY <1>1
<1>4. \A m \in SecretNames : secrets[m].version \in Nat /\ secrets[m].version <= minted
  BY <1>1 DEF FedInv, FedTypes
<1>5. \A m \in SecretNames : secrets'[m].version <= minted'
  BY <1>1, <1>3, <1>4
<1>6. ASSUME NEW t \in TenantIds, NEW v \in Nat, VersionOK(t, v) PROVE VersionOK(t, v)'
  BY <1>1, <1>3, <1>6, NamesTyped DEF VersionOK
<1> QED  BY <1>2, <1>5, <1>6

LEMMA StoreKeeps ==
    ASSUME FedInv, NEW x \in FedCallers, Store(x)
    PROVE  FedInv'
<1>1. PICK k \in FedCalls : k = calls[x] /\ k.op = "store"
  BY DEF Store, FedAt, FedInv, FedTypes, CallOK, StepOK
<1>2. Secret(x) \in SecretNames
  BY <1>1, NamesTyped DEF Secret
<1>3. UNCHANGED <<idps, clients, pins, told>>
  BY DEF Store
<1>4. CASE /\ minted' = minted + 1 /\ calls' = [calls EXCEPT ![x] = FedIdle]
           /\ secrets' = [secrets EXCEPT ![Secret(x)].version = minted + 1]
  <2>1. /\ minted' \in Nat /\ secrets' \in [SecretNames -> [version : Nat, deleting : BOOLEAN]]
        /\ \A m \in SecretNames : secrets'[m].version <= minted'
        /\ \A t \in TenantIds, v \in Nat : VersionOK(t, v) => VersionOK(t, v)'
    BY <1>2, <1>4, NewVersion
  <2>2. CallOK(FedIdle)'
    BY DEF CallOK
  <2> QED  BY <1>3, <1>4, <2>1, <2>2, SecretsMove
<1>5. CASE GoTo(x, "put") /\ UNCHANGED <<secrets, minted>>
  <2> DEFINE r == [k EXCEPT !.step = "put"]
  <2>1. calls' = [calls EXCEPT ![x] = r]
    BY <1>1, <1>5 DEF GoTo
  <2>2. r \in FedCalls /\ r.op = "store" /\ r.step = "put"
    BY <1>1 DEF FedCalls, FedSteps
  <2> HIDE DEF r
  <2>3. CallOK(r)'
    BY <2>2 DEF CallOK, StepOK, ReadOK, ListOK
  <2>4. \A t \in TenantIds, v \in Nat : VersionOK(t, v) => VersionOK(t, v)'
    BY <1>5 DEF VersionOK
  <2>5. /\ minted' \in Nat /\ secrets' \in [SecretNames -> [version : Nat, deleting : BOOLEAN]]
        /\ \A n \in SecretNames : secrets'[n].version <= minted'
    BY <1>5 DEF FedInv, FedTypes
  <2> QED  BY <1>3, <2>1, <2>2, <2>3, <2>4, <2>5, SecretsMove DEF ManagerOps
<1> QED  BY <1>4, <1>5 DEF Store, Return

LEMMA ScheduleKeeps ==
    ASSUME FedInv, NEW x \in FedCallers, ScheduleDeletion(x)
    PROVE  FedInv'
<1>1. /\ secrets' = [secrets EXCEPT ![Secret(x)].deleting = secrets[Secret(x)].version # 0]
      /\ calls' = [calls EXCEPT ![x] = FedIdle] /\ UNCHANGED <<idps, clients, minted, pins, told>>
  BY DEF ScheduleDeletion, Return
<1>2. calls[x] \in FedCalls
  BY DEF ScheduleDeletion, FedAt, FedInv, FedTypes
<1>3. Secret(x) \in SecretNames
  BY <1>2, NamesTyped DEF Secret
<1>4. /\ secrets' \in [SecretNames -> [version : Nat, deleting : BOOLEAN]] /\ minted' \in Nat
      /\ \A n \in SecretNames : secrets'[n].version = secrets[n].version
  BY <1>1, <1>3 DEF FedInv, FedTypes
<1>5. \A n \in SecretNames : secrets'[n].version <= minted'
  BY <1>1, <1>4 DEF FedInv, FedTypes
<1>6. \A t \in TenantIds, v \in Nat : VersionOK(t, v) => VersionOK(t, v)'
  BY <1>1, <1>4, NamesTyped DEF VersionOK
<1>7. CallOK(FedIdle)'
  BY DEF CallOK
<1> QED  BY <1>1, <1>4, <1>5, <1>6, <1>7, SecretsMove

LEMMA PurgeKeeps ==
    ASSUME FedInv, NEW n \in SecretNames, Purge(n)
    PROVE  FedInv'
<1>1. /\ secrets' = [secrets EXCEPT ![n] = [version |-> 0, deleting |-> FALSE]]
      /\ UNCHANGED <<idps, clients, calls, minted, pins, told>>
  BY DEF Purge
<1>2. /\ secrets' \in [SecretNames -> [version : Nat, deleting : BOOLEAN]] /\ minted' \in Nat
      /\ \A m \in SecretNames : secrets'[m].version = IF m = n THEN 0 ELSE secrets[m].version
  BY <1>1 DEF FedInv, FedTypes
<1>3. \A m \in SecretNames : secrets'[m].version <= minted'
  BY <1>1, <1>2 DEF FedInv, FedTypes
<1>4. \A t \in TenantIds, v \in Nat : VersionOK(t, v) => VersionOK(t, v)'
  BY <1>1, <1>2, NamesTyped DEF VersionOK
<1>5. FedTypes'
  BY <1>1, <1>2, <1>3 DEF FedInv, FedTypes
<1>6. ASSUME NEW t \in TenantIds PROVE PinOK(t)'
  <2>1. pins[t] \in Nat /\ idps[NormaliseIdpName(t)].version \in Nat
    BY NamesTyped DEF FedInv, FedTypes, FedIdps
  <2> QED  BY <1>1, <1>4, <2>1 DEF FedInv, PinOK
<1>7. ASSUME NEW x \in FedCallers PROVE CallOK(calls[x])'
  <2>1. PICK r \in FedCalls \cup {FedIdle} : r = calls[x] /\ calls'[x] = r
    BY <1>1 DEF FedInv, FedTypes
  <2>2. CallOK(r) /\ (r # FedIdle => r.version \in Nat /\ r.tenant \in TenantIds)
    BY <2>1 DEF FedInv, FedCalls
  <2>3. CallOK(r)'
    BY <1>1, <1>4, <2>2 DEF CallOK, StepOK, ReadOK, ListOK
  <2> QED  BY <2>1, <2>3
<1>8. \A p \in ProviderNames, c \in AppClients : AttachOK(p, c)'
  BY <1>1 DEF FedInv, AttachOK
<1>9. \A x, y \in FedCallers : InManager(x)' /\ InManager(y)' => x = y
  BY <1>1 DEF FedInv, InManager
<1> QED  BY <1>5, <1>6, <1>7, <1>8, <1>9 DEF FedInv

-----------------------------------------------------------------------------
(* The steps of a manager. *)

LEMMA AtStep ==
    ASSUME FedInv, NEW x \in FedCallers, NEW step, FedAt(x, step)
    PROVE  /\ calls[x] \in FedCalls /\ calls[x].step = step /\ CallOK(calls[x])
           /\ StepOK(calls[x]) /\ ReadOK(calls[x]) /\ ListOK(calls[x])
           /\ Name(x) \in ProviderNames /\ Secret(x) \in SecretNames
           /\ calls[x].op \in ManagerOps => InManager(x)
<1>1. calls[x] \in FedCalls /\ calls[x].step = step /\ CallOK(calls[x]) /\ calls[x] # FedIdle
  BY DEF FedAt, FedInv, FedTypes
<1> QED  BY <1>1, NamesTyped DEF CallOK, Name, Secret, InManager

\* Only the call itself moves on.
LEMMA OnlyCall ==
    ASSUME FedInv, NEW x \in FedCallers, InManager(x), NEW r \in FedCalls \cup {FedIdle},
           calls' = [calls EXCEPT ![x] = r], UNCHANGED <<secrets, idps, clients, minted, pins, told>>,
           CallOK(r), r # FedIdle => r.op = calls[x].op
    PROVE  FedInv'
<1>1. FedTypes'
  BY DEF FedInv, FedTypes
<1>2. \A t \in TenantIds : PinOK(t)'
  BY DEF FedInv, PinOK, VersionOK
<1>3. \A p \in ProviderNames, c \in AppClients : AttachOK(p, c)'
  BY DEF FedInv, AttachOK
<1>4. CallOK(r)'
  BY DEF CallOK, StepOK, ReadOK, ListOK, VersionOK
<1> QED  BY <1>1, <1>2, <1>3, <1>4, ManagerMoves

LEMMA ReadKeeps ==
    ASSUME FedInv, NEW x \in FedCallers, GetSecretValue(x) \/ VetMetadata(x) \/ DescribeExisting(x)
    PROVE  FedInv'
<1>1. CASE GetSecretValue(x)
  <2>1. PICK k \in FedCalls : k = calls[x] /\ k.op = "oidc" /\ InManager(x) /\ Secret(x) \in SecretNames
    BY <1>1, AtStep DEF GetSecretValue, StepOK, ManagerOps
  <2>2. PICK v \in Nat : v = secrets[Secret(x)].version /\ v # 0
    BY <1>1, <2>1 DEF GetSecretValue, FedInv, FedTypes
  <2> DEFINE r == [k EXCEPT !.version = v, !.step = "describe"]
  <2>3. calls' = [calls EXCEPT ![x] = r] /\ UNCHANGED <<secrets, idps, clients, minted, pins, told>>
    BY <1>1, <2>1, <2>2 DEF GetSecretValue
  <2>4. /\ r \in FedCalls /\ r.op = "oidc" /\ r.step = "describe" /\ r.version = v
        /\ r.tenant = k.tenant /\ k.tenant \in TenantIds
    BY <2>1 DEF FedCalls, FedSteps
  <2> HIDE DEF r
  <2>5. VersionOK(k.tenant, v) /\ pins[k.tenant] <= v
    <3>1. v <= minted /\ v = secrets[SecretName(k.tenant)].version
      BY <2>1, <2>2 DEF FedInv, FedTypes, Secret
    <3>2. VersionOK(k.tenant, pins[k.tenant])
      BY <2>4 DEF FedInv, PinOK
    <3> QED  BY <2>2, <3>1, <3>2 DEF VersionOK
  <2>6. CallOK(r)
    BY <2>4, <2>5 DEF CallOK, StepOK, ReadOK, ListOK
  <2> QED  BY <2>1, <2>3, <2>4, <2>6, OnlyCall
<1>2. CASE VetMetadata(x)
  <2>1. PICK k \in FedCalls : k = calls[x] /\ k.op = "saml" /\ k.version = 0 /\ InManager(x)
    BY <1>2, AtStep DEF VetMetadata, StepOK, ManagerOps
  <2> DEFINE r == [k EXCEPT !.step = "describe"]
  <2>2. calls' = [calls EXCEPT ![x] = r] /\ UNCHANGED <<secrets, idps, clients, minted, pins, told>>
    BY <1>2, <2>1 DEF VetMetadata, GoTo
  <2>3. r \in FedCalls /\ r.op = "saml" /\ r.step = "describe" /\ r.version = 0
    BY <2>1 DEF FedCalls, FedSteps
  <2> HIDE DEF r
  <2>4. CallOK(r)
    BY <2>3 DEF CallOK, StepOK, ReadOK, ListOK
  <2> QED  BY <2>1, <2>2, <2>3, <2>4, OnlyCall
<1>3. CASE DescribeExisting(x)
  <2>1. PICK k \in FedCalls : /\ k = calls[x] /\ k.step = "describe" /\ k.op \in {"oidc", "saml"}
                              /\ InManager(x) /\ StepOK(k) /\ ReadOK(k)
    BY <1>3, AtStep DEF DescribeExisting, StepOK, ManagerOps
  <2>2. PICK step \in {"createIdp", "updateIdp"} :
          calls' = [calls EXCEPT ![x] = [k EXCEPT !.step = step]]
    BY <1>3, <2>1 DEF DescribeExisting, GoTo
  <2>3. UNCHANGED <<secrets, idps, clients, minted, pins, told>>
    BY <1>3 DEF DescribeExisting
  <2> DEFINE r == [k EXCEPT !.step = step]
  <2>4. /\ r \in FedCalls /\ r.op = k.op /\ r.step = step /\ r.version = k.version
        /\ r.tenant = k.tenant
    BY <2>1 DEF FedCalls, FedSteps
  <2>5. calls' = [calls EXCEPT ![x] = r]
    BY <2>2
  <2> HIDE DEF r
  <2>6. CallOK(r)
    BY <2>1, <2>4 DEF CallOK, StepOK, ReadOK, ListOK
  <2> QED  BY <2>1, <2>3, <2>4, <2>5, <2>6, OnlyCall
<1> QED  BY <1>1, <1>2, <1>3

LEMMA WriteKeeps ==
    ASSUME NamesApart, FedInv, NEW x \in FedCallers, WriteIdp(x)
    PROVE  FedInv'
<1>1. PICK k \in FedCalls : /\ k = calls[x] /\ k.step \in {"createIdp", "updateIdp"}
                            /\ k.op \in {"oidc", "saml"} /\ InManager(x) /\ ReadOK(k)
                            /\ StepOK(k) /\ k.tenant \in TenantIds /\ k.version \in Nat
  <2>1. FedAt(x, "createIdp") \/ FedAt(x, "updateIdp")
    BY DEF WriteIdp
  <2>2. /\ calls[x] \in FedCalls /\ calls[x].step \in {"createIdp", "updateIdp"}
        /\ StepOK(calls[x]) /\ ReadOK(calls[x])
        /\ calls[x].op \in ManagerOps => InManager(x)
    BY <2>1, AtStep
  <2> QED  BY <2>2 DEF StepOK, ManagerOps, FedCalls
<1> DEFINE g == [type |-> k.op, tenant |-> k.tenant, version |-> k.version]
           n == NormaliseIdpName(k.tenant)
<1>2. /\ idps' = [idps EXCEPT ![n] = g] /\ calls' = [calls EXCEPT ![x] = FedIdle]
      /\ pins' = [pins EXCEPT ![k.tenant] = k.version] \/ pins' = pins
      /\ UNCHANGED <<secrets, clients, minted, told>>
  BY <1>1 DEF WriteIdp, Registration, Name, PinnedVersion, Return
<1>3. n \in ProviderNames
  BY <1>1, NamesTyped
<1>4. g \in FedIdps /\ g.type = k.op /\ g.version = k.version /\ g # NoIdp
  BY <1>1 DEF FedIdps, NoIdp, Ops, ManagerOps
<1> HIDE DEF g, n
<1>5. FedTypes'
  <2>1. idps' \in [ProviderNames -> FedIdps] /\ pins' \in [TenantIds -> Nat]
    BY <1>1, <1>2, <1>4 DEF FedInv, FedTypes
  <2>2. calls' \in [FedCallers -> FedCalls \cup {FedIdle}]
    BY <1>2 DEF FedInv, FedTypes
  <2> QED  BY <1>2, <2>1, <2>2 DEF FedInv, FedTypes
<1>6. ASSUME NEW t \in TenantIds PROVE PinOK(t)'
  <2>1. CASE t = k.tenant
    <3>1. idps'[NormaliseIdpName(t)] = g
      BY <1>2, <1>3, <2>1 DEF n, FedInv, FedTypes
    <3>2. pins'[t] \in {k.version, pins[t]} /\ VersionOK(t, pins[t])
      BY <1>2, <2>1 DEF FedInv, FedTypes, PinOK
    <3>3. CASE k.op = "oidc"
      <4>1. VersionOK(t, k.version) /\ pins[t] <= k.version
        BY <1>1, <2>1, <3>3 DEF ReadOK
      <4>2. k.version <= k.version
        BY <1>1
      <4> QED  BY <1>2, <1>4, <3>1, <3>2, <4>1, <4>2 DEF PinOK, VersionOK
    <3>4. CASE k.op = "saml"
      <4>1. VersionOK(t, pins'[t])
        <5>1. CASE pins'[t] = pins[t]
          BY <3>2, <5>1
        <5>2. CASE pins'[t] = k.version
          <6>1. pins'[t] = 0
            BY <1>1, <3>4, <5>2 DEF StepOK
          <6>2. minted \in Nat /\ secrets[SecretName(t)].version \in Nat
            BY NamesTyped DEF FedInv, FedTypes
          <6> QED  BY <6>1, <6>2 DEF VersionOK
        <5> QED  BY <3>2, <5>1, <5>2
      <4> QED  BY <1>2, <1>4, <3>1, <3>4, <4>1 DEF PinOK, VersionOK
    <3> QED  BY <1>1, <3>3, <3>4
  <2>2. CASE t # k.tenant
    <3>1. NormaliseIdpName(t) # n
      BY <1>1, <2>2 DEF n, NamesApart
    <3>2. idps'[NormaliseIdpName(t)] = idps[NormaliseIdpName(t)] /\ pins'[t] = pins[t]
      BY <1>2, <2>2, <3>1, NamesTyped DEF FedInv, FedTypes
    <3> QED  BY <1>2, <3>2 DEF FedInv, PinOK, VersionOK
  <2> QED  BY <2>1, <2>2
<1>7. \A p \in ProviderNames, c \in AppClients : AttachOK(p, c)'
  BY <1>2 DEF FedInv, AttachOK
<1>8. CallOK(FedIdle)'
  BY DEF CallOK
<1> QED  BY <1>1, <1>2, <1>5, <1>6, <1>7, <1>8, ManagerMoves

LEMMA DescribeClientKeeps ==
    ASSUME FedInv, NEW x \in FedCallers, NEW c \in AppClients, DescribeClient(x, c)
    PROVE  FedInv'
<1>1. PICK k \in FedCalls : /\ k = calls[x] /\ k.step = "describeClient" /\ k.op \in {"delete", "attach"}
                            /\ InManager(x) /\ ListOK(k)
                            /\ k.tenant \in TenantIds /\ c \in k.todo
  <2>1. FedAt(x, "describeClient") /\ c \in calls[x].todo
    BY DEF DescribeClient
  <2>2. /\ calls[x] \in FedCalls /\ calls[x].step = "describeClient"
        /\ StepOK(calls[x]) /\ ListOK(calls[x])
        /\ calls[x].op \in ManagerOps => InManager(x)
    BY <2>1, AtStep
  <2> QED  BY <2>1, <2>2 DEF StepOK, ManagerOps, FedCalls
<1>2. PICK p \in ProviderNames : p = NormaliseIdpName(k.tenant) /\ p = Name(x)
  BY <1>1, NamesTyped DEF Name
<1>3. PICK step : step = IF (IF k.op = "attach" THEN p \in clients[c] ELSE ~(p \in clients[c]))
                         THEN "describeClient" ELSE "updateClient"
  OBVIOUS
<1>0. PICK list \in SUBSET ProviderNames : list = clients[c]
  BY DEF FedInv, FedTypes
<1> DEFINE r == [k EXCEPT !.seen = list, !.todo = k.todo \ {c}, !.on = {c}, !.step = step]
<1>4. /\ calls' = [calls EXCEPT ![x] = r] /\ UNCHANGED <<secrets, idps, clients, minted, pins>>
  <2>0. step = IF (IF calls[x].op = "attach" THEN Name(x) \in clients[c]
                   ELSE ~(Name(x) \in clients[c]))
               THEN "describeClient" ELSE "updateClient"
    BY <1>1, <1>2, <1>3
  <2>1. calls' = [calls EXCEPT ![x] =
          [calls[x] EXCEPT !.seen = clients[c], !.todo = calls[x].todo \ {c}, !.on = {c},
                    !.step = IF (IF calls[x].op = "attach" THEN Name(x) \in clients[c]
                                 ELSE ~(Name(x) \in clients[c]))
                             THEN "describeClient" ELSE "updateClient"]]
    BY DEF DescribeClient
  <2>2. calls' = [calls EXCEPT ![x] =
          [calls[x] EXCEPT !.seen = list, !.todo = calls[x].todo \ {c}, !.on = {c}, !.step = step]]
    BY <1>0, <2>0, <2>1, Zenon
  <2>3. k = calls[x]
    BY <1>1
  <2>4. calls' = [calls EXCEPT ![x] = r]
    BY <2>2, <2>3
  <2> QED  BY <2>4 DEF DescribeClient
<1>5. /\ r \in FedCalls /\ r.op = k.op /\ r.step = step /\ r.tenant = k.tenant /\ r.on = {c}
      /\ r.seen = clients[c] /\ r.todo = k.todo \ {c} /\ r.version = k.version /\ r.ids = k.ids
  BY <1>0, <1>1, <1>3 DEF FedCalls, FedSteps
<1> HIDE DEF r
<1>6. told' = [told EXCEPT ![<<p, c>>] = told'[<<p, c>>]]
      /\ \/ told'[<<p, c>>] = told[<<p, c>>]
         \/ told'[<<p, c>>] = "in" /\ p \in clients[c]
         \/ told'[<<p, c>>] = "out" /\ p \notin clients[c]
  <2>1. told \in [ProviderNames \X AppClients -> {"in", "out", "unknown"}]
    BY DEF FedInv, FedTypes
  <2>2. CASE (p \in clients[c]) = (k.op = "attach")
    <3>1. told' = [told EXCEPT ![<<p, c>>] = IF k.op = "attach" THEN "in" ELSE "out"]
      BY <1>1, <1>2, <2>2 DEF DescribeClient
    <3> QED  BY <2>1, <2>2, <3>1
  <2>3. CASE (p \in clients[c]) # (k.op = "attach")
    <3>1. told' = told
      BY <1>1, <1>2, <2>3 DEF DescribeClient
    <3> QED  BY <2>1, <3>1
  <2> QED  BY <2>2, <2>3
<1>7. FedTypes'
  <2>1. calls' \in [FedCallers -> FedCalls \cup {FedIdle}]
    BY <1>4, <1>5 DEF FedInv, FedTypes
  <2>2. told'[<<p, c>>] \in {"in", "out", "unknown"}
    BY <1>6 DEF FedInv, FedTypes
  <2>3. told' \in [ProviderNames \X AppClients -> {"in", "out", "unknown"}]
    BY <1>6, <2>2 DEF FedInv, FedTypes
  <2> QED  BY <1>4, <2>1, <2>3 DEF FedInv, FedTypes
<1>8. \A t \in TenantIds : PinOK(t)'
  BY <1>4 DEF FedInv, PinOK, VersionOK
<1>9. ASSUME NEW q \in ProviderNames, NEW d \in AppClients PROVE AttachOK(q, d)'
  <2>1. CASE <<q, d>> = <<p, c>>
    BY <1>4, <1>6, <2>1 DEF FedInv, AttachOK
  <2>2. CASE <<q, d>> # <<p, c>>
    <3>1. told'[<<q, d>>] = told[<<q, d>>]
      BY <1>6, <2>2 DEF FedInv, FedTypes
    <3> QED  BY <1>4, <3>1 DEF FedInv, AttachOK
  <2> QED  BY <2>1, <2>2
<1>10. CallOK(r)'
  <2>1. StepOK(r)'
    BY <1>1, <1>3, <1>5 DEF StepOK
  <2>2. ReadOK(r)'
    BY <1>1, <1>5 DEF ReadOK
  <2>3. ListOK(r)'
    BY <1>1, <1>4, <1>5 DEF ListOK
  <2> QED  BY <2>1, <2>2, <2>3 DEF CallOK
<1> QED  BY <1>1, <1>4, <1>5, <1>7, <1>8, <1>9, <1>10, ManagerMoves

LEMMA UpdateClientKeeps ==
    ASSUME FedInv, NEW x \in FedCallers, NEW c \in AppClients, UpdateClient(x, c)
    PROVE  FedInv'
<1>1. PICK k \in FedCalls : /\ k = calls[x] /\ k.step = "updateClient" /\ k.op \in {"delete", "attach"}
                            /\ InManager(x) /\ StepOK(k) /\ ListOK(k)
                            /\ k.tenant \in TenantIds /\ c \in k.on
  <2>1. FedAt(x, "updateClient") /\ c \in calls[x].on
    BY DEF UpdateClient
  <2>2. /\ calls[x] \in FedCalls /\ calls[x].step = "updateClient"
        /\ StepOK(calls[x]) /\ ListOK(calls[x])
        /\ calls[x].op \in ManagerOps => InManager(x)
    BY <2>1, AtStep
  <2> QED  BY <2>1, <2>2 DEF StepOK, ManagerOps, FedCalls
<1>2. PICK p \in ProviderNames : p = NormaliseIdpName(k.tenant) /\ p = Name(x)
  BY <1>1, NamesTyped DEF Name
<1>3. k.seen = clients[c] /\ k.on = {c} /\ c \in k.ids
  BY <1>1 DEF ListOK
<1>4. PICK new : new = IF k.op = "attach" THEN clients[c] \cup {p} ELSE clients[c] \ {p}
  OBVIOUS
<1>5. /\ clients' = [clients EXCEPT ![c] = new]
      /\ UNCHANGED <<secrets, idps, minted, pins>>
  BY <1>1, <1>2, <1>3, <1>4 DEF UpdateClient, NewProviders
<1>6. new \in SUBSET ProviderNames /\ clients \in [AppClients -> SUBSET ProviderNames]
      /\ told \in [ProviderNames \X AppClients -> {"in", "out", "unknown"}]
      /\ calls \in [FedCallers -> FedCalls \cup {FedIdle}]
  BY <1>4 DEF FedInv, FedTypes
<1>7. \A d \in AppClients : clients'[d] = IF d = c THEN new ELSE clients[d]
  BY <1>5, <1>6
<1>8. \A t \in TenantIds : PinOK(t)'
  BY <1>5 DEF FedInv, PinOK, VersionOK
<1>9. ASSUME \A d \in AppClients, q \in ProviderNames :
                /\ told'[<<q, d>>] \in {"in", "out", "unknown"}
                /\ <<q, d>> # <<p, c>> => told'[<<q, d>>] \in {told[<<q, d>>], "unknown"}
                /\ <<q, d>> = <<p, c>> => told'[<<q, d>>] \in {IF k.op = "attach" THEN "in" ELSE "out", "unknown"}
      PROVE  \A q \in ProviderNames, d \in AppClients : AttachOK(q, d)'
  <2>1. SUFFICES ASSUME NEW q \in ProviderNames, NEW d \in AppClients PROVE AttachOK(q, d)'
    OBVIOUS
  <2>2. AttachOK(q, d)
    BY DEF FedInv
  <2>3. CASE d # c
    BY <1>5, <1>7, <1>9, <2>2, <2>3 DEF AttachOK
  <2>4. CASE d = c /\ q # p
    <3>1. q \in new <=> q \in clients[c]
      BY <1>4, <2>4
    <3> QED  BY <1>5, <1>7, <1>9, <2>2, <2>4, <3>1 DEF AttachOK
  <2>5. CASE d = c /\ q = p
    <3>1. p \in new <=> k.op = "attach"
      BY <1>4
    <3> QED  BY <1>5, <1>7, <1>9, <2>5, <3>1 DEF AttachOK
  <2> QED  BY <2>3, <2>4, <2>5
<1>10. CASE /\ GoTo(x, "describeClient")
            /\ told' = [told EXCEPT ![<<p, c>>] = IF k.op = "attach" THEN "in" ELSE "out"]
  <2> DEFINE r == [k EXCEPT !.step = "describeClient"]
  <2>1. calls' = [calls EXCEPT ![x] = r]
    BY <1>1, <1>10 DEF GoTo
  <2>2. /\ r \in FedCalls /\ r.op = k.op /\ r.step = "describeClient" /\ r.tenant = k.tenant
        /\ r.todo = k.todo /\ r.ids = k.ids
    BY <1>1 DEF FedCalls, FedSteps
  <2> HIDE DEF r
  <2>3. \A d \in AppClients, q \in ProviderNames :
            /\ told'[<<q, d>>] \in {"in", "out", "unknown"}
            /\ <<q, d>> # <<p, c>> => told'[<<q, d>>] \in {told[<<q, d>>], "unknown"}
            /\ <<q, d>> = <<p, c>> => told'[<<q, d>>] \in {IF k.op = "attach" THEN "in" ELSE "out", "unknown"}
    BY <1>6, <1>10
  <2>4. \A q \in ProviderNames, d \in AppClients : AttachOK(q, d)'
    BY <1>9, <2>3
  <2>5. FedTypes'
    <3>1. calls' \in [FedCallers -> FedCalls \cup {FedIdle}]
      BY <1>6, <2>1, <2>2
    <3>2. clients' \in [AppClients -> SUBSET ProviderNames]
      BY <1>5, <1>6
    <3>3. told' \in [ProviderNames \X AppClients -> {"in", "out", "unknown"}]
      BY <1>6, <1>10
    <3> QED  BY <1>5, <3>1, <3>2, <3>3 DEF FedInv, FedTypes
  <2>6. CallOK(r)'
    BY <1>1, <2>2 DEF CallOK, StepOK, ReadOK, ListOK
  <2> QED  BY <1>1, <1>5, <1>8, <2>1, <2>2, <2>4, <2>5, <2>6, ManagerMoves
<1>11. CASE /\ Return(x)
            /\ told' = [pc \in DOMAIN told |->
                          IF pc[1] = p /\ pc[2] \in k.ids THEN "unknown" ELSE told[pc]]
  <2>1. calls' = [calls EXCEPT ![x] = FedIdle]
    BY <1>11 DEF Return
  <2>2. \A d \in AppClients, q \in ProviderNames :
            /\ told'[<<q, d>>] \in {"in", "out", "unknown"}
            /\ <<q, d>> # <<p, c>> => told'[<<q, d>>] \in {told[<<q, d>>], "unknown"}
            /\ <<q, d>> = <<p, c>> => told'[<<q, d>>] \in {IF k.op = "attach" THEN "in" ELSE "out", "unknown"}
    BY <1>3, <1>6, <1>11
  <2>3. \A q \in ProviderNames, d \in AppClients : AttachOK(q, d)'
    BY <1>9, <2>2
  <2>4. FedTypes'
    <3>1. calls' \in [FedCallers -> FedCalls \cup {FedIdle}]
      BY <1>6, <2>1
    <3>2. clients' \in [AppClients -> SUBSET ProviderNames]
      BY <1>5, <1>6
    <3>3. told' \in [ProviderNames \X AppClients -> {"in", "out", "unknown"}]
      BY <1>6, <1>11
    <3> QED  BY <1>5, <3>1, <3>2, <3>3 DEF FedInv, FedTypes
  <2>5. CallOK(FedIdle)'
    BY DEF CallOK
  <2> QED  BY <1>1, <1>5, <1>8, <2>1, <2>3, <2>4, <2>5, ManagerMoves
<1> QED  BY <1>1, <1>2, <1>10, <1>11 DEF UpdateClient, Forget

LEMMA FinishKeeps ==
    ASSUME NamesApart, FedInv, NEW x \in FedCallers, FedFinish(x)
    PROVE  FedInv'
<1>1. PICK k \in FedCalls : k = calls[x] /\ InManager(x) /\ k.tenant \in TenantIds
  <2>1. FedAt(x, "describeClient")
    BY DEF FedFinish
  <2>2. /\ calls[x] \in FedCalls /\ StepOK(calls[x]) /\ calls[x].step = "describeClient"
        /\ calls[x].op \in ManagerOps => InManager(x)
    BY <2>1, AtStep
  <2> QED  BY <2>2 DEF StepOK, ManagerOps, FedCalls
<1>2. PICK p \in ProviderNames : p = NormaliseIdpName(k.tenant) /\ p = Name(x)
  BY <1>1, NamesTyped DEF Name
<1>3. calls' = [calls EXCEPT ![x] = FedIdle] /\ UNCHANGED <<secrets, clients, minted>>
  BY DEF FedFinish, Return
<1>4. CallOK(FedIdle) /\ CallOK(FedIdle)'
  BY DEF CallOK
<1>5. CASE UNCHANGED <<idps, pins, told>>
  BY <1>1, <1>3, <1>4, <1>5, OnlyCall
<1>6. CASE /\ idps' = [idps EXCEPT ![p] = NoIdp]
           /\ \/ pins' = [pins EXCEPT ![k.tenant] = 0] /\ told' = told
              \/ /\ pins' = pins
                 /\ told' = [pc \in DOMAIN told |->
                               IF pc[1] = p /\ pc[2] \in k.ids THEN "unknown" ELSE told[pc]]
  <2>1. NoIdp \in FedIdps /\ NoIdp.type = "none"
    BY DEF NoIdp, FedIdps
  <2>2. FedTypes'
    <3>1. calls' \in [FedCallers -> FedCalls \cup {FedIdle}]
      BY <1>3 DEF FedInv, FedTypes
    <3>2. idps' \in [ProviderNames -> FedIdps] /\ pins' \in [TenantIds -> Nat]
      BY <1>6, <2>1 DEF FedInv, FedTypes
    <3>3. told' \in [ProviderNames \X AppClients -> {"in", "out", "unknown"}]
      BY <1>6 DEF FedInv, FedTypes
    <3> QED  BY <1>3, <3>1, <3>2, <3>3 DEF FedInv, FedTypes
  <2>3. ASSUME NEW t \in TenantIds PROVE PinOK(t)'
    <3>1. CASE t = k.tenant
      <4>1. pins'[t] \in {0, pins[t]} /\ idps'[NormaliseIdpName(t)].type = "none"
        BY <1>2, <1>6, <2>1, <3>1 DEF FedInv, FedTypes
      <4>2. minted \in Nat /\ secrets[SecretName(t)].version \in Nat
        BY NamesTyped DEF FedInv, FedTypes
      <4>3. VersionOK(t, pins[t])
        BY DEF FedInv, PinOK
      <4> QED  BY <1>3, <4>1, <4>2, <4>3 DEF PinOK, VersionOK
    <3>2. CASE t # k.tenant
      <4>1. NormaliseIdpName(t) # p
        BY <1>1, <1>2, <3>2 DEF NamesApart
      <4>2. idps'[NormaliseIdpName(t)] = idps[NormaliseIdpName(t)] /\ pins'[t] = pins[t]
        BY <1>6, <3>2, <4>1, NamesTyped DEF FedInv, FedTypes
      <4> QED  BY <1>3, <4>2 DEF FedInv, PinOK, VersionOK
    <3> QED  BY <3>1, <3>2
  <2>4. ASSUME NEW q \in ProviderNames, NEW c \in AppClients PROVE AttachOK(q, c)'
    <3>1. told'[<<q, c>>] \in {told[<<q, c>>], "unknown"}
      BY <1>6 DEF FedInv, FedTypes
    <3> QED  BY <1>3, <3>1 DEF FedInv, AttachOK
  <2> QED  BY <1>1, <1>3, <1>4, <2>2, <2>3, <2>4, ManagerMoves
<1> QED  BY <1>1, <1>2, <1>5, <1>6 DEF FedFinish, Forget

-----------------------------------------------------------------------------
LEMMA FedInvInit ==
    ASSUME FedInit
    PROVE  FedInv
<1>1. NoIdp \in FedIdps /\ NoIdp.type = "none"
  BY DEF NoIdp, FedIdps
<1>2. FedTypes
  BY <1>1 DEF FedInit, FedTypes
<1>3. \A t \in TenantIds : PinOK(t)
  BY <1>1, NamesTyped DEF FedInit, PinOK, VersionOK
<1>4. \A p \in ProviderNames, c \in AppClients : AttachOK(p, c)
  BY DEF FedInit, AttachOK
<1>5. \A x \in FedCallers : CallOK(calls[x]) /\ ~InManager(x)
  BY DEF FedInit, CallOK, InManager
<1> QED  BY <1>2, <1>3, <1>4, <1>5 DEF FedInv

LEMMA FedInvStep ==
    ASSUME Serialised, NamesApart, FedInv, [FedNext]_fedVars
    PROVE  FedInv'
<1>1. ASSUME NEW x \in FedCallers, FedStep(x)
      PROVE  FedInv'
  BY <1>1, StoreKeeps, ScheduleKeeps, ReadKeeps, WriteKeeps, FinishKeeps, DescribeClientKeeps,
     UpdateClientKeeps DEF FedStep
<1>2. CASE UNCHANGED fedVars
  BY <1>2 DEF fedVars, FedInv, FedTypes, PinOK, VersionOK, AttachOK, CallOK, StepOK, ReadOK, ListOK,
              InManager
<1> QED  BY <1>1, <1>2, CallKeeps, FailKeeps, PurgeKeeps DEF FedNext

LEMMA FedInvTells ==
    ASSUME FedInv
    PROVE  ToldIsTrue
<1>1. ASSUME NEW t \in TenantIds, pins[t] # 0, pins[t] = secrets[SecretName(t)].version,
             idps[NormaliseIdpName(t)].type = "oidc"
      PROVE  idps[NormaliseIdpName(t)].version = secrets[SecretName(t)].version
  <2>1. PinOK(t)
    BY DEF FedInv
  <2>2. /\ idps[NormaliseIdpName(t)].version \in Nat /\ pins[t] \in Nat
    BY NamesTyped DEF FedInv, FedTypes, FedIdps
  <2> QED  BY <1>1, <2>1, <2>2 DEF PinOK, VersionOK
<1>2. PinTellsDrift
  BY <1>1 DEF PinTellsDrift
<1>3. AttachmentsAsTold
  BY DEF AttachmentsAsTold, FedInv, AttachOK
<1> QED  BY <1>2, <1>3 DEF ToldIsTrue

\* While the consumer makes one manager call at a time and no two tenants' names
\* collide, what the identity-provider managers' answers tell it stays true.
THEOREM ToldStaysTrue == Serialised /\ NamesApart /\ FedSpec => []ToldIsTrue
<1>1. SUFFICES ASSUME Serialised, NamesApart PROVE FedSpec => []ToldIsTrue
  OBVIOUS
<1>2. FedInv /\ [FedNext]_fedVars => FedInv'
  BY <1>1, FedInvStep
<1> QED  BY <1>2, FedInvInit, FedInvTells, PTL DEF FedSpec

-----------------------------------------------------------------------------
(* Types need no serialised calls. *)

\* One call moves on or ends.
LEMMA CallTyped ==
    ASSUME FedTypes, NEW x \in FedCallers, NEW step, FedAt(x, step)
    PROVE  /\ calls[x] \in FedCalls /\ calls[x].op \in Ops /\ calls[x].tenant \in TenantIds
           /\ calls[x].version \in Nat /\ calls[x].seen \in SUBSET ProviderNames
           /\ Name(x) = NormaliseIdpName(calls[x].tenant) /\ Name(x) \in ProviderNames
           /\ Secret(x) \in SecretNames
           /\ secrets[Secret(x)].version \in Nat
           /\ \A s \in FedSteps : GoTo(x, s) => calls' \in [FedCallers -> FedCalls \cup {FedIdle}]
           /\ Return(x) => calls' \in [FedCallers -> FedCalls \cup {FedIdle}]
<1>1. PICK k \in FedCalls : k = calls[x]
  BY DEF FedTypes, FedAt
<1>2. /\ k.op \in Ops /\ k.tenant \in TenantIds /\ k.version \in Nat
      /\ k.seen \in SUBSET ProviderNames
      /\ \A s \in FedSteps : [k EXCEPT !.step = s] \in FedCalls
  BY DEF FedCalls
<1>3. /\ Name(x) = NormaliseIdpName(k.tenant) /\ Name(x) \in ProviderNames
      /\ Secret(x) \in SecretNames
  BY <1>1, <1>2, NamesTyped DEF Name, Secret
<1>4. secrets[Secret(x)].version \in Nat
  BY <1>3 DEF FedTypes
<1>5. ASSUME NEW s \in FedSteps, GoTo(x, s)
      PROVE  calls' \in [FedCallers -> FedCalls \cup {FedIdle}]
  <2>1. calls' = [calls EXCEPT ![x] = [k EXCEPT !.step = s]]
    BY <1>1, <1>5 DEF GoTo
  <2> QED  BY <1>2, <2>1 DEF FedTypes
<1>6. Return(x) => calls' \in [FedCallers -> FedCalls \cup {FedIdle}]
  BY DEF Return, FedTypes
<1> QED  BY <1>1, <1>2, <1>3, <1>4, <1>5, <1>6

LEMMA SecretStepTyped ==
    ASSUME FedTypes, NEW x \in FedCallers, Store(x) \/ ScheduleDeletion(x)
    PROVE  FedTypes'
<1> DEFINE Table == [SecretNames -> [version : Nat, deleting : BOOLEAN]]
<1>1. /\ secrets \in Table /\ minted \in Nat
      /\ \A n \in SecretNames : secrets[n].version \in Nat /\ secrets[n].version <= minted
  BY DEF FedTypes
<1>2. Secret(x) \in SecretNames /\ calls' \in [FedCallers -> FedCalls \cup {FedIdle}]
  <2>1. FedAt(x, "create") \/ FedAt(x, "put") \/ FedAt(x, "schedule")
    BY DEF Store, ScheduleDeletion
  <2>2. GoTo(x, "put") \/ Return(x)
    BY DEF Store, ScheduleDeletion
  <2> QED  BY <2>1, <2>2, CallTyped DEF FedSteps
<1>3. \/ secrets' = secrets /\ minted' = minted
      \/ secrets' = [secrets EXCEPT ![Secret(x)].version = minted + 1] /\ minted' = minted + 1
      \/ /\ secrets' = [secrets EXCEPT ![Secret(x)].deleting = secrets[Secret(x)].version # 0]
         /\ minted' = minted
  BY DEF Store, ScheduleDeletion
<1>4. secrets' \in Table /\ minted' \in Nat
  <2>1. CASE secrets' = [secrets EXCEPT ![Secret(x)].version = minted + 1] /\ minted' = minted + 1
    BY <1>1, <1>2, <2>1
  <2>2. CASE /\ secrets' = [secrets EXCEPT ![Secret(x)].deleting = secrets[Secret(x)].version # 0]
             /\ minted' = minted
    BY <1>1, <1>2, <2>2
  <2> QED  BY <1>1, <1>3, <2>1, <2>2
<1>5. \A n \in SecretNames : secrets'[n].version <= minted'
  <2>1. CASE secrets' = secrets /\ minted' = minted
    BY <1>1, <2>1
  <2>2. CASE secrets' = [secrets EXCEPT ![Secret(x)].version = minted + 1] /\ minted' = minted + 1
    <3>1. \A n \in SecretNames : secrets'[n].version \in {secrets[n].version, minted + 1}
      BY <1>1, <1>2, <2>2
    <3> QED  BY <1>1, <2>2, <3>1
  <2>3. CASE /\ secrets' = [secrets EXCEPT ![Secret(x)].deleting = secrets[Secret(x)].version # 0]
             /\ minted' = minted
    <3>1. \A n \in SecretNames : secrets'[n].version = secrets[n].version
      BY <1>1, <1>2, <2>3
    <3> QED  BY <1>1, <2>3, <3>1
  <2> QED  BY <1>3, <2>1, <2>2, <2>3
<1> QED  BY <1>2, <1>4, <1>5 DEF FedTypes, Store, ScheduleDeletion

LEMMA FedTypesStep ==
    ASSUME FedTypes, [FedNext]_fedVars
    PROVE  FedTypes'
<1>1. ASSUME NEW x \in FedCallers, Store(x) \/ ScheduleDeletion(x)
      PROVE  FedTypes'
  BY <1>1, SecretStepTyped
<1>2. ASSUME NEW x \in FedCallers, GetSecretValue(x) \/ VetMetadata(x) \/ DescribeExisting(x)
      PROVE  FedTypes'
  <2>1. FedAt(x, "read") \/ FedAt(x, "parse") \/ FedAt(x, "describe")
    BY <1>2 DEF GetSecretValue, VetMetadata, DescribeExisting
  <2>2. PICK k \in FedCalls : k = calls[x]
    BY <2>1, CallTyped
  <2>3. PICK v \in Nat : v = secrets[Secret(x)].version
    BY <2>1, CallTyped
  <2>4. [k EXCEPT !.version = v, !.step = "describe"] \in FedCalls
    BY DEF FedCalls, FedSteps
  <2>5. calls' \in [FedCallers -> FedCalls \cup {FedIdle}]
    <3>1. CASE GetSecretValue(x)
      <4>1. calls' = [calls EXCEPT ![x] = [k EXCEPT !.version = v, !.step = "describe"]]
        BY <2>2, <2>3, <3>1 DEF GetSecretValue
      <4> QED  BY <2>4, <4>1 DEF FedTypes
    <3>2. CASE VetMetadata(x) \/ DescribeExisting(x)
      <4>1. \E s \in FedSteps : GoTo(x, s)
        BY <3>2 DEF VetMetadata, DescribeExisting, FedSteps
      <4> QED  BY <2>1, <4>1, CallTyped
    <3> QED  BY <1>2, <3>1, <3>2
  <2>6. UNCHANGED <<secrets, idps, clients, minted, made, pins, told>>
    BY <1>2 DEF GetSecretValue, VetMetadata, DescribeExisting
  <2> QED  BY <2>5, <2>6 DEF FedTypes
<1>3. ASSUME NEW x \in FedCallers, WriteIdp(x)
      PROVE  FedTypes'
  <2>1. FedAt(x, "createIdp") \/ FedAt(x, "updateIdp")
    BY <1>3 DEF WriteIdp
  <2>2. /\ calls[x].op \in Ops /\ calls[x].tenant \in TenantIds /\ calls[x].version \in Nat
        /\ Name(x) = NormaliseIdpName(calls[x].tenant) /\ Name(x) \in ProviderNames
        /\ Return(x) => calls' \in [FedCallers -> FedCalls \cup {FedIdle}]
    BY <2>1, CallTyped
  <2>3. PICK g \in FedIdps : g = Registration(x) /\ g.tenant = calls[x].tenant
    <3>1. PICK op \in Ops, t \in TenantIds, v \in Nat :
            op = calls[x].op /\ t = calls[x].tenant /\ v = calls[x].version
      BY <2>2
    <3>2. [type |-> op, tenant |-> t, version |-> v] \in FedIdps
      BY DEF FedIdps
    <3> QED  BY <3>1, <3>2 DEF Registration
  <2>4. /\ idps' = [idps EXCEPT ![Name(x)] = g] /\ Return(x)
        /\ pins' = [pins EXCEPT ![calls[x].tenant] = calls[x].version] \/ pins' = pins
        /\ UNCHANGED <<secrets, clients, minted, told>>
    BY <1>3, <2>3 DEF WriteIdp, PinnedVersion
  <2>5. idps' \in [ProviderNames -> FedIdps] /\ pins' \in [TenantIds -> Nat]
    BY <2>2, <2>4 DEF FedTypes
  <2> QED  BY <2>2, <2>4, <2>5 DEF FedTypes
<1>4. ASSUME NEW x \in FedCallers, FedFinish(x)
      PROVE  FedTypes'
  <2>1. FedAt(x, "describeClient") /\ Return(x) /\ UNCHANGED <<secrets, clients, minted>>
    BY <1>4 DEF FedFinish
  <2>2. calls[x].tenant \in TenantIds /\ calls' \in [FedCallers -> FedCalls \cup {FedIdle}]
    BY <2>1, CallTyped
  <2>3. NoIdp \in FedIdps
    BY DEF NoIdp, FedIdps
  <2>4. /\ idps' = idps \/ idps' = [idps EXCEPT ![Name(x)] = NoIdp]
        /\ pins' = pins \/ pins' = [pins EXCEPT ![calls[x].tenant] = 0]
        /\ \/ told' = told
           \/ told' = [pc \in DOMAIN told |->
                         IF pc[1] = Name(x) /\ pc[2] \in calls[x].ids THEN "unknown" ELSE told[pc]]
    BY <1>4 DEF FedFinish, Forget
  <2>5. idps' \in [ProviderNames -> FedIdps] /\ pins' \in [TenantIds -> Nat]
    BY <2>3, <2>4 DEF FedTypes
  <2>6. told' \in [ProviderNames \X AppClients -> {"in", "out", "unknown"}]
    BY <2>4 DEF FedTypes
  <2> QED  BY <2>1, <2>2, <2>5, <2>6 DEF FedTypes
<1>5. ASSUME NEW x \in FedCallers, NEW c \in AppClients, DescribeClient(x, c)
      PROVE  FedTypes'
  <2>1. FedAt(x, "describeClient")
    BY <1>5 DEF DescribeClient
  <2>2. PICK k \in FedCalls : k = calls[x]
    BY <2>1, CallTyped
  <2>3. Name(x) \in ProviderNames
    BY <2>1, CallTyped
  <2>4. PICK list \in SUBSET ProviderNames : list = clients[c]
    BY DEF FedTypes
  <2>5. PICK step \in {"describeClient", "updateClient"} :
          calls' = [calls EXCEPT ![x] = [@ EXCEPT !.seen = clients[c], !.todo = calls[x].todo \ {c},
                                                  !.on = {c}, !.step = step]]
    BY <1>5 DEF DescribeClient
  <2>6. [k EXCEPT !.seen = list, !.todo = k.todo \ {c}, !.on = {c}, !.step = step] \in FedCalls
    BY DEF FedCalls, FedSteps
  <2>7. calls' \in [FedCallers -> FedCalls \cup {FedIdle}]
    <3>1. calls' = [calls EXCEPT ![x] =
             [k EXCEPT !.seen = list, !.todo = k.todo \ {c}, !.on = {c}, !.step = step]]
      BY <2>2, <2>4, <2>5
    <3> QED  BY <2>6, <3>1 DEF FedTypes
  <2>8. told' = told \/ \E s \in {"in", "out"} : told' = [told EXCEPT ![<<Name(x), c>>] = s]
    BY <1>5 DEF DescribeClient
  <2>9. told' \in [ProviderNames \X AppClients -> {"in", "out", "unknown"}]
    BY <2>8 DEF FedTypes
  <2>10. UNCHANGED <<secrets, idps, clients, minted, made, pins>>
    BY <1>5 DEF DescribeClient
  <2> QED  BY <2>7, <2>9, <2>10 DEF FedTypes
<1>6. ASSUME NEW x \in FedCallers, NEW c \in AppClients, UpdateClient(x, c)
      PROVE  FedTypes'
  <2>1. FedAt(x, "updateClient")
    BY <1>6 DEF UpdateClient
  <2>2. NewProviders(x) \in SUBSET ProviderNames
    BY <2>1, CallTyped DEF NewProviders
  <2>3. clients' \in [AppClients -> SUBSET ProviderNames]
    BY <1>6, <2>2 DEF FedTypes, UpdateClient
  <2>4. calls' \in [FedCallers -> FedCalls \cup {FedIdle}]
    <3>1. GoTo(x, "describeClient") \/ Return(x)
      BY <1>6 DEF UpdateClient
    <3> QED  BY <2>1, <3>1, CallTyped DEF FedSteps
  <2>5. told' \in [ProviderNames \X AppClients -> {"in", "out", "unknown"}]
    <3>1. \/ \E s \in {"in", "out"} : told' = [told EXCEPT ![<<Name(x), c>>] = s]
          \/ told' = [pc \in DOMAIN told |->
                         IF pc[1] = Name(x) /\ pc[2] \in calls[x].ids THEN "unknown" ELSE told[pc]]
      BY <1>6 DEF UpdateClient, Forget
    <3> QED  BY <3>1 DEF FedTypes
  <2>6. UNCHANGED <<secrets, idps, minted, made, pins>>
    BY <1>6 DEF UpdateClient
  <2> QED  BY <2>3, <2>4, <2>5, <2>6 DEF FedTypes
<1>7. ASSUME NEW x \in FedCallers, Fail(x)
      PROVE  FedTypes'
  <2>1. /\ calls' = [calls EXCEPT ![x] = FedIdle]
        /\ told' = [pc \in DOMAIN told |->
              IF pc[1] = Name(x) /\ pc[2] \in calls[x].ids THEN "unknown" ELSE told[pc]]
        /\ UNCHANGED <<secrets, idps, clients, minted, pins>>
    BY <1>7 DEF Fail, Return, Forget
  <2>2. told' \in [ProviderNames \X AppClients -> {"in", "out", "unknown"}]
    BY <2>1 DEF FedTypes
  <2> QED  BY <2>1, <2>2 DEF FedTypes
<1>8. ASSUME NEW x \in FedCallers, NEW op \in Ops, NEW t \in TenantIds,
             NEW ids \in SUBSET AppClients, Call(x, op, t, ids)
      PROVE  FedTypes'
  <2>1. FirstStep(op) \in FedSteps
    BY DEF FirstStep, Ops, ManagerOps, FedSteps
  <2>2. [op |-> op, tenant |-> t, step |-> FirstStep(op), version |-> 0, ids |-> ids,
         todo |-> ids, on |-> {}, seen |-> {}] \in FedCalls
    BY <2>1 DEF FedCalls
  <2>3. calls' \in [FedCallers -> FedCalls \cup {FedIdle}]
    BY <1>8, <2>2 DEF Call, FedTypes
  <2> QED  BY <1>8, <2>3 DEF FedTypes, Call
<1>9. ASSUME NEW n \in SecretNames, Purge(n)
      PROVE  FedTypes'
  <2>1. /\ secrets' = [secrets EXCEPT ![n] = [version |-> 0, deleting |-> FALSE]]
        /\ UNCHANGED <<idps, clients, calls, minted, pins, told>>
    BY <1>9 DEF Purge
  <2>2. /\ secrets' \in [SecretNames -> [version : Nat, deleting : BOOLEAN]]
        /\ \A m \in SecretNames : secrets'[m].version <= minted
    BY <2>1 DEF FedTypes
  <2> QED  BY <2>1, <2>2 DEF FedTypes
<1>10. CASE UNCHANGED fedVars
  BY <1>10 DEF fedVars, FedTypes
<1> QED
  BY <1>1, <1>2, <1>3, <1>4, <1>5, <1>6, <1>7, <1>8, <1>9, <1>10 DEF FedNext, FedStep

\* The state of the managers, of Secrets Manager and of Cognito keeps its type,
\* and no secret has a version that was not made.
THEOREM FedTypeCorrect == FedSpec => []FedTypes
<1>1. NoIdp \in FedIdps
  BY DEF NoIdp, FedIdps
<1>2. FedInit => FedTypes
  BY <1>1 DEF FedInit, FedTypes
<1> QED  BY <1>2, FedTypesStep, PTL DEF FedSpec

------------------------------------------------------------------------------

(* Tokens.  minting never changes, so what is known of it initially is known   *)
(* for good, and a token is minted in one step.                                *)

MintingOK ==
    /\ minting.hook = "wrapped" => minting.pool = "v1"
    /\ minting.hook = "plain" =>
         /\ minting.pool \in {"v1", "v2"}
         /\ (minting.event.scopes <=> minting.pool = "v2")
         /\ minting.event.response.v2 = NotGiven

ClaimsInv == MintingOK /\ HooksFailClosed

LEMMA Verdicts ==
    /\ Failed.threw
    /\ \A response : ~Answered(response).threw /\ Answered(response).response = response
  BY DEF Failed, Answered

LEMMA ClaimsInvInit == ClaimsInit => ClaimsInv
<1> SUFFICES ASSUME ClaimsInit PROVE ClaimsInv
  OBVIOUS
<1>1. PICK pool \in Pools :
        minting \in [hook : {"wrapped"}, pool : {"v1"}, event : Events("v1"), row : Rows, act : InnerActs]
                    \cup [hook : {"plain"}, pool : {pool}, event : Events(pool), row : {NoRowFound},
                          act : {"resolver", "reserved", "throws"}]
  BY DEF ClaimsInit
<1>2. ASSUME minting \in [hook : {"wrapped"}, pool : {"v1"}, event : Events("v1"), row : Rows, act : InnerActs]
      PROVE  MintingOK
  <2>1. minting.hook = "wrapped" /\ minting.pool = "v1"
    BY <1>2
  <2> QED  BY <2>1 DEF MintingOK
<1>3. ASSUME minting \in [hook : {"plain"}, pool : {pool}, event : Events(pool), row : {NoRowFound},
                          act : {"resolver", "reserved", "throws"}]
      PROVE  MintingOK
  <2>1. minting.hook = "plain" /\ minting.pool = pool /\ minting.event \in Events(pool)
    BY <1>3
  <2>2. PICK e : e = minting.event /\ e \in Events(pool)
    BY <2>1
  <2>3. PICK scoped \in BOOLEAN : scoped = (pool = "v2")
    OBVIOUS
  <2>4. PICK D : D = {NotGiven, <<NoDetails>>, <<[NoDetails EXCEPT !.suppress = {TenantId}]>>,
                      <<[NoDetails EXCEPT !.set = Merged(NoClaims, TenantId, "other")]>>}
    OBVIOUS
  <2>5. PICK R : R = {[v1 |-> d, v2 |-> NotGiven] : d \in D}
    OBVIOUS
  <2>6. e \in [scopes : {scoped}, user : Accounts, response : R]
    BY <2>2, <2>3, <2>4, <2>5, Zenon DEF Events
  <2>7. e.scopes = scoped /\ e.response \in R
    BY <2>6
  <2>8. e.response.v2 = NotGiven
    BY <2>5, <2>7
  <2>9. pool \in {"v1", "v2"}
    BY ClaimsAssumption
  <2>10. e.scopes <=> pool = "v2"
    BY <2>3, <2>7
  <2> QED  BY <2>1, <2>2, <2>8, <2>9, <2>10 DEF MintingOK
<1>4. claimsOut.state = "none" /\ account.shown = "nothing"
  BY DEF ClaimsInit
<1> QED  BY <1>1, <1>2, <1>3, <1>4
            DEF ClaimsInv, HooksFailClosed, NotSilentlyHalfCreated, TokenNamesItsTenant,
                TokenCarriesResolved

\* wrapPreTokenHandler answers only with a response that names the tenant.
LEMMA WrapKeepsTenant ==
    ASSUME NEW event, NEW tenant, NEW act, ~WrapPreTokenHandler(event, tenant, act).threw
    PROVE  Kept(Details(WrapPreTokenHandler(event, tenant, act).response), tenant)
<1>1. WrapPreTokenHandler(event, tenant, act) # Failed
  BY Verdicts
<1>2. PICK result : result = Inner(act, [event EXCEPT !.response = PreSet(@, tenant)])
  OBVIOUS
<1>3. /\ Kept(Details(result.response), tenant)
      /\ WrapPreTokenHandler(event, tenant, act) = result
  BY <1>1, <1>2 DEF WrapPreTokenHandler
<1> QED  BY <1>3

LEMMA KeptIsMinted ==
    ASSUME NEW d, NEW tenant, Kept(d, tenant)
    PROVE  TenantId \in DOMAIN MintedClaims(d) /\ MintedClaims(d)[TenantId] = tenant
  BY DEF Kept, MintedClaims, Restrict

\* With nothing suppressed, the token has the claims that were set.
LEMMA AllIsMinted ==
    ASSUME NEW d, NEW claims, d.set = StringifyClaimValues(claims), d.suppress = {}
    PROVE  MintedClaims(d) = StringifyClaimValues(claims) /\ DOMAIN MintedClaims(d) = DOMAIN claims
  BY DEF MintedClaims, Restrict, StringifyClaimValues

\* createPreTokenGenerationHandler's answer, as the pool that sent the event
\* reads it.
LEMMA PlainIsMinted ==
    ASSUME NEW event, NEW out, NEW p \in {"v1", "v2"}, event.scopes <=> p = "v2",
           event.response.v2 = NotGiven, out.suppress = {},
           ~PreTokenHandler(event, out).threw
    PROVE  LET d == MintedDetails(p, PreTokenHandler(event, out).response)
           IN  /\ MintedClaims(d) = StringifyClaimValues(out.set)
               /\ DOMAIN MintedClaims(d) \cap ReservedClaims = {}
               /\ d.groups = GroupOverride(out)
<1>1. /\ ~(\E n \in DOMAIN out.set : IsReservedClaim(n))
      /\ PreTokenHandler(event, out)
           = Answered(IF DetectPreTokenEventVersion(event) = "v2"
                      THEN ApplyV2Response(out) ELSE ApplyV1Response(out))
  <2>1. PreTokenHandler(event, out) # Failed
    BY Verdicts
  <2> QED  BY <2>1 DEF PreTokenHandler
<1>2. DetectPreTokenEventVersion(event) = p
  BY DEF DetectPreTokenEventVersion
<1>3. PICK response : /\ response = IF p = "v2" THEN ApplyV2Response(out) ELSE ApplyV1Response(out)
                      /\ PreTokenHandler(event, out).response = response
  BY <1>1, <1>2, Verdicts
<1>4. PICK claims, groups : claims = StringifyClaimValues(out.set) /\ groups = GroupOverride(out)
  OBVIOUS
<1>5. PICK d : d = MintedDetails(p, response)
  OBVIOUS
<1>6. d.set = claims /\ d.suppress = {} /\ d.groups = groups
  <2>1. CASE p = "v1"
    <3>1. response = [v1 |-> <<[set |-> claims, suppress |-> {}, groups |-> groups]>>, v2 |-> NotGiven]
      BY <1>3, <1>4, <2>1 DEF ApplyV1Response
    <3>2. response.v1 # NotGiven /\ response.v1[1] = [set |-> claims, suppress |-> {}, groups |-> groups]
      BY <3>1 DEF NotGiven
    <3>3. d = [set |-> claims, suppress |-> {}, groups |-> groups]
      BY <1>5, <2>1, <3>2 DEF MintedDetails, Details
    <3> QED  BY <3>3
  <2>2. CASE p = "v2"
    <3>1. PICK c : c = [set |-> claims, suppress |-> {}]
      OBVIOUS
    <3>2. PICK part : part = [id |-> c, access |-> c, addScopes |-> out.scopes, groups |-> groups]
      OBVIOUS
    <3>3. response = [v1 |-> NotGiven, v2 |-> <<part>>]
      BY <1>3, <1>4, <2>2, <3>1, <3>2 DEF ApplyV2Response
    <3>4. response.v2 # NotGiven /\ response.v2[1] = part
      BY <3>3 DEF NotGiven
    <3>5. d = [set |-> part.id.set, suppress |-> part.id.suppress, groups |-> part.groups]
      BY <1>5, <2>2, <3>4 DEF MintedDetails
    <3>6. part.id = c /\ part.groups = groups
      BY <3>2
    <3> QED  BY <3>1, <3>5, <3>6
  <2> QED  BY <2>1, <2>2
<1>7. MintedClaims(d) = StringifyClaimValues(out.set) /\ DOMAIN MintedClaims(d) = DOMAIN out.set
  BY <1>4, <1>6, AllIsMinted
<1>8. DOMAIN out.set \cap ReservedClaims = {}
  BY <1>1 DEF IsReservedClaim
<1> QED  BY <1>3, <1>4, <1>5, <1>6, <1>7, <1>8

LEMMA ConfirmKeeps ==
    ASSUME ClaimsInv, NEW provision, NEW onError, Confirm(provision, onError) \/ AdminCreateUser
    PROVE  ClaimsInv'
<1>1. UNCHANGED <<minting, claimsOut>>
  BY DEF Confirm, AdminCreateUser
<1>2. NotSilentlyHalfCreated'
  <2>1. CASE AdminCreateUser
    BY <2>1 DEF AdminCreateUser, NotSilentlyHalfCreated, ClaimsInv, HooksFailClosed
  <2>2. CASE Confirm(provision, onError) /\ provision = "throws"
    <3>1. PostConfirmationHandler(provision, onError).threw
      BY <2>2, Verdicts DEF PostConfirmationHandler
    <3>2. \E state \in {"unconfirmed", "confirmed"} :
             account' = [account EXCEPT !.state = state, !.shown = "error"]
      BY <2>2, <3>1 DEF Confirm
    <3> QED  BY <3>2 DEF NotSilentlyHalfCreated, ClaimsInv, HooksFailClosed
  <2>3. CASE Confirm(provision, onError) /\ provision # "throws"
    <3>1. ~PostConfirmationHandler(provision, onError).threw
      BY <2>3, Verdicts DEF PostConfirmationHandler
    <3>2. PICK works \in BOOLEAN : works = (provision # "throws")
      OBVIOUS
    <3>3. account' = [state |-> "confirmed", provisioned |-> works, shown |-> "success"]
      BY <2>3, <3>1, <3>2 DEF Confirm
    <3>4. works
      BY <2>3, <3>2
    <3> QED  BY <3>3, <3>4 DEF NotSilentlyHalfCreated
  <2> QED  BY <2>1, <2>2, <2>3
<1> QED  BY <1>1, <1>2 DEF ClaimsInv, MintingOK, HooksFailClosed, TokenNamesItsTenant,
                            TokenCarriesResolved

LEMMA MintKeeps == ASSUME ClaimsInv, Mint PROVE ClaimsInv'
<1>1. /\ claimsOut.state = "none" /\ UNCHANGED <<minting, account>>
      /\ NotSilentlyHalfCreated /\ MintingOK
  BY DEF Mint, ClaimsInv, HooksFailClosed
<1>2. PICK out : out = Resolved(minting.event, minting.act)
  OBVIOUS
<1>3. PICK r : /\ r = IF minting.hook = "plain" THEN PreTokenHandler(minting.event, out)
                      ELSE WrapPreTokenHandler(minting.event, minting.row, minting.act)
               /\ claimsOut' =
                    IF r.threw THEN [claimsOut EXCEPT !.state = "refused"]
                    ELSE [state |-> "minted",
                          claims |-> MintedClaims(MintedDetails(minting.pool, r.response)),
                          groups |-> MintedDetails(minting.pool, r.response).groups]
  BY <1>2 DEF Mint
<1>4. CASE r.threw
  <2>1. claimsOut'.state # "minted"
    BY <1>1, <1>3, <1>4
  <2> QED  BY <1>1, <2>1 DEF ClaimsInv, MintingOK, HooksFailClosed, NotSilentlyHalfCreated,
                              TokenNamesItsTenant, TokenCarriesResolved
<1>5. CASE ~r.threw
  <2>1. PICK d : d = MintedDetails(minting.pool, r.response)
    OBVIOUS
  <2>2. claimsOut'.claims = MintedClaims(d) /\ claimsOut'.groups = d.groups
    BY <1>3, <1>5, <2>1
  <2>3. TokenNamesItsTenant'
    <3> SUFFICES ASSUME minting.hook = "wrapped"
                 PROVE  TenantId \in DOMAIN MintedClaims(d) /\ MintedClaims(d)[TenantId] = minting.row
      BY <1>1, <2>2 DEF TokenNamesItsTenant
    <3>1. d = Details(r.response)
      BY <1>1, <2>1 DEF MintingOK, MintedDetails
    <3>2. r = WrapPreTokenHandler(minting.event, minting.row, minting.act)
      BY <1>3
    <3>3. Kept(d, minting.row)
      BY <1>5, <3>1, <3>2, WrapKeepsTenant
    <3> QED  BY <3>3, KeptIsMinted
  <2>4. TokenCarriesResolved'
    <3> SUFFICES ASSUME minting.hook = "plain"
                 PROVE  /\ MintedClaims(d) = StringifyClaimValues(out.set)
                        /\ DOMAIN MintedClaims(d) \cap ReservedClaims = {}
                        /\ d.groups = GroupOverride(out)
      BY <1>1, <1>2, <2>2 DEF TokenCarriesResolved, GroupOverride
    <3>1. r = PreTokenHandler(minting.event, out)
      BY <1>3
    <3>2. out.suppress = {}
      BY <1>2 DEF Resolved
    <3>3. PICK p \in {"v1", "v2"} :
            /\ p = minting.pool
            /\ (minting.event.scopes <=> p = "v2") /\ minting.event.response.v2 = NotGiven
      BY <1>1 DEF MintingOK
    <3> QED  BY <1>5, <2>1, <3>1, <3>2, <3>3, PlainIsMinted
  <2> QED  BY <1>1, <2>3, <2>4 DEF ClaimsInv, MintingOK, HooksFailClosed, NotSilentlyHalfCreated
<1> QED  BY <1>4, <1>5

\* Whatever a consumer's handler does, a token of the shared pool names the
\* tenant of its client's row, one of a pool of its own says what the resolver
\* decided, and no user is shown a success whose account was not provisioned.
THEOREM HooksHold == ClaimsSpec => []HooksFailClosed
<1>1. ClaimsInv /\ [ClaimsNext]_claimVars => ClaimsInv'
  <2> SUFFICES ASSUME ClaimsInv, [ClaimsNext]_claimVars PROVE ClaimsInv'
    OBVIOUS
  <2>1. CASE UNCHANGED claimVars
    BY <2>1 DEF claimVars, ClaimsInv, MintingOK, HooksFailClosed, NotSilentlyHalfCreated,
       TokenNamesItsTenant, TokenCarriesResolved
  <2>2. CASE ClaimsNext
    BY <2>2, ConfirmKeeps, MintKeeps DEF ClaimsNext
  <2> QED  BY <2>1, <2>2
<1>2. ClaimsInv => HooksFailClosed
  BY DEF ClaimsInv
<1> QED  BY <1>1, <1>2, ClaimsInvInit, PTL DEF ClaimsSpec

------------------------------------------------------------------------------

(* The identity stack.  A stack that rests, after a deployment or a rollback,  *)
(* has exactly the resources its last deployment wanted, each with the props   *)
(* of that deployment; the handlers' wiring is then a matter of those props.   *)

RestingInv ==
    /\ phase = "resting" =>
          DOMAIN built = Wanted(base) /\ \A r \in DOMAIN built : built[r] = base
    /\ target # NoProps

IdInv == RestingInv /\ MailStaysInFence

LEMMA IdInvInit == IdInit => IdInv
<1> SUFFICES ASSUME IdInit PROVE IdInv
  OBVIOUS
<1>1. DOMAIN built = {} /\ Wanted(base) = {}
  BY DEF IdInit, Wanted
<1>2. target # NoProps
  BY IdAssumption DEF IdInit, NoProps
<1> QED  BY <1>1, <1>2 DEF IdInit, IdInv, RestingInv, MailStaysInFence

LEMMA SendKeepsFence ==
    ASSUME NEW rs, Send(rs) PROVE MailStaysInFence'
<1>1. PICK p : p = built["triggers"]
  OBVIOUS
<1>2. AllowHolds(p, rs) /\ ~DenyHolds(p, rs) /\ mailed' = [to |-> rs, under |-> p]
  BY <1>1 DEF Send, Authorised
<1>3. mailed'.to = rs /\ mailed'.under = p
  BY <1>2
<1>4. p.allowed # Unset => rs # {} /\ \A a \in rs : Matches(p.allowed[1], a)
  BY <1>2 DEF AllowHolds
<1>5. ASSUME p.enrollment = "admin-only", ~p.allowTest
      PROVE  rs \cap {"e2e marker", "maildummy"} = {}
  <2>1. TestMarkers \subseteq DenyPatterns(p)
    BY <1>5 DEF DenyPatterns
  <2>2. ASSUME NEW a \in {"e2e marker", "maildummy"} PROVE \E pat \in TestMarkers : a \in pat.matches
    <3>1. CASE a = "e2e marker"
      <4>1. [at |-> TRUE, empty |-> FALSE, matches |-> {"e2e marker"}] \in TestMarkers
        BY DEF TestMarkers
      <4> QED  BY <3>1, <4>1
    <3>2. CASE a = "maildummy"
      <4>1. [at |-> TRUE, empty |-> FALSE, matches |-> {"maildummy"}] \in TestMarkers
        BY DEF TestMarkers
      <4> QED  BY <3>2, <4>1
    <3> QED  BY <3>1, <3>2
  <2>3. \A a \in {"e2e marker", "maildummy"} : Matches(DenyPatterns(p), a)
    BY <2>1, <2>2 DEF Matches
  <2> QED  BY <1>2, <2>3 DEF DenyHolds
<1> QED  BY <1>3, <1>4, <1>5 DEF MailStaysInFence, Unset, Matches

LEMMA IdInvStep == IdInv /\ [IdNext]_idVars => IdInv'
<1> SUFFICES ASSUME IdInv, [IdNext]_idVars PROVE IdInv'
  OBVIOUS
<1>1. ASSUME mailed' = mailed PROVE MailStaysInFence'
  BY <1>1 DEF IdInv, MailStaysInFence
<1>2. ASSUME phase' # "resting", mailed' = mailed, target' = target PROVE IdInv'
  BY <1>1, <1>2 DEF IdInv, RestingInv
<1>3. ASSUME UNCHANGED <<phase, base, built>>, mailed' = mailed, target' # NoProps PROVE IdInv'
  BY <1>1, <1>3 DEF IdInv, RestingInv
<1>4. ASSUME NEW p \in Configs, Change(p) PROVE IdInv'
  <2>1. p # NoProps
    BY IdAssumption DEF NoProps
  <2> QED  BY <1>3, <1>4, <2>1 DEF Change
<1>5. CASE SesVerifies \/ StartWait \/ UNCHANGED idVars
  BY <1>3, <1>5 DEF SesVerifies, StartWait, idVars, IdInv, RestingInv
<1>6. CASE StartDeploy
  BY <1>2, <1>6 DEF StartDeploy
<1>7. CASE DeleteWait \/ WaitTimesOut
  BY <1>2, <1>7 DEF DeleteWait, WaitTimesOut, RollBack
<1>8. CASE RolledBack
  BY <1>1, <1>8 DEF RolledBack, IdInv, RestingInv
<1>9. CASE Finish
  <2>1. /\ built' = [x \in Wanted(target) |-> built[x]] /\ base' = target /\ target' = target
        /\ mailed' = mailed /\ \A r \in Wanted(target) : built[r] = target
    BY <1>9 DEF Finish, Restrict, At
  <2>2. DOMAIN built' = Wanted(base') /\ \A r \in DOMAIN built' : built'[r] = base'
    BY <2>1
  <2> QED  BY <1>1, <2>1, <2>2 DEF IdInv, RestingInv
<1>10. ASSUME NEW readable \in BOOLEAN, Poll(readable) PROVE IdInv'
  BY <1>2, <1>10 DEF Poll
<1>11. ASSUME NEW r \in Resources, Build(r) \/ Refused(r) \/ Fault(r) \/ Undo(r) PROVE IdInv'
  <2>1. CASE Build(r)
    BY <1>2, <2>1 DEF Build, Ready
  <2>2. CASE Refused(r) \/ Fault(r)
    BY <1>2, <2>2 DEF Refused, Fault, RollBack
  <2>3. CASE Undo(r)
    BY <1>2, <2>3 DEF Undo
  <2> QED  BY <1>11, <2>1, <2>2, <2>3
<1>12. ASSUME NEW rs \in Recipients, Send(rs) PROVE IdInv'
  <2>1. MailStaysInFence'
    BY <1>12, SendKeepsFence
  <2>2. RestingInv'
    BY <1>12 DEF Send, IdInv, RestingInv
  <2> QED  BY <2>1, <2>2 DEF IdInv
<1> QED  BY <1>4, <1>5, <1>6, <1>7, <1>8, <1>9, <1>10, <1>11, <1>12 DEF IdNext

\* What each handler reads it is given, and what it calls its role and the
\* allow-list policies allow, whichever way enrolment is.
LEMMA EnvIsRead == ASSUME NEW f \in Fns PROVE HandlerEnv(f) \subseteq Env(f)
<1> USE DEF HandlerEnv, PreSignUpEnv, CreateAuthEnv, VerifyAuthEnv, BounceEnv, Env, CommonEnv
<1>1. CASE f = "preSignUp"
  BY <1>1
<1>2. CASE f = "createAuth"
  BY <1>2
<1>3. CASE f = "verifyAuth"
  BY <1>3
<1>4. CASE f = "bounce"
  BY <1>4
<1>5. CASE f = "defineAuth"
  BY <1>5
<1> QED  BY <1>1, <1>2, <1>3, <1>4, <1>5 DEF Fns, TriggerFns

LEMMA CallsAreGranted ==
    ASSUME NEW f \in Fns, NEW e, e = "admin-only" => "allowList" \in DOMAIN built
    PROVE  HandlerCalls(f, e) \subseteq Grants(f)
<1> USE DEF Grants, RoleGrants, HandlerCalls, PreSignUpCalls, CreateAuthCalls, VerifyAuthCalls,
            BounceCalls, EligibilityCalls, GetSecret, SendMail, Read, Write, AllowListPolicies
<1>1. CASE f = "preSignUp"
  BY <1>1
<1>2. CASE f = "createAuth"
  BY <1>2
<1>3. CASE f = "verifyAuth"
  BY <1>3
<1>4. CASE f = "bounce"
  BY <1>4
<1>5. CASE f = "defineAuth"
  BY <1>5
<1> QED  BY <1>1, <1>2, <1>3, <1>4, <1>5 DEF Fns, TriggerFns

LEMMA IdInvWires == IdInv => PoolWorks
<1> SUFFICES ASSUME IdInv PROVE PoolWorks
  OBVIOUS
<1>1. ASSUME Deployed, NEW f \in Fns PROVE Lacks(f) = {}
  <2>1. base = target /\ DOMAIN built = Wanted(base) /\ \A r \in DOMAIN built : built[r] = base
    BY <1>1 DEF Deployed, IdInv, RestingInv
  <2>2. base # NoProps
    BY <2>1 DEF IdInv, RestingInv
  <2>3. ResourceOf(f) \in Wanted(base)
    BY <2>2 DEF ResourceOf, Wanted, Resources
  <2>4. built[ResourceOf(f)] = base
    BY <2>1, <2>3
  <2>5. base.enrollment = "admin-only" => "allowList" \in DOMAIN built
    BY <2>1, <2>2 DEF Wanted, Resources
  <2>6. HandlerCalls(f, base.enrollment) \subseteq Grants(f)
    BY <2>5, CallsAreGranted
  <2>7. HandlerEnv(f) \subseteq Env(f)
    BY EnvIsRead
  <2> QED  BY <2>4, <2>6, <2>7 DEF Lacks
<1> QED  BY <1>1 DEF PoolWorks, HandlersWired, IdInv

\* For all configurations, faults and changes: in a deployed stack no handler
\* lacks a variable it reads or a permission it uses, and IAM lets no mail out
\* beyond the patterns of the props its trigger was deployed with.
THEOREM PoolIsWired == IdSpec => []PoolWorks
<1> QED  BY IdInvInit, IdInvStep, IdInvWires, PTL DEF IdSpec

-----------------------------------------------------------------------------
(* The shared stack.  The directory a synthesis leaves holds no more than the  *)
(* four paths its steps name; from staging on they are of its own props.       *)

BundleFiles == {"edge-config.ts", "_staging", "shared", "index.mjs"}

BundleInv ==
    /\ DOMAIN bundleDir \subseteq BundleFiles
    /\ synth = "build" => {"_staging", "shared"} \subseteq DOMAIN bundleDir
                          /\ bundleDir["_staging"] = ResolveEdgeConfig(props)
    /\ synth = "tidy" => {"index.mjs", "shared"} \subseteq DOMAIN bundleDir
                         /\ bundleDir["index.mjs"] = ResolveEdgeConfig(props)
    /\ synth \in {"idle", "write", "stage", "build", "tidy", "admin", "synthesised", "live"}

VisitInv ==
    /\ visit = NoVisit \/ DOMAIN visit = {"host", "path", "cookie"}
    /\ hop = 0 \/ (hop = 1 /\ visit # NoVisit /\ visit.path = "/login")
    /\ "tenant" \in DOMAIN answered /\ visit.host # "parent" => answered.tenant = visit.host

SharedInv == BundleInv /\ EdgeAssetIsCurrent /\ VisitInv

LEMMA SharedInvInit == SharedInit => SharedInv
<1> SUFFICES ASSUME SharedInit PROVE SharedInv
  OBVIOUS
<1>1. DOMAIN bundleDir = {} /\ synth = "idle"
  BY DEF SharedInit, NoFiles
<1>2. BundleInv /\ EdgeAssetIsCurrent
  BY <1>1 DEF BundleInv, EdgeAssetIsCurrent
<1>3. DOMAIN answered = {"status"}
  BY DEF SharedInit, NoAnswer
<1> QED  BY <1>2, <1>3 DEF SharedInit, SharedInv, VisitInv

\* Each step of the bundle leaves what the next one takes.
LEMMA BundleStepKeeps ==
    ASSUME BundleInv, BundleStep PROVE BundleInv' /\ EdgeAssetIsCurrent'
<1>1. props' = props
  BY DEF BundleStep
<1>2. PICK cfg : cfg = ResolveEdgeConfig(props) /\ cfg = ResolveEdgeConfig(props')
  BY <1>1
<1>3. DOMAIN bundleDir \subseteq BundleFiles
  BY DEF BundleInv
<1>4. CASE synth = "write" /\ WriteConfig(props)
  <2>1. synth' = "stage"
    BY <1>4 DEF BundleStep, After
  <2>2. bundleDir' = [f \in DOMAIN bundleDir \cup {"edge-config.ts"} |->
                        IF f = "edge-config.ts" THEN cfg ELSE bundleDir[f]]
    BY <1>2, <1>4 DEF WriteConfig, PutFiles, File
  <2>3. DOMAIN bundleDir' \subseteq BundleFiles
    BY <1>3, <2>2 DEF BundleFiles
  <2> QED  BY <2>1, <2>3 DEF BundleInv, EdgeAssetIsCurrent
<1>5. CASE synth = "stage" /\ StageSources(props)
  <2>1. synth' = "build"
    BY <1>5 DEF BundleStep, After
  <2>2. PICK staged : /\ staged = [f \in DOMAIN bundleDir \cup {"_staging"} |->
                                     IF f = "_staging" THEN cfg ELSE bundleDir[f]]
                      /\ bundleDir' = [f \in DOMAIN staged \cup {"shared"} |->
                                          IF f = "shared" THEN "sources" ELSE staged[f]]
    <3>1. PICK staged : staged = PutFiles(bundleDir, File("_staging", cfg))
      OBVIOUS
    <3>2. bundleDir' = PutFiles(staged, File("shared", "sources"))
      BY <1>2, <1>5, <3>1 DEF StageSources
    <3>3. staged = [f \in DOMAIN bundleDir \cup {"_staging"} |->
                      IF f = "_staging" THEN cfg ELSE bundleDir[f]]
      BY <3>1 DEF PutFiles, File
    <3>4. bundleDir' = [f \in DOMAIN staged \cup {"shared"} |->
                          IF f = "shared" THEN "sources" ELSE staged[f]]
      BY <3>2 DEF PutFiles, File
    <3> QED  BY <3>3, <3>4
  <2>3. DOMAIN bundleDir' \subseteq BundleFiles /\ {"_staging", "shared"} \subseteq DOMAIN bundleDir'
        /\ bundleDir'["_staging"] = cfg
    BY <1>3, <2>2 DEF BundleFiles
  <2> QED  BY <1>2, <2>1, <2>3 DEF BundleInv, EdgeAssetIsCurrent
<1>6. CASE synth = "build" /\ BuildBundle(props)
  <2>1. synth' = "tidy"
    BY <1>6 DEF BundleStep, After
  <2>2. bundleDir["_staging"] = cfg
    BY <1>2, <1>6 DEF BundleInv
  <2>3. bundleDir' = [f \in DOMAIN bundleDir \cup {"index.mjs"} |->
                        IF f = "index.mjs" THEN cfg ELSE bundleDir[f]]
    BY <1>6, <2>2 DEF BuildBundle, PutFiles, File
  <2>4. DOMAIN bundleDir' \subseteq BundleFiles /\ {"index.mjs", "shared"} \subseteq DOMAIN bundleDir'
        /\ bundleDir'["index.mjs"] = cfg
    BY <1>3, <1>6, <2>3 DEF BundleFiles, BuildBundle
  <2> QED  BY <1>2, <2>1, <2>4 DEF BundleInv, EdgeAssetIsCurrent
<1>7. CASE synth = "tidy" /\ Tidy(props)
  <2>1. synth' = "admin"
    BY <1>7 DEF BundleStep, After
  <2>2. {"index.mjs", "shared"} \subseteq DOMAIN bundleDir /\ bundleDir["index.mjs"] = cfg
    BY <1>2, <1>7 DEF BundleInv
  <2>3. bundleDir' = [f \in DOMAIN bundleDir \ {"_staging", "../shared", "edge-config.ts"} |-> bundleDir[f]]
    BY <1>7 DEF Tidy, Remove
  <2>4. DOMAIN bundleDir \ {"_staging", "../shared", "edge-config.ts"} = {"index.mjs", "shared"}
    BY <1>3, <2>2 DEF BundleFiles
  <2>5. bundleDir'["index.mjs"] = cfg /\ DOMAIN bundleDir' = {"index.mjs", "shared"}
    BY <2>2, <2>3, <2>4
  <2>6. DOMAIN bundleDir' \subseteq BundleFiles
    BY <2>5 DEF BundleFiles
  <2> QED  BY <1>2, <2>1, <2>5, <2>6 DEF BundleInv, EdgeAssetIsCurrent
<1> QED  BY <1>4, <1>5, <1>6, <1>7 DEF BundleStep

\* A redirect goes to the login page and from there nowhere; an answer is the
\* bucket's, the gate's, or a handler's for the host of the visit.
LEMMA ServeKeeps ==
    ASSUME VisitInv, Serve PROVE VisitInv'
<1>1. PICK v : v = visit /\ DOMAIN v = {"host", "path", "cookie"}
  BY DEF VisitInv, Serve
<1>2. PICK edge : edge = EdgeAnswer(visit, bundleDir["index.mjs"])
  OBVIOUS
<1>3. PICK b : b = BehaviourOf(v.path)
  OBVIOUS
<1>4. answered = NoAnswer /\ visit # NoVisit
  BY DEF Serve
<1>5. b.gated => v.path # "/login"
  BY <1>3 DEF BehaviourOf, CacheBehaviour
<1>6. b.origin # "bucket" => b.host = "viewer"
  BY <1>3 DEF BehaviourOf, CacheBehaviour
<1>7. CASE b.gated /\ edge = "login" /\ visit' = [visit EXCEPT !.path = "/login"] /\ hop' = hop + 1
           /\ UNCHANGED answered
  <2>1. DOMAIN visit' = {"host", "path", "cookie"} /\ visit'.path = "/login"
    BY <1>1, <1>7
  <2>2. DOMAIN NoVisit = {"none"}
    BY DEF NoVisit
  <2>3. visit' # NoVisit
    BY <2>1, <2>2
  <2>4. hop = 0
    BY <1>1, <1>5, <1>7 DEF VisitInv
  <2>5. "tenant" \notin DOMAIN answered'
    BY <1>4, <1>7 DEF NoAnswer
  <2> QED  BY <1>7, <2>1, <2>3, <2>4, <2>5 DEF VisitInv
<1>8. CASE answered' = [status |-> 403] /\ UNCHANGED <<visit, hop>>
  <2>1. "tenant" \notin DOMAIN answered'
    BY <1>8
  <2> QED  BY <1>8, <2>1 DEF VisitInv
<1>9. CASE UNCHANGED <<visit, hop>> /\
           answered' = IF b.origin = "bucket" THEN [status |-> BucketStatus(visit.path)]
                       ELSE [status |-> 200, by |-> b.origin, tenant |-> HandlerTenant(visit, b.host)]
  <2>1. CASE b.origin = "bucket"
    <3>1. "tenant" \notin DOMAIN answered'
      BY <1>9, <2>1
    <3> QED  BY <1>9, <3>1 DEF VisitInv
  <2>2. CASE b.origin # "bucket"
    <3>1. answered'.tenant = HandlerTenant(visit, "viewer")
      BY <1>6, <1>9, <2>2
    <3>2. visit.host # "parent" => answered'.tenant = visit'.host
      BY <1>9, <3>1 DEF HandlerTenant
    <3> QED  BY <1>9, <3>2 DEF VisitInv
  <2> QED  BY <2>1, <2>2
<1> QED  BY <1>1, <1>2, <1>3, <1>7, <1>8, <1>9 DEF Serve

LEMMA SharedInvStep == SharedInv /\ [SharedNext]_sharedVars => SharedInv'
<1> SUFFICES ASSUME SharedInv, [SharedNext]_sharedVars PROVE SharedInv'
  OBVIOUS
<1>1. ASSUME UNCHANGED <<visit, hop, answered>> PROVE VisitInv'
  BY <1>1 DEF SharedInv, VisitInv
<1>2. ASSUME UNCHANGED <<props, synth, bundleDir>> PROVE BundleInv' /\ EdgeAssetIsCurrent'
  BY <1>2 DEF SharedInv, BundleInv, EdgeAssetIsCurrent
<1>3. ASSUME synth' \in {"idle", "write"}, bundleDir' = bundleDir PROVE BundleInv' /\ EdgeAssetIsCurrent'
  BY <1>3 DEF SharedInv, BundleInv, EdgeAssetIsCurrent
<1>4. ASSUME NEW p \in SharedConfigs, Construct(p) PROVE SharedInv'
  BY <1>1, <1>3, <1>4 DEF Construct, SharedInv
<1>5. CASE BundleStep
  BY <1>1, <1>5, BundleStepKeeps DEF BundleStep, SharedInv
<1>6. CASE Dies
  BY <1>1, <1>3, <1>6 DEF Dies, SharedInv
<1>7. CASE Deploy
  <2>1. CASE synth' = "idle"
    BY <1>1, <1>3, <1>7, <2>1 DEF Deploy, SharedInv
  <2>2. CASE synth' = "live"
    BY <1>1, <1>7, <2>2 DEF Deploy, SharedInv, BundleInv, EdgeAssetIsCurrent
  <2> QED  BY <1>7, <2>1, <2>2 DEF Deploy
<1>8. CASE Serve
  BY <1>2, <1>8, ServeKeeps DEF Serve, SharedInv
<1>9. CASE Leave
  <2>1. "tenant" \notin DOMAIN answered'
    BY <1>9 DEF Leave, NoAnswer
  <2>2. VisitInv'
    BY <1>9, <2>1 DEF Leave, VisitInv
  <2> QED  BY <1>2, <1>9, <2>2 DEF Leave, SharedInv
<1>10. ASSUME NEW op \in Operations, HookAdded(op) PROVE SharedInv'
  BY <1>1, <1>2, <1>3, <1>10 DEF HookAdded, SharedInv
<1>11. ASSUME NEW v \in Visits, Arrive(v) PROVE SharedInv'
  <2>1. "tenant" \notin DOMAIN answered'
    BY <1>11 DEF Arrive, NoAnswer
  <2>2. VisitInv'
    BY <1>11, <2>1, SharedAssumption DEF Arrive, VisitInv
  <2> QED  BY <1>2, <1>11, <2>2 DEF Arrive, SharedInv
<1>12. CASE UNCHANGED sharedVars
  BY <1>1, <1>2, <1>12 DEF sharedVars, SharedInv
<1>13. CASE AdminStep
  <2>1. CASE synth' = "idle"
    BY <1>1, <1>3, <1>13, <2>1 DEF AdminStep, SharedInv
  <2>2. CASE synth' = "synthesised"
    BY <1>1, <1>13, <2>2 DEF AdminStep, SharedInv, BundleInv, EdgeAssetIsCurrent
  <2> QED  BY <1>13, <2>1, <2>2 DEF AdminStep
<1> QED  BY <1>4, <1>5, <1>6, <1>7, <1>8, <1>9, <1>10, <1>11, <1>12, <1>13 DEF SharedNext

LEMMA OthersAreWired == OthersWired
<1> SUFFICES ASSUME NEW f \in SharedFns
             PROVE  /\ LacksEnv(f) \subseteq UnprovidedEnv
                    /\ \A call \in LacksCalls(f) : call[2] \in Unprovided
                    /\ f \notin {"preSignUp", "createAuth", "verifyAuth", "admin"} =>
                          LacksEnv(f) = {} /\ LacksCalls(f) = {}
  BY DEF OthersWired
<1> USE DEF LacksEnv, LacksCalls, BundleEnv, BundleCalls, SharedEnv, UnprovidedEnv, Unprovided
<1>1. CASE f \in {"preToken", "defineAuth"}
  BY <1>1 DEF TriggerCalls
<1>2. CASE f = "authVerify"
  BY <1>2 DEF AuthVerifyCalls, Permitted, SharedGrants, ReadRows, OnPool
<1>3. CASE f = "authSignout"
  BY <1>3 DEF AuthSignoutCalls, Permitted, SharedGrants, ReadRows
<1>4. CASE f = "reconciler"
  BY <1>4 DEF ReconcilerCalls, Permitted, SharedGrants, ReadRows, OnPool
<1>5. CASE f \in {"preSignUp", "createAuth", "verifyAuth"}
  BY <1>5 DEF TriggerCalls
<1>6. CASE f = "admin"
  <2>1. LacksEnv(f) = {}
    BY <1>6
  <2>2. ASSUME NEW call \in AdminCalls, call[2] \notin Unprovided PROVE call \in SharedGrants("admin")
    <3> USE DEF SharedGrants, ReadWriteRows, ReadRows, OnPool
    <3>1. CASE call \in {<<"PutItem", "reservations">>, <<"DeleteItem", "reservations">>}
      BY <3>1
    <3>2. CASE call \in {"PutItem", "Query", "UpdateItem", "DeleteItem", "Scan"} \X {"clientConfig"}
      <4>1. call \in {<<"PutItem", "clientConfig">>, <<"Query", "clientConfig">>, <<"UpdateItem", "clientConfig">>,
                      <<"DeleteItem", "clientConfig">>, <<"Scan", "clientConfig">>}
        BY <3>2
      <4> QED  BY <4>1
    <3>3. CASE call \in OnPool({"CreateUserPoolClient", "DeleteUserPoolClient", "ListUsers",
                                "AdminUserGlobalSignOut"})
      BY <3>3
    <3> QED  BY <2>2, <3>1, <3>2, <3>3 DEF AdminCalls
  <2> QED  BY <1>6, <2>1, <2>2 DEF Permitted
<1> QED  BY <1>1, <1>2, <1>3, <1>4, <1>5, <1>6 DEF SharedFns

\* Whatever synthesis dies at whatever step and is run again over what it left:
\* the asset that is deployed is the bundle of this synthesis's props, with nothing
\* staged beside it but the shared sources; a tenant's request is answered as that
\* tenant's, no visit is sent to the login page twice, and the functions lack only
\* what the construct provides to none of them.
THEOREM SharedIsWired == SharedSpec => []SharedWorks
<1>1. SharedInv => SharedWorks
  <2> SUFFICES ASSUME SharedInv PROVE SharedWorks
    OBVIOUS
  <2>1. TenantAnsweredAsItself
    BY DEF SharedInv, VisitInv, TenantAnsweredAsItself
  <2> QED  BY <2>1, OthersAreWired DEF SharedInv, SharedWorks
<1> QED  BY <1>1, SharedInvInit, SharedInvStep, PTL DEF SharedSpec

-----------------------------------------------------------------------------
(* The site stack.  A request of the bake that CloudFormation saw succeed      *)
(* names the version it published; while a bake is under way $LATEST is what   *)
(* it will publish, and no step lets one deployment's bake stand for another's.*)

Sites == {c \in SiteConfigs : c.pool # Placeholder /\ c.client # Placeholder}
Codes == {Inject(c) : c \in Sites}
Runtimes == {c.runtime : c \in SiteConfigs}
Versions == [code : Codes, runtime : Runtimes]

\* No rollback has left the edge function's own stack behind.
InStep == inRegion \/ siteFaults = 0
VersionOf(v, c) == v.code = Inject(c) /\ (InStep => v.runtime = c.runtime)

StageInv ==
    /\ siteStage \in {"resting", "deploying", "rolling back"}
    /\ deployed = NoSite \/ deployed \in SiteConfigs
    /\ siteStage # "resting" => aim \in SiteConfigs
    /\ published \in Seq(Versions)
    /\ bakedArn \in Nat /\ associated \in Nat /\ siteFaults \in Nat

\* What the steps that are done have made of the deployment under way.
DoneInv ==
    /\ "distribution" \in done => "bake" \in done
    /\ "bake" \in done => "function" \in done
    /\ siteStage # "resting" =>
         /\ "function" \in done => /\ latest = [code |-> latest.code, runtime |-> latest.runtime]
                                   /\ latest.runtime \in Runtimes
                                   /\ InStep => latest.runtime = aim.runtime
         /\ "bake" \in done => bakeRequest = BakeProperties(aim)
         /\ "distribution" \in done => associated = bakedArn

BakingInv ==
    baking => /\ siteStage # "resting" /\ "bake" \notin done /\ "function" \in done
              /\ aim \in Sites /\ latest.code = Inject(aim) /\ bakeRequest # BakeProperties(aim)

\* The bake's last request and its answer belong together.
BakedInv ==
    bakeRequest # NoSite =>
        \E c \in Sites : /\ bakeRequest = BakeProperties(c)
                         /\ bakedArn \in 1 .. Len(published) /\ VersionOf(published[bakedArn], c)

\* The distribution is behind until its own step, so a deployment that fails in
\* the edge function's stack leaves it at the last one.
AssociatedInv ==
    associated > 0 =>
        /\ associated \in 1 .. Len(published)
        /\ siteStage = "resting" \/ (siteStage = "deploying" /\ "distribution" \notin done)
               => VersionOf(published[associated], deployed)

SiteInv == StageInv /\ DoneInv /\ BakingInv /\ BakedInv /\ AssociatedInv

\* A bake's properties tell the configurations apart that differ in the version.
LEMMA SameBakeSameVersion ==
    ASSUME NEW c, NEW d, BakeProperties(c) = BakeProperties(d)
    PROVE  Inject(c) = Inject(d) /\ c.runtime = d.runtime
<1>1. c.pool = d.pool /\ c.client = d.client /\ c.base = d.base /\ c.runtime = d.runtime
  <2>1. /\ BakeProperties(c).pool = c.pool /\ BakeProperties(c).client = c.client
        /\ BakeProperties(c).baseSha = c.base /\ BakeProperties(c).runtime = c.runtime
    BY DEF BakeProperties
  <2>2. /\ BakeProperties(d).pool = d.pool /\ BakeProperties(d).client = d.client
        /\ BakeProperties(d).baseSha = d.base /\ BakeProperties(d).runtime = d.runtime
    BY DEF BakeProperties
  <2> QED  BY <2>1, <2>2
<1> QED  BY <1>1 DEF Inject

LEMMA BakeIsSomething == ASSUME NEW c PROVE BakeProperties(c) # NoSite
<1>1. DOMAIN BakeProperties(c) = {"pool", "client", "baseSha", "runtime"} /\ DOMAIN NoSite = {"none"}
  BY DEF BakeProperties, NoSite
<1> QED  BY <1>1

LEMMA SiteInvInit == SiteInit => SiteInv
<1> SUFFICES ASSUME SiteInit PROVE SiteInv
  OBVIOUS
<1>1. StageInv
  BY DEF SiteInit, StageInv
<1> QED  BY <1>1 DEF SiteInit, SiteInv, DoneInv, BakingInv, BakedInv, AssociatedInv

LEMMA EdgeUpdateKeeps ==
    ASSUME SiteInv, UpdateEdgeFunction PROVE SiteInv'
<1>1. /\ siteStage # "resting" /\ ~baking /\ done' = done \cup {"function"}
      /\ \E k : latest' = [code |-> k, runtime |-> aim.runtime]
      /\ UNCHANGED <<inRegion, aim, deployed, siteStage, siteFaults, published, bakeRequest, baking,
                     bakedArn, associated>>
  BY DEF UpdateEdgeFunction, Step, Done
<1>2. latest' = [code |-> latest'.code, runtime |-> latest'.runtime] /\ latest'.runtime = aim.runtime
  BY <1>1
<1>3. aim.runtime \in Runtimes
  BY <1>1 DEF SiteInv, StageInv, Runtimes
<1>4. StageInv' /\ BakedInv' /\ AssociatedInv' /\ BakingInv'
  BY <1>1 DEF SiteInv, StageInv, BakedInv, AssociatedInv, BakingInv, VersionOf, InStep
<1>5. DoneInv'
  BY <1>1, <1>2, <1>3 DEF SiteInv, DoneInv
<1> QED  BY <1>4, <1>5 DEF SiteInv

LEMMA BakeKeeps ==
    ASSUME SiteInv, UpdateFunctionCode PROVE SiteInv'
<1>1. /\ siteStage # "resting" /\ "bake" \notin done /\ "function" \in done
      /\ bakeRequest # BakeProperties(aim)
      /\ Placeholder \notin {Inject(aim).pool, Inject(aim).client}
      /\ latest' = [latest EXCEPT !.code = Inject(aim)]
      /\ UNCHANGED <<inRegion, aim, deployed, siteStage, done, siteFaults, published, bakeRequest, bakedArn,
                     associated>>
  BY DEF UpdateFunctionCode, Step
<1>2. aim \in Sites
  BY <1>1 DEF SiteInv, StageInv, Sites, Inject
<1>3. /\ latest' = [code |-> latest'.code, runtime |-> latest'.runtime] /\ latest'.code = Inject(aim)
      /\ latest'.runtime = latest.runtime
  <2>1. PICK k, r : latest = [code |-> k, runtime |-> r]
    BY <1>1 DEF SiteInv, DoneInv
  <2> QED  BY <1>1, <2>1
<1>4. StageInv' /\ BakedInv' /\ AssociatedInv'
  BY <1>1 DEF SiteInv, StageInv, BakedInv, AssociatedInv, VersionOf, InStep
<1>5. DoneInv'
  BY <1>1, <1>3 DEF SiteInv, DoneInv, InStep
<1>6. BakingInv'
  BY <1>1, <1>2, <1>3 DEF BakingInv, Inject, BakeProperties
<1> QED  BY <1>4, <1>5, <1>6 DEF SiteInv

LEMMA PublishKeeps ==
    ASSUME SiteInv, PublishVersion PROVE SiteInv'
<1>1. /\ baking /\ bakedArn' = Len(published') /\ bakeRequest' = BakeProperties(aim) /\ ~baking'
      /\ done' = done \cup {"bake"}
      /\ UNCHANGED <<inRegion, aim, deployed, siteStage, siteFaults, latest, associated>>
  BY DEF PublishVersion, Done
<1>2. PICK v \in Versions, a \in Sites : v = latest /\ a = aim /\ VersionOf(v, a)
  <2>1. /\ latest = [code |-> latest.code, runtime |-> latest.runtime] /\ latest.runtime \in Runtimes
        /\ aim \in Sites /\ latest.code = Inject(aim) /\ (InStep => latest.runtime = aim.runtime)
    BY <1>1 DEF SiteInv, BakingInv, DoneInv
  <2>2. latest.code \in Codes
    BY <2>1 DEF Codes
  <2>3. latest \in Versions
    BY <2>1, <2>2 DEF Versions
  <2> QED  BY <2>1, <2>3 DEF VersionOf
<1>3. published \in Seq(Versions) /\ Len(published) \in Nat
  <2>1. published \in Seq(Versions)
    BY Zenon DEF SiteInv, StageInv
  <2> QED  BY <2>1
<1>4. /\ published' \in Seq(Versions) /\ Len(published') \in 1 .. Len(published')
      /\ published'[Len(published')] = v
      /\ Len(published') >= Len(published)
      /\ \A i \in 1 .. Len(published) : i \in 1 .. Len(published') /\ published'[i] = published[i]
  <2>1. CASE published # <<>> /\ published[Len(published)] = latest /\ published' = published
    BY <1>2, <1>3, <2>1
  <2>2. CASE published' = Append(published, latest)
    <3>1. published' = Append(published, v)
      BY <1>2, <2>2
    <3>2. /\ published' \in Seq(Versions) /\ Len(published') = Len(published) + 1
          /\ published'[Len(published) + 1] = v
          /\ \A i \in 1 .. Len(published) : published'[i] = published[i]
      BY <1>3, <3>1
    <3> QED  BY <1>3, <3>2
  <2> QED  BY <2>1, <2>2 DEF PublishVersion
<1>5. StageInv'
  <2>1. published' \in Seq(Versions) /\ bakedArn' \in Nat
    BY <1>1, <1>4
  <2> QED  BY <1>1, <2>1, Zenon DEF SiteInv, StageInv
<1>6. DoneInv'
  BY <1>1 DEF SiteInv, DoneInv, BakingInv, BakeProperties, InStep
<1>7. BakingInv'
  BY <1>1 DEF BakingInv
<1>8. BakedInv'
  <2>1. bakeRequest' = BakeProperties(a) /\ bakedArn' \in 1 .. Len(published') /\ published'[bakedArn'] = v
    BY <1>1, <1>2, <1>4
  <2>2. v.code = Inject(a) /\ (InStep => v.runtime = a.runtime) /\ (InStep' <=> InStep)
    BY <1>1, <1>2 DEF VersionOf, InStep
  <2> QED  BY <2>1, <2>2 DEF BakedInv, BakeProperties, VersionOf, Inject
<1>9. AssociatedInv'
  BY <1>1, <1>4 DEF SiteInv, AssociatedInv, BakingInv, DoneInv, VersionOf, InStep
<1> QED  BY <1>5, <1>6, <1>7, <1>8, <1>9 DEF SiteInv

LEMMA SiteFinishKeeps ==
    ASSUME SiteInv, FinishSite PROVE SiteInv'
<1>1. /\ siteStage # "resting" /\ "distribution" \in done /\ deployed' = aim /\ siteStage' = "resting"
      /\ UNCHANGED <<inRegion, aim, done, siteFaults, latest, published, bakeRequest, baking, bakedArn,
                     associated>>
  BY DEF FinishSite
<1>2. /\ "bake" \in done /\ bakeRequest = BakeProperties(aim) /\ associated = bakedArn /\ ~baking
      /\ aim \in SiteConfigs
  BY <1>1 DEF SiteInv, StageInv, DoneInv, BakingInv
<1>3. PICK c \in Sites : /\ bakeRequest = BakeProperties(c)
                         /\ bakedArn \in 1 .. Len(published) /\ VersionOf(published[bakedArn], c)
  BY <1>2, BakeIsSomething DEF SiteInv, BakedInv
<1>4. Inject(c) = Inject(aim) /\ c.runtime = aim.runtime
  BY <1>2, <1>3, SameBakeSameVersion
<1>5. VersionOf(published[associated], aim)
  BY <1>2, <1>3, <1>4 DEF VersionOf
<1>6. AssociatedInv'
  BY <1>1, <1>2, <1>3, <1>5 DEF AssociatedInv, VersionOf, Inject, InStep
<1>7. StageInv' /\ DoneInv' /\ BakingInv' /\ BakedInv'
  BY <1>1, <1>2 DEF SiteInv, StageInv, DoneInv, BakingInv, BakedInv, VersionOf, InStep
<1> QED  BY <1>6, <1>7 DEF SiteInv

LEMMA SiteFaultKeeps ==
    ASSUME SiteInv, SiteFault PROVE SiteInv'
<1>0. siteFaults \in Nat /\ published \in Seq(Versions)
  BY Zenon DEF SiteInv, StageInv
<1>1. /\ ~baking' /\ deployed' = deployed /\ inRegion' = inRegion /\ siteFaults' = siteFaults + 1
      /\ siteFaults' \in Nat
  <2>1. ~baking' /\ deployed' = deployed /\ inRegion' = inRegion
    BY Zenon DEF SiteFault
  <2>2. siteFaults' = siteFaults + 1
    BY DEF SiteFault
  <2> QED  BY <1>0, <2>1, <2>2
<1>2. InStep' => InStep
  BY <1>0, <1>1 DEF InStep
<1>3. CASE deployed = NoSite
  <2>1. /\ siteStage' = "resting" /\ bakeRequest' = NoSite /\ bakedArn' = 0 /\ associated' = 0
        /\ done' = {}
        /\ published' = <<>> \/ published' = published
    BY <1>3 DEF SiteFault
  <2>2. StageInv'
    <3>1. published' \in Seq(Versions) /\ 0 \in Nat
      <4>1. <<>> \in Seq(Versions) /\ 0 \in Nat
        OBVIOUS
      <4> QED  BY <1>0, <2>1, <4>1
    <3> QED  BY <1>1, <2>1, <3>1, Zenon DEF SiteInv, StageInv
  <2> QED  BY <1>1, <2>1, <2>2 DEF SiteInv, DoneInv, BakingInv, BakedInv, AssociatedInv
<1>4. CASE deployed # NoSite
  <2>1. /\ siteStage' = "rolling back" /\ aim' = deployed
        /\ bakeRequest' = NoSite \/ bakeRequest' = bakeRequest
        /\ done' = IF inRegion THEN {} ELSE {"function"}
        /\ siteStage # "resting" /\ (inRegion \/ "function" \in done)
        /\ UNCHANGED <<latest, published, bakedArn, associated>>
    BY <1>4 DEF SiteFault
  <2>2. StageInv'
    BY <1>1, <1>4, <2>1 DEF SiteInv, StageInv
  <2>3. BakedInv'
    BY <1>2, <2>1 DEF SiteInv, BakedInv, VersionOf
  <2>4. DoneInv'
    <3>1. "function" \in done' => ~inRegion
      BY <2>1
    <3>2. ~inRegion => ~InStep'
      BY <1>0, <1>1 DEF InStep
    <3> QED  BY <1>1, <2>1, <3>1, <3>2 DEF SiteInv, DoneInv
  <2> QED  BY <1>1, <2>1, <2>2, <2>3, <2>4 DEF SiteInv, BakingInv, AssociatedInv
<1> QED  BY <1>3, <1>4

LEMMA EdgeFaultKeeps ==
    ASSUME SiteInv, EdgeStackFault PROVE SiteInv'
<1>1. /\ siteStage = "deploying" /\ ~inRegion /\ "function" \notin done
      /\ siteFaults' = siteFaults + 1 /\ siteStage' = "resting"
      /\ UNCHANGED <<inRegion, aim, deployed, done, published, bakeRequest, baking, bakedArn, associated>>
  BY DEF EdgeStackFault
<1>2. "bake" \notin done /\ "distribution" \notin done /\ ~baking /\ siteFaults' \in Nat
  BY <1>1 DEF SiteInv, DoneInv, BakingInv, StageInv
<1>3. InStep' => InStep
  BY <1>1 DEF InStep, SiteInv, StageInv
<1>4. StageInv' /\ DoneInv' /\ BakingInv'
  BY <1>1, <1>2 DEF SiteInv, StageInv, DoneInv, BakingInv
<1>5. BakedInv' /\ AssociatedInv'
  BY <1>1, <1>2, <1>3 DEF SiteInv, BakedInv, AssociatedInv, VersionOf
<1> QED  BY <1>4, <1>5 DEF SiteInv

LEMMA SiteInvStep == SiteInv /\ [SiteNext]_siteVars => SiteInv'
<1> SUFFICES ASSUME SiteInv, [SiteNext]_siteVars PROVE SiteInv'
  OBVIOUS
<1> USE DEF SiteInv, StageInv, DoneInv, BakingInv, BakedInv, AssociatedInv, VersionOf, InStep
<1>1. ASSUME NEW c \in SiteConfigs, DeploySite(c) PROVE SiteInv'
  BY <1>1 DEF DeploySite
<1>2. CASE SkipBake
  <2>1. /\ siteStage # "resting" /\ BakeProperties(aim) = bakeRequest /\ done' = done \cup {"bake"}
        /\ "function" \in done
        /\ UNCHANGED <<inRegion, aim, deployed, siteStage, siteFaults, latest, published, bakeRequest,
                       baking, bakedArn, associated>>
    BY <1>2 DEF SkipBake, Step, Done
  <2>2. ~baking
    BY <2>1
  <2>3. DoneInv'
    BY <2>1 DEF BakeProperties
  <2> QED  BY <2>1, <2>2, <2>3
<1>3. ASSUME NEW f \in AuthFns, UpdateHandler(f) PROVE SiteInv'
  <2>1. f \notin {"function", "bake", "distribution"}
    BY DEF AuthFns
  <2>2. /\ done' = done \cup {f}
        /\ UNCHANGED <<inRegion, aim, deployed, siteStage, siteFaults, latest, published, bakeRequest,
                       baking, bakedArn, associated>>
    BY <1>3 DEF UpdateHandler, Done
  <2> QED  BY <2>1, <2>2
<1>4. CASE UpdateDistribution
  <2>1. /\ siteStage # "resting" /\ "bake" \in done /\ associated' = bakedArn
        /\ done' = done \cup {"distribution"}
        /\ UNCHANGED <<inRegion, aim, deployed, siteStage, siteFaults, latest, published, bakeRequest,
                       baking, bakedArn>>
    BY <1>4 DEF UpdateDistribution, Step, Done
  <2>2. bakeRequest # NoSite
    BY <2>1, BakeIsSomething
  <2>3. bakedArn \in 1 .. Len(published)
    BY <2>2
  <2>4. AssociatedInv'
    BY <2>1, <2>3
  <2>5. DoneInv'
    BY <2>1 DEF BakeProperties
  <2> QED  BY <2>1, <2>4, <2>5
<1>5. ASSUME UNCHANGED deployVars PROVE SiteInv'
  BY <1>5 DEF deployVars
<1> HIDE DEF SiteInv
<1>6. CASE Open \/ LoginPage \/ RequestLink \/ FollowLink \/ Verify \/ SignOut \/ Reload
  BY <1>5, <1>6 DEF Open, LoginPage, RequestLink, FollowLink, Verify, SignOut, Reload, Stay, Visit
<1>7. CASE WindowPasses \/ UNCHANGED siteVars
  BY <1>5, <1>7 DEF WindowPasses, siteVars, deployVars
<1> QED  BY <1>1, <1>2, <1>3, <1>4, <1>6, <1>7, EdgeUpdateKeeps, BakeKeeps, PublishKeeps, SiteFinishKeeps,
            SiteFaultKeeps, EdgeFaultKeeps DEF SiteNext

LEMMA AuthIsWired == ASSUME NEW f \in AuthFns, NEW e PROVE Wired(f, e)
<1> USE DEF Wired, Uses, AuthEnv, AuthGrants
<1>1. CASE f = "auth-verify"
  BY <1>1 DEF AuthVerifyUses
<1>2. CASE f = "auth-signout"
  BY <1>2 DEF AuthSignoutUses
<1>3. CASE f = "auth-login"
  BY <1>3 DEF AuthLoginUses
<1> QED  BY <1>1, <1>2, <1>3 DEF AuthFns

\* Whatever deployments follow each other and whichever steps fail, in the site's
\* stack or in the edge function's own: the gate never runs a version with
\* placeholders, once a deployment or a rollback has ended it runs exactly that
\* deployment's bundle, pool and client, on its runtime unless a failure left the
\* edge function's own stack behind, and no auth Lambda lacks what its handler uses.
THEOREM SiteIsCurrent == SiteSpec => []SiteWorks
<1>1. SiteInv => SiteWorks
  <2> SUFFICES ASSUME SiteInv PROVE SiteWorks
    OBVIOUS
  <2>1. ASSUME associated > 0
        PROVE  /\ published[associated].code.pool # Placeholder
               /\ siteStage = "resting" => VersionOf(published[associated], deployed)
    <3>1. published \in Seq(Versions) /\ associated \in 1 .. Len(published)
      BY <2>1 DEF SiteInv, StageInv, AssociatedInv
    <3>2. published[associated] \in Versions
      BY <3>1
    <3>3. PICK c \in Sites : published[associated].code = Inject(c)
      BY <3>2 DEF Versions, Codes
    <3>4. published[associated].code.pool = c.pool
      BY <3>3 DEF Inject
    <3> QED  BY <2>1, <3>4 DEF Sites, SiteInv, AssociatedInv
  <2> QED  BY <2>1, AuthIsWired DEF SiteWorks, EdgeServesCurrentConfig, AuthFnsWired, VersionOf, InStep
<1> QED  BY <1>1, SiteInvInit, SiteInvStep, PTL DEF SiteSpec

=============================================================================
