----------------------------- MODULE Federation -----------------------------
(***************************************************************************)
(* The identity-provider managers: OidcIdpManager, SamlIdpManager and the  *)
(* IdpSecretsClient that keeps a tenant's client secret.  A manager has no *)
(* store of its own: it derives the provider's name from the tenant's      *)
(* identifier, and every call is a short series of requests to Secrets     *)
(* Manager and to Cognito, any of which may fail, and any write of which   *)
(* may be applied although its answer is lost.                             *)
(*                                                                         *)
(* What the consumer keeps (the secret version its last upsert returned,   *)
(* what it was told about each attachment) is the consumer's side of the   *)
(* contract, kept here as the ghost variables pins and told.               *)
(***************************************************************************)
EXTENDS Naturals, Sequences, FiniteSets

CONSTANTS TenantIds,   \* tenants' identifiers: sequences of characters
          AppClients,  \* app clients of the pool
          FedCallers,  \* admin requests that may be in flight
          MaxSlug,     \* characters of the identifier a provider's name keeps
          MaxFedCalls, \* calls made in a behaviour
          Serialised   \* whether the consumer makes one manager call at a time

ASSUME FedAssumption == /\ \A t \in TenantIds : Len(t) > 0
                        /\ MaxSlug \in Nat \ {0} /\ MaxFedCalls \in Nat
                        /\ Serialised \in BOOLEAN

(***************************************************************************)
(* Names.                                                                  *)
(***************************************************************************)
LowerCase(c) == IF c = "A" THEN "a" ELSE IF c = "B" THEN "b" ELSE c
Slugged(c) == IF LowerCase(c) \in {"a", "b", "0", "-"} THEN LowerCase(c) ELSE "-"

StripLast(s) == IF s # <<>> /\ s[Len(s)] = "-" THEN SubSeq(s, 1, Len(s) - 1) ELSE s

\* Characters outside [a-z0-9-] become "-", runs of "-" one, and none is left
\* at either end; the rest is cut to MaxSlug.  An identifier with nothing left
\* is replaced by its hash, taken to be distinct.
NormaliseIdpName(id) ==
    LET pairs == [i \in DOMAIN id |-> << IF i = 1 THEN "-" ELSE Slugged(id[i - 1]), Slugged(id[i]) >>]
        kept  == SelectSeq(pairs, LAMBDA p : p[2] # "-" \/ p[1] # "-")
        slug  == StripLast([i \in DOMAIN kept |-> kept[i][2]])
        short == SubSeq(slug, 1, IF Len(slug) < MaxSlug THEN Len(slug) ELSE MaxSlug)
    IN  IF slug = <<>> THEN <<"x", id>> ELSE StripLast(short)

\* normaliseIdpName's uniqueness guard, against a map of the names in use.
NameCollision(id, existingNames) ==
    \E other \in DOMAIN existingNames :
        other # id /\ existingNames[other] = NormaliseIdpName(id)

\* The map both managers pass: an empty one.
ExistingNames == <<>>

\* Secret names: characters Secrets Manager does not take become "_".
SecretName(id) == [i \in DOMAIN id |-> IF id[i] = " " THEN "_" ELSE id[i]]

ProviderNames == {NormaliseIdpName(t) : t \in TenantIds}
SecretNames == {SecretName(t) : t \in TenantIds}

VARIABLES secrets,     \* Secrets Manager: per name the current version (0: none) and if it is scheduled for deletion
          idps,        \* Cognito: per provider name its registration, or NoIdp
          clients,     \* Cognito: per app client its SupportedIdentityProviders
          calls,       \* per caller, the call it is in
          minted,      \* secret versions made so far
          made,        \* calls made so far
          pins,        \* consumer: the version its tenant's last upsert returned (0: none)
          told         \* consumer: per provider and client "in", "out" or "unknown"

fedVars == <<secrets, idps, clients, calls, minted, made, pins, told>>

NoIdp == [type |-> "none", tenant |-> <<>>, version |-> 0]
FedIdle == [op |-> "idle"]

FedInit ==
    /\ secrets = [n \in SecretNames |-> [version |-> 0, deleting |-> FALSE]]
    /\ idps = [p \in ProviderNames |-> NoIdp]
    /\ clients = [c \in AppClients |-> {}]
    /\ calls = [x \in FedCallers |-> FedIdle]
    /\ minted = 0
    /\ made = 0
    /\ pins = [t \in TenantIds |-> 0]
    /\ told = [pc \in ProviderNames \X AppClients |-> "out"]

ManagerOps == {"oidc", "saml", "delete", "attach"}
Ops == ManagerOps \cup {"store", "deleteSecret"}

InManager(x) == calls[x] # FedIdle /\ calls[x].op \in ManagerOps

FirstStep(op) ==
    CASE op = "store" -> "create" [] op = "deleteSecret" -> "schedule"
      [] op = "oidc" -> "read"    [] op = "saml" -> "parse"
      [] op \in {"delete", "attach"} -> "describeClient"

\* The operations that are given the app clients they are about; delete is
\* given none unless its caller says so.
OnClients == {"delete", "attach"}

\* A request reaches a manager.  Its identifiers have been validated and its
\* name derived; the collision guard runs here, on ExistingNames.
Call(x, op, t, appClientIds) ==
    /\ op \notin OnClients => appClientIds = {}
    /\ calls[x] = FedIdle
    /\ Serialised /\ op \in ManagerOps => \A y \in FedCallers : ~InManager(y)
    /\ made < MaxFedCalls
    /\ ~NameCollision(t, ExistingNames)
    /\ made' = made + 1
    /\ calls' = [calls EXCEPT ![x] = [op |-> op, tenant |-> t, step |-> FirstStep(op),
                                      version |-> 0, ids |-> appClientIds, todo |-> appClientIds,
                                      on |-> {}, seen |-> {}]]
    /\ UNCHANGED <<secrets, idps, clients, minted, pins, told>>

Name(x) == NormaliseIdpName(calls[x].tenant)
Secret(x) == SecretName(calls[x].tenant)
FedAt(x, step) == calls[x] # FedIdle /\ calls[x].step = step
GoTo(x, step) == calls' = [calls EXCEPT ![x].step = step]
Return(x) == calls' = [calls EXCEPT ![x] = FedIdle]

\* After an error the consumer does not know what became of the attachments
\* the call was about.
Forget(x) ==
    told' = [pc \in DOMAIN told |->
               IF pc[1] = Name(x) /\ pc[2] \in calls[x].ids THEN "unknown" ELSE told[pc]]

\* A request fails outright, or a check in the manager throws.
Fail(x) ==
    /\ calls[x] # FedIdle
    /\ Return(x)
    /\ Forget(x)
    /\ UNCHANGED <<secrets, idps, clients, minted, made, pins>>

(***************************************************************************)
(* IdpSecretsClient.store and delete.                                      *)
(***************************************************************************)
\* CreateSecret; an existing secret gets a new version by PutSecretValue, one
\* scheduled for deletion refuses both (Fail).
Store(x) ==
    \/ /\ FedAt(x, "create")
       /\ LET s == secrets[Secret(x)]
          IN  \/ s.version = 0 /\ minted' = minted + 1 /\ Return(x)
                   /\ secrets' = [secrets EXCEPT ![Secret(x)].version = minted + 1]
              \/ s.version # 0 /\ ~s.deleting /\ GoTo(x, "put") /\ UNCHANGED <<secrets, minted>>
       /\ UNCHANGED <<idps, clients, made, pins, told>>
    \/ /\ FedAt(x, "put")
       /\ secrets[Secret(x)].version # 0 /\ ~secrets[Secret(x)].deleting
       /\ minted' = minted + 1
       /\ secrets' = [secrets EXCEPT ![Secret(x)].version = minted + 1]
       /\ Return(x)
       /\ UNCHANGED <<idps, clients, made, pins, told>>

ScheduleDeletion(x) ==
    /\ FedAt(x, "schedule")
    /\ secrets' = [secrets EXCEPT ![Secret(x)].deleting = secrets[Secret(x)].version # 0]
    /\ Return(x)
    /\ UNCHANGED <<idps, clients, minted, made, pins, told>>

\* The recovery window ends.
Purge(n) ==
    /\ secrets[n].deleting
    /\ secrets' = [secrets EXCEPT ![n] = [version |-> 0, deleting |-> FALSE]]
    /\ UNCHANGED <<idps, clients, calls, minted, made, pins, told>>

(***************************************************************************)
(* upsert: read the secret (OIDC) or vet the metadata (SAML), look the     *)
(* provider up, then create or update it.                                  *)
(***************************************************************************)
GetSecretValue(x) ==
    /\ FedAt(x, "read")
    /\ secrets[Secret(x)].version # 0 /\ ~secrets[Secret(x)].deleting
    /\ calls' = [calls EXCEPT ![x] = [@ EXCEPT !.version = secrets[Secret(x)].version,
                                                   !.step = "describe"]]
    /\ UNCHANGED <<secrets, idps, clients, minted, made, pins, told>>

\* Signed metadata, or unsigned with acceptUnsignedMetadata, goes on.
VetMetadata(x) ==
    /\ FedAt(x, "parse")
    /\ GoTo(x, "describe")
    /\ UNCHANGED <<secrets, idps, clients, minted, made, pins, told>>

DescribeExisting(x) ==
    /\ FedAt(x, "describe")
    /\ GoTo(x, IF idps[Name(x)] = NoIdp THEN "createIdp" ELSE "updateIdp")
    /\ UNCHANGED <<secrets, idps, clients, minted, made, pins, told>>

Registration(x) == [type |-> calls[x].op, tenant |-> calls[x].tenant, version |-> calls[x].version]

PinnedCurrent(x) == secrets[Secret(x)].version

\* The version the record pins is the one that was read and pushed.
PinnedVersion(x) == calls[x].version

\* Create refuses a name in use; Update a name not in use, and the details of
\* one protocol for a provider of the other (Fail).  The answer may be lost
\* after the write: the consumer sees an error and keeps its old pin.
WriteIdp(x) ==
    /\ \/ FedAt(x, "createIdp") /\ idps[Name(x)] = NoIdp
       \/ FedAt(x, "updateIdp") /\ idps[Name(x)].type = calls[x].op
    /\ idps' = [idps EXCEPT ![Name(x)] = Registration(x)]
    /\ \/ pins' = [pins EXCEPT ![calls[x].tenant] = PinnedVersion(x)]
       \/ UNCHANGED pins
    /\ Return(x)
    /\ UNCHANGED <<secrets, clients, minted, made, told>>

(***************************************************************************)
(* attachToAppClients and delete: each client's list is read and written   *)
(* back whole; delete then removes the provider.                           *)
(***************************************************************************)
DescribeClient(x, c) ==
    /\ FedAt(x, "describeClient")
    /\ c \in calls[x].todo
    /\ LET listed == Name(x) \in clients[c]
           done   == IF calls[x].op = "attach" THEN listed ELSE ~listed
       IN  calls' = [calls EXCEPT ![x] =
                       [@ EXCEPT !.seen = clients[c], !.todo = calls[x].todo \ {c}, !.on = {c},
                                 !.step = IF done THEN "describeClient" ELSE "updateClient"]]
    /\ told' = IF (Name(x) \in clients[c]) = (calls[x].op = "attach")
               THEN [told EXCEPT ![<<Name(x), c>>] = IF calls[x].op = "attach" THEN "in" ELSE "out"]
               ELSE told
    /\ UNCHANGED <<secrets, idps, clients, minted, made, pins>>

NewProviders(x) ==
    IF calls[x].op = "attach" THEN calls[x].seen \cup {Name(x)} ELSE calls[x].seen \ {Name(x)}

\* Cognito refuses a list that names an unregistered provider (Fail).
UpdateClient(x, c) ==
    /\ FedAt(x, "updateClient") /\ c \in calls[x].on
    /\ \A p \in NewProviders(x) : idps[p] # NoIdp
    /\ clients' = [clients EXCEPT ![c] = NewProviders(x)]
    /\ \/ /\ GoTo(x, "describeClient")
          /\ told' = [told EXCEPT ![<<Name(x), c>>] = IF calls[x].op = "attach" THEN "in" ELSE "out"]
       \/ Return(x) /\ Forget(x)                           \* the answer is lost
    /\ UNCHANGED <<secrets, idps, minted, made, pins>>

\* All the clients given are done: attach returns, delete removes the provider
\* (absent is success) whatever other clients list it.  The answer may be lost.
FedFinish(x) ==
    /\ FedAt(x, "describeClient")
    /\ calls[x].todo = {}
    /\ \/ calls[x].op = "attach" /\ UNCHANGED <<idps, pins, told>>
       \/ /\ calls[x].op = "delete"
          /\ idps' = [idps EXCEPT ![Name(x)] = NoIdp]
          /\ \/ pins' = [pins EXCEPT ![calls[x].tenant] = 0] /\ UNCHANGED told
             \/ UNCHANGED pins /\ Forget(x)
    /\ Return(x)
    /\ UNCHANGED <<secrets, clients, minted, made>>

FedStep(x) ==
    \/ Store(x) \/ ScheduleDeletion(x) \/ GetSecretValue(x) \/ VetMetadata(x)
    \/ DescribeExisting(x) \/ WriteIdp(x) \/ FedFinish(x)
    \/ \E c \in AppClients : DescribeClient(x, c) \/ UpdateClient(x, c)

FedNext == \/ \E x \in FedCallers : FedStep(x) \/ Fail(x)
           \/ \E x \in FedCallers, op \in Ops, t \in TenantIds, ids \in SUBSET AppClients :
                Call(x, op, t, ids)
           \/ \E n \in SecretNames : Purge(n)

FedSpec == FedInit /\ [][FedNext]_fedVars

(***************************************************************************)
(* Properties.                                                             *)
(***************************************************************************)
Quiet == \A x \in FedCallers : ~InManager(x)

\* "Drift between the pinned version and AWSCURRENT is the signal that
\* Cognito is holding a stale secret": when the consumer's pin is the current
\* version, Cognito holds that version, whatever calls failed on the way.
PinTellsDrift ==
    Quiet => \A t \in TenantIds :
        LET s == secrets[SecretName(t)]
        IN  /\ pins[t] # 0 /\ pins[t] = s.version
            /\ idps[NormaliseIdpName(t)].type = "oidc"
            => idps[NormaliseIdpName(t)].version = s.version

\* Serialised calls lose no attachment: what the consumer was told about a
\* client is what the client lists.  (Of a client that delete was not given it
\* was told nothing: that one goes on listing the deleted provider.)
AttachmentsAsTold ==
    Quiet => \A p \in ProviderNames, c \in AppClients :
        /\ told[<<p, c>>] = "in" => p \in clients[c]
        /\ told[<<p, c>>] = "out" => p \notin clients[c]

\* What a manager's answers tell the consumer stays true while it makes one call
\* at a time, whichever requests fail and whichever answers are lost.
ToldIsTrue == PinTellsDrift /\ AttachmentsAsTold

\* idp-name.ts: "If a second tenant would collide with an existing record, the
\* function throws": no upsert changes a provider another tenant registered.
ProviderStaysWithTenant ==
    [][\A p \in ProviderNames :
         idps[p] # NoIdp /\ idps'[p] # NoIdp => idps'[p].tenant = idps[p].tenant]_fedVars
=============================================================================
