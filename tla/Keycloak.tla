------------------------------ MODULE Keycloak -------------------------------
(***************************************************************************)
(* KeycloakIdentityProvider: users registered, imported, deleted and sent  *)
(* a link through Keycloak's REST API with a cached service token.  Each   *)
(* request is a step of Keycloak's, its answer arrives later or is lost,   *)
(* and calls of several processes overlap between a look-up and the write  *)
(* that follows it.                                                        *)
(***************************************************************************)
EXTENDS Naturals, FiniteSets

CONSTANTS Emails, Ids,       \* Ids: user ids, chosen by an import or by Keycloak
          IdpCalls,          \* calls of the port, each with attributes of its own
          TokenLife,         \* expires_in of a service token
          Slack,             \* TOKEN_EXPIRY_SLACK_MS
          IdpMaxTime

ASSUME IdpAssumption == TokenLife \in Nat /\ Slack \in Nat /\ IdpMaxTime \in Nat

VARIABLES idpNow,
          token,     \* cachedToken: when it was issued and cachedTokenExpiresAt
          secretOk,  \* whether Keycloak takes the service client's secret
          users,     \* Keycloak: the users, [id, email, by] with by the call that made it
          idpCall    \* per call: operation, arguments, where it is

idpVars == <<idpNow, token, secretOk, users, idpCall>>

NoToken == [expires |-> 0, dies |-> 0]
Ready == [op |-> "none", step |-> "new", email |-> "none", id |-> "none", found |-> {}, next |-> "none"]

IdpInit ==
    /\ idpNow = 0
    /\ token = NoToken
    /\ secretOk \in BOOLEAN
    /\ users = {}
    /\ idpCall = [c \in IdpCalls |-> Ready]

At(c, step) == idpCall[c].step = step
GoTo(c, step) == idpCall' = [idpCall EXCEPT ![c].step = step]

\* serviceToken: the cached token, or a new one, cached until shortly before
\* it dies.  The request that needs it follows.
TokenLifetime == IF TokenLife > Slack THEN TokenLife - Slack ELSE 0

NeedsToken(c) == At(c, "auth")
ServiceToken(c) ==
    /\ NeedsToken(c)
    /\ IF idpNow < token.expires THEN UNCHANGED token /\ GoTo(c, idpCall[c].next)
       ELSE \/ /\ secretOk
               /\ token' = [expires |-> idpNow + TokenLifetime, dies |-> idpNow + TokenLife]
               /\ GoTo(c, idpCall[c].next)
            \/ /\ ~secretOk /\ UNCHANGED token /\ GoTo(c, "unauthorized")
            \/ /\ UNCHANGED token /\ GoTo(c, "provider_error")       \* unreachable
    /\ UNCHANGED <<idpNow, secretOk, users>>

\* The next authed request of a call.
Authed(c, next) == idpCall' = [idpCall EXCEPT ![c] = [@ EXCEPT !.step = "auth", !.next = next]]

First(op) == CASE op = "createUser" -> "getUser"
               [] op \in {"registerUser", "deleteUser"} -> "findByEmail"
               [] op = "initiateMagicLink" -> "magicLink"

StartCall(c, op, email, id) ==
    /\ At(c, "new")
    /\ idpCall' = [idpCall EXCEPT ![c] = [op |-> op, step |-> "auth", email |-> email, id |-> id,
                                    found |-> {}, next |-> First(op)]]
    /\ UNCHANGED <<idpNow, token, secretOk, users>>

\* Keycloak refuses a token that is dead by the time the request arrives.
Rejected(c) ==
    /\ idpCall[c].step \in {"getUser", "findByEmail", "partialImport", "postUser", "delete", "magicLink"}
    /\ \/ idpNow >= token.dies /\ GoTo(c, "unauthorized")
       \/ GoTo(c, "provider_error")                                  \* nothing was done
    /\ UNCHANGED <<idpNow, token, secretOk, users>>

Works == idpNow < token.dies

GetUser(c) ==
    /\ At(c, "getUser") /\ Works
    /\ IF \E u \in users : u.id = idpCall[c].id THEN GoTo(c, "conflict") ELSE Authed(c, "findByEmail")
    /\ UNCHANGED <<idpNow, token, secretOk, users>>

FindUsersByEmail(c) ==
    /\ At(c, "findByEmail") /\ Works
    /\ LET found == {u.id : u \in {v \in users : v.email = idpCall[c].email}}
       IN  CASE idpCall[c].op = "createUser" -> IF found # {} THEN GoTo(c, "conflict") ELSE Authed(c, "partialImport")
             [] idpCall[c].op = "registerUser" -> IF found # {} THEN GoTo(c, "exists") ELSE Authed(c, "postUser")
             [] idpCall[c].op = "deleteUser" ->
                  idpCall' = [idpCall EXCEPT ![c] = [@ EXCEPT !.found = found, !.next = "delete",
                                       !.step = IF found = {} THEN "done" ELSE "auth"]]
    /\ UNCHANGED <<idpNow, token, secretOk, users>>

Taken(id, email) == \E u \in users : u.id = id \/ u.email = email
NewUser(c, id) == [id |-> id, email |-> idpCall[c].email, by |-> c]

\* The write is done; its answer, or an error after it, reaches the caller.
Answer(c, result) == GoTo(c, result) \/ GoTo(c, "provider_error")

\* createUser's import keeps the caller's id; an existing user is skipped.
PartialImport(c) ==
    /\ At(c, "partialImport") /\ Works
    /\ IF Taken(idpCall[c].id, idpCall[c].email) THEN UNCHANGED users /\ Answer(c, "conflict")
       ELSE users' = users \cup {NewUser(c, idpCall[c].id)} /\ Answer(c, "created")
    /\ UNCHANGED <<idpNow, token, secretOk>>

\* Mutant: the 409 of a lost race is answered like a creation.
PostUser_Claimed(c) ==
    /\ At(c, "postUser") /\ Works
    /\ IF \E u \in users : u.email = idpCall[c].email THEN UNCHANGED users
       ELSE \E id \in Ids : (\A u \in users : u.id # id) /\ users' = users \cup {NewUser(c, id)}
    /\ Answer(c, "created")
    /\ UNCHANGED <<idpNow, token, secretOk>>

\* registerUser: Keycloak chooses the id; a lost race is a 409.
PostUser(c) ==
    /\ At(c, "postUser") /\ Works
    /\ IF \E u \in users : u.email = idpCall[c].email THEN UNCHANGED users /\ Answer(c, "exists")
       ELSE \E id \in Ids : /\ \A u \in users : u.id # id
                            /\ users' = users \cup {NewUser(c, id)}
                            /\ Answer(c, "created")
    /\ UNCHANGED <<idpNow, token, secretOk>>

\* deleteUser: what the look-up found, by id; one that is gone is no error.
DeleteUser(c) ==
    /\ At(c, "delete") /\ Works
    /\ users' = {u \in users : u.id \notin idpCall[c].found}
    /\ Answer(c, "done")
    /\ UNCHANGED <<idpNow, token, secretOk>>

\* initiateMagicLink; an unknown address becomes a user only with force_create.
InitiateMagicLink(c, forceCreate) ==
    /\ At(c, "magicLink") /\ Works
    /\ IF \E u \in users : u.email = idpCall[c].email THEN UNCHANGED users /\ Answer(c, "link")
       ELSE IF ~forceCreate THEN UNCHANGED users /\ Answer(c, "unknown_user")
       ELSE \E id \in Ids : /\ \A u \in users : u.id # id
                            /\ users' = users \cup {NewUser(c, id)}
                            /\ Answer(c, "link")
    /\ UNCHANGED <<idpNow, token, secretOk>>

\* The operator rotates the service client's secret.
RotateSecret == secretOk' = ~secretOk /\ UNCHANGED <<idpNow, token, users, idpCall>>
IdpTick == idpNow < IdpMaxTime /\ idpNow' = idpNow + 1 /\ UNCHANGED <<token, secretOk, users, idpCall>>

IdpOps == {"createUser", "registerUser", "deleteUser", "initiateMagicLink"}

IdpNext ==
    \/ \E c \in IdpCalls :
          \/ \E op \in IdpOps, e \in Emails, id \in Ids : StartCall(c, op, e, id)
          \/ ServiceToken(c) \/ Rejected(c) \/ GetUser(c) \/ FindUsersByEmail(c)
          \/ PartialImport(c) \/ PostUser(c) \/ DeleteUser(c)
          \/ \E forceCreate \in BOOLEAN : InitiateMagicLink(c, forceCreate)
    \/ RotateSecret \/ IdpTick

IdpSpec == IdpInit /\ [][IdpNext]_idpVars

(***************************************************************************)
(* "Fails-not-overwrites": however calls overlap and answers get lost, a   *)
(* user's id, address and attributes stay what the call that made it gave, *)
(* no address or id has two users, and at most one caller per user is told *)
(* it was created.                                                         *)
(***************************************************************************)
\* A replayed or racing registration rewrites nobody: users only come and go.
FailsNotOverwrites ==
    /\ \A u, v \in users : u.id = v.id \/ u.email = v.email => u = v
    /\ \A c \in IdpCalls : At(c, "exists") \/ At(c, "conflict") => \A u \in users : u.by # c
    /\ \A c \in IdpCalls : At(c, "created") =>
          \/ \E u \in users : u.by = c
          \/ \E d \in IdpCalls : idpCall[d].op = "deleteUser" /\ idpCall[d].step \in {"done", "provider_error"}
=============================================================================
