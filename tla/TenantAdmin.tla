----------------------------- MODULE TenantAdmin -----------------------------
(***************************************************************************)
(* The admin Lambda of a shared distribution (packages/vestibulum,         *)
(* shared-distribution/admin): createTenant, updateTenant, deleteTenant.   *)
(*                                                                         *)
(* A tenant is an app client in the Cognito pool and a row in ClientConfig *)
(* with the same client id.  Cognito draws the id, so the create request   *)
(* that made a client names it.  Every await ends a step: requests         *)
(* interleave there, a dependency fails there, and the Lambda dies there.  *)
(* Requests the schema refuses touch no state and are not modelled;        *)
(* getTenant and listTenants only read.                                    *)
(***************************************************************************)
EXTENDS Integers, FiniteSets

CONSTANTS
    Creates, Deletes, Updates,  \* requests; a create names the client it makes
    Subdomains, TenantIds,
    IdemKeys,         \* idempotency keys callers choose
    NoTenant,         \* no client
    Original,         \* the allow-list a tenant was created with
    ResLife,          \* lifetime of a reservation (60 s)
    IdemLife,         \* lifetime of an idempotency record (24 h)
    Deadline,         \* the Lambda's timeout, counted from the clock reading
    MaxTime,          \* bound: the clock stops here
    Faults            \* what may go wrong in this instance

Requests == Creates \union Deletes \union Updates

ASSUME AdminAssumption ==
    /\ NoTenant \notin Creates /\ Original \notin Updates
    /\ Creates \intersect Deletes = {} /\ Creates \intersect Updates = {}
    /\ Deletes \intersect Updates = {}
    /\ Subdomains # {} /\ TenantIds # {} /\ IdemKeys # {}
    /\ ResLife \in Nat \ {0} /\ IdemLife \in Nat \ {0} /\ Deadline \in Nat
    /\ MaxTime \in Nat
    /\ Faults \subseteq {"ddb", "cognito", "crash", "stale"}

VARIABLES
    now,
    idem,       \* IdempotencyTable: the create whose response is stored
    idemExp,    \* ... and until when
    resExp,     \* ReservationsTable: expires_at of each key, -1 when absent
    clients,    \* Cognito: app clients
    rows,       \* ClientConfigTable: rows
    allow,      \* ... allowedEmailDomains: the update that wrote it last
    made, ever, \* history: client ids ever made, and ever given a row
    pc,         \* where each request is
    form,       \* parameters of each create
    who,        \* tenant id each delete and update is about
    target,     \* client id each delete and update found
    at,         \* create: the clock as read before reserving
    rel,        \* create: reservation deletes in flight
    answer      \* create: the client id in the 200 response

tables == <<idem, idemExp, resExp, rows, allow, ever>>

pool == <<clients, made>>

locals == <<form, who, target, at, rel, answer>>

vars == <<now, tables, pool, pc, locals>>

Absent == -1

\* The two reservation keys of a create.
ResKeys == ({"subdomain"} \X Subdomains) \union ({"tenantId"} \X TenantIds)

KeysOf(f) == {<<"subdomain", f.sub>>, <<"tenantId", f.ten>>}

\* `${idempotencyKey}#${subdomain}`
IdemIds == IdemKeys \X Subdomains

IdemId(f) == <<f.key, f.sub>>

Forms == [sub : Subdomains, ten : TenantIds, key : IdemKeys]

CreatePcs == {"check", "reserve", "client", "row", "compensate", "record",
              "release"}

DeletePcs == {"find", "revoke", "dclient", "drow"}

UpdatePcs == {"find", "write"}

Ends == {"ok", "conflict", "notfound", "error"}

\* After the client create failed or was compensated, the request still
\* releases its reservations before it reports the error.
Pcs == {"idle", "releaseError"} \union CreatePcs \union DeletePcs
         \union UpdatePcs \union Ends

TypeOK ==
    /\ now \in 0..MaxTime
    /\ idem \in [IdemIds -> Creates \union {NoTenant}]
    /\ idemExp \in [IdemIds -> Nat]
    /\ resExp \in [ResKeys -> Nat \union {Absent}]
    /\ clients \subseteq Creates /\ rows \subseteq Creates
    /\ allow \in [Creates -> Updates \union {Original}]
    /\ made \subseteq Creates /\ ever \subseteq Creates
    /\ pc \in [Requests -> Pcs]
    /\ form \in [Creates -> Forms]
    /\ who \in [Deletes \union Updates -> TenantIds]
    /\ target \in [Deletes \union Updates -> Creates \union {NoTenant}]
    /\ at \in [Creates -> 0..MaxTime]
    /\ rel \in [Creates -> SUBSET ResKeys]
    /\ answer \in [Creates -> Creates \union {NoTenant}]

Init ==
    /\ now = 0
    /\ idem = [i \in IdemIds |-> NoTenant] /\ idemExp = [i \in IdemIds |-> 0]
    /\ resExp = [k \in ResKeys |-> Absent]
    /\ clients = {} /\ rows = {} /\ made = {} /\ ever = {}
    /\ allow = [c \in Creates |-> Original]
    /\ pc = [r \in Requests |-> "idle"]
    /\ form \in [Creates -> Forms]
    /\ who \in [Deletes \union Updates -> TenantIds]
    /\ target = [r \in Deletes \union Updates |-> NoTenant]
    /\ at = [c \in Creates |-> 0]
    /\ rel = [c \in Creates |-> {}]
    /\ answer = [c \in Creates |-> NoTenant]

-----------------------------------------------------------------------------
At(r, where) == pc[r] = where

Goto(r, where) == pc' = [pc EXCEPT ![r] = where]

\* A remote call is done and answered, refused, or done with the answer lost.
Outcomes(dependency) ==
    {"ok"} \union (IF dependency \in Faults THEN {"failed", "lost"} ELSE {})

Submit(r) ==
    /\ At(r, "idle") /\ Goto(r, IF r \in Creates THEN "check" ELSE "find")
    /\ UNCHANGED <<now, tables, pool, locals>>

-----------------------------------------------------------------------------
(* createTenant *)

Recorded(f) ==
    /\ idem[IdemId(f)] # NoTenant
    /\ now < idemExp[IdemId(f)]

\* GetItem on the idempotency table (not consistent: it may miss a record),
\* expiry, and the comparison of the stored tenant; a miss reads the clock.
CheckIdempotency(c) ==
    /\ At(c, "check")
    /\ LET stored == idem[IdemId(form[c])]
           hit == Recorded(form[c])
       IN \/ /\ hit /\ form[stored].ten = form[c].ten
             /\ Goto(c, "ok")
             /\ answer' = [answer EXCEPT ![c] = stored]
             /\ UNCHANGED at
          \/ /\ hit /\ form[stored].ten # form[c].ten
             /\ Goto(c, "conflict") /\ UNCHANGED <<answer, at>>
          \/ /\ ~hit \/ "stale" \in Faults
             /\ Goto(c, "reserve")
             /\ at' = [at EXCEPT ![c] = now]
             /\ UNCHANGED answer
          \/ "ddb" \in Faults /\ Goto(c, "error") /\ UNCHANGED <<answer, at>>
    /\ UNCHANGED <<now, tables, pool, form, who, target, rel>>

\* Mutant: a reservation is free in its last second.
Free_Inclusive(k, t) == resExp[k] = Absent \/ resExp[k] <= t

\* Mutant: only a key that is not there is free.
Free_NotExists(k, t) == resExp[k] = Absent

\* attribute_not_exists(#k) OR #exp < :now
Free(k, t) == resExp[k] = Absent \/ resExp[k] < t

\* TransactWriteItems: both keys or none.  A cancelled transaction is answered with
\* 409 whatever its CancellationReasons are: a failed condition, or a conflict or
\* throttling inside DynamoDB.  Any other error is rethrown, and the keys are not
\* released.
Reserve(c) ==
    /\ At(c, "reserve")
    /\ LET free == \A k \in KeysOf(form[c]) : Free(k, at[c])
           reserved == [k \in ResKeys |-> IF k \in KeysOf(form[c])
                                            THEN at[c] + ResLife ELSE resExp[k]]
       IN \/ free /\ resExp' = reserved /\ Goto(c, "client")
          \/ (~free \/ "ddb" \in Faults) /\ UNCHANGED resExp /\ Goto(c, "conflict")
          \/ /\ "ddb" \in Faults /\ Goto(c, "error")
             /\ (UNCHANGED resExp \/ (free /\ resExp' = reserved))
    /\ UNCHANGED <<now, idem, idemExp, rows, allow, ever, pool, locals>>

\* releaseReservations begins: two unconditional deletes in parallel.
StartRelease(c) == rel' = [rel EXCEPT ![c] = KeysOf(form[c])]

\* Cognito draws a new client id; an error releases before it is rethrown.
CreateClient(c) ==
    /\ At(c, "client")
    /\ \E o \in Outcomes("cognito") :
         /\ clients' = IF o = "failed" THEN clients ELSE clients \union {c}
         /\ made' = IF o = "failed" THEN made ELSE made \union {c}
         /\ \/ o = "ok" /\ Goto(c, "row") /\ UNCHANGED rel
            \/ o # "ok" /\ Goto(c, "releaseError") /\ StartRelease(c)
    /\ UNCHANGED <<now, tables, form, who, target, at, answer>>

\* The row with the original allow-list; its client id is new.
PutRow(c) ==
    /\ At(c, "row")
    /\ \E o \in Outcomes("ddb") :
         /\ rows' = IF o = "failed" THEN rows ELSE rows \union {c}
         /\ ever' = IF o = "failed" THEN ever ELSE ever \union {c}
         /\ Goto(c, IF o = "ok" THEN "record" ELSE "compensate")
    /\ UNCHANGED <<now, idem, idemExp, resExp, allow, pool, locals>>

\* Best effort: the client goes, or stays behind as an orphan.
Compensate(c) ==
    /\ At(c, "compensate") /\ Goto(c, "releaseError")
    /\ \E o \in Outcomes("cognito") :
         clients' = IF o = "failed" THEN clients ELSE clients \ {c}
    /\ StartRelease(c)
    /\ UNCHANGED <<now, tables, made, form, who, target, at, answer>>

\* Best effort: the response under the composite key.
RecordResponse(c) ==
    /\ At(c, "record") /\ Goto(c, "release")
    /\ \E o \in Outcomes("ddb") :
         IF o = "failed" THEN UNCHANGED <<idem, idemExp>>
         ELSE /\ idem' = [idem EXCEPT ![IdemId(form[c])] = c]
              /\ idemExp' = [idemExp EXCEPT ![IdemId(form[c])] = now + IdemLife]
    /\ StartRelease(c)
    /\ UNCHANGED <<now, resExp, rows, allow, ever, pool, form, who, target, at,
                   answer>>

\* What the request reports once releaseReservations settled.
Settle(c) ==
    \/ /\ At(c, "release") /\ Goto(c, "ok")
       /\ answer' = [answer EXCEPT ![c] = c]
    \/ At(c, "releaseError") /\ Goto(c, "error") /\ UNCHANGED answer
    \/ pc[c] \in Ends /\ UNCHANGED <<pc, answer>>

\* One of the two deletes.  Promise.all settles on the first failure, with the
\* other delete still in flight.
ReleaseKey(c, k) ==
    /\ k \in rel[c]
    /\ rel' = [rel EXCEPT ![c] = @ \ {k}]
    /\ \E o \in Outcomes("ddb") :
         /\ resExp' = IF o = "failed" THEN resExp ELSE [resExp EXCEPT ![k] = Absent]
         /\ IF o # "ok" \/ rel'[c] = {} THEN Settle(c) ELSE UNCHANGED <<pc, answer>>
    /\ UNCHANGED <<now, idem, idemExp, rows, allow, ever, pool, form, who, target,
                   at>>

CreateStep(c) ==
    \/ CheckIdempotency(c) \/ Reserve(c) \/ CreateClient(c) \/ PutRow(c)
    \/ Compensate(c) \/ RecordResponse(c) \/ \E k \in ResKeys : ReleaseKey(c, k)

-----------------------------------------------------------------------------
(* deleteTenant *)

\* Query on TenantIdIndex with Limit 1.  The index lags behind the table.
Visible(t) ==
    {x \in (IF "stale" \in Faults THEN ever ELSE rows) : form[x].ten = t}

\* The query of a delete or an update; found is where the request goes on.
Find(r, found) ==
    /\ At(r, "find")
    /\ \/ \E x \in Visible(who[r]) :
            target' = [target EXCEPT ![r] = x] /\ Goto(r, found)
       \/ /\ {x \in rows : form[x].ten = who[r]} = {} \/ "stale" \in Faults
          /\ Goto(r, "notfound") /\ UNCHANGED target
       \/ "ddb" \in Faults /\ Goto(r, "error") /\ UNCHANGED target
    /\ UNCHANGED <<now, tables, pool, form, who, at, rel, answer>>

\* revokeActiveSessions is optional.
FindForDelete(d) == \E next \in {"revoke", "dclient"} : Find(d, next)

\* Every user of the pool is signed out, best effort; listing them may throw.
\* The sessions themselves are not part of this module.
Revoke(d) ==
    /\ At(d, "revoke")
    /\ \/ Goto(d, "dclient")
       \/ "cognito" \in Faults /\ Goto(d, "error")
    /\ UNCHANGED <<now, tables, pool, locals>>

\* Mutant: the row goes first.
DeleteClient_RowFirst(d) ==
    /\ At(d, "dclient") /\ Goto(d, "drow")
    /\ rows' = rows \ {target[d]}
    /\ UNCHANGED <<now, idem, idemExp, resExp, allow, ever, pool, locals>>

\* An unknown client is an error like any other: the row is kept.
DeleteClient(d) ==
    /\ At(d, "dclient")
    /\ \E o \in Outcomes("cognito") :
         /\ clients' = IF o = "failed" THEN clients ELSE clients \ {target[d]}
         /\ Goto(d, IF o = "ok" /\ target[d] \in clients THEN "drow" ELSE "error")
    /\ UNCHANGED <<now, tables, made, locals>>

DeleteRow(d) ==
    /\ At(d, "drow")
    /\ \E o \in Outcomes("ddb") :
         /\ rows' = IF o = "failed" THEN rows ELSE rows \ {target[d]}
         /\ Goto(d, IF o = "ok" THEN "ok" ELSE "error")
    /\ UNCHANGED <<now, idem, idemExp, resExp, allow, ever, pool, locals>>

DeleteStep(d) == FindForDelete(d) \/ Revoke(d) \/ DeleteClient(d) \/ DeleteRow(d)

-----------------------------------------------------------------------------
(* updateTenant *)

\* UpdateItem on condition that the row exists.
WriteAllowList(u) ==
    /\ At(u, "write")
    /\ \E o \in Outcomes("ddb") :
         /\ allow' = IF o # "failed" /\ target[u] \in rows
                       THEN [allow EXCEPT ![target[u]] = u] ELSE allow
         /\ Goto(u, IF o = "ok" /\ target[u] \in rows THEN "ok" ELSE "error")
    /\ UNCHANGED <<now, idem, idemExp, resExp, rows, ever, pool, locals>>

UpdateStep(u) == Find(u, "write") \/ WriteAllowList(u)

-----------------------------------------------------------------------------
(* The Lambda, the users and the clock. *)

Running(r) == pc[r] \notin {"idle"} \union Ends

\* Killed or timed out: the caller sees an error; what is in flight is dropped.
Dies(r) ==
    /\ Running(r) /\ "crash" \in Faults /\ Goto(r, "error")
    /\ rel' = IF r \in Creates THEN [rel EXCEPT ![r] = {}] ELSE rel
    /\ UNCHANGED <<now, tables, pool, form, who, target, at, answer>>

\* The reservations a create still has: both until it begins to release them,
\* then the ones whose delete is in flight.
Held(c) ==
    IF pc[c] \in {"client", "row", "compensate", "record"}
      THEN KeysOf(form[c]) ELSE rel[c]

\* No create outlives the Lambda's timeout.
Tick ==
    /\ now < MaxTime
    /\ \A c \in Creates :
         At(c, "reserve") \/ Held(c) # {} => now < at[c] + Deadline
    /\ now' = now + 1
    /\ UNCHANGED <<tables, pool, pc, locals>>

RequestStep(r) ==
    \/ r \in Creates /\ CreateStep(r)
    \/ r \in Deletes /\ DeleteStep(r)
    \/ r \in Updates /\ UpdateStep(r)

Next ==
    \/ \E r \in Requests : Submit(r) \/ RequestStep(r) \/ Dies(r)
    \/ Tick

Spec == Init /\ [][Next]_vars

-----------------------------------------------------------------------------
(* Properties. *)

\* Two creates never hold the same subdomain or tenant id, and the unconditional
\* deletes of one never remove the reservation of another, as long as the
\* Lambda's timeout is no longer than a reservation: crashes, half-failed writes
\* and half-failed releases leave reservations behind but never let two in.
ReservationExcludes ==
    Deadline <= ResLife =>
      \A c1, c2 \in Creates :
        c1 # c2 => Held(c1) \intersect Held(c2) = {}

\* A 200 from createTenant, first-hand or replayed, names a client made for the
\* same subdomain and tenant; client and row are there, and stay there unless a
\* delete found that client.
AnswerIsServed ==
    \A c \in Creates :
      LET x == answer[c] IN
      x # NoTenant =>
        /\ form[x].sub = form[c].sub /\ form[x].ten = form[c].ten
        /\ (x \in clients /\ x \in rows) \/ \E d \in Deletes : target[d] = x

\* A create that comes to reserve finds its names free, unless another one that
\* shares a name has reserved within a reservation's life: creates that crash, lose
\* an answer or release only one of their keys block a name for that long and no
\* longer.  (It may be told "in use" all the same, see Reserve.)
NamesComeFree ==
    \A c \in Creates : At(c, "reserve") =>
        \/ \A k \in KeysOf(form[c]) : Free(k, at[c])
        \/ \E other \in Creates \ {c} :
              /\ pc[other] \notin {"idle", "check", "reserve", "conflict"}
              /\ KeysOf(form[other]) \intersect KeysOf(form[c]) # {}
              /\ at[c] <= at[other] + ResLife

\* Deleting takes the client before the row, whatever races or fails: no client
\* that was ever served is left minting tokens without its row.
ClientNeverOutlivesRow ==
    \A x \in clients : x \in ever => x \in rows

\* A deleted row never comes back, not by an update that found it before.
NoResurrection ==
    [][\A x \in ever : x \notin rows => x \notin rows']_vars

-----------------------------------------------------------------------------
(* What the documentation says and the code does not do. *)

\* "Unique under this identity": no two tenants are served on one subdomain.
SubdomainUnique ==
    \A x, y \in clients \intersect rows :
      form[x].sub = form[y].sub => x = y

-----------------------------------------------------------------------------
(* The inductive invariants behind the safety properties. *)

Early == {"idle", "check", "reserve", "client"}

Holds == {"client", "row", "compensate", "record"}

\* What is reserved is reserved until the lifetime after the holder's reading of
\* the clock, and the holder is still within the Lambda's timeout.
HoldInv ==
    /\ \A c \in Creates :
         /\ at[c] <= now
         /\ At(c, "reserve") \/ Held(c) # {} => now <= at[c] + Deadline
         /\ \A k \in Held(c) : resExp[k] = at[c] + ResLife
         /\ rel[c] \subseteq KeysOf(form[c])
         /\ pc[c] \in Early \union Holds => rel[c] = {}
    /\ \A c1, c2 \in Creates : c1 # c2 => Held(c1) \intersect Held(c2) = {}

\* Client and row of each id, and how far its create and its deletes have come.
LifeInv ==
    /\ clients \subseteq made /\ ever \subseteq made /\ rows \subseteq ever
    /\ \A c \in Creates :
         /\ pc[c] \in Early => c \notin made
         /\ At(c, "row") => c \in clients /\ c \notin ever
    /\ \A r \in Deletes \union Updates :
         /\ pc[r] \in {"revoke", "dclient", "drow", "write"} => target[r] \in ever
         /\ target[r] # NoTenant => target[r] \in ever
         /\ pc[r] \in {"idle", "find"} => target[r] = NoTenant
    /\ \A d \in Deletes : At(d, "drow") => target[d] \notin clients
    /\ ClientNeverOutlivesRow

\* A client whose create is past its row write is there, or a delete found it.
Standing(x) == (x \in clients /\ x \in rows) \/ \E d \in Deletes : target[d] = x

\* Only such clients are recorded under an idempotency key or answered with.
ServedInv ==
    /\ \A c \in Creates : pc[c] \in {"record", "release"} => Standing(c)
    /\ \A i \in IdemIds : idem[i] # NoTenant =>
         /\ form[idem[i]].sub = i[2] /\ Standing(idem[i])
         /\ pc[idem[i]] \in {"release", "ok", "error"}
    /\ \A c \in Creates : answer[c] # NoTenant => pc[answer[c]] \in {"release", "ok", "error"}
    /\ AnswerIsServed

AdminInv == (Deadline <= ResLife => HoldInv) /\ LifeInv /\ ServedInv

-----------------------------------------------------------------------------
(* The lifecycle this implements. *)

stageOf ==
    [x \in Creates |->
       IF x \notin made THEN "none"
       ELSE IF x \in clients THEN IF x \in rows THEN "served" ELSE "client"
       ELSE IF x \in rows THEN "garbage" ELSE "gone"]

Lifecycle == INSTANCE TenantLifecycle WITH Tenants <- Creates, stage <- stageOf

\* The admin operations, however they interleave and fail, take each tenant
\* through the lifecycle and nowhere else.
ImplementsLifecycle == Lifecycle!Spec

=============================================================================
