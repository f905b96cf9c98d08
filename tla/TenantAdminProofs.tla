-------------------------- MODULE TenantAdminProofs --------------------------
(***************************************************************************)
(* Proofs about TenantAdmin, for all requests, names, lifetimes and faults.*)
(* The inductive invariant is TypeOK /\ AdminInv.  HoldInv is the argument *)
(* of the reservations: a holder's reservation bears the holder's own      *)
(* expiry, so one that looks expired to a newcomer would make the holder   *)
(* older than the Lambda's timeout.  LifeInv follows the two halves of a   *)
(* tenant, ServedInv what is recorded and answered.  ScanInv, below, is    *)
(* what the reconciler's two readings have in common with the tables they  *)
(* are taken from, and Attributed gives every reservation its create.      *)
(***************************************************************************)
EXTENDS Reconciler, TLAPS

\* The keys a create reserves and the key it is recorded under are keys of the
\* two tables.
LEMMA FormKeys == ASSUME NEW f \in Forms
                  PROVE  KeysOf(f) \subseteq ResKeys /\ IdemId(f) \in IdemIds
  BY DEF Forms, KeysOf, ResKeys, IdemId, IdemIds

\* The initial state is well typed.
LEMMA TypeInit == Init => TypeOK
  BY AdminAssumption DEF Init, TypeOK, Pcs, Absent, Requests

\* Every step keeps the state well typed.
LEMMA TypeStep == TypeOK /\ [Next]_vars => TypeOK'
<1> SUFFICES ASSUME TypeOK, [Next]_vars PROVE TypeOK'
  OBVIOUS
<1> USE AdminAssumption
    DEF TypeOK, Goto, At, Pcs, CreatePcs, DeletePcs, UpdatePcs, Ends, tables, pool,
        locals, Requests
<1>1. ASSUME NEW r \in Requests, Submit(r) PROVE TypeOK'
  BY <1>1 DEF Submit
<1>2. ASSUME NEW c \in Creates, CreateStep(c) PROVE TypeOK'
  <2>0. KeysOf(form[c]) \subseteq ResKeys /\ IdemId(form[c]) \in IdemIds
    BY FormKeys
  <2>1. CASE CheckIdempotency(c)
    BY <2>0, <2>1 DEF CheckIdempotency, Recorded
  <2>2. CASE Reserve(c)
    <3>1. resExp' \in [ResKeys -> Nat \union {Absent}]
      BY <2>2 DEF Reserve
    <3> QED  BY <2>2, <3>1 DEF Reserve
  <2>3. CASE CreateClient(c)
    BY <2>0, <2>3 DEF CreateClient, StartRelease
  <2>4. CASE PutRow(c)
    BY <2>4 DEF PutRow
  <2>5. CASE Compensate(c)
    BY <2>0, <2>5 DEF Compensate, StartRelease
  <2>6. CASE RecordResponse(c)
    BY <2>0, <2>6 DEF RecordResponse, StartRelease
  <2>7. ASSUME NEW k \in ResKeys, ReleaseKey(c, k) PROVE TypeOK'
    BY <2>7 DEF ReleaseKey, Settle, Absent
  <2> QED
    BY <1>2, <2>1, <2>2, <2>3, <2>4, <2>5, <2>6, <2>7 DEF CreateStep
<1>3. ASSUME NEW r \in Deletes \union Updates, NEW found \in Pcs, Find(r, found)
      PROVE  TypeOK'
  BY <1>3 DEF Find, Visible
<1>4. ASSUME NEW d \in Deletes, DeleteStep(d) PROVE TypeOK'
  BY <1>3, <1>4 DEF DeleteStep, FindForDelete, Revoke, DeleteClient, DeleteRow
<1>5. ASSUME NEW u \in Updates, UpdateStep(u) PROVE TypeOK'
  BY <1>3, <1>5 DEF UpdateStep, WriteAllowList
<1>6. ASSUME NEW r \in Requests, Dies(r) PROVE TypeOK'
  BY <1>6 DEF Dies
<1>7. CASE Tick
  BY <1>7 DEF Tick
<1>8. CASE UNCHANGED vars
  BY <1>8 DEF vars
<1> QED
  BY <1>1, <1>2, <1>4, <1>5, <1>6, <1>7, <1>8 DEF Next, RequestStep

\* The state of the tables, of Cognito and of every request stays well typed.
THEOREM TypeCorrect == Spec => []TypeOK
  BY TypeInit, TypeStep, PTL DEF Spec

-----------------------------------------------------------------------------
\* Client and row of every tenant: the steps that create, delete and update.
LEMMA LifeStep == TypeOK /\ LifeInv /\ [Next]_vars => LifeInv'
<1> SUFFICES ASSUME TypeOK, LifeInv, [Next]_vars PROVE LifeInv'
  OBVIOUS
<1> USE AdminAssumption
    DEF TypeOK, LifeInv, ClientNeverOutlivesRow, Goto, At, Early, Ends, tables, pool,
        locals, Requests
<1>1. ASSUME NEW r \in Requests, Submit(r) PROVE LifeInv'
  BY <1>1 DEF Submit
<1>2. ASSUME NEW c \in Creates, CreateStep(c) PROVE LifeInv'
  <2>1. CASE CheckIdempotency(c)
    BY <2>1 DEF CheckIdempotency
  <2>2. CASE Reserve(c)
    BY <2>2 DEF Reserve
  <2>3. CASE CreateClient(c)
    BY <2>3 DEF CreateClient
  <2>4. CASE PutRow(c)
    BY <2>4 DEF PutRow
  <2>5. CASE Compensate(c)
    BY <2>5 DEF Compensate
  <2>6. CASE RecordResponse(c)
    BY <2>6 DEF RecordResponse
  <2>7. ASSUME NEW k \in ResKeys, ReleaseKey(c, k) PROVE LifeInv'
    BY <2>7 DEF ReleaseKey, Settle
  <2> QED
    BY <1>2, <2>1, <2>2, <2>3, <2>4, <2>5, <2>6, <2>7 DEF CreateStep
<1>3. ASSUME NEW r \in Deletes \union Updates, NEW found \in {"revoke", "dclient", "write"},
             Find(r, found)
      PROVE  LifeInv'
  BY <1>3 DEF Find, Visible
<1>4. ASSUME NEW d \in Deletes, DeleteStep(d) PROVE LifeInv'
  <2>1. CASE Revoke(d)
    BY <2>1 DEF Revoke
  <2>2. CASE DeleteClient(d)
    BY <2>2 DEF DeleteClient
  <2>3. CASE DeleteRow(d)
    BY <2>3 DEF DeleteRow
  <2> QED  BY <1>3, <1>4, <2>1, <2>2, <2>3 DEF DeleteStep, FindForDelete
<1>5. ASSUME NEW u \in Updates, UpdateStep(u) PROVE LifeInv'
  BY <1>3, <1>5 DEF UpdateStep, WriteAllowList
<1>6. ASSUME NEW r \in Requests, Dies(r) PROVE LifeInv'
  BY <1>6 DEF Dies
<1>7. CASE Tick \/ UNCHANGED vars
  BY <1>7 DEF Tick, vars
<1> QED
  BY <1>1, <1>2, <1>4, <1>5, <1>6, <1>7 DEF Next, RequestStep

-----------------------------------------------------------------------------
\* What is recorded and answered stays standing until a delete finds it.
LEMMA ServedStep == TypeOK /\ LifeInv /\ ServedInv /\ [Next]_vars => ServedInv'
<1> SUFFICES ASSUME TypeOK, LifeInv, ServedInv, [Next]_vars PROVE ServedInv'
  OBVIOUS
<1> USE AdminAssumption
    DEF TypeOK, ServedInv, AnswerIsServed, Standing, Goto, At, Ends, tables, pool,
        locals, Requests
<1>1. ASSUME NEW r \in Requests, Submit(r) PROVE ServedInv'
  BY <1>1 DEF Submit
<1>2. ASSUME NEW c \in Creates, CreateStep(c) PROVE ServedInv'
  <2>0. IdemId(form[c]) \in IdemIds /\ IdemId(form[c])[2] = form[c].sub
    BY FormKeys DEF IdemId
  <2>1. CASE CheckIdempotency(c)
    BY <2>0, <2>1 DEF CheckIdempotency, Recorded
  <2>2. CASE Reserve(c)
    BY <2>2 DEF Reserve
  <2>3. CASE CreateClient(c)
    BY <2>3 DEF CreateClient
  <2>4. CASE PutRow(c)
    BY <2>4 DEF PutRow, LifeInv
  <2>5. CASE Compensate(c)
    BY <2>5 DEF Compensate
  <2>6. CASE RecordResponse(c)
    BY <2>0, <2>6 DEF RecordResponse
  <2>7. ASSUME NEW k \in ResKeys, ReleaseKey(c, k) PROVE ServedInv'
    BY <2>7 DEF ReleaseKey, Settle
  <2> QED
    BY <1>2, <2>1, <2>2, <2>3, <2>4, <2>5, <2>6, <2>7 DEF CreateStep
<1>3. ASSUME NEW r \in Deletes \union Updates, NEW found \in {"revoke", "dclient", "write"},
             Find(r, found)
      PROVE  ServedInv'
  <2>1. \A d \in Deletes : target[d] # NoTenant => target'[d] = target[d]
    BY <1>3 DEF Find, LifeInv
  <2>2. \A x \in Creates : Standing(x) => Standing(x)'
    BY <1>3, <2>1 DEF Find
  <2>3. \A x \in Creates : pc'[x] = pc[x]
    BY <1>3 DEF Find
  <2> QED  BY <1>3, <2>2, <2>3 DEF Find
<1>4. ASSUME NEW d \in Deletes, DeleteStep(d) PROVE ServedInv'
  <2>1. CASE Revoke(d)
    BY <2>1 DEF Revoke
  <2>2. CASE DeleteClient(d)
    BY <2>2 DEF DeleteClient
  <2>3. CASE DeleteRow(d)
    BY <2>3 DEF DeleteRow, LifeInv
  <2> QED  BY <1>3, <1>4, <2>1, <2>2, <2>3 DEF DeleteStep, FindForDelete
<1>5. ASSUME NEW u \in Updates, UpdateStep(u) PROVE ServedInv'
  BY <1>3, <1>5 DEF UpdateStep, WriteAllowList
<1>6. ASSUME NEW r \in Requests, Dies(r) PROVE ServedInv'
  BY <1>6 DEF Dies, Running
<1>7. CASE Tick \/ UNCHANGED vars
  BY <1>7 DEF Tick, vars
<1> QED
  BY <1>1, <1>2, <1>4, <1>5, <1>6, <1>7 DEF Next, RequestStep

-----------------------------------------------------------------------------
\* A create that finds both keys free shares them with no holder: the holder's
\* reservation would have expired, and the holder with it.
LEMMA FreeMeansUnheld ==
    ASSUME TypeOK, HoldInv, Deadline <= ResLife, NEW c \in Creates, NEW h \in Creates,
           NEW k \in Held(h), k \in ResKeys, Free(k, at[c])
    PROVE  FALSE
<1>1. resExp[k] = at[h] + ResLife /\ now <= at[h] + Deadline /\ at[c] <= now
  BY DEF HoldInv
<1>2. at[h] \in Nat /\ at[c] \in Nat /\ now \in Nat
  BY DEF TypeOK
<1> QED
  BY <1>1, <1>2, AdminAssumption DEF Free, Absent

\* Reservations under every step, within the Lambda's timeout.
LEMMA HoldStep ==
    TypeOK /\ TypeOK' /\ Deadline <= ResLife /\ HoldInv /\ [Next]_vars => HoldInv'
<1> SUFFICES ASSUME TypeOK, TypeOK', Deadline <= ResLife, HoldInv, [Next]_vars
             PROVE  HoldInv'
  OBVIOUS
<1>0. \A c \in Creates : KeysOf(form[c]) \subseteq ResKeys /\ at[c] \in Nat /\ now \in Nat
  BY FormKeys DEF TypeOK
<1> DEFINE Kept(c) == /\ Held(c)' \subseteq Held(c) /\ at'[c] = at[c]
                      /\ pc'[c] = "reserve" => pc[c] = "reserve"
           Same(c) == pc'[c] = pc[c] /\ rel'[c] = rel[c] /\ at'[c] = at[c]
<1> USE AdminAssumption DEF Goto, At, Ends, tables, pool, locals, Requests, Early, Holds
<1>1. \A c \in Creates : Same(c) /\ form' = form => Kept(c) /\ Held(c)' = Held(c)
  BY DEF Held
<1>2. ASSUME NEW c \in Creates, CreateStep(c) PROVE HoldInv'
  <2>1. form' = form /\ now' = now /\ \A o \in Creates \ {c} : Same(o)
    BY <1>2 DEF CreateStep, CheckIdempotency, Reserve, CreateClient, PutRow, Compensate,
                RecordResponse, ReleaseKey, StartRelease, Settle, TypeOK
  <2>2. CASE Reserve(c)
    <3>1. ASSUME resExp' # resExp \/ Held(c)' # {}
          PROVE  \A o \in Creates \ {c} : Held(o) \intersect KeysOf(form[c]) = {}
      <4>1. \A k \in KeysOf(form[c]) : Free(k, at[c])
        BY <1>0, <2>1, <2>2, <3>1 DEF Reserve, Held, HoldInv, TypeOK
      <4> QED  BY <1>0, <4>1, FreeMeansUnheld
    <3>2. Held(c)' # {} => /\ Held(c)' = KeysOf(form[c])
                          /\ \A k \in KeysOf(form[c]) : resExp'[k] = at[c] + ResLife
      BY <1>0, <2>2 DEF Reserve, Held, HoldInv, TypeOK
    <3>3. \A k \in ResKeys \ KeysOf(form[c]) : resExp'[k] = resExp[k]
      BY <2>2 DEF Reserve, TypeOK
    <3>4. rel' = rel /\ at' = at /\ pc'[c] \in {"error", "client", "conflict"} /\ rel[c] = {}
      BY <2>2 DEF Reserve, TypeOK, HoldInv
    <3>5. \A o \in Creates \ {c} : /\ Held(o)' = Held(o)
                                    /\ \A k \in Held(o) : resExp'[k] = resExp[k]
      <4>1. \A o \in Creates : Held(o) \subseteq ResKeys
        BY <1>0 DEF Held, TypeOK
      <4> QED  BY <1>1, <2>1, <3>1, <3>3, <4>1
    <3>6. \A o \in Creates : pc'[o] = pc[o] \/ o = c
      BY <2>1
    <3>7. pc[c] = "reserve"
      BY <2>2 DEF Reserve
    <3> QED  BY <2>1, <3>1, <3>2, <3>4, <3>5, <3>6, <3>7 DEF HoldInv
  <2>3. ASSUME NEW k \in ResKeys, ReleaseKey(c, k) PROVE HoldInv'
    <3>1. /\ pc[c] \notin Early \union Holds /\ pc'[c] \notin Early \union Holds
          /\ Held(c) = rel[c] /\ Held(c)' = rel[c] \ {k} /\ k \in rel[c] /\ at' = at
      BY <2>3 DEF ReleaseKey, Settle, Held, HoldInv, TypeOK
    <3>2. \A l \in ResKeys \ {k} : resExp'[l] = resExp[l]
      BY <2>3 DEF ReleaseKey, TypeOK
    <3>3. \A o \in Creates \ {c} : Held(o)' = Held(o) /\ k \notin Held(o)
      BY <1>1, <2>1, <3>1 DEF HoldInv
    <3>4. \A o \in Creates : Held(o) \subseteq ResKeys
      BY <1>0 DEF Held, TypeOK
    <3>5. rel'[c] = rel[c] \ {k}
      BY <2>3 DEF ReleaseKey, TypeOK
    <3>6. \A o \in Creates \ {c} : \A l \in Held(o)' : resExp'[l] = at'[o] + ResLife
      BY <3>1, <3>2, <3>3, <3>4 DEF HoldInv
    <3>7. \A l \in Held(c)' : resExp'[l] = at'[c] + ResLife
      BY <3>1, <3>2, <3>4 DEF HoldInv
    <3> QED  BY <2>1, <3>1, <3>3, <3>5, <3>6, <3>7 DEF HoldInv
  <2>4. CASE CheckIdempotency(c)
    <3>1. /\ resExp' = resExp /\ rel' = rel /\ rel[c] = {} /\ Held(c)' = {}
          /\ pc'[c] \in {"ok", "conflict", "reserve", "error"}
          /\ at'[c] = now \/ (at'[c] = at[c] /\ pc'[c] # "reserve")
      BY <2>4 DEF CheckIdempotency, Held, HoldInv, TypeOK
    <3>2. \A o \in Creates \ {c} : Held(o)' = Held(o)
      BY <1>1, <2>1
    <3> QED  BY <1>0, <2>1, <3>1, <3>2 DEF HoldInv
  <2>5. CASE CreateClient(c) \/ PutRow(c) \/ Compensate(c) \/ RecordResponse(c)
    <3>1. /\ resExp' = resExp /\ at' = at /\ pc[c] \in Holds /\ rel[c] = {}
          /\ \/ pc'[c] \in Holds /\ rel'[c] = {}
             \/ pc'[c] \in {"release", "releaseError"} /\ rel'[c] = KeysOf(form[c])
      BY <2>5 DEF CreateClient, PutRow, Compensate, RecordResponse, StartRelease,
                  HoldInv, TypeOK
    <3>2. Held(c)' = Held(c) /\ Held(c) = KeysOf(form[c])
      BY <2>1, <3>1 DEF Held
    <3>3. \A o \in Creates \ {c} : Held(o)' = Held(o)
      BY <1>1, <2>1
    <3>4. /\ pc'[c] # "reserve" /\ rel'[c] \subseteq KeysOf(form[c])
          /\ pc'[c] \in Early \union Holds => rel'[c] = {}
      BY <3>1
    <3> QED  BY <2>1, <3>1, <3>2, <3>3, <3>4 DEF HoldInv
  <2> QED
    BY <1>2, <2>2, <2>3, <2>4, <2>5 DEF CreateStep
<1>3. ASSUME NEW r \in Requests, Dies(r) PROVE HoldInv'
  <2>1. /\ resExp' = resExp /\ at' = at /\ form' = form /\ now' = now
        /\ \A c \in Creates \ {r} : Same(c)
        /\ r \in Creates => pc'[r] = "error" /\ rel'[r] = {}
    BY <1>3 DEF Dies, TypeOK
  <2>2. \A c \in Creates : Held(c)' = Held(c) \/ (c = r /\ Held(c)' = {})
    BY <1>1, <2>1 DEF Held
  <2> QED  BY <2>1, <2>2 DEF HoldInv
<1>4. ASSUME NEW r \in Requests, Submit(r) PROVE HoldInv'
  <2>1. /\ resExp' = resExp /\ at' = at /\ form' = form /\ now' = now /\ rel' = rel
        /\ \A c \in Creates : Same(c) \/ (pc[c] = "idle" /\ pc'[c] = "check")
    BY <1>4 DEF Submit, TypeOK
  <2>2. \A c \in Creates : Held(c)' = Held(c)
    BY <2>1 DEF Held
  <2> QED  BY <2>1, <2>2 DEF HoldInv
<1>5. CASE Tick
  <2>1. \A c \in Creates : Same(c) /\ Held(c)' = Held(c)
    BY <1>1, <1>5 DEF Tick
  <2> QED  BY <1>0, <1>5, <2>1 DEF HoldInv, Tick
<1>6. ASSUME NEW r \in Deletes \union Updates, DeleteStep(r) \/ UpdateStep(r) PROVE HoldInv'
  <2>1. /\ resExp' = resExp /\ at' = at /\ form' = form /\ now' = now /\ rel' = rel
        /\ \A c \in Creates : Same(c)
    BY <1>6 DEF DeleteStep, FindForDelete, Find, Revoke, DeleteClient, DeleteRow, UpdateStep,
                WriteAllowList, TypeOK
  <2> QED  BY <1>1, <2>1 DEF HoldInv
<1>7. CASE UNCHANGED vars
  <2>1. /\ resExp' = resExp /\ at' = at /\ form' = form /\ now' = now /\ rel' = rel
        /\ pc' = pc
    BY <1>7 DEF vars
  <2> QED  BY <1>1, <2>1 DEF HoldInv
<1> QED
  BY <1>2, <1>3, <1>4, <1>5, <1>6, <1>7 DEF Next, RequestStep

-----------------------------------------------------------------------------
\* Before the first request nothing is reserved, made, recorded or answered.
LEMMA AdminInit == Init => AdminInv
  BY AdminAssumption
     DEF Init, AdminInv, HoldInv, LifeInv, ServedInv, AnswerIsServed,
         ClientNeverOutlivesRow, Held, At, Early, Holds, Requests

\* The inductive invariant holds in every reachable state.
THEOREM InvariantHolds == Spec => [](TypeOK /\ AdminInv)
<1>1. Init => TypeOK /\ AdminInv
  BY TypeInit, AdminInit
<1>2. TypeOK /\ AdminInv /\ [Next]_vars => (TypeOK /\ AdminInv)'
  BY TypeStep, LifeStep, ServedStep, HoldStep DEF AdminInv
<1> QED
  BY <1>1, <1>2, PTL DEF Spec

\* Two creates never hold one subdomain or tenant id, and releasing never frees
\* what another create holds, if the timeout is no longer than a reservation.
THEOREM ReservationsExclude == Spec => []ReservationExcludes
<1>1. AdminInv => ReservationExcludes
  BY DEF AdminInv, HoldInv, ReservationExcludes
<1> QED
  BY <1>1, InvariantHolds, PTL

\* A create's 200 response names a tenant of the asked-for name that is served
\* until a delete finds it.
THEOREM AnswersAreServed == Spec => []AnswerIsServed
<1>1. AdminInv => AnswerIsServed
  BY DEF AdminInv, ServedInv
<1> QED
  BY <1>1, InvariantHolds, PTL

\* No delete, compensation or crash leaves a served client without its row.
THEOREM ClientsGoFirst == Spec => []ClientNeverOutlivesRow
<1>1. AdminInv => ClientNeverOutlivesRow
  BY DEF AdminInv, LifeInv
<1> QED
  BY <1>1, InvariantHolds, PTL

-----------------------------------------------------------------------------
\* The only steps that change client, row or history of an id, and how.
LEMMA StageStep ==
    ASSUME TypeOK, LifeInv, LifeInv', [Next]_vars
    PROVE  \/ UNCHANGED <<clients, rows, made, ever>>
           \/ \E x \in Creates :
                /\ x \notin made /\ clients' = clients \union {x} /\ made' = made \union {x}
                /\ UNCHANGED <<rows, ever>>
           \/ \E x \in Creates :
                /\ x \in clients /\ x \notin ever
                /\ rows' = rows \union {x} /\ ever' = ever \union {x}
                /\ UNCHANGED <<clients, made>>
           \/ \E x \in Creates :
                clients' = clients \ {x} /\ UNCHANGED <<rows, made, ever>>
           \/ \E x \in Creates :
                x \notin clients /\ rows' = rows \ {x} /\ UNCHANGED <<clients, made, ever>>
<1> DEFINE Quiet == UNCHANGED <<clients, rows, made, ever>>
<1> USE DEF At, tables, pool, locals, Requests
<1>1. ASSUME NEW r \in Requests, Submit(r) \/ Dies(r) PROVE Quiet
  BY <1>1 DEF Submit, Dies
<1>2. ASSUME NEW c \in Creates,
             CheckIdempotency(c) \/ Reserve(c) \/ RecordResponse(c)
               \/ \E k \in ResKeys : ReleaseKey(c, k)
      PROVE  Quiet
  BY <1>2 DEF CheckIdempotency, Reserve, RecordResponse, ReleaseKey
<1>3. ASSUME NEW c \in Creates, CreateClient(c)
      PROVE  Quiet \/ /\ c \notin made /\ clients' = clients \union {c}
                      /\ made' = made \union {c} /\ UNCHANGED <<rows, ever>>
  BY <1>3 DEF CreateClient, LifeInv, Early
<1>4. ASSUME NEW c \in Creates, PutRow(c)
      PROVE  Quiet \/ /\ c \in clients /\ c \notin ever /\ rows' = rows \union {c}
                      /\ ever' = ever \union {c} /\ UNCHANGED <<clients, made>>
  BY <1>4 DEF PutRow, LifeInv
<1>5. ASSUME NEW c \in Creates, Compensate(c)
      PROVE  Quiet \/ (clients' = clients \ {c} /\ UNCHANGED <<rows, made, ever>>)
  BY <1>5 DEF Compensate
<1>6. ASSUME NEW r \in Deletes \union Updates, NEW found, Find(r, found) PROVE Quiet
  BY <1>6 DEF Find
<1>7. ASSUME NEW d \in Deletes, Revoke(d) PROVE Quiet
  BY <1>7 DEF Revoke
<1>8. ASSUME NEW d \in Deletes, DeleteClient(d)
      PROVE  /\ target[d] \in Creates
             /\ Quiet \/ (clients' = clients \ {target[d]} /\ UNCHANGED <<rows, made, ever>>)
  BY <1>8 DEF DeleteClient, LifeInv, TypeOK
<1>9. ASSUME NEW d \in Deletes, DeleteRow(d)
      PROVE  /\ target[d] \in Creates
             /\ Quiet \/ /\ target[d] \notin clients /\ rows' = rows \ {target[d]}
                         /\ UNCHANGED <<clients, made, ever>>
  BY <1>9 DEF DeleteRow, LifeInv, TypeOK
<1>10. ASSUME NEW u \in Updates, WriteAllowList(u) PROVE Quiet
  BY <1>10 DEF WriteAllowList
<1>11. CASE Tick \/ UNCHANGED vars
  BY <1>11 DEF Tick, vars
<1> QED
  BY <1>1, <1>2, <1>3, <1>4, <1>5, <1>6, <1>7, <1>8, <1>9, <1>10, <1>11
     DEF Next, RequestStep, CreateStep, DeleteStep, FindForDelete, UpdateStep

\* A deleted row stays deleted: updates are conditional, and client ids are new.
THEOREM NothingResurrects == Spec => NoResurrection
<1>1. TypeOK /\ AdminInv /\ (TypeOK /\ AdminInv)' /\ [Next]_vars
        => [\A x \in ever : x \notin rows => x \notin rows']_vars
  BY StageStep DEF AdminInv
<1> QED
  BY <1>1, InvariantHolds, PTL DEF Spec, NoResurrection

\* Every step of the admin Lambda is a step of the lifecycle or none.
LEMMA LifecycleStep ==
    ASSUME TypeOK, LifeInv, LifeInv', [Next]_vars
    PROVE  [Lifecycle!Next]_stageOf
<1> USE DEF Lifecycle!Next, Lifecycle!Provision, Lifecycle!Serve, Lifecycle!RollBack,
            Lifecycle!Retire, Lifecycle!Clean, Lifecycle!Move
<1>0. /\ clients \subseteq made /\ ever \subseteq made /\ rows \subseteq ever
      /\ ever \intersect clients \subseteq rows
  BY DEF LifeInv, ClientNeverOutlivesRow
<1>1. ASSUME NEW x \in Creates, NEW from, NEW to,
             stageOf[x] = from, stageOf'[x] = to,
             \A y \in Creates \ {x} : stageOf'[y] = stageOf[y]
      PROVE  Lifecycle!Move(x, from, to)
  BY <1>1 DEF stageOf
<1>2. CASE UNCHANGED <<clients, rows, made, ever>>
  BY <1>2 DEF stageOf
<1>3. ASSUME NEW x \in Creates, x \notin made, clients' = clients \union {x},
             made' = made \union {x}, UNCHANGED <<rows, ever>>
      PROVE  Lifecycle!Provision(x)
  <2>1. stageOf[x] = "none" /\ stageOf'[x] = "client"
    BY <1>0, <1>3 DEF stageOf
  <2>2. \A y \in Creates \ {x} : stageOf'[y] = stageOf[y]
    BY <1>3 DEF stageOf
  <2> QED  BY <1>1, <2>1, <2>2
<1>4. ASSUME NEW x \in Creates, x \in clients, x \notin ever, rows' = rows \union {x},
             UNCHANGED <<clients, made>>
      PROVE  Lifecycle!Serve(x)
  <2>1. stageOf[x] = "client" /\ stageOf'[x] = "served"
    BY <1>0, <1>4 DEF stageOf
  <2>2. \A y \in Creates \ {x} : stageOf'[y] = stageOf[y]
    BY <1>4 DEF stageOf
  <2> QED  BY <1>1, <2>1, <2>2
<1>5. ASSUME NEW x \in Creates, x \in clients, clients' = clients \ {x},
             UNCHANGED <<rows, made>>
      PROVE  Lifecycle!RollBack(x) \/ Lifecycle!Retire(x)
  <2>1. \/ stageOf[x] = "client" /\ stageOf'[x] = "gone"
        \/ stageOf[x] = "served" /\ stageOf'[x] = "garbage"
    BY <1>0, <1>5 DEF stageOf
  <2>2. \A y \in Creates \ {x} : stageOf'[y] = stageOf[y]
    BY <1>5 DEF stageOf
  <2> QED  BY <1>1, <2>1, <2>2
<1>6. ASSUME NEW x \in Creates, x \in rows, x \notin clients, rows' = rows \ {x},
             UNCHANGED <<clients, made>>
      PROVE  Lifecycle!Clean(x)
  <2>1. stageOf[x] = "garbage" /\ stageOf'[x] = "gone"
    BY <1>0, <1>6 DEF stageOf
  <2>2. \A y \in Creates \ {x} : stageOf'[y] = stageOf[y]
    BY <1>6 DEF stageOf
  <2> QED  BY <1>1, <2>1, <2>2
<1>7. ASSUME NEW x \in Creates, x \notin clients, clients' = clients \ {x},
             UNCHANGED <<rows, made, ever>>
      PROVE  UNCHANGED stageOf
  BY <1>7 DEF stageOf
<1>8. ASSUME NEW x \in Creates, x \notin rows, rows' = rows \ {x},
             UNCHANGED <<clients, made, ever>>
      PROVE  UNCHANGED stageOf
  BY <1>8 DEF stageOf
<1> QED
  BY <1>2, <1>3, <1>4, <1>5, <1>6, <1>7, <1>8, StageStep

\* Create, update and delete implement the lifecycle of a tenant.
THEOREM Implements == Spec => ImplementsLifecycle
<1>1. Init => Lifecycle!Init
  BY DEF Init, Lifecycle!Init, stageOf
<1>2. TypeOK /\ AdminInv /\ (TypeOK /\ AdminInv)' /\ [Next]_vars
        => [Lifecycle!Next]_stageOf
  BY LifecycleStep DEF AdminInv
<1> QED
  BY <1>1, <1>2, InvariantHolds, PTL DEF Spec, ImplementsLifecycle, Lifecycle!Spec

------------------------------------------------------------------------------

(* The reconciler.  Each reading may be spread over many steps of the admin   *)
(* Lambda, so neither set it builds is ever the state of one moment.  ScanInv *)
(* says what can be said of them all the same: an id that lasted, and that    *)
(* the reading has come to, is in the set, and one that was missing on that   *)
(* side throughout is not.                                                    *)

Lasting ==
    /\ whole \subseteq clients \intersect rows
    /\ halfC \subseteq clients \ rows /\ halfR \subseteq rows \ clients

\* The listing has come to the ids outside rest.
Listed(rest) ==
    (whole \union halfC) \ rest \subseteq seenC /\ seenC \intersect halfR = {}

Scanned(rest) ==
    (whole \union halfR) \ rest \subseteq seenR /\ seenR \intersect halfC = {}

ScanInv ==
    /\ rpc \in {"idle", "list", "scan", "report"}
    /\ rpc = "idle" => whole = {} /\ halfC = {} /\ halfR = {}
    /\ Lasting
    /\ rpc = "list" => Listed(left) /\ seenR = {}
    /\ rpc = "scan" => Listed({}) /\ Scanned(left)
    /\ rpc = "report" => Listed({}) /\ Scanned({})

\* Whatever the admin Lambda does between two pages, ScanInv holds.
LEMMA ScanStep == TypeOK /\ ScanInv /\ [RNext]_rvars => ScanInv'
<1> SUFFICES ASSUME TypeOK, ScanInv, [RNext]_rvars PROVE ScanInv'
  OBVIOUS
<1>1. CASE Next /\ Watch /\ UNCHANGED scan
  BY <1>1 DEF ScanInv, Lasting, Listed, Scanned, Watch, scan
<1>2. CASE Start /\ UNCHANGED vars
  <2>1. clients \subseteq Creates /\ rows \subseteq Creates /\ UNCHANGED <<clients, rows>>
    BY <1>2 DEF TypeOK, vars, tables, pool
  <2> QED  BY <1>2, <2>1 DEF ScanInv, Lasting, Listed, Scanned, Start
<1>3. CASE (Report \/ Abort) /\ UNCHANGED vars
  BY <1>3 DEF ScanInv, Lasting, Report, Abort, Over
<1>4. CASE ListPage /\ UNCHANGED <<vars, watch>>
  <2>1. /\ clients \subseteq Creates /\ rows \subseteq Creates
        /\ UNCHANGED <<clients, rows, whole, halfC, halfR, seenR>> /\ rpc = "list"
    BY <1>4 DEF TypeOK, vars, tables, pool, watch, ListPage
  <2>2. PICK page \in SUBSET left :
           /\ seenC' = seenC \union (page \intersect clients)
           /\ \/ left' = left \ page /\ UNCHANGED rpc
              \/ page = left /\ left' = Creates /\ rpc' = "scan"
    BY <1>4 DEF ListPage
  <2> QED  BY <2>1, <2>2 DEF ScanInv, Lasting, Listed, Scanned
<1>5. CASE ScanPage /\ UNCHANGED <<vars, watch>>
  <2>1. /\ UNCHANGED <<clients, rows, whole, halfC, halfR, seenC>> /\ rpc = "scan"
    BY <1>5 DEF vars, tables, pool, watch, ScanPage
  <2>2. PICK page \in SUBSET left :
           /\ seenR' = seenR \union (page \intersect rows)
           /\ \/ left' = left \ page /\ UNCHANGED rpc
              \/ page = left /\ left' = {} /\ rpc' = "report"
    BY <1>5 DEF ScanPage
  <2> QED  BY <2>1, <2>2 DEF ScanInv, Lasting, Listed, Scanned
<1>6. CASE UNCHANGED rvars
  BY <1>6 DEF rvars, vars, tables, pool, scan, watch, ScanInv, Lasting, Listed, Scanned
<1> QED  BY <1>1, <1>2, <1>3, <1>4, <1>5, <1>6 DEF RNext

\* The reconciler reports no tenant that was whole throughout its run, and every
\* orphan that was one throughout, however the pages and the requests interleave.
THEOREM ReportsAreRight == RSpec => []ReportIsRight
<1>1. RInit => TypeOK /\ ScanInv
  BY TypeInit DEF RInit, ScanInv, Lasting, Init
<1>2. TypeOK /\ ScanInv /\ [RNext]_rvars => (TypeOK /\ ScanInv)'
  <2>1. [RNext]_rvars => [Next]_vars
    BY DEF RNext, rvars
  <2> QED  BY <2>1, TypeStep, ScanStep
<1>3. ScanInv => ReportIsRight
  BY DEF ScanInv, Listed, Scanned, ReportIsRight, orphanedAppClients, orphanedConfigRows
<1> QED  BY <1>1, <1>2, <1>3, PTL DEF RSpec

-----------------------------------------------------------------------------
\* A reservation in the table is the one a create wrote that has since gone on,
\* and bears that create's own expiry.
Reserver(k, o) ==
    /\ pc[o] \notin {"idle", "check", "reserve", "conflict"}
    /\ k \in KeysOf(form[o])
    /\ resExp[k] = at[o] + ResLife

Attributed == \A k \in ResKeys : resExp[k] # Absent => \E o \in Creates : Reserver(k, o)

\* No step of another request changes what a create that has gone on is.
LEMMA GoneOnStays ==
    ASSUME TypeOK, [Next]_vars, NEW o \in Creates,
           pc[o] \notin {"idle", "check", "reserve", "conflict"}
    PROVE  /\ pc'[o] \notin {"idle", "check", "reserve", "conflict"}
           /\ form'[o] = form[o] /\ at'[o] = at[o]
<1> USE AdminAssumption DEF TypeOK, Goto, At, Ends, tables, pool, locals, Requests
<1>1. ASSUME NEW r \in Requests, Submit(r) \/ Dies(r)
      PROVE  /\ pc'[o] \notin {"idle", "check", "reserve", "conflict"}
             /\ form'[o] = form[o] /\ at'[o] = at[o]
  BY <1>1 DEF Submit, Dies
<1>2. ASSUME NEW c \in Creates, CreateStep(c)
      PROVE  /\ pc'[o] \notin {"idle", "check", "reserve", "conflict"}
             /\ form'[o] = form[o] /\ at'[o] = at[o]
  BY <1>2 DEF CreateStep, CheckIdempotency, Reserve, CreateClient, PutRow, Compensate,
              RecordResponse, ReleaseKey, Settle, StartRelease
<1>3. ASSUME NEW d \in Deletes, DeleteStep(d)
      PROVE  /\ pc'[o] \notin {"idle", "check", "reserve", "conflict"}
             /\ form'[o] = form[o] /\ at'[o] = at[o]
  BY <1>3 DEF DeleteStep, FindForDelete, Find, Revoke, DeleteClient, DeleteRow
<1>4. ASSUME NEW u \in Updates, UpdateStep(u)
      PROVE  /\ pc'[o] \notin {"idle", "check", "reserve", "conflict"}
             /\ form'[o] = form[o] /\ at'[o] = at[o]
  BY <1>4 DEF UpdateStep, Find, WriteAllowList
<1>5. CASE Tick \/ UNCHANGED vars
  BY <1>5 DEF Tick, vars
<1> QED  BY <1>1, <1>2, <1>3, <1>4, <1>5 DEF Next, RequestStep

\* A reservation that a step leaves in the table was there, or the create that
\* made it has just gone on.
LEMMA ReservationStep ==
    ASSUME TypeOK, [Next]_vars, NEW k \in ResKeys
    PROVE  \/ resExp'[k] = resExp[k]
           \/ resExp'[k] = Absent
           \/ \E c \in Creates :
                 /\ k \in KeysOf(form[c]) /\ resExp'[k] = at[c] + ResLife
                 /\ form' = form /\ at' = at /\ pc'[c] \in {"client", "error"}
<1> USE AdminAssumption DEF TypeOK, Goto, At, tables, pool, locals, Requests
<1> DEFINE Kept == resExp' = resExp
<1>1. ASSUME NEW r \in Requests, Submit(r) \/ Dies(r) PROVE Kept
  BY <1>1 DEF Submit, Dies
<1>2. ASSUME NEW c \in Creates,
             \/ CheckIdempotency(c) \/ CreateClient(c) \/ PutRow(c) \/ Compensate(c)
             \/ RecordResponse(c)
      PROVE  Kept
  BY <1>2 DEF CheckIdempotency, CreateClient, PutRow, Compensate, RecordResponse
<1>3. ASSUME NEW c \in Creates, Reserve(c)
      PROVE  \/ resExp'[k] = resExp[k]
             \/ /\ k \in KeysOf(form[c]) /\ resExp'[k] = at[c] + ResLife
                /\ form' = form /\ at' = at /\ pc'[c] \in {"client", "error"}
  BY <1>3 DEF Reserve
<1>4. ASSUME NEW c \in Creates, NEW j \in ResKeys, ReleaseKey(c, j)
      PROVE  resExp'[k] = resExp[k] \/ resExp'[k] = Absent
  BY <1>4 DEF ReleaseKey
<1>5. ASSUME NEW d \in Deletes, DeleteStep(d) PROVE Kept
  BY <1>5 DEF DeleteStep, FindForDelete, Find, Revoke, DeleteClient, DeleteRow
<1>6. ASSUME NEW u \in Updates, UpdateStep(u) PROVE Kept
  BY <1>6 DEF UpdateStep, Find, WriteAllowList
<1>7. CASE Tick \/ UNCHANGED vars
  BY <1>7 DEF Tick, vars
<1> QED
  BY <1>1, <1>2, <1>3, <1>4, <1>5, <1>6, <1>7 DEF Next, RequestStep, CreateStep

LEMMA AttributedStep == TypeOK /\ Attributed /\ [Next]_vars => Attributed'
<1> SUFFICES ASSUME TypeOK, Attributed, [Next]_vars,
                    NEW k \in ResKeys, resExp'[k] # Absent
             PROVE  \E o \in Creates : Reserver(k, o)'
  BY DEF Attributed
<1>1. CASE resExp'[k] = resExp[k]
  <2>1. PICK o \in Creates : Reserver(k, o)
    BY <1>1 DEF Attributed
  <2> QED  BY <1>1, <2>1, GoneOnStays DEF Reserver
<1>2. ASSUME NEW c \in Creates, k \in KeysOf(form[c]), resExp'[k] = at[c] + ResLife,
             form' = form, at' = at, pc'[c] \in {"client", "error"}
      PROVE  Reserver(k, c)'
  BY <1>2 DEF Reserver
<1> QED  BY <1>1, <1>2, ReservationStep

\* Whatever crashed or was half released before, a name is blocked only by a
\* reservation another create made no longer than a reservation's life ago.
THEOREM NamesAreFreed == Spec => []NamesComeFree
<1>1. Init => TypeOK /\ Attributed
  BY TypeInit DEF Init, Attributed
<1>2. TypeOK /\ Attributed /\ [Next]_vars => (TypeOK /\ Attributed)'
  BY TypeStep, AttributedStep
<1>3. ASSUME TypeOK, Attributed, NEW c \in Creates, At(c, "reserve"),
             NEW k \in KeysOf(form[c]), ~Free(k, at[c])
      PROVE  \E other \in Creates \ {c} :
                /\ pc[other] \notin {"idle", "check", "reserve", "conflict"}
                /\ KeysOf(form[other]) \intersect KeysOf(form[c]) # {}
                /\ at[c] <= at[other] + ResLife
  <2>1. k \in ResKeys /\ resExp[k] # Absent
    BY <1>3, FormKeys DEF Free, TypeOK
  <2>2. PICK o \in Creates : Reserver(k, o)
    BY <1>3, <2>1 DEF Attributed
  <2>3. o # c
    BY <1>3, <2>2 DEF Reserver, At
  <2>4. ~(resExp[k] < at[c]) /\ resExp[k] \in Nat /\ at[c] \in Nat
    BY <1>3, <2>1, AdminAssumption DEF Free, TypeOK
  <2>5. at[c] <= at[o] + ResLife
    BY <2>2, <2>4 DEF Reserver
  <2> QED  BY <1>3, <2>2, <2>3, <2>5 DEF Reserver
<1>4. TypeOK /\ Attributed => NamesComeFree
  BY <1>3 DEF NamesComeFree
<1> QED  BY <1>1, <1>2, <1>4, PTL DEF Spec

==============================================================================
