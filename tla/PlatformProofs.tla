---------------------------- MODULE PlatformProofs ----------------------------
(*****************************************************************************)
(* Proofs about the components of the foundation package: the feature        *)
(* toggles and their per-process caches, the Keycloak identity provider,     *)
(* the request pipeline and the audit log.                                   *)
(*****************************************************************************)
EXTENDS FeatureToggles, Keycloak, RequestPipeline, AuditLog, TLAPS

(* The feature toggles.  Whatever a process holds, and whatever is on its way  *)
(* to one, was the stored value at a time that is remembered with it; none of  *)
(* them is ever later than the clock.                                          *)

ToggleTypeOK ==
    /\ toggleNow \in Nat /\ toggle \in ToggleRows /\ last \in [BOOLEAN -> Nat]
    /\ memo \in [Hosts -> [value : BOOLEAN, expires : Nat]]
    /\ asker \in [Askers -> [state : {"new", "asking", "read", "answered", "defaulted"},
                             host : Hosts, value : BOOLEAN, at : Nat]]
    /\ writer \in [Hosts -> {"idle", "upsert", "written", "deleted"}]
    /\ previous \in [Hosts -> ToggleRows] /\ sets \in Nat

\* How old what is read, cached or answered can be: the table has its value now; a
\* row on its way was read at most a read's time ago; an entry expires the TTL after
\* such a row arrived.
ToggleAges ==
    /\ last[IsOn(toggle)] = toggleNow
    /\ \A v \in BOOLEAN : last[v] <= toggleNow
    /\ \A h \in Hosts : memo[h].expires <= last[memo[h].value] + ReadTime + ToggleTtl
    /\ \A a \in Askers : asker[a].state = "read" =>
          asker[a].at <= last[asker[a].value] /\ toggleNow <= asker[a].at + ReadTime

ToggleInv == ToggleTypeOK /\ ToggleAges /\ ToggleAgeBounded

LEMMA ToggleInvInit == ToggleInit => ToggleInv
<1> USE ToggleAssumption
<1> SUFFICES ASSUME ToggleInit PROVE ToggleInv
  OBVIOUS
<1>1. ToggleTypeOK
  BY DEF ToggleInit, ToggleTypeOK, ToggleRows, NoMemo
<1>2. IsOn(toggle) \in BOOLEAN /\ \A v \in BOOLEAN : last[v] = 0
  BY DEF ToggleInit, IsOn
<1>4. \A h \in Hosts : memo[h].value \in BOOLEAN /\ memo[h].expires = 0
  BY DEF ToggleInit, NoMemo
<1>5. \A a \in Askers : asker[a].state = "new"
  BY DEF ToggleInit
<1>6. last[IsOn(toggle)] = toggleNow /\ \A v \in BOOLEAN : last[v] <= toggleNow
  BY <1>2 DEF ToggleInit
<1>7. \A h \in Hosts : last[memo[h].value] = 0
  BY <1>2, <1>4
<1>3. ToggleAges /\ ToggleAgeBounded
  BY <1>4, <1>5, <1>6, <1>7 DEF ToggleAges, ToggleAgeBounded
<1> QED  BY <1>1, <1>3 DEF ToggleInv

\* A write moves the time of its value to now, and no other time.
LEMMA WriteStep ==
    ASSUME ToggleTypeOK, ToggleAges, NEW h \in Hosts, NEW r \in ToggleRows, Write(h, r)
    PROVE  /\ last' \in [BOOLEAN -> Nat] /\ toggle' \in ToggleRows
           /\ last'[IsOn(toggle')] = toggleNow
           /\ \A v \in BOOLEAN : last[v] <= last'[v] /\ last'[v] <= toggleNow
  BY DEF ToggleTypeOK, ToggleAges, Write, IsOn, ToggleRows

\* What is kept of the ages when the times of the values only move on.
LEMMA LaterStep ==
    ASSUME ToggleInv,
           toggleNow' = toggleNow, UNCHANGED <<memo, asker>>,
           last' \in [BOOLEAN -> Nat], toggle' \in ToggleRows,
           last'[IsOn(toggle')] = toggleNow,
           \A v \in BOOLEAN : last[v] <= last'[v] /\ last'[v] <= toggleNow
    PROVE  ToggleAges' /\ ToggleAgeBounded'
<1> USE ToggleAssumption
<1>1. \A h \in Hosts : memo'[h].expires <= last'[memo'[h].value] + ReadTime + ToggleTtl
  BY DEF ToggleInv, ToggleTypeOK, ToggleAges
<1>2. \A a \in Askers : asker'[a].state = "read" =>
          asker'[a].at <= last'[asker'[a].value] /\ toggleNow' <= asker'[a].at + ReadTime
  BY DEF ToggleInv, ToggleTypeOK, ToggleAges
<1>3. ToggleAgeBounded'
  BY DEF ToggleInv, ToggleTypeOK, ToggleAgeBounded
<1> QED  BY <1>1, <1>2, <1>3 DEF ToggleAges

LEMMA ToggleInvStep == ToggleInv /\ [ToggleNext]_toggleVars => ToggleInv'
<1> SUFFICES ASSUME ToggleInv, [ToggleNext]_toggleVars PROVE ToggleInv'
  OBVIOUS
<1> USE ToggleAssumption DEF ToggleInv
<1>1. ASSUME NEW a \in Askers, NEW h \in Hosts, IsEnabled(a, h) PROVE ToggleInv'
  <2>1. ToggleTypeOK'
    BY <1>1 DEF IsEnabled, ToggleTypeOK, MemoHit
  <2>2. ToggleAges'
    BY <1>1 DEF IsEnabled, ToggleTypeOK, ToggleAges, MemoHit
  <2>3. ASSUME NEW b \in Askers, asker'[b].state = "answered"
        PROVE  last'[asker'[b].value] + ToggleTtl + ReadTime >= asker'[b].at
    <3>1. CASE b # a
      BY <1>1, <2>3, <3>1 DEF IsEnabled, ToggleTypeOK, ToggleAgeBounded
    <3>2. CASE b = a
      <4>1. MemoHit(h) /\ asker'[a].value = memo[h].value /\ asker'[a].at = toggleNow
        BY <1>1, <2>3, <3>2 DEF IsEnabled, ToggleTypeOK
      <4>2. memo[h].value \in BOOLEAN /\ memo[h].expires \in Nat /\ last[memo[h].value] \in Nat
        BY DEF ToggleTypeOK
      <4>3. toggleNow <= last[memo[h].value] + ReadTime + ToggleTtl
        BY <4>1, <4>2 DEF MemoHit, ToggleAges, ToggleTypeOK
      <4> QED  BY <1>1, <3>2, <4>1, <4>2, <4>3 DEF IsEnabled
    <3> QED  BY <3>1, <3>2
  <2>4. ToggleAgeBounded'
    BY <1>1, <2>3 DEF IsEnabled, ToggleTypeOK, ToggleAgeBounded
  <2> QED  BY <2>1, <2>2, <2>4
<1>2. ASSUME NEW a \in Askers, FindUnique(a) PROVE ToggleInv'
  <2>1. IsOn(toggle) \in BOOLEAN
    BY DEF IsOn
  <2>2. ToggleTypeOK'
    BY <1>2, <2>1, ZenonT(60) DEF FindUnique, ToggleTypeOK
  <2>3. ToggleAges'
    BY <1>2, <2>1 DEF FindUnique, ToggleTypeOK, ToggleAges
  <2>4. ToggleAgeBounded'
    BY <1>2, <2>1 DEF FindUnique, ToggleTypeOK, ToggleAgeBounded
  <2> QED  BY <2>2, <2>3, <2>4
<1>3. ASSUME NEW a \in Askers, FillMemo(a) PROVE ToggleInv'
  <2>4. memo' \in [Hosts -> [value : BOOLEAN, expires : Nat]]
    <3>1. /\ asker[a].value \in BOOLEAN /\ toggleNow + ToggleTtl \in Nat
          /\ asker[a].host \in Hosts
      BY DEF ToggleTypeOK
    <3> QED  BY <1>3, <3>1 DEF FillMemo, ToggleTypeOK
  <2>5. asker'[a].value = asker[a].value
    BY <1>3 DEF FillMemo, ToggleTypeOK
  <2>6. asker' \in [Askers -> [state : {"new", "asking", "read", "answered", "defaulted"},
                               host : Hosts, value : BOOLEAN, at : Nat]]
    BY <1>3, <2>5 DEF FillMemo, ToggleTypeOK
  <2>1. ToggleTypeOK'
    BY <1>3, <2>4, <2>6 DEF FillMemo, ToggleTypeOK
  <2>2. ToggleAges'
    BY <1>3 DEF FillMemo, ToggleTypeOK, ToggleAges
  <2>3. ToggleAgeBounded'
    BY <1>3 DEF FillMemo, ToggleTypeOK, ToggleAges, ToggleAgeBounded
  <2> QED  BY <2>1, <2>2, <2>3
<1>4. ASSUME NEW a \in Askers, ReadFails(a) PROVE ToggleInv'
  <2>1. ToggleTypeOK'
    BY <1>4, ZenonT(60) DEF ReadFails, ToggleTypeOK
  <2>2. ToggleAges'
    BY <1>4 DEF ReadFails, ToggleTypeOK, ToggleAges
  <2>3. ToggleAgeBounded'
    BY <1>4 DEF ReadFails, ToggleTypeOK, ToggleAgeBounded
  <2> QED  BY <2>1, <2>2, <2>3
<1>5. ASSUME NEW h \in Hosts, GetPrevious(h) PROVE ToggleInv'
  <2>1. ToggleTypeOK'
    BY <1>5 DEF GetPrevious, ToggleTypeOK, ToggleRows
  <2>2. ToggleAges' /\ ToggleAgeBounded'
    BY <1>5 DEF GetPrevious, ToggleAges, ToggleAgeBounded
  <2> QED  BY <2>1, <2>2
<1>6. ASSUME NEW h \in Hosts, Upsert(h) PROVE ToggleInv'
  <2>1. PICK r \in {"on", "off"} : Write(h, r)
    BY <1>6 DEF Upsert
  <2>2. r \in ToggleRows
    BY DEF ToggleRows
  <2>3. ToggleAges' /\ ToggleAgeBounded'
    BY <1>6, <2>1, <2>2, WriteStep, LaterStep DEF Upsert
  <2>4. ToggleTypeOK'
    BY <1>6, <2>1, <2>2, WriteStep DEF Upsert, ToggleTypeOK
  <2> QED  BY <2>3, <2>4
<1>7. ASSUME NEW h \in Hosts, DeleteToggle(h) PROVE ToggleInv'
  <2>1. ToggleTypeOK'
    <3>1. CASE Write(h, "none")
      BY <1>7, <3>1, WriteStep DEF DeleteToggle, ToggleTypeOK, ToggleRows
    <3>2. CASE UNCHANGED <<toggle, last>>
      BY <1>7, <3>2 DEF DeleteToggle, ToggleTypeOK
    <3> QED  BY <1>7, <3>1, <3>2 DEF DeleteToggle
  <2>2. ToggleAges' /\ ToggleAgeBounded'
    <3>1. CASE Write(h, "none")
      BY <1>7, <3>1, WriteStep, LaterStep DEF DeleteToggle, ToggleRows
    <3>2. CASE UNCHANGED <<toggle, last>>
      BY <1>7, <3>2 DEF DeleteToggle, ToggleAges, ToggleAgeBounded
    <3> QED  BY <1>7, <3>1, <3>2 DEF DeleteToggle
  <2> QED  BY <2>1, <2>2
<1>8. ASSUME NEW h \in Hosts, WriteAnswers(h) PROVE ToggleInv'
  <2>1. ToggleTypeOK'
    BY <1>8 DEF WriteAnswers, ToggleTypeOK, NoMemo
  <2>2. \A g \in Hosts : memo'[g].expires <= last'[memo'[g].value] + ReadTime + ToggleTtl
    <3> SUFFICES ASSUME NEW g \in Hosts
                 PROVE  memo'[g].expires <= last'[memo'[g].value] + ReadTime + ToggleTtl
      OBVIOUS
    <3>1. CASE g = h
      <4>1. memo'[g].value \in BOOLEAN /\ memo'[g].expires = 0
        BY <1>8, <3>1 DEF WriteAnswers, ToggleTypeOK, NoMemo
      <4>2. last'[memo'[g].value] \in Nat
        BY <1>8, <4>1 DEF WriteAnswers, ToggleTypeOK
      <4> QED  BY <4>1, <4>2
    <3>2. CASE g # h
      BY <1>8, <3>2 DEF WriteAnswers, ToggleTypeOK, ToggleAges
    <3> QED  BY <3>1, <3>2
  <2>3. ToggleAges' /\ ToggleAgeBounded'
    BY <1>8, <2>2 DEF WriteAnswers, ToggleAges, ToggleAgeBounded
  <2> QED  BY <2>1, <2>3
<1>9. ASSUME NEW h \in Hosts, WriteFails(h) PROVE ToggleInv'
  BY <1>9 DEF WriteFails, ToggleTypeOK, ToggleAges, ToggleAgeBounded
<1>10. CASE ToggleTick
  <2>1. IsOn(toggle) \in BOOLEAN
    BY DEF IsOn
  <2>2. /\ last' \in [BOOLEAN -> Nat] /\ last'[IsOn(toggle)] = toggleNow'
        /\ \A v \in BOOLEAN : last[v] <= last'[v] /\ last'[v] <= toggleNow'
        /\ toggleNow' \in Nat /\ toggleNow' = toggleNow + 1
    BY <1>10, <2>1 DEF ToggleTick, ToggleTypeOK, ToggleAges
  <2>3. ToggleTypeOK'
    BY <1>10, <2>2 DEF ToggleTick, ToggleTypeOK
  <2>4. \A h \in Hosts : memo'[h].expires <= last'[memo'[h].value] + ReadTime + ToggleTtl
    BY <1>10, <2>2 DEF ToggleTick, ToggleTypeOK, ToggleAges
  <2>5. \A a \in Askers : asker'[a].state = "read" =>
          asker'[a].at <= last'[asker'[a].value] /\ toggleNow' <= asker'[a].at + ReadTime
    BY <1>10, <2>2 DEF ToggleTick, ToggleTypeOK, ToggleAges
  <2>6. ToggleAgeBounded'
    BY <1>10, <2>2 DEF ToggleTick, ToggleTypeOK, ToggleAgeBounded
  <2>7. ToggleAges'
    BY <1>10, <2>2, <2>4, <2>5 DEF ToggleAges, ToggleTick
  <2> QED  BY <2>3, <2>6, <2>7
<1>11. CASE UNCHANGED toggleVars
  BY <1>11 DEF toggleVars, ToggleTypeOK, ToggleAges, ToggleAgeBounded
<1> QED
  BY <1>1, <1>2, <1>3, <1>4, <1>5, <1>6, <1>7, <1>8, <1>9, <1>10, <1>11 DEF ToggleNext

\* The toggles' table, caches and calls stay well typed.
THEOREM TogglesTypeCorrect == ToggleSpec => []ToggleTypeOK
  BY ToggleInvInit, ToggleInvStep, PTL DEF ToggleSpec, ToggleInv

\* An answer of isEnabled was the table's within the TTL and one read of it, for any
\* number of processes, calls and overlapping writes; a failed read answers
\* "disabled".
THEOREM TogglesAgeBounded == ToggleSpec => []ToggleAgeBounded
  BY ToggleInvInit, ToggleInvStep, PTL DEF ToggleSpec, ToggleInv

------------------------------------------------------------------------------

(* Keycloak.  A call is typed by where it is, and reaches the request it is on *)
(* the way to; a user that a call made is there only when that call has        *)
(* answered, so an import can never have overwritten a user and gone on.       *)

IdpRequests == {"getUser", "findByEmail", "partialImport", "postUser", "delete", "magicLink"}

IdpEnds == {"created", "exists", "conflict", "done", "link", "unknown_user", "unauthorized",
            "provider_error"}

IdpCallRecords ==
    [op : IdpOps \cup {"none"}, step : IdpRequests \cup IdpEnds \cup {"new", "auth"},
     email : Emails \cup {"none"}, id : Ids \cup {"none"}, found : SUBSET Ids,
     next : IdpRequests \cup {"none"}]

\* The request a call is at, or will make once it has a token.
Reaches(r, request) == r.step = request \/ (r.step = "auth" /\ r.next = request)

\* A call under way has its arguments; only a deletion comes to a delete request,
\* and only operations that look an address up come to findByEmail.
IdpCallOK(r) ==
    /\ r.step # "new" => r.op \in IdpOps /\ r.email \in Emails /\ r.id \in Ids
    /\ r.step = "auth" => r.next \in IdpRequests
    /\ Reaches(r, "getUser") => r.op = "createUser"
    /\ Reaches(r, "delete") => r.op = "deleteUser"
    /\ Reaches(r, "findByEmail") => r.op \in {"createUser", "registerUser", "deleteUser"}

IdpTypeOK ==
    /\ idpNow \in Nat /\ token \in [expires : Nat, dies : Nat] /\ secretOk \in BOOLEAN
    /\ users \subseteq [id : Ids, email : Emails, by : IdpCalls]
    /\ idpCall \in [IdpCalls -> IdpCallRecords]
    /\ \A c \in IdpCalls : IdpCallOK(idpCall[c])

\* A user is there only by a call that has been answered, or whose answer is lost.
MadeByAnswered == \A u \in users : idpCall[u.by].step \in {"created", "link", "provider_error"}

IdpInv == IdpTypeOK /\ MadeByAnswered /\ FailsNotOverwrites

LEMMA IdpInvInit == IdpInit => IdpInv
  BY DEF IdpInit, IdpInv, IdpTypeOK, IdpCallRecords, IdpCallOK, Reaches, MadeByAnswered,
         FailsNotOverwrites, NoToken, Ready, At

\* Where a call may go from a request: to one of its ends, ...
LEMMA IdpEndOK ==
    ASSUME IdpTypeOK, NEW c \in IdpCalls, idpCall[c].step # "new", NEW s \in IdpEnds
    PROVE  LET r == [idpCall[c] EXCEPT !.step = s]
           IN  r \in IdpCallRecords /\ IdpCallOK(r) /\ r.step = s /\ r.op = idpCall[c].op
  BY DEF IdpTypeOK, IdpCallRecords, IdpCallOK, Reaches, IdpEnds, IdpRequests

\* ... or by way of a token to its next request.
LEMMA IdpAuthedOK ==
    ASSUME IdpTypeOK, NEW c \in IdpCalls, idpCall[c].step # "new",
           NEW s \in {"findByEmail", "partialImport", "postUser"},
           s = "findByEmail" => idpCall[c].op \in {"createUser", "registerUser", "deleteUser"}
    PROVE  LET r == [idpCall[c] EXCEPT !.step = "auth", !.next = s]
           IN  r \in IdpCallRecords /\ IdpCallOK(r) /\ r.step = "auth"
  BY ZenonT(60) DEF IdpTypeOK, IdpCallRecords, IdpCallOK, Reaches, IdpEnds, IdpRequests

\* A call that moves on and changes no user.
LEMMA IdpQuietStep ==
    ASSUME IdpInv, NEW c \in IdpCalls, NEW r \in IdpCallRecords, IdpCallOK(r),
           idpCall[c].step \notin IdpEnds, r.step # "created",
           idpCall' = [idpCall EXCEPT ![c] = r],
           UNCHANGED <<idpNow, secretOk, users>>, token' \in [expires : Nat, dies : Nat]
    PROVE  IdpInv'
<1>1. IdpTypeOK'
  BY DEF IdpInv, IdpTypeOK
<1>2. \A u \in users : u.by \in IdpCalls /\ u.by # c
  BY DEF IdpInv, IdpTypeOK, MadeByAnswered, IdpEnds
<1>3. \A d \in IdpCalls : d # c => idpCall'[d] = idpCall[d]
  BY DEF IdpInv, IdpTypeOK
<1>4. idpCall'[c] = r
  BY DEF IdpInv, IdpTypeOK
<1>5. MadeByAnswered'
  BY <1>2, <1>3 DEF IdpInv, MadeByAnswered
<1>6. \A d \in IdpCalls : At(d, "created")' =>
          \/ \E u \in users' : u.by = d
          \/ \E e \in IdpCalls : idpCall'[e].op = "deleteUser" /\ idpCall'[e].step \in {"done", "provider_error"}
  <2> SUFFICES ASSUME NEW d \in IdpCalls, idpCall'[d].step = "created"
               PROVE  \/ \E u \in users' : u.by = d
                      \/ \E e \in IdpCalls : idpCall'[e].op = "deleteUser"
                                             /\ idpCall'[e].step \in {"done", "provider_error"}
    BY DEF At
  <2>1. idpCall[d].step = "created"
    BY <1>3, <1>4
  <2>2. CASE \E u \in users : u.by = d
    BY <2>2
  <2>3. CASE \E e \in IdpCalls : idpCall[e].op = "deleteUser" /\ idpCall[e].step \in {"done", "provider_error"}
    <3>1. PICK e \in IdpCalls : idpCall[e].op = "deleteUser" /\ idpCall[e].step \in {"done", "provider_error"}
      BY <2>3
    <3>2. e # c
      BY <3>1 DEF IdpEnds
    <3> QED  BY <1>3, <3>1, <3>2
  <2> QED  BY <2>1, <2>2, <2>3 DEF IdpInv, FailsNotOverwrites, At
<1>7. FailsNotOverwrites'
  BY <1>2, <1>3, <1>4, <1>6 DEF IdpInv, FailsNotOverwrites, At
<1> QED  BY <1>1, <1>5, <1>7 DEF IdpInv

\* A user is made, of an address and an id that no other user has.
LEMMA IdpMadeStep ==
    ASSUME IdpInv, NEW c \in IdpCalls, idpCall[c].step \in IdpRequests, NEW i \in Ids,
           \A u \in users : u.id # i /\ u.email # idpCall[c].email,
           users' = users \cup {NewUser(c, i)}, Answer(c, "created") \/ Answer(c, "link"),
           UNCHANGED <<idpNow, token, secretOk>>
    PROVE  IdpInv'
<1>1. idpCall[c].step \notin IdpEnds \cup {"new"} /\ idpCall[c].email \in Emails
  BY DEF IdpRequests, IdpEnds, IdpInv, IdpTypeOK, IdpCallOK
<1>2. PICK s \in {"created", "link", "provider_error"} :
         idpCall' = [idpCall EXCEPT ![c] = [idpCall[c] EXCEPT !.step = s]]
  BY DEF Answer, GoTo
<1> DEFINE r == [idpCall[c] EXCEPT !.step = s]
<1>3. s \in IdpEnds
  BY <1>2 DEF IdpEnds
<1>4. r \in IdpCallRecords /\ IdpCallOK(r) /\ r.step = s
  BY <1>1, <1>3, IdpEndOK DEF IdpInv
<1> HIDE DEF r
<1>5. NewUser(c, i) \in [id : Ids, email : Emails, by : IdpCalls]
  BY <1>1 DEF NewUser
<1>6. /\ idpCall' \in [IdpCalls -> IdpCallRecords]
      /\ idpCall'[c] = r /\ \A d \in IdpCalls : d # c => idpCall'[d] = idpCall[d]
  BY <1>2, <1>4 DEF IdpInv, IdpTypeOK, r
<1>7. IdpTypeOK'
  BY <1>4, <1>5, <1>6 DEF IdpInv, IdpTypeOK
<1>8. \A u \in users : u.by \in IdpCalls /\ u.by # c
  BY <1>1 DEF IdpInv, IdpTypeOK, MadeByAnswered, IdpEnds
<1>9. NewUser(c, i).by = c /\ NewUser(c, i).id = i /\ NewUser(c, i).email = idpCall[c].email
  BY DEF NewUser
<1>10. MadeByAnswered'
  BY <1>2, <1>4, <1>6, <1>8, <1>9 DEF IdpInv, MadeByAnswered
<1>11. \A u, v \in users' : u.id = v.id \/ u.email = v.email => u = v
  BY <1>9 DEF IdpInv, FailsNotOverwrites
<1>12. \A d \in IdpCalls : At(d, "exists")' \/ At(d, "conflict")' => \A u \in users' : u.by # d
  BY <1>2, <1>4, <1>6, <1>8, <1>9 DEF IdpInv, FailsNotOverwrites, At
<1>13. ASSUME NEW d \in IdpCalls, At(d, "created")'
       PROVE  \/ \E u \in users' : u.by = d
              \/ \E e \in IdpCalls : idpCall'[e].op = "deleteUser"
                                     /\ idpCall'[e].step \in {"done", "provider_error"}
  <2>1. CASE d = c
    BY <1>9, <2>1
  <2>2. CASE d # c
    <3>1. At(d, "created")
      BY <1>6, <1>13, <2>2 DEF At
    <3>2. CASE \E u \in users : u.by = d
      BY <3>2
    <3>3. CASE \E e \in IdpCalls : idpCall[e].op = "deleteUser" /\ idpCall[e].step \in {"done", "provider_error"}
      <4>1. PICK e \in IdpCalls : idpCall[e].op = "deleteUser" /\ idpCall[e].step \in {"done", "provider_error"}
        BY <3>3
      <4>2. e # c
        BY <1>1, <4>1 DEF IdpEnds
      <4> QED  BY <1>6, <4>1, <4>2
    <3> QED  BY <3>1, <3>2, <3>3 DEF IdpInv, FailsNotOverwrites
  <2> QED  BY <2>1, <2>2
<1>14. FailsNotOverwrites'
  BY <1>11, <1>12, <1>13 DEF FailsNotOverwrites, At
<1> QED  BY <1>7, <1>10, <1>14 DEF IdpInv

LEMMA IdpInvStep == IdpInv /\ [IdpNext]_idpVars => IdpInv'
<1> SUFFICES ASSUME IdpInv, [IdpNext]_idpVars PROVE IdpInv'
  OBVIOUS
<1> USE IdpAssumption
<1>0. \A c \in IdpCalls : idpCall[c].step \in IdpRequests =>
          idpCall[c].step \notin IdpEnds \cup {"new", "created"}
  BY DEF IdpRequests, IdpEnds
<1>e. ASSUME NEW c \in IdpCalls, NEW s \in IdpEnds \ {"created"}, GoTo(c, s),
             idpCall[c].step \notin IdpEnds \cup {"new"},
             UNCHANGED <<idpNow, secretOk, users>>, token' \in [expires : Nat, dies : Nat]
      PROVE  IdpInv'
  <2> DEFINE r == [idpCall[c] EXCEPT !.step = s]
  <2>1. r \in IdpCallRecords /\ IdpCallOK(r) /\ r.step = s
    BY <1>e, IdpEndOK DEF IdpInv
  <2>2. idpCall' = [idpCall EXCEPT ![c] = r]
    BY <1>e DEF GoTo
  <2> HIDE DEF r
  <2> QED  BY <1>e, <2>1, <2>2, IdpQuietStep
<1>a. ASSUME NEW c \in IdpCalls, NEW s \in {"findByEmail", "partialImport", "postUser"},
             Authed(c, s), idpCall[c].step \in IdpRequests,
             s = "findByEmail" => idpCall[c].op \in {"createUser", "registerUser", "deleteUser"},
             UNCHANGED <<idpNow, token, secretOk, users>>
      PROVE  IdpInv'
  <2> DEFINE r == [idpCall[c] EXCEPT !.step = "auth", !.next = s]
  <2>1. r \in IdpCallRecords /\ IdpCallOK(r) /\ r.step = "auth"
    BY <1>0, <1>a, IdpAuthedOK DEF IdpInv
  <2>2. idpCall' = [idpCall EXCEPT ![c] = r]
    BY <1>a DEF Authed
  <2>3. token' \in [expires : Nat, dies : Nat]
    BY <1>a DEF IdpInv, IdpTypeOK
  <2> HIDE DEF r
  <2> QED  BY <1>0, <1>a, <2>1, <2>2, <2>3, IdpQuietStep
<1>1. ASSUME NEW c \in IdpCalls, NEW op \in IdpOps, NEW e \in Emails, NEW i \in Ids,
             StartCall(c, op, e, i)
      PROVE  IdpInv'
  <2> DEFINE r == [op |-> op, step |-> "auth", email |-> e, id |-> i, found |-> {}, next |-> First(op)]
  <2>1. First(op) \in {"getUser", "findByEmail", "magicLink"}
    BY DEF First, IdpOps
  <2>2. /\ First(op) = "findByEmail" => op \in {"createUser", "registerUser", "deleteUser"}
        /\ First(op) = "getUser" => op = "createUser"
    BY DEF First, IdpOps
  <2>3. r \in IdpCallRecords /\ IdpCallOK(r) /\ r.step = "auth"
    BY <2>1, <2>2 DEF IdpCallRecords, IdpCallOK, Reaches, IdpRequests
  <2>4. idpCall' = [idpCall EXCEPT ![c] = r] /\ idpCall[c].step \notin IdpEnds
    BY <1>1 DEF StartCall, At, IdpEnds
  <2>5. token' \in [expires : Nat, dies : Nat] /\ UNCHANGED <<idpNow, secretOk, users>>
    BY <1>1 DEF StartCall, IdpInv, IdpTypeOK
  <2> HIDE DEF r
  <2> QED  BY <2>3, <2>4, <2>5, IdpQuietStep
<1>2. ASSUME NEW c \in IdpCalls, ServiceToken(c) PROVE IdpInv'
  <2>1. idpCall[c].step = "auth" /\ idpCall[c].step \notin IdpEnds \cup {"new"}
    BY <1>2 DEF ServiceToken, NeedsToken, At, IdpEnds
  <2>2. token' \in [expires : Nat, dies : Nat] /\ UNCHANGED <<idpNow, secretOk, users>>
    BY <1>2 DEF ServiceToken, TokenLifetime, IdpInv, IdpTypeOK
  <2>3. CASE GoTo(c, idpCall[c].next)
    <3> DEFINE r == [idpCall[c] EXCEPT !.step = idpCall[c].next]
    <3>1. idpCall[c].next \in IdpRequests /\ idpCall[c] \in IdpCallRecords /\ IdpCallOK(idpCall[c])
      BY <2>1 DEF IdpInv, IdpTypeOK, IdpCallOK
    <3>2. r \in IdpCallRecords /\ IdpCallOK(r) /\ r.step # "created"
      BY <2>1, <3>1 DEF IdpCallRecords, IdpCallOK, Reaches, IdpRequests
    <3>3. idpCall' = [idpCall EXCEPT ![c] = r]
      BY <2>3 DEF GoTo
    <3> HIDE DEF r
    <3> QED  BY <2>1, <2>2, <3>2, <3>3, IdpQuietStep
  <2>4. CASE \E s \in {"unauthorized", "provider_error"} : GoTo(c, s)
    BY <1>e, <2>1, <2>2, <2>4 DEF IdpEnds
  <2> QED  BY <1>2, <2>3, <2>4 DEF ServiceToken
<1>3. ASSUME NEW c \in IdpCalls, Rejected(c) PROVE IdpInv'
  <2>1. PICK s \in {"unauthorized", "provider_error"} : GoTo(c, s)
    BY <1>3 DEF Rejected
  <2>2. token' \in [expires : Nat, dies : Nat] /\ UNCHANGED <<idpNow, secretOk, users>>
    BY <1>3 DEF Rejected, IdpInv, IdpTypeOK
  <2>3. idpCall[c].step \in IdpRequests
    BY <1>3 DEF Rejected, IdpRequests
  <2> QED  BY <1>e, <1>0, <2>1, <2>2, <2>3 DEF IdpEnds
<1>4. ASSUME NEW c \in IdpCalls, GetUser(c) PROVE IdpInv'
  <2>1. token' \in [expires : Nat, dies : Nat] /\ UNCHANGED <<idpNow, token, secretOk, users>>
    BY <1>4 DEF GetUser, IdpInv, IdpTypeOK
  <2>2. idpCall[c].step \in IdpRequests
    BY <1>4 DEF GetUser, At, IdpRequests
  <2>3. idpCall[c].op = "createUser"
    BY <1>4 DEF GetUser, At, IdpInv, IdpTypeOK, IdpCallOK, Reaches
  <2>4. CASE GoTo(c, "conflict")
    BY <1>0, <1>e, <2>1, <2>2, <2>4 DEF IdpEnds
  <2>5. CASE Authed(c, "findByEmail")
    BY <1>a, <2>1, <2>2, <2>3, <2>5
  <2> QED  BY <1>4, <2>4, <2>5 DEF GetUser
<1>5. ASSUME NEW c \in IdpCalls, FindUsersByEmail(c) PROVE IdpInv'
  <2>1. token' \in [expires : Nat, dies : Nat] /\ UNCHANGED <<idpNow, token, secretOk, users>>
    BY <1>5 DEF FindUsersByEmail, IdpInv, IdpTypeOK
  <2>2. idpCall[c].step \in IdpRequests
    BY <1>5 DEF FindUsersByEmail, At, IdpRequests
  <2>3. idpCall[c].op \in {"createUser", "registerUser", "deleteUser"}
    BY <1>5 DEF FindUsersByEmail, At, IdpInv, IdpTypeOK, IdpCallOK, Reaches
  <2> DEFINE found == {u.id : u \in {v \in users : v.email = idpCall[c].email}}
  <2>4. CASE idpCall[c].op = "createUser"
    <3>1. GoTo(c, "conflict") \/ Authed(c, "partialImport")
      BY <1>5, <2>4 DEF FindUsersByEmail
    <3> QED  BY <1>0, <1>e, <1>a, <2>1, <2>2, <3>1 DEF IdpEnds
  <2>5. CASE idpCall[c].op = "registerUser"
    <3>1. GoTo(c, "exists") \/ Authed(c, "postUser")
      BY <1>5, <2>5 DEF FindUsersByEmail
    <3> QED  BY <1>0, <1>e, <1>a, <2>1, <2>2, <3>1 DEF IdpEnds
  <2>6. CASE idpCall[c].op = "deleteUser"
    <3> DEFINE r == [idpCall[c] EXCEPT !.found = found, !.next = "delete",
                                       !.step = IF found = {} THEN "done" ELSE "auth"]
    <3>1. idpCall' = [idpCall EXCEPT ![c] = r]
      BY <1>5, <2>6 DEF FindUsersByEmail
    <3>2. found \in SUBSET Ids
      BY DEF IdpInv, IdpTypeOK
    <3>3. idpCall[c] \in IdpCallRecords /\ IdpCallOK(idpCall[c]) /\ idpCall[c].step # "new"
      BY <1>0, <2>2 DEF IdpInv, IdpTypeOK
    <3> HIDE DEF found
    <3>4. r \in IdpCallRecords /\ IdpCallOK(r) /\ r.step # "created"
      BY <2>6, <3>2, <3>3, ZenonT(60) DEF IdpCallRecords, IdpCallOK, Reaches, IdpRequests, IdpEnds
    <3> HIDE DEF r
    <3> QED  BY <1>0, <2>1, <2>2, <3>1, <3>4, IdpQuietStep
  <2> QED  BY <2>3, <2>4, <2>5, <2>6
<1>6. ASSUME NEW c \in IdpCalls, PartialImport(c) PROVE IdpInv'
  <2>1. idpCall[c].step \in IdpRequests /\ idpCall[c].id \in Ids
    BY <1>6 DEF PartialImport, At, IdpRequests, IdpInv, IdpTypeOK, IdpCallOK
  <2>2. CASE Taken(idpCall[c].id, idpCall[c].email)
    <3>1. token' \in [expires : Nat, dies : Nat] /\ UNCHANGED <<idpNow, secretOk, users>>
      BY <1>6, <2>2 DEF PartialImport, IdpInv, IdpTypeOK
    <3>2. PICK s \in {"conflict", "provider_error"} : GoTo(c, s)
      BY <1>6, <2>2 DEF PartialImport, Answer
    <3> QED  BY <1>0, <1>e, <2>1, <3>1, <3>2 DEF IdpEnds
  <2>3. CASE ~Taken(idpCall[c].id, idpCall[c].email)
    BY <1>6, <2>1, <2>3, IdpMadeStep DEF PartialImport, Taken
  <2> QED  BY <2>2, <2>3
<1>7. ASSUME NEW c \in IdpCalls, PostUser(c) PROVE IdpInv'
  <2>1. idpCall[c].step \in IdpRequests
    BY <1>7 DEF PostUser, At, IdpRequests
  <2>2. CASE \E u \in users : u.email = idpCall[c].email
    <3>1. token' \in [expires : Nat, dies : Nat] /\ UNCHANGED <<idpNow, secretOk, users>>
      BY <1>7, <2>2 DEF PostUser, IdpInv, IdpTypeOK
    <3>2. PICK s \in {"exists", "provider_error"} : GoTo(c, s)
      BY <1>7, <2>2 DEF PostUser, Answer
    <3> QED  BY <1>0, <1>e, <2>1, <3>1, <3>2 DEF IdpEnds
  <2>3. CASE ~\E u \in users : u.email = idpCall[c].email
    <3>1. PICK i \in Ids : /\ \A u \in users : u.id # i
                           /\ users' = users \cup {NewUser(c, i)}
                           /\ Answer(c, "created")
      BY <1>7, <2>3 DEF PostUser
    <3> QED  BY <1>7, <2>1, <2>3, <3>1, IdpMadeStep DEF PostUser
  <2> QED  BY <2>2, <2>3
<1>8. ASSUME NEW c \in IdpCalls, DeleteUser(c) PROVE IdpInv'
  <2>1. idpCall[c].step = "delete" /\ idpCall[c].op = "deleteUser"
    BY <1>8 DEF DeleteUser, At, IdpInv, IdpTypeOK, IdpCallOK, Reaches
  <2>2. PICK s \in {"done", "provider_error"} :
           idpCall' = [idpCall EXCEPT ![c] = [idpCall[c] EXCEPT !.step = s]]
    BY <1>8 DEF DeleteUser, Answer, GoTo
  <2> DEFINE r == [idpCall[c] EXCEPT !.step = s]
  <2>3. r \in IdpCallRecords /\ IdpCallOK(r) /\ r.step = s /\ r.op = "deleteUser"
    <3>1. IdpTypeOK /\ idpCall[c].step # "new" /\ s \in IdpEnds
      BY <2>1 DEF IdpInv, IdpEnds
    <3> HIDE DEF r
    <3>2. r \in IdpCallRecords /\ IdpCallOK(r) /\ r.step = s /\ r.op = idpCall[c].op
      BY <3>1, IdpEndOK, Zenon DEF r
    <3> QED  BY <2>1, <3>2
  <2>4. /\ idpCall' \in [IdpCalls -> IdpCallRecords]
        /\ idpCall'[c] = r /\ \A d \in IdpCalls : d # c => idpCall'[d] = idpCall[d]
    BY <2>2, <2>3 DEF IdpInv, IdpTypeOK
  <2> HIDE DEF r
  <2>5. users' \subseteq users
    BY <1>8 DEF DeleteUser
  <2>6. IdpTypeOK'
    BY <1>8, <2>3, <2>4, <2>5 DEF DeleteUser, IdpInv, IdpTypeOK
  <2>7. \A u \in users : u.by \in IdpCalls /\ u.by # c
    BY <2>1 DEF IdpInv, IdpTypeOK, MadeByAnswered
  <2>8. MadeByAnswered'
    BY <2>4, <2>5, <2>7 DEF IdpInv, MadeByAnswered
  <2>9. FailsNotOverwrites'
    BY <2>2, <2>3, <2>4, <2>5 DEF IdpInv, FailsNotOverwrites, At
  <2> QED  BY <2>6, <2>8, <2>9 DEF IdpInv
<1>9. ASSUME NEW c \in IdpCalls, NEW force \in BOOLEAN, InitiateMagicLink(c, force) PROVE IdpInv'
  <2>1. idpCall[c].step \in IdpRequests
    BY <1>9 DEF InitiateMagicLink, At, IdpRequests
  <2>2. CASE UNCHANGED users
    <3>1. token' \in [expires : Nat, dies : Nat] /\ UNCHANGED <<idpNow, secretOk, users>>
      BY <1>9, <2>2 DEF InitiateMagicLink, IdpInv, IdpTypeOK
    <3>2. PICK s \in {"link", "unknown_user", "provider_error"} : GoTo(c, s)
      BY <1>9 DEF InitiateMagicLink, Answer
    <3> QED  BY <1>0, <1>e, <2>1, <3>1, <3>2 DEF IdpEnds
  <2>3. CASE users' # users
    <3>1. ~\E u \in users : u.email = idpCall[c].email
      BY <1>9, <2>3 DEF InitiateMagicLink
    <3>2. PICK i \in Ids : /\ \A u \in users : u.id # i
                           /\ users' = users \cup {NewUser(c, i)}
                           /\ Answer(c, "link")
      BY <1>9, <2>3 DEF InitiateMagicLink
    <3> QED  BY <1>9, <2>1, <3>1, <3>2, IdpMadeStep DEF InitiateMagicLink
  <2> QED  BY <2>2, <2>3
<1>10. CASE RotateSecret
  BY <1>10 DEF RotateSecret, IdpInv, IdpTypeOK, MadeByAnswered, FailsNotOverwrites, At
<1>11. CASE IdpTick
  BY <1>11 DEF IdpTick, IdpInv, IdpTypeOK, MadeByAnswered, FailsNotOverwrites, At
<1>12. CASE UNCHANGED idpVars
  BY <1>12 DEF idpVars, IdpInv, IdpTypeOK, MadeByAnswered, FailsNotOverwrites, At
<1> QED
  BY <1>1, <1>2, <1>3, <1>4, <1>5, <1>6, <1>7, <1>8, <1>9, <1>10, <1>11, <1>12 DEF IdpNext

\* Calls, tokens and users of the Keycloak provider stay well typed.
THEOREM IdpTypeCorrect == IdpSpec => []IdpTypeOK
  BY IdpInvInit, IdpInvStep, PTL DEF IdpSpec, IdpInv

\* Fails-not-overwrites, for any number of overlapping calls and lost answers: no
\* address or id has two users, a call that was told "exists" or "conflict" made
\* none, and one that was told "created" made one that only a deletion took away.
THEOREM IdpNeverOverwrites == IdpSpec => []FailsNotOverwrites
  BY IdpInvInit, IdpInvStep, PTL DEF IdpSpec, IdpInv

------------------------------------------------------------------------------

(* The request pipeline.  A scope's logger, where it has one, was made for the *)
(* scope's own request and tenant.  wasHome dates each region of each tenant:  *)
(* every answer on its way, and every entry of the cache that still counts,    *)
(* names a region together with a time at which it was that tenant's           *)
(* residency.                                                                  *)

Scope(s) == \E R, T, L : s \in [req : R, tenant : T, logger : L]

ScopeOK(t, s) ==
    /\ Scope(s)
    /\ s.logger = NoLogger \/ s.logger = [req |-> t[1], tenant |-> s.tenant]

Steps == {"new", "resolving", "detecting", "failed", "asking", "answered", "routed", "handling"}

Owners == Tenants \cup {NoTenant}

Shaped(r) ==
    \E Q, G : r \in [at : Steps, q : Q, asked : Nat, tenant : Owners, region : G, time : Nat]

RegionFor(q, g) == IF g # None THEN g ELSE DetectSync(q, order)

ReqOK(r) ==
    /\ Shaped(r)
    /\ r.at # "new" => r.q \in Arrivals
    /\ r.at \in {"asking", "answered"} => r.tenant \in Tenants
    /\ r.at = "answered" =>
          /\ r.region \in Regions /\ r.time <= wasHome[r.tenant][r.region]
          /\ pNow <= r.time + PolicyTime
    /\ r.at = "routed" /\ r.tenant # NoTenant =>
          \E g \in Regions : /\ r.time <= wasHome[r.tenant][g] + ResidencyTtl + PolicyTime
                             /\ r.region = RegionFor(r.q, g)

Dates == [Regions -> Int]

CacheOK(t) ==
    /\ cache[t].value \in Regions /\ cache[t].expires \in Nat
    /\ cache[t].expires > pNow =>
          cache[t].expires <= wasHome[t][cache[t].value] + ResidencyTtl + PolicyTime

HomeOK(t) ==
    /\ home[t] \in Regions /\ wasHome[t] \in Dates
    /\ wasHome[t][home[t]] = pNow /\ \A g \in Regions : wasHome[t][g] <= pNow

ClockOK ==
    /\ pNow \in Nat
    /\ home = [t \in Tenants |-> home[t]] /\ wasHome = [t \in Tenants |-> wasHome[t]]
    /\ cache = [t \in Tenants |-> cache[t]]
    /\ \A t \in Tenants : CacheOK(t) /\ HomeOK(t)

PipeInv ==
    /\ ClockOK
    /\ stack \in Seq(Strategies)
    /\ store = [t \in Tasks |-> store[t]] /\ \A t \in Tasks : ScopeOK(t, store[t])
    /\ req = [r \in Requests |-> req[r]] /\ \A r \in Requests : ReqOK(req[r])

\* One request moves, time and residency do not.
LEMMA OneRequest ==
    ASSUME PipeInv, NEW r \in Requests, NEW n, req' = [req EXCEPT ![r] = n], ReqOK(n),
           UNCHANGED <<stack, order, pNow, home, wasHome>>, ClockOK',
           store' = [t \in Tasks |-> store'[t]], \A t \in Tasks : ScopeOK(t, store'[t])
    PROVE  PipeInv'
<1>1. \A e \in Requests : ReqOK(req'[e])
  BY DEF PipeInv
<1>2. ASSUME NEW e \in Requests PROVE ReqOK(req[e])'
  <2>1. PICK k : k = req'[e] /\ ReqOK(k)
    BY <1>1
  <2>2. \A q, g : RegionFor(q, g)' = RegionFor(q, g)
    BY DEF RegionFor
  <2>3. wasHome' = wasHome /\ pNow' = pNow
    OBVIOUS
  <2>4. \A g \in Regions : g \in Regions'
    OBVIOUS
  <2> QED  BY <2>1, <2>2, <2>3, <2>4 DEF ReqOK, Shaped
<1>3. \A t \in Tasks : ScopeOK(t, store[t])'
  BY DEF ScopeOK
<1>4. (req = [e \in Requests |-> req[e]])'
  BY DEF PipeInv
<1> QED  BY <1>2, <1>3, <1>4 DEF PipeInv

\* Only what the request knows changes.
LEMMA OnlyRequest ==
    ASSUME PipeInv, NEW r \in Requests, NEW n, req' = [req EXCEPT ![r] = n], ReqOK(n),
           UNCHANGED <<stack, order, pNow, home, wasHome, cache, store>>
    PROVE  PipeInv'
<1>1. ClockOK'
  BY DEF PipeInv, ClockOK, CacheOK, HomeOK
<1>2. store' = [t \in Tasks |-> store'[t]] /\ \A t \in Tasks : ScopeOK(t, store'[t])
  BY DEF PipeInv
<1> QED  BY <1>1, <1>2, OneRequest

Stepped(k, a) == [k EXCEPT !.at = a]
Arrived(k, q) == [k EXCEPT !.at = "resolving", !.q = q]
Asked(k, i) == [k EXCEPT !.asked = i]
Found(k, i, tenant) == [k EXCEPT !.asked = i, !.tenant = tenant, !.at = "detecting"]
Placed(k, a, g, m) == [k EXCEPT !.at = a, !.region = g, !.time = m]

LEMMA StepsAre ==
    /\ "resolving" \in Steps /\ "detecting" \in Steps /\ "failed" \in Steps /\ "asking" \in Steps
    /\ "answered" \in Steps /\ "routed" \in Steps /\ "handling" \in Steps
  BY DEF Steps

\* What the handlers do to a request's record.
LEMMA Moves ==
    ASSUME NEW k, Shaped(k), NEW a \in Steps
    PROVE  /\ Shaped(Stepped(k, a)) /\ Stepped(k, a).at = a
           /\ Stepped(k, a).q = k.q /\ Stepped(k, a).tenant = k.tenant
<1>1. PICK Q, G : k \in [at : Steps, q : Q, asked : Nat, tenant : Owners, region : G, time : Nat]
  BY DEF Shaped
<1>2. Stepped(k, a) \in [at : Steps, q : Q, asked : Nat, tenant : Owners, region : G, time : Nat]
  BY <1>1 DEF Stepped
<1>3. Stepped(k, a).at = a /\ Stepped(k, a).q = k.q /\ Stepped(k, a).tenant = k.tenant
  BY <1>1 DEF Stepped
<1> QED  BY <1>2, <1>3 DEF Shaped

LEMMA Arrives ==
    ASSUME NEW k, Shaped(k), NEW q
    PROVE  Shaped(Arrived(k, q)) /\ Arrived(k, q).at = "resolving" /\ Arrived(k, q).q = q
<1>1. PICK Q, G : k \in [at : Steps, q : Q, asked : Nat, tenant : Owners, region : G, time : Nat]
  BY DEF Shaped
<1>2. k \in [at : Steps, q : Q \cup {q}, asked : Nat, tenant : Owners, region : G, time : Nat]
  BY <1>1
<1>3. Arrived(k, q) \in [at : Steps, q : Q \cup {q}, asked : Nat, tenant : Owners, region : G, time : Nat]
  BY <1>2, StepsAre DEF Arrived
<1>4. Arrived(k, q).at = "resolving" /\ Arrived(k, q).q = q
  BY <1>2 DEF Arrived
<1> QED  BY <1>3, <1>4 DEF Shaped

LEMMA Finds ==
    ASSUME NEW k, Shaped(k), NEW i \in Nat, NEW found \in Owners
    PROVE  /\ Shaped(Asked(k, i)) /\ Asked(k, i).at = k.at /\ Asked(k, i).q = k.q
           /\ Shaped(Found(k, i, found)) /\ Found(k, i, found).at = "detecting"
           /\ Found(k, i, found).q = k.q
<1>1. PICK Q, G : k \in [at : Steps, q : Q, asked : Nat, tenant : Owners, region : G, time : Nat]
  BY DEF Shaped
<1>2. Asked(k, i) \in [at : Steps, q : Q, asked : Nat, tenant : Owners, region : G, time : Nat]
  BY <1>1 DEF Asked
<1>3. Asked(k, i).at = k.at /\ Asked(k, i).q = k.q
  BY <1>1 DEF Asked
<1>4. Found(k, i, found)
         \in [at : Steps, q : Q, asked : Nat, tenant : Owners, region : G, time : Nat]
  BY <1>1, StepsAre DEF Found
<1>5. Found(k, i, found).at = "detecting" /\ Found(k, i, found).q = k.q
  BY <1>1 DEF Found
<1> QED  BY <1>2, <1>3, <1>4, <1>5 DEF Shaped

LEMMA Places ==
    ASSUME NEW k, Shaped(k), NEW a \in Steps, NEW g, NEW m \in Nat
    PROVE  LET n == Placed(k, a, g, m)
           IN  /\ Shaped(n) /\ n.at = a /\ n.region = g /\ n.time = m
               /\ n.q = k.q /\ n.tenant = k.tenant
<1>1. PICK Q, G : k \in [at : Steps, q : Q, asked : Nat, tenant : Owners, region : G, time : Nat]
  BY DEF Shaped
<1>2. k \in [at : Steps, q : Q, asked : Nat, tenant : Owners, region : G \cup {g}, time : Nat]
  BY <1>1
<1>3. Placed(k, a, g, m)
         \in [at : Steps, q : Q, asked : Nat, tenant : Owners, region : G \cup {g}, time : Nat]
  BY <1>2 DEF Placed
<1>4. /\ Placed(k, a, g, m).at = a /\ Placed(k, a, g, m).region = g /\ Placed(k, a, g, m).time = m
      /\ Placed(k, a, g, m).q = k.q /\ Placed(k, a, g, m).tenant = k.tenant
  BY <1>2 DEF Placed
<1> QED  BY <1>3, <1>4 DEF Shaped

\* A request to which neither clause about regions applies.
LEMMA PlainOK ==
    ASSUME NEW n, Shaped(n), n.at \notin {"asking", "answered", "routed"},
           n.at # "new" => n.q \in Arrivals
    PROVE  ReqOK(n)
  BY DEF ReqOK

\* A context made by createRequestContext, and the scope of no request.
LEMMA NewScopeOK ==
    /\ \A r \in Requests : \A tenant, k : ScopeOK(<<r, k>>, CreateRequestContext(r, tenant))
    /\ \A t \in Tasks : ScopeOK(t, NoScope)
<1>1. ASSUME NEW r \in Requests, NEW tenant, NEW k
      PROVE  ScopeOK(<<r, k>>, CreateRequestContext(r, tenant))
  <2>1. PICK l : l = [req |-> r, tenant |-> tenant]
    OBVIOUS
  <2>2. CreateRequestContext(r, tenant) = [req |-> r, tenant |-> tenant, logger |-> l]
    BY <2>1 DEF CreateRequestContext
  <2>3. [req |-> r, tenant |-> tenant, logger |-> l] \in [req : {r}, tenant : {tenant}, logger : {l}]
    OBVIOUS
  <2>4. CreateRequestContext(r, tenant).logger = l /\ CreateRequestContext(r, tenant).tenant = tenant
    BY <2>2
  <2> QED  BY <2>1, <2>2, <2>3, <2>4 DEF ScopeOK, Scope
<1>2. ASSUME NEW t \in Tasks PROVE ScopeOK(t, NoScope)
  <2>1. PICK l : l = NoLogger
    OBVIOUS
  <2>2. NoScope = [req |-> None, tenant |-> NoTenant, logger |-> l]
    BY <2>1 DEF NoScope
  <2>3. NoScope \in [req : {None}, tenant : {NoTenant}, logger : {l}]
    BY <2>2
  <2> QED  BY <2>1, <2>2, <2>3 DEF ScopeOK, Scope
<1> QED  BY <1>1, <1>2

LEMMA ArriveKeeps ==
    ASSUME PipeInv, NEW r \in Requests, NEW q \in Arrivals, RunWithRequestContext(r, q)
    PROVE  PipeInv'
<1>1. PICK k : k = req[r] /\ Shaped(k)
  BY DEF PipeInv, ReqOK
<1> DEFINE n == Arrived(k, q)
<1>2. req' = [req EXCEPT ![r] = n]
  BY <1>1 DEF RunWithRequestContext, Arrived
<1>3. Shaped(n) /\ n.at = "resolving" /\ n.q = q
  BY <1>1, Arrives
<1> HIDE DEF n
<1>4. ReqOK(n)
  BY <1>3, PlainOK
<1>5. /\ store' = [store EXCEPT ![<<r, "main">>] = CreateRequestContext(r, NoTenant)]
      /\ UNCHANGED <<stack, order, pNow, home, wasHome, cache>>
  BY DEF RunWithRequestContext, homes
<1>6. ScopeOK(<<r, "main">>, CreateRequestContext(r, NoTenant))
  BY NewScopeOK
<1>7. store' = [t \in Tasks |-> store'[t]] /\ \A t \in Tasks : ScopeOK(t, store'[t])
  BY <1>5, <1>6 DEF PipeInv
<1>8. ClockOK'
  BY <1>5 DEF PipeInv, ClockOK, CacheOK, HomeOK
<1> QED  BY <1>2, <1>4, <1>5, <1>7, <1>8, OneRequest

LEMMA ResolveKeeps ==
    ASSUME PipeInv, NEW r \in Requests, ResolveTenant(r)
    PROVE  PipeInv'
<1>1. PICK k : k = req[r] /\ Shaped(k) /\ k.at = "resolving" /\ k.q \in Arrivals
  BY DEF PipeInv, ReqOK, ResolveTenant
<1> DEFINE i == k.asked + 1
           found == IF i > Len(stack) THEN NoTenant ELSE Resolve(stack[i], k.q.host)
<1>2. i \in Nat \ {0}
  BY <1>1 DEF Shaped
<1>3. found = ResolverError \/ found \in Owners
  <2>1. CASE i > Len(stack)
    BY <2>1 DEF Owners
  <2>2. CASE ~(i > Len(stack))
    <3>1. stack[i] \in Strategies
      BY <1>2, <2>2 DEF PipeInv
    <3> QED  BY <1>1, <2>2, <3>1 DEF Tenants, Owners
  <2> QED  BY <2>1, <2>2
<1>4. \/ req' = [req EXCEPT ![r] = Stepped(k, "detecting")]
      \/ req' = [req EXCEPT ![r] = Stepped(k, "failed")]
      \/ req' = [req EXCEPT ![r] = Asked(k, i)]
      \/ req' = [req EXCEPT ![r] = Found(k, i, found)] /\ found # ResolverError
  BY <1>1 DEF ResolveTenant, Stepped, Asked, Found
<1>5. PICK n : /\ req' = [req EXCEPT ![r] = n] /\ Shaped(n) /\ n.q = k.q
               /\ n.at \in {"detecting", "failed", "resolving"}
  <2>1. /\ Shaped(Stepped(k, "detecting")) /\ Stepped(k, "detecting").at = "detecting"
        /\ Shaped(Stepped(k, "failed")) /\ Stepped(k, "failed").at = "failed"
        /\ Stepped(k, "detecting").q = k.q /\ Stepped(k, "failed").q = k.q
    BY <1>1, Moves, StepsAre
  <2> HIDE DEF i, found
  <2>2. NoTenant \in Owners
    BY DEF Owners
  <2>3. Shaped(Asked(k, i)) /\ Asked(k, i).at = "resolving" /\ Asked(k, i).q = k.q
    BY <1>1, <1>2, <2>2, Finds
  <2>4. ASSUME found \in Owners
        PROVE  /\ Shaped(Found(k, i, found)) /\ Found(k, i, found).at = "detecting"
               /\ Found(k, i, found).q = k.q
    BY <1>1, <1>2, <2>4, Finds
  <2> QED  BY <1>3, <1>4, <2>1, <2>3, <2>4
<1>6. ReqOK(n)
  BY <1>1, <1>5, PlainOK
<1> QED  BY <1>5, <1>6, OnlyRequest DEF ResolveTenant, homes

\* A request is routed by a residency that was its tenant's not too long ago.
LEMMA RoutedOK ==
    ASSUME PipeInv, NEW r \in Requests, req[r].at # "new", NEW t, t = req[r].tenant,
           NEW g \in Regions, pNow <= wasHome[t][g] + ResidencyTtl + PolicyTime
    PROVE  ReqOK(Routed(r, Chosen(r, g)))
<1>1. PICK k : k = req[r] /\ Shaped(k) /\ k.q \in Arrivals
  BY DEF PipeInv, ReqOK
<1>2. PICK region : region = Chosen(r, g) /\ region = RegionFor(k.q, g)
  BY <1>1 DEF Chosen, RegionFor
<1> DEFINE n == Placed(k, "routed", region, pNow)
<1>3. pNow \in Nat
  BY DEF PipeInv, ClockOK
<1>4. /\ Shaped(n) /\ n.at = "routed" /\ n.region = region /\ n.time = pNow /\ n.q = k.q
      /\ n.tenant = t
  BY <1>1, <1>3, Places, StepsAre
<1>5. n = Routed(r, Chosen(r, g))
  BY <1>1, <1>2 DEF Routed, Placed
<1> HIDE DEF n
<1>6. ReqOK(n)
  BY <1>1, <1>2, <1>4 DEF ReqOK
<1> QED  BY <1>5, <1>6

LEMMA DetectKeeps ==
    ASSUME PipeInv, NEW r \in Requests, Detect(r)
    PROVE  PipeInv'
<1>1. PICK k : k = req[r] /\ Shaped(k) /\ k.at = "detecting" /\ k.q \in Arrivals
  BY DEF PipeInv, ReqOK, Detect
<1>2. UNCHANGED <<stack, order, pNow, home, wasHome, cache, store>>
  BY DEF Detect, homes
<1>3. CASE k.tenant = NoTenant
  <2>1. PICK region : region = DetectSync(req[r].q, order)
    OBVIOUS
  <2> DEFINE n == Placed(k, "routed", region, pNow)
  <2>2. req' = [req EXCEPT ![r] = n]
    BY <1>1, <1>3, <2>1 DEF Detect, Routed, Placed
  <2>3. pNow \in Nat
    BY DEF PipeInv, ClockOK
  <2>4. Shaped(n) /\ n.at = "routed" /\ n.tenant = NoTenant /\ n.q = k.q
    BY <1>1, <1>3, <2>3, Places, StepsAre
  <2> HIDE DEF n
  <2>5. ReqOK(n)
    BY <1>1, <2>4 DEF ReqOK
  <2> QED  BY <1>2, <2>2, <2>5, OnlyRequest
<1>4. ASSUME k.tenant # NoTenant PROVE k.tenant \in Tenants
  BY <1>1, <1>4 DEF Shaped, Owners
<1>5. ASSUME k.tenant # NoTenant, CacheHit(k.tenant) PROVE PipeInv'
  <2>1. PICK t \in Tenants : t = k.tenant
    BY <1>4, <1>5
  <2>2. PICK g : g = cache[t].value
    OBVIOUS
  <2>3. req' = [req EXCEPT ![r] = Routed(r, Chosen(r, g))]
    BY <1>1, <1>5, <2>1, <2>2 DEF Detect
  <2>4. CacheOK(t) /\ HomeOK(t) /\ pNow \in Nat
    BY DEF PipeInv, ClockOK
  <2>5. g \in Regions /\ wasHome[t][g] \in Int
    BY <1>5, <2>1, <2>2, <2>4 DEF CacheHit, CacheOK, HomeOK, Dates
  <2>6. pNow <= wasHome[t][g] + ResidencyTtl + PolicyTime
    BY <1>5, <2>1, <2>2, <2>4, <2>5, PipeAssumption DEF CacheHit, CacheOK
  <2>7. ReqOK(Routed(r, Chosen(r, g)))
    BY <1>1, <2>1, <2>5, <2>6, RoutedOK
  <2>8. PICK n : n = Routed(r, Chosen(r, g))
    OBVIOUS
  <2> QED  BY <1>2, <2>3, <2>7, <2>8, OnlyRequest
<1>6. ASSUME k.tenant # NoTenant, ~CacheHit(k.tenant) PROVE PipeInv'
  <2> DEFINE n == Stepped(k, "asking")
  <2>1. req' = [req EXCEPT ![r] = n]
    BY <1>1, <1>6 DEF Detect, Stepped
  <2>2. Shaped(n) /\ n.at = "asking" /\ n.q = k.q /\ n.tenant = k.tenant
    BY <1>1, Moves, StepsAre
  <2> HIDE DEF n
  <2>3. ReqOK(n)
    BY <1>1, <1>4, <1>6, <2>2 DEF ReqOK
  <2> QED  BY <1>2, <2>1, <2>3, OnlyRequest
<1> QED  BY <1>3, <1>5, <1>6

LEMMA PolicyReadsKeeps ==
    ASSUME PipeInv, NEW r \in Requests, PolicyReads(r)
    PROVE  PipeInv'
<1>1. PICK k : k = req[r] /\ Shaped(k) /\ k.q \in Arrivals /\ k.tenant \in Tenants
  BY DEF PipeInv, ReqOK, PolicyReads
<1> DEFINE t == k.tenant
<1>2. PICK now \in Nat, place \in Regions : now = pNow /\ place = home[t] /\ now <= wasHome[t][place]
  <2>1. HomeOK(t) /\ pNow \in Nat
    BY <1>1 DEF PipeInv, ClockOK
  <2> QED  BY <2>1 DEF HomeOK
<1> DEFINE n == Placed(k, "answered", place, now)
<1>3. req' = [req EXCEPT ![r] = n] /\ UNCHANGED <<stack, order, pNow, home, wasHome, cache, store>>
  BY <1>1, <1>2 DEF PolicyReads, Placed, homes
<1>4. /\ Shaped(n) /\ n.at = "answered" /\ n.region = place /\ n.time = now
      /\ n.q = k.q /\ n.tenant = t
  BY <1>1, Places, StepsAre
<1> HIDE DEF n
<1>5. pNow <= now + PolicyTime
  BY <1>2, PipeAssumption
<1>6. ReqOK(n)
  BY <1>1, <1>2, <1>4, <1>5 DEF ReqOK
<1> QED  BY <1>3, <1>6, OnlyRequest

LEMMA PolicyAnswersKeeps ==
    ASSUME PipeInv, NEW r \in Requests, PolicyAnswers(r)
    PROVE  PipeInv'
<1>1. PICK t \in Tenants, g \in Regions, at \in Nat :
        /\ t = req[r].tenant /\ g = req[r].region /\ at = req[r].time
        /\ at <= wasHome[t][g] /\ pNow <= at + PolicyTime
  BY DEF PipeInv, ReqOK, Shaped, PolicyAnswers
<1>2. /\ cache' = [cache EXCEPT ![t] = [value |-> g, expires |-> pNow + ResidencyTtl]]
      /\ req' = [req EXCEPT ![r] = Routed(r, Chosen(r, g))]
      /\ UNCHANGED <<stack, order, pNow, home, wasHome, store>>
  BY <1>1 DEF PolicyAnswers, homes
<1>3. pNow \in Nat /\ wasHome[t][g] \in Int
  BY DEF PipeInv, ClockOK, HomeOK, Dates
<1>4. /\ pNow <= wasHome[t][g] + ResidencyTtl + PolicyTime
      /\ pNow + ResidencyTtl <= wasHome[t][g] + ResidencyTtl + PolicyTime /\ pNow + ResidencyTtl \in Nat
  <2>1. PICK w \in Int, n \in Nat : w = wasHome[t][g] /\ n = pNow /\ at <= w /\ n <= at + PolicyTime
    BY <1>1, <1>3
  <2>2. /\ n <= w + ResidencyTtl + PolicyTime
        /\ n + ResidencyTtl <= w + ResidencyTtl + PolicyTime /\ n + ResidencyTtl \in Nat
    BY <2>1, PipeAssumption
  <2> QED  BY <2>1, <2>2
<1>5. ReqOK(Routed(r, Chosen(r, g)))
  BY <1>1, <1>4, RoutedOK DEF PolicyAnswers
<1>6. ClockOK'
  <2> DEFINE entry == [value |-> g, expires |-> pNow + ResidencyTtl]
  <2>1. entry.value = g /\ entry.expires = pNow + ResidencyTtl
    OBVIOUS
  <2> HIDE DEF entry
  <2>2. cache' = [cache EXCEPT ![t] = entry] /\ cache = [u \in Tenants |-> cache[u]]
    BY <1>2 DEF entry, PipeInv, ClockOK
  <2>3. CacheOK(t)'
    BY <1>2, <1>4, <2>1, <2>2 DEF CacheOK
  <2>4. \A u \in Tenants \ {t} : CacheOK(u)'
    BY <1>2, <2>2 DEF CacheOK, PipeInv, ClockOK
  <2>5. \A u \in Tenants : HomeOK(u)'
    BY <1>2 DEF HomeOK, PipeInv, ClockOK
  <2>6. cache' = [u \in Tenants |-> cache'[u]]
    BY <2>2
  <2> QED  BY <1>2, <2>3, <2>4, <2>5, <2>6 DEF PipeInv, ClockOK
<1>7. store' = [e \in Tasks |-> store'[e]] /\ \A e \in Tasks : ScopeOK(e, store'[e])
  BY <1>2 DEF PipeInv
<1>8. PICK n : n = Routed(r, Chosen(r, g))
  OBVIOUS
<1> QED  BY <1>2, <1>5, <1>6, <1>7, <1>8, OneRequest

LEMMA StartTaskKeeps ==
    ASSUME PipeInv, NEW r \in Requests, StartTask(r)
    PROVE  PipeInv'
<1>1. /\ store' = [store EXCEPT ![<<r, "child">>] = store[<<r, "main">>]]
      /\ UNCHANGED <<stack, order, pNow, home, wasHome, cache, req>>
  BY DEF StartTask, homes
<1>2. <<r, "main">> \in Tasks /\ <<r, "child">> \in Tasks
  BY DEF Tasks
<1>3. PICK s : s = store[<<r, "main">>] /\ ScopeOK(<<r, "main">>, s)
  BY <1>2 DEF PipeInv
<1>4. ScopeOK(<<r, "child">>, s)
  BY <1>3 DEF ScopeOK
<1>5. store' = [t \in Tasks |-> store'[t]] /\ \A t \in Tasks : ScopeOK(t, store'[t])
  BY <1>1, <1>3, <1>4 DEF PipeInv
<1>6. \A t \in Tasks : ScopeOK(t, store[t])'
  BY <1>5 DEF ScopeOK
<1>7. \A e \in Requests : ReqOK(req[e])'
  BY <1>1 DEF PipeInv, ReqOK, Shaped, RegionFor
<1>8. ClockOK'
  BY <1>1 DEF PipeInv, ClockOK, CacheOK, HomeOK
<1> QED  BY <1>1, <1>5, <1>6, <1>7, <1>8 DEF PipeInv

LEMMA SetContextKeeps ==
    ASSUME PipeInv, NEW r \in Requests, SetRequestContext(r)
    PROVE  PipeInv'
<1>1. PICK k : k = req[r] /\ Shaped(k) /\ k.q \in Arrivals
  BY DEF PipeInv, ReqOK, SetRequestContext
<1> DEFINE n == Stepped(k, "handling")
<1>2. req' = [req EXCEPT ![r] = n] /\ UNCHANGED <<stack, order, pNow, home, wasHome, cache>>
  BY <1>1 DEF SetRequestContext, Stepped, homes
<1>3. Shaped(n) /\ n.at = "handling" /\ n.q = k.q
  BY <1>1, Moves, StepsAre
<1> HIDE DEF n
<1>4. ReqOK(n)
  BY <1>1, <1>3, PlainOK
<1>5. <<r, "main">> \in Tasks
  BY DEF Tasks
<1>6. PICK s : s = store[<<r, "main">>] /\ ScopeOK(<<r, "main">>, s)
  BY <1>5 DEF PipeInv
<1>7. PICK tenant : tenant = req[r].tenant
  OBVIOUS
<1>8. PICK c : /\ store' = [store EXCEPT ![<<r, "main">>] = c] /\ ScopeOK(<<r, "main">>, c)
  <2>1. \/ store' = [store EXCEPT ![<<r, "main">>] = CreateRequestContext(r, tenant)]
        \/ store' = [store EXCEPT ![<<r, "main">>] = [s EXCEPT !.tenant = tenant, !.logger = NoLogger]]
    BY <1>6, <1>7 DEF SetRequestContext, LoggerOfCopy
  <2>2. ScopeOK(<<r, "main">>, CreateRequestContext(r, tenant))
    BY NewScopeOK
  <2>3. ScopeOK(<<r, "main">>, [s EXCEPT !.tenant = tenant, !.logger = NoLogger])
    <3>1. PICK R, T, L : s \in [req : R, tenant : T, logger : L]
      BY <1>6 DEF ScopeOK, Scope
    <3>2. s \in [req : R, tenant : T \cup {tenant}, logger : L \cup {NoLogger}]
      BY <3>1
    <3>3. [s EXCEPT !.tenant = tenant, !.logger = NoLogger]
             \in [req : R, tenant : T \cup {tenant}, logger : L \cup {NoLogger}]
      BY <3>2
    <3>4. [s EXCEPT !.tenant = tenant, !.logger = NoLogger].logger = NoLogger
      BY <3>2
    <3> QED  BY <3>3, <3>4 DEF ScopeOK, Scope
  <2> QED  BY <2>1, <2>2, <2>3
<1>9. store' = [t \in Tasks |-> store'[t]] /\ \A t \in Tasks : ScopeOK(t, store'[t])
  BY <1>8 DEF PipeInv
<1>10. ClockOK'
  BY <1>2 DEF PipeInv, ClockOK, CacheOK, HomeOK
<1> QED  BY <1>2, <1>4, <1>9, <1>10, OneRequest

\* Time passes or a residency changes: every date still holds.
LEMMA ClockKeeps ==
    ASSUME PipeInv, PTick \/ \E t \in Tenants, g \in Regions : ChangeResidency(t, g)
    PROVE  PipeInv'
<1>1. UNCHANGED <<stack, order, cache, req, store>>
  BY DEF PTick, ChangeResidency
<1>2. /\ pNow \in Nat /\ home = [t \in Tenants |-> home[t]]
      /\ wasHome = [t \in Tenants |-> wasHome[t]]
      /\ \A t \in Tenants : CacheOK(t) /\ HomeOK(t)
  BY DEF PipeInv, ClockOK
<1>3. /\ pNow' \in Nat /\ pNow <= pNow'
      /\ home' = [t \in Tenants |-> home'[t]] /\ wasHome' = [t \in Tenants |-> wasHome'[t]]
  BY <1>2 DEF PTick, ChangeResidency
<1>4. ASSUME NEW t \in Tenants
      PROVE  /\ HomeOK(t)'
             /\ \A g \in Regions : /\ wasHome[t][g] <= wasHome'[t][g]
                                   /\ wasHome[t][g] \in Int /\ wasHome'[t][g] \in Int
  <2>1. PICK w \in Dates : w = wasHome[t] /\ w[home[t]] = pNow /\ \A g \in Regions : w[g] <= pNow
    BY <1>2 DEF HomeOK
  <2>2. home[t] \in Regions
    BY <1>2 DEF HomeOK
  <2>3. CASE PTick
    <3>1. wasHome'[t] = [w EXCEPT ![home[t]] = pNow + 1] /\ home' = home /\ pNow' = pNow + 1
      BY <2>1, <2>3 DEF PTick
    <3> QED  BY <1>2, <2>1, <2>2, <3>1 DEF HomeOK, Dates
  <2>4. ASSUME NEW u \in Tenants, NEW g \in Regions, ChangeResidency(u, g), u = t
        PROVE  wasHome'[t] = [w EXCEPT ![g] = pNow] /\ home'[t] = g /\ pNow' = pNow
    BY <1>2, <2>1, <2>4 DEF ChangeResidency
  <2>5. ASSUME NEW u \in Tenants, NEW g \in Regions, ChangeResidency(u, g), u # t
        PROVE  wasHome'[t] = w /\ home'[t] = home[t] /\ pNow' = pNow
    BY <1>2, <2>1, <2>5 DEF ChangeResidency
  <2>6. CASE \E u \in Tenants, g \in Regions : ChangeResidency(u, g)
    <3>1. PICK u \in Tenants, g \in Regions : ChangeResidency(u, g)
      BY <2>6
    <3>2. CASE u = t
      <4>1. wasHome'[t] = [w EXCEPT ![g] = pNow] /\ home'[t] = g /\ pNow' = pNow
        BY <2>4, <3>1, <3>2
      <4>2. wasHome'[t] \in Dates /\ \A x \in Regions : wasHome'[t][x] = IF x = g THEN pNow ELSE w[x]
        BY <1>2, <4>1 DEF Dates
      <4>3. \A x \in Regions : w[x] \in Int
        BY DEF Dates
      <4> QED  BY <1>2, <2>1, <4>1, <4>2, <4>3 DEF HomeOK, Dates
    <3>3. CASE u # t
      BY <1>2, <2>1, <2>2, <2>5, <3>1, <3>3 DEF HomeOK, Dates
    <3> QED  BY <3>2, <3>3
  <2> QED  BY <2>3, <2>6
<1>5. ASSUME NEW t \in Tenants PROVE CacheOK(t)'
  <2>1. PICK v \in Regions, e \in Nat :
          /\ v = cache[t].value /\ e = cache[t].expires
          /\ e > pNow => e <= wasHome[t][v] + ResidencyTtl + PolicyTime
    BY <1>2 DEF CacheOK
  <2>2. e > pNow' => e <= wasHome'[t][v] + ResidencyTtl + PolicyTime
    <3>1. PICK a \in Int, b \in Int : a = wasHome[t][v] /\ b = wasHome'[t][v] /\ a <= b
      BY <1>4
    <3>2. ASSUME e > pNow' PROVE e > pNow
      BY <1>2, <1>3, <3>2
    <3>3. ASSUME e <= a + ResidencyTtl + PolicyTime PROVE e <= b + ResidencyTtl + PolicyTime
      BY <3>1, <3>3, PipeAssumption
    <3> QED  BY <2>1, <3>1, <3>2, <3>3
  <2> QED  BY <1>1, <2>1, <2>2 DEF CacheOK
<1>6. ClockOK'
  BY <1>1, <1>3, <1>4, <1>5 DEF PipeInv, ClockOK
<1>7. ASSUME NEW r \in Requests
      PROVE  ReqOK(req[r])'
  <2>1. PICK k : k = req[r] /\ ReqOK(k) /\ k = req'[r]
    BY <1>1 DEF PipeInv
  <2>2. Shaped(k)
    BY <2>1 DEF ReqOK
  <2>3. k.time \in Nat /\ k.tenant \in Owners
    BY <2>2 DEF Shaped
  <2>4. ASSUME k.at = "answered"
        PROVE  /\ k.region \in Regions /\ k.time <= wasHome'[k.tenant][k.region]
               /\ pNow' <= k.time + PolicyTime
    <3>1. /\ k.region \in Regions /\ k.time <= wasHome[k.tenant][k.region]
          /\ pNow <= k.time + PolicyTime /\ k.tenant \in Tenants
      BY <2>1, <2>4 DEF ReqOK
    <3>2. PICK a \in Int, b \in Int :
            a = wasHome[k.tenant][k.region] /\ b = wasHome'[k.tenant][k.region] /\ a <= b
      BY <1>4, <3>1
    <3>3. k.time <= wasHome'[k.tenant][k.region]
      BY <2>3, <3>1, <3>2
    <3>4. pNow' = pNow \/ (pNow' = pNow + 1 /\ pNow < k.time + PolicyTime)
      BY <2>1, <2>4 DEF PTick, ChangeResidency
    <3>5. pNow' <= k.time + PolicyTime
      BY <1>2, <2>3, <3>1, <3>4, PipeAssumption
    <3> QED  BY <3>1, <3>3, <3>5
  <2>5. ASSUME k.at = "routed", k.tenant # NoTenant
        PROVE  \E g \in Regions : /\ k.time <= wasHome'[k.tenant][g] + ResidencyTtl + PolicyTime
                                   /\ k.region = RegionFor(k.q, g)
    <3>1. PICK g \in Regions : /\ k.time <= wasHome[k.tenant][g] + ResidencyTtl + PolicyTime
                               /\ k.region = RegionFor(k.q, g)
      BY <2>1, <2>5 DEF ReqOK
    <3>2. k.tenant \in Tenants
      BY <2>3, <2>5 DEF Owners
    <3>3. PICK a \in Int, b \in Int : a = wasHome[k.tenant][g] /\ b = wasHome'[k.tenant][g] /\ a <= b
      BY <1>4, <3>2
    <3>4. k.time <= b + ResidencyTtl + PolicyTime
      BY <2>3, <3>1, <3>3, PipeAssumption
    <3> QED  BY <3>1, <3>3, <3>4
  <2>6. /\ k.at # "new" => k.q \in Arrivals
        /\ k.at \in {"asking", "answered"} => k.tenant \in Tenants
    BY <2>1 DEF ReqOK
  <2> QED  BY <1>1, <2>1, <2>2, <2>4, <2>5, <2>6 DEF ReqOK, Shaped, RegionFor
<1>8. \A t \in Tasks : ScopeOK(t, store[t])'
  BY <1>1 DEF PipeInv, ScopeOK, Scope
<1> QED  BY <1>1, <1>6, <1>7, <1>8 DEF PipeInv

LEMMA PipeInvInit == PInit => PipeInv
<1> SUFFICES ASSUME PInit PROVE PipeInv
  OBVIOUS
<1>1. ClockOK
  <2>1. ASSUME NEW t \in Tenants PROVE CacheOK(t)
    BY <2>1 DEF PInit, CacheOK, Regions
  <2>2. ASSUME NEW t \in Tenants PROVE HomeOK(t)
    <3>1. PICK m \in Int : m = Never /\ m < 0
      BY PipeAssumption DEF Never
    <3>2. wasHome[t] = [g \in Regions |-> IF g = home[t] THEN 0 ELSE m] /\ home[t] \in Regions
      BY <3>1 DEF PInit
    <3>3. pNow = 0
      BY DEF PInit
    <3> QED  BY <3>1, <3>2, <3>3 DEF HomeOK, Dates
  <2> QED  BY <2>1, <2>2 DEF PInit, ClockOK
<1>2. \A t \in Tasks : ScopeOK(t, store[t])
  BY NewScopeOK DEF PInit
<1>3. ASSUME NEW r \in Requests PROVE ReqOK(req[r])
  <2>1. PICK q : q = CHOOSE e \in Arrivals : TRUE
    OBVIOUS
  <2>2. req[r] = [at |-> "new", q |-> q, asked |-> 0, tenant |-> NoTenant, region |-> None, time |-> 0]
    BY <2>1 DEF PInit
  <2>3. req[r] \in [at : Steps, q : {q}, asked : Nat, tenant : Owners, region : {None}, time : Nat]
    BY <2>2 DEF Steps, Owners
  <2> QED  BY <2>2, <2>3, PlainOK DEF Shaped
<1>4. stack \in Seq(Strategies)
  BY PipeAssumption DEF PInit
<1> QED  BY <1>1, <1>2, <1>3, <1>4 DEF PInit, PipeInv

LEMMA PipeInvStep == PipeInv /\ [PNext]_pVars => PipeInv'
<1> SUFFICES ASSUME PipeInv, [PNext]_pVars PROVE PipeInv'
  OBVIOUS
<1>1. CASE UNCHANGED pVars
  BY <1>1 DEF pVars, homes, PipeInv, ClockOK, CacheOK, HomeOK, ScopeOK, Scope, ReqOK, Shaped, RegionFor
<1>2. CASE PNext
  BY <1>2, ArriveKeeps, ResolveKeeps, DetectKeeps, PolicyReadsKeeps, PolicyAnswersKeeps,
     StartTaskKeeps, SetContextKeeps, ClockKeeps DEF PNext
<1> QED  BY <1>1, <1>2

\* However requests interleave, with each other's, of this tenant or another, and
\* with changes of residency: a log line names the request and the tenant of the
\* context in force, and a tenant's request is routed by a residency that was this
\* tenant's no longer ago than the cache's life and one answer of the policy.
THEOREM RequestsApart == PSpec => []RequestsStayApart
<1>1. PipeInv => RequestsStayApart
  <2> SUFFICES ASSUME PipeInv PROVE LinesNameTheirContext /\ RoutedHome
    BY DEF RequestsStayApart
  <2>1. LinesNameTheirContext
    <3> SUFFICES ASSUME NEW t \in Tasks, store[t].logger # NoLogger
                 PROVE  store[t].logger.req = t[1] /\ store[t].logger.tenant = store[t].tenant
      BY DEF LinesNameTheirContext, GetLogger
    <3>1. store[t].logger = [req |-> t[1], tenant |-> store[t].tenant]
      BY DEF PipeInv, ScopeOK
    <3> QED  BY <3>1
  <2>2. RoutedHome
    BY DEF PipeInv, ReqOK, RegionFor, RoutedHome, Chosen
  <2> QED  BY <2>1, <2>2
<1> QED  BY <1>1, PipeInvInit, PipeInvStep, PTL DEF PSpec

------------------------------------------------------------------------------

(* The audit log.  A row is the one its put carries, its end of life is the    *)
(* one fixed when put was called, and a put that succeeded has its row until   *)
(* then; how an emit ended follows from its settled puts and the log.          *)

Clean(metadata) ==
    \A i \in DOMAIN metadata :
        (\E k \in DOMAIN metadata[i].path : Lower(metadata[i].path[k]) = "token")
            => metadata[i].value = Redacted

EmitStates == {"new", "writing", "acked", "threw", "returned", "gone"}

Emitted(m) ==
    \E M : m \in [state : EmitStates, await : BOOLEAN, at : Nat, severity : Severities \cup {"none"},
                  metadata : M]

PutRecords == [state : {"unsent", "sent", "ok", "failed"}, ttl : Nat, tries : Nat]

RowOf(m, p) == [ttl |-> p.ttl, metadata |-> m.metadata]

PutOK(m, p, r) ==
    /\ p \in PutRecords
    /\ m.state = "new" => p.state = "unsent"
    /\ p.state = "unsent" => r = NoAuditRow
    /\ p.state # "unsent" => p.ttl = m.at + Retention[m.severity]
    /\ r = NoAuditRow \/ r = RowOf(m, p)
    /\ p.state = "ok" => r # NoAuditRow \/ p.ttl < auditNow

EmitOK(e, m, P) ==
    /\ Emitted(m) /\ Clean(m.metadata)
    /\ m.state # "new" => m.severity \in Severities
    /\ m.state = "acked" => IF auditMode = "all" THEN \A s \in Stores : P[s].state = "ok"
                            ELSE \E s \in Stores : P[s].state = "ok"
    /\ m.state \in {"acked", "returned"} =>
          <<e, "validate">> \in logged \/ \A s \in Stores : P[s].state = "ok" \/ <<e, s>> \in logged

AuditInv ==
    /\ auditNow \in Nat
    /\ emits = [e \in Events |-> emits[e]]
    /\ puts = [e \in Events |-> puts[e]]
    /\ \A e \in Events : puts[e] = [s \in Stores |-> puts[e][s]]
    /\ rows = [s \in Stores |-> rows[s]]
    /\ \A s \in Stores : rows[s] = [e \in Events |-> rows[s][e]]
    /\ \A e \in Events : /\ EmitOK(e, emits[e], puts[e])
                         /\ \A s \in Stores : PutOK(emits[e], puts[e][s], rows[s][e])

-----------------------------------------------------------------------------
LEMMA NoMetadataClean == Clean(<<>>)
<1>1. DOMAIN <<>> = {}
  OBVIOUS
<1> QED  BY <1>1 DEF Clean

LEMMA ScrubClean ==
    ASSUME NEW leaf
    PROVE  (\E k \in DOMAIN Scrub(leaf).path : Lower(Scrub(leaf).path[k]) = "token")
             => Scrub(leaf).value = Redacted
<1>1. CASE Denied(leaf.path) = {}
  <2>1. Scrub(leaf) = leaf
    BY <1>1 DEF Scrub
  <2>2. \A k \in DOMAIN leaf.path : Lower(leaf.path[k]) # "token"
    BY <1>1 DEF Denied, Denylist
  <2> QED  BY <2>1, <2>2
<1>2. CASE Denied(leaf.path) # {}
  <2>1. PICK path : path = SubSeq(leaf.path, 1, Min(Denied(leaf.path)))
    OBVIOUS
  <2>2. Scrub(leaf) = [path |-> path, value |-> Redacted, bytes |-> 1]
    BY <1>2, <2>1 DEF Scrub
  <2> QED  BY <2>2
<1> QED  BY <1>1, <1>2

LEMMA ApplyClean == \A metadata : Clean(Apply(metadata))
<1> SUFFICES ASSUME NEW metadata PROVE Clean(Apply(metadata))
  OBVIOUS
<1>1. /\ DOMAIN Apply(metadata) = DOMAIN metadata
      /\ \A i \in DOMAIN metadata : Apply(metadata)[i] = Scrub(metadata[i])
  BY DEF Apply
<1> QED  BY <1>1, ScrubClean DEF Clean

LEMMA EnforceClean == \A metadata : Clean(metadata) => Clean(EnforceMetadataSize(metadata))
<1> SUFFICES ASSUME NEW metadata, Clean(metadata) PROVE Clean(EnforceMetadataSize(metadata))
  OBVIOUS
<1>1. PICK n : n = Min({k \in 0 .. Cardinality(DOMAIN metadata) : Size(WithoutLargest(metadata, k)) <= MaxBytes})
  OBVIOUS
<1>2. PICK kept : kept = WithoutLargest(metadata, n)
  OBVIOUS
<1>3. EnforceMetadataSize(metadata) = [i \in DOMAIN kept \cup {0} |-> IF i = 0 THEN Flag ELSE kept[i]]
  BY <1>1, <1>2 DEF EnforceMetadataSize
<1>4. \A i \in DOMAIN kept : i \in DOMAIN metadata /\ kept[i] = metadata[i]
  BY <1>2 DEF WithoutLargest, Restrict
<1>5. \A k \in DOMAIN Flag.path : Lower(Flag.path[k]) # "token"
  BY DEF Flag, Lower
<1> QED  BY <1>3, <1>4, <1>5 DEF Clean

\* What Moved and Again do to the records.
LEMMA MovedEmit ==
    ASSUME NEW m, Emitted(m), NEW state \in EmitStates
    PROVE  LET n == Moved(m, state)
           IN  /\ Emitted(n) /\ n.state = state /\ n.metadata = m.metadata
               /\ n.at = m.at /\ n.severity = m.severity
<1>1. PICK M : m \in [state : EmitStates, await : BOOLEAN, at : Nat, severity : Severities \cup {"none"},
                      metadata : M]
  BY DEF Emitted
<1>2. Moved(m, state) \in [state : EmitStates, await : BOOLEAN, at : Nat,
                           severity : Severities \cup {"none"}, metadata : M]
  BY <1>1 DEF Moved
<1>3. /\ Moved(m, state).state = state /\ Moved(m, state).metadata = m.metadata
      /\ Moved(m, state).at = m.at /\ Moved(m, state).severity = m.severity
  BY <1>1 DEF Moved
<1> QED  BY <1>2, <1>3 DEF Emitted

LEMMA MovedPut ==
    ASSUME NEW p \in PutRecords, NEW state \in {"ok", "failed"}
    PROVE  /\ Moved(p, state) \in PutRecords /\ Moved(p, state).state = state
           /\ Moved(p, state).ttl = p.ttl
           /\ Again(p) \in PutRecords /\ Again(p).state = p.state /\ Again(p).ttl = p.ttl
  BY DEF Moved, Again, PutRecords

LEMMA RowOfIsARow ==
    ASSUME NEW m, NEW p \in PutRecords
    PROVE  RowOf(m, p) # NoAuditRow
<1>1. RowOf(m, p).ttl = p.ttl /\ NoAuditRow.ttl = -1
  BY DEF RowOf, NoAuditRow
<1>2. p.ttl \in Nat
  BY DEF PutRecords
<1> QED  BY <1>1, <1>2

-----------------------------------------------------------------------------
\* A step that concerns one event.
LEMMA OneEvent ==
    ASSUME AuditInv, NEW e \in Events, UNCHANGED <<auditMode, auditNow>>,
           NEW m, emits' = [emits EXCEPT ![e] = m],
           puts' = [d \in Events |-> puts'[d]],
           puts'[e] = [s \in Stores |-> puts'[e][s]],
           rows' = [s \in Stores |-> rows'[s]],
           \A s \in Stores : rows'[s] = [d \in Events |-> rows'[s][d]],
           \A d \in Events : d # e => puts'[d] = puts[d] /\ \A s \in Stores : rows'[s][d] = rows[s][d],
           logged \subseteq logged',
           EmitOK(e, m, puts[e])', \A s \in Stores : PutOK(m, puts'[e][s], rows'[s][e])
    PROVE  AuditInv'
<1>1. emits' = [d \in Events |-> emits'[d]] /\ emits'[e] = m /\ \A d \in Events : d # e => emits'[d] = emits[d]
  BY DEF AuditInv
<1>2. \A d \in Events : puts'[d] = [s \in Stores |-> puts'[d][s]]
  BY DEF AuditInv
<1>3. \A d \in Events : EmitOK(d, emits[d], puts[d])'
  <2>1. ASSUME NEW d \in Events, d # e PROVE EmitOK(d, emits[d], puts[d])'
    <3>1. PICK n, P : n = emits[d] /\ P = puts[d] /\ n = emits'[d] /\ P = puts'[d]
      BY <1>1, <2>1
    <3>2. EmitOK(d, n, P)
      BY <3>1 DEF AuditInv
    <3>3. EmitOK(d, n, P)'
      BY <3>2 DEF EmitOK, Emitted
    <3> QED  BY <3>1, <3>3 DEF EmitOK
  <2>2. EmitOK(e, emits[e], puts[e])'
    BY <1>1 DEF EmitOK
  <2> QED  BY <2>1, <2>2
<1>4. \A d \in Events : \A s \in Stores : PutOK(emits'[d], puts'[d][s], rows'[s][d])
  BY <1>1 DEF AuditInv
<1>5. \A d \in Events : \A s \in Stores : PutOK(emits[d], puts[d][s], rows[s][d])'
  BY <1>4 DEF PutOK
<1> QED  BY <1>1, <1>2, <1>3, <1>5 DEF AuditInv

\* emit and emitAwait: nothing was stored for the event before, and what is sent
\* is scrubbed.
LEMMA EmitKeeps ==
    ASSUME AuditInv, NEW e \in Events, NEW await \in BOOLEAN, NEW severity \in Severities,
           NEW input, Emit(e, await, severity, input)
    PROVE  AuditInv'
<1>1. PICK scrubbed : scrubbed = Apply(input) /\ Clean(scrubbed)
  BY ApplyClean
<1>2. PICK refused \in BOOLEAN : refused = (~Fits(scrubbed) /\ policy = "reject")
  OBVIOUS
<1>3. PICK metadata : /\ metadata = IF refused THEN <<>> ELSE IF Fits(scrubbed) THEN scrubbed
                                    ELSE EnforceMetadataSize(scrubbed)
                      /\ Clean(metadata)
  BY <1>1, EnforceClean, NoMetadataClean
<1>4. PICK state \in EmitStates :
        state = IF refused THEN IF await THEN "threw" ELSE "returned" ELSE "writing"
  BY DEF EmitStates
<1>5. PICK now \in Nat : now = auditNow
  BY DEF AuditInv
<1>6. PICK m : m = [state |-> state, await |-> await, at |-> now, severity |-> severity,
                    metadata |-> metadata]
  OBVIOUS
<1>7. emits' = [emits EXCEPT ![e] = m]
  BY <1>1, <1>2, <1>3, <1>4, <1>5, <1>6 DEF Emit
<1>8. /\ m.state = state /\ m.at = now /\ m.severity = severity /\ m.metadata = metadata
      /\ Emitted(m)
  <2>1. m \in [state : EmitStates, await : BOOLEAN, at : Nat, severity : Severities \cup {"none"},
               metadata : {metadata}]
    BY <1>6
  <2> QED  BY <1>6, <2>1 DEF Emitted
<1>9. PICK p \in PutRecords :
        /\ p = IF refused THEN Unsent
               ELSE [state |-> "sent", ttl |-> RetentionUntil(severity), tries |-> 1]
        /\ p.state \in {"unsent", "sent"}
        /\ p.state = "sent" => p.ttl = now + Retention[severity]
  <2>1. now + Retention[severity] \in Nat /\ RetentionUntil(severity) = now + Retention[severity]
    BY <1>5, AuditAssumption DEF Severities, RetentionUntil
  <2>2. Unsent \in PutRecords /\ Unsent.state = "unsent"
    BY DEF Unsent, PutRecords
  <2>3. PICK until \in Nat : until = RetentionUntil(severity) /\ until = now + Retention[severity]
    BY <2>1
  <2>4. PICK q : q = [state |-> "sent", ttl |-> until, tries |-> 1]
    OBVIOUS
  <2>5. q \in PutRecords /\ q.state = "sent" /\ q.ttl = until
    BY <2>4 DEF PutRecords
  <2> QED  BY <2>2, <2>3, <2>4, <2>5
<1>10. /\ puts' = [puts EXCEPT ![e] = [s \in Stores |-> p]]
       /\ UNCHANGED <<auditMode, auditNow, rows>> /\ emits[e].state = "new"
       /\ logged \subseteq logged' /\ (state = "returned" => <<e, "validate">> \in logged')
  BY <1>1, <1>2, <1>4, <1>9 DEF Emit
<1>11. /\ puts' = [d \in Events |-> puts'[d]] /\ puts'[e] = [s \in Stores |-> p]
       /\ \A d \in Events : d # e => puts'[d] = puts[d]
  BY <1>10 DEF AuditInv
<1>12. \A s \in Stores : rows[s][e] = NoAuditRow
  BY <1>10 DEF AuditInv, PutOK
<1>13. \A s \in Stores : PutOK(m, puts'[e][s], rows'[s][e])
  <2>1. m.state # "new"
    BY <1>4, <1>8
  <2>2. PutOK(m, p, NoAuditRow)
    BY <1>8, <1>9, <2>1 DEF PutOK
  <2> QED  BY <1>10, <1>11, <1>12, <2>2
<1>14. EmitOK(e, m, puts[e])'
  <2>1. /\ m.state # "acked" /\ (m.state = "returned" => <<e, "validate">> \in logged')
        /\ m.severity \in Severities /\ Clean(m.metadata)
    BY <1>3, <1>4, <1>8, <1>10
  <2> QED  BY <1>8, <2>1 DEF EmitOK, Emitted
<1>15. /\ rows' = [s \in Stores |-> rows'[s]] /\ \A s \in Stores : rows'[s] = [d \in Events |-> rows'[s][d]]
       /\ \A d \in Events : \A s \in Stores : rows'[s][d] = rows[s][d]
  BY <1>10 DEF AuditInv
<1>16. puts'[e] = [s \in Stores |-> puts'[e][s]]
  BY <1>11
<1> QED  BY <1>7, <1>10, <1>11, <1>13, <1>14, <1>15, <1>16, OneEvent

\* One store's put answers or fails, or its row is swept: the other rows and the
\* emit itself stay.
LEMMA OnePut ==
    ASSUME AuditInv, NEW e \in Events, NEW s \in Stores, NEW p, NEW r,
           puts' = [puts EXCEPT ![e] = [@ EXCEPT ![s] = p]],
           rows' = [rows EXCEPT ![s] = [@ EXCEPT ![e] = r]],
           UNCHANGED <<auditMode, auditNow, emits, logged>>,
           PutOK(emits[e], p, r), p.state = puts[e][s].state \/ puts[e][s].state # "ok",
           puts[e][s].state = "ok" => p.state = "ok"
    PROVE  AuditInv'
<1>1. PICK m, P, Q : m = emits[e] /\ P = puts[e] /\ Q = [P EXCEPT ![s] = p]
  OBVIOUS
<1>2. /\ puts' = [d \in Events |-> puts'[d]] /\ puts'[e] = Q
      /\ \A d \in Events : d # e => puts'[d] = puts[d]
  BY <1>1 DEF AuditInv
<1>3. P = [t \in Stores |-> P[t]] /\ Q = [t \in Stores |-> Q[t]] /\ Q[s] = p /\ \A t \in Stores : t # s => Q[t] = P[t]
  <2>1. P = [t \in Stores |-> P[t]]
    BY <1>1 DEF AuditInv
  <2> QED  BY <1>1, <2>1
<1>4. PICK R : R = rows[s]
  OBVIOUS
<1>5. R = [d \in Events |-> R[d]] /\ rows' = [rows EXCEPT ![s] = [R EXCEPT ![e] = r]]
  BY <1>4 DEF AuditInv
<1>6. /\ rows' = [t \in Stores |-> rows'[t]] /\ rows'[s] = [R EXCEPT ![e] = r]
      /\ \A t \in Stores : t # s => rows'[t] = rows[t]
  BY <1>5 DEF AuditInv
<1>7. /\ \A t \in Stores : rows'[t] = [d \in Events |-> rows'[t][d]]
      /\ rows'[s][e] = r
      /\ \A d \in Events : d # e => \A t \in Stores : rows'[t][d] = rows[t][d]
      /\ \A t \in Stores : t # s => rows'[t][e] = rows[t][e]
  <2>1. PICK N : N = [R EXCEPT ![e] = r]
    OBVIOUS
  <2>2. N = [d \in Events |-> N[d]] /\ N[e] = r /\ \A d \in Events : d # e => N[d] = R[d]
    BY <1>5, <2>1
  <2>3. rows'[s] = N
    BY <1>6, <2>1
  <2>4. \A t \in Stores : rows'[t] = [d \in Events |-> rows'[t][d]]
    BY <1>6, <2>2, <2>3 DEF AuditInv
  <2>5. \A d \in Events : d # e => \A t \in Stores : rows'[t][d] = rows[t][d]
    BY <1>4, <1>6, <2>2, <2>3
  <2>6. \A t \in Stores : t # s => rows'[t][e] = rows[t][e]
    BY <1>6
  <2> QED  BY <2>2, <2>3, <2>4, <2>5, <2>6
<1>8. \A t \in Stores : PutOK(m, puts'[e][t], rows'[t][e])
  <2>1. ASSUME NEW t \in Stores PROVE PutOK(m, puts'[e][t], rows'[t][e])
    <3>1. CASE t = s
      BY <1>1, <1>2, <1>3, <1>7, <3>1
    <3>2. CASE t # s
      <4>1. PutOK(m, P[t], rows[t][e])
        BY <1>1 DEF AuditInv
      <4> QED  BY <1>2, <1>3, <1>7, <3>2, <4>1
    <3> QED  BY <3>1, <3>2
  <2> QED  BY <2>1
<1>9. EmitOK(e, m, puts[e])'
  <2>1. EmitOK(e, m, P)
    BY <1>1 DEF AuditInv
  <2>2. \A t \in Stores : P[t].state = "ok" => Q[t].state = "ok"
    BY <1>1, <1>3
  <2>3. EmitOK(e, m, Q)'
    BY <2>1, <2>2 DEF EmitOK, Emitted
  <2> QED  BY <1>2, <2>3 DEF EmitOK
<1>10. emits' = [emits EXCEPT ![e] = m]
  BY <1>1 DEF AuditInv
<1>11. puts'[e] = [t \in Stores |-> puts'[e][t]]
  BY <1>2, <1>3
<1>12. UNCHANGED <<auditMode, auditNow>> /\ logged \subseteq logged'
  OBVIOUS
<1>13. \A d \in Events : d # e => puts'[d] = puts[d] /\ \A t \in Stores : rows'[t][d] = rows[t][d]
  BY <1>2, <1>7
<1>14. /\ puts' = [d \in Events |-> puts'[d]] /\ rows' = [t \in Stores |-> rows'[t]]
       /\ \A t \in Stores : rows'[t] = [d \in Events |-> rows'[t][d]]
  BY <1>2, <1>6, <1>7
<1> QED  BY <1>8, <1>9, <1>10, <1>11, <1>12, <1>13, <1>14, OneEvent

LEMMA PutSteps ==
    ASSUME AuditInv, NEW e \in Events, NEW s \in Stores,
           PutAnswers(e, s) \/ PutFails(e, s) \/ SweepRow(e, s)
    PROVE  AuditInv'
<1>1. PICK m, p, r : m = emits[e] /\ p = puts[e][s] /\ r = rows[s][e]
  OBVIOUS
<1>2. PutOK(m, p, r) /\ p \in PutRecords
  BY <1>1 DEF AuditInv, PutOK
<1>3. /\ puts = [puts EXCEPT ![e] = [@ EXCEPT ![s] = p]]
      /\ rows = [rows EXCEPT ![s] = [@ EXCEPT ![e] = r]]
  <2>1. PICK P, R : P = puts[e] /\ R = rows[s]
    OBVIOUS
  <2>2. P = [P EXCEPT ![s] = p] /\ R = [R EXCEPT ![e] = r]
    <3>1. P = [t \in Stores |-> P[t]] /\ R = [d \in Events |-> R[d]]
      BY <2>1 DEF AuditInv
    <3> QED  BY <1>1, <2>1, <3>1
  <2>3. puts = [puts EXCEPT ![e] = P] /\ rows = [rows EXCEPT ![s] = R]
    BY <2>1 DEF AuditInv
  <2> QED  BY <2>1, <2>2, <2>3
<1>4. /\ NewRow(e, s) = RowOf(m, p) /\ RowOf(m, p) # NoAuditRow
  BY <1>1, <1>2, RowOfIsARow DEF NewRow, RowOf
<1>5. CASE PutAnswers(e, s)
  <2>1. PICK q : q = Moved(p, "ok")
    OBVIOUS
  <2>2. q \in PutRecords /\ q.state = "ok" /\ q.ttl = p.ttl
    BY <1>2, <2>1, MovedPut
  <2>3. /\ p.state = "sent" /\ puts' = [puts EXCEPT ![e] = [@ EXCEPT ![s] = q]]
        /\ rows' = [rows EXCEPT ![s] = [@ EXCEPT ![e] = RowOf(m, p)]]
        /\ UNCHANGED <<auditMode, auditNow, emits, logged>>
    BY <1>1, <1>4, <1>5, <2>1 DEF PutAnswers, Written
  <2>4. RowOf(m, q) = RowOf(m, p)
    BY <2>2 DEF RowOf
  <2>5. PICK n : n = RowOf(m, p)
    OBVIOUS
  <2>6. PutOK(m, q, n)
    BY <1>2, <1>4, <2>2, <2>3, <2>4, <2>5 DEF PutOK
  <2> QED  BY <1>1, <2>2, <2>3, <2>5, <2>6, OnePut
<1>6. CASE PutFails(e, s)
  <2>1. PICK q : q \in {Moved(p, "failed"), Again(p)} /\ puts' = [puts EXCEPT ![e] = [@ EXCEPT ![s] = q]]
    BY <1>1, <1>6 DEF PutFails
  <2>2. q \in PutRecords /\ q.state \in {"failed", "sent"} /\ q.ttl = p.ttl /\ p.state = "sent"
    <3>1. p.state = "sent"
      BY <1>1, <1>6 DEF PutFails
    <3> QED  BY <1>2, <2>1, <3>1, MovedPut
  <2>3. PICK n : n \in {r, RowOf(m, p)} /\ rows' = [rows EXCEPT ![s] = [@ EXCEPT ![e] = n]]
    BY <1>3, <1>4, <1>6 DEF PutFails, Written
  <2>4. RowOf(m, q) = RowOf(m, p)
    BY <2>2 DEF RowOf
  <2>5. PutOK(m, q, n)
    BY <1>2, <2>2, <2>3, <2>4 DEF PutOK
  <2>6. UNCHANGED <<auditMode, auditNow, emits, logged>>
    BY <1>6 DEF PutFails
  <2> QED  BY <1>1, <2>1, <2>2, <2>3, <2>5, <2>6, OnePut
<1>7. CASE SweepRow(e, s)
  <2>1. /\ r # NoAuditRow /\ r.ttl < auditNow
        /\ rows' = [rows EXCEPT ![s] = [@ EXCEPT ![e] = NoAuditRow]]
        /\ UNCHANGED <<auditMode, auditNow, emits, logged, puts>>
    BY <1>1, <1>7 DEF SweepRow
  <2>2. p.ttl < auditNow
    BY <1>2, <2>1 DEF PutOK, RowOf
  <2>3. PICK n : n = NoAuditRow
    OBVIOUS
  <2>4. PutOK(m, p, n)
    BY <1>2, <2>2, <2>3 DEF PutOK
  <2> QED  BY <1>1, <1>3, <2>1, <2>3, <2>4, OnePut
<1> QED  BY <1>5, <1>6, <1>7

\* The settled puts decide what the caller is told, and each failure is logged.
LEMMA SettleKeeps ==
    ASSUME AuditInv, NEW e \in Events, SettlePut(e)
    PROVE  AuditInv'
<1>1. PICK k, P : k = emits[e] /\ P = puts[e]
  OBVIOUS
<1>2. PICK state \in {"returned", "acked", "threw"} :
        state = IF ~k.await THEN "returned" ELSE IF Succeeds(e) THEN "acked" ELSE "threw"
  OBVIOUS
<1>3. PICK m : m = Moved(k, state)
  OBVIOUS
<1>4. /\ emits' = [emits EXCEPT ![e] = m] /\ k.state = "writing"
      /\ \A s \in Stores : P[s].state \in {"ok", "failed"}
      /\ logged' = logged \cup {<<e, s>> : s \in Failures(e)}
      /\ UNCHANGED <<auditMode, auditNow, puts, rows>>
  BY <1>1, <1>2, <1>3 DEF SettlePut
<1>5. EmitOK(e, k, P) /\ \A s \in Stores : PutOK(k, P[s], rows[s][e])
  BY <1>1 DEF AuditInv
<1>6. /\ Emitted(m) /\ m.state = state /\ m.metadata = k.metadata /\ m.at = k.at /\ m.severity = k.severity
  BY <1>2, <1>3, <1>5, MovedEmit DEF EmitOK, EmitStates
<1>7. \A s \in Stores : PutOK(m, P[s], rows[s][e])
  BY <1>4, <1>5, <1>6 DEF PutOK, RowOf
<1>8. \A s \in Stores : P[s].state = "ok" \/ <<e, s>> \in logged'
  <2>1. \A s \in Stores : P[s].state = "failed" => s \in Failures(e)
    BY <1>1 DEF Failures
  <2> QED  BY <1>4, <2>1
<1>9. state = "acked" => IF auditMode = "all" THEN \A s \in Stores : P[s].state = "ok"
                         ELSE \E s \in Stores : P[s].state = "ok"
  <2>1. state = "acked" => Succeeds(e)
    BY <1>2
  <2>2. Failures(e) = {s \in Stores : P[s].state = "failed"}
    BY <1>1 DEF Failures
  <2> QED  BY <1>4, <2>1, <2>2 DEF Succeeds
<1>10. EmitOK(e, m, P)'
  <2>1. m.severity \in Severities /\ Clean(m.metadata)
    BY <1>4, <1>5, <1>6 DEF EmitOK
  <2> QED  BY <1>4, <1>6, <1>8, <1>9, <2>1 DEF EmitOK, Emitted
<1>11. EmitOK(e, m, puts[e])'
  BY <1>1, <1>4, <1>10 DEF EmitOK
<1>12. \A s \in Stores : PutOK(m, puts'[e][s], rows'[s][e])
  BY <1>1, <1>4, <1>7
<1>13. /\ puts' = [d \in Events |-> puts'[d]] /\ puts'[e] = [s \in Stores |-> puts'[e][s]]
       /\ rows' = [s \in Stores |-> rows'[s]]
       /\ \A s \in Stores : rows'[s] = [d \in Events |-> rows'[s][d]]
  BY <1>4 DEF AuditInv
<1>14. \A d \in Events : d # e => puts'[d] = puts[d] /\ \A s \in Stores : rows'[s][d] = rows[s][d]
  BY <1>4
<1>15. UNCHANGED <<auditMode, auditNow>> /\ logged \subseteq logged'
  BY <1>4
<1> QED  BY <1>4, <1>11, <1>12, <1>13, <1>14, <1>15, OneEvent

\* The process stops: what was being written is settled one way or the other
\* with nobody told.
LEMMA StopKeeps == ASSUME AuditInv, Stop PROVE AuditInv'
<1>1. /\ emits' = [e \in Events |-> emits'[e]] /\ puts' = [e \in Events |-> puts'[e]]
      /\ \A e \in Events : puts'[e] = [s \in Stores |-> puts'[e][s]]
      /\ UNCHANGED <<auditMode, auditNow, rows, logged>>
  BY DEF Stop
<1>2. ASSUME NEW e \in Events
      PROVE  /\ EmitOK(e, emits[e], puts[e])'
             /\ \A s \in Stores : PutOK(emits[e], puts[e][s], rows[s][e])'
  <2>1. PICK m, P : /\ m = emits[e] /\ P = puts[e] /\ EmitOK(e, m, P)
                    /\ \A s \in Stores : PutOK(m, P[s], rows[s][e])
    BY DEF AuditInv
  <2>2. CASE m.state # "writing"
    <3>1. emits'[e] = m /\ \A s \in Stores : puts'[e][s] = P[s]
      BY <2>1, <2>2 DEF Stop
    <3>2. P = [s \in Stores |-> P[s]]
      BY <2>1 DEF AuditInv
    <3>3. puts'[e] = P
      BY <1>1, <3>1, <3>2
    <3>4. EmitOK(e, m, P)'
      BY <1>1, <2>1 DEF EmitOK, Emitted
    <3>5. \A s \in Stores : PutOK(m, P[s], rows'[s][e])
      BY <1>1, <2>1
    <3> QED  BY <1>1, <3>1, <3>3, <3>4, <3>5 DEF EmitOK, PutOK
  <2>3. CASE m.state = "writing"
    <3>1. PICK n : n = Moved(m, "gone")
      OBVIOUS
    <3>2. /\ Emitted(n) /\ n.state = "gone" /\ n.metadata = m.metadata /\ n.at = m.at
          /\ n.severity = m.severity
      BY <2>1, <3>1, MovedEmit DEF EmitOK, EmitStates
    <3>3. emits'[e] = n
      BY <2>1, <2>3, <3>1 DEF Stop
    <3>4. PICK Q : Q = puts'[e]
      OBVIOUS
    <3>5. \A s \in Stores : Q[s] = IF P[s].state = "sent" THEN Moved(P[s], "failed") ELSE P[s]
      BY <2>1, <2>3, <3>4 DEF Stop
    <3>6. ASSUME NEW s \in Stores PROVE PutOK(n, Q[s], rows[s][e])
      <4>1. PICK p, r : p = P[s] /\ r = rows[s][e] /\ PutOK(m, p, r)
        BY <2>1
      <4>2. p \in PutRecords
        BY <4>1 DEF PutOK
      <4>3. CASE p.state = "sent"
        <5>1. PICK q : q = Moved(p, "failed")
          OBVIOUS
        <5>2. q \in PutRecords /\ q.state = "failed" /\ q.ttl = p.ttl
          BY <4>2, <5>1, MovedPut
        <5>3. PutOK(n, q, r)
          BY <2>3, <3>2, <4>1, <4>3, <5>2 DEF PutOK, RowOf
        <5> QED  BY <3>5, <4>1, <4>3, <5>1, <5>3
      <4>4. CASE p.state # "sent"
        <5>1. PutOK(n, p, r)
          BY <2>3, <3>2, <4>1 DEF PutOK, RowOf
        <5> QED  BY <3>5, <4>1, <4>4, <5>1
      <4> QED  BY <4>3, <4>4
    <3>7. EmitOK(e, n, Q)'
      <4>1. n.severity \in Severities /\ Clean(n.metadata)
        BY <2>1, <2>3, <3>2 DEF EmitOK
      <4> QED  BY <3>2, <4>1 DEF EmitOK, Emitted
    <3> QED  BY <1>1, <3>3, <3>4, <3>6, <3>7 DEF EmitOK, PutOK
  <2> QED  BY <2>2, <2>3
<1>3. /\ rows' = [s \in Stores |-> rows'[s]] /\ \A s \in Stores : rows'[s] = [e \in Events |-> rows'[s][e]]
  BY <1>1 DEF AuditInv
<1> QED  BY <1>1, <1>2, <1>3 DEF AuditInv

LEMMA AuditTickKeeps == ASSUME AuditInv, AuditTick PROVE AuditInv'
<1>1. /\ auditNow \in Nat /\ auditNow' = auditNow + 1
      /\ UNCHANGED <<auditMode, emits, puts, rows, logged>>
  BY DEF AuditTick, AuditInv
<1>2. \A e \in Events : EmitOK(e, emits[e], puts[e])'
  BY <1>1 DEF AuditInv, EmitOK, Emitted
<1>3. ASSUME NEW e \in Events, NEW s \in Stores PROVE PutOK(emits[e], puts[e][s], rows[s][e])'
  <2>1. PICK m, p, r : m = emits[e] /\ p = puts[e][s] /\ r = rows[s][e] /\ PutOK(m, p, r)
    BY DEF AuditInv
  <2>2. p.ttl \in Nat
    BY <2>1 DEF PutOK, PutRecords
  <2>3. p.ttl < auditNow => p.ttl < auditNow'
    BY <1>1, <2>2
  <2> QED  BY <1>1, <2>1, <2>3 DEF PutOK
<1> QED  BY <1>1, <1>2, <1>3 DEF AuditInv

LEMMA AuditInvInit == AuditInit => AuditInv
<1> SUFFICES ASSUME AuditInit PROVE AuditInv
  OBVIOUS
<1>1. PICK m, p : m = Fresh /\ p = Unsent
  OBVIOUS
<1>2. /\ Emitted(m) /\ m.state = "new" /\ Clean(m.metadata)
  <2>1. m \in [state : EmitStates, await : BOOLEAN, at : Nat, severity : Severities \cup {"none"},
               metadata : {<<>>}]
    BY <1>1 DEF Fresh, EmitStates
  <2>2. m.state = "new" /\ m.metadata = <<>>
    BY <1>1 DEF Fresh
  <2>3. Clean(m.metadata)
    BY <2>2, NoMetadataClean
  <2> QED  BY <2>1, <2>2, <2>3 DEF Emitted
<1>3. p \in PutRecords /\ p.state = "unsent"
  BY <1>1 DEF Unsent, PutRecords
<1>4. PutOK(m, p, NoAuditRow)
  BY <1>2, <1>3 DEF PutOK
<1>5. /\ \A e \in Events : emits[e] = m /\ \A s \in Stores : puts[e][s] = p
      /\ \A s \in Stores : \A e \in Events : rows[s][e] = NoAuditRow
  BY <1>1 DEF AuditInit
<1>6. \A e \in Events : EmitOK(e, emits[e], puts[e])
  BY <1>2, <1>5 DEF EmitOK
<1> QED  BY <1>4, <1>5, <1>6 DEF AuditInit, AuditInv

LEMMA AuditInvStep == AuditInv /\ [AuditNext]_auditVars => AuditInv'
<1> SUFFICES ASSUME AuditInv, [AuditNext]_auditVars PROVE AuditInv'
  OBVIOUS
<1>1. CASE UNCHANGED auditVars
  <2>1. \A e \in Events : EmitOK(e, emits[e], puts[e])'
    BY <1>1 DEF auditVars, AuditInv, EmitOK, Emitted
  <2>2. \A e \in Events : \A s \in Stores : PutOK(emits[e], puts[e][s], rows[s][e])'
    BY <1>1 DEF auditVars, AuditInv, PutOK
  <2> QED  BY <1>1, <2>1, <2>2 DEF auditVars, AuditInv
<1>2. CASE AuditNext
  BY <1>2, EmitKeeps, PutSteps, SettleKeeps, StopKeeps, AuditTickKeeps DEF AuditNext
<1> QED  BY <1>1, <1>2

\* Whatever the stores lose, repeat or sweep and wherever the process stops: an
\* acknowledged event is kept for its retention, a missing row is in the log, and
\* no row holds a value from under a denied key.
THEOREM AuditKeepsPromise == AuditSpec => []AuditPromise
<1>1. AuditInv => AuditPromise
  <2> SUFFICES ASSUME AuditInv PROVE AckedIsKept /\ NoPiiPersisted
    BY DEF AuditPromise
  <2>1. ASSUME NEW e \in Events, NEW s \in Stores, puts[e][s].state = "ok",
               emits[e].state # "new", auditNow <= emits[e].at + Retention[emits[e].severity]
        PROVE  s \in Held(e)
    <3>1. PICK m, p, r : m = emits[e] /\ p = puts[e][s] /\ r = rows[s][e] /\ PutOK(m, p, r)
      BY DEF AuditInv
    <3>2. p.ttl \in Nat /\ auditNow \in Nat /\ p.ttl = m.at + Retention[m.severity]
      BY <2>1, <3>1 DEF PutOK, PutRecords, AuditInv
    <3>3. ~(p.ttl < auditNow)
      BY <2>1, <3>1, <3>2
    <3> QED  BY <2>1, <3>1, <3>3 DEF PutOK, Held
  <2>2. AckedIsKept
    <3> SUFFICES ASSUME NEW e \in Events, emits[e].state \in {"acked", "returned"},
                        auditNow <= emits[e].at + Retention[emits[e].severity]
                 PROVE  /\ emits[e].state = "acked" =>
                              IF auditMode = "all" THEN Held(e) = Stores ELSE Held(e) # {}
                        /\ <<e, "validate">> \notin logged => \A s \in Stores \ Held(e) : <<e, s>> \in logged
      BY DEF AckedIsKept
    <3>1. EmitOK(e, emits[e], puts[e])
      BY DEF AuditInv
    <3>2. \A s \in Stores : puts[e][s].state = "ok" => s \in Held(e)
      BY <2>1
    <3>3. Held(e) \subseteq Stores
      BY DEF Held
    <3> QED  BY <3>1, <3>2, <3>3 DEF EmitOK
  <2>3. NoPiiPersisted
    <3> SUFFICES ASSUME NEW s \in Stores, NEW e \in Events
                 PROVE  Clean(rows[s][e].metadata)
      BY DEF NoPiiPersisted, Clean
    <3>1. PICK m, p, r : m = emits[e] /\ p = puts[e][s] /\ r = rows[s][e] /\ PutOK(m, p, r)
      BY DEF AuditInv
    <3>2. Clean(m.metadata)
      BY <3>1 DEF AuditInv, EmitOK
    <3>3. r.metadata = <<>> \/ r.metadata = m.metadata
      BY <3>1 DEF PutOK, RowOf, NoAuditRow
    <3> QED  BY <3>1, <3>2, <3>3, NoMetadataClean
  <2> QED  BY <2>2, <2>3
<1> QED  BY <1>1, AuditInvInit, AuditInvStep, PTL DEF AuditSpec

==============================================================================
