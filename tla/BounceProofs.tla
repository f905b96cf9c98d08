---------------------------- MODULE BounceProofs ----------------------------
(***************************************************************************)
(* What the bounce handler promises, for any deliveries, batches, number   *)
(* of retries and containers, and whichever calls fail: a delivery that is *)
(* acknowledged has quarantined its hard bounces and complaints, and one   *)
(* record's failure does not touch the others.                             *)
(*                                                                         *)
(* Neither is inductive.  BInv adds what the loop knows on the way: every  *)
(* record it has passed is in error or safe, and so is every recipient it  *)
(* has passed of the record it is at; and that no container serves two     *)
(* deliveries, since one that dies takes the cached key with it.           *)
(***************************************************************************)
EXTENDS BounceHandler, TLAPS

\* Quarantined, or it was until its user was deleted or the key was rotated.
Safe(a) == Quarantined(a) \/ a \in lost

RecordSafe(d, n) ==
    Hard(Batch[d][n]) => \A k \in 1..Len(Batch[d][n].to) : Safe(Batch[d][n].to[k])

AtRecipient(d) == doing[d] \in {"flag", "deny"}

\* The part of the type invariant that is about one delivery, and that one
\* which waits has an attempt left.
Placed(d) ==
    /\ doing[d] \in Busy \union {"waiting", "acked", "dropped"}
    /\ on[d] \in Containers \union {NoContainer}
    /\ doing[d] \in Busy <=> on[d] \in Containers
    /\ doing[d] \in Busy \ {"key"} => cached[on[d]] \in Keys
    /\ attempts[d] \in 0..MaxAttempts
    /\ doing[d] = "waiting" => attempts[d] < MaxAttempts

\* How far the loop has come, and what is safe by then.
Reached(d) ==
    /\ rec[d] \in 1..(Len(Batch[d]) + 1) /\ errors[d] \subseteq 1..Len(Batch[d])
    /\ rcpt[d] \in Nat \ {0}
    /\ ~AtRecipient(d) => rcpt[d] = 1
    /\ AtRecipient(d) => rec[d] <= Len(Batch[d]) /\ rcpt[d] <= Len(Batch[d][rec[d]].to)
                         /\ Hard(Batch[d][rec[d]])
    /\ doing[d] \notin {"record", "flag", "deny"} => rec[d] = 1 /\ errors[d] = {}

PassedSafe(d) ==
    /\ \A n \in 1..(rec[d] - 1) : n \in errors[d] \/ RecordSafe(d, n)
    /\ AtRecipient(d) => \A k \in 1..(rcpt[d] - 1) : Safe(Batch[d][rec[d]].to[k])

AckedSafe(d) == doing[d] = "acked" => \A n \in 1..Len(Batch[d]) : RecordSafe(d, n)

DeliveryOK(d) == Placed(d) /\ Reached(d) /\ PassedSafe(d) /\ AckedSafe(d)

\* The parts that belong to no one delivery.
SharedOK ==
    /\ user \in [Addresses -> UserStates] /\ lost \subseteq Addresses
    /\ denylist \subseteq Addresses \X Keys
    /\ secret \in Keys
    /\ cached \in [Containers -> Keys \union {NoKey}]

OverDeliveries ==
    /\ doing = [d \in Deliveries |-> doing[d]] /\ on = [d \in Deliveries |-> on[d]]
    /\ rec = [d \in Deliveries |-> rec[d]] /\ rcpt = [d \in Deliveries |-> rcpt[d]]
    /\ errors = [d \in Deliveries |-> errors[d]]
    /\ attempts = [d \in Deliveries |-> attempts[d]]

OneEach == \A d, e \in Deliveries : on[d] \in Containers /\ on[d] = on[e] => d = e

BInv == SharedOK /\ OverDeliveries /\ OneEach /\ \A d \in Deliveries : DeliveryOK(d)

\* What the constants are, in the form the proofs need.
LEMMA BatchFacts ==
    ASSUME NEW d \in Deliveries
    PROVE  /\ Len(Batch[d]) \in Nat
           /\ \A n \in 1..Len(Batch[d]) :
                 /\ Len(Batch[d][n].to) \in Nat
                 /\ \A k \in 1..Len(Batch[d][n].to) : Batch[d][n].to[k] \in Addresses
                 /\ Batch[d][n].to # <<>> => Len(Batch[d][n].to) > 0
                 /\ Batch[d][n].kind \in Kinds
<1> DEFINE Records == [kind : Kinds, to : Seq(Addresses)]
<1>1. Batch[d] \in Seq(Records)
  BY BounceAssumption
<1>2. Len(Batch[d]) \in Nat /\ \A n \in 1..Len(Batch[d]) : Batch[d][n] \in Records
  <2> HIDE DEF Records
  <2> QED  BY <1>1
<1>3. \A s \in Seq(Addresses) : /\ Len(s) \in Nat /\ \A k \in 1..Len(s) : s[k] \in Addresses
                                /\ s # <<>> => Len(s) > 0
  OBVIOUS
<1> QED  BY <1>2, <1>3

LEMMA BatchDomains ==
    ASSUME NEW d \in Deliveries
    PROVE  /\ DOMAIN Batch[d] = 1..Len(Batch[d])
           /\ \A n \in DOMAIN Batch[d] : DOMAIN Batch[d][n].to = 1..Len(Batch[d][n].to)
<1> DEFINE Records == [kind : Kinds, to : Seq(Addresses)]
<1>1. Batch[d] \in Seq(Records)
  BY BounceAssumption
<1>2. DOMAIN Batch[d] = 1..Len(Batch[d]) /\ \A n \in 1..Len(Batch[d]) : Batch[d][n] \in Records
  <2> HIDE DEF Records
  <2> QED  BY <1>1
<1>3. \A s \in Seq(Addresses) : DOMAIN s = 1..Len(s)
  OBVIOUS
<1> QED  BY <1>2, <1>3

LEMMA NumbersFacts ==
    /\ MaxAttempts \in Nat \ {0} /\ MaxKey \in Nat
    /\ NoKey \notin Keys /\ NoContainer \notin Containers
  BY BounceAssumption DEF Keys

LEMMA BInvInit == BounceInit => BInv
<1> SUFFICES ASSUME BounceInit PROVE BInv
  OBVIOUS
<1> USE NumbersFacts
<1>1. SharedOK /\ OverDeliveries
  BY DEF BounceInit, SharedOK, OverDeliveries, UserStates, Keys
<1>2. OneEach
  BY DEF BounceInit, OneEach
<1>3. ASSUME NEW d \in Deliveries PROVE DeliveryOK(d)
  <2>1. Placed(d)
    BY DEF BounceInit, Placed, Busy
  <2>2. Reached(d)
    BY BatchFacts DEF BounceInit, Reached, AtRecipient
  <2>3. PassedSafe(d) /\ AckedSafe(d)
    BY DEF BounceInit, PassedSafe, AckedSafe, AtRecipient
  <2> QED  BY <2>1, <2>2, <2>3 DEF DeliveryOK
<1> QED  BY <1>1, <1>2, <1>3 DEF BInv

\* The quarantine is never taken back, but with the user who had it or with the
\* secret whose row it was.
LEMMA SafeStays ==
    ASSUME SharedOK, NEW a \in Addresses, Safe(a),
           \/ lost \subseteq lost' /\ denylist \subseteq denylist' /\ UNCHANGED <<user, secret>>
           \/ \E b \in Addresses : user' \in {user, [user EXCEPT ![b] = "flagged"]}
                                   /\ UNCHANGED <<lost, denylist, secret>>
           \/ \E b \in Addresses : CreateUser(b) \/ DeleteUser(b)
           \/ Rotate
    PROVE  Safe(a)'
<1>1. CASE lost \subseteq lost' /\ denylist \subseteq denylist' /\ UNCHANGED <<user, secret>>
  BY <1>1 DEF Safe, Quarantined
<1>2. CASE \E b \in Addresses : user' \in {user, [user EXCEPT ![b] = "flagged"]}
                                /\ UNCHANGED <<lost, denylist, secret>>
  BY <1>2 DEF Safe, Quarantined, SharedOK
<1>3. ASSUME NEW b \in Addresses, CreateUser(b) PROVE Safe(a)'
  BY <1>3 DEF Safe, Quarantined, SharedOK, CreateUser, keys
<1>4. ASSUME NEW b \in Addresses, DeleteUser(b) PROVE Safe(a)'
  BY <1>4 DEF Safe, Quarantined, SharedOK, DeleteUser, keys
<1>5. CASE Rotate
  BY <1>5 DEF Safe, Quarantined, Rotate
<1> QED  BY <1>1, <1>2, <1>3, <1>4, <1>5

LEMMA RecordsStaySafe ==
    ASSUME NEW d \in Deliveries, NEW n \in 1..Len(Batch[d]), RecordSafe(d, n),
           \A a \in Addresses : Safe(a) => Safe(a)'
    PROVE  RecordSafe(d, n)'
<1>1. \A k \in 1..Len(Batch[d][n].to) : Batch[d][n].to[k] \in Addresses
  BY BatchFacts
<1> QED  BY <1>1 DEF RecordSafe, Hard

\* A delivery that a step leaves alone is as well off after it.
LEMMA OthersStay ==
    ASSUME BInv, NEW e \in Deliveries,
           \A a \in Addresses : Safe(a) => Safe(a)',
           doing'[e] = doing[e], on'[e] = on[e], rec'[e] = rec[e], rcpt'[e] = rcpt[e],
           errors'[e] = errors[e], attempts'[e] = attempts[e],
           on[e] \in Containers =>
               cached'[on[e]] = cached[on[e]] \/ cached'[on[e]] \in Keys
    PROVE  DeliveryOK(e)'
<1>1. DeliveryOK(e)
  BY DEF BInv
<1>2. Placed(e)'
  BY <1>1 DEF DeliveryOK, Placed, Busy, Keys
<1>3. Reached(e)'
  BY <1>1 DEF DeliveryOK, Reached, AtRecipient, Hard
<1>4. \A n \in 1..Len(Batch[e]) : RecordSafe(e, n) => RecordSafe(e, n)'
  BY RecordsStaySafe
<1>5. PassedSafe(e)'
  <2>1. \A n \in 1..(rec[e] - 1) : n \in 1..Len(Batch[e])
    BY <1>1, BatchFacts DEF DeliveryOK, Reached
  <2>2. \A n \in 1..(rec[e] - 1) : n \in errors[e] \/ RecordSafe(e, n)'
    BY <1>1, <1>4, <2>1 DEF DeliveryOK, PassedSafe
  <2>3. ASSUME AtRecipient(e), NEW k \in 1..(rcpt[e] - 1)
        PROVE  Safe(Batch[e][rec[e]].to[k])'
    <3>1. rec[e] \in 1..Len(Batch[e]) /\ k \in 1..Len(Batch[e][rec[e]].to)
      BY <1>1, <2>3, BatchFacts DEF DeliveryOK, Reached
    <3>2. Batch[e][rec[e]].to[k] \in Addresses
      BY <3>1, BatchFacts
    <3>3. Safe(Batch[e][rec[e]].to[k])
      BY <1>1, <2>3 DEF DeliveryOK, PassedSafe
    <3>4. PICK a \in Addresses : a = Batch[e][rec[e]].to[k]
      BY <3>2
    <3>5. Safe(a)'
      BY <3>3, <3>4
    <3>6. a = (Batch[e][rec[e]].to[k])'
      BY <3>4
    <3> QED  BY <3>5, <3>6 DEF Safe, Quarantined
  <2> QED  BY <2>2, <2>3 DEF PassedSafe, AtRecipient
<1>6. AckedSafe(e)'
  BY <1>1, <1>4 DEF DeliveryOK, AckedSafe
<1> QED  BY <1>2, <1>3, <1>5, <1>6 DEF DeliveryOK

\* A step that moves one delivery keeps the invariant when that one is right
\* after it, and no other loses the key of its container.
LEMMA OneMoves ==
    ASSUME BInv, NEW d \in Deliveries, SharedOK', DeliveryOK(d)',
           \A a \in Addresses : Safe(a) => Safe(a)',
           \A e \in Deliveries \ {d} :
               on[e] \in Containers =>
                   cached'[on[e]] = cached[on[e]] \/ cached'[on[e]] \in Keys,
           NEW x1, doing' = [doing EXCEPT ![d] = x1],
           NEW x2, on' = [on EXCEPT ![d] = x2],
           x2 \in {on[d], NoContainer} \/ \A e \in Deliveries : on[e] # x2,
           NEW x3, rec' = [rec EXCEPT ![d] = x3],
           NEW x4, rcpt' = [rcpt EXCEPT ![d] = x4],
           NEW x5, errors' = [errors EXCEPT ![d] = x5],
           NEW x6, attempts' = [attempts EXCEPT ![d] = x6]
    PROVE  BInv'
<1>1. \A e \in Deliveries \ {d} :
         /\ doing'[e] = doing[e] /\ on'[e] = on[e] /\ rec'[e] = rec[e] /\ rcpt'[e] = rcpt[e]
         /\ errors'[e] = errors[e] /\ attempts'[e] = attempts[e]
  BY DEF BInv, OverDeliveries
<1>2. OverDeliveries'
  BY DEF BInv, OverDeliveries
<1>3. OneEach'
  BY NumbersFacts DEF BInv, OverDeliveries, OneEach
<1>4. \A e \in Deliveries \ {d} : DeliveryOK(e)'
  BY <1>1, OthersStay
<1> QED  BY <1>2, <1>3, <1>4 DEF BInv

\* The invocation ends.
LEMMA EndKeeps ==
    ASSUME BInv, NEW d \in Deliveries, NEW thrown \in BOOLEAN,
           doing[d] \in Busy, End(d, thrown), UNCHANGED <<pool, denylist, secret, attempts>>,
           cached' = cached \/ cached' = [cached EXCEPT ![on[d]] = NoKey],
           ~thrown => \A n \in 1..Len(Batch[d]) : RecordSafe(d, n)
    PROVE  BInv'
<1> USE NumbersFacts
<1>1. DeliveryOK(d) /\ on[d] \in Containers
  BY DEF BInv, DeliveryOK, Placed
<1>2. SharedOK'
  BY <1>1 DEF BInv, SharedOK, pool
<1>3. \A a \in Addresses : Safe(a) => Safe(a)'
  BY SafeStays DEF BInv, pool
<1>4. \A e \in Deliveries \ {d} : on[e] \in Containers => cached'[on[e]] = cached[on[e]]
  BY <1>1 DEF BInv, OneEach, SharedOK
<1>5. /\ doing'[d] = IF ~thrown THEN "acked"
                     ELSE IF attempts[d] = MaxAttempts THEN "dropped" ELSE "waiting"
      /\ on'[d] = NoContainer /\ rec'[d] = 1 /\ rcpt'[d] = 1 /\ errors'[d] = {}
      /\ attempts'[d] = attempts[d]
  BY DEF End, Go, BInv, OverDeliveries
<1>6. Placed(d)'
  BY <1>1, <1>5 DEF DeliveryOK, Placed, Busy
<1>7. Reached(d)'
  BY <1>5, BatchFacts DEF Reached, AtRecipient
<1>8. PassedSafe(d)'
  BY <1>5 DEF PassedSafe, AtRecipient
<1>9. AckedSafe(d)'
  <2>1. CASE thrown
    BY <1>5, <2>1 DEF AckedSafe
  <2>2. CASE ~thrown
    BY <1>3, <1>5, <2>2, RecordsStaySafe DEF AckedSafe
  <2> QED  BY <2>1, <2>2
<1>10. DeliveryOK(d)'
  BY <1>6, <1>7, <1>8, <1>9 DEF DeliveryOK
<1>11. attempts' = [attempts EXCEPT ![d] = attempts[d]]
  BY DEF BInv, OverDeliveries
<1>12. PICK x1 : doing' = [doing EXCEPT ![d] = x1]
  BY DEF End, Go
<1> QED  BY <1>2, <1>3, <1>4, <1>10, <1>11, <1>12, OneMoves DEF End

\* What the loop has passed stays safe, record by record.
LEMMA PassedStay ==
    ASSUME BInv, NEW d \in Deliveries, \A a \in Addresses : Safe(a) => Safe(a)',
           NEW n \in 1..(rec[d] - 1)
    PROVE  n \in 1..Len(Batch[d]) /\ (n \in errors[d] \/ RecordSafe(d, n)')
<1>1. n \in 1..Len(Batch[d])
  BY BatchFacts DEF BInv, DeliveryOK, Reached
<1> QED  BY <1>1, RecordsStaySafe DEF BInv, DeliveryOK, PassedSafe

\* The loop goes on from its record, which failed or is safe.
LEMMA LeaveKeeps ==
    ASSUME BInv, NEW d \in Deliveries, NEW failed \in BOOLEAN,
           doing[d] \in {"record", "flag", "deny"}, rec[d] <= Len(Batch[d]),
           LeaveRecord(d, failed), UNCHANGED <<keys, on, attempts>>, SharedOK',
           \A a \in Addresses : Safe(a) => Safe(a)',
           NEW m, m = rec[d], ~failed => RecordSafe(d, m)'
    PROVE  BInv'
<1> USE NumbersFacts
<1>1. DeliveryOK(d)
  BY DEF BInv
<1>2. /\ doing'[d] = "record" /\ rec'[d] = rec[d] + 1 /\ rcpt'[d] = 1
      /\ errors'[d] = IF failed THEN errors[d] \union {rec[d]} ELSE errors[d]
      /\ on'[d] = on[d] /\ attempts'[d] = attempts[d] /\ cached' = cached
  BY DEF LeaveRecord, Go, BInv, OverDeliveries, keys
<1>3. Placed(d)'
  BY <1>1, <1>2 DEF DeliveryOK, Placed, Busy
<1>4. Reached(d)'
  BY <1>1, <1>2, BatchFacts DEF DeliveryOK, Reached, AtRecipient
<1>5. PassedSafe(d)'
  <2>1. ASSUME NEW n \in 1..(rec'[d] - 1) PROVE n \in errors'[d] \/ RecordSafe(d, n)'
    <3>1. CASE n = rec[d]
      BY <1>2, <3>1
    <3>2. CASE n # rec[d]
      <4>1. n \in 1..(rec[d] - 1)
        BY <1>1, <1>2, <3>2 DEF DeliveryOK, Reached
      <4> QED  BY <1>2, <4>1, PassedStay
    <3> QED  BY <3>1, <3>2
  <2> QED  BY <1>2, <2>1 DEF PassedSafe, AtRecipient
<1>6. DeliveryOK(d)'
  BY <1>2, <1>3, <1>4, <1>5 DEF DeliveryOK, AckedSafe
<1>7. on' = [on EXCEPT ![d] = on[d]] /\ attempts' = [attempts EXCEPT ![d] = attempts[d]]
  BY DEF BInv, OverDeliveries
<1>8. PICK x5 : errors' = [errors EXCEPT ![d] = x5]
  BY DEF LeaveRecord
<1>9. PICK x3 : rec' = [rec EXCEPT ![d] = x3]
  BY DEF LeaveRecord
<1> QED  BY <1>2, <1>6, <1>7, <1>8, <1>9, OneMoves DEF LeaveRecord, Go

\* The recipient the loop is at is safe, and the loop goes on to the next.
LEMMA NextKeeps ==
    ASSUME BInv, NEW d \in Deliveries, AtRecipient(d), NextRecipient(d),
           UNCHANGED <<keys, on, attempts>>, SharedOK',
           \A a \in Addresses : Safe(a) => Safe(a)',
           NEW r, r = Record(d).to[rcpt[d]], Safe(r)'
    PROVE  BInv'
<1> USE NumbersFacts
<1>1. DeliveryOK(d)
  BY DEF BInv
<1>2. /\ rec[d] \in 1..Len(Batch[d]) /\ rcpt[d] \in 1..Len(Batch[d][rec[d]].to)
      /\ Hard(Batch[d][rec[d]]) /\ Len(Batch[d][rec[d]].to) \in Nat
  BY <1>1, BatchFacts DEF DeliveryOK, Reached
<1>3. PICK m \in 1..Len(Batch[d]) : m = rec[d]
  BY <1>2
<1>4. ASSUME NEW k \in 1..rcpt[d] PROVE Safe(Batch[d][m].to[k])'
  <2>1. CASE k = rcpt[d]
    BY <1>3, <2>1 DEF Record
  <2>2. CASE k # rcpt[d]
    <3>1. k \in 1..(rcpt[d] - 1) /\ k \in 1..Len(Batch[d][m].to)
      BY <1>2, <1>3, <2>2
    <3>2. Safe(Batch[d][m].to[k]) /\ Batch[d][m].to[k] \in Addresses
      BY <1>1, <1>3, <3>1, BatchFacts DEF DeliveryOK, PassedSafe
    <3> QED  BY <3>2
  <2> QED  BY <2>1, <2>2
<1>5. CASE rcpt[d] < Len(Record(d).to)
  <2>1. /\ doing' = [doing EXCEPT ![d] = "flag"] /\ rcpt' = [rcpt EXCEPT ![d] = rcpt[d] + 1]
        /\ rec' = rec /\ errors' = errors /\ cached' = cached
    BY <1>5 DEF NextRecipient, Go, keys
  <2>2. /\ doing'[d] = "flag" /\ rcpt'[d] = rcpt[d] + 1 /\ on'[d] = on[d]
        /\ attempts'[d] = attempts[d]
    BY <2>1 DEF BInv, OverDeliveries
  <2>3. Placed(d)'
    BY <1>1, <2>1, <2>2 DEF DeliveryOK, Placed, Busy, AtRecipient
  <2>4. Reached(d)'
    <3>1. rcpt'[d] <= Len(Batch[d][rec[d]].to) /\ rcpt'[d] \in Nat \ {0}
      BY <1>2, <1>5, <2>2 DEF Record
    <3>2. AtRecipient(d)'
      BY <2>2 DEF AtRecipient
    <3> QED  BY <1>1, <1>2, <2>1, <2>2, <3>1, <3>2 DEF DeliveryOK, Reached, Hard
  <2>5. PassedSafe(d)'
    <3>1. \A n \in 1..(rec[d] - 1) : n \in errors[d] \/ RecordSafe(d, n)'
      BY PassedStay
    <3>2. \A k \in 1..(rcpt'[d] - 1) : Safe(Batch[d][m].to[k])'
      BY <1>2, <1>4, <2>2
    <3>3. m = rec'[d]
      BY <1>3, <2>1
    <3> QED  BY <2>1, <3>1, <3>2, <3>3 DEF PassedSafe
  <2>6. DeliveryOK(d)'
    BY <2>2, <2>3, <2>4, <2>5 DEF DeliveryOK, AckedSafe
  <2>7. /\ on' = [on EXCEPT ![d] = on[d]] /\ attempts' = [attempts EXCEPT ![d] = attempts[d]]
        /\ rec' = [rec EXCEPT ![d] = rec[d]] /\ errors' = [errors EXCEPT ![d] = errors[d]]
    BY <2>1 DEF BInv, OverDeliveries
  <2> QED  BY <2>1, <2>6, <2>7, OneMoves
<1>6. CASE ~(rcpt[d] < Len(Record(d).to))
  <2>1. LeaveRecord(d, FALSE)
    BY <1>6 DEF NextRecipient
  <2>2. rcpt[d] = Len(Batch[d][m].to)
    BY <1>2, <1>3, <1>6 DEF Record
  <2>3. RecordSafe(d, m)'
    BY <1>4, <2>2 DEF RecordSafe
  <2>4. doing[d] \in {"record", "flag", "deny"} /\ rec[d] <= Len(Batch[d])
    BY <1>1 DEF AtRecipient, DeliveryOK, Reached
  <2>5. ~FALSE => RecordSafe(d, m)'
    BY <2>3
  <2> QED  BY <1>3, <2>1, <2>4, <2>5, LeaveKeeps
<1> QED  BY <1>5, <1>6

\* A step that touches no delivery keeps the invariant.
LEMMA AsideKeeps ==
    ASSUME BInv, UNCHANGED <<doing, on, progress, attempts>>, SharedOK',
           \A a \in Addresses : Safe(a) => Safe(a)',
           \A e \in Deliveries :
               on[e] \in Containers =>
                   cached'[on[e]] = cached[on[e]] \/ cached'[on[e]] \in Keys
    PROVE  BInv'
<1>1. OverDeliveries' /\ OneEach'
  BY DEF BInv, OverDeliveries, OneEach, progress
<1>2. \A e \in Deliveries : DeliveryOK(e)'
  BY OthersStay DEF progress
<1> QED  BY <1>1, <1>2 DEF BInv

LEMMA BInvStep == BInv /\ [BounceNext]_bounceVars => BInv'
<1> SUFFICES ASSUME BInv, [BounceNext]_bounceVars PROVE BInv'
  OBVIOUS
<1> USE NumbersFacts
<1>1. ASSUME NEW d \in Deliveries, Invoke(d) PROVE BInv'
  <2>1. PICK c \in Containers : (\A e \in Deliveries : on[e] # c) /\ on' = [on EXCEPT ![d] = c]
    BY <1>1 DEF Invoke
  <2>2. /\ doing[d] = "waiting" /\ doing' = [doing EXCEPT ![d] = "key"]
        /\ attempts' = [attempts EXCEPT ![d] = attempts[d] + 1]
        /\ UNCHANGED <<user, lost, denylist, secret, cached, rec, rcpt, errors>>
    BY <1>1 DEF Invoke, Go, pool, keys, progress
  <2>3. DeliveryOK(d) /\ SharedOK
    BY DEF BInv
  <2>4. doing'[d] = "key" /\ on'[d] = c /\ attempts'[d] = attempts[d] + 1
    BY <2>1, <2>2 DEF BInv, OverDeliveries
  <2>5. SharedOK' /\ \A a \in Addresses : Safe(a) => Safe(a)'
    BY <2>2, <2>3 DEF SharedOK, Safe, Quarantined
  <2>6. Placed(d)'
    BY <2>2, <2>3, <2>4 DEF DeliveryOK, Placed, Busy
  <2>7. Reached(d)'
    BY <2>2, <2>3, <2>4 DEF DeliveryOK, Reached, AtRecipient
  <2>8. PassedSafe(d)' /\ AckedSafe(d)'
    BY <2>2, <2>3, <2>4 DEF DeliveryOK, Reached, PassedSafe, AckedSafe, AtRecipient
  <2>9. DeliveryOK(d)'
    BY <2>6, <2>7, <2>8 DEF DeliveryOK
  <2>10. /\ rec' = [rec EXCEPT ![d] = rec[d]] /\ rcpt' = [rcpt EXCEPT ![d] = rcpt[d]]
         /\ errors' = [errors EXCEPT ![d] = errors[d]]
    BY <2>2 DEF BInv, OverDeliveries
  <2> QED  BY <2>1, <2>2, <2>5, <2>9, <2>10, OneMoves
<1>2. ASSUME NEW d \in Deliveries, ResolveKey(d) PROVE BInv'
  <2>1. CASE /\ cached' = IF cached[on[d]] # NoKey THEN cached
                          ELSE [cached EXCEPT ![on[d]] = secret]
             /\ Go(d, "record") /\ UNCHANGED <<on, progress>>
    <3>1. /\ doing[d] = "key" /\ doing' = [doing EXCEPT ![d] = "record"]
          /\ UNCHANGED <<user, lost, denylist, secret, on, rec, rcpt, errors, attempts>>
      BY <1>2, <2>1 DEF ResolveKey, Go, pool, progress
    <3>2. DeliveryOK(d) /\ SharedOK /\ on[d] \in Containers
      BY <3>1 DEF BInv, DeliveryOK, Placed, Busy
    <3>3. /\ cached' \in [Containers -> Keys \union {NoKey}] /\ cached'[on[d]] \in Keys
          /\ \A c \in Containers : c # on[d] => cached'[c] = cached[c]
      BY <2>1, <3>2 DEF SharedOK
    <3>4. doing'[d] = "record"
      BY <3>1 DEF BInv, OverDeliveries
    <3>5. SharedOK' /\ \A a \in Addresses : Safe(a) => Safe(a)'
      BY <3>1, <3>2, <3>3 DEF SharedOK, Safe, Quarantined
    <3>6. Placed(d)'
      BY <3>1, <3>2, <3>3, <3>4 DEF DeliveryOK, Placed, Busy
    <3>7. Reached(d)'
      BY <3>1, <3>2, <3>4 DEF DeliveryOK, Reached, AtRecipient
    <3>8. PassedSafe(d)' /\ AckedSafe(d)'
      BY <3>1, <3>2, <3>4 DEF DeliveryOK, Reached, PassedSafe, AckedSafe, AtRecipient
    <3>9. DeliveryOK(d)'
      BY <3>6, <3>7, <3>8 DEF DeliveryOK
    <3>10. /\ rec' = [rec EXCEPT ![d] = rec[d]] /\ rcpt' = [rcpt EXCEPT ![d] = rcpt[d]]
           /\ errors' = [errors EXCEPT ![d] = errors[d]] /\ on' = [on EXCEPT ![d] = on[d]]
           /\ attempts' = [attempts EXCEPT ![d] = attempts[d]]
      BY <3>1 DEF BInv, OverDeliveries
    <3>11. \A e \in Deliveries \ {d} : on[e] \in Containers => cached'[on[e]] = cached[on[e]]
      BY <3>2, <3>3 DEF BInv, OneEach
    <3> QED  BY <3>1, <3>5, <3>9, <3>10, <3>11, OneMoves
  <2>2. CASE End(d, TRUE) /\ UNCHANGED cached
    BY <1>2, <2>2, EndKeeps DEF ResolveKey, Busy
  <2> QED  BY <1>2, <2>1, <2>2 DEF ResolveKey
<1>3. ASSUME NEW d \in Deliveries, ReadRecord(d) PROVE BInv'
  <2>1. /\ doing[d] = "record" /\ rec[d] \in 1..Len(Batch[d]) /\ DeliveryOK(d)
        /\ UNCHANGED <<user, lost, denylist, secret, cached, on, attempts>>
    BY <1>3, BatchFacts DEF ReadRecord, BInv, DeliveryOK, Reached, pool, keys
  <2>2. SharedOK' /\ \A a \in Addresses : Safe(a) => Safe(a)'
    BY <2>1 DEF BInv, SharedOK, Safe, Quarantined
  <2>3. CASE Hard(Record(d)) /\ Record(d).to # <<>>
    <3>1. doing' = [doing EXCEPT ![d] = "flag"] /\ UNCHANGED <<rec, rcpt, errors>>
      BY <1>3, <2>3 DEF ReadRecord, Go, progress
    <3>2. doing'[d] = "flag"
      BY <3>1 DEF BInv, OverDeliveries
    <3>3. Placed(d)'
      BY <2>1, <3>2 DEF DeliveryOK, Placed, Busy
    <3>4. Len(Batch[d][rec[d]].to) \in Nat /\ Len(Batch[d][rec[d]].to) > 0
      BY <2>1, <2>3, BatchFacts DEF Record
    <3>5. Reached(d)'
      BY <2>1, <2>3, <3>1, <3>2, <3>4 DEF DeliveryOK, Reached, AtRecipient, Record, Hard
    <3>6. PassedSafe(d)'
      <4>1. \A n \in 1..(rec[d] - 1) : n \in errors[d] \/ RecordSafe(d, n)'
        BY <2>2, PassedStay
      <4>2. rcpt'[d] = 1
        BY <2>1, <3>1 DEF DeliveryOK, Reached, AtRecipient
      <4> QED  BY <3>1, <4>1, <4>2 DEF PassedSafe
    <3>7. DeliveryOK(d)'
      BY <3>2, <3>3, <3>5, <3>6 DEF DeliveryOK, AckedSafe
    <3>8. /\ rec' = [rec EXCEPT ![d] = rec[d]] /\ rcpt' = [rcpt EXCEPT ![d] = rcpt[d]]
          /\ errors' = [errors EXCEPT ![d] = errors[d]] /\ on' = [on EXCEPT ![d] = on[d]]
          /\ attempts' = [attempts EXCEPT ![d] = attempts[d]]
      BY <2>1, <3>1 DEF BInv, OverDeliveries
    <3> QED  BY <2>1, <2>2, <3>1, <3>7, <3>8, OneMoves
  <2>4. CASE ~(Hard(Record(d)) /\ Record(d).to # <<>>)
    <3>1. LeaveRecord(d, Record(d).kind = "garbled")
      BY <1>3, <2>4 DEF ReadRecord
    <3>2. PICK m : m = rec[d]
      OBVIOUS
    <3>3. RecordSafe(d, m)'
      <4>1. CASE ~Hard(Batch[d][m])
        BY <4>1 DEF RecordSafe, Hard
      <4>2. CASE Batch[d][m].to = <<>>
        <5>1. Len(Batch[d][m].to) = 0
          BY <4>2
        <5> QED  BY <5>1 DEF RecordSafe
      <4> QED  BY <2>4, <3>2, <4>1, <4>2 DEF Record
    <3>4. PICK failed \in BOOLEAN : LeaveRecord(d, failed)
      BY <3>1
    <3> QED  BY <2>1, <2>2, <3>2, <3>3, <3>4, LeaveKeeps DEF keys
  <2> QED  BY <2>3, <2>4
<1>4. ASSUME NEW d \in Deliveries, FlagUser(d) PROVE BInv'
  <2>1. /\ doing[d] = "flag" /\ DeliveryOK(d) /\ rec[d] \in 1..Len(Batch[d])
        /\ rcpt[d] \in 1..Len(Batch[d][rec[d]].to)
        /\ UNCHANGED <<lost, denylist, keys, on, attempts>>
    BY <1>4, BatchFacts DEF FlagUser, BInv, DeliveryOK, Reached, AtRecipient
  <2>2. PICK a \in Addresses : a = Record(d).to[rcpt[d]]
    BY <2>1, BatchFacts DEF Record
  <2>3. user' \in {user, [user EXCEPT ![a] = "flagged"]}
    BY <1>4, <2>2 DEF FlagUser
  <2>4. SharedOK'
    BY <2>1, <2>3 DEF BInv, SharedOK, UserStates, keys
  <2>5. \A b \in Addresses : Safe(b) => Safe(b)'
    BY <2>1, <2>3, SafeStays DEF BInv, keys
  <2>6. CASE user[a] = "absent" /\ Go(d, "deny") /\ UNCHANGED <<user, progress>>
    <3>1. doing' = [doing EXCEPT ![d] = "deny"] /\ UNCHANGED <<rec, rcpt, errors>>
      BY <2>6 DEF Go, progress
    <3>2. doing'[d] = "deny"
      BY <3>1 DEF BInv, OverDeliveries
    <3>3. Placed(d)'
      BY <2>1, <3>2 DEF DeliveryOK, Placed, Busy, keys
    <3>4. Reached(d)'
      BY <2>1, <3>1, <3>2 DEF DeliveryOK, Reached, AtRecipient, Hard
    <3>5. PassedSafe(d)'
      BY <2>1, <2>6, <3>1, <3>2
         DEF DeliveryOK, PassedSafe, AtRecipient, Safe, Quarantined, RecordSafe, Hard, keys
    <3>6. DeliveryOK(d)'
      BY <3>2, <3>3, <3>4, <3>5 DEF DeliveryOK, AckedSafe
    <3>7. /\ rec' = [rec EXCEPT ![d] = rec[d]] /\ rcpt' = [rcpt EXCEPT ![d] = rcpt[d]]
          /\ errors' = [errors EXCEPT ![d] = errors[d]] /\ on' = [on EXCEPT ![d] = on[d]]
          /\ attempts' = [attempts EXCEPT ![d] = attempts[d]] /\ cached' = cached
      BY <2>1, <3>1 DEF BInv, OverDeliveries, keys
    <3> QED  BY <2>4, <2>5, <3>1, <3>6, <3>7, OneMoves
  <2>7. CASE user' = [user EXCEPT ![a] = "flagged"] /\ NextRecipient(d)
    <3>1. Safe(a)'
      BY <2>7 DEF Safe, Quarantined, BInv, SharedOK
    <3> QED  BY <2>1, <2>2, <2>4, <2>5, <2>7, <3>1, NextKeeps DEF AtRecipient
  <2>8. CASE LeaveRecord(d, TRUE)
    <3>1. doing[d] \in {"record", "flag", "deny"} /\ rec[d] <= Len(Batch[d])
      BY <2>1 DEF AtRecipient, DeliveryOK, Reached
    <3>2. PICK m : m = rec[d]
      OBVIOUS
    <3>3. ~TRUE => RecordSafe(d, m)'
      OBVIOUS
    <3> QED  BY <2>1, <2>4, <2>5, <2>8, <3>1, <3>2, <3>3, LeaveKeeps
  <2> QED  BY <1>4, <2>2, <2>6, <2>7, <2>8 DEF FlagUser
<1>5. ASSUME NEW d \in Deliveries, PutDenylist(d) PROVE BInv'
  <2>1. /\ doing[d] = "deny" /\ DeliveryOK(d) /\ rec[d] \in 1..Len(Batch[d])
        /\ rcpt[d] \in 1..Len(Batch[d][rec[d]].to) /\ cached[on[d]] \in Keys
        /\ UNCHANGED <<user, keys, on, attempts>>
    BY <1>5, BatchFacts
       DEF PutDenylist, BInv, DeliveryOK, Reached, Placed, Busy, AtRecipient, pool
  <2>2. PICK a \in Addresses : a = Record(d).to[rcpt[d]]
    BY <2>1, BatchFacts DEF Record
  <2> DEFINE put == denylist \union {<<a, cached[on[d]]>>}
  <2>3. denylist' \in {denylist, put}
    BY <1>5, <2>2 DEF PutDenylist
  <2> DEFINE unmatched == IF cached[on[d]] = secret THEN {} ELSE {a}
  <2>8. lost' = lost \union {b \in unmatched : <<b, cached[on[d]]>> \in denylist'}
    BY <1>5, <2>2 DEF PutDenylist, Unmatched
  <2>4. SharedOK'
    BY <2>1, <2>3, <2>8 DEF BInv, SharedOK, keys
  <2>5. \A b \in Addresses : Safe(b) => Safe(b)'
    BY <2>1, <2>3, <2>8, SafeStays DEF BInv, keys
  <2>6. CASE denylist' = put /\ NextRecipient(d)
    <3>1. Safe(a)'
      BY <2>1, <2>6, <2>8 DEF Safe, Quarantined, keys
    <3> QED  BY <2>1, <2>2, <2>4, <2>5, <2>6, <3>1, NextKeeps DEF AtRecipient
  <2>7. CASE LeaveRecord(d, TRUE)
    <3>1. doing[d] \in {"record", "flag", "deny"} /\ rec[d] <= Len(Batch[d])
      BY <2>1 DEF AtRecipient, DeliveryOK, Reached
    <3>2. PICK m : m = rec[d]
      OBVIOUS
    <3>3. ~TRUE => RecordSafe(d, m)'
      OBVIOUS
    <3> QED  BY <2>1, <2>4, <2>5, <2>7, <3>1, <3>2, <3>3, LeaveKeeps
  <2> QED  BY <1>5, <2>2, <2>6, <2>7 DEF PutDenylist
<1>6. ASSUME NEW d \in Deliveries, Finish(d) PROVE BInv'
  <2>1. /\ doing[d] = "record" /\ rec[d] > Len(Batch[d]) /\ DeliveryOK(d)
        /\ End(d, errors[d] # {}) /\ UNCHANGED <<pool, denylist, keys, attempts>>
    BY <1>6 DEF Finish, BInv
  <2>2. rec[d] - 1 = Len(Batch[d])
    BY <2>1, BatchFacts DEF DeliveryOK, Reached
  <2>3. PICK thrown \in BOOLEAN : thrown = (errors[d] # {})
    OBVIOUS
  <2>4. End(d, thrown)
    BY <2>1, <2>3
  <2>5. ~thrown => \A n \in 1..Len(Batch[d]) : RecordSafe(d, n)
    BY <2>1, <2>2, <2>3 DEF DeliveryOK, PassedSafe
  <2> QED  BY <2>1, <2>4, <2>5, EndKeeps DEF Busy, keys
<1>7. ASSUME NEW d \in Deliveries, Dies(d) PROVE BInv'
  BY <1>7, EndKeeps DEF Dies, Busy
<1>8. ASSUME NEW a \in Addresses, CreateUser(a) \/ DeleteUser(a) PROVE BInv'
  <2>1. \A b \in Addresses : Safe(b) => Safe(b)'
    BY <1>8, SafeStays DEF BInv
  <2>2. SharedOK' /\ cached' = cached
    BY <1>8 DEF CreateUser, DeleteUser, BInv, SharedOK, UserStates, keys
  <2> QED  BY <1>8, <2>1, <2>2, AsideKeeps DEF CreateUser, DeleteUser
<1>9. CASE Rotate
  <2>1. \A b \in Addresses : Safe(b) => Safe(b)'
    BY <1>9, SafeStays DEF BInv
  <2>2. SharedOK' /\ cached' = cached
    BY <1>9 DEF Rotate, BInv, SharedOK, Keys, pool
  <2> QED  BY <1>9, <2>1, <2>2, AsideKeeps DEF Rotate
<1>10. ASSUME NEW c \in Containers, ColdStart(c) PROVE BInv'
  <2>1. \A b \in Addresses : Safe(b) => Safe(b)'
    BY <1>10 DEF ColdStart, Safe, Quarantined, pool
  <2>2. SharedOK'
    BY <1>10 DEF ColdStart, BInv, SharedOK, pool
  <2>3. \A e \in Deliveries : on[e] \in Containers => cached'[on[e]] = cached[on[e]]
    BY <1>10 DEF ColdStart, BInv, SharedOK
  <2> QED  BY <1>10, <2>1, <2>2, <2>3, AsideKeeps DEF ColdStart
<1>11. CASE UNCHANGED bounceVars
  <2>1. /\ UNCHANGED <<user, lost, denylist, secret, cached>>
        /\ UNCHANGED <<doing, on, progress, attempts>>
    BY <1>11 DEF bounceVars, pool, keys
  <2>2. SharedOK' /\ \A b \in Addresses : Safe(b) => Safe(b)'
    BY <2>1 DEF BInv, SharedOK, Safe, Quarantined
  <2> QED  BY <2>1, <2>2, AsideKeeps
<1> QED
  BY <1>1, <1>2, <1>3, <1>4, <1>5, <1>6, <1>7, <1>8, <1>9, <1>10, <1>11
     DEF BounceNext, Handler

LEMMA BInvType == BInv => BounceTypeOK
<1> SUFFICES ASSUME BInv PROVE BounceTypeOK
  OBVIOUS
<1>1. \A d \in Deliveries : Placed(d) /\ Reached(d)
  BY DEF BInv, DeliveryOK
<1>2. SharedOK /\ OverDeliveries
  BY DEF BInv
<1>3. ASSUME NEW d \in Deliveries
      PROVE  /\ rec[d] \in 1..(Len(Batch[d]) + 1) /\ errors[d] \subseteq 1..Len(Batch[d])
             /\ doing[d] \in {"flag", "deny"} =>
                   rec[d] <= Len(Batch[d]) /\ rcpt[d] \in 1..Len(Batch[d][rec[d]].to)
  BY <1>1, BatchFacts DEF Reached, AtRecipient
<1>4. /\ doing \in [Deliveries -> Busy \union {"waiting", "acked", "dropped"}]
      /\ on \in [Deliveries -> Containers \union {NoContainer}]
      /\ attempts \in [Deliveries -> 0..MaxAttempts]
  BY <1>1, <1>2 DEF Placed, OverDeliveries
<1>5. \A d \in Deliveries :
          /\ doing[d] \in Busy <=> on[d] \in Containers
          /\ doing[d] \in Busy \ {"key"} => cached[on[d]] \in Keys
  BY <1>1 DEF Placed
<1> QED  BY <1>2, <1>3, <1>4, <1>5 DEF BounceTypeOK, SharedOK

LEMMA BInvAcked == BInv => AckedIsQuarantined
<1> SUFFICES ASSUME BInv, NEW d \in Deliveries, doing[d] = "acked",
                    NEW a \in HardRecipients(d)
             PROVE  Quarantined(a) \/ a \in lost
  BY DEF AckedIsQuarantined
<1>1. PICK n \in DOMAIN Batch[d] : Hard(Batch[d][n]) /\ a \in {Batch[d][n].to[k] : k \in DOMAIN Batch[d][n].to}
  BY DEF HardRecipients
<1>2. PICK k \in DOMAIN Batch[d][n].to : a = Batch[d][n].to[k]
  BY <1>1
<1>3. n \in 1..Len(Batch[d]) /\ k \in 1..Len(Batch[d][n].to)
  BY <1>1, <1>2, BatchDomains
<1>4. RecordSafe(d, n)
  BY <1>3 DEF BInv, DeliveryOK, AckedSafe
<1> QED  BY <1>1, <1>2, <1>3, <1>4 DEF RecordSafe, Safe

LEMMA BInvIsolated == BInv => BadRecordIsolated
<1> SUFFICES ASSUME BInv, NEW d \in Deliveries, doing[d] = "record", rec[d] > Len(Batch[d]),
                    NEW n \in 1..Len(Batch[d]) \ errors[d], Hard(Batch[d][n]),
                    NEW k \in 1..Len(Batch[d][n].to)
             PROVE  Quarantined(Batch[d][n].to[k]) \/ Batch[d][n].to[k] \in lost
  BY DEF BadRecordIsolated
<1>1. rec[d] - 1 = Len(Batch[d])
  BY BatchFacts DEF BInv, DeliveryOK, Reached
<1>2. RecordSafe(d, n)
  BY <1>1 DEF BInv, DeliveryOK, PassedSafe
<1> QED  BY <1>2 DEF RecordSafe, Safe

\* Whatever fails and however often Lambda retries, an acknowledged delivery has
\* quarantined the addresses of its hard bounces and complaints, and a record
\* that fails takes no other with it.
THEOREM QuarantineKept == BounceSpec => []QuarantineIsRight
<1>1. BInv => QuarantineIsRight
  BY BInvType, BInvAcked, BInvIsolated DEF QuarantineIsRight
<1> QED  BY <1>1, BInvInit, BInvStep, PTL DEF BounceSpec
====
