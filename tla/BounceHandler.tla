---------------------------- MODULE BounceHandler ----------------------------
(***************************************************************************)
(* The bounce handler (vestibulum, lambda/handlers/bounce-handler): SES    *)
(* bounce and complaint notifications arrive through SNS, and the address  *)
(* of every hard bounce and complaint is quarantined, by a flag on its     *)
(* Cognito user or, when there is none, by a row of the denylist whose key *)
(* is the address under the HMAC secret that the container has cached.     *)
(*                                                                         *)
(* A delivery is one asynchronous invocation with its batch of records;    *)
(* when it throws, Lambda runs the whole batch again, a bounded number of  *)
(* times.  SNS may deliver twice: two deliveries may have the same batch.  *)
(***************************************************************************)
EXTENDS Integers, Sequences, FiniteSets

CONSTANTS
    Deliveries,
    Containers,       \* warm containers of the handler
    Addresses,
    Batch,            \* the records of each delivery
    MaxAttempts,      \* asynchronous invocation: one attempt and its retries
    MaxKey,           \* bound: rotations of the HMAC secret
    NoKey,            \* nothing cached
    NoContainer,
    BounceFaults            \* what may fail: "secrets", "cognito", "ddb", "crash"

Kinds == {"permanent", "transient", "complaint", "delivery", "garbled"}

ASSUME BounceAssumption ==
    /\ Batch \in [Deliveries -> Seq([kind : Kinds, to : Seq(Addresses)])]
    /\ MaxAttempts \in Nat \ {0} /\ MaxKey \in Nat
    /\ NoKey \notin 0..MaxKey /\ NoContainer \notin Containers

VARIABLES
    user,       \* the user pool: each address's user and its quarantine flag
    denylist,   \* rows <<address, version of the key it was hashed with>>
    secret,     \* Secrets Manager: the current version of the key
    cached,     \* cachedKey, in each container
    doing,
    on,         \* the container that runs the delivery
    rec, rcpt,  \* the record and the recipient it has come to
    errors,     \* the records that failed in this attempt
    attempts,
    lost        \* history: addresses whose quarantine was undone, because the flag
                \* went with its user or the row's key is not the secret any more

pool == <<user, lost>>

keys == <<secret, cached>>

progress == <<rec, rcpt, errors>>

bounceVars == <<pool, denylist, keys, doing, on, progress, attempts>>

Keys == 0..MaxKey

UserStates == {"absent", "clear", "flagged"}

Busy == {"key", "record", "flag", "deny"}

BounceTypeOK ==
    /\ user \in [Addresses -> UserStates] /\ lost \subseteq Addresses
    /\ denylist \subseteq Addresses \X Keys
    /\ secret \in Keys
    /\ cached \in [Containers -> Keys \union {NoKey}]
    /\ doing \in [Deliveries -> Busy \union {"waiting", "acked", "dropped"}]
    /\ on \in [Deliveries -> Containers \union {NoContainer}]
    /\ \A d \in Deliveries :
          /\ rec[d] \in 1..(Len(Batch[d]) + 1) /\ errors[d] \subseteq 1..Len(Batch[d])
          /\ doing[d] \in {"flag", "deny"} =>
                rec[d] <= Len(Batch[d]) /\ rcpt[d] \in 1..Len(Batch[d][rec[d]].to)
    /\ attempts \in [Deliveries -> 0..MaxAttempts]
    /\ \A d \in Deliveries :
          /\ doing[d] \in Busy <=> on[d] \in Containers
          /\ doing[d] \in Busy \ {"key"} => cached[on[d]] \in Keys

BounceInit ==
    /\ user \in [Addresses -> {"absent", "clear"}] /\ lost = {}
    /\ denylist = {} /\ secret = 0
    /\ cached = [c \in Containers |-> NoKey]
    /\ doing = [d \in Deliveries |-> "waiting"] /\ on = [d \in Deliveries |-> NoContainer]
    /\ rec = [d \in Deliveries |-> 1] /\ rcpt = [d \in Deliveries |-> 1]
    /\ errors = [d \in Deliveries |-> {}]
    /\ attempts = [d \in Deliveries |-> 0]

-----------------------------------------------------------------------------

Record(d) == Batch[d][rec[d]]

\* processBounce quarantines the recipients of permanent bounces only.
Hard(r) == r.kind \in {"permanent", "complaint"}

Go(d, to) == doing' = [doing EXCEPT ![d] = to]

\* The invocation is over, and its locals with it: acknowledged, or thrown and
\* perhaps tried again.
End(d, thrown) ==
    /\ Go(d, IF ~thrown THEN "acked"
             ELSE IF attempts[d] = MaxAttempts THEN "dropped" ELSE "waiting")
    /\ on' = [on EXCEPT ![d] = NoContainer]
    /\ rec' = [rec EXCEPT ![d] = 1] /\ rcpt' = [rcpt EXCEPT ![d] = 1]
    /\ errors' = [errors EXCEPT ![d] = {}]

\* Lambda starts the handler, in a warm container that is free or a new one.
Invoke(d) ==
    /\ doing[d] = "waiting"
    /\ \E c \in Containers :
          /\ \A e \in Deliveries : on[e] # c
          /\ on' = [on EXCEPT ![d] = c]
    /\ Go(d, "key")
    /\ attempts' = [attempts EXCEPT ![d] = @ + 1]
    /\ UNCHANGED <<pool, denylist, keys, progress>>

\* resolveEmailHmacKeyFromEnv: the cached key, or the secret as it is now.
ResolveKey(d) ==
    /\ doing[d] = "key"
    /\ \/ /\ cached' = IF cached[on[d]] # NoKey THEN cached
                       ELSE [cached EXCEPT ![on[d]] = secret]
          /\ Go(d, "record") /\ UNCHANGED <<on, progress>>
       \/ /\ "secrets" \in BounceFaults /\ cached[on[d]] = NoKey
          /\ End(d, TRUE) /\ UNCHANGED cached
    /\ UNCHANGED <<pool, denylist, secret, attempts>>

\* Mutant: the first record that fails ends the loop.
LeaveRecord_Break(d, failed) ==
    /\ Go(d, "record")
    /\ rec' = [rec EXCEPT ![d] = IF failed THEN Len(Batch[d]) + 1 ELSE @ + 1]
    /\ rcpt' = [rcpt EXCEPT ![d] = 1]
    /\ errors' = [errors EXCEPT ![d] = IF failed THEN @ \union {rec[d]} ELSE @]

\* Mutant: a record that failed is tried again in place.
LeaveRecord_Again(d, failed) ==
    /\ Go(d, "record")
    /\ rec' = [rec EXCEPT ![d] = IF failed THEN @ ELSE @ + 1]
    /\ rcpt' = [rcpt EXCEPT ![d] = 1] /\ UNCHANGED errors

\* The for loop moves on from record rec[d], which failed or did not.
LeaveRecord(d, failed) ==
    /\ Go(d, "record")
    /\ rec' = [rec EXCEPT ![d] = @ + 1] /\ rcpt' = [rcpt EXCEPT ![d] = 1]
    /\ errors' = [errors EXCEPT ![d] = IF failed THEN @ \union {rec[d]} ELSE @]

\* The loop body up to its first await: JSON.parse, the kind, the bounce type.
ReadRecord(d) ==
    /\ doing[d] = "record" /\ rec[d] <= Len(Batch[d])
    /\ IF Hard(Record(d)) /\ Record(d).to # <<>>
         THEN Go(d, "flag") /\ UNCHANGED progress
         ELSE LeaveRecord(d, Record(d).kind = "garbled")
    /\ UNCHANGED <<pool, denylist, keys, on, attempts>>

\* The next recipient of the record, or the next record.
NextRecipient(d) ==
    IF rcpt[d] < Len(Record(d).to)
      THEN /\ Go(d, "flag") /\ rcpt' = [rcpt EXCEPT ![d] = @ + 1]
           /\ UNCHANGED <<rec, errors>>
      ELSE LeaveRecord(d, FALSE)

\* quarantineEmail, first call: AdminUpdateUserAttributes.  Any failure but
\* UserNotFoundException leaves the record, the recipients after it included.
FlagUser(d) ==
    /\ doing[d] = "flag"
    /\ LET a == Record(d).to[rcpt[d]]
           flagged == [user EXCEPT ![a] = "flagged"]
       IN \/ user[a] = "absent" /\ Go(d, "deny") /\ UNCHANGED <<user, progress>>
          \/ user[a] # "absent" /\ user' = flagged /\ NextRecipient(d)
          \/ /\ "cognito" \in BounceFaults /\ LeaveRecord(d, TRUE)
             /\ user' \in IF user[a] = "absent" THEN {user} ELSE {user, flagged}
    /\ UNCHANGED <<lost, denylist, keys, on, attempts>>

\* A row under another key than the secret is never matched by a reader that has
\* the secret.
Unmatched(d) == IF cached[on[d]] = secret THEN {} ELSE {Record(d).to[rcpt[d]]}

\* Mutant: a failed PutItem is logged and forgotten.
PutDenylist_Swallow(d) ==
    /\ doing[d] = "deny"
    /\ LET put == denylist \union {<<Record(d).to[rcpt[d]], cached[on[d]]>>}
       IN denylist' \in {denylist, put} /\ NextRecipient(d)
    /\ lost' = lost \union {a \in Unmatched(d) : <<a, cached[on[d]]>> \in denylist'}
    /\ UNCHANGED <<user, keys, on, attempts>>

\* quarantineEmail, second call: PutItem, when Cognito knew no such user.
PutDenylist(d) ==
    /\ doing[d] = "deny"
    /\ LET put == denylist \union {<<Record(d).to[rcpt[d]], cached[on[d]]>>}
       IN \/ denylist' = put /\ NextRecipient(d)
          \/ "ddb" \in BounceFaults /\ denylist' \in {denylist, put} /\ LeaveRecord(d, TRUE)
    /\ lost' = lost \union {a \in Unmatched(d) : <<a, cached[on[d]]>> \in denylist'}
    /\ UNCHANGED <<user, keys, on, attempts>>

\* After the loop: AggregateError when any record failed.
Finish(d) ==
    /\ doing[d] = "record" /\ rec[d] > Len(Batch[d])
    /\ End(d, errors[d] # {})
    /\ UNCHANGED <<pool, denylist, keys, attempts>>

\* The function times out at an await; its container goes with it.
Dies(d) ==
    /\ "crash" \in BounceFaults /\ doing[d] \in {"key", "flag", "deny"}
    /\ End(d, TRUE)
    /\ cached' = [cached EXCEPT ![on[d]] = NoKey]
    /\ UNCHANGED <<pool, denylist, secret, attempts>>

-----------------------------------------------------------------------------

\* Administrators and self-signup create users, administrators delete them.
CreateUser(a) ==
    /\ user[a] = "absent" /\ user' = [user EXCEPT ![a] = "clear"]
    /\ UNCHANGED <<lost, denylist, keys, doing, on, progress, attempts>>

DeleteUser(a) ==
    /\ user[a] # "absent" /\ user' = [user EXCEPT ![a] = "absent"]
    /\ lost' = IF user[a] = "flagged" THEN lost \union {a} ELSE lost
    /\ UNCHANGED <<denylist, keys, doing, on, progress, attempts>>

\* The secret is rotated, and rows under the key before it are not matched any more;
\* containers keep the key they have until they are recycled.
Rotate ==
    /\ secret < MaxKey /\ secret' = secret + 1
    /\ lost' = lost \union {a \in Addresses : <<a, secret>> \in denylist /\ user[a] # "flagged"}
    /\ UNCHANGED <<user, denylist, cached, doing, on, progress, attempts>>

ColdStart(c) ==
    /\ cached[c] # NoKey /\ \A d \in Deliveries : on[d] # c
    /\ cached' = [cached EXCEPT ![c] = NoKey]
    /\ UNCHANGED <<pool, denylist, secret, doing, on, progress, attempts>>

Handler(d) ==
    \/ ResolveKey(d) \/ ReadRecord(d) \/ FlagUser(d) \/ PutDenylist(d) \/ Finish(d)

BounceNext ==
    \/ \E d \in Deliveries : Invoke(d) \/ Handler(d) \/ Dies(d)
    \/ \E a \in Addresses : CreateUser(a) \/ DeleteUser(a)
    \/ Rotate
    \/ \E c \in Containers : ColdStart(c)

\* Every await ends.  Nothing is assumed of Lambda's retries.
BounceFairness ==
    \A d \in Deliveries : WF_bounceVars(Handler(d))

BounceSpec == BounceInit /\ [][BounceNext]_bounceVars /\ BounceFairness

-----------------------------------------------------------------------------

HardRecipients(d) ==
    UNION {{Batch[d][n].to[k] : k \in DOMAIN Batch[d][n].to} :
               n \in {m \in DOMAIN Batch[d] : Hard(Batch[d][m])}}

\* As quarantine-check sees it, in a container that has the current secret.
Quarantined(a) == user[a] = "flagged" \/ <<a, secret>> \in denylist

\* A delivery is acknowledged only when every address of a hard bounce or a
\* complaint in its batch is refused from then on, whatever was retried, raced with
\* another delivery or happened to the user in between.  Only three events undo
\* that: a flagged user is deleted, the secret is rotated, or the container that
\* wrote the row still had the key from before a rotation.
AckedIsQuarantined ==
    \A d \in Deliveries : doing[d] = "acked" =>
        \A a \in HardRecipients(d) : Quarantined(a) \/ a \in lost

\* One record's failure does not stop the others: when the loop is done every
\* recipient of a hard record without an error is quarantined.
BadRecordIsolated ==
    \A d \in Deliveries : doing[d] = "record" /\ rec[d] > Len(Batch[d]) =>
        \A n \in 1..Len(Batch[d]) \ errors[d] : Hard(Batch[d][n]) =>
            \A k \in 1..Len(Batch[d][n].to) :
                Quarantined(Batch[d][n].to[k]) \/ Batch[d][n].to[k] \in lost

\* What is quarantined, by whom and when, is consistent at every step.
QuarantineIsRight == BounceTypeOK /\ AckedIsQuarantined /\ BadRecordIsolated

\* Every invocation ends, acknowledged or thrown, whatever its records hold and
\* whatever fails: a record that never parses cannot keep the loop.
EveryInvocationEnds ==
    \A d \in Deliveries : doing[d] \in Busy ~> doing[d] \notin Busy
=============================================================================
