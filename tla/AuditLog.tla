------------------------------ MODULE AuditLog -------------------------------
(***************************************************************************)
(* The audit log: AuditLog.emitAwait and emit, the metadata scrub and size *)
(* cap, MultiAuditStore over a DynamoDB and a Postgres store, retention    *)
(* and its sweeps.  A store's answer may be lost after its write, DynamoDB *)
(* requests are retried, and a process may stop with an emit in flight.    *)
(*                                                                         *)
(* Metadata is a family of leaves, numbered in their order: the path of    *)
(* keys that leads to one, each key with its case, and the bytes its       *)
(* top-level entry takes.                                                  *)
(***************************************************************************)
EXTENDS Integers, Sequences, FiniteSets, FiniteSetsExt, Functions

CONSTANTS Events,          \* the emits of a behaviour
          AuditModes,      \* MultiAuditStore modes to explore
          Inputs,          \* metadata the consumer may pass
          MaxBytes,        \* metadataMaxBytes
          Policies,        \* metadataOversizePolicy values to explore
          Retention,       \* seconds a severity is kept, retentionSecondsFor
          AuditAttempts,   \* attempts of transientRetry
          AuditMaxTime

ASSUME AuditAssumption == \A severity \in DOMAIN Retention : Retention[severity] \in Nat

Stores == {"dynamo", "postgres"}
Severities == DOMAIN Retention

(***************************************************************************)
(* PiiFilter and enforceMetadataSize.                                      *)
(***************************************************************************)
Lower(key) == IF key = "Token" THEN "token" ELSE key
Denylist == {"token"}
Redacted == "[REDACTED]"

\* The keys of a path that are denied, at any depth.
Denied(path) == {i \in DOMAIN path : Lower(path[i]) \in Denylist}

\* 'redact': the value under the first denied key is replaced.
Scrub(leaf) ==
    IF Denied(leaf.path) = {} THEN leaf
    ELSE [path |-> SubSeq(leaf.path, 1, Min(Denied(leaf.path))), value |-> Redacted, bytes |-> 1]

Apply(metadata) == [i \in DOMAIN metadata |-> Scrub(metadata[i])]
Size(metadata) == MapThenSumSet(LAMBDA i : metadata[i].bytes, DOMAIN metadata)

\* Entries, largest first; equal ones keep their order.
Rank(metadata, i) ==
    Cardinality({j \in DOMAIN metadata :
        \/ metadata[j].bytes > metadata[i].bytes
        \/ metadata[j].bytes = metadata[i].bytes /\ j < i})

WithoutLargest(metadata, n) == Restrict(metadata, {i \in DOMAIN metadata : Rank(metadata, i) >= n})

Flag == [path |-> <<"metadata_truncated">>, value |-> TRUE, bytes |-> 1]

\* Under 'truncate' the fewest largest entries go that make the rest fit, and
\* a flag is added.
EnforceMetadataSize(metadata) ==
    LET n == Min({k \in 0 .. Cardinality(DOMAIN metadata) : Size(WithoutLargest(metadata, k)) <= MaxBytes})
        kept == WithoutLargest(metadata, n)
    IN  [i \in DOMAIN kept \cup {0} |-> IF i = 0 THEN Flag ELSE kept[i]]

Fits(metadata) == Size(metadata) <= MaxBytes

VARIABLES auditMode, policy,
          auditNow,
          emits,       \* per event: how it was emitted, and where it stands
          puts,        \* per event and store: the write's state
          rows,        \* per store and event: the row, or NoAuditRow
          logged       \* failures the logger got: <<event, store or "validate">>

auditVars == <<auditMode, policy, auditNow, emits, puts, rows, logged>>

NoAuditRow == [ttl |-> -1, metadata |-> <<>>]
Fresh == [state |-> "new", await |-> FALSE, at |-> 0, severity |-> "none", metadata |-> <<>>]
Unsent == [state |-> "unsent", ttl |-> 0, tries |-> 0]

AuditInit ==
    /\ auditMode \in AuditModes /\ policy \in Policies
    /\ auditNow = 0
    /\ emits = [e \in Events |-> Fresh]
    /\ puts = [e \in Events |-> [s \in Stores |-> Unsent]]
    /\ rows = [s \in Stores |-> [e \in Events |-> NoAuditRow]]
    /\ logged = {}

\* The row's end of life: the store's clock when put is called, once.
RetentionUntil(severity) == auditNow + Retention[severity]

\* buildEvent, then store.put on every store.
Emit(e, await, severity, input) ==
    /\ emits[e].state = "new"
    /\ LET scrubbed == Apply(input)
           refused  == ~Fits(scrubbed) /\ policy = "reject"
           metadata == IF Fits(scrubbed) THEN scrubbed ELSE EnforceMetadataSize(scrubbed)
       IN  /\ emits' = [emits EXCEPT ![e] =
                 [state |-> IF refused THEN IF await THEN "threw" ELSE "returned" ELSE "writing",
                  await |-> await, at |-> auditNow, severity |-> severity,
                  metadata |-> IF refused THEN <<>> ELSE metadata]]
           /\ puts' = [puts EXCEPT ![e] = [s \in Stores |->
                 IF refused THEN Unsent
                 ELSE [state |-> "sent", ttl |-> RetentionUntil(severity), tries |-> 1]]]
           /\ logged' = IF refused /\ ~await THEN logged \cup {<<e, "validate">>} ELSE logged
    /\ UNCHANGED <<auditMode, policy, auditNow, rows>>

NewRow(e, s) == [ttl |-> puts[e][s].ttl, metadata |-> emits[e].metadata]

\* DynamoDB PutItem overwrites what an earlier attempt wrote; create inserts.
Written(e, s) == rows' = [rows EXCEPT ![s] = [@ EXCEPT ![e] = NewRow(e, s)]]

Moved(put, state) == [put EXCEPT !.state = state]
Again(put) == [put EXCEPT !.tries = @ + 1]

\* One attempt of one store's put.
PutAnswers(e, s) ==
    /\ puts[e][s].state = "sent"
    /\ Written(e, s)
    /\ puts' = [puts EXCEPT ![e] = [@ EXCEPT ![s] = Moved(puts[e][s], "ok")]]
    /\ UNCHANGED <<auditMode, policy, auditNow, emits, logged>>

\* It fails, before or after the write; DynamoDB is asked again.
PutFails(e, s) ==
    /\ puts[e][s].state = "sent"
    /\ Written(e, s) \/ UNCHANGED rows
    /\ puts' = [puts EXCEPT ![e] = [@ EXCEPT ![s] =
                  IF s = "dynamo" /\ puts[e][s].tries < AuditAttempts
                  THEN Again(puts[e][s]) ELSE Moved(puts[e][s], "failed")]]
    /\ UNCHANGED <<auditMode, policy, auditNow, emits, logged>>

Failures(e) == {s \in Stores : puts[e][s].state = "failed"}

SucceedsOnAny(e) == Failures(e) # Stores

\* MultiAuditStore's verdict on its settled writes.
Succeeds(e) == IF auditMode = "all" THEN Failures(e) = {} ELSE Failures(e) # Stores

\* All writes settled: each failure is logged, then the write as a whole
\* resolves or rejects; emit logs the rejection, emitAwait throws it.
SettlePut(e) ==
    /\ emits[e].state = "writing"
    /\ \A s \in Stores : puts[e][s].state \in {"ok", "failed"}
    /\ emits' = [emits EXCEPT ![e] = Moved(@,
                   IF ~emits[e].await THEN "returned" ELSE IF Succeeds(e) THEN "acked" ELSE "threw")]
    /\ logged' = logged \cup {<<e, s>> : s \in Failures(e)}
    /\ UNCHANGED <<auditMode, policy, auditNow, puts, rows>>

\* The process stops: what it had sent may still be applied, nobody is told.
Stop ==
    /\ \E e \in Events : emits[e].state = "writing"
    /\ emits' = [e \in Events |-> IF emits[e].state = "writing"
                                  THEN Moved(emits[e], "gone") ELSE emits[e]]
    /\ puts' = [e \in Events |-> [s \in Stores |->
                  IF emits[e].state = "writing" /\ puts[e][s].state = "sent"
                  THEN Moved(puts[e][s], "failed") ELSE puts[e][s]]]
    /\ UNCHANGED <<auditMode, policy, auditNow, rows, logged>>

AuditTick == /\ auditNow < AuditMaxTime
             /\ auditNow' = auditNow + 1
             /\ UNCHANGED <<auditMode, policy, emits, puts, rows, logged>>

\* External: DynamoDB's TTL, and the sweeper role's DELETE past retention_until.
SweepRow(e, s) == /\ rows[s][e] # NoAuditRow /\ rows[s][e].ttl < auditNow
                  /\ rows' = [rows EXCEPT ![s] = [@ EXCEPT ![e] = NoAuditRow]]
                  /\ UNCHANGED <<auditMode, policy, auditNow, emits, puts, logged>>

AuditNext ==
    \/ \E e \in Events : \/ \E await \in BOOLEAN, sev \in Severities, i \in Inputs : Emit(e, await, sev, i)
                         \/ SettlePut(e)
                         \/ \E s \in Stores : PutAnswers(e, s) \/ PutFails(e, s) \/ SweepRow(e, s)
    \/ Stop \/ AuditTick

AuditSpec == AuditInit /\ [][AuditNext]_auditVars

(***************************************************************************)
(* Properties.                                                             *)
(***************************************************************************)
Held(e) == {s \in Stores : rows[s][e] # NoAuditRow}

\* "emitAwait resolves with the persisted event after the store write
\* succeeds": an acknowledged event stays in a store ('all': in each) for its
\* severity's retention, whatever was lost or retried on the way, and a row
\* that is missing although the process went on is in the log.
AckedIsKept ==
    \A e \in Events :
        /\ emits[e].state = "acked" /\ auditNow <= emits[e].at + Retention[emits[e].severity]
           => IF auditMode = "all" THEN Held(e) = Stores ELSE Held(e) # {}
        /\ emits[e].state \in {"acked", "returned"} /\ <<e, "validate">> \notin logged
           /\ auditNow <= emits[e].at + Retention[emits[e].severity]
           => \A s \in Stores \ Held(e) : <<e, s>> \in logged

\* No row holds a value from under a denied key, at any depth or in any case.
NoPiiPersisted ==
    \A s \in Stores, e \in Events : \A i \in DOMAIN rows[s][e].metadata :
        LET leaf == rows[s][e].metadata[i]
        IN  (\E k \in DOMAIN leaf.path : Lower(leaf.path[k]) = "token") => leaf.value = Redacted

\* What is acknowledged is kept, and what is kept was redacted.
AuditPromise == AckedIsKept /\ NoPiiPersisted
=============================================================================
