------------------------------- MODULE KvStore -------------------------------
(***************************************************************************)
(* The record store port of foundation/src/kv and its three adapters, seen *)
(* through one key: MemoryKvStore and PostgresKvStore run a primitive as   *)
(* one step, DynamoKvStore as the requests it really sends, each of which  *)
(* may take effect and lose its answer, so that the transient retry sends  *)
(* it again.  `backend' and `usage' are drawn once, in the initial state:  *)
(* the adapter bound to the namespace, and what its callers keep there (a  *)
(* lock, a versioned record, a claims cache entry or a plain value).       *)
(***************************************************************************)
EXTENDS Integers, FiniteSets

CONSTANTS
    Clients,      \* concurrent callers
    Backends,     \* adapters to explore
    Usages,       \* what the key may be used for
    KvTtl,        \* ttlSeconds of the writes
    MaxNow,       \* bound on the clock, in seconds
    KvRetries,    \* bound on the retries of one request (maxAttempts)
    MaxOps,       \* bound on the operations started
    MaxSweeps     \* bound on the physical deletions of expired rows

ASSUME KvAssumption ==
    /\ Backends \subseteq {"memory", "dynamo", "postgres"}
    /\ Usages \subseteq {"lock", "record", "claims", "plain"}
    /\ KvTtl \in Nat /\ MaxNow \in Nat /\ KvRetries \in Nat /\ MaxOps \in Nat /\ MaxSweeps \in Nat

VARIABLES
    backend, usage,
    kvNow,        \* the clock every expiry decision goes through
    kvRow,        \* the physical row of the key, or NoKvRow
    gen,          \* how often the row was physically removed
    sweeps,       \* removals by the expiry sweep
    job,          \* per client: the primitive under way
    ops,          \* operations started
    held,         \* lock usage: the lease a client was granted and has not released
    tokens,       \* record usage: the versions a client was told it wrote
    shown,        \* claims usage: the expiries acknowledged as applied
    crossed       \* history: a request was applied under a version of a row since removed

kvVars == <<backend, usage, kvNow, kvRow, gen, sweeps, job, ops, held, tokens, shown, crossed>>

NoKvRow == [ver |-> 0, exp |-> -1, own |-> "none"]
NoExp == -1
(* `gen' in a lease or a job is history: the generation of the row that    *)
(* its version was read from or given in.                                  *)
NoLease == [ver |-> 0, until |-> -1, gen |-> 0]
Idle == [pc |-> "idle", op |-> "none", ver |-> 0, exp |-> NoExp, att |-> 0, gen |-> 0]

----------------------------------------------------------------------------
(* What the three adapters take for a live row.                            *)

MemoryLive(r) == r # NoKvRow /\ (r.exp = NoExp \/ r.exp >= kvNow)

DynamoLive(r) == r # NoKvRow /\ (r.exp = NoExp \/ r.exp >= kvNow)

PostgresLive(r) == r # NoKvRow /\ (r.exp = NoExp \/ r.exp > kvNow)

Entry(version, expiresAt, c) == [ver |-> version, exp |-> expiresAt, own |-> c]

ResolveExpiry == kvNow + KvTtl

(* The outcome of a primitive: the row it leaves and whether it applied.   *)
Outcome(r, applied) == [row |-> r, applied |-> applied]

----------------------------------------------------------------------------
(* MemoryKvStore: every primitive is one synchronous step.                 *)

MemoryPut(r, c) == Outcome(Entry(r.ver + 1, ResolveExpiry, c), TRUE)

MemoryPutIfAbsent(r, c) ==
    IF MemoryLive(r) THEN Outcome(r, FALSE)
    ELSE Outcome(Entry(r.ver + 1, ResolveExpiry, c), TRUE)

MemoryCompareAndSet(r, expected, c) ==
    IF (IF MemoryLive(r) THEN r.ver ELSE 0) # expected THEN Outcome(r, FALSE)
    ELSE Outcome(Entry(expected + 1, ResolveExpiry, c), TRUE)

MemoryPutIfFresher(r, incoming, c) ==
    IF MemoryLive(r) /\ r.exp # NoExp /\ r.exp >= incoming THEN Outcome(r, FALSE)
    ELSE Outcome(Entry(1, incoming, c), TRUE)

MemoryIncrement(r, c) ==
    Outcome(Entry(r.ver + 1, IF r.exp = NoExp THEN ResolveExpiry ELSE r.exp, c), TRUE)

MemoryDelete(r, expected) ==
    IF r = NoKvRow \/ r.ver # expected THEN Outcome(r, FALSE) ELSE Outcome(NoKvRow, TRUE)

----------------------------------------------------------------------------
(* PostgresKvStore: every primitive is one SQL statement.                  *)

PostgresPut(r, c) == Outcome(Entry(r.ver + 1, ResolveExpiry, c), TRUE)

PostgresPutIfAbsent(r, c) ==
    IF r = NoKvRow \/ (r.exp # NoExp /\ r.exp < kvNow)
    THEN Outcome(Entry(r.ver + 1, ResolveExpiry, c), TRUE)
    ELSE Outcome(r, FALSE)

PostgresCompareAndSet(r, expected, c) ==
    IF expected = 0 THEN PostgresPutIfAbsent(r, c)
    ELSE IF PostgresLive(r) /\ r.ver = expected
         THEN Outcome(Entry(r.ver + 1, ResolveExpiry, c), TRUE)
         ELSE Outcome(r, FALSE)

PostgresPutIfFresher(r, incoming, c) ==
    IF r = NoKvRow \/ r.exp = NoExp \/ r.exp < incoming
    THEN Outcome(Entry(r.ver + 1, incoming, c), TRUE)
    ELSE Outcome(r, FALSE)

PostgresIncrement(r, c) ==
    Outcome(Entry(r.ver + 1, IF r.exp = NoExp THEN ResolveExpiry ELSE r.exp, c), TRUE)

PostgresDelete(r, expected) ==
    IF r # NoKvRow /\ r.ver = expected THEN Outcome(NoKvRow, TRUE) ELSE Outcome(r, FALSE)

----------------------------------------------------------------------------
(* DynamoKvStore: the conditional requests.  The job keeps what the code   *)
(* computed before it sent the request: the expiry, and the version it     *)
(* read or was given.                                                      *)

DynamoCreate(r, j, c) ==
    IF r = NoKvRow THEN Outcome(Entry(1, j.exp, c), TRUE) ELSE Outcome(r, FALSE)

(* Mutant: the takeover is not guarded by the version that was read.       *)
DynamoTakeoverUnguarded(r, j, c) == Outcome(Entry(j.ver + 1, j.exp, c), TRUE)

DynamoTakeover(r, j, c) ==
    IF r # NoKvRow /\ r.ver = j.ver THEN Outcome(Entry(j.ver + 1, j.exp, c), TRUE)
    ELSE Outcome(r, FALSE)

DynamoCompareAndSet(r, j, c) ==
    IF j.ver = 0 THEN DynamoCreate(r, j, c) ELSE DynamoTakeover(r, j, c)

DynamoPutIfFresher(r, j, c) ==
    IF r = NoKvRow \/ r.exp = NoExp \/ r.exp < j.exp THEN Outcome(Entry(1, j.exp, c), TRUE)
    ELSE Outcome(r, FALSE)

DynamoIncrement(r, j, c) ==
    Outcome(Entry(r.ver + 1, IF r.exp = NoExp THEN j.exp ELSE r.exp, c), TRUE)

DynamoPut(r, j, c) == Outcome(Entry(j.ver + 1, j.exp, c), TRUE)

DynamoDelete(r, j) ==
    IF r # NoKvRow /\ r.ver = j.ver THEN Outcome(NoKvRow, TRUE) ELSE Outcome(r, FALSE)

(* The write request a job is about to send.                               *)
DynamoRequest(r, j, c) ==
    CASE j.op = "putIfAbsent" -> IF j.pc = "takeover" THEN DynamoTakeover(r, j, c)
                                 ELSE DynamoCreate(r, j, c)
      [] j.op = "compareAndSet" -> DynamoCompareAndSet(r, j, c)
      [] j.op = "putIfFresher" -> DynamoPutIfFresher(r, j, c)
      [] j.op = "increment" -> DynamoIncrement(r, j, c)
      [] j.op = "put" -> DynamoPut(r, j, c)
      [] j.op = "delete" -> DynamoDelete(r, j)

(* One primitive of an adapter that runs it as a single step.              *)
Statement(r, j, c) ==
    IF backend = "memory"
    THEN CASE j.op = "putIfAbsent" -> MemoryPutIfAbsent(r, c)
           [] j.op = "compareAndSet" -> MemoryCompareAndSet(r, j.ver, c)
           [] j.op = "putIfFresher" -> MemoryPutIfFresher(r, j.exp, c)
           [] j.op = "increment" -> MemoryIncrement(r, c)
           [] j.op = "put" -> MemoryPut(r, c)
           [] j.op = "delete" -> MemoryDelete(r, j.ver)
    ELSE CASE j.op = "putIfAbsent" -> PostgresPutIfAbsent(r, c)
           [] j.op = "compareAndSet" -> PostgresCompareAndSet(r, j.ver, c)
           [] j.op = "putIfFresher" -> PostgresPutIfFresher(r, j.exp, c)
           [] j.op = "increment" -> PostgresIncrement(r, c)
           [] j.op = "put" -> PostgresPut(r, c)
           [] j.op = "delete" -> PostgresDelete(r, j.ver)

----------------------------------------------------------------------------
KvInit ==
    /\ backend \in Backends
    /\ usage \in Usages
    /\ kvNow = 0 /\ gen = 0 /\ sweeps = 0 /\ ops = 0
    /\ kvRow = NoKvRow
    /\ job = [c \in Clients |-> Idle]
    /\ held = [c \in Clients |-> NoLease]
    /\ tokens = [c \in Clients |-> {}]
    /\ shown = {}
    /\ crossed = FALSE

(* The primitives a caller uses on a key of each usage: a lock is taken    *)
(* with putIfAbsent and released with a version-guarded delete, a record   *)
(* is read and then changed under the version read, a claims entry is      *)
(* written with putIfFresher.                                              *)
Calls(c) ==
    CASE usage = "lock" -> IF held[c] = NoLease THEN {[Idle EXCEPT !.op = "putIfAbsent"]}
                           ELSE {[Idle EXCEPT !.op = "delete", !.ver = held[c].ver, !.gen = held[c].gen]}
      [] usage = "record" -> {[Idle EXCEPT !.op = o, !.ver = kvRow.ver, !.gen = gen] :
                                  o \in {"compareAndSet", "increment", "delete"}}
      [] usage = "claims" -> {[Idle EXCEPT !.op = "putIfFresher", !.exp = e] :
                                  e \in kvNow .. kvNow + KvTtl}
      [] usage = "plain" -> {[Idle EXCEPT !.op = "put"]}

Expiry(j) == IF j.op = "putIfFresher" THEN j.exp ELSE ResolveExpiry

(* A caller starts a primitive.  DynamoKvStore resolves the expiry here,   *)
(* before its first request, but `put' reads the version first.            *)
Begin(c) ==
    /\ job[c].pc = "idle" /\ ops < MaxOps
    /\ \E j \in Calls(c) :
         /\ job' = [job EXCEPT ![c] =
                   IF j.op = "put" /\ backend = "dynamo" THEN [j EXCEPT !.pc = "version"]
                   ELSE [j EXCEPT !.pc = "write", !.exp = Expiry(j)]]
         /\ held' = IF j.op = "delete" THEN [held EXCEPT ![c] = NoLease] ELSE held
    /\ ops' = ops + 1
    /\ UNCHANGED <<backend, usage, kvNow, kvRow, gen, sweeps, tokens, shown, crossed>>

(* The answer a caller gets: a granted lease is its own until it expires   *)
(* or the caller starts to release it.                                     *)
Settle(c, r, applied) ==
    LET op == job[c].op IN
    /\ job' = [job EXCEPT ![c] = Idle]
    /\ held' = [held EXCEPT ![c] =
                  IF op = "putIfAbsent" /\ applied
                  THEN [ver |-> r.ver, until |-> r.exp, gen |-> gen] ELSE @]
    /\ tokens' = [tokens EXCEPT ![c] =
                    IF usage = "record" /\ applied /\ op = "compareAndSet"
                    THEN @ \cup {<<gen, r.ver>>} ELSE @]
    /\ shown' = IF op = "putIfFresher" /\ applied THEN shown \cup {r.exp} ELSE shown

(* A request that names the version of the row it is meant for.            *)
Guarded(j) == j.op = "delete" \/ j.pc = "takeover" \/ (j.op = "compareAndSet" /\ j.ver # 0)

Store(c, out) ==
    /\ kvRow' = out.row
    /\ gen' = IF kvRow # NoKvRow /\ out.row = NoKvRow THEN gen + 1 ELSE gen
    /\ crossed' = (crossed \/ (out.applied /\ Guarded(job[c]) /\ job[c].gen # gen))

(* Memory and Postgres: the primitive is one step.                         *)
RunStatement(c) ==
    /\ backend \in {"memory", "postgres"} /\ job[c].pc = "write"
    /\ LET out == Statement(kvRow, job[c], c) IN
         Store(c, out) /\ Settle(c, out.row, out.applied)
    /\ UNCHANGED <<backend, usage, kvNow, sweeps, ops>>

(* Postgres: the statement committed, the connection broke: the error      *)
(* reaches the caller, which does not know.                                *)
StatementLost(c) ==
    /\ backend = "postgres" /\ job[c].pc = "write"
    /\ Store(c, Statement(kvRow, job[c], c))
    /\ job' = [job EXCEPT ![c] = Idle]
    /\ UNCHANGED <<backend, usage, kvNow, sweeps, ops, held, tokens, shown>>

(* DynamoKvStore.put reads the version with an eventually consistent read: *)
(* it may see the row before the latest write.                             *)
ReadVersion(c) ==
    /\ job[c].pc = "version"
    /\ \E seen \in {kvRow.ver, IF kvRow.ver = 0 THEN 0 ELSE kvRow.ver - 1} :
         job' = [job EXCEPT ![c] = [@ EXCEPT !.ver = seen, !.exp = ResolveExpiry, !.pc = "write"]]
    /\ UNCHANGED <<backend, usage, kvNow, kvRow, gen, sweeps, ops, held, tokens, shown, crossed>>

(* A DynamoDB write that is answered.  A refused condition is terminal for *)
(* the retry; what follows it depends on the primitive.                    *)
Request(c) ==
    /\ backend = "dynamo" /\ job[c].pc \in {"write", "takeover"}
    /\ LET out == DynamoRequest(kvRow, job[c], c) IN
         /\ Store(c, out)
         /\ IF out.applied \/ job[c].op = "delete"
            THEN Settle(c, out.row, out.applied)
            ELSE /\ job' = [job EXCEPT ![c] = [@ EXCEPT !.att = 0, !.pc =
                              IF job[c].op = "putIfAbsent" /\ job[c].pc = "write"
                              THEN "classify" ELSE "winner"]]
                 /\ UNCHANGED <<held, tokens, shown>>
    /\ UNCHANGED <<backend, usage, kvNow, sweeps, ops>>

(* The write took effect (or was never received) and no answer came: the   *)
(* retry sends the same request again, and gives up after KvRetries.      *)
RequestLost(c) ==
    /\ backend = "dynamo" /\ job[c].pc \in {"write", "takeover"}
    /\ Store(c, DynamoRequest(kvRow, job[c], c)) \/ UNCHANGED <<kvRow, gen, crossed>>
    /\ job' = [job EXCEPT ![c] = IF job[c].att < KvRetries
                                 THEN [@ EXCEPT !.att = job[c].att + 1] ELSE Idle]
    /\ UNCHANGED <<backend, usage, kvNow, sweeps, ops, held, tokens, shown>>

(* putIfAbsent found a row: a consistent read tells a live one from an     *)
(* expired one, and a vanished one, which starts the primitive again.      *)
Classify(c) ==
    /\ job[c].pc = "classify"
    /\ IF kvRow = NoKvRow
       THEN job' = [job EXCEPT ![c] = [@ EXCEPT !.pc = "write", !.exp = ResolveExpiry]]
       ELSE IF DynamoLive(kvRow) THEN job' = [job EXCEPT ![c] = Idle]
       ELSE job' = [job EXCEPT ![c] = [@ EXCEPT !.pc = "takeover", !.ver = kvRow.ver, !.gen = gen]]
    /\ UNCHANGED <<backend, usage, kvNow, kvRow, gen, sweeps, ops, held, tokens, shown, crossed>>

(* A refused write reads the winner's record and reports applied: false.   *)
Winner(c) ==
    /\ job[c].pc = "winner"
    /\ job' = [job EXCEPT ![c] = Idle]
    /\ UNCHANGED <<backend, usage, kvNow, kvRow, gen, sweeps, ops, held, tokens, shown, crossed>>

(* The physical removal of an expired row: DynamoDB's own TTL process, or  *)
(* the sweepExpiredKvEntries cron.                                         *)
SweepExpired ==
    /\ backend \in {"dynamo", "postgres"} /\ sweeps < MaxSweeps
    /\ kvRow # NoKvRow /\ kvRow.exp # NoExp /\ kvRow.exp < kvNow
    /\ kvRow' = NoKvRow /\ gen' = gen + 1 /\ sweeps' = sweeps + 1
    /\ UNCHANGED <<backend, usage, kvNow, job, ops, held, tokens, shown, crossed>>

KvTick ==
    /\ kvNow < MaxNow
    /\ kvNow' = kvNow + 1
    /\ UNCHANGED <<backend, usage, kvRow, gen, sweeps, job, ops, held, tokens, shown, crossed>>

KvStep(c) ==
    \/ Begin(c) \/ RunStatement(c) \/ StatementLost(c) \/ ReadVersion(c)
    \/ Request(c) \/ RequestLost(c) \/ Classify(c) \/ Winner(c)

KvNext == (\E c \in Clients : KvStep(c)) \/ SweepExpired \/ KvTick

KvSpec == KvInit /\ [][KvNext]_kvVars

----------------------------------------------------------------------------
(* A lease that was granted and has not expired is the row of the key, so  *)
(* no second caller holds the lock.                                        *)
LeaseIsMine ==
    \A c \in Clients :
        held[c] # NoLease /\ held[c].until >= kvNow
            => kvRow.own = c /\ kvRow.ver = held[c].ver

(* Versions start again at 1 once a row was removed, by a release or a     *)
(* sweep, so a request guarded by a version from before may match another  *)
(* caller's new row: a delayed or repeated delete, a takeover.  That is    *)
(* the only way to lose a lease: in every adapter, whatever takeovers race *)
(* and answers are lost, leases are exclusive until a request is applied   *)
(* under a version of a row that has been removed since.                   *)
LeaseExclusive == ~crossed => LeaseIsMine

(* A version is an optimistic-concurrency token: compareAndSet never tells *)
(* two callers that each wrote the same version of the same row.  Not so   *)
(* the memory adapter, whose compareAndSet(0) over an expired row starts   *)
(* again at version 1 (memory-kv-store.ts:170).                            *)
TokensUnique ==
    backend # "memory" => \A c, d \in Clients : c # d => tokens[c] \cap tokens[d] = {}

(* claims-cache freshness guard: an acknowledged claims write that has not *)
(* expired is served, or one with a later expiry is; a stale write never   *)
(* replaces it.                                                            *)
FreshestClaimsServed ==
    \A e \in shown : e > kvNow => kvRow # NoKvRow /\ kvRow.exp >= e

(* What the adapters promise a caller: exclusive leases, unique tokens and *)
(* fresh claims.                                                           *)
KvContract == LeaseExclusive /\ TokensUnique /\ FreshestClaimsServed
=============================================================================
