---------------------------- MODULE StoreProofs ----------------------------
(*****************************************************************************)
(* Proofs about the parts of the foundation package that keep data for       *)
(* others: the token buckets of the rate limiters, the key-value stores with *)
(* their leases and records, and the cache of resolved secrets.              *)
(*****************************************************************************)
EXTENDS RateLimiter, KvStore, SecretCache, FiniteSetTheorems, SequenceTheorems, TLAPS

(* The rate limiters.  LedgerInv balances what was admitted against what the   *)
(* bucket holds and what time refilled; a row outlives its refill on every     *)
(* host's clock, so a swept row was a full bucket.                             *)

\* Integer division, as Math.floor and Math.ceil use it.
LEMMA DivBounds ==
    ASSUME NEW n \in Nat, NEW d \in Nat \ {0}
    PROVE  /\ n \div d \in Nat
           /\ d * (n \div d) <= n
           /\ n < d * (n \div d) + d
  BY Z3

\* A time to live is a sum of seconds.
LEMMA SecondsDistribute ==
    ASSUME NEW q \in Int, NEW r \in Int, NEW m \in Int, NEW s \in Int
    PROVE  (q + r + m) * s = s * q + s * r + (m - 1) * s + s
  BY Z3

\* What computeConsumeResult makes of a state: at most the capacity, at most what
\* was there and what the elapsed time refills.
LEMMA RefillBounds ==
    ASSUME NEW s \in Rows, NEW t \in Nat
    PROVE  /\ Refilled(s, t) \in 0..Capacity
           /\ s = NoRow => Refilled(s, t) = Capacity
           /\ s # NoRow => Refilled(s, t) <= s.tokens + AtLeast(0, t - s.last)
  BY LimiterAssumption DEF Refilled, Rows, AtMost, AtLeast

\* What is left and what is charged add up to the refilled bucket.
LEMMA LeftAndCharge ==
    ASSUME NEW c \in Consumers, seen[c] \in Rows, at[c] \in Nat
    PROVE  /\ Left(seen[c], at[c], Cost[c]) \in 0..Capacity
           /\ Charge(c) \in Nat
           /\ Left(seen[c], at[c], Cost[c]) + Charge(c) = Refilled(seen[c], at[c])
<1>1. Refilled(seen[c], at[c]) \in 0..Capacity
  BY RefillBounds
<1>2. Cost[c] \in Nat \ {0} /\ Capacity \in Nat
  BY LimiterAssumption
<1> QED
  BY <1>1, <1>2 DEF Left, Charge, Allowed

\* A row outlives its refill by the clocks' skew: the margin makes up for the
\* seconds that are rounded down.
LEMMA TtlCoversRefill ==
    ASSUME NEW level \in 0..Capacity, NEW a \in Nat, NEW t \in Nat, a <= t
    PROVE  /\ Ttl(level, t) \in Nat
           /\ a + (Capacity - level) + Skew <= Ttl(level, t) * Second
<1> DEFINE need == Capacity - level
           q == t \div Second
           r == (need + Second - 1) \div Second
<1>1. need \in Nat /\ need + Second - 1 \in Nat
  BY LimiterAssumption
<1>2. q \in Nat /\ t < Second * q + Second
  BY DivBounds, LimiterAssumption
<1>3. r \in Nat /\ need + Second - 1 < Second * r + Second
  BY <1>1, DivBounds, LimiterAssumption
<1>4. Ttl(level, t) = q + r + Margin
  BY DEF Ttl, CeilDiv
<1>5. (q + r + Margin) * Second = Second * q + Second * r + (Margin - 1) * Second + Second
  <2>1. q \in Int /\ r \in Int /\ Margin \in Int /\ Second \in Int
    BY <1>2, <1>3, LimiterAssumption
  <2> HIDE DEF q, r
  <2> QED  BY <2>1, SecondsDistribute
<1> HIDE DEF q, r
<1>6. (Margin - 1) * Second \in Nat /\ Second * q \in Nat /\ Second * r \in Nat
  BY <1>2, <1>3, LimiterAssumption
<1> QED
  BY <1>1, <1>2, <1>3, <1>4, <1>5, <1>6, LimiterAssumption

-----------------------------------------------------------------------------
LimiterInv == LimiterTypeOK /\ LedgerInv

LEMMA LimiterInvInit == Init => LimiterInv
  BY LimiterAssumption DEF Init, LimiterInv, LimiterTypeOK, LedgerInv, Balance, Rows

-----------------------------------------------------------------------------
\* A write that took effect: the books balance at the new row's time.
LEMMA CommitStep ==
    ASSUME LimiterInv, NEW c \in Consumers, pc[c] = "write", Unmoved(c), Commit(c),
           Forget(c), UNCHANGED now
    PROVE  LimiterInv'
<1> DEFINE s == seen[c]
           a == at[c]
           left == Left(s, a, Cost[c])
<1> USE LimiterAssumption
<1>1. /\ s \in Rows /\ row \in Rows /\ a \in 0..MaxTime /\ a <= now /\ now \in 0..MaxTime
      /\ admitted \in Nat /\ leaked \in Nat /\ mark \in Nat
  BY DEF LimiterInv, LimiterTypeOK, LedgerInv
<1>2. /\ left \in 0..Capacity /\ Charge(c) \in Nat
      /\ left + Charge(c) = Refilled(s, a)
  BY <1>1, LeftAndCharge
<1> DEFINE putBack == IF row = NoRow \/ s = NoRow THEN 0
                      ELSE AtLeast(0, s.tokens - row.tokens)
           again == AtLeast(0, mark - a)
<1>3. PICK t \in {a} \union {u \in Clocks : u >= a} :
         row' = [tokens |-> left, last |-> a, ttl |-> Ttl(left, t)]
  BY DEF Commit
<1>4. t \in Nat /\ a <= t
  BY <1>1, <1>3 DEF Clocks
<1>5. Ttl(left, t) \in Nat /\ a + (Capacity - left) + Skew <= Ttl(left, t) * Second
  <2>1. left \in 0..Capacity /\ a \in Nat /\ t \in Nat /\ a <= t
    BY <1>1, <1>2, <1>4
  <2> HIDE DEF left, a
  <2> QED  BY <2>1, TtlCoversRefill
<1>6. /\ row' \in Rows /\ row' # NoRow
      /\ row'.tokens = left /\ row'.last = a /\ row'.ttl = Ttl(left, t)
  BY <1>1, <1>2, <1>3, <1>5 DEF Rows
<1>7. /\ admitted' = admitted + Charge(c) /\ leaked' = leaked + (putBack + again)
      /\ mark' = a /\ past' = past \union {row}
      /\ pc' = [pc EXCEPT ![c] = IF Charge(c) > 0 THEN "allowed" ELSE "denied"]
      /\ attempt' = [attempt EXCEPT ![c] = 0]
  BY DEF Commit, Return
<1>8. putBack \in Nat /\ again \in Nat
  BY <1>1 DEF AtLeast, Rows
<1>9. LimiterTypeOK'
  BY <1>1, <1>2, <1>6, <1>7, <1>8 DEF LimiterInv, LimiterTypeOK, Forget, Rows
<1>10. Refilled(s, a) <= Balance + putBack + AtLeast(0, a - mark)
  <2>1. CASE s = NoRow
    BY <1>1, <1>8, <2>1, RefillBounds DEF Unmoved, Balance, AtLeast
  <2>2. CASE s # NoRow
    <3>1. row # NoRow /\ row.last = s.last /\ row.last = mark
      BY <2>2 DEF Unmoved, LimiterInv, LedgerInv
    <3>2. Refilled(s, a) <= s.tokens + AtLeast(0, a - mark)
      <4>1. a \in Nat
        BY <1>1
      <4>2. Refilled(s, a) <= s.tokens + AtLeast(0, a - s.last)
        BY <1>1, <2>2, <4>1, RefillBounds
      <4>3. s.last = mark
        BY <3>1
      <4> QED  BY <4>2, <4>3
    <3>3. s.tokens \in Nat /\ row.tokens \in Nat /\ s.tokens <= row.tokens + putBack
      BY <1>1, <2>2, <3>1 DEF Rows, AtLeast
    <3>4. Refilled(s, a) \in Nat /\ AtLeast(0, a - mark) \in Nat
      BY <1>1, RefillBounds DEF AtLeast
    <3> QED
      BY <1>8, <3>1, <3>2, <3>3, <3>4 DEF Balance
  <2> QED  BY <2>1, <2>2
<1>11. mark + AtLeast(0, a - mark) = a + again
  BY <1>1 DEF AtLeast
<1>12. Balance \in Nat /\ AtLeast(0, a - mark) \in Nat
  BY <1>1 DEF Balance, Rows, AtLeast
<1>13. admitted + Balance <= Capacity + mark + leaked
  BY DEF LimiterInv, LedgerInv
<1>14. Balance' = left
  BY <1>6 DEF Balance
<1>15. admitted' + Balance' <= Capacity + mark' + leaked'
  <2> HIDE DEF s, a, left, putBack, again
  <2> QED
    BY <1>1, <1>2, <1>7, <1>8, <1>10, <1>11, <1>12, <1>13, <1>14
<1>16. \A d \in Consumers : at'[d] <= now'
  BY <1>1 DEF LimiterInv, LedgerInv, LimiterTypeOK, Forget
<1> QED
  BY <1>1, <1>5, <1>6, <1>7, <1>9, <1>15, <1>16 DEF LimiterInv, LedgerInv

\* A call that returns what it computed without having written it.
LEMMA ReturnStep ==
    ASSUME LimiterInv, NEW c \in Consumers, Return(c, Charge(c)), Forget(c),
           UNCHANGED <<now, db, mark>>
    PROVE  LimiterInv'
<1> USE LimiterAssumption
<1>1. Charge(c) \in Nat
  BY LeftAndCharge DEF LimiterInv, LimiterTypeOK
<1>2. LimiterTypeOK'
  BY <1>1 DEF LimiterInv, LimiterTypeOK, Return, Forget, db, Rows
<1>3. LedgerInv'
  BY <1>1 DEF LimiterInv, LedgerInv, LimiterTypeOK, Return, Forget, db, Balance, Rows
<1> QED  BY <1>2, <1>3 DEF LimiterInv

LEMMA RetryStep ==
    ASSUME LimiterInv, NEW c \in Consumers, Retry(c), Forget(c), UNCHANGED <<now, db, mark>>
    PROVE  LimiterInv'
<1> USE LimiterAssumption
<1>1. CASE attempt[c] < MaxRetries - 1 /\ ~Return(c, Charge(c))
  <2>1. LimiterTypeOK'
    BY <1>1 DEF LimiterInv, LimiterTypeOK, Retry, Forget, db, Rows
  <2>2. LedgerInv'
    BY <1>1 DEF LimiterInv, LedgerInv, LimiterTypeOK, Retry, Forget, db, Balance
  <2> QED  BY <2>1, <2>2 DEF LimiterInv
<1>2. CASE Return(c, Charge(c))
  BY <1>2, ReturnStep
<1> QED  BY <1>1, <1>2 DEF Retry

LEMMA LimiterInvStep == LimiterInv /\ [Next]_vars => LimiterInv'
<1> SUFFICES ASSUME LimiterInv, [Next]_vars PROVE LimiterInv'
  OBVIOUS
<1> USE LimiterAssumption
<1>1. ASSUME NEW c \in Consumers, ReadClock(c) PROVE LimiterInv'
  BY <1>1 DEF LimiterInv, LimiterTypeOK, LedgerInv, ReadClock, Clocks, db, ledger, Balance
<1>2. ASSUME NEW c \in Consumers, ReadState(c) PROVE LimiterInv'
  BY <1>2 DEF LimiterInv, LimiterTypeOK, LedgerInv, ReadState, Forget, db, ledger, Balance, Rows
<1>3. ASSUME NEW c \in Consumers, WriteState(c) PROVE LimiterInv'
  <2>1. CASE Unmoved(c) /\ Commit(c)
    BY <1>3, <2>1, CommitStep DEF WriteState
  <2>2. CASE Retry(c) /\ UNCHANGED <<db, mark>>
    BY <1>3, <2>2, RetryStep DEF WriteState
  <2>3. CASE Return(c, Charge(c)) /\ UNCHANGED <<db, mark>>
    BY <1>3, <2>3, ReturnStep DEF WriteState
  <2> QED  BY <1>3, <2>1, <2>2, <2>3 DEF WriteState
<1>4. CASE Reset
  BY <1>4 DEF LimiterInv, LimiterTypeOK, LedgerInv, Reset, call, Balance, Rows
<1>5. CASE Sweep
  BY <1>5 DEF LimiterInv, LimiterTypeOK, LedgerInv, Sweep, call, Balance, Rows
<1>6. CASE Tick
  BY <1>6 DEF LimiterInv, LimiterTypeOK, LedgerInv, Tick, db, call, ledger, Balance
<1>7. CASE UNCHANGED vars
  BY <1>7 DEF LimiterInv, LimiterTypeOK, LedgerInv, vars, db, call, ledger, Balance
<1> QED
  BY <1>1, <1>2, <1>3, <1>4, <1>5, <1>6, <1>7 DEF Next, Step

\* The limiter's state stays well typed: no bucket holds less than nothing or more
\* than its capacity.
THEOREM LimiterTypeCorrect == Spec => []LimiterTypeOK
  BY LimiterInvInit, LimiterInvStep, PTL DEF Spec, LimiterInv

\* The inductive invariant: the books of tokens balance, and rows outlive their
\* refill.
THEOREM LedgerHolds == Spec => []LedgerInv
  BY LimiterInvInit, LimiterInvStep, PTL DEF Spec, LimiterInv

\* What is admitted is covered by the capacity, the time that passed and the leaks
\* that the limiter accepts, for any number of calls, costs and clocks.
THEOREM AdmissionBounded == Spec => []AdmittedIsPaid
<1>1. LimiterInv => AdmittedIsPaid
  BY LimiterAssumption
     DEF LimiterInv, LimiterTypeOK, LedgerInv, AdmittedIsPaid, Balance, Rows
<1> QED  BY <1>1, LimiterInvInit, LimiterInvStep, PTL DEF Spec

\* The store never forgets a bucket that is not full again on every host's clock.
THEOREM SweepsOnlyFull == Spec => []SweptOnlyWhenFull
<1>1. LimiterInv => SweptOnlyWhenFull
  BY LimiterAssumption
     DEF LimiterInv, LimiterTypeOK, LedgerInv, SweptOnlyWhenFull, Clocks, Refilled, Rows,
         AtMost, AtLeast
<1> QED  BY <1>1, LimiterInvInit, LimiterInvStep, PTL DEF Spec

------------------------------------------------------------------------------

(* The key-value stores.  A row's generation counts the removals before it;    *)
(* within one generation a lock's or a record's versions only grow, so a       *)
(* version and its generation name one write.  LeaseOK and LockJobOK say what  *)
(* a version that is still of this generation says about the row, TokenInv     *)
(* that no version of this generation is yet to be given out.                  *)

KvRows == [ver : Nat, exp : Int, own : Clients \cup {"none"}]

KvJobs == [pc : {"idle", "version", "write", "takeover", "classify", "winner"},
           op : {"none", "putIfAbsent", "compareAndSet", "putIfFresher", "increment", "put", "delete"},
           ver : Nat, exp : Int, att : Nat, gen : Nat]

KvLeases == [ver : Nat, until : Int, gen : Nat]

KvTypeOK ==
    /\ backend \in {"memory", "dynamo", "postgres"}
    /\ usage \in {"lock", "record", "claims", "plain"}
    /\ kvNow \in Nat /\ gen \in Nat /\ sweeps \in Nat /\ ops \in Nat
    /\ crossed \in BOOLEAN
    /\ kvRow \in KvRows
    /\ job \in [Clients -> KvJobs]
    /\ held \in [Clients -> KvLeases]
    /\ tokens \in [Clients -> SUBSET (Nat \X Nat)]
    /\ shown \in SUBSET Nat

\* A row that is there has a version and, since every caller sets one, an expiry.
RowOK(r) == r = NoKvRow \/ (r.ver > 0 /\ r.exp \in Nat)

\* The primitives that are used on a key of each usage.
OpsOf(u) ==
    CASE u = "lock" -> {"putIfAbsent", "delete"}
      [] u = "record" -> {"compareAndSet", "increment", "delete"}
      [] u = "claims" -> {"putIfFresher"}
      [] u = "plain" -> {"put"}

\* A job in flight is one its usage has; a caller that takes or releases a lock holds none.
JobOK(c, j) ==
    j.pc # "idle" =>
      /\ j.op \in OpsOf(usage)
      /\ j.pc # "version" => j.exp \in Nat
      /\ j.pc \in {"takeover", "classify"} => usage = "lock" /\ j.op = "putIfAbsent"
      /\ j.pc = "version" => usage = "plain"
      /\ held[c] = NoLease

\* What the version in a guarded request of a lock says of the row.
LockJobOK(c, j) ==
    /\ j.pc = "write" /\ j.op = "delete" =>
         /\ j.ver > 0 /\ j.gen <= gen
         /\ j.gen = gen => j.ver <= kvRow.ver /\ (j.ver = kvRow.ver => kvRow.own = c)
    /\ j.pc = "takeover" =>
         /\ j.ver > 0 /\ j.gen <= gen
         /\ j.gen = gen => j.ver <= kvRow.ver /\ (j.ver = kvRow.ver => kvRow.exp < kvNow)

\* What a lease says of the row.
LeaseOK(c, h) ==
    h # NoLease =>
      /\ h.ver > 0 /\ h.until \in Nat /\ h.gen <= gen
      /\ h.gen = gen => h.ver <= kvRow.ver
                        /\ (h.ver = kvRow.ver => kvRow.own = c /\ kvRow.exp = h.until)
      /\ ~crossed /\ h.until >= kvNow => h.gen = gen /\ h.ver = kvRow.ver

LockInv ==
    /\ usage = "lock" => \A c \in Clients : LeaseOK(c, held[c]) /\ LockJobOK(c, job[c])
    /\ usage # "lock" => \A c \in Clients : held[c] = NoLease

\* Tokens of this generation are no later than the row, and nobody else's.
TokenInv ==
    /\ usage # "record" => \A c \in Clients : tokens[c] = {}
    /\ backend # "memory" =>
         /\ \A c \in Clients : \A k \in tokens[c] :
              k[1] <= gen /\ (k[1] = gen => k[2] <= kvRow.ver)
         /\ \A c, d \in Clients : c # d => tokens[c] \cap tokens[d] = {}

ClaimInv ==
    /\ usage # "claims" => shown = {}
    /\ FreshestClaimsServed

KvInv ==
    /\ KvTypeOK
    /\ RowOK(kvRow)
    /\ \A c \in Clients : JobOK(c, job[c])
    /\ LockInv
    /\ TokenInv
    /\ ClaimInv

LEMMA NoLeaseIsALease == NoLease \in KvLeases
  BY DEF KvLeases, NoLease

LEMMA IdleIsAJob == Idle \in KvJobs
  BY DEF KvJobs, Idle, NoExp

LEMMA KvInvInit == KvInit => KvInv
<1> SUFFICES ASSUME KvInit PROVE KvInv
  OBVIOUS
<1> USE DEF KvInit
<1>1. KvTypeOK
  <2>1. NoKvRow \in KvRows /\ NoLease \in KvLeases
    BY DEF KvRows, KvLeases, NoKvRow, NoLease
  <2>2. Idle \in KvJobs
    BY IdleIsAJob
  <2>3. /\ backend \in {"memory", "dynamo", "postgres"}
        /\ usage \in {"lock", "record", "claims", "plain"}
    BY KvAssumption
  <2> QED  BY <2>1, <2>2, <2>3 DEF KvTypeOK
<1>2. RowOK(kvRow)
  BY DEF RowOK
<1>3. \A c \in Clients : JobOK(c, job[c])
  BY DEF JobOK, Idle
<1>4. LockInv
  BY DEF LockInv, LeaseOK, LockJobOK, Idle
<1>5. TokenInv /\ ClaimInv
  BY DEF TokenInv, ClaimInv, FreshestClaimsServed
<1> QED  BY <1>1, <1>2, <1>3, <1>4, <1>5 DEF KvInv

-----------------------------------------------------------------------------
\* What a write may do to the row, in every adapter: r is the row it leaves, a whether
\* it was applied.
Effect(c, r, a) ==
    /\ r \in KvRows /\ RowOK(r) /\ a \in BOOLEAN
    /\ ~a => r = kvRow
    /\ a /\ job[c].op = "delete" => r = NoKvRow /\ kvRow # NoKvRow /\ kvRow.ver = job[c].ver
    /\ a /\ job[c].op = "putIfAbsent" =>
         /\ r.ver = kvRow.ver + 1 /\ r.own = c
         /\ \/ kvRow = NoKvRow \/ kvRow.exp < kvNow
            \/ job[c].pc = "takeover" /\ kvRow.ver = job[c].ver
    /\ a /\ usage = "record" /\ backend # "memory" /\ job[c].op # "delete" =>
         r.ver = kvRow.ver + 1
    /\ a /\ job[c].op = "putIfFresher" =>
         /\ r.exp = job[c].exp
         /\ kvRow = NoKvRow \/ kvRow.exp < kvNow \/ kvRow.exp < r.exp
    /\ a /\ job[c].op # "delete" => r # NoKvRow

\* One key's row is written.
Written(c, r, a) ==
    /\ kvRow' = r
    /\ gen' = IF kvRow # NoKvRow /\ r = NoKvRow THEN gen + 1 ELSE gen
    /\ crossed' = (crossed \/ (a /\ Guarded(job[c]) /\ job[c].gen # gen))
    /\ UNCHANGED <<backend, usage, kvNow>>

LEMMA EntryIsARow ==
    ASSUME NEW v \in Nat, NEW e \in Int, NEW c \in Clients
    PROVE  /\ Entry(v, e, c) \in KvRows /\ Entry(v, e, c).ver = v
           /\ Entry(v, e, c).exp = e /\ Entry(v, e, c).own = c
  BY DEF Entry, KvRows

LEMMA RowFacts ==
    ASSUME KvInv
    PROVE  /\ kvRow.ver \in Nat /\ kvRow.exp \in Int /\ kvNow \in Nat /\ gen \in Nat
           /\ kvRow # NoKvRow => kvRow.ver > 0 /\ kvRow.exp \in Nat
           /\ NoKvRow.ver = 0 /\ NoKvRow \in KvRows /\ RowOK(NoKvRow)
           /\ ResolveExpiry \in Nat
  BY KvAssumption DEF KvInv, KvTypeOK, KvRows, RowOK, NoKvRow, ResolveExpiry

\* A refused write, an applied one and a removal have such an effect.
LEMMA RefusedEffect ==
    ASSUME KvInv, NEW c \in Clients, NEW out, out = Outcome(kvRow, FALSE)
    PROVE  Effect(c, out.row, out.applied)
<1>1. out.row = kvRow /\ out.applied = FALSE
  BY DEF Outcome
<1>2. kvRow \in KvRows /\ RowOK(kvRow)
  BY DEF KvInv, KvTypeOK
<1> QED  BY <1>1, <1>2 DEF Effect

LEMMA EntryEffect ==
    ASSUME KvInv, NEW c \in Clients, NEW v \in Nat, v > 0, NEW e \in Nat,
           NEW out, out = Outcome(Entry(v, e, c), TRUE),
           job[c].op # "delete",
           job[c].op = "putIfAbsent" =>
             /\ v = kvRow.ver + 1
             /\ \/ kvRow = NoKvRow \/ kvRow.exp < kvNow
                \/ job[c].pc = "takeover" /\ kvRow.ver = job[c].ver,
           usage = "record" /\ backend # "memory" => v = kvRow.ver + 1,
           job[c].op = "putIfFresher" =>
             e = job[c].exp /\ (kvRow = NoKvRow \/ kvRow.exp < kvNow \/ kvRow.exp < e)
    PROVE  Effect(c, out.row, out.applied)
<1>1. out.row = Entry(v, e, c) /\ out.applied = TRUE
  BY DEF Outcome
<1>2. PICK r : r = Entry(v, e, c)
  OBVIOUS
<1>3. r \in KvRows /\ r.ver = v /\ r.exp = e /\ r.own = c
  BY <1>2, EntryIsARow
<1>4. RowOK(r) /\ r # NoKvRow
  BY <1>3, RowFacts DEF RowOK
<1>5. Effect(c, r, TRUE)
  BY <1>3, <1>4 DEF Effect
<1> QED  BY <1>1, <1>2, <1>5

LEMMA RemovedEffect ==
    ASSUME KvInv, NEW c \in Clients, NEW out, out = Outcome(NoKvRow, TRUE),
           job[c].op = "delete", kvRow # NoKvRow, kvRow.ver = job[c].ver
    PROVE  Effect(c, out.row, out.applied)
<1>1. out.row = NoKvRow /\ out.applied = TRUE
  BY DEF Outcome
<1> QED  BY <1>1, RowFacts DEF Effect

\* Every statement of the memory and the Postgres adapter has.
LEMMA StatementEffect ==
    ASSUME KvInv, NEW c \in Clients, job[c].pc = "write", backend \in {"memory", "postgres"},
           NEW out, out = Statement(kvRow, job[c], c)
    PROVE  Effect(c, out.row, out.applied)
<1>1. PICK j \in KvJobs : j = job[c]
  BY DEF KvInv, KvTypeOK
<1>2. /\ j.ver \in Nat /\ j.exp \in Nat /\ j.op \in OpsOf(usage)
      /\ usage \in {"lock", "record", "claims", "plain"}
  BY <1>1 DEF KvInv, KvTypeOK, JobOK, KvJobs
<1>3. /\ kvRow.ver \in Nat /\ kvRow.ver + 1 \in Nat /\ kvRow.ver + 1 > 0 /\ kvRow.exp \in Int
      /\ kvNow \in Nat /\ (kvRow # NoKvRow => kvRow.exp \in Nat) /\ ResolveExpiry \in Nat
      /\ NoKvRow.ver = 0
  BY RowFacts
<1>4. CASE j.op = "putIfAbsent"
  <2>1. usage = "lock"
    BY <1>2, <1>4 DEF OpsOf
  <2>2. \/ out = Outcome(kvRow, FALSE)
        \/ /\ out = Outcome(Entry(kvRow.ver + 1, ResolveExpiry, c), TRUE)
           /\ kvRow = NoKvRow \/ kvRow.exp < kvNow
    <3>1. out = IF backend = "memory" THEN MemoryPutIfAbsent(kvRow, c) ELSE PostgresPutIfAbsent(kvRow, c)
      BY <1>1, <1>4 DEF Statement
    <3>2. kvRow = NoKvRow \/ kvRow.exp # NoExp
      BY <1>3 DEF NoExp
    <3>3. ~MemoryLive(kvRow) => kvRow = NoKvRow \/ kvRow.exp < kvNow
      BY <1>3 DEF MemoryLive
    <3> QED  BY <3>1, <3>2, <3>3 DEF MemoryPutIfAbsent, PostgresPutIfAbsent
  <2> QED  BY <1>1, <1>3, <1>4, <2>1, <2>2, RefusedEffect, EntryEffect
<1>5. CASE j.op = "compareAndSet"
  <2>1. usage = "record"
    BY <1>2, <1>5 DEF OpsOf
  <2>2. CASE backend = "memory"
    <3>1. \/ out = Outcome(kvRow, FALSE)
          \/ out = Outcome(Entry(j.ver + 1, ResolveExpiry, c), TRUE)
      BY <1>1, <1>5, <2>2 DEF Statement, MemoryCompareAndSet
    <3>2. j.ver + 1 \in Nat /\ j.ver + 1 > 0
      BY <1>2
    <3> QED  BY <1>1, <1>3, <1>5, <2>1, <2>2, <3>1, <3>2, RefusedEffect, EntryEffect
  <2>3. CASE backend # "memory"
    <3>1. \/ out = Outcome(kvRow, FALSE)
          \/ out = Outcome(Entry(kvRow.ver + 1, ResolveExpiry, c), TRUE)
      BY <1>1, <1>5, <2>3 DEF Statement, PostgresCompareAndSet, PostgresPutIfAbsent
    <3> QED  BY <1>1, <1>3, <1>5, <2>1, <3>1, RefusedEffect, EntryEffect
  <2> QED  BY <2>2, <2>3
<1>6. CASE j.op = "putIfFresher"
  <2>1. usage = "claims"
    BY <1>2, <1>6 DEF OpsOf
  <2>2. \/ out = Outcome(kvRow, FALSE)
        \/ /\ \/ out = Outcome(Entry(kvRow.ver + 1, j.exp, c), TRUE)
              \/ out = Outcome(Entry(1, j.exp, c), TRUE)
           /\ kvRow = NoKvRow \/ kvRow.exp < kvNow \/ kvRow.exp < j.exp
    <3>1. out = IF backend = "memory" THEN MemoryPutIfFresher(kvRow, j.exp, c)
                ELSE PostgresPutIfFresher(kvRow, j.exp, c)
      BY <1>1, <1>6 DEF Statement
    <3>2. kvRow = NoKvRow \/ kvRow.exp # NoExp
      BY <1>3 DEF NoExp
    <3>3. ~MemoryLive(kvRow) => kvRow = NoKvRow \/ kvRow.exp < kvNow
      BY <1>3 DEF MemoryLive
    <3>4. kvRow.exp >= j.exp \/ kvRow.exp < j.exp
      BY <1>2, <1>3
    <3> QED  BY <3>1, <3>2, <3>3, <3>4 DEF MemoryPutIfFresher, PostgresPutIfFresher
  <2>3. 1 \in Nat /\ 1 > 0
    OBVIOUS
  <2> QED  BY <1>1, <1>2, <1>3, <1>6, <2>1, <2>2, <2>3, RefusedEffect, EntryEffect
<1>7. CASE j.op = "increment"
  <2>1. usage = "record"
    BY <1>2, <1>7 DEF OpsOf
  <2>2. PICK e \in Nat : out = Outcome(Entry(kvRow.ver + 1, e, c), TRUE)
    <3>1. (IF kvRow.exp = NoExp THEN ResolveExpiry ELSE kvRow.exp) \in Nat
      BY <1>3 DEF NoExp, NoKvRow
    <3> QED  BY <1>1, <1>7, <3>1 DEF Statement, MemoryIncrement, PostgresIncrement
  <2> QED  BY <1>1, <1>3, <1>7, <2>1, <2>2, EntryEffect
<1>8. CASE j.op = "put"
  <2>1. usage = "plain"
    BY <1>2, <1>8 DEF OpsOf
  <2>2. out = Outcome(Entry(kvRow.ver + 1, ResolveExpiry, c), TRUE)
    BY <1>1, <1>8 DEF Statement, MemoryPut, PostgresPut
  <2> QED  BY <1>1, <1>3, <1>8, <2>1, <2>2, EntryEffect
<1>9. CASE j.op = "delete"
  <2>1. \/ out = Outcome(kvRow, FALSE)
        \/ out = Outcome(NoKvRow, TRUE) /\ kvRow # NoKvRow /\ kvRow.ver = j.ver
    BY <1>1, <1>9 DEF Statement, MemoryDelete, PostgresDelete
  <2> QED  BY <1>1, <1>9, <2>1, RefusedEffect, RemovedEffect
<1> QED  BY <1>2, <1>4, <1>5, <1>6, <1>7, <1>8, <1>9 DEF OpsOf

\* Every request of the DynamoDB adapter has, also one that is sent again.
LEMMA DynamoEffect ==
    ASSUME KvInv, NEW c \in Clients, job[c].pc \in {"write", "takeover"},
           NEW out, out = DynamoRequest(kvRow, job[c], c)
    PROVE  Effect(c, out.row, out.applied)
<1>1. PICK j \in KvJobs : j = job[c]
  BY DEF KvInv, KvTypeOK
<1>2. /\ j.ver \in Nat /\ j.ver + 1 \in Nat /\ j.ver + 1 > 0 /\ j.exp \in Nat /\ j.op \in OpsOf(usage)
      /\ usage \in {"lock", "record", "claims", "plain"}
      /\ j.pc = "takeover" => j.op = "putIfAbsent"
  BY <1>1 DEF KvInv, KvTypeOK, JobOK, KvJobs
<1>3. /\ kvRow.ver \in Nat /\ kvRow.ver + 1 \in Nat /\ kvRow.ver + 1 > 0 /\ kvRow.exp \in Int
      /\ kvNow \in Nat /\ (kvRow # NoKvRow => kvRow.exp \in Nat)
      /\ NoKvRow.ver = 0 /\ 1 \in Nat /\ 1 > 0 /\ (kvRow = NoKvRow => kvRow.ver + 1 = 1)
  BY RowFacts
<1>4. CASE j.op = "putIfAbsent"
  <2>1. usage = "lock"
    BY <1>2, <1>4 DEF OpsOf
  <2>2. \/ out = Outcome(kvRow, FALSE)
        \/ out = Outcome(Entry(1, j.exp, c), TRUE) /\ kvRow = NoKvRow
        \/ /\ out = Outcome(Entry(j.ver + 1, j.exp, c), TRUE)
           /\ j.pc = "takeover" /\ kvRow.ver = j.ver
    BY <1>1, <1>4 DEF DynamoRequest, DynamoTakeover, DynamoCreate
  <2> QED  BY <1>1, <1>2, <1>3, <1>4, <2>1, <2>2, RefusedEffect, EntryEffect
<1>5. CASE j.op = "compareAndSet"
  <2>1. usage = "record"
    BY <1>2, <1>5 DEF OpsOf
  <2>2. \/ out = Outcome(kvRow, FALSE)
        \/ out = Outcome(Entry(1, j.exp, c), TRUE) /\ kvRow = NoKvRow
        \/ out = Outcome(Entry(j.ver + 1, j.exp, c), TRUE) /\ kvRow.ver = j.ver
    BY <1>1, <1>5 DEF DynamoRequest, DynamoCompareAndSet, DynamoTakeover, DynamoCreate
  <2> QED  BY <1>1, <1>2, <1>3, <1>5, <2>1, <2>2, RefusedEffect, EntryEffect
<1>6. CASE j.op = "putIfFresher"
  <2>1. usage = "claims"
    BY <1>2, <1>6 DEF OpsOf
  <2>2. \/ out = Outcome(kvRow, FALSE)
        \/ /\ out = Outcome(Entry(1, j.exp, c), TRUE)
           /\ kvRow = NoKvRow \/ kvRow.exp < j.exp
    <3>1. out = DynamoPutIfFresher(kvRow, j, c)
      BY <1>1, <1>6 DEF DynamoRequest
    <3>2. kvRow = NoKvRow \/ kvRow.exp # NoExp
      BY <1>3 DEF NoExp
    <3> QED  BY <3>1, <3>2 DEF DynamoPutIfFresher
  <2> QED  BY <1>1, <1>2, <1>3, <1>6, <2>1, <2>2, RefusedEffect, EntryEffect
<1>7. CASE j.op = "increment"
  <2>1. usage = "record"
    BY <1>2, <1>7 DEF OpsOf
  <2>2. PICK e \in Nat : out = Outcome(Entry(kvRow.ver + 1, e, c), TRUE)
    <3>1. (IF kvRow.exp = NoExp THEN j.exp ELSE kvRow.exp) \in Nat
      BY <1>2, <1>3 DEF NoExp, NoKvRow
    <3> QED  BY <1>1, <1>7, <3>1 DEF DynamoRequest, DynamoIncrement
  <2> QED  BY <1>1, <1>3, <1>7, <2>1, <2>2, EntryEffect
<1>8. CASE j.op = "put"
  <2>1. usage = "plain"
    BY <1>2, <1>8 DEF OpsOf
  <2>2. out = Outcome(Entry(j.ver + 1, j.exp, c), TRUE)
    BY <1>1, <1>8 DEF DynamoRequest, DynamoPut
  <2> QED  BY <1>1, <1>2, <1>8, <2>1, <2>2, EntryEffect
<1>9. CASE j.op = "delete"
  <2>1. \/ out = Outcome(kvRow, FALSE)
        \/ out = Outcome(NoKvRow, TRUE) /\ kvRow # NoKvRow /\ kvRow.ver = j.ver
    BY <1>1, <1>9 DEF DynamoRequest, DynamoDelete
  <2> QED  BY <1>1, <1>9, <2>1, RefusedEffect, RemovedEffect
<1> QED  BY <1>2, <1>4, <1>5, <1>6, <1>7, <1>8, <1>9 DEF OpsOf


-----------------------------------------------------------------------------
\* What a write leaves true of the leases, the jobs, the tokens and the claims that
\* are already there.
LEMMA WrittenRow ==
    ASSUME KvInv, NEW c \in Clients, NEW r, NEW a, Effect(c, r, a), Written(c, r, a)
    PROVE  /\ kvRow' \in KvRows /\ RowOK(kvRow)' /\ crossed' \in BOOLEAN
           /\ gen' \in Nat /\ gen <= gen'
           /\ gen' = gen \/ (kvRow # NoKvRow /\ kvRow' = NoKvRow /\ gen' = gen + 1)
           /\ a /\ job[c].op # "delete" => gen' = gen /\ kvRow' # NoKvRow
  BY RowFacts DEF Effect, Written, RowOK, KvInv, KvTypeOK

LEMMA WrittenLeases ==
    ASSUME KvInv, NEW c \in Clients, NEW r, NEW a, Effect(c, r, a), Written(c, r, a),
           usage = "lock", job[c].pc \in {"write", "takeover"},
           NEW d \in Clients
    PROVE  /\ \A h \in KvLeases : h = held[d] => LeaseOK(d, h)'
           /\ \A j \in KvJobs : j = job[d] => LockJobOK(d, j)'
<1>1. PICK k \in KvJobs : k = job[c]
  BY DEF KvInv, KvTypeOK
<1>2. PICK hc \in KvLeases : hc = held[c]
  BY DEF KvInv, KvTypeOK
<1>3. /\ k.op \in {"putIfAbsent", "delete"} /\ hc = NoLease
      /\ k.pc = "takeover" => k.op = "putIfAbsent"
      /\ k.pc \in {"write", "takeover"}
      /\ k.ver \in Nat /\ k.gen \in Nat
  BY <1>1, <1>2 DEF KvInv, JobOK, OpsOf, KvJobs
<1>4. PICK o \in KvRows : o = kvRow
  BY DEF KvInv, KvTypeOK
<1>5. /\ o.ver \in Nat /\ o.exp \in Int /\ r.ver \in Nat /\ r.exp \in Int
      /\ NoKvRow.ver = 0 /\ gen \in Nat /\ kvNow \in Nat /\ crossed \in BOOLEAN /\ a \in BOOLEAN
      /\ o = NoKvRow \/ (o.ver > 0 /\ o.exp \in Nat)
  BY <1>4, RowFacts DEF Effect, KvRows, KvInv, KvTypeOK
<1>6. LockJobOK(c, k)
  BY <1>1 DEF KvInv, LockInv
<1>7. /\ kvRow' = r /\ kvNow' = kvNow /\ gen' = (IF o # NoKvRow /\ r = NoKvRow THEN gen + 1 ELSE gen)
      /\ crossed' = (crossed \/ (a /\ Guarded(k) /\ k.gen # gen))
  BY <1>1, <1>4 DEF Written
<1>8. /\ ~a => r = o
      /\ a /\ k.op = "delete" => r = NoKvRow /\ o # NoKvRow /\ o.ver = k.ver
      /\ a /\ k.op = "putIfAbsent" =>
           /\ r.ver = o.ver + 1 /\ r.own = c
           /\ o = NoKvRow \/ o.exp < kvNow \/ (k.pc = "takeover" /\ o.ver = k.ver)
  BY <1>1, <1>4 DEF Effect
<1>9. ASSUME NEW h \in KvLeases, h = held[d] PROVE LeaseOK(d, h)'
  <2>1. LeaseOK(d, h)
    BY <1>9 DEF KvInv, LockInv
  <2>2. h.ver \in Nat /\ h.until \in Int /\ h.gen \in Nat
    BY DEF KvLeases
  <2>3. CASE ~a
    BY <1>4, <1>5, <1>7, <1>8, <2>1, <2>2, <2>3 DEF LeaseOK
  <2>4. CASE a /\ k.op = "delete"
    <3>1. d = c => h = NoLease
      BY <1>2, <1>3, <1>9
    <3>2. ASSUME ~crossed' PROVE ~crossed /\ k.gen = gen /\ o.own = c
      BY <1>3, <1>4, <1>5, <1>6, <1>7, <1>8, <2>4, <3>2 DEF LockJobOK, Guarded
    <3>3. gen' = gen + 1
      BY <1>7, <1>8, <2>4
    <3> QED  BY <1>4, <1>5, <1>7, <2>1, <2>2, <3>1, <3>2, <3>3 DEF LeaseOK
  <2>5. CASE a /\ k.op = "putIfAbsent"
    <3>1. ASSUME ~crossed' PROVE ~crossed /\ (o = NoKvRow \/ o.exp < kvNow)
      BY <1>3, <1>4, <1>5, <1>6, <1>7, <1>8, <2>5, <3>1 DEF LockJobOK, Guarded
    <3>2. gen' = gen /\ r.ver = o.ver + 1
      BY <1>5, <1>7, <1>8, <2>5
    <3> QED  BY <1>4, <1>5, <1>7, <2>1, <2>2, <3>1, <3>2 DEF LeaseOK
  <2> QED  BY <1>3, <1>5, <2>3, <2>4, <2>5
<1>10. ASSUME NEW j \in KvJobs, j = job[d] PROVE LockJobOK(d, j)'
  <2>1. LockJobOK(d, j)
    BY <1>10 DEF KvInv, LockInv
  <2>2. j.ver \in Nat /\ j.gen \in Nat
    BY DEF KvJobs
  <2> QED  BY <1>3, <1>4, <1>5, <1>7, <1>8, <2>1, <2>2 DEF LockJobOK
<1> QED  BY <1>9, <1>10

\* A lease that is granted is the row.
LEMMA GrantedLease ==
    ASSUME KvInv, NEW c \in Clients, NEW r, Effect(c, r, TRUE), Written(c, r, TRUE),
           job[c].op = "putIfAbsent",
           NEW h, h = [ver |-> r.ver, until |-> r.exp, gen |-> gen]
    PROVE  h \in KvLeases /\ LeaseOK(c, h)'
<1>1. gen' = gen /\ kvRow' = r /\ r \in KvRows /\ RowOK(r) /\ r # NoKvRow /\ r.own = c /\ gen \in Nat
  BY WrittenRow DEF Effect, Written, KvInv, KvTypeOK
<1>2. r.ver \in Nat /\ r.ver > 0 /\ r.exp \in Nat
  BY <1>1 DEF KvRows, RowOK
<1>3. h.ver = r.ver /\ h.until = r.exp /\ h.gen = gen
  OBVIOUS
<1> QED  BY <1>1, <1>2, <1>3 DEF LeaseOK, KvLeases

LEMMA WrittenTokens ==
    ASSUME KvInv, NEW c \in Clients, NEW r, NEW a, Effect(c, r, a), Written(c, r, a),
           job[c].pc \in {"write", "takeover"}, usage = "record", backend # "memory"
    PROVE  /\ \A d \in Clients : \A k \in tokens[d] : k[1] <= gen' /\ (k[1] = gen' => k[2] <= kvRow'.ver)
           /\ a /\ job[c].op = "compareAndSet" =>
                gen' = gen /\ \A d \in Clients : <<gen, r.ver>> \notin tokens[d]
<1>1. PICK o \in KvRows : o = kvRow
  BY DEF KvInv, KvTypeOK
<1>2. /\ o.ver \in Nat /\ r.ver \in Nat /\ gen \in Nat /\ NoKvRow.ver = 0 /\ a \in BOOLEAN
  BY <1>1, RowFacts DEF Effect, KvRows
<1>3. kvRow' = r /\ gen' = (IF o # NoKvRow /\ r = NoKvRow THEN gen + 1 ELSE gen)
  BY <1>1 DEF Written
<1>4. /\ ~a => r = o
      /\ a /\ job[c].op = "delete" => r = NoKvRow /\ o # NoKvRow
      /\ a /\ job[c].op # "delete" => r.ver = o.ver + 1 /\ r # NoKvRow
  BY <1>1 DEF Effect
<1>5. ASSUME NEW d \in Clients, NEW k \in tokens[d]
      PROVE  k[1] \in Nat /\ k[2] \in Nat /\ k[1] <= gen /\ (k[1] = gen => k[2] <= o.ver)
  BY <1>1, <1>5 DEF KvInv, KvTypeOK, TokenInv
<1>6. ASSUME NEW d \in Clients, NEW k \in tokens[d]
      PROVE  k[1] <= gen' /\ (k[1] = gen' => k[2] <= kvRow'.ver)
  BY <1>2, <1>3, <1>4, <1>5, <1>6
<1>7. ASSUME a, job[c].op = "compareAndSet", NEW d \in Clients, <<gen, r.ver>> \in tokens[d] PROVE FALSE
  <2>1. <<gen, r.ver>>[1] = gen /\ <<gen, r.ver>>[2] = r.ver
    OBVIOUS
  <2>2. r.ver <= o.ver
    BY <1>5, <1>7, <2>1
  <2> QED  BY <1>2, <1>4, <1>7, <2>2
<1> QED  BY <1>3, <1>4, <1>6, <1>7

LEMMA WrittenClaims ==
    ASSUME KvInv, NEW c \in Clients, NEW r, NEW a, Effect(c, r, a), Written(c, r, a),
           job[c].pc \in {"write", "takeover"}, usage = "claims"
    PROVE  \A e \in shown : e > kvNow => kvRow' # NoKvRow /\ kvRow'.exp >= e
<1>1. job[c].op = "putIfFresher"
  BY DEF KvInv, JobOK, OpsOf
<1>2. ASSUME NEW e \in shown, e > kvNow PROVE kvRow # NoKvRow /\ kvRow.exp >= e
  BY <1>2 DEF KvInv, ClaimInv, FreshestClaimsServed
<1>3. /\ kvRow.exp \in Int /\ r.exp \in Int /\ kvNow \in Nat /\ a \in BOOLEAN
      /\ \A e \in shown : e \in Nat
  BY RowFacts DEF Effect, KvRows, KvInv, KvTypeOK
<1>4. kvRow' = r /\ (~a => r = kvRow) /\ (a => r # NoKvRow)
      /\ (a => kvRow = NoKvRow \/ kvRow.exp < kvNow \/ kvRow.exp < r.exp)
  BY <1>1 DEF Effect, Written
<1> QED  BY <1>2, <1>3, <1>4


-----------------------------------------------------------------------------
\* The tokens and the claims after a write, whether or not its caller is told.
LEMMA TokensKeep ==
    ASSUME KvInv, NEW c \in Clients, NEW r, NEW a, Effect(c, r, a), Written(c, r, a),
           job[c].pc \in {"write", "takeover"},
           \/ tokens' = tokens
           \/ tokens' = [tokens EXCEPT ![c] =
                IF usage = "record" /\ a /\ job[c].op = "compareAndSet"
                THEN @ \cup {<<gen, r.ver>>} ELSE @]
    PROVE  TokenInv' /\ tokens' \in [Clients -> SUBSET (Nat \X Nat)]
<1>1. /\ tokens \in [Clients -> SUBSET (Nat \X Nat)] /\ gen \in Nat /\ r.ver \in Nat
      /\ usage' = usage /\ backend' = backend /\ kvRow' = r
  BY DEF KvInv, KvTypeOK, Effect, KvRows, Written
<1>2. CASE tokens' = tokens
  <2>1. CASE usage = "record" /\ backend # "memory"
    BY <1>1, <1>2, <2>1, WrittenTokens DEF KvInv, TokenInv
  <2>2. CASE ~(usage = "record" /\ backend # "memory")
    BY <1>1, <1>2, <2>2 DEF KvInv, TokenInv
  <2> QED  BY <1>1, <1>2, <2>1, <2>2
<1>3. CASE tokens' # tokens
  <2>1. usage = "record" /\ a /\ job[c].op = "compareAndSet"
    BY <1>1, <1>3
  <2>2. tokens' = [tokens EXCEPT ![c] = @ \cup {<<gen, r.ver>>}]
    BY <1>3, <2>1
  <2>3. tokens' \in [Clients -> SUBSET (Nat \X Nat)]
    BY <1>1, <2>2
  <2>4. ASSUME backend # "memory" PROVE TokenInv'
    <3>1. /\ \A d \in Clients : \A k \in tokens[d] : k[1] <= gen' /\ (k[1] = gen' => k[2] <= kvRow'.ver)
          /\ gen' = gen /\ \A d \in Clients : <<gen, r.ver>> \notin tokens[d]
      BY <2>1, <2>4, WrittenTokens
    <3>2. \A d \in Clients : tokens'[d] = IF d = c THEN tokens[d] \cup {<<gen, r.ver>>} ELSE tokens[d]
      BY <1>1, <2>2
    <3>3. ASSUME NEW d \in Clients, NEW l \in tokens'[d]
          PROVE  l[1] <= gen' /\ (l[1] = gen' => l[2] <= kvRow'.ver)
      <4>1. CASE l \in tokens[d]
        BY <3>1, <4>1
      <4>2. CASE l = <<gen, r.ver>>
        <5>1. l[1] = gen /\ l[2] = r.ver
          BY <4>2
        <5> QED  BY <1>1, <3>1, <5>1
      <4> QED  BY <3>2, <3>3, <4>1, <4>2
    <3>4. ASSUME NEW d \in Clients, NEW f \in Clients, d # f PROVE tokens'[d] \cap tokens'[f] = {}
      <4>1. tokens[d] \cap tokens[f] = {}
        BY <2>4, <3>4 DEF KvInv, TokenInv
      <4> QED  BY <3>1, <3>2, <3>4, <4>1
    <3> QED  BY <1>1, <2>1, <3>3, <3>4 DEF TokenInv
  <2>5. ASSUME backend = "memory" PROVE TokenInv'
    BY <1>1, <2>1, <2>5 DEF TokenInv
  <2> QED  BY <2>3, <2>4, <2>5
<1> QED  BY <1>2, <1>3

LEMMA ClaimsKeep ==
    ASSUME KvInv, NEW c \in Clients, NEW r, NEW a, Effect(c, r, a), Written(c, r, a),
           job[c].pc \in {"write", "takeover"},
           \/ shown' = shown
           \/ shown' = IF job[c].op = "putIfFresher" /\ a THEN shown \cup {r.exp} ELSE shown
    PROVE  ClaimInv' /\ shown' \in SUBSET Nat
<1>1. /\ shown \in SUBSET Nat /\ usage' = usage /\ kvNow' = kvNow /\ kvRow' = r /\ r \in KvRows /\ RowOK(r)
      /\ kvNow \in Nat
  BY DEF KvInv, KvTypeOK, Effect, Written
<1>2. job[c].op \in OpsOf(usage) /\ usage \in {"lock", "record", "claims", "plain"}
  BY DEF KvInv, KvTypeOK, JobOK
<1>3. CASE usage = "claims"
  <2>1. job[c].op = "putIfFresher"
    BY <1>2, <1>3 DEF OpsOf
  <2>2. \A e \in shown : e > kvNow => kvRow' # NoKvRow /\ kvRow'.exp >= e
    BY <1>3, WrittenClaims
  <2>3. CASE shown' = shown
    BY <1>1, <1>3, <2>2, <2>3 DEF ClaimInv, FreshestClaimsServed
  <2>4. CASE shown' # shown
    <3>1. a /\ shown' = shown \cup {r.exp}
      BY <2>1, <2>4
    <3>2. r # NoKvRow /\ r.exp \in Nat
      BY <1>1, <2>1, <3>1 DEF Effect, RowOK
    <3>3. ASSUME NEW e \in shown', e > kvNow PROVE kvRow' # NoKvRow /\ kvRow'.exp >= e
      <4>1. CASE e \in shown
        BY <2>2, <3>3, <4>1
      <4>2. CASE e = r.exp
        BY <1>1, <3>2, <4>2
      <4> QED  BY <3>1, <3>3, <4>1, <4>2
    <3>4. shown' \in SUBSET Nat
      BY <1>1, <3>1, <3>2
    <3> QED  BY <1>1, <1>3, <3>3, <3>4 DEF ClaimInv, FreshestClaimsServed
  <2> QED  BY <1>1, <2>3, <2>4
<1>4. CASE usage # "claims"
  <2>1. job[c].op # "putIfFresher"
    BY <1>2, <1>4 DEF OpsOf
  <2>2. shown' = {}
    BY <1>4, <2>1 DEF KvInv, ClaimInv
  <2> QED  BY <1>1, <1>4, <2>2 DEF ClaimInv, FreshestClaimsServed
<1> QED  BY <1>3, <1>4

\* A step of c that writes the row: what is left to show is what it makes of c's own
\* job and lease.
LEMMA WriteKeeps ==
    ASSUME KvInv, NEW c \in Clients, NEW r, NEW a, Effect(c, r, a), Written(c, r, a),
           job[c].pc \in {"write", "takeover"},
           NEW k \in KvJobs, job' = [job EXCEPT ![c] = k], JobOK(c, k),
           NEW h \in KvLeases, held' = [held EXCEPT ![c] = h],
           k.pc # "idle" => h = NoLease, usage # "lock" => h = NoLease,
           usage = "lock" => LeaseOK(c, h)' /\ LockJobOK(c, k)',
           TokenInv' /\ tokens' \in [Clients -> SUBSET (Nat \X Nat)],
           ClaimInv' /\ shown' \in SUBSET Nat,
           UNCHANGED <<sweeps, ops>>
    PROVE  KvInv'
<1>1. /\ usage' = usage /\ backend' = backend /\ kvNow' = kvNow
      /\ job \in [Clients -> KvJobs] /\ held \in [Clients -> KvLeases]
  BY DEF Written, KvInv, KvTypeOK
<1>2. job' \in [Clients -> KvJobs] /\ held' \in [Clients -> KvLeases]
  BY <1>1
<1>3. KvTypeOK' /\ RowOK(kvRow)'
  BY <1>1, <1>2, WrittenRow DEF KvInv, KvTypeOK
<1>4. ASSUME NEW d \in Clients PROVE JobOK(d, job[d])'
  <2>1. JobOK(d, job[d])
    BY DEF KvInv
  <2>2. CASE d = c
    BY <1>1, <2>2 DEF JobOK
  <2>3. CASE d # c
    BY <1>1, <2>1, <2>3 DEF JobOK
  <2> QED  BY <2>2, <2>3
<1>5. ASSUME usage = "lock", NEW d \in Clients PROVE LeaseOK(d, held[d])' /\ LockJobOK(d, job[d])'
  <2>1. PICK hd \in KvLeases, jd \in KvJobs : hd = held[d] /\ jd = job[d]
    BY <1>1
  <2>2. LeaseOK(d, hd)' /\ LockJobOK(d, jd)'
    BY <1>5, <2>1, WrittenLeases
  <2>3. CASE d = c
    <3>1. held'[d] = h /\ job'[d] = k
      BY <1>1, <2>3
    <3> QED  BY <1>5, <2>3, <3>1 DEF LeaseOK, LockJobOK
  <2>4. CASE d # c
    <3>1. held'[d] = hd /\ job'[d] = jd
      BY <1>1, <2>1, <2>4
    <3> QED  BY <2>2, <3>1 DEF LeaseOK, LockJobOK
  <2> QED  BY <2>3, <2>4
<1>6. ASSUME usage # "lock", NEW d \in Clients PROVE held'[d] = NoLease
  BY <1>1, <1>6 DEF KvInv, LockInv
<1>7. LockInv'
  BY <1>1, <1>5, <1>6 DEF LockInv
<1> QED  BY <1>3, <1>4, <1>7 DEF KvInv

\* A caller that is answered.
LEMMA SettleKeeps ==
    ASSUME KvInv, NEW c \in Clients, NEW r, NEW a, Effect(c, r, a), Written(c, r, a),
           job[c].pc \in {"write", "takeover"}, Settle(c, r, a), UNCHANGED <<sweeps, ops>>
    PROVE  KvInv'
<1>1. PICK k \in KvJobs : k = Idle
  BY IdleIsAJob
<1>2. k.pc = "idle" /\ job' = [job EXCEPT ![c] = k]
  BY <1>1 DEF Settle, Idle
<1>3. JobOK(c, k) /\ LockJobOK(c, k)'
  BY <1>2 DEF JobOK, LockJobOK
<1>4. TokenInv' /\ tokens' \in [Clients -> SUBSET (Nat \X Nat)]
  BY TokensKeep DEF Settle
<1>5. ClaimInv' /\ shown' \in SUBSET Nat
  BY ClaimsKeep DEF Settle
<1>6. /\ job[c].op \in OpsOf(usage) /\ held[c] = NoLease /\ held[c] \in KvLeases
      /\ usage \in {"lock", "record", "claims", "plain"}
      /\ a \in BOOLEAN /\ held \in [Clients -> KvLeases]
  BY DEF KvInv, KvTypeOK, JobOK, Effect
<1>7. CASE job[c].op = "putIfAbsent" /\ a
  <2>1. PICK h : h = [ver |-> r.ver, until |-> r.exp, gen |-> gen]
    OBVIOUS
  <2>2. h \in KvLeases /\ LeaseOK(c, h)'
    <3>1. Effect(c, r, TRUE) /\ Written(c, r, TRUE)
      BY <1>6, <1>7
    <3> QED  BY <1>7, <2>1, <3>1, GrantedLease
  <2>3. held' = [held EXCEPT ![c] = h]
    BY <1>7, <2>1 DEF Settle
  <2>4. usage = "lock"
    BY <1>6, <1>7 DEF OpsOf
  <2> QED  BY <1>2, <1>3, <1>4, <1>5, <2>2, <2>3, <2>4, WriteKeeps
<1>8. CASE ~(job[c].op = "putIfAbsent" /\ a)
  <2>1. PICK h \in KvLeases : h = NoLease
    BY <1>6
  <2>2. held' = [held EXCEPT ![c] = h]
    BY <1>6, <1>8, <2>1 DEF Settle
  <2>3. LeaseOK(c, h)'
    BY <2>1 DEF LeaseOK
  <2> QED  BY <1>2, <1>3, <1>4, <1>5, <2>1, <2>2, <2>3, WriteKeeps
<1> QED  BY <1>7, <1>8

\* A caller that is not, or not yet: it goes on with the job k.
LEMMA UntoldKeeps ==
    ASSUME KvInv, NEW c \in Clients, NEW r, NEW a, Effect(c, r, a), Written(c, r, a),
           job[c].pc \in {"write", "takeover"},
           NEW k \in KvJobs, job' = [job EXCEPT ![c] = k], JobOK(c, k),
           usage = "lock" => LockJobOK(c, k)',
           UNCHANGED <<held, tokens, shown, sweeps, ops>>
    PROVE  KvInv'
<1>1. TokenInv' /\ tokens' \in [Clients -> SUBSET (Nat \X Nat)]
  BY TokensKeep
<1>2. ClaimInv' /\ shown' \in SUBSET Nat
  BY ClaimsKeep
<1>3. held[c] = NoLease /\ held \in [Clients -> KvLeases]
  BY DEF KvInv, KvTypeOK, JobOK
<1>4. PICK h \in KvLeases : h = NoLease
  BY <1>3
<1>5. held' = [held EXCEPT ![c] = h] /\ LeaseOK(c, h)'
  BY <1>3, <1>4 DEF LeaseOK
<1> QED  BY <1>1, <1>2, <1>4, <1>5, WriteKeeps


-----------------------------------------------------------------------------
\* Steps that leave the row alone.
LEMMA JobStepKeeps ==
    ASSUME KvInv, NEW c \in Clients,
           NEW k \in KvJobs, job' = [job EXCEPT ![c] = k],
           NEW h \in KvLeases, held' = [held EXCEPT ![c] = h],
           k.pc # "idle" => JobOK(c, k)' /\ h = NoLease,
           usage # "lock" => h = NoLease,
           usage = "lock" => LeaseOK(c, h) /\ LockJobOK(c, k),
           ops' \in Nat,
           UNCHANGED <<backend, usage, kvNow, kvRow, gen, sweeps, tokens, shown, crossed>>
    PROVE  KvInv'
<1>1. job \in [Clients -> KvJobs] /\ held \in [Clients -> KvLeases]
  BY DEF KvInv, KvTypeOK
<1>2. KvTypeOK' /\ RowOK(kvRow)'
  BY <1>1 DEF KvInv, KvTypeOK, RowOK
<1>3. ASSUME NEW d \in Clients PROVE JobOK(d, job[d])'
  <2>1. JobOK(d, job[d])
    BY DEF KvInv
  <2>2. CASE d = c
    BY <1>1, <2>2 DEF JobOK
  <2>3. CASE d # c
    BY <1>1, <2>1, <2>3 DEF JobOK
  <2> QED  BY <2>2, <2>3
<1>4. LockInv'
  BY <1>1 DEF KvInv, LockInv, LeaseOK, LockJobOK
<1>5. TokenInv' /\ ClaimInv'
  BY DEF KvInv, TokenInv, ClaimInv, FreshestClaimsServed
<1> QED  BY <1>2, <1>3, <1>4, <1>5 DEF KvInv

LEMMA RunStatementKeeps ==
    ASSUME KvInv, NEW c \in Clients, RunStatement(c) PROVE KvInv'
<1>1. PICK out : out = Statement(kvRow, job[c], c)
  OBVIOUS
<1>2. PICK r, a : r = out.row /\ a = out.applied
  OBVIOUS
<1>3. Effect(c, out.row, out.applied)
  BY <1>1, StatementEffect DEF RunStatement
<1>4. Store(c, out) /\ Settle(c, out.row, out.applied)
  BY <1>1 DEF RunStatement
<1>5. Written(c, r, a)
  BY <1>2, <1>4 DEF RunStatement, Store, Written
<1>6. Settle(c, r, a)
  BY <1>2, <1>4
<1> QED  BY <1>2, <1>3, <1>5, <1>6, SettleKeeps DEF RunStatement

LEMMA StatementLostKeeps ==
    ASSUME KvInv, NEW c \in Clients, StatementLost(c) PROVE KvInv'
<1>1. PICK out : out = Statement(kvRow, job[c], c)
  OBVIOUS
<1>2. PICK r, a : r = out.row /\ a = out.applied
  OBVIOUS
<1>3. Effect(c, r, a)
  BY <1>1, <1>2, StatementEffect DEF StatementLost
<1>4. Written(c, r, a)
  BY <1>1, <1>2 DEF StatementLost, Store, Written
<1>5. PICK k \in KvJobs : k = Idle
  BY IdleIsAJob
<1>6. k.pc = "idle" /\ job' = [job EXCEPT ![c] = k]
  BY <1>5 DEF StatementLost, Idle
<1>7. JobOK(c, k) /\ LockJobOK(c, k)'
  BY <1>6 DEF JobOK, LockJobOK
<1> QED  BY <1>3, <1>4, <1>6, <1>7, UntoldKeeps DEF StatementLost

LEMMA RequestKeeps ==
    ASSUME KvInv, NEW c \in Clients, Request(c) PROVE KvInv'
<1>1. PICK out : out = DynamoRequest(kvRow, job[c], c)
  OBVIOUS
<1>2. PICK r, a : r = out.row /\ a = out.applied
  OBVIOUS
<1>3. Effect(c, r, a)
  BY <1>1, <1>2, DynamoEffect DEF Request
<1>4. Written(c, r, a)
  BY <1>1, <1>2 DEF Request, Store, Written
<1>5. CASE a \/ job[c].op = "delete"
  <2>1. Settle(c, r, a)
    BY <1>1, <1>2, <1>5 DEF Request
  <2> QED  BY <1>3, <1>4, <2>1, SettleKeeps DEF Request
<1>6. CASE ~(a \/ job[c].op = "delete")
  <2>1. PICK j \in KvJobs : j = job[c]
    BY DEF KvInv, KvTypeOK
  <2>2. PICK p \in {"classify", "winner"} :
          p = IF j.op = "putIfAbsent" /\ j.pc = "write" THEN "classify" ELSE "winner"
    OBVIOUS
  <2>3. PICK k \in KvJobs : k = [j EXCEPT !.att = 0, !.pc = p]
    BY <2>1 DEF KvJobs
  <2>4. k.pc = p /\ k.op = j.op /\ k.exp = j.exp
    BY <2>1, <2>3 DEF KvJobs
  <2>5. /\ job' = [job EXCEPT ![c] = k]
        /\ UNCHANGED <<held, tokens, shown, sweeps, ops>>
    BY <1>1, <1>2, <1>6, <2>1, <2>2, <2>3 DEF Request
  <2>6. JobOK(c, j) /\ j.pc \in {"write", "takeover"} /\ j.op \in OpsOf(usage)
    BY <2>1 DEF KvInv, JobOK, Request
  <2>7. j.op = "putIfAbsent" => usage = "lock"
    BY <2>6 DEF KvInv, KvTypeOK, OpsOf
  <2>8. JobOK(c, k)
    BY <2>2, <2>4, <2>6, <2>7 DEF JobOK
  <2>9. LockJobOK(c, k)'
    BY <2>4 DEF LockJobOK
  <2> QED  BY <1>3, <1>4, <2>5, <2>8, <2>9, UntoldKeeps DEF Request
<1> QED  BY <1>5, <1>6

LEMMA RequestLostKeeps ==
    ASSUME KvInv, NEW c \in Clients, RequestLost(c) PROVE KvInv'
<1>1. PICK out : out = DynamoRequest(kvRow, job[c], c)
  OBVIOUS
<1>2. PICK r, a : Effect(c, r, a) /\ Written(c, r, a)
  <2>1. CASE Store(c, out)
    <3>1. Effect(c, out.row, out.applied)
      BY <1>1, DynamoEffect DEF RequestLost
    <3>2. Written(c, out.row, out.applied)
      BY <2>1 DEF RequestLost, Store, Written
    <3> QED  BY <3>1, <3>2
  <2>2. CASE UNCHANGED <<kvRow, gen, crossed>>
    <3>1. Effect(c, kvRow, FALSE)
      BY DEF Effect, KvInv, KvTypeOK
    <3>2. Written(c, kvRow, FALSE)
      BY <2>2 DEF RequestLost, Written, KvInv, KvTypeOK
    <3> QED  BY <3>1, <3>2
  <2> QED  BY <1>1, <2>1, <2>2 DEF RequestLost
<1>3. PICK j \in KvJobs : j = job[c]
  BY DEF KvInv, KvTypeOK
<1>4. JobOK(c, j) /\ j.pc \in {"write", "takeover"} /\ j.att \in Nat
  BY <1>3 DEF KvInv, RequestLost, KvJobs
<1>5. CASE j.att < KvRetries
  <2>1. PICK n \in Nat : n = j.att + 1
    BY <1>4
  <2>2. PICK k \in KvJobs : k = [j EXCEPT !.att = n]
    BY DEF KvJobs
  <2>3. k.pc = j.pc /\ k.op = j.op /\ k.exp = j.exp /\ k.ver = j.ver /\ k.gen = j.gen
    BY <2>2 DEF KvJobs
  <2>4. job' = [job EXCEPT ![c] = k]
    BY <1>3, <1>5, <2>1, <2>2 DEF RequestLost
  <2>5. JobOK(c, k)
    BY <1>4, <2>3 DEF JobOK
  <2>6. ASSUME usage = "lock" PROVE LockJobOK(c, k)'
    <3>1. LockJobOK(c, j)'
      BY <1>2, <1>3, <1>4, <2>6, WrittenLeases
    <3> QED  BY <2>3, <3>1 DEF LockJobOK
  <2> QED  BY <1>2, <1>3, <1>4, <2>4, <2>5, <2>6, UntoldKeeps DEF RequestLost
<1>6. CASE ~(j.att < KvRetries)
  <2>1. PICK k \in KvJobs : k = Idle
    BY IdleIsAJob
  <2>2. k.pc = "idle" /\ job' = [job EXCEPT ![c] = k]
    BY <1>3, <1>6, <2>1 DEF RequestLost, Idle
  <2>3. JobOK(c, k) /\ LockJobOK(c, k)'
    BY <2>2 DEF JobOK, LockJobOK
  <2> QED  BY <1>2, <2>2, <2>3, UntoldKeeps DEF RequestLost
<1> QED  BY <1>5, <1>6


\* A caller starts: it holds nothing from then on, and what it releases was its own.
LEMMA BeginKeeps ==
    ASSUME KvInv, NEW c \in Clients, Begin(c) PROVE KvInv'
<1>1. PICK j \in Calls(c) :
        /\ job' = [job EXCEPT ![c] =
                  IF j.op = "put" /\ backend = "dynamo" THEN [j EXCEPT !.pc = "version"]
                  ELSE [j EXCEPT !.pc = "write", !.exp = Expiry(j)]]
        /\ held' = IF j.op = "delete" THEN [held EXCEPT ![c] = NoLease] ELSE held
  BY DEF Begin
<1>2. PICK l \in KvLeases : l = held[c]
  BY DEF KvInv, KvTypeOK
<1>3. /\ kvRow.ver \in Nat /\ gen \in Nat /\ kvNow \in Nat /\ ResolveExpiry \in Nat /\ KvTtl \in Nat
      /\ usage \in {"lock", "record", "claims", "plain"} /\ l.ver \in Nat /\ l.gen \in Nat
      /\ ops \in Nat /\ held \in [Clients -> KvLeases]
  BY <1>2, RowFacts, KvAssumption DEF KvInv, KvTypeOK, KvLeases
<1>4. /\ j \in KvJobs /\ j.op \in OpsOf(usage)
      /\ j.op = "putIfFresher" => j.exp \in Nat
      /\ usage = "lock" /\ j.op = "putIfAbsent" => l = NoLease
      /\ usage = "lock" /\ j.op = "delete" => l # NoLease /\ j.ver = l.ver /\ j.gen = l.gen
  <2>1. CASE usage = "lock"
    <3>1. CASE l = NoLease
      <4>1. j = [Idle EXCEPT !.op = "putIfAbsent"]
        BY <1>1, <1>2, <2>1, <3>1 DEF Calls
      <4> QED  BY <2>1, <3>1, <4>1, IdleIsAJob DEF KvJobs, OpsOf
    <3>2. CASE l # NoLease
      <4>1. j = [Idle EXCEPT !.op = "delete", !.ver = l.ver, !.gen = l.gen]
        BY <1>1, <1>2, <2>1, <3>2 DEF Calls
      <4> QED  BY <1>3, <2>1, <3>2, <4>1, IdleIsAJob DEF KvJobs, OpsOf
    <3> QED  BY <3>1, <3>2
  <2>2. CASE usage = "record"
    <3>1. PICK o \in {"compareAndSet", "increment", "delete"} :
            j = [Idle EXCEPT !.op = o, !.ver = kvRow.ver, !.gen = gen]
      BY <1>1, <2>2 DEF Calls
    <3> QED  BY <1>3, <2>2, <3>1, IdleIsAJob DEF KvJobs, OpsOf
  <2>3. CASE usage = "claims"
    <3>1. PICK e \in kvNow .. kvNow + KvTtl : j = [Idle EXCEPT !.op = "putIfFresher", !.exp = e]
      BY <1>1, <2>3 DEF Calls
    <3>2. e \in Nat /\ e \in Int
      BY <1>3
    <3> QED  BY <2>3, <3>1, <3>2, IdleIsAJob DEF KvJobs, OpsOf
  <2>4. CASE usage = "plain"
    <3>1. j = [Idle EXCEPT !.op = "put"]
      BY <1>1, <2>4 DEF Calls
    <3> QED  BY <2>4, <3>1, IdleIsAJob DEF KvJobs, OpsOf
  <2> QED  BY <1>3, <2>1, <2>2, <2>3, <2>4
<1>5. PICK p \in {"version", "write"} :
        p = IF j.op = "put" /\ backend = "dynamo" THEN "version" ELSE "write"
  OBVIOUS
<1>6. PICK e \in Int : /\ e = IF p = "version" THEN j.exp ELSE Expiry(j)
                       /\ p # "version" => e \in Nat
  BY <1>3, <1>4 DEF KvJobs, Expiry
<1>7. PICK k \in KvJobs : k = [j EXCEPT !.pc = p, !.exp = e]
  BY <1>4 DEF KvJobs
<1>8. k.pc = p /\ k.exp = e /\ k.op = j.op /\ k.ver = j.ver /\ k.gen = j.gen
  BY <1>4, <1>7 DEF KvJobs
<1>9. job' = [job EXCEPT ![c] = k]
  <2>1. j.op = "put" /\ backend = "dynamo" => k = [j EXCEPT !.pc = "version"]
    BY <1>4, <1>5, <1>6, <1>7 DEF KvJobs
  <2>2. ~(j.op = "put" /\ backend = "dynamo") => k = [j EXCEPT !.pc = "write", !.exp = Expiry(j)]
    BY <1>4, <1>5, <1>6, <1>7 DEF KvJobs
  <2> QED  BY <1>1, <2>1, <2>2
<1>10. PICK h \in KvLeases : h = NoLease
  BY NoLeaseIsALease
<1>11. held' = [held EXCEPT ![c] = h] /\ held'[c] = NoLease
  <2>1. usage # "lock" => l = NoLease
    BY <1>2 DEF KvInv, LockInv
  <2>2. j.op # "delete" => l = NoLease
    BY <1>3, <1>4, <2>1 DEF OpsOf
  <2> QED  BY <1>1, <1>2, <1>3, <1>10, <2>2
<1>12. JobOK(c, k)'
  <2>1. p = "version" => usage = "plain"
    BY <1>3, <1>4, <1>5 DEF OpsOf
  <2> QED  BY <1>4, <1>5, <1>6, <1>8, <1>11, <2>1 DEF JobOK, Begin
<1>13. ASSUME usage = "lock" PROVE LeaseOK(c, h) /\ LockJobOK(c, k)
  <2>1. LeaseOK(c, l)
    BY <1>2, <1>13 DEF KvInv, LockInv
  <2> QED  BY <1>4, <1>5, <1>8, <1>10, <1>13, <2>1 DEF LeaseOK, LockJobOK
<1>14. ops' \in Nat
  BY <1>3 DEF Begin
<1> QED  BY <1>9, <1>10, <1>11, <1>12, <1>13, <1>14, JobStepKeeps DEF Begin

LEMMA ReadingKeeps ==
    ASSUME KvInv, NEW c \in Clients, ReadVersion(c) \/ Classify(c) \/ Winner(c) PROVE KvInv'
<1>1. PICK j \in KvJobs : j = job[c]
  BY DEF KvInv, KvTypeOK
<1>2. PICK o \in KvRows : o = kvRow
  BY DEF KvInv, KvTypeOK
<1>3. /\ o.ver \in Nat /\ gen \in Nat /\ kvNow \in Nat /\ ResolveExpiry \in Nat /\ o.exp \in Int
      /\ o # NoKvRow => o.ver > 0 /\ o.exp \in Nat
  BY <1>2, RowFacts
<1>4. /\ j.pc # "idle" /\ JobOK(c, j)
      /\ UNCHANGED <<backend, usage, kvNow, kvRow, gen, sweeps, ops, held, tokens, shown, crossed>>
      /\ ops \in Nat /\ held \in [Clients -> KvLeases]
  BY <1>1 DEF KvInv, KvTypeOK, ReadVersion, Classify, Winner
<1>5. held[c] = NoLease
  BY <1>4 DEF JobOK
<1>6. PICK h \in KvLeases : h = NoLease
  BY <1>4, <1>5
<1>7. held' = [held EXCEPT ![c] = h] /\ LeaseOK(c, h)
  BY <1>4, <1>5, <1>6 DEF LeaseOK
<1>8. ASSUME NEW k \in KvJobs, job' = [job EXCEPT ![c] = k], k.pc # "idle" => JobOK(c, k),
             usage = "lock" => LockJobOK(c, k)
      PROVE  KvInv'
  <2>1. k.pc # "idle" => JobOK(c, k)'
    BY <1>4, <1>8 DEF JobOK
  <2> QED  BY <1>4, <1>6, <1>7, <1>8, <2>1, JobStepKeeps
<1>9. ASSUME job' = [job EXCEPT ![c] = Idle] PROVE KvInv'
  <2>1. PICK k \in KvJobs : k = Idle
    BY IdleIsAJob
  <2>2. k.pc = "idle" /\ LockJobOK(c, k)
    BY <2>1 DEF Idle, LockJobOK
  <2> QED  BY <1>8, <1>9, <2>1, <2>2
<1>10. CASE ReadVersion(c)
  <2>1. PICK found \in {o.ver, IF o.ver = 0 THEN 0 ELSE o.ver - 1} :
          job' = [job EXCEPT ![c] = [j EXCEPT !.ver = found, !.exp = ResolveExpiry, !.pc = "write"]]
    BY <1>1, <1>2, <1>10 DEF ReadVersion
  <2>2. found \in Nat /\ ResolveExpiry \in Int
    BY <1>3
  <2>3. PICK k \in KvJobs : k = [j EXCEPT !.ver = found, !.exp = ResolveExpiry, !.pc = "write"]
    BY <2>2 DEF KvJobs
  <2>4. k.pc = "write" /\ k.op = j.op /\ k.exp \in Nat
    BY <1>3, <2>3 DEF KvJobs
  <2>5. j.pc = "version"
    BY <1>1, <1>10 DEF ReadVersion
  <2>6. JobOK(c, k) /\ usage = "plain"
    BY <1>4, <2>4, <2>5 DEF JobOK
  <2> QED  BY <1>8, <2>1, <2>3, <2>6
<1>11. CASE Classify(c)
  <2>1. j.pc = "classify" /\ j.op = "putIfAbsent" /\ usage = "lock"
    BY <1>1, <1>4, <1>11 DEF Classify, JobOK
  <2>2. CASE o = NoKvRow
    <3>1. job' = [job EXCEPT ![c] = [j EXCEPT !.pc = "write", !.exp = ResolveExpiry]]
      BY <1>1, <1>2, <1>11, <2>2 DEF Classify
    <3>2. PICK k \in KvJobs : k = [j EXCEPT !.pc = "write", !.exp = ResolveExpiry]
      <4>1. ResolveExpiry \in Int
        BY <1>3
      <4> QED  BY <4>1 DEF KvJobs
    <3>3. k.pc = "write" /\ k.op = j.op /\ k.exp = ResolveExpiry
      BY <3>2 DEF KvJobs
    <3>4. JobOK(c, k) /\ LockJobOK(c, k)
      BY <1>3, <1>4, <2>1, <3>3 DEF JobOK, LockJobOK
    <3> QED  BY <1>8, <3>1, <3>2, <3>4
  <2>3. CASE o # NoKvRow /\ DynamoLive(o)
    BY <1>2, <1>9, <1>11, <2>3 DEF Classify
  <2>4. CASE o # NoKvRow /\ ~DynamoLive(o)
    <3>1. job' = [job EXCEPT ![c] = [j EXCEPT !.pc = "takeover", !.ver = o.ver, !.gen = gen]]
      BY <1>1, <1>2, <1>11, <2>4 DEF Classify
    <3>2. PICK k \in KvJobs : k = [j EXCEPT !.pc = "takeover", !.ver = o.ver, !.gen = gen]
      BY <1>3 DEF KvJobs
    <3>3. k.pc = "takeover" /\ k.op = j.op /\ k.exp = j.exp /\ k.ver = o.ver /\ k.gen = gen
      BY <1>3, <3>2 DEF KvJobs
    <3>4. o.exp < kvNow
      BY <1>3, <2>4 DEF DynamoLive, NoExp
    <3>5. JobOK(c, k) /\ LockJobOK(c, k)
      BY <1>2, <1>3, <1>4, <2>1, <2>4, <3>3, <3>4 DEF JobOK, LockJobOK
    <3> QED  BY <1>8, <3>1, <3>2, <3>5
  <2> QED  BY <2>2, <2>3, <2>4
<1>12. CASE Winner(c)
  BY <1>9, <1>12 DEF Winner
<1> QED  BY <1>10, <1>11, <1>12

\* The sweep and the clock: only an expired row goes, so no live lease and no live claim.
LEMMA SweepKeeps == ASSUME KvInv, SweepExpired PROVE KvInv'
<1> USE DEF SweepExpired
<1>1. /\ kvRow.exp \in Int /\ kvRow.exp < kvNow /\ kvNow \in Nat /\ gen \in Nat /\ gen' = gen + 1
      /\ kvRow' = NoKvRow /\ NoKvRow \in KvRows /\ RowOK(NoKvRow)
  BY RowFacts
<1>2. KvTypeOK' /\ RowOK(kvRow)'
  BY <1>1 DEF KvInv, KvTypeOK, RowOK
<1>3. \A c \in Clients : JobOK(c, job[c])'
  BY DEF KvInv, JobOK
<1>4. ASSUME usage = "lock", NEW c \in Clients PROVE LeaseOK(c, held[c])' /\ LockJobOK(c, job[c])'
  <2>1. PICK h \in KvLeases, j \in KvJobs : h = held[c] /\ j = job[c]
    BY DEF KvInv, KvTypeOK
  <2>2. LeaseOK(c, h) /\ LockJobOK(c, j) /\ h.gen \in Nat /\ h.until \in Int /\ j.gen \in Nat
    BY <1>4, <2>1 DEF KvInv, LockInv, KvLeases, KvJobs
  <2>3. LeaseOK(c, h)'
    BY <1>1, <2>2 DEF LeaseOK
  <2>4. LockJobOK(c, j)'
    BY <1>1, <2>2 DEF LockJobOK
  <2> QED  BY <2>1, <2>3, <2>4 DEF LeaseOK, LockJobOK
<1>5. LockInv'
  BY <1>4 DEF KvInv, LockInv
<1>6. TokenInv'
  <2>1. ASSUME backend # "memory", NEW c \in Clients, NEW k \in tokens[c] PROVE k[1] \in Nat /\ k[1] <= gen
    BY <2>1 DEF KvInv, KvTypeOK, TokenInv
  <2>2. ASSUME backend # "memory", NEW c \in Clients, NEW k \in tokens[c] PROVE k[1] <= gen' /\ k[1] # gen'
    BY <1>1, <2>1, <2>2
  <2> QED  BY <2>2 DEF KvInv, TokenInv
<1>7. ClaimInv'
  BY <1>1 DEF KvInv, KvTypeOK, ClaimInv, FreshestClaimsServed
<1> QED  BY <1>2, <1>3, <1>5, <1>6, <1>7 DEF KvInv

LEMMA KvTickKeeps == ASSUME KvInv, KvTick PROVE KvInv'
<1> USE DEF KvTick
<1>1. kvNow \in Nat /\ kvNow' = kvNow + 1 /\ kvRow.exp \in Int
  BY RowFacts
<1>2. KvTypeOK' /\ RowOK(kvRow)'
  BY <1>1 DEF KvInv, KvTypeOK, RowOK
<1>3. \A c \in Clients : JobOK(c, job[c])'
  BY DEF KvInv, JobOK
<1>4. ASSUME usage = "lock", NEW c \in Clients PROVE LeaseOK(c, held[c])' /\ LockJobOK(c, job[c])'
  <2>1. PICK h \in KvLeases, j \in KvJobs : h = held[c] /\ j = job[c]
    BY DEF KvInv, KvTypeOK
  <2>2. LeaseOK(c, h) /\ LockJobOK(c, j) /\ h.until \in Int
    BY <1>4, <2>1 DEF KvInv, LockInv, KvLeases
  <2>3. LeaseOK(c, h)'
    BY <1>1, <2>2 DEF LeaseOK
  <2>4. LockJobOK(c, j)'
    BY <1>1, <2>2 DEF LockJobOK
  <2> QED  BY <2>1, <2>3, <2>4 DEF LeaseOK, LockJobOK
<1>5. LockInv'
  BY <1>4 DEF KvInv, LockInv
<1>6. TokenInv'
  BY DEF KvInv, TokenInv
<1>7. ClaimInv'
  BY <1>1 DEF KvInv, KvTypeOK, ClaimInv, FreshestClaimsServed
<1> QED  BY <1>2, <1>3, <1>5, <1>6, <1>7 DEF KvInv

LEMMA KvInvStep == KvInv /\ [KvNext]_kvVars => KvInv'
<1> SUFFICES ASSUME KvInv, [KvNext]_kvVars PROVE KvInv'
  OBVIOUS
<1>1. CASE UNCHANGED kvVars
  BY <1>1 DEF kvVars, KvInv, KvTypeOK, RowOK, JobOK, LockInv, LeaseOK, LockJobOK, TokenInv,
     ClaimInv, FreshestClaimsServed
<1>2. ASSUME NEW c \in Clients, KvStep(c) PROVE KvInv'
  BY <1>2, BeginKeeps, RunStatementKeeps, StatementLostKeeps, ReadingKeeps, RequestKeeps,
     RequestLostKeeps DEF KvStep
<1>3. CASE SweepExpired
  BY <1>3, SweepKeeps
<1>4. CASE KvTick
  BY <1>4, KvTickKeeps
<1> QED  BY <1>1, <1>2, <1>3, <1>4 DEF KvNext

\* The state of the key, of the calls in flight and of what callers were told keeps
\* its type.
THEOREM KvTypeCorrect == KvSpec => []KvTypeOK
<1>1. KvInv => KvTypeOK
  BY DEF KvInv
<1> QED  BY <1>1, KvInvInit, KvInvStep, PTL DEF KvSpec

\* In each of the three adapters, for any number of callers, lifetimes, lost answers,
\* repeats and sweeps: leases are exclusive until a request is applied under the version
\* of a removed row, compareAndSet gives no version out twice, and a claims write that
\* was acknowledged is not lost to an older one.
THEOREM KvKeepsContract == KvSpec => []KvContract
<1>1. KvInv => KvContract
  <2> SUFFICES ASSUME KvInv PROVE KvContract
    OBVIOUS
  <2>1. LeaseExclusive
    <3> SUFFICES ASSUME ~crossed, NEW c \in Clients, held[c] # NoLease, held[c].until >= kvNow
                 PROVE  kvRow.own = c /\ kvRow.ver = held[c].ver
      BY DEF LeaseExclusive, LeaseIsMine
    <3> QED  BY DEF KvInv, LockInv, LeaseOK
  <2>2. TokensUnique /\ FreshestClaimsServed
    BY DEF KvInv, TokenInv, ClaimInv, TokensUnique
  <2> QED  BY <2>1, <2>2 DEF KvContract
<1> QED  BY <1>1, KvInvInit, KvInvStep, PTL DEF KvSpec

------------------------------------------------------------------------------

(* The secret cache.  Every buffer that was made is in exactly one place: in   *)
(* the cache, on its way to it, or zeroed; and the Map has each cached key     *)
(* once.  That there are as many buffers in the cache as keys in the Map       *)
(* follows from the bijection between the two.                                 *)

KeysIn(keys) == {keys[i] : i \in 1 .. Len(keys)}

NoneTwice(keys) == \A i, j \in 1 .. Len(keys) : keys[i] = keys[j] => i = j

CallStates == {"new", "hit", "asking", "answered", "resolved",
               "SecretsNotFound", "SecretsAccessDenied", "SecretsTransient", "SecretsResolve",
               "ParameterNotFound", "ParameterAccessDenied"}

SecretCalls == [state : CallStates, ref : Refs \cup {"none"}, tries : Nat, buffer : Nat]

SecretTypeOK ==
    /\ secretNow \in Nat /\ made \in Nat
    /\ lru \in Seq(Refs)
    /\ slot \in [Refs -> [buffer : Nat, expires : Nat]]
    /\ zeroed \in SUBSET (1 .. made)
    /\ pending \in [Resolvers -> SecretCalls]

MapInv ==
    /\ NoneTwice(lru) /\ Len(lru) <= MaxEntries
    /\ \A r \in Refs : Cached(r) <=> r \in KeysIn(lru)

Answered(c) == pending[c].state = "answered"

CallInv == \A c \in Resolvers : pending[c].state \in {"asking", "answered"} => pending[c].ref \in Refs

\* A buffer is in one place only, and in some place.
OwnedInv ==
    /\ \A r \in Refs : Cached(r) => slot[r].buffer \in (1 .. made) \ zeroed
    /\ \A r, q \in Refs : Cached(r) /\ Cached(q) /\ slot[r].buffer = slot[q].buffer => r = q

GivenInv ==
    /\ \A c \in Resolvers : Answered(c) => pending[c].buffer \in (1 .. made) \ zeroed
    /\ \A c, d \in Resolvers :
         Answered(c) /\ Answered(d) /\ pending[c].buffer = pending[d].buffer => c = d
    /\ \A c \in Resolvers, r \in Refs :
         Answered(c) /\ Cached(r) => pending[c].buffer # slot[r].buffer

PlaceInv ==
    \A b \in 1 .. made :
      \/ b \in zeroed
      \/ \E r \in Refs : Cached(r) /\ slot[r].buffer = b
      \/ \E c \in Resolvers : Answered(c) /\ pending[c].buffer = b

SecretInv == SecretTypeOK /\ MapInv /\ CallInv /\ OwnedInv /\ GivenInv /\ PlaceInv

-----------------------------------------------------------------------------
\* What deleting a key from the Map, and setting it again, makes of its keys.
LEMMA WithoutKeys ==
    ASSUME NEW keys \in Seq(Refs), NoneTwice(keys), NEW r, NEW w, w = Without(keys, r)
    PROVE  /\ w \in Seq(Refs) /\ NoneTwice(w)
           /\ KeysIn(w) = KeysIn(keys) \ {r}
           /\ Len(w) = IF r \in KeysIn(keys) THEN Len(keys) - 1 ELSE Len(keys)
<1>1. Len(keys) \in Nat /\ \A i \in 1 .. Len(keys) : keys[i] \in Refs
  OBVIOUS
<1>2. CASE \A i \in 1 .. Len(keys) : keys[i] # r
  <2>1. w = keys
    BY <1>2 DEF Without
  <2>2. r \notin KeysIn(keys)
    BY <1>2 DEF KeysIn
  <2> QED  BY <2>1, <2>2
<1>3. CASE \E i \in 1 .. Len(keys) : keys[i] = r
  <2>1. PICK pos \in 1 .. Len(keys) : keys[pos] = r /\ pos = CHOOSE i \in 1 .. Len(keys) : keys[i] = r
    BY <1>3
  <2>2. PICK n \in Nat : n = Len(keys) - 1
    BY <1>1, <2>1
  <2>3. w = [i \in 1 .. n |-> IF i < pos THEN keys[i] ELSE keys[i + 1]]
    BY <1>3, <2>1, <2>2 DEF Without
  <2>4. \A i \in 1 .. n : w[i] = IF i < pos THEN keys[i] ELSE keys[i + 1]
    BY <2>3
  <2>5. \A i \in 1 .. n : i + 1 \in 1 .. Len(keys) /\ i \in 1 .. Len(keys)
    BY <1>1, <2>2
  <2>6. w \in [1 .. n -> Refs]
    BY <1>1, <2>3, <2>5
  <2>7. w \in Seq(Refs) /\ Len(w) = n
    BY <2>2, <2>6
  <2>8. NoneTwice(w)
    <3> SUFFICES ASSUME NEW i \in 1 .. n, NEW j \in 1 .. n, w[i] = w[j] PROVE i = j
      BY <2>7 DEF NoneTwice
    <3> DEFINE p == IF i < pos THEN i ELSE i + 1
               q == IF j < pos THEN j ELSE j + 1
    <3>1. p \in 1 .. Len(keys) /\ q \in 1 .. Len(keys)
      BY <2>5
    <3>2. keys[p] = keys[q]
      BY <2>4
    <3>3. p = q
      BY <3>1, <3>2 DEF NoneTwice
    <3>4. i \in Int /\ j \in Int /\ pos \in Int
      BY <1>1, <2>2
    <3> QED  BY <3>3, <3>4
  <2>9. \A i \in 1 .. n : w[i] # r /\ w[i] \in KeysIn(keys)
    <3> SUFFICES ASSUME NEW i \in 1 .. n PROVE w[i] # r /\ w[i] \in KeysIn(keys)
      OBVIOUS
    <3> DEFINE p == IF i < pos THEN i ELSE i + 1
    <3>1. p \in 1 .. Len(keys) /\ w[i] = keys[p]
      BY <2>4, <2>5
    <3>2. i \in Int /\ pos \in Int
      BY <1>1, <2>2
    <3>3. p # pos
      BY <3>2
    <3>4. keys[p] # keys[pos]
      BY <2>1, <3>1, <3>3 DEF NoneTwice
    <3> QED  BY <2>1, <3>1, <3>4 DEF KeysIn
  <2>10. ASSUME NEW i \in 1 .. Len(keys), keys[i] # r PROVE keys[i] \in KeysIn(w)
    <3>1. CASE i < pos
      <4>1. i \in 1 .. n
        BY <1>1, <2>2, <3>1
      <4> QED  BY <2>4, <2>7, <3>1, <4>1 DEF KeysIn
    <3>2. CASE i > pos
      <4>1. i - 1 \in 1 .. n /\ ~(i - 1 < pos) /\ (i - 1) + 1 = i
        BY <1>1, <2>2, <3>2
      <4>2. w[i - 1] = keys[i]
        BY <2>4, <4>1
      <4> QED  BY <2>7, <4>1, <4>2 DEF KeysIn
    <3> QED  BY <2>1, <2>10, <3>1, <3>2
  <2>11. KeysIn(w) = KeysIn(keys) \ {r}
    BY <2>7, <2>9, <2>10, ZenonT(60) DEF KeysIn
  <2>12. r \in KeysIn(keys)
    BY <2>1 DEF KeysIn
  <2> QED  BY <2>2, <2>7, <2>8, <2>11, <2>12
<1> QED  BY <1>2, <1>3

LEMMA TouchedKeys ==
    ASSUME NEW keys \in Seq(Refs), NoneTwice(keys), NEW r \in Refs, NEW w, w = Touched(keys, r)
    PROVE  /\ w \in Seq(Refs) /\ NoneTwice(w)
           /\ KeysIn(w) = KeysIn(keys) \cup {r}
           /\ Len(w) = IF r \in KeysIn(keys) THEN Len(keys) ELSE Len(keys) + 1
<1>1. PICK u \in Seq(Refs) : /\ u = Without(keys, r) /\ NoneTwice(u) /\ KeysIn(u) = KeysIn(keys) \ {r}
                             /\ Len(u) = IF r \in KeysIn(keys) THEN Len(keys) - 1 ELSE Len(keys)
  BY WithoutKeys
<1>2. w = Append(u, r)
  BY <1>1 DEF Touched
<1>3. /\ w \in Seq(Refs) /\ Len(w) = Len(u) + 1 /\ Len(u) \in Nat /\ Len(keys) \in Nat
      /\ \A i \in 1 .. Len(u) : w[i] = u[i]
      /\ w[Len(u) + 1] = r
  BY <1>2
<1>4. \A i \in 1 .. Len(w) : i \in 1 .. Len(u) \/ i = Len(u) + 1
  BY <1>3
<1>5. \A i \in 1 .. Len(u) : u[i] # r
  BY <1>1 DEF KeysIn
<1>6. NoneTwice(w)
  <2> SUFFICES ASSUME NEW i \in 1 .. Len(w), NEW j \in 1 .. Len(w), w[i] = w[j] PROVE i = j
    BY DEF NoneTwice
  <2>1. CASE i \in 1 .. Len(u) /\ j \in 1 .. Len(u)
    <3>1. u[i] = u[j]
      BY <1>3, <2>1
    <3> QED  BY <1>1, <2>1, <3>1 DEF NoneTwice
  <2>2. CASE i \in 1 .. Len(u) /\ j = Len(u) + 1
    BY <1>3, <1>5, <2>2
  <2>3. CASE j \in 1 .. Len(u) /\ i = Len(u) + 1
    BY <1>3, <1>5, <2>3
  <2> QED  BY <1>4, <2>1, <2>2, <2>3
<1>7. KeysIn(w) = KeysIn(u) \cup {r}
  <2>1. \A i \in 1 .. Len(u) : i \in 1 .. Len(w)
    BY <1>3
  <2>2. Len(u) + 1 \in 1 .. Len(w)
    BY <1>3
  <2> QED  BY <1>3, <1>4, <2>1, <2>2 DEF KeysIn
<1> QED  BY <1>1, <1>3, <1>6, <1>7


-----------------------------------------------------------------------------
LEMMA SecretInvInit == SecretInit => SecretInv
<1> SUFFICES ASSUME SecretInit PROVE SecretInv
  OBVIOUS
<1> USE DEF SecretInit
<1>1. /\ NoSlot \in [buffer : Nat, expires : Nat] /\ Waiting \in SecretCalls
      /\ Waiting.state = "new" /\ <<>> \in Seq(Refs) /\ Len(<<>>) = 0
  BY DEF NoSlot, Waiting, SecretCalls, CallStates
<1>2. SecretTypeOK
  BY <1>1 DEF SecretTypeOK
<1>3. \A r \in Refs : ~Cached(r)
  BY DEF Cached
<1>4. KeysIn(lru) = {} /\ NoneTwice(lru) /\ Len(lru) <= MaxEntries
  <2>1. 1 .. Len(lru) = {}
    BY <1>1
  <2> QED  BY <1>1, <2>1, SecretAssumption DEF KeysIn, NoneTwice
<1>5. MapInv
  BY <1>3, <1>4 DEF MapInv
<1>6. CallInv /\ OwnedInv /\ GivenInv /\ PlaceInv
  BY <1>1, <1>3 DEF CallInv, OwnedInv, GivenInv, PlaceInv, Answered
<1> QED  BY <1>2, <1>5, <1>6 DEF SecretInv

\* A call moves, and no buffer does: it neither had an answer on its way nor has one.
LEMMA CallStepKeeps ==
    ASSUME SecretInv, NEW c \in Resolvers, NEW k \in SecretCalls, pending' = [pending EXCEPT ![c] = k],
           ~Answered(c), k.state # "answered", k.state = "asking" => k.ref \in Refs,
           UNCHANGED <<slot, made, zeroed>>
    PROVE  CallInv' /\ OwnedInv' /\ GivenInv' /\ PlaceInv' /\ pending' \in [Resolvers -> SecretCalls]
<1>1. pending \in [Resolvers -> SecretCalls]
  BY DEF SecretInv, SecretTypeOK
<1>2. \A d \in Resolvers : pending'[d] = IF d = c THEN k ELSE pending[d]
  BY <1>1
<1>3. CallInv'
  BY <1>2 DEF SecretInv, CallInv
<1>4. OwnedInv'
  BY DEF SecretInv, OwnedInv, Cached
<1>5. \A d \in Resolvers : (Answered(d)' <=> Answered(d)) /\ (Answered(d) => pending'[d] = pending[d])
  BY <1>2 DEF Answered
<1>6. GivenInv'
  BY <1>5 DEF SecretInv, GivenInv, Cached
<1>7. PlaceInv'
  BY <1>5 DEF SecretInv, PlaceInv, Cached
<1> QED  BY <1>1, <1>3, <1>4, <1>6, <1>7

\* The keys of the Map, from those it had.
LEMMA MapKeeps ==
    ASSUME lru' \in Seq(Refs), NoneTwice(lru'), Len(lru') <= MaxEntries,
           \A r \in Refs : Cached(r)' <=> r \in KeysIn(lru')
    PROVE  MapInv'
  BY DEF MapInv, NoneTwice, KeysIn

LEMMA HitKeeps ==
    ASSUME SecretInv, NEW c \in Resolvers, NEW r \in Refs, NEW fresh \in BOOLEAN,
           ResolveSecret(c, r, fresh), Cached(r) /\ ~fresh /\ ~Expired(r)
    PROVE  SecretInv'
<1>1. /\ lru' = Touched(lru, r)
      /\ pending' = [pending EXCEPT ![c] = [state |-> "hit", ref |-> r, tries |-> 0,
                                            buffer |-> slot[r].buffer]]
      /\ UNCHANGED <<secretNow, made, zeroed, slot>> /\ pending[c].state = "new"
  BY DEF ResolveSecret
<1>2. PICK k \in SecretCalls : k = [state |-> "hit", ref |-> r, tries |-> 0, buffer |-> slot[r].buffer]
  BY DEF SecretInv, SecretTypeOK, SecretCalls, CallStates
<1>3. k.state = "hit" /\ ~Answered(c) /\ pending' = [pending EXCEPT ![c] = k]
  BY <1>1, <1>2 DEF Answered
<1>4. CallInv' /\ OwnedInv' /\ GivenInv' /\ PlaceInv' /\ pending' \in [Resolvers -> SecretCalls]
  BY <1>1, <1>3, CallStepKeeps
<1>5. lru \in Seq(Refs) /\ NoneTwice(lru) /\ Len(lru) <= MaxEntries /\ r \in KeysIn(lru)
  BY DEF SecretInv, SecretTypeOK, MapInv
<1>6. lru' \in Seq(Refs) /\ NoneTwice(lru') /\ KeysIn(lru') = KeysIn(lru) /\ Len(lru') = Len(lru)
  <2>1. /\ lru' \in Seq(Refs) /\ NoneTwice(lru') /\ KeysIn(lru') = KeysIn(lru) \cup {r}
        /\ Len(lru') = IF r \in KeysIn(lru) THEN Len(lru) ELSE Len(lru) + 1
    BY <1>1, <1>5, TouchedKeys
  <2> QED  BY <1>5, <2>1
<1>7. \A q \in Refs : Cached(q)' <=> q \in KeysIn(lru')
  BY <1>1, <1>6 DEF SecretInv, MapInv, Cached
<1>8. MapInv'
  BY <1>5, <1>6, <1>7, MapKeeps
<1>9. SecretTypeOK'
  BY <1>1, <1>4, <1>6 DEF SecretInv, SecretTypeOK
<1> QED  BY <1>4, <1>8, <1>9 DEF SecretInv

\* An entry goes, by fresh or expiry, and its call asks; or there was none.
LEMMA MissKeeps ==
    ASSUME SecretInv, NEW c \in Resolvers, NEW r \in Refs, NEW fresh \in BOOLEAN,
           ResolveSecret(c, r, fresh), ~(Cached(r) /\ ~fresh /\ ~Expired(r))
    PROVE  SecretInv'
<1>1. /\ IF Cached(r) THEN EvictKey(r) ELSE UNCHANGED <<zeroed, lru, slot>>
      /\ pending' = [pending EXCEPT ![c] = [state |-> "asking", ref |-> r, tries |-> 1, buffer |-> 0]]
      /\ UNCHANGED <<secretNow, made>> /\ pending[c].state = "new"
  BY DEF ResolveSecret
<1>2. PICK k \in SecretCalls : k = [state |-> "asking", ref |-> r, tries |-> 1, buffer |-> 0]
  BY DEF SecretCalls, CallStates
<1>3. k.state = "asking" /\ k.ref = r /\ ~Answered(c) /\ pending' = [pending EXCEPT ![c] = k]
  BY <1>1, <1>2 DEF Answered
<1>4. CASE ~Cached(r)
  <2>1. CallInv' /\ OwnedInv' /\ GivenInv' /\ PlaceInv' /\ pending' \in [Resolvers -> SecretCalls]
    BY <1>1, <1>3, <1>4, CallStepKeeps
  <2>2. MapInv'
    BY <1>1, <1>4 DEF SecretInv, MapInv, Cached
  <2>3. SecretTypeOK'
    BY <1>1, <1>4, <2>1 DEF SecretInv, SecretTypeOK
  <2> QED  BY <2>1, <2>2, <2>3 DEF SecretInv
<1>5. CASE Cached(r)
  <2>1. /\ zeroed' = zeroed \cup {slot[r].buffer} /\ lru' = Without(lru, r)
        /\ slot' = [slot EXCEPT ![r] = NoSlot]
    BY <1>1, <1>5 DEF EvictKey, Fill0
  <2>2. /\ pending \in [Resolvers -> SecretCalls] /\ slot \in [Refs -> [buffer : Nat, expires : Nat]]
        /\ lru \in Seq(Refs) /\ NoneTwice(lru) /\ Len(lru) <= MaxEntries /\ r \in KeysIn(lru)
        /\ Len(lru) \in Nat
    BY <1>5 DEF SecretInv, SecretTypeOK, MapInv
  <2>3. \A q \in Refs : /\ Cached(q)' <=> Cached(q) /\ q # r
                        /\ q # r => slot'[q] = slot[q]
    BY <2>1, <2>2 DEF Cached
  <2>4. /\ lru' \in Seq(Refs) /\ NoneTwice(lru') /\ KeysIn(lru') = KeysIn(lru) \ {r}
        /\ Len(lru') = Len(lru) - 1
    BY <2>1, <2>2, WithoutKeys
  <2>5. Len(lru') <= MaxEntries
    BY <2>2, <2>4, SecretAssumption
  <2>6. MapInv'
    <3>1. \A q \in Refs : Cached(q)' <=> q \in KeysIn(lru')
      BY <2>3, <2>4 DEF SecretInv, MapInv
    <3> QED  BY <2>4, <2>5, <3>1, MapKeeps
  <2>7. \A d \in Resolvers : pending'[d] = IF d = c THEN k ELSE pending[d]
    BY <1>3, <2>2
  <2>8. \A d \in Resolvers : (Answered(d)' <=> Answered(d)) /\ (Answered(d) => pending'[d] = pending[d])
    BY <1>3, <2>7 DEF Answered
  <2>9. CallInv'
    BY <1>3, <2>7 DEF SecretInv, CallInv
  <2>10. slot[r].buffer \in 1 .. made
    BY <1>5 DEF SecretInv, OwnedInv
  <2>11. OwnedInv'
    BY <1>1, <1>5, <2>1, <2>3 DEF SecretInv, OwnedInv
  <2>12. GivenInv'
    BY <1>1, <1>5, <2>1, <2>3, <2>8 DEF SecretInv, GivenInv
  <2>13. PlaceInv'
    BY <1>1, <2>1, <2>3, <2>8 DEF SecretInv, PlaceInv
  <2>14. SecretTypeOK'
    <3>1. NoSlot \in [buffer : Nat, expires : Nat]
      BY DEF NoSlot
    <3>2. slot' \in [Refs -> [buffer : Nat, expires : Nat]]
      BY <2>1, <2>2, <3>1
    <3>3. pending' \in [Resolvers -> SecretCalls]
      BY <1>3, <2>2
    <3> QED  BY <1>1, <2>1, <2>4, <2>10, <3>2, <3>3 DEF SecretInv, SecretTypeOK
  <2> QED  BY <2>6, <2>9, <2>11, <2>12, <2>13, <2>14 DEF SecretInv
<1> QED  BY <1>4, <1>5


LEMMA ReadKeeps ==
    ASSUME SecretInv, NEW c \in Resolvers, Read(c) PROVE SecretInv'
<1>1. PICK j \in SecretCalls : j = pending[c]
  BY DEF SecretInv, SecretTypeOK
<1>2. made \in Nat /\ made' = made + 1 /\ UNCHANGED <<secretNow, lru, slot, zeroed>>
  BY DEF SecretInv, SecretTypeOK, Read
<1>3. PICK k \in SecretCalls : /\ k = [j EXCEPT !.state = "answered", !.buffer = made + 1]
                               /\ k.state = "answered" /\ k.ref = j.ref /\ k.buffer = made + 1
  <2>1. PICK n \in Nat : n = made + 1
    BY <1>2
  <2>2. PICK k \in SecretCalls : k = [j EXCEPT !.state = "answered", !.buffer = n]
    BY DEF SecretCalls, CallStates
  <2>3. k.state = "answered" /\ k.ref = j.ref /\ k.buffer = n
    BY <2>2 DEF SecretCalls
  <2> QED  BY <2>1, <2>2, <2>3
<1>4. k.state = "answered" /\ k.ref = j.ref /\ k.buffer = made + 1
  BY <1>3
<1>5. pending' = [pending EXCEPT ![c] = k] /\ j.state = "asking"
  BY <1>1, <1>3 DEF Read
<1>6. /\ pending \in [Resolvers -> SecretCalls]
      /\ \A d \in Resolvers : pending'[d] = IF d = c THEN k ELSE pending[d]
  BY <1>5 DEF SecretInv, SecretTypeOK
<1>7. \A d \in Resolvers : Answered(d)' <=> d = c \/ Answered(d)
  BY <1>4, <1>6 DEF Answered
<1>8. /\ \A b \in 1 .. made : b \in 1 .. made' /\ b # made + 1
      /\ \A b \in 1 .. made' : b \in 1 .. made \/ b = made + 1
      /\ made + 1 \in 1 .. made' /\ made + 1 \notin 1 .. made
  BY <1>2
<1>9. zeroed \in SUBSET (1 .. made)
  BY DEF SecretInv, SecretTypeOK
<1>10. CallInv'
  BY <1>1, <1>4, <1>5, <1>6 DEF SecretInv, CallInv
<1>11. MapInv'
  BY <1>2 DEF SecretInv, MapInv, Cached
<1>12. OwnedInv'
  BY <1>2, <1>8 DEF SecretInv, OwnedInv, Cached
<1>13. GivenInv'
  <2>1. \A d \in Resolvers : Answered(d) => pending[d].buffer \in (1 .. made) \ zeroed
    BY DEF SecretInv, GivenInv
  <2>2. \A q \in Refs : (Cached(q)' <=> Cached(q)) /\ slot'[q] = slot[q] /\
                        (Cached(q) => slot[q].buffer \in 1 .. made)
    BY <1>2 DEF SecretInv, OwnedInv, Cached
  <2>3. \A d \in Resolvers : Answered(d)' => pending'[d].buffer \in (1 .. made') \ zeroed'
    BY <1>2, <1>4, <1>6, <1>7, <1>8, <1>9, <2>1
  <2>4. ASSUME NEW d \in Resolvers, NEW e \in Resolvers, Answered(d)', Answered(e)',
               pending'[d].buffer = pending'[e].buffer
        PROVE  d = e
    BY <1>4, <1>6, <1>7, <1>8, <2>1, <2>4 DEF SecretInv, GivenInv
  <2>5. ASSUME NEW d \in Resolvers, NEW q \in Refs, Answered(d)', Cached(q)'
        PROVE  pending'[d].buffer # slot'[q].buffer
    BY <1>4, <1>6, <1>7, <1>8, <2>2, <2>5 DEF SecretInv, GivenInv
  <2> QED  BY <2>3, <2>4, <2>5 DEF GivenInv
<1>14. PlaceInv'
  <2> SUFFICES ASSUME NEW b \in 1 .. made'
               PROVE  \/ b \in zeroed'
                      \/ \E q \in Refs : Cached(q)' /\ slot'[q].buffer = b
                      \/ \E d \in Resolvers : Answered(d)' /\ pending'[d].buffer = b
    BY DEF PlaceInv
  <2>1. CASE b = made + 1
    BY <1>4, <1>6, <1>7, <2>1
  <2>2. CASE b \in 1 .. made
    <3>1. \A d \in Resolvers : Answered(d) => d # c
      BY <1>1, <1>5 DEF Answered
    <3> QED  BY <1>2, <1>6, <1>7, <2>2, <3>1 DEF SecretInv, PlaceInv, Cached
  <2> QED  BY <1>8, <2>1, <2>2
<1>15. SecretTypeOK'
  <2>1. pending' \in [Resolvers -> SecretCalls]
    BY <1>5, <1>6
  <2>2. zeroed' \in SUBSET (1 .. made')
    BY <1>2, <1>8, <1>9
  <2> QED  BY <1>2, <2>1, <2>2 DEF SecretInv, SecretTypeOK
<1> QED  BY <1>10, <1>11, <1>12, <1>13, <1>14, <1>15 DEF SecretInv

LEMMA FailsKeeps ==
    ASSUME SecretInv, NEW c \in Resolvers, NEW p \in Providers, NEW a, ProviderFails(c, p, a)
    PROVE  SecretInv'
<1>1. PICK j \in SecretCalls : j = pending[c]
  BY DEF SecretInv, SecretTypeOK
<1>2. j.state = "asking" /\ j.tries \in Nat /\ ~Answered(c) /\ j.ref \in Refs
  BY <1>1 DEF ProviderFails, Answered, SecretCalls, SecretInv, CallInv
<1>3. PICK s \in CallStates \ {"answered", "asking"} : s = ClassifyError(p, a)
  BY DEF Providers, CallStates, ClassifyError, ClassifySecretsError, ClassifyParameterError, ClassifyStatus
<1>4. PICK k \in SecretCalls : /\ pending' = [pending EXCEPT ![c] = k]
                               /\ k.state # "answered" /\ (k.state = "asking" => k.ref \in Refs)
  <2>1. CASE Retried(p, a) /\ pending[c].tries < SecretAttempts
    <3>1. PICK n \in Nat : n = j.tries + 1
      BY <1>2
    <3>2. PICK k \in SecretCalls : k = [j EXCEPT !.tries = n]
      BY DEF SecretCalls
    <3>3. k.state = j.state /\ k.ref = j.ref
      BY <3>2 DEF SecretCalls
    <3>4. pending' = [pending EXCEPT ![c] = k]
      BY <1>1, <2>1, <3>1, <3>2 DEF ProviderFails
    <3> QED  BY <1>2, <3>3, <3>4
  <2>2. CASE ~(Retried(p, a) /\ pending[c].tries < SecretAttempts)
    <3>1. PICK k \in SecretCalls : k = [j EXCEPT !.state = s]
      BY <1>3 DEF SecretCalls
    <3>2. k.state = s
      BY <3>1 DEF SecretCalls
    <3>3. pending' = [pending EXCEPT ![c] = k]
      BY <1>1, <1>3, <2>2, <3>1 DEF ProviderFails
    <3> QED  BY <1>3, <3>2, <3>3
  <2> QED  BY <2>1, <2>2
<1>5. UNCHANGED <<secretNow, lru, slot, made, zeroed>>
  BY DEF ProviderFails
<1>6. CallInv' /\ OwnedInv' /\ GivenInv' /\ PlaceInv' /\ pending' \in [Resolvers -> SecretCalls]
  BY <1>2, <1>4, <1>5, CallStepKeeps
<1>7. MapInv'
  BY <1>5 DEF SecretInv, MapInv, Cached
<1>8. SecretTypeOK'
  BY <1>5, <1>6 DEF SecretInv, SecretTypeOK
<1> QED  BY <1>6, <1>7, <1>8 DEF SecretInv


\* An answer is stored: the buffer that was on its way is the key's, the one the
\* key had is zeroed, and the least recently used entry goes if there is one too many.
LEMMA StoreSecretKeeps ==
    ASSUME SecretInv, NEW c \in Resolvers, StoreSecret(c) PROVE SecretInv'
<1>1. PICK j \in SecretCalls : j = pending[c]
  BY DEF SecretInv, SecretTypeOK
<1>2. j.state = "answered" /\ Answered(c)
  BY <1>1 DEF StoreSecret, Answered
<1>3. PICK r \in Refs, x \in Nat : r = j.ref /\ x = j.buffer
  BY <1>1, <1>2 DEF SecretInv, CallInv, SecretCalls
<1>4. x \in (1 .. made) \ zeroed /\ x # 0
  BY <1>1, <1>2, <1>3 DEF SecretInv, GivenInv, SecretTypeOK
<1>5. PICK e \in Nat : e = secretNow + SecretTtl
  BY SecretAssumption DEF SecretInv, SecretTypeOK
<1>6. /\ slot \in [Refs -> [buffer : Nat, expires : Nat]] /\ pending \in [Resolvers -> SecretCalls]
      /\ lru \in Seq(Refs) /\ NoneTwice(lru) /\ Len(lru) <= MaxEntries /\ Len(lru) \in Nat
      /\ zeroed \in SUBSET (1 .. made)
  BY DEF SecretInv, SecretTypeOK, MapInv
<1>7. PICK full \in [Refs -> [buffer : Nat, expires : Nat]] :
        full = [slot EXCEPT ![r] = [buffer |-> x, expires |-> e]]
  BY <1>6
<1>8. /\ full[r].buffer = x /\ full[r] # NoSlot
      /\ \A q \in Refs : q # r => full[q] = slot[q]
  BY <1>4, <1>6, <1>7 DEF NoSlot
<1>9. PICK keys \in Seq(Refs) :
        /\ keys = Touched(lru, r) /\ NoneTwice(keys) /\ KeysIn(keys) = KeysIn(lru) \cup {r}
        /\ Len(keys) = IF r \in KeysIn(lru) THEN Len(lru) ELSE Len(lru) + 1
  BY <1>6, TouchedKeys
<1>10. PICK out \in SUBSET Refs : out = Overflow(keys)
  <2>1. Len(keys) > MaxEntries => keys[1] \in Refs
    BY <1>9, SecretAssumption
  <2> QED  BY <2>1 DEF Overflow
<1>11. PICK k \in SecretCalls : k = [j EXCEPT !.state = "resolved"] /\ k.state = "resolved"
  <2>1. PICK k \in SecretCalls : k = [j EXCEPT !.state = "resolved"]
    BY DEF SecretCalls, CallStates
  <2>2. k.state = "resolved"
    BY <2>1 DEF SecretCalls
  <2> QED  BY <2>1, <2>2
<1>12. /\ lru' = IF out = {} THEN keys ELSE Without(keys, keys[1])
       /\ slot' = [q \in Refs |-> IF q \in out THEN NoSlot ELSE full[q]]
       /\ zeroed' = zeroed \cup Replaced(r) \cup {full[q].buffer : q \in out}
       /\ pending' = [pending EXCEPT ![c] = k]
       /\ UNCHANGED <<secretNow, made>>
  BY <1>1, <1>3, <1>5, <1>7, <1>9, <1>10, <1>11 DEF StoreSecret, Fill0
<1> DEFINE Held(q) == q = r \/ Cached(q)
<1>13. \A q \in out : Held(q) /\ q \in KeysIn(keys)
  <2>1. ASSUME NEW q \in out PROVE q \in KeysIn(keys)
    <3>1. Len(keys) > MaxEntries /\ q = keys[1]
      BY <1>10, <2>1 DEF Overflow
    <3>2. 1 \in 1 .. Len(keys)
      BY <3>1, SecretAssumption, <1>9, <1>6
    <3> QED  BY <3>1, <3>2 DEF KeysIn
  <2>2. \A q \in Refs : q \in KeysIn(keys) <=> Held(q)
    BY <1>9 DEF SecretInv, MapInv
  <2> QED  BY <2>1, <2>2
<1>14. \A q \in Refs : /\ Cached(q)' <=> Held(q) /\ q \notin out
                       /\ q \notin out => slot'[q] = full[q]
  BY <1>8, <1>12 DEF Cached
<1>15. /\ lru' \in Seq(Refs) /\ NoneTwice(lru') /\ KeysIn(lru') = KeysIn(keys) \ out
       /\ Len(lru') <= MaxEntries
  <2>1. CASE out = {}
    <3>1. ~(Len(keys) > MaxEntries)
      BY <1>10, <2>1 DEF Overflow
    <3>2. lru' = keys /\ Len(keys) \in Nat
      BY <1>12, <2>1
    <3> QED  BY <1>9, <2>1, <3>1, <3>2, SecretAssumption
  <2>2. CASE out # {}
    <3>1. out = {keys[1]} /\ Len(keys) > MaxEntries
      BY <1>10, <2>2 DEF Overflow
    <3>2. keys[1] \in KeysIn(keys)
      BY <1>13, <3>1
    <3>3. PICK w \in Seq(Refs) : /\ w = Without(keys, keys[1]) /\ NoneTwice(w)
                                 /\ KeysIn(w) = KeysIn(keys) \ {keys[1]} /\ Len(w) = Len(keys) - 1
      BY <1>9, <3>2, WithoutKeys
    <3>4. Len(w) <= MaxEntries
      BY <1>6, <1>9, <3>3, SecretAssumption
    <3> QED  BY <1>12, <2>2, <3>1, <3>3, <3>4
  <2> QED  BY <2>1, <2>2
<1>16. MapInv'
  <2>1. \A q \in Refs : q \in KeysIn(keys) <=> Held(q)
    BY <1>9 DEF SecretInv, MapInv
  <2>2. \A q \in Refs : Cached(q)' <=> q \in KeysIn(lru')
    BY <1>14, <1>15, <2>1
  <2> QED  BY <1>15, <2>2, MapKeeps
<1>17. \A d \in Resolvers : pending'[d] = IF d = c THEN k ELSE pending[d]
  BY <1>6, <1>12
<1>18. \A d \in Resolvers : /\ Answered(d)' <=> d # c /\ Answered(d)
                            /\ d # c => pending'[d] = pending[d]
  BY <1>11, <1>17 DEF Answered
<1>19. CallInv'
  BY <1>11, <1>17 DEF SecretInv, CallInv
\* The buffers the cache holds between set and evictOverflow, and those that go.
<1>20. \A q \in Refs : Held(q) => full[q].buffer \in (1 .. made) \ zeroed
  BY <1>4, <1>8 DEF SecretInv, OwnedInv
<1>21. \A q \in Refs : Cached(q) => slot[q].buffer # x
  BY <1>1, <1>2, <1>3 DEF SecretInv, GivenInv
<1>22. \A q, s \in Refs : Held(q) /\ Held(s) /\ full[q].buffer = full[s].buffer => q = s
  BY <1>8, <1>21 DEF SecretInv, OwnedInv
<1>23. \A q \in Refs : Held(q) /\ Cached(r) => full[q].buffer # slot[r].buffer
  BY <1>8, <1>21 DEF SecretInv, OwnedInv
<1>24. \A d \in Resolvers, q \in Refs :
         d # c /\ Answered(d) => /\ Held(q) => pending[d].buffer # full[q].buffer
                                 /\ Cached(r) => pending[d].buffer # slot[r].buffer
  BY <1>1, <1>2, <1>3, <1>8 DEF SecretInv, GivenInv
<1>25. \A b : b \in zeroed' <=> \/ b \in zeroed
                                \/ Cached(r) /\ b = slot[r].buffer
                                \/ \E q \in out : b = full[q].buffer
  BY <1>12 DEF Replaced
<1>26. OwnedInv'
  <2>1. ASSUME NEW q \in Refs, Cached(q)' PROVE slot'[q].buffer \in (1 .. made') \ zeroed'
    <3>1. Held(q) /\ q \notin out /\ slot'[q] = full[q]
      BY <1>14, <2>1
    <3>2. full[q].buffer \in (1 .. made) \ zeroed
      BY <1>20, <3>1
    <3>3. ~(Cached(r) /\ full[q].buffer = slot[r].buffer)
      BY <1>23, <3>1
    <3>4. \A s \in out : full[q].buffer # full[s].buffer
      BY <1>13, <1>22, <3>1
    <3> QED  BY <1>12, <1>25, <3>1, <3>2, <3>3, <3>4
  <2>2. ASSUME NEW q \in Refs, NEW s \in Refs, Cached(q)', Cached(s)', slot'[q].buffer = slot'[s].buffer
        PROVE  q = s
    BY <1>14, <1>22, <2>2
  <2> QED  BY <2>1, <2>2 DEF OwnedInv
<1>27. GivenInv'
  <2>1. ASSUME NEW d \in Resolvers, Answered(d)' PROVE pending'[d].buffer \in (1 .. made') \ zeroed'
    <3>1. d # c /\ Answered(d) /\ pending'[d] = pending[d]
      BY <1>18, <2>1
    <3>2. pending[d].buffer \in (1 .. made) \ zeroed
      BY <3>1 DEF SecretInv, GivenInv
    <3>3. ~(Cached(r) /\ pending[d].buffer = slot[r].buffer)
      BY <1>24, <3>1
    <3>4. \A s \in out : pending[d].buffer # full[s].buffer
      BY <1>13, <1>24, <3>1
    <3> QED  BY <1>12, <1>25, <3>1, <3>2, <3>3, <3>4
  <2>2. ASSUME NEW d \in Resolvers, NEW g \in Resolvers, Answered(d)', Answered(g)',
               pending'[d].buffer = pending'[g].buffer
        PROVE  d = g
    BY <1>18, <2>2 DEF SecretInv, GivenInv
  <2>3. ASSUME NEW d \in Resolvers, NEW q \in Refs, Answered(d)', Cached(q)'
        PROVE  pending'[d].buffer # slot'[q].buffer
    BY <1>14, <1>18, <1>24, <2>3
  <2> QED  BY <2>1, <2>2, <2>3 DEF GivenInv
<1>28. PlaceInv'
  <2> SUFFICES ASSUME NEW b \in 1 .. made', b \notin zeroed'
               PROVE  \/ \E q \in Refs : Cached(q)' /\ slot'[q].buffer = b
                      \/ \E d \in Resolvers : Answered(d)' /\ pending'[d].buffer = b
    BY DEF PlaceInv
  <2>1. \A q \in Refs : Held(q) /\ full[q].buffer = b => Cached(q)' /\ slot'[q].buffer = b
    BY <1>14, <1>25
  <2>2. b \in 1 .. made /\ b \notin zeroed
    BY <1>12, <1>25
  <2>3. CASE \E q \in Refs : Cached(q) /\ slot[q].buffer = b
    <3>1. PICK q \in Refs : Cached(q) /\ slot[q].buffer = b
      BY <2>3
    <3>2. q # r
      BY <1>25, <3>1
    <3> QED  BY <1>8, <2>1, <3>1, <3>2
  <2>4. CASE \E d \in Resolvers : Answered(d) /\ pending[d].buffer = b
    <3>1. PICK d \in Resolvers : Answered(d) /\ pending[d].buffer = b
      BY <2>4
    <3>2. CASE d = c
      BY <1>1, <1>3, <1>8, <2>1, <3>1, <3>2
    <3>3. CASE d # c
      BY <1>18, <3>1, <3>3
    <3> QED  BY <3>2, <3>3
  <2> QED  BY <2>2, <2>3, <2>4 DEF SecretInv, PlaceInv
<1>29. SecretTypeOK'
  <2>1. NoSlot \in [buffer : Nat, expires : Nat]
    BY DEF NoSlot
  <2>2. slot' \in [Refs -> [buffer : Nat, expires : Nat]]
    BY <1>12, <2>1
  <2>3. pending' \in [Resolvers -> SecretCalls]
    BY <1>6, <1>12
  <2>4. zeroed' \in SUBSET (1 .. made')
    <3>1. Cached(r) => slot[r].buffer \in 1 .. made
      BY DEF SecretInv, OwnedInv
    <3>2. \A q \in out : full[q].buffer \in 1 .. made
      BY <1>13, <1>20
    <3>3. ASSUME NEW b \in zeroed' PROVE b \in 1 .. made
      <4>1. b \in zeroed \/ (Cached(r) /\ b = slot[r].buffer) \/ \E q \in out : b = full[q].buffer
        BY <1>12 DEF Replaced
      <4>2. b \in zeroed => b \in 1 .. made
        BY <1>6
      <4> QED  BY <3>1, <3>2, <4>1, <4>2
    <3> QED  BY <1>12, <3>3
  <2> QED  BY <1>12, <1>15, <2>2, <2>3, <2>4 DEF SecretInv, SecretTypeOK
<1> QED  BY <1>16, <1>19, <1>26, <1>27, <1>28, <1>29 DEF SecretInv

LEMMA ClearKeeps ==
    ASSUME SecretInv, Clear PROVE SecretInv'
<1>1. /\ zeroed' = zeroed \cup {slot[r].buffer : r \in {k \in Refs : Cached(k)}}
      /\ lru' = <<>> /\ slot' = [r \in Refs |-> NoSlot] /\ UNCHANGED <<secretNow, made, pending>>
  BY DEF Clear, Fill0
<1>2. \A r \in Refs : ~Cached(r)'
  BY <1>1 DEF Cached
<1>3. \A b : b \in zeroed' <=> b \in zeroed \/ \E r \in Refs : Cached(r) /\ b = slot[r].buffer
  BY <1>1
<1>4. lru' \in Seq(Refs) /\ NoneTwice(lru') /\ KeysIn(lru') = {} /\ Len(lru') <= MaxEntries
  <2>1. lru' \in Seq(Refs) /\ Len(lru') = 0
    BY <1>1
  <2>2. 1 .. Len(lru') = {}
    BY <2>1
  <2> QED  BY <2>1, <2>2, SecretAssumption DEF KeysIn, NoneTwice
<1>5. MapInv'
  BY <1>2, <1>4, MapKeeps
<1>6. \A d \in Resolvers : Answered(d)' <=> Answered(d)
  BY <1>1 DEF Answered
<1>7. CallInv' /\ OwnedInv'
  BY <1>1, <1>2 DEF SecretInv, CallInv, OwnedInv
<1>8. GivenInv'
  BY <1>1, <1>2, <1>3, <1>6 DEF SecretInv, GivenInv
<1>9. PlaceInv'
  BY <1>1, <1>3, <1>6 DEF SecretInv, PlaceInv
<1>10. SecretTypeOK'
  <2>1. NoSlot \in [buffer : Nat, expires : Nat]
    BY DEF NoSlot
  <2>2. zeroed' \in SUBSET (1 .. made')
    <3>1. ASSUME NEW b \in zeroed' PROVE b \in 1 .. made
      <4>1. b \in zeroed \/ \E r \in Refs : Cached(r) /\ b = slot[r].buffer
        BY <1>3
      <4>2. zeroed \in SUBSET (1 .. made) /\ \A r \in Refs : Cached(r) => slot[r].buffer \in 1 .. made
        BY DEF SecretInv, SecretTypeOK, OwnedInv
      <4>3. b \in zeroed => b \in 1 .. made
        BY <4>2
      <4> QED  BY <4>1, <4>2, <4>3
    <3> QED  BY <1>1, <3>1
  <2> QED  BY <1>1, <1>4, <2>1, <2>2 DEF SecretInv, SecretTypeOK
<1> QED  BY <1>5, <1>7, <1>8, <1>9, <1>10 DEF SecretInv

LEMMA SecretInvStep == SecretInv /\ [SecretNext]_secretVars => SecretInv'
<1> SUFFICES ASSUME SecretInv, [SecretNext]_secretVars PROVE SecretInv'
  OBVIOUS
<1>1. ASSUME NEW c \in Resolvers, NEW r \in Refs, NEW fresh \in BOOLEAN, ResolveSecret(c, r, fresh)
      PROVE  SecretInv'
  BY <1>1, HitKeeps, MissKeeps
<1>2. CASE SecretTick
  <2>1. secretNow' \in Nat /\ UNCHANGED <<lru, slot, made, zeroed, pending>>
    BY <1>2 DEF SecretTick, SecretInv, SecretTypeOK
  <2>2. SecretTypeOK'
    BY <2>1 DEF SecretInv, SecretTypeOK
  <2> QED  BY <2>1, <2>2 DEF SecretInv, MapInv, CallInv, OwnedInv, GivenInv, PlaceInv, Cached, Answered
<1>3. CASE UNCHANGED secretVars
  BY <1>3 DEF secretVars, SecretInv, SecretTypeOK, MapInv, CallInv, OwnedInv, GivenInv, PlaceInv,
              Cached, Answered
<1> QED  BY <1>1, <1>2, <1>3, ReadKeeps, StoreSecretKeeps, FailsKeeps, ClearKeeps DEF SecretNext

\* As many buffers are cached as the Map has keys: key by key, one buffer each.
LEMMA OwnedAreCounted ==
    ASSUME SecretInv, NEW owned, owned = {slot[r].buffer : r \in {k \in Refs : Cached(k)}}
    PROVE  Cardinality(owned) = Len(lru)
<1>1. /\ lru \in Seq(Refs) /\ Len(lru) \in Nat /\ NoneTwice(lru)
      /\ \A r \in Refs : Cached(r) <=> r \in KeysIn(lru)
  BY DEF SecretInv, SecretTypeOK, MapInv
<1>2. \A i \in 1 .. Len(lru) : lru[i] \in Refs /\ Cached(lru[i])
  BY <1>1 DEF KeysIn
<1>3. PICK f : f = [i \in 1 .. Len(lru) |-> slot[lru[i]].buffer]
  OBVIOUS
<1>4. f \in [1 .. Len(lru) -> owned]
  BY <1>2, <1>3
<1>5. ASSUME NEW i \in 1 .. Len(lru), NEW j \in 1 .. Len(lru), f[i] = f[j] PROVE i = j
  <2>1. lru[i] = lru[j]
    BY <1>2, <1>3, <1>5 DEF SecretInv, OwnedInv
  <2> QED  BY <1>1, <2>1 DEF NoneTwice
<1>6. \A b \in owned : \E i \in 1 .. Len(lru) : f[i] = b
  BY <1>1, <1>3 DEF KeysIn
<1>7. f \in Bijection(1 .. Len(lru), owned)
  BY <1>4, <1>5, <1>6 DEF Bijection, Injection, Surjection, IsInjective
<1>8. ExistsBijection(1 .. Len(lru), owned)
  BY <1>7 DEF ExistsBijection
<1> QED  BY <1>1, <1>8, FS_CountingElements

LEMMA SecretInvOwns == SecretInv => CacheOwnsItsBytes
<1> SUFFICES ASSUME SecretInv PROVE CacheOwnsItsBytes
  OBVIOUS
<1> DEFINE owned == {slot[r].buffer : r \in {k \in Refs : Cached(k)}}
           given == {pending[c].buffer : c \in {d \in Resolvers : pending[d].state = "answered"}}
<1>1. \A b : b \in owned <=> \E r \in Refs : Cached(r) /\ slot[r].buffer = b
  OBVIOUS
<1>2. \A b : b \in given <=> \E c \in Resolvers : Answered(c) /\ pending[c].buffer = b
  BY DEF Answered
<1>3. ASSUME NEW b \in 1 .. made, b \notin given PROVE b \in zeroed <=> b \notin owned
  BY <1>1, <1>2, <1>3 DEF SecretInv, OwnedInv, PlaceInv
<1>4. Cardinality(owned) = Len(lru)
  BY OwnedAreCounted
<1>5. Len(lru) <= MaxEntries
  BY DEF SecretInv, MapInv
<1> QED  BY <1>3, <1>4, <1>5 DEF CacheOwnsItsBytes

\* The cache's state has its type: every buffer number is one that was made, a
\* call ends in one of the classes of its provider's errors.
THEOREM SecretsTypeCorrect == SecretSpec => []SecretTypeOK
<1>1. SecretInv => SecretTypeOK
  BY DEF SecretInv
<1> QED  BY <1>1, SecretInvInit, SecretInvStep, PTL DEF SecretSpec

\* Whatever number of calls overlap: a buffer that is not on its way to the
\* cache is zeroed exactly when the cache no longer holds it, whether it went by
\* expiry, fresh, replacement, overflow or clear; the cache holds one buffer for
\* each key of its Map and never more than maxEntries.
THEOREM CacheOwns == SecretSpec => []CacheOwnsItsBytes
<1> QED  BY SecretInvInit, SecretInvStep, SecretInvOwns, PTL DEF SecretSpec

==============================================================================
