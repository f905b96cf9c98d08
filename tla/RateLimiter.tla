----------------------------- MODULE RateLimiter -----------------------------
(***************************************************************************)
(* The token-bucket limiters of foundation (rate-limit/): the pure         *)
(* algorithm of token-bucket.ts over one row of DynamoDB or Postgres, read *)
(* and then written on condition that lastRefillMs has not changed.        *)
(*                                                                         *)
(* Tokens are counted in what one clock tick (a millisecond) refills, so   *)
(* the refill rate is one.  A consumer is one call of consume for the key; *)
(* the clocks of the hosts lag behind the fastest one, now, by up to Skew. *)
(***************************************************************************)
EXTENDS Integers

CONSTANTS
    Consumers,
    Cost,             \* what each call costs
    Capacity,
    Second,           \* ticks of a second
    Margin,           \* seconds a row is kept beyond its refill (60)
    MaxRetries,       \* MAX_RETRIES
    Skew,             \* how far a host's clock may lag
    MaxTime,          \* bound: the clock
    NoRow,
    Faults            \* "stale" (DynamoDB reads), "serialization" (Postgres
                      \* 40001, 40P01), "read", "write", "reset" (an operator's)

ASSUME LimiterAssumption ==
    /\ Cost \in [Consumers -> Nat \ {0}] /\ Capacity \in Nat \ {0}
    /\ Second \in Nat \ {0} /\ Margin \in Nat \ {0} /\ Skew \in Nat
    /\ Skew <= (Margin - 1) * Second + 1
    /\ MaxRetries \in Nat \ {0} /\ MaxTime \in Nat
    /\ NoRow \notin [tokens : Nat, last : Nat, ttl : Nat]

VARIABLES
    now,
    row,        \* the bucket's row: tokens, last (lastRefillMs) and ttl, or NoRow
    past,       \* what earlier reads may have left in a replica
    pc,
    at,         \* nowMs of the attempt
    seen,       \* the state the attempt read
    attempt,
    admitted,   \* history: what the calls that were allowed cost
    leaked,     \* history: tokens handed out twice, see the properties
    mark        \* history: the moment up to which refills have been granted

db == <<row, past>>

ledger == <<admitted, leaked, mark>>

call == <<at, seen, attempt>>

vars == <<now, db, pc, call, ledger>>

Rows == [tokens : 0..Capacity, last : 0..MaxTime, ttl : Nat] \union {NoRow}

LimiterTypeOK ==
    /\ now \in 0..MaxTime
    /\ row \in Rows /\ past \subseteq Rows
    /\ pc \in [Consumers -> {"start", "read", "write", "allowed", "denied", "threw"}]
    /\ at \in [Consumers -> 0..MaxTime]
    /\ seen \in [Consumers -> Rows] /\ attempt \in [Consumers -> 0..(MaxRetries - 1)]
    /\ admitted \in Nat /\ leaked \in Nat /\ mark \in Nat

Init ==
    /\ now = 0 /\ row = NoRow /\ past = {}
    /\ pc = [c \in Consumers |-> "start"]
    /\ at = [c \in Consumers |-> 0]
    /\ seen = [c \in Consumers |-> NoRow] /\ attempt = [c \in Consumers |-> 0]
    /\ admitted = 0 /\ leaked = 0 /\ mark = 0

-----------------------------------------------------------------------------
(* token-bucket.ts *)

AtMost(bound, n) == IF n > bound THEN bound ELSE n

AtLeast(bound, n) == IF n < bound THEN bound ELSE n

CeilDiv(n, d) == (n + d - 1) \div d

\* The tokens of a bucket at time t; one that does not exist is full.
Refilled(s, t) ==
    IF s = NoRow THEN Capacity
    ELSE AtMost(Capacity, s.tokens + AtLeast(0, t - s.last))

Allowed(s, t, n) == Refilled(s, t) >= n

\* tokens of newState: what is left, or the refill alone when denied.
Left(s, t, n) == Refilled(s, t) - IF Allowed(s, t, n) THEN n ELSE 0

\* Mutant: the time to refill is left out.
Ttl_Margin(tokens, t) == (t \div Second) + Margin

\* computeBucketTtlSeconds, added to the second of t.
Ttl(tokens, t) == (t \div Second) + CeilDiv(Capacity - tokens, Second) + Margin

-----------------------------------------------------------------------------
(* consumeWithRetry *)

Clocks == {t \in 0..now : now - Skew <= t}

\* const nowMs = Date.now()
ReadClock(c) ==
    /\ pc[c] = "start" /\ pc' = [pc EXCEPT ![c] = "read"]
    /\ \E t \in Clocks : at' = [at EXCEPT ![c] = t]
    /\ UNCHANGED <<now, db, seen, attempt, ledger>>

\* The locals of an attempt go with it.
Forget(c) == at' = [at EXCEPT ![c] = 0] /\ seen' = [seen EXCEPT ![c] = NoRow]

\* readState: GetItem is eventually consistent, SELECT is not; an error is thrown.
ReadState(c) ==
    /\ pc[c] = "read"
    /\ \/ /\ \E s \in {row} \union (IF "stale" \in Faults THEN past ELSE {}) :
               seen' = [seen EXCEPT ![c] = s]
          /\ pc' = [pc EXCEPT ![c] = "write"] /\ UNCHANGED <<at, attempt>>
       \/ /\ "read" \in Faults /\ pc' = [pc EXCEPT ![c] = "threw"]
          /\ Forget(c) /\ attempt' = [attempt EXCEPT ![c] = 0]
    /\ UNCHANGED <<now, db, ledger>>

\* What the call costs, if the state it read allows it.
Charge(c) == IF Allowed(seen[c], at[c], Cost[c]) THEN Cost[c] ELSE 0

\* The computed result goes to the caller; leak is what this hands out twice.
Return(c, leak) ==
    /\ pc' = [pc EXCEPT ![c] = IF Charge(c) > 0 THEN "allowed" ELSE "denied"]
    /\ admitted' = admitted + Charge(c) /\ leaked' = leaked + leak
    /\ attempt' = [attempt EXCEPT ![c] = 0]

\* A conflict: again after a pause, or, out of retries, the computed result.
Retry(c) ==
    \/ /\ attempt[c] < MaxRetries - 1
       /\ pc' = [pc EXCEPT ![c] = "start"]
       /\ attempt' = [attempt EXCEPT ![c] = @ + 1]
       /\ UNCHANGED <<admitted, leaked>>
    \/ attempt[c] = MaxRetries - 1 /\ Return(c, Charge(c))

\* Mutant: the write has no condition.
Unmoved_Always(c) == TRUE

\* attribute_not_exists(PK), or lastRefillMs = :prevLastRefillMs
Unmoved(c) ==
    IF seen[c] = NoRow THEN row = NoRow
    ELSE row # NoRow /\ row.last = seen[c].last

\* The write replaces the row.  DynamoDB's limiter stamps the ttl with a second
\* reading of the clock, Postgres's with nowMs.
Commit(c) ==
    LET left == Left(seen[c], at[c], Cost[c])
        putBack == IF row = NoRow \/ seen[c] = NoRow THEN 0
                   ELSE AtLeast(0, seen[c].tokens - row.tokens)
    IN /\ \E t \in {at[c]} \union {u \in Clocks : u >= at[c]} :
            row' = [tokens |-> left, last |-> at[c], ttl |-> Ttl(left, t)]
       /\ past' = past \union {row}
       /\ Return(c, putBack + AtLeast(0, mark - at[c]))
       /\ mark' = at[c]

\* writeState and the catch around it.  An error whose write took effect after
\* all returns the same result as a success.
WriteState(c) ==
    /\ pc[c] = "write"
    /\ \/ Unmoved(c) /\ Commit(c)
       \/ ~Unmoved(c) /\ Retry(c) /\ UNCHANGED <<db, mark>>
       \/ "serialization" \in Faults /\ Retry(c) /\ UNCHANGED <<db, mark>>
       \/ "write" \in Faults /\ Return(c, Charge(c)) /\ UNCHANGED <<db, mark>>
    /\ Forget(c) /\ UNCHANGED now

\* reset deletes the row, whoever is between reading and writing it.
Reset ==
    /\ "reset" \in Faults /\ row # NoRow
    /\ row' = NoRow /\ past' = past \union {row}
    /\ leaked' = leaked + (Capacity - row.tokens)
    /\ UNCHANGED <<now, pc, call, admitted, mark>>

\* The store removes a row whose ttl has passed, late or at once.
Sweep ==
    /\ row # NoRow /\ row.ttl * Second <= now
    /\ row' = NoRow /\ past' = past \union {row}
    /\ mark' = row.last + (Capacity - row.tokens)
    /\ UNCHANGED <<now, pc, call, admitted, leaked>>

Tick == now < MaxTime /\ now' = now + 1 /\ UNCHANGED <<db, pc, call, ledger>>

Step(c) == ReadClock(c) \/ ReadState(c) \/ WriteState(c)

Next == (\E c \in Consumers : Step(c)) \/ Reset \/ Sweep \/ Tick

\* Every call to the store is answered, fails or times out.
Fairness == \A c \in Consumers : WF_vars(Step(c))

Spec == Init /\ [][Next]_vars /\ Fairness

-----------------------------------------------------------------------------
(* Properties. *)

\* The limiter fails open, and this is by how much: what the allowed calls cost
\* never exceeds the capacity and the refill since the start, but for calls that
\* returned without having been written (out of retries, or an error), tokens put
\* back by a write in the millisecond of the write before, refills granted again
\* by a reading of the clock from before the last write, and operators' resets.
AdmittedIsPaid == admitted <= Capacity + now + leaked

\* A row is swept only when the bucket is full for every host's clock, so that a
\* missing row and the row it was are the same to the next consumer.
SweptOnlyWhenFull ==
    row # NoRow /\ row.ttl * Second <= now =>
      \A t \in Clocks : Refilled(row, t) = Capacity

-----------------------------------------------------------------------------
(* The inductive invariant behind AdmittedIsPaid. *)

Balance == IF row = NoRow THEN Capacity ELSE row.tokens

\* The books balance at the moment the last refill was granted up to, and a row
\* outlives its refill.
LedgerInv ==
    /\ admitted + Balance <= Capacity + mark + leaked
    /\ mark <= now /\ \A c \in Consumers : at[c] <= now
    /\ row # NoRow =>
         /\ row.last = mark
         /\ row.last + (Capacity - row.tokens) + Skew <= row.ttl * Second
=============================================================================
