--------------------------- MODULE FeatureToggles ----------------------------
(***************************************************************************)
(* PrismaFeatureToggleStore: a table of toggles behind a per-process cache *)
(* with a TTL.  isEnabled awaits the table between looking at the cache    *)
(* and filling it, so a set or a delete, by this process or another, may   *)
(* come in between.  MemoryFeatureToggleStore is the table and no cache.   *)
(***************************************************************************)
EXTENDS Naturals

CONSTANTS Hosts,          \* processes, each with its own store instance
          Askers,         \* calls of isEnabled
          ToggleTtl,      \* cacheTtlMs
          ReadTime,       \* bound on the time an answer of the table takes
          MaxSets,        \* bound: writes
          ToggleMaxTime

ASSUME ToggleAssumption ==
    /\ Hosts # {}
    /\ ToggleTtl \in Nat /\ ReadTime \in Nat /\ MaxSets \in Nat /\ ToggleMaxTime \in Nat

VARIABLES toggleNow,
          toggle,     \* the toggle's row: "on", "off" or "none"
          last,       \* history: when each value of isEnabled last was the table's
          memo,       \* per host: the cached value and its expiry
          asker,      \* per call: its state, host, what it read and when
          writer,     \* per host: a write the table has done, whose answer is on its way
          previous,   \* per host: what set read before it wrote
          sets

toggleVars == <<toggleNow, toggle, last, memo, asker, writer, previous, sets>>

NoMemo == [value |-> FALSE, expires |-> 0]
IsOn(row) == row = "on"          \* row?.enabled ?? false
ToggleRows == {"on", "off", "none"}

ToggleInit ==
    /\ toggleNow = 0
    /\ toggle \in ToggleRows
    /\ last = [v \in BOOLEAN |-> 0]
    /\ memo = [h \in Hosts |-> NoMemo]
    /\ asker = [a \in Askers |-> [state |-> "new", host |-> CHOOSE h \in Hosts : TRUE, value |-> FALSE, at |-> 0]]
    /\ writer = [h \in Hosts |-> "idle"]
    /\ previous = [h \in Hosts |-> "none"]
    /\ sets = 0

MemoHitForever(h) == memo[h] # NoMemo

MemoHit(h) == memo[h].expires > toggleNow

\* isEnabled: a live cache entry answers; otherwise the table is asked.
IsEnabled(a, h) ==
    /\ asker[a].state = "new"
    /\ asker' = [asker EXCEPT ![a] =
          IF MemoHit(h) THEN [state |-> "answered", host |-> h, value |-> memo[h].value, at |-> toggleNow]
          ELSE [state |-> "asking", host |-> h, value |-> FALSE, at |-> toggleNow]]
    /\ UNCHANGED <<toggleNow, toggle, last, memo, writer, previous, sets>>

FindUnique(a) ==
    /\ asker[a].state = "asking"
    /\ asker' = [asker EXCEPT ![a] = [@ EXCEPT !.state = "read", !.value = IsOn(toggle), !.at = toggleNow]]
    /\ UNCHANGED <<toggleNow, toggle, last, memo, writer, previous, sets>>

\* The row arrives: it is cached for the TTL, counted from now.
FillMemo(a) ==
    /\ asker[a].state = "read"
    /\ memo' = [memo EXCEPT ![asker[a].host] = [value |-> asker[a].value, expires |-> toggleNow + ToggleTtl]]
    /\ asker' = [asker EXCEPT ![a] = [@ EXCEPT !.state = "answered", !.at = toggleNow]]
    /\ UNCHANGED <<toggleNow, toggle, last, writer, previous, sets>>

\* The table is missing or cannot be read: false, and nothing is cached.
ReadFails(a) ==
    /\ asker[a].state \in {"asking", "read"}
    /\ asker' = [asker EXCEPT ![a] = [@ EXCEPT !.state = "defaulted", !.value = FALSE]]
    /\ UNCHANGED <<toggleNow, toggle, last, memo, writer, previous, sets>>

\* set reads the row (null when it cannot), then upserts.
GetPrevious(h) ==
    /\ writer[h] = "idle" /\ sets < MaxSets
    /\ sets' = sets + 1
    /\ writer' = [writer EXCEPT ![h] = "upsert"]
    /\ previous' \in {[previous EXCEPT ![h] = p] : p \in {toggle, "none"}}
    /\ UNCHANGED <<toggleNow, toggle, last, memo, asker>>

Write(h, row) ==
    /\ toggle' = row
    /\ last' = [last EXCEPT ![IsOn(row)] = toggleNow]

Upsert(h) ==
    /\ writer[h] = "upsert"
    /\ \E row \in {"on", "off"} : Write(h, row)
    /\ writer' = [writer EXCEPT ![h] = "written"]
    /\ UNCHANGED <<toggleNow, memo, asker, previous, sets>>

\* delete takes effect or not: an absent row (P2025) is a no-op, and whatever
\* it throws, its finally is still to come.
DeleteToggle(h) ==
    /\ writer[h] = "idle" /\ sets < MaxSets
    /\ sets' = sets + 1
    /\ Write(h, "none") \/ UNCHANGED <<toggle, last>>
    /\ writer' = [writer EXCEPT ![h] = "deleted"]
    /\ UNCHANGED <<toggleNow, memo, asker, previous>>

\* The write's answer arrives: this host's entry goes.  A failed delete drops
\* the entry as well, a failed upsert does not.
WriteAnswers(h) ==
    /\ writer[h] \in {"written", "deleted"}
    /\ writer' = [writer EXCEPT ![h] = "idle"]
    /\ memo' = [memo EXCEPT ![h] = NoMemo]
    /\ UNCHANGED <<toggleNow, toggle, last, asker, previous, sets>>

WriteFails(h) ==
    /\ writer[h] \in {"upsert", "written"}
    /\ writer' = [writer EXCEPT ![h] = "idle"]
    /\ UNCHANGED <<toggleNow, toggle, last, memo, asker, previous, sets>>

\* A driver's timeout bounds the time an answer of the table takes.
ToggleTick ==
    /\ toggleNow < ToggleMaxTime
    /\ \A a \in Askers : asker[a].state = "read" => toggleNow < asker[a].at + ReadTime
    /\ toggleNow' = toggleNow + 1
    /\ last' = [last EXCEPT ![IsOn(toggle)] = toggleNow + 1]
    /\ UNCHANGED <<toggle, memo, asker, writer, previous, sets>>

ToggleNext ==
    \/ \E a \in Askers : (\E h \in Hosts : IsEnabled(a, h)) \/ FindUnique(a) \/ FillMemo(a) \/ ReadFails(a)
    \/ \E h \in Hosts : GetPrevious(h) \/ Upsert(h) \/ DeleteToggle(h) \/ WriteAnswers(h) \/ WriteFails(h)
    \/ ToggleTick

ToggleSpec == ToggleInit /\ [][ToggleNext]_toggleVars

\* An answer of isEnabled was the table's within the TTL and one read of it,
\* whatever sets and reads of how many processes overlapped; a read that
\* failed answers "disabled".
ToggleAgeBounded ==
    \A a \in Askers :
        /\ asker[a].state = "answered" => last[asker[a].value] + ToggleTtl + ReadTime >= asker[a].at
        /\ asker[a].state = "defaulted" => ~asker[a].value
=============================================================================
