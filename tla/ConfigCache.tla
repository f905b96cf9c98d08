----------------------------- MODULE ConfigCache -----------------------------
(***************************************************************************)
(* The per-container cache the trigger handlers read ClientConfig through  *)
(* (shared-distribution/shared): TtlCache keeps one promise per key, and   *)
(* loadClientConfigByClientId / BySubdomain are its loaders.               *)
(*                                                                         *)
(* A load is one call of the loader, and names the promise it returned.    *)
(* Between its start and its settling the table is read at some moment and *)
(* may change before and after that moment.  A row is known by the number  *)
(* of writes to it; odd numbers are rows, even ones their absence.         *)
(***************************************************************************)
EXTENDS Integers, FiniteSets

CONSTANTS
    Keys,             \* client ids or subdomains
    Calls,            \* calls of getOrLoad
    Loads,            \* calls of the loader
    NoLoad,           \* no entry in the map
    Ttl,              \* ttlMs, in ticks
    Lag,              \* how far an eventually consistent read lags behind
    MaxWrites,        \* bound: writes to one row
    MaxTime           \* bound: the clock stops here

ASSUME CacheAssumption ==
    /\ NoLoad \notin Loads /\ Keys # {}
    /\ Ttl \in Nat \ {0} /\ Lag \in Nat /\ MaxWrites \in Nat /\ MaxTime \in Nat

VARIABLES
    now,
    row,        \* ClientConfig: the number of writes to each key's row
    until,      \* history: when each version was replaced
    entry,      \* TtlCache.entries: the load whose promise is stored
    expiry,     \* ... expiresAt
    state,      \* of each load
    key, start, \* ... its key, and the clock when it was started
    value,      \* ... what it read
    made,       \* calls that were made
    got,        \* ... the load each of them got
    when        \* ... and the clock then

table == <<row, until>>

cache == <<entry, expiry>>

loads == <<state, key, start, value>>

calls == <<made, got, when>>

vars == <<now, table, cache, loads, calls>>

Versions == 0..MaxWrites

Never == MaxTime + 1

LoadStates == {"unused", "pending", "read", "resolved", "rejected"}

TypeOK ==
    /\ now \in 0..MaxTime
    /\ row \in [Keys -> Versions]
    /\ until \in [Keys -> [Versions -> 0..Never]]
    /\ entry \in [Keys -> Loads \union {NoLoad}]
    /\ expiry \in [Keys -> Nat]
    /\ state \in [Loads -> LoadStates]
    /\ key \in [Loads -> Keys] /\ start \in [Loads -> 0..MaxTime]
    /\ value \in [Loads -> Versions]
    /\ made \subseteq Calls
    /\ got \in [Calls -> Loads \union {NoLoad}] /\ when \in [Calls -> 0..MaxTime]

Init ==
    /\ now = 0
    /\ row \in [Keys -> {0, 1} \intersect Versions]
    /\ until = [k \in Keys |-> [v \in Versions |-> IF v < row[k] THEN 0 ELSE Never]]
    /\ entry = [k \in Keys |-> NoLoad] /\ expiry = [k \in Keys |-> 0]
    /\ state = [l \in Loads |-> "unused"]
    /\ key = [l \in Loads |-> CHOOSE k \in Keys : TRUE]
    /\ start = [l \in Loads |-> 0] /\ value = [l \in Loads |-> 0]
    /\ made = {}
    /\ got = [c \in Calls |-> NoLoad] /\ when = [c \in Calls |-> 0]

-----------------------------------------------------------------------------
\* createTenant, deleteTenant and the re-creation of a row.
Write(k) ==
    /\ row[k] < MaxWrites
    /\ row' = [row EXCEPT ![k] = @ + 1]
    /\ until' = [until EXCEPT ![k][row[k]] = now]
    /\ UNCHANGED <<now, cache, loads, calls>>

Busy(l) == state[l] \in {"pending", "read"}

\* What a call notes about itself.
Made(c, l, k) ==
    /\ c \notin made /\ made' = made \union {c}
    /\ got' = [got EXCEPT ![c] = l]
    /\ when' = [when EXCEPT ![c] = now]

\* Mutant: the entry's expiry is not looked at.
Live_Forever(k) == entry[k] # NoLoad

\* The entry is there and has not expired.
Live(k) == entry[k] # NoLoad /\ expiry[k] > now

\* getOrLoad with a live entry: the stored promise, settled or not.
Hit(c, k) ==
    /\ Live(k)
    /\ Made(c, entry[k], k)
    /\ UNCHANGED <<now, table, cache, loads>>

\* getOrLoad without one: the loader is called and its promise stored at once.
Miss(c, k, l) ==
    /\ ~Live(k) /\ state[l] = "unused"
    /\ Made(c, l, k)
    /\ entry' = [entry EXCEPT ![k] = l] /\ expiry' = [expiry EXCEPT ![k] = now + Ttl]
    /\ state' = [state EXCEPT ![l] = "pending"]
    /\ key' = [key EXCEPT ![l] = k] /\ start' = [start EXCEPT ![l] = now]
    /\ UNCHANGED <<now, table, value>>

\* DynamoDB evaluates the GetItem or, through an index, the Query; neither is
\* consistent: it sees the row, or one that was replaced at most Lag ago.
Read(l) ==
    /\ state[l] = "pending" /\ state' = [state EXCEPT ![l] = "read"]
    /\ \E v \in 0..row[key[l]] :
         /\ now <= until[key[l]][v] + Lag
         /\ value' = [value EXCEPT ![l] = v]
    /\ UNCHANGED <<now, table, cache, key, start, calls>>

\* The answer arrives; a missing row is the value null, like any other value.
Resolve(l) ==
    /\ state[l] = "read" /\ state' = [state EXCEPT ![l] = "resolved"]
    /\ UNCHANGED <<now, table, cache, key, start, value, calls>>

\* The call fails or the row does not parse: evict, if the entry is still ours.
Reject(l) ==
    /\ state[l] \in {"pending", "read"} /\ state' = [state EXCEPT ![l] = "rejected"]
    /\ entry' = IF entry[key[l]] = l THEN [entry EXCEPT ![key[l]] = NoLoad] ELSE entry
    /\ UNCHANGED <<now, table, expiry, key, start, value, calls>>

Tick == now < MaxTime /\ now' = now + 1 /\ UNCHANGED <<table, cache, loads, calls>>

Settle(l) == Read(l) \/ Resolve(l) \/ Reject(l)

Next ==
    \/ \E k \in Keys : Write(k)
    \/ \E c \in Calls, k \in Keys : Hit(c, k) \/ \E l \in Loads : Miss(c, k, l)
    \/ \E l \in Loads : Settle(l)
    \/ Tick

\* DynamoDB answers or the SDK gives up.
Fairness == \A l \in Loads : WF_vars(Settle(l))

Spec == Init /\ [][Next]_vars /\ Fairness

-----------------------------------------------------------------------------
(* Properties. *)

Answered(c) == c \in made /\ state[got[c]] = "resolved"

\* A call never gets a row that was replaced a whole lifetime, and the reads'
\* lag, before the call: updates take no longer to reach a container, however
\* long loads take and in whatever order they settle.
NeverTooOld ==
    \A c \in Calls : Answered(c) =>
      until[key[got[c]]][value[got[c]]] + Ttl + Lag > when[c]

\* A failed load is never what the next caller finds, and an old failure never
\* leaves a later load's entry dangling.
NoFailureCached ==
    \A k \in Keys : entry[k] # NoLoad =>
      key[entry[k]] = k /\ state[entry[k]] \in {"pending", "read", "resolved"}

\* A load that settles, well or badly, never takes away the entry of another.
OnlyOwnEviction ==
    [][\A k \in Keys : entry[k] # NoLoad /\ entry'[k] = NoLoad =>
         state'[entry[k]] = "rejected" /\ state[entry[k]] # "rejected"]_vars

\* Callers share the load in flight: a second one for the same key begins only
\* when the first is older than the lifetime of an entry.
LoadsCoalesce ==
    \A l1, l2 \in Loads :
      l1 # l2 /\ Busy(l1) /\ Busy(l2) /\ key[l1] = key[l2] =>
        start[l1] + Ttl <= start[l2] \/ start[l2] + Ttl <= start[l1]

-----------------------------------------------------------------------------
(* The inductive invariant. *)

\* Entries belong to loads of their key and bear their expiry.
EntryInv ==
    \A k \in Keys : entry[k] # NoLoad =>
      /\ key[entry[k]] = k /\ expiry[k] = start[entry[k]] + Ttl
      /\ state[entry[k]] \in {"pending", "read", "resolved"}

\* A load in flight is its key's entry, or the entry is at least a lifetime
\* younger, or it was evicted by its own failure after that.
BusyInv ==
    \A l \in Loads :
      /\ start[l] <= now
      /\ Busy(l) /\ entry[key[l]] # l =>
           /\ start[l] + Ttl <= now
           /\ entry[key[l]] # NoLoad => start[l] + Ttl <= start[entry[key[l]]]

\* Versions are replaced in order, and loads read what was current.
ReadInv ==
    /\ \A k \in Keys : \A v \in Versions : v >= row[k] => until[k][v] = Never
    /\ \A l \in Loads :
         state[l] \in {"read", "resolved"} => start[l] <= until[key[l]][value[l]] + Lag

\* A call got a load that had started less than a lifetime ago.
CallInv ==
    \A c \in made :
      /\ got[c] \in Loads /\ when[c] <= now
      /\ state[got[c]] # "unused" /\ when[c] < start[got[c]] + Ttl

CacheInv == EntryInv /\ BusyInv /\ ReadInv /\ CallInv /\ LoadsCoalesce

=============================================================================
