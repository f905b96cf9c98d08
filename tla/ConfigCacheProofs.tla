-------------------------- MODULE ConfigCacheProofs --------------------------
(***************************************************************************)
(* Proofs about ConfigCache, for all keys, calls, loads and lifetimes.  The *)
(* inductive invariant is TypeOK /\ CacheInv: an entry bears the expiry of *)
(* its own load, a load that is in flight without being the entry is older *)
(* than a lifetime, and what a load read was replaced, if at all, after    *)
(* the load began, give or take the lag of its read.                       *)
(***************************************************************************)
EXTENDS ConfigCache, TLAPS

\* The empty cache is well typed.
LEMMA TypeInit == Init => TypeOK
  BY CacheAssumption DEF Init, TypeOK, Versions, Never, LoadStates

\* Every step keeps it well typed.
LEMMA TypeStep == TypeOK /\ [Next]_vars => TypeOK'
<1> SUFFICES ASSUME TypeOK, [Next]_vars PROVE TypeOK'
  OBVIOUS
<1> USE CacheAssumption DEF TypeOK, table, cache, loads, calls, LoadStates
<1>1. ASSUME NEW k \in Keys, Write(k) PROVE TypeOK'
  <2>1. row[k] \in Versions /\ row[k] + 1 \in Versions /\ now \in 0..Never
    <3>1. row[k] \in 0..MaxWrites /\ row[k] < MaxWrites /\ now \in 0..MaxTime
      BY <1>1 DEF Write, Versions
    <3> HIDE DEF TypeOK
    <3> QED  BY <3>1 DEF Versions, Never
  <2>2. until' \in [Keys -> [Versions -> 0..Never]]
    BY <1>1, <2>1 DEF Write
  <2> QED  BY <1>1, <2>1, <2>2 DEF Write
<1>2. ASSUME NEW c \in Calls, NEW k \in Keys, Hit(c, k) PROVE TypeOK'
  BY <1>2 DEF Hit, Made
<1>3. ASSUME NEW c \in Calls, NEW k \in Keys, NEW l \in Loads, Miss(c, k, l)
      PROVE  TypeOK'
  BY <1>3 DEF Miss, Made
<1>4. ASSUME NEW l \in Loads, Settle(l) PROVE TypeOK'
  <2>1. CASE Read(l)
    <3>1. PICK v \in 0..row[key[l]] : value' = [value EXCEPT ![l] = v]
      BY <2>1 DEF Read
    <3>2. v \in Versions
      <4>1. key[l] \in Keys /\ row[key[l]] \in 0..MaxWrites
        BY DEF Versions
      <4> HIDE DEF TypeOK
      <4> QED  BY <4>1 DEF Versions
    <3> QED  BY <2>1, <3>1, <3>2 DEF Read
  <2>2. CASE Resolve(l)
    BY <2>2 DEF Resolve
  <2>3. CASE Reject(l)
    <3>1. entry' \in [Keys -> Loads \union {NoLoad}]
      BY <2>3 DEF Reject
    <3> QED  BY <2>3, <3>1 DEF Reject
  <2> QED  BY <1>4, <2>1, <2>2, <2>3 DEF Settle
<1>5. CASE Tick
  BY <1>5 DEF Tick
<1>6. CASE UNCHANGED vars
  BY <1>6 DEF vars
<1> QED
  BY <1>1, <1>2, <1>3, <1>4, <1>5, <1>6 DEF Next

\* The cache, its loads and its calls stay well typed.
THEOREM TypeCorrect == Spec => []TypeOK
  BY TypeInit, TypeStep, PTL DEF Spec

\* The arithmetic of clocks and versions.
LEMMA Numbers ==
    ASSUME TypeOK
    PROVE  /\ now \in Nat /\ Ttl \in Nat /\ Never \in Nat /\ now < Never
           /\ \A l \in Loads : start[l] \in Nat /\ key[l] \in Keys /\ value[l] \in Versions
           /\ \A k \in Keys : row[k] \in Nat /\ row[k] \in Versions /\ expiry[k] \in Nat
           /\ \A k \in Keys : \A v \in Versions : until[k][v] \in Nat /\ v \in Nat
  BY CacheAssumption DEF TypeOK, Versions, Never

\* Before the first call nothing is cached and nothing was replaced.
LEMMA CacheInit == Init => CacheInv
<1> SUFFICES ASSUME Init PROVE CacheInv
  OBVIOUS
<1>1. TypeOK
  BY TypeInit
<1> QED
  BY <1>1, Numbers
     DEF Init, CacheInv, EntryInv, BusyInv, ReadInv, CallInv, LoadsCoalesce, Busy

\* Every step keeps entries, loads, readings and calls in order.
LEMMA CacheStep == TypeOK /\ TypeOK' /\ CacheInv /\ [Next]_vars => CacheInv'
<1> SUFFICES ASSUME TypeOK, TypeOK', CacheInv, [Next]_vars PROVE CacheInv'
  OBVIOUS
<1> USE CacheAssumption, Numbers DEF table, cache, loads, calls, Busy
<1>1. ASSUME NEW k \in Keys, Write(k) PROVE CacheInv'
  <2>1. EntryInv' /\ BusyInv' /\ CallInv' /\ LoadsCoalesce'
    BY <1>1 DEF Write, CacheInv, EntryInv, BusyInv, CallInv, LoadsCoalesce
  <2>2. /\ row'[k] = row[k] + 1 /\ until'[k][row[k]] = now
        /\ \A v \in Versions \ {row[k]} : until'[k][v] = until[k][v]
        /\ \A j \in Keys \ {k} : row'[j] = row[j] /\ until'[j] = until[j]
    BY <1>1 DEF Write, TypeOK
  <2>3. ReadInv'
    BY <1>1, <2>2 DEF Write, CacheInv, ReadInv, BusyInv
  <2> QED  BY <2>1, <2>3 DEF CacheInv
<1>2. ASSUME NEW c \in Calls, NEW k \in Keys, Hit(c, k) PROVE CacheInv'
  <2>1. EntryInv' /\ BusyInv' /\ ReadInv' /\ LoadsCoalesce'
    BY <1>2 DEF Hit, CacheInv, EntryInv, BusyInv, ReadInv, LoadsCoalesce
  <2>2. CallInv'
    <3>1. /\ got'[c] = entry[k] /\ when'[c] = now /\ now' = now /\ made' = made \union {c}
          /\ \A o \in Calls \ {c} : got'[o] = got[o] /\ when'[o] = when[o]
          /\ start' = start /\ state' = state /\ c \notin made
      BY <1>2 DEF Hit, Made, TypeOK
    <3>2. entry[k] \in Loads /\ state[entry[k]] # "unused" /\ now < start[entry[k]] + Ttl
      BY <1>2 DEF Hit, Live, CacheInv, EntryInv, TypeOK
    <3> QED  BY <3>1, <3>2 DEF CacheInv, CallInv, TypeOK
  <2> QED  BY <2>1, <2>2 DEF CacheInv
<1>3. ASSUME NEW c \in Calls, NEW k \in Keys, NEW l \in Loads, Miss(c, k, l)
      PROVE  CacheInv'
  <2>1. /\ entry'[k] = l /\ expiry'[k] = now + Ttl /\ state'[l] = "pending"
        /\ key'[l] = k /\ start'[l] = now /\ state[l] = "unused"
        /\ \A j \in Keys \ {k} : entry'[j] = entry[j] /\ expiry'[j] = expiry[j]
        /\ \A m \in Loads \ {l} : state'[m] = state[m] /\ key'[m] = key[m] /\ start'[m] = start[m]
        /\ now' = now /\ value' = value /\ row' = row /\ until' = until
    BY <1>3 DEF Miss, TypeOK
  <2>2. EntryInv'
    <3>1. \A j \in Keys : entry[j] # NoLoad => entry[j] \in Loads \ {l}
      BY <2>1, ZenonT(60) DEF CacheInv, EntryInv, TypeOK
    <3>2. \A j \in Keys \ {k} : entry'[j] # NoLoad =>
            /\ key'[entry'[j]] = j /\ expiry'[j] = start'[entry'[j]] + Ttl
            /\ state'[entry'[j]] \in {"pending", "read", "resolved"}
      BY <2>1, <3>1 DEF CacheInv, EntryInv
    <3> QED  BY <2>1, <3>2 DEF EntryInv
  <2>3. \A m \in Loads \ {l} : Busy(m) /\ key[m] = k => start[m] + Ttl <= now
    BY <1>3 DEF Miss, Live, CacheInv, EntryInv, BusyInv
  <2>4. BusyInv'
    <3>1. \A m \in Loads : start'[m] <= now'
      BY <2>1 DEF CacheInv, BusyInv
    <3>2. ASSUME NEW m \in Loads, Busy(m)', entry'[key'[m]] # m
          PROVE  /\ start'[m] + Ttl <= now'
                 /\ entry'[key'[m]] # NoLoad => start'[m] + Ttl <= start'[entry'[key'[m]]]
      <4>1. m # l /\ Busy(m)
        BY <2>1, <3>2
      <4>2. CASE key[m] = k
        BY <2>1, <2>3, <4>1, <4>2
      <4>3. CASE key[m] # k
        <5>1. key[m] \in Keys \ {k} /\ entry'[key[m]] = entry[key[m]] /\ entry[key[m]] # m
          BY <2>1, <3>2, <4>1, <4>3
        <5>2. entry[key[m]] # NoLoad => entry[key[m]] \in Loads \ {l}
          BY <2>1, <5>1, ZenonT(60) DEF CacheInv, EntryInv, TypeOK
        <5> QED  BY <2>1, <4>1, <5>1, <5>2 DEF CacheInv, BusyInv
      <4> QED  BY <4>2, <4>3
    <3> QED  BY <3>1, <3>2 DEF BusyInv
  <2>5. ReadInv'
    BY <2>1 DEF CacheInv, ReadInv
  <2>6. CallInv'
    BY <1>3, <2>1 DEF Miss, Made, CacheInv, CallInv, TypeOK
  <2>7. LoadsCoalesce'
    BY <2>1, <2>3 DEF CacheInv, LoadsCoalesce
  <2> QED  BY <2>2, <2>4, <2>5, <2>6, <2>7 DEF CacheInv
<1>4. ASSUME NEW l \in Loads, Settle(l) PROVE CacheInv'
  <2>1. CASE Read(l)
    <3>1. /\ state[l] = "pending" /\ state'[l] = "read"
          /\ now <= until[key[l]][value'[l]] + Lag
          /\ \A m \in Loads \ {l} : state'[m] = state[m] /\ value'[m] = value[m]
          /\ UNCHANGED <<now, table, cache, key, start, calls>>
      BY <2>1 DEF Read, TypeOK
    <3>2. EntryInv' /\ BusyInv'
      <4>1. \A m \in Loads : Busy(m)' <=> Busy(m)
        BY <3>1
      <4>2. BusyInv'
        BY <3>1, <4>1 DEF CacheInv, BusyInv
      <4>3. \A m \in Loads : state[m] \in {"pending", "read", "resolved"}
                               => state'[m] \in {"pending", "read", "resolved"}
        BY <3>1
      <4>4. EntryInv'
        BY <3>1, <4>3 DEF CacheInv, EntryInv, TypeOK
      <4> QED  BY <4>2, <4>4
    <3>3. start[l] <= until'[key'[l]][value'[l]] + Lag
      <4>1. start[l] \in Nat /\ start[l] <= now /\ value'[l] \in Versions /\ key[l] \in Keys
        BY TypeStep, <1>4 DEF CacheInv, BusyInv, TypeOK, Next
      <4>2. until[key[l]][value'[l]] \in Nat
        BY <4>1 DEF TypeOK
      <4> QED  BY <3>1, <4>1, <4>2, CacheAssumption
    <3>4. ReadInv'
      BY <3>1, <3>3 DEF CacheInv, ReadInv
    <3>5. CallInv' /\ LoadsCoalesce'
      BY <3>1 DEF CacheInv, CallInv, LoadsCoalesce
    <3> QED  BY <3>2, <3>4, <3>5 DEF CacheInv
  <2>2. CASE Resolve(l)
    BY <2>2 DEF Resolve, CacheInv, EntryInv, BusyInv, ReadInv, CallInv, LoadsCoalesce, TypeOK
  <2>3. CASE Reject(l)
    <3>1. /\ state'[l] = "rejected" /\ \A m \in Loads \ {l} : state'[m] = state[m]
          /\ \A k \in Keys : entry'[k] = entry[k] \/ entry'[k] = NoLoad
          /\ \A k \in Keys : entry[k] = l /\ key[l] = k => entry'[k] = NoLoad
          /\ \A k \in Keys : entry'[k] # entry[k] => entry[k] = l /\ k = key[l]
          /\ UNCHANGED <<now, table, expiry, key, start, value, calls>>
      BY <2>3 DEF Reject, TypeOK
    <3>2. EntryInv'
      BY <3>1 DEF CacheInv, EntryInv, TypeOK
    <3>3. BusyInv'
      BY <3>1 DEF CacheInv, BusyInv, EntryInv, TypeOK
    <3>4. ReadInv' /\ CallInv' /\ LoadsCoalesce'
      BY <3>1 DEF CacheInv, ReadInv, CallInv, LoadsCoalesce
    <3> QED  BY <3>2, <3>3, <3>4 DEF CacheInv
  <2> QED  BY <1>4, <2>1, <2>2, <2>3 DEF Settle
<1>5. CASE Tick \/ UNCHANGED vars
  <2>1. now' \in Nat /\ now <= now' /\ UNCHANGED <<table, cache, loads, calls>>
    BY <1>5 DEF Tick, vars
  <2>2. EntryInv' /\ ReadInv' /\ LoadsCoalesce'
    BY <2>1 DEF CacheInv, EntryInv, ReadInv, LoadsCoalesce
  <2>3. BusyInv'
    BY <2>1 DEF CacheInv, BusyInv
  <2>4. CallInv'
    BY <2>1 DEF CacheInv, CallInv, TypeOK
  <2> QED  BY <2>2, <2>3, <2>4 DEF CacheInv
<1> QED
  BY <1>1, <1>2, <1>3, <1>4, <1>5 DEF Next

\* The inductive invariant holds in every reachable state.
THEOREM InvariantHolds == Spec => [](TypeOK /\ CacheInv)
<1>1. Init => TypeOK /\ CacheInv
  BY TypeInit, CacheInit
<1>2. TypeOK /\ CacheInv /\ [Next]_vars => (TypeOK /\ CacheInv)'
  BY TypeStep, CacheStep
<1> QED
  BY <1>1, <1>2, PTL DEF Spec

\* What a call gets was current less than a lifetime, and the lag, before the call.
THEOREM StalenessBounded == Spec => []NeverTooOld
<1>1. TypeOK /\ CacheInv => NeverTooOld
  <2> SUFFICES ASSUME TypeOK, CacheInv, NEW c \in Calls, Answered(c)
               PROVE  until[key[got[c]]][value[got[c]]] + Ttl + Lag > when[c]
    BY DEF NeverTooOld
  <2>1. got[c] \in Loads /\ when[c] < start[got[c]] + Ttl /\ when[c] \in Nat
    BY DEF Answered, CacheInv, CallInv, TypeOK
  <2>2. start[got[c]] <= until[key[got[c]]][value[got[c]]] + Lag
    BY <2>1 DEF Answered, CacheInv, ReadInv
  <2> QED  BY <2>1, <2>2, Numbers, CacheAssumption
<1> QED
  BY <1>1, InvariantHolds, PTL

\* Failures are never cached, and loads in flight are shared.
THEOREM CacheIsSound == Spec => [](NoFailureCached /\ LoadsCoalesce)
<1>1. CacheInv => NoFailureCached /\ LoadsCoalesce
  BY DEF CacheInv, EntryInv, NoFailureCached
<1> QED
  BY <1>1, InvariantHolds, PTL

\* An old failure never evicts a newer load.
THEOREM EvictsOnlyItself == Spec => OnlyOwnEviction
<1> DEFINE Own == \A k \in Keys : entry[k] # NoLoad /\ entry'[k] = NoLoad =>
                    state'[entry[k]] = "rejected" /\ state[entry[k]] # "rejected"
<1>1. TypeOK /\ CacheInv /\ [Next]_vars => [Own]_vars
  <2> SUFFICES ASSUME TypeOK, Next PROVE Own
    OBVIOUS
  <2> USE CacheAssumption DEF cache
  <2>1. ASSUME NEW l \in Loads, Settle(l) PROVE Own
    BY <2>1 DEF Settle, Read, Resolve, Reject, TypeOK
  <2>2. ASSUME NEW c \in Calls, NEW k \in Keys, NEW l \in Loads, Miss(c, k, l) PROVE Own
    BY <2>2 DEF Miss, TypeOK
  <2>3. ASSUME entry' = entry PROVE Own
    BY <2>3
  <2> QED  BY <2>1, <2>2, <2>3 DEF Next, Write, Hit, Tick
<1> QED
  BY <1>1, InvariantHolds, PTL DEF Spec, OnlyOwnEviction
=============================================================================
