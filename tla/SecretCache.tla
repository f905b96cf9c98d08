---------------------------- MODULE SecretCache ------------------------------
(***************************************************************************)
(* Secret resolution: resolveSecret and resolveParameter over AWS,         *)
(* resolveScalewaySecret over Scaleway, and the SecretCache they share: an *)
(* LRU cache with a TTL that hands out the very buffers it owns and zeroes *)
(* them when an entry goes.  Calls await the provider, so two misses for   *)
(* one key may overlap.                                                    *)
(***************************************************************************)
EXTENDS Naturals, Sequences, FiniteSets

CONSTANTS Refs,           \* secrets and parameters, one cache key each
          Resolvers,      \* calls of a resolver
          MaxEntries,     \* maxEntries
          SecretTtl,      \* ttlSeconds
          SecretAttempts, \* attempts of transientRetry
          SecretMaxTime

ASSUME SecretAssumption == {MaxEntries, SecretTtl, SecretAttempts, SecretMaxTime} \subseteq Nat

Providers == {"secretsManager", "ssm", "scaleway"}

(***************************************************************************)
(* What a provider's answer becomes.  An answer is "value", a value of the *)
(* wrong shape, or an error by name or by HTTP status.                     *)
(***************************************************************************)
ProviderAnswers(p) ==
    {"value", "noValue", "network"} \cup
    (IF p = "scaleway" THEN {"404", "401", "403", "408", "429", "500", "400", "notJson"}
     ELSE {"NotFound", "AccessDenied", "UnrecognizedClient", "DecryptionFailure", "Throttling",
           "InternalServiceError", "Timeout", "Validation"})

ClassifySecretsError(a) ==
    CASE a = "NotFound" -> "SecretsNotFound"
      [] a \in {"AccessDenied", "UnrecognizedClient", "DecryptionFailure"} -> "SecretsAccessDenied"
      [] a \in {"Throttling", "InternalServiceError", "Timeout"} -> "SecretsTransient"
      [] OTHER -> "SecretsResolve"

ClassifyParameterError(a) ==
    CASE a \in {"NotFound", "noValue"} -> "ParameterNotFound"
      [] a \in {"AccessDenied", "UnrecognizedClient"} -> "ParameterAccessDenied"
      [] a \in {"Throttling", "InternalServiceError", "Timeout"} -> "SecretsTransient"
      [] OTHER -> "SecretsResolve"

ClassifyStatus(a) ==
    CASE a = "404" -> "SecretsNotFound"
      [] a \in {"401", "403"} -> "SecretsAccessDenied"
      [] a \in {"408", "429", "500", "network"} -> "SecretsTransient"
      [] OTHER -> "SecretsResolve"

ClassifyError(p, a) == CASE p = "secretsManager" -> ClassifySecretsError(a)
                    [] p = "ssm" -> ClassifyParameterError(a)
                    [] p = "scaleway" -> ClassifyStatus(a)

\* transientRetry: AWS errors are retried unless their name is terminal, which
\* Secrets Manager's ResourceNotFoundException is and SSM's ParameterNotFound is
\* not; Scaleway statuses only when they are transient.
Retried(p, a) ==
    IF p = "scaleway" THEN a \in {"408", "429", "500", "network"}
    ELSE /\ a \notin {"value", "noValue", "AccessDenied"}
         /\ ~(p = "secretsManager" /\ a = "NotFound")

VARIABLES secretNow,
          lru,     \* the Map of the cache: its keys, least recently used first
          slot,    \* per key in it: the buffer and its expiry
          made,    \* how many buffers were made: buffers are 1 .. made
          zeroed,  \* those that were zeroed
          pending  \* per call: the key, how often it was asked, what it returned

secretVars == <<secretNow, lru, slot, made, zeroed, pending>>

NoSlot == [buffer |-> 0, expires |-> 0]
Waiting == [state |-> "new", ref |-> "none", tries |-> 0, buffer |-> 0]

SecretInit ==
    /\ secretNow = 0
    /\ lru = <<>>
    /\ slot = [r \in Refs |-> NoSlot]
    /\ made = 0 /\ zeroed = {}
    /\ pending = [c \in Resolvers |-> Waiting]

\* Map.delete: a Map has a key at most once, and the others keep their order.
Without(keys, r) ==
    IF \A i \in 1 .. Len(keys) : keys[i] # r THEN keys
    ELSE LET at == CHOOSE i \in 1 .. Len(keys) : keys[i] = r
         IN  [i \in 1 .. Len(keys) - 1 |-> IF i < at THEN keys[i] ELSE keys[i + 1]]

\* Map.delete and Map.set: the key is the most recently used one.
Touched(keys, r) == Append(Without(keys, r), r)

Fill0(dead) == zeroed' = zeroed \cup dead

\* evictKey: the buffer is zeroed and the entry removed.
EvictKey(r) ==
    /\ Fill0({slot[r].buffer})
    /\ lru' = Without(lru, r)
    /\ slot' = [slot EXCEPT ![r] = NoSlot]

Cached(r) == slot[r] # NoSlot
Expired(r) == slot[r].expires <= secretNow

\* A call begins: a hit returns the cached buffer and moves it to the end of
\* the LRU order; fresh and an expired entry evict; then the provider is asked.
ResolveSecret(c, r, fresh) ==
    /\ pending[c].state = "new"
    /\ IF Cached(r) /\ ~fresh /\ ~Expired(r)
       THEN /\ lru' = Touched(lru, r)
            /\ pending' = [pending EXCEPT ![c] = [state |-> "hit", ref |-> r, tries |-> 0,
                                                  buffer |-> slot[r].buffer]]
            /\ UNCHANGED <<zeroed, slot>>
       ELSE /\ IF Cached(r) THEN EvictKey(r) ELSE UNCHANGED <<zeroed, lru, slot>>
            /\ pending' = [pending EXCEPT ![c] = [state |-> "asking", ref |-> r, tries |-> 1,
                                                  buffer |-> 0]]
    /\ UNCHANGED <<secretNow, made>>

\* The provider reads the secret; the answer travels back.
Read(c) ==
    /\ pending[c].state = "asking"
    /\ made' = made + 1
    /\ pending' = [pending EXCEPT ![c] = [@ EXCEPT !.state = "answered", !.buffer = made + 1]]
    /\ UNCHANGED <<secretNow, lru, slot, zeroed>>

\* An error is asked again or thrown, by class; nothing is cached.
ProviderFails(c, p, a) ==
    /\ pending[c].state = "asking"
    /\ pending' = IF Retried(p, a) /\ pending[c].tries < SecretAttempts
                  THEN [pending EXCEPT ![c] = [@ EXCEPT !.tries = pending[c].tries + 1]]
                  ELSE [pending EXCEPT ![c] = [@ EXCEPT !.state = ClassifyError(p, a)]]
    /\ UNCHANGED <<secretNow, lru, slot, made, zeroed>>

ReplacedLeaks(r) == {}

\* set(): the buffer an entry already holds for the key is zeroed first.
Replaced(r) == IF Cached(r) THEN {slot[r].buffer} ELSE {}

\* evictOverflow: the least recently used entries over the bound.
Overflow(keys) == IF Len(keys) > MaxEntries THEN {keys[1]} ELSE {}

StoreSecret(c) ==
    /\ pending[c].state = "answered"
    /\ LET r    == pending[c].ref
           keys == Touched(lru, r)
           out  == Overflow(keys)
           full == [slot EXCEPT ![r] = [buffer |-> pending[c].buffer, expires |-> secretNow + SecretTtl]]
       IN  /\ lru' = IF out = {} THEN keys ELSE Without(keys, keys[1])
           /\ slot' = [k \in Refs |-> IF k \in out THEN NoSlot ELSE full[k]]
           /\ Fill0(Replaced(r) \cup {full[k].buffer : k \in out})
    /\ pending' = [pending EXCEPT ![c] = [@ EXCEPT !.state = "resolved"]]
    /\ UNCHANGED <<secretNow, made>>

\* clear(), the reset of the default caches.
Clear ==
    /\ lru # <<>>
    /\ Fill0({slot[r].buffer : r \in {k \in Refs : Cached(k)}})
    /\ lru' = <<>>
    /\ slot' = [r \in Refs |-> NoSlot]
    /\ UNCHANGED <<secretNow, made, pending>>

SecretTick == /\ secretNow < SecretMaxTime
              /\ secretNow' = secretNow + 1
              /\ UNCHANGED <<lru, slot, made, zeroed, pending>>

SecretNext ==
    \/ \E c \in Resolvers : \/ \E r \in Refs, fresh \in BOOLEAN : ResolveSecret(c, r, fresh)
                            \/ Read(c) \/ StoreSecret(c)
                            \/ \E p \in Providers : \E a \in ProviderAnswers(p) \ {"value"} : ProviderFails(c, p, a)
    \/ Clear \/ SecretTick

SecretSpec == SecretInit /\ [][SecretNext]_secretVars

\* "The only secure-erase guarantee this class offers is 'eviction zeroes the
\* buffer the cache owns'": when a key's entry goes, by whatever of expiry,
\* fresh, replacement by an overlapping miss, overflow or clear, its bytes are
\* zeroed, and an entry that is still served never has been.
CacheOwnsItsBytes ==
    LET owned == {slot[r].buffer : r \in {k \in Refs : Cached(k)}}
        given == {pending[c].buffer : c \in {d \in Resolvers : pending[d].state = "answered"}}
    IN  /\ \A b \in 1 .. made : b \notin given => (b \in zeroed <=> b \notin owned)
        /\ Cardinality(owned) = Len(lru) /\ Len(lru) <= MaxEntries
=============================================================================
