---------------------------- MODULE SealedCookies ----------------------------
(***************************************************************************)
(* SessionCookie of the foundation package under the rolling rotation of   *)
(* its secret that 04-session-crypto.md describes: several processes, each *)
(* with its own instance, seal and unseal the cookie of one browser while  *)
(* deployments replace them one by one.                                    *)
(*                                                                         *)
(* A secret is a number, in the order of their introduction; 0 stands for  *)
(* no fallback.  An instance never changes but for the two key promises it *)
(* keeps, so a call of seal or unseal is one step.  AES-GCM opens an       *)
(* envelope exactly under the key that sealed it.                          *)
(***************************************************************************)
EXTENDS Integers, FiniteSets

CONSTANTS
    SealHosts,        \* processes behind one load balancer
    SealLife,         \* the consumer's maximal session lifetime, in ticks
    SealFaults,       \* "derive": WebCrypto may fail to derive a key
    MaxSecret,        \* bound: secrets ever used
    SealMaxTime       \* bound: the clock stops here

ASSUME SealAssumption ==
    /\ SealHosts # {} /\ SealLife \in Nat \ {0} /\ SealFaults \subseteq {"derive"}
    /\ MaxSecret \in Nat \ {0} /\ SealMaxTime \in Nat

VARIABLES
    sealNow,
    wanted,     \* the deployed configuration, and its number
    settled,    \* history: since when every process has been running it
    instance,   \* the SessionCookie of each process
    cookie,     \* what the browser holds
    verdict     \* history: the last request that carried the cookie

sealVars == <<sealNow, wanted, settled, instance, cookie, verdict>>

\* The constructor: secrets are kept and no key is derived yet.
NewSessionCookie(config) ==
    [config |-> config, primaryKey |-> "unset", fallbackKey |-> "unset"]

NoSealed == [secret |-> 0, no |-> 0, at |-> 0, body |-> "none"]

Unsent == [of |-> "nothing", failed |-> FALSE, alive |-> FALSE, intact |-> FALSE, newer |-> FALSE]

SealInit ==
    /\ sealNow = 0
    /\ wanted = [no |-> 1, primary |-> 1, fallback |-> 0]
    /\ settled = 0
    /\ instance = [h \in SealHosts |-> NewSessionCookie(wanted)]
    /\ cookie = NoSealed /\ verdict = Unsent

-----------------------------------------------------------------------------
\* getPrimaryKey, getFallbackKey: the promise of the first derivation is kept,
\* also when it was rejected.
Derived(state) ==
    IF state # "unset" THEN {state}
    ELSE {"ready"} \union (IF "derive" \in SealFaults THEN {"failed"} ELSE {})

\* Mutant: while a fallback is set, new cookies are sealed under the old secret.
SealingSecretOld(config) == IF config.fallback # 0 THEN config.fallback ELSE config.primary

SealingSecret(config) == config.primary

\* What is sealed: a payload that sealJson made JSON of, or any text given to seal.
SealedBodies == {"payload", "text"}

\* seal of some text, or sealJson of a payload: under the primary key; a failed
\* derivation is a SealError.
Seal(h) ==
    \E pk \in Derived(instance[h].primaryKey), body \in SealedBodies :
      /\ instance' = [instance EXCEPT ![h].primaryKey = pk]
      /\ cookie' = IF pk = "failed" THEN cookie
                   ELSE [secret |-> SealingSecret(instance[h].config),
                         no |-> instance[h].config.no, at |-> sealNow, body |-> body]
      /\ UNCHANGED <<sealNow, wanted, settled, verdict>>

\* unseal of the envelope with one key: the plaintext, or null for a wrong key and
\* for an envelope that is not intact.
Opens(token, secret) == token.body # "tampered" /\ token.secret = secret

\* Mutant: the fallback is not tried.
UnsealPrimaryOnly(token, config, pk, fk) ==
    IF pk = "failed" THEN "throws" ELSE IF Opens(token, config.primary) THEN "plaintext" ELSE "null"

\* unseal: the primary key, then the fallback if there is one.
Unseal(token, config, pk, fk) ==
    CASE pk = "failed"                    -> "throws"
      [] pk = "ready" /\ Opens(token, config.primary)
                                          -> "plaintext"
      [] pk = "ready" /\ ~Opens(token, config.primary) /\ config.fallback = 0
                                          -> "null"
      [] OTHER                            ->
           IF fk = "failed" THEN "throws"
           ELSE IF Opens(token, config.fallback) THEN "plaintext" ELSE "null"

\* The fallback's key is derived only when it is needed.
NeedsFallback(token, config, pk) ==
    pk = "ready" /\ ~Opens(token, config.primary) /\ config.fallback # 0

\* unsealJson: what decrypts must be JSON of the consumer's schema.
UnsealJson(token, plaintext) ==
    IF plaintext # "plaintext" THEN plaintext
    ELSE IF token.body = "payload" THEN "session" ELSE "UnsealError"

\* A request with the browser's cookie, as it is or changed on the way.
Carry(h) ==
    /\ cookie # NoSealed
    /\ \E body \in {cookie.body, "tampered"}, pk \in Derived(instance[h].primaryKey) :
         LET token == [cookie EXCEPT !.body = body]
             config == instance[h].config
         IN  \E fk \in IF NeedsFallback(token, config, pk)
                       THEN Derived(instance[h].fallbackKey) ELSE {instance[h].fallbackKey} :
               /\ instance' = [instance EXCEPT ![h] = [@ EXCEPT !.primaryKey = pk, !.fallbackKey = fk]]
               /\ verdict' = [of |-> UnsealJson(token, Unseal(token, config, pk, fk)),
                              failed |-> "failed" \in {pk, fk},
                              alive |-> sealNow < cookie.at + SealLife,
                              intact |-> body # "tampered", newer |-> config.no < cookie.no]
    /\ UNCHANGED <<sealNow, wanted, settled, cookie>>

\* A process begins with the deployed configuration, or crashes and comes back
\* with the one it had.
Restart(h) ==
    /\ \E config \in {wanted, instance[h].config} :
         instance' = [instance EXCEPT ![h] = NewSessionCookie(config)]
    /\ settled' = IF /\ \A g \in SealHosts : instance'[g].config = wanted
                     /\ \E g \in SealHosts : instance[g].config # wanted
                  THEN sealNow ELSE settled
    /\ UNCHANGED <<sealNow, wanted, cookie, verdict>>

RolledOut == \A h \in SealHosts : instance[h].config = wanted

\* "Day 1: deploy with { primary: v2, fallback: v1 }."
RotateIn ==
    /\ RolledOut /\ wanted.fallback = 0 /\ wanted.primary < MaxSecret
    /\ wanted' = [no |-> wanted.no + 1, primary |-> wanted.primary + 1,
                  fallback |-> wanted.primary]
    /\ UNCHANGED <<sealNow, settled, instance, cookie, verdict>>

\* "Day 8 (after session-max-lifetime expires older cookies)": the last of them
\* was sealed before the last process was replaced.
RotateOut ==
    /\ RolledOut /\ wanted.fallback # 0 /\ sealNow >= settled + SealLife
    /\ wanted' = [no |-> wanted.no + 1, primary |-> wanted.primary, fallback |-> 0]
    /\ UNCHANGED <<sealNow, settled, instance, cookie, verdict>>

SealTick ==
    /\ sealNow < SealMaxTime /\ sealNow' = sealNow + 1
    /\ UNCHANGED <<wanted, settled, instance, cookie, verdict>>

SealNext ==
    \/ \E h \in SealHosts : Seal(h) \/ Carry(h) \/ Restart(h)
    \/ RotateIn \/ RotateOut \/ SealTick

SealSpec == SealInit /\ [][SealNext]_sealVars

-----------------------------------------------------------------------------
(* Properties. *)

\* Rotating the secret the documented way ends no session: an intact cookie within
\* its lifetime is refused only by a process that is older than the one that sealed
\* it, while a deployment is under way, or that could not derive its keys; and the
\* browser of a tampered one is never told more than that there is no session.
\* (The document promises that "a rolling rotation does not invalidate live
\* sessions" without that exception.)
SessionsSurviveRotation ==
    /\ verdict.of \in {"null", "throws"} /\ verdict.intact /\ verdict.alive =>
         verdict.newer \/ verdict.failed
    /\ verdict.of \in {"session", "UnsealError"} => verdict.intact

=============================================================================
