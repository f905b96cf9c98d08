----------------------------- MODULE CostGuard -------------------------------
(***************************************************************************)
(* installCostDosGuard: an alarm on the mails sent in an hour, the topic   *)
(* it publishes to and the self-defence Lambda that closes self-sign-up    *)
(* with DescribeUserPool and UpdateUserPool.  CloudWatch, SNS, Lambda's    *)
(* retries and UpdateUserPool's replacing semantics are external.          *)
(***************************************************************************)
EXTENDS Naturals, FiniteSets, Functions

CONSTANTS SendsPerHourCap,   \* alarm threshold
          MaxSends,          \* bound: mails in an hour
          MaxHours,          \* bound
          DeliveryAttempts,  \* Lambda's attempts at one notification
          MaxEdits           \* bound: changes an operator makes to the pool

VARIABLES sends,     \* mails of the hour
          hour, alarmState,
          notices,   \* undelivered notifications, by hour, with the attempts made
          dropped,   \* notifications whose every attempt failed; there is no dead-letter queue
          handler,   \* the one self-defence invocation: its notice and what it described
          userPool, edits
guardVars == <<sends, hour, alarmState, notices, dropped, handler, userPool, edits>>

\* The pool's settings: the ones the handler carries over, and the others
\* UpdateUserPool can set.
Carried == {"Policies", "AutoVerifiedAttributes", "UserAttributeUpdateSettings",
            "MfaConfiguration", "DeviceConfiguration", "EmailConfiguration",
            "SmsConfiguration", "UserPoolTags", "AccountRecoverySetting"}
Others == {"LambdaConfig", "UserPoolAddOns", "UserPoolTier", "DeletionProtection"}
Settings == Carried \cup Others \cup {"AdminCreateUserConfig"}
DefaultOf(s) == IF s = "AdminCreateUserConfig" THEN "anyone" ELSE "default"

Idle == [notice |-> 0, read |-> <<>>]

\* A pool as MagicLinkIdentity or SharedDistributionIdentity deployed it for
\* self-sign-up; the alarm starts silent.
GuardInit ==
    /\ sends = 0 /\ hour = 1 /\ alarmState = "OK"
    /\ notices = <<>> /\ dropped = {} /\ handler = Idle /\ edits = 0
    /\ userPool = [s \in Settings |-> IF s = "AdminCreateUserConfig" THEN "anyone" ELSE "deployed"]

Mail ==
    /\ sends < MaxSends /\ sends' = sends + 1
    /\ UNCHANGED <<hour, alarmState, notices, dropped, handler, userPool, edits>>

\* Sum over one hour, one evaluation period, strictly above the threshold;
\* missing data does not breach.
Breaches(sum) == sum > SendsPerHourCap

\* The alarm's one action runs when it goes off, not while it stays on.
AlarmSilent(now) == {}
Notified(now) == IF now = "ALARM" /\ alarmState = "OK" THEN {hour} ELSE {}
HourEnds ==
    /\ hour < MaxHours
    /\ LET now == IF Breaches(sends) THEN "ALARM" ELSE "OK" IN
       /\ alarmState' = now
       /\ notices' = [h \in DOMAIN notices \cup Notified(now) |->
                        IF h \in DOMAIN notices THEN notices[h] ELSE 0]
    /\ hour' = hour + 1 /\ sends' = 0
    /\ UNCHANGED <<dropped, handler, userPool, edits>>

-----------------------------------------------------------------------------
(* The self-defence handler: one execution at a time                       *)

\* An invocation starts and reads the pool's settings; nothing in the message is
\* looked at, and SNS never sends an empty one.
Describe(h) ==
    /\ handler = Idle /\ h \in DOMAIN notices
    /\ handler' = [notice |-> h, read |-> userPool]
    /\ notices' = [notices EXCEPT ![h] = @ + 1]
    /\ UNCHANGED <<sends, hour, alarmState, dropped, userPool, edits>>

\* UpdateUserPool replaces: a setting the call leaves out goes to its default.
CarriedOver(read) ==
    [s \in Settings |-> IF s = "AdminCreateUserConfig" THEN "administrators"
                        ELSE IF s \in Carried THEN read[s] ELSE DefaultOf(s)]
AlreadyDisabled(read) == read["AdminCreateUserConfig"] = "administrators"
Flipped == IF AlreadyDisabled(handler.read) THEN userPool ELSE CarriedOver(handler.read)

Settled(h) == Restrict(notices, DOMAIN notices \ {h})
Update ==
    /\ handler # Idle
    /\ userPool' = Flipped
    /\ notices' = Settled(handler.notice)
    /\ handler' = Idle
    /\ UNCHANGED <<sends, hour, alarmState, dropped, edits>>

\* Either call fails, or the update is made and its answer lost: the invocation
\* throws, Lambda asks again while attempts are left and then drops the event.
HandlerFails ==
    /\ handler # Idle
    /\ userPool' \in {userPool, Flipped}
    /\ IF notices[handler.notice] < DeliveryAttempts
       THEN UNCHANGED <<notices, dropped>>
       ELSE notices' = Settled(handler.notice) /\ dropped' = dropped \cup {handler.notice}
    /\ handler' = Idle
    /\ UNCHANGED <<sends, hour, alarmState, edits>>

\* An operator edits the pool: opens sign-up again, or changes something else.
Edit(s, v) ==
    /\ edits < MaxEdits /\ userPool[s] # v
    /\ userPool' = [userPool EXCEPT ![s] = v] /\ edits' = edits + 1
    /\ UNCHANGED <<sends, hour, alarmState, notices, dropped, handler>>

GuardNext ==
    \/ Mail \/ HourEnds \/ Update \/ HandlerFails
    \/ \E h \in DOMAIN notices : Describe(h)
    \/ Edit("AdminCreateUserConfig", "anyone") \/ Edit("MfaConfiguration", "edited")

\* Hours end, notifications are delivered, the handler runs on.
GuardProgress == Update \/ HourEnds \/ \E h \in DOMAIN notices : Describe(h)

GuardSpec == GuardInit /\ [][GuardNext]_guardVars /\ WF_guardVars(GuardProgress)

-----------------------------------------------------------------------------
(* Properties                                                              *)

\* An hour that sent more mail than the cap, with the alarm not yet on, closes
\* sign-up in the end, whatever an operator does meanwhile and whichever calls fail
\* or lose their answer, unless every attempt at a notification failed: the alarm
\* acts only when it goes on, and nothing keeps a notification Lambda gave up.
SpikeClosesSignUp ==
    (alarmState = "OK" /\ Breaches(sends) /\ hour < MaxHours /\ dropped = {})
        ~> (userPool["AdminCreateUserConfig"] = "administrators" \/ dropped # {})

\* The self-defence changes nothing but who may sign up.  The handler's comment
\* says it carries "the current settings through" and flips "only the one field".
OnlySignUpFlips ==
    [][Update => \A s \in Settings \ {"AdminCreateUserConfig"} : userPool'[s] = userPool[s]]_guardVars
=============================================================================
