------------------------------ MODULE MagicLink ------------------------------
(***************************************************************************)
(* How a sign-in is finished: POST /auth-verify, Cognito's                 *)
(* RespondToAuthChallenge with the VerifyAuthChallengeResponse and         *)
(* DefineAuthChallenge triggers it runs, composed with ChallengeIssue.     *)
(*                                                                         *)
(* A try t is one redemption request.  It is made for the flow Sess(t)     *)
(* (whose binding cookie the browser sends, or whose Cognito session a     *)
(* direct caller holds) with an answer: a flow's link token, a code, or    *)
(* Junk (a string of neither form).  Tokens are unguessable, so a token is *)
(* only submitted once mailed; codes are guessed freely.                   *)
(*                                                                         *)
(* Cognito is external and taken at its weakest: it may run Verify for     *)
(* several concurrent answers to one session string, and the rounds it     *)
(* reports are either those recorded for the session or none.              *)
(***************************************************************************)
EXTENDS ChallengeIssue, Sequences

CONSTANTS Tries, Junk

ASSUME AnswersAssumption ==
    Flows # {} /\ Flows \cap Codes = {} /\ Junk \notin Flows \union Codes

VARIABLES
    tpc,        \* where each redemption is
    ask,        \* the redemption request
    prior,      \* event.request.session as Verify sees it
    took,       \* tries that took their binding row
    correct,    \* tries Verify answered with answerCorrect = true
    rounds,     \* Cognito: recorded challenge results of each session
    outlawed    \* history: tries whose user lost eligibility before Verify
                \* re-checks it, and has not regained it

tryVars == <<tpc, ask, prior, took, correct, rounds, outlawed>>

vars == <<issueVars, tryVars>>

Answers == Flows \union Codes \union {Junk}

VerifyPcs == {"verify", "get", "delete", "recheck"}

Won == {"issued", "signedin", "undelivered"}

TryPcs ==
    {"idle", "take", "respond", "judge", "rejected"} \union VerifyPcs \union Won

TypeOK ==
    /\ IssueTypeOK
    /\ tpc \in [Tries -> TryPcs]
    /\ ask \in [Tries -> [via : Kinds, sess : Flows, ans : Answers, since : Periods]]
    /\ prior \in [Tries -> Seq(BOOLEAN)]
    /\ took \subseteq Tries /\ correct \subseteq Tries /\ outlawed \subseteq Tries
    /\ rounds \in [Flows -> Seq(BOOLEAN)]

Init ==
    /\ IssueInit
    /\ tpc = [t \in Tries |-> "idle"]
    /\ ask = [t \in Tries |-> [via |-> "none", sess |-> CHOOSE f \in Flows : TRUE,
                               ans |-> Junk, since |-> 0]]
    /\ prior = [t \in Tries |-> << >>]
    /\ took = {} /\ correct = {} /\ outlawed = {}
    /\ rounds = [f \in Flows |-> << >>]

-----------------------------------------------------------------------------
TryAt(t, where) == tpc[t] = where

GoTry(t, where) == tpc' = [tpc EXCEPT ![t] = where]

Sess(t) == ask[t].sess

LinkExpiry(f) == at[f] + Ttl

Knowable(x) == x \in Flows => x \in mailed

\* A browser that started flow f posts an answer with its binding cookie.
\* (Bad method, origin or body, and a missing cookie, touch nothing.)
Redeem(t, f, x) ==
    /\ TryAt(t, "idle") /\ GoTry(t, "take")
    /\ At(f, "done") /\ kind[f] = "browser"
    /\ Knowable(x)
    /\ ask' = [ask EXCEPT ![t] =
                 [via |-> "browser", sess |-> f, ans |-> x, since |-> now]]
    /\ UNCHANGED <<issueVars, prior, took, correct, rounds>>

\* The holder of a session answers it at Cognito directly.
RedeemDirect(t, f, x) ==
    /\ TryAt(t, "idle") /\ GoTry(t, "respond")
    /\ At(f, "done") /\ kind[f] = "direct" /\ f \in held
    /\ Knowable(x)
    /\ ask' = [ask EXCEPT ![t] =
                 [via |-> "direct", sess |-> f, ans |-> x, since |-> now]]
    /\ UNCHANGED <<issueVars, prior, took, correct, rounds>>

\* Mutant: the row is read, and left in place.
TakeBinding_Read(t) ==
    /\ TryAt(t, "take")
    /\ LET f == Sess(t) IN
       /\ took' = IF f \in bound THEN took \union {t} ELSE took
       /\ GoTry(t, IF f \in bound /\ now < bindExp[f] /\ f \in held
                     THEN "respond" ELSE "rejected")
    /\ UNCHANGED <<issueVars, ask, prior, correct, rounds>>

\* The conditional DeleteItem returning the row, then expiry and session.
TakeBinding(t) ==
    /\ TryAt(t, "take")
    /\ LET f == Sess(t) IN
       \E o \in Outcomes("binding") :
         /\ bound' = IF o = "failed" THEN bound ELSE bound \ {f}
         /\ took' = IF o = "ok" /\ f \in bound THEN took \union {t} ELSE took
         /\ GoTry(t, IF o = "ok" /\ f \in bound /\ now < bindExp[f] /\ f \in held
                       THEN "respond" ELSE "rejected")
    /\ UNCHANGED <<now, pool, count, token, bindExp, mailed, pc, request, challenge,
                   barred, ask, prior, correct, rounds>>

\* Cognito runs Verify with the rounds it knows of, or refuses the call.
Respond(t) ==
    /\ TryAt(t, "respond")
    /\ \/ /\ GoTry(t, "verify")
          /\ \E past \in {<< >>, rounds[Sess(t)]} : prior' = [prior EXCEPT ![t] = past]
       \/ "cognito" \in Faults /\ GoTry(t, "rejected") /\ UNCHANGED prior
    /\ UNCHANGED <<issueVars, ask, took, correct, rounds>>

-----------------------------------------------------------------------------
(* VerifyAuthChallengeResponse *)

local == <<ask, prior, took, rounds>>

\* Mutant: a failed answer is asked for again.
Fail_AskAgain(t) == GoTry(t, "respond") /\ UNCHANGED correct

\* fail(event, ...): answerCorrect stays false and Cognito judges the round.
Fail(t) == GoTry(t, "judge") /\ UNCHANGED correct

\* answerCorrect = true
Succeed(t) == GoTry(t, "judge") /\ correct' = correct \union {t}

Continue(t, where) == GoTry(t, where) /\ UNCHANGED correct

PriorFailure(t) == \E i \in DOMAIN prior[t] : prior[t][i] = FALSE

\* The session's own hash of the submitted form equals the submitted one.
Matches(x, f) == x = f \/ x = code[f]

\* Mutant: the row is looked up and consumed without comparing first.
CompareAnswer_Later(t) ==
    /\ TryAt(t, "verify")
    /\ IF chal[Sess(t)] = "open" /\ ~PriorFailure(t)
         THEN Continue(t, "get") ELSE Fail(t)
    /\ UNCHANGED <<issueVars, local>>

\* Mutant: a code is compared with the token's hash.
CompareAnswer_TokenOnly(t) ==
    /\ TryAt(t, "verify")
    /\ IF chal[Sess(t)] = "open" /\ ~PriorFailure(t) /\ ask[t].ans = Sess(t)
         THEN Continue(t, "get") ELSE Fail(t)
    /\ UNCHANGED <<issueVars, local>>

\* HMAC key, quarantined challenge, prior failure, answer form, compare first.
CompareAnswer(t) ==
    /\ TryAt(t, "verify")
    /\ LET accepted == /\ chal[Sess(t)] = "open"
                       /\ ~PriorFailure(t)
                       /\ Matches(ask[t].ans, Sess(t))
       IN \/ accepted /\ Continue(t, "get")
          \/ ~accepted /\ Fail(t)
          \/ "hmac" \in Faults /\ Fail(t)
    /\ UNCHANGED <<issueVars, local>>

\* Mutant: expiry is left to the table's TTL.
ReadToken_NoExpiry(t) ==
    /\ TryAt(t, "get")
    /\ IF token[Sess(t)] = "live" THEN Continue(t, "delete") ELSE Fail(t)
    /\ UNCHANGED <<issueVars, local>>

\* The consistent GetItem by the session's token hash; the row's code hash and
\* email hash are the ones Create stored with it; then the expiry.
ReadToken(t) ==
    /\ TryAt(t, "get")
    /\ \E o \in Outcomes("store") :
         IF o = "ok" /\ token[Sess(t)] = "live" /\ now < LinkExpiry(Sess(t))
           THEN Continue(t, "delete") ELSE Fail(t)
    /\ UNCHANGED <<issueVars, local>>

\* After the row is consumed: admin-only enrolment re-checks, self-signup does not.
Consumed(t) == IF SelfSignup THEN Succeed(t) ELSE Continue(t, "recheck")

\* Mutant: the DeleteItem is unconditional.
ConsumeToken_Unconditional(t) ==
    /\ TryAt(t, "delete")
    /\ token' = [token EXCEPT ![Sess(t)] = "gone"]
    /\ Consumed(t)
    /\ UNCHANGED <<now, pool, count, bound, bindExp, mailed, pc, request, challenge,
                   barred, local>>

\* The conditional DeleteItem: exactly one winner per row.
ConsumeToken(t) ==
    /\ TryAt(t, "delete")
    /\ LET f == Sess(t) IN
       \E o \in Outcomes("store") :
         /\ token' = IF o # "failed" /\ token[f] = "live"
                       THEN [token EXCEPT ![f] = "gone"] ELSE token
         /\ IF o = "ok" /\ token[f] = "live" THEN Consumed(t) ELSE Fail(t)
    /\ UNCHANGED <<now, pool, count, bound, bindExp, mailed, pc, request, challenge,
                   barred, local>>

\* Mutant: eligibility is trusted from the time of the challenge.
RecheckEligibility_Skip(t) ==
    /\ TryAt(t, "recheck") /\ Succeed(t)
    /\ UNCHANGED <<issueVars, local>>

\* Admin-only: eligibility again, after the secret is spent.
RecheckEligibility(t) ==
    /\ TryAt(t, "recheck")
    /\ \E o \in Outcomes("allowlist") :
         IF o = "ok" /\ Eligible(user[Sess(t)]) THEN Succeed(t) ELSE Fail(t)
    /\ UNCHANGED <<issueVars, local>>

\* DefineAuthChallenge on the session's rounds.
Define(session) ==
    IF session = << >> THEN "challenge"
    ELSE IF session = <<TRUE>> THEN "tokens"
    ELSE "fail"

\* Cognito records the round and asks Define what to do.
Judge(t) ==
    /\ TryAt(t, "judge")
    /\ LET past == Append(prior[t], t \in correct) IN
       /\ rounds' = [rounds EXCEPT ![Sess(t)] = past]
       /\ GoTry(t, IF Define(past) = "tokens" THEN "issued" ELSE "rejected")
    /\ UNCHANGED <<issueVars, ask, prior, took, correct>>

\* The tokens reach the caller, who is then signed in, or are lost.
Deliver(t) ==
    /\ TryAt(t, "issued")
    /\ \/ GoTry(t, "signedin")
       \/ "cognito" \in Faults /\ GoTry(t, "undelivered")
    /\ UNCHANGED <<issueVars, local, correct>>

\* The Verify Lambda is killed or times out: Cognito reports an error.
VerifyDies(t) ==
    /\ tpc[t] \in VerifyPcs
    /\ "crash" \in Faults
    /\ GoTry(t, "rejected")
    /\ UNCHANGED <<issueVars, local, correct>>

\* DynamoDB's TTL removes rows some time after they expired.
SweepToken(f) ==
    /\ token[f] = "live" /\ now >= LinkExpiry(f)
    /\ token' = [token EXCEPT ![f] = "gone"]
    /\ UNCHANGED <<now, pool, count, bound, bindExp, mailed, pc, request, challenge,
                   barred, local, tpc, correct>>

SweepBinding(f) ==
    /\ f \in bound /\ now >= bindExp[f]
    /\ bound' = bound \ {f}
    /\ UNCHANGED <<now, pool, count, token, bindExp, mailed, pc, request, challenge,
                   barred, local, tpc, correct>>

-----------------------------------------------------------------------------
TryStep(t) ==
    \/ TakeBinding(t) \/ Respond(t) \/ CompareAnswer(t) \/ ReadToken(t)
    \/ ConsumeToken(t) \/ RecheckEligibility(t) \/ Judge(t) \/ Deliver(t)
    \/ VerifyDies(t)

Redemption ==
    \E t \in Tries, f \in Flows, x \in Answers :
      Redeem(t, f, x) \/ RedeemDirect(t, f, x)

Sweep == \E f \in Flows : SweepToken(f) \/ SweepBinding(f)

BeforeRecheck == {"take", "respond", "verify", "get", "delete"}

\* History: follows the user's eligibility up to the re-check and after.
Outlaw ==
    outlawed' = {t \in Tries :
                   /\ t \in outlawed \/ tpc'[t] \in BeforeRecheck
                   /\ LET u == user'[ask'[t].sess] IN
                      u \in Users => status'[u] # "active"}

unmoved == <<tpc, ask, prior, took, correct, rounds>>

Next ==
    /\ \/ IssueNext /\ UNCHANGED unmoved
       \/ Redemption
       \/ \E t \in Tries : TryStep(t)
       \/ Sweep
    /\ Outlaw

\* Every step of a running Lambda completes or times out.
Fairness ==
    /\ \A f \in Flows : WF_vars(FlowStep(f) /\ UNCHANGED unmoved /\ Outlaw)
    /\ \A t \in Tries : WF_vars(TryStep(t) /\ Outlaw)

Spec == Init /\ [][Next]_vars /\ Fairness

-----------------------------------------------------------------------------
(* Properties. *)

Winner(t) == tpc[t] \in Won

\* One mailed secret signs in at most once, whichever of its two forms (link,
\* code) is submitted, however many tries race through Verify, and whatever
\* Cognito allows for one session: the conditional DeleteItem has one winner.
SingleUse ==
    \A t1, t2 \in Tries :
      Winner(t1) /\ Winner(t2) /\ Sess(t1) = Sess(t2) => t1 = t2

\* Cognito only issues tokens for the session's own secret, mailed without an
\* error to the user's address: never for an unanswerable challenge and never
\* for another flow's link.
OwnSecretOnly ==
    \A t \in Tries : Winner(t) =>
      LET f == Sess(t) IN
      f \in mailed /\ chal[f] = "open" /\ Matches(ask[t].ans, f)

\* A redemption begun after the link's lifetime never succeeds.
NoLateSignIn ==
    \A t \in Tries : Winner(t) => ask[t].since < LinkExpiry(Sess(t))

\* A user who is disabled, unverified or deleted before the eligibility
\* re-check, and stays so, is never signed in (admin-only enrolment).
NoSignInWhenIneligible ==
    ~SelfSignup => \A t \in outlawed : ~Winner(t)

\* The binding row hands its session to one redemption only: a browser has a
\* single answer per sign-in request.
OneAnswerPerBinding ==
    \A t1, t2 \in Tries :
      t1 \in took /\ t2 \in took /\ Sess(t1) = Sess(t2) => t1 = t2

\* The binding row is never the first to expire, so an unexpired link is not
\* refused because of the binding.
BindingOutlivesLink ==
    \A f \in Flows :
      f \in bound /\ chal[f] = "open" => bindExp[f] >= LinkExpiry(f)

\* Only time or the secret itself ends a row: an answer that belongs to another
\* session, or a wrong guess, never burns it (compare first).
WrongAnswerNeverBurns ==
    [][\A f \in Flows :
         token[f] = "live" /\ token'[f] # "live" =>
           \/ now >= LinkExpiry(f)
           \/ \E t \in Tries : /\ TryAt(t, "delete") /\ Sess(t) = f
                               /\ Matches(ask[t].ans, f)]_vars

\* Every redemption request is answered.
EveryTryAnswered ==
    \A t \in Tries : ~TryAt(t, "idle") ~> TryAt(t, "rejected") \/ Winner(t)

\* Every request to start a sign-in and every request to redeem one is answered,
\* whatever fails on the way and whenever the Lambdas die.
EveryoneIsAnswered == EveryTryAnswered /\ EveryRequestAnswered

\* A correct answer in front of Verify while the row is there.
Usable(t) ==
    LET f == Sess(t) IN
    /\ TryAt(t, "verify") /\ prior[t] = << >>
    /\ chal[f] = "open" /\ token[f] = "live" /\ Matches(ask[t].ans, f)

\* A correct answer that reaches Verify in time is not wasted: with no failures,
\* somebody signs in with the secret unless it expires or the user becomes
\* ineligible.  Racing tries never cancel each other out.
CorrectAnswerWins ==
    \A t \in Tries :
      Usable(t) ~> \/ \E w \in Tries : Winner(w) /\ Sess(w) = Sess(t)
                   \/ now >= LinkExpiry(Sess(t))
                   \/ ~SelfSignup /\ ~Eligible(user[Sess(t)])

-----------------------------------------------------------------------------
(* The inductive invariant behind the safety properties. *)

\* Holds the secret but has not been judged yet.
Claiming(t) == TryAt(t, "recheck") \/ (TryAt(t, "judge") /\ t \in correct)

Claimed(t) == Claiming(t) \/ Winner(t)

BeforeStore == {"idle", "limit", "lookup", "signup", "register", "initiate", "hmac",
                "denylist", "window", "day", "allowlist", "put"}

\* What Create has done by the time a flow is somewhere.
FlowInv ==
    \A f \in Flows :
      /\ pc[f] \in BeforeStore => token[f] = "none" /\ chal[f] = "none"
      /\ At(f, "ses") => token[f] # "none"
      /\ chal[f] = "open" => f \in mailed /\ token[f] # "none"
      /\ chal[f] # "none" => pc[f] \in {"answer", "bind", "done"}
      /\ at[f] <= now
      /\ f \in bound => pc[f] = "done"
      /\ f \in bound /\ chal[f] = "open" => bindExp[f] >= LinkExpiry(f)

\* What a try has passed by the time it is somewhere.
Passed(t) ==
    /\ tpc[t] # "idle" => pc[Sess(t)] = "done" /\ ask[t].since <= now
    /\ t \in took => tpc[t] \notin {"idle", "take"} /\ Sess(t) \notin bound
    /\ t \in correct => tpc[t] \in {"judge", "rejected"} \union Won
    /\ Winner(t) => t \in correct
    /\ tpc[t] \in {"get", "delete"} \/ Claimed(t) =>
         chal[Sess(t)] = "open" /\ Matches(ask[t].ans, Sess(t))
    /\ tpc[t] = "delete" \/ Claimed(t) => ask[t].since < LinkExpiry(Sess(t))
    /\ t \in outlawed /\ ~SelfSignup => t \notin correct

TryInv == \A t \in Tries : Passed(t)

\* A claimed secret is spent, and has one claimant.
ClaimInv ==
    /\ \A t \in Tries : Claimed(t) => token[Sess(t)] = "gone"
    /\ \A t1, t2 \in Tries :
         Claimed(t1) /\ Claimed(t2) /\ Sess(t1) = Sess(t2) => t1 = t2

\* Everything the proofs of the safety properties carry from state to state: how
\* far Create got with a flow, what a try has passed, and who holds the secret.
LinkInv == FlowInv /\ TryInv /\ ClaimInv /\ OneAnswerPerBinding

-----------------------------------------------------------------------------
(* The one-time secret this implements. *)

secretOf ==
    [f \in Flows |->
       IF token[f] # "gone" THEN token[f]
       ELSE IF \E t \in Tries : Winner(t) /\ Sess(t) = f THEN "won"
       ELSE IF \E t \in Tries : Claiming(t) /\ Sess(t) = f THEN "claimed"
       ELSE "dead"]

Secret == INSTANCE OneTimeSecret WITH Secrets <- Flows, secret <- secretOf

\* The token table, Verify and Define together implement a one-time secret.
ImplementsOneTimeSecret == Secret!Spec

=============================================================================
