--------------------------- MODULE MagicLinkProofs ---------------------------
(***************************************************************************)
(* Proofs about MagicLink, for all flows, tries, users, limits and faults. *)
(* The inductive invariant is TypeOK /\ LinkInv: FlowInv ties what Create  *)
(* has stored and mailed to where a flow is, Passed ties a try to the      *)
(* guards of Verify it is behind, and ClaimInv says that a spent row has   *)
(* one claimant.  Steps of ChallengeIssue are handled once and for all by  *)
(* DoneFrame (they do not touch a finished flow), steps of a try by        *)
(* TryFrame (they do not touch another try).  What the issuing half        *)
(* promises on its own is proved from IssueInv, at the end, and carried    *)
(* over to the whole protocol.                                             *)
(***************************************************************************)
EXTENDS MagicLink, FiniteSetTheorems, TLAPS

\* The window and the day of a reading of the clock are periods of the table.
LEMMA PeriodOf == ASSUME NEW t \in Periods
                  PROVE  WindowOf(t) \in Periods /\ DayOf(t) \in Periods
  BY ConstantsAssumption DEF WindowOf, DayOf, Periods

\* The conditional UpdateItem keeps every counter a natural number.
LEMMA ConsumeType ==
    ASSUME count \in [Buckets -> Nat], NEW b \in Buckets, NEW limit, NEW o,
           Consume(b, limit, o)
    PROVE  count' \in [Buckets -> Nat]
<1>1. CASE count' = count
  BY <1>1
<1>2. CASE count' = [count EXCEPT ![b] = @ + 1]
  BY <1>2
<1> QED
  BY <1>1, <1>2 DEF Consume

\* The allow-list lookup returns a user or the phantom.
LEMMA LookupType == \A a : Lookup(a) \in Users \union {NoOne}
  BY DEF Lookup

\* InitiateAuth works with a user or the phantom.
LEMMA SubjectType == \A f : Subject(f) \in Users \union {NoOne}
  BY DEF Subject

\* The state auth-login starts from is well typed.
LEMMA IssueTypeInit == IssueInit => IssueTypeOK
  BY ConstantsAssumption DEF IssueInit, IssueTypeOK, Pcs, Kinds, Periods

\* Every step of auth-login, InitiateAuth, Create and the surroundings keeps it so.
LEMMA IssueTypeStep == IssueTypeOK /\ [IssueNext]_issueVars => IssueTypeOK'
<1> SUFFICES ASSUME IssueTypeOK, [IssueNext]_issueVars PROVE IssueTypeOK'
  OBVIOUS
<1> USE DEF IssueTypeOK, store, pool, request, challenge, At, Goto, NoSession, Pcs,
            LoginPcs, CreatePcs
<1>1. ASSUME NEW f \in Flows, FlowStep(f) PROVE IssueTypeOK'
  <2>1. CASE ConsumeIpLimit(f)
    <3>1. <<"ip", req[f].ip, WindowOf(now)>> \in Buckets
      BY PeriodOf DEF Buckets
    <3> QED  BY <2>1, <3>1, ConsumeType DEF ConsumeIpLimit
  <2>2. CASE LookupSubject(f)
    BY <2>2, LookupType DEF LookupSubject
  <2>3. CASE PreSignUp(f)
    <3>1. <<"signup", req[f].addr, WindowOf(now)>> \in Buckets
      BY PeriodOf DEF Buckets
    <3> QED  BY <2>3, <3>1, ConsumeType DEF PreSignUp
  <2>4. CASE Register(f)
    BY <2>4 DEF Register, Statuses
  <2>5. CASE Initiate(f)
    BY <2>5, SubjectType DEF Initiate
  <2>6. CASE InitiateFails(f)
    BY <2>6 DEF InitiateFails
  <2>7. CASE ResolveHmacKey(f)
    BY <2>7 DEF ResolveHmacKey, Note
  <2>8. CASE ReadDenylist(f)
    BY <2>8 DEF ReadDenylist, Note
  <2>9. CASE ConsumeWindow(f)
    <3>1. user[f] # NoOne => <<"window", Mail[user[f]], WindowOf(at[f])>> \in Buckets
      BY PeriodOf, ConstantsAssumption DEF Buckets
    <3> QED  BY <2>9, <3>1, ConsumeType DEF ConsumeWindow, Note
  <2>10. CASE ConsumeDay(f)
    <3>1. user[f] # NoOne => <<"day", Mail[user[f]], DayOf(at[f])>> \in Buckets
      BY PeriodOf, ConstantsAssumption DEF Buckets
    <3> QED  BY <2>10, <3>1, ConsumeType DEF ConsumeDay, Note
  <2>11. CASE ReadEligibility(f)
    BY <2>11 DEF ReadEligibility, Decide, Shut
  <2>12. CASE PutToken(f)
    BY <2>12 DEF PutToken, Shut
  <2>13. CASE SendMail(f)
    BY <2>13 DEF SendMail, Shut
  <2>14. CASE CreateDies(f)
    BY <2>14 DEF CreateDies
  <2>15. CASE Answer(f)
    BY <2>15 DEF Answer
  <2>16. CASE Bind(f)
    BY <2>16, ConstantsAssumption DEF Bind, Periods
  <2>17. CASE LoginDies(f)
    BY <2>17 DEF LoginDies, Kinds
  <2> QED
    BY <1>1, <2>1, <2>2, <2>3, <2>4, <2>5, <2>6, <2>7, <2>8, <2>9, <2>10, <2>11,
       <2>12, <2>13, <2>14, <2>15, <2>16, <2>17 DEF FlowStep
<1>2. CASE Request
  <2>1. ASSUME NEW f \in Flows, NEW a \in Addresses, NEW i \in Ips, Login(f, a, i)
        PROVE  IssueTypeOK'
    <3>1. [addr |-> a, ip |-> i] \in [addr : Addresses, ip : Ips]
      OBVIOUS
    <3>2. req' \in [Flows -> [addr : Addresses, ip : Ips]]
      BY <2>1, <3>1 DEF Login
    <3> QED  BY <2>1, <3>2 DEF Login, Kinds
  <2>2. ASSUME NEW f \in Flows, NEW u \in Users \union {NoOne}, Direct(f, u)
        PROVE  IssueTypeOK'
    BY <2>2 DEF Direct, Kinds
  <2> QED  BY <1>2, <2>1, <2>2 DEF Request
<1>3. CASE Environment
  BY <1>3, ConstantsAssumption
     DEF Environment, Tick, SetStatus, Quarantine, Periods, Holders, Statuses
<1>4. CASE UNCHANGED issueVars
  BY <1>4 DEF issueVars
<1> QED
  BY <1>1, <1>2, <1>3, <1>4 DEF IssueNext

-----------------------------------------------------------------------------
\* The composed initial state is well typed.
LEMMA TypeInit == Init => TypeOK
  BY IssueTypeInit, ConstantsAssumption, AnswersAssumption
     DEF Init, TypeOK, IssueInit, IssueTypeOK, TryPcs, Kinds, Answers, Periods

\* Every step of the composed system keeps the state well typed.
LEMMA TypeStep == TypeOK /\ [Next]_vars => TypeOK'
<1> SUFFICES ASSUME TypeOK, [Next]_vars PROVE TypeOK'
  OBVIOUS
<1>0. IssueTypeOK /\ (Next => outlawed' \subseteq Tries)
  BY DEF TypeOK, Next, Outlaw
<1> DEFINE TryOK == /\ tpc \in [Tries -> TryPcs]
                    /\ ask \in [Tries -> [via : Kinds, sess : Flows, ans : Answers,
                                          since : Periods]]
                    /\ prior \in [Tries -> Seq(BOOLEAN)]
                    /\ took \subseteq Tries /\ correct \subseteq Tries
                    /\ rounds \in [Flows -> Seq(BOOLEAN)]
<1>1. TryOK
  BY DEF TypeOK
<1>2. IssueTypeOK' /\ TryOK' /\ outlawed' \subseteq Tries => TypeOK'
  BY DEF TypeOK
<1>3. CASE IssueNext /\ UNCHANGED unmoved /\ Outlaw
  BY <1>0, <1>1, <1>2, <1>3, IssueTypeStep DEF unmoved, Outlaw
<1>4. ASSUME NEW t \in Tries, NEW f \in Flows, NEW x \in Answers,
             Redeem(t, f, x) \/ RedeemDirect(t, f, x), Outlaw
      PROVE  TypeOK'
  <2>1. /\ UNCHANGED issueVars
        /\ UNCHANGED <<prior, took, correct, rounds>>
        /\ outlawed' \subseteq Tries
    BY <1>4 DEF Redeem, RedeemDirect, Outlaw
  <2>2. IssueTypeOK'
    BY <1>0, <2>1, IssueTypeStep
  <2>3. tpc' \in [Tries -> TryPcs]
    BY <1>4, <1>1 DEF Redeem, RedeemDirect, GoTry, TryPcs
  <2>4. PICK v \in Kinds :
           ask' = [ask EXCEPT ![t] = [via |-> v, sess |-> f, ans |-> x, since |-> now]]
    BY <1>4 DEF Redeem, RedeemDirect, Kinds
  <2>5. [via |-> v, sess |-> f, ans |-> x, since |-> now]
          \in [via : Kinds, sess : Flows, ans : Answers, since : Periods]
    BY <1>0 DEF IssueTypeOK
  <2>6. ask' \in [Tries -> [via : Kinds, sess : Flows, ans : Answers, since : Periods]]
    BY <1>1, <2>4, <2>5
  <2> QED  BY <1>1, <1>2, <2>1, <2>2, <2>3, <2>6
<1>5. ASSUME NEW t \in Tries, TryStep(t), Outlaw PROVE TypeOK'
  <2> USE DEF TryAt, GoTry, TryPcs, VerifyPcs, Won, local, Fail, Succeed, Continue
  <2>0. outlawed' \subseteq Tries /\ ask[t].sess \in Flows
    BY <1>1, <1>5 DEF Outlaw
  <2>1. CASE TakeBinding(t)
    BY <1>0, <1>1, <1>2, <2>0, <2>1
       DEF TakeBinding, IssueTypeOK, pool, request, challenge, Sess
  <2>2. CASE Respond(t)
    <3>1. IssueTypeOK'
      BY <1>0, <2>2, IssueTypeStep DEF Respond
    <3>2. prior' \in [Tries -> Seq(BOOLEAN)]
      <4>1. CASE UNCHANGED prior
        BY <1>1, <4>1
      <4>2. ASSUME NEW past \in {<< >>, rounds[Sess(t)]},
                   prior' = [prior EXCEPT ![t] = past]
            PROVE  prior' \in [Tries -> Seq(BOOLEAN)]
        <5>1. << >> \in Seq(BOOLEAN) /\ rounds[Sess(t)] \in Seq(BOOLEAN)
          BY <1>1, <2>0 DEF Sess
        <5> QED  BY <1>1, <4>2, <5>1
      <4> QED  BY <2>2, <4>1, <4>2 DEF Respond
    <3> QED  BY <1>1, <1>2, <2>0, <2>2, <3>1, <3>2 DEF Respond
  <2>3. CASE CompareAnswer(t)
    BY <1>0, <1>1, <1>2, <2>0, <2>3, IssueTypeStep DEF CompareAnswer
  <2>4. CASE ReadToken(t)
    BY <1>0, <1>1, <1>2, <2>0, <2>4, IssueTypeStep DEF ReadToken
  <2>5. CASE ConsumeToken(t)
    <3>1. IssueTypeOK'
      BY <1>0, <2>0, <2>5 DEF ConsumeToken, IssueTypeOK, pool, request, challenge, Sess
    <3> QED  BY <1>1, <1>2, <2>0, <2>5, <3>1 DEF ConsumeToken, Consumed
  <2>6. CASE RecheckEligibility(t)
    BY <1>0, <1>1, <1>2, <2>0, <2>6, IssueTypeStep DEF RecheckEligibility
  <2>7. CASE Judge(t)
    <3>1. IssueTypeOK'
      BY <1>0, <2>7, IssueTypeStep DEF Judge
    <3>2. Append(prior[t], t \in correct) \in Seq(BOOLEAN)
      BY <1>1
    <3>3. rounds' \in [Flows -> Seq(BOOLEAN)]
      BY <1>1, <2>0, <2>7, <3>2 DEF Judge, Sess
    <3> QED  BY <1>1, <1>2, <2>0, <2>7, <3>1, <3>3 DEF Judge
  <2>8. CASE Deliver(t)
    BY <1>0, <1>1, <1>2, <2>0, <2>8, IssueTypeStep DEF Deliver
  <2>9. CASE VerifyDies(t)
    BY <1>0, <1>1, <1>2, <2>0, <2>9, IssueTypeStep DEF VerifyDies
  <2> QED
    BY <1>5, <2>1, <2>2, <2>3, <2>4, <2>5, <2>6, <2>7, <2>8, <2>9 DEF TryStep
<1>6. ASSUME NEW f \in Flows, SweepToken(f) \/ SweepBinding(f), Outlaw PROVE TypeOK'
  BY <1>0, <1>1, <1>2, <1>6
     DEF SweepToken, SweepBinding, Outlaw, IssueTypeOK, pool, request, challenge, local
<1>7. CASE UNCHANGED vars
  BY <1>0, <1>1, <1>2, <1>7, IssueTypeStep DEF vars, tryVars, TypeOK
<1> QED
  BY <1>3, <1>4, <1>5, <1>6, <1>7 DEF Next, Redemption, Sweep

\* The whole sign-in protocol keeps its state well typed, for every instance.
THEOREM TypeCorrect == Spec => []TypeOK
  BY TypeInit, TypeStep, PTL DEF Spec

-----------------------------------------------------------------------------
\* Nothing in ChallengeIssue touches a flow that is done.
DoneFrame ==
    /\ now <= now'
    /\ \A f \in Flows : pc[f] = "done" =>
         /\ pc'[f] = "done" /\ chal'[f] = chal[f] /\ code'[f] = code[f]
         /\ at'[f] = at[f] /\ token'[f] = token[f] /\ bindExp'[f] = bindExp[f]
         /\ f \in bound' <=> f \in bound

\* Steps of ChallengeIssue keep FlowInv and leave finished flows alone.
LEMMA IssueStepInv ==
    IssueTypeOK /\ FlowInv /\ IssueNext => FlowInv' /\ DoneFrame
<1> SUFFICES ASSUME IssueTypeOK, FlowInv, IssueNext PROVE FlowInv' /\ DoneFrame
  OBVIOUS
<1> USE DEF FlowInv, DoneFrame, BeforeStore, LinkExpiry, store, pool, request,
            challenge, At, Goto
<1>0. /\ now \in Int /\ at \in [Flows -> Int] /\ bindExp \in [Flows -> Int]
      /\ pc \in [Flows -> Pcs] /\ chal \in [Flows -> {"none", "open", "shut"}]
      /\ token \in [Flows -> {"none", "live", "gone"}] /\ code \in [Flows -> Codes]
      /\ Ttl \in Int
  BY ConstantsAssumption DEF IssueTypeOK, Periods
<1>1. ASSUME NEW f \in Flows, FlowStep(f) PROVE FlowInv' /\ DoneFrame
  <2>1. CASE ConsumeIpLimit(f)
    BY <1>0, <2>1 DEF ConsumeIpLimit
  <2>2. CASE LookupSubject(f)
    BY <1>0, <2>2 DEF LookupSubject
  <2>3. CASE PreSignUp(f)
    BY <1>0, <2>3 DEF PreSignUp
  <2>4. CASE Register(f)
    BY <1>0, <2>4 DEF Register
  <2>5. CASE Initiate(f)
    BY <1>0, <2>5 DEF Initiate
  <2>6. CASE InitiateFails(f)
    BY <1>0, <2>6 DEF InitiateFails, NoSession
  <2>7. CASE ResolveHmacKey(f)
    <3>1. PICK to \in {"denylist", "allowlist"} : pc' = [pc EXCEPT ![f] = to]
      BY <2>7 DEF ResolveHmacKey
    <3> QED  BY <1>0, <2>7, <3>1 DEF ResolveHmacKey
  <2>8. CASE ReadDenylist(f)
    BY <1>0, <2>8 DEF ReadDenylist
  <2>9. CASE ConsumeWindow(f)
    BY <1>0, <2>9 DEF ConsumeWindow
  <2>10. CASE ConsumeDay(f)
    BY <1>0, <2>10 DEF ConsumeDay
  <2>11. CASE ReadEligibility(f)
    BY <1>0, <2>11 DEF ReadEligibility, Decide, Shut
  <2>12. CASE PutToken(f)
    BY <1>0, <2>12 DEF PutToken, Shut
  <2>13. CASE SendMail(f)
    <3>1. /\ pc[f] = "ses" /\ pc' = [pc EXCEPT ![f] = "answer"]
          /\ UNCHANGED <<now, token, bound, bindExp, at, code>>
          /\ mailed \subseteq mailed'
      BY <2>13 DEF SendMail, Shut
    <3>2. PICK c \in {"open", "shut"} : /\ chal' = [chal EXCEPT ![f] = c]
                                        /\ c = "open" => f \in mailed'
      BY <2>13 DEF SendMail, Shut
    <3>3. token[f] # "none"
      BY <3>1
    <3> QED  BY <1>0, <3>1, <3>2, <3>3
  <2>14. CASE CreateDies(f)
    BY <1>0, <2>14 DEF CreateDies, NoSession, CreatePcs
  <2>15. CASE Answer(f)
    BY <1>0, <2>15 DEF Answer, NoSession
  <2>16. CASE Bind(f)
    BY <1>0, <2>16 DEF Bind
  <2>17. CASE LoginDies(f)
    BY <1>0, <2>17 DEF LoginDies, LoginPcs
  <2> QED
    BY <1>1, <2>1, <2>2, <2>3, <2>4, <2>5, <2>6, <2>7, <2>8, <2>9, <2>10, <2>11,
       <2>12, <2>13, <2>14, <2>15, <2>16, <2>17 DEF FlowStep
<1>2. CASE Request
  BY <1>0, <1>2 DEF Request, Login, Direct
<1>3. CASE Environment
  BY <1>0, <1>3 DEF Environment, Tick, SetStatus, Quarantine
<1> QED
  BY <1>1, <1>2, <1>3 DEF IssueNext

-----------------------------------------------------------------------------
\* What a step of one try leaves alone.
TryFrame(t) ==
    /\ UNCHANGED <<now, status, mailed, pc, user, at, code, chal, bindExp, ask>>
    /\ \A s \in Tries \ {t} : /\ tpc'[s] = tpc[s]
                              /\ s \in correct' <=> s \in correct
                              /\ s \in took' <=> s \in took
    /\ bound' \subseteq bound /\ correct \subseteq correct' /\ took \subseteq took'
    /\ \A f \in Flows : token'[f] = token[f] \/ (token[f] = "live" /\ token'[f] = "gone")

\* A step of one try changes nothing of the others, only removes rows and only
\* adds marks.
LEMMA TryStepFrame ==
    ASSUME TypeOK, NEW t \in Tries, TryStep(t)
    PROVE  TryFrame(t)
<1> USE DEF TypeOK, TryFrame, GoTry, Fail, Succeed, Continue, local, issueVars, pool,
            store, request, challenge
<1>0. IssueTypeOK /\ Sess(t) \in Flows
  BY DEF Sess
<1>1. CASE TakeBinding(t)
  BY <1>0, <1>1 DEF TakeBinding
<1>2. CASE Respond(t)
  BY <1>0, <1>2 DEF Respond
<1>3. CASE CompareAnswer(t)
  BY <1>0, <1>3 DEF CompareAnswer
<1>4. CASE ReadToken(t)
  BY <1>0, <1>4 DEF ReadToken
<1>5. CASE ConsumeToken(t)
  <2>1. token' = token \/ (token[Sess(t)] = "live" /\ token' = [token EXCEPT ![Sess(t)] = "gone"])
    BY <1>5 DEF ConsumeToken
  <2>2. \A f \in Flows : token'[f] = token[f] \/ (token[f] = "live" /\ token'[f] = "gone")
    BY <1>0, <2>1 DEF IssueTypeOK
  <2> QED  BY <1>0, <1>5, <2>2 DEF ConsumeToken, Consumed
<1>6. CASE RecheckEligibility(t)
  BY <1>0, <1>6 DEF RecheckEligibility
<1>7. CASE Judge(t)
  BY <1>0, <1>7 DEF Judge
<1>8. CASE Deliver(t)
  BY <1>0, <1>8 DEF Deliver
<1>9. CASE VerifyDies(t)
  BY <1>0, <1>9 DEF VerifyDies
<1> QED
  BY <1>1, <1>2, <1>3, <1>4, <1>5, <1>6, <1>7, <1>8, <1>9 DEF TryStep

\* DefineAuthChallenge only issues tokens after exactly one, correct, round.
LEMMA DefineTokens ==
    ASSUME NEW s \in Seq(BOOLEAN), NEW c \in BOOLEAN, Define(Append(s, c)) = "tokens"
    PROVE  c = TRUE
<1>1. Append(s, c) = <<TRUE>>
  BY DEF Define
<1>2. Len(Append(s, c)) = Len(s) + 1 /\ Append(s, c)[Len(s) + 1] = c
  OBVIOUS
<1>3. Len(s) = 0
  BY <1>1, <1>2
<1>4. <<TRUE>>[1] = c
  BY <1>1, <1>2, <1>3
<1> QED  BY <1>4

\* Cognito issues tokens only to a try Verify called correct, whatever rounds it
\* reported to Verify.
LEMMA JudgeIssues ==
    ASSUME TypeOK, NEW t \in Tries, Judge(t), tpc'[t] = "issued"
    PROVE  t \in correct
<1> SUFFICES ASSUME t \notin correct PROVE FALSE
  OBVIOUS
<1>1. Define(Append(prior[t], t \in correct)) = "tokens"
  BY DEF Judge, GoTry, TypeOK
<1>2. (t \in correct) = FALSE
  OBVIOUS
<1>3. Define(Append(prior[t], FALSE)) = "tokens" /\ prior[t] \in Seq(BOOLEAN)
  BY <1>1, <1>2 DEF TypeOK
<1> QED  BY <1>3, DefineTokens

\* After its step, a try has passed what its new place says it has.
LEMMA TryStepPassed ==
    ASSUME TypeOK, LinkInv, NEW t \in Tries, TryStep(t), Outlaw
    PROVE  Passed(t)'
<1> USE DEF TryAt, GoTry, Won, VerifyPcs, BeforeRecheck, Winner,
            Claiming, Claimed, Passed, Fail, Succeed, Continue, local
<1>0. /\ TryFrame(t) /\ Passed(t) /\ Sess(t) \in Flows
      /\ tpc \in [Tries -> TryPcs] /\ correct \subseteq Tries
      /\ bound \subseteq Flows /\ prior \in [Tries -> Seq(BOOLEAN)]
  <2>1. TryFrame(t)
    BY TryStepFrame
  <2>2. Passed(t)
    BY DEF LinkInv, TryInv
  <2> QED  BY <2>1, <2>2 DEF TypeOK, IssueTypeOK, Sess
<1>1. /\ Sess(t)' = Sess(t) /\ LinkExpiry(Sess(t))' = LinkExpiry(Sess(t))
      /\ pc' = pc /\ ask' = ask /\ now' = now /\ chal' = chal /\ bound' \subseteq bound
      /\ Matches(ask[t].ans, Sess(t))' = Matches(ask[t].ans, Sess(t))
      /\ took \subseteq took' /\ correct \subseteq correct'
  BY <1>0 DEF TryFrame, Sess, LinkExpiry, Matches
<1>2. t \in correct /\ ~SelfSignup => t \notin outlawed'
  <2>1. t \in correct => tpc'[t] \notin BeforeRecheck
    BY <1>0 DEF TryStep, TakeBinding, Respond, CompareAnswer, ReadToken, ConsumeToken,
         RecheckEligibility, Judge, Deliver, VerifyDies
  <2> QED  BY <1>0, <2>1 DEF Outlaw
<1>3. CASE TakeBinding(t)
  BY <1>0, <1>1, <1>2, <1>3 DEF TakeBinding
<1>4. CASE Respond(t)
  BY <1>0, <1>1, <1>2, <1>4 DEF Respond
<1>5. CASE CompareAnswer(t)
  BY <1>0, <1>1, <1>2, <1>5 DEF CompareAnswer
<1>6. CASE ReadToken(t)
  <2>1. now \in Int /\ ask[t].since \in Int /\ LinkExpiry(Sess(t)) \in Int
    BY <1>0, ConstantsAssumption DEF TypeOK, IssueTypeOK, Periods, LinkExpiry
  <2>2. tpc'[t] = "delete" => ask[t].since < LinkExpiry(Sess(t))
    BY <1>0, <1>6, <2>1 DEF ReadToken
  <2>3. tpc'[t] \in {"delete", "judge"} /\ UNCHANGED <<took, correct>>
    BY <1>0, <1>6 DEF ReadToken
  <2> QED  BY <1>0, <1>1, <1>2, <1>6, <2>2, <2>3 DEF ReadToken
<1>7. CASE ConsumeToken(t)
  BY <1>0, <1>1, <1>2, <1>7 DEF ConsumeToken, Consumed
<1>8. CASE RecheckEligibility(t)
  <2>1. Eligible(user[Sess(t)]) => t \notin outlawed'
    BY <1>0, <1>1 DEF Outlaw, TryFrame, Eligible, Sess
  <2>2. tpc'[t] = "judge" /\ (t \in correct' => t \in correct \/ Eligible(user[Sess(t)]))
    BY <1>0, <1>8 DEF RecheckEligibility
  <2> QED  BY <1>0, <1>1, <1>2, <1>8, <2>1, <2>2 DEF RecheckEligibility
<1>9. CASE Judge(t)
  <2>1. tpc'[t] = "issued" => t \in correct
    BY <1>9, JudgeIssues
  <2>2. tpc[t] = "judge" /\ tpc'[t] \in {"issued", "rejected"} /\ UNCHANGED <<took, correct>>
    BY <1>0, <1>9 DEF Judge
  <2> QED  BY <1>0, <1>1, <1>2, <1>9, <2>1, <2>2
<1>10. CASE Deliver(t)
  BY <1>0, <1>1, <1>2, <1>10 DEF Deliver
<1>11. CASE VerifyDies(t)
  BY <1>0, <1>1, <1>2, <1>11 DEF VerifyDies
<1> QED
  BY <1>3, <1>4, <1>5, <1>6, <1>7, <1>8, <1>9, <1>10, <1>11 DEF TryStep

\* A try that gains the secret takes it from a live row.
LEMMA ClaimTakesRow ==
    ASSUME TypeOK, LinkInv, NEW t \in Tries, TryStep(t), Claimed(t)', ~Claimed(t)
    PROVE  token[Sess(t)] = "live" /\ token'[Sess(t)] = "gone"
<1> USE DEF TryAt, GoTry, Won, VerifyPcs, Winner, Claiming, Claimed, Passed, Fail,
            Succeed, Continue, local
<1>0. /\ Passed(t) /\ Sess(t) \in Flows /\ tpc \in [Tries -> TryPcs]
      /\ token \in [Flows -> {"none", "live", "gone"}]
  BY DEF LinkInv, TryInv, TypeOK, IssueTypeOK, Sess
<1>1. ConsumeToken(t)
  <2>1. ~TakeBinding(t) /\ ~Respond(t) /\ ~CompareAnswer(t) /\ ~ReadToken(t)
    BY <1>0 DEF TakeBinding, Respond, CompareAnswer, ReadToken
  <2>2. ~RecheckEligibility(t) /\ ~Deliver(t) /\ ~VerifyDies(t)
    BY <1>0 DEF RecheckEligibility, Deliver, VerifyDies
  <2>3. ~Judge(t)
    <3> SUFFICES ASSUME Judge(t) PROVE FALSE
      OBVIOUS
    <3>1. t \in correct
      BY <1>0, JudgeIssues DEF Judge
    <3> QED  BY <3>1 DEF Judge
  <2> QED  BY <2>1, <2>2, <2>3 DEF TryStep
<1> QED
  BY <1>0, <1>1 DEF ConsumeToken

\* The inductive invariant holds initially.
LEMMA LinkInvInit == Init => LinkInv
  BY ConstantsAssumption
     DEF Init, IssueInit, LinkInv, FlowInv, TryInv, Passed, ClaimInv, Claimed, Claiming,
         Winner, Won, OneAnswerPerBinding, BeforeStore, At, TryAt, Sess

\* The inductive invariant is preserved: one step per source of change.
LEMMA LinkInvStep == TypeOK /\ LinkInv /\ [Next]_vars => LinkInv'
<1> SUFFICES ASSUME TypeOK, LinkInv, [Next]_vars PROVE LinkInv'
  OBVIOUS
<1>0. IssueTypeOK /\ (\A t \in Tries : Sess(t) \in Flows)
  BY DEF TypeOK, Sess
<1> USE DEF Winner, Won, Claiming, Claimed, TryAt
<1>1. CASE IssueNext /\ UNCHANGED unmoved /\ Outlaw
  <2>1. FlowInv' /\ DoneFrame
    BY <1>0, <1>1, IssueStepInv DEF LinkInv
  <2>2. UNCHANGED <<tpc, ask, took, correct>> /\ now <= now'
    BY <1>1, <2>1 DEF unmoved, DoneFrame
  <2>3. ASSUME NEW t \in Tries PROVE Passed(t)'
    <3>1. Passed(t) /\ Sess(t) \in Flows /\ Sess(t)' = Sess(t)
      BY <1>0, <2>2 DEF LinkInv, TryInv, Sess
    <3>2. t \in correct' => t \in outlawed \/ t \notin outlawed'
      BY <2>2, <3>1, <1>1 DEF Passed, Outlaw, BeforeRecheck
    <3>3. CASE tpc[t] = "idle"
      BY <2>2, <3>1, <3>2, <3>3 DEF Passed
    <3>4. CASE tpc[t] # "idle"
      <4>1. pc[Sess(t)] = "done"
        BY <3>1, <3>4 DEF Passed
      <4>2. /\ pc'[Sess(t)] = "done" /\ chal'[Sess(t)] = chal[Sess(t)]
            /\ code'[Sess(t)] = code[Sess(t)] /\ at'[Sess(t)] = at[Sess(t)]
            /\ Sess(t) \in bound' <=> Sess(t) \in bound
        BY <2>1, <3>1, <4>1 DEF DoneFrame
      <4>3. LinkExpiry(Sess(t))' = LinkExpiry(Sess(t))
        BY <3>1, <4>2 DEF LinkExpiry
      <4>4. Matches(ask[t].ans, Sess(t))' <=> Matches(ask[t].ans, Sess(t))
        BY <2>2, <3>1, <4>2 DEF Matches
      <4>5. ask[t].since <= now'
        <5>1. ask[t].since \in Int /\ now \in Int /\ now' \in Int
          BY <1>0, <1>1, IssueTypeStep DEF TypeOK, IssueTypeOK, Periods
        <5> QED  BY <2>2, <3>1, <3>4, <5>1 DEF Passed
      <4> QED
        BY <2>2, <3>1, <3>2, <4>2, <4>3, <4>4, <4>5 DEF Passed
    <3> QED  BY <3>3, <3>4
  <2>4. ClaimInv'
    <3>1. \A t \in Tries : (Claimed(t)' <=> Claimed(t)) /\ Sess(t)' = Sess(t)
      BY <2>2 DEF Sess
    <3>2. \A t \in Tries : Claimed(t) => token'[Sess(t)] = token[Sess(t)]
      <4> TAKE t \in Tries
      <4>1. Claimed(t) => pc[Sess(t)] = "done"
        BY DEF LinkInv, TryInv, Passed
      <4> QED  BY <1>0, <2>1, <4>1 DEF DoneFrame
    <3> QED  BY <3>1, <3>2 DEF LinkInv, ClaimInv
  <2>5. OneAnswerPerBinding'
    BY <2>2 DEF LinkInv, OneAnswerPerBinding, Sess
  <2> QED  BY <2>1, <2>3, <2>4, <2>5 DEF LinkInv, TryInv
<1>2. ASSUME NEW t \in Tries, NEW f \in Flows, NEW x \in Answers,
             Redeem(t, f, x) \/ RedeemDirect(t, f, x), Outlaw
      PROVE  LinkInv'
  <2>1. /\ tpc[t] = "idle" /\ tpc'[t] \in {"take", "respond"} /\ pc[f] = "done"
        /\ UNCHANGED issueVars /\ UNCHANGED <<took, correct>>
        /\ \A s \in Tries \ {t} : tpc'[s] = tpc[s] /\ ask'[s] = ask[s]
    BY <1>2 DEF Redeem, RedeemDirect, GoTry, At, TypeOK
  <2>2. ask'[t].sess = f /\ ask'[t].since = now /\ now \in Int
    BY <1>0, <1>2 DEF Redeem, RedeemDirect, TypeOK, IssueTypeOK, Periods
  <2>3. FlowInv'
    BY <2>1 DEF LinkInv, FlowInv, issueVars, store, challenge, At, LinkExpiry
  <2>4. Passed(t)
    BY DEF LinkInv, TryInv
  <2>5. t \notin took /\ t \notin correct
    BY <2>1, <2>4 DEF Passed
  <2>6. Passed(t)'
    BY <2>1, <2>2, <2>5 DEF Passed, Sess, issueVars
  <2>7. ASSUME NEW s \in Tries \ {t} PROVE Passed(s)' /\ Sess(s)' = Sess(s)
    <3>1. Passed(s) /\ (s \in correct => s \in outlawed \/ s \notin outlawed')
      BY <1>2, <2>1 DEF LinkInv, TryInv, Passed, Outlaw, BeforeRecheck
    <3> QED
      BY <2>1, <3>1
         DEF Passed, Sess, LinkExpiry, Matches, issueVars, store, challenge
  <2>8. ClaimInv'
    BY <2>1, <2>5, <2>7 DEF LinkInv, ClaimInv, issueVars, store
  <2>9. OneAnswerPerBinding'
    BY <2>1, <2>5, <2>7 DEF LinkInv, OneAnswerPerBinding
  <2> QED  BY <2>3, <2>6, <2>7, <2>8, <2>9 DEF LinkInv, TryInv
<1>3. ASSUME NEW t \in Tries, TryStep(t), Outlaw PROVE LinkInv'
  <2>1. TryFrame(t) /\ Passed(t)'
    BY <1>3, TryStepFrame, TryStepPassed
  <2>2. FlowInv'
    BY <1>0, <2>1 DEF LinkInv, FlowInv, TryFrame, At, LinkExpiry, BeforeStore
  <2>3. ASSUME NEW s \in Tries \ {t} PROVE Passed(s)'
    <3>1. Passed(s) /\ (s \in correct => s \in outlawed \/ s \notin outlawed')
      BY <1>3, <2>1 DEF LinkInv, TryInv, Passed, Outlaw, BeforeRecheck, TryFrame
    <3> QED
      BY <2>1, <3>1 DEF Passed, Sess, LinkExpiry, Matches, TryFrame
  <2>4. /\ \A s \in Tries : Sess(s)' = Sess(s)
        /\ \A s \in Tries \ {t} : Claimed(s)' <=> Claimed(s)
    BY <2>1 DEF TryFrame, Sess
  <2>5. ClaimInv'
    <3>1. \A s \in Tries : Claimed(s) => token'[Sess(s)] = "gone"
      BY <1>0, <2>1 DEF LinkInv, ClaimInv, TryFrame
    <3>2. CASE Claimed(t) \/ ~Claimed(t)'
      BY <2>4, <3>1, <3>2 DEF LinkInv, ClaimInv
    <3>3. CASE ~Claimed(t) /\ Claimed(t)'
      <4>1. token[Sess(t)] = "live" /\ token'[Sess(t)] = "gone"
        BY <1>3, <3>3, ClaimTakesRow
      <4> QED  BY <2>4, <3>1, <4>1 DEF LinkInv, ClaimInv
    <3> QED  BY <3>2, <3>3
  <2>6. OneAnswerPerBinding'
    <3>1. t \in took' /\ t \notin took => Sess(t) \in bound
      BY <1>3 DEF TryStep, TakeBinding, Respond, CompareAnswer, ReadToken, ConsumeToken,
           RecheckEligibility, Judge, Deliver, VerifyDies, local
    <3>2. \A s \in Tries : s \in took => Sess(s) \notin bound
      BY DEF LinkInv, TryInv, Passed
    <3> QED
      BY <2>1, <2>4, <3>1, <3>2 DEF LinkInv, OneAnswerPerBinding, TryFrame
  <2> QED  BY <2>1, <2>2, <2>3, <2>5, <2>6 DEF LinkInv, TryInv
<1>4. ASSUME NEW f \in Flows, SweepToken(f) \/ SweepBinding(f), Outlaw PROVE LinkInv'
  <2>1. /\ UNCHANGED <<now, pc, chal, code, at, mailed, bindExp, ask, tpc, took, correct>>
        /\ bound' \subseteq bound
        /\ \A g \in Flows : \/ token'[g] = token[g]
                            \/ token[g] = "live" /\ token'[g] = "gone"
    BY <1>0, <1>4 DEF SweepToken, SweepBinding, local, challenge, IssueTypeOK
  <2>2. FlowInv'
    BY <2>1 DEF LinkInv, FlowInv, At, LinkExpiry, BeforeStore
  <2>3. ASSUME NEW s \in Tries PROVE Passed(s)'
    <3>1. Passed(s) /\ (s \in correct => s \in outlawed \/ s \notin outlawed')
      BY <1>4, <2>1 DEF LinkInv, TryInv, Passed, Outlaw, BeforeRecheck
    <3> QED
      BY <2>1, <3>1 DEF Passed, Sess, LinkExpiry, Matches
  <2>4. ClaimInv' /\ OneAnswerPerBinding'
    BY <1>0, <2>1 DEF LinkInv, ClaimInv, OneAnswerPerBinding, Sess
  <2> QED  BY <2>2, <2>3, <2>4 DEF LinkInv, TryInv
<1>5. CASE UNCHANGED vars
  BY <1>5 DEF vars, tryVars, issueVars, pool, store, request, challenge, LinkInv, FlowInv,
              TryInv, Passed, ClaimInv, Claimed, Claiming, Winner, OneAnswerPerBinding,
              At, TryAt, Sess, LinkExpiry, Matches
<1> QED
  BY <1>1, <1>2, <1>3, <1>4, <1>5 DEF Next, Redemption, Sweep

-----------------------------------------------------------------------------
\* Every reachable state satisfies the inductive invariant.
THEOREM InvariantHolds == Spec => [](TypeOK /\ LinkInv)
<1>1. Init => TypeOK /\ LinkInv
  BY TypeInit, LinkInvInit
<1>2. TypeOK /\ LinkInv /\ [Next]_vars => (TypeOK /\ LinkInv)'
  BY TypeStep, LinkInvStep
<1> QED  BY <1>1, <1>2, PTL DEF Spec

\* One mailed secret signs in at most once, for any number of racing redemptions
\* through any number of concurrent Verify invocations.
THEOREM SecretSignsInOnce == Spec => []SingleUse
<1>1. LinkInv => SingleUse
  BY DEF LinkInv, ClaimInv, SingleUse, Claimed
<1> QED  BY <1>1, InvariantHolds, PTL

\* Tokens are only issued for the session's own secret, which was mailed.
THEOREM OnlyOwnSecret == Spec => []OwnSecretOnly
<1>1. TypeOK /\ LinkInv => OwnSecretOnly
  BY DEF TypeOK, LinkInv, FlowInv, TryInv, Passed, OwnSecretOnly, Claimed, Sess
<1> QED  BY <1>1, InvariantHolds, PTL

\* A redemption begun after the link expired never signs in.
THEOREM NeverLate == Spec => []NoLateSignIn
<1>1. LinkInv => NoLateSignIn
  BY DEF LinkInv, TryInv, Passed, NoLateSignIn, Claimed
<1> QED  BY <1>1, InvariantHolds, PTL

\* With admin-only enrolment, a user who lost eligibility before the re-check and
\* did not regain it never signs in.
THEOREM IneligibleNeverSignsIn == Spec => []NoSignInWhenIneligible
<1>1. TypeOK /\ LinkInv => NoSignInWhenIneligible
  BY DEF TypeOK, LinkInv, TryInv, Passed, NoSignInWhenIneligible, Claimed
<1> QED  BY <1>1, InvariantHolds, PTL

\* A binding row yields one answer, and does not expire before its link.
THEOREM BindingAnswersOnce == Spec => [](OneAnswerPerBinding /\ BindingOutlivesLink)
<1>1. LinkInv => OneAnswerPerBinding /\ BindingOutlivesLink
  BY DEF LinkInv, FlowInv, BindingOutlivesLink
<1> QED  BY <1>1, InvariantHolds, PTL

-----------------------------------------------------------------------------
\* Create only ever adds a row, and only before the flow is done.
LEMMA IssueAddsRow ==
    ASSUME IssueTypeOK, FlowInv, IssueNext
    PROVE  \/ token' = token
           \/ \E f \in Flows : token[f] = "none" /\ token' = [token EXCEPT ![f] = "live"]
<1> USE DEF store
<1>1. ASSUME NEW f \in Flows, FlowStep(f), token' # token
      PROVE  token[f] = "none" /\ token' = [token EXCEPT ![f] = "live"]
  <2>1. PutToken(f)
    BY <1>1 DEF FlowStep, ConsumeIpLimit, LookupSubject, PreSignUp, Register, Initiate,
         InitiateFails, ResolveHmacKey, ReadDenylist, ConsumeWindow, ConsumeDay,
         ReadEligibility, SendMail, CreateDies, Answer, Bind, LoginDies
  <2> QED  BY <1>1, <2>1 DEF PutToken, FlowInv, BeforeStore, At
<1>2. Request \/ Environment => token' = token
  BY DEF Request, Login, Direct, Environment, Tick, SetStatus, Quarantine
<1> QED  BY <1>1, <1>2 DEF IssueNext

\* A live row goes away because it expired or because its own secret was submitted.
LEMMA TokenMoves ==
    ASSUME TypeOK, LinkInv, [Next]_vars, NEW f \in Flows,
           token[f] = "live", token'[f] # "live"
    PROVE  \/ now >= LinkExpiry(f)
           \/ \E t \in Tries : /\ TryAt(t, "delete") /\ Sess(t) = f
                               /\ Matches(ask[t].ans, f)
<1>0. IssueTypeOK /\ FlowInv /\ token \in [Flows -> {"none", "live", "gone"}]
  BY DEF TypeOK, LinkInv, IssueTypeOK
<1>1. ~IssueNext
  BY <1>0, IssueAddsRow
<1>2. ~(\E t \in Tries, g \in Flows, x \in Answers : Redeem(t, g, x) \/ RedeemDirect(t, g, x))
  BY DEF Redeem, RedeemDirect, issueVars, store
<1>3. ASSUME NEW t \in Tries, TryStep(t)
      PROVE  TryAt(t, "delete") /\ Sess(t) = f /\ Matches(ask[t].ans, f)
  <2>1. ConsumeToken(t)
    BY <1>3 DEF TryStep, TakeBinding, Respond, CompareAnswer, ReadToken,
         RecheckEligibility, Judge, Deliver, VerifyDies, issueVars, store
  <2>2. Sess(t) = f /\ TryAt(t, "delete")
    BY <1>0, <2>1 DEF ConsumeToken
  <2> QED  BY <2>2 DEF LinkInv, TryInv, Passed, TryAt
<1>4. ASSUME NEW g \in Flows, SweepToken(g) \/ SweepBinding(g)
      PROVE  now >= LinkExpiry(f)
  BY <1>0, <1>4 DEF SweepToken, SweepBinding
<1>5. ~UNCHANGED vars
  BY DEF vars, issueVars, store
<1> QED
  BY <1>1, <1>2, <1>3, <1>4, <1>5 DEF Next, Redemption, Sweep

\* No wrong or foreign answer ever spends a row (Verify compares before it deletes).
THEOREM OnlyTheSecretSpendsTheRow == Spec => WrongAnswerNeverBurns
<1>1. TypeOK /\ LinkInv /\ [Next]_vars =>
        [\A f \in Flows : token[f] = "live" /\ token'[f] # "live" =>
           \/ now >= LinkExpiry(f)
           \/ \E t \in Tries : /\ TryAt(t, "delete") /\ Sess(t) = f
                               /\ Matches(ask[t].ans, f)]_vars
  BY TokenMoves
<1> QED  BY <1>1, InvariantHolds, PTL DEF Spec, WrongAnswerNeverBurns

-----------------------------------------------------------------------------
\* What secretOf says, read off the holder of the secret.
SecretFacts ==
    \A f \in Flows :
      /\ token[f] # "gone" => secretOf[f] = token[f]
      /\ \A t \in Tries : Winner(t) /\ Sess(t) = f => secretOf[f] = "won"
      /\ \A t \in Tries : Claiming(t) /\ Sess(t) = f => secretOf[f] = "claimed"
      /\ token[f] = "gone" /\ (\A t \in Tries : Claimed(t) => Sess(t) # f)
           => secretOf[f] = "dead"

\* With one claimant per spent row, the refinement mapping is what its holder says.
LEMMA SecretValue == ClaimInv => SecretFacts
<1> SUFFICES ASSUME ClaimInv, NEW f \in Flows
             PROVE  /\ token[f] # "gone" => secretOf[f] = token[f]
                    /\ \A t \in Tries : Winner(t) /\ Sess(t) = f => secretOf[f] = "won"
                    /\ \A t \in Tries : Claiming(t) /\ Sess(t) = f => secretOf[f] = "claimed"
                    /\ token[f] = "gone" /\ (\A t \in Tries : Claimed(t) => Sess(t) # f)
                         => secretOf[f] = "dead"
  BY DEF SecretFacts
<1>1. \A t \in Tries : ~(Claiming(t) /\ Winner(t))
  BY DEF Claiming, Winner, Won, TryAt
<1>2. \A t \in Tries : Claiming(t) /\ Sess(t) = f =>
        token[f] = "gone" /\ \A s \in Tries : Winner(s) => Sess(s) # f
  BY <1>1 DEF ClaimInv, Claimed
<1> QED  BY <1>2 DEF secretOf, Claimed, ClaimInv

\* Every step is a step of the one-time secret, or leaves it alone.
LEMMA SecretStep == TypeOK /\ LinkInv /\ LinkInv' /\ [Next]_vars => [Secret!Next]_secretOf
<1>1. ClaimInv' => SecretFacts'
  BY SecretValue, PTL
<1> SUFFICES ASSUME TypeOK, LinkInv, LinkInv', [Next]_vars, secretOf' # secretOf
             PROVE  Secret!Next
  OBVIOUS
<1>2. /\ SecretFacts /\ SecretFacts' /\ IssueTypeOK /\ FlowInv
      /\ token \in [Flows -> {"none", "live", "gone"}]
      /\ \A t \in Tries : Passed(t) /\ Passed(t)' /\ Sess(t) \in Flows
  BY <1>1, SecretValue DEF LinkInv, TryInv, TypeOK, IssueTypeOK, Sess
<1>3. ASSUME NEW f \in Flows, \A g \in Flows \ {f} : secretOf'[g] = secretOf[g],
             \/ secretOf[f] = "none" /\ secretOf'[f] = "live"
             \/ secretOf[f] = "live" /\ secretOf'[f] \in {"claimed", "dead"}
             \/ secretOf[f] = "claimed" /\ secretOf'[f] \in {"won", "dead"}
      PROVE  Secret!Next
  <2> DEFINE old == secretOf
             new == secretOf'
  <2>0. old = [g \in Flows |-> old[g]] /\ new = [g \in Flows |-> new[g]]
    BY DEF secretOf
  <2> HIDE DEF old, new
  <2>1. \A v : v = new[f] => new = [old EXCEPT ![f] = v]
    BY <1>3, <2>0 DEF old, new
  <2> USE DEF old, new
  <2> QED
    BY <1>3, <2>1 DEF Secret!Next, Secret!Issue, Secret!Claim, Secret!Win, Secret!Die,
                      Secret!Move
<1>4. ASSUME NEW f \in Flows, token'[f] = token[f],
             \A t \in Tries : (Winner(t)' /\ Sess(t)' = f) <=> (Winner(t) /\ Sess(t) = f),
             \A t \in Tries : (Claiming(t)' /\ Sess(t)' = f) <=> (Claiming(t) /\ Sess(t) = f)
      PROVE  secretOf'[f] = secretOf[f]
  <2>1. (\E t \in Tries : Winner(t)' /\ Sess(t)' = f) <=> \E t \in Tries : Winner(t) /\ Sess(t) = f
    BY <1>4
  <2>2. (\E t \in Tries : Claiming(t)' /\ Sess(t)' = f) <=> \E t \in Tries : Claiming(t) /\ Sess(t) = f
    BY <1>4
  <2> QED  BY <1>4, <2>1, <2>2 DEF secretOf
<1>5. \E f \in Flows : secretOf'[f] # secretOf[f]
  BY DEF secretOf
<1> USE DEF Claimed
<1>6. CASE IssueNext /\ UNCHANGED unmoved
  <2>1. \A t \in Tries : (Winner(t)' <=> Winner(t)) /\ (Claiming(t)' <=> Claiming(t))
                        /\ Sess(t)' = Sess(t)
    BY <1>6 DEF unmoved, Winner, Claiming, Sess, TryAt
  <2>2. PICK f \in Flows : token[f] = "none" /\ token' = [token EXCEPT ![f] = "live"]
    BY <1>2, <1>4, <1>5, <1>6, <2>1, IssueAddsRow
  <2>3. \A g \in Flows \ {f} : secretOf'[g] = secretOf[g]
    BY <1>2, <1>4, <2>1, <2>2
  <2>4. secretOf[f] = "none" /\ secretOf'[f] = "live"
    BY <1>2, <2>2 DEF SecretFacts
  <2> QED  BY <1>3, <2>3, <2>4
<1>7. ASSUME NEW t \in Tries, NEW f \in Flows, NEW x \in Answers,
             Redeem(t, f, x) \/ RedeemDirect(t, f, x)
      PROVE  FALSE
  <2>1. /\ tpc[t] = "idle" /\ tpc'[t] \in {"take", "respond"}
        /\ token' = token /\ correct' = correct
        /\ \A s \in Tries \ {t} : tpc'[s] = tpc[s] /\ ask'[s] = ask[s]
    BY <1>7 DEF Redeem, RedeemDirect, GoTry, TryAt, TypeOK, issueVars, store
  <2>2. \A s \in Tries : \A g \in Flows :
          /\ (Winner(s)' /\ Sess(s)' = g) <=> (Winner(s) /\ Sess(s) = g)
          /\ (Claiming(s)' /\ Sess(s)' = g) <=> (Claiming(s) /\ Sess(s) = g)
    BY <2>1 DEF Winner, Won, Claiming, TryAt, Sess
  <2> QED  BY <1>4, <1>5, <2>1, <2>2
<1>8. ASSUME NEW t \in Tries, TryStep(t) PROVE Secret!Next
  <2> DEFINE f == Sess(t)
  <2>1. TryFrame(t) /\ f \in Flows /\ tpc \in [Tries -> TryPcs]
    BY <1>2, <1>8, TryStepFrame DEF TypeOK
  <2>2. /\ \A s \in Tries : Sess(s)' = Sess(s)
        /\ \A s \in Tries \ {t} : (Winner(s)' <=> Winner(s)) /\ (Claiming(s)' <=> Claiming(s))
    BY <2>1 DEF TryFrame, Sess, Winner, Claiming, TryAt
  <2>3. \A g \in Flows \ {f} : token'[g] = token[g]
    <3>1. CASE ConsumeToken(t)
      BY <1>2, <2>1, <3>1 DEF ConsumeToken
    <3>2. CASE ~ConsumeToken(t)
      BY <1>8, <3>2 DEF TryStep, TakeBinding, Respond, CompareAnswer, ReadToken,
           RecheckEligibility, Judge, Deliver, VerifyDies, issueVars, store
    <3> QED  BY <3>1, <3>2
  <2>4. \A g \in Flows \ {f} : secretOf'[g] = secretOf[g]
    BY <1>4, <2>1, <2>2, <2>3
  <2>5. secretOf'[f] # secretOf[f]
    BY <1>5, <2>4
  <2>6. \A s \in Tries : Claimed(t) /\ Sess(s) = f => (Claimed(s) <=> s = t)
    BY DEF LinkInv, ClaimInv
  <2>7. \A s \in Tries : Claimed(t)' /\ Sess(s)' = f => (Claimed(s)' <=> s = t)
    BY <2>2 DEF LinkInv, ClaimInv
  <2>8. CASE token[f] = "live" /\ token'[f] = "gone"
    <3>1. \A s \in Tries : Sess(s) = f => ~Claimed(s)
      BY <2>8 DEF LinkInv, ClaimInv
    <3>2. ~Winner(t)'
      <4>1. ConsumeToken(t)
        BY <1>8, <2>8 DEF TryStep, TakeBinding, Respond, CompareAnswer, ReadToken,
             RecheckEligibility, Judge, Deliver, VerifyDies, issueVars, store
      <4> QED
        BY <2>1, <4>1 DEF ConsumeToken, Consumed, Succeed, Fail, Continue, GoTry, Winner, Won
    <3>3. secretOf'[f] \in {"claimed", "dead"}
      BY <1>2, <2>1, <2>2, <2>8, <3>1, <3>2 DEF SecretFacts
    <3>4. secretOf[f] = "live"
      BY <1>2, <2>1, <2>8 DEF SecretFacts
    <3> QED  BY <1>3, <2>1, <2>4, <3>3, <3>4
  <2>9. CASE token'[f] = token[f] /\ Claiming(t) /\ ~Claiming(t)'
    <3>1. secretOf[f] = "claimed" /\ token'[f] = "gone"
      BY <1>2, <2>1, <2>9 DEF SecretFacts, LinkInv, ClaimInv
    <3>2. secretOf'[f] \in {"won", "dead"}
      BY <1>2, <2>1, <2>2, <2>6, <2>9, <3>1 DEF SecretFacts
    <3> QED  BY <1>3, <2>1, <2>4, <3>1, <3>2
  <2>10. CASE token'[f] = token[f] /\ (Claiming(t) <=> Claiming(t)') /\ (Winner(t) <=> Winner(t)')
    BY <1>4, <2>1, <2>2, <2>5, <2>10
  <2>11. \/ token[f] = "live" /\ token'[f] = "gone"
         \/ token'[f] = token[f] /\ Claiming(t) /\ ~Claiming(t)'
         \/ token'[f] = token[f] /\ (Claiming(t) <=> Claiming(t)') /\ (Winner(t) <=> Winner(t)')
    <3> USE DEF TryAt, GoTry, Won, VerifyPcs, Winner, Claiming, Fail, Succeed, Continue,
                local, issueVars, store
    <3>0. Passed(t)
      BY <1>2
    <3>1. CASE TakeBinding(t) \/ Respond(t)
      BY <2>1, <3>1 DEF TakeBinding, Respond
    <3>2. CASE CompareAnswer(t) \/ ReadToken(t)
      BY <2>1, <3>0, <3>2 DEF CompareAnswer, ReadToken, Passed
    <3>3. CASE ConsumeToken(t)
      <4>1. t \notin correct /\ tpc[t] = "delete" /\ tpc'[t] \in {"judge", "recheck"}
        BY <2>1, <3>0, <3>3 DEF ConsumeToken, Consumed, Passed
      <4>2. token'[f] = token[f] => tpc'[t] = "judge" /\ t \notin correct'
        BY <1>2, <2>1, <3>3, <4>1 DEF ConsumeToken
      <4> QED  BY <2>1, <4>1, <4>2 DEF TryFrame
    <3>4. CASE RecheckEligibility(t) \/ Deliver(t) \/ VerifyDies(t)
      BY <2>1, <3>4 DEF RecheckEligibility, Deliver, VerifyDies
    <3>5. CASE Judge(t)
      BY <2>1, <3>5, JudgeIssues DEF Judge
    <3> QED  BY <1>8, <3>1, <3>2, <3>3, <3>4, <3>5 DEF TryStep
  <2> QED  BY <2>8, <2>9, <2>10, <2>11
<1>9. ASSUME NEW f \in Flows, SweepToken(f) \/ SweepBinding(f) PROVE Secret!Next
  <2>1. \A s \in Tries : (Winner(s)' <=> Winner(s)) /\ (Claiming(s)' <=> Claiming(s))
                        /\ Sess(s)' = Sess(s)
    BY <1>9 DEF SweepToken, SweepBinding, local, Winner, Claiming, Sess, TryAt
  <2>2. token[f] = "live" /\ token' = [token EXCEPT ![f] = "gone"]
    BY <1>4, <1>5, <1>9, <2>1 DEF SweepToken, SweepBinding
  <2>3. \A g \in Flows \ {f} : secretOf'[g] = secretOf[g]
    BY <1>2, <1>4, <2>1, <2>2
  <2>4. \A s \in Tries : Claimed(s)' => Sess(s)' # f
    BY <2>1, <2>2 DEF LinkInv, ClaimInv
  <2>5. secretOf[f] = "live" /\ secretOf'[f] = "dead"
    BY <1>2, <2>2, <2>4 DEF SecretFacts
  <2> QED  BY <1>3, <2>3, <2>5
<1>10. ~UNCHANGED vars
  BY DEF vars, tryVars, issueVars, store, secretOf, Winner, Claiming, Sess, TryAt
<1> QED
  BY <1>6, <1>7, <1>8, <1>9, <1>10 DEF Next, Redemption, Sweep

\* The token table, Verify and Define implement the one-time secret.
THEOREM Implements == Spec => ImplementsOneTimeSecret
<1>1. Init => Secret!Init
  BY DEF Init, IssueInit, Secret!Init, secretOf
<1>2. TypeOK /\ LinkInv /\ (TypeOK /\ LinkInv)' /\ [Next]_vars => [Secret!Next]_secretOf
  BY SecretStep
<1> QED
  BY <1>1, <1>2, InvariantHolds, PTL DEF Spec, ImplementsOneTimeSecret, Secret!Spec

------------------------------------------------------------------------------

(* What CreateAuthChallenge promises.  PathOK ties the suppression notes and   *)
(* the mail to where a flow is, BarOK carries the reason a flow is barred for  *)
(* to the read that finds it, ChalOK the session to its challenge.  CountInv   *)
(* is the ledger: the flows that have paid into a bucket and may still mail,   *)
(* or have, are no more than the bucket counts.                                *)

BeforeCreate == {"idle", "limit", "lookup", "signup", "register", "initiate"}

PathOK(f) ==
    /\ pc[f] \in BeforeCreate => f \notin clear
    /\ pc[f] \in {"signup", "register"} => SelfSignup
    /\ pc[f] \in CreatePcs /\ f \in clear => user[f] \in Users
    /\ pc[f] \in {"put", "ses"} => f \in clear
    /\ f \in mailed => pc[f] \in {"answer", "bind", "done"} /\ user[f] \in Users

BarOK(f) ==
    f \in barred =>
      /\ pc[f] \notin BeforeCreate \union {"put", "ses"} /\ f \notin mailed
      /\ pc[f] \in {"window", "day", "allowlist"} =>
           f \notin clear \/ (~SelfSignup /\ ~Eligible(user[f]))
      /\ pc[f] \in {"hmac", "denylist"} =>
           f \notin clear \/ (~SelfSignup /\ ~Eligible(user[f])) \/ Mail[user[f]] \in denylist

ChalOK(f) ==
    /\ pc[f] = "ses" => token[f] # "none"
    /\ chal[f] = "open" => f \in mailed /\ token[f] # "none"
    /\ pc[f] = "answer" \/ f \in held => chal[f] # "none"

FlowsOK == \A f \in Flows : PathOK(f) /\ BarOK(f) /\ ChalOK(f)

WindowPaid(f) == f \in mailed \/ (f \in clear /\ pc[f] \in {"day", "allowlist", "put", "ses"})
DayPaid(f) == f \in mailed \/ (f \in clear /\ pc[f] \in {"allowlist", "put", "ses"})

WindowPayers(a, n) ==
    {f \in Flows : /\ WindowPaid(f) /\ user[f] \in Users
                   /\ Mail[user[f]] = a /\ WindowOf(at[f]) = n}
DayPayers(a, n) ==
    {f \in Flows : /\ DayPaid(f) /\ user[f] \in Users
                   /\ Mail[user[f]] = a /\ DayOf(at[f]) = n}

\* A set of flows that a counter covers, below a limit.
Covered(S, c, limit) == IsFiniteSet(S) /\ Cardinality(S) <= c /\ c <= limit

CountInv ==
    \A a \in Addresses, n \in Periods :
      /\ Covered(WindowPayers(a, n), count[<<"window", a, n>>], AtLeastOne(SendsPerWindow))
      /\ Covered(DayPayers(a, n), count[<<"day", a, n>>], AtLeastOne(SendsPerDay))

IssueInv == IssueTypeOK /\ FlowsOK /\ CountInv

\* Nobody new has paid, and the buckets that count mail are as they were.
WindowQuiet ==
    /\ \A f \in Flows : WindowPaid(f)' => WindowPaid(f) /\ user'[f] = user[f] /\ at'[f] = at[f]
    /\ \A a \in Addresses, n \in Periods : count'[<<"window", a, n>>] = count[<<"window", a, n>>]
DayQuiet ==
    /\ \A f \in Flows : DayPaid(f)' => DayPaid(f) /\ user'[f] = user[f] /\ at'[f] = at[f]
    /\ \A a \in Addresses, n \in Periods : count'[<<"day", a, n>>] = count[<<"day", a, n>>]

LEMMA CoveredSubset ==
    ASSUME NEW S, NEW T, T \subseteq S, NEW c \in Nat, NEW limit \in Nat, Covered(S, c, limit)
    PROVE  Covered(T, c, limit)
<1>1. IsFiniteSet(T) /\ Cardinality(T) <= Cardinality(S)
  BY FS_Subset DEF Covered
<1>2. Cardinality(S) \in Nat /\ Cardinality(T) \in Nat
  BY <1>1, FS_CardinalityType DEF Covered
<1> QED  BY <1>1, <1>2 DEF Covered

LEMMA CoveredOneMore ==
    ASSUME NEW S, NEW T, NEW f, T \subseteq S \union {f}, NEW c \in Nat, NEW limit \in Nat,
           Covered(S, c, limit), c + 1 <= limit
    PROVE  Covered(T, c + 1, limit)
<1>1. /\ IsFiniteSet(S \union {f})
      /\ Cardinality(S \union {f}) = Cardinality(S) \/ Cardinality(S \union {f}) = Cardinality(S) + 1
  BY FS_AddElement DEF Covered
<1>2. Cardinality(S) \in Nat
  BY FS_CardinalityType DEF Covered
<1>3. Covered(S \union {f}, c + 1, limit)
  BY <1>1, <1>2 DEF Covered
<1>4. c + 1 \in Nat
  OBVIOUS
<1> QED  BY <1>3, <1>4, CoveredSubset

LEMMA LimitTypes ==
    /\ AtLeastOne(SendsPerWindow) \in Nat /\ AtLeastOne(SendsPerDay) = SendsPerDay
    /\ AtLeastOne(SendsPerDay) \in Nat
  BY ConstantsAssumption DEF AtLeastOne

LEMMA BucketTypes ==
    ASSUME IssueTypeOK, NEW a \in Addresses, NEW n \in Periods
    PROVE  /\ <<"window", a, n>> \in Buckets /\ <<"day", a, n>> \in Buckets
           /\ count[<<"window", a, n>>] \in Nat /\ count[<<"day", a, n>>] \in Nat
<1>1. <<"window", a, n>> \in Buckets /\ <<"day", a, n>> \in Buckets
  BY DEF Buckets
<1> QED  BY <1>1 DEF IssueTypeOK

LEMMA WindowQuietKeeps ==
    ASSUME IssueInv, WindowQuiet, NEW a \in Addresses, NEW n \in Periods
    PROVE  Covered(WindowPayers(a, n), count[<<"window", a, n>>], AtLeastOne(SendsPerWindow))'
<1>1. WindowPayers(a, n)' \subseteq WindowPayers(a, n)
  BY DEF WindowPayers, WindowQuiet
<1>0. count[<<"window", a, n>>] \in Nat /\ count'[<<"window", a, n>>] = count[<<"window", a, n>>]
  BY BucketTypes DEF WindowQuiet, IssueInv
<1>2. PICK c \in Nat : c = count[<<"window", a, n>>] /\ c = count'[<<"window", a, n>>]
  BY <1>0
<1>5. PICK S, T : S = WindowPayers(a, n) /\ T = WindowPayers(a, n)'
  OBVIOUS
<1>3. Covered(S, c, AtLeastOne(SendsPerWindow))
  BY <1>2, <1>5 DEF IssueInv, CountInv
<1>4. Covered(T, c, AtLeastOne(SendsPerWindow))
  BY <1>1, <1>3, <1>5, LimitTypes, CoveredSubset
<1> QED  BY <1>2, <1>4, <1>5 DEF Covered

LEMMA DayQuietKeeps ==
    ASSUME IssueInv, DayQuiet, NEW a \in Addresses, NEW n \in Periods
    PROVE  Covered(DayPayers(a, n), count[<<"day", a, n>>], AtLeastOne(SendsPerDay))'
<1>1. DayPayers(a, n)' \subseteq DayPayers(a, n)
  BY DEF DayPayers, DayQuiet
<1>0. count[<<"day", a, n>>] \in Nat /\ count'[<<"day", a, n>>] = count[<<"day", a, n>>]
  BY BucketTypes DEF DayQuiet, IssueInv
<1>2. PICK c \in Nat : c = count[<<"day", a, n>>] /\ c = count'[<<"day", a, n>>]
  BY <1>0
<1>5. PICK S, T : S = DayPayers(a, n) /\ T = DayPayers(a, n)'
  OBVIOUS
<1>3. Covered(S, c, AtLeastOne(SendsPerDay))
  BY <1>2, <1>5 DEF IssueInv, CountInv
<1>4. Covered(T, c, AtLeastOne(SendsPerDay))
  BY <1>1, <1>3, <1>5, LimitTypes, CoveredSubset
<1> QED  BY <1>2, <1>4, <1>5 DEF Covered

\* A bucket below its limit takes one more.
LEMMA UnderLimitStep ==
    ASSUME NEW b \in Buckets, count[b] \in Nat, NEW limit \in Nat, UnderLimit(b, limit)
    PROVE  count[b] + 1 <= AtLeastOne(limit)
  BY DEF UnderLimit, AtLeastOne

LEMMA QuietSteps ==
    ASSUME IssueTypeOK, FlowsOK, NEW f \in Flows, FlowStep(f)
    PROVE  /\ ConsumeWindow(f) \/ WindowQuiet
           /\ ConsumeDay(f) \/ DayQuiet
<1> USE DEF store, pool, request, challenge, At, Goto, WindowQuiet, DayQuiet, WindowPaid, DayPaid
<1>0. /\ pc \in [Flows -> Pcs] /\ count \in [Buckets -> Nat] /\ user \in [Flows -> Users \union {NoOne}]
      /\ at \in [Flows -> Periods]
  BY DEF IssueTypeOK
<1>a. ASSUME NEW w \in {"ip", "signup"}, NEW x, NEW n, NEW limit, NEW o, Consume(<<w, x, n>>, limit, o)
      PROVE  /\ \A a \in Addresses, m \in Periods : count'[<<"window", a, m>>] = count[<<"window", a, m>>]
             /\ \A a \in Addresses, m \in Periods : count'[<<"day", a, m>>] = count[<<"day", a, m>>]
  <2>1. \A a \in Addresses, m \in Periods : /\ <<"window", a, m>> # <<w, x, n>>
                                            /\ <<"day", a, m>> # <<w, x, n>>
    OBVIOUS
  <2>2. \A a \in Addresses, m \in Periods : <<"window", a, m>> \in Buckets /\ <<"day", a, m>> \in Buckets
    BY DEF Buckets
  <2>3. PICK b : b = <<w, x, n>>
    OBVIOUS
  <2>4. count' = count \/ count' = [count EXCEPT ![b] = @ + 1]
    BY <1>a, <2>3 DEF Consume
  <2> QED  BY <1>0, <2>1, <2>2, <2>3, <2>4
<1>1. CASE ConsumeIpLimit(f)
  BY <1>0, <1>1, <1>a DEF ConsumeIpLimit
<1>2. CASE LookupSubject(f)
  BY <1>0, <1>2 DEF LookupSubject, FlowsOK, PathOK, BeforeCreate
<1>3. CASE PreSignUp(f)
  BY <1>0, <1>3, <1>a DEF PreSignUp
<1>4. CASE Register(f)
  BY <1>0, <1>4 DEF Register
<1>5. CASE Initiate(f)
  BY <1>0, <1>5 DEF Initiate, FlowsOK, PathOK, BeforeCreate
<1>6. CASE InitiateFails(f)
  BY <1>0, <1>6 DEF InitiateFails, NoSession
<1>7. CASE ResolveHmacKey(f)
  BY <1>0, <1>7 DEF ResolveHmacKey, Note
<1>8. CASE ReadDenylist(f)
  BY <1>0, <1>8 DEF ReadDenylist, Note
<1>9. CASE ConsumeWindow(f)
  <2>1. ASSUME NEW x, NEW n, NEW limit, NEW o, Consume(<<"window", x, n>>, limit, o)
        PROVE  \A a \in Addresses, m \in Periods : count'[<<"day", a, m>>] = count[<<"day", a, m>>]
    <3>1. \A a \in Addresses, m \in Periods : <<"day", a, m>> # <<"window", x, n>>
      OBVIOUS
    <3>2. \A a \in Addresses, m \in Periods : <<"day", a, m>> \in Buckets
      BY DEF Buckets
    <3>3. PICK b : b = <<"window", x, n>>
      OBVIOUS
    <3>4. count' = count \/ count' = [count EXCEPT ![b] = @ + 1]
      BY <2>1, <3>3 DEF Consume
    <3> QED  BY <1>0, <3>1, <3>2, <3>3, <3>4
  <2> QED  BY <1>0, <1>9, <2>1 DEF ConsumeWindow, Note
<1>10. CASE ConsumeDay(f)
  <2>1. ASSUME NEW x, NEW n, NEW limit, NEW o, Consume(<<"day", x, n>>, limit, o)
        PROVE  \A a \in Addresses, m \in Periods : count'[<<"window", a, m>>] = count[<<"window", a, m>>]
    <3>1. \A a \in Addresses, m \in Periods : <<"window", a, m>> # <<"day", x, n>>
      OBVIOUS
    <3>2. \A a \in Addresses, m \in Periods : <<"window", a, m>> \in Buckets
      BY DEF Buckets
    <3>3. PICK b : b = <<"day", x, n>>
      OBVIOUS
    <3>4. count' = count \/ count' = [count EXCEPT ![b] = @ + 1]
      BY <2>1, <3>3 DEF Consume
    <3> QED  BY <1>0, <3>1, <3>2, <3>3, <3>4
  <2> QED  BY <1>0, <1>10, <2>1 DEF ConsumeDay, Note
<1>11. CASE ReadEligibility(f)
  BY <1>0, <1>11 DEF ReadEligibility, Decide, Shut
<1>12. CASE PutToken(f)
  BY <1>0, <1>12 DEF PutToken, Shut
<1>13. CASE SendMail(f)
  BY <1>0, <1>13 DEF SendMail, Shut, FlowsOK, PathOK
<1>14. CASE CreateDies(f)
  BY <1>0, <1>14 DEF CreateDies, NoSession
<1>15. CASE Answer(f)
  BY <1>0, <1>15 DEF Answer, NoSession
<1>16. CASE Bind(f)
  BY <1>0, <1>16 DEF Bind
<1>17. CASE LoginDies(f)
  BY <1>0, <1>17 DEF LoginDies, LoginPcs
<1> QED
  BY <1>1, <1>2, <1>3, <1>4, <1>5, <1>6, <1>7, <1>8, <1>9, <1>10, <1>11,
     <1>12, <1>13, <1>14, <1>15, <1>16, <1>17 DEF FlowStep

\* tryConsumeRateLimit: who stays clear has been counted.
LEMMA WindowPays ==
    ASSUME IssueInv, NEW f \in Flows, ConsumeWindow(f), NEW a \in Addresses, NEW n \in Periods
    PROVE  Covered(WindowPayers(a, n), count[<<"window", a, n>>], AtLeastOne(SendsPerWindow))'
<1> USE DEF store, pool, request, challenge, At, Goto
<1>0. /\ pc \in [Flows -> Pcs] /\ count \in [Buckets -> Nat] /\ user \in [Flows -> Users \union {NoOne}]
      /\ at \in [Flows -> Periods]
  BY DEF IssueInv, IssueTypeOK
<1>1. /\ pc[f] = "window" /\ pc' = [pc EXCEPT ![f] = "day"]
      /\ UNCHANGED <<mailed, user, at>>
      /\ clear' = clear \/ clear' = clear \ {f}
  BY DEF ConsumeWindow, Note
<1>2. \A g \in Flows : g # f => (WindowPaid(g)' <=> WindowPaid(g))
  BY <1>0, <1>1 DEF WindowPaid
<1>3. WindowPayers(a, n)' \subseteq WindowPayers(a, n) \union {f}
  BY <1>1, <1>2 DEF WindowPayers
<1>4. CASE f \in WindowPayers(a, n)'
  <2>1. /\ user[f] \in Users /\ Mail[user[f]] = a /\ WindowOf(at[f]) = n /\ WindowPaid(f)'
    BY <1>1, <1>4 DEF WindowPayers
  <2>2. f \notin mailed
    BY <1>1 DEF IssueInv, FlowsOK, PathOK
  <2>3. f \in clear'
    BY <1>1, <2>1, <2>2 DEF WindowPaid
  <2>4. user[f] # NoOne
    BY <2>1, ConstantsAssumption
  <2>5. PICK b : b = <<"window", a, n>>
    OBVIOUS
  <2>6. b \in Buckets
    BY <2>5, BucketTypes DEF IssueInv
  <2>7. UnderLimit(b, SendsPerWindow) /\ count' = [count EXCEPT ![b] = @ + 1]
    BY <2>1, <2>3, <2>4, <2>5 DEF ConsumeWindow, Note, Consume
  <2>8. count[b] \in Nat /\ count'[b] = count[b] + 1
    BY <1>0, <2>6, <2>7
  <2>9. count[b] + 1 <= AtLeastOne(SendsPerWindow)
    BY <2>6, <2>7, <2>8, UnderLimitStep, ConstantsAssumption
  <2>10. PICK c \in Nat : c = count[b]
    BY <2>8
  <2>11. PICK S, T : S = WindowPayers(a, n) /\ T = WindowPayers(a, n)'
    OBVIOUS
  <2>12. Covered(S, c, AtLeastOne(SendsPerWindow))
    BY <2>5, <2>10, <2>11 DEF IssueInv, CountInv
  <2>13. Covered(T, c + 1, AtLeastOne(SendsPerWindow))
    BY <1>3, <2>9, <2>10, <2>11, <2>12, LimitTypes, CoveredOneMore
  <2> QED  BY <2>5, <2>8, <2>10, <2>11, <2>13 DEF Covered
<1>5. CASE f \notin WindowPayers(a, n)'
  <2>1. WindowPayers(a, n)' \subseteq WindowPayers(a, n)
    BY <1>3, <1>5
  <2>2. PICK b : b = <<"window", a, n>>
    OBVIOUS
  <2>3. b \in Buckets
    BY <2>2, BucketTypes DEF IssueInv
  <2>4. \/ count'[b] = count[b]
        \/ count'[b] = count[b] + 1 /\ UnderLimit(b, SendsPerWindow)
    BY <1>0, <2>3 DEF ConsumeWindow, Consume
  <2>5. count[b] \in Nat
    BY <1>0, <2>3
  <2>6. count'[b] \in Nat /\ count[b] <= count'[b] /\ (count'[b] <= count[b] \/ count'[b] <= AtLeastOne(SendsPerWindow))
    BY <2>3, <2>4, <2>5, UnderLimitStep, ConstantsAssumption
  <2>7. PICK c \in Nat, d \in Nat : c = count[b] /\ d = count'[b]
    BY <2>5, <2>6
  <2>8. PICK S, T : S = WindowPayers(a, n) /\ T = WindowPayers(a, n)'
    OBVIOUS
  <2>9. Covered(S, c, AtLeastOne(SendsPerWindow))
    BY <2>2, <2>7, <2>8 DEF IssueInv, CountInv
  <2>10. Covered(T, c, AtLeastOne(SendsPerWindow))
    BY <2>1, <2>8, <2>9, LimitTypes, CoveredSubset
  <2>11. Cardinality(T) \in Nat
    BY <2>10, FS_CardinalityType DEF Covered
  <2>12. Covered(T, d, AtLeastOne(SendsPerWindow))
    BY <2>6, <2>7, <2>10, <2>11, LimitTypes DEF Covered
  <2> QED  BY <2>2, <2>7, <2>8, <2>12 DEF Covered
<1> QED  BY <1>4, <1>5

\* tryConsumeDailyCap, likewise.
LEMMA DayPays ==
    ASSUME IssueInv, NEW f \in Flows, ConsumeDay(f), NEW a \in Addresses, NEW n \in Periods
    PROVE  Covered(DayPayers(a, n), count[<<"day", a, n>>], AtLeastOne(SendsPerDay))'
<1> USE DEF store, pool, request, challenge, At, Goto
<1>0. /\ pc \in [Flows -> Pcs] /\ count \in [Buckets -> Nat] /\ user \in [Flows -> Users \union {NoOne}]
      /\ at \in [Flows -> Periods]
  BY DEF IssueInv, IssueTypeOK
<1>1. /\ pc[f] = "day" /\ pc' = [pc EXCEPT ![f] = "allowlist"]
      /\ UNCHANGED <<mailed, user, at>>
      /\ clear' = clear \/ clear' = clear \ {f}
  BY DEF ConsumeDay, Note
<1>2. \A g \in Flows : g # f => (DayPaid(g)' <=> DayPaid(g))
  BY <1>0, <1>1 DEF DayPaid
<1>3. DayPayers(a, n)' \subseteq DayPayers(a, n) \union {f}
  BY <1>1, <1>2 DEF DayPayers
<1>4. CASE f \in DayPayers(a, n)'
  <2>1. /\ user[f] \in Users /\ Mail[user[f]] = a /\ DayOf(at[f]) = n /\ DayPaid(f)'
    BY <1>1, <1>4 DEF DayPayers
  <2>2. f \notin mailed
    BY <1>1 DEF IssueInv, FlowsOK, PathOK
  <2>3. f \in clear'
    BY <1>1, <2>1, <2>2 DEF DayPaid
  <2>4. user[f] # NoOne
    BY <2>1, ConstantsAssumption
  <2>5. PICK b : b = <<"day", a, n>>
    OBVIOUS
  <2>6. b \in Buckets
    BY <2>5, BucketTypes DEF IssueInv
  <2>7. UnderLimit(b, SendsPerDay) /\ count' = [count EXCEPT ![b] = @ + 1]
    BY <2>1, <2>3, <2>4, <2>5 DEF ConsumeDay, Note, Consume
  <2>8. count[b] \in Nat /\ count'[b] = count[b] + 1
    BY <1>0, <2>6, <2>7
  <2>9. count[b] + 1 <= AtLeastOne(SendsPerDay)
    BY <2>6, <2>7, <2>8, UnderLimitStep, ConstantsAssumption
  <2>10. PICK c \in Nat : c = count[b]
    BY <2>8
  <2>11. PICK S, T : S = DayPayers(a, n) /\ T = DayPayers(a, n)'
    OBVIOUS
  <2>12. Covered(S, c, AtLeastOne(SendsPerDay))
    BY <2>5, <2>10, <2>11 DEF IssueInv, CountInv
  <2>13. Covered(T, c + 1, AtLeastOne(SendsPerDay))
    BY <1>3, <2>9, <2>10, <2>11, <2>12, LimitTypes, CoveredOneMore
  <2> QED  BY <2>5, <2>8, <2>10, <2>11, <2>13 DEF Covered
<1>5. CASE f \notin DayPayers(a, n)'
  <2>1. DayPayers(a, n)' \subseteq DayPayers(a, n)
    BY <1>3, <1>5
  <2>2. PICK b : b = <<"day", a, n>>
    OBVIOUS
  <2>3. b \in Buckets
    BY <2>2, BucketTypes DEF IssueInv
  <2>4. \/ count'[b] = count[b]
        \/ count'[b] = count[b] + 1 /\ UnderLimit(b, SendsPerDay)
    BY <1>0, <2>3 DEF ConsumeDay, Consume
  <2>5. count[b] \in Nat
    BY <1>0, <2>3
  <2>6. count'[b] \in Nat /\ count[b] <= count'[b] /\ (count'[b] <= count[b] \/ count'[b] <= AtLeastOne(SendsPerDay))
    BY <2>3, <2>4, <2>5, UnderLimitStep, ConstantsAssumption
  <2>7. PICK c \in Nat, d \in Nat : c = count[b] /\ d = count'[b]
    BY <2>5, <2>6
  <2>8. PICK S, T : S = DayPayers(a, n) /\ T = DayPayers(a, n)'
    OBVIOUS
  <2>9. Covered(S, c, AtLeastOne(SendsPerDay))
    BY <2>2, <2>7, <2>8 DEF IssueInv, CountInv
  <2>10. Covered(T, c, AtLeastOne(SendsPerDay))
    BY <2>1, <2>8, <2>9, LimitTypes, CoveredSubset
  <2>11. Cardinality(T) \in Nat
    BY <2>10, FS_CardinalityType DEF Covered
  <2>12. Covered(T, d, AtLeastOne(SendsPerDay))
    BY <2>6, <2>7, <2>10, <2>11, LimitTypes DEF Covered
  <2> QED  BY <2>2, <2>7, <2>8, <2>12 DEF Covered
<1> QED  BY <1>4, <1>5

LEMMA FlowStepsOK ==
    ASSUME IssueTypeOK, FlowsOK, NEW f \in Flows, FlowStep(f)
    PROVE  FlowsOK'
<1> USE DEF store, pool, request, challenge, At, Goto, FlowsOK, PathOK, BarOK, ChalOK, BeforeCreate,
            CreatePcs, LoginPcs, Eligible
<1>0. /\ pc \in [Flows -> Pcs] /\ user \in [Flows -> Users \union {NoOne}]
      /\ token \in [Flows -> {"none", "live", "gone"}] /\ chal \in [Flows -> {"none", "open", "shut"}]
      /\ status \in [Users -> Statuses] /\ NoOne \notin Users
  BY ConstantsAssumption DEF IssueTypeOK
<1>1. CASE ConsumeIpLimit(f)
  BY <1>0, <1>1 DEF ConsumeIpLimit
<1>2. CASE LookupSubject(f)
  BY <1>0, <1>2 DEF LookupSubject
<1>3. CASE PreSignUp(f)
  BY <1>0, <1>3 DEF PreSignUp
<1>4. CASE Register(f)
  BY <1>0, <1>4 DEF Register
<1>5. CASE Initiate(f)
  BY <1>0, <1>5 DEF Initiate, Suppressed
<1>6. CASE InitiateFails(f)
  BY <1>0, <1>6 DEF InitiateFails, NoSession
<1>7. CASE ResolveHmacKey(f)
  BY <1>0, <1>7 DEF ResolveHmacKey, Note
<1>8. CASE ReadDenylist(f)
  BY <1>0, <1>8 DEF ReadDenylist, Note
<1>9. CASE ConsumeWindow(f)
  BY <1>0, <1>9 DEF ConsumeWindow, Note
<1>10. CASE ConsumeDay(f)
  BY <1>0, <1>10 DEF ConsumeDay, Note
<1>11. CASE ReadEligibility(f)
  BY <1>0, <1>11 DEF ReadEligibility, Decide, Shut
<1>12. CASE PutToken(f)
  BY <1>0, <1>12 DEF PutToken, Shut
<1>13. CASE SendMail(f)
  BY <1>0, <1>13 DEF SendMail, Shut
<1>14. CASE CreateDies(f)
  BY <1>0, <1>14 DEF CreateDies, NoSession
<1>15. CASE Answer(f)
  BY <1>0, <1>15 DEF Answer, NoSession
<1>16. CASE Bind(f)
  BY <1>0, <1>16 DEF Bind
<1>17. CASE LoginDies(f)
  BY <1>0, <1>17 DEF LoginDies
<1> QED
  BY <1>1, <1>2, <1>3, <1>4, <1>5, <1>6, <1>7, <1>8, <1>9, <1>10, <1>11,
     <1>12, <1>13, <1>14, <1>15, <1>16, <1>17 DEF FlowStep

\* New requests, time, administrators and bounces: nobody pays, and a flow stays
\* barred only while its reason lasts.
LEMMA SurroundingsOK ==
    ASSUME IssueTypeOK, FlowsOK, Request \/ Environment
    PROVE  FlowsOK' /\ WindowQuiet /\ DayQuiet
<1> USE DEF store, pool, request, challenge, At, Goto, FlowsOK, PathOK, BarOK, ChalOK, BeforeCreate,
            CreatePcs, LoginPcs, Eligible, WindowQuiet, DayQuiet, WindowPaid, DayPaid
<1>0. /\ pc \in [Flows -> Pcs] /\ user \in [Flows -> Users \union {NoOne}]
      /\ status \in [Users -> Statuses]
  BY DEF IssueTypeOK
<1>1. CASE Request
  BY <1>0, <1>1 DEF Request, Login, Direct
<1>2. CASE Tick
  BY <1>0, <1>2 DEF Tick
<1>3. ASSUME NEW u \in Users, NEW s, SetStatus(u, s)
      PROVE  FlowsOK' /\ WindowQuiet /\ DayQuiet
  BY <1>0, <1>3 DEF SetStatus
<1>4. ASSUME NEW a, Quarantine(a)
      PROVE  FlowsOK' /\ WindowQuiet /\ DayQuiet
  BY <1>0, <1>4 DEF Quarantine
<1> QED  BY <1>1, <1>2, <1>3, <1>4 DEF Environment

LEMMA IssueInvInit == IssueInit => IssueInv
<1> SUFFICES ASSUME IssueInit PROVE IssueInv
  OBVIOUS
<1>1. FlowsOK
  BY DEF IssueInit, FlowsOK, PathOK, BarOK, ChalOK, CreatePcs
<1>2. ASSUME NEW a \in Addresses, NEW n \in Periods
      PROVE  /\ WindowPayers(a, n) = {} /\ DayPayers(a, n) = {}
             /\ count[<<"window", a, n>>] = 0 /\ count[<<"day", a, n>>] = 0
  <2>1. <<"window", a, n>> \in Buckets /\ <<"day", a, n>> \in Buckets
    BY DEF Buckets
  <2> QED  BY <2>1 DEF IssueInit, WindowPayers, DayPayers, WindowPaid, DayPaid
<1>3. Covered({}, 0, AtLeastOne(SendsPerWindow)) /\ Covered({}, 0, AtLeastOne(SendsPerDay))
  BY FS_EmptySet, LimitTypes DEF Covered
<1>4. CountInv
  BY <1>2, <1>3 DEF CountInv
<1> QED  BY <1>1, <1>4, IssueTypeInit DEF IssueInv

LEMMA IssueInvStep == IssueInv /\ [IssueNext]_issueVars => IssueInv'
<1> SUFFICES ASSUME IssueInv, [IssueNext]_issueVars PROVE IssueInv'
  OBVIOUS
<1>1. IssueTypeOK'
  BY IssueTypeStep DEF IssueInv
<1>2. CASE UNCHANGED issueVars
  BY <1>1, <1>2 DEF issueVars, store, pool, request, challenge, IssueInv, FlowsOK, PathOK, BarOK, ChalOK,
     Eligible, CountInv, Covered, WindowPayers, DayPayers, WindowPaid, DayPaid
<1>3. ASSUME NEW f \in Flows, FlowStep(f)
      PROVE  FlowsOK' /\ CountInv'
  <2>1. FlowsOK'
    BY <1>3, FlowStepsOK DEF IssueInv
  <2>2. ASSUME NEW a \in Addresses, NEW n \in Periods
        PROVE  Covered(WindowPayers(a, n), count[<<"window", a, n>>], AtLeastOne(SendsPerWindow))'
    <3>1. CASE ConsumeWindow(f)
      BY <3>1, WindowPays
    <3>2. CASE WindowQuiet
      BY <3>2, WindowQuietKeeps
    <3> QED  BY <1>3, <3>1, <3>2, QuietSteps DEF IssueInv
  <2>3. ASSUME NEW a \in Addresses, NEW n \in Periods
        PROVE  Covered(DayPayers(a, n), count[<<"day", a, n>>], AtLeastOne(SendsPerDay))'
    <3>1. CASE ConsumeDay(f)
      BY <3>1, DayPays
    <3>2. CASE DayQuiet
      BY <3>2, DayQuietKeeps
    <3> QED  BY <1>3, <3>1, <3>2, QuietSteps DEF IssueInv
  <2> QED  BY <2>1, <2>2, <2>3 DEF CountInv
<1>4. CASE Request \/ Environment
  <2>1. FlowsOK' /\ WindowQuiet /\ DayQuiet
    BY <1>4, SurroundingsOK DEF IssueInv
  <2> QED  BY <1>1, <2>1, WindowQuietKeeps, DayQuietKeeps DEF CountInv, IssueInv
<1> QED  BY <1>1, <1>2, <1>3, <1>4 DEF IssueNext, IssueInv

LEMMA IssueInvPromises == IssueInv => IssuePromise
<1> SUFFICES ASSUME IssueInv PROVE MailCapped /\ NoMailToBarred /\ AnswerableOnlyIfMailed
  BY DEF IssuePromise
<1>1. ASSUME NEW a \in Addresses, NEW n \in Periods
      PROVE  /\ Cardinality(MailsIn(a, WindowOf, n)) <= AtLeastOne(SendsPerWindow)
             /\ Cardinality(MailsIn(a, DayOf, n)) <= SendsPerDay
  <2>1. mailed \subseteq Flows /\ \A f \in mailed : user[f] \in Users
    BY DEF IssueInv, IssueTypeOK, FlowsOK, PathOK
  <2>2. PICK W, D : W = MailsIn(a, WindowOf, n) /\ D = MailsIn(a, DayOf, n)
    OBVIOUS
  <2>3. W \subseteq WindowPayers(a, n) /\ D \subseteq DayPayers(a, n)
    BY <2>1, <2>2 DEF MailsIn, WindowPayers, DayPayers, WindowPaid, DayPaid
  <2>4. PICK c \in Nat, d \in Nat : c = count[<<"window", a, n>>] /\ d = count[<<"day", a, n>>]
    BY BucketTypes DEF IssueInv
  <2>5. PICK P, Q : P = WindowPayers(a, n) /\ Q = DayPayers(a, n)
    OBVIOUS
  <2>6. Covered(P, c, AtLeastOne(SendsPerWindow)) /\ Covered(Q, d, AtLeastOne(SendsPerDay))
    BY <2>4, <2>5 DEF IssueInv, CountInv
  <2>7. Covered(W, c, AtLeastOne(SendsPerWindow)) /\ Covered(D, d, AtLeastOne(SendsPerDay))
    BY <2>3, <2>5, <2>6, LimitTypes, CoveredSubset
  <2>8. Cardinality(W) \in Nat /\ Cardinality(D) \in Nat
    BY <2>7, FS_CardinalityType DEF Covered
  <2>9. Cardinality(W) <= AtLeastOne(SendsPerWindow) /\ Cardinality(D) <= AtLeastOne(SendsPerDay)
    BY <2>4, <2>7, <2>8, LimitTypes DEF Covered
  <2> QED  BY <2>2, <2>9, LimitTypes
<1>2. MailCapped
  BY <1>1 DEF MailCapped
<1>3. NoMailToBarred
  BY DEF IssueInv, IssueTypeOK, FlowsOK, BarOK, NoMailToBarred
<1>4. AnswerableOnlyIfMailed
  BY DEF IssueInv, FlowsOK, ChalOK, AnswerableOnlyIfMailed
<1> QED  BY <1>2, <1>3, <1>4

\* However sign-in requests for an address overlap and whichever calls fail half-way,
\* CreateAuthChallenge mails it no oftener than the window and the day allow, mails
\* nobody who was barred when the challenge began and has been since, and leaves a
\* challenge answerable only when its row was stored and its mail sent.
THEOREM IssueKeepsPromise == IssueSpec => []IssuePromise
  BY IssueInvInit, IssueInvStep, IssueInvPromises, PTL DEF IssueSpec

\* What redeeming a link leaves alone of how it was issued.
IssueFrame ==
    /\ UNCHANGED <<status, denylist, count, mailed, pc, user, at, clear, barred, chal, held>>
    /\ \A f \in Flows : token'[f] = "none" => token[f] = "none"

\* Such a step keeps the promise.
LEMMA IssueFrameKeeps == IssueInv /\ IssueTypeOK' /\ IssueFrame => IssueInv'
<1> SUFFICES ASSUME IssueInv, IssueTypeOK', IssueFrame PROVE FlowsOK' /\ CountInv'
  BY DEF IssueInv
<1>1. FlowsOK'
  BY DEF IssueFrame, IssueInv, FlowsOK, PathOK, BarOK, ChalOK, Eligible
<1>2. CountInv'
  <2>1. WindowQuiet /\ DayQuiet
    BY DEF IssueFrame, WindowQuiet, DayQuiet, WindowPaid, DayPaid
  <2> QED  BY <2>1, WindowQuietKeeps, DayQuietKeeps DEF CountInv
<1> QED  BY <1>1, <1>2

\* Every step of redeeming, and of the table's own expiry, is one.
LEMMA RedeemingFrame ==
    ASSUME TypeOK, Redemption \/ (\E t \in Tries : TryStep(t)) \/ Sweep
    PROVE  IssueFrame
<1> USE DEF TypeOK, GoTry, Fail, Succeed, Continue, local, issueVars, pool, store, request, challenge
<1>1. CASE Redemption
  BY <1>1 DEF IssueFrame, Redemption, Redeem, RedeemDirect
<1>2. CASE Sweep
  BY <1>2 DEF IssueFrame, Sweep, SweepToken, SweepBinding, IssueTypeOK
<1>3. ASSUME NEW t \in Tries, TryStep(t) PROVE IssueFrame
  <2>1. \A f \in Flows : token'[f] = "none" => token[f] = "none"
    BY <1>3, TryStepFrame DEF TryFrame
  <2>2. UNCHANGED <<status, mailed, pc, user, at, chal>>
    BY <1>3, TryStepFrame DEF TryFrame
  <2>3. UNCHANGED <<denylist, count, clear, barred, held>>
    BY <1>3 DEF TryStep, TakeBinding, Respond, CompareAnswer, ReadToken, ConsumeToken,
       RecheckEligibility, Judge, Deliver, VerifyDies
  <2> QED  BY <2>1, <2>2, <2>3 DEF IssueFrame
<1> QED  BY <1>1, <1>2, <1>3

\* The same of the whole protocol: no redemption, failed Verify or expiry of a row undoes
\* what CreateAuthChallenge promises.
THEOREM ProtocolKeepsPromise == Spec => []IssuePromise
<1>1. Init => IssueInv
  BY IssueInvInit DEF Init
<1>2. TypeOK /\ TypeOK' /\ IssueInv /\ [Next]_vars => IssueInv'
  <2> SUFFICES ASSUME TypeOK, TypeOK', IssueInv, [Next]_vars PROVE IssueInv'
    OBVIOUS
  <2>1. CASE IssueNext
    BY <2>1, IssueInvStep
  <2>2. CASE UNCHANGED vars
    BY <2>2, IssueInvStep DEF vars
  <2>3. CASE Redemption \/ (\E t \in Tries : TryStep(t)) \/ Sweep
    BY <2>3, RedeemingFrame, IssueFrameKeeps DEF TypeOK
  <2> QED  BY <2>1, <2>2, <2>3 DEF Next
<1> QED  BY <1>1, <1>2, TypeCorrect, IssueInvPromises, PTL DEF Spec

==============================================================================
