--------------------------- MODULE MCChallengeIssue ---------------------------
(* Two instances of ChallengeIssue for TLC.  The constants of the cfg are a    *)
(* self-signup deployment: windows of one day pass, calls fail and the Lambdas *)
(* die.  AdminOnly is an admin-only deployment: administrators and the bounce  *)
(* handler change who may be mailed, and stores and sends fail half-way.  Two  *)
(* users share the address a1; nobody holds a2.  A behaviour is one or the     *)
(* other, for good.                                                            *)
EXTENDS ChallengeIssue, TLC

CONSTANTS a1, a2

VARIABLE enrollment

MailShared == [u \in Users |-> a1]

AdminOnly == INSTANCE ChallengeIssue WITH
    Addresses <- {a1}, SelfSignup <- FALSE, SignupDomain <- {},
    SendsPerDay <- 2, MaxTime <- 0, Entries <- {"browser", "direct"},
    AdminStatuses <- {"absent", "active", "disabled", "deleted"},
    Faults <- {"limits", "store", "ses", "denylist", "allowlist", "binding"}

MCInit ==
    \/ enrollment = "self-signup" /\ IssueInit
    \/ enrollment = "admin-only" /\ AdminOnly!IssueInit

MCNext ==
    /\ UNCHANGED enrollment
    /\ \/ enrollment = "self-signup" /\ IssueNext
       \/ enrollment = "admin-only" /\ AdminOnly!IssueNext

MCSpec == MCInit /\ [][MCNext]_<<issueVars, enrollment>>

FlowSymmetry == Permutations(Flows)
=============================================================================
