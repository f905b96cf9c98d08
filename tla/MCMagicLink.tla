----------------------------- MODULE MCMagicLink -----------------------------
(* Instances of MagicLink for TLC. *)
EXTENDS MagicLink, TLC

CONSTANTS u1, u2, a1, a2

MailShared == [u \in Users |-> a1]

=============================================================================
