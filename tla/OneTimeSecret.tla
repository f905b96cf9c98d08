---------------------------- MODULE OneTimeSecret ----------------------------
(***************************************************************************)
(* What a mailed sign-in secret promises: it comes to life at most once,   *)
(* one redeemer at most claims it, and only the claim in force can be won. *)
(* Nothing brings a dead secret back.                                      *)
(***************************************************************************)
CONSTANTS Secrets

VARIABLE secret

Init == secret = [s \in Secrets |-> "none"]

Move(s, from, to) == secret[s] = from /\ secret' = [secret EXCEPT ![s] = to]

Issue(s) == Move(s, "none", "live")

Claim(s) == Move(s, "live", "claimed")

Win(s) == Move(s, "claimed", "won")

\* Expired or removed unclaimed, or claimed by a redeemer that was refused.
Die(s) == Move(s, "live", "dead") \/ Move(s, "claimed", "dead")

Next == \E s \in Secrets : Issue(s) \/ Claim(s) \/ Win(s) \/ Die(s)

Spec == Init /\ [][Next]_secret
=============================================================================
