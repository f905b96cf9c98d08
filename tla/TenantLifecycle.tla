--------------------------- MODULE TenantLifecycle ---------------------------
(***************************************************************************)
(* What the admin operations promise about one tenant's two halves, its    *)
(* Cognito app client and its ClientConfig row: the client comes first and *)
(* goes first.  A client that was ever served by a row never loses the row *)
(* while it can still mint tokens, and a tenant that is gone stays gone.   *)
(***************************************************************************)
CONSTANTS Tenants

VARIABLE stage

Init == stage = [x \in Tenants |-> "none"]

Move(x, from, to) == stage[x] = from /\ stage' = [stage EXCEPT ![x] = to]

Provision(x) == Move(x, "none", "client")

Serve(x) == Move(x, "client", "served")

\* A client that never got its row is rolled back.
RollBack(x) == Move(x, "client", "gone")

\* The client is deleted: what is left is a row nobody can use.
Retire(x) == Move(x, "served", "garbage")

Clean(x) == Move(x, "garbage", "gone")

Next == \E x \in Tenants :
          Provision(x) \/ Serve(x) \/ RollBack(x) \/ Retire(x) \/ Clean(x)

Spec == Init /\ [][Next]_stage
=============================================================================
