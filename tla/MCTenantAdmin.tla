---------------------------- MODULE MCTenantAdmin ----------------------------
(* Two instances of the admin Lambda for TLC.  With the constants of the cfg   *)
(* it runs alone, for one tenant, while DynamoDB and Cognito calls fail        *)
(* half-way, the index lags and the Lambda dies.  In Hourly one run of the     *)
(* reconciler goes on beside two creates and a delete.  A behaviour is one or  *)
(* the other, for good.                                                        *)
EXTENDS Reconciler, TLC

VARIABLE reconciling

Hourly == INSTANCE Reconciler WITH
    Updates <- {}, MaxTime <- 0, Faults <- {"ddb", "cognito"}

MCInit == reconciling \in BOOLEAN /\ RInit

MCNext ==
    /\ UNCHANGED reconciling
    /\ \/ ~reconciling /\ Next /\ UNCHANGED <<scan, watch>>
       \/ reconciling /\ Hourly!RNext

MCSpec == MCInit /\ [][MCNext]_<<rvars, reconciling>>

Symmetry == Permutations(Creates) \union Permutations(Subdomains)
              \union Permutations(TenantIds)
=============================================================================
