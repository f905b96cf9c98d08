----------------------------- MODULE MCPlatform -----------------------------
(* The components of foundation, for TLC.  They share no state, so a          *)
(* behaviour exercises one of them (active) and leaves the others as they     *)
(* are initially; the pins in MCInit keep those in one state.                 *)
EXTENDS RateLimiter, KvStore, AuditLog, SecretCache, FeatureToggles, Keycloak,
        RequestPipeline, TLC

CONSTANTS c1, c2, c3, x1, x2, x3

VARIABLE active

\* The limiter: two calls that may pass together, and one that may have to wait
\* for both.
MixedCost == c1 :> 2 @@ c2 :> 2 @@ c3 :> 3

\* The audit log: a small event, one with a secret below another key, and two
\* that are too large or become so.
Leaf(path, value, bytes) == [path |-> path, value |-> value, bytes |-> bytes]

AuditInputs ==
    { << Leaf(<<"a">>, "v1", 1) >>,
      << Leaf(<<"a", "Token", "x">>, "v1", 1), Leaf(<<"b">>, "v2", 2), Leaf(<<"c">>, "v3", 2) >>,
      << Leaf(<<"b">>, "v2", 3), Leaf(<<"token">>, "v3", 3) >> }

KeptFor == [info |-> 1, error |-> 2]

\* The pipeline: two tenants' own hosts, and a custom domain whose lookup fails; the
\* second stack mixes trust classes and is refused.
Host(labels, own) ==
    [labels |-> labels, own |-> own, form |-> "plain", shaped |-> TRUE, claimed |-> NoTenant]

Arriving ==
    { [host |-> Host(<<"acme">>, TRUE), cdn |-> "ZZ", cf |-> "US", langs |-> <<"de">>],
      [host |-> Host(<<"globex">>, TRUE), cdn |-> "ZZ", cf |-> "US", langs |-> <<"de">>],
      [host |-> Host(<<"shop">>, FALSE), cdn |-> "DE", cf |-> "", langs |-> <<>>] }

Stacks == { <<"subdomain", "custom">>, <<"header", "subdomain">> }

Orders == { <<"cdn-geo-header", "accept-language", "default">> }

Domains == TRUE :> "unknown" @@ FALSE :> "error"

Countries == [DE |-> "eu", US |-> "us", FR |-> "elsewhere"]

MCInit ==
    /\ active \in {"limiter", "kv", "audit", "secrets", "toggles", "keycloak", "pipeline"}
    /\ Init
    /\ KvInit /\ (active # "kv" => backend = "memory" /\ usage = "plain")
    /\ AuditInit /\ (active # "audit" => auditMode = "all" /\ policy = "reject")
    /\ SecretInit
    /\ ToggleInit /\ (active # "toggles" => toggle = "off")
    /\ IdpInit /\ (active # "keycloak" => secretOk)
    /\ PInit /\ home = [t \in Tenants |-> IF t = <<"acme">> THEN "eu" ELSE None]

MCNext ==
    /\ UNCHANGED active
    /\ active = "limiter" \/ UNCHANGED vars
    /\ active = "kv" \/ UNCHANGED kvVars
    /\ active = "audit" \/ UNCHANGED auditVars
    /\ active = "secrets" \/ UNCHANGED secretVars
    /\ active = "toggles" \/ UNCHANGED toggleVars
    /\ active = "keycloak" \/ UNCHANGED idpVars
    /\ active = "pipeline" \/ UNCHANGED pVars
    /\ \/ active = "limiter" /\ Next
       \/ active = "kv" /\ KvNext
       \/ active = "audit" /\ AuditNext
       \/ active = "secrets" /\ SecretNext
       \/ active = "toggles" /\ ToggleNext
       \/ active = "keycloak" /\ IdpNext
       \/ active = "pipeline" /\ PNext

MCSpec ==
    MCInit /\ [][MCNext]_<<active, vars, kvVars, auditVars, secretVars, toggleVars, idpVars, pVars>>

\* The first two callers of every component are the same two values, so that one
\* permutation serves all components.
Symmetry == Permutations({x1, x2})
=============================================================================
