------------------------------- MODULE MCEdge --------------------------------
(* What stands between a browser and a tenant's site, for TLC: the verifiers   *)
(* and their key caches, the session cookies, the triggers of the shared       *)
(* distribution and their client-config cache, and sealed cookies.  They share *)
(* no state, so a behaviour exercises one of them (active) and leaves the      *)
(* others as they are initially.                                               *)
EXTENDS ConfigCache, EdgeAuth, SealedCookies, Sessions, SharedTriggers, TLC

VARIABLE active

MCInit ==
    /\ active \in {"verifier", "session", "config", "triggers", "sealed"}
    /\ EdgeInit /\ (active # "verifier" => kind = "edge" /\ \A v \in Odd : viewer[v] = Away)
    /\ SInit /\ (active # "session" => deployment = "single")
    /\ Init /\ (active # "config" => \A k \in Keys : row[k] = 0)
    /\ TrigInit /\ (active # "triggers" => \A c \in Clients : config[c] = NoRow)
    /\ SealInit

MCNext ==
    /\ UNCHANGED active
    /\ \/ active = "verifier" /\ EdgeNext /\ UNCHANGED <<sVars, vars, trigVars, sealVars>>
       \/ active = "session" /\ SNext /\ UNCHANGED <<edgeVars, vars, trigVars, sealVars>>
       \/ active = "config" /\ Next /\ UNCHANGED <<edgeVars, sVars, trigVars, sealVars>>
       \/ active = "triggers" /\ TrigNext /\ UNCHANGED <<edgeVars, sVars, vars, sealVars>>
       \/ active = "sealed" /\ SealNext /\ UNCHANGED <<edgeVars, sVars, vars, trigVars>>

MCSpec == MCInit /\ [][MCNext]_<<active, edgeVars, sVars, vars, trigVars, sealVars>>

\* The keys of the pool are interchangeable and so are the hosts; so are the loads, the
\* attempts and the processes that seal, which have the same names in Edge.cfg.
Symmetry ==
    Permutations(SigningKeys) \union Permutations(Attempts) \union Permutations(Subdomains)
=============================================================================
