--------------------------- MODULE MCBounceHandler ---------------------------
(* Instances of BounceHandler for TLC. *)
EXTENDS BounceHandler, TLC

CONSTANTS d1, d2, a1, a2

R(kind, to) == [kind |-> kind, to |-> to]

\* A hard bounce of two addresses; a second delivery has a record that does not
\* parse before a complaint about one of them.
MixedBatch ==
    d1 :> <<R("permanent", <<a1, a2>>)>>
    @@ d2 :> <<R("garbled", <<>>), R("complaint", <<a2>>)>>
=============================================================================
