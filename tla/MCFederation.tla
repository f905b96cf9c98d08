---------------------------- MODULE MCFederation -----------------------------
(* Two tenants whose identifiers differ only in case, for TLC. *)
EXTENDS Federation

Homonyms == {<<"A">>, <<"a">>}
=============================================================================
