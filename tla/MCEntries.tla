----------------------------- MODULE MCEntries -----------------------------
(***************************************************************************)
(* Two entries, two routers, two features, two flows, three changes; some  *)
(* entities of one feature bear a keyword of the other.                    *)
(***************************************************************************)
EXTENDS Entries

CONSTANTS f, g

Overlap == {<<f, g>>}
=============================================================================
