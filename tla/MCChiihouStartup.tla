-------------------------- MODULE MCChiihouStartup --------------------------
(***************************************************************************)
(* Three bots, a table of two places and one relay.                        *)
(***************************************************************************)
EXTENDS ChiihouStartup

CONSTANTS c1, c2, c3, r1

MCClients == {c1, c2, c3}
MCRelays == {r1}
==============================================================================
