------------------------------ MODULE MCExplorer ------------------------------
(***************************************************************************)
(* Explorer with two databases of one schema each, and two environments of *)
(* which the second names its database.                                    *)
(***************************************************************************)
EXTENDS Explorer, TLC

CONSTANTS p1, p2, d1, d2, s1

MCProfiles == {p1, p2}
MCDatabases == {d1, d2}
MCSchemas == {s1}
MCPinnedIn == (p1 :> None) @@ (p2 :> d1)
===============================================================================
