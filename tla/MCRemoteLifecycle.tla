-------------------------- MODULE MCRemoteLifecycle --------------------------
(***************************************************************************)
(* RemoteLifecycle with two windows on one machine.                        *)
(***************************************************************************)
EXTENDS RemoteLifecycle

CONSTANTS c1, c2

TwoClients == {c1, c2}
OneClient == {c1}
=============================================================================
