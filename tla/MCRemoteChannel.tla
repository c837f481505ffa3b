--------------------------- MODULE MCRemoteChannel ---------------------------
(***************************************************************************)
(* RemoteChannel with a few messages each way.                             *)
(***************************************************************************)
EXTENDS RemoteChannel

\* One connection lost, or the server's threads at the same time.
DropOrRace == {[background |-> {}, drops |-> 1], [background |-> {"server"}, drops |-> 0]}

TwoDrops == {[background |-> {}, drops |-> 2]}
=============================================================================
