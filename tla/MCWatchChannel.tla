---------------------------- MODULE MCWatchChannel ----------------------------
(***************************************************************************)
(* WatchChannel with three receivers.                               *)
(***************************************************************************)
EXTENDS WatchChannel

CONSTANTS r1, r2, r3
ThreeReceivers == {r1, r2, r3}
===============================================================================
