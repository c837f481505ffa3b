------------------------------ MODULE MCRunsFeed ------------------------------
(***************************************************************************)
(* RunsFeed over one daemon that pushes, one that is polled, and two of    *)
(* which one pushes and the other is polled.                               *)
(***************************************************************************)
EXTENDS RunsFeed, TLC

CONSTANTS A, B

Max(events, lines, clicks, renewals, faults) ==
    [events |-> events, lines |-> lines, clicks |-> clicks, renewals |-> renewals,
     faults |-> faults]

\* One daemon: sessions that end and events that are lost around an opened run.
Pushing == [remotes |-> (A :> "socket"), threads |-> TRUE, max |-> Max(2, 1, 2, 1, 1)]

\* No thread for the socket: the poll, its failures, the tab left and shown.
Starved == [remotes |-> (A :> "socket"), threads |-> FALSE, max |-> Max(1, 3, 3, 0, 1)]

\* Two daemons: what is on the way when the operator turns to the other.
Switching == [remotes |-> (A :> "socket" @@ B :> "none"), threads |-> TRUE,
              max |-> Max(1, 1, 3, 0, 0)]

AllSites == {Pushing, Starved, Switching}

\* A run opened as it starts, with no failure at all.
JustStarted == {[remotes |-> (A :> "socket"), threads |-> TRUE, max |-> Max(1, 0, 2, 0, 0)]}
===============================================================================
