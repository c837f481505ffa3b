---------------------------- MODULE RemoteChannel ----------------------------
(***************************************************************************)
(* The message channel between the editor and the server it runs on a      *)
(* remote machine: ChannelClient (crates/remote/src/remote_client.rs), of  *)
(* which each end holds one, and the server's loop that joins it to the    *)
(* proxy's streams (start_server, crates/remote_server/src/server.rs).     *)
(*                                                                         *)
(* A message is kept in its sender's buffer until the peer acknowledges    *)
(* it: every message sent carries the id of the last one received.  When   *)
(* the connection drops the client opens another and both ends send their  *)
(* buffers again.  The server's ChannelClient outlives a connection with   *)
(* its queue of messages to write; the client's gets new queues.           *)
(***************************************************************************)
EXTENDS Naturals, Sequences, FiniteSets

CONSTANTS
    None,      \* Option::None
    MaxSends,  \* messages each end sends, at most
    Settings   \* the settings to look at, see Setting

VARIABLES
    chan,    \* end -> its ChannelClient
    resync,  \* the client's flush request under way, by id
    link,    \* the connection: "up", "broken" (the server did not notice), "down"
    up,      \* on the way to the server: outgoing_tx, the proxy and its socket
    inbox,   \* read by the server's loop, not handled (incoming_tx)
    out,     \* to be written by the server's loop (outgoing_tx)
    down,    \* on the way to the client: the proxy's stdout and incoming_tx
    sent,    \* end -> ids of the messages it was asked to send
    setting, \* who sends from background threads, and how many drops there may be
    drops    \* connections lost so far

wires == <<link, up, inbox, out, down>>
vars == <<chan, resync, wires, sent, setting, drops>>

-----------------------------------------------------------------------------
(* Data *)

Ends == {"client", "server"}
Peer(end) == IF end = "client" THEN "server" ELSE "client"

Opt(S) == S \cup {None}

\* proto::Envelope: "data" stands for every message an end is asked to send, a
\* request, an answer or neither; "flush" for FlushBufferedMessages, "started"
\* for RemoteStarted, "ack" for the answer to either.
Message == [kind : {"data", "flush", "started", "ack"},
            id : Nat, ack_id : Opt(Nat), responding_to : Opt(Nat)]

\* Of the threads that are sending, "taken" are the ids of the messages not
\* buffered yet and "pushed" the messages buffered and not sent yet; "handled"
\* are the data messages handled, in that order.
ChannelClient == [next_message_id : Nat, buffer : Seq(Message), max_received : Nat,
                  taken : SUBSET Nat, pushed : SUBSET Message, handled : Seq(Nat)]

\* "background" are the ends where threads send at the same time, "drops" is
\* how many connections are lost, at most.
Setting == [background : SUBSET Ends, drops : Nat]

ASSUME ConstantsAssumption ==
    /\ None \notin Nat
    /\ Settings \subseteq Setting
    /\ MaxSends \in Nat

Ids(messages) == {messages[i].id : i \in DOMAIN messages}

-----------------------------------------------------------------------------
(* ChannelClient *)

\* A variant of PopAcked: the message after the one acknowledged goes too.
PopAckedOneMore(buffer, ack) ==
    LET n == Cardinality({i \in DOMAIN buffer : buffer[i].id <= ack + 1})
    IN  SubSeq(buffer, n + 1, Len(buffer))

\* The buffer without the messages at its front up to the one acknowledged.
PopAcked(buffer, ack) ==
    LET n == CHOOSE n \in 0..Len(buffer) :
                /\ \A i \in 1..n : buffer[i].id <= ack
                /\ n < Len(buffer) => buffer[n + 1].id > ack
    IN  SubSeq(buffer, n + 1, Len(buffer))

Acknowledge(c, m) ==
    IF m.ack_id = None THEN c ELSE [c EXCEPT !.buffer = PopAcked(@, m.ack_id)]

AckOf(c, m) == [kind |-> "ack", id |-> c.next_message_id, ack_id |-> None, responding_to |-> m.id]

\* Variants of Handle: the id kept is the one acknowledged; RemoteStarted is
\* answered with the buffer too; a flush request is answered without it.
HandleKeepsAck(c, m) ==
    [chan |-> [Acknowledge(c, m) EXCEPT !.max_received = m.ack_id], answer |-> <<>>]
HandleStartedFlushes(c, m) ==
    LET popped == Acknowledge(c, m)
        answered == [popped EXCEPT !.next_message_id = @ + 1]
        received == [popped EXCEPT !.max_received = m.id]
    IN  IF m.kind \in {"flush", "started"}
        THEN [chan |-> answered, answer |-> Append(popped.buffer, AckOf(popped, m))]
        ELSE IF m.kind = "data"
        THEN [chan |-> [received EXCEPT !.handled = Append(@, m.id)], answer |-> <<>>]
        ELSE [chan |-> received, answer |-> <<>>]
HandleFlushesNothing(c, m) ==
    LET popped == Acknowledge(c, m)
        answered == [popped EXCEPT !.next_message_id = @ + 1]
        received == [popped EXCEPT !.max_received = m.id]
    IN  IF m.kind \in {"flush", "started"}
        THEN [chan |-> answered, answer |-> <<AckOf(popped, m)>>]
        ELSE IF m.kind = "data"
        THEN [chan |-> [received EXCEPT !.handled = Append(@, m.id)], answer |-> <<>>]
        ELSE [chan |-> received, answer |-> <<>>]

\* start_handling_messages: what handling m makes of c, and what c answers.
Handle(c, m) ==
    LET popped == Acknowledge(c, m)
        answered == [popped EXCEPT !.next_message_id = @ + 1]
        received == [popped EXCEPT !.max_received = m.id]
    IN  IF m.kind = "flush"
        THEN [chan |-> answered, answer |-> Append(popped.buffer, AckOf(popped, m))]
        ELSE IF m.kind = "started"
        THEN [chan |-> answered, answer |-> <<AckOf(popped, m)>>]
        ELSE IF m.kind = "data"
        THEN [chan |-> [received EXCEPT !.handled = Append(@, m.id)], answer |-> <<>>]
        ELSE [chan |-> received, answer |-> <<>>]

Data(c, id) == [kind |-> "data", id |-> id, ack_id |-> c.max_received, responding_to |-> None]

\* What the client sends goes nowhere while its connection is lost; what the
\* server sends waits for its loop.
Outgoing(end, messages) ==
    /\ up' = IF end = "client" /\ link = "up" THEN up \o messages ELSE up
    /\ out' = IF end = "server" THEN out \o messages ELSE out

\* send_buffered of the message with this id
SendBuffered(end, c, id) ==
    /\ chan' = [chan EXCEPT ![end] = [c EXCEPT !.buffer = Append(@, Data(c, id))]]
    /\ Outgoing(end, <<Data(c, id)>>)

-----------------------------------------------------------------------------
(* Sending *)

\* request, send or send_response on the foreground thread.
Send(end) ==
    LET c == chan[end]
    IN  /\ Cardinality(sent[end]) < MaxSends
        /\ sent' = [sent EXCEPT ![end] = @ \cup {c.next_message_id}]
        /\ SendBuffered(end, [c EXCEPT !.next_message_id = @ + 1], c.next_message_id)
        /\ UNCHANGED <<resync, link, inbox, down, setting, drops>>

\* ... where threads send at the same time: the id is taken,
TakeId(end) ==
    LET c == chan[end]
    IN  /\ end \in setting.background
        /\ Cardinality(sent[end]) < MaxSends
        /\ sent' = [sent EXCEPT ![end] = @ \cup {c.next_message_id}]
        /\ chan' = [chan EXCEPT ![end].next_message_id = @ + 1, ![end].taken = @ \cup {c.next_message_id}]
        /\ UNCHANGED <<resync, wires, setting, drops>>

\* then the message is buffered,
BufferTaken(end) ==
    LET c == chan[end]
    IN  /\ \E id \in c.taken :
              chan' = [chan EXCEPT ![end].taken = @ \ {id},
                                   ![end].buffer = Append(@, Data(c, id)),
                                   ![end].pushed = @ \cup {Data(c, id)}]
        /\ UNCHANGED <<resync, wires, sent, setting, drops>>

\* then it is sent.
SendPushed(end) ==
    /\ \E m \in chan[end].pushed :
          /\ chan' = [chan EXCEPT ![end].pushed = @ \ {m}]
          /\ Outgoing(end, <<m>>)
    /\ UNCHANGED <<resync, link, inbox, down, sent, setting, drops>>

-----------------------------------------------------------------------------
(* Receiving *)

\* The answer to its flush request ends the client's resync, which sends the
\* buffer again before the next message is handled.
ClientHandles ==
    /\ link = "up" /\ down # <<>>
    /\ LET m == Head(down)
           h == Handle(chan["client"], m)
           ends == m.kind = "ack" /\ m.responding_to = resync
       IN  /\ chan' = [chan EXCEPT !["client"] = h.chan]
           /\ resync' = IF ends THEN None ELSE resync
           /\ Outgoing("client", IF ends THEN h.answer \o h.chan.buffer ELSE h.answer)
    /\ down' = Tail(down)
    /\ UNCHANGED <<link, inbox, sent, setting, drops>>

ServerHandles ==
    /\ inbox # <<>>
    /\ LET h == Handle(chan["server"], Head(inbox))
       IN  /\ chan' = [chan EXCEPT !["server"] = h.chan]
           /\ Outgoing("server", h.answer)
    /\ inbox' = Tail(inbox)
    /\ UNCHANGED <<resync, link, down, sent, setting, drops>>

\* The server's loop reads from the proxy and writes to it.  What it writes to
\* a connection that is lost is lost.
ServerReads ==
    /\ link = "up" /\ up # <<>>
    /\ inbox' = Append(inbox, Head(up))
    /\ up' = Tail(up)
    /\ UNCHANGED <<chan, resync, link, out, down, sent, setting, drops>>

ServerWrites ==
    /\ link \in {"up", "broken"} /\ out # <<>>
    /\ down' = IF link = "up" THEN Append(down, Head(out)) ELSE down
    /\ out' = Tail(out)
    /\ UNCHANGED <<chan, resync, link, up, inbox, sent, setting, drops>>

-----------------------------------------------------------------------------
(* Connections *)

\* The connection is lost, with what is on it; also the client's giving up on
\* a resync that was not answered in time.
Drop ==
    /\ link = "up" /\ drops < setting.drops
    /\ link' = "broken" /\ up' = <<>> /\ down' = <<>>
    /\ drops' = drops + 1
    /\ UNCHANGED <<chan, resync, inbox, out, sent, setting>>

\* The server's loop fails to read or to write, and waits for a connection.
ServerNotices ==
    /\ link = "broken"
    /\ link' = "down"
    /\ UNCHANGED <<chan, resync, up, inbox, out, down, sent, setting, drops>>

\* RemoteClient::reconnect: new queues, a flush request that is not buffered,
\* then the handling of messages, which starts with RemoteStarted.
Reconnect ==
    /\ link = "down"
    /\ link' = "up"
    /\ LET c == chan["client"]
           id == c.next_message_id
       IN  /\ chan' = [chan EXCEPT !["client"].next_message_id = @ + 1]
           /\ resync' = id
           /\ up' = << [kind |-> "flush", id |-> id, ack_id |-> c.max_received,
                        responding_to |-> None],
                       [kind |-> "started", id |-> 0, ack_id |-> None, responding_to |-> None] >>
    /\ UNCHANGED <<inbox, out, down, sent, setting, drops>>

-----------------------------------------------------------------------------
\* The ends have started: the answer to the peer's RemoteStarted was the
\* message 0 of each.
Init ==
    /\ chan = [end \in Ends |-> [next_message_id |-> 1, buffer |-> <<>>, max_received |-> 0,
                                 taken |-> {}, pushed |-> {}, handled |-> <<>>]]
    /\ resync = None
    /\ link = "up" /\ up = <<>> /\ inbox = <<>> /\ out = <<>> /\ down = <<>>
    /\ sent = [end \in Ends |-> {}]
    /\ setting \in Settings
    /\ drops = 0

\* What the executors, the server's loop and RemoteClient do by themselves.
Tasks ==
    \/ \E end \in Ends : BufferTaken(end) \/ SendPushed(end)
    \/ ClientHandles \/ ServerHandles \/ ServerReads \/ ServerWrites
    \/ ServerNotices \/ Reconnect

Next ==
    \/ \E end \in Ends : Send(end) \/ TakeId(end)
    \/ Drop
    \/ Tasks

Spec == Init /\ [][Next]_vars

\* While one of them can take a step, one does: the foreground executors and
\* the server's loop are never idle while a message waits, and a lost
\* connection is opened again (within MAX_RECONNECT_ATTEMPTS).  Nothing is
\* obliged to be sent or to drop.
FairSpec == Spec /\ WF_vars(Tasks)

-----------------------------------------------------------------------------
(* Properties *)

\* Every variable has its type.
TypeOK ==
    /\ chan \in [Ends -> ChannelClient]
    /\ resync \in Opt(Nat)
    /\ link \in {"up", "broken", "down"}
    /\ up \in Seq(Message) /\ inbox \in Seq(Message)
    /\ out \in Seq(Message) /\ down \in Seq(Message)
    /\ sent \in [Ends -> SUBSET Nat]
    /\ setting \in Setting
    /\ drops \in Nat

\* The messages this end is about to send, and those on their way from it.
InTransit(end) ==
    chan[end].taken \cup {m.id : m \in chan[end].pushed}
    \cup (IF end = "client" THEN Ids(up) \cup Ids(inbox) ELSE Ids(out) \cup Ids(down))

HandledBy(end) == {chan[end].handled[i] : i \in DOMAIN chan[end].handled}

\* No message is lost: whatever drops, each message an end was asked to send is
\* handled by the peer, on its way to it, or still in the sender's buffer to be
\* sent again (send_buffered, the acknowledgements, resync).
NoLoss ==
    \A end \in Ends :
        sent[end] \subseteq HandledBy(Peer(end)) \cup InTransit(end) \cup Ids(chan[end].buffer)

\* A message is handled again at most once for each connection lost: what the
\* peer acknowledged is not sent again, and nothing is sent twice for one
\* resync (the queue that outlives a connection against the buffer sent again).
RepeatsBounded ==
    \A end \in Ends : \A id \in HandledBy(end) :
        Cardinality({i \in DOMAIN chan[end].handled : chan[end].handled[i] = id}) <= 1 + drops

\* Every message sent is handled in the end, over whichever connection.
AllHandled == <>[](\A end \in Ends : sent[end] \subseteq HandledBy(Peer(end)))
=============================================================================
