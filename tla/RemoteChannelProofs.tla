-------------------------- MODULE RemoteChannelProofs --------------------------
(***************************************************************************)
(* The safety of the message channel, for any number of messages: none is  *)
(* lost before a connection is, whatever threads send, nor over the first  *)
(* connection lost, where the ends send one message at a time.  (The       *)
(* second one may lose messages: see NoLoss over TwoDrops.)                *)
(*                                                                         *)
(* What is not handled yet, Open(end), is carried by the connection, or    *)
(* kept in the buffer; and what is kept stays there because no             *)
(* acknowledgement that will be handled before the buffer is sent again    *)
(* reaches it.                                                             *)
(***************************************************************************)
EXTENDS RemoteChannel, WellOrder, SequenceTheorems, TLAPS

\* What the peer has not handled of what this end was asked to send.
Open(end) == sent[end] \ HandledBy(Peer(end))

\* All that is on its way from this end, in the order it will be handled in.
Path(end) == IF end = "client" THEN inbox \o up ELSE down \o out

DataIds(s) == {s[i].id : i \in {j \in DOMAIN s : s[j].kind = "data"}}

\* The acknowledgement a of messages of an end reaches no message of the set O
\* of those open, nor any that is still to be sent, from the id next on.
Safe(O, next, a) == a \in Nat /\ a < next /\ \A k \in O : a < k

\* The first n messages of s are data; each acknowledges safely ...
Acks(O, next, s, n) == \A i \in 1..n : s[i].kind = "data" /\ Safe(O, next, s[i].ack_id)

\* ... or: each comes after all the open messages sent before it.
Due(O, next, s, n) ==
    \A i \in 1..n : /\ s[i].kind = "data" /\ s[i].id < next
                    /\ \A k \in O : k <= s[i].id => \E j \in 1..i : s[j].id = k

\* The next id of this end, and what it was acknowledged last.
NextId(end) == chan[end].next_message_id
Received(end) == chan[Peer(end)].max_received

Kept(end) == Open(end) \subseteq Ids(chan[end].buffer)
Carried(end) == Open(end) \subseteq DataIds(Path(end))
AllDue(end) == Due(Open(end), NextId(end), Path(end), Len(Path(end)))
AllSafe(end) ==
    /\ Acks(Open(end), NextId(end), Path(Peer(end)), Len(Path(Peer(end))))
    /\ Acks(Open(end), NextId(end), chan[Peer(end)].buffer, Len(chan[Peer(end)].buffer))
    /\ Safe(Open(end), NextId(end), Received(end))

\* The first connection.
First ==
    /\ link = "up" /\ resync = None
    /\ \A end \in Ends : Kept(end) /\ Carried(end) /\ AllDue(end) /\ AllSafe(end)

\* It is lost, and there is no other yet: the server handles what it had read.
Lost ==
    /\ link # "up"
    /\ \A end \in Ends : Kept(end) /\ AllSafe(end)
    /\ AllDue("client")

\* The second connection, and the request to flush is on its way, the f-th: up to
\* it all is as before.
FlushAt(f) ==
    LET s == Path("client")
    IN  /\ s[f].kind = "flush" /\ s[f].id = resync
        /\ Due(Open("client"), NextId("client"), s, f - 1)
        /\ Acks(Open("server"), NextId("server"), s, f - 1)
        /\ Safe(Open("server"), NextId("server"), s[f].ack_id)

Asked ==
    /\ link = "up" /\ resync \in Nat
    /\ \A end \in Ends : Kept(end)
    /\ AllSafe("client")
    /\ \E f \in 1..Len(Path("client")) : FlushAt(f)

\* The server sent its buffer again, and the answer is on its way, the g-th: up to
\* it the client's messages are acknowledged safely.
AnswerAt(g) ==
    LET s == Path("server")
    IN  /\ s[g].kind = "ack" /\ s[g].responding_to = resync /\ s[g].ack_id = None
        /\ Acks(Open("client"), NextId("client"), s, g - 1)

Answered ==
    /\ link = "up" /\ resync \in Nat
    /\ Kept("client") /\ Carried("server")
    /\ \E g \in 1..Len(Path("server")) : AnswerAt(g)

\* The client sent its buffer again too.
Resynced == link = "up" /\ resync = None /\ \A end \in Ends : Carried(end)

\* What is about to be sent by threads, and what carries it.
Sending(end) == chan[end].taken \cup {m.id : m \in chan[end].pushed}

\* Without a connection nothing is on it; threads send where the setting says so;
\* what is buffered, or about to be sent, is data.
Quiet == link # "up" => up = <<>> /\ down = <<>>
Threads == \A end \in Ends : end \notin setting.background =>
              chan[end].taken = {} /\ chan[end].pushed = {}
OnlyData == \A end \in Ends : /\ \A i \in DOMAIN chan[end].buffer : chan[end].buffer[i].kind = "data"
                             /\ \A m \in chan[end].pushed : m.kind = "data"
Base == TypeOK /\ Quiet /\ Threads /\ OnlyData

\* Before a connection is lost, with or without threads.
Early == drops = 0 => /\ link = "up"
                      /\ \A end \in Ends : Open(end) \subseteq Sending(end) \cup DataIds(Path(end))

IInv ==
    /\ Base
    /\ Early
    /\ setting.background = {} /\ drops = 0 => First
    /\ setting.background = {} /\ drops = 1 => Lost \/ Asked \/ Answered \/ Resynced

-----------------------------------------------------------------------------
(* Acknowledgements *)

\* Messages have ids.
LEMMA MessageIds ==
    ASSUME NEW s \in Seq(Message)
    PROVE  \A i \in 1..Len(s) : s[i] \in Message /\ s[i].id \in Nat
<1>1. \A i \in 1..Len(s) : s[i] \in Message
  OBVIOUS
<1>2. \A m \in Message : m.id \in Nat
  BY DEF Message
<1> QED BY <1>1, <1>2

\* The open messages O2 are some of O, or were sent since, from the id next on.
Later(O, next, O2, next2) ==
    /\ O \subseteq Nat /\ O2 \subseteq Nat /\ next \in Nat /\ next2 \in Nat /\ next <= next2
    /\ \A k \in O2 : k \in O \/ next <= k

\* What was safe stays so, whatever is handled and sent.
LEMMA SafeLater ==
    ASSUME NEW O, NEW next, NEW O2, NEW next2, Later(O, next, O2, next2),
           NEW a, Safe(O, next, a)
    PROVE  Safe(O2, next2, a)
BY DEF Later, Safe

\* What was safe stays so, for all the first messages of a sequence.
LEMMA AcksLater ==
    ASSUME NEW O, NEW next, NEW O2, NEW next2, Later(O, next, O2, next2),
           NEW s, NEW n \in Nat, Acks(O, next, s, n)
    PROVE  Acks(O2, next2, s, n)
BY SafeLater DEF Acks

\* Messages that were due stay so, whatever is handled and sent.
LEMMA DueLater ==
    ASSUME NEW O, NEW next, NEW O2, NEW next2, Later(O, next, O2, next2),
           NEW s \in Seq(Message), NEW n \in 0..Len(s), Due(O, next, s, n)
    PROVE  Due(O2, next2, s, n)
<1> SUFFICES ASSUME NEW i \in 1..n
             PROVE  /\ s[i].kind = "data" /\ s[i].id < next2
                    /\ \A k \in O2 : k <= s[i].id => \E j \in 1..i : s[j].id = k
  BY DEF Due
<1>1. /\ s[i].kind = "data" /\ s[i].id < next
      /\ \A k \in O : k <= s[i].id => \E j \in 1..i : s[j].id = k
  BY DEF Due
<1>2. s[i].id \in Nat
  <2>1. i \in 1..Len(s)
    OBVIOUS
  <2> QED BY <2>1, MessageIds
<1>3. s[i].id < next2
  BY <1>1, <1>2 DEF Later
<1>4. ASSUME NEW k \in O2, k <= s[i].id PROVE k \in O
  <2>1. k \in Nat /\ next \in Nat /\ (k \in O \/ next <= k)
    BY DEF Later
  <2> QED BY <1>1, <1>2, <1>4, <2>1
<1> QED BY <1>1, <1>3, <1>4

\* A sequence that begins as another does.
LEMMA AcksPrefix ==
    ASSUME NEW O, NEW next, NEW s, NEW n \in Nat, Acks(O, next, s, n), NEW t, NEW k \in 0..n,
           \A i \in 1..k : t[i] = s[i]
    PROVE  Acks(O, next, t, k)
<1>1. \A i \in 1..k : i \in 1..n
  OBVIOUS
<1> QED BY <1>1 DEF Acks

\* The same of messages due.
LEMMA DuePrefix ==
    ASSUME NEW O, NEW next, NEW s, NEW n \in Nat, Due(O, next, s, n), NEW t, NEW k \in 0..n,
           \A i \in 1..k : t[i] = s[i]
    PROVE  Due(O, next, t, k)
<1> SUFFICES ASSUME NEW i \in 1..k
             PROVE  /\ t[i].kind = "data" /\ t[i].id < next
                    /\ \A x \in O : x <= t[i].id => \E j \in 1..i : t[j].id = x
  BY DEF Due
<1>1. i \in 1..n /\ t[i] = s[i]
  OBVIOUS
<1>2. /\ s[i].kind = "data" /\ s[i].id < next
      /\ \A x \in O : x <= s[i].id => \E j \in 1..i : s[j].id = x
  BY <1>1 DEF Due
<1>3. \A j \in 1..i : t[j] = s[j]
  OBVIOUS
<1> QED BY <1>1, <1>2, <1>3

\* What follows d messages of a sequence.
LEMMA AcksSuffix ==
    ASSUME NEW O, NEW next, NEW s, NEW n \in Nat, Acks(O, next, s, n), NEW t, NEW k \in Nat,
           NEW d \in Nat, k + d <= n, \A i \in 1..k : t[i] = s[i + d]
    PROVE  Acks(O, next, t, k)
<1>1. \A i \in 1..k : i + d \in 1..n
  OBVIOUS
<1> QED BY <1>1 DEF Acks

\* The first message is handled: the others were due after it, and it may be
\* acknowledged.
LEMMA DueTail ==
    ASSUME NEW O \in SUBSET Nat, NEW next \in Nat, NEW s \in Seq(Message), s # <<>>,
           NEW n \in 1..Len(s), Due(O, next, s, n)
    PROVE  /\ Due(O \ {s[1].id}, next, Tail(s), n - 1)
           /\ Safe(O \ {s[1].id}, next, s[1].id) /\ s[1].kind = "data"
<1>1. Tail(s) \in Seq(Message) /\ Len(Tail(s)) = Len(s) - 1
      /\ \A i \in 1..(Len(s) - 1) : Tail(s)[i] = s[i + 1]
  OBVIOUS
<1>2. \A i \in 1..Len(s) : s[i] \in Message /\ s[i].id \in Nat
  BY MessageIds
<1>3. 1 \in 1..n /\ 1 \in 1..Len(s)
  OBVIOUS
<1>4. Safe(O \ {s[1].id}, next, s[1].id) /\ s[1].kind = "data"
  <2>1. s[1].kind = "data" /\ s[1].id < next
        /\ \A k \in O : k <= s[1].id => \E j \in 1..1 : s[j].id = k
    BY <1>3 DEF Due
  <2>2. \A k \in O : k <= s[1].id => k = s[1].id
    <3> SUFFICES ASSUME NEW k \in O, k <= s[1].id PROVE k = s[1].id
      OBVIOUS
    <3>1. PICK j \in 1..1 : s[j].id = k
      BY <2>1
    <3>2. j = 1
      OBVIOUS
    <3> QED BY <3>1, <3>2
  <2>3. s[1].id \in Nat
    BY <1>2, <1>3
  <2> QED BY <2>1, <2>2, <2>3 DEF Safe
<1>5. ASSUME NEW i \in 1..(n - 1)
      PROVE  /\ Tail(s)[i].kind = "data" /\ Tail(s)[i].id < next
             /\ \A k \in O \ {s[1].id} : k <= Tail(s)[i].id => \E j \in 1..i : Tail(s)[j].id = k
  <2>1. i + 1 \in 1..n /\ Tail(s)[i] = s[i + 1]
    BY <1>1
  <2>2. /\ s[i + 1].kind = "data" /\ s[i + 1].id < next
        /\ \A k \in O : k <= s[i + 1].id => \E j \in 1..(i + 1) : s[j].id = k
    BY <2>1 DEF Due
  <2>3. ASSUME NEW k \in O \ {s[1].id}, k <= Tail(s)[i].id PROVE \E j \in 1..i : Tail(s)[j].id = k
    <3>1. PICK j \in 1..(i + 1) : s[j].id = k
      BY <2>1, <2>2, <2>3
    <3>2. j # 1
      BY <2>3, <3>1
    <3>3. j - 1 \in 1..i /\ j - 1 \in 1..(Len(s) - 1) /\ (j - 1) + 1 = j
      BY <3>2
    <3>4. Tail(s)[j - 1].id = k
      BY <1>1, <3>1, <3>3
    <3> QED BY <3>3, <3>4
  <2> QED BY <2>1, <2>2, <2>3
<1> QED BY <1>4, <1>5 DEF Due

\* A message is sent after all the open ones, which are carried.
LEMMA DueAppend ==
    ASSUME NEW O \in SUBSET Nat, NEW next \in Nat, NEW s \in Seq(Message), Due(O, next, s, Len(s)),
           O \subseteq DataIds(s), NEW m \in Message, m.kind = "data", m.id = next,
           NEW O2, O2 \subseteq O \cup {next}
    PROVE  Due(O2, next + 1, s \o <<m>>, Len(s \o <<m>>))
<1> DEFINE t == s \o <<m>>
           n == Len(s)
<1>1. /\ t \in Seq(Message) /\ Len(t) = n + 1 /\ t[n + 1] = m /\ n \in Nat
      /\ \A i \in 1..n : t[i] = s[i]
  OBVIOUS
<1> HIDE DEF t
<1>2. Due(O, next, t, n)
  BY <1>1, DuePrefix DEF n
<1>3. \A k \in O : \E j \in 1..n : s[j].id = k
  BY DEF DataIds
<1>4. \A k \in O2 : \E j \in 1..(n + 1) : t[j].id = k
  BY <1>1, <1>3
<1>5. ASSUME NEW i \in 1..(n + 1)
      PROVE  /\ t[i].kind = "data" /\ t[i].id < next + 1
             /\ \A k \in O2 : k <= t[i].id => \E j \in 1..i : t[j].id = k
  <2>1. CASE i \in 1..n
    <3>1. /\ t[i].kind = "data" /\ t[i].id < next
          /\ \A k \in O : k <= t[i].id => \E j \in 1..i : t[j].id = k
      BY <1>2, <2>1 DEF Due
    <3>2. t[i].id \in Nat
      BY <1>1, MessageIds
    <3>3. \A k \in O2 : k <= t[i].id => k \in O
      BY <3>1, <3>2
    <3> QED BY <3>1, <3>2, <3>3
  <2>2. CASE i = n + 1
    BY <1>1, <1>4, <2>2
  <2> QED BY <1>1, <2>1, <2>2
<1>6. Due(O2, next + 1, t, n + 1)
  BY <1>5 DEF Due
<1> QED BY <1>1, <1>6 DEF t

\* Messages that acknowledge safely, one after the other.
LEMMA AcksConcat ==
    ASSUME NEW O, NEW next, NEW s \in Seq(Message), Acks(O, next, s, Len(s)),
           NEW t \in Seq(Message), NEW n \in 0..Len(t), Acks(O, next, t, n)
    PROVE  Acks(O, next, s \o t, Len(s) + n)
<1> DEFINE u == s \o t
<1>1. /\ u \in Seq(Message) /\ Len(u) = Len(s) + Len(t) /\ Len(s) \in Nat /\ Len(t) \in Nat
      /\ \A i \in 1..Len(s) : u[i] = s[i]
      /\ \A i \in (Len(s) + 1)..(Len(s) + Len(t)) : u[i] = t[i - Len(s)]
  OBVIOUS
<1> HIDE DEF u
<1>2. ASSUME NEW i \in 1..(Len(s) + n) PROVE u[i].kind = "data" /\ Safe(O, next, u[i].ack_id)
  <2>1. CASE i \in 1..Len(s)
    BY <1>1, <2>1 DEF Acks
  <2>2. CASE i \notin 1..Len(s)
    <3>1. i - Len(s) \in 1..n /\ i \in (Len(s) + 1)..(Len(s) + Len(t))
      BY <1>1, <2>2
    <3> QED BY <1>1, <3>1 DEF Acks
  <2> QED BY <2>1, <2>2
<1> QED BY <1>2 DEF Acks, u

-----------------------------------------------------------------------------
(* Buffers *)

\* A buffer without some messages at its front.
Rest(b, b2) ==
    /\ b2 \in Seq(Message)
    /\ \E n \in Nat : Len(b2) + n = Len(b) /\ \A i \in 1..Len(b2) : b2[i] = b[i + n]

\* PopAcked leaves the rest of the buffer, with every message not acknowledged.
LEMMA PopAckedFacts ==
    ASSUME NEW b \in Seq(Message), NEW a \in Nat
    PROVE  /\ Rest(b, PopAcked(b, a))
           /\ \A k \in Ids(b) : k \in Ids(PopAcked(b, a)) \/ k <= a
<1> DEFINE N == Len(b)
           Fits(n) == /\ \A i \in 1..n : b[i].id <= a
                      /\ n < N => b[n + 1].id > a
           Stops == {n \in 0..N : n < N => b[n + 1].id > a}
<1>1. N \in Nat /\ \A i \in 1..N : b[i].id \in Nat
  BY MessageIds
<1>2. N \in Stops /\ Stops \in SUBSET Nat
  BY <1>1
<1>3. PICK m \in Stops : \A n \in Stops : m <= n
  <2> HIDE DEF Stops
  <2> QED BY <1>2, Least
<1>4. m \in 0..N /\ Fits(m)
  <2>1. m \in 0..N /\ (m < N => b[m + 1].id > a)
    BY <1>3
  <2>2. ASSUME NEW i \in 1..m PROVE b[i].id <= a
    <3>1. i - 1 \in 0..N /\ i - 1 < N /\ (i - 1) + 1 = i /\ i \in 1..N /\ ~(m <= i - 1)
      BY <1>1, <2>1
    <3>2. i - 1 \notin Stops
      BY <1>3, <3>1
    <3>3. ~(b[i].id > a)
      BY <3>1, <3>2
    <3> QED BY <1>1, <3>1, <3>3
  <2> QED BY <2>1, <2>2
<1> DEFINE c == CHOOSE n \in 0..N : Fits(n)
<1>5. c \in 0..N /\ Fits(c)
  <2> HIDE DEF Fits
  <2> QED BY <1>4, Zenon
<1>6. PopAcked(b, a) = SubSeq(b, c + 1, N)
  BY DEF PopAcked
<1>7. \A i \in 1..c : b[i].id <= a
  BY <1>5
<1> HIDE DEF c, Fits, Stops
<1> DEFINE b2 == SubSeq(b, c + 1, N)
<1>8. b2 \in Seq(Message) /\ Len(b2) = N - c /\ \A i \in 1..(N - c) : b2[i] = b[i + c]
  BY <1>1, <1>5, SubSeqProperties
<1> HIDE DEF b2
<1>9. Rest(b, b2)
  <2>1. c \in Nat /\ Len(b2) + c = Len(b) /\ \A i \in 1..Len(b2) : b2[i] = b[i + c]
    BY <1>1, <1>5, <1>8
  <2> QED BY <1>8, <2>1 DEF Rest
<1>10. ASSUME NEW k \in Ids(b) PROVE k \in Ids(b2) \/ k <= a
  <2>1. PICK i \in 1..N : k = b[i].id
    BY DEF Ids
  <2>2. CASE i <= c
    BY <1>5, <1>7, <2>1, <2>2
  <2>3. CASE ~(i <= c)
    <3>1. i - c \in 1..(N - c) /\ (i - c) + c = i
      BY <1>1, <1>5, <2>3
    <3>2. i - c \in DOMAIN b2 /\ b2[i - c].id = k
      BY <1>8, <2>1, <3>1
    <3> QED BY <3>2 DEF Ids
  <2> QED BY <2>2, <2>3
<1> QED BY <1>6, <1>9, <1>10 DEF b2

\* What holds of every message of a buffer holds of the rest.
LEMMA RestFacts ==
    ASSUME NEW b \in Seq(Message), NEW b2, Rest(b, b2)
    PROVE  /\ \A O, next : Acks(O, next, b, Len(b)) => Acks(O, next, b2, Len(b2))
           /\ (\A i \in DOMAIN b : b[i].kind = "data") => \A i \in DOMAIN b2 : b2[i].kind = "data"
<1>1. PICK n \in Nat : Len(b2) + n = Len(b) /\ \A i \in 1..Len(b2) : b2[i] = b[i + n]
  BY DEF Rest
<1>2. Len(b) \in Nat /\ Len(b2) \in Nat /\ DOMAIN b = 1..Len(b) /\ DOMAIN b2 = 1..Len(b2)
  BY DEF Rest
<1>3. \A i \in 1..Len(b2) : i + n \in 1..Len(b) /\ b2[i] = b[i + n]
  BY <1>1, <1>2
<1> QED BY <1>2, <1>3 DEF Acks

\* The ids of the data in a sequence, as it grows and shrinks.
LEMMA DataIdsConcat ==
    ASSUME NEW s \in Seq(Message), NEW t \in Seq(Message)
    PROVE  DataIds(s) \cup DataIds(t) \subseteq DataIds(s \o t)
<1> DEFINE u == s \o t
<1>1. /\ u \in Seq(Message) /\ Len(u) = Len(s) + Len(t) /\ Len(s) \in Nat /\ Len(t) \in Nat
      /\ \A i \in 1..Len(s) : u[i] = s[i]
      /\ \A i \in 1..Len(t) : u[i + Len(s)] = t[i]
      /\ DOMAIN s = 1..Len(s) /\ DOMAIN t = 1..Len(t) /\ DOMAIN u = 1..Len(u)
  OBVIOUS
<1> HIDE DEF u
<1>2. ASSUME NEW k \in DataIds(s) PROVE k \in DataIds(u)
  <2>1. PICK i \in 1..Len(s) : s[i].kind = "data" /\ k = s[i].id
    BY <1>1 DEF DataIds
  <2>2. i \in DOMAIN u /\ u[i] = s[i]
    BY <1>1
  <2> QED BY <2>1, <2>2 DEF DataIds
<1>3. ASSUME NEW k \in DataIds(t) PROVE k \in DataIds(u)
  <2>1. PICK i \in 1..Len(t) : t[i].kind = "data" /\ k = t[i].id
    BY <1>1 DEF DataIds
  <2>2. i + Len(s) \in DOMAIN u /\ u[i + Len(s)] = t[i]
    BY <1>1
  <2> QED BY <2>1, <2>2 DEF DataIds
<1> QED BY <1>2, <1>3 DEF u

\* The data of a sequence is its first message's and the rest's.
LEMMA DataIdsTail ==
    ASSUME NEW s \in Seq(Message), s # <<>>
    PROVE  \A k \in DataIds(s) : k \in DataIds(Tail(s)) \/ (s[1].kind = "data" /\ k = s[1].id)
<1> DEFINE t == Tail(s)
<1>1. /\ t \in Seq(Message) /\ Len(t) = Len(s) - 1 /\ Len(s) \in Nat /\ DOMAIN s = 1..Len(s)
      /\ \A i \in 1..(Len(s) - 1) : t[i] = s[i + 1]
      /\ DOMAIN t = 1..(Len(s) - 1)
  OBVIOUS
<1> HIDE DEF t
<1> SUFFICES ASSUME NEW k \in DataIds(s)
             PROVE  k \in DataIds(t) \/ (s[1].kind = "data" /\ k = s[1].id)
  BY DEF t
<1>2. PICK i \in 1..Len(s) : s[i].kind = "data" /\ k = s[i].id
  BY <1>1 DEF DataIds
<1>3. CASE i # 1
  <2>1. i - 1 \in DOMAIN t /\ t[i - 1] = s[i]
    <3>1. i - 1 \in 1..(Len(s) - 1) /\ (i - 1) + 1 = i
      BY <1>1, <1>3
    <3> QED BY <1>1, <3>1
  <2> QED BY <1>2, <2>1 DEF DataIds
<1> QED BY <1>2, <1>3

\* A buffer of data is sent again whole.
LEMMA DataIdsBuffer ==
    ASSUME NEW b, \A i \in DOMAIN b : b[i].kind = "data"
    PROVE  Ids(b) \subseteq DataIds(b)
BY DEF Ids, DataIds

-----------------------------------------------------------------------------
(* Handling a message *)

\* What Acknowledge makes of the buffer.
LEMMA AcknowledgeFacts ==
    ASSUME NEW c \in ChannelClient, NEW m \in Message
    PROVE  LET d == Acknowledge(c, m) IN
             /\ d = [c EXCEPT !.buffer = d.buffer] /\ d \in ChannelClient
             /\ Rest(c.buffer, d.buffer)
             /\ \A k \in Ids(c.buffer) :
                   k \in Ids(d.buffer) \/ (m.ack_id \in Nat /\ k <= m.ack_id)
<1>1. c.buffer \in Seq(Message) /\ m.ack_id \in Opt(Nat)
  BY DEF ChannelClient, Message
<1>2. CASE m.ack_id = None
  <2>1. Acknowledge(c, m) = c
    BY <1>2 DEF Acknowledge
  <2>2. Rest(c.buffer, c.buffer)
    <3>1. Len(c.buffer) \in Nat
      BY <1>1
    <3>2. Len(c.buffer) + 0 = Len(c.buffer) /\ \A i \in 1..Len(c.buffer) : c.buffer[i] = c.buffer[i + 0]
      BY <3>1
    <3> QED BY <1>1, <3>2 DEF Rest
  <2>3. c = [c EXCEPT !.buffer = c.buffer]
    BY DEF ChannelClient
  <2> QED BY <2>1, <2>2, <2>3
<1>3. CASE m.ack_id # None
  <2> DEFINE b == PopAcked(c.buffer, m.ack_id)
  <2>1. m.ack_id \in Nat
    BY <1>1, <1>3 DEF Opt
  <2>2. Acknowledge(c, m) = [c EXCEPT !.buffer = b]
    BY <1>3 DEF Acknowledge
  <2>3. Rest(c.buffer, b) /\ \A k \in Ids(c.buffer) : k \in Ids(b) \/ k <= m.ack_id
    BY <1>1, <2>1, PopAckedFacts
  <2> HIDE DEF b
  <2>4. b \in Seq(Message)
    BY <2>3 DEF Rest
  <2>5. [c EXCEPT !.buffer = b] \in ChannelClient /\ [c EXCEPT !.buffer = b].buffer = b
    BY <2>4 DEF ChannelClient
  <2> QED BY <2>1, <2>2, <2>3, <2>5
<1> QED BY <1>2, <1>3

\* start_handling_messages: the buffer loses what is acknowledged, data and
\* answers are received, and only a request to flush or a start is answered.
LEMMA HandleFacts ==
    ASSUME NEW c \in ChannelClient, NEW m \in Message
    PROVE  LET h == Handle(c, m) IN
             /\ h.chan \in ChannelClient /\ h.answer \in Seq(Message)
             /\ Rest(c.buffer, h.chan.buffer)
             /\ \A k \in Ids(c.buffer) :
                   k \in Ids(h.chan.buffer) \/ (m.ack_id \in Nat /\ k <= m.ack_id)
             /\ c.next_message_id <= h.chan.next_message_id
             /\ h.chan.taken = c.taken /\ h.chan.pushed = c.pushed
             /\ m.kind # "data" => h.chan.handled = c.handled
             /\ m.kind = "data" => /\ h.chan.handled = Append(c.handled, m.id)
                                   /\ h.chan.max_received = m.id /\ h.answer = <<>>
             /\ m.kind = "ack" => h.answer = <<>>
             /\ m.kind = "started" =>
                   \E a \in Message : a.kind = "ack" /\ a.responding_to = m.id /\ h.answer = <<a>>
             /\ m.kind = "flush" =>
                   /\ h.chan.max_received = c.max_received
                   /\ \E a \in Message : /\ a.kind = "ack" /\ a.responding_to = m.id
                                         /\ a.ack_id = None
                                         /\ h.answer = Append(h.chan.buffer, a)
<1> DEFINE d == Acknowledge(c, m)
           b == d.buffer
           a == AckOf(d, m)
           h == Handle(c, m)
<1>1. /\ d = [c EXCEPT !.buffer = b] /\ d \in ChannelClient
      /\ Rest(c.buffer, b)
      /\ \A k \in Ids(c.buffer) : k \in Ids(b) \/ (m.ack_id \in Nat /\ k <= m.ack_id)
  BY AcknowledgeFacts
<1>2. m.id \in Nat /\ m.kind \in {"data", "flush", "started", "ack"} /\ b \in Seq(Message)
  BY <1>1 DEF Message, Rest
<1>3. h = IF m.kind = "flush"
          THEN [chan |-> [d EXCEPT !.next_message_id = @ + 1], answer |-> Append(b, a)]
          ELSE IF m.kind = "started"
          THEN [chan |-> [d EXCEPT !.next_message_id = @ + 1], answer |-> <<a>>]
          ELSE IF m.kind = "data"
          THEN [chan |-> [[d EXCEPT !.max_received = m.id] EXCEPT !.handled = Append(@, m.id)],
                answer |-> <<>>]
          ELSE [chan |-> [d EXCEPT !.max_received = m.id], answer |-> <<>>]
  BY DEF Handle
<1>4. a = [kind |-> "ack", id |-> d.next_message_id, ack_id |-> None, responding_to |-> m.id]
  BY DEF AckOf
<1> HIDE DEF d, h, a
<1>5. /\ d.next_message_id = c.next_message_id /\ d.max_received = c.max_received
      /\ d.taken = c.taken /\ d.pushed = c.pushed /\ d.handled = c.handled
      /\ d.next_message_id \in Nat /\ d.handled \in Seq(Nat)
  BY <1>1 DEF ChannelClient
<1>6. /\ a \in Message /\ a.kind = "ack" /\ a.responding_to = m.id /\ a.ack_id = None
  BY <1>2, <1>4, <1>5 DEF Message, Opt
<1> HIDE DEF b
<1>7. CASE m.kind = "flush"
  <2> DEFINE n == d.next_message_id + 1
             e == [d EXCEPT !.next_message_id = n]
  <2>1. n \in Nat /\ h.chan = e /\ h.answer = Append(b, a)
    BY <1>3, <1>5, <1>7
  <2>2. h.answer \in Seq(Message)
    BY <1>2, <1>6, <2>1
  <2> HIDE DEF n
  <2>3. /\ e \in ChannelClient /\ e.buffer = b /\ e.next_message_id = n
        /\ e.max_received = d.max_received /\ e.taken = d.taken /\ e.pushed = d.pushed
        /\ e.handled = d.handled
    BY <1>1, <2>1 DEF ChannelClient, b
  <2> HIDE DEF e
  <2>4. c.next_message_id <= n
    BY <1>5 DEF n
  <2> QED BY <1>1, <1>5, <1>6, <1>7, <2>1, <2>2, <2>3, <2>4 DEF h
<1>8. CASE m.kind = "started"
  <2> DEFINE n == d.next_message_id + 1
             e == [d EXCEPT !.next_message_id = n]
  <2>1. n \in Nat /\ h.chan = e /\ h.answer = <<a>>
    BY <1>3, <1>5, <1>8
  <2>2. h.answer \in Seq(Message)
    BY <1>6, <2>1
  <2> HIDE DEF n
  <2>3. /\ e \in ChannelClient /\ e.buffer = b /\ e.next_message_id = n
        /\ e.taken = d.taken /\ e.pushed = d.pushed /\ e.handled = d.handled
    BY <1>1, <2>1 DEF ChannelClient, b
  <2> HIDE DEF e
  <2>4. c.next_message_id <= n
    BY <1>5 DEF n
  <2> QED BY <1>1, <1>5, <1>6, <1>8, <2>1, <2>2, <2>3, <2>4 DEF h
<1>9. CASE m.kind = "data"
  <2> DEFINE w == Append(d.handled, m.id)
             r == [d EXCEPT !.max_received = m.id]
             e == [r EXCEPT !.handled = w]
  <2>1. w \in Seq(Nat) /\ r.handled = d.handled
    BY <1>1, <1>2, <1>5 DEF ChannelClient
  <2>2. h.chan = e /\ h.answer = <<>> /\ h.answer \in Seq(Message)
    BY <1>3, <1>9, <2>1
  <2> HIDE DEF w
  <2>3. /\ e \in ChannelClient /\ e.buffer = b /\ e.next_message_id = d.next_message_id
        /\ e.max_received = m.id /\ e.taken = d.taken /\ e.pushed = d.pushed /\ e.handled = w
    BY <1>1, <1>2, <2>1 DEF ChannelClient, b
  <2> HIDE DEF e
  <2> QED BY <1>1, <1>5, <1>9, <2>2, <2>3 DEF h, w
<1>10. CASE m.kind = "ack"
  <2> DEFINE e == [d EXCEPT !.max_received = m.id]
  <2>1. h.chan = e /\ h.answer = <<>> /\ h.answer \in Seq(Message)
    BY <1>3, <1>10
  <2>2. /\ e \in ChannelClient /\ e.buffer = b /\ e.next_message_id = d.next_message_id
        /\ e.taken = d.taken /\ e.pushed = d.pushed /\ e.handled = d.handled
    BY <1>1, <1>2 DEF ChannelClient, b
  <2> HIDE DEF e
  <2> QED BY <1>1, <1>5, <1>10, <2>1, <2>2 DEF h
<1> QED BY <1>2, <1>7, <1>8, <1>9, <1>10

-----------------------------------------------------------------------------
(* Sending *)

\* Of the two ends, one is the other's peer.
LEMMA TwoEnds ==
    \A end \in Ends : /\ Peer(end) \in Ends /\ Peer(end) # end /\ Peer(Peer(end)) = end
                      /\ \A e \in Ends : e = end \/ e = Peer(end)
BY DEF Ends, Peer

\* What is on its way is a sequence of messages, and the open messages have ids
\* of their sender.
LEMMA Views ==
    ASSUME TypeOK, NEW end \in Ends
    PROVE  /\ Path(end) \in Seq(Message) /\ chan[end] \in ChannelClient
           /\ chan[end].buffer \in Seq(Message) /\ Open(end) \subseteq Nat
           /\ NextId(end) \in Nat /\ Received(end) \in Nat
<1>1. chan[end] \in ChannelClient /\ chan[Peer(end)] \in ChannelClient /\ sent[end] \subseteq Nat
  BY TwoEnds DEF TypeOK
<1>2. chan[end].buffer \in Seq(Message) /\ NextId(end) \in Nat /\ Received(end) \in Nat
  BY <1>1 DEF ChannelClient, NextId, Received
<1>3. inbox \o up \in Seq(Message) /\ down \o out \in Seq(Message)
  BY DEF TypeOK
<1> QED BY <1>1, <1>2, <1>3 DEF Path, Open

\* What this end sends now is on its way: not from the client, without a
\* connection.
Reaches(end) == link = "up" \/ end = "server"

\* Concatenation is associative.
LEMMA Regroup ==
    ASSUME NEW s \in Seq(Message), NEW t \in Seq(Message), NEW u \in Seq(Message)
    PROVE  (s \o t) \o u = s \o (t \o u)
BY ConcatAssociative

\* Outgoing adds to what is on its way from this end.
LEMMA OutgoingPath ==
    ASSUME TypeOK, NEW end \in Ends, NEW extra \in Seq(Message), Outgoing(end, extra),
           UNCHANGED <<inbox, down>>
    PROVE  /\ Path(end)' = Path(end) \o (IF Reaches(end) THEN extra ELSE <<>>)
           /\ Path(Peer(end))' = Path(Peer(end))
<1>1. up \in Seq(Message) /\ inbox \in Seq(Message) /\ out \in Seq(Message) /\ down \in Seq(Message)
  BY DEF TypeOK
<1>2. inbox \o (up \o extra) = (inbox \o up) \o extra /\ down \o (out \o extra) = (down \o out) \o extra
  <2>1. (inbox \o up) \o extra = inbox \o (up \o extra)
    BY <1>1, Regroup
  <2>2. (down \o out) \o extra = down \o (out \o extra)
    BY <1>1, Regroup
  <2> QED BY <2>1, <2>2
<1>3. (inbox \o up) \o <<>> = inbox \o up
  BY <1>1
<1>4. CASE end = "client"
  <2>1. up' = (IF link = "up" THEN up \o extra ELSE up) /\ out' = out
    BY <1>4 DEF Outgoing
  <2>2. Path(end)' = inbox' \o up' /\ Path(end) = inbox \o up
    BY <1>4 DEF Path
  <2>3. Path(Peer(end))' = down' \o out' /\ Path(Peer(end)) = down \o out
    BY <1>4 DEF Path, Peer
  <2> QED BY <1>2, <1>3, <1>4, <2>1, <2>2, <2>3 DEF Reaches
<1>5. CASE end = "server"
  <2>1. out' = out \o extra /\ up' = up
    BY <1>5 DEF Outgoing
  <2>2. Path(end)' = down' \o out' /\ Path(end) = down \o out
    BY <1>5 DEF Path
  <2>3. Path(Peer(end))' = inbox' \o up' /\ Path(Peer(end)) = inbox \o up
    BY <1>5 DEF Path, Peer
  <2> QED BY <1>2, <1>5, <2>1, <2>2, <2>3 DEF Reaches
<1> QED BY <1>4, <1>5 DEF Ends

\* What an end sends next.
Sent(end) == Data(chan[end], NextId(end))

\* send_buffered: the message is the last of the buffer and of what is on its
\* way; it acknowledges what was received last.
LEMMA SendView ==
    ASSUME TypeOK, NEW end \in Ends, Send(end)
    PROVE  /\ Sent(end) \in Message /\ Sent(end).kind = "data" /\ Sent(end).id = NextId(end)
           /\ Sent(end).ack_id = Received(Peer(end))
           /\ chan' \in [Ends -> ChannelClient]
           /\ chan'[end].next_message_id = NextId(end) + 1
           /\ chan'[end].buffer = Append(chan[end].buffer, Sent(end))
           /\ chan'[end].max_received = chan[end].max_received
           /\ chan'[end].handled = chan[end].handled
           /\ chan'[end].taken = chan[end].taken /\ chan'[end].pushed = chan[end].pushed
           /\ chan'[Peer(end)] = chan[Peer(end)]
           /\ sent' \in [Ends -> SUBSET Nat]
           /\ sent'[end] = sent[end] \cup {NextId(end)} /\ sent'[Peer(end)] = sent[Peer(end)]
           /\ Path(end)' = Path(end) \o (IF Reaches(end) THEN <<Sent(end)>> ELSE <<>>)
           /\ Path(Peer(end))' = Path(Peer(end))
           /\ up' \in Seq(Message) /\ out' \in Seq(Message)
<1> DEFINE c == chan[end]
           n == c.next_message_id
           d == Sent(end)
           c1 == [c EXCEPT !.next_message_id = n + 1]
           b == Append(c.buffer, d)
           c2 == [c1 EXCEPT !.buffer = b]
<1>1. c \in ChannelClient /\ n \in Nat /\ c.max_received \in Nat /\ c.buffer \in Seq(Message)
  BY DEF TypeOK, ChannelClient
<1>2. d = [kind |-> "data", id |-> n, ack_id |-> c.max_received, responding_to |-> None]
  BY DEF Sent, Data, NextId
<1>3. d \in Message /\ d.kind = "data" /\ d.id = n /\ d.ack_id = c.max_received
  BY <1>1, <1>2 DEF Message, Opt
<1>4. Data(c1, n) = d
  <2>1. c1.max_received = c.max_received
    BY <1>1 DEF ChannelClient
  <2> QED BY <1>2, <2>1 DEF Data
<1>5. /\ chan' = [chan EXCEPT ![end] = c2]
      /\ Outgoing(end, <<d>>)
      /\ sent' = [sent EXCEPT ![end] = @ \cup {n}] /\ UNCHANGED <<link, inbox, down>>
  <2>1. SendBuffered(end, c1, n)
    BY DEF Send
  <2>2. c1.buffer = c.buffer
    BY <1>1 DEF ChannelClient
  <2> HIDE DEF c1, d
  <2> QED BY <1>4, <2>1, <2>2 DEF Send, SendBuffered
<1>6. b \in Seq(Message) /\ n + 1 \in Nat /\ <<d>> \in Seq(Message)
  BY <1>1, <1>3
<1> HIDE DEF b, d
<1>7. /\ c2 \in ChannelClient /\ c2.next_message_id = n + 1 /\ c2.buffer = b
      /\ c2.max_received = c.max_received /\ c2.handled = c.handled
      /\ c2.taken = c.taken /\ c2.pushed = c.pushed
  BY <1>1, <1>6 DEF ChannelClient
<1> HIDE DEF c2
<1>8. /\ chan' \in [Ends -> ChannelClient] /\ chan'[end] = c2 /\ chan'[Peer(end)] = chan[Peer(end)]
  BY <1>5, <1>7, TwoEnds DEF TypeOK
<1>9. /\ sent' \in [Ends -> SUBSET Nat] /\ sent'[end] = sent[end] \cup {n}
      /\ sent'[Peer(end)] = sent[Peer(end)]
  BY <1>1, <1>5, TwoEnds DEF TypeOK
<1>10. /\ Path(end)' = Path(end) \o (IF Reaches(end) THEN <<d>> ELSE <<>>)
       /\ Path(Peer(end))' = Path(Peer(end))
  BY <1>5, <1>6, OutgoingPath
<1>11. up' \in Seq(Message) /\ out' \in Seq(Message)
  BY <1>5, <1>6 DEF Outgoing, TypeOK
<1>12. NextId(end) = n /\ Received(Peer(end)) = c.max_received
  BY TwoEnds DEF NextId, Received
<1> QED BY <1>3, <1>7, <1>8, <1>9, <1>10, <1>11, <1>12 DEF d, b

-----------------------------------------------------------------------------
(* Receiving *)

Handles(end) == IF end = "client" THEN ClientHandles ELSE ServerHandles

\* The message this end handles next, what it makes of it, and what it sends:
\* the end of a resync sends the client's buffer again.
Arrives(end) == Path(Peer(end))[1]
Handling(end) == Handle(chan[end], Arrives(end))
EndsResync(end) ==
    end = "client" /\ Arrives(end).kind = "ack" /\ Arrives(end).responding_to = resync
Answer(end) == IF EndsResync(end) THEN Handling(end).answer \o Handling(end).chan.buffer
               ELSE Handling(end).answer

\* The first of two queues, one after the other.
LEMMA TailConcat ==
    ASSUME NEW s \in Seq(Message), NEW t \in Seq(Message), s # <<>>
    PROVE  /\ s \o t # <<>> /\ (s \o t)[1] = Head(s) /\ Head(s) \in Message
           /\ Tail(s \o t) = Tail(s) \o t /\ Tail(s) \in Seq(Message)
<1>1. Len(s) \in Nat /\ Len(s) > 0 /\ Len(t) \in Nat /\ Len(s \o t) = Len(s) + Len(t)
  OBVIOUS
<1>2. s \o t # <<>> /\ (s \o t)[1] = s[1] /\ Head(s) = s[1] /\ s[1] \in Message
  BY <1>1
<1>3. Tail(s) \in Seq(Message) /\ Len(Tail(s)) = Len(s) - 1
  BY <1>1
<1>4. Tail(s \o t) = Tail(s) \o t
  <2> DEFINE a == Tail(s \o t)
             b == Tail(s) \o t
  <2>1. a \in Seq(Message) /\ Len(a) = Len(s) + Len(t) - 1
    BY <1>1, <1>2
  <2>2. b \in Seq(Message) /\ Len(b) = Len(s) + Len(t) - 1
    BY <1>1, <1>3
  <2>3. \A i \in 1..(Len(s) + Len(t) - 1) : a[i] = b[i]
    <3> TAKE i \in 1..(Len(s) + Len(t) - 1)
    <3>1. a[i] = (s \o t)[i + 1]
      BY <1>1, <1>2
    <3>2. CASE i <= Len(s) - 1
      <4>1. (s \o t)[i + 1] = s[i + 1] /\ b[i] = Tail(s)[i] /\ Tail(s)[i] = s[i + 1]
        BY <1>1, <1>3, <3>2
      <4> QED BY <3>1, <4>1
    <3>3. CASE i > Len(s) - 1
      <4>1. (s \o t)[i + 1] = t[i + 1 - Len(s)] /\ b[i] = t[i - (Len(s) - 1)]
        BY <1>1, <1>3, <3>3
      <4>2. i + 1 - Len(s) = i - (Len(s) - 1)
        BY <1>1
      <4> QED BY <3>1, <4>1, <4>2
    <3> QED BY <1>1, <3>2, <3>3
  <2> HIDE DEF a, b
  <2>4. a = b
    BY <2>1, <2>2, <2>3
  <2> QED BY <2>4 DEF a, b
<1> QED BY <1>2, <1>3, <1>4

\* An end handles the first message on its way to it, and adds its answer to
\* what is on its way from it.
LEMMA HandlesView ==
    ASSUME TypeOK, NEW h \in Ends, Handles(h)
    PROVE  /\ Path(Peer(h)) # <<>> /\ Arrives(h) \in Message /\ Answer(h) \in Seq(Message)
           /\ Path(Peer(h))' = Tail(Path(Peer(h)))
           /\ Path(h)' = Path(h) \o Answer(h)
           /\ chan' \in [Ends -> ChannelClient] /\ chan'[h] = Handling(h).chan
           /\ chan'[Peer(h)] = chan[Peer(h)]
           /\ sent' = sent /\ link' = link /\ setting' = setting /\ drops' = drops
           /\ resync' = IF EndsResync(h) THEN None ELSE resync
           /\ h = "client" => link = "up"
           /\ up' \in Seq(Message) /\ inbox' \in Seq(Message)
           /\ out' \in Seq(Message) /\ down' \in Seq(Message)
           /\ link # "up" => up' = up /\ down' = down
<1>1. up \in Seq(Message) /\ inbox \in Seq(Message) /\ out \in Seq(Message) /\ down \in Seq(Message)
  BY DEF TypeOK
<1>2. chan[h] \in ChannelClient
  BY DEF TypeOK
<1>3. ASSUME Arrives(h) \in Message
      PROVE  /\ Answer(h) \in Seq(Message) /\ Handling(h).chan \in ChannelClient
             /\ Handling(h).answer \in Seq(Message)
  <2>1. /\ Handling(h).chan \in ChannelClient /\ Handling(h).answer \in Seq(Message)
    BY <1>2, <1>3, HandleFacts DEF Handling
  <2>2. Handling(h).chan.buffer \in Seq(Message)
    BY <2>1 DEF ChannelClient
  <2> HIDE DEF Handling
  <2> QED BY <2>1, <2>2 DEF Answer
<1>4. ASSUME chan' = [chan EXCEPT ![h] = Handling(h).chan], Handling(h).chan \in ChannelClient
      PROVE  /\ chan' \in [Ends -> ChannelClient] /\ chan'[h] = Handling(h).chan
             /\ chan'[Peer(h)] = chan[Peer(h)]
  BY <1>4, TwoEnds DEF TypeOK
<1>5. CASE h = "client"
  <2>1. ClientHandles
    BY <1>5 DEF Handles
  <2>2. down # <<>> /\ link = "up"
    BY <2>1 DEF ClientHandles
  <2>3. Path(Peer(h)) = down \o out /\ Path(h) = inbox \o up
    BY <1>5 DEF Path, Peer
  <2>4. Path(Peer(h))' = down' \o out' /\ Path(h)' = inbox' \o up'
    BY <1>5 DEF Path, Peer
  <2>5. /\ Path(Peer(h)) # <<>> /\ Arrives(h) = Head(down) /\ Arrives(h) \in Message
        /\ Tail(Path(Peer(h))) = Tail(down) \o out /\ Tail(down) \in Seq(Message)
    BY <1>1, <2>2, <2>3, TailConcat DEF Arrives
  <2>6. /\ chan' = [chan EXCEPT !["client"] = Handle(chan["client"], Head(down)).chan]
        /\ resync' = IF Head(down).kind = "ack" /\ Head(down).responding_to = resync
                     THEN None ELSE resync
        /\ Outgoing("client", IF Head(down).kind = "ack" /\ Head(down).responding_to = resync
                              THEN Handle(chan["client"], Head(down)).answer
                                     \o Handle(chan["client"], Head(down)).chan.buffer
                              ELSE Handle(chan["client"], Head(down)).answer)
        /\ down' = Tail(down) /\ UNCHANGED <<link, inbox, sent, setting, drops>>
    BY <2>1 DEF ClientHandles
  <2>7. Handling(h) = Handle(chan["client"], Head(down))
    BY <1>5, <2>5 DEF Handling
  <2>8. EndsResync(h) <=> Head(down).kind = "ack" /\ Head(down).responding_to = resync
    BY <1>5, <2>5 DEF EndsResync
  <2>9. chan' = [chan EXCEPT ![h] = Handling(h).chan] /\ Outgoing("client", Answer(h))
    BY <1>5, <2>6, <2>7, <2>8 DEF Answer
  <2>10. /\ Answer(h) \in Seq(Message) /\ Handling(h).chan \in ChannelClient
    BY <1>3, <2>5
  <2>11. up' = up \o Answer(h) /\ out' = out
    BY <2>2, <2>9 DEF Outgoing
  <2>12. inbox \o (up \o Answer(h)) = (inbox \o up) \o Answer(h) /\ up \o Answer(h) \in Seq(Message)
    <3>1. (inbox \o up) \o Answer(h) = inbox \o (up \o Answer(h))
      BY <1>1, <2>10, Regroup
    <3> QED BY <1>1, <2>10, <3>1
  <2>13. Path(Peer(h))' = Tail(Path(Peer(h))) /\ Path(h)' = Path(h) \o Answer(h)
    BY <2>3, <2>4, <2>5, <2>6, <2>11, <2>12
  <2>14. resync' = IF EndsResync(h) THEN None ELSE resync
    BY <2>6, <2>8
  <2>15. /\ chan' \in [Ends -> ChannelClient] /\ chan'[h] = Handling(h).chan
         /\ chan'[Peer(h)] = chan[Peer(h)]
    BY <1>4, <2>9, <2>10
  <2> HIDE DEF Handling, Answer, Arrives, EndsResync, Handle
  <2> QED BY <1>1, <2>2, <2>5, <2>6, <2>10, <2>11, <2>12, <2>13, <2>14, <2>15
<1>6. CASE h = "server"
  <2>1. ServerHandles
    BY <1>6 DEF Handles
  <2>2. inbox # <<>>
    BY <2>1 DEF ServerHandles
  <2>3. Path(Peer(h)) = inbox \o up /\ Path(h) = down \o out
    BY <1>6 DEF Path, Peer
  <2>4. Path(Peer(h))' = inbox' \o up' /\ Path(h)' = down' \o out'
    BY <1>6 DEF Path, Peer
  <2>5. /\ Path(Peer(h)) # <<>> /\ Arrives(h) = Head(inbox) /\ Arrives(h) \in Message
        /\ Tail(Path(Peer(h))) = Tail(inbox) \o up /\ Tail(inbox) \in Seq(Message)
    BY <1>1, <2>2, <2>3, TailConcat DEF Arrives
  <2>6. /\ chan' = [chan EXCEPT !["server"] = Handle(chan["server"], Head(inbox)).chan]
        /\ Outgoing("server", Handle(chan["server"], Head(inbox)).answer)
        /\ inbox' = Tail(inbox) /\ UNCHANGED <<resync, link, down, sent, setting, drops>>
    BY <2>1 DEF ServerHandles
  <2>7. Handling(h) = Handle(chan["server"], Head(inbox))
    BY <1>6, <2>5 DEF Handling
  <2>8. ~EndsResync(h)
    BY <1>6 DEF EndsResync
  <2>9. chan' = [chan EXCEPT ![h] = Handling(h).chan] /\ Outgoing("server", Answer(h))
    BY <1>6, <2>6, <2>7, <2>8 DEF Answer
  <2>10. /\ Answer(h) \in Seq(Message) /\ Handling(h).chan \in ChannelClient
    BY <1>3, <2>5
  <2>11. out' = out \o Answer(h) /\ up' = up
    BY <2>9 DEF Outgoing
  <2>12. down \o (out \o Answer(h)) = (down \o out) \o Answer(h) /\ out \o Answer(h) \in Seq(Message)
    <3>1. (down \o out) \o Answer(h) = down \o (out \o Answer(h))
      BY <1>1, <2>10, Regroup
    <3> QED BY <1>1, <2>10, <3>1
  <2>13. Path(Peer(h))' = Tail(Path(Peer(h))) /\ Path(h)' = Path(h) \o Answer(h)
    BY <2>3, <2>4, <2>5, <2>6, <2>11, <2>12
  <2>14. resync' = IF EndsResync(h) THEN None ELSE resync
    BY <2>6, <2>8
  <2>15. /\ chan' \in [Ends -> ChannelClient] /\ chan'[h] = Handling(h).chan
         /\ chan'[Peer(h)] = chan[Peer(h)]
    BY <1>4, <2>9, <2>10
  <2> HIDE DEF Handling, Answer, Arrives, EndsResync, Handle
  <2> QED BY <1>1, <1>6, <2>5, <2>6, <2>10, <2>11, <2>12, <2>13, <2>14, <2>15
<1> QED BY <1>5, <1>6 DEF Ends

-----------------------------------------------------------------------------
(* Threads, the server's loop *)

\* A thread takes the id of the message it sends.
LEMMA TakeIdView ==
    ASSUME TypeOK, NEW end \in Ends, TakeId(end)
    PROVE  /\ chan' \in [Ends -> ChannelClient] /\ chan'[Peer(end)] = chan[Peer(end)]
           /\ chan'[end].next_message_id = NextId(end) + 1
           /\ chan'[end].taken = chan[end].taken \cup {NextId(end)}
           /\ chan'[end].pushed = chan[end].pushed /\ chan'[end].buffer = chan[end].buffer
           /\ chan'[end].handled = chan[end].handled
           /\ sent' \in [Ends -> SUBSET Nat]
           /\ sent'[end] = sent[end] \cup {NextId(end)} /\ sent'[Peer(end)] = sent[Peer(end)]
<1> DEFINE c == chan[end]
           n == c.next_message_id
           n2 == n + 1
           k == c.taken \cup {n}
           c2 == [c EXCEPT !.next_message_id = n2, !.taken = k]
<1>1. c \in ChannelClient /\ n \in Nat /\ n2 \in Nat /\ k \in SUBSET Nat
  BY DEF TypeOK, ChannelClient
<1>2. chan' = [chan EXCEPT ![end] = c2]
  BY DEF TakeId, TypeOK
<1>3. sent' = [sent EXCEPT ![end] = @ \cup {n}]
  BY DEF TakeId
<1> HIDE DEF k, n2
<1>4. /\ c2 \in ChannelClient /\ c2.taken = k /\ c2.pushed = c.pushed /\ c2.buffer = c.buffer
      /\ c2.handled = c.handled /\ c2.next_message_id = n2
  BY <1>1 DEF ChannelClient
<1> HIDE DEF c2
<1>5. /\ chan' \in [Ends -> ChannelClient] /\ chan'[end] = c2 /\ chan'[Peer(end)] = chan[Peer(end)]
  BY <1>2, <1>4, TwoEnds DEF TypeOK
<1>6. /\ sent' \in [Ends -> SUBSET Nat] /\ sent'[end] = sent[end] \cup {n}
      /\ sent'[Peer(end)] = sent[Peer(end)]
  BY <1>1, <1>3, TwoEnds DEF TypeOK
<1> QED BY <1>4, <1>5, <1>6 DEF k, n2, NextId

\* A thread buffers the message whose id it took.
LEMMA BufferTakenView ==
    ASSUME TypeOK, NEW end \in Ends, BufferTaken(end)
    PROVE  \E id \in chan[end].taken : \E d \in Message :
              /\ d.kind = "data" /\ d.id = id
              /\ chan' \in [Ends -> ChannelClient] /\ chan'[Peer(end)] = chan[Peer(end)]
              /\ chan'[end].next_message_id = chan[end].next_message_id
              /\ chan'[end].taken = chan[end].taken \ {id}
              /\ chan'[end].pushed = chan[end].pushed \cup {d}
              /\ chan'[end].buffer = Append(chan[end].buffer, d)
              /\ chan'[end].handled = chan[end].handled
<1> DEFINE c == chan[end]
<1>1. PICK id \in c.taken :
        chan' = [chan EXCEPT ![end].taken = @ \ {id}, ![end].buffer = Append(@, Data(c, id)),
                             ![end].pushed = @ \cup {Data(c, id)}]
  BY DEF BufferTaken
<1> DEFINE d == Data(c, id)
           k == c.taken \ {id}
           b == Append(c.buffer, d)
           p == c.pushed \cup {d}
           c2 == [c EXCEPT !.taken = k, !.buffer = b, !.pushed = p]
<1>2. c \in ChannelClient /\ id \in Nat /\ c.max_received \in Nat
  BY DEF TypeOK, ChannelClient
<1>3. d \in Message /\ d.kind = "data" /\ d.id = id
  BY <1>2 DEF Data, Message, Opt
<1>4. k \in SUBSET Nat /\ b \in Seq(Message) /\ p \in SUBSET Message
  <2> HIDE DEF d
  <2> QED BY <1>2, <1>3 DEF ChannelClient
<1>5. chan' = [chan EXCEPT ![end] = c2]
  <2> HIDE DEF d
  <2>1. chan' = [chan EXCEPT ![end].taken = @ \ {id}, ![end].buffer = Append(@, d),
                             ![end].pushed = @ \cup {d}]
    BY <1>1 DEF d
  <2> QED BY <1>2, <2>1 DEF TypeOK, ChannelClient
<1> HIDE DEF k, b, p, d
<1>6. /\ c2 \in ChannelClient /\ c2.taken = k /\ c2.pushed = p /\ c2.buffer = b
      /\ c2.handled = c.handled /\ c2.next_message_id = c.next_message_id
  BY <1>2, <1>4 DEF ChannelClient
<1> HIDE DEF c2
<1>7. /\ chan' \in [Ends -> ChannelClient] /\ chan'[end] = c2 /\ chan'[Peer(end)] = chan[Peer(end)]
  BY <1>5, <1>6, TwoEnds DEF TypeOK
<1> QED BY <1>3, <1>6, <1>7 DEF k, b, p

\* A thread sends the message it buffered.
LEMMA SendPushedView ==
    ASSUME TypeOK, NEW end \in Ends, SendPushed(end)
    PROVE  \E m \in chan[end].pushed :
              /\ m \in Message
              /\ chan' \in [Ends -> ChannelClient] /\ chan'[Peer(end)] = chan[Peer(end)]
              /\ chan'[end].next_message_id = chan[end].next_message_id
              /\ chan'[end].taken = chan[end].taken
              /\ chan'[end].pushed = chan[end].pushed \ {m}
              /\ chan'[end].buffer = chan[end].buffer
              /\ chan'[end].handled = chan[end].handled
              /\ Path(end)' = Path(end) \o (IF Reaches(end) THEN <<m>> ELSE <<>>)
              /\ Path(Peer(end))' = Path(Peer(end))
              /\ up' \in Seq(Message) /\ out' \in Seq(Message)
<1> DEFINE c == chan[end]
<1>1. PICK m \in c.pushed : chan' = [chan EXCEPT ![end].pushed = @ \ {m}] /\ Outgoing(end, <<m>>)
  BY DEF SendPushed
<1> DEFINE p == c.pushed \ {m}
           c2 == [c EXCEPT !.pushed = p]
<1>2. c \in ChannelClient /\ m \in Message /\ p \in SUBSET Message /\ <<m>> \in Seq(Message)
  BY DEF TypeOK, ChannelClient
<1>3. chan' = [chan EXCEPT ![end] = c2]
  BY <1>1
<1> HIDE DEF p
<1>4. /\ c2 \in ChannelClient /\ c2.taken = c.taken /\ c2.pushed = p /\ c2.buffer = c.buffer
      /\ c2.handled = c.handled /\ c2.next_message_id = c.next_message_id
  BY <1>2 DEF ChannelClient
<1> HIDE DEF c2
<1>5. /\ chan' \in [Ends -> ChannelClient] /\ chan'[end] = c2 /\ chan'[Peer(end)] = chan[Peer(end)]
  BY <1>3, <1>4, TwoEnds DEF TypeOK
<1>6. UNCHANGED <<inbox, down>>
  BY DEF SendPushed
<1>7. /\ Path(end)' = Path(end) \o (IF Reaches(end) THEN <<m>> ELSE <<>>)
      /\ Path(Peer(end))' = Path(Peer(end))
  BY <1>1, <1>2, <1>6, OutgoingPath
<1>8. up' \in Seq(Message) /\ out' \in Seq(Message)
  BY <1>1, <1>2 DEF Outgoing, TypeOK
<1> QED BY <1>2, <1>4, <1>5, <1>7, <1>8 DEF p

\* A message that the server's loop moves keeps its place.
LEMMA LoopView ==
    ASSUME TypeOK, link = "up", ServerReads \/ ServerWrites
    PROVE  /\ Path("client")' = Path("client") /\ Path("server")' = Path("server")
           /\ UNCHANGED <<chan, resync, link, sent, setting, drops>>
<1>1. up \in Seq(Message) /\ inbox \in Seq(Message) /\ out \in Seq(Message) /\ down \in Seq(Message)
  BY DEF TypeOK
<1>2. ASSUME NEW s \in Seq(Message), NEW t \in Seq(Message), t # <<>>
      PROVE  Append(s, Head(t)) \o Tail(t) = s \o t
  <2>1. Len(t) \in Nat /\ Len(t) > 0 /\ Len(s) \in Nat /\ Head(t) = t[1] /\ Head(t) \in Message
    BY <1>2
  <2>2. Tail(t) \in Seq(Message) /\ Len(Tail(t)) = Len(t) - 1
    BY <1>2, <2>1
  <2> DEFINE a == Append(s, Head(t))
             l == a \o Tail(t)
             r == s \o t
  <2>3. a \in Seq(Message) /\ Len(a) = Len(s) + 1
    BY <2>1
  <2>4. l \in Seq(Message) /\ Len(l) = Len(s) + Len(t) /\ r \in Seq(Message) /\ Len(r) = Len(s) + Len(t)
    BY <2>1, <2>2, <2>3
  <2>5. \A i \in 1..(Len(s) + Len(t)) : l[i] = r[i]
    <3> TAKE i \in 1..(Len(s) + Len(t))
    <3>1. CASE i <= Len(s)
      <4>1. r[i] = s[i] /\ a[i] = s[i] /\ l[i] = a[i]
        BY <2>1, <2>2, <2>3, <3>1
      <4> QED BY <4>1
    <3>2. CASE i = Len(s) + 1
      <4>1. r[i] = t[1] /\ a[i] = Head(t) /\ l[i] = a[i]
        BY <2>1, <2>2, <2>3, <3>2
      <4> QED BY <2>1, <4>1
    <3>3. CASE i > Len(s) + 1
      <4>1. r[i] = t[i - Len(s)] /\ l[i] = Tail(t)[i - (Len(s) + 1)]
        BY <2>1, <2>2, <2>3, <3>3
      <4>2. i - (Len(s) + 1) \in 1..(Len(t) - 1) /\ (i - (Len(s) + 1)) + 1 = i - Len(s)
        BY <2>1, <3>3
      <4>3. Tail(t)[i - (Len(s) + 1)] = t[i - Len(s)]
        BY <1>2, <2>1, <4>2
      <4> QED BY <4>1, <4>3
    <3>4. i <= Len(s) \/ i = Len(s) + 1 \/ i > Len(s) + 1
      BY <2>1
    <3> HIDE DEF l, r
    <3> QED BY <3>1, <3>2, <3>3, <3>4
  <2> HIDE DEF l, r
  <2>6. l = r
    BY <2>4, <2>5
  <2> QED BY <2>6 DEF l, r
<1>3. CASE ServerReads
  <2>1. /\ up # <<>> /\ inbox' = Append(inbox, Head(up)) /\ up' = Tail(up)
        /\ UNCHANGED <<chan, resync, link, out, down, sent, setting, drops>>
    BY <1>3 DEF ServerReads
  <2>2. Append(inbox, Head(up)) \o Tail(up) = inbox \o up
    BY <1>1, <1>2, <2>1
  <2> QED BY <2>1, <2>2 DEF Path
<1>4. CASE ServerWrites
  <2>1. /\ out # <<>> /\ down' = Append(down, Head(out)) /\ out' = Tail(out)
        /\ UNCHANGED <<chan, resync, link, up, inbox, sent, setting, drops>>
    BY <1>4 DEF ServerWrites
  <2>2. Append(down, Head(out)) \o Tail(out) = down \o out
    BY <1>1, <1>2, <2>1
  <2> QED BY <2>1, <2>2 DEF Path
<1> QED BY <1>3, <1>4

\* A new connection: the request to flush, which is not buffered, then the start.
LEMMA ReconnectView ==
    ASSUME TypeOK, Reconnect
    PROVE  /\ link = "down" /\ link' = "up" /\ resync' \in Nat /\ resync' = NextId("client")
           /\ up' \in Seq(Message) /\ Len(up') = 2
           /\ up'[1].kind = "flush" /\ up'[1].id = resync' /\ up'[2].kind = "started"
           /\ up'[1].ack_id = Received("server")
           /\ chan' \in [Ends -> ChannelClient]
           /\ chan'["client"].next_message_id = NextId("client") + 1
           /\ chan'["client"].buffer = chan["client"].buffer
           /\ chan'["client"].max_received = chan["client"].max_received
           /\ chan'["client"].handled = chan["client"].handled
           /\ chan'["client"].taken = chan["client"].taken
           /\ chan'["client"].pushed = chan["client"].pushed
           /\ chan'["server"] = chan["server"]
           /\ UNCHANGED <<inbox, out, down, sent, setting, drops>>
<1> DEFINE c == chan["client"]
           n == c.next_message_id
           n2 == n + 1
           c2 == [c EXCEPT !.next_message_id = n2]
           flush == [kind |-> "flush", id |-> n, ack_id |-> c.max_received, responding_to |-> None]
           started == [kind |-> "started", id |-> 0, ack_id |-> None, responding_to |-> None]
<1>1. c \in ChannelClient /\ n \in Nat /\ n2 \in Nat /\ c.max_received \in Nat
  BY DEF TypeOK, ChannelClient, Ends
<1>2. /\ flush \in Message /\ flush.kind = "flush" /\ flush.id = n /\ flush.ack_id = c.max_received
      /\ started \in Message /\ started.kind = "started"
  BY <1>1 DEF Message, Opt
<1>3. /\ link = "down" /\ link' = "up" /\ resync' = n
      /\ chan' = [chan EXCEPT !["client"] = c2] /\ up' = <<flush, started>>
      /\ UNCHANGED <<inbox, out, down, sent, setting, drops>>
  BY DEF Reconnect
<1> HIDE DEF flush, started, n2
<1>4. up' \in Seq(Message) /\ Len(up') = 2 /\ up'[1] = flush /\ up'[2] = started
  BY <1>2, <1>3
<1>5. /\ c2 \in ChannelClient /\ c2.next_message_id = n2 /\ c2.buffer = c.buffer
      /\ c2.max_received = c.max_received /\ c2.handled = c.handled /\ c2.taken = c.taken
      /\ c2.pushed = c.pushed
  BY <1>1 DEF ChannelClient
<1> HIDE DEF c2
<1>6. chan' \in [Ends -> ChannelClient] /\ chan'["client"] = c2 /\ chan'["server"] = chan["server"]
  BY <1>3, <1>5 DEF TypeOK, Ends
<1>7. NextId("client") = n /\ Received("server") = c.max_received
  BY DEF NextId, Received, Peer
<1> QED BY <1>1, <1>2, <1>3, <1>4, <1>5, <1>6, <1>7 DEF n2

-----------------------------------------------------------------------------
(* Types *)

\* A message of data is added to a buffer of data.
LEMMA DataAppended ==
    ASSUME NEW b \in Seq(Message), \A i \in DOMAIN b : b[i].kind = "data",
           NEW d \in Message, d.kind = "data"
    PROVE  \A i \in DOMAIN Append(b, d) : Append(b, d)[i].kind = "data"
<1>1. /\ Len(b) \in Nat /\ DOMAIN b = 1..Len(b) /\ DOMAIN Append(b, d) = 1..(Len(b) + 1)
      /\ Append(b, d)[Len(b) + 1] = d /\ \A i \in 1..Len(b) : Append(b, d)[i] = b[i]
  OBVIOUS
<1> QED BY <1>1

\* The two ends after a step of one of them.
LEMMA OnlyDataStep ==
    ASSUME OnlyData, NEW end \in Ends, chan'[Peer(end)] = chan[Peer(end)],
           \A i \in DOMAIN chan'[end].buffer : chan'[end].buffer[i].kind = "data",
           \A m \in chan'[end].pushed : m.kind = "data"
    PROVE  OnlyData'
<1> SUFFICES ASSUME NEW e \in Ends
             PROVE  /\ \A i \in DOMAIN chan'[e].buffer : chan'[e].buffer[i].kind = "data"
                    /\ \A m \in chan'[e].pushed : m.kind = "data"
  BY DEF OnlyData
<1>1. CASE e = end
  BY <1>1
<1>2. CASE e = Peer(end)
  BY <1>2 DEF OnlyData
<1> QED BY <1>1, <1>2, TwoEnds

\* The types, and what threads and buffers hold, at the start.
LEMMA BaseInit == Init => Base
<1> SUFFICES ASSUME Init PROVE Base
  OBVIOUS
<1> DEFINE c == [next_message_id |-> 1, buffer |-> <<>>, max_received |-> 0,
                 taken |-> {}, pushed |-> {}, handled |-> <<>>]
<1>1. c \in ChannelClient /\ c.buffer = <<>> /\ c.taken = {} /\ c.pushed = {}
  BY DEF ChannelClient
<1> HIDE DEF c
<1>2. chan = [end \in Ends |-> c]
  BY DEF Init, c
<1>3. TypeOK
  <2>1. setting \in Setting
    BY ConstantsAssumption DEF Init
  <2>2. chan \in [Ends -> ChannelClient]
    BY <1>1, <1>2
  <2>3. /\ up \in Seq(Message) /\ inbox \in Seq(Message) /\ out \in Seq(Message)
        /\ down \in Seq(Message)
    BY DEF Init
  <2>4. /\ resync \in Opt(Nat) /\ link = "up" /\ sent \in [Ends -> SUBSET Nat] /\ drops \in Nat
    BY DEF Init, Opt
  <2> QED BY <2>1, <2>2, <2>3, <2>4 DEF TypeOK
<1>4. Quiet
  BY DEF Init, Quiet
<1>5. Threads /\ OnlyData
  BY <1>1, <1>2 DEF Threads, OnlyData
<1> QED BY <1>3, <1>4, <1>5 DEF Base

\* Every step keeps them: one step of the proof per action.
LEMMA BaseNext == Base /\ [Next]_vars => Base'
<1> SUFFICES ASSUME Base, [Next]_vars PROVE Base'
  OBVIOUS
<1> USE DEF Base
<1>1. ASSUME NEW end \in Ends, Send(end) PROVE Base'
  <2>1. /\ chan' \in [Ends -> ChannelClient] /\ sent' \in [Ends -> SUBSET Nat]
        /\ up' \in Seq(Message) /\ out' \in Seq(Message)
        /\ chan'[end].buffer = Append(chan[end].buffer, Sent(end)) /\ Sent(end) \in Message
        /\ Sent(end).kind = "data"
        /\ chan'[end].taken = chan[end].taken /\ chan'[end].pushed = chan[end].pushed
        /\ chan'[Peer(end)] = chan[Peer(end)]
    BY <1>1, SendView
  <2>2. UNCHANGED <<resync, link, inbox, down, setting, drops>> /\ (link # "up" => up' = up)
    BY <1>1 DEF Send, SendBuffered, Outgoing
  <2>3. TypeOK'
    BY <2>1, <2>2 DEF TypeOK
  <2>4. Quiet'
    BY <2>2 DEF Quiet
  <2>5. Threads'
    BY <2>1, <2>2, TwoEnds DEF Threads
  <2>6. OnlyData'
    <3>1. chan[end].buffer \in Seq(Message)
      BY Views
    <3>2. \A i \in DOMAIN chan'[end].buffer : chan'[end].buffer[i].kind = "data"
      BY <2>1, <3>1, DataAppended DEF OnlyData
    <3> QED BY <2>1, <3>2, OnlyDataStep DEF OnlyData
  <2> QED BY <2>3, <2>4, <2>5, <2>6
<1>2. ASSUME NEW end \in Ends, TakeId(end) PROVE Base'
  <2>1. /\ chan' \in [Ends -> ChannelClient] /\ sent' \in [Ends -> SUBSET Nat]
        /\ chan'[end].buffer = chan[end].buffer /\ chan'[end].pushed = chan[end].pushed
        /\ chan'[Peer(end)] = chan[Peer(end)]
    BY <1>2, TakeIdView
  <2>2. UNCHANGED <<resync, wires, setting, drops>> /\ end \in setting.background
    BY <1>2 DEF TakeId
  <2>3. TypeOK'
    BY <2>1, <2>2 DEF TypeOK, wires
  <2>4. Quiet'
    BY <2>2 DEF Quiet, wires
  <2>5. Threads'
    BY <2>1, <2>2, TwoEnds DEF Threads
  <2>6. OnlyData'
    BY <2>1, OnlyDataStep DEF OnlyData
  <2> QED BY <2>3, <2>4, <2>5, <2>6
<1>3. ASSUME NEW end \in Ends, BufferTaken(end) PROVE Base'
  <2>1. PICK id \in chan[end].taken, d \in Message :
           /\ d.kind = "data" /\ d.id = id
           /\ chan' \in [Ends -> ChannelClient] /\ chan'[Peer(end)] = chan[Peer(end)]
           /\ chan'[end].taken = chan[end].taken \ {id}
           /\ chan'[end].pushed = chan[end].pushed \cup {d}
           /\ chan'[end].buffer = Append(chan[end].buffer, d)
    BY <1>3, BufferTakenView
  <2>2. UNCHANGED <<resync, wires, sent, setting, drops>>
    BY <1>3 DEF BufferTaken
  <2>3. TypeOK'
    BY <2>1, <2>2 DEF TypeOK, wires
  <2>4. Quiet'
    BY <2>2 DEF Quiet, wires
  <2>5. Threads'
    <3>1. end \in setting.background
      BY <2>1 DEF Threads
    <3> QED BY <2>1, <2>2, <3>1, TwoEnds DEF Threads
  <2>6. OnlyData'
    <3>1. chan[end].buffer \in Seq(Message)
      BY Views
    <3>2. \A i \in DOMAIN chan'[end].buffer : chan'[end].buffer[i].kind = "data"
      BY <2>1, <3>1, DataAppended DEF OnlyData
    <3>3. \A m \in chan'[end].pushed : m.kind = "data"
      BY <2>1 DEF OnlyData
    <3> QED BY <2>1, <3>2, <3>3, OnlyDataStep
  <2> QED BY <2>3, <2>4, <2>5, <2>6
<1>4. ASSUME NEW end \in Ends, SendPushed(end) PROVE Base'
  <2>1. PICK m \in chan[end].pushed :
           /\ chan' \in [Ends -> ChannelClient] /\ chan'[Peer(end)] = chan[Peer(end)]
           /\ chan'[end].taken = chan[end].taken
           /\ chan'[end].pushed = chan[end].pushed \ {m}
           /\ chan'[end].buffer = chan[end].buffer
           /\ up' \in Seq(Message) /\ out' \in Seq(Message)
    BY <1>4, SendPushedView
  <2>2. UNCHANGED <<resync, link, inbox, down, sent, setting, drops>> /\ (link # "up" => up' = up)
    BY <1>4 DEF SendPushed, Outgoing
  <2>3. TypeOK'
    BY <2>1, <2>2 DEF TypeOK
  <2>4. Quiet'
    BY <2>2 DEF Quiet
  <2>5. Threads'
    BY <2>1, <2>2, TwoEnds DEF Threads
  <2>6. OnlyData'
    BY <2>1, OnlyDataStep DEF OnlyData
  <2> QED BY <2>3, <2>4, <2>5, <2>6
<1>5. ASSUME NEW h \in Ends, Handles(h) PROVE Base'
  <2>1. /\ Arrives(h) \in Message
        /\ chan' \in [Ends -> ChannelClient] /\ chan'[h] = Handling(h).chan
        /\ chan'[Peer(h)] = chan[Peer(h)]
        /\ sent' = sent /\ link' = link /\ setting' = setting /\ drops' = drops
        /\ resync' = IF EndsResync(h) THEN None ELSE resync
        /\ up' \in Seq(Message) /\ inbox' \in Seq(Message)
        /\ out' \in Seq(Message) /\ down' \in Seq(Message)
        /\ link # "up" => up' = up /\ down' = down
    BY <1>5, HandlesView
  <2>2. chan[h] \in ChannelClient /\ chan[h].buffer \in Seq(Message)
    BY Views
  <2>3. /\ Rest(chan[h].buffer, Handling(h).chan.buffer)
        /\ Handling(h).chan.taken = chan[h].taken /\ Handling(h).chan.pushed = chan[h].pushed
    BY <2>1, <2>2, HandleFacts DEF Handling
  <2> HIDE DEF Handling
  <2>4. TypeOK'
    <3>1. resync' \in Opt(Nat)
      BY <2>1 DEF TypeOK, Opt
    <3> QED BY <2>1, <3>1 DEF TypeOK
  <2>5. Quiet'
    BY <2>1 DEF Quiet
  <2>6. Threads'
    BY <2>1, <2>3, TwoEnds DEF Threads
  <2>7. OnlyData'
    <3>1. \A i \in DOMAIN chan'[h].buffer : chan'[h].buffer[i].kind = "data"
      BY <2>1, <2>2, <2>3, RestFacts DEF OnlyData
    <3> QED BY <2>1, <2>3, <3>1, OnlyDataStep DEF OnlyData
  <2> QED BY <2>4, <2>5, <2>6, <2>7
<1>6. CASE ServerReads
  <2>1. /\ link = "up" /\ up # <<>> /\ inbox' = Append(inbox, Head(up)) /\ up' = Tail(up)
        /\ UNCHANGED <<chan, resync, link, out, down, sent, setting, drops>>
    BY <1>6 DEF ServerReads
  <2>2. inbox' \in Seq(Message) /\ up' \in Seq(Message)
    BY <2>1 DEF TypeOK
  <2>3. TypeOK'
    BY <2>1, <2>2 DEF TypeOK
  <2> QED BY <2>1, <2>3 DEF Quiet, Threads, OnlyData
<1>7. CASE ServerWrites
  <2>1. /\ out # <<>> /\ down' = (IF link = "up" THEN Append(down, Head(out)) ELSE down) /\ out' = Tail(out)
        /\ UNCHANGED <<chan, resync, link, up, inbox, sent, setting, drops>>
    BY <1>7 DEF ServerWrites
  <2>2. down' \in Seq(Message) /\ out' \in Seq(Message)
    BY <2>1 DEF TypeOK
  <2>3. TypeOK'
    BY <2>1, <2>2 DEF TypeOK
  <2> QED BY <2>1, <2>3 DEF Quiet, Threads, OnlyData
<1>8. CASE Drop
  <2>1. /\ link' = "broken" /\ up' = <<>> /\ down' = <<>> /\ drops' = drops + 1
        /\ UNCHANGED <<chan, resync, inbox, out, sent, setting>>
    BY <1>8 DEF Drop
  <2>2. TypeOK'
    BY <2>1 DEF TypeOK
  <2> QED BY <2>1, <2>2 DEF Quiet, Threads, OnlyData
<1>9. CASE ServerNotices
  <2>1. /\ link # "up" /\ link' = "down"
        /\ UNCHANGED <<chan, resync, up, inbox, out, down, sent, setting, drops>>
    BY <1>9 DEF ServerNotices
  <2>2. TypeOK'
    BY <2>1 DEF TypeOK
  <2> QED BY <2>1, <2>2 DEF Quiet, Threads, OnlyData
<1>10. CASE Reconnect
  <2>1. /\ link' = "up" /\ up' \in Seq(Message) /\ resync' \in Nat
        /\ chan' \in [Ends -> ChannelClient]
        /\ chan'["client"].buffer = chan["client"].buffer
        /\ chan'["client"].taken = chan["client"].taken
        /\ chan'["client"].pushed = chan["client"].pushed
        /\ chan'["server"] = chan["server"]
        /\ UNCHANGED <<inbox, out, down, sent, setting, drops>>
    BY <1>10, ReconnectView
  <2>2. TypeOK'
    BY <2>1 DEF TypeOK, Opt
  <2>3. Quiet'
    BY <2>1 DEF Quiet
  <2>4. Threads' /\ OnlyData'
    BY <2>1 DEF Threads, OnlyData, Ends
  <2> QED BY <2>2, <2>3, <2>4
<1>11. CASE UNCHANGED vars
  <2>1. TypeOK' /\ Quiet' /\ Threads' /\ OnlyData'
    BY <1>11 DEF vars, wires, TypeOK, Quiet, Threads, OnlyData
  <2> QED BY <2>1
<1>12. ClientHandles \/ ServerHandles => \E h \in Ends : Handles(h)
  BY DEF Handles, Ends
<1> QED
  BY <1>1, <1>2, <1>3, <1>4, <1>5, <1>6, <1>7, <1>8, <1>9, <1>10, <1>11, <1>12 DEF Next, Tasks

-----------------------------------------------------------------------------
(* What a step of an end leaves as it was *)

\* A sequence of messages begins as another.
Begins(s, t) == t \in Seq(Message) /\ Len(s) <= Len(t) /\ \A i \in 1..Len(s) : t[i] = s[i]

\* What is added to a sequence comes after it.
LEMMA BeginsConcat ==
    ASSUME NEW s \in Seq(Message), NEW t \in Seq(Message)
    PROVE  Begins(s, s \o t)
BY DEF Begins

\* Sending adds the message to the open ones, and changes nothing else that
\* was said about the open messages of either end.
LEMMA SendOpen ==
    ASSUME TypeOK, NEW end \in Ends, Send(end)
    PROVE  /\ Open(end)' \subseteq Open(end) \cup {NextId(end)}
           /\ NextId(end)' = NextId(end) + 1 /\ Received(end)' = Received(end)
           /\ Open(Peer(end))' = Open(Peer(end)) /\ NextId(Peer(end))' = NextId(Peer(end))
           /\ Received(Peer(end))' = Received(Peer(end))
<1>1. /\ chan'[end].next_message_id = NextId(end) + 1
      /\ chan'[end].max_received = chan[end].max_received
      /\ chan'[end].handled = chan[end].handled /\ chan'[Peer(end)] = chan[Peer(end)]
      /\ sent'[end] = sent[end] \cup {NextId(end)} /\ sent'[Peer(end)] = sent[Peer(end)]
  BY SendView
<1>2. Peer(Peer(end)) = end
  BY TwoEnds
<1>3. HandledBy(end)' = HandledBy(end) /\ HandledBy(Peer(end))' = HandledBy(Peer(end))
  BY <1>1 DEF HandledBy
<1>4. Open(end)' \subseteq Open(end) \cup {NextId(end)} /\ Open(Peer(end))' = Open(Peer(end))
  BY <1>1, <1>2, <1>3 DEF Open
<1>5. /\ NextId(end)' = NextId(end) + 1 /\ NextId(Peer(end))' = NextId(Peer(end))
      /\ Received(end)' = Received(end) /\ Received(Peer(end))' = Received(Peer(end))
  BY <1>1, <1>2 DEF NextId, Received
<1> QED BY <1>4, <1>5

\* Sending adds its message after all the others, in the buffer and on the way;
\* it acknowledges safely what was received safely.
LEMMA SendKeeps ==
    ASSUME TypeOK, NEW end \in Ends, Send(end), NEW e \in Ends
    PROVE  /\ Later(Open(e), NextId(e), Open(e)', NextId(e)')
           /\ Begins(Path(e), Path(e)')
           /\ Kept(e) => Kept(e)'
           /\ Reaches(e) /\ Carried(e) => Carried(e)'
           /\ AllSafe(e) => AllSafe(e)'
<1> DEFINE d == Sent(end)
           extra == IF Reaches(end) THEN <<d>> ELSE <<>>
           p == Peer(end)
<1>1. /\ d \in Message /\ d.kind = "data" /\ d.id = NextId(end) /\ d.ack_id = Received(p)
      /\ chan'[end].buffer = Append(chan[end].buffer, d)
      /\ chan'[p] = chan[p]
      /\ Path(end)' = Path(end) \o extra /\ Path(p)' = Path(p)
  BY SendView
<1>2. /\ Open(end)' \subseteq Open(end) \cup {NextId(end)}
      /\ NextId(end)' = NextId(end) + 1 /\ Received(end)' = Received(end)
      /\ Open(p)' = Open(p) /\ NextId(p)' = NextId(p) /\ Received(p)' = Received(p)
  BY SendOpen
<1>3. /\ Path(end) \in Seq(Message) /\ chan[end].buffer \in Seq(Message) /\ Open(end) \subseteq Nat
      /\ NextId(end) \in Nat /\ p \in Ends /\ Path(p) \in Seq(Message) /\ Open(p) \subseteq Nat
      /\ NextId(p) \in Nat /\ chan[p].buffer \in Seq(Message) /\ Peer(p) = end
  BY Views, TwoEnds
<1>4. extra \in Seq(Message) /\ <<d>> \in Seq(Message)
  BY <1>1
<1> HIDE DEF d, extra, p
<1>5. Begins(Path(end), Path(end)') /\ Begins(Path(p), Path(p)')
  <2>1. Begins(Path(p), Path(p))
    BY <1>3 DEF Begins
  <2> QED BY <1>1, <1>3, <1>4, <2>1, BeginsConcat
<1>6. Later(Open(end), NextId(end), Open(end)', NextId(end)')
  BY <1>2, <1>3 DEF Later
<1>7. Later(Open(p), NextId(p), Open(p)', NextId(p)')
  BY <1>2, <1>3 DEF Later
<1>8. Kept(p) => Kept(p)'
  BY <1>1, <1>2 DEF Kept
<1>9. Carried(p) => Carried(p)'
  BY <1>1, <1>2 DEF Carried
<1>10. Kept(end) => Kept(end)'
  <2>1. Ids(Append(chan[end].buffer, d)) = Ids(chan[end].buffer) \cup {d.id}
    <3> DEFINE b == chan[end].buffer
               b2 == Append(b, d)
    <3>1. /\ Len(b) \in Nat /\ DOMAIN b = 1..Len(b) /\ DOMAIN b2 = 1..(Len(b) + 1)
          /\ b2[Len(b) + 1] = d /\ \A i \in 1..Len(b) : b2[i] = b[i]
      BY <1>3
    <3> HIDE DEF b2
    <3>2. \A i \in DOMAIN b2 : i \in DOMAIN b \/ i = Len(b) + 1
      BY <3>1
    <3>3. \A i \in DOMAIN b : i \in DOMAIN b2 /\ b2[i] = b[i]
      BY <3>1
    <3>4. Len(b) + 1 \in DOMAIN b2
      BY <3>1
    <3>5. Ids(b2) = Ids(b) \cup {d.id}
      BY <3>1, <3>2, <3>3, <3>4 DEF Ids
    <3> QED BY <3>5 DEF b2
  <2> QED BY <1>1, <1>2, <2>1 DEF Kept
<1>11. Reaches(end) /\ Carried(end) => Carried(end)'
  <2> SUFFICES ASSUME Reaches(end), Carried(end) PROVE Carried(end)'
    OBVIOUS
  <2>1. Path(end)' = Path(end) \o <<d>>
    BY <1>1 DEF extra
  <2>2. DataIds(Path(end)) \cup DataIds(<<d>>) \subseteq DataIds(Path(end) \o <<d>>)
    BY <1>3, <1>4, DataIdsConcat
  <2>3. d.id \in DataIds(<<d>>)
    <3>1. 1 \in DOMAIN <<d>> /\ <<d>>[1] = d
      OBVIOUS
    <3> QED BY <1>1, <3>1 DEF DataIds
  <2> QED BY <1>1, <1>2, <2>1, <2>2, <2>3 DEF Carried
<1>12. AllSafe(end) => AllSafe(end)'
  <2> SUFFICES ASSUME AllSafe(end) PROVE AllSafe(end)'
    OBVIOUS
  <2>1. /\ Acks(Open(end), NextId(end), Path(p), Len(Path(p)))
        /\ Acks(Open(end), NextId(end), chan[p].buffer, Len(chan[p].buffer))
        /\ Safe(Open(end), NextId(end), Received(end))
    BY DEF AllSafe, p
  <2>2. Len(Path(p)) \in Nat /\ Len(chan[p].buffer) \in Nat
    BY <1>3
  <2>3. /\ Acks(Open(end)', NextId(end)', Path(p), Len(Path(p)))
        /\ Acks(Open(end)', NextId(end)', chan[p].buffer, Len(chan[p].buffer))
        /\ Safe(Open(end)', NextId(end)', Received(end))
    BY <1>6, <2>1, <2>2, SafeLater, AcksLater
  <2>4. /\ Acks(Open(end)', NextId(end)', Path(p)', Len(Path(p)'))
        /\ Acks(Open(end)', NextId(end)', chan'[p].buffer, Len(chan'[p].buffer))
        /\ Safe(Open(end)', NextId(end)', Received(end)')
    BY <1>1, <1>2, <2>3
  <2> QED BY <2>4 DEF AllSafe, p
<1>13. AllSafe(p) => AllSafe(p)'
  <2> SUFFICES ASSUME AllSafe(p) PROVE AllSafe(p)'
    OBVIOUS
  <2>1. /\ Acks(Open(p), NextId(p), Path(end), Len(Path(end)))
        /\ Acks(Open(p), NextId(p), chan[end].buffer, Len(chan[end].buffer))
        /\ Safe(Open(p), NextId(p), Received(p))
    BY <1>3 DEF AllSafe
  <2>2. Acks(Open(p), NextId(p), extra, Len(extra)) /\ Acks(Open(p), NextId(p), <<d>>, Len(<<d>>))
    BY <1>1, <2>1 DEF Acks, extra
  <2>3. Acks(Open(p), NextId(p), Path(end) \o extra, Len(Path(end)) + Len(extra))
        /\ Len(Path(end) \o extra) = Len(Path(end)) + Len(extra)
    BY <1>3, <1>4, <2>1, <2>2, AcksConcat
  <2>4. Append(chan[end].buffer, d) = chan[end].buffer \o <<d>>
    BY <1>1, <1>3, AppendIsConcat
  <2>5. Acks(Open(p), NextId(p), chan[end].buffer \o <<d>>, Len(chan[end].buffer) + Len(<<d>>))
        /\ Len(chan[end].buffer \o <<d>>) = Len(chan[end].buffer) + Len(<<d>>)
    <3> DEFINE one == <<d>>
    <3>1. one \in Seq(Message) /\ Acks(Open(p), NextId(p), one, Len(one))
      BY <1>4, <2>2
    <3> HIDE DEF one
    <3>2. Len(one) \in 0..Len(one)
      BY <3>1
    <3>3. Acks(Open(p), NextId(p), chan[end].buffer \o one, Len(chan[end].buffer) + Len(one))
      BY <1>3, <2>1, <3>1, <3>2, AcksConcat
    <3>4. Len(chan[end].buffer \o one) = Len(chan[end].buffer) + Len(one)
      BY <1>3, <3>1
    <3> QED BY <3>3, <3>4 DEF one
  <2>6. /\ Acks(Open(p)', NextId(p)', Path(end)', Len(Path(end)'))
        /\ Acks(Open(p)', NextId(p)', chan'[end].buffer, Len(chan'[end].buffer))
        /\ Safe(Open(p)', NextId(p)', Received(p)')
    BY <1>1, <1>2, <2>1, <2>3, <2>4, <2>5
  <2> QED BY <1>3, <2>6 DEF AllSafe
<1>14. CASE e = end
  BY <1>5, <1>6, <1>10, <1>11, <1>12, <1>14
<1>15. CASE e = p
  BY <1>5, <1>7, <1>8, <1>9, <1>13, <1>15
<1> QED BY <1>14, <1>15, TwoEnds DEF p

\* Over a connection, a message sent is due after those sent before it.
LEMMA SendDue ==
    ASSUME TypeOK, NEW end \in Ends, Send(end), NEW e \in Ends
    PROVE  /\ Reaches(end) /\ Carried(e) /\ AllDue(e) => AllDue(e)'
           /\ ~Reaches(end) /\ AllDue(e) => AllDue(e)'
<1> DEFINE d == Sent(end)
           p == Peer(end)
<1>1. /\ d \in Message /\ d.kind = "data" /\ d.id = NextId(end)
      /\ Path(end)' = Path(end) \o (IF Reaches(end) THEN <<d>> ELSE <<>>) /\ Path(p)' = Path(p)
  BY SendView
<1>2. /\ Open(end)' \subseteq Open(end) \cup {NextId(end)}
      /\ NextId(end)' = NextId(end) + 1
      /\ Open(p)' = Open(p) /\ NextId(p)' = NextId(p)
  BY SendOpen
<1>3. /\ Path(end) \in Seq(Message) /\ Open(end) \in SUBSET Nat /\ NextId(end) \in Nat
  BY Views
<1> HIDE DEF d, p
<1>4. CASE e = p
  BY <1>1, <1>2, <1>4 DEF AllDue
<1>5. CASE e = end
  <2>1. ASSUME Reaches(end), Carried(end), AllDue(end) PROVE AllDue(end)'
    <3>1. Due(Open(end)', NextId(end) + 1, Path(end) \o <<d>>, Len(Path(end) \o <<d>>))
      BY <1>1, <1>2, <1>3, <2>1, DueAppend DEF Carried, AllDue
    <3> QED BY <1>1, <1>2, <2>1, <3>1 DEF AllDue
  <2>2. ASSUME ~Reaches(end), AllDue(end) PROVE AllDue(end)'
    <3>1. Later(Open(end), NextId(end), Open(end)', NextId(end)')
      BY <1>2, <1>3 DEF Later
    <3>2. Path(end)' = Path(end)
      BY <1>1, <1>3, <2>2
    <3>3. Len(Path(end)) \in 0..Len(Path(end))
      BY <1>3
    <3>4. Due(Open(end)', NextId(end)', Path(end), Len(Path(end)))
      BY <1>3, <2>2, <3>1, <3>3, DueLater DEF AllDue
    <3> QED BY <3>2, <3>4 DEF AllDue
  <2> QED BY <1>5, <2>1, <2>2
<1> QED BY <1>4, <1>5, TwoEnds DEF p

\* Handling data takes it off the open messages of the peer, and it is what
\* is acknowledged next.
LEMMA HandlesOpen ==
    ASSUME TypeOK, NEW h \in Ends, Handles(h)
    PROVE  /\ Open(h)' = Open(h) /\ Received(h)' = Received(h)
           /\ NextId(h)' \in Nat /\ NextId(h) <= NextId(h)'
           /\ NextId(Peer(h))' = NextId(Peer(h))
           /\ Open(Peer(h))' = IF Arrives(h).kind = "data" THEN Open(Peer(h)) \ {Arrives(h).id}
                               ELSE Open(Peer(h))
           /\ Arrives(h).kind = "data" => Received(Peer(h))' = Arrives(h).id
<1> DEFINE p == Peer(h)
           m == Arrives(h)
           c == chan[h]
           d == Handling(h).chan
<1>1. /\ m \in Message /\ chan' \in [Ends -> ChannelClient] /\ chan'[h] = d /\ chan'[p] = chan[p]
      /\ sent' = sent
  BY HandlesView
<1>2. p \in Ends /\ Peer(p) = h /\ c \in ChannelClient
  BY TwoEnds, Views
<1>3. /\ d \in ChannelClient /\ c.next_message_id <= d.next_message_id
      /\ m.kind # "data" => d.handled = c.handled
      /\ m.kind = "data" => d.handled = Append(c.handled, m.id) /\ d.max_received = m.id
  BY <1>1, <1>2, HandleFacts DEF Handling
<1>4. c.handled \in Seq(Nat) /\ d.next_message_id \in Nat
  BY <1>2, <1>3 DEF ChannelClient
<1> HIDE DEF p, m, d
<1>5. HandledBy(h)' = HandledBy(h) \cup (IF m.kind = "data" THEN {m.id} ELSE {})
  <2>1. HandledBy(h)' = {d.handled[i] : i \in DOMAIN d.handled}
    BY <1>1 DEF HandledBy
  <2>2. HandledBy(h) = {c.handled[i] : i \in DOMAIN c.handled}
    BY DEF HandledBy
  <2>3. CASE m.kind # "data"
    BY <1>3, <2>1, <2>2, <2>3
  <2>4. CASE m.kind = "data"
    <3> DEFINE s == c.handled
               t == Append(s, m.id)
    <3>1. /\ Len(s) \in Nat /\ DOMAIN s = 1..Len(s) /\ DOMAIN t = 1..(Len(s) + 1)
          /\ t[Len(s) + 1] = m.id /\ \A i \in 1..Len(s) : t[i] = s[i]
      BY <1>4
    <3>2. d.handled = t
      BY <1>3, <2>4
    <3> HIDE DEF s, t
    <3>3. /\ \A i \in DOMAIN t : i \in DOMAIN s \/ i = Len(s) + 1
          /\ \A i \in DOMAIN s : i \in DOMAIN t /\ t[i] = s[i]
          /\ Len(s) + 1 \in DOMAIN t
      BY <3>1
    <3>4. {t[i] : i \in DOMAIN t} = {s[i] : i \in DOMAIN s} \cup {m.id}
      BY <3>1, <3>3
    <3> QED BY <2>1, <2>2, <2>4, <3>2, <3>4 DEF s
  <2> QED BY <2>3, <2>4
<1>6. HandledBy(p)' = HandledBy(p)
  BY <1>1 DEF HandledBy
<1>7. Open(h)' = Open(h)
  BY <1>1, <1>6 DEF Open, p
<1>8. Open(p)' = IF m.kind = "data" THEN Open(p) \ {m.id} ELSE Open(p)
  <2>1. Open(p)' = sent'[p] \ HandledBy(h)' /\ Open(p) = sent[p] \ HandledBy(h)
    BY <1>2 DEF Open
  <2> QED BY <1>1, <1>5, <2>1
<1>9. /\ Received(h)' = Received(h) /\ NextId(p)' = NextId(p)
      /\ NextId(h)' = d.next_message_id /\ NextId(h) = c.next_message_id
  BY <1>1 DEF Received, NextId, p
<1>10. m.kind = "data" => Received(p)' = m.id
  BY <1>1, <1>2, <1>3 DEF Received
<1> QED BY <1>3, <1>4, <1>7, <1>8, <1>9, <1>10 DEF p, m

\* Handling keeps what was carried, and what was kept unless it is acknowledged.
LEMMA HandlesKeeps ==
    ASSUME TypeOK, NEW h \in Ends, Handles(h)
    PROVE  /\ \A e \in Ends : /\ Later(Open(e), NextId(e), Open(e)', NextId(e)')
                              /\ Carried(e) => Carried(e)'
           /\ Begins(Path(h), Path(h)')
           /\ Kept(Peer(h)) => Kept(Peer(h))'
           /\ Arrives(h).ack_id = None \/ Safe(Open(h), NextId(h), Arrives(h).ack_id) =>
                 (Kept(h) => Kept(h)')
           /\ AllSafe(h) => AllSafe(h)'
<1> DEFINE p == Peer(h)
           m == Arrives(h)
           d == Handling(h).chan
           extra == Answer(h)
<1>1. /\ Path(p) # <<>> /\ m \in Message /\ extra \in Seq(Message)
      /\ Path(p)' = Tail(Path(p)) /\ Path(h)' = Path(h) \o extra
      /\ chan'[h] = d /\ chan'[p] = chan[p]
  BY HandlesView
<1>2. /\ Open(h)' = Open(h) /\ Received(h)' = Received(h)
      /\ NextId(h)' \in Nat /\ NextId(h) <= NextId(h)' /\ NextId(p)' = NextId(p)
      /\ Open(p)' = IF m.kind = "data" THEN Open(p) \ {m.id} ELSE Open(p)
  BY HandlesOpen
<1>3. /\ p \in Ends /\ Peer(p) = h
      /\ Path(h) \in Seq(Message) /\ Open(h) \subseteq Nat /\ NextId(h) \in Nat
      /\ chan[h] \in ChannelClient /\ chan[h].buffer \in Seq(Message)
      /\ Path(p) \in Seq(Message) /\ Open(p) \subseteq Nat /\ NextId(p) \in Nat
      /\ chan[p].buffer \in Seq(Message)
  BY Views, TwoEnds
<1>4. /\ \A k \in Ids(chan[h].buffer) : k \in Ids(d.buffer) \/ (m.ack_id \in Nat /\ k <= m.ack_id)
  BY <1>1, <1>3, HandleFacts DEF Handling
<1>5. m = Path(p)[1]
  BY DEF Arrives
<1> HIDE DEF p, m, d, extra
<1>6. /\ Later(Open(h), NextId(h), Open(h)', NextId(h)')
      /\ Later(Open(p), NextId(p), Open(p)', NextId(p)')
  BY <1>2, <1>3 DEF Later
<1>7. Carried(h) => Carried(h)'
  <2>1. DataIds(Path(h)) \subseteq DataIds(Path(h) \o extra)
    BY <1>1, <1>3, DataIdsConcat
  <2> QED BY <1>1, <1>2, <2>1 DEF Carried
<1>8. Carried(p) => Carried(p)'
  <2>1. \A k \in DataIds(Path(p)) : k \in DataIds(Tail(Path(p))) \/ (m.kind = "data" /\ k = m.id)
    BY <1>1, <1>3, <1>5, DataIdsTail
  <2> QED BY <1>1, <1>2, <2>1 DEF Carried
<1>9. Begins(Path(h), Path(h)')
  BY <1>1, <1>3, BeginsConcat
<1>10. Kept(p) => Kept(p)'
  BY <1>1, <1>2 DEF Kept
<1>11. ASSUME m.ack_id = None \/ Safe(Open(h), NextId(h), m.ack_id), Kept(h) PROVE Kept(h)'
  <2>1. \A k \in Open(h) : k \in Nat /\ k \in Ids(chan[h].buffer)
    BY <1>3, <1>11 DEF Kept
  <2>2. \A k \in Open(h) : ~(m.ack_id \in Nat /\ k <= m.ack_id)
    BY <1>3, <1>11, ConstantsAssumption DEF Safe
  <2>3. Open(h) \subseteq Ids(d.buffer)
    BY <1>4, <2>1, <2>2
  <2> QED BY <1>1, <1>2, <2>3 DEF Kept
<1>12. AllSafe(h) => AllSafe(h)'
  <2> SUFFICES ASSUME AllSafe(h) PROVE AllSafe(h)'
    OBVIOUS
  <2>1. /\ Acks(Open(h), NextId(h), Path(p), Len(Path(p)))
        /\ Acks(Open(h), NextId(h), chan[p].buffer, Len(chan[p].buffer))
        /\ Safe(Open(h), NextId(h), Received(h))
    BY DEF AllSafe, p
  <2>2. /\ Tail(Path(p)) \in Seq(Message) /\ Len(Tail(Path(p))) + 1 = Len(Path(p))
        /\ \A i \in 1..Len(Tail(Path(p))) : Tail(Path(p))[i] = Path(p)[i + 1]
        /\ Len(Path(p)) \in Nat /\ Len(Tail(Path(p))) \in Nat /\ Len(chan[p].buffer) \in Nat
    BY <1>1, <1>3
  <2>3. Acks(Open(h), NextId(h), Tail(Path(p)), Len(Tail(Path(p))))
    <3>1. 1 \in Nat /\ Len(Tail(Path(p))) + 1 <= Len(Path(p))
      BY <2>2
    <3> QED BY <2>1, <2>2, <3>1, AcksSuffix
  <2>4. /\ Acks(Open(h)', NextId(h)', Tail(Path(p)), Len(Tail(Path(p))))
        /\ Acks(Open(h)', NextId(h)', chan[p].buffer, Len(chan[p].buffer))
        /\ Safe(Open(h)', NextId(h)', Received(h))
    BY <1>6, <2>1, <2>2, <2>3, SafeLater, AcksLater
  <2>5. /\ Acks(Open(h)', NextId(h)', Path(p)', Len(Path(p)'))
        /\ Acks(Open(h)', NextId(h)', chan'[p].buffer, Len(chan'[p].buffer))
        /\ Safe(Open(h)', NextId(h)', Received(h)')
    BY <1>1, <1>2, <2>4
  <2> QED BY <2>5 DEF AllSafe, p
<1>13. \A e \in Ends : e = h \/ e = p
  BY TwoEnds DEF p
<1>14. \A e \in Ends : /\ Later(Open(e), NextId(e), Open(e)', NextId(e)')
                       /\ Carried(e) => Carried(e)'
  BY <1>6, <1>7, <1>8, <1>13
<1> QED BY <1>9, <1>10, <1>11, <1>12, <1>14 DEF p, m

\* Data is not answered.  Handled in its turn, it acknowledges safely.
LEMMA HandlesData ==
    ASSUME TypeOK, NEW h \in Ends, Handles(h), Arrives(h).kind = "data"
    PROVE  /\ Path(h)' = Path(h) /\ resync' = resync
           /\ AllDue(h) => AllDue(h)'
           /\ AllDue(Peer(h)) => AllDue(Peer(h))'
           /\ AllSafe(Peer(h)) =>
                 (Safe(Open(Peer(h))', NextId(Peer(h)), Arrives(h).id) => AllSafe(Peer(h))')
           /\ AllSafe(Peer(h)) /\ AllDue(Peer(h)) => AllSafe(Peer(h))'
<1> DEFINE p == Peer(h)
           m == Arrives(h)
           d == Handling(h).chan
<1>1. /\ Path(p) # <<>> /\ m \in Message
      /\ Path(p)' = Tail(Path(p)) /\ Path(h)' = Path(h) \o Answer(h)
      /\ chan'[h] = d /\ chan'[p] = chan[p]
      /\ resync' = IF EndsResync(h) THEN None ELSE resync
  BY HandlesView
<1>2. /\ Open(h)' = Open(h) /\ NextId(h)' \in Nat /\ NextId(h) <= NextId(h)'
      /\ NextId(p)' = NextId(p) /\ Open(p)' = Open(p) \ {m.id} /\ Received(p)' = m.id
  BY HandlesOpen
<1>3. /\ p \in Ends /\ Peer(p) = h
      /\ Path(h) \in Seq(Message) /\ Open(h) \subseteq Nat /\ NextId(h) \in Nat
      /\ chan[h] \in ChannelClient /\ chan[h].buffer \in Seq(Message)
      /\ Path(p) \in Seq(Message) /\ Open(p) \in SUBSET Nat /\ NextId(p) \in Nat
  BY Views, TwoEnds
<1>4. Rest(chan[h].buffer, d.buffer) /\ Handling(h).answer = <<>>
  BY <1>1, <1>3, HandleFacts DEF Handling
<1>5. m = Path(p)[1] /\ m.kind = "data"
  BY DEF Arrives
<1>6. ~EndsResync(h)
  BY DEF EndsResync
<1>7. Path(h)' = Path(h) /\ resync' = resync
  BY <1>1, <1>3, <1>4, <1>6 DEF Answer
<1> HIDE DEF p, m, d
<1>8. AllDue(h) => AllDue(h)'
  <2> SUFFICES ASSUME AllDue(h) PROVE AllDue(h)'
    OBVIOUS
  <2>1. Later(Open(h), NextId(h), Open(h)', NextId(h)')
    BY <1>2, <1>3 DEF Later
  <2>2. Len(Path(h)) \in 0..Len(Path(h))
    BY <1>3
  <2>3. Due(Open(h)', NextId(h)', Path(h), Len(Path(h)))
    BY <1>3, <2>1, <2>2, DueLater DEF AllDue
  <2> QED BY <1>7, <2>3 DEF AllDue
<1>9. AllDue(p) => AllDue(p)' /\ Safe(Open(p)', NextId(p), m.id)
  <2> SUFFICES ASSUME AllDue(p) PROVE AllDue(p)' /\ Safe(Open(p)', NextId(p), m.id)
    OBVIOUS
  <2>1. Len(Path(p)) \in 1..Len(Path(p)) /\ Len(Tail(Path(p))) = Len(Path(p)) - 1
    BY <1>1, <1>3
  <2>2. /\ Due(Open(p) \ {m.id}, NextId(p), Tail(Path(p)), Len(Path(p)) - 1)
        /\ Safe(Open(p) \ {m.id}, NextId(p), m.id)
    BY <1>1, <1>3, <1>5, <2>1, DueTail DEF AllDue
  <2>3. Due(Open(p)', NextId(p)', Path(p)', Len(Path(p)'))
    BY <1>1, <1>2, <2>1, <2>2
  <2> QED BY <1>2, <2>2, <2>3 DEF AllDue
<1>10. ASSUME AllSafe(p), Safe(Open(p)', NextId(p), m.id) PROVE AllSafe(p)'
  <2>1. Later(Open(p), NextId(p), Open(p)', NextId(p)')
    BY <1>2, <1>3 DEF Later
  <2>2. /\ Acks(Open(p), NextId(p), Path(h), Len(Path(h)))
        /\ Acks(Open(p), NextId(p), chan[h].buffer, Len(chan[h].buffer))
    BY <1>3, <1>10 DEF AllSafe
  <2>3. Acks(Open(p), NextId(p), d.buffer, Len(d.buffer))
    BY <1>3, <1>4, <2>2, RestFacts
  <2>4. Len(Path(h)) \in Nat /\ Len(d.buffer) \in Nat
    BY <1>3, <1>4 DEF Rest
  <2>5. /\ Acks(Open(p)', NextId(p)', Path(h), Len(Path(h)))
        /\ Acks(Open(p)', NextId(p)', d.buffer, Len(d.buffer))
    BY <2>1, <2>2, <2>3, <2>4, AcksLater
  <2>6. /\ Acks(Open(p)', NextId(p)', Path(h)', Len(Path(h)'))
        /\ Acks(Open(p)', NextId(p)', chan'[h].buffer, Len(chan'[h].buffer))
        /\ Safe(Open(p)', NextId(p)', Received(p)')
    BY <1>1, <1>2, <1>7, <1>10, <2>5
  <2> QED BY <1>3, <2>6 DEF AllSafe
<1> QED BY <1>7, <1>8, <1>9, <1>10 DEF p, m

-----------------------------------------------------------------------------
(* The stages of a connection *)

\* The first message on a path of safe acknowledgements, or of messages due.
LEMMA FirstArrives ==
    ASSUME TypeOK, NEW h \in Ends, Handles(h)
    PROVE  /\ AllSafe(h) => /\ Arrives(h).kind = "data"
                            /\ Safe(Open(h), NextId(h), Arrives(h).ack_id)
           /\ AllDue(Peer(h)) => Arrives(h).kind = "data"
<1>1. Path(Peer(h)) # <<>> /\ Path(Peer(h)) \in Seq(Message)
  BY HandlesView, Views, TwoEnds
<1>2. 1 \in 1..Len(Path(Peer(h))) /\ Arrives(h) = Path(Peer(h))[1]
  BY <1>1 DEF Arrives
<1> QED BY <1>2 DEF AllSafe, AllDue, Acks, Due

\* What is on its way stays there while more is added behind it.
LEMMA FlushBegins ==
    ASSUME TypeOK, Begins(Path("client"), Path("client")'), resync' = resync,
           \A e \in Ends : Later(Open(e), NextId(e), Open(e)', NextId(e)'),
           NEW f \in 1..Len(Path("client")), FlushAt(f)
    PROVE  f \in 1..Len(Path("client")') /\ FlushAt(f)'
<1> DEFINE s == Path("client")
           s2 == Path("client")'
<1>1. /\ s[f].kind = "flush" /\ s[f].id = resync
      /\ Due(Open("client"), NextId("client"), s, f - 1)
      /\ Acks(Open("server"), NextId("server"), s, f - 1)
      /\ Safe(Open("server"), NextId("server"), s[f].ack_id)
  BY DEF FlushAt
<1>2. /\ s \in Seq(Message) /\ Len(s) \in Nat /\ s2 \in Seq(Message) /\ Len(s2) \in Nat
      /\ Len(s) <= Len(s2) /\ \A i \in 1..Len(s) : s2[i] = s[i]
  BY Views DEF Begins, Ends
<1> HIDE DEF s, s2
<1>3. /\ f - 1 \in Nat /\ f - 1 \in 0..(f - 1) /\ f - 1 \in 0..Len(s) /\ f - 1 \in 0..Len(s2)
      /\ f \in 1..Len(s2)
      /\ \A i \in 1..(f - 1) : s2[i] = s[i]
  BY <1>2 DEF s
<1>4. "client" \in Ends /\ "server" \in Ends
  BY DEF Ends
<1>5. Due(Open("client"), NextId("client"), s2, f - 1)
  BY <1>1, <1>3, DuePrefix
<1>6. Due(Open("client")', NextId("client")', s2, f - 1)
  BY <1>2, <1>3, <1>4, <1>5, DueLater
<1>7. Acks(Open("server"), NextId("server"), s2, f - 1)
  BY <1>1, <1>3, AcksPrefix
<1>8. Acks(Open("server")', NextId("server")', s2, f - 1)
  BY <1>3, <1>4, <1>7, AcksLater
<1>9. s2[f] = s[f]
  BY <1>2 DEF s
<1>10. Safe(Open("server")', NextId("server")', s2[f].ack_id)
  BY <1>1, <1>4, <1>9, SafeLater
<1> QED BY <1>1, <1>3, <1>6, <1>8, <1>9, <1>10 DEF FlushAt, s2

\* The same of the answer to the request to flush.
LEMMA AnswerBegins ==
    ASSUME TypeOK, Begins(Path("server"), Path("server")'), resync' = resync,
           \A e \in Ends : Later(Open(e), NextId(e), Open(e)', NextId(e)'),
           NEW g \in 1..Len(Path("server")), AnswerAt(g)
    PROVE  g \in 1..Len(Path("server")') /\ AnswerAt(g)'
<1> DEFINE s == Path("server")
           s2 == Path("server")'
<1>1. /\ s[g].kind = "ack" /\ s[g].responding_to = resync /\ s[g].ack_id = None
      /\ Acks(Open("client"), NextId("client"), s, g - 1)
  BY DEF AnswerAt
<1>2. /\ s \in Seq(Message) /\ Len(s) \in Nat /\ s2 \in Seq(Message) /\ Len(s2) \in Nat
      /\ Len(s) <= Len(s2) /\ \A i \in 1..Len(s) : s2[i] = s[i]
  BY Views DEF Begins, Ends
<1> HIDE DEF s, s2
<1>3. /\ g - 1 \in Nat /\ g - 1 \in 0..(g - 1) /\ g \in 1..Len(s2)
      /\ \A i \in 1..(g - 1) : s2[i] = s[i]
  BY <1>2 DEF s
<1>4. Acks(Open("client"), NextId("client"), s2, g - 1)
  BY <1>1, <1>3, AcksPrefix
<1>5. Acks(Open("client")', NextId("client")', s2, g - 1)
  BY <1>3, <1>4, AcksLater DEF Ends
<1>6. s2[g] = s[g]
  BY <1>2 DEF s
<1> QED BY <1>1, <1>3, <1>5, <1>6 DEF AnswerAt, s2

\* A step that moves messages and changes nothing else.
Same == /\ Path("client")' = Path("client") /\ Path("server")' = Path("server")
        /\ UNCHANGED <<chan, resync, link, sent>>

\* The server's loop leaves every stage as it is.
LEMMA SameStage ==
    ASSUME TypeOK, Same
    PROVE  /\ First => First'
           /\ Asked => Asked'
           /\ Answered => Answered'
           /\ Resynced => Resynced'
<1>1. \A e \in Ends : /\ Open(e)' = Open(e) /\ NextId(e)' = NextId(e) /\ Received(e)' = Received(e)
  BY DEF Same, Open, HandledBy, NextId, Received
<1>2. \A e \in Ends : Path(e)' = Path(e) /\ chan'[e] = chan[e] /\ Peer(e) \in Ends
  BY TwoEnds DEF Same, Ends
<1>3. \A e \in Ends : /\ Kept(e)' <=> Kept(e)
                      /\ Carried(e)' <=> Carried(e)
                      /\ AllDue(e)' <=> AllDue(e)
                      /\ AllSafe(e)' <=> AllSafe(e)
  BY <1>1, <1>2 DEF Kept, Carried, AllDue, AllSafe
<1>4. link' = link /\ resync' = resync /\ "client" \in Ends /\ "server" \in Ends
  BY DEF Same, Ends
<1>5. \A e \in Ends : Path(e) \in Seq(Message) /\ Open(e) \subseteq Nat /\ NextId(e) \in Nat
  BY Views
<1>6. \A e \in Ends : /\ Begins(Path(e), Path(e)')
                      /\ Later(Open(e), NextId(e), Open(e)', NextId(e)')
  BY <1>1, <1>2, <1>5 DEF Begins, Later
<1>7. First => First'
  BY <1>3, <1>4 DEF First
<1>8. Resynced => Resynced'
  BY <1>3, <1>4 DEF Resynced
<1>9. Asked => Asked'
  <2> SUFFICES ASSUME Asked PROVE Asked'
    OBVIOUS
  <2>1. PICK f \in 1..Len(Path("client")) : FlushAt(f)
    BY DEF Asked
  <2>2. f \in 1..Len(Path("client")') /\ FlushAt(f)'
    BY <1>4, <1>6, <2>1, FlushBegins
  <2> QED BY <1>3, <1>4, <2>2 DEF Asked
<1>10. Answered => Answered'
  <2> SUFFICES ASSUME Answered PROVE Answered'
    OBVIOUS
  <2>1. PICK g \in 1..Len(Path("server")) : AnswerAt(g)
    BY DEF Answered
  <2>2. g \in 1..Len(Path("server")') /\ AnswerAt(g)'
    BY <1>4, <1>6, <2>1, AnswerBegins
  <2> QED BY <1>3, <1>4, <2>2 DEF Answered
<1> QED BY <1>7, <1>8, <1>9, <1>10

\* Sending, at any stage.
LEMMA SendStage ==
    ASSUME TypeOK, NEW end \in Ends, Send(end)
    PROVE  /\ First => First'
           /\ Lost => Lost'
           /\ Asked => Asked'
           /\ Answered => Answered'
           /\ Resynced => Resynced'
<1>1. link' = link /\ resync' = resync /\ "client" \in Ends /\ "server" \in Ends
  BY DEF Send, Ends
<1>2. \A e \in Ends : /\ Later(Open(e), NextId(e), Open(e)', NextId(e)')
                      /\ Begins(Path(e), Path(e)')
                      /\ Kept(e) => Kept(e)'
                      /\ link = "up" /\ Carried(e) => Carried(e)'
                      /\ AllSafe(e) => AllSafe(e)'
  BY SendKeeps DEF Reaches
<1>3. First => First'
  <2> SUFFICES ASSUME First PROVE First'
    OBVIOUS
  <2>1. \A e \in Ends : AllDue(e)'
    BY SendDue DEF First, Reaches
  <2> QED BY <1>1, <1>2, <2>1 DEF First
<1>4. Lost => Lost'
  <2> SUFFICES ASSUME Lost PROVE Lost'
    OBVIOUS
  <2>1. AllDue("client")'
    <3>1. CASE end = "client"
      BY <1>1, <3>1, SendDue DEF Lost, Reaches
    <3>2. CASE end = "server"
      <4>1. /\ Path("client")' = Path("client") /\ Open("client")' = Open("client")
            /\ NextId("client")' = NextId("client")
        BY <3>2, SendView, SendOpen DEF Peer
      <4> QED BY <4>1 DEF Lost, AllDue
    <3> QED BY <3>1, <3>2 DEF Ends
  <2> QED BY <1>1, <1>2, <2>1 DEF Lost
<1>5. Asked => Asked'
  <2> SUFFICES ASSUME Asked PROVE Asked'
    OBVIOUS
  <2>1. PICK f \in 1..Len(Path("client")) : FlushAt(f)
    BY DEF Asked
  <2>2. f \in 1..Len(Path("client")') /\ FlushAt(f)'
    BY <1>1, <1>2, <2>1, FlushBegins
  <2> QED BY <1>1, <1>2, <2>2 DEF Asked
<1>6. Answered => Answered'
  <2> SUFFICES ASSUME Answered PROVE Answered'
    OBVIOUS
  <2>1. PICK g \in 1..Len(Path("server")) : AnswerAt(g)
    BY DEF Answered
  <2>2. g \in 1..Len(Path("server")') /\ AnswerAt(g)'
    BY <1>1, <1>2, <2>1, AnswerBegins
  <2> QED BY <1>1, <1>2, <2>2 DEF Answered
<1>7. Resynced => Resynced'
  BY <1>1, <1>2 DEF Resynced
<1> QED BY <1>3, <1>4, <1>5, <1>6, <1>7

\* Handling, over the first connection and after it.
LEMMA FirstHandles ==
    ASSUME TypeOK, NEW h \in Ends, Handles(h)
    PROVE  /\ First => First'
           /\ Lost => Lost'
           /\ Resynced => Resynced'
<1> DEFINE p == Peer(h)
<1>1. /\ p \in Ends /\ Peer(p) = h /\ \A e \in Ends : e = h \/ e = p
  BY TwoEnds
<1>2. /\ link' = link /\ (h = "client" => link = "up")
      /\ resync' = IF EndsResync(h) THEN None ELSE resync
  BY HandlesView
<1>3. /\ \A e \in Ends : Carried(e) => Carried(e)'
      /\ Kept(p) => Kept(p)'
      /\ Safe(Open(h), NextId(h), Arrives(h).ack_id) => (Kept(h) => Kept(h)')
      /\ AllSafe(h) => AllSafe(h)'
  BY HandlesKeeps
<1>4. AllSafe(h) => /\ Arrives(h).kind = "data"
                    /\ Safe(Open(h), NextId(h), Arrives(h).ack_id)
  BY FirstArrives
<1>5. Arrives(h).kind = "data" =>
         /\ resync' = resync
         /\ AllDue(h) => AllDue(h)'
         /\ AllDue(p) => AllDue(p)'
         /\ AllSafe(p) /\ AllDue(p) => AllSafe(p)'
  BY HandlesData
<1> HIDE DEF p
<1>6. First => First'
  <2> SUFFICES ASSUME First PROVE First'
    OBVIOUS
  <2>1. /\ link = "up" /\ resync = None
        /\ Kept(h) /\ Carried(h) /\ AllDue(h) /\ AllSafe(h)
        /\ Kept(p) /\ Carried(p) /\ AllDue(p) /\ AllSafe(p)
    BY <1>1 DEF First
  <2>2. /\ Kept(h)' /\ Carried(h)' /\ AllDue(h)' /\ AllSafe(h)'
        /\ Kept(p)' /\ Carried(p)' /\ AllDue(p)' /\ AllSafe(p)'
    BY <1>1, <1>3, <1>4, <1>5, <2>1
  <2>3. \A e \in Ends : Kept(e)' /\ Carried(e)' /\ AllDue(e)' /\ AllSafe(e)'
    BY <1>1, <2>2
  <2>4. link' = "up" /\ resync' = None
    BY <1>2, <2>1
  <2> QED BY <2>3, <2>4 DEF First
<1>7. Lost => Lost'
  <2> SUFFICES ASSUME Lost PROVE Lost'
    OBVIOUS
  <2>1. h = "server" /\ p = "client"
    BY <1>1, <1>2 DEF Lost, p, Peer, Ends
  <2>2. /\ link # "up" /\ Kept(h) /\ AllSafe(h) /\ Kept(p) /\ AllSafe(p) /\ AllDue(p)
    BY <1>1, <2>1 DEF Lost
  <2>3. Kept(h)' /\ AllSafe(h)' /\ Kept(p)' /\ AllSafe(p)' /\ AllDue(p)'
    BY <1>3, <1>4, <1>5, <2>2
  <2>4. \A e \in Ends : Kept(e)' /\ AllSafe(e)'
    BY <1>1, <2>3
  <2> QED BY <1>2, <2>1, <2>2, <2>3, <2>4 DEF Lost
<1>8. Resynced => Resynced'
  BY <1>2, <1>3 DEF Resynced
<1> QED BY <1>6, <1>7, <1>8

\* The request to flush is on its way: the client handles what was sent before
\* the answer, the server what was read before the request; then the server
\* handles the request, and sends its buffer and the answer.
LEMMA AskedHandles ==
    ASSUME TypeOK, OnlyData, NEW h \in Ends, Handles(h), Asked
    PROVE  Asked' \/ Answered'
<1> DEFINE m == Arrives(h)
<1>1. "client" \in Ends /\ "server" \in Ends /\ Peer("client") = "server" /\ Peer("server") = "client"
  BY DEF Ends, Peer
<1>2. PICK f \in 1..Len(Path("client")) : FlushAt(f)
  BY DEF Asked
<1>3. /\ link = "up" /\ resync \in Nat /\ Kept("client") /\ Kept("server") /\ AllSafe("client")
  BY <1>1 DEF Asked
<1>4. link' = link
  BY HandlesView
<1>5. \A e \in Ends : Later(Open(e), NextId(e), Open(e)', NextId(e)')
  BY HandlesKeeps
<1>6. CASE h = "client"
  <2>1. m.kind = "data" /\ Safe(Open("client"), NextId("client"), m.ack_id)
    BY <1>3, <1>6, FirstArrives
  <2>2. Path("client")' = Path("client") /\ resync' = resync
    BY <1>6, <2>1, HandlesData
  <2>3. Kept("client")' /\ Kept("server")' /\ AllSafe("client")'
    BY <1>1, <1>3, <1>6, <2>1, HandlesKeeps
  <2>4. Begins(Path("client"), Path("client")')
    BY <1>1, <1>6, HandlesKeeps
  <2>5. f \in 1..Len(Path("client")') /\ FlushAt(f)'
    BY <1>2, <1>5, <2>2, <2>4, FlushBegins
  <2>6. \A e \in Ends : Kept(e)'
    BY <2>3 DEF Ends
  <2> QED BY <1>3, <1>4, <2>2, <2>3, <2>5, <2>6 DEF Asked
<1>7. CASE h = "server"
  <2> DEFINE s == Path("client")
             O == Open("client")
             next == NextId("client")
             S == Open("server")
             nextS == NextId("server")
  <2>1. /\ s[f].kind = "flush" /\ s[f].id = resync
        /\ Due(O, next, s, f - 1) /\ Acks(S, nextS, s, f - 1) /\ Safe(S, nextS, s[f].ack_id)
    BY <1>2 DEF FlushAt
  <2>2. /\ s \in Seq(Message) /\ s # <<>> /\ Path("client")' = Tail(s) /\ m = s[1] /\ m \in Message
        /\ resync' = resync
    <3>1. ~EndsResync(h)
      BY <1>7 DEF EndsResync
    <3> QED BY <1>1, <1>7, <3>1, HandlesView, Views DEF Arrives
  <2>3. O \in SUBSET Nat /\ next \in Nat /\ S \subseteq Nat /\ nextS \in Nat
    BY <1>1, Views
  <2>4. /\ Later(O, next, O', next') /\ Later(S, nextS, S', nextS')
    BY <1>1, <1>5
  <2>5. /\ next' = next /\ (m.kind = "data" => O' = O \ {m.id}) /\ (m.kind # "data" => O' = O)
        /\ S' = S
    BY <1>1, <1>7, HandlesOpen
  <2> HIDE DEF s, O, next, S, nextS
  <2>6. /\ Len(s) \in Nat /\ Tail(s) \in Seq(Message) /\ Len(Tail(s)) = Len(s) - 1
        /\ \A i \in 1..(Len(s) - 1) : Tail(s)[i] = s[i + 1]
    BY <2>2
  <2>7. f \in 1..Len(s)
    BY DEF s
  <2>8. CASE f # 1
    <3>1. /\ f - 1 \in 1..Len(s) /\ 1 \in 1..(f - 1) /\ (f - 1) - 1 \in Nat /\ f - 1 \in Nat
          /\ ((f - 1) - 1) + 1 <= f - 1
          /\ f - 1 \in 1..(Len(s) - 1) /\ (f - 1) + 1 = f
          /\ f - 1 \in 1..Len(Tail(s)) /\ (f - 1) - 1 \in 0..Len(Tail(s))
          /\ \A i \in 1..((f - 1) - 1) : Tail(s)[i] = s[i + 1]
      BY <2>6, <2>7, <2>8
    <3>2. /\ Due(O \ {m.id}, next, Tail(s), (f - 1) - 1)
          /\ Safe(O \ {m.id}, next, m.id) /\ m.kind = "data"
      <4>1. PICK n \in 1..Len(s) : n = f - 1
        BY <3>1
      <4>2. Due(O, next, s, n)
        BY <2>1, <4>1
      <4>3. /\ Due(O \ {s[1].id}, next, Tail(s), n - 1)
            /\ Safe(O \ {s[1].id}, next, s[1].id) /\ s[1].kind = "data"
        BY <2>2, <2>3, <4>2, DueTail
      <4> QED BY <2>2, <4>1, <4>3
    <3>3. Safe(S, nextS, m.ack_id)
      BY <2>1, <2>2, <3>1 DEF Acks
    <3>4. Acks(S, nextS, Tail(s), (f - 1) - 1)
      BY <2>1, <3>1, AcksSuffix
    <3>5. Acks(S', nextS', Tail(s), (f - 1) - 1)
      BY <2>4, <3>1, <3>4, AcksLater
    <3>6. Tail(s)[f - 1] = s[f]
      BY <2>6, <3>1
    <3>7. Safe(S', nextS', Tail(s)[f - 1].ack_id)
      BY <2>1, <2>4, <3>6, SafeLater
    <3>8. f - 1 \in 1..Len(Path("client")') /\ FlushAt(f - 1)'
      <4>1. Due(O', next', Tail(s), (f - 1) - 1)
        BY <2>5, <3>2
      <4>2. Tail(s)[f - 1].kind = "flush" /\ Tail(s)[f - 1].id = resync'
        BY <2>1, <2>2, <3>6
      <4>3. Tail(s) = Path("client")' /\ f - 1 \in 1..Len(Tail(s))
        BY <2>2, <3>1
      <4>4. /\ Due(Open("client")', NextId("client")', Path("client")', (f - 1) - 1)
            /\ Acks(Open("server")', NextId("server")', Path("client")', (f - 1) - 1)
            /\ Safe(Open("server")', NextId("server")', Path("client")'[f - 1].ack_id)
        BY <3>5, <3>7, <4>1, <4>3 DEF O, next, S, nextS
      <4> QED BY <4>2, <4>3, <4>4 DEF FlushAt
    <3>9. Kept("client")' /\ Kept("server")'
      BY <1>1, <1>3, <1>7, <3>3, HandlesKeeps DEF S, nextS
    <3>10. AllSafe("client")'
      <4>1. Safe(Open("client")', NextId("client"), m.id)
        BY <2>5, <3>2 DEF O, next
      <4> QED BY <1>1, <1>3, <1>7, <3>2, <4>1, HandlesData
    <3>11. \A e \in Ends : Kept(e)'
      BY <3>9 DEF Ends
    <3> QED BY <1>3, <1>4, <2>2, <3>8, <3>10, <3>11 DEF Asked
  <2>9. CASE f = 1
    <3>1. m.kind = "flush" /\ m.id = resync /\ Safe(S, nextS, m.ack_id)
      BY <2>1, <2>2, <2>9
    <3>2. Kept("client")' /\ Kept("server")'
      BY <1>1, <1>3, <1>7, <3>1, HandlesKeeps DEF S, nextS
    <3> DEFINE c == chan["server"]
               b == Handling("server").chan.buffer
               t == Path("server")
    <3>3. c \in ChannelClient /\ c.buffer \in Seq(Message) /\ t \in Seq(Message)
      BY <1>1, Views
    <3>4. Rest(c.buffer, b) /\ \E a \in Message : /\ a.kind = "ack" /\ a.responding_to = m.id
                                                  /\ a.ack_id = None
                                                  /\ Handling("server").answer = Append(b, a)
      BY <1>7, <2>2, <3>1, <3>3, HandleFacts DEF Handling
    <3>5. PICK a \in Message : /\ a.kind = "ack" /\ a.responding_to = m.id /\ a.ack_id = None
                               /\ Handling("server").answer = Append(b, a)
      BY <3>4
    <3>6. Path("server")' = t \o Append(b, a) /\ chan'["server"].buffer = b
      <4>1. Answer("server") = Append(b, a)
        BY <3>5 DEF Answer, EndsResync
      <4> HIDE DEF b
      <4> QED BY <1>7, <4>1, HandlesView DEF b
    <3>7. \A i \in DOMAIN b : b[i].kind = "data"
      BY <1>1, <3>3, <3>4, RestFacts DEF OnlyData
    <3>8. /\ Acks(O, next, t, Len(t)) /\ Acks(O, next, c.buffer, Len(c.buffer))
      BY <1>1, <1>3 DEF AllSafe, O, next
    <3>9. Acks(O, next, b, Len(b)) /\ b \in Seq(Message)
      BY <3>3, <3>4, <3>8, RestFacts DEF Rest
    <3> HIDE DEF b, c, t
    <3> DEFINE u == t \o b
               v == Path("server")'
    <3>10. /\ u \in Seq(Message) /\ Len(u) = Len(t) + Len(b) /\ Len(u) \in Nat /\ <<a>> \in Seq(Message)
           /\ Len(b) \in 0..Len(b) /\ Len(t) \in Nat /\ Len(b) \in Nat
      BY <3>3, <3>9
    <3>11. Acks(O, next, u, Len(u))
      BY <3>3, <3>8, <3>9, <3>10, AcksConcat
    <3>12. v = u \o <<a>>
      <4>1. Append(b, a) = b \o <<a>>
        BY <3>9, AppendIsConcat
      <4>2. (t \o b) \o <<a>> = t \o (b \o <<a>>)
        BY <3>3, <3>9, <3>10, Regroup
      <4> QED BY <3>6, <4>1, <4>2
    <3> HIDE DEF u, v
    <3>13. /\ v \in Seq(Message) /\ Len(v) = Len(u) + 1 /\ v[Len(u) + 1] = a
           /\ \A i \in 1..Len(u) : v[i] = u[i]
      BY <3>10, <3>12
    <3>14. PICK g \in 1..Len(v) : g = Len(u) + 1 /\ g - 1 = Len(u) /\ Len(u) \in 0..Len(u)
      BY <3>10, <3>13
    <3>15. Acks(O, next, v, Len(u))
      BY <3>10, <3>11, <3>13, <3>14, AcksPrefix
    <3>16. AnswerAt(g)'
      <4>1. v[g] = a
        BY <3>13, <3>14
      <4>2. O' = O /\ next' = next
        BY <2>5, <3>1
      <4>3. Acks(O', next', v, g - 1)
        BY <3>14, <3>15, <4>2
      <4>4. Acks(Open("client")', NextId("client")', v, g - 1)
        BY <4>3 DEF O, next
      <4> QED BY <2>2, <3>1, <3>5, <4>1, <4>4 DEF AnswerAt, v
    <3>17. Carried("server")'
      <4>1. Open("server")' \subseteq Ids(b)
        BY <3>2, <3>6 DEF Kept
      <4>2. Ids(b) \subseteq DataIds(b)
        BY <3>7, DataIdsBuffer
      <4>3. DataIds(b) \subseteq DataIds(u) /\ DataIds(u) \subseteq DataIds(v)
        BY <3>3, <3>9, <3>10, <3>12, DataIdsConcat DEF u
      <4> QED BY <4>1, <4>2, <4>3 DEF Carried, v
    <3>18. \E x \in 1..Len(Path("server")') : AnswerAt(x)'
      BY <3>14, <3>16 DEF v
    <3> QED BY <1>3, <1>4, <2>2, <3>2, <3>17, <3>18 DEF Answered
  <2> QED BY <2>8, <2>9
<1> QED BY <1>6, <1>7 DEF Ends

\* The answer is on its way: the client handles what was sent before it, then
\* the answer, which ends the resync: it sends its buffer.
LEMMA AnsweredHandles ==
    ASSUME TypeOK, OnlyData, NEW h \in Ends, Handles(h), Answered
    PROVE  Answered' \/ Resynced'
<1> DEFINE m == Arrives(h)
<1>1. "client" \in Ends /\ "server" \in Ends /\ Peer("client") = "server" /\ Peer("server") = "client"
  BY DEF Ends, Peer
<1>2. PICK g \in 1..Len(Path("server")) : AnswerAt(g)
  BY DEF Answered
<1>3. link = "up" /\ resync \in Nat /\ Kept("client") /\ Carried("server")
  BY DEF Answered
<1>4. link' = link
  BY HandlesView
<1>5. \A e \in Ends : Later(Open(e), NextId(e), Open(e)', NextId(e)')
  BY HandlesKeeps
<1>6. Carried("server")'
  BY <1>1, <1>3, HandlesKeeps
<1>7. CASE h = "server"
  <2>1. resync' = resync
    <3>1. ~EndsResync(h)
      BY <1>7 DEF EndsResync
    <3> QED BY <3>1, HandlesView
  <2>2. Begins(Path("server"), Path("server")') /\ Kept("client")'
    BY <1>1, <1>3, <1>7, HandlesKeeps
  <2>3. g \in 1..Len(Path("server")') /\ AnswerAt(g)'
    BY <1>2, <1>5, <2>1, <2>2, AnswerBegins
  <2> QED BY <1>3, <1>4, <1>6, <2>1, <2>2, <2>3 DEF Answered
<1>8. CASE h = "client"
  <2> DEFINE s == Path("server")
             O == Open("client")
             next == NextId("client")
  <2>1. /\ s[g].kind = "ack" /\ s[g].responding_to = resync /\ s[g].ack_id = None
        /\ Acks(O, next, s, g - 1)
    BY <1>2 DEF AnswerAt
  <2>2. /\ s \in Seq(Message) /\ s # <<>> /\ Path("server")' = Tail(s) /\ m = s[1] /\ m \in Message
    BY <1>1, <1>8, HandlesView, Views DEF Arrives
  <2>3. Later(O, next, O', next')
    BY <1>1, <1>5
  <2> HIDE DEF s, O, next
  <2>4. /\ Len(s) \in Nat /\ Tail(s) \in Seq(Message) /\ Len(Tail(s)) = Len(s) - 1
        /\ \A i \in 1..(Len(s) - 1) : Tail(s)[i] = s[i + 1]
    BY <2>2
  <2>5. g \in 1..Len(s)
    BY DEF s
  <2>6. CASE g # 1
    <3>1. /\ 1 \in 1..(g - 1) /\ (g - 1) - 1 \in Nat /\ g - 1 \in Nat
          /\ ((g - 1) - 1) + 1 <= g - 1
          /\ g - 1 \in 1..(Len(s) - 1) /\ (g - 1) + 1 = g
          /\ g - 1 \in 1..Len(Tail(s))
          /\ \A i \in 1..((g - 1) - 1) : Tail(s)[i] = s[i + 1]
      BY <2>4, <2>5, <2>6
    <3>2. m.kind = "data" /\ Safe(O, next, m.ack_id)
      BY <2>1, <2>2, <3>1 DEF Acks
    <3>3. Acks(O, next, Tail(s), (g - 1) - 1)
      BY <2>1, <3>1, AcksSuffix
    <3>4. Acks(O', next', Tail(s), (g - 1) - 1)
      BY <2>3, <3>1, <3>3, AcksLater
    <3>5. Tail(s)[g - 1] = s[g]
      BY <2>4, <3>1
    <3>6. resync' = resync
      BY <3>2, HandlesData
    <3>7. Kept("client")'
      BY <1>1, <1>3, <1>8, <3>2, HandlesKeeps DEF O, next
    <3>8. g - 1 \in 1..Len(Path("server")') /\ AnswerAt(g - 1)'
      <4>1. /\ Tail(s)[g - 1].kind = "ack" /\ Tail(s)[g - 1].responding_to = resync'
            /\ Tail(s)[g - 1].ack_id = None
        BY <2>1, <3>5, <3>6
      <4>2. Tail(s) = Path("server")' /\ g - 1 \in 1..Len(Tail(s))
        BY <2>2, <3>1
      <4>3. Acks(Open("client")', NextId("client")', Path("server")', (g - 1) - 1)
        BY <3>4, <4>2 DEF O, next
      <4> QED BY <4>1, <4>2, <4>3 DEF AnswerAt
    <3> QED BY <1>3, <1>4, <1>6, <3>6, <3>7, <3>8 DEF Answered
  <2>7. CASE g = 1
    <3>1. m.kind = "ack" /\ m.responding_to = resync /\ m.ack_id = None
      BY <2>1, <2>2, <2>7
    <3>2. EndsResync(h)
      BY <1>8, <3>1 DEF EndsResync
    <3>3. Kept("client")'
      BY <1>1, <1>3, <1>8, <3>1, HandlesKeeps
    <3> DEFINE c == chan["client"]
               b == Handling("client").chan.buffer
               t == Path("client")
    <3>4. c \in ChannelClient /\ c.buffer \in Seq(Message) /\ t \in Seq(Message)
      BY <1>1, Views
    <3>5. Rest(c.buffer, b) /\ Handling("client").answer = <<>>
      BY <1>8, <2>2, <3>1, <3>4, HandleFacts DEF Handling
    <3>6. /\ Path("client")' = t \o b /\ chan'["client"].buffer = b /\ resync' = None
          /\ b \in Seq(Message)
      <4>1. Answer("client") = Handling("client").answer \o b
        BY <1>8, <3>2 DEF Answer
      <4>2. b \in Seq(Message)
        BY <3>5 DEF Rest
      <4> HIDE DEF b
      <4>3. <<>> \o b = b
        BY <4>2
      <4>4. Answer("client") = b
        BY <3>5, <4>1, <4>3
      <4> QED BY <1>8, <3>2, <4>2, <4>4, HandlesView DEF b
    <3>7. \A i \in DOMAIN b : b[i].kind = "data"
      BY <1>1, <3>4, <3>5, RestFacts DEF OnlyData
    <3> HIDE DEF b, c, t
    <3>8. Carried("client")'
      <4>1. Open("client")' \subseteq Ids(b)
        BY <3>3, <3>6 DEF Kept
      <4>2. Ids(b) \subseteq DataIds(b)
        BY <3>7, DataIdsBuffer
      <4>3. DataIds(b) \subseteq DataIds(t \o b)
        BY <3>4, <3>6, DataIdsConcat
      <4> QED BY <3>6, <4>1, <4>2, <4>3 DEF Carried
    <3>9. \A e \in Ends : Carried(e)'
      BY <1>6, <3>8 DEF Ends
    <3> QED BY <1>3, <1>4, <3>6, <3>9 DEF Resynced
  <2> QED BY <2>6, <2>7
<1> QED BY <1>7, <1>8 DEF Ends

\* The connection is lost: what the server had read is due as it was, and both
\* ends keep what is open.
LEMMA FirstDrops ==
    ASSUME TypeOK, First, Drop
    PROVE  Lost'
<1>1. "client" \in Ends /\ "server" \in Ends /\ Peer("client") = "server" /\ Peer("server") = "client"
  BY DEF Ends, Peer
<1>2. /\ up \in Seq(Message) /\ inbox \in Seq(Message) /\ out \in Seq(Message) /\ down \in Seq(Message)
  BY DEF TypeOK
<1>3. /\ link' = "broken" /\ up' = <<>> /\ down' = <<>> /\ inbox' = inbox /\ out' = out
      /\ chan' = chan /\ sent' = sent
  BY DEF Drop
<1>4. /\ Path("client") = inbox \o up /\ Path("server") = down \o out
      /\ Path("client")' = inbox /\ Path("server")' = out
  BY <1>2, <1>3 DEF Path
<1>5. \A e \in Ends : /\ Open(e)' = Open(e) /\ NextId(e)' = NextId(e) /\ Received(e)' = Received(e)
                      /\ chan'[e] = chan[e] /\ Kept(e)' = Kept(e)
  BY <1>3 DEF Open, HandledBy, NextId, Received, Kept
<1>6. \A e \in Ends : Kept(e) /\ AllSafe(e) /\ AllDue(e)
  BY DEF First
<1>7. AllDue("client")'
  <2>1. Due(Open("client"), NextId("client"), inbox \o up, Len(inbox \o up))
    BY <1>1, <1>4, <1>6 DEF AllDue
  <2>2. /\ Len(inbox \o up) \in Nat /\ Len(inbox) \in 0..Len(inbox \o up)
        /\ \A i \in 1..Len(inbox) : inbox[i] = (inbox \o up)[i]
    BY <1>2
  <2>3. Due(Open("client"), NextId("client"), inbox, Len(inbox))
    BY <2>1, <2>2, DuePrefix
  <2> QED BY <1>1, <1>4, <1>5, <2>3 DEF AllDue
<1>8. AllSafe("server")'
  <2>1. /\ Acks(Open("server"), NextId("server"), inbox \o up, Len(inbox \o up))
        /\ Acks(Open("server"), NextId("server"), chan["client"].buffer, Len(chan["client"].buffer))
        /\ Safe(Open("server"), NextId("server"), Received("server"))
    BY <1>1, <1>4, <1>6 DEF AllSafe
  <2>2. /\ Len(inbox \o up) \in Nat /\ Len(inbox) \in 0..Len(inbox \o up)
        /\ \A i \in 1..Len(inbox) : inbox[i] = (inbox \o up)[i]
    BY <1>2
  <2>3. Acks(Open("server"), NextId("server"), inbox, Len(inbox))
    BY <2>1, <2>2, AcksPrefix
  <2> QED BY <1>1, <1>4, <1>5, <2>1, <2>3 DEF AllSafe
<1>9. AllSafe("client")'
  <2>1. /\ Acks(Open("client"), NextId("client"), down \o out, Len(down \o out))
        /\ Acks(Open("client"), NextId("client"), chan["server"].buffer, Len(chan["server"].buffer))
        /\ Safe(Open("client"), NextId("client"), Received("client"))
    BY <1>1, <1>4, <1>6 DEF AllSafe
  <2>2. /\ Len(down \o out) \in Nat /\ Len(out) \in Nat /\ Len(down) \in Nat
        /\ Len(out) + Len(down) <= Len(down \o out)
        /\ \A i \in 1..Len(out) : out[i] = (down \o out)[i + Len(down)]
    BY <1>2
  <2>3. Acks(Open("client"), NextId("client"), out, Len(out))
    BY <2>1, <2>2, AcksSuffix
  <2> QED BY <1>1, <1>4, <1>5, <2>1, <2>3 DEF AllSafe
<1>10. \A e \in Ends : Kept(e)' /\ AllSafe(e)'
  BY <1>5, <1>6, <1>8, <1>9 DEF Ends
<1> QED BY <1>3, <1>7, <1>10 DEF Lost

\* Without a connection: what the server writes is lost, the loss is noticed,
\* and the client connects again and asks for the buffer.
LEMMA LostSteps ==
    ASSUME TypeOK, Quiet, Lost, ServerWrites \/ ServerNotices \/ Reconnect
    PROVE  Lost' \/ Asked'
<1>1. "client" \in Ends /\ "server" \in Ends /\ Peer("client") = "server" /\ Peer("server") = "client"
  BY DEF Ends, Peer
<1>2. /\ up = <<>> /\ down = <<>> /\ link # "up" /\ inbox \in Seq(Message) /\ out \in Seq(Message)
  BY DEF Lost, Quiet, TypeOK
<1>3. Path("client") = inbox /\ Path("server") = out
  BY <1>2 DEF Path
<1>4. AllDue("client") /\ \A e \in Ends : Kept(e) /\ AllSafe(e)
  BY DEF Lost
<1>5. CASE ServerWrites
  <2>1. /\ out # <<>> /\ out' = Tail(out) /\ down' = down
        /\ UNCHANGED <<chan, resync, link, up, inbox, sent>>
    BY <1>2, <1>5 DEF ServerWrites
  <2>2. Path("client")' = inbox /\ Path("server")' = Tail(out)
    BY <1>2, <2>1 DEF Path
  <2>3. \A e \in Ends : /\ Open(e)' = Open(e) /\ NextId(e)' = NextId(e) /\ Received(e)' = Received(e)
                        /\ chan'[e] = chan[e] /\ Kept(e)' = Kept(e)
    BY <2>1 DEF Open, HandledBy, NextId, Received, Kept
  <2>4. AllDue("client")' /\ AllSafe("server")'
    BY <1>1, <1>3, <1>4, <2>2, <2>3 DEF AllDue, AllSafe
  <2>5. AllSafe("client")'
    <3>1. /\ Acks(Open("client"), NextId("client"), out, Len(out))
          /\ Acks(Open("client"), NextId("client"), chan["server"].buffer, Len(chan["server"].buffer))
          /\ Safe(Open("client"), NextId("client"), Received("client"))
      BY <1>1, <1>3, <1>4 DEF AllSafe
    <3>2. /\ Len(out) \in Nat /\ Len(Tail(out)) \in Nat /\ 1 \in Nat /\ Len(Tail(out)) + 1 <= Len(out)
          /\ \A i \in 1..Len(Tail(out)) : Tail(out)[i] = out[i + 1]
      BY <1>2, <2>1
    <3>3. Acks(Open("client"), NextId("client"), Tail(out), Len(Tail(out)))
      BY <3>1, <3>2, AcksSuffix
    <3> QED BY <1>1, <2>2, <2>3, <3>1, <3>3 DEF AllSafe
  <2>6. \A e \in Ends : Kept(e)' /\ AllSafe(e)'
    BY <1>4, <2>3, <2>4, <2>5 DEF Ends
  <2> QED BY <1>2, <2>1, <2>4, <2>6 DEF Lost
<1>6. CASE ServerNotices
  <2>1. /\ link' = "down" /\ UNCHANGED <<chan, resync, up, inbox, out, down, sent>>
    BY <1>6 DEF ServerNotices
  <2>2. \A e \in Ends : Path(e)' = Path(e) /\ chan'[e] = chan[e] /\ Peer(e) \in Ends
    BY <2>1, TwoEnds DEF Path
  <2>3. \A e \in Ends : /\ Open(e)' = Open(e) /\ NextId(e)' = NextId(e) /\ Received(e)' = Received(e)
    BY <2>1 DEF Open, HandledBy, NextId, Received
  <2>4. \A e \in Ends : Kept(e)' = Kept(e) /\ AllDue(e)' = AllDue(e) /\ AllSafe(e)' = AllSafe(e)
    BY <2>2, <2>3 DEF Kept, AllDue, AllSafe
  <2> QED BY <1>1, <1>4, <2>1, <2>4 DEF Lost
<1>7. CASE Reconnect
  <2>1. /\ link' = "up" /\ resync' \in Nat
        /\ up' \in Seq(Message) /\ Len(up') = 2
        /\ up'[1].kind = "flush" /\ up'[1].id = resync' /\ up'[1].ack_id = Received("server")
        /\ chan'["client"].next_message_id = NextId("client") + 1
        /\ chan'["client"].buffer = chan["client"].buffer
        /\ chan'["client"].max_received = chan["client"].max_received
        /\ chan'["client"].handled = chan["client"].handled
        /\ chan'["server"] = chan["server"]
        /\ UNCHANGED <<inbox, out, down, sent>>
    BY <1>7, ReconnectView
  <2>2. /\ Open("client")' = Open("client") /\ NextId("client")' = NextId("client") + 1
        /\ Received("client")' = Received("client")
        /\ Open("server")' = Open("server") /\ NextId("server")' = NextId("server")
    BY <1>1, <2>1 DEF Open, HandledBy, NextId, Received
  <2>3. Open("client") \subseteq Nat /\ NextId("client") \in Nat /\ chan["server"].buffer \in Seq(Message)
    BY <1>1, Views
  <2>4. Later(Open("client"), NextId("client"), Open("client")', NextId("client")')
    BY <2>2, <2>3 DEF Later
  <2>5. Path("client")' = inbox \o up' /\ Path("server")' = out
    BY <1>2, <2>1 DEF Path
  <2>6. Kept("client")' /\ Kept("server")'
    BY <1>1, <1>4, <2>1, <2>2 DEF Kept
  <2>7. AllSafe("client")'
    <3>1. /\ Acks(Open("client"), NextId("client"), out, Len(out))
          /\ Acks(Open("client"), NextId("client"), chan["server"].buffer, Len(chan["server"].buffer))
          /\ Safe(Open("client"), NextId("client"), Received("client"))
      BY <1>1, <1>3, <1>4 DEF AllSafe
    <3>2. Len(out) \in Nat /\ Len(chan["server"].buffer) \in Nat
      BY <1>2, <2>3
    <3>3. /\ Acks(Open("client")', NextId("client")', out, Len(out))
          /\ Acks(Open("client")', NextId("client")', chan["server"].buffer, Len(chan["server"].buffer))
          /\ Safe(Open("client")', NextId("client")', Received("client"))
      BY <2>4, <3>1, <3>2, SafeLater, AcksLater
    <3> QED BY <1>1, <2>1, <2>2, <2>5, <3>3 DEF AllSafe
  <2> DEFINE s2 == Path("client")'
  <2>8. PICK f \in Nat : f = Len(inbox) + 1
    BY <1>2
  <2>9. /\ s2 \in Seq(Message) /\ f \in 1..Len(s2) /\ s2[f] = up'[1] /\ f - 1 = Len(inbox)
        /\ Len(inbox) \in Nat /\ Len(inbox) \in 0..Len(inbox) /\ Len(inbox) \in 0..Len(s2)
        /\ \A i \in 1..Len(inbox) : s2[i] = inbox[i]
    <3> DEFINE w == up'
    <3>1. w \in Seq(Message) /\ Len(w) = 2 /\ s2 = inbox \o w
      BY <2>1, <2>5
    <3> HIDE DEF w, s2
    <3>2. Begins(inbox, inbox \o w)
      BY <1>2, <3>1, BeginsConcat
    <3>3. /\ s2 \in Seq(Message) /\ Len(inbox) \in Nat
          /\ \A i \in 1..Len(inbox) : s2[i] = inbox[i]
      BY <1>2, <3>1, <3>2 DEF Begins
    <3>4. Len(s2) = Len(inbox) + 2 /\ s2[Len(inbox) + 1] = w[1]
      <4>1. Len(inbox \o w) = Len(inbox) + Len(w)
        BY <1>2, <3>1, ConcatProperties
      <4>2. Len(inbox) + 1 \in 1..(Len(inbox) + Len(w)) /\ ~(Len(inbox) + 1 <= Len(inbox))
            /\ Len(inbox) + 1 - Len(inbox) = 1
        BY <3>1, <3>3
      <4>3. (inbox \o w)[Len(inbox) + 1] = w[Len(inbox) + 1 - Len(inbox)]
        BY <1>2, <3>1, <4>2, ConcatProperties
      <4> QED BY <3>1, <4>1, <4>2, <4>3
    <3> QED BY <2>8, <3>3, <3>4 DEF w
  <2> HIDE DEF s2
  <2>10. Due(Open("client")', NextId("client")', s2, f - 1)
    <3>1. Due(Open("client"), NextId("client"), inbox, Len(inbox))
      BY <1>3, <1>4 DEF AllDue
    <3>2. Due(Open("client"), NextId("client"), s2, Len(inbox))
      BY <2>9, <3>1, DuePrefix
    <3>3. Due(Open("client")', NextId("client")', s2, Len(inbox))
      BY <2>4, <2>9, <3>2, DueLater
    <3> QED BY <2>9, <3>3
  <2>11. Acks(Open("server")', NextId("server")', s2, f - 1)
    <3>1. Acks(Open("server"), NextId("server"), inbox, Len(inbox))
      BY <1>1, <1>3, <1>4 DEF AllSafe
    <3>2. Acks(Open("server"), NextId("server"), s2, Len(inbox))
      BY <2>9, <3>1, AcksPrefix
    <3> QED BY <2>2, <2>9, <3>2
  <2>12. Safe(Open("server")', NextId("server")', s2[f].ack_id)
    BY <1>1, <1>4, <2>1, <2>2, <2>9 DEF AllSafe
  <2>13. f \in 1..Len(Path("client")') /\ FlushAt(f)'
    <3>1. s2[f].kind = "flush" /\ s2[f].id = resync'
      BY <2>1, <2>9
    <3> QED BY <2>9, <2>10, <2>11, <2>12, <3>1 DEF FlushAt, s2
  <2>14. \A e \in Ends : Kept(e)'
    BY <2>6 DEF Ends
  <2> QED BY <2>1, <2>7, <2>13, <2>14 DEF Asked
<1> QED BY <1>5, <1>6, <1>7

-----------------------------------------------------------------------------
(* Before a connection is lost *)

\* Whatever threads send: what is open is about to be sent, or is on its way.
LEMMA EarlyNext == Base /\ Early /\ [Next]_vars => Early'
<1> SUFFICES ASSUME Base, Early, [Next]_vars, drops' = 0
             PROVE  /\ link' = "up"
                    /\ \A e \in Ends : Open(e)' \subseteq Sending(e)' \cup DataIds(Path(e))'
  BY DEF Early
<1>1. TypeOK /\ drops \in Nat
  BY DEF Base, TypeOK
<1>2. drops = 0
  <2>1. drops' = drops \/ drops' = drops + 1
    BY DEF Next, Tasks, Send, TakeId, BufferTaken, SendPushed, ClientHandles, ServerHandles,
           ServerReads, ServerWrites, Drop, ServerNotices, Reconnect, vars
  <2> QED BY <1>1, <2>1
<1>3. link = "up" /\ \A e \in Ends : Open(e) \subseteq Sending(e) \cup DataIds(Path(e))
  BY <1>2 DEF Early
<1>4. ~Drop /\ ~ServerNotices /\ ~Reconnect
  BY <1>1, <1>2, <1>3 DEF Drop, ServerNotices, Reconnect
<1>5. \A e \in Ends : Path(e) \in Seq(Message)
  BY <1>1, Views
<1>6. ASSUME NEW end \in Ends, Send(end)
      PROVE  /\ link' = "up"
             /\ \A e \in Ends : Open(e)' \subseteq Sending(e)' \cup DataIds(Path(e))'
  <2> DEFINE p == Peer(end)
             d == Sent(end)
  <2>1. /\ d \in Message /\ d.kind = "data" /\ d.id = NextId(end)
        /\ chan'[end].taken = chan[end].taken /\ chan'[end].pushed = chan[end].pushed
        /\ chan'[p] = chan[p]
        /\ Path(end)' = Path(end) \o (IF Reaches(end) THEN <<d>> ELSE <<>>) /\ Path(p)' = Path(p)
    BY <1>1, <1>6, SendView
  <2>2. Open(end)' \subseteq Open(end) \cup {NextId(end)} /\ Open(p)' = Open(p)
    BY <1>1, <1>6, SendOpen
  <2> HIDE DEF p, d
  <2>3. Path(end)' = Path(end) \o <<d>>
    BY <1>3, <2>1 DEF Reaches
  <2>4. DataIds(Path(end)) \cup {d.id} \subseteq DataIds(Path(end) \o <<d>>)
    <3>1. DataIds(Path(end)) \cup DataIds(<<d>>) \subseteq DataIds(Path(end) \o <<d>>)
      <4>1. <<d>> \in Seq(Message)
        BY <2>1
      <4> QED BY <1>5, <4>1, DataIdsConcat
    <3>2. 1 \in DOMAIN <<d>> /\ <<d>>[1] = d
      OBVIOUS
    <3>3. d.id \in DataIds(<<d>>)
      BY <2>1, <3>2 DEF DataIds
    <3> QED BY <3>1, <3>3
  <2>5. Sending(end)' = Sending(end) /\ Sending(p)' = Sending(p)
    BY <2>1 DEF Sending
  <2>6. Open(end)' \subseteq Sending(end)' \cup DataIds(Path(end)')
    BY <1>3, <2>1, <2>2, <2>3, <2>4, <2>5
  <2>7. Open(p)' \subseteq Sending(p)' \cup DataIds(Path(p)')
    BY <1>3, <2>1, <2>2, <2>5, TwoEnds DEF p
  <2>8. link' = link
    BY <1>6 DEF Send
  <2>9. \A e \in Ends : e = end \/ e = p
    BY TwoEnds DEF p
  <2> QED BY <1>3, <2>6, <2>7, <2>8, <2>9
<1>7. ASSUME NEW end \in Ends, TakeId(end)
      PROVE  /\ link' = "up"
             /\ \A e \in Ends : Open(e)' \subseteq Sending(e)' \cup DataIds(Path(e))'
  <2> DEFINE p == Peer(end)
  <2>1. /\ chan'[p] = chan[p] /\ chan'[end].taken = chan[end].taken \cup {NextId(end)}
        /\ chan'[end].pushed = chan[end].pushed /\ chan'[end].handled = chan[end].handled
        /\ sent'[end] = sent[end] \cup {NextId(end)} /\ sent'[p] = sent[p]
    BY <1>1, <1>7, TakeIdView
  <2>2. UNCHANGED wires
    BY <1>7 DEF TakeId
  <2>3. \A e \in Ends : Path(e)' = Path(e)
    BY <2>2 DEF wires, Path
  <2>4. p \in Ends /\ Peer(p) = end /\ \A e \in Ends : e = end \/ e = p
    BY TwoEnds
  <2> HIDE DEF p
  <2>5. HandledBy(end)' = HandledBy(end) /\ HandledBy(p)' = HandledBy(p)
    BY <2>1 DEF HandledBy
  <2>6. Open(end)' \subseteq Open(end) \cup {NextId(end)} /\ Open(p)' = Open(p)
    BY <2>1, <2>4, <2>5 DEF Open, p
  <2>7. Sending(end)' = Sending(end) \cup {NextId(end)} /\ Sending(p)' = Sending(p)
    BY <2>1 DEF Sending
  <2>8. Open(end)' \subseteq Sending(end)' \cup DataIds(Path(end)')
    BY <1>3, <2>3, <2>6, <2>7
  <2>9. Open(p)' \subseteq Sending(p)' \cup DataIds(Path(p)')
    BY <1>3, <2>3, <2>4, <2>6, <2>7
  <2> QED BY <1>3, <2>2, <2>4, <2>8, <2>9 DEF wires
<1>8. ASSUME NEW end \in Ends, BufferTaken(end)
      PROVE  /\ link' = "up"
             /\ \A e \in Ends : Open(e)' \subseteq Sending(e)' \cup DataIds(Path(e))'
  <2> DEFINE p == Peer(end)
  <2>1. PICK id \in chan[end].taken, d \in Message :
           /\ d.id = id /\ chan'[p] = chan[p]
           /\ chan'[end].taken = chan[end].taken \ {id}
           /\ chan'[end].pushed = chan[end].pushed \cup {d}
           /\ chan'[end].handled = chan[end].handled
    BY <1>1, <1>8, BufferTakenView
  <2>2. UNCHANGED wires /\ sent' = sent
    BY <1>8 DEF BufferTaken
  <2>3. \A e \in Ends : Path(e)' = Path(e)
    BY <2>2 DEF wires, Path
  <2>4. p \in Ends /\ Peer(p) = end /\ \A e \in Ends : e = end \/ e = p
    BY TwoEnds
  <2> HIDE DEF p
  <2>5. HandledBy(end)' = HandledBy(end) /\ HandledBy(p)' = HandledBy(p)
    BY <2>1 DEF HandledBy
  <2>6. Open(end)' = Open(end) /\ Open(p)' = Open(p)
    BY <2>2, <2>4, <2>5 DEF Open, p
  <2>7. Sending(end) \subseteq Sending(end)' /\ Sending(p)' = Sending(p)
    BY <2>1 DEF Sending
  <2>8. Open(end)' \subseteq Sending(end)' \cup DataIds(Path(end)')
    BY <1>3, <2>3, <2>6, <2>7
  <2>9. Open(p)' \subseteq Sending(p)' \cup DataIds(Path(p)')
    BY <1>3, <2>3, <2>4, <2>6, <2>7
  <2> QED BY <1>3, <2>2, <2>4, <2>8, <2>9 DEF wires
<1>9. ASSUME NEW end \in Ends, SendPushed(end)
      PROVE  /\ link' = "up"
             /\ \A e \in Ends : Open(e)' \subseteq Sending(e)' \cup DataIds(Path(e))'
  <2> DEFINE p == Peer(end)
  <2>1. PICK m \in chan[end].pushed :
           /\ m \in Message /\ chan'[p] = chan[p]
           /\ chan'[end].taken = chan[end].taken
           /\ chan'[end].pushed = chan[end].pushed \ {m}
           /\ chan'[end].handled = chan[end].handled
           /\ Path(end)' = Path(end) \o (IF Reaches(end) THEN <<m>> ELSE <<>>)
           /\ Path(p)' = Path(p)
    BY <1>1, <1>9, SendPushedView
  <2>2. link' = link /\ sent' = sent /\ m.kind = "data"
    BY <1>9 DEF SendPushed, Base, OnlyData
  <2>3. Path(end)' = Path(end) \o <<m>>
    BY <1>3, <2>1 DEF Reaches
  <2>4. p \in Ends /\ Peer(p) = end /\ \A e \in Ends : e = end \/ e = p
    BY TwoEnds
  <2> HIDE DEF p
  <2>5. HandledBy(end)' = HandledBy(end) /\ HandledBy(p)' = HandledBy(p)
    BY <2>1 DEF HandledBy
  <2>6. Open(end)' = Open(end) /\ Open(p)' = Open(p)
    BY <2>2, <2>4, <2>5 DEF Open, p
  <2>7. DataIds(Path(end)) \cup {m.id} \subseteq DataIds(Path(end) \o <<m>>)
    <3>1. DataIds(Path(end)) \cup DataIds(<<m>>) \subseteq DataIds(Path(end) \o <<m>>)
      <4>1. <<m>> \in Seq(Message)
        BY <2>1
      <4> QED BY <1>5, <4>1, DataIdsConcat
    <3>2. 1 \in DOMAIN <<m>> /\ <<m>>[1] = m
      OBVIOUS
    <3>3. m.id \in DataIds(<<m>>)
      BY <2>2, <3>2 DEF DataIds
    <3> QED BY <3>1, <3>3
  <2>8. Sending(end) \subseteq Sending(end)' \cup {m.id} /\ Sending(p)' = Sending(p)
    BY <2>1 DEF Sending
  <2>9. Open(end)' \subseteq Sending(end)' \cup DataIds(Path(end)')
    BY <1>3, <2>3, <2>6, <2>7, <2>8
  <2>10. Open(p)' \subseteq Sending(p)' \cup DataIds(Path(p)')
    BY <1>3, <2>1, <2>4, <2>6, <2>8
  <2> QED BY <1>3, <2>2, <2>4, <2>9, <2>10
<1>10. ASSUME NEW h \in Ends, Handles(h)
       PROVE  /\ link' = "up"
              /\ \A e \in Ends : Open(e)' \subseteq Sending(e)' \cup DataIds(Path(e))'
  <2> DEFINE p == Peer(h)
             m == Arrives(h)
  <2>1. /\ Path(p) # <<>> /\ m \in Message /\ Answer(h) \in Seq(Message)
        /\ Path(p)' = Tail(Path(p)) /\ Path(h)' = Path(h) \o Answer(h)
        /\ chan'[h] = Handling(h).chan /\ chan'[p] = chan[p] /\ link' = link
    BY <1>1, <1>10, HandlesView
  <2>2. /\ Open(h)' = Open(h)
        /\ Open(p)' = IF m.kind = "data" THEN Open(p) \ {m.id} ELSE Open(p)
    BY <1>1, <1>10, HandlesOpen
  <2>3. p \in Ends /\ \A e \in Ends : e = h \/ e = p
    BY TwoEnds
  <2>4. chan'[h].taken = chan[h].taken /\ chan'[h].pushed = chan[h].pushed
    <3>1. chan[h] \in ChannelClient
      BY <1>1, Views
    <3> QED BY <2>1, <3>1, HandleFacts DEF Handling
  <2>5. m = Path(p)[1]
    BY DEF Arrives
  <2> HIDE DEF p, m
  <2>6. Sending(h)' = Sending(h) /\ Sending(p)' = Sending(p)
    BY <2>1, <2>4 DEF Sending
  <2>7. DataIds(Path(h)) \subseteq DataIds(Path(h) \o Answer(h))
    BY <1>5, <2>1, DataIdsConcat
  <2>8. \A k \in DataIds(Path(p)) : k \in DataIds(Tail(Path(p))) \/ (m.kind = "data" /\ k = m.id)
    BY <1>5, <2>1, <2>3, <2>5, DataIdsTail
  <2>9. Open(h)' \subseteq Sending(h)' \cup DataIds(Path(h)')
    BY <1>3, <2>1, <2>2, <2>6, <2>7
  <2>10. Open(p)' \subseteq Sending(p)' \cup DataIds(Path(p)')
    BY <1>3, <2>1, <2>2, <2>3, <2>6, <2>8
  <2> QED BY <1>3, <2>1, <2>3, <2>9, <2>10
<1>11. ASSUME ServerReads \/ ServerWrites \/ UNCHANGED vars
       PROVE  /\ link' = "up"
              /\ \A e \in Ends : Open(e)' \subseteq Sending(e)' \cup DataIds(Path(e))'
  <2>1. /\ Path("client")' = Path("client") /\ Path("server")' = Path("server")
        /\ UNCHANGED <<chan, link, sent>>
    <3>1. CASE ServerReads \/ ServerWrites
      BY <1>1, <1>3, <3>1, LoopView
    <3>2. CASE UNCHANGED vars
      BY <3>2 DEF vars, wires, Path
    <3> QED BY <1>11, <3>1, <3>2
  <2>2. \A e \in Ends : Path(e)' = Path(e)
    BY <2>1 DEF Ends
  <2>3. \A e \in Ends : Open(e)' = Open(e) /\ Sending(e)' = Sending(e)
    BY <2>1 DEF Open, HandledBy, Sending
  <2> QED BY <1>3, <2>1, <2>2, <2>3
<1>12. ClientHandles \/ ServerHandles => \E h \in Ends : Handles(h)
  BY DEF Handles, Ends
<1>13. \/ \E end \in Ends : Send(end) \/ TakeId(end) \/ BufferTaken(end) \/ SendPushed(end)
       \/ \E h \in Ends : Handles(h)
       \/ ServerReads \/ ServerWrites \/ UNCHANGED vars
  BY <1>4, <1>12 DEF Next, Tasks
<1>14. CASE \E end \in Ends : Send(end) \/ TakeId(end) \/ BufferTaken(end) \/ SendPushed(end)
  BY <1>6, <1>7, <1>8, <1>9, <1>14
<1>15. CASE \E h \in Ends : Handles(h)
  BY <1>10, <1>15
<1>16. CASE ServerReads \/ ServerWrites \/ UNCHANGED vars
  BY <1>11, <1>16
<1> QED BY <1>13, <1>14, <1>15, <1>16

-----------------------------------------------------------------------------
(* Theorems *)

\* The first connection, with nothing sent.
LEMMA InitInv == Init => IInv
<1> SUFFICES ASSUME Init PROVE IInv
  OBVIOUS
<1>1. Base
  BY BaseInit
<1>2. /\ link = "up" /\ resync = None /\ drops = 0
      /\ \A e \in Ends : sent[e] = {}
      /\ up = <<>> /\ inbox = <<>> /\ out = <<>> /\ down = <<>>
  BY DEF Init
<1>3. \A e \in Ends : /\ chan[e].next_message_id = 1 /\ chan[e].buffer = <<>>
                      /\ chan[e].max_received = 0
  BY DEF Init
<1>4. \A e \in Ends : Path(e) = <<>>
  BY <1>2 DEF Path
<1>5. \A e \in Ends : Open(e) = {} /\ NextId(e) = 1 /\ Received(e) = 0 /\ chan[Peer(e)].buffer = <<>>
  BY <1>2, <1>3, TwoEnds DEF Open, NextId, Received
<1>6. \A e \in Ends : Kept(e) /\ Carried(e)
  BY <1>5 DEF Kept, Carried
<1>7. \A e \in Ends : AllDue(e)
  BY <1>4 DEF AllDue, Due
<1>8. \A e \in Ends : AllSafe(e)
  BY <1>4, <1>5, TwoEnds DEF AllSafe, Acks, Safe
<1>9. First
  BY <1>2, <1>6, <1>7, <1>8 DEF First
<1>10. Early
  BY <1>2, <1>5 DEF Early
<1> QED BY <1>1, <1>2, <1>9, <1>10 DEF IInv

\* Every step stays in its stage or goes to the next one.
LEMMA NextInv == IInv /\ [Next]_vars => IInv'
<1> SUFFICES ASSUME IInv, [Next]_vars PROVE IInv'
  OBVIOUS
<1>1. Base' /\ Early'
  BY BaseNext, EarlyNext DEF IInv
<1> DEFINE Second == Lost \/ Asked \/ Answered \/ Resynced
<1> SUFFICES ASSUME setting'.background = {}
             PROVE  (drops' = 0 => First') /\ (drops' = 1 => Second')
  BY <1>1 DEF IInv
<1>2. TypeOK /\ Quiet /\ Threads /\ OnlyData /\ drops \in Nat
  BY DEF IInv, Base, TypeOK
<1>3. setting' = setting
  BY DEF Next, Tasks, Send, TakeId, BufferTaken, SendPushed, ClientHandles, ServerHandles,
         ServerReads, ServerWrites, Drop, ServerNotices, Reconnect, vars
<1>4. (drops = 0 => First) /\ (drops = 1 => Second)
  BY <1>3 DEF IInv
<1>5. \A e \in Ends : ~TakeId(e) /\ ~BufferTaken(e) /\ ~SendPushed(e)
  BY <1>2, <1>3 DEF TakeId, BufferTaken, SendPushed, Threads
<1>6. First => link = "up"
  BY DEF First
<1>7. Asked \/ Answered \/ Resynced => link = "up"
  BY DEF Asked, Answered, Resynced
<1> HIDE DEF Second
<1>8. ASSUME NEW end \in Ends, Send(end) PROVE (drops' = 0 => First') /\ (drops' = 1 => Second')
  <2>1. drops' = drops
    BY <1>8 DEF Send
  <2>2. (First => First') /\ (Second => Second')
    BY <1>2, <1>8, SendStage DEF Second
  <2> QED BY <1>4, <2>1, <2>2
<1>9. ASSUME NEW h \in Ends, Handles(h) PROVE (drops' = 0 => First') /\ (drops' = 1 => Second')
  <2>1. drops' = drops
    BY <1>2, <1>9, HandlesView
  <2>2. First => First'
    BY <1>2, <1>9, FirstHandles
  <2>3. Second => Second'
    BY <1>2, <1>9, FirstHandles, AskedHandles, AnsweredHandles DEF Second
  <2> QED BY <1>4, <2>1, <2>2, <2>3
<1>10. ASSUME ServerReads \/ ServerWrites \/ UNCHANGED vars
       PROVE  (drops' = 0 => First') /\ (drops' = 1 => Second')
  <2>1. drops' = drops
    BY <1>10 DEF ServerReads, ServerWrites, vars
  <2>2. CASE link = "up" \/ UNCHANGED vars
    <3>1. Same
      <4>1. CASE UNCHANGED vars
        BY <4>1 DEF Same, vars, wires, Path
      <4>2. CASE ~(UNCHANGED vars)
        BY <1>2, <1>10, <2>2, <4>2, LoopView DEF Same
      <4> QED BY <4>1, <4>2
    <3>2. Lost => Lost'
      <4> SUFFICES ASSUME Lost PROVE Lost'
        OBVIOUS
      <4>1. UNCHANGED vars
        BY <2>2 DEF Lost
      <4>2. \A e \in Ends : Path(e)' = Path(e) /\ Peer(e) \in Ends
        BY <4>1, TwoEnds DEF vars, wires, Path
      <4>3. \A e \in Ends : /\ Open(e)' = Open(e) /\ NextId(e)' = NextId(e)
                            /\ Received(e)' = Received(e) /\ chan'[e] = chan[e]
        BY <4>1 DEF vars, Open, HandledBy, NextId, Received
      <4>4. \A e \in Ends : Kept(e)' = Kept(e) /\ AllDue(e)' = AllDue(e) /\ AllSafe(e)' = AllSafe(e)
        BY <4>2, <4>3 DEF Kept, AllDue, AllSafe
      <4>5. link' = link /\ "client" \in Ends
        BY <4>1 DEF vars, wires, Ends
      <4> QED BY <4>4, <4>5 DEF Lost
    <3>3. (First => First') /\ (Second => Second')
      BY <1>2, <3>1, <3>2, SameStage DEF Second
    <3> QED BY <1>4, <2>1, <3>3
  <2>3. CASE link # "up" /\ ~(UNCHANGED vars)
    <3>1. ServerWrites
      BY <1>10, <2>3 DEF ServerReads
    <3>2. ~First /\ (Second => Lost)
      BY <1>6, <1>7, <2>3 DEF Second
    <3>3. Lost => Lost' \/ Asked'
      BY <1>2, <3>1, LostSteps
    <3> QED BY <1>4, <2>1, <3>2, <3>3 DEF Second
  <2> QED BY <2>2, <2>3
<1>11. ASSUME Drop PROVE (drops' = 0 => First') /\ (drops' = 1 => Second')
  <2>1. drops' = drops + 1
    BY <1>11 DEF Drop
  <2>2. First => Lost'
    BY <1>2, <1>11, FirstDrops
  <2> QED BY <1>2, <1>4, <2>1, <2>2 DEF Second
<1>12. ASSUME ServerNotices \/ Reconnect PROVE (drops' = 0 => First') /\ (drops' = 1 => Second')
  <2>1. drops' = drops /\ link # "up"
    BY <1>12 DEF ServerNotices, Reconnect
  <2>2. ~First /\ (Second => Lost)
    BY <1>6, <1>7, <2>1 DEF Second
  <2>3. Lost => Lost' \/ Asked'
    BY <1>2, <1>12, LostSteps
  <2> QED BY <1>4, <2>1, <2>2, <2>3 DEF Second
<1>13. ClientHandles \/ ServerHandles => \E h \in Ends : Handles(h)
  BY DEF Handles, Ends
<1>14. \/ \E end \in Ends : Send(end)
       \/ \E h \in Ends : Handles(h)
       \/ ServerReads \/ ServerWrites \/ UNCHANGED vars
       \/ Drop \/ ServerNotices \/ Reconnect
  BY <1>5, <1>13 DEF Next, Tasks
<1>15. CASE \E end \in Ends : Send(end)
  BY <1>8, <1>15
<1>16. CASE \E h \in Ends : Handles(h)
  BY <1>9, <1>16
<1>17. CASE ServerReads \/ ServerWrites \/ UNCHANGED vars
  BY <1>10, <1>17
<1>18. CASE Drop \/ ServerNotices \/ Reconnect
  BY <1>11, <1>12, <1>18
<1> QED BY <1>14, <1>15, <1>16, <1>17, <1>18

\* The invariant is inductive.
THEOREM Invariance == Spec => []IInv
<1>1. Init => IInv
  BY InitInv
<1>2. IInv /\ [Next]_vars => IInv'
  BY NextInv
<1> QED BY <1>1, <1>2, PTL DEF Spec

\* The connections that may be lost: none, or one where each end sends from its
\* foreground thread.
Covered == drops = 0 \/ (setting.background = {} /\ drops = 1)

\* What is carried, or about to be sent, is in transit.
LEMMA CarriedInTransit ==
    ASSUME TypeOK, NEW end \in Ends
    PROVE  Sending(end) \cup DataIds(Path(end)) \subseteq InTransit(end)
<1>1. up \in Seq(Message) /\ inbox \in Seq(Message) /\ out \in Seq(Message) /\ down \in Seq(Message)
  BY DEF TypeOK
<1>2. ASSUME NEW s \in Seq(Message), NEW t \in Seq(Message)
      PROVE  DataIds(s \o t) \subseteq Ids(s) \cup Ids(t)
  <2> DEFINE u == s \o t
  <2>1. /\ Len(u) = Len(s) + Len(t) /\ Len(s) \in Nat /\ Len(t) \in Nat
        /\ \A i \in 1..Len(s) : u[i] = s[i]
        /\ \A i \in (Len(s) + 1)..(Len(s) + Len(t)) : u[i] = t[i - Len(s)]
        /\ DOMAIN s = 1..Len(s) /\ DOMAIN t = 1..Len(t) /\ DOMAIN u = 1..Len(u)
    OBVIOUS
  <2> HIDE DEF u
  <2>2. ASSUME NEW k \in DataIds(u) PROVE k \in Ids(s) \cup Ids(t)
    <3>1. PICK i \in 1..(Len(s) + Len(t)) : k = u[i].id
      BY <2>1 DEF DataIds
    <3>2. CASE i \in 1..Len(s)
      BY <2>1, <3>1, <3>2 DEF Ids
    <3>3. CASE i \notin 1..Len(s)
      <4>1. i - Len(s) \in 1..Len(t) /\ i \in (Len(s) + 1)..(Len(s) + Len(t))
        BY <2>1, <3>3
      <4>2. i - Len(s) \in DOMAIN t /\ u[i] = t[i - Len(s)]
        BY <2>1, <4>1
      <4> QED BY <3>1, <4>2 DEF Ids
    <3> QED BY <3>2, <3>3
  <2> QED BY <2>2 DEF u
<1>3. DataIds(inbox \o up) \subseteq Ids(inbox) \cup Ids(up)
  BY <1>1, <1>2
<1>4. DataIds(down \o out) \subseteq Ids(down) \cup Ids(out)
  BY <1>1, <1>2
<1>5. CASE end = "client"
  BY <1>3, <1>5 DEF Path, InTransit, Sending
<1>6. CASE end = "server"
  BY <1>4, <1>6 DEF Path, InTransit, Sending
<1> QED BY <1>5, <1>6 DEF Ends

\* Every variable keeps its type: the ends, the resync and the queues of both
\* directions, whatever is sent, dropped and sent again.
THEOREM TypeCorrect == Spec => []TypeOK
<1>1. IInv => TypeOK
  BY DEF IInv, Base
<1> QED BY <1>1, Invariance, PTL

\* No message is lost before a connection is, whatever threads send, nor over the
\* first connection lost where each end sends from its foreground thread:
\* acknowledgements pop from the buffer only what was handled, until the resync
\* sent the buffer again (send_buffered, start_handling_messages, resync).
THEOREM FirstDropLosesNothing == Spec => [](Covered => NoLoss)
<1>1. IInv => (Covered => NoLoss)
  <2> SUFFICES ASSUME IInv, Covered, NEW end \in Ends
               PROVE  Open(end) \subseteq InTransit(end) \cup Ids(chan[end].buffer)
    BY DEF NoLoss, Open
  <2>1. TypeOK
    BY DEF IInv, Base
  <2>2. Sending(end) \cup DataIds(Path(end)) \subseteq InTransit(end)
    BY <2>1, CarriedInTransit
  <2>3. CASE drops = 0
    BY <2>2, <2>3 DEF IInv, Early
  <2>4. CASE setting.background = {} /\ drops = 1
    <3>1. Lost \/ Asked \/ Answered \/ Resynced
      BY <2>4 DEF IInv
    <3>2. Kept(end) \/ Carried(end)
      BY <3>1 DEF Lost, Asked, Answered, Resynced, Ends
    <3> QED BY <2>2, <3>2 DEF Kept, Carried
  <2> QED BY <2>3, <2>4 DEF Covered
<1> QED BY <1>1, Invariance, PTL
================================================================================
