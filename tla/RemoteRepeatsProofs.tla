-------------------------- MODULE RemoteRepeatsProofs --------------------------
(***************************************************************************)
(* A message is handled again at most once for each connection lost, over  *)
(* any number of them and whatever threads send.                           *)
(*                                                                         *)
(* The invariant counts, for each id, how often the message was handled,   *)
(* is on its way and is about to be sent, and how often the buffer will be *)
(* sent again: by the server for each request to flush on its way, by the  *)
(* client for the answer it waits for, and by each for the connection that *)
(* is still to be opened.  The sum grows by one for each connection lost,  *)
(* because a buffer holds a message once.                                  *)
(***************************************************************************)
EXTENDS RemoteChannelProofs, FiniteSetTheorems

\* How many places of a sequence hold a member of S.
Places(s, S) == {i \in DOMAIN s : s[i] \in S}
Count(s, S) == Cardinality(Places(s, S))

\* The data with id k, and the requests to flush.
DataOf(k) == {m \in Message : m.kind = "data" /\ m.id = k}
Flush == {m \in Message : m.kind = "flush"}

\* What the client handles: data, and answers to its requests.
ToClient == {m \in Message : m.kind = "data" \/ (m.kind = "ack" /\ m.responding_to # None)}

PushedIds(end) == {m.id : m \in chan[end].pushed}

\* The times this end's buffer will be sent again.
Resends(end) ==
    IF end = "client" THEN IF link # "up" \/ resync # None THEN 1 ELSE 0
    ELSE Count(Path("client"), Flush) + (IF link # "up" THEN 1 ELSE 0)

\* How often the message k of this end was handled, is on its way, and is about
\* to be sent.
CopiesIn(handled, path, sending, k) ==
    Count(handled, {k}) + Count(path, DataOf(k)) + (IF k \in sending THEN 1 ELSE 0)
Copies(end, k) == CopiesIn(chan[Peer(end)].handled, Path(end), Sending(end), k)

Bounded(end) == /\ Resends(end) <= drops
                /\ \A k \in Nat : Copies(end, k) + Resends(end) <= 1 + drops

\* The ids from the next one on were not used.
Unused(end) == \A k \in Nat : NextId(end) <= k =>
                  Copies(end, k) = 0 /\ k \notin Ids(chan[end].buffer)

\* No two messages of a buffer, and no two about to be sent, have one id.
Distinct(b) == \A i, j \in DOMAIN b : b[i].id = b[j].id => i = j
Once(end) ==
    /\ Distinct(chan[end].buffer)
    /\ chan[end].taken \cap (Ids(chan[end].buffer) \cup PushedIds(end)) = {}
    /\ \A m, n \in chan[end].pushed : m.id = n.id => m = n

Held == /\ Path("server") \in Seq(ToClient)
        /\ \A end \in Ends : Bounded(end) /\ Unused(end) /\ Once(end)

RInv == Base /\ Held

-----------------------------------------------------------------------------
(* Counting *)

\* A count is a number.
LEMMA CountType ==
    ASSUME NEW X, NEW s \in Seq(X), NEW S
    PROVE  IsFiniteSet(Places(s, S)) /\ Count(s, S) \in Nat
<1>1. DOMAIN s = 1..Len(s) /\ Len(s) \in Int /\ 1 \in Int
  OBVIOUS
<1>2. IsFiniteSet(1..Len(s))
  BY <1>1, FS_Interval
<1>3. Places(s, S) \in SUBSET (1..Len(s))
  BY <1>1 DEF Places
<1>4. IsFiniteSet(Places(s, S))
  BY <1>2, <1>3, FS_Subset
<1> QED BY <1>4, FS_CardinalityType DEF Count

\* Nothing to count.
LEMMA CountNone ==
    ASSUME NEW s, NEW S, \A i \in DOMAIN s : s[i] \notin S
    PROVE  Count(s, S) = 0
<1>1. Places(s, S) = {}
  BY DEF Places
<1> QED BY <1>1, FS_EmptySet DEF Count

\* At most one place holds a member of S.
LEMMA CountUnique ==
    ASSUME NEW s, NEW S, \A i, j \in DOMAIN s : s[i] \in S /\ s[j] \in S => i = j
    PROVE  Count(s, S) = 0 \/ Count(s, S) = 1
<1>1. CASE Places(s, S) = {}
  BY <1>1, FS_EmptySet DEF Count
<1>2. CASE Places(s, S) # {}
  <2>1. PICK i : i \in Places(s, S)
    BY <1>2
  <2>2. Places(s, S) = {i}
    BY <2>1 DEF Places
  <2> QED BY <2>2, FS_Singleton DEF Count
<1> QED BY <1>1, <1>2

\* A sequence of one.
LEMMA CountOne ==
    ASSUME NEW x, NEW S
    PROVE  Count(<<x>>, S) = IF x \in S THEN 1 ELSE 0
<1>1. DOMAIN <<x>> = {1} /\ <<x>>[1] = x
  OBVIOUS
<1>2. Places(<<x>>, S) = IF x \in S THEN {1} ELSE {}
  BY <1>1 DEF Places
<1> QED BY <1>2, FS_Singleton, FS_EmptySet DEF Count

\* The counts of two sequences, one after the other.
LEMMA CountConcat ==
    ASSUME NEW X, NEW s \in Seq(X), NEW t \in Seq(X), NEW S
    PROVE  Count(s \o t, S) = Count(s, S) + Count(t, S)
<1> DEFINE u == s \o t
           n == Len(s)
           A == Places(s, S)
           B == Places(t, S)
           C == {j + n : j \in B}
<1>1. /\ u \in Seq(X) /\ Len(u) = n + Len(t) /\ n \in Nat /\ Len(t) \in Nat
      /\ \A i \in 1..n : u[i] = s[i]
      /\ \A i \in 1..Len(t) : u[i + n] = t[i]
      /\ DOMAIN s = 1..n /\ DOMAIN t = 1..Len(t) /\ DOMAIN u = 1..(n + Len(t))
  OBVIOUS
<1> HIDE DEF u, n
<1>2. IsFiniteSet(A) /\ IsFiniteSet(B) /\ Count(s, S) \in Nat /\ Count(t, S) \in Nat
  BY CountType
<1>3. A \subseteq 1..n /\ B \subseteq 1..Len(t)
  BY <1>1 DEF Places
<1>4. Places(u, S) = A \cup C
  <2>1. ASSUME NEW i \in Places(u, S) PROVE i \in A \cup C
    <3>1. i \in 1..(n + Len(t)) /\ u[i] \in S
      BY <1>1 DEF Places
    <3>2. CASE i \in 1..n
      BY <1>1, <3>1, <3>2 DEF Places
    <3>3. CASE i \notin 1..n
      <4>1. i - n \in 1..Len(t) /\ (i - n) + n = i
        BY <1>1, <3>1, <3>3
      <4>2. i - n \in B
        BY <1>1, <3>1, <4>1 DEF Places
      <4> QED BY <4>1, <4>2
    <3> QED BY <3>2, <3>3
  <2>2. ASSUME NEW i \in A PROVE i \in Places(u, S)
    <3>1. i \in 1..n /\ s[i] \in S
      BY <1>1 DEF Places
    <3>2. i \in 1..(n + Len(t))
      BY <1>1, <3>1
    <3> QED BY <1>1, <3>1, <3>2 DEF Places
  <2>3. ASSUME NEW j \in B PROVE j + n \in Places(u, S)
    <3>1. j \in 1..Len(t) /\ t[j] \in S
      BY <1>1 DEF Places
    <3>2. j + n \in 1..(n + Len(t))
      BY <1>1, <3>1
    <3> QED BY <1>1, <3>1, <3>2 DEF Places
  <2> QED BY <2>1, <2>2, <2>3
<1>5. IsFiniteSet(C) /\ Cardinality(C) = Cardinality(B)
  <2> DEFINE f == [j \in B |-> j + n]
  <2>1. f \in [B -> C] /\ \A j \in B : f[j] = j + n
    OBVIOUS
  <2>2. \A i, j \in B : f[i] = f[j] => i = j
    BY <1>1, <1>3, <2>1
  <2>3. \A c \in C : \E j \in B : f[j] = c
    BY <2>1
  <2> HIDE DEF f
  <2>4. f \in Bijection(B, C)
    BY <2>1, <2>2, <2>3 DEF Bijection, Injection, Surjection, IsInjective
  <2>5. ExistsBijection(B, C)
    BY <2>4 DEF ExistsBijection
  <2> QED BY <1>2, <2>5, FS_Bijection
<1>6. A \cap C = {}
  <2> SUFFICES ASSUME NEW i \in A, i \in C PROVE FALSE
    OBVIOUS
  <2>1. PICK j \in B : i = j + n
    OBVIOUS
  <2> QED BY <1>1, <1>3, <2>1
<1>7. Cardinality(A \cup C) = Cardinality(A) + Cardinality(C) - Cardinality(A \cap C)
  BY <1>2, <1>5, FS_Union
<1>8. Cardinality(A) \in Nat /\ Cardinality(B) \in Nat
  BY <1>2 DEF Count
<1>9. Cardinality(A \cap C) = 0
  BY <1>6, FS_EmptySet
<1> HIDE DEF A, B, C
<1>10. Cardinality(A \cup C) = Cardinality(A) + Cardinality(B)
  BY <1>5, <1>7, <1>8, <1>9
<1> QED BY <1>4, <1>10 DEF Count, u, A, B

\* The last of a sequence counts, and what comes before.
LEMMA CountAppend ==
    ASSUME NEW X, NEW s \in Seq(X), NEW x \in X, NEW S
    PROVE  Count(Append(s, x), S) = Count(s, S) + (IF x \in S THEN 1 ELSE 0)
<1>1. <<x>> \in Seq(X) /\ Append(s, x) = s \o <<x>>
  OBVIOUS
<1>2. Count(s \o <<x>>, S) = Count(s, S) + Count(<<x>>, S)
  BY <1>1, CountConcat
<1>3. Count(<<x>>, S) = IF x \in S THEN 1 ELSE 0
  BY CountOne
<1> QED BY <1>1, <1>2, <1>3

\* The first of a sequence counts, and the rest does.
LEMMA CountTail ==
    ASSUME NEW X, NEW s \in Seq(X), s # <<>>, NEW S
    PROVE  /\ Tail(s) \in Seq(X) /\ s[1] \in X
           /\ Count(s, S) = Count(Tail(s), S) + (IF s[1] \in S THEN 1 ELSE 0)
<1>1. Len(s) \in Nat /\ Len(s) > 0 /\ s[1] \in X /\ Tail(s) \in Seq(X) /\ Len(Tail(s)) = Len(s) - 1
      /\ \A i \in 1..(Len(s) - 1) : Tail(s)[i] = s[i + 1]
  OBVIOUS
<1> DEFINE t == Tail(s)
           o == <<s[1]>>
<1>2. o \in Seq(X) /\ Len(o) = 1 /\ o[1] = s[1]
  BY <1>1
<1> HIDE DEF t, o
<1>3. t \in Seq(X) /\ Len(t) = Len(s) - 1 /\ \A i \in 1..(Len(s) - 1) : t[i] = s[i + 1]
  BY <1>1 DEF t
<1> DEFINE w == o \o t
<1>4. /\ w \in Seq(X) /\ Len(w) = Len(o) + Len(t)
      /\ \A i \in 1..(Len(o) + Len(t)) : w[i] = IF i <= Len(o) THEN o[i] ELSE t[i - Len(o)]
  <2>1. o \in Seq(X) /\ t \in Seq(X)
    BY <1>2, <1>3
  <2> QED BY <2>1, ConcatProperties
<1> HIDE DEF w
<1>5. ASSUME NEW i \in 1..Len(s) PROVE w[i] = s[i]
  <2>1. i \in 1..(Len(o) + Len(t))
    BY <1>1, <1>2, <1>3
  <2>2. CASE i = 1
    BY <1>2, <1>4, <2>1, <2>2
  <2>3. CASE i # 1
    <3>1. i - 1 \in 1..(Len(s) - 1) /\ (i - 1) + 1 = i /\ ~(i <= 1)
      BY <1>1, <2>3
    <3> QED BY <1>2, <1>3, <1>4, <2>1, <3>1
  <2> QED BY <2>2, <2>3
<1>6. w = s
  <2>1. Len(w) = Len(s)
    BY <1>1, <1>2, <1>3, <1>4
  <2> QED BY <1>4, <1>5, <2>1, SeqEqual
<1>7. Count(s, S) = Count(o, S) + Count(t, S)
  <2>1. Count(o \o t, S) = Count(o, S) + Count(t, S)
    BY <1>2, <1>3, CountConcat
  <2> QED BY <1>6, <2>1 DEF w
<1>8. Count(o, S) = (IF s[1] \in S THEN 1 ELSE 0)
  BY CountOne DEF o
<1>9. Count(t, S) \in Nat
  BY <1>3, CountType
<1> QED BY <1>1, <1>7, <1>8, <1>9 DEF t

-----------------------------------------------------------------------------
(* Copies and times to send again *)

\* The counts of an end are numbers.
LEMMA CopiesType ==
    ASSUME TypeOK, NEW e \in Ends
    PROVE  /\ chan[Peer(e)].handled \in Seq(Nat) /\ Path(e) \in Seq(Message)
           /\ Resends(e) \in Nat /\ \A k : Copies(e, k) \in Nat
<1>1. chan[Peer(e)] \in ChannelClient
  BY TwoEnds DEF TypeOK
<1>2. chan[Peer(e)].handled \in Seq(Nat)
  BY <1>1 DEF ChannelClient
<1>3. Path(e) \in Seq(Message) /\ Path("client") \in Seq(Message)
  BY Views DEF Ends
<1>4. \A k : Copies(e, k) \in Nat
  <2> TAKE k
  <2>1. Count(chan[Peer(e)].handled, {k}) \in Nat /\ Count(Path(e), DataOf(k)) \in Nat
    BY <1>2, <1>3, CountType
  <2> QED BY <2>1 DEF Copies, CopiesIn
<1>5. Resends(e) \in Nat
  <2>1. Count(Path("client"), Flush) \in Nat
    BY <1>3, CountType
  <2> QED BY <2>1 DEF Resends
<1> QED BY <1>2, <1>3, <1>4, <1>5

\* More messages on the way are more copies.
LEMMA CopiesMore ==
    ASSUME NEW h \in Seq(Nat), NEW p \in Seq(Message), NEW x \in Seq(Message), NEW S, NEW k
    PROVE  /\ CopiesIn(h, p \o x, S, k) = CopiesIn(h, p, S, k) + Count(x, DataOf(k))
           /\ CopiesIn(h, p, S, k) \in Nat /\ Count(x, DataOf(k)) \in Nat
           /\ CopiesIn(h, p, S, k) = 0 => k \notin S
<1>1. /\ Count(h, {k}) \in Nat /\ Count(p, DataOf(k)) \in Nat /\ Count(x, DataOf(k)) \in Nat
  BY CountType
<1>2. Count(p \o x, DataOf(k)) = Count(p, DataOf(k)) + Count(x, DataOf(k))
  BY CountConcat
<1> DEFINE s == IF k \in S THEN 1 ELSE 0
<1>3. s \in Nat /\ (s = 0 => k \notin S)
  OBVIOUS
<1>4. /\ CopiesIn(h, p, S, k) = Count(h, {k}) + Count(p, DataOf(k)) + s
      /\ CopiesIn(h, p \o x, S, k) = Count(h, {k}) + Count(p \o x, DataOf(k)) + s
  BY DEF CopiesIn
<1> HIDE DEF s
<1> QED BY <1>1, <1>2, <1>3, <1>4

\* One more is about to be sent.
LEMMA CopiesSending ==
    ASSUME NEW h \in Seq(Nat), NEW p \in Seq(Message), NEW S, NEW k
    PROVE  /\ \A T : (k \in T <=> k \in S) => CopiesIn(h, p, T, k) = CopiesIn(h, p, S, k)
           /\ \A T : CopiesIn(h, p, S, k) = 0 /\ k \in T => CopiesIn(h, p, T, k) = 1
<1>1. Count(h, {k}) \in Nat /\ Count(p, DataOf(k)) \in Nat
  BY CountType
<1>2. ASSUME NEW T, k \in T <=> k \in S PROVE CopiesIn(h, p, T, k) = CopiesIn(h, p, S, k)
  BY <1>2 DEF CopiesIn
<1>3. ASSUME NEW T, CopiesIn(h, p, S, k) = 0, k \in T PROVE CopiesIn(h, p, T, k) = 1
  <2> DEFINE s == IF k \in S THEN 1 ELSE 0
  <2>1. s \in Nat /\ Count(h, {k}) + Count(p, DataOf(k)) + s = 0
    BY <1>3 DEF CopiesIn
  <2>2. CopiesIn(h, p, T, k) = Count(h, {k}) + Count(p, DataOf(k)) + 1
    BY <1>3 DEF CopiesIn
  <2> HIDE DEF s
  <2>3. Count(h, {k}) = 0 /\ Count(p, DataOf(k)) = 0
    BY <1>1, <2>1
  <2> QED BY <2>2, <2>3
<1> QED BY <1>2, <1>3

\* What was about to be sent is on its way, or lost.
LEMMA CopiesSent ==
    ASSUME NEW h \in Seq(Nat), NEW p \in Seq(Message), NEW x \in Seq(Message), NEW S, NEW k,
           NEW k0 \in S, k # k0 => Count(x, DataOf(k)) = 0, k = k0 => Count(x, DataOf(k)) <= 1
    PROVE  /\ CopiesIn(h, p \o x, S \ {k0}, k) <= CopiesIn(h, p, S, k)
           /\ CopiesIn(h, p \o x, S \ {k0}, k) \in Nat
<1>1. /\ Count(h, {k}) \in Nat /\ Count(p, DataOf(k)) \in Nat /\ Count(x, DataOf(k)) \in Nat
  BY CountType
<1>2. Count(p \o x, DataOf(k)) = Count(p, DataOf(k)) + Count(x, DataOf(k))
  BY CountConcat
<1>3. CASE k = k0
  <2>1. /\ CopiesIn(h, p, S, k) = Count(h, {k}) + Count(p, DataOf(k)) + 1
        /\ CopiesIn(h, p \o x, S \ {k0}, k) = Count(h, {k}) + Count(p \o x, DataOf(k)) + 0
    BY <1>3 DEF CopiesIn
  <2> QED BY <1>1, <1>2, <1>3, <2>1
<1>4. CASE k # k0
  <2> DEFINE s == IF k \in S THEN 1 ELSE 0
  <2>1. s \in Nat
    OBVIOUS
  <2>2. /\ CopiesIn(h, p, S, k) = Count(h, {k}) + Count(p, DataOf(k)) + s
        /\ CopiesIn(h, p \o x, S \ {k0}, k) = Count(h, {k}) + Count(p \o x, DataOf(k)) + s
    BY <1>4 DEF CopiesIn
  <2> HIDE DEF s
  <2> QED BY <1>1, <1>2, <1>4, <2>1, <2>2
<1> QED BY <1>3, <1>4

\* A step that sends no new message of this end: copies and times to send again
\* grow by the connection it loses, and only what was buffered is copied.
LEMMA NothingNew ==
    ASSUME TypeOK, NEW e \in Ends, Bounded(e), Unused(e),
           NEW d \in {0, 1}, drops' = drops + d,
           NextId(e)' \in Nat, NextId(e) <= NextId(e)',
           Resends(e)' \in Nat, Resends(e)' <= Resends(e) + d,
           \A k \in Nat : /\ Copies(e, k)' \in Nat
                          /\ Copies(e, k)' + Resends(e)' <= Copies(e, k) + Resends(e) + d
                          /\ Copies(e, k) = 0 /\ k \notin Ids(chan[e].buffer) => Copies(e, k)' = 0,
           Ids(chan[e].buffer)' \subseteq Ids(chan[e].buffer) \cup Sending(e)
    PROVE  Bounded(e)' /\ Unused(e)'
<1>1. /\ drops \in Nat /\ NextId(e) \in Nat /\ Resends(e) \in Nat /\ \A k : Copies(e, k) \in Nat
      /\ chan[Peer(e)].handled \in Seq(Nat) /\ Path(e) \in Seq(Message)
  BY CopiesType, Views DEF TypeOK
<1>2. Resends(e) <= drops /\ \A k \in Nat : Copies(e, k) + Resends(e) <= 1 + drops
  BY DEF Bounded
<1>3. \A k \in Nat : NextId(e) <= k => Copies(e, k) = 0 /\ k \notin Ids(chan[e].buffer)
  BY DEF Unused
<1>4. Resends(e)' <= drops'
  BY <1>1, <1>2
<1>5. \A k \in Nat : Copies(e, k)' + Resends(e)' <= 1 + drops'
  <2> TAKE k \in Nat
  <2>1. /\ Copies(e, k)' \in Nat /\ Copies(e, k) \in Nat
        /\ Copies(e, k)' + Resends(e)' <= Copies(e, k) + Resends(e) + d
        /\ Copies(e, k) + Resends(e) <= 1 + drops
    BY <1>1, <1>2
  <2>2. drops \in Nat /\ Resends(e) \in Nat /\ d \in Nat
    BY <1>1
  <2>3. \A x, y, z, r, s, n \in Nat : z + s <= y + r + x /\ y + r <= 1 + n => z + s <= 1 + (n + x)
    OBVIOUS
  <2> QED BY <2>1, <2>2, <2>3
<1>6. \A k \in Sending(e) : Copies(e, k) # 0
  <2> TAKE k \in Sending(e)
  <2>1. Count(chan[Peer(e)].handled, {k}) \in Nat /\ Count(Path(e), DataOf(k)) \in Nat
    BY <1>1, CountType
  <2> QED BY <2>1 DEF Copies, CopiesIn
<1>7. ASSUME NEW k \in Nat, NextId(e)' <= k PROVE Copies(e, k)' = 0 /\ k \notin Ids(chan[e].buffer)'
  <2>1. NextId(e) <= k
    BY <1>1, <1>7
  <2> QED BY <1>3, <1>6, <2>1
<1> QED BY <1>4, <1>5, <1>7 DEF Bounded, Unused

\* A step that sends the next message of this end, once.
LEMMA OneNew ==
    ASSUME TypeOK, NEW e \in Ends, Bounded(e), Unused(e), drops' = drops,
           NEW n \in Nat, NextId(e) = n, NextId(e)' = n + 1, Resends(e)' = Resends(e),
           \A k \in Nat : k # n => Copies(e, k)' = Copies(e, k),
           Copies(e, n)' \in Nat, Copies(e, n)' <= 1,
           Ids(chan[e].buffer)' \subseteq Ids(chan[e].buffer) \cup {n}
    PROVE  Bounded(e)' /\ Unused(e)'
<1>1. drops \in Nat /\ NextId(e) \in Nat /\ Resends(e) \in Nat /\ \A k : Copies(e, k) \in Nat
  BY CopiesType, Views DEF TypeOK
<1>2. Resends(e) <= drops /\ \A k \in Nat : Copies(e, k) + Resends(e) <= 1 + drops
  BY DEF Bounded
<1>3. \A k \in Nat : NextId(e) <= k => Copies(e, k) = 0 /\ k \notin Ids(chan[e].buffer)
  BY DEF Unused
<1>4. ASSUME NEW k \in Nat PROVE Copies(e, k)' + Resends(e)' <= 1 + drops'
  <2>1. CASE k = n
    <3>1. Copies(e, k)' \in Nat /\ Copies(e, k)' <= 1
      BY <2>1
    <3> QED BY <1>1, <1>2, <3>1
  <2>2. CASE k # n
    BY <1>1, <1>2, <2>2
  <2> QED BY <2>1, <2>2
<1>5. ASSUME NEW k \in Nat, NextId(e)' <= k PROVE Copies(e, k)' = 0 /\ k \notin Ids(chan[e].buffer)'
  <2>1. NextId(e) <= k /\ k # n
    BY <1>1, <1>5
  <2> QED BY <1>3, <2>1
<1> QED BY <1>1, <1>2, <1>4, <1>5 DEF Bounded, Unused

\* An end that a step does not touch.
LEMMA Untouched ==
    ASSUME TypeOK, NEW e \in Ends, Bounded(e), Unused(e), Once(e), drops' = drops,
           chan[e]' = chan[e], Path(e)' = Path(e),
           chan[Peer(e)].handled' = chan[Peer(e)].handled, Resends(e)' = Resends(e)
    PROVE  Bounded(e)' /\ Unused(e)' /\ Once(e)'
<1>1. Sending(e)' = Sending(e) /\ NextId(e)' = NextId(e) /\ PushedIds(e)' = PushedIds(e)
  BY DEF Sending, NextId, PushedIds
<1>2. \A k : Copies(e, k)' = Copies(e, k)
  BY <1>1 DEF Copies
<1>3. Ids(chan[e].buffer)' = Ids(chan[e].buffer) /\ chan[e].buffer' = chan[e].buffer
  BY DEF Ids
<1>4. Once(e)'
  BY <1>1, <1>3 DEF Once
<1> QED BY <1>1, <1>2, <1>3, <1>4 DEF Bounded, Unused

\* A buffer holds the data with one id once, at most.
LEMMA BufferCount ==
    ASSUME NEW b, Distinct(b), NEW k
    PROVE  /\ Count(b, DataOf(k)) = 0 \/ Count(b, DataOf(k)) = 1
           /\ k \notin Ids(b) => Count(b, DataOf(k)) = 0
<1>1. \A i, j \in DOMAIN b : b[i] \in DataOf(k) /\ b[j] \in DataOf(k) => i = j
  BY DEF Distinct, DataOf
<1>2. ASSUME k \notin Ids(b) PROVE Count(b, DataOf(k)) = 0
  <2>1. \A i \in DOMAIN b : b[i] \notin DataOf(k)
    BY <1>2 DEF Ids, DataOf
  <2> QED BY <2>1, CountNone
<1> QED BY <1>1, <1>2, CountUnique

\* The rest of a buffer holds nothing more.
LEMMA RestDistinct ==
    ASSUME NEW b \in Seq(Message), Distinct(b), NEW b2, Rest(b, b2)
    PROVE  Distinct(b2) /\ Ids(b2) \subseteq Ids(b) /\ b2 \in Seq(Message)
<1>1. PICK n \in Nat : Len(b2) + n = Len(b) /\ \A i \in 1..Len(b2) : b2[i] = b[i + n]
  BY DEF Rest
<1>2. /\ Len(b) \in Nat /\ Len(b2) \in Nat /\ DOMAIN b = 1..Len(b) /\ DOMAIN b2 = 1..Len(b2)
      /\ b2 \in Seq(Message)
  BY DEF Rest
<1>3. \A i \in 1..Len(b2) : i + n \in 1..Len(b) /\ b2[i] = b[i + n]
  BY <1>1, <1>2
<1>4. Ids(b2) \subseteq Ids(b)
  BY <1>2, <1>3 DEF Ids
<1>5. ASSUME NEW i \in DOMAIN b2, NEW j \in DOMAIN b2, b2[i].id = b2[j].id PROVE i = j
  <2>1. /\ i + n \in DOMAIN b /\ j + n \in DOMAIN b /\ i \in Nat /\ j \in Nat
        /\ b[i + n].id = b[j + n].id
    BY <1>2, <1>3, <1>5
  <2>2. i + n = j + n
    BY <2>1, Zenon DEF Distinct
  <2> QED BY <2>1, <2>2
<1> QED BY <1>2, <1>4, <1>5 DEF Distinct

\* A message with an id of its own is added to a buffer.
LEMMA DistinctAppend ==
    ASSUME NEW b \in Seq(Message), Distinct(b), NEW m \in Message, m.id \notin Ids(b)
    PROVE  Distinct(Append(b, m)) /\ Ids(Append(b, m)) = Ids(b) \cup {m.id}
<1> DEFINE c == Append(b, m)
           n == Len(b)
<1>1. /\ n \in Nat /\ DOMAIN b = 1..n /\ DOMAIN c = 1..(n + 1) /\ c[n + 1] = m
      /\ \A i \in 1..n : c[i] = b[i]
  OBVIOUS
<1> HIDE DEF c, n
<1>2. Ids(c) = Ids(b) \cup {m.id}
  <2>1. \A i \in 1..(n + 1) : i \in 1..n \/ i = n + 1
    BY <1>1
  <2>2. \A i \in 1..n : i \in 1..(n + 1)
    BY <1>1
  <2>3. n + 1 \in 1..(n + 1)
    BY <1>1
  <2> QED BY <1>1, <2>1, <2>2, <2>3, Zenon DEF Ids
<1>3. \A i \in 1..n : b[i].id \in Ids(b)
  BY <1>1 DEF Ids
<1>4. ASSUME NEW i \in DOMAIN c, NEW j \in DOMAIN c, c[i].id = c[j].id PROVE i = j
  <2>1. CASE i \in 1..n /\ j \in 1..n
    BY <1>1, <1>4, <2>1 DEF Distinct
  <2>2. CASE i \in 1..n /\ j = n + 1
    BY <1>1, <1>3, <1>4, <2>2
  <2>3. CASE i = n + 1 /\ j \in 1..n
    BY <1>1, <1>3, <1>4, <2>3
  <2> QED BY <1>1, <2>1, <2>2, <2>3
<1> QED BY <1>2, <1>4 DEF Distinct, c

\* Messages that are no request to flush are added to what is on its way.
LEMMA MoreOnTheWay ==
    ASSUME TypeOK, NEW end \in Ends, NEW x \in Seq(Message),
           \A i \in DOMAIN x : x[i].kind # "flush",
           Path(end)' = Path(end) \o x, Path(Peer(end))' = Path(Peer(end))
    PROVE  /\ \A k : /\ Count(Path(end)', DataOf(k)) = Count(Path(end), DataOf(k)) + Count(x, DataOf(k))
                     /\ Count(x, DataOf(k)) \in Nat /\ Count(Path(end), DataOf(k)) \in Nat
           /\ Count(Path("client")', Flush) = Count(Path("client"), Flush)
<1>1. Path(end) \in Seq(Message) /\ Path("client") \in Seq(Message)
  BY Views DEF Ends
<1>2. \A S : Count(Path(end)', S) = Count(Path(end), S) + Count(x, S)
  BY <1>1, CountConcat
<1>3. \A S : Count(x, S) \in Nat /\ Count(Path(end), S) \in Nat
  BY <1>1, CountType
<1>4. Count(x, Flush) = 0
  <2>1. \A i \in DOMAIN x : x[i] \notin Flush
    BY DEF Flush
  <2> QED BY <2>1, CountNone
<1>5. CASE end = "client"
  <2>1. /\ Count(Path("client")', Flush) = Count(Path("client"), Flush) + 0
        /\ Count(Path("client"), Flush) \in Nat
    BY <1>2, <1>3, <1>4, <1>5
  <2>2. Count(Path("client")', Flush) = Count(Path("client"), Flush)
    BY <2>1
  <2> QED BY <1>2, <1>3, <2>2
<1>6. CASE end # "client"
  <2>1. Peer(end) = "client"
    BY <1>6 DEF Peer, Ends
  <2> QED BY <1>2, <1>3, <2>1
<1> QED BY <1>5, <1>6

\* Nothing that makes an end send its buffer again changed.
LEMMA SameResends ==
    ASSUME link' = link, resync' = resync, Count(Path("client")', Flush) = Count(Path("client"), Flush)
    PROVE  \A e \in Ends : Resends(e)' = Resends(e)
BY DEF Resends

\* What is buffered, or about to be sent, may be sent to the client.
LEMMA ToClientData ==
    ASSUME NEW s \in Seq(Message), \A i \in DOMAIN s : s[i].kind = "data"
    PROVE  s \in Seq(ToClient)
<1>1. \A i \in 1..Len(s) : s[i] \in ToClient
  BY DEF ToClient
<1>2. s = [i \in 1..Len(s) |-> s[i]] /\ Len(s) \in Nat
  OBVIOUS
<1>3. s \in [1..Len(s) -> ToClient]
  BY <1>1, <1>2
<1> QED BY <1>2, <1>3, SeqDef

\* Data, or nothing, is added to what is on its way to the client.
LEMMA ToClientMore ==
    ASSUME Path("server") \in Seq(ToClient), NEW end \in Ends, NEW x \in Seq(Message),
           Path(end)' = Path(end) \o x, Path(Peer(end))' = Path(Peer(end)),
           \A i \in DOMAIN x : x[i].kind = "data"
    PROVE  Path("server")' \in Seq(ToClient)
<1>1. CASE end = "server"
  <2>1. x \in Seq(ToClient)
    BY ToClientData
  <2> QED BY <1>1, <2>1, ConcatProperties
<1>2. CASE end # "server"
  <2>1. Peer(end) = "server"
    BY <1>2 DEF Peer, Ends
  <2> QED BY <2>1
<1> QED BY <1>1, <1>2

-----------------------------------------------------------------------------
(* The steps *)

\* send_buffered of a new message.
LEMMA SendHeld ==
    ASSUME Base, Held, NEW end \in Ends, Send(end)
    PROVE  Held'
<1> DEFINE n == NextId(end)
           m == Sent(end)
           p == Peer(end)
           b == chan[end].buffer
<1>1. TypeOK /\ n \in Nat /\ p \in Ends /\ Peer(p) = end /\ b \in Seq(Message)
  BY Views, TwoEnds DEF Base
<1>2. /\ m \in Message /\ m.kind = "data" /\ m.id = n
      /\ chan'[end].next_message_id = n + 1 /\ chan'[end].buffer = Append(b, m)
      /\ chan'[end].handled = chan[end].handled
      /\ chan'[end].taken = chan[end].taken /\ chan'[end].pushed = chan[end].pushed
      /\ chan'[p] = chan[p]
      /\ Path(end)' = Path(end) \o (IF Reaches(end) THEN <<m>> ELSE <<>>) /\ Path(p)' = Path(p)
  BY <1>1, SendView
<1>3. link' = link /\ resync' = resync /\ drops' = drops
  BY DEF Send
<1>4. Bounded(end) /\ Unused(end) /\ Once(end) /\ Bounded(p) /\ Unused(p) /\ Once(p)
  BY <1>1 DEF Held
<1>5. PICK k0 : k0 = n
  OBVIOUS
<1>6. PICK x : x = IF Reaches(end) THEN <<m>> ELSE <<>>
  OBVIOUS
<1> HIDE DEF n, m, p, b
<1>7. /\ x \in Seq(Message) /\ \A i \in DOMAIN x : x[i].kind = "data"
      /\ \A k : k # k0 => Count(x, DataOf(k)) = 0
      /\ Count(x, DataOf(k0)) = 0 \/ Count(x, DataOf(k0)) = 1
  <2>1. CASE Reaches(end)
    <3>1. x = <<m>>
      BY <1>6, <2>1
    <3>2. x \in Seq(Message) /\ \A i \in DOMAIN x : x[i] = m
      BY <1>2, <3>1
    <3>3. \A k : Count(x, DataOf(k)) = IF m \in DataOf(k) THEN 1 ELSE 0
      BY <3>1, CountOne
    <3>4. \A k : k # k0 => m \notin DataOf(k)
      BY <1>2, <1>5 DEF DataOf
    <3> QED BY <1>2, <3>2, <3>3, <3>4
  <2>2. CASE ~Reaches(end)
    <3>1. x = <<>>
      BY <1>6, <2>2
    <3>2. x \in Seq(Message) /\ \A i \in DOMAIN x : FALSE
      BY <3>1
    <3> QED BY <3>2, CountNone
  <2> QED BY <2>1, <2>2
<1>8. Path(end)' = Path(end) \o x /\ Path(Peer(end))' = Path(Peer(end))
  BY <1>2, <1>6 DEF p
<1>9. \A i \in DOMAIN x : x[i].kind # "flush"
  BY <1>7
<1>10. /\ \A k : /\ Count(Path(end)', DataOf(k)) = Count(Path(end), DataOf(k)) + Count(x, DataOf(k))
                 /\ Count(x, DataOf(k)) \in Nat /\ Count(Path(end), DataOf(k)) \in Nat
       /\ Count(Path("client")', Flush) = Count(Path("client"), Flush)
  BY <1>1, <1>7, <1>8, <1>9, MoreOnTheWay
<1>11. \A e \in Ends : Resends(e)' = Resends(e)
  BY <1>3, <1>10, SameResends
<1>12. Sending(end)' = Sending(end) /\ NextId(end)' = k0 + 1 /\ NextId(end) = k0 /\ k0 \in Nat
  BY <1>1, <1>2, <1>5 DEF Sending, NextId, n
<1>13. \A k : /\ Copies(end, k)' = Copies(end, k) + Count(x, DataOf(k))
              /\ Copies(end, k) \in Nat
  <2> TAKE k
  <2>1. Copies(end, k)' = CopiesIn(chan'[p].handled, Path(end)', Sending(end)', k)
    BY DEF Copies, p
  <2>2. Copies(end, k) = CopiesIn(chan[p].handled, Path(end), Sending(end), k)
    BY DEF Copies, p
  <2>3. chan[p].handled \in Seq(Nat) /\ Path(end) \in Seq(Message)
    BY <1>1, CopiesType DEF p
  <2> QED BY <1>2, <1>7, <1>8, <1>12, <2>1, <2>2, <2>3, CopiesMore
<1>14. k0 \notin Ids(b) /\ Copies(end, k0) = 0
  BY <1>4, <1>12 DEF Unused, b
<1>15. Distinct(Append(b, m)) /\ Ids(Append(b, m)) = Ids(b) \cup {k0}
  <2>1. m.id \notin Ids(b) /\ Distinct(b)
    BY <1>2, <1>4, <1>5, <1>14 DEF Once, b
  <2> QED BY <1>1, <1>2, <1>5, <2>1, DistinctAppend
<1>16. Bounded(end)' /\ Unused(end)'
  <2>1. \A k \in Nat : k # k0 => Copies(end, k)' = Copies(end, k)
    BY <1>7, <1>13
  <2>2. Copies(end, k0)' \in Nat /\ Copies(end, k0)' <= 1
    BY <1>7, <1>13, <1>14
  <2>3. Ids(chan[end].buffer)' \subseteq Ids(chan[end].buffer) \cup {k0}
    BY <1>2, <1>15 DEF b, Ids
  <2> QED BY <1>1, <1>3, <1>4, <1>11, <1>12, <2>1, <2>2, <2>3, OneNew
<1>17. Once(end)'
  <2>1. k0 \notin chan[end].taken
    <3>1. k0 \notin Sending(end)
      <4>1. chan[p].handled \in Seq(Nat) /\ Path(end) \in Seq(Message)
        BY <1>1, CopiesType DEF p
      <4> QED BY <1>7, <1>14, <4>1, CopiesMore DEF Copies, p
    <3> QED BY <3>1 DEF Sending
  <2>2. PushedIds(end)' = PushedIds(end)
    BY <1>2 DEF PushedIds
  <2>3. /\ chan[end].taken \cap (Ids(b) \cup PushedIds(end)) = {}
        /\ \A q, r \in chan[end].pushed : q.id = r.id => q = r
    BY <1>4 DEF Once, b
  <2>4. Distinct(chan'[end].buffer) /\ Ids(chan'[end].buffer) = Ids(b) \cup {k0}
    BY <1>2, <1>15
  <2> QED BY <1>2, <2>1, <2>2, <2>3, <2>4 DEF Once
<1>18. Bounded(p)' /\ Unused(p)' /\ Once(p)'
  <2>1. /\ chan[p]' = chan[p] /\ Path(p)' = Path(p) /\ Resends(p)' = Resends(p)
        /\ chan[Peer(p)].handled' = chan[Peer(p)].handled
    BY <1>1, <1>2, <1>11 DEF p
  <2> QED BY <1>1, <1>3, <1>4, <2>1, Untouched
<1>19. Path("server")' \in Seq(ToClient)
  BY <1>7, <1>8, ToClientMore DEF Held
<1> QED BY <1>16, <1>17, <1>18, <1>19, TwoEnds DEF Held, p

\* A thread takes the id of the message it sends.
LEMMA TakeIdHeld ==
    ASSUME Base, Held, NEW end \in Ends, TakeId(end)
    PROVE  Held'
<1> DEFINE p == Peer(end)
<1>1. TypeOK /\ NextId(end) \in Nat /\ p \in Ends /\ Peer(p) = end
  BY Views, TwoEnds DEF Base
<1>2. PICK n \in Nat : n = NextId(end)
  BY <1>1
<1>3. /\ chan'[p] = chan[p] /\ chan'[end].next_message_id = n + 1
      /\ chan'[end].taken = chan[end].taken \cup {n}
      /\ chan'[end].pushed = chan[end].pushed /\ chan'[end].buffer = chan[end].buffer
      /\ chan'[end].handled = chan[end].handled
  BY <1>1, <1>2, TakeIdView
<1>4. UNCHANGED <<resync, link, up, inbox, out, down, drops>>
  BY DEF TakeId, wires
<1>5. \A e \in Ends : Path(e)' = Path(e)
  BY <1>4 DEF Path
<1>6. Path("client")' = Path("client") /\ Path("server")' = Path("server")
  BY <1>5 DEF Ends
<1>7. \A e \in Ends : Resends(e)' = Resends(e)
  BY <1>4, <1>6, SameResends
<1>8. Bounded(end) /\ Unused(end) /\ Once(end) /\ Bounded(p) /\ Unused(p) /\ Once(p)
  BY <1>1 DEF Held
<1> HIDE DEF p
<1>9. chan[p].handled \in Seq(Nat) /\ Path(end) \in Seq(Message)
  BY <1>1, CopiesType DEF p
<1>10. /\ \A k : Copies(end, k) = CopiesIn(chan[p].handled, Path(end), Sending(end), k)
       /\ \A k : Copies(end, k)' = CopiesIn(chan[p].handled, Path(end), Sending(end) \cup {n}, k)
  <2>1. Sending(end)' = Sending(end) \cup {n}
    BY <1>3 DEF Sending
  <2>2. chan'[Peer(end)].handled = chan[p].handled
    BY <1>3 DEF p
  <2> QED BY <1>5, <2>1, <2>2 DEF Copies, p
<1>11. Copies(end, n) = 0 /\ n \notin Ids(chan[end].buffer)
  BY <1>2, <1>8 DEF Unused
<1>12. n \notin Sending(end)
  <2>1. <<>> \in Seq(Message)
    OBVIOUS
  <2> QED BY <1>9, <1>10, <1>11, <2>1, CopiesMore
<1>13. Bounded(end)' /\ Unused(end)'
  <2>1. \A k \in Nat : k # n => Copies(end, k)' = Copies(end, k)
    <3> TAKE k \in Nat
    <3> HAVE k # n
    <3>1. k \in Sending(end) \cup {n} <=> k \in Sending(end)
      OBVIOUS
    <3> QED BY <1>9, <1>10, <3>1, CopiesSending
  <2>2. Copies(end, n)' \in Nat /\ Copies(end, n)' <= 1
    <3>1. Copies(end, n)' = 1
      BY <1>9, <1>10, <1>11, CopiesSending
    <3> QED BY <3>1
  <2>3. Ids(chan[end].buffer)' \subseteq Ids(chan[end].buffer) \cup {n}
    BY <1>3 DEF Ids
  <2>4. NextId(end)' = n + 1
    BY <1>3 DEF NextId
  <2> QED BY <1>1, <1>2, <1>4, <1>7, <1>8, <2>1, <2>2, <2>3, <2>4, OneNew
<1>14. Once(end)'
  <2>1. n \notin PushedIds(end)
    BY <1>12 DEF Sending, PushedIds
  <2>2. PushedIds(end)' = PushedIds(end)
    BY <1>3 DEF PushedIds
  <2>3. /\ chan[end].taken \cap (Ids(chan[end].buffer) \cup PushedIds(end)) = {}
        /\ \A q, r \in chan[end].pushed : q.id = r.id => q = r
        /\ Distinct(chan[end].buffer)
    BY <1>8 DEF Once
  <2> QED BY <1>3, <1>11, <2>1, <2>2, <2>3 DEF Once
<1>15. Bounded(p)' /\ Unused(p)' /\ Once(p)'
  <2>1. /\ chan[p]' = chan[p] /\ Path(p)' = Path(p) /\ Resends(p)' = Resends(p)
        /\ chan[Peer(p)].handled' = chan[Peer(p)].handled
    BY <1>1, <1>3, <1>5, <1>7 DEF p
  <2> QED BY <1>1, <1>4, <1>8, <2>1, Untouched
<1>16. Path("server")' \in Seq(ToClient)
  BY <1>6 DEF Held
<1> QED BY <1>13, <1>14, <1>15, <1>16, TwoEnds DEF Held, p

\* A thread buffers the message whose id it took.
LEMMA BufferTakenHeld ==
    ASSUME Base, Held, NEW end \in Ends, BufferTaken(end)
    PROVE  Held'
<1> DEFINE p == Peer(end)
           b == chan[end].buffer
<1>1. TypeOK /\ NextId(end) \in Nat /\ p \in Ends /\ Peer(p) = end /\ b \in Seq(Message)
      /\ drops \in Nat
  BY Views, TwoEnds DEF Base, TypeOK
<1>2. PICK id \in chan[end].taken, d \in Message :
        /\ d.kind = "data" /\ d.id = id
        /\ chan'[p] = chan[p] /\ chan'[end].next_message_id = chan[end].next_message_id
        /\ chan'[end].taken = chan[end].taken \ {id}
        /\ chan'[end].pushed = chan[end].pushed \cup {d}
        /\ chan'[end].buffer = Append(b, d)
        /\ chan'[end].handled = chan[end].handled
  BY <1>1, BufferTakenView
<1>3. UNCHANGED <<resync, link, up, inbox, out, down, drops>>
  BY DEF BufferTaken, wires
<1>4. \A e \in Ends : Path(e)' = Path(e)
  BY <1>3 DEF Path
<1>5. Path("client")' = Path("client") /\ Path("server")' = Path("server")
  BY <1>4 DEF Ends
<1>6. \A e \in Ends : Resends(e)' = Resends(e)
  BY <1>3, <1>5, SameResends
<1>7. Bounded(end) /\ Unused(end) /\ Once(end) /\ Bounded(p) /\ Unused(p) /\ Once(p)
  BY <1>1 DEF Held
<1> HIDE DEF p, b
<1>8. /\ chan[end].taken \cap (Ids(b) \cup PushedIds(end)) = {}
      /\ \A q, r \in chan[end].pushed : q.id = r.id => q = r
      /\ Distinct(b)
  BY <1>7 DEF Once, b
<1>9. PushedIds(end)' = PushedIds(end) \cup {id}
  BY <1>2 DEF PushedIds
<1>10. Sending(end) = chan[end].taken \cup PushedIds(end)
       /\ Sending(end)' = chan'[end].taken \cup PushedIds(end)'
  BY DEF Sending, PushedIds
<1>11. Sending(end)' = Sending(end)
  BY <1>2, <1>9, <1>10
<1>12. \A k : Copies(end, k)' = Copies(end, k)
  <2>1. chan'[Peer(end)].handled = chan[Peer(end)].handled
    BY <1>2 DEF p
  <2> QED BY <1>4, <1>11, <2>1 DEF Copies
<1>13. Distinct(Append(b, d)) /\ Ids(Append(b, d)) = Ids(b) \cup {id}
  <2>1. d.id \notin Ids(b)
    BY <1>2, <1>8
  <2> QED BY <1>1, <1>2, <1>8, <2>1, DistinctAppend
<1>14. Bounded(end)' /\ Unused(end)'
  <2>1. \A k \in Nat : /\ Copies(end, k)' \in Nat
                       /\ Copies(end, k)' + Resends(end)' <= Copies(end, k) + Resends(end) + 0
                       /\ Copies(end, k) = 0 /\ k \notin Ids(chan[end].buffer) => Copies(end, k)' = 0
    <3> TAKE k \in Nat
    <3>1. Copies(end, k) \in Nat /\ Resends(end) \in Nat
      BY <1>1, CopiesType
    <3> QED BY <1>6, <1>12, <3>1
  <2>2. Ids(chan[end].buffer)' \subseteq Ids(chan[end].buffer) \cup Sending(end)
    <3>1. Ids(chan[end].buffer)' = Ids(chan'[end].buffer)
      BY DEF Ids
    <3> QED BY <1>2, <1>10, <1>13, <3>1 DEF b
  <2>3. NextId(end)' = NextId(end)
    BY <1>2 DEF NextId
  <2>4. Resends(end)' \in Nat /\ Resends(end)' <= Resends(end) + 0
    <3>1. Resends(end) \in Nat
      BY <1>1, CopiesType
    <3> QED BY <1>6, <3>1
  <2>5. drops' = drops + 0 /\ NextId(end)' \in Nat /\ NextId(end) <= NextId(end)'
    BY <1>1, <1>3, <2>3
  <2> QED BY <1>1, <1>7, <2>1, <2>2, <2>4, <2>5, NothingNew
<1>15. Once(end)'
  <2>1. Distinct(chan'[end].buffer) /\ Ids(chan'[end].buffer) = Ids(b) \cup {id}
    BY <1>2, <1>13
  <2>2. chan'[end].taken \cap (Ids(chan'[end].buffer) \cup PushedIds(end)') = {}
    BY <1>2, <1>8, <1>9, <2>1
  <2>3. \A q, r \in chan'[end].pushed : q.id = r.id => q = r
    <3>1. \A q \in chan[end].pushed : q.id # id
      BY <1>8 DEF PushedIds
    <3> QED BY <1>2, <1>8, <3>1
  <2> QED BY <2>1, <2>2, <2>3 DEF Once
<1>16. Bounded(p)' /\ Unused(p)' /\ Once(p)'
  <2>1. /\ chan[p]' = chan[p] /\ Path(p)' = Path(p) /\ Resends(p)' = Resends(p)
        /\ chan[Peer(p)].handled' = chan[Peer(p)].handled
    BY <1>1, <1>2, <1>4, <1>6 DEF p
  <2> QED BY <1>1, <1>3, <1>7, <2>1, Untouched
<1>17. Path("server")' \in Seq(ToClient)
  BY <1>5 DEF Held
<1> QED BY <1>14, <1>15, <1>16, <1>17, TwoEnds DEF Held, p

\* A thread sends the message it buffered.
LEMMA SendPushedHeld ==
    ASSUME Base, Held, NEW end \in Ends, SendPushed(end)
    PROVE  Held'
<1> DEFINE p == Peer(end)
<1>1. TypeOK /\ NextId(end) \in Nat /\ p \in Ends /\ Peer(p) = end /\ drops \in Nat
  BY Views, TwoEnds DEF Base, TypeOK
<1>2. PICK m \in chan[end].pushed :
        /\ m \in Message
        /\ chan'[p] = chan[p] /\ chan'[end].next_message_id = chan[end].next_message_id
        /\ chan'[end].taken = chan[end].taken
        /\ chan'[end].pushed = chan[end].pushed \ {m}
        /\ chan'[end].buffer = chan[end].buffer
        /\ chan'[end].handled = chan[end].handled
        /\ Path(end)' = Path(end) \o (IF Reaches(end) THEN <<m>> ELSE <<>>)
        /\ Path(p)' = Path(p)
  BY <1>1, SendPushedView
<1>3. resync' = resync /\ link' = link /\ drops' = drops
  BY DEF SendPushed
<1>4. Bounded(end) /\ Unused(end) /\ Once(end) /\ Bounded(p) /\ Unused(p) /\ Once(p)
  BY <1>1 DEF Held
<1>5. m.kind = "data"
  BY DEF Base, OnlyData
<1>6. PICK x : x = IF Reaches(end) THEN <<m>> ELSE <<>>
  OBVIOUS
<1> HIDE DEF p
<1>7. /\ x \in Seq(Message) /\ \A i \in DOMAIN x : x[i].kind = "data"
      /\ \A k : k # m.id => Count(x, DataOf(k)) = 0
      /\ Count(x, DataOf(m.id)) = 0 \/ Count(x, DataOf(m.id)) = 1
  <2>1. CASE Reaches(end)
    <3>1. x = <<m>>
      BY <1>6, <2>1
    <3>2. x \in Seq(Message) /\ \A i \in DOMAIN x : x[i] = m
      BY <1>2, <3>1
    <3>3. \A k : Count(x, DataOf(k)) = IF m \in DataOf(k) THEN 1 ELSE 0
      BY <3>1, CountOne
    <3>4. \A k : k # m.id => m \notin DataOf(k)
      BY DEF DataOf
    <3> QED BY <1>5, <3>2, <3>3, <3>4
  <2>2. CASE ~Reaches(end)
    <3>1. x = <<>>
      BY <1>6, <2>2
    <3>2. x \in Seq(Message) /\ \A i \in DOMAIN x : FALSE
      BY <3>1
    <3> QED BY <3>2, CountNone
  <2> QED BY <2>1, <2>2
<1>8. Path(end)' = Path(end) \o x /\ Path(Peer(end))' = Path(Peer(end))
  BY <1>2, <1>6 DEF p
<1>9. \A i \in DOMAIN x : x[i].kind # "flush"
  BY <1>7
<1>10. Count(Path("client")', Flush) = Count(Path("client"), Flush)
  BY <1>1, <1>7, <1>8, <1>9, MoreOnTheWay
<1>11. \A e \in Ends : Resends(e)' = Resends(e)
  BY <1>3, <1>10, SameResends
<1>12. /\ chan[end].taken \cap (Ids(chan[end].buffer) \cup PushedIds(end)) = {}
       /\ \A q, r \in chan[end].pushed : q.id = r.id => q = r
       /\ Distinct(chan[end].buffer)
  BY <1>4 DEF Once
<1>13. PushedIds(end)' = PushedIds(end) \ {m.id} /\ m.id \in PushedIds(end)
  <2>1. PushedIds(end)' = {q.id : q \in chan[end].pushed \ {m}}
    BY <1>2 DEF PushedIds
  <2>2. PushedIds(end) = {q.id : q \in chan[end].pushed}
    BY DEF PushedIds
  <2>3. {q.id : q \in chan[end].pushed \ {m}} = {q.id : q \in chan[end].pushed} \ {m.id}
    BY <1>2, <1>12
  <2> QED BY <1>2, <2>1, <2>2, <2>3
<1>14. Sending(end)' = Sending(end) \ {m.id} /\ m.id \in Sending(end)
  <2>1. Sending(end) = chan[end].taken \cup PushedIds(end)
        /\ Sending(end)' = chan'[end].taken \cup PushedIds(end)'
    BY DEF Sending, PushedIds
  <2> QED BY <1>2, <1>12, <1>13, <2>1
<1>15. \A k \in Nat : /\ Copies(end, k)' \in Nat /\ Copies(end, k) \in Nat
                      /\ Copies(end, k)' <= Copies(end, k)
  <2> TAKE k \in Nat
  <2>1. chan[p].handled \in Seq(Nat) /\ Path(end) \in Seq(Message) /\ Copies(end, k) \in Nat
    BY <1>1, CopiesType DEF p
  <2>2. Copies(end, k) = CopiesIn(chan[p].handled, Path(end), Sending(end), k)
    BY DEF Copies, p
  <2>3. Copies(end, k)' = CopiesIn(chan[p].handled, Path(end) \o x, Sending(end) \ {m.id}, k)
    BY <1>2, <1>8, <1>14 DEF Copies, p
  <2>4. k # m.id => Count(x, DataOf(k)) = 0
    BY <1>7
  <2>5. k = m.id => Count(x, DataOf(k)) <= 1
    BY <1>7
  <2> DEFINE h == chan[p].handled
             q == Path(end)
             S == Sending(end)
             k0 == m.id
  <2>6. h \in Seq(Nat) /\ q \in Seq(Message) /\ k0 \in S
    BY <1>14, <2>1
  <2> HIDE DEF h, q, S, k0
  <2>7. /\ CopiesIn(h, q \o x, S \ {k0}, k) <= CopiesIn(h, q, S, k)
        /\ CopiesIn(h, q \o x, S \ {k0}, k) \in Nat
    <3>1. k # k0 => Count(x, DataOf(k)) = 0
      BY <2>4 DEF k0
    <3>2. k = k0 => Count(x, DataOf(k)) <= 1
      BY <2>5 DEF k0
    <3> QED BY <1>7, <2>6, <3>1, <3>2, CopiesSent
  <2> QED BY <2>1, <2>2, <2>3, <2>7 DEF h, q, S, k0
<1>16. Bounded(end)' /\ Unused(end)'
  <2>1. \A k \in Nat : /\ Copies(end, k)' \in Nat
                       /\ Copies(end, k)' + Resends(end)' <= Copies(end, k) + Resends(end) + 0
                       /\ Copies(end, k) = 0 /\ k \notin Ids(chan[end].buffer) => Copies(end, k)' = 0
    <3> TAKE k \in Nat
    <3>1. Resends(end) \in Nat /\ Resends(end)' = Resends(end)
      BY <1>1, <1>11, CopiesType
    <3>2. /\ Copies(end, k)' \in Nat /\ Copies(end, k) \in Nat /\ Copies(end, k)' <= Copies(end, k)
      BY <1>15
    <3> QED BY <3>1, <3>2
  <2>2. Ids(chan[end].buffer)' \subseteq Ids(chan[end].buffer) \cup Sending(end)
    BY <1>2 DEF Ids
  <2>3. NextId(end)' = NextId(end)
    BY <1>2 DEF NextId
  <2>4. Resends(end)' \in Nat /\ Resends(end)' <= Resends(end) + 0
    <3>1. Resends(end) \in Nat
      BY <1>1, CopiesType
    <3> QED BY <1>11, <3>1
  <2>5. drops' = drops + 0 /\ NextId(end)' \in Nat /\ NextId(end) <= NextId(end)'
    BY <1>1, <1>3, <2>3
  <2> QED BY <1>1, <1>4, <2>1, <2>2, <2>4, <2>5, NothingNew
<1>17. Once(end)'
  <2>1. Ids(chan[end].buffer)' = Ids(chan[end].buffer)
    BY <1>2 DEF Ids
  <2> QED BY <1>2, <1>12, <1>13, <2>1 DEF Once
<1>18. Bounded(p)' /\ Unused(p)' /\ Once(p)'
  <2>1. /\ chan[p]' = chan[p] /\ Path(p)' = Path(p) /\ Resends(p)' = Resends(p)
        /\ chan[Peer(p)].handled' = chan[Peer(p)].handled
    BY <1>1, <1>2, <1>11 DEF p
  <2> QED BY <1>1, <1>3, <1>4, <2>1, Untouched
<1>19. Path("server")' \in Seq(ToClient)
  BY <1>7, <1>8, ToClientMore DEF Held
<1> QED BY <1>16, <1>17, <1>18, <1>19, TwoEnds DEF Held, p

\* What an end answers: nothing of its buffer, or its buffer once for one of the
\* times it had to be sent again.
LEMMA AnswerHeld ==
    ASSUME Base, Held, NEW h \in Ends, Handles(h)
    PROVE  /\ Answer(h) \in Seq(ToClient) /\ Resends(h)' \in Nat
           /\ \/ /\ Resends(h)' = Resends(h)
                 /\ \A k : Count(Answer(h), DataOf(k)) = 0
              \/ /\ Resends(h)' + 1 = Resends(h)
                 /\ \A k : Count(Answer(h), DataOf(k)) = Count(chan'[h].buffer, DataOf(k))
<1> DEFINE m == Arrives(h)
           c == chan[h]
           H == Handling(h)
           b == chan'[h].buffer
           A == Answer(h)
<1>1. TypeOK /\ c \in ChannelClient
  BY DEF Base, TypeOK
<1>2. /\ Path(Peer(h)) # <<>> /\ m \in Message
      /\ Path(Peer(h))' = Tail(Path(Peer(h)))
      /\ chan'[h] = H.chan /\ link' = link
      /\ resync' = IF EndsResync(h) THEN None ELSE resync
      /\ h = "client" => link = "up"
  BY <1>1, HandlesView
<1>3. /\ H.chan \in ChannelClient /\ H.answer \in Seq(Message) /\ Rest(c.buffer, H.chan.buffer)
      /\ m.kind \in {"data", "ack"} => H.answer = <<>>
      /\ m.kind = "started" =>
            \E a \in Message : a.kind = "ack" /\ a.responding_to = m.id /\ H.answer = <<a>>
      /\ m.kind = "flush" =>
            \E a \in Message : /\ a.kind = "ack" /\ a.responding_to = m.id
                               /\ H.answer = Append(H.chan.buffer, a)
  BY <1>1, <1>2, HandleFacts DEF Handling
<1>4. A = IF EndsResync(h) THEN H.answer \o H.chan.buffer ELSE H.answer
  BY DEF Answer
<1>5. /\ EndsResync(h) <=> h = "client" /\ m.kind = "ack" /\ m.responding_to = resync
      /\ m = Path(Peer(h))[1]
  BY DEF EndsResync, Arrives
<1> HIDE DEF m, H, A
<1>6. b = H.chan.buffer /\ b \in Seq(Message)
  BY <1>2, <1>3 DEF Rest
<1>7. \A i \in DOMAIN b : b[i].kind = "data"
  <2>1. c.buffer \in Seq(Message) /\ \A i \in DOMAIN c.buffer : c.buffer[i].kind = "data"
    BY <1>1 DEF Base, OnlyData, ChannelClient
  <2>2. Rest(c.buffer, b)
    BY <1>3, <1>6
  <2> HIDE DEF c, b
  <2> QED BY <2>1, <2>2, RestFacts
<1>8. b \in Seq(ToClient)
  BY <1>6, <1>7, ToClientData
<1> HIDE DEF b, c
<1>9. Resends(h) \in Nat
  BY <1>1, CopiesType
<1>10. <<>> \in Seq(ToClient) /\ \A k : Count(<<>>, DataOf(k)) = 0
  <2>1. \A k : \A i \in DOMAIN <<>> : <<>>[i] \notin DataOf(k)
    OBVIOUS
  <2> QED BY <2>1, CountNone
<1>11. ASSUME NEW a \in Message, a.kind = "ack", a.responding_to = m.id
       PROVE  a \in ToClient /\ <<a>> \in Seq(ToClient) /\ \A k : Count(<<a>>, DataOf(k)) = 0
  <2>1. m.id \in Nat /\ None \notin Nat
    BY <1>2, ConstantsAssumption DEF Message
  <2>2. a \in ToClient
    BY <1>11, <2>1 DEF ToClient
  <2>3. <<a>> \in Seq(ToClient)
    BY <2>2
  <2>4. \A k : a \notin DataOf(k)
    BY <1>11 DEF DataOf
  <2> QED BY <2>2, <2>3, <2>4, CountOne
<1>12. CASE h = "client"
  <2>1. m \in ToClient
    <3>1. Path("server") \in Seq(ToClient) /\ Peer(h) = "server"
      BY <1>12 DEF Held, Peer
    <3> QED BY <1>2, <1>5, <3>1
  <2>2. m.kind \in {"data", "ack"} /\ (m.kind = "ack" => m.responding_to # None)
    BY <2>1 DEF ToClient
  <2>3. H.answer = <<>>
    BY <1>3, <2>2
  <2>4. /\ Resends(h) = IF link # "up" \/ resync # None THEN 1 ELSE 0
        /\ Resends(h)' = IF link' # "up" \/ resync' # None THEN 1 ELSE 0
    BY <1>12 DEF Resends
  <2>5. CASE EndsResync(h)
    <3>1. A = b
      <4>1. <<>> \o b = b
        BY <1>6
      <4> QED BY <1>4, <1>6, <2>3, <2>5, <4>1
    <3>2. Resends(h)' = 0 /\ Resends(h) = 1
      BY <1>2, <1>5, <1>12, <2>2, <2>4, <2>5
    <3> QED BY <1>8, <3>1, <3>2 DEF A, b
  <2>6. CASE ~EndsResync(h)
    <3>1. A = <<>> /\ Resends(h)' = Resends(h)
      BY <1>2, <1>4, <2>3, <2>4, <2>6
    <3> QED BY <1>9, <1>10, <3>1 DEF A
  <2> QED BY <2>5, <2>6
<1>13. CASE h = "server"
  <2> DEFINE u == IF link # "up" THEN 1 ELSE 0
             s == Path("client")
             t == Tail(s)
  <2>1. Peer(h) = "client" /\ s \in Seq(Message) /\ s # <<>> /\ s[1] = m /\ s' = t
    BY <1>1, <1>2, <1>5, <1>13, Views DEF Peer, Ends
  <2>2. Count(s, Flush) = Count(t, Flush) + (IF m \in Flush THEN 1 ELSE 0) /\ t \in Seq(Message)
    BY <2>1, CountTail
  <2>3. Count(t, Flush) \in Nat
    BY <2>2, CountType
  <2>4. Resends(h) = Count(s, Flush) + u /\ Resends(h)' = Count(t, Flush) + u /\ u \in Nat
    BY <1>2, <1>13, <2>1 DEF Resends
  <2>5. m \in Flush <=> m.kind = "flush"
    BY <1>2 DEF Flush
  <2>6. A = H.answer
    BY <1>4, <1>5, <1>13
  <2> HIDE DEF u, s, t
  <2>7. Resends(h)' \in Nat
    BY <2>3, <2>4
  <2>8. CASE m.kind = "flush"
    <3>1. PICK a \in Message : a.kind = "ack" /\ a.responding_to = m.id /\ A = Append(b, a)
      BY <1>3, <1>6, <2>6, <2>8
    <3>2. a \in ToClient /\ \A k : Count(<<a>>, DataOf(k)) = 0
      BY <1>11, <3>1
    <3>3. A = b \o <<a>> /\ <<a>> \in Seq(Message)
      BY <1>6, <3>1
    <3>4. A \in Seq(ToClient)
      BY <1>8, <3>1, <3>2
    <3>5. \A k : Count(A, DataOf(k)) = Count(b, DataOf(k)) + 0 /\ Count(b, DataOf(k)) \in Nat
      <4> TAKE k
      <4>1. Count(b \o <<a>>, DataOf(k)) = Count(b, DataOf(k)) + Count(<<a>>, DataOf(k))
        BY <1>6, <3>3, CountConcat
      <4>2. Count(b, DataOf(k)) \in Nat
        BY <1>6, CountType
      <4> QED BY <3>2, <3>3, <4>1, <4>2
    <3>6. \A k : Count(A, DataOf(k)) = Count(b, DataOf(k))
      BY <3>5
    <3>7. Resends(h)' + 1 = Resends(h)
      BY <2>2, <2>3, <2>4, <2>5, <2>8
    <3> QED BY <2>7, <3>4, <3>6, <3>7 DEF A, b
  <2>9. CASE m.kind # "flush"
    <3>1. Resends(h)' = Resends(h)
      BY <2>2, <2>3, <2>4, <2>5, <2>9
    <3>2. A \in Seq(ToClient) /\ \A k : Count(A, DataOf(k)) = 0
      <4>1. m.kind \in {"data", "ack", "started"}
        BY <1>2, <2>9 DEF Message
      <4>2. CASE m.kind = "started"
        BY <1>3, <1>11, <2>6, <4>2
      <4>3. CASE m.kind \in {"data", "ack"}
        BY <1>3, <1>10, <2>6, <4>3
      <4> QED BY <4>1, <4>2, <4>3
    <3> QED BY <2>7, <3>1, <3>2 DEF A
  <2> QED BY <2>8, <2>9
<1> QED BY <1>12, <1>13 DEF Ends

\* start_handling_messages: the message handled was on its way, and what is
\* answered is the buffer once, at most.
LEMMA HandlesHeld ==
    ASSUME Base, Held, NEW h \in Ends, Handles(h)
    PROVE  Held'
<1> DEFINE p == Peer(h)
           m == Arrives(h)
           A == Answer(h)
           b == chan[h].buffer
           b2 == chan'[h].buffer
<1>1. /\ TypeOK /\ p \in Ends /\ Peer(p) = h /\ drops \in Nat /\ chan[h] \in ChannelClient
      /\ b \in Seq(Message) /\ NextId(h) \in Nat /\ NextId(p) \in Nat
  BY Views, TwoEnds DEF Base, TypeOK
<1>2. /\ Path(p) # <<>> /\ m \in Message /\ A \in Seq(Message)
      /\ Path(p)' = Tail(Path(p)) /\ Path(h)' = Path(h) \o A
      /\ chan'[h] = Handling(h).chan /\ chan'[p] = chan[p]
      /\ link' = link /\ drops' = drops
      /\ resync' = IF EndsResync(h) THEN None ELSE resync
  BY <1>1, HandlesView
<1>3. /\ chan'[h] \in ChannelClient /\ Rest(b, b2)
      /\ chan[h].next_message_id <= chan'[h].next_message_id
      /\ chan'[h].taken = chan[h].taken /\ chan'[h].pushed = chan[h].pushed
      /\ m.kind # "data" => chan'[h].handled = chan[h].handled
      /\ m.kind = "data" => chan'[h].handled = Append(chan[h].handled, m.id)
  BY <1>1, <1>2, HandleFacts DEF Handling
<1>4. /\ A \in Seq(ToClient) /\ Resends(h)' \in Nat
      /\ \/ Resends(h)' = Resends(h) /\ \A k : Count(A, DataOf(k)) = 0
         \/ Resends(h)' + 1 = Resends(h) /\ \A k : Count(A, DataOf(k)) = Count(b2, DataOf(k))
  BY AnswerHeld
<1>5. Bounded(h) /\ Unused(h) /\ Once(h) /\ Bounded(p) /\ Unused(p) /\ Once(p)
  BY <1>1 DEF Held
<1>6. m = Path(p)[1]
  BY DEF Arrives
<1> HIDE DEF p, m, A, b, b2
<1>7. /\ chan[p].handled \in Seq(Nat) /\ Path(h) \in Seq(Message) /\ Path(p) \in Seq(Message)
      /\ chan[h].handled \in Seq(Nat) /\ Resends(h) \in Nat /\ Resends(p) \in Nat
  BY <1>1, CopiesType DEF p
<1>8. Distinct(b2) /\ Ids(b2) \subseteq Ids(b)
  <2>1. Distinct(b)
    BY <1>5 DEF Once, b
  <2> QED BY <1>1, <1>3, <2>1, RestDistinct
<1>9. PushedIds(h)' = PushedIds(h) /\ Sending(h)' = Sending(h)
  BY <1>3 DEF PushedIds, Sending
<1>10. Ids(chan[h].buffer)' = Ids(b2)
  BY DEF Ids, b2
<1>11. Once(h)'
  <2>1. /\ chan[h].taken \cap (Ids(b) \cup PushedIds(h)) = {}
        /\ \A q, r \in chan[h].pushed : q.id = r.id => q = r
    BY <1>5 DEF Once, b
  <2>2. Distinct(chan'[h].buffer) /\ Ids(chan'[h].buffer) \subseteq Ids(b)
    BY <1>8 DEF b2
  <2> QED BY <1>3, <1>9, <2>1, <2>2 DEF Once
<1>12. Bounded(h)' /\ Unused(h)'
  <2>1. ASSUME NEW k \in Nat
        PROVE  /\ Copies(h, k)' \in Nat
               /\ Copies(h, k)' + Resends(h)' <= Copies(h, k) + Resends(h) + 0
               /\ Copies(h, k) = 0 /\ k \notin Ids(chan[h].buffer) => Copies(h, k)' = 0
    <3>1. Copies(h, k)' = CopiesIn(chan[p].handled, Path(h) \o A, Sending(h), k)
      BY <1>2, <1>9 DEF Copies, p
    <3>2. Copies(h, k) = CopiesIn(chan[p].handled, Path(h), Sending(h), k)
      BY DEF Copies, p
    <3>3. /\ Copies(h, k)' = Copies(h, k) + Count(A, DataOf(k))
          /\ Copies(h, k) \in Nat /\ Count(A, DataOf(k)) \in Nat
      BY <1>2, <1>7, <3>1, <3>2, CopiesMore
    <3>4. /\ Count(b2, DataOf(k)) = 0 \/ Count(b2, DataOf(k)) = 1
          /\ k \notin Ids(b2) => Count(b2, DataOf(k)) = 0
      BY <1>8, BufferCount
    <3>5. Count(A, DataOf(k)) + Resends(h)' <= Resends(h)
      BY <1>4, <1>7, <3>4
    <3>6. k \notin Ids(b) => Count(A, DataOf(k)) = 0
      BY <1>4, <1>8, <3>4
    <3>7. \A x, y, r, s \in Nat : y + s <= r => (x + y) + s <= x + r + 0
      OBVIOUS
    <3>8. Copies(h, k)' + Resends(h)' <= Copies(h, k) + Resends(h) + 0
      BY <1>4, <1>7, <3>3, <3>5, <3>7
    <3>9. Copies(h, k)' \in Nat
      BY <3>3
    <3>10. Copies(h, k) = 0 /\ k \notin Ids(b) => Copies(h, k)' = 0
      BY <3>3, <3>6
    <3> QED BY <3>8, <3>9, <3>10 DEF b
  <2>2. Resends(h)' <= Resends(h) + 0
    BY <1>4, <1>7
  <2>3. /\ drops' = drops + 0 /\ NextId(h)' \in Nat /\ NextId(h) <= NextId(h)'
    BY <1>1, <1>2, <1>3 DEF NextId, ChannelClient
  <2>4. Ids(chan[h].buffer)' \subseteq Ids(chan[h].buffer) \cup Sending(h)
    BY <1>8, <1>10 DEF b
  <2> QED BY <1>1, <1>4, <1>5, <2>1, <2>2, <2>3, <2>4, NothingNew
<1>13. Resends(p)' = Resends(p)
  <2>1. CASE h = "client"
    <3>1. p = "server" /\ Path("client")' = Path("client") \o A /\ Path("client") \in Seq(Message)
      BY <1>2, <1>7, <2>1 DEF p, Peer
    <3>2. \A i \in DOMAIN A : A[i] \notin Flush
      <4>1. \A i \in DOMAIN A : A[i] \in ToClient
        BY <1>4
      <4> QED BY <4>1 DEF ToClient, Flush
    <3>3. Count(A, Flush) = 0
      BY <3>2, CountNone
    <3>4. Count(Path("client"), Flush) \in Nat
      BY <3>1, CountType
    <3>5. Count(Path("client") \o A, Flush) = Count(Path("client"), Flush) + Count(A, Flush)
      BY <1>2, <3>1, CountConcat
    <3>6. Count(Path("client")', Flush) = Count(Path("client"), Flush)
      <4>1. Count(Path("client") \o A, Flush) = Count(Path("client"), Flush)
        BY <3>3, <3>4, <3>5
      <4> QED BY <3>1, <4>1
    <3> QED BY <1>2, <3>1, <3>6 DEF Resends
  <2>2. CASE h = "server"
    <3>1. p = "client" /\ resync' = resync
      BY <1>2, <2>2 DEF p, Peer, EndsResync
    <3> QED BY <1>2, <3>1 DEF Resends
  <2> QED BY <2>1, <2>2 DEF Ends
<1>14. Bounded(p)' /\ Unused(p)'
  <2>1. ASSUME NEW k \in Nat PROVE Copies(p, k)' = Copies(p, k)
    <3> DEFINE t == Tail(Path(p))
               g == chan[h].handled
               g2 == chan'[h].handled
    <3>1. /\ Count(Path(p), DataOf(k)) = Count(t, DataOf(k)) + (IF m \in DataOf(k) THEN 1 ELSE 0)
          /\ t \in Seq(Message)
      BY <1>2, <1>6, <1>7, CountTail
    <3>2. Count(t, DataOf(k)) \in Nat /\ Count(g, {k}) \in Nat
      BY <1>7, <3>1, CountType
    <3>3. Sending(p)' = Sending(p)
      BY <1>2 DEF Sending
    <3> DEFINE s == IF k \in Sending(p) THEN 1 ELSE 0
    <3>4. s \in Nat
      OBVIOUS
    <3>5. Copies(p, k) = Count(g, {k}) + Count(Path(p), DataOf(k)) + s
      BY <1>1 DEF Copies, CopiesIn
    <3>6. Copies(p, k)' = Count(g2, {k}) + Count(t, DataOf(k)) + s
      BY <1>1, <1>2, <3>3 DEF Copies, CopiesIn
    <3> HIDE DEF s, t
    <3>7. m \in DataOf(k) <=> m.kind = "data" /\ m.id = k
      BY <1>2 DEF DataOf
    <3>8. Count(g2, {k}) = Count(g, {k}) + (IF m \in DataOf(k) THEN 1 ELSE 0)
      <4>1. CASE m.kind = "data"
        <5>1. PICK x \in Nat : x = m.id
          BY <1>2 DEF Message
        <5>2. g2 = Append(g, x) /\ g \in Seq(Nat)
          BY <1>3, <1>7, <4>1, <5>1
        <5> HIDE DEF g, g2
        <5>3. Count(Append(g, x), {k}) = Count(g, {k}) + (IF x \in {k} THEN 1 ELSE 0)
          BY <5>2, CountAppend
        <5> QED BY <3>7, <4>1, <5>1, <5>2, <5>3
      <4>2. CASE m.kind # "data"
        BY <1>3, <3>2, <3>7, <4>2
      <4> QED BY <4>1, <4>2
    <3> HIDE DEF g, g2
    <3> QED BY <3>1, <3>2, <3>4, <3>5, <3>6, <3>8
  <2>2. \A k \in Nat : /\ Copies(p, k)' \in Nat
                       /\ Copies(p, k)' + Resends(p)' <= Copies(p, k) + Resends(p) + 0
                       /\ Copies(p, k) = 0 /\ k \notin Ids(chan[p].buffer) => Copies(p, k)' = 0
    <3> TAKE k \in Nat
    <3>1. Copies(p, k) \in Nat
      BY <1>1, CopiesType
    <3> QED BY <1>7, <1>13, <2>1, <3>1
  <2>3. Resends(p)' \in Nat /\ Resends(p)' <= Resends(p) + 0
    BY <1>7, <1>13
  <2>4. /\ drops' = drops + 0 /\ NextId(p)' \in Nat /\ NextId(p) <= NextId(p)'
    BY <1>1, <1>2 DEF NextId
  <2>5. Ids(chan[p].buffer)' \subseteq Ids(chan[p].buffer) \cup Sending(p)
    BY <1>2 DEF Ids
  <2> QED BY <1>1, <1>5, <2>2, <2>3, <2>4, <2>5, NothingNew
<1>15. Once(p)'
  <2>1. PushedIds(p)' = PushedIds(p) /\ chan[p]' = chan[p]
    BY <1>2 DEF PushedIds
  <2> QED BY <1>5, <2>1 DEF Once
<1>16. Path("server")' \in Seq(ToClient)
  <2>1. CASE h = "client"
    <3>1. p = "server"
      BY <2>1 DEF p, Peer
    <3>2. Path("server") \in Seq(ToClient) /\ Path("server") # <<>>
      BY <1>2, <3>1 DEF Held
    <3>3. Tail(Path("server")) \in Seq(ToClient)
      BY <3>2
    <3> QED BY <1>2, <3>1, <3>3
  <2>2. CASE h = "server"
    BY <1>2, <1>4, <2>2, ConcatProperties DEF Held
  <2> QED BY <2>1, <2>2 DEF Ends
<1> QED BY <1>11, <1>12, <1>14, <1>15, <1>16, TwoEnds DEF Held, p

\* A step that handles and sends nothing: no more is on its way, and the times to
\* send again grow by the connection it loses.
LEMMA LessOnTheWay ==
    ASSUME Base, Held, NEW e \in Ends, NEW d \in {0, 1}, drops' = drops + d,
           chan'[e].buffer = chan[e].buffer, chan'[e].taken = chan[e].taken,
           chan'[e].pushed = chan[e].pushed, chan'[Peer(e)].handled = chan[Peer(e)].handled,
           NextId(e)' \in Nat, NextId(e) <= NextId(e)',
           \A k : /\ Count(Path(e)', DataOf(k)) \in Nat
                  /\ Count(Path(e)', DataOf(k)) <= Count(Path(e), DataOf(k)),
           Resends(e)' \in Nat, Resends(e)' <= Resends(e) + d
    PROVE  Bounded(e)' /\ Unused(e)' /\ Once(e)'
<1>1. TypeOK /\ Bounded(e) /\ Unused(e) /\ Once(e)
  BY DEF Base, Held
<1>2. /\ chan[Peer(e)].handled \in Seq(Nat) /\ Path(e) \in Seq(Message) /\ Resends(e) \in Nat
      /\ \A k : Copies(e, k) \in Nat
  BY <1>1, CopiesType
<1>3. /\ Sending(e)' = Sending(e) /\ PushedIds(e)' = PushedIds(e)
      /\ Ids(chan[e].buffer)' = Ids(chan[e].buffer)
  BY DEF Sending, PushedIds, Ids
<1>4. Once(e)'
  BY <1>1, <1>3 DEF Once
<1>5. ASSUME NEW k \in Nat PROVE Copies(e, k)' \in Nat /\ Copies(e, k)' <= Copies(e, k)
  <2> DEFINE s == IF k \in Sending(e) THEN 1 ELSE 0
             g == Count(chan[Peer(e)].handled, {k})
             x == Count(Path(e), DataOf(k))
             y == Count(Path(e)', DataOf(k))
  <2>1. s \in Nat /\ g \in Nat /\ x \in Nat
    BY <1>2, CountType
  <2>2. y \in Nat /\ y <= x
    OBVIOUS
  <2>3. Copies(e, k) = g + x + s
    BY DEF Copies, CopiesIn
  <2>4. Copies(e, k)' = g + y + s
    BY <1>3 DEF Copies, CopiesIn
  <2> HIDE DEF s, g, x, y
  <2> QED BY <2>1, <2>2, <2>3, <2>4
<1>6. \A k \in Nat : /\ Copies(e, k)' \in Nat
                     /\ Copies(e, k)' + Resends(e)' <= Copies(e, k) + Resends(e) + d
                     /\ Copies(e, k) = 0 /\ k \notin Ids(chan[e].buffer) => Copies(e, k)' = 0
  <2> TAKE k \in Nat
  <2>1. Copies(e, k)' \in Nat /\ Copies(e, k)' <= Copies(e, k)
    BY <1>5
  <2>2. Copies(e, k) \in Nat /\ d \in Nat
    BY <1>2
  <2>3. \A x, y, r, s, n \in Nat : x <= y /\ r <= s + n => x + r <= y + s + n
    OBVIOUS
  <2> QED BY <1>2, <2>1, <2>2, <2>3
<1>7. Ids(chan[e].buffer)' \subseteq Ids(chan[e].buffer) \cup Sending(e)
  BY <1>3
<1> QED BY <1>1, <1>4, <1>6, <1>7, NothingNew

\* The connection is lost: each end will have to send its buffer once more.
LEMMA DropHeld ==
    ASSUME Base, Held, Drop
    PROVE  Held'
<1>1. /\ TypeOK /\ up \in Seq(Message) /\ inbox \in Seq(Message) /\ out \in Seq(Message)
      /\ down \in Seq(Message) /\ drops \in Nat
  BY DEF Base, TypeOK
<1>2. /\ link = "up" /\ link' = "broken" /\ up' = <<>> /\ down' = <<>> /\ drops' = drops + 1
      /\ chan' = chan /\ resync' = resync /\ inbox' = inbox /\ out' = out
  BY DEF Drop
<1>3. /\ Path("client") = inbox \o up /\ Path("client")' = inbox
      /\ Path("server") = down \o out /\ Path("server")' = out
  <2>1. inbox \o <<>> = inbox /\ <<>> \o out = out
    BY <1>1
  <2>2. Path("client")' = inbox' \o up' /\ Path("server")' = down' \o out'
    BY DEF Path
  <2> QED BY <1>2, <2>1, <2>2 DEF Path
<1>4. \A S : /\ Count(inbox, S) \in Nat /\ Count(inbox, S) <= Count(inbox \o up, S)
             /\ Count(out, S) \in Nat /\ Count(out, S) <= Count(down \o out, S)
  <2> TAKE S
  <2>1. /\ Count(inbox, S) \in Nat /\ Count(up, S) \in Nat /\ Count(out, S) \in Nat
        /\ Count(down, S) \in Nat
    BY <1>1, CountType
  <2>2. Count(inbox \o up, S) = Count(inbox, S) + Count(up, S)
    BY <1>1, CountConcat
  <2>3. Count(down \o out, S) = Count(down, S) + Count(out, S)
    BY <1>1, CountConcat
  <2> QED BY <2>1, <2>2, <2>3
<1>5. ASSUME NEW e \in Ends PROVE Bounded(e)' /\ Unused(e)' /\ Once(e)'
  <2>1. \A k : /\ Count(Path(e)', DataOf(k)) \in Nat
               /\ Count(Path(e)', DataOf(k)) <= Count(Path(e), DataOf(k))
    <3>1. CASE e = "client"
      BY <1>3, <1>4, <3>1
    <3>2. CASE e = "server"
      BY <1>3, <1>4, <3>2
    <3> QED BY <3>1, <3>2 DEF Ends
  <2>2. Resends(e)' \in Nat /\ Resends(e)' <= Resends(e) + 1
    <3>1. CASE e = "client"
      BY <1>2, <3>1 DEF Resends
    <3>2. CASE e = "server"
      <4>1. Resends(e) = Count(inbox \o up, Flush) + 0 /\ Resends(e)' = Count(inbox, Flush) + 1
        BY <1>2, <1>3, <3>2 DEF Resends
      <4>2. Count(inbox, Flush) \in Nat /\ Count(inbox, Flush) <= Count(inbox \o up, Flush)
        BY <1>4
      <4>3. Count(inbox \o up, Flush) \in Nat
        <5>1. inbox \o up \in Seq(Message)
          BY <1>1
        <5> QED BY <5>1, CountType
      <4> QED BY <4>1, <4>2, <4>3
    <3> QED BY <3>1, <3>2 DEF Ends
  <2>3. NextId(e)' \in Nat /\ NextId(e) <= NextId(e)'
    <3>1. NextId(e) \in Nat /\ NextId(e)' = NextId(e)
      BY <1>1, <1>2, Views DEF NextId
    <3> QED BY <3>1
  <2> QED BY <1>2, <2>1, <2>2, <2>3, LessOnTheWay
<1>6. Path("server")' \in Seq(ToClient)
  <2>1. down \o out \in Seq(ToClient)
    BY <1>3 DEF Held
  <2>2. \A i \in 1..Len(out) : out[i] \in ToClient
    <3> TAKE i \in 1..Len(out)
    <3>1. /\ Len(down) + i \in 1..(Len(down) + Len(out)) /\ Len(down) \in Nat
          /\ (Len(down) + i) - Len(down) = i /\ ~(Len(down) + i <= Len(down))
      BY <1>1
    <3>2. (down \o out)[Len(down) + i] = out[i] /\ Len(down \o out) = Len(down) + Len(out)
      BY <1>1, <3>1, ConcatProperties
    <3> QED BY <2>1, <3>1, <3>2
  <2>3. out = [i \in 1..Len(out) |-> out[i]] /\ Len(out) \in Nat
    BY <1>1
  <2>4. out \in [1..Len(out) -> ToClient]
    BY <2>2, <2>3
  <2>5. out \in Seq(ToClient)
    BY <2>3, <2>4, SeqDef
  <2> QED BY <1>3, <2>5
<1> QED BY <1>5, <1>6 DEF Held

\* A step that leaves what is on its way alone, and the ends too.
LEMMA NothingMoves ==
    ASSUME Base, Held, \A e \in Ends : Path(e)' = Path(e), chan' = chan, resync' = resync,
           drops' = drops, link' = "up" <=> link = "up"
    PROVE  Held'
<1>1. TypeOK /\ Path("client")' = Path("client") /\ Path("server")' = Path("server")
  BY DEF Base, Ends
<1>2. ASSUME NEW e \in Ends PROVE Bounded(e)' /\ Unused(e)' /\ Once(e)'
  <2>1. Resends(e)' = Resends(e)
    BY <1>1 DEF Resends
  <2>2. Bounded(e) /\ Unused(e) /\ Once(e)
    BY DEF Held
  <2>3. chan[e]' = chan[e] /\ chan[Peer(e)].handled' = chan[Peer(e)].handled /\ Path(e)' = Path(e)
    OBVIOUS
  <2> QED BY <1>1, <2>1, <2>2, <2>3, Untouched
<1> QED BY <1>1, <1>2 DEF Held

\* The server's loop reads and writes; what it writes to a lost connection is lost.
LEMMA LoopHeld ==
    ASSUME Base, Held, ServerReads \/ ServerWrites
    PROVE  Held'
<1>1. /\ TypeOK /\ up \in Seq(Message) /\ inbox \in Seq(Message) /\ out \in Seq(Message)
      /\ down \in Seq(Message) /\ drops \in Nat
  BY DEF Base, TypeOK
<1>2. CASE link = "up"
  <2>1. /\ Path("client")' = Path("client") /\ Path("server")' = Path("server")
        /\ UNCHANGED <<chan, resync, link, sent, setting, drops>>
    BY <1>1, <1>2, LoopView
  <2>2. \A e \in Ends : Path(e)' = Path(e)
    BY <2>1 DEF Ends
  <2> QED BY <2>1, <2>2, NothingMoves
<1>3. CASE link # "up"
  <2>1. /\ out # <<>> /\ out' = Tail(out) /\ down' = down /\ link' = link
        /\ UNCHANGED <<chan, resync, up, inbox, drops>>
    BY <1>3 DEF ServerReads, ServerWrites
  <2>2. down = <<>>
    BY <1>3 DEF Base, Quiet
  <2>3. Path("client")' = Path("client") /\ Path("server") = out /\ Path("server")' = Tail(out)
    <3>1. <<>> \o out = out /\ <<>> \o Tail(out) = Tail(out)
      BY <1>1, <2>1
    <3>2. Path("server") = down \o out /\ Path("server")' = down' \o out'
      BY DEF Path
    <3>3. Path("client") = inbox \o up /\ Path("client")' = inbox' \o up'
      BY DEF Path
    <3> QED BY <2>1, <2>2, <3>1, <3>2, <3>3
  <2>4. ASSUME NEW e \in Ends PROVE Bounded(e)' /\ Unused(e)' /\ Once(e)'
    <3>1. Resends(e)' = Resends(e) /\ Resends(e) \in Nat
      BY <1>1, <2>1, <2>3, CopiesType DEF Resends
    <3>2. \A k : /\ Count(Path(e)', DataOf(k)) \in Nat
                 /\ Count(Path(e)', DataOf(k)) <= Count(Path(e), DataOf(k))
      <4> TAKE k
      <4>1. CASE e = "client"
        <5>1. Count(Path(e), DataOf(k)) \in Nat /\ Path(e)' = Path(e)
          <6>1. Path(e) \in Seq(Message)
            BY <1>1, Views
          <6> QED BY <2>3, <4>1, <6>1, CountType
        <5> QED BY <5>1
      <4>2. CASE e = "server"
        <5>1. /\ Count(out, DataOf(k)) = Count(Tail(out), DataOf(k))
                                            + (IF out[1] \in DataOf(k) THEN 1 ELSE 0)
              /\ Tail(out) \in Seq(Message)
          BY <1>1, <2>1, CountTail
        <5>2. Count(Tail(out), DataOf(k)) \in Nat
          BY <5>1, CountType
        <5>3. Count(Tail(out), DataOf(k)) <= Count(out, DataOf(k))
          BY <5>1, <5>2
        <5> QED BY <2>3, <4>2, <5>2, <5>3
      <4> QED BY <4>1, <4>2 DEF Ends
    <3>3. NextId(e) \in Nat /\ NextId(e)' = NextId(e)
      BY <1>1, <2>1, Views DEF NextId
    <3>4. /\ Resends(e)' \in Nat /\ Resends(e)' <= Resends(e) + 0 /\ drops' = drops + 0
          /\ NextId(e)' \in Nat /\ NextId(e) <= NextId(e)'
      BY <1>1, <2>1, <3>1, <3>3
    <3> QED BY <2>1, <3>2, <3>4, LessOnTheWay
  <2>5. Path("server")' \in Seq(ToClient)
    <3>1. out \in Seq(ToClient) /\ out # <<>>
      BY <2>1, <2>3 DEF Held
    <3>2. Tail(out) \in Seq(ToClient)
      BY <3>1
    <3> QED BY <2>3, <3>2
  <2> QED BY <2>4, <2>5 DEF Held
<1> QED BY <1>2, <1>3

\* A connection is opened: the request to flush takes the place of the connection
\* that was to be opened.
LEMMA ReconnectHeld ==
    ASSUME Base, Held, Reconnect
    PROVE  Held'
<1>1. /\ TypeOK /\ up \in Seq(Message) /\ inbox \in Seq(Message) /\ out \in Seq(Message)
      /\ down \in Seq(Message) /\ drops \in Nat
  BY DEF Base, TypeOK
<1>2. /\ link = "down" /\ link' = "up" /\ resync' \in Nat
      /\ up' \in Seq(Message) /\ Len(up') = 2 /\ up'[1].kind = "flush" /\ up'[2].kind = "started"
      /\ chan'["client"].next_message_id = NextId("client") + 1
      /\ chan'["client"].buffer = chan["client"].buffer
      /\ chan'["client"].handled = chan["client"].handled
      /\ chan'["client"].taken = chan["client"].taken
      /\ chan'["client"].pushed = chan["client"].pushed
      /\ chan'["server"] = chan["server"]
      /\ UNCHANGED <<inbox, out, down, sent, setting, drops>>
  BY <1>1, ReconnectView
<1>3. PICK x \in Seq(Message) : x = up'
  BY <1>2
<1>4. /\ x[1].kind = "flush" /\ x[2].kind = "started" /\ DOMAIN x = {1, 2}
  <2>1. DOMAIN x = 1..2
    BY <1>2, <1>3
  <2>2. 1..2 = {1, 2}
    OBVIOUS
  <2> QED BY <1>2, <1>3, <2>1, <2>2
<1>5. \A k : Count(x, DataOf(k)) = 0
  <2>1. \A k : \A i \in DOMAIN x : x[i] \notin DataOf(k)
    BY <1>4 DEF DataOf
  <2> QED BY <2>1, CountNone
<1>6. Count(x, Flush) = 0 \/ Count(x, Flush) = 1
  <2>1. x[2] \notin Flush
    BY <1>4 DEF Flush
  <2>2. \A i, j \in DOMAIN x : x[i] \in Flush /\ x[j] \in Flush => i = j
    BY <1>4, <2>1
  <2> QED BY <2>2, CountUnique
<1>7. /\ Path("client") = inbox /\ Path("client")' = inbox \o x /\ Path("server")' = Path("server")
  <2>1. up = <<>>
    BY <1>2 DEF Base, Quiet
  <2>2. inbox \o <<>> = inbox
    BY <1>1
  <2>3. Path("client") = inbox \o up /\ Path("client")' = inbox' \o up'
    BY DEF Path
  <2>4. Path("server") = down \o out /\ Path("server")' = down' \o out'
    BY DEF Path
  <2> QED BY <1>2, <1>3, <2>1, <2>2, <2>3, <2>4
<1>8. \A S : Count(inbox \o x, S) = Count(inbox, S) + Count(x, S) /\ Count(inbox, S) \in Nat
  <2> TAKE S
  <2>1. Count(inbox \o x, S) = Count(inbox, S) + Count(x, S)
    BY <1>1, <1>3, CountConcat
  <2>2. Count(inbox, S) \in Nat
    BY <1>1, CountType
  <2> QED BY <2>1, <2>2
<1>9. ASSUME NEW e \in Ends PROVE Bounded(e)' /\ Unused(e)' /\ Once(e)'
  <2>1. \A k : /\ Count(Path(e)', DataOf(k)) \in Nat
               /\ Count(Path(e)', DataOf(k)) <= Count(Path(e), DataOf(k))
    <3> TAKE k
    <3>1. CASE e = "client"
      <4>1. /\ Count(inbox \o x, DataOf(k)) = Count(inbox, DataOf(k)) + 0
            /\ Count(inbox, DataOf(k)) \in Nat
        BY <1>5, <1>8
      <4>2. Count(inbox \o x, DataOf(k)) \in Nat
            /\ Count(inbox \o x, DataOf(k)) <= Count(inbox, DataOf(k))
        BY <4>1
      <4> QED BY <1>7, <3>1, <4>2
    <3>2. CASE e = "server"
      <4>1. Count(Path(e), DataOf(k)) \in Nat /\ Path(e)' = Path(e)
        <5>1. Path(e) \in Seq(Message)
          BY <1>1, Views
        <5> QED BY <1>7, <3>2, <5>1, CountType
      <4> QED BY <4>1
    <3> QED BY <3>1, <3>2 DEF Ends
  <2>2. Resends(e)' \in Nat /\ Resends(e)' <= Resends(e) + 0
    <3>1. CASE e = "client"
      <4>1. Resends(e) = 1 /\ Resends(e)' \in {0, 1}
        BY <1>2, <3>1 DEF Resends
      <4> QED BY <4>1
    <3>2. CASE e = "server"
      <4>1. Resends(e) = Count(inbox, Flush) + 1 /\ Resends(e)' = Count(inbox \o x, Flush) + 0
        BY <1>2, <1>7, <3>2 DEF Resends
      <4>2. Count(inbox \o x, Flush) = Count(inbox, Flush) + Count(x, Flush)
            /\ Count(inbox, Flush) \in Nat
        BY <1>8
      <4> QED BY <1>6, <4>1, <4>2
    <3> QED BY <3>1, <3>2 DEF Ends
  <2>3. /\ chan'[e].buffer = chan[e].buffer /\ chan'[e].taken = chan[e].taken
        /\ chan'[e].pushed = chan[e].pushed /\ chan'[Peer(e)].handled = chan[Peer(e)].handled
        /\ NextId(e)' = NextId(e) \/ NextId(e)' = NextId(e) + 1
    BY <1>2 DEF Ends, Peer, NextId
  <2>4. NextId(e)' \in Nat /\ NextId(e) <= NextId(e)'
    <3>1. NextId(e) \in Nat
      BY <1>1, Views
    <3> QED BY <2>3, <3>1
  <2>5. drops' = drops + 0
    BY <1>1, <1>2
  <2> QED BY <2>1, <2>2, <2>3, <2>4, <2>5, LessOnTheWay
<1>10. Path("server")' \in Seq(ToClient)
  BY <1>7 DEF Held
<1> QED BY <1>9, <1>10 DEF Held

-----------------------------------------------------------------------------
(* The invariant *)

\* At the start nothing was sent.
LEMMA RepeatsInit == Init => RInv
<1> SUFFICES ASSUME Init PROVE RInv
  OBVIOUS
<1>1. Base
  BY BaseInit
<1> DEFINE c == [next_message_id |-> 1, buffer |-> <<>>, max_received |-> 0,
                 taken |-> {}, pushed |-> {}, handled |-> <<>>]
<1>2. c.buffer = <<>> /\ c.taken = {} /\ c.pushed = {} /\ c.handled = <<>>
  OBVIOUS
<1> HIDE DEF c
<1>3. chan = [end \in Ends |-> c] /\ link = "up" /\ resync = None /\ drops = 0
  BY DEF Init, c
<1>4. \A e \in Ends : Path(e) = <<>>
  <2>1. <<>> \o <<>> = <<>>
    OBVIOUS
  <2> QED BY <2>1 DEF Path, Init
<1>5. \A S : Count(<<>>, S) = 0
  <2>1. \A S : \A i \in DOMAIN <<>> : <<>>[i] \notin S
    OBVIOUS
  <2> QED BY <2>1, CountNone
<1>6. ASSUME NEW e \in Ends PROVE Bounded(e) /\ Unused(e) /\ Once(e)
  <2>1. chan[e] = c /\ chan[Peer(e)] = c
    BY <1>3, TwoEnds
  <2>2. Sending(e) = {} /\ PushedIds(e) = {} /\ Ids(chan[e].buffer) = {}
    BY <1>2, <2>1 DEF Sending, PushedIds, Ids
  <2>3. \A k : Copies(e, k) = 0
    BY <1>2, <1>4, <1>5, <2>1, <2>2 DEF Copies, CopiesIn
  <2>4. Resends(e) = 0
    BY <1>3, <1>4, <1>5 DEF Resends, Ends
  <2>5. Bounded(e) /\ Unused(e)
    BY <1>3, <2>2, <2>3, <2>4 DEF Bounded, Unused
  <2>6. Once(e)
    BY <1>2, <2>1, <2>2 DEF Once, Distinct
  <2> QED BY <2>5, <2>6
<1>7. Path("server") \in Seq(ToClient)
  <2>1. Path("server") = <<>>
    BY <1>4 DEF Ends
  <2>2. <<>> \in Seq(ToClient)
    OBVIOUS
  <2> QED BY <2>1, <2>2
<1> QED BY <1>1, <1>6, <1>7 DEF RInv, Held

\* Every step keeps the counts: one step of the proof per action.
LEMMA RepeatsNext == RInv /\ [Next]_vars => RInv'
<1> SUFFICES ASSUME Base, Held, [Next]_vars PROVE Base' /\ Held'
  BY DEF RInv
<1>1. Base'
  BY BaseNext
<1>2. ASSUME NEW end \in Ends, Send(end) PROVE Held'
  BY <1>2, SendHeld
<1>3. ASSUME NEW end \in Ends, TakeId(end) PROVE Held'
  BY <1>3, TakeIdHeld
<1>4. ASSUME NEW end \in Ends, BufferTaken(end) PROVE Held'
  BY <1>4, BufferTakenHeld
<1>5. ASSUME NEW end \in Ends, SendPushed(end) PROVE Held'
  BY <1>5, SendPushedHeld
<1>6. CASE ClientHandles
  <2>1. Handles("client") /\ "client" \in Ends
    BY <1>6 DEF Handles, Ends
  <2> QED BY <1>1, <2>1, HandlesHeld
<1>7. CASE ServerHandles
  <2>1. Handles("server") /\ "server" \in Ends
    BY <1>7 DEF Handles, Ends
  <2> QED BY <1>1, <2>1, HandlesHeld
<1>8. CASE ServerReads
  BY <1>1, <1>8, LoopHeld
<1>9. CASE ServerWrites
  BY <1>1, <1>9, LoopHeld
<1>10. CASE Drop
  BY <1>1, <1>10, DropHeld
<1>11. CASE ServerNotices
  <2>1. \A e \in Ends : Path(e)' = Path(e)
    BY <1>11 DEF ServerNotices, Path
  <2>2. /\ chan' = chan /\ resync' = resync /\ drops' = drops /\ link = "broken" /\ link' = "down"
    BY <1>11 DEF ServerNotices
  <2>3. link' = "up" <=> link = "up"
    BY <2>2
  <2> QED BY <1>1, <2>1, <2>2, <2>3, NothingMoves
<1>12. CASE Reconnect
  BY <1>1, <1>12, ReconnectHeld
<1>13. CASE UNCHANGED vars
  <2>1. \A e \in Ends : Path(e)' = Path(e)
    BY <1>13 DEF vars, wires, Path
  <2>2. /\ chan' = chan /\ resync' = resync /\ drops' = drops /\ link' = link
    BY <1>13 DEF vars, wires
  <2> QED BY <1>1, <2>1, <2>2, NothingMoves
<1> QED BY <1>1, <1>2, <1>3, <1>4, <1>5, <1>6, <1>7, <1>8, <1>9, <1>10, <1>11, <1>12, <1>13
        DEF Next, Tasks

\* The copies of every message, the ids and what goes to the client are as RInv
\* says, over any number of lost connections and with any threads.
THEOREM CountsInvariance == Spec => []RInv
<1>1. Init => RInv
  BY RepeatsInit
<1>2. RInv /\ [Next]_vars => RInv'
  BY RepeatsNext
<1> QED BY <1>1, <1>2, PTL DEF Spec

\* A message is handled again at most once for each connection lost, over any
\* number of them: the server's queue that outlives a connection, the buffers
\* sent again and the answer to a request of an earlier connection never add up
\* to more (start_handling_messages, resync).
THEOREM RepeatsAreBounded == Spec => []RepeatsBounded
<1>1. RInv => RepeatsBounded
  <2> SUFFICES ASSUME Base, Held, NEW end \in Ends, NEW id \in HandledBy(end)
               PROVE  Cardinality({i \in DOMAIN chan[end].handled : chan[end].handled[i] = id})
                        <= 1 + drops
    BY DEF RInv, RepeatsBounded
  <2> DEFINE p == Peer(end)
             s == chan[end].handled
  <2>1. TypeOK /\ p \in Ends /\ Peer(p) = end /\ drops \in Nat
    BY TwoEnds DEF Base, TypeOK
  <2>2. s \in Seq(Nat) /\ Path(p) \in Seq(Message) /\ Resends(p) \in Nat
    BY <2>1, CopiesType
  <2>3. id \in Nat
    BY <2>2 DEF HandledBy
  <2>4. Copies(p, id) + Resends(p) <= 1 + drops
    BY <2>1, <2>3 DEF Held, Bounded
  <2>5. Count(s, {id}) \in Nat /\ Count(Path(p), DataOf(id)) \in Nat
    BY <2>2, CountType
  <2>6. PICK x \in Nat : Copies(p, id) = Count(s, {id}) + Count(Path(p), DataOf(id)) + x
    <3>1. Copies(p, id) = Count(s, {id}) + Count(Path(p), DataOf(id))
                            + (IF id \in Sending(p) THEN 1 ELSE 0)
      BY <2>1 DEF Copies, CopiesIn
    <3>2. (IF id \in Sending(p) THEN 1 ELSE 0) \in Nat
      OBVIOUS
    <3> QED BY <3>1, <3>2
  <2>7. Places(s, {id}) = {i \in DOMAIN s : s[i] = id}
    BY DEF Places
  <2> HIDE DEF s, p
  <2>8. Count(s, {id}) <= 1 + drops
    BY <2>1, <2>2, <2>4, <2>5, <2>6
  <2> QED BY <2>7, <2>8 DEF Count, s
<1>2. Spec => []RInv
  BY CountsInvariance
<1> QED BY <1>1, <1>2, PTL
================================================================================
