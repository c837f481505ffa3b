---------------------------- MODULE RunsFeedProofs ----------------------------
(***************************************************************************)
(* The safety of the Remote tab, for any remotes, any daemons and any      *)
(* length of their logs and runs: the tab shows the selected remote's run  *)
(* and log, the log in order and without a repeat, the events of a run     *)
(* pushed without a hole, and a live status only while its feed is there.  *)
(***************************************************************************)
EXTENDS RunsFeed, WellOrder, SequenceTheorems, TLAPS

\* The items of one remote, and the events of its run that were so far.
ItemOf(rm) == [of : {rm}, n : Nat]
FirstEvents(rm, n) == {Items(rm, 0, k) : k \in 0..n}

\* What the feed of the remote rm, with the socket or not, can be told while its
\* run has n events.
Message(socket, rm, n) ==
    [kind : {"attached", "unreachable"}]
    \cup [kind : {"unsupported"} \cap (IF socket = "none" THEN {"unsupported"} ELSE {})]
    \cup [kind : {"run"}, ended : BOOLEAN]
    \cup [kind : {"event"}, index : 0..(n - 1)]
    \cup [kind : {"log"}, seq : Nat]
    \cup [kind : {"snapshot"}, ended : BOOLEAN, events : Opt(FirstEvents(rm, n)),
          logs : Seq(ItemOf(rm)), log_next : Nat]

FeedOn(socket, rm, n) ==
    [phase : {"connecting", "subscribed", "attached", "over"}, epoch : Nat, remote : {rm},
     pending : Seq(Message(socket, rm, n)), queue : Seq(Message(socket, rm, n))]
HistoryOn(rm, n) ==
    [phase : {"asked", "answered"}, remote : {rm}, page : Opt(FirstEvents(rm, n))]
Poll ==
    [phase : {"idle", "asking", "answered"}, epoch : Nat, remote : Remotes, log_cursor : Nat,
     watched : Opt(Nat), page : Opt(Page(Remotes))]

FeedOK ==
    \/ feed = NoFeed
    \/ \E rm \in Remotes : feed \in FeedOn(site.remotes[rm], rm, daemon[rm].events)
PollOK ==
    \/ poll = NoPoll
    \/ poll \in Poll /\ poll.log_cursor <= daemon[poll.remote].lines
HistoryOK ==
    \/ history = NoHistory
    \/ \E rm \in Remotes : history \in HistoryOn(rm, daemon[rm].events)

\* The log of p is its selected remote's, in order, and before log_next; so is
\* the row of its table.
LogOf(p) ==
    /\ \A i \in DOMAIN p.logs : p.logs[i].of = p.selected /\ p.logs[i].n < p.log_next
    /\ \A i \in DOMAIN p.logs : \A j \in 1..(i - 1) : p.logs[j].n < p.logs[i].n
RowOf(p) == p.runs # None => p.runs.of = p.selected

\* A feed or a poll t of an epoch that passed is known by it; the current one is
\* of the remote selected, and they are never both current.
Current(p, t) ==
    t.phase # "none" => t.epoch <= p.epoch /\ (t.epoch = p.epoch => t.remote = p.selected)
Apart == feed.phase # "none" /\ poll.phase # "none" => feed.epoch # poll.epoch

\* The current poll goes on in the log where the panel p is.
Cursor(p, t) ==
    t.phase # "none" /\ t.epoch = p.epoch =>
        IF t.page = None THEN t.log_cursor = p.log_next
        ELSE /\ t.phase = "answered" /\ p.log_next <= t.log_cursor
             /\ t.page.lines = Items(t.remote, p.log_next, t.log_cursor)

\* A daemon that pushes is not polled, and its events are the first of its run.
HeldBy(p) == p.events # None => p.events \in FirstEvents(p.selected, daemon[p.selected].events)
Streams == Streamed => poll.phase = "none" /\ HeldBy(panel)

IInv ==
    /\ TypeOK /\ FeedOK /\ PollOK /\ HistoryOK
    /\ LogOf(panel) /\ RowOf(panel)
    /\ Current(panel, feed) /\ Current(panel, poll) /\ Apart /\ Cursor(panel, poll)
    /\ LiveIsFed /\ Streams

-----------------------------------------------------------------------------
(* Lines and events *)

\* Items are as many as they should be, in order, and of their remote.
LEMMA ItemsFacts ==
    ASSUME NEW rm, NEW from \in Nat, NEW to \in Nat, from <= to
    PROVE  /\ Items(rm, from, to) \in Seq(ItemOf(rm))
           /\ Len(Items(rm, from, to)) = to - from
           /\ \A i \in 1..(to - from) : Items(rm, from, to)[i] = [of |-> rm, n |-> from + i - 1]
<1> DEFINE f == Items(rm, from, to)
<1>1. to - from \in Nat
  OBVIOUS
<1>2. f = [i \in 1..(to - from) |-> [of |-> rm, n |-> from + i - 1]]
  BY DEF Items
<1>3. \A i \in 1..(to - from) : [of |-> rm, n |-> from + i - 1] \in ItemOf(rm)
  BY DEF ItemOf
<1>4. f \in [1..(to - from) -> ItemOf(rm)]
  BY <1>2, <1>3
<1>5. f \in Seq(ItemOf(rm)) /\ Len(f) = to - from
  BY <1>1, <1>4, IsASeq, LenProperties
<1> QED BY <1>2, <1>5

\* None are asked for from beyond the end.
LEMMA ItemsType ==
    ASSUME NEW rm, NEW from \in Nat, NEW to \in Nat
    PROVE  Items(rm, from, to) \in Seq(ItemOf(rm))
<1>1. CASE from <= to
  BY <1>1, ItemsFacts
<1>2. CASE ~(from <= to)
  <2>1. 1..(to - from) = 1..0
    BY <1>2
  <2>2. Items(rm, from, to) \in [1..0 -> ItemOf(rm)]
    BY <2>1 DEF Items
  <2> QED BY <2>2, IsASeq
<1> QED BY <1>1, <1>2

\* The first ones.
LEMMA FirstItems ==
    ASSUME NEW rm, NEW k \in Nat
    PROVE  /\ Items(rm, 0, k) \in Seq(ItemOf(rm))
           /\ Len(Items(rm, 0, k)) = k
           /\ \A i \in 1..k : Items(rm, 0, k)[i] = [of |-> rm, n |-> i - 1]
<1> DEFINE f == Items(rm, 0, k)
<1>1. 0 \in Nat /\ 0 <= k /\ k - 0 = k /\ \A i \in Nat : 0 + i - 1 = i - 1
  OBVIOUS
<1>2. /\ f \in Seq(ItemOf(rm)) /\ Len(f) = k - 0
      /\ \A i \in 1..(k - 0) : f[i] = [of |-> rm, n |-> 0 + i - 1]
  BY <1>1, ItemsFacts, Zenon
<1> HIDE DEF f
<1>3. Len(f) = k /\ \A i \in 1..k : f[i] = [of |-> rm, n |-> i - 1]
  BY <1>1, <1>2
<1> QED BY <1>2, <1>3 DEF f

\* The next event goes at the end of the first ones.
LEMMA ItemsAppend ==
    ASSUME NEW rm, NEW k \in Nat
    PROVE  Append(Items(rm, 0, k), [of |-> rm, n |-> k]) = Items(rm, 0, k + 1)
<1> DEFINE s == Items(rm, 0, k)
           t == Items(rm, 0, k + 1)
           u == Append(s, [of |-> rm, n |-> k])
<1>1. s \in Seq(ItemOf(rm)) /\ Len(s) = k /\ \A i \in 1..k : s[i] = [of |-> rm, n |-> i - 1]
  BY FirstItems
<1>2. t \in Seq(ItemOf(rm)) /\ Len(t) = k + 1
      /\ \A i \in 1..(k + 1) : t[i] = [of |-> rm, n |-> i - 1]
  BY FirstItems
<1> HIDE DEF s, t
<1>3. [of |-> rm, n |-> k] \in ItemOf(rm)
  BY DEF ItemOf
<1>4. u \in Seq(ItemOf(rm)) /\ Len(u) = k + 1
      /\ \A i \in 1..(k + 1) : u[i] = [of |-> rm, n |-> i - 1]
  BY <1>1, <1>3
<1> HIDE DEF u
<1>5. u = t
  BY <1>2, <1>4, SeqEqual
<1> QED BY <1>5 DEF s, t, u

\* The last of a sequence are some of it, in its order.
LEMMA LastOfFacts ==
    ASSUME NEW S, NEW seq \in Seq(S), NEW n \in Nat
    PROVE  /\ LastOf(seq, n) \in Seq(S)
           /\ \E d \in Nat : /\ Len(LastOf(seq, n)) + d = Len(seq)
                             /\ \A i \in 1..Len(LastOf(seq, n)) : LastOf(seq, n)[i] = seq[i + d]
<1>1. CASE Len(seq) <= n
  BY <1>1 DEF LastOf
<1>2. CASE Len(seq) > n
  <2> DEFINE d == Len(seq) - n
             t == SubSeq(seq, d + 1, Len(seq))
  <2>1. d \in Nat /\ d + n = Len(seq) /\ LastOf(seq, n) = t
    BY <1>2 DEF LastOf
  <2>2. t \in Seq(S) /\ Len(t) = n /\ \A i \in 1..n : t[i] = seq[i + d]
    BY <1>2, SubSeqProperties
  <2> HIDE DEF d, t
  <2>3. /\ t \in Seq(S)
        /\ \E e \in Nat : Len(t) + e = Len(seq) /\ \A i \in 1..Len(t) : t[i] = seq[i + e]
    <3>1. Len(t) + d = Len(seq) /\ \A i \in 1..Len(t) : t[i] = seq[i + d]
      BY <2>1, <2>2
    <3> QED BY <2>1, <2>2, <3>1
  <2> QED BY <2>1, <2>3, Zenon
<1>3. Len(seq) <= n \/ Len(seq) > n
  <2>1. Len(seq) \in Nat
    OBVIOUS
  <2> QED BY <2>1
<1> QED BY <1>1, <1>2, <1>3, Zenon

-----------------------------------------------------------------------------
(* The log *)

\* What a log line leaves alone.
SameBut(p, q) ==
    /\ q.surface = p.surface /\ q.selected = p.selected /\ q.epoch = p.epoch
    /\ q.status = p.status /\ q.runs = p.runs /\ q.opened = p.opened
    /\ q.events = p.events /\ q.history_for = p.history_for

\* A log and the lines that follow it, cut at the cap.
LEMMA LogGrows ==
    ASSUME NEW p \in Panel, LogOf(p), NEW more \in Seq(ItemOf(p.selected)), NEW next \in Nat,
           \A i \in DOMAIN more : p.log_next <= more[i].n /\ more[i].n < next,
           \A i \in DOMAIN more : \A j \in 1..(i - 1) : more[j].n < more[i].n,
           p.log_next <= next
    PROVE  LET q == [p EXCEPT !.logs = LastOf(@ \o more, LogCap), !.log_next = next]
           IN  q \in Panel /\ LogOf(q) /\ SameBut(p, q)
<1> DEFINE whole == p.logs \o more
           logs == LastOf(whole, LogCap)
           q == [p EXCEPT !.logs = logs, !.log_next = next]
<1>1. p.logs \in Seq(Item) /\ p.log_next \in Nat /\ p.selected \in Remotes
  BY DEF Panel
<1>2. ItemOf(p.selected) \subseteq Item
  BY <1>1 DEF ItemOf, Item
<1>3. more \in Seq(Item)
  BY <1>2
<1>4. /\ whole \in Seq(Item) /\ Len(whole) = Len(p.logs) + Len(more)
      /\ \A i \in 1..Len(p.logs) : whole[i] = p.logs[i]
      /\ \A i \in 1..Len(whole) : i > Len(p.logs) => whole[i] = more[i - Len(p.logs)]
  BY <1>1, <1>3
<1> HIDE DEF whole
<1>5. \A i \in 1..Len(whole) : /\ whole[i].of = p.selected /\ whole[i].n < next
                               /\ whole[i].n \in Nat
  <2> TAKE i \in 1..Len(whole)
  <2>1. CASE i <= Len(p.logs)
    <3>1. i \in DOMAIN p.logs /\ i \in 1..Len(p.logs) /\ p.logs[i] \in Item
      BY <1>1, <2>1
    <3>2. whole[i] = p.logs[i] /\ p.logs[i].n \in Nat
      BY <1>4, <3>1 DEF Item
    <3>3. p.logs[i].of = p.selected /\ p.logs[i].n < p.log_next
      BY <3>1 DEF LogOf
    <3> QED BY <1>1, <3>2, <3>3
  <2>2. CASE i > Len(p.logs)
    <3>1. i - Len(p.logs) \in DOMAIN more /\ more[i - Len(p.logs)] \in ItemOf(p.selected)
      BY <1>1, <1>4, <2>2
    <3> QED BY <1>4, <2>2, <3>1 DEF ItemOf
  <2> QED BY <1>1, <2>1, <2>2
<1>6. \A i \in 1..Len(whole) : \A j \in 1..(i - 1) : whole[j].n < whole[i].n
  <2> TAKE i \in 1..Len(whole)
  <2> TAKE j \in 1..(i - 1)
  <2>1. CASE i <= Len(p.logs)
    <3>1. i \in DOMAIN p.logs /\ i \in 1..Len(p.logs) /\ j \in 1..Len(p.logs)
      BY <1>1, <2>1
    <3> QED BY <1>4, <2>1, <3>1 DEF LogOf
  <2>2. CASE i > Len(p.logs) /\ j <= Len(p.logs)
    <3>1. i - Len(p.logs) \in DOMAIN more /\ j \in DOMAIN p.logs /\ j \in 1..Len(p.logs)
      BY <1>1, <1>4, <2>2
    <3>2. whole[j].n < p.log_next /\ p.log_next <= whole[i].n
      BY <1>4, <2>2, <3>1 DEF LogOf
    <3>3. j \in 1..Len(whole)
      BY <1>4, <3>1
    <3> QED BY <1>1, <1>5, <3>2, <3>3
  <2>3. CASE i > Len(p.logs) /\ j > Len(p.logs)
    <3>1. /\ i - Len(p.logs) \in DOMAIN more /\ j - Len(p.logs) \in 1..(i - Len(p.logs) - 1)
          /\ j \in 1..Len(whole)
      BY <1>1, <1>4, <2>3
    <3> QED BY <1>4, <2>3, <3>1
  <2> QED BY <1>1, <2>1, <2>2, <2>3
<1>7. LogCap \in Nat
  BY LogCapAssumption
<1>8. logs \in Seq(Item)
  BY <1>4, <1>7, LastOfFacts
<1>9. PICK d \in Nat : /\ Len(logs) + d = Len(whole)
                       /\ \A i \in 1..Len(logs) : logs[i] = whole[i + d]
  BY <1>4, <1>7, LastOfFacts
<1>10. q = [p EXCEPT !.logs = LastOf(@ \o more, LogCap), !.log_next = next]
  BY DEF whole
<1> HIDE DEF logs
<1>11. q \in Panel /\ q.logs = logs /\ q.log_next = next /\ q.selected = p.selected
       /\ SameBut(p, q)
  BY <1>8 DEF Panel, SameBut
<1> HIDE DEF q
<1>12. ASSUME NEW i \in 1..Len(logs)
       PROVE  /\ logs[i].of = p.selected /\ logs[i].n < next
              /\ \A j \in 1..(i - 1) : logs[j].n < logs[i].n
  <2>1. Len(logs) \in Nat /\ Len(whole) \in Nat
    BY <1>4, <1>8
  <2>2. i + d \in 1..Len(whole) /\ logs[i] = whole[i + d]
    BY <1>9, <2>1
  <2>3. ASSUME NEW j \in 1..(i - 1) PROVE logs[j].n < logs[i].n
    <3>1. j \in 1..Len(logs) /\ j + d \in 1..((i + d) - 1)
      BY <2>1
    <3>2. logs[j] = whole[j + d]
      BY <1>9, <3>1
    <3> QED BY <1>6, <2>2, <3>1, <3>2
  <2> QED BY <1>5, <2>2, <2>3
<1>13. DOMAIN logs = 1..Len(logs)
  BY <1>8
<1>14. LogOf(q)
  BY <1>11, <1>12, <1>13 DEF LogOf
<1> QED BY <1>10, <1>11, <1>14

\* append_log
LEMMA AppendLogKeeps ==
    ASSUME NEW p \in Panel, LogOf(p), NEW line \in ItemOf(p.selected)
    PROVE  LET q == AppendLog(p, line) IN q \in Panel /\ LogOf(q) /\ SameBut(p, q)
<1>1. CASE line.n < p.log_next
  BY <1>1 DEF AppendLog, SameBut
<1>2. CASE ~(line.n < p.log_next)
  <2> DEFINE more == <<line>>
             next == line.n + 1
             q == [p EXCEPT !.logs = LastOf(@ \o more, LogCap), !.log_next = next]
  <2>1. p.log_next \in Nat /\ p.logs \in Seq(Item) /\ line.n \in Nat
    BY DEF Panel, ItemOf
  <2>2. more \in Seq(ItemOf(p.selected)) /\ next \in Nat /\ p.log_next <= next
    BY <1>2, <2>1
  <2>3. /\ \A i \in DOMAIN more : p.log_next <= more[i].n /\ more[i].n < next
        /\ \A i \in DOMAIN more : \A j \in 1..(i - 1) : more[j].n < more[i].n
    BY <1>2, <2>1
  <2>4. Append(p.logs, line) = p.logs \o more
    BY <2>1
  <2>5. AppendLog(p, line) = q
    BY <1>2, <2>4 DEF AppendLog
  <2> HIDE DEF more, next
  <2>6. q \in Panel /\ LogOf(q) /\ SameBut(p, q)
    BY <2>2, <2>3, LogGrows
  <2> QED BY <2>5, <2>6
<1> QED BY <1>1, <1>2

\* merge_log_tail, by induction on the lines merged so far; that the recursion
\* it is written with has a solution is shown along.
LEMMA MergeLogTailKeeps ==
    ASSUME NEW p \in Panel, LogOf(p), NEW lines \in Seq(ItemOf(p.selected))
    PROVE  LET q == MergeLogTail(p, lines) IN q \in Panel /\ LogOf(q) /\ SameBut(p, q)
<1> DEFINE Solves(f, n) == f = [i \in 0..n |-> IF i = 0 THEN p ELSE AppendLog(f[i - 1], lines[i])]
           OK(q) == q \in Panel /\ LogOf(q) /\ SameBut(p, q)
           N == Len(lines)
<1>1. N \in Nat
  OBVIOUS
<1>2. \A n \in 0..N : \E f : Solves(f, n)
  <2> DEFINE S == {n \in 0..N : \E f : Solves(f, n)}
  <2>1. 0 \in S
    <3> DEFINE f == [i \in 0..0 |-> p]
    <3>1. f = [i \in 0..0 |-> IF i = 0 THEN p ELSE AppendLog(f[i - 1], lines[i])]
      OBVIOUS
    <3>2. Solves(f, 0)
      BY <3>1, Zenon
    <3> HIDE DEF f, Solves
    <3>3. \E h : Solves(h, 0)
      BY <3>2, Zenon
    <3>4. 0 \in 0..N
      BY <1>1
    <3> QED BY <3>3, <3>4
  <2>2. ASSUME NEW n \in 0..(N - 1), n \in S PROVE n + 1 \in S
    <3>1. PICK f : Solves(f, n)
      BY <2>2
    <3> DEFINE g == [i \in 0..(n + 1) |-> IF i <= n THEN f[i] ELSE AppendLog(f[n], lines[n + 1])]
    <3>2. ASSUME NEW i \in 0..(n + 1)
          PROVE  g[i] = IF i = 0 THEN p ELSE AppendLog(g[i - 1], lines[i])
      <4>1. CASE i = 0
        BY <1>1, <3>1, <4>1
      <4>2. CASE i # 0 /\ i <= n
        BY <1>1, <3>1, <4>2
      <4>3. CASE i = n + 1
        BY <1>1, <4>3
      <4> QED BY <1>1, <4>1, <4>2, <4>3
    <3>3. g = [i \in 0..(n + 1) |-> g[i]]
      OBVIOUS
    <3> HIDE DEF g
    <3>4. Solves(g, n + 1)
      BY <3>2, <3>3
    <3>5. n + 1 \in 0..N
      BY <1>1
    <3> QED BY <3>4, <3>5
  <2> HIDE DEF S
  <2>3. \A n \in 0..N : n \in S
    BY <1>1, <2>1, <2>2, UpTo
  <2> QED BY <2>3 DEF S
<1> DEFINE Merged == CHOOSE f : Solves(f, N)
<1>3. MergeLogTail(p, lines) = Merged[N]
  BY DEF MergeLogTail
<1>4. Solves(Merged, N)
  <2>1. \E f : Solves(f, N)
    BY <1>1, <1>2
  <2> HIDE DEF Solves
  <2> QED BY <2>1, Zenon
<1> HIDE DEF Merged
<1>5. Merged[0] = p /\ \A i \in 0..(N - 1) : Merged[i + 1] = AppendLog(Merged[i], lines[i + 1])
  BY <1>1, <1>4
<1>6. \A i \in 0..N : OK(Merged[i])
  <2> DEFINE S == {i \in 0..N : OK(Merged[i])}
  <2>1. 0 \in S
    BY <1>1, <1>5 DEF SameBut
  <2>2. ASSUME NEW i \in 0..(N - 1), i \in S PROVE i + 1 \in S
    <3> DEFINE m == Merged[i]
               q == AppendLog(m, lines[i + 1])
    <3>1. m \in Panel /\ LogOf(m) /\ SameBut(p, m)
      BY <2>2
    <3>2. lines[i + 1] \in ItemOf(m.selected)
      BY <1>1, <3>1 DEF SameBut
    <3> HIDE DEF m
    <3>3. q \in Panel /\ LogOf(q) /\ SameBut(m, q)
      BY <3>1, <3>2, AppendLogKeeps
    <3> HIDE DEF q
    <3>4. SameBut(p, q)
      BY <3>1, <3>3 DEF SameBut
    <3>5. Merged[i + 1] = q /\ i + 1 \in 0..N
      BY <1>1, <1>5 DEF q, m
    <3> QED BY <3>3, <3>4, <3>5
  <2> HIDE DEF S
  <2>3. \A i \in 0..N : i \in S
    BY <1>1, <2>1, <2>2, UpTo
  <2> QED BY <2>3 DEF S
<1>7. OK(Merged[N])
  BY <1>1, <1>6
<1> QED BY <1>3, <1>7

-----------------------------------------------------------------------------
(* Messages *)

\* What each kind of message carries.
LEMMA MessageFields ==
    ASSUME NEW socket, NEW rm, NEW n \in Nat, NEW m \in Message(socket, rm, n)
    PROVE  /\ m.kind \in {"attached", "unreachable", "unsupported", "run", "event", "log",
                          "snapshot"}
           /\ m.kind = "unsupported" => socket = "none"
           /\ m.kind = "run" => m.ended \in BOOLEAN
           /\ m.kind = "event" => m.index \in 0..(n - 1)
           /\ m.kind = "log" => m.seq \in Nat
           /\ m.kind = "snapshot" => /\ m.ended \in BOOLEAN /\ m.events \in Opt(FirstEvents(rm, n))
                                     /\ m.logs \in Seq(ItemOf(rm))
BY DEF Message

\* A run that goes on can be told as before.
LEMMA MessageGrows ==
    ASSUME NEW socket, NEW rm, NEW n \in Nat, NEW k \in Nat, n <= k
    PROVE  /\ FirstEvents(rm, n) \subseteq FirstEvents(rm, k)
           /\ Message(socket, rm, n) \subseteq Message(socket, rm, k)
           /\ FeedOn(socket, rm, n) \subseteq FeedOn(socket, rm, k)
           /\ HistoryOn(rm, n) \subseteq HistoryOn(rm, k)
<1>1. 0..n \subseteq 0..k /\ 0..(n - 1) \subseteq 0..(k - 1)
  OBVIOUS
<1>2. FirstEvents(rm, n) \subseteq FirstEvents(rm, k)
  BY <1>1, Zenon DEF FirstEvents
<1>3. Message(socket, rm, n) \subseteq Message(socket, rm, k)
  BY <1>1, <1>2 DEF Message, Opt
<1>4. Seq(Message(socket, rm, n)) \subseteq Seq(Message(socket, rm, k))
  BY <1>3
<1>5. FeedOn(socket, rm, n) \subseteq FeedOn(socket, rm, k)
  BY <1>4 DEF FeedOn
<1>6. HistoryOn(rm, n) \subseteq HistoryOn(rm, k)
  BY <1>2 DEF HistoryOn, Opt
<1> QED BY <1>2, <1>3, <1>5, <1>6

\* The events a run had are items of its remote.
LEMMA FirstEventsType ==
    ASSUME NEW rm, NEW n \in Nat, NEW e \in FirstEvents(rm, n)
    PROVE  e \in Seq(ItemOf(rm)) /\ Len(e) \in 0..n /\ e = Items(rm, 0, Len(e))
<1>1. PICK k \in 0..n : e = Items(rm, 0, k)
  BY Zenon DEF FirstEvents
<1>2. k \in Nat
  OBVIOUS
<1>3. e \in Seq(ItemOf(rm)) /\ Len(e) = k
  BY <1>1, <1>2, FirstItems
<1> QED BY <1>1, <1>3

\* The snapshot of a session is one of the messages.
LEMMA SnapshotType ==
    ASSUME IInv, NEW rm \in Remotes
    PROVE  Snapshot(rm) \in Message(site.remotes[rm], rm, daemon[rm].events)
<1> DEFINE d == daemon[rm]
           events == IF d.ended \/ d.events = 0 THEN None ELSE Items(rm, 0, d.events)
           logs == LastOf(Items(rm, 0, d.lines), LogCap)
<1>1. d.events \in Nat /\ d.lines \in Nat /\ d.ended \in BOOLEAN
  BY DEF IInv, TypeOK, Daemon
<1>2. Items(rm, 0, d.events) \in FirstEvents(rm, d.events)
  BY <1>1 DEF FirstEvents
<1>3. events \in Opt(FirstEvents(rm, d.events))
  BY <1>2 DEF Opt
<1>4. Items(rm, 0, d.lines) \in Seq(ItemOf(rm))
  BY <1>1, FirstItems
<1>5. logs \in Seq(ItemOf(rm))
  BY <1>4, LastOfFacts, LogCapAssumption
<1>6. Snapshot(rm) = [kind |-> "snapshot", ended |-> d.ended, events |-> events, logs |-> logs,
                      log_next |-> d.lines]
  BY DEF Snapshot
<1> HIDE DEF events, logs
<1>7. [kind |-> "snapshot", ended |-> d.ended, events |-> events, logs |-> logs,
       log_next |-> d.lines] \in Message(site.remotes[rm], rm, d.events)
  BY <1>1, <1>3, <1>5 DEF Message
<1> QED BY <1>6, <1>7

-----------------------------------------------------------------------------
(* The daemon and the socket *)

\* A step of the daemons, or of the watch thread: the runs and the logs only
\* grow, and the feed stays the one it is.
LEMMA SourceStep ==
    ASSUME IInv, UNCHANGED <<site, panel, poll, history>>,
           daemon' \in [Remotes -> Daemon],
           \A rm \in Remotes : /\ daemon[rm].events <= daemon'[rm].events
                               /\ daemon[rm].lines <= daemon'[rm].lines,
           feed' = feed \/
             /\ feed.phase # "none" /\ feed'.epoch = feed.epoch /\ feed'.remote = feed.remote
             /\ feed' \in FeedOn(site.remotes[feed.remote], feed.remote,
                               daemon'[feed.remote].events)
    PROVE  IInv'
<1>1. Remotes' = Remotes
  BY DEF Remotes
<1>2. \A rm \in Remotes : /\ daemon[rm].events \in Nat /\ daemon'[rm].events \in Nat
                          /\ daemon[rm].lines \in Nat /\ daemon'[rm].lines \in Nat
  BY DEF IInv, TypeOK, Daemon
<1>3. FeedOK'
  <2>1. CASE feed' = feed
    <3>1. CASE feed = NoFeed
      BY <2>1, <3>1 DEF FeedOK
    <3>2. ASSUME NEW rm \in Remotes, feed \in FeedOn(site.remotes[rm], rm, daemon[rm].events)
          PROVE  FeedOK'
      <4>1. feed \in FeedOn(site.remotes[rm], rm, daemon'[rm].events)
        BY <1>2, <3>2, MessageGrows
      <4> QED BY <1>1, <2>1, <4>1 DEF FeedOK
    <3> QED BY <3>1, <3>2 DEF IInv, FeedOK
  <2>2. CASE feed' # feed
    <3>1. feed.remote \in Remotes
      BY <2>2 DEF IInv, FeedOK, NoFeed, FeedOn
    <3> QED BY <1>1, <2>2, <3>1 DEF FeedOK
  <2> QED BY <2>1, <2>2
<1>4. feed'.phase \in {"none", "connecting", "subscribed", "attached", "over"}
  BY DEF IInv, TypeOK, FeedOn
<1>5. TypeOK'
  BY <1>1, <1>4 DEF IInv, TypeOK, Panel, Item, Opt
<1>6. PollOK'
  <2>1. Poll' = Poll
    BY <1>1 DEF Poll
  <2>2. CASE poll = NoPoll
    BY <2>2 DEF PollOK
  <2>3. CASE poll \in Poll /\ poll.log_cursor <= daemon[poll.remote].lines
    <3>1. poll.remote \in Remotes /\ poll.log_cursor \in Nat
      BY <2>3 DEF Poll
    <3>2. poll.log_cursor <= daemon'[poll.remote].lines
      BY <1>2, <2>3, <3>1
    <3> QED BY <2>1, <2>3, <3>2 DEF PollOK
  <2> QED BY <2>2, <2>3 DEF IInv, PollOK
<1>7. HistoryOK'
  <2>1. CASE history = NoHistory
    BY <2>1 DEF HistoryOK
  <2>2. ASSUME NEW rm \in Remotes, history \in HistoryOn(rm, daemon[rm].events)
        PROVE  HistoryOK'
    <3>1. history \in HistoryOn(rm, daemon'[rm].events)
      BY <1>2, <2>2, MessageGrows
    <3> QED BY <1>1, <3>1 DEF HistoryOK
  <2> QED BY <2>1, <2>2 DEF IInv, HistoryOK
<1>8. LogOf(panel)' /\ RowOf(panel)' /\ Current(panel, poll)' /\ Cursor(panel, poll)'
  BY DEF IInv, LogOf, RowOf, Current, Cursor
<1>9. feed.phase # "none" /\ feed' # feed => feed'.phase # "none"
  BY DEF FeedOn
<1>10. Current(panel, feed)' /\ Apart' /\ LiveIsFed'
  BY <1>9 DEF IInv, Current, Apart, LiveIsFed
<1>11. Streams'
  <2> SUFFICES ASSUME Streamed', panel.events # None
               PROVE  panel.events \in FirstEvents(panel.selected, daemon'[panel.selected].events)
    BY <1>1 DEF IInv, Streams, Streamed, HeldBy
  <2>1. panel.events \in FirstEvents(panel.selected, daemon[panel.selected].events)
    BY <1>1 DEF IInv, Streams, Streamed, HeldBy
  <2>2. panel.selected \in Remotes
    BY DEF IInv, TypeOK, Panel
  <2> DEFINE n == daemon[panel.selected].events
             k == daemon'[panel.selected].events
  <2>3. n \in Nat /\ k \in Nat /\ n <= k
    BY <1>2, <2>2
  <2> HIDE DEF n, k
  <2>4. FirstEvents(panel.selected, n) \subseteq FirstEvents(panel.selected, k)
    BY <2>3, MessageGrows
  <2> QED BY <2>1, <2>4 DEF n, k
<1> QED BY <1>3, <1>5, <1>6, <1>7, <1>8, <1>10, <1>11 DEF IInv

\* A message pushed to the session, when there is one, is one of its messages.
LEMMA PushedOn ==
    ASSUME IInv, NEW rm \in Remotes, NEW n \in Nat, daemon[rm].events <= n,
           NEW m \in Message(site.remotes[rm], rm, n)
    PROVE  \/ Pushed(rm, m) = feed
           \/ /\ feed.phase # "none" /\ feed.remote = rm
              /\ Pushed(rm, m) \in FeedOn(site.remotes[rm], rm, n)
              /\ Pushed(rm, m).epoch = feed.epoch /\ Pushed(rm, m).remote = rm
<1> DEFINE M == Message(site.remotes[rm], rm, n)
<1>1. SUFFICES ASSUME feed.phase \in {"subscribed", "attached"}, feed.remote = rm
               PROVE  /\ Pushed(rm, m) \in FeedOn(site.remotes[rm], rm, n)
                      /\ Pushed(rm, m).epoch = feed.epoch /\ Pushed(rm, m).remote = rm
  BY DEF Pushed
<1>2. daemon[rm].events \in Nat
  BY DEF IInv, TypeOK, Daemon
<1>3. feed \in FeedOn(site.remotes[rm], rm, daemon[rm].events)
  BY <1>1 DEF IInv, FeedOK, NoFeed, FeedOn
<1>4. feed \in FeedOn(site.remotes[rm], rm, n)
  BY <1>2, <1>3, MessageGrows
<1>5. feed.pending \in Seq(M) /\ feed.queue \in Seq(M)
  BY <1>4 DEF FeedOn
<1> HIDE DEF M
<1>6. m \in M
  BY DEF M
<1> DEFINE pending == Append(feed.pending, m)
           queue == Append(feed.queue, m)
<1>7. pending \in Seq(M) /\ queue \in Seq(M)
  BY <1>5, <1>6
<1>8. /\ feed.phase = "subscribed" => Pushed(rm, m) = [feed EXCEPT !.pending = pending]
      /\ feed.phase = "attached" => Pushed(rm, m) = [feed EXCEPT !.queue = queue]
  BY <1>1 DEF Pushed
<1> HIDE DEF pending, queue
<1>9. LET f == [feed EXCEPT !.pending = pending] IN
        f \in FeedOn(site.remotes[rm], rm, n) /\ f.epoch = feed.epoch /\ f.remote = rm
  BY <1>4, <1>7 DEF FeedOn, M
<1>10. LET f == [feed EXCEPT !.queue = queue] IN
         f \in FeedOn(site.remotes[rm], rm, n) /\ f.epoch = feed.epoch /\ f.remote = rm
  BY <1>4, <1>7 DEF FeedOn, M
<1> QED BY <1>1, <1>8, <1>9, <1>10

\* An event of the run: it is pushed, or lost on the way.
LEMMA DaemonEventKeeps == ASSUME IInv, NEW rm \in Remotes, DaemonEvent(rm) PROVE IInv'
<1> DEFINE n == daemon[rm].events
           m == [kind |-> "event", index |-> n]
<1>1. n \in Nat /\ daemon \in [Remotes -> Daemon] /\ daemon[rm] \in Daemon
  BY DEF IInv, TypeOK, Daemon
<1>2. daemon' = [daemon EXCEPT ![rm].events = n + 1]
  BY DEF DaemonEvent
<1>3. /\ daemon' \in [Remotes -> Daemon] /\ daemon'[rm].events = n + 1
      /\ \A r \in Remotes : /\ daemon[r].events <= daemon'[r].events
                            /\ daemon[r].lines <= daemon'[r].lines
  BY <1>1, <1>2 DEF Daemon
<1>4. n + 1 \in Nat /\ n <= n + 1 /\ n \in 0..((n + 1) - 1)
  BY <1>1
<1> HIDE DEF n
<1>5. m \in Message(site.remotes[rm], rm, n + 1)
  BY <1>4 DEF Message
<1>6. feed' = Pushed(rm, m) \/ feed' = feed
  BY DEF DaemonEvent, n
<1> HIDE DEF m
<1>7. feed' = feed \/
        /\ feed.phase # "none" /\ feed'.epoch = feed.epoch /\ feed'.remote = feed.remote
        /\ feed' \in FeedOn(site.remotes[feed.remote], feed.remote, daemon'[feed.remote].events)
  BY <1>3, <1>4, <1>5, <1>6, PushedOn DEF n
<1> QED BY <1>3, <1>7, SourceStep DEF DaemonEvent

\* The end of the run is pushed.
LEMMA DaemonEndsKeeps == ASSUME IInv, NEW rm \in Remotes, DaemonEnds(rm) PROVE IInv'
<1> DEFINE n == daemon[rm].events
           m == [kind |-> "run", ended |-> TRUE]
<1>1. n \in Nat /\ daemon \in [Remotes -> Daemon] /\ daemon[rm] \in Daemon
  BY DEF IInv, TypeOK, Daemon
<1>2. /\ daemon' \in [Remotes -> Daemon] /\ daemon'[rm].events = n
      /\ \A r \in Remotes : /\ daemon[r].events <= daemon'[r].events
                            /\ daemon[r].lines <= daemon'[r].lines
  <2>1. daemon' = [daemon EXCEPT ![rm] = [daemon[rm] EXCEPT !.ended = TRUE]]
    BY <1>1 DEF DaemonEnds
  <2>2. /\ [daemon[rm] EXCEPT !.ended = TRUE] \in Daemon
        /\ [daemon[rm] EXCEPT !.ended = TRUE].events = n
        /\ [daemon[rm] EXCEPT !.ended = TRUE].lines = daemon[rm].lines
    BY <1>1 DEF Daemon
  <2>3. \A r \in Remotes : daemon[r].events \in Nat /\ daemon[r].lines \in Nat
    BY <1>1 DEF Daemon
  <2> QED BY <1>1, <2>1, <2>2, <2>3
<1>3. m \in Message(site.remotes[rm], rm, n)
  BY DEF Message
<1>4. feed' = Pushed(rm, m)
  BY DEF DaemonEnds
<1> HIDE DEF m
<1>5. feed' = feed \/
        /\ feed.phase # "none" /\ feed'.epoch = feed.epoch /\ feed'.remote = feed.remote
        /\ feed' \in FeedOn(site.remotes[feed.remote], feed.remote, daemon'[feed.remote].events)
  BY <1>1, <1>2, <1>3, <1>4, PushedOn
<1> QED BY <1>2, <1>5, SourceStep DEF DaemonEnds

\* A line of the log is pushed.
LEMMA DaemonLogsKeeps == ASSUME IInv, NEW rm \in Remotes, DaemonLogs(rm) PROVE IInv'
<1> DEFINE n == daemon[rm].events
           m == [kind |-> "log", seq |-> daemon[rm].lines]
<1>1. /\ n \in Nat /\ daemon[rm].lines \in Nat
      /\ daemon \in [Remotes -> Daemon] /\ daemon[rm] \in Daemon
  BY DEF IInv, TypeOK, Daemon
<1>2. /\ daemon' \in [Remotes -> Daemon] /\ daemon'[rm].events = n
      /\ \A r \in Remotes : /\ daemon[r].events <= daemon'[r].events
                            /\ daemon[r].lines <= daemon'[r].lines
  BY <1>1 DEF Daemon, DaemonLogs
<1>3. m \in Message(site.remotes[rm], rm, n)
  BY <1>1 DEF Message
<1>4. feed' = Pushed(rm, m)
  BY DEF DaemonLogs
<1> HIDE DEF m
<1>5. feed' = feed \/
        /\ feed.phase # "none" /\ feed'.epoch = feed.epoch /\ feed'.remote = feed.remote
        /\ feed' \in FeedOn(site.remotes[feed.remote], feed.remote, daemon'[feed.remote].events)
  BY <1>1, <1>2, <1>3, <1>4, PushedOn
<1> QED BY <1>2, <1>5, SourceStep DEF DaemonLogs

\* The feed there is.
LEMMA TheFeed ==
    ASSUME IInv, feed.phase # "none"
    PROVE  /\ feed.remote \in Remotes /\ daemon[feed.remote].events \in Nat
           /\ feed \in FeedOn(site.remotes[feed.remote], feed.remote, daemon[feed.remote].events)
BY DEF IInv, TypeOK, Daemon, FeedOK, NoFeed, FeedOn

\* A step of the watch thread alone.
LEMMA ThreadStep ==
    ASSUME IInv, UNCHANGED <<site, daemon, panel, poll, history>>, feed.phase # "none",
           NEW phase \in {"connecting", "subscribed", "attached", "over"},
           NEW pending \in Seq(Message(site.remotes[feed.remote], feed.remote,
                                       daemon[feed.remote].events)),
           NEW queue \in Seq(Message(site.remotes[feed.remote], feed.remote,
                                     daemon[feed.remote].events)),
           feed' = [feed EXCEPT !.phase = phase, !.pending = pending, !.queue = queue]
    PROVE  IInv'
<1>1. feed \in FeedOn(site.remotes[feed.remote], feed.remote, daemon[feed.remote].events)
  BY TheFeed
<1>2. /\ feed' \in FeedOn(site.remotes[feed.remote], feed.remote, daemon'[feed.remote].events)
      /\ feed'.epoch = feed.epoch /\ feed'.remote = feed.remote
  BY <1>1 DEF FeedOn
<1>3. daemon' \in [Remotes -> Daemon]
  BY DEF IInv, TypeOK
<1>4. \A rm \in Remotes : /\ daemon[rm].events <= daemon'[rm].events
                          /\ daemon[rm].lines <= daemon'[rm].lines
  BY DEF IInv, TypeOK, Daemon
<1> QED BY <1>2, <1>3, <1>4, SourceStep

\* The thread opens a session, attaches to it, is refused, fails to connect, or
\* loses its session with some of what it brought.
LEMMA ThreadKeeps ==
    ASSUME IInv, Subscribe \/ Attach \/ Refuse \/ FailToConnect \/ EndSession
    PROVE  IInv'
<1> DEFINE rm == feed.remote
           M == Message(site.remotes[rm], rm, daemon[rm].events)
<1>1. feed.phase # "none"
  BY DEF Subscribe, Attach, Refuse, FailToConnect, EndSession
<1>2. /\ rm \in Remotes /\ feed \in FeedOn(site.remotes[rm], rm, daemon[rm].events)
  BY <1>1, TheFeed
<1>3. feed.pending \in Seq(M) /\ feed.queue \in Seq(M)
      /\ feed.phase \in {"connecting", "subscribed", "attached", "over"}
  BY <1>2 DEF FeedOn
<1>4. [kind |-> "attached"] \in M /\ [kind |-> "unreachable"] \in M
  BY DEF Message
<1>5. CASE Subscribe
  <2>1. feed' = [feed EXCEPT !.phase = "subscribed", !.pending = feed.pending, !.queue = feed.queue]
    BY <1>2, <1>5 DEF Subscribe, FeedOn
  <2> QED BY <1>1, <1>3, <1>5, <2>1, ThreadStep DEF Subscribe
<1>6. CASE Attach
  <2> DEFINE queue == feed.queue \o << [kind |-> "attached"], Snapshot(rm) >> \o feed.pending
  <2>1. Snapshot(rm) \in M
    BY <1>2, SnapshotType
  <2>2. queue \in Seq(M) /\ <<>> \in Seq(M)
    <3> HIDE DEF M
    <3> QED BY <1>3, <1>4, <2>1
  <2>3. feed' = [feed EXCEPT !.phase = "attached", !.pending = <<>>, !.queue = queue]
    BY <1>6 DEF Attach
  <2> HIDE DEF queue
  <2> QED BY <1>1, <2>2, <2>3, <1>6, ThreadStep DEF Attach
<1>7. CASE Refuse
  <2> DEFINE queue == Append(feed.queue, [kind |-> "unsupported"])
  <2>1. [kind |-> "unsupported"] \in M
    BY <1>7 DEF Refuse, Message
  <2>2. queue \in Seq(M)
    <3> HIDE DEF M
    <3> QED BY <1>3, <2>1
  <2>3. feed' = [feed EXCEPT !.phase = "over", !.pending = feed.pending, !.queue = queue]
    BY <1>2, <1>7 DEF Refuse, FeedOn
  <2> HIDE DEF queue
  <2> QED BY <1>1, <1>3, <2>2, <2>3, <1>7, ThreadStep DEF Refuse
<1>8. CASE FailToConnect
  <2> DEFINE queue == Append(feed.queue, [kind |-> "unreachable"])
  <2>1. queue \in Seq(M)
    <3> HIDE DEF M
    <3> QED BY <1>3, <1>4
  <2>2. feed' = [feed EXCEPT !.phase = "connecting", !.pending = feed.pending, !.queue = queue]
    BY <1>2, <1>8 DEF FailToConnect, FeedOn
  <2> HIDE DEF queue
  <2> QED BY <1>1, <1>3, <2>1, <2>2, <1>8, ThreadStep DEF FailToConnect
<1>9. CASE EndSession
  <2>1. PICK n \in 0..Len(feed.queue) :
           feed' = [feed EXCEPT !.phase = "connecting", !.queue = SubSeq(feed.queue, 1, n)]
    BY <1>9 DEF EndSession
  <2> DEFINE queue == SubSeq(feed.queue, 1, n)
  <2>2. queue \in Seq(M)
    <3> HIDE DEF M
    <3> QED BY <1>3
  <2>3. feed' = [feed EXCEPT !.phase = "connecting", !.pending = feed.pending, !.queue = queue]
    BY <1>2, <2>1 DEF FeedOn
  <2> HIDE DEF queue
  <2> QED BY <1>1, <1>3, <2>2, <2>3, <1>9, ThreadStep DEF EndSession
<1> QED BY <1>5, <1>6, <1>7, <1>8, <1>9

-----------------------------------------------------------------------------
(* The history of the opened run *)

\* What the panel shows of the log and the table, and whose.
SameShown(p, q) ==
    /\ q.selected = p.selected /\ q.epoch = p.epoch /\ q.status = p.status
    /\ q.runs = p.runs /\ q.logs = p.logs /\ q.log_next = p.log_next

\* A step that changes neither the log nor the table, and does not come back to
\* the tab.
LEMMA PanelTouched ==
    ASSUME IInv, UNCHANGED <<site, daemon, feed, poll>>, panel' \in Panel,
           SameShown(panel, panel'), panel'.surface \in {panel.surface, "other"},
           HistoryOK', Streamed => HeldBy(panel')
    PROVE  IInv'
<1>1. Remotes' = Remotes /\ (Streamed' <=> Streamed) /\ (HeldBy(panel)' <=> HeldBy(panel'))
  BY DEF Remotes, Streamed, HeldBy
<1>2. history'.phase \in {"none", "asked", "answered"}
  BY DEF HistoryOK, NoHistory, HistoryOn
<1>3. TypeOK' /\ FeedOK' /\ PollOK'
  BY <1>1, <1>2 DEF IInv, TypeOK, FeedOK, PollOK, Poll, Panel, Item, Opt
<1>4. LogOf(panel)' /\ RowOf(panel)' /\ Cursor(panel, poll)'
  BY DEF IInv, SameShown, LogOf, RowOf, Cursor
<1>5. Current(panel, feed)' /\ Current(panel, poll)' /\ Apart' /\ LiveIsFed'
  BY DEF IInv, SameShown, Current, Apart, LiveIsFed
<1>6. Streams'
  BY <1>1 DEF IInv, Streams
<1> QED BY <1>3, <1>4, <1>5, <1>6 DEF IInv

\* ensure_run_events changes the history, and nothing the panel shows.
LEMMA EnsureRunEventsType ==
    ASSUME IInv, UNCHANGED <<site, daemon>>, NEW p \in Panel, EnsureRunEvents(p)
    PROVE  /\ panel' \in Panel /\ SameShown(p, panel')
           /\ panel'.surface = p.surface /\ panel'.events = p.events /\ HistoryOK'
<1>1. Remotes' = Remotes
  BY DEF Remotes
<1>2. CASE WantsHistory(p)
  <2>1. panel' = [p EXCEPT !.history_for = TRUE]
        /\ history' = [phase |-> "asked", remote |-> p.selected, page |-> None]
    BY <1>2 DEF EnsureRunEvents
  <2>2. p.selected \in Remotes
    BY DEF Panel
  <2>3. history' \in HistoryOn(p.selected, daemon'[p.selected].events)
    BY <2>1 DEF HistoryOn, Opt
  <2>4. HistoryOK'
    BY <1>1, <2>2, <2>3 DEF HistoryOK
  <2> QED BY <2>1, <2>4 DEF Panel, SameShown
<1>3. CASE ~WantsHistory(p)
  <2>1. panel' = p /\ history' = history
    BY <1>3 DEF EnsureRunEvents
  <2> QED BY <1>1, <2>1 DEF IInv, HistoryOK, SameShown
<1> QED BY <1>2, <1>3

\* The history comes: of the run's first events, as its daemon had them.
LEMMA HistoryKeeps == ASSUME IInv, HistoryReads \/ HistoryFails \/ HistoryArrives PROVE IInv'
<1>1. history.phase # "none"
  BY DEF HistoryReads, HistoryFails, HistoryArrives
<1>2. PICK rm \in Remotes : history \in HistoryOn(rm, daemon[rm].events)
  BY <1>1 DEF IInv, HistoryOK, NoHistory
<1>3. Remotes' = Remotes /\ UNCHANGED <<site, daemon, feed, poll>>
  BY DEF Remotes, HistoryReads, HistoryFails, HistoryArrives
<1>4. daemon[rm].events \in Nat /\ history.remote = rm
      /\ history.page \in Opt(FirstEvents(rm, daemon[rm].events))
  BY <1>2 DEF IInv, TypeOK, Daemon, HistoryOn
<1>5. CASE HistoryReads
  <2> DEFINE page == Items(rm, 0, daemon[rm].events)
  <2>1. page \in FirstEvents(rm, daemon[rm].events)
    BY <1>4 DEF FirstEvents
  <2>2. history' = [history EXCEPT !.phase = "answered", !.page = page]
    BY <1>4, <1>5 DEF HistoryReads
  <2> HIDE DEF page
  <2>3. history' \in HistoryOn(rm, daemon'[rm].events)
    BY <1>2, <1>3, <2>1, <2>2 DEF HistoryOn, Opt
  <2>4. HistoryOK'
    BY <1>3, <2>3 DEF HistoryOK
  <2>5. panel' = panel
    BY <1>5 DEF HistoryReads
  <2> QED BY <1>3, <2>4, <2>5, PanelTouched DEF IInv, TypeOK, SameShown, Streams
<1>6. CASE HistoryFails
  <2>1. panel' = panel /\ HistoryOK'
    BY <1>6 DEF HistoryFails, HistoryOK
  <2> QED BY <1>3, <2>1, PanelTouched DEF IInv, TypeOK, SameShown, Streams
<1>7. CASE HistoryArrives
  <2>1. panel' = [panel EXCEPT !.events = history.page] /\ HistoryOK'
    BY <1>7 DEF HistoryArrives, HistoryOK
  <2>2. history.page \in Opt(Seq(Item))
    <3>1. SUFFICES ASSUME history.page \in FirstEvents(rm, daemon[rm].events)
                   PROVE  history.page \in Seq(Item)
      BY <1>4 DEF Opt
    <3>2. history.page \in Seq(ItemOf(rm))
      BY <1>4, <3>1, FirstEventsType
    <3>3. ItemOf(rm) \subseteq Item
      BY DEF ItemOf, Item
    <3> QED BY <3>2, <3>3
  <2>3. panel \in Panel
    BY DEF IInv, TypeOK
  <2>4. /\ panel' \in Panel /\ SameShown(panel, panel') /\ panel'.surface = panel.surface
        /\ panel'.events = history.page /\ panel'.selected = panel.selected
    BY <2>1, <2>2, <2>3 DEF Panel, SameShown
  <2>5. Streamed => HeldBy(panel')
    <3>1. Streamed => panel.selected = rm
      BY <2>3 DEF Streamed, Panel
    <3> QED BY <1>4, <2>4, <3>1 DEF HeldBy, Opt
  <2> QED BY <1>3, <2>1, <2>4, <2>5, PanelTouched
<1> QED BY <1>5, <1>6, <1>7

-----------------------------------------------------------------------------
(* Starting *)

\* A restart forgets the log and the status, under the next epoch.
LEMMA RestartedType ==
    ASSUME NEW p \in Panel
    PROVE  LET q == Restarted(p) IN
             /\ q \in Panel /\ q.epoch = p.epoch + 1 /\ q.status = "none" /\ q.logs = <<>>
             /\ q.log_next = 0 /\ q.selected = p.selected /\ q.runs = p.runs
             /\ q.events = p.events
<1>1. p.epoch \in Nat
  BY DEF Panel
<1> DEFINE epoch == p.epoch + 1
           logs == <<>>
           q == [p EXCEPT !.epoch = epoch, !.status = "none", !.logs = logs, !.log_next = 0]
<1>2. epoch \in Nat /\ logs \in Seq(Item)
  BY <1>1
<1>3. Restarted(p) = q
  BY DEF Restarted
<1> HIDE DEF epoch, logs
<1>4. /\ q \in Panel /\ q.epoch = epoch /\ q.status = "none" /\ q.logs = logs
      /\ q.log_next = 0 /\ q.selected = p.selected /\ q.runs = p.runs
      /\ q.events = p.events
  BY <1>2 DEF Panel
<1> QED BY <1>3, <1>4 DEF epoch, logs

\* start_remote_poll from the panel p, for a remote that is not pushed.
LEMMA StartPollKeeps ==
    ASSUME IInv, UNCHANGED <<site, daemon, history>>, NEW p \in Panel, StartPoll(p),
           panel.epoch <= p.epoch, RowOf(p), p.events = panel.events,
           feed' = feed \/ feed' = NoFeed, ~Streamed
    PROVE  IInv'
<1>1. Remotes' = Remotes /\ ~Streamed'
  BY DEF Remotes, Streamed
<1>2. /\ panel' = Restarted(p)
      /\ poll' = [phase |-> "idle", epoch |-> p.epoch + 1, remote |-> p.selected,
                  log_cursor |-> 0, watched |-> None, page |-> None]
  BY DEF StartPoll
<1>3. /\ panel' \in Panel /\ panel'.epoch = p.epoch + 1 /\ panel'.status = "none"
      /\ panel'.logs = <<>> /\ panel'.log_next = 0 /\ panel'.selected = p.selected
      /\ panel'.runs = p.runs
  BY <1>2, RestartedType
<1>4. p.epoch \in Nat /\ panel.epoch \in Nat /\ p.selected \in Remotes
  BY DEF IInv, TypeOK, Panel
<1>5. poll' \in Poll /\ poll'.log_cursor <= daemon'[poll'.remote].lines
  BY <1>2, <1>4 DEF IInv, TypeOK, Daemon, Poll, Opt
<1>6. FeedOK' /\ PollOK' /\ HistoryOK' /\ feed'.phase \in {"none", feed.phase}
  BY <1>1, <1>5 DEF IInv, FeedOK, PollOK, Poll, HistoryOK, NoFeed
<1>7. TypeOK'
  BY <1>1, <1>3, <1>5, <1>6 DEF IInv, TypeOK, Panel, Item, Opt, Poll
<1>8. LogOf(panel)' /\ RowOf(panel)' /\ Cursor(panel, poll)' /\ Current(panel, poll)'
  BY <1>2, <1>3, <1>4 DEF LogOf, RowOf, Cursor, Current
<1>9. feed'.phase # "none" => feed' = feed /\ feed.epoch \in Nat /\ feed.epoch <= panel.epoch
  BY TheFeed DEF NoFeed, IInv, Current, FeedOn
<1>10. Current(panel, feed)' /\ Apart'
  BY <1>2, <1>3, <1>4, <1>9 DEF Current, Apart
<1>11. LiveIsFed' /\ Streams'
  BY <1>1, <1>3 DEF LiveIsFed, Streams
<1> QED BY <1>6, <1>7, <1>8, <1>10, <1>11 DEF IInv

\* start_remote_feed from the panel p, which differs from the panel by what the
\* operator did.
LEMMA StartFeedKeeps ==
    ASSUME IInv, UNCHANGED <<site, daemon, history>>, NEW p \in Panel, StartFeed(p),
           p.epoch = panel.epoch, RowOf(p), p.events = panel.events
    PROVE  IInv'
<1>1. CASE site.threads
  <2>1. Remotes' = Remotes /\ (Streamed' <=> Streamed) /\ UNCHANGED poll
    BY <1>1 DEF Remotes, Streamed, StartFeed
  <2>2. /\ panel' = Restarted(p)
        /\ feed' = [phase |-> "connecting", epoch |-> p.epoch + 1, remote |-> p.selected,
                    pending |-> <<>>, queue |-> <<>>]
    BY <1>1 DEF StartFeed
  <2>3. /\ panel' \in Panel /\ panel'.epoch = p.epoch + 1 /\ panel'.status = "none"
        /\ panel'.logs = <<>> /\ panel'.log_next = 0 /\ panel'.selected = p.selected
        /\ panel'.runs = p.runs /\ panel'.events = panel.events
    BY <2>2, RestartedType
  <2>4. p.epoch \in Nat /\ panel.epoch \in Nat /\ p.selected \in Remotes
    BY DEF IInv, TypeOK, Panel
  <2>5. feed' \in FeedOn(site.remotes[p.selected], p.selected, daemon[p.selected].events)
    <3>1. \A S : <<>> \in Seq(S)
      OBVIOUS
    <3> QED BY <2>2, <2>4, <3>1 DEF FeedOn
  <2>6. FeedOK' /\ PollOK' /\ HistoryOK' /\ feed'.phase = "connecting"
    BY <2>1, <2>2, <2>4, <2>5 DEF IInv, FeedOK, PollOK, Poll, HistoryOK
  <2>7. TypeOK'
    BY <2>1, <2>3, <2>6 DEF IInv, TypeOK, Panel, Item, Opt
  <2>8. poll.phase # "none" => poll.epoch \in Nat /\ poll.epoch <= panel.epoch
    BY DEF IInv, PollOK, NoPoll, Poll, Current
  <2>9. LogOf(panel)' /\ RowOf(panel)' /\ Current(panel, feed)'
    BY <2>2, <2>3, <2>4 DEF LogOf, RowOf, Current
  <2>10. Cursor(panel, poll)' /\ Current(panel, poll)' /\ Apart'
    BY <2>1, <2>2, <2>3, <2>4, <2>8 DEF Cursor, Current, Apart
  <2>11. LiveIsFed'
    BY <2>3 DEF LiveIsFed
  <2>12. Streams'
    <3> SUFFICES ASSUME Streamed, panel.events # None
                 PROVE  panel.events \in FirstEvents(p.selected, daemon[p.selected].events)
      BY <2>1, <2>3 DEF IInv, Streams, HeldBy
    <3>1. p.selected = panel.selected
      BY <2>4 DEF IInv, TypeOK, Panel, Streamed
    <3> QED BY <3>1 DEF IInv, Streams, HeldBy
  <2> QED BY <2>6, <2>7, <2>9, <2>10, <2>11, <2>12 DEF IInv
<1>2. CASE ~site.threads
  <2> DEFINE q == Restarted(p)
  <2>1. StartPoll(q) /\ UNCHANGED feed
    BY <1>2 DEF StartFeed
  <2>2. /\ q \in Panel /\ q.epoch = p.epoch + 1 /\ q.events = p.events
        /\ q.runs = p.runs /\ q.selected = p.selected
    BY RestartedType
  <2>3. p.epoch \in Nat
    BY DEF Panel
  <2>4. panel.epoch <= q.epoch /\ RowOf(q) /\ ~Streamed
    BY <1>2, <2>2, <2>3 DEF RowOf, Streamed
  <2> HIDE DEF q
  <2> QED BY <2>1, <2>2, <2>4, StartPollKeeps
<1> QED BY <1>1, <1>2

\* What the operator does.
LEMMA OperatorKeeps ==
    ASSUME IInv,
           \/ \E rm \in Remotes : Select(rm) \/ ShowRemote(rm)
           \/ ProfileChanged \/ Restart \/ Leave \/ ActionDone \/ OpenRun \/ Back
    PROVE  IInv'
<1>1. panel \in Panel /\ RowOf(panel) /\ HistoryOK /\ (Streamed => HeldBy(panel))
  BY DEF IInv, TypeOK, Streams
<1>2. ASSUME NEW rm \in Remotes, Select(rm) PROVE IInv'
  <2> DEFINE p == [panel EXCEPT !.selected = rm, !.runs = None, !.opened = FALSE]
  <2>1. p \in Panel /\ p.epoch = panel.epoch /\ p.events = panel.events /\ p.runs = None
    BY <1>1 DEF Panel, Opt
  <2>2. RowOf(p)
    BY <2>1 DEF RowOf
  <2>3. StartFeed(p) /\ UNCHANGED <<site, daemon, history>>
    BY <1>2 DEF Select, Click
  <2> HIDE DEF p
  <2> QED BY <2>1, <2>2, <2>3, StartFeedKeeps
<1>3. ASSUME NEW rm \in Remotes, ShowRemote(rm) PROVE IInv'
  <2> DEFINE runs == IF panel.selected = rm THEN panel.runs ELSE None
             p == [panel EXCEPT !.surface = "remote", !.selected = rm, !.opened = FALSE,
                                !.runs = runs]
  <2>1. StartFeed(p) /\ UNCHANGED <<site, daemon, history>>
    BY <1>3 DEF ShowRemote, Click
  <2>2. runs \in Opt([of : Remotes, ended : BOOLEAN]) /\ (runs # None => runs.of = rm)
    BY <1>1 DEF Panel, Opt, RowOf
  <2> HIDE DEF runs
  <2>3. p \in Panel /\ p.epoch = panel.epoch /\ p.events = panel.events /\ p.runs = runs
        /\ p.selected = rm
    BY <1>1, <2>2 DEF Panel
  <2>4. RowOf(p)
    BY <2>2, <2>3 DEF RowOf
  <2> HIDE DEF p
  <2> QED BY <2>1, <2>3, <2>4, StartFeedKeeps
<1>4. CASE ProfileChanged
  <2> DEFINE p == [panel EXCEPT !.opened = FALSE]
  <2>1. p \in Panel /\ SameShown(panel, p) /\ p.events = panel.events /\ p.surface = panel.surface
    BY <1>1 DEF Panel, SameShown
  <2>2. RowOf(p) /\ p.epoch = panel.epoch /\ (Streamed => HeldBy(p))
    BY <1>1, <2>1 DEF RowOf, SameShown, HeldBy
  <2>3. \/ StartFeed(p)
        \/ panel' = p /\ UNCHANGED <<feed, poll>>
    <3>1. IF panel.surface = "remote" THEN StartFeed(p) ELSE panel' = p /\ UNCHANGED <<feed, poll>>
      BY <1>4, Zenon DEF ProfileChanged
    <3> HIDE DEF p
    <3> QED BY <3>1
  <2>4. UNCHANGED <<site, daemon, history>>
    BY <1>4 DEF ProfileChanged, Click
  <2> HIDE DEF p
  <2>5. CASE StartFeed(p)
    BY <2>1, <2>2, <2>4, <2>5, StartFeedKeeps
  <2>6. CASE panel' = p /\ UNCHANGED <<feed, poll>>
    <3>1. HistoryOK'
      BY <1>1, <2>4 DEF HistoryOK, Remotes
    <3> QED BY <2>1, <2>2, <2>4, <2>6, <3>1, PanelTouched
  <2> QED BY <2>3, <2>5, <2>6
<1>5. CASE Restart
  <2> DEFINE p == [panel EXCEPT !.surface = "remote"]
  <2>1. p \in Panel /\ p.epoch = panel.epoch /\ p.events = panel.events /\ RowOf(p)
    BY <1>1 DEF Panel, RowOf
  <2>2. StartFeed(p) /\ UNCHANGED <<site, daemon, history>>
    BY <1>5 DEF Restart, Click
  <2> HIDE DEF p
  <2> QED BY <2>1, <2>2, StartFeedKeeps
<1>6. CASE Leave
  <2>1. panel' \in Panel /\ SameShown(panel, panel') /\ panel'.events = panel.events
        /\ panel'.surface = "other"
    BY <1>1, <1>6 DEF Leave, Panel, SameShown
  <2>2. UNCHANGED <<site, daemon, feed, poll, history>>
    BY <1>6 DEF Leave, Click
  <2>3. HistoryOK' /\ (Streamed => HeldBy(panel'))
    BY <1>1, <2>1, <2>2 DEF HistoryOK, Remotes, HeldBy, SameShown
  <2> QED BY <2>1, <2>2, <2>3, PanelTouched
<1>7. CASE ActionDone
  <2>1. StartFeed(panel) /\ UNCHANGED <<site, daemon, history>>
    BY <1>7 DEF ActionDone, Click
  <2> QED BY <1>1, <2>1, StartFeedKeeps
<1>8. CASE OpenRun
  <2> DEFINE p == [panel EXCEPT !.opened = TRUE]
  <2>1. p \in Panel /\ SameShown(panel, p) /\ p.events = panel.events /\ p.surface = panel.surface
    BY <1>1 DEF Panel, SameShown
  <2>2. EnsureRunEvents(p) /\ UNCHANGED <<site, daemon, feed, poll>>
    BY <1>8 DEF OpenRun, Click
  <2> HIDE DEF p
  <2>3. /\ panel' \in Panel /\ SameShown(p, panel')
        /\ panel'.surface = p.surface /\ panel'.events = p.events /\ HistoryOK'
    BY <2>1, <2>2, EnsureRunEventsType
  <2>4. SameShown(panel, panel') /\ (Streamed => HeldBy(panel'))
    BY <1>1, <2>1, <2>3 DEF SameShown, HeldBy
  <2> QED BY <2>1, <2>2, <2>3, <2>4, PanelTouched
<1>9. CASE Back
  <2>1. panel' \in Panel /\ SameShown(panel, panel') /\ panel'.events = panel.events
        /\ panel'.surface = panel.surface
    BY <1>1, <1>9 DEF Back, Panel, SameShown
  <2>2. UNCHANGED <<site, daemon, feed, poll, history>>
    BY <1>9 DEF Back, Click
  <2>3. HistoryOK' /\ (Streamed => HeldBy(panel'))
    BY <1>1, <2>1, <2>2 DEF HistoryOK, Remotes, HeldBy, SameShown
  <2> QED BY <2>1, <2>2, <2>3, PanelTouched
<1> QED BY <1>2, <1>3, <1>4, <1>5, <1>6, <1>7, <1>8, <1>9

-----------------------------------------------------------------------------
(* The feed *)

\* place_run_event: an event at the end of the first ones is kept, and makes one
\* more of them.
LEMMA PlaceEventType ==
    ASSUME NEW rm \in Remotes, NEW n \in Nat, NEW index \in 0..(n - 1),
           NEW events \in Opt(Seq(Item))
    PROVE  /\ PlaceEvent(events, rm, index) \in Opt(Seq(Item))
           /\ events \in Opt(FirstEvents(rm, n)) =>
                 PlaceEvent(events, rm, index) \in Opt(FirstEvents(rm, n))
<1> DEFINE held == IF events = None THEN <<>> ELSE events
           item == [of |-> rm, n |-> index]
           placed == PlaceEvent(events, rm, index)
<1>1. held \in Seq(Item) /\ item \in Item
  BY DEF Opt, Item
<1>2. \/ placed = Append(held, item) /\ index = Len(held)
      \/ placed = None \/ placed = events
  BY DEF PlaceEvent
<1>3. events \in Opt(FirstEvents(rm, n)) => held = Items(rm, 0, Len(held))
  <2>1. CASE events = None
    <3>1. held = <<>> /\ Len(held) = 0
      BY <2>1
    <3>2. Items(rm, 0, 0) \in Seq(ItemOf(rm)) /\ Len(Items(rm, 0, 0)) = 0
      BY FirstItems
    <3>3. Items(rm, 0, 0) = <<>>
      BY <3>2, EmptySeq
    <3> QED BY <3>1, <3>3
  <2>2. CASE events # None
    BY <2>2, FirstEventsType DEF Opt
  <2> QED BY <2>1, <2>2
<1> HIDE DEF held, placed
<1>4. CASE placed = Append(held, item) /\ index = Len(held)
  <2>1. placed \in Seq(Item)
    BY <1>1, <1>4
  <2>2. ASSUME events \in Opt(FirstEvents(rm, n)) PROVE placed \in FirstEvents(rm, n)
    <3>1. Len(held) \in Nat /\ Len(held) + 1 \in 0..n
      BY <1>1, <1>4
    <3>2. placed = Append(Items(rm, 0, Len(held)), [of |-> rm, n |-> Len(held)])
      BY <1>3, <1>4, <2>2
    <3>3. placed = Items(rm, 0, Len(held) + 1)
      BY <3>1, <3>2, ItemsAppend
    <3> QED BY <3>1, <3>3, Zenon DEF FirstEvents
  <2> QED BY <2>1, <2>2 DEF placed, Opt
<1>5. CASE placed = None \/ placed = events
  BY <1>5 DEF placed, Opt
<1> QED BY <1>2, <1>4, <1>5

\* apply_watch
LEMMA ApplyWatchType ==
    ASSUME NEW p \in Panel, LogOf(p), RowOf(p), NEW rm, rm = p.selected, NEW socket, NEW n \in Nat,
           NEW m \in Message(socket, rm, n), m.kind \in {"snapshot", "run", "event", "log"}
    PROVE  LET q == ApplyWatch(p, rm, m) IN
             /\ q \in Panel /\ LogOf(q) /\ RowOf(q)
             /\ q.selected = rm /\ q.epoch = p.epoch /\ q.surface = p.surface
             /\ p.events \in Opt(FirstEvents(rm, n)) => q.events \in Opt(FirstEvents(rm, n))
<1> DEFINE q == ApplyWatch(p, rm, m)
           Goal == /\ q \in Panel /\ LogOf(q) /\ RowOf(q)
                   /\ q.selected = rm /\ q.epoch = p.epoch /\ q.surface = p.surface
                   /\ p.events \in Opt(FirstEvents(rm, n)) => q.events \in Opt(FirstEvents(rm, n))
<1> SUFFICES Goal
  OBVIOUS
<1>1. rm \in Remotes
  BY DEF Panel
<1>2. ItemOf(rm) \subseteq Item
  BY <1>1 DEF ItemOf, Item
<1>3. \A e \in FirstEvents(rm, n) : e \in Seq(Item)
  BY <1>2, FirstEventsType
<1>4. CASE m.kind = "snapshot"
  <2> DEFINE events == IF m.events # None THEN m.events ELSE IF p.opened THEN p.events ELSE None
             row == [of |-> rm, ended |-> m.ended]
             s == [p EXCEPT !.status = "live", !.runs = row, !.events = events]
  <2>1. m.ended \in BOOLEAN /\ m.events \in Opt(FirstEvents(rm, n)) /\ m.logs \in Seq(ItemOf(rm))
    BY <1>4, MessageFields
  <2>2. /\ events \in Opt(Seq(Item))
        /\ p.events \in Opt(FirstEvents(rm, n)) => events \in Opt(FirstEvents(rm, n))
    BY <1>3, <2>1 DEF Panel, Opt
  <2>3. row \in [of : Remotes, ended : BOOLEAN] /\ row.of = rm
    BY <1>1, <2>1
  <2>4. q = MergeLogTail(s, m.logs)
    BY <1>4 DEF ApplyWatch
  <2> HIDE DEF events, row
  <2>5. /\ s \in Panel /\ s.logs = p.logs /\ s.log_next = p.log_next /\ s.selected = rm
        /\ s.runs = row /\ s.events = events /\ s.epoch = p.epoch /\ s.surface = p.surface
    BY <2>2, <2>3 DEF Panel, Opt
  <2> HIDE DEF s
  <2>6. LogOf(s) /\ RowOf(s)
    BY <2>3, <2>5 DEF LogOf, RowOf
  <2>7. q \in Panel /\ LogOf(q) /\ SameBut(s, q)
    BY <2>1, <2>4, <2>5, <2>6, MergeLogTailKeeps
  <2> HIDE DEF q
  <2> QED BY <2>2, <2>5, <2>6, <2>7 DEF SameBut, RowOf
<1>5. CASE m.kind = "run"
  <2> DEFINE row == [of |-> rm, ended |-> m.ended]
  <2>1. row \in [of : Remotes, ended : BOOLEAN] /\ row.of = rm
    BY <1>1, <1>5, MessageFields
  <2>2. q = [p EXCEPT !.runs = row]
    BY <1>5 DEF ApplyWatch
  <2> HIDE DEF row
  <2>3. /\ q \in Panel /\ q.logs = p.logs /\ q.log_next = p.log_next /\ q.selected = rm
        /\ q.runs = row /\ q.events = p.events /\ q.epoch = p.epoch /\ q.surface = p.surface
    BY <2>1, <2>2 DEF Panel, Opt
  <2> HIDE DEF q
  <2> QED BY <2>1, <2>3 DEF LogOf, RowOf
<1>6. CASE m.kind = "event"
  <2> DEFINE events == PlaceEvent(p.events, rm, m.index)
  <2>1. m.index \in 0..(n - 1) /\ p.events \in Opt(Seq(Item))
    BY <1>6, MessageFields DEF Panel
  <2>2. /\ events \in Opt(Seq(Item))
        /\ p.events \in Opt(FirstEvents(rm, n)) => events \in Opt(FirstEvents(rm, n))
    BY <1>1, <2>1, PlaceEventType
  <2>3. q = [p EXCEPT !.events = events]
    BY <1>6 DEF ApplyWatch
  <2> HIDE DEF events
  <2>4. /\ q \in Panel /\ q.logs = p.logs /\ q.log_next = p.log_next /\ q.selected = rm
        /\ q.runs = p.runs /\ q.events = events /\ q.epoch = p.epoch /\ q.surface = p.surface
    BY <2>2, <2>3 DEF Panel
  <2> HIDE DEF q
  <2> QED BY <2>2, <2>4 DEF LogOf, RowOf
<1>7. CASE m.kind = "log"
  <2> DEFINE line == [of |-> rm, n |-> m.seq]
  <2>1. line \in ItemOf(p.selected)
    BY <1>7, MessageFields DEF ItemOf
  <2>2. q = AppendLog(p, line)
    BY <1>7 DEF ApplyWatch
  <2> HIDE DEF line
  <2>3. q \in Panel /\ LogOf(q) /\ SameBut(p, q)
    BY <2>1, <2>2, AppendLogKeeps
  <2> HIDE DEF q
  <2> QED BY <2>3 DEF SameBut, RowOf
<1> QED BY <1>4, <1>5, <1>6, <1>7

\* The current feed applied a message, and goes on, or ends with the tab.
LEMMA AppliedKeeps ==
    ASSUME IInv, UNCHANGED <<site, daemon, poll>>, feed.phase # "none", feed.queue # <<>>,
           feed.epoch = panel.epoch, FeedGoesOn,
           panel' \in Panel, LogOf(panel'), RowOf(panel'), panel'.selected = panel.selected,
           panel'.epoch = panel.epoch, panel'.surface = panel.surface,
           HistoryOK', Streamed => HeldBy(panel')
    PROVE  IInv'
<1> DEFINE rm == feed.remote
           M == Message(site.remotes[rm], rm, daemon[rm].events)
           queue == Tail(feed.queue)
<1>1. Remotes' = Remotes /\ (Streamed' <=> Streamed) /\ (HeldBy(panel)' <=> HeldBy(panel'))
  BY DEF Remotes, Streamed, HeldBy
<1>2. rm \in Remotes /\ feed \in FeedOn(site.remotes[rm], rm, daemon[rm].events)
  BY TheFeed
<1>3. queue \in Seq(M)
  <2>1. feed.queue \in Seq(M)
    BY <1>2 DEF FeedOn
  <2> HIDE DEF M
  <2> QED BY <2>1
<1>4. \/ panel.surface # "remote" /\ feed' = NoFeed
      \/ panel.surface = "remote" /\ feed' = [feed EXCEPT !.queue = queue]
  BY DEF FeedGoesOn
<1> HIDE DEF queue
<1>5. panel.surface = "remote" =>
        /\ feed' \in FeedOn(site.remotes[rm], rm, daemon[rm].events)
        /\ feed'.phase = feed.phase /\ feed'.epoch = feed.epoch /\ feed'.remote = rm
  BY <1>2, <1>3, <1>4 DEF FeedOn
<1>6. FeedOK'
  BY <1>1, <1>2, <1>4, <1>5 DEF FeedOK
<1>7. feed'.phase \in {"none", feed.phase} /\ feed.epoch = panel.epoch /\ rm = panel.selected
  BY <1>4, <1>5 DEF NoFeed, IInv, Current
<1>8. TypeOK' /\ PollOK'
  <2>1. history'.phase \in {"none", "asked", "answered"}
    BY DEF HistoryOK, NoHistory, HistoryOn
  <2> QED BY <1>1, <1>7, <2>1 DEF IInv, TypeOK, PollOK, Poll, Panel, Item, Opt
<1>9. LogOf(panel)' /\ RowOf(panel)'
  BY DEF LogOf, RowOf
<1>10. panel.epoch \in Nat /\ (poll.phase # "none" => poll.epoch # panel.epoch)
  BY DEF IInv, Apart, TypeOK, Panel
<1>11. Current(panel, feed)' /\ Current(panel, poll)' /\ Apart' /\ Cursor(panel, poll)'
  <2>1. feed'.phase # "none" => feed'.epoch = panel.epoch /\ feed'.remote = panel.selected
    BY <1>4, <1>5, <1>7 DEF NoFeed
  <2> QED BY <1>10, <2>1 DEF IInv, Current, Apart, Cursor
<1>12. LiveIsFed'
  BY <1>5, <1>7 DEF LiveIsFed
<1>13. Streams'
  BY <1>1 DEF IInv, Streams
<1> QED BY <1>6, <1>8, <1>9, <1>11, <1>12, <1>13 DEF IInv

\* A feed of an epoch that passed ends at the first message it has.
LEMMA StaleFeedKeeps ==
    ASSUME IInv, UNCHANGED <<site, daemon, panel, poll, history>>, feed' = NoFeed,
           feed.phase # "none", feed.epoch # panel.epoch
    PROVE  IInv'
<1>1. Remotes' = Remotes /\ (Streamed' <=> Streamed) /\ (HeldBy(panel)' <=> HeldBy(panel))
  BY DEF Remotes, Streamed, HeldBy
<1>2. TypeOK' /\ FeedOK' /\ PollOK' /\ HistoryOK'
  BY <1>1 DEF IInv, TypeOK, FeedOK, PollOK, Poll, HistoryOK, Panel, Item, Opt, NoFeed
<1>3. LogOf(panel)' /\ RowOf(panel)' /\ Cursor(panel, poll)'
  BY DEF IInv, LogOf, RowOf, Cursor
<1>4. Current(panel, feed)' /\ Current(panel, poll)' /\ Apart' /\ LiveIsFed'
  BY DEF IInv, Current, Apart, LiveIsFed, NoFeed
<1>5. Streams'
  BY <1>1 DEF IInv, Streams
<1> QED BY <1>2, <1>3, <1>4, <1>5 DEF IInv

\* The feed takes a message: it is dropped with a stale feed, applied, or hands
\* over to the poll.
LEMMA FeedAppliesKeeps == ASSUME IInv, FeedApplies PROVE IInv'
<1> DEFINE m == Head(feed.queue)
           rm == feed.remote
           n == daemon[rm].events
           M == Message(site.remotes[rm], rm, n)
<1>1. feed.phase # "none" /\ feed.queue # <<>> /\ UNCHANGED <<site, daemon>>
  BY DEF FeedApplies
<1>2. rm \in Remotes /\ n \in Nat /\ feed \in FeedOn(site.remotes[rm], rm, n)
  BY <1>1, TheFeed
<1>3. m \in M
  <2>1. feed.queue \in Seq(M)
    BY <1>2 DEF FeedOn
  <2> HIDE DEF M
  <2> QED BY <1>1, <2>1
<1>4. panel \in Panel /\ LogOf(panel) /\ RowOf(panel) /\ HistoryOK /\ (Streamed => HeldBy(panel))
  BY DEF IInv, TypeOK, Streams
<1>5. CASE feed.epoch # panel.epoch
  <2>1. feed' = NoFeed /\ UNCHANGED <<panel, poll, history>>
    BY <1>5 DEF FeedApplies
  <2> QED BY <1>1, <1>5, <2>1, StaleFeedKeeps
<1>6. CASE feed.epoch = panel.epoch
  <2>1. rm = panel.selected
    BY <1>1, <1>6 DEF IInv, Current
  <2>2. CASE m.kind = "attached" /\ FeedGoesOn /\ UNCHANGED <<panel, poll, history>>
    <3>1. HistoryOK'
      BY <1>1, <1>4, <2>2 DEF HistoryOK, Remotes
    <3> QED BY <1>1, <1>4, <1>6, <2>2, <3>1, AppliedKeeps
  <2>3. CASE /\ m.kind \in {"snapshot", "run", "event", "log"}
             /\ LET p == ApplyWatch(panel, feed.remote, m)
                IN  IF p.opened THEN EnsureRunEvents(p) ELSE panel' = p /\ UNCHANGED history
             /\ FeedGoesOn /\ UNCHANGED poll
    <3> DEFINE p == ApplyWatch(panel, rm, m)
    <3>1. /\ p \in Panel /\ LogOf(p) /\ RowOf(p)
          /\ p.selected = rm /\ p.epoch = panel.epoch /\ p.surface = panel.surface
          /\ panel.events \in Opt(FirstEvents(rm, n)) => p.events \in Opt(FirstEvents(rm, n))
      BY <1>2, <1>3, <1>4, <2>1, <2>3, ApplyWatchType
    <3>2. IF p.opened THEN EnsureRunEvents(p) ELSE panel' = p /\ UNCHANGED history
      BY <2>3
    <3> HIDE DEF p
    <3>3. /\ panel' \in Panel /\ SameShown(p, panel') /\ panel'.surface = p.surface
          /\ panel'.events = p.events /\ HistoryOK'
      <4>1. CASE EnsureRunEvents(p)
        BY <1>1, <3>1, <4>1, EnsureRunEventsType
      <4>2. CASE panel' = p /\ UNCHANGED history
        BY <1>1, <1>4, <3>1, <4>2 DEF SameShown, HistoryOK, Remotes
      <4> QED BY <3>2, <4>1, <4>2
    <3>4. LogOf(panel') /\ RowOf(panel') /\ panel'.selected = panel.selected
          /\ panel'.epoch = panel.epoch /\ panel'.surface = panel.surface
      BY <2>1, <3>1, <3>3 DEF SameShown, LogOf, RowOf
    <3>5. Streamed => HeldBy(panel')
      BY <1>4, <2>1, <3>1, <3>3, <3>4 DEF HeldBy, Opt
    <3> QED BY <1>1, <1>6, <2>3, <3>3, <3>4, <3>5, AppliedKeeps
  <2>4. CASE /\ m.kind = "unreachable"
             /\ panel' = [panel EXCEPT !.status = IF @ = "none" THEN @ ELSE "not_live"]
             /\ FeedGoesOn /\ UNCHANGED <<poll, history>>
    <3> DEFINE status == IF panel.status = "none" THEN panel.status ELSE "not_live"
    <3>1. status \in {"none", "live", "not_live"} /\ panel' = [panel EXCEPT !.status = status]
      BY <2>4
    <3> HIDE DEF status
    <3>2. /\ panel' \in Panel /\ panel'.logs = panel.logs /\ panel'.log_next = panel.log_next
          /\ panel'.selected = panel.selected /\ panel'.runs = panel.runs
          /\ panel'.events = panel.events /\ panel'.epoch = panel.epoch
          /\ panel'.surface = panel.surface
      BY <1>4, <3>1 DEF Panel
    <3>3. LogOf(panel') /\ RowOf(panel') /\ (Streamed => HeldBy(panel')) /\ HistoryOK'
      BY <1>1, <1>4, <2>4, <3>2 DEF LogOf, RowOf, HeldBy, HistoryOK, Remotes
    <3> QED BY <1>1, <1>6, <2>4, <3>2, <3>3, AppliedKeeps
  <2>5. CASE m.kind = "unsupported" /\ StartPoll(panel) /\ feed' = NoFeed /\ UNCHANGED history
    <3>1. site.remotes[rm] = "none"
      BY <1>2, <1>3, <2>5, MessageFields
    <3>2. ~Streamed
      BY <1>2, <3>1 DEF Streamed
    <3>3. panel.epoch <= panel.epoch
      BY <1>4 DEF Panel
    <3> QED BY <1>1, <1>4, <2>5, <3>2, <3>3, StartPollKeeps
  <2> QED BY <1>6, <2>2, <2>3, <2>4, <2>5 DEF FeedApplies
<1> QED BY <1>5, <1>6

-----------------------------------------------------------------------------
(* The poll *)

\* The poll there is: not of a daemon that pushes.
LEMMA ThePoll ==
    ASSUME IInv, poll.phase # "none"
    PROVE  /\ poll \in Poll /\ poll.log_cursor <= daemon[poll.remote].lines /\ ~Streamed
           /\ poll.remote \in Remotes /\ daemon[poll.remote] \in Daemon
           /\ poll.log_cursor \in Nat
BY DEF IInv, TypeOK, PollOK, NoPoll, Poll, Streams

\* A step of the poll, and of what the panel shows by it.
LEMMA PollStep ==
    ASSUME IInv, UNCHANGED <<site, daemon, feed, history>>, poll.phase # "none",
           panel' = panel \/ poll.epoch = panel.epoch,
           panel' \in Panel, LogOf(panel'), RowOf(panel'),
           panel'.selected = panel.selected, panel'.epoch = panel.epoch,
           panel' # panel => panel'.status # "live",
           \/ poll' = NoPoll
           \/ /\ poll' \in Poll /\ poll'.log_cursor <= daemon[poll.remote].lines
              /\ poll'.remote = poll.remote /\ poll'.epoch = poll.epoch
              /\ Cursor(panel', poll')
    PROVE  IInv'
<1>1. Remotes' = Remotes /\ ~Streamed'
  BY ThePoll DEF Remotes, Streamed
<1>2. PollOK' /\ poll'.phase \in {"none", "idle", "asking", "answered"}
  BY <1>1 DEF PollOK, Poll, NoPoll
<1>3. TypeOK' /\ FeedOK' /\ HistoryOK'
  BY <1>1, <1>2 DEF IInv, TypeOK, FeedOK, HistoryOK, Panel, Item, Opt
<1>4. LogOf(panel)' /\ RowOf(panel)' /\ Cursor(panel, poll)'
  BY DEF LogOf, RowOf, Cursor, NoPoll
<1>5. Current(panel, feed)' /\ Current(panel, poll)' /\ Apart'
  BY DEF IInv, Current, Apart, NoPoll
<1>6. LiveIsFed' /\ Streams'
  BY <1>1 DEF IInv, LiveIsFed, Streams
<1> QED BY <1>2, <1>3, <1>4, <1>5, <1>6 DEF IInv

\* The poll notes what is watched.
LEMMA PollAsksKeeps == ASSUME IInv, PollAsks PROVE IInv'
<1> DEFINE watched == IF panel.opened THEN Held ELSE None
<1>1. /\ poll.phase = "idle" /\ poll' = [poll EXCEPT !.phase = "asking", !.watched = watched]
      /\ UNCHANGED <<site, daemon, panel, feed, history>>
  BY DEF PollAsks
<1>2. panel \in Panel /\ LogOf(panel) /\ RowOf(panel) /\ Cursor(panel, poll)
  BY DEF IInv, TypeOK
<1>3. watched \in Opt(Nat)
  <2>1. panel.events # None => panel.events \in Seq(Item)
    BY <1>2 DEF Panel, Opt
  <2>2. Held \in Nat
    BY <2>1 DEF Held
  <2> QED BY <2>2 DEF Opt
<1> HIDE DEF watched
<1>4. poll \in Poll /\ poll.log_cursor <= daemon[poll.remote].lines
  BY <1>1, ThePoll
<1>5. /\ poll' \in Poll /\ poll'.log_cursor = poll.log_cursor /\ poll'.page = poll.page
      /\ poll'.remote = poll.remote /\ poll'.epoch = poll.epoch /\ poll'.phase = "asking"
  BY <1>1, <1>3, <1>4 DEF Poll
<1>6. Cursor(panel', poll')
  BY <1>1, <1>2, <1>5 DEF Cursor
<1> QED BY <1>1, <1>2, <1>4, <1>5, <1>6, PollStep

\* The poll reads the log on from its cursor, and the events from what was held.
LEMMA PollReadsKeeps == ASSUME IInv, PollReads PROVE IInv'
<1> DEFINE rm == poll.remote
           d == daemon[rm]
           lines == Items(rm, poll.log_cursor, d.lines)
           events == IF poll.watched = None THEN None ELSE Items(rm, poll.watched, d.events)
           page == [ended |-> d.ended, lines |-> lines, events |-> events]
<1>1. /\ poll.phase = "asking" /\ UNCHANGED <<site, daemon, panel, feed, history>>
      /\ poll' = [poll EXCEPT !.phase = "answered", !.log_cursor = d.lines, !.page = page]
  BY DEF PollReads
<1>2. panel \in Panel /\ LogOf(panel) /\ RowOf(panel) /\ Cursor(panel, poll) /\ site \in Sites
  BY DEF IInv, TypeOK
<1>3. /\ poll \in Poll /\ poll.log_cursor <= d.lines /\ rm \in Remotes /\ d \in Daemon
      /\ poll.log_cursor \in Nat
  BY <1>1, ThePoll
<1>4. d.lines \in Nat /\ d.events \in Nat /\ d.ended \in BOOLEAN
  BY <1>3 DEF Daemon
<1>5. ItemOf(rm) \subseteq Item
  BY <1>3 DEF ItemOf, Item
<1>6. lines \in Seq(Item) /\ events \in Opt(Seq(Item))
  <2>1. lines \in Seq(ItemOf(rm))
    BY <1>3, <1>4, ItemsType
  <2>2. poll.watched # None => Items(rm, poll.watched, d.events) \in Seq(ItemOf(rm))
    BY <1>3, <1>4, ItemsType DEF Poll, Opt
  <2> QED BY <1>5, <2>1, <2>2 DEF Opt
<1> HIDE DEF events
<1>7. page \in Page(Remotes) /\ page.lines = lines
  <2> HIDE DEF lines
  <2> QED BY <1>4, <1>6 DEF Page, Item
<1>8. page # None
  BY <1>2, <1>7, NoneAssumption DEF Remotes
<1> HIDE DEF page
<1>9. /\ poll' \in Poll /\ poll'.log_cursor = d.lines /\ poll'.page = page
      /\ poll'.remote = rm /\ poll'.epoch = poll.epoch /\ poll'.phase = "answered"
  BY <1>1, <1>3, <1>4, <1>7 DEF Poll, Opt
<1>10. Cursor(panel', poll')
  <2> SUFFICES ASSUME poll.epoch = panel.epoch
               PROVE  panel.log_next <= d.lines /\ lines = Items(rm, panel.log_next, d.lines)
    BY <1>1, <1>7, <1>8, <1>9 DEF Cursor
  <2>1. poll.log_cursor = panel.log_next
    BY <1>1, <1>2 DEF Cursor
  <2> QED BY <1>3, <2>1
<1>11. poll'.log_cursor <= d.lines
  BY <1>4, <1>9
<1> QED BY <1>1, <1>2, <1>9, <1>10, <1>11, PollStep

\* Requests that fail leave the cursor where it is.
LEMMA PollFailsKeeps == ASSUME IInv, PollFails PROVE IInv'
<1>1. /\ poll.phase = "asking" /\ poll' = [poll EXCEPT !.phase = "answered", !.page = None]
      /\ UNCHANGED <<site, daemon, panel, feed, history>>
  BY DEF PollFails
<1>2. panel \in Panel /\ LogOf(panel) /\ RowOf(panel) /\ Cursor(panel, poll)
  BY DEF IInv, TypeOK
<1>3. poll \in Poll /\ poll.log_cursor <= daemon[poll.remote].lines
  BY <1>1, ThePoll
<1>4. /\ poll' \in Poll /\ poll'.log_cursor = poll.log_cursor /\ poll'.page = None
      /\ poll'.remote = poll.remote /\ poll'.epoch = poll.epoch /\ poll'.phase = "answered"
  BY <1>1, <1>3 DEF Poll, Opt
<1>5. Cursor(panel', poll')
  BY <1>1, <1>2, <1>4 DEF Cursor
<1> QED BY <1>1, <1>2, <1>3, <1>4, <1>5, PollStep

\* What a poll brings goes on in the log where the panel is.
LEMMA ApplyPageType ==
    ASSUME IInv, poll.phase = "answered", poll.epoch = panel.epoch, poll.page # None
    PROVE  LET q == ApplyPage(panel, poll.page) IN
             /\ q \in Panel /\ LogOf(q) /\ RowOf(q) /\ q.selected = panel.selected
             /\ q.epoch = panel.epoch /\ q.status = "not_live" /\ q.log_next = poll.log_cursor
<1> DEFINE p == panel
           page == poll.page
           rm == poll.remote
           next == poll.log_cursor
           events == IF page.events = None \/ ~p.opened THEN p.events
                     ELSE IF p.events = None THEN page.events ELSE p.events \o page.events
           row == [of |-> rm, ended |-> page.ended]
           g == [p EXCEPT !.logs = LastOf(@ \o page.lines, LogCap), !.log_next = next]
           q == [g EXCEPT !.events = events, !.runs = row, !.status = "not_live"]
<1>1. /\ p \in Panel /\ LogOf(p) /\ Cursor(p, poll) /\ rm = p.selected
  BY DEF IInv, TypeOK, Current
<1>2. poll \in Poll /\ rm \in Remotes /\ next \in Nat /\ p.log_next \in Nat
  BY <1>1, ThePoll DEF Panel
<1>3. page \in Page(Remotes)
  BY <1>2 DEF Poll, Opt
<1>4. page.ended \in BOOLEAN /\ page.lines \in Seq(Item) /\ page.events \in Opt(Seq(Item))
  BY <1>3 DEF Page, Item
<1>5. p.log_next <= next /\ page.lines = Items(rm, p.log_next, next)
  BY <1>1 DEF Cursor
<1>6. /\ page.lines \in Seq(ItemOf(rm)) /\ Len(page.lines) = next - p.log_next
      /\ \A i \in 1..(next - p.log_next) : page.lines[i] = [of |-> rm, n |-> p.log_next + i - 1]
  <2> DEFINE from == p.log_next
             lines == page.lines
  <2>1. from \in Nat /\ next \in Nat /\ from <= next /\ lines = Items(rm, from, next)
    BY <1>2, <1>5
  <2> HIDE DEF from, lines, next
  <2>2. /\ lines \in Seq(ItemOf(rm)) /\ Len(lines) = next - from
        /\ \A i \in 1..(next - from) : lines[i] = [of |-> rm, n |-> from + i - 1]
    BY <2>1, ItemsFacts
  <2> QED BY <2>2 DEF from, lines
<1>7. ApplyPage(p, page) = [p EXCEPT !.events = events, !.runs = row, !.status = "not_live",
                                     !.log_next = next, !.logs = LastOf(@ \o page.lines, LogCap)]
  BY DEF ApplyPage
<1>8. events \in Opt(Seq(Item))
  <2>1. p.events \in Opt(Seq(Item))
    BY <1>1 DEF Panel
  <2>2. page.events # None /\ p.events # None => p.events \o page.events \in Seq(Item)
    BY <1>4, <2>1 DEF Opt
  <2> QED BY <1>4, <2>1, <2>2 DEF Opt
<1>9. row \in [of : Remotes, ended : BOOLEAN] /\ row.of = rm
  BY <1>2, <1>4
<1> HIDE DEF page, next
<1>10. /\ \A i \in DOMAIN page.lines : /\ p.log_next <= page.lines[i].n
                                      /\ page.lines[i].n < next
       /\ \A i \in DOMAIN page.lines : \A j \in 1..(i - 1) : page.lines[j].n < page.lines[i].n
  <2>1. DOMAIN page.lines = 1..(next - p.log_next)
    BY <1>2, <1>5, <1>6
  <2>2. \A i \in DOMAIN page.lines : page.lines[i].n = p.log_next + i - 1 /\ i \in Nat /\ i >= 1
                                    /\ i <= next - p.log_next
    <3> SUFFICES ASSUME NEW i \in 1..(next - p.log_next)
                 PROVE  /\ page.lines[i].n = p.log_next + i - 1 /\ i \in Nat /\ i >= 1
                        /\ i <= next - p.log_next
      BY <2>1
    <3>1. page.lines[i] = [of |-> rm, n |-> p.log_next + i - 1]
      BY <1>6
    <3>2. page.lines[i].n = p.log_next + i - 1
      BY <3>1
    <3> QED BY <1>2, <3>2
  <2>3. ASSUME NEW i \in DOMAIN page.lines, NEW j \in 1..(i - 1)
        PROVE  page.lines[j].n < page.lines[i].n
    <3>1. j \in DOMAIN page.lines /\ j < i
      BY <1>2, <2>1, <2>2
    <3> QED BY <1>2, <2>2, <3>1
  <2> QED BY <1>2, <2>2, <2>3
<1>11. g \in Panel /\ LogOf(g) /\ SameBut(p, g)
  BY <1>1, <1>2, <1>5, <1>6, <1>10, LogGrows
<1> HIDE DEF events, row
<1>12. ApplyPage(p, page) = q /\ g.log_next = next
  BY <1>1, <1>7 DEF Panel
<1> HIDE DEF g
<1>13. /\ q \in Panel /\ q.logs = g.logs /\ q.log_next = next /\ q.selected = g.selected
       /\ q.epoch = g.epoch /\ q.status = "not_live" /\ q.runs = row
  BY <1>8, <1>9, <1>11, <1>12 DEF Panel, Opt
<1> HIDE DEF q
<1>14. g.selected = p.selected /\ g.epoch = p.epoch
  BY <1>11 DEF SameBut
<1>15. LogOf(q) /\ RowOf(q)
  BY <1>1, <1>9, <1>11, <1>12, <1>13, <1>14 DEF LogOf, RowOf
<1>16. /\ ApplyPage(panel, poll.page) = q /\ q.log_next = poll.log_cursor
  BY <1>12, <1>13 DEF page, next
<1> QED BY <1>13, <1>14, <1>15, <1>16

\* The current poll applies what it read, and goes on, or ends with the tab; a
\* poll of an epoch that passed ends.
LEMMA PollAppliesKeeps == ASSUME IInv, PollApplies PROVE IInv'
<1>1. poll.phase = "answered" /\ UNCHANGED <<site, daemon, feed, history>>
  BY DEF PollApplies
<1>2. panel \in Panel /\ LogOf(panel) /\ RowOf(panel) /\ Cursor(panel, poll)
  BY DEF IInv, TypeOK
<1>3. poll \in Poll /\ poll.log_cursor <= daemon[poll.remote].lines
  BY <1>1, ThePoll
<1>4. CASE poll.epoch # panel.epoch
  <2>1. poll' = NoPoll /\ panel' = panel
    BY <1>4 DEF PollApplies
  <2> QED BY <1>1, <1>2, <2>1, PollStep
<1>5. CASE poll.epoch = panel.epoch
  <2>1. /\ panel' = IF poll.page = None THEN [panel EXCEPT !.status = "none"]
                    ELSE ApplyPage(panel, poll.page)
        /\ \/ poll' = NoPoll
           \/ poll' = [poll EXCEPT !.phase = "idle", !.watched = None, !.page = None]
    BY <1>5 DEF PollApplies
  <2>2. /\ panel' \in Panel /\ LogOf(panel') /\ RowOf(panel')
        /\ panel'.selected = panel.selected /\ panel'.epoch = panel.epoch
        /\ panel'.status # "live" /\ panel'.log_next = poll.log_cursor
    <3>1. CASE poll.page = None
      <4>1. panel' = [panel EXCEPT !.status = "none"]
        BY <2>1, <3>1
      <4>2. /\ panel' \in Panel /\ panel'.logs = panel.logs /\ panel'.log_next = panel.log_next
            /\ panel'.selected = panel.selected /\ panel'.runs = panel.runs
            /\ panel'.epoch = panel.epoch /\ panel'.status = "none"
        BY <1>2, <4>1 DEF Panel
      <4>3. panel.log_next = poll.log_cursor
        BY <1>1, <1>2, <1>5, <3>1 DEF Cursor
      <4> QED BY <1>2, <4>2, <4>3 DEF LogOf, RowOf
    <3>2. CASE poll.page # None
      <4>1. panel' = ApplyPage(panel, poll.page)
        BY <2>1, <3>2
      <4> QED BY <1>1, <1>5, <3>2, <4>1, ApplyPageType
    <3> QED BY <3>1, <3>2
  <2>3. CASE poll' = NoPoll
    BY <1>1, <1>5, <2>2, <2>3, PollStep
  <2>4. CASE poll' = [poll EXCEPT !.phase = "idle", !.watched = None, !.page = None]
    <3>1. /\ poll' \in Poll /\ poll'.log_cursor = poll.log_cursor /\ poll'.page = None
          /\ poll'.remote = poll.remote /\ poll'.epoch = poll.epoch
      BY <1>3, <2>4 DEF Poll, Opt
    <3>2. Cursor(panel', poll')
      BY <2>2, <3>1 DEF Cursor
    <3> QED BY <1>1, <1>3, <1>5, <2>2, <3>1, <3>2, PollStep
  <2> QED BY <2>1, <2>3, <2>4
<1> QED BY <1>4, <1>5

-----------------------------------------------------------------------------
(* The theorems *)

\* The panel before its tab was shown satisfies the inductive invariant.
LEMMA InitInv == Init => IInv
<1> SUFFICES ASSUME Init PROVE IInv
  OBVIOUS
<1>1. PICK rm \in Remotes :
        panel = [surface |-> "other", selected |-> rm, epoch |-> 0, status |-> "none",
                 runs |-> None, opened |-> FALSE, events |-> None, history_for |-> FALSE,
                 logs |-> <<>>, log_next |-> 0]
  BY DEF Init
<1>2. panel \in Panel
  <2>1. <<>> \in Seq(Item)
    OBVIOUS
  <2> QED BY <1>1, <2>1 DEF Panel, Opt
<1>3. daemon \in [Remotes -> Daemon]
  BY DEF Init, Daemon
<1>4. /\ panel.logs = <<>> /\ panel.runs = None /\ panel.events = None
      /\ panel.status = "none"
  BY <1>1
<1>5. site \in Sites /\ feed = NoFeed /\ poll = NoPoll /\ history = NoHistory
  BY DEF Init
<1>6. TypeOK /\ FeedOK /\ PollOK /\ HistoryOK
  BY <1>2, <1>3, <1>5 DEF TypeOK, FeedOK, PollOK, HistoryOK, NoFeed, NoPoll, NoHistory
<1>7. LogOf(panel) /\ RowOf(panel)
  BY <1>4 DEF LogOf, RowOf
<1>8. /\ Current(panel, feed) /\ Current(panel, poll) /\ Apart /\ Cursor(panel, poll)
      /\ LiveIsFed /\ Streams
  BY <1>4, <1>5 DEF Current, Apart, Cursor, LiveIsFed, Streams, HeldBy, NoFeed, NoPoll
<1> QED BY <1>6, <1>7, <1>8 DEF IInv

\* Every step keeps the inductive invariant.
LEMMA NextInv == IInv /\ [Next]_vars => IInv'
<1> SUFFICES ASSUME IInv, [Next]_vars PROVE IInv'
  OBVIOUS
<1>1. ASSUME NEW rm \in Remotes, DaemonEvent(rm) \/ DaemonEnds(rm) \/ DaemonLogs(rm) PROVE IInv'
  BY <1>1, DaemonEventKeeps, DaemonEndsKeeps, DaemonLogsKeeps
<1>2. CASE Subscribe \/ Attach \/ Refuse \/ FailToConnect \/ EndSession
  BY <1>2, ThreadKeeps
<1>3. CASE HistoryReads \/ HistoryFails \/ HistoryArrives
  BY <1>3, HistoryKeeps
<1>4. CASE \/ \E rm \in Remotes : Select(rm) \/ ShowRemote(rm)
           \/ ProfileChanged \/ Restart \/ Leave \/ ActionDone \/ OpenRun \/ Back
  BY <1>4, OperatorKeeps
<1>5. CASE FeedApplies
  BY <1>5, FeedAppliesKeeps
<1>6. CASE PollAsks \/ PollReads \/ PollFails \/ PollApplies
  BY <1>6, PollAsksKeeps, PollReadsKeeps, PollFailsKeeps, PollAppliesKeeps
<1>7. CASE UNCHANGED vars
  <2>1. UNCHANGED <<site, daemon, feed, poll, panel, history>>
    BY <1>7 DEF vars
  <2>2. panel \in Panel /\ HistoryOK' /\ (Streamed => HeldBy(panel))
    BY <2>1 DEF IInv, TypeOK, Streams, HistoryOK, Remotes
  <2> QED BY <2>1, <2>2, PanelTouched DEF SameShown
<1> QED BY <1>1, <1>2, <1>3, <1>4, <1>5, <1>6, <1>7 DEF Next, Tasks

\* The inductive invariant holds in every state of every behaviour of the tab.
THEOREM Invariance == Spec => []IInv
<1>1. Init => IInv
  BY InitInv
<1>2. IInv /\ [Next]_vars => IInv'
  BY NextInv
<1> QED BY <1>1, <1>2, PTL DEF Spec

\* The variables keep their types.
THEOREM TypeCorrect == Spec => []TypeOK
<1>1. IInv => TypeOK
  BY DEF IInv
<1> QED BY <1>1, Invariance, PTL

\* The table and the log shown are the selected remote's, whatever feeds and
\* polls of other remotes, or of the same one, are still on the way: what
\* remote_epoch is for.
THEOREM ShownIsSelected == Spec => []ShowsSelected
<1>1. IInv => ShowsSelected
  BY DEF IInv, LogOf, RowOf, ShowsSelected
<1> QED BY <1>1, Invariance, PTL

\* The log is in order and no line is there twice, whatever sessions, snapshots,
\* restarts and polls brought it (append_log, merge_log_tail).
THEOREM LogIsInOrder == Spec => []LogInOrder
<1>1. IInv => LogInOrder
  BY DEF IInv, LogOf, LogInOrder
<1> QED BY <1>1, Invariance, PTL

\* The events held of a run that is pushed are its first ones, whichever were
\* lost or pushed twice, and whenever its history came (place_run_event).
THEOREM EventsHaveNoHole == Spec => []HeldFromStart
<1>1. ASSUME IInv, Streamed, panel.events # None
      PROVE  /\ panel.events = Items(panel.selected, 0, Len(panel.events))
             /\ Len(panel.events) <= daemon[panel.selected].events
  <2>1. panel.selected \in Remotes /\ daemon[panel.selected].events \in Nat
    BY <1>1 DEF IInv, TypeOK, Panel, Daemon
  <2>2. panel.events \in FirstEvents(panel.selected, daemon[panel.selected].events)
    BY <1>1 DEF IInv, Streams, HeldBy
  <2>3. /\ panel.events = Items(panel.selected, 0, Len(panel.events))
        /\ Len(panel.events) \in 0..daemon[panel.selected].events
    BY <2>1, <2>2, FirstEventsType
  <2> QED BY <2>1, <2>3
<1>2. IInv => HeldFromStart
  BY <1>1 DEF HeldFromStart
<1> QED BY <1>2, Invariance, PTL

\* A status that says the socket is live has its feed behind it, while the tab is
\* shown: what remote_action counts on.
THEOREM LiveHasItsFeed == Spec => []LiveIsFed
<1>1. IInv => LiveIsFed
  BY DEF IInv
<1> QED BY <1>1, Invariance, PTL
===============================================================================
