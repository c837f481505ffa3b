----------------------- MODULE RemoteLifecycleProofs -----------------------
(***************************************************************************)
(* The safety of the remote clients' lifecycle, for any number of clients, *)
(* attempts, heartbeats and failures: a client has one connection task at  *)
(* most, the clients share one connection, the heartbeat counts agree, and *)
(* a client that was told Disconnected stays so.                           *)
(*                                                                         *)
(* The inductive invariant is about one client at a time, Fit(st, ts) for  *)
(* its state and its tasks, and one clause about the pool, Pooled.         *)
(***************************************************************************)
EXTENDS RemoteLifecycle, FiniteSetTheorems, TLAPS

Attached == {"Connected", "HeartbeatMissed"}

\* A session belongs to a state that is attached, and the state counts the
\* heartbeats missed as its session does.
Counted(st) ==
    /\ st.session # None <=> st.kind \in Attached
    /\ st.session # None =>
          /\ st.missed = st.session.missed
          /\ (st.kind = "HeartbeatMissed") <=> (st.missed > 0)
          /\ st.missed < MaxMissed

\* A connection task holds what its phase and its attempt say: a session from the
\* start of the proxy on, on the connection it got; and a connection, unless it
\* is a first one that got none yet.
Sound(t) ==
    /\ t.attempt <= MaxAttempts
    /\ t.session # None <=> t.phase \in {"started", "asked", "done"}
    /\ t.session # None => t.session.conn = t.conn /\ t.session.missed = 0
    /\ t.attempt # 0 \/ t.phase \in {"got", "started", "asked"} => t.conn # None
    /\ t.phase = "started" => t.attempt = 0
    /\ t.phase \in {"kill", "killing", "done"} => t.attempt # 0

\* A client without a task is not reconnecting; one with a task has no session,
\* did not give up, and reconnects by an attempt.
Quiet(st) == Counted(st) /\ st.kind # "Reconnecting"
Busy(st, t) ==
    /\ Sound(t) /\ st.session = None
    /\ st.kind \notin Attached \cup {"ReconnectExhausted"}
    /\ st.kind = "Reconnecting" => t.attempt # 0

Fit(st, ts) ==
    \/ ts = <<>> /\ Quiet(st)
    \/ \E t \in ConnectTask : ts = <<t>> /\ Busy(st, t)

\* The only connection alive is the pool's: while the pool makes another, or
\* has none, no connection is alive.
InPool(p) == {p.conn : x \in {p.kind} \cap {"connected"}}
Pooled == Alive \subseteq InPool(pool)

IInv == TypeOK /\ (\A c \in Clients : Fit(client[c], tasks[c])) /\ Pooled

-----------------------------------------------------------------------------
(* The connections a client holds *)

Conns(st, ts) ==
    {st.session.conn : x \in {st.session} \ {None}}
    \cup {ts[i].conn : i \in DOMAIN ts}
    \cup {ts[i].session.conn : i \in {j \in DOMAIN ts : ts[j].session # None}}

\* A client without a task holds its session's connection,
LEMMA QuietConns ==
    ASSUME NEW st, NEW x \in Conns(st, <<>>)
    PROVE  st.session # None /\ x = st.session.conn
BY DEF Conns

\* and one with a task the task's.
LEMMA BusyConns ==
    ASSUME NEW st, NEW t \in ConnectTask, Busy(st, t)
    PROVE  \A x : x \in Conns(st, <<t>>) <=> x = t.conn
<1>1. DOMAIN <<t>> = {1} /\ <<t>>[1] = t
  OBVIOUS
<1>2. st.session = None /\ (t.session # None => t.session.conn = t.conn)
  BY DEF Busy, Sound
<1> QED BY <1>1, <1>2, Zenon DEF Conns

\* What a client holds is alive, or was killed.
LEMMA HeldOrKilled ==
    ASSUME NEW c \in Clients, NEW x \in Conns(client[c], tasks[c])
    PROVE  x \in Alive \cup killed \cup {None}
<1>1. x \in Holds(c)
  BY Zenon DEF Conns, Holds
<1>2. Holds(c) \in {Holds(d) : d \in Clients}
  BY Zenon
<1>3. x \in UNION {Holds(d) : d \in Clients}
  BY <1>1, <1>2, Zenon
<1> QED BY <1>3, Zenon DEF Alive

\* The task of a client, there being one.
LEMMA TheTask ==
    ASSUME IInv, NEW c \in Clients, NEW i \in DOMAIN tasks[c]
    PROVE  /\ i = 1 /\ tasks[c][i] \in ConnectTask /\ tasks[c] = <<tasks[c][i]>>
           /\ Busy(client[c], tasks[c][i])
           /\ RemoveAt(tasks[c], i) = <<>>
           /\ \A u \in ConnectTask : [tasks[c] EXCEPT ![i] = u] = <<u>>
<1>1. tasks[c] # <<>>
  OBVIOUS
<1>2. PICK t \in ConnectTask : tasks[c] = <<t>> /\ Busy(client[c], t)
  BY <1>1, Zenon DEF IInv, Fit
<1>3. i = 1 /\ tasks[c][i] = t
  BY <1>2
<1>4. RemoveAt(tasks[c], i) = <<>>
  BY <1>2, <1>3 DEF RemoveAt
<1>5. ASSUME NEW u \in ConnectTask PROVE [tasks[c] EXCEPT ![i] = u] = <<u>>
  BY <1>2, <1>3
<1> QED BY <1>2, <1>3, <1>4, <1>5

-----------------------------------------------------------------------------
(* Steps of one client *)

\* A step that leaves one client fit, and lets it hold no new connection, keeps
\* the invariant.
LEMMA ClientStep ==
    ASSUME IInv, NEW c \in Clients, NEW st \in State, NEW ts \in Seq(ConnectTask),
           Fit(st, ts), Conns(st, ts) \subseteq Alive \cup killed \cup {None},
           client' = [client EXCEPT ![c] = st], tasks' = [tasks EXCEPT ![c] = ts],
           pool' \in Pool, Alive \subseteq InPool(pool'), made' = made,
           killed \subseteq killed', killed' \in SUBSET Nat, faults' \in Nat
    PROVE  IInv'
<1>1. /\ client \in [Clients -> State] /\ tasks \in [Clients -> Seq(ConnectTask)]
      /\ made \in Nat
  BY DEF IInv, TypeOK
<1>2. TypeOK'
  BY <1>1 DEF TypeOK
<1>3. ASSUME NEW d \in Clients PROVE Fit(client'[d], tasks'[d])
  <2>1. CASE d = c
    BY <1>1, <2>1
  <2>2. CASE d # c
    <3>1. client'[d] = client[d] /\ tasks'[d] = tasks[d]
      BY <1>1, <2>2
    <3> QED BY <3>1 DEF IInv
  <2> QED BY <2>1, <2>2
<1>4. Alive' \subseteq Alive
  <2> SUFFICES ASSUME NEW d \in Clients, NEW x \in Holds(d)', x \notin killed', x # None
               PROVE  x \in Alive
    <3>1. ASSUME NEW x \in Alive'
          PROVE  \E d \in Clients : x \in Holds(d)' /\ x \notin killed' /\ x # None
      BY Zenon DEF Alive
    <3> QED BY <3>1
  <2>1. x \in Conns(client'[d], tasks'[d])
    BY Zenon DEF Conns, Holds
  <2>2. CASE d = c
    <3>1. client'[d] = st /\ tasks'[d] = ts
      BY <1>1, <2>2
    <3> QED BY <2>1, <3>1
  <2>3. CASE d # c
    <3>1. client'[d] = client[d] /\ tasks'[d] = tasks[d]
      BY <1>1, <2>3
    <3>2. x \in Conns(client[d], tasks[d])
      BY <2>1, <3>1
    <3>3. x \in Alive \cup killed \cup {None}
      BY <3>2, HeldOrKilled
    <3> QED BY <3>3
  <2> QED BY <2>2, <2>3
<1>5. Pooled'
  BY <1>4 DEF Pooled
<1> QED BY <1>2, <1>3, <1>5 DEF IInv

\* A task that goes on, or gives way to another one on its connection.
LEMMA TaskStep ==
    ASSUME IInv, NEW c \in Clients, NEW i \in DOMAIN tasks[c],
           NEW st \in State, NEW u \in ConnectTask, Busy(st, u),
           client' = [client EXCEPT ![c] = st], tasks' = [tasks EXCEPT ![c] = <<u>>],
           u.conn \in Alive \cup killed \cup {None} \/ u.conn = tasks[c][i].conn,
           pool' \in Pool, Alive \subseteq InPool(pool'), made' = made,
           killed \subseteq killed', killed' \in SUBSET Nat, faults' \in Nat
    PROVE  IInv'
<1> DEFINE t == tasks[c][i]
<1>1. t \in ConnectTask /\ tasks[c] = <<t>> /\ Busy(client[c], t)
  BY TheTask
<1>2. Fit(st, <<u>>)
  BY Zenon DEF Fit
<1>3. t.conn \in Alive \cup killed \cup {None}
  <2>1. t.conn \in Conns(client[c], tasks[c])
    BY <1>1, BusyConns
  <2> QED BY <2>1, HeldOrKilled
<1>4. Conns(st, <<u>>) \subseteq Alive \cup killed \cup {None}
  BY <1>3, BusyConns
<1>5. <<u>> \in Seq(ConnectTask)
  OBVIOUS
<1> QED BY <1>2, <1>4, <1>5, ClientStep

\* A task that goes on while its client's state stays.
LEMMA GoesStep ==
    ASSUME IInv, NEW c \in Clients, NEW i \in DOMAIN tasks[c], NEW u \in ConnectTask,
           Goes(c, i, u), Sound(u), u.attempt = tasks[c][i].attempt, UNCHANGED client,
           u.conn \in Alive \cup killed \cup {None} \/ u.conn = tasks[c][i].conn,
           pool' \in Pool, Alive \subseteq InPool(pool'), made' = made,
           killed \subseteq killed', killed' \in SUBSET Nat, faults' \in Nat
    PROVE  IInv'
<1>0. client \in [Clients -> State] /\ tasks \in [Clients -> Seq(ConnectTask)]
  BY DEF IInv, TypeOK
<1>1. Busy(client[c], tasks[c][i]) /\ [tasks[c] EXCEPT ![i] = u] = <<u>>
  BY TheTask
<1>2. tasks' = [tasks EXCEPT ![c] = <<u>>]
  BY <1>0, <1>1 DEF Goes
<1>3. client' = [client EXCEPT ![c] = client[c]] /\ client[c] \in State
  BY <1>0
<1>4. Busy(client[c], u)
  BY <1>1, Zenon DEF Busy
<1> QED BY <1>2, <1>3, <1>4, TaskStep

\* The same, where nothing else changes.
LEMMA GoesAlone ==
    ASSUME IInv, NEW c \in Clients, NEW i \in DOMAIN tasks[c], NEW u \in ConnectTask,
           Goes(c, i, u), Sound(u), u.attempt = tasks[c][i].attempt, u.conn = tasks[c][i].conn,
           UNCHANGED <<client, pool, made, killed>>, faults' \in Nat
    PROVE  IInv'
<1>1. /\ pool' \in Pool /\ Alive \subseteq InPool(pool') /\ killed \subseteq killed'
      /\ killed' \in SUBSET Nat
  BY DEF IInv, TypeOK, Pooled
<1> QED BY <1>1, GoesStep

\* A task that ends, and leaves its client without one.
LEMMA TaskEnds ==
    ASSUME IInv, NEW c \in Clients, NEW i \in DOMAIN tasks[c], NEW st \in State, Quiet(st),
           client' = [client EXCEPT ![c] = st],
           tasks' = [tasks EXCEPT ![c] = RemoveAt(tasks[c], i)],
           st.session # None => st.session.conn = tasks[c][i].conn,
           faults' \in Nat, UNCHANGED <<pool, made, killed>>
    PROVE  IInv'
<1> DEFINE t == tasks[c][i]
<1>1. /\ t \in ConnectTask /\ tasks[c] = <<t>> /\ Busy(client[c], t)
      /\ RemoveAt(tasks[c], i) = <<>>
  BY TheTask
<1>2. Fit(st, <<>>) /\ <<>> \in Seq(ConnectTask)
  BY DEF Fit
<1>3. t.conn \in Alive \cup killed \cup {None}
  <2>1. t.conn \in Conns(client[c], tasks[c])
    BY <1>1, BusyConns
  <2> QED BY <2>1, HeldOrKilled
<1>4. Conns(st, <<>>) \subseteq Alive \cup killed \cup {None}
  BY <1>3, QuietConns
<1>5. /\ pool' \in Pool /\ Alive \subseteq InPool(pool') /\ killed \subseteq killed'
      /\ killed' \in SUBSET Nat
  BY DEF IInv, TypeOK, Pooled
<1> QED BY <1>1, <1>2, <1>4, <1>5, ClientStep

-----------------------------------------------------------------------------
(* The watchers of a session *)

\* A state with a session has no task beside it.
LEMMA TheSession ==
    ASSUME IInv, NEW c \in Clients, client[c].session # None
    PROVE  /\ client[c] \in State /\ client[c].session \in Session /\ tasks[c] = <<>>
           /\ client[c].kind \in Attached /\ Quiet(client[c])
           /\ client[c].session.conn \in Alive \cup killed \cup {None}
<1>1. client[c] \in State /\ client[c].session \in Session
  BY DEF IInv, TypeOK, State, Opt
<1>2. tasks[c] = <<>> /\ Quiet(client[c])
  BY Zenon DEF IInv, Fit, Busy
<1>3. client[c].session.conn \in Conns(client[c], tasks[c])
  BY Zenon DEF Conns
<1>4. client[c].session.conn \in Alive \cup killed \cup {None}
  BY <1>3, HeldOrKilled
<1> QED BY <1>1, <1>2, <1>4 DEF Quiet, Counted

\* The state of the session's client changes, and nothing else.
LEMMA SessionStep ==
    ASSUME IInv, NEW c \in Clients, client[c].session # None, NEW st \in State, Quiet(st),
           client' = [client EXCEPT ![c] = st], UNCHANGED tasks,
           st.session # None => st.session.conn = client[c].session.conn,
           faults' \in Nat, UNCHANGED <<pool, made, killed>>
    PROVE  IInv'
<1>1. tasks[c] = <<>> /\ client[c].session.conn \in Alive \cup killed \cup {None}
  BY TheSession
<1>2. tasks' = [tasks EXCEPT ![c] = <<>>] /\ <<>> \in Seq(ConnectTask)
  BY <1>1 DEF IInv, TypeOK
<1>3. Fit(st, <<>>)
  BY DEF Fit
<1>4. Conns(st, <<>>) \subseteq Alive \cup killed \cup {None}
  BY <1>1, QuietConns
<1>5. /\ pool' \in Pool /\ Alive \subseteq InPool(pool') /\ killed \subseteq killed'
      /\ killed' \in SUBSET Nat
  BY DEF IInv, TypeOK, Pooled
<1> QED BY <1>2, <1>3, <1>4, <1>5, ClientStep

\* An attempt to replace a connection is a sound task of a client that reconnects.
LEMMA AttemptFit ==
    ASSUME NEW n \in 1..MaxAttempts, NEW conn \in Nat
    PROVE  /\ Attempt(n, conn) \in ConnectTask /\ Attempt(n, conn).conn = conn
           /\ In("Reconnecting") \in State
           /\ Busy(In("Reconnecting"), Attempt(n, conn))
<1>1. n \in Nat /\ n # 0 /\ n <= MaxAttempts /\ conn # None
  BY ConstantsAssumption
<1>2. Attempt(n, conn) \in ConnectTask /\ Attempt(n, conn).conn = conn
  BY <1>1 DEF Attempt, ConnectTask, Phases, Opt
<1>3. Sound(Attempt(n, conn))
  BY <1>1 DEF Sound, Attempt
<1>4. In("Reconnecting") \in State
  BY DEF In, State, StateKinds, Opt
<1> QED BY <1>1, <1>2, <1>3, <1>4 DEF Busy, In, Attached, Attempt

\* reconnect, from a state with a session.
LEMMA ReconnectKeeps ==
    ASSUME IInv, NEW c \in Clients, client[c].session # None, NEW st, st.kind \in Attached,
           st.session.conn = client[c].session.conn, Reconnect(c, st, tasks[c]),
           faults' \in Nat, UNCHANGED <<pool, made, killed>>
    PROVE  IInv'
<1> DEFINE conn == st.session.conn
           u == Attempt(1, conn)
           rc == In("Reconnecting")
<1>1. /\ tasks[c] = <<>> /\ client[c].session \in Session
      /\ conn \in Alive \cup killed \cup {None}
  BY TheSession
<1>2. conn \in Nat /\ 1 \in 1..MaxAttempts
  BY <1>1, ConstantsAssumption DEF Session
<1>3. u \in ConnectTask /\ u.conn = conn /\ rc \in State /\ Busy(rc, u)
  BY <1>2, AttemptFit
<1>4. client' = [client EXCEPT ![c] = rc] /\ tasks' = [tasks EXCEPT ![c] = Append(<<>>, u)]
  BY <1>1, Zenon DEF Reconnect, CanReconnect, Attached
<1>5. Append(<<>>, u) = <<u>> /\ <<u>> \in Seq(ConnectTask)
  BY <1>3
<1>6. Fit(rc, <<u>>)
  BY <1>3, Zenon DEF Fit
<1>7. Conns(rc, <<u>>) \subseteq Alive \cup killed \cup {None}
  BY <1>1, <1>3, BusyConns
<1>8. /\ pool' \in Pool /\ Alive \subseteq InPool(pool') /\ killed \subseteq killed'
      /\ killed' \in SUBSET Nat
  BY DEF IInv, TypeOK, Pooled
<1> HIDE DEF rc, u
<1> QED BY <1>3, <1>4, <1>5, <1>6, <1>7, <1>8, ClientStep

\* A state without a session and without an attempt owes nothing to either.
LEMMA InQuiet ==
    ASSUME NEW kind \in StateKinds \ (Attached \cup {"Reconnecting"})
    PROVE  In(kind) \in State /\ Quiet(In(kind)) /\ In(kind).session = None
BY DEF In, State, Opt, Quiet, Counted

\* The monitor of the client's session takes it to an attempt, or to the end.
LEMMA MonitorFiresKeeps == ASSUME IInv, NEW c \in Clients, MonitorFires(c) PROVE IInv'
<1> DEFINE st == [client[c] EXCEPT !.session.monitor = FALSE]
<1>1. /\ client[c].session # None /\ Monitored(c, client[c].session, st, tasks[c])
      /\ UNCHANGED <<pool, made, killed, faults>> /\ faults' \in Nat
  BY DEF MonitorFires, IInv, TypeOK
<1>2. /\ client[c] \in State /\ client[c].session \in Session /\ client[c].kind \in Attached
  BY <1>1, TheSession
<1>3. st.kind = client[c].kind /\ st.session.conn = client[c].session.conn
  BY <1>2 DEF State, Session
<1>4. CASE client[c].session.io = "no_server"
  <2>1. /\ client' = [client EXCEPT ![c] = In("ServerNotRunning")]
        /\ tasks' = [tasks EXCEPT ![c] = tasks[c]]
    BY <1>1, <1>2, <1>3, <1>4 DEF Monitored, Attached
  <2>2. UNCHANGED tasks
    BY <2>1 DEF IInv, TypeOK
  <2>3. In("ServerNotRunning") \in State /\ Quiet(In("ServerNotRunning"))
        /\ In("ServerNotRunning").session = None
    BY InQuiet DEF StateKinds, Attached
  <2> QED BY <1>1, <2>1, <2>2, <2>3, SessionStep
<1>5. CASE client[c].session.io # "no_server"
  <2>1. Reconnect(c, st, tasks[c])
    BY <1>1, <1>2, <1>3, <1>5 DEF Monitored, Attached
  <2> HIDE DEF st
  <2> QED BY <1>1, <1>2, <1>3, <2>1, ReconnectKeeps
<1> QED BY <1>4, <1>5

\* A session keeps its type when its heartbeat task counts.
LEMMA BeatsType ==
    ASSUME NEW session \in Session, NEW missed \in Nat, NEW beats \in BOOLEAN
    PROVE  [session EXCEPT !.missed = missed, !.heartbeat = beats] \in Session
BY DEF Session

\* ... and so does a state.
LEMMA CountsType ==
    ASSUME NEW st \in State, NEW kind \in StateKinds, NEW n \in Nat, NEW session \in Session
    PROVE  LET st2 == [st EXCEPT !.kind = kind, !.missed = n, !.session = session]
           IN  st2 \in State /\ st2.kind = kind /\ st2.missed = n /\ st2.session = session
BY DEF State, Opt

\* A heartbeat missed counts in the state and in the session alike, and the last
\* one allowed begins an attempt.
LEMMA HeartbeatMissesKeeps == ASSUME IInv, NEW c \in Clients, HeartbeatMisses(c) PROVE IInv'
<1> DEFINE old == client[c]
           missed == old.session.missed + 1
           beats == missed < MaxMissed
           session == [old.session EXCEPT !.missed = missed, !.heartbeat = beats]
           st == [old EXCEPT !.kind = "HeartbeatMissed", !.missed = @ + 1,
                             !.session.missed = missed,
                             !.session.heartbeat = beats]
<1>1. /\ old.session # None /\ Fault /\ UNCHANGED <<pool, made, killed>>
      /\ IF missed >= MaxMissed THEN Reconnect(c, st, tasks[c])
         ELSE client' = [client EXCEPT ![c] = st] /\ UNCHANGED tasks
  BY DEF HeartbeatMisses
<1>2. faults' \in Nat
  BY <1>1 DEF Fault, IInv, TypeOK
<1>3. old \in State /\ old.session \in Session /\ old.kind \in Attached /\ Quiet(old)
  BY <1>1, TheSession
<1>4. beats \in BOOLEAN
  OBVIOUS
<1> HIDE DEF beats
<1>5. missed \in Nat /\ missed > 0
  BY <1>3 DEF Session
<1> HIDE DEF missed
<1>6. session \in Session
  BY <1>3, <1>4, <1>5, BeatsType
<1>7. session.missed = missed /\ session.conn = old.session.conn /\ session # None
  BY <1>3, <1>6, ConstantsAssumption DEF Session
<1>8. st = [old EXCEPT !.kind = "HeartbeatMissed", !.missed = old.missed + 1, !.session = session]
  BY <1>3 DEF State
<1> HIDE DEF st, session
<1>9. /\ st.kind = "HeartbeatMissed" /\ st.session = session /\ st.missed = old.missed + 1
      /\ st \in State
  <2>1. old.missed + 1 \in Nat /\ "HeartbeatMissed" \in StateKinds
    BY <1>3 DEF State, StateKinds
  <2>2. \A n \in Nat :
           [old EXCEPT !.kind = "HeartbeatMissed", !.missed = n, !.session = session] \in State
    BY <1>3, <1>6, <2>1, CountsType
  <2>3. st \in State
    BY <1>8, <2>1, <2>2
  <2>4. st.kind = "HeartbeatMissed" /\ st.session = session /\ st.missed = old.missed + 1
    BY <1>3, <1>8 DEF State
  <2> QED BY <2>3, <2>4
<1>10. old.missed = old.session.missed
  BY <1>1, <1>3 DEF Quiet, Counted
<1>11. CASE missed >= MaxMissed
  <2>1. Reconnect(c, st, tasks[c])
    BY <1>1, <1>11
  <2> QED BY <1>1, <1>2, <1>7, <1>9, <1>5, <2>1, ReconnectKeeps DEF Attached
<1>12. CASE ~(missed >= MaxMissed)
  <2>1. missed < MaxMissed
    BY <1>5, <1>12, ConstantsAssumption
  <2>2. Quiet(st)
    BY <1>7, <1>9, <1>5, <1>10, <2>1 DEF Quiet, Counted, Attached, missed
  <2> QED BY <1>1, <1>2, <1>7, <1>9, <1>5, <1>12, <2>2, SessionStep
<1> QED BY <1>11, <1>12

\* A heartbeat answered clears both counts.
LEMMA HeartbeatRecoversKeeps == ASSUME IInv, NEW c \in Clients, HeartbeatRecovers(c) PROVE IInv'
<1> DEFINE old == client[c]
           session == [old.session EXCEPT !.missed = 0]
           st == [old EXCEPT !.kind = "Connected", !.missed = 0, !.session.missed = 0]
<1>1. /\ old.session # None /\ UNCHANGED <<tasks, pool, made, killed, faults>>
      /\ client' = [client EXCEPT ![c] = st] /\ faults' \in Nat
  BY DEF HeartbeatRecovers, IInv, TypeOK
<1>2. old \in State /\ old.session \in Session
  BY <1>1, TheSession
<1>3. session \in Session /\ session # None /\ session.missed = 0
      /\ session.conn = old.session.conn
  BY <1>2, ConstantsAssumption DEF Session
<1>4. /\ st.kind = "Connected" /\ st.session = session /\ st.missed = 0 /\ st \in State
  BY <1>2, <1>3 DEF State, Session, StateKinds, Opt
<1> HIDE DEF st, session
<1>5. Quiet(st)
  BY <1>3, <1>4, ConstantsAssumption DEF Quiet, Counted, Attached
<1> QED BY <1>1, <1>3, <1>4, <1>5, SessionStep

\* A session whose connection and count stay takes its place.
LEMMA SessionTouched ==
    ASSUME IInv, NEW c \in Clients, client[c].session # None, NEW s2 \in Session,
           s2.conn = client[c].session.conn, s2.missed = client[c].session.missed,
           client' = [client EXCEPT ![c].session = s2], UNCHANGED tasks,
           faults' \in Nat, UNCHANGED <<pool, made, killed>>
    PROVE  IInv'
<1> DEFINE st == [client[c] EXCEPT !.session = s2]
<1>1. client[c] \in State /\ client[c].session \in Session /\ Quiet(client[c])
  BY TheSession
<1>2. /\ st \in State /\ st.session = s2 /\ s2 # None
      /\ st.kind = client[c].kind /\ st.missed = client[c].missed
  BY <1>1, ConstantsAssumption DEF State, Opt
<1>3. client' = [client EXCEPT ![c] = st]
  OBVIOUS
<1> HIDE DEF st
<1>4. Quiet(st)
  BY <1>1, <1>2 DEF Quiet, Counted
<1> QED BY <1>2, <1>3, <1>4, SessionStep

\* The heartbeat of a session whose proxy is gone ends.
LEMMA HeartbeatStopsKeeps == ASSUME IInv, NEW c \in Clients, HeartbeatStops(c) PROVE IInv'
<1> DEFINE s2 == [client[c].session EXCEPT !.heartbeat = FALSE]
<1>1. /\ client[c].session # None /\ UNCHANGED <<tasks, pool, made, killed, faults>>
      /\ client' = [client EXCEPT ![c].session = s2] /\ faults' \in Nat
  BY DEF HeartbeatStops, IInv, TypeOK
<1>2. client[c].session \in Session
  BY <1>1, TheSession
<1>3. s2 \in Session /\ s2.conn = client[c].session.conn /\ s2.missed = client[c].session.missed
  BY <1>2 DEF Session
<1> HIDE DEF s2
<1> QED BY <1>1, <1>3, SessionTouched

\* A task's session whose connection and count stay takes its place.
LEMMA TaskSound ==
    ASSUME NEW t \in ConnectTask, Sound(t), t.session # None, NEW s2 \in Session,
           s2.conn = t.session.conn, s2.missed = t.session.missed
    PROVE  LET u == [t EXCEPT !.session = s2]
           IN  u \in ConnectTask /\ Sound(u) /\ u.attempt = t.attempt /\ u.conn = t.conn
<1> DEFINE u == [t EXCEPT !.session = s2]
<1>1. /\ u \in ConnectTask /\ u.session = s2 /\ s2 # None /\ u.attempt = t.attempt
      /\ u.conn = t.conn /\ u.phase = t.phase
  BY ConstantsAssumption DEF ConnectTask, Opt
<1> HIDE DEF u
<1>2. Sound(u)
  BY <1>1, Zenon DEF Sound
<1> QED BY <1>1, <1>2 DEF u

\* A change to the session an attempt opened, of neither its connection nor its
\* count.
LEMMA TaskTouched ==
    ASSUME IInv, NEW c \in Clients, NEW i \in DOMAIN tasks[c], tasks[c][i].session # None,
           NEW s2 \in Session, s2.conn = tasks[c][i].session.conn,
           s2.missed = tasks[c][i].session.missed,
           tasks' = [tasks EXCEPT ![c][i].session = s2],
           UNCHANGED <<client, pool, made, killed>>, faults' \in Nat
    PROVE  IInv'
<1> DEFINE t == tasks[c][i]
           u == [t EXCEPT !.session = s2]
<1>1. t \in ConnectTask /\ Busy(client[c], t)
  BY TheTask
<1>2. u \in ConnectTask /\ Sound(u) /\ u.attempt = t.attempt /\ u.conn = t.conn
  BY <1>1, TaskSound DEF Busy
<1>3. Goes(c, i, u)
  BY DEF Goes
<1> HIDE DEF u
<1> QED BY <1>2, <1>3, GoesAlone

\* The monitor of a session still with its attempt acts on the client's state.
LEMMA TaskMonitorFiresKeeps == ASSUME IInv, NEW c \in Clients, TaskMonitorFires(c) PROVE IInv'
<1>1. PICK i \in DOMAIN tasks[c] :
          /\ tasks[c][i].session # None
          /\ Monitored(c, tasks[c][i].session, client[c],
                       [tasks[c] EXCEPT ![i].session.monitor = FALSE])
  BY DEF TaskMonitorFires
<1>2. UNCHANGED <<pool, made, killed, faults>> /\ faults' \in Nat
  BY DEF TaskMonitorFires, IInv, TypeOK
<1>0. client \in [Clients -> State] /\ tasks \in [Clients -> Seq(ConnectTask)]
  BY DEF IInv, TypeOK
<1> DEFINE t == tasks[c][i]
           s2 == [t.session EXCEPT !.monitor = FALSE]
           u == [t EXCEPT !.session = s2]
<1>3. /\ t \in ConnectTask /\ Busy(client[c], t)
      /\ \A v \in ConnectTask : [tasks[c] EXCEPT ![i] = v] = <<v>>
  BY TheTask
<1>4. s2 \in Session /\ s2.conn = t.session.conn /\ s2.missed = t.session.missed
  BY <1>1, <1>3 DEF Session, ConnectTask, Opt
<1>5. u \in ConnectTask /\ Sound(u) /\ u.attempt = t.attempt /\ u.conn = t.conn
  BY <1>1, <1>3, <1>4, TaskSound DEF Busy
<1>6. [tasks[c] EXCEPT ![i].session.monitor = FALSE] = <<u>>
  BY <1>3, <1>5
<1> HIDE DEF u
<1>7. Monitored(c, t.session, client[c], <<u>>)
  BY <1>1, <1>6
<1>8. /\ tasks' = [tasks EXCEPT ![c] = <<u>>]
      /\ client' = [client EXCEPT ![c] = client[c]]
            \/ client' = [client EXCEPT ![c] = In("ServerNotRunning")]
  <2>1. ~CanReconnect(client[c])
    BY <1>3 DEF Busy, CanReconnect, Attached
  <2>2. UNCHANGED client => client' = [client EXCEPT ![c] = client[c]]
    BY <1>0
  <2> QED BY <1>7, <2>1, <2>2, Zenon DEF Monitored, Reconnect
<1>9. PICK st \in State : client' = [client EXCEPT ![c] = st] /\ Busy(st, u)
  <2>1. client[c] \in State /\ Busy(client[c], u)
    BY <1>0, <1>3, <1>5, Zenon DEF Busy
  <2>2. In("ServerNotRunning") \in State /\ Busy(In("ServerNotRunning"), u)
    BY <1>5, Zenon, InQuiet DEF Busy, StateKinds, Attached, In
  <2> QED BY <1>8, <2>1, <2>2, Zenon
<1>10. /\ pool' \in Pool /\ Alive \subseteq InPool(pool') /\ killed \subseteq killed'
       /\ killed' \in SUBSET Nat /\ made' = made
  BY <1>2 DEF IInv, TypeOK, Pooled
<1> QED BY <1>2, <1>5, <1>8, <1>9, <1>10, TaskStep

-----------------------------------------------------------------------------
(* The connection tasks *)

\* A task in another phase.
LEMMA PhaseFields ==
    ASSUME NEW t \in ConnectTask, NEW phase \in Phases
    PROVE  LET u == [t EXCEPT !.phase = phase]
           IN  /\ u \in ConnectTask /\ u.phase = phase /\ u.attempt = t.attempt
               /\ u.conn = t.conn /\ u.session = t.session
BY DEF ConnectTask

\* An attempt closes the connection it replaces.
LEMMA KillStartsKeeps ==
    ASSUME IInv, NEW c \in Clients, NEW i \in DOMAIN tasks[c], KillStarts(c, i) PROVE IInv'
<1> DEFINE t == tasks[c][i]
           phase == IF t.conn \in killed THEN "open" ELSE "killing"
           u == [t EXCEPT !.phase = phase]
<1>1. t \in ConnectTask /\ Sound(t)
  BY TheTask DEF Busy
<1>2. /\ t.phase = "kill" /\ Goes(c, i, u) /\ killed' = killed \cup {t.conn}
      /\ UNCHANGED <<client, pool, made, faults>>
  BY DEF KillStarts
<1>3. phase \in {"open", "killing"} /\ phase \in Phases
  BY DEF Phases
<1>4. /\ u \in ConnectTask /\ u.phase = phase /\ u.attempt = t.attempt
      /\ u.conn = t.conn /\ u.session = t.session
  BY <1>1, <1>3, PhaseFields
<1> HIDE DEF u, phase
<1>5. t.conn \in Nat
  BY <1>1, <1>2 DEF Sound, ConnectTask, Opt
<1>6. Sound(u)
  BY <1>1, <1>2, <1>3, <1>4 DEF Sound
<1>7. /\ pool' \in Pool /\ Alive \subseteq InPool(pool') /\ killed \subseteq killed'
      /\ killed' \in SUBSET Nat /\ faults' \in Nat
  BY <1>2, <1>5 DEF IInv, TypeOK, Pooled
<1> QED BY <1>2, <1>4, <1>6, <1>7, GoesStep

\* An attempt that cannot close the connection fails with it.
LEMMA KillFailsKeeps ==
    ASSUME IInv, NEW c \in Clients, NEW i \in DOMAIN tasks[c], KillFails(c, i) PROVE IInv'
<1> DEFINE t == tasks[c][i]
           u == [t EXCEPT !.phase = "failed"]
<1>1. t \in ConnectTask /\ Sound(t)
  BY TheTask DEF Busy
<1>2. /\ t.phase = "killing" /\ Goes(c, i, u)
      /\ UNCHANGED <<client, pool, made, killed>> /\ faults' \in Nat
  BY DEF KillFails, Fault, IInv, TypeOK
<1>3. /\ u \in ConnectTask /\ u.phase = "failed" /\ u.attempt = t.attempt
      /\ u.conn = t.conn /\ u.session = t.session
  BY <1>1, PhaseFields DEF Phases
<1> HIDE DEF u
<1>4. Sound(u)
  BY <1>1, <1>2, <1>3 DEF Sound
<1> QED BY <1>2, <1>3, <1>4, GoesAlone

\* The pool's connection is given to a task, or the pool goes to make one when
\* nothing is alive.
LEMMA PoolConnectKeeps ==
    ASSUME IInv, NEW c \in Clients, NEW i \in DOMAIN tasks[c], PoolConnect(c, i) PROVE IInv'
<1> DEFINE t == tasks[c][i]
           lives == pool.kind = "connected" /\ pool.conn \in Alive
<1>1. t \in ConnectTask /\ Sound(t)
  BY TheTask DEF Busy
<1>2. t.phase \in {"open", "killing"} /\ UNCHANGED <<client, made, killed, faults>>
  BY DEF PoolConnect
<1>3. /\ pool \in Pool /\ Alive \subseteq InPool(pool) /\ killed \subseteq killed'
      /\ killed' \in SUBSET Nat /\ faults' \in Nat /\ made' = made
  BY <1>2 DEF IInv, TypeOK, Pooled
<1>4. CASE lives
  <2> DEFINE u == [t EXCEPT !.phase = "got", !.conn = pool.conn]
  <2>1. Goes(c, i, u) /\ UNCHANGED pool
    BY <1>4 DEF PoolConnect
  <2>2. pool.conn \in Nat /\ pool.conn # None
    BY <1>3, <1>4, ConstantsAssumption DEF Pool
  <2>3. /\ u \in ConnectTask /\ u.phase = "got" /\ u.attempt = t.attempt
        /\ u.conn = pool.conn /\ u.session = t.session
    BY <1>1, <2>2 DEF ConnectTask, Phases, Opt
  <2> HIDE DEF u
  <2>4. Sound(u)
    BY <1>1, <1>2, <2>2, <2>3 DEF Sound
  <2>5. u.conn \in Alive \cup killed \cup {None}
    BY <1>4, <2>3
  <2> QED BY <1>2, <1>3, <2>1, <2>3, <2>4, <2>5, GoesStep
<1>5. CASE ~lives
  <2> DEFINE u == [t EXCEPT !.phase = "pool"]
  <2>1. Goes(c, i, u) /\ pool' = [kind |-> "connecting"]
    BY <1>5 DEF PoolConnect
  <2>2. Alive = {}
    BY <1>3, <1>5 DEF InPool
  <2>3. pool' \in Pool /\ Alive \subseteq InPool(pool')
    BY <2>1, <2>2 DEF Pool
  <2>4. /\ u \in ConnectTask /\ u.phase = "pool" /\ u.attempt = t.attempt
        /\ u.conn = t.conn /\ u.session = t.session
    BY <1>1, PhaseFields DEF Phases
  <2> HIDE DEF u
  <2>5. Sound(u)
    BY <1>1, <1>2, <2>4 DEF Sound
  <2> QED BY <1>2, <1>3, <2>1, <2>3, <2>4, <2>5, GoesStep
<1> QED BY <1>4, <1>5

\* An attempt starts the proxy of its connection.
LEMMA StartProxyKeeps ==
    ASSUME IInv, NEW c \in Clients, NEW i \in DOMAIN tasks[c], StartProxy(c, i) PROVE IInv'
<1> DEFINE t == tasks[c][i]
           watched == t.attempt # 0
           session == [conn |-> t.conn, io |-> "running", answered |-> FALSE,
                       monitor |-> watched, heartbeat |-> FALSE, missed |-> 0]
           phase == IF t.attempt = 0 THEN "started" ELSE "asked"
           u == [t EXCEPT !.session = session, !.phase = phase]
<1>1. t \in ConnectTask /\ Sound(t)
  BY TheTask DEF Busy
<1>2. /\ t.phase = "got" /\ Goes(c, i, u)
      /\ UNCHANGED <<client, pool, made, killed, faults>> /\ faults' \in Nat
  BY DEF StartProxy, IInv, TypeOK
<1>3. t.conn \in Nat
  BY <1>1, <1>2 DEF Sound, ConnectTask, Opt
<1>4. watched \in BOOLEAN
  OBVIOUS
<1> HIDE DEF watched
<1>5. session \in Session /\ session.conn = t.conn /\ session.missed = 0 /\ session # None
  <2>1. session \in Session
    BY <1>3, <1>4 DEF Session
  <2>2. session # None
    BY <2>1, ConstantsAssumption
  <2> QED BY <2>1, <2>2
<1>6. /\ phase \in {"started", "asked"} /\ phase \in Phases
      /\ phase = "started" => t.attempt = 0
  BY DEF Phases
<1> HIDE DEF session, phase
<1>7. /\ u \in ConnectTask /\ u.phase = phase /\ u.attempt = t.attempt
      /\ u.conn = t.conn /\ u.session = session
  BY <1>1, <1>5, <1>6 DEF ConnectTask, Opt
<1> HIDE DEF u
<1>8. Sound(u)
  BY <1>1, <1>2, <1>5, <1>6, <1>7 DEF Sound
<1> QED BY <1>2, <1>7, <1>8, GoesAlone

\* The first answer of the proxy reaches the attempt.
LEMMA AnsweredKeeps ==
    ASSUME IInv, NEW c \in Clients, NEW i \in DOMAIN tasks[c], Answered(c, i) PROVE IInv'
<1> DEFINE t == tasks[c][i]
           s2 == [t.session EXCEPT !.answered = TRUE]
<1>1. t \in ConnectTask /\ Sound(t)
  BY TheTask DEF Busy
<1>2. /\ t.phase \in {"started", "asked"} /\ tasks' = [tasks EXCEPT ![c][i].session = s2]
      /\ UNCHANGED <<client, pool, made, killed, faults>> /\ faults' \in Nat
  BY DEF Answered, IInv, TypeOK
<1>3. t.session # None /\ t.session \in Session
  BY <1>1, <1>2 DEF Sound, ConnectTask, Opt
<1>4. s2 \in Session /\ s2.conn = t.session.conn /\ s2.missed = t.session.missed
  BY <1>3 DEF Session
<1> HIDE DEF s2
<1> QED BY <1>2, <1>3, <1>4, TaskTouched

\* A new client's attempt goes on once the proxy said it is ready.
LEMMA NewReadyKeeps ==
    ASSUME IInv, NEW c \in Clients, NEW i \in DOMAIN tasks[c], NewReady(c, i) PROVE IInv'
<1> DEFINE t == tasks[c][i]
           s2 == [t.session EXCEPT !.answered = FALSE, !.monitor = TRUE]
           u == [t EXCEPT !.phase = "asked", !.session = s2]
<1>1. t \in ConnectTask /\ Sound(t)
  BY TheTask DEF Busy
<1>2. /\ t.phase = "started"
      /\ Goes(c, i, [t EXCEPT !.phase = "asked", !.session.answered = FALSE,
                              !.session.monitor = TRUE])
      /\ UNCHANGED <<client, pool, made, killed, faults>> /\ faults' \in Nat
  BY DEF NewReady, IInv, TypeOK
<1>3. t.session # None /\ t.session \in Session
  BY <1>1, <1>2 DEF Sound, ConnectTask, Opt
<1>4. /\ s2 \in Session /\ s2.conn = t.session.conn /\ s2.missed = t.session.missed
      /\ s2 # None
  BY <1>3, ConstantsAssumption DEF Session
<1>5. u = [t EXCEPT !.phase = "asked", !.session.answered = FALSE, !.session.monitor = TRUE]
  BY <1>1, <1>3 DEF ConnectTask, Session
<1> HIDE DEF s2
<1>6. /\ u \in ConnectTask /\ u.phase = "asked" /\ u.attempt = t.attempt
      /\ u.conn = t.conn /\ u.session = s2
  BY <1>1, <1>4 DEF ConnectTask, Phases, Opt
<1>7. Goes(c, i, u)
  BY <1>2, <1>5
<1> HIDE DEF u
<1>8. Sound(u)
  BY <1>1, <1>2, <1>3, <1>4, <1>6 DEF Sound
<1> QED BY <1>2, <1>6, <1>7, <1>8, GoesAlone

\* A new client is connected: its session leaves the attempt, which ends.
LEMMA NewConnectedKeeps ==
    ASSUME IInv, NEW c \in Clients, NEW i \in DOMAIN tasks[c], NewConnected(c, i) PROVE IInv'
<1> DEFINE t == tasks[c][i]
           s2 == [t.session EXCEPT !.heartbeat = TRUE]
           st == [kind |-> "Connected", missed |-> 0, session |-> s2]
<1>1. t \in ConnectTask /\ Sound(t)
  BY TheTask DEF Busy
<1>2. /\ t.phase = "asked" /\ client' = [client EXCEPT ![c] = st]
      /\ tasks' = [tasks EXCEPT ![c] = RemoveAt(tasks[c], i)]
      /\ UNCHANGED <<pool, made, killed, faults>> /\ faults' \in Nat
  BY DEF NewConnected, IInv, TypeOK
<1>3. t.session # None /\ t.session \in Session /\ t.session.conn = t.conn /\ t.session.missed = 0
  BY <1>1, <1>2 DEF Sound, ConnectTask, Opt
<1>4. s2 \in Session /\ s2.conn = t.conn /\ s2.missed = 0 /\ s2 # None
  BY <1>3, ConstantsAssumption DEF Session
<1> HIDE DEF s2
<1>5. st \in State /\ st.session = s2 /\ st.missed = 0 /\ st.kind = "Connected"
  BY <1>4 DEF State, StateKinds, Opt
<1> HIDE DEF st
<1>6. Quiet(st)
  BY <1>4, <1>5, ConstantsAssumption DEF Quiet, Counted, Attached
<1> QED BY <1>2, <1>4, <1>5, <1>6, TaskEnds

\* A new client that cannot connect is given up.
LEMMA NewFailsKeeps ==
    ASSUME IInv, NEW c \in Clients, NEW i \in DOMAIN tasks[c], NewFails(c, i) PROVE IInv'
<1> DEFINE st == In("Released")
<1>1. /\ client' = [client EXCEPT ![c] = st]
      /\ tasks' = [tasks EXCEPT ![c] = RemoveAt(tasks[c], i)]
      /\ UNCHANGED <<pool, made, killed>>
  BY DEF NewFails
<1>2. faults' \in Nat
  BY DEF NewFails, TimesOut, Fault, IInv, TypeOK
<1>3. st \in State /\ Quiet(st) /\ st.session = None
  BY InQuiet DEF StateKinds, Attached
<1> HIDE DEF st
<1> QED BY <1>1, <1>2, <1>3, TaskEnds

\* A resync answered ends the attempt with the session it opened.
LEMMA ResyncedKeeps ==
    ASSUME IInv, NEW c \in Clients, NEW i \in DOMAIN tasks[c], Resynced(c, i) PROVE IInv'
<1> DEFINE t == tasks[c][i]
           s2 == [t.session EXCEPT !.heartbeat = TRUE]
           u == [t EXCEPT !.phase = "done", !.session = s2]
<1>1. t \in ConnectTask /\ Sound(t)
  BY TheTask DEF Busy
<1>2. /\ t.attempt # 0 /\ t.phase = "asked"
      /\ Goes(c, i, [t EXCEPT !.phase = "done", !.session.heartbeat = TRUE])
      /\ UNCHANGED <<client, pool, made, killed, faults>> /\ faults' \in Nat
  BY DEF Resynced, IInv, TypeOK
<1>3. t.session # None /\ t.session \in Session
  BY <1>1, <1>2 DEF Sound, ConnectTask, Opt
<1>4. /\ s2 \in Session /\ s2.conn = t.session.conn /\ s2.missed = t.session.missed
      /\ s2 # None
  BY <1>3, ConstantsAssumption DEF Session
<1>5. u = [t EXCEPT !.phase = "done", !.session.heartbeat = TRUE]
  BY <1>1, <1>3 DEF ConnectTask, Session
<1> HIDE DEF s2
<1>6. /\ u \in ConnectTask /\ u.phase = "done" /\ u.attempt = t.attempt
      /\ u.conn = t.conn /\ u.session = s2
  BY <1>1, <1>4 DEF ConnectTask, Phases, Opt
<1>7. Goes(c, i, u)
  BY <1>2, <1>5
<1> HIDE DEF u
<1>8. Sound(u)
  BY <1>1, <1>2, <1>3, <1>4, <1>6 DEF Sound
<1> QED BY <1>2, <1>6, <1>7, <1>8, GoesAlone

\* A resync that fails, or is late, ends the attempt without a session.
LEMMA ResyncFailsKeeps ==
    ASSUME IInv, NEW c \in Clients, NEW i \in DOMAIN tasks[c], ResyncFails(c, i) PROVE IInv'
<1> DEFINE t == tasks[c][i]
           u == [t EXCEPT !.phase = "failed", !.session = None]
<1>1. t \in ConnectTask /\ Sound(t)
  BY TheTask DEF Busy
<1>2. /\ t.attempt # 0 /\ Goes(c, i, u) /\ UNCHANGED <<client, pool, made, killed>>
  BY DEF ResyncFails
<1>3. faults' \in Nat
  BY DEF ResyncFails, TimesOut, Fault, IInv, TypeOK
<1>4. /\ u \in ConnectTask /\ u.phase = "failed" /\ u.attempt = t.attempt
      /\ u.conn = t.conn /\ u.session = None
  BY <1>1 DEF ConnectTask, Phases, Opt
<1> HIDE DEF u
<1>5. Sound(u)
  BY <1>1, <1>2, <1>4 DEF Sound
<1> QED BY <1>2, <1>3, <1>4, <1>5, GoesAlone

\* The end of an attempt: its client has the session, the next attempt, or gives up.
LEMMA AttemptEndsKeeps ==
    ASSUME IInv, NEW c \in Clients, NEW i \in DOMAIN tasks[c], AttemptEnds(c, i) PROVE IInv'
<1> DEFINE t == tasks[c][i]
           rest == RemoveAt(tasks[c], i)
<1>1. /\ t \in ConnectTask /\ Sound(t) /\ Busy(client[c], t) /\ rest = <<>>
  BY TheTask DEF Busy
<1>2. /\ t.attempt # 0 /\ t.phase \in {"done", "failed"}
      /\ UNCHANGED <<pool, made, killed, faults>> /\ faults' \in Nat
  BY DEF AttemptEnds, IInv, TypeOK
<1>3. /\ client[c] \in State /\ t.conn \in Nat /\ t.attempt \in 1..MaxAttempts
  BY <1>1, <1>2, ConstantsAssumption DEF IInv, TypeOK, Sound, ConnectTask, Opt
<1> HIDE DEF rest
<1>4. CASE client[c].kind # "Reconnecting"
  <2>1. client' = [client EXCEPT ![c] = client[c]] /\ tasks' = [tasks EXCEPT ![c] = rest]
    BY <1>4 DEF AttemptEnds, rest
  <2>2. Quiet(client[c]) /\ client[c].session = None
    BY <1>1, <1>4 DEF Busy, Quiet, Counted
  <2> QED BY <1>2, <1>3, <2>1, <2>2, TaskEnds DEF rest
<1>5. CASE client[c].kind = "Reconnecting" /\ t.phase = "done"
  <2> DEFINE st == [kind |-> "Connected", session |-> t.session, missed |-> 0]
  <2>1. client' = [client EXCEPT ![c] = st] /\ tasks' = [tasks EXCEPT ![c] = rest]
    BY <1>5 DEF AttemptEnds, rest
  <2>2. /\ t.session # None /\ t.session \in Session /\ t.session.conn = t.conn
        /\ t.session.missed = 0
    BY <1>1, <1>5 DEF Sound, ConnectTask, Opt
  <2>3. st \in State /\ st.session = t.session /\ st.missed = 0 /\ st.kind = "Connected"
    BY <2>2 DEF State, StateKinds, Opt
  <2> HIDE DEF st
  <2>4. Quiet(st)
    BY <2>2, <2>3, ConstantsAssumption DEF Quiet, Counted, Attached
  <2> QED BY <1>2, <2>1, <2>2, <2>3, <2>4, TaskEnds DEF rest
<1>6. CASE client[c].kind = "Reconnecting" /\ t.phase # "done" /\ t.attempt + 1 > MaxAttempts
  <2> DEFINE st == In("ReconnectExhausted")
  <2>1. client' = [client EXCEPT ![c] = st] /\ tasks' = [tasks EXCEPT ![c] = rest]
    BY <1>6 DEF AttemptEnds, rest
  <2>2. st \in State /\ Quiet(st) /\ st.session = None
    BY InQuiet DEF StateKinds, Attached
  <2> HIDE DEF st
  <2> QED BY <1>2, <2>1, <2>2, TaskEnds DEF rest
<1>7. CASE client[c].kind = "Reconnecting" /\ t.phase # "done" /\ ~(t.attempt + 1 > MaxAttempts)
  <2> DEFINE st == In("Reconnecting")
             u == Attempt(t.attempt + 1, t.conn)
  <2>1. client' = [client EXCEPT ![c] = st] /\ tasks' = [tasks EXCEPT ![c] = Append(rest, u)]
    BY <1>7 DEF AttemptEnds, rest
  <2>2. t.attempt + 1 \in 1..MaxAttempts
    BY <1>3, <1>7, ConstantsAssumption
  <2>3. u \in ConnectTask /\ u.conn = t.conn /\ st \in State /\ Busy(st, u)
    BY <1>3, <2>2, AttemptFit
  <2> HIDE DEF st, u
  <2>4. Append(rest, u) = <<u>>
    BY <1>1, <2>3
  <2>5. /\ pool' \in Pool /\ Alive \subseteq InPool(pool') /\ killed \subseteq killed'
        /\ killed' \in SUBSET Nat /\ made' = made
    BY <1>2 DEF IInv, TypeOK, Pooled
  <2> QED BY <1>2, <2>1, <2>3, <2>4, <2>5, TaskStep
<1> QED BY <1>4, <1>5, <1>6, <1>7

-----------------------------------------------------------------------------
(* The pool's answers *)

\* What PoolAnswers makes of a task.
Given(t, phase, conn) ==
    IF t.phase # "pool" THEN t
    ELSE [t EXCEPT !.phase = phase, !.conn = IF conn = None THEN @ ELSE conn]

\* A task that waited for a connection is sound with it, or without one.
LEMMA GivenSound ==
    ASSUME NEW t \in ConnectTask, Sound(t), NEW phase \in {"got", "failed"},
           NEW conn \in Opt(Nat), phase = "got" => conn # None
    PROVE  LET u == Given(t, phase, conn)
           IN  /\ u \in ConnectTask /\ Sound(u) /\ u.attempt = t.attempt
               /\ u.conn \in {t.conn, conn}
<1>1. CASE t.phase # "pool"
  BY <1>1 DEF Given
<1>2. CASE t.phase = "pool"
  <2> DEFINE to == IF conn = None THEN t.conn ELSE conn
             u == [t EXCEPT !.phase = phase, !.conn = to]
  <2>1. Given(t, phase, conn) = u
    BY <1>2 DEF Given, ConnectTask
  <2>2. to \in Opt(Nat) /\ to \in {t.conn, conn} /\ (phase = "got" \/ t.conn # None => to # None)
    BY DEF ConnectTask
  <2> HIDE DEF to
  <2>3. /\ u \in ConnectTask /\ u.phase = phase /\ u.attempt = t.attempt
        /\ u.conn = to /\ u.session = t.session
    BY <2>2 DEF ConnectTask, Phases
  <2> HIDE DEF u
  <2>4. Sound(u)
    BY <1>2, <2>2, <2>3 DEF Sound
  <2> QED BY <2>1, <2>2, <2>3, <2>4
<1> QED BY <1>1, <1>2

\* All that wait are answered: every client stays fit, and holds nothing but what
\* it held and the connection made.
LEMMA AnswersFit ==
    ASSUME IInv, NEW phase \in {"got", "failed"}, NEW conn \in Opt(Nat),
           phase = "got" => conn # None, PoolAnswers(phase, conn), UNCHANGED client,
           NEW c \in Clients
    PROVE  /\ tasks'[c] \in Seq(ConnectTask) /\ Fit(client'[c], tasks'[c])
           /\ Conns(client'[c], tasks'[c]) \subseteq Alive \cup killed \cup {None, conn}
<1> DEFINE ts == [i \in DOMAIN tasks[c] |-> Given(tasks[c][i], phase, conn)]
<1>1. tasks'[c] = ts
  BY DEF PoolAnswers, Given
<1>2. CASE tasks[c] = <<>>
  <2>1. ts = <<>>
    BY <1>2
  <2>2. Conns(client[c], <<>>) \subseteq Alive \cup killed \cup {None}
    BY <1>2, HeldOrKilled
  <2>3. Fit(client[c], <<>>)
    BY <1>2 DEF IInv
  <2> QED BY <1>1, <2>1, <2>2, <2>3
<1>3. CASE tasks[c] # <<>>
  <2>1. PICK t \in ConnectTask : tasks[c] = <<t>> /\ Busy(client[c], t)
    BY <1>3, Zenon DEF IInv, Fit
  <2> DEFINE u == Given(t, phase, conn)
  <2>2. u \in ConnectTask /\ Sound(u) /\ u.attempt = t.attempt /\ u.conn \in {t.conn, conn}
    BY <2>1, GivenSound DEF Busy
  <2> HIDE DEF u
  <2>3. ts = <<u>> /\ <<u>> \in Seq(ConnectTask)
    BY <2>1, <2>2 DEF u
  <2>4. Busy(client[c], u)
    BY <2>1, <2>2, Zenon DEF Busy
  <2>5. Fit(client[c], <<u>>)
    BY <2>2, <2>4, Zenon DEF Fit
  <2>6. t.conn \in Alive \cup killed \cup {None}
    <3>1. t.conn \in Conns(client[c], tasks[c])
      BY <2>1, BusyConns
    <3> QED BY <3>1, HeldOrKilled
  <2>7. Conns(client[c], <<u>>) \subseteq Alive \cup killed \cup {None, conn}
    BY <2>2, <2>4, <2>6, BusyConns
  <2> QED BY <1>1, <2>3, <2>5, <2>7
<1> QED BY <1>2, <1>3

\* Either answer of the pool comes when nothing is alive.
LEMMA AnswersKeep ==
    ASSUME IInv, Making, NEW phase \in {"got", "failed"}, NEW conn \in Opt(Nat),
           phase = "got" => conn # None, PoolAnswers(phase, conn), UNCHANGED <<client, killed>>,
           pool' \in Pool, conn # None => InPool(pool') = {conn}, made' \in Nat, faults' \in Nat
    PROVE  IInv'
<1>1. Alive = {}
  BY DEF Making, IInv, Pooled, InPool
<1>2. ASSUME NEW c \in Clients
      PROVE  /\ tasks'[c] \in Seq(ConnectTask) /\ Fit(client'[c], tasks'[c])
             /\ Conns(client'[c], tasks'[c]) \subseteq Alive \cup killed \cup {None, conn}
  BY AnswersFit
<1>3. TypeOK'
  <2>1. tasks' = [c \in Clients |-> tasks'[c]]
    BY Zenon DEF PoolAnswers
  <2>2. tasks' \in [Clients -> Seq(ConnectTask)]
    BY <1>2, <2>1
  <2> QED BY <2>2 DEF IInv, TypeOK
<1>4. Alive' \subseteq {conn} \ {None}
  <2> SUFFICES ASSUME NEW d \in Clients, NEW x \in Holds(d)', x \notin killed', x # None
               PROVE  x \in {conn} \ {None}
    <3>1. ASSUME NEW x \in Alive'
          PROVE  \E d \in Clients : x \in Holds(d)' /\ x \notin killed' /\ x # None
      BY Zenon DEF Alive
    <3> QED BY <3>1
  <2>1. x \in Conns(client'[d], tasks'[d])
    BY Zenon DEF Conns, Holds
  <2> QED BY <1>1, <1>2, <2>1
<1>5. Pooled'
  BY <1>4 DEF Pooled
<1> QED BY <1>2, <1>3, <1>5 DEF IInv

\* The pool's connection is made, under a number no connection had.
LEMMA PoolConnectsKeeps == ASSUME IInv, PoolConnects PROVE IInv'
<1>1. /\ Making /\ made' = made + 1 /\ pool' = [kind |-> "connected", conn |-> made + 1]
      /\ PoolAnswers("got", made + 1) /\ UNCHANGED <<client, killed, faults>>
  BY DEF PoolConnects
<1>2. made + 1 \in Nat /\ made + 1 # None /\ faults' \in Nat
  BY <1>1, ConstantsAssumption DEF IInv, TypeOK
<1>3. pool' \in Pool /\ InPool(pool') = {made + 1}
  BY <1>1, <1>2 DEF Pool, InPool
<1> QED BY <1>1, <1>2, <1>3, AnswersKeep DEF Opt

\* The pool's connection is not made, and is not kept.
LEMMA PoolFailsKeeps == ASSUME IInv, PoolFails PROVE IInv'
<1>1. /\ Making /\ Fault /\ pool' = [kind |-> "empty"]
      /\ PoolAnswers("failed", None) /\ UNCHANGED <<client, made, killed>>
  BY DEF PoolFails
<1>2. made' \in Nat /\ faults' \in Nat /\ pool' \in Pool
  BY <1>1 DEF IInv, TypeOK, Fault, Pool
<1> QED BY <1>1, <1>2, AnswersKeep DEF Opt

-----------------------------------------------------------------------------
(* Outside *)

\* A proxy that ends, of a state's session or of a task's.
LEMMA EndsKeeps ==
    ASSUME IInv, NEW c \in Clients, NEW how \in {"exited", "no_server"}, Ends(c, how),
           UNCHANGED <<pool, made, killed>>, faults' \in Nat
    PROVE  IInv'
<1>1. CASE /\ client[c].session # None /\ UNCHANGED tasks
           /\ client' = [client EXCEPT ![c].session.io = how]
  <2> DEFINE s2 == [client[c].session EXCEPT !.io = how]
  <2>1. client[c].session \in Session
    BY <1>1, TheSession
  <2>2. /\ s2 \in Session /\ s2.conn = client[c].session.conn
        /\ s2.missed = client[c].session.missed
    BY <2>1 DEF Session
  <2>3. client' = [client EXCEPT ![c].session = s2]
    BY <1>1
  <2> HIDE DEF s2
  <2> QED BY <1>1, <2>2, <2>3, SessionTouched
<1>2. ASSUME NEW i \in DOMAIN tasks[c], tasks[c][i].session # None, UNCHANGED client,
             tasks' = [tasks EXCEPT ![c][i].session.io = how]
      PROVE  IInv'
  <2> DEFINE s2 == [tasks[c][i].session EXCEPT !.io = how]
  <2>1. tasks[c][i].session \in Session
    BY <1>2, TheTask DEF ConnectTask, Opt
  <2>2. /\ s2 \in Session /\ s2.conn = tasks[c][i].session.conn
        /\ s2.missed = tasks[c][i].session.missed
    BY <2>1 DEF Session
  <2>3. tasks' = [tasks EXCEPT ![c][i].session = s2]
    BY <1>2
  <2> HIDE DEF s2
  <2> QED BY <1>2, <2>2, <2>3, TaskTouched
<1> QED BY <1>1, <1>2 DEF Ends

\* The proxy of a session dies; its connection lives on.
LEMMA ProxyDiesKeeps == ASSUME IInv, NEW c \in Clients, ProxyDies(c) PROVE IInv'
<1>1. faults' \in Nat
  BY DEF ProxyDies, Fault, IInv, TypeOK
<1> QED BY <1>1, EndsKeeps DEF ProxyDies

\* The proxy of a connection that was killed dies.
LEMMA ProxyKilledKeeps == ASSUME IInv, NEW c \in Clients, ProxyKilled(c) PROVE IInv'
<1>1. UNCHANGED <<pool, made, killed>> /\ faults' \in Nat
  BY DEF ProxyKilled, IInv, TypeOK
<1>2. Ends(c, "exited")
  BY Zenon DEF ProxyKilled, Ends
<1> QED BY <1>1, <1>2, EndsKeeps

\* The last handle on a client is dropped: its session and its first connection
\* go with it, an attempt to reconnect does not.
LEMMA ReleaseKeeps == ASSUME IInv, NEW c \in Clients, Release(c) PROVE IInv'
<1> DEFINE st == In("Released")
<1>1. /\ client' = [client EXCEPT ![c] = st]
      /\ UNCHANGED <<pool, made, killed, faults>>
  BY DEF Release
<1>2. st \in State /\ Quiet(st) /\ st.session = None /\ st.kind = "Released"
  BY InQuiet DEF StateKinds, Attached, In
<1>3. /\ pool' \in Pool /\ Alive \subseteq InPool(pool') /\ killed \subseteq killed'
      /\ killed' \in SUBSET Nat /\ made' = made /\ faults' \in Nat
      /\ tasks \in [Clients -> Seq(ConnectTask)]
  BY <1>1 DEF IInv, TypeOK, Pooled
<1>4. Fit(st, <<>>) /\ <<>> \in Seq(ConnectTask)
  BY <1>2 DEF Fit
<1>5. Conns(st, <<>>) \subseteq Alive \cup killed \cup {None}
  BY <1>2, QuietConns
<1>6. tasks' = [tasks EXCEPT ![c] = IF tasks[c] # <<>> /\ Head(tasks[c]).attempt = 0
                                    THEN Tail(tasks[c]) ELSE tasks[c]]
  BY DEF Release
<1> HIDE DEF st
<1>7. CASE tasks[c] = <<>>
  BY <1>1, <1>2, <1>3, <1>4, <1>5, <1>6, <1>7, ClientStep
<1>8. CASE tasks[c] # <<>>
  <2>1. PICK t \in ConnectTask : tasks[c] = <<t>> /\ Busy(client[c], t)
    BY <1>8, Zenon DEF IInv, Fit
  <2>2. Head(tasks[c]) = t /\ Tail(tasks[c]) = <<>> /\ 1 \in DOMAIN tasks[c] /\ tasks[c][1] = t
    BY <2>1
  <2>3. CASE t.attempt = 0
    <3>1. tasks' = [tasks EXCEPT ![c] = <<>>]
      BY <1>6, <1>8, <2>2, <2>3
    <3> QED BY <1>1, <1>2, <1>3, <1>4, <1>5, <3>1, ClientStep
  <2>4. CASE t.attempt # 0
    <3>1. tasks' = [tasks EXCEPT ![c] = <<t>>]
      BY <1>6, <2>1, <2>2, <2>4
    <3>2. Busy(st, t)
      BY <1>2, <2>1 DEF Busy, Attached
    <3> QED BY <1>1, <1>2, <1>3, <2>2, <3>1, <3>2, TaskStep
  <2> QED BY <2>3, <2>4
<1> QED BY <1>7, <1>8

\* A connection killed from outside: less is alive.
LEMMA ForceDisconnectKeeps == ASSUME IInv, NEW c \in Clients, ForceDisconnect(c) PROVE IInv'
<1>1. /\ client[c].session # None /\ Fault /\ killed' = killed \cup {client[c].session.conn}
      /\ UNCHANGED <<client, tasks, pool, made>>
  BY DEF ForceDisconnect
<1>2. client[c].session \in Session
  BY <1>1, TheSession
<1>3. TypeOK'
  <2>1. client[c].session.conn \in Nat
    BY <1>2 DEF Session
  <2>2. killed \in SUBSET Nat /\ faults \in Nat
    BY DEF IInv, TypeOK
  <2>3. killed' \in SUBSET Nat
    BY <1>1, <2>1, <2>2
  <2>4. faults' \in Nat
    BY <1>1, <2>2 DEF Fault
  <2> QED BY <1>1, <2>3, <2>4 DEF IInv, TypeOK
<1>4. Alive' \subseteq Alive
  BY <1>1 DEF Alive, Holds
<1>5. Pooled'
  BY <1>1, <1>4 DEF IInv, Pooled
<1> QED BY <1>1, <1>3, <1>5 DEF IInv

-----------------------------------------------------------------------------
(* The theorems *)

\* The first states satisfy the inductive invariant.
LEMMA InitInv == Init => IInv
<1> SUFFICES ASSUME Init PROVE IInv
  OBVIOUS
<1> DEFINE st == In("Connecting")
           t == [attempt |-> 0, phase |-> "open", conn |-> None, session |-> None]
<1>1. st \in State /\ st.session = None /\ st.kind = "Connecting"
  BY DEF In, State, StateKinds, Opt
<1>2. /\ t \in ConnectTask /\ t.attempt = 0 /\ t.phase = "open" /\ t.conn = None
      /\ t.session = None
  BY DEF ConnectTask, Phases, Opt
<1>3. /\ client = [c \in Clients |-> st] /\ tasks = [c \in Clients |-> <<t>>]
      /\ pool = [kind |-> "empty"] /\ made = 0 /\ killed = {} /\ faults = 0
  BY DEF Init
<1> HIDE DEF st, t
<1>4. Busy(st, t)
  BY <1>1, <1>2, ConstantsAssumption DEF Busy, Sound, Attached
<1>5. TypeOK
  BY <1>1, <1>2, <1>3 DEF TypeOK, Pool
<1>6. ASSUME NEW c \in Clients PROVE Fit(client[c], tasks[c])
  BY <1>2, <1>3, <1>4 DEF Fit
<1>7. Pooled
  <2>1. ASSUME NEW x \in Alive
        PROVE  \E c \in Clients : x \in Holds(c) /\ x # None
    BY Zenon DEF Alive
  <2>2. ASSUME NEW c \in Clients, NEW x \in Holds(c) PROVE x = None
    <3>1. x \in Conns(client[c], tasks[c])
      BY <2>2, Zenon DEF Conns, Holds
    <3>2. x \in Conns(st, <<t>>)
      BY <1>3, <3>1
    <3> QED BY <1>2, <1>4, <3>2, BusyConns
  <2> QED BY <2>1, <2>2 DEF Pooled
<1> QED BY <1>5, <1>6, <1>7 DEF IInv

\* Every step keeps the inductive invariant.
LEMMA NextInv == IInv /\ [Next]_vars => IInv'
<1> SUFFICES ASSUME IInv, [Next]_vars PROVE IInv'
  OBVIOUS
<1>1. CASE PoolConnects
  BY <1>1, PoolConnectsKeeps
<1>2. CASE PoolFails
  BY <1>2, PoolFailsKeeps
<1>3. ASSUME NEW c \in Clients, Watchers(c) PROVE IInv'
  BY <1>3, MonitorFiresKeeps, TaskMonitorFiresKeeps, HeartbeatMissesKeeps,
     HeartbeatRecoversKeeps, HeartbeatStopsKeeps DEF Watchers
<1>4. ASSUME NEW c \in Clients, NEW i \in DOMAIN tasks[c], ConnectSteps(c, i) PROVE IInv'
  BY <1>4, KillStartsKeeps, KillFailsKeeps, PoolConnectKeeps, StartProxyKeeps, AnsweredKeeps,
     NewReadyKeeps, NewConnectedKeeps, NewFailsKeeps, ResyncedKeeps, ResyncFailsKeeps,
     AttemptEndsKeeps DEF ConnectSteps
<1>5. ASSUME NEW c \in Clients,
             ProxyDies(c) \/ ProxyKilled(c) \/ ForceDisconnect(c) \/ Release(c)
      PROVE  IInv'
  BY <1>5, ProxyDiesKeeps, ProxyKilledKeeps, ForceDisconnectKeeps, ReleaseKeeps
<1>6. CASE UNCHANGED vars
  <2>1. TypeOK' /\ \A c \in Clients : Fit(client'[c], tasks'[c])
    BY <1>6 DEF vars, IInv, TypeOK
  <2>0. client' = client /\ tasks' = tasks /\ killed' = killed
    BY <1>6 DEF vars
  <2>2. Alive' \subseteq Alive
    BY <2>0 DEF Alive, Holds
  <2>3. Pooled'
    BY <1>6, <2>2 DEF vars, IInv, Pooled
  <2> QED BY <2>1, <2>3 DEF IInv
<1> QED BY <1>1, <1>2, <1>3, <1>4, <1>5, <1>6, Zenon DEF Next, Tasks

\* The inductive invariant holds of every behaviour of the clients and the pool.
THEOREM Invariance == Spec => []IInv
BY InitInv, NextInv, PTL DEF Spec

\* Every variable keeps its type: a task that starts a proxy has a connection, and
\* an attempt that fails has one to replace.
THEOREM TypeCorrect == Spec => []TypeOK
<1>1. IInv => TypeOK
  BY DEF IInv
<1> QED BY <1>1, Invariance, PTL

\* However monitors, heartbeats and ends of attempts of any number of clients
\* interleave, none ever has two connection tasks, and one that says it is
\* reconnecting has an attempt under way, within the attempts allowed.
THEOREM OneAttemptAtATime == Spec => []OneAttempt
<1>1. IInv => OneAttempt
  <2> SUFFICES ASSUME IInv, NEW c \in Clients
               PROVE  /\ Len(tasks[c]) <= 1
                      /\ client[c].kind = "Reconnecting" =>
                            Len(tasks[c]) = 1 /\ tasks[c][1].attempt \in 1..MaxAttempts
    BY DEF OneAttempt
  <2>1. CASE tasks[c] = <<>> /\ Quiet(client[c])
    BY <2>1 DEF Quiet
  <2>2. ASSUME NEW t \in ConnectTask, tasks[c] = <<t>>, Busy(client[c], t)
        PROVE  /\ Len(tasks[c]) <= 1
               /\ client[c].kind = "Reconnecting" =>
                     Len(tasks[c]) = 1 /\ tasks[c][1].attempt \in 1..MaxAttempts
    <3>1. Len(tasks[c]) = 1 /\ tasks[c][1] = t
      BY <2>2
    <3>2. client[c].kind = "Reconnecting" => t.attempt \in 1..MaxAttempts
      BY <2>2, ConstantsAssumption DEF Busy, Sound, ConnectTask
    <3> QED BY <3>1, <3>2
  <2> QED BY <2>1, <2>2 DEF IInv, Fit
<1> QED BY <1>1, Invariance, PTL

\* The clients share one connection, for any number of them: whoever kills it,
\* loses it or asks for another, two are never alive (ConnectionPool::connect).
THEOREM OneConnectionAlive == Spec => []OneConnection
<1>1. IInv => OneConnection
  <2> SUFFICES ASSUME IInv PROVE Cardinality(Alive) <= 1
    BY DEF OneConnection
  <2>1. Alive = {} \/ \E x : Alive = {x}
    BY DEF IInv, Pooled, InPool
  <2>2. CASE Alive = {}
    BY <2>2, FS_EmptySet
  <2>3. CASE \E x : Alive = {x}
    BY <2>3, FS_Singleton
  <2> QED BY <2>1, <2>2, <2>3
<1> QED BY <1>1, Invariance, PTL

\* The state and the heartbeat task of its session count alike, through any
\* number of reconnections, and the count never reaches its limit unnoticed.
THEOREM MissedCountsAgree == Spec => []MissedAgrees
<1>1. IInv => MissedAgrees
  <2> SUFFICES ASSUME IInv, NEW c \in Clients, client[c].session # None
               PROVE  /\ client[c].missed = client[c].session.missed
                      /\ (client[c].kind = "HeartbeatMissed") <=> (client[c].missed > 0)
                      /\ client[c].missed < MaxMissed
    BY DEF MissedAgrees
  <2> QED BY TheSession DEF Quiet, Counted
<1> QED BY <1>1, Invariance, PTL

-----------------------------------------------------------------------------
(* A client that was told Disconnected *)

Final == {"ReconnectExhausted", "ServerNotRunning", "Released"}

\* Whatever a step of another client does, this one's state stays.
LEMMA OthersStay ==
    ASSUME IInv, NEW c \in Clients, NEW d \in Clients, d # c, NEW st,
           client' = [client EXCEPT ![d] = st]
    PROVE  client'[c] = client[c]
BY DEF IInv, TypeOK

\* A step that has to do with one client alone, or with no client's state, and is
\* taken by one that is final.
LEMMA FinalStays ==
    ASSUME IInv, [Next]_vars, NEW c \in Clients, client[c].kind \in Final,
           \A i \in DOMAIN tasks[c] : tasks[c][i].attempt # 0
    PROVE  client'[c].kind \in {client[c].kind, "Released"}
<1>0. client \in [Clients -> State] /\ client[c].session = None
  <2>1. client[c].session # None => client[c].kind \in Attached
    BY TheSession
  <2> QED BY <2>1 DEF IInv, TypeOK, Final, Attached
<1> DEFINE Stays(st) == st.kind \in {client[c].kind, "Released"}
\* It is enough that the step gives the state of the client d alone another
\* value, one that stays if d is c.
<1>1. ASSUME NEW d \in Clients, NEW st, client' = [client EXCEPT ![d] = st], d = c => Stays(st)
      PROVE  client'[c].kind \in {client[c].kind, "Released"}
  <2>1. CASE d = c
    BY <1>0, <1>1, <2>1
  <2>2. CASE d # c
    BY <1>1, <2>2, OthersStay
  <2> QED BY <2>1, <2>2
<1>2. CASE UNCHANGED client
  BY <1>2
<1>3. ASSUME NEW d \in Clients, Watchers(d) PROVE client'[c].kind \in {client[c].kind, "Released"}
  <2>1. CASE client[d].session # None
    <3>1. d # c
      BY <1>0, <2>1
    <3>2. CASE MonitorFires(d)
      BY <1>1, <3>1, <3>2, Zenon DEF MonitorFires, Monitored, Reconnect
    <3>3. CASE HeartbeatMisses(d)
      BY <1>1, <3>1, <3>3, Zenon DEF HeartbeatMisses, Reconnect
    <3>4. CASE HeartbeatRecovers(d)
      BY <1>1, <3>1, <3>4, Zenon DEF HeartbeatRecovers
    <3>5. CASE HeartbeatStops(d)
      BY <1>0, <3>1, <3>5 DEF HeartbeatStops
    <3>6. CASE TaskMonitorFires(d)
      <4>1. tasks[d] = <<>>
        BY <2>1, TheSession
      <4> QED BY <3>6, <4>1 DEF TaskMonitorFires
    <3> QED BY <1>3, <3>2, <3>3, <3>4, <3>5, <3>6 DEF Watchers
  <2>2. CASE client[d].session = None
    <3>1. PICK i \in DOMAIN tasks[d] :
              Monitored(d, tasks[d][i].session, client[d],
                        [tasks[d] EXCEPT ![i].session.monitor = FALSE])
      BY <1>3, <2>2, Zenon DEF Watchers, MonitorFires, HeartbeatMisses, HeartbeatRecovers,
         HeartbeatStops, TaskMonitorFires
    <3>2. Busy(client[d], tasks[d][i])
      BY TheTask
    <3>3. ~CanReconnect(client[d]) /\ client[d].kind # "ReconnectExhausted"
      BY <3>2 DEF Busy, CanReconnect, Attached
    <3>4. \/ UNCHANGED client
          \/ client' = [client EXCEPT ![d] = client[d]]
          \/ client[d].kind # "Released" /\ client' = [client EXCEPT ![d] = In("ServerNotRunning")]
      BY <3>1, <3>3, Zenon DEF Monitored, Reconnect
    <3>5. CASE client' = [client EXCEPT ![d] = client[d]]
      BY <1>1, <3>5
    <3>6. CASE /\ client[d].kind # "Released"
               /\ client' = [client EXCEPT ![d] = In("ServerNotRunning")]
      <4>1. d = c => client[c].kind = "ServerNotRunning"
        BY <3>3, <3>6 DEF Final
      <4>2. In("ServerNotRunning").kind = "ServerNotRunning"
        BY DEF In
      <4> QED BY <1>1, <3>6, <4>1, <4>2
    <3> QED BY <1>2, <3>4, <3>5, <3>6
  <2> QED BY <2>1, <2>2
<1>4. ASSUME NEW d \in Clients, NEW i \in DOMAIN tasks[d], ConnectSteps(d, i)
      PROVE  client'[c].kind \in {client[c].kind, "Released"}
  <2>1. CASE NewConnected(d, i)
    <3>1. d # c
      BY <2>1 DEF NewConnected
    <3> QED BY <1>1, <2>1, <3>1, Zenon DEF NewConnected
  <2>2. CASE NewFails(d, i)
    <3>1. d # c
      BY <2>2 DEF NewFails
    <3> QED BY <1>1, <2>2, <3>1, Zenon DEF NewFails
  <2>3. CASE AttemptEnds(d, i)
    <3>1. CASE client[d].kind = "Reconnecting"
      <4>1. d # c
        BY <3>1 DEF Final
      <4> QED BY <1>1, <2>3, <4>1, Zenon DEF AttemptEnds
    <3>2. CASE client[d].kind # "Reconnecting"
      <4>1. client' = [client EXCEPT ![d] = client[d]]
        BY <2>3, <3>2, Zenon DEF AttemptEnds
      <4> QED BY <1>1, <4>1
    <3> QED BY <3>1, <3>2
  <2>4. CASE UNCHANGED client
    BY <2>4
  <2> QED BY <1>4, <2>1, <2>2, <2>3, <2>4, Zenon DEF ConnectSteps, KillStarts, KillFails,
             PoolConnect, StartProxy, Answered, NewReady, Resynced, ResyncFails
<1>5. ASSUME NEW d \in Clients, Release(d) PROVE client'[c].kind \in {client[c].kind, "Released"}
  <2>1. client' = [client EXCEPT ![d] = In("Released")] /\ In("Released").kind = "Released"
    BY <1>5 DEF Release, In
  <2> QED BY <1>1, <2>1
<1>6. ASSUME NEW d \in Clients, NEW how, Ends(d, how)
      PROVE  client'[c].kind \in {client[c].kind, "Released"}
  <2>1. CASE UNCHANGED client
    BY <2>1
  <2>2. CASE client[d].session # None /\ client' = [client EXCEPT ![d].session.io = how]
    BY <1>0, <2>2
  <2> QED BY <1>6, <2>1, <2>2, Zenon DEF Ends
<1>7. ASSUME NEW d \in Clients, ProxyDies(d) \/ ProxyKilled(d)
      PROVE  client'[c].kind \in {client[c].kind, "Released"}
  <2>1. \E how : Ends(d, how)
    BY <1>7, Zenon DEF ProxyDies, ProxyKilled, Ends
  <2> QED BY <1>6, <2>1
<1>8. CASE PoolConnects \/ PoolFails \/ (\E d \in Clients : ForceDisconnect(d)) \/ UNCHANGED vars
  <2>1. UNCHANGED client
    BY <1>8, Zenon DEF PoolConnects, PoolFails, ForceDisconnect, vars
  <2> QED BY <2>1
<1> QED BY <1>3, <1>4, <1>5, <1>7, <1>8, Zenon DEF Next, Tasks

\* A client that was connected once and is told Disconnected is never brought
\* back, whatever attempts, monitors and heartbeats are late.
THEOREM DisconnectedStays == Spec => DisconnectedIsFinal
<1>1. IInv /\ [Next]_vars =>
          [\A c \in Clients :
              /\ client[c].kind \in {"ReconnectExhausted", "ServerNotRunning", "Released"}
              /\ \A i \in DOMAIN tasks[c] : tasks[c][i].attempt # 0
              => client'[c].kind \in {client[c].kind, "Released"}]_vars
  BY FinalStays DEF Final
<1> QED BY <1>1, Invariance, PTL DEF Spec, DisconnectedIsFinal
=============================================================================
