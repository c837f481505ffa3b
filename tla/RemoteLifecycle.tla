--------------------------- MODULE RemoteLifecycle ---------------------------
(***************************************************************************)
(* The lifecycle of the editor's remote clients                            *)
(* (RemoteClient and ConnectionPool, crates/remote/src/remote_client.rs).  *)
(*                                                                         *)
(* Each window that works on the remote machine has a client; the clients  *)
(* share a connection through the pool.  On a connection a client runs a   *)
(* proxy process: its session, with a monitor task that waits for the      *)
(* proxy to end and a heartbeat task that pings the server.  Both ask for  *)
(* a reconnection, whose task kills the connection, gets another from the  *)
(* pool, starts a proxy and resyncs.                                       *)
(*                                                                         *)
(* An update of the client is one step; an await ends a step.              *)
(***************************************************************************)
EXTENDS Naturals, Sequences, FiniteSets

CONSTANTS
    Clients,
    None,          \* Option::None
    MaxAttempts,   \* MAX_RECONNECT_ATTEMPTS
    MaxMissed,     \* MAX_MISSED_HEARTBEATS
    MaxFaults      \* how often something outside fails, at most

VARIABLES
    client,  \* client -> its State
    tasks,   \* client -> the connection tasks under way: new's, reconnect's
    pool,    \* the entry of the ConnectionPool
    made,    \* connections made so far: their names are 1..made
    killed,  \* those that were killed
    faults   \* failures so far

vars == <<client, tasks, pool, made, killed, faults>>

-----------------------------------------------------------------------------
(* Data *)

Opt(S) == S \cup {None}

\* A proxy process and the tasks that watch it: "io" is how its io_task stands,
\* "answered" whether the answer to the request sent last is in the queue of
\* messages to handle, "monitor" and "heartbeat" whether those tasks run, and
\* "missed" the heartbeat task's own count.
Session == [conn : Nat, io : {"running", "exited", "no_server"}, answered : BOOLEAN,
            monitor : BOOLEAN, heartbeat : BOOLEAN, missed : Nat]

\* State.  "Released" stands for no client any more: shut down, or never connected.
\* ReconnectFailed is taken over and left in one update, so that it shows only
\* as the phase "failed" of a task.
StateKinds == {"Connecting", "Connected", "HeartbeatMissed", "Reconnecting",
               "ReconnectExhausted", "ServerNotRunning", "Released"}
State == [kind : StateKinds, session : Opt(Session), missed : Nat]

\* The task of a first connection (attempt 0) or of a reconnection: "conn" is the
\* connection it is to replace, then the one it got.
\* Of its phases, "started" waits for RemoteStarted and "asked" for the answer
\* to new's ping or to reconnect's resync.
Phases == {"open", "kill", "killing", "pool", "got", "started", "asked", "done", "failed"}
ConnectTask == [attempt : Nat, phase : Phases, conn : Opt(Nat), session : Opt(Session)]

Pool == [kind : {"empty", "connecting"}] \cup [kind : {"connected"}, conn : Nat]

ASSUME ConstantsAssumption ==
    /\ None \notin Nat \cup Session
    /\ MaxAttempts \in Nat \ {0} /\ MaxMissed \in Nat \ {0} /\ MaxFaults \in Nat

RemoveAt(s, i) == SubSeq(s, 1, i - 1) \o SubSeq(s, i + 1, Len(s))

-----------------------------------------------------------------------------
(* Reading the state *)

In(kind) == [kind |-> kind, session |-> None, missed |-> 0]

CanReconnect(st) == st.kind \in {"Connected", "HeartbeatMissed"}

\* The connections something holds a reference to.
Holds(c) ==
    {client[c].session.conn : x \in {client[c].session} \ {None}}
    \cup {tasks[c][i].conn : i \in DOMAIN tasks[c]}
    \cup {tasks[c][i].session.conn : i \in {j \in DOMAIN tasks[c] : tasks[c][j].session # None}}
Alive == (UNION {Holds(c) : c \in Clients}) \ (killed \cup {None})

Fault == faults < MaxFaults /\ faults' = faults + 1

-----------------------------------------------------------------------------
(* RemoteClient::reconnect *)

\* The task of the attempt n, to replace the connection conn.
Attempt(n, conn) == [attempt |-> n, phase |-> "kill", conn |-> conn, session |-> None]

\* A state that allows it gives way to Reconnecting, its session is dropped, and
\* the first attempt starts.
Reconnect(c, st, others) ==
    IF CanReconnect(st)
    THEN /\ client' = [client EXCEPT ![c] = In("Reconnecting")]
         /\ tasks' = [tasks EXCEPT ![c] = Append(others, Attempt(1, st.session.conn))]
    ELSE /\ client' = [client EXCEPT ![c] = st]
         /\ tasks' = [tasks EXCEPT ![c] = others]

-----------------------------------------------------------------------------
(* The watchers of a session *)

\* The monitor of a session sees its proxy end; "rest" are the client's tasks
\* with that session's monitor ended.
Monitored(c, session, st, rest) ==
    IF st.kind = "Released" THEN tasks' = [tasks EXCEPT ![c] = rest] /\ UNCHANGED client
    ELSE IF session.io = "no_server"
    THEN /\ client' = [client EXCEPT ![c] = In("ServerNotRunning")]
         /\ tasks' = [tasks EXCEPT ![c] = rest]
    ELSE Reconnect(c, st, rest)

\* ... of the session the state holds,
MonitorFires(c) ==
    /\ client[c].session # None
    /\ client[c].session.monitor /\ client[c].session.io # "running"
    /\ Monitored(c, client[c].session, [client[c] EXCEPT !.session.monitor = FALSE], tasks[c])
    /\ UNCHANGED <<pool, made, killed, faults>>

\* ... or of the session of a task that is not done.
TaskMonitorFires(c) ==
    /\ \E i \in DOMAIN tasks[c] :
          /\ tasks[c][i].session # None
          /\ tasks[c][i].session.monitor /\ tasks[c][i].session.io # "running"
          /\ Monitored(c, tasks[c][i].session, client[c],
                       [tasks[c] EXCEPT ![i].session.monitor = FALSE])
    /\ UNCHANGED <<pool, made, killed, faults>>

\* handle_heartbeat_result after a ping that was not answered in time.
HeartbeatMisses(c) ==
    LET missed == client[c].session.missed + 1
        st == [client[c] EXCEPT !.kind = "HeartbeatMissed", !.missed = @ + 1,
                                !.session.missed = missed,
                                !.session.heartbeat = missed < MaxMissed]
    IN  /\ client[c].session # None /\ client[c].session.heartbeat
        /\ client[c].session.io = "running"
        /\ Fault
        /\ IF missed >= MaxMissed THEN Reconnect(c, st, tasks[c])
           ELSE client' = [client EXCEPT ![c] = st] /\ UNCHANGED tasks
        /\ UNCHANGED <<pool, made, killed>>

\* A variant of HeartbeatRecovers: only the task's own count is reset.
HeartbeatRecoversUntold(c) ==
    /\ client[c].session # None /\ client[c].session.heartbeat /\ client[c].session.missed # 0
    /\ client' = [client EXCEPT ![c].session.missed = 0]
    /\ UNCHANGED <<tasks, pool, made, killed, faults>>

\* ... after a message, an answer, or the end of the proxy, which a ping under
\* way takes for a message.
HeartbeatRecovers(c) ==
    /\ client[c].session # None /\ client[c].session.heartbeat /\ client[c].session.missed # 0
    /\ client' = [client EXCEPT ![c] = [@ EXCEPT !.kind = "Connected", !.missed = 0,
                                                 !.session.missed = 0]]
    /\ UNCHANGED <<tasks, pool, made, killed, faults>>

\* The proxy is gone: the heartbeat task leaves the rest to the monitor.
HeartbeatStops(c) ==
    /\ client[c].session # None /\ client[c].session.heartbeat
    /\ client[c].session.io # "running"
    /\ client' = [client EXCEPT ![c].session.heartbeat = FALSE]
    /\ UNCHANGED <<tasks, pool, made, killed, faults>>

-----------------------------------------------------------------------------
(* ConnectionPool::connect *)

\* The task i of the client c goes to another phase.
Goes(c, i, t) == tasks' = [tasks EXCEPT ![c][i] = t]

\* A variant of PoolConnect: the connection of the pool is not looked at.
PoolConnectAnew(c, i) ==
    /\ tasks[c][i].phase \in {"open", "killing"}
    /\ Goes(c, i, [tasks[c][i] EXCEPT !.phase = "pool"])
    /\ pool' = [kind |-> "connecting"]
    /\ UNCHANGED <<client, made, killed, faults>>

\* The pool's connection, if it is alive; else a connection is made, or being
\* made for another task.
PoolConnect(c, i) ==
    LET t == tasks[c][i]
    IN  /\ t.phase \in {"open", "killing"}
        /\ IF pool.kind = "connected" /\ (pool.kind = "connected" => pool.conn \in Alive)
           THEN Goes(c, i, [t EXCEPT !.phase = "got", !.conn = pool.conn]) /\ UNCHANGED pool
           ELSE Goes(c, i, [t EXCEPT !.phase = "pool"]) /\ pool' = [kind |-> "connecting"]
        /\ UNCHANGED <<client, made, killed, faults>>

\* A variant of PoolAnswers: a failure leaves no connection to try again with.
PoolAnswersForgets(phase, conn) ==
    tasks' = [c \in Clients |-> [i \in DOMAIN tasks[c] |->
                LET t == tasks[c][i]
                IN  IF t.phase # "pool" THEN t ELSE [t EXCEPT !.phase = phase, !.conn = conn]]]

\* The tasks that wait for a connection all get this one, or all fail.
PoolAnswers(phase, conn) ==
    tasks' = [c \in Clients |-> [i \in DOMAIN tasks[c] |->
                LET t == tasks[c][i]
                IN  IF t.phase # "pool" THEN t
                    ELSE [t EXCEPT !.phase = phase, !.conn = IF conn = None THEN @ ELSE conn]]]

\* A connection is being made: the tasks that wait for it keep it going.
Making ==
    /\ pool.kind = "connecting"
    /\ \E c \in Clients : \E i \in DOMAIN tasks[c] : tasks[c][i].phase = "pool"

PoolConnects ==
    /\ Making
    /\ made' = made + 1
    /\ pool' = [kind |-> "connected", conn |-> made + 1]
    /\ PoolAnswers("got", made + 1)
    /\ UNCHANGED <<client, killed, faults>>

PoolFails ==
    /\ Making
    /\ Fault
    /\ pool' = [kind |-> "empty"]
    /\ PoolAnswers("failed", None)
    /\ UNCHANGED <<client, made, killed>>

-----------------------------------------------------------------------------
(* The connection tasks: RemoteClient::new and reconnect's *)

\* The connection to replace is killed; one that another client or an earlier
\* attempt killed has no process to wait for.
KillStarts(c, i) ==
    LET t == tasks[c][i]
    IN  /\ t.phase = "kill"
        /\ killed' = killed \cup {t.conn}
        /\ Goes(c, i, [t EXCEPT !.phase = IF t.conn \in killed THEN "open" ELSE "killing"])
        /\ UNCHANGED <<client, pool, made, faults>>

KillFails(c, i) ==
    /\ tasks[c][i].phase = "killing"
    /\ Fault
    /\ Goes(c, i, [tasks[c][i] EXCEPT !.phase = "failed"])
    /\ UNCHANGED <<client, pool, made, killed>>

\* start_proxy: a first connection is monitored only once the server started.
StartProxy(c, i) ==
    LET t == tasks[c][i]
        session == [conn |-> t.conn, io |-> "running", answered |-> FALSE,
                    monitor |-> t.attempt # 0, heartbeat |-> FALSE, missed |-> 0]
    IN  /\ t.phase = "got"
        /\ Goes(c, i, [t EXCEPT !.session = session,
                                !.phase = IF t.attempt = 0 THEN "started" ELSE "asked"])
        /\ UNCHANGED <<client, pool, made, killed, faults>>

\* The server answers, and the answer waits to be handled.
Answered(c, i) ==
    /\ tasks[c][i].phase \in {"started", "asked"}
    /\ tasks[c][i].session.io = "running" /\ ~tasks[c][i].session.answered
    /\ tasks' = [tasks EXCEPT ![c][i].session.answered = TRUE]
    /\ UNCHANGED <<client, pool, made, killed, faults>>

\* new: the server started, and is pinged.
NewReady(c, i) ==
    LET t == tasks[c][i]
    IN  /\ t.phase = "started" /\ t.session.answered
        /\ Goes(c, i, [t EXCEPT !.phase = "asked", !.session.answered = FALSE,
                                !.session.monitor = TRUE])
        /\ UNCHANGED <<client, pool, made, killed, faults>>

\* new: the ping is answered, and the client connected.
NewConnected(c, i) ==
    LET t == tasks[c][i]
    IN  /\ t.attempt = 0 /\ t.phase = "asked" /\ t.session.answered
        /\ client' = [client EXCEPT ![c] =
                        [kind |-> "Connected", missed |-> 0,
                         session |-> [t.session EXCEPT !.heartbeat = TRUE]]]
        /\ tasks' = [tasks EXCEPT ![c] = RemoveAt(@, i)]
        /\ UNCHANGED <<pool, made, killed, faults>>

\* A variant of TimesOut: no timer runs beside the request.
TimesOutNever(t) ==
    /\ t.phase \in {"started", "asked"} /\ ~t.session.answered /\ t.session.io = "running"
    /\ Fault

\* No answer came in time: the proxy is gone, or something failed outside.
TimesOut(t) ==
    /\ t.phase \in {"started", "asked"} /\ ~t.session.answered
    /\ IF t.session.io = "running" THEN Fault ELSE UNCHANGED faults

\* new fails: there is no client.
NewFails(c, i) ==
    /\ tasks[c][i].attempt = 0
    /\ \/ TimesOut(tasks[c][i])
       \/ tasks[c][i].phase = "failed" /\ UNCHANGED faults
    /\ client' = [client EXCEPT ![c] = In("Released")]
    /\ tasks' = [tasks EXCEPT ![c] = RemoveAt(@, i)]
    /\ UNCHANGED <<pool, made, killed>>

\* reconnect: resync is answered, and the heartbeat starts.
Resynced(c, i) ==
    LET t == tasks[c][i]
    IN  /\ t.attempt # 0 /\ t.phase = "asked" /\ t.session.answered
        /\ Goes(c, i, [t EXCEPT !.phase = "done", !.session.heartbeat = TRUE])
        /\ UNCHANGED <<client, pool, made, killed, faults>>

ResyncFails(c, i) ==
    LET t == tasks[c][i]
    IN  /\ t.attempt # 0
        /\ TimesOut(t)
        /\ Goes(c, i, [t EXCEPT !.phase = "failed", !.session = None])
        /\ UNCHANGED <<client, pool, made, killed>>

\* A variant of AttemptEnds: the attempts are counted from zero.
AttemptEndsOneMore(c, i) ==
    LET t == tasks[c][i]
        rest == RemoveAt(tasks[c], i)
        takes(st, left) == /\ client' = [client EXCEPT ![c] = st]
                           /\ tasks' = [tasks EXCEPT ![c] = left]
    IN  /\ t.attempt # 0 /\ t.phase \in {"done", "failed"}
        /\ IF client[c].kind # "Reconnecting" THEN takes(client[c], rest)
           ELSE IF t.phase = "done"
           THEN takes([kind |-> "Connected", session |-> t.session, missed |-> 0], rest)
           ELSE IF t.attempt > MaxAttempts THEN takes(In("ReconnectExhausted"), rest)
           ELSE takes(In("Reconnecting"), Append(rest, Attempt(t.attempt + 1, t.conn)))
        /\ UNCHANGED <<pool, made, killed, faults>>

\* A variant of AttemptEnds: the state is not looked at again.
AttemptEndsLate(c, i) ==
    LET t == tasks[c][i]
        rest == RemoveAt(tasks[c], i)
        takes(st, left) == /\ client' = [client EXCEPT ![c] = st]
                           /\ tasks' = [tasks EXCEPT ![c] = left]
    IN  /\ t.attempt # 0 /\ t.phase \in {"done", "failed"}
        /\ IF t.phase = "done"
           THEN takes([kind |-> "Connected", session |-> t.session, missed |-> 0], rest)
           ELSE IF t.attempt + 1 > MaxAttempts THEN takes(In("ReconnectExhausted"), rest)
           ELSE takes(In("Reconnecting"), Append(rest, Attempt(t.attempt + 1, t.conn)))
        /\ UNCHANGED <<pool, made, killed, faults>>

\* The outcome of an attempt is taken over by a client that still waits for it;
\* after one that failed the next starts, while attempts are left.
AttemptEnds(c, i) ==
    LET t == tasks[c][i]
        rest == RemoveAt(tasks[c], i)
        takes(st, left) == /\ client' = [client EXCEPT ![c] = st]
                           /\ tasks' = [tasks EXCEPT ![c] = left]
    IN  /\ t.attempt # 0 /\ t.phase \in {"done", "failed"}
        /\ IF client[c].kind # "Reconnecting" THEN takes(client[c], rest)
           ELSE IF t.phase = "done"
           THEN takes([kind |-> "Connected", session |-> t.session, missed |-> 0], rest)
           ELSE IF t.attempt + 1 > MaxAttempts THEN takes(In("ReconnectExhausted"), rest)
           ELSE takes(In("Reconnecting"), Append(rest, Attempt(t.attempt + 1, t.conn)))
        /\ UNCHANGED <<pool, made, killed, faults>>

-----------------------------------------------------------------------------
(* Outside *)

\* A proxy ends, which may be because the server is not running.
Ends(c, how) ==
    \/ /\ client[c].session # None /\ client[c].session.io = "running"
       /\ client' = [client EXCEPT ![c].session.io = how]
       /\ UNCHANGED tasks
    \/ \E i \in DOMAIN tasks[c] :
          /\ tasks[c][i].session # None /\ tasks[c][i].session.io = "running"
          /\ tasks' = [tasks EXCEPT ![c][i].session.io = how]
          /\ UNCHANGED client

ProxyDies(c) ==
    /\ Fault
    /\ \E how \in {"exited", "no_server"} : Ends(c, how)
    /\ UNCHANGED <<pool, made, killed>>

\* The master process may take its proxies with it, or outlive the kill (a
\* ControlMaster of the user's own).
ProxyKilled(c) ==
    /\ \/ client[c].session # None /\ client[c].session.io = "running"
          /\ client[c].session.conn \in killed
          /\ client' = [client EXCEPT ![c].session.io = "exited"]
          /\ UNCHANGED tasks
       \/ \E i \in DOMAIN tasks[c] :
             /\ tasks[c][i].session # None /\ tasks[c][i].session.io = "running"
             /\ tasks[c][i].session.conn \in killed
             /\ tasks' = [tasks EXCEPT ![c][i].session.io = "exited"]
             /\ UNCHANGED client
    /\ UNCHANGED <<pool, made, killed, faults>>

\* The project is closed (shutdown_processes) or its first connection cancelled:
\* new's task, the first of the client's, is dropped, a reconnection's is not.
Release(c) ==
    /\ client[c].kind # "Released"
    /\ client' = [client EXCEPT ![c] = In("Released")]
    /\ tasks' = [tasks EXCEPT ![c] = IF @ # <<>> /\ Head(@).attempt = 0 THEN Tail(@) ELSE @]
    /\ UNCHANGED <<pool, made, killed, faults>>

\* force_disconnect.
ForceDisconnect(c) ==
    /\ client[c].session # None
    /\ Fault
    /\ killed' = killed \cup {client[c].session.conn}
    /\ UNCHANGED <<client, tasks, pool, made>>

-----------------------------------------------------------------------------
\* Every client is about to be connected.
Init ==
    /\ client = [c \in Clients |-> In("Connecting")]
    /\ tasks = [c \in Clients |-> << [attempt |-> 0, phase |-> "open", conn |-> None,
                                      session |-> None] >>]
    /\ pool = [kind |-> "empty"]
    /\ made = 0 /\ killed = {} /\ faults = 0

Watchers(c) ==
    \/ MonitorFires(c) \/ TaskMonitorFires(c)
    \/ HeartbeatMisses(c) \/ HeartbeatRecovers(c) \/ HeartbeatStops(c)

ConnectSteps(c, i) ==
    \/ KillStarts(c, i) \/ KillFails(c, i) \/ PoolConnect(c, i) \/ StartProxy(c, i)
    \/ Answered(c, i) \/ NewReady(c, i) \/ NewConnected(c, i) \/ NewFails(c, i)
    \/ Resynced(c, i) \/ ResyncFails(c, i) \/ AttemptEnds(c, i)

Tasks ==
    \/ PoolConnects \/ PoolFails
    \/ \E c \in Clients : Watchers(c) \/ \E i \in DOMAIN tasks[c] : ConnectSteps(c, i)

Next == Tasks \/ \E c \in Clients : 
    ProxyDies(c) \/ ProxyKilled(c) \/ ForceDisconnect(c) \/ Release(c)

Spec == Init /\ [][Next]_vars

\* While a task can take a step, one does: the executors run what is ready, and
\* a server that runs answers or the timeout fires.  Nothing is obliged to fail.
FairSpec == Spec /\ WF_vars(Tasks /\ UNCHANGED faults)

-----------------------------------------------------------------------------
(* Properties *)

\* Every variable has its type.
TypeOK ==
    /\ client \in [Clients -> State]
    /\ tasks \in [Clients -> Seq(ConnectTask)]
    /\ pool \in Pool
    /\ made \in Nat /\ killed \in SUBSET Nat /\ faults \in Nat

\* A client never connects twice at once, and one that says it is reconnecting
\* has an attempt under way, within the attempts allowed, that will end it: not
\* the monitor, the heartbeat and the end of an attempt together start a second
\* one, or leave none (reconnect's guard, try_set_state).
OneAttempt ==
    \A c \in Clients :
        /\ Len(tasks[c]) <= 1
        /\ client[c].kind = "Reconnecting" =>
              /\ Len(tasks[c]) = 1
              /\ tasks[c][1].attempt \in 1..MaxAttempts

\* The clients share one connection: never are two alive at once, although
\* clients lose, kill and ask for them in any order (ConnectionPool::connect).
OneConnection == Cardinality(Alive) <= 1

\* The state says a heartbeat was missed exactly while the heartbeat task of its
\* session counts one (handle_heartbeat_result, over reconnections).
MissedAgrees ==
    \A c \in Clients :
        client[c].session # None =>
            /\ client[c].missed = client[c].session.missed
            /\ (client[c].kind = "HeartbeatMissed") <=> (client[c].missed > 0)
            /\ client[c].missed < MaxMissed

\* A client that was connected once and is told Disconnected stays so: no attempt, monitor or
\* heartbeat that is late brings it back (try_set_state, can_reconnect).
DisconnectedIsFinal ==
    [][\A c \in Clients :
          /\ client[c].kind \in {"ReconnectExhausted", "ServerNotRunning", "Released"}
          /\ \A i \in DOMAIN tasks[c] : tasks[c][i].attempt # 0
          => client'[c].kind \in {client[c].kind, "Released"}]_vars

\* A client does not hold on to a proxy that ended: "remote io task died with
\* error ... reconnecting..." (monitor).
EndNoticed ==
    \A c \in Clients :
        []<>(client[c].session # None => client[c].session.io = "running")

\* Every connection task ends: whatever fails, no client says it is connecting
\* or reconnecting for ever.
Settles == <>[](\A c \in Clients :
                    tasks[c] = <<>> /\ client[c].kind \notin {"Connecting", "Reconnecting"})
=============================================================================
