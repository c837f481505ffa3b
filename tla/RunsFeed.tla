------------------------------- MODULE RunsFeed -------------------------------
(***************************************************************************)
(* The Remote tab of the EL runs panel (crates/dbt_ui/src/el/              *)
(* runs_panel.rs): what it shows of the daemon selected, its table of      *)
(* runs, its log and the events of the run opened, and the three tasks     *)
(* that fill them: the feed of the live socket, the poll of a daemon that  *)
(* has none, and the fetch of a run's history.  Each holds what it read    *)
(* while the operator goes on clicking.                                    *)
(*                                                                         *)
(* The daemon and its client (el_engine) are external: a daemon has one    *)
(* run, with the same id on each, its events in order and a log.  A        *)
(* session of the socket opens with a snapshot and overlaps it; it ends    *)
(* when the daemon retires it, and the client opens another.               *)
(***************************************************************************)
EXTENDS Naturals, Sequences

CONSTANTS
    None,         \* Option::None
    Sites,        \* the settings to look at, see SitesAssumption
    LogCap        \* REMOTE_LOG_CAP, and the lines in a snapshot

VARIABLES
    site,      \* the remotes of remotes.yml, the machine, and the bounds
    daemon,    \* remote -> its run and its log
    panel,     \* ElRunsPanel
    feed,      \* the feed task, its watch thread and what is on the way to it
    poll,      \* the poll task
    history,   \* the task that fetches the opened run's events
    bounds     \* clicks, renewals and faults so far

vars == <<site, daemon, panel, feed, poll, history, bounds>>

-----------------------------------------------------------------------------
(* Data *)

Opt(S) == S \cup {None}

\* "remotes" says of each remote whether its daemon has the socket, "threads"
\* whether the machine has a thread to spare; "max" bounds the events of a run,
\* the lines of a log, what the operator does, the sessions that end, and the
\* connections and requests that fail and events that are lost.
ASSUME SitesAssumption ==
    \A s \in Sites :
        /\ s.remotes \in [DOMAIN s.remotes -> {"socket", "none"}]
        /\ s.threads \in BOOLEAN
        /\ s.max \in [events : Nat, lines : Nat, clicks : Nat, renewals : Nat, faults : Nat]
ASSUME LogCapAssumption == LogCap \in Nat \ {0}

Remotes == DOMAIN site.remotes

\* An event or a log line is known by its remote and its number there.
Item == [of : Remotes, n : Nat]
Items(rm, from, to) == [i \in 1..(to - from) |-> [of |-> rm, n |-> from + i - 1]]
LastOf(seq, n) == IF Len(seq) <= n THEN seq ELSE SubSeq(seq, Len(seq) - n + 1, Len(seq))

Daemon == [events : Nat, ended : BOOLEAN, lines : Nat]

\* "runs" is the row of the run in the table, None while the table is empty;
\* "events" and "history_for" are remote_run_events and remote_history_for.
Panel == [surface : {"remote", "other"}, selected : Remotes, epoch : Nat,
          status : {"none", "live", "not_live"}, runs : Opt([of : Remotes, ended : BOOLEAN]),
          opened : BOOLEAN, events : Opt(Seq(Item)), history_for : BOOLEAN,
          logs : Seq(Item), log_next : Nat]

\* What a poll brings back; None, that its requests failed.
Page(remotes) ==
    LET line == [of : remotes, n : Nat]
    IN  [ended : BOOLEAN, lines : Seq(line), events : Opt(Seq(line))]
ASSUME NoneAssumption == \A s \in Sites : None \notin Page(DOMAIN s.remotes)

NoFeed == [phase |-> "none"]
NoPoll == [phase |-> "none"]
NoHistory == [phase |-> "none"]

-----------------------------------------------------------------------------
(* The daemon *)

\* What the snapshot of a session says; the events only of a run in flight
\* that has some.
Snapshot(rm) ==
    LET d == daemon[rm]
    IN  [kind |-> "snapshot", ended |-> d.ended,
         events |-> IF d.ended \/ d.events = 0 THEN None ELSE Items(rm, 0, d.events),
         logs |-> LastOf(Items(rm, 0, d.lines), LogCap), log_next |-> d.lines]

\* A message to the session open on rm, if there is one: before the snapshot
\* was sent it waits behind it.
Pushed(rm, message) ==
    IF feed.phase = "subscribed" /\ feed.remote = rm
    THEN [feed EXCEPT !.pending = Append(@, message)]
    ELSE IF feed.phase = "attached" /\ feed.remote = rm
    THEN [feed EXCEPT !.queue = Append(@, message)]
    ELSE feed

Fault == bounds.faults < site.max.faults /\ bounds' = [bounds EXCEPT !.faults = @ + 1]

DaemonEvent(rm) ==
    /\ ~daemon[rm].ended /\ daemon[rm].events < site.max.events
    /\ daemon' = [daemon EXCEPT ![rm].events = @ + 1]
    /\ \/ /\ feed' = Pushed(rm, [kind |-> "event", index |-> daemon[rm].events])
          /\ UNCHANGED bounds
       \/ /\ feed.phase \in {"subscribed", "attached"} /\ feed.remote = rm
          /\ Fault /\ UNCHANGED feed
    /\ UNCHANGED <<site, panel, poll, history>>

DaemonEnds(rm) ==
    /\ ~daemon[rm].ended
    /\ daemon' = [daemon EXCEPT ![rm].ended = TRUE]
    /\ feed' = Pushed(rm, [kind |-> "run", ended |-> TRUE])
    /\ UNCHANGED <<site, panel, poll, history, bounds>>

DaemonLogs(rm) ==
    /\ daemon[rm].lines < site.max.lines
    /\ daemon' = [daemon EXCEPT ![rm].lines = @ + 1]
    /\ feed' = Pushed(rm, [kind |-> "log", seq |-> daemon[rm].lines])
    /\ UNCHANGED <<site, panel, poll, history, bounds>>

-----------------------------------------------------------------------------
(* watch_remote: the thread of the socket, and its channel to the feed *)

Subscribe ==
    /\ feed.phase = "connecting" /\ site.remotes[feed.remote] = "socket"
    /\ feed' = [feed EXCEPT !.phase = "subscribed"]
    /\ UNCHANGED <<site, daemon, panel, poll, history, bounds>>

Attach ==
    /\ feed.phase = "subscribed"
    /\ feed' = [feed EXCEPT !.phase = "attached", !.pending = <<>>,
                            !.queue = @ \o << [kind |-> "attached"], Snapshot(feed.remote) >>
                                        \o feed.pending]
    /\ UNCHANGED <<site, daemon, panel, poll, history, bounds>>

\* WatchRefused::Unsupported
Refuse ==
    /\ feed.phase = "connecting" /\ site.remotes[feed.remote] = "none"
    /\ feed' = [feed EXCEPT !.phase = "over", !.queue = Append(@, [kind |-> "unsupported"])]
    /\ UNCHANGED <<site, daemon, panel, poll, history, bounds>>

\* WatchRefused::Failed, after which the thread waits and tries again.
FailToConnect ==
    /\ feed.phase = "connecting" /\ site.remotes[feed.remote] = "socket"
    /\ Fault
    /\ feed' = [feed EXCEPT !.queue = Append(@, [kind |-> "unreachable"])]
    /\ UNCHANGED <<site, daemon, panel, poll, history>>

\* A variant of EndSession: the thread ends with its session.
EndSessionForGood ==
    /\ feed.phase = "attached"
    /\ bounds.renewals < site.max.renewals
    /\ bounds' = [bounds EXCEPT !.renewals = @ + 1]
    /\ feed' = [feed EXCEPT !.phase = "over"]
    /\ UNCHANGED <<site, daemon, panel, poll, history>>

\* The session ends, retired by the daemon or lost; what the thread did not
\* read yet is lost.
EndSession ==
    /\ feed.phase = "attached"
    /\ bounds.renewals < site.max.renewals
    /\ bounds' = [bounds EXCEPT !.renewals = @ + 1]
    /\ \E n \in 0..Len(feed.queue) :
          feed' = [feed EXCEPT !.phase = "connecting", !.queue = SubSeq(@, 1, n)]
    /\ UNCHANGED <<site, daemon, panel, poll, history>>

-----------------------------------------------------------------------------
(* Starting *)

Restarted(p) == [p EXCEPT !.epoch = @ + 1, !.status = "none", !.logs = <<>>, !.log_next = 0]

\* start_remote_poll
StartPoll(p) ==
    /\ panel' = Restarted(p)
    /\ poll' = [phase |-> "idle", epoch |-> p.epoch + 1, remote |-> p.selected,
                log_cursor |-> 0, watched |-> None, page |-> None]

\* start_remote_feed: the feed before it is dropped, a poll is not.
StartFeed(p) ==
    IF site.threads
    THEN /\ panel' = Restarted(p)
         /\ feed' = [phase |-> "connecting", epoch |-> p.epoch + 1, remote |-> p.selected,
                     pending |-> <<>>, queue |-> <<>>]
         /\ UNCHANGED poll
    ELSE StartPoll(Restarted(p)) /\ UNCHANGED feed

\* ensure_run_events: a fetch begun replaces the one before.
WantsHistory(p) == p.events = None /\ ~p.history_for
EnsureRunEvents(p) ==
    IF WantsHistory(p)
    THEN /\ panel' = [p EXCEPT !.history_for = TRUE]
         /\ history' = [phase |-> "asked", remote |-> p.selected, page |-> None]
    ELSE panel' = p /\ UNCHANGED history

-----------------------------------------------------------------------------
(* The feed *)

\* A variant of PlaceEvent: an event beyond the end is kept.
PlaceEventAnyway(events, rm, index) ==
    LET held == IF events = None THEN <<>> ELSE events
    IN  IF index >= Len(held) THEN Append(held, [of |-> rm, n |-> index]) ELSE held

\* place_run_event: a repeat is dropped, a gap drops the list.
PlaceEvent(events, rm, index) ==
    LET held == IF events = None THEN <<>> ELSE events
    IN  IF index = Len(held) THEN Append(held, [of |-> rm, n |-> index])
        ELSE IF index > Len(held) THEN None
        ELSE events

\* A variant of AppendLog: the place in the log is forgotten.
AppendLogForgets(p, line) ==
    IF line.n < p.log_next THEN p
    ELSE [p EXCEPT !.log_next = None, !.logs = LastOf(Append(@, line), LogCap)]

\* append_log
AppendLog(p, line) ==
    IF line.n < p.log_next THEN p
    ELSE [p EXCEPT !.log_next = line.n + 1, !.logs = LastOf(Append(@, line), LogCap)]

\* A variant of MergeLogTail: every line of the tail is appended.
MergeLogTailWhole(p, lines) ==
    [p EXCEPT !.logs = LastOf(@ \o lines, LogCap),
              !.log_next = IF lines = <<>> THEN @ ELSE lines[Len(lines)].n + 1]

\* merge_log_tail
MergeLogTail(p, lines) ==
    LET Merged[i \in 0..Len(lines)] ==
            IF i = 0 THEN p ELSE AppendLog(Merged[i - 1], lines[i])
    IN  Merged[Len(lines)]

\* apply_watch
ApplyWatch(p, rm, message) ==
    CASE message.kind = "snapshot" ->
            MergeLogTail([p EXCEPT !.status = "live",
                                   !.runs = [of |-> rm, ended |-> message.ended],
                                   !.events = IF message.events # None THEN message.events
                                              ELSE IF p.opened THEN @ ELSE None],
                         message.logs)
      [] message.kind = "run" -> [p EXCEPT !.runs = [of |-> rm, ended |-> message.ended]]
      [] message.kind = "event" -> [p EXCEPT !.events = PlaceEvent(@, rm, message.index)]
      [] message.kind = "log" -> AppendLog(p, [of |-> rm, n |-> message.seq])

\* The feed's task goes on while the tab is shown.
FeedGoesOn ==
    feed' = IF panel.surface = "remote" THEN [feed EXCEPT !.queue = Tail(@)] ELSE NoFeed

FeedApplies ==
    /\ feed.phase # "none" /\ feed.queue # <<>>
    /\ LET message == Head(feed.queue)
       IN  IF feed.epoch # panel.epoch
           THEN feed' = NoFeed /\ UNCHANGED <<panel, poll, history>>
           ELSE \/ /\ message.kind = "attached"
                   /\ FeedGoesOn /\ UNCHANGED <<panel, poll, history>>
                \/ /\ message.kind \in {"snapshot", "run", "event", "log"}
                   /\ LET p == ApplyWatch(panel, feed.remote, message)
                      IN  IF p.opened THEN EnsureRunEvents(p) ELSE panel' = p /\ UNCHANGED history
                   /\ FeedGoesOn /\ UNCHANGED poll
                \/ /\ message.kind = "unreachable"
                   /\ panel' = [panel EXCEPT !.status = IF @ = "none" THEN @ ELSE "not_live"]
                   /\ FeedGoesOn /\ UNCHANGED <<poll, history>>
                \/ /\ message.kind = "unsupported"
                   /\ StartPoll(panel)
                   /\ feed' = NoFeed /\ UNCHANGED history
    /\ UNCHANGED <<site, daemon, bounds>>

-----------------------------------------------------------------------------
(* The poll *)

Held == IF panel.events = None THEN 0 ELSE Len(panel.events)

\* What is watched is read before the requests are made.
PollAsks ==
    /\ poll.phase = "idle"
    /\ poll' = [poll EXCEPT !.phase = "asking", !.watched = IF panel.opened THEN Held ELSE None]
    /\ UNCHANGED <<site, daemon, panel, feed, history, bounds>>

\* The requests, as one.
PollReads ==
    /\ poll.phase = "asking"
    /\ LET d == daemon[poll.remote]
       IN  poll' = [poll EXCEPT !.phase = "answered", !.log_cursor = d.lines,
                        !.page = [ended |-> d.ended,
                                  lines |-> Items(poll.remote, poll.log_cursor, d.lines),
                                  events |-> IF poll.watched = None THEN None
                                             ELSE Items(poll.remote, poll.watched, d.events)]]
    /\ UNCHANGED <<site, daemon, panel, feed, history, bounds>>

PollFails ==
    /\ poll.phase = "asking"
    /\ Fault
    /\ poll' = [poll EXCEPT !.phase = "answered", !.page = None]
    /\ UNCHANGED <<site, daemon, panel, feed, history>>

ApplyPage(p, page) ==
    [p EXCEPT !.events = IF page.events = None \/ ~p.opened THEN @
                         ELSE IF @ = None THEN page.events ELSE @ \o page.events,
              !.runs = [of |-> poll.remote, ended |-> page.ended],
              !.status = "not_live",
              !.log_next = poll.log_cursor,
              !.logs = LastOf(@ \o page.lines, LogCap)]

\* A variant of PollApplies: whichever feed or poll is the current one.
PollAppliesAlways ==
    /\ poll.phase = "answered"
    /\ panel' = IF poll.page = None THEN [panel EXCEPT !.status = "none"]
                ELSE ApplyPage(panel, poll.page)
    /\ poll' = IF panel.surface = "remote" THEN [poll EXCEPT !.phase = "idle"] ELSE NoPoll
    /\ UNCHANGED <<site, daemon, feed, history, bounds>>

PollApplies ==
    /\ poll.phase = "answered"
    /\ IF poll.epoch # panel.epoch
       THEN poll' = NoPoll /\ UNCHANGED panel
       ELSE /\ panel' = IF poll.page = None THEN [panel EXCEPT !.status = "none"]
                        ELSE ApplyPage(panel, poll.page)
            /\ poll' = IF panel.surface = "remote"
                       THEN [poll EXCEPT !.phase = "idle", !.watched = None, !.page = None]
                       ELSE NoPoll
    /\ UNCHANGED <<site, daemon, feed, history, bounds>>

-----------------------------------------------------------------------------
(* The history of the opened run *)

HistoryReads ==
    /\ history.phase = "asked"
    /\ history' = [history EXCEPT !.phase = "answered",
                      !.page = Items(history.remote, 0, daemon[history.remote].events)]
    /\ UNCHANGED <<site, daemon, panel, feed, poll, bounds>>

HistoryFails ==
    /\ history.phase = "asked"
    /\ Fault
    /\ history' = NoHistory
    /\ UNCHANGED <<site, daemon, panel, feed, poll>>

HistoryArrives ==
    /\ history.phase = "answered"
    /\ panel' = [panel EXCEPT !.events = history.page]
    /\ history' = NoHistory
    /\ UNCHANGED <<site, daemon, feed, poll, bounds>>

-----------------------------------------------------------------------------
(* The operator *)

Click ==
    /\ bounds.clicks < site.max.clicks
    /\ bounds' = [bounds EXCEPT !.clicks = @ + 1]
    /\ UNCHANGED <<site, daemon>>

\* The remote's button in the tab
Select(rm) ==
    /\ Click /\ panel.surface = "remote"
    /\ StartFeed([panel EXCEPT !.selected = rm, !.runs = None, !.opened = FALSE])
    /\ UNCHANGED history

\* show_remote and show_remote_pipeline
ShowRemote(rm) ==
    /\ Click
    /\ StartFeed([panel EXCEPT !.surface = "remote", !.selected = rm, !.opened = FALSE,
                               !.runs = IF panel.selected = rm THEN @ ELSE None])
    /\ UNCHANGED history

\* profile_changed, where remotes.yml is the same for both profiles
ProfileChanged ==
    /\ Click
    /\ LET p == [panel EXCEPT !.opened = FALSE]
       IN  IF panel.surface = "remote" THEN StartFeed(p) ELSE panel' = p /\ UNCHANGED <<feed, poll>>
    /\ UNCHANGED history

\* A variant of Restart: not when the status says the socket is live.
RestartUnlessLive ==
    /\ Click
    /\ IF panel.status = "live"
       THEN panel' = [panel EXCEPT !.surface = "remote"] /\ UNCHANGED <<feed, poll>>
       ELSE StartFeed([panel EXCEPT !.surface = "remote"])
    /\ UNCHANGED history

\* Retry, and a click on the Remote tab
Restart ==
    /\ Click
    /\ StartFeed([panel EXCEPT !.surface = "remote"])
    /\ UNCHANGED history

\* Another tab, or a table of the explorer (show_query_for_table)
Leave ==
    /\ Click
    /\ panel' = [panel EXCEPT !.surface = "other"]
    /\ UNCHANGED <<feed, poll, history>>

\* remote_action has its answer: a live socket needs no restart.
ActionDone ==
    /\ panel.status # "live"
    /\ Click
    /\ StartFeed(panel)
    /\ UNCHANGED history

\* A run's row, and the arrow back
OpenRun ==
    /\ Click /\ panel.surface = "remote" /\ panel.runs # None /\ ~panel.opened
    /\ EnsureRunEvents([panel EXCEPT !.opened = TRUE])
    /\ UNCHANGED <<feed, poll>>

Back ==
    /\ Click /\ panel.surface = "remote" /\ panel.opened
    /\ panel' = [panel EXCEPT !.opened = FALSE, !.history_for = FALSE]
    /\ UNCHANGED <<feed, poll, history>>

-----------------------------------------------------------------------------
\* The panel before its Remote tab was ever shown, over daemons at work.
Init ==
    /\ site \in Sites
    /\ daemon = [rm \in Remotes |-> [events |-> 0, ended |-> FALSE, lines |-> 0]]
    /\ \E rm \in Remotes :
          panel = [surface |-> "other", selected |-> rm, epoch |-> 0, status |-> "none",
                   runs |-> None, opened |-> FALSE, events |-> None, history_for |-> FALSE,
                   logs |-> <<>>, log_next |-> 0]
    /\ feed = NoFeed /\ poll = NoPoll /\ history = NoHistory
    /\ bounds = [clicks |-> 0, renewals |-> 0, faults |-> 0]

Tasks ==
    \/ Subscribe \/ Attach \/ Refuse
    \/ FeedApplies
    \/ PollAsks \/ PollReads \/ PollApplies
    \/ HistoryReads \/ HistoryArrives

Next ==
    \/ \E rm \in Remotes : DaemonEvent(rm) \/ DaemonEnds(rm) \/ DaemonLogs(rm)
    \/ FailToConnect \/ EndSession \/ PollFails \/ HistoryFails
    \/ \E rm \in Remotes : Select(rm) \/ ShowRemote(rm)
    \/ ProfileChanged \/ Restart \/ Leave \/ ActionDone \/ OpenRun \/ Back
    \/ Tasks

Spec == Init /\ [][Next]_vars

\* The watch thread reconnects, the executor runs what is ready, and requests
\* are answered or fail.
FairSpec ==
    /\ Spec
    /\ WF_vars(Subscribe) /\ WF_vars(Attach) /\ WF_vars(Refuse)
    /\ WF_vars(FeedApplies)
    /\ WF_vars(PollAsks) /\ WF_vars(PollReads \/ PollFails) /\ WF_vars(PollApplies)
    /\ WF_vars(HistoryReads \/ HistoryFails) /\ WF_vars(HistoryArrives)

-----------------------------------------------------------------------------
(* Properties *)

\* The variables have their types.
TypeOK ==
    /\ site \in Sites
    /\ daemon \in [Remotes -> Daemon]
    /\ panel \in Panel
    /\ feed.phase \in {"none", "connecting", "subscribed", "attached", "over"}
    /\ poll.phase \in {"none", "idle", "asking", "answered"}
    /\ history.phase \in {"none", "asked", "answered"}

\* What the tab shows is the selected remote's, whichever feeds and polls of
\* other remotes, or of the same one, have answers on the way (remote_epoch).
ShowsSelected ==
    /\ panel.runs # None => panel.runs.of = panel.selected
    /\ \A i \in DOMAIN panel.logs : panel.logs[i].of = panel.selected

\* The log is read in order and no line twice, across sessions, their
\* overlapping snapshots and changes of remote (append_log, merge_log_tail);
\* no line older than one held comes after it.
LogInOrder ==
    /\ \A i \in DOMAIN panel.logs : \A j \in 1..(i - 1) : panel.logs[j].n < panel.logs[i].n
    /\ \A i \in DOMAIN panel.logs : panel.logs[i].n < panel.log_next

\* The events held of a run pushed by one daemon's socket are its first ones,
\* without a hole or a repeat, whichever were lost on the way, pushed twice or
\* fetched while others came (place_run_event).
Streamed ==
    site.threads /\ \E rm \in Remotes : Remotes = {rm} /\ site.remotes[rm] = "socket"
HeldFromStart ==
    Streamed /\ panel.events # None =>
        /\ panel.events = Items(panel.selected, 0, Len(panel.events))
        /\ Len(panel.events) <= daemon[panel.selected].events

\* While the tab is shown, a status that says the socket is live has a feed
\* behind it: remote_action counts on it to be told what its action did.
LiveIsFed ==
    panel.surface = "remote" /\ panel.status = "live"
        => feed.phase # "none" /\ feed.epoch = panel.epoch /\ feed.remote = panel.selected

\* Once the operator and the network are quiet, the tab comes to show the run
\* as its daemon has it: some feed or poll is always there to tell it.
Converges ==
    <>[](panel.surface = "remote" =>
            panel.runs = [of |-> panel.selected, ended |-> daemon[panel.selected].ended])

\* The opened run's events are all there once it ended and nothing is on its
\* way: "one that finished before we attached is history the socket does not
\* carry, so fetch it once" (ensure_run_events).
OpenedRunWhole ==
    /\ panel.surface = "remote" /\ panel.opened /\ daemon[panel.selected].ended
    /\ feed.phase = "attached" /\ feed.queue = <<>> /\ history.phase = "none"
    => panel.events = Items(panel.selected, 0, daemon[panel.selected].events)
===============================================================================
