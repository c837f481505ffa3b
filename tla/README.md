# zdbt: TLA+ models of its panels' state and of remote development

zdbt is a dbt IDE, a fork of Zed v1.17.2. What the fork adds is the crate
`crates/dbt_ui` (panels and tabs for dbt, for Ellode EL projects and for
Semarchy xDI projects); the editor, its remote development and its libraries
are Zed's. This directory holds models of the parts whose correctness depends
on the order of asynchronous steps, TLC runs over small instances of them, and
proofs checked by TLAPS.

## Inventory

| Part | State | Operations | What is hard |
|---|---|---|---|
| **xDI store** `dbt_ui/src/xdi/store.rs` | projects found, the one shown, metadata folders picked and pinned, migration folders, the snapshot, the migration, a queue of operations, five tasks | detect, set_active, reload, refresh_migration, picks, folders, import, queue_migration, file events | five kinds of background task end in any order after the state they began from changed; assigning a task's field cancels it; one handler leaves work to another ("a write under way works it out again when done") |
| **Remote channel** `remote/src/remote_client.rs` (ChannelClient), `remote_server/src/server.rs` (start_server) | ids, buffer of unacknowledged messages, last id received, outgoing queues | send, request, handling, acknowledgement, resync, reconnect | connections lost anywhere, the server's queue outlives them, threads send at once |
| **Remote client** `remote_client.rs` (RemoteClient, ConnectionPool) | State (Connecting … ReconnectExhausted), heartbeat and monitor tasks | connect, heartbeat, reconnect attempts, shutdown | timeouts racing each other and the process's end; the state is taken and put back |
| **Watch channel** `watch/src/watch.rs` | value, version, wakers | send, changed, borrow, drops | lost wakeups, wakers left behind |
| **EL explorer, listing cache** `dbt_ui/src/el/panel.rs`, `listing_cache.rs` | the tree of listings of a connection, what is unfolded, an epoch, tasks by key; listings in Redis | unfold, list, refresh a level or all, switch environment, invalidate | a blocking job outlives its task and still stores; a refresh clears the cache in one job and lists in another; answers of another environment |
| **EL runs panel** `dbt_ui/src/el/runs_panel.rs` | the remote selected, its runs, its log, the events of the opened run, an epoch | feed of the socket, poll, history fetch, select, retry, actions | three tasks fill the same fields; sessions end on a timer and overlap; events are lost |
| **EL local runner** `local_runner.rs`, `cli.rs` | the process, its output | start, stop | process I/O |
| **dbt panels** `lineage.rs`, `results_panel.rs`, `database_panel.rs` | what was drawn | run a command, draw | mostly rendering and I/O |

The xDI store is called by its panel and tabs on the foreground thread and by
the project's events (folders added and removed, files changed). It calls
`el_import` (an external crate) in the background to read a project and to
migrate it, and writes its choices to the IDE's database with detached tasks.
The two ends of the remote channel exchange protobuf envelopes over a proxy
process started through SSH.

What makes each part correct:

- the store shows and writes only what is of the project shown, writes
  operations in the order asked, misses no change, and comes to rest on the
  migration of what is shown;
- the channel loses no message, repeats none more than the lost connections
  explain, and delivers all in the end;
- a remote client has one connection task under way at most, never comes back
  from a state it reported as disconnected, notices the end of its proxy and
  settles; the clients share one connection;
- a receiver of a watch channel that waits is answered exactly when a value was
  sent since it looked or the sender is gone, and leaves no waker behind;
- the runs panel shows the remote selected, its log in order and a run's events
  from its start, and catches up whatever ends a session;
- the explorer shows nothing of another environment, a refresh reaches the
  database at every level, and nothing is left loading.

## Modules

| Module | What it is |
|---|---|
| `XdiStore` | the store, its tasks and its environment |
| `MCXdiStore` | the instance TLC checks: 2 projects, 3 folders, 2 lists of metadata folders |
| `XdiStoreProofs` | the inductive invariants of `XdiStore`, of what is shown and of what is owed, and its theorems |
| `RemoteChannel` | both ends of the channel, the server's loop, connections |
| `MCRemoteChannel` | the instance TLC checks |
| `RemoteChannelProofs` | types, and no loss up to the first connection lost |
| `RemoteRepeatsProofs` | how often a message is handled, over any connections and threads |
| `RemoteLifecycle` | the states of remote clients, their tasks, the connection pool |
| `MCRemoteLifecycle` | the instance TLC checks: one or two clients |
| `RemoteLifecycleProofs` | the inductive invariant of `RemoteLifecycle` and its theorems |
| `WatchSpec` | what a watch channel promises, without versions, wakers and tasks |
| `WatchChannel` | the watch channel, its receivers' futures and tasks; `Promise` instantiates `WatchSpec` |
| `MCWatchChannel` | the instance TLC checks: three receivers |
| `WatchChannelProofs` | the inductive invariant of `WatchChannel`, its theorems and the refinement |
| `RunsFeed` | the Remote tab of the runs panel, its three tasks, its daemons |
| `MCRunsFeed` | the sites TLC checks |
| `RunsFeedProofs` | the inductive invariant of `RunsFeed` and its theorems |
| `Explorer` | one connection of the EL explorer, its jobs, the listing cache |
| `MCExplorer` | the instance TLC checks: two databases, two environments |
| `ExplorerProofs` | the inductive invariant of `Explorer` and its theorems |
| `WellOrder` | induction over the natural numbers, as the proofs use it |

`PROJECT.json` maps each definition to the lines it models. Definitions whose
comment begins with "A variant of" are mutated forms of the definition that
follows them, used to check that each property can fail.

### XdiStore

Every handler of the store is an update of a GPUI entity on the foreground
thread, hence one step. A handler is an operator from a store record to a store
record (`Reload(s)`, `RefreshMigration(s)`, `WriteNext(s)`, `Show`, `SetActive`,
`Import`, `TakeLoad`, `TakeLook`, `TakeWrite`, `TakeDetection`), composed as the
code's handlers call each other. A task in a field (`_load`, `_migration`,
`_write`, `_detect`, `_debounce`) is a record in that field: `load`, `look`,
`write`, `detect`, `debounce`. Its background part and its continuation are two
steps (three for a write: the folder is written, then read), between which
anything else may happen. `migrating` and `loading` are `write # None` and
`load # None`.

Data kept: which project, folder and metadata folders a snapshot or migration
is of; versions of the files they were made from; the address of an
`Arc<Snapshot>` (`id`), since the code compares addresses. A fresh address is
one that no live holder has. What a migration writes is a new revision of the
folder's state file; the first write keeps the metadata folders, and it may
fail. Errors of the readers, one-shot folders and missing drives only change
what is drawn and whether buttons are grey; a queued operation is not checked
again, so `QueueMigration` asks only for a migration shown.

Outside events (`Outside`) are what the user, the workspace and other programs
do; a run starts from one of its `Plans`, which says which of them may happen
and how many.

### RemoteChannel

Both ends hold the same ChannelClient. `Handle` is one turn of
`start_handling_messages`: it pops what is acknowledged, answers a flush request
with the buffer and an ack that is not buffered, answers `RemoteStarted`, or
stores the id and handles the message. The client's `outgoing_tx` and the socket
are one queue, `up`; the server's loop reads it into `inbox`, and writes `out` —
its `outgoing_tx`, which outlives connections — to `down`. `Drop` loses `up` and
`down`; until the server notices, what it writes is lost too. The client opens
the new connection after the server noticed: opening it before only makes its
first messages wait, since nothing the server does to the old connection
depends on the client. `Reconnect` also stands for a resync that timed out and
is tried again, after a `Drop`.

At the ends a setting names in `background`, a send is three steps (id taken, message buffered,
message sent); the foreground's own sends there are covered by the same steps.
`data` stands for requests, responses and messages alike: which request a
response resolves and response streams are left out. Ids are u32 in the code and
do not wrap within any run.

### RemoteLifecycle

A client is its `State`; Connected and HeartbeatMissed hold a session: the proxy
started on a connection (`io` is its `io_task`), the monitor that waits for it
and the heartbeat. The monitor and the heartbeat are owned by the state, so a
state that gives way drops them. `tasks` holds the tasks of `new` (attempt 0) and
of `reconnect` (attempts 1 to `MaxAttempts`), each a program over phases: `kill`,
`killing`, `pool`, `got`, `started`, `asked`, then `done` or `failed`. A task in
the phase `asked` already has a session with a monitor, which may fire before
the client is connected (`TaskMonitorFires`). ReconnectFailed is taken over and
left in one update (`AttemptEnds`), so no client shows it.

The pool has one entry, since all clients have the same options. A connection is
alive while somebody holds it (the pool's reference is weak) and nobody killed
it; making one goes on only while a task waits for it. Killing follows the SSH
connection: the flag is set before the wait for the process, and a second kill
has nothing to wait for. `Release` stands for the end of the client, by
`shutdown_processes` or by cancelling its first connection.

It shares no variable with RemoteChannel: `Resynced` abstracts the resync that
RemoteChannel's `Reconnect` begins, and a session's end is its `Drop`.

### WatchChannel and WatchSpec

A `poll` and the part of `send` under the lock are one step each; between the
two halves of a `send` (the wakers taken, each woken after the lock) anything
may happen, except by the sender, whose `send` borrows it. `changed` borrows its
receiver, so a receiver with a future under way is neither looked at, copied nor
dropped (`Idle`). `runnable` is the executor's: a woken task polls its future
once (`TaskRuns`), and may poll it for another reason too (`SpuriousPoll`, as
`select!` does). An answered future is dropped in the same step: its drop takes
away a waker only when it was answered by the sender's end.

`WatchSpec` keeps who has news and who asks. `Implements` is the refinement:
`news` is the receivers whose version is not the channel's, `asking` those with
a future, `open` the sender alive; fairness included, so "what can be answered
is" follows from the executor running woken tasks.

### RunsFeed

`feed`, `poll` and `history` are the fields `_remote_feed`, `_remote_poll` and
`_remote_history`. Starting a feed drops the feed before it and, with it, its
channel: the thread notices and ends, so only one thread is kept. A poll is not
dropped by a new feed: it ends at its next answer, by its epoch. A message of the socket waits in
`queue` from the daemon to the update that applies it, as the thread's channel
and the network together; a session that ends loses a suffix of it. The client
side of the socket (`Subscribe`: the daemon registers the session before it
takes the snapshot, whence the overlap) is el_engine's, external. The daemon has
one run, known by the same id on each: what one daemon's run leaves in
`remote_run_events` meets the other's. The requests of a poll are one read.

### Explorer

A level is a path: the databases, the schemas of one, the tables of one schema.
`loads[lv]` is the entry of `_list_tasks` for that level with the background job
behind it, which goes through the cache (`Look`), the database (`List`) and the
cache again (`Store`). The job blocks, so dropping its task stops it only before
it began: `Cut` keeps a job that was listing or storing as an orphan.
`refreshes[scope]` is the task of `invalidate_then` for a level or the panel.
`profile` stands for the definition of the connection; the cache's keys contain
its fingerprint, hence one cache per profile, and an invalidation drops the
listings of all of them. A profile that names its database (`PinnedIn`) takes it
as listed.

## Runs

| Run | Result | Shows |
|---|---|---|
| XdiShown | passes | TypeOK, ShownIsActive, WritesOwnProject, QueueServed, ReadUpToDate, WritesInOrder with projects added, removed, imported, switched; files edited; operations queued |
| XdiServed | passes | ReadWithItsRoots, MigrationSettled, MigrationFresh, EveryOpWritten, Settles, with projects switched, files and state files edited, folders chosen, or with reads, picks and writes |
| XdiSwitchBusy | violation | MigrationSettled fails when a project is switched during the first of two writes |
| XdiFolderBusy | violation | MigrationSettled fails when an operation is queued while a folder just chosen is looked at |
| ChannelServed | passes | TypeOK, NoLoss, RepeatsBounded, AllHandled over one lost connection, and over one connection with racing threads |
| ChannelTwoDrops | violation | NoLoss fails over two lost connections |
| LifeTwo | passes | TypeOK, OneAttempt, OneConnection, MissedAgrees, DisconnectedIsFinal, Settles with two clients and four failures |
| LifeUnwatched | violation | EndNoticed fails when a proxy ends just before its client is connected |
| WatchAll | passes | TypeOK, NoLostWakeup, WakersOwned, Implements with three receivers |
| FeedShown | passes | TypeOK, ShowsSelected, LogInOrder, HeldFromStart, LiveIsFed, Converges at three sites |
| FeedHistory | violation | OpenedRunWhole fails for a run opened as it starts |
| ExplorerListed | passes | TypeOK, OwnEnvironment, LoadingIsServed, RefreshReached, Settles |

Bounds. Two projects are enough for a task of one to end while another is
shown; three folders give each its own and one that both may choose; two lists
of metadata folders let picked, pinned and found disagree. The folder `g` holds
a migration begun with `r2`, lies inside `r2` (so it is refused while `r2` is
read), and was chosen for `p1` in an earlier session; the metadata `r2` was
picked for `p2`: each run starts where pins, refusals and stored choices matter.
A plan has 3 events (2 for XdiFolderBusy): begin something, disturb it, disturb it
again. In the channel `MaxSends` is 3 messages each way, which a message before,
one during and one after a lost connection need. In the lifecycle `MaxAttempts`
is the code's 3 and `MaxFaults` 4, so that a lost connection and three failed
attempts exhaust a client; `MaxMissed` is 2 (the code's 5 only counts further).
Two clients are enough for one to kill or make the connection of the other.
In the watch channel three receivers let one be woken, one be cancelled and one
be copied during one `send`; two values are the last one looked at and the next.
The sites of RunsFeed are one daemon that pushes (two events, a log line, a
session that ends, an event lost), a machine without a thread for the socket (a
poll that fails, a log longer than `LogCap`), and two daemons of which one is
polled, with three clicks to open, leave and come back. In the explorer two
databases make unfolding a choice and one schema each unfolds by itself; three
clicks are enough to unfold, refresh or switch during it, and do one more; two
failures let a cache fail to be cleared and a listing fail.

RefreshReached holds from the click on, not only at rest. It supposes that nothing
was under way at the click, that nothing crossed it since and that Redis answered: a listing begun before the refresh may store what it read after the
cache was cleared, and the code says of a Redis that does not answer that the
listing "may answer from the cache that could not be cleared".
HeldFromStart is about one daemon that pushes: events are kept by the run's id,
and the ids of two daemons can be the same.

What the violations say:

- *XdiSwitchBusy*: `refresh_migration` leaves the work to the write under way
  (store.rs:754); the end of a write with a queue calls `write_next`, which
  clears the queue for want of a migration and returns, before the stale check
  at store.rs:969. A second operation gets into the queue through a prompt
  answered later or through the import of another process, which looks at
  `loading` and not at `migrating` (import.rs, `candidates`).
- *XdiFolderBusy*: `write_next` drops the look at the new folder (store.rs:914)
  and the stale check compares snapshots, not folders. The buttons are grey
  while the store reads or writes, not while it looks.
- *ChannelTwoDrops*: the server's message 1 is lost with the first connection,
  message 2 waits in its queue and is written first on the second, the client
  keeps 2 as the last id received, the second connection is lost before the
  buffer is sent again, and the flush request then acknowledges 2, which drops
  1 from the buffer. One lost connection is enough where threads send at once
  (`background` the server, one drop), for the same reason: the last id
  received is taken to mean that all before it were.
- *LifeUnwatched*: the proxy ends after its answer to the first ping, or to the
  resync, was queued, and its monitor runs before the answer is handled.
  `reconnect` refuses since the state is Connecting or Reconnecting; then the
  client becomes Connected, its monitor over, and the heartbeat stops because
  the activity channel is closed (remote_client.rs:790). In `new` even a state
  ServerNotRunning, reported as Disconnected, is overwritten.
- *FeedHistory*: the run's row is clicked before its first event arrived, so
  nothing is held and the history is asked; the daemon answers with no events,
  the socket pushes the first event and the run's end, and the answer replaces
  the list (runs_panel.rs:1147). `remote_history_for` keeps it from being asked
  again until the arrow back, and a next event would find a gap.

Fairness. `FairSpec` asks weak fairness of all tasks together: while some task
can take a step, one does. GPUI's executors run every task that is ready, timers
fire, the worktree scanner reports, and a lost connection is opened again
(within the attempts RemoteClient allows; running out of them is its lifecycle,
not the channel's). In the lifecycle the server answers what runs, or the code's
own timeout fires; the fair steps are those that are no failure, and killing a
connection need not end its proxies (a ControlMaster of the user's own). In the
watch channel a `send` begun goes on and a woken task is run, each on its own;
nobody is obliged to send. In RunsFeed each task and request has its own weak
fairness: the thread connects again after each wait, and a request is answered
or fails. In the explorer all jobs and tasks together: Redis has time limits,
and a listing ends. Nothing outside is obliged to happen. The runs do not check
deadlock: the bounded systems rightly come to rest once the outside events are
used up and the tasks done.

## Proofs

Every theorem is about `Spec`, for every value of the constants that the named
assumptions allow: any number of projects, folders, clients, receivers, remotes,
levels, messages, events and failures. Each rests on an inductive invariant
(`IInv`, `RInv`, `SInv`), which is a theorem of its own (`Invariance`,
`CountsInvariance`, `NothingForgotten`), with one step of the proof per action.

| Module | Theorem | States |
|---|---|---|
| `XdiStoreProofs` | `TypeCorrect` | `Spec => []TypeOK` |
| | `ShownOfTheActive` | `Spec => []ShownIsActive` |
| | `WrittenForItsProject` | `Spec => []WritesOwnProject` |
| | `QueueIsServed` | `Spec => []QueueServed` |
| | `InOrder` | `Spec => WritesInOrder` |
| | `NothingForgotten` | `Spec => []SInv`, what the store owes |
| | `ReadsUpToDate` | `Spec => []ReadUpToDate` |
| | `ReadsWithItsRoots` | `Spec => [](PicksKept(events.kinds) => ReadWithItsRoots)` |
| | `MigrationSettles` | `Spec => [](Apart(events.kinds) => MigrationSettled)` |
| | `MigrationIsFresh` | `Spec => [](Apart(events.kinds) => MigrationFresh)` |
| `RemoteChannelProofs` | `TypeCorrect` | `Spec => []TypeOK` |
| | `FirstDropLosesNothing` | `Spec => [](Covered => NoLoss)` |
| `RemoteRepeatsProofs` | `RepeatsAreBounded` | `Spec => []RepeatsBounded` |
| `RemoteLifecycleProofs` | `TypeCorrect` | `Spec => []TypeOK` |
| | `OneAttemptAtATime` | `Spec => []OneAttempt` |
| | `OneConnectionAlive` | `Spec => []OneConnection` |
| | `MissedCountsAgree` | `Spec => []MissedAgrees` |
| | `DisconnectedStays` | `Spec => DisconnectedIsFinal` |
| `WatchChannelProofs` | `TypeCorrect` | `Spec => []TypeOK` |
| | `NoWakeupIsLost` | `Spec => []NoLostWakeup` |
| | `NoWakerIsLeft` | `Spec => []WakersOwned` |
| | `Refinement` | `Spec => Promise!Spec`, the safety part of Implements |
| `RunsFeedProofs` | `TypeCorrect` | `Spec => []TypeOK` |
| | `ShownIsSelected` | `Spec => []ShowsSelected` |
| | `LogIsInOrder` | `Spec => []LogInOrder` |
| | `EventsHaveNoHole` | `Spec => []HeldFromStart` |
| | `LiveHasItsFeed` | `Spec => []LiveIsFed` |
| `ExplorerProofs` | `TypeCorrect` | `Spec => []TypeOK` |
| | `ShownIsOfTheEnvironment` | `Spec => []OwnEnvironment` |
| | `EveryLoadIsServed` | `Spec => []LoadingIsServed` |
| | `RefreshReachesTheDatabase` | `Spec => []RefreshReached` |

**xDI store.** ShownIsActive alone is not inductive: a look or write that ends
compares addresses of snapshots, so the invariant must say that two holders with
one address hold one snapshot (`OneAddress`), which the choice of a fresh address
keeps; that a look is of the project it was begun for; and that no look is under
way beside a write. WritesOwnProject needs that while a migration is shown every
queued operation was asked for the project shown: switching clears the migration,
and a queue without a migration is cleared, not written. WritesInOrder needs the
ids in the queue to be increasing, above the operation being written and above
the last one written (`Ordered`). `Good(s)` is a predicate on a store record, so
each handler has one lemma (`ReloadGood`, `RefreshGood`, `WriteNextGood`, ...)
cited wherever it is called; `Frame` says that handlers that leave the core fields
alone keep it.

**xDI store, what is owed.** The properties of a store at rest say nothing of the
steps before. `SInv` says of every state which debt is open and who pays it. A
change of the shown project's files is in a snapshot read since, in the read under
way or asked for, in the debounce, or in a message not yet handled (`UpToDate`); the
same for the metadata folders (`RootsRight`), for the migration of the snapshot
shown (`Settling`, `RootsFollow`) and for the state file (`Fresh`). A read asked for
pays all of them at once (`ReadPays`), which is why the handlers that end in
`reload` need no more; the others (`TakeLoad`, `TakeLook`, `TakeWrite`,
`TakeDetection`) each have a lemma of who takes the debt over. `Writing` follows a
write into the migration shown: until its result the state file is the one shown,
then it has the metadata folders kept or the snapshot's own. `Detecting` and `Stored`
say why a detect leaves the shown project's picks and folder as they are: what no
event changes is what the database holds.

`ReadsUpToDate` has no condition. The others hold for the kinds of events
(`events.kinds`, fixed in a behaviour) that the code reconciles, and each condition is
needed: for every pair of kinds it excludes, TLC finds a counterexample with three or
four events of these two kinds alone.

- `PicksKept` (ReadWithItsRoots): metadata folders picked, and a workspace folder added
  or removed. `detect` takes over the pick the database held before the detached write.
- `FoldersKept` (MigrationSettled, MigrationFresh): the same of a folder chosen or an
  import.
- `WritesAlone` (MigrationSettled): operations, and a switch, a folder chosen, an
  import, a workspace folder removed, or a state file changed by another program. Two
  of these are the runs XdiSwitchBusy and XdiFolderBusy. MigrationFresh fails for the
  same pairs but one: for operations and folders chosen TLC finds no counterexample,
  and the theorem leaves that pair out.

`Apart` thus allows either everything but operations (with `FoldersKept`), or
operations with files and metadata changed, reads and looks asked for, picks, and
workspace folders added. Both plans of the run XdiServed satisfy the conditions.

**Remote channel, no loss.** `Covered` says where the code keeps the promise:
before a connection is lost, whatever threads send, and over the first connection
lost where each end sends one message at a time. Beyond that messages can really be
lost: over two lost connections (the run ChannelTwoDrops), and over one where
threads send at once. The invariant follows the connection through stages:
`First`, `Lost` (no connection), `Asked` (the flush request is the f-th on its
way), `Answered` (the answer is the g-th on its way) and `Resynced`. In each, what
the peer has not handled (`Open`) is carried by the connection or kept in the
buffer, and it stays kept because no acknowledgement that will be handled before
the buffer is sent again reaches it: an acknowledgement is `Safe` when it is below
every open message and every one still to be sent. That acknowledgements are safe
needs in turn that messages arrive `Due`, each after all the open ones before it,
since the last id received is taken to mean that all before it were. Only the part
of a queue before the flush request, or before its answer, has these properties:
behind it the buffer is repeated. `Early` is the case of threads before any drop,
where order is lost but nothing else is.

**Remote channel, repeats.** `RepeatsAreBounded` has no such limit. RepeatsBounded
speaks of what was handled only; the invariant counts for each id the copies
handled, on their way and about to be sent (`Copies`), and the times an end's
buffer will still be sent again (`Resends`): for the client, if it waits for the
answer to its flush request; for the server, the flush requests on their way, those
of earlier connections in its inbox included; for each, one more while there is no
connection. `Copies + Resends <= 1 + drops`. Sending the buffer turns one of the
times into one copy, because a buffer holds a message once (`Once`); a lost
connection adds one; a new message has had no copies (`Unused`). The client sends
its buffer only for an answer to the request it waits for: everything on its way to
the client is data or an answer to some request (`ToClient`).

**Remote client.** The invariant is about one client at a time: `Fit(st, ts)`
relates its state to its tasks. A client without a task is not Reconnecting and
counts missed heartbeats as its session does; one with a task has exactly one, has
no session, and the task holds what its phase says (`Sound`). This is what keeps a
monitor or a heartbeat that fires late from starting a second attempt, and why a
client that gave up has no task left to bring it back. `Pooled` is the one clause
over all clients: what is alive is in the pool, so making another connection only
begins when none is alive.

**Watch channel.** NoLostWakeup is not inductive: a send wakes only whose wakers it
finds, so the invariant says where the waker of each future is (`Waits`: in the
channel, in the hands of the send, or used up by a task about to run), that two
futures never wait under one id (`OneId`: to remove one waker removes no other), and
that a future with a waker in the channel has seen the last value (`Fresh`: a poll
that finds a new one may leave its waker alone, as the comment in `poll` says). The
refinement needs that no receiver is ahead of the channel (`Versions`), so that a
send is news to all. A poll is an answer or a stutter; the two halves of a send are
a Publish and stutters.

**Runs panel.** A feed or poll of the current epoch is of the remote selected, and
they are never both current (`Current`, `Apart`): a click raises the epoch, so what
is late is known by it. LogInOrder needs where the current poll is in the log
(`Cursor`: at `remote_log_next`, or its page begins there), since a poll appends
without looking, and that every line held is before `remote_log_next`. HeldFromStart
needs the types of what a feed can still bring: every event list in its queue is a
first part of its daemon's run (`FirstEvents`).

**Explorer.** Own environment: a load of the current epoch brings a listing of the
environment shown (`Own`), although jobs of other environments end and store
meanwhile. LoadingIsServed needs that a refresh of one level always lists again
(`Reloads`); the task that cuts another takes its duty over. RefreshReached has two
phases: `Dropping`, where nothing of what is refreshed is shown and nothing else
runs, and `Since`, where everything shown, cached, or about to be either — orphaned
jobs included — is of the click's version or a later one.

**Induction.** The library's induction theorems take a predicate as a parameter,
which the provers here cannot instantiate. `WellOrder` states induction for sets
instead, from the library's well-foundedness of the naturals: every set of naturals
has a least member (`Least`, for the CHOOSE of PopAcked), and what holds of 0 and
step by step holds up to n (`UpTo`, for the recursive function that merges the
panel's log). `Count` in RemoteRepeatsProofs needs none: it is a cardinality.

**Assumptions.** `ConstantsAssumption` (in XdiStore, RemoteChannel and
RemoteLifecycle), `WatchAssumption`, `ExplorerAssumption`, `SitesAssumption`,
`LogCapAssumption` and `NoneAssumption`: the types of the constants, that `None` is
none of the values, that the log's cap is not zero. TLC evaluates each on every run.

**Only model-checked.** Liveness under fairness, which is out of the prover's reach:
Settles, EveryOpWritten, AllHandled, Converges and the fairness of Implements. Every
invariant and every other action property of the passing runs is also a theorem, some
under the conditions above.

## Not modelled

Rendering, forms, process and database I/O, the reader's cache of parsed files,
what `el_import` converts (external), Zed's editor, text CRDT and worktrees.
`PROJECT.json` lists every part with the reason. Known gaps of the models: what
is stored in the database is read back only by `detect` within a session;
metadata changes are in the model, but no property covers one made during a
project's first read, which `reads` cannot relate to the project (store.rs:551);
a state file changed by another program during a write, after the write read it,
is ignored by the code and excluded from MigrationFresh by the choice of events.
Of the remote client, the 50 ms between a shutdown request and the end of its
tasks, `force_heartbeat_timeout` (a developer's action, which leaves a client
that is not connected without a state) and WSL connections (never killed, so
reused as long as somebody holds them) are left out. Of the runs panel, the Query
tab, several runs and pipelines, a daemon that restarts (its log begins again
below `remote_log_next`), and edits of remotes.yml. Of the explorer, connections
listed whole, search and paging, the expiry of cached listings, databases whose
names make two task keys equal, and connections.yml edited outside the IDE's
form, which is read again without a new epoch when the panel is shown.

## What is left

- The last choice made against what `detect` takes over in the xDI store: which pick
  or folder wins is not stated, only that what is shown agrees with it.
- Liveness has no machine-checked proof; the runs check it on their instances.
- The next session: what the detached writes leave in the database is read back only
  within one.
