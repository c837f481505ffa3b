----------------------------- MODULE WatchChannel -----------------------------
(***************************************************************************)
(* The watch channel (crates/watch/src/watch.rs): one value, one Sender    *)
(* and any number of Receivers, each on a task of its own that may run on  *)
(* another thread.  `changed` is a future: a poll of it that finds nothing *)
(* new leaves a waker under the lock, send takes the wakers under the lock *)
(* and wakes them one by one after it.  WatchSpec is what that promises.   *)
(***************************************************************************)
EXTENDS Naturals, FiniteSets

CONSTANTS
    None,        \* Option::None
    Receivers,   \* the Receivers there can be
    MaxSends,    \* values sent, at most
    MaxAsks,     \* calls of changed, at most
    MaxSpurious  \* polls of a future that no waker asked for, at most

VARIABLES
    state,     \* the State behind the lock
    sender,    \* [alive, waking: tasks its send took the wakers of]
    rx,        \* receiver -> its handle and the Changed future that borrows it
    runnable,  \* receivers whose task was woken, or is running
    bounds     \* sends, asks and spurious polls so far

vars == <<state, sender, rx, runnable, bounds>>

-----------------------------------------------------------------------------
(* Data *)

Opt(S) == S \cup {None}

\* "value" is the number of the value's sending.
Waker == [id : Nat, task : Receivers]
State == [value : Nat, version : Nat, wakers : SUBSET Waker, next_waker_id : Nat,
          closed : BOOLEAN]

\* "changed": a Changed future borrows the receiver.
Receiver == [alive : BOOLEAN, version : Nat, changed : BOOLEAN, pending_waker_id : Opt(Nat)]

ASSUME WatchAssumption ==
    /\ None \notin Nat
    /\ Receivers # {} /\ IsFiniteSet(Receivers)
    /\ MaxSends \in Nat /\ MaxAsks \in Nat /\ MaxSpurious \in Nat

NoReceiver == [alive |-> FALSE, version |-> 0, changed |-> FALSE, pending_waker_id |-> None]

Idle(r) == rx[r].alive /\ ~rx[r].changed
Tasks(wakers) == {w.task : w \in wakers}
Without(wakers, id) == {w \in wakers : w.id # id}

-----------------------------------------------------------------------------
(* Sender *)

\* A variant of Publish: the version is not raised when no future waits.
PublishIfWaited ==
    /\ state' = [state EXCEPT !.value = @ + 1, !.wakers = {},
                              !.version = IF state.wakers = {} THEN @ ELSE @ + 1]
    /\ sender' = [sender EXCEPT !.waking = Tasks(state.wakers)]

\* send's part under the lock
Publish ==
    /\ state' = [state EXCEPT !.value = @ + 1, !.version = @ + 1, !.wakers = {}]
    /\ sender' = [sender EXCEPT !.waking = Tasks(state.wakers)]

\* ... and with no receiver: the value is replaced and nothing else.
Replace == state' = [state EXCEPT !.value = @ + 1] /\ UNCHANGED sender

\* Sender::send
Send ==
    /\ sender.alive /\ sender.waking = {}
    /\ bounds.sends < MaxSends
    /\ bounds' = [bounds EXCEPT !.sends = @ + 1]
    /\ IF \E r \in Receivers : rx[r].alive THEN Publish ELSE Replace
    /\ UNCHANGED <<rx, runnable>>

\* ... after the lock, each waker in turn.
SenderWakes ==
    /\ \E r \in sender.waking :
          /\ sender' = [sender EXCEPT !.waking = @ \ {r}]
          /\ runnable' = runnable \cup {r}
    /\ UNCHANGED <<state, rx, bounds>>

\* Drop for Sender: the wakers are woken under the lock.
DropSender ==
    /\ sender.alive /\ sender.waking = {}
    /\ state' = [state EXCEPT !.closed = TRUE, !.wakers = {}]
    /\ sender' = [sender EXCEPT !.alive = FALSE]
    /\ runnable' = runnable \cup Tasks(state.wakers)
    /\ UNCHANGED <<rx, bounds>>

\* Sender::receiver
NewReceiver(r) ==
    /\ sender.alive /\ sender.waking = {}
    /\ ~rx[r].alive
    /\ rx' = [rx EXCEPT ![r].alive = TRUE, ![r].version = state.version]
    /\ UNCHANGED <<state, sender, runnable, bounds>>

-----------------------------------------------------------------------------
(* Receiver *)

\* Receiver::clone
CloneReceiver(r, s) ==
    /\ ~rx[r].alive /\ Idle(s)
    /\ rx' = [rx EXCEPT ![r].alive = TRUE, ![r].version = rx[s].version]
    /\ UNCHANGED <<state, sender, runnable, bounds>>

DropReceiver(r) ==
    /\ Idle(r)
    /\ rx' = [rx EXCEPT ![r] = NoReceiver]
    /\ UNCHANGED <<state, sender, runnable, bounds>>

\* A variant of Borrow: the wrong id is kept.
BorrowKeepsWakerId(r) ==
    /\ Idle(r)
    /\ rx' = [rx EXCEPT ![r].version = rx[r].pending_waker_id]
    /\ UNCHANGED <<state, sender, runnable, bounds>>

\* Receiver::borrow
Borrow(r) ==
    /\ Idle(r)
    /\ rx' = [rx EXCEPT ![r].version = state.version]
    /\ UNCHANGED <<state, sender, runnable, bounds>>

\* Receiver::changed, by the receiver's task, which is running.
Changed(r) ==
    /\ Idle(r)
    /\ bounds.asks < MaxAsks
    /\ bounds' = [bounds EXCEPT !.asks = @ + 1]
    /\ rx' = [rx EXCEPT ![r].changed = TRUE, ![r].pending_waker_id = None]
    /\ runnable' = runnable \cup {r}
    /\ UNCHANGED <<state, sender>>

\* The waker an earlier poll left is replaced by this poll's.
Register(r) ==
    /\ state' = [state EXCEPT !.wakers = Without(@, rx[r].pending_waker_id)
                                          \cup {[id |-> state.next_waker_id + 1, task |-> r]},
                              !.next_waker_id = @ + 1]
    /\ rx' = [rx EXCEPT ![r].pending_waker_id = state.next_waker_id + 1]

\* A variant of Poll: the first poll leaves its waker without a look at what is
\* new.
PollRegistersFirst(r) ==
    IF rx[r].pending_waker_id = None
    THEN Register(r)
    ELSE IF state.version # rx[r].version \/ state.closed
    THEN /\ rx' = [rx EXCEPT ![r].changed = FALSE, ![r].pending_waker_id = None,
                             ![r].version = state.version]
         /\ UNCHANGED state
    ELSE Register(r)

\* Changed::poll, all of it under the lock.  An answered future is dropped.
Poll(r) ==
    IF state.version # rx[r].version
    THEN /\ rx' = [rx EXCEPT ![r].changed = FALSE, ![r].pending_waker_id = None,
                             ![r].version = state.version]
         /\ UNCHANGED state
    ELSE IF state.closed
    THEN /\ rx' = [rx EXCEPT ![r].changed = FALSE, ![r].pending_waker_id = None]
         /\ state' = [state EXCEPT !.wakers = Without(@, rx[r].pending_waker_id)]
    ELSE Register(r)

\* The receiver's task runs.
TaskRuns(r) ==
    /\ r \in runnable
    /\ runnable' = runnable \ {r}
    /\ IF rx[r].changed THEN Poll(r) ELSE UNCHANGED <<state, rx>>
    /\ UNCHANGED <<sender, bounds>>

\* It runs for another reason than its waker, and polls the future again.
SpuriousPoll(r) ==
    /\ rx[r].changed /\ r \notin runnable
    /\ bounds.spurious < MaxSpurious
    /\ bounds' = [bounds EXCEPT !.spurious = @ + 1]
    /\ Poll(r)
    /\ UNCHANGED <<sender, runnable>>

\* A variant of DropChanged: the waker stays.
DropChangedKeepsWaker(r) ==
    /\ rx[r].changed
    /\ rx' = [rx EXCEPT ![r].changed = FALSE, ![r].pending_waker_id = None]
    /\ UNCHANGED <<state, sender, runnable, bounds>>

\* Drop for Changed, before it was answered.
DropChanged(r) ==
    /\ rx[r].changed
    /\ state' = [state EXCEPT !.wakers = Without(@, rx[r].pending_waker_id)]
    /\ rx' = [rx EXCEPT ![r].changed = FALSE, ![r].pending_waker_id = None]
    /\ UNCHANGED <<sender, runnable, bounds>>

-----------------------------------------------------------------------------
\* channel
Init ==
    /\ state = [value |-> 0, version |-> 0, wakers |-> {}, next_waker_id |-> 0, closed |-> FALSE]
    /\ sender = [alive |-> TRUE, waking |-> {}]
    /\ \E r \in Receivers : rx = [s \in Receivers |-> [NoReceiver EXCEPT !.alive = (s = r)]]
    /\ runnable = {}
    /\ bounds = [sends |-> 0, asks |-> 0, spurious |-> 0]

Next ==
    \/ Send \/ SenderWakes \/ DropSender
    \/ \E r \in Receivers :
          \/ NewReceiver(r) \/ DropReceiver(r) \/ Borrow(r) \/ Changed(r)
          \/ TaskRuns(r) \/ SpuriousPoll(r) \/ DropChanged(r)
          \/ \E s \in Receivers : CloneReceiver(r, s)

Spec == Init /\ [][Next]_vars

\* send goes on to its end, and the executor runs a task that was woken.
FairSpec == Spec /\ WF_vars(SenderWakes) /\ \A r \in Receivers : WF_vars(TaskRuns(r))

-----------------------------------------------------------------------------
(* Properties *)

\* Every variable has its type.
TypeOK ==
    /\ state \in State
    /\ sender \in [alive : BOOLEAN, waking : SUBSET Receivers]
    /\ rx \in [Receivers -> Receiver]
    /\ runnable \in SUBSET Receivers
    /\ bounds \in [sends : Nat, asks : Nat, spurious : Nat]

\* No wakeup is lost: a `changed` that has its answer, a new version or the
\* end of the sender, has been woken or is about to be by the send under way
\* (the look at the version and the registration of the waker are one step).
NoLostWakeup ==
    \A r \in Receivers :
        rx[r].changed /\ (rx[r].version # state.version \/ state.closed)
            => r \in runnable \cup sender.waking

\* No waker outlives its future (Changed's drop, and a poll that was not asked
\* for), so that a channel without receivers has none: send's debug_assert.
WakersOwned ==
    \A w \in state.wakers :
        /\ rx[w.task].changed /\ rx[w.task].pending_waker_id = w.id
        /\ w.id <= state.next_waker_id

\* The versions, wakers and tasks implement the promise of WatchSpec.
Promise == INSTANCE WatchSpec WITH
    value <- state.value,
    live <- {r \in Receivers : rx[r].alive},
    news <- {r \in Receivers : rx[r].alive /\ rx[r].version # state.version},
    asking <- {r \in Receivers : rx[r].changed},
    open <- sender.alive

\* A receiver that asks for a change is told of one, or of the sender's end,
\* exactly when there is one, and is not left waiting.
Implements == Promise!FairSpec
===============================================================================
