-------------------------- MODULE WatchChannelProofs --------------------------
(***************************************************************************)
(* The safety of the watch channel, for any number of receivers, values    *)
(* and polls: no wakeup is lost, no waker is left behind, and every step   *)
(* is a step of WatchSpec, or none.                                        *)
(***************************************************************************)
EXTENDS WatchChannel, TLAPS

\* A future is a living receiver's, and an id that waits is a future's.
Futures ==
    \A r \in Receivers :
        /\ rx[r].changed => rx[r].alive
        /\ rx[r].pending_waker_id # None =>
              rx[r].changed /\ rx[r].pending_waker_id <= state.next_waker_id

\* Two futures never wait under one id: to remove one waker removes no other.
OneId ==
    \A r, s \in Receivers :
        rx[r].pending_waker_id # None /\ rx[r].pending_waker_id = rx[s].pending_waker_id => r = s

\* A future whose task is not to run has its waker in the channel, or in the
\* hands of the send under way.
Waits ==
    \A r \in Receivers :
        rx[r].changed => \/ r \in runnable \cup sender.waking
                         \/ \E w \in state.wakers : w.task = r

\* No receiver is ahead of the channel, which is closed by its sender alone and
\* then wakes nobody.
Versions == \A r \in Receivers : rx[r].version <= state.version
Closed == (state.closed <=> ~sender.alive) /\ (state.closed => state.wakers = {})

\* A future with a waker in the channel has seen the last value: a poll that
\* finds a new one need not take its waker away, the send did.
Fresh == \A w \in state.wakers : rx[w.task].version = state.version

IInv ==
    /\ TypeOK /\ Futures /\ OneId /\ Waits /\ Versions /\ Closed /\ Fresh
    /\ WakersOwned /\ NoLostWakeup

-----------------------------------------------------------------------------
(* The steps of the sender *)

\* send moves the wakers of all that wait into its own hands.
LEMMA SendKeeps == ASSUME IInv, Send PROVE IInv'
<1> USE DEF IInv, Send, Publish, Replace
<1>0. /\ state.value + 1 \in Nat
      /\ state'.version \in Nat /\ state.version <= state'.version
      /\ {} \in SUBSET Waker
  <2>1. CASE Publish
    BY <2>1 DEF TypeOK, State
  <2>2. CASE Replace
    BY <2>2 DEF TypeOK, State
  <2> QED BY <2>1, <2>2
<1>1. TypeOK'
  <2>1. Tasks(state.wakers) \in SUBSET Receivers
    BY DEF TypeOK, State, Tasks, Waker
  <2>2. state' \in State
    <3>1. CASE Publish
      BY <1>0, <3>1 DEF TypeOK, State
    <3>2. CASE Replace
      BY <1>0, <3>2 DEF TypeOK, State
    <3> QED BY <3>1, <3>2
  <2>3. sender' \in [alive : BOOLEAN, waking : SUBSET Receivers]
    BY <2>1 DEF TypeOK
  <2> QED BY <2>2, <2>3 DEF TypeOK
<1>2. Futures' /\ OneId'
  BY DEF Futures, OneId, TypeOK, State, Receiver, Opt
<1>6. Versions'
  BY <1>0 DEF Versions, TypeOK, State, Receiver
<1>7. Closed'
  BY DEF Closed, TypeOK, State
<1>3. Waits'
  BY DEF Waits, Futures, Tasks, TypeOK, State, Waker
<1>4. WakersOwned' /\ Fresh'
  BY DEF WakersOwned, Fresh, TypeOK, State
<1>5. NoLostWakeup'
  BY DEF NoLostWakeup, Waits, Futures, Tasks, TypeOK, State, Waker, Closed
<1> QED BY <1>1, <1>2, <1>3, <1>4, <1>5, <1>6, <1>7

\* A waker woken makes its task runnable.
LEMMA SenderWakesKeeps == ASSUME IInv, SenderWakes PROVE IInv'
<1> USE DEF IInv, SenderWakes
<1>1. TypeOK'
  BY DEF TypeOK
<1>2. Futures' /\ OneId' /\ Versions' /\ Closed' /\ WakersOwned' /\ Fresh'
  BY DEF Futures, OneId, Versions, Closed, WakersOwned, Fresh, TypeOK
<1>3. Waits' /\ NoLostWakeup'
  BY DEF Waits, NoLostWakeup, TypeOK
<1> QED BY <1>1, <1>2, <1>3

\* The end of the sender wakes all that wait.
LEMMA DropSenderKeeps == ASSUME IInv, DropSender PROVE IInv'
<1> USE DEF IInv, DropSender
<1>1. TypeOK'
  <2>1. Tasks(state.wakers) \in SUBSET Receivers
    BY DEF TypeOK, State, Tasks, Waker
  <2>2. state' \in State
    BY DEF TypeOK, State
  <2> QED BY <2>1, <2>2 DEF TypeOK
<1>2. Futures' /\ OneId' /\ Versions' /\ Closed' /\ WakersOwned' /\ Fresh'
  BY DEF Futures, OneId, Versions, Closed, WakersOwned, Fresh, TypeOK, State
<1>3. Waits' /\ NoLostWakeup'
  BY DEF Waits, NoLostWakeup, Tasks, TypeOK, State, Waker
<1> QED BY <1>1, <1>2, <1>3

-----------------------------------------------------------------------------
(* The steps of a receiver *)

\* A receiver that looks, comes to be or asks is a receiver.
LEMMA ReceiverForms ==
    ASSUME NEW x \in Receiver, NEW v \in Nat
    PROVE  /\ [x EXCEPT !.version = v] \in Receiver
           /\ [x EXCEPT !.alive = TRUE, !.version = v] \in Receiver
           /\ [x EXCEPT !.changed = TRUE, !.pending_waker_id = None] \in Receiver
           /\ NoReceiver \in Receiver
BY DEF Receiver, Opt, NoReceiver

\* ... and keeps its type.
LEMMA HandleTypes ==
    ASSUME TypeOK, NEW r \in Receivers,
           \/ NewReceiver(r) \/ DropReceiver(r) \/ Borrow(r) \/ Changed(r)
           \/ \E s \in Receivers : CloneReceiver(r, s)
    PROVE  TypeOK'
<1>0. rx[r] \in Receiver /\ state.version \in Nat /\ \A s \in Receivers : rx[s].version \in Nat
  BY DEF TypeOK, State, Receiver
<1>1. CASE NewReceiver(r)
  <2>1. rx' = [rx EXCEPT ![r] = [rx[r] EXCEPT !.alive = TRUE, !.version = state.version]]
    BY <1>1 DEF NewReceiver, TypeOK, Receiver
  <2>2. rx' \in [Receivers -> Receiver]
    BY <1>0, <2>1, ReceiverForms DEF TypeOK
  <2> QED BY <1>1, <2>2 DEF NewReceiver, TypeOK
<1>2. CASE DropReceiver(r)
  BY <1>0, <1>2, ReceiverForms DEF DropReceiver, TypeOK
<1>3. CASE Borrow(r)
  <2>1. rx' = [rx EXCEPT ![r] = [rx[r] EXCEPT !.version = state.version]]
    BY <1>3 DEF Borrow, TypeOK, Receiver
  <2>2. rx' \in [Receivers -> Receiver]
    BY <1>0, <2>1, ReceiverForms DEF TypeOK
  <2> QED BY <1>3, <2>2 DEF Borrow, TypeOK
<1>4. CASE Changed(r)
  <2>1. rx' = [rx EXCEPT ![r] = [rx[r] EXCEPT !.changed = TRUE, !.pending_waker_id = None]]
    BY <1>4 DEF Changed, TypeOK, Receiver
  <2>2. bounds' \in [sends : Nat, asks : Nat, spurious : Nat]
    BY <1>4 DEF Changed, TypeOK
  <2>3. rx' \in [Receivers -> Receiver]
    BY <1>0, <2>1, ReceiverForms DEF TypeOK
  <2> QED BY <1>4, <2>2, <2>3 DEF Changed, TypeOK
<1>5. ASSUME NEW s \in Receivers, CloneReceiver(r, s) PROVE TypeOK'
  <2>1. rx' = [rx EXCEPT ![r] = [rx[r] EXCEPT !.alive = TRUE, !.version = rx[s].version]]
    BY <1>5 DEF CloneReceiver, TypeOK, Receiver
  <2>2. rx' \in [Receivers -> Receiver]
    BY <1>0, <2>1, ReceiverForms DEF TypeOK
  <2> QED BY <1>5, <2>2 DEF CloneReceiver, TypeOK
<1> QED BY <1>1, <1>2, <1>3, <1>4, <1>5

\* What is done to a receiver with no future touches no waker.
LEMMA HandleKeeps ==
    ASSUME IInv, NEW r \in Receivers,
           \/ NewReceiver(r) \/ DropReceiver(r) \/ Borrow(r) \/ Changed(r)
           \/ \E s \in Receivers : CloneReceiver(r, s)
    PROVE  IInv'
<1> USE WatchAssumption DEF IInv, NewReceiver, DropReceiver, Borrow, Changed, CloneReceiver, Idle, NoReceiver
<1>1. TypeOK'
  BY HandleTypes
<1>2. Futures'
  BY DEF Futures, TypeOK, State, Receiver, Opt
<1>3. OneId'
  BY DEF OneId, Futures, TypeOK, State, Receiver, Opt
<1>4. Versions' /\ Closed'
  BY DEF Versions, Closed, TypeOK, State, Receiver
<1>5. WakersOwned' /\ Fresh'
  BY DEF WakersOwned, Fresh, Futures, TypeOK, State, Waker, Receiver
<1>6. Waits' /\ NoLostWakeup'
  BY DEF Waits, NoLostWakeup, Futures, TypeOK, Receiver
<1> QED BY <1>1, <1>2, <1>3, <1>4, <1>5, <1>6

\* A future leaves with its waker: by DropChanged, or answered.
LEMMA LeavesKeeps ==
    ASSUME IInv, NEW r \in Receivers, rx[r].changed, NEW v \in Nat, v <= state.version,
           rx' = [rx EXCEPT ![r].changed = FALSE, ![r].pending_waker_id = None, ![r].version = v],
           state' = [state EXCEPT !.wakers = Without(@, rx[r].pending_waker_id)],
           runnable' \in SUBSET Receivers, runnable \ {r} \subseteq runnable',
           UNCHANGED sender, bounds' \in [sends : Nat, asks : Nat, spurious : Nat]
    PROVE  IInv'
<1> USE WatchAssumption DEF IInv
<1>1. TypeOK'
  <2>1. state' \in State
    BY DEF TypeOK, State, Without
  <2>2. rx' \in [Receivers -> Receiver]
    <3> DEFINE mine == [rx[r] EXCEPT !.changed = FALSE, !.pending_waker_id = None, !.version = v]
    <3>1. mine \in Receiver
      BY DEF TypeOK, Receiver, Opt
    <3>2. rx' = [rx EXCEPT ![r] = mine]
      BY DEF TypeOK, Receiver
    <3> QED BY <3>1, <3>2 DEF TypeOK
  <2> QED BY <2>1, <2>2 DEF TypeOK
<1>2. Futures' /\ OneId' /\ Versions' /\ Closed'
  BY DEF Futures, OneId, Versions, Closed, TypeOK, State, Receiver, Opt, Without
<1>3. \A w \in state.wakers : w \in state'.wakers <=> w.task # r
  BY DEF WakersOwned, OneId, TypeOK, State, Receiver, Waker, Opt, Without
<1>4. WakersOwned' /\ Fresh'
  BY <1>3 DEF WakersOwned, Fresh, TypeOK, State, Receiver, Waker, Without
<1>5. Waits' /\ NoLostWakeup'
  BY <1>3 DEF Waits, NoLostWakeup, TypeOK, State, Receiver, Waker
<1> QED BY <1>1, <1>2, <1>4, <1>5

\* A future waits under a new id, having found nothing new.
LEMMA RegisterKeeps ==
    ASSUME IInv, NEW r \in Receivers, rx[r].changed, Register(r),
           state.version = rx[r].version, ~state.closed,
           runnable' \in SUBSET Receivers, runnable \ {r} \subseteq runnable',
           UNCHANGED sender, bounds' \in [sends : Nat, asks : Nat, spurious : Nat]
    PROVE  IInv'
<1> USE WatchAssumption DEF IInv, Register
<1> DEFINE new == [id |-> state.next_waker_id + 1, task |-> r]
<1>0. new \in Waker
  BY DEF Waker, TypeOK, State
<1>1. TypeOK'
  <2>1. state' \in State
    <3>1. Without(state.wakers, rx[r].pending_waker_id) \cup {new} \in SUBSET Waker
      BY <1>0 DEF TypeOK, State, Without
    <3>2. state.next_waker_id + 1 \in Nat
      BY DEF TypeOK, State
    <3> QED BY <3>1, <3>2 DEF TypeOK, State
  <2>2. rx' \in [Receivers -> Receiver]
    BY DEF TypeOK, State, Receiver, Opt
  <2> QED BY <2>1, <2>2 DEF TypeOK
<1>2. Futures' /\ OneId' /\ Versions' /\ Closed'
  BY DEF Futures, OneId, Versions, Closed, TypeOK, State, Receiver, Opt
<1>3. \A w \in state.wakers : w \in Without(state.wakers, rx[r].pending_waker_id) <=> w.task # r
  BY DEF WakersOwned, OneId, TypeOK, State, Receiver, Waker, Opt, Without
<1>4. \A w \in state'.wakers : w = new \/ (w \in state.wakers /\ w.task # r)
  BY <1>3 DEF Without, TypeOK, State
<1>5. WakersOwned' /\ Fresh'
  BY <1>4 DEF WakersOwned, Fresh, TypeOK, State, Receiver, Waker
<1>6. new \in state'.wakers /\ \A w \in state.wakers : w.task # r => w \in state'.wakers
  BY <1>3 DEF TypeOK, State
<1>7. Waits'
  BY <1>6 DEF Waits, TypeOK, Receiver
<1>8. NoLostWakeup'
  BY DEF NoLostWakeup, TypeOK, State, Receiver
<1> QED BY <1>1, <1>2, <1>5, <1>7, <1>8

\* What a poll may do: answer with the news, answer with the sender's end, wait.
LEMMA PollKeeps ==
    ASSUME IInv, NEW r \in Receivers, rx[r].changed, Poll(r),
           runnable' \in SUBSET Receivers, runnable \ {r} \subseteq runnable',
           UNCHANGED sender, bounds' \in [sends : Nat, asks : Nat, spurious : Nat]
    PROVE  IInv'
<1>1. CASE state.version # rx[r].version
  <2>1. Without(state.wakers, rx[r].pending_waker_id) = state.wakers
    <3>1. \A w \in state.wakers : w.id # rx[r].pending_waker_id
      BY <1>1, WatchAssumption DEF IInv, Fresh, WakersOwned, OneId, TypeOK, State, Waker
    <3> QED BY <3>1 DEF Without
  <2>2. state' = [state EXCEPT !.wakers = Without(@, rx[r].pending_waker_id)]
    BY <1>1, <2>1 DEF Poll, IInv, TypeOK, State
  <2>3. state.version \in Nat /\ state.version <= state.version
    BY DEF IInv, TypeOK, State
  <2>4. rx' = [rx EXCEPT ![r].changed = FALSE, ![r].pending_waker_id = None, ![r].version = state.version]
    BY <1>1 DEF Poll
  <2> QED BY <2>2, <2>3, <2>4, LeavesKeeps
<1>2. CASE state.version = rx[r].version /\ state.closed
  <2>1. state' = [state EXCEPT !.wakers = Without(@, rx[r].pending_waker_id)]
    BY <1>2 DEF Poll
  <2>2. rx[r].version \in Nat /\ rx[r].version <= state.version
    BY DEF IInv, TypeOK, Receiver, Versions
  <2>3. rx' = [rx EXCEPT ![r].changed = FALSE, ![r].pending_waker_id = None, ![r].version = rx[r].version]
    BY <1>2 DEF Poll, IInv, TypeOK, Receiver
  <2> QED BY <2>1, <2>2, <2>3, LeavesKeeps
<1>3. CASE state.version = rx[r].version /\ ~state.closed
  <2>1. Register(r)
    BY <1>3 DEF Poll
  <2> QED BY <1>3, <2>1, RegisterKeeps
<1> QED BY <1>1, <1>2, <1>3

\* A task that runs polls its future, if it has one.
LEMMA TaskRunsKeeps == ASSUME IInv, NEW r \in Receivers, TaskRuns(r) PROVE IInv'
<1>1. runnable' \in SUBSET Receivers /\ runnable' = runnable \ {r}
  BY DEF TaskRuns, IInv, TypeOK
<1>2. UNCHANGED sender /\ bounds' \in [sends : Nat, asks : Nat, spurious : Nat]
  BY DEF TaskRuns, IInv, TypeOK
<1>3. CASE rx[r].changed
  <2>1. Poll(r)
    BY <1>3 DEF TaskRuns
  <2> QED BY <1>1, <1>2, <1>3, <2>1, PollKeeps
<1>4. CASE ~rx[r].changed
  <2>1. UNCHANGED <<state, rx>>
    BY <1>4 DEF TaskRuns
  <2> QED
    BY <1>1, <1>2, <1>4, <2>1
    DEF IInv, TypeOK, Futures, OneId, Waits, Versions, Closed, Fresh, WakersOwned, NoLostWakeup
<1> QED BY <1>3, <1>4

\* A poll that no waker asked for is a poll.
LEMMA SpuriousPollKeeps == ASSUME IInv, NEW r \in Receivers, SpuriousPoll(r) PROVE IInv'
<1>1. runnable' \in SUBSET Receivers /\ runnable' = runnable /\ UNCHANGED sender
  BY DEF SpuriousPoll, IInv, TypeOK
<1>2. bounds' \in [sends : Nat, asks : Nat, spurious : Nat]
  BY DEF SpuriousPoll, IInv, TypeOK
<1> QED BY <1>1, <1>2, PollKeeps DEF SpuriousPoll

\* A future cancelled leaves with its waker.
LEMMA DropChangedKeeps == ASSUME IInv, NEW r \in Receivers, DropChanged(r) PROVE IInv'
<1>1. rx[r].version \in Nat /\ rx[r].version <= state.version
  BY DEF IInv, TypeOK, Receiver, Versions
<1>2. rx' = [rx EXCEPT ![r].changed = FALSE, ![r].pending_waker_id = None, ![r].version = rx[r].version]
  BY DEF DropChanged, IInv, TypeOK, Receiver
<1>3. UNCHANGED sender /\ runnable' = runnable /\ runnable' \in SUBSET Receivers
      /\ bounds' \in [sends : Nat, asks : Nat, spurious : Nat]
  BY DEF DropChanged, IInv, TypeOK
<1> QED BY <1>1, <1>2, <1>3, LeavesKeeps DEF DropChanged

-----------------------------------------------------------------------------
(* The invariant *)

\* A new channel has no future.
LEMMA InitKeeps == Init => IInv
<1> SUFFICES ASSUME Init PROVE IInv
  OBVIOUS
<1>1. PICK r \in Receivers : rx = [s \in Receivers |-> [NoReceiver EXCEPT !.alive = (s = r)]]
  BY DEF Init
<1>2. \A s \in Receivers : /\ rx[s] \in Receiver
                           /\ ~rx[s].changed /\ rx[s].version = 0
                           /\ rx[s].pending_waker_id = None
  BY <1>1 DEF NoReceiver, Receiver, Opt
<1>3. rx \in [Receivers -> Receiver]
  BY <1>1, <1>2
<1>4. state \in State /\ state.wakers = {} /\ state.version = 0 /\ ~state.closed
  BY DEF Init, State
<1>5. TypeOK
  BY <1>3, <1>4 DEF Init, TypeOK
<1> QED
  BY <1>2, <1>4, <1>5
  DEF IInv, Futures, OneId, Waits, Versions, Closed, Fresh, WakersOwned, NoLostWakeup, Init

\* The strengthening that says where the waker of every future that waits is.
THEOREM Invariance == Spec => []IInv
<1>1. IInv /\ [Next]_vars => IInv'
  <2> SUFFICES ASSUME IInv, [Next]_vars PROVE IInv'
    OBVIOUS
  <2>1. CASE Send
    BY <2>1, SendKeeps
  <2>2. CASE SenderWakes
    BY <2>2, SenderWakesKeeps
  <2>3. CASE DropSender
    BY <2>3, DropSenderKeeps
  <2>4. ASSUME NEW r \in Receivers,
               \/ NewReceiver(r) \/ DropReceiver(r) \/ Borrow(r) \/ Changed(r)
               \/ \E s \in Receivers : CloneReceiver(r, s)
        PROVE  IInv'
    BY <2>4, HandleKeeps
  <2>5. ASSUME NEW r \in Receivers, TaskRuns(r) \/ SpuriousPoll(r) \/ DropChanged(r) PROVE IInv'
    BY <2>5, TaskRunsKeeps, SpuriousPollKeeps, DropChangedKeeps
  <2>6. CASE UNCHANGED vars
    BY <2>6 DEF vars, IInv, TypeOK, Futures, OneId, Waits, Versions, Closed, Fresh, WakersOwned,
                NoLostWakeup
  <2> QED BY <2>1, <2>2, <2>3, <2>4, <2>5, <2>6 DEF Next
<1> QED BY <1>1, InitKeeps, PTL DEF Spec

\* No send, and no drop of the sender, is missed by a receiver that waits,
\* however polls, wakes and cancellations fall between them (Changed::poll).
THEOREM NoWakeupIsLost == Spec => []NoLostWakeup
<1>1. IInv => NoLostWakeup
  BY DEF IInv
<1> QED BY <1>1, Invariance, PTL

\* The channel's fields keep their types.
THEOREM TypeCorrect == Spec => []TypeOK
<1>1. IInv => TypeOK
  BY DEF IInv
<1> QED BY <1>1, Invariance, PTL

\* Every waker in the channel is one of a future that waits, and of one alone.
THEOREM NoWakerIsLeft == Spec => []WakersOwned
<1>1. IInv => WakersOwned
  BY DEF IInv
<1> QED BY <1>1, Invariance, PTL

-----------------------------------------------------------------------------
(* The refinement *)

\* The promise's variables, as WatchChannel gives them.
Live == {r \in Receivers : rx[r].alive}
News == {r \in Receivers : rx[r].alive /\ rx[r].version # state.version}
Asking == {r \in Receivers : rx[r].changed}

\* A new channel is the promise's.
LEMMA InitImplements == Init => Promise!Init
<1> SUFFICES ASSUME Init PROVE Promise!Init
  OBVIOUS
<1>1. PICK r \in Receivers : rx = [s \in Receivers |-> [NoReceiver EXCEPT !.alive = (s = r)]]
  BY DEF Init
<1>2. \A s \in Receivers : /\ rx[s].alive <=> s = r
                           /\ ~rx[s].changed /\ rx[s].version = 0
  BY <1>1 DEF NoReceiver
<1>3. Live = {r} /\ News = {} /\ Asking = {}
  BY <1>2 DEF Live, News, Asking, Init
<1> QED BY <1>3 DEF Promise!Init, Live, News, Asking, Init

\* send is Publish, with receivers or without.
LEMMA SendImplements == ASSUME IInv, Send PROVE Promise!Publish
<1> USE DEF IInv, Send, Publish, Replace
<1>1. UNCHANGED rx /\ sender'.alive = sender.alive /\ sender.alive
  BY DEF TypeOK
<1>2. state'.value = state.value + 1
  BY DEF TypeOK, State
<1>3. News' = Live
  <2>1. CASE \E r \in Receivers : rx[r].alive
    <3>1. state'.version = state.version + 1
      BY <2>1 DEF TypeOK, State
    <3>2. \A r \in Receivers : rx[r].version # state'.version
      BY <3>1 DEF Versions, TypeOK, State, Receiver
    <3> QED BY <1>1, <3>2 DEF News, Live
  <2>2. CASE ~ \E r \in Receivers : rx[r].alive
    BY <1>1, <2>2 DEF News, Live
  <2> QED BY <2>1, <2>2
<1> QED BY <1>1, <1>2, <1>3 DEF Promise!Publish, News, Live

\* Receivers come, look, ask and go as promised.
LEMMA HandleImplements ==
    ASSUME IInv, NEW r \in Receivers
    PROVE  /\ NewReceiver(r) => Promise!Join(r)
           /\ \A s \in Receivers : CloneReceiver(r, s) => Promise!Join(r)
           /\ DropReceiver(r) => Promise!Leave(r)
           /\ Borrow(r) => Promise!Look(r)
           /\ Changed(r) => Promise!Ask(r)
<1>0. rx \in [Receivers -> Receiver] /\ \A s \in Receivers : rx[s].changed => rx[s].alive
  BY DEF IInv, TypeOK, Futures
<1> USE <1>0 DEF Receiver
<1>1. ASSUME NewReceiver(r) PROVE Promise!Join(r)
  <2>1. Live' = Live \cup {r} /\ News' = News /\ Asking' = Asking /\ r \notin Live
    BY <1>1 DEF NewReceiver, Live, News, Asking
  <2> QED BY <1>1, <2>1 DEF NewReceiver, Promise!Join, Live, News, Asking
<1>2. ASSUME NEW s \in Receivers, CloneReceiver(r, s) PROVE Promise!Join(r)
  <2>1. Live' = Live \cup {r} /\ Asking' = Asking /\ r \notin Live /\ s \in Live \ Asking
    BY <1>2 DEF CloneReceiver, Idle, Live, Asking
  <2>2. News' = IF s \in News THEN News \cup {r} ELSE News
    BY <1>2 DEF CloneReceiver, Idle, News
  <2> QED BY <1>2, <2>1, <2>2 DEF CloneReceiver, Promise!Join, Live, News, Asking
<1>3. ASSUME DropReceiver(r) PROVE Promise!Leave(r)
  <2>1. Live' = Live \ {r} /\ News' = News \ {r} /\ Asking' = Asking /\ r \in Live \ Asking
    BY <1>3 DEF DropReceiver, Idle, NoReceiver, Live, News, Asking
  <2> QED BY <1>3, <2>1 DEF DropReceiver, Promise!Leave, Live, News, Asking
<1>4. ASSUME Borrow(r) PROVE Promise!Look(r)
  <2>1. Live' = Live /\ News' = News \ {r} /\ Asking' = Asking /\ r \in Live \ Asking
    BY <1>4 DEF Borrow, Idle, Live, News, Asking
  <2> QED BY <1>4, <2>1 DEF Borrow, Promise!Look, Live, News, Asking
<1>5. ASSUME Changed(r) PROVE Promise!Ask(r)
  <2>1. Live' = Live /\ News' = News /\ Asking' = Asking \cup {r} /\ r \in Live \ Asking
    BY <1>5 DEF Changed, Idle, Live, News, Asking
  <2> QED BY <1>5, <2>1 DEF Changed, Promise!Ask, Live, News, Asking
<1> QED BY <1>1, <1>2, <1>3, <1>4, <1>5

\* A poll answers, or changes nothing that the promise is about.
LEMMA PollImplements ==
    ASSUME IInv, NEW r \in Receivers, rx[r].changed, Poll(r), UNCHANGED sender
    PROVE  Promise!Answer(r) \/ UNCHANGED Promise!vars
<1>0. /\ rx \in [Receivers -> Receiver] /\ state \in State
      /\ rx[r].alive /\ (state.closed <=> ~sender.alive)
  BY DEF IInv, TypeOK, Futures, Closed
<1> USE <1>0 DEF Receiver, State
<1>1. CASE state.version # rx[r].version \/ state.closed
  <2>1. state'.value = state.value /\ state'.version = state.version
    BY <1>1 DEF Poll
  <2>2. Live' = Live /\ Asking' = Asking \ {r} /\ r \in Asking
    BY <1>1 DEF Poll, Live, Asking
  <2>3. News' = News \ {r}
    BY <1>1, <2>1 DEF Poll, News
  <2>4. r \in News \/ ~sender.alive
    BY <1>1 DEF News
  <2> QED BY <2>1, <2>2, <2>3, <2>4 DEF Promise!Answer, Live, News, Asking
<1>2. CASE state.version = rx[r].version /\ ~state.closed
  <2>1. Register(r)
    BY <1>2 DEF Poll
  <2>2. state'.value = state.value /\ state'.version = state.version
    BY <2>1 DEF Register
  <2>3. Live' = Live /\ Asking' = Asking /\ News' = News
    BY <2>1, <2>2 DEF Register, Live, Asking, News
  <2> QED BY <2>2, <2>3 DEF Promise!vars, Live, News, Asking
<1> QED BY <1>1, <1>2

\* A future dropped is one who gave up.
LEMMA DropChangedImplements ==
    ASSUME IInv, NEW r \in Receivers, DropChanged(r)
    PROVE  Promise!Cancel(r)
<1>0. rx \in [Receivers -> Receiver] /\ state \in State
  BY DEF IInv, TypeOK
<1> USE <1>0 DEF Receiver, State
<1>1. state'.value = state.value /\ state'.version = state.version
  BY DEF DropChanged
<1>2. Live' = Live /\ News' = News /\ Asking' = Asking \ {r} /\ r \in Asking
  BY <1>1 DEF DropChanged, Live, News, Asking
<1> QED BY <1>1, <1>2 DEF DropChanged, Promise!Cancel, Live, News, Asking

\* The channel does nothing that its promise does not allow: a receiver is told
\* of a change only when there is one it did not see, and of the end only when
\* the sender is gone.
THEOREM Refinement == Spec => Promise!Spec
<1>1. IInv /\ [Next]_vars => [Promise!Next]_(Promise!vars)
  <2> SUFFICES ASSUME IInv, [Next]_vars PROVE Promise!Next \/ UNCHANGED Promise!vars
    OBVIOUS
  <2>1. CASE Send
    BY <2>1, SendImplements DEF Promise!Next
  <2>2. CASE SenderWakes
    BY <2>2 DEF SenderWakes, Promise!vars, IInv, TypeOK
  <2>3. CASE DropSender
    <3>1. Promise!Close
      BY <2>3 DEF DropSender, Promise!Close, IInv, TypeOK, State
    <3> QED BY <3>1 DEF Promise!Next
  <2>4. ASSUME NEW r \in Receivers,
               \/ NewReceiver(r) \/ DropReceiver(r) \/ Borrow(r) \/ Changed(r)
               \/ \E s \in Receivers : CloneReceiver(r, s)
        PROVE  Promise!Next
    BY <2>4, HandleImplements DEF Promise!Next
  <2>5. ASSUME NEW r \in Receivers, TaskRuns(r) PROVE Promise!Next \/ UNCHANGED Promise!vars
    <3>1. CASE rx[r].changed
      BY <2>5, <3>1, PollImplements DEF TaskRuns, Promise!Next
    <3>2. CASE ~rx[r].changed
      BY <2>5, <3>2 DEF TaskRuns, Promise!vars
    <3> QED BY <3>1, <3>2
  <2>6. ASSUME NEW r \in Receivers, SpuriousPoll(r) PROVE Promise!Next \/ UNCHANGED Promise!vars
    BY <2>6, PollImplements DEF SpuriousPoll, Promise!Next
  <2>7. ASSUME NEW r \in Receivers, DropChanged(r) PROVE Promise!Next
    BY <2>7, DropChangedImplements DEF Promise!Next
  <2>8. CASE UNCHANGED vars
    BY <2>8 DEF vars, Promise!vars
  <2> QED BY <2>1, <2>2, <2>3, <2>4, <2>5, <2>6, <2>7, <2>8 DEF Next
<1> QED BY <1>1, InitImplements, Invariance, PTL DEF Spec, Promise!Spec
===============================================================================
