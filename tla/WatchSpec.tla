------------------------------ MODULE WatchSpec ------------------------------
(***************************************************************************)
(* What a watch channel (crates/watch/src/watch.rs) promises, without its  *)
(* versions, wakers and tasks: a receiver that asks `changed` is answered  *)
(* once a value was sent since it last looked, or once the sender is gone, *)
(* and never for another reason.                                           *)
(***************************************************************************)
EXTENDS Naturals

CONSTANT Receivers

VARIABLES
    value,   \* the value, by the number of its sending
    live,    \* the receivers there are
    news,    \* those that did not look since the last value was sent
    asking,  \* those whose `changed` is under way
    open     \* the sender is there

vars == <<value, live, news, asking, open>>

Init ==
    /\ value = 0
    /\ \E r \in Receivers : live = {r}
    /\ news = {} /\ asking = {} /\ open = TRUE

Publish ==
    /\ open
    /\ value' = value + 1 /\ news' = live
    /\ UNCHANGED <<live, asking, open>>

Close == open /\ open' = FALSE /\ UNCHANGED <<value, live, news, asking>>

\* A receiver made from the sender knows the value; a copy of a receiver knows
\* what that one knows.
Join(r) ==
    /\ r \notin live
    /\ live' = live \cup {r}
    /\ \/ open /\ UNCHANGED news
       \/ \E s \in live \ asking : news' = IF s \in news THEN news \cup {r} ELSE news
    /\ UNCHANGED <<value, asking, open>>

Leave(r) ==
    /\ r \in live \ asking
    /\ live' = live \ {r} /\ news' = news \ {r}
    /\ UNCHANGED <<value, asking, open>>

Look(r) ==
    /\ r \in live \ asking
    /\ news' = news \ {r}
    /\ UNCHANGED <<value, live, asking, open>>

Ask(r) ==
    /\ r \in live \ asking
    /\ asking' = asking \cup {r}
    /\ UNCHANGED <<value, live, news, open>>

\* The one who asked gave up.
Cancel(r) ==
    /\ r \in asking
    /\ asking' = asking \ {r}
    /\ UNCHANGED <<value, live, news, open>>

\* The answer is Ok when there is news, the sender's end only when there is none.
Answer(r) ==
    /\ r \in asking
    /\ r \in news \/ ~open
    /\ asking' = asking \ {r} /\ news' = news \ {r}
    /\ UNCHANGED <<value, live, open>>

Next ==
    \/ Publish \/ Close
    \/ \E r \in Receivers : Join(r) \/ Leave(r) \/ Look(r) \/ Ask(r) \/ Cancel(r) \/ Answer(r)

Spec == Init /\ [][Next]_vars

\* What can be answered is.
FairSpec == Spec /\ \A r \in Receivers : WF_vars(Answer(r))
=============================================================================
