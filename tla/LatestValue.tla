------------------------------ MODULE LatestValue ------------------------------
(***************************************************************************)
(* What a BRURateLimiter is for: a mailbox that keeps the latest result    *)
(* only and hands results over in the order they were set, one at a time;  *)
(* the latest result is handed over as soon as the client is not busy.     *)
(***************************************************************************)
EXTENDS Sequences

CONSTANTS Results, Nil

VARIABLES
    set,       \* the results set so far
    latest,    \* the result not handed over yet, or Nil
    busy,      \* the result the client works on, or Nil
    received,  \* the results handed over, in order
    closed     \* nobody uses the mailbox any more

vars == << set, latest, busy, received, closed >>

Init == set = {} /\ latest = Nil /\ busy = Nil /\ received = << >> /\ closed = FALSE

\* A result replaces one that was not handed over.
Set(r) ==
    /\ r \notin set
    /\ set' = set \cup {r}
    /\ latest' = r
    /\ UNCHANGED << busy, received, closed >>

HandOver ==
    /\ latest # Nil
    /\ busy = Nil
    /\ latest' = Nil
    /\ busy' = latest
    /\ received' = Append(received, latest)
    /\ UNCHANGED << set, closed >>

Finish == busy # Nil /\ busy' = Nil /\ UNCHANGED << set, latest, received, closed >>

Close == ~closed /\ closed' = TRUE /\ UNCHANGED << set, latest, busy, received >>

Next == (\E r \in Results : Set(r)) \/ HandOver \/ Finish \/ Close

\* What may happen at all.
Safety == Init /\ [][Next]_vars

Spec == Safety /\ WF_vars(~closed /\ HandOver)
==============================================================================
