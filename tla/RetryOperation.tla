---------------------------- MODULE RetryOperation ----------------------------
(***************************************************************************)
(* What BRURetry promises its clients (src/BromiumCoreUtils/BRURetry.h:    *)
(* 91-277), without attempts, policies, timers or queues: one operation at *)
(* a time; a start begins one or joins the one in progress, and undoes a   *)
(* cancel; an operation ends once, as cancelled only if it was; a          *)
(* completion block hears the result of the operation it joined, once.     *)
(***************************************************************************)
EXTENDS Sequences

CONSTANTS Callers, Listening, Nil

VARIABLES
    current,    \* the operation in progress, or Nil
    joined,     \* [Callers -> the operation whose result the caller waits for]
    cancelled,  \* operations whose cancel was accepted and not undone
    result,     \* [Callers -> the results of the operation: none or one]
    heard,      \* [Callers -> the results its completion block was called with]
    crashed     \* an assertion stopped the process

vars == << current, joined, cancelled, result, heard, crashed >>

Init ==
    /\ current = Nil
    /\ joined = [c \in Callers |-> Nil]
    /\ cancelled = {}
    /\ result = [o \in Callers |-> {}]
    /\ heard = [c \in Callers |-> << >>]
    /\ crashed = FALSE

\* The caller c begins an operation or joins the current one.
Start(c) ==
    /\ current' = IF current = Nil THEN c ELSE current
    /\ joined[c] = Nil
    /\ joined' = IF c \in Listening THEN [joined EXCEPT ![c] = current'] ELSE joined
    /\ cancelled' = cancelled \ {current'}
    /\ UNCHANGED << result, heard, crashed >>

End(v) ==
    /\ result[current] = {}
    /\ result' = [result EXCEPT ![current] = {v}]
    /\ current' = Nil

\* Only the operation in progress can be cancelled, at once or when it can.
Cancel ==
    /\ current # Nil
    /\ current \notin cancelled
    /\ cancelled' = cancelled \cup {current}
    /\ UNCHANGED << current, result >> \/ End("cancelled")
    /\ UNCHANGED << joined, heard, crashed >>

Settle ==
    /\ current # Nil
    /\ End("success") \/ End(IF current \in cancelled THEN "cancelled" ELSE "failure")
    /\ UNCHANGED << joined, cancelled, heard, crashed >>

Hear(c) ==
    /\ joined[c] # Nil
    /\ heard[c] = << >>
    /\ \E v \in result[joined[c]] : heard' = [heard EXCEPT ![c] = << << v >> >>]
    /\ UNCHANGED << current, joined, cancelled, result, crashed >>

Crash ==
    /\ crashed' = TRUE
    /\ UNCHANGED << current, joined, cancelled, result, heard >>

Next ==
    /\ ~crashed
    /\ \/ \E c \in Callers : Start(c) \/ Hear(c)
       \/ Cancel
       \/ Settle
       \/ Crash

\* An operation somebody listens to ends, and everybody who listened hears.
Fairness ==
    /\ WF_vars(~crashed /\ (\E c \in Callers : joined[c] = current) /\ Settle)
    /\ \A c \in Callers : WF_vars(~crashed /\ Hear(c))

\* What may happen, without what must.
Safety == Init /\ [][Next]_vars

Spec == Safety /\ Fairness
==============================================================================
