------------------------------ MODULE BRUPromise ------------------------------
(***************************************************************************)
(* What the BRUPromise protocol (src/BromiumCoreUtils/BRUDeferred.h)       *)
(* promises its clients, with no queue in sight: a promise is settled at   *)
(* most once; a block registered before or after that is called once, with *)
(* the value the promise was settled with, and every registered block of a *)
(* settled promise is called eventually, unless the process died.          *)
(***************************************************************************)
EXTENDS Sequences, Naturals

CONSTANTS Deferreds, Blocks, Values

VARIABLES
    registered,  \* [Blocks -> the promises the block waits for: none or one]
    outcome,     \* [Deferreds -> << >> while pending, << v >> once settled]
    received,    \* [Blocks -> the values the block was called with]
    crashed      \* the process was stopped by an assertion

vars == << registered, outcome, received, crashed >>

Init ==
    /\ registered = [b \in Blocks |-> {}]
    /\ outcome = [d \in Deferreds |-> << >>]
    /\ received = [b \in Blocks |-> << >>]
    /\ crashed = FALSE

Register(d, b) ==
    /\ registered[b] = {}
    /\ registered' = [registered EXCEPT ![b] = {d}]
    /\ UNCHANGED << outcome, received, crashed >>

Settle(d, v) ==
    /\ outcome[d] = << >>
    /\ outcome' = [outcome EXCEPT ![d] = << v >>]
    /\ UNCHANGED << registered, received, crashed >>

Deliver(b) ==
    /\ received[b] = << >>
    /\ \E d \in registered[b] :
          /\ outcome[d] # << >>
          /\ received' = [received EXCEPT ![b] = << outcome[d] >>]
    /\ UNCHANGED << registered, outcome, crashed >>

Crash ==
    /\ crashed' = TRUE
    /\ UNCHANGED << registered, outcome, received >>

Next ==
    /\ ~crashed
    /\ \/ \E d \in Deferreds, b \in Blocks : Register(d, b)
       \/ \E d \in Deferreds, v \in Values : Settle(d, v)
       \/ \E b \in Blocks : Deliver(b)
       \/ Crash

\* What may happen, and what must: the delivery of what is settled.
Safety == Init /\ [][Next]_vars

Spec == Safety /\ \A b \in Blocks : WF_vars(~crashed /\ Deliver(b))
==============================================================================
