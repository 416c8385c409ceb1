--------------------------- MODULE RetryProperties ---------------------------
(***************************************************************************)
(* What makes BRURetry correct: invariants, action properties and liveness *)
(* of the module BRURetry.                                                 *)
(***************************************************************************)
EXTENDS BRURetry, Sequences

\* The types of everything but the promises' variables.
RetryTypeOK ==
    /\ state \in {"Idle", "Delay", "ActiveWaiting", "ActiveCancelling"}
    /\ timer \in Runs \cup {Nil}
    /\ attempt \in 0..MaxRuns
    /\ currentDelay \in {0, Delay} \cup PolicyDelays
    /\ identifier \in Callers \cup {Nil}
    /\ deferred \in Callers \cup {Nil}
    /\ released \in BOOLEAN
    /\ at \in [Runs -> Stages]
    /\ outcome \in [Runs -> {"none", "success", "transient", "final"}]
    /\ offered \in [Runs -> {0, Delay} \cup PolicyDelays]
    /\ chosen \in [Runs -> {0, Delay} \cup PolicyDelays]
    /\ response \in [Runs -> {"none", "retry", "stop"}]
    /\ timerAt \in [Runs -> TimerStages]
    /\ timerRunning \in [Runs -> BOOLEAN]
    /\ suspending \in [Runs -> BOOLEAN]
    /\ firing \in [Runs -> BOOLEAN]
    /\ pc \in [Callers -> {"idle", "returning", "started"}]
    /\ ret \in [Callers -> Callers \cup {Nil}]
    /\ joined \in [Callers -> Callers \cup {Nil}]
    /\ cancelled \in SUBSET Callers

TypeOK ==
    /\ RetryTypeOK
    /\ D!PromiseTypeOK
    /\ aborted \in {"no", "startNil", "timerCallback", "checkInvariants",
                    "alreadyScheduled", "doubleResolve"}

\* The runs that were begun and are not over.
Unfinished == { r \in Runs : at[r] \notin {"none", "done"} }

\* checkInvariants, "already scheduled" and the promise's "attempt to resolve a
\* resolved promise" never stop the process (BRURetry.m:175-202, 208;
\* BRUDeferred.m:93); the two assertions left are the two findings.
OnlyKnownAborts == aborted \in {"no", "startNil", "timerCallback"}

\* At any moment at most one run is under way, the current attempt of the current
\* operation, and it waits for its timer exactly in the Delay state: no stale
\* continuation, policy answer or timer of an ended operation drives the
\* fields of a new one (BRURetry.m:204-240, 366-467).
OneRunUnderWay ==
    /\ state = "Idle" => Unfinished = {}
    /\ state # "Idle" => Unfinished = { << identifier, attempt >> }
    /\ \A r \in Unfinished : at[r] = "delayed" <=> state = "Delay"

\* The result of an operation: resolved already, or on the promise's queue.
Settlements(o) ==
    { v \in Results : promiseValue[o] = << v >>
                      \/ \E i \in 1..Len(promiseQueue[o]) :
                             promiseQueue[o][i] = D!ResolveCall(v) }
LastRun(o) ==
    CHOOSE r \in Runs :
        /\ Operation(r) = o /\ at[r] # "none"
        /\ \A s \in Runs : Operation(s) = o /\ at[s] # "none" => Attempt(s) <= Attempt(r)

\* The result of an operation is the truth about its last attempt: success only
\* if that succeeded, cancelled only if an accepted cancel was not undone and
\* it did not succeed, failure only if it failed for good or the policy gave up,
\* and an accepted cancel never ends in a plain failure (BRURetry.m:366-403).
ResultIsOfLastRun ==
    \A o \in Callers : \A v \in Settlements(o) :
        LET r == LastRun(o)
        IN  /\ v = "success" <=> outcome[r] = "success"
            /\ v = "cancelled" => o \in cancelled
            /\ v = "failure" => /\ o \notin cancelled
                                /\ outcome[r] = "final" \/ response[r] = "stop"

\* The action is attempted again only after a transient failure for which the
\* policy, asked once, said so (BRURetry.m:436-460).
RetriesOnlyAfterPolicy ==
    \A r \in Runs :
        at[r] # "none" /\ Attempt(r) > 1 =>
            LET before == << Operation(r), Attempt(r) - 1 >>
            IN  /\ at[before] = "done"
                /\ outcome[before] = "transient"
                /\ response[before] = "retry"

\* No further attempt begins once a cancel of the operation was accepted and not
\* undone, not even one a timer or a policy answer had set up (BRURetry.m:321-350).
NoAttemptAfterCancel ==
    [][\A r \in Runs : at[r] = "none" /\ at'[r] = "queued" =>
                           Operation(r) \notin cancelled']_vars

\* An attempt of another operation has begun: before r, while r is under way.
AfterAnother(r) == \E s \in Runs : Operation(s) # Operation(r) /\ at[s] # "none"

\* A policy block is handed the delay that the attempt before it chose, and what one
\* operation chose does not leak into the next, however that one ended: it begins
\* anew with the delay of the construction (BRURetry.m:336, 388, 394, 439).
DelayHandedOn ==
    \A r \in Runs :
        at[r] \in {"policy", "decided", "delayed"} =>
            /\ Attempt(r) > 1 => offered[r] = chosen[<< Operation(r), Attempt(r) - 1 >>]
            /\ Attempt(r) = 1 /\ AfterAnother(r) => offered[r] = Delay

\* An accepted cancel settles the operation, unless a later start undoes it or
\* nobody is left who would know (BRURetry.m:321-350, 376-391).
CancelSettles ==
    \A o \in Callers :
        o \in cancelled ~> (o \notin cancelled \/ Settlements(o) # {}
                            \/ aborted # "no" \/ released)

R == INSTANCE RetryOperation WITH
        current <- identifier,
        result <- [o \in Callers |-> Settlements(o)],
        heard <- calls,
        crashed <- (aborted # "no")

\* Attempts, policy, timers, promises and queues together do what the client of
\* a BRURetry is told, step by step and eventually (BRURetry.m:204-467).
ImplementsOperation == R!Spec

---------------------------------------------------------------------------
(* What the documentation says and the code does not do.                   *)

\* "Identifier associated with the new (or current) retry attempt" is what start
\* returns (BRURetry.h:258-263): it never stops the process for want of one.
StartReturnsIdentifier == aborted # "startNil"

\* "Calls to cancel are ignored if ..." (BRURetry.h:268-273): cancelling is safe,
\* and a cancelled operation's timer does not reach "Unexpected callback"
\* (BRURetry.m:222).
CancelIsSafe == aborted # "timerCallback"

\* "In the first run delay is initialized to the delay the class was constructed with"
\* (BRURetry.h:75): of every operation, the first of a BRURetry included.
FirstDelayIsConstructed ==
    \A r \in Runs :
        at[r] \in {"policy", "decided", "delayed"} /\ Attempt(r) = 1 => offered[r] = Delay
==============================================================================
