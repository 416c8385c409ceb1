------------------------------- MODULE BRURetry -------------------------------
(***************************************************************************)
(* BRURetry (src/BromiumCoreUtils/BRURetry.m) with the one-shot BRUTimers  *)
(* and the BRUDeferreds it uses.  A retry operation runs the client's      *)
(* action block, asks the client's policy block after a transient failure, *)
(* waits, and runs the action again, until it ends; it may be joined by    *)
(* more callers and be cancelled meanwhile.                                *)
(*                                                                         *)
(* Every field of BRURetry is read and written on its serial syncQueue, so *)
(* an action below is the whole of one block run there.  startWith... and  *)
(* cancel: use dispatch_sync: their block may run between any two others,  *)
(* since a caller may have been waiting for the queue all along.           *)
(*                                                                         *)
(* Names: each of Callers makes one call of startWithCompletionBlock:.  An *)
(* operation is named by the caller whose call began it; that name stands  *)
(* for its fresh NSUUID and for its BRUDeferred.  Run <<o, n>> is attempt  *)
(* n of operation o, and also the timer scheduled after that attempt.      *)
(***************************************************************************)
EXTENDS Naturals, FiniteSets

CONSTANTS
    Callers,       \* the calls of startWithCompletionBlock:
    Listening,     \* those that pass a completion block
    MaxRetries,    \* the argument of BRURetryPolicyBlockWithMaxRetries
    Delay,         \* the delay BRURetry was constructed with
    PolicyDelays,  \* what a policy block may set its delay argument to
    Nil            \* nil

ASSUME RetryAssumption ==
    /\ Nil \notin Callers
    /\ Listening \subseteq Callers
    /\ MaxRetries \in Nat
    /\ Delay \in Nat
    /\ PolicyDelays \subseteq Nat

\* The attempts such a policy can let an operation have: the first one always
\* happens.
MaxRuns == IF MaxRetries = 0 THEN 1 ELSE MaxRetries
Runs == Callers \X (1..MaxRuns)
Operation(r) == r[1]
Attempt(r) == r[2]

ASSUME NilIsNoRun == Nil \notin Runs

Results == {"success", "failure", "cancelled"}

VARIABLES
    \* The properties of BRURetry, synchronized on syncQueue.
    state,         \* "Idle", "Delay", "ActiveWaiting" or "ActiveCancelling"
    timer,         \* the run whose timer is held, or Nil
    attempt,
    currentDelay,
    identifier,    \* the operation in progress, or Nil
    deferred,      \* the operation whose promise is held, or Nil
    released,      \* the clients dropped their references to the BRURetry
    \* The blocks of a run, in the order they are dispatched and called.
    at,            \* [Runs -> Stages]
    outcome,       \* [Runs -> what the continuation block was called with]
    offered,       \* [Runs -> *delay when the policy block is called]
    chosen,        \* [Runs -> *delay when the policy block has returned]
    response,      \* [Runs -> the policy block's answer]
    \* The timer scheduled after a run.
    timerAt,       \* [Runs -> TimerStages]
    timerRunning,  \* [Runs -> BRUTimer's `running']
    suspending,    \* [Runs -> the barrier block of `suspend' is dispatched]
    firing,        \* [Runs -> the block on the global queue holds the timer]
    \* The callers.
    pc,            \* [Callers -> "idle", "returning" or "started"]
    ret,           \* [Callers -> the identifier startWith... returns]
    \* History.
    joined,        \* [Callers -> the operation whose promise got the then block]
    cancelled,     \* operations with an accepted cancel no later start undid
    \* The promises (module BRUDeferred) and the fate of the process.
    promiseQueue, promiseState, promiseValue, thenBlocks, completionQueue, calls,
    aborted        \* "no", or the assertion that stopped the process

D == INSTANCE BRUDeferred WITH
        Deferreds <- Callers, Blocks <- Callers, Values <- Results, Serial <- Callers,
        syncQueue <- promiseQueue, state <- promiseState, value <- promiseValue

fields == << state, timer, attempt, currentDelay, identifier, deferred >>
runVars == << at, outcome, offered, chosen, response >>
timerVars == << timerAt, timerRunning, suspending, firing >>
callerVars == << released, pc, ret, joined >>
promiseVars ==
    << promiseQueue, promiseState, promiseValue, thenBlocks, completionQueue, calls >>
vars == << fields, runVars, timerVars, callerVars, cancelled, promiseVars, aborted >>

\* none: not begun. queued: action block dispatched. running: it was called and
\* the continuation was not. reported: the continuation's block is dispatched.
\* policy, decided: the policy block is dispatched, or its answer is. delayed: a
\* timer was scheduled. done: over. dropped: self was gone when it mattered.
Stages == {"none", "queued", "running", "reported", "policy", "decided",
           "delayed", "done", "dropped"}
\* armed: dispatch_after pending. accepted: the block for the global queue is
\* dispatched. posted: the block for the target queue is. gone: nothing left.
TimerStages == {"none", "armed", "accepted", "posted", "gone"}

Init ==
    /\ state = "Idle" /\ timer = Nil /\ attempt = 0
    /\ currentDelay = 0       \* the initialiser does not set it
    /\ identifier = Nil /\ deferred = Nil /\ released = FALSE
    /\ at = [r \in Runs |-> "none"]
    /\ outcome = [r \in Runs |-> "none"]
    /\ offered = [r \in Runs |-> 0]
    /\ chosen = [r \in Runs |-> 0]
    /\ response = [r \in Runs |-> "none"]
    /\ timerAt = [r \in Runs |-> "none"]
    /\ timerRunning = [r \in Runs |-> FALSE]
    /\ suspending = [r \in Runs |-> FALSE]
    /\ firing = [r \in Runs |-> FALSE]
    /\ pc = [c \in Callers |-> "idle"]
    /\ ret = [c \in Callers |-> Nil]
    /\ joined = [c \in Callers |-> Nil]
    /\ cancelled = {}
    /\ D!InitPromises
    /\ aborted = "no"

---------------------------------------------------------------------------
(* Who keeps the objects alive.                                            *)

\* Mutation: the then blocks hold the BRURetry weakly, as they seem to mean to.
RetryAlive_WeakThen ==
    \/ ~released
    \/ \E r \in Runs : at[r] \in {"queued", "policy", "decided"}

\* A then block names self.targetQueue before it strongifies, so from its
\* registration until it was called it holds the BRURetry; so do the dispatched
\* action block, policy block and the policy's answer.
RetryAlive ==
    \/ ~released
    \/ \E r \in Runs : at[r] \in {"queued", "policy", "decided"}
    \/ \E c \in Callers : joined[c] # Nil /\ calls[c] = << >>

\* The property of a living BRURetry, suspend's block and the global block while
\* it runs are what holds a timer; its other blocks only have weak references.
TimerAlive(r) == (timer = r /\ RetryAlive) \/ suspending[r] \/ firing[r]

\* The clients let go of the BRURetry; a call in progress holds it.
Release ==
    /\ aborted = "no"
    /\ ~released
    /\ \A c \in Callers : pc[c] # "returning"
    /\ released' = TRUE
    /\ UNCHANGED << fields, runVars, timerVars, pc, ret, joined, cancelled,
                    promiseVars, aborted >>

---------------------------------------------------------------------------
(* Pieces of the blocks run on syncQueue.                                  *)

\* The condition checkInvariants asserts.
Consistent ==
    \/ /\ state = "Idle" /\ timer = Nil /\ attempt = 0 /\ identifier = Nil
       /\ currentDelay = Delay /\ deferred = Nil
    \/ /\ state = "Delay" /\ timer # Nil /\ attempt > 0 /\ identifier # Nil
       /\ deferred # Nil
    \/ /\ state \in {"ActiveWaiting", "ActiveCancelling"}
       /\ timer = Nil /\ attempt > 0 /\ identifier # Nil /\ deferred # Nil

CheckInvariants == aborted' = IF Consistent' THEN "no" ELSE "checkInvariants"

\* performAction: both callers have just set the state it asserts.
PerformAction(stages) ==
    /\ attempt' = attempt + 1
    /\ at' = [stages EXCEPT ![<< identifier', attempt + 1 >>] = "queued"]

\* Mutation: the attempts are not counted anew.
BackToIdle_KeepsAttempt ==
    /\ state' = "Idle"
    /\ identifier' = Nil
    /\ UNCHANGED attempt
    /\ currentDelay' = Delay
    /\ deferred' = Nil

\* The fields of an operation that has ended.
BackToIdle ==
    /\ state' = "Idle"
    /\ identifier' = Nil
    /\ attempt' = 0
    /\ currentDelay' = Delay
    /\ deferred' = Nil

ResolveDeferred(result) ==
    IF deferred = Nil THEN UNCHANGED promiseVars ELSE D!Resolve(deferred, result)

---------------------------------------------------------------------------
(* startWithCompletionBlock:                                               *)

BeginOperation(c) ==
    /\ state = "Idle"
    /\ deferred' = c
    /\ identifier' = c
    /\ state' = "ActiveWaiting"
    /\ PerformAction(at)
    /\ ret' = [ret EXCEPT ![c] = c]
    /\ UNCHANGED cancelled

\* Already running: nothing to do, and no identifier to return.
JoinOperation(c) ==
    /\ state \in {"Delay", "ActiveWaiting"}
    /\ UNCHANGED << state, attempt, identifier, deferred, at, ret, cancelled >>

\* Running but cancelling: restore the operation.
RestoreOperation(c) ==
    /\ state = "ActiveCancelling"
    /\ state' = "ActiveWaiting"
    /\ ret' = [ret EXCEPT ![c] = identifier]
    /\ cancelled' = cancelled \ {identifier}
    /\ UNCHANGED << attempt, identifier, deferred, at >>

Start(c) ==
    /\ aborted = "no"
    /\ ~released
    /\ pc[c] = "idle"
    /\ pc' = [pc EXCEPT ![c] = "returning"]
    /\ BeginOperation(c) \/ JoinOperation(c) \/ RestoreOperation(c)
    /\ IF c \in Listening
       THEN /\ D!Then(deferred', c)
            /\ joined' = [joined EXCEPT ![c] = deferred']
       ELSE UNCHANGED << promiseVars, joined >>
    /\ UNCHANGED << timer, currentDelay, released, outcome, offered, chosen,
                    response, timerVars >>
    /\ CheckInvariants

\* The assertion after dispatch_sync, on the caller's thread.
StartReturn(c) ==
    /\ aborted = "no"
    /\ pc[c] = "returning"
    /\ IF ret[c] = Nil
       THEN aborted' = "startNil" /\ UNCHANGED pc
       ELSE pc' = [pc EXCEPT ![c] = "started"] /\ UNCHANGED aborted
    /\ UNCHANGED << fields, runVars, timerVars, released, ret, joined, cancelled,
                    promiseVars >>

---------------------------------------------------------------------------
(* cancel:  Any caller cancels with an identifier some start returned, the *)
(* operation's or a stale one.  With a stale one, or while the operation   *)
(* is being cancelled already, nothing changes and NO is returned.         *)

MayCancel(id) ==
    /\ aborted = "no"
    /\ ~released
    /\ \E c \in Callers : pc[c] = "started" /\ ret[c] = id
    /\ identifier = id

\* Mutation: the operation ends, but its promise is not resolved.
CancelDelay_NoResolve(id) ==
    /\ MayCancel(id)
    /\ state = "Delay"
    /\ suspending' = [suspending EXCEPT ![timer] = TRUE]
    /\ at' = [at EXCEPT ![timer] = "done"]
    /\ timer' = Nil
    /\ BackToIdle
    /\ cancelled' = cancelled \cup {id}
    /\ UNCHANGED << promiseVars, outcome, offered, chosen, response, timerAt, timerRunning,
                    firing, callerVars >>
    /\ CheckInvariants

\* Delay phase: cancel immediately.
CancelDelay(id) ==
    /\ MayCancel(id)
    /\ state = "Delay"
    /\ suspending' = [suspending EXCEPT ![timer] = TRUE]
    /\ at' = [at EXCEPT ![timer] = "done"]
    /\ timer' = Nil
    /\ BackToIdle
    /\ ResolveDeferred("cancelled")
    /\ cancelled' = cancelled \cup {id}
    /\ CheckInvariants
    /\ UNCHANGED << outcome, offered, chosen, response, timerAt, timerRunning,
                    firing, callerVars >>

\* Cancel at the end of the attempt.
CancelActive(id) ==
    /\ MayCancel(id)
    /\ state = "ActiveWaiting"
    /\ state' = "ActiveCancelling"
    /\ cancelled' = cancelled \cup {id}
    /\ UNCHANGED << timer, attempt, currentDelay, identifier, deferred, runVars,
                    timerVars, callerVars, promiseVars >>
    /\ CheckInvariants

---------------------------------------------------------------------------
(* The action block, its continuation, and the policy block.               *)

\* targetQueue calls the client's action block.
RunAction(r) ==
    /\ aborted = "no"
    /\ at[r] = "queued"
    /\ at' = [at EXCEPT ![r] = "running"]
    /\ UNCHANGED << fields, outcome, offered, chosen, response, timerVars,
                    callerVars, cancelled, promiseVars, aborted >>

\* The client calls the continuation block, on any thread.
Continuation(r, result) ==
    /\ aborted = "no"
    /\ at[r] = "running"
    /\ at' = [at EXCEPT ![r] = IF RetryAlive THEN "reported" ELSE "dropped"]
    /\ outcome' = [outcome EXCEPT ![r] = result]
    /\ UNCHANGED << fields, offered, chosen, response, timerVars, callerVars,
                    cancelled, promiseVars, aborted >>

\* scheduleNextAction: a one-shot timer whose block runs on syncQueue.
ScheduleNextAction(r) ==
    /\ timer' = r
    /\ state' = "Delay"
    /\ timerAt' = [timerAt EXCEPT ![r] = "armed"]
    /\ timerRunning' = [timerRunning EXCEPT ![r] = TRUE]
    /\ at' = [at EXCEPT ![r] = "delayed"]

\* Mutation: an operation that is being cancelled goes on retrying.
Terminates_IgnoresCancel(result, answer) ==
    result = "success" \/ answer = "stop"

Terminates(result, answer) ==
    result = "success" \/ state = "ActiveCancelling" \/ answer = "stop"

\* Mutation: being cancelled wins over success.
HandleResult_CancelWins(r, result, answer, nextDelay) ==
    /\ Terminates(result, answer)
    /\ BackToIdle
    /\ ResolveDeferred(IF state = "ActiveCancelling" THEN "cancelled"
                       ELSE IF result = "success" THEN "success" ELSE "failure")
    /\ at' = [at EXCEPT ![r] = "done"]
    /\ UNCHANGED << timer, timerAt, timerRunning >>
    /\ CheckInvariants

\* Mutation: the delay the policy chose is used once and forgotten.
HandleResult_ForgetsDelay(r, result, answer, nextDelay) ==
    \/ /\ Terminates(result, answer)
       /\ BackToIdle
       /\ ResolveDeferred(IF result = "success" THEN "success" ELSE "failure")
       /\ at' = [at EXCEPT ![r] = "done"]
       /\ UNCHANGED << timer, timerAt, timerRunning >>
       /\ CheckInvariants
    \/ /\ ~Terminates(result, answer)
       /\ ScheduleNextAction(r)
       /\ UNCHANGED << attempt, currentDelay, identifier, deferred, promiseVars >>
       /\ CheckInvariants

\* handleResult:error:policyResponse:nextDelay:
HandleResult(r, result, answer, nextDelay) ==
    \/ /\ Terminates(result, answer)
       /\ BackToIdle
       /\ ResolveDeferred(IF result = "success" THEN "success"
                          ELSE IF state = "ActiveCancelling" THEN "cancelled"
                          ELSE "failure")
       /\ at' = [at EXCEPT ![r] = "done"]
       /\ UNCHANGED << timer, timerAt, timerRunning >>
       /\ CheckInvariants
    \/ /\ ~Terminates(result, answer)
       /\ IF timer = Nil
          THEN /\ currentDelay' = nextDelay
               /\ ScheduleNextAction(r)
               /\ UNCHANGED << attempt, identifier, deferred, promiseVars >>
               /\ CheckInvariants
          ELSE /\ aborted' = "alreadyScheduled"
               /\ UNCHANGED << fields, at, timerAt, timerRunning, promiseVars >>

\* Mutation: the status of a failure is ignored.
IsFinal_IgnoresStatus(result) == result = "success" \/ state = "ActiveCancelling"

\* No point in asking the policy block.
IsFinal(result) == result \in {"success", "final"} \/ state = "ActiveCancelling"

\* The block the continuation dispatched to syncQueue.
HandleContinuation(r) ==
    /\ aborted = "no"
    /\ at[r] = "reported"
    /\ \/ /\ ~RetryAlive
          /\ at' = [at EXCEPT ![r] = "dropped"]
          /\ UNCHANGED << fields, offered, timerAt, timerRunning, promiseVars, aborted >>
       \/ /\ RetryAlive
          /\ IsFinal(outcome[r])
          /\ HandleResult(r, outcome[r], "stop", currentDelay)
          /\ UNCHANGED offered
       \/ /\ RetryAlive
          /\ ~IsFinal(outcome[r])
          /\ offered' = [offered EXCEPT ![r] = currentDelay]
          /\ at' = [at EXCEPT ![r] = "policy"]
          /\ UNCHANGED << fields, timerAt, timerRunning, promiseVars, aborted >>
    /\ UNCHANGED << outcome, chosen, response, suspending, firing, callerVars,
                    cancelled >>

\* Mutation: one retry too many.
RunPolicy_OffByOne(r) ==
    /\ aborted = "no"
    /\ at[r] = "policy"
    /\ at' = [at EXCEPT ![r] = "decided"]
    /\ \E answer \in {"stop"} \cup (IF Attempt(r) > MaxRetries THEN {} ELSE {"retry"}) :
          response' = [response EXCEPT ![r] = answer]
    /\ \E delay \in PolicyDelays \cup {offered[r]} :
          chosen' = [chosen EXCEPT ![r] = delay]
    /\ UNCHANGED << fields, outcome, offered, timerVars, callerVars, cancelled,
                    promiseVars, aborted >>

\* targetQueue calls the policy block: one that stops after MaxRetries attempts
\* at the latest, and that may change the delay it is handed.
RunPolicy(r) ==
    /\ aborted = "no"
    /\ at[r] = "policy"
    /\ at' = [at EXCEPT ![r] = "decided"]
    /\ \E answer \in {"stop"} \cup (IF Attempt(r) >= MaxRetries THEN {} ELSE {"retry"}) :
          response' = [response EXCEPT ![r] = answer]
    /\ \E delay \in PolicyDelays \cup {offered[r]} :
          chosen' = [chosen EXCEPT ![r] = delay]
    /\ UNCHANGED << fields, outcome, offered, timerVars, callerVars, cancelled,
                    promiseVars, aborted >>

\* The block that takes the policy's answer back to syncQueue.
HandleDecision(r) ==
    /\ aborted = "no"
    /\ at[r] = "decided"
    /\ HandleResult(r, outcome[r], response[r], chosen[r])
    /\ UNCHANGED << outcome, offered, chosen, response, suspending, firing,
                    callerVars, cancelled >>

---------------------------------------------------------------------------
(* The timer: its own syncQ, the global queue, then BRURetry's syncQueue.  *)

\* The dispatch_after block of setupTimer, on the timer's syncQ.
TimerDue(r) ==
    /\ aborted = "no"
    /\ timerAt[r] = "armed"
    /\ IF TimerAlive(r) /\ timerRunning[r]
       THEN /\ timerAt' = [timerAt EXCEPT ![r] = "accepted"]
            /\ timerRunning' = [timerRunning EXCEPT ![r] = FALSE]
       ELSE /\ timerAt' = [timerAt EXCEPT ![r] = "gone"]
            /\ UNCHANGED timerRunning
    /\ UNCHANGED << fields, runVars, suspending, firing, callerVars, cancelled,
                    promiseVars, aborted >>

\* The block on the global queue dispatches the timer's block to syncQueue ...
TimerPost(r) ==
    /\ aborted = "no"
    /\ timerAt[r] = "accepted"
    /\ timerAt' = [timerAt EXCEPT ![r] = IF TimerAlive(r) THEN "posted" ELSE "gone"]
    /\ firing' = [firing EXCEPT ![r] = TimerAlive(r)]
    /\ UNCHANGED << fields, runVars, timerRunning, suspending, callerVars, cancelled,
                    promiseVars, aborted >>

\* ... and lets go of the timer when it returns.
TimerPostEnd(r) ==
    /\ aborted = "no"
    /\ firing[r]
    /\ firing' = [firing EXCEPT ![r] = FALSE]
    /\ UNCHANGED << fields, runVars, timerAt, timerRunning, suspending, callerVars,
                    cancelled, promiseVars, aborted >>

\* The barrier block `suspend' dispatched to the timer's syncQ.
TimerSuspend(r) ==
    /\ aborted = "no"
    /\ suspending[r]
    /\ suspending' = [suspending EXCEPT ![r] = FALSE]
    /\ timerRunning' = [timerRunning EXCEPT ![r] = FALSE]
    /\ UNCHANGED << fields, runVars, timerAt, firing, callerVars, cancelled,
                    promiseVars, aborted >>

\* Mutation: no check of the identifier.
TimerCallback_AnyOperation(r) ==
    /\ aborted = "no"
    /\ timerAt[r] = "posted"
    /\ timerAt' = [timerAt EXCEPT ![r] = "gone"]
    /\ TimerAlive(r) /\ RetryAlive
    /\ timer' = Nil
    /\ state' = "ActiveWaiting"
    /\ UNCHANGED << currentDelay, identifier, deferred, aborted >>
    /\ PerformAction([at EXCEPT ![r] = "done"])
    /\ UNCHANGED << outcome, offered, chosen, response, timerRunning, suspending,
                    firing, callerVars, cancelled, promiseVars >>

\* The timer's block on syncQueue: its identifier must be the operation's.
TimerCallback(r) ==
    /\ aborted = "no"
    /\ timerAt[r] = "posted"
    /\ timerAt' = [timerAt EXCEPT ![r] = "gone"]
    /\ \/ /\ ~(TimerAlive(r) /\ RetryAlive)
          /\ UNCHANGED << fields, at, aborted >>
       \/ /\ TimerAlive(r) /\ RetryAlive
          /\ identifier # Operation(r)
          /\ aborted' = "timerCallback"
          /\ UNCHANGED << fields, at >>
       \/ /\ TimerAlive(r) /\ RetryAlive
          /\ identifier = Operation(r)
          /\ timer' = Nil
          /\ state' = "ActiveWaiting"
          /\ UNCHANGED << currentDelay, identifier, deferred, aborted >>
          /\ PerformAction([at EXCEPT ![r] = "done"])
    /\ UNCHANGED << outcome, offered, chosen, response, timerRunning, suspending,
                    firing, callerVars, cancelled, promiseVars >>

TimerStep(r) ==
    TimerDue(r) \/ TimerPost(r) \/ TimerPostEnd(r) \/ TimerSuspend(r) \/ TimerCallback(r)

---------------------------------------------------------------------------

\* The promises' queues and the target queue's then blocks.  The wrapper of
\* BRURetry.m:277-292 finds self alive: it holds it itself (see RetryAlive).
RunPromises ==
    /\ D!RunQueues
    /\ UNCHANGED << fields, runVars, timerVars, callerVars, cancelled >>

Report(r) == \E result \in {"success", "transient", "final"} : Continuation(r, result)

RunStep(r) ==
    \/ RunAction(r)
    \/ Report(r)
    \/ HandleContinuation(r)
    \/ RunPolicy(r)
    \/ HandleDecision(r)

Next ==
    \/ \E c \in Callers : Start(c) \/ StartReturn(c)
    \/ \E id \in Callers : CancelDelay(id) \/ CancelActive(id)
    \/ \E r \in Runs : RunStep(r) \/ TimerStep(r)
    \/ RunPromises
    \/ Release

\* Libdispatch runs every dispatched block and dispatch_after fires; the action
\* block calls its continuation, as its contract says.  Nobody has to start,
\* cancel or release.
Fairness ==
    /\ \A c \in Callers : WF_vars(StartReturn(c))
    /\ \A r \in Runs : WF_vars(RunStep(r)) /\ WF_vars(TimerStep(r))
    /\ WF_vars(RunPromises)

Spec == Init /\ [][Next]_vars /\ Fairness
==============================================================================
