---------------------------- MODULE TaskProperties ----------------------------
(***************************************************************************)
(* What makes BRUTask correct: invariants and liveness of the module       *)
(* BRUTask.                                                                *)
(***************************************************************************)
EXTENDS BRUTask

Results == {"none", "success", "noPipe", "noFork", "noWrite", "noExec"}
Failures == Results \ {"none", "success"}

\* The exit of a child never meets a task that is not running yet, or any more
\* (BRUTask.m:391); what stops the process is a client that waits twice, or
\* SIGPIPE, and then only if a child died before it was let go on.
AssertionsHold ==
    /\ aborted # "notRunning"
    /\ aborted = "alreadyWaited" => \E t \in waitedOn : pc[t] = "returned"
    /\ aborted = "sigpipe" =>
           \E t \in Tasks : pc[t] = "writing" /\ child[t] \in {"zombie", "reaped"}

\* launchWithError: tells the truth: after success the program was executed,
\* unless the child was killed before it could be, and a launch that failed
\* leaves no program running (BRUTask.m:208-276, 336-341).
LaunchResultIsTrue ==
    \A t \in Tasks :
        /\ result[t] = "success" =>
               /\ t \notin refused
               /\ t \in executed \/ child[t] \in {"zombie", "reaped"}
        /\ result[t] \in Failures => t \notin executed

\* A launch that returned has no end of its pipes open, and a program inherits none,
\* not even of a launch that was under way in another thread; a failing fork is
\* the exception (BRUTask.m:215-224, 264, 320-324, 342).
NoDescriptorLeft ==
    \A t \in Tasks :
        /\ pc[t] = "returned" /\ result[t] # "noFork" =>
               \A e \in Ends : Parent \notin holders[t][e]
        /\ child[t] = "program" =>
               \A u \in Tasks, e \in Ends : t \notin holders[u][e]

\* A signal is never sent to a child in which the parent's own signal handlers
\* are still in place: before execve the task is not running (BRUTask.m:239-241,
\* 329-336, 437-471).
SignalsFindTheProgram ==
    \A t \in running \cup aiming : child[t] \notin {"none", "forked", "waiting", "ready"}

\* When waitUntilExit returns after a successful launch the child was reaped, its
\* termination status is set and the task is not running (BRUTask.m:385-405,
\* 486-510).
WaitedTaskIsDone ==
    \A w \in Waiters :
        waiting[w].at = "returned" /\ result[waiting[w].task] = "success" =>
            /\ child[waiting[w].task] = "reaped"
            /\ handler[waiting[w].task] \in {"stopped", "signalled", "notified"}
            /\ waiting[w].task \notin running

\* A launch returns, although parent and child wait for each other on the pipes
\* and children of other launches hold their ends (BRUTask.m:215-264, 283-341).
EveryLaunchReturns ==
    \A t \in Tasks :
        pc[t] = "forked" ~> (pc[t] = "returned" \/ aborted # "no")

\* A thread that is alone in waiting for a task is woken by the exit of the child
\* (BRUTask.m:405, 486-510).
LoneWaiterReturns ==
    \A w \in Waiters, t \in Awaited :
        /\ waiting[w] = [at |-> "asleep", task |-> t]
        /\ child[t] \in {"zombie", "reaped"}
        ~> \/ waiting[w].at = "returned"
           \/ \E v \in Waiters \ {w} : waiting[v].at # "none" /\ waiting[v].task = t
           \/ handler[t] = "gaveUp"
           \/ aborted # "no"
==============================================================================
