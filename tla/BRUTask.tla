-------------------------------- MODULE BRUTask --------------------------------
(***************************************************************************)
(* BRUTask (src/BromiumCoreUtils/BRUTask.m): launching child processes,    *)
(* signalling them and waiting for their exit.                             *)
(*                                                                         *)
(* A launch forks and then talks to its child over two pipes: a byte from  *)
(* the parent lets the child go on to execve, and the child's end of the   *)
(* other pipe tells the parent how that went: errno comes through it if    *)
(* execve failed, and it closes on exec otherwise.  Several threads launch *)
(* at once, and each fork hands the child every descriptor the process has *)
(* open, those of the other launches included.                             *)
(*                                                                         *)
(* The child of a task is named by the task.  Arguments, environment, the  *)
(* client's own descriptors, exit codes and the notification are left out. *)
(* read and waitpid start again when interrupted, which changes nothing.   *)
(***************************************************************************)
EXTENDS Naturals, FiniteSets

CONSTANTS
    Tasks,    \* each is launched once (BRUTask.m:150)
    Parent,   \* the process that launches them
    Waiters,  \* threads that call waitUntilExit, once each
    Awaited   \* the tasks they may call it for

ASSUME TaskAssumption == Parent \notin Tasks /\ Awaited \subseteq Tasks

Processes == Tasks \cup {Parent}

\* The ends of the pipes parent2child and child2parent.
Ends == {"p2cRead", "p2cWrite", "c2pRead", "c2pWrite"}

VARIABLES
    pc,        \* [Tasks -> where the launching thread is]
    result,    \* [Tasks -> "none", or what launchWithError: will return]
    child,     \* [Tasks -> the child process]
    executed,  \* history: the tasks whose execve was successful
    refused,   \* history: the tasks whose execve, or the way to it, failed
    holders,   \* [Tasks -> [Ends -> the processes that have the end open]]
    go,        \* the tasks whose parent2child pipe has the byte
    report,    \* the tasks whose child2parent pipe has an errno
    source,    \* [Tasks -> the dispatch source for the child's exit]
    handler,   \* [Tasks -> how far its event handler is]
    running,   \* the tasks with running = YES
    aiming,    \* tasks some thread saw running and is about to kill
    waitedOn,  \* the tasks with hasBeenWaitedOn
    semaphore, \* [Tasks -> waitOnSemaphore]
    waiting,   \* [Waiters -> the stage and the task of the waiter]
    aborted    \* "no", or what ended the parent

pipeVars == << holders, go, report >>
exitVars == << handler, semaphore >>
clientVars == << aiming, waitedOn, waiting >>
vars == << pc, result, child, executed, refused, pipeVars, source, exitVars, running,
           clientVars, aborted >>

NotWaiting == [at |-> "none"]

Init ==
    /\ pc = [t \in Tasks |-> "idle"]
    /\ result = [t \in Tasks |-> "none"]
    /\ child = [t \in Tasks |-> "none"]
    /\ executed = {} /\ refused = {}
    /\ holders = [t \in Tasks |-> [e \in Ends |-> {}]]
    /\ go = {} /\ report = {}
    /\ source = [t \in Tasks |-> "none"]
    /\ handler = [t \in Tasks |-> "none"]
    /\ running = {}
    /\ aiming = {} /\ waitedOn = {}
    /\ semaphore = [t \in Tasks |-> 0]
    /\ waiting = [w \in Waiters |-> NotWaiting]
    /\ aborted = "no"

---------------------------------------------------------------------------
(* Descriptors                                                             *)

\* Process p closes the ends es of task t's pipes.
Close(t, p, es) ==
    [holders EXCEPT ![t] = [e \in Ends |-> IF e \in es THEN @[e] \ {p} ELSE @[e]]]

\* Process p is gone.
CloseAll(p) == [t \in Tasks |-> [e \in Ends |-> holders[t][e] \ {p}]]

\* Mutation: the child leaves the descriptors it does not know alone.
CloseForExec_OwnOnly(t) == Close(t, t, {"p2cRead"})

\* The child closes everything but standard descriptors and its end of child2parent.
CloseForExec(t) ==
    [u \in Tasks |-> [e \in Ends |->
        IF u = t /\ e = "c2pWrite" THEN holders[u][e] ELSE holders[u][e] \ {t}]]

---------------------------------------------------------------------------
(* launchWithError: in the parent                                          *)

Launching(t, stage) == aborted = "no" /\ pc[t] = stage

\* pipe() twice; what a failure leaves open is closed.
MakePipes(t) ==
    /\ Launching(t, "idle")
    /\ \/ /\ pc' = [pc EXCEPT ![t] = "piped"]
          /\ holders' = [holders EXCEPT ![t] = [e \in Ends |-> {Parent}]]
          /\ UNCHANGED result
       \/ /\ pc' = [pc EXCEPT ![t] = "returned"]
          /\ result' = [result EXCEPT ![t] = "noPipe"]
          /\ UNCHANGED holders
    /\ UNCHANGED << child, executed, refused, go, report, source, exitVars, running,
                    clientVars, aborted >>

\* The child inherits all descriptors of the parent.
Fork(t) ==
    /\ Launching(t, "piped")
    /\ pc' = [pc EXCEPT ![t] = "forked"]
    /\ child' = [child EXCEPT ![t] = "forked"]
    /\ holders' = [u \in Tasks |-> [e \in Ends |->
           IF Parent \in holders[u][e] THEN holders[u][e] \cup {t} ELSE holders[u][e]]]
    /\ UNCHANGED << result, executed, refused, go, report, source, exitVars, running,
                    clientVars, aborted >>

\* fork() fails: nothing closes the pipes.
ForkFails(t) ==
    /\ Launching(t, "piped")
    /\ pc' = [pc EXCEPT ![t] = "returned"]
    /\ result' = [result EXCEPT ![t] = "noFork"]
    /\ UNCHANGED << child, executed, refused, pipeVars, source, exitVars, running,
                    clientVars, aborted >>

\* Mutation: the source's event handler is in place from the beginning.
SetUp_Armed(t) ==
    /\ Launching(t, "forked")
    /\ pc' = [pc EXCEPT ![t] = "writing"]
    /\ holders' = Close(t, Parent, {"p2cRead", "c2pWrite"})
    /\ source' = [source EXCEPT ![t] = "armed"]
    /\ UNCHANGED << result, child, executed, refused, go, report, exitVars, running,
                    clientVars, aborted >>

\* The parent closes the child's ends and creates the dispatch source.
SetUp(t) ==
    /\ Launching(t, "forked")
    /\ pc' = [pc EXCEPT ![t] = "writing"]
    /\ holders' = Close(t, Parent, {"p2cRead", "c2pWrite"})
    /\ source' = [source EXCEPT ![t] = "created"]
    /\ UNCHANGED << result, child, executed, refused, go, report, exitVars, running,
                    clientVars, aborted >>

\* Mutation: the task is running as soon as the child may go on.
WriteGo_Running(t) ==
    /\ Launching(t, "writing")
    /\ holders[t]["p2cRead"] # {}
    /\ go' = go \cup {t}
    /\ running' = running \cup {t}
    /\ pc' = [pc EXCEPT ![t] = "reading"]
    /\ holders' = Close(t, Parent, {"p2cWrite"})
    /\ UNCHANGED << result, child, executed, refused, report, source, exitVars,
                    clientVars, aborted >>

\* The byte that lets the child go on; then the end is closed.
WriteGo(t) ==
    /\ Launching(t, "writing")
    /\ holders[t]["p2cRead"] # {}
    /\ go' = go \cup {t}
    /\ pc' = [pc EXCEPT ![t] = "reading"]
    /\ holders' = Close(t, Parent, {"p2cWrite"})
    /\ UNCHANGED << result, child, executed, refused, report, source, exitVars, running,
                    clientVars, aborted >>

\* The child died and nobody could read the byte: write() fails, or SIGPIPE ends
\* the parent if it does not ignore that signal.
WriteFails(t) ==
    /\ Launching(t, "writing")
    /\ holders[t]["p2cRead"] = {}
    /\ \/ aborted' = "sigpipe" /\ UNCHANGED << pc, result, holders >>
       \/ /\ pc' = [pc EXCEPT ![t] = "answered"]
          /\ result' = [result EXCEPT ![t] = "noWrite"]
          /\ holders' = Close(t, Parent, {"p2cWrite"})
          /\ UNCHANGED aborted
    /\ UNCHANGED << child, executed, refused, go, report, source, exitVars, running,
                    clientVars >>

\* Mutation: whatever is read means that the child was launched.
ReadAnswer_Any(t) ==
    /\ Launching(t, "reading")
    /\ t \in report \/ holders[t]["c2pWrite"] = {}
    /\ running' = running \cup {t}
    /\ result' = [result EXCEPT ![t] = "success"]
    /\ pc' = [pc EXCEPT ![t] = "answered"]
    /\ UNCHANGED << child, executed, refused, pipeVars, source, exitVars, clientVars,
                    aborted >>

\* read() blocks until there is an errno, or until nobody has the child's end of
\* child2parent open any more.
ReadAnswer(t) ==
    /\ Launching(t, "reading")
    /\ \/ /\ t \in report
          /\ result' = [result EXCEPT ![t] = "noExec"]
          /\ UNCHANGED running
       \/ /\ t \notin report
          /\ holders[t]["c2pWrite"] = {}
          /\ result' = [result EXCEPT ![t] = "success"]
          /\ running' = running \cup {t}
    /\ pc' = [pc EXCEPT ![t] = "answered"]
    /\ UNCHANGED << child, executed, refused, pipeVars, source, exitVars, clientVars,
                    aborted >>

\* Mutation: child2parent is not closed.
Return_KeepsPipe(t) ==
    /\ Launching(t, "answered")
    /\ pc' = [pc EXCEPT ![t] = "returned"]
    /\ source' = [source EXCEPT ![t] = IF result[t] = "success" THEN "armed" ELSE "muted"]
    /\ UNCHANGED << result, child, executed, refused, pipeVars, exitVars, running,
                    clientVars, aborted >>

\* Mutation: the source is not resumed.
Return_NotResumed(t) ==
    /\ Launching(t, "answered")
    /\ pc' = [pc EXCEPT ![t] = "returned"]
    /\ holders' = Close(t, Parent, {"c2pRead"})
    /\ UNCHANGED << result, child, executed, refused, go, report, source, exitVars, running,
                    clientVars, aborted >>

\* The pipe is closed, and the source resumed: with its event handler after a
\* successful launch, with an empty one otherwise.
Return(t) ==
    /\ Launching(t, "answered")
    /\ pc' = [pc EXCEPT ![t] = "returned"]
    /\ holders' = Close(t, Parent, {"c2pRead"})
    /\ source' = [source EXCEPT ![t] = IF result[t] = "success" THEN "armed" ELSE "muted"]
    /\ UNCHANGED << result, child, executed, refused, go, report, exitVars, running,
                    clientVars, aborted >>

LaunchStep(t) ==
    Fork(t) \/ ForkFails(t) \/ SetUp(t) \/ WriteGo(t) \/ WriteFails(t) \/ ReadAnswer(t)
    \/ Return(t)

---------------------------------------------------------------------------
(* The child; what it does after the end of the parent is left out.        *)

\* It closes the parent's ends.
ChildCloses(t) ==
    /\ aborted = "no"
    /\ child[t] = "forked"
    /\ child' = [child EXCEPT ![t] = "waiting"]
    /\ holders' = Close(t, t, {"c2pRead", "p2cWrite"})
    /\ UNCHANGED << pc, result, executed, refused, go, report, source, exitVars, running,
                    clientVars, aborted >>

\* It waits for the byte, or for the end of the pipe, and closes what it inherited.
ChildReads(t) ==
    /\ aborted = "no"
    /\ child[t] = "waiting"
    /\ t \in go \/ holders[t]["p2cWrite"] = {}
    /\ go' = go \ {t}
    /\ child' = [child EXCEPT ![t] = "ready"]
    /\ holders' = CloseForExec(t)
    /\ UNCHANGED << pc, result, executed, refused, report, source, exitVars, running,
                    clientVars, aborted >>

\* execve: the program runs and child2parent is closed ...
ChildExecs(t) ==
    /\ aborted = "no"
    /\ child[t] = "ready"
    /\ child' = [child EXCEPT ![t] = "program"]
    /\ executed' = executed \cup {t}
    /\ holders' = Close(t, t, {"c2pWrite"})
    /\ UNCHANGED << pc, result, refused, go, report, source, exitVars, running,
                    clientVars, aborted >>

\* ... or it fails, and so may the fcntl that is to close child2parent: errno is
\* written, and the child is gone.
ChildGivesUp(t) ==
    /\ aborted = "no"
    /\ child[t] \in {"waiting", "ready"}
    /\ child' = [child EXCEPT ![t] = "zombie"]
    /\ refused' = refused \cup {t}
    /\ report' = IF holders[t]["c2pRead"] # {} THEN report \cup {t} ELSE report
    /\ holders' = CloseAll(t)
    /\ UNCHANGED << pc, result, executed, go, source, exitVars, running, clientVars,
                    aborted >>

\* The program ends, or the child is killed, before execve as well as later.
ChildDies(t) ==
    /\ aborted = "no"
    /\ child[t] \in {"forked", "waiting", "ready", "program"}
    /\ child' = [child EXCEPT ![t] = "zombie"]
    /\ holders' = CloseAll(t)
    /\ UNCHANGED << pc, result, executed, refused, go, report, source, exitVars, running,
                    clientVars, aborted >>

\* Somebody else in the parent waits for any child and reaps this one.
OthersReap(t) ==
    /\ aborted = "no"
    /\ child[t] = "zombie"
    /\ child' = [child EXCEPT ![t] = "reaped"]
    /\ UNCHANGED << pc, result, executed, refused, pipeVars, source, exitVars, running,
                    clientVars, aborted >>

ChildStep(t) == ChildCloses(t) \/ ChildReads(t) \/ ChildExecs(t) \/ ChildGivesUp(t)

---------------------------------------------------------------------------
(* The event handler of the source, on childTerminationHandlingQueue       *)

\* Mutation: whoever waits is told first.
HandlerReaps_Signals(t) ==
    /\ aborted = "no"
    /\ source[t] = "armed"
    /\ child[t] = "zombie"
    /\ source' = [source EXCEPT ![t] = "cancelled"]
    /\ child' = [child EXCEPT ![t] = "reaped"]
    /\ handler' = [handler EXCEPT ![t] = "reaped"]
    /\ semaphore' = [semaphore EXCEPT ![t] = @ + 1]
    /\ UNCHANGED << pc, result, executed, refused, pipeVars, running, clientVars, aborted >>

\* waitpid; then the source is cancelled.
HandlerReaps(t) ==
    /\ aborted = "no"
    /\ source[t] = "armed"
    /\ child[t] = "zombie"
    /\ source' = [source EXCEPT ![t] = "cancelled"]
    /\ child' = [child EXCEPT ![t] = "reaped"]
    /\ handler' = [handler EXCEPT ![t] = "reaped"]
    /\ UNCHANGED << pc, result, executed, refused, pipeVars, semaphore, running,
                    clientVars, aborted >>

\* waitpid fails: the handler returns.
HandlerGivesUp(t) ==
    /\ aborted = "no"
    /\ source[t] = "armed"
    /\ child[t] = "reaped"
    /\ handler[t] = "none"
    /\ handler' = [handler EXCEPT ![t] = "gaveUp"]
    /\ UNCHANGED << pc, result, child, executed, refused, pipeVars, source, semaphore,
                    running, clientVars, aborted >>

\* The task must be running; it has a termination status and runs no more.
HandlerStops(t) ==
    /\ aborted = "no"
    /\ handler[t] = "reaped"
    /\ IF t \in running
       THEN /\ handler' = [handler EXCEPT ![t] = "stopped"]
            /\ running' = running \ {t}
            /\ UNCHANGED aborted
       ELSE aborted' = "notRunning" /\ UNCHANGED << handler, running >>
    /\ UNCHANGED << pc, result, child, executed, refused, pipeVars, source, semaphore,
                    clientVars >>

HandlerSignals(t) ==
    /\ aborted = "no"
    /\ handler[t] = "stopped"
    /\ handler' = [handler EXCEPT ![t] = "signalled"]
    /\ semaphore' = [semaphore EXCEPT ![t] = @ + 1]
    /\ UNCHANGED << pc, result, child, executed, refused, pipeVars, source, running,
                    clientVars, aborted >>

\* terminationHandler is called and the notification dispatched.
HandlerNotifies(t) ==
    /\ aborted = "no"
    /\ handler[t] = "signalled"
    /\ handler' = [handler EXCEPT ![t] = "notified"]
    /\ UNCHANGED << pc, result, child, executed, refused, pipeVars, source, semaphore,
                    running, clientVars, aborted >>

HandlerStep(t) ==
    HandlerReaps(t) \/ HandlerGivesUp(t) \/ HandlerStops(t) \/ HandlerSignals(t)
    \/ HandlerNotifies(t)

---------------------------------------------------------------------------
(* interrupt, terminate, suspend, resume                                   *)

SignalLooks(t) ==
    /\ aborted = "no"
    /\ pc[t] # "idle"
    /\ t \in running
    /\ aiming' = aiming \cup {t}
    /\ UNCHANGED << pc, result, child, executed, refused, pipeVars, source, exitVars,
                    running, waitedOn, waiting, aborted >>

\* kill: the program may die of it.
SignalKills(t) ==
    /\ aborted = "no"
    /\ t \in aiming
    /\ aiming' = aiming \ {t}
    /\ \/ UNCHANGED << child, holders >>
       \/ /\ child[t] = "program"
          /\ child' = [child EXCEPT ![t] = "zombie"]
          /\ holders' = CloseAll(t)
    /\ UNCHANGED << pc, result, executed, refused, go, report, source, exitVars, running,
                    waitedOn, waiting, aborted >>

---------------------------------------------------------------------------
(* waitUntilExit, called when the launch has returned                      *)

WaitAt(w, stage) == aborted = "no" /\ waiting[w].at = stage
WaitGoesTo(w, stage) == waiting' = [waiting EXCEPT ![w].at = stage]

\* The assertion reads hasBeenWaitedOn ...
WaitChecks(w, t) ==
    /\ WaitAt(w, "none")
    /\ pc[t] = "returned"
    /\ IF t \in waitedOn
       THEN aborted' = "alreadyWaited" /\ UNCHANGED waiting
       ELSE waiting' = [waiting EXCEPT ![w] = [at |-> "checked", task |-> t]] /\ UNCHANGED aborted
    /\ UNCHANGED << pc, result, child, executed, refused, pipeVars, source, exitVars,
                    running, aiming, waitedOn >>

\* ... which is set in a step of its own.
WaitMarks(w) ==
    /\ WaitAt(w, "checked")
    /\ WaitGoesTo(w, "marked")
    /\ waitedOn' = waitedOn \cup {waiting[w].task}
    /\ UNCHANGED << pc, result, child, executed, refused, pipeVars, source, exitVars,
                    running, aiming, aborted >>

WaitLooks(w) ==
    /\ WaitAt(w, "marked")
    /\ WaitGoesTo(w, IF waiting[w].task \in running THEN "asleep" ELSE "returned")
    /\ UNCHANGED << pc, result, child, executed, refused, pipeVars, source, exitVars,
                    running, aiming, waitedOn, aborted >>

\* The semaphore, which the loop over the run loop polls.
WaitEnds(w) ==
    /\ WaitAt(w, "asleep")
    /\ semaphore[waiting[w].task] > 0
    /\ semaphore' = [semaphore EXCEPT ![waiting[w].task] = @ - 1]
    /\ WaitGoesTo(w, "returned")
    /\ UNCHANGED << pc, result, child, executed, refused, pipeVars, source, handler,
                    running, aiming, waitedOn, aborted >>

WaitStep(w) == WaitMarks(w) \/ WaitLooks(w) \/ WaitEnds(w)

---------------------------------------------------------------------------

Next ==
    \/ \E t \in Tasks :
          \/ MakePipes(t) \/ LaunchStep(t)
          \/ ChildStep(t) \/ ChildDies(t) \/ OthersReap(t)
          \/ HandlerStep(t)
          \/ SignalLooks(t) \/ SignalKills(t)
    \/ \E w \in Waiters :
          \/ \E t \in Awaited : WaitChecks(w, t)
          \/ WaitStep(w)

\* Threads in a call go on, a child gets as far as execve, and libdispatch delivers
\* the exit of a child, even one that was over before the source was resumed.
\* Programs need not end.
Fairness ==
    /\ \A t \in Tasks : WF_vars(LaunchStep(t)) /\ WF_vars(ChildStep(t))
                        /\ WF_vars(HandlerStep(t)) /\ WF_vars(SignalKills(t))
    /\ \A w \in Waiters : WF_vars(WaitStep(w))

Spec == Init /\ [][Next]_vars /\ Fairness
==============================================================================
