------------------------------ MODULE TaskProofs ------------------------------
(***************************************************************************)
(* The safety properties of BRUTask, for any tasks and waiters: launches   *)
(* that run into each other's descriptors, children that die at any time.  *)
(***************************************************************************)
EXTENDS TaskProperties, TLAPS

Asserted == {"no", "notRunning", "alreadyWaited", "sigpipe"}
Waits == [at : {"checked", "marked", "asleep", "returned"}, task : Tasks]

TaskTypeOK ==
    /\ pc \in [Tasks -> {"idle", "piped", "forked", "writing", "reading", "answered",
                         "returned"}]
    /\ result \in [Tasks -> Results]
    /\ child \in [Tasks -> {"none", "forked", "waiting", "ready", "program", "zombie",
                            "reaped"}]
    /\ executed \subseteq Tasks /\ refused \subseteq Tasks
    /\ holders \in [Tasks -> [Ends -> SUBSET Processes]]
    /\ go \subseteq Tasks /\ report \subseteq Tasks
    /\ source \in [Tasks -> {"none", "created", "armed", "muted", "cancelled"}]
    /\ handler \in [Tasks -> {"none", "gaveUp", "reaped", "stopped", "signalled",
                              "notified"}]
    /\ running \subseteq Tasks /\ aiming \subseteq Tasks /\ waitedOn \subseteq Tasks
    /\ semaphore \in [Tasks -> Nat]
    /\ waiting \in [Waiters -> {NotWaiting} \cup Waits]
    /\ aborted \in Asserted

Over == {"zombie", "reaped"}

\* How far a launch is, and what it knows and made so far.
LaunchFits ==
    \A t \in Tasks :
        /\ pc[t] \in {"idle", "piped", "forked", "writing", "reading"} <=> result[t] = "none"
        /\ pc[t] = "answered" => result[t] \in {"success", "noWrite", "noExec"}
        /\ child[t] = "none" <=> (pc[t] \in {"idle", "piped"} \/ result[t] \in {"noPipe", "noFork"})
        /\ source[t] = "created" <=> pc[t] \in {"writing", "reading", "answered"}
        /\ source[t] \in {"armed", "cancelled"} <=> (pc[t] = "returned" /\ result[t] = "success")

\* The child does not pass the byte before it is written, and what became of it agrees
\* with what was told, or will be.
ChildFits ==
    \A t \in Tasks :
        /\ child[t] = "program" => t \in executed
        /\ t \in executed => child[t] \in {"program"} \cup Over /\ t \notin refused
        /\ t \in refused => child[t] \in Over
        /\ t \in report => t \in refused
        /\ t \in go => pc[t] \notin {"idle", "piped", "forked", "writing"}
        /\ pc[t] \in {"forked", "writing"} =>
               t \notin executed /\ child[t] \in {"forked", "waiting"} \cup Over
        /\ pc[t] \in {"forked", "writing", "reading"} /\ t \in refused => t \in report
        /\ result[t] = "success" => child[t] \in {"program"} \cup Over /\ t \notin refused
        /\ result[t] = "noWrite" => child[t] \in Over /\ t \notin executed
        /\ result[t] = "noExec" => t \in refused

\* Until when the parent has each end open, and until when the child.
ParentHolds ==
    \A t \in Tasks :
        /\ pc[t] = "idle" \/ result[t] = "noPipe" => \A e \in Ends : Parent \notin holders[t][e]
        /\ Parent \in holders[t]["p2cRead"] \/ Parent \in holders[t]["c2pWrite"] =>
               pc[t] \in {"piped", "forked"} \/ result[t] = "noFork"
        /\ Parent \in holders[t]["p2cWrite"] =>
               pc[t] \in {"piped", "forked", "writing"} \/ result[t] = "noFork"
        /\ Parent \in holders[t]["c2pRead"] => pc[t] # "returned" \/ result[t] = "noFork"
        /\ pc[t] \in {"piped", "forked", "writing"} => Parent \in holders[t]["p2cWrite"]
        /\ pc[t] \in {"piped", "forked", "writing", "reading", "answered"} =>
               Parent \in holders[t]["c2pRead"]
        /\ pc[t] = "piped" => Parent \in holders[t]["p2cRead"] /\ Parent \in holders[t]["c2pWrite"]

ChildHolds ==
    \A t \in Tasks :
        /\ child[t] \in {"forked", "waiting"} => t \in holders[t]["p2cRead"]
        /\ child[t] \in {"forked", "waiting", "ready"} => t \in holders[t]["c2pWrite"]
        /\ child[t] = "ready" =>
               \A u \in Tasks, e \in Ends : t \in holders[u][e] => u = t /\ e = "c2pWrite"
        /\ child[t] = "program" => \A u \in Tasks, e \in Ends : t \notin holders[u][e]

\* The handler of the source acts once, on a child that is over, and the task runs
\* from a successful launch until then.
HandlerFits ==
    \A t \in Tasks :
        /\ source[t] = "cancelled" <=> handler[t] \in {"reaped", "stopped", "signalled", "notified"}
        /\ handler[t] # "none" => child[t] = "reaped" /\ source[t] \in {"armed", "cancelled"}
        /\ t \in running <=> (result[t] = "success" /\ handler[t] \in {"none", "gaveUp", "reaped"})
        /\ t \in aiming => result[t] = "success"
        /\ semaphore[t] > 0 => handler[t] \in {"signalled", "notified"}

\* Who waits does so for a task whose launch returned.
WaitFits ==
    \A w \in Waiters : waiting[w].at # "none" => pc[waiting[w].task] = "returned"

TaskInv ==
    /\ TaskTypeOK /\ LaunchFits /\ ChildFits /\ ParentHolds /\ ChildHolds /\ HandlerFits
    /\ WaitFits /\ WaitedTaskIsDone /\ AssertionsHold

---------------------------------------------------------------------------
(* Every step preserves the invariant: the parent's thread.                *)

LEMMA MakePipesInv == ASSUME TaskInv, NEW t \in Tasks, MakePipes(t) PROVE TaskInv'
<1> USE DEF TaskInv, MakePipes, Launching, exitVars, clientVars
<1>1. TaskTypeOK'
  <2>1. Parent \in Processes
    BY DEF Processes
  <2>2. [e \in Ends |-> {Parent}] \in [Ends -> SUBSET Processes]
    BY <2>1
  <2> QED BY ZenonT(30), <2>2 DEF TaskTypeOK, Results
<1>2. ChildFits'
  BY DEF TaskTypeOK, ChildFits, Over
<1>3. ParentHolds'
  BY TaskAssumption DEF TaskTypeOK, LaunchFits, ParentHolds, Ends, Processes
<1>4. ChildHolds'
  <2>1. child[t] = "none"
    BY DEF TaskTypeOK, LaunchFits
  <2>2. \A u \in Tasks : \/ holders'[u] = holders[u]
                         \/ u = t /\ \A e \in Ends : holders'[u][e] = {Parent}
    BY DEF TaskTypeOK
  <2>3. \A u, v \in Tasks, e \in Ends : u \in holders'[v][e] => u \in holders[v][e]
    BY <2>2, TaskAssumption
  <2> QED BY <2>1, <2>2, <2>3 DEF ChildHolds
<1>5. HandlerFits'
  BY DEF TaskTypeOK, LaunchFits, HandlerFits
<1>6. WaitFits'
  BY DEF TaskTypeOK, WaitFits, Waits, NotWaiting
<1>7. WaitedTaskIsDone'
  BY DEF TaskTypeOK, WaitFits, WaitedTaskIsDone, Waits, NotWaiting
<1>8. LaunchFits' /\ AssertionsHold'
  BY DEF TaskTypeOK, LaunchFits, AssertionsHold
<1> QED BY <1>1, <1>2, <1>3, <1>4, <1>5, <1>6, <1>7, <1>8

LEMMA ForkInv == ASSUME TaskInv, NEW t \in Tasks, Fork(t) PROVE TaskInv'
<1> USE DEF TaskInv, Fork, Launching, exitVars, clientVars
<1>1. TaskTypeOK'
  BY DEF TaskTypeOK, Ends, Processes
<1>2. ChildFits'
  BY DEF TaskTypeOK, LaunchFits, ChildFits, Over
<1>3. ParentHolds'
  BY TaskAssumption DEF TaskTypeOK, LaunchFits, ParentHolds, Ends
<1>4. ChildHolds'
  <2>1. child[t] = "none"
    BY DEF TaskTypeOK, LaunchFits
  <2>2. \A e \in Ends : t \in holders'[t][e]
    BY DEF TaskTypeOK, ParentHolds, Ends
  <2>3. \A u, v \in Tasks, e \in Ends :
            u # t => (u \in holders'[v][e] <=> u \in holders[v][e])
    BY DEF TaskTypeOK
  <2>4. child' = [child EXCEPT ![t] = "forked"] /\ child \in [Tasks -> {"none", "forked", "waiting", "ready", "program", "zombie",
                            "reaped"}]
    BY DEF TaskTypeOK
  <2> QED BY <2>1, <2>2, <2>3, <2>4 DEF ChildHolds, Ends
<1>5. HandlerFits'
  BY DEF TaskTypeOK, LaunchFits, HandlerFits
<1>6. WaitFits'
  BY DEF TaskTypeOK, LaunchFits, WaitFits
<1>7. WaitedTaskIsDone'
  BY DEF TaskTypeOK, LaunchFits, WaitedTaskIsDone
<1>8. LaunchFits' /\ AssertionsHold'
  BY DEF TaskTypeOK, LaunchFits, AssertionsHold
<1> QED BY <1>1, <1>2, <1>3, <1>4, <1>5, <1>6, <1>7, <1>8

LEMMA ForkFailsInv == ASSUME TaskInv, NEW t \in Tasks, ForkFails(t) PROVE TaskInv'
<1> USE DEF TaskInv, ForkFails, Launching, pipeVars, exitVars, clientVars
<1>1. TaskTypeOK'
  BY DEF TaskTypeOK, Results
<1>2. ChildFits'
  BY DEF TaskTypeOK, ChildFits, Over
<1>3. HandlerFits'
  BY DEF TaskTypeOK, LaunchFits, HandlerFits
<1>4. LaunchFits' /\ ParentHolds' /\ ChildHolds' /\ WaitFits' /\ WaitedTaskIsDone' /\ AssertionsHold'
  BY DEF TaskTypeOK, LaunchFits, ParentHolds, ChildHolds, WaitFits, WaitedTaskIsDone, AssertionsHold
<1> QED BY <1>1, <1>2, <1>3, <1>4

LEMMA SetUpInv == ASSUME TaskInv, NEW t \in Tasks, SetUp(t) PROVE TaskInv'
<1> USE DEF TaskInv, SetUp, Launching, Close, exitVars, clientVars
<1>1. TaskTypeOK'
  BY DEF TaskTypeOK, Ends, Results
<1>2. ChildFits'
  BY DEF TaskTypeOK, ChildFits, Over
<1>3. ParentHolds'
  BY TaskAssumption DEF TaskTypeOK, LaunchFits, ParentHolds, Ends
<1>4. ChildHolds'
  BY TaskAssumption DEF TaskTypeOK, LaunchFits, ChildHolds, Ends
<1>5. HandlerFits'
  BY DEF TaskTypeOK, LaunchFits, HandlerFits
<1>6. LaunchFits' /\ WaitFits' /\ WaitedTaskIsDone' /\ AssertionsHold'
  BY DEF TaskTypeOK, LaunchFits, WaitFits, WaitedTaskIsDone, AssertionsHold
<1> QED BY <1>1, <1>2, <1>3, <1>4, <1>5, <1>6

LEMMA WriteGoInv == ASSUME TaskInv, NEW t \in Tasks, WriteGo(t) PROVE TaskInv'
<1> USE DEF TaskInv, WriteGo, Launching, Close, exitVars, clientVars
<1>1. TaskTypeOK'
  BY DEF TaskTypeOK, Ends, Results
<1>2. ChildFits'
  BY DEF TaskTypeOK, LaunchFits, ChildFits, Over
<1>3. ParentHolds'
  BY TaskAssumption DEF TaskTypeOK, LaunchFits, ParentHolds, Ends
<1>4. ChildHolds'
  BY TaskAssumption DEF TaskTypeOK, LaunchFits, ChildHolds, Ends
<1>5. LaunchFits' /\ HandlerFits' /\ WaitFits' /\ WaitedTaskIsDone' /\ AssertionsHold'
  BY DEF TaskTypeOK, LaunchFits, HandlerFits, WaitFits, WaitedTaskIsDone, AssertionsHold
<1> QED BY <1>1, <1>2, <1>3, <1>4, <1>5

LEMMA WriteFailsInv == ASSUME TaskInv, NEW t \in Tasks, WriteFails(t) PROVE TaskInv'
<1> USE DEF TaskInv, WriteFails, Launching, Close, exitVars, clientVars
<1>1. TaskTypeOK'
  <2>1. Close(t, Parent, {"p2cWrite"}) \in [Tasks -> [Ends -> SUBSET Processes]]
    BY DEF TaskTypeOK, Ends
  <2>2. holders' \in [Tasks -> [Ends -> SUBSET Processes]]
    BY <2>1 DEF TaskTypeOK
  <2> QED BY <2>2 DEF TaskTypeOK, Results, Asserted
<1>2. ChildFits'
  <2>1. child[t] \in Over /\ t \notin executed
    BY DEF TaskTypeOK, ChildFits, ChildHolds, Over
  <2> QED BY <2>1 DEF TaskTypeOK, LaunchFits, ChildFits, Over
<1>3. ParentHolds'
  BY TaskAssumption DEF TaskTypeOK, LaunchFits, ParentHolds, Ends
<1>4. ChildHolds'
  <2>1. \A u, v \in Tasks, e \in Ends : u \in holders'[v][e] <=> u \in holders[v][e]
    BY TaskAssumption DEF TaskTypeOK
  <2> QED BY <2>1 DEF ChildHolds, Ends
<1>5. HandlerFits'
  BY DEF TaskTypeOK, LaunchFits, HandlerFits
<1>6. WaitFits'
  BY DEF TaskTypeOK, WaitFits, Waits, NotWaiting
<1>7. WaitedTaskIsDone'
  BY DEF TaskTypeOK, WaitFits, WaitedTaskIsDone, Waits, NotWaiting
<1>8. AssertionsHold'
  <2>1. child[t] \in Over
    BY DEF TaskTypeOK, ChildFits, ChildHolds, Over
  <2> QED BY <2>1 DEF AssertionsHold, Over
<1>9. LaunchFits'
  BY DEF TaskTypeOK, LaunchFits
<1> QED BY <1>1, <1>2, <1>3, <1>4, <1>5, <1>6, <1>7, <1>8, <1>9

LEMMA ReadAnswerInv == ASSUME TaskInv, NEW t \in Tasks, ReadAnswer(t) PROVE TaskInv'
<1> USE DEF TaskInv, ReadAnswer, Launching, pipeVars, exitVars, clientVars
<1>1. TaskTypeOK'
  BY DEF TaskTypeOK, Results
<1>2. ChildFits'
  <2>1. holders[t]["c2pWrite"] = {} => child[t] \in {"program"} \cup Over
    BY DEF TaskTypeOK, LaunchFits, ChildHolds, Over
  <2>2. t \in refused => t \in report
    BY DEF ChildFits
  <2> QED BY <2>1, <2>2 DEF TaskTypeOK, LaunchFits, ChildFits, Over
<1>3. ParentHolds'
  BY DEF TaskTypeOK, LaunchFits, ParentHolds
<1>4. HandlerFits'
  BY DEF TaskTypeOK, LaunchFits, HandlerFits
<1>5. WaitedTaskIsDone'
  BY DEF TaskTypeOK, WaitFits, WaitedTaskIsDone, Waits, NotWaiting
<1>6. LaunchFits' /\ ChildHolds' /\ WaitFits' /\ AssertionsHold'
  BY DEF TaskTypeOK, LaunchFits, ChildHolds, WaitFits, AssertionsHold
<1> QED BY <1>1, <1>2, <1>3, <1>4, <1>5, <1>6

LEMMA ReturnInv == ASSUME TaskInv, NEW t \in Tasks, Return(t) PROVE TaskInv'
<1> USE DEF TaskInv, Return, Launching, Close, exitVars, clientVars
<1>1. TaskTypeOK'
  BY DEF TaskTypeOK, Ends, Results
<1>2. ChildFits'
  BY DEF TaskTypeOK, ChildFits, Over
<1>3. ParentHolds'
  BY TaskAssumption DEF TaskTypeOK, LaunchFits, ParentHolds, Ends
<1>4. ChildHolds'
  BY TaskAssumption DEF TaskTypeOK, LaunchFits, ChildHolds, Ends
<1>5. HandlerFits'
  BY DEF TaskTypeOK, LaunchFits, HandlerFits
<1>6. LaunchFits' /\ WaitFits' /\ WaitedTaskIsDone' /\ AssertionsHold'
  BY DEF TaskTypeOK, LaunchFits, WaitFits, WaitedTaskIsDone, AssertionsHold
<1> QED BY <1>1, <1>2, <1>3, <1>4, <1>5, <1>6

---------------------------------------------------------------------------
(* The child.                                                              *)

LEMMA ChildClosesInv == ASSUME TaskInv, NEW t \in Tasks, ChildCloses(t) PROVE TaskInv'
<1> USE DEF TaskInv, ChildCloses, Close, exitVars, clientVars
<1>1. TaskTypeOK'
  BY DEF TaskTypeOK, Ends, Results
<1>2. ChildFits'
  BY DEF TaskTypeOK, ChildFits, Over
<1>3. ParentHolds'
  BY TaskAssumption DEF TaskTypeOK, LaunchFits, ParentHolds, Ends
<1>4. ChildHolds'
  BY TaskAssumption DEF TaskTypeOK, LaunchFits, ChildHolds, Ends
<1>5. LaunchFits' /\ HandlerFits' /\ WaitFits' /\ WaitedTaskIsDone' /\ AssertionsHold'
  BY DEF TaskTypeOK, LaunchFits, HandlerFits, WaitFits, WaitedTaskIsDone, AssertionsHold
<1> QED BY <1>1, <1>2, <1>3, <1>4, <1>5

LEMMA ChildReadsInv == ASSUME TaskInv, NEW t \in Tasks, ChildReads(t) PROVE TaskInv'
<1> USE DEF TaskInv, ChildReads, CloseForExec, exitVars, clientVars
<1>1. TaskTypeOK'
  BY DEF TaskTypeOK, Ends, Results
<1>2. ChildFits'
  <2>1. pc[t] \notin {"forked", "writing"}
    BY DEF TaskTypeOK, ParentHolds, ChildFits
  <2> QED BY <2>1 DEF TaskTypeOK, LaunchFits, ChildFits, Over
<1>3. ParentHolds'
  BY TaskAssumption DEF TaskTypeOK, LaunchFits, ParentHolds, Ends
<1>4. ChildHolds'
  BY TaskAssumption DEF TaskTypeOK, LaunchFits, ChildHolds, Ends
<1>5. LaunchFits' /\ HandlerFits' /\ WaitFits' /\ WaitedTaskIsDone' /\ AssertionsHold'
  BY DEF TaskTypeOK, LaunchFits, HandlerFits, WaitFits, WaitedTaskIsDone, AssertionsHold
<1> QED BY <1>1, <1>2, <1>3, <1>4, <1>5

LEMMA ChildExecsInv == ASSUME TaskInv, NEW t \in Tasks, ChildExecs(t) PROVE TaskInv'
<1> USE DEF TaskInv, ChildExecs, Close, exitVars, clientVars
<1>1. TaskTypeOK'
  BY DEF TaskTypeOK, Ends, Results
<1>2. ChildFits'
  BY DEF TaskTypeOK, ChildFits, Over
<1>3. ParentHolds'
  BY TaskAssumption DEF TaskTypeOK, LaunchFits, ParentHolds, Ends
<1>4. LaunchFits' /\ ChildHolds' /\ HandlerFits' /\ WaitFits' /\ WaitedTaskIsDone' /\ AssertionsHold'
  BY DEF TaskTypeOK, LaunchFits, ChildHolds, HandlerFits, WaitFits, WaitedTaskIsDone, AssertionsHold
<1> QED BY <1>1, <1>2, <1>3, <1>4

LEMMA ChildGivesUpInv == ASSUME TaskInv, NEW t \in Tasks, ChildGivesUp(t) PROVE TaskInv'
<1> USE DEF TaskInv, ChildGivesUp, CloseAll, exitVars, clientVars
<1>1. TaskTypeOK'
  BY DEF TaskTypeOK, Results
<1>2. ChildFits'
  <2>1. pc[t] \in {"forked", "writing", "reading"} => t \in report'
    BY DEF ParentHolds
  <2> QED BY <2>1 DEF TaskTypeOK, LaunchFits, ChildFits, Over
<1>3. ParentHolds'
  BY TaskAssumption DEF TaskTypeOK, ParentHolds, Ends
<1>4. ChildHolds'
  BY DEF TaskTypeOK, ChildHolds, Ends
<1>5. LaunchFits' /\ HandlerFits' /\ WaitFits' /\ WaitedTaskIsDone' /\ AssertionsHold'
  BY DEF TaskTypeOK, LaunchFits, HandlerFits, WaitFits, WaitedTaskIsDone, AssertionsHold
<1> QED BY <1>1, <1>2, <1>3, <1>4, <1>5

LEMMA ChildDiesInv == ASSUME TaskInv, NEW t \in Tasks, ChildDies(t) PROVE TaskInv'
<1> USE DEF TaskInv, ChildDies, CloseAll, exitVars, clientVars
<1>1. TaskTypeOK'
  BY DEF TaskTypeOK, Results
<1>2. ChildFits'
  BY DEF TaskTypeOK, ChildFits, Over
<1>3. ParentHolds'
  BY TaskAssumption DEF TaskTypeOK, ParentHolds, Ends
<1>4. ChildHolds'
  BY DEF TaskTypeOK, ChildHolds, Ends
<1>5. LaunchFits' /\ HandlerFits' /\ WaitFits' /\ WaitedTaskIsDone' /\ AssertionsHold'
  BY DEF TaskTypeOK, LaunchFits, HandlerFits, WaitFits, WaitedTaskIsDone, AssertionsHold
<1> QED BY <1>1, <1>2, <1>3, <1>4, <1>5

LEMMA OthersReapInv == ASSUME TaskInv, NEW t \in Tasks, OthersReap(t) PROVE TaskInv'
<1> USE DEF TaskInv, OthersReap, pipeVars, exitVars, clientVars
<1>1. TaskTypeOK'
  BY DEF TaskTypeOK, Results
<1>2. ChildFits'
  BY DEF TaskTypeOK, ChildFits, Over
<1>3. LaunchFits' /\ ParentHolds' /\ ChildHolds' /\ HandlerFits' /\ WaitFits' /\ WaitedTaskIsDone' /\ AssertionsHold'
  BY DEF TaskTypeOK, LaunchFits, ParentHolds, ChildHolds, HandlerFits, WaitFits, WaitedTaskIsDone, AssertionsHold
<1> QED BY <1>1, <1>2, <1>3

---------------------------------------------------------------------------
(* The event handler, and signals.                                         *)

LEMMA HandlerReapsInv == ASSUME TaskInv, NEW t \in Tasks, HandlerReaps(t) PROVE TaskInv'
<1> USE DEF TaskInv, HandlerReaps, pipeVars, exitVars, clientVars
<1>1. TaskTypeOK'
  BY DEF TaskTypeOK, Results
<1>2. ChildFits'
  BY DEF TaskTypeOK, ChildFits, Over
<1>3. LaunchFits' /\ ParentHolds' /\ ChildHolds' /\ HandlerFits' /\ WaitFits' /\ WaitedTaskIsDone' /\ AssertionsHold'
  BY DEF TaskTypeOK, LaunchFits, ParentHolds, ChildHolds, HandlerFits, WaitFits, WaitedTaskIsDone, AssertionsHold
<1> QED BY <1>1, <1>2, <1>3

LEMMA HandlerGivesUpInv == ASSUME TaskInv, NEW t \in Tasks, HandlerGivesUp(t) PROVE TaskInv'
<1> USE DEF TaskInv, HandlerGivesUp, pipeVars, exitVars, clientVars
<1>1. TaskTypeOK'
  BY DEF TaskTypeOK, Results
<1>2. ChildFits'
  BY DEF TaskTypeOK, ChildFits, Over
<1>3. LaunchFits' /\ ParentHolds' /\ ChildHolds' /\ HandlerFits' /\ WaitFits' /\ WaitedTaskIsDone' /\ AssertionsHold'
  BY DEF TaskTypeOK, LaunchFits, ParentHolds, ChildHolds, HandlerFits, WaitFits, WaitedTaskIsDone, AssertionsHold
<1> QED BY <1>1, <1>2, <1>3

LEMMA HandlerStopsInv == ASSUME TaskInv, NEW t \in Tasks, HandlerStops(t) PROVE TaskInv'
<1> USE DEF TaskInv, HandlerStops, pipeVars, exitVars, clientVars
<1>1. TaskTypeOK'
  BY DEF TaskTypeOK, Asserted
<1>2. ChildFits'
  BY DEF TaskTypeOK, ChildFits, Over
<1>3. WaitedTaskIsDone'
  BY DEF TaskTypeOK, WaitedTaskIsDone, Waits, NotWaiting
<1>4. AssertionsHold'
  BY DEF TaskTypeOK, LaunchFits, HandlerFits, AssertionsHold
<1>5. LaunchFits' /\ ParentHolds' /\ ChildHolds' /\ HandlerFits' /\ WaitFits'
  BY DEF TaskTypeOK, LaunchFits, ParentHolds, ChildHolds, HandlerFits, WaitFits
<1> QED BY <1>1, <1>2, <1>3, <1>4, <1>5

LEMMA HandlerSignalsInv == ASSUME TaskInv, NEW t \in Tasks, HandlerSignals(t) PROVE TaskInv'
<1> USE DEF TaskInv, HandlerSignals, pipeVars, exitVars, clientVars
<1>1. TaskTypeOK'
  BY DEF TaskTypeOK, Results
<1>2. ChildFits'
  BY DEF TaskTypeOK, ChildFits, Over
<1>3. LaunchFits' /\ ParentHolds' /\ ChildHolds' /\ HandlerFits' /\ WaitFits' /\ WaitedTaskIsDone' /\ AssertionsHold'
  BY DEF TaskTypeOK, LaunchFits, ParentHolds, ChildHolds, HandlerFits, WaitFits, WaitedTaskIsDone, AssertionsHold
<1> QED BY <1>1, <1>2, <1>3

LEMMA HandlerNotifiesInv == ASSUME TaskInv, NEW t \in Tasks, HandlerNotifies(t) PROVE TaskInv'
<1> USE DEF TaskInv, HandlerNotifies, pipeVars, exitVars, clientVars
<1>1. TaskTypeOK'
  BY DEF TaskTypeOK, Results
<1>2. ChildFits'
  BY DEF TaskTypeOK, ChildFits, Over
<1>3. LaunchFits' /\ ParentHolds' /\ ChildHolds' /\ HandlerFits' /\ WaitFits' /\ WaitedTaskIsDone' /\ AssertionsHold'
  BY DEF TaskTypeOK, LaunchFits, ParentHolds, ChildHolds, HandlerFits, WaitFits, WaitedTaskIsDone, AssertionsHold
<1> QED BY <1>1, <1>2, <1>3

LEMMA SignalLooksInv == ASSUME TaskInv, NEW t \in Tasks, SignalLooks(t) PROVE TaskInv'
<1> USE DEF TaskInv, SignalLooks, pipeVars, exitVars, clientVars
<1>1. TaskTypeOK'
  BY DEF TaskTypeOK, Results
<1>2. ChildFits'
  BY DEF TaskTypeOK, ChildFits, Over
<1>3. LaunchFits' /\ ParentHolds' /\ ChildHolds' /\ HandlerFits' /\ WaitFits' /\ WaitedTaskIsDone' /\ AssertionsHold'
  BY DEF TaskTypeOK, LaunchFits, ParentHolds, ChildHolds, HandlerFits, WaitFits, WaitedTaskIsDone, AssertionsHold
<1> QED BY <1>1, <1>2, <1>3

LEMMA SignalKillsInv == ASSUME TaskInv, NEW t \in Tasks, SignalKills(t) PROVE TaskInv'
<1> USE DEF TaskInv, SignalKills, CloseAll, exitVars, clientVars
<1>1. TaskTypeOK'
  <2>1. holders' \in [Tasks -> [Ends -> SUBSET Processes]]
    BY DEF TaskTypeOK
  <2> QED BY <2>1 DEF TaskTypeOK
<1>2. ChildFits'
  BY DEF TaskTypeOK, ChildFits, Over
<1>3. ParentHolds'
  <2>1. \A u \in Tasks, e \in Ends : Parent \in holders'[u][e] <=> Parent \in holders[u][e]
    BY TaskAssumption DEF TaskTypeOK
  <2> QED BY <2>1 DEF ParentHolds, Ends
<1>4. ChildHolds'
  <2>1. \A u, v \in Tasks, e \in Ends :
            /\ u \in holders'[v][e] => u \in holders[v][e]
            /\ u # t => holders'[v][e] = holders[v][e] \/ holders'[v][e] = holders[v][e] \ {t}
    BY DEF TaskTypeOK
  <2> QED BY <2>1 DEF TaskTypeOK, ChildHolds, Ends
<1>5. WaitedTaskIsDone'
  BY DEF TaskTypeOK, HandlerFits, WaitedTaskIsDone, Waits, NotWaiting
<1>6. LaunchFits' /\ HandlerFits' /\ WaitFits' /\ AssertionsHold'
  BY DEF TaskTypeOK, LaunchFits, HandlerFits, WaitFits, AssertionsHold
<1> QED BY <1>1, <1>2, <1>3, <1>4, <1>5, <1>6

---------------------------------------------------------------------------
(* Who waits.                                                              *)

LEMMA WaitChecksInv ==
    ASSUME TaskInv, NEW w \in Waiters, NEW t \in Tasks, WaitChecks(w, t) PROVE TaskInv'
<1> USE DEF TaskInv, WaitChecks, WaitAt, pipeVars, exitVars
<1>1. TaskTypeOK'
  BY DEF TaskTypeOK, Waits, Asserted
<1>2. LaunchFits' /\ ChildFits' /\ ParentHolds' /\ ChildHolds' /\ HandlerFits'
  BY DEF LaunchFits, ChildFits, ParentHolds, ChildHolds, HandlerFits
<1>3. \A v \in Waiters :
          waiting'[v] \in {waiting[v], [at |-> "checked", task |-> t]}
  BY DEF TaskTypeOK
<1>4. WaitFits'
  BY <1>3 DEF WaitFits
<1>5. WaitedTaskIsDone'
  BY <1>3 DEF WaitedTaskIsDone
<1>6. AssertionsHold'
  BY DEF AssertionsHold
<1> QED BY <1>1, <1>2, <1>4, <1>5, <1>6

\* A waiter goes on with the task it checked.
LEMMA GoesToInv ==
    ASSUME TaskInv, NEW w \in Waiters, waiting[w].at # "none",
           NEW stage \in {"marked", "asleep", "returned"}, WaitGoesTo(w, stage)
    PROVE  /\ waiting[w].task \in Tasks
           /\ waiting' \in [Waiters -> {NotWaiting} \cup Waits]
           /\ \A v \in Waiters :
                  waiting'[v] \in {waiting[v], [at |-> stage, task |-> waiting[w].task]}
           /\ WaitFits /\ UNCHANGED pc => WaitFits'
<1>1. waiting[w] \in Waits
  BY DEF TaskInv, TaskTypeOK, NotWaiting
<1>2. [waiting[w] EXCEPT !.at = stage] = [at |-> stage, task |-> waiting[w].task]
  BY <1>1 DEF Waits
<1>3. waiting[w].task \in Tasks /\ [at |-> stage, task |-> waiting[w].task] \in Waits
  BY <1>1 DEF Waits
<1>4. \A v \in Waiters :
          waiting'[v] \in {waiting[v], [at |-> stage, task |-> waiting[w].task]}
  BY <1>2 DEF WaitGoesTo, TaskInv, TaskTypeOK
<1>5. waiting' \in [Waiters -> {NotWaiting} \cup Waits]
  BY <1>2, <1>3 DEF WaitGoesTo, TaskInv, TaskTypeOK
<1>6. WaitFits /\ UNCHANGED pc => WaitFits'
  BY <1>4 DEF WaitFits
<1> QED BY <1>3, <1>4, <1>5, <1>6

LEMMA WaitMarksInv == ASSUME TaskInv, NEW w \in Waiters, WaitMarks(w) PROVE TaskInv'
<1> USE DEF TaskInv, WaitMarks, WaitAt, pipeVars, exitVars
<1> DEFINE t == waiting[w].task
<1>1. /\ t \in Tasks /\ waiting' \in [Waiters -> {NotWaiting} \cup Waits] /\ WaitFits'
      /\ \A v \in Waiters : waiting'[v] \in {waiting[v], [at |-> "marked", task |-> t]}
  BY GoesToInv
<1>2. TaskTypeOK'
  BY <1>1 DEF TaskTypeOK
<1>3. LaunchFits' /\ ChildFits' /\ ParentHolds' /\ ChildHolds' /\ HandlerFits'
  BY DEF LaunchFits, ChildFits, ParentHolds, ChildHolds, HandlerFits
<1>4. WaitedTaskIsDone'
  BY <1>1 DEF WaitedTaskIsDone
<1>5. AssertionsHold'
  BY DEF AssertionsHold
<1> QED BY <1>1, <1>2, <1>3, <1>4, <1>5

LEMMA WaitLooksInv == ASSUME TaskInv, NEW w \in Waiters, WaitLooks(w) PROVE TaskInv'
<1> USE DEF TaskInv, WaitLooks, WaitAt, pipeVars, exitVars
<1> DEFINE t == waiting[w].task
           stage == IF t \in running THEN "asleep" ELSE "returned"
<1>1. /\ t \in Tasks /\ waiting' \in [Waiters -> {NotWaiting} \cup Waits] /\ WaitFits'
      /\ \A v \in Waiters : waiting'[v] \in {waiting[v], [at |-> stage, task |-> t]}
  BY GoesToInv
<1>2. TaskTypeOK'
  BY <1>1 DEF TaskTypeOK
<1>3. LaunchFits' /\ ChildFits' /\ ParentHolds' /\ ChildHolds' /\ HandlerFits'
  BY DEF LaunchFits, ChildFits, ParentHolds, ChildHolds, HandlerFits
<1>4. WaitedTaskIsDone'
  <2>1. result[t] = "success" /\ t \notin running =>
            child[t] = "reaped" /\ handler[t] \in {"stopped", "signalled", "notified"}
    BY <1>1 DEF TaskTypeOK, HandlerFits
  <2> QED BY <1>1, <2>1 DEF WaitedTaskIsDone
<1>5. AssertionsHold'
  BY DEF AssertionsHold
<1> QED BY <1>1, <1>2, <1>3, <1>4, <1>5

LEMMA WaitEndsInv == ASSUME TaskInv, NEW w \in Waiters, WaitEnds(w) PROVE TaskInv'
<1> USE DEF TaskInv, WaitEnds, WaitAt, pipeVars
<1> DEFINE t == waiting[w].task
<1>1. /\ t \in Tasks /\ waiting' \in [Waiters -> {NotWaiting} \cup Waits] /\ WaitFits'
      /\ \A v \in Waiters : waiting'[v] \in {waiting[v], [at |-> "returned", task |-> t]}
  BY GoesToInv
<1>2. semaphore[t] \in Nat /\ semaphore' \in [Tasks -> Nat]
  BY <1>1 DEF TaskTypeOK
<1>3. TaskTypeOK'
  BY <1>1, <1>2 DEF TaskTypeOK
<1>4. LaunchFits' /\ ChildFits' /\ ParentHolds' /\ ChildHolds'
  BY DEF LaunchFits, ChildFits, ParentHolds, ChildHolds
<1>5. HandlerFits'
  BY <1>1, <1>2 DEF TaskTypeOK, HandlerFits
<1>6. WaitedTaskIsDone'
  <2>1. child[t] = "reaped" /\ handler[t] \in {"signalled", "notified"} /\ t \notin running
    BY <1>1, <1>2 DEF HandlerFits
  <2> QED BY <1>1, <2>1 DEF WaitedTaskIsDone
<1>7. AssertionsHold'
  BY DEF AssertionsHold
<1> QED BY <1>1, <1>3, <1>4, <1>5, <1>6, <1>7

---------------------------------------------------------------------------

LEMMA TaskNextInv == TaskInv /\ [Next]_vars => TaskInv'
<1> SUFFICES ASSUME TaskInv, [Next]_vars PROVE TaskInv'
  OBVIOUS
<1>1. ASSUME NEW t \in Tasks, MakePipes(t) \/ LaunchStep(t) PROVE TaskInv'
  BY <1>1, MakePipesInv, ForkInv, ForkFailsInv, SetUpInv, WriteGoInv, WriteFailsInv,
     ReadAnswerInv, ReturnInv DEF LaunchStep
<1>2. ASSUME NEW t \in Tasks, ChildStep(t) \/ ChildDies(t) \/ OthersReap(t) PROVE TaskInv'
  BY <1>2, ChildClosesInv, ChildReadsInv, ChildExecsInv, ChildGivesUpInv, ChildDiesInv,
     OthersReapInv DEF ChildStep
<1>3. ASSUME NEW t \in Tasks, HandlerStep(t) PROVE TaskInv'
  BY <1>3, HandlerReapsInv, HandlerGivesUpInv, HandlerStopsInv, HandlerSignalsInv,
     HandlerNotifiesInv DEF HandlerStep
<1>4. ASSUME NEW t \in Tasks, SignalLooks(t) \/ SignalKills(t) PROVE TaskInv'
  BY <1>4, SignalLooksInv, SignalKillsInv
<1>5. ASSUME NEW w \in Waiters, NEW t \in Awaited, WaitChecks(w, t) PROVE TaskInv'
  BY <1>5, WaitChecksInv, TaskAssumption
<1>6. ASSUME NEW w \in Waiters, WaitStep(w) PROVE TaskInv'
  BY <1>6, WaitMarksInv, WaitLooksInv, WaitEndsInv DEF WaitStep
<1>7. CASE UNCHANGED vars
  BY <1>7 DEF vars, pipeVars, exitVars, clientVars, TaskInv, TaskTypeOK, LaunchFits,
     ChildFits, ParentHolds, ChildHolds, HandlerFits, WaitFits, WaitedTaskIsDone, AssertionsHold
<1> QED BY <1>1, <1>2, <1>3, <1>4, <1>5, <1>6, <1>7 DEF Next

\* The inductive invariant of BRUTask holds in every reachable state.
THEOREM TaskInvariantHolds == Spec => []TaskInv
<1>1. Init => TaskInv
  <2> SUFFICES ASSUME Init PROVE TaskInv
    OBVIOUS
  <2>1. TaskTypeOK
    BY DEF Init, TaskTypeOK, Results, Asserted
  <2>2. LaunchFits /\ ChildFits /\ ParentHolds /\ ChildHolds /\ HandlerFits
    BY DEF Init, LaunchFits, ChildFits, ParentHolds, ChildHolds, HandlerFits, Ends
  <2>3. WaitFits /\ WaitedTaskIsDone /\ AssertionsHold
    BY DEF Init, WaitFits, WaitedTaskIsDone, AssertionsHold, NotWaiting
  <2> QED BY <2>1, <2>2, <2>3 DEF TaskInv
<1> QED BY <1>1, TaskNextInv, PTL DEF Spec

\* The exit of a child never meets a task that does not run, and nothing but a second
\* wait or SIGPIPE stops the parent (BRUTask.m:391).
THEOREM TaskAssertionsHold == Spec => []AssertionsHold
<1>1. TaskInv => AssertionsHold
  BY DEF TaskInv
<1> QED BY <1>1, TaskInvariantHolds, PTL

\* launchWithError: tells the truth about the program, although all it has is the
\* closing of a pipe that children of other launches inherit as well (BRUTask.m:208-341).
THEOREM LaunchTellsTheTruth == Spec => []LaunchResultIsTrue
<1>1. TaskInv => LaunchResultIsTrue
  BY DEF TaskInv, TaskTypeOK, LaunchFits, ChildFits, LaunchResultIsTrue, Failures, Results, Over
<1> QED BY <1>1, TaskInvariantHolds, PTL

\* No end of a pipe stays open in the parent or in a program (BRUTask.m:215-324).
THEOREM DescriptorsAreClosed == Spec => []NoDescriptorLeft
<1>1. TaskInv => NoDescriptorLeft
  BY DEF TaskInv, ParentHolds, ChildHolds, NoDescriptorLeft, Ends
<1> QED BY <1>1, TaskInvariantHolds, PTL

\* A signal never reaches a child before its execve (BRUTask.m:329-336, 437-471).
THEOREM SignalsMeetPrograms == Spec => []SignalsFindTheProgram
<1>1. TaskInv => SignalsFindTheProgram
  BY DEF TaskInv, TaskTypeOK, ChildFits, HandlerFits, SignalsFindTheProgram, Over
<1> QED BY <1>1, TaskInvariantHolds, PTL

\* waitUntilExit returns after the exit was dealt with (BRUTask.m:385-405, 486-510).
THEOREM WaitersSeeTheExit == Spec => []WaitedTaskIsDone
<1>1. TaskInv => WaitedTaskIsDone
  BY DEF TaskInv
<1> QED BY <1>1, TaskInvariantHolds, PTL
===============================================================================
