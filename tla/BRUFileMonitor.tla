---------------------------- MODULE BRUFileMonitor ----------------------------
(***************************************************************************)
(* BRUFileMonitor (src/BromiumCoreUtils/BRUFileMonitor.m) and the file     *)
(* system under it.  The path has three components: the root, a directory  *)
(* in it and a file in that directory.  The monitor opens each component   *)
(* that exists and has a dispatch source on it; an event makes its handler *)
(* dispatch a block to syncQueue, which looks at the path with lstat and   *)
(* compares the inode with the last one.  Every other process may replace, *)
(* remove, create and write between any two of these steps.                *)
(*                                                                         *)
(* A directory or file stands for its inode.                               *)
(***************************************************************************)
EXTENDS SequencesExt, Naturals

CONSTANTS
    Dirs,           \* the directories that may be at the path's second component
    Files,          \* the files that may be at the path
    Nil,            \* nothing: ENOENT
    MaxChanges,     \* bound on the changes of the file system
    MaxCalls        \* bound on the calls of start and stop

VARIABLES
    dirAt,          \* the directory at the second component, or Nil
    fileIn,         \* the file with the path's last name in each directory, or Nil
    changes,        \* counter of the bound MaxChanges
    calls,          \* counter of the bound MaxCalls
    stat,           \* the inode of the field stat, or Nil if not isStatValid
    monitoring,     \* dispatch_source_list is not nil
    sources,        \* the source on each component
    task,           \* what the block that runs on syncQueue does now
    syncQueue,      \* the blocks dispatched to it: components, for which a handler
                    \* ran, and NoPath
    told,           \* history: the file at the path when the client was last told
    unread,         \* history: a write that the client has to be told of
    fooled,         \* history: a failed start overwrote stat
    blind,          \* history: evaluateForPath: left sources as they are of which one
                    \* is not on what is at its component
    aborted         \* the assertion that failed, or "no"

world == << dirAt, fileIn, changes >>
history == << told, unread, fooled, blind >>
vars == << world, calls, stat, monitoring, sources, task, syncQueue,
           history, aborted >>

Root == "root"
Components == 0 .. 2
Path == 2       \* self.path among the components
NoPath == 3     \* nil, which the resyncBlock evaluates for

ASSUME NilIsNoInode == Nil \notin Dirs \cup Files \cup {Root}

\* A source that was cancelled, or of a component that could not be opened.
Closed == [inode |-> Nil, registered |-> FALSE, pending |-> FALSE]

Idle == [does |-> "nothing", next |-> 0]
Building(caller, next) == [does |-> caller, next |-> next]

\* The inode at a component of the path.
At(c) ==
    IF c = 0 THEN Root
    ELSE IF c = 1 \/ dirAt = Nil THEN dirAt
    ELSE fileIn[dirAt]

Init ==
    /\ dirAt \in Dirs \cup {Nil}
    /\ fileIn \in [Dirs -> Files \cup {Nil}]
    /\ \A d, e \in Dirs : fileIn[d] = fileIn[e] => d = e \/ fileIn[d] = Nil
    /\ changes = 0 /\ calls = 0
    /\ stat = Nil
    /\ monitoring = FALSE
    /\ sources = [c \in Components |-> Closed]
    /\ task = Idle
    /\ syncQueue = << >>
    /\ told = Nil /\ unread = FALSE /\ fooled = FALSE /\ blind = FALSE
    /\ aborted = "no"

Running == aborted = "no"

---------------------------------------------------------------------------
(* The file system; what happened before the first call is in Init.  A     *)
(* registered source on an inode gets the event.                           *)

Changes(inodes) ==
    /\ Running /\ changes < MaxChanges /\ calls > 0
    /\ changes' = changes + 1
    /\ sources' = [c \in Components |->
                      IF sources[c].registered /\ sources[c].inode \in inodes
                      THEN [sources[c] EXCEPT !.pending = TRUE]
                      ELSE sources[c]]
    /\ UNCHANGED << calls, stat, monitoring, task, syncQueue, told,
                    fooled, blind, aborted >>

\* Creates, removes or replaces the directory, or moves it away.
LinkDir(x) ==
    /\ dirAt # x
    /\ dirAt' = x
    /\ Changes({Root, dirAt, x} \ {Nil})
    /\ UNCHANGED << fileIn, unread >>

\* Creates, removes or replaces the file in a directory, at the path or elsewhere.
LinkFile(d, x) ==
    /\ fileIn[d] # x
    /\ x = Nil \/ \A e \in Dirs : fileIn[e] # x
    /\ fileIn' = [fileIn EXCEPT ![d] = x]
    /\ Changes({d, fileIn[d], x} \ {Nil})
    /\ UNCHANGED << dirAt, unread >>

\* Writes to a file, or changes its attributes, where it matters.  The client has to be
\* told unless the monitors are just being built.
Write(f) ==
    /\ f \in {At(Path), sources[Path].inode}
    /\ Changes({f})
    /\ unread' = (unread \/ /\ f = At(Path) /\ task = Idle
                            /\ sources[Path].registered /\ sources[Path].inode = f)
    /\ UNCHANGED << dirAt, fileIn >>

Environment ==
    \/ \E x \in Dirs \cup {Nil} : LinkDir(x)
    \/ \E d \in Dirs, x \in Files \cup {Nil} : LinkFile(d, x)
    \/ \E f \in Files : Write(f)

---------------------------------------------------------------------------
(* The steps of the monitor.                                               *)

Abort(assertion) ==
    /\ aborted' = assertion
    /\ UNCHANGED << world, calls, stat, monitoring, sources, task,
                    syncQueue, history >>

\* buildMonitors begins, for start or to rebuild.
BuildMonitors(caller) == task' = Building(caller, 0)

\* buildMonitors opens the next component and resumes a source on it.
Open ==
    /\ Running /\ task.does \in {"start", "rebuild"} /\ task.next \in Components
    /\ sources' = [sources EXCEPT ![task.next] = [Closed EXCEPT !.inode = At(task.next)]]
    /\ task' = [task EXCEPT !.next = @ + 1]
    /\ UNCHANGED << world, calls, stat, monitoring, syncQueue, history,
                    aborted >>

\* The kernel registers a source; what happened before is not reported to it.
Register(c) ==
    /\ Running /\ sources[c].inode # Nil /\ ~sources[c].registered
    /\ sources' = [sources EXCEPT ![c].registered = TRUE]
    /\ UNCHANGED << world, calls, stat, monitoring, task, syncQueue,
                    history, aborted >>

AllRegistered == \A c \in Components : sources[c].inode # Nil => sources[c].registered

\* Mutation: rebuildBlock does not look at the path again.
BuildEnds_NoResync ==
    /\ Running /\ task.does \in {"start", "rebuild"} /\ task.next = 3 /\ AllRegistered
    /\ monitoring' = TRUE
    /\ task' = IF task.does = "start" THEN [Idle EXCEPT !.does = "evaluate"] ELSE Idle
    /\ UNCHANGED << world, calls, stat, sources, syncQueue, history, aborted >>

\* buildMonitors has waited for the registrations.  start evaluates at once; the
\* rebuildBlock dispatches the resyncBlock.
BuildEnds ==
    /\ Running /\ task.does \in {"start", "rebuild"} /\ task.next = 3 /\ AllRegistered
    /\ monitoring' = TRUE
    /\ \/ /\ task.does = "start"
          /\ task' = [Idle EXCEPT !.does = "evaluate"]
          /\ UNCHANGED syncQueue
       \/ /\ task.does = "rebuild"
          /\ task' = Idle
          /\ syncQueue' = Append(syncQueue, NoPath)
    /\ UNCHANGED << world, calls, stat, sources, history, aborted >>

\* The client is told: it looks, and finds this file or what is there later.
ClientIsTold == told' = At(Path) /\ unread' = FALSE /\ fooled' = FALSE

\* What lstat says is not what it said last time.
Differs == At(Path) # stat

\* The rebuildBlock begins; destroying the monitors is a step of its own.
Rebuild == task' = [Idle EXCEPT !.does = "destroy"]

\* lstat, and what it says becomes isStatValid and stat.
Look == stat' = At(Path)

\* Mutation: the inode of another file is not kept.
EvaluateForPath_ForgetsStat ==
    /\ stat' = IF At(Path) = Nil \/ stat = Nil THEN At(Path) ELSE stat
    /\ IF Differs THEN Rebuild ELSE task' = Idle
    /\ blind' = FALSE

EvaluateForPath ==
    /\ Look
    /\ IF Differs THEN Rebuild ELSE task' = Idle
    /\ blind' = (~Differs /\ \E c \in Components : sources[c].inode # At(c))

\* evaluateForPath: invokes the callback, with the component of an event or NoPath:
\* the same file is worth a callback if the event was its own.
InvokesCallback(path) == Differs \/ (stat # Nil /\ path = Path)

CloseAll == sources' = [c \in Components |-> Closed] /\ monitoring' = FALSE

\* destroyMonitors in the rebuildBlock.  A cancelled source calls no handler.
DestroyMonitors ==
    /\ Running /\ task.does = "destroy"
    /\ IF ~monitoring
       THEN Abort("destroying monitors when already destroyed")
       ELSE /\ CloseAll
            /\ BuildMonitors("rebuild")
            /\ UNCHANGED << world, calls, stat, syncQueue, history, aborted >>

\* A source's event handler, on monitorQueue.
Handler(c) ==
    /\ Running /\ sources[c].pending
    /\ sources' = [sources EXCEPT ![c].pending = FALSE]
    /\ syncQueue' = Append(syncQueue, c)
    /\ UNCHANGED << world, calls, stat, monitoring, task, history, aborted >>

\* Mutation: the block does not check whether the monitor was stopped.
RunBlock_AfterStop ==
    /\ Running /\ task = Idle /\ syncQueue # << >>
    /\ syncQueue' = Tail(syncQueue)
    /\ EvaluateForPath
    /\ IF InvokesCallback(Head(syncQueue)) THEN ClientIsTold ELSE UNCHANGED << told, unread, fooled >>
    /\ UNCHANGED << world, calls, monitoring, sources, aborted >>

\* A block of syncQueue, a handler's or the resyncBlock.
RunBlock ==
    /\ Running /\ task = Idle /\ syncQueue # << >>
    /\ syncQueue' = Tail(syncQueue)
    /\ IF monitoring THEN EvaluateForPath ELSE UNCHANGED << stat, task, blind >>
    /\ IF monitoring /\ InvokesCallback(Head(syncQueue))
       THEN ClientIsTold ELSE UNCHANGED << told, unread, fooled >>
    /\ UNCHANGED << world, calls, monitoring, sources, aborted >>

---------------------------------------------------------------------------
(* The client's calls.  dispatch_sync from any thread may have entered     *)
(* syncQueue before the blocks that wait there.                            *)

Calls ==
    /\ Running /\ task = Idle /\ calls < MaxCalls
    /\ calls' = calls + 1

\* startWithError:callback: of a monitor that was started fails.
StartAgain ==
    /\ Calls /\ monitoring
    /\ Look
    /\ fooled' = (fooled \/ Differs)
    /\ UNCHANGED << world, monitoring, sources, task, syncQueue, told, unread,
                    blind, aborted >>

Start ==
    /\ Calls /\ ~monitoring
    /\ Look
    /\ BuildMonitors("start")
    /\ UNCHANGED << world, monitoring, sources, syncQueue, history, aborted >>

\* start evaluates the path before it returns; then the client looks for itself.
StartReturns ==
    /\ Running /\ task.does = "evaluate"
    /\ EvaluateForPath /\ ClientIsTold
    /\ UNCHANGED << world, calls, monitoring, sources, syncQueue, aborted >>

\* stop: of a stopped monitor fails.
Stop ==
    /\ Calls
    /\ IF monitoring
       THEN /\ CloseAll
            /\ stat' = Nil
            /\ told' = Nil /\ unread' = FALSE /\ fooled' = FALSE /\ blind' = FALSE
       ELSE UNCHANGED << sources, monitoring, stat, history >>
    /\ UNCHANGED << world, task, syncQueue, aborted >>

---------------------------------------------------------------------------

Monitor ==
    \/ Open \/ BuildEnds \/ DestroyMonitors \/ RunBlock \/ StartReturns
    \/ \E c \in Components : Register(c) \/ Handler(c)

Client == Start \/ StartAgain \/ Stop

Next == Environment \/ Monitor \/ Client

\* The kernel registers sources and reports events, and libdispatch runs what was
\* dispatched to it.
Fairness ==
    /\ WF_vars(Open \/ BuildEnds \/ DestroyMonitors \/ RunBlock \/ StartReturns)
    /\ \A c \in Components : WF_vars(Register(c)) /\ WF_vars(Handler(c))

Spec == Init /\ [][Next]_vars /\ Fairness

---------------------------------------------------------------------------

\* destroyMonitors never meets destroyed monitors: a block that was dispatched before
\* a stop, or before the monitors it belongs to were rebuilt, finds out in time
\* (BRUFileMonitor.m:178-182, 206, 238-250).
MonitorAssertionsHold == aborted = "no"

\* Nothing is left to do for the monitor.
Quiet ==
    /\ task = Idle /\ syncQueue = << >>
    /\ \A c \in Components : ~sources[c].pending

\* A monitor that has nothing left to do is up to date, whatever was created, removed,
\* replaced or written while it started, looked and rebuilt its sources: the client
\* was told of the file that is at the path and of every write to it, and every
\* component is watched.  Not so after a failed second start overwrote stat; nor when
\* the last look found what it knew although another directory, or the file only
\* after its component was opened, had come to the path: then no sources are rebuilt.
\* Writes during a rebuild are not counted (BRUFileMonitor.m:66-93, 142-212, 232-290).
QuietMonitorIsCurrent ==
    Quiet /\ monitoring /\ ~fooled /\ ~blind =>
        /\ told = At(Path)
        /\ ~unread
        /\ \A c \in Components : sources[c].inode = At(c)

\* Once the file system and the client leave it alone the monitor comes to rest: it
\* does not rebuild its sources for ever (BRUFileMonitor.m:246-290).
MonitorSettles == <>[]Quiet
================================================================================
