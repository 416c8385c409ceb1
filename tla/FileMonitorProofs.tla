--------------------------- MODULE FileMonitorProofs ---------------------------
(***************************************************************************)
(* No block acts on monitors that are gone, and a monitor at rest is up to *)
(* date: for any directories, files and numbers of changes and calls.      *)
(***************************************************************************)
EXTENDS BRUFileMonitor, TLAPS

Inodes == Dirs \cup Files \cup {Root, Nil}
Sources == [inode : Inodes, registered : BOOLEAN, pending : BOOLEAN]
Tasks == [does : {"nothing", "start", "rebuild", "evaluate", "destroy"}, next : 0 .. 3]

MonitorTypeOK ==
    /\ dirAt \in Dirs \cup {Nil} /\ fileIn \in [Dirs -> Files \cup {Nil}]
    /\ stat \in Inodes /\ told \in Inodes
    /\ monitoring \in BOOLEAN
    /\ sources \in [Components -> Sources]
    /\ task \in Tasks
    /\ syncQueue \in Seq(Components \cup {NoPath})
    /\ unread \in BOOLEAN /\ fooled \in BOOLEAN /\ blind \in BOOLEAN

\* A task that is to destroy the monitors, or may decide to, has them: nothing but
\* itself can take them away as long as it occupies syncQueue.
TaskHasMonitors == task.does \in {"evaluate", "destroy"} => monitoring

\* Monitors that are there have all been registered.
MonitorsRegistered ==
    monitoring /\ task.does \in {"nothing", "evaluate", "destroy"} => AllRegistered

\* A monitor that is stopped has none.
StoppedIsClosed ==
    ~monitoring /\ task.does = "nothing" => \A c \in Components : sources[c] = Closed

\* The last look at the path is what the client was told.
ToldOfStat == task.does \in {"start", "evaluate"} \/ fooled \/ told = stat

\* What is not watched as it is now will be found out.
WatchesOrWillLook ==
    monitoring /\ Quiet /\ ~fooled /\ ~blind =>
        /\ stat = At(Path)
        /\ \A c \in Components : sources[c].inode = At(c)

\* A block for the path itself waits in a queue.
PathWaits(queue) == \E i \in 1 .. Len(queue) : queue[i] = Path

\* A write of which the client was not told is on its way, unless a look found the
\* file gone.
WriteIsOnItsWay ==
    unread =>
        /\ task.does = "nothing"
        /\ sources[Path].registered /\ sources[Path].inode # Nil
        /\ \/ sources[Path].pending
           \/ PathWaits(syncQueue)
           \/ stat = Nil /\ blind
           \/ fooled

MonitorInv ==
    /\ MonitorTypeOK
    /\ TaskHasMonitors
    /\ MonitorsRegistered
    /\ StoppedIsClosed
    /\ ToldOfStat
    /\ WatchesOrWillLook
    /\ WriteIsOnItsWay
    /\ MonitorAssertionsHold

---------------------------------------------------------------------------

\* A queue after a block was dispatched to it, and after one ran.
LEMMA QueueLemma ==
    ASSUME NEW S, NEW q \in Seq(S)
    PROVE  /\ \A c \in S : /\ Append(q, c) \in Seq(S) /\ Append(q, c) # << >>
                           /\ PathWaits(q) => PathWaits(Append(q, c))
                           /\ c = Path => PathWaits(Append(q, c))
           /\ q # << >> => /\ Tail(q) \in Seq(S) /\ Head(q) \in S
                           /\ PathWaits(q) /\ Head(q) # Path => PathWaits(Tail(q))
<1>1. ASSUME NEW c \in S
      PROVE  /\ Append(q, c) \in Seq(S) /\ Append(q, c) # << >>
             /\ PathWaits(q) => PathWaits(Append(q, c))
             /\ c = Path => PathWaits(Append(q, c))
  <2>1. /\ Append(q, c) \in Seq(S) /\ Len(Append(q, c)) = Len(q) + 1 /\ Len(q) \in Nat
        /\ Append(q, c)[Len(q) + 1] = c
        /\ \A i \in 1 .. Len(q) : Append(q, c)[i] = q[i]
    OBVIOUS
  <2>2. Append(q, c) # << >>
    BY <2>1
  <2>3. \A i \in 1 .. Len(q) : i \in 1 .. Len(Append(q, c))
    BY <2>1
  <2>4. Len(q) + 1 \in 1 .. Len(Append(q, c))
    BY <2>1
  <2> QED BY <2>1, <2>2, <2>3, <2>4 DEF PathWaits
<1>2. ASSUME q # << >>
      PROVE  /\ Tail(q) \in Seq(S) /\ Head(q) \in S
             /\ PathWaits(q) /\ Head(q) # Path => PathWaits(Tail(q))
  <2>1. /\ Tail(q) \in Seq(S) /\ Head(q) = q[1] /\ Head(q) \in S
        /\ Len(q) \in Nat /\ Len(Tail(q)) = Len(q) - 1
        /\ \A i \in 1 .. Len(q) - 1 : Tail(q)[i] = q[i + 1]
    BY <1>2
  <2>2. ASSUME PathWaits(q), Head(q) # Path PROVE PathWaits(Tail(q))
    <3>1. PICK i \in 1 .. Len(q) : q[i] = Path
      BY <2>2 DEF PathWaits
    <3>2. i - 1 \in 1 .. Len(Tail(q)) /\ Tail(q)[i - 1] = q[i]
      BY <2>1, <2>2, <3>1
    <3> QED BY <3>1, <3>2 DEF PathWaits
  <2> QED BY <2>1, <2>2
<1> QED BY <1>1, <1>2

LEMMA SyncQueueLemma ==
    ASSUME MonitorTypeOK
    PROVE  /\ \A c \in Components \cup {NoPath} :
                  /\ Append(syncQueue, c) \in Seq(Components \cup {NoPath})
                  /\ Append(syncQueue, c) # << >>
                  /\ PathWaits(syncQueue) => PathWaits(Append(syncQueue, c))
                  /\ c = Path => PathWaits(Append(syncQueue, c))
           /\ syncQueue # << >> =>
                  /\ Tail(syncQueue) \in Seq(Components \cup {NoPath})
                  /\ PathWaits(syncQueue) /\ Head(syncQueue) # Path => PathWaits(Tail(syncQueue))
<1>1. syncQueue \in Seq(Components \cup {NoPath})
  BY DEF MonitorTypeOK
<1> QED BY <1>1, QueueLemma

\* The components of the path, and what may be there.
LEMMA ComponentsAre ==
    /\ Components = {0, 1, 2} /\ Path \in Components /\ NoPath \notin Components
    /\ At(0) = Root /\ Root # Nil /\ Root \in Inodes /\ Nil \in Inodes
    /\ Closed \in Sources /\ Closed.inode = Nil /\ ~Closed.registered /\ ~Closed.pending
BY NilIsNoInode DEF Components, Path, NoPath, At, Inodes, Closed, Sources

LEMMA AtIsInode ==
    ASSUME MonitorTypeOK
    PROVE  \A c \in Components : At(c) \in Inodes
BY ComponentsAre DEF MonitorTypeOK, At, Inodes

\* A new monitor satisfies the invariant.
LEMMA InitIsFine == Init => MonitorInv
<1> SUFFICES ASSUME Init PROVE MonitorInv
  OBVIOUS
<1>1. MonitorTypeOK
  <2>1. sources \in [Components -> Sources]
    BY ComponentsAre DEF Init
  <2>2. task \in Tasks
    BY DEF Init, Idle, Tasks
  <2>3. syncQueue \in Seq(Components \cup {NoPath})
    BY DEF Init
  <2>4. /\ dirAt \in Dirs \cup {Nil} /\ fileIn \in [Dirs -> Files \cup {Nil}]
        /\ monitoring \in BOOLEAN /\ unread \in BOOLEAN /\ fooled \in BOOLEAN /\ blind \in BOOLEAN
        /\ stat \in Inodes /\ told \in Inodes
    BY ComponentsAre DEF Init
  <2> QED BY <2>1, <2>2, <2>3, <2>4 DEF MonitorTypeOK
<1>2. task.does = "nothing" /\ ~monitoring /\ \A c \in Components : sources[c] = Closed
  BY DEF Init, Idle
<1> QED BY <1>1, <1>2 DEF Init, MonitorInv, TaskHasMonitors, MonitorsRegistered, StoppedIsClosed,
               ToldOfStat, WatchesOrWillLook, WriteIsOnItsWay, MonitorAssertionsHold

\* What the steps put into task are tasks.
LEMMA IdleIsFine ==
    /\ Idle \in Tasks /\ Idle.does = "nothing"
    /\ [Idle EXCEPT !.does = "destroy"] \in Tasks
    /\ [Idle EXCEPT !.does = "destroy"].does = "destroy"
    /\ [Idle EXCEPT !.does = "evaluate"] \in Tasks
    /\ [Idle EXCEPT !.does = "evaluate"].does = "evaluate"
    /\ \A caller \in {"start", "rebuild"} :
           Building(caller, 0) \in Tasks /\ Building(caller, 0).does = caller
    /\ \A t \in Tasks : t = Idle => t.does = "nothing"
BY DEF Idle, Building, Tasks

---------------------------------------------------------------------------
(* Other processes.                                                        *)

\* The file system changes on a path that is watched as it is: an event is reported.
LEMMA ChangeIsReported ==
    ASSUME MonitorInv, NEW inodes, Changes(inodes),
           \/ \E x \in Dirs \cup {Nil} :
                  LinkDir(x) /\ inodes = {Root, dirAt, x} \ {Nil}
           \/ \E d \in Dirs, x \in Files \cup {Nil} :
                  LinkFile(d, x) /\ inodes = {d, fileIn[d], x} \ {Nil}
           \/ UNCHANGED << dirAt, fileIn >>,
           monitoring, Quiet, ~fooled, ~blind,
           \E c \in Components : At(c)' # At(c)
    PROVE  \E c \in Components : sources'[c].pending
<1>1. /\ \A c \in Components : sources[c].inode = At(c)
      /\ AllRegistered
  BY IdleIsFine DEF MonitorInv, MonitorsRegistered, WatchesOrWillLook, Quiet
<1>2. ASSUME NEW c \in Components, At(c) \in inodes, At(c) # Nil
      PROVE  sources'[c].pending
  <2>1. sources[c].registered /\ sources[c].inode \in inodes
    BY <1>1, <1>2 DEF AllRegistered
  <2>2. sources'[c] = [sources[c] EXCEPT !.pending = TRUE]
    BY <1>2, <2>1 DEF Changes
  <2>3. sources[c] \in Sources
    BY DEF MonitorInv, MonitorTypeOK
  <2> QED BY <2>2, <2>3 DEF Sources
<1>3. CASE \E x \in Dirs \cup {Nil} : LinkDir(x) /\ inodes = {Root, dirAt, x} \ {Nil}
  <2>1. At(0) \in inodes /\ At(0) # Nil /\ 0 \in Components
    BY <1>3, ComponentsAre
  <2> QED BY <1>2, <2>1
<1>4. CASE \E d \in Dirs, x \in Files \cup {Nil} :
               LinkFile(d, x) /\ inodes = {d, fileIn[d], x} \ {Nil}
  <2>1. PICK d \in Dirs, x \in Files \cup {Nil} :
            LinkFile(d, x) /\ inodes = {d, fileIn[d], x} \ {Nil}
    BY <1>4
  <2>2. d # Nil
    BY NilIsNoInode
  <2>3. dirAt' = dirAt /\ fileIn' = [fileIn EXCEPT ![d] = x]
    BY <2>1 DEF LinkFile
  <2>4. dirAt = d
    <3> SUFFICES ASSUME dirAt # d PROVE FALSE
      OBVIOUS
    <3>1. fileIn'[dirAt] = fileIn[dirAt] \/ dirAt = Nil
      BY <2>3 DEF MonitorInv, MonitorTypeOK
    <3>2. \A c \in Components : At(c)' = At(c)
      BY <2>3, <3>1, ComponentsAre DEF At
    <3> QED BY <3>2
  <2>5. At(1) = d /\ 1 \in Components
    BY <2>4, ComponentsAre DEF At
  <2> QED BY <1>2, <2>1, <2>2, <2>5
<1>5. CASE UNCHANGED << dirAt, fileIn >>
  BY <1>5 DEF At
<1> QED BY <1>3, <1>4, <1>5

\* Nothing but events and the file system changes.
LEMMA EnvironmentIsFine ==
    ASSUME MonitorInv, Environment
    PROVE  MonitorInv'
<1>1. PICK inodes : /\ Changes(inodes)
                    /\ \/ \E x \in Dirs \cup {Nil} :
                              LinkDir(x) /\ inodes = {Root, dirAt, x} \ {Nil}
                       \/ \E d \in Dirs, x \in Files \cup {Nil} :
                              LinkFile(d, x) /\ inodes = {d, fileIn[d], x} \ {Nil}
                       \/ \E f \in Files : Write(f) /\ inodes = {f}
  BY DEF Environment, LinkDir, LinkFile, Write
<1>2. UNCHANGED << stat, monitoring, task, syncQueue, told, fooled, blind, aborted >>
  BY <1>1 DEF Changes
<1>3. /\ sources \in [Components -> Sources]
      /\ sources' = [c \in Components |->
                        IF sources[c].registered /\ sources[c].inode \in inodes
                        THEN [sources[c] EXCEPT !.pending = TRUE] ELSE sources[c]]
  BY <1>1 DEF Changes, MonitorInv, MonitorTypeOK
<1>4. \A c \in Components :
          /\ sources'[c] \in Sources
          /\ sources'[c].inode = sources[c].inode
          /\ sources'[c].registered = sources[c].registered
          /\ sources[c].pending => sources'[c].pending
          /\ sources[c].registered /\ sources[c].inode \in inodes => sources'[c].pending
          /\ ~sources[c].registered => sources'[c] = sources[c]
  BY <1>3 DEF Sources
<1>5. MonitorTypeOK'
  <2>1. dirAt' \in Dirs \cup {Nil} /\ fileIn' \in [Dirs -> Files \cup {Nil}] /\ unread' \in BOOLEAN
    <3>1. CASE \E x \in Dirs \cup {Nil} : LinkDir(x)
      BY <3>1 DEF LinkDir, MonitorInv, MonitorTypeOK
    <3>2. CASE \E d \in Dirs, x \in Files \cup {Nil} : LinkFile(d, x)
      BY <3>2 DEF LinkFile, MonitorInv, MonitorTypeOK
    <3>3. CASE \E f \in Files : Write(f)
      BY <3>3 DEF Write, MonitorInv, MonitorTypeOK
    <3> QED BY <1>1, <3>1, <3>2, <3>3
  <2>2. sources' \in [Components -> Sources]
    BY <1>3, <1>4
  <2> QED BY <1>2, <2>1, <2>2 DEF MonitorInv, MonitorTypeOK
<1>6. MonitorsRegistered'
  BY <1>2, <1>4 DEF MonitorInv, MonitorsRegistered, AllRegistered
<1>7. StoppedIsClosed'
  BY <1>2, <1>4, ComponentsAre DEF MonitorInv, StoppedIsClosed
<1>8. ToldOfStat' /\ TaskHasMonitors' /\ MonitorAssertionsHold'
  BY <1>2 DEF MonitorInv, ToldOfStat, TaskHasMonitors, MonitorAssertionsHold
<1>9. WatchesOrWillLook'
  <2> SUFFICES ASSUME monitoring, Quiet', ~fooled, ~blind
               PROVE  stat = At(Path)' /\ \A c \in Components : sources'[c].inode = At(c)'
    BY <1>2 DEF WatchesOrWillLook
  <2>1. Quiet
    BY <1>2, <1>4 DEF Quiet
  <2>2. stat = At(Path) /\ \A c \in Components : sources[c].inode = At(c)
    BY <2>1 DEF MonitorInv, WatchesOrWillLook
  <2>3. \A c \in Components : At(c)' = At(c)
    <3> SUFFICES ASSUME \E c \in Components : At(c)' # At(c) PROVE FALSE
      OBVIOUS
    <3>2. \/ \E x \in Dirs \cup {Nil} : LinkDir(x) /\ inodes = {Root, dirAt, x} \ {Nil}
          \/ \E d \in Dirs, x \in Files \cup {Nil} :
                 LinkFile(d, x) /\ inodes = {d, fileIn[d], x} \ {Nil}
          \/ UNCHANGED << dirAt, fileIn >>
      BY <1>1 DEF Write
    <3>3. \E c \in Components : sources'[c].pending
      BY <1>1, <2>1, <3>2, ChangeIsReported
    <3> QED BY <3>3 DEF Quiet
  <2> QED BY <1>4, <2>2, <2>3, ComponentsAre
<1>10. WriteIsOnItsWay'
  <2> SUFFICES ASSUME unread' PROVE WriteIsOnItsWay'
    BY DEF WriteIsOnItsWay
  <2>1. CASE unread
    BY <1>2, <1>4, <2>1, ComponentsAre DEF MonitorInv, WriteIsOnItsWay
  <2>2. CASE ~unread
    <3>1. PICK f \in Files : Write(f) /\ inodes = {f}
      BY <1>1, <2>2 DEF LinkDir, LinkFile
    <3>2. task = Idle /\ sources[Path].registered /\ sources[Path].inode = f
      BY <2>2, <3>1 DEF Write
    <3>3. sources'[Path].pending /\ sources'[Path].registered /\ sources'[Path].inode # Nil
      BY <1>4, <3>1, <3>2, ComponentsAre, NilIsNoInode
    <3> QED BY <1>2, <3>2, <3>3, IdleIsFine DEF WriteIsOnItsWay
  <2> QED BY <2>1, <2>2
<1> QED BY <1>5, <1>6, <1>7, <1>8, <1>9, <1>10 DEF MonitorInv

---------------------------------------------------------------------------
(* The monitor.                                                            *)

\* Evaluating the path leaves syncQueue idle, with what there is to know known, or
\* begins to rebuild; and the client is told unless nothing differs.
LEMMA EvaluatingIsFine ==
    ASSUME MonitorTypeOK, MonitorAssertionsHold, EvaluateForPath,
           monitoring, AllRegistered, syncQueue' \in Seq(Components \cup {NoPath}),
           UNCHANGED << world, monitoring, sources, aborted >>,
           \/ ClientIsTold
           \/ ~Differs /\ (fooled \/ told = stat) /\ WriteIsOnItsWay' /\ UNCHANGED << told, unread, fooled >>
    PROVE  MonitorInv'
<1>1. \A c \in Components : At(c)' = At(c) /\ At(c) \in Inodes
  BY AtIsInode DEF world, At
<1>2. stat' = At(Path) /\ blind' = (~Differs /\ \E c \in Components : sources[c].inode # At(c))
  BY DEF EvaluateForPath, Look
<1>3. /\ task' \in {Idle, [Idle EXCEPT !.does = "destroy"]}
      /\ task'.does \in {"nothing", "destroy"}
      /\ task' = Idle => ~Differs
  BY IdleIsFine DEF EvaluateForPath, Rebuild
<1>4. MonitorTypeOK'
  <2>1. task' \in Tasks
    BY <1>3, IdleIsFine
  <2>2. told' \in Inodes /\ unread' \in BOOLEAN /\ fooled' \in BOOLEAN /\ stat' \in Inodes /\ blind' \in BOOLEAN
    BY <1>1, <1>2, ComponentsAre DEF ClientIsTold, MonitorTypeOK
  <2> QED BY <2>1, <2>2 DEF MonitorTypeOK, world
<1>5. MonitorsRegistered' /\ TaskHasMonitors' /\ StoppedIsClosed' /\ MonitorAssertionsHold'
  BY DEF MonitorsRegistered, TaskHasMonitors, StoppedIsClosed, MonitorAssertionsHold, AllRegistered
<1>6. ToldOfStat'
  BY <1>2 DEF ToldOfStat, ClientIsTold, Differs
<1>7. WatchesOrWillLook'
  BY <1>1, <1>2, <1>3, ComponentsAre DEF WatchesOrWillLook, Quiet
<1>8. WriteIsOnItsWay'
  BY DEF WriteIsOnItsWay, ClientIsTold
<1> QED BY <1>4, <1>5, <1>6, <1>7, <1>8 DEF MonitorInv

LEMMA BuildStepsAreFine ==
    ASSUME MonitorInv, Open \/ BuildEnds \/ DestroyMonitors
    PROVE  MonitorInv'
<1>1. task \in Tasks /\ task.does \in {"start", "rebuild", "destroy"}
  BY DEF MonitorInv, MonitorTypeOK, Open, BuildEnds, DestroyMonitors
<1>2. ~unread
  BY <1>1 DEF MonitorInv, WriteIsOnItsWay
<1>3. CASE Open
  <2>1. /\ task' = [task EXCEPT !.next = @ + 1] /\ task.next \in Components
        /\ sources' = [sources EXCEPT ![task.next] = [Closed EXCEPT !.inode = At(task.next)]]
        /\ UNCHANGED << world, calls, stat, monitoring, syncQueue, history, aborted >>
    BY <1>3 DEF Open
  <2>2. task' \in Tasks /\ task'.does = task.does /\ task.does \in {"start", "rebuild"}
    BY <1>1, <1>3, <2>1, ComponentsAre DEF Tasks, Open
  <2>3. [Closed EXCEPT !.inode = At(task.next)] \in Sources
    BY <2>1, AtIsInode, ComponentsAre DEF MonitorInv, Closed, Sources
  <2>4. MonitorTypeOK'
    BY <2>1, <2>2, <2>3 DEF MonitorInv, MonitorTypeOK, world, history
  <2>5. ToldOfStat' /\ MonitorAssertionsHold'
    BY <2>1, <2>2 DEF MonitorInv, ToldOfStat, MonitorAssertionsHold, history
  <2>6. task' # Idle /\ unread' = unread
    BY <2>1, <2>2, IdleIsFine DEF history
  <2> QED BY <1>2, <2>2, <2>4, <2>5, <2>6
          DEF MonitorInv, TaskHasMonitors, MonitorsRegistered, StoppedIsClosed, WatchesOrWillLook,
              WriteIsOnItsWay, Quiet
<1>4. CASE BuildEnds
  <2>1. /\ AllRegistered /\ monitoring' = TRUE
        /\ UNCHANGED << world, calls, stat, sources, history, aborted >>
        /\ \/ task.does = "start" /\ task' = [Idle EXCEPT !.does = "evaluate"] /\ syncQueue' = syncQueue
           \/ task.does = "rebuild" /\ task' = Idle /\ syncQueue' = Append(syncQueue, NoPath)
    BY <1>4 DEF BuildEnds
  <2>2. /\ task' \in Tasks
        /\ \/ task'.does = "evaluate"
           \/ task'.does = "nothing" /\ task.does = "rebuild" /\ syncQueue' # << >>
        /\ syncQueue' \in Seq(Components \cup {NoPath})
    <3>1. /\ Append(syncQueue, NoPath) \in Seq(Components \cup {NoPath})
          /\ Append(syncQueue, NoPath) # << >>
          /\ syncQueue \in Seq(Components \cup {NoPath})
      BY SyncQueueLemma DEF MonitorInv, MonitorTypeOK
    <3> QED BY <2>1, <3>1, IdleIsFine
  <2>3. MonitorTypeOK'
    BY <2>1, <2>2 DEF MonitorInv, MonitorTypeOK, world, history
  <2>4. MonitorsRegistered' /\ StoppedIsClosed' /\ TaskHasMonitors'
    BY <2>1 DEF MonitorsRegistered, StoppedIsClosed, TaskHasMonitors, AllRegistered
  <2>5. ToldOfStat' /\ MonitorAssertionsHold'
    BY <2>1, <2>2 DEF MonitorInv, ToldOfStat, MonitorAssertionsHold, history
  <2>6. ~Quiet'
    BY <2>2, IdleIsFine DEF Quiet
  <2> QED BY <1>2, <2>1, <2>3, <2>4, <2>5, <2>6 DEF MonitorInv, WatchesOrWillLook, WriteIsOnItsWay, history
<1>5. CASE DestroyMonitors
  <2>1. monitoring /\ task.does = "destroy"
    BY <1>5 DEF DestroyMonitors, MonitorInv, TaskHasMonitors
  <2>2. /\ task' = Building("rebuild", 0) /\ monitoring' = FALSE
        /\ sources' = [c \in Components |-> Closed]
        /\ UNCHANGED << world, calls, stat, syncQueue, history, aborted >>
    BY <1>5, <2>1 DEF DestroyMonitors, BuildMonitors, CloseAll
  <2>3. task' \in Tasks /\ task'.does = "rebuild"
    BY <2>2, IdleIsFine
  <2>4. MonitorTypeOK'
    BY <2>2, <2>3, ComponentsAre DEF MonitorInv, MonitorTypeOK, world, history
  <2> QED BY <1>2, <2>1, <2>2, <2>3, <2>4
          DEF MonitorInv, TaskHasMonitors, MonitorsRegistered, StoppedIsClosed, ToldOfStat,
              WatchesOrWillLook, WriteIsOnItsWay, MonitorAssertionsHold, history
<1> QED BY <1>3, <1>4, <1>5

\* The kernel registers a source, or a handler dispatches its block.
LEMMA SourceStepsAreFine ==
    ASSUME MonitorInv, NEW c \in Components, Register(c) \/ Handler(c)
    PROVE  MonitorInv'
<1>1. UNCHANGED << world, calls, stat, monitoring, task, history, aborted >>
  BY DEF Register, Handler
<1>2. sources \in [Components -> Sources] /\ sources[c] \in Sources
  BY DEF MonitorInv, MonitorTypeOK
<1>3. /\ sources' \in [Components -> Sources]
      /\ \A b \in Components : /\ sources'[b].inode = sources[b].inode
                               /\ sources[b].registered => sources'[b].registered
                               /\ b # c => sources'[b] = sources[b]
  <2>1. CASE Register(c)
    <3>1. sources' = [sources EXCEPT ![c] = [sources[c] EXCEPT !.registered = TRUE]]
      BY <1>2, <2>1 DEF Register
    <3>2. /\ [sources[c] EXCEPT !.registered = TRUE] \in Sources
          /\ [sources[c] EXCEPT !.registered = TRUE].inode = sources[c].inode
          /\ [sources[c] EXCEPT !.registered = TRUE].registered
      BY <1>2 DEF Sources
    <3> QED BY <1>2, <3>1, <3>2
  <2>2. CASE Handler(c)
    <3>1. sources' = [sources EXCEPT ![c] = [sources[c] EXCEPT !.pending = FALSE]]
      BY <1>2, <2>2 DEF Handler
    <3>2. /\ [sources[c] EXCEPT !.pending = FALSE] \in Sources
          /\ [sources[c] EXCEPT !.pending = FALSE].inode = sources[c].inode
          /\ [sources[c] EXCEPT !.pending = FALSE].registered = sources[c].registered
      BY <1>2 DEF Sources
    <3> QED BY <1>2, <3>1, <3>2
  <2> QED BY <2>1, <2>2
<1>4. sources[c] # Closed
  BY ComponentsAre DEF Register, Handler
<1>5. syncQueue' \in Seq(Components \cup {NoPath}) /\ (PathWaits(syncQueue) => PathWaits(syncQueue'))
  BY SyncQueueLemma DEF Register, Handler, MonitorInv, MonitorTypeOK
<1>6. MonitorTypeOK'
  BY <1>1, <1>3, <1>5 DEF MonitorInv, MonitorTypeOK, world, history
<1>7. MonitorsRegistered' /\ TaskHasMonitors' /\ ToldOfStat' /\ MonitorAssertionsHold'
  BY <1>1, <1>3 DEF MonitorInv, MonitorsRegistered, TaskHasMonitors, ToldOfStat, MonitorAssertionsHold,
     AllRegistered, history
<1>8. StoppedIsClosed'
  BY <1>1, <1>4 DEF MonitorInv, StoppedIsClosed
<1>9. WatchesOrWillLook'
  <2>1. \A b \in Components : At(b)' = At(b)
    BY <1>1 DEF world, At
  <2>2. CASE Register(c)
    <3>1. syncQueue' = syncQueue /\ \A b \in Components : sources'[b].pending = sources[b].pending
      BY <1>2, <2>2 DEF Register, Sources
    <3>2. Quiet' => Quiet
      BY <1>1, <3>1 DEF Quiet
    <3> QED BY <1>1, <1>3, <2>1, <3>2, ComponentsAre DEF MonitorInv, WatchesOrWillLook, history
  <2>3. CASE Handler(c)
    <3>1. syncQueue' # << >>
      BY <2>3, SyncQueueLemma DEF Handler, MonitorInv, MonitorTypeOK
    <3> QED BY <3>1 DEF WatchesOrWillLook, Quiet
  <2> QED BY <2>2, <2>3
<1>10. WriteIsOnItsWay'
  <2> SUFFICES ASSUME unread PROVE WriteIsOnItsWay'
    BY <1>1 DEF WriteIsOnItsWay, history
  <2>1. sources[Path].pending => sources'[Path].pending \/ PathWaits(syncQueue')
    <3>1. CASE Register(c)
      BY <1>2, <3>1, ComponentsAre DEF Register, Sources
    <3>2. CASE Handler(c)
      <4>1. syncQueue' = Append(syncQueue, c)
        BY <3>2 DEF Handler
      <4>2. c = Path => PathWaits(syncQueue')
        BY <4>1, SyncQueueLemma DEF MonitorInv, MonitorTypeOK
      <4> QED BY <1>3, <4>2, ComponentsAre
    <3> QED BY <3>1, <3>2
  <2> QED BY <1>1, <1>3, <1>5, <2>1, ComponentsAre DEF MonitorInv, WriteIsOnItsWay, history
<1> QED BY <1>6, <1>7, <1>8, <1>9, <1>10 DEF MonitorInv

\* A block that waited evaluates, unless the monitor was stopped meanwhile.
LEMMA RunBlockIsFine ==
    ASSUME MonitorInv, RunBlock
    PROVE  MonitorInv'
<1>1. /\ task = Idle /\ task.does = "nothing" /\ syncQueue # << >> /\ syncQueue' = Tail(syncQueue)
      /\ UNCHANGED << world, calls, monitoring, sources, aborted >>
  BY IdleIsFine DEF RunBlock
<1>2. /\ syncQueue' \in Seq(Components \cup {NoPath})
      /\ PathWaits(syncQueue) /\ Head(syncQueue) # Path => PathWaits(syncQueue')
  BY <1>1, SyncQueueLemma DEF MonitorInv, MonitorTypeOK
<1>3. CASE monitoring
  <2>1. /\ EvaluateForPath
        /\ IF InvokesCallback(Head(syncQueue)) THEN ClientIsTold ELSE UNCHANGED << told, unread, fooled >>
    BY <1>3 DEF RunBlock
  <2>2. AllRegistered
    BY <1>1, <1>3 DEF MonitorInv, MonitorsRegistered
  <2>3. CASE InvokesCallback(Head(syncQueue))
    BY <1>1, <1>2, <1>3, <2>1, <2>2, <2>3, EvaluatingIsFine DEF MonitorInv
  <2>4. CASE ~InvokesCallback(Head(syncQueue))
    <3>1. ~Differs /\ (stat = Nil \/ Head(syncQueue) # Path) /\ UNCHANGED << told, unread, fooled >>
      BY <2>1, <2>4 DEF InvokesCallback
    <3>2. fooled \/ told = stat
      BY <1>1 DEF MonitorInv, ToldOfStat
    <3>3. /\ stat' = stat /\ At(Path) = stat /\ task' = Idle
          /\ blind' = (\E c \in Components : sources[c].inode # At(c))
      BY <2>1, <3>1 DEF EvaluateForPath, Look, Differs
    <3>4. WriteIsOnItsWay'
      <4> SUFFICES ASSUME unread PROVE WriteIsOnItsWay'
        BY <3>1 DEF WriteIsOnItsWay
      <4>1. stat = Nil => stat' = Nil /\ blind'
        BY <3>3, ComponentsAre DEF MonitorInv, WriteIsOnItsWay
      <4>2. PathWaits(syncQueue) => PathWaits(syncQueue') \/ stat = Nil
        BY <1>2, <3>1
      <4> QED BY <1>1, <3>1, <3>3, <4>1, <4>2, IdleIsFine DEF MonitorInv, WriteIsOnItsWay
    <3> QED BY <1>1, <1>2, <1>3, <2>1, <2>2, <3>1, <3>2, <3>4, EvaluatingIsFine DEF MonitorInv
  <2> QED BY <2>3, <2>4
<1>4. CASE ~monitoring
  <2>1. UNCHANGED << stat, task, blind, told, unread, fooled >>
    BY <1>4 DEF RunBlock
  <2>2. ~unread
    BY <1>1, <1>4, ComponentsAre DEF MonitorInv, StoppedIsClosed, WriteIsOnItsWay
  <2>3. MonitorTypeOK'
    BY <1>1, <1>2, <2>1 DEF MonitorInv, MonitorTypeOK, world
  <2> QED BY <1>1, <1>4, <2>1, <2>2, <2>3
          DEF MonitorInv, TaskHasMonitors, MonitorsRegistered, StoppedIsClosed, ToldOfStat,
              WatchesOrWillLook, WriteIsOnItsWay, MonitorAssertionsHold
<1> QED BY <1>3, <1>4

LEMMA StartReturnsIsFine ==
    ASSUME MonitorInv, StartReturns
    PROVE  MonitorInv'
<1>1. /\ task.does = "evaluate" /\ EvaluateForPath /\ ClientIsTold
      /\ UNCHANGED << world, calls, monitoring, sources, syncQueue, aborted >>
  BY DEF StartReturns
<1>2. monitoring /\ AllRegistered
  BY <1>1 DEF MonitorInv, TaskHasMonitors, MonitorsRegistered
<1> QED BY <1>1, <1>2, EvaluatingIsFine DEF MonitorInv, MonitorTypeOK

---------------------------------------------------------------------------
(* The client.                                                             *)

LEMMA StartIsFine ==
    ASSUME MonitorInv, Start \/ StartAgain
    PROVE  MonitorInv'
<1>1. /\ task = Idle /\ task.does = "nothing" /\ stat' = At(Path)
      /\ UNCHANGED << world, monitoring, sources, syncQueue, told, unread, blind, aborted >>
  BY IdleIsFine DEF Start, StartAgain, Calls, Look, history
<1>2. stat' \in Inodes /\ \A c \in Components : At(c)' = At(c)
  BY <1>1, AtIsInode, ComponentsAre DEF MonitorInv, world, At
<1>3. CASE Start
  <2>1. task' = Building("start", 0) /\ task' \in Tasks /\ task'.does = "start" /\ ~monitoring
    BY <1>3, IdleIsFine DEF Start, BuildMonitors
  <2>2. ~unread /\ fooled' = fooled
    BY <1>1, <1>3, <2>1, ComponentsAre DEF MonitorInv, StoppedIsClosed, WriteIsOnItsWay, Start, history
  <2>3. MonitorTypeOK'
    BY <1>1, <1>2, <2>1, <2>2 DEF MonitorInv, MonitorTypeOK, world
  <2> QED BY <1>1, <2>1, <2>2, <2>3
          DEF MonitorInv, TaskHasMonitors, MonitorsRegistered, StoppedIsClosed, ToldOfStat,
              WatchesOrWillLook, WriteIsOnItsWay, MonitorAssertionsHold
<1>4. CASE StartAgain
  <2>1. task' = task /\ monitoring /\ fooled' = (fooled \/ Differs)
    BY <1>4 DEF StartAgain
  <2>2. ~fooled' => stat' = stat
    BY <1>1, <2>1 DEF Differs
  <2>3. MonitorTypeOK'
    BY <1>1, <1>2, <2>1 DEF MonitorInv, MonitorTypeOK, world
  <2>4. WatchesOrWillLook'
    BY <1>1, <1>2, <2>1, <2>2, ComponentsAre DEF MonitorInv, WatchesOrWillLook, Quiet
  <2>5. WriteIsOnItsWay' /\ ToldOfStat'
    BY <1>1, <2>1, <2>2 DEF MonitorInv, WriteIsOnItsWay, ToldOfStat
  <2> QED BY <1>1, <2>1, <2>3, <2>4, <2>5
          DEF MonitorInv, TaskHasMonitors, MonitorsRegistered, StoppedIsClosed, AllRegistered,
              MonitorAssertionsHold
<1> QED BY <1>3, <1>4

LEMMA StopIsFine ==
    ASSUME MonitorInv, Stop
    PROVE  MonitorInv'
<1>1. task = Idle /\ UNCHANGED << world, task, syncQueue, aborted >>
  BY DEF Stop, Calls
<1>2. CASE monitoring
  <2>1. /\ sources' = [c \in Components |-> Closed] /\ monitoring' = FALSE
        /\ stat' = Nil /\ told' = Nil /\ unread' = FALSE /\ fooled' = FALSE /\ blind' = FALSE
    BY <1>2 DEF Stop, CloseAll
  <2>2. MonitorTypeOK'
    BY <1>1, <2>1, ComponentsAre DEF MonitorInv, MonitorTypeOK, world
  <2> QED BY <1>1, <2>1, <2>2, IdleIsFine
          DEF MonitorInv, TaskHasMonitors, MonitorsRegistered, StoppedIsClosed, ToldOfStat,
              WatchesOrWillLook, WriteIsOnItsWay, MonitorAssertionsHold
<1>3. CASE ~monitoring
  <2>1. UNCHANGED << sources, monitoring, stat, history >>
    BY <1>3 DEF Stop
  <2>2. MonitorTypeOK'
    BY <1>1, <2>1 DEF MonitorInv, MonitorTypeOK, world, history
  <2>3. WriteIsOnItsWay'
    BY <1>1, <2>1 DEF MonitorInv, WriteIsOnItsWay, history
  <2> QED BY <1>1, <1>3, <2>1, <2>2, <2>3
          DEF MonitorInv, TaskHasMonitors, MonitorsRegistered, StoppedIsClosed, ToldOfStat,
              WatchesOrWillLook, MonitorAssertionsHold, history
<1> QED BY <1>2, <1>3

LEMMA StutterIsFine ==
    ASSUME MonitorInv, UNCHANGED vars
    PROVE  MonitorInv'
<1>1. \A c \in Components : At(c)' = At(c)
  BY DEF vars, world, At
<1>2. MonitorTypeOK' /\ (Quiet' <=> Quiet) /\ WriteIsOnItsWay'
  BY DEF MonitorInv, MonitorTypeOK, Quiet, WriteIsOnItsWay, vars, world, history
<1> QED BY <1>1, <1>2, ComponentsAre
        DEF MonitorInv, TaskHasMonitors, MonitorsRegistered, StoppedIsClosed, ToldOfStat,
            WatchesOrWillLook, MonitorAssertionsHold, AllRegistered, vars, world, history

\* The inductive invariant of BRUFileMonitor.
THEOREM MonitorInvariant == Spec => []MonitorInv
<1>1. MonitorInv /\ [Next]_vars => MonitorInv'
  <2> SUFFICES ASSUME MonitorInv, [Next]_vars PROVE MonitorInv'
    OBVIOUS
  <2>1. CASE Environment
    BY <2>1, EnvironmentIsFine
  <2>2. CASE Monitor
    BY <2>2, BuildStepsAreFine, RunBlockIsFine, StartReturnsIsFine, SourceStepsAreFine DEF Monitor
  <2>3. CASE Client
    BY <2>3, StartIsFine, StopIsFine DEF Client
  <2>4. CASE UNCHANGED vars
    BY <2>4, StutterIsFine
  <2> QED BY <2>1, <2>2, <2>3, <2>4 DEF Next
<1> QED BY <1>1, InitIsFine, PTL DEF Spec

\* destroyMonitors never meets destroyed monitors, whatever is stopped, started and
\* changed while blocks wait on syncQueue (BRUFileMonitor.m:178-182, 206, 238-250).
THEOREM NoBlockActsWithoutMonitors == Spec => []MonitorAssertionsHold
<1>1. MonitorInv => MonitorAssertionsHold
  BY DEF MonitorInv
<1> QED BY <1>1, MonitorInvariant, PTL

\* A monitor at rest has told its client of the file that is there and of every write
\* to it, and watches what is there now (BRUFileMonitor.m:66-93, 142-212, 232-290).
THEOREM RestIsCurrent == Spec => []QuietMonitorIsCurrent
<1>1. MonitorInv => QuietMonitorIsCurrent
  <2> SUFFICES ASSUME MonitorInv, Quiet, monitoring, ~fooled, ~blind
               PROVE  /\ told = At(Path) /\ ~unread
                      /\ \A c \in Components : sources[c].inode = At(c)
    BY DEF QuietMonitorIsCurrent
  <2>1. stat = At(Path) /\ \A c \in Components : sources[c].inode = At(c)
    BY DEF MonitorInv, WatchesOrWillLook
  <2>2. told = stat
    BY IdleIsFine DEF MonitorInv, ToldOfStat, Quiet
  <2>3. ~PathWaits(syncQueue)
    BY DEF PathWaits, Quiet
  <2>4. ~unread
    BY <2>3, ComponentsAre DEF MonitorInv, WriteIsOnItsWay, Quiet
  <2> QED BY <2>1, <2>2, <2>4
<1> QED BY <1>1, MonitorInvariant, PTL
================================================================================
