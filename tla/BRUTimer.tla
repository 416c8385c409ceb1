------------------------------- MODULE BRUTimer -------------------------------
(***************************************************************************)
(* BRUTimer (src/BromiumCoreUtils/BRUTimer.m): a libdispatch timer that    *)
(* fires once or repeatedly, and that any thread may start, restart,       *)
(* resume, suspend, fire by hand and release at any moment.                *)
(*                                                                         *)
(* A fire travels through three queues: dispatch_after arms a block for    *)
(* the timer's serial syncQ, that block puts one on the global queue, and  *)
(* that one puts the client's block on the target queue (serial here, as   *)
(* it is by default).  Only the first hop looks at `running' and at the    *)
(* generation.  Blocks on the way are alike, so they are counted; an armed *)
(* block remembers the generation setupTimer read.                         *)
(*                                                                         *)
(* Intervals and time are left out: an armed block may come due at any     *)
(* time, so whatever adjustInterval returns is covered.                    *)
(***************************************************************************)
EXTENDS Naturals, FiniteSets, Functions

CONSTANTS
    MaxResumes,         \* bound: calls of start, restart and resume
    MaxFires,           \* bound: fires by hand waiting for the target queue
    MaxBacklog          \* bound: fires of the timer on their way to the block

ASSUME TimerAssumption ==
    /\ MaxResumes \in Nat
    /\ MaxFires \in Nat
    /\ MaxBacklog \in Nat \ {0}

Generations == 1..MaxResumes

VARIABLES
    repeats,      \* the arguments the timer was made with
    mode,         \* "betweenExecutions" or "wallClock"
    generation,   \* the ivar, synchronized by syncQ
    running,      \* the ivar, synchronized by syncQ
    suspending,   \* barrier blocks of `suspend' are on syncQ
    starting,     \* threads in `start' that saw the timer not running
    resuming,     \* threads in resume that did not call setupTimer yet
    armed,        \* [Generations -> dispatch_after blocks that read this one]
    accepted,     \* blocks on the global queue
    settingUp,    \* blocks of the global queue inside preFireBlock's setupTimer
    posted,       \* fires of the timer on the target queue
    manual,       \* fires by hand on the target queue
    executing,    \* "none", "timer" or "manual": the client's block runs;
                  \* "post": the timer's postFireBlock runs after it
    released,     \* the clients dropped their references
    fired,        \* history: how often the timer itself ran the client's block,
                  \* counted up to MaxResumes + 1
    aborted       \* "no", or the assertion that stopped the process

arguments == << repeats, mode >>
vars == << arguments, generation, running, suspending, starting, resuming, armed,
           accepted, settingUp, posted, manual, executing, released, fired, aborted >>

Init ==
    /\ repeats \in BOOLEAN
    /\ mode \in {"betweenExecutions", "wallClock"}
    /\ generation = 0
    /\ running = FALSE
    /\ suspending = FALSE
    /\ starting = 0 /\ resuming = 0
    /\ armed = [g \in Generations |-> 0]
    /\ accepted = 0 /\ settingUp = 0 /\ posted = 0 /\ manual = 0
    /\ executing = "none"
    /\ released = FALSE
    /\ fired = 0
    /\ aborted = "no"

\* The blocks on the way hold the timer weakly; the barrier block of suspend, a
\* block that runs, and the clients hold it strongly.
Alive == ~released \/ suspending \/ settingUp > 0 \/ executing # "none"

---------------------------------------------------------------------------
(* The API.  Clients that call it hold the timer.                          *)

CanCall == aborted = "no" /\ ~released

\* The dispatch_sync block of resumeWithUpdateInterval:interval:  It runs after
\* the barrier blocks of the suspends before it.
Resume ==
    /\ CanCall
    /\ ~suspending
    /\ generation' = generation + 1
    /\ running' = TRUE
    /\ resuming' = resuming + 1
    /\ UNCHANGED << arguments, suspending, armed, accepted, settingUp, posted, manual,
                    executing, released, fired, aborted >>

\* restart, restartWithInterval:, resume and scheduledTimerWithInterval:...
CallResume == generation + starting < MaxResumes /\ Resume /\ UNCHANGED starting

\* start: the assertion reads `running' in a block of its own ...
CallStart ==
    /\ CanCall
    /\ ~suspending
    /\ generation + starting < MaxResumes
    /\ IF running
       THEN aborted' = "alreadyRunning" /\ UNCHANGED starting
       ELSE starting' = starting + 1 /\ UNCHANGED aborted
    /\ UNCHANGED << arguments, generation, running, suspending, resuming, armed,
                    accepted, settingUp, posted, manual, executing, released, fired >>

\* ... and restarts the timer in another.
StartResumes == starting > 0 /\ starting' = starting - 1 /\ Resume

\* Mutation: setupTimer is handed the generation from before the restart.
Arm_ReadsFirst ==
    armed' = [armed EXCEPT ![IF generation = 1 THEN 1 ELSE generation - 1] = @ + 1]

\* setupTimer reads the generation on syncQ and arms a block with it.
Arm == armed' = [armed EXCEPT ![generation] = @ + 1]

ResumeSetsUp ==
    /\ aborted = "no"
    /\ resuming > 0
    /\ resuming' = resuming - 1
    /\ Arm
    /\ UNCHANGED << arguments, generation, running, suspending, starting, accepted,
                    settingUp, posted, manual, executing, released, fired, aborted >>

CallSuspend ==
    /\ CanCall
    /\ suspending' = TRUE
    /\ UNCHANGED << arguments, generation, running, starting, resuming, armed, accepted,
                    settingUp, posted, manual, executing, released, fired, aborted >>

CallFire ==
    /\ CanCall
    /\ manual < MaxFires
    /\ manual' = manual + 1
    /\ UNCHANGED << arguments, generation, running, suspending, starting, resuming,
                    armed, accepted, settingUp, posted, executing, released, fired,
                    aborted >>

\* The clients drop the timer; nobody is inside a call.
Release ==
    /\ CanCall
    /\ starting = 0 /\ resuming = 0
    /\ released' = TRUE
    /\ UNCHANGED << arguments, generation, running, suspending, starting, resuming,
                    armed, accepted, settingUp, posted, manual, executing, fired,
                    aborted >>

---------------------------------------------------------------------------
(* syncQ                                                                   *)

\* The barrier block of setRunning:NO.
Suspend ==
    /\ aborted = "no"
    /\ suspending
    /\ suspending' = FALSE
    /\ running' = FALSE
    /\ UNCHANGED << arguments, generation, starting, resuming, armed, accepted,
                    settingUp, posted, manual, executing, released, fired, aborted >>

\* Mutation: a suspended timer's fires are not turned down.
Accepts_IgnoresRunning(g) == Alive /\ g = generation

\* A fire is ignored when the timer is gone, the fire is from an older generation
\* or the timer is not running.
Accepts(g) == Alive /\ g = generation /\ running

\* Mutation: a timer that does not repeat stays running.
StillRunning_Always == running

\* `running' after a fire was accepted.
StillRunning == running /\ repeats

\* The block dispatch_after armed.
Due(g) ==
    /\ aborted = "no"
    /\ armed[g] > 0
    /\ accepted + settingUp + posted < MaxBacklog
    /\ armed' = [armed EXCEPT ![g] = @ - 1]
    /\ IF Accepts(g)
       THEN /\ accepted' = accepted + 1
            /\ running' = StillRunning
       ELSE UNCHANGED << accepted, running >>
    /\ UNCHANGED << arguments, generation, suspending, starting, resuming, settingUp,
                    posted, manual, executing, released, fired, aborted >>

---------------------------------------------------------------------------
(* The global queue                                                        *)

\* What the switch over the mode makes preFireBlock do.
SetsUpBefore == repeats /\ mode = "wallClock"

\* preFireBlock calls setupTimer on wall clock time; then, or at once, the fire
\* is posted.
GlobalBlock ==
    /\ aborted = "no"
    /\ accepted > 0
    /\ accepted' = accepted - 1
    /\ \/ ~Alive /\ UNCHANGED << settingUp, posted >>
       \/ /\ Alive /\ SetsUpBefore
          /\ settingUp' = settingUp + 1
          /\ UNCHANGED posted
       \/ /\ Alive /\ ~SetsUpBefore
          /\ posted' = posted + 1
          /\ UNCHANGED settingUp
    /\ UNCHANGED << arguments, generation, running, suspending, starting, resuming,
                    armed, manual, executing, released, fired, aborted >>

PreFireSetsUp ==
    /\ aborted = "no"
    /\ settingUp > 0
    /\ settingUp' = settingUp - 1
    /\ Arm
    /\ posted' = posted + 1
    /\ UNCHANGED << arguments, generation, running, suspending, starting, resuming,
                    accepted, manual, executing, released, fired, aborted >>

---------------------------------------------------------------------------
(* The target queue: one block at a time.                                  *)

FireBegins ==
    /\ aborted = "no"
    /\ executing = "none"
    /\ posted > 0
    /\ posted' = posted - 1
    /\ IF Alive
       THEN /\ executing' = "timer"
            /\ fired' = IF fired > MaxResumes THEN fired ELSE fired + 1
       ELSE UNCHANGED << executing, fired >>
    /\ UNCHANGED << arguments, generation, running, suspending, starting, resuming,
                    armed, accepted, settingUp, manual, released, aborted >>

ManualFireBegins ==
    /\ aborted = "no"
    /\ executing = "none"
    /\ manual > 0
    /\ manual' = manual - 1
    /\ executing' = IF Alive THEN "manual" ELSE "none"
    /\ UNCHANGED << arguments, generation, running, suspending, starting, resuming,
                    armed, accepted, settingUp, posted, released, fired, aborted >>

\* Mutation: firing by hand sets the timer up as well.
AfterBlock_ManualSetsUp == IF repeats /\ mode = "betweenExecutions" THEN "post" ELSE "none"

\* Between executions postFireBlock sets the timer up; firing by hand never does.
AfterBlock ==
    IF executing = "timer" /\ repeats /\ mode = "betweenExecutions" THEN "post" ELSE "none"

\* The client's block returns.
FireEnds ==
    /\ aborted = "no"
    /\ executing \in {"timer", "manual"}
    /\ executing' = AfterBlock
    /\ UNCHANGED << arguments, generation, running, suspending, starting, resuming,
                    armed, accepted, settingUp, posted, manual, released, fired,
                    aborted >>

PostFireSetsUp ==
    /\ aborted = "no"
    /\ executing = "post"
    /\ executing' = "none"
    /\ Arm
    /\ UNCHANGED << arguments, generation, running, suspending, starting, resuming,
                    accepted, settingUp, posted, manual, released, fired, aborted >>

---------------------------------------------------------------------------

Internal ==
    \/ StartResumes \/ ResumeSetsUp \/ Suspend
    \/ \E g \in Generations : Due(g)
    \/ GlobalBlock \/ PreFireSetsUp
    \/ FireBegins \/ ManualFireBegins \/ FireEnds \/ PostFireSetsUp

Next ==
    \/ CallResume \/ CallStart \/ CallSuspend \/ CallFire \/ Release
    \/ Internal

\* Threads in a call go on, libdispatch runs dispatched blocks, armed blocks come
\* due, and the client's block returns.  Strong fairness where the model's bound or
\* the queue's other blocks hold a block back for a while: the queues are FIFO.
Fairness ==
    /\ WF_vars(ResumeSetsUp) /\ WF_vars(Suspend)
    /\ \A g \in Generations : SF_vars(Due(g))
    /\ WF_vars(GlobalBlock) /\ WF_vars(PreFireSetsUp)
    /\ SF_vars(FireBegins) /\ SF_vars(ManualFireBegins)
    /\ WF_vars(FireEnds) /\ WF_vars(PostFireSetsUp)

Spec == Init /\ [][Next]_vars /\ Fairness

---------------------------------------------------------------------------

\* The setups still to come after the client's block, between executions.
SetupsAfterBlock ==
    IF repeats /\ mode = "betweenExecutions"
    THEN posted + (IF executing \in {"timer", "post"} THEN 1 ELSE 0)
    ELSE 0

\* A timer that is running has a fire on its way that this generation will not
\* turn down: however start, restart, resume and suspend race with fires, it never
\* goes silent while `running' says it runs (BRUTimer.m:85-142, 220-236).
RunningTimerTicks ==
    running /\ Alive =>
        /\ generation > 0
        /\ resuming + armed[generation]
           + (IF repeats THEN accepted + settingUp + SetupsAfterBlock ELSE 0) > 0

\* Every chain of fires was begun by a start, restart or resume: a fire never
\* becomes two, and a timer that does not repeat runs its block at most once for
\* each of them.  Nothing is armed for a generation still to come, which the
\* assertion in the armed block relies on (BRUTimer.m:100-138).
NoFireFromNowhere ==
    /\ resuming + FoldFunction(+, 0, armed) + accepted + settingUp + SetupsAfterBlock
       + (IF repeats THEN 0 ELSE posted + fired) <= generation
    /\ \A g \in Generations : armed[g] > 0 => g <= generation

\* Once a timer stays suspended its block is, after the fires that had already
\* passed the check of `running', not executed any more; and a timer nobody retains
\* stops executing it, its queues run empty and nothing arms it again (BRUTimer.h:27,
\* BRUTimer.m:78, 96, 103, 117, 120, 215-218).  The latter not so on wall clock time:
\* a fire that is being set up and one that executes may keep the timer alive in turn
\* for as long as they happen to overlap.
UnwantedTimerGoesQuiet ==
    /\ <>[](~running) => <>[](executing # "timer")
    /\ released /\ ~(repeats /\ mode = "wallClock")
           ~> ([](/\ executing = "none"
                  /\ accepted + settingUp + posted + manual = 0
                  /\ \A g \in Generations : armed[g] = 0)
               \/ aborted # "no")

\* A running timer that is still referenced executes its block: again and again,
\* in both modes, if it repeats, and otherwise once it was started and unless it
\* is suspended (BRUTimer.m:111-138).
RunningTimerFires ==
    /\ <>[](repeats /\ running /\ ~released /\ aborted = "no")
           => []<>(executing = "timer")
    /\ ~repeats /\ running
           ~> (executing = "timer" \/ suspending \/ released \/ aborted # "no")

\* One start is one chain of fires, for "an execution of the block will get
\* triggered 1s _after the previous execution of the block ends_" (BRUTimer.h:35):
\* no two fires are armed that the timer will both accept.
OneChainPerGeneration ==
    repeats /\ mode = "betweenExecutions" /\ running => armed[generation] <= 1
==============================================================================
