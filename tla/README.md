# BromiumCoreUtils in TLA+

A verification development of BromiumCoreUtils, a library of small Objective-C
building blocks on top of Foundation and libdispatch. The state of each
concurrent component is modelled in TLA+ from its source, checked with TLC on
small instances, and its safety is proved with TLAPS for all instances. Paths below
are relative to the repository root.

## 1. The system

The library has no main loop of its own. Its objects are called from any thread
and do their work in blocks on libdispatch queues; what is hard about them is the
order in which those blocks run, which of them still hold the object when they
do, and what has changed since they were dispatched.

| component | state | operations | interacts with |
|---|---|---|---|
| `BRURetry` | state machine `Idle / Delay / ActiveWaiting / ActiveCancelling`, attempt, current delay, identifier, deferred, timer; all on a serial `syncQueue` | `startWithCompletionBlock:`, `cancel:`, and the blocks: action, continuation, policy, timer callback | `BRUTimer` for the delay, `BRUDeferred` for the completion blocks |
| `BRUTimer` | generation and `running` on a serial `syncQ`; interval | `start`, `restart`, `resume`, `suspend`, `fire`; the chain dispatch_after → syncQ → global queue → target queue | the client's block |
| `BRUDeferred` | `Pending`/`Resolved`, value, waiting blocks; on a serial queue | `then:`, `resolve:` | a completion queue |
| `BRUConcurrentBox` | a value or nil under an `NSCondition` | `put:`, `tryPut:`, `take`, `tryTake`, `tryTakeUntil:`, `swapWithValue:`, `trySwapWithValue:`, `isEmpty` | the threads that call it |
| `BRURateLimiter` | a box with the latest result, a queue suspended while a result is handled | `setResult:`, the completion block | `BRUConcurrentBox`, the client's block |
| `BRUTask` | running, pid, termination status; two pipes while it launches | launch (fork, exec, the handshake over the pipes), `terminate`, `interrupt`, `waitUntilExit` | the kernel, a dispatch source for the child's exit |
| `BRUFileMonitor` | last `stat`, dispatch sources on each component of the path; on a serial `syncQueue` | start, stop, the sources' events, rebuilding the sources | the file system, the client's callback |
| `BRUResourceCleanup` | a stack of cleanup blocks, `active`; on a serial queue | add, run all, discard, dealloc | the client's blocks |
| `BRUConcurrentVariable` | a value on a serial queue | read, write, swap, modify | the client's `modifyBlock` |
| `BRUDispatchUtils` | a marker on each queue, under a key of the queue's own | queue creation, "am I on this queue?", three assertion macros | libdispatch; every component asserts with it |
| `BRUArithmetic`, `BRUMemoryRegion` | none: functions on integers of a width | overflow-aware arithmetic and conversions, parts of regions | `BRUMemoryRegion` calls `BRUArithmetic` |
| the rest | none that lasts | formatting, temporary files, assertions, macros, logging | |

What is hard about each, and what makes it correct:

* `BRURetry`: starts, cancels, continuations, policy answers and timer callbacks
  arrive in any order, from operations that may be over. One run at a time; no attempt
  after a cancel; the result is the truth about the last attempt; every completion block
  is called once, even if the object was released; no wait without a timer.
* `BRUTimer`: a fire is checked on the first of four hops only. A running timer
  has a fire on its way, every fire goes back to a start, a suspended or released
  timer falls silent.
* `BRUDeferred`: `then:` races `resolve:`. Each block is called once, with the first
  value, in order if the queue is serial.
* `BRUConcurrentBox`: wakeups and timeouts. Nobody sleeps who could go on; a value is
  handed to one caller.
* `BRURateLimiter`: it blocks on a box from inside its own queue. It never blocks for
  good, hands over one result at a time, the latest, and leaves no suspended queue.
* `BRUTask`: two processes and a kernel event, several launches at once. Launches
  return with the truth, leak nothing, and whoever waits is told; the client's files
  arrive as the program's standard streams, and nothing else does.
* `BRUFileMonitor`: the file and its directory change while the monitor looks and while
  its sources are rebuilt. A monitor at rest has told its client of everything that
  lasts, watches what is there now, and comes to rest at all.
* `BRUResourceCleanup`: one failing cleanup does not keep the others from running, in
  reverse order, once; none is forgotten.
* `BRUConcurrentVariable`: modifications do not interleave.
* `BRUDispatchUtils`: queues are marked by whoever asks first, possibly by two threads
  at once; the answer must be right at any moment, or an assertion stops a process that
  did nothing wrong.
* `BRUArithmetic`, `BRUMemoryRegion`: the edges of a width; a part of a region never
  leaves it, and is refused only if it does not exist.

The list `hazards` in `PROJECT.json` names for each the line where it bites and the
properties that would notice.

## 2. The modules

A module with the name of a class models that class's source file. Names are those of the
source where TLA+ allows it. A failed assertion ends the process
(`BRUAsserts.m`): the variable `aborted` then names it, and nothing happens any
more. Operators named `X_Something` beside an operator `X`, with a comment that
begins *Mutation*, are slips one could make in the code; they are not used by the
specification and serve to show that a property notices them.

| module | what it is |
|---|---|
| `BRUDeferred` | the two API calls, the FIFO of blocks each leaves on `syncQueue`, `processBlocks`, the completion queue |
| `DeferredClients` | threads that call `then:` and `resolve:` in any order; the properties of the promise |
| `DeferredProofs` | theorems about the promise |
| `BRUPromise` | abstract: what the `BRUPromise` protocol promises, without queues |
| `BRUTimer`, `TimerProofs` | the timer with its four hops, its clients and its properties; theorems |
| `BRURetry` | the retry operation; INSTANCEs `BRUDeferred` for its promises and carries the one-shot timer it uses |
| `RetryProperties`, `RetryInvariant`, `MCRetry` | its properties, the inductive invariant, symmetry for TLC |
| `RetryOperation` | abstract: what the client of a `BRURetry` is told |
| `RetryProofs` | theorems about `BRURetry` |
| `BRUConcurrentBox` | every method as: call, lock, a critical section, perhaps sleep and wake |
| `BoxClients` | threads that call it; its properties |
| `TMVar` | abstract: every call takes effect at once, when it can |
| `BoxProofs` | theorems about the box |
| `BRURateLimiter`, `RateLimiterProofs` | the limiter composed with `BRUConcurrentBox`, and its properties; theorems |
| `LatestValue` | abstract: a mailbox that keeps the latest result only |
| `BRUTask` | launching parent, child processes, pipes, exit handler, signals, waiters |
| `TaskProperties`, `TaskProofs` | its properties; theorems |
| `TaskDescriptors` | the client's descriptors of one launch: `dup2`, closing, what is open where afterwards |
| `BRUFileMonitor`, `MCFileMonitor` | the monitor and the file system under it, its properties; initial states up to renaming for TLC |
| `FileMonitorProofs` | theorems about it |
| `BRUResourceCleanup` | the cleanup stack and its properties |
| `BRUConcurrentVariable` | the variable and its property |
| `BRUDispatchUtils` | queue markers, the library's queue assertions and its property |
| `BRUArithmetic`, `ArithmeticClients` | the header's functions as operators; calls of them with every argument |
| `BRUMemoryRegion`, `RegionClients` | the header's functions on top of `BRUArithmetic`; a client that narrows a region down |
| `Utilities`, `MCUtilities` | the parts that stand for themselves, promises included, side by side, so that one run checks them |
| `UtilitiesProofs` | theorems about each of those parts but the promises (`DeferredProofs`) |

The abstract modules `BRUPromise`, `TMVar`, `LatestValue` and `RetryOperation` stand for
the interfaces in the headers: what a client of the class can see and count on.

### How state and actions correspond to the code

**One action is one block on a serial queue.** The fields of `BRURetry`,
`BRUTimer` and `BRUDeferred` are only touched on a serial queue of their own, so a
block on it is atomic for them. What the block dispatches is a new pending item
(`at[r] = "queued"`, `armed[g] + 1`, an entry of `syncQueue`), which a later action
takes up. A `dispatch_sync` has no pending state: the caller is blocked, so the call
is modelled at the moment its block runs. Among pending blocks of different origin
no order is imposed, which allows more than FIFO queues do; `BRUDeferred`, whose
properties need the order, keeps real FIFO queues.

**References.** ARC is part of the behaviour: blocks that `BRU_weakify` find nil
when nobody else holds the object. The operators `RetryAlive`, `TimerAlive`
(`BRURetry`), and `Alive` (`BRUTimer`, `BRURateLimiter`) say who does. A detail
that matters: the block at `BRURetry.m:281` names `self.targetQueue` before it
strongifies, so it captures `self` strongly and keeps a released `BRURetry` going
until its completion blocks have been called.

**BRURetry.** A run `<<o, n>>` is attempt `n` of operation `o`; `at[<<o, n>>]`
follows it through its blocks: action dispatched, running, continuation dispatched,
policy dispatched, decided, delayed. The same pair names the timer scheduled after
it. Since one operation has to be begun by one start, callers name operations.
The action's continuation is called at most once, as its contract says; the
policy stops at the latest where `BRURetryPolicyBlockWithMaxRetries` would
(`MaxRetries`) and may change the delay it is given. A `cancel:` with an
identifier that is not the current one returns NO and changes nothing.

**BRUTimer.** Time is left out: an armed `dispatch_after` may come due at any
moment, so whatever `adjustInterval` does is covered. Blocks on the same queue
that are alike are counted; an armed block remembers the generation that
`setupTimer` read. Several suspends that are pending at once act like one.
`fired` counts the timer's own executions of the client's block.

**BRUConcurrentBox.** Between acquiring the lock and releasing it, or waiting, no
other thread sees the box: that is one step (`Step`). `-wait` releases the lock and
sleeps; a broadcast, a spurious wakeup or the date makes the thread contend for
the lock again, and it looks at the box anew when it has it.

**BRURateLimiter.** `setResult:` is the swap and, after the box's lock is
released, the dispatch, in two steps. The block on `syncQueue` takes from the box
and suspends the queue; the completion block resumes it, from any thread, at most
once; if the client drops it without calling it, its deallocation does.
`dealloc` happens when nothing holds the limiter any more.

**BRUTask.** `holders` says which processes have each end of each launch's two pipes
open; a fork copies all that the parent has, so children of other launches hold
ends too, until they close everything before execve. A `read` blocks until there
is data or no holder of the other end is left. Each system call that another thread's
fork could fall behind is a step of its own, except that the byte is written and its
end closed in one (a fork in between only inherits an end nobody waits on any more), and
that a child that gives up writes `errno` and exits in one. A child can be killed at any
moment. The kernel delivers its exit once the source is resumed, even when the child
was gone before. Reads and `waitpid` calls start again when interrupted: the code does so
in its loops, and the child's `read` does under handlers installed with `signal()`.

**TaskDescriptors.** The same launch from another side: which file is behind which
number. The client has any of five descriptors open and gives each stream one of them or
none, the same one for several streams and 0 to 2 included; `pipe()` takes the lowest
free numbers, so the error pipe may end up among the standard ones. The child then runs
`dup2` for each stream in turn, closes the originals and everything above 2 but the
error pipe, and executes, or fails to and writes `errno` to whatever has the error pipe's
number by then. The parent closes its pipe ends and, after a success, the child's ends of
`NSPipe`s.

**BRUFileMonitor.** The path has three components: the root, a directory that may be
replaced or missing, and a file in it. Opening a component, its registration, an event's
handler on `monitorQueue`, the block it dispatches to `syncQueue` and the destruction of
the sources are steps of their own; other processes change the file system between any
two of them. The kernel reports to sources that are registered. What the client is told
is recorded as what it would find if it looked at that moment (`told`, `unread`).

**BRUResourceCleanup, BRUConcurrentVariable.** All calls are `dispatch_sync` to a serial
queue, so a call is one step, except that a client's block runs within it and takes
its time: a cleanup block of the loop, a `modifyBlock`. A value of the variable is the
sequence of the threads it went through, so that no two values are mixed up.

**BRUDispatchUtils.** `_bru_is_on_queue` is not atomic: it reads the marker, sets one if
there is none, and compares it with the one the running block finds. Each is a step.
Queues target other queues (`Chain`), whose markers a block finds too.

**BRUArithmetic and BRUMemoryRegion.** A function is an operator from arguments to what
it returns and what it stores. The types' bounds are constants that satisfy the header's
static assertions (`Widths`). The compiler's overflow builtins store the wrapped result.
A float is NaN or a number of halves: comparisons and the cast tell no more apart. Casting
NaN is undefined, so any value comes out. An address is a number below `2^w`.

## 3. What the runs show

Every run lets the system stop (`CHECK_DEADLOCK FALSE`): clients have no duty to
call anything, and a failed assertion ends the process.

| run | question | instance |
|---|---|---|
| `RetrySafety` | In every interleaving of starts, joins, cancels, restores, releases, runs and timers: is one run at a time under way, is the result the truth about the last attempt, is the delay handed on within an operation and not to the next, does no attempt follow a cancel, do the fields fit together? Also the inductive invariant `IInv`. | two callers that both listen, two attempts, a policy that may set another delay; callers symmetric |
| `RetryLiveness` | Do cancels settle, and does it all implement `RetryOperation`, so that each completion block is called, once, with the result of the operation it joined? | two callers, one of them without completion block, two attempts |
| `Timer` | Does a running timer always have a fire on its way; is no fire made from nothing; do repeating timers repeat, one-shot timers fire, suspended and released timers fall silent? | both modes and one-shot; three calls of start/restart/resume, one manual fire pending, two fires on their way |
| `Box` | Does nobody sleep who could go on; is each value handed to one caller; does it implement `TMVar`? | three threads, a call each of any kind, two values, box empty or full at first |
| `RateLimiter` | Does `take` never block `syncQueue`; is everything freed, with its queue resumed; is it a mailbox that hands over the latest result, one at a time? | four results from four threads |
| `Task` | Does every launch return, with the truth; is no descriptor left open or inherited by a program; are signals sent to programs only; is a waiter woken, and not before everything is set? | two launches that overlap, two threads that wait for one of them |
| `FileMonitor` | Is a monitor at rest up to date, and does it come to rest? Does no block act on sources that are gone? | two directories, two files, three changes of the file system after the first call, two calls of start and stop |
| `Utilities` | One of seven subjects per behaviour. Is every answer of the arithmetic the truth about exact arithmetic; does a part of a region stay inside it and is it the one that was meant; does every cleanup block run, and is a failure told; are the variable's calls atomic; is a thread told the truth about the queue it runs on; do the client's descriptors arrive; is each block of a promise called once, with the first value, in order on a serial queue, and does a promise implement `BRUPromise`, so that each block of a resolved one is called? | widths of 3 and 5 bits, all arguments; 37 parent regions; three cleanup blocks; three threads with a call each; three queues of which one targets another, two threads, blocks two deep; five descriptors, two of them `NSPipe`s; two promises, one with a serial and one with a concurrent queue, two blocks, two resolves each with two values |

Four runs show a disagreement between the documentation and the code; each is a
`finding` in `PROJECT.json` with the text it contradicts:

* `RetryStartReturnsIdentifier`: a start that joins an operation in the state
  `Delay` or `ActiveWaiting` stops the process at the assertion behind it instead
  of returning the operation's identifier.
* `RetryCancelIsSafe`: a `cancel:` in the state `Delay` after the timer's fire has
  passed the timer's own check lets the timer's block run into *Unexpected
  callback*, which stops the process.
* `TimerOneChain`: `setupTimer` reads the generation on its own, so two resumes (or
  a resume and a fire) that overlap leave two chains of fires of one generation.
* `RetryFirstDelay`: `currentDelay` is set when an operation ends, not when the object
  is made (`BRURetry.m:166`), so the first policy block of a new object is handed 0
  instead of the delay of its construction (`BRURetry.h:75`). `DelayHandedOn` is the rest of
  that sentence, which holds: later attempts are handed what the one before chose, and
  later operations begin with the delay of the construction.

What else the code does that a reader of its documentation would not expect, without a
run of its own because one look at the line settles it:

* `BRUTask.m:342`: a launch whose `fork` fails leaves its two pipes open; `ForkFails` does
  so, and `NoDescriptorLeft` excepts it.
* `BRUTask.m:300`: a descriptor that is the number of an earlier stream (standard input's
  for standard output, say) is overwritten before it is copied, and in a process without
  standard streams the error pipe may be overwritten, so that a failed `execve` looks like
  a success. `DescriptorsArrive` names both exceptions.
* `BRUTask.m:489`: a second thread may wait for a task before the first has marked it as waited
  on; they then share one signal, and one of them waits for ever. `LoneWaiterReturns` excepts it.
* `BRUArithmetic.h`: the conversions of floating-point numbers return true for NaN;
  `bru_ptrdiff_to_size` accepts more than its comment's `INT32_MAX`; `bru_offset_pointer`
  takes addresses of the upper half for negative numbers.
* `BRUFileMonitor.m:77`: a second start, which fails, overwrites `stat`, so the change it
  saw is not reported (`fooled`). `BRUFileMonitor.m:264-290`: sources are rebuilt only if the
  inode at the path changed; when the same file comes back in another directory, or a
  component was opened before the look that found the change, a source stays on what was
  there before (`blind`). Writes during a rebuild are not reported. A path that ends with a
  slash never equals the component it is compared with at line 277. `QuietMonitorIsCurrent`
  names these exceptions.

Where a property names an exception, it does not cover that hazard: the model takes the
step, nothing in the repository says what should come of it, and the note in `hazards` says so.

The properties of `BRURetry` in the passing runs are stated so that the assertions of
`RetryStartReturnsIdentifier` and `RetryCancelIsSafe` may fail: `OnlyKnownAborts` says
nothing else does.

### Bounds and why they are enough

* *Retry*: two callers are two operations in sequence, or one operation joined,
  cancelled and restored; two attempts are what it takes for a timer, a policy
  answer and a stale timer of an earlier operation. More of each is covered by the
  theorems. `PolicyDelays = {2}` beside `Delay = 1` and the initial 0 makes every
  source of a delay distinguishable, in `RetryFirstDelay` too.
* *Timer*: `MaxResumes = 3` lets fires of two older generations meet the current one;
  `MaxBacklog = 2` lets a fire overtake another behind `syncQ`.
  A bound on calls does not bound the number of fires: the timer runs for ever.
* *Promises* (in `Utilities`): two blocks of one promise are enough for their order, two
  promises for the sharing of a queue, two resolves for the assertion.
* *Box*: with three threads a wakeup can reach the wrong one of two sleepers. Calls
  are enough to fill, empty and wait in every combination, since it may be full or
  empty at first.
* *Task*: a second launch is what it takes for one child to inherit the other's pipes;
  a second waiter of one task meets the first between its check and its mark.
* *FileMonitor*: two changes make a monitor rebuild and meet the rebuild; the third meets
  the look after it. Two directories and files are one that is there and one that takes its
  place; a third would be another replacement. Changes before the first call are the choice of
  the initial state; `MCFileMonitor` takes one of each set of initial states that differ in
  names only. Two calls are a start and a stop, a second start, or a second stop.
* *Utilities*: the widths (`INT32_MAX = 3`, a double's integers up to 7, `PTRDIFF_MAX = 15`)
  keep the order of the real ones, and every argument is tried; the theorems cover all
  widths. The parents are empty, short and long regions around each boundary of the
  address space and of its lower half. Two threads race to mark a queue; a block in a
  block is what it takes for `dispatch_sync`. The three streams can be given to each other,
  share one, or be files above them; a fourth and fifth descriptor are the ones that get
  closed.
* *RateLimiter*: the third result can be set while the first is out and the second
  in the box; a fourth replaces it.

### Fairness

libdispatch runs what was dispatched to it, a `dispatch_after` fires, threads
inside a call go on, and the client's blocks return: weak fairness on each of these
actions. Clients need not make any call; the continuation block of a `BRURetry` is
called because its contract says so. Strong fairness appears where a step is
disabled for a while by others and FIFO order or the clock guarantees its turn:
`BRUTimer`'s armed blocks (held back by the model's bound `MaxBacklog`) and the two
kinds of fires that share the target queue, and `TimeOut` in the box (after its date
`waitUntilDate:` does not sleep again). A child gets as far as execve or dies; its program
need not end.

`BRUFileMonitor`: the kernel registers a source that was resumed and reports events, and
libdispatch runs handlers and blocks. Other processes need not change anything, and
`MonitorSettles` says what happens once they stop (`MaxChanges` makes them).

`UnwantedTimerGoesQuiet` leaves out, for released timers, repeating timers on wall clock
time: there a fire that is being set up and one that executes hold the timer alternately,
and if they keep overlapping it never goes away. In practice the overlap ends; nothing in
the code guarantees it.

Of the parts in `Utilities` only the promises say what happens eventually: its specification
carries their fairness (`DeferredFairness`).

## 4. What is proved

Every invariant and every action property that a run checks is also a theorem, for all
values of the constants, and so is the safety part of each of the four refinements. Most
of the properties are not inductive, so each component has an invariant that is; the
properties follow from it. The proofs have a lemma per action, with a step per conjunct
it can disturb.

**`RetryProofs`**, for any callers, number of retries and delays.
`RetryInvariantHolds` is `Spec => []IInv` (module `RetryInvariant`), in three layers that
are proved one on top of the other:

* `CoreInv` is about one moment. The properties speak of single fields or runs; that no
  stale timer acts on a later operation, for instance, rests on which timers can still be
  on their way and on which attempts cannot have happened yet. So it says how the fields
  fit together in each state (`FieldsFit`), that the unfinished run is the current attempt
  (`CurrentRun`), that nothing exists ahead of it (`NothingAhead`), that a delayed run has
  retries left (`RetriesLeft`), that a pending timer of the current operation is the one
  held (`OneTimerMatches`), that an accepted cancel shows in the state (`CancelShows`) and
  that a promise has at most one resolve, queued or done (`ResolvedOnce`). From it follow
  `TypeCorrect`, `InternalAssertionsHold`, `RunsDoNotOverlap` and `CancelStopsAttempts`.
* `HistoryInv` is about runs that are over: which delay the next policy block has to be
  handed while the run before it is still on its way, and that an object that had an
  operation before is back at the delay of its construction (`DelaysFit`), what the policy was
  asked about (`PolicyAsked`), and that each value a promise has or is about to get is
  what the operation's last run came to (`ResultsAreTrue`; a witness run per value, so
  that nothing has to be said about `CHOOSE`). From it follow `RetriesFollowThePolicy`,
  `DelaysAreHandedOn` and `ResultsAreTheTruth`.
* `ListenersInv` says where the completion block of each `then:` is: queued, kept or due, in
  one of the places, once, and not after it was called. With it `RetryIsOperation`, that
  every step is one of `RetryOperation` or a stutter.

**`TimerProofs`**, for any number of resumes, fires by hand and fires behind `syncQ`.
`TimerInvariant` says that the fires on their way, summed over all generations, and for a
one-shot timer those that were executed, do not exceed the resumes (`ChainsAreBegun`), and that only a mode
that sets up again at a place is ever about to do so there (`SetupsFit`); `TimersTick` and
`FiresAreBegun` follow. The sum is a fold. That one block more or less makes it one more or
less is proved first, from the existence of the function of sets the fold is; the
library's induction theorems not being available, that existence rests on a set of numbers
having a least one (`LeastNumber`), which the library's `WFMin` gives.

**`DeferredProofs`**, for any promises, blocks, values and clients. `DeferredInvariant`
follows each call of `then:` through the places it can be in and says that in each place, and
from place to place, calls stay in the order they were made (`QueuedInOrder`,
`KeptInOrder`, `DueInOrder`, `FurtherIsEarlier`), and that the value is, or will be, that of the
first `resolve:` (`FirstValue`). From it `BlocksGetTheFirstValue`, `SerialQueuesKeepTheOrder` and
`DeferredIsPromise`.

**`BoxProofs`**, for any threads, values and number of calls. `NoLostWakeup` is inductive
together with the types: a thread falls asleep only in the critical section that found it
had to, and every change of the box wakes everybody. `NoValueLost` and `BoxIsTMVar` rest on
one lemma (`LockEffect`): a method that takes the lock sleeps or has the abstract call's
effect.

**`RateLimiterProofs`**, for any results. `TakeFindsResult` needs that what keeps
`syncQueue` going is a token (`OneToken`): one thread about to dispatch, one block that waits or one
that takes, and never two, and none while the box is empty. With `SuspendedForClient`, that the queue is
suspended exactly while the client works, follows `LimiterIsMailbox`.

**`TaskProofs`**, for any tasks and waiters. `TaskInvariantHolds` says until when parent and child
hold each end of the pipes (`ParentHolds`, `ChildHolds`), that a child does not pass the byte before
it is written and becomes what is told or will be (`ChildFits`), and that the exit handler acts
once, on a child that is over (`HandlerFits`). From it `TaskAssertionsHold`,
`LaunchTellsTheTruth`, `DescriptorsAreClosed`, `SignalsMeetPrograms`, `WaitersSeeTheExit`.

**`FileMonitorProofs`**, for any file system and any number of changes and calls.
`NoBlockActsWithoutMonitors` needs that a task that is to destroy the sources, or may decide to,
occupies `syncQueue` and has them. `RestIsCurrent` needs that a monitor whose sources are all
registered gets an event of whatever changes on a path that is watched as it is
(`WatchesOrWillLook`), that the last look is what the client was told unless a failed start
came between (`ToldOfStat`), and that a write that was not told is on its way unless a look
found the file gone (`WriteIsOnItsWay`).

**`UtilitiesProofs`**, for any values of the constants:

* `ArithmeticIsExact`, for types of any widths the header's static assertions allow: a lemma per
  form of call (one step, two steps, a cast), on top of one about the overflow builtins. In a
  chain of two operations the second is exact because the first was.
* `PartsStayInside` and `PartsAreWhatIsMeant`, for any parent regions. The property about bytes is
  not inductive, since an empty region has none: the invariant says that the region's
  ends are within the parent's.
* `VariableIsAtomic`. The invariant adds that at most one modification is under way, and that
  it was handed the value that is still the current one.
* `QueueAnswersAreTrue`, for any queues, whatever they target. The invariant adds that a queue has a
  marker under its own key only (`OwnKeys`), that a thread about to mark a queue will not
  replace a marker by a different one (`MarksOnce`), and that a thread about to compare knows
  the marker the queue has (`KnowsMarker`): the answer given later is then still about it.
* `BlocksAreNotForgotten` and `RunsTellAll`. The invariant says that during a run what ran is the top
  of the stack and what has still to run the rest of it, both from the top down
  (`RunFollowsStack`).
* `StreamsAreTheClients`, for any table of descriptors with room for two pipes. The invariant
  follows each stream (`StreamsArrive`), everything else (`OthersClose`) and whether the error
  pipe will still close on exec (`ErrorPipeCloses`). That `pipe()` has a second free descriptor to
  return is a lemma about cardinalities.

Assumptions are those of the modules (`RetryAssumption`, `TimerAssumption`, `NilIsNoRun`,
`ObjectsAreNoBools`, `CleanupAssumption`, `NilIsNoInode`, `DescriptorAssumption`, `Widths`,
`ParentsAreRegions`, `Chains`, ...): that nil is not an object, an inode or a marker, that
an object is not a BOOL, that bounds are natural numbers, that there is room for the pipes,
that the types are as wide as the header asserts. The theorems of `Utilities`' parts are about
each part's own specification (`SpecArithmetic`, `SpecRegions`, `SpecCleanup`, `SpecVariable`,
`SpecQueues`, `SpecDescriptors`, `SpecDeferreds`), of which the run's is the disjoint union.

Model-checked only is what depends on fairness, as that and ENABLED are out of the prover's
reach: `CancelSettles`, `RunningTimerFires`, `UnwantedTimerGoesQuiet`, `LimiterIsFreed`,
`EveryLaunchReturns`, `LoneWaiterReturns`, `MonitorSettles`, and of the four refinements
(`ImplementsOperation`, `ImplementsPromise`, `ImplementsTMVar`, `ImplementsLatestValue`) that what the
abstract specification says must happen does.

## 5. What is not modelled, and why

* of `BRUTask` the conversion of arguments and environment, a second launch of one task
  (an assertion), that `dealloc` cancels the source, an interrupted `read` of the child, a
  pid that is reused between the look at `running` and `kill` (the two are steps, but
  nothing in the code closes the window), and the zombie a failed `execve` leaves.
* of `BRURetry` a client that calls a continuation block twice, against its contract.
* of `BRUFileMonitor` symbolic links, an inode number that is reused, its lifetime
  (`dealloc` asserts that it was stopped), and callbacks that arrive after a stop because
  they were dispatched before it.
* of `BRUResourceCleanup` and `BRUConcurrentVariable` a block that calls the object it
  belongs to: `dispatch_sync` to the queue one is on never returns.
* of `BRUDispatchUtils` the pointers themselves (a queue stands for its key), and the name
  it stores beside the marker. A `dispatch_sync` to the queue of an outer block, or from a
  queue to one that targets it, deadlocks without any assertion that would notice: the
  assertions ask about the innermost block.
* `BRUEitherErrorOrSuccess`, `BRUSetDiffFormatter`: immutable values and formatting.
* `BRUTemporaryFiles`: calls of the file system, one after the other.
* `BRUAsserts`, the macro headers, logging: what they do to the
  other components (the process ends, queues are serial, references are weak) is in
  their modules.

## 6. Plan

What was planned is modelled, and its safety is proved. What is left, from the most to
the least worth it:

1. Theorems about behaviours the properties leave out: that a stopped monitor tells nobody,
   that a cancelled operation's timers run out, as action properties.
2. Other lemmas about several steps on which the liveness properties rest, so that only the
   fairness argument itself is left to TLC.
3. `waitUntilExit` after a `waitpid` that failed, and the other hazards of `BRUTask` that no
   property covers, should the code come to handle them.
