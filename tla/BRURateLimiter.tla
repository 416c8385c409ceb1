---------------------------- MODULE BRURateLimiter ----------------------------
(***************************************************************************)
(* BRURateLimiter (src/BromiumCoreUtils/BRURateLimiter.m): hands results   *)
(* to a client's block one at a time.  The newest result waits in a        *)
(* BRUConcurrentBox; whoever fills an empty box dispatches a block to the  *)
(* serial syncQueue that takes the result out again; the queue is          *)
(* suspended until the client calls the completion block.                  *)
(*                                                                         *)
(* Names: a result stands for the call of setResult: that sets it and for  *)
(* the thread in that call.  SyncQueue is the thread that runs syncQueue,  *)
(* the one user of the box besides them.                                   *)
(***************************************************************************)
EXTENDS Naturals, Sequences

CONSTANTS
    Results,    \* the results, each set once
    SyncQueue,
    Nil

ASSUME NamesDiffer == SyncQueue \notin Results /\ Nil \notin Results

VARIABLES
    box, call, at, answer,   \* the box, see BRUConcurrentBox
    pc,                      \* [Results -> "idle", "swapping", "dispatching", "done"]
    blocks,                  \* blocks dispatched to syncQueue
    running,                 \* what syncQueue does: "nothing", "take" or "deliver"
    suspended,               \* the suspension count of syncQueue
    completionBlock,         \* the property: the result to be completed, or Nil
    held,                    \* the completion blocks the client holds
    released,                \* the owner dropped its reference
    deallocated,
    handed,                  \* history: the results handed to the result block
    aborted                  \* "no", or the assertion that stopped the process

B == INSTANCE BRUConcurrentBox WITH
        Threads <- Results \cup {SyncQueue}, Values <- Results, value <- box

boxVars == << box, call, at, answer >>
ownerVars == << released, deallocated >>
vars == << boxVars, pc, blocks, running, suspended, completionBlock, held, ownerVars,
           handed, aborted >>

Init ==
    /\ B!InitBox /\ box = Nil
    /\ pc = [r \in Results |-> "idle"]
    /\ blocks = 0
    /\ running = "nothing"
    /\ suspended = 0
    /\ completionBlock = Nil
    /\ held = {}
    /\ released = FALSE
    /\ deallocated = FALSE
    /\ handed = << >>
    /\ aborted = "no"

\* Mutation: the completion block kept for cleaning up retains the limiter.
Alive_RetainCycle ==
    \/ ~released
    \/ \E r \in Results : pc[r] \in {"swapping", "dispatching"}
    \/ running # "nothing"
    \/ completionBlock # Nil

\* The owner, a thread in setResult:, a block that runs on syncQueue and a
\* completion block the client holds keep the limiter alive; blocks that wait
\* and the property completionBlock do not.
Alive ==
    \/ ~released
    \/ \E r \in Results : pc[r] \in {"swapping", "dispatching"}
    \/ running # "nothing"
    \/ held # {}

---------------------------------------------------------------------------
(* setResult:                                                              *)

SetResult(r) ==
    /\ aborted = "no"
    /\ ~released
    /\ pc[r] = "idle"
    /\ pc' = [pc EXCEPT ![r] = "swapping"]
    /\ B!Call(r, [op |-> "trySwap", new |-> r])
    /\ UNCHANGED << blocks, running, suspended, completionBlock, held, ownerVars,
                    handed, aborted >>

\* Mutation: every call dispatches.
NeedsBlock_Always(old) == TRUE

\* Only who finds the box empty dispatches a block.
NeedsBlock(old) == old = Nil

Swap(r) ==
    /\ aborted = "no"
    /\ pc[r] = "swapping"
    /\ B!Step(r)
    /\ pc' = [pc EXCEPT ![r] = IF NeedsBlock(answer'[r]) THEN "dispatching" ELSE "done"]
    /\ UNCHANGED << blocks, running, suspended, completionBlock, held, ownerVars,
                    handed, aborted >>

Dispatch(r) ==
    /\ aborted = "no"
    /\ pc[r] = "dispatching"
    /\ pc' = [pc EXCEPT ![r] = "done"]
    /\ blocks' = blocks + 1
    /\ UNCHANGED << boxVars, running, suspended, completionBlock, held, ownerVars,
                    handed, aborted >>

---------------------------------------------------------------------------
(* The blocks of syncQueue.                                                *)

RunBlock ==
    /\ aborted = "no"
    /\ running = "nothing"
    /\ suspended = 0
    /\ blocks > 0
    /\ blocks' = blocks - 1
    /\ IF Alive
       THEN running' = "take" /\ B!Call(SyncQueue, [op |-> "take"])
       ELSE UNCHANGED << running, boxVars >>
    /\ UNCHANGED << pc, suspended, completionBlock, held, ownerVars, handed, aborted >>

\* Mutation: the queue is not suspended while the client is busy.
Suspended_Not(count) == count

Suspended(count) == count + 1

\* take, then performSetResult: up to the call of the result block, which is
\* handed a new completion block.
PerformSetResult ==
    /\ aborted = "no"
    /\ running = "take"
    /\ B!Step(SyncQueue)
    /\ IF at'[SyncQueue] # "outside"
       THEN UNCHANGED << running, suspended, completionBlock, held, handed, aborted >>
       ELSE IF completionBlock # Nil
       THEN /\ aborted' = "completionPending"
            /\ UNCHANGED << running, suspended, completionBlock, held, handed >>
       ELSE /\ running' = "deliver"
            /\ completionBlock' = answer'[SyncQueue]
            /\ suspended' = Suspended(suspended)
            /\ held' = held \cup {answer'[SyncQueue]}
            /\ handed' = Append(handed, answer'[SyncQueue])
            /\ UNCHANGED aborted
    /\ UNCHANGED << pc, blocks, ownerVars >>

\* The result block returns, and with it the block of syncQueue.
EndBlock ==
    /\ aborted = "no"
    /\ running = "deliver"
    /\ running' = "nothing"
    /\ UNCHANGED << boxVars, pc, blocks, suspended, completionBlock, held, ownerVars,
                    handed, aborted >>

---------------------------------------------------------------------------
(* The completion block.                                                   *)

\* The body of the completion block.
Completed == completionBlock' = Nil /\ suspended' = suspended - 1

\* The client calls it, once, from the result block or from anywhere later.
Complete(r) ==
    /\ aborted = "no"
    /\ r \in held
    /\ held' = held \ {r}
    /\ Completed
    /\ UNCHANGED << boxVars, pc, blocks, running, ownerVars, handed, aborted >>

\* The client drops it without a call.
Drop(r) ==
    /\ aborted = "no"
    /\ r \in held
    /\ held' = held \ {r}
    /\ UNCHANGED << boxVars, pc, blocks, running, suspended, completionBlock, ownerVars,
                    handed, aborted >>

Release ==
    /\ aborted = "no"
    /\ ~released
    /\ released' = TRUE
    /\ UNCHANGED << boxVars, pc, blocks, running, suspended, completionBlock, held,
                    deallocated, handed, aborted >>

\* dealloc calls a completion block that was never called.
CleanUp ==
    IF completionBlock # Nil THEN Completed ELSE UNCHANGED << completionBlock, suspended >>

Dealloc ==
    /\ aborted = "no"
    /\ ~Alive
    /\ ~deallocated
    /\ deallocated' = TRUE
    /\ CleanUp
    /\ UNCHANGED << boxVars, pc, blocks, running, held, released, handed, aborted >>

---------------------------------------------------------------------------

Next ==
    \/ \E r \in Results :
          SetResult(r) \/ Swap(r) \/ Dispatch(r) \/ Complete(r) \/ Drop(r)
    \/ RunBlock \/ PerformSetResult \/ EndBlock
    \/ Release \/ Dealloc

\* Threads in setResult: go on, libdispatch runs syncQueue, the result block
\* returns, ARC deallocates, and a client that holds a completion block calls it
\* or drops it.
Fairness ==
    /\ \A r \in Results :
          WF_vars(Swap(r)) /\ WF_vars(Dispatch(r)) /\ WF_vars(Complete(r) \/ Drop(r))
    /\ WF_vars(RunBlock) /\ WF_vars(PerformSetResult) /\ WF_vars(EndBlock)
    /\ WF_vars(Dealloc)

Spec == Init /\ [][Next]_vars /\ Fairness

---------------------------------------------------------------------------

\* `take' on syncQueue always finds a result: between them, the threads in
\* setResult: and syncQueue hold exactly one block for a full box and none for an
\* empty one, so the target queue is never blocked; nor is the process stopped there
\* because the client still has a completion block (BRURateLimiter.m:65-71, 84-88).
SyncQueueNeverBlocks ==
    /\ at[SyncQueue] # "asleep"
    /\ running = "take" => box # Nil
    /\ blocks =< 1
    /\ aborted = "no"

\* A limiter nobody needs is deallocated, as the completion block it keeps for itself
\* is no retain cycle; and whatever the client did with that block its queue is not
\* suspended then, which libdispatch forbids (BRURateLimiter.m:53-59, 78-82, 90-104).
LimiterIsFreed == released ~> deallocated /\ suspended = 0 /\ completionBlock = Nil

L == INSTANCE LatestValue WITH
        set <- { r \in Results : pc[r] \in {"dispatching", "done"} },
        latest <- box, busy <- completionBlock, received <- handed, closed <- released

\* Box, queue and suspension together are a mailbox for the latest result: among
\* others, the client is handed a result only after it completed the one before,
\* whatever thread completes it and when (BRURateLimiter.m:61-112).
ImplementsLatestValue == L!Spec
==============================================================================
