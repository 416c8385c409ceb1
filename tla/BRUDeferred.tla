----------------------------- MODULE BRUDeferred -----------------------------
(***************************************************************************)
(* BRUDeferred (src/BromiumCoreUtils/BRUDeferred.m): a promise that is     *)
(* resolved once and calls every block handed to `then:' with its value.   *)
(*                                                                         *)
(* The module describes a family of deferreds that share a completion      *)
(* queue, the way the operations of one BRURetry do: those in Serial a     *)
(* serial one, the others a concurrent one.  Both API calls only           *)
(* dispatch_async a block to the deferred's serial syncQueue and return;   *)
(* what they do happens when that block runs, and the blocks of the client *)
(* run later still, from the completion queue.  A member of Blocks is one  *)
(* call of `then:', since [block copy] makes each call's block its own.    *)
(***************************************************************************)
EXTENDS Naturals, SequencesExt

CONSTANTS
    Deferreds,  \* the promises
    Blocks,     \* the calls of `then:'
    Values,     \* what `resolve:' may be called with
    Serial      \* the promises whose completion queue is a serial one

ASSUME SerialAssumption == Serial \subseteq Deferreds

VARIABLES
    syncQueue,        \* [Deferreds -> FIFO of dispatched, not yet run, API calls]
    state,            \* [Deferreds -> "Pending" or "Resolved"]
    value,            \* [Deferreds -> the value, <<>> while there is none]
    thenBlocks,       \* [Deferreds -> blocks waiting for the value, oldest first]
    completionQueue,  \* dispatched, not yet run, <<deferred, block>> pairs
    calls,            \* [Blocks -> the values the block was called with]
    aborted           \* "no", or the assertion that stopped the process

promiseVars == << syncQueue, state, value, thenBlocks, completionQueue, calls >>

\* What `value' holds before the promise is resolved (nil).
NoValue == << >>

\* The two kinds of block that an API call puts on a deferred's syncQueue.
ThenCall(b) == [op |-> "then", block |-> b]
ResolveCall(v) == [op |-> "resolve", value |-> v]
ApiCall == { ThenCall(b) : b \in Blocks } \cup { ResolveCall(v) : v \in Values }

InitPromises ==
    /\ syncQueue = [d \in Deferreds |-> << >>]
    /\ state = [d \in Deferreds |-> "Pending"]
    /\ value = [d \in Deferreds |-> NoValue]
    /\ thenBlocks = [d \in Deferreds |-> << >>]
    /\ completionQueue = << >>
    /\ calls = [b \in Blocks |-> << >>]

---------------------------------------------------------------------------
(* The API: a call leaves its block on the syncQueue and returns.          *)

Enqueue(d, call) ==
    /\ syncQueue' = [syncQueue EXCEPT ![d] = Append(@, call)]
    /\ UNCHANGED << state, value, thenBlocks, completionQueue, calls >>

Then(d, b) == Enqueue(d, ThenCall(b))

Resolve(d, v) == Enqueue(d, ResolveCall(v))

---------------------------------------------------------------------------
(* The queues run what was dispatched to them.                             *)

\* Mutation: the array is walked from its end.
ProcessBlocks_Backwards(d, newState, blocks) ==
    IF newState = "Pending"
    THEN /\ thenBlocks' = [thenBlocks EXCEPT ![d] = blocks]
         /\ UNCHANGED completionQueue
    ELSE /\ thenBlocks' = [thenBlocks EXCEPT ![d] = << >>]
         /\ completionQueue' = completionQueue
                \o Reverse([i \in 1..Len(blocks) |-> << d, blocks[i] >>])

\* processBlocks, called with the thenBlocks and the state the caller just set:
\* while pending nothing happens, afterwards every block is dispatched, in
\* order, and the array emptied.
ProcessBlocks(d, newState, blocks) ==
    IF newState = "Pending"
    THEN /\ thenBlocks' = [thenBlocks EXCEPT ![d] = blocks]
         /\ UNCHANGED completionQueue
    ELSE /\ thenBlocks' = [thenBlocks EXCEPT ![d] = << >>]
         /\ completionQueue' =
                completionQueue \o [i \in 1..Len(blocks) |-> << d, blocks[i] >>]

\* Mutation: `then:' leaves it to `resolve:' to process the blocks.
RunThen_OnlyAdds(d) ==
    /\ aborted = "no"
    /\ syncQueue[d] # << >>
    /\ Head(syncQueue[d]).op = "then"
    /\ syncQueue' = [syncQueue EXCEPT ![d] = Tail(@)]
    /\ thenBlocks' = [thenBlocks EXCEPT ![d] = Append(@, Head(syncQueue[d]).block)]
    /\ UNCHANGED << state, value, completionQueue, calls, aborted >>

RunThen(d) ==
    /\ aborted = "no"
    /\ syncQueue[d] # << >>
    /\ Head(syncQueue[d]).op = "then"
    /\ syncQueue' = [syncQueue EXCEPT ![d] = Tail(@)]
    /\ ProcessBlocks(d, state[d], Append(thenBlocks[d], Head(syncQueue[d]).block))
    /\ UNCHANGED << state, value, calls, aborted >>

\* Mutation: without the assertion a later `resolve:' replaces the value.
RunResolve_NoAssertion(d) ==
    /\ aborted = "no"
    /\ syncQueue[d] # << >>
    /\ Head(syncQueue[d]).op = "resolve"
    /\ syncQueue' = [syncQueue EXCEPT ![d] = Tail(@)]
    /\ state' = [state EXCEPT ![d] = "Resolved"]
    /\ value' = [value EXCEPT ![d] = << Head(syncQueue[d]).value >>]
    /\ ProcessBlocks(d, "Resolved", thenBlocks[d])
    /\ UNCHANGED << calls, aborted >>

RunResolve(d) ==
    /\ aborted = "no"
    /\ syncQueue[d] # << >>
    /\ Head(syncQueue[d]).op = "resolve"
    /\ state[d] = "Pending"
    /\ syncQueue' = [syncQueue EXCEPT ![d] = Tail(@)]
    /\ state' = [state EXCEPT ![d] = "Resolved"]
    /\ value' = [value EXCEPT ![d] = << Head(syncQueue[d]).value >>]
    /\ ProcessBlocks(d, "Resolved", thenBlocks[d])
    /\ UNCHANGED << calls, aborted >>

\* The assertion "Attempt to resolve a resolved promise": the process dies.
RunSecondResolve(d) ==
    /\ aborted = "no"
    /\ syncQueue[d] # << >>
    /\ Head(syncQueue[d]).op = "resolve"
    /\ state[d] # "Pending"
    /\ aborted' = "doubleResolve"
    /\ UNCHANGED promiseVars

RunSyncQueue(d) == RunThen(d) \/ RunResolve(d) \/ RunSecondResolve(d)

\* A completion queue runs a block of the client: the oldest one if it is serial,
\* any of them if it is concurrent (the default).  The block reads the promise's
\* value when it runs.
RunCompletion ==
    /\ aborted = "no"
    /\ \E i \in 1..Len(completionQueue) :
          LET d == completionQueue[i][1]
              b == completionQueue[i][2]
          IN  /\ d \in Serial => \A j \in 1..(i - 1) : completionQueue[j][1] \notin Serial
              /\ completionQueue' = RemoveAt(completionQueue, i)
              /\ calls' = [calls EXCEPT ![b] = Append(@, value[d])]
    /\ UNCHANGED << syncQueue, state, value, thenBlocks, aborted >>

RunQueues == RunCompletion \/ \E d \in Deferreds : RunSyncQueue(d)

PromiseTypeOK ==
    /\ syncQueue \in [Deferreds -> Seq(ApiCall)]
    /\ state \in [Deferreds -> {"Pending", "Resolved"}]
    /\ value \in [Deferreds -> {NoValue} \cup { << v >> : v \in Values }]
    /\ thenBlocks \in [Deferreds -> Seq(Blocks)]
    /\ completionQueue \in Seq(Deferreds \X Blocks)
    /\ calls \in [Blocks -> Seq({NoValue} \cup { << v >> : v \in Values })]
==============================================================================
