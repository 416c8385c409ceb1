--------------------------- MODULE DeferredClients ---------------------------
(***************************************************************************)
(* BRUDeferred with its clients: threads that call `then:' and `resolve:'  *)
(* at any moment, in any order.  A client may break the one rule there is  *)
(* and resolve a promise twice; the assertion then stops the process.      *)
(***************************************************************************)
EXTENDS BRUDeferred

CONSTANT MaxResolves  \* bound: how often the clients resolve one promise

ASSUME MaxResolvesAssumption == MaxResolves \in Nat

VARIABLES
    made,      \* the calls of `then:' made so far, << deferred, block >>, in order
    resolves   \* [Deferreds -> the values `resolve:' was called with, in order]

deferredVars == << promiseVars, aborted, made, resolves >>

InitDeferreds ==
    /\ InitPromises
    /\ aborted = "no"
    /\ made = << >>
    /\ resolves = [d \in Deferreds |-> << >>]

Made(b) == \E i \in 1..Len(made) : made[i][2] = b

ClientThen(d, b) ==
    /\ aborted = "no"
    /\ ~Made(b)
    /\ Then(d, b)
    /\ made' = Append(made, << d, b >>)
    /\ UNCHANGED << aborted, resolves >>

ClientResolve(d, v) ==
    /\ aborted = "no"
    /\ Len(resolves[d]) < MaxResolves
    /\ Resolve(d, v)
    /\ resolves' = [resolves EXCEPT ![d] = Append(@, v)]
    /\ UNCHANGED << aborted, made >>

Run == RunQueues /\ UNCHANGED << made, resolves >>

NextDeferreds ==
    \/ \E d \in Deferreds, b \in Blocks : ClientThen(d, b)
    \/ \E d \in Deferreds, v \in Values : ClientResolve(d, v)
    \/ Run

\* Libdispatch runs what was dispatched: every serial syncQueue and the
\* completion queue make progress.  Nobody has to call the API.
DeferredFairness ==
    /\ \A d \in Deferreds :
           WF_deferredVars(RunSyncQueue(d) /\ UNCHANGED << made, resolves >>)
    /\ WF_deferredVars(RunCompletion /\ UNCHANGED << made, resolves >>)

SpecDeferreds == InitDeferreds /\ [][NextDeferreds]_deferredVars /\ DeferredFairness

---------------------------------------------------------------------------

\* The first value a promise was asked to take is the one that counts: every
\* block is called at most once, and with the value of the first `resolve:' of
\* its promise, whatever the clients and the queues raced (BRUDeferred.m:89-148).
CalledOnceWithFirstValue ==
    \A i \in 1..Len(made) :
        LET d == made[i][1]
            b == made[i][2]
        IN  calls[b] # << >> =>
                /\ resolves[d] # << >>
                /\ calls[b] = << << Head(resolves[d]) >> >>

\* With a serial completion queue the blocks of a promise are called in the
\* order of their `then:' calls, those made before `resolve:' and those made
\* after it alike (BRUDeferred.m:116, 132-140).
CalledInOrder ==
    \A i, j \in 1..Len(made) :
        /\ i < j
        /\ made[i][1] = made[j][1] /\ made[i][1] \in Serial
        /\ calls[made[j][2]] # << >>
        => calls[made[i][2]] # << >>

---------------------------------------------------------------------------

P == INSTANCE BRUPromise WITH
        registered <- [b \in Blocks |->
                          { d \in Deferreds : Contains(made, << d, b >>) }],
        outcome <- value,
        received <- calls,
        crashed <- (aborted # "no")

\* The queues of BRUDeferred implement the abstract promise: settled by the
\* block of `resolve:', delivered by the completion queue.
ImplementsPromise == P!Spec
==============================================================================
