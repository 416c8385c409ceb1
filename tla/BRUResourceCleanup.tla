-------------------------- MODULE BRUResourceCleanup --------------------------
(***************************************************************************)
(* BRUResourceCleanup (src/BromiumCoreUtils/BRUResourceCleanup.m): a stack *)
(* of blocks that undo what was acquired so far.  Threads add a block for  *)
(* each resource they acquire; whoever fails runs all blocks, whoever      *)
(* finishes discards them.  Every method is a dispatch_sync to a serial    *)
(* queue, so they exclude each other; the blocks run on that queue.        *)
(*                                                                         *)
(* Names: a resource stands for its cleanup block, of whichever kind.      *)
(***************************************************************************)
EXTENDS SequencesExt

CONSTANT Resources      \* the resources acquired, each once

NoCleanup == "noCleanup"

\* No block stands for the absence of one.
ASSUME CleanupAssumption == NoCleanup \notin Resources

VARIABLES
    active,         \* the property: add and run are still allowed
    cleanupBlocks,  \* the blocks added and neither run nor discarded
    toRun,          \* the blocks runAllCleanupsWithError: has still to run
    runner,         \* that method: "none", "running" or "returned"
    success,        \* its result
    cleanupError,   \* behind the error pointer it hands to the blocks, or NoCleanup
    deallocated,
    added,          \* history: the blocks that were accepted
    cleaned,        \* history: the blocks that ran and whether they succeeded
    discarded,      \* history: the blocks discardAllCleanups dropped
    stopped         \* "no", or the assertion that stopped the process

cleanupVars == << active, cleanupBlocks, toRun, runner, success, cleanupError,
                  deallocated, added, cleaned, discarded, stopped >>

InitCleanup ==
    /\ active = TRUE
    /\ cleanupBlocks = << >>
    /\ toRun = << >>
    /\ runner = "none"
    /\ success = TRUE
    /\ cleanupError = NoCleanup
    /\ deallocated = FALSE
    /\ added = {}
    /\ cleaned = << >>
    /\ discarded = {}
    /\ stopped = "no"

\* A thread's turn on the serial queue: no block of another call runs on it.
Turn == stopped = "no" /\ ~deallocated /\ runner # "running"

Stop(assertion) ==
    /\ stopped' = assertion
    /\ UNCHANGED << active, cleanupBlocks, toRun, runner, success, cleanupError,
                    deallocated, added, cleaned, discarded >>

\* Mutation: the block is added whether or not anybody will run it.
Add_Inactive(r) ==
    /\ Turn
    /\ r \notin added
    /\ cleanupBlocks' = Append(cleanupBlocks, r)
    /\ added' = added \cup {r}
    /\ UNCHANGED << active, toRun, runner, success, cleanupError, deallocated, cleaned,
                    discarded, stopped >>

\* addResourceCleanupBlock: and the three methods that wrap it.
Add(r) ==
    /\ Turn
    /\ r \notin added
    /\ IF ~active
       THEN Stop("notActive")
       ELSE /\ cleanupBlocks' = Append(cleanupBlocks, r)
            /\ added' = added \cup {r}
            /\ UNCHANGED << active, toRun, runner, success, cleanupError, deallocated,
                            cleaned, discarded, stopped >>

\* runAllCleanupsWithError: begins.
RunAll ==
    /\ Turn
    /\ IF ~active
       THEN Stop("notActive")
       ELSE /\ runner' = "running"
            /\ toRun' = Reverse(cleanupBlocks)
            /\ UNCHANGED << active, cleanupBlocks, success, cleanupError, deallocated, added,
                            cleaned, discarded, stopped >>

\* Mutation: `success && cleanup(&error)' runs no block after one that failed.
RunOne_ShortCircuit(succeeds) ==
    /\ stopped = "no" /\ runner = "running" /\ toRun # << >>
    /\ toRun' = Tail(toRun)
    /\ success' = (success /\ succeeds)
    /\ cleanupError' = IF success /\ ~succeeds THEN Head(toRun) ELSE cleanupError
    /\ cleaned' = IF success
                  THEN Append(cleaned, [block |-> Head(toRun), succeeded |-> succeeds])
                  ELSE cleaned
    /\ UNCHANGED << active, cleanupBlocks, runner, deallocated, added, discarded, stopped >>

\* One block of the loop; a block that fails stores its error.
RunOne(succeeds) ==
    /\ stopped = "no" /\ runner = "running" /\ toRun # << >>
    /\ toRun' = Tail(toRun)
    /\ success' = (succeeds /\ success)
    /\ cleanupError' = IF succeeds THEN cleanupError ELSE Head(toRun)
    /\ cleaned' = Append(cleaned, [block |-> Head(toRun), succeeded |-> succeeds])
    /\ UNCHANGED << active, cleanupBlocks, runner, deallocated, added, discarded, stopped >>

\* After the loop the object is spent.
RunEnds ==
    /\ stopped = "no" /\ runner = "running" /\ toRun = << >>
    /\ runner' = "returned"
    /\ active' = FALSE
    /\ cleanupBlocks' = << >>
    /\ UNCHANGED << toRun, success, cleanupError, deallocated, added, cleaned, discarded,
                    stopped >>

DiscardAll ==
    /\ Turn
    /\ active' = FALSE
    /\ cleanupBlocks' = << >>
    /\ discarded' = discarded \cup ToSet(cleanupBlocks)
    /\ UNCHANGED << toRun, runner, success, cleanupError, deallocated, added, cleaned,
                    stopped >>

\* The last reference goes; nobody is in a call then.
Dealloc ==
    /\ Turn
    /\ IF active
       THEN Stop("stillActive")
       ELSE /\ deallocated' = TRUE
            /\ UNCHANGED << active, cleanupBlocks, toRun, runner, success, cleanupError,
                            added, cleaned, discarded, stopped >>

NextCleanup ==
    \/ \E r \in Resources : Add(r)
    \/ RunAll
    \/ \E succeeds \in BOOLEAN : RunOne(succeeds)
    \/ RunEnds \/ DiscardAll \/ Dealloc

SpecCleanup == InitCleanup /\ [][NextCleanup]_cleanupVars

---------------------------------------------------------------------------

\* When runAllCleanupsWithError: returns every block ran, those that failed
\* included, the newest first; it answers NO with the error of a block that
\* failed if one did, and YES without an error otherwise
\* (BRUResourceCleanup.m:85-99, BRUResourceCleanup.h:65-66).
RunTellsAll ==
    [][runner = "running" /\ runner' = "returned" =>
           /\ [i \in DOMAIN cleaned |-> cleaned[i].block] = Reverse(cleanupBlocks)
           /\ success <=> \A i \in DOMAIN cleaned : cleaned[i].succeeded
           /\ success <=> cleanupError = NoCleanup
           /\ ~success => [block |-> cleanupError, succeeded |-> FALSE] \in ToSet(cleaned)]_cleanupVars

\* No block that was accepted is forgotten or runs twice, whatever calls of other
\* threads come before, between and after it: it waits, was run or was discarded, and
\* none still waits when nobody can run it any more (BRUResourceCleanup.m:68-113).
NoBlockForgotten ==
    LET ran == [i \in DOMAIN cleaned |-> cleaned[i].block]
        waiting == ToSet(IF runner = "running" THEN toRun ELSE cleanupBlocks)
    IN /\ added = waiting \cup ToSet(ran) \cup discarded
       /\ waiting \cap (ToSet(ran) \cup discarded) = {} /\ ToSet(ran) \cap discarded = {}
       /\ IsInjective(ran)
       /\ ~active => waiting = {}
==============================================================================
