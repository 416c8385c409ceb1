---------------------------- MODULE BRUDispatchUtils ----------------------------
(***************************************************************************)
(* BRUDispatchUtils (src/BromiumCoreUtils/BRUDispatchUtils.h): how a block *)
(* finds out whether it runs on a queue, what the queue assertions of the  *)
(* library rest on.  A queue made here carries a marker under a key of its *)
(* own; one made elsewhere is marked by the first thread that asks.        *)
(* libdispatch gives the marker of a queue, or the one that the block that *)
(* runs finds on its queue, on that queue's target, and so on.             *)
(*                                                                         *)
(* A queue stands for its pointer, its key and the marker made for it.     *)
(***************************************************************************)
EXTENDS SequencesExt, Naturals

CONSTANTS
    Queues,     \* serial queues
    Chain,      \* [Queues -> the queue, its target queue, that one's target, ...]
    Callers,    \* threads
    Null,       \* no marker
    MaxDepth    \* bound on the blocks a thread is in, one within the other

ASSUME Chains ==
    /\ Chain \in [Queues -> Seq(Queues)]
    /\ \A q \in Queues : Chain[q] # << >> /\ Head(Chain[q]) = q

ASSUME NullMarksNothing == Null \notin Queues \cup {"0x1"}

VARIABLES
    created,    \* the queues that exist
    specific,   \* [Queues -> [Queues -> the marker on the queue under that one's key]]
    blocks,     \* [Callers -> the queues of the blocks the thread is in]
    asks,       \* [Callers -> its call of _bru_is_on_queue and what that is for]
    wrongQueue  \* the assertion that failed, or "no"

queueVars == << created, specific, blocks, asks, wrongQueue >>

NoQuestion == [at |-> "none"]

\* Queues that the client made without bru_dispatch_queue_create are there.
InitQueues ==
    /\ created \in SUBSET Queues
    /\ specific = [q \in Queues |-> [key \in Queues |-> Null]]
    /\ blocks = [t \in Callers |-> << >>]
    /\ asks = [t \in Callers |-> NoQuestion]
    /\ wrongQueue = "no"

\* The queue of the block that a thread runs, and those that one targets.
CurrentChain(t) == IF blocks[t] = << >> THEN << >> ELSE Chain[Last(blocks[t])]

\* dispatch_queue_get_specific and dispatch_get_specific.
QueueGetSpecific(q, key) == specific[q][key]

GetSpecific(t, key) ==
    LET chain == CurrentChain(t)
        marked == { i \in DOMAIN chain : specific[chain[i]][key] # Null }
    IN IF marked = {} THEN Null ELSE specific[chain[Min(marked)]][key]

---------------------------------------------------------------------------
(* libdispatch: one block at a time on a queue and on the queues it        *)
(* targets.                                                                *)

Free(q) ==
    \A t \in Callers : \A i \in DOMAIN blocks[t] :
        ToSet(Chain[blocks[t][i]]) \cap ToSet(Chain[q]) = {}

BlockBegins(t, q) ==
    /\ wrongQueue = "no" /\ asks[t] = NoQuestion /\ blocks[t] = << >>
    /\ q \in created /\ Free(q)
    /\ blocks' = [blocks EXCEPT ![t] = << q >>]
    /\ UNCHANGED << created, specific, asks, wrongQueue >>

BlockReturns(t) ==
    /\ wrongQueue = "no" /\ asks[t] = NoQuestion /\ blocks[t] # << >>
    /\ blocks' = [blocks EXCEPT ![t] = Front(@)]
    /\ UNCHANGED << created, specific, asks, wrongQueue >>

\* dispatch_sync lets the block in.
SyncEnters(t) ==
    /\ wrongQueue = "no" /\ asks[t].at = "waits" /\ Free(asks[t].queue)
    /\ blocks' = [blocks EXCEPT ![t] = Append(@, asks[t].queue)]
    /\ asks' = [asks EXCEPT ![t] = NoQuestion]
    /\ UNCHANGED << created, specific, wrongQueue >>

---------------------------------------------------------------------------
(* The functions of the header.                                            *)

\* Nobody else has the queue before bru_dispatch_queue_create returns.
QueueCreate(q) ==
    /\ wrongQueue = "no" /\ q \notin created
    /\ ToSet(Tail(Chain[q])) \subseteq created
    /\ created' = created \cup {q}
    /\ specific' = [specific EXCEPT ![q][q] = q]
    /\ UNCHANGED << blocks, asks, wrongQueue >>

\* _bru_is_on_queue reads the queue's marker.
ReadsMarker(t, q) ==
    /\ wrongQueue = "no" /\ asks[t] = NoQuestion /\ q \in created
    /\ LET marker == QueueGetSpecific(q, q)
       IN asks' = [asks EXCEPT ![t] = [at |-> IF marker = Null THEN "marks" ELSE "compares",
                                       queue |-> q, marker |-> marker]]
    /\ UNCHANGED << created, specific, blocks, wrongQueue >>

MarksWith(t, marker) ==
    /\ wrongQueue = "no" /\ asks[t].at = "marks"
    /\ specific' = [specific EXCEPT ![asks[t].queue][asks[t].queue] = marker]
    /\ asks' = [asks EXCEPT ![t].at = "compares", ![t].marker = marker]
    /\ UNCHANGED << created, blocks, wrongQueue >>

\* Mutation: every call makes a marker of its own.
Marks_OwnMarker(t) == MarksWith(t, t)

\* A queue without a marker gets the one all such queues get.
Marks(t) == MarksWith(t, "0x1")

Compares(t) ==
    /\ wrongQueue = "no" /\ asks[t].at = "compares"
    /\ asks' = [asks EXCEPT
                   ![t].at = IF asks[t].marker = GetSpecific(t, asks[t].queue)
                             THEN "on" ELSE "off"]
    /\ UNCHANGED << created, specific, blocks, wrongQueue >>

\* BRU_ASSERT_ON_QUEUE and BRU_ASSERT_OFF_QUEUE.  Which of the macros it was called
\* from makes no difference to _bru_is_on_queue before it has its answer.
Asserts(t, expected) ==
    /\ wrongQueue = "no" /\ asks[t].at \in {"on", "off"}
    /\ IF asks[t].at = expected
       THEN asks' = [asks EXCEPT ![t] = NoQuestion] /\ UNCHANGED wrongQueue
       ELSE wrongQueue' = expected /\ UNCHANGED asks
    /\ UNCHANGED << created, specific, blocks >>

\* BRU_DISPATCH_SYNC_ASSERT_OFF_QUEUE: asserts and goes on to dispatch_sync.
SyncAssertOff(t) ==
    /\ wrongQueue = "no" /\ asks[t].at \in {"on", "off"} /\ Len(blocks[t]) < MaxDepth
    /\ IF asks[t].at = "off"
       THEN asks' = [asks EXCEPT ![t].at = "waits"] /\ UNCHANGED wrongQueue
       ELSE wrongQueue' = "off" /\ UNCHANGED asks
    /\ UNCHANGED << created, specific, blocks >>

NextQueues ==
    \/ \E q \in Queues : QueueCreate(q)
    \/ \E t \in Callers :
           \/ BlockReturns(t) \/ SyncEnters(t) \/ Marks(t) \/ Compares(t)
           \/ Asserts(t, "on") \/ Asserts(t, "off") \/ SyncAssertOff(t)
           \/ \E q \in Queues : BlockBegins(t, q) \/ ReadsMarker(t, q)

SpecQueues == InitQueues /\ [][NextQueues]_queueVars

---------------------------------------------------------------------------

\* A thread that asks whether it runs on a queue is told the truth, by whomever and
\* whenever the queue was made or marked, other threads marking it meanwhile included;
\* so nobody who asks first waits in dispatch_sync for the queue of the very block it is
\* in or for one that queue targets (BRUDispatchUtils.h:43-60, 87-108).
AnswersAboutQueuesAreTrue ==
    \A t \in Callers :
        LET isOn == asks[t].queue \in ToSet(CurrentChain(t))
        IN /\ asks[t].at \in {"on", "off"} => (asks[t].at = "on" <=> isOn)
           /\ asks[t].at = "waits" => ~isOn
===============================================================================
