------------------------- MODULE BRUConcurrentVariable -------------------------
(***************************************************************************)
(* BRUConcurrentVariable (src/BromiumCoreUtils/BRUConcurrentVariable.m): a *)
(* value that is read and changed by dispatch_sync to a serial queue, and  *)
(* threads that do so.  The block of modifyVariableWithBlock: is the       *)
(* client's and takes its time; meanwhile the queue is occupied.           *)
(*                                                                         *)
(* A value stands for where it comes from: a sequence of threads, the      *)
(* first of which wrote it while each later one modified it.               *)
(***************************************************************************)
EXTENDS Sequences, Naturals

CONSTANT Writers        \* the threads, each of which makes one call

VARIABLES
    currentValue,       \* the property, or NilValue that it never should be
    modifying,          \* the threads whose modifyBlock runs
    oldValue,           \* for these threads what the block was handed
    history,            \* the calls that have ended, in their order on the queue, with
                        \* the value they found and the one they left
    waiting,            \* the threads that have not made their call
    crashed             \* a modifyBlock returned nil

variableVars == << currentValue, modifying, oldValue, history, waiting, crashed >>

InitialValue == << >>

InitVariable ==
    /\ currentValue = InitialValue
    /\ modifying = {}
    /\ oldValue = [w \in Writers |-> InitialValue]
    /\ history = << >>
    /\ waiting = Writers
    /\ crashed = FALSE

\* A thread's turn on syncQ.
EntersQueue(w) ==
    /\ ~crashed /\ modifying = {}
    /\ w \in waiting /\ waiting' = waiting \ {w}
    /\ UNCHANGED crashed

Ends(found, left) ==
    /\ currentValue' = left
    /\ history' = Append(history, [found |-> found, left |-> left])

ReadVariable(w) ==
    /\ EntersQueue(w)
    /\ Ends(currentValue, currentValue)
    /\ UNCHANGED << modifying, oldValue >>

WriteVariable(w) ==
    /\ EntersQueue(w)
    /\ Ends(currentValue, << w >>)
    /\ UNCHANGED << modifying, oldValue >>

\* Mutation: the block is called before dispatch_sync.
ModifyBegins_OutsideQueue(w) ==
    /\ ~crashed /\ w \in waiting /\ waiting' = waiting \ {w}
    /\ modifying' = modifying \cup {w}
    /\ oldValue' = [oldValue EXCEPT ![w] = currentValue]
    /\ UNCHANGED << currentValue, history, crashed >>

ModifyBegins(w) ==
    /\ EntersQueue(w)
    /\ modifying' = modifying \cup {w}
    /\ oldValue' = [oldValue EXCEPT ![w] = currentValue]
    /\ UNCHANGED << currentValue, history >>

\* The block returns a value: one made of the old one, or for swapVariableWithValue:
\* one of the thread's own; or it returns nil, which is fatal.
ModifyEnds(w) ==
    /\ ~crashed /\ w \in modifying
    /\ modifying' = modifying \ {w}
    /\ \/ /\ \/ Ends(oldValue[w], Append(oldValue[w], w))
             \/ Ends(oldValue[w], << w >>)
          /\ UNCHANGED crashed
       \/ crashed' = TRUE /\ UNCHANGED << currentValue, history >>
    /\ UNCHANGED << oldValue, waiting >>

NextVariable ==
    \E w \in Writers :
        ReadVariable(w) \/ WriteVariable(w) \/ ModifyBegins(w) \/ ModifyEnds(w)

SpecVariable == InitVariable /\ [][NextVariable]_variableVars

---------------------------------------------------------------------------

\* Every call finds what the one before it left, and what it returns is what it
\* replaced: no value is replaced unseen between a modifyBlock's argument and its
\* result, and none is handed back twice (BRUConcurrentVariable.m:45-82).
CallsAreAtomic ==
    \A i \in DOMAIN history :
        /\ history[i].found = IF i = 1 THEN InitialValue ELSE history[i - 1].left
        /\ i = Len(history) => history[i].left = currentValue
================================================================================
