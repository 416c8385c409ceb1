------------------------------- MODULE BoxClients -------------------------------
(***************************************************************************)
(* BRUConcurrentBox with threads that call its methods in any order.       *)
(***************************************************************************)
EXTENDS BRUConcurrentBox, Naturals

CONSTANT MaxCalls  \* bound: the calls a thread makes

VARIABLES
    made,      \* [Threads -> the number of calls made]
    entered,   \* [Values -> how often the value was put into the box]
    handedOut  \* [Values -> how often a method returned the value]

vars == << boxVars, made, entered, handedOut >>

Init ==
    /\ InitBox
    /\ made = [t \in Threads |-> 0]
    /\ entered = [v \in Values |-> IF v = value THEN 1 ELSE 0]
    /\ handedOut = [v \in Values |-> 0]

ClientCalls(t) ==
    /\ made[t] < MaxCalls
    /\ made' = [made EXCEPT ![t] = @ + 1]
    /\ \E c \in Calls : Call(t, c)
    /\ UNCHANGED << entered, handedOut >>

Puts(c) == c.op \in {"put", "swap", "trySwap", "tryPut"}

\* The history follows what the call said and what the method answered.
ClientStep(t) ==
    /\ Step(t)
    /\ IF call'[t] = NoCall
       THEN /\ entered' = [v \in Values |->
                  IF Puts(call[t]) /\ answer'[t] # FALSE /\ call[t].new = v
                  THEN entered[v] + 1 ELSE entered[v]]
            /\ handedOut' = [v \in Values |->
                  IF answer'[t] = v THEN handedOut[v] + 1 ELSE handedOut[v]]
       ELSE UNCHANGED << entered, handedOut >>
    /\ UNCHANGED made

ClientSleeps(t) == (WakeUp(t) \/ TimeOut(t)) /\ UNCHANGED << made, entered, handedOut >>

Next == \E t \in Threads : ClientCalls(t) \/ ClientStep(t) \/ ClientSleeps(t)

\* A thread that wants the lock gets it some time, and dates are reached: strong
\* fairness, since after its date a thread that wakes up does not sleep again.
Fairness ==
    \A t \in Threads :
        /\ WF_vars(ClientStep(t))
        /\ SF_vars(TimeOut(t) /\ UNCHANGED << made, entered, handedOut >>)

Spec == Init /\ [][Next]_vars /\ Fairness

---------------------------------------------------------------------------

\* No wakeup is lost: a thread sleeps only while what it waits for is not there,
\* so that never a thread that could put sleeps beside one that could take
\* (BRUConcurrentBox.m:55-60, 99-108, 145-151).
NobodySleepsWhoCouldGoOn ==
    \A t \in Threads : at[t] = "asleep" =>
        IF call[t].op = "put" THEN value # Nil
        ELSE call[t].op \in {"take", "tryTakeUntil", "swap"} /\ value = Nil

\* A value that was put into the box is in it or was handed to exactly one
\* caller: none is lost to a timeout, overwritten or handed out twice
\* (BRUConcurrentBox.m:50-177).
EachValueOnce ==
    \A v \in Values : entered[v] = handedOut[v] + (IF value = v THEN 1 ELSE 0)

T == INSTANCE TMVar WITH box <- value, doing <- call, results <- answer

\* Lock, condition and timeouts together behave like the TMVar
\* (BRUConcurrentBox.h:17-103): each call takes effect at once, when it can.
ImplementsTMVar == T!Spec
==============================================================================
