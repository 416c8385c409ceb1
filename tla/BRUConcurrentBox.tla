--------------------------- MODULE BRUConcurrentBox ---------------------------
(***************************************************************************)
(* BRUConcurrentBox (src/BromiumCoreUtils/BRUConcurrentBox.m): a variable  *)
(* that is empty or full, guarded by an NSCondition, with operations that  *)
(* block until they can go on, that try, or that wait until a date.        *)
(*                                                                         *)
(* What a thread does while it holds the lock is one step.  A thread that  *)
(* waits gives the lock up and sleeps until a broadcast, its date, or a    *)
(* spurious wakeup; then it needs the lock again.                          *)
(***************************************************************************)
CONSTANTS
    Threads,
    Values,   \* the objects put into the box
    Nil       \* nil

ASSUME NilIsNoValue == Nil \notin Values

\* What a method returns tells a BOOL from an object.
ASSUME ObjectsAreNoBools == (Values \cup {Nil}) \cap BOOLEAN = {}

VARIABLES
    value,   \* the object in the box, or Nil
    call,    \* [Threads -> the call the thread makes, or NoCall]
    at,      \* [Threads -> "outside", "locking", "asleep" or "late"]
    answer   \* [Threads -> what the thread's last call returned]

boxVars == << value, call, at, answer >>

NoCall == [op |-> "none"]
Calls == [op : {"put", "tryPut", "swap", "trySwap"}, new : Values]
         \cup [op : {"take", "tryTakeUntil", "tryTake", "isEmpty"}]

\* A new box, empty (emptyBox) or not (boxWithValue:).
InitBox ==
    /\ value \in Values \cup {Nil}
    /\ call = [t \in Threads |-> NoCall]
    /\ at = [t \in Threads |-> "outside"]
    /\ answer = [t \in Threads |-> Nil]

Call(t, c) ==
    /\ at[t] = "outside"
    /\ call' = [call EXCEPT ![t] = c]
    /\ at' = [at EXCEPT ![t] = "locking"]
    /\ UNCHANGED << value, answer >>

---------------------------------------------------------------------------
(* What a method does between lock and unlock.                             *)

Return(t, result) ==
    /\ call' = [call EXCEPT ![t] = NoCall]
    /\ answer' = [answer EXCEPT ![t] = result]

\* Mutation: the method wakes one thread, where others may be the ones to go on.
ReplaceBy_Signals(t, new, result) ==
    /\ value' = new
    /\ LET sleepers == { u \in Threads : at[u] = "asleep" }
       IN  \E w \in (IF sleepers = {} THEN {t} ELSE sleepers) :
               at' = [at EXCEPT ![w] = "locking", ![t] = "outside"]
    /\ Return(t, result)

\* The method changes the value, wakes every sleeping thread and returns.
ReplaceBy(t, new, result) ==
    /\ value' = new
    /\ at' = [u \in Threads |-> IF u = t THEN "outside"
                                ELSE IF at[u] = "asleep" THEN "locking" ELSE at[u]]
    /\ Return(t, result)

\* The method returns with the box as it is.
LeaveAlone(t, result) ==
    /\ at' = [at EXCEPT ![t] = "outside"]
    /\ Return(t, result)
    /\ UNCHANGED value

\* The method gives the lock up and sleeps.
Wait(t) ==
    /\ at' = [at EXCEPT ![t] = "asleep"]
    /\ UNCHANGED << value, call, answer >>

Put(t) == IF value # Nil THEN Wait(t) ELSE ReplaceBy(t, call[t].new, Nil)

TryPut(t) == IF value # Nil THEN LeaveAlone(t, FALSE) ELSE ReplaceBy(t, call[t].new, TRUE)

\* take, and tryTakeUntil: before its date.
Take(t) == IF value = Nil THEN Wait(t) ELSE ReplaceBy(t, Nil, value)

\* Mutation: the value stays in the box.
TryTake_Peeks(t) == IF value = Nil THEN LeaveAlone(t, Nil) ELSE ReplaceBy(t, value, value)

TryTake(t) == IF value = Nil THEN LeaveAlone(t, Nil) ELSE ReplaceBy(t, Nil, value)

Swap(t) == IF value = Nil THEN Wait(t) ELSE ReplaceBy(t, call[t].new, value)

\* Mutation: a value put into an empty box is not announced.
TrySwap_NoBroadcast(t) ==
    /\ value' = call[t].new
    /\ at' = [at EXCEPT ![t] = "outside"]
    /\ Return(t, value)

TrySwap(t) == ReplaceBy(t, call[t].new, value)

IsEmpty(t) == LeaveAlone(t, value = Nil)

\* A thread gets the lock, for the first time or after it was woken.
Lock(t) ==
    /\ at[t] = "locking"
    /\ \/ call[t].op = "put" /\ Put(t)
       \/ call[t].op = "tryPut" /\ TryPut(t)
       \/ call[t].op \in {"take", "tryTakeUntil"} /\ Take(t)
       \/ call[t].op = "tryTake" /\ TryTake(t)
       \/ call[t].op = "swap" /\ Swap(t)
       \/ call[t].op = "trySwap" /\ TrySwap(t)
       \/ call[t].op = "isEmpty" /\ IsEmpty(t)

---------------------------------------------------------------------------
(* Sleeping.                                                               *)

\* A wakeup nobody asked for.
WakeUp(t) ==
    /\ at[t] = "asleep"
    /\ at' = [at EXCEPT ![t] = "locking"]
    /\ UNCHANGED << value, call, answer >>

\* The date tryTakeUntil: waits for is reached.
TimeOut(t) ==
    /\ at[t] = "asleep"
    /\ call[t].op = "tryTakeUntil"
    /\ at' = [at EXCEPT ![t] = "late"]
    /\ UNCHANGED << value, call, answer >>

\* It has the lock again and returns nil, whatever is in the box by now.
GiveUp(t) == at[t] = "late" /\ LeaveAlone(t, Nil)

Step(t) == Lock(t) \/ GiveUp(t)
==============================================================================
