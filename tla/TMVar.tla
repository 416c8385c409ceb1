--------------------------------- MODULE TMVar ---------------------------------
(***************************************************************************)
(* What BRUConcurrentBox.h promises: the transactional variable of Haskell *)
(* it is modelled after.  A call takes effect in one step, when it can; no *)
(* locks, no sleeping, no wakeups.  A call that can take effect and stays  *)
(* able to takes effect; a wait until a date ends.                         *)
(***************************************************************************)
CONSTANTS Threads, Values, Nil

VARIABLES
    box,      \* the value, or Nil
    doing,    \* [Threads -> the call in progress, or NoCall]
    results   \* [Threads -> what the thread's last call returned]

vars == << box, doing, results >>

NoCall == [op |-> "none"]
Calls == [op : {"put", "tryPut", "swap", "trySwap"}, new : Values]
         \cup [op : {"take", "tryTakeUntil", "tryTake", "isEmpty"}]

Init ==
    /\ box \in Values \cup {Nil}
    /\ doing = [t \in Threads |-> NoCall]
    /\ results = [t \in Threads |-> Nil]

Begin(t) ==
    /\ doing[t] = NoCall
    /\ \E c \in Calls : doing' = [doing EXCEPT ![t] = c]
    /\ UNCHANGED << box, results >>

Full == box # Nil

\* Some operations need the box empty or full, ...
CanAct(c) ==
    /\ c # NoCall
    /\ c.op = "put" => ~Full
    /\ c.op \in {"take", "tryTakeUntil", "swap"} => Full

\* ... leave this in it and return that.
NewBox(c) ==
    IF c.op \in {"put", "swap", "trySwap"} \/ (c.op = "tryPut" /\ ~Full) THEN c.new
    ELSE IF c.op \in {"take", "tryTakeUntil", "tryTake"} THEN Nil
    ELSE box

Result(c) ==
    IF c.op = "put" THEN Nil
    ELSE IF c.op \in {"tryPut", "isEmpty"} THEN ~Full
    ELSE box

End(t, new, result) ==
    /\ box' = new
    /\ doing' = [doing EXCEPT ![t] = NoCall]
    /\ results' = [results EXCEPT ![t] = result]

Act(t) == CanAct(doing[t]) /\ End(t, NewBox(doing[t]), Result(doing[t]))

\* The date was reached: nothing is taken.
Expire(t) == doing[t].op = "tryTakeUntil" /\ End(t, box, Nil)

Next == \E t \in Threads : Begin(t) \/ Act(t) \/ Expire(t)

Fairness == \A t \in Threads : WF_vars(Act(t)) /\ WF_vars(Act(t) \/ Expire(t))

\* What may happen at all.
Safety == Init /\ [][Next]_vars

Spec == Safety /\ Fairness
==============================================================================
