------------------------------- MODULE BoxProofs -------------------------------
(***************************************************************************)
(* Proofs about BRUConcurrentBox, for any number of threads, values and    *)
(* calls: nobody sleeps who could go on, no value is lost or handed out    *)
(* twice, and whatever the threads do is what the module TMVar allows.     *)
(***************************************************************************)
EXTENDS BoxClients, TLAPS

---------------------------------------------------------------------------
(* NobodySleepsWhoCouldGoOn is inductive once the types of what the        *)
(* threads do are known: whoever changes the value wakes everybody, and a  *)
(* thread goes to sleep in the step that looked at the value.              *)

\* The part of the type invariant the threads' steps depend on.
BoxTypes ==
    /\ value \in Values \cup {Nil}
    /\ call \in [Threads -> Calls \cup {NoCall}]
    /\ at \in [Threads -> {"outside", "locking", "asleep", "late"}]

BoxInv == BoxTypes /\ NobodySleepsWhoCouldGoOn

\* The value a call puts or swaps in is a value of the box.
LEMMA CallParts ==
    ASSUME NEW c \in Calls \cup {NoCall}
    PROVE  c.op \in {"put", "tryPut", "swap", "trySwap"} => c.new \in Values
  BY DEF Calls, NoCall

\* A method that changes the value and wakes everybody.
LEMMA ReplaceByInv ==
    ASSUME NEW t \in Threads, NEW new \in Values \cup {Nil}, NEW result,
           BoxInv, ReplaceBy(t, new, result)
    PROVE  BoxInv'
  <1>1. BoxTypes'
    BY DEF BoxInv, BoxTypes, ReplaceBy, Return
  <1>2. \A u \in Threads : at'[u] # "asleep"
    BY DEF ReplaceBy, BoxInv, BoxTypes
  <1>3. QED
    BY <1>1, <1>2 DEF BoxInv, NobodySleepsWhoCouldGoOn

\* A method that leaves the value alone and returns.
LEMMA LeaveAloneInv ==
    ASSUME NEW t \in Threads, NEW result, BoxInv, LeaveAlone(t, result)
    PROVE  BoxInv'
  <1>1. BoxTypes'
    BY DEF BoxInv, BoxTypes, LeaveAlone, Return
  <1>2. \A u \in Threads : at'[u] = "asleep" =>
            at[u] = "asleep" /\ call'[u] = call[u] /\ value' = value
    BY DEF LeaveAlone, Return, BoxInv, BoxTypes
  <1>3. QED
    BY <1>1, <1>2 DEF BoxInv, NobodySleepsWhoCouldGoOn

\* A method that found it cannot go on and sleeps.
LEMMA WaitInv ==
    ASSUME NEW t \in Threads, BoxInv, Wait(t),
           \/ call[t].op = "put" /\ value # Nil
           \/ call[t].op \in {"take", "tryTakeUntil", "swap"} /\ value = Nil
    PROVE  BoxInv'
  <1>1. BoxTypes'
    BY DEF BoxInv, BoxTypes, Wait
  <1>2. \A u \in Threads : at'[u] = "asleep" => at[u] = "asleep" \/ u = t
    BY DEF Wait, BoxInv, BoxTypes
  <1>3. QED
    BY <1>1, <1>2 DEF BoxInv, NobodySleepsWhoCouldGoOn, Wait

\* A call that takes the lock keeps the invariant.
LEMMA LockInv == ASSUME NEW t \in Threads, BoxInv, Lock(t) PROVE BoxInv'
  <1> DEFINE c == call[t]
  <1>1. value \in Values \cup {Nil} /\ c \in Calls \cup {NoCall}
    BY DEF BoxInv, BoxTypes
  <1>2. c.op \in {"put", "tryPut", "swap", "trySwap"} => c.new \in Values
    BY <1>1, CallParts
  <1>3. CASE c.op = "put" /\ Put(t)
    BY <1>2, <1>3, ReplaceByInv, WaitInv DEF Put
  <1>4. CASE c.op = "tryPut" /\ TryPut(t)
    BY <1>2, <1>4, ReplaceByInv, LeaveAloneInv DEF TryPut
  <1>5. CASE c.op \in {"take", "tryTakeUntil"} /\ Take(t)
    BY <1>5, ReplaceByInv, WaitInv DEF Take
  <1>6. CASE c.op = "tryTake" /\ TryTake(t)
    BY <1>6, ReplaceByInv, LeaveAloneInv DEF TryTake
  <1>7. CASE c.op = "swap" /\ Swap(t)
    BY <1>2, <1>7, ReplaceByInv, WaitInv DEF Swap
  <1>8. CASE c.op = "trySwap" /\ TrySwap(t)
    BY <1>2, <1>8, ReplaceByInv DEF TrySwap
  <1>9. CASE c.op = "isEmpty" /\ IsEmpty(t)
    BY <1>9, LeaveAloneInv DEF IsEmpty
  <1>10. QED
    BY <1>3, <1>4, <1>5, <1>6, <1>7, <1>8, <1>9 DEF Lock

\* A sleeping thread wakes up, because it is late or for no reason.
LEMMA SleepInv ==
    ASSUME NEW t \in Threads, BoxInv, WakeUp(t) \/ TimeOut(t) PROVE BoxInv'
  <1>1. BoxTypes'
    BY DEF BoxInv, BoxTypes, WakeUp, TimeOut
  <1>2. UNCHANGED << value, call >>
        /\ \A u \in Threads : at'[u] = "asleep" => at[u] = "asleep"
    BY DEF WakeUp, TimeOut, BoxInv, BoxTypes
  <1>3. QED
    BY <1>1, <1>2 DEF BoxInv, NobodySleepsWhoCouldGoOn

\* A new call keeps the invariant.
LEMMA CallInv ==
    ASSUME NEW t \in Threads, NEW c \in Calls, BoxInv, Call(t, c) PROVE BoxInv'
  <1>1. BoxTypes'
    BY DEF BoxInv, BoxTypes, Call
  <1>2. \A u \in Threads : at'[u] = "asleep" => at[u] = "asleep" /\ call'[u] = call[u]
    BY DEF Call, BoxInv, BoxTypes
  <1>3. QED
    BY <1>1, <1>2 DEF BoxInv, NobodySleepsWhoCouldGoOn, Call

\* Every step of the box and its clients keeps the invariant.
LEMMA BoxNextInv == BoxInv /\ [Next]_vars => BoxInv'
  <1> SUFFICES ASSUME BoxInv, [Next]_vars PROVE BoxInv'
    OBVIOUS
  <1>1. ASSUME NEW t \in Threads, ClientCalls(t) PROVE BoxInv'
    BY <1>1, CallInv DEF ClientCalls
  <1>2. ASSUME NEW t \in Threads, ClientStep(t) PROVE BoxInv'
    <2>1. CASE Lock(t)
      BY <2>1, LockInv
    <2>2. CASE GiveUp(t)
      BY <2>2, LeaveAloneInv DEF GiveUp
    <2>3. QED
      BY <1>2, <2>1, <2>2 DEF ClientStep, Step
  <1>3. ASSUME NEW t \in Threads, ClientSleeps(t) PROVE BoxInv'
    BY <1>3, SleepInv DEF ClientSleeps
  <1>4. CASE UNCHANGED vars
    BY <1>4 DEF vars, boxVars, BoxInv, BoxTypes, NobodySleepsWhoCouldGoOn
  <1>5. QED
    BY <1>1, <1>2, <1>3, <1>4 DEF Next

\* No wakeup is ever lost: whoever sleeps in a method of the box waits for
\* something that is not there (BRUConcurrentBox.m:50-159).
THEOREM NoLostWakeup == Spec => []NobodySleepsWhoCouldGoOn
  <1>1. Init => BoxInv
    BY DEF Init, InitBox, BoxInv, BoxTypes, NobodySleepsWhoCouldGoOn, NoCall
  <1>2. BoxInv => NobodySleepsWhoCouldGoOn
    BY DEF BoxInv
  <1>3. QED
    BY <1>1, <1>2, BoxNextInv, PTL DEF Spec

---------------------------------------------------------------------------
(* Each value once.                                                        *)

\* What a thread is doing tells where it is; the histories count.
CallsInProgress ==
    /\ \A t \in Threads : at[t] = "outside" <=> call[t] = NoCall
    /\ \A t \in Threads : at[t] = "late" => call[t].op = "tryTakeUntil"
    /\ DOMAIN answer = Threads
    /\ entered \in [Values -> Nat] /\ handedOut \in [Values -> Nat]

ValueInv == BoxTypes /\ CallsInProgress /\ EachValueOnce

\* A method is done: the box is as it left it, its thread has the answer, and of the
\* other threads some may have been woken.
TakesEffect(t, new, result) ==
    /\ value' = new
    /\ call' = [call EXCEPT ![t] = NoCall]
    /\ answer' = [answer EXCEPT ![t] = result]
    /\ at'[t] = "outside"
    /\ \A u \in Threads \ {t} :
           at'[u] = at[u] \/ (at[u] = "asleep" /\ at'[u] = "locking")

LEMMA ReplaceByTakesEffect ==
    ASSUME NEW t \in Threads, NEW new, NEW result, BoxTypes, ReplaceBy(t, new, result)
    PROVE  TakesEffect(t, new, result)
  BY DEF ReplaceBy, Return, TakesEffect, BoxTypes

LEMMA LeaveAloneTakesEffect ==
    ASSUME NEW t \in Threads, NEW result, BoxTypes, LeaveAlone(t, result)
    PROVE  TakesEffect(t, value, result)
  BY DEF LeaveAlone, Return, TakesEffect, BoxTypes

\* The answers of tryPut and isEmpty.
LEMMA AnswerIsBool ==
    ASSUME NEW t \in Threads, call[t].op \in {"tryPut", "isEmpty"}
    PROVE  /\ value = Nil => T!Result(call[t]) = TRUE
           /\ value # Nil => T!Result(call[t]) = FALSE
  BY Zenon DEF T!Result, T!Full

\* A call that takes the lock sleeps, or it does what the abstract call does.
LEMMA LockEffect ==
    ASSUME NEW t \in Threads, BoxTypes, Lock(t)
    PROVE  \/ Wait(t) /\ call[t] # NoCall
           \/ /\ T!CanAct(call[t])
              /\ TakesEffect(t, T!NewBox(call[t]), T!Result(call[t]))
  <1> DEFINE c == call[t]
  <1> USE DEF T!CanAct, T!NewBox, T!Full, T!NoCall, NoCall
  <1>1. CASE c.op = "put" /\ Put(t)
    BY <1>1, ReplaceByTakesEffect DEF Put, T!Result
  <1>2. CASE c.op = "tryPut" /\ TryPut(t)
    <2>1. CASE value # Nil
      <3>1. T!Result(c) = FALSE
        BY <1>2, <2>1, AnswerIsBool
      <3>2. TakesEffect(t, value, FALSE)
        BY <1>2, <2>1, LeaveAloneTakesEffect DEF TryPut
      <3>3. T!NewBox(c) = value /\ T!CanAct(c)
        BY <1>2, <2>1
      <3>4. QED
        BY <3>1, <3>2, <3>3 DEF TakesEffect
    <2>2. CASE value = Nil
      <3>1. T!Result(c) = TRUE
        BY <1>2, <2>2, AnswerIsBool
      <3>2. TakesEffect(t, c.new, TRUE)
        BY <1>2, <2>2, ReplaceByTakesEffect DEF TryPut
      <3>3. T!NewBox(c) = c.new /\ T!CanAct(c)
        BY <1>2, <2>2
      <3>4. QED
        BY <3>1, <3>2, <3>3 DEF TakesEffect
    <2>3. QED
      BY <2>1, <2>2
  <1>3. CASE c.op \in {"take", "tryTakeUntil"} /\ Take(t)
    BY <1>3, ReplaceByTakesEffect DEF Take, T!Result
  <1>4. CASE c.op = "tryTake" /\ TryTake(t)
    BY <1>4, ReplaceByTakesEffect, LeaveAloneTakesEffect DEF TryTake, T!Result
  <1>5. CASE c.op = "swap" /\ Swap(t)
    BY <1>5, ReplaceByTakesEffect DEF Swap, T!Result
  <1>6. CASE c.op = "trySwap" /\ TrySwap(t)
    BY <1>6, ReplaceByTakesEffect DEF TrySwap, T!Result
  <1>7. CASE c.op = "isEmpty" /\ IsEmpty(t)
    <2>1. T!Result(c) = (value = Nil)
      BY <1>7, AnswerIsBool, Zenon
    <2>2. QED
      BY <1>7, <2>1, LeaveAloneTakesEffect DEF IsEmpty
  <1>8. QED
    BY <1>1, <1>2, <1>3, <1>4, <1>5, <1>6, <1>7 DEF Lock

\* The threads' whereabouts after a method took effect.
LEMMA EffectKeepsCalls ==
    ASSUME NEW t \in Threads, NEW new \in Values \cup {Nil}, NEW result,
           BoxTypes, CallsInProgress, TakesEffect(t, new, result)
    PROVE  /\ \A u \in Threads : at'[u] = "outside" <=> call'[u] = NoCall
           /\ \A u \in Threads : at'[u] = "late" => call'[u].op = "tryTakeUntil"
           /\ DOMAIN answer' = Threads
  <1>1. call'[t] = NoCall /\ at'[t] = "outside"
    BY DEF TakesEffect, BoxTypes
  <1>2. \A u \in Threads \ {t} : call'[u] = call[u]
    BY DEF TakesEffect, BoxTypes
  <1>3. QED
    BY <1>1, <1>2 DEF TakesEffect, CallsInProgress

\* A call that takes effect moves at most the one value it puts in, and the one it
\* hands out.
LEMMA EffectCounts ==
    ASSUME NEW t \in Threads, BoxTypes, CallsInProgress, EachValueOnce,
           T!CanAct(call[t]), ClientStep(t),
           TakesEffect(t, T!NewBox(call[t]), T!Result(call[t]))
    PROVE  /\ entered' \in [Values -> Nat] /\ handedOut' \in [Values -> Nat]
           /\ EachValueOnce'
  <1> DEFINE c == call[t]
  <1>1. c \in Calls /\ call'[t] = NoCall /\ answer'[t] = T!Result(c)
    <2>1. c # NoCall /\ c \in Calls \cup {NoCall}
      BY DEF BoxTypes, T!CanAct, T!NoCall, NoCall
    <2>2. call'[t] = NoCall /\ answer'[t] = T!Result(c)
      BY DEF BoxTypes, TakesEffect, CallsInProgress
    <2>3. QED
      BY <2>1, <2>2
  <1>2. value \in Values \cup {Nil} /\ value' = T!NewBox(c)
    BY DEF BoxTypes, TakesEffect
  <1>3. /\ entered' = [v \in Values |-> IF Puts(c) /\ T!Result(c) # FALSE /\ c.new = v
                                       THEN entered[v] + 1 ELSE entered[v]]
        /\ handedOut' = [v \in Values |-> IF T!Result(c) = v
                                         THEN handedOut[v] + 1 ELSE handedOut[v]]
    BY <1>1 DEF ClientStep
  <1>4. entered' \in [Values -> Nat] /\ handedOut' \in [Values -> Nat]
    <2>1. \A v \in Values : /\ entered[v] \in Nat /\ entered[v] + 1 \in Nat
                            /\ handedOut[v] \in Nat /\ handedOut[v] + 1 \in Nat
      BY DEF CallsInProgress
    <2> HIDE DEF c
    <2>2. QED
      BY <1>3, <2>1
  <1>5. c.op \in {"put", "tryPut", "swap", "trySwap", "take", "tryTakeUntil", "tryTake", "isEmpty"}
    BY <1>1 DEF Calls
  <1>6. ASSUME NEW v \in Values
        PROVE  entered'[v] = handedOut'[v] + (IF value' = v THEN 1 ELSE 0)
    <2>1. entered[v] = handedOut[v] + (IF value = v THEN 1 ELSE 0)
          /\ entered[v] \in Nat /\ handedOut[v] \in Nat
      BY DEF EachValueOnce, CallsInProgress
    <2>2. v # Nil /\ v # TRUE /\ v # FALSE /\ value # FALSE /\ Nil # FALSE
      BY <1>2, NilIsNoValue, ObjectsAreNoBools
    <2> DEFINE In == Puts(c) /\ T!Result(c) # FALSE /\ c.new = v
               Out == T!Result(c) = v
    <2>3. /\ entered'[v] = IF In THEN entered[v] + 1 ELSE entered[v]
          /\ handedOut'[v] = IF Out THEN handedOut[v] + 1 ELSE handedOut[v]
      BY <1>3, Zenon
    <2>4. CASE c.op = "put"
      <3>1. (In <=> c.new = v) /\ ~Out /\ value = Nil /\ value' = c.new
        BY <1>2, <2>2, <2>4 DEF Puts, T!Result, T!NewBox, T!CanAct, T!Full
      <3> HIDE DEF In, Out, c
      <3>2. QED
        BY <2>1, <2>2, <2>3, <3>1
    <2>5. CASE c.op = "tryPut" /\ value = Nil
      <3>1. (In <=> c.new = v) /\ ~Out /\ value' = c.new
        BY <1>2, <2>2, <2>5, AnswerIsBool DEF Puts, T!NewBox, T!Full
      <3> HIDE DEF In, Out, c
      <3>2. QED
        BY <2>1, <2>2, <2>3, <2>5, <3>1
    <2>6. CASE c.op = "tryPut" /\ value # Nil
      <3>1. ~In /\ ~Out /\ value' = value
        BY <1>2, <2>2, <2>6, AnswerIsBool DEF T!NewBox, T!Full
      <3> HIDE DEF In, Out, c
      <3>2. QED
        BY <2>1, <2>3, <3>1
    <2>7. CASE c.op \in {"swap", "trySwap"}
      <3>1. (In <=> c.new = v) /\ (Out <=> value = v) /\ value' = c.new
        BY <1>2, <2>2, <2>7 DEF Puts, T!Result, T!NewBox
      <3> HIDE DEF In, Out, c
      <3>2. QED
        BY <2>1, <2>3, <3>1
    <2>8. CASE c.op \in {"take", "tryTakeUntil", "tryTake"}
      <3>1. ~In /\ (Out <=> value = v) /\ value' = Nil
        BY <1>2, <2>8 DEF Puts, T!Result, T!NewBox
      <3> HIDE DEF In, Out, c
      <3>2. QED
        BY <2>1, <2>2, <2>3, <3>1
    <2>9. CASE c.op = "isEmpty"
      <3>1. ~In /\ ~Out /\ value' = value
        BY <1>2, <2>2, <2>9, AnswerIsBool DEF Puts, T!NewBox
      <3> HIDE DEF In, Out, c
      <3>2. QED
        BY <2>1, <2>3, <3>1
    <2>10. QED
      BY <1>5, <2>4, <2>5, <2>6, <2>7, <2>8, <2>9
  <1>7. QED
    BY <1>4, <1>6 DEF EachValueOnce

\* A date that is reached hands nothing out.
LEMMA GiveUpEffect ==
    ASSUME NEW t \in Threads, ValueInv, ClientStep(t), GiveUp(t)
    PROVE  /\ ValueInv'
           /\ call[t].op = "tryTakeUntil" /\ TakesEffect(t, value, Nil)
  <1>1. call[t].op = "tryTakeUntil" /\ TakesEffect(t, value, Nil)
    BY LeaveAloneTakesEffect DEF GiveUp, ValueInv, CallsInProgress
  <1>2. call'[t] = NoCall /\ answer'[t] = Nil /\ value' = value
    BY <1>1 DEF TakesEffect, ValueInv, BoxTypes, CallsInProgress
  <1>3. entered' = entered /\ handedOut' = handedOut
    BY <1>1, <1>2, NilIsNoValue DEF ClientStep, Puts, ValueInv, CallsInProgress
  <1>4. BoxTypes'
    BY DEF GiveUp, LeaveAlone, Return, ValueInv, BoxTypes
  <1>5. QED
    BY <1>1, <1>2, <1>3, <1>4, EffectKeepsCalls
       DEF ValueInv, BoxTypes, CallsInProgress, EachValueOnce

\* Every step of the box and its clients keeps the invariant.
LEMMA ValueNextInv == ValueInv /\ BoxInv /\ BoxInv' /\ [Next]_vars => ValueInv'
  <1> SUFFICES ASSUME ValueInv, BoxInv, BoxInv', [Next]_vars PROVE ValueInv'
    OBVIOUS
  <1>1. ASSUME NEW t \in Threads, ClientCalls(t) PROVE ValueInv'
    <2>1. PICK c \in Calls : Call(t, c)
      BY <1>1 DEF ClientCalls
    <2>2. c # NoCall
      BY DEF Calls, NoCall
    <2>3. QED
      BY <1>1, <2>1, <2>2
         DEF ClientCalls, Call, BoxInv, ValueInv, BoxTypes, CallsInProgress, EachValueOnce
  <1>2. ASSUME NEW t \in Threads, ClientStep(t) PROVE ValueInv'
    <2>1. CASE Lock(t)
      <3>1. CASE Wait(t) /\ call[t] # NoCall
        BY <1>2, <3>1 DEF ClientStep, Wait, BoxInv, ValueInv, BoxTypes, CallsInProgress,
                          EachValueOnce
      <3>2. CASE /\ T!CanAct(call[t])
                 /\ TakesEffect(t, T!NewBox(call[t]), T!Result(call[t]))
        <4>1. T!NewBox(call[t]) \in Values \cup {Nil}
          BY <3>2 DEF TakesEffect, BoxInv, BoxTypes
        <4>2. QED
          BY <1>2, <3>2, <4>1, EffectCounts, EffectKeepsCalls
             DEF ValueInv, BoxInv, CallsInProgress
      <3>3. QED
        BY <2>1, <3>1, <3>2, LockEffect DEF ValueInv
    <2>2. CASE GiveUp(t)
      BY <1>2, <2>2, GiveUpEffect
    <2>3. QED
      BY <1>2, <2>1, <2>2 DEF ClientStep, Step
  <1>3. ASSUME NEW t \in Threads, ClientSleeps(t) PROVE ValueInv'
    <2>1. call[t] # NoCall
      BY <1>3 DEF ClientSleeps, WakeUp, TimeOut, ValueInv, CallsInProgress
    <2>2. QED
      BY <1>3, <2>1 DEF ClientSleeps, WakeUp, TimeOut, BoxInv, ValueInv, BoxTypes,
                        CallsInProgress, EachValueOnce
  <1>4. CASE UNCHANGED vars
    BY <1>4 DEF vars, boxVars, ValueInv, BoxTypes, CallsInProgress, EachValueOnce
  <1>5. QED
    BY <1>1, <1>2, <1>3, <1>4 DEF Next

LEMMA ValueInvariant == Spec => [](BoxInv /\ ValueInv)
  <1>1. Init => BoxInv /\ ValueInv
    BY DEF Init, InitBox, BoxInv, BoxTypes, NobodySleepsWhoCouldGoOn, NoCall, ValueInv,
           CallsInProgress, EachValueOnce
  <1>2. QED
    BY <1>1, BoxNextInv, ValueNextInv, PTL DEF Spec

\* No value is lost, overwritten or handed out twice, however calls, timeouts and
\* wakeups interleave (BRUConcurrentBox.m:50-177).
THEOREM NoValueLost == Spec => []EachValueOnce
  <1>1. ValueInv => EachValueOnce
    BY DEF ValueInv
  <1>2. QED
    BY <1>1, ValueInvariant, PTL

---------------------------------------------------------------------------
(* The TMVar.                                                              *)

\* Each step of the box is a step of the TMVar or changes nothing the TMVar shows.
LEMMA StepOfTMVar == BoxInv /\ ValueInv /\ [Next]_vars => [T!Next]_(T!vars)
  <1> SUFFICES ASSUME BoxInv, ValueInv, [Next]_vars PROVE [T!Next]_(T!vars)
    OBVIOUS
  <1>1. ASSUME NEW t \in Threads, ClientCalls(t) PROVE T!Begin(t)
    BY <1>1 DEF ClientCalls, Call, Calls, NoCall, T!Begin, T!Calls, T!NoCall, ValueInv,
                CallsInProgress
  <1>2. ASSUME NEW t \in Threads, ClientStep(t)
        PROVE  T!Act(t) \/ T!Expire(t) \/ UNCHANGED T!vars
    <2>1. CASE Lock(t)
      BY <2>1, LockEffect DEF TakesEffect, Wait, T!Act, T!End, T!vars, NoCall, T!NoCall, ValueInv
    <2>2. CASE GiveUp(t)
      BY <1>2, <2>2, GiveUpEffect DEF TakesEffect, T!Expire, T!End, NoCall, T!NoCall
    <2>3. QED
      BY <1>2, <2>1, <2>2 DEF ClientStep, Step
  <1>3. ASSUME NEW t \in Threads, ClientSleeps(t) PROVE UNCHANGED T!vars
    BY <1>3 DEF ClientSleeps, WakeUp, TimeOut, T!vars
  <1>4. CASE UNCHANGED vars
    BY <1>4 DEF vars, boxVars, T!vars
  <1>5. QED
    BY <1>1, <1>2, <1>3, <1>4 DEF Next, T!Next

\* The lock, the condition, the timeouts and the wakeups add nothing a caller could
\* tell from the TMVar of BRUConcurrentBox.h:17-103: its calls take effect one at a
\* time, each at one moment (that they do take effect in the end is left to the run).
THEOREM BoxIsTMVar == Spec => T!Safety
  <1>1. Init => T!Init
    BY DEF Init, InitBox, T!Init, NoCall, T!NoCall
  <1>2. QED
    BY <1>1, StepOfTMVar, ValueInvariant, PTL DEF Spec, T!Safety
==============================================================================
