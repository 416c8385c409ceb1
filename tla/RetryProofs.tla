----------------------------- MODULE RetryProofs -----------------------------
(***************************************************************************)
(* Proofs about BRURetry, for any number of callers, retries and delays.   *)
(* Every action preserves CoreInv (one lemma per action, CoreStep puts     *)
(* them together), with its help HistoryInv (HistoryStep) and ListenersInv *)
(* (ListenersStep); then come the theorems about the properties of module  *)
(* RetryProperties, and last the refinement of module RetryOperation.      *)
(***************************************************************************)
EXTENDS RetryInvariant, SequenceTheorems, TLAPS

\* A run is the pair of an operation and the number of an attempt.
LEMMA RunsType ==
    /\ MaxRuns \in Nat \ {0}
    /\ \A r \in Runs : /\ Operation(r) \in Callers
                       /\ Attempt(r) \in 1..MaxRuns
                       /\ r = << Operation(r), Attempt(r) >>
    /\ \A o \in Callers, n \in 1..MaxRuns :
           /\ << o, n >> \in Runs
           /\ Operation(<< o, n >>) = o
           /\ Attempt(<< o, n >>) = n
  BY RetryAssumption DEF MaxRuns, Runs, Operation, Attempt

\* A new BRURetry satisfies the invariant.
LEMMA InitInv == Init => CoreInv
  <1> SUFFICES ASSUME Init PROVE CoreInv
    OBVIOUS
  <1>1. RetryTypeOK
    <2>1. /\ timerRunning \in [Runs -> BOOLEAN]
          /\ suspending \in [Runs -> BOOLEAN]
          /\ firing \in [Runs -> BOOLEAN]
      BY DEF Init
    <2>2. attempt \in 0..MaxRuns
      BY RunsType DEF Init
    <2>3. QED
      BY <2>1, <2>2, RetryAssumption DEF Init, RetryTypeOK, Stages, TimerStages
  <1>2. D!PromiseTypeOK
    BY DEF Init, D!PromiseTypeOK, D!InitPromises, D!NoValue
  <1>3. QED
    BY <1>1, <1>2, NilIsNoRun, RetryAssumption
    DEF Init, CoreInv, OnlyKnownAborts, FieldsFit, CurrentRun, NothingAhead, RetriesLeft,
        OneTimerMatches, CancelShows, ResolvedOnce, Unresolved, D!InitPromises, Runs, Operation

---------------------------------------------------------------------------
(* What the API of BRUDeferred does to the promises.                       *)

\* Adding a call to a promise's queue keeps the types and nothing else changes.
LEMMA EnqueueType ==
    ASSUME NEW o \in Callers, NEW call \in D!ApiCall, D!PromiseTypeOK, D!Enqueue(o, call)
    PROVE  /\ D!PromiseTypeOK'
           /\ promiseState' = promiseState
           /\ promiseQueue' = [promiseQueue EXCEPT ![o] = Append(@, call)]
  BY DEF D!PromiseTypeOK, D!Enqueue

\* What then: changes in the promises and what it leaves alone.
LEMMA ThenEffect ==
    ASSUME NEW o \in Callers, NEW c \in Callers, D!PromiseTypeOK, D!Then(o, c)
    PROVE  /\ D!PromiseTypeOK'
           /\ promiseState' = promiseState
           /\ promiseQueue' = [promiseQueue EXCEPT ![o] = Append(@, D!ThenCall(c))]
  <1>1. D!ThenCall(c) \in D!ApiCall
    BY DEF D!ApiCall
  <1>2. QED
    BY <1>1, EnqueueType DEF D!Then

\* What resolve: changes in the promises and what it leaves alone.
LEMMA ResolveEffect ==
    ASSUME NEW o \in Callers, NEW v \in Results, D!PromiseTypeOK, D!Resolve(o, v)
    PROVE  /\ D!PromiseTypeOK'
           /\ promiseState' = promiseState
           /\ promiseQueue' = [promiseQueue EXCEPT ![o] = Append(@, D!ResolveCall(v))]
  <1>1. D!ResolveCall(v) \in D!ApiCall
    BY DEF D!ApiCall
  <1>2. QED
    BY <1>1, EnqueueType DEF D!Resolve

\* A block of `then:' on the queue keeps the promises resolved once.
LEMMA ThenKeepsResolvedOnce ==
    ASSUME NEW o \in Callers, NEW c \in Callers, D!PromiseTypeOK, ResolvedOnce,
           D!Then(o, c),
           \A p \in Callers : (deferred = p \/ pc[p] = "idle")' =>
                                  deferred = p \/ pc[p] = "idle"
    PROVE  ResolvedOnce'
  <1>1. /\ promiseState' = promiseState
        /\ promiseQueue' = [promiseQueue EXCEPT ![o] = Append(@, D!ThenCall(c))]
    BY ThenEffect
  <1>2. promiseQueue \in [Callers -> Seq(D!ApiCall)]
    BY DEF D!PromiseTypeOK
  <1>3. D!ThenCall(c) \in D!ApiCall /\ D!ThenCall(c).op = "then"
    BY DEF D!ApiCall, D!ThenCall
  <1>4. ASSUME NEW p \in Callers, NEW i \in 1..Len(promiseQueue'[p])
        PROVE  \/ i \in 1..Len(promiseQueue[p]) /\ promiseQueue'[p][i] = promiseQueue[p][i]
               \/ promiseQueue'[p][i].op = "then"
    <2>1. CASE p = o
      <3> DEFINE q == promiseQueue[p]
      <3>1. q \in Seq(D!ApiCall) /\ promiseQueue'[p] = Append(q, D!ThenCall(c))
        BY <1>1, <1>2, <2>1
      <3>2. CASE i \in 1..Len(q)
        BY <3>1, <3>2
      <3>3. CASE i \notin 1..Len(q)
        <4>1. i = Len(q) + 1
          BY <3>1, <3>3
        <4>2. QED
          BY <3>1, <4>1, <1>3
      <3>4. QED
        BY <3>2, <3>3
    <2>2. CASE p # o
      BY <1>1, <1>2, <2>2
    <2>3. QED
      BY <2>1, <2>2
  <1>5. ASSUME NEW p \in Callers, (deferred = p \/ pc[p] = "idle")'
        PROVE  Unresolved(p)'
    <2>1. Unresolved(p)
      BY <1>5 DEF ResolvedOnce
    <2>2. QED
      BY <1>1, <1>4, <2>1 DEF Unresolved
  <1>6. ASSUME NEW p \in Callers, NEW i \in 1..Len(promiseQueue'[p]),
               promiseQueue'[p][i].op = "resolve"
        PROVE  /\ promiseState'[p] = "Pending"
               /\ \A j \in 1..Len(promiseQueue'[p]) :
                      j # i => promiseQueue'[p][j].op = "then"
    <2>1. i \in 1..Len(promiseQueue[p]) /\ promiseQueue'[p][i] = promiseQueue[p][i]
      BY <1>4, <1>6
    <2>2. QED
      BY <1>1, <1>4, <1>6, <2>1 DEF ResolvedOnce
  <1>7. QED
    BY <1>5, <1>6 DEF ResolvedOnce

\* So does the block of `resolve:' of the operation that just ended.
LEMMA ResolveKeepsResolvedOnce ==
    ASSUME NEW o \in Callers, NEW v \in Results, D!PromiseTypeOK, ResolvedOnce,
           D!Resolve(o, v), deferred = o,
           \A p \in Callers : (deferred = p \/ pc[p] = "idle")' => pc[p] = "idle" /\ p # o
    PROVE  ResolvedOnce'
  <1>1. /\ promiseState' = promiseState
        /\ promiseQueue' = [promiseQueue EXCEPT ![o] = Append(@, D!ResolveCall(v))]
    BY ResolveEffect
  <1>2. promiseQueue \in [Callers -> Seq(D!ApiCall)]
    BY DEF D!PromiseTypeOK
  <1>3. D!ResolveCall(v) \in D!ApiCall
    BY DEF D!ApiCall
  <1>4. Unresolved(o)
    BY DEF ResolvedOnce
  <1>5. ASSUME NEW p \in Callers, p # o
        PROVE  promiseQueue'[p] = promiseQueue[p]
    BY <1>1, <1>2, <1>5
  <1>6. ASSUME NEW i \in 1..Len(promiseQueue'[o])
        PROVE  i # Len(promiseQueue'[o]) => promiseQueue'[o][i].op = "then"
    <2> DEFINE q == promiseQueue[o]
    <2>1. q \in Seq(D!ApiCall) /\ promiseQueue'[o] = Append(q, D!ResolveCall(v))
      BY <1>1, <1>2
    <2>2. Len(promiseQueue'[o]) = Len(q) + 1
      BY <2>1, <1>3
    <2>3. SUFFICES ASSUME i # Len(promiseQueue'[o]) PROVE promiseQueue'[o][i].op = "then"
      OBVIOUS
    <2>4. i \in 1..Len(q)
      BY <2>1, <2>2, <2>3
    <2>5. promiseQueue'[o][i] = q[i]
      BY <2>1, <2>4
    <2>6. QED
      BY <1>4, <2>4, <2>5 DEF Unresolved
  <1>7. ASSUME NEW p \in Callers, (deferred = p \/ pc[p] = "idle")'
        PROVE  Unresolved(p)'
    <2>1. Unresolved(p) /\ p # o
      BY <1>7 DEF ResolvedOnce
    <2>2. QED
      BY <1>1, <1>5, <2>1 DEF Unresolved
  <1>8. ASSUME NEW p \in Callers, NEW i \in 1..Len(promiseQueue'[p]),
               promiseQueue'[p][i].op = "resolve"
        PROVE  /\ promiseState'[p] = "Pending"
               /\ \A j \in 1..Len(promiseQueue'[p]) :
                      j # i => promiseQueue'[p][j].op = "then"
    <2>1. CASE p = o
      BY <1>1, <1>4, <1>6, <1>8, <2>1 DEF Unresolved
    <2>2. CASE p # o
      BY <1>1, <1>5, <1>8, <2>2 DEF ResolvedOnce
    <2>3. QED
      BY <2>1, <2>2
  <1>9. QED
    BY <1>7, <1>8 DEF ResolvedOnce

---------------------------------------------------------------------------
(* startWithCompletionBlock:                                               *)

\* The part of Start that only the promises see.
LEMMA ListenEffect ==
    ASSUME NEW c \in Callers, D!PromiseTypeOK, ResolvedOnce, deferred' \in Callers,
           IF c \in Listening
           THEN /\ D!Then(deferred', c)
                /\ joined' = [joined EXCEPT ![c] = deferred']
           ELSE UNCHANGED << promiseVars, joined >>,
           \A p \in Callers : (deferred = p \/ pc[p] = "idle")' =>
                                  deferred = p \/ pc[p] = "idle"
    PROVE  D!PromiseTypeOK' /\ ResolvedOnce'
  <1>1. CASE c \in Listening
    <2>1. D!Then(deferred', c)
      BY <1>1
    <2>2. QED
      BY <2>1, ThenEffect, ThenKeepsResolvedOnce
  <1>2. CASE c \notin Listening
    <2>1. D!PromiseTypeOK'
      BY <1>2 DEF D!PromiseTypeOK, promiseVars
    <2>2. ResolvedOnce'
      BY <1>2 DEF ResolvedOnce, Unresolved, promiseVars
    <2>3. QED
      BY <2>1, <2>2
  <1>3. QED
    BY <1>1, <1>2

\* A start of a new operation keeps the invariant.
LEMMA BeginInv ==
    ASSUME NEW c \in Callers, CoreInv, Start(c), BeginOperation(c)
    PROVE  CoreInv'
  <1> USE DEF CoreInv
  <1>1. /\ attempt = 0 /\ attempt' = 1 /\ identifier' = c /\ deferred' = c
        /\ state' = "ActiveWaiting" /\ timer' = Nil /\ timer = Nil
        /\ << c, 1 >> \in Runs
        /\ at' = [at EXCEPT ![<< c, 1 >>] = "queued"]
        /\ pc[c] = "idle" /\ pc' = [pc EXCEPT ![c] = "returning"]
    BY RunsType DEF Start, BeginOperation, PerformAction, FieldsFit
  <1>2. RetryTypeOK'
    <2>1. attempt' \in 0..MaxRuns /\ at' \in [Runs -> Stages]
      BY <1>1, RunsType DEF RetryTypeOK, Stages
    <2>2. joined' \in [Callers -> Callers \cup {Nil}]
      BY <1>1 DEF Start, RetryTypeOK
    <2>3. QED
      BY <1>1, <2>1, <2>2 DEF Start, BeginOperation, RetryTypeOK, timerVars
  <1>3. D!PromiseTypeOK' /\ ResolvedOnce'
    BY <1>1, ListenEffect DEF Start, RetryTypeOK
  <1>4. OnlyKnownAborts'
    BY <1>1, RetryAssumption DEF Start, CheckInvariants, Consistent, OnlyKnownAborts
  <1>5. FieldsFit'
    BY <1>1 DEF FieldsFit
  <1>6. CurrentRun'
    BY <1>1, RunsType DEF CurrentRun, RetryTypeOK
  <1>7. NothingAhead'
    BY <1>1, RunsType DEF NothingAhead, RetryTypeOK, Start, BeginOperation, timerVars
  <1>8. RetriesLeft'
    BY <1>1 DEF RetriesLeft, RetryTypeOK, Start
  <1>9. OneTimerMatches'
    BY <1>1 DEF OneTimerMatches, NothingAhead, Start, timerVars
  <1>10. CancelShows'
    BY <1>1 DEF CancelShows, NothingAhead, Start, BeginOperation
  <1>11. QED
    BY <1>2, <1>3, <1>4, <1>5, <1>6, <1>7, <1>8, <1>9, <1>10

\* A start that joins or restores an operation keeps the invariant.
LEMMA JoinInv ==
    ASSUME NEW c \in Callers, CoreInv, Start(c), JoinOperation(c) \/ RestoreOperation(c)
    PROVE  CoreInv'
  <1> USE DEF CoreInv
  <1>1. /\ UNCHANGED << timer, attempt, identifier, deferred, at, timerAt, response >>
        /\ state # "Idle" /\ state' # "Idle"
        /\ state = "Delay" <=> state' = "Delay"
        /\ pc[c] = "idle" /\ pc' = [pc EXCEPT ![c] = "returning"]
        /\ cancelled' \subseteq cancelled
        /\ identifier \notin cancelled'
    BY DEF Start, JoinOperation, RestoreOperation, timerVars, CancelShows
  <1>2. RetryTypeOK'
    <2>1. joined' \in [Callers -> Callers \cup {Nil}]
      BY <1>1 DEF Start, RetryTypeOK
    <2>2. state' \in {"Delay", "ActiveWaiting"} /\ ret' \in [Callers -> Callers \cup {Nil}]
      BY DEF Start, JoinOperation, RestoreOperation, RetryTypeOK
    <2>3. pc' \in [Callers -> {"idle", "returning", "started"}]
      BY <1>1 DEF RetryTypeOK
    <2>4. /\ cancelled' \in SUBSET Callers
          /\ UNCHANGED << timer, attempt, currentDelay, identifier, deferred, released,
                          at, outcome, offered, chosen, response >>
          /\ UNCHANGED << timerAt, timerRunning, suspending, firing >>
      BY <1>1 DEF Start, RetryTypeOK, timerVars
    <2>5. QED
      BY <2>1, <2>2, <2>3, <2>4 DEF RetryTypeOK
  <1>3. D!PromiseTypeOK' /\ ResolvedOnce'
    <2>1. deferred' \in Callers
      BY <1>1 DEF FieldsFit
    <2>2. \A p \in Callers : (deferred = p \/ pc[p] = "idle")' =>
                                  deferred = p \/ pc[p] = "idle"
      BY <1>1 DEF RetryTypeOK
    <2>3. QED
      BY <2>1, <2>2, ListenEffect DEF Start
  <1>4. FieldsFit'
    BY <1>1, <1>2 DEF FieldsFit, RetryTypeOK
  <1>5. OnlyKnownAborts'
    <2>1. state' = "Delay" => timer' # Nil
      BY <1>1, <1>4, RunsType, NilIsNoRun DEF FieldsFit, RetryTypeOK
    <2>2. attempt' > 0 /\ identifier' # Nil /\ deferred' # Nil
      BY <1>1, <1>4, RetryAssumption DEF FieldsFit
    <2>3. Consistent'
      BY <1>1, <1>2, <1>4, <2>1, <2>2 DEF Consistent, FieldsFit, RetryTypeOK
    <2>4. QED
      BY <2>3 DEF Start, CheckInvariants, OnlyKnownAborts
  <1>6. CurrentRun'
    BY <1>1 DEF CurrentRun
  <1>7. NothingAhead'
    BY <1>1 DEF NothingAhead, RetryTypeOK
  <1>8. RetriesLeft' /\ OneTimerMatches' /\ CancelShows'
    BY <1>1 DEF RetriesLeft, OneTimerMatches, CancelShows
  <1>9. QED
    BY <1>2, <1>3, <1>4, <1>5, <1>6, <1>7, <1>8

\* The return from start keeps the invariant.
LEMMA StartReturnInv ==
    ASSUME NEW c \in Callers, CoreInv, StartReturn(c) PROVE CoreInv'
  <1> USE DEF CoreInv
  <1>1. /\ UNCHANGED << fields, runVars, timerVars, cancelled, promiseVars >>
        /\ \A p \in Callers : pc'[p] = "idle" <=> pc[p] = "idle"
    BY DEF StartReturn, RetryTypeOK
  <1>2. RetryTypeOK'
    BY <1>1 DEF StartReturn, RetryTypeOK, fields, runVars, timerVars
  <1>3. D!PromiseTypeOK'
    BY <1>1 DEF D!PromiseTypeOK, promiseVars
  <1>4. OnlyKnownAborts'
    BY DEF StartReturn, OnlyKnownAborts
  <1>5. FieldsFit' /\ CurrentRun' /\ RetriesLeft' /\ OneTimerMatches' /\ CancelShows'
    BY <1>1 DEF FieldsFit, CurrentRun, RetriesLeft, OneTimerMatches, CancelShows, fields,
       runVars, timerVars
  <1>6. NothingAhead'
    BY <1>1, RunsType DEF NothingAhead, fields, runVars, timerVars
  <1>7. ResolvedOnce'
    BY <1>1 DEF ResolvedOnce, Unresolved, fields, promiseVars
  <1>8. QED
    BY <1>2, <1>3, <1>4, <1>5, <1>6, <1>7

---------------------------------------------------------------------------
(* cancel: and the end of an operation.                                    *)

\* The fields after an operation has ended at run r: what CancelDelay and the
\* terminating branch of HandleResult have in common.
LEMMA EndInv ==
    ASSUME NEW r \in Runs, NEW v \in Results, CoreInv,
           r = << identifier, attempt >>, state # "Idle",
           aborted = "no", BackToIdle, timer' = Nil, D!Resolve(deferred, v), CheckInvariants,
           at' = [at EXCEPT ![r] = "done"],
           cancelled' \in SUBSET Callers, cancelled' \subseteq cancelled \cup {identifier},
           timerRunning' \in [Runs -> BOOLEAN], suspending' \in [Runs -> BOOLEAN],
           offered' \in [Runs -> {0, Delay} \cup PolicyDelays],
           UNCHANGED << timerAt, firing, outcome, chosen, response, callerVars >>
    PROVE  CoreInv'
  <1> USE DEF CoreInv
  <1>1. /\ state' = "Idle" /\ timer' = Nil /\ attempt' = 0 /\ identifier' = Nil
        /\ deferred' = Nil /\ currentDelay' = Delay /\ pc' = pc
        /\ deferred = identifier /\ identifier \in Callers
    BY DEF BackToIdle, callerVars, FieldsFit
  <1>2. RetryTypeOK'
    <2>1. at' \in [Runs -> Stages] /\ attempt' \in 0..MaxRuns
      BY <1>1, RunsType DEF RetryTypeOK, Stages
    <2>2. QED
      BY <1>1, <2>1 DEF RetryTypeOK, callerVars
  <1>3. D!PromiseTypeOK'
    BY <1>1, ResolveEffect
  <1>4. ResolvedOnce'
    <2>1. \A p \in Callers : (deferred = p \/ pc[p] = "idle")' =>
                                 pc[p] = "idle" /\ p # deferred
      BY <1>1, RetryAssumption DEF NothingAhead
    <2>2. QED
      BY <1>1, <2>1, ResolveKeepsResolvedOnce
  <1>5. OnlyKnownAborts'
    BY <1>1 DEF CheckInvariants, Consistent, OnlyKnownAborts
  <1>6. FieldsFit'
    BY <1>1 DEF FieldsFit
  <1>7. CurrentRun'
    BY <1>1 DEF CurrentRun, RetryTypeOK
  <1>8. NothingAhead'
    <2>1. \A s \in Runs : pc[Operation(s)] = "idle" => s # r
      BY <1>1, RunsType DEF NothingAhead
    <2>2. \A s \in Runs : Operation(s) # Nil
      BY RunsType, RetryAssumption
    <2>3. \A c \in Callers : c # Nil
      BY RetryAssumption
    <2>4. QED
      BY <1>1, <2>1, <2>2, <2>3 DEF NothingAhead, RetryTypeOK
  <1>9. RetriesLeft'
    BY DEF RetriesLeft, RetryTypeOK
  <1>10. OneTimerMatches'
    BY <1>1, RunsType, RetryAssumption DEF OneTimerMatches
  <1>11. CancelShows'
    BY <1>1, RetryAssumption DEF CancelShows
  <1>12. QED
    BY <1>2, <1>3, <1>4, <1>5, <1>6, <1>7, <1>8, <1>9, <1>10, <1>11

\* A cancel in the delay phase keeps the invariant.
LEMMA CancelDelayInv ==
    ASSUME NEW id \in Callers, CoreInv, CancelDelay(id) PROVE CoreInv'
  <1> USE DEF CoreInv
  <1>1. /\ timer = << identifier, attempt >> /\ timer \in Runs /\ deferred = identifier
        /\ deferred # Nil
    BY RunsType, RetryAssumption DEF CancelDelay, MayCancel, FieldsFit, RetryTypeOK
  <1>2. D!Resolve(deferred, "cancelled") /\ "cancelled" \in Results
    BY <1>1 DEF CancelDelay, ResolveDeferred, Results
  <1>3. suspending' \in [Runs -> BOOLEAN]
    BY <1>1 DEF CancelDelay, RetryTypeOK
  <1>4. QED
    BY <1>1, <1>2, <1>3, EndInv DEF CancelDelay, MayCancel, RetryTypeOK

\* A cancel of an attempt under way keeps the invariant.
LEMMA CancelActiveInv ==
    ASSUME NEW id \in Callers, CoreInv, CancelActive(id) PROVE CoreInv'
  <1> USE DEF CoreInv
  <1>1. /\ UNCHANGED << timer, attempt, currentDelay, identifier, deferred, runVars,
                        timerVars, callerVars, promiseVars >>
        /\ state = "ActiveWaiting" /\ state' = "ActiveCancelling"
        /\ cancelled' = cancelled \cup {identifier} /\ identifier \in Callers
    BY DEF CancelActive, MayCancel
  <1>2. RetryTypeOK'
    BY <1>1 DEF RetryTypeOK, runVars, timerVars, callerVars
  <1>3. D!PromiseTypeOK' /\ ResolvedOnce'
    BY <1>1 DEF D!PromiseTypeOK, ResolvedOnce, Unresolved, promiseVars, callerVars
  <1>4. FieldsFit'
    BY <1>1 DEF FieldsFit
  <1>5. OnlyKnownAborts'
    BY <1>1, RetryAssumption
    DEF CancelActive, CheckInvariants, Consistent, OnlyKnownAborts, FieldsFit
  <1>6. CurrentRun' /\ RetriesLeft' /\ OneTimerMatches' /\ CancelShows'
    BY <1>1 DEF CurrentRun, RetriesLeft, OneTimerMatches, CancelShows, runVars, timerVars
  <1>7. NothingAhead'
    BY <1>1, RunsType DEF NothingAhead, runVars, timerVars, callerVars
  <1>8. QED
    BY <1>2, <1>3, <1>4, <1>5, <1>6, <1>7

---------------------------------------------------------------------------
(* The blocks of a run.                                                    *)

\* A run that moves on, outside the state Delay, and changes nothing else that
\* matters here but its own notes.
LEMMA MoveInv ==
    ASSUME NEW r \in Runs, NEW stage \in Stages \ {"none", "delayed", "done"}, CoreInv,
           at[r] \notin {"none", "done", "delayed"},
           at' = [at EXCEPT ![r] = stage],
           stage = "decided" /\ response'[r] # "stop" => Attempt(r) < MaxRetries,
           \A s \in Runs : s # r => response'[s] = response[s],
           outcome' \in [Runs -> {"none", "success", "transient", "final"}],
           offered' \in [Runs -> {0, Delay} \cup PolicyDelays],
           chosen' \in [Runs -> {0, Delay} \cup PolicyDelays],
           response' \in [Runs -> {"none", "retry", "stop"}],
           UNCHANGED << fields, timerVars, callerVars, cancelled, promiseVars, aborted >>
    PROVE  CoreInv'
  <1> USE DEF CoreInv, fields
  <1>1. RetryTypeOK'
    BY DEF RetryTypeOK, timerVars, callerVars
  <1>2. D!PromiseTypeOK' /\ ResolvedOnce'
    BY DEF D!PromiseTypeOK, ResolvedOnce, Unresolved, promiseVars, callerVars
  <1>3. FieldsFit' /\ OnlyKnownAborts' /\ OneTimerMatches' /\ CancelShows'
    BY DEF FieldsFit, OnlyKnownAborts, OneTimerMatches, CancelShows, timerVars
  <1>4. CurrentRun'
    BY DEF CurrentRun, RetryTypeOK
  <1>5. NothingAhead'
    BY RunsType DEF NothingAhead, RetryTypeOK, timerVars, callerVars
  <1>6. RetriesLeft'
    BY DEF RetriesLeft, RetryTypeOK
  <1>7. QED
    BY <1>1, <1>2, <1>3, <1>4, <1>5, <1>6

\* The action block keeps the invariant.
LEMMA RunActionInv ==
    ASSUME NEW r \in Runs, CoreInv, RunAction(r) PROVE CoreInv'
  BY MoveInv DEF RunAction, CoreInv, RetryTypeOK, Stages

\* The continuation block keeps the invariant.
LEMMA ContinuationInv ==
    ASSUME NEW r \in Runs, NEW result \in {"success", "transient", "final"}, CoreInv,
           Continuation(r, result)
    PROVE  CoreInv'
  <1>1. PICK stage \in {"reported", "dropped"} : at' = [at EXCEPT ![r] = stage]
    BY DEF Continuation
  <1>2. outcome' \in [Runs -> {"none", "success", "transient", "final"}]
    BY DEF Continuation, CoreInv, RetryTypeOK
  <1>3. QED
    BY <1>1, <1>2, MoveInv DEF Continuation, CoreInv, RetryTypeOK, Stages

\* The policy block keeps the invariant.
LEMMA RunPolicyInv ==
    ASSUME NEW r \in Runs, CoreInv, RunPolicy(r) PROVE CoreInv'
  <1>1. PICK answer \in {"stop"} \cup (IF Attempt(r) >= MaxRetries THEN {} ELSE {"retry"}) :
            response' = [response EXCEPT ![r] = answer]
    BY DEF RunPolicy
  <1>2. PICK delay \in PolicyDelays \cup {offered[r]} : chosen' = [chosen EXCEPT ![r] = delay]
    BY DEF RunPolicy
  <1>3. answer = "retry" => Attempt(r) < MaxRetries
    BY <1>1, RunsType, RetryAssumption
  <1>4. /\ response' \in [Runs -> {"none", "retry", "stop"}]
        /\ response'[r] = answer
        /\ \A s \in Runs : s # r => response'[s] = response[s]
    BY <1>1 DEF CoreInv, RetryTypeOK
  <1>5. chosen' \in [Runs -> {0, Delay} \cup PolicyDelays]
    BY <1>2 DEF CoreInv, RetryTypeOK
  <1>6. QED
    BY <1>3, <1>4, <1>5, MoveInv DEF RunPolicy, CoreInv, RetryTypeOK, Stages

\* The run handleResult is called for is the current one.
LEMMA HandledRun ==
    ASSUME NEW r \in Runs, CoreInv, at[r] \in {"reported", "decided"}
    PROVE  /\ r = << identifier, attempt >>
           /\ state \in {"ActiveWaiting", "ActiveCancelling"}
           /\ timer = Nil
           /\ deferred = identifier /\ deferred # Nil /\ identifier \in Callers
  BY RetryAssumption DEF CoreInv, CurrentRun, FieldsFit, RetryTypeOK

\* handleResult with a result that terminates the operation.
LEMMA TerminateInv ==
    ASSUME NEW r \in Runs, NEW result, NEW answer, NEW nextDelay, CoreInv,
           aborted = "no", at[r] \in {"reported", "decided"},
           Terminates(result, answer), HandleResult(r, result, answer, nextDelay),
           UNCHANGED << outcome, offered, chosen, response, suspending, firing, callerVars,
                        cancelled >>
    PROVE  CoreInv'
  <1>1. PICK v \in Results : D!Resolve(deferred, v)
    BY HandledRun DEF HandleResult, ResolveDeferred, Results
  <1>2. /\ BackToIdle
        /\ timer' = Nil
        /\ CheckInvariants
        /\ at' = [at EXCEPT ![r] = "done"]
        /\ UNCHANGED << timerAt, timerRunning >>
    BY HandledRun DEF HandleResult
  <1>3. QED
    BY <1>1, <1>2, HandledRun, EndInv DEF CoreInv, RetryTypeOK

\* The continuation's block on syncQueue keeps the invariant.
LEMMA HandleContinuationInv ==
    ASSUME NEW r \in Runs, CoreInv, HandleContinuation(r) PROVE CoreInv'
  <1>1. at[r] = "reported" /\ aborted = "no"
    BY DEF HandleContinuation
  <1>2. CASE ~RetryAlive
    BY <1>2, <1>1, MoveInv DEF HandleContinuation, CoreInv, RetryTypeOK, Stages, timerVars
  <1>3. CASE RetryAlive /\ IsFinal(outcome[r])
    <2>1. /\ HandleResult(r, outcome[r], "stop", currentDelay)
          /\ UNCHANGED << outcome, offered, chosen, response, suspending, firing,
                          callerVars, cancelled >>
      BY <1>3 DEF HandleContinuation
    <2>2. Terminates(outcome[r], "stop")
      BY DEF Terminates
    <2>3. QED
      BY <1>1, <2>1, <2>2, TerminateInv
  <1>4. CASE RetryAlive /\ ~IsFinal(outcome[r])
    <2>1. /\ at' = [at EXCEPT ![r] = "policy"]
          /\ offered' = [offered EXCEPT ![r] = currentDelay]
          /\ UNCHANGED << fields, outcome, chosen, response, timerVars, callerVars,
                          cancelled, promiseVars, aborted >>
      BY <1>4 DEF HandleContinuation, timerVars
    <2>2. offered' \in [Runs -> {0, Delay} \cup PolicyDelays]
      BY <2>1 DEF CoreInv, RetryTypeOK
    <2>3. QED
      BY <1>1, <2>1, <2>2, MoveInv DEF CoreInv, RetryTypeOK, Stages
  <1>5. QED
    BY <1>2, <1>3, <1>4

\* handleResult with a result after which the action is attempted again.
LEMMA HandleDecisionInv ==
    ASSUME NEW r \in Runs, CoreInv, HandleDecision(r) PROVE CoreInv'
  <1> USE DEF CoreInv
  <1>1. /\ at[r] = "decided" /\ aborted = "no"
        /\ HandleResult(r, outcome[r], response[r], chosen[r])
        /\ UNCHANGED << outcome, offered, chosen, response, suspending, firing,
                        callerVars, cancelled >>
    BY DEF HandleDecision
  <1>2. CASE Terminates(outcome[r], response[r])
    BY <1>1, <1>2, TerminateInv
  <1>3. CASE ~Terminates(outcome[r], response[r])
    <2>1. /\ r = << identifier, attempt >> /\ state = "ActiveWaiting" /\ timer = Nil
          /\ deferred = identifier /\ identifier \in Callers
      BY <1>1, <1>3, HandledRun DEF Terminates
    <2>2. /\ currentDelay' = chosen[r]
          /\ timer' = r /\ state' = "Delay"
          /\ timerAt' = [timerAt EXCEPT ![r] = "armed"]
          /\ timerRunning' = [timerRunning EXCEPT ![r] = TRUE]
          /\ at' = [at EXCEPT ![r] = "delayed"]
          /\ CheckInvariants
          /\ UNCHANGED << attempt, identifier, deferred, promiseVars >>
      BY <1>1, <1>3, <2>1 DEF HandleResult, ScheduleNextAction
    <2>3. Attempt(r) < MaxRetries
      BY <1>1, <1>3 DEF Terminates, RetriesLeft, RetryTypeOK
    <2>4. RetryTypeOK'
      <3>1. timerRunning' \in [Runs -> BOOLEAN]
        BY <2>2 DEF RetryTypeOK
      <3>2. timerAt' \in [Runs -> TimerStages] /\ at' \in [Runs -> Stages]
        BY <2>2 DEF RetryTypeOK, Stages, TimerStages
      <3>3. QED
        BY <1>1, <2>2, <3>1, <3>2 DEF RetryTypeOK, callerVars
    <2>5. D!PromiseTypeOK' /\ ResolvedOnce'
      <3>1. D!PromiseTypeOK'
        BY <2>2 DEF D!PromiseTypeOK, promiseVars
      <3>2. \A o \in Callers : Unresolved(o)' <=> Unresolved(o)
        BY <2>2 DEF Unresolved, promiseVars
      <3>3. ResolvedOnce'
        BY <1>1, <2>2, <3>2 DEF ResolvedOnce, promiseVars, callerVars
      <3>4. QED
        BY <3>1, <3>3
    <2>6. FieldsFit'
      BY <2>1, <2>2 DEF FieldsFit
    <2>7. OnlyKnownAborts'
      <3>1. timer' # Nil /\ identifier' # Nil /\ deferred' # Nil /\ attempt' > 0
        BY <2>1, <2>2, NilIsNoRun, RetryAssumption DEF FieldsFit
      <3>2. Consistent'
        BY <2>2, <3>1 DEF Consistent
      <3>3. QED
        BY <2>2, <3>2 DEF CheckInvariants, OnlyKnownAborts
    <2>8. CurrentRun'
      BY <2>1, <2>2 DEF CurrentRun, RetryTypeOK
    <2>9. NothingAhead'
      BY <1>1, <2>1, <2>2, RunsType DEF NothingAhead, RetryTypeOK, callerVars
    <2>10. RetriesLeft'
      BY <1>1, <2>2, <2>3 DEF RetriesLeft, RetryTypeOK
    <2>11. OneTimerMatches'
      BY <2>1, <2>2, NilIsNoRun DEF OneTimerMatches, RetryTypeOK
    <2>12. CancelShows'
      BY <1>1, <2>1, <2>2 DEF CancelShows
    <2>13. QED
      BY <2>4, <2>5, <2>6, <2>7, <2>8, <2>9, <2>10, <2>11, <2>12
  <1>4. QED
    BY <1>2, <1>3

---------------------------------------------------------------------------
(* The timers, the promises' queues and the clients' references.           *)

\* A step of the timers and their holders that touches no field of BRURetry.
LEMMA TimerMoveInv ==
    ASSUME CoreInv,
           timerAt' \in [Runs -> TimerStages], timerRunning' \in [Runs -> BOOLEAN],
           suspending' \in [Runs -> BOOLEAN], firing' \in [Runs -> BOOLEAN],
           \A r \in Runs : timerAt'[r] = timerAt[r]
                           \/ timerAt[r] \notin {"none", "gone"},
           released' \in BOOLEAN, aborted' \in {"no", "timerCallback"},
           UNCHANGED << fields, runVars, pc, ret, joined, cancelled, promiseVars >>
    PROVE  CoreInv'
  <1> USE DEF CoreInv, fields, runVars
  <1>1. RetryTypeOK'
    BY DEF RetryTypeOK
  <1>2. D!PromiseTypeOK' /\ ResolvedOnce'
    BY DEF D!PromiseTypeOK, ResolvedOnce, Unresolved, promiseVars
  <1>3. FieldsFit' /\ OnlyKnownAborts' /\ CurrentRun' /\ RetriesLeft' /\ CancelShows'
    BY DEF FieldsFit, OnlyKnownAborts, CurrentRun, RetriesLeft, CancelShows
  <1>4. NothingAhead'
    BY RunsType DEF NothingAhead
  <1>5. OneTimerMatches'
    BY DEF OneTimerMatches
  <1>6. QED
    BY <1>1, <1>2, <1>3, <1>4, <1>5

\* The timer's block keeps the invariant.
LEMMA TimerCallbackInv ==
    ASSUME NEW r \in Runs, CoreInv, TimerCallback(r) PROVE CoreInv'
  <1> USE DEF CoreInv
  <1>1. /\ timerAt[r] = "posted" /\ aborted = "no"
        /\ timerAt' = [timerAt EXCEPT ![r] = "gone"]
        /\ UNCHANGED << outcome, offered, chosen, response, timerRunning, suspending,
                        firing, callerVars, cancelled, promiseVars >>
    BY DEF TimerCallback
  <1>2. timerAt' \in [Runs -> TimerStages]
    BY <1>1 DEF RetryTypeOK, TimerStages
  <1>3. CASE UNCHANGED << fields, at >> /\ aborted' \in {"no", "timerCallback"}
    BY <1>1, <1>2, <1>3, TimerMoveInv DEF RetryTypeOK, runVars, callerVars
  <1>4. CASE ~(UNCHANGED << fields, at >> /\ aborted' \in {"no", "timerCallback"})
    <2>1. /\ identifier = Operation(r)
          /\ timer' = Nil /\ state' = "ActiveWaiting"
          /\ UNCHANGED << currentDelay, identifier, deferred, aborted >>
          /\ attempt' = attempt + 1
          /\ at' = [[at EXCEPT ![r] = "done"]
                        EXCEPT ![<< identifier, attempt + 1 >>] = "queued"]
      BY <1>1, <1>4 DEF TimerCallback, PerformAction
    <2>2. /\ timer = r /\ state = "Delay" /\ r = << identifier, attempt >>
          /\ attempt \in 1..MaxRuns /\ deferred = identifier /\ identifier \in Callers
      <3>1. timer = r
        BY <1>1, <2>1 DEF OneTimerMatches
      <3>2. state = "Delay" /\ r = << identifier, attempt >>
        BY <3>1, NilIsNoRun DEF FieldsFit
      <3>3. QED
        BY <3>1, <3>2, RunsType DEF FieldsFit, RetryTypeOK
    <2>3. attempt + 1 \in 1..MaxRuns /\ << identifier, attempt + 1 >> \in Runs
      <3>1. at[r] = "delayed"
        BY <2>2 DEF CurrentRun
      <3>2. attempt < MaxRetries
        BY <2>2, <3>1, RunsType DEF RetriesLeft
      <3>3. attempt + 1 \in 1..MaxRuns
        BY <2>2, <3>2, RetryAssumption DEF MaxRuns
      <3>4. QED
        BY <2>2, <3>3, RunsType
    <2> DEFINE next == << identifier, attempt + 1 >>
    <2>4. /\ at'[next] = "queued" /\ at'[r] = "done" /\ next # r
          /\ \A s \in Runs : s # r /\ s # next => at'[s] = at[s]
          /\ at' \in [Runs -> Stages]
      BY <2>1, <2>2, <2>3 DEF RetryTypeOK, Stages
    <2>5. RetryTypeOK'
      BY <1>1, <1>2, <2>1, <2>3, <2>4 DEF RetryTypeOK, callerVars
    <2>6. D!PromiseTypeOK' /\ ResolvedOnce'
      BY <1>1, <2>1 DEF D!PromiseTypeOK, ResolvedOnce, Unresolved, promiseVars, callerVars
    <2>7. FieldsFit' /\ OnlyKnownAborts'
      BY <2>1, <2>2 DEF FieldsFit, OnlyKnownAborts
    <2>8. CurrentRun'
      BY <2>1, <2>2, <2>4 DEF CurrentRun
    <2>9. NothingAhead'
      <3>1. pc[identifier] # "idle" /\ pc' = pc
        BY <1>1, <2>2 DEF NothingAhead, callerVars
      <3>2. \A s \in Runs : pc[Operation(s)] = "idle" => s # r /\ s # next
        BY <2>2, <2>3, <3>1, RunsType
      <3>3. \A s \in Runs : Operation(s) = identifier /\ Attempt(s) > attempt + 1 =>
                s # r /\ s # next
        BY <2>2, <2>3, RunsType
      <3>4. QED
        BY <1>1, <2>1, <2>2, <2>4, <3>1, <3>2, <3>3, RunsType DEF NothingAhead, RetryTypeOK
    <2>10. RetriesLeft'
      BY <1>1, <2>4 DEF RetriesLeft
    <2>11. OneTimerMatches'
      BY <1>1, <2>1, <2>2 DEF OneTimerMatches, RetryTypeOK
    <2>12. CancelShows'
      BY <1>1, <2>1, <2>2 DEF CancelShows
    <2>13. QED
      BY <2>5, <2>6, <2>7, <2>8, <2>9, <2>10, <2>11, <2>12
  <1>5. QED
    BY <1>3, <1>4

\* The timer's other steps keep the invariant.
LEMMA TimerStepInv ==
    ASSUME NEW r \in Runs, CoreInv, TimerStep(r) PROVE CoreInv'
  <1> USE DEF CoreInv
  <1>1. CASE TimerDue(r)
    <2>1. /\ timerAt' \in [Runs -> TimerStages]
          /\ \A s \in Runs : timerAt'[s] = timerAt[s]
                             \/ timerAt[s] \notin {"none", "gone"}
      BY <1>1 DEF TimerDue, RetryTypeOK, TimerStages
    <2>2. timerRunning' \in [Runs -> BOOLEAN]
      BY <1>1 DEF TimerDue, RetryTypeOK
    <2>3. QED
      BY <1>1, <2>1, <2>2, TimerMoveInv DEF TimerDue, RetryTypeOK, callerVars
  <1>2. CASE TimerPost(r)
    <2>1. /\ timerAt' \in [Runs -> TimerStages]
          /\ \A s \in Runs : timerAt'[s] = timerAt[s]
                             \/ timerAt[s] \notin {"none", "gone"}
      BY <1>2 DEF TimerPost, RetryTypeOK, TimerStages
    <2>2. TimerAlive(r) \in BOOLEAN
      BY DEF TimerAlive, RetryTypeOK
    <2>3. firing' \in [Runs -> BOOLEAN]
      BY <1>2, <2>2 DEF TimerPost, RetryTypeOK
    <2>4. QED
      BY <1>2, <2>1, <2>3, TimerMoveInv DEF TimerPost, RetryTypeOK, callerVars
  <1>3. CASE TimerPostEnd(r)
    <2>1. firing' \in [Runs -> BOOLEAN]
      BY <1>3 DEF TimerPostEnd, RetryTypeOK
    <2>2. QED
      BY <1>3, <2>1, TimerMoveInv DEF TimerPostEnd, RetryTypeOK, callerVars
  <1>4. CASE TimerSuspend(r)
    <2>1. suspending' \in [Runs -> BOOLEAN] /\ timerRunning' \in [Runs -> BOOLEAN]
      BY <1>4 DEF TimerSuspend, RetryTypeOK
    <2>2. QED
      BY <1>4, <2>1, TimerMoveInv DEF TimerSuspend, RetryTypeOK, callerVars
  <1>5. CASE TimerCallback(r)
    BY <1>5, TimerCallbackInv
  <1>6. QED
    BY <1>1, <1>2, <1>3, <1>4, <1>5 DEF TimerStep

\* The release of the BRURetry keeps the invariant.
LEMMA ReleaseInv ==
    ASSUME CoreInv, Release PROVE CoreInv'
  BY TimerMoveInv DEF Release, CoreInv, RetryTypeOK, timerVars

\* processBlocks keeps the types of the two queues it touches.
LEMMA ProcessBlocksType ==
    ASSUME NEW o \in Callers, NEW new, NEW blocks \in Seq(Callers), D!PromiseTypeOK,
           D!ProcessBlocks(o, new, blocks)
    PROVE  /\ thenBlocks' \in [Callers -> Seq(Callers)]
           /\ completionQueue' \in Seq(Callers \X Callers)
  <1> DEFINE posted == [i \in 1..Len(blocks) |-> << o, blocks[i] >>]
  <1>1. posted \in Seq(Callers \X Callers)
    <2>1. \A i \in 1..Len(blocks) : << o, blocks[i] >> \in Callers \X Callers
      OBVIOUS
    <2>2. posted \in [1..Len(blocks) -> Callers \X Callers] /\ Len(blocks) \in Nat
      BY <2>1
    <2>3. QED
      BY <2>2, SeqDef
  <1>2. thenBlocks' \in [Callers -> Seq(Callers)]
    <2>1. PICK kept \in Seq(Callers) : thenBlocks' = [thenBlocks EXCEPT ![o] = kept]
      <3>1. << >> \in Seq(Callers)
        OBVIOUS
      <3>2. CASE new = "Pending"
        BY <3>2 DEF D!ProcessBlocks
      <3>3. CASE new # "Pending"
        BY <3>1, <3>3 DEF D!ProcessBlocks
      <3>4. QED
        BY <3>2, <3>3
    <2>2. QED
      BY <2>1 DEF D!PromiseTypeOK
  <1>3. completionQueue' \in {completionQueue, completionQueue \o posted}
    BY DEF D!ProcessBlocks
  <1>4. completionQueue \o posted \in Seq(Callers \X Callers)
    BY <1>1, ConcatProperties DEF D!PromiseTypeOK
  <1>5. QED
    BY <1>2, <1>3, <1>4 DEF D!PromiseTypeOK

\* The block at the head of a promise's queue is gone, and nothing was added.
LEMMA DequeueEffect ==
    ASSUME NEW o \in Callers, D!PromiseTypeOK, promiseQueue[o] # << >>,
           promiseQueue' = [promiseQueue EXCEPT ![o] = Tail(@)]
    PROVE  /\ promiseQueue' \in [Callers -> Seq(D!ApiCall)]
           /\ Head(promiseQueue[o]) = promiseQueue[o][1] /\ 1 \in 1..Len(promiseQueue[o])
           /\ Head(promiseQueue[o]) \in D!ApiCall
           /\ \A i \in 1..Len(promiseQueue'[o]) :
                  /\ i + 1 \in 1..Len(promiseQueue[o])
                  /\ i + 1 # 1
                  /\ promiseQueue'[o][i] = promiseQueue[o][i + 1]
           /\ \A p \in Callers : p # o => promiseQueue'[p] = promiseQueue[p]
  <1> DEFINE q == promiseQueue[o]
  <1>1. q \in Seq(D!ApiCall) /\ q # << >> /\ promiseQueue'[o] = Tail(q)
    BY DEF D!PromiseTypeOK
  <1>2. Tail(q) \in Seq(D!ApiCall) /\ Head(q) = q[1] /\ Head(q) \in D!ApiCall /\ 1 \in 1..Len(q)
    BY <1>1
  <1>3. \A i \in 1..Len(Tail(q)) : i + 1 \in 1..Len(q) /\ i + 1 # 1 /\ Tail(q)[i] = q[i + 1]
    BY <1>1
  <1>4. QED
    BY <1>1, <1>2, <1>3 DEF D!PromiseTypeOK

\* A block of a promise's queue is one of then: with a caller or one of resolve: with a result.
LEMMA ApiCallParts ==
    ASSUME NEW call \in D!ApiCall
    PROVE  /\ call.op = "then" => call.block \in Callers
           /\ call.op = "resolve" => call.value \in Results
  <1>1. CASE \E b \in Callers : call = D!ThenCall(b)
    BY <1>1 DEF D!ThenCall
  <1>2. CASE \E v \in Results : call = D!ResolveCall(v)
    BY <1>2 DEF D!ResolveCall
  <1>3. QED
    BY <1>1, <1>2 DEF D!ApiCall

\* The block of a then: keeps the invariant.
LEMMA RunThenInv ==
    ASSUME NEW o \in Callers, D!PromiseTypeOK, ResolvedOnce, D!RunThen(o),
           UNCHANGED << deferred, pc >>
    PROVE  D!PromiseTypeOK' /\ ResolvedOnce'
  <1>1. /\ promiseQueue[o] # << >> /\ promiseQueue' = [promiseQueue EXCEPT ![o] = Tail(@)]
        /\ UNCHANGED << promiseState, promiseValue, calls >>
        /\ Head(promiseQueue[o]).op = "then"
        /\ D!ProcessBlocks(o, promiseState[o],
                           Append(thenBlocks[o], Head(promiseQueue[o]).block))
    BY DEF D!RunThen
  <1>2. Head(promiseQueue[o]).block \in Callers
    BY <1>1, DequeueEffect, ApiCallParts
  <1>3. Append(thenBlocks[o], Head(promiseQueue[o]).block) \in Seq(Callers)
    BY <1>2 DEF D!PromiseTypeOK
  <1>4. D!PromiseTypeOK'
    BY <1>1, <1>3, DequeueEffect, ProcessBlocksType DEF D!PromiseTypeOK
  <1>5. ResolvedOnce'
    BY <1>1, DequeueEffect DEF ResolvedOnce, Unresolved
  <1>6. QED
    BY <1>4, <1>5

\* The block of a resolve: keeps the invariant.
LEMMA RunResolveInv ==
    ASSUME NEW o \in Callers, D!PromiseTypeOK, ResolvedOnce, D!RunResolve(o),
           UNCHANGED << deferred, pc >>
    PROVE  D!PromiseTypeOK' /\ ResolvedOnce'
  <1>1. /\ promiseQueue[o] # << >> /\ promiseQueue' = [promiseQueue EXCEPT ![o] = Tail(@)]
        /\ promiseState' = [promiseState EXCEPT ![o] = "Resolved"]
        /\ promiseValue' = [promiseValue EXCEPT ![o] = << Head(promiseQueue[o]).value >>]
        /\ UNCHANGED calls
        /\ Head(promiseQueue[o]).op = "resolve"
        /\ D!ProcessBlocks(o, "Resolved", thenBlocks[o])
    BY DEF D!RunResolve
  <1>2. Head(promiseQueue[o]).value \in Results
    BY <1>1, DequeueEffect, ApiCallParts
  <1>3. thenBlocks[o] \in Seq(Callers)
    BY DEF D!PromiseTypeOK
  <1>4. D!PromiseTypeOK'
    <2>1. promiseState' \in [Callers -> {"Pending", "Resolved"}]
      BY <1>1 DEF D!PromiseTypeOK
    <2>2. promiseValue' \in [Callers -> {D!NoValue} \cup { << v >> : v \in Results }]
      BY <1>1, <1>2 DEF D!PromiseTypeOK
    <2>3. QED
      BY <1>1, <1>3, <2>1, <2>2, DequeueEffect, ProcessBlocksType DEF D!PromiseTypeOK
  <1>5. ~Unresolved(o)
    BY <1>1, DequeueEffect DEF Unresolved
  <1>6. \A i \in 1..Len(promiseQueue'[o]) : promiseQueue'[o][i].op = "then"
    <2>1. 1 \in 1..Len(promiseQueue[o]) /\ promiseQueue[o][1].op = "resolve"
      BY <1>1, DequeueEffect
    <2>2. \A j \in 1..Len(promiseQueue[o]) : j # 1 => promiseQueue[o][j].op = "then"
      BY <2>1 DEF ResolvedOnce
    <2>3. \A i \in 1..Len(promiseQueue'[o]) :
              /\ i + 1 \in 1..Len(promiseQueue[o]) /\ i + 1 # 1
              /\ promiseQueue'[o][i] = promiseQueue[o][i + 1]
      BY <1>1, DequeueEffect
    <2>4. QED
      BY <2>2, <2>3
  <1>7. \A p \in Callers : p # o => /\ promiseQueue'[p] = promiseQueue[p]
                                    /\ promiseState'[p] = promiseState[p]
    BY <1>1, DequeueEffect DEF D!PromiseTypeOK
  <1>8. ResolvedOnce'
    BY <1>5, <1>6, <1>7 DEF ResolvedOnce, Unresolved
  <1>9. QED
    BY <1>4, <1>8

\* The call of a completion block keeps the invariant.
LEMMA RunCompletionInv ==
    ASSUME D!PromiseTypeOK, ResolvedOnce, D!RunCompletion, UNCHANGED << deferred, pc >>
    PROVE  D!PromiseTypeOK' /\ ResolvedOnce'
  <1>1. PICK i \in 1..Len(completionQueue) :
            /\ completionQueue' = D!RemoveAt(completionQueue, i)
            /\ calls' = [calls EXCEPT ![completionQueue[i][2]] =
                             Append(@, promiseValue[completionQueue[i][1]])]
            /\ UNCHANGED << promiseQueue, promiseState, promiseValue, thenBlocks >>
    BY DEF D!RunCompletion
  <1>2. completionQueue \in Seq(Callers \X Callers) /\ completionQueue[i] \in Callers \X Callers
    BY DEF D!PromiseTypeOK
  <1>3. completionQueue' \in Seq(Callers \X Callers)
    <2>1. /\ SubSeq(completionQueue, 1, i - 1) \in Seq(Callers \X Callers)
          /\ SubSeq(completionQueue, i + 1, Len(completionQueue)) \in Seq(Callers \X Callers)
      BY <1>2
    <2>2. QED
      BY <1>1, <2>1 DEF D!RemoveAt
  <1>4. calls' \in [Callers -> Seq({D!NoValue} \cup { << v >> : v \in Results })]
    <2> DEFINE Received == {D!NoValue} \cup { << v >> : v \in Results }
               b == completionQueue[i][2]
               v == promiseValue[completionQueue[i][1]]
    <2>1. b \in Callers /\ v \in Received /\ calls \in [Callers -> Seq(Received)]
      BY <1>2 DEF D!PromiseTypeOK
    <2>2. calls' = [calls EXCEPT ![b] = Append(calls[b], v)]
      BY <1>1
    <2> HIDE DEF Received, b, v
    <2>3. Append(calls[b], v) \in Seq(Received)
      BY <2>1
    <2>4. calls' \in [Callers -> Seq(Received)]
      BY <2>1, <2>2, <2>3
    <2>5. QED
      BY <2>4 DEF Received
  <1>5. D!PromiseTypeOK'
    BY <1>1, <1>3, <1>4 DEF D!PromiseTypeOK
  <1>6. ResolvedOnce'
    BY <1>1 DEF ResolvedOnce, Unresolved
  <1>7. QED
    BY <1>5, <1>6

\* The steps of the promises keep the invariant.
LEMMA RunPromisesInv ==
    ASSUME CoreInv, RunPromises PROVE CoreInv'
  <1> USE DEF CoreInv
  <1>1. /\ UNCHANGED << fields, runVars, timerVars, callerVars, cancelled >>
        /\ D!RunQueues
    BY DEF RunPromises
  <1>2. D!PromiseTypeOK' /\ ResolvedOnce' /\ aborted' = "no"
    <2>1. CASE D!RunCompletion
      BY <1>1, <2>1, RunCompletionInv DEF D!RunCompletion, fields, callerVars
    <2>2. ASSUME NEW o \in Callers, D!RunThen(o)
          PROVE  D!PromiseTypeOK' /\ ResolvedOnce' /\ aborted' = "no"
      BY <1>1, <2>2, RunThenInv DEF D!RunThen, fields, callerVars
    <2>3. ASSUME NEW o \in Callers, D!RunResolve(o)
          PROVE  D!PromiseTypeOK' /\ ResolvedOnce' /\ aborted' = "no"
      BY <1>1, <2>3, RunResolveInv DEF D!RunResolve, fields, callerVars
    <2>4. ASSUME NEW o \in Callers, D!RunSecondResolve(o) PROVE FALSE
      <3>1. promiseQueue[o] \in Seq(D!ApiCall) /\ promiseQueue[o] # << >>
        BY <2>4 DEF D!RunSecondResolve, D!PromiseTypeOK
      <3>2. 1 \in 1..Len(promiseQueue[o]) /\ promiseQueue[o][1].op = "resolve"
        BY <2>4, <3>1 DEF D!RunSecondResolve
      <3>3. QED
        BY <2>4, <3>2 DEF D!RunSecondResolve, ResolvedOnce
    <2>5. QED
      BY <1>1, <2>1, <2>2, <2>3, <2>4 DEF D!RunQueues, D!RunSyncQueue
  <1>3. RetryTypeOK'
    BY <1>1 DEF RetryTypeOK, fields, runVars, timerVars, callerVars
  <1>4. FieldsFit' /\ OnlyKnownAborts' /\ OneTimerMatches' /\ CancelShows' /\ RetriesLeft'
    BY <1>1, <1>2 DEF FieldsFit, OnlyKnownAborts, OneTimerMatches, CancelShows, RetriesLeft,
       fields, runVars, timerVars
  <1>5. CurrentRun'
    BY <1>1 DEF CurrentRun, fields, runVars
  <1>6. NothingAhead'
    BY <1>1, RunsType DEF NothingAhead, fields, runVars, timerVars, callerVars
  <1>7. QED
    BY <1>2, <1>3, <1>4, <1>5, <1>6

---------------------------------------------------------------------------
(* The core of the invariant is inductive.                                 *)

\* Every step keeps the invariant.
LEMMA CoreStep == CoreInv /\ [Next]_vars => CoreInv'
  <1> SUFFICES ASSUME CoreInv, [Next]_vars PROVE CoreInv'
    OBVIOUS
  <1>1. ASSUME NEW c \in Callers, Start(c) PROVE CoreInv'
    BY <1>1, BeginInv, JoinInv DEF Start
  <1>2. ASSUME NEW c \in Callers, StartReturn(c) PROVE CoreInv'
    BY <1>2, StartReturnInv
  <1>3. ASSUME NEW id \in Callers, CancelDelay(id) PROVE CoreInv'
    BY <1>3, CancelDelayInv
  <1>4. ASSUME NEW id \in Callers, CancelActive(id) PROVE CoreInv'
    BY <1>4, CancelActiveInv
  <1>5. ASSUME NEW r \in Runs, RunStep(r) PROVE CoreInv'
    BY <1>5, RunActionInv, ContinuationInv, HandleContinuationInv, RunPolicyInv,
       HandleDecisionInv DEF RunStep, Report
  <1>6. ASSUME NEW r \in Runs, TimerStep(r) PROVE CoreInv'
    BY <1>6, TimerStepInv
  <1>7. CASE RunPromises
    BY <1>7, RunPromisesInv
  <1>8. CASE Release
    BY <1>8, ReleaseInv
  <1>9. CASE UNCHANGED vars
    <2> USE <1>9 DEF vars, fields, runVars, timerVars, callerVars, promiseVars, CoreInv
    <2>1. RetryTypeOK' /\ OnlyKnownAborts'
      BY DEF RetryTypeOK, OnlyKnownAborts
    <2>2. D!PromiseTypeOK' /\ ResolvedOnce'
      BY DEF D!PromiseTypeOK, ResolvedOnce, Unresolved
    <2>3. FieldsFit' /\ CurrentRun' /\ RetriesLeft' /\ OneTimerMatches' /\ CancelShows'
      BY DEF FieldsFit, CurrentRun, RetriesLeft, OneTimerMatches, CancelShows
    <2>4. NothingAhead'
      BY RunsType DEF NothingAhead
    <2>5. QED
      BY <2>1, <2>2, <2>3, <2>4
  <1>10. QED
    BY <1>1, <1>2, <1>3, <1>4, <1>5, <1>6, <1>7, <1>8, <1>9 DEF Next

---------------------------------------------------------------------------
(* The history of the runs: what is remembered of those that are over.     *)

\* The run before a run.
LEMMA BeforeType ==
    ASSUME NEW r \in Runs, Attempt(r) > 1
    PROVE  /\ Before(r) \in Runs /\ Before(r) # r
           /\ Operation(Before(r)) = Operation(r) /\ Attempt(Before(r)) = Attempt(r) - 1
  <1>1. Operation(r) \in Callers /\ Attempt(r) - 1 \in 1..MaxRuns /\ Attempt(r) # Attempt(r) - 1
    BY RunsType
  <1>2. QED
    BY <1>1, RunsType DEF Before

LEMMA InitHistory == Init => HistoryInv
  <1> SUFFICES ASSUME Init PROVE HistoryInv
    OBVIOUS
  <1>1. DelaysFit /\ PolicyAsked /\ CancelIsKnown
    BY RunsType DEF Init, DelaysFit, DelayHandedOn, PolicyAsked, RetriesOnlyAfterPolicy, CancelIsKnown
  <1>2. ValueIsResolved
    BY DEF Init, D!InitPromises, D!NoValue, ValueIsResolved
  <1>3. \A o \in Callers : Settlements(o) = {}
    BY DEF Init, D!InitPromises, D!NoValue, Settlements
  <1>4. QED
    BY <1>1, <1>2, <1>3 DEF HistoryInv, ResultsAreTrue

---------------------------------------------------------------------------
(* The results of an operation.                                            *)

\* The two kinds of block on a promise's queue.
LEMMA CallKinds ==
    /\ \A c \in Callers : D!ThenCall(c) \in D!ApiCall /\ D!ThenCall(c).op = "then"
    /\ \A v \in Results : D!ResolveCall(v) \in D!ApiCall /\ D!ResolveCall(v).op = "resolve"
    /\ \A v \in Results, c \in Callers : D!ResolveCall(v) # D!ThenCall(c)
    /\ \A v, w \in Results : D!ResolveCall(v) = D!ResolveCall(w) => v = w
    /\ \A b, c \in Callers : D!ThenCall(b) = D!ThenCall(c) => b = c
  <1>1. \A c \in Callers : D!ThenCall(c).op = "then" /\ D!ThenCall(c).block = c
    BY DEF D!ThenCall
  <1>2. \A v \in Results : D!ResolveCall(v).op = "resolve" /\ D!ResolveCall(v).value = v
    BY DEF D!ResolveCall
  <1>3. \A c \in Callers : D!ThenCall(c) \in D!ApiCall
    BY DEF D!ApiCall
  <1>4. \A v \in Results : D!ResolveCall(v) \in D!ApiCall
    BY DEF D!ApiCall
  <1>5. "then" # "resolve"
    OBVIOUS
  <1>6. QED
    BY <1>1, <1>2, <1>3, <1>4, <1>5

\* An operation that goes on, or whose call was not made, has none.
LEMMA NotSettled ==
    ASSUME CoreInv, HistoryInv, NEW o \in Callers, deferred = o \/ pc[o] = "idle"
    PROVE  Settlements(o) = {}
  <1>1. Unresolved(o)
    BY DEF CoreInv, ResolvedOnce
  <1>2. promiseValue[o] = << >>
    BY <1>1 DEF HistoryInv, ValueIsResolved, Unresolved
  <1>3. \A v \in Results : << v >> # << >>
    OBVIOUS
  <1>4. \A v \in Results : D!ResolveCall(v).op # "then"
    BY CallKinds
  <1>5. QED
    BY <1>1, <1>2, <1>3, <1>4 DEF Settlements, Unresolved

\* A block put on a promise's queue.
LEMMA EnqueueSettles ==
    ASSUME NEW o \in Callers, NEW call \in D!ApiCall, D!PromiseTypeOK, D!Enqueue(o, call),
           NEW p \in Callers
    PROVE  Settlements(p)' = Settlements(p) \cup { v \in Results : p = o /\ call = D!ResolveCall(v) }
  <1>1. /\ promiseQueue' = [promiseQueue EXCEPT ![o] = Append(@, call)]
        /\ promiseValue' = promiseValue
    BY DEF D!Enqueue
  <1>2. CASE p # o
    <2>1. promiseQueue'[p] = promiseQueue[p]
      BY <1>1, <1>2 DEF D!PromiseTypeOK
    <2>2. QED
      BY <1>1, <1>2, <2>1 DEF Settlements
  <1>3. CASE p = o
    <2> DEFINE q == promiseQueue[o]
    <2>1. q \in Seq(D!ApiCall) /\ promiseQueue'[o] = Append(q, call)
      BY <1>1 DEF D!PromiseTypeOK
    <2> HIDE DEF q
    <2>2. /\ Len(q) \in Nat /\ Len(Append(q, call)) = Len(q) + 1
          /\ \A i \in 1..Len(q) : Append(q, call)[i] = q[i]
          /\ Append(q, call)[Len(q) + 1] = call
      BY <2>1
    <2>3. /\ 1..Len(q) \subseteq 1..Len(q) + 1 /\ Len(q) + 1 \in 1..Len(q) + 1
          /\ \A i \in 1..Len(q) + 1 : i \in 1..Len(q) \/ i = Len(q) + 1
      BY <2>2
    <2>4. ASSUME NEW v \in Results
          PROVE  (\E i \in 1..Len(promiseQueue'[o]) : promiseQueue'[o][i] = D!ResolveCall(v))
                   <=> \/ \E i \in 1..Len(q) : q[i] = D!ResolveCall(v)
                       \/ call = D!ResolveCall(v)
      BY <2>1, <2>2, <2>3
    <2>5. QED
      BY <1>1, <1>3, <2>4 DEF Settlements, q
  <1>4. QED
    BY <1>2, <1>3

LEMMA ThenSettles ==
    ASSUME NEW o \in Callers, NEW c \in Callers, D!PromiseTypeOK, D!Then(o, c), NEW p \in Callers
    PROVE  Settlements(p)' = Settlements(p)
  <1>1. /\ D!ThenCall(c) \in D!ApiCall /\ D!Enqueue(o, D!ThenCall(c))
        /\ { v \in Results : p = o /\ D!ThenCall(c) = D!ResolveCall(v) } = {}
    BY CallKinds DEF D!Then
  <1>2. QED
    BY SMTT(30), <1>1, EnqueueSettles

LEMMA ResolveSettles ==
    ASSUME NEW o \in Callers, NEW v \in Results, D!PromiseTypeOK, D!Resolve(o, v), NEW p \in Callers
    PROVE  Settlements(p)' = Settlements(p) \cup (IF p = o THEN {v} ELSE {})
  <1>1. D!ResolveCall(v) \in D!ApiCall /\ D!Enqueue(o, D!ResolveCall(v))
    BY CallKinds DEF D!Resolve
  <1>2. { w \in Results : p = o /\ D!ResolveCall(v) = D!ResolveCall(w) } =
            IF p = o THEN {v} ELSE {}
    BY CallKinds
  <1>3. QED
    BY <1>1, <1>2, EnqueueSettles

\* The queues only move a result from the block of `resolve:' to the promise.
LEMMA QueuesSettle ==
    ASSUME CoreInv, HistoryInv, D!RunQueues
    PROVE  ValueIsResolved' /\ \A p \in Callers : Settlements(p)' = Settlements(p)
  <1> USE DEF CoreInv, HistoryInv
  <1>1. CASE D!RunCompletion
    BY <1>1 DEF D!RunCompletion, ValueIsResolved, Settlements
  <1>2. ASSUME NEW o \in Callers, D!RunThen(o) \/ D!RunResolve(o)
        PROVE  ValueIsResolved' /\ \A p \in Callers : Settlements(p)' = Settlements(p)
    <2> DEFINE q == promiseQueue[o]
    <2>1. promiseQueue[o] # << >> /\ promiseQueue' = [promiseQueue EXCEPT ![o] = Tail(@)]
      BY <1>2 DEF D!RunThen, D!RunResolve
    <2>2. /\ Head(q) = q[1] /\ 1 \in 1..Len(q) /\ Head(q) \in D!ApiCall
          /\ \A i \in 1..Len(promiseQueue'[o]) :
                 i + 1 \in 1..Len(q) /\ promiseQueue'[o][i] = q[i + 1]
          /\ \A p \in Callers : p # o => promiseQueue'[p] = promiseQueue[p]
      BY <2>1, DequeueEffect
    <2>3. \A i \in 1..Len(q) : i # 1 => i - 1 \in 1..Len(promiseQueue'[o])
                                        /\ promiseQueue'[o][i - 1] = q[i]
      <3>1. q \in Seq(D!ApiCall) /\ q # << >> /\ promiseQueue'[o] = Tail(q)
        BY <2>1 DEF D!PromiseTypeOK
      <3> HIDE DEF q
      <3>2. Len(q) \in Nat /\ Len(Tail(q)) = Len(q) - 1
        BY <3>1
      <3>3. \A i \in 1..Len(q) : i # 1 => i - 1 \in 1..Len(Tail(q)) /\ (i - 1) + 1 = i
        BY <3>2
      <3>4. QED
        BY <2>2, <3>1, <3>3
    <2>4. CASE D!RunThen(o)
      <3>1. Head(q).op = "then" /\ UNCHANGED << promiseState, promiseValue >>
        BY <2>4 DEF D!RunThen
      <3>2. \A v \in Results : q[1] # D!ResolveCall(v)
        BY <2>2, <3>1, CallKinds
      <3>3. ASSUME NEW v \in Results
            PROVE  (\E i \in 1..Len(promiseQueue'[o]) : promiseQueue'[o][i] = D!ResolveCall(v))
                     <=> \E i \in 1..Len(q) : q[i] = D!ResolveCall(v)
        <4>1. ASSUME NEW i \in 1..Len(promiseQueue'[o]), promiseQueue'[o][i] = D!ResolveCall(v)
              PROVE  \E j \in 1..Len(q) : q[j] = D!ResolveCall(v)
          BY <2>2, <4>1
        <4>2. ASSUME NEW i \in 1..Len(q), q[i] = D!ResolveCall(v)
              PROVE  \E j \in 1..Len(promiseQueue'[o]) : promiseQueue'[o][j] = D!ResolveCall(v)
          <5>1. i # 1
            BY <3>2, <4>2
          <5>2. QED
            BY <2>3, <4>2, <5>1
        <4>3. QED
          BY <4>1, <4>2
      <3>4. Settlements(o)' = Settlements(o)
        BY <3>1, <3>3 DEF Settlements
      <3>5. ASSUME NEW p \in Callers, p # o PROVE Settlements(p)' = Settlements(p)
        BY <2>2, <3>1, <3>5 DEF Settlements
      <3>6. QED
        BY <3>1, <3>4, <3>5 DEF ValueIsResolved
    <2>5. CASE D!RunResolve(o)
      <3>1. /\ Head(q).op = "resolve" /\ promiseState[o] = "Pending"
            /\ promiseState' = [promiseState EXCEPT ![o] = "Resolved"]
            /\ promiseValue' = [promiseValue EXCEPT ![o] = << Head(q).value >>]
        BY <2>5 DEF D!RunResolve
      <3>2. promiseValue[o] = << >>
        BY <3>1 DEF ValueIsResolved
      <3>3. PICK w \in Results : Head(q) = D!ResolveCall(w) /\ Head(q).value = w
        <4>1. \A c \in Callers : Head(q) # D!ThenCall(c)
          BY <3>1, CallKinds
        <4>2. \E w \in Results : Head(q) = D!ResolveCall(w)
          BY <2>2, <4>1 DEF D!ApiCall
        <4>3. \A w \in Results : D!ResolveCall(w).value = w
          BY DEF D!ResolveCall
        <4>4. QED
          BY <4>2, <4>3
      <3>4. promiseValue'[o] = << w >> /\ promiseState'[o] = "Resolved"
        BY <3>1, <3>3 DEF D!PromiseTypeOK
      <3>5. \A p \in Callers : p # o => promiseValue'[p] = promiseValue[p]
                                        /\ promiseState'[p] = promiseState[p]
        BY <3>1 DEF D!PromiseTypeOK
      <3>6. Settlements(o) = {w}
        <4>1. \A v \in Results : promiseValue[o] # << v >>
          BY <3>2
        <4>2. \A j \in 1..Len(q) : j # 1 => q[j].op = "then"
          BY <2>2, <3>1 DEF ResolvedOnce
        <4>3. \A j \in 1..Len(q), v \in Results : q[j] = D!ResolveCall(v) => v = w
          BY <2>2, <3>3, <4>2, CallKinds
        <4>4. QED
          BY <2>2, <3>3, <4>1, <4>3 DEF Settlements
      <3>7. Settlements(o)' = {w}
        <4>1. \A i \in 1..Len(promiseQueue'[o]) : promiseQueue'[o][i].op = "then"
          <5>1. \A j \in 1..Len(q) : j # 1 => q[j].op = "then"
            BY <2>2, <3>1 DEF ResolvedOnce
          <5>2. \A i \in 1..Len(promiseQueue'[o]) : i + 1 # 1
            BY <2>1, DequeueEffect
          <5>3. QED
            BY <2>2, <5>1, <5>2
        <4>2. \A i \in 1..Len(promiseQueue'[o]), v \in Results :
                  promiseQueue'[o][i] # D!ResolveCall(v)
          BY <4>1, CallKinds
        <4>3. \A v \in Results : << w >> = << v >> <=> v = w
          OBVIOUS
        <4>4. QED
          BY <3>4, <4>2, <4>3 DEF Settlements
      <3>8. ASSUME NEW p \in Callers, p # o PROVE Settlements(p)' = Settlements(p)
        BY <2>2, <3>5, <3>8 DEF Settlements
      <3>9. ValueIsResolved'
        BY <3>4, <3>5 DEF ValueIsResolved
      <3>10. QED
        BY <3>6, <3>7, <3>8, <3>9
    <2>6. QED
      BY <1>2, <2>4, <2>5
  <1>3. CASE \E o \in Callers : D!RunSecondResolve(o)
    BY <1>3 DEF D!RunSecondResolve, D!promiseVars, ValueIsResolved, Settlements
  <1>4. QED
    BY <1>1, <1>2, <1>3 DEF D!RunQueues, D!RunSyncQueue

---------------------------------------------------------------------------
(* The history of the runs: one lemma for each way a step can change it.   *)

\* A run under way is the current one's, and never the one before another run.
LEMMA UnderWay ==
    ASSUME CoreInv, HistoryInv, NEW r \in Runs, at[r] \notin {"none", "done"}
    PROVE  /\ state # "Idle" /\ Operation(r) = identifier /\ deferred = identifier
           /\ identifier \in Callers
           /\ \A s \in Runs : s # r => at[s] \in {"none", "done"}
           /\ \A s \in Runs : at[s] # "none" /\ Attempt(s) > 1 => Before(s) # r
  <1>1. state # "Idle" /\ r = << identifier, attempt >>
    BY DEF CoreInv, CurrentRun
  <1>2. Operation(r) = identifier
    BY <1>1 DEF Operation
  <1>3. \A s \in Runs : s # r => at[s] \in {"none", "done"}
    BY <1>1 DEF CoreInv, CurrentRun
  <1>4. \A s \in Runs : at[s] # "none" /\ Attempt(s) > 1 => Before(s) # r
    BY DEF HistoryInv, PolicyAsked, RetriesOnlyAfterPolicy, Before
  <1>5. QED
    BY <1>1, <1>2, <1>3, <1>4 DEF CoreInv, FieldsFit

\* A run moves on, or ends.
LEMMA MoveHistory ==
    ASSUME CoreInv, HistoryInv, NEW r \in Runs, NEW stage \in Stages \ {"none"},
           at[r] \notin {"none", "done"},
           at' = [at EXCEPT ![r] = stage],
           \A s \in Runs : s # r => /\ outcome'[s] = outcome[s] /\ offered'[s] = offered[s]
                                    /\ chosen'[s] = chosen[s] /\ response'[s] = response[s],
           stage \in {"queued", "running", "reported"} =>
               currentDelay' = currentDelay /\ at[r] \in {"queued", "running", "reported"},
           stage \in {"policy", "decided", "delayed"} =>
               /\ outcome'[r] = "transient"
               /\ \/ at[r] = "reported" /\ offered'[r] = currentDelay
                  \/ at[r] \in {"policy", "decided"} /\ offered'[r] = offered[r],
           stage = "reported" => outcome'[r] # "none",
           stage = "decided" => response'[r] \in {"retry", "stop"},
           stage = "delayed" => response'[r] = "retry" /\ currentDelay' = chosen'[r],
           state' = "Idle" => currentDelay' = Delay
    PROVE  DelaysFit' /\ PolicyAsked'
  <1> USE DEF CoreInv, HistoryInv
  <1>1. /\ \A s \in Runs : s # r => at'[s] = at[s] /\ at[s] \in {"none", "done"}
        /\ at'[r] = stage
        /\ \A s \in Runs : at[s] # "none" /\ Attempt(s) > 1 => Before(s) # r
    BY UnderWay DEF RetryTypeOK
  <1>2. ASSUME NEW s \in Runs, at'[s] # "none", Attempt(s) > 1
        PROVE  /\ Before(s) \in Runs /\ Before(s) # r
               /\ at'[Before(s)] = "done" /\ outcome'[Before(s)] = "transient"
               /\ response'[Before(s)] = "retry" /\ chosen'[Before(s)] = chosen[Before(s)]
    <2>1. at[s] # "none" /\ Before(s) \in Runs /\ Before(s) # r
      BY <1>1, <1>2, BeforeType
    <2>2. /\ at[Before(s)] = "done" /\ outcome[Before(s)] = "transient"
          /\ response[Before(s)] = "retry"
      BY <1>2, <2>1 DEF PolicyAsked, RetriesOnlyAfterPolicy, Before
    <2>3. QED
      BY <1>1, <2>1, <2>2
  <1>3. RetriesOnlyAfterPolicy'
    BY <1>2 DEF RetriesOnlyAfterPolicy, Before
  <1>4. PolicyAsked'
    BY <1>1, <1>3 DEF PolicyAsked
  <1>5. Attempt(r) = 1 \/ Attempt(r) > 1
    BY RunsType
  <1>6. at[r] \in {"queued", "running", "reported"} =>
            IF Attempt(r) = 1 THEN AfterAnother(r) => currentDelay = Delay
            ELSE currentDelay = chosen[Before(r)]
    BY DEF DelaysFit, CurrentDelayFits
  <1>7. at[r] \in {"policy", "decided", "delayed"} =>
            IF Attempt(r) = 1 THEN AfterAnother(r) => offered[r] = Delay
            ELSE offered[r] = chosen[Before(r)]
    BY <1>5 DEF DelaysFit, DelayHandedOn, Before
  <1>8. Attempt(r) # 1 => chosen'[Before(r)] = chosen[Before(r)]
    BY <1>1, <1>2, <1>5
  <1>9. stage \in {"policy", "decided", "delayed"} =>
            IF Attempt(r) = 1 THEN AfterAnother(r) => offered'[r] = Delay
            ELSE offered'[r] = chosen'[Before(r)]
    BY <1>6, <1>7, <1>8
  <1>10. AfterAnother(r)' <=> AfterAnother(r)
    BY <1>1 DEF AfterAnother
  <1>11. DelayHandedOn'
    <2> SUFFICES ASSUME NEW s \in Runs, at'[s] \in {"policy", "decided", "delayed"}
                 PROVE  /\ Attempt(s) > 1 => offered'[s] = chosen'[Before(s)]
                        /\ Attempt(s) = 1 /\ AfterAnother(s)' => offered'[s] = Delay
      BY DEF DelayHandedOn, Before
    <2>1. s = r
      BY <1>1
    <2>2. QED
      BY <1>1, <1>5, <1>9, <1>10, <2>1
  <1>12. stage \in {"queued", "running", "reported"} => CurrentDelayFits(r)'
    BY <1>6, <1>8, <1>10 DEF CurrentDelayFits
  <1>13. DelaysFit'
    BY <1>1, <1>11, <1>12 DEF DelaysFit
  <1>14. QED
    BY <1>4, <1>13

\* A run begins: the first of an operation, or the next one after a delay.
LEMMA BeginHistory ==
    ASSUME CoreInv, HistoryInv, NEW r \in Runs, NEW stages \in [Runs -> Stages],
           at[r] = "none", stages[r] = "none",
           \A s \in Runs : Attempt(s) > 1 /\ Before(s) = r => at[s] = "none",
           \A s \in Runs : stages[s] = at[s] \/ (at[s] = "delayed" /\ stages[s] = "done"),
           \A s \in Runs : stages[s] \in {"none", "done"},
           at' = [stages EXCEPT ![r] = "queued"],
           UNCHANGED << currentDelay, outcome, offered, chosen, response >>,
           IF Attempt(r) = 1 THEN AfterAnother(r) => currentDelay = Delay
           ELSE /\ at[Before(r)] = "delayed" /\ stages[Before(r)] = "done"
                /\ currentDelay = chosen[Before(r)],
           state' # "Idle"
    PROVE  DelaysFit' /\ PolicyAsked'
  <1> USE DEF CoreInv, HistoryInv
  <1>1. at'[r] = "queued" /\ \A s \in Runs : s # r => at'[s] = stages[s] /\ at'[s] \in {"none", "done"}
    BY DEF Stages
  <1>2. ASSUME NEW s \in Runs, at'[s] # "none", Attempt(s) > 1
        PROVE  /\ at'[Before(s)] = "done" /\ outcome[Before(s)] = "transient"
               /\ response[Before(s)] = "retry"
    <2>1. Before(s) \in Runs /\ Before(s) # s
      BY <1>2, BeforeType
    <2>2. CASE s = r
      <3>1. at[Before(r)] = "delayed" /\ stages[Before(r)] = "done"
        BY <1>2, <2>2
      <3>2. QED
        BY <1>1, <2>1, <2>2, <3>1 DEF PolicyAsked
    <2>3. CASE s # r
      <3>1. at[s] # "none"
        BY <1>1, <1>2, <2>3
      <3>2. /\ at[Before(s)] = "done" /\ outcome[Before(s)] = "transient"
            /\ response[Before(s)] = "retry"
        BY <1>2, <3>1 DEF PolicyAsked, RetriesOnlyAfterPolicy, Before
      <3>3. Before(s) # r
        BY <1>2, <3>1
      <3>4. stages[Before(s)] = "done"
        BY <2>1, <3>2
      <3>5. QED
        BY <1>1, <2>1, <3>2, <3>3, <3>4
    <2>4. QED
      BY <2>2, <2>3
  <1>3. RetriesOnlyAfterPolicy'
    BY <1>2 DEF RetriesOnlyAfterPolicy, Before
  <1>4. PolicyAsked'
    BY <1>1, <1>3 DEF PolicyAsked
  <1>5. DelayHandedOn'
    BY <1>1 DEF DelayHandedOn
  <1>6. AfterAnother(r)' => AfterAnother(r)
    BY <1>1 DEF AfterAnother
  <1>7. CurrentDelayFits(r)'
    BY <1>6 DEF CurrentDelayFits
  <1>8. DelaysFit'
    BY <1>1, <1>5, <1>7 DEF DelaysFit
  <1>9. QED
    BY <1>4, <1>8

\* Nothing happens to the runs.
LEMMA SameHistory ==
    ASSUME CoreInv, HistoryInv,
           UNCHANGED << at, outcome, offered, chosen, response, currentDelay >>,
           state' = "Idle" => state = "Idle"
    PROVE  DelaysFit' /\ PolicyAsked'
  <1>1. RetriesOnlyAfterPolicy' /\ DelayHandedOn'
    BY DEF HistoryInv, PolicyAsked, DelaysFit, RetriesOnlyAfterPolicy, DelayHandedOn, AfterAnother
  <1>2. QED
    BY <1>1 DEF HistoryInv, PolicyAsked, DelaysFit, CurrentDelayFits, AfterAnother

---------------------------------------------------------------------------
(* The results: one lemma for each way a step can change them.             *)

\* No operation but the current one is touched, and that goes on.
LEMMA SameResults ==
    ASSUME CoreInv, HistoryInv,
           \A o \in Callers : Settlements(o)' = Settlements(o),
           \A o \in Callers : o # identifier => (o \in cancelled' <=> o \in cancelled),
           \A s \in Runs : Operation(s) # identifier /\ pc[Operation(s)] # "idle" =>
               at'[s] = at[s] /\ outcome'[s] = outcome[s] /\ response'[s] = response[s]
    PROVE  ResultsAreTrue'
  <1> SUFFICES ASSUME NEW o \in Callers, NEW v \in Settlements(o)
               PROVE  \E r \in Runs : EndedWith(o, v, r)'
    BY DEF ResultsAreTrue
  <1>1. o # deferred /\ pc[o] # "idle"
    BY NotSettled
  <1>2. o # identifier
    BY <1>1, RetryAssumption DEF CoreInv, FieldsFit
  <1>3. PICK r \in Runs : EndedWith(o, v, r)
    BY DEF HistoryInv, ResultsAreTrue
  <1>4. \A s \in Runs : Operation(s) = o =>
            at'[s] = at[s] /\ outcome'[s] = outcome[s] /\ response'[s] = response[s]
    BY <1>1, <1>2
  <1>5. EndedWith(o, v, r)'
    BY <1>2, <1>3, <1>4 DEF EndedWith
  <1>6. QED
    BY <1>5

\* The current operation ends with the result v, after the run r.
LEMMA EndResults ==
    ASSUME CoreInv, HistoryInv, NEW r \in Runs, NEW v \in Results, state # "Idle",
           r = << identifier, attempt >>, deferred = identifier, identifier \in Callers,
           D!Resolve(deferred, v),
           at' = [at EXCEPT ![r] = "done"], UNCHANGED << outcome, response >>,
           \A o \in Callers : o # identifier => (o \in cancelled' <=> o \in cancelled),
           v = "success" <=> outcome[r] = "success",
           v = "cancelled" => identifier \in cancelled',
           v = "failure" => /\ identifier \notin cancelled'
                            /\ outcome[r] = "final" \/ response[r] = "stop"
    PROVE  ResultsAreTrue'
  <1>1. /\ at'[r] = "done" /\ \A s \in Runs : s # r => at'[s] = at[s]
        /\ Operation(r) = identifier /\ Attempt(r) = attempt
    BY DEF CoreInv, RetryTypeOK, Operation, Attempt
  <1>2. \A p \in Callers : Settlements(p)' = Settlements(p) \cup (IF p = identifier THEN {v} ELSE {})
    BY ResolveSettles DEF CoreInv
  <1>3. Settlements(identifier) = {}
    BY NotSettled
  <1>4. ASSUME NEW o \in Callers, o = identifier
        PROVE  EndedWith(o, v, r)'
    <2>1. \A s \in Runs : Operation(s) = identifier /\ Attempt(s) > Attempt(r) => at'[s] = "none"
      <3>1. \A s \in Runs : Attempt(s) > Attempt(r) => s # r
        BY RunsType
      <3>2. QED
        BY <1>1, <3>1 DEF CoreInv, NothingAhead
    <2>2. QED
      BY <1>1, <1>4, <2>1 DEF EndedWith
  <1>5. ASSUME NEW o \in Callers, NEW w \in Settlements(o)'
        PROVE  \E s \in Runs : EndedWith(o, w, s)'
    <2>1. CASE o = identifier
      BY <1>2, <1>3, <1>4, <1>5, <2>1
    <2>2. CASE o # identifier
      <3>1. w \in Settlements(o)
        BY <1>2, <1>5, <2>2
      <3>2. PICK s \in Runs : EndedWith(o, w, s)
        BY <3>1 DEF HistoryInv, ResultsAreTrue
      <3>3. \A t \in Runs : Operation(t) = o => at'[t] = at[t]
        BY <1>1, <2>2
      <3>4. EndedWith(o, w, s)'
        BY <2>2, <3>2, <3>3 DEF EndedWith
      <3>5. QED
        BY <3>4
    <2>3. QED
      BY <2>1, <2>2
  <1>6. QED
    BY <1>5 DEF ResultsAreTrue

---------------------------------------------------------------------------
(* The history: one lemma per action.                                      *)

\* Steps that touch no run, no result and no cancel.
LEMMA QuietHistory ==
    ASSUME CoreInv, HistoryInv,
           UNCHANGED << fields, runVars, cancelled, promiseVars >>
    PROVE  HistoryInv'
  <1> USE DEF fields, runVars, promiseVars
  <1>1. DelaysFit' /\ PolicyAsked'
    BY SameHistory
  <1>2. \A o \in Callers : Settlements(o)' = Settlements(o)
    BY DEF Settlements
  <1>3. ResultsAreTrue'
    BY <1>2, SameResults
  <1>4. CancelIsKnown' /\ ValueIsResolved'
    BY DEF HistoryInv, CancelIsKnown, ValueIsResolved
  <1>5. QED
    BY <1>1, <1>3, <1>4 DEF HistoryInv

LEMMA StartHistory ==
    ASSUME CoreInv, HistoryInv, NEW c \in Callers, Start(c)
    PROVE  HistoryInv'
  <1>1. \A p \in Callers : Settlements(p)' = Settlements(p) /\ promiseState'[p] = promiseState[p]
                           /\ promiseValue'[p] = promiseValue[p]
    <2>1. deferred' \in Callers
      BY DEF Start, BeginOperation, JoinOperation, RestoreOperation, CoreInv, FieldsFit
    <2>2. CASE c \in Listening
      <3>1. D!Then(deferred', c)
        BY <2>2 DEF Start
      <3>2. promiseState' = promiseState /\ promiseValue' = promiseValue
        BY <3>1 DEF D!Then, D!Enqueue
      <3>3. QED
        BY <2>1, <3>1, <3>2, ThenSettles DEF CoreInv
    <2>3. CASE c \notin Listening
      BY <2>3 DEF Start, promiseVars, Settlements
    <2>4. QED
      BY <2>2, <2>3
  <1>2. ValueIsResolved'
    BY <1>1 DEF HistoryInv, ValueIsResolved
  <1>3. CASE BeginOperation(c)
    <2> DEFINE r == << c, 1 >>
    <2>1. /\ state = "Idle" /\ attempt = 0 /\ state' = "ActiveWaiting" /\ identifier' = c
          /\ at' = [at EXCEPT ![r] = "queued"] /\ pc[c] = "idle"
          /\ UNCHANGED << currentDelay, outcome, offered, chosen, response, cancelled >>
      BY <1>3 DEF Start, BeginOperation, PerformAction, CoreInv, FieldsFit
    <2>2. r \in Runs /\ Operation(r) = c /\ Attempt(r) = 1
      BY RunsType
    <2>3. \A s \in Runs : Operation(s) = c => at[s] = "none"
      BY <2>1 DEF CoreInv, NothingAhead
    <2>4. \A s \in Runs : Attempt(s) > 1 /\ Before(s) = r => at[s] = "none"
      BY <2>2, <2>3, BeforeType
    <2>5. \A s \in Runs : at[s] \in {"none", "done"}
      BY <2>1 DEF CoreInv, CurrentRun
    <2>6. at \in [Runs -> Stages] /\ (AfterAnother(r) => currentDelay = Delay)
      BY <2>1 DEF CoreInv, RetryTypeOK, HistoryInv, DelaysFit, AfterAnother
    <2> HIDE DEF r
    <2>7. DelaysFit' /\ PolicyAsked'
      BY <2>1, <2>2, <2>3, <2>4, <2>5, <2>6, BeginHistory
    <2>8. \A s \in Runs : pc[Operation(s)] # "idle" =>
              at'[s] = at[s] /\ outcome'[s] = outcome[s] /\ response'[s] = response[s]
      BY <2>1, <2>2, <2>6
    <2>9. ResultsAreTrue'
      BY <1>1, <2>1, <2>8, SameResults
    <2>10. QED
      BY <1>2, <2>1, <2>7, <2>9 DEF HistoryInv, CancelIsKnown
  <1>4. CASE JoinOperation(c) \/ RestoreOperation(c)
    <2>1. /\ UNCHANGED << at, outcome, offered, chosen, response, currentDelay >>
          /\ state' \in {"Delay", "ActiveWaiting"}
          /\ \A o \in Callers : o # identifier => (o \in cancelled' <=> o \in cancelled)
      BY <1>4 DEF Start, JoinOperation, RestoreOperation
    <2>2. DelaysFit' /\ PolicyAsked'
      BY <2>1, SameHistory
    <2>3. ResultsAreTrue'
      BY <1>1, <2>1, SameResults
    <2>4. QED
      BY <1>2, <2>1, <2>2, <2>3 DEF HistoryInv, CancelIsKnown
  <1>5. QED
    BY <1>3, <1>4 DEF Start

LEMMA CancelHistory ==
    ASSUME CoreInv, HistoryInv, NEW id \in Callers, CancelDelay(id) \/ CancelActive(id)
    PROVE  HistoryInv'
  <1>1. CASE CancelDelay(id)
    <2> DEFINE r == timer
    <2>1. /\ state = "Delay" /\ state' = "Idle" /\ currentDelay' = Delay
          /\ r = << identifier, attempt >> /\ r \in Runs /\ r # Nil
          /\ deferred = identifier /\ identifier \in Callers /\ identifier = id
          /\ cancelled' = cancelled \cup {identifier}
          /\ at' = [at EXCEPT ![r] = "done"]
          /\ UNCHANGED << outcome, offered, chosen, response >>
          /\ ResolveDeferred("cancelled")
      BY <1>1, RunsType, NilIsNoRun
      DEF CancelDelay, MayCancel, BackToIdle, CoreInv, FieldsFit, RetryTypeOK
    <2>2. D!Resolve(deferred, "cancelled") /\ "cancelled" \in Results
      BY <2>1, RetryAssumption DEF ResolveDeferred, Results
    <2>3. at[r] = "delayed"
      BY <2>1 DEF CoreInv, CurrentRun
    <2>4. outcome[r] = "transient"
      BY <2>1, <2>3 DEF HistoryInv, PolicyAsked
    <2> HIDE DEF r
    <2>5. DelaysFit' /\ PolicyAsked'
      BY <2>1, <2>3, MoveHistory DEF Stages
    <2>6. \A o \in Callers : o # identifier => (o \in cancelled' <=> o \in cancelled)
      BY <2>1
    <2>7. ResultsAreTrue'
      BY <2>1, <2>2, <2>4, <2>6, EndResults
    <2>8. ValueIsResolved'
      BY <2>2 DEF D!Resolve, D!Enqueue, HistoryInv, ValueIsResolved
    <2>9. QED
      BY <2>1, <2>5, <2>7, <2>8 DEF HistoryInv, CancelIsKnown
  <1>2. CASE CancelActive(id)
    <2>1. /\ UNCHANGED << at, outcome, offered, chosen, response, currentDelay, identifier >>
          /\ UNCHANGED promiseVars /\ state' = "ActiveCancelling"
          /\ identifier = id /\ cancelled' = cancelled \cup {id}
      BY <1>2 DEF CancelActive, MayCancel, runVars
    <2>2. DelaysFit' /\ PolicyAsked'
      BY <2>1, SameHistory
    <2>3. /\ \A o \in Callers : Settlements(o)' = Settlements(o)
          /\ \A o \in Callers : o # identifier => (o \in cancelled' <=> o \in cancelled)
      BY <2>1 DEF Settlements, promiseVars
    <2>4. ResultsAreTrue'
      BY <2>1, <2>3, SameResults
    <2>5. ValueIsResolved' /\ CancelIsKnown'
      BY <2>1 DEF promiseVars, HistoryInv, ValueIsResolved, CancelIsKnown
    <2>6. QED
      BY <2>2, <2>4, <2>5 DEF HistoryInv
  <1>3. QED
    BY <1>1, <1>2

\* A run moves on, and no operation ends.
LEMMA MoveOnHistory ==
    ASSUME CoreInv, HistoryInv, NEW r \in Runs, at[r] \notin {"none", "done"},
           DelaysFit' /\ PolicyAsked',
           \A s \in Runs : s # r =>
               at'[s] = at[s] /\ outcome'[s] = outcome[s] /\ response'[s] = response[s],
           UNCHANGED << identifier, cancelled, promiseVars >>,
           state' = "ActiveCancelling" => state = "ActiveCancelling"
    PROVE  HistoryInv'
  <1>1. \A o \in Callers : Settlements(o)' = Settlements(o)
    BY DEF Settlements, promiseVars
  <1>2. Operation(r) = identifier
    BY UnderWay
  <1>3. ResultsAreTrue'
    BY <1>1, <1>2, SameResults
  <1>4. ValueIsResolved' /\ CancelIsKnown'
    BY DEF promiseVars, HistoryInv, ValueIsResolved, CancelIsKnown
  <1>5. QED
    BY <1>3, <1>4 DEF HistoryInv

\* handleResult with a result that ends the operation.
LEMMA TerminateHistory ==
    ASSUME CoreInv, HistoryInv, NEW r \in Runs, NEW answer, NEW nextDelay,
           at[r] \in {"reported", "decided"},
           Terminates(outcome[r], answer), HandleResult(r, outcome[r], answer, nextDelay),
           UNCHANGED << outcome, offered, chosen, response, cancelled >>,
           at[r] = "decided" => answer = response[r],
           at[r] = "reported" => IsFinal(outcome[r])
    PROVE  HistoryInv'
  <1> DEFINE v == IF outcome[r] = "success" THEN "success"
                  ELSE IF state = "ActiveCancelling" THEN "cancelled" ELSE "failure"
  <1>1. /\ state \in {"ActiveWaiting", "ActiveCancelling"}
        /\ r = << identifier, attempt >> /\ deferred = identifier /\ deferred # Nil
        /\ identifier \in Callers
    BY HandledRun
  <1>2. /\ state' = "Idle" /\ currentDelay' = Delay
        /\ at' = [at EXCEPT ![r] = "done"] /\ D!Resolve(deferred, v)
    BY <1>1 DEF HandleResult, BackToIdle, ResolveDeferred
  <1>3. DelaysFit' /\ PolicyAsked'
    BY <1>2, MoveHistory DEF Stages
  <1>4. v \in Results /\ (v = "success" <=> outcome[r] = "success")
    BY DEF Results
  <1>5. v = "cancelled" => identifier \in cancelled'
    BY DEF HistoryInv, CancelIsKnown
  <1>6. v = "failure" => /\ identifier \notin cancelled'
                         /\ outcome[r] = "final" \/ response[r] = "stop"
    <2> SUFFICES ASSUME v = "failure"
                 PROVE  /\ identifier \notin cancelled
                        /\ outcome[r] = "final" \/ response[r] = "stop"
      OBVIOUS
    <2>1. outcome[r] # "success" /\ state # "ActiveCancelling"
      OBVIOUS
    <2>2. identifier \notin cancelled
      BY <2>1 DEF CoreInv, CancelShows
    <2>3. at[r] = "reported" => outcome[r] = "final"
      BY <2>1 DEF IsFinal
    <2>4. at[r] = "decided" => response[r] = "stop"
      BY <2>1 DEF Terminates
    <2>5. QED
      BY <2>2, <2>3, <2>4
  <1> HIDE DEF v
  <1>7. ResultsAreTrue'
    BY <1>1, <1>2, <1>4, <1>5, <1>6, EndResults
  <1>8. ValueIsResolved' /\ CancelIsKnown'
    BY <1>2 DEF D!Resolve, D!Enqueue, HistoryInv, ValueIsResolved, CancelIsKnown
  <1>9. QED
    BY <1>3, <1>7, <1>8 DEF HistoryInv

LEMMA RunStepHistory ==
    ASSUME CoreInv, HistoryInv, NEW r \in Runs, RunStep(r)
    PROVE  HistoryInv'
  <1> USE DEF runVars, fields
  <1>0. outcome \in [Runs -> {"none", "success", "transient", "final"}]
        /\ at \in [Runs -> Stages]
    BY DEF CoreInv, RetryTypeOK
  <1>1. CASE RunAction(r)
    <2>1. /\ at[r] = "queued" /\ at' = [at EXCEPT ![r] = "running"]
          /\ UNCHANGED << state, currentDelay, identifier, outcome, offered, chosen, response,
                          cancelled, promiseVars >>
      BY <1>1 DEF RunAction
    <2>2. state # "Idle"
      BY <2>1, UnderWay
    <2>3. DelaysFit' /\ PolicyAsked'
      BY <2>1, <2>2, MoveHistory DEF Stages
    <2>4. QED
      BY <1>0, <2>1, <2>3, MoveOnHistory
  <1>2. CASE Report(r)
    <2>1. PICK result \in {"success", "transient", "final"} : Continuation(r, result)
      BY <1>2 DEF Report
    <2>2. PICK stage \in {"reported", "dropped"} : at' = [at EXCEPT ![r] = stage]
      BY <2>1 DEF Continuation
    <2>3. /\ at[r] = "running" /\ outcome' = [outcome EXCEPT ![r] = result]
          /\ UNCHANGED << state, currentDelay, identifier, offered, chosen, response,
                          cancelled, promiseVars >>
      BY <2>1 DEF Continuation
    <2>4. /\ state # "Idle" /\ outcome'[r] = result /\ result # "none"
          /\ \A s \in Runs : s # r => outcome'[s] = outcome[s] /\ at'[s] = at[s]
      BY <1>0, <2>2, <2>3, UnderWay
    <2>5. DelaysFit' /\ PolicyAsked'
      BY <2>2, <2>3, <2>4, MoveHistory DEF Stages
    <2>6. QED
      BY <2>3, <2>4, <2>5, MoveOnHistory
  <1>3. CASE HandleContinuation(r)
    <2>1. at[r] = "reported" /\ UNCHANGED << outcome, chosen, response, cancelled >>
      BY <1>3 DEF HandleContinuation
    <2>2. CASE IsFinal(outcome[r]) /\ HandleResult(r, outcome[r], "stop", currentDelay)
                   /\ UNCHANGED offered
      <3>1. Terminates(outcome[r], "stop")
        BY DEF Terminates
      <3>2. QED
        BY <2>1, <2>2, <3>1, TerminateHistory
    <2>3. CASE /\ at' = [at EXCEPT ![r] = "dropped"]
               /\ UNCHANGED << fields, offered, timerAt, timerRunning, promiseVars, aborted >>
      <3>1. state # "Idle"
        BY <2>1, UnderWay
      <3>2. DelaysFit' /\ PolicyAsked'
        BY <2>1, <2>3, <3>1, MoveHistory DEF Stages
      <3>3. QED
        BY <1>0, <2>1, <2>3, <3>2, MoveOnHistory
    <2>4. CASE /\ ~IsFinal(outcome[r])
               /\ offered' = [offered EXCEPT ![r] = currentDelay]
               /\ at' = [at EXCEPT ![r] = "policy"]
               /\ UNCHANGED << fields, timerAt, timerRunning, promiseVars, aborted >>
      <3>1. state # "Idle"
        BY <2>1, UnderWay
      <3>2. outcome[r] = "transient"
        <4>1. outcome[r] # "none"
          BY <2>1 DEF HistoryInv, PolicyAsked
        <4>2. QED
          BY <1>0, <2>4, <4>1 DEF IsFinal
      <3>3. /\ offered'[r] = currentDelay
            /\ \A s \in Runs : s # r => offered'[s] = offered[s] /\ at'[s] = at[s]
        BY <1>0, <2>4 DEF CoreInv, RetryTypeOK
      <3>4. DelaysFit' /\ PolicyAsked'
        BY <2>1, <2>4, <3>1, <3>2, <3>3, MoveHistory DEF Stages
      <3>5. QED
        BY <2>1, <2>4, <3>3, <3>4, MoveOnHistory
    <2>5. QED
      BY <1>3, <2>2, <2>3, <2>4 DEF HandleContinuation
  <1>4. CASE RunPolicy(r)
    <2>1. /\ at[r] = "policy" /\ at' = [at EXCEPT ![r] = "decided"]
          /\ UNCHANGED << state, currentDelay, identifier, outcome, offered, cancelled, promiseVars >>
      BY <1>4 DEF RunPolicy
    <2>2. PICK answer \in {"stop", "retry"} : response' = [response EXCEPT ![r] = answer]
      BY <1>4 DEF RunPolicy
    <2>3. PICK delay : chosen' = [chosen EXCEPT ![r] = delay]
      BY <1>4 DEF RunPolicy
    <2>4. /\ response'[r] = answer
          /\ \A s \in Runs : s # r => /\ response'[s] = response[s] /\ chosen'[s] = chosen[s]
                                      /\ at'[s] = at[s]
      BY <2>1, <2>2, <2>3 DEF CoreInv, RetryTypeOK
    <2>5. state # "Idle" /\ outcome[r] = "transient"
      BY <2>1, UnderWay DEF HistoryInv, PolicyAsked
    <2>6. DelaysFit' /\ PolicyAsked'
      BY <2>1, <2>4, <2>5, MoveHistory DEF Stages
    <2>7. QED
      BY <2>1, <2>4, <2>6, MoveOnHistory
  <1>5. CASE HandleDecision(r)
    <2>1. /\ at[r] = "decided" /\ UNCHANGED << outcome, offered, chosen, response, cancelled >>
          /\ HandleResult(r, outcome[r], response[r], chosen[r])
      BY <1>5 DEF HandleDecision
    <2>2. CASE Terminates(outcome[r], response[r])
      BY <2>1, <2>2, TerminateHistory
    <2>3. CASE ~Terminates(outcome[r], response[r])
      <3>1. timer = Nil
        BY <2>1, HandledRun
      <3>2. /\ at' = [at EXCEPT ![r] = "delayed"] /\ state' = "Delay" /\ currentDelay' = chosen[r]
            /\ UNCHANGED << identifier, promiseVars >>
        BY <2>1, <2>3, <3>1 DEF HandleResult, ScheduleNextAction
      <3>3. outcome[r] = "transient" /\ response[r] = "retry"
        BY <2>1, <2>3 DEF HistoryInv, PolicyAsked, Terminates
      <3>4. DelaysFit' /\ PolicyAsked'
        BY <2>1, <3>2, <3>3, MoveHistory DEF Stages
      <3>5. QED
        BY <1>0, <2>1, <3>2, <3>4, MoveOnHistory
    <2>4. QED
      BY <2>2, <2>3
  <1>6. QED
    BY <1>1, <1>2, <1>3, <1>4, <1>5 DEF RunStep

LEMMA TimerStepHistory ==
    ASSUME CoreInv, HistoryInv, NEW r \in Runs, TimerStep(r)
    PROVE  HistoryInv'
  <1>1. CASE UNCHANGED << fields, runVars, cancelled, promiseVars >>
    BY <1>1, QuietHistory
  <1>2. CASE ~UNCHANGED << fields, runVars, cancelled, promiseVars >>
    <2>1. TimerCallback(r)
      BY <1>2 DEF TimerStep, TimerDue, TimerPost, TimerPostEnd, TimerSuspend
    <2> DEFINE n == << identifier, attempt + 1 >>
               stages == [at EXCEPT ![r] = "done"]
    <2>2. /\ identifier = Operation(r) /\ timerAt[r] = "posted"
          /\ state' = "ActiveWaiting" /\ identifier' = identifier
          /\ at' = [stages EXCEPT ![n] = "queued"]
          /\ UNCHANGED << currentDelay, outcome, offered, chosen, response, cancelled, promiseVars >>
      BY <1>2, <2>1 DEF TimerCallback, PerformAction, runVars
    <2>3. timer = r /\ state = "Delay" /\ r = << identifier, attempt >>
      <3>1. timer = r
        BY <2>2 DEF CoreInv, OneTimerMatches
      <3>2. QED
        BY <3>1, NilIsNoRun DEF CoreInv, FieldsFit
    <2>4. at[r] = "delayed"
      BY <2>3 DEF CoreInv, CurrentRun
    <2>5. /\ identifier \in Callers /\ attempt \in Nat /\ attempt > 0
          /\ Attempt(r) = attempt /\ attempt < MaxRetries
      BY <2>3, <2>4, RunsType DEF CoreInv, FieldsFit, RetriesLeft, Attempt
    <2>6. n \in Runs /\ Operation(n) = identifier /\ Attempt(n) = attempt + 1 /\ n # r
          /\ Before(n) = r
      <3>1. attempt + 1 \in 1..MaxRuns /\ (attempt + 1) - 1 = attempt /\ attempt + 1 # attempt
        BY <2>5, RetryAssumption DEF MaxRuns
      <3>2. QED
        BY <2>3, <2>5, <3>1, RunsType DEF Before
    <2>7. /\ \A s \in Runs : s # r => at[s] \in {"none", "done"}
          /\ \A s \in Runs : Operation(s) = identifier /\ Attempt(s) > attempt => at[s] = "none"
      BY <2>4, UnderWay DEF CoreInv, NothingAhead
    <2>8. /\ at[n] = "none" /\ stages[n] = "none" /\ stages \in [Runs -> Stages]
          /\ stages[r] = "done" /\ \A s \in Runs : s # r => stages[s] = at[s]
      BY <2>5, <2>6, <2>7 DEF CoreInv, RetryTypeOK, Stages
    <2>9. \A s \in Runs : Attempt(s) > 1 /\ Before(s) = n => at[s] = "none"
      <3> SUFFICES ASSUME NEW s \in Runs, Attempt(s) > 1, Before(s) = n PROVE at[s] = "none"
        OBVIOUS
      <3>1. Operation(s) = identifier /\ Attempt(s) - 1 = attempt + 1 /\ Attempt(s) \in Nat
        BY <2>6, BeforeType, RunsType
      <3>2. QED
        BY <2>5, <2>7, <3>1
    <2>10. currentDelay = chosen[r] /\ Attempt(n) # 1
      BY <2>4, <2>5, <2>6 DEF HistoryInv, DelaysFit
    <2> HIDE DEF n, stages
    <2>11. DelaysFit' /\ PolicyAsked'
      BY ZenonT(30), <2>2, <2>4, <2>6, <2>7, <2>8, <2>9, <2>10, BeginHistory
    <2>12. \A s \in Runs : Operation(s) # identifier => at'[s] = at[s]
      BY <2>2, <2>6, <2>8
    <2>13. \A o \in Callers : Settlements(o)' = Settlements(o)
      BY <2>2 DEF promiseVars, Settlements
    <2>14. ResultsAreTrue'
      BY <2>2, <2>12, <2>13, SameResults
    <2>15. ValueIsResolved' /\ CancelIsKnown'
      BY <2>2 DEF promiseVars, HistoryInv, ValueIsResolved, CancelIsKnown
    <2>16. QED
      BY <2>11, <2>14, <2>15 DEF HistoryInv
  <1>3. QED
    BY <1>1, <1>2

LEMMA RunPromisesHistory ==
    ASSUME CoreInv, HistoryInv, RunPromises
    PROVE  HistoryInv'
  <1>1. UNCHANGED << fields, runVars, cancelled >> /\ D!RunQueues
    BY DEF RunPromises
  <1>2. ValueIsResolved' /\ \A p \in Callers : Settlements(p)' = Settlements(p)
    BY <1>1, QueuesSettle
  <1>3. DelaysFit' /\ PolicyAsked'
    BY <1>1, SameHistory DEF fields, runVars
  <1>4. ResultsAreTrue'
    BY <1>1, <1>2, SameResults DEF runVars
  <1>5. CancelIsKnown'
    BY <1>1 DEF HistoryInv, CancelIsKnown, fields
  <1>6. QED
    BY <1>2, <1>3, <1>4, <1>5 DEF HistoryInv

LEMMA HistoryStep == CoreInv /\ HistoryInv /\ [Next]_vars => HistoryInv'
  <1> SUFFICES ASSUME CoreInv, HistoryInv, [Next]_vars PROVE HistoryInv'
    OBVIOUS
  <1>1. ASSUME NEW c \in Callers, StartReturn(c) PROVE HistoryInv'
    BY <1>1, QuietHistory DEF StartReturn
  <1>2. CASE Release
    BY <1>2, QuietHistory DEF Release
  <1>3. CASE UNCHANGED vars
    BY <1>3, QuietHistory DEF vars
  <1>4. QED
    BY <1>1, <1>2, <1>3, StartHistory, CancelHistory, RunStepHistory, TimerStepHistory,
       RunPromisesHistory DEF Next

---------------------------------------------------------------------------
(* The completion blocks.                                                  *)

LEMMA InitListeners == Init => ListenersInv
  <1> SUFFICES ASSUME Init PROVE ListenersInv
    OBVIOUS
  <1>1. /\ \A o \in Callers : Len(promiseQueue[o]) = 0 /\ Len(thenBlocks[o]) = 0
        /\ Len(completionQueue) = 0
        /\ \A c \in Callers : joined[c] = Nil /\ calls[c] = << >>
    BY DEF Init, D!InitPromises
  <1>2. \A o, c \in Callers : ~Queued(o, c) /\ ~Kept(o, c) /\ ~Due(o, c)
    BY <1>1 DEF Queued, Kept, Due
  <1>3. OneBlockPerListener
    BY <1>1, <1>2 DEF OneBlockPerListener
  <1>4. QED
    BY <1>1, <1>2, <1>3 DEF ListenersInv

\* Steps that touch neither promises nor listeners.
LEMMA QuietListeners ==
    ASSUME ListenersInv, UNCHANGED << promiseVars, joined >>,
           \A c \in Callers : pc'[c] = "idle" => pc[c] = "idle"
    PROVE  ListenersInv'
  <1> USE DEF promiseVars
  <1>1. \A o, c \in Callers :
            /\ Queued(o, c)' <=> Queued(o, c)
            /\ Kept(o, c)' <=> Kept(o, c)
            /\ Due(o, c)' <=> Due(o, c)
    BY DEF Queued, Kept, Due
  <1>2. OneBlockPerListener'
    BY <1>1 DEF ListenersInv, OneBlockPerListener
  <1>3. QED
    BY <1>1, <1>2 DEF ListenersInv

\* A block put on a promise's queue.
LEMMA EnqueuePlaces ==
    ASSUME NEW o \in Callers, NEW call \in D!ApiCall, D!PromiseTypeOK, ListenersInv,
           D!Enqueue(o, call),
           \A c \in Callers : call = D!ThenCall(c) => ~Queued(o, c)
    PROVE  /\ \A p, c \in Callers :
                  /\ Queued(p, c)' <=> (Queued(p, c) \/ (p = o /\ call = D!ThenCall(c)))
                  /\ Kept(p, c)' <=> Kept(p, c)
                  /\ Due(p, c)' <=> Due(p, c)
           /\ \A p \in Callers : \A i, j \in 1..Len(promiseQueue'[p]) :
                  i # j /\ promiseQueue'[p][i].op = "then" => promiseQueue'[p][i] # promiseQueue'[p][j]
  <1>1. /\ promiseQueue' = [promiseQueue EXCEPT ![o] = Append(@, call)]
        /\ UNCHANGED << thenBlocks, completionQueue >>
    BY DEF D!Enqueue
  <1> DEFINE q == promiseQueue[o]
             n == Len(q)
  <1>2. /\ n \in Nat /\ Len(promiseQueue'[o]) = n + 1
        /\ \A i \in 1..n : promiseQueue'[o][i] = q[i] /\ q[i] \in D!ApiCall
        /\ promiseQueue'[o][n + 1] = call
    <2>1. q \in Seq(D!ApiCall) /\ promiseQueue'[o] = Append(q, call)
      BY <1>1 DEF D!PromiseTypeOK
    <2> HIDE DEF q
    <2>2. QED
      BY <2>1
  <1>3. \A p \in Callers : p # o => promiseQueue'[p] = promiseQueue[p]
    BY <1>1 DEF D!PromiseTypeOK
  <1>4. /\ 1..n \subseteq 1..n + 1 /\ n + 1 \in 1..n + 1
        /\ \A i \in 1..n + 1 : i \in 1..n \/ i = n + 1
    BY <1>2
  <1>5. ASSUME NEW c \in Callers
        PROVE  Queued(o, c)' <=> (Queued(o, c) \/ call = D!ThenCall(c))
    <2>1. Queued(o, c) <=> \E i \in 1..n : q[i] = D!ThenCall(c)
      BY DEF Queued
    <2>2. Queued(o, c)' <=> \E i \in 1..n + 1 : promiseQueue'[o][i] = D!ThenCall(c)
      BY <1>2 DEF Queued
    <2> HIDE DEF q, n
    <2>3. QED
      BY <1>2, <1>4, <2>1, <2>2
  <1>6. ASSUME NEW p \in Callers, p # o, NEW c \in Callers
        PROVE  Queued(p, c)' <=> Queued(p, c)
    BY <1>3, <1>6 DEF Queued
  <1>7. \A p, c \in Callers : (Kept(p, c)' <=> Kept(p, c)) /\ (Due(p, c)' <=> Due(p, c))
    BY <1>1 DEF Kept, Due
  <1>8. ASSUME NEW i \in 1..n, q[i].op = "then"
        PROVE  q[i] # call
    <2>1. \A v \in Results : q[i] # D!ResolveCall(v)
      BY <1>8, CallKinds
    <2>2. PICK c \in Callers : q[i] = D!ThenCall(c)
      BY <1>2, <2>1 DEF D!ApiCall
    <2>3. Queued(o, c)
      BY <2>2 DEF Queued
    <2>4. QED
      BY <2>2, <2>3
  <1>9. ASSUME NEW p \in Callers, NEW i \in 1..Len(promiseQueue'[p]),
               NEW j \in 1..Len(promiseQueue'[p]), i # j, promiseQueue'[p][i].op = "then",
               promiseQueue'[p][i] = promiseQueue'[p][j]
        PROVE  FALSE
    <2>1. \A k, l \in 1..Len(promiseQueue[p]) :
              k # l /\ promiseQueue[p][k].op = "then" => promiseQueue[p][k] # promiseQueue[p][l]
      BY DEF ListenersInv, OneBlockPerListener
    <2>2. CASE p # o
      BY <1>3, <1>9, <2>1, <2>2
    <2>3. CASE p = o
      <3>1. i \in 1..n + 1 /\ j \in 1..n + 1
        BY <1>2, <1>9, <2>3
      <3>2. i \in 1..n \/ j \in 1..n
        BY <1>4, <1>9, <3>1
      <3>3. CASE i \in 1..n /\ j \in 1..n
        BY <1>2, <1>9, <2>1, <2>3, <3>3
      <3>4. CASE i \in 1..n /\ j = n + 1
        BY <1>2, <1>8, <1>9, <2>3, <3>4
      <3>5. CASE i = n + 1 /\ j \in 1..n
        BY <1>2, <1>8, <1>9, <2>3, <3>5
      <3>6. QED
        BY <1>4, <3>1, <3>2, <3>3, <3>4, <3>5
    <2>4. QED
      BY <2>2, <2>3
  <1>10. QED
    BY <1>5, <1>6, <1>7, <1>9

\* The result of an operation is put on its promise's queue.
LEMMA ResolveListeners ==
    ASSUME NEW o \in Callers, NEW v \in Results, D!PromiseTypeOK, ListenersInv,
           D!Resolve(o, v), UNCHANGED << pc, joined >>
    PROVE  ListenersInv'
  <1>1. /\ D!ResolveCall(v) \in D!ApiCall /\ D!Enqueue(o, D!ResolveCall(v))
        /\ \A c \in Callers : D!ResolveCall(v) # D!ThenCall(c)
    BY CallKinds DEF D!Resolve
  <1>2. /\ \A p, c \in Callers :
               /\ Queued(p, c)' <=> Queued(p, c)
               /\ Kept(p, c)' <=> Kept(p, c)
               /\ Due(p, c)' <=> Due(p, c)
        /\ \A p \in Callers : \A i, j \in 1..Len(promiseQueue'[p]) :
               i # j /\ promiseQueue'[p][i].op = "then" => promiseQueue'[p][i] # promiseQueue'[p][j]
    BY <1>1, EnqueuePlaces
  <1>3. UNCHANGED << thenBlocks, completionQueue, promiseState, calls >>
    BY <1>1 DEF D!Enqueue
  <1>4. OneBlockPerListener'
    BY <1>2, <1>3 DEF ListenersInv, OneBlockPerListener
  <1>5. QED
    BY <1>2, <1>3, <1>4 DEF ListenersInv

\* A caller listens to the operation it begins, joins or restores.
LEMMA StartListeners ==
    ASSUME CoreInv, ListenersInv, NEW c \in Callers, Start(c)
    PROVE  ListenersInv'
  <1>1. /\ deferred' \in Callers /\ pc[c] = "idle"
        /\ pc' = [pc EXCEPT ![c] = "returning"]
    BY DEF Start, BeginOperation, JoinOperation, RestoreOperation, CoreInv, FieldsFit
  <1>2. /\ pc'[c] = "returning" /\ \A p \in Callers : p # c => pc'[p] = pc[p]
        /\ joined \in [Callers -> Callers \cup {Nil}]
    BY <1>1 DEF CoreInv, RetryTypeOK
  <1>3. joined[c] = Nil /\ calls[c] = << >>
    BY <1>1 DEF ListenersInv
  <1>4. CASE c \in Listening
    <2>1. PICK o \in Callers : o = deferred'
      BY <1>1
    <2>2. D!Then(o, c) /\ joined' = [joined EXCEPT ![c] = o]
      BY <1>4, <2>1 DEF Start
    <2>3. /\ joined'[c] = o /\ joined'[c] # Nil /\ \A p \in Callers : p # c => joined'[p] = joined[p]
      BY <1>2, <2>2, RetryAssumption
    <2>4. \A p \in Callers : ~Queued(p, c) /\ ~Kept(p, c) /\ ~Due(p, c)
      BY <1>3, RetryAssumption DEF ListenersInv, OneBlockPerListener
    <2>5. D!ThenCall(c) \in D!ApiCall /\ D!Enqueue(o, D!ThenCall(c))
      BY <2>2, CallKinds DEF D!Then
    <2>6. \A b \in Callers : D!ThenCall(c) = D!ThenCall(b) <=> b = c
      BY CallKinds
    <2>7. /\ \A p, b \in Callers :
                 /\ Queued(p, b)' <=> (Queued(p, b) \/ (p = o /\ b = c))
                 /\ Kept(p, b)' <=> Kept(p, b)
                 /\ Due(p, b)' <=> Due(p, b)
          /\ \A p \in Callers : \A i, j \in 1..Len(promiseQueue'[p]) :
                 i # j /\ promiseQueue'[p][i].op = "then" => promiseQueue'[p][i] # promiseQueue'[p][j]
      <3>1. \A b \in Callers : D!ThenCall(c) = D!ThenCall(b) => ~Queued(o, b)
        BY <2>4, <2>6
      <3>2. /\ \A p, b \in Callers :
                   /\ Queued(p, b)' <=> (Queued(p, b) \/ (p = o /\ D!ThenCall(c) = D!ThenCall(b)))
                   /\ Kept(p, b)' <=> Kept(p, b)
                   /\ Due(p, b)' <=> Due(p, b)
            /\ \A p \in Callers : \A i, j \in 1..Len(promiseQueue'[p]) :
                   i # j /\ promiseQueue'[p][i].op = "then" => promiseQueue'[p][i] # promiseQueue'[p][j]
        BY <2>5, <3>1, EnqueuePlaces DEF CoreInv
      <3>3. QED
        BY <2>6, <3>2
    <2>8. UNCHANGED << thenBlocks, completionQueue, promiseState, calls >>
      BY <2>5 DEF D!Enqueue
    <2>9. \A p, b \in Callers : Queued(p, b)' \/ Kept(p, b)' \/ Due(p, b)' =>
              joined'[b] = p /\ calls'[b] = << >>
      BY <1>3, <2>3, <2>4, <2>7, <2>8 DEF ListenersInv, OneBlockPerListener
    <2>10. \A p, b \in Callers : /\ ~(Queued(p, b)' /\ Kept(p, b)')
                                 /\ ~(Queued(p, b)' /\ Due(p, b)')
                                 /\ ~(Kept(p, b)' /\ Due(p, b)')
      BY <2>4, <2>7 DEF ListenersInv, OneBlockPerListener
    <2>11. OneBlockPerListener'
      BY <2>7, <2>8, <2>9, <2>10 DEF ListenersInv, OneBlockPerListener
    <2>12. QED
      BY <1>2, <2>3, <2>7, <2>8, <2>11 DEF ListenersInv
  <1>5. CASE c \notin Listening
    BY <1>2, <1>5, QuietListeners DEF Start
  <1>6. QED
    BY <1>4, <1>5

\* processBlocks dispatches the blocks in their order.
LEMMA DispatchPlaces ==
    ASSUME D!PromiseTypeOK, ListenersInv, NEW o \in Callers, NEW blocks \in Seq(Callers),
           completionQueue' = completionQueue \o [i \in 1..Len(blocks) |-> << o, blocks[i] >>],
           \A i, j \in 1..Len(blocks) : i # j => blocks[i] # blocks[j],
           \A i \in 1..Len(blocks) : ~Due(o, blocks[i])
    PROVE  /\ \A p, c \in Callers :
                  Due(p, c)' <=> (Due(p, c) \/ (p = o /\ \E i \in 1..Len(blocks) : blocks[i] = c))
           /\ \A i, j \in 1..Len(completionQueue') : i # j => completionQueue'[i] # completionQueue'[j]
  <1> DEFINE u == [i \in 1..Len(blocks) |-> << o, blocks[i] >>]
             n == Len(completionQueue)
             m == Len(blocks)
  <1>1. u \in Seq(Callers \X Callers) /\ Len(u) = m /\ m \in Nat
        /\ completionQueue \in Seq(Callers \X Callers) /\ n \in Nat
    BY DEF D!PromiseTypeOK
  <1>2. /\ Len(completionQueue') = n + m
        /\ \A i \in 1..n : completionQueue'[i] = completionQueue[i]
        /\ \A i \in 1..m : completionQueue'[n + i] = << o, blocks[i] >>
    BY <1>1, ConcatProperties
  <1>3. \A i \in 1..n + m : i \in 1..n \/ \E k \in 1..m : i = n + k
    <2>1. \A i \in 1..n + m : i \in 1..n \/ (i - n \in 1..m /\ i = n + (i - n))
      BY <1>1
    <2>2. QED
      BY <2>1
  <1>4. /\ \A i \in 1..n : i \in 1..n + m
        /\ \A i \in 1..m : n + i \in 1..n + m
    BY <1>1
  <1> HIDE DEF u, n, m
  <1>5. ASSUME NEW p \in Callers, NEW c \in Callers
        PROVE  Due(p, c)' <=> (Due(p, c) \/ (p = o /\ \E i \in 1..m : blocks[i] = c))
    <2>1. Due(p, c)' <=> \E i \in 1..n + m : completionQueue'[i] = << p, c >>
      BY <1>2 DEF Due
    <2>2. Due(p, c) <=> \E i \in 1..n : completionQueue[i] = << p, c >>
      BY DEF Due, n
    <2>3. ASSUME NEW i \in 1..n + m, completionQueue'[i] = << p, c >>
          PROVE  (\E k \in 1..n : completionQueue[k] = << p, c >>)
                     \/ (p = o /\ \E k \in 1..m : blocks[k] = c)
      <3>1. CASE i \in 1..n
        BY <1>2, <2>3, <3>1
      <3>2. CASE i \notin 1..n
        <4>1. PICK k \in 1..m : i = n + k
          BY <1>3, <3>2
        <4>2. << p, c >> = << o, blocks[k] >>
          BY <1>2, <2>3, <4>1
        <4>3. p = o /\ blocks[k] = c
          BY <4>2
        <4>4. QED
          BY <4>3
      <3>3. QED
        BY <3>1, <3>2
    <2>4. ASSUME NEW i \in 1..n, completionQueue[i] = << p, c >>
          PROVE  \E k \in 1..n + m : completionQueue'[k] = << p, c >>
      BY <1>2, <1>4, <2>4
    <2>5. ASSUME NEW i \in 1..m, p = o, blocks[i] = c
          PROVE  \E k \in 1..n + m : completionQueue'[k] = << p, c >>
      BY <1>2, <1>4, <2>5
    <2>6. QED
      BY <2>1, <2>2, <2>3, <2>4, <2>5
  <1>6. ASSUME NEW i \in 1..n, NEW j \in 1..m PROVE completionQueue[i] # << o, blocks[j] >>
    <2>1. blocks[j] \in Callers
      BY DEF m
    <2>2. ~Due(o, blocks[j])
      BY DEF m
    <2>3. QED
      BY <2>2 DEF Due, n
  <1>7. ASSUME NEW i \in 1..n + m, NEW j \in 1..n + m, i # j,
               completionQueue'[i] = completionQueue'[j]
        PROVE  FALSE
    <2>1. CASE i \in 1..n /\ j \in 1..n
      BY <1>2, <1>7, <2>1 DEF ListenersInv, OneBlockPerListener, n
    <2>2. ASSUME NEW k \in 1..n, NEW l \in 1..m, completionQueue'[k] = completionQueue'[n + l]
          PROVE  FALSE
      BY <1>2, <1>6, <2>2
    <2>3. CASE i \in 1..n /\ j \notin 1..n
      <3>1. PICK l \in 1..m : j = n + l
        BY <1>3, <2>3
      <3>2. QED
        BY <1>7, <2>2, <2>3, <3>1
    <2>4. CASE i \notin 1..n /\ j \in 1..n
      <3>1. PICK l \in 1..m : i = n + l
        BY <1>3, <2>4
      <3>2. QED
        BY <1>7, <2>2, <2>4, <3>1
    <2>5. CASE i \notin 1..n /\ j \notin 1..n
      <3>1. PICK k \in 1..m : i = n + k
        BY <1>3, <2>5
      <3>2. PICK l \in 1..m : j = n + l
        BY <1>3, <2>5
      <3>3. << o, blocks[k] >> = << o, blocks[l] >>
        BY <1>2, <1>7, <3>1, <3>2
      <3>4. blocks[k] = blocks[l]
        BY <3>3
      <3>5. k # l
        BY <1>7, <3>1, <3>2
      <3>6. QED
        BY <3>4, <3>5 DEF m
    <2>6. QED
      BY <2>1, <2>2, <2>3, <2>4, <2>5
  <1>8. QED
    BY <1>2, <1>5, <1>7 DEF m

\* The oldest block of a promise's queue is taken from it.
LEMMA DequeuePlaces ==
    ASSUME NEW o \in Callers, D!PromiseTypeOK, ListenersInv, promiseQueue[o] # << >>,
           promiseQueue' = [promiseQueue EXCEPT ![o] = Tail(@)]
    PROVE  /\ \A p, c \in Callers :
                  Queued(p, c)' <=> (Queued(p, c) /\ ~(p = o /\ promiseQueue[o][1] = D!ThenCall(c)))
           /\ \A p \in Callers : \A i, j \in 1..Len(promiseQueue'[p]) :
                  i # j /\ promiseQueue'[p][i].op = "then" => promiseQueue'[p][i] # promiseQueue'[p][j]
  <1> DEFINE q == promiseQueue[o]
             t == promiseQueue'[o]
  <1>1. /\ 1 \in 1..Len(q)
        /\ \A i \in 1..Len(t) : i + 1 \in 1..Len(q) /\ i + 1 # 1 /\ t[i] = q[i + 1]
        /\ \A p \in Callers : p # o => promiseQueue'[p] = promiseQueue[p]
    BY DequeueEffect
  <1>2. \A j \in 1..Len(q) : j # 1 => \E i \in 1..Len(t) : t[i] = q[j]
    <2>1. q \in Seq(D!ApiCall) /\ q # << >> /\ t = Tail(q)
      BY DEF D!PromiseTypeOK
    <2> HIDE DEF q
    <2>2. Len(q) \in Nat /\ Len(Tail(q)) = Len(q) - 1
      BY <2>1
    <2>3. \A j \in 1..Len(q) : j # 1 => j - 1 \in 1..Len(Tail(q)) /\ (j - 1) + 1 = j
      BY <2>2
    <2> HIDE DEF t
    <2>4. ASSUME NEW j \in 1..Len(q), j # 1 PROVE \E i \in 1..Len(t) : t[i] = q[j]
      <3>1. j - 1 \in 1..Len(t) /\ (j - 1) + 1 = j
        BY <2>1, <2>3, <2>4
      <3>2. t[j - 1] = q[(j - 1) + 1]
        BY <1>1, <3>1
      <3>3. QED
        BY <3>1, <3>2
    <2>5. QED
      BY <2>4
  <1>3. \A i, j \in 1..Len(q) : i # j /\ q[i].op = "then" => q[i] # q[j]
    BY DEF ListenersInv, OneBlockPerListener
  <1>4. \A i, j \in 1..Len(t) : i # j => i + 1 # j + 1
    OBVIOUS
  <1> HIDE DEF q, t
  <1>5. ASSUME NEW c \in Callers
        PROVE  Queued(o, c)' <=> (Queued(o, c) /\ q[1] # D!ThenCall(c))
    <2>1. D!ThenCall(c).op = "then"
      BY CallKinds
    <2>2. Queued(o, c) <=> \E i \in 1..Len(q) : q[i] = D!ThenCall(c)
      BY DEF Queued, q
    <2>3. Queued(o, c)' <=> \E i \in 1..Len(t) : t[i] = D!ThenCall(c)
      BY DEF Queued, t
    <2>4. ASSUME NEW i \in 1..Len(t), t[i] = D!ThenCall(c)
          PROVE  (\E k \in 1..Len(q) : q[k] = D!ThenCall(c)) /\ q[1] # D!ThenCall(c)
      BY <1>1, <1>3, <2>1, <2>4
    <2>5. ASSUME NEW i \in 1..Len(q), q[i] = D!ThenCall(c), q[1] # D!ThenCall(c)
          PROVE  \E k \in 1..Len(t) : t[k] = D!ThenCall(c)
      BY <1>2, <2>5
    <2>6. QED
      BY <2>2, <2>3, <2>4, <2>5
  <1>6. ASSUME NEW p \in Callers, p # o, NEW c \in Callers
        PROVE  Queued(p, c)' <=> Queued(p, c)
    BY <1>1, <1>6 DEF Queued
  <1>7. \A i, j \in 1..Len(t) : i # j /\ t[i].op = "then" => t[i] # t[j]
    BY <1>1, <1>3, <1>4
  <1>8. ASSUME NEW p \in Callers
        PROVE  \A i, j \in 1..Len(promiseQueue'[p]) :
                   i # j /\ promiseQueue'[p][i].op = "then" => promiseQueue'[p][i] # promiseQueue'[p][j]
    <2>1. CASE p = o
      BY <1>7, <2>1 DEF t
    <2>2. CASE p # o
      BY <1>1, <2>2 DEF ListenersInv, OneBlockPerListener
    <2>3. QED
      BY <2>1, <2>2
  <1>9. \A p, c \in Callers :
            Queued(p, c)' <=> (Queued(p, c) /\ ~(p = o /\ q[1] = D!ThenCall(c)))
    BY <1>5, <1>6
  <1>10. QED
    BY <1>8, <1>9 DEF q

\* The places of the blocks and the order of processBlocks keep the invariant: the
\* blocks in Moved(p, c) go from the promise's queue or its thenBlocks elsewhere.
LEMMA PlacesFit ==
    ASSUME ListenersInv,
           \A p, c \in Callers : /\ Queued(p, c)' => Queued(p, c)
                                 /\ Kept(p, c)' => Queued(p, c) \/ Kept(p, c)
                                 /\ Due(p, c)' => Queued(p, c) \/ Kept(p, c) \/ Due(p, c)
                                 /\ ~(Queued(p, c)' /\ Kept(p, c)')
                                 /\ ~(Queued(p, c)' /\ Due(p, c)')
                                 /\ ~(Kept(p, c)' /\ Due(p, c)')
                                 /\ Due(p, c)' => promiseState'[p] = "Resolved",
           \A p \in Callers : \A i, j \in 1..Len(promiseQueue'[p]) :
               i # j /\ promiseQueue'[p][i].op = "then" => promiseQueue'[p][i] # promiseQueue'[p][j],
           \A p \in Callers : \A i, j \in 1..Len(thenBlocks'[p]) :
               i # j => thenBlocks'[p][i] # thenBlocks'[p][j],
           \A i, j \in 1..Len(completionQueue') : i # j => completionQueue'[i] # completionQueue'[j],
           UNCHANGED << joined, pc, calls >>
    PROVE  ListenersInv'
  <1>1. \A p, c \in Callers : Queued(p, c)' \/ Kept(p, c)' \/ Due(p, c)' =>
            joined'[c] = p /\ calls'[c] = << >>
    BY DEF ListenersInv, OneBlockPerListener
  <1>2. OneBlockPerListener'
    BY <1>1 DEF OneBlockPerListener
  <1>3. QED
    BY <1>2 DEF ListenersInv

\* The block of a then: keeps its block, or dispatches it.
LEMMA RunThenListeners ==
    ASSUME NEW o \in Callers, D!PromiseTypeOK, ListenersInv, D!RunThen(o), UNCHANGED << joined, pc >>
    PROVE  ListenersInv'
  <1>1. /\ promiseQueue[o] # << >> /\ promiseQueue' = [promiseQueue EXCEPT ![o] = Tail(@)]
        /\ UNCHANGED << promiseState, calls >>
        /\ Head(promiseQueue[o]).op = "then"
        /\ D!ProcessBlocks(o, promiseState[o], Append(thenBlocks[o], Head(promiseQueue[o]).block))
    BY DEF D!RunThen
  <1>2. Head(promiseQueue[o]) = promiseQueue[o][1] /\ Head(promiseQueue[o]) \in D!ApiCall
        /\ 1 \in 1..Len(promiseQueue[o])
    BY <1>1, DequeueEffect
  <1>3. PICK c \in Callers : promiseQueue[o][1] = D!ThenCall(c) /\ Head(promiseQueue[o]).block = c
    <2>1. \A v \in Results : Head(promiseQueue[o]) # D!ResolveCall(v)
      BY <1>1, CallKinds
    <2>2. PICK c \in Callers : Head(promiseQueue[o]) = D!ThenCall(c)
      BY <1>2, <2>1 DEF D!ApiCall
    <2>3. D!ThenCall(c).block = c
      BY DEF D!ThenCall
    <2>4. QED
      BY <1>2, <2>2, <2>3
  <1>4. \A b \in Callers : D!ThenCall(c) = D!ThenCall(b) <=> b = c
    BY CallKinds
  <1>5. \A p, b \in Callers : Queued(p, b)' <=> (Queued(p, b) /\ ~(p = o /\ b = c))
    <2>1. \A p, b \in Callers :
              Queued(p, b)' <=> (Queued(p, b) /\ ~(p = o /\ promiseQueue[o][1] = D!ThenCall(b)))
      BY <1>1, DequeuePlaces
    <2>2. QED
      BY <1>3, <1>4, <2>1
  <1>6. \A p \in Callers : \A i, j \in 1..Len(promiseQueue'[p]) :
            i # j /\ promiseQueue'[p][i].op = "then" => promiseQueue'[p][i] # promiseQueue'[p][j]
    BY <1>1, DequeuePlaces
  <1>7. Queued(o, c) /\ ~Kept(o, c) /\ ~Due(o, c)
    <2>1. Queued(o, c)
      BY <1>2, <1>3 DEF Queued
    <2>2. QED
      BY <2>1 DEF ListenersInv, OneBlockPerListener
  <1> DEFINE kept == thenBlocks[o]
             more == Append(kept, c)
  <1>8. /\ kept \in Seq(Callers) /\ Len(kept) \in Nat
        /\ more \in Seq(Callers) /\ Len(more) = Len(kept) + 1
        /\ \A i \in 1..Len(kept) : more[i] = kept[i]
        /\ more[Len(kept) + 1] = c
    <2>1. kept \in Seq(Callers)
      BY DEF D!PromiseTypeOK
    <2> HIDE DEF kept
    <2>2. QED
      BY <2>1
  <1>9. /\ 1..Len(kept) \subseteq 1..Len(kept) + 1 /\ Len(kept) + 1 \in 1..Len(kept) + 1
        /\ \A i \in 1..Len(kept) + 1 : i \in 1..Len(kept) \/ i = Len(kept) + 1
    BY <1>8
  <1>10. \A b \in Callers : (\E i \in 1..Len(more) : more[i] = b) <=> (Kept(o, b) \/ b = c)
    <2>1. \A b \in Callers : Kept(o, b) <=> \E i \in 1..Len(kept) : kept[i] = b
      BY DEF Kept
    <2> HIDE DEF kept, more
    <2>2. QED
      BY <1>8, <1>9, <2>1
  <1>11. \A i, j \in 1..Len(more) : i # j => more[i] # more[j]
    <2>1. \A i \in 1..Len(kept) : kept[i] # c
      BY <1>7 DEF Kept
    <2>2. \A i, j \in 1..Len(kept) : i # j => kept[i] # kept[j]
      BY DEF ListenersInv, OneBlockPerListener
    <2> HIDE DEF kept, more
    <2>3. QED
      BY <1>8, <1>9, <2>1, <2>2
  <1>12. D!ProcessBlocks(o, promiseState[o], more)
    BY <1>1, <1>3
  <1> HIDE DEF kept, more
  <1>13. CASE promiseState[o] = "Pending"
    <2>1. thenBlocks' = [thenBlocks EXCEPT ![o] = more] /\ UNCHANGED completionQueue
      BY <1>12, <1>13 DEF D!ProcessBlocks
    <2>2. thenBlocks'[o] = more /\ \A p \in Callers : p # o => thenBlocks'[p] = thenBlocks[p]
      BY <2>1 DEF D!PromiseTypeOK
    <2>3. \A p, b \in Callers : Kept(p, b)' <=> (Kept(p, b) \/ (p = o /\ b = c))
      BY <1>10, <2>2 DEF Kept
    <2>4. \A p, b \in Callers : Due(p, b)' <=> Due(p, b)
      BY <2>1 DEF Due
    <2>5. \A p \in Callers : \A i, j \in 1..Len(thenBlocks'[p]) :
              i # j => thenBlocks'[p][i] # thenBlocks'[p][j]
      BY <1>11, <2>2 DEF ListenersInv, OneBlockPerListener
    <2>6. \A i, j \in 1..Len(completionQueue') : i # j => completionQueue'[i] # completionQueue'[j]
      BY <2>1 DEF ListenersInv, OneBlockPerListener
    <2>7. \A p, b \in Callers : /\ ~(Queued(p, b) /\ Kept(p, b))
                                /\ ~(Queued(p, b) /\ Due(p, b))
                                /\ ~(Kept(p, b) /\ Due(p, b))
                                /\ Due(p, b) => promiseState'[p] = "Resolved"
      BY <1>1 DEF ListenersInv, OneBlockPerListener
    <2>8. \A p, b \in Callers : /\ Queued(p, b)' => Queued(p, b)
                                /\ Kept(p, b)' => Queued(p, b) \/ Kept(p, b)
                                /\ Due(p, b)' => Queued(p, b) \/ Kept(p, b) \/ Due(p, b)
                                /\ ~(Queued(p, b)' /\ Kept(p, b)')
                                /\ ~(Queued(p, b)' /\ Due(p, b)')
                                /\ ~(Kept(p, b)' /\ Due(p, b)')
                                /\ Due(p, b)' => promiseState'[p] = "Resolved"
      BY <1>5, <1>7, <2>3, <2>4, <2>7
    <2>9. QED
      BY <1>1, <1>6, <2>5, <2>6, <2>8, PlacesFit
  <1>14. CASE promiseState[o] # "Pending"
    <2>1. /\ thenBlocks' = [thenBlocks EXCEPT ![o] = << >>]
          /\ completionQueue' = completionQueue \o [i \in 1..Len(more) |-> << o, more[i] >>]
          /\ promiseState[o] = "Resolved"
      BY <1>12, <1>14 DEF D!ProcessBlocks, D!PromiseTypeOK
    <2>2. thenBlocks'[o] = << >> /\ \A p \in Callers : p # o => thenBlocks'[p] = thenBlocks[p]
      BY <2>1 DEF D!PromiseTypeOK
    <2>3. \A p, b \in Callers : Kept(p, b)' <=> (Kept(p, b) /\ p # o)
      BY <2>2 DEF Kept
    <2>4. \A i \in 1..Len(more) : ~Due(o, more[i])
      BY <1>7, <1>8, <1>10 DEF ListenersInv, OneBlockPerListener
    <2>5. /\ \A p, b \in Callers :
                 Due(p, b)' <=> (Due(p, b) \/ (p = o /\ \E i \in 1..Len(more) : more[i] = b))
          /\ \A i, j \in 1..Len(completionQueue') : i # j => completionQueue'[i] # completionQueue'[j]
      BY <1>8, <1>11, <2>1, <2>4, DispatchPlaces
    <2>6. \A p, b \in Callers : Due(p, b)' <=> (Due(p, b) \/ (p = o /\ (Kept(o, b) \/ b = c)))
      BY <1>10, <2>5
    <2>7. \A p \in Callers : \A i, j \in 1..Len(thenBlocks'[p]) :
              i # j => thenBlocks'[p][i] # thenBlocks'[p][j]
      BY <2>2 DEF ListenersInv, OneBlockPerListener
    <2>8. \A p, b \in Callers : /\ ~(Queued(p, b) /\ Kept(p, b))
                                /\ ~(Queued(p, b) /\ Due(p, b))
                                /\ ~(Kept(p, b) /\ Due(p, b))
                                /\ Due(p, b) => promiseState'[p] = "Resolved"
      BY <1>1 DEF ListenersInv, OneBlockPerListener
    <2>9. \A p, b \in Callers : /\ Queued(p, b)' => Queued(p, b)
                                /\ Kept(p, b)' => Queued(p, b) \/ Kept(p, b)
                                /\ Due(p, b)' => Queued(p, b) \/ Kept(p, b) \/ Due(p, b)
                                /\ ~(Queued(p, b)' /\ Kept(p, b)')
                                /\ ~(Queued(p, b)' /\ Due(p, b)')
                                /\ ~(Kept(p, b)' /\ Due(p, b)')
                                /\ Due(p, b)' => promiseState'[p] = "Resolved"
      BY <1>1, <1>5, <1>7, <2>1, <2>3, <2>6, <2>8
    <2>10. QED
      BY <1>1, <1>6, <2>5, <2>7, <2>9, PlacesFit
  <1>15. QED
    BY <1>13, <1>14

\* The block of a resolve: dispatches the blocks that were kept.
LEMMA RunResolveListeners ==
    ASSUME NEW o \in Callers, D!PromiseTypeOK, ListenersInv, D!RunResolve(o), UNCHANGED << joined, pc >>
    PROVE  ListenersInv'
  <1> DEFINE kept == thenBlocks[o]
  <1>1. /\ promiseQueue[o] # << >> /\ promiseQueue' = [promiseQueue EXCEPT ![o] = Tail(@)]
        /\ UNCHANGED calls
        /\ promiseState' = [promiseState EXCEPT ![o] = "Resolved"]
        /\ Head(promiseQueue[o]).op = "resolve"
        /\ thenBlocks' = [thenBlocks EXCEPT ![o] = << >>]
        /\ completionQueue' = completionQueue \o [i \in 1..Len(kept) |-> << o, kept[i] >>]
    BY DEF D!RunResolve, D!ProcessBlocks
  <1>2. /\ \A p, b \in Callers :
               Queued(p, b)' <=> (Queued(p, b) /\ ~(p = o /\ promiseQueue[o][1] = D!ThenCall(b)))
        /\ \A p \in Callers : \A i, j \in 1..Len(promiseQueue'[p]) :
               i # j /\ promiseQueue'[p][i].op = "then" => promiseQueue'[p][i] # promiseQueue'[p][j]
    BY <1>1, DequeuePlaces
  <1>3. thenBlocks'[o] = << >> /\ \A p \in Callers : p # o => thenBlocks'[p] = thenBlocks[p]
    BY <1>1 DEF D!PromiseTypeOK
  <1>4. /\ promiseState'[o] = "Resolved"
        /\ \A p \in Callers : p # o => promiseState'[p] = promiseState[p]
    BY <1>1 DEF D!PromiseTypeOK
  <1>5. \A p, b \in Callers : Kept(p, b)' <=> (Kept(p, b) /\ p # o)
    BY <1>3 DEF Kept
  <1>6. /\ kept \in Seq(Callers)
        /\ \A i, j \in 1..Len(kept) : i # j => kept[i] # kept[j]
        /\ \A b \in Callers : Kept(o, b) <=> \E i \in 1..Len(kept) : kept[i] = b
    BY DEF D!PromiseTypeOK, ListenersInv, OneBlockPerListener, Kept
  <1>7. \A i \in 1..Len(kept) : ~Due(o, kept[i])
    BY <1>6 DEF ListenersInv, OneBlockPerListener
  <1> HIDE DEF kept
  <1>8. /\ \A p, b \in Callers :
               Due(p, b)' <=> (Due(p, b) \/ (p = o /\ \E i \in 1..Len(kept) : kept[i] = b))
        /\ \A i, j \in 1..Len(completionQueue') : i # j => completionQueue'[i] # completionQueue'[j]
    BY <1>1, <1>6, <1>7, DispatchPlaces
  <1>9. \A p, b \in Callers : Due(p, b)' <=> (Due(p, b) \/ (p = o /\ Kept(o, b)))
    BY <1>6, <1>8
  <1>10. \A p \in Callers : \A i, j \in 1..Len(thenBlocks'[p]) :
             i # j => thenBlocks'[p][i] # thenBlocks'[p][j]
    BY <1>3 DEF ListenersInv, OneBlockPerListener
  <1>11. \A p, b \in Callers : /\ ~(Queued(p, b) /\ Kept(p, b))
                               /\ ~(Queued(p, b) /\ Due(p, b))
                               /\ ~(Kept(p, b) /\ Due(p, b))
                               /\ Due(p, b) => promiseState[p] = "Resolved"
    BY DEF ListenersInv, OneBlockPerListener
  <1>12. \A p, b \in Callers : /\ Queued(p, b)' => Queued(p, b)
                               /\ Kept(p, b)' => Queued(p, b) \/ Kept(p, b)
                               /\ Due(p, b)' => Queued(p, b) \/ Kept(p, b) \/ Due(p, b)
                               /\ ~(Queued(p, b)' /\ Kept(p, b)')
                               /\ ~(Queued(p, b)' /\ Due(p, b)')
                               /\ ~(Kept(p, b)' /\ Due(p, b)')
                               /\ Due(p, b)' => promiseState'[p] = "Resolved"
    BY <1>2, <1>4, <1>5, <1>9, <1>11
  <1>13. QED
    BY <1>1, <1>2, <1>8, <1>10, <1>12, PlacesFit

LEMMA RemoveAtFacts ==
    ASSUME NEW S, NEW s \in Seq(S), NEW i \in 1..Len(s)
    PROVE  /\ Len(s) \in Nat /\ Len(D!RemoveAt(s, i)) = Len(s) - 1
           /\ \A k \in 1..Len(s) - 1 : D!RemoveAt(s, i)[k] = IF k < i THEN s[k] ELSE s[k + 1]
  <1>1. /\ SubSeq(s, 1, i - 1) \in Seq(S) /\ Len(SubSeq(s, 1, i - 1)) = i - 1
        /\ \A k \in 1..i - 1 : SubSeq(s, 1, i - 1)[k] = s[k]
    BY SubSeqProperties
  <1>2. /\ SubSeq(s, i + 1, Len(s)) \in Seq(S) /\ Len(SubSeq(s, i + 1, Len(s))) = Len(s) - i
        /\ \A k \in 1..Len(s) - i : SubSeq(s, i + 1, Len(s))[k] = s[i + k]
    BY SubSeqProperties
  <1> DEFINE front == SubSeq(s, 1, i - 1)
             back == SubSeq(s, i + 1, Len(s))
  <1>3. /\ D!RemoveAt(s, i) = front \o back
        /\ front \in Seq(S) /\ Len(front) = i - 1 /\ back \in Seq(S) /\ Len(back) = Len(s) - i
        /\ \A k \in 1..i - 1 : front[k] = s[k]
        /\ \A k \in 1..Len(s) - i : back[k] = s[i + k]
    BY <1>1, <1>2 DEF D!RemoveAt
  <1> HIDE DEF front, back
  <1>4. /\ front \o back \in Seq(S) /\ Len(front \o back) = Len(s) - 1
        /\ \A k \in 1..Len(s) - 1 :
               (front \o back)[k] = IF k =< i - 1 THEN front[k] ELSE back[k - (i - 1)]
    <2>1. /\ front \o back \in Seq(S) /\ Len(front \o back) = Len(front) + Len(back)
          /\ \A k \in 1..Len(front) + Len(back) :
                 (front \o back)[k] = IF k =< Len(front) THEN front[k] ELSE back[k - Len(front)]
      BY <1>3, ConcatProperties
    <2>2. Len(front) + Len(back) = Len(s) - 1
      BY <1>3
    <2>3. QED
      BY <1>3, <2>1, <2>2
  <1>5. ASSUME NEW k \in 1..Len(s) - 1
        PROVE  (front \o back)[k] = IF k < i THEN s[k] ELSE s[k + 1]
    <2>1. CASE k < i
      BY <1>3, <1>4, <2>1
    <2>2. CASE ~(k < i)
      <3>1. k - (i - 1) \in 1..Len(s) - i /\ i + (k - (i - 1)) = k + 1 /\ ~(k =< i - 1)
        BY <2>2
      <3>2. QED
        BY <1>3, <1>4, <2>2, <3>1
    <2>3. QED
      BY <2>1, <2>2
  <1>6. QED
    BY <1>3, <1>4, <1>5

\* A completion block is called: it was due, and no longer is.
LEMMA CompletionRuns ==
    ASSUME D!PromiseTypeOK, ListenersInv, D!RunCompletion
    PROVE  \E d, b \in Callers :
               /\ Due(d, b)
               /\ calls' = [calls EXCEPT ![b] = Append(@, promiseValue[d])]
               /\ \A p, c \in Callers : Due(p, c)' <=> (Due(p, c) /\ ~(p = d /\ c = b))
               /\ \A i, j \in 1..Len(completionQueue') :
                      i # j => completionQueue'[i] # completionQueue'[j]
  <1> DEFINE q == completionQueue
             t == completionQueue'
  <1>1. PICK k \in 1..Len(q), d \in Callers, b \in Callers :
            /\ q[k] = << d, b >>
            /\ t = D!RemoveAt(q, k)
            /\ calls' = [calls EXCEPT ![b] = Append(@, promiseValue[d])]
    <2>1. \A k \in 1..Len(q) : q[k] \in Callers \X Callers
      BY ElementOfSeq DEF D!PromiseTypeOK
    <2>2. PICK k \in 1..Len(q) :
            /\ t = D!RemoveAt(q, k)
            /\ calls' = [calls EXCEPT ![q[k][2]] = Append(@, promiseValue[q[k][1]])]
      BY DEF D!RunCompletion
    <2>3. PICK d \in Callers, b \in Callers : q[k] = << d, b >>
      BY <2>1
    <2>4. q[k][1] = d /\ q[k][2] = b
      BY <2>3
    <2> HIDE DEF q, t
    <2>5. QED
      BY <2>2, <2>3, <2>4
  <1>2. /\ Len(q) \in Nat /\ Len(t) = Len(q) - 1
        /\ \A i \in 1..Len(q) - 1 : t[i] = IF i < k THEN q[i] ELSE q[i + 1]
    <2>1. q \in Seq(Callers \X Callers)
      BY DEF D!PromiseTypeOK
    <2> HIDE DEF q, t
    <2>2. QED
      BY <1>1, <2>1, RemoveAtFacts
  <1>3. \A i, j \in 1..Len(q) : i # j => q[i] # q[j]
    BY DEF ListenersInv, OneBlockPerListener
  <1>4. \A p, c \in Callers : (Due(p, c) <=> \E i \in 1..Len(q) : q[i] = << p, c >>)
    BY DEF Due
  <1>5. \A p, c \in Callers : (Due(p, c)' <=> \E i \in 1..Len(t) : t[i] = << p, c >>)
    BY DEF Due
  <1>6. Due(d, b)
    BY <1>1, <1>4
  <1> HIDE DEF q, t
  <1> DEFINE From(i) == IF i < k THEN i ELSE i + 1
  <1>7. \A i \in 1..Len(t) : From(i) \in 1..Len(q) /\ From(i) # k /\ t[i] = q[From(i)]
    BY <1>2
  <1>8. \A i, j \in 1..Len(t) : i # j => From(i) # From(j)
    BY <1>2
  <1>9. \A j \in 1..Len(q) : j # k => \E i \in 1..Len(t) : From(i) = j
    <2>1. ASSUME NEW j \in 1..Len(q), j < k PROVE j \in 1..Len(t) /\ From(j) = j
      BY <1>1, <1>2, <2>1
    <2>2. ASSUME NEW j \in 1..Len(q), j > k PROVE j - 1 \in 1..Len(t) /\ From(j - 1) = j
      BY <1>1, <1>2, <2>2
    <2>3. \A j \in 1..Len(q) : j # k => j < k \/ j > k
      BY <1>1
    <2> HIDE DEF From
    <2>4. QED
      BY <2>1, <2>2, <2>3
  <1> HIDE DEF From
  <1>10. ASSUME NEW p \in Callers, NEW c \in Callers
         PROVE  Due(p, c)' <=> (Due(p, c) /\ ~(p = d /\ c = b))
    <2>1. ASSUME NEW i \in 1..Len(t), t[i] = << p, c >>
          PROVE  (\E j \in 1..Len(q) : q[j] = << p, c >>) /\ << p, c >> # << d, b >>
      BY <1>1, <1>3, <1>7, <2>1
    <2>2. ASSUME NEW j \in 1..Len(q), q[j] = << p, c >>, << p, c >> # << d, b >>
          PROVE  \E i \in 1..Len(t) : t[i] = << p, c >>
      <3>1. PICK i \in 1..Len(t) : From(i) = j
        BY <1>1, <1>9, <2>2
      <3>2. QED
        BY <1>7, <2>2, <3>1
    <2>3. << p, c >> = << d, b >> <=> p = d /\ c = b
      OBVIOUS
    <2>4. QED
      BY <1>4, <1>5, <2>1, <2>2, <2>3
  <1>11. \A i, j \in 1..Len(t) : i # j => t[i] # t[j]
    BY <1>3, <1>7, <1>8
  <1>12. \A p, c \in Callers : Due(p, c)' <=> (Due(p, c) /\ ~(p = d /\ c = b))
    BY <1>10
  <1>13. \A i, j \in 1..Len(completionQueue') : i # j => completionQueue'[i] # completionQueue'[j]
    BY <1>11 DEF t
  <1>14. calls' = [calls EXCEPT ![b] = Append(@, promiseValue[d])]
    BY <1>1
  <1>15. /\ Due(d, b)
         /\ calls' = [calls EXCEPT ![b] = Append(@, promiseValue[d])]
         /\ \A p, c \in Callers : Due(p, c)' <=> (Due(p, c) /\ ~(p = d /\ c = b))
         /\ \A i, j \in 1..Len(completionQueue') : i # j => completionQueue'[i] # completionQueue'[j]
    BY <1>6, <1>12, <1>13, <1>14
  <1>16. QED
    BY <1>15

LEMMA RunCompletionListeners ==
    ASSUME D!PromiseTypeOK, ListenersInv, D!RunCompletion, UNCHANGED << joined, pc >>
    PROVE  ListenersInv'
  <1>1. UNCHANGED << promiseQueue, promiseState, thenBlocks >>
    BY DEF D!RunCompletion
  <1>2. PICK d \in Callers, b \in Callers :
               /\ Due(d, b)
               /\ calls' = [calls EXCEPT ![b] = Append(@, promiseValue[d])]
               /\ \A p, c \in Callers : Due(p, c)' <=> (Due(p, c) /\ ~(p = d /\ c = b))
               /\ \A i, j \in 1..Len(completionQueue') :
                      i # j => completionQueue'[i] # completionQueue'[j]
    BY CompletionRuns
  <1>3. \A p, c \in Callers : (Queued(p, c)' <=> Queued(p, c)) /\ (Kept(p, c)' <=> Kept(p, c))
    BY <1>1 DEF Queued, Kept
  <1>4. \A c \in Callers : c # b => calls'[c] = calls[c]
    BY <1>2 DEF D!PromiseTypeOK
  <1>5. joined[b] = d /\ ~Queued(d, b) /\ ~Kept(d, b)
    BY <1>2 DEF ListenersInv, OneBlockPerListener
  <1>6. \A p \in Callers : ~Queued(p, b)' /\ ~Kept(p, b)' /\ ~Due(p, b)'
    BY <1>2, <1>3, <1>5 DEF ListenersInv, OneBlockPerListener
  <1>7. \A p, c \in Callers : Queued(p, c)' \/ Kept(p, c)' \/ Due(p, c)' =>
            joined'[c] = p /\ calls'[c] = << >>
    BY <1>2, <1>3, <1>4, <1>6 DEF ListenersInv, OneBlockPerListener
  <1>8. OneBlockPerListener'
    BY <1>1, <1>2, <1>3, <1>7 DEF ListenersInv, OneBlockPerListener
  <1>9. d # Nil
    BY RetryAssumption
  <1>10. QED
    BY <1>1, <1>2, <1>4, <1>5, <1>8, <1>9 DEF ListenersInv

LEMMA ResolveDeferredListeners ==
    ASSUME CoreInv, ListenersInv, NEW v \in Results, ResolveDeferred(v), UNCHANGED << pc, joined >>
    PROVE  ListenersInv'
  <1>1. CASE deferred = Nil
    BY <1>1, QuietListeners DEF ResolveDeferred
  <1>2. CASE deferred # Nil
    <2>1. PICK o \in Callers : o = deferred
      BY <1>2 DEF CoreInv, RetryTypeOK
    <2>2. D!Resolve(o, v)
      BY <1>2, <2>1 DEF ResolveDeferred
    <2>3. QED
      BY <2>2, ResolveListeners DEF CoreInv
  <1>3. QED
    BY <1>1, <1>2

LEMMA HandleResultListeners ==
    ASSUME CoreInv, ListenersInv, NEW r \in Runs, NEW result, NEW answer, NEW delay,
           HandleResult(r, result, answer, delay), UNCHANGED << pc, joined >>
    PROVE  ListenersInv'
  <1>1. CASE UNCHANGED promiseVars
    BY <1>1, QuietListeners
  <1>2. CASE ~UNCHANGED promiseVars
    <2>1. ResolveDeferred(IF result = "success" THEN "success"
                          ELSE IF state = "ActiveCancelling" THEN "cancelled" ELSE "failure")
      BY <1>2 DEF HandleResult
    <2>2. QED
      BY <2>1, ResolveDeferredListeners DEF Results
  <1>3. QED
    BY <1>1, <1>2

LEMMA RunPromisesListeners ==
    ASSUME CoreInv, ListenersInv, RunPromises
    PROVE  ListenersInv'
  <1>1. UNCHANGED << pc, joined >> /\ D!RunQueues
    BY DEF RunPromises, callerVars
  <1>2. CASE D!RunCompletion
    BY <1>1, <1>2, RunCompletionListeners DEF CoreInv
  <1>3. ASSUME NEW o \in Callers, D!RunThen(o) PROVE ListenersInv'
    BY <1>1, <1>3, RunThenListeners DEF CoreInv
  <1>4. ASSUME NEW o \in Callers, D!RunResolve(o) PROVE ListenersInv'
    BY <1>1, <1>4, RunResolveListeners DEF CoreInv
  <1>5. ASSUME NEW o \in Callers, D!RunSecondResolve(o) PROVE ListenersInv'
    BY <1>1, <1>5, QuietListeners DEF D!RunSecondResolve, D!promiseVars, promiseVars
  <1>6. QED
    BY <1>1, <1>2, <1>3, <1>4, <1>5 DEF D!RunQueues, D!RunSyncQueue

LEMMA ListenersStep == CoreInv /\ ListenersInv /\ [Next]_vars => ListenersInv'
  <1> SUFFICES ASSUME CoreInv, ListenersInv, [Next]_vars PROVE ListenersInv'
    OBVIOUS
  <1>1. ASSUME NEW c \in Callers, StartReturn(c) PROVE ListenersInv'
    <2>1. UNCHANGED << promiseVars, joined >> /\ \A b \in Callers : pc'[b] = "idle" => pc[b] = "idle"
      BY <1>1 DEF StartReturn, CoreInv, RetryTypeOK
    <2>2. QED
      BY <2>1, QuietListeners
  <1>2. ASSUME NEW id \in Callers, CancelDelay(id) PROVE ListenersInv'
    BY <1>2, ResolveDeferredListeners DEF CancelDelay, callerVars, Results
  <1>3. ASSUME NEW id \in Callers, CancelActive(id) PROVE ListenersInv'
    BY <1>3, QuietListeners DEF CancelActive, callerVars
  <1>4. ASSUME NEW r \in Runs, RunStep(r) PROVE ListenersInv'
    <2>1. CASE RunAction(r) \/ Report(r) \/ RunPolicy(r)
      BY <2>1, QuietListeners DEF RunAction, Report, Continuation, RunPolicy, callerVars
    <2>2. CASE HandleContinuation(r)
      <3>1. UNCHANGED << pc, joined >>
        BY <2>2 DEF HandleContinuation, callerVars
      <3>2. UNCHANGED promiseVars \/ HandleResult(r, outcome[r], "stop", currentDelay)
        BY <2>2 DEF HandleContinuation
      <3>3. QED
        BY <3>1, <3>2, QuietListeners, HandleResultListeners
    <2>3. CASE HandleDecision(r)
      BY <2>3, HandleResultListeners DEF HandleDecision, callerVars
    <2>4. QED
      BY <1>4, <2>1, <2>2, <2>3 DEF RunStep
  <1>5. ASSUME NEW r \in Runs, TimerStep(r) PROVE ListenersInv'
    BY <1>5, QuietListeners DEF TimerStep, TimerDue, TimerPost, TimerPostEnd, TimerSuspend,
       TimerCallback, callerVars
  <1>6. CASE Release
    BY <1>6, QuietListeners DEF Release
  <1>7. CASE UNCHANGED vars
    BY <1>7, QuietListeners DEF vars, callerVars
  <1>8. QED
    BY <1>1, <1>2, <1>3, <1>4, <1>5, <1>6, <1>7, StartListeners, RunPromisesListeners DEF Next

---------------------------------------------------------------------------
(* The invariant is inductive, and what follows from it.                   *)

\* The invariant that explains BRURetry holds in every behaviour, for any number
\* of callers, any retry limit and any delays (BRURetry.m:204-467).
THEOREM RetryInvariantHolds == Spec => []IInv
  <1>1. Init => IInv
    BY InitInv, InitHistory, InitListeners DEF IInv
  <1>2. IInv /\ [Next]_vars => IInv'
    BY CoreStep, HistoryStep, ListenersStep DEF IInv
  <1>3. QED
    BY <1>1, <1>2, PTL DEF Spec

\* Type correctness of BRURetry, its timers and its promises.
THEOREM TypeCorrect == Spec => []TypeOK
  <1>1. IInv => TypeOK
    BY DEF IInv, CoreInv, TypeOK, OnlyKnownAborts
  <1>2. QED
    BY <1>1, RetryInvariantHolds, PTL

\* The assertions of checkInvariants, of scheduleNextAction and of the promise's
\* resolve never fail (BRURetry.m:175-202, 208; BRUDeferred.m:93).
THEOREM InternalAssertionsHold == Spec => []OnlyKnownAborts
  <1>1. IInv => OnlyKnownAborts
    BY DEF IInv, CoreInv
  <1>2. QED
    BY <1>1, RetryInvariantHolds, PTL

\* One run at a time, that of the current attempt (BRURetry.m:204-240, 366-467).
THEOREM RunsDoNotOverlap == Spec => []OneRunUnderWay
  <1>1. IInv => OneRunUnderWay
    <2> SUFFICES ASSUME CoreInv PROVE OneRunUnderWay
      BY DEF IInv
    <2>1. state = "Idle" => Unfinished = {}
      BY DEF CoreInv, Unfinished, CurrentRun
    <2>2. ASSUME state # "Idle" PROVE Unfinished = { << identifier, attempt >> }
      <3>1. << identifier, attempt >> \in Runs
        BY <2>2, RunsType DEF CoreInv, FieldsFit, RetryTypeOK
      <3>2. << identifier, attempt >> \in Unfinished
        BY <2>2, <3>1 DEF CoreInv, Unfinished, CurrentRun
      <3>3. \A r \in Unfinished : r = << identifier, attempt >>
        BY DEF CoreInv, Unfinished, CurrentRun
      <3>4. QED
        BY <3>2, <3>3
    <2>3. \A r \in Unfinished : at[r] = "delayed" <=> state = "Delay"
      BY DEF CoreInv, Unfinished, CurrentRun
    <2>4. QED
      BY <2>1, <2>2, <2>3 DEF OneRunUnderWay
  <1>2. QED
    BY <1>1, RetryInvariantHolds, PTL

\* A step that begins an attempt leaves the operation running and not cancelling.
LEMMA AttemptBegins ==
    ASSUME CoreInv, Next, NEW r \in Runs, at[r] = "none", at'[r] = "queued"
    PROVE  state' = "ActiveWaiting"
  <1> USE DEF CoreInv, RetryTypeOK
  <1>1. ASSUME NEW c \in Callers, Start(c) PROVE state' = "ActiveWaiting"
    BY <1>1 DEF Start, BeginOperation, JoinOperation, RestoreOperation
  <1>2. ASSUME NEW c \in Callers, StartReturn(c) PROVE FALSE
    BY <1>2 DEF StartReturn, runVars
  <1>3. ASSUME NEW id \in Callers, CancelDelay(id) \/ CancelActive(id) PROVE FALSE
    BY <1>3 DEF CancelDelay, CancelActive, runVars
  <1>4. ASSUME NEW s \in Runs, RunStep(s) PROVE FALSE
    <2>1. ASSUME NEW result, NEW answer, NEW delay, HandleResult(s, result, answer, delay)
          PROVE  FALSE
      BY <2>1 DEF HandleResult, ScheduleNextAction
    <2>2. ~RunAction(s) /\ ~RunPolicy(s) /\ ~Report(s)
      BY DEF RunAction, RunPolicy, Report, Continuation
    <2>3. ~HandleContinuation(s) /\ ~HandleDecision(s)
      BY <2>1 DEF HandleContinuation, HandleDecision
    <2>4. QED
      BY <1>4, <2>2, <2>3 DEF RunStep
  <1>5. ASSUME NEW s \in Runs, TimerStep(s) PROVE state' = "ActiveWaiting"
    BY <1>5 DEF TimerStep, TimerDue, TimerPost, TimerPostEnd, TimerSuspend, TimerCallback,
       runVars
  <1>6. CASE RunPromises
    BY <1>6 DEF RunPromises, runVars
  <1>7. CASE Release
    BY <1>7 DEF Release, runVars
  <1>8. QED
    BY <1>1, <1>2, <1>3, <1>4, <1>5, <1>6, <1>7 DEF Next

\* Once a cancel was accepted and not undone the action block is not called for
\* another attempt of that operation (BRURetry.m:321-350).
THEOREM CancelStopsAttempts == Spec => NoAttemptAfterCancel
  <1> DEFINE Untouched == \A r \in Runs : at[r] = "none" /\ at'[r] = "queued" =>
                                              Operation(r) \notin cancelled'
  <1>1. IInv /\ [Next]_vars => [Untouched]_vars
    <2> SUFFICES ASSUME CoreInv, Next, NEW r \in Runs, at[r] = "none", at'[r] = "queued"
                 PROVE  Operation(r) \notin cancelled'
      BY DEF vars, IInv
    <2>1. CoreInv'
      BY CoreStep
    <2>2. state' = "ActiveWaiting"
      BY AttemptBegins
    <2>3. Operation(r) = identifier'
      <3>1. r = << identifier, attempt >>'
        BY <2>1 DEF CoreInv, CurrentRun
      <3>2. QED
        BY <3>1 DEF Operation
    <2>4. QED
      BY <2>1, <2>2, <2>3 DEF CoreInv, CancelShows
  <1>2. QED
    BY <1>1, RetryInvariantHolds, PTL DEF Spec, NoAttemptAfterCancel

\* An attempt follows another only if that failed for a while and the policy wants
\* it, for any policy and any retry limit (BRURetry.m:436-460).
THEOREM RetriesFollowThePolicy == Spec => []RetriesOnlyAfterPolicy
  <1>1. IInv => RetriesOnlyAfterPolicy
    BY DEF IInv, HistoryInv, PolicyAsked
  <1>2. QED
    BY <1>1, RetryInvariantHolds, PTL

\* The policy block of an attempt is handed the delay chosen after the one before, and
\* that of a new operation the delay of the construction, whatever the operations
\* before it chose and however they ended (BRURetry.m:336, 388, 394, 439).
THEOREM DelaysAreHandedOn == Spec => []DelayHandedOn
  <1>1. IInv => DelayHandedOn
    BY DEF IInv, HistoryInv, DelaysFit
  <1>2. QED
    BY <1>1, RetryInvariantHolds, PTL

\* What an operation came to is the truth about its last attempt and about the
\* cancels it accepted, for any interleaving of them (BRURetry.m:366-403).
THEOREM ResultsAreTheTruth == Spec => []ResultIsOfLastRun
  <1>1. IInv => ResultIsOfLastRun
    <2> SUFFICES ASSUME IInv, NEW o \in Callers, NEW v \in Settlements(o)
                 PROVE  LET r == LastRun(o)
                        IN  /\ v = "success" <=> outcome[r] = "success"
                            /\ v = "cancelled" => o \in cancelled
                            /\ v = "failure" => /\ o \notin cancelled
                                                /\ outcome[r] = "final" \/ response[r] = "stop"
      BY DEF ResultIsOfLastRun
    <2>1. PICK r \in Runs : EndedWith(o, v, r)
      BY DEF IInv, HistoryInv, ResultsAreTrue
    <2> DEFINE Last(t) == /\ Operation(t) = o /\ at[t] # "none"
                          /\ \A s \in Runs : Operation(s) = o /\ at[s] # "none" => Attempt(s) <= Attempt(t)
    <2>2. \A s, t \in Runs : Attempt(s) <= Attempt(t) \/ Attempt(s) > Attempt(t)
      BY RunsType
    <2>3. Last(r)
      BY <2>1, <2>2 DEF EndedWith
    <2>4. ASSUME NEW t \in Runs, Last(t) PROVE t = r
      <3>1. Attempt(r) <= Attempt(t) /\ Attempt(t) <= Attempt(r)
        BY <2>3, <2>4
      <3>2. Attempt(t) = Attempt(r)
        BY <3>1, RunsType
      <3>3. QED
        BY <2>3, <2>4, <3>2, RunsType
    <2>5. LastRun(o) = r
      <3>1. LastRun(o) = CHOOSE t \in Runs : Last(t)
        BY DEF LastRun
      <3> HIDE DEF Last
      <3>2. QED
        BY <2>3, <2>4, <3>1
    <2>6. QED
      BY <2>1, <2>5 DEF EndedWith
  <1>2. QED
    BY <1>1, RetryInvariantHolds, PTL

---------------------------------------------------------------------------
(* BRURetry implements RetryOperation: every step is one of its or none.   *)

\* What is done of RetryOperation's Settle: an operation ends with a result.
LEMMA OperationEnds ==
    ASSUME IInv, NEW v \in Results, ResolveDeferred(v), state # "Idle"
    PROVE  /\ Settlements(identifier) = {} /\ identifier \in Callers /\ identifier # Nil
           /\ UNCHANGED calls
           /\ [o \in Callers |-> Settlements(o)]' =
                  [[o \in Callers |-> Settlements(o)] EXCEPT ![identifier] = {v}]
  <1>1. identifier \in Callers /\ deferred = identifier /\ identifier # Nil
    BY RetryAssumption DEF IInv, CoreInv, FieldsFit
  <1>2. PICK o \in Callers : o = identifier
    BY <1>1
  <1>3. D!Resolve(o, v)
    BY <1>1, <1>2 DEF ResolveDeferred
  <1>4. Settlements(o) = {}
    BY <1>1, <1>2, NotSettled DEF IInv
  <1>5. \A p \in Callers : Settlements(p)' = Settlements(p) \cup (IF p = o THEN {v} ELSE {})
    BY <1>3, ResolveSettles DEF IInv, CoreInv
  <1>6. \A p \in Callers : Settlements(p)' = IF p = o THEN {v} ELSE Settlements(p)
    BY <1>4, <1>5
  <1>7. [p \in Callers |-> Settlements(p)]' = [[p \in Callers |-> Settlements(p)] EXCEPT ![o] = {v}]
    BY <1>6
  <1>8. UNCHANGED calls
    BY <1>3 DEF D!Resolve, D!Enqueue
  <1>9. QED
    BY <1>1, <1>2, <1>4, <1>7, <1>8

\* Steps a client does not notice.
LEMMA UnnoticedStep ==
    ASSUME UNCHANGED << identifier, joined, cancelled, calls, aborted >>,
           \A o \in Callers : Settlements(o)' = Settlements(o)
    PROVE  UNCHANGED R!vars
  BY DEF R!vars

LEMMA SameSettlements ==
    ASSUME UNCHANGED promiseVars
    PROVE  UNCHANGED calls /\ \A o \in Callers : Settlements(o)' = Settlements(o)
  BY DEF promiseVars, Settlements

\* An assertion of the caller stops the process.
LEMMA CrashStep ==
    ASSUME UNCHANGED << identifier, joined, cancelled, promiseVars >>, aborted = "no", aborted' # "no"
    PROVE  R!Next
  <1>1. UNCHANGED calls /\ \A o \in Callers : Settlements(o)' = Settlements(o)
    BY SameSettlements
  <1>2. [o \in Callers |-> Settlements(o)]' = [o \in Callers |-> Settlements(o)]
    BY <1>1
  <1>3. R!Crash
    BY <1>1, <1>2 DEF R!Crash
  <1>4. QED
    BY <1>3 DEF R!Next

LEMMA StartOperation ==
    ASSUME IInv, CoreInv', NEW c \in Callers, Start(c)
    PROVE  R!Next
  <1> USE DEF IInv, CoreInv
  <1>1. /\ pc[c] = "idle" /\ aborted = "no"
        /\ BeginOperation(c) \/ JoinOperation(c) \/ RestoreOperation(c)
        /\ aborted' \in {"no", "checkInvariants"}
    BY DEF Start, CheckInvariants
  <1>2. aborted' = "no"
    BY <1>1 DEF OnlyKnownAborts
  <1>3. joined[c] = Nil
    BY <1>1 DEF ListenersInv
  <1>4. /\ identifier' = IF identifier = Nil THEN c ELSE identifier
        /\ deferred' = identifier' /\ deferred' \in Callers
    BY <1>1, RetryAssumption DEF BeginOperation, JoinOperation, RestoreOperation, FieldsFit
  <1>5. cancelled' = cancelled \ {identifier'}
    <2>1. CASE BeginOperation(c)
      BY <1>1, <2>1 DEF BeginOperation, NothingAhead
    <2>2. CASE JoinOperation(c)
      BY <2>2 DEF JoinOperation, CancelShows
    <2>3. CASE RestoreOperation(c)
      BY <2>3 DEF RestoreOperation
    <2>4. QED
      BY <1>1, <2>1, <2>2, <2>3
  <1>6. joined' = IF c \in Listening THEN [joined EXCEPT ![c] = identifier'] ELSE joined
    BY <1>4 DEF Start
  <1>7. UNCHANGED calls /\ \A p \in Callers : Settlements(p)' = Settlements(p)
    <2>1. CASE c \in Listening
      <3>1. PICK o \in Callers : o = deferred'
        BY <1>4
      <3>2. D!Then(o, c)
        BY <2>1, <3>1 DEF Start
      <3>3. QED
        BY <3>2, ThenSettles DEF D!Then, D!Enqueue
    <2>2. CASE c \notin Listening
      BY <2>2, SameSettlements DEF Start
    <2>3. QED
      BY <2>1, <2>2
  <1>8. [o \in Callers |-> Settlements(o)]' = [o \in Callers |-> Settlements(o)]
    BY <1>7
  <1>9. R!Start(c)
    BY <1>1, <1>2, <1>3, <1>4, <1>5, <1>6, <1>7, <1>8 DEF R!Start
  <1>10. QED
    BY <1>1, <1>9 DEF R!Next

LEMMA CancelOperation ==
    ASSUME IInv, CoreInv', NEW id \in Callers, CancelDelay(id) \/ CancelActive(id)
    PROVE  R!Next
  <1> USE DEF IInv, CoreInv
  <1>1. /\ aborted = "no" /\ identifier = id /\ state \in {"Delay", "ActiveWaiting"}
        /\ aborted' \in {"no", "checkInvariants"}
        /\ cancelled' = cancelled \cup {id} /\ UNCHANGED joined
    BY DEF CancelDelay, CancelActive, MayCancel, CheckInvariants, callerVars
  <1>2. aborted' = "no"
    BY <1>1 DEF OnlyKnownAborts
  <1>3. identifier # Nil /\ identifier \notin cancelled
    BY <1>1, RetryAssumption DEF CancelShows
  <1>4. CASE CancelDelay(id)
    <2>1. ResolveDeferred("cancelled") /\ identifier' = Nil
      BY <1>4 DEF CancelDelay, BackToIdle
    <2>2. /\ Settlements(identifier) = {} /\ UNCHANGED calls
          /\ [o \in Callers |-> Settlements(o)]' =
                 [[o \in Callers |-> Settlements(o)] EXCEPT ![identifier] = {"cancelled"}]
      BY <1>1, <2>1, OperationEnds DEF Results
    <2>3. R!End("cancelled")
      BY <1>1, <2>1, <2>2 DEF R!End
    <2>4. R!Cancel
      BY <1>1, <1>2, <1>3, <2>2, <2>3 DEF R!Cancel
    <2>5. QED
      BY <1>1, <2>4 DEF R!Next
  <1>5. CASE CancelActive(id)
    <2>1. UNCHANGED << identifier, calls >> /\ \A o \in Callers : Settlements(o)' = Settlements(o)
      BY <1>5, SameSettlements DEF CancelActive
    <2>2. [o \in Callers |-> Settlements(o)]' = [o \in Callers |-> Settlements(o)]
      BY <2>1
    <2>3. R!Cancel
      BY <1>1, <1>2, <1>3, <2>1, <2>2 DEF R!Cancel
    <2>4. QED
      BY <1>1, <2>3 DEF R!Next
  <1>6. QED
    BY <1>4, <1>5

LEMMA HandledResult ==
    ASSUME IInv, CoreInv', NEW r \in Runs, at[r] \in {"reported", "decided"}, NEW answer, NEW delay,
           HandleResult(r, outcome[r], answer, delay), aborted = "no",
           UNCHANGED << joined, cancelled >>
    PROVE  R!Next \/ UNCHANGED R!vars
  <1> USE DEF IInv, CoreInv
  <1>1. state # "Idle" /\ identifier \in Callers /\ identifier # Nil
    BY UnderWay, RetryAssumption
  <1>2. aborted' \in {"no", "checkInvariants", "alreadyScheduled"}
    BY DEF HandleResult, CheckInvariants
  <1>3. aborted' = "no"
    BY <1>2 DEF OnlyKnownAborts
  <1>4. CASE Terminates(outcome[r], answer)
    <2> DEFINE v == IF outcome[r] = "success" THEN "success"
                    ELSE IF state = "ActiveCancelling" THEN "cancelled" ELSE "failure"
    <2>1. ResolveDeferred(v) /\ identifier' = Nil
      BY <1>4 DEF HandleResult, BackToIdle
    <2>2. v \in Results /\ (v = "success" \/ v = IF identifier \in cancelled THEN "cancelled" ELSE "failure")
      BY DEF Results, HistoryInv, CancelIsKnown, CancelShows
    <2> HIDE DEF v
    <2>3. /\ Settlements(identifier) = {} /\ UNCHANGED calls
          /\ [o \in Callers |-> Settlements(o)]' =
                 [[o \in Callers |-> Settlements(o)] EXCEPT ![identifier] = {v}]
      BY <1>1, <2>1, <2>2, OperationEnds
    <2>4. R!End(v)
      BY <1>1, <2>1, <2>3 DEF R!End
    <2>5. R!Settle
      BY <1>1, <1>3, <2>2, <2>3, <2>4 DEF R!Settle
    <2>6. QED
      BY <1>3, <2>5 DEF R!Next
  <1>5. CASE ~Terminates(outcome[r], answer)
    <2>1. UNCHANGED << identifier, promiseVars >>
      BY <1>5 DEF HandleResult, fields
    <2>2. QED
      BY <1>3, <2>1, SameSettlements, UnnoticedStep
  <1>6. QED
    BY <1>4, <1>5

LEMMA RunsImplement ==
    ASSUME IInv, CoreInv', NEW r \in Runs, RunStep(r)
    PROVE  R!Next \/ UNCHANGED R!vars
  <1>1. CASE RunAction(r) \/ Report(r) \/ RunPolicy(r)
    <2>1. UNCHANGED << identifier, joined, cancelled, promiseVars, aborted >>
      BY <1>1 DEF RunAction, Report, Continuation, RunPolicy, callerVars, fields
    <2>2. QED
      BY <2>1, SameSettlements, UnnoticedStep
  <1>2. CASE HandleContinuation(r)
    <2>1. UNCHANGED << joined, cancelled >> /\ aborted = "no" /\ at[r] = "reported"
      BY <1>2 DEF HandleContinuation, callerVars
    <2>2. CASE UNCHANGED << identifier, promiseVars, aborted >>
      BY <2>1, <2>2, SameSettlements, UnnoticedStep
    <2>3. CASE HandleResult(r, outcome[r], "stop", currentDelay)
      BY <2>1, <2>3, HandledResult
    <2>4. QED
      BY <1>2, <2>2, <2>3 DEF HandleContinuation, fields
  <1>3. CASE HandleDecision(r)
    BY <1>3, HandledResult DEF HandleDecision, callerVars
  <1>4. QED
    BY <1>1, <1>2, <1>3 DEF RunStep

LEMMA TimersImplement ==
    ASSUME NEW r \in Runs, TimerStep(r)
    PROVE  R!Next \/ UNCHANGED R!vars
  <1>1. UNCHANGED << identifier, joined, cancelled, promiseVars >> /\ aborted = "no"
    BY DEF TimerStep, TimerDue, TimerPost, TimerPostEnd, TimerSuspend, TimerCallback, callerVars,
       fields
  <1>2. CASE aborted' = "no"
    BY <1>1, <1>2, SameSettlements, UnnoticedStep
  <1>3. CASE aborted' # "no"
    BY <1>1, <1>3, CrashStep
  <1>4. QED
    BY <1>2, <1>3

LEMMA PromisesImplement ==
    ASSUME IInv, CoreInv', RunPromises
    PROVE  R!Next \/ UNCHANGED R!vars
  <1> USE DEF IInv, CoreInv
  <1>1. D!RunQueues /\ UNCHANGED << identifier, joined, cancelled >>
    BY DEF RunPromises, fields, callerVars
  <1>2. \A o \in Callers : Settlements(o)' = Settlements(o)
    BY <1>1, QueuesSettle
  <1>3. CASE D!RunCompletion
    <2>1. PICK d \in Callers, b \in Callers :
              Due(d, b) /\ calls' = [calls EXCEPT ![b] = Append(@, promiseValue[d])]
      BY <1>3, CompletionRuns
    <2>2. joined[b] = d /\ calls[b] = << >> /\ promiseState[d] = "Resolved"
      BY <2>1 DEF ListenersInv, OneBlockPerListener
    <2>3. PICK v \in Results : promiseValue[d] = << v >>
      BY <2>2 DEF D!PromiseTypeOK, D!NoValue, HistoryInv, ValueIsResolved
    <2>4. v \in Settlements(d)
      BY <2>3 DEF Settlements
    <2>5. calls' = [calls EXCEPT ![b] = << << v >> >>]
      <3>1. Append(<< >>, << v >>) = << << v >> >>
        OBVIOUS
      <3>2. calls' = [calls EXCEPT ![b] = Append(calls[b], promiseValue[d])]
        BY <2>1
      <3>3. QED
        BY <2>2, <2>3, <3>1, <3>2
    <2>6. aborted = "no" /\ UNCHANGED aborted
      BY <1>3 DEF D!RunCompletion
    <2>7. d # Nil
      BY RetryAssumption
    <2>8. [o \in Callers |-> Settlements(o)]' = [o \in Callers |-> Settlements(o)]
      BY <1>2
    <2>9. v \in [o \in Callers |-> Settlements(o)][joined[b]]
      BY <2>2, <2>4
    <2>10. R!Hear(b)
      BY <1>1, <2>2, <2>5, <2>6, <2>7, <2>8, <2>9 DEF R!Hear
    <2>11. QED
      BY <2>6, <2>10 DEF R!Next
  <1>4. ASSUME NEW o \in Callers, D!RunThen(o) \/ D!RunResolve(o) PROVE UNCHANGED R!vars
    BY <1>1, <1>2, <1>4, UnnoticedStep DEF D!RunThen, D!RunResolve
  <1>5. ASSUME NEW o \in Callers, D!RunSecondResolve(o) PROVE FALSE
    BY <1>5 DEF D!RunSecondResolve, OnlyKnownAborts
  <1>6. QED
    BY <1>1, <1>3, <1>4, <1>5 DEF D!RunQueues, D!RunSyncQueue

LEMMA OperationStep ==
    ASSUME IInv, CoreInv', [Next]_vars
    PROVE  R!Next \/ UNCHANGED R!vars
  <1>1. ASSUME NEW c \in Callers, StartReturn(c) PROVE R!Next \/ UNCHANGED R!vars
    <2>1. UNCHANGED << identifier, joined, cancelled, promiseVars >> /\ aborted = "no"
      BY <1>1 DEF StartReturn, fields
    <2>2. QED
      BY <2>1, SameSettlements, UnnoticedStep, CrashStep
  <1>2. CASE Release \/ UNCHANGED vars
    <2>1. UNCHANGED << identifier, joined, cancelled, promiseVars, aborted >>
      BY <1>2 DEF Release, vars, fields, callerVars
    <2>2. QED
      BY <2>1, SameSettlements, UnnoticedStep
  <1>3. QED
    BY <1>1, <1>2, StartOperation, CancelOperation, RunsImplement, TimersImplement,
       PromisesImplement DEF Next

\* Attempts, policy, timers, promises and queues do together only what the client of
\* a BRURetry is told may happen: one operation at a time, one result for each, the
\* same for everybody who joined it (BRURetry.m:204-467).  That it does happen is
\* left to TLC.
THEOREM RetryIsOperation == Spec => R!Safety
  <1>1. Init => R!Init
    <2> SUFFICES ASSUME Init PROVE R!Init
      OBVIOUS
    <2>1. \A o \in Callers : Settlements(o) = {}
      BY DEF Init, D!InitPromises, D!NoValue, Settlements
    <2>2. QED
      BY <2>1 DEF Init, D!InitPromises, R!Init
  <1>2. IInv /\ IInv' /\ [Next]_vars => [R!Next]_(R!vars)
    BY OperationStep DEF IInv
  <1>3. QED
    BY <1>1, <1>2, RetryInvariantHolds, PTL DEF Spec, R!Safety

==============================================================================
