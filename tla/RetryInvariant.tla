--------------------------- MODULE RetryInvariant ---------------------------
(***************************************************************************)
(* The inductive invariant of BRURetry: why its safety properties hold.    *)
(* CoreInv is about the fields, the timers and the promises of one moment; *)
(* HistoryInv, which rests on it, about what is remembered of the runs     *)
(* that are over; ListenersInv is about the completion blocks.  A TLC run  *)
(* checks them all, and module RetryProofs proves that every step          *)
(* preserves them.                                                         *)
(***************************************************************************)
EXTENDS RetryProperties

\* The fields always fit together, also between the blocks that assert it.
FieldsFit ==
    /\ state = "Idle" => timer = Nil /\ attempt = 0 /\ identifier = Nil /\ deferred = Nil
    /\ state # "Idle" => attempt > 0 /\ identifier \in Callers /\ deferred = identifier
    /\ state = "Delay" => timer = << identifier, attempt >>
    /\ state # "Delay" => timer = Nil

\* The one run under way is the current attempt, delayed exactly in the state Delay.
CurrentRun ==
    /\ state # "Idle" => at[<< identifier, attempt >>] \notin {"none", "done"}
    /\ \A r \in Runs : at[r] \notin {"none", "done"} =>
           /\ state # "Idle"
           /\ r = << identifier, attempt >>
           /\ at[r] = "delayed" <=> state = "Delay"

\* Nothing exists yet of an operation whose call was not made, nor of an attempt
\* after the current one.
NothingAhead ==
    /\ \A r \in Runs : pc[Operation(r)] = "idle" => at[r] = "none" /\ timerAt[r] = "none"
    /\ \A r \in Runs : Operation(r) = identifier /\ Attempt(r) > attempt =>
           at[r] = "none" /\ timerAt[r] = "none"
    /\ \A c \in Callers : pc[c] = "idle" => c # identifier /\ c \notin cancelled

\* Only a policy with retries left leads to another attempt.
RetriesLeft ==
    \A r \in Runs :
        /\ at[r] = "decided" /\ response[r] # "stop" => Attempt(r) < MaxRetries
        /\ at[r] = "delayed" => Attempt(r) < MaxRetries

\* Of the timers on their way only the one BRURetry holds is the current
\* operation's; those that are left from earlier operations do not match it.
OneTimerMatches ==
    \A r \in Runs :
        Operation(r) = identifier /\ timerAt[r] \notin {"none", "gone"} => timer = r

\* A cancel of the current operation that was not undone shows in the state.
CancelShows == identifier \in cancelled => state = "ActiveCancelling"

Unresolved(o) ==
    /\ promiseState[o] = "Pending"
    /\ \A i \in 1..Len(promiseQueue[o]) : promiseQueue[o][i].op = "then"

\* The promises are resolved once: not before their operation ends, and then by
\* a single block.
ResolvedOnce ==
    /\ \A o \in Callers : deferred = o \/ pc[o] = "idle" => Unresolved(o)
    /\ \A o \in Callers : \A i \in 1..Len(promiseQueue[o]) :
           promiseQueue[o][i].op = "resolve" =>
               /\ promiseState[o] = "Pending"
               /\ \A j \in 1..Len(promiseQueue[o]) :
                      j # i => promiseQueue[o][j].op = "then"

CoreInv ==
    /\ RetryTypeOK
    /\ D!PromiseTypeOK
    /\ OnlyKnownAborts
    /\ FieldsFit
    /\ CurrentRun
    /\ NothingAhead
    /\ RetriesLeft
    /\ OneTimerMatches
    /\ CancelShows
    /\ ResolvedOnce

---------------------------------------------------------------------------

Before(r) == << Operation(r), Attempt(r) - 1 >>

\* The delay BRURetry holds is the one the next policy block must be handed.
CurrentDelayFits(r) ==
    IF Attempt(r) = 1 THEN AfterAnother(r) => currentDelay = Delay
    ELSE currentDelay = chosen[Before(r)]

DelaysFit ==
    /\ DelayHandedOn
    /\ state = "Idle" => currentDelay = Delay \/ \A r \in Runs : at[r] = "none"
    /\ \A r \in Runs :
           /\ at[r] \in {"queued", "running", "reported"} => CurrentDelayFits(r)
           /\ at[r] = "delayed" => currentDelay = chosen[r]

\* The policy is asked about transient failures only, and answers before the delay.
PolicyAsked ==
    /\ RetriesOnlyAfterPolicy
    /\ \A r \in Runs :
           /\ at[r] = "reported" => outcome[r] # "none"
           /\ at[r] \in {"policy", "decided", "delayed"} => outcome[r] = "transient"
           /\ at[r] = "decided" => response[r] \in {"retry", "stop"}
           /\ at[r] = "delayed" => response[r] = "retry"

CancelIsKnown == state = "ActiveCancelling" => identifier \in cancelled

ValueIsResolved == \A o \in Callers : promiseState[o] = "Pending" <=> promiseValue[o] = << >>

\* Run r was the last of operation o, and v is what it came to.
EndedWith(o, v, r) ==
    /\ Operation(r) = o /\ at[r] = "done"
    /\ \A s \in Runs : Operation(s) = o /\ Attempt(s) > Attempt(r) => at[s] = "none"
    /\ v = "success" <=> outcome[r] = "success"
    /\ v = "cancelled" => o \in cancelled
    /\ v = "failure" => o \notin cancelled /\ (outcome[r] = "final" \/ response[r] = "stop")

ResultsAreTrue == \A o \in Callers : \A v \in Settlements(o) : \E r \in Runs : EndedWith(o, v, r)

HistoryInv ==
    /\ DelaysFit
    /\ PolicyAsked
    /\ CancelIsKnown
    /\ ValueIsResolved
    /\ ResultsAreTrue

---------------------------------------------------------------------------

\* The places where the block of a `then:' can be: on the queue of its promise,
\* kept by it, or due on the completion queue.
Queued(o, c) == \E i \in 1..Len(promiseQueue[o]) : promiseQueue[o][i] = D!ThenCall(c)
Kept(o, c) == \E i \in 1..Len(thenBlocks[o]) : thenBlocks[o][i] = c
Due(o, c) == \E i \in 1..Len(completionQueue) : completionQueue[i] = << o, c >>

\* It is only in one of them, once, and not after it was called.
OneBlockPerListener ==
    /\ \A o, c \in Callers : Queued(o, c) \/ Kept(o, c) \/ Due(o, c) =>
           joined[c] = o /\ calls[c] = << >>
    /\ \A o, c \in Callers : /\ ~(Queued(o, c) /\ Kept(o, c))
                             /\ ~(Queued(o, c) /\ Due(o, c))
                             /\ ~(Kept(o, c) /\ Due(o, c))
    /\ \A o \in Callers : \A i, j \in 1..Len(promiseQueue[o]) :
           i # j /\ promiseQueue[o][i].op = "then" => promiseQueue[o][i] # promiseQueue[o][j]
    /\ \A o \in Callers : \A i, j \in 1..Len(thenBlocks[o]) :
           i # j => thenBlocks[o][i] # thenBlocks[o][j]
    /\ \A i, j \in 1..Len(completionQueue) : i # j => completionQueue[i] # completionQueue[j]

ListenersInv ==
    /\ OneBlockPerListener
    /\ \A o, c \in Callers : Due(o, c) => promiseState[o] = "Resolved"
    /\ \A c \in Callers : joined[c] = Nil => calls[c] = << >>
    /\ \A c \in Callers : pc[c] = "idle" => joined[c] = Nil

IInv == CoreInv /\ HistoryInv /\ ListenersInv
==============================================================================
