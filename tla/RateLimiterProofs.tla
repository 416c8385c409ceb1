--------------------------- MODULE RateLimiterProofs ---------------------------
(***************************************************************************)
(* Proofs about BRURateLimiter, for any results.  What makes syncQueue go  *)
(* on is a token: a thread about to dispatch a block, a block that waits   *)
(* or a block that takes.  There is one at most, and none while the box is *)
(* empty.  (With the limiter gone the box may stay full without a token.)  *)
(***************************************************************************)
EXTENDS BRURateLimiter, TLAPS

Users == Results \cup {SyncQueue}

LimiterTypeOK ==
    /\ box \in Results \cup {Nil}
    /\ DOMAIN call = Users /\ DOMAIN answer = Users
    /\ at \in [Users -> {"outside", "locking"}]
    /\ pc \in [Results -> {"idle", "swapping", "dispatching", "done"}]
    /\ blocks \in {0, 1}
    /\ running \in {"nothing", "take", "deliver"}
    /\ suspended \in {0, 1}
    /\ completionBlock \in Results \cup {Nil}
    /\ held \in SUBSET Results
    /\ released \in BOOLEAN /\ deallocated \in BOOLEAN
    /\ aborted = "no"

\* Who is in a call of the box, and in which: only threads in setResult: and a block of
\* syncQueue are, and none of them sleeps.
BoxCalls ==
    /\ \A r \in Results :
           IF pc[r] = "swapping"
           THEN at[r] = "locking" /\ call[r] = [op |-> "trySwap", new |-> r]
           ELSE at[r] = "outside"
    /\ IF running = "take"
       THEN at[SyncQueue] = "locking" /\ call[SyncQueue] = [op |-> "take"]
       ELSE at[SyncQueue] = "outside"

\* There is one token at most, and none while the box is empty.
OneToken ==
    /\ \A r \in Results : pc[r] = "dispatching" =>
           /\ box # Nil /\ blocks = 0 /\ running # "take"
           /\ \A q \in Results : pc[q] = "dispatching" => q = r
    /\ blocks = 1 => box # Nil /\ running # "take"
    /\ running = "take" => box # Nil

\* The queue is suspended for the result the client works on, and the completion block
\* it holds is the one for that result.
SuspendedForClient ==
    /\ suspended = IF completionBlock # Nil THEN 1 ELSE 0
    /\ held \subseteq {completionBlock}
    /\ running = "take" => completionBlock = Nil

\* A limiter that is gone is not used, and nobody keeps it.
GoneIsUnused == deallocated => ~Alive

LimiterInv == LimiterTypeOK /\ BoxCalls /\ OneToken /\ SuspendedForClient /\ GoneIsUnused

---------------------------------------------------------------------------
(* The calls of the box.                                                   *)

\* The call of trySwap: puts the result into the box and returns what was in it.
LEMMA SwapEffect ==
    ASSUME LimiterInv, NEW r \in Results, Swap(r)
    PROVE  /\ box' = r /\ answer'[r] = box
           /\ at' = [at EXCEPT ![r] = "outside"]
           /\ DOMAIN call' = Users /\ DOMAIN answer' = Users
           /\ \A u \in Users \ {r} : call'[u] = call[u]
<1>1. at[r] = "locking" /\ call[r] = [op |-> "trySwap", new |-> r] /\ r \in Users
  BY DEF LimiterInv, BoxCalls, Swap, Users
<1>2. B!TrySwap(r)
  BY <1>1 DEF Swap, B!Step, B!Lock, B!GiveUp
<1>3. B!ReplaceBy(r, r, box)
  BY <1>1, <1>2 DEF B!TrySwap
<1>4. at' = [at EXCEPT ![r] = "outside"]
  BY <1>1, <1>3 DEF B!ReplaceBy, LimiterInv, LimiterTypeOK, Users
<1> QED BY <1>1, <1>3, <1>4 DEF B!ReplaceBy, B!Return, LimiterInv, LimiterTypeOK

\* The call of take: finds a result and leaves the box empty.
LEMMA TakeEffect ==
    ASSUME LimiterInv, PerformSetResult
    PROVE  /\ box # Nil /\ box' = Nil /\ answer'[SyncQueue] = box
           /\ at' = [at EXCEPT ![SyncQueue] = "outside"]
           /\ DOMAIN call' = Users /\ DOMAIN answer' = Users
           /\ \A u \in Users \ {SyncQueue} : call'[u] = call[u]
<1>1. /\ at[SyncQueue] = "locking" /\ call[SyncQueue] = [op |-> "take"] /\ SyncQueue \in Users
      /\ box # Nil
  BY DEF LimiterInv, BoxCalls, OneToken, PerformSetResult, Users
<1>2. B!Take(SyncQueue)
  BY <1>1 DEF PerformSetResult, B!Step, B!Lock, B!GiveUp
<1>3. B!ReplaceBy(SyncQueue, Nil, box)
  BY <1>1, <1>2 DEF B!Take
<1>4. at' = [at EXCEPT ![SyncQueue] = "outside"]
  BY <1>1, <1>3 DEF B!ReplaceBy, LimiterInv, LimiterTypeOK, Users
<1> QED BY <1>1, <1>3, <1>4 DEF B!ReplaceBy, B!Return, LimiterInv, LimiterTypeOK

\* What syncQueue does with the result: the client is handed it, as it completed the
\* one before.
LEMMA DeliverEffect ==
    ASSUME LimiterInv, PerformSetResult
    PROVE  /\ running = "take" /\ running' = "deliver" /\ aborted' = aborted
           /\ completionBlock = Nil /\ completionBlock' = box
           /\ suspended' = suspended + 1
           /\ held' = held \cup {box} /\ handed' = Append(handed, box)
<1>1. at'[SyncQueue] = "outside" /\ answer'[SyncQueue] = box
  BY TakeEffect DEF LimiterInv, LimiterTypeOK, Users
<1> QED BY <1>1 DEF PerformSetResult, Suspended, LimiterInv, SuspendedForClient, LimiterTypeOK

---------------------------------------------------------------------------
(* The invariant: one lemma per action.                                    *)

\* A new limiter.
LEMMA InitLimiterInv == Init => LimiterInv
<1> SUFFICES ASSUME Init PROVE LimiterInv
  OBVIOUS
<1> USE NamesDiffer DEF Init, B!InitBox
<1>1. LimiterTypeOK
  BY DEF LimiterTypeOK, Users
<1>2. BoxCalls
  BY DEF BoxCalls
<1>3. OneToken /\ SuspendedForClient /\ GoneIsUnused
  BY DEF OneToken, SuspendedForClient, GoneIsUnused
<1> QED BY <1>1, <1>2, <1>3 DEF LimiterInv

\* A thread enters setResult:.
LEMMA SetResultInv == ASSUME LimiterInv, NEW r \in Results, SetResult(r) PROVE LimiterInv'
<1> USE NamesDiffer DEF LimiterInv, SetResult, B!Call
<1>1. LimiterTypeOK'
  <2>1. r \in Users /\ at' \in [Users -> {"outside", "locking"}] /\ DOMAIN call' = Users
    BY DEF LimiterTypeOK, Users
  <2> QED BY <2>1 DEF LimiterTypeOK, ownerVars
<1>2. BoxCalls'
  BY DEF BoxCalls, LimiterTypeOK, Users
<1>3. OneToken'
  BY DEF OneToken, LimiterTypeOK
<1>4. SuspendedForClient'
  BY DEF SuspendedForClient
<1>5. GoneIsUnused'
  BY DEF GoneIsUnused, Alive, ownerVars
<1> QED BY <1>1, <1>2, <1>3, <1>4, <1>5

\* Who finds the box empty becomes the token.
LEMMA SwapInv == ASSUME LimiterInv, NEW r \in Results, Swap(r) PROVE LimiterInv'
<1> USE NamesDiffer, SwapEffect DEF LimiterInv, Swap, NeedsBlock, ownerVars
<1>1. LimiterTypeOK'
  BY DEF LimiterTypeOK, Users
<1>2. BoxCalls'
  <2>1. /\ at'[r] = "outside" /\ pc'[r] # "swapping"
        /\ \A u \in Users \ {r} : at'[u] = at[u] /\ call'[u] = call[u]
        /\ \A q \in Results \ {r} : pc'[q] = pc[q]
        /\ r \in Users /\ SyncQueue \in Users \ {r} /\ Results \subseteq Users
        /\ running' = running
    BY ZenonT(30) DEF LimiterTypeOK, Users
  <2> QED BY <2>1 DEF BoxCalls
<1>3. OneToken'
  BY ZenonT(30) DEF OneToken, LimiterTypeOK
<1>4. SuspendedForClient'
  BY DEF SuspendedForClient
<1>5. GoneIsUnused'
  BY DEF GoneIsUnused, Alive
<1> QED BY <1>1, <1>2, <1>3, <1>4, <1>5

\* The block it dispatches is the token now.
LEMMA DispatchInv == ASSUME LimiterInv, NEW r \in Results, Dispatch(r) PROVE LimiterInv'
<1> USE NamesDiffer DEF LimiterInv, Dispatch, boxVars, ownerVars
<1>1. LimiterTypeOK'
  BY DEF LimiterTypeOK, OneToken
<1>2. BoxCalls'
  BY DEF BoxCalls, LimiterTypeOK
<1>3. OneToken'
  BY DEF OneToken, LimiterTypeOK
<1>4. SuspendedForClient'
  BY DEF SuspendedForClient
<1>5. GoneIsUnused'
  BY DEF GoneIsUnused, Alive
<1> QED BY <1>1, <1>2, <1>3, <1>4, <1>5

\* A block that runs keeps the token, unless it finds the limiter gone.
LEMMA RunBlockInv == ASSUME LimiterInv, RunBlock PROVE LimiterInv'
<1> USE NamesDiffer DEF LimiterInv, RunBlock, B!Call, boxVars, ownerVars
<1>1. LimiterTypeOK'
  BY DEF LimiterTypeOK, Users
<1>2. BoxCalls'
  BY DEF BoxCalls, LimiterTypeOK, Users
<1>3. OneToken'
  BY DEF OneToken, LimiterTypeOK
<1>4. SuspendedForClient'
  BY DEF SuspendedForClient, LimiterTypeOK
<1>5. GoneIsUnused'
  BY DEF GoneIsUnused, Alive
<1> QED BY <1>1, <1>2, <1>3, <1>4, <1>5

\* The token is spent, and the queue suspended.
LEMMA PerformSetResultInv == ASSUME LimiterInv, PerformSetResult PROVE LimiterInv'
<1> USE NamesDiffer, TakeEffect, DeliverEffect DEF LimiterInv
<1>0. UNCHANGED << pc, blocks, released, deallocated >>
  BY DEF PerformSetResult, ownerVars
<1>1. LimiterTypeOK'
  BY <1>0 DEF LimiterTypeOK, Users, SuspendedForClient
<1>2. BoxCalls'
  BY <1>0 DEF BoxCalls, LimiterTypeOK, Users
<1>3. OneToken'
  BY <1>0 DEF OneToken, LimiterTypeOK
<1>4. SuspendedForClient'
  BY <1>0 DEF SuspendedForClient, LimiterTypeOK
<1>5. GoneIsUnused'
  BY <1>0 DEF GoneIsUnused, Alive
<1> QED BY <1>1, <1>2, <1>3, <1>4, <1>5

\* The block ends, and the client may complete or drop what it holds.
LEMMA ClientInv ==
    ASSUME LimiterInv,
           EndBlock \/ (\E r \in Results : Complete(r) \/ Drop(r)) \/ Release
    PROVE  LimiterInv'
<1>0. UNCHANGED boxVars /\ UNCHANGED << pc, blocks, deallocated, aborted >>
  BY DEF EndBlock, Complete, Drop, Release, ownerVars
<1>1. CASE EndBlock
  BY <1>0, <1>1 DEF EndBlock, ownerVars, boxVars, LimiterInv, LimiterTypeOK, BoxCalls, OneToken,
                    SuspendedForClient, GoneIsUnused, Alive
<1>2. ASSUME NEW r \in Results, Complete(r) PROVE LimiterInv'
  <2>1. completionBlock = r /\ suspended = 1 /\ running # "take"
    BY <1>2, NamesDiffer DEF Complete, LimiterInv, SuspendedForClient
  <2> USE <1>0, <1>2, <2>1, NamesDiffer DEF Complete, Completed, ownerVars, boxVars, LimiterInv
  <2>2. LimiterTypeOK'
    BY DEF LimiterTypeOK
  <2>3. BoxCalls' /\ OneToken'
    BY DEF BoxCalls, OneToken
  <2>4. SuspendedForClient'
    BY DEF SuspendedForClient
  <2>5. GoneIsUnused'
    BY DEF GoneIsUnused, Alive
  <2> QED BY <2>2, <2>3, <2>4, <2>5
<1>3. ASSUME NEW r \in Results, Drop(r) PROVE LimiterInv'
  BY <1>0, <1>3 DEF Drop, ownerVars, boxVars, LimiterInv, LimiterTypeOK, BoxCalls, OneToken,
                    SuspendedForClient, GoneIsUnused, Alive
<1>4. CASE Release
  BY <1>0, <1>4 DEF Release, boxVars, LimiterInv, LimiterTypeOK, BoxCalls, OneToken,
                    SuspendedForClient, GoneIsUnused, Alive
<1> QED BY <1>1, <1>2, <1>3, <1>4

\* A limiter that goes completes what the client did not.
LEMMA DeallocInv == ASSUME LimiterInv, Dealloc PROVE LimiterInv'
<1> USE NamesDiffer DEF LimiterInv, Dealloc, CleanUp, Completed, boxVars
<1>1. LimiterTypeOK'
  BY DEF LimiterTypeOK, SuspendedForClient
<1>2. BoxCalls' /\ OneToken'
  BY DEF BoxCalls, OneToken
<1>3. SuspendedForClient'
  BY DEF SuspendedForClient, Alive
<1>4. GoneIsUnused'
  BY DEF GoneIsUnused, Alive
<1> QED BY <1>1, <1>2, <1>3, <1>4

\* Every step of the limiter and its clients keeps the invariant.
LEMMA LimiterStep == LimiterInv /\ [Next]_vars => LimiterInv'
<1> SUFFICES ASSUME LimiterInv, [Next]_vars PROVE LimiterInv'
  OBVIOUS
<1>1. CASE UNCHANGED vars
  BY <1>1 DEF vars, boxVars, ownerVars, LimiterInv, LimiterTypeOK, BoxCalls, OneToken,
              SuspendedForClient, GoneIsUnused, Alive
<1> QED BY <1>1, SetResultInv, SwapInv, DispatchInv, RunBlockInv, PerformSetResultInv, ClientInv,
           DeallocInv DEF Next

LEMMA LimiterInvariant == Spec => []LimiterInv
BY InitLimiterInv, LimiterStep, PTL DEF Spec

\* syncQueue never sleeps in take and never finds a completion block pending, whatever
\* threads set results and whatever the client does with the completion blocks
\* (BRURateLimiter.m:65-71, 84-88).
THEOREM TakeFindsResult == Spec => []SyncQueueNeverBlocks
<1>1. LimiterInv => SyncQueueNeverBlocks
  BY DEF LimiterInv, LimiterTypeOK, BoxCalls, OneToken, SyncQueueNeverBlocks
<1> QED BY <1>1, LimiterInvariant, PTL

---------------------------------------------------------------------------
(* The mailbox.                                                            *)

\* Each step of the limiter is a step of the mailbox or changes nothing of it.
LEMMA StepOfMailbox == LimiterInv /\ [Next]_vars => [L!Next]_(L!vars)
<1> SUFFICES ASSUME LimiterInv, [Next]_vars PROVE [L!Next]_(L!vars)
  OBVIOUS
<1> DEFINE set == { r \in Results : pc[r] \in {"dispatching", "done"} }
<1> USE DEF L!vars
<1>1. ASSUME NEW r \in Results, SetResult(r) PROVE UNCHANGED L!vars
  <2>1. set' = set
    BY <1>1 DEF SetResult, LimiterInv, LimiterTypeOK
  <2> QED BY <1>1, <2>1 DEF SetResult, B!Call, ownerVars
<1>2. ASSUME NEW r \in Results, Swap(r) PROVE L!Set(r)
  <2>1. r \notin set /\ set' = set \cup {r}
    BY <1>2 DEF Swap, LimiterInv, LimiterTypeOK
  <2> QED BY <1>2, <2>1, SwapEffect DEF Swap, ownerVars, L!Set
<1>3. ASSUME NEW r \in Results, Dispatch(r) PROVE UNCHANGED L!vars
  <2>1. set' = set
    BY <1>3 DEF Dispatch, LimiterInv, LimiterTypeOK
  <2> QED BY <1>3, <2>1 DEF Dispatch, boxVars, ownerVars
<1>4. ASSUME NEW r \in Results, Complete(r) PROVE L!Finish
  BY <1>4, NamesDiffer DEF Complete, Completed, boxVars, ownerVars, L!Finish, LimiterInv,
                           SuspendedForClient
<1>5. ASSUME NEW r \in Results, Drop(r) PROVE UNCHANGED L!vars
  BY <1>5 DEF Drop, boxVars, ownerVars
<1>6. ASSUME RunBlock PROVE UNCHANGED L!vars
  BY <1>6 DEF RunBlock, B!Call, boxVars, ownerVars
<1>7. ASSUME PerformSetResult PROVE L!HandOver
  BY <1>7, TakeEffect, DeliverEffect DEF PerformSetResult, ownerVars, L!HandOver
<1>8. ASSUME EndBlock PROVE UNCHANGED L!vars
  BY <1>8 DEF EndBlock, boxVars, ownerVars
<1>9. ASSUME Release PROVE L!Close
  BY <1>9 DEF Release, boxVars, L!Close
<1>10. ASSUME Dealloc PROVE L!Finish \/ UNCHANGED L!vars
  BY <1>10 DEF Dealloc, CleanUp, Completed, boxVars, L!Finish
<1>11. ASSUME UNCHANGED vars PROVE UNCHANGED L!vars
  BY <1>11 DEF vars, boxVars, ownerVars
<1> QED BY <1>1, <1>2, <1>3, <1>4, <1>5, <1>6, <1>7, <1>8, <1>9, <1>10, <1>11 DEF Next, L!Next

\* Box, queue and suspension together are a mailbox for the latest result: results are
\* handed over in the order they were set, each at most once, and only to a client that
\* completed the one before (BRURateLimiter.m:61-112).
THEOREM LimiterIsMailbox == Spec => L!Safety
<1>1. Init => L!Init
  BY DEF Init, L!Init
<1> QED BY <1>1, StepOfMailbox, LimiterInvariant, PTL DEF Spec, L!Safety
==============================================================================
