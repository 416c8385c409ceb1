---------------------------- MODULE DeferredProofs ----------------------------
(***************************************************************************)
(* Proofs about BRUDeferred, for any promises, blocks, values and clients. *)
(* A call of `then:' is in one place at a time, and moves from one to the  *)
(* next: queued (on syncQueue), kept (in thenBlocks), due (on the          *)
(* completion queue), called.  In each place, and from place to place, the *)
(* calls of one promise stay in the order they were made.                  *)
(***************************************************************************)
EXTENDS DeferredClients, SequenceTheorems, TLAPS

Queued(d, b) == \E k \in DOMAIN syncQueue[d] : syncQueue[d][k] = ThenCall(b)
Kept(d, b) == \E k \in DOMAIN thenBlocks[d] : thenBlocks[d][k] = b
Due(d, b) == \E k \in DOMAIN completionQueue : completionQueue[k] = << d, b >>
Called(b) == calls[b] # << >>

ClientTypeOK ==
    /\ PromiseTypeOK
    /\ made \in Seq(Deferreds \X Blocks)
    /\ resolves \in [Deferreds -> Seq(Values)]

MadeOnce == \A i, j \in DOMAIN made : made[i][2] = made[j][2] => i = j

\* No call is lost, and none comes from nowhere.
Somewhere ==
    \A d \in Deferreds, b \in Blocks :
        (\E i \in DOMAIN made : made[i] = << d, b >>) =>
            Queued(d, b) \/ Kept(d, b) \/ Due(d, b) \/ Called(b)

OnlyMade ==
    /\ \A d \in Deferreds, b \in Blocks :
           Queued(d, b) \/ Kept(d, b) \/ Due(d, b) =>
               \E i \in DOMAIN made : made[i] = << d, b >>
    /\ \A b \in Blocks : Called(b) => Made(b)

\* Within a place the calls are in the order they were made.
QueuedInOrder ==
    \A d \in Deferreds : \A k, l \in DOMAIN syncQueue[d] : \A i, j \in DOMAIN made :
        /\ k < l
        /\ syncQueue[d][k] = ThenCall(made[i][2]) /\ syncQueue[d][l] = ThenCall(made[j][2])
        => i < j

KeptInOrder ==
    \A d \in Deferreds : \A k, l \in DOMAIN thenBlocks[d] : \A i, j \in DOMAIN made :
        /\ k < l
        /\ thenBlocks[d][k] = made[i][2] /\ thenBlocks[d][l] = made[j][2]
        => i < j

DueInOrder ==
    \A k, l \in DOMAIN completionQueue : \A i, j \in DOMAIN made :
        /\ k < l
        /\ completionQueue[k] = made[i] /\ completionQueue[l] = made[j]
        /\ made[i][1] = made[j][1]
        => i < j

\* What is further on was made earlier; only a concurrent completion queue overtakes.
FurtherIsEarlier ==
    \A i, j \in DOMAIN made : \A d \in Deferreds, b, c \in Blocks :
        made[i] = << d, b >> /\ made[j] = << d, c >> =>
            /\ Kept(d, b) /\ Queued(d, c) => i < j
            /\ Due(d, b) /\ Queued(d, c) => i < j
            /\ Called(b) /\ (Queued(d, c) \/ Kept(d, c)) => i < j
            /\ Called(b) /\ Due(d, c) => i # j /\ (d \in Serial => i < j)

\* Blocks are kept only while there is no value, ...
KeptTillValue ==
    \A d \in Deferreds, b \in Blocks :
        (Kept(d, b) => state[d] = "Pending") /\ (Due(d, b) => state[d] = "Resolved")

\* ... and called once, with the value.
CalledWithValue ==
    \A i \in DOMAIN made, d \in Deferreds, b \in Blocks :
        made[i] = << d, b >> /\ Called(b) =>
            state[d] = "Resolved" /\ calls[b] = << value[d] >>

\* The value is that of the first `resolve:', which is the first on the queue till then.
FirstValue ==
    \A d \in Deferreds :
        IF state[d] = "Resolved"
        THEN resolves[d] # << >> /\ value[d] = << resolves[d][1] >>
        ELSE /\ value[d] = NoValue
             /\ resolves[d] = << >> => \A k \in DOMAIN syncQueue[d] : syncQueue[d][k].op = "then"
             /\ resolves[d] # << >> => \E k \in DOMAIN syncQueue[d] :
                    /\ syncQueue[d][k] = ResolveCall(resolves[d][1])
                    /\ \A l \in 1 .. k - 1 : syncQueue[d][l].op = "then"

DeferredInv ==
    /\ ClientTypeOK /\ MadeOnce /\ Somewhere /\ OnlyMade
    /\ QueuedInOrder /\ KeptInOrder /\ DueInOrder /\ FurtherIsEarlier
    /\ KeptTillValue /\ CalledWithValue /\ FirstValue

---------------------------------------------------------------------------
(* Sequences.                                                              *)

LEMMA AppendFacts ==
    ASSUME NEW S, NEW s \in Seq(S), NEW e \in S
    PROVE  /\ Append(s, e) \in Seq(S)
           /\ Len(s) \in Nat /\ DOMAIN s = 1 .. Len(s)
           /\ DOMAIN Append(s, e) = 1 .. Len(s) + 1
           /\ \A k \in DOMAIN s : Append(s, e)[k] = s[k]
           /\ Append(s, e)[Len(s) + 1] = e
           /\ Append(s, e) # << >>
OBVIOUS

LEMMA TailFacts ==
    ASSUME NEW S, NEW s \in Seq(S), s # << >>
    PROVE  /\ Tail(s) \in Seq(S) /\ Head(s) = s[1] /\ Head(s) \in S
           /\ Len(s) \in Nat /\ Len(s) > 0 /\ DOMAIN s = 1 .. Len(s)
           /\ DOMAIN Tail(s) = 1 .. Len(s) - 1
           /\ \A k \in DOMAIN Tail(s) : Tail(s)[k] = s[k + 1]
OBVIOUS

LEMMA RemoveAtFacts ==
    ASSUME NEW S, NEW s \in Seq(S), NEW i \in 1 .. Len(s)
    PROVE  /\ RemoveAt(s, i) \in Seq(S)
           /\ Len(s) \in Nat /\ DOMAIN s = 1 .. Len(s)
           /\ DOMAIN RemoveAt(s, i) = 1 .. Len(s) - 1
           /\ \A k \in DOMAIN RemoveAt(s, i) :
                  RemoveAt(s, i)[k] = IF k < i THEN s[k] ELSE s[k + 1]
<1>1. /\ SubSeq(s, 1, i - 1) \in Seq(S) /\ Len(SubSeq(s, 1, i - 1)) = i - 1
      /\ \A k \in 1 .. i - 1 : SubSeq(s, 1, i - 1)[k] = s[k]
  BY SubSeqProperties
<1>2. /\ SubSeq(s, i + 1, Len(s)) \in Seq(S) /\ Len(SubSeq(s, i + 1, Len(s))) = Len(s) - i
      /\ \A k \in 1 .. Len(s) - i : SubSeq(s, i + 1, Len(s))[k] = s[i + k]
  BY SubSeqProperties
<1> DEFINE front == SubSeq(s, 1, i - 1)
           back == SubSeq(s, i + 1, Len(s))
<1>3. /\ RemoveAt(s, i) = front \o back
      /\ front \in Seq(S) /\ Len(front) = i - 1 /\ back \in Seq(S) /\ Len(back) = Len(s) - i
      /\ \A k \in 1 .. i - 1 : front[k] = s[k]
      /\ \A k \in 1 .. Len(s) - i : back[k] = s[i + k]
  BY <1>1, <1>2 DEF RemoveAt
<1> HIDE DEF front, back
<1>4. /\ front \o back \in Seq(S) /\ Len(front \o back) = Len(s) - 1
      /\ \A k \in 1 .. Len(s) - 1 :
             (front \o back)[k] = IF k =< i - 1 THEN front[k] ELSE back[k - (i - 1)]
  BY <1>3, ConcatProperties
<1>5. ASSUME NEW k \in 1 .. Len(s) - 1
      PROVE  (front \o back)[k] = IF k < i THEN s[k] ELSE s[k + 1]
  <2>1. CASE k < i
    BY <1>3, <1>4, <2>1
  <2>2. CASE ~(k < i)
    <3>1. k - (i - 1) \in 1 .. Len(s) - i /\ i + (k - (i - 1)) = k + 1 /\ ~(k =< i - 1)
      BY <2>2
    <3> QED BY <2>2, <3>1, <1>3, <1>4
  <2> QED BY <2>1, <2>2
<1>6. DOMAIN (front \o back) = 1 .. Len(s) - 1
  BY <1>4
<1> QED BY SMTT(30), <1>3, <1>4, <1>5, <1>6

\* processBlocks dispatches the blocks in their order.
LEMMA DispatchFacts ==
    ASSUME NEW q \in Seq(Deferreds \X Blocks), NEW d \in Deferreds, NEW t \in Seq(Blocks)
    PROVE  LET p == q \o [i \in 1 .. Len(t) |-> << d, t[i] >>]
           IN  /\ p \in Seq(Deferreds \X Blocks)
               /\ Len(q) \in Nat /\ Len(t) \in Nat
               /\ DOMAIN q = 1 .. Len(q) /\ DOMAIN t = 1 .. Len(t)
               /\ DOMAIN p = 1 .. Len(q) + Len(t)
               /\ \A k \in DOMAIN q : p[k] = q[k]
               /\ \A k \in 1 .. Len(t) : p[Len(q) + k] = << d, t[k] >>
<1> DEFINE u == [i \in 1 .. Len(t) |-> << d, t[i] >>]
<1>1. u \in Seq(Deferreds \X Blocks) /\ Len(u) = Len(t)
  OBVIOUS
<1> QED BY <1>1, ConcatProperties

\* The blocks of the two calls of the API.
LEMMA ApiCalls ==
    /\ \A b \in Blocks : ThenCall(b) \in ApiCall /\ ThenCall(b).op = "then"
    /\ \A v \in Values : ResolveCall(v) \in ApiCall /\ ResolveCall(v).op = "resolve"
    /\ \A b, c \in Blocks : ThenCall(b) = ThenCall(c) => b = c
    /\ \A v, w \in Values : ResolveCall(v) = ResolveCall(w) => v = w
    /\ \A c \in ApiCall : c.op = "then" => c.block \in Blocks /\ c = ThenCall(c.block)
    /\ \A c \in ApiCall : c.op = "resolve" => c.value \in Values /\ c = ResolveCall(c.value)
    /\ \A c \in ApiCall : c.op \in {"then", "resolve"}
<1>1. /\ \A b \in Blocks : ThenCall(b) \in ApiCall /\ ThenCall(b).op = "then" /\ ThenCall(b).block = b
      /\ \A v \in Values : /\ ResolveCall(v) \in ApiCall /\ ResolveCall(v).op = "resolve"
                           /\ ResolveCall(v).value = v
  BY DEF ApiCall, ThenCall, ResolveCall
<1>2. \A c \in ApiCall : (\E b \in Blocks : c = ThenCall(b)) \/ (\E v \in Values : c = ResolveCall(v))
  BY DEF ApiCall
<1> QED BY <1>1, <1>2

---------------------------------------------------------------------------
(* The invariant: one lemma per action.                                    *)

\* Nothing was asked for in the beginning.
LEMMA InitDeferredInv == InitDeferreds => DeferredInv
<1> SUFFICES ASSUME InitDeferreds PROVE DeferredInv
  OBVIOUS
<1> USE DEF InitDeferreds, InitPromises
<1>1. ClientTypeOK
  BY DEF ClientTypeOK, PromiseTypeOK, NoValue
<1>2. \A d \in Deferreds, b \in Blocks : ~Queued(d, b) /\ ~Kept(d, b) /\ ~Due(d, b)
  BY DEF Queued, Kept, Due
<1>3. MadeOnce /\ Somewhere /\ DueInOrder /\ FurtherIsEarlier
  BY DEF MadeOnce, Somewhere, DueInOrder, FurtherIsEarlier
<1>4. OnlyMade
  BY <1>2 DEF OnlyMade, Called
<1>5. QueuedInOrder /\ KeptInOrder
  BY DEF QueuedInOrder, KeptInOrder
<1>6. KeptTillValue /\ CalledWithValue
  BY <1>2 DEF KeptTillValue, CalledWithValue, Called
<1>7. FirstValue
  BY DEF FirstValue
<1> QED BY <1>1, <1>3, <1>4, <1>5, <1>6, <1>7 DEF DeferredInv

\* A call of `then:' is the last of its promise, and queued.
LEMMA ThenInv ==
    ASSUME DeferredInv, NEW d \in Deferreds, NEW b \in Blocks, ClientThen(d, b)
    PROVE  DeferredInv'
<1> USE ApiCalls DEF DeferredInv
<1> DEFINE n == Len(made) + 1
<1>1. /\ UNCHANGED << state, value, thenBlocks, completionQueue, calls, resolves >>
      /\ ~Made(b)
      /\ made' = Append(made, << d, b >>)
      /\ syncQueue' = [syncQueue EXCEPT ![d] = Append(@, ThenCall(b))]
  BY DEF ClientThen, Then, Enqueue
<1>2. ClientTypeOK'
  <2>1. ThenCall(b) \in ApiCall
    OBVIOUS
  <2>2. syncQueue' \in [Deferreds -> Seq(ApiCall)] /\ made' \in Seq(Deferreds \X Blocks)
    BY <1>1, <2>1 DEF ClientTypeOK, PromiseTypeOK
  <2> QED BY <1>1, <2>2 DEF ClientTypeOK, PromiseTypeOK
<1>3. /\ Len(made) \in Nat /\ DOMAIN made = 1 .. Len(made) /\ DOMAIN made' = 1 .. n
      /\ \A i \in DOMAIN made : made'[i] = made[i]
      /\ made'[n] = << d, b >>
      /\ \A i \in DOMAIN made : made[i] \in Deferreds \X Blocks
  BY <1>1, AppendFacts DEF ClientTypeOK
<1>4. /\ Len(syncQueue[d]) \in Nat /\ DOMAIN syncQueue[d] = 1 .. Len(syncQueue[d])
      /\ DOMAIN syncQueue'[d] = 1 .. Len(syncQueue[d]) + 1
      /\ \A k \in DOMAIN syncQueue[d] : syncQueue'[d][k] = syncQueue[d][k]
      /\ syncQueue'[d][Len(syncQueue[d]) + 1] = ThenCall(b)
      /\ \A e \in Deferreds \ {d} : syncQueue'[e] = syncQueue[e]
  <2>1. syncQueue[d] \in Seq(ApiCall) /\ syncQueue'[d] = Append(syncQueue[d], ThenCall(b))
    BY <1>1 DEF ClientTypeOK, PromiseTypeOK
  <2>2. \A e \in Deferreds \ {d} : syncQueue'[e] = syncQueue[e]
    BY <1>1 DEF ClientTypeOK, PromiseTypeOK
  <2> QED BY <2>1, <2>2, AppendFacts
<1>5. \A e \in Deferreds, c \in Blocks :
          /\ Queued(e, c)' <=> Queued(e, c) \/ (e = d /\ c = b)
          /\ Kept(e, c)' <=> Kept(e, c)
          /\ Due(e, c)' <=> Due(e, c)
          /\ Called(c)' <=> Called(c)
  <2> TAKE e \in Deferreds, c \in Blocks
  <2>1. Queued(e, c)' <=> Queued(e, c) \/ (e = d /\ c = b)
    BY <1>4 DEF Queued
  <2> QED BY <1>1, <2>1 DEF Kept, Due, Called
<1>6. \A i \in DOMAIN made : made[i][2] # b
  BY <1>1, <1>3 DEF Made
<1>7. /\ ~Called(b)
      /\ \A e \in Deferreds : ~Queued(e, b) /\ ~Kept(e, b) /\ ~Due(e, b)
  BY <1>1, <1>6 DEF OnlyMade
<1>8. MadeOnce'
  BY <1>3, <1>6 DEF MadeOnce
<1>9. Somewhere'
  BY <1>3, <1>5 DEF Somewhere
<1>10. OnlyMade'
  <2>1. \A c \in Blocks : Made(c) => Made(c)'
    BY <1>3 DEF Made
  <2>2. ASSUME NEW e \in Deferreds, NEW c \in Blocks, Queued(e, c) \/ Kept(e, c) \/ Due(e, c)
        PROVE  \E i \in DOMAIN made' : made'[i] = << e, c >>
    BY <2>2, <1>3 DEF OnlyMade
  <2> QED BY <1>3, <1>5, <2>1, <2>2 DEF OnlyMade
<1>11. QueuedInOrder'
  <2> SUFFICES ASSUME NEW e \in Deferreds, NEW k \in DOMAIN syncQueue'[e],
                      NEW l \in DOMAIN syncQueue'[e], NEW i \in DOMAIN made',
                      NEW j \in DOMAIN made', k < l,
                      syncQueue'[e][k] = ThenCall(made'[i][2]),
                      syncQueue'[e][l] = ThenCall(made'[j][2])
               PROVE  i < j
    BY DEF QueuedInOrder
  <2>1. made'[i][2] \in Blocks /\ made'[j][2] \in Blocks
    BY <1>3
  <2>2. k \in DOMAIN syncQueue[e] /\ syncQueue[e][k] = ThenCall(made'[i][2])
    BY SMTT(30), <1>4
  <2>3. i # n
    BY <1>3, <1>7, <2>2 DEF Queued
  <2>4. CASE j = n
    BY <1>3, <2>3, <2>4
  <2>5. CASE j # n
    <3>1. made'[j][2] # b
      BY <1>3, <1>6, <2>5
    <3>2. l \in DOMAIN syncQueue[e] /\ syncQueue[e][l] = ThenCall(made'[j][2])
      BY <1>4, <2>1, <3>1
    <3> QED BY <1>3, <2>2, <2>3, <2>5, <3>2 DEF QueuedInOrder
  <2> QED BY <2>4, <2>5
<1>12. KeptInOrder'
  <2> SUFFICES ASSUME NEW e \in Deferreds, NEW k \in DOMAIN thenBlocks[e],
                      NEW l \in DOMAIN thenBlocks[e], NEW i \in DOMAIN made',
                      NEW j \in DOMAIN made', k < l,
                      thenBlocks[e][k] = made'[i][2], thenBlocks[e][l] = made'[j][2]
               PROVE  i < j
    BY <1>1 DEF KeptInOrder
  <2>1. i # n /\ j # n
    BY <1>3, <1>7 DEF Kept
  <2> QED BY <1>3, <2>1 DEF KeptInOrder
<1>13. DueInOrder'
  <2> SUFFICES ASSUME NEW k \in DOMAIN completionQueue, NEW l \in DOMAIN completionQueue,
                      NEW i \in DOMAIN made', NEW j \in DOMAIN made', k < l,
                      completionQueue[k] = made'[i], completionQueue[l] = made'[j],
                      made'[i][1] = made'[j][1]
               PROVE  i < j
    BY <1>1 DEF DueInOrder
  <2>1. i # n /\ j # n
    BY ZenonT(30), <1>3, <1>7 DEF Due
  <2> QED BY <1>3, <2>1 DEF DueInOrder
<1>14. FurtherIsEarlier'
  <2> SUFFICES ASSUME NEW i \in DOMAIN made', NEW j \in DOMAIN made', NEW e \in Deferreds,
                      NEW x \in Blocks, NEW y \in Blocks,
                      made'[i] = << e, x >>, made'[j] = << e, y >>
               PROVE  /\ Kept(e, x)' /\ Queued(e, y)' => i < j
                      /\ Due(e, x)' /\ Queued(e, y)' => i < j
                      /\ Called(x)' /\ (Queued(e, y)' \/ Kept(e, y)') => i < j
                      /\ Called(x)' /\ Due(e, y)' => i # j /\ (e \in Serial => i < j)
    BY DEF FurtherIsEarlier
  <2>1. CASE i = n
    BY <1>3, <1>5, <1>7, <2>1
  <2>2. CASE i # n /\ j = n
    BY <1>3, <1>5, <1>7, <2>2
  <2>3. CASE i # n /\ j # n
    <3>1. i \in DOMAIN made /\ j \in DOMAIN made /\ made[i] = << e, x >> /\ made[j] = << e, y >>
      BY <1>3, <2>3
    <3> QED BY <1>5, <1>6, <3>1 DEF FurtherIsEarlier
  <2> QED BY <2>1, <2>2, <2>3
<1>15. KeptTillValue' /\ CalledWithValue'
  <2>1. ASSUME NEW i \in DOMAIN made', NEW e \in Deferreds, NEW c \in Blocks,
               made'[i] = << e, c >>, Called(c)'
        PROVE  state[e] = "Resolved" /\ calls[c] = << value[e] >>
    <3>1. i # n
      BY <1>3, <1>5, <1>7, <2>1
    <3>2. i \in DOMAIN made /\ made[i] = << e, c >>
      BY <1>3, <2>1, <3>1
    <3> QED BY <1>5, <2>1, <3>2 DEF CalledWithValue
  <2>2. CalledWithValue'
    BY ZenonT(30), <1>1, <2>1 DEF CalledWithValue
  <2>3. KeptTillValue'
    BY <1>1, <1>5 DEF KeptTillValue
  <2> QED BY <2>2, <2>3
<1>16. FirstValue'
  <2> SUFFICES ASSUME NEW e \in Deferreds, state[e] # "Resolved"
               PROVE  /\ resolves[e] = << >> =>
                             \A k \in DOMAIN syncQueue'[e] : syncQueue'[e][k].op = "then"
                      /\ resolves[e] # << >> => \E k \in DOMAIN syncQueue'[e] :
                             /\ syncQueue'[e][k] = ResolveCall(resolves[e][1])
                             /\ \A l \in 1 .. k - 1 : syncQueue'[e][l].op = "then"
    BY <1>1 DEF FirstValue
  <2>1. \A k \in DOMAIN syncQueue[e] : k \in DOMAIN syncQueue'[e] /\ syncQueue'[e][k] = syncQueue[e][k]
    BY <1>4
  <2>2. \A k \in DOMAIN syncQueue[e] : \A l \in 1 .. k - 1 : l \in DOMAIN syncQueue[e]
    BY DEF ClientTypeOK, PromiseTypeOK
  <2>3. CASE resolves[e] = << >>
    BY <1>4, <2>1, <2>3 DEF FirstValue
  <2>4. CASE resolves[e] # << >>
    <3>1. PICK k \in DOMAIN syncQueue[e] : /\ syncQueue[e][k] = ResolveCall(resolves[e][1])
                                          /\ \A l \in 1 .. k - 1 : syncQueue[e][l].op = "then"
      BY <2>4 DEF FirstValue
    <3> QED BY <2>1, <2>2, <2>4, <3>1
  <2> QED BY <2>3, <2>4
<1> QED BY <1>2, <1>8, <1>9, <1>10, <1>11, <1>12, <1>13, <1>14, <1>15, <1>16

\* What a call left behind does not depend on the queued calls of `resolve:'.
LEMMA SameThens ==
    ASSUME DeferredInv, UNCHANGED << thenBlocks, completionQueue, calls, made >>,
           syncQueue' \in [Deferreds -> Seq(ApiCall)],
           \A d \in Deferreds, b \in Blocks : Queued(d, b)' <=> Queued(d, b)
    PROVE  /\ MadeOnce' /\ Somewhere' /\ OnlyMade' /\ KeptInOrder' /\ DueInOrder'
           /\ FurtherIsEarlier'
<1>1. \A d \in Deferreds, b \in Blocks :
          /\ Kept(d, b)' <=> Kept(d, b)
          /\ Due(d, b)' <=> Due(d, b)
          /\ Called(b)' <=> Called(b)
  BY DEF Kept, Due, Called
<1>2. MadeOnce' /\ KeptInOrder' /\ DueInOrder'
  BY DEF DeferredInv, MadeOnce, KeptInOrder, DueInOrder
<1>3. Somewhere'
  BY <1>1 DEF DeferredInv, Somewhere
<1>4. OnlyMade'
  <2>1. made' = made
    OBVIOUS
  <2>2. \A d \in Deferreds, b \in Blocks : Queued(d, b)' \/ Kept(d, b)' \/ Due(d, b)' =>
            \E i \in DOMAIN made' : made'[i] = << d, b >>
    BY <1>1, <2>1 DEF DeferredInv, OnlyMade
  <2>3. \A b \in Blocks : Called(b)' => Made(b)'
    BY DEF DeferredInv, OnlyMade, Called, Made
  <2> QED BY <2>2, <2>3 DEF OnlyMade
<1>5. FurtherIsEarlier'
  BY <1>1 DEF DeferredInv, FurtherIsEarlier
<1> QED BY <1>2, <1>3, <1>4, <1>5

\* A call of `resolve:' is queued behind the others.
LEMMA ResolveInv ==
    ASSUME DeferredInv, NEW d \in Deferreds, NEW v \in Values, ClientResolve(d, v)
    PROVE  DeferredInv'
<1> USE DEF DeferredInv
<1>1. /\ UNCHANGED << state, value, thenBlocks, completionQueue, calls, made >>
      /\ resolves' = [resolves EXCEPT ![d] = Append(@, v)]
      /\ syncQueue' = [syncQueue EXCEPT ![d] = Append(@, ResolveCall(v))]
  BY DEF ClientResolve, Resolve, Enqueue
<1>2. ClientTypeOK'
  <2>1. ResolveCall(v) \in ApiCall
    BY ApiCalls
  <2>2. syncQueue' \in [Deferreds -> Seq(ApiCall)] /\ resolves' \in [Deferreds -> Seq(Values)]
    BY <1>1, <2>1 DEF ClientTypeOK, PromiseTypeOK
  <2> QED BY <1>1, <2>2 DEF ClientTypeOK, PromiseTypeOK
<1>3. /\ Len(syncQueue[d]) \in Nat /\ DOMAIN syncQueue[d] = 1 .. Len(syncQueue[d])
      /\ DOMAIN syncQueue'[d] = 1 .. Len(syncQueue[d]) + 1
      /\ \A k \in DOMAIN syncQueue[d] : syncQueue'[d][k] = syncQueue[d][k]
      /\ syncQueue'[d][Len(syncQueue[d]) + 1] = ResolveCall(v)
      /\ \A e \in Deferreds \ {d} : syncQueue'[e] = syncQueue[e] /\ resolves'[e] = resolves[e]
  <2>1. syncQueue[d] \in Seq(ApiCall) /\ syncQueue'[d] = Append(syncQueue[d], ResolveCall(v))
    BY <1>1 DEF ClientTypeOK, PromiseTypeOK
  <2>2. \A e \in Deferreds \ {d} : syncQueue'[e] = syncQueue[e] /\ resolves'[e] = resolves[e]
    BY <1>1 DEF ClientTypeOK, PromiseTypeOK
  <2>3. ResolveCall(v) \in ApiCall
    BY ApiCalls
  <2> QED BY <2>1, <2>2, <2>3, AppendFacts
<1>4. /\ resolves'[d] # << >>
      /\ resolves[d] = << >> => resolves'[d][1] = v
      /\ resolves[d] # << >> => resolves'[d][1] = resolves[d][1]
  <2>1. resolves[d] \in Seq(Values) /\ resolves'[d] = Append(resolves[d], v)
    BY <1>1 DEF ClientTypeOK
  <2>2. Len(resolves[d]) = 0 <=> resolves[d] = << >>
    BY <2>1
  <2> QED BY <2>1, <2>2, AppendFacts
<1>5. \A b \in Blocks : ResolveCall(v) # ThenCall(b)
  BY DEF ResolveCall, ThenCall
<1>6. \A e \in Deferreds, c \in Blocks : Queued(e, c)' <=> Queued(e, c)
  BY <1>3, <1>5 DEF Queued
<1>7. MadeOnce' /\ Somewhere' /\ OnlyMade' /\ KeptInOrder' /\ DueInOrder' /\ FurtherIsEarlier'
  BY <1>1, <1>2, <1>6, SameThens DEF ClientTypeOK, PromiseTypeOK
<1>8. QueuedInOrder'
  <2> SUFFICES ASSUME NEW e \in Deferreds, NEW k \in DOMAIN syncQueue'[e],
                      NEW l \in DOMAIN syncQueue'[e], NEW i \in DOMAIN made,
                      NEW j \in DOMAIN made, k < l,
                      syncQueue'[e][k] = ThenCall(made[i][2]),
                      syncQueue'[e][l] = ThenCall(made[j][2])
               PROVE  i < j
    BY <1>1 DEF QueuedInOrder
  <2>1. made[i][2] \in Blocks /\ made[j][2] \in Blocks
    <3>1. \A m \in DOMAIN made : made[m] \in Deferreds \X Blocks
      BY ElementOfSeq, LenProperties DEF ClientTypeOK
    <3> QED BY <3>1
  <2>2. /\ k \in DOMAIN syncQueue[e] /\ syncQueue[e][k] = ThenCall(made[i][2])
        /\ l \in DOMAIN syncQueue[e] /\ syncQueue[e][l] = ThenCall(made[j][2])
    BY SMTT(30), <1>3, <1>5, <2>1
  <2> QED BY <2>2 DEF QueuedInOrder
<1>9. KeptTillValue' /\ CalledWithValue'
  <2>1. \A e \in Deferreds, b \in Blocks :
          /\ Kept(e, b)' <=> Kept(e, b)
          /\ Due(e, b)' <=> Due(e, b)
          /\ Called(b)' <=> Called(b)
    BY <1>1 DEF Kept, Due, Called
  <2>2. KeptTillValue'
    BY <1>1, <2>1 DEF KeptTillValue
  <2>3. CalledWithValue'
    BY <1>1, <2>1 DEF CalledWithValue
  <2> QED BY <2>2, <2>3
<1>10. FirstValue'
  <2> SUFFICES ASSUME NEW e \in Deferreds
               PROVE  IF state[e] = "Resolved"
                      THEN resolves'[e] # << >> /\ value[e] = << resolves'[e][1] >>
                      ELSE /\ value[e] = NoValue
                           /\ resolves'[e] = << >> =>
                                \A k \in DOMAIN syncQueue'[e] : syncQueue'[e][k].op = "then"
                           /\ resolves'[e] # << >> => \E k \in DOMAIN syncQueue'[e] :
                                /\ syncQueue'[e][k] = ResolveCall(resolves'[e][1])
                                /\ \A l \in 1 .. k - 1 : syncQueue'[e][l].op = "then"
    BY <1>1 DEF FirstValue
  <2>1. CASE e # d
    BY <1>3, <2>1 DEF FirstValue
  <2>2. CASE e = d /\ state[d] = "Resolved"
    BY <1>4, <2>2 DEF FirstValue
  <2>3. CASE e = d /\ state[d] # "Resolved" /\ resolves[d] = << >>
    <3>1. \A l \in 1 .. Len(syncQueue[d]) : syncQueue'[d][l].op = "then"
      BY <1>3, <2>3 DEF FirstValue
    <3>2. Len(syncQueue[d]) + 1 \in DOMAIN syncQueue'[d] /\ Len(syncQueue[d]) + 1 - 1 = Len(syncQueue[d])
      BY <1>3
    <3> QED BY <1>3, <1>4, <2>3, <3>1, <3>2 DEF FirstValue
  <2>4. CASE e = d /\ state[d] # "Resolved" /\ resolves[d] # << >>
    <3>1. PICK k \in DOMAIN syncQueue[d] : /\ syncQueue[d][k] = ResolveCall(resolves[d][1])
                                          /\ \A l \in 1 .. k - 1 : syncQueue[d][l].op = "then"
      BY <2>4 DEF FirstValue
    <3>2. \A l \in 1 .. k - 1 : l \in DOMAIN syncQueue[d]
      BY <1>3
    <3>3. /\ k \in DOMAIN syncQueue'[d] /\ syncQueue'[d][k] = ResolveCall(resolves'[d][1])
          /\ \A l \in 1 .. k - 1 : syncQueue'[d][l].op = "then"
      <4>1. k \in DOMAIN syncQueue'[d] /\ syncQueue'[d][k] = syncQueue[d][k]
        BY <1>3
      <4>2. \A l \in 1 .. k - 1 : syncQueue'[d][l] = syncQueue[d][l]
        BY <1>3, <3>2
      <4> QED BY <1>4, <2>4, <3>1, <4>1, <4>2
    <3>4. value[d] = NoValue
      BY <2>4 DEF FirstValue
    <3> QED BY <1>4, <2>4, <3>3, <3>4
  <2> QED BY <2>1, <2>2, <2>3, <2>4
<1> QED BY <1>2, <1>7, <1>8, <1>9, <1>10

---------------------------------------------------------------------------
(* The blocks of syncQueue.                                                *)

\* The oldest call of `then:' on a syncQueue is nowhere else.
LEMMA OldestThen ==
    ASSUME DeferredInv, NEW d \in Deferreds, syncQueue[d] # << >>,
           Head(syncQueue[d]).op = "then"
    PROVE  \E b \in Blocks : \E m \in DOMAIN made :
               /\ Head(syncQueue[d]).block = b /\ syncQueue[d][1] = ThenCall(b)
               /\ made[m] = << d, b >> /\ Queued(d, b)
               /\ ~Kept(d, b) /\ ~Due(d, b) /\ ~Called(b)
               /\ \A j \in DOMAIN made, c \in Blocks :
                      made[j] = << d, c >> /\ Queued(d, c) /\ c # b => m < j
<1> USE DEF DeferredInv
<1>1. /\ Head(syncQueue[d]) = syncQueue[d][1] /\ syncQueue[d][1] \in ApiCall
      /\ 1 \in DOMAIN syncQueue[d] /\ DOMAIN syncQueue[d] = 1 .. Len(syncQueue[d])
  BY TailFacts DEF ClientTypeOK, PromiseTypeOK
<1>2. PICK b \in Blocks : Head(syncQueue[d]).block = b /\ syncQueue[d][1] = ThenCall(b)
  BY <1>1, ApiCalls
<1>3. Queued(d, b)
  BY <1>1, <1>2 DEF Queued
<1>4. PICK m \in DOMAIN made : made[m] = << d, b >>
  BY <1>3 DEF OnlyMade
<1>5. m \in Nat
  BY <1>4 DEF ClientTypeOK
<1>6. ~Kept(d, b) /\ ~Due(d, b) /\ ~Called(b)
  BY <1>3, <1>4, <1>5 DEF FurtherIsEarlier
<1>7. ASSUME NEW j \in DOMAIN made, NEW c \in Blocks, made[j] = << d, c >>, Queued(d, c), c # b
      PROVE  m < j
  <2>1. PICK k \in DOMAIN syncQueue[d] : syncQueue[d][k] = ThenCall(c)
    BY <1>7 DEF Queued
  <2>2. k # 1
    BY <1>2, <1>7, <2>1, ApiCalls
  <2>3. 1 < k /\ made[m][2] = b /\ made[j][2] = c
    BY <1>1, <1>4, <1>7, <2>2 DEF ClientTypeOK, PromiseTypeOK
  <2> QED BY <1>1, <1>2, <2>1, <2>3 DEF QueuedInOrder
<1> QED BY <1>2, <1>3, <1>4, <1>6, <1>7

\* A call of `then:' leaves the syncQueue: it is kept, or due at once.
LEMMA RunThenInv ==
    ASSUME DeferredInv, NEW d \in Deferreds, RunThen(d), UNCHANGED << made, resolves >>
    PROVE  DeferredInv'
<1> USE DEF DeferredInv
<1>1. /\ syncQueue[d] # << >> /\ Head(syncQueue[d]).op = "then"
      /\ syncQueue' = [syncQueue EXCEPT ![d] = Tail(@)]
      /\ UNCHANGED << state, value, calls, made, resolves >>
      /\ ProcessBlocks(d, state[d], Append(thenBlocks[d], Head(syncQueue[d]).block))
  BY DEF RunThen
<1>2. PICK b \in Blocks, m \in DOMAIN made :
        /\ Head(syncQueue[d]).block = b /\ syncQueue[d][1] = ThenCall(b)
        /\ made[m] = << d, b >> /\ Queued(d, b)
        /\ ~Kept(d, b) /\ ~Due(d, b) /\ ~Called(b)
        /\ \A j \in DOMAIN made, c \in Blocks :
               made[j] = << d, c >> /\ Queued(d, c) /\ c # b => m < j
  BY <1>1, OldestThen
<1>3. /\ syncQueue'[d] \in Seq(ApiCall)
      /\ Len(syncQueue[d]) \in Nat /\ Len(syncQueue[d]) > 0
      /\ DOMAIN syncQueue[d] = 1 .. Len(syncQueue[d])
      /\ DOMAIN syncQueue'[d] = 1 .. Len(syncQueue[d]) - 1
      /\ \A k \in DOMAIN syncQueue'[d] :
             k + 1 \in DOMAIN syncQueue[d] /\ syncQueue'[d][k] = syncQueue[d][k + 1]
      /\ \A e \in Deferreds \ {d} : syncQueue'[e] = syncQueue[e]
  <2>1. syncQueue[d] \in Seq(ApiCall) /\ syncQueue'[d] = Tail(syncQueue[d])
    BY <1>1 DEF ClientTypeOK, PromiseTypeOK
  <2>2. \A e \in Deferreds \ {d} : syncQueue'[e] = syncQueue[e]
    BY <1>1 DEF ClientTypeOK, PromiseTypeOK
  <2> DEFINE q == syncQueue[d]
  <2>3. /\ Tail(q) \in Seq(ApiCall) /\ Len(q) \in Nat /\ Len(q) > 0 /\ DOMAIN q = 1 .. Len(q)
        /\ DOMAIN Tail(q) = 1 .. Len(q) - 1
        /\ \A k \in DOMAIN Tail(q) : Tail(q)[k] = q[k + 1]
    <3> HIDE DEF q
    <3>1. q \in Seq(ApiCall) /\ q # << >>
      BY <1>1, <2>1 DEF q
    <3> QED BY <3>1, TailFacts
  <2>4. \A k \in 1 .. Len(q) - 1 : k + 1 \in 1 .. Len(q)
    BY <2>3
  <2> QED BY <2>1, <2>2, <2>3, <2>4
<1>4. syncQueue' \in [Deferreds -> Seq(ApiCall)]
  BY <1>1, <1>3 DEF ClientTypeOK, PromiseTypeOK
<1>5. /\ \A i \in DOMAIN made : made[i] \in Deferreds \X Blocks /\ i \in Nat
      /\ \A i \in DOMAIN made : made[i][2] = b => i = m
  <2>1. \A i \in DOMAIN made : made[i] \in Deferreds \X Blocks /\ i \in Nat
    BY ElementOfSeq, LenProperties DEF ClientTypeOK
  <2>2. made[m][2] = b
    BY <1>2
  <2> QED BY <2>1, <2>2 DEF MadeOnce
<1>6. \A e \in Deferreds, c \in Blocks : Queued(e, c)' <=> Queued(e, c) /\ ~(e = d /\ c = b)
  <2> TAKE e \in Deferreds, c \in Blocks
  <2>1. CASE e # d
    BY <1>3, <2>1 DEF Queued
  <2>2. CASE e = d /\ c = b
    <3>1. ASSUME NEW k \in DOMAIN syncQueue'[d], syncQueue'[d][k] = ThenCall(b) PROVE FALSE
      <4>1. k + 1 \in DOMAIN syncQueue[d] /\ 1 \in DOMAIN syncQueue[d] /\ 1 < k + 1
        BY <1>3
      <4>2. m < m
        BY <1>2, <1>3, <3>1, <4>1 DEF QueuedInOrder
      <4> QED BY <1>5, <4>2
    <3> QED BY <2>2, <3>1 DEF Queued
  <2>3. CASE e = d /\ c # b
    <3>1. ASSUME NEW k \in DOMAIN syncQueue[d], syncQueue[d][k] = ThenCall(c)
          PROVE  \E l \in DOMAIN syncQueue'[d] : syncQueue'[d][l] = ThenCall(c)
      <4>1. k # 1
        BY <1>2, <2>3, <3>1, ApiCalls
      <4>2. k - 1 \in DOMAIN syncQueue'[d] /\ (k - 1) + 1 = k
        BY <1>3, <4>1
      <4> QED BY <1>3, <3>1, <4>2
    <3>2. ASSUME NEW k \in DOMAIN syncQueue'[d], syncQueue'[d][k] = ThenCall(c)
          PROVE  \E l \in DOMAIN syncQueue[d] : syncQueue[d][l] = ThenCall(c)
      BY <1>3, <3>2
    <3> QED BY <2>3, <3>1, <3>2 DEF Queued
  <2> QED BY <2>1, <2>2, <2>3
<1>7. MadeOnce' /\ (\A c \in Blocks : (Called(c)' <=> Called(c)) /\ (Made(c)' <=> Made(c)))
  BY <1>1 DEF MadeOnce, Called, Made
<1>8. QueuedInOrder'
  <2> SUFFICES ASSUME NEW e \in Deferreds, NEW k \in DOMAIN syncQueue'[e],
                      NEW l \in DOMAIN syncQueue'[e], NEW i \in DOMAIN made,
                      NEW j \in DOMAIN made, k < l,
                      syncQueue'[e][k] = ThenCall(made[i][2]),
                      syncQueue'[e][l] = ThenCall(made[j][2])
               PROVE  i < j
    BY <1>1 DEF QueuedInOrder
  <2>1. CASE e # d
    BY <1>3, <2>1 DEF QueuedInOrder
  <2>2. CASE e = d
    <3>1. /\ k + 1 \in DOMAIN syncQueue[d] /\ syncQueue[d][k + 1] = ThenCall(made[i][2])
          /\ l + 1 \in DOMAIN syncQueue[d] /\ syncQueue[d][l + 1] = ThenCall(made[j][2])
      BY <1>3, <2>2
    <3>2. k + 1 < l + 1
      BY <1>3, <2>2
    <3> QED BY <3>1, <3>2 DEF QueuedInOrder
  <2> QED BY <2>1, <2>2
<1>9. FirstValue'
  <2> SUFFICES ASSUME NEW e \in Deferreds, state[e] # "Resolved"
               PROVE  /\ resolves[e] = << >> =>
                             \A k \in DOMAIN syncQueue'[e] : syncQueue'[e][k].op = "then"
                      /\ resolves[e] # << >> => \E k \in DOMAIN syncQueue'[e] :
                             /\ syncQueue'[e][k] = ResolveCall(resolves[e][1])
                             /\ \A l \in 1 .. k - 1 : syncQueue'[e][l].op = "then"
    BY ZenonT(30), <1>1 DEF FirstValue
  <2>1. CASE e # d
    BY <1>3, <2>1 DEF FirstValue
  <2>2. CASE e = d /\ resolves[d] = << >>
    BY <1>3, <2>2 DEF FirstValue
  <2>3. CASE e = d /\ resolves[d] # << >>
    <3>1. PICK k \in DOMAIN syncQueue[d] : /\ syncQueue[d][k] = ResolveCall(resolves[d][1])
                                          /\ \A l \in 1 .. k - 1 : syncQueue[d][l].op = "then"
      BY <2>3 DEF FirstValue
    <3>2. k # 1
      BY <1>2, <3>1 DEF ThenCall, ResolveCall
    <3>3. k - 1 \in DOMAIN syncQueue'[d] /\ (k - 1) + 1 = k
      BY <1>3, <3>2
    <3>4. ASSUME NEW l \in 1 .. (k - 1) - 1 PROVE syncQueue'[d][l].op = "then"
      <4>1. l \in DOMAIN syncQueue'[d] /\ l + 1 \in 1 .. k - 1
        BY <1>3, <3>3
      <4> QED BY <1>3, <3>1, <4>1
    <3> QED BY <1>3, <2>3, <3>1, <3>3, <3>4
  <2> QED BY <2>1, <2>2, <2>3
<1>10. CASE state[d] = "Pending"
  <2>1. /\ thenBlocks' = [thenBlocks EXCEPT ![d] = Append(thenBlocks[d], b)]
        /\ completionQueue' = completionQueue
    BY <1>1, <1>2, <1>10 DEF ProcessBlocks
  <2>2. /\ thenBlocks'[d] \in Seq(Blocks)
        /\ Len(thenBlocks[d]) \in Nat /\ DOMAIN thenBlocks[d] = 1 .. Len(thenBlocks[d])
        /\ DOMAIN thenBlocks'[d] = 1 .. Len(thenBlocks[d]) + 1
        /\ \A k \in DOMAIN thenBlocks[d] : thenBlocks'[d][k] = thenBlocks[d][k]
        /\ thenBlocks'[d][Len(thenBlocks[d]) + 1] = b
        /\ \A e \in Deferreds \ {d} : thenBlocks'[e] = thenBlocks[e]
    <3>1. thenBlocks[d] \in Seq(Blocks) /\ thenBlocks'[d] = Append(thenBlocks[d], b)
      BY <2>1 DEF ClientTypeOK, PromiseTypeOK
    <3>2. \A e \in Deferreds \ {d} : thenBlocks'[e] = thenBlocks[e]
      BY <2>1 DEF ClientTypeOK, PromiseTypeOK
    <3> QED BY <3>1, <3>2, AppendFacts
  <2>3. ClientTypeOK'
    <3>1. thenBlocks' \in [Deferreds -> Seq(Blocks)]
      BY <2>1, <2>2 DEF ClientTypeOK, PromiseTypeOK
    <3> QED BY <1>1, <1>4, <2>1, <3>1 DEF ClientTypeOK, PromiseTypeOK
  <2>4. /\ \A e \in Deferreds, c \in Blocks : Due(e, c)' <=> Due(e, c)
        /\ \A e \in Deferreds, c \in Blocks : Kept(e, c)' <=> Kept(e, c) \/ (e = d /\ c = b)
    <3>1. \A e \in Deferreds, c \in Blocks : Due(e, c)' <=> Due(e, c)
      BY <2>1 DEF Due
    <3>2. \A e \in Deferreds, c \in Blocks : Kept(e, c)' <=> Kept(e, c) \/ (e = d /\ c = b)
      BY <2>2 DEF Kept
    <3> QED BY <3>1, <3>2
  <2>5. Somewhere'
    <3> SUFFICES ASSUME NEW e \in Deferreds, NEW c \in Blocks,
                        \E i \in DOMAIN made : made[i] = << e, c >>
                 PROVE  Queued(e, c)' \/ Kept(e, c)' \/ Due(e, c)' \/ Called(c)'
      BY <1>1 DEF Somewhere
    <3>1. Queued(e, c) \/ Kept(e, c) \/ Due(e, c) \/ Called(c)
      BY DEF Somewhere
    <3> QED BY <1>6, <1>7, <2>4, <3>1
  <2>6. OnlyMade'
    <3>1. ASSUME NEW e \in Deferreds, NEW c \in Blocks, Queued(e, c)' \/ Kept(e, c)' \/ Due(e, c)'
          PROVE  \E i \in DOMAIN made : made[i] = << e, c >>
      <4>1. Queued(e, c) \/ Kept(e, c) \/ Due(e, c) \/ (e = d /\ c = b)
        BY <1>6, <2>4, <3>1
      <4>2. CASE e = d /\ c = b
        BY <1>2, <4>2
      <4> QED BY <4>1, <4>2 DEF OnlyMade
    <3>2. \A c \in Blocks : Called(c)' => Made(c)'
      BY <1>7 DEF OnlyMade
    <3> QED BY <1>1, <3>1, <3>2 DEF OnlyMade
  <2>7. KeptInOrder'
    <3> SUFFICES ASSUME NEW e \in Deferreds, NEW k \in DOMAIN thenBlocks'[e],
                        NEW l \in DOMAIN thenBlocks'[e], NEW i \in DOMAIN made,
                        NEW j \in DOMAIN made, k < l,
                        thenBlocks'[e][k] = made[i][2], thenBlocks'[e][l] = made[j][2]
                 PROVE  i < j
      BY <1>1 DEF KeptInOrder
    <3>1. CASE e # d
      BY <2>2, <3>1 DEF KeptInOrder
    <3>2. CASE e = d /\ l \in DOMAIN thenBlocks[d]
      <4>1. k \in DOMAIN thenBlocks[d]
        BY <2>2, <3>2
      <4>2. thenBlocks[d][k] = made[i][2] /\ thenBlocks[d][l] = made[j][2]
        BY <2>2, <3>2, <4>1
      <4> QED BY <3>2, <4>1, <4>2 DEF KeptInOrder
    <3>3. CASE e = d /\ l \notin DOMAIN thenBlocks[d]
      <4>1. made[j][2] = b /\ k \in DOMAIN thenBlocks[d] /\ thenBlocks[d][k] = made[i][2]
        BY SMTT(30), <2>2, <3>3
      <4>2. j = m
        BY <1>5, <4>1
      <4>3. PICK c \in Blocks : made[i][2] = c
        BY <1>5
      <4>4. Kept(d, c)
        BY <4>1, <4>3 DEF Kept
      <4>5. made[i] = << d, c >>
        <5>1. PICK n \in DOMAIN made : made[n] = << d, c >>
          BY <4>4 DEF OnlyMade
        <5>2. n = i
          BY <4>3, <5>1 DEF MadeOnce
        <5> QED BY <5>1, <5>2
      <4> QED BY <1>2, <4>2, <4>4, <4>5 DEF FurtherIsEarlier
    <3> QED BY <3>1, <3>2, <3>3
  <2>8. DueInOrder'
    BY <1>1, <2>1 DEF DueInOrder
  <2>9. FurtherIsEarlier'
    <3> SUFFICES ASSUME NEW i \in DOMAIN made, NEW j \in DOMAIN made, NEW e \in Deferreds,
                        NEW x \in Blocks, NEW y \in Blocks,
                        made[i] = << e, x >>, made[j] = << e, y >>
                 PROVE  /\ Kept(e, x)' /\ Queued(e, y)' => i < j
                        /\ Due(e, x)' /\ Queued(e, y)' => i < j
                        /\ Called(x)' /\ (Queued(e, y)' \/ Kept(e, y)') => i < j
                        /\ Called(x)' /\ Due(e, y)' => i # j /\ (e \in Serial => i < j)
      BY <1>1 DEF FurtherIsEarlier
    <3>1. CASE e = d /\ x = b
      <4>1. i = m
        BY <1>5, <3>1
      <4> QED BY <1>2, <1>6, <1>7, <2>4, <3>1, <4>1
    <3>2. CASE ~(e = d /\ x = b)
      BY <1>2, <1>6, <1>7, <2>4, <3>2 DEF FurtherIsEarlier
    <3> QED BY <3>1, <3>2
  <2>10. KeptTillValue'
    BY <1>1, <1>10, <2>4 DEF KeptTillValue
  <2>11. CalledWithValue'
    BY <1>1, <1>7 DEF CalledWithValue
  <2> QED BY <1>7, <1>8, <1>9, <2>3, <2>5, <2>6, <2>7, <2>8, <2>9, <2>10, <2>11
<1>11. CASE state[d] # "Pending"
  <2>0. state[d] = "Resolved" /\ thenBlocks[d] = << >>
    <3>1. state[d] = "Resolved" /\ thenBlocks[d] \in Seq(Blocks)
      BY <1>11 DEF ClientTypeOK, PromiseTypeOK
    <3>2. thenBlocks[d] # << >> => Kept(d, thenBlocks[d][1])
      BY <3>1 DEF Kept
    <3>3. thenBlocks[d] # << >> => thenBlocks[d][1] \in Blocks
      BY <3>1
    <3> QED BY <3>1, <3>2, <3>3 DEF KeptTillValue
  <2> DEFINE t == Append(thenBlocks[d], b)
  <2>1. /\ thenBlocks' = [thenBlocks EXCEPT ![d] = << >>]
        /\ completionQueue' = completionQueue \o [i \in 1 .. Len(t) |-> << d, t[i] >>]
    BY <1>1, <1>2, <1>11 DEF ProcessBlocks
  <2>2. /\ completionQueue' \in Seq(Deferreds \X Blocks)
        /\ Len(completionQueue) \in Nat
        /\ DOMAIN completionQueue = 1 .. Len(completionQueue)
        /\ DOMAIN completionQueue' = 1 .. Len(completionQueue) + 1
        /\ \A k \in DOMAIN completionQueue : completionQueue'[k] = completionQueue[k]
        /\ completionQueue'[Len(completionQueue) + 1] = << d, b >>
    <3>1. t \in Seq(Blocks) /\ Len(t) = 1 /\ t[1] = b
      BY <2>0
    <3>2. completionQueue \in Seq(Deferreds \X Blocks)
      BY DEF ClientTypeOK, PromiseTypeOK
    <3> HIDE DEF t
    <3> QED BY <2>1, <3>1, <3>2, DispatchFacts
  <2>21. thenBlocks' = thenBlocks
    BY <2>0, <2>1 DEF ClientTypeOK, PromiseTypeOK
  <2>3. ClientTypeOK'
    BY <1>1, <1>4, <2>2, <2>21 DEF ClientTypeOK, PromiseTypeOK
  <2>4. /\ \A e \in Deferreds, c \in Blocks : Kept(e, c)' <=> Kept(e, c)
        /\ \A e \in Deferreds, c \in Blocks : Due(e, c)' <=> Due(e, c) \/ (e = d /\ c = b)
    <3>1. \A e \in Deferreds, c \in Blocks : Kept(e, c)' <=> Kept(e, c)
      BY <2>21 DEF Kept
    <3>2. ASSUME NEW e \in Deferreds, NEW c \in Blocks
          PROVE  Due(e, c)' <=> Due(e, c) \/ (e = d /\ c = b)
      <4>1. ASSUME NEW k \in DOMAIN completionQueue, completionQueue[k] = << e, c >>
            PROVE  Due(e, c)'
        <5>1. k \in DOMAIN completionQueue' /\ completionQueue'[k] = << e, c >>
          BY <2>2, <4>1
        <5> QED BY <5>1 DEF Due
      <4>2. e = d /\ c = b => Due(e, c)'
        BY <2>2 DEF Due
      <4>3. ASSUME NEW k \in DOMAIN completionQueue', completionQueue'[k] = << e, c >>
            PROVE  Due(e, c) \/ (e = d /\ c = b)
        <5>1. CASE k \in DOMAIN completionQueue
          BY <2>2, <4>3, <5>1 DEF Due
        <5>2. CASE k \notin DOMAIN completionQueue
          BY <2>2, <4>3, <5>2
        <5> QED BY <5>1, <5>2
      <4> QED BY <4>1, <4>2, <4>3 DEF Due
    <3> QED BY <3>1, <3>2
  <2>5. Somewhere'
    <3> SUFFICES ASSUME NEW e \in Deferreds, NEW c \in Blocks,
                        \E i \in DOMAIN made : made[i] = << e, c >>
                 PROVE  Queued(e, c)' \/ Kept(e, c)' \/ Due(e, c)' \/ Called(c)'
      BY <1>1 DEF Somewhere
    <3>1. Queued(e, c) \/ Kept(e, c) \/ Due(e, c) \/ Called(c)
      BY DEF Somewhere
    <3> QED BY <1>6, <1>7, <2>4, <3>1
  <2>6. OnlyMade'
    <3>1. ASSUME NEW e \in Deferreds, NEW c \in Blocks, Queued(e, c)' \/ Kept(e, c)' \/ Due(e, c)'
          PROVE  \E i \in DOMAIN made : made[i] = << e, c >>
      <4>1. Queued(e, c) \/ Kept(e, c) \/ Due(e, c) \/ (e = d /\ c = b)
        BY <1>6, <2>4, <3>1
      <4>2. CASE e = d /\ c = b
        BY <1>2, <4>2
      <4> QED BY <4>1, <4>2 DEF OnlyMade
    <3>2. \A c \in Blocks : Called(c)' => Made(c)'
      BY <1>7 DEF OnlyMade
    <3> QED BY <1>1, <3>1, <3>2 DEF OnlyMade
  <2>7. KeptInOrder'
    BY <1>1, <2>21 DEF KeptInOrder
  <2>8. DueInOrder'
    <3> SUFFICES ASSUME NEW k \in DOMAIN completionQueue', NEW l \in DOMAIN completionQueue',
                        NEW i \in DOMAIN made, NEW j \in DOMAIN made, k < l,
                        completionQueue'[k] = made[i], completionQueue'[l] = made[j],
                        made[i][1] = made[j][1]
                 PROVE  i < j
      BY <1>1 DEF DueInOrder
    <3>1. CASE l \in DOMAIN completionQueue
      <4>1. k \in DOMAIN completionQueue
        BY <2>2, <3>1
      <4>2. completionQueue[k] = made[i] /\ completionQueue[l] = made[j]
        BY <2>2, <3>1, <4>1
      <4> QED BY <3>1, <4>1, <4>2 DEF DueInOrder
    <3>2. CASE l \notin DOMAIN completionQueue
      <4>1. made[j] = << d, b >> /\ k \in DOMAIN completionQueue /\ completionQueue[k] = made[i]
        BY <2>2, <3>2
      <4>2. j = m
        BY <1>5, <4>1
      <4>3. PICK c \in Blocks : made[i] = << d, c >>
        BY <1>5, <4>1
      <4>4. Due(d, c)
        BY <4>1, <4>3 DEF Due
      <4> QED BY <1>2, <4>2, <4>3, <4>4 DEF FurtherIsEarlier
    <3> QED BY <3>1, <3>2
  <2>9. FurtherIsEarlier'
    <3> SUFFICES ASSUME NEW i \in DOMAIN made, NEW j \in DOMAIN made, NEW e \in Deferreds,
                        NEW x \in Blocks, NEW y \in Blocks,
                        made[i] = << e, x >>, made[j] = << e, y >>
                 PROVE  /\ Kept(e, x)' /\ Queued(e, y)' => i < j
                        /\ Due(e, x)' /\ Queued(e, y)' => i < j
                        /\ Called(x)' /\ (Queued(e, y)' \/ Kept(e, y)') => i < j
                        /\ Called(x)' /\ Due(e, y)' => i # j /\ (e \in Serial => i < j)
      BY <1>1 DEF FurtherIsEarlier
    <3>1. CASE e = d /\ x = b
      <4>1. i = m
        BY <1>5, <3>1
      <4> QED BY <1>2, <1>6, <1>7, <2>4, <3>1, <4>1
    <3>2. CASE ~(e = d /\ x = b)
      <4>1. i \in Nat /\ j \in Nat
        BY <1>5
      <4> QED BY <1>2, <1>6, <1>7, <2>4, <3>2, <4>1 DEF FurtherIsEarlier
    <3> QED BY <3>1, <3>2
  <2>10. KeptTillValue'
    BY <1>1, <2>0, <2>4 DEF KeptTillValue
  <2>11. CalledWithValue'
    BY <1>1, <1>7 DEF CalledWithValue
  <2> QED BY <1>7, <1>8, <1>9, <2>3, <2>5, <2>6, <2>7, <2>8, <2>9, <2>10, <2>11
<1> QED BY <1>10, <1>11

\* The promise gets its value, and the blocks kept for it become due in their order.
LEMMA RunResolveInv ==
    ASSUME DeferredInv, NEW d \in Deferreds, RunResolve(d), UNCHANGED << made, resolves >>
    PROVE  DeferredInv'
<1> USE DEF DeferredInv
<1> DEFINE q == syncQueue[d]
           t == thenBlocks[d]
<1>1. /\ q # << >> /\ Head(q).op = "resolve" /\ state[d] = "Pending"
      /\ syncQueue' = [syncQueue EXCEPT ![d] = Tail(@)]
      /\ state' = [state EXCEPT ![d] = "Resolved"]
      /\ value' = [value EXCEPT ![d] = << Head(q).value >>]
      /\ thenBlocks' = [thenBlocks EXCEPT ![d] = << >>]
      /\ completionQueue' = completionQueue \o [i \in 1 .. Len(t) |-> << d, t[i] >>]
      /\ UNCHANGED << calls, made, resolves >>
  BY DEF RunResolve, ProcessBlocks
<1>2. /\ q \in Seq(ApiCall) /\ t \in Seq(Blocks)
      /\ completionQueue \in Seq(Deferreds \X Blocks)
      /\ syncQueue'[d] = Tail(q) /\ thenBlocks'[d] = << >> /\ state'[d] = "Resolved"
      /\ value'[d] = << Head(q).value >>
  BY <1>1 DEF ClientTypeOK, PromiseTypeOK
<1>3. \A e \in Deferreds \ {d} :
          /\ syncQueue'[e] = syncQueue[e] /\ thenBlocks'[e] = thenBlocks[e]
          /\ state'[e] = state[e] /\ value'[e] = value[e]
  BY <1>1 DEF ClientTypeOK, PromiseTypeOK
<1>4. /\ Tail(q) \in Seq(ApiCall) /\ Head(q) = q[1] /\ Head(q) \in ApiCall
      /\ Len(q) \in Nat /\ Len(q) > 0 /\ DOMAIN q = 1 .. Len(q)
      /\ DOMAIN Tail(q) = 1 .. Len(q) - 1
      /\ \A k \in DOMAIN Tail(q) : Tail(q)[k] = q[k + 1]
  <2> HIDE DEF q
  <2> QED BY <1>1, <1>2, TailFacts
<1>5. /\ completionQueue' \in Seq(Deferreds \X Blocks)
      /\ Len(completionQueue) \in Nat /\ Len(t) \in Nat
      /\ DOMAIN completionQueue = 1 .. Len(completionQueue) /\ DOMAIN t = 1 .. Len(t)
      /\ DOMAIN completionQueue' = 1 .. Len(completionQueue) + Len(t)
      /\ \A k \in DOMAIN completionQueue : completionQueue'[k] = completionQueue[k]
      /\ \A k \in 1 .. Len(t) : completionQueue'[Len(completionQueue) + k] = << d, t[k] >>
  <2> HIDE DEF t
  <2> QED BY <1>1, <1>2, DispatchFacts
<1> HIDE DEF q, t
<1>6. Head(q).value \in Values /\ q[1] = ResolveCall(Head(q).value)
  BY <1>1, <1>4, ApiCalls
<1>7. /\ \A i \in DOMAIN made : made[i] \in Deferreds \X Blocks /\ i \in Nat
      /\ \A i \in DOMAIN made : made[i] = << made[i][1], made[i][2] >>
  <2>1. \A i \in DOMAIN made : made[i] \in Deferreds \X Blocks /\ i \in Nat
    BY ElementOfSeq, LenProperties DEF ClientTypeOK
  <2> QED BY <2>1
<1>8. ClientTypeOK'
  <2>1. /\ syncQueue' \in [Deferreds -> Seq(ApiCall)]
        /\ thenBlocks' \in [Deferreds -> Seq(Blocks)]
        /\ state' \in [Deferreds -> {"Pending", "Resolved"}]
    BY <1>1, <1>2, <1>4 DEF ClientTypeOK, PromiseTypeOK, q
  <2>2. value' \in [Deferreds -> {NoValue} \cup { << v >> : v \in Values }]
    BY <1>1, <1>6 DEF ClientTypeOK, PromiseTypeOK
  <2> QED BY <1>1, <1>5, <2>1, <2>2 DEF ClientTypeOK, PromiseTypeOK
<1>9. \A e \in Deferreds, c \in Blocks : Queued(e, c)' <=> Queued(e, c)
  <2> TAKE e \in Deferreds, c \in Blocks
  <2>1. CASE e # d
    BY <1>3, <2>1 DEF Queued
  <2>2. CASE e = d
    <3>1. ASSUME NEW k \in DOMAIN q, q[k] = ThenCall(c) PROVE Queued(d, c)'
      <4>1. k # 1
        BY <1>1, <1>4, <3>1, ApiCalls
      <4>2. k - 1 \in DOMAIN Tail(q) /\ (k - 1) + 1 = k
        BY <1>4, <4>1
      <4> QED BY <1>2, <1>4, <3>1, <4>2 DEF Queued
    <3>2. ASSUME NEW k \in DOMAIN Tail(q), Tail(q)[k] = ThenCall(c) PROVE Queued(d, c)
      <4>1. k + 1 \in DOMAIN q /\ q[k + 1] = ThenCall(c)
        BY <1>4, <3>2
      <4> QED BY <4>1 DEF Queued, q
    <3> QED BY <1>2, <2>2, <3>1, <3>2 DEF Queued, q
  <2> QED BY <2>1, <2>2
<1>10. \A e \in Deferreds, c \in Blocks : Kept(e, c)' <=> Kept(e, c) /\ e # d
  BY <1>2, <1>3 DEF Kept
<1>11. \A e \in Deferreds, c \in Blocks : Due(e, c)' <=> Due(e, c) \/ (e = d /\ Kept(d, c))
  <2> TAKE e \in Deferreds, c \in Blocks
  <2>1. ASSUME NEW k \in DOMAIN completionQueue, completionQueue[k] = << e, c >> PROVE Due(e, c)'
    <3>1. k \in DOMAIN completionQueue' /\ completionQueue'[k] = completionQueue[k]
      BY <1>5
    <3> QED BY <2>1, <3>1 DEF Due
  <2>2. ASSUME e = d, NEW k \in DOMAIN t, t[k] = c PROVE Due(e, c)'
    <3>1. Len(completionQueue) + k \in DOMAIN completionQueue'
      BY <1>5
    <3> QED BY <1>5, <2>2, <3>1 DEF Due
  <2>3. ASSUME NEW k \in DOMAIN completionQueue', completionQueue'[k] = << e, c >>
        PROVE  Due(e, c) \/ (e = d /\ Kept(d, c))
    <3>1. CASE k \in DOMAIN completionQueue
      BY <1>5, <2>3, <3>1 DEF Due
    <3>2. CASE k \notin DOMAIN completionQueue
      <4>1. k - Len(completionQueue) \in 1 .. Len(t)
            /\ Len(completionQueue) + (k - Len(completionQueue)) = k
        BY <1>5, <3>2
      <4>2. e = d /\ t[k - Len(completionQueue)] = c
        BY <1>5, <2>3, <4>1
      <4> QED BY <1>5, <4>1, <4>2 DEF Kept, t
    <3> QED BY <3>1, <3>2
  <2> QED BY <2>1, <2>2, <2>3 DEF Due, Kept, t
<1>12. \A c \in Blocks : (Called(c)' <=> Called(c)) /\ (Made(c)' <=> Made(c))
  BY <1>1 DEF Called, Made
<1>13. MadeOnce'
  BY <1>1 DEF MadeOnce
<1>14. Somewhere'
  <2> SUFFICES ASSUME NEW e \in Deferreds, NEW c \in Blocks,
                      \E i \in DOMAIN made : made[i] = << e, c >>
               PROVE  Queued(e, c)' \/ Kept(e, c)' \/ Due(e, c)' \/ Called(c)'
    BY <1>1 DEF Somewhere
  <2>1. Queued(e, c) \/ Kept(e, c) \/ Due(e, c) \/ Called(c)
    BY DEF Somewhere
  <2> QED BY <1>9, <1>10, <1>11, <1>12, <2>1
<1>15. OnlyMade'
  <2>1. ASSUME NEW e \in Deferreds, NEW c \in Blocks, Queued(e, c)' \/ Kept(e, c)' \/ Due(e, c)'
        PROVE  \E i \in DOMAIN made : made[i] = << e, c >>
    <3>1. Queued(e, c) \/ Kept(e, c) \/ Due(e, c)
      BY <1>9, <1>10, <1>11, <2>1
    <3> QED BY <3>1 DEF OnlyMade
  <2>2. \A c \in Blocks : Called(c)' => Made(c)'
    BY <1>12 DEF OnlyMade
  <2> QED BY <1>1, <2>1, <2>2 DEF OnlyMade
<1>16. QueuedInOrder'
  <2> SUFFICES ASSUME NEW e \in Deferreds, NEW k \in DOMAIN syncQueue'[e],
                      NEW l \in DOMAIN syncQueue'[e], NEW i \in DOMAIN made,
                      NEW j \in DOMAIN made, k < l,
                      syncQueue'[e][k] = ThenCall(made[i][2]),
                      syncQueue'[e][l] = ThenCall(made[j][2])
               PROVE  i < j
    <3>1. made' = made
      BY <1>1
    <3> QED BY <3>1 DEF QueuedInOrder
  <2>1. CASE e # d
    BY <1>3, <2>1 DEF QueuedInOrder
  <2>2. CASE e = d
    <3>1. k \in DOMAIN Tail(q) /\ l \in DOMAIN Tail(q)
      BY <1>2, <2>2
    <3>2. k + 1 \in DOMAIN q /\ l + 1 \in DOMAIN q /\ k + 1 < l + 1
      BY <1>4, <3>1
    <3>3. q[k + 1] = ThenCall(made[i][2]) /\ q[l + 1] = ThenCall(made[j][2])
      BY <1>2, <1>4, <2>2, <3>1
    <3> QED BY <3>2, <3>3 DEF QueuedInOrder, q
  <2> QED BY <2>1, <2>2
<1>17. KeptInOrder'
  <2> SUFFICES ASSUME NEW e \in Deferreds, NEW k \in DOMAIN thenBlocks'[e],
                      NEW l \in DOMAIN thenBlocks'[e], NEW i \in DOMAIN made,
                      NEW j \in DOMAIN made, k < l,
                      thenBlocks'[e][k] = made[i][2], thenBlocks'[e][l] = made[j][2]
               PROVE  i < j
    BY <1>1 DEF KeptInOrder
  <2>1. e # d
    BY <1>2
  <2> QED BY <1>3, <2>1 DEF KeptInOrder
<1>18. DueInOrder'
  <2> SUFFICES ASSUME NEW k \in DOMAIN completionQueue', NEW l \in DOMAIN completionQueue',
                      NEW i \in DOMAIN made, NEW j \in DOMAIN made, k < l,
                      completionQueue'[k] = made[i], completionQueue'[l] = made[j],
                      made[i][1] = made[j][1]
               PROVE  i < j
    BY <1>1 DEF DueInOrder
  <2> DEFINE n == Len(completionQueue)
  <2>1. CASE l \in DOMAIN completionQueue
    <3>1. k \in DOMAIN completionQueue
      BY <1>5, <2>1
    <3>2. completionQueue[k] = made[i] /\ completionQueue[l] = made[j]
      BY <1>5, <2>1, <3>1
    <3> QED BY <2>1, <3>1, <3>2 DEF DueInOrder
  <2>2. CASE l \notin DOMAIN completionQueue
    <3>1. l - n \in DOMAIN t /\ n + (l - n) = l
      BY <1>5, <2>2
    <3>2. made[j] = << d, t[l - n] >>
      BY <1>5, <3>1
    <3>3. t[l - n] \in Blocks /\ Kept(d, t[l - n])
      BY <1>2, <3>1 DEF Kept, t
    <3>4. CASE k \in DOMAIN completionQueue
      <4>1. PICK c \in Blocks : made[i] = << d, c >>
        BY <1>7, <3>2
      <4>2. Due(d, c)
        BY <1>5, <3>4, <4>1 DEF Due
      <4> QED BY <1>1, <4>2 DEF KeptTillValue
    <3>5. CASE k \notin DOMAIN completionQueue
      <4>1. k - n \in DOMAIN t /\ n + (k - n) = k /\ k - n < l - n
        BY <1>5, <3>1, <3>5
      <4>2. made[i] = << d, t[k - n] >>
        BY <1>5, <4>1
      <4> QED BY <3>1, <3>2, <4>1, <4>2 DEF KeptInOrder, t
    <3> QED BY <3>4, <3>5
  <2> QED BY <2>1, <2>2
<1>19. FurtherIsEarlier'
  <2> SUFFICES ASSUME NEW i \in DOMAIN made, NEW j \in DOMAIN made, NEW e \in Deferreds,
                      NEW x \in Blocks, NEW y \in Blocks,
                      made[i] = << e, x >>, made[j] = << e, y >>
               PROVE  /\ Kept(e, x)' /\ Queued(e, y)' => i < j
                      /\ Due(e, x)' /\ Queued(e, y)' => i < j
                      /\ Called(x)' /\ (Queued(e, y)' \/ Kept(e, y)') => i < j
                      /\ Called(x)' /\ Due(e, y)' => i # j /\ (e \in Serial => i < j)
    BY <1>1 DEF FurtherIsEarlier
  <2>1. i \in Nat /\ j \in Nat
    BY <1>7
  <2>2. /\ Kept(e, x) /\ Queued(e, y) => i < j
        /\ Due(e, x) /\ Queued(e, y) => i < j
        /\ Called(x) /\ (Queued(e, y) \/ Kept(e, y)) => i < j
        /\ Called(x) /\ Due(e, y) => i # j /\ (e \in Serial => i < j)
    BY DEF FurtherIsEarlier
  <2> QED BY <1>9, <1>10, <1>11, <1>12, <2>1, <2>2
<1>20. KeptTillValue'
  <2> SUFFICES ASSUME NEW e \in Deferreds, NEW c \in Blocks
               PROVE  (Kept(e, c)' => state'[e] = "Pending") /\ (Due(e, c)' => state'[e] = "Resolved")
    BY DEF KeptTillValue
  <2> QED BY <1>2, <1>3, <1>10, <1>11 DEF KeptTillValue
<1>21. CalledWithValue'
  <2> SUFFICES ASSUME NEW i \in DOMAIN made, NEW e \in Deferreds, NEW c \in Blocks,
                      made[i] = << e, c >>, Called(c)
               PROVE  state'[e] = "Resolved" /\ calls[c] = << value'[e] >>
    BY <1>1, <1>12 DEF CalledWithValue
  <2>1. state[e] = "Resolved" /\ calls[c] = << value[e] >>
    BY DEF CalledWithValue
  <2> QED BY <1>1, <1>3, <2>1
<1>22. FirstValue'
  <2> SUFFICES ASSUME NEW e \in Deferreds
               PROVE  IF state'[e] = "Resolved"
                      THEN resolves[e] # << >> /\ value'[e] = << resolves[e][1] >>
                      ELSE /\ value'[e] = NoValue
                           /\ resolves[e] = << >> =>
                                \A k \in DOMAIN syncQueue'[e] : syncQueue'[e][k].op = "then"
                           /\ resolves[e] # << >> => \E k \in DOMAIN syncQueue'[e] :
                                /\ syncQueue'[e][k] = ResolveCall(resolves[e][1])
                                /\ \A l \in 1 .. k - 1 : syncQueue'[e][l].op = "then"
    BY ZenonT(30), <1>1 DEF FirstValue
  <2>1. CASE e # d
    BY <1>3, <2>1 DEF FirstValue
  <2>2. CASE e = d
    <3>1. q[1].op = "resolve" /\ 1 \in DOMAIN q /\ state[d] # "Resolved"
      BY <1>1, <1>4
    <3>2. resolves[d] # << >>
      BY <3>1 DEF FirstValue, q
    <3>3. PICK k \in DOMAIN q : /\ q[k] = ResolveCall(resolves[d][1])
                               /\ \A l \in 1 .. k - 1 : q[l].op = "then"
      BY <3>1, <3>2 DEF FirstValue, q
    <3>4. k = 1
      BY <1>4, <3>1, <3>3
    <3>5. resolves[d][1] \in Values
      BY <3>2 DEF ClientTypeOK
    <3>6. Head(q).value = resolves[d][1]
      BY <1>6, <3>3, <3>4, <3>5, ApiCalls
    <3> QED BY <1>2, <2>2, <3>2, <3>6
  <2> QED BY <2>1, <2>2
<1> QED BY <1>8, <1>13, <1>14, <1>15, <1>16, <1>17, <1>18, <1>19, <1>20, <1>21, <1>22

\* The assertion stops the process, and nothing else happens.
LEMMA StutterInv ==
    ASSUME DeferredInv, UNCHANGED << promiseVars, made, resolves >>
    PROVE  DeferredInv'
<1>1. UNCHANGED << syncQueue, state, value, thenBlocks, completionQueue, calls, made, resolves >>
  BY DEF promiseVars
<1>2. ClientTypeOK'
  BY <1>1 DEF DeferredInv, ClientTypeOK, PromiseTypeOK
<1>3. \A d \in Deferreds, b \in Blocks :
          /\ Queued(d, b)' <=> Queued(d, b)
          /\ Kept(d, b)' <=> Kept(d, b)
          /\ Due(d, b)' <=> Due(d, b)
          /\ Called(b)' <=> Called(b)
  BY <1>1 DEF Queued, Kept, Due, Called
<1>4. MadeOnce' /\ Somewhere' /\ OnlyMade' /\ KeptInOrder' /\ DueInOrder' /\ FurtherIsEarlier'
  BY <1>1, <1>2, <1>3, SameThens DEF ClientTypeOK, PromiseTypeOK
<1>5. QueuedInOrder' /\ FirstValue'
  BY <1>1 DEF DeferredInv, QueuedInOrder, FirstValue
<1>6. KeptTillValue'
  BY <1>1, <1>3 DEF DeferredInv, KeptTillValue
<1>7. CalledWithValue'
  BY <1>1, <1>3 DEF DeferredInv, CalledWithValue
<1> QED BY <1>2, <1>4, <1>5, <1>6, <1>7 DEF DeferredInv

---------------------------------------------------------------------------
(* The completion queue.                                                   *)

\* A block is called: it was due nowhere else, and a serial queue took the oldest.
LEMMA RunCompletionInv ==
    ASSUME DeferredInv, RunCompletion, UNCHANGED << made, resolves >>
    PROVE  DeferredInv'
<1> USE DEF DeferredInv
<1> DEFINE q == completionQueue
<1>1. UNCHANGED << syncQueue, state, value, thenBlocks, made, resolves >>
  BY DEF RunCompletion
<1>2. PICK p \in 1 .. Len(q), d \in Deferreds, b \in Blocks :
          /\ q[p] = << d, b >>
          /\ d \in Serial => \A k \in 1 .. (p - 1) : q[k][1] \notin Serial
          /\ q' = RemoveAt(q, p)
          /\ calls' = [calls EXCEPT ![b] = Append(@, value[d])]
  <2>1. \A p \in 1 .. Len(q) : q[p] \in Deferreds \X Blocks
    BY ElementOfSeq DEF ClientTypeOK, PromiseTypeOK
  <2>2. PICK p \in 1 .. Len(q) :
          /\ q[p][1] \in Serial => \A k \in 1 .. (p - 1) : q[k][1] \notin Serial
          /\ q' = RemoveAt(q, p)
          /\ calls' = [calls EXCEPT ![q[p][2]] = Append(@, value[q[p][1]])]
    BY DEF RunCompletion
  <2>3. PICK d \in Deferreds, b \in Blocks : q[p] = << d, b >>
    BY <2>1
  <2>4. q[p][1] = d /\ q[p][2] = b
    BY <2>3
  <2> HIDE DEF q
  <2> QED BY <2>2, <2>3, <2>4
<1>3. /\ q' \in Seq(Deferreds \X Blocks)
      /\ Len(q) \in Nat /\ DOMAIN q = 1 .. Len(q) /\ DOMAIN q' = 1 .. Len(q) - 1
      /\ \A k \in DOMAIN q' : q'[k] = IF k < p THEN q[k] ELSE q[k + 1]
      /\ p \in DOMAIN q
  <2>1. q \in Seq(Deferreds \X Blocks) /\ p \in 1 .. Len(q) /\ q' = RemoveAt(q, p)
    BY <1>2 DEF ClientTypeOK, PromiseTypeOK
  <2> HIDE DEF q
  <2> QED BY <2>1, RemoveAtFacts
<1> HIDE DEF q
<1>4. /\ \A i \in DOMAIN made : made[i] \in Deferreds \X Blocks /\ i \in Nat
      /\ \A i \in DOMAIN made : made[i] = << made[i][1], made[i][2] >>
  <2>1. \A i \in DOMAIN made : made[i] \in Deferreds \X Blocks /\ i \in Nat
    BY ElementOfSeq, LenProperties DEF ClientTypeOK
  <2> QED BY <2>1
<1>5. Due(d, b)
  BY <1>2, <1>3 DEF Due, q
<1>6. PICK m \in DOMAIN made : made[m] = << d, b >>
  BY <1>5 DEF OnlyMade
<1>7. \A i \in DOMAIN made : made[i][2] = b => i = m
  BY <1>6 DEF MadeOnce
<1>8. m \in Nat /\ ~(m < m)
  BY <1>4
<1>9. ~Called(b) /\ ~Kept(d, b) /\ ~Queued(d, b) /\ state[d] = "Resolved"
  BY <1>5, <1>6, <1>8 DEF FurtherIsEarlier, KeptTillValue
<1>10. calls[b] = << >> /\ calls'[b] = << value[d] >> /\ value[d] \in {NoValue} \cup { << v >> : v \in Values }
  BY SMTT(30), <1>2, <1>9 DEF Called, ClientTypeOK, PromiseTypeOK
<1>11. \A c \in Blocks \ {b} : calls'[c] = calls[c]
  BY <1>2 DEF ClientTypeOK, PromiseTypeOK
<1>12. \A c \in Blocks : Called(c)' <=> Called(c) \/ c = b
  BY <1>10, <1>11 DEF Called
<1>13. /\ \A e \in Deferreds, c \in Blocks : Queued(e, c)' <=> Queued(e, c)
       /\ \A e \in Deferreds, c \in Blocks : Kept(e, c)' <=> Kept(e, c)
  BY <1>1 DEF Queued, Kept
<1>14. ASSUME NEW k \in DOMAIN q, k # p, q[k] = << d, b >> PROVE FALSE
  <2>1. q[k] = made[m] /\ q[p] = made[m] /\ made[m][1] = made[m][1]
    BY <1>2, <1>6, <1>14
  <2>2. k < p \/ p < k
    BY <1>3, <1>14
  <2>3. m < m
    BY <1>3, <2>1, <2>2 DEF DueInOrder, q
  <2> QED BY <1>8, <2>3
<1>15. ASSUME NEW e \in Deferreds, NEW c \in Blocks
       PROVE  Due(e, c)' <=> Due(e, c) /\ ~(e = d /\ c = b)
  <2>1. ASSUME NEW k \in DOMAIN q, q[k] = << e, c >>, ~(e = d /\ c = b) PROVE Due(e, c)'
    <3>1. k # p
      BY <1>2, <2>1
    <3>2. CASE k < p
      <4>1. k \in DOMAIN q' /\ q'[k] = << e, c >>
        BY <1>3, <2>1, <3>2
      <4> QED BY <4>1 DEF Due, q
    <3>3. CASE k > p
      <4>1. k - 1 \in DOMAIN q' /\ ~(k - 1 < p) /\ (k - 1) + 1 = k
        BY <1>3, <3>3
      <4>2. q'[k - 1] = << e, c >>
        BY <1>3, <2>1, <4>1
      <4> QED BY <4>1, <4>2 DEF Due, q
    <3> QED BY <1>3, <3>1, <3>2, <3>3
  <2>2. ASSUME NEW k \in DOMAIN q', q'[k] = << e, c >> PROVE Due(e, c) /\ ~(e = d /\ c = b)
    <3>1. PICK l \in DOMAIN q : l # p /\ q[l] = << e, c >>
      <4>1. CASE k < p
        BY <1>3, <2>2, <4>1
      <4>2. CASE ~(k < p)
        <5>1. k + 1 \in DOMAIN q /\ k + 1 # p
          BY <1>3, <4>2
        <5> QED BY <1>3, <2>2, <4>2, <5>1
      <4> QED BY <4>1, <4>2
    <3>2. Due(e, c)
      BY <3>1 DEF Due, q
    <3>3. ~(e = d /\ c = b)
      BY <1>14, <3>1
    <3> QED BY <3>2, <3>3
  <2> QED BY <2>1, <2>2 DEF Due, q
<1>16. ClientTypeOK'
  <2>1. Append(calls[b], value[d]) \in Seq({NoValue} \cup { << v >> : v \in Values })
    BY <1>10 DEF ClientTypeOK, PromiseTypeOK
  <2>2. calls' \in [Blocks -> Seq({NoValue} \cup { << v >> : v \in Values })]
    BY <1>2, <2>1 DEF ClientTypeOK, PromiseTypeOK
  <2> QED BY <1>1, <1>3, <2>2 DEF ClientTypeOK, PromiseTypeOK, q
<1>17. MadeOnce' /\ QueuedInOrder' /\ KeptInOrder' /\ FirstValue'
  BY <1>1 DEF MadeOnce, QueuedInOrder, KeptInOrder, FirstValue
<1>18. Somewhere'
  <2> SUFFICES ASSUME NEW e \in Deferreds, NEW c \in Blocks,
                      \E i \in DOMAIN made : made[i] = << e, c >>
               PROVE  Queued(e, c)' \/ Kept(e, c)' \/ Due(e, c)' \/ Called(c)'
    BY <1>1 DEF Somewhere
  <2>1. Queued(e, c) \/ Kept(e, c) \/ Due(e, c) \/ Called(c)
    BY DEF Somewhere
  <2> QED BY <1>12, <1>13, <1>15, <2>1
<1>19. OnlyMade'
  <2>1. ASSUME NEW e \in Deferreds, NEW c \in Blocks, Queued(e, c)' \/ Kept(e, c)' \/ Due(e, c)'
        PROVE  \E i \in DOMAIN made : made[i] = << e, c >>
    <3>1. Queued(e, c) \/ Kept(e, c) \/ Due(e, c)
      BY <1>13, <1>15, <2>1
    <3> QED BY <3>1 DEF OnlyMade
  <2>2. ASSUME NEW c \in Blocks, Called(c)' PROVE Made(c)
    <3>1. CASE c = b
      <4>1. m \in 1 .. Len(made) /\ made[m][2] = b
        BY <1>6 DEF ClientTypeOK
      <4> QED BY <3>1, <4>1 DEF Made
    <3>2. CASE c # b
      BY <1>12, <2>2, <3>2 DEF OnlyMade
    <3> QED BY <3>1, <3>2
  <2>3. \A c \in Blocks : Made(c)' <=> Made(c)
    BY <1>1 DEF Made
  <2> QED BY <1>1, <2>1, <2>2, <2>3 DEF OnlyMade
<1>20. DueInOrder'
  <2> SUFFICES ASSUME NEW k \in DOMAIN q', NEW l \in DOMAIN q', NEW i \in DOMAIN made,
                      NEW j \in DOMAIN made, k < l, q'[k] = made[i], q'[l] = made[j],
                      made[i][1] = made[j][1]
               PROVE  i < j
    BY <1>1 DEF DueInOrder, q
  <2> DEFINE Old(n) == IF n < p THEN n ELSE n + 1
  <2>1. /\ Old(k) \in DOMAIN q /\ Old(l) \in DOMAIN q /\ Old(k) < Old(l)
        /\ q[Old(k)] = q'[k] /\ q[Old(l)] = q'[l]
    BY <1>3
  <2> QED BY <2>1 DEF DueInOrder, q
<1>21. FurtherIsEarlier'
  <2> SUFFICES ASSUME NEW i \in DOMAIN made, NEW j \in DOMAIN made, NEW e \in Deferreds,
                      NEW x \in Blocks, NEW y \in Blocks,
                      made[i] = << e, x >>, made[j] = << e, y >>
               PROVE  /\ Kept(e, x)' /\ Queued(e, y)' => i < j
                      /\ Due(e, x)' /\ Queued(e, y)' => i < j
                      /\ Called(x)' /\ (Queued(e, y)' \/ Kept(e, y)') => i < j
                      /\ Called(x)' /\ Due(e, y)' => i # j /\ (e \in Serial => i < j)
    BY <1>1 DEF FurtherIsEarlier
  <2>1. i \in Nat /\ j \in Nat
    BY <1>4
  <2>2. /\ Kept(e, x) /\ Queued(e, y) => i < j
        /\ Due(e, x) /\ Queued(e, y) => i < j
        /\ Called(x) /\ (Queued(e, y) \/ Kept(e, y)) => i < j
        /\ Called(x) /\ Due(e, y) => i # j /\ (e \in Serial => i < j)
    BY DEF FurtherIsEarlier
  <2>3. CASE x # b
    BY <1>12, <1>13, <1>15, <2>1, <2>2, <2>3
  <2>4. CASE x = b
    <3>1. i = m /\ e = d
      BY <1>6, <1>7, <2>4
    <3>2. Queued(e, y) => i < j
      BY <1>5, <2>2, <2>4, <3>1
    <3>3. ~Kept(e, y)
      BY <1>9, <3>1 DEF KeptTillValue
    <3>4. ASSUME Due(e, y)' PROVE i # j /\ (e \in Serial => i < j)
      <4>1. Due(d, y) /\ y # b
        BY <1>15, <3>1, <3>4
      <4>2. i # j
        BY <2>4, <4>1
      <4>3. PICK k \in DOMAIN q : q[k] = << d, y >>
        BY <4>1 DEF Due, q
      <4>4. ASSUME d \in Serial PROVE i < j
        <5>1. k # p /\ ~(k < p)
          BY <1>2, <1>3, <4>1, <4>3, <4>4
        <5>2. p < k
          BY <1>3, <5>1
        <5>3. q[p] = made[i] /\ q[k] = made[j] /\ made[i][1] = made[j][1]
          BY <1>2, <2>4, <3>1, <4>3
        <5> QED BY <1>3, <4>3, <5>2, <5>3 DEF DueInOrder, q
      <4> QED BY <3>1, <4>2, <4>4
    <3> QED BY <1>13, <2>1, <2>2, <3>2, <3>3, <3>4
  <2> QED BY <2>3, <2>4
<1>22. KeptTillValue'
  <2> SUFFICES ASSUME NEW e \in Deferreds, NEW c \in Blocks
               PROVE  (Kept(e, c)' => state[e] = "Pending") /\ (Due(e, c)' => state[e] = "Resolved")
    BY <1>1 DEF KeptTillValue
  <2> QED BY <1>13, <1>15 DEF KeptTillValue
<1>23. CalledWithValue'
  <2> SUFFICES ASSUME NEW i \in DOMAIN made, NEW e \in Deferreds, NEW c \in Blocks,
                      made[i] = << e, c >>, Called(c)'
               PROVE  state[e] = "Resolved" /\ calls'[c] = << value[e] >>
    BY <1>1 DEF CalledWithValue
  <2>1. CASE c = b
    <3>1. e = d
      BY <1>6, <1>7, <2>1
    <3> QED BY <1>9, <1>10, <2>1, <3>1
  <2>2. CASE c # b
    BY <1>11, <1>12, <2>2 DEF CalledWithValue
  <2> QED BY <2>1, <2>2
<1> QED BY <1>16, <1>17, <1>18, <1>19, <1>20, <1>21, <1>22, <1>23

---------------------------------------------------------------------------
(* The theorems.                                                           *)

LEMMA DeferredStep == DeferredInv /\ [NextDeferreds]_deferredVars => DeferredInv'
<1> SUFFICES ASSUME DeferredInv, [NextDeferreds]_deferredVars PROVE DeferredInv'
  OBVIOUS
<1>1. CASE \E d \in Deferreds, b \in Blocks : ClientThen(d, b)
  BY <1>1, ThenInv
<1>2. CASE \E d \in Deferreds, v \in Values : ClientResolve(d, v)
  BY <1>2, ResolveInv
<1>3. CASE Run
  <2>1. CASE RunCompletion
    BY <1>3, <2>1, RunCompletionInv DEF Run
  <2>2. CASE \E d \in Deferreds : RunSyncQueue(d)
    <3>1. PICK d \in Deferreds : RunThen(d) \/ RunResolve(d) \/ RunSecondResolve(d)
      BY <2>2 DEF RunSyncQueue
    <3>2. UNCHANGED << made, resolves >>
      BY <1>3 DEF Run
    <3>3. CASE RunSecondResolve(d)
      BY <3>2, <3>3, StutterInv DEF RunSecondResolve
    <3> QED BY <3>1, <3>2, <3>3, RunThenInv, RunResolveInv
  <2> QED BY <1>3, <2>1, <2>2 DEF Run, RunQueues
<1>4. CASE UNCHANGED deferredVars
  BY <1>4, StutterInv DEF deferredVars
<1> QED BY <1>1, <1>2, <1>3, <1>4 DEF NextDeferreds

THEOREM DeferredInvariant == SpecDeferreds => []DeferredInv
BY InitDeferredInv, DeferredStep, PTL DEF SpecDeferreds

\* Whatever raced, a block is called at most once, with the value of the first
\* `resolve:' of its promise (BRUDeferred.m:89-148).
THEOREM BlocksGetTheFirstValue == SpecDeferreds => []CalledOnceWithFirstValue
<1>1. DeferredInv => CalledOnceWithFirstValue
  <2> SUFFICES ASSUME DeferredInv, NEW i \in 1 .. Len(made), calls[made[i][2]] # << >>
               PROVE  /\ resolves[made[i][1]] # << >>
                      /\ calls[made[i][2]] = << << Head(resolves[made[i][1]]) >> >>
    BY DEF CalledOnceWithFirstValue
  <2>1. made \in Seq(Deferreds \X Blocks) /\ i \in DOMAIN made
    BY DEF DeferredInv, ClientTypeOK
  <2>2. PICK d \in Deferreds, b \in Blocks : made[i] = << d, b >>
    BY <2>1, ElementOfSeq
  <2>3. state[d] = "Resolved" /\ calls[b] = << value[d] >>
    BY <2>1, <2>2 DEF DeferredInv, CalledWithValue, Called
  <2>4. resolves[d] # << >> /\ value[d] = << resolves[d][1] >>
    BY <2>3 DEF DeferredInv, FirstValue
  <2>5. Head(resolves[d]) = resolves[d][1]
    BY <2>4 DEF DeferredInv, ClientTypeOK
  <2> QED BY <2>2, <2>3, <2>4, <2>5
<1> QED BY <1>1, DeferredInvariant, PTL

\* With a serial completion queue, the blocks of one promise are called in the order
\* of their `then:', whether `resolve:' came before, between or after them
\* (BRUDeferred.m:116, 132-140).
THEOREM SerialQueuesKeepTheOrder == SpecDeferreds => []CalledInOrder
<1>1. DeferredInv => CalledInOrder
  <2> SUFFICES ASSUME DeferredInv, NEW i \in 1 .. Len(made), NEW j \in 1 .. Len(made),
                      i < j, made[i][1] = made[j][1], made[i][1] \in Serial,
                      Called(made[j][2]), ~Called(made[i][2])
               PROVE  FALSE
    BY DEF CalledInOrder, Called
  <2>1. /\ i \in DOMAIN made /\ j \in DOMAIN made
        /\ made[i] \in Deferreds \X Blocks /\ made[j] \in Deferreds \X Blocks
    BY ElementOfSeq DEF DeferredInv, ClientTypeOK
  <2>2. PICK d \in Deferreds, b \in Blocks, c \in Blocks : made[i] = << d, b >> /\ made[j] = << d, c >>
    BY <2>1
  <2>3. d \in Serial /\ Called(c) /\ ~Called(b)
    BY <2>2
  <2>4. Queued(d, b) \/ Kept(d, b) \/ Due(d, b)
    BY <2>1, <2>2, <2>3 DEF DeferredInv, Somewhere
  <2>5. j < i
    BY <2>1, <2>2, <2>3, <2>4 DEF DeferredInv, FurtherIsEarlier
  <2> QED BY <2>5
<1> QED BY <1>1, DeferredInvariant, PTL

---------------------------------------------------------------------------
(* The queues implement the promise, step by step.                         *)

Registered == [b \in Blocks |-> { d \in Deferreds : Contains(made, << d, b >>) }]

\* The block of `resolve:' on the syncQueue settles the promise, the completion
\* queue delivers, and every other step is invisible.
LEMMA PromiseStep ==
    ASSUME DeferredInv, [NextDeferreds]_deferredVars
    PROVE  [P!Next]_(P!vars)
<1> USE DEF Registered
<1>1. ASSUME NEW d \in Deferreds, NEW b \in Blocks, ClientThen(d, b)
      PROVE  P!Next
  <2>1. /\ aborted = "no" /\ aborted' = aborted /\ value' = value /\ calls' = calls
        /\ ~Made(b) /\ made' = Append(made, << d, b >>)
    BY <1>1 DEF ClientThen, Then, Enqueue
  <2>2. \A e \in Deferreds, c \in Blocks :
            Contains(made, << e, c >>)' <=> Contains(made, << e, c >>) \/ (e = d /\ c = b)
    <3> TAKE e \in Deferreds, c \in Blocks
    <3> DEFINE n == Len(made)
    <3>1. /\ n \in Nat /\ Len(made') = n + 1 /\ made'[n + 1] = << d, b >>
          /\ \A i \in 1 .. n : made'[i] = made[i]
      BY <2>1 DEF DeferredInv, ClientTypeOK
    <3>2. \A i \in 1 .. n + 1 : i \in 1 .. n \/ i = n + 1
      BY <3>1
    <3>3. 1 .. n \subseteq 1 .. n + 1 /\ n + 1 \in 1 .. n + 1
      BY <3>1
    <3> HIDE DEF n
    <3>4. Contains(made, << e, c >>) <=> \E i \in 1 .. n : made[i] = << e, c >>
      BY DEF Contains, n
    <3>5. Contains(made, << e, c >>)' <=> \E i \in 1 .. n + 1 : made'[i] = << e, c >>
      BY <3>1 DEF Contains
    <3> QED BY <3>1, <3>2, <3>3, <3>4, <3>5
  <2>3. \A e \in Deferreds : ~Contains(made, << e, b >>)
    BY <2>1 DEF Made, Contains
  <2>4. Registered[b] = {} /\ Registered' = [Registered EXCEPT ![b] = {d}]
    BY <2>2, <2>3
  <2>5. P!Register(d, b)
    BY <2>1, <2>4 DEF P!Register
  <2> QED BY <2>1, <2>5 DEF P!Next
<1>2. ASSUME NEW d \in Deferreds, NEW v \in Values, ClientResolve(d, v)
      PROVE  UNCHANGED P!vars
  BY <1>2 DEF ClientResolve, Resolve, Enqueue, P!vars, Contains
<1>3. ASSUME Run PROVE [P!Next]_(P!vars)
  <2>0. made' = made /\ Registered' = Registered
    BY <1>3 DEF Run, Contains
  <2>1. CASE RunCompletion
    <3>1. PICK p \in 1 .. Len(completionQueue) :
              calls' = [calls EXCEPT ![completionQueue[p][2]] = Append(@, value[completionQueue[p][1]])]
      BY <2>1 DEF RunCompletion
    <3>2. completionQueue[p] \in Deferreds \X Blocks /\ p \in DOMAIN completionQueue
      BY ElementOfSeq DEF DeferredInv, ClientTypeOK, PromiseTypeOK
    <3>3. PICK d \in Deferreds, b \in Blocks : completionQueue[p] = << d, b >>
      BY <3>2
    <3>4. Due(d, b)
      BY <3>2, <3>3 DEF Due
    <3>5. PICK m \in DOMAIN made : made[m] = << d, b >>
      BY <3>4 DEF DeferredInv, OnlyMade
    <3>6. calls[b] = << >>
      BY <3>4, <3>5 DEF DeferredInv, FurtherIsEarlier, Called
    <3>7. d \in Registered[b]
      <4>1. m \in 1 .. Len(made)
        BY DEF DeferredInv, ClientTypeOK
      <4>2. Contains(made, << d, b >>)
        BY <3>5, <4>1 DEF Contains
      <4> QED BY <4>2
    <3>8. value[d] # << >>
      BY <3>4 DEF DeferredInv, KeptTillValue, FirstValue
    <3>9. calls' = [calls EXCEPT ![b] = << value[d] >>]
      BY <3>1, <3>3, <3>6 DEF DeferredInv, ClientTypeOK, PromiseTypeOK
    <3>10. value' = value /\ aborted = "no" /\ aborted' = "no"
      BY <2>1 DEF RunCompletion
    <3>11. P!Deliver(b)
      BY <2>0, <3>6, <3>7, <3>8, <3>9, <3>10 DEF P!Deliver
    <3> QED BY <3>10, <3>11 DEF P!Next
  <2>2. ASSUME NEW d \in Deferreds, RunSyncQueue(d)
        PROVE  [P!Next]_(P!vars)
    <3>1. CASE RunThen(d)
      BY <2>0, <3>1 DEF RunThen, P!vars
    <3>2. CASE RunResolve(d)
      <4>1. /\ Head(syncQueue[d]) \in ApiCall /\ Head(syncQueue[d]).op = "resolve"
            /\ state[d] = "Pending" /\ value' = [value EXCEPT ![d] = << Head(syncQueue[d]).value >>]
            /\ calls' = calls /\ aborted = "no" /\ aborted' = aborted
        BY <3>2, TailFacts DEF RunResolve, DeferredInv, ClientTypeOK, PromiseTypeOK
      <4>2. Head(syncQueue[d]).value \in Values
        BY <4>1, ApiCalls
      <4>3. value[d] = << >>
        BY <4>1 DEF DeferredInv, FirstValue, NoValue
      <4>4. P!Settle(d, Head(syncQueue[d]).value)
        BY <2>0, <4>1, <4>3 DEF P!Settle
      <4> QED BY <4>1, <4>2, <4>4 DEF P!Next
    <3>3. CASE RunSecondResolve(d)
      <4>1. aborted = "no" /\ aborted' = "doubleResolve" /\ value' = value /\ calls' = calls
        BY <3>3 DEF RunSecondResolve, promiseVars
      <4>2. P!Crash
        BY <2>0, <4>1 DEF P!Crash
      <4> QED BY <4>1, <4>2 DEF P!Next
    <3> QED BY <2>2, <3>1, <3>2, <3>3 DEF RunSyncQueue
  <2> QED BY <1>3, <2>1, <2>2 DEF Run, RunQueues
<1>4. ASSUME UNCHANGED deferredVars PROVE UNCHANGED P!vars
  BY <1>4 DEF deferredVars, promiseVars, P!vars, Contains
<1> QED BY <1>1, <1>2, <1>3, <1>4 DEF NextDeferreds

\* BRUDeferred and its queues do nothing that the BRUPromise protocol of
\* BRUDeferred.h does not allow (BRUDeferred.m:89-148).
THEOREM DeferredIsPromise == SpecDeferreds => P!Safety
<1>1. InitDeferreds => P!Init
  BY DEF InitDeferreds, InitPromises, NoValue, P!Init, Contains
<1>2. DeferredInv /\ [NextDeferreds]_deferredVars => [P!Next]_(P!vars)
  BY PromiseStep
<1> QED BY <1>1, <1>2, DeferredInvariant, PTL DEF SpecDeferreds, P!Safety
==============================================================================
