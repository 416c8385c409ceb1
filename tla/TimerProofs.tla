----------------------------- MODULE TimerProofs -----------------------------
(***************************************************************************)
(* Proofs about BRUTimer, for any number of resumes, fires by hand and     *)
(* fires under way.  Its chains of fires are counted with a sum over the   *)
(* generations: the first part proves about that sum, which is a fold,     *)
(* what the second part needs for the invariant TimerInv.                  *)
(***************************************************************************)
EXTENDS BRUTimer, FiniteSetTheorems, WellFoundedInduction, TLAPS

\* What stands in for induction: a set of numbers has a least one.
LEMMA LeastNumber ==
    ASSUME NEW T, T \subseteq Nat, T # {}
    PROVE  \E n \in T : \A m \in T : n <= m
  <1> DEFINE R == { x \in Nat \X Nat : x[1] < x[2] }
  <1>1. IsWellFoundedOn(R, Nat)
    <2>1. R = OpToRel(<, Nat)
      BY DEF OpToRel
    <2>2. QED
      BY <2>1, NatLessThanWellFounded
  <1>2. \A m, n \in Nat : m < n => << m, n >> \in R
    OBVIOUS
  <1> HIDE DEF R
  <1>3. PICK n \in T : \A m \in T : ~(<< m, n >> \in R)
    BY <1>1, WFMin
  <1>4. \A m \in T : ~(m < n)
    BY <1>2, <1>3
  <1>5. QED
    BY <1>4

---------------------------------------------------------------------------
(* The sum of a function's values, which FoldFunction(+, 0, f) computes.    *)

Total(f) == FoldFunction(+, 0, f)

First(s) == CHOOSE x \in s : TRUE
Rest(s) == s \ {First(s)}

\* What FoldFunction computes, set by set.
Sums(g, f, D) ==
    g = [s \in D |-> IF s = {} THEN 0 ELSE f[First(s)] + g[Rest(s)]]

LEMMA FoldIsSum ==
    ASSUME NEW S, NEW f \in [S -> Nat]
    PROVE  Total(f) = (CHOOSE g : Sums(g, f, SUBSET S))[S]
  <1>1. DOMAIN f = S
    OBVIOUS
  <1>2. FoldFunction(+, 0, f) = FoldFunctionOnSet(+, 0, f, S)
    BY <1>1 DEF FoldFunction
  <1>3. FoldFunctionOnSet(+, 0, f, S) = (CHOOSE g : Sums(g, f, SUBSET S))[S]
    BY DEF FoldFunctionOnSet, MapThenFoldSet, Sums, First, Rest
  <1>4. QED
    BY <1>2, <1>3 DEF Total

\* The rest of a finite set is smaller.
LEMMA RestIsSmaller ==
    ASSUME NEW S, IsFiniteSet(S), NEW s \in SUBSET S
    PROVE  /\ IsFiniteSet(s) /\ Cardinality(s) \in Nat
           /\ Cardinality(s) <= Cardinality(S)
           /\ Cardinality(s) = 0 <=> s = {}
           /\ s # {} => /\ First(s) \in s /\ Rest(s) \in SUBSET S
                        /\ Cardinality(Rest(s)) = Cardinality(s) - 1
  <1>1. IsFiniteSet(s) /\ Cardinality(s) \in Nat /\ Cardinality(s) <= Cardinality(S)
    BY FS_Subset, FS_CardinalityType
  <1>2. Cardinality(s) = 0 <=> s = {}
    BY <1>1, FS_EmptySet
  <1>3. s # {} => First(s) \in s
    BY DEF First
  <1>4. s # {} => Cardinality(Rest(s)) = Cardinality(s) - 1
    BY <1>1, <1>3, FS_RemoveElement DEF Rest
  <1>5. QED
    BY <1>1, <1>2, <1>3, <1>4 DEF Rest

\* Such a function of sets exists: there is no least size up to which it does not.
LEMMA SumsExist ==
    ASSUME NEW S, IsFiniteSet(S), NEW f \in [S -> Nat]
    PROVE  \E g : Sums(g, f, SUBSET S)
  <1> DEFINE Small(n) == { s \in SUBSET S : Cardinality(s) <= n }
             Bad == { n \in Nat : ~\E g : Sums(g, f, Small(n)) }
  <1>1. ASSUME NEW n \in Nat, n = 0 \/ \E g : Sums(g, f, Small(n - 1))
        PROVE  \E g : Sums(g, f, Small(n))
    <2>1. CASE n = 0
      <3> DEFINE g == [s \in Small(n) |-> 0]
      <3>1. \A s \in Small(n) : s = {}
        BY <2>1, RestIsSmaller
      <3>2. g = [s \in Small(n) |-> IF s = {} THEN 0 ELSE f[First(s)] + g[Rest(s)]]
        <4> HIDE DEF Small
        <4>1. QED
          BY <3>1
      <3>3. Sums(g, f, Small(n))
        BY <3>2 DEF Sums
      <3>4. QED
        BY <3>3
    <2>2. CASE n # 0
      <3>1. PICK h : Sums(h, f, Small(n - 1))
        BY <1>1, <2>2
      <3> DEFINE g == [s \in Small(n) |-> IF s = {} THEN 0 ELSE f[First(s)] + h[Rest(s)]]
      <3>2. \A s \in Small(n) : s # {} => Rest(s) \in Small(n - 1)
        BY RestIsSmaller
      <3>3. \A s \in Small(n - 1) : s \in Small(n)
        BY RestIsSmaller
      <3> HIDE DEF Small
      <3>4. \A s \in Small(n - 1) : g[s] = h[s]
        BY <3>1, <3>3 DEF Sums
      <3>5. g = [s \in Small(n) |-> IF s = {} THEN 0 ELSE f[First(s)] + g[Rest(s)]]
        <4>1. \A s \in Small(n) : s # {} => g[Rest(s)] = h[Rest(s)]
          BY <3>2, <3>4
        <4>2. \A s \in Small(n) : (IF s = {} THEN 0 ELSE f[First(s)] + h[Rest(s)]) =
                                      IF s = {} THEN 0 ELSE f[First(s)] + g[Rest(s)]
          BY <4>1
        <4>3. QED
          BY <4>2
      <3>6. Sums(g, f, Small(n))
        BY <3>5 DEF Sums
      <3>7. QED
        BY <3>6
    <2>3. QED
      BY <2>1, <2>2
  <1>2. ASSUME Bad # {} PROVE FALSE
    <2>1. PICK n \in Bad : \A m \in Bad : n <= m
      <3> HIDE DEF Small
      <3>1. Bad \subseteq Nat
        OBVIOUS
      <3> HIDE DEF Bad
      <3>2. QED
        BY <1>2, <3>1, LeastNumber
    <2> HIDE DEF Small
    <2>2. n \in Nat /\ ~\E g : Sums(g, f, Small(n))
      OBVIOUS
    <2>3. n # 0 /\ ~\E g : Sums(g, f, Small(n - 1))
      BY <1>1, <2>2
    <2>4. n - 1 \in Nat /\ ~(n <= n - 1)
      BY <2>2, <2>3
    <2>5. n - 1 \in Bad
      BY <2>3, <2>4
    <2>6. QED
      BY <2>1, <2>4, <2>5
  <1>3. Cardinality(S) \in Nat /\ Small(Cardinality(S)) = SUBSET S
    BY RestIsSmaller, FS_CardinalityType
  <1> HIDE DEF Small
  <1>4. Cardinality(S) \notin Bad
    BY <1>2
  <1>5. \E g : Sums(g, f, Small(Cardinality(S)))
    BY <1>3, <1>4
  <1>6. QED
    BY <1>3, <1>5

\* The sums of a function: numbers that grow with its values.
LEMMA SumFacts ==
    ASSUME NEW S, IsFiniteSet(S), NEW f \in [S -> Nat], NEW h \in [S -> Nat], NEW x \in S,
           h = [f EXCEPT ![x] = @ + 1]
    PROVE  /\ Total(f) \in Nat
           /\ Total(h) = Total(f) + 1
  <1> DEFINE F == CHOOSE g : Sums(g, f, SUBSET S)
             H == CHOOSE g : Sums(g, h, SUBSET S)
  <1>1. Sums(F, f, SUBSET S) /\ Sums(H, h, SUBSET S)
    BY SumsExist
  <1>2. Total(f) = F[S] /\ Total(h) = H[S]
    BY FoldIsSum
  <1> HIDE DEF F, H
  <1> DEFINE Good(s) == F[s] \in Nat /\ H[s] = F[s] + (IF x \in s THEN 1 ELSE 0)
             Bad == { Cardinality(s) : s \in { t \in SUBSET S : ~Good(t) } }
  <1>3. \A s \in SUBSET S : /\ F[s] = IF s = {} THEN 0 ELSE f[First(s)] + F[Rest(s)]
                            /\ H[s] = IF s = {} THEN 0 ELSE h[First(s)] + H[Rest(s)]
    BY <1>1 DEF Sums
  <1>4. ASSUME NEW s \in SUBSET S, s = {} \/ Good(Rest(s))
        PROVE  Good(s)
    <2>1. CASE s = {}
      BY <1>3, <2>1
    <2>2. CASE s # {}
      <3>1. First(s) \in s /\ First(s) \in S
        BY <2>2, RestIsSmaller
      <3>2. f[First(s)] \in Nat /\ h[First(s)] = f[First(s)] + (IF x = First(s) THEN 1 ELSE 0)
        BY <3>1
      <3>3. x \in s <=> x = First(s) \/ x \in Rest(s)
        BY <3>1 DEF Rest
      <3>4. x \in Rest(s) => x # First(s)
        BY DEF Rest
      <3>5. F[s] = f[First(s)] + F[Rest(s)] /\ H[s] = h[First(s)] + H[Rest(s)]
        BY <1>3, <2>2
      <3>6. F[Rest(s)] \in Nat /\ H[Rest(s)] = F[Rest(s)] + (IF x \in Rest(s) THEN 1 ELSE 0)
        BY <1>4, <2>2
      <3>7. QED
        BY <3>2, <3>3, <3>4, <3>5, <3>6
    <2>3. QED
      BY <2>1, <2>2
  <1> HIDE DEF Good
  <1>5. ASSUME Bad # {} PROVE FALSE
    <2>1. Bad \subseteq Nat
      BY RestIsSmaller
    <2>2. PICK n \in Bad : \A m \in Bad : n <= m
      <3> HIDE DEF Bad
      <3>1. QED
        BY <1>5, <2>1, LeastNumber
    <2>3. PICK s \in SUBSET S : ~Good(s) /\ n = Cardinality(s)
      OBVIOUS
    <2>4. s # {} /\ Rest(s) \in SUBSET S /\ ~Good(Rest(s))
      BY <1>4, <2>3, RestIsSmaller
    <2>5. Cardinality(Rest(s)) = Cardinality(s) - 1 /\ Cardinality(s) \in Nat
      BY <2>4, RestIsSmaller
    <2>6. Cardinality(Rest(s)) \in Bad
      BY <2>4
    <2> HIDE DEF Bad
    <2>7. QED
      BY <2>2, <2>3, <2>5, <2>6
  <1>6. Good(S)
    BY <1>5
  <1>7. QED
    BY <1>2, <1>6 DEF Good

LEMMA SumOfZeros ==
    ASSUME NEW S, IsFiniteSet(S)
    PROVE  Total([x \in S |-> 0]) = 0
  <1> DEFINE f == [x \in S |-> 0]
  <1>0. f \in [S -> Nat]
    OBVIOUS
  <1> DEFINE F == CHOOSE g : Sums(g, f, SUBSET S)
  <1>1. Sums(F, f, SUBSET S)
    BY <1>0, SumsExist
  <1>2. Total(f) = F[S]
    BY <1>0, FoldIsSum
  <1> HIDE DEF F
  <1>3. \A s \in SUBSET S : F[s] = IF s = {} THEN 0 ELSE f[First(s)] + F[Rest(s)]
    BY <1>1 DEF Sums
  <1> DEFINE Bad == { Cardinality(s) : s \in { t \in SUBSET S : F[t] # 0 } }
  <1>4. ASSUME NEW s \in SUBSET S, s = {} \/ F[Rest(s)] = 0
        PROVE  F[s] = 0
    BY <1>3, <1>4, RestIsSmaller
  <1>5. ASSUME Bad # {} PROVE FALSE
    <2>1. Bad \subseteq Nat
      BY RestIsSmaller
    <2>2. PICK n \in Bad : \A m \in Bad : n <= m
      <3> HIDE DEF Bad
      <3>1. QED
        BY <1>5, <2>1, LeastNumber
    <2>3. PICK s \in SUBSET S : F[s] # 0 /\ n = Cardinality(s)
      OBVIOUS
    <2>4. s # {} /\ Rest(s) \in SUBSET S /\ F[Rest(s)] # 0
      BY <1>4, <2>3, RestIsSmaller
    <2>5. Cardinality(Rest(s)) = Cardinality(s) - 1 /\ Cardinality(s) \in Nat
      BY <2>4, RestIsSmaller
    <2>6. Cardinality(Rest(s)) \in Bad
      BY <2>4
    <2> HIDE DEF Bad
    <2>7. QED
      BY <2>2, <2>3, <2>5, <2>6
  <1>6. F[S] = 0
    BY <1>5
  <1>7. QED
    BY <1>2, <1>6

\* A sum of numbers is a number.
LEMMA SumType ==
    ASSUME NEW S, IsFiniteSet(S), NEW f \in [S -> Nat]
    PROVE  Total(f) \in Nat
  <1>1. CASE S = {}
    <2> DEFINE F == CHOOSE g : Sums(g, f, SUBSET S)
    <2>1. Sums(F, f, SUBSET S)
      BY SumsExist
    <2>2. Total(f) = F[S]
      BY FoldIsSum
    <2> HIDE DEF F
    <2>3. F[S] = 0
      BY <1>1, <2>1 DEF Sums
    <2>4. QED
      BY <2>2, <2>3
  <1>2. CASE S # {}
    <2>1. PICK x \in S : TRUE
      BY <1>2
    <2>2. [f EXCEPT ![x] = @ + 1] \in [S -> Nat]
      OBVIOUS
    <2>3. QED
      BY <2>1, <2>2, SumFacts
  <1>3. QED
    BY <1>1, <1>2


---------------------------------------------------------------------------
(* The invariant.                                                          *)

FlagsOK ==
    /\ repeats \in BOOLEAN /\ mode \in {"betweenExecutions", "wallClock"}
    /\ running \in BOOLEAN /\ suspending \in BOOLEAN /\ released \in BOOLEAN
    /\ executing \in {"none", "timer", "manual", "post"}

CountersOK ==
    /\ generation \in Nat /\ starting \in Nat /\ generation + starting <= MaxResumes
    /\ resuming \in Nat /\ accepted \in Nat /\ settingUp \in Nat
    /\ posted \in Nat /\ manual \in Nat /\ fired \in Nat
    /\ armed \in [Generations -> Nat]

TimerTypeOK == FlagsOK /\ CountersOK

\* Only the mode that calls setupTimer there is ever on its way to do so.
SetupsFit ==
    /\ settingUp > 0 => SetsUpBefore
    /\ executing = "post" => repeats /\ mode = "betweenExecutions"

\* The fires on their way that were begun by a resume, and those of a timer that
\* does not repeat that were executed.
Chains ==
    resuming + Total(armed) + accepted + settingUp + SetupsAfterBlock
    + (IF repeats THEN 0 ELSE posted + fired)

ChainsAreBegun ==
    /\ Chains <= generation
    /\ \A g \in Generations : armed[g] > 0 => g <= generation

TimerInv == TimerTypeOK /\ SetupsFit /\ ChainsAreBegun /\ RunningTimerTicks

LEMMA GenerationsAreFinite == IsFiniteSet(Generations)
  BY TimerAssumption, FS_Interval DEF Generations

\* One block is armed, or comes due.
LEMMA ArmOne ==
    ASSUME TimerTypeOK, Arm, generation > 0
    PROVE  /\ armed' \in [Generations -> Nat]
           /\ armed'[generation] = armed[generation] + 1 /\ generation \in Generations
           /\ \A g \in Generations : g # generation => armed'[g] = armed[g]
           /\ Total(armed) \in Nat /\ Total(armed') = Total(armed) + 1
  <1>1. generation \in Generations /\ IsFiniteSet(Generations)
    BY TimerAssumption, GenerationsAreFinite DEF TimerTypeOK, FlagsOK, CountersOK, Generations
  <1>2. armed' = [armed EXCEPT ![generation] = @ + 1] /\ armed \in [Generations -> Nat]
    BY DEF Arm, TimerTypeOK, FlagsOK, CountersOK
  <1>3. armed' \in [Generations -> Nat]
    BY <1>1, <1>2
  <1>4. Total(armed) \in Nat /\ Total(armed') = Total(armed) + 1
    BY <1>1, <1>2, <1>3, SumFacts
  <1>5. QED
    BY <1>1, <1>2, <1>3, <1>4

LEMMA DisarmOne ==
    ASSUME TimerTypeOK, NEW g \in Generations, armed[g] > 0, armed' = [armed EXCEPT ![g] = @ - 1]
    PROVE  /\ armed' \in [Generations -> Nat] /\ armed'[g] = armed[g] - 1
           /\ \A h \in Generations : h # g => armed'[h] = armed[h]
           /\ Total(armed') \in Nat /\ Total(armed) = Total(armed') + 1
  <1>1. IsFiniteSet(Generations)
    BY GenerationsAreFinite
  <1>2. armed \in [Generations -> Nat]
    BY DEF TimerTypeOK, FlagsOK, CountersOK
  <1>3. armed' \in [Generations -> Nat] /\ armed = [armed' EXCEPT ![g] = @ + 1]
    <2>1. armed[g] - 1 \in Nat /\ (armed[g] - 1) + 1 = armed[g]
      BY <1>2
    <2>2. armed'[g] = armed[g] - 1 /\ \A h \in Generations : h # g => armed'[h] = armed[h]
      BY <1>2
    <2>3. armed' \in [Generations -> Nat]
      BY <1>2, <2>1
    <2>4. QED
      BY <1>2, <2>1, <2>2, <2>3
  <1>4. Total(armed') \in Nat /\ Total(armed) = Total(armed') + 1
    BY <1>1, <1>2, <1>3, SumFacts
  <1>5. QED
    BY <1>2, <1>3, <1>4

LEMMA TotalType == TimerTypeOK => Total(armed) \in Nat
  BY GenerationsAreFinite, SumType DEF TimerTypeOK, FlagsOK, CountersOK

LEMMA InvImplies == TimerInv => RunningTimerTicks /\ NoFireFromNowhere
  BY DEF TimerInv, ChainsAreBegun, Chains, Total, NoFireFromNowhere

LEMMA InitTimerInv == Init => TimerInv
  <1> SUFFICES ASSUME Init PROVE TimerInv
    OBVIOUS
  <1>1. IsFiniteSet(Generations)
    BY GenerationsAreFinite
  <1>2. Total([g \in Generations |-> 0]) = 0
    BY <1>1, SumOfZeros
  <1>3. Total(armed) = 0
    BY <1>2 DEF Init
  <1>4. TimerTypeOK /\ SetupsFit /\ RunningTimerTicks
    <2>1. armed \in [Generations -> Nat]
      BY DEF Init
    <2>2. TimerTypeOK
      <3>1. FlagsOK
        BY DEF Init, FlagsOK
      <3>2. CountersOK
        BY <2>1, TimerAssumption DEF Init, CountersOK
      <3>3. QED
        BY <3>1, <3>2 DEF TimerTypeOK
    <2>3. SetupsFit /\ RunningTimerTicks
      BY DEF Init, SetupsFit, RunningTimerTicks
    <2>4. QED
      BY <2>2, <2>3
  <1>5. ChainsAreBegun
    BY <1>3 DEF Init, ChainsAreBegun, Chains, SetupsAfterBlock
  <1>6. QED
    BY <1>4, <1>5 DEF TimerInv

---------------------------------------------------------------------------
(* One lemma per action.                                                   *)

\* The numbers the invariant adds up.
CountsOK ==
    /\ SetupsAfterBlock \in Nat /\ Total(armed) \in Nat
    /\ generation > 0 => generation \in Generations /\ armed[generation] \in Nat
    /\ Chains \in Nat

LEMMA Counts == TimerTypeOK => CountsOK
  <1> SUFFICES ASSUME TimerTypeOK PROVE CountsOK
    OBVIOUS
  <1>1. SetupsAfterBlock \in Nat /\ Total(armed) \in Nat
    BY TotalType DEF TimerTypeOK, CountersOK, SetupsAfterBlock
  <1>2. generation > 0 => generation \in Generations /\ armed[generation] \in Nat
    BY TimerAssumption DEF TimerTypeOK, CountersOK, Generations
  <1>3. Chains \in Nat
    BY <1>1 DEF TimerTypeOK, CountersOK, Chains
  <1>4. QED
    BY <1>1, <1>2, <1>3 DEF CountsOK

LEMMA CountsNext == TimerTypeOK' => CountsOK'
  BY Counts, PTL

\* A resume begins a chain.
LEMMA ResumeInv ==
    ASSUME TimerInv, CallResume \/ StartResumes
    PROVE  TimerInv'
  <1> USE DEF TimerInv
  <1>1. /\ generation' = generation + 1 /\ running' = TRUE /\ resuming' = resuming + 1
        /\ UNCHANGED << repeats, mode, suspending, armed, accepted, settingUp, posted, manual,
                        executing, released, fired >>
    BY DEF CallResume, StartResumes, Resume, arguments
  <1>2. TimerTypeOK'
    <2>1. FlagsOK'
      BY <1>1 DEF TimerTypeOK, FlagsOK
    <2>2. starting' \in Nat /\ generation + 1 + starting' <= MaxResumes
      BY TimerAssumption DEF TimerTypeOK, CountersOK, CallResume, StartResumes
    <2>3. CountersOK'
      BY <1>1, <2>2 DEF TimerTypeOK, CountersOK
    <2>4. QED
      BY <2>1, <2>3 DEF TimerTypeOK
  <1>3. SetupsFit'
    BY <1>1 DEF SetupsFit, SetupsAfterBlock, SetsUpBefore
  <1>4. ChainsAreBegun'
    <2>1. SetupsAfterBlock' = SetupsAfterBlock /\ SetupsAfterBlock \in Nat
      BY <1>1 DEF SetupsAfterBlock, TimerTypeOK, FlagsOK, CountersOK
    <2>2. \A g \in Generations : armed[g] > 0 => g <= generation + 1
      BY DEF ChainsAreBegun, TimerTypeOK, FlagsOK, CountersOK, Generations
    <2>3. Chains' = Chains + 1
      BY <1>1, <2>1, TotalType DEF Chains, TimerTypeOK, FlagsOK, CountersOK
    <2>4. Chains \in Nat
      BY <2>1, TotalType DEF Chains, TimerTypeOK, FlagsOK, CountersOK
    <2>5. QED
      BY <1>1, <2>2, <2>3, <2>4 DEF ChainsAreBegun, TimerTypeOK, FlagsOK, CountersOK
  <1>5. RunningTimerTicks'
    <2>1. generation' > 0 /\ resuming' > 0 /\ resuming' \in Nat /\ accepted' \in Nat /\ settingUp' \in Nat
      BY <1>1, <1>2 DEF TimerTypeOK, CountersOK
    <2>2. armed'[generation'] \in Nat /\ SetupsAfterBlock' \in Nat
      BY <1>2, <2>1, CountsNext DEF CountsOK
    <2>3. QED
      BY <2>1, <2>2 DEF RunningTimerTicks
  <1>6. QED
    BY <1>2, <1>3, <1>4, <1>5

\* setupTimer of a resume, of a fire on wall clock time, or after the block.
LEMMA SetsUpInv ==
    ASSUME TimerInv, ResumeSetsUp \/ PreFireSetsUp \/ PostFireSetsUp
    PROVE  TimerInv'
  <1> USE DEF TimerInv
  <1>1. /\ Arm
        /\ UNCHANGED << repeats, mode, generation, running, suspending, starting, accepted,
                        manual, released, fired >>
    BY DEF ResumeSetsUp, PreFireSetsUp, PostFireSetsUp, arguments
  <1>2. \/ /\ resuming > 0 /\ resuming' = resuming - 1
           /\ UNCHANGED << settingUp, posted, executing >>
        \/ /\ settingUp > 0 /\ settingUp' = settingUp - 1 /\ posted' = posted + 1
           /\ UNCHANGED << resuming, executing >>
        \/ /\ executing = "post" /\ executing' = "none"
           /\ UNCHANGED << resuming, settingUp, posted >>
    BY DEF ResumeSetsUp, PreFireSetsUp, PostFireSetsUp
  <1>3. SetupsAfterBlock \in Nat /\ Total(armed) \in Nat
    BY Counts DEF CountsOK
  <1>4. generation > 0
    <2>1. Chains > 0
      BY <1>2, <1>3 DEF Chains, TimerTypeOK, FlagsOK, CountersOK, SetupsFit, SetupsAfterBlock
    <2>2. QED
      BY <2>1, Counts DEF CountsOK, ChainsAreBegun, TimerTypeOK, FlagsOK, CountersOK
  <1>5. /\ armed' \in [Generations -> Nat]
        /\ armed'[generation] = armed[generation] + 1 /\ generation \in Generations
        /\ \A g \in Generations : g # generation => armed'[g] = armed[g]
        /\ Total(armed') = Total(armed) + 1
    BY <1>1, <1>4, ArmOne
  <1>6. TimerTypeOK'
    BY <1>1, <1>2, <1>5 DEF TimerTypeOK, FlagsOK, CountersOK
  <1>7. SetupsFit'
    BY <1>1, <1>2 DEF SetupsFit, SetsUpBefore, TimerTypeOK, FlagsOK, CountersOK
  <1>8. Chains' = Chains
    BY <1>1, <1>2, <1>3, <1>5 DEF Chains, SetupsAfterBlock, SetupsFit, SetsUpBefore, TimerTypeOK, FlagsOK, CountersOK
  <1>9. ChainsAreBegun'
    BY <1>1, <1>5, <1>8, Counts DEF CountsOK, ChainsAreBegun, TimerTypeOK, FlagsOK, CountersOK
  <1>10. RunningTimerTicks'
    <2>1. armed[generation] \in Nat /\ armed'[generation'] > 0
      BY <1>1, <1>5 DEF TimerTypeOK, FlagsOK, CountersOK
    <2>2. SetupsAfterBlock' \in Nat /\ armed'[generation'] \in Nat
      BY <1>1, <1>4, <1>6, CountsNext DEF CountsOK
    <2>3. QED
      BY <1>1, <1>4, <1>6, <2>1, <2>2 DEF RunningTimerTicks, TimerTypeOK, FlagsOK, CountersOK
  <1>11. QED
    BY <1>6, <1>7, <1>9, <1>10

\* The armed block comes due.
LEMMA DueInv ==
    ASSUME TimerInv, NEW g \in Generations, Due(g)
    PROVE  TimerInv'
  <1> USE DEF TimerInv
  <1>1. /\ armed[g] > 0 /\ armed' = [armed EXCEPT ![g] = @ - 1]
        /\ UNCHANGED << repeats, mode, generation, suspending, starting, resuming, settingUp,
                        posted, manual, executing, released, fired >>
        /\ \/ /\ Accepts(g) /\ accepted' = accepted + 1 /\ running' = StillRunning
           \/ /\ ~Accepts(g) /\ UNCHANGED << accepted, running >>
    BY DEF Due, arguments
  <1>2. /\ armed' \in [Generations -> Nat] /\ armed'[g] = armed[g] - 1
        /\ \A h \in Generations : h # g => armed'[h] = armed[h]
        /\ Total(armed') \in Nat /\ Total(armed) = Total(armed') + 1
    BY <1>1, DisarmOne
  <1>3. TimerTypeOK'
    BY <1>1, <1>2 DEF TimerTypeOK, FlagsOK, CountersOK, StillRunning
  <1>4. SetupsFit' /\ SetupsAfterBlock' = SetupsAfterBlock /\ SetupsAfterBlock \in Nat
    BY <1>1, Counts DEF CountsOK, SetupsFit, SetsUpBefore, SetupsAfterBlock
  <1>5. Chains' \in Nat /\ Chains' <= Chains
    BY <1>1, <1>2, <1>3, <1>4 DEF Chains, TimerTypeOK, FlagsOK, CountersOK
  <1>6. ChainsAreBegun'
    <2>1. \A h \in Generations : armed'[h] > 0 => armed[h] > 0
      BY <1>1, <1>2 DEF TimerTypeOK, FlagsOK, CountersOK
    <2>2. QED
      BY <1>1, <1>5, <2>1, Counts DEF CountsOK, ChainsAreBegun, TimerTypeOK, FlagsOK, CountersOK
  <1>7. RunningTimerTicks'
    <2> SUFFICES ASSUME running', Alive'
                 PROVE  /\ generation > 0
                        /\ resuming + armed'[generation]
                           + (IF repeats THEN accepted' + settingUp + SetupsAfterBlock ELSE 0) > 0
      BY <1>1, <1>4 DEF RunningTimerTicks
    <2>1. running /\ Alive
      BY <1>1 DEF StillRunning, Alive, Accepts
    <2>2. /\ generation > 0
          /\ resuming + armed[generation]
             + (IF repeats THEN accepted + settingUp + SetupsAfterBlock ELSE 0) > 0
      BY <2>1 DEF RunningTimerTicks
    <2>3. CASE g # generation
      <3>1. armed'[generation] = armed[generation] /\ UNCHANGED << accepted >>
        BY <1>1, <1>2, <2>2, <2>3, Counts DEF CountsOK, Accepts
      <3>2. QED
        BY <2>2, <3>1
    <2>4. CASE g = generation
      <3>1. repeats /\ accepted' = accepted + 1
        BY <1>1, <2>1, <2>4 DEF Accepts, StillRunning
      <3>2. armed'[generation] \in Nat
        BY <1>2, <2>4
      <3>3. QED
        BY <1>4, <2>2, <3>1, <3>2 DEF TimerTypeOK, FlagsOK, CountersOK
    <2>5. QED
      BY <2>3, <2>4
  <1>8. QED
    BY <1>3, <1>4, <1>6, <1>7

\* A step after which there is no less to come for the current generation.
\* Additions, for numbers of any kind: the provers do not find the type of a
\* sum of primed variables unless it is stated for constants first.
LEMMA AddUp ==
    /\ \A x, y \in Nat : x + y \in Nat
    /\ \A x, y, z \in Nat : x + y + z \in Nat
    /\ \A r, m, x, y \in Nat : r + m + x > 0 /\ y >= x => r + m + y > 0
    /\ \A r, m, x, y \in Nat : y <= x => r + m + y <= r + m + x /\ r + m + y \in Nat
    /\ \A r, m, x, y, z, w \in Nat : r + m + x + y + z + w = r + m + (x + y + z + w)
    /\ \A x, y, z, w \in Nat : x + y + z + w \in Nat /\ x + y + z + 0 = x + y + z
  OBVIOUS

LEMMA StillTicks ==
    ASSUME RunningTimerTicks, TimerTypeOK, TimerTypeOK',
           running' /\ Alive' => running /\ Alive,
           UNCHANGED << repeats, generation, armed, resuming >>,
           running' /\ Alive' /\ repeats =>
               accepted' + settingUp' + SetupsAfterBlock' >= accepted + settingUp + SetupsAfterBlock
    PROVE  RunningTimerTicks'
  <1> SUFFICES ASSUME running', Alive'
               PROVE  /\ generation > 0
                      /\ resuming + armed[generation]
                         + (IF repeats THEN accepted' + settingUp' + SetupsAfterBlock' ELSE 0) > 0
    BY DEF RunningTimerTicks
  <1>1. /\ generation > 0
        /\ resuming + armed[generation]
           + (IF repeats THEN accepted + settingUp + SetupsAfterBlock ELSE 0) > 0
    BY DEF RunningTimerTicks
  <1>2. SetupsAfterBlock \in Nat /\ SetupsAfterBlock' \in Nat /\ armed[generation] \in Nat
    BY <1>1, Counts, CountsNext DEF CountsOK
  <1>3. /\ resuming \in Nat /\ accepted \in Nat /\ settingUp \in Nat
        /\ accepted' \in Nat /\ settingUp' \in Nat
    BY DEF TimerTypeOK, CountersOK
  <1>4. ASSUME repeats PROVE accepted' + settingUp' + SetupsAfterBlock' >= accepted + settingUp + SetupsAfterBlock
    BY <1>4
  <1>5. CASE repeats
    <2> DEFINE n == armed[generation]
    <2>1. resuming + n + (accepted + settingUp + SetupsAfterBlock) > 0
      BY <1>1, <1>5
    <2>2. resuming + n + (accepted' + settingUp' + SetupsAfterBlock') > 0
      <3> DEFINE a == accepted + settingUp + SetupsAfterBlock
                 b == accepted' + settingUp' + SetupsAfterBlock'
      <3>2. a \in Nat /\ b \in Nat /\ resuming \in Nat /\ n \in Nat
        BY <1>2, <1>3, AddUp
      <3>3. b >= a /\ resuming + n + a > 0
        BY <1>4, <1>5, <2>1
      <3> HIDE DEF a, b, n
      <3>4. resuming + n + b > 0
        BY <3>2, <3>3, AddUp
      <3>5. QED
        BY <3>4 DEF b
    <2>3. QED
      BY <1>1, <1>5, <2>2
  <1>6. CASE ~repeats
    BY <1>1, <1>6
  <1>7. QED
    BY <1>5, <1>6

LEMMA QueueInv ==
    ASSUME TimerInv, GlobalBlock \/ FireBegins \/ ManualFireBegins \/ FireEnds
    PROVE  TimerInv'
  <1> USE DEF TimerInv
  <1>1. UNCHANGED << repeats, mode, generation, running, suspending, starting, resuming, armed,
                     released >>
    BY DEF GlobalBlock, FireBegins, ManualFireBegins, FireEnds, arguments
  <1>2. TimerTypeOK'
    BY <1>1 DEF TimerTypeOK, FlagsOK, CountersOK, GlobalBlock, FireBegins, ManualFireBegins, FireEnds, AfterBlock
  <1>3. SetupsFit'
    BY <1>1 DEF SetupsFit, SetsUpBefore, GlobalBlock, FireBegins, ManualFireBegins, FireEnds,
       AfterBlock
  <1>4. Alive' => Alive
    BY <1>1 DEF Alive, GlobalBlock, FireBegins, ManualFireBegins, FireEnds, TimerTypeOK, FlagsOK, CountersOK
  <1>5. Alive /\ repeats => accepted' + settingUp' + SetupsAfterBlock' =
                                accepted + settingUp + SetupsAfterBlock
    BY <1>1 DEF GlobalBlock, FireBegins, ManualFireBegins, FireEnds, SetsUpBefore,
       SetupsAfterBlock, AfterBlock, TimerTypeOK, FlagsOK, CountersOK, SetupsFit
  <1>6. RunningTimerTicks'
    BY <1>1, <1>2, <1>4, <1>5, StillTicks, Counts DEF CountsOK, TimerTypeOK, FlagsOK, CountersOK
  <1>7. accepted' + settingUp' + SetupsAfterBlock' + (IF repeats THEN 0 ELSE posted' + fired')
        <= accepted + settingUp + SetupsAfterBlock + (IF repeats THEN 0 ELSE posted + fired)
    BY <1>1 DEF GlobalBlock, FireBegins, ManualFireBegins, FireEnds, SetsUpBefore,
       SetupsAfterBlock, AfterBlock, TimerTypeOK, FlagsOK, CountersOK, SetupsFit
  <1>8. ChainsAreBegun'
    <2>1. SetupsAfterBlock \in Nat /\ SetupsAfterBlock' \in Nat /\ Total(armed) \in Nat
      BY <1>2, Counts, CountsNext DEF CountsOK
    <2>2. /\ resuming \in Nat /\ accepted \in Nat /\ settingUp \in Nat /\ posted \in Nat /\ fired \in Nat
          /\ accepted' \in Nat /\ settingUp' \in Nat /\ posted' \in Nat /\ fired' \in Nat
          /\ resuming' = resuming /\ Total(armed') = Total(armed) /\ (repeats' <=> repeats)
      BY <1>1, <1>2 DEF TimerTypeOK, CountersOK
    <2>3. Chains' <= Chains /\ Chains' \in Nat
      <3> DEFINE rest == IF repeats THEN 0 ELSE posted + fired
                 x == accepted + settingUp + SetupsAfterBlock + rest
                 y == accepted' + settingUp' + SetupsAfterBlock'
                      + (IF repeats THEN 0 ELSE posted' + fired')
      <3>1. /\ posted + fired \in Nat
            /\ posted' + fired' \in Nat
        BY <2>2, AddUp
      <3>2. /\ rest \in Nat
            /\ (IF repeats THEN 0 ELSE posted' + fired') \in Nat
        <4>1. CASE repeats
          BY <4>1
        <4>2. CASE ~repeats
          BY <3>1, <4>2
        <4>3. QED
          BY <4>1, <4>2
      <3>3. x \in Nat /\ y \in Nat
        BY <2>1, <2>2, <3>2, AddUp
      <3>4. /\ Chains = resuming + Total(armed) + x
            /\ Chains' = resuming + Total(armed) + y
        BY <2>1, <2>2, <3>2, AddUp DEF Chains
      <3>5. y <= x
        BY <1>7, <2>2
      <3> HIDE DEF x, y
      <3>6. QED
        BY <2>1, <2>2, <3>3, <3>4, <3>5, AddUp
    <2>4. QED
      BY <1>1, <2>3, Counts DEF CountsOK, ChainsAreBegun, TimerTypeOK, FlagsOK, CountersOK
  <1>9. QED
    BY <1>2, <1>3, <1>6, <1>8

\* What the clients do besides resuming, and the block of suspend.
LEMMA ClientInv ==
    ASSUME TimerInv, CallStart \/ CallSuspend \/ CallFire \/ Release \/ Suspend \/ UNCHANGED vars
    PROVE  TimerInv'
  <1> USE DEF TimerInv
  <1>1. /\ UNCHANGED << repeats, mode, generation, resuming, armed, accepted, settingUp, posted,
                        executing, fired >>
        /\ running' => running
        /\ Alive' => Alive
    BY DEF CallStart, CallSuspend, CallFire, Release, Suspend, vars, arguments, Alive, CanCall
  <1>2. TimerTypeOK'
    <2>1. FlagsOK'
      BY DEF TimerTypeOK, FlagsOK, CallStart, CallSuspend, CallFire, Release, Suspend, vars, arguments
    <2>2. manual' \in Nat /\ starting' \in Nat /\ generation + starting' <= MaxResumes
      BY TimerAssumption DEF TimerTypeOK, CountersOK, CallStart, CallSuspend, CallFire, Release,
         Suspend, vars
    <2>3. CountersOK'
      BY <1>1, <2>2 DEF TimerTypeOK, CountersOK
    <2>4. QED
      BY <2>1, <2>3 DEF TimerTypeOK
  <1>3. SetupsFit' /\ SetupsAfterBlock' = SetupsAfterBlock
    BY <1>1 DEF SetupsFit, SetsUpBefore, SetupsAfterBlock
  <1>4. ChainsAreBegun'
    BY <1>1, <1>3 DEF ChainsAreBegun, Chains
  <1>5. RunningTimerTicks'
    BY <1>1, <1>3 DEF RunningTimerTicks
  <1>6. QED
    BY <1>2, <1>3, <1>4, <1>5

LEMMA TimerInvStep == TimerInv /\ [Next]_vars => TimerInv'
  BY ResumeInv, SetsUpInv, DueInv, QueueInv, ClientInv DEF Next, Internal

\* The invariant that explains BRUTimer (BRUTimer.m:85-236).
THEOREM TimerInvariant == Spec => []TimerInv
  BY InitTimerInv, TimerInvStep, PTL DEF Spec

\* However start, restart, resume and suspend race with fires, a timer that says it
\* is running has one on its way that it will not turn down (BRUTimer.m:85-142,
\* 220-236).
THEOREM TimersTick == Spec => []RunningTimerTicks
  BY InvImplies, TimerInvariant, PTL

\* A fire never becomes two, for any number of resumes: the sum of the fires on
\* their way never exceeds the resumes there were (BRUTimer.m:100-138).
THEOREM FiresAreBegun == Spec => []NoFireFromNowhere
  BY InvImplies, TimerInvariant, PTL
==============================================================================
