-------------------------- MODULE ArithmeticClients --------------------------
(***************************************************************************)
(* Callers of BRUArithmetic: one call after the other, of any function     *)
(* with any arguments of its types, and what the answers are worth.  The   *)
(* reference is exact arithmetic: a call is recorded as the numbers that   *)
(* arithmetic without widths goes through, in halves, and the range they   *)
(* have to stay in.                                                        *)
(***************************************************************************)
EXTENDS BRUArithmetic, Sequences

VARIABLES
    call,       \* [steps, range] of the call that was answered, or NoCall
    answer      \* its outcome

arithmeticVars == << call, answer >>

Sizes == ValuesOf(SizeT)
Ptrdiffs == ValuesOf(PtrdiffT)
UInts == ValuesOf(UInt32T)

NoCall == [steps |-> << >>, range |-> SizeT]

InitArithmetic == call = NoCall /\ answer = Refused

---------------------------------------------------------------------------
(* The calls.                                                              *)

Calls(steps, range, outcome) ==
    /\ call' = [steps |-> [i \in DOMAIN steps |-> 2 * steps[i]], range |-> range]
    /\ answer' = outcome

Converts(a, range, outcomes) ==
    /\ call' = [steps |-> << a >>, range |-> range]
    /\ answer' \in outcomes

\* Every half in and beyond the ranges the conversions look at, and NaN.
Floats == (-2 * SIZE_MAX .. 2 * SIZE_MAX) \cup {NaN}

SafeFloats == [least |-> -BRU_SAFE_FLOAT_MAX, greatest |-> BRU_SAFE_FLOAT_MAX]
SafeDoubles == [least |-> 0, greatest |-> BRU_SAFE_DOUBLE_MAX]

ConvertFloat ==
    \E a \in Floats :
        \/ Converts(a, UInt32T, bru_double_to_uint32(a))
        \/ Converts(a, UInt32T, bru_cgfloat_to_uint32(a))
        \/ Converts(a, SafeFloats, bru_float_to_int32(a))
        \/ Converts(a, Int32T, bru_double_to_int32(a))
        \/ Converts(a, Int32T, bru_cgfloat_to_int32(a))
        \/ Converts(a, Int32T, bru_cgfloat_to_glsizei(a))
        \/ Converts(a, SafeDoubles, bru_double_to_size(a))
        \/ Converts(a, SafeDoubles, bru_cgfloat_to_size(a))

ConvertInteger ==
    \/ \E a \in Sizes :
           \/ Calls(<< a >>, Int32T, bru_size_to_int32(a))
           \/ Calls(<< a >>, Int32T, bru_size_to_glsizei(a))
           \/ Calls(<< a >>, PtrdiffT, bru_size_to_ptrdiff(a))
    \/ \E a \in ValuesOf(Int32T) : Calls(<< a >>, SizeT, bru_glsizei_to_size(a))
    \/ \E a \in Ptrdiffs : Calls(<< a >>, SizeT, bru_ptrdiff_to_size(a))

Calculate2 ==
    \/ \E a, b \in Ptrdiffs :
           \/ Calls(<< a + b >>, PtrdiffT, bru_ptrdiff_add_2(a, b))
           \/ Calls(<< a * b >>, PtrdiffT, bru_ptrdiff_multiply_2(a, b))
    \/ \E a, b \in Sizes :
           \/ Calls(<< a + b >>, SizeT, bru_size_add_2(a, b))
           \/ Calls(<< a + b >>, SizeT, bru_unsigned_long_add_2(a, b))
           \/ Calls(<< a - b >>, SizeT, bru_size_subtract_2(a, b))
           \/ Calls(<< a * b >>, SizeT, bru_size_multiply_2(a, b))
    \/ \E a, b \in UInts : Calls(<< a * b >>, UInt32T, bru_uint_multiply_2(a, b))

Calculate3 ==
    \/ \E a, b, c \in Ptrdiffs :
           Calls(<< a * b, a * b * c >>, PtrdiffT, bru_ptrdiff_multiply_3(a, b, c))
    \/ \E a, b, c \in Sizes :
           \/ Calls(<< a - b, a - b - c >>, SizeT, bru_size_subtract_3(a, b, c))
           \/ Calls(<< a * b, a * b * c >>, SizeT, bru_size_multiply_3(a, b, c))
    \/ \E a, b, c \in UInts :
           Calls(<< a * b, a * b * c >>, UInt32T, bru_uint_multiply_3(a, b, c))

\* An address and an offset into the memory behind it, which lies in the lower half
\* of the address space as every user-space address does.
OffsetPointer ==
    \E base \in 0 .. PTRDIFF_MAX, offset \in Ptrdiffs :
        Calls(<< base + offset >>, [least |-> 0, greatest |-> PTRDIFF_MAX],
              bru_offset_pointer(base, offset))

Return == call' = NoCall /\ answer' = Refused

NextArithmetic ==
    \/ /\ call = NoCall
       /\ ConvertFloat \/ ConvertInteger \/ Calculate2 \/ Calculate3 \/ OffsetPointer
    \/ call # NoCall /\ Return

SpecArithmetic == InitArithmetic /\ [][NextArithmetic]_arithmeticVars

---------------------------------------------------------------------------

\* The number n, a number of halves, without its fraction.
IsCutOff(value, n) ==
    IF n < 0 THEN n \in {2 * value - 1, 2 * value} ELSE n \in {2 * value, 2 * value + 1}

\* A call that returns true has stored the exact result, never one that wrapped on
\* the way; NaN is the exception, for which the conversions return true and store
\* whatever the cast makes of it (BRUArithmetic.h:51-59, 107-137, 338-525).
SuccessIsExact ==
    call # NoCall /\ answer.ok =>
        LET exact == call.steps[Len(call.steps)]
        IN exact = NaN \/ IsCutOff(answer.result, exact)

\* A call returns false only when the exact result, or that of its first two
\* operands, is out of the range, so that nothing that can be represented is
\* refused at the boundaries (BRUArithmetic.h:51-59, 88-97, 222-232, 280-288,
\* 299-320, 338-525).
FailureIsOverflow ==
    call # NoCall /\ ~answer.ok =>
        \E i \in DOMAIN call.steps :
            \/ call.steps[i] < 2 * call.range.least
            \/ call.steps[i] > 2 * call.range.greatest

\* What a call answers is the truth about exact arithmetic (BRUArithmetic.h:41-526).
AnswersAreExact == SuccessIsExact /\ FailureIsOverflow
==============================================================================
