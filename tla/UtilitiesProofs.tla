---------------------------- MODULE UtilitiesProofs ----------------------------
(***************************************************************************)
(* The parts of the library that stand for themselves, each for any values *)
(* of its constants; the promises are in DeferredProofs.                   *)
(***************************************************************************)
EXTENDS ArithmeticClients, RegionClients, BRUResourceCleanup, BRUConcurrentVariable,
        BRUDispatchUtils, TaskDescriptors, SequenceTheorems, FiniteSetTheorems,
        WellFoundedInduction, TLAPS

---------------------------------------------------------------------------
(* BRUArithmetic                                                           *)

Types == [least : Int, greatest : Int]

\* The bounds of the types are integers.
LEMMA TypesAreTypes ==
    /\ SizeT \in Types /\ PtrdiffT \in Types /\ Int32T \in Types /\ UInt32T \in Types
    /\ SafeFloats \in Types /\ SafeDoubles \in Types
BY Widths DEF Types, SizeT, PtrdiffT, Int32T, UInt32T, SafeFloats, SafeDoubles, SIZE_MAX,
              UINT32_MAX

\* The builtins succeed exactly if the result fits, and have stored it then.
LEMMA BuiltinIsExact ==
    ASSUME NEW type \in Types, NEW exact \in Int
    PROVE  /\ Builtin(type, exact).ok \in BOOLEAN
           /\ Builtin(type, exact).ok <=> type.least =< exact /\ exact =< type.greatest
           /\ Builtin(type, exact).ok => Builtin(type, exact).result = exact
BY DEF Builtin, ValuesOf, Done, Types

---------------------------------------------------------------------------
(* What makes an answer exact: one lemma per form of call.                 *)

\* A call whose result needs no step in between.
LEMMA OneStep ==
    ASSUME NEW exact \in Int, NEW range \in Types, NEW outcome,
           Calls(<< exact >>, range, outcome),
           outcome.ok <=> range.least =< exact /\ exact =< range.greatest,
           outcome.ok => outcome.result = exact
    PROVE  AnswersAreExact'
<1> DEFINE steps == [i \in DOMAIN << exact >> |-> 2 * << exact >>[i]]
<1>1. call' = [steps |-> steps, range |-> range] /\ answer' = outcome
  BY DEF Calls
<1>2. steps = << 2 * exact >> /\ Len(steps) = 1 /\ DOMAIN steps = {1}
  OBVIOUS
<1>3. SuccessIsExact'
  BY <1>1, <1>2 DEF SuccessIsExact, IsCutOff
<1>4. FailureIsOverflow'
  BY <1>1, <1>2 DEF FailureIsOverflow, Types
<1> QED BY <1>3, <1>4 DEF AnswersAreExact

\* A call that goes on from the result of its first two operands.
LEMMA TwoSteps ==
    ASSUME NEW first \in Int, NEW exact \in Int, NEW range \in Types, NEW outcome,
           Calls(<< first, exact >>, range, outcome),
           outcome.ok <=> /\ range.least =< first /\ first =< range.greatest
                          /\ range.least =< exact /\ exact =< range.greatest,
           outcome.ok => outcome.result = exact
    PROVE  AnswersAreExact'
<1> DEFINE steps == [i \in DOMAIN << first, exact >> |-> 2 * << first, exact >>[i]]
<1>1. call' = [steps |-> steps, range |-> range] /\ answer' = outcome
  BY DEF Calls
<1>2. steps = << 2 * first, 2 * exact >> /\ Len(steps) = 2 /\ DOMAIN steps = {1, 2}
  OBVIOUS
<1>3. SuccessIsExact'
  BY <1>1, <1>2 DEF SuccessIsExact, IsCutOff
<1>4. FailureIsOverflow'
  BY <1>1, <1>2 DEF FailureIsOverflow, Types
<1> QED BY <1>3, <1>4 DEF AnswersAreExact

\* A conversion of a float: within the bounds the fraction is cut off.
LEMMA Conversion ==
    ASSUME NEW a \in Floats, NEW least \in Int, NEW greatest \in Int, NEW type,
           Converts(a, [least |-> least, greatest |-> greatest],
                    FloatToInteger(a, least, greatest, type))
    PROVE  AnswersAreExact'
<1>1. call' = [steps |-> << a >>, range |-> [least |-> least, greatest |-> greatest]]
  BY DEF Converts
<1>2. Len(<< a >>) = 1 /\ << a >>[1] = a /\ DOMAIN << a >> = {1}
  OBVIOUS
<1>3. answer' \in FloatToInteger(a, least, greatest, type)
  BY DEF Converts
<1>4. CASE a = NaN
  <2>1. answer'.ok
    BY <1>3, <1>4 DEF FloatToInteger, Done
  <2> QED BY <1>1, <1>2, <1>4, <2>1 DEF AnswersAreExact, SuccessIsExact, FailureIsOverflow
<1>5. CASE a # NaN
  <2>1. a \in Int
    BY <1>5, Widths DEF Floats, SIZE_MAX
  <2>2. CASE a < 2 * least \/ a > 2 * greatest
    <3>1. ~answer'.ok
      BY <1>3, <1>5, <2>2 DEF FloatToInteger, Refused
    <3> QED BY <1>1, <1>2, <2>2, <3>1 DEF AnswersAreExact, SuccessIsExact, FailureIsOverflow
  <2>3. CASE ~(a < 2 * least \/ a > 2 * greatest)
    <3>1. answer' = Done(Truncated(a))
      BY <1>3, <1>5, <2>3 DEF FloatToInteger
    <3>2. IsCutOff(Truncated(a), a)
      BY <2>1 DEF IsCutOff, Truncated
    <3> QED
      BY <1>1, <1>2, <3>1, <3>2
      DEF AnswersAreExact, SuccessIsExact, FailureIsOverflow, Done
  <2> QED BY <2>2, <2>3
<1> QED BY <1>4, <1>5

---------------------------------------------------------------------------

\* Every conversion of a float or double answers the truth.
LEMMA ConvertFloatIsExact == ConvertFloat => AnswersAreExact'
<1> SUFFICES ASSUME ConvertFloat PROVE AnswersAreExact'
  OBVIOUS
<1>1. PICK a \in Floats :
        \/ Converts(a, UInt32T, bru_double_to_uint32(a))
        \/ Converts(a, SafeFloats, bru_float_to_int32(a))
        \/ Converts(a, Int32T, bru_double_to_int32(a))
        \/ Converts(a, SafeDoubles, bru_double_to_size(a))
  BY DEF ConvertFloat, bru_cgfloat_to_uint32, bru_cgfloat_to_int32, bru_cgfloat_to_glsizei,
         bru_cgfloat_to_size
<1>2. CASE Converts(a, UInt32T, bru_double_to_uint32(a))
  BY <1>2, Conversion, Widths DEF UInt32T, bru_double_to_uint32, UINT32_MAX
<1>3. CASE Converts(a, SafeFloats, bru_float_to_int32(a))
  BY <1>3, Conversion, Widths DEF SafeFloats, bru_float_to_int32
<1>4. CASE Converts(a, Int32T, bru_double_to_int32(a))
  BY <1>4, Conversion, Widths DEF Int32T, bru_double_to_int32
<1>5. CASE Converts(a, SafeDoubles, bru_double_to_size(a))
  BY <1>5, Conversion, Widths DEF SafeDoubles, bru_double_to_size
<1> QED BY <1>1, <1>2, <1>3, <1>4, <1>5

\* Every conversion between integer types answers the truth.
LEMMA ConvertIntegerIsExact == ConvertInteger => AnswersAreExact'
<1> SUFFICES ASSUME ConvertInteger PROVE AnswersAreExact'
  OBVIOUS
<1>1. CASE \E a \in Sizes : Calls(<< a >>, Int32T, bru_size_to_int32(a))
  <2>1. PICK a \in Sizes : Calls(<< a >>, Int32T, bru_size_to_int32(a))
    BY <1>1
  <2> QED
    BY <2>1, OneStep, TypesAreTypes, Widths
    DEF Sizes, ValuesOf, SizeT, Int32T, bru_size_to_int32, Done, Refused, SIZE_MAX
<1>2. CASE \E a \in Sizes : Calls(<< a >>, PtrdiffT, bru_size_to_ptrdiff(a))
  <2>1. PICK a \in Sizes : Calls(<< a >>, PtrdiffT, bru_size_to_ptrdiff(a))
    BY <1>2
  <2> QED
    BY <2>1, OneStep, TypesAreTypes, Widths
    DEF Sizes, ValuesOf, SizeT, PtrdiffT, bru_size_to_ptrdiff, Done, Refused, SIZE_MAX
<1>3. CASE \E a \in ValuesOf(Int32T) : Calls(<< a >>, SizeT, bru_glsizei_to_size(a))
  <2>1. PICK a \in ValuesOf(Int32T) : Calls(<< a >>, SizeT, bru_glsizei_to_size(a))
    BY <1>3
  <2> QED
    BY <2>1, OneStep, TypesAreTypes, Widths
    DEF ValuesOf, SizeT, Int32T, bru_glsizei_to_size, Done, Refused, SIZE_MAX, UINT32_MAX
<1>4. CASE \E a \in Ptrdiffs : Calls(<< a >>, SizeT, bru_ptrdiff_to_size(a))
  <2>1. PICK a \in Ptrdiffs : Calls(<< a >>, SizeT, bru_ptrdiff_to_size(a))
    BY <1>4
  <2> QED
    BY <2>1, OneStep, TypesAreTypes, Widths
    DEF Ptrdiffs, ValuesOf, SizeT, PtrdiffT, bru_ptrdiff_to_size, Done, Refused, SIZE_MAX
<1> QED BY <1>1, <1>2, <1>3, <1>4 DEF ConvertInteger, bru_size_to_glsizei

\* The operations that are one builtin.
LEMMA BuiltinCall ==
    ASSUME NEW exact \in Int, NEW type \in Types, Calls(<< exact >>, type, Builtin(type, exact))
    PROVE  AnswersAreExact'
<1>1. /\ Builtin(type, exact).ok <=> type.least =< exact /\ exact =< type.greatest
      /\ Builtin(type, exact).ok => Builtin(type, exact).result = exact
  BY BuiltinIsExact
<1> QED BY <1>1, OneStep

\* Every operation on two operands answers the truth.
LEMMA Calculate2IsExact == Calculate2 => AnswersAreExact'
<1> SUFFICES ASSUME Calculate2 PROVE AnswersAreExact'
  OBVIOUS
<1>1. Ptrdiffs \subseteq Int /\ Sizes \subseteq Int /\ UInts \subseteq Int
  BY Widths DEF Ptrdiffs, Sizes, UInts, ValuesOf, PtrdiffT, SizeT, UInt32T, SIZE_MAX, UINT32_MAX
<1>2. \A a, b \in Int : a + b \in Int /\ a - b \in Int /\ a * b \in Int
  OBVIOUS
<1>3. CASE \E a, b \in Ptrdiffs :
             \/ Calls(<< a + b >>, PtrdiffT, bru_ptrdiff_add_2(a, b))
             \/ Calls(<< a * b >>, PtrdiffT, bru_ptrdiff_multiply_2(a, b))
  <2>1. \E exact \in Int : Calls(<< exact >>, PtrdiffT, Builtin(PtrdiffT, exact))
    BY <1>1, <1>2, <1>3 DEF bru_ptrdiff_add_2, bru_ptrdiff_multiply_2
  <2> QED BY <2>1, BuiltinCall, TypesAreTypes
<1>4. CASE \E a, b \in Sizes :
             \/ Calls(<< a + b >>, SizeT, bru_size_add_2(a, b))
             \/ Calls(<< a + b >>, SizeT, bru_unsigned_long_add_2(a, b))
             \/ Calls(<< a - b >>, SizeT, bru_size_subtract_2(a, b))
             \/ Calls(<< a * b >>, SizeT, bru_size_multiply_2(a, b))
  <2>1. \E exact \in Int : Calls(<< exact >>, SizeT, Builtin(SizeT, exact))
    BY <1>1, <1>2, <1>4
    DEF bru_size_add_2, bru_unsigned_long_add_2, bru_size_subtract_2, bru_size_multiply_2
  <2> QED BY <2>1, BuiltinCall, TypesAreTypes
<1>5. CASE \E a, b \in UInts : Calls(<< a * b >>, UInt32T, bru_uint_multiply_2(a, b))
  <2>1. \E exact \in Int : Calls(<< exact >>, UInt32T, Builtin(UInt32T, exact))
    BY <1>1, <1>2, <1>5 DEF bru_uint_multiply_2
  <2> QED BY <2>1, BuiltinCall, TypesAreTypes
<1> QED BY <1>3, <1>4, <1>5 DEF Calculate2

\* The operations that are two builtins: refused after the first, nothing is computed
\* from a result that wrapped.
Both(type, first, exact) ==
    IF ~Builtin(type, first).ok THEN Refused ELSE Builtin(type, exact)

\* A builtin whose first operand is another builtin's result is a call of two steps.
LEMMA BuiltinCalls ==
    ASSUME NEW first \in Int, NEW exact \in Int, NEW type \in Types,
           Calls(<< first, exact >>, type, Both(type, first, exact))
    PROVE  AnswersAreExact'
<1>1. /\ Builtin(type, first).ok <=> type.least =< first /\ first =< type.greatest
      /\ Builtin(type, exact).ok <=> type.least =< exact /\ exact =< type.greatest
      /\ Builtin(type, exact).ok => Builtin(type, exact).result = exact
  BY BuiltinIsExact
<1> DEFINE outcome == Both(type, first, exact)
<1>2. /\ outcome.ok <=> /\ type.least =< first /\ first =< type.greatest
                        /\ type.least =< exact /\ exact =< type.greatest
      /\ outcome.ok => outcome.result = exact
  BY <1>1 DEF Both, Refused
<1> HIDE DEF outcome
<1>3. Calls(<< first, exact >>, type, outcome)
  BY DEF outcome
<1> QED BY <1>2, <1>3, TwoSteps

\* Every operation on three operands answers the truth.
LEMMA Calculate3IsExact == Calculate3 => AnswersAreExact'
<1> SUFFICES ASSUME Calculate3 PROVE AnswersAreExact'
  OBVIOUS
<1>1. Ptrdiffs \subseteq Int /\ Sizes \subseteq Int /\ UInts \subseteq Int
  BY Widths DEF Ptrdiffs, Sizes, UInts, ValuesOf, PtrdiffT, SizeT, UInt32T, SIZE_MAX, UINT32_MAX
<1>2. \A a, b \in Int : a - b \in Int /\ a * b \in Int
  OBVIOUS
<1>3. CASE \E a, b, c \in Ptrdiffs :
             Calls(<< a * b, a * b * c >>, PtrdiffT, bru_ptrdiff_multiply_3(a, b, c))
  <2>1. PICK a \in Ptrdiffs, b \in Ptrdiffs, c \in Ptrdiffs :
          Calls(<< a * b, a * b * c >>, PtrdiffT, bru_ptrdiff_multiply_3(a, b, c))
    BY <1>3
  <2>2. a * b \in Int /\ a * b * c \in Int
    BY <1>1, <1>2
  <2>3. bru_ptrdiff_multiply_3(a, b, c) = Both(PtrdiffT, a * b, a * b * c)
    BY <2>2, BuiltinIsExact, TypesAreTypes DEF bru_ptrdiff_multiply_3, bru_ptrdiff_multiply_2, Both
  <2> QED BY <2>1, <2>2, <2>3, BuiltinCalls, TypesAreTypes
<1>4. CASE \E a, b, c \in Sizes :
             Calls(<< a - b, a - b - c >>, SizeT, bru_size_subtract_3(a, b, c))
  <2>1. PICK a \in Sizes, b \in Sizes, c \in Sizes :
          Calls(<< a - b, a - b - c >>, SizeT, bru_size_subtract_3(a, b, c))
    BY <1>4
  <2>2. a - b \in Int /\ a - b - c \in Int
    BY <1>1, <1>2
  <2>3. bru_size_subtract_3(a, b, c) = Both(SizeT, a - b, a - b - c)
    BY <2>2, BuiltinIsExact, TypesAreTypes DEF bru_size_subtract_3, bru_size_subtract_2, Both
  <2> QED BY <2>1, <2>2, <2>3, BuiltinCalls, TypesAreTypes
<1>5. CASE \E a, b, c \in Sizes :
             Calls(<< a * b, a * b * c >>, SizeT, bru_size_multiply_3(a, b, c))
  <2>1. PICK a \in Sizes, b \in Sizes, c \in Sizes :
          Calls(<< a * b, a * b * c >>, SizeT, bru_size_multiply_3(a, b, c))
    BY <1>5
  <2>2. a * b \in Int /\ a * b * c \in Int
    BY <1>1, <1>2
  <2>3. bru_size_multiply_3(a, b, c) = Both(SizeT, a * b, a * b * c)
    BY <2>2, BuiltinIsExact, TypesAreTypes DEF bru_size_multiply_3, bru_size_multiply_2, Both
  <2> QED BY <2>1, <2>2, <2>3, BuiltinCalls, TypesAreTypes
<1>6. CASE \E a, b, c \in UInts :
             Calls(<< a * b, a * b * c >>, UInt32T, bru_uint_multiply_3(a, b, c))
  <2>1. PICK a \in UInts, b \in UInts, c \in UInts :
          Calls(<< a * b, a * b * c >>, UInt32T, bru_uint_multiply_3(a, b, c))
    BY <1>6
  <2>2. a * b \in Int /\ a * b * c \in Int
    BY <1>1, <1>2
  <2>3. bru_uint_multiply_3(a, b, c) = Both(UInt32T, a * b, a * b * c)
    BY <2>2, BuiltinIsExact, TypesAreTypes DEF bru_uint_multiply_3, bru_uint_multiply_2, Both
  <2> QED BY <2>1, <2>2, <2>3, BuiltinCalls, TypesAreTypes
<1> QED BY <1>3, <1>4, <1>5, <1>6 DEF Calculate3

\* An offset to an address of the lower half answers the truth.
LEMMA OffsetPointerIsExact == OffsetPointer => AnswersAreExact'
<1> SUFFICES ASSUME OffsetPointer PROVE AnswersAreExact'
  OBVIOUS
<1> DEFINE lower == [least |-> 0, greatest |-> PTRDIFF_MAX]
<1>1. PICK base \in 0 .. PTRDIFF_MAX, offset \in Ptrdiffs :
        Calls(<< base + offset >>, lower, bru_offset_pointer(base, offset))
  BY DEF OffsetPointer
<1>2. base + offset \in Int /\ lower \in Types /\ IntPtr(base) = base
  BY Widths DEF Ptrdiffs, ValuesOf, PtrdiffT, Types, IntPtr
<1> DEFINE outcome == bru_offset_pointer(base, offset)
<1>3. /\ outcome.ok <=> 0 =< base + offset /\ base + offset =< PTRDIFF_MAX
      /\ outcome.ok => outcome.result = base + offset
  <2>1. /\ Builtin(PtrdiffT, base + offset).ok
             <=> -PTRDIFF_MAX - 1 =< base + offset /\ base + offset =< PTRDIFF_MAX
        /\ Builtin(PtrdiffT, base + offset).ok
             => Builtin(PtrdiffT, base + offset).result = base + offset
    BY <1>2, BuiltinIsExact, TypesAreTypes DEF PtrdiffT
  <2> QED BY <1>2, <2>1, Widths DEF bru_offset_pointer, Done, Refused
<1> HIDE DEF outcome
<1>4. Calls(<< base + offset >>, lower, outcome)
  BY <1>1 DEF outcome
<1>5. lower.least = 0 /\ lower.greatest = PTRDIFF_MAX
  OBVIOUS
<1> HIDE DEF lower
<1> QED BY <1>2, <1>3, <1>4, <1>5, OneStep

---------------------------------------------------------------------------

\* Whatever is called with whatever arguments, for types of any width, a call returns
\* true exactly if what it then stored is the exact result (BRUArithmetic.h:41-526).
THEOREM ArithmeticIsExact == SpecArithmetic => []AnswersAreExact
<1>1. InitArithmetic => AnswersAreExact
  BY DEF InitArithmetic, AnswersAreExact, SuccessIsExact, FailureIsOverflow
<1>2. AnswersAreExact /\ [NextArithmetic]_arithmeticVars => AnswersAreExact'
  <2> SUFFICES ASSUME AnswersAreExact, [NextArithmetic]_arithmeticVars PROVE AnswersAreExact'
    OBVIOUS
  <2>1. CASE ConvertFloat \/ ConvertInteger \/ Calculate2 \/ Calculate3 \/ OffsetPointer
    BY <2>1, ConvertFloatIsExact, ConvertIntegerIsExact, Calculate2IsExact,
       Calculate3IsExact, OffsetPointerIsExact
  <2>2. CASE Return
    BY <2>2 DEF Return, AnswersAreExact, SuccessIsExact, FailureIsOverflow
  <2>3. CASE UNCHANGED arithmeticVars
    BY <2>3 DEF arithmeticVars, AnswersAreExact, SuccessIsExact, FailureIsOverflow
  <2> QED BY <2>1, <2>2, <2>3 DEF NextArithmetic
<1> QED BY <1>1, <1>2, PTL DEF SpecArithmetic

---------------------------------------------------------------------------
(* BRUMemoryRegion                                                         *)

RegionValues == [bytes : ValuesOf(SizeT), length : ValuesOf(SizeT)]

RegionTypeOK == parent \in RegionValues /\ region \in RegionValues

\* The builtins used here succeed exactly if the result fits, and have stored it then.
LEMMA AdditionIsExact ==
    ASSUME NEW a \in ValuesOf(SizeT), NEW b \in ValuesOf(SizeT)
    PROVE  /\ bru_unsigned_long_add_2(a, b).ok <=> a + b =< SIZE_MAX
           /\ bru_unsigned_long_add_2(a, b).ok => bru_unsigned_long_add_2(a, b).result = a + b
BY BuiltinIsExact, TypesAreTypes, Widths DEF bru_unsigned_long_add_2, ValuesOf, SizeT, SIZE_MAX

\* A length less an offset is exact, or refused when it would be negative.
LEMMA SubtractionIsExact ==
    ASSUME NEW a \in ValuesOf(SizeT), NEW b \in ValuesOf(SizeT)
    PROVE  /\ bru_size_subtract_2(a, b).ok <=> b =< a
           /\ bru_size_subtract_2(a, b).ok => bru_size_subtract_2(a, b).result = a - b
BY BuiltinIsExact, TypesAreTypes, Widths DEF bru_size_subtract_2, ValuesOf, SizeT, SIZE_MAX

\* An address moved forwards stays an address of the lower half, or is refused: one of
\* the upper half, being negative, is taken for one that may come out at the beginning.
LEMMA MovedPointerIsExact ==
    ASSUME NEW base \in ValuesOf(SizeT), NEW offset \in ValuesOf(PtrdiffT), offset >= 0
    PROVE  /\ base =< PTRDIFF_MAX =>
                  (bru_offset_pointer(base, offset).ok <=> base + offset =< PTRDIFF_MAX)
           /\ bru_offset_pointer(base, offset).ok =>
                  LET moved == bru_offset_pointer(base, offset).result
                  IN  /\ moved \in 0 .. PTRDIFF_MAX
                      /\ moved = IF base =< PTRDIFF_MAX THEN base + offset
                                 ELSE base + offset - SIZE_MAX - 1
<1>1. base \in Int /\ offset \in Int /\ 0 =< base /\ base =< SIZE_MAX /\ offset =< PTRDIFF_MAX
  BY DEF ValuesOf, SizeT, PtrdiffT
<1>2. CASE base =< PTRDIFF_MAX
  <2>1. IntPtr(base) + offset = base + offset
    BY <1>1, <1>2, Widths DEF IntPtr
  <2>2. Builtin(PtrdiffT, base + offset).ok <=> base + offset =< PTRDIFF_MAX
    BY <1>1, <1>2, BuiltinIsExact, TypesAreTypes, Widths DEF PtrdiffT
  <2>3. Builtin(PtrdiffT, base + offset).ok =>
          Builtin(PtrdiffT, base + offset).result = base + offset
    BY <1>1, BuiltinIsExact, TypesAreTypes
  <2> QED BY <1>1, <1>2, <2>1, <2>2, <2>3, Widths DEF bru_offset_pointer, Done, Refused
<1>3. CASE base > PTRDIFF_MAX
  <2> DEFINE moved == base + offset - SIZE_MAX - 1
  <2>1. IntPtr(base) + offset = moved
    BY <1>1, <1>3, Widths DEF IntPtr, SIZE_MAX
  <2>2. moved \in ValuesOf(PtrdiffT)
    BY <1>1, <1>3, Widths DEF ValuesOf, PtrdiffT, SIZE_MAX
  <2>3. Builtin(PtrdiffT, moved) = Done(moved)
    BY <2>2 DEF Builtin
  <2> QED BY <1>1, <1>3, <2>1, <2>2, <2>3, Widths
          DEF bru_offset_pointer, Done, Refused, ValuesOf, PtrdiffT
<1> QED BY <1>1, <1>2, <1>3, Widths

\* One region contains another if no end overflows and the bounds are in order.
LEMMA ContainsIsExact ==
    ASSUME NEW r \in RegionValues, NEW s \in RegionValues
    PROVE  BRUMemoryRegionContainsRegion(r, s) <=>
               /\ r.bytes =< s.bytes
               /\ r.bytes + r.length =< SIZE_MAX
               /\ s.bytes + s.length =< r.bytes + r.length
<1>1. /\ r.bytes \in ValuesOf(SizeT) /\ r.length \in ValuesOf(SizeT)
      /\ s.bytes \in ValuesOf(SizeT) /\ s.length \in ValuesOf(SizeT)
  BY DEF RegionValues
<1>2. /\ r.bytes \in Int /\ r.length \in Int /\ s.bytes \in Int /\ s.length \in Int
      /\ SIZE_MAX \in Int
  BY <1>1, Widths DEF ValuesOf, SizeT, SIZE_MAX
<1>3. ASSUME NEW q \in RegionValues, q.bytes \in ValuesOf(SizeT), q.length \in ValuesOf(SizeT)
      PROVE  /\ BRUMemoryRegionGetEnd(q).ok <=> q.bytes + q.length =< SIZE_MAX
             /\ BRUMemoryRegionGetEnd(q).ok =>
                    BRUMemoryRegionGetEnd(q).result = q.bytes + q.length
  BY <1>3, AdditionIsExact DEF BRUMemoryRegionGetEnd, Refused
<1> QED BY <1>1, <1>2, <1>3 DEF BRUMemoryRegionContainsRegion

\* A request is granted exactly if the part it means is there, and with that part.
LEMMA SubRegionIsExact ==
    ASSUME NEW r \in RegionValues, NEW offset \in ValuesOf(PtrdiffT), NEW length \in ValuesOf(SizeT)
    PROVE  LET sub == BRUMemoryRegionSubRegionWithOffset(r, offset, length)
               part == Meant(r, offset, length)
           IN  /\ sub.ok <=> IsThere(r, part)
               /\ sub.ok => sub.result = part /\ part \in RegionValues
<1> DEFINE sub == BRUMemoryRegionSubRegionWithOffset(r, offset, length)
           part == Meant(r, offset, length)
           newBytes == bru_offset_pointer(r.bytes, offset)
           offsetSize == bru_ptrdiff_to_size(offset)
           takesRest == length = BRUMemoryRegionRemainder
           rest == bru_size_subtract_2(r.length, offsetSize.result)
           newRegion == BRUMemoryRegionMake(newBytes.result,
                                            IF takesRest THEN rest.result ELSE length)
<1>1. /\ r.bytes \in ValuesOf(SizeT) /\ r.length \in ValuesOf(SizeT)
      /\ r.bytes \in Nat /\ r.length \in Nat /\ offset \in Int /\ length \in Nat
      /\ PTRDIFF_MAX \in Nat /\ SIZE_MAX = 2 * PTRDIFF_MAX + 1
      /\ r.bytes =< SIZE_MAX /\ r.length =< SIZE_MAX /\ length =< SIZE_MAX
      /\ offset =< PTRDIFF_MAX
  BY Widths DEF RegionValues, ValuesOf, SizeT, PtrdiffT, SIZE_MAX
<1>2. /\ part.bytes = r.bytes + offset
      /\ part.length = IF takesRest THEN r.length - offset ELSE length
      /\ part = [bytes |-> part.bytes, length |-> part.length]
  <2>1. Meant(r, offset, length)
          = [bytes |-> r.bytes + offset,
             length |-> IF takesRest THEN r.length - offset ELSE length]
    BY DEF Meant
  <2> QED BY <2>1
<1> HIDE DEF part, takesRest
<1>3. CASE offset < 0
  <2>1. ~sub.ok
    BY <1>3 DEF BRUMemoryRegionSubRegionWithOffset, Refused
  <2>2. ~IsThere(r, part)
    BY <1>1, <1>2, <1>3 DEF IsThere
  <2> QED BY <2>1, <2>2 DEF part
<1>4. CASE offset >= 0
  <2>1. offsetSize = Done(offset) /\ offsetSize.ok /\ offsetSize.result = offset
    BY <1>1, <1>4 DEF bru_ptrdiff_to_size, Done
  <2>2. offset \in ValuesOf(SizeT)
    BY <1>1, <1>4, Widths DEF ValuesOf, SizeT
  <2>3. /\ rest.ok <=> offset =< r.length
        /\ rest.ok => rest.result = r.length - offset
    BY <1>1, <2>1, <2>2, SubtractionIsExact
  <2>4. /\ r.bytes =< PTRDIFF_MAX => (newBytes.ok <=> r.bytes + offset =< PTRDIFF_MAX)
        /\ newBytes.ok =>
               /\ newBytes.result \in 0 .. PTRDIFF_MAX
               /\ newBytes.result = IF r.bytes =< PTRDIFF_MAX THEN r.bytes + offset
                                    ELSE r.bytes + offset - SIZE_MAX - 1
    BY <1>1, <1>4, MovedPointerIsExact
  <2> HIDE DEF newBytes, rest
  <2> DEFINE granted == /\ newBytes.ok /\ (takesRest => rest.ok)
                        /\ BRUMemoryRegionContainsRegion(r, newRegion)
  <2>5. sub = IF granted THEN Done(newRegion) ELSE Refused
    BY <1>1, <1>4, <2>1 DEF BRUMemoryRegionSubRegionWithOffset, newBytes, rest, takesRest
  <2>6. ASSUME newBytes.ok, takesRest => rest.ok
        PROVE  /\ newRegion.bytes = newBytes.result
               /\ newRegion.length = part.length
               /\ newRegion \in RegionValues
    <3>1. newRegion.bytes = newBytes.result /\ newRegion.length = part.length
      BY <1>2, <2>3, <2>6 DEF BRUMemoryRegionMake
    <3>2. newBytes.result \in ValuesOf(SizeT)
      BY <1>1, <2>4, <2>6 DEF ValuesOf, SizeT
    <3>3. part.length \in ValuesOf(SizeT)
      BY <1>1, <1>2, <1>4, <2>3, <2>6 DEF ValuesOf, SizeT
    <3> QED BY <3>1, <3>2, <3>3 DEF BRUMemoryRegionMake, RegionValues
  <2>7. ASSUME granted
        PROVE  newRegion = part /\ IsThere(r, part) /\ part \in RegionValues
    <3>1. /\ r.bytes =< newBytes.result
          /\ r.bytes + r.length =< SIZE_MAX
          /\ newBytes.result + part.length =< r.bytes + r.length
      BY <2>6, <2>7, ContainsIsExact
    <3>2. newBytes.result = r.bytes + offset
      BY <1>1, <2>4, <2>7, <3>1
    <3>3. newRegion = part
      BY <1>2, <2>6, <2>7, <3>2 DEF BRUMemoryRegionMake
    <3>4. part.length >= 0
      BY <1>1, <1>2, <2>3, <2>7
    <3>5. IsThere(r, part)
      BY <1>1, <1>2, <2>4, <2>7, <3>1, <3>2, <3>4 DEF IsThere, EndIsAddress, ValuesOf, SizeT
    <3> QED BY <2>6, <2>7, <3>3, <3>5
  <2>8. ASSUME IsThere(r, part) PROVE granted
    <3>1. /\ part.length >= 0 /\ r.bytes + offset =< PTRDIFF_MAX
          /\ r.bytes + offset + part.length =< r.bytes + r.length
          /\ r.bytes + r.length =< SIZE_MAX
      BY <1>1, <1>2, <2>8 DEF IsThere, EndIsAddress, ValuesOf, SizeT
    <3>2. newBytes.ok /\ newBytes.result = r.bytes + offset
      BY <1>1, <1>4, <2>4, <3>1
    <3>3. takesRest => rest.ok
      BY <1>1, <1>2, <2>3, <3>1
    <3>4. BRUMemoryRegionContainsRegion(r, newRegion)
      BY <1>1, <1>4, <2>6, <3>1, <3>2, <3>3, ContainsIsExact
    <3> QED BY <3>2, <3>3, <3>4
  <2> HIDE DEF newRegion, granted
  <2>9. sub.ok <=> granted
    BY <2>5 DEF Done, Refused
  <2> QED BY <2>5, <2>7, <2>8, <2>9 DEF Done, part
<1> QED BY <1>1, <1>3, <1>4 DEF part

---------------------------------------------------------------------------

\* What is inductive: bounds in order, of a region that is not the parent itself.
Inside ==
    region # parent =>
        /\ parent.bytes =< region.bytes
        /\ region.bytes + region.length =< parent.bytes + parent.length
        /\ region.bytes + region.length =< SIZE_MAX

RegionInv == RegionTypeOK /\ Inside

\* A request, granted or refused, leaves the client inside its parent region.
LEMMA NarrowKeepsInside ==
    ASSUME RegionInv, NEW offset \in ValuesOf(PtrdiffT), NEW length \in ValuesOf(SizeT),
           Narrow(offset, length)
    PROVE  RegionInv'
<1> DEFINE sub == BRUMemoryRegionSubRegionWithOffset(region, offset, length)
<1>1. parent' = parent /\ region' = IF sub.ok THEN sub.result ELSE region
  BY DEF Narrow, BRUMemoryRegionSubRegionWithOffsetAndError
<1>2. region \in RegionValues /\ parent \in RegionValues
  BY DEF RegionInv, RegionTypeOK
<1>3. CASE ~sub.ok
  BY <1>1, <1>3 DEF RegionInv, RegionTypeOK, Inside
<1>4. CASE sub.ok
  <2>1. /\ region' = Meant(region, offset, length)
        /\ IsThere(region, region')
        /\ region' \in RegionValues
    BY <1>1, <1>2, <1>4, SubRegionIsExact
  <2>2. /\ region.bytes \in Nat /\ region.length \in Nat
        /\ parent.bytes \in Nat /\ parent.length \in Nat
        /\ region'.bytes \in Nat /\ region'.length \in Nat
        /\ SIZE_MAX \in Nat
    BY <1>2, <2>1, Widths DEF RegionValues, ValuesOf, SizeT, SIZE_MAX
  <2>3. /\ region.bytes =< region'.bytes
        /\ region'.bytes + region'.length =< region.bytes + region.length
        /\ region.bytes + region.length =< SIZE_MAX
    BY <2>1, <2>2 DEF IsThere, EndIsAddress, ValuesOf, SizeT
  <2>4. /\ parent.bytes =< region.bytes
        /\ region.bytes + region.length =< parent.bytes + parent.length
    BY <2>2 DEF RegionInv, Inside
  <2>5. Inside'
    BY <1>1, <2>2, <2>3, <2>4 DEF Inside
  <2> QED BY <1>1, <1>2, <2>1, <2>5 DEF RegionInv, RegionTypeOK
<1> QED BY <1>3, <1>4

\* The client stays at a region of its parent for ever.
LEMMA RegionInvariant == SpecRegions => []RegionInv
<1>1. InitRegions => RegionInv
  BY ParentsAreRegions DEF InitRegions, RegionInv, RegionTypeOK, Inside, RegionValues
<1>2. RegionInv /\ [NextRegions]_regionVars => RegionInv'
  <2> SUFFICES ASSUME RegionInv, [NextRegions]_regionVars PROVE RegionInv'
    OBVIOUS
  <2>1. CASE NextRegions
    BY <2>1, NarrowKeepsInside DEF NextRegions
  <2>2. CASE UNCHANGED regionVars
    BY <2>2 DEF regionVars, RegionInv, RegionTypeOK, Inside
  <2> QED BY <2>1, <2>2
<1> QED BY <1>1, <1>2, PTL DEF SpecRegions

\* However often a region is narrowed down, and with whatever offsets and lengths, the
\* client never leaves the region it began with (BRUMemoryRegion.h:137-195).
THEOREM PartsStayInside == SpecRegions => []RegionInsideParent
<1>1. RegionInv => RegionInsideParent
  <2> SUFFICES ASSUME RegionInv, region # parent
               PROVE  Bytes(region) \subseteq Bytes(parent) /\ EndIsAddress(region)
    BY DEF RegionInsideParent
  <2>1. /\ region.bytes \in Nat /\ region.length \in Nat
        /\ parent.bytes \in Nat /\ parent.length \in Nat
    BY DEF RegionInv, RegionTypeOK, RegionValues, ValuesOf, SizeT
  <2> QED BY <2>1, Widths DEF RegionInv, Inside, Bytes, EndIsAddress, ValuesOf, SizeT, SIZE_MAX
<1> QED BY <1>1, RegionInvariant, PTL

\* Every request is answered with exactly the part it means, or refused because that
\* is not there (BRUMemoryRegion.h:98-195).
THEOREM PartsAreWhatIsMeant == SpecRegions => []PartsAreExact
<1>1. RegionInv => PartsAreExact
  <2> SUFFICES ASSUME RegionInv, NEW offset \in ValuesOf(PtrdiffT), NEW length \in ValuesOf(SizeT)
               PROVE  LET sub == BRUMemoryRegionSubRegionWithOffset(region, offset, length)
                          part == Meant(region, offset, length)
                      IN  /\ sub.ok <=> IsThere(region, part)
                          /\ sub.ok => sub.result = part
                          /\ sub.ok /\ BRUMemoryRegionIsNull(region)
                                 => BRUMemoryRegionIsNull(sub.result)
    BY DEF PartsAreExact
  <2> DEFINE sub == BRUMemoryRegionSubRegionWithOffset(region, offset, length)
             part == Meant(region, offset, length)
  <2>1. region \in RegionValues
    BY DEF RegionInv, RegionTypeOK
  <2>2. /\ sub.ok <=> IsThere(region, part)
        /\ sub.ok => sub.result = part /\ part \in RegionValues
    BY <2>1, SubRegionIsExact
  <2>3. ASSUME sub.ok, BRUMemoryRegionIsNull(region) PROVE BRUMemoryRegionIsNull(part)
    <3>1. part \in RegionValues /\ IsThere(region, part)
      BY <2>2, <2>3
    <3>2. part.bytes \in Nat /\ part.length \in Nat
      BY <3>1, Widths DEF RegionValues, ValuesOf, SizeT, SIZE_MAX
    <3> QED BY <2>3, <3>1, <3>2 DEF IsThere, BRUMemoryRegionIsNull
  <2> HIDE DEF part
  <2>4. sub.ok /\ BRUMemoryRegionIsNull(region) => BRUMemoryRegionIsNull(sub.result)
    BY <2>2, <2>3
  <2> QED BY <2>2, <2>4 DEF part
<1> QED BY <1>1, RegionInvariant, PTL

---------------------------------------------------------------------------
(* BRUResourceCleanup                                                      *)

\* The types of the object's state.
CleanupTypeOK ==
    /\ active \in BOOLEAN /\ success \in BOOLEAN
    /\ runner \in {"none", "running", "returned"}
    /\ cleanupBlocks \in Seq(Resources)
    /\ toRun \in Seq(Resources)
    /\ cleanupError \in Resources \cup {NoCleanup}
    /\ added \in SUBSET Resources
    /\ discarded \in SUBSET Resources
    /\ cleaned \in Seq([block : Resources, succeeded : BOOLEAN])

\* The stack holds each block once.
EachOnStackOnce ==
    \A i, j \in DOMAIN cleanupBlocks : cleanupBlocks[i] = cleanupBlocks[j] => i = j

\* Of a run that is under way, what ran is the top of the stack, and what has still
\* to run is the rest of it, both from the top down.
RunFollowsStack ==
    runner = "running" =>
        /\ active /\ discarded = {}
        /\ \A r \in Resources : r \in added <=> \E i \in DOMAIN cleanupBlocks : cleanupBlocks[i] = r
        /\ Len(cleaned) + Len(toRun) = Len(cleanupBlocks)
        /\ \A i \in DOMAIN cleaned :
               cleaned[i].block = cleanupBlocks[Len(cleanupBlocks) - i + 1]
        /\ \A i \in DOMAIN toRun : toRun[i] = cleanupBlocks[Len(toRun) - i + 1]

\* What the method answers so far is what the blocks answered.
VerdictOfBlocks ==
    /\ success <=> \A i \in DOMAIN cleaned : cleaned[i].succeeded
    /\ success <=> cleanupError = NoCleanup
    /\ ~success => \E i \in DOMAIN cleaned :
                       cleaned[i].block = cleanupError /\ ~cleaned[i].succeeded

\* Nothing ran before the method was called, and it is called once.
RunsOnce ==
    /\ runner = "none" => cleaned = << >>
    /\ active => runner # "returned" /\ discarded = {}
    /\ ~active => cleanupBlocks = << >>

\* Outside a run, every block that was accepted is in one place.
BlocksAccounted ==
    runner # "running" =>
        /\ \A r \in Resources :
               r \in added <=> \/ \E i \in DOMAIN cleanupBlocks : cleanupBlocks[i] = r
                               \/ \E i \in DOMAIN cleaned : cleaned[i].block = r
                               \/ r \in discarded
        /\ \A i \in DOMAIN cleanupBlocks : cleanupBlocks[i] \notin discarded
        /\ \A i \in DOMAIN cleanupBlocks : \A j \in DOMAIN cleaned :
               cleanupBlocks[i] # cleaned[j].block
        /\ \A i \in DOMAIN cleaned : cleaned[i].block \notin discarded
        /\ \A i, j \in DOMAIN cleaned : cleaned[i].block = cleaned[j].block => i = j

CleanupInv ==
    /\ CleanupTypeOK /\ EachOnStackOnce /\ RunFollowsStack
    /\ VerdictOfBlocks /\ RunsOnce /\ BlocksAccounted

\* A new object has run and discarded nothing.
LEMMA InitCleanupInv == InitCleanup => CleanupInv
BY DEF InitCleanup, CleanupInv, CleanupTypeOK, EachOnStackOnce, RunFollowsStack, VerdictOfBlocks,
       RunsOnce, BlocksAccounted

\* A block that is added has not been on the stack before.
LEMMA AddInv == ASSUME CleanupInv, NEW r \in Resources, Add(r) PROVE CleanupInv'
<1> USE DEF CleanupInv, Add, Turn, Stop
<1>1. CASE ~active
  BY <1>1 DEF CleanupTypeOK, EachOnStackOnce, RunFollowsStack, VerdictOfBlocks, RunsOnce, BlocksAccounted
<1>2. CASE active
  <2>1. CleanupTypeOK'
    <3>1. /\ cleanupBlocks' = Append(cleanupBlocks, r) /\ added' = added \cup {r}
          /\ UNCHANGED << active, success, runner, toRun, cleanupError, discarded, cleaned >>
      BY <1>2
    <3> HIDE DEF Add, Turn, Stop
    <3>2. CleanupTypeOK
      OBVIOUS
    <3> HIDE DEF CleanupInv
    <3>3. cleanupBlocks' \in Seq(Resources) /\ added' \in SUBSET Resources
      BY <3>1, <3>2 DEF CleanupTypeOK
    <3> QED BY <3>1, <3>2, <3>3 DEF CleanupTypeOK
  <2>2. EachOnStackOnce'
    BY SMTT(30), <1>2 DEF EachOnStackOnce, BlocksAccounted, CleanupTypeOK
  <2>3. RunFollowsStack'
    BY <1>2 DEF RunFollowsStack
  <2>4. VerdictOfBlocks'
    BY <1>2 DEF VerdictOfBlocks
  <2>5. RunsOnce'
    BY <1>2 DEF RunsOnce
  <2>6. BlocksAccounted'
    <3>1. /\ DOMAIN cleanupBlocks = 1 .. Len(cleanupBlocks) /\ Len(cleanupBlocks) \in Nat
          /\ DOMAIN cleanupBlocks' = 1 .. Len(cleanupBlocks) + 1
          /\ \A i \in 1 .. Len(cleanupBlocks) : cleanupBlocks'[i] = cleanupBlocks[i]
          /\ cleanupBlocks'[Len(cleanupBlocks) + 1] = r
      BY SMTT(30), <1>2 DEF CleanupTypeOK
    <3>2. cleaned' = << >> /\ discarded' = {} /\ cleaned = << >> /\ discarded = {}
      BY <1>2 DEF RunsOnce, CleanupTypeOK
    <3> QED BY <1>2, <3>1, <3>2 DEF BlocksAccounted
  <2> QED BY <2>1, <2>2, <2>3, <2>4, <2>5, <2>6
<1> QED BY <1>1, <1>2

\* A run begins with the whole stack turned over.
LEMMA RunAllInv == ASSUME CleanupInv, RunAll PROVE CleanupInv'
<1> USE DEF CleanupInv, RunAll, Turn, Stop
<1>1. CASE ~active
  BY <1>1 DEF CleanupTypeOK, EachOnStackOnce, RunFollowsStack, VerdictOfBlocks, RunsOnce, BlocksAccounted
<1>2. CASE active
  <2>0. /\ Reverse(cleanupBlocks) \in Seq(Resources)
        /\ Len(Reverse(cleanupBlocks)) = Len(cleanupBlocks)
        /\ \A i \in 1 .. Len(cleanupBlocks) :
               Reverse(cleanupBlocks)[i] = cleanupBlocks[Len(cleanupBlocks) - i + 1]
    BY DEF Reverse, CleanupTypeOK
  <2>1. CleanupTypeOK'
    BY <1>2, <2>0 DEF CleanupTypeOK
  <2>2. EachOnStackOnce'
    BY <1>2 DEF EachOnStackOnce
  <2>3. RunFollowsStack'
    <3>1. cleaned = << >> /\ discarded = {}
      BY <1>2 DEF RunsOnce, CleanupTypeOK
    <3>2. \A r \in Resources : r \in added <=> \E i \in DOMAIN cleanupBlocks : cleanupBlocks[i] = r
      BY <3>1 DEF BlocksAccounted
    <3> QED BY <1>2, <2>0, <3>1, <3>2 DEF RunFollowsStack, CleanupTypeOK
  <2>4. VerdictOfBlocks'
    BY <1>2 DEF VerdictOfBlocks
  <2>5. RunsOnce'
    BY <1>2 DEF RunsOnce
  <2>6. BlocksAccounted'
    BY <1>2 DEF BlocksAccounted
  <2> QED BY <2>1, <2>2, <2>3, <2>4, <2>5, <2>6
<1> QED BY <1>1, <1>2

\* A block that ran leaves what has to run for what ran.
LEMMA RunOneInv == ASSUME CleanupInv, NEW succeeds \in BOOLEAN, RunOne(succeeds) PROVE CleanupInv'
<1> USE DEF CleanupInv, RunOne
<1>0. /\ Head(toRun) = toRun[1] /\ toRun[1] \in Resources
      /\ Tail(toRun) \in Seq(Resources) /\ Len(Tail(toRun)) = Len(toRun) - 1
      /\ \A i \in 1 .. Len(toRun) - 1 : Tail(toRun)[i] = toRun[i + 1]
      /\ Len(toRun) > 0
  BY DEF CleanupTypeOK
<1> DEFINE entry == [block |-> toRun[1], succeeded |-> succeeds]
<1>10. /\ cleaned' \in Seq([block : Resources, succeeded : BOOLEAN])
       /\ Len(cleaned') = Len(cleaned) + 1
       /\ \A i \in 1 .. Len(cleaned) : cleaned'[i] = cleaned[i]
       /\ cleaned'[Len(cleaned) + 1] = entry
  BY <1>0 DEF CleanupTypeOK
<1>1. CleanupTypeOK'
  BY <1>0, <1>10 DEF CleanupTypeOK
<1>2. EachOnStackOnce'
  BY DEF EachOnStackOnce
<1>3. RunFollowsStack'
  <2>1. /\ DOMAIN cleaned' = 1 .. Len(cleaned) + 1 /\ DOMAIN cleaned = 1 .. Len(cleaned)
        /\ Len(cleaned) \in Nat /\ Len(toRun) \in Nat
        /\ DOMAIN toRun' = 1 .. Len(toRun) - 1 /\ DOMAIN toRun = 1 .. Len(toRun)
        /\ Len(toRun') = Len(toRun) - 1
    BY <1>0, <1>10 DEF CleanupTypeOK
  <2>2. \A i \in DOMAIN cleaned' :
            cleaned'[i].block = cleanupBlocks'[Len(cleanupBlocks') - i + 1]
    BY <1>0, <1>10, <2>1 DEF RunFollowsStack
  <2>3. \A i \in DOMAIN toRun' : toRun'[i] = cleanupBlocks'[Len(toRun') - i + 1]
    <3> TAKE i \in DOMAIN toRun'
    <3>1. i \in 1 .. Len(toRun) - 1 /\ i + 1 \in DOMAIN toRun
      BY <2>1
    <3>2. toRun'[i] = toRun[i + 1]
      BY <1>0, <3>1
    <3>3. toRun[i + 1] = cleanupBlocks[Len(toRun) - (i + 1) + 1]
      BY <3>1 DEF RunFollowsStack
    <3>4. Len(toRun) - (i + 1) + 1 = Len(toRun') - i + 1
      BY <2>1, <3>1
    <3> QED BY <3>2, <3>3, <3>4
  <2> QED BY <1>0, <1>10, <2>1, <2>2, <2>3 DEF RunFollowsStack
<1>4. VerdictOfBlocks'
  <2>1. DOMAIN cleaned' = 1 .. Len(cleaned) + 1 /\ DOMAIN cleaned = 1 .. Len(cleaned)
    BY <1>10 DEF CleanupTypeOK
  <2>2. /\ \A i \in DOMAIN cleaned : i \in DOMAIN cleaned' /\ cleaned'[i] = cleaned[i]
        /\ Len(cleaned) + 1 \in DOMAIN cleaned'
        /\ \A i \in DOMAIN cleaned' : i \in DOMAIN cleaned \/ i = Len(cleaned) + 1
    BY <1>10, <2>1 DEF CleanupTypeOK
  <2>3. entry.block = toRun[1] /\ entry.succeeded = succeeds
    OBVIOUS
  <2>4. success' <=> \A i \in DOMAIN cleaned' : cleaned'[i].succeeded
    BY <1>10, <2>2, <2>3 DEF VerdictOfBlocks
  <2>5. success' <=> cleanupError' = NoCleanup
    BY <1>0, CleanupAssumption DEF VerdictOfBlocks
  <2>6. ~success' => \E i \in DOMAIN cleaned' :
                         cleaned'[i].block = cleanupError' /\ ~cleaned'[i].succeeded
    BY <1>0, <1>10, <2>2, <2>3 DEF VerdictOfBlocks
  <2> QED BY <2>4, <2>5, <2>6 DEF VerdictOfBlocks
<1>5. RunsOnce'
  BY DEF RunsOnce, CleanupTypeOK, RunFollowsStack
<1>6. BlocksAccounted'
  BY DEF BlocksAccounted
<1> QED BY <1>1, <1>2, <1>3, <1>4, <1>5, <1>6

\* A run that ends has run the stack from the top down.
LEMMA AllRan ==
    ASSUME CleanupInv, runner = "running", toRun = << >>
    PROVE  [i \in DOMAIN cleaned |-> cleaned[i].block] = Reverse(cleanupBlocks)
BY DEF CleanupInv, CleanupTypeOK, RunFollowsStack, Reverse

\* The stack is dropped when all of it ran.
LEMMA RunEndsInv == ASSUME CleanupInv, RunEnds PROVE CleanupInv'
<1> USE DEF CleanupInv, RunEnds
<1>1. CleanupTypeOK'
  BY DEF CleanupTypeOK
<1>2. EachOnStackOnce'
  BY DEF EachOnStackOnce
<1>3. RunFollowsStack'
  BY DEF RunFollowsStack
<1>4. VerdictOfBlocks'
  BY DEF VerdictOfBlocks
<1>5. RunsOnce'
  BY DEF RunsOnce
<1>6. BlocksAccounted'
  <2>1. Len(cleaned) = Len(cleanupBlocks) /\ Len(cleaned) \in Nat
    BY DEF RunFollowsStack, CleanupTypeOK
  <2>2. \A i \in 1 .. Len(cleaned) :
           cleanupBlocks[i] = cleaned[Len(cleaned) - i + 1].block
    BY <2>1 DEF RunFollowsStack, CleanupTypeOK
  <2>3. \A i, j \in DOMAIN cleaned : cleaned[i].block = cleaned[j].block => i = j
    <3>1. DOMAIN cleaned = 1 .. Len(cleaned) /\ DOMAIN cleanupBlocks = 1 .. Len(cleaned)
      BY <2>1 DEF CleanupTypeOK
    <3>2. \A i \in DOMAIN cleaned : /\ Len(cleaned) - i + 1 \in DOMAIN cleanupBlocks
                                    /\ cleaned[i].block = cleanupBlocks[Len(cleaned) - i + 1]
      BY <2>1, <3>1 DEF RunFollowsStack
    <3> QED BY <2>1, <3>1, <3>2 DEF EachOnStackOnce
  <2>4. \A r \in Resources : r \in added <=> \E i \in DOMAIN cleaned : cleaned[i].block = r
    <3> TAKE r \in Resources
    <3>1. ASSUME NEW i \in DOMAIN cleanupBlocks, cleanupBlocks[i] = r
          PROVE  \E j \in DOMAIN cleaned : cleaned[j].block = r
      <4>1. Len(cleaned) - i + 1 \in DOMAIN cleaned
        BY <2>1 DEF CleanupTypeOK
      <4> QED BY <4>1, <3>1, <2>1, <2>2 DEF CleanupTypeOK
    <3>2. ASSUME NEW i \in DOMAIN cleaned, cleaned[i].block = r
          PROVE  \E j \in DOMAIN cleanupBlocks : cleanupBlocks[j] = r
      <4>1. Len(cleaned) - i + 1 \in DOMAIN cleanupBlocks
        BY <2>1 DEF CleanupTypeOK
      <4> QED BY <4>1, <3>2, <2>1 DEF CleanupTypeOK, RunFollowsStack
    <3> QED BY <3>1, <3>2 DEF RunFollowsStack
  <2> QED BY <2>3, <2>4 DEF BlocksAccounted, RunFollowsStack, CleanupTypeOK
<1> QED BY <1>1, <1>2, <1>3, <1>4, <1>5, <1>6

\* What is discarded neither ran nor waits.
LEMMA DiscardAllInv == ASSUME CleanupInv, DiscardAll PROVE CleanupInv'
<1> USE DEF CleanupInv, DiscardAll, Turn
<1>0. ToSet(cleanupBlocks) = {cleanupBlocks[i] : i \in DOMAIN cleanupBlocks}
  BY DEF ToSet
<1>1. CleanupTypeOK'
  <2>1. ToSet(cleanupBlocks) \subseteq Resources
    BY <1>0 DEF CleanupTypeOK
  <2>2. discarded' \in SUBSET Resources
    BY <2>1 DEF CleanupTypeOK
  <2>3. cleanupBlocks' \in Seq(Resources)
    OBVIOUS
  <2> QED BY <2>2, <2>3 DEF CleanupTypeOK
<1>2. EachOnStackOnce'
  BY DEF EachOnStackOnce
<1>3. RunFollowsStack'
  BY DEF RunFollowsStack
<1>4. VerdictOfBlocks'
  BY DEF VerdictOfBlocks
<1>5. RunsOnce'
  BY DEF RunsOnce
<1>6. BlocksAccounted'
  BY <1>0 DEF BlocksAccounted, CleanupTypeOK
<1> QED BY <1>1, <1>2, <1>3, <1>4, <1>5, <1>6

\* Every step of the object keeps the invariant.
LEMMA CleanupStep == CleanupInv /\ [NextCleanup]_cleanupVars => CleanupInv'
<1> SUFFICES ASSUME CleanupInv, [NextCleanup]_cleanupVars PROVE CleanupInv'
  OBVIOUS
<1>1. CASE Dealloc \/ UNCHANGED cleanupVars
  <2>1. UNCHANGED << active, cleanupBlocks, toRun, runner, success, cleanupError, added, cleaned,
                     discarded >>
    BY <1>1 DEF Dealloc, Stop, cleanupVars
  <2> QED BY <2>1 DEF CleanupInv, CleanupTypeOK, EachOnStackOnce, RunFollowsStack,
                      VerdictOfBlocks, RunsOnce, BlocksAccounted
<1> QED BY <1>1, AddInv, RunAllInv, RunOneInv, RunEndsInv, DiscardAllInv DEF NextCleanup

\* The invariant holds at all times.
LEMMA CleanupInvariant == SpecCleanup => []CleanupInv
BY InitCleanupInv, CleanupStep, PTL DEF SpecCleanup

\* Whatever threads add, run and discard, every block ran once, was discarded, or can
\* still do either (BRUResourceCleanup.m:68-113).
THEOREM BlocksAreNotForgotten == SpecCleanup => []NoBlockForgotten
<1>1. CleanupInv => NoBlockForgotten
  <2> SUFFICES ASSUME CleanupInv PROVE NoBlockForgotten
    OBVIOUS
  <2> DEFINE ran == [i \in DOMAIN cleaned |-> cleaned[i].block]
             unrun == ToSet(IF runner = "running" THEN toRun ELSE cleanupBlocks)
  <2> USE DEF CleanupInv
  <2>0. /\ ToSet(ran) = {cleaned[i].block : i \in DOMAIN cleaned}
        /\ ToSet(toRun) = {toRun[i] : i \in DOMAIN toRun}
        /\ ToSet(cleanupBlocks) = {cleanupBlocks[i] : i \in DOMAIN cleanupBlocks}
        /\ IsInjective(ran)
              <=> \A i, j \in DOMAIN cleaned : cleaned[i].block = cleaned[j].block => i = j
    BY DEF ToSet, IsInjective
  <2>01. /\ DOMAIN cleaned = 1 .. Len(cleaned) /\ Len(cleaned) \in Nat
         /\ DOMAIN cleanupBlocks = 1 .. Len(cleanupBlocks) /\ Len(cleanupBlocks) \in Nat
         /\ DOMAIN toRun = 1 .. Len(toRun) /\ Len(toRun) \in Nat
         /\ \A i \in DOMAIN cleaned : cleaned[i].block \in Resources
         /\ \A i \in DOMAIN cleanupBlocks : cleanupBlocks[i] \in Resources
         /\ \A i \in DOMAIN toRun : toRun[i] \in Resources
    <3>1. \A i \in DOMAIN cleaned : cleaned[i] \in [block : Resources, succeeded : BOOLEAN]
      BY ElementOfSeq, LenProperties DEF CleanupTypeOK
    <3>2. \A i \in DOMAIN cleanupBlocks : cleanupBlocks[i] \in Resources
      BY DEF CleanupTypeOK
    <3>3. \A i \in DOMAIN toRun : toRun[i] \in Resources
      BY DEF CleanupTypeOK
    <3> QED BY <3>1, <3>2, <3>3 DEF CleanupTypeOK
  <2> HIDE DEF ran
  <2>1. /\ added = unrun \cup ToSet(ran) \cup discarded
        /\ unrun \cap (ToSet(ran) \cup discarded) = {} /\ ToSet(ran) \cap discarded = {}
        /\ IsInjective(ran)
    <3>1. CASE runner # "running"
      <4>1. unrun = {cleanupBlocks[i] : i \in DOMAIN cleanupBlocks}
        BY <3>1, <2>0
      <4>2. unrun \subseteq Resources /\ ToSet(ran) \subseteq Resources
        BY <4>1, <2>0, <2>01
      <4> HIDE DEF unrun
      <4> QED BY <3>1, <4>1, <4>2, <2>0 DEF BlocksAccounted, CleanupTypeOK
    <3>2. CASE runner = "running"
      <4>1. IsInjective(ran)
        <5>1. \A i \in DOMAIN cleaned :
                  /\ Len(cleanupBlocks) - i + 1 \in DOMAIN cleanupBlocks
                  /\ cleaned[i].block = cleanupBlocks[Len(cleanupBlocks) - i + 1]
          BY <3>2, <2>01 DEF RunFollowsStack
        <5> QED BY <5>1, <2>0, <2>01 DEF EachOnStackOnce
      <4>2. unrun \cap ToSet(ran) = {} /\ discarded = {}
        <5>1. ASSUME NEW i \in DOMAIN toRun, NEW j \in DOMAIN cleaned
              PROVE  toRun[i] # cleaned[j].block
          <6>1. /\ Len(toRun) - i + 1 \in DOMAIN cleanupBlocks
                /\ Len(cleanupBlocks) - j + 1 \in DOMAIN cleanupBlocks
                /\ Len(toRun) - i + 1 < Len(cleanupBlocks) - j + 1
            BY <3>2, <2>01 DEF RunFollowsStack
          <6> QED BY <6>1, <3>2, <2>01 DEF RunFollowsStack, EachOnStackOnce
        <5> QED BY <5>1, <3>2, <2>0 DEF RunFollowsStack
      <4>3. ASSUME NEW i \in DOMAIN cleanupBlocks
            PROVE  cleanupBlocks[i] \in unrun \cup ToSet(ran)
        <5>1. CASE i =< Len(toRun)
          <6>1. Len(toRun) - i + 1 \in DOMAIN toRun /\ toRun[Len(toRun) - i + 1] = cleanupBlocks[i]
            BY <3>2, <5>1, <2>01 DEF RunFollowsStack
          <6> QED BY <6>1, <3>2, <2>0
        <5>2. CASE i > Len(toRun)
          <6>1. /\ Len(cleanupBlocks) - i + 1 \in DOMAIN cleaned
                /\ cleaned[Len(cleanupBlocks) - i + 1].block = cleanupBlocks[i]
            BY <3>2, <5>2, <2>01 DEF RunFollowsStack
          <6> QED BY <6>1, <3>2, <2>0
        <5> QED BY <5>1, <5>2, <2>01
      <4>4. unrun \cup ToSet(ran) \subseteq added
        <5>1. \A i \in DOMAIN cleaned :
                  /\ Len(cleanupBlocks) - i + 1 \in DOMAIN cleanupBlocks
                  /\ cleaned[i].block = cleanupBlocks[Len(cleanupBlocks) - i + 1]
          BY <3>2, <2>01 DEF RunFollowsStack
        <5>2. \A i \in DOMAIN toRun :
                  /\ Len(toRun) - i + 1 \in DOMAIN cleanupBlocks
                  /\ toRun[i] = cleanupBlocks[Len(toRun) - i + 1]
          BY <3>2, <2>01 DEF RunFollowsStack
        <5> QED BY <5>1, <5>2, <3>2, <2>0, <2>01 DEF RunFollowsStack
      <4>5. added \subseteq unrun \cup ToSet(ran)
        BY <3>2, <4>3 DEF RunFollowsStack, CleanupTypeOK
      <4> QED BY <4>1, <4>2, <4>4, <4>5
    <3> QED BY <3>1, <3>2
  <2>2. ~active => unrun = {}
    <3> SUFFICES ASSUME ~active PROVE unrun = {}
      OBVIOUS
    <3>1. unrun = {cleanupBlocks[i] : i \in DOMAIN cleanupBlocks} /\ cleanupBlocks = << >>
      BY <2>0 DEF RunFollowsStack, RunsOnce
    <3>2. DOMAIN cleanupBlocks = {}
      BY <3>1
    <3>3. {cleanupBlocks[i] : i \in DOMAIN cleanupBlocks} = {}
      BY <3>2
    <3> HIDE DEF unrun
    <3> QED BY <3>1, <3>3
  <2> QED BY <2>1, <2>2 DEF NoBlockForgotten, ran
<1> QED BY <1>1, CleanupInvariant, PTL

\* When the run returns, all blocks ran, the newest first, and the answer and the error
\* tell whether one of them failed (BRUResourceCleanup.m:85-99).
THEOREM RunsTellAll == SpecCleanup => RunTellsAll
<1> DEFINE A == runner = "running" /\ runner' = "returned" =>
           /\ [i \in DOMAIN cleaned |-> cleaned[i].block] = Reverse(cleanupBlocks)
           /\ success <=> \A i \in DOMAIN cleaned : cleaned[i].succeeded
           /\ success <=> cleanupError = NoCleanup
           /\ ~success => [block |-> cleanupError, succeeded |-> FALSE] \in ToSet(cleaned)
<1>1. CleanupInv /\ [NextCleanup]_cleanupVars => [A]_cleanupVars
  <2> SUFFICES ASSUME CleanupInv, NextCleanup, runner = "running", runner' = "returned"
               PROVE  A
    BY DEF cleanupVars
  <2>1. toRun = << >>
    BY DEF NextCleanup, Add, RunAll, RunOne, RunEnds, DiscardAll, Dealloc, Turn, Stop
  <2>2. ~success => [block |-> cleanupError, succeeded |-> FALSE] \in ToSet(cleaned)
    <3> SUFFICES ASSUME ~success
                 PROVE  [block |-> cleanupError, succeeded |-> FALSE] \in ToSet(cleaned)
      OBVIOUS
    <3>1. PICK i \in DOMAIN cleaned : cleaned[i].block = cleanupError /\ ~cleaned[i].succeeded
      BY DEF CleanupInv, VerdictOfBlocks
    <3>2. cleaned[i] \in [block : Resources, succeeded : BOOLEAN]
      BY ElementOfSeq, LenProperties DEF CleanupInv, CleanupTypeOK
    <3>3. cleaned[i] = [block |-> cleanupError, succeeded |-> FALSE]
      BY <3>1, <3>2
    <3> QED BY <3>3 DEF ToSet
  <2> QED BY <2>1, <2>2, AllRan DEF CleanupInv, VerdictOfBlocks
<1> QED BY <1>1, CleanupInvariant, PTL DEF SpecCleanup, RunTellsAll

---------------------------------------------------------------------------
(* BRUConcurrentVariable                                                   *)

CurrentValues == Seq(Writers)
Entries == [found : CurrentValues, left : CurrentValues]

VariableTypeOK ==
    /\ currentValue \in CurrentValues
    /\ modifying \subseteq Writers
    /\ oldValue \in [Writers -> CurrentValues]
    /\ history \in Seq(Entries)

\* One modifyBlock runs at a time, and on the value that is still the current one.
ModifierIsAlone ==
    \A w \in modifying : modifying = {w} /\ oldValue[w] = currentValue

\* The current value is what the last call left.
LastLeftCurrent ==
    currentValue = IF history = << >> THEN InitialValue ELSE history[Len(history)].left

VariableInv == VariableTypeOK /\ ModifierIsAlone /\ LastLeftCurrent /\ CallsAreAtomic

\* A call that found the current value keeps the chain of calls whole.
LEMMA EndingKeepsChain ==
    ASSUME VariableInv, NEW left \in CurrentValues, Ends(currentValue, left)
    PROVE  LastLeftCurrent' /\ CallsAreAtomic' /\ history' \in Seq(Entries)
<1> DEFINE entry == [found |-> currentValue, left |-> left]
<1>1. currentValue' = left /\ history' = Append(history, entry)
  BY DEF Ends
<1>2. entry \in Entries /\ history \in Seq(Entries)
  BY DEF Entries, VariableInv, VariableTypeOK
<1>3. /\ history' \in Seq(Entries) /\ Len(history') = Len(history) + 1
      /\ Len(history) \in Nat
      /\ DOMAIN history' = 1 .. Len(history) + 1
      /\ history'[Len(history) + 1] = entry
      /\ \A i \in 1 .. Len(history) : history'[i] = history[i]
  BY <1>1, <1>2
<1>4. LastLeftCurrent'
  BY <1>1, <1>3 DEF LastLeftCurrent
<1>5. ASSUME NEW i \in DOMAIN history'
      PROVE  /\ history'[i].found = IF i = 1 THEN InitialValue ELSE history'[i - 1].left
             /\ i = Len(history') => history'[i].left = currentValue'
  <2>1. CASE i = Len(history) + 1
    <3>1. entry.found = IF i = 1 THEN InitialValue ELSE history[i - 1].left
      BY <1>2, <1>3, <2>1 DEF VariableInv, LastLeftCurrent
    <3> QED BY <1>1, <1>3, <2>1, <3>1
  <2>2. CASE i \in 1 .. Len(history)
    BY <1>2, <1>3, <2>2 DEF VariableInv, CallsAreAtomic
  <2> QED BY <1>3, <2>1, <2>2
<1>6. CallsAreAtomic'
  BY <1>5 DEF CallsAreAtomic, InitialValue
<1> QED BY <1>3, <1>4, <1>6

\* Every step of a thread keeps the invariant.
LEMMA VariableStep ==
    ASSUME VariableInv, NEW w \in Writers,
           ReadVariable(w) \/ WriteVariable(w) \/ ModifyBegins(w) \/ ModifyEnds(w)
    PROVE  VariableInv'
<1>1. CASE ReadVariable(w)
  <2>1. LastLeftCurrent' /\ CallsAreAtomic' /\ history' \in Seq(Entries)
    BY <1>1, EndingKeepsChain DEF ReadVariable, VariableInv, VariableTypeOK
  <2> QED
    BY <1>1, <2>1 DEF ReadVariable, EntersQueue, Ends, VariableInv, VariableTypeOK,
                      ModifierIsAlone
<1>2. CASE WriteVariable(w)
  <2>1. << w >> \in CurrentValues
    BY DEF CurrentValues
  <2>2. LastLeftCurrent' /\ CallsAreAtomic' /\ history' \in Seq(Entries)
    BY <1>2, <2>1, EndingKeepsChain DEF WriteVariable
  <2> QED
    BY <1>2, <2>1, <2>2 DEF WriteVariable, EntersQueue, Ends, VariableInv, VariableTypeOK,
                            ModifierIsAlone
<1>3. CASE ModifyBegins(w)
  <2>1. modifying' = {w} /\ oldValue' = [oldValue EXCEPT ![w] = currentValue]
        /\ UNCHANGED << currentValue, history >>
    BY <1>3 DEF ModifyBegins, EntersQueue
  <2>2. VariableTypeOK' /\ ModifierIsAlone'
    BY <2>1 DEF VariableInv, VariableTypeOK, ModifierIsAlone
  <2> QED
    BY <2>1, <2>2 DEF VariableInv, LastLeftCurrent, CallsAreAtomic
<1>4. CASE ModifyEnds(w)
  <2>1. /\ w \in modifying /\ modifying = {w} /\ oldValue[w] = currentValue
        /\ modifying' = {} /\ oldValue' = oldValue
    BY <1>4 DEF ModifyEnds, VariableInv, ModifierIsAlone
  <2>2. CASE UNCHANGED << currentValue, history >>
    BY <2>1, <2>2 DEF VariableInv, VariableTypeOK, ModifierIsAlone, LastLeftCurrent,
                      CallsAreAtomic
  <2>3. CASE \E left \in CurrentValues : Ends(currentValue, left)
    <3>1. LastLeftCurrent' /\ CallsAreAtomic' /\ history' \in Seq(Entries)
      BY <2>3, EndingKeepsChain
    <3> QED
      BY <2>1, <2>3, <3>1 DEF Ends, VariableInv, VariableTypeOK, ModifierIsAlone
  <2>4. Append(currentValue, w) \in CurrentValues /\ << w >> \in CurrentValues
    BY DEF VariableInv, VariableTypeOK, CurrentValues
  <2> QED BY <1>4, <2>1, <2>2, <2>3, <2>4 DEF ModifyEnds
<1> QED BY <1>1, <1>2, <1>3, <1>4

\* Every call finds what the one before it left, and what it returns is what it
\* replaced (BRUConcurrentVariable.m:45-82).
THEOREM VariableIsAtomic == SpecVariable => []CallsAreAtomic
<1>1. InitVariable => VariableInv
  BY DEF InitVariable, InitialValue, VariableInv, VariableTypeOK, ModifierIsAlone,
         LastLeftCurrent, CallsAreAtomic, CurrentValues
<1>2. VariableInv /\ [NextVariable]_variableVars => VariableInv'
  <2> SUFFICES ASSUME VariableInv, [NextVariable]_variableVars PROVE VariableInv'
    OBVIOUS
  <2>1. CASE NextVariable
    BY <2>1, VariableStep DEF NextVariable
  <2>2. CASE UNCHANGED variableVars
    BY <2>2 DEF variableVars, VariableInv, VariableTypeOK, ModifierIsAlone, LastLeftCurrent,
                CallsAreAtomic
  <2> QED BY <2>1, <2>2
<1>3. VariableInv => CallsAreAtomic
  BY DEF VariableInv
<1> QED BY <1>1, <1>2, <1>3, PTL DEF SpecVariable

---------------------------------------------------------------------------
(* BRUDispatchUtils                                                        *)

Markers == Queues \cup {Null, "0x1"}

Questions == [at : {"marks", "compares", "on", "off", "waits"}, queue : Queues,
              marker : Markers]

QueueTypeOK ==
    /\ created \subseteq Queues
    /\ specific \in [Queues -> [Queues -> Markers]]
    /\ blocks \in [Callers -> Seq(Queues)]
    /\ asks \in [Callers -> {NoQuestion} \cup Questions]

\* A queue has a marker under no key but its own.
OwnKeys == \A q, key \in Queues : specific[q][key] # Null => q = key

\* A thread that is about to mark a queue will not change a marker that is there: it
\* is the same one.
MarksOnce ==
    \A t \in Callers : asks[t].at = "marks" =>
        /\ asks[t].queue \in created
        /\ specific[asks[t].queue][asks[t].queue] \in {Null, "0x1"}

\* A thread that is about to compare knows the queue's marker.
KnowsMarker ==
    \A t \in Callers : asks[t].at = "compares" =>
        /\ asks[t].queue \in created
        /\ asks[t].marker = specific[asks[t].queue][asks[t].queue]
        /\ asks[t].marker # Null

QueueInv ==
    /\ QueueTypeOK /\ OwnKeys /\ MarksOnce /\ KnowsMarker
    /\ AnswersAboutQueuesAreTrue

Less == OpToRel(<, Nat)

\* A set of positions that is not empty has a least one.
LEMMA MinIsThere ==
    ASSUME NEW S \in SUBSET Nat, S # {}
    PROVE  Min(S) \in S
<1>1. \E x \in S : \A y \in S : << y, x >> \notin Less
  BY NatLessThanWellFounded, WFMin DEF Less
<1>2. \A x, y \in Nat : << y, x >> \in Less <=> y < x
  BY DEF Less, OpToRel
<1>3. PICK x \in S : \A y \in S : << y, x >> \notin Less
  BY <1>1
<1>4. \A y \in S : x =< y
  <2> SUFFICES ASSUME NEW y \in S PROVE x =< y
    OBVIOUS
  <2>1. ~ (y < x)
    BY <1>2, <1>3
  <2> QED BY <2>1
<1> QED
  BY <1>4 DEF Min

\* What a block finds under a queue's key is the queue's marker, if it runs on that
\* queue or on one that targets it, and nothing otherwise.
LEMMA FindsMarkerOfChain ==
    ASSUME QueueTypeOK, OwnKeys, NEW t \in Callers, NEW key \in Queues
    PROVE  GetSpecific(t, key) =
               IF key \in ToSet(CurrentChain(t)) THEN specific[key][key] ELSE Null
<1> DEFINE chain == CurrentChain(t)
           marked == { i \in DOMAIN chain : specific[chain[i]][key] # Null }
<1>1. chain \in Seq(Queues)
  <2>1. CASE blocks[t] = << >>
    BY <2>1 DEF CurrentChain
  <2>2. CASE blocks[t] # << >>
    <3>1. blocks[t] \in Seq(Queues)
      BY DEF QueueTypeOK
    <3>2. Last(blocks[t]) \in Queues
      BY <3>1, <2>2 DEF Last
    <3> QED BY <3>2, <2>2, Chains DEF CurrentChain
  <2> QED BY <2>1, <2>2
<1>2. DOMAIN chain \subseteq Nat /\ \A i \in DOMAIN chain : chain[i] \in Queues
  BY <1>1
<1>3. \A i \in marked : chain[i] = key
  BY <1>2 DEF OwnKeys
<1>4. CASE marked = {}
  <2>1. key \in ToSet(chain) => specific[key][key] = Null
    BY <1>4 DEF ToSet
  <2> QED BY <2>1, <1>4 DEF GetSpecific
<1>5. CASE marked # {}
  <2>1. Min(marked) \in marked
    BY <1>2, <1>5, MinIsThere
  <2>2. chain[Min(marked)] = key /\ key \in ToSet(chain)
    BY <1>3, <2>1 DEF ToSet
  <2> QED BY <2>2, <1>5 DEF GetSpecific
<1> QED BY <1>4, <1>5

---------------------------------------------------------------------------
(* The invariant: one lemma per action that changes markers or questions.  *)

\* At first nobody asks and nothing is marked.
LEMMA InitQueueInv == InitQueues => QueueInv
<1> SUFFICES ASSUME InitQueues PROVE QueueInv
  OBVIOUS
<1>1. QueueTypeOK
  BY DEF InitQueues, QueueTypeOK, Markers
<1>2. OwnKeys
  BY DEF InitQueues, OwnKeys
<1>3. \A t \in Callers : asks[t].at = "none"
  BY DEF InitQueues, NoQuestion
<1> QED
  BY <1>1, <1>2, <1>3 DEF QueueInv, MarksOnce, KnowsMarker, AnswersAboutQueuesAreTrue

\* A block begins or returns where its thread does not ask.
LEMMA BlockInv ==
    ASSUME QueueInv, NEW t \in Callers, NEW q \in Queues,
           BlockBegins(t, q) \/ BlockReturns(t)
    PROVE  QueueInv'
<1>1. /\ asks[t] = NoQuestion /\ UNCHANGED << created, specific, asks, wrongQueue >>
      /\ \E b \in Seq(Queues) : blocks' = [blocks EXCEPT ![t] = b]
  <2>1. CASE BlockBegins(t, q)
    <3>1. << q >> \in Seq(Queues)
      OBVIOUS
    <3> QED BY <2>1, <3>1 DEF BlockBegins
  <2>2. CASE BlockReturns(t)
    <3>1. blocks[t] \in Seq(Queues)
      BY DEF QueueInv, QueueTypeOK
    <3>2. Front(blocks[t]) \in Seq(Queues)
      <4>1. \A i \in 1 .. Len(blocks[t]) - 1 : blocks[t][i] \in Queues
        BY <3>1
      <4> QED BY <3>1, <4>1, SubSeqProperties DEF Front
    <3> QED BY <2>2, <3>2 DEF BlockReturns
  <2> QED BY <2>1, <2>2
<1>2. QueueTypeOK'
  BY <1>1 DEF QueueInv, QueueTypeOK
<1>3. OwnKeys' /\ MarksOnce' /\ KnowsMarker'
  BY <1>1 DEF QueueInv, OwnKeys, MarksOnce, KnowsMarker
<1>4. AnswersAboutQueuesAreTrue'
  <2> SUFFICES ASSUME NEW u \in Callers, asks[u].at # "none"
               PROVE  CurrentChain(u)' = CurrentChain(u)
    BY <1>1 DEF QueueInv, AnswersAboutQueuesAreTrue
  <2>1. u # t
    BY <1>1 DEF NoQuestion
  <2>2. blocks'[u] = blocks[u]
    BY <1>1, <2>1 DEF QueueInv, QueueTypeOK
  <2> QED BY <2>2 DEF CurrentChain
<1> QED BY <1>2, <1>3, <1>4 DEF QueueInv

\* dispatch_sync lets the block in: the thread asks no more.
LEMMA SyncInv ==
    ASSUME QueueInv, NEW t \in Callers, SyncEnters(t)
    PROVE  QueueInv'
<1> USE DEF SyncEnters
<1>1. asks[t] \in Questions /\ blocks[t] \in Seq(Queues)
  BY DEF QueueInv, QueueTypeOK, NoQuestion
<1>2. Append(blocks[t], asks[t].queue) \in Seq(Queues)
  BY <1>1 DEF Questions
<1>3. QueueTypeOK'
  BY <1>2 DEF QueueInv, QueueTypeOK
<1>4. asks'[t].at = "none" /\ \A u \in Callers \ {t} : asks'[u] = asks[u]
                                               /\ blocks'[u] = blocks[u]
  BY DEF QueueInv, QueueTypeOK, NoQuestion
<1>5. OwnKeys' /\ MarksOnce' /\ KnowsMarker'
  BY <1>4 DEF QueueInv, OwnKeys, MarksOnce, KnowsMarker
<1>6. \A u \in Callers \ {t} : CurrentChain(u)' = CurrentChain(u)
  BY <1>4 DEF CurrentChain
<1>7. AnswersAboutQueuesAreTrue'
  BY <1>4, <1>6 DEF QueueInv, AnswersAboutQueuesAreTrue
<1> QED BY <1>3, <1>5, <1>7 DEF QueueInv

\* A new queue is one that nobody asked about yet.
LEMMA CreateInv ==
    ASSUME QueueInv, NEW q \in Queues, QueueCreate(q)
    PROVE  QueueInv'
<1> USE DEF QueueCreate
<1>1. QueueTypeOK'
  BY DEF QueueInv, QueueTypeOK, Markers
<1>2. \A r, key \in Queues :
          specific'[r][key] = IF r = q /\ key = q THEN q ELSE specific[r][key]
  BY DEF QueueInv, QueueTypeOK
<1>3. OwnKeys'
  BY <1>2 DEF QueueInv, OwnKeys
<1>4. \A t \in Callers : asks[t].at \in {"marks", "compares"} =>
          asks[t].queue \in Queues /\ asks[t].queue # q
  BY DEF QueueInv, QueueTypeOK, MarksOnce, KnowsMarker
<1>5. MarksOnce' /\ KnowsMarker'
  BY <1>2, <1>4 DEF QueueInv, MarksOnce, KnowsMarker
<1>6. AnswersAboutQueuesAreTrue'
  BY DEF QueueInv, AnswersAboutQueuesAreTrue, CurrentChain
<1> QED BY <1>1, <1>3, <1>5, <1>6 DEF QueueInv

\* A step of a thread that asks changes its question only.
LEMMA AsksInv ==
    ASSUME QueueInv, NEW t \in Callers, NEW question \in {NoQuestion} \cup Questions,
           asks' = [asks EXCEPT ![t] = question], UNCHANGED << created, specific, blocks >>,
           question.at = "marks" =>
               /\ question.queue \in created
               /\ specific[question.queue][question.queue] \in {Null, "0x1"},
           question.at = "compares" =>
               /\ question.queue \in created
               /\ question.marker = specific[question.queue][question.queue]
               /\ question.marker # Null,
           question.at = "on" => question.queue \in ToSet(CurrentChain(t)),
           question.at \in {"off", "waits"} => question.queue \notin ToSet(CurrentChain(t))
    PROVE  QueueInv'
<1>1. QueueTypeOK'
  BY DEF QueueInv, QueueTypeOK
<1>2. asks'[t] = question /\ \A u \in Callers \ {t} : asks'[u] = asks[u]
  BY DEF QueueInv, QueueTypeOK
<1>3. OwnKeys'
  BY DEF QueueInv, OwnKeys
<1>4. MarksOnce'
  BY <1>2 DEF QueueInv, MarksOnce
<1>5. KnowsMarker'
  BY <1>2 DEF QueueInv, KnowsMarker
<1>6. \A u \in Callers : CurrentChain(u)' = CurrentChain(u)
  BY DEF CurrentChain
<1>7. AnswersAboutQueuesAreTrue'
  <2> SUFFICES ASSUME NEW u \in Callers
               PROVE  LET isOn == asks'[u].queue \in ToSet(CurrentChain(u))
                      IN /\ asks'[u].at \in {"on", "off"} => (asks'[u].at = "on" <=> isOn)
                         /\ asks'[u].at = "waits" => ~isOn
    BY <1>6 DEF AnswersAboutQueuesAreTrue
  <2>1. CASE u = t
    BY <2>1, <1>2
  <2>2. CASE u # t
    BY <2>2, <1>2 DEF QueueInv, AnswersAboutQueuesAreTrue
  <2> QED BY <2>1, <2>2
<1> QED BY <1>1, <1>3, <1>4, <1>5, <1>7 DEF QueueInv

\* A thread reads the marker of a queue.
LEMMA ReadsInv ==
    ASSUME QueueInv, NEW t \in Callers, NEW q \in Queues, ReadsMarker(t, q)
    PROVE  QueueInv'
<1> DEFINE marker == specific[q][q]
           question == [at |-> IF marker = Null THEN "marks" ELSE "compares",
                        queue |-> q, marker |-> marker]
<1>1. /\ asks' = [asks EXCEPT ![t] = question] /\ q \in created
      /\ UNCHANGED << created, specific, blocks >>
  BY DEF ReadsMarker, QueueGetSpecific
<1>2. question \in Questions
  BY DEF QueueInv, QueueTypeOK, Questions
<1> QED
  BY <1>1, <1>2, AsksInv

\* A thread marks a queue, for whoever compares as well.
LEMMA MarksInv ==
    ASSUME QueueInv, NEW t \in Callers, Marks(t)
    PROVE  QueueInv'
<1> DEFINE q == asks[t].queue
<1> USE DEF Marks, MarksWith
<1>1. asks[t] \in Questions /\ q \in Queues /\ q \in created /\ specific[q][q] \in {Null, "0x1"}
  BY DEF QueueInv, QueueTypeOK, NoQuestion, Questions, MarksOnce
<1>2. \A r, key \in Queues :
          specific'[r][key] = IF r = q /\ key = q THEN "0x1" ELSE specific[r][key]
  BY <1>1 DEF QueueInv, QueueTypeOK
<1>3. /\ asks'[t] \in Questions /\ asks'[t].at = "compares" /\ asks'[t].queue = q
      /\ asks'[t].marker = "0x1"
      /\ \A u \in Callers \ {t} : asks'[u] = asks[u]
      /\ asks' \in [Callers -> {NoQuestion} \cup Questions]
  BY <1>1 DEF QueueInv, QueueTypeOK, Questions, Markers
<1>4. QueueTypeOK'
  BY <1>1, <1>3 DEF QueueInv, QueueTypeOK, Markers
<1>5. OwnKeys'
  BY <1>2 DEF QueueInv, OwnKeys
<1>6. \A u \in Callers : asks[u].at \in {"marks", "compares"} => asks[u].queue \in Queues
  BY DEF QueueInv, QueueTypeOK, MarksOnce, KnowsMarker
<1>7. MarksOnce'
  BY <1>2, <1>3, <1>6 DEF QueueInv, MarksOnce
<1>8. KnowsMarker'
  <2> SUFFICES ASSUME NEW u \in Callers, asks'[u].at = "compares"
               PROVE  /\ asks'[u].queue \in created
                      /\ asks'[u].marker = specific'[asks'[u].queue][asks'[u].queue]
                      /\ asks'[u].marker # Null
    BY DEF KnowsMarker
  <2>1. CASE u = t
    BY <2>1, <1>1, <1>2, <1>3, NullMarksNothing
  <2>2. CASE u # t
    BY <2>2, <1>1, <1>2, <1>3, <1>6 DEF QueueInv, KnowsMarker
  <2> QED BY <2>1, <2>2
<1>9. AnswersAboutQueuesAreTrue'
  BY <1>3 DEF QueueInv, AnswersAboutQueuesAreTrue, CurrentChain
<1> QED BY <1>4, <1>5, <1>7, <1>8, <1>9 DEF QueueInv

\* A thread compares: the answer is right because it knows the queue's marker.
LEMMA ComparesInv ==
    ASSUME QueueInv, NEW t \in Callers, Compares(t)
    PROVE  QueueInv'
<1> DEFINE q == asks[t].queue
           reply == IF asks[t].marker = GetSpecific(t, q) THEN "on" ELSE "off"
           question == [asks[t] EXCEPT !.at = reply]
<1>1. /\ asks[t] \in Questions /\ q \in Queues
      /\ asks[t].marker = specific[q][q] /\ asks[t].marker # Null
  BY DEF Compares, QueueInv, QueueTypeOK, NoQuestion, Questions, KnowsMarker
<1>2. reply = "on" <=> q \in ToSet(CurrentChain(t))
  BY <1>1, FindsMarkerOfChain DEF QueueInv
<1>3. question \in Questions /\ question.at = reply /\ question.queue = q
  BY <1>1 DEF Questions
<1>4. asks' = [asks EXCEPT ![t] = question] /\ UNCHANGED << created, specific, blocks >>
  BY DEF Compares, QueueInv, QueueTypeOK
<1> HIDE DEF question
<1> QED
  BY <1>2, <1>3, <1>4, AsksInv

\* An assertion ends the process or lets the thread go on, perhaps to dispatch_sync.
LEMMA AssertsInv ==
    ASSUME QueueInv, NEW t \in Callers,
           Asserts(t, "on") \/ Asserts(t, "off") \/ SyncAssertOff(t)
    PROVE  QueueInv'
<1>1. asks[t].at \in {"on", "off"} /\ UNCHANGED << created, specific, blocks >>
  BY DEF Asserts, SyncAssertOff
<1>2. CASE asks' = asks
  BY <1>1, <1>2 DEF QueueInv, QueueTypeOK, OwnKeys, MarksOnce, KnowsMarker,
                    AnswersAboutQueuesAreTrue, CurrentChain
<1>3. CASE asks' = [asks EXCEPT ![t] = NoQuestion]
  BY <1>1, <1>3, AsksInv DEF NoQuestion
<1>4. CASE asks[t].at = "off" /\ asks' = [asks EXCEPT ![t].at = "waits"]
  <2> DEFINE question == [asks[t] EXCEPT !.at = "waits"]
  <2>1. asks[t] \in Questions
    BY <1>1 DEF QueueInv, QueueTypeOK, NoQuestion
  <2>2. question \in Questions /\ question.at = "waits" /\ question.queue = asks[t].queue
    BY <2>1 DEF Questions
  <2>3. asks' = [asks EXCEPT ![t] = question]
    BY <1>4 DEF QueueInv, QueueTypeOK
  <2>4. asks[t].queue \notin ToSet(CurrentChain(t))
    BY <1>4 DEF QueueInv, AnswersAboutQueuesAreTrue
  <2> HIDE DEF question
  <2> QED
    BY <1>1, <2>2, <2>3, <2>4, AsksInv
<1> QED
  BY <1>2, <1>3, <1>4 DEF Asserts, SyncAssertOff

\* Every step keeps the invariant.
LEMMA QueueStep == QueueInv /\ [NextQueues]_queueVars => QueueInv'
<1> SUFFICES ASSUME QueueInv, [NextQueues]_queueVars PROVE QueueInv'
  OBVIOUS
<1>1. CASE UNCHANGED queueVars
  BY <1>1 DEF queueVars, QueueInv, QueueTypeOK, OwnKeys, MarksOnce, KnowsMarker,
              AnswersAboutQueuesAreTrue, CurrentChain
<1>2. ASSUME NEW q \in Queues, QueueCreate(q) PROVE QueueInv'
  BY <1>2, CreateInv
<1>3. ASSUME NEW t \in Callers, BlockReturns(t) PROVE QueueInv'
  <2>1. Last(blocks[t]) \in Queues
    <3>1. blocks[t] \in Seq(Queues) /\ blocks[t] # << >>
      BY <1>3 DEF BlockReturns, QueueInv, QueueTypeOK
    <3> QED BY <3>1 DEF Last
  <2> QED BY <1>3, <2>1, BlockInv
<1>4. ASSUME NEW t \in Callers, NEW q \in Queues, BlockBegins(t, q) PROVE QueueInv'
  BY <1>4, BlockInv
<1>5. ASSUME NEW t \in Callers, SyncEnters(t) PROVE QueueInv'
  BY <1>5, SyncInv
<1>6. ASSUME NEW t \in Callers, NEW q \in Queues, ReadsMarker(t, q) PROVE QueueInv'
  BY <1>6, ReadsInv
<1>7. ASSUME NEW t \in Callers, Marks(t) PROVE QueueInv'
  BY <1>7, MarksInv
<1>8. ASSUME NEW t \in Callers, Compares(t) PROVE QueueInv'
  BY <1>8, ComparesInv
<1>9. ASSUME NEW t \in Callers, Asserts(t, "on") \/ Asserts(t, "off") \/ SyncAssertOff(t)
      PROVE  QueueInv'
  BY <1>9, AssertsInv
<1> QED
  BY <1>1, <1>2, <1>3, <1>4, <1>5, <1>6, <1>7, <1>8, <1>9 DEF NextQueues

\* A thread is told the truth about the queue it runs on (BRUDispatchUtils.h:43-60),
\* whatever queues there are, however they target each other and whoever marks them.
THEOREM QueueAnswersAreTrue == SpecQueues => []AnswersAboutQueuesAreTrue
<1>1. QueueInv => AnswersAboutQueuesAreTrue
  BY DEF QueueInv
<1> QED
  BY <1>1, InitQueueInv, QueueStep, PTL DEF SpecQueues

---------------------------------------------------------------------------
(* TaskDescriptors                                                         *)

\* A set of numbers has a least one.
LEMMA LeastNumber ==
    ASSUME NEW T, T \subseteq Nat, T # {}
    PROVE  \E n \in T : \A m \in T : n <= m
<1> DEFINE R == { x \in Nat \X Nat : x[1] < x[2] }
<1>1. IsWellFoundedOn(R, Nat)
  <2>1. R = OpToRel(<, Nat)
    BY DEF OpToRel
  <2> QED BY <2>1, NatLessThanWellFounded
<1>2. \A m, n \in Nat : m < n => << m, n >> \in R
  OBVIOUS
<1> HIDE DEF R
<1>3. PICK n \in T : \A m \in T : ~(<< m, n >> \in R)
  BY <1>1, WFMin
<1>4. \A m \in T : ~(m < n)
  BY <1>2, <1>3
<1> QED BY <1>4

LowerFree(free, d) == { e \in free : e < d }

\* Enough descriptors are free, and one of them is the second: pipe() can return it.
LEMMA PipeHasWriteEnd ==
    ASSUME NEW open \in SUBSET ClientDescriptors
    PROVE  \E d \in Descriptors \ open : Cardinality(LowerFree(Descriptors \ open, d)) = 1
<1> DEFINE free == Descriptors \ open
<1>0. Descriptors \subseteq Nat /\ IsFiniteSet(Descriptors) /\ Cardinality(Descriptors) = dtablesize
  <2>1. Cardinality(ClientDescriptors) \in Nat
    BY DescriptorAssumption, FS_CardinalityType
  <2>2. 0 \in Int /\ dtablesize - 1 \in Int /\ ~(0 > dtablesize - 1) /\ dtablesize - 1 - 0 + 1 = dtablesize
    BY <2>1, DescriptorAssumption
  <2>3. IsFiniteSet(0 .. dtablesize - 1) /\ Cardinality(0 .. dtablesize - 1) = dtablesize
    BY <2>2, FS_Interval
  <2> QED BY <2>3 DEF Descriptors
<1>1. IsFiniteSet(free) /\ Cardinality(free) > 1
  <2>1. IsFiniteSet(open) /\ Cardinality(open) <= Cardinality(ClientDescriptors)
        /\ Cardinality(open) \in Nat /\ Cardinality(ClientDescriptors) \in Nat
    BY FS_Subset, FS_CardinalityType, DescriptorAssumption
  <2>2. Descriptors \cap open = open
    BY DescriptorAssumption
  <2>3. IsFiniteSet(free) /\ Cardinality(free) = dtablesize - Cardinality(open)
    BY ZenonT(30), <1>0, <2>1, <2>2, FS_Difference
  <2> QED BY <2>1, <2>3, DescriptorAssumption
<1> HIDE DEF free
<1>2. free \subseteq Nat
  BY <1>0 DEF free
<1>3. PICK a \in free : \A e \in free : a <= e
  <2>1. free # {}
    BY <1>1, FS_EmptySet
  <2> QED BY <1>2, <2>1, LeastNumber
<1>4. PICK b \in free \ {a} : \A e \in free \ {a} : b <= e
  <2>1. Cardinality(free \ {a}) = Cardinality(free) - 1 /\ IsFiniteSet(free \ {a})
    BY <1>1, <1>3, FS_RemoveElement
  <2>2. free \ {a} # {}
    BY <1>1, <2>1, FS_EmptySet, FS_CardinalityType
  <2> QED BY <1>2, <2>2, LeastNumber
<1>5. LowerFree(free, b) = {a}
  <2>1. a < b
    BY <1>2, <1>3, <1>4
  <2>2. \A e \in free : e < b => e = a
    BY <1>2, <1>4
  <2> QED BY <1>3, <2>1, <2>2 DEF LowerFree
<1> QED BY <1>4, <1>5, FS_Singleton DEF free

\* What a descriptor is open on is never mistaken for something else.
LEMMA FilesDiffer ==
    /\ \A d \in Descriptors : File(d) # ChildToParent /\ File(d) # OtherEnd /\ File(d) # Closed
    /\ ChildToParent # OtherEnd /\ ChildToParent # Closed
BY DEF File, ChildToParent, OtherEnd, Closed

\* What a new child has open, before anything is redirected.
Inherited(d) ==
    IF d \in before THEN File(d) ELSE IF d = errorPipe THEN ChildToParent ELSE Closed

\* What the parent has before it returns: its files, and perhaps ends of the pipes.
ParentKeepsFiles ==
    /\ DOMAIN parentTable = Descriptors
    /\ \A d \in Descriptors :
           IF d \in before THEN parentTable[d] = File(d)
           ELSE parentTable[d] \in {Closed, ChildToParent, OtherEnd}

Forked == stage # "idle"

LaunchTypeOK ==
    /\ stage \in {"idle", "redirect", "close", "exec", "executed", "refused", "runs", "gaveUp"}
    /\ DOMAIN childTable = Descriptors
    /\ redirected \in 0 .. STDERR_FILENO + 1
    /\ stage = "idle" => redirected = 0
    /\ stage \notin {"idle", "redirect"} => redirected = STDERR_FILENO + 1
    /\ Forked =>
           /\ before \subseteq Descriptors
           /\ errorPipe \in Descriptors \ before
           /\ fds \in [Streams -> before \cup {NoDescriptor}]

\* The stream's descriptor is not what it was inherited as.
Replaced(s) == s < redirected /\ fds[s] \notin {NoDescriptor, s}

\* A stream that was redirected has what was meant for it; the others are as inherited.
StreamsArrive ==
    \A s \in Streams :
        /\ s < redirected /\ fds[s] # NoDescriptor =>
               Overwritten(s) \/ childTable[s] = File(fds[s])
        /\ ~Replaced(s) =>
               childTable[s] = IF stage \in {"executed", "runs"} /\ s = errorPipe THEN Closed
                               ELSE Inherited(s)

\* Nothing but the error pipe goes beyond the closing of what is not a stream.
OthersClose ==
    \A d \in Descriptors \ Streams :
        childTable[d] = IF stage \in {"redirect", "close"} THEN Inherited(d)
                        ELSE IF d = errorPipe /\ stage \in {"exec", "refused", "gaveUp"}
                        THEN ChildToParent ELSE Closed

\* The error pipe closes on exec unless a stream has taken its place.
ErrorPipeCloses ==
    closesOnExec = { d \in {errorPipe} : ~(d \in Streams /\ Replaced(d)) }

DescriptorInv ==
    /\ LaunchTypeOK
    /\ Forked => StreamsArrive /\ OthersClose /\ ErrorPipeCloses
    /\ stage \notin {"runs", "gaveUp"} => ParentKeepsFiles
    /\ DescriptorsArrive

\* The standard streams are descriptors.
LEMMA StreamsAreDescriptors ==
    /\ Streams = {0, 1, 2} /\ Streams \subseteq Descriptors /\ NoDescriptor \notin Descriptors
    /\ \A d \in Descriptors : d \in Int /\ (d \in Streams <=> ~(d > STDERR_FILENO))
<1>1. Cardinality(ClientDescriptors) \in Nat
  BY DescriptorAssumption, FS_CardinalityType
<1>2. dtablesize > 3 /\ dtablesize \in Nat
  BY <1>1, DescriptorAssumption
<1> QED BY <1>2 DEF Streams, STDERR_FILENO, NoDescriptor, Descriptors

\* After fork everything is as it was before it.
LEMMA LaunchArrives ==
    ASSUME DescriptorInv, NEW open \in SUBSET ClientDescriptors,
           NEW given \in [Streams -> open \cup {NoDescriptor}], Launch(open, given)
    PROVE  DescriptorInv'
<1> DEFINE free == Descriptors \ open
           ends == { d \in free : Cardinality({ e \in free : e < d }) < 4 }
           W == CHOOSE d \in free : Cardinality({ e \in free : e < d }) = 1
           table == [d \in Descriptors |->
                        IF d \in open THEN File(d)
                        ELSE IF d = W THEN ChildToParent
                        ELSE IF d \in ends THEN OtherEnd ELSE Closed]
<1>1. W \in free /\ Cardinality({ e \in free : e < W }) = 1
  <2>1. \E d \in free : Cardinality({ e \in free : e < d }) = 1
    BY PipeHasWriteEnd DEF LowerFree
  <2> QED BY <2>1
<1>2. /\ stage' = "redirect" /\ stage = "idle" /\ fds' = given /\ before' = open /\ errorPipe' = W
      /\ parentTable' = table /\ childTable' = CloseIn(table, ends \ {W})
      /\ closesOnExec' = {W} /\ redirected' = redirected
  BY DEF Launch
<1>3. W \in ends /\ ends \subseteq free
  BY <1>1
<1>4. open \subseteq Descriptors
  BY DescriptorAssumption
<1> HIDE DEF ends, W
<1>5. \A d \in Descriptors :
          /\ table[d] = IF d \in open THEN File(d)
                        ELSE IF d = W THEN ChildToParent
                        ELSE IF d \in ends THEN OtherEnd ELSE Closed
          /\ CloseIn(table, ends \ {W})[d] =
                 IF d \in open THEN File(d) ELSE IF d = W THEN ChildToParent ELSE Closed
  BY <1>1, <1>3 DEF CloseIn
<1>6. DOMAIN table = Descriptors /\ DOMAIN CloseIn(table, ends \ {W}) = Descriptors
  BY DEF CloseIn
<1> HIDE DEF table
<1>7. redirected = 0
  BY <1>2 DEF DescriptorInv, LaunchTypeOK
<1>8. LaunchTypeOK'
  BY <1>1, <1>2, <1>4, <1>6, <1>7 DEF LaunchTypeOK, Forked, STDERR_FILENO
<1>9. \A d \in Descriptors : childTable'[d] = Inherited(d)'
  BY <1>2, <1>5 DEF Inherited
<1>10. StreamsArrive' /\ OthersClose' /\ ErrorPipeCloses'
  BY <1>2, <1>7, <1>9, StreamsAreDescriptors DEF StreamsArrive, OthersClose, ErrorPipeCloses, Replaced
<1>11. ParentKeepsFiles'
  BY <1>2, <1>5, <1>6 DEF ParentKeepsFiles
<1>12. DescriptorsArrive'
  BY <1>2 DEF DescriptorsArrive
<1> QED BY <1>8, <1>10, <1>11, <1>12 DEF DescriptorInv

\* A stream gets what was meant for it, unless an earlier one took its place.
LEMMA RedirectArrives ==
    ASSUME DescriptorInv, NEW s \in Streams, Redirect(s)
    PROVE  DescriptorInv'
<1>1. /\ stage = "redirect" /\ redirected = s /\ redirected' = s + 1
      /\ stage' = IF s = STDERR_FILENO THEN "close" ELSE stage
      /\ UNCHANGED << fds, before, parentTable, errorPipe >>
  BY DEF Redirect
<1>2. /\ before \subseteq Descriptors /\ errorPipe \in Descriptors \ before
      /\ fds \in [Streams -> before \cup {NoDescriptor}]
      /\ DOMAIN childTable = Descriptors
  BY <1>1 DEF DescriptorInv, LaunchTypeOK, Forked
<1>3. fds[s] = NoDescriptor \/ fds[s] \in before
  BY <1>2
<1>4. /\ DOMAIN childTable' = Descriptors
      /\ \A d \in Descriptors :
             childTable'[d] = IF d = s /\ fds[s] # NoDescriptor THEN childTable[fds[s]]
                              ELSE childTable[d]
  BY <1>2, <1>3, StreamsAreDescriptors DEF Redirect, Dup2
<1>5. LaunchTypeOK'
  BY <1>1, <1>2, <1>4, StreamsAreDescriptors DEF LaunchTypeOK, Forked, STDERR_FILENO
<1>6. /\ StreamsArrive /\ OthersClose /\ ErrorPipeCloses
  BY <1>1 DEF DescriptorInv, Forked
<1>7. \A r \in Streams : r < redirected' <=> r < redirected \/ r = s
  BY <1>1, StreamsAreDescriptors
<1>8. ASSUME fds[s] # NoDescriptor
      PROVE  Overwritten(s) \/ childTable[fds[s]] = File(fds[s])
  <2>1. fds[s] \in before /\ fds[s] \in Descriptors
    BY <1>2, <1>3, <1>8
  <2>2. CASE fds[s] \notin Streams
    BY <1>1, <1>6, <2>1, <2>2 DEF OthersClose, Inherited
  <2>3. CASE fds[s] \in Streams /\ ~(fds[s] < s)
    BY <1>1, <1>6, <2>1, <2>3 DEF StreamsArrive, Replaced, Inherited
  <2>4. CASE fds[s] \in Streams /\ fds[s] < s
    <3>1. CASE fds[fds[s]] \in {NoDescriptor, fds[s]}
      BY <1>1, <1>6, <2>1, <2>4, <3>1 DEF StreamsArrive, Replaced, Inherited
    <3>2. CASE fds[fds[s]] \notin {NoDescriptor, fds[s]}
      BY <2>4, <3>2 DEF Overwritten
    <3> QED BY <3>1, <3>2
  <2> QED BY <2>2, <2>3, <2>4
<1>9. StreamsArrive'
  <2> SUFFICES ASSUME NEW r \in Streams
               PROVE  /\ r < redirected' /\ fds[r] # NoDescriptor =>
                             Overwritten(r) \/ childTable'[r] = File(fds[r])
                      /\ ~(r < redirected' /\ fds[r] \notin {NoDescriptor, r}) =>
                             childTable'[r] = Inherited(r)
    BY <1>1 DEF StreamsArrive, Replaced, Overwritten, Inherited
  <2>1. CASE r = s
    <3>1. ~(s < redirected) /\ s < redirected'
      BY <1>1, <1>7, StreamsAreDescriptors
    <3>2. childTable[s] = Inherited(s)
      BY <1>1, <1>6, <3>1 DEF StreamsArrive, Replaced
    <3>3. childTable'[s] = IF fds[s] # NoDescriptor THEN childTable[fds[s]] ELSE childTable[s]
      BY <1>4, StreamsAreDescriptors
    <3> QED BY <1>8, <2>1, <3>1, <3>2, <3>3
  <2>2. CASE r # s
    <3>1. r < redirected' <=> r < redirected
      BY <1>7, <2>2
    <3>2. childTable'[r] = childTable[r]
      BY <1>4, <2>2, StreamsAreDescriptors
    <3> QED BY <1>1, <1>6, <3>1, <3>2 DEF StreamsArrive, Replaced
  <2> QED BY <2>1, <2>2
<1>10. OthersClose'
  BY <1>1, <1>4, <1>6 DEF OthersClose, Inherited
<1>11. ErrorPipeCloses'
  <2>1. closesOnExec' = IF fds[s] \in {NoDescriptor, s} THEN closesOnExec ELSE closesOnExec \ {s}
    BY DEF Redirect
  <2>2. \A d \in Streams : Replaced(d)' <=> Replaced(d) \/ (d = s /\ fds[s] \notin {NoDescriptor, s})
    BY <1>1, <1>7 DEF Replaced
  <2> QED BY <1>1, <1>6, <2>1, <2>2 DEF ErrorPipeCloses
<1>12. ParentKeepsFiles'
  BY <1>1 DEF DescriptorInv, ParentKeepsFiles
<1>13. DescriptorsArrive'
  BY <1>1 DEF DescriptorsArrive
<1> QED BY <1>5, <1>9, <1>10, <1>11, <1>12, <1>13 DEF DescriptorInv

\* Closing leaves the streams and the error pipe.
LEMMA ChildClosesArrives ==
    ASSUME DescriptorInv, CloseOthers \/ Exec \/ ExecFails
    PROVE  DescriptorInv'
<1>1. /\ stage \in {"close", "exec"} /\ stage' \in {"exec", "executed", "refused"}
      /\ UNCHANGED << fds, before, parentTable, errorPipe, closesOnExec, redirected >>
  BY DEF CloseOthers, Exec, ExecFails
<1>2. /\ before \subseteq Descriptors /\ errorPipe \in Descriptors \ before
      /\ fds \in [Streams -> before \cup {NoDescriptor}]
      /\ DOMAIN childTable = Descriptors /\ redirected = STDERR_FILENO + 1
  BY <1>1 DEF DescriptorInv, LaunchTypeOK, Forked
<1>3. LaunchTypeOK'
  <2>1. DOMAIN childTable' = Descriptors
    BY <1>2 DEF CloseOthers, Exec, ExecFails, CloseIn
  <2> QED BY <1>1, <1>2, <2>1 DEF DescriptorInv, LaunchTypeOK, Forked
<1>4. /\ StreamsArrive /\ OthersClose /\ ErrorPipeCloses
  BY <1>1 DEF DescriptorInv, Forked
<1>5. CASE CloseOthers
  <2> DEFINE originals == { fds[s] : s \in { r \in Streams : fds[r] > STDERR_FILENO } }
             others == { d \in Descriptors : d > STDERR_FILENO /\ d # errorPipe }
  <2>1. stage = "close" /\ stage' = "exec" /\ childTable' = CloseIn(childTable, originals \cup others)
    BY <1>5 DEF CloseOthers
  <2>2. \A d \in Descriptors : d \in originals \cup others <=> d \notin Streams /\ d # errorPipe
    <3>1. \A d \in Descriptors : d \in others <=> d \notin Streams /\ d # errorPipe
      BY StreamsAreDescriptors
    <3>2. \A d \in originals : d \in others
      <4> SUFFICES ASSUME NEW r \in Streams, fds[r] > STDERR_FILENO PROVE fds[r] \in others
        OBVIOUS
      <4>1. fds[r] \in before
        BY <1>2 DEF NoDescriptor, STDERR_FILENO
      <4> QED BY <1>2, <4>1
    <3> QED BY <3>1, <3>2
  <2> HIDE DEF originals, others
  <2>3. \A d \in Descriptors :
            childTable'[d] = IF d \notin Streams /\ d # errorPipe THEN Closed ELSE childTable[d]
    BY <2>1, <2>2 DEF CloseIn
  <2>4. StreamsArrive'
    BY <1>1, <1>4, <2>1, <2>3, StreamsAreDescriptors
       DEF StreamsArrive, Replaced, Overwritten, Inherited
  <2>5. OthersClose'
    BY <1>1, <1>2, <1>4, <2>1, <2>3 DEF OthersClose, Inherited
  <2> QED BY <2>4, <2>5, <1>1, <1>3, <1>4, <2>1
          DEF DescriptorInv, ErrorPipeCloses, Replaced, ParentKeepsFiles, DescriptorsArrive
<1>6. CASE Exec
  <2>1. stage = "exec" /\ stage' = "executed" /\ childTable' = CloseIn(childTable, closesOnExec)
    BY <1>6 DEF Exec
  <2>2. \A d \in Descriptors :
            childTable'[d] = IF d = errorPipe /\ ~(d \in Streams /\ Replaced(d)) THEN Closed
                             ELSE childTable[d]
    BY <1>4, <2>1 DEF CloseIn, ErrorPipeCloses
  <2>3. StreamsArrive'
    <3> SUFFICES ASSUME NEW s \in Streams
                 PROVE  /\ s < redirected /\ fds[s] # NoDescriptor =>
                               Overwritten(s) \/ childTable'[s] = File(fds[s])
                        /\ ~Replaced(s) => childTable'[s] = IF s = errorPipe THEN Closed ELSE Inherited(s)
      BY <1>1, <2>1 DEF StreamsArrive, Replaced, Overwritten, Inherited
    <3>1. s \in Descriptors
      BY StreamsAreDescriptors
    <3>2. s = errorPipe /\ ~Replaced(s) /\ s < redirected => fds[s] = NoDescriptor
      BY <1>2 DEF Replaced
    <3> QED BY <1>4, <2>1, <2>2, <3>1, <3>2 DEF StreamsArrive
  <2>4. OthersClose'
    BY <1>1, <1>4, <2>1, <2>2 DEF OthersClose
  <2> QED BY <2>3, <2>4, <1>1, <1>3, <1>4, <2>1
          DEF DescriptorInv, ErrorPipeCloses, Replaced, ParentKeepsFiles, DescriptorsArrive
<1>7. CASE ExecFails
  <2>1. stage = "exec" /\ stage' = "refused" /\ childTable' = childTable
    BY <1>7 DEF ExecFails
  <2>2. StreamsArrive'
    BY <1>1, <1>4, <2>1 DEF StreamsArrive, Replaced, Overwritten, Inherited
  <2>3. OthersClose'
    BY <1>1, <1>4, <2>1 DEF OthersClose
  <2> QED BY <2>2, <2>3, <1>1, <1>3, <1>4, <2>1
          DEF DescriptorInv, ErrorPipeCloses, Replaced, ParentKeepsFiles, DescriptorsArrive
<1> QED BY <1>5, <1>6, <1>7

\* What the parent finds in the error pipe is right, and it closes what is not its own.
LEMMA ParentReturnsArrives ==
    ASSUME DescriptorInv, ParentReturns
    PROVE  DescriptorInv'
<1> DEFINE tells == ~(stage = "refused" /\ childTable[errorPipe] = ChildToParent)
           streams == { fds[s] : s \in Streams }
           ends == { d \in Descriptors : parentTable[d] \in {ChildToParent, OtherEnd} }
           closed == ends \cup (IF tells THEN { d \in streams \cap NSPipes : d > STDERR_FILENO }
                                ELSE {})
<1>1. /\ stage \in {"executed", "refused"}
      /\ stage' = IF stage = "executed" THEN "runs" ELSE "gaveUp"
      /\ launched' = tells /\ parentTable' = CloseIn(parentTable, closed)
      /\ UNCHANGED << fds, before, childTable, errorPipe, closesOnExec, redirected >>
  BY DEF ParentReturns
<1>2. /\ before \subseteq Descriptors /\ errorPipe \in Descriptors \ before
      /\ fds \in [Streams -> before \cup {NoDescriptor}]
      /\ DOMAIN childTable = Descriptors /\ redirected = STDERR_FILENO + 1
  BY <1>1 DEF DescriptorInv, LaunchTypeOK, Forked
<1>3. LaunchTypeOK'
  BY <1>1, <1>2 DEF DescriptorInv, LaunchTypeOK, Forked
<1>4. /\ StreamsArrive /\ OthersClose /\ ErrorPipeCloses /\ ParentKeepsFiles
  BY <1>1 DEF DescriptorInv, Forked
<1>5. StreamsArrive' /\ OthersClose' /\ ErrorPipeCloses'
  <2>1. StreamsArrive'
    BY <1>1, <1>4 DEF StreamsArrive, Replaced, Overwritten, Inherited
  <2>2. OthersClose'
    BY <1>1, <1>4 DEF OthersClose
  <2> QED BY <2>1, <2>2, <1>1, <1>4 DEF ErrorPipeCloses, Replaced
<1>6. ASSUME stage = "executed", NEW d \in Descriptors
      PROVE  IF d > STDERR_FILENO THEN childTable[d] = Closed
             ELSE IF fds[d] # NoDescriptor
             THEN Overwritten(d) \/ childTable[d] = File(fds[d])
             ELSE childTable[d] = IF d \in before THEN File(d) ELSE Closed
  <2>1. CASE d \notin Streams
    <3>1. d > STDERR_FILENO
      BY <2>1, StreamsAreDescriptors
    <3> QED BY <1>4, <1>6, <2>1, <3>1 DEF OthersClose
  <2>2. CASE d \in Streams
    <3>1. ~(d > STDERR_FILENO) /\ d < redirected
      BY <1>2, <2>2, StreamsAreDescriptors DEF STDERR_FILENO
    <3>2. fds[d] = NoDescriptor => ~Replaced(d)
      BY DEF Replaced
    <3> QED BY <1>2, <1>4, <1>6, <2>2, <3>1, <3>2 DEF StreamsArrive, Inherited
  <2> QED BY <2>1, <2>2
<1>7. ASSUME NEW d \in Descriptors
      PROVE  parentTable'[d] = IF d \in before /\ ~(tells /\ d \in (streams \cap NSPipes) \ Streams)
                               THEN File(d) ELSE Closed
  <2>1. parentTable'[d] = IF d \in closed THEN Closed ELSE parentTable[d]
    BY <1>1, <1>7 DEF CloseIn
  <2>2. d \in ends <=> parentTable[d] \in {ChildToParent, OtherEnd}
    BY <1>7
  <2>3. d \in closed <=> d \in ends \/ (tells /\ d \in (streams \cap NSPipes) \ Streams)
    BY <1>7, StreamsAreDescriptors
  <2> HIDE DEF closed, ends, tells, streams
  <2> QED BY <1>4, <1>7, <2>1, <2>2, <2>3, FilesDiffer DEF ParentKeepsFiles
<1>8. ASSUME Streams \subseteq before, stage = "refused" PROVE ~tells
  <2>1. errorPipe \in Descriptors \ Streams
    BY <1>2, <1>8
  <2> QED BY <1>4, <1>8, <2>1 DEF OthersClose
<1>9. DescriptorsArrive'
  <2>1. stage' = "runs" => stage = "executed"
    BY <1>1
  <2>2. stage' = "gaveUp" => stage = "refused"
    BY <1>1
  <2>3. stage = "executed" => tells
    OBVIOUS
  <2> HIDE DEF tells, closed, ends
  <2>4. (stage' = "runs" =>
             \A d \in Descriptors :
                 IF d > STDERR_FILENO THEN childTable'[d] = Closed
                 ELSE IF fds'[d] # NoDescriptor
                 THEN Overwritten(d)' \/ childTable'[d] = File(fds'[d])
                 ELSE childTable'[d] = IF d \in before' THEN File(d) ELSE Closed)
    BY <1>1, <1>6, <2>1 DEF Overwritten
  <2>5. \A d \in Descriptors :
            parentTable'[d] =
                IF d \in before' /\ ~(launched' /\ d \in ({ fds'[s] : s \in Streams } \cap NSPipes) \ Streams)
                THEN File(d) ELSE Closed
    BY <1>1, <1>7
  <2>6. Streams \subseteq before' =>
            (stage' = "gaveUp" => ~launched') /\ (stage' = "runs" => launched')
    BY <1>1, <1>8, <2>1, <2>2, <2>3
  <2> QED BY <2>4, <2>5, <2>6 DEF DescriptorsArrive
<1> QED BY <1>1, <1>3, <1>5, <1>9 DEF DescriptorInv

\* Whatever the client gives, its files arrive as the program's streams, nothing else
\* does, and the parent keeps what is its own (BRUTask.m:162-206, 264-341).
THEOREM StreamsAreTheClients == SpecDescriptors => []DescriptorsArrive
<1>1. InitDescriptors => DescriptorInv
  <2> SUFFICES ASSUME InitDescriptors PROVE DescriptorInv
    OBVIOUS
  <2> QED BY DEF InitDescriptors, DescriptorInv, LaunchTypeOK, Forked, ParentKeepsFiles, AllClosed,
                 DescriptorsArrive, STDERR_FILENO
<1>2. DescriptorInv /\ [NextDescriptors]_descriptorVars => DescriptorInv'
  <2> SUFFICES ASSUME DescriptorInv, [NextDescriptors]_descriptorVars PROVE DescriptorInv'
    OBVIOUS
  <2>1. CASE NextDescriptors
    <3> QED BY <2>1, LaunchArrives, RedirectArrives, ChildClosesArrives, ParentReturnsArrives
            DEF NextDescriptors
  <2>2. CASE UNCHANGED descriptorVars
    <3>1. StreamsArrive' <=> StreamsArrive
      BY <2>2 DEF descriptorVars, StreamsArrive, Replaced, Overwritten, Inherited
    <3>2. DescriptorsArrive' <=> DescriptorsArrive
      BY <2>2 DEF descriptorVars, DescriptorsArrive, Overwritten
    <3>3. OthersClose' <=> OthersClose
      BY <2>2 DEF descriptorVars, OthersClose, Inherited
    <3> QED BY <2>2, <3>1, <3>2, <3>3
            DEF descriptorVars, DescriptorInv, LaunchTypeOK, Forked, ErrorPipeCloses, Replaced,
                ParentKeepsFiles
  <2> QED BY <2>1, <2>2
<1>3. DescriptorInv => DescriptorsArrive
  BY DEF DescriptorInv
<1> QED BY <1>1, <1>2, <1>3, PTL DEF SpecDescriptors
===============================================================================
