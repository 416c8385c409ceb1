---------------------------- MODULE BRUArithmetic ----------------------------
(***************************************************************************)
(* BRUArithmetic (src/BromiumCoreUtils/BRUArithmetic.h): arithmetic and    *)
(* conversions of machine numbers that say whether they succeeded.         *)
(*                                                                         *)
(* A function is an operator from its arguments to its outcome: what it    *)
(* returns (ok) and what is behind its out-parameter afterwards (result).  *)
(* The widths of the types are the constants; the assumptions on them are  *)
(* the header's static assertions and two's complement.  A float or double *)
(* is NaN or a number of halves: comparing it with an integer and cutting  *)
(* off its fraction tell no more apart.  CGFloat is double and GLsizei is  *)
(* int32_t, as the header asserts.                                         *)
(***************************************************************************)
EXTENDS Integers

CONSTANTS
    PTRDIFF_MAX,            \* of ptrdiff_t, intptr_t and long
    INT32_MAX,
    BRU_SAFE_FLOAT_MAX,     \* up to here a float holds every integer
    BRU_SAFE_DOUBLE_MAX,    \* up to here a double holds every integer
    NaN,
    Unwritten               \* behind an out-parameter nothing was written to

SIZE_MAX == 2 * PTRDIFF_MAX + 1
UINT32_MAX == 2 * INT32_MAX + 1

\* A type as the range of its values.
SizeT == [least |-> 0, greatest |-> SIZE_MAX]
PtrdiffT == [least |-> -PTRDIFF_MAX - 1, greatest |-> PTRDIFF_MAX]
Int32T == [least |-> -INT32_MAX - 1, greatest |-> INT32_MAX]
UInt32T == [least |-> 0, greatest |-> UINT32_MAX]
ValuesOf(type) == type.least .. type.greatest

\* The static assertions: the mantissa of a float fits into int32_t, that of a
\* double into int64_t, and size_t is wider than int32_t; a double holds every
\* uint32_t.
ASSUME Widths ==
    /\ PTRDIFF_MAX \in Nat /\ INT32_MAX \in Nat
    /\ BRU_SAFE_FLOAT_MAX \in Nat /\ BRU_SAFE_DOUBLE_MAX \in Nat
    /\ BRU_SAFE_FLOAT_MAX < INT32_MAX
    /\ UINT32_MAX =< BRU_SAFE_DOUBLE_MAX
    /\ BRU_SAFE_DOUBLE_MAX < PTRDIFF_MAX
    /\ NaN \notin Int /\ Unwritten \notin Int

Done(value) == [ok |-> TRUE, result |-> value]
Refused == [ok |-> FALSE, result |-> Unwritten]

\* The compiler's overflow builtins: they store the exact result, wrapped to the
\* type when it does not fit, and say whether it fits.
Builtin(type, exact) ==
    IF exact \in ValuesOf(type)
    THEN Done(exact)
    ELSE [ok |-> FALSE,
          result |-> type.least
                     + ((exact - type.least) % (type.greatest - type.least + 1))]

---------------------------------------------------------------------------
(* Conversions of floating-point numbers: the set of possible outcomes.    *)

\* (type)a drops the fraction.
Truncated(halves) == IF halves < 0 THEN -((-halves) \div 2) ELSE halves \div 2

\* NaN passes both comparisons, and converting it is undefined: any value.
FloatToInteger(a, least, greatest, type) ==
    IF a = NaN THEN { Done(v) : v \in ValuesOf(type) }
    ELSE IF a < 2 * least \/ a > 2 * greatest THEN {Refused}
    ELSE {Done(Truncated(a))}

bru_double_to_uint32(a) == FloatToInteger(a, 0, UINT32_MAX, UInt32T)
bru_cgfloat_to_uint32(a) == bru_double_to_uint32(a)

bru_float_to_int32(a) ==
    FloatToInteger(a, -BRU_SAFE_FLOAT_MAX, BRU_SAFE_FLOAT_MAX, Int32T)

bru_double_to_int32(a) == FloatToInteger(a, -INT32_MAX - 1, INT32_MAX, Int32T)
bru_cgfloat_to_int32(a) == bru_double_to_int32(a)
bru_cgfloat_to_glsizei(a) == bru_double_to_int32(a)

bru_double_to_size(a) == FloatToInteger(a, 0, BRU_SAFE_DOUBLE_MAX, SizeT)
bru_cgfloat_to_size(a) == bru_double_to_size(a)

---------------------------------------------------------------------------
(* Conversions of integers.                                                *)

bru_size_to_int32(a) == IF a > INT32_MAX THEN Refused ELSE Done(a)
bru_size_to_glsizei(a) == bru_size_to_int32(a)
bru_glsizei_to_size(a) == IF a < 0 THEN Refused ELSE Done(a)
bru_ptrdiff_to_size(a) == IF a < 0 THEN Refused ELSE Done(a)

bru_size_to_ptrdiff(a) == IF a > PTRDIFF_MAX THEN Refused ELSE Done(a)

---------------------------------------------------------------------------
(* Arithmetic.                                                             *)

\* (intptr_t)address: the upper half of the address space is negative.
IntPtr(address) == IF address > PTRDIFF_MAX THEN address - SIZE_MAX - 1 ELSE address

bru_offset_pointer(base, offset) ==
    LET res == Builtin(PtrdiffT, IntPtr(base) + offset)
    IN IF ~res.ok \/ res.result < 0 THEN Refused ELSE Done(res.result)

bru_ptrdiff_add_2(a, b) == Builtin(PtrdiffT, a + b)
bru_unsigned_long_add_2(a, b) == Builtin(SizeT, a + b)
bru_size_add_2(a, b) == Builtin(SizeT, a + b)
bru_size_subtract_2(a, b) == Builtin(SizeT, a - b)

\* Mutation: the answer of the first step is not looked at.
bru_size_subtract_3_Unchecked(a, b, c) ==
    bru_size_subtract_2(bru_size_subtract_2(a, b).result, c)

bru_size_subtract_3(a, b, c) ==
    LET ab == bru_size_subtract_2(a, b)
    IN IF ~ab.ok THEN Refused ELSE bru_size_subtract_2(ab.result, c)

bru_ptrdiff_multiply_2(a, b) == Builtin(PtrdiffT, a * b)

bru_ptrdiff_multiply_3(a, b, c) ==
    LET ab == bru_ptrdiff_multiply_2(a, b)
    IN IF ~ab.ok THEN Refused ELSE bru_ptrdiff_multiply_2(ab.result, c)

bru_uint_multiply_2(a, b) == Builtin(UInt32T, a * b)

bru_uint_multiply_3(a, b, c) ==
    LET ab == bru_uint_multiply_2(a, b)
    IN IF ~ab.ok THEN Refused ELSE bru_uint_multiply_2(ab.result, c)

bru_size_multiply_2(a, b) == Builtin(SizeT, a * b)

bru_size_multiply_3(a, b, c) ==
    LET ab == bru_size_multiply_2(a, b)
    IN IF ~ab.ok THEN Refused ELSE bru_size_multiply_2(ab.result, c)
==============================================================================
