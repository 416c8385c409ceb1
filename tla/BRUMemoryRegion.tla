--------------------------- MODULE BRUMemoryRegion ---------------------------
(***************************************************************************)
(* BRUMemoryRegion (src/BromiumCoreUtils/BRUMemoryRegion.h): a base        *)
(* address and a length, and the checked way to a part of a region.        *)
(* Addresses are uintptr_t, as wide as size_t.                             *)
(***************************************************************************)
EXTENDS BRUArithmetic

BRUMemoryRegionErrorOutOfBounds == 1

\* No error behind the error pointer.
NoError == 0

BRUMemoryRegionRemainder == SIZE_MAX

BRUMemoryRegionMake(bytes, length) == [bytes |-> bytes, length |-> length]

BRUMemoryRegionNull == BRUMemoryRegionMake(0, 0)

BRUMemoryRegionIsNull(region) == region.bytes = 0 /\ region.length = 0

\* Nothing is stored when the end is not an address.
BRUMemoryRegionGetEnd(region) ==
    LET end == bru_unsigned_long_add_2(region.bytes, region.length)
    IN IF end.ok THEN end ELSE Refused

\* Mutation: the ends are compared without a look at whether they overflowed.
BRUMemoryRegionContainsRegion_Wraps(region1, region2) ==
    /\ region2.bytes >= region1.bytes
    /\ bru_unsigned_long_add_2(region2.bytes, region2.length).result
       =< bru_unsigned_long_add_2(region1.bytes, region1.length).result

BRUMemoryRegionContainsRegion(region1, region2) ==
    LET end1 == BRUMemoryRegionGetEnd(region1)
        end2 == BRUMemoryRegionGetEnd(region2)
    IN /\ region2.bytes >= region1.bytes
       /\ end1.ok /\ end2.ok
       /\ end2.result =< end1.result

\* Mutation: the remainder takes no account of the offset.
BRUMemoryRegionSubRegionWithOffset_WholeLength(region, offset, length) ==
    LET newBytes == bru_offset_pointer(region.bytes, offset)
        newLength == IF length = BRUMemoryRegionRemainder THEN region.length ELSE length
        newRegion == BRUMemoryRegionMake(newBytes.result, newLength)
    IN IF \/ offset < 0
          \/ ~newBytes.ok
          \/ ~BRUMemoryRegionContainsRegion(region, newRegion)
       THEN Refused ELSE Done(newRegion)

\* The steps that can fail, in their order; nothing is stored unless all succeed.
BRUMemoryRegionSubRegionWithOffset(region, offset, length) ==
    LET newBytes == bru_offset_pointer(region.bytes, offset)
        offsetSize == bru_ptrdiff_to_size(offset)
        takesRest == length = BRUMemoryRegionRemainder
        rest == bru_size_subtract_2(region.length, offsetSize.result)
        newRegion == BRUMemoryRegionMake(newBytes.result,
                                         IF takesRest THEN rest.result ELSE length)
    IN IF \/ offset < 0
          \/ ~newBytes.ok
          \/ ~offsetSize.ok
          \/ takesRest /\ ~rest.ok
          \/ ~BRUMemoryRegionContainsRegion(region, newRegion)
       THEN Refused ELSE Done(newRegion)

\* The same with the reason behind the caller's error pointer.
BRUMemoryRegionSubRegionWithOffsetAndError(region, offset, length) ==
    LET sub == BRUMemoryRegionSubRegionWithOffset(region, offset, length)
    IN [ok |-> sub.ok,
        result |-> sub.result,
        error |-> IF sub.ok THEN NoError ELSE BRUMemoryRegionErrorOutOfBounds]
==============================================================================
