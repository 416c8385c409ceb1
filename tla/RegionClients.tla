---------------------------- MODULE RegionClients ----------------------------
(***************************************************************************)
(* A client of BRUMemoryRegion that parses what is in a region: it begins  *)
(* with a parent region and narrows it down again and again, with offsets  *)
(* and lengths it read from somewhere and never checked.                   *)
(***************************************************************************)
EXTENDS BRUMemoryRegion

CONSTANT
    Parents     \* the regions the client begins with

ASSUME ParentsAreRegions ==
    Parents \subseteq [bytes : ValuesOf(SizeT), length : ValuesOf(SizeT)]

VARIABLES
    parent,     \* the region the client began with
    region,     \* the region it is at
    error       \* behind the error pointer after the last request, or NotAsked

regionVars == << parent, region, error >>

NotAsked == -1

InitRegions ==
    /\ parent \in Parents
    /\ region = parent
    /\ error = NotAsked

Narrow(offset, length) ==
    LET sub == BRUMemoryRegionSubRegionWithOffsetAndError(region, offset, length)
    IN /\ region' = IF sub.ok THEN sub.result ELSE region
       /\ error' = sub.error
       /\ UNCHANGED parent

NextRegions ==
    \E offset \in ValuesOf(PtrdiffT), length \in ValuesOf(SizeT) : Narrow(offset, length)

SpecRegions == InitRegions /\ [][NextRegions]_regionVars

---------------------------------------------------------------------------

Bytes(r) == r.bytes .. r.bytes + r.length - 1
EndIsAddress(r) == r.bytes + r.length \in ValuesOf(SizeT)

\* However often the client narrows the region down, with whatever numbers, it
\* never leaves the parent region: all its bytes are bytes of the parent, and none
\* wraps around the end of the address space (BRUMemoryRegion.h:137-195).
RegionInsideParent ==
    region # parent => Bytes(region) \subseteq Bytes(parent) /\ EndIsAddress(region)

\* The part a request means, and whether it is there: within the region, in the
\* lower half of the address space, and not in a region that reaches past the last
\* address.
Meant(r, offset, length) ==
    [bytes |-> r.bytes + offset,
     length |-> IF length = BRUMemoryRegionRemainder THEN r.length - offset ELSE length]

IsThere(r, part) ==
    /\ part.length >= 0
    /\ r.bytes =< part.bytes /\ part.bytes + part.length =< r.bytes + r.length
    /\ part.bytes =< PTRDIFF_MAX
    /\ EndIsAddress(r)

\* Whatever a client that has begun to ask could ask for next is answered with exactly
\* the part it means if that is there, to the last byte and for an empty rest too, and
\* refused if it is not; the null region has no part but itself
\* (BRUMemoryRegion.h:73-75, 98-195, BRUArithmetic.h:299-320).
PartsAreExact ==
    error # NotAsked =>
    \A offset \in ValuesOf(PtrdiffT), length \in ValuesOf(SizeT) :
        LET sub == BRUMemoryRegionSubRegionWithOffset(region, offset, length)
            part == Meant(region, offset, length)
        IN /\ sub.ok <=> IsThere(region, part)
           /\ sub.ok => sub.result = part
           /\ sub.ok /\ BRUMemoryRegionIsNull(region) => BRUMemoryRegionIsNull(sub.result)
==============================================================================
