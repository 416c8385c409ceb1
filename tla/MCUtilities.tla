------------------------------ MODULE MCUtilities ------------------------------
EXTENDS Utilities

\* Around every boundary of the address space and of its lower half: empty, short
\* and long regions, some of which reach past the last address.
MCParents ==
    {BRUMemoryRegionNull}
        \cup [bytes : {0, 5, PTRDIFF_MAX - 1, PTRDIFF_MAX, PTRDIFF_MAX + 1, SIZE_MAX - 2},
              length : {0, 1, 2, 9, PTRDIFF_MAX + 2, SIZE_MAX}]

\* The first queue targets the second, as that of a rate limiter does its client's;
\* the third stands for itself.
CONSTANTS q1, q2, q3

MCQueues == {q1, q2, q3}
MCChain == [q \in MCQueues |-> IF q = q1 THEN << q1, q2 >> ELSE << q >>]
==============================================================================
