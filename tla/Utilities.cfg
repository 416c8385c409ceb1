\* Widths of a few bits that keep the order of the real ones.
CONSTANTS
    PTRDIFF_MAX = 15
    INT32_MAX = 3
    BRU_SAFE_FLOAT_MAX = 1
    BRU_SAFE_DOUBLE_MAX = 7
    NaN = NaN
    Unwritten = Unwritten
    Parents <- MCParents
    Resources = {r1, r2, r3}
    Writers = {w1, w2, w3}
    q1 = q1
    q2 = q2
    q3 = q3
    Queues <- MCQueues
    Chain <- MCChain
    Callers = {t1, t2}
    Null = Null
    MaxDepth = 2
    dtablesize = 9
    ClientDescriptors = {0, 1, 2, 3, 4}
    NSPipes = {2, 4}
    \* Two promises, one with a serial completion queue and one with a concurrent one,
    \* and one resolve too many.
    Deferreds = {d1, d2}
    Blocks = {b1, b2}
    Values = {v1, v2}
    Serial = {d1}
    MaxResolves = 2
SPECIFICATION Spec
INVARIANTS AnswersAreExact RegionInsideParent PartsAreExact NoBlockForgotten
    CallsAreAtomic AnswersAboutQueuesAreTrue
    DescriptorsArrive CalledOnceWithFirstValue CalledInOrder
PROPERTIES RunTellsAll ImplementsPromise
CHECK_DEADLOCK FALSE
