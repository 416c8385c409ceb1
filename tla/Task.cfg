CONSTANTS
    Tasks = {t1, t2}
    Parent = Parent
    Waiters = {w1, w2}
    Awaited = {t1}
SPECIFICATION Spec
INVARIANTS AssertionsHold LaunchResultIsTrue NoDescriptorLeft
    SignalsFindTheProgram WaitedTaskIsDone
PROPERTIES EveryLaunchReturns LoneWaiterReturns
CHECK_DEADLOCK FALSE
