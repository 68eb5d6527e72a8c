CONSTANTS
    io1 = io1
    io2 = io2
    Threads <- MCThreads
    Calls = 2
    MaxClock = 2
SPECIFICATION Spec
INVARIANT LineTimeIsOwn
CHECK_DEADLOCK FALSE
