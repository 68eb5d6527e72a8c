\* stop() while the IO thread is blocked in a read the peer never ends.
CONSTANTS
    c1 = c1
    Client <- c1
    MaxStarts <- MCMaxStarts
    MaxFaults <- MCMaxFaults
    BackoffInitial <- MCBackoffInitial
    BackoffMax <- MCBackoffMax
SPECIFICATION Spec
PROPERTY
    StopReturnsWithoutPeer
\* The client is destroyed at the end of a behaviour, and a std::terminate
\* ends the process.
CHECK_DEADLOCK FALSE
