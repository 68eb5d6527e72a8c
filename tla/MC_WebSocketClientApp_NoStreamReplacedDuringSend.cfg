\* send_text writing while the IO thread reconnects.
CONSTANTS
    c1 = c1
    Client <- c1
    MaxStarts <- MCMaxStarts
    MaxFaults <- MCMaxFaults
    BackoffInitial <- MCBackoffInitial
    BackoffMax <- MCBackoffMax
SPECIFICATION Spec
PROPERTY
    NoStreamReplacedDuringSend
\* The client is destroyed at the end of a behaviour, and a std::terminate
\* ends the process.
CHECK_DEADLOCK FALSE
