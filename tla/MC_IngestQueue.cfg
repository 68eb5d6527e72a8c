\* SPSC ring: slot races, FIFO delivery, refinement of BoundedFifo.
CONSTANTS
    Cap <- MCCap
    W <- MCW
    NFrames <- MCNFrames
    MaxClears <- MCMaxClears
SPECIFICATION Spec
INVARIANTS
    NoSlotRace
    FifoDelivery
PROPERTIES
    FifoRefinement
\* The run ends when the network has delivered its NFrames frames and the
\* consumer has drained the ring: the consumer then only yields.
CHECK_DEADLOCK FALSE
