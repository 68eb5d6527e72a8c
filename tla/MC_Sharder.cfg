\* Sharder + per-worker transports: resubscription after reconnect, stop returns, reconnection.
CONSTANTS
    t1 = t1
    t2 = t2
    t3 = t3
    TokenLists <- MCTokenLists
    MaxPerConn <- MCMaxPerConn
    BatchSize <- MCBatchSize
    MaxWorkers <- MCMaxWorkers
    MaxCred <- MCMaxCred
    MaxFaults <- MCMaxFaults
    BackoffInitial <- MCBackoffInitial
    BackoffMax <- MCBackoffMax
SPECIFICATION Spec
INVARIANTS
    TypeOK
    ResubscribeRestoresAll
PROPERTIES
    StopReturns
    EventuallyReconnects
\* A destructor that finds a joinable IO thread calls std::terminate and the
\* process ends there (NoTerminate, checked by MC_Sharder_NoTerminate.cfg).
CHECK_DEADLOCK FALSE
