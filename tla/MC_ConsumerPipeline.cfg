\* One shard's data path: ordering of store updates and delivery while running, capacity rounding.
CONSTANTS
    bad = bad
    notJson = notJson
    nullopt = nullopt
    Cap <- MCCap
    W <- MCW
    NFrames <- MCNFrames
    MaxClears <- MCMaxClears
    Tokens <- MCTokens
    Malformed = bad
    FrameText <- MCFrameText
    StripPrefix <- MCStripPrefix
    NotJson = notJson
    Nullopt = nullopt
    MsThreshold <- MCMsThreshold
    HasSink = TRUE
SPECIFICATION Spec
INVARIANTS
    TypeOK
    RoundsUp
    ParseMatchesContract
PROPERTIES
    StoreNeverRegresses
    EventuallyStored
\* The worker stops for good after Consumer::stop, and a sink exception ends
\* the process (ConsumerSurvivesSink, MC_ConsumerPipeline_ConsumerSurvivesSink.cfg).
CHECK_DEADLOCK FALSE
