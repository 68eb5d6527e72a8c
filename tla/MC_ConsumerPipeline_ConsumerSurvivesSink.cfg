\* A sink that throws on the consumer thread: spec.md 4.4 says it is caught.
CONSTANTS
    bad = bad
    notJson = notJson
    nullopt = nullopt
    Cap <- MCCap
    W <- MCW
    NFrames <- MCNFrames
    MaxClears <- MCMaxClears
    Tokens <- MCTokens
    Malformed = bad
    FrameText <- MCFrameText
    StripPrefix <- MCStripPrefix
    NotJson = notJson
    Nullopt = nullopt
    MsThreshold <- MCMsThreshold
    HasSink = TRUE
SPECIFICATION Spec
INVARIANT
    ConsumerSurvivesSink
\* The worker stops for good after Consumer::stop.
CHECK_DEADLOCK FALSE
