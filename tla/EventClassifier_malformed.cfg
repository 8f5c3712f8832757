CONSTANTS
    LogChoices <- MalformedLogs
    BlockTxs = {"t1"}
    BlockScrs = {"s1"}
    SpecHandlerIds <- MCSpecHandlerIds
    NilLog = NilLog
    NilEvent = NilEvent
SPECIFICATION Spec
CHECK_DEADLOCK FALSE
INVARIANT NoPanic
