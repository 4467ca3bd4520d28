CONSTANTS
    RanFunctions = {rf1}
    Threads = {setup, inbound, expiry}
    SetupThread = setup
    InboundThread = inbound
    ExpiryThread = expiry
    MAX_ID = 1
    SubscriptionTimes = {0, 1}
    MaxTime = 1
    NoOwner = NoOwner
    MAX_RAN_FUNCTIONS = 2
    FactoryFunctions = {}
    SmMayFail = TRUE
    MaxStops = 1
SPECIFICATION FairAgentSpec
INVARIANTS StoppedIsQuiet
PROPERTIES StopCompletes ExpiredIsEnded
