CONSTANTS
    RanFunctions = {rf1}
    Threads = {setup, inbound, expiry}
    SetupThread = setup
    InboundThread = inbound
    ExpiryThread = expiry
    MAX_ID = 2
    SubscriptionTimes = {0, 1}
    MaxTime = 2
    NoOwner = NoOwner
    MAX_RAN_FUNCTIONS = 2
    FactoryFunctions = {}
    SmMayFail = FALSE
    MaxStops = 0
SPECIFICATION AgentSpec
INVARIANTS NotFoundMeansUnsubscribed
