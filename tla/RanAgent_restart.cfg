CONSTANTS
    RanFunctions = {rf1}
    Threads = {setup, inbound, expiry}
    SetupThread = setup
    InboundThread = inbound
    ExpiryThread = expiry
    MAX_ID = 1
    SubscriptionTimes = {0}
    MaxTime = 0
    NoOwner = NoOwner
    MAX_RAN_FUNCTIONS = 2
    FactoryFunctions = {}
    SmMayFail = FALSE
    MaxStops = 1
SPECIFICATION AgentSpec
INVARIANTS SettledLifecycle
