CONSTANTS
    RanFunctions = {rf1, rf2}
    Threads = {setup, inbound, expiry}
    SetupThread = setup
    InboundThread = inbound
    ExpiryThread = expiry
    MAX_ID = 2
    SubscriptionTimes = {0}
    MaxTime = 0
    NoOwner = NoOwner
    MAX_RAN_FUNCTIONS = 2
    FactoryFunctions = {rf2}
    SmMayFail = TRUE
    MaxStops = 0
SPECIFICATION AgentSpec
INVARIANTS AgentTypeOK RegistryFits SettledLifecycle GrantedIsRunning NotFoundMeansUnsubscribed
