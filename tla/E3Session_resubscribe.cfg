CONSTANTS
    RanFunctions = {rf1}
    MAX_ID = 2
    SubscriptionTimes = {0, 1}
    MaxTime = 3
    NoRf = NoRf
    DApps = {a}
    Resubscribes = TRUE
    MaxMessages = 4
    MaxReleases = 0
SPECIFICATION SessionSpec
INVARIANTS DeadlineNotEarlier
