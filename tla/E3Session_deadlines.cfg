CONSTANTS
    RanFunctions = {rf1, rf2}
    MAX_ID = 2
    SubscriptionTimes = {0, 1}
    MaxTime = 3
    NoRf = NoRf
    DApps = {a}
    Resubscribes = FALSE
    MaxMessages = 6
    MaxReleases = 1
SPECIFICATION SessionSpec
INVARIANTS DeadlineNotEarlier RenewalIsFresh
