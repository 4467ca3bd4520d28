CONSTANTS
    RanFunctions = {rf1, rf2}
    MAX_ID = 2
    SubscriptionTimes = {0, 1}
    MaxTime = 3
    NoRf = NoRf
    DApps = {a}
    Resubscribes = FALSE
    MaxMessages = 5
    MaxReleases = 0
SPECIFICATION SessionSpec
PROPERTIES UnsubscribeEndsItsOwn
