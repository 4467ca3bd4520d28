CONSTANTS
    RanFunctions = {rf1, rf2}
    MAX_ID = 2
    SubscriptionTimes = {0}
    MaxTime = 0
    NoRf = NoRf
    DApps = {a, b}
    Resubscribes = TRUE
    MaxMessages = 4
    MaxReleases = 0
SPECIFICATION SessionSpec
INVARIANTS SessionTypeOK InSync
SYMMETRY Alike
