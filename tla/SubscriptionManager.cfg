CONSTANTS
    RanFunctions = {rf1, rf2}
    Threads = {inbound, expiry}
    MAX_ID = 2
    SubscriptionTimes = {0, 1}
    MaxTime = 2
    NoOwner = NoOwner
SPECIFICATION Spec
INVARIANTS TypeOK IndexesAgree IdsInverse OnlyRegisteredSubscribe IndicationTargets
PROPERTIES IdKeepsOwner LiveDeadlineKept TransitionsChecked ImplementsTable
SYMMETRY Alike
