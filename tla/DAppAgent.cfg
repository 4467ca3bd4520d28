CONSTANTS
    MAX_RETRIES = 2
    RecvAttempts = 1
    MaxStarts = 2
    MaxRestarts = 2
    MaxEvents = 2
SPECIFICATION FairDAppSpec
INVARIANTS DAppTypeOK EndsOnce
PROPERTIES  SetupCompletes WaiterReturns LossIsReported
