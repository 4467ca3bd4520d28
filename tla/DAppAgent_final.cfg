CONSTANTS
    MAX_RETRIES = 2
    RecvAttempts = 1
    MaxStarts = 1
    MaxRestarts = 1
    MaxEvents = 2
SPECIFICATION DAppSpec
INVARIANTS DisconnectIsFinal
