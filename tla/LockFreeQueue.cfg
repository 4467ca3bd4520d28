CONSTANTS
    Threads = {p1, p2, c, owner}
    Producers = {p1, p2}
    Consumers = {c}
    Owner = owner
    NoThread = NoThread
    NoItem = NoItem
    capacity_ = 2
    Attempts = 1
    MaxPushes = 3
    MaxShutdowns = 1
SPECIFICATION FairQueueSpec
INVARIANTS QueueTypeOK NoMissedWakeup
PROPERTIES ImplementsFifo HonestRefusals Delivered ShutdownReturns
