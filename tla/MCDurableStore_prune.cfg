\* A rewrite of the log fails after the append, and the process goes on.
CONSTANTS
    EveryEvents = 2
    MaxItems = 1
    Pruned = TRUE
    PruneRetried = TRUE
    MaxWrites = 3
    MaxFaults = 1
    MaxRestarts = 2
SPECIFICATION Spec
INVARIANTS ArchiveHolds
CHECK_DEADLOCK FALSE
