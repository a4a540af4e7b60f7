CONSTANTS
    Consumers = {a}
    MaxCalls = 2
    MaxFaults = 0
SPECIFICATION Spec
PROPERTY EndsOnlyItsOwn
CHECK_DEADLOCK FALSE
