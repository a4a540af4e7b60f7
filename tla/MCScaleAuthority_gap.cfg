SPECIFICATION Spec
CONSTANTS
    Clients = {}
    Keys = {k}
    MaxReign = 2
    MaxLinks = 1
    MaxServed = 0
CHECK_DEADLOCK FALSE
PROPERTIES DeliveredReceiptsDeduplicate
