SPECIFICATION WSpec
CONSTANTS
    Threads = {1, 2}
    Offered = {"mem", "power", "lab"}
    MemCap = 2
    CoreCap = 1
    Volts = 1
    MaxGrants = 2
    MaxResets = 1
    MaxPanics = 1
    MaxFaults = 1
INVARIANTS  ResetReturnsToStock
PROPERTY LeaseReturned
CHECK_DEADLOCK FALSE
