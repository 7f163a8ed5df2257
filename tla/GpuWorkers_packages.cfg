SPECIFICATION WSpec
CONSTANTS
    Threads = {1, 2}
    Offered = {"validation", "mem", "real", "forge_all", "benchmark"}
    MemCap = 2
    CoreCap = 1
    Volts = 1
    MaxGrants = 2
    MaxResets = 0
    MaxPanics = 1
    MaxFaults = 1
PROPERTIES GrantedOnlyWhenFree SweepEndsAtStock PackageWasSoaked
CHECK_DEADLOCK FALSE
