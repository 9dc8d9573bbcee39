SPECIFICATION FairSpec
CONSTANTS
    a = a
    b = b
    LVs = {a, b}
    MaxTable = 4
    MaxCommands = 3
    Scenarios <- AllScenarios
INVARIANTS TypeOK CriticalWhileSuspended CriticalOnlyWhileSuspended UpdateTakesEffect DeviceHasLv
PROPERTY SuspendedIsResumed
