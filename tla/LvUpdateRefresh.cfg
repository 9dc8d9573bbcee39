SPECIFICATION Spec
CONSTANTS
    a = a
    b = b
    LVs = {a, b}
    MaxTable = 4
    MaxCommands = 3
    Scenarios <- RefreshScenario
INVARIANTS RefreshReloads
