\* A kill in vg_commit, and the device committed first disappears.
CONSTANTS
    Mdas = {1, 2, 3}
    Scenarios <- ReturnScenario
SPECIFICATION Spec
INVARIANTS StaleNoticed
