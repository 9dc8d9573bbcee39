\* One failing write, changing flags.
CONSTANTS
    Mdas = {1, 2}
    Scenarios <- IgnoredScenario
SPECIFICATION Spec
INVARIANTS ReportedIsCommitted
