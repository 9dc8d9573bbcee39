\* Three areas, every scenario.
CONSTANTS
    Mdas = {1, 2, 3}
    Scenarios <- AllScenarios
SPECIFICATION FairSpec
INVARIANTS TypeOK  PrecommittedEverywhere
  
