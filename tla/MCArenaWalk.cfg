SPECIFICATION Spec
CONSTANTS
    Probes <- MCProbes
    WordMax = 27
    Granularity = 2
    MaxChanges = 1
INVARIANTS
    NeverBoth
    NothingAssertedUnseen
    FactsAreTheHosts
    SameInEveryProcess
PROPERTIES
    WalkReturns
CHECK_DEADLOCK FALSE
