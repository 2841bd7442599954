SPECIFICATION Spec

CONSTANTS
    Screens <- MCScreens
    MaxVersion = 3
    MaxSubmits = 2
    MaxActs <- MCActs

CHECK_DEADLOCK FALSE

INVARIANTS
    NoBlindRetry
    RegressesOnlyWhileReloading
    ActedOnce

PROPERTY CatchesUp
