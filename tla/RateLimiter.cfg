SPECIFICATION FairSpec
CONSTANTS
    Budget = 2
    Window = 3
    Horizon = 6
    MaxSendDelay = 1
    MaxRestarts = 1
INVARIANTS
    TypeOK
    WindowBudget
    DequeBounded
    SleepsOnlyWhenFull
    ProviderSlack
PROPERTIES
    SleeperServed
    Implements
CHECK_DEADLOCK FALSE
