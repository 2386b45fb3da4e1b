CONSTANTS
    MaxCalls = 3
    MaxTb = 2
SPECIFICATION FairSpec
INVARIANTS
    IrqFlagExact
    NeverAborts
    TicksCover
    AtRest
PROPERTIES
    ImplementsCall
    CallsReturn
