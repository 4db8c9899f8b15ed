SPECIFICATION FairSpec
CONSTANTS
    i1 = i1
    i2 = i2
    Ingests <- MCIngests
    Budgets <- MCBudgets
    Overhead = 1
    Headroom = 1
    Limits <- MCLimits
    Base = 2
    MaxUsize = 144
    MaxRows = 2
INVARIANT ReservationsAccounted
INVARIANT NeverOvercommitted
INVARIANT WindowsCovered
INVARIANT CopiesWholeSource
PROPERTY CallReturns
PROPERTY MemoryReturns
CHECK_DEADLOCK FALSE
