SPECIFICATION FairSpec
CONSTANTS
    MaxTotal = 5
    NewSchedulers <- MCNewSchedulers
    RowBytes <- MCRowBytes
    MaxStatements = 1
    Granule = 4
    Alignments <- MCAlignments
    MaxGrowth = 2
    MaxUsize = 31
INVARIANT TypeOK
INVARIANT ThreadExplainsItsEnd
INVARIANT BuffersBounded
PROPERTY ImplementsStream
PROPERTY WindowsFollowBudget
PROPERTY NextReturns
PROPERTY ThreadStops
PROPERTY AbandonedWireFrees
CHECK_DEADLOCK FALSE
