SPECIFICATION Spec
CONSTANTS
    Half <- MCHalf
    Pow10 <- MCPow10
    Thousand = 2
    Sixty = 2
    Hours = 2
    ShortMax = 1
    Radix = 2
    UsizeMax = 15
    OffsetMax = 20
    ExpandFactor = 1
    ExpandFloor = 12
    Columns <- MCColumns
    Targets = {1, 8, 100}
    InsertRows = 2
    InsertBytes = 64
    Places <- MCPlaces
    Offsets <- MCOffsets
INVARIANTS
    CopyStoresTheColumn
    InsertStoresTheColumn
    ReadsBackWhatIsStored
    OtherAnswersAreRefused
    CapacityHoldsTheFrame
    ReadColumnsWriteBack
