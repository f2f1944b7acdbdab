SPECIFICATION FairSpec
CONSTANTS
    MaxStarts = 3
INVARIANTS
    TypeOK
    IdleNotLoading
    GeneratedStays
PROPERTIES
    PageFills
