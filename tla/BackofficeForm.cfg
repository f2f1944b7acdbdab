SPECIFICATION FairSpec
CONSTANTS
    MaxForms = 2
    MaxItems = 2
    MaxQuantity = 2
    MaxSaves = 2
INVARIANTS
    TypeOK
    OneSavePerForm
    SavingIsInFlight
PROPERTIES
    SavingEnds
CHECK_DEADLOCK FALSE
