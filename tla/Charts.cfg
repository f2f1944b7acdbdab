SPECIFICATION ChartSpec
CONSTANTS
    Volumes <- MCVolumes
    MaxPaths = 3
    WeekPoints = 2
    MonthPoints = 3
    MaxAnswers = 2
INVARIANTS
    FallbackDraws
    LiveAnswerDraws
    SuccessIsCurrent
    SankeyPlaced
    VolumeConserved
CHECK_DEADLOCK FALSE
