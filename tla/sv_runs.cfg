\* The last of MaxRuns runs ends, and then nothing need happen.
CHECK_DEADLOCK FALSE
SPECIFICATION FairSpec
CONSTANTS
    NumStages = 3
    Depends <- SecondOnFirst
    AllowDeferred <- SecondOnFirst
    ReviewOf <- ThirdReviews
    MaxAttempts = 2
    OneOperator = TRUE
    MaxRuns = 2
    MaxNotes = 2
    MaxEdits = 1
PROPERTIES
    CheckpointKept
    HandoffVerified
    LaunchesInOrder
    RunEnds
