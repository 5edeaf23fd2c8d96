SPECIFICATION FairSpec
CONSTANTS
    s1 = s1  stranger = stranger
    Procs = {w1, w2}
    Yolo = m  Lvface = m
    Models = {m}
    MaxAttempts = 2
    Width = 10
    MinScore = 1
    MaxLink = 4
    Jobs = {j1}
    Students = {s1}
    Batches <- MCBatches
    MaxFrameBytes = 2
    MaxBatchBytes = 2
    MaxRetries = 1
    MaxFaces = 2
    MaxTroubles = 1
INVARIANTS
    TypeOK
    ExtraRowsNeedLoss
    SuccessCountsRows
    FailureLoggedNothing
    AcceptedCanBeFollowed
    ExhaustedIsForgotten
    OneLateSighting
PROPERTIES
    JobsSettle
CHECK_DEADLOCK FALSE
