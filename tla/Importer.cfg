SPECIFICATION FairSpec
CONSTANTS
    s1 = s1  s2 = s2
    Students = {s1, s2}
    DefaultPose = "front"
    Poses = {"front", "side"}
    TooLong = TooLong
    Blanks = Blanks
    Inputs <- MCInputs
    Photo <- MCPhoto
    Unreadable = Unreadable
    MinQuality = 1
    MaxRetries = 1
    MaxTroubles = 2
INVARIANTS
    TypeOK
    JournaledIsWritten
    ReimportsHaveCauses
    CountsAddUp
PROPERTIES
    RerunsEnroll
CHECK_DEADLOCK FALSE
