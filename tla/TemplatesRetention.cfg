SPECIFICATION FairSpec
CONSTANTS
    Students = {s1}
    Poses = {p1}
    Enrollers = {a}
    Importers = {i}
    Sweepers = {x}
    NoStudent = NoStudent
    NoPose = NoPose
    EnforceConsent = TRUE
    Overwrite = FALSE
    MaxTemplates = 2
    MaxDecisions = 2
    MaxDisturbances = 1
INVARIANT
    PurgedForCause
PROPERTY
    RefusalsAreHonoured
CHECK_DEADLOCK FALSE
