SPECIFICATION Spec
CONSTANTS
    Students = {s1}
    Poses = {p1}
    Enrollers = {a, b}
    Importers = {}
    Sweepers = {}
    NoStudent = NoStudent
    NoPose = NoPose
    EnforceConsent = TRUE
    Overwrite = FALSE
    MaxTemplates = 2
    MaxDecisions = 1
    MaxDisturbances = 0
INVARIANT
    OneActivePerPose
CHECK_DEADLOCK FALSE
