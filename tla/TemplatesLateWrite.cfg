SPECIFICATION Spec
CONSTANTS
    Students = {s1}
    Poses = {p1}
    Enrollers = {a}
    Importers = {}
    Sweepers = {}
    NoStudent = NoStudent
    NoPose = NoPose
    EnforceConsent = TRUE
    Overwrite = FALSE
    MaxTemplates = 1
    MaxDecisions = 2
    MaxDisturbances = 0
PROPERTY
    NoWriteWithoutConsent
CHECK_DEADLOCK FALSE
