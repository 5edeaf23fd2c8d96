SPECIFICATION Spec
CONSTANTS
    Students = {s1}
    Poses = {p1}
    Enrollers = {a}
    Importers = {}
    Sweepers = {x}
    NoStudent = NoStudent
    NoPose = NoPose
    EnforceConsent = TRUE
    Overwrite = FALSE
    MaxTemplates = 1
    MaxDecisions = 2
    MaxDisturbances = 1
PROPERTY
    SweepReportsDeleted
CHECK_DEADLOCK FALSE
