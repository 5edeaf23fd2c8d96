SPECIFICATION Spec
CONSTANTS
    Students = {s1}
    Poses = {p1}
    Enrollers = {a}
    Importers = {i}
    Sweepers = {x}
    NoStudent = NoStudent
    NoPose = NoPose
    EnforceConsent = TRUE
    Overwrite = TRUE
    MaxTemplates = 3
    MaxDecisions = 1
    MaxDisturbances = 1
INVARIANTS
    TypeOK
    ArchivedOnce
    RotationLeavesActive
    GrantedBeforeWritten
CHECK_DEADLOCK FALSE
