SPECIFICATION Spec
CONSTANTS
    Students = {s1}
    Courses = {c1}
    BrokenCourses = {}
    LastDay = 1
    Evaluators = {e1, e2}
    Overriders = {o1}
    Reasons = {r1}
    NoReason = NoReason
    NoCourse = NoCourse
    NoKey = NoKey
    ExcusedStudents = {s1}
    Excused <- MCExcused
    Threshold = 1
    DefaultThreshold = 2
    MaxSightings = 1
    MaxUnmatched = 0
    MaxOverrides = 1
    MaxDisturbances = 1
SYMMETRY Interchangeable
INVARIANTS
    TypeOK
    LedgerExplainsRoster
    VerdictIsExplained
    ExcusedUntilOverridden
PROPERTIES
    ImplementsRoster
CHECK_DEADLOCK FALSE
