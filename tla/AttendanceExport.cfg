SPECIFICATION Spec
CONSTANTS
    Students = {s1}
    Courses = {c1}
    BrokenCourses = {}
    LastDay = 0
    Evaluators = {e1}
    Overriders = {o1}
    Reasons = {r1}
    NoReason = NoReason
    NoCourse = NoCourse
    NoKey = NoKey
    ExcusedStudents = {}
    Excused <- MCExcused
    Threshold = 2
    DefaultThreshold = 3
    MaxSightings = 2
    MaxUnmatched = 1
    MaxOverrides = 1
    MaxDisturbances = 1
INVARIANTS
    ExportedOverrideKeepsVerdict
CHECK_DEADLOCK FALSE
