SPECIFICATION FairSpec
CONSTANTS
    Students = {s1}
    Courses = {c1, c2}
    BrokenCourses = {c2}
    LastDay = 0
    Evaluators = {e1, e2}
    Overriders = {o1}
    Reasons = {r1}
    NoReason = NoReason
    NoCourse = NoCourse
    NoKey = NoKey
    ExcusedStudents = {}
    Excused <- MCExcused
    Threshold = 1
    DefaultThreshold = 3
    MaxSightings = 1
    MaxUnmatched = 1
    MaxOverrides = 1
    MaxDisturbances = 0
PROPERTIES
    EventuallySettled
CHECK_DEADLOCK FALSE
