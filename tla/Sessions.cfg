SPECIFICATION FairSpec
CONSTANTS
    Calls = {c1, c2}
    Shared = Shared
    Provider = Provider
    MaxSends = 1
    MaxTroubles = 1
INVARIANTS
    TypeOK
    RotatedOnce
    RefusalIsRecorded
    StrandedForCause
    LogoutRevokesWhatItCarried
    InactiveGetsNothing
PROPERTIES
    KeyStopsRotation
    CallsSettle
CHECK_DEADLOCK FALSE
