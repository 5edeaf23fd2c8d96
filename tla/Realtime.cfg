SPECIFICATION FairSpec
CONSTANTS
    f1 = f1  f2 = f2  u1 = u1  u2 = u2  h1 = h1  h2 = h2  s1 = s1  s2 = s2  s3 = s3
    Feeds = {f1, f2}
    Users = {u1, u2}
    Hosts = {h1, h2}
    Sockets = {s1, s2, s3}
    Streams = {s3}
    FeedOf <- MCFeedOf
    UserOf <- MCUserOf
    HostOf <- MCHostOf
    Nobody = Nobody
    UserCap = 1
    TotalCap = 1
    MaxTroubles = 1
INVARIANTS
    TypeOK
    CountersCoverReservations
    CapsHold
    OneSocketPerFeed
    RetryOnlyWhenDown
    EventReachesAudience
PROPERTIES
    GoneIsReleased
CHECK_DEADLOCK FALSE
