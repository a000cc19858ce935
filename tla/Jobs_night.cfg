CONSTANTS
    score = score  low = low  fixed = fixed
    Fixed <- MCFixed
    Cron <- MCCron
    Delay <- MCDelay
    Instants <- MCInstants
    Day = 6
    Node = {n1, n2}
    Topic = {t1, t2}
    Nobody = Nobody
    MaxSent = 3
    MaxFaults = 1
    User = {u1, u2}
    NoPhoto = NoPhoto
    MaxFiles = 4
SPECIFICATION MCSpec
INVARIANTS RunsAsScheduled ChannelConsistent PhotosStay
PROPERTY JobsGoOn
CHECK_DEADLOCK FALSE
