CONSTANTS
    own = own  host = host  alice = alice  bob = bob  carol = carol  dan = dan  eve = eve
    Nobody = Nobody
    Req = {r1, r2}
    Topic = {own, host}
    Own = {own}
    Poster = {r1, r2}
    Mod = {Nobody}
    MaxComments = 3
    MaxPurges = 1
    User = {bob, carol}
    Wrote <- MCWrote
    Frequent = 1
    MaxRequests = 3
    Text = {a, b, c}
    First = a
    MaxEdits = 3
    Author <- MCAuthor
    Hourly = 1
    MaxWarnings = 3
SPECIFICATION MCSpec
SYMMETRY Symmetric
INVARIANTS WarningsConsistent PurgeConsistent ReactionsConsistent HistoryConsistent
PROPERTY DecisionsStand
CHECK_DEADLOCK FALSE
