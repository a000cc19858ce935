CONSTANTS
    Reporter = {r1, r2}
    Type = {sql, io}
    Capacity = 3
    MaxMessages = 3
    MaxReports = 8
    Server = {n1, n2}
    Path = {p1, p2}
    MaxCounts = 3
    MaxFailures = 1
SPECIFICATION MCSpec
INVARIANTS TypeOK CountsAreAccounted
PROPERTIES DropsAreSummarized TasksCatchUp
CHECK_DEADLOCK FALSE
