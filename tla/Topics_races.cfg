CONSTANTS
    Group = {"linux", "shots", "talks"}
    SectionOf <- MCSectionOf
    Forum = "forum"
    Gallery = "gallery"
    Articles = "articles"
    Front = {"articles", "gallery"}
    Premoderated = {"articles", "gallery"}
    Scroll <- MCScroll
    Expire <- MCExpire
    Viewer <- MCViewer
    Fortnight = 1
    Month = 1
    Quarter = 1
    HalfYear = 2
    MaxTime = 3
    MaxOpen = 2
    Req = {r1, r2}
    office = office  home = home  ann = ann  bob = bob
    Address = {office, home}
    Sections = {news, talk}
    Short = 1
    Long = 2
    Memory = 2
    Day = 1
    Limit = 1
    MaxClock = 3
    MaxTopics = 2
    MaxRequests = 3
    User = {u1, u2}
    MaxVariants = 3
    MaxBallots = 2
    Topic = {t1, t2}
    First = t1
    Name = {x, y, z}
    Free = z
    NoName = NoName
    MaxIds = 3
    MaxTagRequests = 3
    Reader = {ann, bob}
    Comment = {c1}
    Nobody = Nobody
    LastEvent = 2
SPECIFICATION MCSpec
SYMMETRY Symmetric
INVARIANTS ListsConsistent PostingLimited VotesConsistent TagsConsistent
PROPERTY StepsHold
CHECK_DEADLOCK FALSE
