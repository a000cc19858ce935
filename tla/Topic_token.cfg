SPECIFICATION EditSpec
CONSTANTS
    news = news  linux = linux  forum = forum
    boris = boris  Guest = guest
    Comment <- MCComment
    ReplyTo <- MCReplyTo
    Writer <- MCWriter
    Reader <- MCReader
    Trusted <- MCTrusted
    MaxVisits <- MCMaxVisits
    PerPage = 1
    MaxWrites = 2
    MaxTime = 3
    Req = {r1, r2, r3}
    User = {alice, mod, cor}
    Author = alice
    Moderator = {mod}
    Corrector = {cor}
    Group = {news, linux, forum}
    FirstGroup = news
    SectionOf <- MCSectionOf
    Premoderated = {"news"}
    LinksAllowed = {news, linux}
    Penalty = {7}
    Award = 3
    Nobody = Nobody  NoInfo = NoInfo
PROPERTY NoSilentOverwrite
SYMMETRY Requests
CHECK_DEADLOCK FALSE
