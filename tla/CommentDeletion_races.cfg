SPECIFICATION MCSpec
CONSTANTS
    c1 = c1  c2 = c2  c3 = c3  alice = alice  boris = boris  mod = mod
    Comment = {c1, c2, c3}
    User = {alice, boris, mod}
    Handler = {h1, h2, h3}
    Moderator = {mod}
    ReplyTo <- MCReplyTo
    Author <- MCAuthor
    Root = Root  NoInfo = NoInfo  Nobody = Nobody
    Penalty = {7}
    MaxRequests = 4
INVARIANTS TypeOK DeletedIffInfo NeverOvercounted
PROPERTY NoReplyToDeleted
SYMMETRY Handlers
CHECK_DEADLOCK FALSE
