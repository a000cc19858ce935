SPECIFICATION Spec
CONSTANTS
    User = {ann}
    Comment = {c1}
    Handler = {h1, h2}
    Nobody = Nobody
    LastEvent = 3
    MaxRequests = 4
PROPERTY UnseenStaysUnread
CHECK_DEADLOCK FALSE
