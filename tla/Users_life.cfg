CONSTANTS
    n1 = n1  n2 = n2  a = a  b = b  c = c
    Nick <- MCNick
    Address <- MCAddress
    Settled <- MCSettled
    Req = {r1, r2}
    None = None
    MaxRequests = 3
    MaxLogins = 5
    Limit = 2
    MaxPreviews = 2
    MaxImages = 3
    MaxFaults = 1
SPECIFICATION MCSpec
INVARIANTS AccountsConsistent CredentialsEnd PicturesConsistent
PROPERTIES SettledStands CleanupsFinish
CHECK_DEADLOCK FALSE
