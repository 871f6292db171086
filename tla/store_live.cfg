SPECIFICATION LiveSpec
CONSTANTS
    c1 = c1
    c2 = c2
    w1 = w1
    w2 = w2
    s1 = s1
    s2 = s2
    s3 = s3
    p1 = p1
    p2 = p2
    k1 = k1
    k2 = k2
    h1 = h1
    None = None
    Caller = {c1, c2}
    Worker = {w1}
    Squeak = {s1}
    Profile = {p1, p2}
    BlockHeight = {h1}
    SecretKey = {k1, k2}
    Author <- OneAuthor
    Recipient <- OneRecipient
    Height <- OneHeight
    KeyOf <- OneKey
    MaxSqueaks = 2
    MaxPerKeyBlock = 2
    Requests = {"make", "download", "key", "like", "delete", "retention", "profile"}
    Faults = {}
PROPERTY ProtectedSqueaksStay
PROPERTY OldSqueaksDeleted
PROPERTY KeyedSqueaksReadable
CHECK_DEADLOCK FALSE
