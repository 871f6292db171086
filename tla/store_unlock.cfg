SPECIFICATION Spec
CONSTANTS
    c1 = c1
    c2 = c2
    w1 = w1
    w2 = w2
    s1 = s1
    s2 = s2
    s3 = s3
    p1 = p1
    p2 = p2
    k1 = k1
    k2 = k2
    h1 = h1
    None = None
    Caller = {c1, c2}
    Worker = {}
    Squeak = {s1, s2, s3}
    Profile = {p1, p2}
    BlockHeight = {h1}
    SecretKey = {k1, k2}
    Author <- TrioAuthor
    Recipient <- TrioRecipient
    Height <- TrioHeight
    KeyOf <- TrioKey
    MaxSqueaks = 1
    MaxPerKeyBlock = 1
    Requests = {"make", "download", "key", "decrypt", "delete", "profile"}
    Faults = {"listener", "restart"}
INVARIANT TypeOK
INVARIANT SqueakLimit
INVARIANT KeysOpenSqueaks
PROPERTY RowsKeepSecrets
SYMMETRY CallerSymmetry
CHECK_DEADLOCK FALSE
