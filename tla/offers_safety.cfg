SPECIFICATION Spec
CONSTANTS
    d1 = d1
    d2 = d2
    u1 = u1
    u2 = u2
    s1 = s1
    p1 = p1
    p2 = p2
    i1 = i1
    i2 = i2
    i3 = i3
    None = None
    Downloader = {d1, d2}
    Payer = {u1}
    Squeak = {s1}
    Peer = {p1}
    Invoice = {i1, i2, i3}
    SqueakOf <- OneSqueak
    PeerOf <- OnePeer
    Honest = {i1, i2}
    Requests = {"delete", "download"}
    Faults = {"crash", "rpc"}
    MaxFaults = 1
INVARIANT TypeOK
INVARIANT OpenOffersBounded
INVARIANT LostPaymentsBounded
SYMMETRY ThreadSymmetry
CHECK_DEADLOCK FALSE
