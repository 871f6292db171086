SPECIFICATION LiveSpec
CONSTANTS
    d1 = d1
    d2 = d2
    u1 = u1
    u2 = u2
    s1 = s1
    p1 = p1
    p2 = p2
    i1 = i1
    i2 = i2
    i3 = i3
    None = None
    Downloader = {d1}
    Payer = {u1, u2}
    Squeak = {s1}
    Peer = {p1}
    Invoice = {i1, i2}
    SqueakOf <- OneSqueak
    PeerOf <- OnePeer
    Honest = {i1}
    Requests = {"delete", "price"}
    Faults = {}
    MaxFaults = 0
INVARIANT OpenOffersUnpaid
PROPERTY PaidOffersUnlock
CHECK_DEADLOCK FALSE
