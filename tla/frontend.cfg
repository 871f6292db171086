SPECIFICATION Spec
CONSTANTS
    s1 = s1
    s2 = s2
    s3 = s3
    s4 = s4
    o1 = o1
    k1 = k1
    k2 = k2
    x1 = x1
    x2 = x2
    y1 = y1
    None = None
    Error = Error
    Squeak = {s1, s2, s3, s4}
    Made = {s3}
    ReplyTo <- MCReplyTo
    Newer <- MCNewer
    ReplyLimit = 2
    Offer = {o1}
    OfferOf <- MCOfferOf
    PubKey = {k1, k2}
    OwnKeys = {k1}
    Name = {"n1", "n2"}
    Address = {x1, x2, y1}
    HostOf <- MCHostOf
    SqueakOwners = {"s", "t"}
    PubkeyOwners = {"k", "l"}
    OwnersOf <- MCOwnersOf
    PageSize = 1
    Handle = {"h1", "h2"}
    Price = {0, 1, 2}
    BadPrice = {2}
    DefaultPrice = 1
    Views <- MCViews
    StoredFirst <- MCStoredFirst
    MaxCalls = 1
INVARIANT TypeOK
INVARIANT QuietSqueaksTrue
INVARIANT QuietSqueakPageTrue
INVARIANT PageShowsItsSqueak
INVARIANT ScreenBlockedByCall
INVARIANT QuietProfilesTrue
INVARIANT ProfilePageShowsItsProfile
INVARIANT SavedPeersAreUnique
INVARIANT QuietPeersTrue
INVARIANT PeerPageShowsItsPeer
 
INVARIANT QuietSettingsTrue
CHECK_DEADLOCK FALSE
