-------------------------- MODULE MCAdminFrontend --------------------------
(* Small instances of AdminFrontend for TLC.                               *)
EXTENDS AdminFrontend

CONSTANTS s1, s2, s3, s4, o1, k1, k2, x1, x2, y1

\* Three squeaks below s1, one more than its page asks for; one of them is made here
\* and is between the others.
MCReplyTo == s1 :> None @@ s2 :> s1 @@ s3 :> s1 @@ s4 :> s1
MCAge == s4 :> 1 @@ s3 :> 2 @@ s2 :> 3 @@ s1 :> 4
MCNewer == {p \in Squeak \X Squeak : MCAge[p[1]] < MCAge[p[2]]}
MCOfferOf == o1 :> s2

\* Two networks of one host and port, and another host.
MCHostOf == x1 :> 1 @@ x2 :> 1 @@ y1 :> 2

\* Payments for a squeak of one author, for another author's, for the first again.
MCOwnersOf == <<{"s", "k"}, {"t", "l"}, {"s", "k"}>>

\* So many acts of the user, without or with a request that is lost.
Acts(n) == [acts |-> n, faults |-> 0]
Lossy(n) == [acts |-> n, faults |-> 1]

FullReplies ==
    {"fetchTimeline", "fetchReplySqueaks", "setMakeSqueak", "setDeleteSqueak"} :> Acts(4)

SqueakViews ==
    FullReplies
    @@ {"fetchSqueak", "fetchTimeline", "setLikeSqueak", "setUnlikeSqueak"} :> Acts(4)
    @@ {"fetchAncestorSqueaks", "setLikeSqueak", "setDeleteSqueak"} :> Lossy(3)
    @@ {"fetchSqueak", "setMakeSqueak"} :> Acts(3)
    @@ {"fetchTimeline", "setMakeSqueak"} :> Lossy(3)
    @@ {"fetchReplySqueaks", "setDeleteSqueak"} :> Lossy(4)
    @@ {"fetchSqueak", "fetchAncestorSqueaks", "fetchSqueakOffers", "setBuySqueak"} :> Acts(3)
    @@ {"fetchSqueak", "fetchSqueakOffers", "setBuySqueak"} :> Acts(4)
    @@ {"fetchSqueak", "fetchSqueakOffers", "fetchPaymentSummaryForSqueak",
        "setBuySqueak"} :> Acts(3)
    @@ {"fetchSqueak", "fetchSqueakOffers", "setBuySqueak", "setDeleteSqueak"} :> Lossy(3)
    @@ {"fetchSqueak", "setDownloadSqueak", "setLikeSqueak", "setDeleteSqueak"} :> Acts(4)
    @@ {"fetchSqueak", "setDownloadSqueak"} :> Lossy(3)
    @@ {"fetchSearch", "fetchProfileSqueaks", "setUnlikeSqueak", "setDeleteSqueak"} :> Lossy(3)

ProfileViews ==
    {"fetchProfile", "fetchSigningProfiles", "setFollowProfile", "setUnfollowProfile"} :> Lossy(3)
    @@ {"fetchProfile", "fetchContactProfiles", "setRenameProfile", "setProfileImage"} :> Lossy(3)
    @@ {"fetchProfile", "setCreateContactProfile", "setDeleteProfile"} :> Acts(4)
    @@ {"fetchProfile", "fetchContactProfiles", "setCreateContactProfile"} :> Lossy(3)
    @@ {"fetchProfile", "fetchSigningProfiles", "setCreateSigningProfile",
        "setImportSigningProfile"} :> Lossy(3)
    @@ {"fetchProfile", "fetchSigningProfiles", "setFollowProfile", "setDeleteProfile"} :> Acts(3)
    @@ {"fetchProfile", "fetchPaymentSummaryForPubkey", "getProfilePrivateKey"} :> Lossy(3)
    @@ {"fetchProfile", "getProfilePrivateKey", "setDeleteProfile"} :> Acts(4)

PeerViews ==
    {"fetchPeer", "fetchSavedPeers", "setSavePeer", "setDeletePeer"} :> Acts(4)
    @@ {"fetchPeer", "fetchSavedPeers", "setPeerAutoconnectEnabled",
        "setPeerAutoconnectDisabled", "setDeletePeer"} :> Lossy(4)

PaymentViews ==
    {"fetchSentPayments"} :> Lossy(3)
    @@ {"fetchReceivedPayments", "fetchPaymentSummary"} :> Lossy(3)

SettingsViews ==
    {"fetchTwitterAccounts", "setCreateTwitterAccount", "setDeleteTwitterAccount",
     "setLogout"} :> Lossy(5)
    @@ {"fetchSellPrice", "setSellPrice", "setClearSellPrice", "setLogout"} :> Lossy(4)
    @@ {"fetchSellPrice", "fetchNetwork", "fetchExternalAddress"} :> Lossy(4)

MCViews == SqueakViews @@ ProfileViews @@ PeerViews @@ PaymentViews @@ SettingsViews

\* Where a squeak gets more replies than its page asks for, all others are there;
\* where a key is bought, its squeak is there or not.
MCStoredFirst ==
    [v \in DOMAIN MCViews |->
        IF v \in DOMAIN FullReplies THEN {{s1, s2, s4}}
        ELSE IF "setBuySqueak" \in v THEN {{s1}, {s1, s2}}
        ELSE IF v \in DOMAIN SqueakViews THEN SUBSET {s1, s2} ELSE {{}}]
=============================================================================
