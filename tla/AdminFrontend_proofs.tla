------------------------ MODULE AdminFrontend_proofs ------------------------
(***************************************************************************)
(* Proofs about AdminFrontend, for any squeaks, profiles, peers, payments, *)
(* accounts and views, and any number of calls, acts of the user and lost  *)
(* requests.                                                               *)
(***************************************************************************)
EXTENDS AdminFrontend, Ordering_proofs

-----------------------------------------------------------------------------
(* Saved peers.                                                            *)

\* A peer is found at its address, ids are given once, hosts are unique.
PeersInv ==
    /\ peers \in [Address -> PeerEntry \cup {None}]
    /\ peersMade \in Nat
    /\ \A a \in Address : peers[a] # None =>
            peers[a].address = a /\ peers[a].id \in 1..peersMade
    /\ \A a, b \in Address : peers[a] # None /\ peers[b] # None =>
            (peers[a].id = peers[b].id \/ HostOf[a] = HostOf[b] => a = b)

LEMMA PeersInvUnique == PeersInv => SavedPeersAreUnique
  BY DEF PeersInv, SavedPeersAreUnique, SavedPeers

LEMMA PeersInvInit == PeersInit => PeersInv
<1> SUFFICES ASSUME PeersInit PROVE PeersInv
  OBVIOUS
<1>1. peers \in [Address -> PeerEntry \cup {None}]
  BY DEF PeersInit, PeerEntry
<1>2. peersMade \in Nat
  BY DEF PeersInit
<1>3. \A a \in Address : peers[a] # None => peers[a].address = a /\ peers[a].id \in 1..peersMade
  <2> SUFFICES ASSUME NEW a \in Address, peers[a] # None
               PROVE  peers[a].address = a /\ peers[a].id \in 1..peersMade
    OBVIOUS
  <2>1. SavedPeers # {} /\ peersMade = 1
    BY DEF PeersInit, SavedPeers
  <2>2. peers[a] \in [id : {1}, address : Address, autoconnect : BOOLEAN]
    BY DEF PeersInit
  <2> QED BY <2>1, <2>2 DEF PeersInit
<1>4. \A a, b \in Address : peers[a] # None /\ peers[b] # None => a = b
  BY DEF PeersInit, SavedPeers
<1> QED BY <1>1, <1>2, <1>3, <1>4 DEF PeersInv

LEMMA PeersInvSave ==
    ASSUME PeersInv, NEW c, savePeer(c)
    PROVE  PeersInv'
<1> DEFINE a == Argument(c)
           new == [id |-> peersMade + 1, address |-> a, autoconnect |-> TRUE]
<1>1. CASE UNCHANGED peerNode
  BY <1>1 DEF PeersInv, peerNode
<1>2. CASE ~(a \in Address) /\ peersMade' = peersMade + 1 /\ peers' = [peers EXCEPT ![a] = new]
  <2>1. peers' = peers
    BY <1>2 DEF PeersInv
  <2> QED BY <2>1, <1>2 DEF PeersInv
<1>3. CASE /\ a \in Address /\ WithHost(a) = {}
           /\ peersMade' = peersMade + 1 /\ peers' = [peers EXCEPT ![a] = new]
  <2>1. \A b \in Address : peers[b] # None => HostOf[b] # HostOf[a]
    BY <1>3 DEF WithHost, SavedPeers, PeersInv
  <2>2. new \in PeerEntry
    BY <1>3 DEF PeersInv, PeerEntry
  <2>3. /\ peers' \in [Address -> PeerEntry \cup {None}]
        /\ peers'[a] = new
        /\ \A b \in Address \ {a} : peers'[b] = peers[b]
    BY <1>3, <2>2 DEF PeersInv
  <2>4. new.id = peersMade + 1 /\ new.address = a
    OBVIOUS
  <2> HIDE DEF new
  <2> QED BY <1>3, <2>1, <2>3, <2>4 DEF PeersInv
<1> QED BY <1>1, <1>2, <1>3 DEF savePeer

LEMMA PeersInvDelete ==
    ASSUME PeersInv, NEW c, deletePeer(c)
    PROVE  PeersInv'
  BY DEF PeersInv, deletePeer

LEMMA PeersInvSwitch ==
    ASSUME PeersInv, NEW id, NEW on \in BOOLEAN, SetAutoconnect(id, on), UNCHANGED peersMade
    PROVE  PeersInv'
<1>1. \A a \in Address : peers[a] # None =>
        /\ [peers[a] EXCEPT !.autoconnect = on] \in PeerEntry
        /\ [peers[a] EXCEPT !.autoconnect = on].id = peers[a].id
        /\ [peers[a] EXCEPT !.autoconnect = on].address = peers[a].address
  BY DEF PeersInv, PeerEntry
<1>2. peers' \in [Address -> PeerEntry \cup {None}]
  BY <1>1 DEF PeersInv, SetAutoconnect
<1>3. \A a \in Address : peers'[a] # None =>
        peers[a] # None /\ peers'[a].id = peers[a].id /\ peers'[a].address = peers[a].address
  BY <1>1 DEF SetAutoconnect
<1> QED BY <1>2, <1>3 DEF PeersInv

LEMMA PeersInvNext == PeersInv /\ [Next]_vars => PeersInv'
<1> SUFFICES ASSUME PeersInv, [Next]_vars PROVE PeersInv'
  OBVIOUS
<1>1. CASE UNCHANGED peerNode
  BY <1>1 DEF PeersInv, peerNode
<1>2. CASE PeerServer
  BY <1>2, <1>1, PeersInvSave, PeersInvDelete, PeersInvSwitch
     DEF PeerServer, getPeer, getSavedPeers, enableAutoconnectPeer, disableAutoconnectPeer
<1>3. CASE PeerUser
  BY <1>3, <1>1 DEF PeerUser, OpenPeer, AddPeer, OpenPeers, ClickPeerSwitch, ClickDeletePeer,
                    ClickPeerCardSwitch, peerVars
<1> QED BY <1>1, <1>2, <1>3 DEF Next, vars, Squeaks, Profiles, Peers, Payments, Settings, Lost,
        butSqueaks, butProfiles, butPayments, butSettings, peerVars, PeerReply
-----------------------------------------------------------------------------
(* The screen.                                                             *)

IsCall(c) ==
    c = [thunk |-> c.thunk, arg |-> c.arg, todo |-> c.todo, status |-> c.status,
         writes |-> c.writes, id |-> c.id, reply |-> c.reply, crossed |-> c.crossed]

\* Only thunks whose rejection has a case cover the screen; the lists of
\* payments have a status of their own.
Covers(d) ==
    d.status # None =>
        /\ d.status \in Blocking =>
                d.thunk \in {"setMakeSqueak", "setBuySqueak", "setDownloadSqueak"}
        /\ d.status = "sentPaymentsStatus" => d.thunk = "fetchSentPayments"
        /\ d.status = "receivedPaymentsStatus" => d.thunk = "fetchReceivedPayments"

ScreenInv ==
    /\ \A c \in calls : IsCall(c) /\ Covers(c)
    /\ None \notin loading
    /\ ScreenBlockedByCall

LEMMA BeginScreen ==
    ASSUME NEW D, \A d \in D : Covers(d),
           NEW rest, \A c \in rest : IsCall(c) /\ Covers(c),
           NEW id
    PROVE  /\ \A c \in Begin(D, id, rest) : IsCall(c) /\ Covers(c)
           /\ \A c \in rest : \E e \in Begin(D, id, rest) : e.status = c.status
           /\ \A status \in Pending(D) : \E e \in Begin(D, id, rest) : e.status = status
<1> DEFINE Marked(c) == [c EXCEPT !.crossed = @ \/ \E d \in Followed(D) : d.writes]
<1>1. \A c \in rest : IsCall(Marked(c)) /\ Covers(Marked(c)) /\ Marked(c).status = c.status
  <2> SUFFICES ASSUME NEW c \in rest
               PROVE  IsCall(Marked(c)) /\ Covers(Marked(c)) /\ Marked(c).status = c.status
    OBVIOUS
  <2>1. PICK x : Marked(c) = [c EXCEPT !.crossed = x]
    OBVIOUS
  <2>2. Marked(c) = [thunk |-> c.thunk, arg |-> c.arg, todo |-> c.todo, status |-> c.status,
                     writes |-> c.writes, id |-> c.id, reply |-> c.reply, crossed |-> x]
    <3>1. IsCall(c)
      OBVIOUS
    <3> HIDE DEF Marked
    <3> QED BY <2>1, <3>1 DEF IsCall
  <2> HIDE DEF Marked
  <2> QED BY <2>2 DEF IsCall, Covers
<1>2. \A d \in D : IsCall(Started(d, id, rest)) /\ Covers(Started(d, id, rest))
                   /\ Started(d, id, rest).status = d.status
  BY DEF IsCall, Covers, Started
<1>3. /\ \A e \in Begin(D, id, rest) :
            \/ \E c \in rest : e = Marked(c)
            \/ \E d \in Followed(D) : e = Started(d, id, rest)
      /\ \A c \in rest : Marked(c) \in Begin(D, id, rest)
      /\ \A d \in Followed(D) : Started(d, id, rest) \in Begin(D, id, rest)
  BY DEF Begin
<1>4. \A status \in Pending(D) : \E d \in Followed(D) : d.status = status
  BY DEF Pending
<1> HIDE DEF Marked
<1> QED BY <1>1, <1>2, <1>3, <1>4 DEF Followed

\* Calls that are dispatched, while others end with their status.
LEMMA StartScreen ==
    ASSUME ScreenInv, NEW gone \in SUBSET calls, NEW free,
           \A c \in gone : c.status \in (Blocking \ {None}) => c.status \in free,
           NEW D, \A d \in D : Covers(d), NEW id,
           calls' = Begin(D, id, calls \ gone),
           loading' = (loading \ free) \cup Pending(D), crashed' = crashed
    PROVE  ScreenInv'
<1>1. /\ \A e \in calls' : IsCall(e) /\ Covers(e)
      /\ \A d \in calls \ gone : \E e \in calls' : e.status = d.status
      /\ \A status \in Pending(D) : \E e \in calls' : e.status = status
  <2> \A d \in calls \ gone : IsCall(d) /\ Covers(d)
    BY DEF ScreenInv
  <2> QED BY BeginScreen
<1>2. \A status \in loading' \cap Blocking :
        status \in crashed \/ \E e \in calls' : e.status = status
  <2> SUFFICES ASSUME NEW status \in loading', status \in Blocking, status \notin crashed
               PROVE  \E e \in calls' : e.status = status
    OBVIOUS
  <2>1. CASE status \in Pending(D)
    BY <2>1, <1>1
  <2>2. CASE status \in loading \ free
    <3>1. PICK d \in calls : d.status = status
      BY <2>2 DEF ScreenInv, ScreenBlockedByCall
    <3>2. d \in calls \ gone
      BY <3>1, <2>2 DEF ScreenInv
    <3> QED BY <3>1, <3>2, <1>1
  <2> QED BY <2>1, <2>2
<1> QED BY <1>1, <1>2 DEF ScreenInv, ScreenBlockedByCall, Covers, Pending

LEMMA DispatchScreen ==
    ASSUME ScreenInv, NEW D, \A d \in D : Covers(d), Dispatch(D)
    PROVE  ScreenInv'
<1>1. /\ calls' = Begin(D, events + 1, calls \ {})
      /\ loading' = (loading \ {}) \cup Pending(D) /\ crashed' = crashed
  <2> calls \ {} = calls /\ loading \ {} = loading
    OBVIOUS
  <2> QED BY DEF Dispatch
<1> QED BY <1>1, StartScreen

LEMMA SettleScreen ==
    ASSUME ScreenInv, NEW c \in calls, NEW D, \A d \in D : Covers(d), Settle(c, D)
    PROVE  ScreenInv'
BY StartScreen DEF Settle

LEMMA ReplaceScreen ==
    ASSUME ScreenInv, NEW c \in calls, NEW todo, NEW reply,
           Replace(c, [c EXCEPT !.todo = todo, !.reply = reply]),
           UNCHANGED <<loading, crashed>>
    PROVE  ScreenInv'
<1> DEFINE d == [c EXCEPT !.todo = todo, !.reply = reply]
<1>1. d = [thunk |-> c.thunk, arg |-> c.arg, todo |-> todo, status |-> c.status,
           writes |-> c.writes, id |-> c.id, reply |-> reply, crossed |-> c.crossed]
  <2> DEFINE e == [c EXCEPT !.todo = todo]
  <2>1. IsCall(c)
    BY DEF ScreenInv
  <2>2. e = [thunk |-> c.thunk, arg |-> c.arg, todo |-> todo, status |-> c.status,
             writes |-> c.writes, id |-> c.id, reply |-> c.reply, crossed |-> c.crossed]
    BY <2>1 DEF IsCall
  <2>3. d = [e EXCEPT !.reply = reply]
    OBVIOUS
  <2> HIDE DEF e, d
  <2> QED BY <2>2, <2>3
<1>2. calls' = (calls \ {c}) \cup {d}
  BY DEF Replace
<1> HIDE DEF d
<1>3. IsCall(d) /\ Covers(d) /\ d.status = c.status
  BY <1>1 DEF ScreenInv, IsCall, Covers
<1> QED BY <1>2, <1>3 DEF ScreenInv, ScreenBlockedByCall, Covers

LEMMA AnswerScreen ==
    ASSUME ScreenInv, NEW c \in calls, NEW reply, Answer(c, reply),
           UNCHANGED <<loading, crashed>>
    PROVE  ScreenInv'
<1>1. Replace(c, [c EXCEPT !.todo = Tail(c.todo), !.reply = reply])
  BY DEF Answer, ScreenInv, IsCall
<1> QED BY <1>1, ReplaceScreen

LEMMA RefuseScreen ==
    ASSUME ScreenInv, NEW c \in calls, Refuse(c), UNCHANGED <<loading, crashed>>
    PROVE  ScreenInv'
BY ReplaceScreen DEF Refuse

LEMMA CrashScreen ==
    ASSUME ScreenInv, NEW c \in calls, Crash(c)
    PROVE  ScreenInv'
BY DEF ScreenInv, ScreenBlockedByCall, Crash, Covers

LEMMA RejectedScreen ==
    ASSUME ScreenInv, NEW c \in calls, NEW hasCase \in BOOLEAN, NEW fields,
           c.status \in Blocking \ {None} => hasCase, Rejected(c, hasCase, fields)
    PROVE  ScreenInv'
BY DEF ScreenInv, ScreenBlockedByCall, Rejected, Covers

\* The thunks of each slice.
LEMMA SqueakThunksCover ==
    ASSUME NEW s, NEW o
    PROVE  /\ Covers(fetchSqueak(s)) /\ Covers(setLikeSqueak(s)) /\ Covers(setUnlikeSqueak(s))
           /\ Covers(setDeleteSqueak(s)) /\ Covers(fetchAncestorSqueaks(s))
           /\ Covers(fetchReplySqueaks(s)) /\ Covers(fetchTimeline) /\ Covers(fetchSearch)
           /\ Covers(fetchProfileSqueaks) /\ Covers(setMakeSqueak(s))
           /\ Covers(fetchSqueakOffers(s)) /\ Covers(setBuySqueak(o, s))
           /\ Covers(setDownloadSqueak(s)) /\ Covers(fetchPaymentSummaryForSqueak(s))
           /\ \A d \in SqueakMounted(s) : Covers(d)
BY DEF Covers, Blocking, Read, Write, SqueakMounted, fetchSqueak, setLikeSqueak, setUnlikeSqueak,
       setDeleteSqueak, fetchAncestorSqueaks, fetchReplySqueaks, fetchTimeline, fetchSearch,
       fetchProfileSqueaks, setMakeSqueak, fetchSqueakOffers, setBuySqueak, setDownloadSqueak,
       fetchPaymentSummaryForSqueak

LEMMA SqueaksScreen ==
    ASSUME ScreenInv, SqueakUser \/ SqueakServer \/ SqueakReply
    PROVE  ScreenInv'
<1>1. CASE SqueakUser
  <2>1. CASE UNCHANGED thunkVars
    BY <2>1 DEF thunkVars, ScreenInv, ScreenBlockedByCall
  <2>2. ASSUME NEW D, \A d \in D : Covers(d), Dispatch(D)
        PROVE  ScreenInv'
    BY <2>2, DispatchScreen
  <2>3. CASE \E s \in Squeak : OpenSqueak(s)
    BY <2>2, <2>3, SqueakThunksCover DEF OpenSqueak
  <2>4. CASE OpenTimeline \/ OpenSearch \/ OpenProfileSqueaks
    BY <2>2, <2>4, SqueakThunksCover DEF OpenTimeline, OpenSearch, OpenProfileSqueaks, OpenList
  <2>5. ASSUME NEW e, NEW s, Heart(e, s)
        PROVE  ScreenInv'
    BY <2>2, <2>5, SqueakThunksCover DEF Heart
  <2>6. CASE ClickPageHeart \/ ClickPageDelete \/ ClickDownload
    BY <2>2, <2>5, <2>6, SqueakThunksCover DEF ClickPageHeart, ClickPageDelete, ClickDownload
  <2>7. CASE \E e \in Cards : ClickCardHeart(e) \/ ClickCardDelete(e)
    BY <2>2, <2>5, <2>7, SqueakThunksCover DEF ClickCardHeart, ClickCardDelete
  <2>8. CASE toggleBuyModal \/ ClickBuy
    BY <2>1, <2>2, <2>8, SqueakThunksCover DEF toggleBuyModal, ClickBuy
  <2>9. CASE \E o \in Offer : handleChangeOffer(o)
    BY <2>1, <2>9 DEF handleChangeOffer
  <2>10. CASE \E r \in ReplyTargets : submitSqueak(r)
    BY <2>2, <2>10, SqueakThunksCover DEF submitSqueak
  <2> QED BY <1>1, <2>3, <2>4, <2>6, <2>7, <2>8, <2>9, <2>10 DEF SqueakUser
<1>2. CASE SqueakServer
  <2>1. PICK c \in calls : \/ \E reply : Answer(c, reply)
                           \/ Refuse(c)
    BY <1>2 DEF SqueakServer, Of, getSqueak, getAncestorSqueaks, getReplySqueaks, getTimelineSqueaks,
       getSearchSqueaks, getProfileSqueaks, getSqueakOffers, getPaymentSummaryForSqueak, likeSqueak,
       unlikeSqueak, deleteSqueak, makeSqueak, downloadSqueak, buySqueak
  <2>2. UNCHANGED <<loading, crashed>>
    BY <1>2 DEF SqueakServer
  <2> QED BY <2>1, <2>2, AnswerScreen, RefuseScreen
<1>3. CASE SqueakReply
  <2>1. PICK c \in calls :
          \/ \E D : (\A d \in D : Covers(d)) /\ Settle(c, D)
          \/ Crash(c)
          \/ SqueakThunkRejected(c)
    BY <1>3, SqueakThunksCover DEF SqueakReply, fetchSqueakFulfilled,
       fetchAncestorSqueaksFulfilled, fetchReplySqueaksFulfilled, fetchListFulfilled,
       fetchSqueakOffersFulfilled, fetchPaymentSummaryForSqueakFulfilled, setLikeSqueakFulfilled,
       setUnlikeSqueakFulfilled, setDeleteSqueakFulfilled, setMakeSqueakFulfilled,
       setBuySqueakFulfilled, setDownloadSqueakFulfilled, SqueakReducerThrows
  <2>2. CASE SqueakThunkRejected(c)
    <3>1. c.status \in Blocking \ {None} => RejectedIsHandled(c)
      BY DEF ScreenInv, Covers, RejectedIsHandled
    <3> QED BY <2>2, <3>1 DEF SqueakThunkRejected, RejectedIsHandled, Rejected, ScreenInv,
                              ScreenBlockedByCall, Covers
  <2> QED BY <2>1, <2>2, SettleScreen, CrashScreen
<1> QED BY <1>1, <1>2, <1>3

LEMMA ProfileThunksCover ==
    ASSUME NEW k, NEW id, NEW name, NEW page, NEW sure
    PROVE  /\ Covers(fetchProfile(k)) /\ Covers(setFollowProfile(id)) /\ Covers(setUnfollowProfile(id))
           /\ Covers(setRenameProfile(id, name)) /\ Covers(setProfileImage(id))
           /\ Covers(setDeleteProfile(id)) /\ Covers(fetchSigningProfiles)
           /\ Covers(fetchContactProfiles) /\ Covers(setCreateContactProfile(page, name, k))
           /\ Covers(setCreateSigningProfile(name)) /\ Covers(setImportSigningProfile(name, k))
           /\ Covers(getProfilePrivateKey(id, page, sure))
           /\ Covers(fetchPaymentSummaryForPubkey(k))
           /\ \A d \in ProfileMounted(k) : Covers(d)
BY DEF Covers, Blocking, Read, Write, Change, Create, ProfileMounted, fetchProfile,
       setFollowProfile, setUnfollowProfile, setRenameProfile, setProfileImage, setDeleteProfile,
       fetchSigningProfiles, fetchContactProfiles, setCreateContactProfile,
       setCreateSigningProfile, setImportSigningProfile, getProfilePrivateKey,
       fetchPaymentSummaryForPubkey

\* No thunk of another slice than that of the squeaks covers the screen.
LEMMA OthersDoNotCover ==
    ASSUME NEW c, Covers(c),
           c.thunk \in ProfileThunks \cup PeerThunks \cup PaymentThunks \cup SettingsThunks
    PROVE  c.status \notin Blocking \ {None}
BY DEF Covers, ProfileThunks, PeerThunks, PaymentThunks, SettingsThunks

LEMMA RejectedElsewhere ==
    ASSUME ScreenInv, NEW c \in calls, NEW fields, Rejected(c, FALSE, fields),
           c.thunk \in ProfileThunks \cup PeerThunks \cup PaymentThunks \cup SettingsThunks
    PROVE  ScreenInv'
BY OthersDoNotCover, RejectedScreen DEF ScreenInv

LEMMA ProfilesScreen ==
    ASSUME ScreenInv, ProfileUser \/ ProfileServer \/ ProfileReply
    PROVE  ScreenInv'
<1>1. CASE ProfileUser
  <2>1. \E D : (\A d \in D : Covers(d)) /\ Dispatch(D)
    BY <1>1, ProfileThunksCover DEF ProfileUser, OpenProfile, OpenSigningProfiles,
       OpenContactProfiles, OpenMakeSqueak, ClickFollow, changeAvatar, ClickDeleteProfile,
       exportPrivateKey, ClickCardFollow, editProfile, AddContactProfile, createSigning,
       createContact, importSigning, Switch
  <2> QED BY <2>1, DispatchScreen
<1>2. CASE ProfileServer
  <2>1. PICK c \in calls : \/ \E reply : Answer(c, reply)
                           \/ Refuse(c)
    BY <1>2 DEF ProfileServer, Of, getProfileByPubkey, getProfile, getSigningProfiles,
       getContactProfiles, setProfileFollowing, renameProfile, changeProfileImage, deleteProfile,
       createContactProfile, createSigningProfile, importSigningProfile, getPrivateKey,
       getPaymentSummaryForPubkey, Make
  <2>2. UNCHANGED <<loading, crashed>>
    BY <1>2 DEF ProfileServer
  <2> QED BY <2>1, <2>2, AnswerScreen, RefuseScreen
<1>3. CASE ProfileReply
  <2>1. PICK c \in calls :
          \/ \E D : (\A d \in D : Covers(d)) /\ Settle(c, D)
          \/ Crash(c)
          \/ createContactProfileRejected(c)
          \/ ProfileThunkRejected(c)
    BY <1>3, ProfileThunksCover DEF ProfileReply, fetchProfileFulfilled,
       fetchPaymentSummaryForPubkeyFulfilled, fetchSigningProfilesFulfilled,
       fetchContactProfilesFulfilled, setProfileFulfilled, setDeleteProfileFulfilled,
       getProfilePrivateKeyFulfilled, ProfileReducerThrows, AddContactProfileFulfilled,
       createProfileFulfilled
  <2>2. CASE createContactProfileRejected(c)
    <3>1. c.status \notin Blocking \ {None}
      BY <2>2, OthersDoNotCover DEF createContactProfileRejected, ProfileThunks, ScreenInv
    <3>2. \A d \in {fetchProfile(c.arg)} : Covers(d)
      BY ProfileThunksCover
    <3>3. loading \ {} = loading
      OBVIOUS
    <3> QED BY <2>2, <3>1, <3>2, <3>3, StartScreen DEF createContactProfileRejected
  <2>3. CASE ProfileThunkRejected(c)
    BY <2>3, RejectedElsewhere DEF ProfileThunkRejected
  <2> QED BY <2>1, <2>2, <2>3, SettleScreen, CrashScreen
<1> QED BY <1>1, <1>2, <1>3

LEMMA PeersScreen ==
    ASSUME ScreenInv, PeerUser \/ PeerServer \/ PeerReply
    PROVE  ScreenInv'
<1> USE DEF Covers, Blocking, Read, ChangePeers, Write
<1>1. \A a : Covers(fetchPeer(a)) /\ Covers(fetchSavedPeers) /\ Covers(setSavePeer(a))
  BY DEF fetchPeer, fetchSavedPeers, setSavePeer
<1>2. \A p : /\ Covers(setDeletePeer(p)) /\ Covers(setPeerAutoconnectEnabled(p))
             /\ Covers(setPeerAutoconnectDisabled(p))
  BY DEF setDeletePeer, setPeerAutoconnectEnabled, setPeerAutoconnectDisabled
<1>3. CASE PeerUser
  <2>1. \E D : (\A d \in D : Covers(d)) /\ Dispatch(D)
    <3> HIDE DEF Covers
    <3> QED BY <1>3, <1>1, <1>2 DEF PeerUser, OpenPeer, AddPeer, OpenPeers, ClickPeerSwitch,
               ClickDeletePeer, ClickPeerCardSwitch, Toggle
  <2> QED BY <2>1, DispatchScreen
<1>4. CASE PeerServer
  <2>1. PICK c \in calls : \/ \E reply : Answer(c, reply)
                           \/ Refuse(c)
    BY <1>4 DEF PeerServer, Of, getPeer, getSavedPeers, savePeer, deletePeer, enableAutoconnectPeer,
       disableAutoconnectPeer
  <2>2. UNCHANGED <<loading, crashed>>
    BY <1>4 DEF PeerServer
  <2> QED BY <2>1, <2>2, AnswerScreen, RefuseScreen
<1>5. CASE PeerReply
  <2>1. PICK c \in calls : Settle(c, {}) \/ PeerThunkRejected(c)
    BY <1>5 DEF PeerReply, fetchPeerFulfilled, fetchSavedPeersFulfilled, setSavePeerFulfilled,
       setDeletePeerFulfilled, setPeerAutoconnectFulfilled
  <2>2. CASE PeerThunkRejected(c)
    BY <2>2, RejectedElsewhere DEF PeerThunkRejected
  <2> QED BY <2>1, <2>2, SettleScreen
<1> QED BY <1>3, <1>4, <1>5

LEMMA PaymentsScreen ==
    ASSUME ScreenInv, PaymentUser \/ PaymentRecorded \/ PaymentServer \/ PaymentReply
    PROVE  ScreenInv'
<1>1. ASSUME NEW kind, NEW owner, NEW last
      PROVE  Covers(fetchList(kind, owner, last))
  BY DEF fetchList, fetchSentPayments, fetchReceivedPayments, fetchPayments, Read, StatusOf,
         Covers, Blocking
<1>2. Covers(fetchPaymentSummary)
  BY DEF fetchPaymentSummary, Read, Covers, Blocking
<1>3. CASE UNCHANGED thunkVars
  BY <1>3 DEF thunkVars, ScreenInv, ScreenBlockedByCall
<1>4. CASE PaymentUser
  <2>1. CASE \E kind, owner : MountPayments(kind, owner)
    <3>1. PICK kind, owner : MountPayments(kind, owner)
      BY <2>1
    <3>2. \A d \in {fetchList(kind, owner, None)} : Covers(d)
      BY <1>1
    <3>3. calls \ {} = calls
      OBVIOUS
    <3> QED BY <3>1, <3>2, <3>3, StartScreen DEF MountPayments
  <2>2. CASE \E D : (\A d \in D : Covers(d)) /\ Dispatch(D)
    BY <2>2, DispatchScreen
  <2> QED BY <1>4, <1>1, <1>2, <1>3, <2>1, <2>2
          DEF PaymentUser, OpenPayments, SwitchTab, LoadMore, OpenFeed
<1>5. CASE PaymentRecorded
  BY <1>5, <1>3 DEF PaymentRecorded
<1>6. CASE PaymentServer
  BY <1>6, AnswerScreen DEF PaymentServer, Of, getSentPayments, getReceivedPayments, getPaymentSummary
<1>7. CASE PaymentReply
  <2>1. PICK c \in calls : Settle(c, {}) \/ PaymentThunkRejected(c)
    BY <1>7 DEF PaymentReply, fetchPaymentsFulfilled, fetchPaymentSummaryFulfilled
  <2>2. CASE PaymentThunkRejected(c)
    BY <2>2, RejectedElsewhere DEF PaymentThunkRejected
  <2> QED BY <2>1, <2>2, SettleScreen
<1> QED BY <1>4, <1>5, <1>6, <1>7

LEMMA SettingsScreen ==
    ASSUME ScreenInv, SettingsUser \/ SettingsServer \/ SettingsReply
    PROVE  ScreenInv'
<1>1. ASSUME NEW x
      PROVE  /\ Covers(fetchTwitterAccounts) /\ Covers(setCreateTwitterAccount(x))
             /\ Covers(setDeleteTwitterAccount(x)) /\ Covers(fetchSellPrice)
             /\ Covers(setSellPrice(x)) /\ Covers(setClearSellPrice) /\ Covers(fetchNetwork)
             /\ Covers(fetchExternalAddress) /\ Covers(setLogout)
  BY DEF fetchTwitterAccounts, setCreateTwitterAccount, setDeleteTwitterAccount, fetchSellPrice,
         setSellPrice, setClearSellPrice, fetchNetwork, fetchExternalAddress, setLogout,
         Read, Write, Covers, Blocking
<1>2. CASE SettingsUser
  <2>1. \E D : (\A d \in D : Covers(d)) /\ Dispatch(D)
    BY <1>2, <1>1 DEF SettingsUser, OpenApp, OpenTwitterAccounts, OpenAddress, OpenNetwork,
       addTwitterAccount, ClickDeleteAccount, submitSellPrice, setSellPriceToDefault, ClickLogout
  <2> QED BY <2>1, DispatchScreen
<1>3. CASE SettingsServer
  <2>1. PICK c \in calls : \/ \E reply : Answer(c, reply)
                           \/ Refuse(c)
    BY <1>3 DEF SettingsServer, Of, getTwitterAccounts, createTwitterAccount, deleteTwitterAccount,
       getSellPrice, updateSellPrice, clearSellPrice, getNetwork, getExternalAddress, logout,
       Redirected
  <2>2. UNCHANGED <<loading, crashed>>
    BY <1>3 DEF SettingsServer
  <2> QED BY <2>1, <2>2, AnswerScreen, RefuseScreen
<1>4. CASE SettingsReply
  <2>1. PICK c \in calls : Settle(c, {}) \/ setLogoutFulfilled(c) \/ SettingsThunkRejected(c)
    BY <1>4 DEF SettingsReply, twitterAccountsFulfilled, sellPriceFulfilled,
       fetchNetworkFulfilled, fetchExternalAddressFulfilled
  <2>2. CASE setLogoutFulfilled(c)
    BY <2>2 DEF setLogoutFulfilled, ScreenInv, ScreenBlockedByCall
  <2>3. CASE SettingsThunkRejected(c)
    BY <2>3, RejectedElsewhere DEF SettingsThunkRejected
  <2> QED BY <2>1, <2>2, <2>3, SettleScreen
<1> QED BY <1>2, <1>3, <1>4

LEMMA ScreenInvNext == ScreenInv /\ [Next]_vars => ScreenInv'
<1> SUFFICES ASSUME ScreenInv, [Next]_vars
             PROVE  ScreenInv'
  OBVIOUS
<1>1. CASE Lost
  BY <1>1, RefuseScreen DEF Lost, Lose
<1>2. CASE UNCHANGED vars
  BY <1>2 DEF vars, thunkVars, ScreenInv, ScreenBlockedByCall
<1> QED BY <1>1, <1>2, SqueaksScreen, ProfilesScreen, PeersScreen, PaymentsScreen, SettingsScreen
        DEF Next, Squeaks, Profiles, Peers, Payments, Settings
-----------------------------------------------------------------------------
(* The page of a squeak.                                                   *)

\* What is left to ask for, of the calls whose replies the page takes.
Asks(c) ==
    /\ c.thunk = "fetchSqueak" => c.todo \in {<<<<"getSqueak", c.arg>>>>, <<>>}
    /\ c.thunk = "setDownloadSqueak" =>
        c.todo \in {<<<<"downloadSqueak", c.arg>>, <<"getSqueak", c.arg>>>>,
                    <<<<"getSqueak", c.arg>>>>, <<>>}
    /\ c.thunk = "fetchSqueakOffers" => c.todo \in {<<<<"getSqueakOffers", c.arg>>>>, <<>>}

\* Their replies are about the squeak that was asked for.
AboutArgument(c) ==
    c.todo = <<>> /\ c.reply # Error =>
        /\ c.thunk \in {"fetchSqueak", "setDownloadSqueak"} =>
            c.reply = None \/ c.reply.hash = c.arg
        /\ c.thunk = "fetchSqueakOffers" => \A o \in c.reply : OfferOf[o] = c.arg

Asked(c) == IsCall(c) /\ Asks(c) /\ AboutArgument(c)

CallsInv == \A c \in calls : Asked(c)

\* A thunk that is dispatched asks for its argument.
Opens(d) == Asks(d) /\ (d.thunk = "fetchSqueakOffers" => d.todo # <<>>)

LEMMA BeginAsked ==
    ASSUME NEW D, \A d \in D : Opens(d),
           NEW rest, \A c \in rest : Asked(c),
           NEW id
    PROVE  \A e \in Begin(D, id, rest) : Asked(e)
<1> DEFINE Marked(c) == [c EXCEPT !.crossed = @ \/ \E d \in Followed(D) : d.writes]
<1>1. \A c \in rest : Asked(Marked(c))
  <2> SUFFICES ASSUME NEW c \in rest
               PROVE  Asked(Marked(c))
    OBVIOUS
  <2>1. PICK x : Marked(c) = [c EXCEPT !.crossed = x]
    OBVIOUS
  <2>2. Marked(c) = [thunk |-> c.thunk, arg |-> c.arg, todo |-> c.todo, status |-> c.status,
                     writes |-> c.writes, id |-> c.id, reply |-> c.reply, crossed |-> x]
    <3>1. IsCall(c)
      BY DEF Asked
    <3> HIDE DEF Marked
    <3> QED BY <2>1, <3>1 DEF IsCall
  <2> HIDE DEF Marked
  <2> QED BY <2>2 DEF Asked, IsCall, Asks, AboutArgument
<1>2. \A d \in D : Asked(Started(d, id, rest))
  BY DEF Asked, IsCall, Asks, AboutArgument, Opens, Started
<1>3. \A e \in Begin(D, id, rest) :
        \/ \E c \in rest : e = Marked(c)
        \/ \E d \in D : e = Started(d, id, rest)
  BY DEF Begin, Followed
<1> HIDE DEF Marked
<1> QED BY <1>1, <1>2, <1>3

LEMMA ReplaceAsked ==
    ASSUME CallsInv, NEW c \in calls, NEW todo, NEW reply,
           Replace(c, [c EXCEPT !.todo = todo, !.reply = reply]),
           \A d : /\ IsCall(d) /\ d.thunk = c.thunk /\ d.arg = c.arg
                  /\ d.todo = todo /\ d.reply = reply
                  => Asks(d) /\ AboutArgument(d)
    PROVE  CallsInv'
<1> DEFINE e == [c EXCEPT !.todo = todo]
           d == [c EXCEPT !.todo = todo, !.reply = reply]
<1>1. d = [thunk |-> c.thunk, arg |-> c.arg, todo |-> todo, status |-> c.status,
           writes |-> c.writes, id |-> c.id, reply |-> reply, crossed |-> c.crossed]
  <2>1. IsCall(c)
    BY DEF CallsInv, Asked
  <2>2. e = [thunk |-> c.thunk, arg |-> c.arg, todo |-> todo, status |-> c.status,
             writes |-> c.writes, id |-> c.id, reply |-> c.reply, crossed |-> c.crossed]
    BY <2>1 DEF IsCall
  <2>3. d = [e EXCEPT !.reply = reply]
    OBVIOUS
  <2> HIDE DEF e, d
  <2> QED BY <2>2, <2>3
<1>2. calls' = (calls \ {c}) \cup {d}
  BY DEF Replace
<1> HIDE DEF d
<1>3. IsCall(d) /\ d.thunk = c.thunk /\ d.arg = c.arg /\ d.todo = todo /\ d.reply = reply
  BY <1>1 DEF IsCall
<1> QED BY <1>2, <1>3 DEF CallsInv, Asked

LEMMA RefuseAsked ==
    ASSUME CallsInv, NEW c \in calls, Refuse(c)
    PROVE  CallsInv'
BY ReplaceAsked DEF Refuse, Asks, AboutArgument

\* What the node answers to the request that is next.
Says(request, c, reply) ==
    /\ request = "getSqueak" => reply = EntryOf(Argument(c))
    /\ request = "getSqueakOffers" => reply = UnpaidOffers(Argument(c))

LEMMA OneLeft ==
    ASSUME NEW x
    PROVE  <<x>> # <<>> /\ Head(<<x>>) = x /\ Tail(<<x>>) = <<>>
OBVIOUS

LEMMA TwoLeft ==
    ASSUME NEW x, NEW y
    PROVE  Head(<<x, y>>) = x /\ Tail(<<x, y>>) = <<y>>
OBVIOUS

LEMMA EntryAbout ==
    ASSUME NEW s
    PROVE  EntryOf(s) = None \/ EntryOf(s).hash = s
BY DEF EntryOf

LEMMA AnswerAsked ==
    ASSUME CallsInv, NEW c \in calls, NEW request, NEW reply,
           At(c, request), Says(request, c, reply), Answer(c, reply)
    PROVE  CallsInv'
<1>1. Asked(c)
  BY DEF CallsInv
<1>2. Replace(c, [c EXCEPT !.todo = Tail(c.todo), !.reply = reply])
  BY <1>1 DEF Answer, Asked, IsCall
<1>3. SUFFICES ASSUME NEW d, d.thunk = c.thunk, d.arg = c.arg, d.todo = Tail(c.todo),
                      d.reply = reply
               PROVE  Asks(d) /\ AboutArgument(d)
  BY <1>2, ReplaceAsked
<1>4. c.todo # <<>> /\ Head(c.todo)[1] = request
  BY DEF At
<1>5. ASSUME c.todo = <<<<"getSqueak", c.arg>>>>
      PROVE  d.todo = <<>> /\ (d.reply = None \/ d.reply.hash = d.arg)
  <2>1. Head(c.todo) = <<"getSqueak", c.arg>> /\ Tail(c.todo) = <<>>
    BY <1>5, OneLeft
  <2>2. request = "getSqueak" /\ Argument(c) = c.arg
    BY <2>1, <1>4 DEF Argument
  <2> QED BY <2>1, <2>2, <1>3, EntryAbout DEF Says
<1>6. CASE c.thunk = "fetchSqueak"
  <2>1. c.todo = <<<<"getSqueak", c.arg>>>>
    BY <1>1, <1>4, <1>6 DEF Asked, Asks
  <2> QED BY <2>1, <1>3, <1>5, <1>6 DEF Asks, AboutArgument
<1>7. CASE c.thunk = "setDownloadSqueak"
  <2>1. CASE c.todo = <<<<"getSqueak", c.arg>>>>
    BY <2>1, <1>3, <1>5, <1>7 DEF Asks, AboutArgument
  <2>2. CASE c.todo = <<<<"downloadSqueak", c.arg>>, <<"getSqueak", c.arg>>>>
    <3>1. d.todo = <<<<"getSqueak", d.arg>>>>
      BY <1>3, <2>2, TwoLeft
    <3>2. d.todo # <<>>
      BY <3>1, OneLeft
    <3> QED BY <3>1, <3>2, <1>3, <1>7 DEF Asks, AboutArgument
  <2> QED BY <1>1, <1>4, <1>7, <2>1, <2>2 DEF Asked, Asks
<1>8. CASE c.thunk = "fetchSqueakOffers"
  <2>1. c.todo = <<<<"getSqueakOffers", c.arg>>>>
    BY <1>1, <1>4, <1>8 DEF Asked, Asks
  <2>2. Head(c.todo) = <<"getSqueakOffers", c.arg>> /\ Tail(c.todo) = <<>>
    BY <2>1, OneLeft
  <2>3. request = "getSqueakOffers" /\ Argument(c) = c.arg
    BY <2>2, <1>4 DEF Argument
  <2> QED BY <2>2, <2>3, <1>3, <1>8 DEF Says, UnpaidOffers, Asks, AboutArgument
<1>9. CASE c.thunk \notin {"fetchSqueak", "setDownloadSqueak", "fetchSqueakOffers"}
  BY <1>3, <1>9 DEF Asks, AboutArgument
<1> QED BY <1>6, <1>7, <1>8, <1>9

LEMMA EndAsked ==
    ASSUME CallsInv, NEW c \in calls,
           \/ \E D : (\A d \in D : Opens(d)) /\ Settle(c, D)
           \/ Crash(c)
           \/ \E hasCase, fields : Rejected(c, hasCase, fields)
    PROVE  CallsInv'
<1>1. \A d \in calls \ {c} : Asked(d)
  BY DEF CallsInv
<1>2. ASSUME NEW D, \A d \in D : Opens(d), Settle(c, D)
      PROVE  CallsInv'
  BY <1>1, <1>2, BeginAsked DEF Settle, CallsInv
<1> QED BY <1>1, <1>2 DEF Crash, Rejected, CallsInv

LEMMA DispatchAsked ==
    ASSUME CallsInv, NEW D, \A d \in D : Opens(d), Dispatch(D)
    PROVE  CallsInv'
BY BeginAsked DEF Dispatch, CallsInv

LEMMA SqueakThunksOpen ==
    ASSUME NEW s, NEW o
    PROVE  /\ Opens(fetchSqueak(s)) /\ Opens(setLikeSqueak(s)) /\ Opens(setUnlikeSqueak(s))
           /\ Opens(setDeleteSqueak(s)) /\ Opens(fetchAncestorSqueaks(s))
           /\ Opens(fetchReplySqueaks(s)) /\ Opens(fetchTimeline) /\ Opens(fetchSearch)
           /\ Opens(fetchProfileSqueaks) /\ Opens(setMakeSqueak(s))
           /\ Opens(fetchSqueakOffers(s)) /\ Opens(setBuySqueak(o, s))
           /\ Opens(setDownloadSqueak(s)) /\ Opens(fetchPaymentSummaryForSqueak(s))
           /\ \A d \in SqueakMounted(s) : Opens(d)
<1>1. <<<<"getSqueakOffers", s>>>> # <<>>
  BY OneLeft
<1> QED BY <1>1 DEF Opens, Asks, Read, Write, SqueakMounted, fetchSqueak, setLikeSqueak,
       setUnlikeSqueak, setDeleteSqueak, fetchAncestorSqueaks, fetchReplySqueaks, fetchTimeline,
       fetchSearch, fetchProfileSqueaks, setMakeSqueak, fetchSqueakOffers, setBuySqueak,
       setDownloadSqueak, fetchPaymentSummaryForSqueak

\* How a step of one of the slices changes the calls.
CallStep ==
    \/ UNCHANGED calls \/ calls' = {}
    \/ \E D : (\A d \in D : Opens(d)) /\ Dispatch(D)
    \/ \E c \in calls :
        \/ \E request, reply : At(c, request) /\ Says(request, c, reply) /\ Answer(c, reply)
        \/ Refuse(c)
        \/ \E D : (\A d \in D : Opens(d)) /\ Settle(c, D)
        \/ Crash(c)
        \/ \E hasCase, fields : Rejected(c, hasCase, fields)
    \/ \E gone, D, id : /\ gone \in SUBSET calls /\ \A d \in D : Opens(d)
                        /\ calls' = Begin(D, id, calls \ gone)

LEMMA CallStepAsked ==
    ASSUME CallsInv, CallStep
    PROVE  CallsInv'
<1>1. ASSUME NEW gone \in SUBSET calls, NEW D, NEW id, \A d \in D : Opens(d),
             calls' = Begin(D, id, calls \ gone)
      PROVE  CallsInv'
  <2>1. \A c \in calls \ gone : Asked(c)
    BY DEF CallsInv
  <2> QED BY <1>1, <2>1, BeginAsked DEF CallsInv
<1> QED BY <1>1, AnswerAsked, RefuseAsked, EndAsked, DispatchAsked DEF CallStep, CallsInv

LEMMA SqueaksCallStep ==
    ASSUME SqueakUser \/ SqueakServer \/ SqueakReply
    PROVE  CallStep
<1>1. CASE SqueakUser
  <2>1. CASE \E s \in Squeak : OpenSqueak(s)
    BY <2>1, SqueakThunksOpen DEF OpenSqueak, CallStep
  <2>2. CASE OpenTimeline \/ OpenSearch \/ OpenProfileSqueaks
    BY <2>2, SqueakThunksOpen DEF OpenTimeline, OpenSearch, OpenProfileSqueaks, OpenList, CallStep
  <2>3. ASSUME NEW e, NEW s, Heart(e, s)
        PROVE  CallStep
    BY <2>3, SqueakThunksOpen DEF Heart, CallStep
  <2>4. CASE ClickPageHeart \/ ClickPageDelete \/ ClickDownload
    BY <2>3, <2>4, SqueakThunksOpen DEF ClickPageHeart, ClickPageDelete, ClickDownload, CallStep
  <2>5. CASE \E e \in Cards : ClickCardHeart(e) \/ ClickCardDelete(e)
    BY <2>3, <2>5, SqueakThunksOpen DEF ClickCardHeart, ClickCardDelete, CallStep
  <2>6. CASE toggleBuyModal \/ ClickBuy
    BY <2>6, SqueakThunksOpen DEF toggleBuyModal, ClickBuy, CallStep, thunkVars
  <2>7. CASE \E o \in Offer : handleChangeOffer(o)
    BY <2>7 DEF handleChangeOffer, CallStep, thunkVars
  <2>8. CASE \E r \in ReplyTargets : submitSqueak(r)
    BY <2>8, SqueakThunksOpen DEF submitSqueak, CallStep
  <2> QED BY <1>1, <2>1, <2>2, <2>4, <2>5, <2>6, <2>7, <2>8 DEF SqueakUser
<1>2. CASE SqueakServer
  <2>1. \E c \in calls :
          \/ \E request, reply : At(c, request) /\ Says(request, c, reply) /\ Answer(c, reply)
          \/ Refuse(c)
    BY <1>2 DEF Says, SqueakServer, Of, getSqueak, getAncestorSqueaks, getReplySqueaks,
       getTimelineSqueaks, getSearchSqueaks, getProfileSqueaks, getSqueakOffers,
       getPaymentSummaryForSqueak, likeSqueak, unlikeSqueak, deleteSqueak, makeSqueak,
       downloadSqueak, buySqueak
  <2> QED BY <2>1 DEF CallStep
<1>3. CASE SqueakReply
  <2>1. \E c \in calls :
          \/ \E D : (\A d \in D : Opens(d)) /\ Settle(c, D)
          \/ Crash(c)
          \/ \E hasCase, fields : Rejected(c, hasCase, fields)
    BY <1>3, SqueakThunksOpen DEF SqueakReply, fetchSqueakFulfilled,
       fetchAncestorSqueaksFulfilled, fetchReplySqueaksFulfilled, fetchListFulfilled,
       fetchSqueakOffersFulfilled, fetchPaymentSummaryForSqueakFulfilled, setLikeSqueakFulfilled,
       setUnlikeSqueakFulfilled, setDeleteSqueakFulfilled, setMakeSqueakFulfilled,
       setBuySqueakFulfilled, setDownloadSqueakFulfilled, SqueakReducerThrows, SqueakThunkRejected
  <2> QED BY <2>1 DEF CallStep
<1> QED BY <1>1, <1>2, <1>3

\* A thunk of another slice asks for no squeak and no offers.
LEMMA OthersOpen ==
    ASSUME NEW d,
           d.thunk \notin {"fetchSqueak", "setDownloadSqueak", "fetchSqueakOffers"}
    PROVE  Opens(d)
BY DEF Opens, Asks

LEMMA ProfilesCallStep ==
    ASSUME ProfileUser \/ ProfileServer \/ ProfileReply
    PROVE  CallStep
<1>1. ASSUME NEW k, NEW id, NEW name, NEW page, NEW sure
      PROVE  /\ Opens(fetchProfile(k)) /\ Opens(setFollowProfile(id)) /\ Opens(setUnfollowProfile(id))
             /\ Opens(setRenameProfile(id, name)) /\ Opens(setProfileImage(id))
             /\ Opens(setDeleteProfile(id)) /\ Opens(fetchSigningProfiles)
             /\ Opens(fetchContactProfiles) /\ Opens(setCreateContactProfile(page, name, k))
             /\ Opens(setCreateSigningProfile(name)) /\ Opens(setImportSigningProfile(name, k))
             /\ Opens(getProfilePrivateKey(id, page, sure))
             /\ Opens(fetchPaymentSummaryForPubkey(k))
             /\ \A d \in ProfileMounted(k) : Opens(d)
  BY DEF Opens, Asks, Read, Write, Change, Create, ProfileMounted, fetchProfile,
         setFollowProfile, setUnfollowProfile, setRenameProfile, setProfileImage,
         setDeleteProfile, fetchSigningProfiles, fetchContactProfiles, setCreateContactProfile,
         setCreateSigningProfile, setImportSigningProfile, getProfilePrivateKey,
         fetchPaymentSummaryForPubkey
<1>2. CASE ProfileUser
  <2>1. \E D : (\A d \in D : Opens(d)) /\ Dispatch(D)
    BY <1>1, <1>2 DEF ProfileUser, OpenProfile, OpenSigningProfiles,
       OpenContactProfiles, OpenMakeSqueak, ClickFollow, changeAvatar, ClickDeleteProfile,
       exportPrivateKey, ClickCardFollow, editProfile, AddContactProfile, createSigning,
       createContact, importSigning, Switch
  <2> QED BY <2>1 DEF CallStep
<1>3. CASE ProfileServer
  <2>1. \E c \in calls :
          \/ \E request, reply : At(c, request) /\ Says(request, c, reply) /\ Answer(c, reply)
          \/ Refuse(c)
    BY <1>3 DEF Says, ProfileServer, Of, getProfileByPubkey, getProfile, getSigningProfiles,
       getContactProfiles, setProfileFollowing, renameProfile, changeProfileImage, deleteProfile,
       createContactProfile, createSigningProfile, importSigningProfile, getPrivateKey,
       getPaymentSummaryForPubkey, Make
  <2> QED BY <2>1 DEF CallStep
<1>4. CASE ProfileReply
  <2>1. PICK c \in calls :
          \/ \E D : (\A d \in D : Opens(d)) /\ Settle(c, D)
          \/ Crash(c)
          \/ createContactProfileRejected(c)
          \/ ProfileThunkRejected(c)
    BY <1>1, <1>4 DEF ProfileReply, fetchProfileFulfilled,
       fetchPaymentSummaryForPubkeyFulfilled, fetchSigningProfilesFulfilled,
       fetchContactProfilesFulfilled, setProfileFulfilled, setDeleteProfileFulfilled,
       getProfilePrivateKeyFulfilled, ProfileReducerThrows, AddContactProfileFulfilled,
       createProfileFulfilled
  <2>2. CASE createContactProfileRejected(c)
    <3>1. {c} \in SUBSET calls /\ \A d \in {fetchProfile(c.arg)} : Opens(d)
      BY <1>1
    <3> QED BY <2>2, <3>1 DEF createContactProfileRejected, CallStep
  <2>3. CASE ProfileThunkRejected(c)
    BY <2>3 DEF ProfileThunkRejected, CallStep
  <2> QED BY <2>1, <2>2, <2>3 DEF CallStep
<1> QED BY <1>2, <1>3, <1>4

LEMMA PeersCallStep ==
    ASSUME PeerUser \/ PeerServer \/ PeerReply
    PROVE  CallStep
<1>1. ASSUME NEW a, NEW p
      PROVE  /\ Opens(fetchPeer(a)) /\ Opens(fetchSavedPeers) /\ Opens(setSavePeer(a))
             /\ Opens(setDeletePeer(p)) /\ Opens(setPeerAutoconnectEnabled(p))
             /\ Opens(setPeerAutoconnectDisabled(p))
  BY OthersOpen DEF fetchPeer, fetchSavedPeers, setSavePeer, setDeletePeer,
     setPeerAutoconnectEnabled, setPeerAutoconnectDisabled, Read, Write, ChangePeers
<1>2. CASE PeerUser
  BY <1>1, <1>2 DEF PeerUser, OpenPeer, AddPeer, OpenPeers, ClickPeerSwitch, ClickDeletePeer,
     ClickPeerCardSwitch, Toggle, CallStep
<1>3. CASE PeerServer
  <2>1. \E c \in calls :
          \/ \E request, reply : At(c, request) /\ Says(request, c, reply) /\ Answer(c, reply)
          \/ Refuse(c)
    BY <1>3 DEF Says, PeerServer, Of, getPeer, getSavedPeers, savePeer, deletePeer,
       enableAutoconnectPeer, disableAutoconnectPeer
  <2> QED BY <2>1 DEF CallStep
<1>4. CASE PeerReply
  BY <1>4 DEF PeerReply, fetchPeerFulfilled, fetchSavedPeersFulfilled, setSavePeerFulfilled,
     setDeletePeerFulfilled, setPeerAutoconnectFulfilled, PeerThunkRejected, CallStep
<1> QED BY <1>2, <1>3, <1>4

LEMMA PaymentsCallStep ==
    ASSUME PaymentUser \/ PaymentRecorded \/ PaymentServer \/ PaymentReply
    PROVE  CallStep
<1>1. ASSUME NEW kind, NEW owner, NEW last
      PROVE  Opens(fetchList(kind, owner, last)) /\ Opens(fetchPaymentSummary)
  BY OthersOpen DEF fetchList, fetchSentPayments, fetchReceivedPayments, fetchPayments, Read,
     fetchPaymentSummary
<1>2. ASSUME NEW kind, NEW owner, MountPayments(kind, owner)
      PROVE  CallStep
  <2>1. {} \in SUBSET calls /\ calls \ {} = calls
        /\ \A d \in {fetchList(kind, owner, None)} : Opens(d)
    BY <1>1
  <2>2. calls' = Begin({fetchList(kind, owner, None)}, events + 1, calls \ {})
    BY <1>2, <2>1 DEF MountPayments
  <2> QED BY <2>1, <2>2 DEF CallStep
<1>3. CASE PaymentUser
  BY <1>1, <1>2, <1>3
     DEF PaymentUser, OpenPayments, SwitchTab, LoadMore, OpenFeed, CallStep, thunkVars
<1>4. CASE PaymentRecorded
  BY <1>4 DEF PaymentRecorded, CallStep, thunkVars
<1>5. CASE PaymentServer
  <2>1. \E c \in calls : \E request, reply :
            At(c, request) /\ Says(request, c, reply) /\ Answer(c, reply)
    BY <1>5 DEF Says, PaymentServer, Of, getSentPayments, getReceivedPayments, getPaymentSummary
  <2> QED BY <2>1 DEF CallStep
<1>6. CASE PaymentReply
  BY <1>6 DEF PaymentReply, fetchPaymentsFulfilled, fetchPaymentSummaryFulfilled,
     PaymentThunkRejected, CallStep
<1> QED BY <1>3, <1>4, <1>5, <1>6

LEMMA SettingsCallStep ==
    ASSUME SettingsUser \/ SettingsServer \/ SettingsReply
    PROVE  CallStep
<1>1. ASSUME NEW x
      PROVE  /\ Opens(fetchTwitterAccounts) /\ Opens(setCreateTwitterAccount(x))
             /\ Opens(setDeleteTwitterAccount(x)) /\ Opens(fetchSellPrice)
             /\ Opens(setSellPrice(x)) /\ Opens(setClearSellPrice) /\ Opens(fetchNetwork)
             /\ Opens(fetchExternalAddress) /\ Opens(setLogout)
  BY OthersOpen DEF fetchTwitterAccounts, setCreateTwitterAccount, setDeleteTwitterAccount,
     fetchSellPrice, setSellPrice, setClearSellPrice, fetchNetwork, fetchExternalAddress,
     setLogout, Read, Write
<1>2. CASE SettingsUser
  BY <1>1, <1>2 DEF SettingsUser, OpenApp, OpenTwitterAccounts, OpenAddress, OpenNetwork,
     addTwitterAccount, ClickDeleteAccount, submitSellPrice, setSellPriceToDefault, ClickLogout,
     CallStep
<1>3. CASE SettingsServer
  <2>1. \E c \in calls :
          \/ \E request, reply : At(c, request) /\ Says(request, c, reply) /\ Answer(c, reply)
          \/ Refuse(c)
    BY <1>3 DEF Says, SettingsServer, Of, getTwitterAccounts, createTwitterAccount,
       deleteTwitterAccount, getSellPrice, updateSellPrice, clearSellPrice, getNetwork,
       getExternalAddress, logout, Redirected
  <2> QED BY <2>1 DEF CallStep
<1>4. CASE SettingsReply
  BY <1>4 DEF SettingsReply, twitterAccountsFulfilled, sellPriceFulfilled, fetchNetworkFulfilled,
     fetchExternalAddressFulfilled, setLogoutFulfilled, SettingsThunkRejected, CallStep
<1> QED BY <1>2, <1>3, <1>4

LEMMA CallsInvNext == CallsInv /\ [Next]_vars => CallsInv'
<1>1. CASE Lost
  BY <1>1, RefuseAsked DEF Lost, Lose
<1>2. CASE UNCHANGED vars
  BY <1>2 DEF vars, thunkVars, CallsInv
<1> QED BY <1>1, <1>2, CallStepAsked, SqueaksCallStep, ProfilesCallStep, PeersCallStep,
           PaymentsCallStep, SettingsCallStep
        DEF Next, Squeaks, Profiles, Peers, Payments, Settings

\* The page of another squeak starts without answers for it.
LEMMA ShowSqueakPage ==
    ASSUME NEW s, ShowSqueak(s)
    PROVE  PageShowsItsSqueak'
BY DEF ShowSqueak, PageShowsItsSqueak, PageFields

LEMMA SqueakUserPage ==
    ASSUME PageShowsItsSqueak, SqueakUser
    PROVE  PageShowsItsSqueak'
<1>1. CASE UNCHANGED squeakVars
  BY <1>1 DEF PageShowsItsSqueak, squeakVars, squeakFields, squeakPage
<1>2. CASE \E s \in Squeak : OpenSqueak(s)
  BY <1>2, ShowSqueakPage DEF OpenSqueak
<1>3. CASE OpenTimeline \/ OpenSearch \/ OpenProfileSqueaks
  <2>1. squeakRoute' \in {"timeline", "search", "profile"}
    BY <1>3 DEF OpenTimeline, OpenSearch, OpenProfileSqueaks, OpenList
  <2> QED BY <2>1, SqueaksAssumption DEF PageShowsItsSqueak
<1>4. CASE ClickPageHeart \/ ClickPageDelete \/ ClickDownload
  BY <1>1, <1>4 DEF ClickPageHeart, ClickPageDelete, ClickDownload
<1>5. CASE \E e \in Cards : ClickCardHeart(e) \/ ClickCardDelete(e)
  BY <1>1, <1>5 DEF ClickCardHeart, ClickCardDelete
<1>6. CASE toggleBuyModal \/ ClickBuy
  BY <1>6 DEF toggleBuyModal, ClickBuy, PageShowsItsSqueak, squeakFields
<1>7. CASE \E o \in Offer : handleChangeOffer(o)
  BY <1>7 DEF handleChangeOffer, PageShowsItsSqueak, squeakFields
<1>8. CASE \E r \in ReplyTargets : submitSqueak(r)
  BY <1>1, <1>8 DEF submitSqueak
<1> QED BY <1>2, <1>3, <1>4, <1>5, <1>6, <1>7, <1>8 DEF SqueakUser

LEMMA SqueakReplyPage ==
    ASSUME CallsInv, PageShowsItsSqueak, SqueakReply
    PROVE  PageShowsItsSqueak'
<1> USE DEF PageShowsItsSqueak, squeakPage
<1> PICK c \in calls :
        \/ fetchSqueakFulfilled(c) \/ fetchAncestorSqueaksFulfilled(c)
        \/ fetchReplySqueaksFulfilled(c) \/ fetchListFulfilled(c)
        \/ fetchSqueakOffersFulfilled(c) \/ fetchPaymentSummaryForSqueakFulfilled(c)
        \/ setLikeSqueakFulfilled(c) \/ setUnlikeSqueakFulfilled(c)
        \/ setDeleteSqueakFulfilled(c) \/ setMakeSqueakFulfilled(c)
        \/ setBuySqueakFulfilled(c) \/ setDownloadSqueakFulfilled(c)
        \/ SqueakReducerThrows(c) \/ SqueakThunkRejected(c)
  BY DEF SqueakReply
<1>1. AboutArgument(c)
  BY DEF CallsInv, Asked
<1>2. CASE fetchSqueakFulfilled(c)
  <2>1. currentSqueak' = None \/ currentSqueak'.hash = c.arg
    BY <1>1, <1>2 DEF fetchSqueakFulfilled, AboutArgument, Done
  <2> QED BY <1>2, <2>1 DEF fetchSqueakFulfilled, Arrives
<1>3. CASE fetchAncestorSqueaksFulfilled(c) \/ fetchReplySqueaksFulfilled(c)
           \/ fetchPaymentSummaryForSqueakFulfilled(c)
  BY <1>3 DEF fetchAncestorSqueaksFulfilled, fetchReplySqueaksFulfilled,
     fetchPaymentSummaryForSqueakFulfilled, Arrives
<1>4. CASE fetchListFulfilled(c)
  BY <1>4 DEF fetchListFulfilled
<1>5. CASE fetchSqueakOffersFulfilled(c)
  <2>1. \A o \in squeakOffers' : OfferOf[o] = c.arg
    BY <1>1, <1>5 DEF fetchSqueakOffersFulfilled, AboutArgument, Done
  <2> QED BY <1>5, <2>1 DEF fetchSqueakOffersFulfilled, Arrives
<1>6. CASE setLikeSqueakFulfilled(c) \/ setUnlikeSqueakFulfilled(c) \/ setBuySqueakFulfilled(c)
  BY <1>6 DEF setLikeSqueakFulfilled, setUnlikeSqueakFulfilled, setBuySqueakFulfilled, StoreSqueak
<1>7. CASE setDeleteSqueakFulfilled(c)
  BY <1>7 DEF setDeleteSqueakFulfilled
<1>8. CASE setMakeSqueakFulfilled(c)
  BY <1>8, ShowSqueakPage DEF setMakeSqueakFulfilled
<1>9. CASE setDownloadSqueakFulfilled(c)
  <2>1. currentSqueak' = None \/ currentSqueak'.hash = c.arg
    BY <1>1, <1>9 DEF setDownloadSqueakFulfilled, AboutArgument, Done
  <2> QED BY <1>9, <2>1 DEF setDownloadSqueakFulfilled
<1>10. CASE SqueakReducerThrows(c) \/ SqueakThunkRejected(c)
  BY <1>10 DEF SqueakReducerThrows, SqueakThunkRejected, squeakFields
<1> QED BY <1>2, <1>3, <1>4, <1>5, <1>6, <1>7, <1>8, <1>9, <1>10

\* The strengthening that the theorem rests on.
PageInv == CallsInv /\ PageShowsItsSqueak

LEMMA PageInvNext == PageInv /\ [Next]_vars => PageInv'
<1> SUFFICES ASSUME PageInv, [Next]_vars
             PROVE  PageInv'
  OBVIOUS
<1>1. CallsInv'
  BY CallsInvNext DEF PageInv
<1>2. PageShowsItsSqueak'
  <2>1. CASE UNCHANGED <<squeakFields, squeakPage, foreign>>
    BY <2>1 DEF PageInv, PageShowsItsSqueak, squeakFields, squeakPage
  <2>2. CASE Squeaks
    BY <2>1, <2>2, SqueakUserPage, SqueakReplyPage DEF PageInv, Squeaks, SqueakServer
  <2> QED BY <2>1, <2>2 DEF Next, Lost, vars, squeakVars, butProfiles, butPeers, butPayments,
          butSettings
<1> QED BY <1>1, <1>2 DEF PageInv
-----------------------------------------------------------------------------
(* The slices share the calls: what a step of one of them leaves of the    *)
(* calls, and of what may be stale, of the others.                         *)

\* Thunks of a slice that are dispatched together; one that writes is alone.
Sent(D, T) == \A d \in D : d.thunk \in T /\ (d.writes => D = {d})

\* How a step of the slice with the thunks T changes the calls.
SliceStep(T) ==
    \/ UNCHANGED calls
    \/ \E D : Sent(D, T) /\ Dispatch(D)
    \/ \E c \in Of(T) :
        \/ \E reply : Answer(c, reply)
        \/ Refuse(c)
        \/ \E D : Sent(D, T) /\ Settle(c, D)
        \/ Crash(c)
        \/ \E hasCase, fields : Rejected(c, hasCase, fields)
    \/ \E gone \in SUBSET Of(T) : \E D, id : Sent(D, T) /\ calls' = Begin(D, id, calls \ gone)

LEMMA OneSent ==
    ASSUME NEW d, NEW T, d.thunk \in T
    PROVE  Sent({d}, T)
BY DEF Sent

LEMMA NoneSent == \A T : Sent({}, T)
BY DEF Sent

\* What a call is after steps of others.
Heir(e, c) ==
    /\ e.thunk = c.thunk /\ e.arg = c.arg /\ e.writes = c.writes /\ e.id = c.id
    /\ c.crossed => e.crossed

Waits(e, c) == Heir(e, c) /\ e.todo = c.todo /\ e.reply = c.reply

LEMMA MarkedWaits ==
    ASSUME NEW c, IsCall(c), NEW x \in BOOLEAN, NEW e, e = [c EXCEPT !.crossed = @ \/ x]
    PROVE  IsCall(e) /\ Waits(e, c) /\ (x => e.crossed)
<1>1. e = [thunk |-> c.thunk, arg |-> c.arg, todo |-> c.todo, status |-> c.status,
           writes |-> c.writes, id |-> c.id, reply |-> c.reply, crossed |-> c.crossed \/ x]
  BY DEF IsCall
<1>2. e.crossed = (c.crossed \/ x)
  BY <1>1
<1> QED BY <1>1, <1>2 DEF IsCall, Waits, Heir

Writes(D) == \E d \in Followed(D) : d.writes

\* The calls that are left wait on, they are crossed by one that writes.
LEMMA BeginHeirs ==
    ASSUME NEW D, NEW id, NEW rest, \A c \in rest : IsCall(c)
    PROVE  /\ \A e \in Begin(D, id, rest) :
                \/ \E c \in rest : Waits(e, c) /\ e = [c EXCEPT !.crossed = @ \/ Writes(D)]
                \/ \E d \in Followed(D) : e = Started(d, id, rest)
           /\ \A c \in rest : \E e \in Begin(D, id, rest) : Waits(e, c)
<1> DEFINE Marked(c) == [c EXCEPT !.crossed = @ \/ Writes(D)]
<1>1. \A c \in rest : Waits(Marked(c), c)
  BY MarkedWaits DEF Writes
<1>2. Begin(D, id, rest) = {Marked(c) : c \in rest} \cup {Started(d, id, rest) : d \in Followed(D)}
  BY DEF Begin, Writes
<1> QED BY <1>1, <1>2

\* The call c goes on with what is left and the reply.
GoesOn(c, todo, reply) ==
    \E d : /\ Heir(d, c) /\ d.todo = todo /\ d.reply = reply
          /\ calls' = (calls \ {c}) \cup {d}

LEMMA ReplaceHeirs ==
    ASSUME NEW c \in calls, IsCall(c), NEW todo, NEW reply,
           Replace(c, [c EXCEPT !.todo = todo, !.reply = reply])
    PROVE  GoesOn(c, todo, reply)
<1> DEFINE b == [c EXCEPT !.todo = todo]
           d == [c EXCEPT !.todo = todo, !.reply = reply]
<1>1. b = [thunk |-> c.thunk, arg |-> c.arg, todo |-> todo, status |-> c.status,
           writes |-> c.writes, id |-> c.id, reply |-> c.reply, crossed |-> c.crossed]
  BY DEF IsCall
<1>2. d = [b EXCEPT !.reply = reply]
  OBVIOUS
<1>3. calls' = (calls \ {c}) \cup {d}
  BY DEF Replace
<1> HIDE DEF b, d
<1>4. Heir(d, c) /\ d.todo = todo /\ d.reply = reply
  BY <1>1, <1>2 DEF Heir
<1> QED BY <1>3, <1>4 DEF GoesOn

LEMMA AnswerHeirs ==
    ASSUME NEW c \in calls, IsCall(c), NEW reply, Answer(c, reply)
    PROVE  GoesOn(c, Tail(c.todo), reply)
<1>1. Replace(c, [c EXCEPT !.todo = Tail(c.todo), !.reply = reply])
  BY DEF Answer, IsCall
<1> QED BY <1>1, ReplaceHeirs

LEMMA RefuseHeirs ==
    ASSUME NEW c \in calls, IsCall(c), Refuse(c)
    PROVE  GoesOn(c, <<>>, Error)
BY ReplaceHeirs DEF Refuse

\* A step of a slice, in three kinds.
LEMMA SliceStepKinds ==
    ASSUME NEW T, SliceStep(T), \A c \in calls : IsCall(c)
    PROVE  \/ calls' \subseteq calls /\ calls \ calls' \subseteq Of(T)
           \/ \E c \in Of(T) : \E d : Heir(d, c) /\ calls' = (calls \ {c}) \cup {d}
           \/ \E gone \in SUBSET Of(T) : \E D, id :
                    Sent(D, T) /\ calls' = Begin(D, id, calls \ gone)
<1>1. ASSUME NEW D, Sent(D, T), Dispatch(D)
      PROVE  \E gone \in SUBSET Of(T) : \E id : calls' = Begin(D, id, calls \ gone)
  <2>1. {} \in SUBSET Of(T) /\ calls' = Begin(D, events + 1, calls \ {})
    BY <1>1 DEF Dispatch
  <2> QED BY <2>1
<1>2. ASSUME NEW c \in Of(T), NEW D, Sent(D, T), Settle(c, D)
      PROVE  \E gone \in SUBSET Of(T) : \E id : calls' = Begin(D, id, calls \ gone)
  <2>1. {c} \in SUBSET Of(T) /\ calls' = Begin(D, c.id, calls \ {c})
    BY <1>2 DEF Settle
  <2> QED BY <2>1
<1>3. ASSUME NEW c \in Of(T), (\E reply : Answer(c, reply)) \/ Refuse(c)
      PROVE  \E d : Heir(d, c) /\ calls' = (calls \ {c}) \cup {d}
  <2>1. c \in calls /\ IsCall(c)
    BY DEF Of
  <2> QED BY <1>3, <2>1, AnswerHeirs, RefuseHeirs DEF GoesOn
<1>4. ASSUME NEW c \in Of(T), Crash(c) \/ \E hasCase, fields : Rejected(c, hasCase, fields)
      PROVE  calls' \subseteq calls /\ calls \ calls' \subseteq Of(T)
  BY <1>4 DEF Crash, Rejected
<1> QED BY <1>1, <1>2, <1>3, <1>4 DEF SliceStep

\* The calls of the other slices wait.
LEMMA OthersWait ==
    ASSUME NEW T, SliceStep(T), \A c \in calls : IsCall(c), NEW U, U \cap T = {}
    PROVE  /\ \A e \in calls' : e.thunk \in U => \E c \in calls : Waits(e, c)
           /\ \A c \in Of(U) : \E e \in calls' : Waits(e, c)
<1>0. \A c \in calls : Waits(c, c)
  BY DEF Waits, Heir
<1>1. CASE calls' \subseteq calls /\ calls \ calls' \subseteq Of(T)
  BY <1>0, <1>1 DEF Of
<1>2. CASE \E c \in Of(T) : \E d : Heir(d, c) /\ calls' = (calls \ {c}) \cup {d}
  BY <1>0, <1>2 DEF Of, Heir
<1>3. ASSUME NEW gone \in SUBSET Of(T), NEW D, NEW id, Sent(D, T),
             calls' = Begin(D, id, calls \ gone)
      PROVE  /\ \A e \in calls' : e.thunk \in U => \E c \in calls : Waits(e, c)
             /\ \A c \in Of(U) : \E e \in calls' : Waits(e, c)
  <2>1. \A c \in calls \ gone : IsCall(c)
    OBVIOUS
  <2>2. /\ \A e \in calls' : \/ \E c \in calls \ gone : Waits(e, c)
                             \/ \E d \in Followed(D) : e = Started(d, id, calls \ gone)
        /\ \A c \in calls \ gone : \E e \in calls' : Waits(e, c)
    <3> DEFINE rest == calls \ gone
    <3>1. calls' = Begin(D, id, rest) /\ \A c \in rest : IsCall(c)
      BY <1>3, <2>1
    <3> HIDE DEF rest
    <3>2. \A e \in Begin(D, id, rest) :
            \/ \E c \in rest : Waits(e, c) /\ e = [c EXCEPT !.crossed = @ \/ Writes(D)]
            \/ \E d \in Followed(D) : e = Started(d, id, rest)
      BY <3>1, BeginHeirs
    <3>3. \A c \in rest : \E e \in Begin(D, id, rest) : Waits(e, c)
      BY <3>1, BeginHeirs
    <3> QED BY <3>1, <3>2, <3>3 DEF rest
  <2>3. \A d \in Followed(D) : Started(d, id, calls \ gone).thunk \in T
    BY <1>3 DEF Followed, Sent, Started
  <2>4. Of(U) \subseteq calls \ gone
    BY DEF Of
  <2> QED BY <2>2, <2>3, <2>4
<1> QED BY <1>1, <1>2, <1>3, SliceStepKinds

\* Of two calls that overlap, one is crossed if the other one writes.
CrossInv == \A c, d \in calls : c # d /\ d.writes => c.crossed

LEMMA CrossInvKept ==
    ASSUME CrossInv, NEW T, SliceStep(T), \A c \in calls : IsCall(c)
    PROVE  CrossInv'
<1>1. CASE calls' \subseteq calls
  BY <1>1 DEF CrossInv
<1>2. CASE \E c \in Of(T) : \E d : Heir(d, c) /\ calls' = (calls \ {c}) \cup {d}
  BY <1>2 DEF CrossInv, Heir, Of
<1>3. ASSUME NEW gone \in SUBSET Of(T), NEW D, NEW id, Sent(D, T),
             calls' = Begin(D, id, calls \ gone)
      PROVE  CrossInv'
  <2> DEFINE rest == calls \ gone
             Marked(c) == [c EXCEPT !.crossed = @ \/ Writes(D)]
  <2>1. \A c \in rest : IsCall(c)
    OBVIOUS
  <2>2. \A e \in calls' : \/ \E c \in rest : e = Marked(c)
                          \/ \E d \in Followed(D) : e = Started(d, id, rest)
    BY <1>3, <2>1, BeginHeirs
  <2>3. \A c \in rest : Waits(Marked(c), c) /\ (Writes(D) => Marked(c).crossed)
    BY <2>1, MarkedWaits DEF Writes
  <2>4. \A d \in Followed(D) :
            /\ Started(d, id, rest).writes = d.writes
            /\ (\E c \in rest : c.writes) => Started(d, id, rest).crossed
    BY DEF Started
  <2>5. \A c, d \in rest : c # d /\ d.writes => c.crossed
    BY DEF CrossInv
  <2>6. \A c, d \in Followed(D) : d.writes => c = d
    BY <1>3 DEF Sent, Followed
  <2>7. \A d \in Followed(D) : d.writes => Writes(D)
    BY DEF Writes
  <2> HIDE DEF Marked, rest
  <2> SUFFICES ASSUME NEW e \in calls', NEW f \in calls', e # f, f.writes
               PROVE  e.crossed
    BY DEF CrossInv
  <2>8. CASE \E c \in rest : e = Marked(c)
    <3>1. PICK c \in rest : e = Marked(c)
      BY <2>8
    <3>2. CASE \E d \in rest : f = Marked(d)
      BY <3>1, <3>2, <2>3, <2>5 DEF Waits, Heir
    <3>3. CASE \E d \in Followed(D) : f = Started(d, id, rest)
      BY <3>1, <3>3, <2>3, <2>4, <2>7
    <3> QED BY <3>2, <3>3, <2>2
  <2>9. CASE \E c \in Followed(D) : e = Started(c, id, rest)
    <3>1. CASE \E d \in rest : f = Marked(d)
      BY <3>1, <2>9, <2>3, <2>4 DEF Waits, Heir
    <3>2. CASE \E d \in Followed(D) : f = Started(d, id, rest)
      BY <3>2, <2>9, <2>4, <2>6
    <3> QED BY <3>1, <3>2, <2>2
  <2> QED BY <2>2, <2>8, <2>9
<1> QED BY <1>1, <1>2, <1>3, SliceStepKinds

LEMMA SqueakThunksSent ==
    ASSUME NEW s, NEW o
    PROVE  /\ Sent({fetchSqueak(s)}, SqueakThunks) /\ Sent({setLikeSqueak(s)}, SqueakThunks)
           /\ Sent({setUnlikeSqueak(s)}, SqueakThunks) /\ Sent({setDeleteSqueak(s)}, SqueakThunks)
           /\ Sent({fetchTimeline}, SqueakThunks) /\ Sent({fetchSearch}, SqueakThunks)
           /\ Sent({fetchProfileSqueaks}, SqueakThunks) /\ Sent({setMakeSqueak(s)}, SqueakThunks)
           /\ Sent({fetchSqueakOffers(s)}, SqueakThunks) /\ Sent({setBuySqueak(o, s)}, SqueakThunks)
           /\ Sent({setDownloadSqueak(s)}, SqueakThunks)
           /\ Sent({fetchPaymentSummaryForSqueak(s)}, SqueakThunks)
           /\ Sent(SqueakMounted(s), SqueakThunks)
<1> USE DEF SqueakThunks, Read, Write
<1>1. /\ fetchSqueak(s).thunk \in SqueakThunks /\ setLikeSqueak(s).thunk \in SqueakThunks
      /\ setUnlikeSqueak(s).thunk \in SqueakThunks /\ setDeleteSqueak(s).thunk \in SqueakThunks
      /\ fetchTimeline.thunk \in SqueakThunks /\ fetchSearch.thunk \in SqueakThunks
      /\ fetchProfileSqueaks.thunk \in SqueakThunks /\ setMakeSqueak(s).thunk \in SqueakThunks
      /\ fetchSqueakOffers(s).thunk \in SqueakThunks /\ setBuySqueak(o, s).thunk \in SqueakThunks
      /\ setDownloadSqueak(s).thunk \in SqueakThunks
      /\ fetchPaymentSummaryForSqueak(s).thunk \in SqueakThunks
  BY DEF fetchSqueak, setLikeSqueak, setUnlikeSqueak, setDeleteSqueak, fetchTimeline,
         fetchSearch, fetchProfileSqueaks, setMakeSqueak, fetchSqueakOffers, setBuySqueak,
         setDownloadSqueak, fetchPaymentSummaryForSqueak
<1>2. \A d \in SqueakMounted(s) : d.thunk \in SqueakThunks /\ d.writes = FALSE
  BY DEF SqueakMounted, fetchSqueak, fetchAncestorSqueaks, fetchReplySqueaks,
         fetchSqueakOffers, fetchPaymentSummaryForSqueak
<1> HIDE DEF SqueakThunks, Read, Write
<1> QED BY <1>1, <1>2, OneSent DEF Sent

LEMMA SqueaksSliceStep ==
    ASSUME SqueakUser \/ SqueakServer \/ SqueakReply
    PROVE  SliceStep(SqueakThunks)
<1>1. CASE SqueakUser
  <2>1. CASE \E s \in Squeak : OpenSqueak(s)
    BY <2>1, SqueakThunksSent DEF OpenSqueak, SliceStep
  <2>2. CASE OpenTimeline \/ OpenSearch \/ OpenProfileSqueaks
    BY <2>2, SqueakThunksSent DEF OpenTimeline, OpenSearch, OpenProfileSqueaks, OpenList, SliceStep
  <2>3. ASSUME NEW e, NEW s, Heart(e, s)
        PROVE  SliceStep(SqueakThunks)
    BY <2>3, SqueakThunksSent DEF Heart, SliceStep
  <2>4. CASE ClickPageHeart \/ ClickPageDelete \/ ClickDownload
    BY <2>3, <2>4, SqueakThunksSent DEF ClickPageHeart, ClickPageDelete, ClickDownload, SliceStep
  <2>5. CASE \E e \in Cards : ClickCardHeart(e) \/ ClickCardDelete(e)
    BY <2>3, <2>5, SqueakThunksSent DEF ClickCardHeart, ClickCardDelete, SliceStep
  <2>6. CASE toggleBuyModal \/ ClickBuy
    BY <2>6, SqueakThunksSent DEF toggleBuyModal, ClickBuy, SliceStep, thunkVars
  <2>7. CASE \E o \in Offer : handleChangeOffer(o)
    BY <2>7 DEF handleChangeOffer, SliceStep, thunkVars
  <2>8. CASE \E r \in ReplyTargets : submitSqueak(r)
    BY <2>8, SqueakThunksSent DEF submitSqueak, SliceStep
  <2> QED BY <1>1, <2>1, <2>2, <2>4, <2>5, <2>6, <2>7, <2>8 DEF SqueakUser
<1>2. CASE SqueakServer
  <2>1. \E c \in Of(SqueakThunks) : (\E reply : Answer(c, reply)) \/ Refuse(c)
    BY <1>2 DEF SqueakServer, getSqueak, getAncestorSqueaks, getReplySqueaks,
       getTimelineSqueaks, getSearchSqueaks, getProfileSqueaks, getSqueakOffers,
       getPaymentSummaryForSqueak, likeSqueak, unlikeSqueak, deleteSqueak, makeSqueak,
       downloadSqueak, buySqueak
  <2> QED BY <2>1 DEF SliceStep
<1>3. CASE SqueakReply
  <2>1. PICK c \in calls :
        \/ fetchSqueakFulfilled(c) \/ fetchAncestorSqueaksFulfilled(c)
        \/ fetchReplySqueaksFulfilled(c) \/ fetchListFulfilled(c)
        \/ fetchSqueakOffersFulfilled(c) \/ fetchPaymentSummaryForSqueakFulfilled(c)
        \/ setLikeSqueakFulfilled(c) \/ setUnlikeSqueakFulfilled(c)
        \/ setDeleteSqueakFulfilled(c) \/ setMakeSqueakFulfilled(c)
        \/ setBuySqueakFulfilled(c) \/ setDownloadSqueakFulfilled(c)
        \/ SqueakReducerThrows(c) \/ SqueakThunkRejected(c)
    BY <1>3 DEF SqueakReply
  <2>2. c.thunk \in SqueakThunks
    BY <2>1 DEF Done, SqueakThunks, fetchSqueakFulfilled,
       fetchAncestorSqueaksFulfilled, fetchReplySqueaksFulfilled, fetchListFulfilled,
       fetchSqueakOffersFulfilled, fetchPaymentSummaryForSqueakFulfilled, setLikeSqueakFulfilled,
       setUnlikeSqueakFulfilled, setDeleteSqueakFulfilled, setMakeSqueakFulfilled,
       setBuySqueakFulfilled, setDownloadSqueakFulfilled, SqueakReducerThrows, SqueakThunkRejected
  <2>3. \/ \E D : Sent(D, SqueakThunks) /\ Settle(c, D)
        \/ Crash(c)
        \/ \E hasCase, fields : Rejected(c, hasCase, fields)
    BY <2>1, NoneSent, SqueakThunksSent DEF fetchSqueakFulfilled,
       fetchAncestorSqueaksFulfilled, fetchReplySqueaksFulfilled, fetchListFulfilled,
       fetchSqueakOffersFulfilled, fetchPaymentSummaryForSqueakFulfilled, setLikeSqueakFulfilled,
       setUnlikeSqueakFulfilled, setDeleteSqueakFulfilled, setMakeSqueakFulfilled,
       setBuySqueakFulfilled, setDownloadSqueakFulfilled, SqueakReducerThrows, SqueakThunkRejected
  <2> QED BY <2>2, <2>3 DEF SliceStep, Of
<1> QED BY <1>1, <1>2, <1>3

\* What is stale in the other slices stays so.
LEMMA SqueaksDoubt ==
    ASSUME SqueakUser \/ SqueakServer \/ SqueakReply
    PROVE  doubt \ SqueakFields \subseteq doubt'
<1> USE DEF SqueakFields
<1>1. CASE SqueakUser
  BY <1>1 DEF SqueakUser, OpenSqueak, OpenTimeline, OpenSearch, OpenProfileSqueaks, OpenList,
     ClickPageHeart, ClickPageDelete, ClickDownload, ClickCardHeart, ClickCardDelete,
     toggleBuyModal, ClickBuy, handleChangeOffer, submitSqueak, List, thunkVars
<1>2. CASE SqueakServer
  BY <1>2 DEF SqueakServer
<1>3. CASE SqueakReply
  BY <1>3 DEF SqueakReply, fetchSqueakFulfilled, Arrives, Replaces, Updates, PageFields,
       fetchAncestorSqueaksFulfilled, fetchReplySqueaksFulfilled, fetchListFulfilled,
       fetchSqueakOffersFulfilled, fetchPaymentSummaryForSqueakFulfilled, setLikeSqueakFulfilled,
       setUnlikeSqueakFulfilled, setDeleteSqueakFulfilled, setMakeSqueakFulfilled, Rejected,
       setBuySqueakFulfilled, setDownloadSqueakFulfilled, SqueakReducerThrows, SqueakThunkRejected
<1> QED BY <1>1, <1>2, <1>3

LEMMA ProfileThunksSent ==
    ASSUME NEW k, NEW id, NEW name, NEW page, NEW sure
    PROVE  /\ Sent({fetchProfile(k)}, ProfileThunks) /\ Sent({setFollowProfile(id)}, ProfileThunks)
           /\ Sent({setUnfollowProfile(id)}, ProfileThunks)
           /\ Sent({setRenameProfile(id, name)}, ProfileThunks)
           /\ Sent({setProfileImage(id)}, ProfileThunks)
           /\ Sent({setDeleteProfile(id)}, ProfileThunks)
           /\ Sent({fetchSigningProfiles}, ProfileThunks)
           /\ Sent({fetchContactProfiles}, ProfileThunks)
           /\ Sent({setCreateContactProfile(page, name, k)}, ProfileThunks)
           /\ Sent({setCreateSigningProfile(name)}, ProfileThunks)
           /\ Sent({setImportSigningProfile(name, k)}, ProfileThunks)
           /\ Sent({getProfilePrivateKey(id, page, sure)}, ProfileThunks)
           /\ Sent(ProfileMounted(k), ProfileThunks)
           /\ Sent({fetchSigningProfiles} \cup ProfileMounted(k), ProfileThunks)
<1> USE DEF ProfileThunks, Read, Write, Change, Create
<1>1. /\ fetchProfile(k).thunk \in ProfileThunks /\ setFollowProfile(id).thunk \in ProfileThunks
      /\ setUnfollowProfile(id).thunk \in ProfileThunks
      /\ setRenameProfile(id, name).thunk \in ProfileThunks
      /\ setProfileImage(id).thunk \in ProfileThunks
      /\ setDeleteProfile(id).thunk \in ProfileThunks
      /\ fetchSigningProfiles.thunk \in ProfileThunks
      /\ fetchContactProfiles.thunk \in ProfileThunks
      /\ setCreateContactProfile(page, name, k).thunk \in ProfileThunks
      /\ setCreateSigningProfile(name).thunk \in ProfileThunks
      /\ setImportSigningProfile(name, k).thunk \in ProfileThunks
      /\ getProfilePrivateKey(id, page, sure).thunk \in ProfileThunks
  BY DEF fetchProfile, setFollowProfile, setUnfollowProfile, setRenameProfile, setProfileImage,
         setDeleteProfile, fetchSigningProfiles, fetchContactProfiles, setCreateContactProfile,
         setCreateSigningProfile, setImportSigningProfile, getProfilePrivateKey
<1>2. \A d \in ProfileMounted(k) \cup {fetchSigningProfiles} :
            d.thunk \in ProfileThunks /\ d.writes = FALSE
  BY DEF ProfileMounted, fetchProfile, fetchPaymentSummaryForPubkey, fetchSigningProfiles
<1> HIDE DEF ProfileThunks, Read, Write, Change, Create
<1> QED BY <1>1, <1>2, OneSent DEF Sent

LEMMA ProfilesSliceStep ==
    ASSUME ProfileUser \/ ProfileServer \/ ProfileReply
    PROVE  SliceStep(ProfileThunks)
<1>1. CASE ProfileUser
  <2>1. \E D : Sent(D, ProfileThunks) /\ Dispatch(D)
    BY <1>1, ProfileThunksSent DEF ProfileUser, OpenProfile, OpenSigningProfiles,
       OpenContactProfiles, OpenMakeSqueak, ClickFollow, changeAvatar, ClickDeleteProfile,
       exportPrivateKey, ClickCardFollow, editProfile, AddContactProfile, createSigning,
       createContact, importSigning, Switch
  <2> QED BY <2>1 DEF SliceStep
<1>2. CASE ProfileServer
  <2>1. \E c \in Of(ProfileThunks) : (\E reply : Answer(c, reply)) \/ Refuse(c)
    BY <1>2 DEF ProfileServer, getProfileByPubkey, getProfile, getSigningProfiles,
       getContactProfiles, setProfileFollowing, renameProfile, changeProfileImage, deleteProfile,
       createContactProfile, createSigningProfile, importSigningProfile, getPrivateKey,
       getPaymentSummaryForPubkey, Make
  <2> QED BY <2>1 DEF SliceStep
<1>3. CASE ProfileReply
  <2>1. PICK c \in calls :
        \/ fetchProfileFulfilled(c) \/ fetchPaymentSummaryForPubkeyFulfilled(c)
        \/ fetchSigningProfilesFulfilled(c) \/ fetchContactProfilesFulfilled(c)
        \/ setProfileFulfilled(c) \/ setDeleteProfileFulfilled(c)
        \/ getProfilePrivateKeyFulfilled(c) \/ ProfileReducerThrows(c)
        \/ AddContactProfileFulfilled(c) \/ createProfileFulfilled(c)
        \/ createContactProfileRejected(c) \/ ProfileThunkRejected(c)
    BY <1>3 DEF ProfileReply
  <2>2. c.thunk \in ProfileThunks
    BY <2>1 DEF Done, ProfileThunks, ChangesProfile, fetchProfileFulfilled,
       fetchPaymentSummaryForPubkeyFulfilled, fetchSigningProfilesFulfilled,
       fetchContactProfilesFulfilled, setProfileFulfilled, setDeleteProfileFulfilled,
       getProfilePrivateKeyFulfilled, ProfileReducerThrows, AddContactProfileFulfilled,
       createProfileFulfilled, createContactProfileRejected, ProfileThunkRejected
  <2>3. CASE createProfileFulfilled(c)
    <3> DEFINE list == IF c.thunk = "setCreateContactProfile" THEN {} ELSE {fetchSigningProfiles}
               page == IF profileRoute = c.reply THEN {} ELSE ProfileMounted(c.reply)
    <3>1. /\ Sent(ProfileMounted(c.reply), ProfileThunks)
          /\ Sent({fetchSigningProfiles} \cup ProfileMounted(c.reply), ProfileThunks)
          /\ Sent({fetchSigningProfiles}, ProfileThunks) /\ Sent({}, ProfileThunks)
      BY ProfileThunksSent, NoneSent
    <3>2. list \cup page \in {{}, {fetchSigningProfiles}, ProfileMounted(c.reply),
                              {fetchSigningProfiles} \cup ProfileMounted(c.reply)}
      OBVIOUS
    <3>3. Settle(c, list \cup page)
      BY <2>3 DEF createProfileFulfilled
    <3> HIDE DEF list, page
    <3> QED BY <2>2, <3>1, <3>2, <3>3 DEF SliceStep, Of
  <2>4. CASE createContactProfileRejected(c)
    <3>1. {c} \in SUBSET Of(ProfileThunks) /\ Sent({fetchProfile(c.arg)}, ProfileThunks)
      BY <2>2, ProfileThunksSent DEF Of
    <3>2. calls' = Begin({fetchProfile(c.arg)}, c.id, calls \ {c})
      BY <2>4 DEF createContactProfileRejected
    <3> QED BY <3>1, <3>2 DEF SliceStep
  <2>5. ASSUME ~createProfileFulfilled(c), ~createContactProfileRejected(c)
        PROVE  \/ \E D : Sent(D, ProfileThunks) /\ Settle(c, D)
               \/ Crash(c)
               \/ \E hasCase, fields : Rejected(c, hasCase, fields)
    BY <2>1, <2>5, NoneSent, ProfileThunksSent DEF fetchProfileFulfilled,
       fetchPaymentSummaryForPubkeyFulfilled, fetchSigningProfilesFulfilled,
       fetchContactProfilesFulfilled, setProfileFulfilled, setDeleteProfileFulfilled,
       getProfilePrivateKeyFulfilled, ProfileReducerThrows, AddContactProfileFulfilled,
       ProfileThunkRejected
  <2> QED BY <2>2, <2>3, <2>4, <2>5 DEF SliceStep, Of
<1> QED BY <1>1, <1>2, <1>3

LEMMA ProfilesDoubt ==
    ASSUME ProfileUser \/ ProfileServer \/ ProfileReply
    PROVE  doubt \ ProfileFields \subseteq doubt'
<1> USE DEF ProfileFields
<1>1. CASE ProfileUser
  BY <1>1 DEF ProfileUser, OpenProfile, OpenSigningProfiles,
     OpenContactProfiles, OpenMakeSqueak, ClickFollow, changeAvatar, ClickDeleteProfile,
     exportPrivateKey, ClickCardFollow, editProfile, AddContactProfile, createSigning,
     createContact, importSigning
<1>2. CASE ProfileServer
  BY <1>2 DEF ProfileServer
<1>3. CASE ProfileReply
  BY <1>3 DEF ProfileReply, fetchProfileFulfilled, ProfileArrives, Replaces, Updates, Rejected,
       fetchPaymentSummaryForPubkeyFulfilled, fetchSigningProfilesFulfilled, ProfileLists,
       fetchContactProfilesFulfilled, setProfileFulfilled, setDeleteProfileFulfilled,
       getProfilePrivateKeyFulfilled, ProfileReducerThrows, AddContactProfileFulfilled,
       createProfileFulfilled, createContactProfileRejected, ProfileThunkRejected
<1> QED BY <1>1, <1>2, <1>3

LEMMA PeerThunksSent ==
    ASSUME NEW a, NEW p
    PROVE  /\ Sent({fetchPeer(a)}, PeerThunks) /\ Sent({fetchSavedPeers}, PeerThunks)
           /\ Sent({setSavePeer(a)}, PeerThunks) /\ Sent({setDeletePeer(p)}, PeerThunks)
           /\ Sent({setPeerAutoconnectEnabled(p)}, PeerThunks)
           /\ Sent({setPeerAutoconnectDisabled(p)}, PeerThunks)
<1>1. /\ fetchPeer(a).thunk \in PeerThunks /\ fetchSavedPeers.thunk \in PeerThunks
      /\ setSavePeer(a).thunk \in PeerThunks /\ setDeletePeer(p).thunk \in PeerThunks
      /\ setPeerAutoconnectEnabled(p).thunk \in PeerThunks
      /\ setPeerAutoconnectDisabled(p).thunk \in PeerThunks
  BY DEF fetchPeer, fetchSavedPeers, setSavePeer, setDeletePeer, setPeerAutoconnectEnabled,
         setPeerAutoconnectDisabled, ChangePeers, Read, Write, PeerThunks
<1> QED BY <1>1, OneSent

LEMMA PeersSliceStep ==
    ASSUME PeerUser \/ PeerServer \/ PeerReply
    PROVE  SliceStep(PeerThunks)
<1>1. CASE PeerUser
  <2>1. \E D : Sent(D, PeerThunks) /\ Dispatch(D)
    BY <1>1, PeerThunksSent DEF PeerUser, OpenPeer, AddPeer, OpenPeers, ClickPeerSwitch,
       ClickDeletePeer, ClickPeerCardSwitch, Toggle
  <2> QED BY <2>1 DEF SliceStep
<1>2. CASE PeerServer
  <2>1. \E c \in Of(PeerThunks) : (\E reply : Answer(c, reply)) \/ Refuse(c)
    BY <1>2 DEF PeerServer, getPeer, getSavedPeers, savePeer, deletePeer,
       enableAutoconnectPeer, disableAutoconnectPeer
  <2> QED BY <2>1 DEF SliceStep
<1>3. CASE PeerReply
  <2>1. PICK c \in calls :
            \/ fetchPeerFulfilled(c) \/ fetchSavedPeersFulfilled(c) \/ setSavePeerFulfilled(c)
            \/ setDeletePeerFulfilled(c) \/ setPeerAutoconnectFulfilled(c)
            \/ PeerThunkRejected(c)
    BY <1>3 DEF PeerReply
  <2>2. c \in Of(PeerThunks)
    BY <2>1 DEF Of, Done, PeerThunks, fetchPeerFulfilled, fetchSavedPeersFulfilled,
       setSavePeerFulfilled, setDeletePeerFulfilled, setPeerAutoconnectFulfilled,
       PeerThunkRejected
  <2>3. Settle(c, {}) \/ \E hasCase, fields : Rejected(c, hasCase, fields)
    BY <2>1 DEF fetchPeerFulfilled, fetchSavedPeersFulfilled, setSavePeerFulfilled,
       setDeletePeerFulfilled, setPeerAutoconnectFulfilled, PeerThunkRejected
  <2> QED BY <2>2, <2>3, NoneSent DEF SliceStep
<1> QED BY <1>1, <1>2, <1>3

LEMMA PeersDoubt ==
    ASSUME PeerUser \/ PeerServer \/ PeerReply
    PROVE  doubt \ PeerFields \subseteq doubt'
<1> USE DEF PeerFields
<1>1. CASE PeerUser
  BY <1>1 DEF PeerUser, OpenPeer, AddPeer, OpenPeers, ClickPeerSwitch, ClickDeletePeer,
     ClickPeerCardSwitch
<1>2. CASE PeerServer
  BY <1>2 DEF PeerServer
<1>3. CASE PeerReply
  BY <1>3 DEF PeerReply, fetchPeerFulfilled, fetchSavedPeersFulfilled, setSavePeerFulfilled,
     setDeletePeerFulfilled, setPeerAutoconnectFulfilled, PeerThunkRejected, PeerArrives,
     PeerChanged, Rejected
<1> QED BY <1>1, <1>2, <1>3

LEMMA PaymentThunksSent ==
    ASSUME NEW kind, NEW owner, NEW last
    PROVE  /\ Sent({fetchList(kind, owner, last)}, PaymentThunks)
           /\ Sent({fetchPaymentSummary}, PaymentThunks)
<1>1. /\ fetchList(kind, owner, last).thunk \in PaymentThunks
      /\ fetchPaymentSummary.thunk \in PaymentThunks
  BY DEF fetchList, fetchSentPayments, fetchReceivedPayments, fetchPayments, Read,
         fetchPaymentSummary, PaymentThunks
<1> QED BY <1>1, OneSent

LEMMA PaymentsSliceStep ==
    ASSUME PaymentUser \/ PaymentRecorded \/ PaymentServer \/ PaymentReply
    PROVE  SliceStep(PaymentThunks)
<1>1. ASSUME NEW kind, NEW owner, MountPayments(kind, owner)
      PROVE  SliceStep(PaymentThunks)
  <2>1. /\ {} \in SUBSET Of(PaymentThunks) /\ calls \ {} = calls
        /\ Sent({fetchList(kind, owner, None)}, PaymentThunks)
    BY PaymentThunksSent
  <2>2. calls' = Begin({fetchList(kind, owner, None)}, events + 1, calls \ {})
    BY <1>1, <2>1 DEF MountPayments
  <2> QED BY <2>1, <2>2 DEF SliceStep
<1>2. CASE PaymentUser
  BY <1>1, <1>2, PaymentThunksSent
     DEF PaymentUser, OpenPayments, SwitchTab, LoadMore, OpenFeed, SliceStep, thunkVars
<1>3. CASE PaymentRecorded
  BY <1>3 DEF PaymentRecorded, SliceStep, thunkVars
<1>4. CASE PaymentServer
  <2>1. \E c \in Of(PaymentThunks) : \E reply : Answer(c, reply)
    BY <1>4 DEF PaymentServer, getSentPayments, getReceivedPayments, getPaymentSummary
  <2> QED BY <2>1 DEF SliceStep
<1>5. CASE PaymentReply
  <2>1. PICK c \in calls :
          fetchPaymentsFulfilled(c) \/ fetchPaymentSummaryFulfilled(c) \/ PaymentThunkRejected(c)
    BY <1>5 DEF PaymentReply
  <2>2. c \in Of(PaymentThunks)
    BY <2>1 DEF Of, Done, PaymentThunks, fetchPaymentsFulfilled, fetchPaymentSummaryFulfilled,
       PaymentThunkRejected
  <2>3. Settle(c, {}) \/ \E hasCase, fields : Rejected(c, hasCase, fields)
    BY <2>1 DEF fetchPaymentsFulfilled, fetchPaymentSummaryFulfilled, PaymentThunkRejected
  <2> QED BY <2>2, <2>3, NoneSent DEF SliceStep
<1> QED BY <1>2, <1>3, <1>4, <1>5

LEMMA PaymentsDoubt ==
    ASSUME PaymentUser \/ PaymentRecorded \/ PaymentServer \/ PaymentReply
    PROVE  doubt \subseteq doubt'
<1>1. CASE PaymentUser
  BY <1>1 DEF PaymentUser, OpenPayments, SwitchTab, LoadMore, OpenFeed, MountPayments, thunkVars
<1>2. CASE PaymentRecorded \/ PaymentServer
  BY <1>2 DEF PaymentRecorded, PaymentServer, thunkVars
<1>3. CASE PaymentReply
  BY <1>3 DEF PaymentReply, fetchPaymentsFulfilled, fetchPaymentSummaryFulfilled,
     PaymentThunkRejected, Rejected
<1> QED BY <1>1, <1>2, <1>3

LEMMA SettingsThunksSent ==
    ASSUME NEW x
    PROVE  /\ Sent({fetchTwitterAccounts}, SettingsThunks)
           /\ Sent({setCreateTwitterAccount(x)}, SettingsThunks)
           /\ Sent({setDeleteTwitterAccount(x)}, SettingsThunks)
           /\ Sent({fetchSellPrice}, SettingsThunks) /\ Sent({setSellPrice(x)}, SettingsThunks)
           /\ Sent({setClearSellPrice}, SettingsThunks) /\ Sent({fetchNetwork}, SettingsThunks)
           /\ Sent({fetchExternalAddress}, SettingsThunks) /\ Sent({setLogout}, SettingsThunks)
<1>1. /\ fetchTwitterAccounts.thunk \in SettingsThunks
      /\ setCreateTwitterAccount(x).thunk \in SettingsThunks
      /\ setDeleteTwitterAccount(x).thunk \in SettingsThunks
      /\ fetchSellPrice.thunk \in SettingsThunks /\ setSellPrice(x).thunk \in SettingsThunks
      /\ setClearSellPrice.thunk \in SettingsThunks /\ fetchNetwork.thunk \in SettingsThunks
      /\ fetchExternalAddress.thunk \in SettingsThunks /\ setLogout.thunk \in SettingsThunks
  BY DEF fetchTwitterAccounts, setCreateTwitterAccount, setDeleteTwitterAccount,
     fetchSellPrice, setSellPrice, setClearSellPrice, fetchNetwork, fetchExternalAddress,
     setLogout, Read, Write, SettingsThunks
<1> QED BY <1>1, OneSent

\* A step of the settings, unless it is a logout.
LEMMA SettingsStays ==
    ASSUME SettingsUser \/ SettingsServer \/ SettingsReply,
           \A c \in calls : ~setLogoutFulfilled(c)
    PROVE  SliceStep(SettingsThunks) /\ doubt \ {"sellPriceInfo", "twitterAccounts"} \subseteq doubt'
<1>1. CASE SettingsUser
  <2>1. \E D : Sent(D, SettingsThunks) /\ Dispatch(D)
    BY <1>1, SettingsThunksSent DEF SettingsUser, OpenApp, OpenTwitterAccounts, OpenAddress,
       OpenNetwork, addTwitterAccount, ClickDeleteAccount, submitSellPrice,
       setSellPriceToDefault, ClickLogout
  <2>2. doubt' = doubt
    BY <1>1 DEF SettingsUser, OpenApp, OpenTwitterAccounts, OpenAddress,
       OpenNetwork, addTwitterAccount, ClickDeleteAccount, submitSellPrice,
       setSellPriceToDefault, ClickLogout
  <2> QED BY <2>1, <2>2 DEF SliceStep
<1>2. CASE SettingsServer
  <2>1. \E c \in Of(SettingsThunks) : (\E reply : Answer(c, reply)) \/ Refuse(c)
    BY <1>2 DEF SettingsServer, getTwitterAccounts, createTwitterAccount,
       deleteTwitterAccount, getSellPrice, updateSellPrice, clearSellPrice, getNetwork,
       getExternalAddress, logout, Redirected
  <2> QED BY <1>2, <2>1 DEF SliceStep, SettingsServer
<1>3. CASE SettingsReply
  <2>1. PICK c \in calls :
        \/ twitterAccountsFulfilled(c) \/ sellPriceFulfilled(c)
        \/ fetchNetworkFulfilled(c) \/ fetchExternalAddressFulfilled(c)
        \/ SettingsThunkRejected(c)
    BY <1>3 DEF SettingsReply
  <2>2. c \in Of(SettingsThunks)
    BY <2>1 DEF Of, Done, SettingsThunks, twitterAccountsFulfilled, sellPriceFulfilled,
       fetchNetworkFulfilled, fetchExternalAddressFulfilled, SettingsThunkRejected
  <2>3. Settle(c, {}) \/ \E hasCase, fields : Rejected(c, hasCase, fields)
    BY <2>1 DEF twitterAccountsFulfilled, sellPriceFulfilled,
       fetchNetworkFulfilled, fetchExternalAddressFulfilled, SettingsThunkRejected
  <2>4. doubt \ {"sellPriceInfo", "twitterAccounts"} \subseteq doubt'
    BY <2>1 DEF twitterAccountsFulfilled, sellPriceFulfilled, fetchNetworkFulfilled,
       fetchExternalAddressFulfilled, SettingsThunkRejected, Rejected,
       SettingsArrives, Replaces, SettingsFieldOf
  <2> QED BY <2>2, <2>3, <2>4, NoneSent DEF SliceStep
<1> QED BY <1>1, <1>2, <1>3

LEMMA SettingsSliceStep ==
    ASSUME SettingsUser \/ SettingsServer \/ SettingsReply
    PROVE  SliceStep(SettingsThunks) \/ calls' = {}
BY SettingsStays DEF setLogoutFulfilled

LEMMA SettingsDoubt ==
    ASSUME SettingsUser \/ SettingsServer \/ SettingsReply, calls' # {}
    PROVE  doubt \ {"sellPriceInfo", "twitterAccounts"} \subseteq doubt'
BY SettingsStays DEF setLogoutFulfilled

\* Every call is whole, and crossed if it overlaps with one that writes.
CrossedInv == CallsInv /\ CrossInv

LEMMA CallsWhole == CallsInv => \A c \in calls : IsCall(c)
BY DEF CallsInv, Asked

LEMMA CrossedInvNext == CrossedInv /\ [Next]_vars => CrossedInv'
<1> SUFFICES ASSUME CallsInv, CrossInv, [Next]_vars
             PROVE  CrossInv'
  BY CallsInvNext DEF CrossedInv
<1>1. \A c \in calls : IsCall(c)
  BY CallsWhole
<1>2. CASE \E c \in calls : Lose(c)
  <2>1. PICK c \in calls : Refuse(c)
    BY <1>2 DEF Lose
  <2>2. SliceStep({c.thunk})
    BY <2>1 DEF SliceStep, Of
  <2> QED BY <2>2, <1>1, CrossInvKept
<1>3. CASE UNCHANGED calls \/ calls' = {}
  BY <1>3 DEF CrossInv
<1>4. CASE \E T : SliceStep(T)
  BY <1>4, <1>1, CrossInvKept
<1> QED BY <1>2, <1>3, <1>4, SqueaksSliceStep, ProfilesSliceStep, PeersSliceStep,
           PaymentsSliceStep, SettingsSliceStep
        DEF Next, Squeaks, Profiles, Peers, Payments, Settings, Lost, vars, thunkVars

\* What a step that is not of the slice with the thunks U leaves of its calls
\* and of its fields F that may be stale.
Elsewhere(U, F) ==
    /\ \A e \in calls' : e.thunk \in U =>
            \E c \in calls : Heir(e, c) /\ (Waits(e, c) \/ (e.todo = <<>> /\ e.reply = Error))
    /\ \A c \in Of(U) : \E e \in calls' : Heir(e, c)
    /\ doubt \cap F \subseteq doubt'

LEMMA SliceElsewhere ==
    ASSUME CallsInv, NEW T, SliceStep(T), NEW U, U \cap T = {},
           NEW F, NEW G, doubt \ G \subseteq doubt', F \cap G = {}
    PROVE  Elsewhere(U, F)
<1>1. \A c \in calls : IsCall(c)
  BY CallsWhole
<1> QED BY <1>1, OthersWait DEF Elsewhere, Waits

LEMMA StutterElsewhere ==
    ASSUME NEW U, NEW F, UNCHANGED <<calls, doubt>>
    PROVE  Elsewhere(U, F)
BY DEF Elsewhere, Waits, Heir, Of

LEMMA LostElsewhere ==
    ASSUME CallsInv, NEW c \in calls, Lose(c), NEW U, NEW F
    PROVE  Elsewhere(U, F)
<1>1. GoesOn(c, <<>>, Error) /\ doubt' = doubt
  BY CallsWhole, RefuseHeirs DEF Lose
<1> QED BY <1>1 DEF GoesOn, Elsewhere, Waits, Heir, Of

LEMMA DispatchOne ==
    ASSUME CallsInv, NEW d, Dispatch({d})
    PROVE  /\ \A e \in calls' :
                (\E c \in calls : Waits(e, c)) \/ e = Started(d, events + 1, calls)
           /\ \A c \in calls : \E e \in calls' : Waits(e, c)
<1>1. calls' = Begin({d}, events + 1, calls) /\ \A c \in calls : IsCall(c)
  BY CallsWhole DEF Dispatch
<1>2. Followed({d}) \subseteq {d}
  BY DEF Followed
<1>3. \A e \in Begin({d}, events + 1, calls) :
        \/ \E c \in calls : Waits(e, c) /\ e = [c EXCEPT !.crossed = @ \/ Writes({d})]
        \/ \E b \in Followed({d}) : e = Started(b, events + 1, calls)
  BY <1>1, BeginHeirs
<1>4. \A c \in calls : \E e \in Begin({d}, events + 1, calls) : Waits(e, c)
  BY <1>1, BeginHeirs
<1> QED BY <1>1, <1>2, <1>3, <1>4

\* A call ends that dispatches nothing.
Ends(c) ==
    /\ \A e \in calls' : \E b \in calls \ {c} : Waits(e, b)
    /\ \A b \in calls \ {c} : \E e \in calls' : Waits(e, b)

LEMMA SettleEnds ==
    ASSUME CallsInv, NEW c \in calls, Settle(c, {})
    PROVE  Ends(c)
<1> DEFINE rest == calls \ {c}
<1>1. calls' = Begin({}, c.id, rest) /\ \A b \in rest : IsCall(b)
  BY CallsWhole DEF Settle
<1>2. Followed({}) = {}
  BY DEF Followed
<1> HIDE DEF rest
<1>3. \A e \in Begin({}, c.id, rest) :
        \/ \E b \in rest : Waits(e, b) /\ e = [b EXCEPT !.crossed = @ \/ Writes({})]
        \/ \E b \in Followed({}) : e = Started(b, c.id, rest)
  BY <1>1, BeginHeirs
<1>4. \A b \in rest : \E e \in Begin({}, c.id, rest) : Waits(e, b)
  BY <1>1, BeginHeirs
<1> QED BY <1>1, <1>2, <1>3, <1>4 DEF Ends, rest

LEMMA RejectedEnds ==
    ASSUME NEW c \in calls, NEW hasCase, NEW fields, Rejected(c, hasCase, fields)
    PROVE  Ends(c)
BY DEF Rejected, Ends, Waits, Heir
-----------------------------------------------------------------------------
(* The settings.                                                           *)

\* Nothing but the given request is left to ask for.
Asking(todo, request, arg) == todo \in {<<<<request, arg>>>>, <<>>}

\* One of some changes, then the request that reads what was changed.
Changing(todo, changes, request) ==
    \E change \in changes : \E arg :
        todo \in {<<<<change, arg>>, <<request, None>>>>, <<<<request, None>>>>, <<>>}

LEMMA AskingNext ==
    ASSUME NEW c, NEW next, NEW request, NEW arg, Asking(c.todo, request, arg), At(c, next)
    PROVE  next = request /\ Argument(c) = arg /\ Tail(c.todo) = <<>>
<1>1. c.todo = <<<<request, arg>>>>
  BY DEF Asking, At
<1>2. Head(c.todo) = <<request, arg>> /\ Tail(c.todo) = <<>>
  BY <1>1, OneLeft
<1> QED BY <1>2 DEF At, Argument

LEMMA ChangingNext ==
    ASSUME NEW c, NEW next, NEW changes, NEW request, Changing(c.todo, changes, request), At(c, next)
    PROVE  /\ Changing(Tail(c.todo), changes, request)
           /\ \/ next \in changes /\ Tail(c.todo) # <<>>
              \/ next = request /\ Tail(c.todo) = <<>>
<1>1. PICK change \in changes : \E arg :
        c.todo \in {<<<<change, arg>>, <<request, None>>>>, <<<<request, None>>>>}
  BY DEF Changing, At
<1>2. PICK arg : c.todo \in {<<<<change, arg>>, <<request, None>>>>, <<<<request, None>>>>}
  BY <1>1
<1>3. CASE c.todo = <<<<change, arg>>, <<request, None>>>>
  <2>1. Head(c.todo) = <<change, arg>> /\ Tail(c.todo) = <<<<request, None>>>>
    BY <1>3, TwoLeft
  <2>2. Tail(c.todo) # <<>>
    BY <2>1, OneLeft
  <2>3. next \in changes
    BY <2>1 DEF At
  <2> QED BY <2>1, <2>2, <2>3 DEF Changing
<1>4. CASE c.todo = <<<<request, None>>>>
  <2>1. Head(c.todo) = <<request, None>> /\ Tail(c.todo) = <<>>
    BY <1>4, OneLeft
  <2>2. Changing(<<>>, changes, request)
    BY DEF Changing
  <2>3. next = request
    BY <2>1 DEF At
  <2> QED BY <2>1, <2>2, <2>3
<1> QED BY <1>2, <1>3, <1>4

SetsPrice == {"setSellPrice", "setClearSellPrice"}
SetsAccounts == {"setCreateTwitterAccount", "setDeleteTwitterAccount"}

PriceChanges == {"updateSellPrice", "clearSellPrice"}
AccountChanges == {"createTwitterAccount", "deleteTwitterAccount"}

\* What is left to ask for; those that change something write.
SettingsAsks(c) ==
    /\ c.thunk = "fetchSellPrice" => Asking(c.todo, "getSellPrice", None)
    /\ c.thunk = "fetchTwitterAccounts" => Asking(c.todo, "getTwitterAccounts", None)
    /\ c.thunk = "fetchNetwork" => Asking(c.todo, "getNetwork", None)
    /\ c.thunk = "fetchExternalAddress" => Asking(c.todo, "getExternalAddress", None)
    /\ c.thunk = "setLogout" => Asking(c.todo, "logout", None)
    /\ c.thunk \in SetsPrice =>
            c.writes /\ Changing(c.todo, PriceChanges, "getSellPrice")
    /\ c.thunk \in SetsAccounts =>
            /\ c.writes
            /\ Changing(c.todo, AccountChanges, "getTwitterAccounts")

\* A call that no other one crossed ends with what the node has.
SettingsTold(c) ==
    c.todo = <<>> /\ c.reply # Error /\ ~c.crossed =>
        /\ c.thunk \in SetsPrice \cup {"fetchSellPrice"} => c.reply = SellPrice
        /\ c.thunk \in SetsAccounts \cup {"fetchTwitterAccounts"} => c.reply = AccountEntries

SettingsCalls == \A c \in Of(SettingsThunks) : SettingsAsks(c) /\ SettingsTold(c)

\* A field holds what the node has, or a call that changes that is not over.
SettingsFresh ==
    /\ \/ "sellPriceInfo" \in settingsAwaited \cup doubt
       \/ sellPriceInfo = SellPrice
       \/ \E c \in calls : c.thunk \in SetsPrice
    /\ \/ "twitterAccounts" \in settingsAwaited \cup doubt
       \/ twitterAccounts = AccountEntries
       \/ \E c \in calls : c.thunk \in SetsAccounts

SettingsState == SettingsCalls /\ SettingsFresh

SettingsData == {"sellPriceInfo", "twitterAccounts"}

LEMMA SettingsElsewhere ==
    ASSUME SettingsState, Elsewhere(SettingsThunks, SettingsData), UNCHANGED settingsVars
    PROVE  SettingsState'
<1> USE DEF settingsVars, settingsNode, settingsFields, SettingsState
<1>1. SellPrice' = SellPrice /\ AccountEntries' = AccountEntries
  BY DEF SellPrice, AccountEntries
<1>2. SettingsCalls'
  <2> SUFFICES ASSUME NEW e \in calls', e.thunk \in SettingsThunks
               PROVE  SettingsAsks(e) /\ SettingsTold(e)'
    BY DEF SettingsCalls, Of, SettingsAsks, SettingsTold
  <2>1. PICK c \in calls : Heir(e, c) /\ (Waits(e, c) \/ (e.todo = <<>> /\ e.reply = Error))
    BY DEF Elsewhere
  <2>2. SettingsAsks(c) /\ SettingsTold(c)
    BY <2>1 DEF SettingsCalls, Of, Heir
  <2>3. SettingsAsks(e)
    BY <2>1, <2>2 DEF Heir, Waits, SettingsAsks, Asking, Changing
  <2>4. SettingsTold(e)'
    BY <1>1, <2>1, <2>2 DEF Heir, Waits, SettingsTold
  <2> QED BY <2>3, <2>4
<1>3. SettingsFresh'
  BY <1>1 DEF SettingsFresh, Elsewhere, SettingsData, Of, SettingsThunks, SetsPrice,
     SetsAccounts, Heir
<1> QED BY <1>2, <1>3

LEMMA FirstChange ==
    ASSUME NEW changes, NEW change \in changes, NEW request, NEW arg
    PROVE  /\ Changing(<<<<change, arg>>, <<request, None>>>>, changes, request)
           /\ <<<<change, arg>>, <<request, None>>>> # <<>>
BY DEF Changing

SettingsOpens(d) == SettingsAsks(d) /\ d.todo # <<>>

LEMMA SettingsThunksOpen ==
    ASSUME NEW x
    PROVE  /\ SettingsOpens(fetchTwitterAccounts) /\ SettingsOpens(setCreateTwitterAccount(x))
           /\ SettingsOpens(setDeleteTwitterAccount(x)) /\ SettingsOpens(fetchSellPrice)
           /\ SettingsOpens(setSellPrice(x)) /\ SettingsOpens(setClearSellPrice)
           /\ SettingsOpens(fetchNetwork) /\ SettingsOpens(fetchExternalAddress)
           /\ SettingsOpens(setLogout)
<1> USE DEF SettingsOpens, SettingsAsks, SetsPrice, SetsAccounts, Read, Write
<1>1. \A y : <<y>> # <<>>
  BY OneLeft
<1>2. SettingsOpens(fetchTwitterAccounts)
  BY <1>1 DEF fetchTwitterAccounts, Asking
<1>3. SettingsOpens(fetchSellPrice)
  BY <1>1 DEF fetchSellPrice, Asking
<1>4. SettingsOpens(fetchNetwork) /\ SettingsOpens(fetchExternalAddress) /\ SettingsOpens(setLogout)
  BY <1>1 DEF fetchNetwork, fetchExternalAddress, setLogout, Asking
<1>5. "createTwitterAccount" \in AccountChanges /\ "deleteTwitterAccount" \in AccountChanges
      /\ "updateSellPrice" \in PriceChanges /\ "clearSellPrice" \in PriceChanges
  BY DEF AccountChanges, PriceChanges
<1>6. SettingsOpens(setCreateTwitterAccount(x)) /\ SettingsOpens(setDeleteTwitterAccount(x))
  BY <1>5, FirstChange DEF setCreateTwitterAccount, setDeleteTwitterAccount
<1>7. SettingsOpens(setSellPrice(x)) /\ SettingsOpens(setClearSellPrice)
  BY <1>5, FirstChange DEF setSellPrice, setClearSellPrice
<1> QED BY <1>2, <1>3, <1>4, <1>6, <1>7

LEMMA SettingsUserKeeps ==
    ASSUME CallsInv, SettingsState, SettingsUser
    PROVE  SettingsState'
<1>1. PICK d : Dispatch({d}) /\ SettingsOpens(d)
  BY SettingsThunksOpen DEF SettingsUser, OpenApp, OpenTwitterAccounts, OpenAddress, OpenNetwork,
     addTwitterAccount, ClickDeleteAccount, submitSellPrice, setSellPriceToDefault, ClickLogout
<1>2. /\ \A e \in calls' :
            (\E c \in calls : Waits(e, c)) \/ e = Started(d, events + 1, calls)
      /\ \A c \in calls : \E e \in calls' : Waits(e, c)
  BY <1>1, DispatchOne
<1>3. /\ UNCHANGED <<accounts, price, doubt, sellPriceInfo>>
      /\ settingsAwaited \subseteq settingsAwaited'
      /\ UNCHANGED twitterAccounts \/ "twitterAccounts" \in settingsAwaited'
  BY DEF SettingsUser, OpenApp, OpenTwitterAccounts, OpenAddress, OpenNetwork,
     addTwitterAccount, ClickDeleteAccount, submitSellPrice, setSellPriceToDefault, ClickLogout,
     settingsVars, settingsNode, settingsFields
<1>4. SellPrice' = SellPrice /\ AccountEntries' = AccountEntries
  BY <1>3 DEF SellPrice, AccountEntries
<1>5. SettingsCalls'
  <2> SUFFICES ASSUME NEW e \in calls', e.thunk \in SettingsThunks
               PROVE  SettingsAsks(e) /\ SettingsTold(e)'
    BY DEF SettingsCalls, Of, SettingsAsks, SettingsTold
  <2>1. CASE \E c \in calls : Waits(e, c)
    <3>1. PICK c \in calls : Waits(e, c)
      BY <2>1
    <3>2. SettingsAsks(c) /\ SettingsTold(c)
      BY <3>1 DEF SettingsState, SettingsCalls, Of, Waits, Heir
    <3>3. SettingsAsks(e)
      BY <3>1, <3>2 DEF Heir, Waits, SettingsAsks
    <3>4. SettingsTold(e)'
      BY <1>4, <3>1, <3>2 DEF Heir, Waits, SettingsTold
    <3> QED BY <3>3, <3>4
  <2>2. CASE e = Started(d, events + 1, calls)
    <3>1. e.thunk = d.thunk /\ e.todo = d.todo /\ e.writes = d.writes
      BY <2>2 DEF Started
    <3> QED BY <3>1, <1>1 DEF SettingsOpens, SettingsAsks, SettingsTold
  <2> QED BY <1>2, <2>1, <2>2
<1>6. SettingsFresh'
  BY <1>2, <1>3, <1>4 DEF SettingsFresh, SettingsState, Waits, Heir
<1> QED BY <1>5, <1>6 DEF SettingsState

\* The node answers, and what it has stays as it is.
LEMMA SettingsAnswered ==
    ASSUME CallsInv, SettingsState, NEW c \in Of(SettingsThunks), NEW next, At(c, next),
           NEW reply, Answer(c, reply),
           UNCHANGED <<accounts, price, doubt, sellPriceInfo, twitterAccounts, settingsAwaited>>,
           next = "getSellPrice" => reply = SellPrice,
           next = "getTwitterAccounts" => reply = AccountEntries
    PROVE  SettingsState'
<1>1. /\ c \in calls /\ IsCall(c) /\ c.thunk \in SettingsThunks
      /\ SettingsAsks(c)
  BY CallsWhole DEF Of, SettingsState, SettingsCalls
<1>2. PICK d : /\ Heir(d, c) /\ d.todo = Tail(c.todo) /\ d.reply = reply
               /\ calls' = (calls \ {c}) \cup {d}
  BY <1>1, AnswerHeirs DEF GoesOn
<1>3. SellPrice' = SellPrice /\ AccountEntries' = AccountEntries
  BY DEF SellPrice, AccountEntries
<1>4. SettingsAsks(d)
  <2>0. d.todo = Tail(c.todo)
    BY <1>2
  <2>1. ASSUME NEW request, Asking(c.todo, request, None)
        PROVE  Asking(d.todo, request, None)
    <3>1. Tail(c.todo) = <<>>
      BY <2>1, AskingNext
    <3> QED BY <2>0, <3>1 DEF Asking
  <2>2. ASSUME NEW request, NEW changes, Changing(c.todo, changes, request)
        PROVE  Changing(d.todo, changes, request)
    <3>1. Changing(Tail(c.todo), changes, request)
      BY <2>2, ChangingNext
    <3> QED BY <2>0, <3>1
  <2> QED BY <1>1, <1>2, <2>1, <2>2 DEF SettingsAsks, Heir
<1>5. SettingsTold(d)'
  <2>1. CASE d.thunk = "fetchSellPrice" \/ d.thunk \in SetsPrice
    <3>1. d.todo = <<>> => next = "getSellPrice"
      BY <1>1, <1>2, <2>1, AskingNext, ChangingNext DEF SettingsAsks, Heir
    <3> QED BY <3>1, <2>1, <1>2, <1>3 DEF SettingsTold, SetsPrice, SetsAccounts
  <2>2. CASE d.thunk = "fetchTwitterAccounts" \/ d.thunk \in SetsAccounts
    <3>1. d.todo = <<>> => next = "getTwitterAccounts"
      BY <1>1, <1>2, <2>2, AskingNext, ChangingNext DEF SettingsAsks, Heir
    <3> QED BY <3>1, <2>2, <1>2, <1>3 DEF SettingsTold, SetsPrice, SetsAccounts
  <2> QED BY <2>1, <2>2 DEF SettingsTold
<1>6. SettingsCalls'
  BY <1>2, <1>3, <1>4, <1>5 DEF SettingsCalls, SettingsState, Of, SettingsAsks, SettingsTold
<1>7. SettingsFresh'
  BY <1>2, <1>3 DEF SettingsFresh, SettingsState, Heir
<1> QED BY <1>6, <1>7 DEF SettingsState

LEMMA SettingsRefused ==
    ASSUME CallsInv, SettingsState, NEW c \in Of(SettingsThunks), Refuse(c), UNCHANGED settingsVars,
           UNCHANGED doubt
    PROVE  SettingsState'
<1>1. GoesOn(c, <<>>, Error)
  BY CallsWhole, RefuseHeirs DEF Of
<1>2. Elsewhere(SettingsThunks, SettingsData)
  BY <1>1 DEF GoesOn, Elsewhere, Waits, Heir, Of
<1> QED BY <1>2, SettingsElsewhere

\* The price or the accounts change: the call that does it is not over, and it
\* has crossed all others.
LEMMA SettingsChanged ==
    ASSUME CallsInv, CrossInv, SettingsState, NEW c \in Of(SettingsThunks),
           NEW next, At(c, next), NEW reply, Answer(c, reply),
           UNCHANGED <<doubt, sellPriceInfo, twitterAccounts, settingsAwaited>>,
           \/ next \in PriceChanges /\ UNCHANGED accounts
           \/ next \in AccountChanges /\ UNCHANGED price
    PROVE  SettingsState'
<1>1. /\ c \in calls /\ IsCall(c) /\ c.thunk \in SettingsThunks
      /\ SettingsAsks(c)
  BY CallsWhole DEF Of, SettingsState, SettingsCalls
<1>2. PICK d : /\ Heir(d, c) /\ d.todo = Tail(c.todo) /\ d.reply = reply
               /\ calls' = (calls \ {c}) \cup {d}
  BY <1>1, AnswerHeirs DEF GoesOn
<1>3. /\ d.todo # <<>> /\ SettingsAsks(d) /\ c.writes
      /\ \/ d.thunk \in SetsPrice /\ next \in PriceChanges
         \/ d.thunk \in SetsAccounts /\ next \in AccountChanges
  <2>1. c.thunk \in SetsPrice \cup SetsAccounts
    <3> SUFFICES ASSUME c.thunk \in {"fetchSellPrice", "fetchTwitterAccounts", "fetchNetwork",
                                     "fetchExternalAddress", "setLogout"}
                 PROVE  FALSE
      BY <1>1 DEF SettingsThunks, SetsPrice, SetsAccounts
    <3>1. next \in {"getSellPrice", "getTwitterAccounts", "getNetwork", "getExternalAddress", "logout"}
      <4>1. c.thunk = "fetchSellPrice" => next = "getSellPrice"
        BY <1>1, AskingNext DEF SettingsAsks
      <4>2. c.thunk = "fetchTwitterAccounts" => next = "getTwitterAccounts"
        BY <1>1, AskingNext DEF SettingsAsks
      <4>3. c.thunk = "fetchNetwork" => next = "getNetwork"
        BY <1>1, AskingNext DEF SettingsAsks
      <4>4. c.thunk = "fetchExternalAddress" => next = "getExternalAddress"
        BY <1>1, AskingNext DEF SettingsAsks
      <4>5. c.thunk = "setLogout" => next = "logout"
        BY <1>1, AskingNext DEF SettingsAsks
      <4> QED BY <4>1, <4>2, <4>3, <4>4, <4>5
    <3> QED BY <3>1 DEF PriceChanges, AccountChanges
  <2>2. CASE c.thunk \in SetsPrice
    <3>1. Changing(c.todo, PriceChanges, "getSellPrice") /\ c.writes
      BY <1>1, <2>2 DEF SettingsAsks
    <3>2. /\ Changing(Tail(c.todo), PriceChanges, "getSellPrice")
          /\ (next \in PriceChanges /\ Tail(c.todo) # <<>>) \/ next = "getSellPrice"
      BY <3>1, ChangingNext
    <3>3. next \in PriceChanges /\ Tail(c.todo) # <<>>
      BY <3>2 DEF PriceChanges, AccountChanges
    <3>4. d.todo = Tail(c.todo)
      BY <1>2
    <3>5. Changing(d.todo, PriceChanges, "getSellPrice") /\ d.todo # <<>>
      BY <3>2, <3>3, <3>4
    <3> QED BY <1>2, <2>2, <3>1, <3>3, <3>5 DEF SettingsAsks, Heir, SetsPrice, SetsAccounts
  <2>3. CASE c.thunk \in SetsAccounts
    <3>1. /\ Changing(c.todo, AccountChanges, "getTwitterAccounts")
          /\ c.writes
      BY <1>1, <2>3 DEF SettingsAsks
    <3>2. /\ Changing(Tail(c.todo), AccountChanges, "getTwitterAccounts")
          /\ (next \in AccountChanges /\ Tail(c.todo) # <<>>) \/ next = "getTwitterAccounts"
      BY <3>1, ChangingNext
    <3>3. next \in AccountChanges /\ Tail(c.todo) # <<>>
      BY <3>2 DEF PriceChanges, AccountChanges
    <3>4. d.todo = Tail(c.todo)
      BY <1>2
    <3>5. Changing(d.todo, AccountChanges, "getTwitterAccounts") /\ d.todo # <<>>
      BY <3>2, <3>3, <3>4
    <3> QED BY <1>2, <2>3, <3>1, <3>3, <3>5 DEF SettingsAsks, Heir, SetsPrice, SetsAccounts
  <2> QED BY <2>1, <2>2, <2>3
<1>4. \A e \in calls' : e = d \/ (e \in calls /\ e.crossed)
  BY <1>1, <1>2, <1>3 DEF CrossInv
<1>5. SettingsCalls'
  BY <1>3, <1>4 DEF SettingsCalls, SettingsState, Of, SettingsAsks, SettingsTold
<1>6. SettingsFresh'
  <2>1. d \in calls' /\ \A e \in calls : \E f \in calls' : f.thunk = e.thunk
    BY <1>2 DEF Heir
  <2>2. CASE d.thunk \in SetsPrice /\ UNCHANGED accounts
    BY <2>1, <2>2 DEF SettingsFresh, SettingsState, AccountEntries
  <2>3. CASE d.thunk \in SetsAccounts /\ UNCHANGED price
    BY <2>1, <2>3 DEF SettingsFresh, SettingsState, SellPrice
  <2> QED BY <1>3, <2>2, <2>3 DEF PriceChanges, AccountChanges
<1> QED BY <1>5, <1>6 DEF SettingsState

LEMMA SettingsServerKeeps ==
    ASSUME CallsInv, CrossInv, SettingsState, SettingsServer
    PROVE  SettingsState'
<1>1. PICK c \in Of(SettingsThunks) :
        \/ getTwitterAccounts(c) \/ createTwitterAccount(c) \/ deleteTwitterAccount(c)
        \/ getSellPrice(c) \/ updateSellPrice(c) \/ clearSellPrice(c)
        \/ getNetwork(c) \/ getExternalAddress(c) \/ logout(c) \/ Redirected(c)
  BY DEF SettingsServer
<1>2. UNCHANGED <<settingsFields, settingsRoute, settingsAwaited, doubt>>
  BY DEF SettingsServer
<1>3. CASE getTwitterAccounts(c) \/ getSellPrice(c) \/ getNetwork(c) \/ getExternalAddress(c)
           \/ logout(c)
  BY <1>2, <1>3, SettingsAnswered DEF getTwitterAccounts, getSellPrice, getNetwork,
     getExternalAddress, logout, settingsFields, settingsNode
<1>4. ASSUME NEW next \in AccountChanges, At(c, next), Answer(c, None), UNCHANGED price
      PROVE  SettingsState'
  BY <1>2, <1>4, SettingsChanged DEF settingsFields
<1>5. ASSUME NEW next \in PriceChanges, At(c, next), Answer(c, None), UNCHANGED accounts
      PROVE  SettingsState'
  BY <1>2, <1>5, SettingsChanged DEF settingsFields
<1>6. CASE createTwitterAccount(c) \/ deleteTwitterAccount(c)
  BY <1>4, <1>6 DEF createTwitterAccount, deleteTwitterAccount, AccountChanges
<1>7. CASE clearSellPrice(c)
  BY <1>5, <1>7 DEF clearSellPrice, PriceChanges
<1>8. CASE updateSellPrice(c)
  <2>1. CASE Refuse(c) /\ UNCHANGED price
    BY <1>2, <1>8, <2>1, SettingsRefused
       DEF updateSellPrice, settingsFields, settingsVars, settingsNode
  <2>2. CASE Answer(c, None)
    BY <1>5, <1>8, <2>2 DEF updateSellPrice, PriceChanges
  <2> QED BY <1>8, <2>1, <2>2 DEF updateSellPrice
<1>9. CASE Redirected(c)
  BY <1>2, <1>9, SettingsRefused DEF Redirected, settingsVars
<1> QED BY <1>1, <1>3, <1>6, <1>7, <1>8, <1>9

LEMMA SettingsReplyKeeps ==
    ASSUME CallsInv, SettingsState, SettingsReply
    PROVE  SettingsState'
<1>1. PICK c \in calls :
        \/ twitterAccountsFulfilled(c) \/ sellPriceFulfilled(c)
        \/ fetchNetworkFulfilled(c) \/ fetchExternalAddressFulfilled(c)
        \/ setLogoutFulfilled(c) \/ SettingsThunkRejected(c)
  BY DEF SettingsReply
<1>2. SellPrice' = SellPrice /\ AccountEntries' = AccountEntries
  BY DEF SettingsReply, settingsNode, SellPrice, AccountEntries
<1>3. CASE setLogoutFulfilled(c)
  BY <1>3 DEF setLogoutFulfilled, SettingsState, SettingsCalls, SettingsFresh, Of
<1>4. ASSUME ~setLogoutFulfilled(c)
      PROVE  Ends(c) /\ c.thunk \in SettingsThunks
  BY <1>1, <1>4, SettleEnds, RejectedEnds DEF twitterAccountsFulfilled, sellPriceFulfilled,
     fetchNetworkFulfilled, fetchExternalAddressFulfilled, SettingsThunkRejected, Done,
     SettingsThunks
<1>5. ASSUME Ends(c)
      PROVE  SettingsCalls'
  <2> SUFFICES ASSUME NEW e \in calls', e.thunk \in SettingsThunks
               PROVE  SettingsAsks(e) /\ SettingsTold(e)'
    BY DEF SettingsCalls, Of, SettingsAsks, SettingsTold
  <2>1. PICK b \in calls : Waits(e, b)
    BY <1>5 DEF Ends
  <2>2. SettingsAsks(b) /\ SettingsTold(b)
    BY <2>1 DEF SettingsState, SettingsCalls, Of, Waits, Heir
  <2>3. SettingsAsks(e)
    BY <2>1, <2>2 DEF Heir, Waits, SettingsAsks
  <2>4. SettingsTold(e)'
    BY <1>2, <2>1, <2>2 DEF Heir, Waits, SettingsTold
  <2> QED BY <2>3, <2>4
<1>6. ASSUME Ends(c), NEW thunks, c.thunk \notin thunks
      PROVE  (\E b \in calls : b.thunk \in thunks) => \E e \in calls' : e.thunk \in thunks
  BY <1>6 DEF Ends, Waits, Heir
<1>7. ASSUME c.thunk \in SettingsThunks
      PROVE  SettingsTold(c)
  BY <1>7 DEF SettingsState, SettingsCalls, Of
<1>8. CASE sellPriceFulfilled(c)
  <2>1. c.thunk \in SetsPrice \cup {"fetchSellPrice"} /\ c.todo = <<>> /\ c.reply # Error
    BY <1>8 DEF sellPriceFulfilled, Done, SetsPrice
  <2>2. SettingsFieldOf(c) = "sellPriceInfo" /\ c.thunk \in SettingsThunks
    BY <2>1 DEF SettingsFieldOf, SetsPrice, SettingsThunks
  <2>3. Ends(c)
    BY <1>8, SettleEnds DEF sellPriceFulfilled
  <2>4. "sellPriceInfo" \in doubt' \/ sellPriceInfo' = SellPrice'
    BY <1>2, <1>7, <1>8, <2>1, <2>2
       DEF sellPriceFulfilled, SettingsTold, SettingsArrives, Replaces
  <2>5. /\ "twitterAccounts" \in settingsAwaited \cup doubt =>
                "twitterAccounts" \in settingsAwaited' \cup doubt'
        /\ twitterAccounts' = twitterAccounts
    BY <1>8, <2>2 DEF sellPriceFulfilled, SettingsArrives, Replaces
  <2>6. (\E b \in calls : b.thunk \in SetsAccounts) => \E e \in calls' : e.thunk \in SetsAccounts
    BY <1>6, <2>1, <2>3 DEF SetsPrice, SetsAccounts
  <2> QED BY <1>2, <1>5, <2>3, <2>4, <2>5, <2>6 DEF SettingsState, SettingsFresh
<1>9. CASE twitterAccountsFulfilled(c)
  <2>1. c.thunk \in SetsAccounts \cup {"fetchTwitterAccounts"} /\ c.todo = <<>> /\ c.reply # Error
    BY <1>9 DEF twitterAccountsFulfilled, Done, SetsAccounts
  <2>2. SettingsFieldOf(c) = "twitterAccounts" /\ c.thunk \in SettingsThunks
    BY <2>1 DEF SettingsFieldOf, SetsAccounts, SettingsThunks
  <2>3. Ends(c)
    BY <1>9, SettleEnds DEF twitterAccountsFulfilled
  <2>4. "twitterAccounts" \in doubt' \/ twitterAccounts' = AccountEntries'
    BY <1>2, <1>7, <1>9, <2>1, <2>2
       DEF twitterAccountsFulfilled, SettingsTold, SettingsArrives, Replaces
  <2>5. /\ "sellPriceInfo" \in settingsAwaited \cup doubt =>
                "sellPriceInfo" \in settingsAwaited' \cup doubt'
        /\ sellPriceInfo' = sellPriceInfo
    BY <1>9, <2>2 DEF twitterAccountsFulfilled, SettingsArrives, Replaces
  <2>6. (\E b \in calls : b.thunk \in SetsPrice) => \E e \in calls' : e.thunk \in SetsPrice
    BY <1>6, <2>1, <2>3 DEF SetsPrice, SetsAccounts
  <2> QED BY <1>2, <1>5, <2>3, <2>4, <2>5, <2>6 DEF SettingsState, SettingsFresh
<1>10. CASE fetchNetworkFulfilled(c) \/ fetchExternalAddressFulfilled(c)
  <2>1. /\ c.thunk \notin SetsPrice \cup SetsAccounts /\ Ends(c)
        /\ UNCHANGED <<doubt, twitterAccounts, sellPriceInfo, settingsAwaited>>
    BY <1>10, SettleEnds DEF fetchNetworkFulfilled, fetchExternalAddressFulfilled, Done,
       SetsPrice, SetsAccounts
  <2>2. /\ (\E b \in calls : b.thunk \in SetsPrice) => \E e \in calls' : e.thunk \in SetsPrice
        /\ (\E b \in calls : b.thunk \in SetsAccounts) => \E e \in calls' : e.thunk \in SetsAccounts
    BY <1>6, <2>1
  <2> QED BY <1>2, <1>5, <2>1, <2>2 DEF SettingsState, SettingsFresh
<1>11. CASE SettingsThunkRejected(c)
  <2>1. /\ Ends(c) /\ doubt' = doubt \cup {SettingsFieldOf(c)}
        /\ UNCHANGED <<twitterAccounts, sellPriceInfo, settingsAwaited>>
    BY <1>11, RejectedEnds DEF SettingsThunkRejected, Rejected, settingsFields
  <2>2. /\ c.thunk \in SetsPrice => "sellPriceInfo" \in doubt'
        /\ c.thunk \in SetsAccounts => "twitterAccounts" \in doubt'
    BY <2>1 DEF SettingsFieldOf, SetsPrice, SetsAccounts
  <2>3. /\ c.thunk \notin SetsPrice /\ (\E b \in calls : b.thunk \in SetsPrice)
                => \E e \in calls' : e.thunk \in SetsPrice
        /\ c.thunk \notin SetsAccounts /\ (\E b \in calls : b.thunk \in SetsAccounts)
                => \E e \in calls' : e.thunk \in SetsAccounts
    BY <1>6, <2>1
  <2> QED BY <1>2, <1>5, <2>1, <2>2, <2>3 DEF SettingsState, SettingsFresh
<1> QED BY <1>1, <1>3, <1>8, <1>9, <1>10, <1>11

\* What the theorem about the settings rests on.
SettingsInv == CrossedInv /\ SettingsState

\* A step of another slice.
LEMMA OtherSlicesElsewhere ==
    ASSUME CallsInv, Squeaks \/ Profiles \/ Peers \/ Payments
    PROVE  Elsewhere(SettingsThunks, SettingsData)
<1>1. CASE Squeaks
  <2>1. SliceStep(SqueakThunks) /\ doubt \ SqueakFields \subseteq doubt'
    BY <1>1, SqueaksSliceStep, SqueaksDoubt DEF Squeaks
  <2>2. SettingsThunks \cap SqueakThunks = {} /\ SettingsData \cap SqueakFields = {}
    BY DEF SettingsThunks, SqueakThunks, SettingsData, SqueakFields, PageFields, List
  <2> QED BY <2>1, <2>2, SliceElsewhere
<1>2. CASE Profiles
  <2>1. SliceStep(ProfileThunks) /\ doubt \ ProfileFields \subseteq doubt'
    BY <1>2, ProfilesSliceStep, ProfilesDoubt DEF Profiles
  <2>2. SettingsThunks \cap ProfileThunks = {} /\ SettingsData \cap ProfileFields = {}
    BY DEF SettingsThunks, ProfileThunks, SettingsData, ProfileFields, ProfileLists
  <2> QED BY <2>1, <2>2, SliceElsewhere
<1>3. CASE Peers
  <2>1. SliceStep(PeerThunks) /\ doubt \ PeerFields \subseteq doubt'
    BY <1>3, PeersSliceStep, PeersDoubt DEF Peers
  <2>2. SettingsThunks \cap PeerThunks = {} /\ SettingsData \cap PeerFields = {}
    BY DEF SettingsThunks, PeerThunks, SettingsData, PeerFields
  <2> QED BY <2>1, <2>2, SliceElsewhere
<1>4. CASE Payments
  <2>1. SliceStep(PaymentThunks) /\ doubt \ {} \subseteq doubt'
    BY <1>4, PaymentsSliceStep, PaymentsDoubt DEF Payments
  <2>2. SettingsThunks \cap PaymentThunks = {} /\ SettingsData \cap {} = {}
    BY DEF SettingsThunks, PaymentThunks
  <2> QED BY <2>1, <2>2, SliceElsewhere
<1> QED BY <1>1, <1>2, <1>3, <1>4

LEMMA SettingsInvInit == Init => SettingsInv
<1> SUFFICES ASSUME Init
             PROVE  SettingsInv
  OBVIOUS
<1>1. calls = {}
  BY DEF Init, ThunksInit
<1>2. CrossedInv
  BY <1>1 DEF CrossedInv, CallsInv, CrossInv
<1>3. SettingsCalls
  BY <1>1 DEF SettingsCalls, Of
<1>4. SettingsFresh
  BY DEF SettingsFresh, Init, SettingsInit
<1> QED BY <1>2, <1>3, <1>4 DEF SettingsInv, SettingsState

LEMMA SettingsInvNext == SettingsInv /\ [Next]_vars => SettingsInv'
<1> SUFFICES ASSUME CallsInv, CrossInv, SettingsState, [Next]_vars
             PROVE  SettingsState'
  BY CrossedInvNext DEF SettingsInv, CrossedInv
<1>1. CASE Settings
  BY <1>1, SettingsUserKeeps, SettingsServerKeeps, SettingsReplyKeeps DEF Settings
<1>2. CASE (Squeaks \/ Profiles \/ Peers \/ Payments) /\ UNCHANGED settingsVars
  BY <1>2, OtherSlicesElsewhere, SettingsElsewhere
<1>3. CASE Lost
  <2>1. Elsewhere(SettingsThunks, SettingsData)
    BY <1>3, LostElsewhere DEF Lost
  <2>2. UNCHANGED settingsVars
    BY <1>3 DEF Lost, butSqueaks
  <2> QED BY <2>1, <2>2, SettingsElsewhere
<1>4. CASE UNCHANGED vars
  <2>1. Elsewhere(SettingsThunks, SettingsData)
    BY <1>4, StutterElsewhere DEF vars, thunkVars
  <2>2. UNCHANGED settingsVars
    BY <1>4 DEF vars
  <2> QED BY <2>1, <2>2, SettingsElsewhere
<1> QED BY <1>1, <1>2, <1>3, <1>4 DEF Next, butSqueaks, butProfiles, butPeers, butPayments

LEMMA SettingsInvQuiet == SettingsInv => QuietSettingsTrue
<1> SUFFICES ASSUME SettingsInv, calls = {},
                    NEW field \in {"sellPriceInfo", "twitterAccounts"} \ (settingsAwaited \cup doubt)
             PROVE  CASE field = "sellPriceInfo" -> sellPriceInfo = SellPrice
                      [] OTHER -> twitterAccounts = AccountEntries
  BY DEF QuietSettingsTrue
<1>1. SettingsFresh
  BY DEF SettingsInv, SettingsState
<1>2. CASE field = "sellPriceInfo"
  BY <1>1, <1>2 DEF SettingsFresh
<1>3. CASE field = "twitterAccounts"
  BY <1>1, <1>3 DEF SettingsFresh
<1> QED BY <1>2, <1>3
-----------------------------------------------------------------------------
(* The theorems.                                                           *)

\* However saves of one host under several networks race, no two saved peers
\* have the same host and port or the same id (unique host and port of the
\* table of peers, get_peer_by_address).
THEOREM PeersStayUnique == Spec => []SavedPeersAreUnique
<1>1. Init => PeersInv
  BY PeersInvInit DEF Init
<1> QED BY <1>1, PeersInvNext, PeersInvUnique, PTL DEF Spec

\* Whether a purchase, a download or the making of a squeak succeeds or fails, and
\* in whatever order two of them end, it covers the screen only while a call is
\* under way, unless the reducer of its reply threw (makeSqueakStatus,
\* buySqueakStatus and downloadSqueakStatus of the slice of squeaks).
THEOREM ScreenOnlyCoveredByCalls == Spec => []ScreenBlockedByCall
<1>1. Init => ScreenInv
  BY DEF Init, ThunksInit, ScreenInv, ScreenBlockedByCall
<1>2. ScreenInv => ScreenBlockedByCall
  BY DEF ScreenInv
<1> QED BY <1>1, <1>2, ScreenInvNext, PTL DEF Spec

\* Whatever is liked, bought, deleted or downloaded meanwhile, a page never shows
\* another squeak as its own and never sells another one's key, unless an answer
\* for another page came in after its own, or the offer was carried over
\* (updatedSqueakInArray, currentSqueak and squeakOffers of the slice of squeaks).
THEOREM PagesShowTheirSqueak == Spec => []PageShowsItsSqueak
<1>1. Init => PageInv
  BY DEF Init, ThunksInit, SqueaksInit, PageInv, CallsInv, PageShowsItsSqueak, PageFields
<1>2. PageInv => PageShowsItsSqueak
  BY DEF PageInv
<1> QED BY <1>1, <1>2, PageInvNext, PTL DEF Spec

\* Whatever overlaps, fails or logs out, once nothing is under way the menu shows
\* the price that the node sells for, and the list its Twitter accounts, unless
\* that is marked as stale (sellPriceInfo and twitterAccounts of the slices).
THEOREM QuietSettingsShowTheNode == Spec => []QuietSettingsTrue
BY SettingsInvInit, SettingsInvNext, SettingsInvQuiet, PTL DEF Spec
-----------------------------------------------------------------------------
(* How a step changes the calls that are under way, for the thunks of the  *)
(* slices of profiles and of peers.                                        *)

\* A profile as it is stored: its id says its key.
WellFormed(p) ==
    /\ p = [id |-> p.id, pubkey |-> p.pubkey, name |-> p.name, following |-> p.following,
            image |-> p.image, private |-> p.private]
    /\ p.id \in Id /\ p.id[1] = p.pubkey

Creates == {"setCreateContactProfile", "setCreateSigningProfile", "setImportSigningProfile"}

\* The given request is the last one, after one that changes something.
AskingAfter(todo, request, arg) ==
    \E first : todo \in {<<first, <<request, arg>>>>, <<<<request, arg>>>>, <<>>}

\* What is left to ask for.
ProfileAsks(c) ==
    /\ c.thunk = "fetchProfile" => c.arg \in PubKey /\ Asking(c.todo, "getProfileByPubkey", c.arg)
    /\ c.thunk = "fetchPaymentSummaryForPubkey" =>
            Asking(c.todo, "getPaymentSummaryForPubkey", c.arg)
    /\ c.thunk = "fetchSigningProfiles" => Asking(c.todo, "getSigningProfiles", None)
    /\ c.thunk = "fetchContactProfiles" => Asking(c.todo, "getContactProfiles", None)
    /\ c.thunk \in ChangesProfile => c.arg # None /\ AskingAfter(c.todo, "getProfile", c.arg)
    /\ c.thunk \in Creates => AskingAfter(c.todo, "getProfile", None)
    /\ c.thunk = "setCreateContactProfile" => c.arg \in PubKey \cup {None}
    /\ c.thunk = "getProfilePrivateKey" =>
            \E id : Asking(c.todo, "getPrivateKey", id) /\ (c.arg.sure => id[1] = c.arg.page)

PeerAsks(c) ==
    /\ c.thunk = "fetchPeer" => Asking(c.todo, "getPeer", c.arg)
    /\ c.thunk \in PeerThunks \ {"fetchPeer", "fetchSavedPeers"} =>
            AskingAfter(c.todo, "getSavedPeers", None)
    /\ c.thunk = "fetchSavedPeers" => Asking(c.todo, "getSavedPeers", None)

PageThunks == ProfileThunks \cup PeerThunks

Switches == {"setPeerAutoconnectEnabled", "setPeerAutoconnectDisabled"}

\* A thunk that is dispatched; a switch is of a peer that is shown.
PageOpens(d) ==
    /\ ProfileAsks(d) /\ PeerAsks(d)
    /\ d.thunk \in PageThunks => d.todo # <<>>
    /\ d.thunk \in Switches => d.arg \in savedPeers \cup ({currentPeer} \ {None})

\* What the node answers to the request that is next.
ProfileSays(request, arg, reply) ==
    /\ request = "getProfileByPubkey" /\ arg \in PubKey =>
            reply = None \/ (WellFormed(reply) /\ reply.pubkey = arg)
    /\ request = "getPaymentSummaryForPubkey" => reply = arg
    /\ request \in {"getSigningProfiles", "getContactProfiles"} => \A p \in reply : WellFormed(p)
    /\ request = "getProfile" =>
            IF arg = None THEN reply \in PubKey ELSE reply = None \/ WellFormed(reply)
    /\ request = "getPrivateKey" => reply = arg[1]

PeerSays(request, arg, reply) ==
    /\ request = "getPeer" =>
            reply = None \/ (reply \in SavedPeers /\ HostOf[reply.address] = HostOf[arg])
    /\ request = "getSavedPeers" => reply = SavedPeers

PageSays(request, c, reply) ==
    ProfileSays(request, Argument(c), reply) /\ PeerSays(request, Argument(c), reply)

PageStep ==
    \/ UNCHANGED calls \/ calls' = {}
    \/ \E D : (\A d \in D : PageOpens(d)) /\ Dispatch(D)
    \/ \E c \in calls :
        \/ \E request, reply : At(c, request) /\ PageSays(request, c, reply) /\ Answer(c, reply)
        \/ Refuse(c)
        \/ \E D : (\A d \in D : PageOpens(d)) /\ Settle(c, D)
        \/ Crash(c)
        \/ \E hasCase, fields : Rejected(c, hasCase, fields)
    \/ \E gone, D, id : /\ gone \in SUBSET calls /\ \A d \in D : PageOpens(d)
                        /\ calls' = Begin(D, id, calls \ gone)

\* Two calls that differ in what was dispatched with them only.
Same(e, c) == e.thunk = c.thunk /\ e.arg = c.arg /\ e.todo = c.todo /\ e.reply = c.reply

\* Where the calls after a step come from.
Kept(e) == \E c \in calls : Same(e, c)

Opened(e) ==
    \E d : PageOpens(d) /\ e.thunk = d.thunk /\ e.arg = d.arg /\ e.todo = d.todo /\ e.reply = None

Refused(e) == \E c \in calls : e.thunk = c.thunk /\ e.arg = c.arg /\ e.todo = <<>> /\ e.reply = Error

Answered(e) ==
    \E c \in calls : \E request, reply :
        /\ At(c, request) /\ PageSays(request, c, reply)
        /\ e.thunk = c.thunk /\ e.arg = c.arg /\ e.todo = Tail(c.todo) /\ e.reply = reply

LEMMA BeginCalls ==
    ASSUME NEW D, \A d \in D : PageOpens(d), NEW id,
           NEW gone \in SUBSET calls, \A c \in calls : IsCall(c),
           NEW e \in Begin(D, id, calls \ gone)
    PROVE  Kept(e) \/ Opened(e)
<1>1. CASE \E d \in Followed(D) : e = Started(d, id, calls \ gone)
  BY <1>1 DEF Started, Followed, Opened
<1>2. CASE \E c \in calls \ gone :
            e = [c EXCEPT !.crossed = @ \/ \E d \in Followed(D) : d.writes]
  <2>0. PICK c \in calls : \E x : e = [c EXCEPT !.crossed = x]
    BY <1>2
  <2>1. PICK x : e = [c EXCEPT !.crossed = x]
    BY <2>0
  <2>2. e = [thunk |-> c.thunk, arg |-> c.arg, todo |-> c.todo, status |-> c.status,
             writes |-> c.writes, id |-> c.id, reply |-> c.reply, crossed |-> x]
    BY <2>0, <2>1 DEF IsCall
  <2> QED BY <2>0, <2>2 DEF Kept, Same
<1> QED BY <1>1, <1>2 DEF Begin

\* Of the calls after the step, one may be c with what is left and the reply.
Renewed(c, todo, reply) ==
    \A f \in calls' :
        Kept(f) \/ (f.thunk = c.thunk /\ f.arg = c.arg /\ f.todo = todo /\ f.reply = reply)

LEMMA ReplaceCalls ==
    ASSUME NEW c \in calls, IsCall(c), NEW todo, NEW reply,
           Replace(c, [c EXCEPT !.todo = todo, !.reply = reply])
    PROVE  Renewed(c, todo, reply)
<1> DEFINE b == [c EXCEPT !.todo = todo]
           d == [c EXCEPT !.todo = todo, !.reply = reply]
<1>1. b = [thunk |-> c.thunk, arg |-> c.arg, todo |-> todo, status |-> c.status,
           writes |-> c.writes, id |-> c.id, reply |-> c.reply, crossed |-> c.crossed]
  BY DEF IsCall
<1>2. d = [b EXCEPT !.reply = reply]
  OBVIOUS
<1>3. \A e \in calls' : e \in calls \/ e = d
  BY DEF Replace
<1> HIDE DEF b, d
<1>4. d.thunk = c.thunk /\ d.arg = c.arg /\ d.todo = todo /\ d.reply = reply
  BY <1>1, <1>2
<1> QED BY <1>3, <1>4 DEF Kept, Same, Renewed

LEMMA CallsAfter ==
    ASSUME PageStep, \A c \in calls : IsCall(c), NEW e \in calls'
    PROVE  Kept(e) \/ Opened(e) \/ Refused(e) \/ Answered(e)
<1>1. ASSUME NEW gone \in SUBSET calls, NEW D, NEW id, \A d \in D : PageOpens(d),
             calls' = Begin(D, id, calls \ gone)
      PROVE  Kept(e) \/ Opened(e)
  BY <1>1, BeginCalls
<1>2. ASSUME NEW D, \A d \in D : PageOpens(d), Dispatch(D)
      PROVE  Kept(e) \/ Opened(e)
  <2>1. calls' = Begin(D, events + 1, calls \ {}) /\ {} \in SUBSET calls
    BY <1>2 DEF Dispatch
  <2> QED BY <1>1, <1>2, <2>1
<1>3. ASSUME NEW c \in calls, NEW D, \A d \in D : PageOpens(d), Settle(c, D)
      PROVE  Kept(e) \/ Opened(e)
  <2>1. calls' = Begin(D, c.id, calls \ {c}) /\ {c} \in SUBSET calls
    BY <1>3 DEF Settle
  <2> QED BY <1>1, <1>3, <2>1
<1>4. ASSUME NEW c \in calls, NEW request, NEW reply,
             At(c, request), PageSays(request, c, reply), Answer(c, reply)
      PROVE  Kept(e) \/ Answered(e)
  <2>1. Replace(c, [c EXCEPT !.todo = Tail(c.todo), !.reply = reply])
    BY <1>4 DEF Answer, IsCall
  <2>2. Renewed(c, Tail(c.todo), reply)
    BY <2>1, ReplaceCalls
  <2> QED BY <1>4, <2>2 DEF Answered, Renewed
<1>5. ASSUME NEW c \in calls, Refuse(c)
      PROVE  Kept(e) \/ Refused(e)
  <2>1. Replace(c, [c EXCEPT !.todo = <<>>, !.reply = Error])
    BY <1>5 DEF Refuse
  <2>2. Renewed(c, <<>>, Error)
    BY <2>1, ReplaceCalls
  <2> QED BY <2>2 DEF Refused, Renewed
<1>6. ASSUME e \in calls
      PROVE  Kept(e)
  BY <1>6 DEF Kept, Same
<1> QED BY <1>1, <1>2, <1>3, <1>4, <1>5, <1>6 DEF PageStep, Crash, Rejected
-----------------------------------------------------------------------------
(* What a call has been told.                                              *)

LEMMA AskingAnswered ==
    ASSUME NEW c, NEW next, NEW request, NEW arg, Asking(c.todo, request, arg), At(c, next)
    PROVE  next = request /\ Argument(c) = arg /\ Tail(c.todo) = <<>>
<1>1. c.todo = <<<<request, arg>>>>
  BY DEF Asking, At
<1>2. Head(c.todo) = <<request, arg>> /\ Tail(c.todo) = <<>>
  BY <1>1, OneLeft
<1> QED BY <1>2 DEF At, Argument

LEMMA AskingAfterAnswered ==
    ASSUME NEW c, NEW next, NEW request, NEW arg, AskingAfter(c.todo, request, arg), At(c, next)
    PROVE  /\ AskingAfter(Tail(c.todo), request, arg)
           /\ Tail(c.todo) = <<>> => next = request /\ Argument(c) = arg
<1>1. PICK first : c.todo \in {<<first, <<request, arg>>>>, <<<<request, arg>>>>}
  BY DEF AskingAfter, At
<1>2. CASE c.todo = <<first, <<request, arg>>>>
  <2>1. Tail(c.todo) = <<<<request, arg>>>>
    BY <1>2, TwoLeft
  <2>2. Tail(c.todo) # <<>>
    BY <2>1, OneLeft
  <2> QED BY <2>1, <2>2 DEF AskingAfter
<1>3. CASE c.todo = <<<<request, arg>>>>
  <2>1. Head(c.todo) = <<request, arg>> /\ Tail(c.todo) = <<>>
    BY <1>3, OneLeft
  <2> QED BY <2>1 DEF AskingAfter, At, Argument
<1> QED BY <1>1, <1>2, <1>3

\* The reply that a profile thunk ends with.
ProfileTold(e) ==
    /\ e.thunk = "fetchProfile" => e.reply = None \/ (WellFormed(e.reply) /\ e.reply.pubkey = e.arg)
    /\ e.thunk = "fetchPaymentSummaryForPubkey" => e.reply = e.arg
    /\ e.thunk \in {"fetchSigningProfiles", "fetchContactProfiles"} =>
            \A p \in e.reply : WellFormed(p)
    /\ e.thunk \in ChangesProfile => e.reply = None \/ WellFormed(e.reply)
    /\ e.thunk \in Creates => e.reply \in PubKey
    /\ e.thunk = "getProfilePrivateKey" => (e.arg.sure => e.reply = e.arg.page)

ProfileAsked(c) == ProfileAsks(c) /\ (c.todo = <<>> /\ c.reply # Error => ProfileTold(c))

LEMMA ProfileAnswered ==
    ASSUME NEW c, NEW request, NEW reply, ProfileAsks(c), At(c, request),
           ProfileSays(request, Argument(c), reply),
           NEW e, e.thunk = c.thunk, e.arg = c.arg, e.todo = Tail(c.todo), e.reply = reply
    PROVE  ProfileAsked(e)
<1>1. CASE c.thunk = "fetchProfile"
  <2>1. Asking(c.todo, "getProfileByPubkey", c.arg) /\ c.arg \in PubKey
    BY <1>1 DEF ProfileAsks
  <2>2. request = "getProfileByPubkey" /\ Argument(c) = c.arg /\ e.todo = <<>>
    BY <2>1, AskingAnswered
  <2> QED BY <1>1, <2>1, <2>2 DEF ProfileAsked, ProfileAsks, ProfileTold, ProfileSays, Asking,
             ChangesProfile, Creates
<1>2. CASE c.thunk = "fetchPaymentSummaryForPubkey"
  <2>1. Asking(c.todo, "getPaymentSummaryForPubkey", c.arg)
    BY <1>2 DEF ProfileAsks
  <2>2. request = "getPaymentSummaryForPubkey" /\ Argument(c) = c.arg /\ e.todo = <<>>
    BY <2>1, AskingAnswered
  <2> QED BY <1>2, <2>1, <2>2 DEF ProfileAsked, ProfileAsks, ProfileTold, ProfileSays, Asking,
             ChangesProfile, Creates
<1>3. CASE c.thunk = "fetchSigningProfiles"
  <2>1. Asking(c.todo, "getSigningProfiles", None)
    BY <1>3 DEF ProfileAsks
  <2>2. request = "getSigningProfiles" /\ Argument(c) = None /\ e.todo = <<>>
    BY <2>1, AskingAnswered
  <2> QED BY <1>3, <2>1, <2>2 DEF ProfileAsked, ProfileAsks, ProfileTold, ProfileSays, Asking,
             ChangesProfile, Creates
<1>4. CASE c.thunk = "fetchContactProfiles"
  <2>1. Asking(c.todo, "getContactProfiles", None)
    BY <1>4 DEF ProfileAsks
  <2>2. request = "getContactProfiles" /\ Argument(c) = None /\ e.todo = <<>>
    BY <2>1, AskingAnswered
  <2> QED BY <1>4, <2>1, <2>2 DEF ProfileAsked, ProfileAsks, ProfileTold, ProfileSays, Asking,
             ChangesProfile, Creates
<1>5. CASE c.thunk \in ChangesProfile
  <2>1. AskingAfter(c.todo, "getProfile", c.arg) /\ c.arg # None
    BY <1>5 DEF ProfileAsks
  <2>2. /\ AskingAfter(e.todo, "getProfile", c.arg)
        /\ e.todo = <<>> => request = "getProfile" /\ Argument(c) = c.arg
    BY <2>1, AskingAfterAnswered
  <2> QED BY <1>5, <2>1, <2>2 DEF ProfileAsked, ProfileAsks, ProfileTold, ProfileSays,
             ChangesProfile, Creates
<1>6. CASE c.thunk \in Creates
  <2>1. AskingAfter(c.todo, "getProfile", None)
        /\ (c.thunk = "setCreateContactProfile" => c.arg \in PubKey \cup {None})
    BY <1>6 DEF ProfileAsks
  <2>2. /\ AskingAfter(e.todo, "getProfile", None)
        /\ e.todo = <<>> => request = "getProfile" /\ Argument(c) = None
    BY <2>1, AskingAfterAnswered
  <2> QED BY <1>6, <2>1, <2>2 DEF ProfileAsked, ProfileAsks, ProfileTold, ProfileSays,
             ChangesProfile, Creates
<1>7. CASE c.thunk = "getProfilePrivateKey"
  <2>1. PICK id : Asking(c.todo, "getPrivateKey", id) /\ (c.arg.sure => id[1] = c.arg.page)
    BY <1>7 DEF ProfileAsks
  <2>2. request = "getPrivateKey" /\ Argument(c) = id /\ e.todo = <<>>
    BY <2>1, AskingAnswered
  <2>3. c.arg.sure => reply = c.arg.page
    BY <2>1, <2>2 DEF ProfileSays
  <2>4. Asking(e.todo, "getPrivateKey", id)
    BY <2>2 DEF Asking
  <2>5. ProfileAsks(e)
    BY <1>7, <2>1, <2>4 DEF ProfileAsks, ChangesProfile, Creates
  <2> QED BY <1>7, <2>3, <2>5 DEF ProfileAsked, ProfileTold, ChangesProfile, Creates
<1>8. CASE c.thunk \notin ProfileThunks
  BY <1>8 DEF ProfileThunks, ProfileAsked, ProfileAsks, ProfileTold, ChangesProfile, Creates
<1>9. CASE c.thunk = "setDeleteProfile"
  BY <1>9 DEF ProfileAsked, ProfileAsks, ProfileTold, ChangesProfile, Creates
<1> QED BY <1>1, <1>2, <1>3, <1>4, <1>5, <1>6, <1>7, <1>8, <1>9
        DEF ProfileThunks, ChangesProfile, Creates

LEMMA ProfileAskedAfter ==
    ASSUME PageStep, \A c \in calls : IsCall(c) /\ ProfileAsked(c), NEW e \in calls'
    PROVE  ProfileAsked(e)
<1>1. CASE Kept(e)
  <2>1. PICK c \in calls : Same(e, c)
    BY <1>1 DEF Kept
  <2>2. ProfileAsked(c)
    OBVIOUS
  <2> QED BY <2>1, <2>2 DEF Same, ProfileAsked, ProfileAsks, ProfileTold, Asking, AskingAfter
<1>2. CASE Opened(e)
  <2>1. PICK d : PageOpens(d) /\ e.thunk = d.thunk /\ e.arg = d.arg /\ e.todo = d.todo
    BY <1>2 DEF Opened
  <2>2. ProfileAsks(e)
    BY <2>1 DEF PageOpens, ProfileAsks, Asking, AskingAfter
  <2>3. e.todo = <<>> => ProfileTold(e)
    BY <2>1 DEF PageOpens, PageThunks, ProfileThunks, ProfileTold, ChangesProfile, Creates
  <2> QED BY <2>2, <2>3 DEF ProfileAsked
<1>3. CASE Refused(e)
  <2>1. PICK c \in calls : e.thunk = c.thunk /\ e.arg = c.arg /\ e.todo = <<>> /\ e.reply = Error
    BY <1>3 DEF Refused
  <2>2. ProfileAsks(c)
    BY DEF ProfileAsked
  <2> QED BY <2>1, <2>2 DEF ProfileAsked, ProfileAsks, Asking, AskingAfter
<1>4. CASE Answered(e)
  <2>0. PICK c \in calls : \E request, reply :
            /\ At(c, request) /\ PageSays(request, c, reply)
            /\ e.thunk = c.thunk /\ e.arg = c.arg /\ e.todo = Tail(c.todo) /\ e.reply = reply
    BY <1>4 DEF Answered
  <2>1. PICK request, reply :
            /\ At(c, request) /\ PageSays(request, c, reply)
            /\ e.thunk = c.thunk /\ e.arg = c.arg /\ e.todo = Tail(c.todo) /\ e.reply = reply
    BY <2>0
  <2>2. ProfileAsks(c)
    BY DEF ProfileAsked
  <2> QED BY <2>1, <2>2, ProfileAnswered DEF PageSays
<1> QED BY <1>1, <1>2, <1>3, <1>4, CallsAfter

\* A peer as it was saved: addresses[i] is the address of the i-th one.
Numbered(p, addresses, saved) == p.id \in 1..saved /\ addresses[p.id] = p.address

\* The reply that a peer thunk ends with.
PeerTold(e, addresses, saved) ==
    /\ e.thunk = "fetchPeer" =>
            e.reply = None \/ (/\ Numbered(e.reply, addresses, saved)
                              /\ HostOf[e.reply.address] = HostOf[e.arg])
    /\ e.thunk \in PeerThunks \ {"fetchPeer"} =>
            \A p \in e.reply : Numbered(p, addresses, saved)

PeerAsked(c, addresses, saved) ==
    /\ PeerAsks(c)
    /\ c.thunk \in Switches => Numbered(c.arg, addresses, saved)
    /\ c.todo = <<>> /\ c.reply # Error => PeerTold(c, addresses, saved)

PeersNumbered(addresses, saved) ==
    \A p \in SavedPeers \cup savedPeers \cup ({currentPeer} \ {None}) :
        Numbered(p, addresses, saved)

LEMMA PeerAnswered ==
    ASSUME NEW addresses, NEW saved, PeersNumbered(addresses, saved),
           NEW c, NEW request, NEW reply, PeerAsked(c, addresses, saved), At(c, request),
           PeerSays(request, Argument(c), reply),
           NEW e, e.thunk = c.thunk, e.arg = c.arg, e.todo = Tail(c.todo), e.reply = reply
    PROVE  PeerAsked(e, addresses, saved)
<1>1. CASE c.thunk = "fetchPeer"
  <2>1. Asking(c.todo, "getPeer", c.arg)
    BY <1>1 DEF PeerAsked, PeerAsks
  <2>2. request = "getPeer" /\ Argument(c) = c.arg /\ e.todo = <<>>
    BY <2>1, AskingAnswered
  <2> QED BY <1>1, <2>1, <2>2 DEF PeerAsked, PeerAsks, PeerTold, PeerSays, Asking, PeersNumbered,
             Switches
<1>2. CASE c.thunk = "fetchSavedPeers"
  <2>1. Asking(c.todo, "getSavedPeers", None)
    BY <1>2 DEF PeerAsked, PeerAsks
  <2>2. request = "getSavedPeers" /\ e.todo = <<>>
    BY <2>1, AskingAnswered
  <2> QED BY <1>2, <2>1, <2>2 DEF PeerAsked, PeerAsks, PeerTold, PeerSays, Asking, PeersNumbered,
             Switches
<1>3. CASE c.thunk \in PeerThunks \ {"fetchPeer", "fetchSavedPeers"}
  <2>1. AskingAfter(c.todo, "getSavedPeers", None)
    BY <1>3 DEF PeerAsked, PeerAsks
  <2>2. /\ AskingAfter(e.todo, "getSavedPeers", None)
        /\ e.todo = <<>> => request = "getSavedPeers"
    BY <2>1, AskingAfterAnswered
  <2> QED BY <1>3, <2>1, <2>2 DEF PeerAsked, PeerAsks, PeerTold, PeerSays, PeersNumbered
<1>4. CASE c.thunk \notin PeerThunks
  BY <1>4 DEF PeerThunks, PeerAsked, PeerAsks, PeerTold, Switches
<1> QED BY <1>1, <1>2, <1>3, <1>4

LEMMA PeerAskedAfter ==
    ASSUME NEW addresses, NEW saved, PeersNumbered(addresses, saved), PageStep,
           \A c \in calls : IsCall(c) /\ PeerAsked(c, addresses, saved), NEW e \in calls'
    PROVE  PeerAsked(e, addresses, saved)
<1>1. CASE Kept(e)
  <2>1. PICK c \in calls : Same(e, c)
    BY <1>1 DEF Kept
  <2>2. PeerAsked(c, addresses, saved)
    OBVIOUS
  <2> QED BY <2>1, <2>2 DEF Same, PeerAsked, PeerAsks, PeerTold, Asking, AskingAfter
<1>2. CASE Opened(e)
  <2>1. PICK d : PageOpens(d) /\ e.thunk = d.thunk /\ e.arg = d.arg /\ e.todo = d.todo
    BY <1>2 DEF Opened
  <2>2. PeerAsks(e)
    BY <2>1 DEF PageOpens, PeerAsks, Asking, AskingAfter
  <2>3. e.todo = <<>> => PeerTold(e, addresses, saved)
    BY <2>1 DEF PageOpens, PageThunks, PeerThunks, PeerTold
  <2>4. e.thunk \in Switches => Numbered(e.arg, addresses, saved)
    BY <2>1 DEF PageOpens, PeersNumbered
  <2> QED BY <2>2, <2>3, <2>4 DEF PeerAsked
<1>3. CASE Refused(e)
  <2>1. PICK c \in calls : e.thunk = c.thunk /\ e.arg = c.arg /\ e.todo = <<>> /\ e.reply = Error
    BY <1>3 DEF Refused
  <2>2. PeerAsked(c, addresses, saved)
    OBVIOUS
  <2> QED BY <2>1, <2>2 DEF PeerAsked, PeerAsks, Asking, AskingAfter
<1>4. CASE Answered(e)
  <2>0. PICK c \in calls : \E request, reply :
            /\ At(c, request) /\ PageSays(request, c, reply)
            /\ e.thunk = c.thunk /\ e.arg = c.arg /\ e.todo = Tail(c.todo) /\ e.reply = reply
    BY <1>4 DEF Answered
  <2>1. PICK request, reply :
            /\ At(c, request) /\ PageSays(request, c, reply)
            /\ e.thunk = c.thunk /\ e.arg = c.arg /\ e.todo = Tail(c.todo) /\ e.reply = reply
    BY <2>0
  <2>2. PeerAsked(c, addresses, saved)
    OBVIOUS
  <2> QED BY <2>1, <2>2, PeerAnswered DEF PageSays
<1>5. \A c \in calls : IsCall(c)
  OBVIOUS
<1> QED BY <1>1, <1>2, <1>3, <1>4, <1>5, CallsAfter
-----------------------------------------------------------------------------
(* What is stored and what is shown.                                       *)

ProfilesKeyed ==
    /\ profiles = [k \in PubKey |-> profiles[k]]
    /\ born \in [PubKey -> Nat]
    /\ \A k \in PubKey : profiles[k] # None => WellFormed(profiles[k]) /\ profiles[k].pubkey = k

ProfilesShown ==
    /\ currentProfile = None \/ WellFormed(currentProfile)
    /\ \A p \in signingProfiles \cup contactProfiles : WellFormed(p)

\* A thunk that is of no profile and no peer.
LEMMA OthersPageOpen ==
    ASSUME NEW d, d.thunk \notin PageThunks
    PROVE  PageOpens(d)
BY DEF PageOpens, PageThunks, ProfileAsks, PeerAsks, ProfileThunks, PeerThunks, Switches,
       ChangesProfile, Creates

LEMMA OthersPageSay ==
    ASSUME NEW request, NEW c, NEW reply,
           request \notin {"getProfileByPubkey", "getPaymentSummaryForPubkey", "getSigningProfiles",
                          "getContactProfiles", "getProfile", "getPrivateKey", "getPeer",
                          "getSavedPeers"}
    PROVE  PageSays(request, c, reply)
BY DEF PageSays, ProfileSays, PeerSays

LEMMA SqueakThunksPage ==
    ASSUME NEW s, NEW o
    PROVE  /\ PageOpens(fetchSqueak(s)) /\ PageOpens(setLikeSqueak(s)) /\ PageOpens(setUnlikeSqueak(s))
           /\ PageOpens(setDeleteSqueak(s)) /\ PageOpens(fetchAncestorSqueaks(s))
           /\ PageOpens(fetchReplySqueaks(s)) /\ PageOpens(fetchTimeline) /\ PageOpens(fetchSearch)
           /\ PageOpens(fetchProfileSqueaks) /\ PageOpens(setMakeSqueak(s))
           /\ PageOpens(fetchSqueakOffers(s)) /\ PageOpens(setBuySqueak(o, s))
           /\ PageOpens(setDownloadSqueak(s)) /\ PageOpens(fetchPaymentSummaryForSqueak(s))
           /\ \A d \in SqueakMounted(s) : PageOpens(d)
BY OthersPageOpen DEF PageThunks, ProfileThunks, PeerThunks, Read, Write, SqueakMounted, fetchSqueak,
   setLikeSqueak, setUnlikeSqueak, setDeleteSqueak, fetchAncestorSqueaks, fetchReplySqueaks,
   fetchTimeline, fetchSearch, fetchProfileSqueaks, setMakeSqueak, fetchSqueakOffers, setBuySqueak,
   setDownloadSqueak, fetchPaymentSummaryForSqueak

LEMMA SqueaksPageStep ==
    ASSUME SqueakUser \/ SqueakServer \/ SqueakReply
    PROVE  PageStep
<1>1. CASE SqueakUser
  <2>1. CASE \E s \in Squeak : OpenSqueak(s)
    BY <2>1, SqueakThunksPage DEF OpenSqueak, PageStep
  <2>2. CASE OpenTimeline \/ OpenSearch \/ OpenProfileSqueaks
    BY <2>2, SqueakThunksPage DEF OpenTimeline, OpenSearch, OpenProfileSqueaks, OpenList, PageStep
  <2>3. ASSUME NEW e, NEW s, Heart(e, s)
        PROVE  PageStep
    BY <2>3, SqueakThunksPage DEF Heart, PageStep
  <2>4. CASE ClickPageHeart \/ ClickPageDelete \/ ClickDownload
    BY <2>3, <2>4, SqueakThunksPage DEF ClickPageHeart, ClickPageDelete, ClickDownload, PageStep
  <2>5. CASE \E e \in Cards : ClickCardHeart(e) \/ ClickCardDelete(e)
    BY <2>3, <2>5, SqueakThunksPage DEF ClickCardHeart, ClickCardDelete, PageStep
  <2>6. CASE toggleBuyModal \/ ClickBuy
    BY <2>6, SqueakThunksPage DEF toggleBuyModal, ClickBuy, PageStep, thunkVars
  <2>7. CASE \E o \in Offer : handleChangeOffer(o)
    BY <2>7 DEF handleChangeOffer, PageStep, thunkVars
  <2>8. CASE \E r \in ReplyTargets : submitSqueak(r)
    BY <2>8, SqueakThunksPage DEF submitSqueak, PageStep
  <2> QED BY <1>1, <2>1, <2>2, <2>4, <2>5, <2>6, <2>7, <2>8 DEF SqueakUser
<1>2. CASE SqueakServer
  <2>1. \E c \in calls :
          \/ \E request, reply : At(c, request) /\ PageSays(request, c, reply) /\ Answer(c, reply)
          \/ Refuse(c)
    BY <1>2, OthersPageSay DEF SqueakServer, Of, getSqueak, getAncestorSqueaks, getReplySqueaks,
       getTimelineSqueaks, getSearchSqueaks, getProfileSqueaks, getSqueakOffers,
       getPaymentSummaryForSqueak, likeSqueak, unlikeSqueak, deleteSqueak, makeSqueak,
       downloadSqueak, buySqueak
  <2> QED BY <2>1 DEF PageStep
<1>3. CASE SqueakReply
  <2>1. \E c \in calls :
          \/ \E D : (\A d \in D : PageOpens(d)) /\ Settle(c, D)
          \/ Crash(c)
          \/ \E hasCase, fields : Rejected(c, hasCase, fields)
    BY <1>3, SqueakThunksPage DEF SqueakReply, fetchSqueakFulfilled,
       fetchAncestorSqueaksFulfilled, fetchReplySqueaksFulfilled, fetchListFulfilled,
       fetchSqueakOffersFulfilled, fetchPaymentSummaryForSqueakFulfilled, setLikeSqueakFulfilled,
       setUnlikeSqueakFulfilled, setDeleteSqueakFulfilled, setMakeSqueakFulfilled,
       setBuySqueakFulfilled, setDownloadSqueakFulfilled, SqueakReducerThrows, SqueakThunkRejected
  <2> QED BY <2>1 DEF PageStep
<1> QED BY <1>1, <1>2, <1>3

LEMMA PaymentsPageStep ==
    ASSUME PaymentUser \/ PaymentRecorded \/ PaymentServer \/ PaymentReply
    PROVE  PageStep
<1>1. ASSUME NEW kind, NEW owner, NEW last
      PROVE  PageOpens(fetchList(kind, owner, last)) /\ PageOpens(fetchPaymentSummary)
  BY OthersPageOpen DEF PageThunks, ProfileThunks, PeerThunks, fetchList, fetchSentPayments, fetchReceivedPayments, fetchPayments, Read,
     fetchPaymentSummary
<1>2. ASSUME NEW kind, NEW owner, MountPayments(kind, owner)
      PROVE  PageStep
  <2>1. {} \in SUBSET calls /\ calls \ {} = calls
        /\ \A d \in {fetchList(kind, owner, None)} : PageOpens(d)
    BY <1>1
  <2>2. calls' = Begin({fetchList(kind, owner, None)}, events + 1, calls \ {})
    BY <1>2, <2>1 DEF MountPayments
  <2> QED BY <2>1, <2>2 DEF PageStep
<1>3. CASE PaymentUser
  BY <1>1, <1>2, <1>3
     DEF PaymentUser, OpenPayments, SwitchTab, LoadMore, OpenFeed, PageStep, thunkVars
<1>4. CASE PaymentRecorded
  BY <1>4 DEF PaymentRecorded, PageStep, thunkVars
<1>5. CASE PaymentServer
  <2>1. \E c \in calls : \E request, reply :
            At(c, request) /\ PageSays(request, c, reply) /\ Answer(c, reply)
    BY <1>5, OthersPageSay DEF PaymentServer, Of, getSentPayments, getReceivedPayments, getPaymentSummary
  <2> QED BY <2>1 DEF PageStep
<1>6. CASE PaymentReply
  BY <1>6 DEF PaymentReply, fetchPaymentsFulfilled, fetchPaymentSummaryFulfilled,
     PaymentThunkRejected, PageStep
<1> QED BY <1>3, <1>4, <1>5, <1>6

LEMMA SettingsPageStep ==
    ASSUME SettingsUser \/ SettingsServer \/ SettingsReply
    PROVE  PageStep
<1>1. ASSUME NEW x
      PROVE  /\ PageOpens(fetchTwitterAccounts) /\ PageOpens(setCreateTwitterAccount(x))
             /\ PageOpens(setDeleteTwitterAccount(x)) /\ PageOpens(fetchSellPrice)
             /\ PageOpens(setSellPrice(x)) /\ PageOpens(setClearSellPrice) /\ PageOpens(fetchNetwork)
             /\ PageOpens(fetchExternalAddress) /\ PageOpens(setLogout)
  BY OthersPageOpen DEF PageThunks, ProfileThunks, PeerThunks, fetchTwitterAccounts, setCreateTwitterAccount, setDeleteTwitterAccount,
     fetchSellPrice, setSellPrice, setClearSellPrice, fetchNetwork, fetchExternalAddress,
     setLogout, Read, Write
<1>2. CASE SettingsUser
  BY <1>1, <1>2 DEF SettingsUser, OpenApp, OpenTwitterAccounts, OpenAddress, OpenNetwork,
     addTwitterAccount, ClickDeleteAccount, submitSellPrice, setSellPriceToDefault, ClickLogout,
     PageStep
<1>3. CASE SettingsServer
  <2>1. \E c \in calls :
          \/ \E request, reply : At(c, request) /\ PageSays(request, c, reply) /\ Answer(c, reply)
          \/ Refuse(c)
    BY <1>3, OthersPageSay DEF SettingsServer, Of, getTwitterAccounts, createTwitterAccount,
       deleteTwitterAccount, getSellPrice, updateSellPrice, clearSellPrice, getNetwork,
       getExternalAddress, logout, Redirected
  <2> QED BY <2>1 DEF PageStep
<1>4. CASE SettingsReply
  BY <1>4 DEF SettingsReply, twitterAccountsFulfilled, sellPriceFulfilled, fetchNetworkFulfilled,
     fetchExternalAddressFulfilled, setLogoutFulfilled, SettingsThunkRejected, PageStep
<1> QED BY <1>2, <1>3, <1>4

LEMMA ProfilesPageOpen ==
    ASSUME NEW k, NEW name, NEW id
    PROVE  /\ k \in PubKey => PageOpens(fetchProfile(k)) /\ \A d \in ProfileMounted(k) : PageOpens(d)
           /\ id \in Id => /\ PageOpens(setFollowProfile(id)) /\ PageOpens(setUnfollowProfile(id))
                           /\ PageOpens(setRenameProfile(id, name)) /\ PageOpens(setProfileImage(id))
           /\ PageOpens(setDeleteProfile(id))
           /\ PageOpens(fetchSigningProfiles) /\ PageOpens(fetchContactProfiles)
           /\ PageOpens(setCreateSigningProfile(name)) /\ PageOpens(setImportSigningProfile(name, k))
<1>1. \A x : <<x>> # <<>>
  BY OneLeft
<1>2. \A x, y : <<x, y>> # <<>>
  OBVIOUS
<1>3. id \in Id => id # None
  BY ProfilesAssumption DEF Id
<1> USE DEF PageOpens, ProfileAsks, PeerAsks, PageThunks, ProfileThunks, PeerThunks, Switches,
           ChangesProfile, Creates, Read, Write
<1>4. k \in PubKey => PageOpens(fetchProfile(k))
  BY <1>1 DEF Asking, fetchProfile
<1>5. PageOpens(fetchPaymentSummaryForPubkey(k))
  BY <1>1 DEF Asking, fetchPaymentSummaryForPubkey
<1>6. ASSUME NEW thunk \in ChangesProfile, NEW request, NEW arg, id \in Id
      PROVE  PageOpens(Change(thunk, id, request, arg))
  BY <1>2, <1>3, <1>6 DEF AskingAfter, Change
<1>7. PageOpens(setDeleteProfile(id))
  BY <1>1 DEF setDeleteProfile
<1>8. PageOpens(fetchSigningProfiles) /\ PageOpens(fetchContactProfiles)
  BY <1>1 DEF Asking, fetchSigningProfiles, fetchContactProfiles
<1>9. PageOpens(setCreateSigningProfile(name)) /\ PageOpens(setImportSigningProfile(name, k))
  BY <1>2 DEF AskingAfter, Create, setCreateSigningProfile, setImportSigningProfile
<1> HIDE DEF PageOpens, Write
<1> QED BY <1>4, <1>5, <1>6, <1>7, <1>8, <1>9 DEF ProfileMounted, setFollowProfile,
        setUnfollowProfile, setRenameProfile, setProfileImage

LEMMA CreateContactOpens ==
    ASSUME NEW from \in PubKey \cup {None}, NEW name, NEW k
    PROVE  PageOpens(setCreateContactProfile(from, name, k))
<1>1. \A x, y : <<x, y>> # <<>>
  OBVIOUS
<1> QED BY <1>1 DEF PageOpens, ProfileAsks, PeerAsks, PageThunks, ProfileThunks, PeerThunks, Switches,
            ChangesProfile, Creates, AskingAfter, Write, Create, setCreateContactProfile

LEMMA ExportOpens ==
    ASSUME NEW id, NEW page, NEW sure, sure => id[1] = page
    PROVE  PageOpens(getProfilePrivateKey(id, page, sure))
<1>1. \A x : <<x>> # <<>>
  BY OneLeft
<1> QED BY <1>1 DEF PageOpens, ProfileAsks, PeerAsks, PageThunks, ProfileThunks, PeerThunks, Switches,
            ChangesProfile, Creates, Asking, Read, getProfilePrivateKey

\* What a profile page does with the calls.
LEMMA ProfileUserStep ==
    ASSUME ProfilesShown, ProfilePageShowsItsProfile, ProfileUser
    PROVE  PageStep
<1>1. ASSUME NEW D, \A d \in D : PageOpens(d), Dispatch(D)
      PROVE  PageStep
  BY <1>1 DEF PageStep
<1>2. currentProfile # None => currentProfile.id \in Id /\ currentProfile.id[1] = currentProfile.pubkey
  BY DEF ProfilesShown, WellFormed
<1>3. \A p \in ProfileCards : p.id \in Id
  BY DEF ProfilesShown, ProfileCards, WellFormed
<1>4. CASE \E k \in PubKey : OpenProfile(k)
  BY <1>1, <1>4, ProfilesPageOpen DEF OpenProfile
<1>5. CASE OpenSigningProfiles \/ OpenContactProfiles \/ OpenMakeSqueak
  BY <1>1, <1>5, ProfilesPageOpen DEF OpenSigningProfiles, OpenContactProfiles, OpenMakeSqueak
<1>6. ASSUME NEW p, p.id \in Id, Switch(p)
      PROVE  PageStep
  BY <1>1, <1>6, ProfilesPageOpen DEF Switch
<1>7. CASE ClickFollow \/ \E p \in ProfileCards : ClickCardFollow(p)
  BY <1>2, <1>3, <1>6, <1>7 DEF ClickFollow, ClickCardFollow, OnPage
<1>8. CASE \/ changeAvatar \/ ClickDeleteProfile \/ \E name \in Name : editProfile(name)
  BY <1>1, <1>2, <1>8, ProfilesPageOpen DEF changeAvatar, ClickDeleteProfile, editProfile, OnPage
<1>9. CASE exportPrivateKey
  <2>1. "currentProfile" \notin awaited => currentProfile.id[1] = profileRoute
    BY <1>2, <1>9 DEF exportPrivateKey, OnPage, ProfilePageShowsItsProfile
  <2> QED BY <1>1, <1>9, <2>1, ExportOpens DEF exportPrivateKey
<1>10. CASE \E name \in Name : AddContactProfile(name) \/ \E k \in PubKey : createContact(name, k)
  BY <1>1, <1>10, CreateContactOpens DEF AddContactProfile, createContact
<1>11. CASE \E name \in Name : createSigning(name) \/ \E k \in OwnKeys : importSigning(name, k)
  BY <1>1, <1>11, ProfilesPageOpen DEF createSigning, importSigning
<1> QED BY <1>4, <1>5, <1>7, <1>8, <1>9, <1>10, <1>11 DEF ProfileUser

LEMMA ProfileServerStep ==
    ASSUME ProfilesKeyed, ProfileServer
    PROVE  PageStep
<1>1. PICK c \in calls :
        \/ getProfileByPubkey(c) \/ getProfile(c)
        \/ getSigningProfiles(c) \/ getContactProfiles(c)
        \/ setProfileFollowing(c) \/ renameProfile(c) \/ changeProfileImage(c) \/ deleteProfile(c)
        \/ createContactProfile(c) \/ createSigningProfile(c) \/ importSigningProfile(c)
        \/ getPrivateKey(c) \/ getPaymentSummaryForPubkey(c)
  BY DEF ProfileServer, Of
<1>2. ASSUME NEW request, NEW reply, At(c, request), ProfileSays(request, Argument(c), reply),
             request \notin {"getPeer", "getSavedPeers"}, Answer(c, reply)
      PROVE  PageStep
  BY <1>2 DEF PageStep, PageSays, PeerSays
<1>3. ASSUME Refuse(c)
      PROVE  PageStep
  BY <1>3 DEF PageStep
<1>4. \A k \in Saved : WellFormed(profiles[k]) /\ profiles[k].pubkey = k /\ k \in PubKey
  BY DEF ProfilesKeyed, Saved
<1>5. \A id : ById(id) # None =>
            ById(id) = profiles[id[1]] /\ id[1] \in Saved
  BY DEF ById
<1>6. CASE getProfileByPubkey(c)
  <2>1. ProfileSays("getProfileByPubkey", Argument(c), profiles[Argument(c)])
    BY <1>4 DEF ProfileSays, Saved
  <2> QED BY <1>2, <1>6, <2>1 DEF getProfileByPubkey
<1>7. CASE getProfile(c)
  <2>1. CASE Argument(c) # None
    <3>1. ProfileSays("getProfile", Argument(c), ById(Argument(c)))
      BY <1>4, <1>5, <2>1 DEF ProfileSays
    <3> QED BY <1>2, <1>7, <2>1, <3>1 DEF getProfile
  <2>2. CASE Argument(c) = None /\ ById(c.reply) # None
    <3>1. ProfileSays("getProfile", Argument(c), ById(c.reply).pubkey)
      BY <1>4, <1>5, <2>2 DEF ProfileSays
    <3> QED BY <1>2, <1>7, <2>2, <3>1 DEF getProfile
  <2> QED BY <1>3, <1>7, <2>1, <2>2 DEF getProfile
<1>8. CASE getSigningProfiles(c)
  <2>1. ProfileSays("getSigningProfiles", Argument(c), SigningOnes)
    BY <1>4 DEF ProfileSays, SigningOnes
  <2> QED BY <1>2, <1>8, <2>1 DEF getSigningProfiles
<1>9. CASE getContactProfiles(c)
  <2>1. ProfileSays("getContactProfiles", Argument(c), ContactOnes)
    BY <1>4 DEF ProfileSays, ContactOnes
  <2> QED BY <1>2, <1>9, <2>1 DEF getContactProfiles
<1>10. CASE getPrivateKey(c)
  <2>1. ASSUME ById(Argument(c)) # None
        PROVE  ProfileSays("getPrivateKey", Argument(c), ById(Argument(c)).pubkey)
    BY <1>4, <1>5, <2>1 DEF ProfileSays
  <2> QED BY <1>2, <1>3, <1>10, <2>1 DEF getPrivateKey
<1>11. CASE getPaymentSummaryForPubkey(c)
  BY <1>2, <1>11 DEF getPaymentSummaryForPubkey, ProfileSays
<1>12. CASE setProfileFollowing(c) \/ renameProfile(c) \/ changeProfileImage(c) \/ deleteProfile(c)
  BY <1>2, <1>3, <1>12
     DEF setProfileFollowing, renameProfile, changeProfileImage, deleteProfile, ProfileSays
<1>13. CASE createContactProfile(c) \/ createSigningProfile(c) \/ importSigningProfile(c)
  BY <1>2, <1>3, <1>13
     DEF createContactProfile, createSigningProfile, importSigningProfile, Make, ProfileSays
<1> QED BY <1>1, <1>6, <1>7, <1>8, <1>9, <1>10, <1>11, <1>12, <1>13

LEMMA ProfileReplyStep ==
    ASSUME \A c \in calls : ProfileAsked(c), ProfileReply
    PROVE  PageStep
<1>1. PICK c \in calls :
        \/ fetchProfileFulfilled(c) \/ fetchPaymentSummaryForPubkeyFulfilled(c)
        \/ fetchSigningProfilesFulfilled(c) \/ fetchContactProfilesFulfilled(c)
        \/ setProfileFulfilled(c) \/ setDeleteProfileFulfilled(c)
        \/ getProfilePrivateKeyFulfilled(c) \/ ProfileReducerThrows(c)
        \/ AddContactProfileFulfilled(c) \/ createProfileFulfilled(c)
        \/ createContactProfileRejected(c) \/ ProfileThunkRejected(c)
  BY DEF ProfileReply
<1>2. ASSUME NEW D, \A d \in D : PageOpens(d), Settle(c, D)
      PROVE  PageStep
  BY <1>2 DEF PageStep
<1>3. ProfileAsks(c) /\ (c.todo = <<>> /\ c.reply # Error => ProfileTold(c))
  BY DEF ProfileAsked
<1>4. c.thunk = "setCreateContactProfile" /\ c.arg # None => PageOpens(fetchProfile(c.arg))
  BY <1>3, ProfilesPageOpen DEF ProfileAsks
<1>5. CASE Settle(c, {})
  BY <1>2, <1>5
<1>6. CASE AddContactProfileFulfilled(c)
  BY <1>2, <1>4, <1>6 DEF AddContactProfileFulfilled, Done
<1>7. CASE createProfileFulfilled(c)
  <2>1. c.reply \in PubKey
    BY <1>3, <1>7 DEF createProfileFulfilled, Done, ProfileTold, Creates
  <2> QED BY <1>2, <1>7, <2>1, ProfilesPageOpen DEF createProfileFulfilled
<1>8. CASE createContactProfileRejected(c)
  <2>1. {c} \in SUBSET calls /\ \A d \in {fetchProfile(c.arg)} : PageOpens(d)
    BY <1>4, <1>8 DEF createContactProfileRejected
  <2> QED BY <1>8, <2>1 DEF createContactProfileRejected, PageStep
<1>9. CASE ProfileReducerThrows(c) \/ ProfileThunkRejected(c)
  BY <1>9 DEF ProfileReducerThrows, ProfileThunkRejected, PageStep
<1> QED BY <1>1, <1>5, <1>6, <1>7, <1>8, <1>9
        DEF fetchProfileFulfilled, fetchPaymentSummaryForPubkeyFulfilled,
            fetchSigningProfilesFulfilled, fetchContactProfilesFulfilled, setProfileFulfilled,
            setDeleteProfileFulfilled, getProfilePrivateKeyFulfilled

LEMMA PeersPageStep ==
    ASSUME PeerUser \/ PeerServer \/ PeerReply
    PROVE  PageStep
<1>1. ASSUME NEW D, \A d \in D : PageOpens(d), Dispatch(D)
      PROVE  PageStep
  BY <1>1 DEF PageStep
<1>2. \A x, y : <<x>> # <<>> /\ <<x, y>> # <<>>
  OBVIOUS
<1>3. ASSUME NEW a, NEW p
      PROVE  /\ PageOpens(fetchPeer(a)) /\ PageOpens(fetchSavedPeers) /\ PageOpens(setSavePeer(a))
             /\ PageOpens(setDeletePeer(p))
             /\ p \in savedPeers \cup ({currentPeer} \ {None}) =>
                    /\ PageOpens(setPeerAutoconnectEnabled(p))
                    /\ PageOpens(setPeerAutoconnectDisabled(p))
  BY <1>2 DEF PageOpens, ProfileAsks, PeerAsks, PageThunks, ProfileThunks, PeerThunks, Switches,
     ChangesProfile, Creates, Asking, AskingAfter, Read, Write, ChangePeers, fetchPeer,
     fetchSavedPeers, setSavePeer, setDeletePeer, setPeerAutoconnectEnabled,
     setPeerAutoconnectDisabled
<1>4. CASE PeerUser
  BY <1>1, <1>3, <1>4 DEF PeerUser, OpenPeer, AddPeer, OpenPeers, ClickPeerSwitch,
     ClickDeletePeer, ClickPeerCardSwitch, Toggle
<1>5. CASE PeerServer
  <2>1. PICK c \in calls :
            \/ getPeer(c) \/ getSavedPeers(c) \/ savePeer(c) \/ deletePeer(c)
            \/ enableAutoconnectPeer(c) \/ disableAutoconnectPeer(c)
    BY <1>5 DEF PeerServer, Of
  <2>2. ASSUME NEW request, NEW reply, At(c, request), PageSays(request, c, reply), Answer(c, reply)
        PROVE  PageStep
    BY <2>2 DEF PageStep
  <2>3. CASE getPeer(c)
    <3>1. PeerSays("getPeer", Argument(c), PeerFor(Argument(c)))
      BY DEF PeerSays, PeerFor, WithHost
    <3>2. PageSays("getPeer", c, PeerFor(Argument(c)))
      BY <3>1 DEF PageSays, ProfileSays
    <3> QED BY <2>2, <2>3, <3>2 DEF getPeer
  <2>4. CASE getSavedPeers(c)
    <3>1. PageSays("getSavedPeers", c, SavedPeers)
      BY DEF PageSays, ProfileSays, PeerSays
    <3> QED BY <2>2, <2>4, <3>1 DEF getSavedPeers
  <2>5. CASE savePeer(c) \/ deletePeer(c) \/ enableAutoconnectPeer(c) \/ disableAutoconnectPeer(c)
    BY <2>2, <2>5, OthersPageSay
       DEF savePeer, deletePeer, enableAutoconnectPeer, disableAutoconnectPeer, PageStep
  <2> QED BY <2>1, <2>3, <2>4, <2>5
<1>6. CASE PeerReply
  BY <1>6 DEF PeerReply, fetchPeerFulfilled, fetchSavedPeersFulfilled, setSavePeerFulfilled,
     setDeletePeerFulfilled, setPeerAutoconnectFulfilled, PeerThunkRejected, PageStep
<1> QED BY <1>4, <1>5, <1>6
-----------------------------------------------------------------------------
(* Profiles stay what they are.                                            *)

LEMMA SetKeyed ==
    ASSUME ProfilesKeyed, NEW id, NEW p, Set(id, p), UNCHANGED born,
           ById(id) # None => p = None \/ (WellFormed(p) /\ p.pubkey = id[1])
    PROVE  ProfilesKeyed'
<1>1. CASE UNCHANGED profiles
  BY <1>1 DEF ProfilesKeyed
<1>2. CASE ById(id) # None /\ profiles' = [profiles EXCEPT ![id[1]] = p]
  BY <1>2 DEF ProfilesKeyed, WellFormed
<1> QED BY <1>1, <1>2 DEF Set

LEMMA MakeKeyed ==
    ASSUME ProfilesKeyed, NEW c, NEW k, NEW name, NEW private, Make(c, k, name, private)
    PROVE  ProfilesKeyed'
<1> DEFINE p == [id |-> <<k, born[k] + 1>>, pubkey |-> k, name |-> name, following |-> private,
                 image |-> FALSE, private |-> private]
<1>1. CASE UNCHANGED profileNode
  BY <1>1 DEF ProfilesKeyed, profileNode
<1>2. CASE born' = [born EXCEPT ![k] = @ + 1] /\ profiles' = [profiles EXCEPT ![k] = p]
  <2>1. k \in PubKey => WellFormed(p) /\ p.pubkey = k
    <3> DEFINE id == <<k, born[k] + 1>>
    <3>1. k \in PubKey => id \in Id /\ id[1] = k
      BY DEF Id, ProfilesKeyed
    <3> HIDE DEF id
    <3>2. p = [id |-> id, pubkey |-> k, name |-> name, following |-> private,
               image |-> FALSE, private |-> private]
      BY DEF id
    <3> HIDE DEF p
    <3>3. WellFormed(p) <=> id \in Id /\ id[1] = k
      BY <3>2 DEF WellFormed
    <3>4. p.pubkey = k
      BY <3>2
    <3> QED BY <3>1, <3>3, <3>4
  <2> HIDE DEF p
  <2>2. born' \in [PubKey -> Nat]
    <3>1. born' = [h \in PubKey |-> IF h = k THEN born[h] + 1 ELSE born[h]]
      BY <1>2 DEF ProfilesKeyed
    <3> QED BY <3>1 DEF ProfilesKeyed
  <2>3. profiles' = [h \in PubKey |-> IF h = k THEN p ELSE profiles[h]]
    BY <1>2 DEF ProfilesKeyed
  <2> QED BY <2>1, <2>2, <2>3 DEF ProfilesKeyed, WellFormed
<1> QED BY <1>1, <1>2 DEF Make

LEMMA ProfileServerKeyed ==
    ASSUME ProfilesKeyed, ProfileServer
    PROVE  ProfilesKeyed'
<1>1. PICK c \in calls :
        \/ getProfileByPubkey(c) \/ getProfile(c)
        \/ getSigningProfiles(c) \/ getContactProfiles(c)
        \/ setProfileFollowing(c) \/ renameProfile(c) \/ changeProfileImage(c) \/ deleteProfile(c)
        \/ createContactProfile(c) \/ createSigningProfile(c) \/ importSigningProfile(c)
        \/ getPrivateKey(c) \/ getPaymentSummaryForPubkey(c)
  BY DEF ProfileServer, Of
<1>2. CASE UNCHANGED profileNode
  BY <1>2 DEF ProfilesKeyed, profileNode
<1>3. ASSUME NEW id, ById(id) # None
      PROVE  WellFormed(ById(id)) /\ ById(id).pubkey = id[1]
  BY <1>3 DEF ById, Saved, ProfilesKeyed
<1>4. ASSUME NEW id, ById(id) # None, NEW x
      PROVE  /\ WellFormed([ById(id) EXCEPT !.following = x])
             /\ WellFormed([ById(id) EXCEPT !.name = x])
             /\ WellFormed([ById(id) EXCEPT !.image = x])
             /\ [ById(id) EXCEPT !.following = x].pubkey = id[1]
             /\ [ById(id) EXCEPT !.name = x].pubkey = id[1]
             /\ [ById(id) EXCEPT !.image = x].pubkey = id[1]
  <2> DEFINE p == ById(id)
  <2>1. WellFormed(p) /\ p.pubkey = id[1]
    BY <1>3, <1>4
  <2> HIDE DEF p
  <2>2. /\ WellFormed([p EXCEPT !.following = x]) /\ WellFormed([p EXCEPT !.name = x])
        /\ WellFormed([p EXCEPT !.image = x])
        /\ [p EXCEPT !.following = x].pubkey = id[1] /\ [p EXCEPT !.name = x].pubkey = id[1]
        /\ [p EXCEPT !.image = x].pubkey = id[1]
    BY <2>1 DEF WellFormed
  <2> USE DEF p
  <2> QED BY <2>2
<1>5. CASE setProfileFollowing(c)
  BY <1>4, <1>5, SetKeyed DEF setProfileFollowing
<1>6. CASE renameProfile(c)
  BY <1>2, <1>4, <1>6, SetKeyed DEF renameProfile, profileNode
<1>7. CASE changeProfileImage(c)
  BY <1>4, <1>7, SetKeyed DEF changeProfileImage
<1>8. CASE deleteProfile(c)
  BY <1>8, SetKeyed DEF deleteProfile
<1>9. CASE createContactProfile(c) \/ createSigningProfile(c) \/ importSigningProfile(c)
  BY <1>9, MakeKeyed DEF createContactProfile, createSigningProfile, importSigningProfile
<1> QED BY <1>1, <1>2, <1>5, <1>6, <1>7, <1>8, <1>9 DEF getProfileByPubkey, getProfile,
        getSigningProfiles, getContactProfiles, getPrivateKey, getPaymentSummaryForPubkey

LEMMA ProfilesKeyedNext == ProfilesKeyed /\ [Next]_vars => ProfilesKeyed'
<1> SUFFICES ASSUME ProfilesKeyed, [Next]_vars
             PROVE  ProfilesKeyed'
  OBVIOUS
<1>1. CASE UNCHANGED profileNode
  BY <1>1 DEF ProfilesKeyed, profileNode
<1>2. CASE ProfileUser
  BY <1>1, <1>2 DEF ProfileUser, OpenProfile, OpenSigningProfiles, OpenContactProfiles,
     OpenMakeSqueak, ClickFollow, changeAvatar, ClickDeleteProfile, exportPrivateKey,
     ClickCardFollow, editProfile, AddContactProfile, createSigning, createContact, importSigning,
     profileVars
<1>3. CASE ProfileServer
  BY <1>3, ProfileServerKeyed
<1> QED BY <1>1, <1>2, <1>3 DEF Next, vars, Squeaks, Profiles, Peers, Payments, Settings, Lost,
        butSqueaks, butPeers, butPayments, butSettings, profileVars, ProfileReply
-----------------------------------------------------------------------------
(* The page of a profile.                                                  *)

ProfilePageInv == ProfilesShown /\ ProfilePageShowsItsProfile

LEMMA ProfileUserPage ==
    ASSUME ProfilePageInv, ProfileUser
    PROVE  ProfilePageInv'
<1> USE DEF ProfilePageInv
<1>1. CASE UNCHANGED profileVars
  BY <1>1 DEF ProfilesShown, ProfilePageShowsItsProfile, profileVars, profileFields, profilePage
<1>2. CASE \E k \in PubKey : OpenProfile(k)
  BY <1>2 DEF OpenProfile, ShowProfile, ProfilesShown, ProfilePageShowsItsProfile, profileFields
<1>3. CASE OpenSigningProfiles \/ OpenContactProfiles
  BY <1>3, ProfilesAssumption DEF OpenSigningProfiles, OpenContactProfiles, LeaveProfile,
     ProfilesShown, ProfilePageShowsItsProfile
<1> QED BY <1>1, <1>2, <1>3 DEF ProfileUser, OpenMakeSqueak, ClickFollow, changeAvatar,
        ClickDeleteProfile, exportPrivateKey, ClickCardFollow, editProfile, AddContactProfile,
        createSigning, createContact, importSigning

LEMMA ProfileReplyPage ==
    ASSUME \A c \in calls : ProfileAsked(c), ProfilePageInv, ProfileReply
    PROVE  ProfilePageInv'
<1> USE DEF ProfilePageInv, ProfilesShown, ProfilePageShowsItsProfile, profilePage
<1>1. PICK c \in calls :
        \/ fetchProfileFulfilled(c) \/ fetchPaymentSummaryForPubkeyFulfilled(c)
        \/ fetchSigningProfilesFulfilled(c) \/ fetchContactProfilesFulfilled(c)
        \/ setProfileFulfilled(c) \/ setDeleteProfileFulfilled(c)
        \/ getProfilePrivateKeyFulfilled(c) \/ ProfileReducerThrows(c)
        \/ AddContactProfileFulfilled(c) \/ createProfileFulfilled(c)
        \/ createContactProfileRejected(c) \/ ProfileThunkRejected(c)
  BY DEF ProfileReply
<1>2. c.todo = <<>> /\ c.reply # Error => ProfileTold(c)
  BY DEF ProfileAsked
<1>3. CASE fetchProfileFulfilled(c)
  <2>1. currentProfile' = None \/ (WellFormed(currentProfile') /\ currentProfile'.pubkey = c.arg)
    BY <1>2, <1>3 DEF fetchProfileFulfilled, Done, ProfileTold
  <2> QED BY <1>3, <2>1 DEF fetchProfileFulfilled, ProfileArrives, WellFormed
<1>4. CASE fetchPaymentSummaryForPubkeyFulfilled(c)
  <2>1. summaryForPubkey' = c.arg
    BY <1>2, <1>4 DEF fetchPaymentSummaryForPubkeyFulfilled, Done, ProfileTold
  <2> QED BY <1>4, <2>1 DEF fetchPaymentSummaryForPubkeyFulfilled, ProfileArrives
<1>5. CASE fetchSigningProfilesFulfilled(c) \/ fetchContactProfilesFulfilled(c)
  <2>1. \A p \in c.reply : WellFormed(p)
    BY <1>2, <1>5 DEF fetchSigningProfilesFulfilled, fetchContactProfilesFulfilled, Done, ProfileTold
  <2> QED BY <1>5, <2>1 DEF fetchSigningProfilesFulfilled, fetchContactProfilesFulfilled
<1>6. CASE setProfileFulfilled(c)
  <2>1. c.reply = None \/ WellFormed(c.reply)
    BY <1>2, <1>6 DEF setProfileFulfilled, Done, ProfileTold
  <2> QED BY <1>6, <2>1 DEF setProfileFulfilled, StoreProfile, updatedProfileInArray
<1>7. CASE setDeleteProfileFulfilled(c)
  BY <1>7 DEF setDeleteProfileFulfilled
<1>8. CASE getProfilePrivateKeyFulfilled(c)
  <2>1. c.arg.sure => c.reply = c.arg.page
    BY <1>2, <1>8 DEF getProfilePrivateKeyFulfilled, Done, ProfileTold
  <2> QED BY <1>8, <2>1 DEF getProfilePrivateKeyFulfilled, profileFields
<1>9. CASE createProfileFulfilled(c)
  BY <1>9 DEF createProfileFulfilled, profileFields
<1>10. CASE \/ ProfileReducerThrows(c) \/ AddContactProfileFulfilled(c)
            \/ createContactProfileRejected(c) \/ ProfileThunkRejected(c)
  BY <1>10 DEF ProfileReducerThrows, AddContactProfileFulfilled, createContactProfileRejected,
     ProfileThunkRejected, profileFields
<1> QED BY <1>1, <1>3, <1>4, <1>5, <1>6, <1>7, <1>8, <1>9, <1>10
-----------------------------------------------------------------------------
(* The page of a peer.                                                     *)

PeersKnown(addresses, saved) ==
    /\ PeersNumbered(addresses, saved)
    /\ \A c \in calls : PeerAsked(c, addresses, saved)

LEMMA PeerReplyPage ==
    ASSUME NEW addresses, NEW saved, PeersKnown(addresses, saved),
           PeerPageShowsItsPeer, PeerReply
    PROVE  /\ \A p \in savedPeers' \cup ({currentPeer'} \ {None}) : Numbered(p, addresses, saved)
           /\ PeerPageShowsItsPeer'
<1> DEFINE Kind(p) == Numbered(p, addresses, saved)
<1>1. PICK c \in calls :
        \/ fetchPeerFulfilled(c) \/ fetchSavedPeersFulfilled(c) \/ setSavePeerFulfilled(c)
        \/ setDeletePeerFulfilled(c) \/ setPeerAutoconnectFulfilled(c)
        \/ PeerThunkRejected(c)
  BY DEF PeerReply
<1>2. /\ c.thunk \in Switches => Kind(c.arg)
      /\ c.todo = <<>> /\ c.reply # Error => PeerTold(c, addresses, saved)
  BY DEF PeersKnown, PeerAsked
<1>3. \A p \in savedPeers \cup ({currentPeer} \ {None}) : Kind(p)
  BY DEF PeersKnown, PeersNumbered
<1> HIDE DEF Kind
<1>4. CASE fetchPeerFulfilled(c)
  <2>1. currentPeer' = None \/ (Kind(currentPeer') /\ HostOf[currentPeer'.address] = HostOf[c.arg])
    BY <1>2, <1>4 DEF fetchPeerFulfilled, Done, PeerTold, Kind
  <2>2. PeerPageShowsItsPeer'
    BY <1>4, <2>1 DEF fetchPeerFulfilled, PeerArrives, OfPage, PeerPageShowsItsPeer
  <2>3. \A p \in savedPeers' \cup ({currentPeer'} \ {None}) : Kind(p)
    BY <1>3, <1>4, <2>1 DEF fetchPeerFulfilled
  <2> QED BY <2>2, <2>3 DEF Kind
<1>5. c.thunk \in PeerThunks \ {"fetchPeer"} /\ c.todo = <<>> /\ c.reply # Error =>
            \A p \in c.reply : Kind(p)
  BY <1>2 DEF PeerTold, Kind
<1>6. CASE fetchSavedPeersFulfilled(c)
  <2>1. \A p \in savedPeers' : Kind(p)
    BY <1>5, <1>6 DEF fetchSavedPeersFulfilled, Done, PeerThunks
  <2> QED BY <1>3, <1>6, <2>1
          DEF fetchSavedPeersFulfilled, PeerPageShowsItsPeer, OfPage, Kind
<1>7. CASE setSavePeerFulfilled(c)
  <2>1. \A p \in c.reply : Kind(p)
    BY <1>5, <1>7 DEF setSavePeerFulfilled, Done, PeerThunks
  <2>2. currentPeer' = None \/ (currentPeer' \in c.reply /\ currentPeer'.address = c.arg)
    BY <1>7 DEF setSavePeerFulfilled, Find
  <2>3. PeerPageShowsItsPeer'
    BY <1>7, <2>2 DEF setSavePeerFulfilled, PeerArrives, PeerFields, OfPage, PeerPageShowsItsPeer
  <2> QED BY <1>7, <2>1, <2>2, <2>3 DEF setSavePeerFulfilled, Kind
<1>8. CASE setDeletePeerFulfilled(c)
  <2>1. \A p \in c.reply : Kind(p)
    BY <1>5, <1>8 DEF setDeletePeerFulfilled, Done, PeerThunks
  <2> QED BY <1>8, <2>1 DEF setDeletePeerFulfilled, AfterDelete, PeerPageShowsItsPeer, Kind
<1>9. CASE setPeerAutoconnectFulfilled(c)
  <2>1. (\A p \in c.reply : Kind(p)) /\ Kind(c.arg)
    BY <1>2, <1>5, <1>9 DEF setPeerAutoconnectFulfilled, Done, PeerThunks, Switches
  <2>2. currentPeer' = None \/ (currentPeer' \in c.reply /\ currentPeer'.id = c.arg.id)
    BY <1>9 DEF setPeerAutoconnectFulfilled, FindId
  <2>3. currentPeer' = None \/ currentPeer'.address = c.arg.address
    BY <2>1, <2>2 DEF Kind, Numbered
  <2>4. PeerPageShowsItsPeer'
    BY <1>9, <2>3
       DEF setPeerAutoconnectFulfilled, PeerChanged, PeerFields, OfPage, PeerPageShowsItsPeer
  <2> QED BY <1>9, <2>1, <2>2, <2>4 DEF setPeerAutoconnectFulfilled, Kind
<1>10. CASE PeerThunkRejected(c)
  BY <1>3, <1>10 DEF PeerThunkRejected, peerFields, PeerPageShowsItsPeer, OfPage, Kind
<1> QED BY <1>1, <1>4, <1>6, <1>7, <1>8, <1>9, <1>10

LEMMA PeerUserPage ==
    ASSUME PeerPageShowsItsPeer, PeerUser
    PROVE  PeerPageShowsItsPeer' /\ UNCHANGED <<peerNode, peerFields>>
<1>1. CASE UNCHANGED peerVars
  BY <1>1 DEF peerVars, peerFields, PeerPageShowsItsPeer, OfPage
<1>2. CASE \E a \in Address : OpenPeer(a)
  BY <1>2 DEF OpenPeer, PeerPageShowsItsPeer
<1>3. CASE OpenPeers
  BY <1>3, PeersAssumption DEF OpenPeers, PeerPageShowsItsPeer
<1> QED BY <1>1, <1>2, <1>3
        DEF PeerUser, AddPeer, ClickPeerSwitch, ClickPeerCardSwitch, ClickDeletePeer

\* The node keeps the address of every peer, and gives the next number to a new one.
LEMMA PeerServerNumbered ==
    ASSUME PeersInv, NEW addresses, \A p \in SavedPeers : Numbered(p, addresses, peersMade),
           PeerServer
    PROVE  \/ /\ peersMade' = peersMade
              /\ \A p \in SavedPeers' : Numbered(p, addresses, peersMade)
           \/ \E a :
                /\ peersMade' = peersMade + 1
                /\ SavedPeers' \subseteq
                        SavedPeers \cup {[id |-> peersMade + 1, address |-> a, autoconnect |-> TRUE]}
<1>1. PICK c \in calls :
        \/ getPeer(c) \/ getSavedPeers(c) \/ savePeer(c) \/ deletePeer(c)
        \/ enableAutoconnectPeer(c) \/ disableAutoconnectPeer(c)
  BY DEF PeerServer, Of
<1>2. CASE UNCHANGED peerNode
  BY <1>2 DEF peerNode, SavedPeers
<1>3. CASE savePeer(c)
  <2> DEFINE a == Argument(c)
             new == [id |-> peersMade + 1, address |-> a, autoconnect |-> TRUE]
  <2>1. CASE UNCHANGED peerNode
    BY <1>2, <2>1
  <2>2. CASE peersMade' = peersMade + 1 /\ peers' = [peers EXCEPT ![a] = new]
    <3> HIDE DEF new
    <3>1. DOMAIN peers = Address
      BY DEF PeersInv
    <3>2. a \in Address => SavedPeers' \subseteq SavedPeers \cup {new}
      BY <2>2, <3>1 DEF SavedPeers
    <3>3. a \notin Address => SavedPeers' \subseteq SavedPeers
      BY <2>2, <3>1 DEF SavedPeers
    <3>4. peersMade' = peersMade + 1 /\ SavedPeers' \subseteq SavedPeers \cup {new}
      BY <2>2, <3>2, <3>3
    <3> QED BY <3>4 DEF new
  <2> QED BY <1>3, <2>1, <2>2 DEF savePeer
<1>4. CASE deletePeer(c)
  <2>1. SavedPeers' \subseteq SavedPeers
    BY <1>4 DEF deletePeer, SavedPeers
  <2> QED BY <1>4, <2>1 DEF deletePeer
<1>5. ASSUME NEW id, NEW on, SetAutoconnect(id, on), peersMade' = peersMade
      PROVE  /\ peersMade' = peersMade
             /\ \A p \in SavedPeers' : Numbered(p, addresses, peersMade)
  <2>1. \A a \in Address : peers[a] # None =>
            /\ [peers[a] EXCEPT !.autoconnect = on].id = peers[a].id
            /\ [peers[a] EXCEPT !.autoconnect = on].address = peers[a].address
    BY DEF PeersInv, PeerEntry
  <2>2. \A a \in Address : peers'[a] # None =>
            peers[a] # None /\ peers'[a].id = peers[a].id /\ peers'[a].address = peers[a].address
    BY <1>5, <2>1 DEF SetAutoconnect
  <2> QED BY <1>5, <2>2 DEF SavedPeers, Numbered
<1> QED BY <1>1, <1>2, <1>3, <1>4, <1>5
        DEF getPeer, getSavedPeers, enableAutoconnectPeer, disableAutoconnectPeer

LEMMA NumberedLater ==
    ASSUME NEW addresses, NEW later, NEW saved \in Nat, NEW upto \in Nat, saved <= upto,
           \A i \in 1..saved : later[i] = addresses[i]
    PROVE  /\ \A p : Numbered(p, addresses, saved) => Numbered(p, later, upto)
           /\ \A c : PeerAsked(c, addresses, saved) => PeerAsked(c, later, upto)
<1>1. \A p : Numbered(p, addresses, saved) => Numbered(p, later, upto)
  BY DEF Numbered
<1> QED BY <1>1 DEF PeerAsked, PeerTold

LEMMA PeersPageStays ==
    ASSUME PeersInv, NEW addresses, PeersKnown(addresses, peersMade), PeerPageShowsItsPeer,
           \A c \in calls : IsCall(c), PageStep, [Next]_vars
    PROVE  PeerPageShowsItsPeer' /\ \E later : PeersKnown(later, peersMade)'
<1>1. \A e \in calls' : PeerAsked(e, addresses, peersMade)
  BY PeerAskedAfter DEF PeersKnown
<1>2. ASSUME peersMade' = peersMade, \A p \in SavedPeers' : Numbered(p, addresses, peersMade),
             \A p \in savedPeers' \cup ({currentPeer'} \ {None}) : Numbered(p, addresses, peersMade)
      PROVE  \E later : PeersKnown(later, peersMade)'
  BY <1>1, <1>2 DEF PeersKnown, PeersNumbered
<1>3. CASE UNCHANGED peerVars
  <2>1. SavedPeers' = SavedPeers
    BY <1>3 DEF SavedPeers, peerVars, peerNode
  <2> QED BY <1>2, <1>3, <2>1 DEF PeersKnown, PeersNumbered, peerVars, peerNode, peerFields,
             PeerPageShowsItsPeer, OfPage
<1>4. CASE PeerUser
  <2>1. PeerPageShowsItsPeer' /\ UNCHANGED <<peerNode, peerFields>>
    BY <1>4, PeerUserPage
  <2>2. SavedPeers' = SavedPeers
    BY <2>1 DEF SavedPeers, peerNode
  <2> QED BY <1>2, <2>1, <2>2 DEF PeersKnown, PeersNumbered, peerNode, peerFields
<1>5. CASE PeerServer
  <2>1. UNCHANGED <<peerFields, peerRoute, peerAwaited>>
    BY <1>5 DEF PeerServer
  <2>2. PeerPageShowsItsPeer'
    BY <2>1 DEF peerFields, PeerPageShowsItsPeer, OfPage
  <2>3. CASE /\ peersMade' = peersMade
             /\ \A p \in SavedPeers' : Numbered(p, addresses, peersMade)
    BY <1>2, <2>1, <2>2, <2>3 DEF PeersKnown, PeersNumbered, peerFields
  <2>4. ASSUME NEW a, peersMade' = peersMade + 1,
               SavedPeers' \subseteq
                    SavedPeers \cup {[id |-> peersMade + 1, address |-> a, autoconnect |-> TRUE]}
        PROVE  \E later : PeersKnown(later, peersMade)'
    <3> PICK later :
            later = [i \in 1..(peersMade + 1) |-> IF i = peersMade + 1 THEN a ELSE addresses[i]]
      OBVIOUS
    <3> DEFINE new == [id |-> peersMade + 1, address |-> a, autoconnect |-> TRUE]
    <3>1. peersMade \in Nat /\ peersMade + 1 \in Nat /\ peersMade <= peersMade + 1
      BY DEF PeersInv
    <3>2. \A i \in 1..peersMade : later[i] = addresses[i]
      BY <3>1
    <3>3. Numbered(new, later, peersMade + 1) /\ SavedPeers' \subseteq SavedPeers \cup {new}
      BY <2>4, <3>1 DEF Numbered
    <3> HIDE DEF new
    <3>4. /\ \A p : Numbered(p, addresses, peersMade) => Numbered(p, later, peersMade + 1)
          /\ \A c : PeerAsked(c, addresses, peersMade) => PeerAsked(c, later, peersMade + 1)
      BY <3>1, <3>2, NumberedLater
    <3>5. \A p \in SavedPeers' \cup savedPeers' \cup ({currentPeer'} \ {None}) :
                Numbered(p, later, peersMade + 1)
      <4>1. \A p \in SavedPeers \cup savedPeers \cup ({currentPeer} \ {None}) :
                Numbered(p, later, peersMade + 1)
        BY <3>4 DEF PeersKnown, PeersNumbered
      <4> QED BY <2>1, <3>3, <4>1 DEF peerFields
    <3>6. PeersKnown(later, peersMade)'
      BY <1>1, <2>4, <3>4, <3>5 DEF PeersKnown, PeersNumbered
    <3> QED BY <3>6
  <2> QED BY <1>5, <2>2, <2>3, <2>4, PeerServerNumbered DEF PeersKnown, PeersNumbered
<1>6. CASE PeerReply /\ UNCHANGED peerNode
  <2>1. SavedPeers' = SavedPeers /\ peersMade' = peersMade
    BY <1>6 DEF SavedPeers, peerNode
  <2> QED BY <1>2, <1>6, <2>1, PeerReplyPage DEF PeersKnown, PeersNumbered
<1> QED BY <1>3, <1>4, <1>5, <1>6 DEF Next, vars, Squeaks, Profiles, Peers, Payments, Settings,
        Lost, butSqueaks, butProfiles, butPayments, butSettings, PeerReply

LEMMA PageStepNext ==
    ASSUME ProfilesKeyed, ProfilePageInv, \A c \in calls : ProfileAsked(c), [Next]_vars
    PROVE  PageStep
<1>1. CASE Lost
  BY <1>1 DEF Lost, Lose, PageStep
<1>2. CASE UNCHANGED vars
  BY <1>2 DEF vars, thunkVars, PageStep
<1> QED BY <1>1, <1>2, SqueaksPageStep, ProfileUserStep, ProfileServerStep, ProfileReplyStep,
           PeersPageStep, PaymentsPageStep, SettingsPageStep
        DEF Next, Squeaks, Profiles, Peers, Payments, Settings, ProfilePageInv
-----------------------------------------------------------------------------
(* The lists of payments.                                                  *)

InList(x, list) == \E i \in 1..Len(list) : list[i] = x

Descends(list) == \A i, j \in 1..Len(list) : i < j => list[i] > list[j]

\* The part goes on where the list ends, or starts it: it leaves out no payment
\* of the owner that is newer than one that it holds.
Continues(list, part, owner, top) ==
    /\ part \in Seq(1..top) /\ Descends(part)
    /\ \A i \in 1..Len(part) :
            Belongs(part[i], owner) /\ (list # <<>> => part[i] < list[Len(list)])
    /\ \A x \in 1..top :
            /\ Belongs(x, owner) /\ \E i \in 1..Len(part) : part[i] <= x
            /\ IF list = <<>> THEN x <= part[1] ELSE x < list[Len(list)]
            => InList(x, part)

LEMMA InJoined ==
    ASSUME NEW S, NEW list \in Seq(S), NEW part \in Seq(S)
    PROVE  /\ list \o part \in Seq(S) /\ Len(list \o part) = Len(list) + Len(part)
           /\ \A i \in 1..Len(list) : (list \o part)[i] = list[i]
           /\ \A i \in 1..Len(part) : (list \o part)[Len(list) + i] = part[i]
           /\ \A i \in 1..Len(list \o part) :
                \/ i \in 1..Len(list)
                \/ \E k \in 1..Len(part) : i = Len(list) + k
<1> DEFINE both == list \o part
<1>1. /\ both \in Seq(S) /\ Len(both) = Len(list) + Len(part)
      /\ \A i \in 1..Len(list) : both[i] = list[i]
      /\ \A i \in 1..Len(part) : both[Len(list) + i] = part[i]
  OBVIOUS
<1>2. Len(list) \in Nat /\ Len(part) \in Nat
  OBVIOUS
<1> HIDE DEF both
<1>3. ASSUME NEW i \in 1..Len(both), i \notin 1..Len(list)
      PROVE  \E k \in 1..Len(part) : i = Len(list) + k
  <2>1. (i - Len(list)) \in 1..Len(part) /\ i = Len(list) + (i - Len(list))
    BY <1>1, <1>2, <1>3
  <2> QED BY <2>1
<1> QED BY <1>1, <1>3 DEF both

LEMMA JoinedContinues ==
    ASSUME NEW owner, NEW top \in Nat, NEW list, NEW part,
           Continues(<<>>, list, owner, top), Continues(list, part, owner, top)
    PROVE  Continues(<<>>, list \o part, owner, top)
<1> DEFINE both == list \o part
           n == Len(list)
<1>1. list \in Seq(1..top) /\ part \in Seq(1..top)
  BY DEF Continues
<1>2. CASE list = <<>>
  <2>1. list \o part = part
    BY <1>1, <1>2
  <2> QED BY <1>2, <2>1 DEF Continues
<1>3. CASE list # <<>>
  <2>1. /\ both \in Seq(1..top) /\ Len(both) = n + Len(part)
        /\ \A i \in 1..n : both[i] = list[i]
        /\ \A i \in 1..Len(part) : both[n + i] = part[i]
        /\ \A i \in 1..Len(both) : i \in 1..n \/ \E k \in 1..Len(part) : i = n + k
    BY <1>1, InJoined
  <2>2. /\ n \in Nat \ {0} /\ Len(part) \in Nat
        /\ \A i \in 1..n : list[i] \in 1..top
        /\ \A i \in 1..Len(part) : part[i] \in 1..top
    BY <1>1, <1>3
  <2> HIDE DEF both, n
  <2>3. /\ Descends(list) /\ Descends(part)
        /\ \A i \in 1..n : Belongs(list[i], owner)
        /\ \A i \in 1..Len(part) : Belongs(part[i], owner) /\ part[i] < list[n]
    BY <1>3 DEF Continues, n
  <2>4. \A i \in 1..n : list[i] >= list[n]
    BY <2>2, <2>3 DEF Descends, n
  <2>5. Descends(both)
    <3> SUFFICES ASSUME NEW i \in 1..Len(both), NEW j \in 1..Len(both), i < j
                 PROVE  both[i] > both[j]
      BY DEF Descends
    <3>1. CASE i \in 1..n /\ j \in 1..n
      BY <3>1, <2>1, <2>3 DEF Descends, n
    <3>2. CASE i \in 1..n /\ j \notin 1..n
      <4>1. PICK k \in 1..Len(part) : j = n + k
        BY <3>2, <2>1
      <4>2. both[i] = list[i] /\ both[j] = part[k]
        BY <3>2, <4>1, <2>1
      <4> QED BY <4>2, <3>2, <2>2, <2>3, <2>4
    <3>3. CASE i \notin 1..n
      <4>1. PICK k \in 1..Len(part) : i = n + k
        BY <3>3, <2>1
      <4>2. j \notin 1..n
        BY <2>1, <2>2, <4>1
      <4>3. PICK m \in 1..Len(part) : j = n + m
        BY <4>2, <2>1
      <4>4. both[i] = part[k] /\ both[j] = part[m] /\ k < m
        BY <4>1, <4>3, <2>1, <2>2
      <4> QED BY <4>4, <2>3 DEF Descends
    <3> QED BY <3>1, <3>2, <3>3
  <2>6. \A i \in 1..Len(both) : Belongs(both[i], owner)
    BY <2>1, <2>3
  <2>7. ASSUME NEW x \in 1..top, Belongs(x, owner), NEW i \in 1..Len(both), both[i] <= x,
               x <= both[1]
        PROVE  InList(x, both)
    <3>1. both[1] = list[1] /\ 1 \in 1..n /\ n \in 1..n
      BY <2>1, <2>2
    <3>2. CASE list[n] <= x
      <4>1. InList(x, list)
        BY <2>7, <3>1, <3>2 DEF Continues, n
      <4>2. PICK k \in 1..n : list[k] = x
        BY <4>1 DEF InList, n
      <4>3. k \in 1..Len(both) /\ both[k] = x
        BY <4>2, <2>1, <2>2
      <4> QED BY <4>3 DEF InList
    <3>3. CASE x < list[n]
      <4>1. i \notin 1..n
        BY <2>1, <2>2, <2>4, <2>7, <3>1, <3>3
      <4>2. PICK k \in 1..Len(part) : i = n + k
        BY <4>1, <2>1
      <4>3. part[k] <= x
        BY <4>2, <2>1, <2>7
      <4>4. InList(x, part)
        BY <1>3, <2>7, <3>3, <4>3 DEF Continues, n
      <4>5. PICK m \in 1..Len(part) : part[m] = x
        BY <4>4 DEF InList
      <4>6. n + m \in 1..Len(both) /\ both[n + m] = x
        BY SMTT(30), <4>5, <2>1, <2>2
      <4> QED BY <4>6 DEF InList
    <3> QED BY <3>1, <3>2, <3>3, <2>2
  <2>8. Continues(<<>>, both, owner, top)
    BY <2>1, <2>5, <2>6, <2>7 DEF Continues
  <2> QED BY <2>8 DEF both
<1> QED BY <1>2, <1>3

\* Payments that come in later are newer.
LEMMA ContinuesLater ==
    ASSUME NEW owner, NEW top \in Nat, NEW later \in Nat, top <= later,
           NEW list \in Seq(1..top), NEW part, Continues(list, part, owner, top)
    PROVE  Continues(list, part, owner, later)
<1>1. part \in Seq(1..top) /\ part \in Seq(1..later) /\ Descends(part)
  BY DEF Continues
<1>2. /\ \A i \in 1..Len(part) : part[i] \in 1..top
      /\ list # <<>> => list[Len(list)] \in 1..top
      /\ Len(part) \in Nat
  BY <1>1
<1>3. ASSUME NEW x \in 1..later, Belongs(x, owner), NEW i \in 1..Len(part), part[i] <= x,
             IF list = <<>> THEN x <= part[1] ELSE x < list[Len(list)]
      PROVE  InList(x, part)
  <2>1. 1 \in 1..Len(part)
    BY <1>2
  <2>2. x \in 1..top
    BY <1>2, <1>3, <2>1
  <2> QED BY <1>3, <2>2 DEF Continues
<1>4. \A i \in 1..Len(part) :
            Belongs(part[i], owner) /\ (list # <<>> => part[i] < list[Len(list)])
  BY DEF Continues
<1> QED BY <1>1, <1>3, <1>4 DEF Continues

LEMMA EmptyContinues ==
    ASSUME NEW owner, NEW top \in Nat
    PROVE  Continues(<<>>, <<>>, owner, top)
BY DEF Continues, Descends, InList

\* What the node answers: of a set of payments the newest ones.
LEMMA NewestOf ==
    ASSUME NEW top \in Nat, NEW S \in SUBSET (1..top)
    PROVE  LET part == NewestFirst(S)
           IN  /\ part \in Seq(1..top) /\ Descends(part)
               /\ \A i \in 1..Len(part) : part[i] \in S
               /\ \A x \in S, i \in 1..Len(part) : part[i] <= x => InList(x, part)
<1> DEFINE R == {p \in S \X S : p[1] > p[2]}
           part == FirstOf(S, R, PageSize)
<1>1. IsFiniteSet(S)
  <2>1. top \in Int /\ 1 \in Int
    OBVIOUS
  <2>2. IsFiniteSet(1..top)
    BY <2>1, FS_Interval
  <2> QED BY <2>2, FS_Subset
<1>2. \A x, y \in S : x \in Int /\ y \in Int /\ (x = y \/ x > y \/ y > x)
  OBVIOUS
<1>3. \A x, y \in S : <<x, y>> \in R <=> x > y
  OBVIOUS
<1> HIDE DEF R
<1>4. Orders(R, S)
  <2>1. \A x \in S : <<x, x>> \notin R
    BY <1>2, <1>3
  <2>2. \A x, y \in S : x = y \/ <<x, y>> \in R \/ <<y, x>> \in R
    BY <1>2, <1>3
  <2>3. \A x, y, z \in S : <<x, y>> \in R /\ <<y, z>> \in R => <<x, z>> \in R
    BY <1>2, <1>3
  <2> QED BY <2>1, <2>2, <2>3 DEF Orders
<1>5. PageSize \in Nat
  BY PaymentsAssumption
<1>6. /\ part \in Seq(S)
      /\ \A i, j \in 1..Len(part) : i < j => <<part[i], part[j]>> \in R
      /\ \A x \in S, i \in 1..Len(part) : <<x, part[i]>> \in R =>
                \E j \in 1..Len(part) : part[j] = x
  BY <1>1, <1>4, <1>5, FirstOfOrdered
<1> HIDE DEF part
<1>7. /\ Len(part) \in Nat /\ part = [i \in 1..Len(part) |-> part[i]]
      /\ \A i \in 1..Len(part) : part[i] \in S
  BY <1>6
<1>8. part \in Seq(1..top)
  <2>1. \A i \in 1..Len(part) : part[i] \in 1..top
    BY <1>7
  <2> QED BY <1>7, <2>1
<1>9. Descends(part)
  BY <1>3, <1>6, <1>7 DEF Descends
<1>10. ASSUME NEW x \in S, NEW i \in 1..Len(part), part[i] <= x
       PROVE  InList(x, part)
  <2>1. CASE x = part[i]
    BY <2>1 DEF InList
  <2>2. CASE x > part[i]
    <3>1. <<x, part[i]>> \in R
      BY <1>3, <1>7, <2>2
    <3> QED BY <3>1, <1>6 DEF InList
  <2> QED BY <1>2, <1>7, <1>10, <2>1, <2>2
<1>11. part = NewestFirst(S)
  BY DEF NewestFirst, part, R
<1> QED BY <1>7, <1>8, <1>9, <1>10, <1>11

\* It goes on with the list whose last payment it was given.
LEMMA NewestContinue ==
    ASSUME NEW kind, NEW owner, recorded[kind] \in Nat,
           NEW list \in Seq(1..recorded[kind]),
           NEW last, last = IF list = <<>> THEN None ELSE list[Len(list)],
           None \notin 1..recorded[kind]
    PROVE  Continues(list, NewestFirst(Older(kind, owner, last)), owner, recorded[kind])
<1> DEFINE S == Older(kind, owner, last)
           part == NewestFirst(S)
           top == recorded[kind]
<1>1. top \in Nat /\ S \in SUBSET (1..top)
  BY DEF Older
<1>2. list # <<>> => list[Len(list)] \in 1..top
  OBVIOUS
<1>3. \A x : x \in S <=> x \in 1..top /\ Belongs(x, owner) /\ (list # <<>> => x < list[Len(list)])
  BY <1>2 DEF Older
<1> HIDE DEF S
<1>4. /\ part \in Seq(1..top) /\ Descends(part)
      /\ \A i \in 1..Len(part) : part[i] \in S
      /\ \A x \in S, i \in 1..Len(part) : part[i] <= x => InList(x, part)
  <2> HIDE DEF top
  <2> QED BY <1>1, NewestOf
<1> HIDE DEF part, top
<1>5. \A i \in 1..Len(part) :
            Belongs(part[i], owner) /\ (list # <<>> => part[i] < list[Len(list)])
  BY <1>3, <1>4
<1>6. ASSUME NEW x \in 1..top, Belongs(x, owner), NEW i \in 1..Len(part), part[i] <= x,
             IF list = <<>> THEN x <= part[1] ELSE x < list[Len(list)]
      PROVE  InList(x, part)
  <2>1. x \in S
    BY <1>3, <1>6
  <2> QED BY <1>4, <1>6, <2>1
<1>7. Continues(list, part, owner, top)
  BY <1>4, <1>5, <1>6 DEF Continues
<1> QED BY <1>7 DEF part, S, top

ThunkOf(kind) == IF kind = "sent" THEN "fetchSentPayments" ELSE "fetchReceivedPayments"

\* Calls for a list since it was cleared last, and for its page.
Fetching(kind) ==
    {c \in Of({ThunkOf(kind)}) : ~(c.id < listOf[kind].since) /\ c.arg = listOf[kind].owner}

PaymentCall(c, top, acts) ==
    /\ c.id \in 0..acts
    /\ \E last : Asking(c.todo, c.thunk, <<c.arg, last>>)
    /\ c.todo = <<>> /\ c.reply # Error => c.reply \in Seq(1..top)

\* A call goes on where the list ends.
GoesOnWith(c, list, top) ==
    /\ \A last : c.todo = <<<<c.thunk, <<c.arg, last>>>>>> =>
            last = IF list = <<>> THEN None ELSE list[Len(list)]
    /\ c.todo = <<>> /\ c.reply # Error => Continues(list, c.reply, c.arg, top)

\* The list of a kind and its calls; no second part is fetched while one is.
KindState(kind) ==
    /\ recorded[kind] \in 0..Len(OwnersOf)
    /\ paymentLists[kind] \in Seq(1..recorded[kind])
    /\ \A c \in Of({ThunkOf(kind)}) : PaymentCall(c, recorded[kind], events)
    /\ kind \notin mixed =>
        /\ Continues(<<>>, paymentLists[kind], listOf[kind].owner, recorded[kind])
        /\ \A c \in Fetching(kind) :
            /\ StatusOf(kind) \in loading
            /\ GoesOnWith(c, paymentLists[kind], recorded[kind])
            /\ \A d \in Fetching(kind) : c = d

\* What a step that is not about a call leaves of it.
Leaves(e, c) == Heir(e, c) /\ (Waits(e, c) \/ (e.todo = <<>> /\ e.reply = Error))

LeavesAll(thunks) ==
    /\ \A e \in calls' : e.thunk \in thunks => \E c \in calls : Leaves(e, c)
    /\ \A e, f \in calls' : e.thunk \in thunks /\ f.thunk \in thunks /\ e # f =>
            \E c, d \in calls : c # d /\ Leaves(e, c) /\ Leaves(f, d)

\* A step that is not about the list of a kind.
KindLeft(kind) ==
    /\ UNCHANGED <<paymentLists[kind], listOf[kind]>>
    /\ kind \in mixed => kind \in mixed'
    /\ recorded[kind] <= recorded'[kind] /\ recorded'[kind] \in 0..Len(OwnersOf)
    /\ StatusOf(kind) \in loading => StatusOf(kind) \in loading'
    /\ events \in Nat /\ events' \in Nat /\ events <= events'
    /\ LeavesAll({ThunkOf(kind)})

LEMMA PaymentCallLeft ==
    ASSUME NEW c, NEW e, Leaves(e, c), NEW top \in Nat, NEW later \in Nat, top <= later,
           NEW acts \in Nat, NEW more \in Nat, acts <= more, PaymentCall(c, top, acts)
    PROVE  PaymentCall(e, later, more)
<1>1. e.id \in 0..more
  BY DEF PaymentCall, Leaves, Heir
<1>2. \E last : Asking(e.todo, e.thunk, <<e.arg, last>>)
  <2>1. PICK last : Asking(c.todo, c.thunk, <<c.arg, last>>)
    BY DEF PaymentCall
  <2>2. Asking(e.todo, e.thunk, <<e.arg, last>>)
    BY <2>1 DEF Asking, Leaves, Heir, Waits
  <2> QED BY <2>2
<1>3. ASSUME e.todo = <<>>, e.reply # Error
      PROVE  e.reply \in Seq(1..later)
  <2>1. c.todo = <<>> /\ c.reply = e.reply
    BY <1>3 DEF Leaves, Waits
  <2>2. e.reply \in Seq(1..top) /\ 1..top \subseteq 1..later
    BY <1>3, <2>1 DEF PaymentCall
  <2> QED BY <2>2
<1> QED BY <1>1, <1>2, <1>3 DEF PaymentCall

LEMMA KindStays ==
    ASSUME NEW kind, KindState(kind), KindLeft(kind)
    PROVE  KindState(kind)'
<1> DEFINE list == paymentLists[kind]
           owner == listOf[kind].owner
           top == recorded[kind]
           later == recorded'[kind]
<1>1. /\ top \in Nat /\ later \in Nat /\ top <= later /\ later \in 0..Len(OwnersOf)
      /\ list \in Seq(1..top)
      /\ paymentLists'[kind] = list /\ listOf'[kind] = listOf[kind]
  <2>1. Len(OwnersOf) \in Nat
    BY PaymentsAssumption
  <2> QED BY <2>1 DEF KindState, KindLeft
<1>2. list \in Seq(1..later)
  <2>1. 1..top \subseteq 1..later
    BY <1>1
  <2> QED BY <1>1, <2>1
<1>3. ASSUME NEW e \in calls', e.thunk = ThunkOf(kind)
      PROVE  PaymentCall(e, later, events')
  <2>1. PICK c \in calls : Leaves(e, c)
    BY <1>3 DEF KindLeft, LeavesAll
  <2>2. c \in Of({ThunkOf(kind)})
    BY <1>3, <2>1 DEF Of, Leaves, Heir
  <2>3. PaymentCall(c, top, events)
    BY <2>2 DEF KindState
  <2> QED BY <1>1, <2>1, <2>3, PaymentCallLeft DEF KindLeft
<1>4. ASSUME kind \notin mixed'
      PROVE  /\ Continues(<<>>, list, owner, later)
             /\ \A e \in Fetching(kind)' :
                    /\ StatusOf(kind) \in loading'
                    /\ GoesOnWith(e, list, later)
                    /\ \A f \in Fetching(kind)' : e = f
  <2>1. /\ Continues(<<>>, list, owner, top)
        /\ \A c \in Fetching(kind) :
            /\ StatusOf(kind) \in loading
            /\ GoesOnWith(c, list, top)
            /\ \A d \in Fetching(kind) : c = d
    BY <1>4 DEF KindState, KindLeft
  <2>2. ASSUME NEW e \in Fetching(kind)', NEW c \in calls, Leaves(e, c)
        PROVE  c \in Fetching(kind)
    BY <2>2, <1>1 DEF Fetching, Of, Leaves, Heir
  <2>3. Continues(<<>>, list, owner, later)
    <3>1. <<>> \in Seq(1..top)
      OBVIOUS
    <3> QED BY <1>1, <2>1, <3>1, ContinuesLater
  <2>4. ASSUME NEW e \in Fetching(kind)'
        PROVE  StatusOf(kind) \in loading' /\ GoesOnWith(e, list, later)
    <3>1. PICK c \in calls : Leaves(e, c)
      BY <2>4 DEF Fetching, Of, KindLeft, LeavesAll
    <3>2. c \in Fetching(kind)
      BY <2>2, <2>4, <3>1
    <3>3. StatusOf(kind) \in loading /\ GoesOnWith(c, list, top)
      BY <2>1, <3>2
    <3>4. \A last : e.todo = <<<<e.thunk, <<e.arg, last>>>>>> =>
            last = IF list = <<>> THEN None ELSE list[Len(list)]
      BY <3>1, <3>3, OneLeft DEF GoesOnWith, Leaves, Waits, Heir
    <3>5. ASSUME e.todo = <<>>, e.reply # Error
          PROVE  Continues(list, e.reply, e.arg, later)
      <4>1. Continues(list, e.reply, e.arg, top)
        BY <3>1, <3>3, <3>5 DEF GoesOnWith, Leaves, Waits, Heir
      <4> QED BY <4>1, <1>1, ContinuesLater
    <3>6. StatusOf(kind) \in loading'
      BY <3>3 DEF KindLeft
    <3> QED BY <3>4, <3>5, <3>6 DEF GoesOnWith
  <2>5. ASSUME NEW e \in Fetching(kind)', NEW f \in Fetching(kind)', e # f
        PROVE  FALSE
    <3>1. PICK c \in calls, d \in calls : c # d /\ Leaves(e, c) /\ Leaves(f, d)
      BY <2>5 DEF Fetching, Of, KindLeft, LeavesAll
    <3> QED BY <3>1, <2>1, <2>2, <2>5
  <2> QED BY <2>3, <2>4, <2>5
<1>5. \A e \in Of({ThunkOf(kind)})' : PaymentCall(e, later, events')
  BY <1>3 DEF Of
<1> QED BY <1>1, <1>2, <1>4, <1>5 DEF KindState, GoesOnWith, PaymentCall

LEMMA BeginLeaves ==
    ASSUME NEW D, NEW id, NEW rest \in SUBSET calls, \A c \in rest : IsCall(c),
           NEW thunks, \A d \in D : d.thunk \notin thunks, calls' = Begin(D, id, rest)
    PROVE  LeavesAll(thunks)
<1> DEFINE Marked(c) == [c EXCEPT !.crossed = @ \/ Writes(D)]
<1>1. \A c \in rest : Waits(Marked(c), c)
  BY MarkedWaits DEF Writes
<1>2. \A d \in Followed(D) : Started(d, id, rest).thunk \notin thunks
  BY DEF Followed, Started
<1>3. \A e \in calls' : \/ \E c \in rest : e = Marked(c)
                        \/ \E d \in Followed(D) : e = Started(d, id, rest)
  BY BeginHeirs
<1> HIDE DEF Marked
<1>4. \A e \in calls' : e.thunk \in thunks => \E c \in rest : e = Marked(c) /\ Waits(e, c)
  BY <1>1, <1>2, <1>3
<1>5. ASSUME NEW e \in calls', NEW f \in calls', e.thunk \in thunks, f.thunk \in thunks, e # f
      PROVE  \E c, d \in calls : c # d /\ Waits(e, c) /\ Waits(f, d)
  <2>1. PICK c \in rest : e = Marked(c) /\ Waits(e, c)
    BY <1>4, <1>5
  <2>2. PICK d \in rest : f = Marked(d) /\ Waits(f, d)
    BY <1>4, <1>5
  <2>3. c # d
    BY <2>1, <2>2, <1>5
  <2> QED BY <2>1, <2>2, <2>3
<1>6. \A e, c : Waits(e, c) => Leaves(e, c)
  BY DEF Leaves, Waits
<1> QED BY <1>4, <1>5, <1>6 DEF LeavesAll

LEMMA FewerLeaves ==
    ASSUME calls' \subseteq calls, NEW thunks
    PROVE  LeavesAll(thunks)
<1>1. \A c : Leaves(c, c)
  BY DEF Leaves, Waits, Heir
<1> QED BY <1>1 DEF LeavesAll

\* A call goes on as before, or fails, or is not one of the given ones.
LEMMA ReplacedLeaves ==
    ASSUME NEW c \in calls, NEW d, Heir(d, c), calls' = (calls \ {c}) \cup {d},
           NEW thunks, c.thunk \in thunks => Leaves(d, c)
    PROVE  LeavesAll(thunks)
<1>1. \A e : Leaves(e, e)
  BY DEF Leaves, Waits, Heir
<1>2. d.thunk \in thunks => Leaves(d, c)
  BY DEF Heir
<1> QED BY <1>1, <1>2 DEF LeavesAll

LEMMA SliceLeaves ==
    ASSUME CallsInv, NEW T, SliceStep(T), NEW thunks, thunks \cap T = {}
    PROVE  LeavesAll(thunks)
<1>0. \A c \in calls : IsCall(c)
  BY CallsWhole
<1>1. CASE calls' \subseteq calls
  BY <1>1, FewerLeaves
<1>2. CASE \E c \in Of(T) : \E d : Heir(d, c) /\ calls' = (calls \ {c}) \cup {d}
  <2>0. PICK c \in Of(T) : \E d : Heir(d, c) /\ calls' = (calls \ {c}) \cup {d}
    BY <1>2
  <2>1. PICK d : Heir(d, c) /\ calls' = (calls \ {c}) \cup {d}
    BY <2>0
  <2>2. c \in calls /\ c.thunk \notin thunks
    BY DEF Of
  <2> QED BY <2>1, <2>2, ReplacedLeaves
<1>3. ASSUME NEW gone \in SUBSET Of(T), NEW D, NEW id, Sent(D, T),
             calls' = Begin(D, id, calls \ gone)
      PROVE  LeavesAll(thunks)
  <2> DEFINE rest == calls \ gone
  <2>1. rest \in SUBSET calls /\ \A c \in rest : IsCall(c)
    BY <1>0
  <2>2. \A d \in D : d.thunk \notin thunks
    BY <1>3 DEF Sent
  <2>3. calls' = Begin(D, id, rest)
    BY <1>3
  <2> HIDE DEF rest
  <2> QED BY <2>1, <2>2, <2>3, BeginLeaves
<1> QED BY <1>0, <1>1, <1>2, <1>3, SliceStepKinds

LEMMA LoseLeaves ==
    ASSUME CallsInv, NEW c \in calls, Lose(c), NEW thunks
    PROVE  LeavesAll(thunks)
<1>1. PICK d : /\ Heir(d, c) /\ d.todo = <<>> /\ d.reply = Error
               /\ calls' = (calls \ {c}) \cup {d}
  BY CallsWhole, RefuseHeirs DEF Lose, GoesOn
<1> QED BY <1>1, ReplacedLeaves DEF Leaves
-----------------------------------------------------------------------------
(* What the steps of the other slices do with the lists of payments.       *)

\* Only the calls of the lists hold their status.
LEMMA ListStatusOfLists ==
    ASSUME ScreenInv, NEW c \in calls, NEW kind, c.status = StatusOf(kind), StatusOf(kind) \in loading
    PROVE  c.thunk = ThunkOf(kind)
BY DEF ScreenInv, Covers, StatusOf, ThunkOf

\* A step of the slice with the thunks T ends the loading of its own fields alone,
\* in the same view.
Ticks(T) ==
    /\ view' = view /\ events' \in {events, events + 1}
    /\ \A status \in loading \ loading' : \E c \in Of(T) : c.status = status

LEMMA SqueaksTick ==
    ASSUME SqueakUser \/ SqueakServer \/ SqueakReply
    PROVE  Ticks(SqueakThunks)
<1>1. CASE SqueakUser
  BY <1>1 DEF Ticks, SqueakUser, OpenSqueak, OpenTimeline, OpenSearch, OpenProfileSqueaks, OpenList,
     ClickPageHeart, ClickPageDelete, ClickDownload, ClickCardHeart, ClickCardDelete, Heart,
     toggleBuyModal, ClickBuy, handleChangeOffer, submitSqueak, thunkVars, Dispatch
<1>2. CASE SqueakServer
  BY <1>2 DEF SqueakServer, Ticks
<1>3. CASE SqueakReply
  <2>1. PICK c \in calls :
        \/ fetchSqueakFulfilled(c) \/ fetchAncestorSqueaksFulfilled(c)
        \/ fetchReplySqueaksFulfilled(c) \/ fetchListFulfilled(c)
        \/ fetchSqueakOffersFulfilled(c) \/ fetchPaymentSummaryForSqueakFulfilled(c)
        \/ setLikeSqueakFulfilled(c) \/ setUnlikeSqueakFulfilled(c)
        \/ setDeleteSqueakFulfilled(c) \/ setMakeSqueakFulfilled(c)
        \/ setBuySqueakFulfilled(c) \/ setDownloadSqueakFulfilled(c)
        \/ SqueakReducerThrows(c) \/ SqueakThunkRejected(c)
    BY <1>3 DEF SqueakReply
  <2>2. c \in Of(SqueakThunks)
    BY <2>1 DEF Of, Done, SqueakThunks, fetchSqueakFulfilled,
       fetchAncestorSqueaksFulfilled, fetchReplySqueaksFulfilled, fetchListFulfilled,
       fetchSqueakOffersFulfilled, fetchPaymentSummaryForSqueakFulfilled, setLikeSqueakFulfilled,
       setUnlikeSqueakFulfilled, setDeleteSqueakFulfilled, setMakeSqueakFulfilled,
       setBuySqueakFulfilled, setDownloadSqueakFulfilled, SqueakReducerThrows, SqueakThunkRejected
  <2>3. \/ \E D : Settle(c, D)
        \/ Crash(c)
        \/ \E hasCase, fields : Rejected(c, hasCase, fields)
    BY <2>1 DEF fetchSqueakFulfilled,
       fetchAncestorSqueaksFulfilled, fetchReplySqueaksFulfilled, fetchListFulfilled,
       fetchSqueakOffersFulfilled, fetchPaymentSummaryForSqueakFulfilled, setLikeSqueakFulfilled,
       setUnlikeSqueakFulfilled, setDeleteSqueakFulfilled, setMakeSqueakFulfilled,
       setBuySqueakFulfilled, setDownloadSqueakFulfilled, SqueakReducerThrows, SqueakThunkRejected
  <2> QED BY <2>2, <2>3 DEF Ticks, Settle, Crash, Rejected
<1> QED BY <1>1, <1>2, <1>3

LEMMA ProfilesTick ==
    ASSUME ProfileUser \/ ProfileServer \/ ProfileReply
    PROVE  Ticks(ProfileThunks)
<1>1. CASE ProfileUser
  <2>1. \E D : Dispatch(D)
    BY <1>1 DEF ProfileUser, OpenProfile, OpenSigningProfiles,
       OpenContactProfiles, OpenMakeSqueak, ClickFollow, changeAvatar, ClickDeleteProfile,
       exportPrivateKey, ClickCardFollow, editProfile, AddContactProfile, createSigning,
       createContact, importSigning, Switch
  <2> QED BY <2>1 DEF Dispatch, Ticks
<1>2. CASE ProfileServer
  BY <1>2 DEF ProfileServer, Ticks
<1>3. CASE ProfileReply
  <2>1. PICK c \in calls :
        \/ fetchProfileFulfilled(c) \/ fetchPaymentSummaryForPubkeyFulfilled(c)
        \/ fetchSigningProfilesFulfilled(c) \/ fetchContactProfilesFulfilled(c)
        \/ setProfileFulfilled(c) \/ setDeleteProfileFulfilled(c)
        \/ getProfilePrivateKeyFulfilled(c) \/ ProfileReducerThrows(c)
        \/ AddContactProfileFulfilled(c) \/ createProfileFulfilled(c)
        \/ createContactProfileRejected(c) \/ ProfileThunkRejected(c)
    BY <1>3 DEF ProfileReply
  <2>2. c \in Of(ProfileThunks)
    BY <2>1 DEF Of, Done, ProfileThunks, ChangesProfile, fetchProfileFulfilled,
       fetchPaymentSummaryForPubkeyFulfilled, fetchSigningProfilesFulfilled,
       fetchContactProfilesFulfilled, setProfileFulfilled, setDeleteProfileFulfilled,
       getProfilePrivateKeyFulfilled, ProfileReducerThrows, AddContactProfileFulfilled,
       createProfileFulfilled, createContactProfileRejected, ProfileThunkRejected
  <2>3. CASE createContactProfileRejected(c)
    BY <2>2, <2>3 DEF createContactProfileRejected, Ticks
  <2>4. CASE createProfileFulfilled(c)
    <3>1. \E D : Settle(c, D)
      BY <2>4 DEF createProfileFulfilled
    <3> QED BY <2>2, <3>1 DEF Settle, Ticks
  <2>5. ASSUME ~createContactProfileRejected(c), ~createProfileFulfilled(c)
        PROVE  (\E D : Settle(c, D)) \/ Crash(c) \/ \E hasCase, fields : Rejected(c, hasCase, fields)
    BY <2>1, <2>5 DEF fetchProfileFulfilled,
       fetchPaymentSummaryForPubkeyFulfilled, fetchSigningProfilesFulfilled,
       fetchContactProfilesFulfilled, setProfileFulfilled, setDeleteProfileFulfilled,
       getProfilePrivateKeyFulfilled, ProfileReducerThrows, AddContactProfileFulfilled,
       ProfileThunkRejected
  <2> QED BY <2>2, <2>3, <2>4, <2>5 DEF Ticks, Settle, Crash, Rejected
<1> QED BY <1>1, <1>2, <1>3

LEMMA PeersTick ==
    ASSUME PeerUser \/ PeerServer \/ PeerReply
    PROVE  Ticks(PeerThunks)
<1>1. CASE PeerUser
  <2>1. \E D : Dispatch(D)
    BY <1>1 DEF PeerUser, OpenPeer, AddPeer, OpenPeers, ClickPeerSwitch, ClickDeletePeer,
       ClickPeerCardSwitch, Toggle
  <2> QED BY <2>1 DEF Dispatch, Ticks
<1>2. CASE PeerServer
  BY <1>2 DEF PeerServer, Ticks
<1>3. CASE PeerReply
  <2>1. PICK c \in calls :
            \/ fetchPeerFulfilled(c) \/ fetchSavedPeersFulfilled(c) \/ setSavePeerFulfilled(c)
            \/ setDeletePeerFulfilled(c) \/ setPeerAutoconnectFulfilled(c)
            \/ PeerThunkRejected(c)
    BY <1>3 DEF PeerReply
  <2>2. c \in Of(PeerThunks)
    BY <2>1 DEF Of, Done, PeerThunks, fetchPeerFulfilled, fetchSavedPeersFulfilled,
       setSavePeerFulfilled, setDeletePeerFulfilled, setPeerAutoconnectFulfilled,
       PeerThunkRejected
  <2>3. Settle(c, {}) \/ \E hasCase, fields : Rejected(c, hasCase, fields)
    BY <2>1 DEF fetchPeerFulfilled, fetchSavedPeersFulfilled, setSavePeerFulfilled,
       setDeletePeerFulfilled, setPeerAutoconnectFulfilled, PeerThunkRejected
  <2> QED BY <2>2, <2>3 DEF Ticks, Settle, Rejected
<1> QED BY <1>1, <1>2, <1>3

LEMMA SettingsTick ==
    ASSUME SettingsUser \/ SettingsServer \/ SettingsReply
    PROVE  Ticks(SettingsThunks) \/ (calls' = {} /\ view' = view /\ events' = events)
<1>1. CASE SettingsUser
  <2>1. \E D : Dispatch(D)
    BY <1>1 DEF SettingsUser, OpenApp, OpenTwitterAccounts, OpenAddress,
       OpenNetwork, addTwitterAccount, ClickDeleteAccount, submitSellPrice,
       setSellPriceToDefault, ClickLogout
  <2> QED BY <2>1 DEF Dispatch, Ticks
<1>2. CASE SettingsServer
  BY <1>2 DEF SettingsServer, Ticks
<1>3. CASE SettingsReply
  <2>1. PICK c \in calls :
        \/ twitterAccountsFulfilled(c) \/ sellPriceFulfilled(c)
        \/ fetchNetworkFulfilled(c) \/ fetchExternalAddressFulfilled(c)
        \/ setLogoutFulfilled(c) \/ SettingsThunkRejected(c)
    BY <1>3 DEF SettingsReply
  <2>2. c \in Of(SettingsThunks)
    BY <2>1 DEF Of, Done, SettingsThunks, twitterAccountsFulfilled, sellPriceFulfilled,
       fetchNetworkFulfilled, fetchExternalAddressFulfilled, setLogoutFulfilled,
       SettingsThunkRejected
  <2>3. Settle(c, {}) \/ (calls' = {} /\ view' = view /\ events' = events)
        \/ \E hasCase, fields : Rejected(c, hasCase, fields)
    BY <2>1 DEF twitterAccountsFulfilled, sellPriceFulfilled, fetchNetworkFulfilled,
       fetchExternalAddressFulfilled, setLogoutFulfilled, SettingsThunkRejected
  <2> QED BY <2>2, <2>3 DEF Ticks, Settle, Rejected
<1> QED BY <1>1, <1>2, <1>3

\* A logout drops the calls, the lists stay.
LEMMA KindAlone ==
    ASSUME NEW kind, KindState(kind), calls' = {}, UNCHANGED paymentVars
    PROVE  KindState(kind)'
BY DEF KindState, Fetching, Of, paymentVars, paymentPage

\* A step of another slice, a request that is lost, or none.
LEMMA OthersLeft ==
    ASSUME CallsInv, ScreenInv, events \in Nat, NEW kind, KindState(kind), UNCHANGED paymentVars,
           \/ \E T : SliceStep(T) /\ Ticks(T) /\ T \cap PaymentThunks = {}
           \/ \E c \in calls : Lose(c)
           \/ UNCHANGED thunkVars
    PROVE  KindLeft(kind)
<1>1. /\ UNCHANGED <<paymentLists[kind], listOf[kind], mixed>>
      /\ recorded[kind] <= recorded'[kind] /\ recorded'[kind] \in 0..Len(OwnersOf)
  <2>1. recorded[kind] \in 0..Len(OwnersOf) /\ Len(OwnersOf) \in Nat
    BY PaymentsAssumption DEF KindState
  <2> QED BY <2>1 DEF paymentVars, paymentPage
<1>2. ASSUME NEW T, SliceStep(T), Ticks(T), T \cap PaymentThunks = {}
      PROVE  KindLeft(kind)
  <2>1. ThunkOf(kind) \in PaymentThunks
    BY DEF ThunkOf, PaymentThunks
  <2>2. {ThunkOf(kind)} \cap T = {}
    BY <1>2, <2>1
  <2>3. LeavesAll({ThunkOf(kind)})
    BY <1>2, <2>2, SliceLeaves
  <2>4. StatusOf(kind) \in loading => StatusOf(kind) \in loading'
    BY <1>2, <2>2, ListStatusOfLists DEF Ticks, Of
  <2>5. events' \in Nat /\ events <= events'
    BY <1>2 DEF Ticks
  <2> QED BY <1>1, <2>3, <2>4, <2>5 DEF KindLeft
<1>3. ASSUME NEW c \in calls, Lose(c)
      PROVE  KindLeft(kind)
  BY <1>1, <1>3, LoseLeaves DEF KindLeft, Lose
<1>4. CASE UNCHANGED thunkVars
  <2>1. LeavesAll({ThunkOf(kind)})
    BY <1>4, FewerLeaves DEF thunkVars
  <2> QED BY <1>1, <1>4, <2>1 DEF KindLeft, thunkVars
<1> QED BY <1>2, <1>3, <1>4

-----------------------------------------------------------------------------
(* The steps of the payments.                                              *)

PaymentState ==
    /\ events \in Nat
    /\ recorded = [kind \in Kinds |-> recorded[kind]]
    /\ paymentLists = [kind \in Kinds |-> paymentLists[kind]]
    /\ listOf = [kind \in Kinds |-> listOf[kind]]
    /\ paymentsTab \in Kinds
    /\ \A kind \in Kinds : KindState(kind)

LEMMA KindsApart ==
    ASSUME NEW kind \in Kinds, NEW other \in Kinds, kind # other
    PROVE  ThunkOf(kind) # ThunkOf(other) /\ StatusOf(kind) # StatusOf(other)
BY DEF Kinds, ThunkOf, StatusOf

LEMMA TopOfKind ==
    ASSUME NEW kind, KindState(kind)
    PROVE  recorded[kind] \in Nat /\ recorded[kind] \in 0..Len(OwnersOf)
           /\ None \notin 1..recorded[kind]
<1>1. Len(OwnersOf) \in Nat /\ DOMAIN OwnersOf = 1..Len(OwnersOf)
  BY PaymentsAssumption
<1>2. recorded[kind] \in 0..Len(OwnersOf)
  BY DEF KindState
<1> QED BY <1>1, <1>2, PaymentsAssumption

\* A step that is only about a call that is not of the kind.
LEMMA CallElsewhere ==
    ASSUME CallsInv, NEW kind, KindState(kind), NEW T, SliceStep(T), ThunkOf(kind) \notin T,
           UNCHANGED <<paymentLists[kind], listOf[kind], recorded>>,
           kind \in mixed => kind \in mixed',
           StatusOf(kind) \in loading => StatusOf(kind) \in loading',
           events \in Nat, events' \in {events, events + 1}
    PROVE  KindLeft(kind)
<1>1. LeavesAll({ThunkOf(kind)})
  BY SliceLeaves
<1>2. recorded[kind] <= recorded'[kind] /\ recorded'[kind] \in 0..Len(OwnersOf)
  BY TopOfKind
<1> QED BY <1>1, <1>2 DEF KindLeft

\* The calls after one for a list of the kind was dispatched.
Dispatched(kind, owner, last) ==
    \A e \in Of({ThunkOf(kind)})' :
        \/ \E c \in Of({ThunkOf(kind)}) : Waits(e, c)
        \/ /\ e.id = events + 1 /\ e.arg = owner
           /\ e.todo = <<<<e.thunk, <<owner, last>>>>>>
           /\ e = Started(fetchList(kind, owner, last), events + 1, calls)
           /\ StatusOf(kind) \in loading'

LEMMA ListDispatched ==
    ASSUME CallsInv, NEW kind \in Kinds, NEW owner, NEW last,
           calls' = Begin({fetchList(kind, owner, last)}, events + 1, calls),
           Pending({fetchList(kind, owner, last)}) \subseteq loading'
    PROVE  Dispatched(kind, owner, last)
<1> DEFINE d == fetchList(kind, owner, last)
<1>1. /\ d.thunk = ThunkOf(kind) /\ d.arg = owner /\ d.status = StatusOf(kind)
      /\ d.todo = <<<<ThunkOf(kind), <<owner, last>>>>>>
  BY DEF fetchList, fetchSentPayments, fetchReceivedPayments, fetchPayments, Read, ThunkOf, Kinds,
         StatusOf
<1>2. StatusOf(kind) # None
  BY PaymentsAssumption DEF StatusOf
<1> HIDE DEF d
<1>3. SUFFICES ASSUME NEW e \in calls', e.thunk = ThunkOf(kind)
               PROVE  \/ \E c \in Of({ThunkOf(kind)}) : Waits(e, c)
                      \/ /\ e.id = events + 1 /\ e.arg = owner
                         /\ e.todo = <<<<e.thunk, <<owner, last>>>>>>
                         /\ e = Started(d, events + 1, calls)
                         /\ StatusOf(kind) \in loading'
  BY DEF Dispatched, Of, d
<1>4. calls' = Begin({d}, events + 1, calls) /\ \A c \in calls : IsCall(c)
  BY CallsWhole DEF d
<1>5. \/ \E c \in calls : Waits(e, c)
      \/ \E b \in Followed({d}) : e = Started(b, events + 1, calls)
  <2> DEFINE D == {d}
  <2> HIDE DEF D
  <2>1. \A f \in Begin(D, events + 1, calls) :
        \/ \E c \in calls : Waits(f, c) /\ f = [c EXCEPT !.crossed = @ \/ Writes(D)]
        \/ \E b \in Followed(D) : f = Started(b, events + 1, calls)
    BY <1>4, BeginHeirs
  <2> QED BY <1>3, <1>4, <2>1 DEF D
<1>6. CASE \E c \in calls : Waits(e, c)
  BY <1>3, <1>6 DEF Of, Waits, Heir
<1>7. CASE \E b \in Followed({d}) : e = Started(b, events + 1, calls)
  <2>1. d \in Followed({d}) /\ e = Started(d, events + 1, calls)
    BY <1>7 DEF Followed
  <2>2. StatusOf(kind) \in Pending({d})
    BY <1>1, <1>2, <2>1 DEF Pending
  <2>3. e.id = events + 1 /\ e.arg = d.arg /\ e.todo = d.todo /\ e.thunk = d.thunk
    BY <2>1 DEF Started
  <2>4. StatusOf(kind) \in loading'
    BY <2>2 DEF d
  <2> QED BY <1>1, <2>1, <2>3, <2>4
<1> QED BY <1>5, <1>6, <1>7

LEMMA DispatchedCalls ==
    ASSUME NEW kind \in Kinds, NEW owner, NEW last, Dispatched(kind, owner, last), KindState(kind),
           events \in Nat, NEW e \in Of({ThunkOf(kind)})'
    PROVE  PaymentCall(e, recorded[kind], events + 1)
<1>1. recorded[kind] \in Nat
  BY TopOfKind
<1>2. CASE \E c \in Of({ThunkOf(kind)}) : Waits(e, c)
  <2>1. PICK c \in Of({ThunkOf(kind)}) : Waits(e, c)
    BY <1>2
  <2>2. PaymentCall(c, recorded[kind], events) /\ Leaves(e, c)
    BY <2>1 DEF KindState, Leaves, Waits
  <2> QED BY <1>1, <2>2, PaymentCallLeft
<1>3. CASE e.id = events + 1 /\ e.arg = owner /\ e.todo = <<<<e.thunk, <<owner, last>>>>>>
  <2>1. Asking(e.todo, e.thunk, <<e.arg, last>>) /\ e.todo # <<>>
    BY <1>3, OneLeft DEF Asking
  <2>2. e.id \in 0..(events + 1)
    BY <1>3
  <2> HIDE <1>3
  <2> QED BY <2>1, <2>2 DEF PaymentCall
<1> QED BY <1>2, <1>3 DEF Dispatched

\* A list is mounted.
LEMMA MountKeepsKind ==
    ASSUME CallsInv, events \in Nat, NEW kind \in Kinds, KindState(kind), NEW owner,
           events' = events + 1, recorded' = recorded,
           Dispatched(kind, owner, None),
           paymentLists'[kind] = <<>>, kind \notin mixed',
           listOf'[kind] = [owner |-> owner, since |-> events + 1]
    PROVE  KindState(kind)'
<1> DEFINE top == recorded[kind]
<1>1. top \in Nat /\ top \in 0..Len(OwnersOf)
  BY TopOfKind
<1>2. \A e \in Of({ThunkOf(kind)})' : PaymentCall(e, top, events + 1)
  BY DispatchedCalls
<1>3. <<>> \in Seq(1..top) /\ Continues(<<>>, <<>>, owner, top)
  BY <1>1, EmptyContinues
<1>4. ASSUME NEW e \in Fetching(kind)'
      PROVE  /\ e.todo = <<<<e.thunk, <<e.arg, None>>>>>> /\ StatusOf(kind) \in loading'
             /\ e = Started(fetchList(kind, owner, None), events + 1, calls)
  <2>1. e \in Of({ThunkOf(kind)})' /\ ~(e.id < events + 1)
    BY <1>4 DEF Fetching
  <2>2. ~ \E c \in Of({ThunkOf(kind)}) : Waits(e, c)
    <3> SUFFICES ASSUME NEW c \in Of({ThunkOf(kind)}), Waits(e, c)
                 PROVE  FALSE
      OBVIOUS
    <3>1. PaymentCall(c, top, events)
      BY DEF KindState
    <3> QED BY <2>1, <3>1 DEF PaymentCall, Waits, Heir
  <2> QED BY <2>1, <2>2 DEF Dispatched
<1>5. ASSUME NEW e \in Fetching(kind)'
      PROVE  GoesOnWith(e, <<>>, top)
  <2>1. e.todo = <<<<e.thunk, <<e.arg, None>>>>>> /\ e.todo # <<>>
    BY <1>4, <1>5, OneLeft
  <2> QED BY <2>1 DEF GoesOnWith
<1>6. \A e, f \in Fetching(kind)' : e = f
  BY <1>4
<1>7. \A e \in Fetching(kind)' :
            /\ StatusOf(kind) \in loading'
            /\ GoesOnWith(e, paymentLists'[kind], recorded'[kind])
            /\ \A f \in Fetching(kind)' : e = f
  BY <1>4, <1>5, <1>6
<1>8. /\ recorded'[kind] \in 0..Len(OwnersOf)
      /\ paymentLists'[kind] \in Seq(1..recorded'[kind])
      /\ Continues(<<>>, paymentLists'[kind], listOf'[kind].owner, recorded'[kind])
  BY <1>1, <1>3
<1>9. \A e \in Of({ThunkOf(kind)})' : PaymentCall(e, recorded'[kind], events')
  BY <1>2
<1> QED BY <1>7, <1>8, <1>9 DEF KindState

\* The next part of a list is fetched, while none is.
LEMMA LoadMoreKeepsKind ==
    ASSUME CallsInv, events \in Nat, NEW kind \in Kinds, KindState(kind), NEW owner, NEW last,
           last = IF paymentLists[kind] = <<>> THEN None
                  ELSE paymentLists[kind][Len(paymentLists[kind])],
           StatusOf(kind) \notin loading, events' = events + 1,
           Dispatched(kind, owner, last), UNCHANGED paymentVars
    PROVE  KindState(kind)'
<1> DEFINE top == recorded[kind]
           list == paymentLists[kind]
<1>1. top \in 0..Len(OwnersOf) /\ list \in Seq(1..top)
  BY TopOfKind DEF KindState
<1>2. \A e \in Of({ThunkOf(kind)})' : PaymentCall(e, top, events + 1)
  BY DispatchedCalls
<1>3. ASSUME kind \notin mixed, NEW e \in Fetching(kind)'
      PROVE  /\ e.todo = <<<<e.thunk, <<e.arg, last>>>>>> /\ StatusOf(kind) \in loading'
             /\ e = Started(fetchList(kind, owner, last), events + 1, calls)
  <2>1. Fetching(kind) = {}
    BY <1>3 DEF KindState
  <2>2. ~ \E c \in Of({ThunkOf(kind)}) : Waits(e, c)
    <3> SUFFICES ASSUME NEW c \in Of({ThunkOf(kind)}), Waits(e, c)
                 PROVE  FALSE
      OBVIOUS
    <3>1. c \in Fetching(kind)
      BY <1>3 DEF Fetching, Of, Waits, Heir, paymentVars, paymentPage
    <3> QED BY <2>1, <3>1
  <2>3. e \in Of({ThunkOf(kind)})'
    BY <1>3 DEF Fetching
  <2> QED BY <2>2, <2>3 DEF Dispatched
<1>4. ASSUME kind \notin mixed, NEW e \in Fetching(kind)'
      PROVE  GoesOnWith(e, list, top)
  <2>1. e.todo = <<<<e.thunk, <<e.arg, last>>>>>> /\ e.todo # <<>>
    BY <1>3, <1>4, OneLeft
  <2> QED BY <2>1 DEF GoesOnWith
<1>5. kind \notin mixed => \A e, f \in Fetching(kind)' : e = f
  BY <1>3
<1>6. /\ recorded' = recorded /\ paymentLists' = paymentLists /\ listOf' = listOf /\ mixed' = mixed
      /\ kind \notin mixed => Continues(<<>>, list, listOf[kind].owner, top)
  BY DEF KindState, paymentVars, paymentPage
<1> QED BY <1>1, <1>2, <1>3, <1>4, <1>5, <1>6 DEF KindState

\* The node answers with the next part of a list.
LEMMA AnswerKeepsKind ==
    ASSUME CallsInv, NEW kind \in Kinds, KindState(kind), NEW c \in Of({ThunkOf(kind)}),
           At(c, ThunkOf(kind)),
           Answer(c, NewestFirst(Older(kind, Argument(c)[1], Argument(c)[2]))),
           UNCHANGED paymentVars, UNCHANGED <<loading, events>>
    PROVE  KindState(kind)'
<1> DEFINE top == recorded[kind]
           list == paymentLists[kind]
           reply == NewestFirst(Older(kind, Argument(c)[1], Argument(c)[2]))
<1>1. /\ top \in Nat /\ None \notin 1..top /\ list \in Seq(1..top)
      /\ PaymentCall(c, top, events) /\ c \in calls /\ IsCall(c) /\ c.thunk = ThunkOf(kind)
  BY TopOfKind, CallsWhole DEF KindState, Of
<1>2. PICK last : Asking(c.todo, c.thunk, <<c.arg, last>>)
  BY <1>1 DEF PaymentCall
<1>3. /\ Argument(c) = <<c.arg, last>> /\ Tail(c.todo) = <<>>
      /\ c.todo = <<<<c.thunk, <<c.arg, last>>>>>>
  <2>1. Argument(c) = <<c.arg, last>> /\ Tail(c.todo) = <<>>
    BY <1>2, AskingNext
  <2>2. c.todo = <<<<c.thunk, <<c.arg, last>>>>>>
    BY <1>2 DEF Asking, At
  <2> QED BY <2>1, <2>2
<1>4. reply = NewestFirst(Older(kind, c.arg, last))
  BY <1>3
<1>5. PICK d : /\ Heir(d, c) /\ d.todo = Tail(c.todo) /\ d.reply = reply
               /\ calls' = (calls \ {c}) \cup {d}
  BY <1>1, AnswerHeirs DEF GoesOn
<1> HIDE DEF reply
<1>6. d.todo = <<>>
  BY <1>3, <1>5
<1>7. reply \in Seq(1..top)
  <2>1. Older(kind, c.arg, last) \in SUBSET (1..top)
    BY DEF Older
  <2> HIDE DEF top
  <2> QED BY <1>1, <1>4, <2>1, NewestOf
<1>8. PaymentCall(d, top, events)
  <2>1. Asking(d.todo, d.thunk, <<d.arg, last>>)
    BY <1>6 DEF Asking
  <2> QED BY <1>1, <1>5, <1>7, <2>1 DEF PaymentCall, Heir
<1>9. \A e \in Of({ThunkOf(kind)})' : PaymentCall(e, top, events)
  BY <1>5, <1>8 DEF KindState, Of
<1>10. /\ recorded' = recorded /\ paymentLists' = paymentLists /\ listOf' = listOf
       /\ mixed' = mixed
  BY DEF paymentVars, paymentPage
<1>11. ASSUME kind \notin mixed, NEW e \in Fetching(kind)'
       PROVE  /\ StatusOf(kind) \in loading /\ GoesOnWith(e, list, top)
              /\ \A f \in Fetching(kind)' : e = f
  <2>1. \A f \in Fetching(kind)' : f = d \/ f \in Fetching(kind) \ {c}
    BY <1>5, <1>10 DEF Fetching, Of
  <2>2. d \in Fetching(kind)' => c \in Fetching(kind)
    BY <1>1, <1>5, <1>10 DEF Fetching, Of, Heir
  <2>3. \A b \in Fetching(kind) :
            /\ StatusOf(kind) \in loading /\ GoesOnWith(b, list, top)
            /\ \A a \in Fetching(kind) : b = a
    BY <1>11 DEF KindState
  <2>4. ASSUME c \in Fetching(kind)
        PROVE  GoesOnWith(d, list, top)
    <3>1. GoesOnWith(c, list, top)
      BY <2>3, <2>4
    <3>2. last = IF list = <<>> THEN None ELSE list[Len(list)]
      BY <1>3, <3>1 DEF GoesOnWith
    <3>3. Continues(list, reply, c.arg, top)
      <4> HIDE DEF list
      <4> QED BY <1>1, <1>4, <3>2, NewestContinue
    <3>4. d.arg = c.arg /\ d.reply = reply
      BY <1>5 DEF Heir
    <3>5. \A x : d.todo # <<x>>
      BY <1>6, OneLeft
    <3> QED BY <3>3, <3>4, <3>5 DEF GoesOnWith
  <2>5. CASE e = d
    <3>1. c \in Fetching(kind)
      BY <1>11, <2>2, <2>5
    <3>2. \A f \in Fetching(kind)' : f = d
      BY <2>1, <2>3, <3>1
    <3> QED BY <2>3, <2>4, <2>5, <3>1, <3>2
  <2>6. CASE e \in Fetching(kind) \ {c}
    <3>1. c \notin Fetching(kind)
      BY <2>3, <2>6
    <3> QED BY <2>1, <2>2, <2>3, <2>6, <3>1
  <2> QED BY <1>11, <2>1, <2>5, <2>6
<1> QED BY <1>9, <1>10, <1>11 DEF KindState

LEMMA FulfilledKeepsKind ==
    ASSUME CallsInv, NEW kind \in Kinds, KindState(kind), events \in Nat,
           NEW c \in Of({ThunkOf(kind)}),
           c.todo = <<>>, c.reply # Error, Settle(c, {}),
           paymentLists'[kind] = paymentLists[kind] \o c.reply,
           kind \notin mixed' => kind \notin mixed /\ c \in Fetching(kind),
           listOf' = listOf, recorded' = recorded
    PROVE  KindState(kind)'
<1> DEFINE top == recorded[kind]
           list == paymentLists[kind]
<1>1. /\ top \in Nat /\ top \in 0..Len(OwnersOf) /\ list \in Seq(1..top) /\ c.reply \in Seq(1..top)
      /\ c \in calls
  BY TopOfKind DEF KindState, Of, PaymentCall
<1>2. list \o c.reply \in Seq(1..top)
  BY <1>1
<1>3. Ends(c) /\ events' = events
  BY <1>1, SettleEnds DEF Settle
<1>4. \A e \in Of({ThunkOf(kind)})' : PaymentCall(e, top, events)
  <2> SUFFICES ASSUME NEW e \in calls', e.thunk = ThunkOf(kind)
               PROVE  PaymentCall(e, top, events)
    BY DEF Of
  <2>1. PICK b \in calls : Waits(e, b)
    BY <1>3 DEF Ends
  <2>2. PaymentCall(b, top, events) /\ Leaves(e, b)
    BY <2>1 DEF KindState, Of, Waits, Heir, Leaves
  <2> QED BY <1>1, <2>2, PaymentCallLeft
<1>5. ASSUME kind \notin mixed'
      PROVE  /\ Continues(<<>>, list \o c.reply, listOf[kind].owner, top)
             /\ Fetching(kind)' = {}
  <2>1. /\ c \in Fetching(kind) /\ c.arg = listOf[kind].owner
        /\ Continues(<<>>, list, listOf[kind].owner, top)
        /\ GoesOnWith(c, list, top)
        /\ \A d \in Fetching(kind) : c = d
    BY <1>5 DEF KindState, Fetching
  <2>2. Continues(list, c.reply, listOf[kind].owner, top)
    BY <2>1 DEF GoesOnWith
  <2>3. Continues(<<>>, list \o c.reply, listOf[kind].owner, top)
    <3> HIDE DEF list, top
    <3> QED BY <1>1, <2>1, <2>2, JoinedContinues
  <2>4. ASSUME NEW e \in Fetching(kind)'
        PROVE  FALSE
    <3>1. PICK b \in calls \ {c} : Waits(e, b)
      BY <1>3, <2>4 DEF Ends, Fetching, Of
    <3>2. b \in Fetching(kind)
      BY <2>4, <3>1 DEF Fetching, Of, Waits, Heir
    <3> QED BY <2>1, <3>1, <3>2
  <2> QED BY <2>3, <2>4
<1>6. /\ recorded'[kind] \in 0..Len(OwnersOf)
      /\ paymentLists'[kind] \in Seq(1..recorded'[kind])
      /\ \A e \in Of({ThunkOf(kind)})' : PaymentCall(e, recorded'[kind], events')
  BY <1>1, <1>2, <1>3, <1>4
<1>7. kind \notin mixed' =>
        /\ Continues(<<>>, paymentLists'[kind], listOf'[kind].owner, recorded'[kind])
        /\ Fetching(kind)' = {}
  BY <1>5
<1> QED BY <1>6, <1>7 DEF KindState

Listed(f) == f = [kind \in Kinds |-> f[kind]]

LEMMA ListSent ==
    ASSUME NEW kind \in Kinds, NEW owner, NEW last
    PROVE  Sent({fetchList(kind, owner, last)}, {ThunkOf(kind)})
<1>1. fetchList(kind, owner, last).thunk = ThunkOf(kind)
  BY DEF fetchList, fetchSentPayments, fetchReceivedPayments, fetchPayments, Read, ThunkOf, Kinds
<1> QED BY <1>1, OneSent

LEMMA MountKeeps ==
    ASSUME CallsInv, PaymentState, NEW kind \in Kinds, NEW owner, MountPayments(kind, owner),
           paymentsTab' \in Kinds
    PROVE  PaymentState'
<1> DEFINE d == fetchList(kind, owner, None)
<1>1. /\ calls' = Begin({d}, events + 1, calls)
      /\ loading' = (loading \ {StatusOf(kind)}) \cup Pending({d})
      /\ events' = events + 1 /\ recorded' = recorded
      /\ paymentLists' = [paymentLists EXCEPT ![kind] = <<>>]
      /\ listOf' = [listOf EXCEPT ![kind] = [owner |-> owner, since |-> events + 1]]
      /\ mixed' = mixed \ {kind}
  BY DEF MountPayments
<1>2. /\ Listed(paymentLists') /\ Listed(listOf') /\ Listed(recorded')
      /\ paymentLists'[kind] = <<>> /\ listOf'[kind] = [owner |-> owner, since |-> events + 1]
      /\ \A k \in Kinds \ {kind} :
            paymentLists'[k] = paymentLists[k] /\ listOf'[k] = listOf[k]
  BY <1>1 DEF PaymentState, Listed
<1>3. events \in Nat /\ events' \in Nat
  BY <1>1 DEF PaymentState
<1>4. KindState(kind)'
  <2>1. Dispatched(kind, owner, None)
    BY <1>1, ListDispatched
  <2> QED BY <1>1, <1>2, <1>3, <2>1, MountKeepsKind DEF PaymentState
<1>5. ASSUME NEW k \in Kinds \ {kind}
      PROVE  KindState(k)'
  <2>1. SliceStep({ThunkOf(kind)})
    <3>1. {} \in SUBSET Of({ThunkOf(kind)}) /\ calls \ {} = calls
      OBVIOUS
    <3>2. Sent({d}, {ThunkOf(kind)}) /\ calls' = Begin({d}, events + 1, calls \ {})
      BY <1>1, <3>1, ListSent
    <3> QED BY <3>1, <3>2 DEF SliceStep
  <2>2. StatusOf(k) # StatusOf(kind) /\ ThunkOf(k) \notin {ThunkOf(kind)}
    BY KindsApart
  <2>3. StatusOf(k) \in loading => StatusOf(k) \in loading'
    BY <1>1, <2>2
  <2>4. KindState(k) /\ UNCHANGED <<paymentLists[k], listOf[k], recorded>>
        /\ (k \in mixed => k \in mixed')
    BY <1>1, <1>2 DEF PaymentState
  <2>5. KindLeft(k)
    BY <1>1, <1>3, <2>1, <2>2, <2>3, <2>4, CallElsewhere
  <2> QED BY <2>4, <2>5, KindStays
<1> QED BY <1>2, <1>3, <1>4, <1>5 DEF PaymentState, Listed

\* Nothing but calls of the given thunks changes.
LEMMA OnlyCallsKeep ==
    ASSUME CallsInv, ScreenInv, PaymentState, NEW T, SliceStep(T), NEW kinds \in SUBSET Kinds,
           \A kind \in kinds : ThunkOf(kind) \notin T, Ticks(T), UNCHANGED paymentVars
    PROVE  \A kind \in kinds : KindState(kind)'
<1> SUFFICES ASSUME NEW kind \in kinds
             PROVE  KindState(kind)'
  OBVIOUS
<1>1. KindState(kind) /\ events \in Nat
  BY DEF PaymentState
<1>2. StatusOf(kind) \in loading => StatusOf(kind) \in loading'
  BY ListStatusOfLists DEF Ticks, Of
<1>3. /\ UNCHANGED <<paymentLists[kind], listOf[kind], recorded>>
      /\ kind \in mixed => kind \in mixed'
  BY DEF paymentVars, paymentPage
<1>4. events' \in {events, events + 1} /\ ThunkOf(kind) \notin T
  BY DEF Ticks
<1>5. KindLeft(kind)
  BY <1>1, <1>2, <1>3, <1>4, CallElsewhere
<1> QED BY <1>1, <1>5, KindStays

LEMMA SamePayments ==
    ASSUME PaymentState, UNCHANGED paymentVars, events' \in {events, events + 1},
           \A kind \in Kinds : KindState(kind)'
    PROVE  PaymentState'
BY DEF PaymentState, paymentVars, paymentPage

LEMMA LoadMoreKeeps ==
    ASSUME CallsInv, ScreenInv, PaymentState, LoadMore
    PROVE  PaymentState'
<1>9. PICK kind \in Kinds : kind = paymentsTab
  BY DEF PaymentState
<1> DEFINE list == paymentLists[kind]
           last == IF list = <<>> THEN None ELSE list[Len(list)]
           d == fetchList(kind, paymentsRoute, last)
<1>1. /\ kind \in Kinds /\ KindState(kind) /\ events \in Nat
      /\ StatusOf(kind) \notin loading /\ Dispatch({d}) /\ UNCHANGED paymentVars
  BY <1>9 DEF LoadMore, PaymentState, Last
<1> HIDE DEF d
<1>2. /\ calls' = Begin({d}, events + 1, calls) /\ events' = events + 1 /\ view' = view
      /\ Pending({d}) \subseteq loading' /\ loading \subseteq loading'
  BY <1>1 DEF Dispatch
<1>7. last = IF paymentLists[kind] = <<>> THEN None
             ELSE paymentLists[kind][Len(paymentLists[kind])]
  OBVIOUS
<1>8. kind \in Kinds /\ StatusOf(kind) \notin loading /\ UNCHANGED paymentVars
      /\ KindState(kind) /\ events \in Nat
  BY <1>1
<1> HIDE DEF last
<1>3. Dispatched(kind, paymentsRoute, last)
  BY <1>2, <1>8, ListDispatched DEF d
<1>4. KindState(kind)'
  BY <1>2, <1>3, <1>7, <1>8, LoadMoreKeepsKind
<1>5. \A k \in Kinds \ {kind} : KindState(k)'
  <2>1. Sent({d}, {ThunkOf(kind)})
    BY <1>8, ListSent DEF d
  <2>2. SliceStep({ThunkOf(kind)}) /\ Ticks({ThunkOf(kind)})
    BY <1>1, <1>2, <2>1 DEF SliceStep, Ticks
  <2>3. \A k \in Kinds \ {kind} : ThunkOf(k) \notin {ThunkOf(kind)}
    BY <1>8, KindsApart
  <2> QED BY <1>8, <2>2, <2>3, OnlyCallsKeep
<1>6. \A k \in Kinds : KindState(k)'
  <2> SUFFICES ASSUME NEW k \in Kinds
               PROVE  KindState(k)'
    OBVIOUS
  <2>1. CASE k = kind
    BY <1>4, <2>1
  <2>2. CASE k # kind
    BY <1>5, <2>2
  <2> QED BY <2>1, <2>2
<1> QED BY <1>2, <1>6, <1>8, SamePayments

LEMMA SummaryApart == \A kind \in Kinds : ThunkOf(kind) \notin {"fetchPaymentSummary"}
BY DEF ThunkOf

LEMMA PaymentUserKeeps ==
    ASSUME CallsInv, ScreenInv, PaymentState, PaymentUser
    PROVE  PaymentState'
<1>1. ASSUME NEW owner \in Owners \cup {"all"}, OpenPayments(owner)
      PROVE  PaymentState'
  <2>1. CASE owner \in PubkeyOwners /\ paymentsRoute \in PubkeyOwners
    <3>1. /\ UNCHANGED <<recorded, paymentLists, paymentsTab, listOf, mixed>>
          /\ UNCHANGED <<calls, loading, events>>
      BY <1>1, <2>1 DEF OpenPayments, thunkVars
    <3> QED BY <3>1 DEF PaymentState, KindState, Fetching, Of
  <2>2. CASE ~(owner \in PubkeyOwners /\ paymentsRoute \in PubkeyOwners)
    <3>1. paymentsTab' \in Kinds /\ MountPayments(paymentsTab', owner)
      BY <1>1, <2>2 DEF OpenPayments, PaymentState, Kinds
    <3> QED BY <3>1, MountKeeps
  <2> QED BY <2>1, <2>2
<1>2. CASE SwitchTab
  <2>1. PICK kind \in Kinds : paymentsTab' = kind /\ MountPayments(kind, paymentsRoute)
    BY <1>2 DEF SwitchTab
  <2> QED BY <2>1, MountKeeps
<1>3. CASE OpenFeed
  <2>1. /\ Dispatch({fetchPaymentSummary}) /\ UNCHANGED paymentVars
        /\ fetchPaymentSummary.thunk \in {"fetchPaymentSummary"}
    BY <1>3 DEF OpenFeed, fetchPaymentSummary, Read
  <2>2. SliceStep({"fetchPaymentSummary"}) /\ Ticks({"fetchPaymentSummary"})
    BY <2>1, OneSent DEF SliceStep, Ticks, Dispatch
  <2>3. \A kind \in Kinds : KindState(kind)'
    BY <2>1, <2>2, SummaryApart, OnlyCallsKeep
  <2> QED BY <2>1, <2>3, SamePayments DEF Dispatch
<1> QED BY <1>1, <1>2, <1>3, LoadMoreKeeps DEF PaymentUser

LEMMA PaymentRecordedKeeps ==
    ASSUME PaymentState, PaymentRecorded
    PROVE  PaymentState'
<1>1. PICK kind \in Kinds : Record(kind)
  BY DEF PaymentRecorded
<1>2. /\ UNCHANGED <<calls, loading, events, paymentLists, listOf, mixed, paymentsTab>>
      /\ recorded' = [recorded EXCEPT ![kind] = @ + 1] /\ recorded[kind] < Len(OwnersOf)
  BY <1>1 DEF PaymentRecorded, Record, thunkVars, paymentPage
<1>3. ASSUME NEW k \in Kinds
      PROVE  recorded[k] <= recorded'[k] /\ recorded'[k] \in 0..Len(OwnersOf)
  <2>1. recorded[k] \in 0..Len(OwnersOf)
    BY DEF PaymentState, KindState
  <2>3. Len(OwnersOf) \in Nat
    BY PaymentsAssumption
  <2>2. recorded'[k] = IF k = kind THEN recorded[k] + 1 ELSE recorded[k]
    BY <1>2 DEF PaymentState
  <2> QED BY <1>2, <2>1, <2>2, <2>3
<1>4. \A k \in Kinds : KindState(k)'
  <2> SUFFICES ASSUME NEW k \in Kinds
               PROVE  KindState(k)'
    OBVIOUS
  <2>1. LeavesAll({ThunkOf(k)})
    BY <1>2, FewerLeaves
  <2>2. KindLeft(k)
    BY <1>2, <1>3, <2>1 DEF KindLeft, PaymentState
  <2> QED BY <2>2, KindStays DEF PaymentState
<1>5. Listed(recorded')
  BY <1>2 DEF PaymentState, Listed
<1> QED BY <1>2, <1>4, <1>5 DEF PaymentState, Listed

LEMMA PaymentServerKeeps ==
    ASSUME CallsInv, ScreenInv, PaymentState, PaymentServer
    PROVE  PaymentState'
<1>1. PICK c \in Of(PaymentThunks) :
        getSentPayments(c) \/ getReceivedPayments(c) \/ getPaymentSummary(c)
  BY DEF PaymentServer
<1>2. c \in calls /\ UNCHANGED paymentVars /\ UNCHANGED <<view, loading, events>>
  BY DEF PaymentServer, Of
<1>3. \E reply : Answer(c, reply)
  BY <1>1 DEF getSentPayments, getReceivedPayments, getPaymentSummary
<1>4. SliceStep({c.thunk}) /\ Ticks({c.thunk})
  BY <1>2, <1>3 DEF SliceStep, Ticks, Of
<1>5. \A kind \in Kinds : c.thunk # ThunkOf(kind) => KindState(kind)'
  <2>1. \A kind \in {k \in Kinds : ThunkOf(k) # c.thunk} : ThunkOf(kind) \notin {c.thunk}
    OBVIOUS
  <2>2. \A kind \in {k \in Kinds : ThunkOf(k) # c.thunk} : KindState(kind)'
    BY <1>2, <1>4, <2>1, OnlyCallsKeep
  <2> QED BY <2>2
<1>6. ASSUME NEW kind \in Kinds, c.thunk = ThunkOf(kind)
      PROVE  KindState(kind)'
  <2>1. KindState(kind) /\ c \in Of({ThunkOf(kind)})
    BY <1>2, <1>6 DEF PaymentState, Of
  <2>2. \E last : Asking(c.todo, c.thunk, <<c.arg, last>>)
    BY <2>1 DEF KindState, PaymentCall
  <2>3. \A request : At(c, request) => request = c.thunk
    BY <2>2, AskingNext
  <2>4. \/ At(c, "fetchSentPayments") /\ getSentPayments(c)
        \/ At(c, "fetchReceivedPayments") /\ getReceivedPayments(c)
        \/ At(c, "getPaymentSummary")
    BY <1>1 DEF getSentPayments, getReceivedPayments, getPaymentSummary
  <2>5. \/ kind = "sent" /\ At(c, "fetchSentPayments") /\ getSentPayments(c)
        \/ kind = "received" /\ At(c, "fetchReceivedPayments") /\ getReceivedPayments(c)
    BY <1>6, <2>3, <2>4 DEF ThunkOf, Kinds
  <2>6. /\ At(c, ThunkOf(kind))
        /\ Answer(c, NewestFirst(Older(kind, Argument(c)[1], Argument(c)[2])))
    BY <2>5 DEF getSentPayments, getReceivedPayments, ThunkOf
  <2> QED BY <1>2, <2>1, <2>6, AnswerKeepsKind
<1>7. \A kind \in Kinds : KindState(kind)'
  BY <1>5, <1>6
<1> QED BY <1>2, <1>7, SamePayments

LEMMA PaymentReplyKeeps ==
    ASSUME CallsInv, ScreenInv, PaymentState, PaymentReply
    PROVE  PaymentState'
<1>1. PICK c \in calls :
        fetchPaymentsFulfilled(c) \/ fetchPaymentSummaryFulfilled(c) \/ PaymentThunkRejected(c)
  BY DEF PaymentReply
<1>2. events \in Nat /\ events' = events /\ recorded' = recorded
  BY <1>1 DEF PaymentState, PaymentReply, fetchPaymentsFulfilled, fetchPaymentSummaryFulfilled,
     PaymentThunkRejected, Settle, Rejected
<1>3. CASE PaymentThunkRejected(c)
  <2>1. /\ calls' \subseteq calls
        /\ UNCHANGED <<loading, paymentLists, listOf, mixed, paymentsTab>>
    BY <1>3 DEF PaymentThunkRejected, Rejected, paymentPage
  <2>2. \A kind \in Kinds : KindState(kind)'
    BY <1>2, <2>1 DEF PaymentState, KindState, Fetching, Of
  <2> QED BY <1>2, <2>1, <2>2 DEF PaymentState
<1>4. SUFFICES ASSUME fetchPaymentsFulfilled(c) \/ fetchPaymentSummaryFulfilled(c)
               PROVE  PaymentState'
  BY <1>1, <1>3
<1>5. /\ c \in calls /\ Settle(c, {}) /\ c.todo = <<>> /\ c.reply # Error
      /\ UNCHANGED <<listOf, paymentsTab>>
  BY <1>4 DEF fetchPaymentsFulfilled, fetchPaymentSummaryFulfilled, Done, paymentPage
<1>10. loading' = loading \ {c.status}
  <2>1. loading' = (loading \ {c.status}) \cup Pending({})
    BY <1>5 DEF Settle
  <2>2. Pending({}) = {}
    BY DEF Pending, Followed
  <2> QED BY <2>1, <2>2
<1>6. SliceStep({c.thunk})
  BY <1>5, NoneSent DEF SliceStep, Of
<1>7. ASSUME NEW kind \in Kinds, c.thunk # ThunkOf(kind), paymentLists'[kind] = paymentLists[kind],
             kind \in mixed => kind \in mixed'
      PROVE  KindState(kind)'
  <2>1. StatusOf(kind) \in loading => StatusOf(kind) \in loading'
    BY <1>5, <1>7, <1>10, ListStatusOfLists
  <2>2. KindState(kind) /\ ThunkOf(kind) \notin {c.thunk}
        /\ UNCHANGED <<paymentLists[kind], listOf[kind], recorded>>
    BY <1>2, <1>5, <1>7 DEF PaymentState
  <2>3. KindLeft(kind)
    BY <1>2, <1>6, <1>7, <2>1, <2>2, CallElsewhere
  <2> QED BY <2>2, <2>3, KindStays
<1>8. CASE fetchPaymentSummaryFulfilled(c)
  <2>1. c.thunk = "fetchPaymentSummary" /\ UNCHANGED <<paymentLists, mixed>>
    BY <1>8 DEF fetchPaymentSummaryFulfilled, Done, paymentPage
  <2>2. \A kind \in Kinds : KindState(kind)'
    BY <1>7, <2>1, SummaryApart
  <2> QED BY <1>2, <1>5, <2>1, <2>2 DEF PaymentState
<1>9. CASE fetchPaymentsFulfilled(c)
  <2> DEFINE kind == KindOf(c)
  <2>1. /\ kind \in Kinds /\ c.thunk = ThunkOf(kind)
        /\ paymentLists' = [paymentLists EXCEPT ![kind] = @ \o c.reply]
        /\ mixed' = IF Strange(c) THEN mixed \cup {kind} ELSE mixed
    BY <1>9 DEF fetchPaymentsFulfilled, Done, KindOf, ThunkOf, Kinds
  <2>2. /\ paymentLists'[kind] = paymentLists[kind] \o c.reply /\ Listed(paymentLists')
        /\ \A k \in Kinds \ {kind} : paymentLists'[k] = paymentLists[k]
    BY <2>1 DEF PaymentState, Listed
  <2>3. c \in Of({ThunkOf(kind)})
    BY <1>5, <2>1 DEF Of
  <2>4. kind \notin mixed' => kind \notin mixed /\ c \in Fetching(kind)
    BY <2>1, <2>3 DEF Strange, Fetching
  <2> HIDE DEF kind
  <2>5. KindState(kind)'
    BY <1>2, <1>5, <2>1, <2>2, <2>3, <2>4, FulfilledKeepsKind DEF PaymentState
  <2>6. ASSUME NEW k \in Kinds, k # kind
        PROVE  KindState(k)'
    <3>1. c.thunk # ThunkOf(k)
      BY <2>1, <2>6, KindsApart
    <3>2. paymentLists'[k] = paymentLists[k] /\ (k \in mixed => k \in mixed')
      BY <2>1, <2>2, <2>6
    <3> QED BY <1>7, <3>1, <3>2
  <2> QED BY <1>2, <1>5, <2>2, <2>5, <2>6 DEF PaymentState, Listed
<1> QED BY <1>4, <1>8, <1>9

\* What the theorem about the lists of payments rests on.
PaymentInv == CallsInv /\ ScreenInv /\ PaymentState

LEMMA PaymentInvInit == Init => PaymentInv
<1> SUFFICES ASSUME Init
             PROVE  PaymentInv
  OBVIOUS
<1>1. calls = {} /\ events = 0 /\ CallsInv /\ ScreenInv
  BY DEF Init, ThunksInit, CallsInv, ScreenInv, ScreenBlockedByCall
<1>2. /\ recorded = [kind \in Kinds |-> 0] /\ paymentLists = [kind \in Kinds |-> <<>>]
      /\ listOf = [kind \in Kinds |-> [owner |-> None, since |-> 0]] /\ paymentsTab \in Kinds
  BY DEF Init, PaymentsInit, Kinds
<1>3. ASSUME NEW kind \in Kinds
      PROVE  KindState(kind)
  <2>1. 0 \in 0..Len(OwnersOf)
    <3>1. Len(OwnersOf) \in Nat
      BY PaymentsAssumption
    <3> QED BY <3>1
  <2>2. recorded[kind] = 0 /\ paymentLists[kind] = <<>> /\ paymentLists[kind] \in Seq(1..0)
    BY <1>2
  <2>3. Continues(<<>>, <<>>, listOf[kind].owner, 0)
    BY EmptyContinues
  <2>4. Of({ThunkOf(kind)}) = {} /\ Fetching(kind) = {}
    BY <1>1 DEF Of, Fetching
  <2> QED BY <2>1, <2>2, <2>3, <2>4 DEF KindState
<1> QED BY <1>1, <1>2, <1>3 DEF PaymentInv, PaymentState

\* A step of another slice, unless it is a logout.
LEMMA OtherSlicesTick ==
    ASSUME CallsInv, Squeaks \/ Profiles \/ Peers \/ Settings, calls' # {}
    PROVE  \E T : SliceStep(T) /\ Ticks(T) /\ T \cap PaymentThunks = {}
<1>1. /\ SqueakThunks \cap PaymentThunks = {} /\ ProfileThunks \cap PaymentThunks = {}
      /\ PeerThunks \cap PaymentThunks = {} /\ SettingsThunks \cap PaymentThunks = {}
  BY DEF SqueakThunks, ProfileThunks, PeerThunks, SettingsThunks, PaymentThunks
<1>2. CASE Squeaks
  BY <1>1, <1>2, SqueaksSliceStep, SqueaksTick DEF Squeaks
<1>3. CASE Profiles
  BY <1>1, <1>3, ProfilesSliceStep, ProfilesTick DEF Profiles
<1>4. CASE Peers
  BY <1>1, <1>4, PeersSliceStep, PeersTick DEF Peers
<1>5. CASE Settings
  BY <1>1, <1>5, SettingsSliceStep, SettingsTick DEF Settings
<1> QED BY <1>2, <1>3, <1>4, <1>5

LEMMA PaymentInvNext == PaymentInv /\ [Next]_vars => PaymentInv'
<1> SUFFICES ASSUME CallsInv, ScreenInv, PaymentState, [Next]_vars
             PROVE  PaymentState'
  BY CallsInvNext, ScreenInvNext DEF PaymentInv
<1>1. CASE Payments
  BY <1>1, PaymentUserKeeps, PaymentRecordedKeeps, PaymentServerKeeps, PaymentReplyKeeps
  DEF Payments
<1>2. ASSUME UNCHANGED paymentVars, events' \in {events, events + 1},
             \/ \E T : SliceStep(T) /\ Ticks(T) /\ T \cap PaymentThunks = {}
             \/ \E c \in calls : Lose(c)
             \/ UNCHANGED thunkVars
             \/ calls' = {}
      PROVE  PaymentState'
  <2>1. ASSUME NEW kind \in Kinds
        PROVE  KindState(kind)'
    <3>1. KindState(kind) /\ events \in Nat
      BY DEF PaymentState
    <3>2. CASE calls' = {}
      BY <1>2, <3>1, <3>2, KindAlone
    <3>3. CASE calls' # {}
      BY <1>2, <3>1, <3>3, OthersLeft, KindStays
    <3> QED BY <3>2, <3>3
  <2> QED BY <1>2, <2>1, SamePayments
<1>3. CASE (Squeaks \/ Profiles \/ Peers \/ Settings) /\ UNCHANGED paymentVars
  <2>1. events' \in {events, events + 1}
    BY <1>3, SqueaksTick, ProfilesTick, PeersTick, SettingsTick
    DEF Squeaks, Profiles, Peers, Settings, Ticks
  <2> QED BY <1>2, <1>3, <2>1, OtherSlicesTick
<1>4. CASE Lost
  <2>1. UNCHANGED paymentVars /\ events' = events
    BY <1>4 DEF Lost, Lose, butSqueaks
  <2> QED BY <1>2, <1>4, <2>1 DEF Lost
<1>5. CASE UNCHANGED vars
  BY <1>2, <1>5 DEF vars, thunkVars
<1> QED BY <1>1, <1>3, <1>4, <1>5 DEF Next, butSqueaks, butProfiles, butPeers, butSettings

LEMMA PaymentInvOrder == PaymentInv => PaymentListsInOrder
<1> SUFFICES ASSUME PaymentInv, NEW kind \in Kinds \ mixed
             PROVE  LET list == paymentLists[kind]
                        owner == listOf[kind].owner
                    IN  /\ \A i, j \in DOMAIN list : i < j => list[i] > list[j]
                        /\ list # <<>> => ToSet(list) =
                                {i \in Last(list)..Head(list) : Belongs(i, owner)}
  BY DEF PaymentListsInOrder
<1> DEFINE list == paymentLists[kind]
           owner == listOf[kind].owner
           top == recorded[kind]
<1>1. KindState(kind)
  BY DEF PaymentInv, PaymentState
<1>2. list \in Seq(1..top) /\ top \in Nat
  BY <1>1, TopOfKind DEF KindState
<1>3. Continues(<<>>, list, owner, top)
  BY <1>1 DEF KindState
<1> HIDE DEF list, owner, top
<1>4. DOMAIN list = 1..Len(list) /\ Len(list) \in Nat /\ \A i \in 1..Len(list) : list[i] \in 1..top
  BY <1>2
<1>5. \A i, j \in DOMAIN list : i < j => list[i] > list[j]
  BY <1>3, <1>4 DEF Continues, Descends
<1>6. ASSUME list # <<>>
      PROVE  ToSet(list) = {i \in Last(list)..Head(list) : Belongs(i, owner)}
  <2>1. /\ 1 \in 1..Len(list) /\ Len(list) \in 1..Len(list)
        /\ Head(list) = list[1] /\ Last(list) = list[Len(list)]
    BY <1>2, <1>4, <1>6 DEF Last
  <2>2. list[1] \in 1..top /\ list[Len(list)] \in 1..top
    BY <1>4, <2>1
  <2>3. ASSUME NEW k \in 1..Len(list)
        PROVE  list[k] \in list[Len(list)]..list[1] /\ Belongs(list[k], owner)
    <3>1. list[k] \in 1..top /\ Belongs(list[k], owner)
      BY <1>3, <1>4 DEF Continues
    <3>2. (k = 1 \/ list[1] > list[k]) /\ (k = Len(list) \/ list[k] > list[Len(list)])
      <4>0. ASSUME NEW n \in Nat, k \in 1..n
            PROVE  (k = 1 \/ 1 < k) /\ (k = n \/ k < n)
        BY <4>0
      <4>1. (k = 1 \/ 1 < k) /\ (k = Len(list) \/ k < Len(list))
        BY <1>4, <4>0
      <4> QED BY <1>4, <1>5, <2>1, <4>1
    <3> QED BY <2>2, <3>1, <3>2
  <2>4. ASSUME NEW x \in list[Len(list)]..list[1], Belongs(x, owner)
        PROVE  \E k \in 1..Len(list) : list[k] = x
    <3>1. x \in 1..top /\ list[Len(list)] <= x /\ x <= list[1]
      BY <1>2, <2>2
    <3> QED BY <1>3, <2>1, <2>4, <3>1 DEF Continues, InList
  <2>5. ToSet(list) = {list[k] : k \in 1..Len(list)}
    BY <1>4 DEF ToSet
  <2> QED BY <2>1, <2>3, <2>4, <2>5
<1> QED BY <1>5, <1>6 DEF list, owner
-----------------------------------------------------------------------------
(* The peers that are shown.                                               *)

PeerWriters == {"setSavePeer", "setDeletePeer"} \cup Switches

PeerSwitchings == {"enableAutoconnectPeer", "disableAutoconnectPeer"}

ReadAgain == <<"getSavedPeers", None>>

\* What is left of a change and of the reading of the list after it.
ChangingPeer(todo, change, arg) ==
    todo \in {<<<<change, arg>>, ReadAgain>>, <<ReadAgain>>, <<>>}

\* The node has made the change that the call is for.
Changed(c) == c.todo \in {<<ReadAgain>>, <<>>}

PeerRequests(c) ==
    /\ c.thunk = "fetchPeer" => Asking(c.todo, "getPeer", c.arg)
    /\ c.thunk = "fetchSavedPeers" => Asking(c.todo, "getSavedPeers", None)
    /\ c.thunk \in PeerWriters => c.writes
    /\ c.thunk = "setSavePeer" => c.arg \in Address /\ ChangingPeer(c.todo, "savePeer", c.arg)
    /\ c.thunk = "setDeletePeer" => \E id : ChangingPeer(c.todo, "deletePeer", id)
    /\ c.thunk \in Switches => \E change \in PeerSwitchings : ChangingPeer(c.todo, change, c.arg.id)

\* The page is that of an address, and nothing speaks against its peer.
PageFresh == peerRoute \in Address /\ "currentPeer" \notin peerAwaited \cup doubt

\* The peer that is saved for the page has the id.
PageRow(id) == PeerFor(peerRoute) # None /\ PeerFor(peerRoute).id = id

\* A call that no other one crossed: what it ends with is what the node has, and
\* one that changes a peer is about the one that the page of an address shows.
PeerTrue(c) ==
    /\ c.reply = Error => c.todo = <<>>
    /\ ~c.crossed /\ c.reply # Error =>
        /\ c.todo = <<>> /\ c.thunk = "fetchPeer" => c.reply = PeerFor(c.arg)
        /\ c.todo = <<>> /\ c.thunk \in PeerWriters \cup {"fetchSavedPeers"} => c.reply = SavedPeers
        /\ c.thunk = "setSavePeer" /\ Changed(c) => peers[c.arg] # None
        /\ PageFresh =>
            /\ c.thunk \in Switches => PageRow(c.arg.id)
            /\ c.thunk = "setDeletePeer" =>
                IF Changed(c) THEN PeerFor(peerRoute) = None ELSE PageRow(Argument(c))

PeerCalls == \A c \in Of(PeerThunks) : PeerRequests(c) /\ PeerTrue(c)

\* The fields hold what the node has, or a call that changes that is not over.
PeersFresh ==
    /\ \/ "savedPeers" \in peerAwaited \cup doubt
       \/ savedPeers = SavedPeers
       \/ \E c \in calls : c.thunk \in PeerWriters
    /\ \/ ~PageFresh
       \/ currentPeer = PeerFor(peerRoute)
       \/ \E c \in calls : c.thunk \in PeerWriters

PeerState == PeerCalls /\ PeersFresh

LEMMA PeersElsewhere ==
    ASSUME PeerState, Elsewhere(PeerThunks, PeerFields), UNCHANGED peerVars
    PROVE  PeerState'
<1>0. UNCHANGED <<peers, currentPeer, savedPeers, peerRoute, peerAwaited>>
  BY DEF peerVars, peerNode, peerFields
<1>1. SavedPeers' = SavedPeers /\ \A a : PeerFor(a)' = PeerFor(a)
  BY <1>0 DEF SavedPeers, PeerFor, WithHost
<1>2. (PageFresh' => PageFresh) /\ \A id : PageRow(id)' = PageRow(id)
  BY <1>0, <1>1 DEF PageFresh, PageRow, Elsewhere, PeerFields
<1>3. PeerCalls'
  <2> SUFFICES ASSUME NEW e \in calls', e.thunk \in PeerThunks
               PROVE  PeerRequests(e) /\ PeerTrue(e)'
    BY DEF PeerCalls, Of, PeerRequests, PeerTrue
  <2>1. PICK c \in calls : Heir(e, c) /\ (Waits(e, c) \/ (e.todo = <<>> /\ e.reply = Error))
    BY DEF Elsewhere
  <2>2. PeerRequests(c) /\ PeerTrue(c)
    BY <2>1 DEF PeerState, PeerCalls, Of, Heir
  <2>3. PeerRequests(e)
    BY <2>1, <2>2 DEF Heir, Waits, PeerRequests, Asking, ChangingPeer
  <2>4. PeerTrue(e)'
    BY <1>0, <1>1, <1>2, <2>1, <2>2 DEF Heir, Waits, PeerTrue, Changed, Argument
  <2> QED BY <2>3, <2>4
<1>4. (\E c \in calls : c.thunk \in PeerWriters) => \E c \in calls' : c.thunk \in PeerWriters
  BY DEF Elsewhere, Of, PeerThunks, PeerWriters, Switches, Heir
<1>5. PeersFresh'
  BY <1>0, <1>1, <1>2, <1>4 DEF PeersFresh, PeerState, Elsewhere, PeerFields
<1> QED BY <1>3, <1>5 DEF PeerState

\* The next request of a call that changes a peer.
LEMMA ChangingPeerNext ==
    ASSUME NEW c, NEW next, NEW change, NEW arg, ChangingPeer(c.todo, change, arg), At(c, next)
    PROVE  \/ /\ next = change /\ Argument(c) = arg
              /\ Tail(c.todo) = <<ReadAgain>> /\ ~Changed(c)
           \/ next = "getSavedPeers" /\ c.todo = <<ReadAgain>>
<1>1. CASE c.todo = <<<<change, arg>>, ReadAgain>>
  <2>1. Head(c.todo) = <<change, arg>> /\ Tail(c.todo) = <<ReadAgain>>
    BY <1>1, TwoLeft
  <2>2. Tail(<<ReadAgain>>) = <<>> /\ <<ReadAgain>> # <<>>
    BY OneLeft
  <2>3. ~Changed(c)
    BY <1>1, <2>1, <2>2 DEF Changed, At
  <2> QED BY <2>1, <2>3 DEF At, Argument
<1>2. CASE c.todo = <<ReadAgain>>
  <2>1. Head(c.todo) = ReadAgain
    BY <1>2, OneLeft
  <2> QED BY <1>2, <2>1 DEF At, ReadAgain
<1> QED BY <1>1, <1>2 DEF ChangingPeer, At

\* Which requests a call makes, and what is left of them then.
LEMMA PeerRequestsNext ==
    ASSUME NEW c, PeerRequests(c), c.thunk \in PeerThunks, NEW next, At(c, next)
    PROVE  \/ c.thunk = "fetchPeer" /\ next = "getPeer" /\ Argument(c) = c.arg
           \/ c.thunk = "fetchSavedPeers" /\ next = "getSavedPeers"
           \/ c.thunk \in PeerWriters /\ next = "getSavedPeers" /\ c.todo = <<ReadAgain>>
           \/ /\ c.thunk \in PeerWriters /\ Tail(c.todo) = <<ReadAgain>> /\ ~Changed(c)
              /\ \/ c.thunk = "setSavePeer" /\ next = "savePeer" /\ Argument(c) = c.arg
                 \/ c.thunk = "setDeletePeer" /\ next = "deletePeer"
                 \/ /\ c.thunk \in Switches /\ next \in PeerSwitchings
                    /\ Argument(c) = c.arg.id
<1>1. CASE c.thunk = "fetchPeer"
  BY <1>1, AskingNext DEF PeerRequests
<1>2. CASE c.thunk = "fetchSavedPeers"
  BY <1>2, AskingNext DEF PeerRequests
<1>3. CASE c.thunk = "setSavePeer"
  BY <1>3, ChangingPeerNext DEF PeerRequests, PeerWriters
<1>4. CASE c.thunk = "setDeletePeer"
  <2>1. PICK id : ChangingPeer(c.todo, "deletePeer", id)
    BY <1>4 DEF PeerRequests
  <2>2. \/ next = "deletePeer" /\ Tail(c.todo) = <<ReadAgain>> /\ ~Changed(c)
        \/ next = "getSavedPeers" /\ c.todo = <<ReadAgain>>
    BY <2>1, ChangingPeerNext
  <2>3. c.thunk \in PeerWriters
    BY <1>4 DEF PeerWriters
  <2> QED BY <1>4, <2>2, <2>3
<1>5. CASE c.thunk \in Switches
  <2>1. PICK change \in PeerSwitchings : ChangingPeer(c.todo, change, c.arg.id)
    BY <1>5 DEF PeerRequests
  <2>2. \/ /\ next = change /\ Argument(c) = c.arg.id
           /\ Tail(c.todo) = <<ReadAgain>> /\ ~Changed(c)
        \/ next = "getSavedPeers" /\ c.todo = <<ReadAgain>>
    BY <2>1, ChangingPeerNext
  <2>3. c.thunk \in PeerWriters
    BY <1>5 DEF PeerWriters
  <2> QED BY <1>5, <2>1, <2>2, <2>3
<1> QED BY <1>1, <1>2, <1>3, <1>4, <1>5 DEF PeerThunks, Switches

LEMMA PeerTodoNext ==
    ASSUME NEW c, PeerRequests(c), c.thunk \in PeerThunks, NEW next, At(c, next)
    PROVE  \/ next \in {"getPeer", "getSavedPeers"} /\ Tail(c.todo) = <<>>
           \/ c.thunk \in PeerWriters /\ Tail(c.todo) = <<ReadAgain>>
<1>1. CASE c.thunk \in {"fetchPeer", "fetchSavedPeers"}
  BY <1>1, AskingNext DEF PeerRequests
<1>2. CASE c.todo = <<ReadAgain>>
  <2>1. Tail(c.todo) = <<>> /\ Head(c.todo) = ReadAgain
    BY <1>2, OneLeft
  <2> QED BY <2>1 DEF At, ReadAgain
<1> QED BY <1>1, <1>2, PeerRequestsNext

\* What is left after it is what such a call may have left.
LEMMA PeerRequestsAfter ==
    ASSUME NEW c, PeerRequests(c), c.thunk \in PeerThunks, NEW next, At(c, next),
           NEW d, d.thunk = c.thunk, d.arg = c.arg, d.writes = c.writes, d.todo = Tail(c.todo)
    PROVE  PeerRequests(d)
<1>1. \A request, arg : Asking(<<>>, request, arg) /\ ChangingPeer(<<>>, request, arg)
                        /\ ChangingPeer(<<ReadAgain>>, request, arg)
  BY DEF Asking, ChangingPeer
<1>2. Tail(c.todo) = <<>> \/ (c.thunk \in PeerWriters /\ Tail(c.todo) = <<ReadAgain>>)
  BY PeerTodoNext
<1>3. c.thunk \in PeerWriters => c.thunk \notin {"fetchPeer", "fetchSavedPeers"}
  BY DEF PeerWriters, Switches
<1> QED BY <1>1, <1>2, <1>3 DEF PeerRequests, PeerSwitchings

\* A thunk that a page of peers dispatches, and the peer of the page that it is about.
PeerOpens(d) ==
    /\ PeerRequests(d) /\ d.todo # <<>> /\ (d.thunk \in PeerWriters => ~Changed(d))
    /\ PageFresh /\ currentPeer = PeerFor(peerRoute) =>
        /\ d.thunk \in Switches => PageRow(d.arg.id)
        /\ d.thunk = "setDeletePeer" => PageRow(Argument(d))

LEMMA TwoRequests ==
    ASSUME NEW x
    PROVE  /\ <<x, ReadAgain>> # <<>> /\ <<x, ReadAgain>> # <<ReadAgain>>
           /\ <<x>> # <<>>
<1>1. Tail(<<x, ReadAgain>>) = <<ReadAgain>> /\ Tail(<<ReadAgain>>) = <<>>
  BY OneLeft, TwoLeft
<1>2. <<ReadAgain>> # <<>> /\ <<x>> # <<>>
  BY OneLeft
<1>3. <<x, ReadAgain>> # <<ReadAgain>>
  BY <1>1, <1>2
<1>4. <<x, ReadAgain>> # <<>>
  OBVIOUS
<1> QED BY <1>2, <1>3, <1>4

LEMMA ReadsOpen ==
    ASSUME NEW a
    PROVE  PeerOpens(fetchPeer(a)) /\ PeerOpens(fetchSavedPeers)
<1>1. /\ fetchPeer(a).thunk = "fetchPeer" /\ fetchPeer(a).arg = a
      /\ fetchPeer(a).todo = <<<<"getPeer", a>>>>
  BY DEF fetchPeer, Read
<1>2. /\ fetchSavedPeers.thunk = "fetchSavedPeers"
      /\ fetchSavedPeers.todo = <<<<"getSavedPeers", None>>>>
  BY DEF fetchSavedPeers, Read
<1>3. <<<<"getPeer", a>>>> # <<>> /\ <<<<"getSavedPeers", None>>>> # <<>>
  BY OneLeft
<1> QED BY <1>1, <1>2, <1>3 DEF PeerOpens, PeerRequests, Asking, PeerWriters, Switches

LEMMA WritersOpen ==
    ASSUME NEW d, NEW thunk \in PeerWriters, NEW arg, NEW change, NEW of, NEW status,
           d = ChangePeers(thunk, arg, change, of, status),
           \/ thunk = "setSavePeer" /\ change = "savePeer" /\ of = arg /\ arg \in Address
           \/ thunk = "setDeletePeer" /\ change = "deletePeer"
           \/ thunk \in Switches /\ change \in PeerSwitchings /\ of = arg.id,
           thunk # "setSavePeer" /\ PageFresh /\ currentPeer = PeerFor(peerRoute) => PageRow(of)
    PROVE  PeerOpens(d)
<1>1. /\ d.thunk = thunk /\ d.arg = arg /\ d.writes = TRUE
      /\ d.todo = <<<<change, of>>, ReadAgain>>
  BY DEF ChangePeers, Write, ReadAgain
<1>2. d.todo # <<>> /\ ~Changed(d) /\ ChangingPeer(d.todo, change, of)
  BY <1>1, TwoRequests DEF Changed, ChangingPeer
<1>3. Head(d.todo) = <<change, of>>
  BY <1>1, TwoLeft
<1>4. Argument(d) = of
  BY <1>3 DEF Argument
<1>5. thunk \notin {"fetchPeer", "fetchSavedPeers"} /\ "setSavePeer" \notin Switches
      /\ "setDeletePeer" \notin Switches
  BY DEF PeerWriters, Switches
<1> QED BY <1>1, <1>2, <1>4, <1>5 DEF PeerOpens, PeerRequests

LEMMA PeerThunksOpen ==
    ASSUME PeerUser
    PROVE  \E d : Dispatch({d}) /\ PeerOpens(d) /\ d.thunk \in PeerThunks
<1> USE DEF PeerWriters, Switches, PeerSwitchings
<1>0. PeerWriters \subseteq PeerThunks /\ {"fetchPeer", "fetchSavedPeers"} \subseteq PeerThunks
  BY DEF PeerThunks
<1>1. ASSUME NEW a \in Address, OpenPeer(a)
      PROVE  \E d : Dispatch({d}) /\ PeerOpens(d) /\ d.thunk \in PeerThunks
  <2>1. fetchPeer(a).thunk \in PeerThunks
    BY <1>0 DEF fetchPeer, Read
  <2> QED BY <1>1, <2>1, ReadsOpen DEF OpenPeer
<1>2. CASE OpenPeers
  <2>1. fetchSavedPeers.thunk \in PeerThunks
    BY <1>0 DEF fetchSavedPeers, Read
  <2> QED BY <1>2, <2>1, ReadsOpen DEF OpenPeers
<1>3. \A thunk, arg, change, of, status :
            ChangePeers(thunk, arg, change, of, status).thunk = thunk
  BY DEF ChangePeers, Write
<1>4. ASSUME NEW a \in Address, AddPeer(a)
      PROVE  \E d : Dispatch({d}) /\ PeerOpens(d) /\ d.thunk \in PeerThunks
  <2>1. PeerOpens(setSavePeer(a)) /\ setSavePeer(a).thunk \in PeerThunks
    BY <1>0, <1>3, WritersOpen DEF setSavePeer
  <2> QED BY <1>4, <2>1 DEF AddPeer
<1>5. ASSUME NEW p, Toggle(p), PageFresh /\ currentPeer = PeerFor(peerRoute) => PageRow(p.id)
      PROVE  \E d : Dispatch({d}) /\ PeerOpens(d) /\ d.thunk \in PeerThunks
  <2>1. PeerOpens(setPeerAutoconnectEnabled(p)) /\ setPeerAutoconnectEnabled(p).thunk \in PeerThunks
    <3>1. setPeerAutoconnectEnabled(p) =
            ChangePeers("setPeerAutoconnectEnabled", p, "enableAutoconnectPeer", p.id, None)
      BY DEF setPeerAutoconnectEnabled
    <3>2. PeerOpens(setPeerAutoconnectEnabled(p))
      BY <1>5, <3>1, WritersOpen
    <3> QED BY <1>0, <1>3, <3>1, <3>2
  <2>2. PeerOpens(setPeerAutoconnectDisabled(p)) /\ setPeerAutoconnectDisabled(p).thunk \in PeerThunks
    <3>1. setPeerAutoconnectDisabled(p) =
            ChangePeers("setPeerAutoconnectDisabled", p, "disableAutoconnectPeer", p.id, None)
      BY DEF setPeerAutoconnectDisabled
    <3>2. PeerOpens(setPeerAutoconnectDisabled(p))
      BY <1>5, <3>1, WritersOpen
    <3> QED BY <1>0, <1>3, <3>1, <3>2
  <2> QED BY <1>5, <2>1, <2>2 DEF Toggle
<1>6. CASE ClickPeerSwitch
  BY <1>5, <1>6 DEF ClickPeerSwitch, PageRow
<1>7. ASSUME NEW p, ClickPeerCardSwitch(p)
      PROVE  \E d : Dispatch({d}) /\ PeerOpens(d) /\ d.thunk \in PeerThunks
  <2>1. ~PageFresh
    BY <1>7, PeersAssumption DEF ClickPeerCardSwitch, PageFresh
  <2> QED BY <1>5, <1>7, <2>1 DEF ClickPeerCardSwitch
<1>8. CASE ClickDeletePeer
  <2>1. PageFresh /\ currentPeer = PeerFor(peerRoute) => PageRow(currentPeer.id)
    BY <1>8 DEF ClickDeletePeer, PageRow
  <2>2. PeerOpens(setDeletePeer(currentPeer)) /\ setDeletePeer(currentPeer).thunk \in PeerThunks
    BY <1>0, <1>3, <2>1, WritersOpen DEF setDeletePeer
  <2> QED BY <1>8, <2>2 DEF ClickDeletePeer
<1> QED BY <1>1, <1>2, <1>4, <1>6, <1>7, <1>8 DEF PeerUser

\* An act of the user: a call that is not crossed finds no other one that changes
\* a peer, what is fresh is what the node has then.
LEMMA PeerUserKeeps ==
    ASSUME CallsInv, PeerState, PeerUser
    PROVE  PeerState'
<1>1. PICK d : Dispatch({d}) /\ PeerOpens(d) /\ d.thunk \in PeerThunks
  BY PeerThunksOpen
<1> PICK new : new = Started(d, events + 1, calls)
  OBVIOUS
<1>2. /\ \A e \in calls' : (\E c \in calls : Waits(e, c)) \/ e = new
      /\ \A c \in calls : \E e \in calls' : Waits(e, c)
  BY <1>1, DispatchOne
<1>3. /\ UNCHANGED <<peers, currentPeer, savedPeers, doubt>>
      /\ peerAwaited \subseteq peerAwaited'
      /\ peerRoute' = peerRoute \/ peerRoute' \notin Address \/ "currentPeer" \in peerAwaited'
  BY PeersAssumption DEF PeerUser, OpenPeer, AddPeer, OpenPeers, ClickPeerSwitch, ClickDeletePeer,
     ClickPeerCardSwitch, peerVars, peerNode, peerFields
<1>4. SavedPeers' = SavedPeers /\ (\A a : PeerFor(a)' = PeerFor(a))
  BY <1>3 DEF SavedPeers, PeerFor, WithHost
<1>5. PageFresh' => PageFresh /\ peerRoute' = peerRoute
  BY <1>3 DEF PageFresh
<1>6. PageFresh' => \A id : PageRow(id)' = PageRow(id)
  BY <1>4, <1>5 DEF PageRow
<1>7. /\ new.thunk = d.thunk /\ new.arg = d.arg /\ new.todo = d.todo /\ new.writes = d.writes
      /\ new.crossed = (\E c \in calls : c.writes)
      /\ new.reply = None
  BY DEF Started
<1>8. PeerRequests(new)
  BY <1>1, <1>7 DEF PeerOpens, PeerRequests
<1>9. PeerTrue(new)'
  <2> SUFFICES ASSUME ~new.crossed
               PROVE  /\ new.todo # <<>> /\ (new.thunk \in PeerWriters => ~Changed(new))
                      /\ PageFresh' =>
                            /\ new.thunk \in Switches => PageRow(new.arg.id)
                            /\ new.thunk = "setDeletePeer" => PageRow(Argument(new))
    BY <1>6, <1>7, ThunksAssumption DEF PeerTrue, PeerWriters, Switches
  <2>1. \A c \in calls : c.thunk \notin PeerWriters
    <3> SUFFICES ASSUME NEW c \in calls, c.thunk \in PeerWriters
                 PROVE  c.writes
      BY <1>7
    <3>1. c.thunk \in PeerThunks
      BY DEF PeerWriters, Switches, PeerThunks
    <3> QED BY <3>1 DEF PeerState, PeerCalls, Of, PeerRequests
  <2>2. PageFresh => currentPeer = PeerFor(peerRoute)
    BY <2>1 DEF PeerState, PeersFresh
  <2> QED BY <1>1, <1>5, <1>7, <2>2 DEF PeerOpens, Changed, Argument
<1>10. PeerCalls'
  <2> SUFFICES ASSUME NEW e \in calls', e.thunk \in PeerThunks, e # new
               PROVE  PeerRequests(e) /\ PeerTrue(e)'
    BY <1>8, <1>9 DEF PeerCalls, Of, PeerRequests, PeerTrue
  <2>1. PICK c \in calls : Waits(e, c)
    BY <1>2
  <2>2. PeerRequests(c) /\ PeerTrue(c)
    BY <2>1 DEF PeerState, PeerCalls, Of, Waits, Heir
  <2>3. PeerRequests(e)
    BY <2>1, <2>2 DEF Heir, Waits, PeerRequests
  <2>4. PeerTrue(e)'
    BY <1>3, <1>4, <1>5, <1>6, <2>1, <2>2 DEF Heir, Waits, PeerTrue, Changed, Argument
  <2> QED BY <2>3, <2>4
<1>11. PeersFresh'
  BY <1>2, <1>3, <1>4, <1>5 DEF PeersFresh, PeerState, Waits, Heir
<1> QED BY <1>10, <1>11 DEF PeerState

\* The node refuses: what it has stays, the call is not over.
LEMMA PeersRefused ==
    ASSUME CallsInv, PeerState, NEW c \in Of(PeerThunks), Refuse(c), UNCHANGED <<peerVars, doubt>>
    PROVE  PeerState'
<1>1. GoesOn(c, <<>>, Error)
  BY CallsWhole, RefuseHeirs DEF Of
<1>2. Elsewhere(PeerThunks, PeerFields)
  BY <1>1 DEF GoesOn, Elsewhere, Waits, Heir, Of
<1> QED BY <1>2, PeersElsewhere

\* The node is read.
LEMMA PeersRead ==
    ASSUME CallsInv, PeerState, NEW c \in Of(PeerThunks), NEW next, At(c, next),
           next \in {"getPeer", "getSavedPeers"}, NEW reply, Answer(c, reply),
           next = "getPeer" => reply = PeerFor(Argument(c)),
           next = "getSavedPeers" => reply = SavedPeers,
           UNCHANGED <<peers, currentPeer, savedPeers, peerRoute, peerAwaited, doubt>>
    PROVE  PeerState'
<1>1. /\ c \in calls /\ c.thunk \in PeerThunks
      /\ PeerRequests(c) /\ PeerTrue(c)
  BY DEF Of, PeerState, PeerCalls
<1>2. PICK d : /\ Heir(d, c) /\ d.todo = Tail(c.todo) /\ d.reply = reply
               /\ calls' = (calls \ {c}) \cup {d}
  BY <1>1, CallsWhole, AnswerHeirs DEF GoesOn
<1>3. SavedPeers' = SavedPeers /\ (\A a : PeerFor(a)' = PeerFor(a))
  BY DEF SavedPeers, PeerFor, WithHost
<1>4. PageFresh' = PageFresh /\ \A id : PageRow(id)' = PageRow(id)
  BY <1>3 DEF PageFresh, PageRow
<1>5. \/ c.thunk = "fetchPeer" /\ next = "getPeer" /\ Argument(c) = c.arg
      \/ c.thunk = "fetchSavedPeers" /\ next = "getSavedPeers"
      \/ c.thunk \in PeerWriters /\ next = "getSavedPeers" /\ c.todo = <<ReadAgain>>
  <2>1. next \notin {"savePeer", "deletePeer"} \cup PeerSwitchings
    BY DEF PeerSwitchings
  <2> QED BY <1>1, <2>1, PeerRequestsNext
<1>6. d.todo = <<>>
  <2>1. Tail(c.todo) # <<ReadAgain>>
    <3>1. c.todo = <<ReadAgain>> => Tail(c.todo) = <<>>
      BY OneLeft
    <3>2. c.thunk \in {"fetchPeer", "fetchSavedPeers"} => Tail(c.todo) = <<>>
      BY <1>1, AskingNext DEF PeerRequests
    <3>3. <<ReadAgain>> # <<>>
      BY OneLeft
    <3> QED BY <1>5, <3>1, <3>2, <3>3
  <2> QED BY <1>1, <1>2, <2>1, PeerTodoNext
<1>7. PeerRequests(d)
  BY <1>1, <1>2, PeerRequestsAfter DEF Heir
<1>8. c.reply # Error
  BY <1>1 DEF PeerTrue, At
<1>9. PeerTrue(d)'
  <2> SUFFICES ASSUME ~d.crossed
               PROVE  PeerTrue(d)'
    BY <1>6 DEF PeerTrue
  <2>1. ~c.crossed /\ d.thunk = c.thunk /\ d.arg = c.arg
    BY <1>2 DEF Heir
  <2>2. "fetchPeer" \notin PeerWriters \cup {"fetchSavedPeers"} /\ "fetchSavedPeers" \notin PeerWriters
    BY DEF PeerWriters, Switches
  <2>3. "setSavePeer" \in PeerWriters /\ "setDeletePeer" \in PeerWriters
    BY DEF PeerWriters
  <2>4. d.thunk = "fetchPeer" => d.reply = PeerFor(d.arg)'
    BY <1>2, <1>3, <1>5, <2>1, <2>2
  <2>5. d.thunk \in PeerWriters \cup {"fetchSavedPeers"} => d.reply = SavedPeers'
    BY <1>2, <1>3, <1>5, <2>1, <2>2
  <2>6. c.thunk \in PeerWriters => Changed(c)
    BY <1>5, <2>2 DEF Changed
  <2>7. d.thunk = "setSavePeer" => peers'[d.arg] # None
    BY <1>1, <1>8, <2>1, <2>3, <2>6 DEF PeerTrue
  <2>8. PageFresh' => /\ d.thunk \in Switches => PageRow(d.arg.id)'
                      /\ d.thunk = "setDeletePeer" => PeerFor(peerRoute)' = None
    <3>1. PeerFor(peerRoute)' = PeerFor(peerRoute)
      BY <1>3
    <3> QED BY <1>1, <1>4, <1>8, <2>1, <2>3, <2>6, <3>1 DEF PeerTrue
  <2>9. Changed(d)
    BY <1>6 DEF Changed
  <2> QED BY <1>6, <2>4, <2>5, <2>7, <2>8, <2>9 DEF PeerTrue
<1>10. PeerCalls'
  <2> SUFFICES ASSUME NEW e \in calls', e.thunk \in PeerThunks, e # d
               PROVE  PeerRequests(e) /\ PeerTrue(e)'
    BY <1>7, <1>9 DEF PeerCalls, Of, PeerRequests, PeerTrue
  <2>1. PeerRequests(e) /\ PeerTrue(e)
    BY <1>2 DEF PeerState, PeerCalls, Of
  <2>2. PeerFor(peerRoute)' = PeerFor(peerRoute)
    BY <1>3
  <2> QED BY <1>3, <1>4, <2>1, <2>2 DEF PeerTrue
<1>11. PeersFresh'
  <2>1. (\E b \in calls : b.thunk \in PeerWriters) => \E e \in calls' : e.thunk \in PeerWriters
    BY <1>2 DEF Heir
  <2>2. PeerFor(peerRoute)' = PeerFor(peerRoute)
    BY <1>3
  <2> QED BY <1>3, <1>4, <2>1, <2>2 DEF PeersFresh, PeerState
<1> QED BY <1>10, <1>11 DEF PeerState

\* The node changes: the call that does it is not over, and has crossed all others.
LEMMA PeersChanged ==
    ASSUME CallsInv, CrossInv, PeerState, NEW c \in Of(PeerThunks), NEW next, At(c, next),
           next \in {"savePeer", "deletePeer"} \cup PeerSwitchings, Answer(c, None),
           UNCHANGED <<currentPeer, savedPeers, peerRoute, peerAwaited, doubt>>,
           next = "savePeer" => peers'[Argument(c)] # None,
           next = "deletePeer" /\ PageFresh /\ PageRow(Argument(c)) => PeerFor(peerRoute)' = None,
           next \in PeerSwitchings /\ PageFresh /\ PageRow(Argument(c)) => PageRow(Argument(c))'
    PROVE  PeerState'
<1>1. /\ c \in calls /\ c.thunk \in PeerThunks
      /\ PeerRequests(c) /\ PeerTrue(c)
  BY DEF Of, PeerState, PeerCalls
<1>2. PICK d : /\ Heir(d, c) /\ d.todo = Tail(c.todo) /\ d.reply = None
               /\ calls' = (calls \ {c}) \cup {d}
  BY <1>1, CallsWhole, AnswerHeirs DEF GoesOn
<1>3. /\ c.thunk \in PeerWriters /\ Tail(c.todo) = <<ReadAgain>> /\ ~Changed(c)
      /\ \/ c.thunk = "setSavePeer" /\ next = "savePeer" /\ Argument(c) = c.arg
         \/ c.thunk = "setDeletePeer" /\ next = "deletePeer"
         \/ c.thunk \in Switches /\ next \in PeerSwitchings /\ Argument(c) = c.arg.id
  <2>1. next \notin {"getPeer", "getSavedPeers"}
    BY DEF PeerSwitchings
  <2> QED BY <1>1, <2>1, PeerRequestsNext
<1>4. c.writes /\ d.thunk = c.thunk /\ d.arg = c.arg /\ (~d.crossed => ~c.crossed)
  BY <1>1, <1>2, <1>3 DEF PeerRequests, Heir
<1>5. d.todo = <<ReadAgain>> /\ d.todo # <<>> /\ d.reply # Error
  <2>1. <<ReadAgain>> # <<>>
    BY OneLeft
  <2> QED BY <1>2, <1>3, <2>1, ThunksAssumption
<1>6. PageFresh' = PageFresh /\ c.reply # Error
  BY <1>1 DEF PageFresh, PeerTrue, At
<1>7. PeerRequests(d)
  BY <1>1, <1>2, PeerRequestsAfter DEF Heir
<1>8. PeerTrue(d)'
  <2> SUFFICES ASSUME ~d.crossed
               PROVE  PeerTrue(d)'
    BY <1>5 DEF PeerTrue
  <2>1. Changed(d)
    BY <1>5 DEF Changed
  <2>2. "savePeer" \notin PeerSwitchings /\ "deletePeer" \notin PeerSwitchings
        /\ "setSavePeer" \notin Switches /\ "setDeletePeer" \notin Switches
    BY DEF PeerSwitchings, Switches
  <2>3. d.thunk = "setSavePeer" => peers'[d.arg] # None
    BY <1>3, <1>4, <2>2
  <2>4. PageFresh' /\ d.thunk \in Switches => PageRow(d.arg.id)'
    <3> SUFFICES ASSUME PageFresh, c.thunk \in Switches
                 PROVE  PageRow(c.arg.id)'
      BY <1>4, <1>6
    <3>1. PageRow(c.arg.id)
      BY <1>1, <1>4, <1>6 DEF PeerTrue
    <3> QED BY <1>3, <2>2, <3>1
  <2>5. PageFresh' /\ d.thunk = "setDeletePeer" => PeerFor(peerRoute)' = None
    <3>1. PageFresh /\ c.thunk = "setDeletePeer" => PageRow(Argument(c))
      BY <1>1, <1>3, <1>4, <1>6 DEF PeerTrue
    <3> QED BY <1>3, <1>4, <1>6, <2>2, <3>1
  <2> QED BY <1>5, <2>1, <2>3, <2>4, <2>5 DEF PeerTrue
<1>9. PeerCalls'
  <2> SUFFICES ASSUME NEW e \in calls', e.thunk \in PeerThunks, e # d
               PROVE  PeerRequests(e) /\ PeerTrue(e)'
    BY <1>7, <1>8 DEF PeerCalls, Of, PeerRequests, PeerTrue
  <2>1. e \in calls /\ e # c /\ PeerRequests(e) /\ PeerTrue(e)
    BY <1>2 DEF PeerState, PeerCalls, Of
  <2>2. e.crossed
    BY <1>1, <1>4, <2>1 DEF CrossInv
  <2> QED BY <2>1, <2>2 DEF PeerTrue
<1>10. PeersFresh'
  BY <1>2, <1>3, <1>4 DEF PeersFresh
<1> QED BY <1>9, <1>10 DEF PeerState

\* The peer of an address is the one that is saved with its host.
LEMMA PeerForHost ==
    ASSUME PeersInv, NEW a \in Address, NEW b \in Address, peers[b] # None, HostOf[b] = HostOf[a]
    PROVE  PeerFor(a) = peers[b] /\ \A x \in Address : peers[x] # None /\ HostOf[x] = HostOf[a] => x = b
<1>1. \A x \in Address : peers[x] # None /\ HostOf[x] = HostOf[a] => x = b
  BY DEF PeersInv
<1>2. WithHost(a) = {peers[b]}
  BY <1>1 DEF WithHost, SavedPeers, PeersInv
<1> QED BY <1>1, <1>2 DEF PeerFor

LEMMA PeerOfPage ==
    ASSUME PeersInv, peerRoute \in Address, NEW id, PageRow(id)
    PROVE  \E b \in Address :
                /\ peers[b] # None /\ HostOf[b] = HostOf[peerRoute]
                /\ peers[b] = PeerFor(peerRoute) /\ peers[b].id = id
                /\ \A x \in Address : peers[x] # None /\ HostOf[x] = HostOf[peerRoute] => x = b
<1>1. WithHost(peerRoute) # {}
  BY DEF PageRow, PeerFor
<1>2. PICK b \in Address : peers[b] # None /\ HostOf[b] = HostOf[peerRoute]
  BY <1>1 DEF WithHost, SavedPeers, PeersInv
<1>3. /\ PeerFor(peerRoute) = peers[b]
      /\ \A x \in Address : peers[x] # None /\ HostOf[x] = HostOf[peerRoute] => x = b
  BY <1>2, PeerForHost
<1> QED BY <1>2, <1>3 DEF PageRow

LEMMA SavedThen ==
    ASSUME PeersInv, NEW c, savePeer(c), Argument(c) \in Address
    PROVE  \/ Refuse(c) /\ UNCHANGED peerNode
           \/ Answer(c, None) /\ peers'[Argument(c)] # None
<1> DEFINE new == [id |-> peersMade + 1, address |-> Argument(c), autoconnect |-> TRUE]
<1>1. new \in PeerEntry
  BY DEF PeersInv, PeerEntry
<1>2. new # None
  BY <1>1, PeersAssumption
<1>3. \/ Refuse(c) /\ UNCHANGED peerNode
      \/ Answer(c, None) /\ peers' = [peers EXCEPT ![Argument(c)] = new]
  BY DEF savePeer
<1> HIDE DEF new
<1> QED BY <1>2, <1>3 DEF PeersInv

LEMMA DeletedThen ==
    ASSUME PeersInv, NEW c, deletePeer(c), peerRoute' = peerRoute, peerRoute \in Address,
           PageRow(Argument(c))
    PROVE  PeerFor(peerRoute)' = None
<1>1. PICK b \in Address :
        /\ peers[b] # None /\ peers[b].id = Argument(c)
        /\ \A x \in Address : peers[x] # None /\ HostOf[x] = HostOf[peerRoute] => x = b
  BY PeerOfPage
<1>2. \A x \in Address : peers'[x] # None => peers[x] # None /\ peers'[x] = peers[x] /\ x # b
  BY <1>1 DEF deletePeer
<1>3. WithHost(peerRoute)' = {}
  BY <1>1, <1>2 DEF WithHost, SavedPeers, PeersInv
<1> QED BY <1>3 DEF PeerFor

LEMMA SwitchedThen ==
    ASSUME PeersInv, NEW id, NEW on \in BOOLEAN, SetAutoconnect(id, on), peerRoute' = peerRoute,
           peerRoute \in Address, PageRow(id)
    PROVE  PageRow(id)'
<1>1. PICK b \in Address :
        /\ peers[b] # None /\ HostOf[b] = HostOf[peerRoute] /\ peers[b].id = id
        /\ \A x \in Address : peers[x] # None /\ HostOf[x] = HostOf[peerRoute] => x = b
  BY PeerOfPage
<1>2. \A x \in Address : peers[x] # None =>
        /\ [peers[x] EXCEPT !.autoconnect = on] \in PeerEntry
        /\ [peers[x] EXCEPT !.autoconnect = on].id = peers[x].id
        /\ [peers[x] EXCEPT !.autoconnect = on].address = peers[x].address
  BY DEF PeersInv, PeerEntry
<1>3. \A x \in Address :
        /\ peers[x] # None => peers'[x] # None
        /\ peers'[x] # None =>
                /\ peers[x] # None /\ peers'[x].id = peers[x].id
                /\ peers'[x].address = peers[x].address
  BY <1>2, PeersAssumption DEF SetAutoconnect
<1>4. \A x \in Address : peers[x] # None => peers[x].address = x
  BY DEF PeersInv
<1>5. WithHost(peerRoute)' = {peers'[b]}
  BY <1>1, <1>3, <1>4 DEF WithHost, SavedPeers
<1>6. PeerFor(peerRoute)' = peers'[b]
  BY <1>5 DEF PeerFor
<1> QED BY <1>1, <1>3, <1>6 DEF PageRow

LEMMA PeerServerKeeps ==
    ASSUME CallsInv, CrossInv, PeersInv, PeerState, PeerServer
    PROVE  PeerState'
<1>1. PICK c \in Of(PeerThunks) :
        \/ getPeer(c) \/ getSavedPeers(c) \/ savePeer(c) \/ deletePeer(c)
        \/ enableAutoconnectPeer(c) \/ disableAutoconnectPeer(c)
  BY DEF PeerServer
<1>2. UNCHANGED <<currentPeer, savedPeers, peerRoute, peerAwaited, doubt>>
  BY DEF PeerServer, peerFields
<1>3. CASE getPeer(c) \/ getSavedPeers(c)
  BY <1>2, <1>3, PeersRead DEF getPeer, getSavedPeers, peerNode
<1>4. CASE savePeer(c)
  <2>1. At(c, "savePeer") /\ PeerRequests(c) /\ c.thunk \in PeerThunks
    BY <1>4 DEF savePeer, PeerState, PeerCalls, Of
  <2>2. Argument(c) \in Address
    <3>1. "savePeer" \notin {"getPeer", "getSavedPeers", "deletePeer"} \cup PeerSwitchings
      BY DEF PeerSwitchings
    <3>2. c.thunk = "setSavePeer" /\ Argument(c) = c.arg
      BY <2>1, <3>1, PeerRequestsNext
    <3> QED BY <2>1, <3>2 DEF PeerRequests
  <2>3. CASE Refuse(c) /\ UNCHANGED peerNode
    BY <1>2, <2>3, PeersRefused DEF peerVars, peerFields
  <2>4. CASE Answer(c, None) /\ peers'[Argument(c)] # None
    <3>1. "savePeer" # "deletePeer" /\ "savePeer" \notin PeerSwitchings
      BY DEF PeerSwitchings
    <3> QED BY <1>2, <2>1, <2>4, <3>1, PeersChanged
  <2> QED BY <1>4, <2>2, <2>3, <2>4, SavedThen
<1>5. CASE deletePeer(c)
  <2>1. PageFresh /\ PageRow(Argument(c)) => PeerFor(peerRoute)' = None
    BY <1>2, <1>5, DeletedThen DEF PageFresh
  <2>2. At(c, "deletePeer") /\ Answer(c, None)
    BY <1>5 DEF deletePeer
  <2>3. "deletePeer" # "savePeer" /\ "deletePeer" \notin PeerSwitchings
    BY DEF PeerSwitchings
  <2> QED BY <1>2, <2>1, <2>2, <2>3, PeersChanged
<1>6. ASSUME NEW next \in PeerSwitchings, NEW on \in BOOLEAN, At(c, next),
             SetAutoconnect(Argument(c), on), Answer(c, None)
      PROVE  PeerState'
  <2>1. PICK id : id = Argument(c)
    OBVIOUS
  <2>2. PageFresh /\ PageRow(id) => PageRow(id)'
    BY <1>2, <1>6, <2>1, SwitchedThen DEF PageFresh
  <2>3. Argument(c)' = id
    BY <2>1 DEF Argument
  <2>4. next \notin {"savePeer", "deletePeer"}
    BY <1>6 DEF PeerSwitchings
  <2>5. PageFresh /\ PageRow(Argument(c)) => PageRow(Argument(c))'
    BY <2>1, <2>2, <2>3
  <2> QED BY <1>2, <1>6, <2>4, <2>5, PeersChanged
<1>7. CASE enableAutoconnectPeer(c)
  <2>1. "enableAutoconnectPeer" \in PeerSwitchings
    BY DEF PeerSwitchings
  <2> QED BY <1>6, <1>7, <2>1 DEF enableAutoconnectPeer
<1>8. CASE disableAutoconnectPeer(c)
  <2>1. "disableAutoconnectPeer" \in PeerSwitchings
    BY DEF PeerSwitchings
  <2> QED BY <1>6, <1>8, <2>1 DEF disableAutoconnectPeer
<1> QED BY <1>1, <1>3, <1>4, <1>5, <1>7, <1>8

LEMMA AloneUncrossed ==
    ASSUME CrossInv, PeerState, NEW c \in calls, ~c.crossed
    PROVE  \A b \in calls \ {c} : b.thunk \notin PeerWriters
<1> SUFFICES ASSUME NEW b \in calls \ {c}, b.thunk \in PeerWriters
             PROVE  FALSE
  OBVIOUS
<1>1. b.thunk \in PeerThunks
  BY DEF PeerWriters, Switches, PeerThunks
<1>2. b.writes
  BY <1>1 DEF PeerState, PeerCalls, Of, PeerRequests
<1> QED BY <1>2 DEF CrossInv

\* The calls that are left when one ends: the peer of the page gets no fresher
\* while one of them changes a peer.
LEMMA PeerCallsEnd ==
    ASSUME PeerState, NEW c \in calls, Ends(c), UNCHANGED <<peers, peerRoute>>,
           PageFresh' => PageFresh \/ \A b \in calls \ {c} : b.thunk \notin PeerWriters
    PROVE  PeerCalls'
<1>1. SavedPeers' = SavedPeers /\ (\A a : PeerFor(a)' = PeerFor(a))
  BY DEF SavedPeers, PeerFor, WithHost
<1>2. PeerFor(peerRoute)' = PeerFor(peerRoute) /\ \A id : PageRow(id)' = PageRow(id)
  BY <1>1 DEF PageRow
<1> SUFFICES ASSUME NEW e \in calls', e.thunk \in PeerThunks
             PROVE  PeerRequests(e) /\ PeerTrue(e)'
  BY DEF PeerCalls, Of, PeerRequests, PeerTrue
<1>3. PICK b \in calls \ {c} : Waits(e, b)
  BY DEF Ends
<1>4. PeerRequests(b) /\ PeerTrue(b)
  BY <1>3 DEF PeerState, PeerCalls, Of, Waits, Heir
<1>5. PeerRequests(e)
  BY <1>3, <1>4 DEF Heir, Waits, PeerRequests
<1>6. PageFresh' /\ e.thunk \in PeerWriters => PageFresh
  BY <1>3 DEF Waits, Heir
<1>7. "setDeletePeer" \in PeerWriters /\ Switches \subseteq PeerWriters
  BY DEF PeerWriters
<1>8. PeerTrue(e)'
  BY <1>1, <1>2, <1>3, <1>4, <1>6, <1>7 DEF Heir, Waits, PeerTrue, Changed, Argument
<1> QED BY <1>5, <1>8

LEMMA PeerReplyKeeps ==
    ASSUME CallsInv, CrossInv, PeersInv, PeerState, PeerReply
    PROVE  PeerState'
<1>1. PICK c \in calls :
        \/ fetchPeerFulfilled(c) \/ fetchSavedPeersFulfilled(c) \/ setSavePeerFulfilled(c)
        \/ setDeletePeerFulfilled(c) \/ setPeerAutoconnectFulfilled(c)
        \/ PeerThunkRejected(c)
  BY DEF PeerReply
<1>2. peers' = peers /\ peerRoute' = peerRoute
  BY <1>1 DEF PeerReply, peerNode, fetchPeerFulfilled, fetchSavedPeersFulfilled,
     setSavePeerFulfilled, setDeletePeerFulfilled, setPeerAutoconnectFulfilled, PeerThunkRejected
<1>3. SavedPeers' = SavedPeers /\ PeerFor(peerRoute)' = PeerFor(peerRoute)
  BY <1>2 DEF SavedPeers, PeerFor, WithHost
<1>4. Ends(c) /\ c.thunk \in PeerThunks
  BY <1>1, SettleEnds, RejectedEnds DEF fetchPeerFulfilled, fetchSavedPeersFulfilled,
     setSavePeerFulfilled, setDeletePeerFulfilled, setPeerAutoconnectFulfilled,
     PeerThunkRejected, Done, PeerThunks
<1>5. PeerRequests(c) /\ PeerTrue(c)
  BY <1>4 DEF PeerState, PeerCalls, Of
<1>6. ~c.crossed => \A b \in calls \ {c} : b.thunk \notin PeerWriters
  BY AloneUncrossed
<1>7. (\E b \in calls \ {c} : b.thunk \in PeerWriters) => \E e \in calls' : e.thunk \in PeerWriters
  BY <1>4 DEF Ends, Waits, Heir
<1>8. ASSUME PageFresh' => PageFresh \/ ~c.crossed
      PROVE  PeerCalls'
  BY <1>2, <1>4, <1>6, <1>8, PeerCallsEnd
<1>9. CASE fetchPeerFulfilled(c)
  <2>1. c.thunk = "fetchPeer" /\ c.todo = <<>> /\ c.reply # Error
    BY <1>9 DEF fetchPeerFulfilled, Done
  <2>2. PageFresh' => ~c.crossed /\ OfPage(c.arg)
    BY <1>2, <1>9 DEF fetchPeerFulfilled, PeerArrives, PageFresh, OfPage
  <2>3. PageFresh' => currentPeer' = PeerFor(peerRoute)'
    <3> SUFFICES ASSUME ~c.crossed, OfPage(c.arg)
                 PROVE  currentPeer' = PeerFor(peerRoute)
      BY <1>3, <2>2
    <3>1. currentPeer' = PeerFor(c.arg)
      BY <1>5, <1>9, <2>1 DEF PeerTrue, fetchPeerFulfilled
    <3>2. WithHost(c.arg) = WithHost(peerRoute)
      BY DEF OfPage, WithHost
    <3> QED BY <3>1, <3>2 DEF PeerFor
  <2>4. /\ savedPeers' = savedPeers
        /\ "savedPeers" \in peerAwaited \cup doubt => "savedPeers" \in peerAwaited' \cup doubt'
    BY <1>9 DEF fetchPeerFulfilled, PeerArrives
  <2>5. c.thunk \notin PeerWriters
    BY <2>1 DEF PeerWriters, Switches
  <2>6. PeersFresh'
    BY <1>3, <1>7, <2>3, <2>4, <2>5 DEF PeersFresh, PeerState
  <2> QED BY <1>8, <2>2, <2>6 DEF PeerState
<1>10. CASE fetchSavedPeersFulfilled(c)
  <2>1. c.thunk = "fetchSavedPeers" /\ c.todo = <<>> /\ c.reply # Error
    BY <1>10 DEF fetchSavedPeersFulfilled, Done
  <2>2. "savedPeers" \in doubt' \/ savedPeers' = SavedPeers'
    BY <1>3, <1>5, <1>10, <2>1 DEF PeerTrue, fetchSavedPeersFulfilled
  <2>3. PageFresh' = PageFresh /\ currentPeer' = currentPeer
    BY <1>2, <1>10 DEF fetchSavedPeersFulfilled, PageFresh
  <2>4. c.thunk \notin PeerWriters
    BY <2>1 DEF PeerWriters, Switches
  <2>5. PeersFresh'
    BY <1>3, <1>7, <2>2, <2>3, <2>4 DEF PeersFresh, PeerState
  <2> QED BY <1>8, <2>3, <2>5 DEF PeerState
<1>11. ASSUME c.thunk \in PeerWriters, c.todo = <<>>, c.reply # Error, savedPeers' = c.reply,
              c.crossed => PeerFields \subseteq doubt',
              ~c.crossed /\ PageFresh' => currentPeer' = PeerFor(peerRoute)
       PROVE  PeerState'
  <2>1. ~c.crossed => savedPeers' = SavedPeers'
    BY <1>3, <1>5, <1>11 DEF PeerTrue
  <2>2. PageFresh' => ~c.crossed
    BY <1>11 DEF PageFresh, PeerFields
  <2>3. PeersFresh'
    BY <1>3, <1>11, <2>1, <2>2 DEF PeersFresh, PeerFields
  <2> QED BY <1>8, <2>2, <2>3 DEF PeerState
<1>12. CASE setSavePeerFulfilled(c)
  <2>1. c.thunk = "setSavePeer" /\ c.todo = <<>> /\ c.reply # Error /\ savedPeers' = c.reply
        /\ c.thunk \in PeerWriters
    BY <1>12 DEF setSavePeerFulfilled, Done, PeerWriters
  <2>2. c.crossed => PeerFields \subseteq doubt'
    BY <1>12 DEF setSavePeerFulfilled, PeerArrives
  <2>3. ASSUME ~c.crossed, PageFresh'
        PROVE  currentPeer' = PeerFor(peerRoute)
    <3>1. peerRoute \in Address /\ HostOf[c.arg] = HostOf[peerRoute]
      BY <1>2, <1>12, <2>3 DEF setSavePeerFulfilled, PeerArrives, PageFresh, OfPage, PeerFields
    <3>2. c.arg \in Address /\ Changed(c)
      BY <1>5, <2>1 DEF PeerRequests, Changed
    <3>3. peers[c.arg] # None /\ c.reply = SavedPeers
      BY <1>5, <2>1, <2>3, <3>2 DEF PeerTrue
    <3>4. \A p \in SavedPeers : p.address = c.arg <=> p = peers[c.arg]
      BY <3>2, <3>3 DEF PeersInv, SavedPeers
    <3>5. peers[c.arg] \in SavedPeers
      BY <3>2, <3>3 DEF SavedPeers
    <3>6. Find(SavedPeers, c.arg) = peers[c.arg]
      BY <3>4, <3>5 DEF Find
    <3>7. PeerFor(peerRoute) = peers[c.arg]
      BY <3>1, <3>2, <3>3, PeerForHost
    <3> QED BY <1>12, <3>3, <3>6, <3>7 DEF setSavePeerFulfilled
  <2> QED BY <1>11, <2>1, <2>2, <2>3
<1>13. ASSUME NEW a, PeerChanged(c, a), ~c.crossed, PageFresh'
       PROVE  PageFresh
  BY <1>2, <1>13 DEF PeerChanged, PageFresh
<1>14. CASE setDeletePeerFulfilled(c)
  <2>1. c.thunk = "setDeletePeer" /\ c.todo = <<>> /\ c.reply # Error /\ savedPeers' = c.reply
        /\ c.thunk \in PeerWriters
    BY <1>14 DEF setDeletePeerFulfilled, Done, PeerWriters
  <2>2. c.crossed => PeerFields \subseteq doubt'
    BY <1>14 DEF setDeletePeerFulfilled, PeerChanged
  <2>3. ASSUME ~c.crossed, PageFresh'
        PROVE  currentPeer' = PeerFor(peerRoute)
    <3>1. PageFresh
      BY <1>13, <1>14, <2>3 DEF setDeletePeerFulfilled
    <3>2. PeerFor(peerRoute) = None
      BY <1>5, <2>1, <2>3, <3>1 DEF PeerTrue, Changed
    <3> QED BY <1>14, <3>2 DEF setDeletePeerFulfilled, AfterDelete
  <2> QED BY <1>11, <2>1, <2>2, <2>3
<1>15. CASE setPeerAutoconnectFulfilled(c)
  <2>1. c.thunk \in Switches /\ c.todo = <<>> /\ c.reply # Error /\ savedPeers' = c.reply
        /\ c.thunk \in PeerWriters
    BY <1>15 DEF setPeerAutoconnectFulfilled, Done, PeerWriters, Switches
  <2>2. c.crossed => PeerFields \subseteq doubt'
    BY <1>15 DEF setPeerAutoconnectFulfilled, PeerChanged
  <2>3. ASSUME ~c.crossed, PageFresh'
        PROVE  currentPeer' = PeerFor(peerRoute)
    <3>1. PageFresh
      BY <1>13, <1>15, <2>3 DEF setPeerAutoconnectFulfilled
    <3>2. PageRow(c.arg.id) /\ c.reply = SavedPeers
      BY <1>5, <2>1, <2>3, <3>1 DEF PeerTrue
    <3>3. PICK b \in Address :
            peers[b] # None /\ peers[b] = PeerFor(peerRoute) /\ peers[b].id = c.arg.id
      BY <3>1, <3>2, PeerOfPage DEF PageFresh
    <3>4. \A p \in SavedPeers : p.id = c.arg.id <=> p = peers[b]
      BY <3>3 DEF PeersInv, SavedPeers
    <3>5. peers[b] \in SavedPeers
      BY <3>3 DEF SavedPeers
    <3>6. FindId(SavedPeers, c.arg.id) = peers[b]
      BY <3>4, <3>5 DEF FindId
    <3> QED BY <1>15, <3>2, <3>3, <3>6 DEF setPeerAutoconnectFulfilled
  <2> QED BY <1>11, <2>1, <2>2, <2>3
<1>16. CASE PeerThunkRejected(c)
  <2>1. PeerFields \subseteq doubt'
    BY <1>16 DEF PeerThunkRejected, Rejected
  <2>2. PeersFresh' /\ ~PageFresh'
    BY <2>1 DEF PeersFresh, PageFresh, PeerFields
  <2> QED BY <1>8, <2>2 DEF PeerState
<1> QED BY <1>1, <1>9, <1>10, <1>12, <1>14, <1>15, <1>16
-----------------------------------------------------------------------------
(* The view, and what a logout can have to do with the peers.              *)

LEMMA ViewStays == [Next]_vars => view' = view
<1> SUFFICES ASSUME [Next]_vars
             PROVE  view' = view
  OBVIOUS
<1>1. CASE Payments
  <2>1. CASE PaymentUser
    <3>1. \/ UNCHANGED thunkVars
          \/ \E kind, owner : MountPayments(kind, owner)
          \/ \E D : Dispatch(D)
      BY <2>1 DEF PaymentUser, OpenPayments, SwitchTab, LoadMore, OpenFeed
    <3> QED BY <3>1 DEF MountPayments, Dispatch, thunkVars
  <2>2. CASE PaymentRecorded
    BY <2>2 DEF PaymentRecorded, thunkVars
  <2>3. CASE PaymentServer
    BY <2>3 DEF PaymentServer
  <2>4. CASE PaymentReply
    BY <2>4 DEF PaymentReply, fetchPaymentsFulfilled, fetchPaymentSummaryFulfilled,
       PaymentThunkRejected, Settle, Rejected
  <2> QED BY <1>1, <2>1, <2>2, <2>3, <2>4 DEF Payments
<1>2. CASE Squeaks
  BY <1>2, SqueaksTick DEF Squeaks, Ticks
<1>3. CASE Profiles
  BY <1>3, ProfilesTick DEF Profiles, Ticks
<1>4. CASE Peers
  BY <1>4, PeersTick DEF Peers, Ticks
<1>5. CASE Settings
  BY <1>5, SettingsTick DEF Settings, Ticks
<1>6. CASE Lost \/ UNCHANGED vars
  BY <1>6 DEF Lost, Lose, vars, thunkVars
<1> QED BY <1>1, <1>2, <1>3, <1>4, <1>5, <1>6 DEF Next

\* Only the thunks of the view are under way; no page of peers is opened unless
\* it has thunks of theirs.
ViewInv ==
    /\ view \in DOMAIN Views
    /\ \A c \in calls : c.thunk \in view
    /\ Follows(PeerThunks) \/ peerAwaited = PeerFields

LEMMA SliceInView ==
    ASSUME NEW T, SliceStep(T), \A c \in calls : IsCall(c) /\ c.thunk \in view
    PROVE  \A e \in calls' : e.thunk \in view
<1>1. CASE calls' \subseteq calls
  BY <1>1
<1>2. CASE \E c \in Of(T) : \E d : Heir(d, c) /\ calls' = (calls \ {c}) \cup {d}
  BY <1>2 DEF Heir, Of
<1>3. CASE \E gone \in SUBSET Of(T) : \E D, id :
                    Sent(D, T) /\ calls' = Begin(D, id, calls \ gone)
  <2>1. PICK gone, D, id : calls' = Begin(D, id, calls \ gone)
    BY <1>3
  <2>2. PICK rest : rest = calls \ gone
    OBVIOUS
  <2>3. \A e \in Begin(D, id, rest) :
            \/ \E c \in rest : Waits(e, c) /\ e = [c EXCEPT !.crossed = @ \/ Writes(D)]
            \/ \E d \in Followed(D) : e = Started(d, id, rest)
    BY <2>2, BeginHeirs
  <2>4. \A d \in Followed(D) : Started(d, id, rest).thunk \in view
    BY DEF Followed, Started
  <2> QED BY <2>1, <2>2, <2>3, <2>4 DEF Waits, Heir
<1> QED BY <1>1, <1>2, <1>3, SliceStepKinds

LEMMA ViewInvNext == CallsInv /\ ViewInv /\ [Next]_vars => ViewInv'
<1> SUFFICES ASSUME CallsInv, ViewInv, [Next]_vars
             PROVE  ViewInv'
  OBVIOUS
<1>1. view' = view
  BY ViewStays
<1>2. \A c \in calls : IsCall(c) /\ c.thunk \in view
  BY CallsWhole DEF ViewInv
<1>3. \A e \in calls' : e.thunk \in view
  <2>1. CASE \E c \in calls : Lose(c)
    <3>1. PICK c \in calls : GoesOn(c, <<>>, Error)
      BY <1>2, <2>1, RefuseHeirs DEF Lose
    <3> QED BY <1>2, <3>1 DEF GoesOn, Heir
  <2>2. CASE UNCHANGED calls \/ calls' = {}
    BY <1>2, <2>2
  <2>3. CASE \E T : SliceStep(T)
    BY <1>2, <2>3, SliceInView
  <2> QED BY <2>1, <2>2, <2>3, SqueaksSliceStep, ProfilesSliceStep, PeersSliceStep,
             PaymentsSliceStep, SettingsSliceStep
          DEF Next, Squeaks, Profiles, Peers, Payments, Settings, Lost, vars, thunkVars
<1>4. Follows(PeerThunks) \/ peerAwaited' = PeerFields
  BY DEF ViewInv, Next, Peers, Lost, vars, peerVars, butSqueaks, butProfiles, butPayments,
     butSettings
<1> QED BY <1>1, <1>3, <1>4 DEF ViewInv, Follows

LEMMA LogoutElsewhere ==
    ASSUME ViewInv, NEW c \in calls, setLogoutFulfilled(c), UNCHANGED peerVars
    PROVE  PeerState'
<1>1. "setLogout" \in view /\ calls' = {}
  BY DEF ViewInv, setLogoutFulfilled, Done
<1>2. view \subseteq SettingsThunks
  BY <1>1, LogoutAssumption DEF ViewInv
<1>3. SettingsThunks \cap PeerThunks = {}
  BY DEF SettingsThunks, PeerThunks
<1>4. peerAwaited' = PeerFields
  BY <1>2, <1>3 DEF ViewInv, Follows, peerVars
<1> QED BY <1>1, <1>4 DEF PeerState, PeerCalls, PeersFresh, PageFresh, Of, PeerFields

\* A step of another slice.
LEMMA OthersApartFromPeers ==
    ASSUME CallsInv, ViewInv, PeerState, Squeaks \/ Profiles \/ Payments \/ Settings,
           UNCHANGED peerVars
    PROVE  PeerState'
<1>1. CASE Squeaks
  <2>1. SliceStep(SqueakThunks) /\ doubt \ SqueakFields \subseteq doubt'
    BY <1>1, SqueaksSliceStep, SqueaksDoubt DEF Squeaks
  <2>2. PeerThunks \cap SqueakThunks = {} /\ PeerFields \cap SqueakFields = {}
    BY DEF PeerThunks, SqueakThunks, PeerFields, SqueakFields, PageFields, List
  <2> QED BY <2>1, <2>2, SliceElsewhere, PeersElsewhere
<1>2. CASE Profiles
  <2>1. SliceStep(ProfileThunks) /\ doubt \ ProfileFields \subseteq doubt'
    BY <1>2, ProfilesSliceStep, ProfilesDoubt DEF Profiles
  <2>2. PeerThunks \cap ProfileThunks = {} /\ PeerFields \cap ProfileFields = {}
    BY DEF PeerThunks, ProfileThunks, PeerFields, ProfileFields, ProfileLists
  <2> QED BY <2>1, <2>2, SliceElsewhere, PeersElsewhere
<1>3. CASE Payments
  <2>1. SliceStep(PaymentThunks) /\ doubt \ {} \subseteq doubt'
    BY <1>3, PaymentsSliceStep, PaymentsDoubt DEF Payments
  <2>2. PeerThunks \cap PaymentThunks = {} /\ PeerFields \cap {} = {}
    BY DEF PeerThunks, PaymentThunks
  <2> QED BY <2>1, <2>2, SliceElsewhere, PeersElsewhere
<1>4. CASE Settings /\ \A c \in calls : ~setLogoutFulfilled(c)
  <2>1. /\ SliceStep(SettingsThunks)
        /\ doubt \ {"sellPriceInfo", "twitterAccounts"} \subseteq doubt'
    BY <1>4, SettingsStays DEF Settings
  <2>2. /\ PeerThunks \cap SettingsThunks = {}
        /\ PeerFields \cap {"sellPriceInfo", "twitterAccounts"} = {}
    BY DEF PeerThunks, SettingsThunks, PeerFields
  <2> QED BY <2>1, <2>2, SliceElsewhere, PeersElsewhere
<1>5. CASE \E c \in calls : setLogoutFulfilled(c)
  BY <1>5, LogoutElsewhere
<1> QED BY <1>1, <1>2, <1>3, <1>4, <1>5

\* What the theorem about the peers that are shown rests on.
QuietPeersInv == CrossedInv /\ PeersInv /\ ViewInv /\ PeerState

LEMMA QuietPeersInvInit == Init => QuietPeersInv
<1> SUFFICES ASSUME Init
             PROVE  QuietPeersInv
  OBVIOUS
<1>1. calls = {} /\ view \in DOMAIN Views /\ peerAwaited = PeerFields
  BY DEF Init, ThunksInit, PeersInit
<1>2. CrossedInv /\ ViewInv
  BY <1>1 DEF CrossedInv, CallsInv, CrossInv, ViewInv
<1>3. PeersInv
  BY PeersInvInit DEF Init
<1>4. PeerState
  BY <1>1 DEF PeerState, PeerCalls, PeersFresh, PageFresh, Of, PeerFields
<1> QED BY <1>2, <1>3, <1>4 DEF QuietPeersInv

LEMMA QuietPeersInvNext == QuietPeersInv /\ [Next]_vars => QuietPeersInv'
<1> SUFFICES ASSUME CallsInv, CrossInv, PeersInv, ViewInv, PeerState, [Next]_vars
             PROVE  PeerState'
  BY CrossedInvNext, PeersInvNext, ViewInvNext DEF QuietPeersInv, CrossedInv
<1>1. CASE Peers
  BY <1>1, PeerUserKeeps, PeerServerKeeps, PeerReplyKeeps DEF Peers
<1>2. CASE (Squeaks \/ Profiles \/ Payments \/ Settings) /\ UNCHANGED peerVars
  BY <1>2, OthersApartFromPeers
<1>3. CASE Lost
  <2>1. Elsewhere(PeerThunks, PeerFields)
    BY <1>3, LostElsewhere DEF Lost
  <2>2. UNCHANGED peerVars
    BY <1>3 DEF Lost, butSqueaks
  <2> QED BY <2>1, <2>2, PeersElsewhere
<1>4. CASE UNCHANGED vars
  <2>1. Elsewhere(PeerThunks, PeerFields)
    BY <1>4, StutterElsewhere DEF vars, thunkVars
  <2>2. UNCHANGED peerVars
    BY <1>4 DEF vars
  <2> QED BY <2>1, <2>2, PeersElsewhere
<1> QED BY <1>1, <1>2, <1>3, <1>4 DEF Next, butSqueaks, butProfiles, butPayments, butSettings

LEMMA QuietPeersInvQuiet == QuietPeersInv => QuietPeersTrue
<1> SUFFICES ASSUME PeersFresh, calls = {}
             PROVE  /\ "savedPeers" \in peerAwaited \cup doubt \/ savedPeers = SavedPeers
                    /\ peerRoute \in Address /\ "currentPeer" \notin peerAwaited \cup doubt =>
                            currentPeer = PeerFor(peerRoute)
  BY DEF QuietPeersInv, PeerState, QuietPeersTrue
<1> QED BY DEF PeersFresh, PageFresh
-----------------------------------------------------------------------------
(* The theorems.                                                           *)

\* What the theorems about the page of a key and that of an address rest on.
PagesInv ==
    /\ ScreenInv /\ PeersInv
    /\ ProfilesKeyed /\ ProfilePageInv
    /\ \A c \in calls : ProfileAsked(c)
    /\ PeerPageShowsItsPeer
    /\ \E addresses : PeersKnown(addresses, peersMade)

LEMMA PagesInvInit == Init => PagesInv
<1> SUFFICES ASSUME Init
             PROVE  PagesInv
  OBVIOUS
<1>1. ScreenInv /\ calls = {}
  BY DEF Init, ThunksInit, ScreenInv, ScreenBlockedByCall
<1>2. PeersInv
  BY PeersInvInit DEF Init
<1>3. ProfilesKeyed
  <2> DEFINE Fresh == [id : {<<h, 1>> : h \in PubKey}, pubkey : PubKey, name : Name,
                       following : {FALSE}, image : {FALSE}, private : BOOLEAN]
  <2>0. /\ profiles \in [PubKey -> Fresh \cup {None}]
        /\ \A k \in PubKey : profiles[k] # None =>
              profiles[k].id = <<k, 1>> /\ profiles[k].pubkey = k
    BY DEF Init, ProfilesInit, Saved
  <2> HIDE DEF Fresh
  <2>1. \A k \in PubKey : profiles[k] # None =>
            profiles[k] \in Fresh /\ profiles[k].id = <<k, 1>> /\ profiles[k].pubkey = k
    BY ONLY <2>0
  <2>2. \A k \in PubKey : <<k, 1>> \in Id /\ <<k, 1>>[1] = k
    BY DEF Id
  <2>3. ASSUME NEW k \in PubKey, profiles[k] # None
        PROVE  WellFormed(profiles[k])
    <3>1. PICK p : p = profiles[k]
      OBVIOUS
    <3>2. p = [id |-> p.id, pubkey |-> p.pubkey, name |-> p.name, following |-> p.following,
               image |-> p.image, private |-> p.private]
      BY ONLY <2>1, <2>3, <3>1 DEF Fresh
    <3>3. p.id = <<k, 1>> /\ p.pubkey = k
      BY ONLY <2>1, <2>3, <3>1
    <3>4. p.id \in Id /\ p.id[1] = p.pubkey
      BY ONLY <2>2, <3>3
    <3> QED BY <3>1, <3>2, <3>4 DEF WellFormed
  <2>4. profiles = [k \in PubKey |-> profiles[k]] /\ born \in [PubKey -> Nat]
    BY DEF Init, ProfilesInit
  <2> QED BY <2>1, <2>3, <2>4 DEF ProfilesKeyed
<1>4. ProfilePageInv
  BY ProfilesAssumption DEF Init, ProfilesInit, ProfilePageInv, ProfilesShown,
     ProfilePageShowsItsProfile, ProfileFields
<1>5. PeerPageShowsItsPeer
  BY DEF Init, PeersInit, PeerPageShowsItsPeer
<1>6. \E addresses : PeersKnown(addresses, peersMade)
  <2>1. savedPeers = {} /\ currentPeer = None /\ \A p, q \in SavedPeers : p = q
    BY DEF Init, PeersInit
  <2>2. PICK address : \A p \in SavedPeers : p.address = address
    BY <2>1
  <2>3. PICK addresses : addresses = [i \in {1} |-> address]
    OBVIOUS
  <2>4. \A p \in SavedPeers : p.id = 1 /\ peersMade = 1
    BY DEF Init, PeersInit, SavedPeers
  <2>5. PeersNumbered(addresses, peersMade)
    BY <2>1, <2>2, <2>3, <2>4 DEF PeersNumbered, Numbered
  <2> QED BY <1>1, <2>5 DEF PeersKnown
<1> QED BY <1>1, <1>2, <1>3, <1>4, <1>5, <1>6 DEF PagesInv

LEMMA PagesInvNext == PagesInv /\ [Next]_vars => PagesInv'
<1> SUFFICES ASSUME PagesInv, [Next]_vars
             PROVE  PagesInv'
  OBVIOUS
<1>1. ScreenInv' /\ PeersInv' /\ ProfilesKeyed'
  BY ScreenInvNext, PeersInvNext, ProfilesKeyedNext DEF PagesInv
<1>2. PageStep
  BY PageStepNext DEF PagesInv
<1>3. \A c \in calls : IsCall(c)
  BY DEF PagesInv, ScreenInv
<1>4. \A e \in calls' : ProfileAsked(e)
  BY <1>2, <1>3, ProfileAskedAfter DEF PagesInv
<1>5. ProfilePageInv'
  <2>1. CASE UNCHANGED <<profileFields, profilePage, awaited>>
    BY <2>1 DEF PagesInv, ProfilePageInv, ProfilesShown, ProfilePageShowsItsProfile,
       profileFields, profilePage
  <2> QED BY <2>1, ProfileUserPage, ProfileReplyPage DEF PagesInv, Next, vars, Squeaks, Profiles,
          Peers, Payments, Settings, Lost, butSqueaks, butPeers, butPayments, butSettings,
          profileVars, ProfileServer
<1>6. PeerPageShowsItsPeer' /\ \E later : PeersKnown(later, peersMade)'
  BY <1>2, <1>3, PeersPageStays DEF PagesInv
<1> QED BY <1>1, <1>4, <1>5, <1>6 DEF PagesInv

\* Whatever is changed on cards and on other pages meanwhile, the page of a key
\* that has had its answer never shows, changes or deletes another profile, and
\* a private key exported on it is never another profile's (updatedProfileInArray
\* and currentProfile of the slice of profiles, the page of a profile).
THEOREM ProfilePagesShowTheirProfile == Spec => []ProfilePageShowsItsProfile
<1>1. PagesInv => ProfilePageShowsItsProfile
  BY DEF PagesInv, ProfilePageInv
<1> QED BY <1>1, PagesInvInit, PagesInvNext, PTL DEF Spec

\* The page of an address that has had its answer never deletes or switches a
\* peer of another host, although every call that changes a peer sets the one
\* current peer, and a switched one is looked for by its id (currentPeer of the
\* slice of peers, the page of a peer).
THEOREM PeerPagesShowTheirPeer == Spec => []PeerPageShowsItsPeer
<1>1. PagesInv => PeerPageShowsItsPeer
  BY DEF PagesInv
<1> QED BY <1>1, PagesInvInit, PagesInvNext, PTL DEF Spec

\* However the parts of a list of payments are fetched while payments go on, are
\* lost or come in after another page was opened, a list that has got no answer
\* to another page holds payments of its owner only, each once, the newest first,
\* and none between them is missing (sentPayments and receivedPayments of the
\* slice of payments, the lists of a page).
THEOREM PaymentListsStayInOrder == Spec => []PaymentListsInOrder
BY PaymentInvInit, PaymentInvNext, PaymentInvOrder, PTL DEF Spec

\* Whatever is saved, deleted and switched meanwhile, on cards and on the page of
\* an address, once nothing is under way the list is that of the node and the page
\* shows the peer that is saved for its host, or none, unless one of them is marked
\* as stale: by overlapping or failed calls, or by an answer for another page
\* (currentPeer and savedPeers of the slice of peers).
THEOREM QuietPeersShowTheNode == Spec => []QuietPeersTrue
BY QuietPeersInvInit, QuietPeersInvNext, QuietPeersInvQuiet, PTL DEF Spec
-----------------------------------------------------------------------------
(* The profiles that are shown.                                            *)

ProfileWriters == ChangesProfile \cup Creates \cup {"setDeleteProfile"}

\* The argument of a request that changes a profile says which, and to what.
ChangesTo(request, arg, id) ==
    \/ request = "setProfileFollowing" /\ arg[1] = id /\ arg[2] \in BOOLEAN
    \/ request = "renameProfile" /\ arg[1] = id /\ arg[2] \in Name
    \/ request = "changeProfileImage" /\ arg = id

\* And that of one that makes a profile its name, and its key.
MakesOf(request, arg) ==
    \/ request \in {"createContactProfile", "importSigningProfile"}
       /\ arg[1] \in Name /\ arg[2] \in PubKey
    \/ request = "createSigningProfile" /\ arg \in Name

\* What is left of a change and of the reading of the profile after it.
Twofold(todo, request, arg, id) ==
    todo \in {<<<<request, arg>>, <<"getProfile", id>>>>, <<<<"getProfile", id>>>>, <<>>}

ProfileRequests(c) ==
    /\ c.thunk \in ProfileWriters => c.writes
    /\ c.thunk \in ChangesProfile => \E request, arg :
            ChangesTo(request, arg, c.arg) /\ Twofold(c.todo, request, arg, c.arg)
    /\ c.thunk \in Creates => \E request, arg :
            /\ MakesOf(request, arg)
            /\ c.thunk = "setCreateContactProfile" => request = "createContactProfile"
            /\ Twofold(c.todo, request, arg, None)
    /\ c.thunk = "setDeleteProfile" => Asking(c.todo, "deleteProfile", c.arg)

\* Nothing speaks against the field: what it holds is what the node has, but for
\* calls that are under way.
SigningFresh == "signingProfiles" \notin awaited \cup doubt
ContactFresh == "contactProfiles" \notin awaited \cup doubt
ProfileFresh ==
    /\ profileRoute \in PubKey /\ "currentProfile" \notin awaited \cup doubt
    /\ \A c \in calls : ~(c.thunk = "fetchProfile" /\ c.arg = profileRoute)

\* A list in which a profile is replaced by its new state, if that is known.
With(list, p) == IF p = None THEN list ELSE updatedProfileInArray(list, p)

\* The fields hold what the node has, once the state of p is stored in them.
Behind(p) ==
    /\ ProfileFresh => \/ currentProfile = profiles[profileRoute]
                       \/ /\ p # None /\ p.pubkey = profileRoute
                          /\ currentProfile # None /\ currentProfile.pubkey = profileRoute
    /\ SigningFresh => With(signingProfiles, p) = SigningOnes
    /\ ContactFresh => With(contactProfiles, p) = ContactOnes

\* The page shows what the node has, or will once the profile that is gone is left out.
DeletionTrue(c) ==
    IF c.todo = <<>> /\ currentProfile # None /\ currentProfile.id = c.arg
    THEN profiles[profileRoute] = None ELSE currentProfile = profiles[profileRoute]

\* A call that no other one crossed: what it ends with is what the node has, and
\* what it changes is all that the fields lack.  While the page of a key is fresh
\* no profile is made but the one that it offers to make.
ProfileTrue(c) ==
    /\ c.thunk \notin Creates /\ c.reply = Error => c.todo = <<>>
    /\ ~c.crossed /\ c.reply # Error =>
        /\ c.todo = <<>> =>
            /\ c.thunk = "fetchProfile" => c.reply = profiles[c.arg]
            /\ c.thunk = "fetchSigningProfiles" => c.reply = SigningOnes
            /\ c.thunk = "fetchContactProfiles" => c.reply = ContactOnes
            /\ c.thunk \in ChangesProfile => c.reply = ById(c.arg)
        /\ c.thunk \in ChangesProfile => \A p : p = ById(c.arg) => Behind(p)
        /\ c.thunk = "setDeleteProfile" /\ ProfileFresh => DeletionTrue(c)
    /\ c.thunk \in Creates /\ ProfileFresh =>
            c.thunk = "setCreateContactProfile" /\ c.arg = profileRoute

ProfileCalls == \A c \in Of(ProfileThunks) : ProfileRequests(c) /\ ProfileTrue(c)

\* The fields hold what the node has, or a call that changes that is not over; a
\* contact that is made is in no list of those one can sign with.
ProfilesFresh ==
    /\ ProfileFresh => \/ currentProfile = profiles[profileRoute]
                       \/ \E c \in calls : c.thunk \in ProfileWriters
    /\ SigningFresh => \/ signingProfiles = SigningOnes
                       \/ \E c \in calls : c.thunk \in ProfileWriters \ {"setCreateContactProfile"}
    /\ ContactFresh => \/ contactProfiles = ContactOnes
                       \/ \E c \in calls : c.thunk \in ProfileWriters

ProfilesStored == profiles \in [PubKey -> Profile \cup {None}]

ProfileState == ProfilesStored /\ ProfileCalls /\ ProfilesFresh

\* No field gets fresher in a step, or changes while it stays fresh.
NoneFresher ==
    /\ ProfileFresh' => ProfileFresh /\ UNCHANGED <<currentProfile, profileRoute>>
    /\ SigningFresh' => SigningFresh /\ signingProfiles' = signingProfiles
    /\ ContactFresh' => ContactFresh /\ contactProfiles' = contactProfiles

\* A call that is fetching and has got no answer.
Fetches(e) == e.thunk \notin ProfileWriters /\ e.todo # <<>> /\ e.reply = None

LEMMA FetchesTrue ==
    ASSUME NEW e, Fetches(e)
    PROVE  ProfileRequests(e) /\ ProfileTrue(e)'
<1>1. e.thunk \notin ChangesProfile /\ e.thunk \notin Creates /\ e.thunk # "setDeleteProfile"
  BY DEF Fetches, ProfileWriters
<1> QED BY <1>1, ThunksAssumption DEF Fetches, ProfileRequests, ProfileTrue, ProfileWriters

\* What the node has stays.
LEMMA SameProfiles ==
    ASSUME UNCHANGED profiles
    PROVE  SigningOnes' = SigningOnes /\ ContactOnes' = ContactOnes /\ \A id : ById(id)' = ById(id)
BY DEF SigningOnes, ContactOnes, ById, Saved

\* A call waits, or has failed, while the node stays as it is.
LEMMA ProfileWaits ==
    ASSUME NEW c, ProfileRequests(c), ProfileTrue(c), UNCHANGED profiles,
           NEW e, Heir(e, c), Waits(e, c) \/ (e.todo = <<>> /\ e.reply = Error),
           e.thunk \in ProfileWriters => NoneFresher
    PROVE  ProfileRequests(e) /\ ProfileTrue(e)'
<1>1. SigningOnes' = SigningOnes /\ ContactOnes' = ContactOnes /\ \A id : ById(id)' = ById(id)
  BY SameProfiles
<1>2. e.thunk = c.thunk /\ e.arg = c.arg /\ e.writes = c.writes /\ (c.crossed => e.crossed)
  BY DEF Heir
<1>3. ProfileRequests(e)
  <2>1. CASE e.todo = c.todo
    BY <1>2, <2>1 DEF ProfileRequests
  <2>2. CASE e.todo = <<>>
    BY <1>2, <2>2 DEF ProfileRequests, Twofold, Asking
  <2> QED BY <2>1, <2>2 DEF Waits
<1>4. e.thunk \in Creates /\ ProfileFresh' =>
            e.thunk = "setCreateContactProfile" /\ e.arg = profileRoute'
  <2>1. e.thunk \in Creates => NoneFresher
    BY DEF ProfileWriters
  <2> QED BY <1>2, <2>1 DEF ProfileTrue, NoneFresher
<1>9. e.thunk \notin Creates /\ e.reply = Error => e.todo = <<>>
  BY <1>2 DEF ProfileTrue, Waits
<1>5. CASE e.crossed \/ e.reply = Error
  BY <1>3, <1>4, <1>5, <1>9 DEF ProfileTrue
<1>6. CASE ~e.crossed /\ e.reply # Error
  <2>1. e.todo = c.todo /\ e.reply = c.reply /\ ~c.crossed
    BY <1>2, <1>6 DEF Waits
  <2>2. e.todo = <<>> =>
            /\ e.thunk = "fetchProfile" => e.reply = profiles'[e.arg]
            /\ e.thunk = "fetchSigningProfiles" => e.reply = SigningOnes'
            /\ e.thunk = "fetchContactProfiles" => e.reply = ContactOnes'
            /\ e.thunk \in ChangesProfile => e.reply = ById(e.arg)'
    BY <1>1, <1>2, <1>6, <2>1 DEF ProfileTrue
  <2>3. ASSUME e.thunk \in ChangesProfile, NEW p, p = ById(e.arg)'
        PROVE  Behind(p)'
    <3>1. p = ById(c.arg)
      BY <1>1, <1>2, <2>3
    <3>2. Behind(p)
      BY <1>2, <1>6, <2>1, <2>3, <3>1 DEF ProfileTrue
    <3>3. NoneFresher
      BY <2>3 DEF ProfileWriters
    <3> QED BY <1>1, <3>2, <3>3 DEF Behind, NoneFresher
  <2>4. e.thunk = "setDeleteProfile" /\ ProfileFresh' => DeletionTrue(e)'
    <3>1. e.thunk = "setDeleteProfile" => NoneFresher
      BY DEF ProfileWriters
    <3> QED BY <1>2, <1>6, <2>1, <3>1 DEF ProfileTrue, NoneFresher, DeletionTrue
  <2> QED BY <1>3, <1>4, <1>6, <1>9, <2>2, <2>3, <2>4 DEF ProfileTrue
<1> QED BY <1>5, <1>6

LEMMA ProfilesElsewhere ==
    ASSUME ProfileState, Elsewhere(ProfileThunks, ProfileFields), UNCHANGED profileVars
    PROVE  ProfileState'
<1>0. UNCHANGED <<profiles, currentProfile, signingProfiles, contactProfiles, profileRoute, awaited>>
  BY DEF profileVars, profileNode, profileFields, profilePage
<1>1. /\ "fetchProfile" \in ProfileThunks /\ ProfileWriters \subseteq ProfileThunks
      /\ {"currentProfile", "signingProfiles", "contactProfiles"} \subseteq ProfileFields
  BY DEF ProfileThunks, ProfileWriters, ChangesProfile, Creates, ProfileFields, ProfileLists
<1>2. NoneFresher
  <2>1. ProfileFresh' => ProfileFresh
    BY <1>0, <1>1 DEF ProfileFresh, Elsewhere, Of, Heir
  <2> QED BY <1>0, <1>1, <2>1 DEF NoneFresher, SigningFresh, ContactFresh, Elsewhere
<1>3. ProfileCalls'
  <2> SUFFICES ASSUME NEW e \in calls', e.thunk \in ProfileThunks
               PROVE  ProfileRequests(e) /\ ProfileTrue(e)'
    BY DEF ProfileCalls, Of, ProfileRequests, ProfileTrue
  <2>1. PICK c \in calls : Heir(e, c) /\ (Waits(e, c) \/ (e.todo = <<>> /\ e.reply = Error))
    BY DEF Elsewhere
  <2>2. ProfileRequests(c) /\ ProfileTrue(c)
    BY <2>1 DEF ProfileState, ProfileCalls, Of, Heir
  <2> QED BY <1>0, <1>2, <2>1, <2>2, ProfileWaits
<1>4. \A c \in calls : c.thunk \in ProfileWriters => \E e \in calls' : e.thunk = c.thunk
  BY <1>1 DEF Elsewhere, Of, Heir
<1>5. SigningOnes' = SigningOnes /\ ContactOnes' = ContactOnes
  BY <1>0, SameProfiles
<1>6. ProfilesFresh'
  BY <1>0, <1>2, <1>4, <1>5 DEF ProfilesFresh, ProfileState, NoneFresher
<1> QED BY <1>0, <1>3, <1>6 DEF ProfileState, ProfilesStored

LEMMA TwofoldNext ==
    ASSUME NEW c, NEW next, NEW request, NEW arg, NEW id, Twofold(c.todo, request, arg, id),
           At(c, next)
    PROVE  \/ next = request /\ Argument(c) = arg /\ Tail(c.todo) = <<<<"getProfile", id>>>>
           \/ next = "getProfile" /\ Argument(c) = id /\ c.todo = <<<<"getProfile", id>>>>
<1>1. CASE c.todo = <<<<request, arg>>, <<"getProfile", id>>>>
  <2>1. Head(c.todo) = <<request, arg>> /\ Tail(c.todo) = <<<<"getProfile", id>>>>
    BY <1>1, TwoLeft
  <2> QED BY <2>1 DEF At, Argument
<1>2. CASE c.todo = <<<<"getProfile", id>>>>
  <2>1. Head(c.todo) = <<"getProfile", id>>
    BY <1>2, OneLeft
  <2> QED BY <1>2, <2>1 DEF At, Argument
<1> QED BY <1>1, <1>2 DEF Twofold, At

\* The kinds of thunks are apart.
LEMMA WritersApart ==
    /\ \A thunk \in ProfileWriters :
            thunk \notin {"fetchProfile", "fetchPaymentSummaryForPubkey", "fetchSigningProfiles",
                          "fetchContactProfiles", "getProfilePrivateKey"}
    /\ ChangesProfile \cap Creates = {} /\ "setDeleteProfile" \notin ChangesProfile \cup Creates
    /\ ChangesProfile \cup Creates \cup {"setDeleteProfile"} \subseteq ProfileWriters
    /\ ProfileWriters \subseteq ProfileThunks
BY DEF ProfileWriters, ChangesProfile, Creates, ProfileThunks

\* A thunk that a page of profiles dispatches.
ProfileOpens(d) ==
    /\ ProfileRequests(d) /\ d.todo # <<>>
    /\ d.thunk \in Creates /\ ProfileFresh =>
            d.thunk = "setCreateContactProfile" /\ d.arg = profileRoute

LEMMA ProfileReadsOpen ==
    ASSUME NEW k, NEW id, NEW page, NEW sure
    PROVE  \A d \in {fetchProfile(k), fetchPaymentSummaryForPubkey(k), fetchSigningProfiles,
                     fetchContactProfiles, getProfilePrivateKey(id, page, sure)} :
                d.thunk \notin ProfileWriters /\ d.todo # <<>> /\ ProfileOpens(d)
<1>1. ASSUME NEW d, d.todo # <<>>,
             d.thunk \in {"fetchProfile", "fetchPaymentSummaryForPubkey", "fetchSigningProfiles",
                          "fetchContactProfiles", "getProfilePrivateKey"}
      PROVE  d.thunk \notin ProfileWriters /\ ProfileOpens(d)
  BY <1>1, WritersApart DEF ProfileOpens, ProfileRequests
<1>2. ASSUME NEW thunk, NEW arg, NEW request, NEW status
      PROVE  LET d == Read(thunk, arg, <<request>>, status) IN d.thunk = thunk /\ d.todo # <<>>
  BY OneLeft DEF Read
<1> QED BY <1>1, <1>2 DEF fetchProfile, fetchPaymentSummaryForPubkey, fetchSigningProfiles,
        fetchContactProfiles, getProfilePrivateKey

LEMMA ProfileChangesOpen ==
    ASSUME NEW thunk \in ChangesProfile, NEW id, NEW request, NEW arg,
           ChangesTo(request, arg, id)
    PROVE  ProfileOpens(Change(thunk, id, request, arg))
<1>1. PICK d : d = Change(thunk, id, request, arg)
  OBVIOUS
<1>2. /\ d.thunk = thunk /\ d.arg = id /\ d.writes = TRUE
      /\ d.todo = <<<<request, arg>>, <<"getProfile", id>>>>
  BY <1>1 DEF Change, Write
<1>3. d.todo # <<>>
  BY <1>2
<1>4. Twofold(d.todo, request, arg, id)
  BY <1>2 DEF Twofold
<1>5. thunk \notin Creates /\ thunk # "setDeleteProfile"
  BY WritersApart
<1>6. ProfileRequests(d)
  BY <1>2, <1>4, <1>5 DEF ProfileRequests
<1> QED BY <1>1, <1>2, <1>3, <1>5, <1>6 DEF ProfileOpens

LEMMA ProfileCreatesOpen ==
    ASSUME NEW thunk \in Creates, NEW from, NEW request, NEW arg, NEW status,
           MakesOf(request, arg),
           thunk = "setCreateContactProfile" => request = "createContactProfile",
           ProfileFresh => thunk = "setCreateContactProfile" /\ from = profileRoute
    PROVE  ProfileOpens(Create(thunk, from, request, arg, status))
<1>1. PICK d : d = Create(thunk, from, request, arg, status)
  OBVIOUS
<1>2. /\ d.thunk = thunk /\ d.arg = from /\ d.writes = TRUE
      /\ d.todo = <<<<request, arg>>, <<"getProfile", None>>>>
  BY <1>1 DEF Create, Write
<1>3. d.todo # <<>>
  BY <1>2
<1>4. Twofold(d.todo, request, arg, None)
  BY <1>2 DEF Twofold
<1>5. thunk \notin ChangesProfile /\ thunk # "setDeleteProfile"
  BY WritersApart
<1>6. ProfileRequests(d)
  BY <1>2, <1>4, <1>5 DEF ProfileRequests
<1> QED BY <1>1, <1>2, <1>3, <1>6 DEF ProfileOpens

LEMMA ProfileDeletionOpens ==
    ASSUME NEW id
    PROVE  ProfileOpens(setDeleteProfile(id))
<1>1. PICK d : d = setDeleteProfile(id)
  OBVIOUS
<1>2. /\ d.thunk = "setDeleteProfile" /\ d.arg = id /\ d.writes = TRUE
      /\ d.todo = <<<<"deleteProfile", id>>>>
  BY <1>1 DEF setDeleteProfile, Write
<1>3. d.todo # <<>>
  BY <1>2, OneLeft
<1>4. Asking(d.todo, "deleteProfile", id)
  BY <1>2 DEF Asking
<1>5. ProfileRequests(d)
  BY <1>2, <1>4, WritersApart DEF ProfileRequests
<1> QED BY <1>1, <1>2, <1>3, <1>5, WritersApart DEF ProfileOpens

LEMMA ProfileUserOpens ==
    ASSUME ProfileUser
    PROVE  \E D : Dispatch(D) /\ \A d \in D : ProfileOpens(d)
<1>1. ASSUME NEW d, ProfileOpens(d), Dispatch({d})
      PROVE  \E D : Dispatch(D) /\ \A b \in D : ProfileOpens(b)
  BY <1>1
<1>2. CASE \E k \in PubKey : OpenProfile(k)
  <2>1. PICK k \in PubKey : Dispatch(ProfileMounted(k))
    BY <1>2 DEF OpenProfile
  <2>2. \A d \in ProfileMounted(k) : ProfileOpens(d)
    BY ProfileReadsOpen DEF ProfileMounted
  <2> QED BY <2>1, <2>2
<1>3. CASE OpenSigningProfiles \/ OpenContactProfiles \/ OpenMakeSqueak
  BY <1>1, <1>3, ProfileReadsOpen DEF OpenSigningProfiles, OpenContactProfiles, OpenMakeSqueak
<1>4. CASE exportPrivateKey
  BY <1>1, <1>4, ProfileReadsOpen DEF exportPrivateKey
<1>5. CASE ClickDeleteProfile
  BY <1>1, <1>5, ProfileDeletionOpens DEF ClickDeleteProfile
<1>6. ASSUME NEW id
      PROVE  /\ ProfileOpens(setFollowProfile(id)) /\ ProfileOpens(setUnfollowProfile(id))
             /\ \A name \in Name : ProfileOpens(setRenameProfile(id, name))
             /\ ProfileOpens(setProfileImage(id))
  <2>1. /\ {"setFollowProfile", "setUnfollowProfile", "setRenameProfile", "setProfileImage"}
                \subseteq ChangesProfile
    BY DEF ChangesProfile
  <2>2. /\ ChangesTo("setProfileFollowing", <<id, TRUE>>, id)
        /\ ChangesTo("setProfileFollowing", <<id, FALSE>>, id)
        /\ \A name \in Name : ChangesTo("renameProfile", <<id, name>>, id)
        /\ ChangesTo("changeProfileImage", id, id)
    BY DEF ChangesTo
  <2> QED BY <2>1, <2>2, ProfileChangesOpen DEF setFollowProfile, setUnfollowProfile,
          setRenameProfile, setProfileImage
<1>7. ASSUME NEW p, Switch(p)
      PROVE  \E D : Dispatch(D) /\ \A b \in D : ProfileOpens(b)
  BY <1>1, <1>6, <1>7 DEF Switch
<1>8. CASE ClickFollow \/ \E p \in ProfileCards : ClickCardFollow(p)
  BY <1>7, <1>8 DEF ClickFollow, ClickCardFollow
<1>9. CASE changeAvatar \/ \E name \in Name : editProfile(name)
  BY <1>1, <1>6, <1>9 DEF changeAvatar, editProfile
<1>10. /\ {"setCreateContactProfile", "setCreateSigningProfile", "setImportSigningProfile"}
                \subseteq Creates
       /\ \A name \in Name, k \in PubKey :
            MakesOf("createContactProfile", <<name, k>>) /\ MakesOf("importSigningProfile", <<name, k>>)
       /\ \A name \in Name : MakesOf("createSigningProfile", name)
  BY DEF Creates, MakesOf
<1>11. CASE \E name \in Name : AddContactProfile(name)
  <2>1. PICK name \in Name : AddContactProfile(name)
    BY <1>11
  <2>2. ProfileOpens(setCreateContactProfile(profileRoute, name, profileRoute))
    BY <1>10, <2>1, ProfileCreatesOpen DEF setCreateContactProfile, AddContactProfile
  <2> QED BY <1>1, <2>1, <2>2 DEF AddContactProfile
<1>12. OnProfiles => ~ProfileFresh
  BY ProfilesAssumption DEF OnProfiles, ProfileFresh
<1>13. CASE \E name \in Name, k \in PubKey : createContact(name, k)
  <2>1. PICK name \in Name, k \in PubKey : createContact(name, k)
    BY <1>13
  <2>2. ProfileOpens(setCreateContactProfile(None, name, k))
    BY <1>10, <1>12, <2>1, ProfileCreatesOpen DEF setCreateContactProfile, createContact
  <2> QED BY <1>1, <2>1, <2>2 DEF createContact
<1>14. CASE \E name \in Name : createSigning(name)
  <2>1. PICK name \in Name : createSigning(name)
    BY <1>14
  <2>2. ProfileOpens(setCreateSigningProfile(name))
    BY <1>10, <1>12, <2>1, ProfileCreatesOpen DEF setCreateSigningProfile, createSigning
  <2> QED BY <1>1, <2>1, <2>2 DEF createSigning
<1>15. CASE \E name \in Name, k \in OwnKeys : importSigning(name, k)
  <2>1. PICK name \in Name, k \in OwnKeys : importSigning(name, k)
    BY <1>15
  <2>2. ProfileOpens(setImportSigningProfile(name, k))
    BY <1>10, <1>12, <2>1, ProfileCreatesOpen, ProfilesAssumption
       DEF setImportSigningProfile, importSigning
  <2> QED BY <1>1, <2>1, <2>2 DEF importSigning
<1> QED BY <1>2, <1>3, <1>4, <1>5, <1>8, <1>9, <1>11, <1>13, <1>14, <1>15 DEF ProfileUser

\* The profile with an id is stored with the key that the id says.
LEMMA ByIdKnown ==
    ASSUME ProfilesKeyed, NEW id, ById(id) # None
    PROVE  /\ id[1] \in PubKey /\ id[1] \in Saved
           /\ ById(id) = profiles[id[1]] /\ profiles[id[1]] # None
           /\ ById(id).id = id /\ ById(id).pubkey = id[1]
BY DEF ById, Saved, ProfilesKeyed

LEMMA WithSame ==
    ASSUME NEW list, NEW p, p # None => \A q \in list : q.pubkey = p.pubkey => q = p
    PROVE  With(list, p) = list
<1>1. CASE p = None
  BY <1>1 DEF With
<1>2. CASE p # None
  <2>1. \A q \in list : (IF q.pubkey = p.pubkey THEN p ELSE q) = q
    BY <1>2
  <2> QED BY <1>2, <2>1 DEF With, updatedProfileInArray
<1> QED BY <1>1, <1>2

\* What the node has lacks nothing of what it has.
LEMMA OnesKnown ==
    ASSUME ProfilesKeyed, NEW id
    PROVE  With(SigningOnes, ById(id)) = SigningOnes /\ With(ContactOnes, ById(id)) = ContactOnes
<1>1. PICK p : p = ById(id)
  OBVIOUS
<1>2. \A q \in SigningOnes \cup ContactOnes : q = profiles[q.pubkey]
  BY DEF SigningOnes, ContactOnes, Saved, ProfilesKeyed
<1>3. p # None => p = profiles[p.pubkey]
  BY <1>1, ByIdKnown
<1>4. \A q \in SigningOnes \cup ContactOnes : p # None /\ q.pubkey = p.pubkey => q = p
  BY <1>2, <1>3
<1> QED BY <1>1, <1>4, WithSame

\* A new call: no other one changes a profile, or it is crossed.
LEMMA ProfileStarts ==
    ASSUME ProfilesKeyed, ProfileState, UNCHANGED profiles, NoneFresher, NEW d, ProfileOpens(d),
           NEW e, NEW id, e = Started(d, id, calls)
    PROVE  ProfileRequests(e) /\ ProfileTrue(e)'
<1>1. /\ e.thunk = d.thunk /\ e.arg = d.arg /\ e.todo = d.todo /\ e.writes = d.writes
      /\ e.reply = None /\ e.crossed = (\E c \in calls : c.writes)
  BY DEF Started
<1>2. ProfileRequests(e) /\ e.todo # <<>> /\ e.reply # Error
  BY <1>1, ThunksAssumption DEF ProfileOpens, ProfileRequests
<1>3. e.thunk \in Creates /\ ProfileFresh' =>
            e.thunk = "setCreateContactProfile" /\ e.arg = profileRoute'
  BY <1>1 DEF ProfileOpens, NoneFresher
<1>4. ASSUME ~e.crossed
      PROVE  /\ ProfileFresh => currentProfile = profiles[profileRoute]
             /\ SigningFresh => signingProfiles = SigningOnes
             /\ ContactFresh => contactProfiles = ContactOnes
  <2>1. \A c \in calls : c.thunk \notin ProfileWriters
    BY <1>1, <1>4, WritersApart DEF ProfileState, ProfileCalls, Of, ProfileRequests
  <2> QED BY <2>1 DEF ProfileState, ProfilesFresh
<1>5. ASSUME ~e.crossed, e.thunk \in ChangesProfile, NEW p, p = ById(e.arg)'
      PROVE  Behind(p)'
  <2>1. /\ SigningOnes' = SigningOnes /\ ContactOnes' = ContactOnes
        /\ p = ById(e.arg)
    BY <1>5, SameProfiles
  <2>2. With(SigningOnes, p) = SigningOnes /\ With(ContactOnes, p) = ContactOnes
    BY <2>1, OnesKnown
  <2> QED BY <1>4, <1>5, <2>1, <2>2 DEF Behind, NoneFresher
<1>6. ~e.crossed /\ e.thunk = "setDeleteProfile" /\ ProfileFresh' => DeletionTrue(e)'
  BY <1>2, <1>4 DEF DeletionTrue, NoneFresher
<1> QED BY <1>2, <1>3, <1>5, <1>6 DEF ProfileTrue

LEMMA ProfileUserKeeps ==
    ASSUME CallsInv, ProfilesKeyed, ProfileState, ProfileUser
    PROVE  ProfileState'
<1>1. PICK D : Dispatch(D) /\ \A d \in D : ProfileOpens(d)
  BY ProfileUserOpens
<1>2. calls' = Begin(D, events + 1, calls) /\ \A c \in calls : IsCall(c)
  BY <1>1, CallsWhole DEF Dispatch
<1>3. \A e \in calls' : \/ \E c \in calls : Waits(e, c)
                        \/ \E d \in D : e = Started(d, events + 1, calls)
  <2>1. Followed(D) \subseteq D
    BY DEF Followed
  <2> QED BY <1>2, <2>1, BeginHeirs
<1>4. \A c \in calls : \E e \in calls' : Waits(e, c)
  BY <1>2, BeginHeirs
<1>5. /\ UNCHANGED <<profiles, currentProfile, doubt>> /\ awaited \subseteq awaited'
      /\ \/ profileRoute' = profileRoute \/ profileRoute' \notin PubKey
         \/ "currentProfile" \in awaited'
      /\ signingProfiles' = signingProfiles \/ "signingProfiles" \in awaited'
      /\ contactProfiles' = contactProfiles \/ "contactProfiles" \in awaited'
  BY ProfilesAssumption DEF ProfileUser, OpenProfile, ShowProfile, LeaveProfile,
     OpenSigningProfiles, OpenContactProfiles, OpenMakeSqueak, ClickFollow, changeAvatar,
     ClickDeleteProfile, exportPrivateKey, ClickCardFollow, editProfile, AddContactProfile,
     createSigning, createContact, importSigning, profileVars, profileNode, profileFields, profilePage
<1>6. NoneFresher
  <2>1. ProfileFresh' => ProfileFresh /\ profileRoute' = profileRoute
    BY <1>4, <1>5 DEF ProfileFresh, Waits, Heir
  <2> QED BY <1>5, <2>1 DEF NoneFresher, SigningFresh, ContactFresh
<1>7. ProfileCalls'
  <2> SUFFICES ASSUME NEW e \in calls', e.thunk \in ProfileThunks
               PROVE  ProfileRequests(e) /\ ProfileTrue(e)'
    BY DEF ProfileCalls, Of, ProfileRequests, ProfileTrue
  <2>1. CASE \E c \in calls : Waits(e, c)
    <3>1. PICK c \in calls : Waits(e, c)
      BY <2>1
    <3>2. ProfileRequests(c) /\ ProfileTrue(c) /\ Heir(e, c)
      BY <3>1 DEF ProfileState, ProfileCalls, Of, Waits, Heir
    <3> QED BY <1>5, <1>6, <3>1, <3>2, ProfileWaits
  <2>2. CASE \E d \in D : e = Started(d, events + 1, calls)
    BY <1>1, <1>5, <1>6, <2>2, ProfileStarts
  <2> QED BY <1>3, <2>1, <2>2
<1>8. SigningOnes' = SigningOnes /\ ContactOnes' = ContactOnes
  BY <1>5, SameProfiles
<1>9. \A c \in calls : \E e \in calls' : e.thunk = c.thunk
  BY <1>4 DEF Waits, Heir
<1>10. ProfilesFresh'
  BY <1>5, <1>6, <1>8, <1>9 DEF ProfilesFresh, ProfileState, NoneFresher
<1> QED BY <1>5, <1>7, <1>10 DEF ProfileState, ProfilesStored

\* The node refuses: what it has stays, the call is not over.
LEMMA ProfilesRefused ==
    ASSUME CallsInv, ProfileState, NEW c \in Of(ProfileThunks), Refuse(c),
           UNCHANGED <<profileVars, doubt>>
    PROVE  ProfileState'
<1>1. GoesOn(c, <<>>, Error)
  BY CallsWhole, RefuseHeirs DEF Of
<1>2. Elsewhere(ProfileThunks, ProfileFields)
  BY <1>1 DEF GoesOn, Elsewhere, Waits, Heir, Of
<1> QED BY <1>2, ProfilesElsewhere

\* The next request of a call, and what is left then.
LEMMA ReadsNext ==
    ASSUME NEW c, ProfileAsks(c), c.thunk \in ProfileThunks \ ProfileWriters, NEW next, At(c, next)
    PROVE  /\ Tail(c.todo) = <<>>
           /\ c.thunk = "fetchProfile" => next = "getProfileByPubkey" /\ Argument(c) = c.arg
           /\ c.thunk = "fetchSigningProfiles" => next = "getSigningProfiles"
           /\ c.thunk = "fetchContactProfiles" => next = "getContactProfiles"
           /\ next \in {"getProfileByPubkey", "getSigningProfiles", "getContactProfiles",
                        "getPrivateKey", "getPaymentSummaryForPubkey"}
<1>1. c.thunk \in {"fetchProfile", "fetchPaymentSummaryForPubkey", "fetchSigningProfiles",
                   "fetchContactProfiles", "getProfilePrivateKey"}
  BY DEF ProfileThunks, ProfileWriters, ChangesProfile, Creates
<1>2. CASE c.thunk = "getProfilePrivateKey"
  <2>1. PICK id : Asking(c.todo, "getPrivateKey", id)
    BY <1>2 DEF ProfileAsks
  <2> QED BY <1>2, <2>1, AskingNext
<1> QED BY <1>1, <1>2, AskingNext DEF ProfileAsks

LEMMA ChangesNext ==
    ASSUME NEW c, ProfileRequests(c), c.thunk \in ChangesProfile, NEW next, At(c, next)
    PROVE  \/ ChangesTo(next, Argument(c), c.arg) /\ Tail(c.todo) = <<<<"getProfile", c.arg>>>>
           \/ next = "getProfile" /\ Argument(c) = c.arg /\ c.todo = <<<<"getProfile", c.arg>>>>
<1>1. PICK request, arg : ChangesTo(request, arg, c.arg) /\ Twofold(c.todo, request, arg, c.arg)
  BY DEF ProfileRequests
<1> QED BY <1>1, TwofoldNext

LEMMA CreatesNext ==
    ASSUME NEW c, ProfileRequests(c), c.thunk \in Creates, NEW next, At(c, next)
    PROVE  \/ /\ MakesOf(next, Argument(c)) /\ Tail(c.todo) = <<<<"getProfile", None>>>>
              /\ c.thunk = "setCreateContactProfile" => next = "createContactProfile"
           \/ next = "getProfile" /\ Argument(c) = None /\ c.todo = <<<<"getProfile", None>>>>
<1>1. PICK request, arg : /\ MakesOf(request, arg) /\ Twofold(c.todo, request, arg, None)
                          /\ c.thunk = "setCreateContactProfile" => request = "createContactProfile"
  BY DEF ProfileRequests
<1> QED BY <1>1, TwofoldNext

LEMMA DeletionNext ==
    ASSUME NEW c, ProfileRequests(c), c.thunk = "setDeleteProfile", NEW next, At(c, next)
    PROVE  next = "deleteProfile" /\ Argument(c) = c.arg /\ Tail(c.todo) = <<>>
BY AskingNext DEF ProfileRequests

\* What is left after it is what such a call may have left.
LEMMA ProfileRequestsAfter ==
    ASSUME NEW c, ProfileRequests(c), NEW next, At(c, next),
           NEW d, d.thunk = c.thunk, d.arg = c.arg, d.writes = c.writes, d.todo = Tail(c.todo)
    PROVE  ProfileRequests(d)
<1>1. \A request, arg, id : /\ Twofold(<<>>, request, arg, id)
                            /\ Twofold(<<<<"getProfile", id>>>>, request, arg, id)
                            /\ Asking(<<>>, request, arg)
  BY DEF Twofold, Asking
<1>2. c.thunk \in ChangesProfile \cup Creates =>
            \E id : /\ c.thunk \in ChangesProfile => id = c.arg
                    /\ c.thunk \in Creates => id = None
                    /\ d.todo = <<>> \/ d.todo = <<<<"getProfile", id>>>>
  <2>1. ASSUME NEW id, c.todo = <<<<"getProfile", id>>>>
        PROVE  Tail(c.todo) = <<>>
    BY <2>1, OneLeft
  <2> QED BY <2>1, ChangesNext, CreatesNext, WritersApart
<1>3. c.thunk = "setDeleteProfile" => d.todo = <<>>
  BY DeletionNext
<1>4. d.thunk \in ChangesProfile => \E request, arg :
            ChangesTo(request, arg, d.arg) /\ Twofold(d.todo, request, arg, d.arg)
  BY <1>1, <1>2 DEF ProfileRequests
<1>5. d.thunk \in Creates => \E request, arg :
            /\ MakesOf(request, arg)
            /\ d.thunk = "setCreateContactProfile" => request = "createContactProfile"
            /\ Twofold(d.todo, request, arg, None)
  BY <1>1, <1>2 DEF ProfileRequests
<1> QED BY <1>1, <1>3, <1>4, <1>5 DEF ProfileRequests

\* While the node answers, the fields are as fresh as they are.
LEMMA AsFresh ==
    ASSUME NEW c \in calls, NEW d, Heir(d, c), calls' = (calls \ {c}) \cup {d},
           UNCHANGED <<profileRoute, awaited, doubt>>
    PROVE  ProfileFresh' = ProfileFresh /\ SigningFresh' = SigningFresh /\ ContactFresh' = ContactFresh
<1>1. ProfileFresh' <=> ProfileFresh
  BY DEF ProfileFresh, Heir
<1>2. ProfileFresh' \in BOOLEAN /\ ProfileFresh \in BOOLEAN
  BY DEF ProfileFresh
<1> QED BY <1>1, <1>2 DEF SigningFresh, ContactFresh

Readings == {"getProfileByPubkey", "getSigningProfiles", "getContactProfiles", "getProfile",
             "getPrivateKey", "getPaymentSummaryForPubkey"}

\* The call that the node has answered.
LEMMA ProfileReadTrue ==
    ASSUME ProfileState, NEW c \in Of(ProfileThunks), ProfileAsks(c),
           NEW next \in Readings, At(c, next), NEW reply,
           next = "getProfileByPubkey" => reply = profiles[Argument(c)],
           next = "getSigningProfiles" => reply = SigningOnes,
           next = "getContactProfiles" => reply = ContactOnes,
           next = "getProfile" /\ Argument(c) # None => reply = ById(Argument(c)),
           UNCHANGED profiles, NoneFresher,
           NEW d, Heir(d, c), d.todo = Tail(c.todo), d.reply = reply
    PROVE  ProfileTrue(d)'
<1>1. ProfileRequests(c) /\ ProfileTrue(c) /\ c.thunk \in ProfileThunks /\ c.todo # <<>>
  BY DEF ProfileState, ProfileCalls, Of, At
<1>2. d.thunk = c.thunk /\ d.arg = c.arg /\ (~d.crossed => ~c.crossed)
  BY DEF Heir
<1>3. SigningOnes' = SigningOnes /\ ContactOnes' = ContactOnes /\ \A id : ById(id)' = ById(id)
  BY SameProfiles
<1>4. \A arg, id : ~ChangesTo(next, arg, id) /\ ~MakesOf(next, arg) /\ next # "deleteProfile"
  BY DEF Readings, ChangesTo, MakesOf
<1>5. CASE c.thunk \notin ProfileWriters
  <2>1. /\ d.todo = <<>>
        /\ c.thunk = "fetchProfile" => reply = profiles'[d.arg]
        /\ c.thunk = "fetchSigningProfiles" => reply = SigningOnes'
        /\ c.thunk = "fetchContactProfiles" => reply = ContactOnes'
    BY <1>1, <1>2, <1>3, <1>5, ReadsNext
  <2> QED BY <1>2, <1>5, <2>1, WritersApart DEF ProfileTrue
<1>6. CASE c.thunk \in ChangesProfile
  <2>1. next = "getProfile" /\ Argument(c) = c.arg /\ c.todo = <<<<"getProfile", c.arg>>>>
    BY <1>1, <1>4, <1>6, ChangesNext
  <2>2. d.todo = <<>>
    BY <2>1, OneLeft
  <2>3. reply = ById(d.arg)'
    BY <1>2, <1>3, <1>6, <2>1 DEF ProfileAsks
  <2>4. c.reply # Error
    BY <1>1, <1>6, WritersApart DEF ProfileTrue
  <2>5. ASSUME ~d.crossed, NEW p, p = ById(d.arg)'
        PROVE  Behind(p)'
    <3>1. p = ById(c.arg)
      BY <1>2, <1>3, <2>5
    <3>2. Behind(p)
      BY <1>1, <1>2, <1>6, <2>4, <2>5, <3>1 DEF ProfileTrue
    <3> QED BY <1>3, <3>2 DEF Behind, NoneFresher
  <2>6. d.thunk \notin Creates \cup {"fetchProfile", "fetchSigningProfiles",
                                     "fetchContactProfiles", "setDeleteProfile"}
    BY <1>2, <1>6, WritersApart
  <2> QED BY <2>2, <2>3, <2>5, <2>6 DEF ProfileTrue
<1>7. CASE c.thunk \in Creates
  <2>1. d.thunk \in Creates /\ d.thunk \notin ChangesProfile \cup {"fetchProfile",
            "fetchSigningProfiles", "fetchContactProfiles", "setDeleteProfile"}
    BY <1>2, <1>7, WritersApart
  <2>2. ProfileFresh' => d.thunk = "setCreateContactProfile" /\ d.arg = profileRoute'
    BY <1>1, <1>2, <1>7 DEF ProfileTrue, NoneFresher
  <2> QED BY <2>1, <2>2 DEF ProfileTrue
<1>8. c.thunk # "setDeleteProfile"
  BY <1>1, <1>4, DeletionNext
<1> QED BY <1>5, <1>6, <1>7, <1>8 DEF ProfileWriters

LEMMA ProfilesRead ==
    ASSUME CallsInv, ProfileState, NEW c \in Of(ProfileThunks), ProfileAsks(c),
           NEW next \in Readings, At(c, next), NEW reply, Answer(c, reply),
           next = "getProfileByPubkey" => reply = profiles[Argument(c)],
           next = "getSigningProfiles" => reply = SigningOnes,
           next = "getContactProfiles" => reply = ContactOnes,
           next = "getProfile" /\ Argument(c) # None => reply = ById(Argument(c)),
           UNCHANGED <<profiles, currentProfile, signingProfiles, contactProfiles>>,
           UNCHANGED <<profileRoute, awaited, doubt>>
    PROVE  ProfileState'
<1>1. c \in calls /\ c.thunk \in ProfileThunks /\ ProfileRequests(c)
  BY DEF Of, ProfileState, ProfileCalls
<1>2. PICK d : /\ Heir(d, c) /\ d.todo = Tail(c.todo) /\ d.reply = reply
               /\ calls' = (calls \ {c}) \cup {d}
  BY <1>1, CallsWhole, AnswerHeirs DEF GoesOn
<1>3. NoneFresher
  BY <1>1, <1>2, AsFresh DEF NoneFresher
<1>4. ProfileTrue(d)'
  BY <1>2, <1>3, ProfileReadTrue
<1>5. ProfileRequests(d)
  BY <1>1, <1>2, ProfileRequestsAfter DEF Heir
<1>6. ProfileCalls'
  <2> SUFFICES ASSUME NEW e \in calls', e.thunk \in ProfileThunks, e # d
               PROVE  ProfileRequests(e) /\ ProfileTrue(e)'
    BY <1>4, <1>5 DEF ProfileCalls, Of, ProfileRequests, ProfileTrue
  <2>1. ProfileRequests(e) /\ ProfileTrue(e) /\ Heir(e, e) /\ Waits(e, e)
    BY <1>2 DEF ProfileState, ProfileCalls, Of, Heir, Waits
  <2> QED BY <1>3, <2>1, ProfileWaits
<1>7. \A b \in calls : \E e \in calls' : e.thunk = b.thunk
  BY <1>2 DEF Heir
<1>8. SigningOnes' = SigningOnes /\ ContactOnes' = ContactOnes
  BY SameProfiles
<1>9. ProfilesFresh'
  BY <1>3, <1>7, <1>8 DEF ProfilesFresh, ProfileState, NoneFresher
<1> QED BY <1>6, <1>9 DEF ProfileState, ProfilesStored

\* The node changes: the call that does it is not over, and has crossed all others.
LEMMA ProfilesChanged ==
    ASSUME CallsInv, CrossInv, ProfileState, NEW c \in Of(ProfileThunks), c.thunk \in ProfileWriters,
           NEW next, At(c, next), NEW d, Heir(d, c), d.todo = Tail(c.todo),
           calls' = (calls \ {c}) \cup {d}, ProfileTrue(d)', ProfilesStored',
           c.thunk = "setCreateContactProfile" => SigningOnes' = SigningOnes,
           UNCHANGED <<currentProfile, signingProfiles, contactProfiles>>,
           UNCHANGED <<profileRoute, awaited, doubt>>
    PROVE  ProfileState'
<1>1. c \in calls /\ c.thunk \in ProfileThunks /\ ProfileRequests(c) /\ c.writes
  BY DEF Of, ProfileState, ProfileCalls, ProfileRequests
<1>2. ProfileFresh' = ProfileFresh /\ SigningFresh' = SigningFresh /\ ContactFresh' = ContactFresh
  BY <1>1, AsFresh
<1>3. ProfileRequests(d) /\ d.thunk = c.thunk
  BY <1>1, ProfileRequestsAfter DEF Heir
<1>4. ProfileCalls'
  <2> SUFFICES ASSUME NEW e \in calls', e.thunk \in ProfileThunks
               PROVE  ProfileRequests(e) /\ ProfileTrue(e)'
    BY DEF ProfileCalls, Of, ProfileRequests, ProfileTrue
  <2>0. CASE e = d
    BY <1>3, <2>0
  <2> SUFFICES ASSUME e # d
               PROVE  ProfileRequests(e) /\ ProfileTrue(e)'
    BY <2>0
  <2>1. e \in calls /\ e # c /\ ProfileRequests(e) /\ ProfileTrue(e)
    BY DEF ProfileState, ProfileCalls, Of
  <2>2. e.crossed
    BY <1>1, <2>1 DEF CrossInv
  <2> QED BY <1>2, <2>1, <2>2 DEF ProfileTrue
<1>5. ProfilesFresh'
  <2>1. d \in calls' /\ d.thunk \in ProfileWriters
    BY <1>3
  <2>2. SigningFresh' => \/ signingProfiles' = SigningOnes'
                         \/ \E e \in calls' : e.thunk \in ProfileWriters \ {"setCreateContactProfile"}
    <3>1. CASE c.thunk # "setCreateContactProfile"
      BY <1>3, <2>1, <3>1
    <3>2. CASE c.thunk = "setCreateContactProfile"
      <4>1. \A b \in calls : \E e \in calls' : e.thunk = b.thunk
        BY <1>3
      <4> QED BY <1>2, <3>2, <4>1 DEF ProfilesFresh, ProfileState
    <3> QED BY <3>1, <3>2
  <2> QED BY <2>1, <2>2 DEF ProfilesFresh
<1> QED BY <1>4, <1>5 DEF ProfileState

\* Once the state of one profile is replaced in a list, only the later state counts.
LEMMA WithLater ==
    ASSUME NEW list, NEW p, p # None, NEW q, q # None, q.pubkey = p.pubkey
    PROVE  With(With(list, p), q) = With(list, q)
<1>1. \A x : (IF (IF x.pubkey = p.pubkey THEN p ELSE x).pubkey = q.pubkey THEN q
              ELSE IF x.pubkey = p.pubkey THEN p ELSE x) =
             IF x.pubkey = q.pubkey THEN q ELSE x
  OBVIOUS
<1> DEFINE Step(x) == IF x.pubkey = p.pubkey THEN p ELSE x
           Then(x) == IF x.pubkey = q.pubkey THEN q ELSE x
<1>2. \A x : Then(Step(x)) = Then(x)
  BY <1>1
<1>3. With(list, p) = {Step(x) : x \in list}
  BY DEF With, updatedProfileInArray
<1>4. \A set : With(set, q) = {Then(x) : x \in set}
  BY DEF With, updatedProfileInArray
<1> HIDE DEF Step, Then
<1> QED BY <1>2, <1>3, <1>4

\* The state that a change gives to the profile with the id.
NewState(q, id) ==
    /\ q \in Profile /\ q.id = id /\ q.pubkey = id[1]
    /\ q.private = ById(id).private

LEMMA SetOnes ==
    ASSUME ProfilesKeyed, NEW id, ById(id) # None, NEW q, NewState(q, id),
           profiles' = [profiles EXCEPT ![id[1]] = q]
    PROVE  /\ ById(id)' = q /\ q # None
           /\ With(SigningOnes, q) = SigningOnes' /\ With(ContactOnes, q) = ContactOnes'
<1>1. PICK k \in PubKey : k = id[1]
  BY ByIdKnown
<1>2. /\ profiles[k] # None /\ ById(id) = profiles[k] /\ k \in Saved /\ q # None
      /\ q.id = id /\ q.pubkey = k /\ q.private = profiles[k].private
  BY <1>1, ByIdKnown, ProfilesAssumption DEF NewState
<1>3. profiles' = [h \in PubKey |-> IF h = k THEN q ELSE profiles[h]]
  BY <1>1 DEF ProfilesKeyed
<1>4. /\ profiles'[k] = q
      /\ \A h \in PubKey : h # k => profiles'[h] = profiles[h]
  BY <1>3
<1>5. Saved' = Saved
  BY <1>2, <1>4 DEF Saved
<1>6. ById(id)' = q
  BY <1>1, <1>2, <1>4, <1>5 DEF ById
<1>7. \A h \in Saved : profiles[h].pubkey = h /\ h \in PubKey
  BY DEF Saved, ProfilesKeyed
<1> DEFINE Then(x) == IF x.pubkey = k THEN q ELSE x
<1>8. \A h \in Saved : Then(profiles[h]) = profiles'[h] /\ profiles'[h].private = profiles[h].private
  BY <1>2, <1>4, <1>7
<1>9. \A list : With(list, q) = {Then(x) : x \in list}
  BY <1>2 DEF With, updatedProfileInArray
<1> HIDE DEF Then
<1>10. With(SigningOnes, q) = SigningOnes'
  BY <1>5, <1>8, <1>9 DEF SigningOnes
<1>11. With(ContactOnes, q) = ContactOnes'
  BY <1>5, <1>8, <1>9 DEF ContactOnes
<1> QED BY <1>2, <1>6, <1>10, <1>11

\* The node changes the profile that the fields are behind with.
LEMMA SetBehind ==
    ASSUME ProfilesKeyed, NEW id, Behind(ById(id)), NEW q, Set(id, q),
           ById(id) # None => NewState(q, id),
           ProfileFresh' = ProfileFresh, SigningFresh' = SigningFresh, ContactFresh' = ContactFresh,
           UNCHANGED <<currentProfile, signingProfiles, contactProfiles, profileRoute>>,
           NEW p, p = ById(id)'
    PROVE  Behind(p)'
<1>1. CASE ById(id) = None
  <2>1. profiles' = profiles
    BY <1>1 DEF Set
  <2>2. p = ById(id) /\ SigningOnes' = SigningOnes /\ ContactOnes' = ContactOnes
    BY <2>1, SameProfiles
  <2> QED BY <2>1, <2>2 DEF Behind
<1>2. CASE ById(id) # None
  <2>1. PICK old : old = ById(id)
    OBVIOUS
  <2>2. profiles' = [profiles EXCEPT ![id[1]] = q]
    BY <1>2 DEF Set
  <2>3. /\ p = q /\ q # None
        /\ With(SigningOnes, q) = SigningOnes' /\ With(ContactOnes, q) = ContactOnes'
    BY <1>2, <2>2, SetOnes
  <2>4. /\ old # None /\ old.pubkey = id[1] /\ q.pubkey = id[1]
        /\ id[1] \in PubKey /\ profiles[id[1]] = old
    BY <1>2, <2>1, ByIdKnown DEF NewState
  <2>5. With(With(signingProfiles, old), q) = With(signingProfiles, q)
        /\ With(With(contactProfiles, old), q) = With(contactProfiles, q)
    BY <2>3, <2>4, WithLater
  <2>6. Behind(old)
    BY <2>1
  <2>7. ProfileFresh => \/ currentProfile = profiles'[profileRoute]
                        \/ /\ q # None /\ q.pubkey = profileRoute
                           /\ currentProfile # None /\ currentProfile.pubkey = profileRoute
    <3> SUFFICES ASSUME ProfileFresh
                 PROVE  \/ currentProfile = profiles'[profileRoute]
                        \/ /\ q.pubkey = profileRoute
                           /\ currentProfile # None /\ currentProfile.pubkey = profileRoute
      BY <2>3
    <3>1. profileRoute \in PubKey
      BY DEF ProfileFresh
    <3>2. CASE profileRoute # id[1]
      <4>1. profiles'[profileRoute] = profiles[profileRoute]
        BY <2>2, <3>1, <3>2 DEF ProfilesKeyed
      <4> QED BY <2>4, <2>6, <3>2, <4>1 DEF Behind
    <3>3. CASE profileRoute = id[1]
      BY <2>4, <2>6, <3>3 DEF Behind
    <3> QED BY <3>2, <3>3
  <2> QED BY <2>3, <2>5, <2>6, <2>7 DEF Behind
<1> QED BY <1>1, <1>2

Updatings == {"setProfileFollowing", "renameProfile", "changeProfileImage"}
Makings == {"createContactProfile", "createSigningProfile", "importSigningProfile"}

\* Which call makes a request that changes what the node has.
LEMMA WhoChanges ==
    ASSUME ProfileState, NEW c \in Of(ProfileThunks), ProfileAsks(c), NEW next, At(c, next)
    PROVE  /\ next \in Updatings =>
                /\ c.thunk \in ChangesProfile /\ ChangesTo(next, Argument(c), c.arg)
                /\ Tail(c.todo) = <<<<"getProfile", c.arg>>>>
           /\ next = "deleteProfile" =>
                c.thunk = "setDeleteProfile" /\ Argument(c) = c.arg /\ Tail(c.todo) = <<>>
           /\ next \in Makings =>
                /\ c.thunk \in Creates /\ MakesOf(next, Argument(c))
                /\ c.thunk = "setCreateContactProfile" => next = "createContactProfile"
<1>1. ProfileRequests(c) /\ c.thunk \in ProfileThunks
  BY DEF ProfileState, ProfileCalls, Of
<1>2. /\ \A arg, id : ChangesTo(next, arg, id) => next \in Updatings
      /\ \A arg : MakesOf(next, arg) => next \in Makings
  BY DEF ChangesTo, MakesOf, Updatings, Makings
<1>3. Updatings \cap Makings = {} /\ "deleteProfile" \notin Updatings \cup Makings
      /\ "getProfile" \notin Updatings \cup Makings
  BY DEF Updatings, Makings
<1>4. CASE c.thunk \notin ProfileWriters
  <2>1. next \in {"getProfileByPubkey", "getSigningProfiles", "getContactProfiles",
                  "getPrivateKey", "getPaymentSummaryForPubkey"}
    BY <1>1, <1>4, ReadsNext
  <2> QED BY <2>1 DEF Updatings, Makings
<1>5. CASE c.thunk \in ChangesProfile
  BY <1>1, <1>2, <1>3, <1>5, ChangesNext
<1>6. CASE c.thunk \in Creates
  BY <1>1, <1>2, <1>3, <1>6, CreatesNext
<1>7. CASE c.thunk = "setDeleteProfile"
  BY <1>1, <1>3, <1>7, DeletionNext
<1> QED BY <1>4, <1>5, <1>6, <1>7 DEF ProfileWriters

LEMMA ProfileUpdated ==
    ASSUME CallsInv, CrossInv, ProfilesKeyed, ProfileState, NEW c \in Of(ProfileThunks),
           ProfileAsks(c), NEW next \in Updatings, At(c, next), Answer(c, None),
           NEW q, Set(c.arg, q), ById(c.arg) # None => NewState(q, c.arg),
           UNCHANGED <<currentProfile, signingProfiles, contactProfiles>>,
           UNCHANGED <<profileRoute, awaited, doubt>>
    PROVE  ProfileState'
<1>1. /\ c \in calls /\ c.thunk \in ChangesProfile /\ ProfileTrue(c)
      /\ Tail(c.todo) = <<<<"getProfile", c.arg>>>> /\ c.todo # <<>>
  BY WhoChanges DEF Of, ProfileState, ProfileCalls, At
<1>2. PICK d : /\ Heir(d, c) /\ d.todo = Tail(c.todo) /\ d.reply = None
               /\ calls' = (calls \ {c}) \cup {d}
  BY <1>1, CallsWhole, AnswerHeirs DEF GoesOn
<1>3. d.thunk = c.thunk /\ d.arg = c.arg /\ (~d.crossed => ~c.crossed)
  BY <1>2 DEF Heir
<1>4. d.todo # <<>> /\ d.reply # Error
  BY <1>1, <1>2, OneLeft, ThunksAssumption
<1>5. c.thunk \notin Creates \cup {"setDeleteProfile", "setCreateContactProfile"}
      /\ c.thunk \in ProfileWriters
  BY <1>1, WritersApart DEF Creates
<1>6. ProfileFresh' = ProfileFresh /\ SigningFresh' = SigningFresh /\ ContactFresh' = ContactFresh
  BY <1>1, <1>2, AsFresh
<1>7. ASSUME ~d.crossed, NEW p, p = ById(d.arg)'
      PROVE  Behind(p)'
  <2>1. Behind(ById(c.arg))
    BY <1>1, <1>3, <1>5, <1>7 DEF ProfileTrue
  <2>2. p = ById(c.arg)'
    BY <1>3, <1>7
  <2>3. PICK id : id = c.arg
    OBVIOUS
  <2>4. p = ById(id)' /\ Behind(ById(id)) /\ Set(id, q) /\ (ById(id) # None => NewState(q, id))
    BY <2>1, <2>2, <2>3
  <2> QED BY <1>6, <2>4, SetBehind
<1>8. ProfileTrue(d)'
  BY <1>3, <1>4, <1>5, <1>7 DEF ProfileTrue
<1>9. ProfilesStored'
  BY DEF ProfileState, ProfilesStored, Set, NewState
<1> QED BY <1>1, <1>2, <1>5, <1>8, <1>9, ProfilesChanged

LEMMA ProfileDeleted ==
    ASSUME CallsInv, CrossInv, ProfilesKeyed, ProfileState, NEW c \in Of(ProfileThunks),
           ProfileAsks(c), deleteProfile(c),
           UNCHANGED <<currentProfile, signingProfiles, contactProfiles>>,
           UNCHANGED <<profileRoute, awaited, doubt>>
    PROVE  ProfileState'
<1>0. At(c, "deleteProfile") /\ Answer(c, None)
  BY DEF deleteProfile
<1>1. /\ c \in calls /\ c.thunk = "setDeleteProfile" /\ ProfileTrue(c)
      /\ Argument(c) = c.arg /\ Tail(c.todo) = <<>> /\ c.todo # <<>>
  BY <1>0, WhoChanges DEF Of, ProfileState, ProfileCalls, At
<1>2. PICK d : /\ Heir(d, c) /\ d.todo = Tail(c.todo) /\ d.reply = None
               /\ calls' = (calls \ {c}) \cup {d}
  BY <1>0, <1>1, CallsWhole, AnswerHeirs DEF GoesOn
<1>3. d.thunk = c.thunk /\ d.arg = c.arg /\ (~d.crossed => ~c.crossed) /\ d.todo = <<>>
  BY <1>1, <1>2 DEF Heir
<1>4. d.reply # Error
  BY <1>2, ThunksAssumption
<1>5. c.thunk \notin Creates \cup ChangesProfile /\ c.thunk \in ProfileWriters
      /\ c.thunk # "setCreateContactProfile"
  BY <1>1, WritersApart
<1>6. ProfileFresh' = ProfileFresh
  BY <1>1, <1>2, AsFresh
<1>7. Set(c.arg, None)
  BY <1>1 DEF deleteProfile
<1>8. ASSUME ~d.crossed, ProfileFresh
      PROVE  DeletionTrue(d)'
  <2>1. currentProfile = profiles[profileRoute] /\ profileRoute \in PubKey
    BY <1>1, <1>3, <1>5, <1>8 DEF ProfileTrue, DeletionTrue, ProfileFresh
  <2>2. profiles[profileRoute] # None =>
            profiles[profileRoute].id[1] = profileRoute /\ profileRoute \in Saved
    BY <2>1 DEF ProfilesKeyed, WellFormed, Saved
  <2>3. profiles[profileRoute] # None /\ profiles[profileRoute].id = c.arg =>
            ById(c.arg) = profiles[profileRoute] /\ c.arg[1] = profileRoute
    BY <2>2 DEF ById
  <2>4. CASE ById(c.arg) = None
    <3>1. profiles' = profiles /\ ~(currentProfile # None /\ currentProfile.id = c.arg)
      BY <1>7, <2>1, <2>3, <2>4 DEF Set
    <3> QED BY <1>3, <2>1, <3>1 DEF DeletionTrue
  <2>5. CASE ById(c.arg) # None
    <3>1. profiles' = [profiles EXCEPT ![c.arg[1]] = None]
      BY <1>7, <2>5 DEF Set
    <3>2. profiles'[profileRoute] =
            IF profileRoute = c.arg[1] THEN None ELSE profiles[profileRoute]
      BY <2>1, <3>1 DEF ProfilesKeyed
    <3>3. ById(c.arg).id = c.arg /\ ById(c.arg) = profiles[c.arg[1]] /\ profiles[c.arg[1]] # None
      BY <2>5, ByIdKnown
    <3>4. profileRoute = c.arg[1] => currentProfile # None /\ currentProfile.id = c.arg
      BY <2>1, <3>3
    <3> QED BY <1>3, <2>1, <2>3, <3>2, <3>4 DEF DeletionTrue
  <2> QED BY <2>4, <2>5
<1>9. ProfileTrue(d)'
  <2>1. c.thunk \notin {"fetchProfile", "fetchSigningProfiles", "fetchContactProfiles"}
    BY <1>1
  <2> QED BY <1>3, <1>4, <1>5, <1>6, <1>8, <2>1 DEF ProfileTrue
<1>10. ProfilesStored'
  BY <1>7 DEF ProfileState, ProfilesStored, Set
<1> QED BY <1>0, <1>2, <1>5, <1>9, <1>10, ProfilesChanged

\* The node makes a profile, whose key had none.
LEMMA ProfileMade ==
    ASSUME CallsInv, CrossInv, ProfilesKeyed, ProfileState, NEW c \in Of(ProfileThunks),
           ProfileAsks(c), NEW next \in Makings, At(c, next),
           NEW k \in PubKey, NEW name \in Name, NEW private \in BOOLEAN, Make(c, k, name, private),
           next = "createContactProfile" => ~private,
           UNCHANGED <<currentProfile, signingProfiles, contactProfiles, summaryForPubkey>>,
           UNCHANGED <<profilePage, awaited, doubt>>
    PROVE  ProfileState'
<1>0. UNCHANGED profileRoute
  BY DEF profilePage
<1>1. /\ c \in calls /\ c.thunk \in Creates /\ ProfileTrue(c) /\ c.thunk \in ProfileWriters
      /\ c.thunk = "setCreateContactProfile" => ~private
  BY WhoChanges, WritersApart DEF Of, ProfileState, ProfileCalls
<1>2. CASE Refuse(c) /\ UNCHANGED profileNode
  BY <1>2, ProfilesRefused DEF profileVars, profileFields
<1>3. CASE ~(Refuse(c) /\ UNCHANGED profileNode)
  <2>1. PICK id : id = <<k, born[k] + 1>>
    OBVIOUS
  <2>2. PICK q : q = [id |-> id, pubkey |-> k, name |-> name, following |-> private,
                      image |-> FALSE, private |-> private]
    OBVIOUS
  <2>3. profiles' = [profiles EXCEPT ![k] = q] /\ Answer(c, id) /\ k \notin Saved
    BY <1>3, <2>1, <2>2 DEF Make
  <2>4. q \in Profile
    <3>1. id \in Id
      BY <2>1 DEF Id, ProfilesKeyed
    <3> QED BY <2>2, <3>1 DEF Profile
  <2>5. ProfilesStored'
    BY <2>3, <2>4 DEF ProfileState, ProfilesStored
  <2>6. PICK d : /\ Heir(d, c) /\ d.todo = Tail(c.todo) /\ calls' = (calls \ {c}) \cup {d}
    BY <1>1, <2>3, CallsWhole, AnswerHeirs DEF GoesOn
  <2>7. ProfileFresh' = ProfileFresh
    BY <1>0, <1>1, <2>6, AsFresh
  <2>8. d.thunk \in Creates /\ d.thunk \notin ChangesProfile \cup {"fetchProfile",
            "fetchSigningProfiles", "fetchContactProfiles", "setDeleteProfile"}
    BY <1>1, <2>6, WritersApart DEF Heir
  <2>9. ProfileFresh' => d.thunk = "setCreateContactProfile" /\ d.arg = profileRoute'
    BY <1>0, <1>1, <2>6, <2>7 DEF ProfileTrue, Heir
  <2>10. ProfileTrue(d)'
    BY <2>8, <2>9 DEF ProfileTrue
  <2>11. c.thunk = "setCreateContactProfile" => SigningOnes' = SigningOnes
    <3> SUFFICES ASSUME ~private
                 PROVE  SigningOnes' = SigningOnes
      BY <1>1
    <3>1. profiles[k] = None /\ q.private = FALSE /\ q # None
      BY <2>2, <2>3, <2>4, ProfilesAssumption DEF Saved
    <3>2. profiles'[k] = q /\ \A h \in PubKey : h # k => profiles'[h] = profiles[h]
      BY <2>3 DEF ProfilesKeyed
    <3>3. {h \in Saved' : profiles'[h].private} = {h \in Saved : profiles[h].private}
      BY <3>1, <3>2 DEF Saved
    <3>4. \A h \in {g \in Saved : profiles[g].private} : profiles'[h] = profiles[h]
      BY <3>1, <3>2 DEF Saved
    <3> QED BY <3>3, <3>4 DEF SigningOnes
  <2> QED BY <1>0, <1>1, <2>5, <2>6, <2>10, <2>11, ProfilesChanged
<1> QED BY <1>2, <1>3

\* The state that a change gives to a profile is one of a profile.
LEMMA NewStates ==
    ASSUME ProfilesKeyed, ProfilesStored, NEW id, ById(id) # None
    PROVE  /\ \A x \in BOOLEAN : NewState([ById(id) EXCEPT !.following = x], id)
           /\ \A x \in Name : NewState([ById(id) EXCEPT !.name = x], id)
           /\ NewState([ById(id) EXCEPT !.image = TRUE], id)
<1>1. PICK p : p = ById(id)
  OBVIOUS
<1>2. p \in Profile /\ p.id = id /\ p.pubkey = id[1]
  BY <1>1, ByIdKnown DEF ProfilesStored
<1>3. ASSUME NEW x \in BOOLEAN
      PROVE  LET q == [p EXCEPT !.following = x]
             IN  q \in Profile /\ q.id = p.id /\ q.pubkey = p.pubkey /\ q.private = p.private
  BY <1>2 DEF Profile
<1>4. ASSUME NEW x \in Name
      PROVE  LET q == [p EXCEPT !.name = x]
             IN  q \in Profile /\ q.id = p.id /\ q.pubkey = p.pubkey /\ q.private = p.private
  BY <1>2 DEF Profile
<1>5. LET q == [p EXCEPT !.image = TRUE]
      IN  q \in Profile /\ q.id = p.id /\ q.pubkey = p.pubkey /\ q.private = p.private
  BY <1>2 DEF Profile
<1> QED BY <1>1, <1>2, <1>3, <1>4, <1>5 DEF NewState

LEMMA ProfileServerKeeps ==
    ASSUME CallsInv, CrossInv, ProfilesKeyed, ProfileState, \A c \in calls : ProfileAsks(c),
           ProfileServer
    PROVE  ProfileState'
<1>1. PICK c \in Of(ProfileThunks) :
        \/ getProfileByPubkey(c) \/ getProfile(c)
        \/ getSigningProfiles(c) \/ getContactProfiles(c)
        \/ setProfileFollowing(c) \/ renameProfile(c) \/ changeProfileImage(c) \/ deleteProfile(c)
        \/ createContactProfile(c) \/ createSigningProfile(c) \/ importSigningProfile(c)
        \/ getPrivateKey(c) \/ getPaymentSummaryForPubkey(c)
  BY DEF ProfileServer
<1>2. /\ UNCHANGED <<currentProfile, signingProfiles, contactProfiles, summaryForPubkey>>
      /\ UNCHANGED <<profileRoute, profilePage, awaited, doubt>>
  BY DEF ProfileServer, profileFields, profilePage
<1>3. ProfileAsks(c) /\ ProfilesStored
  BY DEF Of, ProfileState
<1>4. ASSUME Refuse(c), UNCHANGED profileNode
      PROVE  ProfileState'
  BY <1>2, <1>4, ProfilesRefused DEF profileVars, profileFields
<1>5. ASSUME NEW next \in Readings, At(c, next), NEW reply, Answer(c, reply),
             next = "getProfileByPubkey" => reply = profiles[Argument(c)],
             next = "getSigningProfiles" => reply = SigningOnes,
             next = "getContactProfiles" => reply = ContactOnes,
             next = "getProfile" /\ Argument(c) # None => reply = ById(Argument(c)),
             UNCHANGED profileNode
      PROVE  ProfileState'
  BY <1>2, <1>3, <1>5, ProfilesRead DEF profileNode
<1>6. CASE getProfileByPubkey(c)
  <2>1. "getProfileByPubkey" \in Readings
    BY DEF Readings
  <2> QED BY <1>5, <1>6, <2>1 DEF getProfileByPubkey
<1>7. CASE getProfile(c)
  <2>1. "getProfile" \in Readings
    BY DEF Readings
  <2> QED BY <1>4, <1>5, <1>7, <2>1 DEF getProfile
<1>8. CASE getSigningProfiles(c)
  <2>1. "getSigningProfiles" \in Readings
    BY DEF Readings
  <2> QED BY <1>5, <1>8, <2>1 DEF getSigningProfiles
<1>9. CASE getContactProfiles(c)
  <2>1. "getContactProfiles" \in Readings
    BY DEF Readings
  <2> QED BY <1>5, <1>9, <2>1 DEF getContactProfiles
<1>10. CASE getPrivateKey(c)
  <2>1. "getPrivateKey" \in Readings
    BY DEF Readings
  <2>2. \E reply : Refuse(c) \/ Answer(c, reply)
    BY <1>10 DEF getPrivateKey
  <2> QED BY <1>4, <1>5, <1>10, <2>1, <2>2 DEF getPrivateKey
<1>11. CASE getPaymentSummaryForPubkey(c)
  <2>1. "getPaymentSummaryForPubkey" \in Readings
    BY DEF Readings
  <2> QED BY <1>5, <1>11, <2>1 DEF getPaymentSummaryForPubkey
<1>12. ASSUME NEW next \in Updatings, At(c, next), Answer(c, None),
              NEW q, Set(c.arg, q), ById(c.arg) # None => NewState(q, c.arg)
       PROVE  ProfileState'
  BY <1>2, <1>3, <1>12, ProfileUpdated
<1>13. ASSUME NEW next \in Updatings, At(c, next)
       PROVE  ChangesTo(next, Argument(c), c.arg)
  BY <1>3, <1>13, WhoChanges
<1>14. CASE setProfileFollowing(c)
  <2>1. "setProfileFollowing" \in Updatings /\ At(c, "setProfileFollowing")
    BY <1>14 DEF Updatings, setProfileFollowing
  <2>2. Argument(c)[1] = c.arg /\ Argument(c)[2] \in BOOLEAN
    BY <1>13, <2>1 DEF ChangesTo
  <2>3. PICK q : q = [ById(c.arg) EXCEPT !.following = Argument(c)[2]]
    OBVIOUS
  <2>4. Set(c.arg, q) /\ Answer(c, None)
    BY <1>14, <2>2, <2>3 DEF setProfileFollowing
  <2>5. ById(c.arg) # None => NewState(q, c.arg)
    BY <1>3, <2>2, <2>3, NewStates
  <2> QED BY <1>12, <2>1, <2>4, <2>5
<1>15. CASE renameProfile(c)
  <2>1. "renameProfile" \in Updatings /\ At(c, "renameProfile")
    BY <1>15 DEF Updatings, renameProfile
  <2>2. Argument(c)[1] = c.arg /\ Argument(c)[2] \in Name
    BY <1>13, <2>1 DEF ChangesTo
  <2>3. PICK q : q = [ById(c.arg) EXCEPT !.name = Argument(c)[2]]
    OBVIOUS
  <2>4. CASE Refuse(c) /\ UNCHANGED profiles
    BY <1>4, <1>15, <2>4 DEF renameProfile, profileNode
  <2>5. CASE Set(c.arg, q) /\ Answer(c, None)
    <3>1. ById(c.arg) # None => NewState(q, c.arg)
      BY <1>3, <2>2, <2>3, NewStates
    <3> QED BY <1>12, <2>1, <2>5, <3>1
  <2> QED BY <1>15, <2>2, <2>3, <2>4, <2>5 DEF renameProfile
<1>16. CASE changeProfileImage(c)
  <2>1. "changeProfileImage" \in Updatings /\ At(c, "changeProfileImage")
    BY <1>16 DEF Updatings, changeProfileImage
  <2>2. Argument(c) = c.arg
    BY <1>13, <2>1 DEF ChangesTo
  <2>3. PICK q : q = [ById(c.arg) EXCEPT !.image = TRUE]
    OBVIOUS
  <2>4. Set(c.arg, q) /\ Answer(c, None)
    BY <1>16, <2>2, <2>3 DEF changeProfileImage
  <2>5. ById(c.arg) # None => NewState(q, c.arg)
    BY <1>3, <2>3, NewStates
  <2> QED BY <1>12, <2>1, <2>4, <2>5
<1>17. CASE deleteProfile(c)
  BY <1>2, <1>3, <1>17, ProfileDeleted
<1>18. ASSUME NEW next \in Makings, At(c, next), NEW k \in PubKey, NEW name \in Name,
              NEW private \in BOOLEAN, Make(c, k, name, private),
              next = "createContactProfile" => ~private
       PROVE  ProfileState'
  BY <1>2, <1>3, <1>18, ProfileMade
<1>19. /\ "createContactProfile" \in Makings /\ "createSigningProfile" \in Makings
       /\ "importSigningProfile" \in Makings
       /\ \A next \in Makings : At(c, next) => MakesOf(next, Argument(c))
  BY <1>3, WhoChanges DEF Makings
<1>20. CASE createContactProfile(c)
  BY <1>18, <1>19, <1>20 DEF createContactProfile, MakesOf
<1>21. CASE createSigningProfile(c)
  BY <1>18, <1>19, <1>21, ProfilesAssumption DEF createSigningProfile, MakesOf
<1>22. CASE importSigningProfile(c)
  BY <1>18, <1>19, <1>22 DEF importSigningProfile, MakesOf
<1> QED BY <1>1, <1>6, <1>7, <1>8, <1>9, <1>10, <1>11, <1>14, <1>15, <1>16, <1>17,
        <1>20, <1>21, <1>22

\* A call ends; what its `then' dispatches is fetching.
Yields(c) ==
    /\ \A e \in calls' : (\E b \in calls \ {c} : Waits(e, b)) \/ Fetches(e)
    /\ \A b \in calls \ {c} : \E e \in calls' : Waits(e, b)

LEMMA EndsYields ==
    ASSUME NEW c, Ends(c)
    PROVE  Yields(c)
BY DEF Ends, Yields

LEMMA BeginYields ==
    ASSUME CallsInv, NEW c \in calls, NEW D,
           \A d \in D : d.thunk \notin ProfileWriters /\ d.todo # <<>>,
           calls' = Begin(D, c.id, calls \ {c})
    PROVE  Yields(c)
<1> DEFINE rest == calls \ {c}
<1>1. calls' = Begin(D, c.id, rest) /\ \A b \in rest : IsCall(b)
  BY CallsWhole
<1> HIDE DEF rest
<1>2. \A e \in Begin(D, c.id, rest) :
        \/ \E b \in rest : Waits(e, b) /\ e = [b EXCEPT !.crossed = @ \/ Writes(D)]
        \/ \E d \in Followed(D) : e = Started(d, c.id, rest)
  BY <1>1, BeginHeirs
<1>3. \A b \in rest : \E e \in Begin(D, c.id, rest) : Waits(e, b)
  BY <1>1, BeginHeirs
<1>4. \A d \in Followed(D) : Fetches(Started(d, c.id, rest))
  BY DEF Followed, Started, Fetches
<1> QED BY <1>1, <1>2, <1>3, <1>4 DEF Yields, rest

\* What no other call crossed has no other one that changes a profile beside it.
LEMMA ProfileUncrossed ==
    ASSUME CrossInv, ProfileState, NEW c \in calls, ~c.crossed
    PROVE  \A b \in calls \ {c} : b.thunk \notin ProfileWriters
<1> SUFFICES ASSUME NEW b \in calls \ {c}, b.thunk \in ProfileWriters
             PROVE  FALSE
  OBVIOUS
<1>1. b.writes
  BY WritersApart DEF ProfileState, ProfileCalls, Of, ProfileRequests
<1> QED BY <1>1 DEF CrossInv

\* A call ends, while the node stays as it is.
LEMMA ProfilesEnd ==
    ASSUME CrossInv, ProfileState, NEW c \in calls, Yields(c), UNCHANGED profiles,
           c.crossed => NoneFresher,
           ProfileFresh' => \/ currentProfile' = profiles[profileRoute']
                            \/ \E b \in calls \ {c} : b.thunk \in ProfileWriters,
           SigningFresh' => \/ signingProfiles' = SigningOnes
                            \/ \E b \in calls \ {c} :
                                b.thunk \in ProfileWriters \ {"setCreateContactProfile"},
           ContactFresh' => \/ contactProfiles' = ContactOnes
                            \/ \E b \in calls \ {c} : b.thunk \in ProfileWriters
    PROVE  ProfileState'
<1>1. ProfileCalls'
  <2> SUFFICES ASSUME NEW e \in calls', e.thunk \in ProfileThunks
               PROVE  ProfileRequests(e) /\ ProfileTrue(e)'
    BY DEF ProfileCalls, Of, ProfileRequests, ProfileTrue
  <2>1. CASE Fetches(e)
    BY <2>1, FetchesTrue
  <2>2. CASE \E b \in calls \ {c} : Waits(e, b)
    <3>1. PICK b \in calls \ {c} : Waits(e, b)
      BY <2>2
    <3>2. e.thunk \in ProfileWriters => NoneFresher
      BY <3>1, ProfileUncrossed DEF Waits, Heir
    <3>3. ProfileRequests(b) /\ ProfileTrue(b) /\ Heir(e, b)
      BY <3>1 DEF ProfileState, ProfileCalls, Of, Waits, Heir
    <3> QED BY <3>1, <3>2, <3>3, ProfileWaits
  <2> QED BY <2>1, <2>2 DEF Yields
<1>2. SigningOnes' = SigningOnes /\ ContactOnes' = ContactOnes
  BY SameProfiles
<1>3. \A b \in calls \ {c} : \E e \in calls' : e.thunk = b.thunk
  BY DEF Yields, Waits, Heir
<1>4. ProfilesFresh'
  BY <1>2, <1>3 DEF ProfilesFresh
<1> QED BY <1>1, <1>4 DEF ProfileState, ProfilesStored

\* The fields stay and get no fresher: a reply that they have nothing to do with.
LEMMA ProfilesEndSame ==
    ASSUME CrossInv, ProfileState, NEW c \in calls, Yields(c), UNCHANGED profiles, NoneFresher,
           c.thunk \notin ProfileWriters
    PROVE  ProfileState'
<1>1. ProfilesFresh
  BY DEF ProfileState
<1>2. ProfileFresh' => \/ currentProfile' = profiles[profileRoute']
                       \/ \E b \in calls \ {c} : b.thunk \in ProfileWriters
  BY <1>1 DEF ProfilesFresh, NoneFresher
<1>3. SigningFresh' => \/ signingProfiles' = SigningOnes
                       \/ \E b \in calls \ {c} :
                                b.thunk \in ProfileWriters \ {"setCreateContactProfile"}
  BY <1>1 DEF ProfilesFresh, NoneFresher
<1>4. ContactFresh' => \/ contactProfiles' = ContactOnes
                       \/ \E b \in calls \ {c} : b.thunk \in ProfileWriters
  BY <1>1 DEF ProfilesFresh, NoneFresher
<1> QED BY <1>2, <1>3, <1>4, ProfilesEnd

\* Nothing is fresh any more.
LEMMA ProfilesEndStale ==
    ASSUME CrossInv, ProfileState, NEW c \in calls, Yields(c), UNCHANGED profiles,
           ~ProfileFresh', ~SigningFresh', ~ContactFresh'
    PROVE  ProfileState'
BY ProfilesEnd DEF NoneFresher

\* The page of a key that no call fetches any more may be as fresh as before.
LEMMA StillFresh ==
    ASSUME NEW c \in calls, Yields(c), c.thunk # "fetchProfile", UNCHANGED profileRoute,
           "currentProfile" \in awaited \cup doubt => "currentProfile" \in awaited' \cup doubt',
           ProfileFresh'
    PROVE  ProfileFresh
BY DEF ProfileFresh, Yields, Waits, Heir

LEMMA FetchProfileFulfilledKeeps ==
    ASSUME CallsInv, CrossInv, ProfileState, NEW c \in calls, fetchProfileFulfilled(c),
           UNCHANGED profiles
    PROVE  ProfileState'
<1>1. /\ c.thunk = "fetchProfile" /\ c.todo = <<>> /\ c.reply # Error
      /\ c.thunk \in ProfileThunks /\ c.thunk \notin ProfileWriters /\ c.thunk \notin Creates
  BY WritersApart DEF fetchProfileFulfilled, Done, ProfileThunks, Creates
<1>2. Yields(c)
  BY SettleEnds, EndsYields DEF fetchProfileFulfilled
<1>3. ~c.crossed => c.reply = profiles[c.arg]
  BY <1>1 DEF ProfileState, ProfileCalls, Of, ProfileTrue
<1>4. ProfileFresh' => ~c.crossed /\ c.arg = profileRoute'
  BY DEF fetchProfileFulfilled, ProfileArrives, Replaces, ProfileFresh, profilePage
<1>5. SigningFresh' = SigningFresh /\ ContactFresh' = ContactFresh
      /\ UNCHANGED <<signingProfiles, contactProfiles>>
  BY DEF fetchProfileFulfilled, ProfileArrives, Replaces, SigningFresh, ContactFresh
<1>6. ProfileFresh' => currentProfile' = profiles[profileRoute']
  BY <1>3, <1>4 DEF fetchProfileFulfilled
<1>7. c.crossed => NoneFresher
  BY <1>4, <1>5 DEF NoneFresher
<1>8. /\ SigningFresh' => \/ signingProfiles' = SigningOnes
                          \/ \E b \in calls \ {c} :
                                b.thunk \in ProfileWriters \ {"setCreateContactProfile"}
      /\ ContactFresh' => \/ contactProfiles' = ContactOnes
                          \/ \E b \in calls \ {c} : b.thunk \in ProfileWriters
  BY <1>1, <1>5 DEF ProfileState, ProfilesFresh
<1> QED BY <1>2, <1>6, <1>7, <1>8, ProfilesEnd

LEMMA FetchSigningProfilesFulfilledKeeps ==
    ASSUME CallsInv, CrossInv, ProfileState, NEW c \in calls, fetchSigningProfilesFulfilled(c),
           UNCHANGED profiles
    PROVE  ProfileState'
<1>1. /\ c.thunk = "fetchSigningProfiles" /\ c.todo = <<>> /\ c.reply # Error
      /\ c.thunk \in ProfileThunks /\ c.thunk \notin ProfileWriters /\ c.thunk \notin Creates
  BY WritersApart DEF fetchSigningProfilesFulfilled, Done, ProfileThunks, Creates
<1>2. Yields(c)
  BY SettleEnds, EndsYields DEF fetchSigningProfilesFulfilled
<1>3. ~c.crossed => c.reply = SigningOnes
  BY <1>1 DEF ProfileState, ProfileCalls, Of, ProfileTrue
<1>4. SigningFresh' => ~c.crossed
  BY DEF fetchSigningProfilesFulfilled, Replaces, SigningFresh
<1>5. /\ ProfileFresh' => ProfileFresh
      /\ UNCHANGED <<currentProfile, contactProfiles, profileRoute>>
  BY <1>1, <1>2, StillFresh DEF fetchSigningProfilesFulfilled, Replaces, profilePage
<1>6. ContactFresh' = ContactFresh
  BY DEF fetchSigningProfilesFulfilled, Replaces, ContactFresh
<1>7. SigningFresh' => signingProfiles' = SigningOnes
  BY <1>3, <1>4 DEF fetchSigningProfilesFulfilled
<1>8. c.crossed => NoneFresher
  BY <1>4, <1>5, <1>6 DEF NoneFresher
<1>9. /\ ProfileFresh' => \/ currentProfile' = profiles[profileRoute']
                          \/ \E b \in calls \ {c} : b.thunk \in ProfileWriters
      /\ ContactFresh' => \/ contactProfiles' = ContactOnes
                          \/ \E b \in calls \ {c} : b.thunk \in ProfileWriters
  BY <1>1, <1>5, <1>6 DEF ProfileState, ProfilesFresh
<1> QED BY <1>2, <1>7, <1>8, <1>9, ProfilesEnd

LEMMA FetchContactProfilesFulfilledKeeps ==
    ASSUME CallsInv, CrossInv, ProfileState, NEW c \in calls, fetchContactProfilesFulfilled(c),
           UNCHANGED profiles
    PROVE  ProfileState'
<1>1. /\ c.thunk = "fetchContactProfiles" /\ c.todo = <<>> /\ c.reply # Error
      /\ c.thunk \in ProfileThunks /\ c.thunk \notin ProfileWriters /\ c.thunk \notin Creates
  BY WritersApart DEF fetchContactProfilesFulfilled, Done, ProfileThunks, Creates
<1>2. Yields(c)
  BY SettleEnds, EndsYields DEF fetchContactProfilesFulfilled
<1>3. ~c.crossed => c.reply = ContactOnes
  BY <1>1 DEF ProfileState, ProfileCalls, Of, ProfileTrue
<1>4. ContactFresh' => ~c.crossed
  BY DEF fetchContactProfilesFulfilled, Replaces, ContactFresh
<1>5. /\ ProfileFresh' => ProfileFresh
      /\ UNCHANGED <<currentProfile, signingProfiles, profileRoute>>
  BY <1>1, <1>2, StillFresh DEF fetchContactProfilesFulfilled, Replaces, profilePage
<1>6. SigningFresh' = SigningFresh
  BY DEF fetchContactProfilesFulfilled, Replaces, SigningFresh
<1>7. ContactFresh' => contactProfiles' = ContactOnes
  BY <1>3, <1>4 DEF fetchContactProfilesFulfilled
<1>8. c.crossed => NoneFresher
  BY <1>4, <1>5, <1>6 DEF NoneFresher
<1>9. /\ ProfileFresh' => \/ currentProfile' = profiles[profileRoute']
                          \/ \E b \in calls \ {c} : b.thunk \in ProfileWriters
      /\ SigningFresh' => \/ signingProfiles' = SigningOnes
                          \/ \E b \in calls \ {c} :
                                b.thunk \in ProfileWriters \ {"setCreateContactProfile"}
  BY <1>1, <1>5, <1>6 DEF ProfileState, ProfilesFresh
<1> QED BY <1>2, <1>7, <1>8, <1>9, ProfilesEnd

\* The new state of a profile is all that the fields lack.
LEMMA SetProfileFulfilledKeeps ==
    ASSUME CallsInv, CrossInv, ProfilesKeyed, ProfileState, NEW c \in calls,
           setProfileFulfilled(c), UNCHANGED profiles
    PROVE  ProfileState'
<1>1. /\ c.thunk \in ChangesProfile /\ c.todo = <<>> /\ c.reply # Error
      /\ c.thunk \in ProfileThunks /\ c.thunk \notin Creates /\ c.thunk # "fetchProfile"
  BY WritersApart DEF setProfileFulfilled, Done
<1>2. Yields(c)
  BY SettleEnds, EndsYields DEF setProfileFulfilled
<1>3. CASE c.crossed
  <2>1. ProfileFields \subseteq doubt'
    BY <1>3 DEF setProfileFulfilled, Updates
  <2>2. ~ProfileFresh' /\ ~SigningFresh' /\ ~ContactFresh'
    BY <2>1 DEF ProfileFresh, SigningFresh, ContactFresh, ProfileFields, ProfileLists
  <2> QED BY <1>2, <2>2, ProfilesEndStale
<1>4. CASE ~c.crossed
  <2>1. PICK p : p = c.reply
    OBVIOUS
  <2>2. p = ById(c.arg) /\ Behind(p)
    BY <1>1, <1>4, <2>1 DEF ProfileState, ProfileCalls, Of, ProfileTrue
  <2>3. UNCHANGED <<awaited, doubt, profileRoute>> /\ StoreProfile(p)
    BY <1>4, <2>1 DEF setProfileFulfilled, Updates, profilePage
  <2>4. SigningFresh' = SigningFresh /\ ContactFresh' = ContactFresh
    BY <2>3 DEF SigningFresh, ContactFresh
  <2>5. ProfileFresh' => ProfileFresh
    BY <1>1, <1>2, <2>3, StillFresh
  <2>6. signingProfiles' = With(signingProfiles, p) /\ contactProfiles' = With(contactProfiles, p)
    BY <2>3 DEF StoreProfile, With
  <2>7. /\ SigningFresh' => signingProfiles' = SigningOnes
        /\ ContactFresh' => contactProfiles' = ContactOnes
    BY <2>2, <2>4, <2>6 DEF Behind
  <2>8. ASSUME ProfileFresh
        PROVE  currentProfile' = profiles[profileRoute]
    <3>1. profileRoute \in PubKey
      BY <2>8 DEF ProfileFresh
    <3>2. p # None => p = profiles[p.pubkey]
      BY <2>2, ByIdKnown
    <3>3. currentProfile = profiles[profileRoute] /\ currentProfile # None =>
                currentProfile.pubkey = profileRoute
      BY <3>1 DEF ProfilesKeyed
    <3>4. CASE p = None
      BY <2>2, <2>3, <2>8, <3>4 DEF Behind, StoreProfile
    <3>5. CASE p # None
      <4>1. currentProfile' = IF currentProfile # None /\ currentProfile.pubkey = p.pubkey
                              THEN p ELSE currentProfile
        BY <2>3, <3>5 DEF StoreProfile
      <4> QED BY <2>2, <2>8, <3>2, <3>3, <3>5, <4>1 DEF Behind
    <3> QED BY <3>4, <3>5
  <2>9. ProfileFresh' => currentProfile' = profiles[profileRoute']
    BY <2>3, <2>5, <2>8
  <2> QED BY <1>2, <1>4, <2>7, <2>9, ProfilesEnd
<1> QED BY <1>3, <1>4

LEMMA SetDeleteProfileFulfilledKeeps ==
    ASSUME CallsInv, CrossInv, ProfileState, NEW c \in calls, setDeleteProfileFulfilled(c),
           UNCHANGED profiles
    PROVE  ProfileState'
<1>1. /\ c.thunk = "setDeleteProfile" /\ c.todo = <<>> /\ c.reply # Error
      /\ c.thunk \in ProfileThunks
  BY WritersApart DEF setDeleteProfileFulfilled, Done
<1>2. Yields(c)
  BY SettleEnds, EndsYields DEF setDeleteProfileFulfilled
<1>3. ~SigningFresh' /\ ~ContactFresh'
  BY DEF setDeleteProfileFulfilled, SigningFresh, ContactFresh, ProfileFields, ProfileLists
<1>4. CASE c.crossed
  <2>1. ~ProfileFresh'
    BY <1>4 DEF setDeleteProfileFulfilled, ProfileFresh, ProfileFields
  <2> QED BY <1>2, <1>3, <2>1, ProfilesEndStale
<1>5. CASE ~c.crossed
  <2>1. ProfileFresh' => ProfileFresh /\ profileRoute' = profileRoute
    BY <1>1, <1>2, StillFresh DEF setDeleteProfileFulfilled, profilePage
  <2>2. ProfileFresh => DeletionTrue(c)
    BY <1>1, <1>5 DEF ProfileState, ProfileCalls, Of, ProfileTrue
  <2>3. ProfileFresh' => currentProfile' = profiles[profileRoute']
    BY <1>1, <2>1, <2>2 DEF DeletionTrue, setDeleteProfileFulfilled
  <2> QED BY <1>2, <1>3, <1>5, <2>3, ProfilesEnd
<1> QED BY <1>4, <1>5

\* A page of a key is fetched in the views that follow that, in the others its
\* profile is never there.
PageViewInv ==
    /\ "fetchProfile" \in view \/ "currentProfile" \in awaited
    /\ Follows(ProfileThunks) \/ awaited = ProfileFields

\* The page reads the profile that was made for it.
LEMMA AddContactProfileFulfilledKeeps ==
    ASSUME CallsInv, CrossInv, PageViewInv, ProfileState, NEW c \in calls,
           AddContactProfileFulfilled(c), UNCHANGED profiles
    PROVE  ProfileState'
<1>1. /\ c.thunk = "setCreateContactProfile" /\ c.thunk \in Creates
      /\ c.thunk \in ProfileThunks /\ c.thunk # "fetchProfile"
  BY DEF AddContactProfileFulfilled, Done, Creates, ProfileThunks
<1>2. calls' = Begin({fetchProfile(c.arg)}, c.id, calls \ {c})
  BY DEF AddContactProfileFulfilled, Settle
<1>3. Yields(c)
  <2>1. PICK D : D = {fetchProfile(c.arg)}
    OBVIOUS
  <2>2. \A d \in D : d.thunk \notin ProfileWriters /\ d.todo # <<>>
    BY <2>1, ProfileReadsOpen
  <2> QED BY <1>2, <2>1, <2>2, BeginYields
<1>4. /\ UNCHANGED <<currentProfile, signingProfiles, contactProfiles, profileRoute, awaited>>
      /\ doubt' = doubt \cup {"contactProfiles"}
  BY DEF AddContactProfileFulfilled, profileFields, profilePage
<1>5. ~ProfileFresh'
  <2> SUFFICES ASSUME ProfileFresh'
               PROVE  FALSE
    OBVIOUS
  <2>1. ProfileFresh
    BY <1>1, <1>3, <1>4, StillFresh
  <2>2. c.arg = profileRoute
    BY <1>1, <2>1 DEF ProfileState, ProfileCalls, Of, ProfileTrue
  <2>3. "fetchProfile" \in view
    BY <2>1 DEF PageViewInv, ProfileFresh
  <2>4. fetchProfile(c.arg).thunk = "fetchProfile" /\ fetchProfile(c.arg).arg = c.arg
    BY DEF fetchProfile, Read
  <2>5. PICK d : d = fetchProfile(c.arg)
    OBVIOUS
  <2>6. d \in Followed({d})
    BY <2>3, <2>4, <2>5 DEF Followed
  <2>7. Started(d, c.id, calls \ {c}) \in calls'
    BY <1>2, <2>5, <2>6 DEF Begin
  <2>8. \E e \in calls' : e.thunk = "fetchProfile" /\ e.arg = c.arg
    BY <2>4, <2>5, <2>7 DEF Started
  <2> QED BY <1>4, <2>2, <2>8 DEF ProfileFresh
<1>6. SigningFresh' = SigningFresh /\ ~ContactFresh'
  BY <1>4 DEF SigningFresh, ContactFresh
<1>7. NoneFresher
  BY <1>4, <1>5, <1>6 DEF NoneFresher
<1>8. SigningFresh' => \/ signingProfiles' = SigningOnes
                       \/ \E b \in calls \ {c} :
                                b.thunk \in ProfileWriters \ {"setCreateContactProfile"}
  BY <1>1, <1>4, <1>6 DEF ProfileState, ProfilesFresh
<1> QED BY <1>3, <1>5, <1>6, <1>7, <1>8, ProfilesEnd

LEMMA CreateProfileFulfilledKeeps ==
    ASSUME CallsInv, CrossInv, ProfileState, NEW c \in calls, createProfileFulfilled(c),
           UNCHANGED profiles
    PROVE  ProfileState'
<1>1. /\ c.thunk \in Creates /\ (c.thunk = "setCreateContactProfile" => c.arg = None)
      /\ c.thunk \in ProfileThunks /\ c.thunk # "fetchProfile"
  BY DEF createProfileFulfilled, Done, Creates, ProfileThunks
<1>2. \E D \in SUBSET (ProfileMounted(c.reply) \cup {fetchSigningProfiles}) : Settle(c, D)
  BY DEF createProfileFulfilled
<1>3. Yields(c)
  <2>1. PICK D \in SUBSET (ProfileMounted(c.reply) \cup {fetchSigningProfiles}) : Settle(c, D)
    BY <1>2
  <2>2. \A d \in D : d.thunk \notin ProfileWriters /\ d.todo # <<>>
    BY ProfileReadsOpen DEF ProfileMounted
  <2>3. calls' = Begin(D, c.id, calls \ {c})
    BY <2>1 DEF Settle
  <2> QED BY <2>2, <2>3, BeginYields
<1>4. ~SigningFresh' /\ ~ContactFresh'
  BY DEF createProfileFulfilled, SigningFresh, ContactFresh, ProfileLists
<1>5. ~ProfileFresh
  BY <1>1, ProfilesAssumption DEF ProfileState, ProfileCalls, Of, ProfileTrue, ProfileFresh
<1>6. ~ProfileFresh'
  <2>1. CASE profileRoute # c.reply
    BY <2>1 DEF createProfileFulfilled, ProfileFresh
  <2>2. CASE profileRoute = c.reply
    <3>1. profileRoute' = profileRoute /\ awaited' = awaited /\ doubt \subseteq doubt'
      BY <2>2 DEF createProfileFulfilled
    <3> QED BY <1>1, <1>3, <1>5, <3>1, StillFresh
  <2> QED BY <2>1, <2>2
<1> QED BY <1>3, <1>4, <1>6, ProfilesEndStale

LEMMA ProfileReplyKeeps ==
    ASSUME CallsInv, CrossInv, ProfilesKeyed, PageViewInv, ProfileState, ProfileReply
    PROVE  ProfileState'
<1>1. PICK c \in calls :
        \/ fetchProfileFulfilled(c) \/ fetchPaymentSummaryForPubkeyFulfilled(c)
        \/ fetchSigningProfilesFulfilled(c) \/ fetchContactProfilesFulfilled(c)
        \/ setProfileFulfilled(c) \/ setDeleteProfileFulfilled(c)
        \/ getProfilePrivateKeyFulfilled(c) \/ ProfileReducerThrows(c)
        \/ AddContactProfileFulfilled(c) \/ createProfileFulfilled(c)
        \/ createContactProfileRejected(c) \/ ProfileThunkRejected(c)
  BY DEF ProfileReply
<1>2. UNCHANGED profiles
  BY DEF ProfileReply, profileNode
<1>3. CASE fetchPaymentSummaryForPubkeyFulfilled(c)
  <2>1. c.thunk \notin ProfileWriters /\ c.thunk # "fetchProfile" /\ Yields(c)
    BY <1>3, WritersApart, SettleEnds, EndsYields DEF fetchPaymentSummaryForPubkeyFulfilled, Done
  <2>2. /\ UNCHANGED <<currentProfile, signingProfiles, contactProfiles, profileRoute>>
        /\ \A field \in {"currentProfile", "signingProfiles", "contactProfiles"} :
                field \in awaited \cup doubt <=> field \in awaited' \cup doubt'
    BY <1>3 DEF fetchPaymentSummaryForPubkeyFulfilled, ProfileArrives, Replaces, profilePage
  <2>3. ProfileFresh' => ProfileFresh
    BY <2>1, <2>2, StillFresh
  <2>4. NoneFresher
    BY <2>2, <2>3 DEF NoneFresher, SigningFresh, ContactFresh
  <2> QED BY <1>2, <2>1, <2>4, ProfilesEndSame
<1>4. CASE getProfilePrivateKeyFulfilled(c)
  <2>1. c.thunk \notin ProfileWriters /\ c.thunk # "fetchProfile" /\ Yields(c)
    BY <1>4, WritersApart, SettleEnds, EndsYields DEF getProfilePrivateKeyFulfilled, Done
  <2>2. /\ UNCHANGED <<currentProfile, signingProfiles, contactProfiles, profileRoute>>
        /\ UNCHANGED <<awaited, doubt>>
    BY <1>4 DEF getProfilePrivateKeyFulfilled, profileFields
  <2>3. ProfileFresh' => ProfileFresh
    BY <2>1, <2>2, StillFresh
  <2>4. NoneFresher
    BY <2>2, <2>3 DEF NoneFresher, SigningFresh, ContactFresh
  <2> QED BY <1>2, <2>1, <2>4, ProfilesEndSame
<1>5. ASSUME ProfileFields \subseteq doubt', Yields(c)
      PROVE  ProfileState'
  <2>1. ~ProfileFresh' /\ ~SigningFresh' /\ ~ContactFresh'
    BY <1>5 DEF ProfileFresh, SigningFresh, ContactFresh, ProfileFields, ProfileLists
  <2> QED BY <1>2, <1>5, <2>1, ProfilesEndStale
<1>6. CASE ProfileReducerThrows(c)
  <2>1. Ends(c)
    BY <1>6 DEF ProfileReducerThrows, Crash, Ends, Waits, Heir
  <2> QED BY <1>5, <1>6, <2>1, EndsYields DEF ProfileReducerThrows
<1>7. CASE createContactProfileRejected(c)
  <2>1. Yields(c)
    <3>1. PICK D : D = {fetchProfile(c.arg)}
      OBVIOUS
    <3>2. \A d \in D : d.thunk \notin ProfileWriters /\ d.todo # <<>>
      BY <3>1, ProfileReadsOpen
    <3>3. calls' = Begin(D, c.id, calls \ {c})
      BY <1>7, <3>1 DEF createContactProfileRejected
    <3> QED BY <3>2, <3>3, BeginYields
  <2> QED BY <1>5, <1>7, <2>1 DEF createContactProfileRejected
<1>8. CASE ProfileThunkRejected(c)
  <2>1. Rejected(c, FALSE, ProfileFields)
    BY <1>8 DEF ProfileThunkRejected
  <2>2. Yields(c)
    BY <2>1, RejectedEnds, EndsYields
  <2> QED BY <1>5, <2>1, <2>2 DEF Rejected
<1> QED BY <1>1, <1>2, <1>3, <1>4, <1>6, <1>7, <1>8, FetchProfileFulfilledKeeps,
        FetchSigningProfilesFulfilledKeeps, FetchContactProfilesFulfilledKeeps,
        SetProfileFulfilledKeeps, SetDeleteProfileFulfilledKeeps,
        AddContactProfileFulfilledKeeps, CreateProfileFulfilledKeeps

LEMMA PageViewInvNext == ViewInv /\ PageViewInv /\ [Next]_vars => PageViewInv'
<1> SUFFICES ASSUME ViewInv, PageViewInv, [Next]_vars
             PROVE  PageViewInv'
  OBVIOUS
<1>1. view' = view
  BY ViewStays
<1>2. CASE UNCHANGED awaited
  BY <1>1, <1>2 DEF PageViewInv, Follows
<1>3. CASE Profiles
  <2>1. "currentProfile" \in awaited => "fetchProfile" \in view \/ "currentProfile" \in awaited'
    <3>1. CASE UNCHANGED awaited \/ awaited \subseteq awaited'
      BY <3>1
    <3>2. CASE ProfileUser
      BY <3>2 DEF ProfileUser, OpenProfile, OpenSigningProfiles, OpenContactProfiles,
         OpenMakeSqueak, ClickFollow, changeAvatar, ClickDeleteProfile, exportPrivateKey,
         ClickCardFollow, editProfile, AddContactProfile, createSigning, createContact,
         importSigning, profileVars
    <3>3. CASE ProfileServer
      BY <3>3 DEF ProfileServer
    <3>4. ASSUME NEW c \in calls, fetchProfileFulfilled(c)
          PROVE  "fetchProfile" \in view
      BY <3>4 DEF ViewInv, fetchProfileFulfilled, Done
    <3>5. CASE ProfileReply
      BY <3>4, <3>5 DEF ProfileReply, fetchPaymentSummaryForPubkeyFulfilled, ProfileArrives,
         fetchSigningProfilesFulfilled, fetchContactProfilesFulfilled, setProfileFulfilled,
         ProfileReducerThrows, setDeleteProfileFulfilled, getProfilePrivateKeyFulfilled,
         ProfileThunkRejected, createContactProfileRejected, AddContactProfileFulfilled,
         createProfileFulfilled
    <3> QED BY <1>3, <3>2, <3>3, <3>5 DEF Profiles
  <2> QED BY <1>1, <1>3, <2>1 DEF PageViewInv, Profiles, Follows
<1> QED BY <1>2, <1>3 DEF Next, vars, Lost, butSqueaks, butPeers, butPayments, butSettings,
        profileVars

LEMMA LogoutFarFromProfiles ==
    ASSUME ViewInv, PageViewInv, ProfileState, NEW c \in calls, setLogoutFulfilled(c),
           UNCHANGED profileVars
    PROVE  ProfileState'
<1>1. "setLogout" \in view /\ calls' = {}
  BY DEF ViewInv, setLogoutFulfilled, Done
<1>2. view \subseteq SettingsThunks
  BY <1>1, LogoutAssumption DEF ViewInv
<1>3. SettingsThunks \cap ProfileThunks = {}
  BY DEF SettingsThunks, ProfileThunks
<1>4. awaited' = ProfileFields /\ profiles' = profiles
  BY <1>2, <1>3 DEF PageViewInv, Follows, profileVars, profileNode
<1> QED BY <1>1, <1>4 DEF ProfileState, ProfilesStored, ProfileCalls, ProfilesFresh, ProfileFresh,
        SigningFresh, ContactFresh, Of, ProfileFields, ProfileLists

\* A step of another slice.
LEMMA OthersApartFromProfiles ==
    ASSUME CallsInv, ViewInv, PageViewInv, ProfileState, Squeaks \/ Peers \/ Payments \/ Settings,
           UNCHANGED profileVars
    PROVE  ProfileState'
<1>1. CASE Squeaks
  <2>1. SliceStep(SqueakThunks) /\ doubt \ SqueakFields \subseteq doubt'
    BY <1>1, SqueaksSliceStep, SqueaksDoubt DEF Squeaks
  <2>2. ProfileThunks \cap SqueakThunks = {} /\ ProfileFields \cap SqueakFields = {}
    BY DEF ProfileThunks, SqueakThunks, ProfileFields, ProfileLists, SqueakFields, PageFields, List
  <2> QED BY <2>1, <2>2, SliceElsewhere, ProfilesElsewhere
<1>2. CASE Peers
  <2>1. SliceStep(PeerThunks) /\ doubt \ PeerFields \subseteq doubt'
    BY <1>2, PeersSliceStep, PeersDoubt DEF Peers
  <2>2. ProfileThunks \cap PeerThunks = {} /\ ProfileFields \cap PeerFields = {}
    BY DEF PeerThunks, ProfileThunks, PeerFields, ProfileFields, ProfileLists
  <2> QED BY <2>1, <2>2, SliceElsewhere, ProfilesElsewhere
<1>3. CASE Payments
  <2>1. SliceStep(PaymentThunks) /\ doubt \ {} \subseteq doubt'
    BY <1>3, PaymentsSliceStep, PaymentsDoubt DEF Payments
  <2>2. ProfileThunks \cap PaymentThunks = {} /\ ProfileFields \cap {} = {}
    BY DEF ProfileThunks, PaymentThunks
  <2> QED BY <2>1, <2>2, SliceElsewhere, ProfilesElsewhere
<1>4. CASE Settings /\ \A c \in calls : ~setLogoutFulfilled(c)
  <2>1. /\ SliceStep(SettingsThunks)
        /\ doubt \ {"sellPriceInfo", "twitterAccounts"} \subseteq doubt'
    BY <1>4, SettingsStays DEF Settings
  <2>2. /\ ProfileThunks \cap SettingsThunks = {}
        /\ ProfileFields \cap {"sellPriceInfo", "twitterAccounts"} = {}
    BY DEF ProfileThunks, SettingsThunks, ProfileFields, ProfileLists
  <2> QED BY <2>1, <2>2, SliceElsewhere, ProfilesElsewhere
<1>5. CASE \E c \in calls : setLogoutFulfilled(c)
  BY <1>5, LogoutFarFromProfiles
<1> QED BY <1>1, <1>2, <1>3, <1>4, <1>5

\* What the theorem about the profiles that are shown rests on.
QuietProfilesInv == CrossInv /\ CallsInv /\ PagesInv /\ ViewInv /\ PageViewInv /\ ProfileState

LEMMA ProfilesStoredInit == ProfilesInit => ProfilesStored
<1> DEFINE Initial == [id : {<<k, 1>> : k \in PubKey}, pubkey : PubKey, name : Name,
                       following : {FALSE}, image : {FALSE}, private : BOOLEAN]
<1>1. Initial \subseteq Profile
  <2>1. {<<k, 1>> : k \in PubKey} \subseteq Id
    BY DEF Id
  <2> QED BY <2>1 DEF Profile
<1> HIDE DEF Initial
<1>2. ProfilesInit => profiles \in [PubKey -> Initial \cup {None}]
  BY DEF ProfilesInit, Initial
<1> QED BY <1>1, <1>2 DEF ProfilesStored

LEMMA QuietProfilesInvInit == Init => QuietProfilesInv
<1> SUFFICES ASSUME Init
             PROVE  QuietProfilesInv
  OBVIOUS
<1>1. calls = {} /\ view \in DOMAIN Views /\ peerAwaited = PeerFields /\ awaited = ProfileFields
  BY DEF Init, ThunksInit, PeersInit, ProfilesInit
<1>2. CallsInv /\ CrossInv /\ ViewInv /\ PageViewInv
  BY <1>1 DEF CallsInv, CrossInv, ViewInv, PageViewInv, ProfileFields
<1>3. PagesInv
  BY PagesInvInit
<1>4. ProfileState
  BY <1>1, ProfilesStoredInit DEF Init, ProfileState, ProfileCalls, ProfilesFresh, ProfileFresh,
     SigningFresh, ContactFresh, Of, ProfileFields, ProfileLists
<1> QED BY <1>2, <1>3, <1>4 DEF QuietProfilesInv

LEMMA QuietProfilesInvNext == QuietProfilesInv /\ [Next]_vars => QuietProfilesInv'
<1> SUFFICES ASSUME QuietProfilesInv, [Next]_vars
             PROVE  QuietProfilesInv'
  OBVIOUS
<1>1. /\ CallsInv /\ CrossInv /\ PagesInv /\ ViewInv /\ PageViewInv /\ ProfileState
      /\ ProfilesKeyed /\ \A c \in calls : ProfileAsks(c)
  BY DEF QuietProfilesInv, PagesInv, ProfileAsked
<1>2. CrossInv' /\ CallsInv' /\ PagesInv' /\ ViewInv' /\ PageViewInv'
  BY <1>1, CrossedInvNext, PagesInvNext, ViewInvNext, PageViewInvNext DEF CrossedInv
<1>3. CASE Profiles
  BY <1>1, <1>2, <1>3, ProfileUserKeeps, ProfileServerKeeps, ProfileReplyKeeps
     DEF Profiles, QuietProfilesInv
<1>4. CASE (Squeaks \/ Peers \/ Payments \/ Settings) /\ UNCHANGED profileVars
  BY <1>1, <1>2, <1>4, OthersApartFromProfiles DEF QuietProfilesInv
<1>5. ASSUME Elsewhere(ProfileThunks, ProfileFields), UNCHANGED profileVars
      PROVE  QuietProfilesInv'
  BY <1>1, <1>2, <1>5, ProfilesElsewhere DEF QuietProfilesInv
<1>6. CASE Lost
  <2>1. Elsewhere(ProfileThunks, ProfileFields)
    BY <1>1, <1>6, LostElsewhere DEF Lost
  <2> QED BY <1>5, <1>6, <2>1 DEF Lost, butSqueaks
<1>7. CASE UNCHANGED vars
  <2>1. Elsewhere(ProfileThunks, ProfileFields)
    BY <1>7, StutterElsewhere DEF vars, thunkVars
  <2> QED BY <1>5, <1>7, <2>1 DEF vars
<1> QED BY <1>3, <1>4, <1>6, <1>7 DEF Next, butSqueaks, butPeers, butPayments, butSettings

LEMMA QuietProfilesInvQuiet == QuietProfilesInv => QuietProfilesTrue
<1> SUFFICES ASSUME ProfilesFresh, calls = {}
             PROVE  /\ profileRoute \in PubKey /\ "currentProfile" \notin awaited \cup doubt =>
                            currentProfile = profiles[profileRoute]
                    /\ "signingProfiles" \notin awaited \cup doubt => signingProfiles = SigningOnes
                    /\ "contactProfiles" \notin awaited \cup doubt => contactProfiles = ContactOnes
  BY DEF QuietProfilesInv, ProfileState, QuietProfilesTrue
<1> QED BY DEF ProfilesFresh, ProfileFresh, SigningFresh, ContactFresh

\* Whatever is followed, renamed, made and deleted meanwhile, on cards and on the
\* page of a key, once nothing is under way the page shows the profile that the
\* node has for its key, or none, and the lists are the profiles one can sign with
\* and the others, unless one of them is marked as stale: by overlapping or failed
\* calls, by a deletion, or by an answer for another page (currentProfile,
\* signingProfiles and contactProfiles of the slice of profiles).
THEOREM QuietProfilesShowTheNode == Spec => []QuietProfilesTrue
BY QuietProfilesInvInit, QuietProfilesInvNext, QuietProfilesInvQuiet, PTL DEF Spec
=============================================================================
