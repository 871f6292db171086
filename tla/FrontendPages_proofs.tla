------------------------ MODULE FrontendPages_proofs ------------------------
(***************************************************************************)
(* Proofs about what AdminFrontend shows of squeaks once nothing is under  *)
(* way, and about what all its slices hold, for any squeaks, profiles,     *)
(* peers, payments and views, and any number of calls, acts of the user    *)
(* and lost requests.                                                      *)
(***************************************************************************)
EXTENDS AdminFrontend_proofs

-----------------------------------------------------------------------------
(* The page of a squeak: its squeak, its offers and what was spent on it.  *)

\* Those that ask for the squeak again once it is changed.
Rereads == {"setLikeSqueak", "setUnlikeSqueak", "setBuySqueak", "setDownloadSqueak"}

SqueakWriters == Rereads \cup {"setDeleteSqueak", "setMakeSqueak"}

\* What a thunk asks for first.
RequestOf(thunk) ==
    CASE thunk = "fetchSqueak" -> "getSqueak"
      [] thunk = "setLikeSqueak" -> "likeSqueak"
      [] thunk = "setUnlikeSqueak" -> "unlikeSqueak"
      [] thunk = "setDeleteSqueak" -> "deleteSqueak"
      [] thunk = "fetchAncestorSqueaks" -> "getAncestorSqueaks"
      [] thunk = "fetchReplySqueaks" -> "getReplySqueaks"
      [] thunk = "fetchTimeline" -> "getTimelineSqueaks"
      [] thunk = "fetchSearch" -> "getSearchSqueaks"
      [] thunk = "fetchProfileSqueaks" -> "getProfileSqueaks"
      [] thunk = "setMakeSqueak" -> "makeSqueak"
      [] thunk = "fetchSqueakOffers" -> "getSqueakOffers"
      [] thunk = "setBuySqueak" -> "buySqueak"
      [] thunk = "setDownloadSqueak" -> "downloadSqueak"
      [] OTHER -> "getPaymentSummaryForSqueak"

\* What is left of a request and of the reading of the squeak after it.
Rereading(todo, request, arg, s) ==
    todo \in {<<<<request, arg>>, <<"getSqueak", s>>>>, <<<<"getSqueak", s>>>>, <<>>}

SqueakRequests(c) ==
    /\ c.thunk \in SqueakWriters => c.writes
    /\ IF c.thunk \in Rereads
       THEN \E arg : /\ c.thunk # "setBuySqueak" => arg = c.arg
                     /\ Rereading(c.todo, RequestOf(c.thunk), arg, c.arg)
       ELSE Asking(c.todo, RequestOf(c.thunk), c.arg)

\* Nothing speaks against the field of the page: what it holds is what the node
\* has, but for calls that are under way.
CurrentFresh == squeakRoute \in Squeak /\ "current" \notin foreign \cup doubt
OffersFresh == squeakRoute \in Squeak /\ "offers" \notin foreign \cup doubt
SummaryFresh ==
    /\ squeakRoute \in Squeak /\ "summary" \notin foreign \cup doubt
    /\ \A c \in calls : c.thunk # "fetchPaymentSummaryForSqueak"

\* The page shows its squeak, or will once the new state of s is stored.
Awaits(s) ==
    \/ currentSqueak = EntryOf(squeakRoute)
    \/ /\ s = squeakRoute /\ EntryOf(s) # None
       /\ currentSqueak # None /\ currentSqueak.hash = s

\* Or once the squeak that is gone is left out.
RemovalTrue(c) ==
    IF c.todo = <<>> /\ currentSqueak # None /\ currentSqueak.hash = c.arg
    THEN EntryOf(squeakRoute) = None ELSE currentSqueak = EntryOf(squeakRoute)

\* A call that no other one crossed: what it ends with is what the node has, and
\* what it changes is all that the current squeak lacks.
SqueakTrue(c) ==
    /\ c.reply = Error => c.todo = <<>>
    /\ ~c.crossed /\ c.reply # Error =>
        /\ c.todo = <<>> =>
            /\ c.thunk \in Rereads \cup {"fetchSqueak"} => c.reply = EntryOf(c.arg)
            /\ c.thunk = "fetchSqueakOffers" => c.reply = UnpaidOffers(c.arg)
            /\ c.thunk = "fetchPaymentSummaryForSqueak" => c.reply = Spent(c.arg)
        /\ CurrentFresh =>
            /\ c.thunk \in Rereads \ {"setDownloadSqueak"} => Awaits(c.arg)
            /\ c.thunk = "setBuySqueak" => c.arg = squeakRoute
            /\ c.thunk = "setDeleteSqueak" => RemovalTrue(c)

SqueakCalls == \A c \in Of(SqueakThunks) : SqueakRequests(c) /\ SqueakTrue(c)

\* The fields hold what the node has, or a call that changes that is not over.
SqueaksFresh ==
    /\ CurrentFresh => \/ currentSqueak = EntryOf(squeakRoute)
                       \/ \E c \in calls : c.thunk \in SqueakWriters
    /\ OffersFresh => \/ squeakOffers = UnpaidOffers(squeakRoute)
                      \/ \E c \in calls : c.thunk = "setBuySqueak"
    /\ SummaryFresh => \/ summaryForSqueak = Spent(squeakRoute)
                       \/ \E c \in calls : c.thunk = "setBuySqueak"

RowStored == row \in [Squeak -> Row \cup {None}]

SqueakState == RowStored /\ SqueakCalls /\ SqueaksFresh

\* The current squeak gets no fresher in a step, or changes while it stays fresh.
CurrentNoFresher == CurrentFresh' => CurrentFresh /\ UNCHANGED <<currentSqueak, squeakRoute>>

PageNoFresher ==
    /\ CurrentNoFresher
    /\ OffersFresh' => OffersFresh /\ UNCHANGED <<squeakOffers, squeakRoute>>
    /\ SummaryFresh' => SummaryFresh /\ UNCHANGED <<summaryForSqueak, squeakRoute>>

\* The kinds of thunks are apart.
LEMMA SqueakWritersApart ==
    /\ \A thunk \in SqueakWriters :
            thunk \notin {"fetchSqueak", "fetchAncestorSqueaks", "fetchReplySqueaks", "fetchTimeline",
                          "fetchSearch", "fetchProfileSqueaks", "fetchSqueakOffers",
                          "fetchPaymentSummaryForSqueak"}
    /\ Rereads \subseteq SqueakWriters /\ SqueakWriters \subseteq SqueakThunks
    /\ "setDeleteSqueak" \notin Rereads /\ "setMakeSqueak" \notin Rereads
BY DEF SqueakWriters, Rereads, SqueakThunks

\* What the node has stays.
LEMMA SameSqueaks ==
    ASSUME UNCHANGED <<row, paid>>
    PROVE  \A s : EntryOf(s)' = EntryOf(s) /\ UnpaidOffers(s)' = UnpaidOffers(s) /\ Spent(s)' = Spent(s)
BY DEF EntryOf, UnpaidOffers, Spent

\* A call waits, or has failed, while the node stays as it is.
LEMMA SqueakWaits ==
    ASSUME NEW c, SqueakRequests(c), SqueakTrue(c), UNCHANGED <<row, paid>>,
           NEW e, Heir(e, c), Waits(e, c) \/ (e.todo = <<>> /\ e.reply = Error),
           e.thunk \in SqueakWriters => CurrentNoFresher
    PROVE  SqueakRequests(e) /\ SqueakTrue(e)'
<1>1. \A s : EntryOf(s)' = EntryOf(s) /\ UnpaidOffers(s)' = UnpaidOffers(s) /\ Spent(s)' = Spent(s)
  BY SameSqueaks
<1>2. e.thunk = c.thunk /\ e.arg = c.arg /\ e.writes = c.writes /\ (c.crossed => e.crossed)
  BY DEF Heir
<1>3. SqueakRequests(e)
  <2>1. CASE e.todo = c.todo
    BY <1>2, <2>1 DEF SqueakRequests
  <2>2. CASE e.todo = <<>>
    <3>1. \A request, arg, s : Rereading(e.todo, request, arg, s) /\ Asking(e.todo, request, arg)
      BY <2>2 DEF Rereading, Asking
    <3> QED BY <1>2, <3>1 DEF SqueakRequests
  <2> QED BY <2>1, <2>2 DEF Waits
<1>4. e.reply = Error => e.todo = <<>>
  BY DEF SqueakTrue, Waits
<1>5. CASE e.crossed \/ e.reply = Error
  BY <1>3, <1>4, <1>5 DEF SqueakTrue
<1>6. CASE ~e.crossed /\ e.reply # Error
  <2>1. e.todo = c.todo /\ e.reply = c.reply /\ ~c.crossed
    BY <1>2, <1>6 DEF Waits
  <2>2. e.todo = <<>> =>
            /\ e.thunk \in Rereads \cup {"fetchSqueak"} => e.reply = EntryOf(e.arg)'
            /\ e.thunk = "fetchSqueakOffers" => e.reply = UnpaidOffers(e.arg)'
            /\ e.thunk = "fetchPaymentSummaryForSqueak" => e.reply = Spent(e.arg)'
    BY <1>1, <1>2, <1>6, <2>1 DEF SqueakTrue
  <2>3. ASSUME CurrentFresh', e.thunk \in SqueakWriters
        PROVE  /\ e.thunk \in Rereads \ {"setDownloadSqueak"} => Awaits(e.arg)'
               /\ e.thunk = "setBuySqueak" => e.arg = squeakRoute'
               /\ e.thunk = "setDeleteSqueak" => RemovalTrue(e)'
    <3>1. CurrentFresh /\ UNCHANGED <<currentSqueak, squeakRoute>>
      BY <2>3 DEF CurrentNoFresher
    <3>2. /\ e.thunk \in Rereads \ {"setDownloadSqueak"} => Awaits(e.arg)
          /\ e.thunk = "setBuySqueak" => e.arg = squeakRoute
          /\ e.thunk = "setDeleteSqueak" => RemovalTrue(c)
      BY <1>2, <1>6, <2>1, <3>1 DEF SqueakTrue
    <3>3. EntryOf(squeakRoute)' = EntryOf(squeakRoute)
      BY <1>1, <3>1 DEF EntryOf
    <3>4. EntryOf(e.arg)' = EntryOf(e.arg)
      BY <1>1
    <3> QED BY <1>2, <2>1, <3>1, <3>2, <3>3, <3>4 DEF Awaits, RemovalTrue
  <2>4. e.thunk \in Rereads \/ e.thunk = "setDeleteSqueak" => e.thunk \in SqueakWriters
    BY DEF SqueakWriters
  <2>5. "setBuySqueak" \in Rereads
    BY DEF Rereads
  <2> QED BY <1>3, <1>4, <1>6, <2>2, <2>3, <2>4, <2>5 DEF SqueakTrue
<1> QED BY <1>5, <1>6

LEMMA SqueaksElsewhere ==
    ASSUME SqueakState, Elsewhere(SqueakThunks, SqueakFields),
           UNCHANGED <<row, paid, currentSqueak, squeakOffers, summaryForSqueak>>,
           UNCHANGED <<squeakRoute, foreign>>
    PROVE  SqueakState'
<1>1. /\ "fetchPaymentSummaryForSqueak" \in SqueakThunks /\ SqueakWriters \subseteq SqueakThunks
      /\ "setBuySqueak" \in SqueakThunks /\ {"current", "offers", "summary"} \subseteq SqueakFields
  BY SqueakWritersApart DEF SqueakThunks, SqueakFields, PageFields
<1>2. PageNoFresher
  <2>1. SummaryFresh' => SummaryFresh
    BY <1>1 DEF SummaryFresh, Elsewhere, Of, Heir
  <2> QED BY <1>1, <2>1 DEF PageNoFresher, CurrentNoFresher, CurrentFresh, OffersFresh, Elsewhere
<1>3. SqueakCalls'
  <2> SUFFICES ASSUME NEW e \in calls', e.thunk \in SqueakThunks
               PROVE  SqueakRequests(e) /\ SqueakTrue(e)'
    BY DEF SqueakCalls, Of, SqueakRequests, SqueakTrue
  <2>1. PICK c \in calls : Heir(e, c) /\ (Waits(e, c) \/ (e.todo = <<>> /\ e.reply = Error))
    BY DEF Elsewhere
  <2>2. SqueakRequests(c) /\ SqueakTrue(c)
    BY <2>1 DEF SqueakState, SqueakCalls, Of, Heir
  <2> QED BY <1>2, <2>1, <2>2, SqueakWaits DEF PageNoFresher
<1>4. \A c \in calls : c.thunk \in SqueakThunks => \E e \in calls' : e.thunk = c.thunk
  BY DEF Elsewhere, Of, Heir
<1>5. /\ EntryOf(squeakRoute)' = EntryOf(squeakRoute)
      /\ UnpaidOffers(squeakRoute)' = UnpaidOffers(squeakRoute)
      /\ Spent(squeakRoute)' = Spent(squeakRoute)
  BY DEF EntryOf, UnpaidOffers, Spent
<1>6. SqueaksFresh'
  BY <1>1, <1>2, <1>4, <1>5 DEF SqueaksFresh, SqueakState, PageNoFresher, CurrentNoFresher
<1> QED BY <1>3, <1>6 DEF SqueakState, RowStored

\* A thunk that a page of squeaks dispatches.
SqueakOpens(d) ==
    /\ SqueakRequests(d) /\ d.todo # <<>>
    /\ d.thunk = "setBuySqueak" => d.arg = squeakRoute

LEMMA AskingOpens ==
    ASSUME NEW d, d.thunk \notin Rereads, d.thunk \in SqueakWriters => d.writes = TRUE,
           d.todo = <<<<RequestOf(d.thunk), d.arg>>>>
    PROVE  SqueakOpens(d)
<1>1. d.todo # <<>> /\ Asking(d.todo, RequestOf(d.thunk), d.arg)
  BY OneLeft DEF Asking
<1>2. d.thunk # "setBuySqueak"
  BY DEF Rereads
<1> QED BY <1>1, <1>2 DEF SqueakOpens, SqueakRequests

LEMMA RereadingOpens ==
    ASSUME NEW d, NEW arg, d.thunk \in Rereads, d.writes = TRUE,
           d.thunk # "setBuySqueak" => arg = d.arg,
           d.thunk = "setBuySqueak" => d.arg = squeakRoute,
           d.todo = <<<<RequestOf(d.thunk), arg>>, <<"getSqueak", d.arg>>>>
    PROVE  SqueakOpens(d)
<1>1. d.todo # <<>> /\ Rereading(d.todo, RequestOf(d.thunk), arg, d.arg)
  BY DEF Rereading
<1> QED BY <1>1 DEF SqueakOpens, SqueakRequests

LEMMA SqueakReadsOpen ==
    ASSUME NEW s
    PROVE  \A d \in {fetchSqueak(s), fetchAncestorSqueaks(s), fetchReplySqueaks(s), fetchTimeline,
                     fetchSearch, fetchProfileSqueaks, fetchSqueakOffers(s),
                     fetchPaymentSummaryForSqueak(s)} :
                SqueakOpens(d) /\ d.thunk \notin SqueakWriters
<1>1. ASSUME NEW d, d.todo = <<<<RequestOf(d.thunk), d.arg>>>>,
             d.thunk \in {"fetchSqueak", "fetchAncestorSqueaks", "fetchReplySqueaks", "fetchTimeline",
                          "fetchSearch", "fetchProfileSqueaks", "fetchSqueakOffers",
                          "fetchPaymentSummaryForSqueak"}
      PROVE  SqueakOpens(d) /\ d.thunk \notin SqueakWriters
  BY <1>1, AskingOpens, SqueakWritersApart
<1>2. ASSUME NEW d, NEW thunk, NEW arg, NEW status,
             d = Read(thunk, arg, <<<<RequestOf(thunk), arg>>>>, status)
      PROVE  d.thunk = thunk /\ d.todo = <<<<RequestOf(d.thunk), d.arg>>>>
  BY <1>2 DEF Read
<1>3. /\ RequestOf("fetchSqueak") = "getSqueak"
      /\ RequestOf("fetchAncestorSqueaks") = "getAncestorSqueaks"
      /\ RequestOf("fetchReplySqueaks") = "getReplySqueaks"
      /\ RequestOf("fetchTimeline") = "getTimelineSqueaks"
      /\ RequestOf("fetchSearch") = "getSearchSqueaks"
      /\ RequestOf("fetchProfileSqueaks") = "getProfileSqueaks"
      /\ RequestOf("fetchSqueakOffers") = "getSqueakOffers"
      /\ RequestOf("fetchPaymentSummaryForSqueak") = "getPaymentSummaryForSqueak"
  BY DEF RequestOf
<1>4. ASSUME NEW d \in {fetchSqueak(s), fetchAncestorSqueaks(s), fetchReplySqueaks(s),
                       fetchSqueakOffers(s), fetchPaymentSummaryForSqueak(s)}
      PROVE  \E status :
                \E thunk \in {"fetchSqueak", "fetchAncestorSqueaks", "fetchReplySqueaks",
                              "fetchSqueakOffers", "fetchPaymentSummaryForSqueak"} :
                    d = Read(thunk, s, <<<<RequestOf(thunk), s>>>>, status)
  BY <1>3 DEF fetchSqueak, fetchAncestorSqueaks, fetchReplySqueaks, fetchSqueakOffers,
     fetchPaymentSummaryForSqueak
<1>5. ASSUME NEW d \in {fetchTimeline, fetchSearch, fetchProfileSqueaks}
      PROVE  \E status : \E thunk \in {"fetchTimeline", "fetchSearch", "fetchProfileSqueaks"} :
                    d = Read(thunk, None, <<<<RequestOf(thunk), None>>>>, status)
  BY <1>3 DEF fetchTimeline, fetchSearch, fetchProfileSqueaks
<1>6. ASSUME NEW d, NEW arg, NEW status,
             NEW thunk \in {"fetchSqueak", "fetchAncestorSqueaks", "fetchReplySqueaks",
                            "fetchTimeline", "fetchSearch", "fetchProfileSqueaks",
                            "fetchSqueakOffers", "fetchPaymentSummaryForSqueak"},
             d = Read(thunk, arg, <<<<RequestOf(thunk), arg>>>>, status)
      PROVE  SqueakOpens(d) /\ d.thunk \notin SqueakWriters
  BY <1>1, <1>2, <1>6
<1>7. ASSUME NEW d \in {fetchSqueak(s), fetchAncestorSqueaks(s), fetchReplySqueaks(s),
                       fetchSqueakOffers(s), fetchPaymentSummaryForSqueak(s)}
      PROVE  SqueakOpens(d) /\ d.thunk \notin SqueakWriters
  BY <1>4, <1>6
<1>8. ASSUME NEW d \in {fetchTimeline, fetchSearch, fetchProfileSqueaks}
      PROVE  SqueakOpens(d) /\ d.thunk \notin SqueakWriters
  BY <1>5, <1>6
<1> QED BY <1>7, <1>8

LEMMA SqueakWritesOpen ==
    ASSUME NEW s, NEW o
    PROVE  /\ SqueakOpens(setLikeSqueak(s)) /\ SqueakOpens(setUnlikeSqueak(s))
           /\ SqueakOpens(setDownloadSqueak(s)) /\ SqueakOpens(setDeleteSqueak(s))
           /\ SqueakOpens(setMakeSqueak(s))
           /\ s = squeakRoute => SqueakOpens(setBuySqueak(o, s))
<1> USE DEF Write
<1>1. /\ RequestOf("setLikeSqueak") = "likeSqueak" /\ RequestOf("setUnlikeSqueak") = "unlikeSqueak"
      /\ RequestOf("setDeleteSqueak") = "deleteSqueak" /\ RequestOf("setMakeSqueak") = "makeSqueak"
      /\ RequestOf("setBuySqueak") = "buySqueak"
      /\ RequestOf("setDownloadSqueak") = "downloadSqueak"
  BY DEF RequestOf
<1>2. SqueakOpens(setLikeSqueak(s))
  <2>1. PICK d : d = setLikeSqueak(s)
    OBVIOUS
  <2>2. /\ d.thunk = "setLikeSqueak" /\ d.arg = s /\ d.writes = TRUE
        /\ d.todo = <<<<RequestOf(d.thunk), s>>, <<"getSqueak", d.arg>>>>
    BY <1>1, <2>1 DEF setLikeSqueak
  <2>3. d.thunk \in Rereads
    BY <2>2 DEF Rereads
  <2> QED BY <2>1, <2>2, <2>3, RereadingOpens
<1>3. SqueakOpens(setUnlikeSqueak(s))
  <2>1. PICK d : d = setUnlikeSqueak(s)
    OBVIOUS
  <2>2. /\ d.thunk = "setUnlikeSqueak" /\ d.arg = s /\ d.writes = TRUE
        /\ d.todo = <<<<RequestOf(d.thunk), s>>, <<"getSqueak", d.arg>>>>
    BY <1>1, <2>1 DEF setUnlikeSqueak
  <2>3. d.thunk \in Rereads
    BY <2>2 DEF Rereads
  <2> QED BY <2>1, <2>2, <2>3, RereadingOpens
<1>4. SqueakOpens(setDownloadSqueak(s))
  <2>1. PICK d : d = setDownloadSqueak(s)
    OBVIOUS
  <2>2. /\ d.thunk = "setDownloadSqueak" /\ d.arg = s /\ d.writes = TRUE
        /\ d.todo = <<<<RequestOf(d.thunk), s>>, <<"getSqueak", d.arg>>>>
    BY <1>1, <2>1 DEF setDownloadSqueak
  <2>3. d.thunk \in Rereads
    BY <2>2 DEF Rereads
  <2> QED BY <2>1, <2>2, <2>3, RereadingOpens
<1>5. SqueakOpens(setDeleteSqueak(s))
  <2>1. PICK d : d = setDeleteSqueak(s)
    OBVIOUS
  <2> QED BY <1>1, <2>1, AskingOpens, SqueakWritersApart DEF setDeleteSqueak
<1>6. SqueakOpens(setMakeSqueak(s))
  <2>1. PICK d : d = setMakeSqueak(s)
    OBVIOUS
  <2> QED BY <1>1, <2>1, AskingOpens, SqueakWritersApart DEF setMakeSqueak
<1>7. s = squeakRoute => SqueakOpens(setBuySqueak(o, s))
  <2>1. PICK d : d = setBuySqueak(o, s)
    OBVIOUS
  <2>2. /\ d.thunk = "setBuySqueak" /\ d.arg = s /\ d.writes = TRUE
        /\ d.todo = <<<<RequestOf(d.thunk), o>>, <<"getSqueak", d.arg>>>>
    BY <1>1, <2>1 DEF setBuySqueak
  <2>3. d.thunk \in Rereads
    BY <2>2 DEF Rereads
  <2> QED BY <2>1, <2>2, <2>3, RereadingOpens
<1> QED BY <1>2, <1>3, <1>4, <1>5, <1>6, <1>7

LEMMA SqueakUserOpens ==
    ASSUME SqueakUser
    PROVE  UNCHANGED thunkVars \/ \E D : Dispatch(D) /\ \A d \in D : SqueakOpens(d)
<1>1. ASSUME NEW d, SqueakOpens(d), Dispatch({d})
      PROVE  \E D : Dispatch(D) /\ \A b \in D : SqueakOpens(b)
  BY <1>1
<1>2. CASE \E s \in Squeak : OpenSqueak(s)
  <2>1. PICK s \in Squeak : Dispatch(SqueakMounted(s))
    BY <1>2 DEF OpenSqueak
  <2>2. \A d \in SqueakMounted(s) : SqueakOpens(d)
    BY SqueakReadsOpen DEF SqueakMounted
  <2> QED BY <2>1, <2>2
<1>3. CASE OpenTimeline \/ OpenSearch \/ OpenProfileSqueaks
  BY <1>1, <1>3, SqueakReadsOpen DEF OpenTimeline, OpenSearch, OpenProfileSqueaks, OpenList
<1>4. ASSUME NEW e, NEW s, Heart(e, s)
      PROVE  \E D : Dispatch(D) /\ \A b \in D : SqueakOpens(b)
  BY <1>1, <1>4, SqueakWritesOpen DEF Heart
<1>5. CASE ClickPageHeart \/ ClickPageDelete \/ ClickDownload
  BY <1>1, <1>4, <1>5, SqueakWritesOpen DEF ClickPageHeart, ClickPageDelete, ClickDownload
<1>6. CASE \E e \in Cards : ClickCardHeart(e) \/ ClickCardDelete(e)
  BY <1>1, <1>4, <1>6, SqueakWritesOpen DEF ClickCardHeart, ClickCardDelete
<1>7. CASE toggleBuyModal
  BY <1>1, <1>7, SqueakReadsOpen DEF toggleBuyModal
<1>8. CASE ClickBuy
  BY <1>1, <1>8, SqueakWritesOpen DEF ClickBuy
<1>9. CASE \E o \in Offer : handleChangeOffer(o)
  BY <1>9 DEF handleChangeOffer
<1>10. CASE \E r \in ReplyTargets : submitSqueak(r)
  BY <1>1, <1>10, SqueakWritesOpen DEF submitSqueak
<1> QED BY <1>2, <1>3, <1>5, <1>6, <1>7, <1>8, <1>9, <1>10 DEF SqueakUser

\* A new call: no other one changes a squeak, or it is crossed.
LEMMA SqueakStarts ==
    ASSUME SqueakState, UNCHANGED <<row, paid>>, CurrentNoFresher, NEW d, SqueakOpens(d),
           NEW e, NEW id, e = Started(d, id, calls)
    PROVE  SqueakRequests(e) /\ SqueakTrue(e)'
<1>1. /\ e.thunk = d.thunk /\ e.arg = d.arg /\ e.todo = d.todo /\ e.writes = d.writes
      /\ e.reply = None /\ e.crossed = (\E c \in calls : c.writes)
  BY DEF Started
<1>2. SqueakRequests(e) /\ e.todo # <<>> /\ e.reply # Error
  BY <1>1, ThunksAssumption DEF SqueakOpens, SqueakRequests
<1>3. ASSUME ~e.crossed, CurrentFresh'
      PROVE  /\ currentSqueak' = EntryOf(squeakRoute)'
             /\ e.thunk = "setBuySqueak" => e.arg = squeakRoute'
  <2>1. \A c \in calls : c.thunk \notin SqueakWriters
    BY <1>1, <1>3, SqueakWritersApart DEF SqueakState, SqueakCalls, Of, SqueakRequests
  <2>2. CurrentFresh /\ UNCHANGED <<currentSqueak, squeakRoute>>
    BY <1>3 DEF CurrentNoFresher
  <2>3. currentSqueak = EntryOf(squeakRoute)
    BY <2>1, <2>2 DEF SqueakState, SqueaksFresh
  <2>4. EntryOf(squeakRoute)' = EntryOf(squeakRoute)
    BY <2>2 DEF EntryOf
  <2> QED BY <1>1, <2>2, <2>3, <2>4 DEF SqueakOpens
<1> QED BY <1>2, <1>3 DEF SqueakTrue, Awaits, RemovalTrue

\* The fields get no fresher, and no call that changes a squeak ends.
LEMMA PageStillTrue ==
    ASSUME SqueakState, PageNoFresher, UNCHANGED <<row, paid>>,
           \A c \in calls : \E e \in calls' : e.thunk = c.thunk
    PROVE  SqueaksFresh'
<1>1. /\ squeakRoute' = squeakRoute => EntryOf(squeakRoute)' = EntryOf(squeakRoute)
      /\ squeakRoute' = squeakRoute => UnpaidOffers(squeakRoute)' = UnpaidOffers(squeakRoute)
      /\ squeakRoute' = squeakRoute => Spent(squeakRoute)' = Spent(squeakRoute)
  BY DEF EntryOf, UnpaidOffers, Spent
<1> QED BY <1>1 DEF SqueaksFresh, SqueakState, PageNoFresher, CurrentNoFresher

LEMMA SqueakUserKeeps ==
    ASSUME CallsInv, SqueakState, SqueakUser
    PROVE  SqueakState'
<1>1. /\ UNCHANGED <<row, paid, currentSqueak, squeakOffers, summaryForSqueak>>
      /\ foreign' = foreign \/ foreign' = PageFields
      /\ doubt \ List \subseteq doubt'
      /\ \/ squeakRoute' = squeakRoute \/ squeakRoute' \notin Squeak
         \/ foreign' = PageFields
  <2>1. CASE \E s \in Squeak : OpenSqueak(s)
    BY <2>1 DEF OpenSqueak, ShowSqueak, squeakNode, squeakFields
  <2>2. CASE OpenTimeline \/ OpenSearch \/ OpenProfileSqueaks
    BY <2>2, SqueaksAssumption DEF OpenTimeline, OpenSearch, OpenProfileSqueaks, OpenList, List,
       squeakNode
  <2>3. CASE UNCHANGED <<squeakNode, squeakFields, squeakRoute, foreign, doubt>>
    BY <2>3 DEF squeakNode, squeakFields
  <2>4. CASE ClickBuy
    BY <2>4 DEF ClickBuy, squeakNode, squeakFields
  <2> QED BY <2>1, <2>2, <2>3, <2>4 DEF SqueakUser, ClickPageHeart, ClickPageDelete, ClickDownload,
          ClickCardHeart, ClickCardDelete, toggleBuyModal, handleChangeOffer, submitSqueak,
          squeakVars, squeakPage, thunkVars
<1>2. \/ UNCHANGED calls
      \/ \E D, id : calls' = Begin(D, id, calls) /\ \A d \in D : SqueakOpens(d)
  BY SqueakUserOpens DEF Dispatch, thunkVars
<1>3. \A c \in calls : IsCall(c)
  BY CallsWhole
<1>4. /\ \A e \in calls' : \/ \E c \in calls : Waits(e, c)
                           \/ \E d, id : SqueakOpens(d) /\ e = Started(d, id, calls)
      /\ \A c \in calls : \E e \in calls' : Waits(e, c)
  <2>1. CASE UNCHANGED calls
    BY <2>1 DEF Waits, Heir
  <2>2. CASE ~UNCHANGED calls
    <3>1. PICK D, id : calls' = Begin(D, id, calls) /\ \A d \in D : SqueakOpens(d)
      BY <1>2, <2>2
    <3>2. Followed(D) \subseteq D
      BY DEF Followed
    <3>3. /\ \A e \in Begin(D, id, calls) :
                \/ \E c \in calls : Waits(e, c) /\ e = [c EXCEPT !.crossed = @ \/ Writes(D)]
                \/ \E d \in Followed(D) : e = Started(d, id, calls)
          /\ \A c \in calls : \E e \in Begin(D, id, calls) : Waits(e, c)
      BY <1>3, BeginHeirs
    <3> QED BY <3>1, <3>2, <3>3
  <2> QED BY <2>1, <2>2
<1>5. PageNoFresher
  <2>1. {"current", "offers", "summary"} \cap List = {} /\ {"current", "offers", "summary"} \subseteq PageFields
    BY DEF List, PageFields
  <2>2. (\A c \in calls' : c.thunk # "fetchPaymentSummaryForSqueak") =>
            \A c \in calls : c.thunk # "fetchPaymentSummaryForSqueak"
    BY <1>4 DEF Waits, Heir
  <2> QED BY <1>1, <2>1, <2>2 DEF PageNoFresher, CurrentNoFresher, CurrentFresh, OffersFresh, SummaryFresh
<1>6. SqueakCalls'
  <2> SUFFICES ASSUME NEW e \in calls', e.thunk \in SqueakThunks
               PROVE  SqueakRequests(e) /\ SqueakTrue(e)'
    BY DEF SqueakCalls, Of, SqueakRequests, SqueakTrue
  <2>1. CASE \E c \in calls : Waits(e, c)
    <3>1. PICK c \in calls : Waits(e, c)
      BY <2>1
    <3>2. SqueakRequests(c) /\ SqueakTrue(c) /\ Heir(e, c)
      BY <3>1 DEF SqueakState, SqueakCalls, Of, Waits, Heir
    <3> QED BY <1>1, <1>5, <3>1, <3>2, SqueakWaits DEF PageNoFresher
  <2>2. CASE \E d, id : SqueakOpens(d) /\ e = Started(d, id, calls)
    BY <1>1, <1>5, <2>2, SqueakStarts DEF PageNoFresher
  <2> QED BY <1>4, <2>1, <2>2
<1>7. \A c \in calls : \E e \in calls' : e.thunk = c.thunk
  BY <1>4 DEF Waits, Heir
<1>8. SqueaksFresh'
  BY <1>1, <1>5, <1>7, PageStillTrue
<1> QED BY <1>1, <1>6, <1>8 DEF SqueakState, RowStored

\* The node refuses: what it has stays, the call is not over.
LEMMA SqueaksRefused ==
    ASSUME CallsInv, SqueakState, NEW c \in Of(SqueakThunks), Refuse(c), UNCHANGED <<row, paid, doubt>>,
           UNCHANGED <<currentSqueak, squeakOffers, summaryForSqueak, squeakRoute, foreign>>
    PROVE  SqueakState'
<1>1. GoesOn(c, <<>>, Error)
  BY CallsWhole, RefuseHeirs DEF Of
<1>2. Elsewhere(SqueakThunks, SqueakFields)
  BY <1>1 DEF GoesOn, Elsewhere, Waits, Heir, Of
<1> QED BY <1>2, SqueaksElsewhere

\* The next request of a call, and what is left then.
LEMMA SqueakNext ==
    ASSUME NEW c, SqueakRequests(c), NEW next, At(c, next)
    PROVE  \/ /\ next = RequestOf(c.thunk)
              /\ c.thunk # "setBuySqueak" => Argument(c) = c.arg
              /\ IF c.thunk \in Rereads THEN Tail(c.todo) = <<<<"getSqueak", c.arg>>>>
                 ELSE Tail(c.todo) = <<>>
           \/ /\ c.thunk \in Rereads /\ next = "getSqueak" /\ Argument(c) = c.arg
              /\ Tail(c.todo) = <<>>
<1>1. CASE c.thunk \in Rereads
  <2>1. PICK arg : /\ c.thunk # "setBuySqueak" => arg = c.arg
                   /\ Rereading(c.todo, RequestOf(c.thunk), arg, c.arg)
    BY <1>1 DEF SqueakRequests
  <2>2. CASE c.todo = <<<<RequestOf(c.thunk), arg>>, <<"getSqueak", c.arg>>>>
    <3>1. Head(c.todo) = <<RequestOf(c.thunk), arg>> /\ Tail(c.todo) = <<<<"getSqueak", c.arg>>>>
      BY <2>2, TwoLeft
    <3> QED BY <1>1, <2>1, <3>1 DEF At, Argument
  <2>3. CASE c.todo = <<<<"getSqueak", c.arg>>>>
    <3>1. Head(c.todo) = <<"getSqueak", c.arg>> /\ Tail(c.todo) = <<>>
      BY <2>3, OneLeft
    <3> QED BY <1>1, <3>1 DEF At, Argument
  <2> QED BY <2>1, <2>2, <2>3 DEF Rereading, At
<1>2. CASE c.thunk \notin Rereads
  BY <1>2, AskingNext DEF SqueakRequests
<1> QED BY <1>1, <1>2

LEMMA SqueakRequestsAfter ==
    ASSUME NEW c, SqueakRequests(c), NEW next, At(c, next),
           NEW d, Heir(d, c), d.todo = Tail(c.todo)
    PROVE  SqueakRequests(d)
<1>1. d.thunk = c.thunk /\ d.arg = c.arg /\ d.writes = c.writes
  BY DEF Heir
<1>2. d.todo = <<>> \/ (c.thunk \in Rereads /\ d.todo = <<<<"getSqueak", d.arg>>>>)
  BY <1>1, SqueakNext
<1>3. \A request, arg, s : /\ d.todo = <<>> => Asking(d.todo, request, arg)
                           /\ d.todo = <<>> => Rereading(d.todo, request, arg, s)
                           /\ d.todo = <<<<"getSqueak", s>>>> => Rereading(d.todo, request, arg, s)
  BY DEF Asking, Rereading
<1> QED BY <1>1, <1>2, <1>3 DEF SqueakRequests

\* While the node answers, the fields are as fresh as they are.
LEMMA PageAsFresh ==
    ASSUME NEW c \in calls, NEW d, Heir(d, c), calls' = (calls \ {c}) \cup {d},
           UNCHANGED <<squeakRoute, foreign, doubt>>
    PROVE  /\ CurrentFresh' = CurrentFresh /\ OffersFresh' = OffersFresh
           /\ SummaryFresh' = SummaryFresh
<1>1. SummaryFresh' <=> SummaryFresh
  BY DEF SummaryFresh, Heir
<1>2. SummaryFresh' \in BOOLEAN /\ SummaryFresh \in BOOLEAN
  BY DEF SummaryFresh
<1> QED BY <1>1, <1>2 DEF CurrentFresh, OffersFresh

SqueakReadings ==
    {"getSqueak", "getAncestorSqueaks", "getReplySqueaks", "getTimelineSqueaks", "getSearchSqueaks",
     "getProfileSqueaks", "getSqueakOffers", "getPaymentSummaryForSqueak"}

\* Who asks for what.
LEMMA WhoAsks ==
    ASSUME NEW thunk \in SqueakThunks
    PROVE  /\ RequestOf(thunk) = "likeSqueak" => thunk = "setLikeSqueak"
           /\ RequestOf(thunk) = "unlikeSqueak" => thunk = "setUnlikeSqueak"
           /\ RequestOf(thunk) = "deleteSqueak" => thunk = "setDeleteSqueak"
           /\ RequestOf(thunk) = "makeSqueak" => thunk = "setMakeSqueak"
           /\ RequestOf(thunk) = "buySqueak" => thunk = "setBuySqueak"
           /\ RequestOf(thunk) = "downloadSqueak" => thunk = "setDownloadSqueak"
           /\ RequestOf(thunk) \in SqueakReadings => thunk \notin SqueakWriters
           /\ thunk = "fetchSqueak" => RequestOf(thunk) = "getSqueak"
           /\ thunk = "fetchSqueakOffers" => RequestOf(thunk) = "getSqueakOffers"
           /\ thunk = "fetchPaymentSummaryForSqueak" =>
                    RequestOf(thunk) = "getPaymentSummaryForSqueak"
BY DEF SqueakThunks, RequestOf, SqueakReadings, SqueakWriters, Rereads

\* The call that the node has answered.
LEMMA SqueakReadTrue ==
    ASSUME SqueakState, NEW c \in Of(SqueakThunks),
           NEW next \in SqueakReadings, At(c, next), NEW reply,
           next = "getSqueak" => reply = EntryOf(Argument(c)),
           next = "getSqueakOffers" => reply = UnpaidOffers(Argument(c)),
           next = "getPaymentSummaryForSqueak" => reply = Spent(Argument(c)),
           UNCHANGED <<row, paid>>, CurrentNoFresher,
           NEW d, Heir(d, c), d.todo = Tail(c.todo), d.reply = reply
    PROVE  SqueakTrue(d)'
<1>1. SqueakRequests(c) /\ SqueakTrue(c) /\ c.thunk \in SqueakThunks /\ c.todo # <<>>
  BY DEF SqueakState, SqueakCalls, Of, At
<1>2. d.thunk = c.thunk /\ d.arg = c.arg /\ (~d.crossed => ~c.crossed)
  BY DEF Heir
<1>3. \A s : EntryOf(s)' = EntryOf(s) /\ UnpaidOffers(s)' = UnpaidOffers(s) /\ Spent(s)' = Spent(s)
  BY SameSqueaks
<1>4. /\ Tail(c.todo) = <<>> /\ Argument(c) = c.arg
      /\ c.thunk \in Rereads \cup {"fetchSqueak"} => next = "getSqueak"
      /\ c.thunk = "fetchSqueakOffers" => next = "getSqueakOffers"
      /\ c.thunk = "fetchPaymentSummaryForSqueak" => next = "getPaymentSummaryForSqueak"
      /\ c.thunk \notin {"setDeleteSqueak", "setMakeSqueak"}
  <2>1. next = RequestOf(c.thunk) => c.thunk \notin SqueakWriters
    BY <1>1, WhoAsks
  <2>2. c.thunk \in Rereads => next = "getSqueak" /\ Argument(c) = c.arg /\ Tail(c.todo) = <<>>
    BY <1>1, <2>1, SqueakNext, SqueakWritersApart
  <2>3. c.thunk \notin Rereads =>
            /\ next = RequestOf(c.thunk) /\ Tail(c.todo) = <<>> /\ c.thunk \notin SqueakWriters
            /\ c.thunk # "setBuySqueak" => Argument(c) = c.arg
    BY <1>1, <2>1, SqueakNext
  <2>4. "setBuySqueak" \in Rereads /\ {"setDeleteSqueak", "setMakeSqueak"} \subseteq SqueakWriters
    BY DEF Rereads, SqueakWriters
  <2> QED BY <1>1, <2>2, <2>3, <2>4, WhoAsks, SqueakWritersApart
<1>5. /\ d.todo = <<>>
      /\ d.thunk \in Rereads \cup {"fetchSqueak"} => d.reply = EntryOf(d.arg)'
      /\ d.thunk = "fetchSqueakOffers" => d.reply = UnpaidOffers(d.arg)'
      /\ d.thunk = "fetchPaymentSummaryForSqueak" => d.reply = Spent(d.arg)'
  BY <1>2, <1>3, <1>4
<1>6. ASSUME ~d.crossed, CurrentFresh', d.thunk \in Rereads
      PROVE  /\ d.thunk \in Rereads \ {"setDownloadSqueak"} => Awaits(d.arg)'
             /\ d.thunk = "setBuySqueak" => d.arg = squeakRoute'
  <2>1. CurrentFresh /\ UNCHANGED <<currentSqueak, squeakRoute>>
    BY <1>6 DEF CurrentNoFresher
  <2>2. /\ c.thunk \in Rereads \ {"setDownloadSqueak"} => Awaits(c.arg)
        /\ c.thunk = "setBuySqueak" => c.arg = squeakRoute
    BY <1>1, <1>2, <1>6, <2>1 DEF SqueakTrue
  <2>3. EntryOf(squeakRoute)' = EntryOf(squeakRoute)
    BY <2>1 DEF EntryOf
  <2>4. EntryOf(c.arg)' = EntryOf(c.arg)
    BY <1>3
  <2> QED BY <1>2, <2>1, <2>2, <2>3, <2>4 DEF Awaits
<1>7. "setBuySqueak" \in Rereads
  BY DEF Rereads
<1> QED BY <1>2, <1>4, <1>5, <1>6, <1>7 DEF SqueakTrue

LEMMA SqueaksRead ==
    ASSUME CallsInv, SqueakState, NEW c \in Of(SqueakThunks),
           NEW next \in SqueakReadings, At(c, next), NEW reply, Answer(c, reply),
           next = "getSqueak" => reply = EntryOf(Argument(c)),
           next = "getSqueakOffers" => reply = UnpaidOffers(Argument(c)),
           next = "getPaymentSummaryForSqueak" => reply = Spent(Argument(c)),
           UNCHANGED <<row, paid, doubt>>,
           UNCHANGED <<currentSqueak, squeakOffers, summaryForSqueak, squeakRoute, foreign>>
    PROVE  SqueakState'
<1>1. c \in calls /\ c.thunk \in SqueakThunks /\ SqueakRequests(c)
  BY DEF Of, SqueakState, SqueakCalls
<1>2. PICK d : /\ Heir(d, c) /\ d.todo = Tail(c.todo) /\ d.reply = reply
               /\ calls' = (calls \ {c}) \cup {d}
  BY <1>1, CallsWhole, AnswerHeirs DEF GoesOn
<1>3. PageNoFresher
  BY <1>1, <1>2, PageAsFresh DEF PageNoFresher, CurrentNoFresher
<1>4. SqueakTrue(d)'
  BY <1>2, <1>3, SqueakReadTrue DEF PageNoFresher
<1>5. SqueakRequests(d)
  BY <1>1, <1>2, SqueakRequestsAfter
<1>6. SqueakCalls'
  <2> SUFFICES ASSUME NEW e \in calls', e.thunk \in SqueakThunks, e # d
               PROVE  SqueakRequests(e) /\ SqueakTrue(e)'
    BY <1>4, <1>5 DEF SqueakCalls, Of, SqueakRequests, SqueakTrue
  <2>1. SqueakRequests(e) /\ SqueakTrue(e) /\ Heir(e, e) /\ Waits(e, e)
    BY <1>2 DEF SqueakState, SqueakCalls, Of, Heir, Waits
  <2> QED BY <1>3, <2>1, SqueakWaits DEF PageNoFresher
<1>7. \A b \in calls : \E e \in calls' : e.thunk = b.thunk
  BY <1>2 DEF Heir
<1>8. SqueaksFresh'
  BY <1>3, <1>7, PageStillTrue
<1> QED BY <1>6, <1>8 DEF SqueakState, RowStored

\* The node changes: the call that does it is not over, and has crossed all others.
LEMMA SqueaksChanged ==
    ASSUME CallsInv, CrossInv, SqueakState, NEW c \in Of(SqueakThunks), c.thunk \in SqueakWriters,
           NEW d, Heir(d, c), SqueakRequests(d),
           calls' = (calls \ {c}) \cup {d}, SqueakTrue(d)', RowStored',
           c.thunk # "setBuySqueak" => UNCHANGED paid,
           UNCHANGED <<currentSqueak, squeakOffers, summaryForSqueak, squeakRoute, foreign, doubt>>
    PROVE  SqueakState'
<1>1. c \in calls /\ c.thunk \in SqueakThunks /\ SqueakRequests(c) /\ c.writes
  BY DEF Of, SqueakState, SqueakCalls, SqueakRequests
<1>2. CurrentFresh' = CurrentFresh /\ OffersFresh' = OffersFresh /\ SummaryFresh' = SummaryFresh
  BY <1>1, PageAsFresh
<1>3. d.thunk = c.thunk
  BY DEF Heir
<1>4. SqueakCalls'
  <2> SUFFICES ASSUME NEW e \in calls', e.thunk \in SqueakThunks
               PROVE  SqueakRequests(e) /\ SqueakTrue(e)'
    BY DEF SqueakCalls, Of, SqueakRequests, SqueakTrue
  <2>0. CASE e = d
    BY <1>3, <2>0
  <2> SUFFICES ASSUME e # d
               PROVE  SqueakRequests(e) /\ SqueakTrue(e)'
    BY <2>0
  <2>1. e \in calls /\ e # c /\ SqueakRequests(e) /\ SqueakTrue(e)
    BY DEF SqueakState, SqueakCalls, Of
  <2>2. e.crossed
    BY <1>1, <2>1 DEF CrossInv
  <2> QED BY <2>1, <2>2 DEF SqueakTrue
<1>5. SqueaksFresh'
  <2>1. d \in calls' /\ d.thunk \in SqueakWriters
    BY <1>3
  <2>2. CASE c.thunk = "setBuySqueak"
    BY <1>3, <2>1, <2>2 DEF SqueaksFresh
  <2>3. CASE c.thunk # "setBuySqueak"
    <3>1. /\ UnpaidOffers(squeakRoute)' = UnpaidOffers(squeakRoute)
          /\ Spent(squeakRoute)' = Spent(squeakRoute)
      BY <2>3 DEF UnpaidOffers, Spent
    <3>2. \A b \in calls : b.thunk = "setBuySqueak" => \E e \in calls' : e.thunk = "setBuySqueak"
      BY <2>3
    <3> QED BY <1>2, <2>1, <3>1, <3>2 DEF SqueaksFresh, SqueakState
  <2> QED BY <2>2, <2>3
<1> QED BY <1>4, <1>5 DEF SqueakState

LEMMA RowEntry ==
    ASSUME NEW s \in Squeak, NEW r \in Row
    PROVE  LET e == [hash |-> s, liked |-> r.liked, open |-> r.open] IN e # None /\ e.hash = s
<1>1. [hash |-> s, liked |-> r.liked, open |-> r.open] \in Entry
  BY DEF Row, Entry
<1> QED BY <1>1, SqueaksAssumption

LEMMA EntryStored ==
    ASSUME RowStored, NEW s \in Squeak
    PROVE  /\ row[s] = None => EntryOf(s) = None
           /\ row[s] # None => EntryOf(s) # None /\ EntryOf(s).hash = s
BY RowEntry DEF EntryOf, RowStored

\* What is stored and stays so, or is gone and stays so, is still awaited.
LEMMA AwaitsStill ==
    ASSUME RowStored, RowStored', NEW s, squeakRoute \in Squeak,
           UNCHANGED <<currentSqueak, squeakRoute>>,
           squeakRoute # s => row'[squeakRoute] = row[squeakRoute],
           row'[squeakRoute] = None <=> row[squeakRoute] = None,
           Awaits(s)
    PROVE  Awaits(s)'
<1>1. CASE squeakRoute # s
  <2>1. EntryOf(squeakRoute)' = EntryOf(squeakRoute)
    BY <1>1 DEF EntryOf
  <2> QED BY <1>1, <2>1 DEF Awaits
<1>2. CASE squeakRoute = s
  <2>1. EntryOf(s) = None <=> EntryOf(s)' = None
    BY <1>2, RowEntry DEF EntryOf, RowStored
  <2> QED BY <1>2, <2>1, EntryStored DEF Awaits
<1> QED BY <1>1, <1>2

\* A call has done its change, and reads the squeak again, or is over.
LEMMA SqueakWrote ==
    ASSUME CallsInv, CrossInv, SqueakState, NEW c \in Of(SqueakThunks), c.thunk \in SqueakWriters,
           At(c, RequestOf(c.thunk)), NEW reply, Answer(c, reply), RowStored',
           c.thunk \in Rereads => reply # Error,
           CurrentFresh /\ c.thunk \in Rereads \ {"setDownloadSqueak"} /\ Awaits(c.arg)
                /\ (c.thunk = "setBuySqueak" => c.arg = squeakRoute) => Awaits(c.arg)',
           CurrentFresh /\ c.thunk = "setDeleteSqueak" /\ currentSqueak = EntryOf(squeakRoute) =>
                IF currentSqueak # None /\ currentSqueak.hash = c.arg
                THEN EntryOf(squeakRoute)' = None ELSE currentSqueak = EntryOf(squeakRoute)',
           c.thunk # "setBuySqueak" => UNCHANGED paid,
           UNCHANGED <<currentSqueak, squeakOffers, summaryForSqueak, squeakRoute, foreign, doubt>>
    PROVE  SqueakState'
<1>1. c \in calls /\ SqueakRequests(c) /\ SqueakTrue(c) /\ c.todo # <<>> /\ c.thunk \in SqueakThunks
  BY DEF Of, SqueakState, SqueakCalls, At
<1>2. PICK d : /\ Heir(d, c) /\ d.todo = Tail(c.todo) /\ d.reply = reply
               /\ calls' = (calls \ {c}) \cup {d}
  BY <1>1, CallsWhole, AnswerHeirs DEF GoesOn
<1>3. d.thunk = c.thunk /\ d.arg = c.arg /\ (~d.crossed => ~c.crossed)
  BY <1>2 DEF Heir
<1>4. CurrentFresh' = CurrentFresh
  BY <1>1, <1>2, PageAsFresh
<1>5. IF c.thunk \in Rereads THEN d.todo = <<<<"getSqueak", c.arg>>>> ELSE d.todo = <<>>
  <2>1. RequestOf(c.thunk) # "getSqueak"
    BY <1>1, WhoAsks DEF SqueakReadings
  <2> QED BY <1>1, <1>2, <2>1, SqueakNext
<1>6. c.thunk \in Rereads => d.todo # <<>>
  BY <1>5, OneLeft
<1>7. ASSUME ~d.crossed, CurrentFresh'
      PROVE  /\ d.thunk \in Rereads \ {"setDownloadSqueak"} => Awaits(d.arg)'
             /\ d.thunk = "setBuySqueak" => d.arg = squeakRoute'
             /\ d.thunk = "setDeleteSqueak" => RemovalTrue(d)'
  <2>1. /\ c.thunk \in Rereads \ {"setDownloadSqueak"} => Awaits(c.arg)
        /\ c.thunk = "setBuySqueak" => c.arg = squeakRoute
        /\ c.thunk = "setDeleteSqueak" => RemovalTrue(c)
    BY <1>1, <1>3, <1>4, <1>7 DEF SqueakTrue
  <2>2. c.thunk = "setDeleteSqueak" => currentSqueak = EntryOf(squeakRoute)
    BY <1>1, <2>1 DEF RemovalTrue
  <2>3. c.thunk = "setDeleteSqueak" => d.todo = <<>>
    BY <1>5, SqueakWritersApart
  <2>4. c.thunk \in Rereads \ {"setDownloadSqueak"} => Awaits(c.arg)'
    BY <1>4, <1>7, <2>1
  <2>5. c.thunk = "setDeleteSqueak" => RemovalTrue(d)'
    BY <1>3, <1>4, <1>7, <2>2, <2>3 DEF RemovalTrue
  <2> QED BY <1>3, <2>1, <2>4, <2>5
<1>8. SqueakTrue(d)'
  <2>1. d.reply = Error => d.todo = <<>>
    BY <1>2, <1>5
  <2>2. d.thunk \notin {"fetchSqueak", "fetchSqueakOffers", "fetchPaymentSummaryForSqueak"}
    BY <1>3, SqueakWritersApart
  <2> QED BY <1>3, <1>6, <1>7, <2>1, <2>2 DEF SqueakTrue
<1>9. SqueakRequests(d)
  BY <1>1, <1>2, SqueakRequestsAfter
<1> QED BY <1>2, <1>8, <1>9, SqueaksChanged

SqueakFieldsStay ==
    UNCHANGED <<currentSqueak, squeakOffers, summaryForSqueak, squeakRoute, foreign, doubt>>

\* The call whose change is next.
LEMMA WhoWrites ==
    ASSUME SqueakState, NEW c \in Of(SqueakThunks), NEW next, At(c, next),
           next \in {"likeSqueak", "unlikeSqueak", "deleteSqueak", "makeSqueak", "buySqueak",
                     "downloadSqueak"}
    PROVE  /\ next = RequestOf(c.thunk) /\ c.thunk \in SqueakWriters
           /\ next = "likeSqueak" <=> c.thunk = "setLikeSqueak"
           /\ next = "unlikeSqueak" <=> c.thunk = "setUnlikeSqueak"
           /\ next = "deleteSqueak" <=> c.thunk = "setDeleteSqueak"
           /\ next = "makeSqueak" <=> c.thunk = "setMakeSqueak"
           /\ next = "buySqueak" <=> c.thunk = "setBuySqueak"
           /\ next = "downloadSqueak" <=> c.thunk = "setDownloadSqueak"
           /\ c.thunk # "setBuySqueak" => Argument(c) = c.arg
<1>1. SqueakRequests(c) /\ c.thunk \in SqueakThunks
  BY DEF Of, SqueakState, SqueakCalls
<1>2. next = RequestOf(c.thunk) /\ (c.thunk # "setBuySqueak" => Argument(c) = c.arg)
  BY <1>1, SqueakNext
<1> QED BY <1>1, <1>2, WhoAsks DEF SqueakWriters, Rereads

LEMMA SqueakLiked ==
    ASSUME CallsInv, CrossInv, SqueakState, NEW c \in Of(SqueakThunks), NEW on \in BOOLEAN,
           At(c, "likeSqueak") \/ At(c, "unlikeSqueak"),
           SetLiked(Argument(c), on), Answer(c, None), UNCHANGED paid, SqueakFieldsStay
    PROVE  SqueakState'
<1>1. /\ At(c, RequestOf(c.thunk)) /\ c.thunk \in {"setLikeSqueak", "setUnlikeSqueak"}
      /\ c.thunk \in SqueakWriters /\ Argument(c) = c.arg
  BY WhoWrites
<1>2. row' = IF row[c.arg] = None THEN row ELSE [row EXCEPT ![c.arg].liked = on]
  BY <1>1 DEF SetLiked
<1>3. RowStored /\ \A s \in Squeak : row[s] # None => row[s] \in Row
  BY DEF SqueakState, RowStored
<1>4. row' \in [Squeak -> Row \cup {None}] /\ \A s \in Squeak :
            /\ s # c.arg => row'[s] = row[s]
            /\ row'[s] = None <=> row[s] = None
  <2>1. CASE row[c.arg] = None
    BY <1>2, <1>3, <2>1 DEF RowStored
  <2>2. CASE row[c.arg] # None
    <3>1. row' = [row EXCEPT ![c.arg] = [row[c.arg] EXCEPT !.liked = on]]
      BY <1>2, <2>2
    <3>2. c.arg \in Squeak => [row[c.arg] EXCEPT !.liked = on] \in Row
      BY <1>3, <2>2 DEF Row
    <3> QED BY <1>3, <2>2, <3>1, <3>2, SqueaksAssumption DEF RowStored
  <2> QED BY <2>1, <2>2
<1>5. RowStored'
  BY <1>4 DEF RowStored
<1>6. CurrentFresh /\ Awaits(c.arg) => Awaits(c.arg)'
  BY <1>3, <1>4, <1>5, AwaitsStill DEF CurrentFresh, SqueakFieldsStay
<1> QED BY <1>1, <1>5, <1>6, ThunksAssumption, SqueakWrote DEF SqueakFieldsStay

LEMMA SqueakRemoved ==
    ASSUME CallsInv, CrossInv, SqueakState, NEW c \in Of(SqueakThunks), deleteSqueak(c),
           SqueakFieldsStay
    PROVE  SqueakState'
<1>1. At(c, "deleteSqueak") /\ Answer(c, None) /\ UNCHANGED paid
  BY DEF deleteSqueak
<1>2. /\ At(c, RequestOf(c.thunk)) /\ c.thunk = "setDeleteSqueak"
      /\ c.thunk \in SqueakWriters /\ Argument(c) = c.arg
  BY <1>1, WhoWrites
<1>3. row' = [row EXCEPT ![c.arg] = None]
  BY <1>2 DEF deleteSqueak
<1>4. RowStored /\ RowStored'
  BY <1>3 DEF SqueakState, RowStored
<1>5. ASSUME CurrentFresh, currentSqueak = EntryOf(squeakRoute)
      PROVE  IF currentSqueak # None /\ currentSqueak.hash = c.arg
             THEN EntryOf(squeakRoute)' = None ELSE currentSqueak = EntryOf(squeakRoute)'
  <2>1. squeakRoute \in Squeak /\ squeakRoute' = squeakRoute
    BY <1>5 DEF CurrentFresh, SqueakFieldsStay
  <2>2. CASE squeakRoute = c.arg
    <3>1. EntryOf(squeakRoute)' = None
      BY <1>3, <1>4, <2>1, <2>2 DEF EntryOf, RowStored
    <3> QED BY <1>4, <1>5, <2>1, <2>2, <3>1, EntryStored
  <2>3. CASE squeakRoute # c.arg
    <3>1. EntryOf(squeakRoute)' = EntryOf(squeakRoute)
      BY <1>3, <1>4, <2>1, <2>3 DEF EntryOf, RowStored
    <3> QED BY <1>4, <1>5, <2>1, <2>3, <3>1, EntryStored
  <2> QED BY <2>2, <2>3
<1>6. c.thunk \notin Rereads
  BY <1>2, SqueakWritersApart
<1> QED BY <1>1, <1>2, <1>4, <1>5, <1>6, SqueakWrote DEF SqueakFieldsStay

LEMMA SqueakMade ==
    ASSUME CallsInv, CrossInv, SqueakState, NEW c \in Of(SqueakThunks), At(c, "makeSqueak"),
           NEW s, row' = [row EXCEPT ![s] = [liked |-> FALSE, open |-> TRUE]],
           Answer(c, s), UNCHANGED paid, SqueakFieldsStay
    PROVE  SqueakState'
<1>1. /\ At(c, RequestOf(c.thunk)) /\ c.thunk = "setMakeSqueak" /\ c.thunk \in SqueakWriters
  BY WhoWrites
<1>2. c.thunk \notin Rereads /\ c.thunk # "setDeleteSqueak"
  BY <1>1, SqueakWritersApart
<1>3. RowStored'
  BY DEF SqueakState, RowStored, Row
<1> QED BY <1>1, <1>2, <1>3, SqueakWrote DEF SqueakFieldsStay

LEMMA SqueakDownloaded ==
    ASSUME CallsInv, CrossInv, SqueakState, NEW c \in Of(SqueakThunks), downloadSqueak(c),
           SqueakFieldsStay
    PROVE  SqueakState'
<1>1. At(c, "downloadSqueak") /\ Answer(c, None) /\ UNCHANGED paid
  BY DEF downloadSqueak
<1>2. /\ At(c, RequestOf(c.thunk)) /\ c.thunk = "setDownloadSqueak" /\ c.thunk \in SqueakWriters
  BY <1>1, WhoWrites
<1>3. RowStored'
  <2>1. \A open \in BOOLEAN : [liked |-> FALSE, open |-> open] \in Row
    BY DEF Row
  <2>2. RowStored
    BY DEF SqueakState
  <2>3. \/ UNCHANGED row
        \/ \E open \in BOOLEAN : row' = [row EXCEPT ![Argument(c)] = [liked |-> FALSE, open |-> open]]
    BY DEF downloadSqueak
  <2> QED BY <2>1, <2>2, <2>3 DEF RowStored
<1> QED BY <1>1, <1>2, <1>3, ThunksAssumption, SqueakWrote DEF SqueakFieldsStay

\* The key of a squeak is bought; or the payment is made and the squeak gone.
LEMMA SqueakBought ==
    ASSUME CallsInv, CrossInv, SqueakState, NEW c \in Of(SqueakThunks), buySqueak(c),
           SqueakFieldsStay
    PROVE  SqueakState'
<1>1. At(c, "buySqueak")
  BY DEF buySqueak
<1>2. /\ At(c, RequestOf(c.thunk)) /\ c.thunk = "setBuySqueak" /\ c.thunk \in SqueakWriters
  BY <1>1, WhoWrites
<1>3. c \in calls /\ c.thunk \in SqueakThunks /\ RowStored
  BY DEF Of, SqueakState
<1>4. CASE Refuse(c) /\ UNCHANGED row
  <2>1. PICK d : /\ Heir(d, c) /\ d.todo = <<>> /\ d.reply = Error
                 /\ calls' = (calls \ {c}) \cup {d}
    BY <1>3, <1>4, CallsWhole, RefuseHeirs DEF GoesOn
  <2>2. SqueakTrue(d)' /\ RowStored'
    BY <1>3, <1>4, <2>1 DEF SqueakTrue, RowStored
  <2>3. SqueakRequests(c)
    BY <1>3 DEF SqueakState, SqueakCalls, Of
  <2>4. \A request, arg, s : Rereading(<<>>, request, arg, s) /\ Asking(<<>>, request, arg)
    BY DEF Rereading, Asking
  <2>5. SqueakRequests(d)
    BY <2>1, <2>3, <2>4 DEF Heir, SqueakRequests
  <2> QED BY <1>2, <2>1, <2>2, <2>5, SqueaksChanged DEF SqueakFieldsStay
<1>5. CASE Answer(c, None) /\ row[OfferOf[Argument(c)]] # None
           /\ row' = [row EXCEPT ![OfferOf[Argument(c)]].open = TRUE]
  <2>1. PICK s : s = OfferOf[Argument(c)]
    OBVIOUS
  <2>2. row' = [row EXCEPT ![s] = [row[s] EXCEPT !.open = TRUE]] /\ row[s] # None
    BY <1>5, <2>1
  <2>3. s \in Squeak => [row[s] EXCEPT !.open = TRUE] \in Row
    BY <1>3, <2>2 DEF RowStored, Row
  <2>4. row' \in [Squeak -> Row \cup {None}] /\ \A t \in Squeak : row'[t] = None <=> row[t] = None
    BY <1>3, <2>2, <2>3, SqueaksAssumption DEF RowStored
  <2>5. RowStored'
    BY <2>4 DEF RowStored
  <2>6. CurrentFresh /\ Awaits(c.arg) /\ c.arg = squeakRoute => Awaits(c.arg)'
    BY <1>3, <2>4, <2>5, AwaitsStill DEF CurrentFresh, SqueakFieldsStay
  <2>7. c.thunk # "setDeleteSqueak"
    BY <1>2
  <2> QED BY <1>2, <1>5, <2>5, <2>6, <2>7, ThunksAssumption, SqueakWrote DEF SqueakFieldsStay
<1> QED BY <1>4, <1>5 DEF buySqueak

LEMMA SqueakServerKeeps ==
    ASSUME CallsInv, CrossInv, SqueakState, SqueakServer
    PROVE  SqueakState'
<1>1. PICK c \in Of(SqueakThunks) :
        \/ getSqueak(c) \/ getAncestorSqueaks(c) \/ getReplySqueaks(c)
        \/ getTimelineSqueaks(c) \/ getSearchSqueaks(c) \/ getProfileSqueaks(c)
        \/ getSqueakOffers(c) \/ getPaymentSummaryForSqueak(c)
        \/ likeSqueak(c) \/ unlikeSqueak(c) \/ deleteSqueak(c)
        \/ makeSqueak(c) \/ downloadSqueak(c) \/ buySqueak(c)
  BY DEF SqueakServer
<1>2. SqueakFieldsStay
  BY DEF SqueakServer, SqueakFieldsStay, squeakFields, squeakPage
<1>3. ASSUME NEW next \in SqueakReadings, At(c, next), NEW reply, Answer(c, reply),
             next = "getSqueak" => reply = EntryOf(Argument(c)),
             next = "getSqueakOffers" => reply = UnpaidOffers(Argument(c)),
             next = "getPaymentSummaryForSqueak" => reply = Spent(Argument(c)),
             UNCHANGED squeakNode
      PROVE  SqueakState'
  BY <1>2, <1>3, SqueaksRead DEF SqueakFieldsStay, squeakNode
<1>4. CASE getSqueak(c)
  BY <1>3, <1>4 DEF getSqueak, SqueakReadings
<1>5. CASE getSqueakOffers(c)
  BY <1>3, <1>5 DEF getSqueakOffers, SqueakReadings
<1>6. CASE getPaymentSummaryForSqueak(c)
  BY <1>3, <1>6 DEF getPaymentSummaryForSqueak, SqueakReadings
<1>7. CASE getAncestorSqueaks(c) \/ getReplySqueaks(c) \/ getTimelineSqueaks(c)
           \/ getSearchSqueaks(c) \/ getProfileSqueaks(c)
  <2>1. PICK next, reply : /\ At(c, next) /\ Answer(c, reply) /\ UNCHANGED squeakNode
                           /\ next \in SqueakReadings \ {"getSqueak", "getSqueakOffers",
                                                        "getPaymentSummaryForSqueak"}
    BY <1>7 DEF getAncestorSqueaks, getReplySqueaks, getTimelineSqueaks, getSearchSqueaks,
       getProfileSqueaks, SqueakReadings
  <2> QED BY <1>3, <2>1
<1>8. CASE likeSqueak(c)
  BY <1>2, <1>8, SqueakLiked DEF likeSqueak
<1>9. CASE unlikeSqueak(c)
  BY <1>2, <1>9, SqueakLiked DEF unlikeSqueak
<1>10. CASE deleteSqueak(c)
  BY <1>2, <1>10, SqueakRemoved
<1>11. CASE makeSqueak(c)
  <2>1. CASE Refuse(c) /\ UNCHANGED row
    BY <1>2, <1>11, <2>1, SqueaksRefused DEF makeSqueak, SqueakFieldsStay
  <2>2. ASSUME NEW s, row' = [row EXCEPT ![s] = [liked |-> FALSE, open |-> TRUE]], Answer(c, s)
        PROVE  SqueakState'
    BY <1>2, <1>11, <2>2, SqueakMade DEF makeSqueak
  <2> QED BY <1>11, <2>1, <2>2 DEF makeSqueak
<1>12. CASE downloadSqueak(c)
  BY <1>2, <1>12, SqueakDownloaded
<1>13. CASE buySqueak(c)
  BY <1>2, <1>13, SqueakBought
<1> QED BY <1>1, <1>4, <1>5, <1>6, <1>7, <1>8, <1>9, <1>10, <1>11, <1>12, <1>13

\* A call ends; what its `then' dispatches is fetching.
SqueakYields(c) ==
    /\ \A e \in calls' : \/ \E b \in calls \ {c} : Waits(e, b)
                         \/ \E d, id : /\ SqueakOpens(d) /\ d.thunk \notin SqueakWriters
                                       /\ e = Started(d, id, calls \ {c})
    /\ \A b \in calls \ {c} : \E e \in calls' : Waits(e, b)

LEMMA SqueakEndsYields ==
    ASSUME NEW c, Ends(c)
    PROVE  SqueakYields(c)
BY DEF Ends, SqueakYields

LEMMA SqueakBeginYields ==
    ASSUME CallsInv, NEW c \in calls, NEW D,
           \A d \in D : SqueakOpens(d) /\ d.thunk \notin SqueakWriters,
           calls' = Begin(D, c.id, calls \ {c})
    PROVE  SqueakYields(c)
<1> DEFINE rest == calls \ {c}
<1>1. calls' = Begin(D, c.id, rest) /\ \A b \in rest : IsCall(b)
  BY CallsWhole
<1> HIDE DEF rest
<1>2. \A e \in Begin(D, c.id, rest) :
        \/ \E b \in rest : Waits(e, b) /\ e = [b EXCEPT !.crossed = @ \/ Writes(D)]
        \/ \E d \in Followed(D) : e = Started(d, c.id, rest)
  BY <1>1, BeginHeirs
<1>3. \A b \in rest : \E e \in Begin(D, c.id, rest) : Waits(e, b)
  BY <1>1, BeginHeirs
<1>4. Followed(D) \subseteq D
  BY DEF Followed
<1> QED BY <1>1, <1>2, <1>3, <1>4 DEF SqueakYields, rest

\* What no other call crossed has no other one that changes a squeak beside it.
LEMMA SqueakUncrossed ==
    ASSUME CrossInv, SqueakState, NEW c \in calls, ~c.crossed
    PROVE  \A b \in calls \ {c} : b.thunk \notin SqueakWriters
<1> SUFFICES ASSUME NEW b \in calls \ {c}, b.thunk \in SqueakWriters
             PROVE  FALSE
  OBVIOUS
<1>1. b.writes
  BY SqueakWritersApart DEF SqueakState, SqueakCalls, Of, SqueakRequests
<1> QED BY <1>1 DEF CrossInv

\* A call that fetches and has no answer yet.
LEMMA SqueakFetching ==
    ASSUME NEW d, SqueakOpens(d), d.thunk \notin SqueakWriters, NEW id, NEW rest,
           NEW e, e = Started(d, id, rest)
    PROVE  SqueakRequests(e) /\ SqueakTrue(e)'
<1>1. /\ e.thunk = d.thunk /\ e.arg = d.arg /\ e.todo = d.todo /\ e.writes = d.writes
      /\ e.reply = None
  BY DEF Started
<1>2. SqueakRequests(e) /\ e.todo # <<>> /\ e.reply # Error
  BY <1>1, ThunksAssumption DEF SqueakOpens, SqueakRequests
<1>3. e.thunk \notin Rereads \cup {"setBuySqueak", "setDeleteSqueak"}
  BY <1>1 DEF SqueakWriters, Rereads
<1> QED BY <1>2, <1>3 DEF SqueakTrue

\* A call ends, while the node stays as it is.
LEMMA SqueaksEnd ==
    ASSUME CrossInv, SqueakState, NEW c \in calls, SqueakYields(c), UNCHANGED <<row, paid>>,
           c.crossed => CurrentNoFresher,
           CurrentFresh' => \/ currentSqueak' = EntryOf(squeakRoute')
                            \/ \E b \in calls \ {c} : b.thunk \in SqueakWriters,
           OffersFresh' => \/ squeakOffers' = UnpaidOffers(squeakRoute')
                           \/ \E b \in calls \ {c} : b.thunk = "setBuySqueak",
           SummaryFresh' => \/ summaryForSqueak' = Spent(squeakRoute')
                            \/ \E b \in calls \ {c} : b.thunk = "setBuySqueak"
    PROVE  SqueakState'
<1>1. ASSUME NEW e \in calls', e.thunk \in SqueakThunks
      PROVE  SqueakRequests(e) /\ SqueakTrue(e)'
  <2>1. CASE \E d, id : /\ SqueakOpens(d) /\ d.thunk \notin SqueakWriters
                        /\ e = Started(d, id, calls \ {c})
    BY <2>1, SqueakFetching
  <2>2. CASE \E b \in calls \ {c} : Waits(e, b)
    <3>1. PICK b \in calls \ {c} : Waits(e, b)
      BY <2>2
    <3>2. e.thunk \in SqueakWriters => CurrentNoFresher
      BY <3>1, SqueakUncrossed DEF Waits, Heir
    <3>3. SqueakRequests(b) /\ SqueakTrue(b) /\ Heir(e, b)
      BY <1>1, <3>1 DEF SqueakState, SqueakCalls, Of, Waits, Heir
    <3> QED BY <3>1, <3>2, <3>3, SqueakWaits
  <2> QED BY <2>1, <2>2 DEF SqueakYields
<1>2. SqueakCalls'
  BY <1>1 DEF SqueakCalls, Of, SqueakRequests, SqueakTrue
<1>3. /\ EntryOf(squeakRoute)' = EntryOf(squeakRoute')
      /\ UnpaidOffers(squeakRoute)' = UnpaidOffers(squeakRoute')
      /\ Spent(squeakRoute)' = Spent(squeakRoute')
  BY DEF EntryOf, UnpaidOffers, Spent
<1>4. \A b \in calls \ {c} : \E e \in calls' : e.thunk = b.thunk
  BY DEF SqueakYields, Waits, Heir
<1>5. SqueaksFresh'
  BY <1>3, <1>4 DEF SqueaksFresh
<1> QED BY <1>2, <1>5 DEF SqueakState, RowStored

\* The fields stay and get no fresher: a reply that they have nothing to do with.
LEMMA SqueaksEndSame ==
    ASSUME CrossInv, SqueakState, NEW c \in calls, SqueakYields(c), UNCHANGED <<row, paid>>,
           PageNoFresher, c.thunk \notin SqueakWriters
    PROVE  SqueakState'
<1>1. "setBuySqueak" \in SqueakWriters /\ SqueaksFresh
  BY DEF SqueakWriters, Rereads, SqueakState
<1>2. CurrentFresh' => \/ currentSqueak' = EntryOf(squeakRoute')
                       \/ \E b \in calls \ {c} : b.thunk \in SqueakWriters
  BY <1>1 DEF SqueaksFresh, PageNoFresher, CurrentNoFresher
<1>3. OffersFresh' => \/ squeakOffers' = UnpaidOffers(squeakRoute')
                      \/ \E b \in calls \ {c} : b.thunk = "setBuySqueak"
  BY <1>1 DEF SqueaksFresh, PageNoFresher
<1>4. SummaryFresh' => \/ summaryForSqueak' = Spent(squeakRoute')
                       \/ \E b \in calls \ {c} : b.thunk = "setBuySqueak"
  BY <1>1 DEF SqueaksFresh, PageNoFresher
<1> QED BY <1>2, <1>3, <1>4, SqueaksEnd DEF PageNoFresher

\* Nothing is fresh any more.
LEMMA SqueaksEndStale ==
    ASSUME CrossInv, SqueakState, NEW c \in calls, SqueakYields(c), UNCHANGED <<row, paid>>,
           PageFields \subseteq foreign' \cup doubt'
    PROVE  SqueakState'
<1>1. ~CurrentFresh' /\ ~OffersFresh' /\ ~SummaryFresh'
  BY DEF CurrentFresh, OffersFresh, SummaryFresh, PageFields
<1> QED BY <1>1, SqueaksEnd DEF CurrentNoFresher

\* The payments of a page that no call fetches any more may be as fresh as before.
LEMMA SummaryStillFresh ==
    ASSUME NEW c \in calls, SqueakYields(c), c.thunk # "fetchPaymentSummaryForSqueak",
           UNCHANGED squeakRoute,
           "summary" \in foreign \cup doubt => "summary" \in foreign' \cup doubt',
           SummaryFresh'
    PROVE  SummaryFresh
<1>1. \A b \in calls \ {c} : \E e \in calls' : e.thunk = b.thunk
  BY DEF SqueakYields, Waits, Heir
<1> QED BY <1>1 DEF SummaryFresh

\* What is shown of the page beside the squeak stays.
LEMMA RestOfPage ==
    ASSUME SqueakState, NEW c \in calls, c.thunk # "setBuySqueak",
           OffersFresh' => OffersFresh /\ UNCHANGED <<squeakOffers, squeakRoute>>,
           SummaryFresh' => SummaryFresh /\ UNCHANGED <<summaryForSqueak, squeakRoute>>
    PROVE  /\ OffersFresh' => \/ squeakOffers' = UnpaidOffers(squeakRoute')
                              \/ \E b \in calls \ {c} : b.thunk = "setBuySqueak"
           /\ SummaryFresh' => \/ summaryForSqueak' = Spent(squeakRoute')
                               \/ \E b \in calls \ {c} : b.thunk = "setBuySqueak"
BY DEF SqueakState, SqueaksFresh

LEMMA FetchSqueakFulfilledKeeps ==
    ASSUME CallsInv, CrossInv, SqueakState, NEW c \in calls, fetchSqueakFulfilled(c),
           UNCHANGED squeakNode
    PROVE  SqueakState'
<1>1. /\ c.thunk = "fetchSqueak" /\ c.todo = <<>> /\ c.reply # Error /\ c.thunk \in SqueakThunks
      /\ UNCHANGED <<row, paid>>
  BY DEF fetchSqueakFulfilled, Done, SqueakThunks, squeakNode
<1>2. SqueakYields(c)
  BY SettleEnds, SqueakEndsYields DEF fetchSqueakFulfilled
<1>3. ~c.crossed => c.reply = EntryOf(c.arg)
  BY <1>1 DEF SqueakState, SqueakCalls, Of, SqueakTrue
<1>4. CurrentFresh' => ~c.crossed /\ c.arg = squeakRoute'
  BY DEF fetchSqueakFulfilled, Arrives, Replaces, CurrentFresh, squeakPage
<1>5. CurrentFresh' => currentSqueak' = EntryOf(squeakRoute')
  BY <1>3, <1>4 DEF fetchSqueakFulfilled
<1>6. /\ UNCHANGED <<squeakOffers, summaryForSqueak, squeakRoute>>
      /\ (OffersFresh' => OffersFresh) /\ (SummaryFresh' => SummaryFresh)
  BY <1>1, <1>2, SummaryStillFresh DEF fetchSqueakFulfilled, Arrives, Replaces, OffersFresh, squeakPage
<1>7. c.crossed => CurrentNoFresher
  BY <1>4 DEF CurrentNoFresher
<1>8. /\ OffersFresh' => \/ squeakOffers' = UnpaidOffers(squeakRoute')
                         \/ \E b \in calls \ {c} : b.thunk = "setBuySqueak"
      /\ SummaryFresh' => \/ summaryForSqueak' = Spent(squeakRoute')
                          \/ \E b \in calls \ {c} : b.thunk = "setBuySqueak"
  BY <1>1, <1>6, RestOfPage
<1> QED BY <1>1, <1>2, <1>5, <1>7, <1>8, SqueaksEnd

LEMMA FetchSqueakOffersFulfilledKeeps ==
    ASSUME CallsInv, CrossInv, SqueakState, NEW c \in calls, fetchSqueakOffersFulfilled(c),
           UNCHANGED squeakNode
    PROVE  SqueakState'
<1>1. /\ c.thunk = "fetchSqueakOffers" /\ c.todo = <<>> /\ c.reply # Error
      /\ c.thunk \in SqueakThunks /\ c.thunk \notin SqueakWriters
      /\ UNCHANGED <<row, paid>>
  BY SqueakWritersApart DEF fetchSqueakOffersFulfilled, Done, SqueakThunks, squeakNode
<1>2. SqueakYields(c)
  BY SettleEnds, SqueakEndsYields DEF fetchSqueakOffersFulfilled
<1>3. ~c.crossed => c.reply = UnpaidOffers(c.arg)
  BY <1>1 DEF SqueakState, SqueakCalls, Of, SqueakTrue
<1>4. OffersFresh' => ~c.crossed /\ c.arg = squeakRoute'
  BY DEF fetchSqueakOffersFulfilled, Arrives, Replaces, OffersFresh, squeakPage
<1>5. OffersFresh' => squeakOffers' = UnpaidOffers(squeakRoute')
  BY <1>3, <1>4 DEF fetchSqueakOffersFulfilled
<1>6. UNCHANGED <<currentSqueak, summaryForSqueak, squeakRoute>>
  BY DEF fetchSqueakOffersFulfilled, squeakPage
<1>7. CurrentFresh' => CurrentFresh
  BY <1>6 DEF fetchSqueakOffersFulfilled, Arrives, Replaces, CurrentFresh
<1>8. SummaryFresh' => SummaryFresh
  BY <1>1, <1>2, <1>6, SummaryStillFresh DEF fetchSqueakOffersFulfilled, Arrives, Replaces
<1>9. CurrentNoFresher
  BY <1>6, <1>7 DEF CurrentNoFresher
<1>10. /\ CurrentFresh' => \/ currentSqueak' = EntryOf(squeakRoute')
                           \/ \E b \in calls \ {c} : b.thunk \in SqueakWriters
       /\ SummaryFresh' => \/ summaryForSqueak' = Spent(squeakRoute')
                           \/ \E b \in calls \ {c} : b.thunk = "setBuySqueak"
  BY <1>1, <1>6, <1>7, <1>8 DEF SqueakState, SqueaksFresh
<1> QED BY <1>1, <1>2, <1>5, <1>9, <1>10, SqueaksEnd

LEMMA FetchPaymentSummaryForSqueakFulfilledKeeps ==
    ASSUME CallsInv, CrossInv, SqueakState, NEW c \in calls,
           fetchPaymentSummaryForSqueakFulfilled(c), UNCHANGED squeakNode
    PROVE  SqueakState'
<1>1. /\ c.thunk = "fetchPaymentSummaryForSqueak" /\ c.todo = <<>> /\ c.reply # Error
      /\ c.thunk \in SqueakThunks /\ c.thunk \notin SqueakWriters
      /\ UNCHANGED <<row, paid>>
  BY SqueakWritersApart DEF fetchPaymentSummaryForSqueakFulfilled, Done, SqueakThunks, squeakNode
<1>2. SqueakYields(c)
  BY SettleEnds, SqueakEndsYields DEF fetchPaymentSummaryForSqueakFulfilled
<1>3. ~c.crossed => c.reply = Spent(c.arg)
  BY <1>1 DEF SqueakState, SqueakCalls, Of, SqueakTrue
<1>4. SummaryFresh' => ~c.crossed /\ c.arg = squeakRoute'
  BY DEF fetchPaymentSummaryForSqueakFulfilled, Arrives, Replaces, SummaryFresh, squeakPage
<1>5. SummaryFresh' => summaryForSqueak' = Spent(squeakRoute')
  BY <1>3, <1>4 DEF fetchPaymentSummaryForSqueakFulfilled
<1>6. UNCHANGED <<currentSqueak, squeakOffers, squeakRoute>>
  BY DEF fetchPaymentSummaryForSqueakFulfilled, squeakPage
<1>7. (CurrentFresh' => CurrentFresh) /\ (OffersFresh' => OffersFresh)
  BY <1>6 DEF fetchPaymentSummaryForSqueakFulfilled, Arrives, Replaces, CurrentFresh, OffersFresh
<1>8. CurrentNoFresher
  BY <1>6, <1>7 DEF CurrentNoFresher
<1>9. /\ CurrentFresh' => \/ currentSqueak' = EntryOf(squeakRoute')
                          \/ \E b \in calls \ {c} : b.thunk \in SqueakWriters
      /\ OffersFresh' => \/ squeakOffers' = UnpaidOffers(squeakRoute')
                         \/ \E b \in calls \ {c} : b.thunk = "setBuySqueak"
  BY <1>1, <1>6, <1>7 DEF SqueakState, SqueaksFresh
<1> QED BY <1>1, <1>2, <1>5, <1>8, <1>9, SqueaksEnd

\* Replies that go to a list.
LEMMA SqueakListFulfilledKeeps ==
    ASSUME CallsInv, CrossInv, SqueakState, NEW c \in calls,
           fetchAncestorSqueaksFulfilled(c) \/ fetchReplySqueaksFulfilled(c) \/ fetchListFulfilled(c),
           UNCHANGED squeakNode
    PROVE  SqueakState'
<1>1. /\ c.thunk \in {"fetchAncestorSqueaks", "fetchReplySqueaks", "fetchTimeline", "fetchSearch",
                      "fetchProfileSqueaks"}
      /\ Settle(c, {}) /\ UNCHANGED <<currentSqueak, squeakOffers, summaryForSqueak, squeakRoute>>
      /\ UNCHANGED <<row, paid>>
  BY DEF fetchAncestorSqueaksFulfilled, fetchReplySqueaksFulfilled, fetchListFulfilled, Done,
     squeakPage, squeakNode
<1>2. /\ c.thunk \notin SqueakWriters /\ c.thunk # "fetchPaymentSummaryForSqueak"
      /\ SqueakYields(c)
  BY <1>1, SqueakWritersApart, SettleEnds, SqueakEndsYields
<1>3. \A field \in {"current", "offers", "summary"} :
            field \in foreign \cup doubt => field \in foreign' \cup doubt'
  BY DEF fetchAncestorSqueaksFulfilled, fetchReplySqueaksFulfilled, fetchListFulfilled, Arrives,
     Replaces, Updates
<1>4. SummaryFresh' => SummaryFresh
  BY <1>1, <1>2, <1>3, SummaryStillFresh
<1>5. PageNoFresher
  BY <1>1, <1>3, <1>4 DEF PageNoFresher, CurrentNoFresher, CurrentFresh, OffersFresh
<1> QED BY <1>1, <1>2, <1>5, SqueaksEndSame

\* The new state of a squeak is all that the current one lacks.
LEMMA StoredIsShown ==
    ASSUME RowStored, NEW s, NEW e, e = EntryOf(s), Awaits(s), StoreSqueak(e),
           e = None => currentSqueak = None
    PROVE  currentSqueak' = EntryOf(squeakRoute)
<1>1. currentSqueak' = IF currentSqueak # None /\ currentSqueak.hash = e.hash
                       THEN e ELSE currentSqueak
  BY DEF StoreSqueak
<1>2. \A t : EntryOf(t) # None => EntryOf(t).hash = t
  BY DEF EntryOf
<1> QED BY <1>1, <1>2 DEF Awaits

LEMMA SqueakStoredKeeps ==
    ASSUME CallsInv, CrossInv, SqueakState, NEW c \in calls,
           setLikeSqueakFulfilled(c) \/ setUnlikeSqueakFulfilled(c), UNCHANGED squeakNode
    PROVE  SqueakState'
<1>1. /\ c.thunk \in Rereads \ {"setDownloadSqueak"} /\ c.todo = <<>> /\ c.reply # Error
      /\ c.thunk \in SqueakThunks
      /\ c.thunk # "setBuySqueak" /\ c.thunk # "fetchPaymentSummaryForSqueak"
  BY DEF setLikeSqueakFulfilled, setUnlikeSqueakFulfilled, Done, Rereads, SqueakThunks
<1>2. /\ ~Throws(c) /\ StoreSqueak(c.reply) /\ Settle(c, {}) /\ Updates(c, SqueakFields)
      /\ UNCHANGED <<squeakOffers, summaryForSqueak, squeakRoute, foreign>>
      /\ UNCHANGED <<row, paid>>
  BY DEF setLikeSqueakFulfilled, setUnlikeSqueakFulfilled, squeakPage, squeakNode
<1>3. SqueakYields(c)
  BY <1>2, SettleEnds, SqueakEndsYields
<1>4. CASE c.crossed
  <2>1. PageFields \subseteq doubt'
    BY <1>2, <1>4 DEF Updates, SqueakFields
  <2> QED BY <1>2, <1>3, <2>1, SqueaksEndStale
<1>5. CASE ~c.crossed
  <2>1. UNCHANGED doubt
    BY <1>2, <1>5 DEF Updates
  <2>2. /\ CurrentFresh' = CurrentFresh /\ OffersFresh' = OffersFresh
        /\ SummaryFresh' => SummaryFresh
    BY <1>1, <1>2, <1>3, <2>1, SummaryStillFresh DEF CurrentFresh, OffersFresh
  <2>3. CurrentFresh => Awaits(c.arg) /\ c.reply = EntryOf(c.arg)
    BY <1>1, <1>5 DEF SqueakState, SqueakCalls, Of, SqueakTrue
  <2>4. CurrentFresh => currentSqueak' = EntryOf(squeakRoute')
    BY <1>2, <2>3, StoredIsShown DEF Throws, SqueakState
  <2> QED BY <1>1, <1>2, <1>3, <1>5, <2>2, <2>4, RestOfPage, SqueaksEnd
<1> QED BY <1>4, <1>5

LEMMA SetDeleteSqueakFulfilledKeeps ==
    ASSUME CallsInv, CrossInv, SqueakState, NEW c \in calls, setDeleteSqueakFulfilled(c),
           UNCHANGED squeakNode
    PROVE  SqueakState'
<1>1. /\ c.thunk = "setDeleteSqueak" /\ c.todo = <<>> /\ c.reply # Error
      /\ c.thunk \in SqueakThunks /\ Settle(c, {}) /\ Updates(c, SqueakFields)
      /\ UNCHANGED <<squeakOffers, summaryForSqueak, squeakRoute, foreign>>
      /\ UNCHANGED <<row, paid>>
  BY DEF setDeleteSqueakFulfilled, Done, SqueakThunks, squeakPage, squeakNode
<1>2. SqueakYields(c)
  BY <1>1, SettleEnds, SqueakEndsYields
<1>3. CASE c.crossed
  <2>1. PageFields \subseteq doubt'
    BY <1>1, <1>3 DEF Updates, SqueakFields
  <2> QED BY <1>1, <1>2, <2>1, SqueaksEndStale
<1>4. CASE ~c.crossed
  <2>1. UNCHANGED doubt
    BY <1>1, <1>4 DEF Updates
  <2>2. /\ CurrentFresh' = CurrentFresh /\ OffersFresh' = OffersFresh
        /\ SummaryFresh' => SummaryFresh
    BY <1>1, <1>2, <2>1, SummaryStillFresh DEF CurrentFresh, OffersFresh
  <2>3. CurrentFresh => RemovalTrue(c)
    BY <1>1, <1>4 DEF SqueakState, SqueakCalls, Of, SqueakTrue
  <2>4. CurrentFresh => currentSqueak' = EntryOf(squeakRoute')
    BY <1>1, <2>3 DEF RemovalTrue, setDeleteSqueakFulfilled
  <2> QED BY <1>1, <1>2, <1>4, <2>2, <2>4, RestOfPage, SqueaksEnd
<1> QED BY <1>3, <1>4

LEMMA SetDownloadSqueakFulfilledKeeps ==
    ASSUME CallsInv, CrossInv, SqueakState, NEW c \in calls, setDownloadSqueakFulfilled(c),
           UNCHANGED squeakNode
    PROVE  SqueakState'
<1>1. /\ c.thunk = "setDownloadSqueak" /\ c.todo = <<>> /\ c.reply # Error
      /\ c.thunk \in SqueakThunks /\ Settle(c, {}) /\ Updates(c, SqueakFields)
      /\ UNCHANGED <<squeakOffers, summaryForSqueak, squeakRoute>> /\ currentSqueak' = c.reply
      /\ UNCHANGED <<row, paid>>
  BY DEF setDownloadSqueakFulfilled, Done, SqueakThunks, squeakPage, squeakNode
<1>2. SqueakYields(c)
  BY <1>1, SettleEnds, SqueakEndsYields
<1>3. CASE c.crossed
  <2>1. PageFields \subseteq doubt'
    BY <1>1, <1>3 DEF Updates, SqueakFields
  <2> QED BY <1>1, <1>2, <2>1, SqueaksEndStale
<1>4. CASE ~c.crossed
  <2>1. UNCHANGED doubt
    BY <1>1, <1>4 DEF Updates
  <2>2. \A field \in {"offers", "summary"} : field \in foreign => field \in foreign'
    BY DEF setDownloadSqueakFulfilled
  <2>3. (OffersFresh' => OffersFresh) /\ (SummaryFresh' => SummaryFresh)
    BY <1>1, <1>2, <2>1, <2>2, SummaryStillFresh DEF OffersFresh
  <2>4. CurrentFresh' => c.arg = squeakRoute'
    BY <1>1 DEF setDownloadSqueakFulfilled, CurrentFresh
  <2>5. c.reply = EntryOf(c.arg)
    BY <1>1, <1>4 DEF SqueakState, SqueakCalls, Of, SqueakTrue, Rereads
  <2>6. CurrentFresh' => currentSqueak' = EntryOf(squeakRoute')
    BY <1>1, <2>4, <2>5
  <2> QED BY <1>1, <1>2, <1>4, <2>3, <2>6, RestOfPage, SqueaksEnd
<1> QED BY <1>3, <1>4

\* The payments for a squeak are only shown where they are fetched.
SqueakViewInv ==
    /\ "fetchPaymentSummaryForSqueak" \in view \/ "summary" \in foreign
    /\ Follows(SqueakThunks) \/ foreign = PageFields

\* The offers are in doubt after a purchase, the payments are read again.
LEMMA SetBuySqueakFulfilledKeeps ==
    ASSUME CallsInv, CrossInv, SqueakViewInv, SqueakState, NEW c \in calls,
           setBuySqueakFulfilled(c), UNCHANGED squeakNode
    PROVE  SqueakState'
<1>1. /\ c.thunk = "setBuySqueak" /\ c.todo = <<>> /\ c.reply # Error
      /\ c.thunk \in SqueakThunks /\ c.thunk \in Rereads \ {"setDownloadSqueak"}
      /\ ~Throws(c) /\ StoreSqueak(c.reply)
      /\ UNCHANGED <<squeakOffers, summaryForSqueak, squeakRoute, foreign>>
      /\ UNCHANGED <<row, paid>>
  BY DEF setBuySqueakFulfilled, Done, SqueakThunks, Rereads, squeakPage, squeakNode
<1>2. PICK d : d = fetchPaymentSummaryForSqueak(c.arg)
  OBVIOUS
<1>3. calls' = Begin({d}, c.id, calls \ {c})
  BY <1>2 DEF setBuySqueakFulfilled, Settle
<1>4. SqueakYields(c)
  <2>1. \A b \in {d} : SqueakOpens(b) /\ b.thunk \notin SqueakWriters
    BY <1>2, SqueakReadsOpen
  <2> QED BY <1>3, <2>1, SqueakBeginYields
<1>5. ~SummaryFresh'
  <2>1. CASE "summary" \in foreign
    BY <1>1, <2>1 DEF SummaryFresh
  <2>2. CASE "fetchPaymentSummaryForSqueak" \in view
    <3>1. d.thunk = "fetchPaymentSummaryForSqueak"
      BY <1>2 DEF fetchPaymentSummaryForSqueak, Read
    <3>2. d \in Followed({d})
      BY <2>2, <3>1 DEF Followed
    <3>3. Started(d, c.id, calls \ {c}) \in calls'
      BY <1>3, <3>2 DEF Begin
    <3>4. Started(d, c.id, calls \ {c}).thunk = "fetchPaymentSummaryForSqueak"
      BY <3>1 DEF Started
    <3> QED BY <3>3, <3>4 DEF SummaryFresh
  <2> QED BY <2>1, <2>2 DEF SqueakViewInv
<1>6. CASE c.crossed
  <2>1. PageFields \subseteq doubt'
    BY <1>6 DEF setBuySqueakFulfilled, SqueakFields
  <2> QED BY <1>1, <1>4, <2>1, SqueaksEndStale
<1>7. CASE ~c.crossed
  <2>1. doubt' = doubt \cup {"offers"}
    BY <1>7 DEF setBuySqueakFulfilled
  <2>2. CurrentFresh' = CurrentFresh /\ ~OffersFresh'
    BY <1>1, <2>1 DEF CurrentFresh, OffersFresh
  <2>3. CurrentFresh => Awaits(c.arg) /\ c.reply = EntryOf(c.arg)
    BY <1>1, <1>7 DEF SqueakState, SqueakCalls, Of, SqueakTrue
  <2>4. CurrentFresh => currentSqueak' = EntryOf(squeakRoute')
    BY <1>1, <2>3, StoredIsShown DEF Throws, SqueakState
  <2> QED BY <1>1, <1>4, <1>5, <1>7, <2>2, <2>4, SqueaksEnd
<1> QED BY <1>6, <1>7

LEMMA SetMakeSqueakFulfilledKeeps ==
    ASSUME CallsInv, CrossInv, SqueakState, NEW c \in calls, setMakeSqueakFulfilled(c),
           UNCHANGED squeakNode
    PROVE  SqueakState'
<1>1. /\ Settle(c, SqueakMounted(c.reply)) /\ foreign' = PageFields
      /\ UNCHANGED <<row, paid>>
  BY DEF setMakeSqueakFulfilled, ShowSqueak, squeakNode
<1>2. \A d \in SqueakMounted(c.reply) : SqueakOpens(d) /\ d.thunk \notin SqueakWriters
  BY SqueakReadsOpen DEF SqueakMounted
<1>3. SqueakYields(c)
  BY <1>1, <1>2, SqueakBeginYields DEF Settle
<1> QED BY <1>1, <1>3, SqueaksEndStale

LEMMA SqueakReplyKeeps ==
    ASSUME CallsInv, CrossInv, SqueakViewInv, SqueakState, SqueakReply
    PROVE  SqueakState'
<1>1. PICK c \in calls :
        \/ fetchSqueakFulfilled(c) \/ fetchAncestorSqueaksFulfilled(c)
        \/ fetchReplySqueaksFulfilled(c) \/ fetchListFulfilled(c)
        \/ fetchSqueakOffersFulfilled(c) \/ fetchPaymentSummaryForSqueakFulfilled(c)
        \/ setLikeSqueakFulfilled(c) \/ setUnlikeSqueakFulfilled(c)
        \/ setDeleteSqueakFulfilled(c) \/ setMakeSqueakFulfilled(c)
        \/ setBuySqueakFulfilled(c) \/ setDownloadSqueakFulfilled(c)
        \/ SqueakReducerThrows(c) \/ SqueakThunkRejected(c)
  BY DEF SqueakReply
<1>2. UNCHANGED squeakNode /\ UNCHANGED <<row, paid>>
  BY DEF SqueakReply, squeakNode
<1>3. CASE SqueakReducerThrows(c)
  <2>1. Ends(c) /\ PageFields \subseteq doubt'
    BY <1>3 DEF SqueakReducerThrows, Crash, Ends, Waits, Heir, SqueakFields
  <2> QED BY <1>2, <2>1, SqueakEndsYields, SqueaksEndStale
<1>4. CASE SqueakThunkRejected(c)
  <2>1. /\ Rejected(c, RejectedIsHandled(c), IF c.writes THEN SqueakFields ELSE {FieldOf(c.thunk)})
        /\ UNCHANGED <<currentSqueak, squeakOffers, summaryForSqueak, squeakRoute, foreign>>
        /\ c.thunk \in SqueakThunks
    BY <1>4 DEF SqueakThunkRejected, squeakFields, squeakPage
  <2>2. SqueakYields(c)
    BY <2>1, RejectedEnds, SqueakEndsYields
  <2>3. doubt' = doubt \cup (IF c.writes THEN SqueakFields ELSE {FieldOf(c.thunk)})
    BY <2>1 DEF Rejected
  <2>4. CASE c.writes
    BY <1>2, <2>2, <2>3, <2>4, SqueaksEndStale DEF SqueakFields
  <2>5. CASE ~c.writes
    <3>1. c.thunk \notin SqueakWriters
      BY <2>1, <2>5 DEF SqueakState, SqueakCalls, Of, SqueakRequests
    <3>2. c.thunk = "fetchPaymentSummaryForSqueak" => ~SummaryFresh'
      BY <2>3, <2>5 DEF FieldOf, SummaryFresh
    <3>3. SummaryFresh' => SummaryFresh
      BY <2>1, <2>2, <2>3, <3>2, SummaryStillFresh
    <3>4. PageNoFresher
      BY <2>1, <2>3, <3>3 DEF PageNoFresher, CurrentNoFresher, CurrentFresh, OffersFresh
    <3> QED BY <1>2, <2>2, <3>1, <3>4, SqueaksEndSame
  <2> QED BY <2>4, <2>5
<1> QED BY <1>1, <1>2, <1>3, <1>4, FetchSqueakFulfilledKeeps, FetchSqueakOffersFulfilledKeeps,
        FetchPaymentSummaryForSqueakFulfilledKeeps, SqueakListFulfilledKeeps, SqueakStoredKeeps,
        SetDeleteSqueakFulfilledKeeps, SetDownloadSqueakFulfilledKeeps, SetBuySqueakFulfilledKeeps,
        SetMakeSqueakFulfilledKeeps

LEMMA SqueakViewInvNext == ViewInv /\ SqueakViewInv /\ [Next]_vars => SqueakViewInv'
<1> SUFFICES ASSUME ViewInv, SqueakViewInv, [Next]_vars
             PROVE  SqueakViewInv'
  OBVIOUS
<1>1. view' = view
  BY ViewStays
<1>2. CASE UNCHANGED foreign
  BY <1>1, <1>2 DEF SqueakViewInv, Follows
<1>3. CASE Squeaks
  <2>1. "summary" \in foreign =>
            "fetchPaymentSummaryForSqueak" \in view \/ "summary" \in foreign'
    <3>1. CASE UNCHANGED foreign \/ foreign' = PageFields
      BY <3>1 DEF PageFields
    <3>2. CASE SqueakUser
      BY <3>1, <3>2 DEF SqueakUser, OpenSqueak, ShowSqueak, OpenTimeline, OpenSearch,
         OpenProfileSqueaks, OpenList, ClickPageHeart, ClickPageDelete, ClickDownload,
         ClickCardHeart, ClickCardDelete, toggleBuyModal, ClickBuy, handleChangeOffer,
         submitSqueak, squeakVars
    <3>3. CASE SqueakServer
      BY <3>1, <3>3 DEF SqueakServer
    <3>4. ASSUME NEW c \in calls, fetchPaymentSummaryForSqueakFulfilled(c)
          PROVE  "fetchPaymentSummaryForSqueak" \in view
      BY <3>4 DEF ViewInv, fetchPaymentSummaryForSqueakFulfilled, Done
    <3>5. CASE SqueakReply
      BY <3>1, <3>4, <3>5 DEF SqueakReply, fetchSqueakFulfilled, fetchAncestorSqueaksFulfilled,
         fetchReplySqueaksFulfilled, fetchListFulfilled, fetchSqueakOffersFulfilled, Arrives,
         setLikeSqueakFulfilled, setUnlikeSqueakFulfilled, setDeleteSqueakFulfilled,
         setMakeSqueakFulfilled, ShowSqueak, setBuySqueakFulfilled, setDownloadSqueakFulfilled,
         SqueakReducerThrows, SqueakThunkRejected
    <3> QED BY <1>3, <3>2, <3>3, <3>5 DEF Squeaks
  <2> QED BY <1>1, <1>3, <2>1 DEF SqueakViewInv, Squeaks, Follows
<1> QED BY <1>2, <1>3 DEF Next, vars, Lost, butProfiles, butPeers, butPayments, butSettings,
        squeakVars

LEMMA LogoutFarFromSqueaks ==
    ASSUME ViewInv, SqueakViewInv, SqueakState, NEW c \in calls, setLogoutFulfilled(c),
           UNCHANGED squeakVars
    PROVE  SqueakState'
<1>1. "setLogout" \in view /\ calls' = {}
  BY DEF ViewInv, setLogoutFulfilled, Done
<1>2. view \subseteq SettingsThunks
  BY <1>1, LogoutAssumption DEF ViewInv
<1>3. SettingsThunks \cap SqueakThunks = {}
  BY DEF SettingsThunks, SqueakThunks
<1>4. foreign' = PageFields /\ row' = row
  BY <1>2, <1>3 DEF SqueakViewInv, Follows, squeakVars, squeakNode
<1> QED BY <1>1, <1>4 DEF SqueakState, RowStored, SqueakCalls, SqueaksFresh, CurrentFresh,
        OffersFresh, SummaryFresh, Of, PageFields

\* What the page of a squeak shows is left alone by the rest.
LEMMA SqueakVarsElsewhere ==
    ASSUME SqueakState, Elsewhere(SqueakThunks, SqueakFields), UNCHANGED squeakVars
    PROVE  SqueakState'
BY SqueaksElsewhere DEF squeakVars, squeakNode, squeakFields, squeakPage

\* A step of another slice.
LEMMA OthersApartFromSqueaks ==
    ASSUME CallsInv, ViewInv, SqueakViewInv, SqueakState,
           Profiles \/ Peers \/ Payments \/ Settings, UNCHANGED squeakVars
    PROVE  SqueakState'
<1>1. CASE Profiles
  <2>1. SliceStep(ProfileThunks) /\ doubt \ ProfileFields \subseteq doubt'
    BY <1>1, ProfilesSliceStep, ProfilesDoubt DEF Profiles
  <2>2. SqueakThunks \cap ProfileThunks = {} /\ SqueakFields \cap ProfileFields = {}
    BY DEF ProfileThunks, SqueakThunks, ProfileFields, ProfileLists, SqueakFields, PageFields, List
  <2> QED BY <2>1, <2>2, SliceElsewhere, SqueakVarsElsewhere
<1>2. CASE Peers
  <2>1. SliceStep(PeerThunks) /\ doubt \ PeerFields \subseteq doubt'
    BY <1>2, PeersSliceStep, PeersDoubt DEF Peers
  <2>2. SqueakThunks \cap PeerThunks = {} /\ SqueakFields \cap PeerFields = {}
    BY DEF PeerThunks, SqueakThunks, PeerFields, SqueakFields, PageFields, List
  <2> QED BY <2>1, <2>2, SliceElsewhere, SqueakVarsElsewhere
<1>3. CASE Payments
  <2>1. SliceStep(PaymentThunks) /\ doubt \ {} \subseteq doubt'
    BY <1>3, PaymentsSliceStep, PaymentsDoubt DEF Payments
  <2>2. SqueakThunks \cap PaymentThunks = {} /\ SqueakFields \cap {} = {}
    BY DEF SqueakThunks, PaymentThunks
  <2> QED BY <2>1, <2>2, SliceElsewhere, SqueakVarsElsewhere
<1>4. CASE Settings /\ \A c \in calls : ~setLogoutFulfilled(c)
  <2>1. /\ SliceStep(SettingsThunks)
        /\ doubt \ {"sellPriceInfo", "twitterAccounts"} \subseteq doubt'
    BY <1>4, SettingsStays DEF Settings
  <2>2. /\ SqueakThunks \cap SettingsThunks = {}
        /\ SqueakFields \cap {"sellPriceInfo", "twitterAccounts"} = {}
    BY DEF SqueakThunks, SettingsThunks, SqueakFields, PageFields, List
  <2> QED BY <2>1, <2>2, SliceElsewhere, SqueakVarsElsewhere
<1>5. CASE \E c \in calls : setLogoutFulfilled(c)
  BY <1>5, LogoutFarFromSqueaks
<1> QED BY <1>1, <1>2, <1>3, <1>4, <1>5

\* What the theorem about the page of a squeak rests on.
QuietSqueakPageInv == CrossInv /\ CallsInv /\ ViewInv /\ SqueakViewInv /\ SqueakState

LEMMA QuietSqueakPageInvInit == Init => QuietSqueakPageInv
<1> SUFFICES ASSUME Init
             PROVE  QuietSqueakPageInv
  OBVIOUS
<1>1. calls = {} /\ view \in DOMAIN Views /\ peerAwaited = PeerFields /\ foreign = PageFields
  BY DEF Init, ThunksInit, PeersInit, SqueaksInit
<1>2. CallsInv /\ CrossInv /\ ViewInv /\ SqueakViewInv
  BY <1>1 DEF CallsInv, CrossInv, ViewInv, SqueakViewInv, PageFields
<1>3. SqueakState
  BY <1>1 DEF Init, SqueaksInit, SqueakState, RowStored, SqueakCalls, SqueaksFresh, CurrentFresh,
     OffersFresh, SummaryFresh, Of, PageFields
<1> QED BY <1>2, <1>3 DEF QuietSqueakPageInv

LEMMA QuietSqueakPageInvNext == QuietSqueakPageInv /\ [Next]_vars => QuietSqueakPageInv'
<1> SUFFICES ASSUME QuietSqueakPageInv, [Next]_vars
             PROVE  QuietSqueakPageInv'
  OBVIOUS
<1>1. CallsInv /\ CrossInv /\ ViewInv /\ SqueakViewInv /\ SqueakState
  BY DEF QuietSqueakPageInv
<1>2. CrossInv' /\ CallsInv' /\ ViewInv' /\ SqueakViewInv'
  BY <1>1, CrossedInvNext, ViewInvNext, SqueakViewInvNext DEF CrossedInv
<1>3. CASE Squeaks
  BY <1>1, <1>2, <1>3, SqueakUserKeeps, SqueakServerKeeps, SqueakReplyKeeps
     DEF Squeaks, QuietSqueakPageInv
<1>4. CASE (Profiles \/ Peers \/ Payments \/ Settings) /\ UNCHANGED squeakVars
  BY <1>1, <1>2, <1>4, OthersApartFromSqueaks DEF QuietSqueakPageInv
<1>5. ASSUME Elsewhere(SqueakThunks, SqueakFields), UNCHANGED squeakVars
      PROVE  QuietSqueakPageInv'
  BY <1>1, <1>2, <1>5, SqueakVarsElsewhere DEF QuietSqueakPageInv
<1>6. CASE Lost
  <2>1. Elsewhere(SqueakThunks, SqueakFields)
    BY <1>1, <1>6, LostElsewhere DEF Lost
  <2> QED BY <1>5, <1>6, <2>1 DEF Lost
<1>7. CASE UNCHANGED vars
  <2>1. Elsewhere(SqueakThunks, SqueakFields)
    BY <1>7, StutterElsewhere DEF vars, thunkVars
  <2> QED BY <1>5, <1>7, <2>1 DEF vars
<1> QED BY <1>3, <1>4, <1>6, <1>7 DEF Next, butProfiles, butPeers, butPayments, butSettings

LEMMA QuietSqueakPageInvQuiet == QuietSqueakPageInv => QuietSqueakPageTrue
<1> SUFFICES ASSUME SqueaksFresh, calls = {}, squeakRoute \in Squeak,
                    NEW field \in PageFields \ (foreign \cup doubt)
             PROVE  CASE field = "current" -> currentSqueak = EntryOf(squeakRoute)
                      [] field = "offers" -> squeakOffers = UnpaidOffers(squeakRoute)
                      [] field = "summary" -> summaryForSqueak = Spent(squeakRoute)
                      [] OTHER -> TRUE
  BY DEF QuietSqueakPageInv, SqueakState, QuietSqueakPageTrue
<1>1. field = "current" => currentSqueak = EntryOf(squeakRoute)
  BY DEF SqueaksFresh, CurrentFresh
<1>2. field = "offers" => squeakOffers = UnpaidOffers(squeakRoute)
  BY DEF SqueaksFresh, OffersFresh
<1>3. field = "summary" => summaryForSqueak = Spent(squeakRoute)
  BY DEF SqueaksFresh, SummaryFresh
<1> QED BY <1>1, <1>2, <1>3

\* Whatever is liked, bought, downloaded, deleted and made meanwhile, on cards and
\* on other pages, once nothing is under way the page of a squeak shows it as the
\* node has it, or none, its unpaid offers and what was spent on it, unless the
\* field is marked as stale: by overlapping or failed calls, by a purchase, or by
\* an answer for another page (currentSqueak and squeakOffers of the slice
\* of squeaks, paymentSummaryForSqueak of the slice of payments).
THEOREM QuietSqueakPagesShowTheNode == Spec => []QuietSqueakPageTrue
BY QuietSqueakPageInvInit, QuietSqueakPageInvNext, QuietSqueakPageInvQuiet, PTL DEF Spec
-----------------------------------------------------------------------------
(* The lists of squeaks.                                                   *)

LEMMA LeastOne ==
    ASSUME NEW S \in SUBSET Nat, S # {}
    PROVE  \E x \in S : \A y \in S : x <= y
<1> DEFINE R == OpToRel(<, Nat)
<1>1. IsWellFoundedOn(R, Nat)
  BY NatLessThanWellFounded
<1>2. \A x, y \in Nat : <<x, y>> \in R <=> x < y
  BY DEF OpToRel
<1> HIDE DEF R
<1>3. PICK x \in S : \A y \in S : ~(<<y, x>> \in R)
  BY <1>1, WFMin
<1>4. \A y \in S : ~(y < x) /\ x \in Nat /\ y \in Nat
  BY <1>2, <1>3
<1>5. \A y \in S : x <= y
  BY <1>4
<1> QED BY <1>5

\* No more than a page asks for, the newest first.
InOrder(list) ==
    /\ Len(list) <= ReplyLimit
    /\ \A i, j \in 1..Len(list) : i < j => <<list[i].hash, list[j].hash>> \in Newer

Hashes(list) == {list[i].hash : i \in 1..Len(list)}

AllTrue(list, truth) == \A i \in 1..Len(list) : list[i] = truth[list[i].hash]

\* But for X, the list is of the squeaks R, and leaves only such out that are older
\* than all it has, if it is full or was cut.
Leads(list, R, X, cut) ==
    /\ Hashes(list) \ X \subseteq R
    /\ \A r \in R \ (Hashes(list) \cup X) :
        /\ cut \/ Len(list) >= ReplyLimit
        /\ \A h \in Hashes(list) : <<h, r>> \in Newer

\* Those that a list shows once are as they are, but for the squeaks S.
Shows(list, truth, S) ==
    \A i \in 1..Len(list) :
        /\ \A j \in 1..Len(list) : list[j].hash = list[i].hash => j = i
        /\ list[i].hash \notin S
        => list[i] = truth[list[i].hash]

LEMMA UpdatedKeeps ==
    ASSUME NEW list \in Seq(Entry), NEW e \in Entry
    PROVE  LET new == updatedSqueakInArray(list, e)
           IN  /\ new \in Seq(Entry) /\ Len(new) = Len(list)
               /\ \A j \in 1..Len(list) : new[j].hash = list[j].hash
               /\ \A j \in 1..Len(list) : new[j] = list[j] \/ new[j] = e
               /\ \A j \in 1..Len(list) :
                    /\ list[j].hash = e.hash
                    /\ \A k \in 1..Len(list) : list[k].hash = list[j].hash => k = j
                    => new[j] = e
<1> DEFINE at == {j \in 1..Len(list) : list[j].hash = e.hash}
           i == IF at # {} THEN Min(at) ELSE 0
           new == IF i = 0 THEN list ELSE [list EXCEPT ![i] = e]
<1>1. new = updatedSqueakInArray(list, e)
  BY DEF updatedSqueakInArray, SelectInSeq
<1>2. /\ i = 0 => \A j \in 1..Len(list) : list[j].hash # e.hash
      /\ i # 0 => i \in 1..Len(list) /\ list[i].hash = e.hash
  <2>1. at \in SUBSET (1..Len(list)) /\ at \in SUBSET Nat
    OBVIOUS
  <2>2. CASE at # {}
    <3>1. \E x \in at : \A y \in at : x =< y
      BY <2>1, <2>2, LeastOne
    <3>2. i \in at
      BY <2>2, <3>1 DEF Min
    <3> QED BY <2>1, <3>2
  <2> QED BY <2>2
<1> HIDE DEF i
<1>3. /\ new \in Seq(Entry) /\ Len(new) = Len(list)
      /\ \A j \in 1..Len(list) : new[j] = IF i # 0 /\ j = i THEN e ELSE list[j]
  <2>1. CASE i = 0
    BY <2>1
  <2>2. CASE i # 0
    BY <1>2, <2>2
  <2> QED BY <2>1, <2>2
<1> HIDE DEF new
<1>4. \A j \in 1..Len(list) : new[j].hash = list[j].hash
  BY <1>2, <1>3
<1>5. \A j \in 1..Len(list) : new[j] = list[j] \/ new[j] = e
  BY <1>3
<1>6. ASSUME NEW j \in 1..Len(list), list[j].hash = e.hash,
             \A k \in 1..Len(list) : list[k].hash = list[j].hash => k = j
      PROVE  new[j] = e
  <2>1. i # 0 /\ i = j
    BY <1>2, <1>6
  <2> QED BY <1>3, <2>1
<1> QED BY <1>1, <1>3, <1>4, <1>5, <1>6

LEMMA UpdatedEmpty ==
    ASSUME NEW e
    PROVE  updatedSqueakInArray(<<>>, e) = <<>>
<1>1. {j \in 1..Len(<<>>) : <<>>[j].hash = e.hash} = {}
  OBVIOUS
<1> QED BY <1>1 DEF updatedSqueakInArray, SelectInSeq

\* The state that is read shows the squeak as it is.
LEMMA UpdatedShows ==
    ASSUME NEW list \in Seq(Entry), NEW truth, NEW s, Shows(list, truth, {s}),
           NEW e \in Entry, e.hash = s, e = truth[s]
    PROVE  Shows(updatedSqueakInArray(list, e), truth, {})
<1> DEFINE new == updatedSqueakInArray(list, e)
<1>2. /\ new \in Seq(Entry) /\ Len(new) = Len(list)
      /\ \A j \in 1..Len(list) : new[j].hash = list[j].hash
      /\ \A j \in 1..Len(list) : new[j] = list[j] \/ new[j] = e
      /\ \A j \in 1..Len(list) :
                /\ list[j].hash = e.hash
                /\ \A k \in 1..Len(list) : list[k].hash = list[j].hash => k = j
                => new[j] = e
  BY UpdatedKeeps
<1> HIDE DEF new
<1>3. ASSUME NEW i \in 1..Len(new), \A j \in 1..Len(new) : new[j].hash = new[i].hash => j = i
      PROVE  new[i] = truth[new[i].hash]
  <2>1. i \in 1..Len(list) /\ \A j \in 1..Len(list) : list[j].hash = list[i].hash => j = i
    BY <1>2, <1>3
  <2>2. CASE list[i].hash = s
    BY <1>2, <2>1, <2>2
  <2>3. CASE list[i].hash # s
    BY <1>2, <2>1, <2>3 DEF Shows
  <2> QED BY <2>2, <2>3
<1>4. Shows(new, truth, {})
  BY <1>3 DEF Shows
<1> QED BY <1>4 DEF new

LEMMA UpdatedHashes ==
    ASSUME NEW list \in Seq(Entry), NEW e \in Entry
    PROVE  LET new == updatedSqueakInArray(list, e)
           IN  /\ new \in Seq(Entry) /\ Len(new) = Len(list) /\ Hashes(new) = Hashes(list)
               /\ InOrder(list) => InOrder(new)
<1> DEFINE new == updatedSqueakInArray(list, e)
<1>1. /\ new \in Seq(Entry) /\ Len(new) = Len(list)
      /\ \A j \in 1..Len(list) : new[j].hash = list[j].hash
  BY UpdatedKeeps
<1> HIDE DEF new
<1>2. Hashes(new) = Hashes(list)
  BY <1>1 DEF Hashes
<1>3. ASSUME InOrder(list)
      PROVE  InOrder(new)
  BY <1>1, <1>3 DEF InOrder
<1> QED BY <1>1, <1>2, <1>3 DEF new

\* A list after its filter that drops the squeak.
LEMMA RemovedKeeps ==
    ASSUME NEW list \in Seq(Entry), NEW s
    PROVE  LET new == removeSqueakInArray(list, s)
           IN  /\ new \in Seq(Entry) /\ Hashes(new) = Hashes(list) \ {s}
               /\ InOrder(list) => InOrder(new)
               /\ \A truth : Shows(list, truth, {s}) => Shows(new, truth, {})
<1> DEFINE kept == {i \in DOMAIN list : list[i].hash # s}
           new == Picked(list, kept)
<1>1. new = removeSqueakInArray(list, s)
  BY DEF removeSqueakInArray
<1>2. kept \in SUBSET (1..Len(list)) /\ \A k \in 1..Len(list) : k \in kept <=> list[k].hash # s
  OBVIOUS
<1> HIDE DEF kept
<1>0. kept \in SUBSET (1..Len(list))
  BY <1>2
<1>3. new \in Seq(Entry) /\ Len(new) <= Len(list)
  BY <1>0, PickedKeeps
<1>4. PICK place \in Seq(kept) :
            /\ Len(place) = Len(new)
            /\ \A i \in 1..Len(new) : new[i] = list[place[i]] /\ place[i] \in kept
            /\ \A i, j \in 1..Len(new) : i < j => place[i] < place[j]
            /\ \A k \in kept : \E i \in 1..Len(new) : place[i] = k
  BY <1>0, PickedKeeps, SMTT(60)
<1> HIDE DEF new
<1>5. /\ Len(list) \in Nat /\ Len(new) \in Nat
      /\ \A i \in 1..Len(new) : place[i] \in 1..Len(list) /\ new[i] = list[place[i]]
      /\ \A i \in 1..Len(new) : new[i].hash # s
  <2>1. Len(list) \in Nat /\ Len(new) \in Nat
    BY <1>3
  <2>2. ASSUME NEW i \in 1..Len(new)
        PROVE  place[i] \in 1..Len(list) /\ new[i] = list[place[i]] /\ new[i].hash # s
    <3>1. place[i] \in kept /\ new[i] = list[place[i]]
      BY <1>4
    <3>2. place[i] \in 1..Len(list)
      BY <3>1, <1>0
    <3> QED BY <1>2, <3>1, <3>2
  <2> QED BY <2>1, <2>2
<1>6. ASSUME NEW i \in 1..Len(new), NEW j \in 1..Len(new), place[i] = place[j]
      PROVE  i = j
  <2>1. place[i] \in 1..Len(list) /\ place[j] \in 1..Len(list)
    BY <1>5
  <2>2. ~(place[i] < place[j]) /\ ~(place[j] < place[i])
    BY <1>6, <2>1
  <2>3. ~(i < j) /\ ~(j < i)
    BY <1>4, <2>2
  <2> QED BY <2>3
<1>7. ASSUME NEW k \in 1..Len(list), list[k].hash # s
      PROVE  \E i \in 1..Len(new) : place[i] = k
  BY <1>2, <1>4, <1>7
<1>8. Hashes(new) = Hashes(list) \ {s}
  <2>1. \A x \in Hashes(new) : x \in Hashes(list) /\ x # s
    BY <1>5 DEF Hashes
  <2>2. ASSUME NEW k \in 1..Len(list), list[k].hash # s
        PROVE  list[k].hash \in Hashes(new)
    <3>1. PICK i \in 1..Len(new) : place[i] = k
      BY <1>7, <2>2
    <3>2. new[i] = list[k]
      BY <1>5, <3>1
    <3> QED BY <3>2 DEF Hashes
  <2>3. \A x \in Hashes(list) : \E k \in 1..Len(list) : x = list[k].hash
    BY DEF Hashes
  <2>4. \A x \in Hashes(list) : x # s => x \in Hashes(new)
    BY <2>2, <2>3
  <2> QED BY <2>1, <2>4
<1>9. InOrder(list) => InOrder(new)
  <2> SUFFICES ASSUME InOrder(list)
               PROVE  InOrder(new)
    OBVIOUS
  <2>1. ASSUME NEW i \in 1..Len(new), NEW j \in 1..Len(new), i < j
        PROVE  <<new[i].hash, new[j].hash>> \in Newer
    <3>1. /\ place[i] \in 1..Len(list) /\ new[i] = list[place[i]]
          /\ place[j] \in 1..Len(list) /\ new[j] = list[place[j]]
      BY <1>5
    <3>2. place[i] < place[j]
      BY <1>4, <2>1
    <3> QED BY <3>1, <3>2 DEF InOrder
  <2>2. Len(new) <= ReplyLimit
    BY <1>3, <1>5, SqueaksAssumption DEF InOrder
  <2> QED BY <2>1, <2>2 DEF InOrder
<1>10. ASSUME NEW truth, Shows(list, truth, {s}),
              NEW i \in 1..Len(new), \A j \in 1..Len(new) : new[j].hash = new[i].hash => j = i
       PROVE  new[i] = truth[new[i].hash]
  <2>1. place[i] \in 1..Len(list) /\ new[i] = list[place[i]] /\ list[place[i]].hash # s
    BY <1>5
  <2>2. ASSUME NEW k \in 1..Len(list), list[k].hash = list[place[i]].hash
        PROVE  k = place[i]
    <3>1. PICK j \in 1..Len(new) : place[j] = k
      BY <1>7, <2>1, <2>2
    <3> QED BY <1>5, <1>10, <2>1, <2>2, <3>1
  <2> QED BY <1>10, <2>1, <2>2 DEF Shows
<1>11. \A truth : Shows(list, truth, {s}) => Shows(new, truth, {})
  BY <1>10 DEF Shows
<1> QED BY <1>1, <1>3, <1>8, <1>9, <1>11

\* A list that is continued.
LEMMA AppendedShows ==
    ASSUME NEW list \in Seq(Entry), NEW more \in Seq(Entry), NEW truth,
           Shows(list, truth, {}), AllTrue(more, truth)
    PROVE  list \o more \in Seq(Entry) /\ Shows(list \o more, truth, {})
<1>1. PICK new : new = list \o more
  OBVIOUS
<1>2. /\ new \in Seq(Entry) /\ Len(new) = Len(list) + Len(more)
      /\ Len(list) \in Nat /\ Len(more) \in Nat
      /\ \A i \in 1..Len(list) : new[i] = list[i]
      /\ \A i \in Len(list) + 1..Len(new) : new[i] = more[i - Len(list)]
  BY <1>1
<1>3. ASSUME NEW i \in 1..Len(new), \A j \in 1..Len(new) : new[j].hash = new[i].hash => j = i
      PROVE  new[i] = truth[new[i].hash]
  <2>1. CASE i \in 1..Len(list)
    <3>1. \A j \in 1..Len(list) : j \in 1..Len(new) /\ new[j] = list[j]
      BY <1>2
    <3>2. \A j \in 1..Len(list) : list[j].hash = list[i].hash => j = i
      BY <1>3, <2>1, <3>1
    <3> QED BY <2>1, <3>1, <3>2 DEF Shows
  <2>2. CASE i \in Len(list) + 1..Len(new)
    <3>1. i - Len(list) \in 1..Len(more) /\ new[i] = more[i - Len(list)]
      BY <1>2, <2>2
    <3> QED BY <3>1 DEF AllTrue
  <2> QED BY <1>2, <2>1, <2>2
<1> QED BY <1>1, <1>2, <1>3 DEF Shows

\* What changes of the squeaks that are not claimed, or not known, changes nothing.
LEMMA ShowsStill ==
    ASSUME NEW list \in Seq(Entry), NEW truth, NEW new, NEW S, Shows(list, truth, S),
           \A s \in Squeak : s \in S \/ truth[s] = None \/ new[s] = truth[s]
    PROVE  Shows(list, new, S)
<1>1. ASSUME NEW i \in 1..Len(list)
      PROVE  list[i] # None /\ list[i].hash \in Squeak
  <2>1. list[i] \in Entry
    OBVIOUS
  <2> QED BY <2>1, SqueaksAssumption DEF Entry
<1> QED BY <1>1 DEF Shows

LEMMA NothingShown ==
    ASSUME NEW truth, NEW S
    PROVE  /\ <<>> \in Seq(Entry) /\ Shows(<<>>, truth, S) /\ Hashes(<<>>) = {} /\ InOrder(<<>>)
BY SqueaksAssumption DEF Shows, Hashes, InOrder

LEMMA TrueShows ==
    ASSUME NEW list, NEW truth, AllTrue(list, truth)
    PROVE  Shows(list, truth, {})
BY DEF Shows, AllTrue

\* Fewer are claimed.
LEMMA ShowsFewer ==
    ASSUME NEW list, NEW truth, NEW S, Shows(list, truth, {})
    PROVE  Shows(list, truth, S)
BY DEF Shows

Truth == [s \in Squeak |-> EntryOf(s)]

LEMMA StoredTrue ==
    ASSUME RowStored, NEW s \in Stored
    PROVE  EntryOf(s) \in Entry /\ EntryOf(s).hash = s /\ s \in Squeak /\ Truth[s] = EntryOf(s)
<1>1. s \in Squeak /\ row[s] # None /\ row[s] \in Row
  BY DEF Stored, RowStored
<1>2. EntryOf(s) = [hash |-> s, liked |-> row[s].liked, open |-> row[s].open]
  BY <1>1 DEF EntryOf
<1> QED BY <1>1, <1>2 DEF Entry, Row, Truth

LEMMA StoredFinite ==
    ASSUME NEW S \in SUBSET Stored
    PROVE  IsFiniteSet(S)
<1>1. S \in SUBSET (Squeak \cup Offer)
  BY DEF Stored
<1> QED BY <1>1, FS_Subset, SqueaksAssumption

\* What is listed of the squeaks that are stored.
LEMMA EntriesTrue ==
    ASSUME RowStored, NEW S \in SUBSET Stored
    PROVE  Entries(S) \in Seq(Entry) /\ AllTrue(Entries(S), Truth)
<1> DEFINE T == {EntryOf(s) : s \in S}
           n == Cardinality(T)
           entry == [s \in S |-> EntryOf(s)]
           list == Entries(S)
<1>1. \A s \in S : EntryOf(s) \in Entry /\ EntryOf(s).hash = s /\ Truth[s] = EntryOf(s)
  BY StoredTrue
<1>2. IsFiniteSet(T)
  <2>1. entry \in Surjection(S, T)
    BY DEF Surjection
  <2> QED BY <2>1, StoredFinite, FS_Surjection
<1>3. T \in SUBSET Entry /\ \A e \in T : e = Truth[e.hash]
  BY <1>1
<1> HIDE DEF T
<1>4. n \in Nat /\ \E f \in [1..n -> T] : IsInjective(f)
  <2>1. n \in Nat /\ ExistsBijection(1..n, T)
    BY <1>2, FS_CardinalityType
  <2> QED BY <2>1 DEF ExistsBijection, Bijection, Injection
<1>5. list \in [1..n -> T]
  <2>1. list = CHOOSE f \in [1..n -> T] : IsInjective(f)
    BY DEF Entries, SetToSeq, T
  <2> HIDE DEF list
  <2> QED BY <1>4, <2>1
<1> HIDE DEF list
<1>6. list \in Seq(Entry) /\ Len(list) = n /\ \A i \in 1..n : list[i] \in T
  BY <1>3, <1>4, <1>5
<1>7. AllTrue(list, Truth)
  BY <1>3, <1>6 DEF AllTrue
<1> QED BY <1>6, <1>7 DEF list

RepliesTo(s) == {t \in Stored : ReplyTo[t] = s}

\* The order of the squeaks is one of those that reply to s.
LEMMA RepliesOrdered ==
    ASSUME NEW s
    PROVE  /\ IsFiniteSet(RepliesTo(s)) /\ Orders(Newer, RepliesTo(s)) /\ ReplyLimit \in Nat
           /\ RepliesTo(s) \in SUBSET Stored
<1>1. RepliesTo(s) \in SUBSET Stored /\ RepliesTo(s) \in SUBSET Squeak
  BY DEF RepliesTo, Stored
<1> QED BY <1>1, StoredFinite, SqueaksAssumption DEF Orders

\* What the node answers: as many as there may be, those first that are newer.
LEMMA RepliesTrue ==
    ASSUME RowStored, NEW s
    PROVE  /\ Replies(s) \in Seq(Entry) /\ AllTrue(Replies(s), Truth) /\ InOrder(Replies(s))
           /\ Leads(Replies(s), RepliesTo(s), {}, FALSE)
<1> DEFINE first == FirstOf(RepliesTo(s), Newer, ReplyLimit)
           list == Replies(s)
<1>1. /\ first \in Seq(RepliesTo(s)) /\ Len(first) <= ReplyLimit
      /\ \A i, j \in 1..Len(first) : i < j => <<first[i], first[j]>> \in Newer
      /\ \A x \in RepliesTo(s), i \in 1..Len(first) :
                <<x, first[i]>> \in Newer => \E j \in 1..Len(first) : first[j] = x
      /\ Len(first) < ReplyLimit => \A x \in RepliesTo(s) : \E j \in 1..Len(first) : first[j] = x
  BY RepliesOrdered, FirstOfOrdered
<1>2. list = [i \in DOMAIN first |-> EntryOf(first[i])]
  BY DEF Replies, RepliesTo
<1> HIDE DEF first, list
<1>3. \A i \in 1..Len(first) : /\ first[i] \in RepliesTo(s) /\ EntryOf(first[i]) \in Entry
                               /\ EntryOf(first[i]).hash = first[i]
                               /\ Truth[first[i]] = EntryOf(first[i])
  BY <1>1, RepliesOrdered, StoredTrue
<1>4. Len(first) \in Nat /\ DOMAIN first = 1..Len(first)
  BY <1>1
<1>5. /\ list \in Seq(Entry) /\ Len(list) = Len(first)
      /\ \A i \in 1..Len(list) : list[i] = EntryOf(first[i])
  <2>1. list = [i \in 1..Len(first) |-> EntryOf(first[i])]
    BY <1>2, <1>4
  <2> QED BY <1>3, <1>4, <2>1
<1>6. \A i \in 1..Len(list) : list[i].hash = first[i] /\ list[i] = Truth[first[i]]
  BY <1>3, <1>5
<1>7. AllTrue(list, Truth) /\ InOrder(list)
  BY <1>1, <1>5, <1>6 DEF AllTrue, InOrder
<1>8. Hashes(list) \subseteq RepliesTo(s)
  BY <1>3, <1>5, <1>6 DEF Hashes
<1>9. ASSUME NEW r \in RepliesTo(s), r \notin Hashes(list)
      PROVE  Len(list) >= ReplyLimit /\ \A h \in Hashes(list) : <<h, r>> \in Newer
  <2>1. \A j \in 1..Len(first) : first[j] # r
    BY <1>5, <1>6, <1>9 DEF Hashes
  <2>2. Len(list) >= ReplyLimit
    BY <1>1, <1>4, <1>5, <2>1, RepliesOrdered
  <2>3. ASSUME NEW i \in 1..Len(list)
        PROVE  <<list[i].hash, r>> \in Newer
    <3>1. first[i] \in RepliesTo(s) /\ first[i] # r /\ <<r, first[i]>> \notin Newer
      BY <1>1, <1>3, <1>5, <2>1
    <3> QED BY <1>6, <3>1, RepliesOrdered DEF Orders
  <2> QED BY <2>2, <2>3 DEF Hashes
<1>10. Leads(list, RepliesTo(s), {}, FALSE)
  BY <1>8, <1>9 DEF Leads
<1> QED BY <1>5, <1>7, <1>10 DEF list

LEMMA NothingButLeads ==
    ASSUME NEW list, NEW R, NEW s, NEW cut, Leads(list, R, {}, cut)
    PROVE  Leads(list, R, {s}, cut)
BY DEF Leads

\* The node has deleted a squeak.
LEMMA LeadsWithout ==
    ASSUME NEW list, NEW R, NEW s, NEW cut, Leads(list, R, {s}, cut)
    PROVE  Leads(list, R \ {s}, {s}, cut)
BY DEF Leads

\* The list loses one that the node has not.
LEMMA RemovedLeads ==
    ASSUME NEW list, NEW R, NEW s, NEW cut, Leads(list, R, {s}, cut), s \notin R,
           InOrder(list), Len(list) \in Nat, NEW new, Hashes(new) = Hashes(list) \ {s},
           Len(new) \in Nat, NEW now, cut => now,
           Len(list) = ReplyLimit /\ Len(new) < ReplyLimit => now
    PROVE  Leads(new, R, {}, now)
<1>1. Hashes(new) \subseteq R
  BY DEF Leads
<1>2. ASSUME NEW r \in R, r \notin Hashes(new)
      PROVE  /\ now \/ Len(new) >= ReplyLimit
             /\ \A h \in Hashes(new) : <<h, r>> \in Newer
  <2>1. /\ cut \/ Len(list) >= ReplyLimit
        /\ \A h \in Hashes(list) : <<h, r>> \in Newer
    BY <1>2 DEF Leads
  <2>2. Len(list) >= ReplyLimit => Len(list) = ReplyLimit
    BY SqueaksAssumption DEF InOrder
  <2>3. now \/ Len(new) >= ReplyLimit
    BY <2>1, <2>2, SqueaksAssumption
  <2> QED BY <2>1, <2>3
<1> QED BY <1>1, <1>2 DEF Leads

\* A way down to s from the highest squeak that is stored above it.
Way(q, n, s, S) ==
    /\ q \in [1..n -> S] /\ ReplyTo[q[1]] \notin S /\ q[n] = s
    /\ \A i \in 2..n : ReplyTo[q[i]] = q[i - 1]

LEMMA WayExists ==
    ASSUME NEW S \in SUBSET Squeak, NEW s \in S
    PROVE  \E n \in 1..Cardinality(Squeak) : \E q : Way(q, n, s, S)
<1>1. PICK height \in [Squeak -> 1..Cardinality(Squeak)] : \A t \in Squeak :
            ReplyTo[t] # None => height[ReplyTo[t]] < height[t]
  BY SqueaksAssumption
<1>2. /\ \A t \in Squeak : ReplyTo[t] \in Squeak \cup {None}
      /\ None \notin Squeak
  BY SqueaksAssumption
<1> DEFINE Found(t) == \E n \in 1..height[t] : \E q : Way(q, n, t, S)
           Bad == {t \in S : ~Found(t)}
           heights == {height[t] : t \in Bad}
<1>3. \A t \in S : height[t] \in Nat /\ height[t] \in 1..Cardinality(Squeak)
  BY <1>1
<1>4. Bad = {}
  <2> SUFFICES ASSUME Bad # {}
               PROVE  FALSE
    OBVIOUS
  <2> HIDE DEF Found
  <2>1. heights \in SUBSET Nat /\ heights # {}
    BY <1>3
  <2>2. \E x \in heights : \A y \in heights : x <= y
    BY <2>1, LeastOne
  <2>3. PICK t \in Bad : \A u \in Bad : height[t] <= height[u]
    BY <2>2
  <2>4. t \in S /\ t \in Squeak /\ ~Found(t)
    OBVIOUS
  <2>5. CASE ReplyTo[t] \notin S
    <3>1. Way([i \in 1..1 |-> t], 1, t, S)
      BY <2>4, <2>5 DEF Way
    <3>2. 1 \in 1..height[t]
      BY <1>1, <2>4
    <3> QED BY <2>4, <3>1, <3>2 DEF Found
  <2>6. CASE ReplyTo[t] \in S
    <3>1. PICK u \in S : u = ReplyTo[t]
      BY <2>6
    <3>2. u # None /\ u \in Squeak /\ height[u] < height[t]
      BY <1>1, <1>2, <2>4, <3>1
    <3>3. height[u] \in Nat /\ height[t] \in Nat
      BY <1>3, <2>4
    <3>4. u \notin Bad
      BY <2>3, <3>2, <3>3
    <3>5. Found(u)
      BY <3>4
    <3>6. PICK n \in 1..height[u] : \E q : Way(q, n, u, S)
      BY <3>5 DEF Found
    <3>7. PICK q : Way(q, n, u, S)
      BY <3>6
    <3>8. n \in Nat /\ n >= 1 /\ n + 1 \in 1..height[t]
      BY <3>2, <3>3
    <3> DEFINE r == [i \in 1..(n + 1) |-> IF i <= n THEN q[i] ELSE t]
    <3>9. r \in [1..(n + 1) -> S]
      BY <2>4, <3>7, <3>8 DEF Way
    <3>10. r[1] = q[1] /\ r[n + 1] = t
      BY <3>8
    <3>11. ASSUME NEW i \in 2..(n + 1)
           PROVE  ReplyTo[r[i]] = r[i - 1]
      <4>1. CASE i <= n
        <5>1. i \in 2..n /\ r[i] = q[i] /\ r[i - 1] = q[i - 1]
          BY <3>8, <4>1
        <5> QED BY <3>7, <5>1 DEF Way
      <4>2. CASE i = n + 1
        <5>1. r[i] = t /\ r[i - 1] = q[n]
          BY <3>8, <4>2
        <5> QED BY <3>1, <3>7, <5>1 DEF Way
      <4> QED BY <3>8, <4>1, <4>2
    <3> HIDE DEF r
    <3>12. Way(r, n + 1, t, S)
      BY <3>7, <3>9, <3>10, <3>11 DEF Way
    <3> QED BY <2>4, <3>8, <3>12 DEF Found
  <2> QED BY <2>5, <2>6
<1>5. PICK n \in 1..height[s] : \E q : Way(q, n, s, S)
  BY <1>4
<1>6. n \in 1..Cardinality(Squeak)
  <2>1. IsFiniteSet(Squeak)
    <3>1. Squeak \in SUBSET (Squeak \cup Offer)
      OBVIOUS
    <3> QED BY <3>1, FS_Subset, SqueaksAssumption
  <2>2. Cardinality(Squeak) \in Nat
    BY <2>1, FS_CardinalityType
  <2> QED BY <1>3, <2>2
<1> QED BY <1>5, <1>6

LEMMA ThreadTrue ==
    ASSUME RowStored, NEW s \in Squeak
    PROVE  Thread(s) \in Seq(Entry) /\ AllTrue(Thread(s), Truth)
<1>1. CASE row[s] = None
  <2>1. Thread(s) = <<>>
    BY <1>1 DEF Thread
  <2> QED BY <2>1 DEF AllTrue
<1>2. CASE row[s] # None
  <2> DEFINE ways == UNION {[1..n -> Stored] : n \in 1..Cardinality(Squeak)}
             good(q) == /\ ReplyTo[q[1]] \notin Stored /\ q[Len(q)] = s
                        /\ \A i \in 2..Len(q) : ReplyTo[q[i]] = q[i - 1]
             up == CHOOSE q \in ways : good(q)
             list == Thread(s)
  <2>1. \E q \in ways : good(q)
    <3>1. Stored \in SUBSET Squeak /\ s \in Stored
      BY <1>2 DEF Stored
    <3>2. PICK n \in 1..Cardinality(Squeak) : \E q : Way(q, n, s, Stored)
      BY <3>1, WayExists
    <3>3. PICK q : Way(q, n, s, Stored)
      BY <3>2
    <3>4. q \in [1..n -> Stored] /\ n \in Nat
      BY <3>3 DEF Way
    <3>5. Len(q) = n /\ q \in ways
      BY <3>4
    <3> QED BY <3>3, <3>5 DEF Way
  <2>2. up \in ways
    <3> HIDE DEF ways, good
    <3> QED BY <2>1
  <2>3. list = [i \in DOMAIN up |-> EntryOf(up[i])]
    BY <1>2 DEF Thread
  <2> HIDE DEF up
  <2>4. PICK n \in 1..Cardinality(Squeak) : up \in [1..n -> Stored]
    BY <2>2
  <2>5. n \in Nat /\ DOMAIN up = 1..n
    BY <2>4
  <2> HIDE DEF list
  <2>6. ASSUME NEW i \in 1..n
        PROVE  list[i] \in Entry /\ list[i] = Truth[list[i].hash]
    <3>1. up[i] \in Squeak /\ row[up[i]] \in Row /\ list[i] = EntryOf(up[i])
          /\ row[up[i]] # None
      BY <2>3, <2>4, <2>5 DEF Stored, RowStored
    <3>2. list[i] = [hash |-> up[i], liked |-> row[up[i]].liked, open |-> row[up[i]].open]
      BY <3>1 DEF EntryOf
    <3>3. list[i].hash = up[i] /\ list[i] \in Entry
      BY <3>1, <3>2 DEF Entry, Row
    <3>4. Truth[up[i]] = EntryOf(up[i])
      BY <3>1 DEF Truth
    <3> QED BY <3>1, <3>3, <3>4
  <2>7. list \in Seq(Entry) /\ Len(list) = n
    BY <2>3, <2>5, <2>6
  <2> QED BY <2>6, <2>7 DEF AllTrue, list
<1> QED BY <1>1, <1>2

LEMMA OffersCounted ==
    ASSUME paid \in SUBSET Offer, NEW s
    PROVE  Spent(s) \in 0..Cardinality(Offer)
<1>1. Offer \in SUBSET (Squeak \cup Offer) /\ {o \in paid : OfferOf[o] = s} \in SUBSET Offer
  OBVIOUS
<1>2. IsFiniteSet(Offer)
  BY <1>1, FS_Subset, SqueaksAssumption
<1>3. /\ IsFiniteSet({o \in paid : OfferOf[o] = s})
      /\ Cardinality({o \in paid : OfferOf[o] = s}) <= Cardinality(Offer)
  BY <1>1, <1>2, FS_Subset
<1>4. Spent(s) \in Nat /\ Spent(s) <= Cardinality(Offer) /\ Cardinality(Offer) \in Nat
  BY <1>2, <1>3, FS_CardinalityType DEF Spent
<1> QED BY <1>4

\* What a call about squeaks is made for, and what it gets.
SqueakTyped(c) ==
    /\ c.thunk \in Rereads \cup {"setDeleteSqueak", "fetchSqueak", "fetchAncestorSqueaks",
                                 "fetchReplySqueaks"} => c.arg \in Squeak
    /\ c.thunk = "setBuySqueak" /\ At(c, "buySqueak") => Argument(c) \in Offer
    /\ c.todo = <<>> /\ c.reply # Error =>
        /\ c.thunk \in Rereads \cup {"fetchSqueak"} => c.reply \in Entry \cup {None}
        /\ c.thunk \in {"fetchAncestorSqueaks", "fetchReplySqueaks", "fetchTimeline", "fetchSearch",
                        "fetchProfileSqueaks"} => c.reply \in Seq(Entry)
        /\ c.thunk = "fetchReplySqueaks" => InOrder(c.reply)
        /\ c.thunk = "setMakeSqueak" => c.reply \in Squeak
        /\ c.thunk = "fetchSqueakOffers" => c.reply \subseteq Offer
        /\ c.thunk = "fetchPaymentSummaryForSqueak" => c.reply \in 0..Cardinality(Offer)

SqueakTypes ==
    /\ SqueaksTypeOK /\ InOrder(squeakLists["reply"])
    /\ \A c \in Of(SqueakThunks) : SqueakTyped(c)

LEMMA TypedWaits ==
    ASSUME NEW c, SqueakTyped(c), NEW e, Heir(e, c),
           Waits(e, c) \/ (e.todo = <<>> /\ e.reply = Error)
    PROVE  SqueakTyped(e)
<1>1. CASE Waits(e, c)
  BY <1>1 DEF Waits, Heir, SqueakTyped, At, Argument
<1>2. CASE e.todo = <<>> /\ e.reply = Error
  BY <1>2 DEF Heir, SqueakTyped, At
<1> QED BY <1>1, <1>2

LEMMA TypesElsewhere ==
    ASSUME SqueakTypes, UNCHANGED squeakVars,
           \A e \in calls' : e.thunk \in SqueakThunks =>
            \E c \in calls : Heir(e, c) /\ (Waits(e, c) \/ (e.todo = <<>> /\ e.reply = Error))
    PROVE  SqueakTypes'
<1>1. ASSUME NEW e \in calls', e.thunk \in SqueakThunks
      PROVE  SqueakTyped(e)
  <2>1. PICK c \in calls : Heir(e, c) /\ (Waits(e, c) \/ (e.todo = <<>> /\ e.reply = Error))
    BY <1>1
  <2>2. SqueakTyped(c)
    BY <1>1, <2>1 DEF SqueakTypes, Of, Heir
  <2> QED BY <2>1, <2>2, TypedWaits
<1>2. \A e \in Of(SqueakThunks)' : SqueakTyped(e)
  BY <1>1 DEF Of
<1> QED BY <1>2 DEF SqueakTypes, SqueaksTypeOK, squeakVars, squeakNode, squeakFields, squeakPage

\* A thunk that a page dispatches.
TypedOpens(d) ==
    /\ SqueakTyped(d) /\ d.todo # <<>>
    /\ d.thunk = "setBuySqueak" => At(d, "buySqueak")

LEMMA ArgumentTypedOpens ==
    ASSUME NEW d, d.todo # <<>>, d.arg \in Squeak \/ d.thunk \notin Rereads \cup
                {"setDeleteSqueak", "fetchSqueak", "fetchAncestorSqueaks", "fetchReplySqueaks"},
           d.thunk # "setBuySqueak"
    PROVE  TypedOpens(d)
BY DEF TypedOpens, SqueakTyped

LEMMA ReadsTypedOpen ==
    ASSUME NEW s \in Squeak
    PROVE  /\ TypedOpens(fetchSqueak(s)) /\ TypedOpens(fetchAncestorSqueaks(s))
           /\ TypedOpens(fetchReplySqueaks(s)) /\ TypedOpens(fetchSqueakOffers(s))
           /\ TypedOpens(fetchPaymentSummaryForSqueak(s))
BY OneLeft, ArgumentTypedOpens DEF fetchSqueak, fetchAncestorSqueaks, fetchReplySqueaks,
   fetchSqueakOffers, fetchPaymentSummaryForSqueak, Read

LEMMA ListsTypedOpen ==
    ASSUME NEW s
    PROVE  /\ TypedOpens(fetchTimeline) /\ TypedOpens(fetchSearch)
           /\ TypedOpens(fetchProfileSqueaks) /\ TypedOpens(setMakeSqueak(s))
BY OneLeft, ArgumentTypedOpens DEF fetchTimeline, fetchSearch, fetchProfileSqueaks, setMakeSqueak,
   Read, Write, Rereads

LEMMA WritesTypedOpen ==
    ASSUME NEW s \in Squeak
    PROVE  /\ TypedOpens(setLikeSqueak(s)) /\ TypedOpens(setUnlikeSqueak(s))
           /\ TypedOpens(setDownloadSqueak(s)) /\ TypedOpens(setDeleteSqueak(s))
<1>1. \A x, y : <<x>> # <<>> /\ <<x, y>> # <<>>
  OBVIOUS
<1> QED BY <1>1, ArgumentTypedOpens DEF setLikeSqueak, setUnlikeSqueak, setDownloadSqueak,
        setDeleteSqueak, Write

LEMMA BuyTypedOpens ==
    ASSUME NEW o \in Offer, NEW s \in Squeak
    PROVE  TypedOpens(setBuySqueak(o, s))
<1> DEFINE d == setBuySqueak(o, s)
<1>1. d.thunk = "setBuySqueak" /\ d.arg = s /\ d.todo = <<<<"buySqueak", o>>, <<"getSqueak", s>>>>
  BY DEF setBuySqueak, Write
<1> HIDE DEF d
<1>2. d.todo # <<>> /\ Head(d.todo) = <<"buySqueak", o>>
  BY <1>1, TwoLeft
<1>3. At(d, "buySqueak") /\ Argument(d) = o
  BY <1>2 DEF At, Argument
<1> QED BY <1>1, <1>2, <1>3 DEF TypedOpens, SqueakTyped, d

LEMMA TypedStarts ==
    ASSUME NEW d, TypedOpens(d), NEW id, NEW rest, NEW e, e = Started(d, id, rest)
    PROVE  SqueakTyped(e)
<1>1. e.thunk = d.thunk /\ e.arg = d.arg /\ e.todo = d.todo
  BY DEF Started
<1> QED BY <1>1 DEF TypedOpens, SqueakTyped, At, Argument

\* The cards are entries.
LEMMA CardsTyped ==
    ASSUME SqueaksTypeOK, NEW e \in Cards
    PROVE  e \in Entry /\ e.hash \in Squeak
<1>1. \A l \in List : squeakLists[l] \in Seq(Entry)
  BY DEF SqueaksTypeOK
<1> DEFINE above == squeakLists["ancestor"]
           below == squeakLists["reply"]
           front == IF "ancestorSqueaksStatus" \in loading THEN <<>> ELSE Front(above)
           back == IF "replySqueaksStatus" \in loading THEN <<>> ELSE below
           cards == IF squeakRoute \in List THEN squeakLists[squeakRoute]
                    ELSE IF squeakRoute = None THEN <<>> ELSE front \o back
<1>2. ToSet(cards) = Cards
  BY DEF Cards
<1>3. \E i \in DOMAIN cards : cards[i] = e
  BY <1>2 DEF ToSet
<1>4. above \in Seq(Entry) /\ below \in Seq(Entry)
  BY <1>1 DEF List
<1>5. front \in Seq(Entry) /\ back \in Seq(Entry)
  <2>1. Front(above) \in Seq(Entry)
    <3>1. Front(above) = SubSeq(above, 1, Len(above) - 1)
      BY DEF Front
    <3>2. CASE above = <<>>
      BY <3>1, <3>2
    <3>3. CASE above # <<>>
      <4>1. Len(above) \in Nat /\ Len(above) - 1 \in 0..Len(above)
        BY <1>4, <3>3
      <4> QED BY <1>4, <3>1, <4>1
    <3> QED BY <3>2, <3>3
  <2> QED BY <1>4, <2>1
<1> HIDE DEF front, back
<1>6. cards \in Seq(Entry)
  BY <1>1, <1>5
<1> HIDE DEF cards
<1>7. e \in Entry
  BY <1>3, <1>6
<1> QED BY <1>7 DEF Entry

\* What the user dispatches.
LEMMA TypedUser ==
    ASSUME SqueaksTypeOK, SqueakUser
    PROVE  UNCHANGED thunkVars \/ \E D : Dispatch(D) /\ \A d \in D : TypedOpens(d)
<1>1. ASSUME NEW d, TypedOpens(d), Dispatch({d})
      PROVE  \E D : Dispatch(D) /\ \A b \in D : TypedOpens(b)
  BY <1>1
<1>2. CASE \E s \in Squeak : OpenSqueak(s)
  <2>1. PICK s \in Squeak : Dispatch(SqueakMounted(s))
    BY <1>2 DEF OpenSqueak
  <2>2. \A d \in SqueakMounted(s) : TypedOpens(d)
    BY ReadsTypedOpen DEF SqueakMounted
  <2> QED BY <2>1, <2>2
<1>3. CASE OpenTimeline \/ OpenSearch \/ OpenProfileSqueaks
  BY <1>1, <1>3, ListsTypedOpen DEF OpenTimeline, OpenSearch, OpenProfileSqueaks, OpenList
<1>4. ASSUME NEW e, NEW s \in Squeak, Heart(e, s)
      PROVE  \E D : Dispatch(D) /\ \A d \in D : TypedOpens(d)
  <2>1. \E d \in {setLikeSqueak(s), setUnlikeSqueak(s)} : Dispatch({d})
    BY <1>4 DEF Heart
  <2> QED BY <1>1, <2>1, WritesTypedOpen
<1>5. ShownSqueak # None \/ Shown \/ ModalShown => squeakRoute \in Squeak
  BY DEF ShownSqueak, Shown, ModalShown
<1>6. CASE ClickPageHeart
  BY <1>4, <1>5, <1>6 DEF ClickPageHeart
<1>7. CASE ClickPageDelete \/ ClickDownload
  BY <1>1, <1>5, <1>7, WritesTypedOpen DEF ClickPageDelete, ClickDownload
<1>8. CASE \E e \in Cards : ClickCardHeart(e) \/ ClickCardDelete(e)
  <2>1. PICK e \in Cards : ClickCardHeart(e) \/ ClickCardDelete(e)
    BY <1>8
  <2>2. e.hash \in Squeak
    BY CardsTyped
  <2>3. CASE ClickCardHeart(e)
    BY <1>4, <2>2, <2>3 DEF ClickCardHeart
  <2>4. CASE ClickCardDelete(e)
    BY <1>1, <2>2, <2>4, WritesTypedOpen DEF ClickCardDelete
  <2> QED BY <2>1, <2>3, <2>4
<1>9. CASE toggleBuyModal
  <2>1. CASE buyModalOpen
    BY <1>9, <2>1 DEF toggleBuyModal
  <2>2. CASE ~buyModalOpen
    BY <1>1, <1>5, <1>9, <2>2, ReadsTypedOpen DEF toggleBuyModal
  <2> QED BY <2>1, <2>2
<1>10. CASE ClickBuy
  <2>1. offer \in Offer /\ squeakRoute \in Squeak /\ Dispatch({setBuySqueak(offer, squeakRoute)})
    BY <1>5, <1>10 DEF ClickBuy, SqueaksTypeOK
  <2> QED BY <1>1, <2>1, BuyTypedOpens
<1>11. CASE \E o \in Offer : handleChangeOffer(o)
  BY <1>11 DEF handleChangeOffer
<1>12. CASE \E r \in ReplyTargets : submitSqueak(r)
  BY <1>1, <1>12, ListsTypedOpen DEF submitSqueak
<1> QED BY <1>2, <1>3, <1>6, <1>7, <1>8, <1>9, <1>10, <1>11, <1>12 DEF SqueakUser

LEMMA StateTypedUser ==
    ASSUME SqueaksTypeOK, SqueakUser
    PROVE  SqueaksTypeOK' /\ squeakLists'["reply"] = squeakLists["reply"]
<1>1. CASE \E s \in Squeak : OpenSqueak(s)
  <2>1. PICK s \in Squeak : OpenSqueak(s)
    BY <1>1
  <2>2. UNCHANGED <<squeakNode, squeakFields>> /\ ShowSqueak(s)
    BY <2>1 DEF OpenSqueak
  <2>3. /\ squeakRoute' \in Squeak /\ foreign' \subseteq PageFields
        /\ buyModalOpen' \in BOOLEAN /\ offer' \in Offer \cup {None} /\ carried' \in BOOLEAN
    BY <2>2 DEF ShowSqueak, SqueaksTypeOK
  <2> QED BY <2>2, <2>3 DEF SqueaksTypeOK, squeakNode, squeakFields
<1>2. CASE OpenTimeline \/ OpenSearch \/ OpenProfileSqueaks
  <2>1. PICK l \in {"timeline", "search", "profile"} :
            /\ squeakLists' = [squeakLists EXCEPT ![l] = <<>>]
            /\ squeakRoute' = l /\ buyModalOpen' = FALSE /\ offer' = None /\ carried' = FALSE
            /\ UNCHANGED <<squeakNode, currentSqueak, unfilled, squeakOffers, summaryForSqueak, foreign>>
    BY <1>2 DEF OpenTimeline, OpenSearch, OpenProfileSqueaks, OpenList
  <2>2. squeakLists' \in [List -> Seq(Entry)] /\ squeakLists'["reply"] = squeakLists["reply"]
    BY <2>1 DEF SqueaksTypeOK, List
  <2> QED BY <2>1, <2>2 DEF SqueaksTypeOK, squeakNode
<1>3. CASE UNCHANGED squeakVars
  BY <1>3 DEF SqueaksTypeOK, squeakVars, squeakNode, squeakFields, squeakPage
<1>4. CASE toggleBuyModal
  <2>1. /\ UNCHANGED <<squeakNode, squeakFields, squeakRoute, offer, carried, foreign>>
        /\ buyModalOpen' \in BOOLEAN
    BY <1>4 DEF toggleBuyModal
  <2> QED BY <2>1 DEF SqueaksTypeOK, squeakNode, squeakFields
<1>5. CASE ClickBuy
  BY <1>5 DEF ClickBuy, SqueaksTypeOK, squeakNode, squeakFields
<1>6. CASE \E o \in Offer : handleChangeOffer(o)
  BY <1>6 DEF handleChangeOffer, SqueaksTypeOK, squeakNode, squeakFields
<1> QED BY <1>1, <1>2, <1>3, <1>4, <1>5, <1>6 DEF SqueakUser, ClickPageHeart, ClickPageDelete,
        ClickDownload, ClickCardHeart, ClickCardDelete, submitSqueak

LEMMA TypesUserKeeps ==
    ASSUME CallsInv, SqueakTypes, SqueakUser
    PROVE  SqueakTypes'
<1>1. ASSUME NEW e \in calls', e.thunk \in SqueakThunks
      PROVE  SqueakTyped(e)
  <2>1. CASE UNCHANGED thunkVars
    BY <1>1, <2>1 DEF SqueakTypes, Of, thunkVars
  <2>2. CASE ~UNCHANGED thunkVars
    <3>1. PICK D : Dispatch(D) /\ \A d \in D : TypedOpens(d)
      BY <2>2, TypedUser DEF SqueakTypes
    <3>2. Followed(D) \subseteq D /\ calls' = Begin(D, events + 1, calls)
      BY <3>1 DEF Followed, Dispatch
    <3>3. \/ \E c \in calls : Waits(e, c)
          \/ \E d \in Followed(D) : e = Started(d, events + 1, calls)
      BY <1>1, <3>2, BeginHeirs, CallsWhole
    <3>4. ASSUME NEW c \in calls, Waits(e, c)
          PROVE  SqueakTyped(e)
      <4>1. SqueakTyped(c) /\ Heir(e, c)
        BY <1>1, <3>4 DEF SqueakTypes, Of, Waits, Heir
      <4> QED BY <3>4, <4>1, TypedWaits
    <3> QED BY <3>1, <3>2, <3>3, <3>4, TypedStarts
  <2> QED BY <2>1, <2>2
<1>2. SqueaksTypeOK' /\ InOrder(squeakLists'["reply"])
  BY StateTypedUser DEF SqueakTypes
<1> QED BY <1>1, <1>2 DEF SqueakTypes, Of

\* The node.
LEMMA TypesAnswered ==
    ASSUME CallsInv, SqueakState, SqueakTypes, NEW c \in Of(SqueakThunks), NEW next, At(c, next),
           NEW reply,
           \/ Refuse(c)
           \/ /\ Answer(c, reply)
              /\ next = "getSqueak" => reply \in Entry \cup {None}
              /\ next \in {"getAncestorSqueaks", "getReplySqueaks", "getTimelineSqueaks",
                           "getSearchSqueaks", "getProfileSqueaks"} => reply \in Seq(Entry)
              /\ next = "getReplySqueaks" => InOrder(reply)
              /\ next = "makeSqueak" => reply \in Squeak
              /\ next = "getSqueakOffers" => reply \subseteq Offer
              /\ next = "getPaymentSummaryForSqueak" => reply \in 0..Cardinality(Offer)
    PROVE  \A e \in Of(SqueakThunks)' : SqueakTyped(e)
<1>1. c \in calls /\ c.thunk \in SqueakThunks /\ SqueakRequests(c) /\ SqueakTyped(c) /\ IsCall(c)
  BY CallsWhole DEF Of, SqueakState, SqueakCalls, SqueakTypes
<1>2. CASE Refuse(c)
  <2>1. PICK d : /\ Heir(d, c) /\ d.todo = <<>> /\ d.reply = Error
                 /\ calls' = (calls \ {c}) \cup {d}
    BY <1>1, <1>2, RefuseHeirs DEF GoesOn
  <2>2. SqueakTyped(d)
    BY <1>1, <2>1, TypedWaits
  <2> QED BY <2>1, <2>2 DEF SqueakTypes, Of
<1>3. CASE ~Refuse(c)
  <2>1. PICK d : /\ Heir(d, c) /\ d.todo = Tail(c.todo) /\ d.reply = reply
                 /\ calls' = (calls \ {c}) \cup {d}
    BY <1>1, <1>3, AnswerHeirs DEF GoesOn
  <2>2. d.thunk = c.thunk /\ d.arg = c.arg
    BY <2>1 DEF Heir
  <2>3. \/ /\ next = RequestOf(c.thunk) /\ c.thunk \notin Rereads /\ d.todo = <<>>
        \/ /\ c.thunk \in Rereads /\ next = "getSqueak" /\ d.todo = <<>>
        \/ /\ c.thunk \in Rereads /\ d.todo = <<<<"getSqueak", c.arg>>>>
    BY <1>1, <2>1, SqueakNext
  <2>4. ~(d.thunk = "setBuySqueak" /\ At(d, "buySqueak"))
    BY <2>3, OneLeft DEF At, Rereads
  <2>5. CASE c.thunk \in Rereads
    <3>1. c.thunk \notin {"fetchSqueak", "fetchAncestorSqueaks", "fetchReplySqueaks", "fetchTimeline",
                          "fetchSearch", "fetchProfileSqueaks", "setMakeSqueak", "fetchSqueakOffers",
                          "fetchPaymentSummaryForSqueak"}
      BY <2>5 DEF Rereads
    <3>2. d.todo = <<>> => reply \in Entry \cup {None}
      BY <1>3, <2>3, <2>5, OneLeft
    <3> QED BY <1>1, <2>1, <2>2, <2>4, <2>5, <3>1, <3>2 DEF SqueakTypes, SqueakTyped, Of
  <2>6. CASE c.thunk \notin Rereads
    <3>1. next = RequestOf(c.thunk) /\ d.todo = <<>>
      BY <2>3, <2>6
    <3>2. /\ c.thunk = "fetchSqueak" => reply \in Entry \cup {None}
          /\ c.thunk \in {"fetchAncestorSqueaks", "fetchReplySqueaks", "fetchTimeline", "fetchSearch",
                          "fetchProfileSqueaks"} => reply \in Seq(Entry)
          /\ c.thunk = "fetchReplySqueaks" => InOrder(reply)
          /\ c.thunk = "setMakeSqueak" => reply \in Squeak
          /\ c.thunk = "fetchSqueakOffers" => reply \subseteq Offer
          /\ c.thunk = "fetchPaymentSummaryForSqueak" => reply \in 0..Cardinality(Offer)
      BY <1>3, <3>1 DEF RequestOf
    <3> QED BY <1>1, <2>1, <2>2, <2>4, <2>6, <3>1, <3>2 DEF SqueakTypes, SqueakTyped, Of
  <2> QED BY <2>5, <2>6
<1> QED BY <1>2, <1>3

LEMMA EntryTyped ==
    ASSUME RowStored, NEW s \in Squeak
    PROVE  EntryOf(s) \in Entry \cup {None}
BY DEF EntryOf, RowStored, Row, Entry

LEMMA ArgumentTyped ==
    ASSUME SqueakState, SqueakTypes, NEW c \in Of(SqueakThunks), NEW next, At(c, next),
           next \in {"getSqueak", "getAncestorSqueaks", "getReplySqueaks"}
    PROVE  Argument(c) \in Squeak
<1>1. SqueakRequests(c) /\ SqueakTyped(c) /\ c.thunk \in SqueakThunks
  BY DEF SqueakState, SqueakCalls, SqueakTypes, Of
<1>2. /\ Argument(c) = c.arg \/ c.thunk = "setBuySqueak"
      /\ \/ c.thunk \in Rereads /\ Argument(c) = c.arg
         \/ next = RequestOf(c.thunk)
  BY <1>1, SqueakNext
<1>3. next = RequestOf(c.thunk) =>
            c.thunk \in {"fetchSqueak", "fetchAncestorSqueaks", "fetchReplySqueaks"}
  BY <1>1 DEF RequestOf, SqueakThunks
<1> QED BY <1>1, <1>2, <1>3 DEF SqueakTyped

LEMMA TypesServerKeeps ==
    ASSUME CallsInv, CrossInv, SqueakState, SqueakTypes, SqueakServer
    PROVE  SqueakTypes'
<1>1. PICK c \in Of(SqueakThunks) :
        \/ getSqueak(c) \/ getAncestorSqueaks(c) \/ getReplySqueaks(c)
        \/ getTimelineSqueaks(c) \/ getSearchSqueaks(c) \/ getProfileSqueaks(c)
        \/ getSqueakOffers(c) \/ getPaymentSummaryForSqueak(c)
        \/ likeSqueak(c) \/ unlikeSqueak(c) \/ deleteSqueak(c)
        \/ makeSqueak(c) \/ downloadSqueak(c) \/ buySqueak(c)
  BY DEF SqueakServer
<1>2. RowStored /\ RowStored'
  BY SqueakServerKeeps DEF SqueakState
<1>3. /\ UNCHANGED <<currentSqueak, squeakLists, unfilled, squeakOffers, summaryForSqueak>>
      /\ UNCHANGED <<squeakRoute, buyModalOpen, offer, foreign, carried>>
  BY DEF SqueakServer, squeakFields, squeakPage
<1>4. ASSUME made' \subseteq Made, paid' \subseteq Offer, \A e \in Of(SqueakThunks)' : SqueakTyped(e)
      PROVE  SqueakTypes'
  BY <1>2, <1>3, <1>4 DEF SqueakTypes, SqueaksTypeOK, RowStored
<1>5. made \subseteq Made /\ paid \subseteq Offer
  BY DEF SqueakTypes, SqueaksTypeOK
<1>6. ASSUME NEW next, At(c, next), NEW reply, Answer(c, reply), UNCHANGED squeakNode,
             next = "getSqueak" => reply \in Entry \cup {None},
             next \in {"getAncestorSqueaks", "getReplySqueaks", "getTimelineSqueaks",
                       "getSearchSqueaks", "getProfileSqueaks"} => reply \in Seq(Entry),
             next = "getReplySqueaks" => InOrder(reply), next # "makeSqueak",
             next = "getSqueakOffers" => reply \subseteq Offer,
             next = "getPaymentSummaryForSqueak" => reply \in 0..Cardinality(Offer)
      PROVE  SqueakTypes'
  <2>1. \A e \in Of(SqueakThunks)' : SqueakTyped(e)
    BY <1>6, TypesAnswered
  <2> QED BY <1>4, <1>5, <1>6, <2>1 DEF squeakNode
<1>7. ASSUME NEW next, At(c, next), NEW reply,
             Refuse(c) \/ (Answer(c, reply) /\ (next = "makeSqueak" => reply \in Squeak)),
             next \in {"likeSqueak", "unlikeSqueak", "deleteSqueak", "makeSqueak", "buySqueak",
                       "downloadSqueak"}
      PROVE  \A e \in Of(SqueakThunks)' : SqueakTyped(e)
  BY <1>7, TypesAnswered
<1>8. CASE getSqueak(c)
  <2>1. EntryOf(Argument(c)) \in Entry \cup {None}
    BY <1>2, <1>8, ArgumentTyped, EntryTyped DEF getSqueak
  <2> QED BY <1>6, <1>8, <2>1 DEF getSqueak
<1>9. CASE getAncestorSqueaks(c)
  <2>1. Thread(Argument(c)) \in Seq(Entry)
    BY <1>2, <1>9, ArgumentTyped, ThreadTrue DEF getAncestorSqueaks
  <2> QED BY <1>6, <1>9, <2>1 DEF getAncestorSqueaks
<1>10. ASSUME NEW S \in SUBSET Stored
       PROVE  Entries(S) \in Seq(Entry)
  BY <1>2, EntriesTrue
<1>11. CASE getReplySqueaks(c)
  <2>1. Replies(Argument(c)) \in Seq(Entry) /\ InOrder(Replies(Argument(c)))
    BY <1>2, RepliesTrue
  <2> QED BY <1>6, <1>11, <2>1 DEF getReplySqueaks
<1>12. CASE getTimelineSqueaks(c) \/ getProfileSqueaks(c)
  <2>1. Entries(Stored) \in Seq(Entry)
    BY <1>10
  <2> QED BY <1>6, <1>12, <2>1 DEF getTimelineSqueaks, getProfileSqueaks
<1>13. CASE getSearchSqueaks(c)
  <2>1. Entries({s \in Stored : row[s].open}) \in Seq(Entry)
    BY <1>10
  <2> QED BY <1>6, <1>13, <2>1 DEF getSearchSqueaks
<1>14. CASE getSqueakOffers(c)
  <2>1. UnpaidOffers(Argument(c)) \subseteq Offer
    BY DEF UnpaidOffers
  <2> QED BY <1>6, <1>14, <2>1 DEF getSqueakOffers
<1>15. CASE getPaymentSummaryForSqueak(c)
  <2>1. Spent(Argument(c)) \in 0..Cardinality(Offer)
    BY <1>5, OffersCounted
  <2> QED BY <1>6, <1>15, <2>1 DEF getPaymentSummaryForSqueak
<1>16. CASE likeSqueak(c) \/ unlikeSqueak(c) \/ deleteSqueak(c) \/ downloadSqueak(c)
  <2>1. PICK next \in {"likeSqueak", "unlikeSqueak", "deleteSqueak", "downloadSqueak"} :
            At(c, next) /\ Answer(c, None) /\ UNCHANGED <<made, paid>>
    BY <1>16 DEF likeSqueak, unlikeSqueak, deleteSqueak, downloadSqueak
  <2>2. \A e \in Of(SqueakThunks)' : SqueakTyped(e)
    BY <1>7, <2>1
  <2> QED BY <1>4, <1>5, <2>1, <2>2
<1>17. CASE makeSqueak(c)
  <2>1. At(c, "makeSqueak") /\ UNCHANGED paid
    BY <1>17 DEF makeSqueak
  <2>2. \/ \E s \in Made \ made : made' = made \cup {s} /\ Answer(c, s)
        \/ Refuse(c) /\ UNCHANGED made
    BY <1>17 DEF makeSqueak
  <2>3. Refuse(c) \/ \E reply \in Squeak : Answer(c, reply)
    BY <2>2, SqueaksAssumption
  <2>4. \A e \in Of(SqueakThunks)' : SqueakTyped(e)
    BY <1>7, <2>1, <2>3
  <2> QED BY <1>4, <1>5, <2>1, <2>2, <2>4
<1>18. CASE buySqueak(c)
  <2>1. At(c, "buySqueak") /\ UNCHANGED made
    BY <1>18 DEF buySqueak
  <2>2. paid' = paid \cup {Argument(c)} \/ UNCHANGED paid
    BY <1>18 DEF buySqueak
  <2>3. Answer(c, None) \/ Refuse(c)
    BY <1>18 DEF buySqueak
  <2>4. \A e \in Of(SqueakThunks)' : SqueakTyped(e)
    BY <1>7, <2>1, <2>3
  <2>5. Argument(c) \in Offer
    <3>1. c.thunk = "setBuySqueak"
      BY <2>1, WhoWrites
    <3> QED BY <2>1, <3>1 DEF SqueakTypes, SqueakTyped
  <2> QED BY <1>4, <1>5, <2>1, <2>2, <2>4, <2>5
<1> QED BY <1>1, <1>8, <1>9, <1>11, <1>12, <1>13, <1>14, <1>15, <1>16, <1>17, <1>18

\* A call ends; what its `then' dispatches is typed.
TypedYields(c) ==
    \A e \in calls' : \/ \E b \in calls \ {c} : Waits(e, b)
                      \/ \E d, id : TypedOpens(d) /\ e = Started(d, id, calls \ {c})

LEMMA TypedEnds ==
    ASSUME NEW c, Ends(c)
    PROVE  TypedYields(c)
BY DEF Ends, TypedYields

LEMMA TypedBegins ==
    ASSUME CallsInv, NEW c \in calls, NEW D, \A d \in D : TypedOpens(d), Settle(c, D)
    PROVE  TypedYields(c)
<1> DEFINE rest == calls \ {c}
<1>1. calls' = Begin(D, c.id, rest) /\ \A b \in rest : IsCall(b)
  BY CallsWhole DEF Settle
<1> HIDE DEF rest
<1>2. \A e \in Begin(D, c.id, rest) :
        \/ \E b \in rest : Waits(e, b) /\ e = [b EXCEPT !.crossed = @ \/ Writes(D)]
        \/ \E d \in Followed(D) : e = Started(d, c.id, rest)
  BY <1>1, BeginHeirs
<1>3. Followed(D) \subseteq D
  BY DEF Followed
<1> QED BY <1>1, <1>2, <1>3 DEF TypedYields, rest

LEMMA TypesEnd ==
    ASSUME SqueakTypes, NEW c \in calls, TypedYields(c), SqueaksTypeOK',
           InOrder(squeakLists'["reply"])
    PROVE  SqueakTypes'
<1>1. ASSUME NEW e \in calls', e.thunk \in SqueakThunks
      PROVE  SqueakTyped(e)
  <2>1. CASE \E d, id : TypedOpens(d) /\ e = Started(d, id, calls \ {c})
    BY <2>1, TypedStarts
  <2>2. CASE \E b \in calls \ {c} : Waits(e, b)
    <3>1. PICK b \in calls \ {c} : Waits(e, b)
      BY <2>2
    <3>2. SqueakTyped(b) /\ Heir(e, b)
      BY <1>1, <3>1 DEF SqueakTypes, Of, Waits, Heir
    <3> QED BY <3>1, <3>2, TypedWaits
  <2> QED BY <2>1, <2>2 DEF TypedYields
<1> QED BY <1>1 DEF SqueakTypes, Of

LEMMA StoredTyped ==
    ASSUME SqueaksTypeOK, InOrder(squeakLists["reply"]), NEW c, ~Throws(c),
           c.reply \in Entry \cup {None}, StoreSqueak(c.reply)
    PROVE  /\ currentSqueak' \in Entry \cup {None} /\ squeakLists' \in [List -> Seq(Entry)]
           /\ InOrder(squeakLists'["reply"])
           /\ \A l \in List : /\ Hashes(squeakLists'[l]) = Hashes(squeakLists[l])
                              /\ Len(squeakLists'[l]) = Len(squeakLists[l])
<1>1. /\ currentSqueak' = c.reply \/ currentSqueak' = currentSqueak
      /\ squeakLists' = [l \in List |-> updatedSqueakInArray(squeakLists[l], c.reply)]
  BY DEF StoreSqueak
<1>2. currentSqueak' \in Entry \cup {None}
  BY <1>1 DEF SqueaksTypeOK
<1>3. ASSUME NEW l \in List
      PROVE  /\ squeakLists'[l] \in Seq(Entry)
             /\ Hashes(squeakLists'[l]) = Hashes(squeakLists[l])
             /\ Len(squeakLists'[l]) = Len(squeakLists[l])
             /\ InOrder(squeakLists[l]) => InOrder(squeakLists'[l])
  <2>1. squeakLists'[l] = updatedSqueakInArray(squeakLists[l], c.reply)
    BY <1>1
  <2>2. squeakLists[l] \in Seq(Entry)
    BY DEF SqueaksTypeOK
  <2>3. CASE c.reply = None
    <3>1. squeakLists[l] = <<>>
      BY <2>3 DEF Throws
    <3> QED BY <2>1, <2>2, <3>1, UpdatedEmpty
  <2>4. CASE c.reply # None
    <3>1. c.reply \in Entry
      BY <2>4
    <3> QED BY <2>1, <2>2, <3>1, UpdatedHashes
  <2> QED BY <2>3, <2>4
<1>4. "reply" \in List
  BY DEF List
<1> QED BY <1>1, <1>2, <1>3, <1>4

LEMMA StateTypedReply ==
    ASSUME SqueakTypes, NEW c \in calls,
        \/ fetchSqueakFulfilled(c) \/ fetchAncestorSqueaksFulfilled(c)
        \/ fetchReplySqueaksFulfilled(c) \/ fetchListFulfilled(c)
        \/ fetchSqueakOffersFulfilled(c) \/ fetchPaymentSummaryForSqueakFulfilled(c)
        \/ setLikeSqueakFulfilled(c) \/ setUnlikeSqueakFulfilled(c)
        \/ setDeleteSqueakFulfilled(c) \/ setMakeSqueakFulfilled(c)
        \/ setBuySqueakFulfilled(c) \/ setDownloadSqueakFulfilled(c)
        \/ SqueakReducerThrows(c) \/ SqueakThunkRejected(c),
        UNCHANGED squeakNode
    PROVE  SqueaksTypeOK' /\ InOrder(squeakLists'["reply"])
<1> USE DEF Done
<1>1. /\ SqueaksTypeOK /\ InOrder(squeakLists["reply"])
      /\ c.thunk \in SqueakThunks => SqueakTyped(c)
  BY DEF SqueakTypes, Of
<1>2. /\ row \in [Squeak -> Row \cup {None}] /\ made \subseteq Made /\ paid \subseteq Offer
      /\ currentSqueak \in Entry \cup {None} /\ squeakLists \in [List -> Seq(Entry)]
      /\ unfilled \in BOOLEAN /\ squeakOffers \subseteq Offer
      /\ summaryForSqueak \in 0..Cardinality(Offer) \cup {None}
      /\ squeakRoute \in Squeak \cup {"timeline", "search", "profile", None}
      /\ buyModalOpen \in BOOLEAN /\ offer \in Offer \cup {None}
      /\ foreign \subseteq PageFields /\ carried \in BOOLEAN
  BY <1>1 DEF SqueaksTypeOK
<1>3. ASSUME currentSqueak' \in Entry \cup {None}, squeakLists' \in [List -> Seq(Entry)],
             unfilled' \in BOOLEAN, squeakOffers' \subseteq Offer, summaryForSqueak' \in 0..Cardinality(Offer) \cup {None},
             foreign' \subseteq PageFields, UNCHANGED squeakPage
      PROVE  SqueaksTypeOK'
  BY <1>2, <1>3 DEF SqueaksTypeOK, squeakNode, squeakPage
<1>4. ASSUME NEW field \in PageFields, Arrives(c, field)
      PROVE  foreign' \subseteq PageFields
  BY <1>2, <1>4 DEF Arrives
<1>5. {"current", "ancestor", "reply", "offers", "summary"} \subseteq PageFields
      /\ {"ancestor", "reply", "timeline", "search", "profile"} \subseteq List
  BY DEF PageFields, List
<1>6. CASE fetchSqueakFulfilled(c)
  <2>1. c.thunk = "fetchSqueak" /\ c.todo = <<>> /\ c.reply # Error /\ currentSqueak' = c.reply
        /\ Arrives(c, "current")
        /\ UNCHANGED <<squeakLists, unfilled, squeakOffers, summaryForSqueak, squeakPage>>
    BY <1>6 DEF fetchSqueakFulfilled
  <2>2. currentSqueak' \in Entry \cup {None}
    BY <1>1, <2>1 DEF SqueakTyped, SqueakThunks
  <2> QED BY <1>1, <1>2, <1>3, <1>4, <1>5, <2>1, <2>2
<1>7. CASE fetchAncestorSqueaksFulfilled(c)
  <2>1. c.thunk = "fetchAncestorSqueaks" /\ c.todo = <<>> /\ c.reply # Error
        /\ squeakLists' = [squeakLists EXCEPT !["ancestor"] = c.reply] /\ Arrives(c, "ancestor")
        /\ UNCHANGED <<currentSqueak, unfilled, squeakOffers, summaryForSqueak, squeakPage>>
    BY <1>7 DEF fetchAncestorSqueaksFulfilled
  <2>2. c.reply \in Seq(Entry)
    BY <1>1, <2>1 DEF SqueakTyped, SqueakThunks
  <2>3. squeakLists' \in [List -> Seq(Entry)] /\ squeakLists'["reply"] = squeakLists["reply"]
    BY <1>2, <1>5, <2>1, <2>2
  <2> QED BY <1>1, <1>2, <1>3, <1>4, <1>5, <2>1, <2>3
<1>8. CASE fetchReplySqueaksFulfilled(c)
  <2>1. c.thunk = "fetchReplySqueaks" /\ c.todo = <<>> /\ c.reply # Error
        /\ squeakLists' = [squeakLists EXCEPT !["reply"] = c.reply] /\ Arrives(c, "reply")
        /\ unfilled' = FALSE /\ UNCHANGED <<currentSqueak, squeakOffers, summaryForSqueak, squeakPage>>
    BY <1>8 DEF fetchReplySqueaksFulfilled
  <2>2. c.reply \in Seq(Entry) /\ InOrder(c.reply)
    BY <1>1, <2>1 DEF SqueakTyped, SqueakThunks
  <2>3. squeakLists' \in [List -> Seq(Entry)] /\ squeakLists'["reply"] = c.reply
    BY <1>2, <1>5, <2>1, <2>2
  <2> QED BY <1>2, <1>3, <1>4, <1>5, <2>1, <2>2, <2>3
<1>9. CASE fetchListFulfilled(c)
  <2>1. PICK l \in {"timeline", "search", "profile"} :
            /\ squeakLists' = [squeakLists EXCEPT ![l] = @ \o c.reply]
            /\ c.thunk \in {"fetchTimeline", "fetchSearch", "fetchProfileSqueaks"}
            /\ c.todo = <<>> /\ c.reply # Error
            /\ UNCHANGED <<currentSqueak, unfilled, squeakOffers, summaryForSqueak, squeakPage, foreign>>
    BY <1>9 DEF fetchListFulfilled, FieldOf
  <2>2. c.reply \in Seq(Entry) /\ squeakLists[l] \in Seq(Entry) /\ l \in List /\ l # "reply"
    BY <1>1, <1>2, <1>5, <2>1 DEF SqueakTyped, SqueakThunks
  <2>3. squeakLists[l] \o c.reply \in Seq(Entry)
    BY <2>2
  <2>4. squeakLists' \in [List -> Seq(Entry)] /\ squeakLists'["reply"] = squeakLists["reply"]
    BY <1>2, <1>5, <2>1, <2>2, <2>3
  <2> QED BY <1>1, <1>2, <1>3, <2>1, <2>4
<1>10. CASE fetchSqueakOffersFulfilled(c)
  <2>1. c.thunk = "fetchSqueakOffers" /\ c.todo = <<>> /\ c.reply # Error
        /\ squeakOffers' = c.reply /\ Arrives(c, "offers")
        /\ UNCHANGED <<currentSqueak, squeakLists, unfilled, summaryForSqueak, squeakPage>>
    BY <1>10 DEF fetchSqueakOffersFulfilled
  <2>2. squeakOffers' \subseteq Offer
    BY <1>1, <2>1 DEF SqueakTyped, SqueakThunks
  <2>3. foreign' \subseteq PageFields
    BY <1>4, <2>1 DEF PageFields
  <2>4. /\ squeakLists' = squeakLists /\ squeakLists' \in [List -> Seq(Entry)]
        /\ currentSqueak' \in Entry \cup {None} /\ unfilled' \in BOOLEAN
        /\ squeakOffers' \subseteq Offer
        /\ summaryForSqueak' \in 0..Cardinality(Offer) \cup {None}
    BY <1>2, <2>1, <2>2
  <2>5. UNCHANGED squeakPage
    BY <2>1
  <2>6. SqueaksTypeOK'
    BY <1>3, <2>3, <2>4, <2>5
  <2> QED BY <1>1, <2>4, <2>6
<1>11. CASE fetchPaymentSummaryForSqueakFulfilled(c)
  <2>1. c.thunk = "fetchPaymentSummaryForSqueak" /\ c.todo = <<>> /\ c.reply # Error
        /\ summaryForSqueak' = c.reply /\ Arrives(c, "summary")
        /\ UNCHANGED <<currentSqueak, squeakLists, unfilled, squeakOffers, squeakPage>>
    BY <1>11 DEF fetchPaymentSummaryForSqueakFulfilled
  <2>2. summaryForSqueak' \in 0..Cardinality(Offer) \cup {None}
    BY <1>1, <2>1 DEF SqueakTyped, SqueakThunks
  <2>3. foreign' \subseteq PageFields
    BY <1>4, <2>1 DEF PageFields
  <2>4. /\ squeakLists' = squeakLists /\ squeakLists' \in [List -> Seq(Entry)]
        /\ currentSqueak' \in Entry \cup {None} /\ unfilled' \in BOOLEAN
        /\ squeakOffers' \subseteq Offer
        /\ summaryForSqueak' \in 0..Cardinality(Offer) \cup {None}
    BY <1>2, <2>1, <2>2
  <2>5. UNCHANGED squeakPage
    BY <2>1
  <2>6. SqueaksTypeOK'
    BY <1>3, <2>3, <2>4, <2>5
  <2> QED BY <1>1, <2>4, <2>6
<1>12. CASE setLikeSqueakFulfilled(c) \/ setUnlikeSqueakFulfilled(c) \/ setBuySqueakFulfilled(c)
  <2>1. c.thunk \in {"setLikeSqueak", "setUnlikeSqueak", "setBuySqueak"}
        /\ c.todo = <<>> /\ c.reply # Error /\ ~Throws(c) /\ StoreSqueak(c.reply)
        /\ UNCHANGED <<unfilled, squeakOffers, summaryForSqueak, squeakPage, foreign>>
    BY <1>12 DEF setLikeSqueakFulfilled, setUnlikeSqueakFulfilled, setBuySqueakFulfilled
  <2>2. c.reply \in Entry \cup {None}
    BY <1>1, <2>1 DEF SqueakTyped, SqueakThunks, Rereads
  <2> QED BY <1>1, <1>2, <1>3, <2>1, <2>2, StoredTyped
<1>13. CASE setDeleteSqueakFulfilled(c)
  <2>1. /\ currentSqueak' = None \/ currentSqueak' = currentSqueak
        /\ squeakLists' = [l \in List |-> removeSqueakInArray(squeakLists[l], c.arg)]
        /\ unfilled' \in BOOLEAN /\ UNCHANGED <<squeakOffers, summaryForSqueak, squeakPage, foreign>>
    BY <1>2, <1>13 DEF setDeleteSqueakFulfilled
  <2>2. ASSUME NEW l \in List
        PROVE  /\ squeakLists'[l] \in Seq(Entry)
               /\ InOrder(squeakLists[l]) => InOrder(squeakLists'[l])
    <3>1. squeakLists'[l] = removeSqueakInArray(squeakLists[l], c.arg) /\ squeakLists[l] \in Seq(Entry)
      BY <1>2, <2>1
    <3> QED BY <3>1, RemovedKeeps
  <2>3. squeakLists' \in [List -> Seq(Entry)] /\ InOrder(squeakLists'["reply"])
    BY <1>1, <1>5, <2>1, <2>2
  <2> QED BY <1>2, <1>3, <2>1, <2>3
<1>14. CASE setMakeSqueakFulfilled(c)
  <2>1. c.thunk = "setMakeSqueak" /\ c.todo = <<>> /\ c.reply # Error /\ ShowSqueak(c.reply)
        /\ UNCHANGED <<squeakNode, squeakFields>>
    BY <1>14 DEF setMakeSqueakFulfilled
  <2>2. c.reply \in Squeak
    BY <1>1, <2>1 DEF SqueakTyped, SqueakThunks
  <2>3. /\ squeakRoute' \in Squeak /\ foreign' \subseteq PageFields
        /\ buyModalOpen' \in BOOLEAN /\ offer' \in Offer \cup {None} /\ carried' \in BOOLEAN
    BY <1>2, <2>1, <2>2 DEF ShowSqueak
  <2> QED BY <1>1, <2>1, <2>3 DEF SqueaksTypeOK, squeakNode, squeakFields
<1>15. CASE setDownloadSqueakFulfilled(c)
  <2>1. c.thunk = "setDownloadSqueak" /\ c.todo = <<>> /\ c.reply # Error /\ currentSqueak' = c.reply
        /\ foreign' \in {foreign \ {"current"}, foreign \cup {"current"}}
        /\ UNCHANGED <<squeakLists, unfilled, squeakOffers, summaryForSqueak, squeakPage>>
    BY <1>15 DEF setDownloadSqueakFulfilled
  <2>2. currentSqueak' \in Entry \cup {None} /\ foreign' \subseteq PageFields
    BY <1>1, <1>2, <1>5, <2>1 DEF SqueakTyped, SqueakThunks, Rereads
  <2> QED BY <1>1, <1>2, <1>3, <2>1, <2>2
<1>16. CASE SqueakReducerThrows(c) \/ SqueakThunkRejected(c)
  <2>1. UNCHANGED <<squeakFields, squeakPage, foreign>>
    BY <1>16 DEF SqueakReducerThrows, SqueakThunkRejected
  <2> QED BY <1>1, <1>2, <1>3, <2>1 DEF squeakFields
<1> QED BY <1>6, <1>7, <1>8, <1>9, <1>10, <1>11, <1>12, <1>13, <1>14, <1>15, <1>16

LEMMA TypesReplyKeeps ==
    ASSUME CallsInv, SqueakTypes, SqueakReply
    PROVE  SqueakTypes'
<1>1. PICK c \in calls :
        \/ fetchSqueakFulfilled(c) \/ fetchAncestorSqueaksFulfilled(c)
        \/ fetchReplySqueaksFulfilled(c) \/ fetchListFulfilled(c)
        \/ fetchSqueakOffersFulfilled(c) \/ fetchPaymentSummaryForSqueakFulfilled(c)
        \/ setLikeSqueakFulfilled(c) \/ setUnlikeSqueakFulfilled(c)
        \/ setDeleteSqueakFulfilled(c) \/ setMakeSqueakFulfilled(c)
        \/ setBuySqueakFulfilled(c) \/ setDownloadSqueakFulfilled(c)
        \/ SqueakReducerThrows(c) \/ SqueakThunkRejected(c)
  BY DEF SqueakReply
<1>2. SqueaksTypeOK' /\ InOrder(squeakLists'["reply"])
  BY <1>1, StateTypedReply DEF SqueakReply
<1>3. CASE Settle(c, {})
  BY <1>2, <1>3, SettleEnds, TypedEnds, TypesEnd
<1>4. CASE setMakeSqueakFulfilled(c)
  <2>1. c.reply \in Squeak
    BY <1>4 DEF setMakeSqueakFulfilled, Done, SqueakTypes, SqueakTyped, Of, SqueakThunks
  <2>2. \A d \in SqueakMounted(c.reply) : TypedOpens(d)
    BY <2>1, ReadsTypedOpen DEF SqueakMounted
  <2> QED BY <1>2, <1>4, <2>2, TypedBegins, TypesEnd DEF setMakeSqueakFulfilled
<1>5. CASE setBuySqueakFulfilled(c)
  <2>1. c.arg \in Squeak
    BY <1>5 DEF setBuySqueakFulfilled, Done, SqueakTypes, SqueakTyped, Of, SqueakThunks, Rereads
  <2>2. \A d \in {fetchPaymentSummaryForSqueak(c.arg)} : TypedOpens(d)
    BY <2>1, ReadsTypedOpen
  <2> QED BY <1>2, <1>5, <2>2, TypedBegins, TypesEnd DEF setBuySqueakFulfilled
<1>6. CASE SqueakReducerThrows(c)
  <2>1. Ends(c)
    BY <1>6 DEF SqueakReducerThrows, Crash, Ends, Waits, Heir
  <2> QED BY <1>2, <2>1, TypedEnds, TypesEnd
<1>7. CASE SqueakThunkRejected(c)
  <2>1. Ends(c)
    BY <1>7, RejectedEnds DEF SqueakThunkRejected
  <2> QED BY <1>2, <2>1, TypedEnds, TypesEnd
<1> QED BY <1>1, <1>3, <1>4, <1>5, <1>6, <1>7 DEF fetchSqueakFulfilled, fetchAncestorSqueaksFulfilled,
        fetchReplySqueaksFulfilled, fetchListFulfilled, fetchSqueakOffersFulfilled,
        fetchPaymentSummaryForSqueakFulfilled, setLikeSqueakFulfilled, setUnlikeSqueakFulfilled,
        setDeleteSqueakFulfilled, setDownloadSqueakFulfilled

-----------------------------------------------------------------------------
(* The cards: what the lists show is what the node has.                    *)

ReplyFresh == squeakRoute \in Squeak /\ "reply" \notin foreign \cup doubt

MadeLater == \A s \in Made \ made : row[s] = None

\* Those that change what is known of one squeak.
CardStorers == {"setLikeSqueak", "setUnlikeSqueak", "setBuySqueak", "setDeleteSqueak"}

CardReads ==
    {"fetchAncestorSqueaks", "fetchReplySqueaks", "fetchTimeline", "fetchSearch", "fetchProfileSqueaks"}

\* A call that no other one crossed: what it lists is what the node has.  A purchase
\* of the offer for another squeak is made while no list is followed; what is
\* downloaded is the squeak of the page, or no replies are shown.
CardTrue(c) ==
    ~c.crossed /\ c.reply # Error =>
        /\ c.thunk = "setBuySqueak" /\ At(c, "buySqueak") =>
                OfferOf[Argument(c)] = c.arg \/ \A l \in List \ doubt : squeakLists[l] = <<>>
        /\ c.thunk = "setDownloadSqueak" /\ ReplyFresh => c.arg = squeakRoute
        /\ c.todo = <<>> =>
            /\ c.thunk \in CardReads => AllTrue(c.reply, Truth)
            /\ c.thunk = "fetchReplySqueaks" => Leads(c.reply, RepliesTo(c.arg), {}, FALSE)
            /\ c.thunk = "setDeleteSqueak" => row[c.arg] = None

\* A list shows what the node has, but for what a call is about to store in it.
ListTrue(l) ==
    \/ Shows(squeakLists[l], Truth, {})
    \/ \E c \in calls : /\ c.thunk \in CardStorers
                        /\ c.crossed \/ c.reply = Error \/ Shows(squeakLists[l], Truth, {c.arg})

RepliesShown ==
    \/ Leads(squeakLists["reply"], RepliesTo(squeakRoute), {}, unfilled)
    \/ \E c \in calls :
        /\ c.thunk \in SqueakWriters
        /\ \/ c.thunk = "setMakeSqueak" \/ c.crossed \/ c.reply = Error
           \/ /\ c.thunk = "setDeleteSqueak"
              /\ Leads(squeakLists["reply"], RepliesTo(squeakRoute), {c.arg}, unfilled)

CardState ==
    /\ MadeLater
    /\ \A c \in Of(SqueakThunks) : CardTrue(c)
    /\ \A l \in List \ doubt : ListTrue(l)
    /\ ReplyFresh => RepliesShown

\* No list gets fresher in a step, or changes while it stays fresh.
CardsNoFresher ==
    \A l \in List \ doubt' :
        squeakLists'[l] = <<>> \/ (l \notin doubt /\ squeakLists'[l] = squeakLists[l])

RepliesNoFresher ==
    ReplyFresh' => /\ ReplyFresh /\ squeakRoute' = squeakRoute
                   /\ squeakLists'["reply"] = squeakLists["reply"] /\ unfilled' = unfilled

\* The call e that c has become: if nothing excuses it, nothing excused c.
Carries(e, c) == Heir(e, c) /\ (e.crossed \/ e.reply = Error \/ c.reply # Error)

LEMMA SameRow ==
    ASSUME UNCHANGED row
    PROVE  Truth' = Truth /\ Stored' = Stored /\ \A s : RepliesTo(s)' = RepliesTo(s)
BY DEF Truth, EntryOf, Stored, RepliesTo

LEMMA CardStorersWrite ==
    /\ CardStorers \subseteq SqueakWriters /\ SqueakWriters \subseteq SqueakThunks
    /\ "setMakeSqueak" \notin CardStorers /\ "setDownloadSqueak" \notin CardStorers
    /\ CardStorers \subseteq Rereads \cup {"setDeleteSqueak"}
    /\ \A thunk \in CardReads \cup {"fetchReplySqueaks"} : thunk \notin SqueakWriters
BY DEF CardStorers, SqueakWriters, Rereads, SqueakThunks, CardReads

LEMMA CardWaits ==
    ASSUME NEW c, CardTrue(c), UNCHANGED row, NEW e, Heir(e, c),
           Waits(e, c) \/ (e.todo = <<>> /\ e.reply = Error),
           e.thunk \in SqueakWriters => CardsNoFresher /\ RepliesNoFresher
    PROVE  CardTrue(e)'
<1>1. Truth' = Truth /\ \A s : RepliesTo(s)' = RepliesTo(s)
  BY SameRow
<1>2. CASE e.crossed \/ e.reply = Error
  BY <1>2 DEF CardTrue
<1>3. CASE ~e.crossed /\ e.reply # Error
  <2>1. /\ e.thunk = c.thunk /\ e.arg = c.arg /\ e.todo = c.todo /\ e.reply = c.reply
        /\ ~c.crossed
    BY <1>3 DEF Waits, Heir
  <2>2. At(e, "buySqueak") = At(c, "buySqueak") /\ Argument(e) = Argument(c)
    BY <2>1 DEF At, Argument
  <2>3. ASSUME e.thunk = "setBuySqueak", At(e, "buySqueak")
        PROVE  OfferOf[Argument(e)] = e.arg \/ \A l \in List \ doubt' : squeakLists'[l] = <<>>
    <3>1. OfferOf[Argument(c)] = c.arg \/ \A l \in List \ doubt : squeakLists[l] = <<>>
      BY <1>3, <2>1, <2>2, <2>3 DEF CardTrue
    <3>2. CardsNoFresher
      BY <2>3 DEF SqueakWriters, Rereads
    <3> QED BY <2>1, <2>2, <3>1, <3>2 DEF CardsNoFresher
  <2>4. ASSUME e.thunk = "setDownloadSqueak", ReplyFresh'
        PROVE  e.arg = squeakRoute'
    <3>1. RepliesNoFresher
      BY <2>4 DEF SqueakWriters, Rereads
    <3> QED BY <1>3, <2>1, <2>4, <3>1 DEF RepliesNoFresher, CardTrue
  <2>5. ASSUME e.todo = <<>>
        PROVE  /\ e.thunk \in CardReads => AllTrue(e.reply, Truth')
               /\ e.thunk = "fetchReplySqueaks" => Leads(e.reply, RepliesTo(e.arg)', {}, FALSE)
               /\ e.thunk = "setDeleteSqueak" => row'[e.arg] = None
    BY <1>1, <1>3, <2>1, <2>5 DEF CardTrue
  <2> QED BY <2>3, <2>4, <2>5 DEF CardTrue
<1> QED BY <1>2, <1>3

\* The node stays as it is, and the calls that change it are not over.
LEMMA CardsKept ==
    ASSUME CardState, UNCHANGED <<row, made>>, CardsNoFresher, RepliesNoFresher,
           \A e \in calls' : e.thunk \in SqueakThunks => CardTrue(e)',
           \A c \in calls : c.thunk \in SqueakWriters => \E e \in calls' : Carries(e, c)
    PROVE  CardState'
<1>1. Truth' = Truth /\ \A s : RepliesTo(s)' = RepliesTo(s)
  BY SameRow
<1>2. MadeLater'
  BY DEF CardState, MadeLater
<1>3. \A c \in Of(SqueakThunks)' : CardTrue(c)'
  BY DEF Of
<1>4. ASSUME NEW l \in List \ doubt'
      PROVE  ListTrue(l)'
  <2>1. CASE squeakLists'[l] = <<>>
    <3>1. Shows(squeakLists'[l], Truth', {})
      BY <2>1, NothingShown
    <3> QED BY <3>1 DEF ListTrue
  <2>2. CASE squeakLists'[l] # <<>>
    <3>1. l \notin doubt /\ squeakLists'[l] = squeakLists[l]
      BY <2>2 DEF CardsNoFresher
    <3>2. ListTrue(l)
      BY <3>1 DEF CardState
    <3>3. CASE Shows(squeakLists[l], Truth, {})
      BY <1>1, <3>1, <3>3 DEF ListTrue
    <3>4. ASSUME NEW c \in calls, c.thunk \in CardStorers,
                 c.crossed \/ c.reply = Error \/ Shows(squeakLists[l], Truth, {c.arg})
          PROVE  ListTrue(l)'
      <4>1. PICK e \in calls' : Carries(e, c)
        BY <3>4, CardStorersWrite
      <4>2. e.thunk = c.thunk /\ e.arg = c.arg /\ (c.crossed => e.crossed)
        BY <4>1 DEF Carries, Heir
      <4>3. e.crossed \/ e.reply = Error \/ Shows(squeakLists'[l], Truth', {e.arg})
        BY <1>1, <3>1, <3>4, <4>1, <4>2 DEF Carries
      <4> QED BY <3>4, <4>2, <4>3 DEF ListTrue
    <3> QED BY <3>2, <3>3, <3>4 DEF ListTrue
  <2> QED BY <2>1, <2>2
<1>5. ASSUME ReplyFresh'
      PROVE  RepliesShown'
  <2>1. /\ RepliesShown /\ squeakRoute' = squeakRoute
        /\ squeakLists'["reply"] = squeakLists["reply"] /\ unfilled' = unfilled
    BY <1>5 DEF RepliesNoFresher, CardState
  <2>2. RepliesTo(squeakRoute)' = RepliesTo(squeakRoute)
    BY <2>1 DEF RepliesTo, Stored
  <2>3. CASE Leads(squeakLists["reply"], RepliesTo(squeakRoute), {}, unfilled)
    BY <2>1, <2>2, <2>3 DEF RepliesShown
  <2>4. ASSUME NEW c \in calls, c.thunk \in SqueakWriters,
               \/ c.thunk = "setMakeSqueak" \/ c.crossed \/ c.reply = Error
               \/ /\ c.thunk = "setDeleteSqueak"
                  /\ Leads(squeakLists["reply"], RepliesTo(squeakRoute), {c.arg}, unfilled)
        PROVE  RepliesShown'
    <3>1. PICK e \in calls' : Carries(e, c)
      BY <2>4
    <3>2. e.thunk = c.thunk /\ e.arg = c.arg /\ (c.crossed => e.crossed)
      BY <3>1 DEF Carries, Heir
    <3>3. \/ e.thunk = "setMakeSqueak" \/ e.crossed \/ e.reply = Error
          \/ /\ e.thunk = "setDeleteSqueak"
             /\ Leads(squeakLists'["reply"], RepliesTo(squeakRoute)', {e.arg}, unfilled')
      BY <2>1, <2>2, <2>4, <3>1, <3>2 DEF Carries
    <3> QED BY <2>4, <3>2, <3>3 DEF RepliesShown
  <2> QED BY <2>1, <2>3, <2>4 DEF RepliesShown
<1> QED BY <1>2, <1>3, <1>4, <1>5 DEF CardState

LEMMA CardsElsewhere ==
    ASSUME CrossInv, SqueakState, CardState, Elsewhere(SqueakThunks, SqueakFields), UNCHANGED squeakVars
    PROVE  CardState'
<1>1. UNCHANGED <<row, made, squeakLists, unfilled, squeakRoute, foreign>>
  BY DEF squeakVars, squeakNode, squeakFields, squeakPage
<1>2. List \subseteq SqueakFields /\ "reply" \in SqueakFields
  BY DEF SqueakFields, List
<1>3. CardsNoFresher /\ RepliesNoFresher
  BY <1>1, <1>2 DEF CardsNoFresher, RepliesNoFresher, ReplyFresh, Elsewhere
<1>4. ASSUME NEW e \in calls', e.thunk \in SqueakThunks
      PROVE  CardTrue(e)'
  <2>1. PICK c \in calls : Heir(e, c) /\ (Waits(e, c) \/ (e.todo = <<>> /\ e.reply = Error))
    BY <1>4 DEF Elsewhere
  <2>2. CardTrue(c)
    BY <1>4, <2>1 DEF CardState, Of, Heir
  <2> QED BY <1>1, <1>3, <2>1, <2>2, CardWaits
<1>5. ASSUME NEW c \in calls, c.thunk \in SqueakWriters
      PROVE  \E e \in calls' : Carries(e, c)
  <2>1. c.thunk \in SqueakThunks
    BY <1>5, CardStorersWrite
  <2>2. PICK e \in calls' : Heir(e, c)
    BY <2>1 DEF Elsewhere, Of
  <2>3. PICK b \in calls : Heir(e, b) /\ (Waits(e, b) \/ (e.todo = <<>> /\ e.reply = Error))
    BY <2>1, <2>2 DEF Elsewhere, Heir
  <2>4. CASE b = c
    BY <2>2, <2>3, <2>4 DEF Carries, Waits
  <2>5. CASE b # c
    <3>1. b.writes
      BY <1>5, <2>1, <2>2, <2>3 DEF Heir, SqueakState, SqueakCalls, Of, SqueakRequests
    <3>2. c.crossed
      BY <2>5, <3>1 DEF CrossInv
    <3> QED BY <2>2, <3>2 DEF Carries, Heir
  <2> QED BY <2>4, <2>5
<1> QED BY <1>1, <1>3, <1>4, <1>5, CardsKept

\* A thunk that a page dispatches.
CardOpens(d) ==
    /\ d.todo # <<>>
    /\ d.thunk = "setDownloadSqueak" => d.arg = squeakRoute
    /\ d.thunk = "setBuySqueak" /\ At(d, "buySqueak") =>
            OfferOf[Argument(d)] = d.arg \/ List \subseteq doubt'

LEMMA CardUserOpens ==
    ASSUME SqueakUser
    PROVE  UNCHANGED thunkVars \/ \E D : Dispatch(D) /\ \A d \in D : CardOpens(d)
<1>1. ASSUME NEW d, CardOpens(d), Dispatch({d})
      PROVE  \E D : Dispatch(D) /\ \A b \in D : CardOpens(b)
  BY <1>1
<1>2. \A d : d.todo # <<>> /\ d.thunk \notin {"setDownloadSqueak", "setBuySqueak"} => CardOpens(d)
  BY DEF CardOpens
<1>3. \A x, y : <<x>> # <<>> /\ <<x, y>> # <<>>
  OBVIOUS
<1>4. CASE \E s \in Squeak : OpenSqueak(s)
  <2>1. PICK s \in Squeak : Dispatch(SqueakMounted(s))
    BY <1>4 DEF OpenSqueak
  <2>2. \A d \in SqueakMounted(s) : CardOpens(d)
    BY <1>2, <1>3 DEF SqueakMounted, fetchSqueak, fetchAncestorSqueaks, fetchReplySqueaks,
       fetchSqueakOffers, fetchPaymentSummaryForSqueak, Read
  <2> QED BY <2>1, <2>2
<1>5. CASE OpenTimeline \/ OpenSearch \/ OpenProfileSqueaks
  BY <1>1, <1>2, <1>3, <1>5 DEF OpenTimeline, OpenSearch, OpenProfileSqueaks, OpenList,
     fetchTimeline, fetchSearch, fetchProfileSqueaks, Read
<1>6. ASSUME NEW e, NEW s, Heart(e, s)
      PROVE  \E D : Dispatch(D) /\ \A b \in D : CardOpens(b)
  <2>1. CardOpens(setLikeSqueak(s)) /\ CardOpens(setUnlikeSqueak(s))
    BY <1>2, <1>3 DEF setLikeSqueak, setUnlikeSqueak, Write
  <2>2. \E d \in {setLikeSqueak(s), setUnlikeSqueak(s)} : Dispatch({d})
    BY <1>6 DEF Heart
  <2> QED BY <1>1, <2>1, <2>2
<1>7. \A s : CardOpens(setDeleteSqueak(s)) /\ CardOpens(setMakeSqueak(s))
  BY <1>2, <1>3 DEF setDeleteSqueak, setMakeSqueak, Write
<1>8. CASE ClickPageHeart \/ ClickPageDelete
  BY <1>1, <1>6, <1>7, <1>8 DEF ClickPageHeart, ClickPageDelete
<1>9. CASE ClickDownload
  <2>1. CardOpens(setDownloadSqueak(squeakRoute))
    BY <1>3 DEF CardOpens, setDownloadSqueak, Write
  <2> QED BY <1>1, <1>9, <2>1 DEF ClickDownload
<1>10. CASE \E e \in Cards : ClickCardHeart(e) \/ ClickCardDelete(e)
  BY <1>1, <1>6, <1>7, <1>10 DEF ClickCardHeart, ClickCardDelete
<1>11. CASE toggleBuyModal
  <2>1. CardOpens(fetchSqueakOffers(squeakRoute))
    BY <1>2, <1>3 DEF fetchSqueakOffers, Read
  <2> QED BY <1>1, <1>11, <2>1 DEF toggleBuyModal
<1>12. CASE ClickBuy
  <2>1. PICK d : d = setBuySqueak(offer, squeakRoute)
    OBVIOUS
  <2>2. /\ d.thunk = "setBuySqueak" /\ d.arg = squeakRoute
        /\ d.todo = <<<<"buySqueak", offer>>, <<"getSqueak", squeakRoute>>>>
    BY <2>1 DEF setBuySqueak, Write
  <2>3. d.todo # <<>> /\ Argument(d) = offer
    BY <2>2, TwoLeft DEF Argument
  <2>4. OfferOf[offer] = squeakRoute \/ List \subseteq doubt'
    BY <1>12 DEF ClickBuy
  <2>5. CardOpens(d)
    BY <2>2, <2>3, <2>4 DEF CardOpens
  <2> QED BY <1>1, <1>12, <2>1, <2>5 DEF ClickBuy
<1>13. CASE \E o \in Offer : handleChangeOffer(o)
  BY <1>13 DEF handleChangeOffer
<1>14. CASE \E r \in ReplyTargets : submitSqueak(r)
  BY <1>1, <1>7, <1>14 DEF submitSqueak
<1> QED BY <1>4, <1>5, <1>8, <1>9, <1>10, <1>11, <1>12, <1>13, <1>14 DEF SqueakUser

LEMMA CardUserFresh ==
    ASSUME SqueakTypes, SqueakUser
    PROVE  UNCHANGED <<row, made>> /\ CardsNoFresher /\ RepliesNoFresher
<1>1. \A l \in List : squeakLists' = [squeakLists EXCEPT ![l] = <<>>] =>
            /\ squeakLists'[l] = <<>>
            /\ \A k \in List : k # l => squeakLists'[k] = squeakLists[k]
  BY DEF SqueakTypes, SqueaksTypeOK
<1>2. "reply" \in PageFields /\ {"timeline", "search", "profile"} \subseteq List /\ "reply" \in List
  BY DEF PageFields, List
<1>3. CASE \E s \in Squeak : OpenSqueak(s)
  BY <1>2, <1>3 DEF OpenSqueak, ShowSqueak, squeakNode, squeakFields, CardsNoFresher, RepliesNoFresher,
     ReplyFresh
<1>4. CASE OpenTimeline \/ OpenSearch \/ OpenProfileSqueaks
  <2>1. PICK l \in {"timeline", "search", "profile"} :
            /\ squeakLists' = [squeakLists EXCEPT ![l] = <<>>]
            /\ doubt' = doubt \ {l} /\ squeakRoute' = l /\ UNCHANGED squeakNode
    BY <1>4 DEF OpenTimeline, OpenSearch, OpenProfileSqueaks, OpenList
  <2>2. CardsNoFresher
    BY <1>1, <1>2, <2>1 DEF CardsNoFresher
  <2>3. squeakRoute' \notin Squeak
    BY <2>1, SqueaksAssumption
  <2> QED BY <2>1, <2>2, <2>3 DEF RepliesNoFresher, ReplyFresh, squeakNode
<1>5. CASE /\ UNCHANGED <<squeakNode, squeakFields, squeakRoute, foreign>>
           /\ doubt \subseteq doubt'
  BY <1>5 DEF squeakNode, squeakFields, CardsNoFresher, RepliesNoFresher, ReplyFresh
<1>6. CASE ClickBuy
  BY <1>5, <1>6 DEF ClickBuy
<1>7. CASE toggleBuyModal
  BY <1>5, <1>7 DEF toggleBuyModal, thunkVars
<1>8. CASE \E o \in Offer : handleChangeOffer(o)
  BY <1>5, <1>8 DEF handleChangeOffer, thunkVars
<1> QED BY <1>3, <1>4, <1>5, <1>6, <1>7, <1>8 DEF SqueakUser, ClickPageHeart, ClickPageDelete,
        ClickDownload, ClickCardHeart, ClickCardDelete, submitSqueak, squeakVars, squeakPage

LEMMA CardStarts ==
    ASSUME RepliesNoFresher, NEW d, CardOpens(d), NEW id, NEW rest, NEW e, e = Started(d, id, rest),
           CardsNoFresher
    PROVE  CardTrue(e)'
<1>1. e.thunk = d.thunk /\ e.arg = d.arg /\ e.todo = d.todo
  BY DEF Started
<1>2. At(e, "buySqueak") = At(d, "buySqueak") /\ Argument(e) = Argument(d)
  BY <1>1 DEF At, Argument
<1>3. e.todo # <<>>
  BY <1>1 DEF CardOpens
<1>4. e.thunk = "setDownloadSqueak" /\ ReplyFresh' => e.arg = squeakRoute'
  BY <1>1 DEF CardOpens, RepliesNoFresher
<1>5. e.thunk = "setBuySqueak" /\ At(e, "buySqueak") =>
            OfferOf[Argument(e)] = e.arg \/ \A l \in List \ doubt' : squeakLists'[l] = <<>>
  BY <1>1, <1>2 DEF CardOpens
<1> QED BY <1>3, <1>4, <1>5 DEF CardTrue

LEMMA CardUserKeeps ==
    ASSUME CallsInv, SqueakTypes, CardState, SqueakUser
    PROVE  CardState'
<1>1. UNCHANGED <<row, made>> /\ CardsNoFresher /\ RepliesNoFresher
  BY CardUserFresh
<1>2. /\ \A e \in calls' : \/ \E c \in calls : Waits(e, c)
                           \/ \E d, id : CardOpens(d) /\ e = Started(d, id, calls)
      /\ \A c \in calls : \E e \in calls' : Waits(e, c)
  <2>1. CASE UNCHANGED thunkVars
    BY <2>1 DEF Waits, Heir, thunkVars
  <2>2. CASE ~UNCHANGED thunkVars
    <3>1. PICK D : Dispatch(D) /\ \A d \in D : CardOpens(d)
      BY <2>2, CardUserOpens
    <3>2. Followed(D) \subseteq D /\ calls' = Begin(D, events + 1, calls)
      BY <3>1 DEF Followed, Dispatch
    <3>3. \A c \in calls : IsCall(c)
      BY CallsWhole
    <3>4. /\ \A e \in Begin(D, events + 1, calls) :
                \/ \E c \in calls : Waits(e, c) /\ e = [c EXCEPT !.crossed = @ \/ Writes(D)]
                \/ \E d \in Followed(D) : e = Started(d, events + 1, calls)
          /\ \A c \in calls : \E e \in Begin(D, events + 1, calls) : Waits(e, c)
      BY <3>3, BeginHeirs
    <3> QED BY <3>1, <3>2, <3>4
  <2> QED BY <2>1, <2>2
<1>3. ASSUME NEW e \in calls', e.thunk \in SqueakThunks
      PROVE  CardTrue(e)'
  <2>1. ASSUME NEW c \in calls, Waits(e, c)
        PROVE  CardTrue(e)'
    <3>1. CardTrue(c) /\ Heir(e, c)
      BY <1>3, <2>1 DEF CardState, Of, Waits, Heir
    <3> QED BY <1>1, <2>1, <3>1, CardWaits
  <2>2. ASSUME NEW d, NEW id, CardOpens(d), e = Started(d, id, calls)
        PROVE  CardTrue(e)'
    BY <1>1, <2>2, CardStarts
  <2> QED BY <1>2, <2>1, <2>2
<1>4. \A c \in calls : \E e \in calls' : Carries(e, c)
  BY <1>2 DEF Carries, Waits
<1> QED BY <1>1, <1>3, <1>4, CardsKept

\* The node refuses, or answers and stays as it is.
LEMMA CardsRead ==
    ASSUME CallsInv, SqueakState, CardState, NEW c \in Of(SqueakThunks),
           NEW reply, NEW next, At(c, next), Refuse(c) \/ Answer(c, reply),
           UNCHANGED <<row, made, squeakLists, unfilled, squeakRoute, foreign, doubt>>,
           ~Refuse(c) =>
               /\ next \in SqueakReadings
               /\ next \in {"getAncestorSqueaks", "getReplySqueaks", "getTimelineSqueaks",
                            "getSearchSqueaks", "getProfileSqueaks"} => AllTrue(reply, Truth)
               /\ next = "getReplySqueaks" => Leads(reply, RepliesTo(Argument(c)), {}, FALSE)
    PROVE  CardState'
<1>1. c \in calls /\ c.thunk \in SqueakThunks /\ SqueakRequests(c) /\ SqueakTrue(c) /\ c.todo # <<>>
  BY DEF Of, SqueakState, SqueakCalls, At
<1>2. CardsNoFresher /\ RepliesNoFresher
  BY DEF CardsNoFresher, RepliesNoFresher, ReplyFresh
<1>3. c.reply # Error /\ CardTrue(c)
  BY <1>1 DEF SqueakTrue, CardState
<1>4. ASSUME NEW d, Heir(d, c), calls' = (calls \ {c}) \cup {d}, CardTrue(d)'
      PROVE  CardState'
  <2>1. ASSUME NEW e \in calls', e.thunk \in SqueakThunks
        PROVE  CardTrue(e)'
    <3>1. CASE e = d
      BY <1>4, <3>1
    <3>2. CASE e # d
      <4>1. CardTrue(e) /\ Heir(e, e) /\ Waits(e, e)
        BY <1>4, <2>1, <3>2 DEF CardState, Of, Heir, Waits
      <4> QED BY <1>2, <4>1, CardWaits
    <3> QED BY <3>1, <3>2
  <2>2. ASSUME NEW b \in calls
        PROVE  \E e \in calls' : Carries(e, b)
    <3>1. CASE b = c
      BY <1>3, <1>4, <3>1 DEF Carries
    <3>2. CASE b # c
      BY <1>4, <3>2 DEF Carries, Heir
    <3> QED BY <3>1, <3>2
  <2> QED BY <1>2, <2>1, <2>2, CardsKept
<1>5. CASE Refuse(c)
  <2>1. PICK d : /\ Heir(d, c) /\ d.todo = <<>> /\ d.reply = Error
                 /\ calls' = (calls \ {c}) \cup {d}
    BY <1>1, <1>5, CallsWhole, RefuseHeirs DEF GoesOn
  <2>2. CardTrue(d)'
    BY <2>1 DEF CardTrue
  <2> QED BY <1>4, <2>1, <2>2
<1>6. CASE ~Refuse(c)
  <2>1. PICK d : /\ Heir(d, c) /\ d.todo = Tail(c.todo) /\ d.reply = reply
                 /\ calls' = (calls \ {c}) \cup {d}
    BY <1>1, <1>6, CallsWhole, AnswerHeirs DEF GoesOn
  <2>2. d.thunk = c.thunk /\ d.arg = c.arg /\ (~d.crossed => ~c.crossed)
    BY <2>1 DEF Heir
  <2>3. /\ Tail(c.todo) = <<>> /\ Argument(c) = c.arg
        /\ c.thunk \notin {"setDeleteSqueak", "setMakeSqueak"}
        /\ c.thunk \in CardReads => next = RequestOf(c.thunk)
    <3>1. next = RequestOf(c.thunk) => c.thunk \notin SqueakWriters
      BY <1>1, <1>6, WhoAsks
    <3>2. /\ CardReads \cap Rereads = {} /\ "setBuySqueak" \in Rereads /\ Rereads \subseteq SqueakWriters
          /\ {"setDeleteSqueak", "setMakeSqueak"} \subseteq SqueakWriters
          /\ {"setDeleteSqueak", "setMakeSqueak"} \cap Rereads = {}
      BY DEF CardReads, Rereads, SqueakWriters
    <3> QED BY <1>1, <3>1, <3>2, SqueakNext
  <2>4. Truth' = Truth /\ \A s : RepliesTo(s)' = RepliesTo(s)
    BY SameRow
  <2>5. /\ d.thunk \in CardReads => AllTrue(d.reply, Truth')
        /\ d.thunk = "fetchReplySqueaks" => Leads(d.reply, RepliesTo(d.arg)', {}, FALSE)
    <3>1. /\ c.thunk \in CardReads => RequestOf(c.thunk) \in
                {"getAncestorSqueaks", "getReplySqueaks", "getTimelineSqueaks",
                 "getSearchSqueaks", "getProfileSqueaks"}
          /\ c.thunk = "fetchReplySqueaks" => /\ c.thunk \in CardReads
                                              /\ RequestOf(c.thunk) = "getReplySqueaks"
      BY DEF CardReads, RequestOf
    <3> QED BY <1>6, <2>1, <2>2, <2>3, <2>4, <3>1
  <2>6. d.todo = <<>> /\ ~(d.thunk = "setBuySqueak" /\ At(d, "buySqueak"))
    BY <2>1, <2>3 DEF At
  <2>7. d.thunk = "setDownloadSqueak" /\ ReplyFresh' /\ ~d.crossed => d.arg = squeakRoute'
    BY <1>2, <1>3, <2>2 DEF CardTrue, RepliesNoFresher
  <2>8. CardTrue(d)'
    BY <2>2, <2>3, <2>5, <2>6, <2>7 DEF CardTrue
  <2> QED BY <1>4, <2>1, <2>8
<1> QED BY <1>5, <1>6

\* A call has done its change: the lists show what it left alone.
LEMMA CardsWrote ==
    ASSUME CallsInv, CrossInv, SqueakState, SqueakTypes, CardState,
           NEW c \in Of(SqueakThunks), c.thunk \in SqueakWriters,
           At(c, RequestOf(c.thunk)), NEW reply, Answer(c, reply),
           UNCHANGED <<squeakLists, unfilled, squeakRoute, foreign, doubt>>, MadeLater',
           c.thunk \in CardStorers /\ ~c.crossed => \A l \in List \ doubt :
                \/ squeakLists[l] = <<>>
                \/ \A s \in Squeak : s = c.arg \/ Truth[s] = None \/ Truth'[s] = Truth[s],
           c.thunk \notin CardStorers => \A s \in Squeak : Truth[s] = None \/ Truth'[s] = Truth[s],
           c.thunk = "setDeleteSqueak" => row'[c.arg] = None,
           ReplyFresh /\ ~c.crossed /\ c.thunk # "setMakeSqueak" =>
                \/ RepliesTo(squeakRoute)' = RepliesTo(squeakRoute)
                \/ /\ c.thunk = "setDeleteSqueak"
                   /\ RepliesTo(squeakRoute)' = RepliesTo(squeakRoute) \ {c.arg}
    PROVE  CardState'
<1>1. /\ c \in calls /\ c.thunk \in SqueakThunks /\ SqueakRequests(c) /\ SqueakTrue(c) /\ c.writes
      /\ c.todo # <<>> /\ c.reply # Error /\ CardTrue(c)
  BY DEF Of, SqueakState, SqueakCalls, SqueakRequests, SqueakTrue, At, CardState
<1>2. PICK d : Heir(d, c) /\ d.todo = Tail(c.todo) /\ calls' = (calls \ {c}) \cup {d}
  BY <1>1, CallsWhole, AnswerHeirs DEF GoesOn
<1>3. d.thunk = c.thunk /\ d.arg = c.arg /\ (~d.crossed => ~c.crossed) /\ d \in calls'
  BY <1>2 DEF Heir
<1>4. \A e \in calls \ {c} : e.crossed /\ e \in calls'
  BY <1>1, <1>2 DEF CrossInv
<1>5. ~c.crossed => \A b \in calls \ {c} : b.thunk \notin SqueakWriters
  BY <1>1, SqueakUncrossed
<1>6. ReplyFresh' = ReplyFresh
  BY DEF ReplyFresh
<1>7. CardTrue(d)'
  <2>1. IF c.thunk \in Rereads THEN d.todo = <<<<"getSqueak", c.arg>>>> ELSE d.todo = <<>>
    <3>1. RequestOf(c.thunk) # "getSqueak"
      BY <1>1, WhoAsks DEF SqueakReadings
    <3> QED BY <1>1, <1>2, <3>1, SqueakNext
  <2>2. c.thunk \in Rereads => d.todo # <<>> /\ Head(d.todo) = <<"getSqueak", c.arg>>
    BY <2>1, OneLeft
  <2>3. ~(d.thunk = "setBuySqueak" /\ At(d, "buySqueak"))
    BY <1>3, <2>2 DEF At, Rereads
  <2>4. ~d.crossed /\ d.thunk = "setDownloadSqueak" /\ ReplyFresh' => d.arg = squeakRoute'
    BY <1>1, <1>3, <1>6 DEF CardTrue
  <2>5. d.thunk \notin CardReads /\ d.thunk # "fetchReplySqueaks"
    BY <1>3, CardStorersWrite
  <2> QED BY <1>3, <2>3, <2>4, <2>5 DEF CardTrue
<1>8. \A e \in Of(SqueakThunks)' : CardTrue(e)'
  BY <1>2, <1>4, <1>7 DEF Of, CardTrue
<1>9. ASSUME NEW l \in List \ doubt
      PROVE  ListTrue(l)'
  <2>1. ListTrue(l)
    BY DEF CardState
  <2>2. CASE c.thunk \in CardStorers /\ d.crossed
    BY <1>3, <2>2 DEF ListTrue
  <2>3. CASE c.thunk \in CardStorers /\ ~d.crossed
    <3>1. Shows(squeakLists[l], Truth, {c.arg})
      <4>1. CASE Shows(squeakLists[l], Truth, {})
        BY <4>1, ShowsFewer
      <4>2. ASSUME NEW b \in calls, b.thunk \in CardStorers,
                   b.crossed \/ b.reply = Error \/ Shows(squeakLists[l], Truth, {b.arg})
            PROVE  Shows(squeakLists[l], Truth, {c.arg})
        <5>1. b = c
          BY <1>3, <1>5, <2>3, <4>2, CardStorersWrite
        <5> QED BY <1>1, <1>3, <2>3, <4>2, <5>1
      <4> QED BY <2>1, <4>1, <4>2 DEF ListTrue
    <3>2. Shows(squeakLists[l], Truth', {c.arg})
      <4>1. CASE squeakLists[l] = <<>>
        BY <4>1, NothingShown
      <4>2. CASE \A s \in Squeak : s = c.arg \/ Truth[s] = None \/ Truth'[s] = Truth[s]
        <5>1. PICK new : new = Truth'
          OBVIOUS
        <5>2. \A s \in Squeak : s \in {c.arg} \/ Truth[s] = None \/ new[s] = Truth[s]
          BY <4>2, <5>1
        <5>3. squeakLists[l] \in Seq(Entry)
          BY DEF SqueakTypes, SqueaksTypeOK
        <5>4. Shows(squeakLists[l], new, {c.arg})
          BY <3>1, <5>2, <5>3, ShowsStill
        <5> QED BY <5>1, <5>4
      <4> QED BY <1>3, <2>3, <4>1, <4>2
    <3> QED BY <1>3, <2>3, <3>2 DEF ListTrue
  <2>4. CASE c.thunk \notin CardStorers
    <3>1. CASE Shows(squeakLists[l], Truth, {})
      <4>1. Shows(squeakLists[l], Truth', {})
        <5>1. PICK new : new = Truth'
          OBVIOUS
        <5>2. \A s \in Squeak : s \in {} \/ Truth[s] = None \/ new[s] = Truth[s]
          BY <2>4, <5>1
        <5>3. squeakLists[l] \in Seq(Entry)
          BY DEF SqueakTypes, SqueaksTypeOK
        <5>4. Shows(squeakLists[l], new, {})
          BY <3>1, <5>2, <5>3, ShowsStill
        <5> QED BY <5>1, <5>4
      <4> QED BY <4>1 DEF ListTrue
    <3>2. ASSUME NEW b \in calls, b.thunk \in CardStorers
          PROVE  ListTrue(l)'
      BY <1>4, <2>4, <3>2 DEF ListTrue
    <3> QED BY <2>1, <3>1, <3>2 DEF ListTrue
  <2> QED BY <2>2, <2>3, <2>4
<1>10. ASSUME ReplyFresh
       PROVE  RepliesShown'
  <2>1. RepliesShown
    BY <1>10 DEF CardState
  <2>2. CASE c.thunk = "setMakeSqueak" \/ d.crossed
    BY <1>3, <2>2 DEF RepliesShown
  <2>3. CASE c.thunk # "setMakeSqueak" /\ ~d.crossed
    <3> DEFINE list == squeakLists["reply"]
               old == RepliesTo(squeakRoute)
               new == RepliesTo(squeakRoute)'
    <3>0. squeakLists'["reply"] = list /\ unfilled' = unfilled
      OBVIOUS
    <3>1. new = old \/ (c.thunk = "setDeleteSqueak" /\ new = old \ {c.arg})
      BY <1>3, <1>10, <2>3
    <3>2. \/ Leads(list, old, {}, unfilled)
          \/ c.thunk = "setDeleteSqueak" /\ Leads(list, old, {c.arg}, unfilled)
      <4>1. ASSUME NEW b \in calls, b.thunk \in SqueakWriters
            PROVE  b = c
        BY <1>3, <1>5, <2>3, <4>1
      <4> QED BY <1>1, <1>3, <2>1, <2>3, <4>1 DEF RepliesShown
    <3> HIDE DEF list, old, new
    <3>3. \/ Leads(list, new, {}, unfilled)
          \/ c.thunk = "setDeleteSqueak" /\ Leads(list, new, {c.arg}, unfilled)
      <4>1. ASSUME Leads(list, old, {}, unfilled)
            PROVE  Leads(list, old, {c.arg}, unfilled)
        BY <4>1, NothingButLeads
      <4>2. ASSUME Leads(list, old, {c.arg}, unfilled)
            PROVE  Leads(list, old \ {c.arg}, {c.arg}, unfilled)
        BY <4>2, LeadsWithout
      <4>3. CASE new = old
        BY <3>2, <4>3
      <4>4. CASE c.thunk = "setDeleteSqueak" /\ new = old \ {c.arg}
        BY <3>2, <4>1, <4>2, <4>4
      <4> QED BY <3>1, <4>3, <4>4
    <3> QED BY <1>3, <3>0, <3>3 DEF RepliesShown, list, new
  <2> QED BY <2>2, <2>3
<1> QED BY <1>6, <1>8, <1>9, <1>10 DEF CardState

CardFieldsStay == UNCHANGED <<squeakLists, unfilled, squeakRoute, foreign, doubt>>

\* The row of one squeak changes, and stays if there is one.
LEMMA RowChanged ==
    ASSUME RowStored, CardState, NEW s, UNCHANGED made,
           \A t \in Squeak \ {s} : row'[t] = row[t],
           s \in Squeak => (row'[s] = None <=> row[s] = None)
    PROVE  /\ MadeLater' /\ \A r : RepliesTo(r)' = RepliesTo(r)
           /\ \A t \in Squeak : t = s \/ Truth'[t] = Truth[t]
<1>1. \A t \in Squeak : row'[t] = None <=> row[t] = None
  OBVIOUS
<1>2. Stored' = Stored
  BY <1>1 DEF Stored
<1>3. MadeLater'
  BY <1>1, SqueaksAssumption DEF CardState, MadeLater
<1> QED BY <1>2, <1>3 DEF RepliesTo, Truth, EntryOf

LEMMA CardsLiked ==
    ASSUME CallsInv, CrossInv, SqueakState, SqueakTypes, CardState,
           NEW c \in Of(SqueakThunks), NEW on \in BOOLEAN, At(c, "likeSqueak") \/ At(c, "unlikeSqueak"),
           SetLiked(Argument(c), on), Answer(c, None), UNCHANGED made, CardFieldsStay
    PROVE  CardState'
<1>1. /\ At(c, RequestOf(c.thunk)) /\ c.thunk \in {"setLikeSqueak", "setUnlikeSqueak"}
      /\ c.thunk \in SqueakWriters /\ Argument(c) = c.arg
  BY WhoWrites
<1>2. row' = IF row[c.arg] = None THEN row ELSE [row EXCEPT ![c.arg].liked = on]
  BY <1>1 DEF SetLiked
<1>3. RowStored /\ c.arg \in Squeak
  BY <1>1 DEF SqueakState, SqueakTypes, SqueakTyped, Rereads
<1>4. /\ \A t \in Squeak \ {c.arg} : row'[t] = row[t]
      /\ row'[c.arg] = None <=> row[c.arg] = None
  <2>1. CASE row[c.arg] # None
    <3>1. row' = [row EXCEPT ![c.arg] = [row[c.arg] EXCEPT !.liked = on]]
      BY <1>2, <2>1
    <3>2. [row[c.arg] EXCEPT !.liked = on] \in Row
      BY <1>3, <2>1 DEF RowStored, Row
    <3>3. row'[c.arg] # None
      BY <1>3, <3>1, <3>2, SqueaksAssumption DEF RowStored
    <3> QED BY <1>3, <2>1, <3>1, <3>3 DEF RowStored
  <2> QED BY <1>2, <2>1
<1>5. /\ MadeLater' /\ \A r : RepliesTo(r)' = RepliesTo(r)
      /\ \A t \in Squeak : t = c.arg \/ Truth'[t] = Truth[t]
  BY <1>3, <1>4, RowChanged
<1>6. c.thunk \in CardStorers /\ c.thunk # "setDeleteSqueak"
  BY <1>1 DEF CardStorers
<1> QED BY <1>1, <1>5, <1>6, CardsWrote DEF CardFieldsStay

LEMMA CardsRemoved ==
    ASSUME CallsInv, CrossInv, SqueakState, SqueakTypes, CardState,
           NEW c \in Of(SqueakThunks), deleteSqueak(c), CardFieldsStay
    PROVE  CardState'
<1>1. At(c, "deleteSqueak") /\ Answer(c, None) /\ UNCHANGED made
  BY DEF deleteSqueak
<1>2. /\ At(c, RequestOf(c.thunk)) /\ c.thunk = "setDeleteSqueak"
      /\ c.thunk \in SqueakWriters /\ Argument(c) = c.arg
  BY <1>1, WhoWrites
<1>3. RowStored /\ c.arg \in Squeak
  BY <1>2 DEF SqueakState, SqueakTypes, SqueakTyped
<1>4. \A s \in Squeak : row'[s] = IF s = c.arg THEN None ELSE row[s]
  BY <1>2, <1>3 DEF deleteSqueak, RowStored
<1>5. MadeLater'
  BY <1>1, <1>4, SqueaksAssumption DEF CardState, MadeLater
<1>6. \A r : RepliesTo(r)' = RepliesTo(r) \ {c.arg}
  BY <1>4 DEF RepliesTo, Stored
<1>7. \A s \in Squeak : s = c.arg \/ Truth'[s] = Truth[s]
  BY <1>4 DEF Truth, EntryOf
<1>8. c.thunk \in CardStorers /\ row'[c.arg] = None
  BY <1>2, <1>3, <1>4 DEF CardStorers
<1> QED BY <1>1, <1>2, <1>5, <1>6, <1>7, <1>8, CardsWrote DEF CardFieldsStay

LEMMA CardsMade ==
    ASSUME CallsInv, CrossInv, SqueakState, SqueakTypes, CardState,
           NEW c \in Of(SqueakThunks), At(c, "makeSqueak"), NEW s \in Made \ made,
           row' = [row EXCEPT ![s] = [liked |-> FALSE, open |-> TRUE]],
           made' = made \cup {s}, Answer(c, s), CardFieldsStay
    PROVE  CardState'
<1>1. /\ At(c, RequestOf(c.thunk)) /\ c.thunk = "setMakeSqueak" /\ c.thunk \in SqueakWriters
  BY WhoWrites
<1>2. RowStored /\ s \in Squeak /\ row[s] = None
  BY SqueaksAssumption DEF SqueakState, CardState, MadeLater
<1>3. \A t \in Squeak \ {s} : row'[t] = row[t]
  BY <1>2 DEF RowStored
<1>4. MadeLater'
  BY <1>3, SqueaksAssumption DEF CardState, MadeLater
<1>5. \A t \in Squeak : Truth[t] = None \/ Truth'[t] = Truth[t]
  BY <1>2, <1>3 DEF Truth, EntryOf
<1>6. c.thunk \notin CardStorers /\ c.thunk # "setDeleteSqueak"
  BY <1>1 DEF CardStorers
<1> QED BY <1>1, <1>4, <1>5, <1>6, CardsWrote DEF CardFieldsStay

LEMMA NoReplyToItself ==
    ASSUME NEW s \in Squeak
    PROVE  ReplyTo[s] # s
<1>1. PICK height \in [Squeak -> 1..Cardinality(Squeak)] : \A t \in Squeak :
            ReplyTo[t] # None => height[ReplyTo[t]] < height[t]
  BY SqueaksAssumption
<1>2. height[s] \in 1..Cardinality(Squeak) /\ s # None
  BY <1>1, SqueaksAssumption
<1> QED BY <1>1, <1>2

LEMMA CardsDownloaded ==
    ASSUME CallsInv, CrossInv, SqueakState, SqueakTypes, CardState,
           NEW c \in Of(SqueakThunks), downloadSqueak(c), CardFieldsStay
    PROVE  CardState'
<1>1. At(c, "downloadSqueak") /\ Answer(c, None) /\ UNCHANGED made
  BY DEF downloadSqueak
<1>2. /\ At(c, RequestOf(c.thunk)) /\ c.thunk = "setDownloadSqueak" /\ c.thunk \in SqueakWriters
      /\ Argument(c) = c.arg
  BY <1>1, WhoWrites
<1>3. RowStored /\ c.arg \in Squeak
  BY <1>2 DEF SqueakState, SqueakTypes, SqueakTyped, Rereads
<1>4. \/ UNCHANGED row
      \/ /\ row[c.arg] = None /\ c.arg \notin Made \ made
         /\ \A t \in Squeak \ {c.arg} : row'[t] = row[t]
  <2>1. \/ row[c.arg] = None /\ c.arg \notin Made \ made /\ \E open \in BOOLEAN :
                row' = [row EXCEPT ![c.arg] = [liked |-> FALSE, open |-> open]]
        \/ UNCHANGED row
    BY <1>2 DEF downloadSqueak
  <2> QED BY <1>3, <2>1 DEF RowStored
<1>5. MadeLater'
  BY <1>1, <1>4, SqueaksAssumption DEF CardState, MadeLater
<1>6. \A t \in Squeak : Truth[t] = None \/ Truth'[t] = Truth[t]
  BY <1>3, <1>4 DEF Truth, EntryOf
<1>7. ASSUME ReplyFresh, ~c.crossed
      PROVE  RepliesTo(squeakRoute)' = RepliesTo(squeakRoute)
  <2>1. c.todo # <<>> /\ SqueakTrue(c) /\ CardTrue(c)
    BY <1>1 DEF At, CardState, SqueakState, SqueakCalls
  <2>2. c.arg = squeakRoute /\ squeakRoute' = squeakRoute
    BY <1>2, <1>7, <2>1 DEF SqueakTrue, CardTrue, CardFieldsStay
  <2>3. ReplyTo[c.arg] # c.arg
    BY <1>3, NoReplyToItself
  <2> QED BY <1>4, <2>2, <2>3 DEF RepliesTo, Stored
<1>8. c.thunk \notin CardStorers /\ c.thunk # "setDeleteSqueak"
  BY <1>2 DEF CardStorers
<1> QED BY <1>1, <1>2, <1>5, <1>6, <1>7, <1>8, CardsWrote DEF CardFieldsStay

\* The key that is bought opens the squeak that its offer is for.
LEMMA CardsBought ==
    ASSUME CallsInv, CrossInv, SqueakState, SqueakTypes, CardState,
           NEW c \in Of(SqueakThunks), At(c, "buySqueak"), Answer(c, None),
           row[OfferOf[Argument(c)]] # None,
           row' = [row EXCEPT ![OfferOf[Argument(c)]].open = TRUE], UNCHANGED made, CardFieldsStay
    PROVE  CardState'
<1>1. /\ At(c, RequestOf(c.thunk)) /\ c.thunk = "setBuySqueak" /\ c.thunk \in SqueakWriters
  BY WhoWrites
<1>2. PICK s : s = OfferOf[Argument(c)]
  OBVIOUS
<1>3. RowStored /\ Argument(c) \in Offer /\ s \in Squeak /\ row[s] # None
  BY <1>1, <1>2, SqueaksAssumption DEF SqueakState, SqueakTypes, SqueakTyped
<1>4. row' = [row EXCEPT ![s] = [row[s] EXCEPT !.open = TRUE]]
  BY <1>2
<1>5. /\ \A t \in Squeak \ {s} : row'[t] = row[t]
      /\ row'[s] = None <=> row[s] = None
  <2>1. [row[s] EXCEPT !.open = TRUE] \in Row
    BY <1>3 DEF RowStored, Row
  <2>2. row'[s] # None
    <3>1. PICK r \in Row : r = [row[s] EXCEPT !.open = TRUE]
      BY <2>1
    <3>2. row' = [row EXCEPT ![s] = r]
      BY <1>4, <3>1
    <3>3. r # None
      BY <3>1, SqueaksAssumption
    <3>4. row'[s] = r
      BY <1>3, <3>2 DEF RowStored
    <3> QED BY <3>3, <3>4
  <2> QED BY <1>3, <1>4, <2>2 DEF RowStored
<1>6. /\ MadeLater' /\ \A r : RepliesTo(r)' = RepliesTo(r)
      /\ \A t \in Squeak : t = s \/ Truth'[t] = Truth[t]
  BY <1>3, <1>5, RowChanged
<1>7. ~c.crossed => \/ \A l \in List \ doubt : squeakLists[l] = <<>>
                    \/ s = c.arg
  <2>1. c.todo # <<>> /\ SqueakTrue(c) /\ CardTrue(c)
    BY DEF At, CardState, SqueakState, SqueakCalls
  <2> QED BY <1>1, <1>2, <2>1 DEF SqueakTrue, CardTrue
<1>8. c.thunk \in CardStorers /\ c.thunk # "setDeleteSqueak"
  BY <1>1 DEF CardStorers
<1> QED BY <1>1, <1>6, <1>7, <1>8, CardsWrote DEF CardFieldsStay

LEMMA CardServerKeeps ==
    ASSUME CallsInv, CrossInv, SqueakState, SqueakTypes, CardState, SqueakServer
    PROVE  CardState'
<1>1. PICK c \in Of(SqueakThunks) :
        \/ getSqueak(c) \/ getAncestorSqueaks(c) \/ getReplySqueaks(c)
        \/ getTimelineSqueaks(c) \/ getSearchSqueaks(c) \/ getProfileSqueaks(c)
        \/ getSqueakOffers(c) \/ getPaymentSummaryForSqueak(c)
        \/ likeSqueak(c) \/ unlikeSqueak(c) \/ deleteSqueak(c)
        \/ makeSqueak(c) \/ downloadSqueak(c) \/ buySqueak(c)
  BY DEF SqueakServer
<1>2. CardFieldsStay /\ RowStored
  BY DEF SqueakServer, CardFieldsStay, squeakFields, squeakPage, SqueakState
<1>3. ASSUME NEW next \in SqueakReadings, At(c, next), NEW reply, Answer(c, reply),
             next \in {"getAncestorSqueaks", "getReplySqueaks", "getTimelineSqueaks",
                       "getSearchSqueaks", "getProfileSqueaks"} => AllTrue(reply, Truth),
             next = "getReplySqueaks" => Leads(reply, RepliesTo(Argument(c)), {}, FALSE),
             UNCHANGED squeakNode
      PROVE  CardState'
  BY <1>2, <1>3, CardsRead DEF CardFieldsStay, squeakNode
<1>4. CASE getSqueak(c)
  BY <1>3, <1>4 DEF getSqueak, SqueakReadings
<1>5. CASE getSqueakOffers(c) \/ getPaymentSummaryForSqueak(c)
  BY <1>3, <1>5 DEF getSqueakOffers, getPaymentSummaryForSqueak, SqueakReadings
<1>6. CASE getAncestorSqueaks(c)
  <2>1. AllTrue(Thread(Argument(c)), Truth)
    BY <1>2, <1>6, ArgumentTyped, ThreadTrue DEF getAncestorSqueaks
  <2> QED BY <1>3, <1>6, <2>1 DEF getAncestorSqueaks, SqueakReadings
<1>7. ASSUME NEW S \in SUBSET Stored
      PROVE  AllTrue(Entries(S), Truth)
  BY <1>2, EntriesTrue
<1>8. CASE getReplySqueaks(c)
  <2>1. /\ AllTrue(Replies(Argument(c)), Truth)
        /\ Leads(Replies(Argument(c)), RepliesTo(Argument(c)), {}, FALSE)
    BY <1>2, RepliesTrue
  <2> QED BY <1>3, <1>8, <2>1 DEF getReplySqueaks, SqueakReadings
<1>9. CASE getTimelineSqueaks(c) \/ getProfileSqueaks(c)
  <2>1. AllTrue(Entries(Stored), Truth)
    BY <1>7
  <2> QED BY <1>3, <1>9, <2>1 DEF getTimelineSqueaks, getProfileSqueaks, SqueakReadings
<1>10. CASE getSearchSqueaks(c)
  <2>1. AllTrue(Entries({s \in Stored : row[s].open}), Truth)
    BY <1>7
  <2> QED BY <1>3, <1>10, <2>1 DEF getSearchSqueaks, SqueakReadings
<1>11. CASE likeSqueak(c) \/ unlikeSqueak(c)
  BY <1>2, <1>11, CardsLiked DEF likeSqueak, unlikeSqueak
<1>12. CASE deleteSqueak(c)
  BY <1>2, <1>12, CardsRemoved
<1>13. ASSUME NEW next, At(c, next), Refuse(c), UNCHANGED <<row, made>>
       PROVE  CardState'
  BY <1>2, <1>13, CardsRead DEF CardFieldsStay
<1>14. CASE makeSqueak(c)
  <2>1. At(c, "makeSqueak")
    BY <1>14 DEF makeSqueak
  <2>2. ASSUME NEW s \in Made \ made, made' = made \cup {s}, Answer(c, s),
               row' = [row EXCEPT ![s] = [liked |-> FALSE, open |-> TRUE]]
        PROVE  CardState'
    BY <1>2, <2>1, <2>2, CardsMade
  <2> QED BY <1>13, <1>14, <2>1, <2>2 DEF makeSqueak
<1>15. CASE downloadSqueak(c)
  BY <1>2, <1>15, CardsDownloaded
<1>16. CASE buySqueak(c)
  <2>1. At(c, "buySqueak") /\ UNCHANGED made
    BY <1>16 DEF buySqueak
  <2>2. CASE Refuse(c) /\ UNCHANGED row
    BY <1>13, <2>1, <2>2
  <2>3. CASE Answer(c, None) /\ row[OfferOf[Argument(c)]] # None
             /\ row' = [row EXCEPT ![OfferOf[Argument(c)]].open = TRUE]
    BY <1>2, <2>1, <2>3, CardsBought
  <2> QED BY <1>16, <2>2, <2>3 DEF buySqueak
<1> QED BY <1>1, <1>4, <1>5, <1>6, <1>8, <1>9, <1>10, <1>11, <1>12, <1>14, <1>15, <1>16

\* A call ends, while the node stays as it is.
LEMMA CardsEnd ==
    ASSUME CrossInv, SqueakState, CardState, NEW c \in calls, SqueakYields(c),
           UNCHANGED <<row, made>>, c.crossed => CardsNoFresher /\ RepliesNoFresher,
           \A l \in List \ doubt' :
                \/ Shows(squeakLists'[l], Truth, {})
                \/ \E b \in calls \ {c} :
                    /\ b.thunk \in CardStorers
                    /\ \/ b.crossed \/ b.reply = Error
                       \/ Shows(squeakLists'[l], Truth, {b.arg}),
           ReplyFresh' =>
                \/ Leads(squeakLists'["reply"], RepliesTo(squeakRoute'), {}, unfilled')
                \/ \E b \in calls \ {c} :
                    /\ b.thunk \in SqueakWriters
                    /\ \/ b.thunk = "setMakeSqueak" \/ b.crossed \/ b.reply = Error
                       \/ /\ b.thunk = "setDeleteSqueak"
                          /\ Leads(squeakLists'["reply"], RepliesTo(squeakRoute'), {b.arg}, unfilled')
    PROVE  CardState'
<1>1. Truth' = Truth /\ RepliesTo(squeakRoute)' = RepliesTo(squeakRoute')
  BY SameRow DEF RepliesTo, Stored
<1>2. \A b \in calls \ {c} : \E e \in calls' :
            /\ e.thunk = b.thunk /\ e.arg = b.arg /\ e.reply = b.reply
            /\ b.crossed => e.crossed
  BY DEF SqueakYields, Waits, Heir
<1>3. ASSUME NEW e \in calls', e.thunk \in SqueakThunks
      PROVE  CardTrue(e)'
  <2>1. CASE \E d, id : /\ SqueakOpens(d) /\ d.thunk \notin SqueakWriters
                        /\ e = Started(d, id, calls \ {c})
    <3>1. e.todo # <<>> /\ e.thunk \notin SqueakWriters
      BY <2>1 DEF Started, SqueakOpens
    <3> QED BY <3>1 DEF CardTrue, SqueakWriters, Rereads
  <2>2. CASE \E b \in calls \ {c} : Waits(e, b)
    <3>1. PICK b \in calls \ {c} : Waits(e, b)
      BY <2>2
    <3>2. e.thunk \in SqueakWriters => CardsNoFresher /\ RepliesNoFresher
      BY <3>1, SqueakUncrossed DEF Waits, Heir
    <3>3. CardTrue(b) /\ Heir(e, b)
      BY <1>3, <3>1 DEF CardState, Of, Waits, Heir
    <3> QED BY <3>1, <3>2, <3>3, CardWaits
  <2> QED BY <2>1, <2>2 DEF SqueakYields
<1>4. \A e \in Of(SqueakThunks)' : CardTrue(e)'
  BY <1>3 DEF Of
<1>5. ASSUME NEW l \in List \ doubt'
      PROVE  ListTrue(l)'
  <2>1. CASE Shows(squeakLists'[l], Truth, {})
    BY <1>1, <2>1 DEF ListTrue
  <2>2. ASSUME NEW b \in calls \ {c}, b.thunk \in CardStorers,
               b.crossed \/ b.reply = Error \/ Shows(squeakLists'[l], Truth, {b.arg})
        PROVE  ListTrue(l)'
    <3>1. PICK e \in calls' : /\ e.thunk = b.thunk /\ e.arg = b.arg /\ e.reply = b.reply
                              /\ b.crossed => e.crossed
      BY <1>2
    <3> QED BY <1>1, <2>2, <3>1 DEF ListTrue
  <2> QED BY <2>1, <2>2
<1>6. ASSUME ReplyFresh'
      PROVE  RepliesShown'
  <2>1. CASE Leads(squeakLists'["reply"], RepliesTo(squeakRoute'), {}, unfilled')
    BY <1>1, <2>1 DEF RepliesShown
  <2>2. ASSUME NEW b \in calls \ {c}, b.thunk \in SqueakWriters,
               \/ b.thunk = "setMakeSqueak" \/ b.crossed \/ b.reply = Error
               \/ /\ b.thunk = "setDeleteSqueak"
                  /\ Leads(squeakLists'["reply"], RepliesTo(squeakRoute'), {b.arg}, unfilled')
        PROVE  RepliesShown'
    <3>1. PICK e \in calls' : /\ e.thunk = b.thunk /\ e.arg = b.arg /\ e.reply = b.reply
                              /\ b.crossed => e.crossed
      BY <1>2
    <3> QED BY <1>1, <2>2, <3>1 DEF RepliesShown
  <2> QED BY <1>6, <2>1, <2>2
<1>7. MadeLater'
  BY DEF CardState, MadeLater
<1> QED BY <1>4, <1>5, <1>6, <1>7 DEF CardState

\* What the lists had is still there, for all that c does not bring about.
LEMMA ListsKept ==
    ASSUME CardState, NEW c \in calls, NEW l \in List, l \notin doubt,
           c.thunk \notin CardStorers
    PROVE  \/ Shows(squeakLists[l], Truth, {})
           \/ \E b \in calls \ {c} :
                /\ b.thunk \in CardStorers
                /\ b.crossed \/ b.reply = Error \/ Shows(squeakLists[l], Truth, {b.arg})
<1>1. ListTrue(l)
  BY DEF CardState
<1> QED BY <1>1 DEF ListTrue

LEMMA RepliesKept ==
    ASSUME CardState, NEW c \in calls, ReplyFresh, c.thunk \notin SqueakWriters
    PROVE  \/ Leads(squeakLists["reply"], RepliesTo(squeakRoute), {}, unfilled)
           \/ \E b \in calls \ {c} :
                /\ b.thunk \in SqueakWriters
                /\ \/ b.thunk = "setMakeSqueak" \/ b.crossed \/ b.reply = Error
                   \/ /\ b.thunk = "setDeleteSqueak"
                      /\ Leads(squeakLists["reply"], RepliesTo(squeakRoute), {b.arg}, unfilled)
<1>1. RepliesShown
  BY DEF CardState
<1> QED BY <1>1 DEF RepliesShown

\* A reply that the lists have nothing to do with.
LEMMA CardsEndSame ==
    ASSUME CrossInv, SqueakState, CardState, NEW c \in calls, SqueakYields(c),
           UNCHANGED <<row, made>>, CardsNoFresher, RepliesNoFresher,
           c.thunk \notin SqueakWriters \/ (c.thunk \notin CardStorers /\ ~ReplyFresh')
    PROVE  CardState'
<1>1. c.thunk \notin CardStorers
  BY CardStorersWrite
<1>2. ASSUME NEW l \in List \ doubt'
      PROVE  \/ Shows(squeakLists'[l], Truth, {})
             \/ \E b \in calls \ {c} :
                    /\ b.thunk \in CardStorers
                    /\ \/ b.crossed \/ b.reply = Error
                       \/ Shows(squeakLists'[l], Truth, {b.arg})
  <2>1. CASE squeakLists'[l] = <<>>
    BY <2>1, NothingShown
  <2>2. CASE l \notin doubt /\ squeakLists'[l] = squeakLists[l]
    BY <1>1, <2>2, ListsKept
  <2> QED BY <2>1, <2>2 DEF CardsNoFresher
<1>3. ASSUME ReplyFresh'
      PROVE  \/ Leads(squeakLists'["reply"], RepliesTo(squeakRoute'), {}, unfilled')
             \/ \E b \in calls \ {c} :
                    /\ b.thunk \in SqueakWriters
                    /\ \/ b.thunk = "setMakeSqueak" \/ b.crossed \/ b.reply = Error
                       \/ /\ b.thunk = "setDeleteSqueak"
                          /\ Leads(squeakLists'["reply"], RepliesTo(squeakRoute'), {b.arg}, unfilled')
  <2>1. /\ ReplyFresh /\ squeakRoute' = squeakRoute
        /\ squeakLists'["reply"] = squeakLists["reply"] /\ unfilled' = unfilled
    BY <1>3 DEF RepliesNoFresher
  <2> QED BY <1>3, <2>1, RepliesKept
<1> QED BY <1>2, <1>3, CardsEnd

\* Nothing is fresh any more.
LEMMA CardsEndStale ==
    ASSUME CrossInv, SqueakState, CardState, NEW c \in calls, SqueakYields(c),
           UNCHANGED <<row, made>>, List \subseteq doubt'
    PROVE  CardState'
<1>1. ~ReplyFresh'
  BY DEF ReplyFresh, List
<1> QED BY <1>1, CardsEnd DEF CardsNoFresher, RepliesNoFresher

\* A call that no other crossed stores what it was made for.
LEMMA ListsBut ==
    ASSUME CrossInv, SqueakState, CardState, NEW c \in calls, ~c.crossed, c.reply # Error,
           NEW l \in List, l \notin doubt
    PROVE  Shows(squeakLists[l], Truth, {c.arg})
<1>1. ListTrue(l)
  BY DEF CardState
<1>2. ASSUME NEW b \in calls, b.thunk \in CardStorers,
             b.crossed \/ b.reply = Error \/ Shows(squeakLists[l], Truth, {b.arg})
      PROVE  Shows(squeakLists[l], Truth, {c.arg})
  <2>1. b = c
    BY <1>2, SqueakUncrossed, CardStorersWrite
  <2> QED BY <1>2, <2>1
<1> QED BY <1>1, <1>2, ShowsFewer DEF ListTrue

LEMMA RepliesBut ==
    ASSUME CrossInv, SqueakState, CardState, NEW c \in calls, ~c.crossed, c.reply # Error,
           ReplyFresh, c.thunk # "setMakeSqueak"
    PROVE  \/ Leads(squeakLists["reply"], RepliesTo(squeakRoute), {}, unfilled)
           \/ /\ c.thunk = "setDeleteSqueak"
              /\ Leads(squeakLists["reply"], RepliesTo(squeakRoute), {c.arg}, unfilled)
<1>1. RepliesShown
  BY DEF CardState
<1>2. \A b \in calls : b.thunk \in SqueakWriters => b = c
  BY SqueakUncrossed
<1> QED BY <1>1, <1>2 DEF RepliesShown

\* Replies that go to the page, but to no list.
LEMMA FetchForPageKeepsCards ==
    ASSUME CallsInv, CrossInv, SqueakState, CardState, NEW c \in calls,
           fetchSqueakFulfilled(c) \/ fetchSqueakOffersFulfilled(c)
                \/ fetchPaymentSummaryForSqueakFulfilled(c),
           UNCHANGED squeakNode
    PROVE  CardState'
<1>1. /\ c.thunk \in {"fetchSqueak", "fetchSqueakOffers", "fetchPaymentSummaryForSqueak"}
      /\ Settle(c, {}) /\ UNCHANGED <<squeakLists, unfilled, squeakRoute, row, made>>
  BY DEF fetchSqueakFulfilled, fetchSqueakOffersFulfilled, fetchPaymentSummaryForSqueakFulfilled,
     Done, squeakPage, squeakNode
<1>2. SqueakYields(c) /\ c.thunk \notin SqueakWriters
  BY <1>1, SettleEnds, SqueakEndsYields DEF SqueakWriters, Rereads
<1>3. \A field \in List : /\ field \in doubt' <=> field \in doubt
                          /\ field \in foreign' <=> field \in foreign
  BY DEF fetchSqueakFulfilled, fetchSqueakOffersFulfilled, fetchPaymentSummaryForSqueakFulfilled,
     Arrives, Replaces, List
<1>4. "reply" \in List
  BY DEF List
<1>5. CardsNoFresher /\ RepliesNoFresher
  BY <1>1, <1>3, <1>4 DEF CardsNoFresher, RepliesNoFresher, ReplyFresh
<1> QED BY <1>1, <1>2, <1>5, CardsEndSame

\* The squeaks above the one of the page, and its replies.
LEMMA FetchThreadKeepsCards ==
    ASSUME CallsInv, CrossInv, SqueakState, SqueakTypes, CardState, NEW c \in calls,
           fetchAncestorSqueaksFulfilled(c) \/ fetchReplySqueaksFulfilled(c),
           UNCHANGED squeakNode
    PROVE  CardState'
<1>1. PICK l \in {"ancestor", "reply"} :
            /\ c.thunk = IF l = "reply" THEN "fetchReplySqueaks" ELSE "fetchAncestorSqueaks"
            /\ c.todo = <<>> /\ c.reply # Error /\ Settle(c, {})
            /\ squeakLists' = [squeakLists EXCEPT ![l] = c.reply] /\ Arrives(c, l)
            /\ unfilled' = IF l = "reply" THEN FALSE ELSE unfilled
            /\ UNCHANGED <<squeakRoute, row, made>>
  BY DEF fetchAncestorSqueaksFulfilled, fetchReplySqueaksFulfilled, Done, squeakPage, squeakNode
<1>2. /\ SqueakYields(c) /\ c.thunk \notin SqueakWriters /\ c.thunk \notin CardStorers
      /\ c.thunk \in CardReads /\ c.thunk \in SqueakThunks
  BY <1>1, SettleEnds, SqueakEndsYields DEF SqueakWriters, Rereads, CardReads, CardStorers, SqueakThunks
<1>3. /\ l \in List /\ squeakLists'[l] = c.reply
      /\ \A k \in List \ {l} : squeakLists'[k] = squeakLists[k] /\ (k \in doubt => k \in doubt')
      /\ l \notin doubt' => ~c.crossed
      /\ "reply" \in List
  BY <1>1 DEF SqueakTypes, SqueaksTypeOK, List, Arrives, Replaces
<1>4. ~c.crossed => /\ AllTrue(c.reply, Truth)
                    /\ l = "reply" => Leads(c.reply, RepliesTo(c.arg), {}, FALSE)
  BY <1>1, <1>2 DEF CardState, Of, CardTrue
<1>5. ReplyFresh' => IF l = "reply" THEN c.arg = squeakRoute' /\ ~c.crossed ELSE ReplyFresh
  BY <1>1, <1>3 DEF ReplyFresh, Arrives, Replaces
<1>6. c.crossed => CardsNoFresher /\ RepliesNoFresher
  BY <1>1, <1>3, <1>5 DEF CardsNoFresher, RepliesNoFresher
<1>7. ASSUME NEW k \in List \ doubt'
      PROVE  \/ Shows(squeakLists'[k], Truth, {})
             \/ \E b \in calls \ {c} :
                    /\ b.thunk \in CardStorers
                    /\ \/ b.crossed \/ b.reply = Error
                       \/ Shows(squeakLists'[k], Truth, {b.arg})
  <2>1. CASE k = l
    BY <1>3, <1>4, <2>1, TrueShows
  <2>2. CASE k # l
    BY <1>2, <1>3, <2>2, ListsKept
  <2> QED BY <2>1, <2>2
<1>8. ASSUME ReplyFresh'
      PROVE  \/ Leads(squeakLists'["reply"], RepliesTo(squeakRoute'), {}, unfilled')
             \/ \E b \in calls \ {c} :
                    /\ b.thunk \in SqueakWriters
                    /\ \/ b.thunk = "setMakeSqueak" \/ b.crossed \/ b.reply = Error
                       \/ /\ b.thunk = "setDeleteSqueak"
                          /\ Leads(squeakLists'["reply"], RepliesTo(squeakRoute'), {b.arg}, unfilled')
  <2>1. CASE l = "reply"
    <3>1. c.arg = squeakRoute' /\ ~c.crossed
      BY <1>5, <1>8, <2>1
    <3>2. squeakLists'["reply"] = c.reply /\ unfilled' = FALSE
      BY <1>1, <1>3, <2>1
    <3>3. Leads(c.reply, RepliesTo(squeakRoute'), {}, FALSE)
      BY <1>4, <2>1, <3>1
    <3> QED BY <3>2, <3>3
  <2>2. CASE l # "reply"
    <3>1. /\ ReplyFresh /\ squeakRoute' = squeakRoute
          /\ squeakLists'["reply"] = squeakLists["reply"] /\ unfilled' = unfilled
      BY <1>1, <1>3, <1>5, <1>8, <2>2
    <3> QED BY <1>2, <3>1, RepliesKept
  <2> QED BY <2>1, <2>2
<1> QED BY <1>1, <1>2, <1>6, <1>7, <1>8, CardsEnd

\* A list is begun, or continued.
LEMMA FetchListKeepsCards ==
    ASSUME CallsInv, CrossInv, SqueakState, SqueakTypes, CardState, NEW c \in calls,
           fetchListFulfilled(c), UNCHANGED squeakNode
    PROVE  CardState'
<1>1. PICK l \in {"timeline", "search", "profile"} :
            /\ c.thunk \in {"fetchTimeline", "fetchSearch", "fetchProfileSqueaks"}
            /\ c.todo = <<>> /\ c.reply # Error /\ Settle(c, {})
            /\ squeakLists' = [squeakLists EXCEPT ![l] = @ \o c.reply] /\ Updates(c, {l})
            /\ UNCHANGED <<unfilled, squeakRoute, foreign, row, made>>
  BY DEF fetchListFulfilled, FieldOf, Done, squeakPage, squeakNode
<1>2. /\ SqueakYields(c) /\ c.thunk \notin SqueakWriters /\ c.thunk \notin CardStorers
      /\ c.thunk \in CardReads /\ c.thunk \in SqueakThunks
  BY <1>1, SettleEnds, SqueakEndsYields DEF SqueakWriters, Rereads, CardReads, CardStorers, SqueakThunks
<1>3. /\ l \in List /\ squeakLists'[l] = squeakLists[l] \o c.reply
      /\ \A k \in List \ {l} : squeakLists'[k] = squeakLists[k]
      /\ doubt \subseteq doubt' /\ (c.crossed => l \in doubt')
      /\ "reply" \in List \ {l}
  BY <1>1 DEF SqueakTypes, SqueaksTypeOK, List, Updates
<1>4. RepliesNoFresher
  BY <1>1, <1>3 DEF RepliesNoFresher, ReplyFresh
<1>5. c.crossed => CardsNoFresher /\ RepliesNoFresher
  BY <1>3, <1>4 DEF CardsNoFresher
<1>6. ASSUME NEW k \in List \ doubt'
      PROVE  \/ Shows(squeakLists'[k], Truth, {})
             \/ \E b \in calls \ {c} :
                    /\ b.thunk \in CardStorers
                    /\ \/ b.crossed \/ b.reply = Error
                       \/ Shows(squeakLists'[k], Truth, {b.arg})
  <2>1. \/ Shows(squeakLists[k], Truth, {})
        \/ \E b \in calls \ {c} :
                /\ b.thunk \in CardStorers
                /\ b.crossed \/ b.reply = Error \/ Shows(squeakLists[k], Truth, {b.arg})
    BY <1>2, <1>3, ListsKept
  <2>2. CASE k = l
    <3>1. ~c.crossed
      BY <1>3, <2>2
    <3>2. \A b \in calls \ {c} : b.thunk \notin CardStorers
      BY <3>1, SqueakUncrossed, CardStorersWrite
    <3>3. squeakLists[l] \in Seq(Entry) /\ c.reply \in Seq(Entry)
      BY <1>1, <1>2, <1>3 DEF SqueakTypes, SqueaksTypeOK, SqueakTyped, Of
    <3>4. AllTrue(c.reply, Truth)
      BY <1>1, <1>2, <3>1 DEF CardState, Of, CardTrue
    <3>5. Shows(squeakLists[l] \o c.reply, Truth, {})
      BY <2>1, <2>2, <3>2, <3>3, <3>4, AppendedShows
    <3> QED BY <1>3, <2>2, <3>5
  <2>3. CASE k # l
    BY <1>3, <2>1, <2>3
  <2> QED BY <2>2, <2>3
<1>7. ASSUME ReplyFresh'
      PROVE  \/ Leads(squeakLists'["reply"], RepliesTo(squeakRoute'), {}, unfilled')
             \/ \E b \in calls \ {c} :
                    /\ b.thunk \in SqueakWriters
                    /\ \/ b.thunk = "setMakeSqueak" \/ b.crossed \/ b.reply = Error
                       \/ /\ b.thunk = "setDeleteSqueak"
                          /\ Leads(squeakLists'["reply"], RepliesTo(squeakRoute'), {b.arg}, unfilled')
  <2>1. /\ ReplyFresh /\ squeakRoute' = squeakRoute
        /\ squeakLists'["reply"] = squeakLists["reply"] /\ unfilled' = unfilled
    BY <1>4, <1>7 DEF RepliesNoFresher
  <2> QED BY <1>2, <2>1, RepliesKept
<1> QED BY <1>1, <1>2, <1>5, <1>6, <1>7, CardsEnd

\* The new state of a squeak is stored in all the lists.
LEMMA StoredKeepsCards ==
    ASSUME CrossInv, SqueakState, SqueakTypes, CardState, NEW c \in calls, SqueakYields(c),
           c.thunk \in {"setLikeSqueak", "setUnlikeSqueak", "setBuySqueak"},
           c.todo = <<>>, c.reply # Error, ~Throws(c), StoreSqueak(c.reply),
           doubt \subseteq doubt', c.crossed => SqueakFields \subseteq doubt',
           UNCHANGED <<unfilled, squeakRoute, foreign, row, made>>
    PROVE  CardState'
<1>1. /\ c.thunk \in Rereads /\ c.thunk \in SqueakThunks
      /\ c.thunk # "setMakeSqueak" /\ c.thunk # "setDeleteSqueak"
  BY DEF Rereads, SqueakThunks
<1>2. CASE c.crossed
  <2>1. List \subseteq doubt'
    BY <1>2 DEF SqueakFields
  <2> QED BY <2>1, CardsEndStale
<1>3. CASE ~c.crossed
  <2>1. /\ c.reply = EntryOf(c.arg) /\ c.arg \in Squeak /\ c.reply \in Entry \cup {None}
        /\ SqueaksTypeOK /\ InOrder(squeakLists["reply"]) /\ RowStored
    BY <1>1, <1>3 DEF SqueakState, SqueakCalls, SqueakTrue, SqueakTypes, SqueakTyped, Of
  <2>2. squeakLists' = [l \in List |-> updatedSqueakInArray(squeakLists[l], c.reply)]
    BY DEF StoreSqueak
  <2>3. \A l \in List : /\ Hashes(squeakLists'[l]) = Hashes(squeakLists[l])
                        /\ Len(squeakLists'[l]) = Len(squeakLists[l])
    BY <2>1, StoredTyped
  <2>4. ASSUME NEW l \in List \ doubt'
        PROVE  Shows(squeakLists'[l], Truth, {})
    <3>1. squeakLists'[l] = updatedSqueakInArray(squeakLists[l], c.reply)
      BY <2>2
    <3>2. Shows(squeakLists[l], Truth, {c.arg})
      BY <1>3, ListsBut
    <3>3. CASE c.reply = None
      <4>1. squeakLists[l] = <<>>
        BY <3>3 DEF Throws
      <4>2. squeakLists'[l] = <<>>
        BY <3>1, <4>1, UpdatedEmpty
      <4> QED BY <4>2, NothingShown
    <3>4. CASE c.reply # None
      <4>1. c.reply \in Entry /\ c.reply.hash = c.arg /\ c.reply = Truth[c.arg]
        BY <2>1, <3>4, EntryStored DEF Truth
      <4>2. squeakLists[l] \in Seq(Entry)
        BY <2>1 DEF SqueaksTypeOK
      <4>3. Shows(updatedSqueakInArray(squeakLists[l], c.reply), Truth, {})
        BY <3>2, <4>1, <4>2, UpdatedShows
      <4> QED BY <3>1, <4>3
    <3> QED BY <3>3, <3>4
  <2>5. ASSUME ReplyFresh'
        PROVE  Leads(squeakLists'["reply"], RepliesTo(squeakRoute'), {}, unfilled')
    <3>1. ReplyFresh /\ squeakRoute' = squeakRoute
      BY <2>5 DEF ReplyFresh
    <3>2. Leads(squeakLists["reply"], RepliesTo(squeakRoute), {}, unfilled)
      BY <1>1, <1>3, <3>1, RepliesBut
    <3> QED BY <2>3, <3>1, <3>2 DEF List, Leads
  <2> QED BY <1>3, <2>4, <2>5, CardsEnd
<1> QED BY <1>2, <1>3

LEMMA SetDeleteSqueakFulfilledKeepsCards ==
    ASSUME CallsInv, CrossInv, SqueakState, SqueakTypes, CardState, NEW c \in calls,
           setDeleteSqueakFulfilled(c), UNCHANGED squeakNode
    PROVE  CardState'
<1>1. /\ c.thunk = "setDeleteSqueak" /\ c.todo = <<>> /\ c.reply # Error /\ Settle(c, {})
      /\ c.thunk \in SqueakThunks
      /\ squeakLists' = [l \in List |-> removeSqueakInArray(squeakLists[l], c.arg)]
      /\ unfilled' = \/ unfilled
                     \/ /\ Len(squeakLists["reply"]) = ReplyLimit
                        /\ Len(squeakLists'["reply"]) < ReplyLimit
      /\ Updates(c, SqueakFields) /\ UNCHANGED <<squeakRoute, foreign, row, made>>
  BY DEF setDeleteSqueakFulfilled, Done, SqueakThunks, squeakPage, squeakNode
<1>2. SqueakYields(c)
  BY <1>1, SettleEnds, SqueakEndsYields
<1>3. CASE c.crossed
  <2>1. List \subseteq doubt'
    BY <1>1, <1>3 DEF Updates, SqueakFields
  <2> QED BY <1>1, <1>2, <2>1, CardsEndStale
<1>4. CASE ~c.crossed
  <2>1. doubt' = doubt /\ row[c.arg] = None
    BY <1>1, <1>4 DEF Updates, CardState, Of, CardTrue
  <2>2. ASSUME NEW l \in List
        PROVE  /\ squeakLists[l] \in Seq(Entry) /\ squeakLists'[l] \in Seq(Entry)
               /\ Hashes(squeakLists'[l]) = Hashes(squeakLists[l]) \ {c.arg}
               /\ \A truth : Shows(squeakLists[l], truth, {c.arg}) => Shows(squeakLists'[l], truth, {})
    <3>1. squeakLists'[l] = removeSqueakInArray(squeakLists[l], c.arg)
          /\ squeakLists[l] \in Seq(Entry)
      BY <1>1 DEF SqueakTypes, SqueaksTypeOK
    <3>2. PICK list, new : list = squeakLists[l] /\ new = removeSqueakInArray(list, c.arg)
      OBVIOUS
    <3>3. list \in Seq(Entry)
      BY <3>1, <3>2
    <3>4. /\ new \in Seq(Entry) /\ Hashes(new) = Hashes(list) \ {c.arg}
          /\ \A truth : Shows(list, truth, {c.arg}) => Shows(new, truth, {})
      BY <3>2, <3>3, RemovedKeeps
    <3> QED BY <3>1, <3>2, <3>4
  <2>3. ASSUME NEW l \in List \ doubt'
        PROVE  Shows(squeakLists'[l], Truth, {})
    <3>1. Shows(squeakLists[l], Truth, {c.arg})
      BY <1>1, <1>4, <2>1, ListsBut
    <3> QED BY <2>2, <3>1
  <2>4. ASSUME ReplyFresh'
        PROVE  Leads(squeakLists'["reply"], RepliesTo(squeakRoute'), {}, unfilled')
    <3>1. ReplyFresh /\ squeakRoute' = squeakRoute
      BY <1>1, <2>1, <2>4 DEF ReplyFresh
    <3> DEFINE list == squeakLists["reply"]
               new == squeakLists'["reply"]
    <3>2. Leads(list, RepliesTo(squeakRoute), {c.arg}, unfilled)
      BY <1>1, <1>4, <3>1, RepliesBut, NothingButLeads
    <3>3. c.arg \notin RepliesTo(squeakRoute)
      BY <2>1 DEF RepliesTo, Stored
    <3>4. InOrder(list) /\ list \in Seq(Entry) /\ new \in Seq(Entry) /\ Hashes(new) = Hashes(list) \ {c.arg}
      BY <2>2 DEF SqueakTypes, List
    <3>5. /\ unfilled => unfilled'
          /\ Len(list) = ReplyLimit /\ Len(new) < ReplyLimit => unfilled'
      BY <1>1
    <3> HIDE DEF list, new
    <3>6. PICK after, cut : after = new /\ cut = unfilled'
      OBVIOUS
    <3>7. Leads(after, RepliesTo(squeakRoute), {}, cut)
      <4>1. Len(list) \in Nat /\ Len(after) \in Nat /\ Hashes(after) = Hashes(list) \ {c.arg}
            /\ (unfilled => cut) /\ (Len(list) = ReplyLimit /\ Len(after) < ReplyLimit => cut)
        BY <3>4, <3>5, <3>6
      <4> QED BY <3>2, <3>3, <3>4, <4>1, RemovedLeads
    <3> QED BY <3>1, <3>6, <3>7 DEF new
  <2> QED BY <1>1, <1>2, <1>4, <2>3, <2>4, CardsEnd
<1> QED BY <1>3, <1>4

LEMMA SetDownloadSqueakFulfilledKeepsCards ==
    ASSUME CallsInv, CrossInv, SqueakState, CardState, NEW c \in calls,
           setDownloadSqueakFulfilled(c), UNCHANGED squeakNode
    PROVE  CardState'
<1>1. /\ c.thunk = "setDownloadSqueak" /\ c.todo = <<>> /\ c.reply # Error /\ Settle(c, {})
      /\ Updates(c, SqueakFields) /\ UNCHANGED <<squeakLists, unfilled, squeakRoute, row, made>>
      /\ "reply" \in foreign' <=> "reply" \in foreign
  BY DEF setDownloadSqueakFulfilled, Done, squeakPage, squeakNode
<1>2. SqueakYields(c)
  BY <1>1, SettleEnds, SqueakEndsYields
<1>3. CASE c.crossed
  <2>1. List \subseteq doubt'
    BY <1>1, <1>3 DEF Updates, SqueakFields
  <2> QED BY <1>1, <1>2, <2>1, CardsEndStale
<1>4. CASE ~c.crossed
  <2>1. doubt' = doubt
    BY <1>1, <1>4 DEF Updates
  <2>2. c.thunk \notin CardStorers
    BY <1>1, CardStorersWrite
  <2>3. ASSUME NEW l \in List \ doubt'
        PROVE  \/ Shows(squeakLists'[l], Truth, {})
               \/ \E b \in calls \ {c} :
                    /\ b.thunk \in CardStorers
                    /\ \/ b.crossed \/ b.reply = Error
                       \/ Shows(squeakLists'[l], Truth, {b.arg})
    BY <1>1, <2>1, <2>2, ListsKept
  <2>4. ASSUME ReplyFresh'
        PROVE  Leads(squeakLists'["reply"], RepliesTo(squeakRoute'), {}, unfilled')
    <3>1. ReplyFresh
      BY <1>1, <2>1, <2>4 DEF ReplyFresh
    <3> QED BY <1>1, <1>4, <3>1, RepliesBut
  <2> QED BY <1>1, <1>2, <1>4, <2>3, <2>4, CardsEnd
<1> QED BY <1>3, <1>4

LEMMA SetMakeSqueakFulfilledKeepsCards ==
    ASSUME CallsInv, CrossInv, SqueakState, CardState, NEW c \in calls, setMakeSqueakFulfilled(c),
           UNCHANGED squeakNode
    PROVE  CardState'
<1>1. /\ c.thunk = "setMakeSqueak" /\ Settle(c, SqueakMounted(c.reply)) /\ foreign' = PageFields
      /\ UNCHANGED <<squeakLists, unfilled, doubt, row, made>>
  BY DEF setMakeSqueakFulfilled, Done, ShowSqueak, squeakNode, squeakFields
<1>2. \A d \in SqueakMounted(c.reply) : SqueakOpens(d) /\ d.thunk \notin SqueakWriters
  BY SqueakReadsOpen DEF SqueakMounted
<1>3. SqueakYields(c)
  BY <1>1, <1>2, SqueakBeginYields DEF Settle
<1>4. ~ReplyFresh' /\ CardsNoFresher /\ RepliesNoFresher
  BY <1>1 DEF ReplyFresh, PageFields, CardsNoFresher, RepliesNoFresher
<1> QED BY <1>1, <1>3, <1>4, CardStorersWrite, CardsEndSame

LEMMA CardReplyKeeps ==
    ASSUME CallsInv, CrossInv, SqueakState, SqueakTypes, CardState, SqueakReply
    PROVE  CardState'
<1>1. PICK c \in calls :
        \/ fetchSqueakFulfilled(c) \/ fetchAncestorSqueaksFulfilled(c)
        \/ fetchReplySqueaksFulfilled(c) \/ fetchListFulfilled(c)
        \/ fetchSqueakOffersFulfilled(c) \/ fetchPaymentSummaryForSqueakFulfilled(c)
        \/ setLikeSqueakFulfilled(c) \/ setUnlikeSqueakFulfilled(c)
        \/ setDeleteSqueakFulfilled(c) \/ setMakeSqueakFulfilled(c)
        \/ setBuySqueakFulfilled(c) \/ setDownloadSqueakFulfilled(c)
        \/ SqueakReducerThrows(c) \/ SqueakThunkRejected(c)
  BY DEF SqueakReply
<1>2. UNCHANGED squeakNode /\ UNCHANGED <<row, made>>
  BY DEF SqueakReply, squeakNode
<1>3. CASE setLikeSqueakFulfilled(c) \/ setUnlikeSqueakFulfilled(c)
  <2>1. /\ c.thunk \in {"setLikeSqueak", "setUnlikeSqueak"} /\ c.todo = <<>> /\ c.reply # Error
        /\ ~Throws(c) /\ StoreSqueak(c.reply) /\ Settle(c, {})
        /\ doubt \subseteq doubt' /\ (c.crossed => SqueakFields \subseteq doubt')
        /\ UNCHANGED <<unfilled, squeakRoute, foreign>>
    BY <1>3 DEF setLikeSqueakFulfilled, setUnlikeSqueakFulfilled, Done, Updates, squeakPage
  <2>2. SqueakYields(c)
    BY <2>1, SettleEnds, SqueakEndsYields
  <2> QED BY <1>2, <2>1, <2>2, StoredKeepsCards
<1>4. CASE setBuySqueakFulfilled(c)
  <2>1. /\ c.thunk = "setBuySqueak" /\ c.todo = <<>> /\ c.reply # Error
        /\ ~Throws(c) /\ StoreSqueak(c.reply)
        /\ doubt \subseteq doubt' /\ (c.crossed => SqueakFields \subseteq doubt')
        /\ UNCHANGED <<unfilled, squeakRoute, foreign>>
    BY <1>4 DEF setBuySqueakFulfilled, Done, squeakPage
  <2>2. PICK D : D = {fetchPaymentSummaryForSqueak(c.arg)}
    OBVIOUS
  <2>3. \A b \in D : SqueakOpens(b) /\ b.thunk \notin SqueakWriters
    BY <2>2, SqueakReadsOpen
  <2>4. calls' = Begin(D, c.id, calls \ {c})
    BY <1>4, <2>2 DEF setBuySqueakFulfilled, Settle
  <2>5. SqueakYields(c)
    BY <2>3, <2>4, SqueakBeginYields
  <2> QED BY <1>2, <2>1, <2>5, StoredKeepsCards
<1>5. CASE SqueakReducerThrows(c)
  <2>1. Ends(c) /\ List \subseteq doubt'
    BY <1>5 DEF SqueakReducerThrows, Crash, Ends, Waits, Heir, SqueakFields
  <2> QED BY <1>2, <2>1, SqueakEndsYields, CardsEndStale
<1>6. CASE SqueakThunkRejected(c)
  <2>1. /\ Rejected(c, RejectedIsHandled(c), IF c.writes THEN SqueakFields ELSE {FieldOf(c.thunk)})
        /\ UNCHANGED <<squeakLists, unfilled, squeakRoute, foreign>> /\ c.thunk \in SqueakThunks
    BY <1>6 DEF SqueakThunkRejected, squeakFields, squeakPage
  <2>2. SqueakYields(c)
    BY <2>1, RejectedEnds, SqueakEndsYields
  <2>3. doubt' = doubt \cup (IF c.writes THEN SqueakFields ELSE {FieldOf(c.thunk)})
    BY <2>1 DEF Rejected
  <2>4. CASE c.writes
    BY <1>2, <2>2, <2>3, <2>4, CardsEndStale DEF SqueakFields
  <2>5. CASE ~c.writes
    <3>1. c.thunk \notin SqueakWriters
      BY <2>1, <2>5 DEF SqueakState, SqueakCalls, Of, SqueakRequests
    <3>2. CardsNoFresher /\ RepliesNoFresher
      BY <2>1, <2>3 DEF CardsNoFresher, RepliesNoFresher, ReplyFresh
    <3> QED BY <1>2, <2>2, <3>1, <3>2, CardsEndSame
  <2> QED BY <2>4, <2>5
<1> QED BY <1>1, <1>2, <1>3, <1>4, <1>5, <1>6, FetchForPageKeepsCards, FetchThreadKeepsCards,
        FetchListKeepsCards, SetDeleteSqueakFulfilledKeepsCards,
        SetDownloadSqueakFulfilledKeepsCards, SetMakeSqueakFulfilledKeepsCards

\* Cards are only shown where squeaks are followed.
CardView == Follows(SqueakThunks) \/ \A l \in List : squeakLists[l] = <<>>

LEMMA CardViewNext == CardView /\ [Next]_vars => CardView'
<1> SUFFICES ASSUME CardView, [Next]_vars
             PROVE  CardView'
  OBVIOUS
<1>1. view' = view
  BY ViewStays
<1>2. UNCHANGED squeakVars \/ Follows(SqueakThunks)
  BY DEF Next, Squeaks, Lost, vars, butProfiles, butPeers, butPayments, butSettings
<1> QED BY <1>1, <1>2 DEF CardView, Follows, squeakVars, squeakFields

LEMMA LogoutFarFromCards ==
    ASSUME ViewInv, SqueakViewInv, CardView, SqueakTypes, CardState,
           NEW c \in calls, setLogoutFulfilled(c), UNCHANGED squeakVars
    PROVE  SqueakTypes' /\ CardState'
<1>1. "setLogout" \in view /\ calls' = {}
  BY DEF ViewInv, setLogoutFulfilled, Done
<1>2. view \subseteq SettingsThunks
  BY <1>1, LogoutAssumption DEF ViewInv
<1>3. SettingsThunks \cap SqueakThunks = {}
  BY DEF SettingsThunks, SqueakThunks
<1>4. foreign' = PageFields /\ UNCHANGED <<row, made, squeakLists>>
      /\ \A l \in List : squeakLists[l] = <<>>
  BY <1>2, <1>3 DEF SqueakViewInv, CardView, Follows, squeakVars, squeakNode, squeakFields
<1>5. SqueakTypes'
  BY <1>1, TypesElsewhere
<1>6. ASSUME NEW l \in List
      PROVE  ListTrue(l)'
  <2>1. squeakLists'[l] = <<>>
    BY <1>4
  <2>2. PICK truth : truth = Truth'
    OBVIOUS
  <2>3. Shows(squeakLists'[l], truth, {})
    BY <2>1, NothingShown
  <2> QED BY <2>2, <2>3 DEF ListTrue
<1>7. ~ReplyFresh' /\ MadeLater' /\ Of(SqueakThunks)' = {}
  BY <1>1, <1>4 DEF ReplyFresh, PageFields, CardState, MadeLater, Of
<1>8. CardState'
  BY <1>6, <1>7 DEF CardState
<1> QED BY <1>5, <1>8

LEMMA CardVarsElsewhere ==
    ASSUME CrossInv, SqueakState, SqueakTypes, CardState, Elsewhere(SqueakThunks, SqueakFields),
           UNCHANGED squeakVars
    PROVE  SqueakTypes' /\ CardState'
<1>1. SqueakTypes'
  BY TypesElsewhere DEF Elsewhere
<1> QED BY <1>1, CardsElsewhere

\* A step of another slice.
LEMMA OthersApartFromCards ==
    ASSUME CallsInv, CrossInv, ViewInv, SqueakViewInv, CardView, SqueakState, SqueakTypes, CardState,
           Profiles \/ Peers \/ Payments \/ Settings, UNCHANGED squeakVars
    PROVE  SqueakTypes' /\ CardState'
<1>1. CASE Profiles
  <2>1. SliceStep(ProfileThunks) /\ doubt \ ProfileFields \subseteq doubt'
    BY <1>1, ProfilesSliceStep, ProfilesDoubt DEF Profiles
  <2>2. SqueakThunks \cap ProfileThunks = {} /\ SqueakFields \cap ProfileFields = {}
    BY DEF ProfileThunks, SqueakThunks, ProfileFields, ProfileLists, SqueakFields, PageFields, List
  <2> QED BY <2>1, <2>2, SliceElsewhere, CardVarsElsewhere
<1>2. CASE Peers
  <2>1. SliceStep(PeerThunks) /\ doubt \ PeerFields \subseteq doubt'
    BY <1>2, PeersSliceStep, PeersDoubt DEF Peers
  <2>2. SqueakThunks \cap PeerThunks = {} /\ SqueakFields \cap PeerFields = {}
    BY DEF PeerThunks, SqueakThunks, PeerFields, SqueakFields, PageFields, List
  <2> QED BY <2>1, <2>2, SliceElsewhere, CardVarsElsewhere
<1>3. CASE Payments
  <2>1. SliceStep(PaymentThunks) /\ doubt \ {} \subseteq doubt'
    BY <1>3, PaymentsSliceStep, PaymentsDoubt DEF Payments
  <2>2. SqueakThunks \cap PaymentThunks = {} /\ SqueakFields \cap {} = {}
    BY DEF SqueakThunks, PaymentThunks
  <2> QED BY <2>1, <2>2, SliceElsewhere, CardVarsElsewhere
<1>4. CASE Settings /\ \A c \in calls : ~setLogoutFulfilled(c)
  <2>1. /\ SliceStep(SettingsThunks)
        /\ doubt \ {"sellPriceInfo", "twitterAccounts"} \subseteq doubt'
    BY <1>4, SettingsStays DEF Settings
  <2>2. /\ SqueakThunks \cap SettingsThunks = {}
        /\ SqueakFields \cap {"sellPriceInfo", "twitterAccounts"} = {}
    BY DEF SqueakThunks, SettingsThunks, SqueakFields, PageFields, List
  <2> QED BY <2>1, <2>2, SliceElsewhere, CardVarsElsewhere
<1>5. CASE \E c \in calls : setLogoutFulfilled(c)
  BY <1>5, LogoutFarFromCards
<1> QED BY <1>1, <1>2, <1>3, <1>4, <1>5

\* What the theorem about the cards rests on.
QuietCardsInv == QuietSqueakPageInv /\ CardView /\ SqueakTypes /\ CardState

LEMMA QuietCardsInvInit == Init => QuietCardsInv
<1> SUFFICES ASSUME Init
             PROVE  QuietCardsInv
  OBVIOUS
<1>1. QuietSqueakPageInv
  BY QuietSqueakPageInvInit
<1>2. SqueaksInit /\ calls = {}
  BY DEF Init, ThunksInit
<1>3. /\ squeakLists = [l \in List |-> <<>>] /\ foreign = PageFields
      /\ \A s \in Stored : s \notin Made
  BY <1>2 DEF SqueaksInit
<1>4. Of(SqueakThunks) = {} /\ \A l \in List : squeakLists[l] = <<>>
  BY <1>2, <1>3 DEF Of
<1>5. SqueakTypes
  <2>1. squeakLists \in [List -> Seq(Entry)] /\ InOrder(squeakLists["reply"])
    BY <1>3, NothingShown DEF List
  <2> QED BY <1>2, <1>4, <2>1 DEF SqueakTypes, SqueaksTypeOK, SqueaksInit
<1>6. CardState
  <2>1. MadeLater
    BY <1>3, SqueaksAssumption DEF MadeLater, Stored
  <2>2. \A l \in List : ListTrue(l)
    BY <1>4, NothingShown DEF ListTrue
  <2>3. ~ReplyFresh
    BY <1>3 DEF ReplyFresh, PageFields
  <2> QED BY <1>4, <2>1, <2>2, <2>3 DEF CardState
<1> QED BY <1>1, <1>4, <1>5, <1>6 DEF QuietCardsInv, CardView

LEMMA QuietCardsInvNext == QuietCardsInv /\ [Next]_vars => QuietCardsInv'
<1> SUFFICES ASSUME QuietCardsInv, [Next]_vars
             PROVE  QuietCardsInv'
  OBVIOUS
<1>1. /\ CallsInv /\ CrossInv /\ ViewInv /\ SqueakViewInv /\ SqueakState
      /\ CardView /\ SqueakTypes /\ CardState
  BY DEF QuietCardsInv, QuietSqueakPageInv
<1>2. QuietSqueakPageInv' /\ CardView'
  BY QuietSqueakPageInvNext, CardViewNext DEF QuietCardsInv
<1>3. CASE Squeaks
  <2>1. CASE SqueakUser
    BY <1>1, <1>2, <2>1, TypesUserKeeps, CardUserKeeps DEF QuietCardsInv
  <2>2. CASE SqueakServer
    BY <1>1, <1>2, <2>2, TypesServerKeeps, CardServerKeeps DEF QuietCardsInv
  <2>3. CASE SqueakReply
    BY <1>1, <1>2, <2>3, TypesReplyKeeps, CardReplyKeeps DEF QuietCardsInv
  <2> QED BY <1>3, <2>1, <2>2, <2>3 DEF Squeaks
<1>4. CASE (Profiles \/ Peers \/ Payments \/ Settings) /\ UNCHANGED squeakVars
  BY <1>1, <1>2, <1>4, OthersApartFromCards DEF QuietCardsInv
<1>5. ASSUME Elsewhere(SqueakThunks, SqueakFields), UNCHANGED squeakVars
      PROVE  QuietCardsInv'
  BY <1>1, <1>2, <1>5, CardVarsElsewhere DEF QuietCardsInv
<1>6. CASE Lost
  <2>1. Elsewhere(SqueakThunks, SqueakFields)
    BY <1>1, <1>6, LostElsewhere DEF Lost
  <2> QED BY <1>5, <1>6, <2>1 DEF Lost
<1>7. CASE UNCHANGED vars
  <2>1. Elsewhere(SqueakThunks, SqueakFields)
    BY <1>7, StutterElsewhere DEF vars, thunkVars
  <2> QED BY <1>5, <1>7, <2>1 DEF vars
<1> QED BY <1>3, <1>4, <1>6, <1>7 DEF Next, butProfiles, butPeers, butPayments, butSettings

\* A squeak that a list shows once is at one place in it.
LEMMA OnePlace ==
    ASSUME NEW l, NEW s, ShownOnce(l, s), NEW i \in 1..Len(squeakLists[l]),
           NEW j \in 1..Len(squeakLists[l]), squeakLists[l][i].hash = s,
           squeakLists[l][j].hash = s, squeakLists[l] \in Seq(Entry)
    PROVE  i = j
<1> DEFINE at == {k \in 1..Len(squeakLists[l]) : squeakLists[l][k].hash = s}
<1>1. IsFiniteSet(at) /\ Cardinality(at) = 1
  <2>1. PICK n \in Nat : n = Len(squeakLists[l])
    OBVIOUS
  <2>2. IsFiniteSet(1..n)
    BY <2>1, FS_Interval
  <2>3. IsFiniteSet(1..Len(squeakLists[l])) /\ at \subseteq 1..Len(squeakLists[l])
    BY <2>1, <2>2
  <2> HIDE DEF at
  <2>4. IsFiniteSet(at)
    BY <2>3, FS_Subset
  <2>5. Cardinality(at) = 1
    BY DEF ShownOnce, at
  <2> QED BY <2>4, <2>5
<1>2. i \in at /\ j \in at
  OBVIOUS
<1> HIDE DEF at
<1>3. PICK x : at = {x}
  BY <1>1, FS_Singleton
<1> QED BY <1>2, <1>3

LEMMA LeadsIsPrefix ==
    ASSUME NEW list \in Seq(Entry), NEW s, NEW cut, Leads(list, RepliesTo(s), {}, cut), InOrder(list),
           \A i \in 1..Len(list) : list[i] = EntryOf(list[i].hash)
    PROVE  IsPrefix(list, Replies(s)) /\ (cut \/ Len(list) = Len(Replies(s)))
<1> DEFINE R == RepliesTo(s)
           first == FirstOf(R, Newer, ReplyLimit)
           hashes == [i \in 1..Len(list) |-> list[i].hash]
           newest == Replies(s)
<1>1. IsFiniteSet(R) /\ Orders(Newer, R) /\ ReplyLimit \in Nat
  BY RepliesOrdered
<1>2. newest = [i \in DOMAIN first |-> EntryOf(first[i])]
  BY DEF Replies, RepliesTo
<1> HIDE DEF R, first, newest
<1>3. Len(list) \in Nat /\ \A i \in 1..Len(list) : list[i].hash \in Hashes(list)
  BY DEF Hashes
<1>4. Hashes(list) \subseteq R
  BY DEF Leads, R
<1>5. /\ hashes \in Seq(R) /\ Len(hashes) = Len(list)
      /\ \A i \in 1..Len(list) : hashes[i] = list[i].hash
  BY <1>3, <1>4
<1> HIDE DEF hashes
<1>6. /\ Len(hashes) <= ReplyLimit
      /\ \A i, j \in 1..Len(hashes) : i < j => <<hashes[i], hashes[j]>> \in Newer
  BY <1>5 DEF InOrder
<1>7. ASSUME NEW x \in R, x \notin Hashes(list)
      PROVE  /\ cut \/ Len(list) >= ReplyLimit
             /\ \A h \in Hashes(list) : <<h, x>> \in Newer
  BY <1>7 DEF Leads, R
<1>8. \A x \in Hashes(list) : \E j \in 1..Len(hashes) : hashes[j] = x
  BY <1>5 DEF Hashes
<1>9. ASSUME NEW x \in R, NEW i \in 1..Len(hashes), <<x, hashes[i]>> \in Newer
      PROVE  \E j \in 1..Len(hashes) : hashes[j] = x
  <2>1. CASE x \in Hashes(list)
    BY <1>8, <2>1
  <2>2. CASE x \notin Hashes(list)
    <3>1. hashes[i] \in R /\ <<hashes[i], x>> \in Newer
      BY <1>3, <1>4, <1>5, <1>7, <2>2
    <3>2. <<x, x>> \in Newer /\ <<x, x>> \notin Newer
      BY <1>1, <1>9, <3>1 DEF Orders
    <3> QED BY <3>2
  <2> QED BY <2>1, <2>2
<1>10. /\ Len(hashes) <= Len(first)
       /\ \A i \in 1..Len(hashes) : hashes[i] = first[i]
       /\ ReplyLimit <= Len(hashes) \/ (\A x \in R : \E i \in 1..Len(hashes) : hashes[i] = x)
            => Len(hashes) = Len(first)
  BY <1>1, <1>5, <1>6, <1>9, BeginningOfFirst DEF first
<1>11. first \in Seq(R)
  BY <1>1, FirstOfOrdered DEF first
<1>12. DOMAIN first = 1..Len(first) /\ Len(first) \in Nat
  BY <1>11
<1>13. DOMAIN newest = 1..Len(first) /\ Len(newest) = Len(first)
       /\ \A i \in 1..Len(first) : newest[i] = EntryOf(first[i])
  BY <1>2, <1>12
<1>14. Len(list) <= Len(newest) /\ \A i \in 1..Len(list) : list[i] = newest[i]
  BY <1>3, <1>5, <1>10, <1>12, <1>13
<1>15. SubSeq(list, 1, Len(list)) = SubSeq(newest, 1, Len(list))
  BY <1>3, <1>14
<1>16. cut \/ Len(list) = Len(newest)
  <2>1. CASE \A x \in R : x \in Hashes(list)
    BY <1>5, <1>8, <1>10, <1>13, <2>1
  <2>2. CASE Len(list) >= ReplyLimit
    BY <1>1, <1>3, <1>5, <1>10, <1>13, <2>2
  <2> QED BY <1>7, <2>1, <2>2
<1> QED BY <1>14, <1>15, <1>16 DEF IsPrefix, newest

LEMMA QuietCardsInvQuiet == QuietCardsInv => QuietSqueaksTrue
<1> SUFFICES ASSUME QuietCardsInv, calls = {}
             PROVE  /\ \A l \in List \ doubt : \A e \in ToSet(squeakLists[l]) :
                            ShownOnce(l, e.hash) => e = EntryOf(e.hash)
                    /\ squeakRoute \in Squeak /\ "reply" \notin foreign \cup doubt =>
                            LET shown == squeakLists["reply"]
                                newest == Replies(squeakRoute)
                            IN  IsPrefix(shown, newest) /\ (unfilled \/ Len(shown) = Len(newest))
  BY DEF QuietSqueaksTrue
<1>1. SqueakTypes /\ CardState /\ SqueaksTypeOK
  BY DEF QuietCardsInv, SqueakTypes
<1>2. ASSUME NEW l \in List
      PROVE  /\ squeakLists[l] \in Seq(Entry)
             /\ \A e : e \in ToSet(squeakLists[l]) <=>
                            \E i \in 1..Len(squeakLists[l]) : squeakLists[l][i] = e
             /\ \A i \in 1..Len(squeakLists[l]) : /\ squeakLists[l][i].hash \in Squeak
                    /\ Truth[squeakLists[l][i].hash] = EntryOf(squeakLists[l][i].hash)
  <2>1. squeakLists[l] \in Seq(Entry)
    BY <1>1 DEF SqueaksTypeOK
  <2>2. DOMAIN squeakLists[l] = 1..Len(squeakLists[l])
    BY <2>1
  <2>3. \A i \in 1..Len(squeakLists[l]) : squeakLists[l][i] \in Entry
    BY <2>1
  <2>4. \A i \in 1..Len(squeakLists[l]) : squeakLists[l][i].hash \in Squeak
    BY <2>3 DEF Entry
  <2> QED BY <2>1, <2>2, <2>4 DEF ToSet, Truth
<1>3. ASSUME NEW l \in List \ doubt
      PROVE  Shows(squeakLists[l], Truth, {})
  BY <1>1 DEF CardState, ListTrue
<1>4. ASSUME NEW l \in List \ doubt, NEW e \in ToSet(squeakLists[l]), ShownOnce(l, e.hash)
      PROVE  e = EntryOf(e.hash)
  <2>1. PICK i \in 1..Len(squeakLists[l]) : squeakLists[l][i] = e
    BY <1>2
  <2>2. \A j \in 1..Len(squeakLists[l]) : squeakLists[l][j].hash = squeakLists[l][i].hash => j = i
    BY <1>2, <1>4, <2>1, OnePlace
  <2> QED BY <1>2, <1>3, <2>1, <2>2 DEF Shows
<1>5. ASSUME squeakRoute \in Squeak, "reply" \notin foreign \cup doubt
      PROVE  LET shown == squeakLists["reply"]
                 newest == Replies(squeakRoute)
             IN  IsPrefix(shown, newest) /\ (unfilled \/ Len(shown) = Len(newest))
  <2> DEFINE list == squeakLists["reply"]
  <2>1. "reply" \in List \ doubt
    BY <1>5 DEF List
  <2>2. Leads(list, RepliesTo(squeakRoute), {}, unfilled)
    BY <1>1, <1>5 DEF CardState, ReplyFresh, RepliesShown
  <2>3. InOrder(list) /\ Shows(list, Truth, {}) /\ list \in Seq(Entry)
    BY <1>1, <1>2, <1>3, <2>1 DEF SqueakTypes
  <2>4. \A i \in 1..Len(list) : list[i].hash \in Squeak /\ Truth[list[i].hash] = EntryOf(list[i].hash)
    BY <1>2, <2>1
  <2> HIDE DEF list
  <2>5. ASSUME NEW i \in 1..Len(list)
        PROVE  list[i] = EntryOf(list[i].hash)
    <3>1. ASSUME NEW j \in 1..Len(list), list[j].hash = list[i].hash
          PROVE  j = i
      <4>1. <<list[i].hash, list[i].hash>> \notin Newer
        BY <2>4, SqueaksAssumption DEF Orders
      <4>2. ~(i < j) /\ ~(j < i)
        BY <2>3, <3>1, <4>1 DEF InOrder
      <4> QED BY <2>3, <4>2
    <3> QED BY <2>3, <2>4, <3>1 DEF Shows
  <2>6. IsPrefix(list, Replies(squeakRoute)) /\ (unfilled \/ Len(list) = Len(Replies(squeakRoute)))
    BY <2>2, <2>3, <2>5, LeadsIsPrefix
  <2> QED BY <2>6 DEF list
<1> QED BY <1>4, <1>5

\* Whatever is liked, bought, downloaded, deleted and made meanwhile, on cards and
\* on pages, once nothing is under way a card that its list shows once is as the
\* node has the squeak, and the page of a squeak lists its newest replies in their
\* order, as many as it asks for, or fewer if there are no more or if one was deleted
\* from a list that was full; unless the list is marked as stale: by overlapping or
\* failed calls, by a purchase, or by an answer for another page
\* (updatedSqueakInArray, removeSqueakInArray and the fetched lists of the slice of
\* squeaks; get_thread_reply_squeak_entries and the limit its caller gives).
THEOREM QuietCardsShowTheNode == Spec => []QuietSqueaksTrue
BY QuietCardsInvInit, QuietCardsInvNext, QuietCardsInvQuiet, PTL DEF Spec
-----------------------------------------------------------------------------
(* What the calls and the slices hold.                                     *)

\* What a thunk of the profiles, peers, payments and settings is made for.
Fits(d) ==
    /\ d.thunk = "fetchPaymentSummaryForPubkey" => d.arg \in PubKey
    /\ d.thunk = "getProfilePrivateKey" => d.arg \in [page : PubKey, sure : BOOLEAN]
    /\ d.thunk = "fetchPaymentSummary" => Asking(d.todo, "getPaymentSummary", None)
    /\ d.thunk \in SetsPrice /\ At(d, "updateSellPrice") => Argument(d) \in Price

\* The reply that it ends with.
Suits(thunk, reply) ==
    /\ thunk \in ChangesProfile \cup {"fetchProfile"} => reply \in Profile \cup {None}
    /\ thunk \in {"fetchSigningProfiles", "fetchContactProfiles"} => reply \subseteq Profile
    /\ thunk \in Creates \cup {"getProfilePrivateKey", "fetchPaymentSummaryForPubkey"} =>
            reply \in PubKey
    /\ thunk = "fetchPeer" => reply \in PeerEntry \cup {None}
    /\ thunk \in PeerThunks \ {"fetchPeer"} => reply \subseteq PeerEntry
    /\ thunk = "fetchPaymentSummary" => reply \in [Kinds -> Nat]
    /\ thunk \in SetsPrice \cup {"fetchSellPrice"} => reply \in Price \cup {DefaultPrice}
    /\ thunk \in SetsAccounts \cup {"fetchTwitterAccounts"} => reply \subseteq Account
    /\ thunk = "fetchNetwork" => reply = "network"
    /\ thunk = "fetchExternalAddress" => reply = "externalAddress"

Typed(c) ==
    /\ Fits(c) /\ c.writes \in BOOLEAN /\ c.crossed \in BOOLEAN /\ c.id \in 1..events
    /\ c.todo = <<>> /\ c.reply # Error => Suits(c.thunk, c.reply)

\* Thunks whose `then' dispatches others, with the number of the act that they were
\* dispatched with; no other call has it.
Spawners == Creates \cup {"setMakeSqueak", "setBuySqueak"}

Apart(c, d) == c.id = d.id => c.thunk # d.thunk /\ c.thunk \notin Spawners

CallTypes ==
    /\ events \in Nat
    /\ \A c \in calls : Typed(c)
    /\ \A c, d \in calls : c # d => Apart(c, d)

\* Thunks that are dispatched together.
Together(D) ==
    /\ \A d \in D : Fits(d) /\ d.writes \in BOOLEAN /\ d.todo # <<>>
    /\ \A c, d \in D : c # d => c.thunk # d.thunk /\ c.thunk \notin Spawners

\* What a step does to the calls.
TypedStep ==
    \/ calls' \subseteq calls /\ events' = events
    \/ \E D : /\ Together(D) /\ events < Views[view].acts
              /\ events' = events + 1 /\ calls' = Begin(D, events + 1, calls)
    \/ /\ events' = events
       /\ \E c \in calls :
            \/ \E reply : /\ Answer(c, reply)
                          /\ \A d : d.thunk = c.thunk /\ d.arg = c.arg /\ d.todo = Tail(c.todo) =>
                                Fits(d) /\ (d.todo = <<>> => Suits(c.thunk, reply))
            \/ Refuse(c)
            \/ \E D : /\ Together(D) /\ calls' = Begin(D, c.id, calls \ {c})
                      /\ D = {} \/ c.thunk \in Spawners

LEMMA TypedCallWaits ==
    ASSUME NEW c, Typed(c), NEW e, Heir(e, c), e.crossed \in BOOLEAN, c.id \in 1..events',
           Waits(e, c) \/ (e.todo = <<>> /\ e.reply = Error)
    PROVE  Typed(e)'
<1>1. Fits(e)
  <2>1. CASE Waits(e, c)
    BY <2>1 DEF Typed, Fits, Waits, Heir, At, Argument
  <2>2. CASE e.todo = <<>>
    BY <2>2 DEF Typed, Fits, Heir, At, Asking
  <2> QED BY <2>1, <2>2
<1>2. e.todo = <<>> /\ e.reply # Error => Suits(e.thunk, e.reply)
  BY DEF Typed, Waits, Heir
<1> QED BY <1>1, <1>2 DEF Typed, Heir

\* Calls that are started, and those that wait meanwhile.
LEMMA TypedBegin ==
    ASSUME NEW rest, \A c \in rest : IsCall(c) /\ Typed(c),
           \A c, d \in rest : c # d => Apart(c, d),
           NEW id \in 1..events', events \in Nat, events' \in Nat, events <= events',
           NEW D, Together(D),
           D = {} \/ \A c \in rest : c.id # id
    PROVE  /\ \A e \in Begin(D, id, rest) : Typed(e)'
           /\ \A e, f \in Begin(D, id, rest) : e # f => Apart(e, f)
<1>1. \A e \in Begin(D, id, rest) :
        \/ \E c \in rest : Waits(e, c) /\ e = [c EXCEPT !.crossed = @ \/ Writes(D)]
        \/ \E d \in Followed(D) : e = Started(d, id, rest)
  BY BeginHeirs
<1>2. Followed(D) \subseteq D
  BY DEF Followed
<1>3. ASSUME NEW c \in rest, NEW e, Waits(e, c), e = [c EXCEPT !.crossed = @ \/ Writes(D)]
      PROVE  Typed(e)'
  <2>1. c = [thunk |-> c.thunk, arg |-> c.arg, todo |-> c.todo, status |-> c.status,
             writes |-> c.writes, id |-> c.id, reply |-> c.reply, crossed |-> c.crossed]
    BY DEF IsCall
  <2>2. Writes(D) \in BOOLEAN
    BY DEF Writes
  <2>3. e.crossed \in BOOLEAN
    BY <1>3, <2>1, <2>2
  <2>4. Typed(c) /\ c.id \in 1..events'
    BY DEF Typed
  <2> QED BY <1>3, <2>3, <2>4, TypedCallWaits DEF Waits
<1>4. ASSUME NEW d \in Followed(D), NEW e, e = Started(d, id, rest)
      PROVE  Typed(e)' /\ e.id = id /\ e.thunk = d.thunk
  <2>1. /\ e.thunk = d.thunk /\ e.arg = d.arg /\ e.todo = d.todo /\ e.writes = d.writes /\ e.id = id
        /\ e.crossed = \E c \in rest : c.writes
    BY <1>4 DEF Started
  <2>2. Fits(d) /\ d.writes \in BOOLEAN /\ d.todo # <<>>
    BY <1>2 DEF Together
  <2>3. Fits(e)
    BY <2>1, <2>2 DEF Fits, At, Argument
  <2>4. (\E c \in rest : c.writes) \in BOOLEAN
    OBVIOUS
  <2> QED BY <2>1, <2>2, <2>3, <2>4 DEF Typed
<1>5. ASSUME NEW e \in Begin(D, id, rest), NEW f \in Begin(D, id, rest), e # f
      PROVE  Apart(e, f)
  <2>1. CASE \E c \in rest : \E d \in rest : Waits(e, c) /\ Waits(f, d) /\ c # d
    <3>1. PICK c, d \in rest : Waits(e, c) /\ Waits(f, d) /\ c # d
      BY <2>1
    <3>2. Apart(c, d)
      BY <3>1
    <3> QED BY <3>1, <3>2 DEF Waits, Heir, Apart
  <2>2. CASE \E c \in rest : \E d \in Followed(D) : Waits(e, c) /\ f = Started(d, id, rest)
    BY <1>2, <1>4, <2>2 DEF Waits, Heir, Apart
  <2>3. CASE \E c \in rest : \E d \in Followed(D) : Waits(f, c) /\ e = Started(d, id, rest)
    BY <1>2, <1>4, <2>3 DEF Waits, Heir, Apart
  <2>4. CASE \E c, d \in Followed(D) : e = Started(c, id, rest) /\ f = Started(d, id, rest)
    <3>1. PICK c, d \in Followed(D) : e = Started(c, id, rest) /\ f = Started(d, id, rest)
      BY <2>4
    <3>2. c # d /\ e.thunk = c.thunk /\ f.thunk = d.thunk
      BY <1>4, <1>5, <3>1
    <3> QED BY <1>2, <3>2 DEF Together, Apart
  <2> QED BY <1>1, <1>5, <2>1, <2>2, <2>3, <2>4
<1> QED BY <1>1, <1>3, <1>4, <1>5

\* A call of which one request is answered, or that is refused.
LEMMA TypedReplaced ==
    ASSUME NEW c, IsCall(c), NEW todo, NEW reply
    PROVE  LET d == [c EXCEPT !.todo = todo, !.reply = reply]
           IN  Heir(d, c) /\ d.crossed = c.crossed /\ d.todo = todo /\ d.reply = reply
<1> DEFINE b == [c EXCEPT !.todo = todo]
           d == [c EXCEPT !.todo = todo, !.reply = reply]
<1>1. b = [thunk |-> c.thunk, arg |-> c.arg, todo |-> todo, status |-> c.status,
           writes |-> c.writes, id |-> c.id, reply |-> c.reply, crossed |-> c.crossed]
  BY DEF IsCall
<1>2. d = [b EXCEPT !.reply = reply]
  OBVIOUS
<1> HIDE DEF b, d
<1>3. Heir(d, c) /\ d.crossed = c.crossed /\ d.todo = todo /\ d.reply = reply
  BY <1>1, <1>2 DEF Heir
<1> QED BY <1>3 DEF d

LEMMA CallTypesKept ==
    ASSUME CallsInv, CallTypes, TypedStep
    PROVE  CallTypes'
<1>1. \A c \in calls : IsCall(c) /\ Typed(c)
  BY CallsWhole DEF CallTypes
<1>2. /\ events \in Nat
      /\ \A c, d \in calls : c # d => Apart(c, d)
      /\ \A c \in calls : c.id \in 1..events
  BY DEF CallTypes, Typed
<1>3. ASSUME NEW c \in calls, NEW todo, NEW reply, events' = events,
             Replace(c, [c EXCEPT !.todo = todo, !.reply = reply]),
             \A d : /\ d.thunk = c.thunk /\ d.arg = c.arg /\ d.todo = todo /\ d.reply = reply
                    => Fits(d) /\ (d.todo = <<>> /\ d.reply # Error => Suits(d.thunk, d.reply))
      PROVE  CallTypes'
  <2>1. PICK d : d = [c EXCEPT !.todo = todo, !.reply = reply]
    OBVIOUS
  <2>2. /\ Heir(d, c) /\ d.crossed = c.crossed /\ d.todo = todo /\ d.reply = reply
        /\ calls' = (calls \ {c}) \cup {d}
    BY <1>1, <1>3, <2>1, TypedReplaced DEF Replace
  <2>3. Typed(c)
    BY <1>1
  <2>4. Typed(d)'
    BY <1>3, <2>2, <2>3 DEF Typed, Heir
  <2>5. \A e \in calls : Typed(e)'
    BY <1>1, <1>3 DEF Typed
  <2>6. \A e \in calls \ {c} : Apart(d, e) /\ Apart(e, d)
    <3> SUFFICES ASSUME NEW e \in calls \ {c}
                 PROVE  Apart(d, e) /\ Apart(e, d)
      OBVIOUS
    <3>1. Apart(c, e) /\ Apart(e, c)
      BY <1>2
    <3> QED BY <2>2, <3>1 DEF Apart, Heir
  <2> QED BY <1>2, <1>3, <2>2, <2>4, <2>5, <2>6 DEF CallTypes, Apart
<1>4. CASE calls' \subseteq calls /\ events' = events
  BY <1>1, <1>2, <1>4 DEF CallTypes, Typed, Apart
<1>5. ASSUME NEW D, Together(D), events' = events + 1, calls' = Begin(D, events + 1, calls)
      PROVE  CallTypes'
  <2>1. PICK id : id = events + 1
    OBVIOUS
  <2>2. id \in 1..events' /\ events' \in Nat /\ events <= events' /\ \A c \in calls : c.id # id
    BY <1>2, <1>5, <2>1
  <2>3. /\ \A e \in Begin(D, id, calls) : Typed(e)'
        /\ \A e, f \in Begin(D, id, calls) : e # f => Apart(e, f)
    BY <1>1, <1>2, <1>5, <2>2, TypedBegin
  <2> QED BY <1>5, <2>1, <2>2, <2>3 DEF CallTypes, Apart
<1>6. ASSUME NEW c \in calls, NEW D, Together(D), calls' = Begin(D, c.id, calls \ {c}),
             D = {} \/ c.thunk \in Spawners, events' = events
      PROVE  CallTypes'
  <2>1. PICK id, rest : id = c.id /\ rest = calls \ {c}
    OBVIOUS
  <2>2. id \in 1..events' /\ events' \in Nat /\ events <= events'
    BY <1>2, <1>6, <2>1
  <2>3. D = {} \/ \A d \in rest : d.id # id
    BY <1>2, <1>6, <2>1 DEF Apart
  <2>4. \A d \in rest : IsCall(d) /\ Typed(d)
    BY <1>1, <2>1
  <2>5. \A d, e \in rest : d # e => Apart(d, e)
    BY <1>2, <2>1
  <2>6. /\ \A e \in Begin(D, id, rest) : Typed(e)'
        /\ \A e, f \in Begin(D, id, rest) : e # f => Apart(e, f)
    BY <1>2, <1>6, <2>2, <2>3, <2>4, <2>5, TypedBegin
  <2> QED BY <1>6, <2>1, <2>2, <2>6 DEF CallTypes, Apart
<1>7. ASSUME NEW c \in calls, NEW reply, Answer(c, reply), events' = events,
             \A d : d.thunk = c.thunk /\ d.arg = c.arg /\ d.todo = Tail(c.todo) =>
                    Fits(d) /\ (d.todo = <<>> => Suits(c.thunk, reply))
      PROVE  CallTypes'
  <2>1. Replace(c, [c EXCEPT !.todo = Tail(c.todo), !.reply = reply])
    BY <1>1, <1>7 DEF Answer, IsCall
  <2> QED BY <1>3, <1>7, <2>1
<1>8. ASSUME NEW c \in calls, Refuse(c), events' = events
      PROVE  CallTypes'
  <2>1. Replace(c, [c EXCEPT !.todo = <<>>, !.reply = Error])
    BY <1>8 DEF Refuse
  <2>2. Fits(c)
    BY <1>1 DEF Typed
  <2>3. \A d : d.thunk = c.thunk /\ d.arg = c.arg /\ d.todo = <<>> => Fits(d)
    BY <2>2 DEF Fits, At, Asking
  <2> QED BY <1>3, <1>8, <2>1, <2>3
<1> QED BY <1>4, <1>5, <1>6, <1>7, <1>8 DEF TypedStep

LEMMA TypedDispatch ==
    ASSUME NEW D, Together(D), Dispatch(D)
    PROVE  TypedStep /\ faults' = faults
BY DEF Dispatch, TypedStep

LEMMA TypedSettle ==
    ASSUME NEW c \in calls, NEW D, Together(D), D = {} \/ c.thunk \in Spawners, Settle(c, D)
    PROVE  TypedStep /\ faults' = faults
BY DEF Settle, TypedStep

\* A call that is over.
LEMMA TypedEnd ==
    ASSUME NEW c \in calls,
           Settle(c, {}) \/ Crash(c) \/ \E hasCase, fields : Rejected(c, hasCase, fields)
    PROVE  TypedStep /\ faults' = faults
<1>1. Together({})
  BY DEF Together
<1> QED BY <1>1, TypedSettle DEF Crash, Rejected, TypedStep

Fitted == {"fetchPaymentSummaryForPubkey", "getProfilePrivateKey", "fetchPaymentSummary"} \cup SetsPrice

LEMMA OthersFit ==
    ASSUME NEW d, d.thunk \notin Fitted
    PROVE  Fits(d)
BY DEF Fits, Fitted

LEMMA OneTogether ==
    ASSUME NEW d, Fits(d), d.writes \in BOOLEAN, d.todo # <<>>
    PROVE  Together({d})
BY DEF Together

LEMMA SqueaksTogether ==
    ASSUME NEW s, NEW o
    PROVE  /\ Together({fetchSqueak(s)}) /\ Together({setLikeSqueak(s)})
           /\ Together({setUnlikeSqueak(s)}) /\ Together({setDeleteSqueak(s)})
           /\ Together({fetchTimeline}) /\ Together({fetchSearch})
           /\ Together({fetchProfileSqueaks}) /\ Together({setMakeSqueak(s)})
           /\ Together({fetchSqueakOffers(s)}) /\ Together({setBuySqueak(o, s)})
           /\ Together({setDownloadSqueak(s)})
           /\ Together({fetchPaymentSummaryForSqueak(s)})
           /\ Together(SqueakMounted(s))
<1>1. \A x, y : <<x>> # <<>> /\ <<x, y>> # <<>>
  OBVIOUS
<1>2. ASSUME NEW d, d.thunk \in SqueakThunks, d.writes \in BOOLEAN, d.todo # <<>>
      PROVE  Together({d}) /\ Fits(d)
  <2>1. d.thunk \notin Fitted
    BY <1>2 DEF SqueakThunks, Fitted, SetsPrice
  <2> QED BY <1>2, <2>1, OthersFit, OneTogether
<1>3. ASSUME NEW thunk \in SqueakThunks, NEW arg, NEW requests, requests # <<>>, NEW status
      PROVE  /\ Together({Read(thunk, arg, requests, status)})
             /\ Together({Write(thunk, arg, requests, status)})
  BY <1>2, <1>3 DEF Read, Write
<1>4. /\ Together({fetchSqueak(s)}) /\ Together({fetchTimeline}) /\ Together({fetchSearch})
      /\ Together({fetchProfileSqueaks}) /\ Together({fetchSqueakOffers(s)})
      /\ Together({fetchPaymentSummaryForSqueak(s)})
  BY <1>1, <1>3 DEF fetchSqueak, fetchTimeline, fetchSearch, fetchProfileSqueaks,
     fetchSqueakOffers, fetchPaymentSummaryForSqueak, SqueakThunks
<1>5. /\ Together({setLikeSqueak(s)}) /\ Together({setUnlikeSqueak(s)})
      /\ Together({setDeleteSqueak(s)}) /\ Together({setMakeSqueak(s)})
      /\ Together({setBuySqueak(o, s)}) /\ Together({setDownloadSqueak(s)})
  BY <1>1, <1>3 DEF setLikeSqueak, setUnlikeSqueak, setDeleteSqueak, setMakeSqueak,
     setBuySqueak, setDownloadSqueak, SqueakThunks
<1>6. Together(SqueakMounted(s))
  <2>1. \A x : <<x>> # <<>>
    BY OneLeft
  <2>2. PICK a, b, c, d, e : /\ a = fetchSqueak(s) /\ b = fetchAncestorSqueaks(s)
                             /\ c = fetchReplySqueaks(s) /\ d = fetchSqueakOffers(s)
                             /\ e = fetchPaymentSummaryForSqueak(s)
    OBVIOUS
  <2>3. a.thunk = "fetchSqueak" /\ a.writes = FALSE /\ a.todo # <<>>
    BY <2>1, <2>2 DEF fetchSqueak, Read
  <2>4. b.thunk = "fetchAncestorSqueaks" /\ b.writes = FALSE /\ b.todo # <<>>
    BY <2>1, <2>2 DEF fetchAncestorSqueaks, Read
  <2>5. c.thunk = "fetchReplySqueaks" /\ c.writes = FALSE /\ c.todo # <<>>
    BY <2>1, <2>2 DEF fetchReplySqueaks, Read
  <2>6. d.thunk = "fetchSqueakOffers" /\ d.writes = FALSE /\ d.todo # <<>>
    BY <2>1, <2>2 DEF fetchSqueakOffers, Read
  <2>7. e.thunk = "fetchPaymentSummaryForSqueak" /\ e.writes = FALSE /\ e.todo # <<>>
    BY <2>1, <2>2 DEF fetchPaymentSummaryForSqueak, Read
  <2>8. SqueakMounted(s) = {a, b, c, d, e}
    BY <2>2 DEF SqueakMounted
  <2>9. Fits(a) /\ Fits(b) /\ Fits(c) /\ Fits(d) /\ Fits(e)
    BY <2>3, <2>4, <2>5, <2>6, <2>7 DEF Fits, SetsPrice
  <2>10. \A f \in SqueakMounted(s) : Fits(f) /\ f.writes \in BOOLEAN /\ f.todo # <<>>
    BY <2>3, <2>4, <2>5, <2>6, <2>7, <2>8, <2>9
  <2>11. \A f, g \in SqueakMounted(s) : f # g => f.thunk # g.thunk /\ f.thunk \notin Spawners
    BY <2>3, <2>4, <2>5, <2>6, <2>7, <2>8 DEF Spawners, Creates
  <2> QED BY <2>10, <2>11 DEF Together
<1> QED BY <1>4, <1>5, <1>6

LEMMA SqueaksTyped ==
    ASSUME SqueakUser \/ SqueakServer \/ SqueakReply
    PROVE  TypedStep /\ faults' = faults
<1>1. CASE SqueakUser
  <2>1. CASE \E s \in Squeak : OpenSqueak(s)
    BY <2>1, SqueaksTogether, TypedDispatch DEF OpenSqueak
  <2>2. CASE OpenTimeline \/ OpenSearch \/ OpenProfileSqueaks
    BY <2>2, SqueaksTogether, TypedDispatch DEF OpenTimeline, OpenSearch, OpenProfileSqueaks, OpenList
  <2>3. ASSUME NEW e, NEW s, Heart(e, s)
        PROVE  TypedStep /\ faults' = faults
    BY <2>3, SqueaksTogether, TypedDispatch DEF Heart
  <2>4. CASE ClickPageHeart \/ ClickPageDelete \/ ClickDownload
    BY <2>3, <2>4, SqueaksTogether, TypedDispatch DEF ClickPageHeart, ClickPageDelete, ClickDownload
  <2>5. CASE \E e \in Cards : ClickCardHeart(e) \/ ClickCardDelete(e)
    BY <2>3, <2>5, SqueaksTogether, TypedDispatch DEF ClickCardHeart, ClickCardDelete
  <2>6. CASE toggleBuyModal \/ ClickBuy
    BY <2>6, SqueaksTogether, TypedDispatch DEF toggleBuyModal, ClickBuy, TypedStep, thunkVars
  <2>7. CASE \E o \in Offer : handleChangeOffer(o)
    BY <2>7 DEF handleChangeOffer, TypedStep, thunkVars
  <2>8. CASE \E r \in ReplyTargets : submitSqueak(r)
    BY <2>8, SqueaksTogether, TypedDispatch DEF submitSqueak
  <2> QED BY <1>1, <2>1, <2>2, <2>4, <2>5, <2>6, <2>7, <2>8 DEF SqueakUser
<1>2. CASE SqueakServer
  <2>1. events' = events /\ faults' = faults
    BY <1>2 DEF SqueakServer
  <2>2. PICK c \in Of(SqueakThunks) : (\E reply : Answer(c, reply)) \/ Refuse(c)
    BY <1>2 DEF SqueakServer, getSqueak, getAncestorSqueaks, getReplySqueaks,
       getTimelineSqueaks, getSearchSqueaks, getProfileSqueaks, getSqueakOffers,
       getPaymentSummaryForSqueak, likeSqueak, unlikeSqueak, deleteSqueak, makeSqueak,
       downloadSqueak, buySqueak
  <2>3. \A d, reply : d.thunk = c.thunk => Fits(d) /\ Suits(c.thunk, reply)
    BY OthersFit DEF Of, SqueakThunks, Fitted, SetsPrice, Suits, ChangesProfile, Creates, PeerThunks,
       SetsAccounts
  <2> QED BY <2>1, <2>2, <2>3 DEF TypedStep, Of
<1>3. CASE SqueakReply
  <2>1. PICK c \in calls :
        \/ fetchSqueakFulfilled(c) \/ fetchAncestorSqueaksFulfilled(c)
        \/ fetchReplySqueaksFulfilled(c) \/ fetchListFulfilled(c)
        \/ fetchSqueakOffersFulfilled(c) \/ fetchPaymentSummaryForSqueakFulfilled(c)
        \/ setLikeSqueakFulfilled(c) \/ setUnlikeSqueakFulfilled(c)
        \/ setDeleteSqueakFulfilled(c) \/ setMakeSqueakFulfilled(c)
        \/ setBuySqueakFulfilled(c) \/ setDownloadSqueakFulfilled(c)
        \/ SqueakReducerThrows(c) \/ SqueakThunkRejected(c)
    BY <1>3 DEF SqueakReply
  <2>2. CASE setMakeSqueakFulfilled(c)
    BY <2>2, SqueaksTogether, TypedSettle DEF setMakeSqueakFulfilled, Done, Spawners
  <2>3. CASE setBuySqueakFulfilled(c)
    BY <2>3, SqueaksTogether, TypedSettle DEF setBuySqueakFulfilled, Done, Spawners
  <2>4. ASSUME ~setMakeSqueakFulfilled(c), ~setBuySqueakFulfilled(c)
        PROVE  Settle(c, {}) \/ Crash(c) \/ \E hasCase, fields : Rejected(c, hasCase, fields)
    BY <2>1, <2>4 DEF fetchSqueakFulfilled,
       fetchAncestorSqueaksFulfilled, fetchReplySqueaksFulfilled, fetchListFulfilled,
       fetchSqueakOffersFulfilled, fetchPaymentSummaryForSqueakFulfilled, setLikeSqueakFulfilled,
       setUnlikeSqueakFulfilled, setDeleteSqueakFulfilled,
       setDownloadSqueakFulfilled, SqueakReducerThrows, SqueakThunkRejected
  <2> QED BY <2>2, <2>3, <2>4, TypedEnd
<1> QED BY <1>1, <1>2, <1>3

LEMMA OneOther ==
    ASSUME NEW d, d.thunk \notin Fitted, d.writes \in BOOLEAN, d.todo # <<>>
    PROVE  Together({d})
BY OthersFit, OneTogether

LEMMA ProfilesTogether ==
    ASSUME NEW k, NEW name, NEW id, NEW from
    PROVE  /\ Together({fetchProfile(k)}) /\ Together({fetchSigningProfiles})
           /\ Together({fetchContactProfiles})
           /\ Together({setFollowProfile(id)}) /\ Together({setUnfollowProfile(id)})
           /\ Together({setRenameProfile(id, name)}) /\ Together({setProfileImage(id)})
           /\ Together({setDeleteProfile(id)})
           /\ Together({setCreateContactProfile(from, name, k)})
           /\ Together({setCreateSigningProfile(name)})
           /\ Together({setImportSigningProfile(name, k)})
<1>1. \A x : <<x>> # <<>>
  BY OneLeft
<1>2. \A x, y : <<x, y>> # <<>>
  OBVIOUS
<1>3. ASSUME NEW thunk \in ProfileThunks \ Fitted, NEW arg, NEW requests, requests # <<>>, NEW status
      PROVE  /\ Together({Read(thunk, arg, requests, status)})
             /\ Together({Write(thunk, arg, requests, status)})
  BY <1>3, OneOther DEF Read, Write
<1>4. {"fetchProfile", "fetchSigningProfiles", "fetchContactProfiles", "setFollowProfile",
       "setUnfollowProfile", "setRenameProfile", "setProfileImage", "setDeleteProfile",
       "setCreateContactProfile", "setCreateSigningProfile", "setImportSigningProfile"}
          \subseteq ProfileThunks \ Fitted
  BY DEF ProfileThunks, Fitted, SetsPrice
<1>5. /\ Together({fetchProfile(k)}) /\ Together({fetchSigningProfiles})
      /\ Together({fetchContactProfiles}) /\ Together({setDeleteProfile(id)})
  BY <1>1, <1>3, <1>4 DEF fetchProfile, fetchSigningProfiles, fetchContactProfiles, setDeleteProfile
<1>6. /\ Together({setFollowProfile(id)}) /\ Together({setUnfollowProfile(id)})
      /\ Together({setRenameProfile(id, name)}) /\ Together({setProfileImage(id)})
  BY <1>2, <1>3, <1>4 DEF setFollowProfile, setUnfollowProfile, setRenameProfile,
     setProfileImage, Change
<1>7. /\ Together({setCreateContactProfile(from, name, k)})
      /\ Together({setCreateSigningProfile(name)})
      /\ Together({setImportSigningProfile(name, k)})
  BY <1>2, <1>3, <1>4 DEF setCreateContactProfile, setCreateSigningProfile,
     setImportSigningProfile, Create
<1> QED BY <1>5, <1>6, <1>7

LEMMA PageTogether ==
    ASSUME NEW k \in PubKey, NEW list, list = {} \/ list = {fetchSigningProfiles}
    PROVE  Together(list) /\ Together(list \cup ProfileMounted(k)) /\ Together(ProfileMounted(k))
<1>1. \A x : <<x>> # <<>>
  BY OneLeft
<1>2. PICK a, b, l : /\ a = fetchProfile(k) /\ b = fetchPaymentSummaryForPubkey(k)
                     /\ l = fetchSigningProfiles
  OBVIOUS
<1>3. a.thunk = "fetchProfile" /\ a.writes = FALSE /\ a.todo # <<>>
  BY <1>1, <1>2 DEF fetchProfile, Read
<1>4. b.thunk = "fetchPaymentSummaryForPubkey" /\ b.writes = FALSE /\ b.todo # <<>> /\ b.arg = k
  BY <1>1, <1>2 DEF fetchPaymentSummaryForPubkey, Read
<1>5. l.thunk = "fetchSigningProfiles" /\ l.writes = FALSE /\ l.todo # <<>>
  BY <1>1, <1>2 DEF fetchSigningProfiles, Read
<1>6. Fits(a) /\ Fits(b) /\ Fits(l)
  BY <1>3, <1>4, <1>5 DEF Fits, SetsPrice
<1>7. ProfileMounted(k) = {a, b} /\ (list = {} \/ list = {l})
  BY <1>2 DEF ProfileMounted
<1>8. \A D : D \subseteq {a, b, l} => Together(D)
  BY <1>3, <1>4, <1>5, <1>6 DEF Together, Spawners, Creates
<1>9. /\ list \subseteq {a, b, l} /\ list \cup ProfileMounted(k) \subseteq {a, b, l}
      /\ ProfileMounted(k) \subseteq {a, b, l}
  BY <1>7
<1> QED BY <1>8, <1>9

LEMMA ExportTogether ==
    ASSUME NEW id, NEW page \in PubKey, NEW sure \in BOOLEAN
    PROVE  Together({getProfilePrivateKey(id, page, sure)})
<1>1. \A x : <<x>> # <<>>
  BY OneLeft
<1>2. PICK d : d = getProfilePrivateKey(id, page, sure)
  OBVIOUS
<1>3. /\ d.thunk = "getProfilePrivateKey" /\ d.writes = FALSE /\ d.todo # <<>>
      /\ d.arg = [page |-> page, sure |-> sure]
  BY <1>1, <1>2 DEF getProfilePrivateKey, Read
<1>4. Fits(d)
  BY <1>3 DEF Fits, SetsPrice
<1> QED BY <1>2, <1>3, <1>4, OneTogether

LEMMA ProfileUserTyped ==
    ASSUME ProfileUser
    PROVE  TypedStep /\ faults' = faults
<1>1. ASSUME NEW D, Together(D), Dispatch(D)
      PROVE  TypedStep /\ faults' = faults
  BY <1>1, TypedDispatch
<1>2. CASE \E k \in PubKey : OpenProfile(k)
  BY <1>1, <1>2, PageTogether DEF OpenProfile
<1>3. CASE OpenSigningProfiles \/ OpenContactProfiles \/ OpenMakeSqueak
  BY <1>1, <1>3, ProfilesTogether DEF OpenSigningProfiles, OpenContactProfiles, OpenMakeSqueak
<1>4. ASSUME NEW p, Switch(p)
      PROVE  TypedStep /\ faults' = faults
  BY <1>1, <1>4, ProfilesTogether DEF Switch
<1>5. CASE ClickFollow \/ \E p \in ProfileCards : ClickCardFollow(p)
  BY <1>4, <1>5 DEF ClickFollow, ClickCardFollow
<1>6. CASE \/ changeAvatar \/ ClickDeleteProfile \/ \E name \in Name : editProfile(name)
  BY <1>1, <1>6, ProfilesTogether DEF changeAvatar, ClickDeleteProfile, editProfile
<1>7. CASE exportPrivateKey
  <2>1. profileRoute \in PubKey /\ ("currentProfile" \notin awaited) \in BOOLEAN
    BY <1>7 DEF exportPrivateKey, OnPage
  <2>2. PICK sure \in BOOLEAN : sure = ("currentProfile" \notin awaited)
    BY <2>1
  <2>3. Dispatch({getProfilePrivateKey(currentProfile.id, profileRoute, sure)})
    BY <1>7, <2>2 DEF exportPrivateKey
  <2> QED BY <1>1, <2>1, <2>3, ExportTogether
<1>8. CASE \E name \in Name : AddContactProfile(name) \/ \E k \in PubKey : createContact(name, k)
  BY <1>1, <1>8, ProfilesTogether DEF AddContactProfile, createContact
<1>9. CASE \E name \in Name : createSigning(name) \/ \E k \in OwnKeys : importSigning(name, k)
  BY <1>1, <1>9, ProfilesTogether DEF createSigning, importSigning
<1> QED BY <1>2, <1>3, <1>5, <1>6, <1>7, <1>8, <1>9 DEF ProfileUser

\* What the node answers, by its types.
ProfileReplies(request, arg, reply) ==
    /\ request = "getProfileByPubkey" /\ arg \in PubKey => reply \in Profile \cup {None}
    /\ request = "getPaymentSummaryForPubkey" => reply = arg
    /\ request \in {"getSigningProfiles", "getContactProfiles"} => reply \subseteq Profile
    /\ request = "getProfile" =>
            IF arg = None THEN reply \in PubKey ELSE reply \in Profile \cup {None}
    /\ request = "getPrivateKey" => reply \in PubKey

LEMMA ProfileSuits ==
    ASSUME NEW c, c.thunk \in ProfileThunks, ProfileAsks(c), Fits(c), NEW request, At(c, request),
           NEW reply, ProfileReplies(request, Argument(c), reply), Tail(c.todo) = <<>>
    PROVE  Suits(c.thunk, reply)
<1>1. ASSUME /\ c.thunk \in ChangesProfile \cup {"fetchProfile"} => reply \in Profile \cup {None}
             /\ c.thunk \in {"fetchSigningProfiles", "fetchContactProfiles"} => reply \subseteq Profile
             /\ c.thunk \in Creates \cup {"getProfilePrivateKey", "fetchPaymentSummaryForPubkey"} =>
                    reply \in PubKey
      PROVE  Suits(c.thunk, reply)
  BY <1>1 DEF Suits, ProfileThunks, PeerThunks, SetsPrice, SetsAccounts
<1>2. CASE c.thunk = "fetchProfile"
  <2>1. Asking(c.todo, "getProfileByPubkey", c.arg) /\ c.arg \in PubKey
    BY <1>2 DEF ProfileAsks
  <2>2. request = "getProfileByPubkey" /\ Argument(c) = c.arg
    BY <2>1, AskingAnswered
  <2> QED BY <1>1, <1>2, <2>1, <2>2 DEF ProfileReplies, Creates
<1>3. CASE c.thunk = "fetchPaymentSummaryForPubkey"
  <2>1. Asking(c.todo, "getPaymentSummaryForPubkey", c.arg) /\ c.arg \in PubKey
    BY <1>3 DEF ProfileAsks, Fits
  <2>2. request = "getPaymentSummaryForPubkey" /\ Argument(c) = c.arg
    BY <2>1, AskingAnswered
  <2> QED BY <1>1, <1>3, <2>1, <2>2 DEF ProfileReplies, ChangesProfile
<1>4. CASE c.thunk = "fetchSigningProfiles"
  <2>1. Asking(c.todo, "getSigningProfiles", None)
    BY <1>4 DEF ProfileAsks
  <2>2. request = "getSigningProfiles"
    BY <2>1, AskingAnswered
  <2> QED BY <1>1, <1>4, <2>2 DEF ProfileReplies, ChangesProfile, Creates
<1>5. CASE c.thunk = "fetchContactProfiles"
  <2>1. Asking(c.todo, "getContactProfiles", None)
    BY <1>5 DEF ProfileAsks
  <2>2. request = "getContactProfiles"
    BY <2>1, AskingAnswered
  <2> QED BY <1>1, <1>5, <2>2 DEF ProfileReplies, ChangesProfile, Creates
<1>6. CASE c.thunk \in ChangesProfile
  <2>1. AskingAfter(c.todo, "getProfile", c.arg) /\ c.arg # None
    BY <1>6 DEF ProfileAsks
  <2>2. request = "getProfile" /\ Argument(c) = c.arg
    BY <2>1, AskingAfterAnswered
  <2> QED BY <1>1, <1>6, <2>1, <2>2 DEF ProfileReplies, ChangesProfile, Creates
<1>7. CASE c.thunk \in Creates
  <2>1. AskingAfter(c.todo, "getProfile", None)
    BY <1>7 DEF ProfileAsks
  <2>2. request = "getProfile" /\ Argument(c) = None
    BY <2>1, AskingAfterAnswered
  <2> QED BY <1>1, <1>7, <2>2 DEF ProfileReplies, ChangesProfile, Creates
<1>8. CASE c.thunk = "getProfilePrivateKey"
  <2>1. PICK id : Asking(c.todo, "getPrivateKey", id)
    BY <1>8 DEF ProfileAsks
  <2>2. request = "getPrivateKey"
    BY <2>1, AskingAnswered
  <2> QED BY <1>1, <1>8, <2>2 DEF ProfileReplies, ChangesProfile
<1>9. CASE c.thunk = "setDeleteProfile"
  BY <1>1, <1>9 DEF ChangesProfile, Creates
<1> QED BY <1>2, <1>3, <1>4, <1>5, <1>6, <1>7, <1>8, <1>9 DEF ProfileThunks, ChangesProfile, Creates

LEMMA ProfileServerTyped ==
    ASSUME CallTypes, ProfilesKeyed, ProfilesStored, \A c \in calls : ProfileAsked(c), ProfileServer
    PROVE  TypedStep /\ faults' = faults
<1>1. PICK c \in Of(ProfileThunks) :
        \/ getProfileByPubkey(c) \/ getProfile(c)
        \/ getSigningProfiles(c) \/ getContactProfiles(c)
        \/ setProfileFollowing(c) \/ renameProfile(c) \/ changeProfileImage(c) \/ deleteProfile(c)
        \/ createContactProfile(c) \/ createSigningProfile(c) \/ importSigningProfile(c)
        \/ getPrivateKey(c) \/ getPaymentSummaryForPubkey(c)
  BY DEF ProfileServer
<1>2. events' = events /\ faults' = faults
  BY DEF ProfileServer
<1>3. c \in calls /\ c.thunk \in ProfileThunks /\ ProfileAsks(c) /\ Fits(c)
  BY DEF Of, CallTypes, Typed, ProfileAsked
<1>4. ASSUME Refuse(c)
      PROVE  TypedStep /\ faults' = faults
  BY <1>2, <1>3, <1>4 DEF TypedStep
<1>5. ASSUME NEW request, NEW reply, At(c, request), ProfileReplies(request, Argument(c), reply),
             Answer(c, reply)
      PROVE  TypedStep /\ faults' = faults
  <2>1. \A d : d.thunk = c.thunk /\ d.arg = c.arg => Fits(d)
    BY <1>3 DEF Fits, ProfileThunks, SetsPrice
  <2>2. Tail(c.todo) = <<>> => Suits(c.thunk, reply)
    BY <1>3, <1>5, ProfileSuits
  <2> QED BY <1>2, <1>3, <1>5, <2>1, <2>2 DEF TypedStep
<1>6. \A k \in Saved : profiles[k] \in Profile /\ profiles[k].pubkey = k /\ k \in PubKey
  BY DEF ProfilesKeyed, ProfilesStored, Saved
<1>7. \A id : ById(id) # None => ById(id) = profiles[id[1]] /\ id[1] \in Saved
  BY DEF ById
<1>8. CASE getProfileByPubkey(c)
  <2>1. ProfileReplies("getProfileByPubkey", Argument(c), profiles[Argument(c)])
    BY DEF ProfileReplies, ProfilesStored
  <2> QED BY <1>5, <1>8, <2>1 DEF getProfileByPubkey
<1>9. CASE getProfile(c)
  <2>1. CASE Argument(c) # None
    <3>1. ProfileReplies("getProfile", Argument(c), ById(Argument(c)))
      BY <1>6, <1>7, <2>1 DEF ProfileReplies
    <3> QED BY <1>5, <1>9, <2>1, <3>1 DEF getProfile
  <2>2. CASE Argument(c) = None /\ ById(c.reply) # None
    <3>1. ProfileReplies("getProfile", Argument(c), ById(c.reply).pubkey)
      BY <1>6, <1>7, <2>2 DEF ProfileReplies
    <3> QED BY <1>5, <1>9, <2>2, <3>1 DEF getProfile
  <2> QED BY <1>4, <1>9, <2>1, <2>2 DEF getProfile
<1>10. CASE getSigningProfiles(c)
  <2>1. ProfileReplies("getSigningProfiles", Argument(c), SigningOnes)
    BY <1>6 DEF ProfileReplies, SigningOnes
  <2> QED BY <1>5, <1>10, <2>1 DEF getSigningProfiles
<1>11. CASE getContactProfiles(c)
  <2>1. ProfileReplies("getContactProfiles", Argument(c), ContactOnes)
    BY <1>6 DEF ProfileReplies, ContactOnes
  <2> QED BY <1>5, <1>11, <2>1 DEF getContactProfiles
<1>12. CASE getPrivateKey(c)
  <2>1. ASSUME ById(Argument(c)) # None
        PROVE  ProfileReplies("getPrivateKey", Argument(c), ById(Argument(c)).pubkey)
    BY <1>6, <1>7, <2>1 DEF ProfileReplies
  <2> QED BY <1>4, <1>5, <1>12, <2>1 DEF getPrivateKey
<1>13. CASE getPaymentSummaryForPubkey(c)
  BY <1>5, <1>13 DEF getPaymentSummaryForPubkey, ProfileReplies
<1>14. CASE setProfileFollowing(c) \/ renameProfile(c) \/ changeProfileImage(c) \/ deleteProfile(c)
  BY <1>4, <1>5, <1>14
     DEF setProfileFollowing, renameProfile, changeProfileImage, deleteProfile, ProfileReplies
<1>15. CASE createContactProfile(c) \/ createSigningProfile(c) \/ importSigningProfile(c)
  BY <1>4, <1>5, <1>15
     DEF createContactProfile, createSigningProfile, importSigningProfile, Make, ProfileReplies
<1> QED BY <1>1, <1>2, <1>8, <1>9, <1>10, <1>11, <1>12, <1>13, <1>14, <1>15

LEMMA ProfileReplyTyped ==
    ASSUME \A c \in calls : ProfileAsked(c), ProfileReply
    PROVE  TypedStep /\ faults' = faults
<1>1. PICK c \in calls :
        \/ fetchProfileFulfilled(c) \/ fetchPaymentSummaryForPubkeyFulfilled(c)
        \/ fetchSigningProfilesFulfilled(c) \/ fetchContactProfilesFulfilled(c)
        \/ setProfileFulfilled(c) \/ setDeleteProfileFulfilled(c)
        \/ getProfilePrivateKeyFulfilled(c) \/ ProfileReducerThrows(c)
        \/ AddContactProfileFulfilled(c) \/ createProfileFulfilled(c)
        \/ createContactProfileRejected(c) \/ ProfileThunkRejected(c)
  BY DEF ProfileReply
<1>2. ASSUME NEW D, Together(D), Settle(c, D), c.thunk \in Spawners
      PROVE  TypedStep /\ faults' = faults
  BY <1>2, TypedSettle
<1>3. c.todo = <<>> /\ c.reply # Error => ProfileTold(c)
  BY DEF ProfileAsked
<1>4. CASE AddContactProfileFulfilled(c)
  BY <1>2, <1>4, ProfilesTogether DEF AddContactProfileFulfilled, Done, Spawners, Creates
<1>5. CASE createProfileFulfilled(c)
  <2>1. c.thunk \in Creates /\ c.todo = <<>> /\ c.reply # Error
    BY <1>5 DEF createProfileFulfilled, Done, Creates
  <2>2. c.reply \in PubKey
    BY <1>3, <2>1 DEF ProfileTold
  <2>3. PICK list : /\ list = {} \/ list = {fetchSigningProfiles}
                    /\ Settle(c, list \cup {}) \/ Settle(c, list \cup ProfileMounted(c.reply))
    BY <1>5 DEF createProfileFulfilled
  <2>4. list \cup {} = list
    OBVIOUS
  <2>5. Together(list) /\ Together(list \cup ProfileMounted(c.reply))
    BY <2>2, <2>3, PageTogether
  <2>6. c.thunk \in Spawners
    BY <2>1 DEF Spawners
  <2> QED BY <1>2, <2>3, <2>4, <2>5, <2>6
<1>6. CASE createContactProfileRejected(c)
  <2>1. Together({fetchProfile(c.arg)}) /\ c.thunk \in Spawners
    BY <1>6, ProfilesTogether DEF createContactProfileRejected, Spawners, Creates
  <2> QED BY <1>6, <2>1 DEF createContactProfileRejected, TypedStep
<1>7. ASSUME ~AddContactProfileFulfilled(c), ~createProfileFulfilled(c),
             ~createContactProfileRejected(c)
      PROVE  Settle(c, {}) \/ Crash(c) \/ \E hasCase, fields : Rejected(c, hasCase, fields)
  BY <1>1, <1>7 DEF fetchProfileFulfilled, fetchPaymentSummaryForPubkeyFulfilled,
     fetchSigningProfilesFulfilled, fetchContactProfilesFulfilled, setProfileFulfilled,
     setDeleteProfileFulfilled, getProfilePrivateKeyFulfilled, ProfileReducerThrows,
     ProfileThunkRejected
<1> QED BY <1>4, <1>5, <1>6, <1>7, TypedEnd

LEMMA PeersTogether ==
    ASSUME NEW a, NEW p
    PROVE  /\ Together({fetchPeer(a)}) /\ Together({fetchSavedPeers}) /\ Together({setSavePeer(a)})
           /\ Together({setDeletePeer(p)}) /\ Together({setPeerAutoconnectEnabled(p)})
           /\ Together({setPeerAutoconnectDisabled(p)})
<1>1. \A x : <<x>> # <<>>
  BY OneLeft
<1>2. \A x, y : <<x, y>> # <<>>
  OBVIOUS
<1>3. ASSUME NEW thunk \in PeerThunks, NEW arg, NEW requests, requests # <<>>, NEW status
      PROVE  /\ Together({Read(thunk, arg, requests, status)})
             /\ Together({Write(thunk, arg, requests, status)})
  <2>1. thunk \notin Fitted
    BY DEF PeerThunks, Fitted, SetsPrice
  <2> QED BY <1>3, <2>1, OneOther DEF Read, Write
<1>4. {"fetchPeer", "fetchSavedPeers", "setSavePeer", "setDeletePeer",
       "setPeerAutoconnectEnabled", "setPeerAutoconnectDisabled"} \subseteq PeerThunks
  BY DEF PeerThunks
<1>5. Together({fetchPeer(a)}) /\ Together({fetchSavedPeers})
  BY <1>1, <1>3, <1>4 DEF fetchPeer, fetchSavedPeers
<1>6. /\ Together({setSavePeer(a)}) /\ Together({setDeletePeer(p)})
      /\ Together({setPeerAutoconnectEnabled(p)}) /\ Together({setPeerAutoconnectDisabled(p)})
  BY <1>2, <1>3, <1>4 DEF setSavePeer, setDeletePeer, setPeerAutoconnectEnabled,
     setPeerAutoconnectDisabled, ChangePeers
<1> QED BY <1>5, <1>6

LEMMA PeersTyped ==
    ASSUME PeersInv, \A c \in calls : PeerAsks(c), PeerUser \/ PeerServer \/ PeerReply
    PROVE  TypedStep /\ faults' = faults
<1>1. ASSUME NEW D, Together(D), Dispatch(D)
      PROVE  TypedStep /\ faults' = faults
  BY <1>1, TypedDispatch
<1>2. CASE PeerUser
  BY <1>1, <1>2, PeersTogether DEF PeerUser, OpenPeer, AddPeer, OpenPeers, ClickPeerSwitch,
     ClickDeletePeer, ClickPeerCardSwitch, Toggle
<1>3. CASE PeerServer
  <2>1. PICK c \in Of(PeerThunks) :
            \/ getPeer(c) \/ getSavedPeers(c) \/ savePeer(c) \/ deletePeer(c)
            \/ enableAutoconnectPeer(c) \/ disableAutoconnectPeer(c)
    BY <1>3 DEF PeerServer
  <2>2. events' = events /\ faults' = faults
    BY <1>3 DEF PeerServer
  <2>3. c \in calls /\ c.thunk \in PeerThunks /\ PeerAsks(c)
    BY DEF Of
  <2>4. ASSUME NEW request, NEW reply, At(c, request), Answer(c, reply),
               request = "getPeer" => reply \in PeerEntry \cup {None},
               request = "getSavedPeers" => reply \subseteq PeerEntry
        PROVE  TypedStep /\ faults' = faults
    <3>1. \A d : d.thunk = c.thunk => Fits(d)
      BY <2>3, OthersFit DEF PeerThunks, Fitted, SetsPrice
    <3>2. ASSUME Tail(c.todo) = <<>>
          PROVE  Suits(c.thunk, reply)
      <4>1. CASE c.thunk = "fetchPeer"
        <5>1. Asking(c.todo, "getPeer", c.arg)
          BY <2>3, <4>1 DEF PeerAsks
        <5>2. request = "getPeer"
          BY <2>4, <5>1, AskingAnswered
        <5> QED BY <2>4, <4>1, <5>2 DEF Suits, PeerThunks, ChangesProfile, Creates, SetsPrice,
                   SetsAccounts
      <4>2. CASE c.thunk = "fetchSavedPeers"
        <5>1. Asking(c.todo, "getSavedPeers", None)
          BY <2>3, <4>2 DEF PeerAsks
        <5>2. request = "getSavedPeers"
          BY <2>4, <5>1, AskingAnswered
        <5> QED BY <2>4, <4>2, <5>2 DEF Suits, PeerThunks, ChangesProfile, Creates, SetsPrice,
                   SetsAccounts
      <4>3. CASE c.thunk \notin {"fetchPeer", "fetchSavedPeers"}
        <5>1. AskingAfter(c.todo, "getSavedPeers", None)
          BY <2>3, <4>3 DEF PeerAsks
        <5>2. request = "getSavedPeers"
          BY <2>4, <3>2, <5>1, AskingAfterAnswered
        <5> QED BY <2>3, <2>4, <4>3, <5>2 DEF Suits, PeerThunks, ChangesProfile, Creates,
                   SetsPrice, SetsAccounts
      <4> QED BY <4>1, <4>2, <4>3
    <3> QED BY <2>2, <2>3, <2>4, <3>1, <3>2 DEF TypedStep
  <2>5. SavedPeers \subseteq PeerEntry
    BY DEF SavedPeers, PeersInv
  <2>6. \A a : PeerFor(a) \in PeerEntry \cup {None}
    BY <2>5 DEF PeerFor, WithHost
  <2>7. ASSUME Refuse(c)
        PROVE  TypedStep /\ faults' = faults
    BY <2>2, <2>3, <2>7 DEF TypedStep
  <2> QED BY <2>1, <2>4, <2>5, <2>6, <2>7 DEF getPeer, getSavedPeers, savePeer, deletePeer,
          enableAutoconnectPeer, disableAutoconnectPeer
<1>4. CASE PeerReply
  <2>1. PICK c \in calls :
            Settle(c, {}) \/ Crash(c) \/ \E hasCase, fields : Rejected(c, hasCase, fields)
    BY <1>4 DEF PeerReply, fetchPeerFulfilled, fetchSavedPeersFulfilled, setSavePeerFulfilled,
       setDeletePeerFulfilled, setPeerAutoconnectFulfilled, PeerThunkRejected
  <2> QED BY <2>1, TypedEnd
<1> QED BY <1>2, <1>3, <1>4

LEMMA PaymentsTogether ==
    ASSUME NEW kind, NEW owner, NEW last
    PROVE  Together({fetchList(kind, owner, last)}) /\ Together({fetchPaymentSummary})
<1>1. \A x : <<x>> # <<>>
  BY OneLeft
<1>2. PICK d : d = fetchPaymentSummary
  OBVIOUS
<1>3. /\ d.thunk = "fetchPaymentSummary" /\ d.writes = FALSE /\ d.todo # <<>>
      /\ d.todo = <<<<"getPaymentSummary", None>>>>
  BY <1>1, <1>2 DEF fetchPaymentSummary, Read
<1>4. Fits(d)
  BY <1>3 DEF Fits, SetsPrice, Asking
<1>5. Together({fetchPaymentSummary})
  BY <1>2, <1>3, <1>4, OneTogether
<1>6. PICK e : e = fetchList(kind, owner, last)
  OBVIOUS
<1>7. e.thunk \in {"fetchSentPayments", "fetchReceivedPayments"} /\ e.writes = FALSE /\ e.todo # <<>>
  BY <1>1, <1>6 DEF fetchList, fetchSentPayments, fetchReceivedPayments, fetchPayments, Read
<1>8. e.thunk \notin Fitted
  BY <1>7 DEF Fitted, SetsPrice
<1>9. Together({e})
  BY <1>7, <1>8, OneOther
<1> QED BY <1>5, <1>6, <1>9

LEMMA PaymentsTyped ==
    ASSUME CallTypes, recorded \in [Kinds -> Nat],
           PaymentUser \/ PaymentRecorded \/ PaymentServer \/ PaymentReply
    PROVE  TypedStep /\ faults' = faults
<1>1. ASSUME NEW D, Together(D), Dispatch(D)
      PROVE  TypedStep /\ faults' = faults
  BY <1>1, TypedDispatch
<1>2. ASSUME NEW kind, NEW owner, MountPayments(kind, owner)
      PROVE  TypedStep /\ faults' = faults
  <2>1. PICK D : D = {fetchList(kind, owner, None)}
    OBVIOUS
  <2>2. Together(D) /\ events < Views[view].acts /\ events' = events + 1 /\ faults' = faults
    BY <1>2, <2>1, PaymentsTogether DEF MountPayments
  <2>3. calls' = Begin(D, events + 1, calls)
    BY <1>2, <2>1 DEF MountPayments
  <2> QED BY <2>2, <2>3 DEF TypedStep
<1>3. ASSUME UNCHANGED thunkVars
      PROVE  TypedStep /\ faults' = faults
  BY <1>3 DEF thunkVars, TypedStep
<1>4. CASE PaymentUser
  BY <1>1, <1>2, <1>3, <1>4, PaymentsTogether
     DEF PaymentUser, OpenPayments, SwitchTab, LoadMore, OpenFeed
<1>5. CASE PaymentRecorded
  BY <1>3, <1>5 DEF PaymentRecorded
<1>6. CASE PaymentServer
  <2>1. PICK c \in Of(PaymentThunks) :
            getSentPayments(c) \/ getReceivedPayments(c) \/ getPaymentSummary(c)
    BY <1>6 DEF PaymentServer
  <2>2. events' = events /\ faults' = faults
    BY <1>6 DEF PaymentServer
  <2>3. c \in calls /\ c.thunk \in PaymentThunks /\ Fits(c)
    BY DEF Of, CallTypes, Typed
  <2>4. PICK request, reply : /\ At(c, request) /\ Answer(c, reply)
                              /\ request = "getPaymentSummary" => reply = recorded
    BY <2>1 DEF getSentPayments, getReceivedPayments, getPaymentSummary
  <2>5. CASE c.thunk = "fetchPaymentSummary"
    <3>1. Asking(c.todo, "getPaymentSummary", None)
      BY <2>3, <2>5 DEF Fits
    <3>2. request = "getPaymentSummary" /\ Tail(c.todo) = <<>>
      BY <2>4, <3>1, AskingAnswered
    <3>3. \A d : d.thunk = c.thunk /\ d.todo = <<>> => Fits(d)
      BY <2>5 DEF Fits, SetsPrice, Asking
    <3>4. Suits(c.thunk, reply)
      BY <2>4, <2>5, <3>2 DEF Suits, ChangesProfile, Creates, PeerThunks, SetsPrice, SetsAccounts
    <3> QED BY <2>2, <2>3, <2>4, <3>2, <3>3, <3>4 DEF TypedStep
  <2>6. CASE c.thunk # "fetchPaymentSummary"
    <3>1. \A d : d.thunk = c.thunk => Fits(d)
      BY <2>3, <2>6, OthersFit DEF PaymentThunks, Fitted, SetsPrice
    <3>2. Suits(c.thunk, reply)
      BY <2>3, <2>6 DEF Suits, PaymentThunks, ChangesProfile, Creates, PeerThunks, SetsPrice,
         SetsAccounts
    <3> QED BY <2>2, <2>3, <2>4, <3>1, <3>2 DEF TypedStep
  <2> QED BY <2>5, <2>6
<1>7. CASE PaymentReply
  <2>1. PICK c \in calls : Settle(c, {}) \/ \E hasCase, fields : Rejected(c, hasCase, fields)
    BY <1>7 DEF PaymentReply, fetchPaymentsFulfilled, fetchPaymentSummaryFulfilled,
       PaymentThunkRejected
  <2> QED BY <2>1, TypedEnd
<1> QED BY <1>4, <1>5, <1>6, <1>7

LEMMA SettingsTogether ==
    ASSUME NEW x, NEW p
    PROVE  /\ Together({fetchTwitterAccounts}) /\ Together({setCreateTwitterAccount(x)})
           /\ Together({setDeleteTwitterAccount(x)}) /\ Together({fetchSellPrice})
           /\ p \in Price => Together({setSellPrice(p)})
           /\ Together({setClearSellPrice})
           /\ Together({fetchNetwork}) /\ Together({fetchExternalAddress}) /\ Together({setLogout})
<1>1. \A y : <<y>> # <<>> /\ Head(<<y>>) = y
  BY OneLeft
<1>2. \A y, z : <<y, z>> # <<>> /\ Head(<<y, z>>) = y
  OBVIOUS
<1>3. ASSUME NEW thunk \in SettingsThunks \ SetsPrice, NEW arg, NEW requests, requests # <<>>
      PROVE  /\ Together({Read(thunk, arg, requests, None)})
             /\ Together({Write(thunk, arg, requests, None)})
  <2>1. thunk \notin Fitted
    BY DEF SettingsThunks, Fitted, SetsPrice
  <2> QED BY <1>3, <2>1, OneOther DEF Read, Write
<1>4. {"fetchTwitterAccounts", "setCreateTwitterAccount", "setDeleteTwitterAccount",
       "fetchSellPrice", "fetchNetwork", "fetchExternalAddress", "setLogout"}
            \subseteq SettingsThunks \ SetsPrice
  BY DEF SettingsThunks, SetsPrice
<1>5. /\ Together({fetchTwitterAccounts}) /\ Together({fetchSellPrice})
      /\ Together({fetchNetwork}) /\ Together({fetchExternalAddress}) /\ Together({setLogout})
  BY <1>1, <1>3, <1>4 DEF fetchTwitterAccounts, fetchSellPrice, fetchNetwork,
     fetchExternalAddress, setLogout
<1>6. Together({setCreateTwitterAccount(x)}) /\ Together({setDeleteTwitterAccount(x)})
  BY <1>2, <1>3, <1>4 DEF setCreateTwitterAccount, setDeleteTwitterAccount
<1>7. ASSUME p \in Price
      PROVE  Together({setSellPrice(p)})
  <2>1. PICK d : d = setSellPrice(p)
    OBVIOUS
  <2>2. /\ d.thunk = "setSellPrice" /\ d.writes = TRUE /\ d.todo # <<>>
        /\ Head(d.todo) = <<"updateSellPrice", p>>
    BY <1>2, <2>1 DEF setSellPrice, Write
  <2>3. Fits(d)
    BY <1>7, <2>2 DEF Fits, Argument
  <2> QED BY <2>1, <2>2, <2>3, OneTogether
<1>8. Together({setClearSellPrice})
  <2>1. PICK d : d = setClearSellPrice
    OBVIOUS
  <2>2. /\ d.thunk = "setClearSellPrice" /\ d.writes = TRUE /\ d.todo # <<>>
        /\ Head(d.todo) = <<"clearSellPrice", None>>
    BY <1>2, <2>1 DEF setClearSellPrice, Write
  <2>3. Fits(d)
    BY <2>2 DEF Fits, At
  <2> QED BY <2>1, <2>2, <2>3, OneTogether
<1> QED BY <1>5, <1>6, <1>7, <1>8

\* What is left once a change is made, or the list or price read.
LEMMA AfterChange ==
    ASSUME NEW c, NEW next, NEW changes, NEW request, Changing(c.todo, changes, request), At(c, next)
    PROVE  Tail(c.todo) \in {<<<<request, None>>>>, <<>>}
<1>1. PICK change, arg :
        c.todo \in {<<<<change, arg>>, <<request, None>>>>, <<<<request, None>>>>}
  BY DEF Changing, At
<1>2. CASE c.todo = <<<<change, arg>>, <<request, None>>>>
  BY <1>2, TwoLeft
<1>3. CASE c.todo = <<<<request, None>>>>
  BY <1>3, OneLeft
<1> QED BY <1>1, <1>2, <1>3

\* What the node answers about the settings, by its types.
SettingsReplies(request, reply) ==
    /\ request = "getTwitterAccounts" => reply \subseteq Account
    /\ request = "getSellPrice" => reply \in Price \cup {DefaultPrice}
    /\ request = "getNetwork" => reply = "network"
    /\ request = "getExternalAddress" => reply = "externalAddress"

LEMMA SettingsSuits ==
    ASSUME NEW c, c.thunk \in SettingsThunks, SettingsAsks(c), NEW request, At(c, request),
           NEW reply, SettingsReplies(request, reply), Tail(c.todo) = <<>>
    PROVE  Suits(c.thunk, reply)
<1>1. ASSUME /\ c.thunk \in SetsPrice \cup {"fetchSellPrice"} => reply \in Price \cup {DefaultPrice}
             /\ c.thunk \in SetsAccounts \cup {"fetchTwitterAccounts"} => reply \subseteq Account
             /\ c.thunk = "fetchNetwork" => reply = "network"
             /\ c.thunk = "fetchExternalAddress" => reply = "externalAddress"
      PROVE  Suits(c.thunk, reply)
  BY <1>1 DEF Suits, SettingsThunks, ChangesProfile, Creates, PeerThunks
<1>2. ASSUME NEW thunk, NEW asked, c.thunk = thunk, Asking(c.todo, asked, None)
      PROVE  request = asked
  BY <1>2, AskingAnswered
<1>3. CASE c.thunk = "fetchSellPrice"
  <2>1. request = "getSellPrice"
    BY <1>2, <1>3 DEF SettingsAsks
  <2> QED BY <1>1, <1>3, <2>1 DEF SettingsReplies, SetsAccounts
<1>4. CASE c.thunk = "fetchTwitterAccounts"
  <2>1. request = "getTwitterAccounts"
    BY <1>2, <1>4 DEF SettingsAsks
  <2> QED BY <1>1, <1>4, <2>1 DEF SettingsReplies, SetsPrice
<1>5. CASE c.thunk = "fetchNetwork"
  <2>1. request = "getNetwork"
    BY <1>2, <1>5 DEF SettingsAsks
  <2> QED BY <1>1, <1>5, <2>1 DEF SettingsReplies, SetsPrice, SetsAccounts
<1>6. CASE c.thunk = "fetchExternalAddress"
  <2>1. request = "getExternalAddress"
    BY <1>2, <1>6 DEF SettingsAsks
  <2> QED BY <1>1, <1>6, <2>1 DEF SettingsReplies, SetsPrice, SetsAccounts
<1>7. CASE c.thunk = "setLogout"
  BY <1>1, <1>7 DEF SetsPrice, SetsAccounts
<1>8. CASE c.thunk \in SetsPrice
  <2>1. Changing(c.todo, PriceChanges, "getSellPrice")
    BY <1>8 DEF SettingsAsks
  <2>2. request = "getSellPrice"
    BY <2>1, ChangingNext
  <2> QED BY <1>1, <1>8, <2>2 DEF SettingsReplies, SetsPrice, SetsAccounts
<1>9. CASE c.thunk \in SetsAccounts
  <2>1. Changing(c.todo, AccountChanges, "getTwitterAccounts")
    BY <1>9 DEF SettingsAsks
  <2>2. request = "getTwitterAccounts"
    BY <2>1, ChangingNext
  <2> QED BY <1>1, <1>9, <2>2 DEF SettingsReplies, SetsPrice, SetsAccounts
<1> QED BY <1>3, <1>4, <1>5, <1>6, <1>7, <1>8, <1>9 DEF SettingsThunks, SetsPrice, SetsAccounts

LEMMA SettingsServerTyped ==
    ASSUME CallTypes, SettingsTypeOK, SettingsCalls, SettingsServer
    PROVE  TypedStep /\ faults' = faults
<1>1. PICK c \in Of(SettingsThunks) :
        \/ getTwitterAccounts(c) \/ createTwitterAccount(c) \/ deleteTwitterAccount(c)
        \/ getSellPrice(c) \/ updateSellPrice(c) \/ clearSellPrice(c)
        \/ getNetwork(c) \/ getExternalAddress(c) \/ logout(c) \/ Redirected(c)
  BY DEF SettingsServer
<1>2. events' = events /\ faults' = faults
  BY DEF SettingsServer
<1>3. c \in calls /\ c.thunk \in SettingsThunks /\ SettingsAsks(c)
  BY DEF Of, SettingsCalls
<1>4. ASSUME NEW request, NEW reply, At(c, request), Answer(c, reply), SettingsReplies(request, reply)
      PROVE  TypedStep /\ faults' = faults
  <2>1. Tail(c.todo) = <<>> => Suits(c.thunk, reply)
    BY <1>3, <1>4, SettingsSuits
  <2>2. ASSUME NEW d, d.thunk = c.thunk, d.todo = Tail(c.todo)
        PROVE  Fits(d)
    <3>1. CASE c.thunk \in SetsPrice
      <4>1. Changing(c.todo, PriceChanges, "getSellPrice")
        BY <1>3, <3>1 DEF SettingsAsks
      <4>2. d.todo \in {<<<<"getSellPrice", None>>>>, <<>>}
        BY <1>4, <2>2, <4>1, AfterChange
      <4>3. ~At(d, "updateSellPrice")
        BY <4>2, OneLeft DEF At
      <4> QED BY <2>2, <3>1, <4>3 DEF Fits, SetsPrice
    <3>2. CASE c.thunk \notin SetsPrice
      BY <1>3, <2>2, <3>2, OthersFit DEF SettingsThunks, Fitted, SetsPrice
    <3> QED BY <3>1, <3>2
  <2> QED BY <1>2, <1>3, <1>4, <2>1, <2>2 DEF TypedStep
<1>5. ASSUME Refuse(c)
      PROVE  TypedStep /\ faults' = faults
  BY <1>2, <1>3, <1>5 DEF TypedStep
<1>6. CASE getTwitterAccounts(c)
  <2>1. AccountEntries \subseteq Account
    <3> SUFFICES ASSUME NEW h \in Handle, accounts[h] # 0
                 PROVE  [id |-> accounts[h], handle |-> h] \in Account
      BY DEF AccountEntries
    <3>1. accounts[h] \in Nat \ {0}
      BY DEF SettingsTypeOK
    <3> QED BY <3>1 DEF Account
  <2>2. SettingsReplies("getTwitterAccounts", AccountEntries)
    BY <2>1 DEF SettingsReplies
  <2> QED BY <1>4, <1>6, <2>2 DEF getTwitterAccounts
<1>7. CASE getSellPrice(c)
  <2>1. SettingsReplies("getSellPrice", SellPrice)
    BY DEF SettingsReplies, SellPrice, SettingsTypeOK
  <2> QED BY <1>4, <1>7, <2>1 DEF getSellPrice
<1>8. CASE getNetwork(c)
  BY <1>4, <1>8 DEF getNetwork, SettingsReplies
<1>9. CASE getExternalAddress(c)
  BY <1>4, <1>9 DEF getExternalAddress, SettingsReplies
<1>10. ASSUME NEW request \in {"createTwitterAccount", "deleteTwitterAccount", "updateSellPrice",
                               "clearSellPrice", "logout"},
              At(c, request), Answer(c, None)
       PROVE  TypedStep /\ faults' = faults
  BY <1>4, <1>10 DEF SettingsReplies
<1>11. CASE \/ createTwitterAccount(c) \/ deleteTwitterAccount(c) \/ updateSellPrice(c)
            \/ clearSellPrice(c) \/ logout(c) \/ Redirected(c)
  BY <1>5, <1>10, <1>11 DEF createTwitterAccount, deleteTwitterAccount, updateSellPrice,
     clearSellPrice, logout, Redirected
<1> QED BY <1>1, <1>6, <1>7, <1>8, <1>9, <1>11

LEMMA SettingsTyped ==
    ASSUME CallTypes, SettingsTypeOK, SettingsCalls, SettingsUser \/ SettingsServer \/ SettingsReply
    PROVE  TypedStep /\ faults' = faults
<1>1. ASSUME NEW D, Together(D), Dispatch(D)
      PROVE  TypedStep /\ faults' = faults
  BY <1>1, TypedDispatch
<1>2. CASE SettingsUser
  BY <1>1, <1>2, SettingsTogether DEF SettingsUser, OpenApp, OpenTwitterAccounts, OpenAddress,
     OpenNetwork, submitSellPrice, addTwitterAccount, ClickDeleteAccount, setSellPriceToDefault,
     ClickLogout
<1>3. CASE SettingsReply
  <2>1. PICK c \in calls :
            \/ Settle(c, {}) \/ setLogoutFulfilled(c)
            \/ \E hasCase, fields : Rejected(c, hasCase, fields)
    BY <1>3 DEF SettingsReply, twitterAccountsFulfilled, sellPriceFulfilled,
       fetchNetworkFulfilled, fetchExternalAddressFulfilled, SettingsThunkRejected
  <2>2. CASE setLogoutFulfilled(c)
    BY <2>2 DEF setLogoutFulfilled, TypedStep
  <2> QED BY <2>1, <2>2, TypedEnd
<1> QED BY <1>2, <1>3, SettingsServerTyped

LEMMA ProfilesTypeKept ==
    ASSUME CallTypes, ProfilesTypeOK, ProfilesStored', ProfilesKeyed',
           ProfileUser \/ ProfileServer \/ ProfileReply
    PROVE  ProfilesTypeOK'
<1> DEFINE ShownTypes ==
        /\ currentProfile \in Profile \cup {None}
        /\ signingProfiles \subseteq Profile /\ contactProfiles \subseteq Profile
        /\ summaryForPubkey \in PubKey \cup {None}
        /\ profileRoute \in PubKey \cup {"signing", "contact", None}
        /\ profileMount \in Nat
        /\ exported \in [key : PubKey, page : PubKey, sure : BOOLEAN] \cup {None}
        /\ awaited \subseteq ProfileFields
<1>0. SUFFICES ShownTypes'
  BY <1>0 DEF ProfilesTypeOK, ProfilesStored, ProfilesKeyed
<1>1. ShownTypes /\ events \in Nat
  BY DEF ProfilesTypeOK, CallTypes
<1>2. CASE UNCHANGED <<profileFields, profilePage, awaited>>
  BY <1>1, <1>2 DEF profileFields, profilePage
<1>3. CASE \E k \in PubKey : OpenProfile(k)
  BY <1>1, <1>3 DEF OpenProfile, ShowProfile, Dispatch, profileFields, ProfileFields, ProfileLists
<1>4. CASE OpenSigningProfiles
  BY <1>1, <1>4 DEF OpenSigningProfiles, LeaveProfile, ProfileFields, ProfileLists
<1>5. CASE OpenContactProfiles
  BY <1>1, <1>5 DEF OpenContactProfiles, LeaveProfile, ProfileFields, ProfileLists
<1>6. CASE ProfileUser
  BY <1>2, <1>3, <1>4, <1>5, <1>6 DEF ProfileUser, OpenMakeSqueak, ClickFollow, changeAvatar,
     ClickDeleteProfile, exportPrivateKey, ClickCardFollow, editProfile, AddContactProfile,
     createSigning, createContact, importSigning, profileVars
<1>7. ASSUME NEW c \in calls, NEW thunk, Done(c, thunk)
      PROVE  c.thunk = thunk /\ Suits(thunk, c.reply) /\ Fits(c)
  BY <1>7 DEF CallTypes, Typed, Done
<1>8. CASE ProfileReply
  <2>1. PICK c \in calls :
        \/ fetchProfileFulfilled(c) \/ fetchPaymentSummaryForPubkeyFulfilled(c)
        \/ fetchSigningProfilesFulfilled(c) \/ fetchContactProfilesFulfilled(c)
        \/ setProfileFulfilled(c) \/ setDeleteProfileFulfilled(c)
        \/ getProfilePrivateKeyFulfilled(c) \/ ProfileReducerThrows(c)
        \/ AddContactProfileFulfilled(c) \/ createProfileFulfilled(c)
        \/ createContactProfileRejected(c) \/ ProfileThunkRejected(c)
    BY <1>8 DEF ProfileReply
  <2>2. CASE fetchProfileFulfilled(c)
    <3>1. c.reply \in Profile \cup {None}
      BY <1>7, <2>2 DEF fetchProfileFulfilled, Suits
    <3> QED BY <1>1, <2>2, <3>1 DEF fetchProfileFulfilled, ProfileArrives, ProfileFields,
               profilePage
  <2>3. CASE fetchPaymentSummaryForPubkeyFulfilled(c)
    <3>1. c.reply \in PubKey
      BY <1>7, <2>3 DEF fetchPaymentSummaryForPubkeyFulfilled, Suits
    <3> QED BY <1>1, <2>3, <3>1 DEF fetchPaymentSummaryForPubkeyFulfilled, ProfileArrives,
               ProfileFields, profilePage
  <2>4. CASE fetchSigningProfilesFulfilled(c)
    <3>1. c.reply \subseteq Profile
      BY <1>7, <2>4 DEF fetchSigningProfilesFulfilled, Suits
    <3> QED BY <1>1, <2>4, <3>1 DEF fetchSigningProfilesFulfilled, profilePage
  <2>5. CASE fetchContactProfilesFulfilled(c)
    <3>1. c.reply \subseteq Profile
      BY <1>7, <2>5 DEF fetchContactProfilesFulfilled, Suits
    <3> QED BY <1>1, <2>5, <3>1 DEF fetchContactProfilesFulfilled, profilePage
  <2>6. CASE setProfileFulfilled(c)
    <3>1. PICK thunk \in ChangesProfile : Done(c, thunk)
      BY <2>6 DEF setProfileFulfilled
    <3>2. c.reply \in Profile \cup {None}
      BY <1>7, <3>1 DEF Suits
    <3>3. ASSUME NEW list, list \subseteq Profile, c.reply # None
          PROVE  updatedProfileInArray(list, c.reply) \subseteq Profile
      BY <3>2, <3>3 DEF updatedProfileInArray
    <3> QED BY <1>1, <2>6, <3>2, <3>3 DEF setProfileFulfilled, StoreProfile, profilePage
  <2>7. CASE setDeleteProfileFulfilled(c)
    BY <1>1, <2>7 DEF setDeleteProfileFulfilled, profilePage
  <2>8. CASE getProfilePrivateKeyFulfilled(c)
    <3>1. c.reply \in PubKey /\ c.arg \in [page : PubKey, sure : BOOLEAN]
      BY <1>7, <2>8 DEF getProfilePrivateKeyFulfilled, Suits, Fits
    <3>2. [key |-> c.reply, page |-> c.arg.page, sure |-> c.arg.sure]
                \in [key : PubKey, page : PubKey, sure : BOOLEAN]
      BY <3>1
    <3> QED BY <1>1, <2>8, <3>2 DEF getProfilePrivateKeyFulfilled, profileFields
  <2>9. CASE createProfileFulfilled(c)
    <3>1. c.thunk \in Creates /\ c.reply \in PubKey
      BY <1>7, <2>9 DEF createProfileFulfilled, Suits, Creates
    <3> QED BY <1>1, <2>9, <3>1 DEF createProfileFulfilled, profileFields, ProfileFields
  <2> QED BY <1>2, <2>1, <2>2, <2>3, <2>4, <2>5, <2>6, <2>7, <2>8, <2>9
          DEF ProfileReducerThrows, AddContactProfileFulfilled, createContactProfileRejected,
              ProfileThunkRejected
<1> QED BY <1>2, <1>6, <1>8 DEF ProfileServer

LEMMA PeersTypeKept ==
    ASSUME CallTypes, PeersTypeOK, PeersInv', PeerUser \/ PeerServer \/ PeerReply
    PROVE  PeersTypeOK'
<1> DEFINE ShownTypes ==
        /\ currentPeer \in PeerEntry \cup {None}
        /\ savedPeers \subseteq PeerEntry
        /\ peerRoute \in Address \cup {"peers", None}
        /\ peerAwaited \subseteq PeerFields
<1>0. SUFFICES ShownTypes'
  BY <1>0 DEF PeersTypeOK, PeersInv
<1>1. ShownTypes
  BY DEF PeersTypeOK
<1>2. CASE UNCHANGED <<peerFields, peerRoute, peerAwaited>>
  BY <1>1, <1>2 DEF peerFields
<1>3. CASE PeerUser
  <2>1. CASE \E a \in Address : OpenPeer(a)
    BY <1>1, <2>1 DEF OpenPeer, peerFields, PeerFields
  <2>2. CASE OpenPeers
    BY <1>1, <2>2 DEF OpenPeers, peerFields
  <2> QED BY <1>2, <1>3, <2>1, <2>2 DEF PeerUser, AddPeer, ClickPeerSwitch, ClickDeletePeer,
          ClickPeerCardSwitch, peerVars
<1>4. ASSUME NEW c \in calls, NEW thunk, Done(c, thunk)
      PROVE  c.thunk = thunk /\ Suits(thunk, c.reply)
  BY <1>4 DEF CallTypes, Typed, Done
<1>5. CASE PeerReply
  <2>1. PICK c \in calls :
            \/ fetchPeerFulfilled(c) \/ fetchSavedPeersFulfilled(c) \/ setSavePeerFulfilled(c)
            \/ setDeletePeerFulfilled(c) \/ setPeerAutoconnectFulfilled(c)
            \/ PeerThunkRejected(c)
    BY <1>5 DEF PeerReply
  <2>2. ASSUME NEW thunk \in PeerThunks \ {"fetchPeer"}, Done(c, thunk)
        PROVE  c.reply \subseteq PeerEntry
    BY <1>4, <2>2 DEF Suits
  <2>3. CASE fetchPeerFulfilled(c)
    <3>1. c.reply \in PeerEntry \cup {None}
      BY <1>4, <2>3 DEF fetchPeerFulfilled, Suits
    <3> QED BY <1>1, <2>3, <3>1 DEF fetchPeerFulfilled, PeerArrives, PeerFields
  <2>4. CASE fetchSavedPeersFulfilled(c)
    BY <1>1, <2>2, <2>4 DEF fetchSavedPeersFulfilled, PeerThunks
  <2>5. CASE setSavePeerFulfilled(c)
    <3>1. c.reply \subseteq PeerEntry
      BY <2>2, <2>5 DEF setSavePeerFulfilled, PeerThunks
    <3>2. Find(c.reply, c.arg) \in PeerEntry \cup {None}
      BY <3>1 DEF Find
    <3> QED BY <1>1, <2>5, <3>1, <3>2 DEF setSavePeerFulfilled, PeerArrives, PeerFields
  <2>6. CASE setDeletePeerFulfilled(c)
    BY <1>1, <2>2, <2>6 DEF setDeletePeerFulfilled, PeerThunks, AfterDelete, PeerChanged, PeerFields
  <2>7. CASE setPeerAutoconnectFulfilled(c)
    <3>1. c.reply \subseteq PeerEntry
      BY <2>2, <2>7 DEF setPeerAutoconnectFulfilled, PeerThunks
    <3>2. FindId(c.reply, c.arg.id) \in PeerEntry \cup {None}
      BY <3>1 DEF FindId
    <3> QED BY <1>1, <2>7, <3>1, <3>2 DEF setPeerAutoconnectFulfilled, PeerChanged, PeerFields
  <2> QED BY <1>2, <2>1, <2>3, <2>4, <2>5, <2>6, <2>7 DEF PeerThunkRejected
<1> QED BY <1>2, <1>3, <1>5 DEF PeerServer

LEMMA PaymentsTypeKept ==
    ASSUME CallTypes, PaymentsTypeOK, PaymentState',
           PaymentUser \/ PaymentRecorded \/ PaymentServer \/ PaymentReply
    PROVE  PaymentsTypeOK'
<1> DEFINE ShownTypes ==
        /\ paymentSummary \in [Kinds -> Nat] \cup {None}
        /\ paymentsRoute \in Owners \cup {"all", None}
        /\ listOf \in [Kinds -> [owner : Owners \cup {"all", None}, since : Nat]]
        /\ mixed \subseteq Kinds
<1>0. SUFFICES ShownTypes'
  <2>1. Len(OwnersOf) \in Nat
    BY PaymentsAssumption
  <2>2. ASSUME NEW kind \in Kinds
        PROVE  /\ recorded'[kind] \in 0..Len(OwnersOf)
               /\ paymentLists'[kind] \in Seq(1..Len(OwnersOf))
    <3>1. recorded'[kind] \in 0..Len(OwnersOf) /\ paymentLists'[kind] \in Seq(1..recorded'[kind])
      BY DEF PaymentState, KindState
    <3>2. 1..recorded'[kind] \subseteq 1..Len(OwnersOf)
      BY <2>1, <3>1
    <3>3. PICK list, S, T : list = paymentLists'[kind] /\ S = 1..recorded'[kind] /\ T = 1..Len(OwnersOf)
      OBVIOUS
    <3>4. list \in Seq(T)
      BY <3>1, <3>2, <3>3
    <3> QED BY <3>1, <3>3, <3>4
  <2>3. recorded' \in [Kinds -> 0..Len(OwnersOf)] /\ paymentLists' \in [Kinds -> Seq(1..Len(OwnersOf))]
    BY <2>2 DEF PaymentState
  <2> QED BY <1>0, <2>3 DEF PaymentState, PaymentsTypeOK
<1>1. ShownTypes /\ paymentsTab \in Kinds /\ events \in Nat
  BY DEF PaymentsTypeOK, CallTypes
<1>2. CASE UNCHANGED <<paymentSummary, paymentsRoute, listOf, mixed>>
  BY <1>1, <1>2
<1>3. ASSUME NEW kind, NEW owner \in Owners \cup {"all", None}, MountPayments(kind, owner)
      PROVE  /\ paymentSummary' \in [Kinds -> Nat] \cup {None}
             /\ listOf' \in [Kinds -> [owner : Owners \cup {"all", None}, since : Nat]]
             /\ mixed' \subseteq Kinds
  <2>1. PICK whose, Marks : whose = Owners \cup {"all", None} /\ Marks = [owner : whose, since : Nat]
    OBVIOUS
  <2>2. PICK new : new = [owner |-> owner, since |-> events + 1]
    OBVIOUS
  <2>3. new \in Marks
    BY <1>1, <2>1, <2>2
  <2>4. listOf' = [listOf EXCEPT ![kind] = new] /\ listOf \in [Kinds -> Marks]
    BY <1>1, <1>3, <2>1, <2>2 DEF MountPayments
  <2>5. listOf' \in [Kinds -> Marks]
    BY <2>3, <2>4
  <2> QED BY <1>1, <1>3, <2>1, <2>5 DEF MountPayments
<1>4. CASE \E owner \in Owners \cup {"all"} : OpenPayments(owner)
  <2>1. PICK owner \in Owners \cup {"all"} : OpenPayments(owner)
    BY <1>4
  <2>2. paymentsRoute' = owner
    BY <2>1 DEF OpenPayments
  <2>3. CASE MountPayments(paymentsTab', owner)
    BY <1>3, <2>2, <2>3
  <2>4. CASE UNCHANGED <<paymentSummary, listOf, mixed>>
    BY <1>1, <2>2, <2>4
  <2> QED BY <2>1, <2>3, <2>4 DEF OpenPayments
<1>5. CASE SwitchTab
  <2>1. UNCHANGED paymentsRoute /\ \E kind : MountPayments(kind, paymentsRoute)
    BY <1>5 DEF SwitchTab
  <2> QED BY <1>1, <1>3, <2>1
<1>6. CASE PaymentUser
  BY <1>2, <1>4, <1>5, <1>6 DEF PaymentUser, LoadMore, OpenFeed, paymentVars, paymentPage
<1>7. CASE PaymentRecorded \/ PaymentServer
  BY <1>2, <1>7 DEF PaymentRecorded, PaymentServer, paymentVars, paymentPage
<1>8. CASE PaymentReply
  <2>1. PICK c \in calls :
            fetchPaymentsFulfilled(c) \/ fetchPaymentSummaryFulfilled(c) \/ PaymentThunkRejected(c)
    BY <1>8 DEF PaymentReply
  <2>2. CASE fetchPaymentsFulfilled(c)
    BY <1>1, <2>2 DEF fetchPaymentsFulfilled, KindOf, Kinds
  <2>3. CASE fetchPaymentSummaryFulfilled(c)
    <3>1. c.reply \in [Kinds -> Nat]
      BY <2>3 DEF fetchPaymentSummaryFulfilled, Done, CallTypes, Typed, Suits
    <3> QED BY <1>1, <2>3, <3>1 DEF fetchPaymentSummaryFulfilled, paymentPage
  <2> QED BY <1>2, <2>1, <2>2, <2>3 DEF PaymentThunkRejected, paymentPage
<1> QED BY <1>6, <1>7, <1>8

LEMMA OnlyPriceUpdates ==
    ASSUME NEW c, c.thunk \in SettingsThunks, SettingsAsks(c), At(c, "updateSellPrice")
    PROVE  c.thunk \in SetsPrice
<1>1. CASE c.thunk \in SetsAccounts
  <2>1. Changing(c.todo, AccountChanges, "getTwitterAccounts")
    BY <1>1 DEF SettingsAsks
  <2>2. "updateSellPrice" \in AccountChanges \cup {"getTwitterAccounts"}
    BY <2>1, ChangingNext
  <2> QED BY <2>2 DEF AccountChanges
<1>2. ASSUME NEW asked, Asking(c.todo, asked, None)
      PROVE  asked = "updateSellPrice"
  BY <1>2, AskingAnswered
<1>3. CASE c.thunk = "fetchSellPrice"
  <2>1. "getSellPrice" = "updateSellPrice"
    BY <1>2, <1>3 DEF SettingsAsks
  <2> QED BY <2>1
<1>4. CASE c.thunk = "fetchTwitterAccounts"
  <2>1. "getTwitterAccounts" = "updateSellPrice"
    BY <1>2, <1>4 DEF SettingsAsks
  <2> QED BY <2>1
<1>5. CASE c.thunk = "fetchNetwork"
  <2>1. "getNetwork" = "updateSellPrice"
    BY <1>2, <1>5 DEF SettingsAsks
  <2> QED BY <2>1
<1>6. CASE c.thunk = "fetchExternalAddress"
  <2>1. "getExternalAddress" = "updateSellPrice"
    BY <1>2, <1>6 DEF SettingsAsks
  <2> QED BY <2>1
<1>7. CASE c.thunk = "setLogout"
  <2>1. "logout" = "updateSellPrice"
    BY <1>2, <1>7 DEF SettingsAsks
  <2> QED BY <2>1
<1> QED BY <1>1, <1>3, <1>4, <1>5, <1>6, <1>7 DEF SettingsThunks, SetsPrice, SetsAccounts

LEMMA SettingsTypeKept ==
    ASSUME CallTypes, SettingsTypeOK, SettingsCalls,
           SettingsUser \/ SettingsServer \/ SettingsReply
    PROVE  SettingsTypeOK'
<1> DEFINE NodeTypes ==
        /\ accounts \in [Handle -> Nat] /\ accountsMade \in Nat
        /\ price \in Price \cup {None} /\ session \in BOOLEAN
           ShownTypes ==
        /\ twitterAccounts \subseteq Account
        /\ sellPriceInfo \in Price \cup {DefaultPrice, None}
        /\ facts \subseteq {"network", "externalAddress"}
        /\ settingsRoute \in {"login", "app", "twitter", "peers", "squeak"}
        /\ settingsAwaited \subseteq {"sellPriceInfo", "twitterAccounts"}
<1>0. SUFFICES NodeTypes' /\ ShownTypes'
  BY <1>0 DEF SettingsTypeOK
<1>1. NodeTypes /\ ShownTypes
  BY DEF SettingsTypeOK
<1>2. ASSUME UNCHANGED settingsNode
      PROVE  NodeTypes'
  BY <1>1, <1>2 DEF settingsNode
<1>3. ASSUME UNCHANGED <<settingsFields, settingsRoute, settingsAwaited>>
      PROVE  ShownTypes'
  BY <1>1, <1>3 DEF settingsFields
<1> HIDE DEF NodeTypes, ShownTypes
<1>4. CASE SettingsUser
  <2>1. CASE UNCHANGED settingsVars
    BY <1>2, <1>3, <2>1 DEF settingsVars
  <2>2. CASE OpenApp
    BY <1>1, <2>2 DEF OpenApp, NodeTypes, ShownTypes, settingsFields
  <2>3. CASE OpenTwitterAccounts \/ OpenAddress \/ OpenNetwork
    <3>1. ShownTypes'
      BY <1>1, <2>3 DEF OpenTwitterAccounts, OpenAddress, OpenNetwork, ShownTypes, settingsFields
    <3> QED BY <1>2, <2>3, <3>1 DEF OpenTwitterAccounts, OpenAddress, OpenNetwork
  <2> QED BY <1>4, <2>1, <2>2, <2>3 DEF SettingsUser, addTwitterAccount, ClickDeleteAccount,
          submitSellPrice, setSellPriceToDefault, ClickLogout
<1>5. CASE SettingsServer
  <2>1. PICK c \in Of(SettingsThunks) :
        \/ getTwitterAccounts(c) \/ createTwitterAccount(c) \/ deleteTwitterAccount(c)
        \/ getSellPrice(c) \/ updateSellPrice(c) \/ clearSellPrice(c)
        \/ getNetwork(c) \/ getExternalAddress(c) \/ logout(c) \/ Redirected(c)
    BY <1>5 DEF SettingsServer
  <2>2. ShownTypes'
    BY <1>3, <1>5 DEF SettingsServer
  <2>3. CASE createTwitterAccount(c)
    <3>1. accountsMade + 1 \in Nat /\ accountsMade \in Nat /\ accounts \in [Handle -> Nat]
      BY <1>1 DEF NodeTypes
    <3>2. accounts' \in [Handle -> Nat] /\ accountsMade' \in Nat
      BY <2>3, <3>1 DEF createTwitterAccount
    <3> QED BY <1>1, <2>2, <2>3, <3>2 DEF createTwitterAccount, NodeTypes
  <2>4. CASE deleteTwitterAccount(c)
    <3>1. accounts' \in [Handle -> Nat]
      BY <1>1, <2>4 DEF deleteTwitterAccount, NodeTypes
    <3> QED BY <1>1, <2>2, <2>4, <3>1 DEF deleteTwitterAccount, NodeTypes
  <2>5. CASE updateSellPrice(c)
    <3>1. Argument(c) \in Price
      <4>1. c \in calls /\ At(c, "updateSellPrice") /\ c.thunk \in SettingsThunks /\ SettingsAsks(c)
        BY <2>1, <2>5 DEF updateSellPrice, SettingsCalls, Of
      <4>2. Fits(c)
        BY <4>1 DEF CallTypes, Typed
      <4>3. c.thunk \in SetsPrice
        BY <4>1, OnlyPriceUpdates
      <4> QED BY <4>1, <4>2, <4>3 DEF Fits
    <3>2. price' \in Price \cup {None}
      BY <1>1, <2>5, <3>1 DEF updateSellPrice, NodeTypes
    <3> QED BY <1>1, <2>2, <2>5, <3>2 DEF updateSellPrice, NodeTypes
  <2>6. CASE clearSellPrice(c) \/ logout(c)
    BY <1>1, <2>2, <2>6 DEF clearSellPrice, logout, NodeTypes
  <2> QED BY <1>2, <2>1, <2>2, <2>3, <2>4, <2>5, <2>6 DEF getTwitterAccounts, getSellPrice,
          getNetwork, getExternalAddress, Redirected
<1>6. ASSUME NEW c \in calls, NEW thunk, Done(c, thunk)
      PROVE  c.thunk = thunk /\ Suits(thunk, c.reply)
  BY <1>6 DEF CallTypes, Typed, Done
<1>7. CASE SettingsReply
  <2>1. PICK c \in calls :
        \/ twitterAccountsFulfilled(c) \/ sellPriceFulfilled(c)
        \/ fetchNetworkFulfilled(c) \/ fetchExternalAddressFulfilled(c)
        \/ setLogoutFulfilled(c) \/ SettingsThunkRejected(c)
    BY <1>7 DEF SettingsReply
  <2>2. NodeTypes'
    BY <1>2, <1>7 DEF SettingsReply
  <2>3. CASE twitterAccountsFulfilled(c)
    <3>1. c.reply \subseteq Account
      BY <1>6, <2>3 DEF twitterAccountsFulfilled, Suits, SetsAccounts
    <3> QED BY <1>1, <2>2, <2>3, <3>1 DEF twitterAccountsFulfilled, SettingsArrives, ShownTypes
  <2>4. CASE sellPriceFulfilled(c)
    <3>1. c.reply \in Price \cup {DefaultPrice}
      BY <1>6, <2>4 DEF sellPriceFulfilled, Suits, SetsPrice
    <3> QED BY <1>1, <2>2, <2>4, <3>1 DEF sellPriceFulfilled, SettingsArrives, ShownTypes
  <2>5. CASE fetchNetworkFulfilled(c)
    <3>1. c.reply = "network"
      BY <1>6, <2>5 DEF fetchNetworkFulfilled, Suits
    <3> QED BY <1>1, <2>2, <2>5, <3>1 DEF fetchNetworkFulfilled, ShownTypes
  <2>6. CASE fetchExternalAddressFulfilled(c)
    <3>1. c.reply = "externalAddress"
      BY <1>6, <2>6 DEF fetchExternalAddressFulfilled, Suits
    <3> QED BY <1>1, <2>2, <2>6, <3>1 DEF fetchExternalAddressFulfilled, ShownTypes
  <2>7. CASE setLogoutFulfilled(c)
    BY <2>2, <2>7 DEF setLogoutFulfilled, ShownTypes
  <2> QED BY <1>3, <2>1, <2>2, <2>3, <2>4, <2>5, <2>6, <2>7 DEF SettingsThunkRejected
<1> QED BY <1>4, <1>5, <1>7

\* The bounds on the acts of the user and on the requests that are lost.
Bounded == events \in 0..Views[view].acts /\ faults \in 0..Views[view].faults

LEMMA ViewBounds ==
    ASSUME view \in DOMAIN Views
    PROVE  Views[view].acts \in Nat /\ Views[view].faults \in Nat
BY ThunksAssumption

LEMMA BoundedKept ==
    ASSUME view \in DOMAIN Views, view' = view, Bounded, TypedStep, faults' = faults
    PROVE  Bounded'
<1>1. events' = events \/ (events < Views[view].acts /\ events' = events + 1)
  BY DEF TypedStep
<1> QED BY <1>1, ViewBounds DEF Bounded

LEMMA LostTyped ==
    ASSUME Lost
    PROVE  /\ TypedStep
           /\ events' = events /\ faults < Views[view].faults /\ faults' = faults + 1
<1>1. PICK c \in calls : Lose(c)
  BY DEF Lost
<1> QED BY <1>1 DEF Lose, TypedStep

\* What the theorem about the types rests on.
TypesInv ==
    /\ QuietCardsInv /\ QuietProfilesInv /\ PaymentInv /\ SettingsInv
    /\ CallTypes /\ Bounded
    /\ ProfilesTypeOK /\ PeersTypeOK /\ PaymentsTypeOK /\ SettingsTypeOK

LEMMA TypesInvInit == Init => TypesInv
<1> SUFFICES ASSUME Init
             PROVE  TypesInv
  OBVIOUS
<1>1. QuietCardsInv /\ QuietProfilesInv /\ PaymentInv /\ SettingsInv
  BY QuietCardsInvInit, QuietProfilesInvInit, PaymentInvInit, SettingsInvInit
<1>2. view \in DOMAIN Views /\ calls = {} /\ events = 0 /\ faults = 0
  BY DEF Init, ThunksInit
<1>3. CallTypes /\ Bounded
  BY <1>2, ViewBounds DEF CallTypes, Bounded
<1>4. ProfilesTypeOK
  <2>1. ProfilesStored /\ ProfilesKeyed
    BY <1>1 DEF QuietProfilesInv, ProfileState, PagesInv
  <2> QED BY <2>1 DEF Init, ProfilesInit, ProfilesTypeOK, ProfilesStored, ProfilesKeyed
<1>5. PeersTypeOK
  <2>1. PeersInv
    BY <1>1 DEF QuietProfilesInv, PagesInv
  <2> QED BY <2>1 DEF Init, PeersInit, PeersTypeOK, PeersInv
<1>6. PaymentsTypeOK
  <2>1. Len(OwnersOf) \in Nat
    BY PaymentsAssumption
  <2> QED BY <2>1 DEF Init, PaymentsInit, PaymentsTypeOK, Kinds
<1>7. SettingsTypeOK
  BY DEF Init, SettingsInit, SettingsTypeOK
<1> QED BY <1>1, <1>3, <1>4, <1>5, <1>6, <1>7 DEF TypesInv

LEMMA TypesInvNext == TypesInv /\ [Next]_vars => TypesInv'
<1> SUFFICES ASSUME TypesInv, [Next]_vars
             PROVE  TypesInv'
  OBVIOUS
<1>1. /\ QuietCardsInv /\ QuietProfilesInv /\ PaymentInv /\ SettingsInv
      /\ CallTypes /\ Bounded
      /\ ProfilesTypeOK /\ PeersTypeOK /\ PaymentsTypeOK /\ SettingsTypeOK
  BY DEF TypesInv
<1>2. QuietCardsInv' /\ QuietProfilesInv' /\ PaymentInv' /\ SettingsInv'
  BY <1>1, QuietCardsInvNext, QuietProfilesInvNext, PaymentInvNext, SettingsInvNext
<1>3. /\ CallsInv /\ view \in DOMAIN Views /\ view' = view
      /\ PeersInv /\ ProfilesStored /\ ProfilesKeyed /\ \A c \in calls : ProfileAsked(c)
      /\ SettingsCalls /\ recorded \in [Kinds -> Nat]
  <2>1. recorded \in [Kinds -> Nat]
    <3>1. 0..Len(OwnersOf) \subseteq Nat
      OBVIOUS
    <3> QED BY <1>1, <3>1 DEF PaymentsTypeOK
  <2> QED BY <1>1, <2>1, ViewStays DEF QuietProfilesInv, PagesInv, ViewInv, ProfileState,
             SettingsInv, SettingsState
<1>4. \A c \in calls : PeerAsks(c)
  <2>1. PICK addresses : PeersKnown(addresses, peersMade)
    BY <1>1 DEF QuietProfilesInv, PagesInv
  <2> QED BY <2>1 DEF PeersKnown, PeerAsked
<1>5. PeersInv' /\ ProfilesStored' /\ ProfilesKeyed' /\ PaymentState'
  BY <1>2 DEF QuietProfilesInv, PagesInv, ProfileState, PaymentInv
<1>6. ASSUME UNCHANGED profileVars
      PROVE  ProfilesTypeOK'
  BY <1>1, <1>6 DEF ProfilesTypeOK, profileVars, profileNode, profileFields, profilePage
<1>7. ASSUME UNCHANGED peerVars
      PROVE  PeersTypeOK'
  BY <1>1, <1>7 DEF PeersTypeOK, peerVars, peerNode, peerFields
<1>8. ASSUME UNCHANGED paymentVars
      PROVE  PaymentsTypeOK'
  BY <1>1, <1>8 DEF PaymentsTypeOK, paymentVars, paymentPage
<1>9. ASSUME UNCHANGED settingsVars
      PROVE  SettingsTypeOK'
  BY <1>1, <1>9 DEF SettingsTypeOK, settingsVars, settingsNode, settingsFields
<1>10. ASSUME TypedStep, faults' = faults
       PROVE  CallTypes' /\ Bounded'
  BY <1>1, <1>3, <1>10, CallTypesKept, BoundedKept
<1>11. CASE Squeaks /\ UNCHANGED butSqueaks
  <2>1. TypedStep /\ faults' = faults
    BY <1>11, SqueaksTyped DEF Squeaks
  <2> QED BY <1>2, <1>6, <1>7, <1>8, <1>9, <1>10, <1>11, <2>1 DEF TypesInv, butSqueaks
<1>12. CASE Profiles /\ UNCHANGED butProfiles
  <2>1. TypedStep /\ faults' = faults
    BY <1>1, <1>3, <1>12, ProfileUserTyped, ProfileServerTyped, ProfileReplyTyped DEF Profiles
  <2>2. ProfilesTypeOK'
    BY <1>1, <1>5, <1>12, ProfilesTypeKept DEF Profiles
  <2> QED BY <1>2, <1>7, <1>8, <1>9, <1>10, <1>12, <2>1, <2>2 DEF TypesInv, butProfiles
<1>13. CASE Peers /\ UNCHANGED butPeers
  <2>1. TypedStep /\ faults' = faults
    BY <1>3, <1>4, <1>13, PeersTyped DEF Peers
  <2>2. PeersTypeOK'
    BY <1>1, <1>5, <1>13, PeersTypeKept DEF Peers
  <2> QED BY <1>2, <1>6, <1>8, <1>9, <1>10, <1>13, <2>1, <2>2 DEF TypesInv, butPeers
<1>14. CASE Payments /\ UNCHANGED butPayments
  <2>1. TypedStep /\ faults' = faults
    BY <1>1, <1>3, <1>14, PaymentsTyped DEF Payments
  <2>2. PaymentsTypeOK'
    BY <1>1, <1>5, <1>14, PaymentsTypeKept DEF Payments
  <2> QED BY <1>2, <1>6, <1>7, <1>9, <1>10, <1>14, <2>1, <2>2 DEF TypesInv, butPayments
<1>15. CASE Settings /\ UNCHANGED butSettings
  <2>1. TypedStep /\ faults' = faults
    BY <1>1, <1>3, <1>15, SettingsTyped DEF Settings
  <2>2. SettingsTypeOK'
    BY <1>1, <1>3, <1>15, SettingsTypeKept DEF Settings
  <2> QED BY <1>2, <1>6, <1>7, <1>8, <1>10, <1>15, <2>1, <2>2 DEF TypesInv, butSettings
<1>16. CASE Lost
  <2>1. CallTypes'
    BY <1>1, <1>3, <1>16, LostTyped, CallTypesKept
  <2>2. Bounded'
    BY <1>1, <1>3, <1>16, LostTyped, ViewBounds DEF Bounded
  <2> QED BY <1>2, <1>6, <1>7, <1>8, <1>9, <1>16, <2>1, <2>2 DEF TypesInv, Lost, butSqueaks
<1>17. CASE UNCHANGED vars
  <2>1. TypedStep /\ faults' = faults
    BY <1>17 DEF TypedStep, vars, thunkVars
  <2> QED BY <1>2, <1>6, <1>7, <1>8, <1>9, <1>10, <1>17, <2>1 DEF TypesInv, vars
<1> QED BY <1>11, <1>12, <1>13, <1>14, <1>15, <1>16, <1>17 DEF Next

LEMMA TypesInvTypes == TypesInv => TypeOK
<1> SUFFICES ASSUME TypesInv
             PROVE  TypeOK
  OBVIOUS
<1>1. SqueaksTypeOK
  BY DEF TypesInv, QuietCardsInv, SqueakTypes
<1>2. /\ view \in DOMAIN Views /\ None \notin loading
      /\ \A c \in calls : c.thunk \in view
  BY DEF TypesInv, QuietProfilesInv, PagesInv, ScreenInv, ViewInv
<1>3. \A c \in calls : c.id \in 1..events /\ c.writes \in BOOLEAN /\ c.crossed \in BOOLEAN
  BY DEF TypesInv, CallTypes, Typed
<1>4. \A c, d \in calls : c.id = d.id /\ c.thunk = d.thunk => c = d
  BY DEF TypesInv, CallTypes, Apart
<1> QED BY <1>1, <1>2, <1>3, <1>4 DEF TypesInv, Bounded, TypeOK, ThunksTypeOK

\* Whatever is done on the pages, however replies overtake each other and requests
\* fail, the slices, the pages and the node behind them hold values of their types,
\* no two calls under way are of one thunk and one act of the user, those that a
\* `then' dispatches included, and the bounds are kept (the reducers of the slices,
\* and the handlers that their requests run).
THEOREM FrontendTyped == Spec => []TypeOK
BY TypesInvInit, TypesInvNext, TypesInvTypes, PTL DEF Spec
=============================================================================
