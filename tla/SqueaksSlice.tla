---------------------------- MODULE SqueaksSlice ----------------------------
(***************************************************************************)
(* Squeaks in the web frontend: the slice of the store that holds them,    *)
(* the page of a squeak with its ancestors, replies, offers and payments,  *)
(* the pages that list squeaks as cards, and the form that makes one.      *)
(*                                                                         *)
(* The store has one current squeak, one list of replies, and so on, for   *)
(* whatever page is open; a reply does not say for which page it was       *)
(* asked.  Continuing a list and the texts of a search are in SqueakPages. *)
(***************************************************************************)
EXTENDS Thunks, Ordering

CONSTANTS
    Squeak,
    ReplyTo,     \* ReplyTo[s]: the squeak that s replies to, or None
    Newer,       \* <<s, t>> is in it if s is above t by block, time and hash
    ReplyLimit,  \* how many replies a page asks for, 9 in the code
    Made,        \* squeaks that are made here
    Offer,
    OfferOf      \* OfferOf[o]: the squeak whose key o sells

Row == [liked : BOOLEAN, open : BOOLEAN]
Entry == [hash : Squeak, liked : BOOLEAN, open : BOOLEAN]

ASSUME SqueaksAssumption ==
    /\ ReplyTo \in [Squeak -> Squeak \cup {None}]
    /\ Orders(Newer, Squeak) /\ ReplyLimit \in Nat
    /\ OfferOf \in [Offer -> Squeak]
    /\ Made \subseteq Squeak
    /\ None \notin Squeak \cup Offer \cup Row \cup Entry
    /\ Squeak \cap {"timeline", "search", "profile"} = {}
    /\ IsFiniteSet(Squeak \cup Offer)
    /\ \E height \in [Squeak -> 1..Cardinality(Squeak)] : \A s \in Squeak :
            ReplyTo[s] # None => height[ReplyTo[s]] < height[s]

VARIABLES
    row,            \* the node: row[s] says whether s is liked and open, or None
    made,           \* the node: squeaks that have been made
    paid,           \* the node: offers that are paid
    currentSqueak,
    squeakLists,    \* timelineSqueaks, ..., replySqueaks
    unfilled,       \* a full list of replies has lost one, no other takes its place
    squeakOffers,
    summaryForSqueak,
    squeakRoute,    \* the page that is open
    buyModalOpen,
    offer,          \* the offer that is chosen in the modal
    foreign,        \* fields that do not hold an answer for the squeak of the page
    carried         \* the offer was not chosen from the offers for that squeak

squeakNode == <<row, made, paid>>
squeakFields == <<currentSqueak, squeakLists, unfilled, squeakOffers, summaryForSqueak>>
squeakPage == <<squeakRoute, buyModalOpen, offer, carried>>
squeakVars == <<squeakNode, squeakFields, squeakPage, foreign>>
-----------------------------------------------------------------------------
(* The thunks.                                                             *)

fetchSqueak(s) ==
    Read("fetchSqueak", s, <<<<"getSqueak", s>>>>, "currentSqueakStatus")

setLikeSqueak(s) ==
    Write("setLikeSqueak", s, <<<<"likeSqueak", s>>, <<"getSqueak", s>>>>, None)

setUnlikeSqueak(s) ==
    Write("setUnlikeSqueak", s, <<<<"unlikeSqueak", s>>, <<"getSqueak", s>>>>, None)

setDeleteSqueak(s) == Write("setDeleteSqueak", s, <<<<"deleteSqueak", s>>>>, None)

fetchAncestorSqueaks(s) ==
    Read("fetchAncestorSqueaks", s, <<<<"getAncestorSqueaks", s>>>>, "ancestorSqueaksStatus")

fetchReplySqueaks(s) ==
    Read("fetchReplySqueaks", s, <<<<"getReplySqueaks", s>>>>, "replySqueaksStatus")

fetchTimeline == Read("fetchTimeline", None, <<<<"getTimelineSqueaks", None>>>>, "timelineSqueaksStatus")

fetchSearch == Read("fetchSearch", None, <<<<"getSearchSqueaks", None>>>>, "searchSqueaksStatus")

fetchProfileSqueaks ==
    Read("fetchProfileSqueaks", None, <<<<"getProfileSqueaks", None>>>>, "profileSqueaksStatus")

setMakeSqueak(replyTo) ==
    Write("setMakeSqueak", replyTo, <<<<"makeSqueak", replyTo>>>>, "makeSqueakStatus")

fetchSqueakOffers(s) ==
    Read("fetchSqueakOffers", s, <<<<"getSqueakOffers", s>>>>, "squeakOffersStatus")

setBuySqueak(o, s) ==
    Write("setBuySqueak", s, <<<<"buySqueak", o>>, <<"getSqueak", s>>>>, "buySqueakStatus")

setDownloadSqueak(s) ==
    Write("setDownloadSqueak", s, <<<<"downloadSqueak", s>>, <<"getSqueak", s>>>>,
          "downloadSqueakStatus")

fetchPaymentSummaryForSqueak(s) ==
    Read("fetchPaymentSummaryForSqueak", s, <<<<"getPaymentSummaryForSqueak", s>>>>, None)
-----------------------------------------------------------------------------
(* The node.                                                               *)

List == {"timeline", "search", "profile", "ancestor", "reply"}

Stored == {s \in Squeak : row[s] # None}

EntryOf(s) ==
    IF row[s] = None THEN None ELSE [hash |-> s, liked |-> row[s].liked, open |-> row[s].open]

Entries(S) == SetToSeq({EntryOf(s) : s \in S})

\* The squeak and those above it, as far as they are stored, the oldest first.
Thread(s) ==
    LET ways == UNION {[1..n -> Stored] : n \in 1..Cardinality(Squeak)}
        up == CHOOSE q \in ways :
                /\ ReplyTo[q[1]] \notin Stored /\ q[Len(q)] = s
                /\ \A i \in 2..Len(q) : ReplyTo[q[i]] = q[i - 1]
    IN  IF row[s] = None THEN <<>> ELSE [i \in DOMAIN up |-> EntryOf(up[i])]

\* The replies that the page of s is given, the newest first; it asks for no more.
Replies(s) ==
    LET first == FirstOf({t \in Stored : ReplyTo[t] = s}, Newer, ReplyLimit)
    IN  [i \in DOMAIN first |-> EntryOf(first[i])]

UnpaidOffers(s) == {o \in Offer \ paid : OfferOf[o] = s}

\* How many of the offers for s have been paid.
Spent(s) == Cardinality({o \in paid : OfferOf[o] = s})

getSqueak(c) ==
    /\ At(c, "getSqueak")
    /\ Answer(c, EntryOf(Argument(c)))
    /\ UNCHANGED squeakNode

getAncestorSqueaks(c) ==
    /\ At(c, "getAncestorSqueaks")
    /\ Answer(c, Thread(Argument(c)))
    /\ UNCHANGED squeakNode

getReplySqueaks(c) ==
    /\ At(c, "getReplySqueaks")
    /\ Answer(c, Replies(Argument(c)))
    /\ UNCHANGED squeakNode

getTimelineSqueaks(c) ==
    /\ At(c, "getTimelineSqueaks")
    /\ Answer(c, Entries(Stored))
    /\ UNCHANGED squeakNode

\* Only a content that is open can match.
getSearchSqueaks(c) ==
    /\ At(c, "getSearchSqueaks")
    /\ Answer(c, Entries({s \in Stored : row[s].open}))
    /\ UNCHANGED squeakNode

getProfileSqueaks(c) ==
    /\ At(c, "getProfileSqueaks")
    /\ Answer(c, Entries(Stored))
    /\ UNCHANGED squeakNode

getSqueakOffers(c) ==
    /\ At(c, "getSqueakOffers")
    /\ Answer(c, UnpaidOffers(Argument(c)))
    /\ UNCHANGED squeakNode

getPaymentSummaryForSqueak(c) ==
    /\ At(c, "getPaymentSummaryForSqueak")
    /\ Answer(c, Spent(Argument(c)))
    /\ UNCHANGED squeakNode

\* To like a squeak that is gone changes nothing.
SetLiked(s, on) == row' = IF row[s] = None THEN row ELSE [row EXCEPT ![s].liked = on]

likeSqueak(c) ==
    /\ At(c, "likeSqueak")
    /\ SetLiked(Argument(c), TRUE)
    /\ Answer(c, None)
    /\ UNCHANGED <<made, paid>>

unlikeSqueak(c) ==
    /\ At(c, "unlikeSqueak")
    /\ SetLiked(Argument(c), FALSE)
    /\ Answer(c, None)
    /\ UNCHANGED <<made, paid>>

deleteSqueak(c) ==
    /\ At(c, "deleteSqueak")
    /\ row' = [row EXCEPT ![Argument(c)] = None]
    /\ Answer(c, None)
    /\ UNCHANGED <<made, paid>>

\* A squeak that is made is new, and its author can read it.
makeSqueak(c) ==
    /\ At(c, "makeSqueak")
    /\ \/ \E s \in Made \ made :
            /\ ReplyTo[s] = Argument(c)
            /\ row' = [row EXCEPT ![s] = [liked |-> FALSE, open |-> TRUE]]
            /\ made' = made \cup {s}
            /\ Answer(c, s)
       \/ Refuse(c) /\ UNCHANGED <<row, made>>
    /\ UNCHANGED paid

\* The peers send it, locked or not, or none of them has it.
downloadSqueak(c) ==
    /\ At(c, "downloadSqueak")
    /\ LET s == Argument(c)
       IN  \/ row[s] = None /\ s \notin Made \ made /\ \E open \in BOOLEAN :
                row' = [row EXCEPT ![s] = [liked |-> FALSE, open |-> open]]
           \/ UNCHANGED row
    /\ Answer(c, None)
    /\ UNCHANGED <<made, paid>>

\* The payment fails, or the key it buys is for a squeak that is gone.
buySqueak(c) ==
    /\ At(c, "buySqueak")
    /\ LET o == Argument(c)
           s == OfferOf[o]
       IN  \/ /\ o \notin paid
              /\ paid' = paid \cup {o}
              /\ IF row[s] = None
                 THEN Refuse(c) /\ UNCHANGED row
                 ELSE Answer(c, None) /\ row' = [row EXCEPT ![s].open = TRUE]
           \/ Refuse(c) /\ UNCHANGED <<row, paid>>
    /\ UNCHANGED made

SqueakThunks ==
    {"fetchSqueak", "setLikeSqueak", "setUnlikeSqueak", "setDeleteSqueak",
     "fetchAncestorSqueaks", "fetchReplySqueaks", "fetchTimeline", "fetchSearch",
     "fetchProfileSqueaks", "setMakeSqueak", "fetchSqueakOffers", "setBuySqueak",
     "setDownloadSqueak", "fetchPaymentSummaryForSqueak"}

SqueakServer ==
    /\ \E c \in Of(SqueakThunks) :
        \/ getSqueak(c) \/ getAncestorSqueaks(c) \/ getReplySqueaks(c)
        \/ getTimelineSqueaks(c) \/ getSearchSqueaks(c) \/ getProfileSqueaks(c)
        \/ getSqueakOffers(c) \/ getPaymentSummaryForSqueak(c)
        \/ likeSqueak(c) \/ unlikeSqueak(c) \/ deleteSqueak(c)
        \/ makeSqueak(c) \/ downloadSqueak(c) \/ buySqueak(c)
    /\ UNCHANGED <<squeakFields, squeakPage, foreign>>
    /\ UNCHANGED <<view, loading, events, faults, doubt, crashed>>
-----------------------------------------------------------------------------
(* The reducers.                                                           *)

PageFields == {"current", "ancestor", "reply", "offers", "summary"}
SqueakFields == PageFields \cup List

FieldOf(thunk) ==
    CASE thunk = "fetchSqueak" -> "current"
      [] thunk = "fetchAncestorSqueaks" -> "ancestor"
      [] thunk = "fetchReplySqueaks" -> "reply"
      [] thunk = "fetchTimeline" -> "timeline"
      [] thunk = "fetchSearch" -> "search"
      [] thunk = "fetchProfileSqueaks" -> "profile"
      [] thunk = "fetchSqueakOffers" -> "offers"
      [] OTHER -> "summary"

\* Mutant: the first place of the list, index 0, is taken for `not found'.
updatedSqueakInArray_NotFirst(list, e) ==
    LET i == SelectInSeq(list, LAMBDA d : d.hash = e.hash)
    IN  IF i <= 1 THEN list ELSE [list EXCEPT ![i] = e]

\* The first entry of the squeak is replaced.
updatedSqueakInArray(list, e) ==
    LET i == SelectInSeq(list, LAMBDA d : d.hash = e.hash)
    IN  IF i = 0 THEN list ELSE [list EXCEPT ![i] = e]

removeSqueakInArray(list, s) == Picked(list, {i \in DOMAIN list : list[i].hash # s})

\* A reply without an entry is only harmless if nothing is compared with it.
Throws(c) ==
    c.reply = None /\ (currentSqueak # None \/ \E l \in List : squeakLists[l] # <<>>)

\* A field of the page is overwritten, whichever page it was asked for.
Arrives(c, field) ==
    /\ Replaces(c, field)
    /\ foreign' = IF c.arg = squeakRoute THEN foreign \ {field} ELSE foreign \cup {field}

fetchSqueakFulfilled(c) ==
    /\ Done(c, "fetchSqueak")
    /\ currentSqueak' = c.reply
    /\ Settle(c, {}) /\ Arrives(c, "current")
    /\ UNCHANGED <<squeakLists, unfilled, squeakOffers, summaryForSqueak, squeakPage>>

fetchAncestorSqueaksFulfilled(c) ==
    /\ Done(c, "fetchAncestorSqueaks")
    /\ squeakLists' = [squeakLists EXCEPT !["ancestor"] = c.reply]
    /\ Settle(c, {}) /\ Arrives(c, "ancestor")
    /\ UNCHANGED <<currentSqueak, unfilled, squeakOffers, summaryForSqueak, squeakPage>>

fetchReplySqueaksFulfilled(c) ==
    /\ Done(c, "fetchReplySqueaks")
    /\ squeakLists' = [squeakLists EXCEPT !["reply"] = c.reply]
    /\ unfilled' = FALSE
    /\ Settle(c, {}) /\ Arrives(c, "reply")
    /\ UNCHANGED <<currentSqueak, squeakOffers, summaryForSqueak, squeakPage>>

fetchListFulfilled(c) ==
    /\ \E thunk \in {"fetchTimeline", "fetchSearch", "fetchProfileSqueaks"} : Done(c, thunk)
    /\ squeakLists' = [squeakLists EXCEPT ![FieldOf(c.thunk)] = @ \o c.reply]
    /\ Settle(c, {}) /\ Updates(c, {FieldOf(c.thunk)})
    /\ UNCHANGED <<currentSqueak, unfilled, squeakOffers, summaryForSqueak, squeakPage, foreign>>

fetchSqueakOffersFulfilled(c) ==
    /\ Done(c, "fetchSqueakOffers")
    /\ squeakOffers' = c.reply
    /\ Settle(c, {}) /\ Arrives(c, "offers")
    /\ UNCHANGED <<currentSqueak, squeakLists, unfilled, summaryForSqueak, squeakPage>>

fetchPaymentSummaryForSqueakFulfilled(c) ==
    /\ Done(c, "fetchPaymentSummaryForSqueak")
    /\ summaryForSqueak' = c.reply
    /\ Settle(c, {}) /\ Arrives(c, "summary")
    /\ UNCHANGED <<currentSqueak, squeakLists, unfilled, squeakOffers, squeakPage>>

\* Mutant: the reply becomes the current squeak whichever that is.
StoreSqueak_AnyCurrent(e) ==
    /\ currentSqueak' = e
    /\ squeakLists' = [l \in List |-> updatedSqueakInArray(squeakLists[l], e)]

\* Mutant: the current squeak stays as it was.
StoreSqueak_OnlyLists(e) ==
    /\ UNCHANGED currentSqueak
    /\ squeakLists' = [l \in List |-> updatedSqueakInArray(squeakLists[l], e)]

\* The new state of a squeak replaces it wherever it is.
StoreSqueak(e) ==
    /\ currentSqueak' = IF currentSqueak # None /\ currentSqueak.hash = e.hash
                        THEN e ELSE currentSqueak
    /\ squeakLists' = [l \in List |-> updatedSqueakInArray(squeakLists[l], e)]

setLikeSqueakFulfilled(c) ==
    /\ Done(c, "setLikeSqueak") /\ ~Throws(c)
    /\ StoreSqueak(c.reply)
    /\ Settle(c, {}) /\ Updates(c, SqueakFields)
    /\ UNCHANGED <<unfilled, squeakOffers, summaryForSqueak, squeakPage, foreign>>

setUnlikeSqueakFulfilled(c) ==
    /\ Done(c, "setUnlikeSqueak") /\ ~Throws(c)
    /\ StoreSqueak(c.reply)
    /\ Settle(c, {}) /\ Updates(c, SqueakFields)
    /\ UNCHANGED <<unfilled, squeakOffers, summaryForSqueak, squeakPage, foreign>>

setDeleteSqueakFulfilled(c) ==
    /\ Done(c, "setDeleteSqueak")
    /\ currentSqueak' = IF currentSqueak # None /\ currentSqueak.hash = c.arg
                        THEN None ELSE currentSqueak
    /\ squeakLists' = [l \in List |-> removeSqueakInArray(squeakLists[l], c.arg)]
    /\ unfilled' = \/ unfilled
                   \/ Len(squeakLists["reply"]) = ReplyLimit /\ Len(squeakLists'["reply"]) < ReplyLimit
    /\ Settle(c, {}) /\ Updates(c, SqueakFields)
    /\ UNCHANGED <<squeakOffers, summaryForSqueak, squeakPage, foreign>>

\* The purchase may have been made from another page; the payments of the page
\* it was made from are read again.  The offers are not, until the modal opens.
setBuySqueakFulfilled(c) ==
    /\ Done(c, "setBuySqueak") /\ ~Throws(c)
    /\ StoreSqueak(c.reply)
    /\ Settle(c, {fetchPaymentSummaryForSqueak(c.arg)})
    /\ doubt' = doubt \cup (IF c.crossed THEN SqueakFields ELSE {"offers"})
    /\ UNCHANGED <<unfilled, squeakOffers, summaryForSqueak, squeakPage, foreign>>

\* The squeak becomes the current one, whatever the page shows by now.
setDownloadSqueakFulfilled(c) ==
    /\ Done(c, "setDownloadSqueak")
    /\ currentSqueak' = c.reply
    /\ Settle(c, {})
    /\ Updates(c, SqueakFields)
    /\ foreign' = IF c.arg = squeakRoute THEN foreign \ {"current"} ELSE foreign \cup {"current"}
    /\ UNCHANGED <<squeakLists, unfilled, squeakOffers, summaryForSqueak, squeakPage>>

\* The reducers of like, unlike and buy read the hash of an entry that is not there.
SqueakReducerThrows(c) ==
    /\ \E thunk \in {"setLikeSqueak", "setUnlikeSqueak", "setBuySqueak"} : Done(c, thunk)
    /\ Throws(c)
    /\ Crash(c)
    /\ doubt' = doubt \cup SqueakFields
    /\ UNCHANGED <<squeakFields, squeakPage, foreign>>

\* Mutant: the slice has no case for a purchase that fails.
RejectedIsHandled_NotBuy(c) == c.thunk \in {"setMakeSqueak", "setDownloadSqueak"}

RejectedIsHandled(c) == c.thunk \in {"setMakeSqueak", "setBuySqueak", "setDownloadSqueak"}

SqueakThunkRejected(c) ==
    /\ c.thunk \in SqueakThunks
    /\ Rejected(c, RejectedIsHandled(c), IF c.writes THEN SqueakFields ELSE {FieldOf(c.thunk)})
    /\ UNCHANGED <<squeakFields, squeakPage, foreign>>
-----------------------------------------------------------------------------
(* The pages.                                                              *)

\* The effect of the page of s.
SqueakMounted(s) ==
    {fetchSqueak(s), fetchAncestorSqueaks(s), fetchReplySqueaks(s), fetchSqueakOffers(s),
     fetchPaymentSummaryForSqueak(s)}

\* A link from one squeak to another keeps the component, with its modal and
\* the offer chosen in it.
ShowSqueak(s) ==
    /\ squeakRoute' = s
    /\ foreign' = PageFields
    /\ IF squeakRoute \in Squeak
       THEN carried' = (offer # None) /\ UNCHANGED <<buyModalOpen, offer>>
       ELSE buyModalOpen' = FALSE /\ offer' = None /\ carried' = FALSE

OpenSqueak(s) ==
    /\ s # squeakRoute /\ s \notin Made \ made
    /\ Dispatch(SqueakMounted(s))
    /\ ShowSqueak(s)
    /\ UNCHANGED <<squeakNode, squeakFields, doubt>>

\* A page that lists squeaks clears its list and fetches it.
OpenList(l, thunk) ==
    /\ l # squeakRoute
    /\ Dispatch({thunk})
    /\ squeakLists' = [squeakLists EXCEPT ![l] = <<>>]
    /\ doubt' = doubt \ {l}
    /\ squeakRoute' = l /\ buyModalOpen' = FALSE /\ offer' = None /\ carried' = FALSE
    /\ UNCHANGED <<squeakNode, currentSqueak, unfilled, squeakOffers, summaryForSqueak, foreign>>

OpenTimeline == OpenList("timeline", fetchTimeline)
OpenSearch == OpenList("search", fetchSearch)
OpenProfileSqueaks == OpenList("profile", fetchProfileSqueaks)

\* The page lies under the overlay of a call that blocks the screen, or under
\* the modal of its offers, which is there while there is a current squeak.
Blocking == {"makeSqueakStatus", "buySqueakStatus", "downloadSqueakStatus"}
Blocked == loading \cap Blocking # {}
ModalShown == squeakRoute \in Squeak /\ buyModalOpen /\ currentSqueak # None
Clickable == ~Blocked /\ ~ModalShown

\* The squeak that the page shows as its own, the loader apart.
Shown == squeakRoute \in Squeak /\ "currentSqueakStatus" \notin loading
ShownSqueak == IF Shown THEN currentSqueak ELSE None

\* The page does not show the last of the ancestors, it takes it for its own squeak.
Cards ==
    ToSet(IF squeakRoute \in List THEN squeakLists[squeakRoute]
          ELSE IF squeakRoute = None THEN <<>>
          ELSE (IF "ancestorSqueaksStatus" \in loading THEN <<>> ELSE Front(squeakLists["ancestor"]))
               \o (IF "replySqueaksStatus" \in loading THEN <<>> ELSE squeakLists["reply"]))

\* The heart shows the state of an entry and asks for the other one.
Heart(e, s) == Dispatch({IF e.liked THEN setUnlikeSqueak(s) ELSE setLikeSqueak(s)})

ClickPageHeart ==
    /\ Clickable /\ ShownSqueak # None
    /\ Heart(ShownSqueak, squeakRoute)
    /\ UNCHANGED <<squeakVars, doubt>>

ClickPageDelete ==
    /\ Clickable /\ ShownSqueak # None
    /\ Dispatch({setDeleteSqueak(squeakRoute)})
    /\ UNCHANGED <<squeakVars, doubt>>

ClickDownload ==
    /\ Clickable /\ Shown /\ ShownSqueak = None
    /\ Dispatch({setDownloadSqueak(squeakRoute)})
    /\ UNCHANGED <<squeakVars, doubt>>

ClickCardHeart(e) ==
    /\ Clickable
    /\ Heart(e, e.hash)
    /\ UNCHANGED <<squeakVars, doubt>>

ClickCardDelete(e) ==
    /\ Clickable
    /\ Dispatch({setDeleteSqueak(e.hash)})
    /\ UNCHANGED <<squeakVars, doubt>>

\* A click on Unlock opens the modal, and loads the offers; one beside it closes it.
toggleBuyModal ==
    /\ ~Blocked /\ IF buyModalOpen THEN ModalShown ELSE ShownSqueak # None /\ ~ShownSqueak.open
    /\ buyModalOpen' = ~buyModalOpen
    /\ IF buyModalOpen THEN UNCHANGED thunkVars
       ELSE Dispatch({fetchSqueakOffers(squeakRoute)}) /\ UNCHANGED doubt
    /\ UNCHANGED <<squeakNode, squeakFields, squeakRoute, offer, carried, foreign>>

handleChangeOffer(o) ==
    /\ ModalShown /\ ~Blocked
    /\ o \in squeakOffers
    /\ offer' = o
    /\ carried' = ("offers" \in foreign)
    /\ UNCHANGED <<thunkVars, squeakNode, squeakFields, squeakRoute, buyModalOpen, foreign>>

\* The modal closes at once, the purchase goes on.  Of the squeak that the offer is
\* for, only the state of the page is read again: if it is another one, the cards
\* of that one stay as they were.
ClickBuy ==
    /\ ModalShown /\ ~Blocked /\ offer # None
    /\ Dispatch({setBuySqueak(offer, squeakRoute)})
    /\ buyModalOpen' = FALSE
    /\ doubt' = IF OfferOf[offer] = squeakRoute THEN doubt ELSE doubt \cup List
    /\ UNCHANGED <<squeakNode, squeakFields, squeakRoute, offer, carried, foreign>>

\* The form, opened from the menu, from the page, or from a card.
submitSqueak(replyTo) ==
    /\ Clickable
    /\ Dispatch({setMakeSqueak(replyTo)})
    /\ UNCHANGED <<squeakVars, doubt>>

ReplyTargets == {None} \cup {e.hash : e \in Cards \cup ({ShownSqueak} \ {None})}

\* The page of the new squeak is opened.
setMakeSqueakFulfilled(c) ==
    /\ Done(c, "setMakeSqueak")
    /\ Settle(c, SqueakMounted(c.reply))
    /\ ShowSqueak(c.reply)
    /\ UNCHANGED <<squeakNode, squeakFields, doubt>>
-----------------------------------------------------------------------------
SqueaksInit ==
    /\ row \in [Squeak -> Row \cup {None}]
    /\ \A s \in Stored : s \notin Made /\ ~row[s].liked
    /\ made = {} /\ paid = {}
    /\ currentSqueak = None
    /\ squeakLists = [l \in List |-> <<>>] /\ unfilled = FALSE
    /\ squeakOffers = {} /\ summaryForSqueak = None
    /\ squeakRoute = None /\ buyModalOpen = FALSE /\ offer = None
    /\ foreign = PageFields /\ carried = FALSE

SqueakUser ==
    \/ \E s \in Squeak : OpenSqueak(s)
    \/ OpenTimeline \/ OpenSearch \/ OpenProfileSqueaks
    \/ ClickPageHeart \/ ClickPageDelete \/ ClickDownload
    \/ \E e \in Cards : ClickCardHeart(e) \/ ClickCardDelete(e)
    \/ toggleBuyModal \/ ClickBuy
    \/ \E o \in Offer : handleChangeOffer(o)
    \/ \E r \in ReplyTargets : submitSqueak(r)

SqueakReply ==
    /\ \E c \in calls :
        \/ fetchSqueakFulfilled(c) \/ fetchAncestorSqueaksFulfilled(c)
        \/ fetchReplySqueaksFulfilled(c) \/ fetchListFulfilled(c)
        \/ fetchSqueakOffersFulfilled(c) \/ fetchPaymentSummaryForSqueakFulfilled(c)
        \/ setLikeSqueakFulfilled(c) \/ setUnlikeSqueakFulfilled(c)
        \/ setDeleteSqueakFulfilled(c) \/ setMakeSqueakFulfilled(c)
        \/ setBuySqueakFulfilled(c) \/ setDownloadSqueakFulfilled(c)
        \/ SqueakReducerThrows(c) \/ SqueakThunkRejected(c)
    /\ UNCHANGED squeakNode
-----------------------------------------------------------------------------
(* Safety.                                                                 *)

SqueaksTypeOK ==
    /\ row \in [Squeak -> Row \cup {None}]
    /\ made \subseteq Made /\ paid \subseteq Offer
    /\ currentSqueak \in Entry \cup {None}
    /\ squeakLists \in [List -> Seq(Entry)] /\ unfilled \in BOOLEAN
    /\ squeakOffers \subseteq Offer
    /\ summaryForSqueak \in 0..Cardinality(Offer) \cup {None}
    /\ squeakRoute \in Squeak \cup {"timeline", "search", "profile", None}
    /\ buyModalOpen \in BOOLEAN /\ offer \in Offer \cup {None}
    /\ foreign \subseteq PageFields /\ carried \in BOOLEAN

ShownOnce(l, s) == Cardinality({i \in 1..Len(squeakLists[l]) : squeakLists[l][i].hash = s}) = 1

\* Once nothing is under way, every card shows the state of its squeak, and the page
\* of a squeak its newest replies in their order, as many as the page asks for and
\* fewer only if there are no more, or if one was deleted from a list that was full;
\* but for what overlapping or failed calls may have left stale, and for answers to
\* another page.
QuietSqueaksTrue ==
    calls = {} =>
        /\ \A l \in List \ doubt : \A e \in ToSet(squeakLists[l]) :
                ShownOnce(l, e.hash) => e = EntryOf(e.hash)
        /\ squeakRoute \in Squeak /\ "reply" \notin foreign \cup doubt =>
                LET shown == squeakLists["reply"]
                    newest == Replies(squeakRoute)
                IN  IsPrefix(shown, newest) /\ (unfilled \/ Len(shown) = Len(newest))

\* The page of a squeak then shows that squeak as the node has it, or none, its
\* unpaid offers and what was spent on it; with the same exceptions.
QuietSqueakPageTrue ==
    calls = {} /\ squeakRoute \in Squeak =>
        \A field \in PageFields \ (foreign \cup doubt) :
            CASE field = "current" -> currentSqueak = EntryOf(squeakRoute)
              [] field = "offers" -> squeakOffers = UnpaidOffers(squeakRoute)
              [] field = "summary" -> summaryForSqueak = Spent(squeakRoute)
              [] OTHER -> TRUE

\* Whatever is liked, bought or deleted meanwhile on the cards and on other
\* pages, a page never shows another squeak as its own, and never sells another
\* one's key, unless an answer for another page came in after its own.
PageShowsItsSqueak ==
    squeakRoute \in Squeak =>
        /\ "current" \in foreign \/ currentSqueak = None \/ currentSqueak.hash = squeakRoute
        /\ "offers" \in foreign \/ \A o \in squeakOffers : OfferOf[o] = squeakRoute
        /\ offer = None \/ carried \/ OfferOf[offer] = squeakRoute

\* Whether a purchase, a download or the making of a squeak succeeds or fails, and
\* in whatever order two of them end, it covers the screen only while a call is
\* under way, unless the reducer of its reply threw.
ScreenBlockedByCall ==
    \A status \in loading \cap Blocking :
        status \in crashed \/ \E c \in calls : c.status = status
=============================================================================
