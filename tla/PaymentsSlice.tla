---------------------------- MODULE PaymentsSlice ----------------------------
(***************************************************************************)
(* Payments in the web frontend: the lists of what was sent and received,  *)
(* of all squeaks, of one squeak or of one author, and the totals.         *)
(*                                                                         *)
(* There is one list of each kind in the store, for whatever page is open. *)
(* It is read in parts, each from the last payment that is in the list.    *)
(***************************************************************************)
EXTENDS Thunks, Ordering

CONSTANTS
    SqueakOwners,    \* squeaks whose page has a list of payments
    PubkeyOwners,    \* authors whose page has one
    OwnersOf,        \* OwnersOf[i]: squeak and author of the i-th payment
    PageSize         \* how many payments are asked for

Owners == SqueakOwners \cup PubkeyOwners

ASSUME PaymentsAssumption ==
    /\ None \notin Owners /\ SqueakOwners \cap PubkeyOwners = {}
    /\ OwnersOf \in Seq(SUBSET Owners)
    /\ PageSize \in Nat \ {0}
    /\ None \notin {"sentPaymentsStatus", "receivedPaymentsStatus"}
    /\ None \notin DOMAIN OwnersOf

VARIABLES
    recorded,        \* the node: how many payments there are of each kind, by age
    paymentLists,    \* sentPayments, receivedPayments
    paymentSummary,
    paymentsRoute,   \* whose payments are open: an owner, "all", or None
    paymentsTab,     \* the list that is mounted
    listOf,          \* for whom, and with which act, a list was cleared last
    mixed            \* lists that have got an answer to another page

paymentPage == <<paymentsRoute, paymentsTab, listOf, mixed>>
paymentVars == <<recorded, paymentLists, paymentSummary, paymentPage>>
-----------------------------------------------------------------------------
Kinds == {"sent", "received"}

StatusOf(kind) == IF kind = "sent" THEN "sentPaymentsStatus" ELSE "receivedPaymentsStatus"

\* The requests of the two lists are alike; `last' is the payment to go on from.
fetchPayments(thunk, kind, owner, last) ==
    Read(thunk, owner, <<<<thunk, <<owner, last>>>>>>, StatusOf(kind))

fetchSentPayments(owner, last) == fetchPayments("fetchSentPayments", "sent", owner, last)

fetchReceivedPayments(owner, last) ==
    fetchPayments("fetchReceivedPayments", "received", owner, last)

fetchList(kind, owner, last) ==
    IF kind = "sent" THEN fetchSentPayments(owner, last) ELSE fetchReceivedPayments(owner, last)

fetchPaymentSummary == Read("fetchPaymentSummary", None, <<<<"getPaymentSummary", None>>>>, None)
-----------------------------------------------------------------------------
(* The node.                                                               *)

Belongs(i, owner) == owner = "all" \/ owner \in OwnersOf[i]

\* Payments are made and taken at any time (those of a list that is followed).
Record(kind) ==
    /\ fetchList(kind, "all", None).thunk \in view
    /\ recorded[kind] < Len(OwnersOf)
    /\ recorded' = [recorded EXCEPT ![kind] = @ + 1]

PaymentRecorded ==
    /\ \E kind \in Kinds : Record(kind)
    /\ UNCHANGED <<thunkVars, paymentLists, paymentSummary, paymentPage>>

\* Mutant: the payment that is given is part of the answer again.
Older_Inclusive(kind, owner, last) ==
    {i \in 1..recorded[kind] : Belongs(i, owner) /\ (last = None \/ i <= last)}

\* Those of the owner before the one that is given, or all of them.
Older(kind, owner, last) ==
    {i \in 1..recorded[kind] : Belongs(i, owner) /\ (last = None \/ i < last)}

\* The newest of them, the newest first.
NewestFirst(S) == FirstOf(S, {p \in S \X S : p[1] > p[2]}, PageSize)

getSentPayments(c) ==
    /\ At(c, "fetchSentPayments")
    /\ Answer(c, NewestFirst(Older("sent", Argument(c)[1], Argument(c)[2])))

getReceivedPayments(c) ==
    /\ At(c, "fetchReceivedPayments")
    /\ Answer(c, NewestFirst(Older("received", Argument(c)[1], Argument(c)[2])))

getPaymentSummary(c) ==
    /\ At(c, "getPaymentSummary")
    /\ Answer(c, recorded)

PaymentThunks == {"fetchSentPayments", "fetchReceivedPayments", "fetchPaymentSummary"}

PaymentServer ==
    /\ \E c \in Of(PaymentThunks) :
        getSentPayments(c) \/ getReceivedPayments(c) \/ getPaymentSummary(c)
    /\ UNCHANGED paymentVars
    /\ UNCHANGED <<view, loading, events, faults, doubt, crashed>>
-----------------------------------------------------------------------------
(* The reducers.                                                           *)

KindOf(c) == IF c.thunk = "fetchSentPayments" THEN "sent" ELSE "received"

\* The list has been cleared for another page since the call was made, or the
\* call was made from a page that went on with the list of another one.
Strange(c) == c.id < listOf[KindOf(c)].since \/ c.arg # listOf[KindOf(c)].owner

fetchPaymentsFulfilled(c) ==
    /\ Done(c, "fetchSentPayments") \/ Done(c, "fetchReceivedPayments")
    /\ paymentLists' = [paymentLists EXCEPT ![KindOf(c)] = @ \o c.reply]
    /\ mixed' = IF Strange(c) THEN mixed \cup {KindOf(c)} ELSE mixed
    /\ Settle(c, {})
    /\ UNCHANGED <<doubt, paymentSummary, paymentsRoute, paymentsTab, listOf>>

fetchPaymentSummaryFulfilled(c) ==
    /\ Done(c, "fetchPaymentSummary")
    /\ paymentSummary' = c.reply
    /\ Settle(c, {})
    /\ UNCHANGED <<doubt, paymentLists, paymentPage>>

PaymentThunkRejected(c) ==
    /\ c.thunk \in PaymentThunks
    /\ Rejected(c, FALSE, {})
    /\ UNCHANGED <<paymentLists, paymentSummary, paymentPage>>
-----------------------------------------------------------------------------
(* The pages.                                                              *)

\* The list of a kind is mounted: it is cleared, its status too, and fetched.
MountPayments(kind, owner) ==
    /\ events < Views[view].acts /\ Cardinality(calls) <= MaxCalls
    /\ LET c == fetchList(kind, owner, None)
       IN  /\ calls' = Begin({c}, events + 1, calls)
           /\ loading' = (loading \ {StatusOf(kind)}) \cup Pending({c})
    /\ events' = events + 1
    /\ paymentLists' = [paymentLists EXCEPT ![kind] = <<>>]
    /\ listOf' = [listOf EXCEPT ![kind] = [owner |-> owner, since |-> events + 1]]
    /\ mixed' = mixed \ {kind}
    /\ UNCHANGED <<view, faults, doubt, crashed, recorded, paymentSummary>>

\* The effect depends on the squeak, not on the author: from the page of an
\* author to that of another one the list stays, and is not read.
OpenPayments(owner) ==
    /\ owner # paymentsRoute
    /\ paymentsRoute' = owner
    /\ IF owner \in PubkeyOwners /\ paymentsRoute \in PubkeyOwners
       THEN UNCHANGED <<thunkVars, recorded, paymentLists, paymentSummary, paymentsTab, listOf, mixed>>
       ELSE /\ paymentsTab' = IF {owner, paymentsRoute} \subseteq SqueakOwners
                              THEN paymentsTab ELSE "sent"
            /\ MountPayments(paymentsTab', owner)

SwitchTab ==
    /\ paymentsRoute # None
    /\ \E kind \in Kinds \ {paymentsTab} :
        paymentsTab' = kind /\ MountPayments(kind, paymentsRoute)
    /\ UNCHANGED paymentsRoute

\* Not while a part is loading.
LoadMore ==
    /\ paymentsRoute # None /\ StatusOf(paymentsTab) \notin loading
    /\ LET list == paymentLists[paymentsTab]
       IN  Dispatch({fetchList(paymentsTab, paymentsRoute,
                               IF list = <<>> THEN None ELSE Last(list))})
    /\ UNCHANGED <<paymentVars, doubt>>

\* The totals, beside every page.
OpenFeed == Dispatch({fetchPaymentSummary}) /\ UNCHANGED <<paymentVars, doubt>>
-----------------------------------------------------------------------------
PaymentsInit ==
    /\ recorded = [kind \in Kinds |-> 0]
    /\ paymentLists = [kind \in Kinds |-> <<>>] /\ paymentSummary = None
    /\ paymentsRoute = None /\ paymentsTab = "sent"
    /\ listOf = [kind \in Kinds |-> [owner |-> None, since |-> 0]]
    /\ mixed = {}

PaymentUser ==
    \/ \E owner \in Owners \cup {"all"} : OpenPayments(owner)
    \/ SwitchTab \/ LoadMore \/ OpenFeed

PaymentReply ==
    /\ \E c \in calls :
        fetchPaymentsFulfilled(c) \/ fetchPaymentSummaryFulfilled(c) \/ PaymentThunkRejected(c)
    /\ UNCHANGED recorded
-----------------------------------------------------------------------------
PaymentsTypeOK ==
    /\ recorded \in [Kinds -> 0..Len(OwnersOf)]
    /\ paymentLists \in [Kinds -> Seq(1..Len(OwnersOf))]
    /\ paymentSummary \in [Kinds -> Nat] \cup {None}
    /\ paymentsRoute \in Owners \cup {"all", None} /\ paymentsTab \in Kinds
    /\ listOf \in [Kinds -> [owner : Owners \cup {"all", None}, since : Nat]]
    /\ mixed \subseteq Kinds

\* However the parts of a list are fetched while payments go on, a list that has
\* got no answer to another page holds payments of its owner only, each once, the
\* newest first, and none between them is missing.
PaymentListsInOrder ==
    \A kind \in Kinds \ mixed :
        LET list == paymentLists[kind]
            owner == listOf[kind].owner
        IN  /\ \A i, j \in DOMAIN list : i < j => list[i] > list[j]
            /\ list # <<>> => ToSet(list) =
                    {i \in Last(list)..Head(list) : Belongs(i, owner)}
=============================================================================
