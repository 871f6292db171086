--------------------------- MODULE OfferPurchase ---------------------------
(***************************************************************************)
(* How a node gets the secret key of a squeak: PeerDownloader.download_    *)
(* secret_key takes it for free or saves an offer of the peer, and         *)
(* SqueakStore.pay_offer pays an offer through lnd, records the payment,   *)
(* marks the offer and saves the key.  Both run on many threads (download  *)
(* pools whose runs overlap, admin requests) over the same tables, with a  *)
(* worker that deletes expired offers, and no lock.                        *)
(*                                                                         *)
(* The peers and lnd are external.  The row of a squeak is reduced to      *)
(* whether it is there and has its key: SqueakStore has the rest.          *)
(***************************************************************************)
EXTENDS Integers, FiniteSets

CONSTANTS
    Downloader,   \* threads that download from peers
    Payer,        \* threads that pay offers
    Squeak,
    Peer,
    Invoice,      \* invoices that peers issue, named by their payment hash
    SqueakOf,     \* SqueakOf[i]: the squeak that i is for
    PeerOf,       \* PeerOf[i]: the peer that sells it
    Honest,       \* invoices whose preimage gives the right key
    None,
    Requests,     \* what users do
    Faults,       \* what goes wrong
    MaxFaults     \* bound: how often it goes wrong

ASSUME ThreadAssumption ==
    /\ IsFiniteSet(Downloader) /\ IsFiniteSet(Payer)
    /\ Downloader # {} /\ Downloader \cap Payer = {}

ASSUME InvoiceAssumption ==
    /\ SqueakOf \in [Invoice -> Squeak]
    /\ PeerOf \in [Invoice -> Peer]
    /\ Honest \subseteq Invoice
    /\ None \notin Squeak \cup Peer \cup Invoice

ASSUME EnvironmentAssumption ==
    /\ Requests \subseteq {"price", "delete", "download"}
    /\ Faults \subseteq {"crash", "rpc"}
    /\ MaxFaults \in Nat

VARIABLES
    stored,    \* squeaks that have a row
    keyed,     \* those that have a secret_key
    offers,    \* received_offer table: payment hash -> paid
    payments,  \* sent_payment table: payment hashes
    issued,    \* invoices handed out by the peers
    settled,   \* invoices that are paid, whoever knows it
    expired,   \* invoices that are expired
    free,      \* peers whose sell price is 0
    pc,        \* what each thread does next
    local,     \* what each thread holds in its local variables
    faults     \* number of faults so far

storeVars == <<stored, keyed>>
tables == <<offers, payments>>
world == <<issued, settled, expired, free>>
vars == <<storeVars, tables, world, pc, local, faults>>
-----------------------------------------------------------------------------
Thread == Downloader \cup Payer

Label == {"idle", "has_key", "ask_key", "list_offers", "ask_offer",
          "insert_offer", "pay", "insert_payment", "mark", "check_key", "set_key"}

\* good: the secret key at hand is the squeak's own.
Local == [squeak : Squeak \cup {None}, peer : Peer \cup {None},
          invoice : Invoice \cup {None}, good : BOOLEAN]

NoLocal == [squeak |-> None, peer |-> None, invoice |-> None, good |-> FALSE]

Received == DOMAIN offers

\* What get_received_offers gives for s, of the peer p.
OpenOffers(s, p) ==
    {i \in Received : /\ SqueakOf[i] = s /\ PeerOf[i] = p
                      /\ ~offers[i] /\ i \notin expired}

TypeOK ==
    /\ stored \subseteq Squeak /\ keyed \subseteq stored
    /\ offers \in [Received -> BOOLEAN]
    /\ Received \subseteq issued /\ issued \subseteq Invoice
    /\ payments \subseteq settled /\ settled \subseteq issued
    /\ expired \subseteq Invoice
    /\ free \subseteq Peer
    /\ pc \in [Thread -> Label]
    /\ local \in [Thread -> Local]
    /\ faults \in 0..MaxFaults

Goto(t, label) == pc' = [pc EXCEPT ![t] = label] /\ UNCHANGED local

Return(t) == /\ pc' = [pc EXCEPT ![t] = "idle"]
             /\ local' = [local EXCEPT ![t] = NoLocal]
-----------------------------------------------------------------------------
(* download_secret_key, for a squeak and a peer.                           *)

DownloadSecretKey(t, s, p) ==
    /\ pc[t] = "idle"
    /\ s \in stored
    /\ pc' = [pc EXCEPT ![t] = "has_key"]
    /\ local' = [local EXCEPT ![t] = [NoLocal EXCEPT !.squeak = s, !.peer = p]]
    /\ UNCHANGED <<storeVars, tables, world, faults>>

HasSecretKey(t) ==
    /\ pc[t] = "has_key"
    /\ \/ local[t].squeak \in keyed /\ Return(t)
       \/ local[t].squeak \notin keyed /\ Goto(t, "ask_key")
    /\ UNCHANGED <<storeVars, tables, world, faults>>

\* A peer whose price is 0 gives its key, if it has one; it may be wrong.
AskSecretKey(t) ==
    /\ pc[t] = "ask_key"
    /\ \/ /\ local[t].peer \in free
          /\ \E good \in BOOLEAN : local' = [local EXCEPT ![t].good = good]
          /\ pc' = [pc EXCEPT ![t] = "check_key"]
       \/ Goto(t, "list_offers")
    /\ UNCHANGED <<storeVars, tables, world, faults>>

\* Mutant: the offers that are there are not looked at.
ListOffers_Unchecked(t) ==
    /\ pc[t] = "list_offers"
    /\ Goto(t, "ask_offer")
    /\ UNCHANGED <<storeVars, tables, world, faults>>

ListOffers(t) ==
    /\ pc[t] = "list_offers"
    /\ LET open == OpenOffers(local[t].squeak, local[t].peer)
       IN  \/ open # {} /\ Return(t)
           \/ open = {} /\ Goto(t, "ask_offer")
    /\ UNCHANGED <<storeVars, tables, world, faults>>

\* The peer makes a new invoice with a new nonce, unless it gives the key
\* for free or fails, or the request does.
AskOffer(t) ==
    /\ pc[t] = "ask_offer"
    /\ \/ \E i \in Invoice \ (issued \cup expired) :
             /\ SqueakOf[i] = local[t].squeak /\ PeerOf[i] = local[t].peer
             /\ local[t].peer \notin free
             /\ issued' = issued \cup {i}
             /\ local' = [local EXCEPT ![t].invoice = i]
             /\ pc' = [pc EXCEPT ![t] = "insert_offer"]
       \/ Return(t) /\ UNCHANGED issued
    /\ UNCHANGED <<storeVars, tables, settled, expired, free, faults>>

InsertReceivedOffer(t) ==
    /\ pc[t] = "insert_offer"
    /\ offers' = [i \in Received \cup {local[t].invoice} |->
                     IF i \in Received THEN offers[i] ELSE FALSE]
    /\ Return(t)
    /\ UNCHANGED <<storeVars, payments, world, faults>>
-----------------------------------------------------------------------------
(* pay_offer.                                                              *)

\* The offer is read by its id: neither paid nor expired is looked at.
PayOffer(t, i) ==
    /\ pc[t] = "idle"
    /\ i \in Received
    /\ pc' = [pc EXCEPT ![t] = "pay"]
    /\ local' = [local EXCEPT ![t] = [NoLocal EXCEPT !.squeak = SqueakOf[i],
                                                     !.invoice = i]]
    /\ UNCHANGED <<storeVars, tables, world, faults>>

\* Mutant: the key is saved before the payment is.
PayInvoice_KeyFirst(t) ==
    /\ pc[t] = "pay"
    /\ LET i == local[t].invoice
       IN  \/ /\ i \notin settled \cup expired
              /\ settled' = settled \cup {i}
              /\ local' = [local EXCEPT ![t].good = i \in Honest]
              /\ pc' = [pc EXCEPT ![t] = IF i \in Honest THEN "insert_payment"
                                                         ELSE "check_key"]
           \/ Return(t) /\ UNCHANGED settled
    /\ UNCHANGED <<storeVars, tables, issued, expired, free, faults>>

\* lnd pays an invoice once and only before it expires.  Otherwise, or when
\* it finds no route, it gives an error.
PayInvoice(t) ==
    /\ pc[t] = "pay"
    /\ LET i == local[t].invoice
       IN  \/ /\ i \notin settled \cup expired
              /\ settled' = settled \cup {i}
              /\ local' = [local EXCEPT ![t].good = i \in Honest]
              /\ pc' = [pc EXCEPT ![t] = "insert_payment"]
           \/ Return(t) /\ UNCHANGED settled
    /\ UNCHANGED <<storeVars, tables, issued, expired, free, faults>>

InsertSentPayment(t) ==
    /\ pc[t] = "insert_payment"
    /\ payments' = payments \cup {local[t].invoice}
    /\ Goto(t, "mark")
    /\ UNCHANGED <<storeVars, offers, world, faults>>

\* Mutant: the offer is not marked.
SetReceivedOfferPaid_Missing(t) ==
    /\ pc[t] = "mark"
    /\ Goto(t, "check_key")
    /\ UNCHANGED <<storeVars, tables, world, faults>>

\* Mutant: pay_offer returns without saving the key.
SetReceivedOfferPaid_Returns(t) ==
    /\ pc[t] = "mark"
    /\ offers' = [i \in Received |-> IF i = local[t].invoice THEN TRUE ELSE offers[i]]
    /\ Return(t)
    /\ UNCHANGED <<storeVars, payments, world, faults>>

SetReceivedOfferPaid(t) ==
    /\ pc[t] = "mark"
    /\ offers' = [i \in Received |-> IF i = local[t].invoice THEN TRUE ELSE offers[i]]
    /\ Goto(t, "check_key")
    /\ UNCHANGED <<storeVars, payments, world, faults>>
-----------------------------------------------------------------------------
(* save_secret_key, for a free key and for a paid one.                     *)

CheckSecretKey(t) ==
    /\ pc[t] = "check_key"
    /\ LET valid == local[t].squeak \in stored /\ local[t].good
       IN  \/ valid /\ Goto(t, "set_key")
           \/ ~valid /\ Return(t)
    /\ UNCHANGED <<storeVars, tables, world, faults>>

\* Mutant: a key without its squeak.
SetSecretKey_Inserts(t) ==
    /\ pc[t] = "set_key"
    /\ keyed' = keyed \cup {local[t].squeak}
    /\ Return(t)
    /\ UNCHANGED <<stored, tables, world, faults>>

SetSecretKey(t) ==
    /\ pc[t] = "set_key"
    /\ keyed' = keyed \cup ({local[t].squeak} \cap stored)
    /\ Return(t)
    /\ UNCHANGED <<stored, tables, world, faults>>
-----------------------------------------------------------------------------
(* Requests and workers that take one statement, and the peers.            *)

DeleteSqueak(s) ==
    /\ "delete" \in Requests
    /\ s \in stored
    /\ stored' = stored \ {s} /\ keyed' = keyed \ {s}
    /\ UNCHANGED <<tables, world, pc, local, faults>>

\* Downloaded (again): a new row, without a key.
DownloadSqueak(s) ==
    /\ "download" \in Requests
    /\ s \notin stored
    /\ stored' = stored \cup {s}
    /\ UNCHANGED <<keyed, tables, world, pc, local, faults>>

\* Paid or not, the expired offers go, and those that are out of retention.
DeleteExpiredReceivedOffers ==
    \E old \in SUBSET Received :
        /\ old # {} /\ Received \cap expired \subseteq old
        /\ offers' = [i \in Received \ old |-> offers[i]]
        /\ UNCHANGED <<storeVars, payments, world, pc, local, faults>>

Expire(i) ==
    /\ i \in issued \ expired
    /\ expired' = expired \cup {i}
    /\ UNCHANGED <<storeVars, tables, issued, settled, free, pc, local, faults>>

\* A peer sets its sell price to 0, or to something else.
SetSellPrice(p) ==
    /\ "price" \in Requests
    /\ free' = (free \ {p}) \cup ({p} \ free)
    /\ UNCHANGED <<storeVars, tables, issued, settled, expired, pc, local, faults>>
-----------------------------------------------------------------------------
(* Faults.                                                                 *)

\* The call to lnd breaks, but the payment goes through.
PaymentUnconfirmed(t) ==
    /\ "rpc" \in Faults /\ faults < MaxFaults
    /\ pc[t] = "pay"
    /\ local[t].invoice \notin settled \cup expired
    /\ settled' = settled \cup {local[t].invoice}
    /\ faults' = faults + 1
    /\ Return(t)
    /\ UNCHANGED <<storeVars, tables, issued, expired, free>>

Crash ==
    /\ "crash" \in Faults /\ faults < MaxFaults
    /\ pc' = [t \in Thread |-> "idle"]
    /\ local' = [t \in Thread |-> NoLocal]
    /\ faults' = faults + 1
    /\ UNCHANGED <<storeVars, tables, world>>
-----------------------------------------------------------------------------
Init ==
    /\ stored = Squeak /\ keyed = {}
    /\ offers = [i \in {} |-> FALSE] /\ payments = {}
    /\ issued = {} /\ settled = {} /\ expired = {}
    /\ free \in SUBSET Peer
    /\ pc = [t \in Thread |-> "idle"]
    /\ local = [t \in Thread |-> NoLocal]
    /\ faults = 0

Download(t) == \E s \in Squeak, p \in Peer : DownloadSecretKey(t, s, p)

Step(t) ==
    \/ HasSecretKey(t) \/ AskSecretKey(t) \/ ListOffers(t) \/ AskOffer(t)
    \/ InsertReceivedOffer(t)
    \/ PayInvoice(t) \/ InsertSentPayment(t) \/ SetReceivedOfferPaid(t)
    \/ CheckSecretKey(t) \/ SetSecretKey(t)

Statement ==
    \/ \E s \in Squeak : DeleteSqueak(s) \/ DownloadSqueak(s)
    \/ DeleteExpiredReceivedOffers
    \/ \E i \in Invoice : Expire(i)
    \/ \E p \in Peer : SetSellPrice(p)

Next ==
    \/ \E t \in Downloader : Download(t)
    \/ \E t \in Payer, i \in Invoice : PayOffer(t, i)
    \/ \E t \in Thread : Step(t)
    \/ Statement
    \/ \E t \in Payer : PaymentUnconfirmed(t)
    \/ Crash

Spec == Init /\ [][Next]_vars

\* Threads are scheduled, lnd and the peers answer or time out.
LiveSpec == Spec /\ \A t \in Thread : WF_vars(Step(t))
-----------------------------------------------------------------------------
(* Safety.                                                                 *)

Paying(i) ==
    \E t \in Payer : pc[t] \in {"insert_payment", "mark"} /\ local[t].invoice = i

\* An offer that the user is shown as open is not paid already, unless a
\* thread is about to mark it or something went wrong: two requests to pay
\* one offer, deleted rows and new offers make no difference.
OpenOffersUnpaid ==
    \A i \in Received : i \in settled /\ ~offers[i] => Paying(i) \/ faults > 0

\* At most one payment per payer is lost with each fault; without faults every
\* settled invoice is in the sent payments or about to be, valid or not.
LostPaymentsBounded ==
    Cardinality(settled \ payments)
        <= Cardinality({t \in Payer : pc[t] = "insert_payment"})
             + faults * Cardinality(Payer)

\* The search for an open offer and the insert are two statements: overlapping
\* downloads end up with several offers of a peer for the same squeak, but no
\* more than there are threads.
OpenOffersBounded ==
    \A s \in Squeak, p \in Peer :
        Cardinality(OpenOffers(s, p)) <= Cardinality(Downloader)

(* Liveness.                                                               *)

\* docs/getting-started.md:85: "Wait a few seconds for the Lightning payment
\* to complete, and then the squeak should unlock": an offer that gets paid,
\* of an honest seller, gives the key, or the squeak is deleted.
PaidOffersUnlock ==
    \A i \in Honest :
        (i \in settled /\ SqueakOf[i] \in stored)
            ~> (SqueakOf[i] \in keyed \/ SqueakOf[i] \notin stored)
=============================================================================
