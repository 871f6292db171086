------------------------ MODULE OfferPurchase_proofs ------------------------
(***************************************************************************)
(* Proofs about OfferPurchase, for any number of threads, peers, squeaks,  *)
(* invoices and faults.                                                    *)
(***************************************************************************)
EXTENDS OfferPurchase, FiniteSetTheorems, TLAPS

Trading == {"insert_offer", "pay", "insert_payment", "mark"}

\* Which invoices a thread can hold, and who pays.
InvoicesHeld ==
    \A t \in Thread :
        /\ pc[t] \in Trading => local[t].invoice \in issued
        /\ pc[t] \in {"insert_payment", "mark"} => local[t].invoice \in settled
        /\ pc[t] \in {"pay", "insert_payment", "mark"} => t \in Payer

\* An invoice that a peer has just made is held by the one thread that asked.
NewOffersUnpaid ==
    \A t \in Thread : pc[t] = "insert_offer" =>
        /\ local[t].invoice \notin Received \cup settled
        /\ \A u \in Thread : pc[u] \in Trading /\ local[u].invoice = local[t].invoice
                                => u = t

PurchaseInv == TypeOK /\ InvoicesHeld /\ NewOffersUnpaid /\ OpenOffersUnpaid

\* A thread that goes on without a new invoice, or leaves its operation, when
\* it is not in the middle of a payment.
LEMMA ControlInv ==
    ASSUME PurchaseInv, NEW t \in Thread, NEW label \in Label \ Trading,
           pc[t] \notin {"insert_payment", "mark"},
           Goto(t, label) \/ Return(t),
           UNCHANGED <<storeVars, tables, world, faults>>
    PROVE  PurchaseInv'
<1> USE DEF PurchaseInv, Received, Thread, Trading, storeVars, tables, world
<1>1. /\ \A u \in Thread : pc'[u] \in Trading => u # t
      /\ \A u \in Thread : u # t => pc'[u] = pc[u] /\ local'[u] = local[u]
  BY DEF Goto, Return, TypeOK
<1>2. NoLocal \in Local /\ "idle" \in Label
  BY DEF NoLocal, Local, Label
<1>3. TypeOK'
  BY <1>2 DEF TypeOK, Goto, Return
<1>4. InvoicesHeld' /\ NewOffersUnpaid'
  BY <1>1 DEF InvoicesHeld, NewOffersUnpaid
<1>5. OpenOffersUnpaid'
  BY <1>1 DEF OpenOffersUnpaid, Paying
<1> QED BY <1>3, <1>4, <1>5

LEMMA StepInv ==
    ASSUME PurchaseInv, NEW t \in Thread, Step(t)
    PROVE  PurchaseInv'
<1>1. CASE HasSecretKey(t)
  BY <1>1, ControlInv DEF HasSecretKey, Label, Trading
<1>3. CASE ListOffers(t)
  BY <1>3, ControlInv DEF ListOffers, Label, Trading
<1>9. CASE CheckSecretKey(t)
  BY <1>9, ControlInv DEF CheckSecretKey, Label, Trading
<1> USE InvoiceAssumption
    DEF PurchaseInv, TypeOK, InvoicesHeld, NewOffersUnpaid, OpenOffersUnpaid, Paying,
        Trading, Received, Thread, Label, Local, NoLocal, Goto, Return,
        storeVars, tables, world
<1>2. CASE AskSecretKey(t)
  BY <1>2 DEF AskSecretKey
<1>4. CASE AskOffer(t)
  <2>1. TypeOK'
    <3>1. local' \in [Thread -> Local] /\ pc' \in [Thread -> Label]
      <4>1. \A i \in Invoice : [local[t] EXCEPT !.invoice = i] \in Local
        OBVIOUS
      <4>2. pc' \in [Thread -> Label]
        BY <1>4 DEF AskOffer
      <4>3. local' \in [Thread -> Local]
        <5>1. \/ \E i \in Invoice : local' = [local EXCEPT ![t] = [local[t] EXCEPT !.invoice = i]]
              \/ local' = [local EXCEPT ![t] = NoLocal]
          BY <1>4 DEF AskOffer
        <5>2. NoLocal \in Local /\ local \in [Thread -> Local]
          OBVIOUS
        <5> HIDE DEF Local, NoLocal
        <5> QED BY <4>1, <5>1, <5>2
      <4> QED BY <4>2, <4>3
    <3>2. issued \subseteq issued' /\ issued' \subseteq Invoice
          /\ UNCHANGED <<storeVars, tables, settled, expired, free, faults>>
      BY <1>4 DEF AskOffer
    <3> QED BY <3>1, <3>2
  <2>2. InvoicesHeld'
    BY <1>4 DEF AskOffer
  <2>3. NewOffersUnpaid'
    BY <1>4 DEF AskOffer
  <2>4. OpenOffersUnpaid'
    BY <1>4, SMTT(30) DEF AskOffer
  <2> QED BY <2>1, <2>2, <2>3, <2>4
<1>5. CASE InsertReceivedOffer(t)
  <2>1. TypeOK'
    BY <1>5 DEF InsertReceivedOffer
  <2>2. InvoicesHeld'
    BY <1>5 DEF InsertReceivedOffer
  <2>3. NewOffersUnpaid'
    BY <1>5 DEF InsertReceivedOffer
  <2>4. OpenOffersUnpaid'
    BY <1>5 DEF InsertReceivedOffer
  <2> QED BY <2>1, <2>2, <2>3, <2>4
<1>6. CASE PayInvoice(t)
  <2>1. TypeOK'
    <3>1. local' \in [Thread -> Local] /\ pc' \in [Thread -> Label]
      <4>1. \A b \in BOOLEAN : [local[t] EXCEPT !.good = b] \in Local
        OBVIOUS
      <4>2. pc' \in [Thread -> Label]
        BY <1>6 DEF PayInvoice
      <4>3. local' \in [Thread -> Local]
        <5>1. \/ local' = [local EXCEPT ![t] =
                               [local[t] EXCEPT !.good = local[t].invoice \in Honest]]
              \/ local' = [local EXCEPT ![t] = NoLocal]
          BY <1>6 DEF PayInvoice
        <5>2. NoLocal \in Local /\ local \in [Thread -> Local]
          OBVIOUS
        <5> DEFINE b == local[t].invoice \in Honest
        <5>3. b \in BOOLEAN
          OBVIOUS
        <5>4. [local[t] EXCEPT !.good = b] \in Local
          BY <4>1, <5>3
        <5> HIDE DEF Local, NoLocal
        <5> QED BY <5>1, <5>2, <5>4
      <4> QED BY <4>2, <4>3
    <3>2. settled \subseteq settled' /\ settled' \subseteq issued
          /\ UNCHANGED <<storeVars, tables, issued, expired, free, faults>>
      BY <1>6 DEF PayInvoice
    <3> QED BY <3>1, <3>2
  <2>2. InvoicesHeld'
    BY <1>6 DEF PayInvoice
  <2>3. NewOffersUnpaid'
    BY <1>6 DEF PayInvoice
  <2>4. OpenOffersUnpaid'
    BY <1>6 DEF PayInvoice
  <2> QED BY <2>1, <2>2, <2>3, <2>4
<1>7. CASE InsertSentPayment(t)
  BY <1>7 DEF InsertSentPayment
<1>8. CASE SetReceivedOfferPaid(t)
  BY <1>8 DEF SetReceivedOfferPaid
<1>10. CASE SetSecretKey(t)
  BY <1>10 DEF SetSecretKey
<1> QED BY <1>1, <1>2, <1>3, <1>4, <1>5, <1>6, <1>7, <1>8, <1>9, <1>10 DEF Step

LEMMA NextInv ==
    ASSUME PurchaseInv, [Next]_vars
    PROVE  PurchaseInv'
<1>1. ASSUME NEW t \in Thread, Step(t) PROVE PurchaseInv'
  BY <1>1, StepInv
<1> USE InvoiceAssumption, EnvironmentAssumption
    DEF PurchaseInv, TypeOK, InvoicesHeld, NewOffersUnpaid, OpenOffersUnpaid, Paying,
        Trading, Received, Thread, Label, Local, NoLocal, Return,
        storeVars, tables, world
<1>2. ASSUME NEW t \in Downloader, Download(t) PROVE PurchaseInv'
  <2>1. TypeOK'
    <3>1. PICK s \in Squeak, p \in Peer : DownloadSecretKey(t, s, p)
      BY <1>2 DEF Download
    <3>2. [NoLocal EXCEPT !.squeak = s, !.peer = p] \in Local
      OBVIOUS
    <3> QED BY <3>1, <3>2 DEF DownloadSecretKey
  <2>2. InvoicesHeld'
    BY <1>2 DEF Download, DownloadSecretKey
  <2>3. NewOffersUnpaid'
    BY <1>2 DEF Download, DownloadSecretKey
  <2>4. OpenOffersUnpaid'
    BY <1>2 DEF Download, DownloadSecretKey
  <2> QED BY <2>1, <2>2, <2>3, <2>4
<1>3. ASSUME NEW t \in Payer, NEW i \in Invoice, PayOffer(t, i) PROVE PurchaseInv'
  <2>1. TypeOK'
    BY <1>3 DEF PayOffer
  <2>2. InvoicesHeld'
    BY <1>3 DEF PayOffer
  <2>3. NewOffersUnpaid'
    BY <1>3 DEF PayOffer
  <2>4. OpenOffersUnpaid'
    BY <1>3 DEF PayOffer
  <2> QED BY <2>1, <2>2, <2>3, <2>4
<1>4. ASSUME NEW s \in Squeak, DeleteSqueak(s) \/ DownloadSqueak(s) PROVE PurchaseInv'
  BY <1>4 DEF DeleteSqueak, DownloadSqueak
<1>5. CASE DeleteExpiredReceivedOffers
  BY <1>5 DEF DeleteExpiredReceivedOffers
<1>6. ASSUME NEW i \in Invoice, Expire(i) PROVE PurchaseInv'
  BY <1>6 DEF Expire
<1>7. ASSUME NEW p \in Peer, SetSellPrice(p) PROVE PurchaseInv'
  BY <1>7 DEF SetSellPrice
<1>8. ASSUME NEW t \in Payer, PaymentUnconfirmed(t) PROVE PurchaseInv'
  BY <1>8 DEF PaymentUnconfirmed
<1>9. CASE Crash
  BY <1>9 DEF Crash
<1>10. CASE UNCHANGED vars
  BY <1>10 DEF vars
<1> QED BY <1>1, <1>2, <1>3, <1>4, <1>5, <1>6, <1>7, <1>8, <1>9, <1>10
        DEF Next, Statement

LEMMA InitInv == Init => PurchaseInv
BY EnvironmentAssumption
   DEF Init, PurchaseInv, TypeOK, InvoicesHeld, NewOffersUnpaid, OpenOffersUnpaid,
       Trading, Received, Label, Local, NoLocal

LEMMA PurchaseInvariant == Spec => []PurchaseInv
<1>1. PurchaseInv /\ [Next]_vars => PurchaseInv'
  BY NextInv
<1> QED BY InitInv, <1>1, PTL DEF Spec

\* The tables, what the threads hold and what lnd knows stay well typed: in
\* particular only stored squeaks have keys, and only settled payments are
\* recorded.
THEOREM TypeCorrect == Spec => []TypeOK
<1>1. PurchaseInv => TypeOK
  BY DEF PurchaseInv
<1> QED BY <1>1, PurchaseInvariant, PTL

\* Without faults, an offer shown as open has not been paid, unless a thread
\* is about to mark it.
THEOREM OpenOffersAreUnpaid == Spec => []OpenOffersUnpaid
<1>1. PurchaseInv => OpenOffersUnpaid
  BY DEF PurchaseInv
<1> QED BY <1>1, PurchaseInvariant, PTL
-----------------------------------------------------------------------------
(* The bound on open offers.  A thread that found no open offer of a peer  *)
(* adds at most one, so the open offers and the threads that are past the  *)
(* search are never more than the downloaders.                             *)

Asking(s, p) ==
    {t \in Downloader : /\ pc[t] \in {"ask_offer", "insert_offer"}
                        /\ local[t].squeak = s /\ local[t].peer = p}

AskedFor ==
    \A t \in Thread :
        /\ pc[t] \in {"has_key", "ask_key", "list_offers", "ask_offer", "insert_offer"}
              => t \in Downloader
        /\ pc[t] = "insert_offer" => /\ SqueakOf[local[t].invoice] = local[t].squeak
                                     /\ PeerOf[local[t].invoice] = local[t].peer

Bounded(s, p) ==
    /\ IsFiniteSet(OpenOffers(s, p))
    /\ Cardinality(OpenOffers(s, p)) + Cardinality(Asking(s, p))
          <= Cardinality(Downloader)

BoundInv == PurchaseInv /\ AskedFor /\ \A s \in Squeak, p \in Peer : Bounded(s, p)

LEMMA AskingFinite ==
    \A s, p : /\ IsFiniteSet(Asking(s, p)) /\ IsFiniteSet(Downloader)
              /\ Cardinality(Asking(s, p)) \in Nat
              /\ Cardinality(Asking(s, p)) <= Cardinality(Downloader)
              /\ Cardinality(Downloader) \in Nat
BY ThreadAssumption, FS_Subset, FS_CardinalityType DEF Asking

\* Offers that close and threads that come back leave the bound alone.
LEMMA BoundKept ==
    ASSUME NEW s, NEW p, Bounded(s, p),
           OpenOffers(s, p)' \subseteq OpenOffers(s, p),
           Asking(s, p)' \subseteq Asking(s, p)
    PROVE  Bounded(s, p)'
<1>1. /\ IsFiniteSet(OpenOffers(s, p)')
      /\ Cardinality(OpenOffers(s, p)') <= Cardinality(OpenOffers(s, p))
      /\ Cardinality(Asking(s, p)') <= Cardinality(Asking(s, p))
  BY AskingFinite, FS_Subset DEF Bounded
<1>2. /\ Cardinality(OpenOffers(s, p)) \in Nat /\ Cardinality(OpenOffers(s, p)') \in Nat
      /\ Cardinality(Asking(s, p)) \in Nat /\ Cardinality(Asking(s, p)') \in Nat
      /\ Cardinality(Downloader) \in Nat
  <2>1. IsFiniteSet(Asking(s, p)')
    BY AskingFinite, FS_Subset
  <2> QED BY <1>1, <2>1, AskingFinite, FS_CardinalityType DEF Bounded
<1> QED BY <1>1, <1>2 DEF Bounded

LEMMA AskedForStep ==
    ASSUME PurchaseInv, AskedFor, [Next]_vars
    PROVE  AskedFor'
<1> USE ThreadAssumption
    DEF PurchaseInv, TypeOK, AskedFor, Thread, Goto, Return, NoLocal, Local
<1>1. ASSUME NEW t \in Thread, Step(t) PROVE AskedFor'
  <2>1. CASE HasSecretKey(t) \/ ListOffers(t) \/ CheckSecretKey(t)
    BY <2>1 DEF HasSecretKey, ListOffers, CheckSecretKey
  <2>2. CASE AskSecretKey(t)
    BY <2>2 DEF AskSecretKey
  <2>3. CASE AskOffer(t)
    BY <2>3 DEF AskOffer
  <2>4. CASE InsertReceivedOffer(t) \/ SetSecretKey(t)
    BY <2>4 DEF InsertReceivedOffer, SetSecretKey
  <2>5. CASE PayInvoice(t)
    BY <2>5 DEF PayInvoice
  <2>6. CASE InsertSentPayment(t) \/ SetReceivedOfferPaid(t)
    BY <2>6 DEF InsertSentPayment, SetReceivedOfferPaid
  <2> QED BY <1>1, <2>1, <2>2, <2>3, <2>4, <2>5, <2>6 DEF Step
<1>2. ASSUME NEW t \in Downloader, Download(t) PROVE AskedFor'
  BY <1>2 DEF Download, DownloadSecretKey
<1>3. ASSUME NEW t \in Payer, NEW i \in Invoice, PayOffer(t, i) PROVE AskedFor'
  BY <1>3 DEF PayOffer
<1>4. CASE Statement
  BY <1>4 DEF Statement, DeleteSqueak, DownloadSqueak, DeleteExpiredReceivedOffers,
     Expire, SetSellPrice
<1>5. ASSUME NEW t \in Payer, PaymentUnconfirmed(t) PROVE AskedFor'
  BY <1>5 DEF PaymentUnconfirmed
<1>6. CASE Crash \/ UNCHANGED vars
  BY <1>6 DEF Crash, vars
<1> QED BY <1>1, <1>2, <1>3, <1>4, <1>5, <1>6 DEF Next

LEMMA BoundSearch ==
    ASSUME BoundInv, NEW t \in Thread, ListOffers(t), Goto(t, "ask_offer"),
           NEW s \in Squeak, NEW p \in Peer
    PROVE  Bounded(s, p)'
<1>1. OpenOffers(s, p)' = OpenOffers(s, p)
  BY DEF ListOffers, OpenOffers, Received, tables, world
<1>2. CASE s = local[t].squeak /\ p = local[t].peer
  <2>1. OpenOffers(s, p) = {}
    BY <1>2 DEF ListOffers, Goto, Return, BoundInv, PurchaseInv, TypeOK
  <2>2. Asking(s, p)' \subseteq Downloader
    BY DEF Asking
  <2>3. IsFiniteSet(Asking(s, p)') /\ Cardinality(Asking(s, p)') <= Cardinality(Downloader)
    BY <2>2, ThreadAssumption, FS_Subset
  <2>4. Cardinality(Asking(s, p)') \in Nat
    BY <2>3, FS_CardinalityType
  <2> QED BY <1>1, <2>1, <2>3, <2>4, FS_EmptySet DEF Bounded
<1>3. CASE ~(s = local[t].squeak /\ p = local[t].peer)
  <2>1. Asking(s, p)' \subseteq Asking(s, p)
    BY <1>3 DEF Asking, Goto, BoundInv, PurchaseInv, TypeOK, Thread
  <2> QED BY <1>1, <2>1, BoundKept DEF BoundInv
<1> QED BY <1>2, <1>3

LEMMA BoundInsert ==
    ASSUME BoundInv, NEW t \in Thread, InsertReceivedOffer(t),
           NEW s \in Squeak, NEW p \in Peer
    PROVE  Bounded(s, p)'
<1> DEFINE i == local[t].invoice
<1>1. /\ pc[t] = "insert_offer" /\ t \in Downloader
      /\ SqueakOf[i] = local[t].squeak /\ PeerOf[i] = local[t].peer
      /\ i \notin Received
  BY DEF InsertReceivedOffer, BoundInv, AskedFor, PurchaseInv, NewOffersUnpaid
<1>2. /\ Received' = Received \cup {i}
      /\ \A j \in Received : offers'[j] = offers[j]
      /\ UNCHANGED expired
  BY DEF InsertReceivedOffer, Received, world
<1>3. /\ Asking(s, p)' = Asking(s, p) \ {t}
  BY <1>1 DEF InsertReceivedOffer, Return, Asking, BoundInv, PurchaseInv, TypeOK, Thread
<1>4. CASE s = local[t].squeak /\ p = local[t].peer
  <2>1. OpenOffers(s, p)' \subseteq OpenOffers(s, p) \cup {i} /\ i \notin OpenOffers(s, p)
    BY <1>1, <1>2 DEF OpenOffers
  <2>2. IsFiniteSet(OpenOffers(s, p))
    BY DEF BoundInv, Bounded
  <2>3. /\ IsFiniteSet(OpenOffers(s, p) \cup {i})
        /\ Cardinality(OpenOffers(s, p) \cup {i}) = Cardinality(OpenOffers(s, p)) + 1
    BY <2>1, <2>2, FS_AddElement
  <2>4. /\ IsFiniteSet(OpenOffers(s, p)')
        /\ Cardinality(OpenOffers(s, p)') <= Cardinality(OpenOffers(s, p)) + 1
    BY <2>1, <2>3, FS_Subset
  <2>5. t \in Asking(s, p)
    BY <1>1, <1>4 DEF Asking
  <2>6. Cardinality(Asking(s, p)') = Cardinality(Asking(s, p)) - 1
    BY <1>3, <2>5, AskingFinite, FS_RemoveElement
  <2>7. Cardinality(OpenOffers(s, p)) \in Nat /\ Cardinality(OpenOffers(s, p)') \in Nat
    BY <2>2, <2>4, FS_CardinalityType
  <2> QED BY <2>4, <2>6, <2>7, AskingFinite DEF BoundInv, Bounded
<1>5. CASE ~(s = local[t].squeak /\ p = local[t].peer)
  <2>1. OpenOffers(s, p)' \subseteq OpenOffers(s, p)
    BY <1>1, <1>2, <1>5 DEF OpenOffers
  <2>2. Asking(s, p)' \subseteq Asking(s, p)
    BY <1>3
  <2> QED BY <2>1, <2>2, BoundKept DEF BoundInv
<1> QED BY <1>4, <1>5

LEMMA BoundStep ==
    ASSUME BoundInv, [Next]_vars
    PROVE  BoundInv'
<1>1. PurchaseInv' /\ AskedFor'
  BY NextInv, AskedForStep DEF BoundInv
<1> SUFFICES ASSUME NEW s \in Squeak, NEW p \in Peer PROVE Bounded(s, p)'
  BY <1>1 DEF BoundInv
<1>2. ASSUME NEW t \in Thread, Step(t) PROVE Bounded(s, p)'
  <2>1. CASE InsertReceivedOffer(t)
    BY <2>1, BoundInsert
  <2>2. CASE ListOffers(t) /\ Goto(t, "ask_offer")
    BY <2>2, BoundSearch
  <2>3. CASE /\ ~InsertReceivedOffer(t)
             /\ ~(ListOffers(t) /\ Goto(t, "ask_offer"))
    <3>1. /\ \A u \in Downloader : pc'[u] \in {"ask_offer", "insert_offer"} =>
                /\ pc[u] \in {"ask_offer", "insert_offer"}
                /\ local'[u].squeak = local[u].squeak /\ local'[u].peer = local[u].peer
      <4>1. CASE HasSecretKey(t) \/ CheckSecretKey(t)
        BY <4>1 DEF HasSecretKey, CheckSecretKey,
           Goto, Return, BoundInv, PurchaseInv,
           TypeOK, Thread, Local
      <4>2. CASE AskSecretKey(t)
        BY <4>2 DEF AskSecretKey,
           Goto, Return, BoundInv, PurchaseInv,
           TypeOK, Thread, Local
      <4>3. CASE ListOffers(t)
        BY <2>3, <4>3 DEF ListOffers,
           Goto, Return, BoundInv, PurchaseInv,
           TypeOK, Thread, Local
      <4>4. CASE AskOffer(t)
        BY <4>4 DEF AskOffer,
           Goto, Return, BoundInv, PurchaseInv,
           TypeOK, Thread, Local
      <4>5. CASE PayInvoice(t)
        BY <4>5 DEF PayInvoice,
           Goto, Return, BoundInv, PurchaseInv,
           TypeOK, Thread, Local
      <4>6. CASE InsertSentPayment(t) \/ SetReceivedOfferPaid(t)
        BY <4>6 DEF InsertSentPayment, SetReceivedOfferPaid,
           Goto, Return, BoundInv, PurchaseInv,
           TypeOK, Thread, Local
      <4>7. CASE SetSecretKey(t)
        BY <4>7 DEF SetSecretKey,
           Goto, Return, BoundInv, PurchaseInv,
           TypeOK, Thread, Local
      <4> QED BY <1>2, <2>3, <4>1, <4>2, <4>3, <4>4, <4>5, <4>6, <4>7 DEF Step
    <3>2. /\ Received' = Received
          /\ \A i \in Received : offers[i] => offers'[i]
          /\ UNCHANGED expired
      BY <1>2, <2>3
         DEF Step, HasSecretKey, AskSecretKey, ListOffers, AskOffer, PayInvoice,
             InsertSentPayment, SetReceivedOfferPaid, CheckSecretKey, SetSecretKey,
             Received, tables, world
    <3>3. OpenOffers(s, p)' \subseteq OpenOffers(s, p)
      BY <3>2 DEF OpenOffers
    <3> QED BY <3>1, <3>3, BoundKept DEF BoundInv, Asking
  <2> QED BY <2>1, <2>2, <2>3
<1>3. ASSUME Asking(s, p)' \subseteq Asking(s, p),
             Received' \subseteq Received, expired \subseteq expired',
             \A i \in Received' : offers'[i] = offers[i]
      PROVE  Bounded(s, p)'
  <2>1. OpenOffers(s, p)' \subseteq OpenOffers(s, p)
    BY <1>3 DEF OpenOffers
  <2> QED BY <1>3, <2>1, BoundKept DEF BoundInv
<1> USE DEF Asking, Received, BoundInv, PurchaseInv, TypeOK, Thread, storeVars, tables, world
<1>4. ASSUME NEW t \in Downloader, Download(t) PROVE Bounded(s, p)'
  BY <1>3, <1>4 DEF Download, DownloadSecretKey
<1>5. ASSUME NEW t \in Payer, NEW i \in Invoice, PayOffer(t, i) PROVE Bounded(s, p)'
  BY <1>3, <1>5 DEF PayOffer
<1>6. CASE Statement
  BY <1>3, <1>6 DEF Statement, DeleteSqueak, DownloadSqueak, DeleteExpiredReceivedOffers,
     Expire, SetSellPrice
<1>7. ASSUME NEW t \in Payer, PaymentUnconfirmed(t) PROVE Bounded(s, p)'
  BY <1>3, <1>7 DEF PaymentUnconfirmed, Return
<1>8. CASE Crash \/ UNCHANGED vars
  BY <1>3, <1>8 DEF Crash, vars
<1> QED BY <1>2, <1>4, <1>5, <1>6, <1>7, <1>8 DEF Next

\* However many downloads overlap, a node holds at most as many open offers of
\* one peer for one squeak as it has downloading threads.
THEOREM OpenOffersAreBounded == Spec => []OpenOffersBounded
<1>1. Init => BoundInv
  <2> SUFFICES ASSUME Init PROVE BoundInv
    OBVIOUS
  <2>1. PurchaseInv
    BY InitInv
  <2>2. \A s, p : OpenOffers(s, p) = {} /\ Asking(s, p) = {}
    BY DEF Init, OpenOffers, Asking, Received, Thread
  <2>3. AskedFor
    BY DEF Init, AskedFor
  <2> QED BY <2>1, <2>2, <2>3, AskingFinite, FS_EmptySet DEF BoundInv, Bounded
<1>2. BoundInv /\ [Next]_vars => BoundInv'
  BY BoundStep
<1>3. BoundInv => OpenOffersBounded
  <2> SUFFICES ASSUME BoundInv, NEW s \in Squeak, NEW p \in Peer
               PROVE  Cardinality(OpenOffers(s, p)) <= Cardinality(Downloader)
    BY DEF OpenOffersBounded
  <2>1. Cardinality(OpenOffers(s, p)) \in Nat
    BY FS_CardinalityType DEF BoundInv, Bounded
  <2> QED BY <2>1, AskingFinite DEF BoundInv, Bounded
<1> QED BY <1>1, <1>2, <1>3, PTL DEF Spec
-----------------------------------------------------------------------------
(* The bound on lost payments.  A payment that is made and not stored is    *)
(* one that a thread is about to store, or the thread has had a fault.      *)

Lost == settled \ payments

Inserting == {t \in Payer : pc[t] = "insert_payment"}

\* What threads are about to store is not stored, and not by two of them.
InsertedOnce ==
    \A t \in Inserting :
        /\ local[t].invoice \notin payments
        /\ \A u \in Inserting : local[u].invoice = local[t].invoice => u = t

LostBound ==
    /\ IsFiniteSet(Lost)
    /\ Cardinality(Lost) <= Cardinality(Inserting) + faults * Cardinality(Payer)

LostInv == PurchaseInv /\ InsertedOnce /\ LostBound

LEMMA InsertingFinite ==
    /\ IsFiniteSet(Inserting) /\ IsFiniteSet(Inserting')
    /\ Cardinality(Payer) \in Nat
    /\ Cardinality(Inserting) \in Nat /\ Cardinality(Inserting') \in Nat
    /\ Cardinality(Inserting) <= Cardinality(Payer)
<1>1. Inserting \in SUBSET Payer /\ Inserting' \in SUBSET Payer /\ IsFiniteSet(Payer)
  BY ThreadAssumption DEF Inserting
<1>2. /\ IsFiniteSet(Inserting) /\ IsFiniteSet(Inserting')
      /\ Cardinality(Inserting) <= Cardinality(Payer)
  BY <1>1, FS_Subset
<1> QED BY <1>1, <1>2, FS_CardinalityType

\* Steps that have nothing to do with payments.
LEMMA LostKept ==
    ASSUME LostInv, settled' = settled, payments' = payments, faults' = faults,
           Inserting' = Inserting, \A t \in Inserting : local'[t] = local[t]
    PROVE  InsertedOnce' /\ LostBound'
<1>1. InsertedOnce'
  BY DEF LostInv, InsertedOnce
<1>2. LostBound'
  BY DEF LostInv, LostBound, Lost
<1> QED BY <1>1, <1>2

\* lnd has paid, and the thread is about to store it.
LEMMA LostPay ==
    ASSUME LostInv, NEW t \in Thread, PayInvoice(t), settled' # settled
    PROVE  InsertedOnce' /\ LostBound'
<1> DEFINE i == local[t].invoice
<1>1. /\ pc[t] = "pay" /\ i \notin settled /\ settled' = settled \cup {i}
      /\ pc' = [pc EXCEPT ![t] = "insert_payment"]
      /\ local' = [local EXCEPT ![t].good = i \in Honest]
      /\ payments' = payments /\ faults' = faults
  BY DEF PayInvoice, tables
<1>2. /\ t \in Payer /\ i \notin payments /\ payments \subseteq settled
      /\ pc \in [Thread -> Label] /\ local \in [Thread -> Local] /\ faults \in Nat
      /\ \A u \in Inserting : local[u].invoice \in settled
  BY <1>1, EnvironmentAssumption
     DEF LostInv, PurchaseInv, TypeOK, InvoicesHeld, Inserting, Thread
<1>3. /\ t \notin Inserting /\ Inserting' = Inserting \cup {t}
      /\ \A u \in Thread : local'[u].invoice = local[u].invoice
      /\ Lost' = Lost \cup {i} /\ i \notin Lost
  BY <1>1, <1>2 DEF Inserting, Lost, Thread, Local
<1>4. InsertedOnce'
  BY <1>1, <1>2, <1>3 DEF LostInv, InsertedOnce, Inserting, Thread
<1>5. /\ IsFiniteSet(Lost') /\ Cardinality(Lost') = Cardinality(Lost) + 1
      /\ Cardinality(Inserting') = Cardinality(Inserting) + 1
  BY <1>3, InsertingFinite, FS_AddElement DEF LostInv, LostBound
<1>6. Cardinality(Lost) \in Nat
  BY FS_CardinalityType DEF LostInv, LostBound
<1> HIDE DEF i
<1>7. LostBound'
  BY <1>1, <1>2, <1>5, <1>6, InsertingFinite DEF LostInv, LostBound
<1> QED BY <1>4, <1>7

LEMMA LostInsert ==
    ASSUME LostInv, NEW t \in Thread, InsertSentPayment(t)
    PROVE  InsertedOnce' /\ LostBound'
<1> DEFINE i == local[t].invoice
<1>1. /\ pc[t] = "insert_payment" /\ payments' = payments \cup {i}
      /\ pc' = [pc EXCEPT ![t] = "mark"] /\ local' = local
      /\ settled' = settled /\ faults' = faults
  BY DEF InsertSentPayment, Goto, world
<1>2. /\ t \in Payer /\ i \in settled /\ faults \in Nat
      /\ pc \in [Thread -> Label]
  BY <1>1, EnvironmentAssumption DEF LostInv, PurchaseInv, TypeOK, InvoicesHeld, Thread
<1>3. /\ t \in Inserting /\ Inserting' = Inserting \ {t}
  BY <1>1, <1>2 DEF Inserting, Thread
<1>4. /\ Lost' = Lost \ {i} /\ i \in Lost
  BY <1>1, <1>2, <1>3 DEF Lost, LostInv, InsertedOnce
<1>5. InsertedOnce'
  BY <1>1, <1>3 DEF LostInv, InsertedOnce
<1>6. /\ IsFiniteSet(Lost') /\ Cardinality(Lost') = Cardinality(Lost) - 1
      /\ Cardinality(Inserting') = Cardinality(Inserting) - 1
  BY <1>3, <1>4, InsertingFinite, FS_RemoveElement DEF LostInv, LostBound
<1>7. Cardinality(Lost) \in Nat
  BY FS_CardinalityType DEF LostInv, LostBound
<1> HIDE DEF i
<1>8. LostBound'
  BY <1>1, <1>2, <1>6, <1>7, InsertingFinite DEF LostInv, LostBound
<1> QED BY <1>5, <1>8

\* A fault costs at most one payment of each thread that pays.
LEMMA LostFault ==
    ASSUME LostInv, Crash \/ (\E t \in Payer : PaymentUnconfirmed(t))
    PROVE  InsertedOnce' /\ LostBound'
<1> DEFINE N == Cardinality(Payer)
<1>1. faults' = faults + 1 /\ faults \in Nat /\ N \in Nat /\ Cardinality(Lost) \in Nat
  BY InsertingFinite, FS_CardinalityType, EnvironmentAssumption
     DEF Crash, PaymentUnconfirmed, LostInv, LostBound, PurchaseInv, TypeOK
<1>2. (faults + 1) * N = faults * N + N
  <2> HIDE DEF N
  <2> QED BY <1>1
<1>3. CASE Crash
  <2>1. Inserting' = {} /\ Lost' = Lost
    BY <1>3 DEF Crash, Inserting, Lost, Thread, tables, world
  <2>2. Cardinality(Lost) <= N + faults * N
    <3>1. faults * N \in Nat
      <4> HIDE DEF N
      <4> QED BY <1>1
    <3> QED BY <1>1, <3>1, InsertingFinite DEF LostInv, LostBound
  <2>3. LostBound'
    <3>1. Cardinality(Lost') <= 0 + faults' * N
      <4> HIDE DEF N
      <4> QED BY <1>1, <1>2, <2>1, <2>2
    <3>2. Cardinality(Inserting') = 0
      BY <2>1, FS_EmptySet
    <3> QED BY <2>1, <3>1, <3>2 DEF LostBound, LostInv
  <2> QED BY <2>1, <2>3 DEF InsertedOnce
<1>4. ASSUME NEW t \in Payer, PaymentUnconfirmed(t)
      PROVE  InsertedOnce' /\ LostBound'
  <2> DEFINE i == local[t].invoice
  <2>1. /\ pc[t] = "pay" /\ i \notin settled /\ settled' = settled \cup {i}
        /\ payments' = payments /\ Return(t)
    BY <1>4 DEF PaymentUnconfirmed, tables
  <2>2. /\ Lost' = Lost \cup {i} /\ i \notin Lost
        /\ Inserting' = Inserting /\ \A u \in Inserting : local'[u] = local[u]
    BY <2>1 DEF Lost, Inserting, Return, LostInv, PurchaseInv, TypeOK, Thread
  <2>3. IsFiniteSet(Lost') /\ Cardinality(Lost') = Cardinality(Lost) + 1
    BY <2>2, FS_AddElement DEF LostInv, LostBound
  <2>4. N >= 1
    <3>1. N # 0
      BY FS_EmptySet, ThreadAssumption
    <3> QED BY <1>1, <3>1
  <2>5. Cardinality(Lost') <= Cardinality(Inserting') + faults' * N
    <3>1. Cardinality(Lost) <= Cardinality(Inserting) + faults * N
      BY DEF LostInv, LostBound
    <3> HIDE DEF N, i
    <3> QED BY <1>1, <1>2, <2>2, <2>3, <2>4, <3>1, InsertingFinite
  <2>6. InsertedOnce'
    BY <2>1, <2>2 DEF LostInv, InsertedOnce
  <2> QED BY <2>3, <2>5, <2>6 DEF LostBound
<1> QED BY <1>3, <1>4

LEMMA LostStep == LostInv /\ [Next]_vars => LostInv'
<1> SUFFICES ASSUME LostInv, [Next]_vars PROVE LostInv'
  OBVIOUS
<1>1. PurchaseInv'
  BY NextInv DEF LostInv
<1>2. ASSUME NEW t \in Thread, UNCHANGED <<settled, payments, faults>>,
             pc[t] # "insert_payment", \A u \in Thread \ {t} : pc'[u] = pc[u] /\ local'[u] = local[u],
             pc'[t] # "insert_payment"
      PROVE  InsertedOnce' /\ LostBound'
  <2>1. Inserting' = Inserting /\ \A u \in Inserting : local'[u] = local[u]
    BY <1>2 DEF Inserting, Thread
  <2> QED BY <1>2, <2>1, LostKept
<1>3. ASSUME NEW t \in Thread, Step(t) PROVE InsertedOnce' /\ LostBound'
  <2> USE DEF LostInv, PurchaseInv, TypeOK, Goto, Return, tables, world
  <2>1. CASE HasSecretKey(t) \/ ListOffers(t) \/ CheckSecretKey(t)
    BY <1>2, <2>1 DEF HasSecretKey, ListOffers, CheckSecretKey
  <2>2. CASE AskSecretKey(t)
    BY <1>2, <2>2 DEF AskSecretKey
  <2>3. CASE AskOffer(t)
    BY <1>2, <2>3 DEF AskOffer
  <2>4. CASE InsertReceivedOffer(t) \/ SetSecretKey(t)
    BY <1>2, <2>4 DEF InsertReceivedOffer, SetSecretKey
  <2>5. CASE SetReceivedOfferPaid(t)
    BY <1>2, <2>5 DEF SetReceivedOfferPaid
  <2>6. CASE PayInvoice(t)
    <3>1. CASE settled' = settled /\ Return(t)
      BY <1>2, <2>6, <3>1 DEF PayInvoice
    <3>2. CASE settled' # settled
      BY <2>6, <3>2, LostPay
    <3> QED BY <2>6, <3>1, <3>2 DEF PayInvoice
  <2>7. CASE InsertSentPayment(t)
    BY <2>7, LostInsert
  <2> QED BY <1>3, <2>1, <2>2, <2>3, <2>4, <2>5, <2>6, <2>7 DEF Step
<1>4. ASSUME NEW t \in Downloader, Download(t) PROVE InsertedOnce' /\ LostBound'
  BY <1>2, <1>4 DEF Download, DownloadSecretKey, LostInv, PurchaseInv, TypeOK, Thread, tables, world
<1>5. ASSUME NEW t \in Payer, NEW i \in Invoice, PayOffer(t, i)
      PROVE  InsertedOnce' /\ LostBound'
  BY <1>2, <1>5 DEF PayOffer, LostInv, PurchaseInv, TypeOK, Thread, tables, world
<1>6. ASSUME Statement \/ UNCHANGED vars PROVE InsertedOnce' /\ LostBound'
  <2>1. UNCHANGED <<settled, payments, faults, pc, local>>
    BY <1>6 DEF Statement, DeleteSqueak, DownloadSqueak, DeleteExpiredReceivedOffers, Expire,
       SetSellPrice, vars, tables, world
  <2>2. Inserting' = Inserting /\ \A t \in Inserting : local'[t] = local[t]
    BY <2>1 DEF Inserting
  <2> QED BY <2>1, <2>2, LostKept
<1>7. ASSUME Crash \/ \E t \in Payer : PaymentUnconfirmed(t)
      PROVE  InsertedOnce' /\ LostBound'
  BY <1>7, LostFault
<1>8. InsertedOnce' /\ LostBound'
  BY <1>3, <1>4, <1>5, <1>6, <1>7 DEF Next
<1> QED BY <1>1, <1>8 DEF LostInv

\* However payers and downloads overlap and offers are deleted, at most one payment
\* per payer is lost with each fault (the gap between pay_invoice and
\* insert_sent_payment in pay_offer).
THEOREM LostPaymentsAreBounded == Spec => []LostPaymentsBounded
<1>1. Init => LostInv
  <2> SUFFICES ASSUME Init PROVE LostInv
    OBVIOUS
  <2>1. PurchaseInv
    BY InitInv
  <2>2. Lost = {} /\ Inserting = {} /\ faults = 0
    BY DEF Init, Lost, Inserting, Thread
  <2>3. 0 * Cardinality(Payer) = 0
    BY InsertingFinite
  <2> QED BY <2>1, <2>2, <2>3, FS_EmptySet DEF LostInv, InsertedOnce, LostBound
<1>2. LostInv => LostPaymentsBounded
  BY DEF LostInv, LostBound, LostPaymentsBounded, Lost, Inserting
<1> QED BY <1>1, <1>2, LostStep, PTL DEF Spec
=============================================================================
