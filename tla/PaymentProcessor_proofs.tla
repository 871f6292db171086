---------------------- MODULE PaymentProcessor_proofs ----------------------
(***************************************************************************)
(* Proofs about PaymentProcessor, for any set of invoices, any number of   *)
(* tasks, admin threads and faults.                                        *)
(***************************************************************************)
EXTENDS PaymentProcessor, TLAPS

\* The disjuncts of Next one by one, for the proofs that go through them.
LEMMA NextCases ==
    ASSUME [Next]_vars
    PROVE  \/ \E h \in Invoice : IssueOffer(h)
           \/ \E h \in Invoice : SettleInvoice(h)
           \/ \E h \in Invoice : Expire(h)
           \/ DeleteExpiredSentOffers
           \/ \E t \in Task : AcceptSubscription(t)
           \/ \E t \in Task : TaskStep(t)
           \/ \E c \in Caller : CallerStep(c)
           \/ \E c \in Caller : ReprocessReceivedPayments(c)
           \/ Shutdown
           \/ Crash
           \/ \E t \in Task : StreamFails(t)
           \/ \E t \in Task : StatementFails(t)
           \/ UNCHANGED vars
BY DEF Next, Market, Fault

LEMMA TypeStep ==
    ASSUME TypeOK, [Next]_vars
    PROVE  TypeOK'
<1> USE ThreadAssumption, EnvironmentAssumption
    DEF TypeOK, Offered, Recorded, lndVars, dbVars, controlVars, taskVars,
        TaskLabel, CallerLabel, Caller
<1>1. ASSUME NEW h \in Invoice, IssueOffer(h) PROVE TypeOK'
  BY <1>1 DEF IssueOffer
<1>2. ASSUME NEW h \in Invoice, SettleInvoice(h) PROVE TypeOK'
  <2>1. settled' \in Seq(Invoice) /\ DOMAIN settled \subseteq DOMAIN settled'
    BY <1>2 DEF SettleInvoice
  <2> QED BY <1>2, <2>1 DEF SettleInvoice
<1>3. ASSUME NEW h \in Invoice, Expire(h) PROVE TypeOK'
  BY <1>3 DEF Expire
<1>4. CASE DeleteExpiredSentOffers
  BY <1>4 DEF DeleteExpiredSentOffers
<1>5. ASSUME NEW t \in Task, AcceptSubscription(t) PROVE TypeOK'
  BY <1>5 DEF AcceptSubscription
<1>6. ASSUME NEW t \in Task, TaskStep(t) PROVE TypeOK'
  <2> USE DEF Goto
  <2>1. CASE TestStopped(t) BY <2>1 DEF TestStopped
  <2>2. CASE ReadIndex(t) BY <2>2 DEF ReadIndex, SettleIndices
  <2>3. CASE Subscribe(t) BY <2>3 DEF Subscribe
  <2>4. CASE CheckStopped(t) BY <2>4 DEF CheckStopped
  <2>5. CASE NextInvoice(t)
    <3>1. position[t] \in DOMAIN settled
      BY <2>5 DEF NextInvoice
    <3>2. CASE Goto(t, "insert") /\ UNCHANGED position
      BY <2>5, <3>1, <3>2 DEF NextInvoice
    <3>3. CASE position' = [position EXCEPT ![t] = @ + 1] /\ UNCHANGED pc
      BY <2>5, <3>1, <3>3 DEF NextInvoice
    <3> QED BY <2>5, <3>2, <3>3 DEF NextInvoice
  <2>6. CASE InsertReceivedPayment(t)
    <3>1. HeadInvoice(t) \in Invoice
      BY <2>6 DEF InsertReceivedPayment, HeadInvoice
    <3>2. received' \in [Recorded' -> Nat] /\ Recorded' \subseteq Invoice
      BY <2>6, <3>1 DEF InsertReceivedPayment
    <3> QED BY <2>6, <3>2 DEF InsertReceivedPayment
  <2>7. CASE SetSentOfferPaid(t)
    <3>1. Offered' = Offered /\ sentOffers' \in [Offered -> BOOLEAN]
      BY <2>7 DEF SetSentOfferPaid
    <3>2. position' = [position EXCEPT ![t] = @ + 1]
          /\ pc' = [pc EXCEPT ![t] = "next"]
      BY <2>7 DEF SetSentOfferPaid
    <3>3. UNCHANGED <<settled, issued, expired, received, caller, lock, current,
                      stopped, index, opened, cancelled, faults>>
      BY <2>7 DEF SetSentOfferPaid
    <3>4. position' \in [Task -> Nat]
      BY <3>2
    <3>5. pc' \in [Task -> TaskLabel]
      BY <3>2
    <3>6. \A u \in Task : pc'[u] \in {"insert", "mark"} => position'[u] \in DOMAIN settled'
      BY <3>2, <3>3
    <3> QED BY <3>1, <3>3, <3>4, <3>5, <3>6
  <2>8. CASE StreamEnds(t) BY <2>8 DEF StreamEnds
  <2>9. CASE Retry(t) BY <2>9 DEF Retry
  <2> QED BY <1>6, <2>1, <2>2, <2>3, <2>4, <2>5, <2>6, <2>7, <2>8, <2>9 DEF TaskStep
<1>7. ASSUME NEW c \in Caller, CallerStep(c) PROVE TypeOK'
  <2> USE DEF Move
  <2>1. CASE AcquireLock(c) BY <2>1 DEF AcquireLock
  <2>2. CASE SetStopped(c) BY <2>2 DEF SetStopped
  <2>3. CASE CancelResult(c) BY <2>3 DEF CancelResult
  <2>4. CASE SpawnTask(c) BY <2>4 DEF SpawnTask, Goto, Fresh, Returned
  <2> QED BY <1>7, <2>1, <2>2, <2>3, <2>4 DEF CallerStep
<1>8. ASSUME NEW c \in Caller, ReprocessReceivedPayments(c) PROVE TypeOK'
  BY <1>8 DEF ReprocessReceivedPayments, Move
<1>9. CASE Shutdown
  BY <1>9 DEF Shutdown, Move
<1>10. CASE Crash
  BY <1>10 DEF Crash
<1>11. ASSUME NEW t \in Task, StreamFails(t) PROVE TypeOK'
  BY <1>11 DEF StreamFails, Goto
<1>12. ASSUME NEW t \in Task, StatementFails(t) PROVE TypeOK'
  BY <1>12 DEF StatementFails, Goto
<1>13. CASE UNCHANGED vars
  BY <1>13 DEF vars
<1> QED BY NextCases, <1>1, <1>2, <1>3, <1>4, <1>5, <1>6, <1>7, <1>8, <1>9,
           <1>10, <1>11, <1>12, <1>13

LEMMA TypeInit == Init => TypeOK
<1> SUFFICES ASSUME Init PROVE TypeOK
  OBVIOUS
<1>1. Recorded \subseteq Invoice /\ received \in [Recorded -> Nat]
  <2>1. \A h \in {History[i] : i \in DOMAIN History} :
           (CHOOSE i \in DOMAIN History : History[i] = h) \in DOMAIN History
    OBVIOUS
  <2> QED BY <2>1, InvoiceAssumption DEF Init, Recorded
<1>2. sentOffers \in [Offered -> BOOLEAN] /\ Offered \subseteq issued
  BY DEF Init, Offered
<1>3. caller \in [Caller -> CallerLabel]
  BY DEF Init, CallerLabel
<1>4. pc \in [Task -> TaskLabel] /\ \A t \in Task : pc[t] = "new"
  BY DEF Init, TaskLabel
<1> QED BY <1>1, <1>2, <1>3, <1>4, InvoiceAssumption, EnvironmentAssumption
        DEF Init, TypeOK

\* Type correctness: the tables, the threads' control and their local data
\* have their types, and a task only handles invoices that lnd settled.
THEOREM TypeCorrect == Spec => []TypeOK
<1>1. TypeOK /\ [Next]_vars => TypeOK'
  BY TypeStep
<1> QED BY <1>1, TypeInit, PTL DEF Spec
-----------------------------------------------------------------------------
(* Starting and stopping.  The lock makes one thread at a time replace or  *)
(* stop the current task; the invariant says what that thread knows at     *)
(* each of its steps.                                                      *)

Cancelling == {c \in Caller : caller[c] \in {"start_cancel", "stop_cancel"}}

LockHeld ==
    \A c \in Caller :
        /\ caller[c] \in {"start_set", "start_cancel", "spawn", "stop_set", "stop_cancel"}
              => lock = c
        /\ caller[c] \in {"start_set", "start_cancel", "stop_set", "stop_cancel"}
              => current # None
        /\ caller[c] \in {"start_cancel", "stop_cancel", "spawn"}
              => current = None \/ stopped[current]

OthersStopped == \A t \in Alive : ~stopped[t] => t = current

StreamOpened ==
    \A t \in Task : pc[t] \in {"check", "next", "insert", "mark"} => opened[t]

CancelFollows ==
    \A t \in Task : pc[t] \in {"next", "insert", "mark"} /\ stopped[t]
                      => cancelled[t] \/ (current = t /\ Cancelling # {})

ControlInv == TypeOK /\ LockHeld /\ OthersStopped /\ StreamOpened /\ CancelFollows

LEMMA ControlTaskStep ==
    ASSUME ControlInv, NEW t \in Task, TaskStep(t), TypeOK'
    PROVE  ControlInv'
<1> USE DEF ControlInv, TypeOK, LockHeld, OthersStopped, StreamOpened, CancelFollows,
            Alive, Cancelling, lndVars, dbVars, controlVars, Goto
<1>1. CASE TestStopped(t) BY <1>1 DEF TestStopped
<1>2. CASE ReadIndex(t) BY <1>2 DEF ReadIndex
<1>3. CASE Subscribe(t) BY <1>3 DEF Subscribe
<1>4. CASE CheckStopped(t) BY <1>4 DEF CheckStopped
<1>5. CASE NextInvoice(t) BY <1>5, ZenonT(40) DEF NextInvoice
<1>6. CASE InsertReceivedPayment(t) BY <1>6 DEF InsertReceivedPayment
<1>7. CASE SetSentOfferPaid(t) BY <1>7 DEF SetSentOfferPaid
<1>8. CASE StreamEnds(t) BY <1>8 DEF StreamEnds
<1>9. CASE Retry(t) BY <1>9 DEF Retry
<1> QED BY <1>1, <1>2, <1>3, <1>4, <1>5, <1>6, <1>7, <1>8, <1>9 DEF TaskStep

LEMMA ControlCallerStep ==
    ASSUME ControlInv, NEW c \in Caller, CallerStep(c), TypeOK'
    PROVE  ControlInv'
<1> USE ThreadAssumption
    DEF ControlInv, TypeOK, LockHeld, OthersStopped, StreamOpened, CancelFollows,
        Alive, Cancelling, lndVars, dbVars, taskVars, Move, Caller
<1>1. CASE AcquireLock(c)
  BY <1>1, ZenonT(40) DEF AcquireLock
<1>2. CASE SetStopped(c)
  <2>1. current \in Task /\ lock = c
    BY <1>2 DEF SetStopped
  <2>2. /\ stopped' = [stopped EXCEPT ![current] = TRUE]
        /\ caller'[c] \in {"start_cancel", "stop_cancel"}
        /\ \A d \in Caller \ {c} : caller'[d] = caller[d]
        /\ UNCHANGED <<lock, current, pc, opened, cancelled>>
    BY <1>2 DEF SetStopped
  <2>3. LockHeld'
    BY <2>1, <2>2
  <2>4. OthersStopped' /\ StreamOpened'
    BY <2>1, <2>2
  <2>5. CancelFollows'
    BY <2>1, <2>2
  <2> QED BY <2>3, <2>4, <2>5
<1>3. CASE CancelResult(c)
  <2>1. current \in Task /\ lock = c /\ stopped[current]
    BY <1>3 DEF CancelResult
  <2>2. /\ cancelled' = [cancelled EXCEPT ![current] = @ \/ opened[current]]
        /\ caller'[c] \in {"spawn", "done"}
        /\ caller'[c] = "spawn" => lock' = lock
        /\ \A d \in Caller \ {c} : caller'[d] = caller[d]
        /\ UNCHANGED <<current, pc, stopped, opened>>
    BY <1>3 DEF CancelResult
  <2>3. LockHeld'
    BY <2>1, <2>2
  <2>4. OthersStopped' /\ StreamOpened'
    BY <2>2
  <2>5. ASSUME NEW t \in Task, pc[t] \in {"next", "insert", "mark"}, stopped[t]
        PROVE  cancelled'[t]
    <3>1. CASE t = current
      BY <2>1, <2>2, <2>5, <3>1
    <3>2. CASE t # current
      BY <2>1, <2>2, <2>5, <3>2
    <3> QED BY <3>1, <3>2
  <2> QED BY <2>2, <2>3, <2>4, <2>5
<1>4. CASE SpawnTask(c)
  <2>1. PICK t \in Fresh : current' = t /\ pc' = [pc EXCEPT ![t] = "loop"]
    BY <1>4 DEF SpawnTask, Goto
  <2>2. /\ lock = c /\ (current = None \/ stopped[current])
        /\ \A d \in Caller \ {c} :
              caller[d] \notin {"start_set", "start_cancel", "spawn", "stop_set", "stop_cancel"}
        /\ caller' = [caller EXCEPT ![c] = Returned(c)]
        /\ UNCHANGED <<stopped, opened, cancelled>>
    BY <1>4 DEF SpawnTask
  <2>3. LockHeld'
    BY <2>2 DEF Returned
  <2>4. OthersStopped'
    BY <2>1, <2>2 DEF Fresh
  <2>5. StreamOpened' /\ CancelFollows'
    <3>1. Cancelling = {}
      BY <1>4, <2>2 DEF SpawnTask
    <3> QED BY <2>1, <2>2, <3>1 DEF Fresh
  <2> QED BY <2>3, <2>4, <2>5
<1> QED BY <1>1, <1>2, <1>3, <1>4 DEF CallerStep

LEMMA ControlStep ==
    ASSUME ControlInv, [Next]_vars
    PROVE  ControlInv'
<1>t. TypeOK'
  BY TypeStep DEF ControlInv
<1>1. ASSUME NEW t \in Task, TaskStep(t) PROVE ControlInv'
  BY <1>1, <1>t, ControlTaskStep
<1>2. ASSUME NEW c \in Caller, CallerStep(c) PROVE ControlInv'
  BY <1>2, <1>t, ControlCallerStep
<1> USE DEF ControlInv, TypeOK, LockHeld, OthersStopped, StreamOpened, CancelFollows,
            Alive, Cancelling, lndVars, dbVars, controlVars, taskVars, Move, Goto
<1>3. CASE \/ \E h \in Invoice : IssueOffer(h) \/ SettleInvoice(h) \/ Expire(h)
           \/ DeleteExpiredSentOffers
           \/ UNCHANGED vars
  <2>1. UNCHANGED <<controlVars, taskVars>>
    BY <1>3 DEF IssueOffer, SettleInvoice, Expire, DeleteExpiredSentOffers, vars
  <2> QED BY <1>t, <2>1
<1>4. ASSUME NEW t \in Task, AcceptSubscription(t) PROVE ControlInv'
  BY <1>t, <1>4 DEF AcceptSubscription
<1>5. ASSUME NEW c \in Caller, ReprocessReceivedPayments(c) PROVE ControlInv'
  BY <1>t, <1>5 DEF ReprocessReceivedPayments, Caller
<1>6. CASE Shutdown
  BY <1>t, <1>6 DEF Shutdown, Caller
<1>7. CASE Crash
  BY <1>t, <1>7 DEF Crash
<1>8. ASSUME NEW t \in Task, StreamFails(t) \/ StatementFails(t) PROVE ControlInv'
  BY <1>t, <1>8, ZenonT(40) DEF StreamFails, StatementFails
<1> QED BY NextCases, <1>1, <1>2, <1>3, <1>4, <1>5, <1>6, <1>7, <1>8

LEMMA ControlInvariant == Spec => []ControlInv
<1>1. Init => ControlInv
  <2> SUFFICES ASSUME Init PROVE ControlInv
    OBVIOUS
  <2>1. TypeOK
    BY TypeInit
  <2> QED BY <2>1 DEF Init, ControlInv, LockHeld, OthersStopped, StreamOpened,
                      CancelFollows, Alive, Cancelling
<1>2. ControlInv /\ [Next]_vars => ControlInv'
  BY ControlStep
<1> QED BY <1>1, <1>2, PTL DEF Spec

\* However many threads start and stop the processor at once, all living
\* tasks but one have been told to stop.
THEOREM OneTaskRuns == Spec => []OneTaskKeepsRunning
<1>1. ControlInv => OneTaskKeepsRunning
  BY DEF ControlInv, OthersStopped, OneTaskKeepsRunning
<1> QED BY <1>1, ControlInvariant, PTL

\* No cancel is lost: a stopped task never waits on a live stream.
THEOREM CancelNeverLost == Spec => []NoLostCancel
<1>1. ControlInv => NoLostCancel
  BY DEF ControlInv, CancelFollows, Cancelling, NoLostCancel
<1> QED BY <1>1, ControlInvariant, PTL
-----------------------------------------------------------------------------
(* No gaps.  The index a task reads, the backlog it asks for and the place *)
(* where its stream stands all lie behind invoices that are handled, until *)
(* someone clears the indices.  This needs a first recorded payment, since *)
(* lnd gives no backlog for index 0.                                       *)

SomeRecorded == History # <<>>

\* The settle indices up to which everything is handled.
SafeIndices == {n \in 0..Len(settled) : \A i \in 1..n : Handled(i)}

RecordsSafe ==
    /\ Recorded # {}
    /\ \A h \in Recorded : received[h] # 0 /\ received[h] \in SafeIndices

IndexSafe ==
    \A t \in Task : pc[t] \in {"subscribe", "check", "next", "insert", "mark"}
                      => index[t] # 0 /\ index[t] \in SafeIndices

PositionSafe ==
    \A t \in Task : pc[t] \in {"check", "next", "insert", "mark"} /\ position[t] # 0
                      => position[t] - 1 \in SafeIndices

MarkSafe == \A t \in Task : pc[t] = "mark" => HeadInvoice(t) \in Recorded

SafeInv == TypeOK /\ RecordsSafe /\ IndexSafe /\ PositionSafe /\ MarkSafe

GapInv == TypeOK /\ Recorded # {} /\ (Cleared \/ SafeInv)

\* What is handled stays handled while lnd only appends, offers of settled
\* invoices only go, and received payments only come.
LEMMA SafeIndicesGrow ==
    ASSUME TypeOK, TypeOK', Len(settled) <= Len(settled'),
           \A i \in DOMAIN settled : settled'[i] = settled[i],
           Recorded \subseteq Recorded',
           \A i \in DOMAIN settled : settled[i] \in Offered' => settled[i] \in Offered
    PROVE  SafeIndices \subseteq SafeIndices'
<1>1. Len(settled) \in Nat /\ Len(settled') \in Nat /\ DOMAIN settled = 1..Len(settled)
  BY DEF TypeOK
<1>2. ASSUME NEW i \in DOMAIN settled, Handled(i)
      PROVE  Handled(i)'
  BY <1>2 DEF Handled
<1> QED BY <1>1, <1>2 DEF SafeIndices

LEMMA SafeIndicesSame ==
    ASSUME UNCHANGED <<settled, sentOffers, received>>
    PROVE  SafeIndices' = SafeIndices
BY DEF SafeIndices, Handled, Recorded, Offered

LEMMA SafeMarketStep ==
    ASSUME SafeInv, TypeOK', UNCHANGED <<received, controlVars, taskVars>>,
           \/ \E h \in Invoice : IssueOffer(h) \/ SettleInvoice(h) \/ Expire(h)
           \/ DeleteExpiredSentOffers
    PROVE  SafeInv'
<1>1. /\ Len(settled) <= Len(settled')
      /\ \A i \in DOMAIN settled : settled'[i] = settled[i]
      /\ DOMAIN settled \subseteq DOMAIN settled'
  <2> settled \in Seq(Invoice)
    BY DEF SafeInv, TypeOK
  <2>1. CASE \E h \in Invoice : SettleInvoice(h)
    <3>1. PICK h \in Invoice : settled' = Append(settled, h)
      BY <2>1 DEF SettleInvoice
    <3> QED BY <3>1
  <2>2. CASE UNCHANGED settled
    BY <2>2
  <2> QED BY <2>1, <2>2 DEF IssueOffer, Expire, DeleteExpiredSentOffers, lndVars
<1>2. \A i \in DOMAIN settled : settled[i] \in Offered' => settled[i] \in Offered
  BY DEF IssueOffer, SettleInvoice, Expire, DeleteExpiredSentOffers, lndVars, dbVars,
         Offered, Settled
<1>3. SafeIndices \subseteq SafeIndices'
  BY <1>1, <1>2, SafeIndicesGrow DEF SafeInv, Recorded
<1>4. \A t \in Task : pc[t] = "mark" => HeadInvoice(t)' = HeadInvoice(t)
  BY <1>1 DEF HeadInvoice, SafeInv, TypeOK, taskVars
<1> QED BY <1>3, <1>4 DEF SafeInv, RecordsSafe, IndexSafe, PositionSafe, MarkSafe,
                          Recorded, taskVars

LEMMA SafeTaskStep ==
    ASSUME SafeInv, TypeOK', NEW t \in Task, TaskStep(t)
    PROVE  SafeInv'
<1> USE DEF SafeInv, RecordsSafe, IndexSafe, PositionSafe, MarkSafe, HeadInvoice,
            lndVars, dbVars, controlVars, Goto, TypeOK
<1>1. CASE TestStopped(t)
  BY <1>1, SafeIndicesSame DEF TestStopped, Recorded
<1>2. CASE ReadIndex(t)
  <2>1. PICK n \in SettleIndices \cup {0} :
            IsLatestSettleIndex(n) /\ index' = [index EXCEPT ![t] = n]
    BY <1>2 DEF ReadIndex
  <2>2. n \in SettleIndices
    <3>1. PICK h \in Recorded : TRUE
      OBVIOUS
    <3>2. received[h] \in Nat /\ received[h] # 0 /\ received[h] <= n
      BY <2>1, <3>1 DEF IsLatestSettleIndex, SettleIndices
    <3> QED BY <2>1, <3>2
  <2>3. n # 0 /\ n \in SafeIndices
    BY <2>2 DEF SettleIndices
  <2> QED BY <1>2, <2>1, <2>3, SafeIndicesSame DEF ReadIndex, Recorded
<1>3. CASE Subscribe(t)
  BY <1>3, SafeIndicesSame DEF Subscribe, Recorded
<1>4. CASE CheckStopped(t)
  BY <1>4, SafeIndicesSame DEF CheckStopped, Recorded
<1>5. CASE NextInvoice(t)
  <2>1. UNCHANGED <<settled, sentOffers, received, index>> /\ SafeIndices' = SafeIndices
    BY <1>5, SafeIndicesSame DEF NextInvoice
  <2>2. CASE pc' = [pc EXCEPT ![t] = "insert"] /\ UNCHANGED position
    BY <1>5, <2>1, <2>2 DEF NextInvoice, Recorded
  <2>3. CASE /\ HeadInvoice(t) \notin Offered /\ UNCHANGED pc
             /\ position' = [position EXCEPT ![t] = @ + 1]
    <3>1. position[t] \in 1..Len(settled) /\ pc[t] = "next"
      BY <1>5 DEF NextInvoice
    <3>2. position[t] - 1 \in SafeIndices
      BY <3>1
    <3>3. position[t] \in SafeIndices
      BY <2>3, <3>1, <3>2 DEF SafeIndices, Handled
    <3> QED BY <2>1, <2>3, <3>1, <3>3 DEF Recorded
  <2> QED BY <1>5, <2>2, <2>3 DEF NextInvoice
<1>6. CASE InsertReceivedPayment(t)
  <2>1. position[t] \in 1..Len(settled) /\ pc[t] = "insert"
    BY <1>6 DEF InsertReceivedPayment
  <2>2. /\ Recorded' = Recorded \cup {HeadInvoice(t)}
        /\ \A h \in Recorded : received'[h] = received[h]
        /\ HeadInvoice(t) \notin Recorded => received'[HeadInvoice(t)] = position[t]
        /\ UNCHANGED <<settled, sentOffers, index, position>>
        /\ pc' = [pc EXCEPT ![t] = "mark"]
    BY <1>6 DEF InsertReceivedPayment, Recorded
  <2>3. SafeIndices \subseteq SafeIndices'
    BY <2>2, SafeIndicesGrow, SMTT(20) DEF Offered
  <2>4. position[t] \in SafeIndices'
    <3>1. position[t] - 1 \in SafeIndices'
      BY <2>1, <2>3
    <3>2. Handled(position[t])'
      BY <2>2 DEF Handled
    <3> QED BY <2>1, <2>2, <3>1, <3>2 DEF SafeIndices
  <2>5. RecordsSafe'
    BY <2>1, <2>2, <2>3, <2>4
  <2>6. IndexSafe' /\ PositionSafe'
    BY <2>1, <2>2, <2>3
  <2>7. MarkSafe'
    BY <2>2
  <2> QED BY <2>5, <2>6, <2>7
<1>7. CASE SetSentOfferPaid(t)
  <2>1. position[t] \in 1..Len(settled) /\ pc[t] = "mark"
    BY <1>7 DEF SetSentOfferPaid
  <2>2. /\ Offered' = Offered
        /\ UNCHANGED <<settled, received, index>>
        /\ position' = [position EXCEPT ![t] = @ + 1]
        /\ pc' = [pc EXCEPT ![t] = "next"]
    BY <1>7 DEF SetSentOfferPaid, Offered
  <2>3. SafeIndices \subseteq SafeIndices'
    BY <2>2, SafeIndicesGrow, SMTT(20) DEF Recorded
  <2>4. position[t] \in SafeIndices
    <3>1. position[t] - 1 \in SafeIndices
      BY <2>1
    <3>2. Handled(position[t])
      BY <2>1 DEF Handled
    <3> QED BY <2>1, <3>1, <3>2 DEF SafeIndices
  <2>5. RecordsSafe'
    BY <2>2, <2>3 DEF Recorded
  <2>6. IndexSafe'
    BY <2>1, <2>2, <2>3
  <2>7. MarkSafe'
    BY <2>2 DEF Recorded
  <2>8. PositionSafe'
    BY <2>1, <2>2, <2>3, <2>4
  <2> QED BY <2>5, <2>6, <2>7, <2>8
<1>8. CASE StreamEnds(t)
  BY <1>8, SafeIndicesSame DEF StreamEnds, Recorded
<1>9. CASE Retry(t)
  BY <1>9, SafeIndicesSame DEF Retry, Recorded
<1> QED BY <1>1, <1>2, <1>3, <1>4, <1>5, <1>6, <1>7, <1>8, <1>9 DEF TaskStep

LEMMA SafeStep ==
    ASSUME SafeInv, [Next]_vars, \A c \in Caller : ~ReprocessReceivedPayments(c)
    PROVE  SafeInv'
<1>t. TypeOK'
  BY TypeStep DEF SafeInv
<1>1. CASE \/ \E h \in Invoice : IssueOffer(h) \/ SettleInvoice(h) \/ Expire(h)
           \/ DeleteExpiredSentOffers
  <2>1. UNCHANGED <<received, controlVars, taskVars>>
    BY <1>1 DEF IssueOffer, SettleInvoice, Expire, DeleteExpiredSentOffers, dbVars
  <2> QED BY <1>t, <1>1, <2>1, SafeMarketStep
<1>2. ASSUME NEW t \in Task, TaskStep(t) PROVE SafeInv'
  BY <1>t, <1>2, SafeTaskStep
<1> USE DEF SafeInv, RecordsSafe, IndexSafe, PositionSafe, MarkSafe, HeadInvoice,
            lndVars, dbVars, controlVars, taskVars, Goto, TypeOK, Recorded
<1>3. ASSUME NEW t \in Task, AcceptSubscription(t) PROVE SafeInv'
  <2>1. /\ pc[t] \in {"check", "next"} /\ index[t] # 0
        /\ position' = [position EXCEPT ![t] = index[t] + 1]
        /\ UNCHANGED <<settled, sentOffers, received, pc, index>>
    BY <1>3 DEF AcceptSubscription
  <2>2. SafeIndices' = SafeIndices
    BY <2>1, SafeIndicesSame
  <2> QED BY <1>t, <2>1, <2>2
<1>4. ASSUME NEW c \in Caller, CallerStep(c) PROVE SafeInv'
  <2>1. /\ UNCHANGED <<settled, sentOffers, received, index, position>>
        /\ \A t \in Task : pc'[t] = pc[t] \/ pc'[t] = "loop"
    BY <1>4 DEF CallerStep, AcquireLock, SetStopped, CancelResult, SpawnTask, Fresh
  <2>2. SafeIndices' = SafeIndices
    BY <2>1, SafeIndicesSame
  <2> QED BY <1>t, <2>1, <2>2
<1>6. CASE Shutdown \/ UNCHANGED vars
  BY <1>t, <1>6, SafeIndicesSame DEF Shutdown, vars
<1>7. CASE Crash
  BY <1>t, <1>7, SafeIndicesSame DEF Crash
<1>8. ASSUME NEW t \in Task, StreamFails(t) \/ StatementFails(t) PROVE SafeInv'
  BY <1>t, <1>8, SafeIndicesSame DEF StreamFails, StatementFails
<1> QED BY NextCases, <1>1, <1>2, <1>3, <1>4, <1>6, <1>7, <1>8

\* What becomes of the received payments: they stay, one comes, or all are
\* cleared.
LEMMA ReceivedStep ==
    ASSUME TypeOK, [Next]_vars
    PROVE  \/ received' = received
           \/ /\ Recorded \subseteq Recorded'
              /\ \A h \in Recorded : received'[h] = received[h]
           \/ Recorded' = Recorded /\ \A h \in Recorded : received'[h] = 0
<1>1. ASSUME NEW t \in Task, InsertReceivedPayment(t)
      PROVE  /\ Recorded \subseteq Recorded'
             /\ \A h \in Recorded : received'[h] = received[h]
  BY <1>1 DEF InsertReceivedPayment, Recorded
<1>2. ASSUME NEW t \in Task, TaskStep(t), ~InsertReceivedPayment(t)
      PROVE  received' = received
  BY <1>2 DEF TaskStep, TestStopped, ReadIndex, Subscribe, CheckStopped, NextInvoice,
              SetSentOfferPaid, StreamEnds, Retry, dbVars
<1>3. ASSUME NEW t \in Task, AcceptSubscription(t) \/ StreamFails(t) \/ StatementFails(t)
      PROVE  received' = received
  BY <1>3 DEF AcceptSubscription, StreamFails, StatementFails, dbVars
<1>4. ASSUME NEW c \in Caller, CallerStep(c)
      PROVE  received' = received
  BY <1>4 DEF CallerStep, AcquireLock, SetStopped, CancelResult, SpawnTask, dbVars
<1>5. ASSUME NEW c \in Caller, ReprocessReceivedPayments(c)
      PROVE  Recorded' = Recorded /\ \A h \in Recorded : received'[h] = 0
  BY <1>5 DEF ReprocessReceivedPayments, Recorded
<1>6. CASE \/ \E h \in Invoice : IssueOffer(h) \/ SettleInvoice(h) \/ Expire(h)
           \/ DeleteExpiredSentOffers \/ Shutdown \/ Crash \/ UNCHANGED vars
  BY <1>6 DEF IssueOffer, SettleInvoice, Expire, DeleteExpiredSentOffers, Shutdown, Crash,
              dbVars, vars
<1> QED BY NextCases, <1>1, <1>2, <1>3, <1>4, <1>5, <1>6

LEMMA GapStep ==
    ASSUME GapInv, [Next]_vars
    PROVE  GapInv'
<1>1. TypeOK /\ TypeOK' /\ Recorded # {}
  BY TypeStep DEF GapInv
<1>2. Recorded' # {}
  BY <1>1, ReceivedStep DEF Recorded
<1>3. CASE Cleared
  <2>1. Cleared'
    BY <1>1, <1>3, ReceivedStep DEF Cleared, Recorded
  <2> QED BY <1>1, <1>2, <2>1 DEF GapInv
<1>4. CASE \E c \in Caller : ReprocessReceivedPayments(c)
  <2>1. Recorded' = Recorded /\ \A h \in Recorded : received'[h] = 0
    BY <1>4 DEF ReprocessReceivedPayments, Recorded
  <2>2. Cleared'
    BY <1>1, <2>1 DEF Cleared
  <2> QED BY <1>1, <1>2, <2>2 DEF GapInv
<1>5. CASE SafeInv /\ \A c \in Caller : ~ReprocessReceivedPayments(c)
  BY <1>1, <1>2, <1>5, SafeStep DEF GapInv
<1> QED BY <1>3, <1>4, <1>5 DEF GapInv

LEMMA GapInit ==
    ASSUME SomeRecorded, Init
    PROVE  GapInv
<1>1. TypeOK
  BY TypeInit
<1>2. DOMAIN History = 1..Len(History) /\ Len(History) \in Nat /\ Len(History) # 0
  BY InvoiceAssumption DEF SomeRecorded
<1>3. Recorded = {History[i] : i \in DOMAIN History} /\ settled = History
  BY DEF Init, Recorded
<1>4. SafeIndices = 0..Len(History)
  BY <1>2, <1>3 DEF SafeIndices, Handled
<1>5. \A h \in Recorded : received[h] \in DOMAIN History
  BY <1>3 DEF Init
<1>6. RecordsSafe
  BY <1>2, <1>3, <1>4, <1>5 DEF RecordsSafe
<1> QED BY <1>1, <1>6 DEF Init, GapInv, SafeInv, RecordsSafe, IndexSafe, PositionSafe, MarkSafe

LEMMA GapInvariant ==
    ASSUME SomeRecorded
    PROVE  Spec => []GapInv
<1>1. Init => GapInv
  BY GapInit
<1>2. GapInv /\ [Next]_vars => GapInv'
  BY GapStep
<1> QED BY <1>1, <1>2, PTL DEF Spec

\* Once a payment has been recorded and until the indices are cleared, there
\* is no gap in the received payments: crashes, failing statements, broken
\* streams and tasks that replace each other lose none.
THEOREM NoGapsHold ==
    ASSUME SomeRecorded
    PROVE  Spec => []NoGaps
<1>1. GapInv => NoGaps
  <2> SUFFICES ASSUME SafeInv, NEW h \in Recorded, NEW i \in 1..(received[h] - 1)
               PROVE  Handled(i)
    BY DEF NoGaps, GapInv
  <2>1. received[h] \in SafeIndices
    BY DEF SafeInv, RecordsSafe
  <2>2. received[h] \in Nat /\ i \in 1..received[h]
    BY <2>1 DEF SafeIndices
  <2> QED BY <2>1, <2>2 DEF SafeIndices
<1> QED BY <1>1, GapInvariant, PTL
-----------------------------------------------------------------------------
(* The processor implements PaymentLedger: the market moves lnd and the    *)
(* offers, the insert of a new payment enters it, all else is a stutter.   *)

LEMMA LedgerInsert ==
    ASSUME GapInv, NEW t \in Task, InsertReceivedPayment(t)
    PROVE  [Ledger!Next]_(Ledger!vars)
<1>1. position[t] \in DOMAIN settled /\ pc[t] = "insert"
  BY DEF InsertReceivedPayment, GapInv, TypeOK
<1>2. UNCHANGED <<settled, Offered>>
  BY DEF InsertReceivedPayment, lndVars, Offered
<1>3. CASE HeadInvoice(t) \in Recorded
  <2>1. received' = received
    BY <1>3 DEF InsertReceivedPayment, GapInv, TypeOK, Recorded
  <2> QED BY <1>2, <2>1 DEF Ledger!vars
<1>4. CASE HeadInvoice(t) \notin Recorded
  <2>2. \/ Cleared
        \/ \A j \in 1..(position[t] - 1) : settled[j] \in Recorded \/ settled[j] \notin Offered
    <3> SUFFICES ASSUME SafeInv
                 PROVE  \A j \in 1..(position[t] - 1) :
                            settled[j] \in Recorded \/ settled[j] \notin Offered
      BY DEF GapInv
    <3>1. position[t] # 0 /\ position[t] - 1 \in SafeIndices
      BY <1>1 DEF SafeInv, PositionSafe, TypeOK
    <3> QED BY <3>1 DEF SafeIndices, Handled
  <2>3. received' = [h \in Recorded \cup {settled[position[t]]} |->
                        IF h = settled[position[t]] THEN position[t] ELSE received[h]]
    BY <1>4 DEF InsertReceivedPayment, HeadInvoice
  <2>4. Ledger!Enter(position[t])
    BY <1>2, <1>4, <2>2, <2>3 DEF Ledger!Enter, Ledger!Entered, Ledger!Cleared, Cleared, Recorded, HeadInvoice
  <2> QED BY <1>1, <2>4 DEF Ledger!Next
<1> QED BY <1>3, <1>4

LEMMA LedgerStep ==
    ASSUME GapInv, GapInv', [Next]_vars
    PROVE  [Ledger!Next]_(Ledger!vars)
<1>1. ASSUME NEW t \in Task, InsertReceivedPayment(t)
      PROVE  [Ledger!Next]_(Ledger!vars)
  BY <1>1, LedgerInsert
<1>2. ASSUME NEW h \in Invoice, SettleInvoice(h)
      PROVE  [Ledger!Next]_(Ledger!vars)
  BY <1>2 DEF SettleInvoice, Ledger!Next, Ledger!Settle, dbVars, Offered
<1>3. CASE UNCHANGED <<settled, received>>
  <2>1. Offered' \in SUBSET Invoice
    BY DEF GapInv, TypeOK
  <2> QED BY <1>3, <2>1 DEF Ledger!Next, Ledger!Offers
<1>4. CASE \/ \E h \in Invoice : IssueOffer(h) \/ SettleInvoice(h) \/ Expire(h)
           \/ DeleteExpiredSentOffers
  BY <1>2, <1>3, <1>4 DEF IssueOffer, Expire, DeleteExpiredSentOffers, dbVars, lndVars
<1>5. ASSUME NEW t \in Task, TaskStep(t)
      PROVE  [Ledger!Next]_(Ledger!vars)
  BY <1>1, <1>3, <1>5
     DEF TaskStep, TestStopped, ReadIndex, Subscribe, CheckStopped, NextInvoice,
         SetSentOfferPaid, StreamEnds, Retry, lndVars, dbVars
<1>6. ASSUME NEW t \in Task, AcceptSubscription(t)
      PROVE  [Ledger!Next]_(Ledger!vars)
  BY <1>3, <1>6 DEF AcceptSubscription, lndVars, dbVars
<1>7. ASSUME NEW c \in Caller, CallerStep(c)
      PROVE  [Ledger!Next]_(Ledger!vars)
  BY <1>3, <1>7
     DEF CallerStep, AcquireLock, SetStopped, CancelResult, SpawnTask, lndVars, dbVars
<1>8. ASSUME NEW c \in Caller, ReprocessReceivedPayments(c)
      PROVE  [Ledger!Next]_(Ledger!vars)
  BY <1>8 DEF ReprocessReceivedPayments, Ledger!Next, Ledger!ClearIndices, Ledger!Entered,
              Recorded, Offered, lndVars
<1>9. CASE Shutdown \/ Crash \/ UNCHANGED vars
  BY <1>3, <1>9 DEF Shutdown, Crash, vars, lndVars, dbVars
<1>10. ASSUME NEW t \in Task, StreamFails(t) \/ StatementFails(t)
       PROVE  [Ledger!Next]_(Ledger!vars)
  BY <1>3, <1>10 DEF StreamFails, StatementFails, lndVars, dbVars
<1> QED BY NextCases, <1>4, <1>5, <1>6, <1>7, <1>8, <1>9, <1>10

\* The code keeps the promise of PaymentLedger: every settled invoice of a
\* sent offer is entered at most once, with its own settle index and after
\* the ones before it.
THEOREM ImplementsLedger ==
    ASSUME SomeRecorded
    PROVE  Spec => LedgerSpec
<1>1. Init => Ledger!Init
  BY DEF Init, Ledger!Init, Offered
<1>2. GapInv /\ GapInv' /\ [Next]_vars => [Ledger!Next]_(Ledger!vars)
  BY LedgerStep
<1> QED BY <1>1, <1>2, GapInvariant, PTL DEF Spec, LedgerSpec, Ledger!Spec
=============================================================================
