-------------------------- MODULE PaymentProcessor --------------------------
(***************************************************************************)
(* How a seller learns that its offers were paid.  PaymentProcessor runs a *)
(* task, a thread that subscribes to the settled invoices of lnd from the  *)
(* highest settle index it has recorded, and for each invoice of a sent    *)
(* offer inserts a received payment and marks the offer paid.  start_      *)
(* processing replaces the task by a new one without waiting for the old   *)
(* one to end; stop_processing and cancellation race with the task's       *)
(* (re)subscription.  The worker of the node starts and stops it, and the  *)
(* admin request reprocess_received_payments starts it again.              *)
(*                                                                         *)
(* lnd, the gRPC stream and the buyers are external: they are modelled by  *)
(* what the code relies on, the rules of settle_index from the comments of *)
(* lnd.proto.  Each SQL statement is one step.                             *)
(***************************************************************************)
EXTENDS Integers, Sequences, FiniteSets

CONSTANTS
    Invoice,     \* payment hashes of the invoices of the lnd node
    Foreign,     \* those that do not belong to a sent offer
    History,     \* invoices settled and recorded before this run
    Task,        \* payment processor tasks (bounds how many are started)
    Worker,      \* the thread of ProcessReceivedPaymentsWorker
    Admin,       \* threads of the admin server
    None,
    Requests,    \* what users do
    Faults,      \* what goes wrong
    MaxFaults    \* bound: how often it goes wrong

ASSUME InvoiceAssumption ==
    /\ Foreign \subseteq Invoice
    /\ History \in Seq(Invoice)
    /\ \A i, j \in DOMAIN History : History[i] = History[j] => i = j

ASSUME ThreadAssumption == Worker \notin Admin /\ None \notin Task \cup Admin \cup {Worker}

ASSUME EnvironmentAssumption ==
    /\ Requests \subseteq {"reprocess", "shutdown"}
    /\ Faults \subseteq {"lnd", "database", "crash"}
    /\ MaxFaults \in Nat

VARIABLES
    settled,      \* lnd: invoices in the order of their settle index
    sentOffers,   \* sent_offer table: payment hash -> paid
    issued,       \* payment hashes that ever had a sent offer
    expired,      \* invoices that are out of retention
    received,     \* received_payment table: payment hash -> settle_index
    caller,       \* what each thread that controls the processor does next
    lock,         \* holder of PaymentProcessor.lock
    current,      \* PaymentProcessor.current_task
    pc,           \* what each task does next
    stopped,      \* PaymentProcessorTask.stopped is set
    index,        \* latest_settle_index, local to each task
    opened,       \* PaymentProcessorTask.payments_result is not None
    cancelled,    \* the stream of payments_result is cancelled
    position,     \* next settle index of the stream, 0 until lnd accepts it
    faults        \* number of faults so far

lndVars == <<settled, issued, expired>>
dbVars == <<sentOffers, received>>
controlVars == <<caller, lock, current>>
taskVars == <<pc, stopped, index, opened, cancelled, position>>
vars == <<lndVars, dbVars, controlVars, taskVars, faults>>
-----------------------------------------------------------------------------
Caller == Admin \cup {Worker}

TaskLabel == {"new", "loop", "read_index", "subscribe", "check", "next",
              "insert", "mark", "wait", "ended"}

CallerLabel == {"idle", "start", "start_set", "start_cancel", "spawn",
                "running", "stop", "stop_set", "stop_cancel", "done"}

Recorded == DOMAIN received
Offered == DOMAIN sentOffers
Settled == {settled[i] : i \in DOMAIN settled}

SettleIndices == {received[h] : h \in Recorded}

\* SELECT max(settle_index), "or 0" when the table is empty.
IsLatestSettleIndex(n) ==
    n \in SettleIndices \cup {0} /\ \A m \in SettleIndices : m <= n

Fresh == {t \in Task : pc[t] = "new"}
Alive == {t \in Task : pc[t] \notin {"new", "ended"}}

\* The invoice at the head of a task's stream.
HeadInvoice(t) == settled[position[t]]

TypeOK ==
    /\ settled \in Seq(Invoice)
    /\ issued \subseteq Invoice /\ expired \subseteq Invoice
    /\ Offered \subseteq issued /\ sentOffers \in [Offered -> BOOLEAN]
    /\ Recorded \subseteq Invoice /\ received \in [Recorded -> Nat]
    /\ caller \in [Caller -> CallerLabel]
    /\ lock \in Caller \cup {None}
    /\ current \in Task \cup {None}
    /\ pc \in [Task -> TaskLabel]
    /\ stopped \in [Task -> BOOLEAN]
    /\ index \in [Task -> Nat]
    /\ opened \in [Task -> BOOLEAN]
    /\ cancelled \in [Task -> BOOLEAN]
    /\ position \in [Task -> Nat]
    /\ \A t \in Task : pc[t] \in {"insert", "mark"} => position[t] \in DOMAIN settled
    /\ faults \in 0..MaxFaults
-----------------------------------------------------------------------------
(* lnd, the buyers and the sent_offer table.                               *)

\* A buyer asked for an offer: an invoice is added to lnd, the offer saved.
IssueOffer(h) ==
    /\ h \notin issued \cup Foreign \cup Settled
    /\ issued' = issued \cup {h}
    /\ sentOffers' = [r \in Offered \cup {h} |-> IF r = h THEN FALSE ELSE sentOffers[r]]
    /\ UNCHANGED <<settled, expired, received, controlVars, taskVars, faults>>

\* An invoice is paid, which lnd allows only before it expires.
SettleInvoice(h) ==
    /\ h \in issued \cup Foreign
    /\ h \notin Settled \cup expired
    /\ settled' = Append(settled, h)
    /\ UNCHANGED <<issued, expired, dbVars, controlVars, taskVars, faults>>

Expire(h) ==
    /\ h \in issued \ expired
    /\ expired' = expired \cup {h}
    /\ UNCHANGED <<settled, issued, dbVars, controlVars, taskVars, faults>>

\* The offer expiry worker: paid or not, the old offers go.
DeleteExpiredSentOffers ==
    /\ Offered \cap expired # {}
    /\ sentOffers' = [h \in Offered \ expired |-> sentOffers[h]]
    /\ UNCHANGED <<lndVars, received, controlVars, taskVars, faults>>

\* lnd gets the subscription.  A settle_index of zero asks for no backlog.
AcceptSubscription(t) ==
    /\ pc[t] \in {"check", "next"}
    /\ position[t] = 0
    /\ position' = [position EXCEPT ![t] =
                       IF index[t] # 0 THEN index[t] + 1 ELSE Len(settled) + 1]
    /\ UNCHANGED <<lndVars, dbVars, controlVars, pc, stopped, index, opened,
                   cancelled, faults>>
-----------------------------------------------------------------------------
(* The thread of a task.                                                   *)

Goto(t, label) == pc' = [pc EXCEPT ![t] = label]

TestStopped(t) ==
    /\ pc[t] = "loop"
    /\ Goto(t, IF stopped[t] THEN "ended" ELSE "read_index")
    /\ UNCHANGED <<lndVars, dbVars, controlVars, stopped, index, opened,
                   cancelled, position, faults>>

\* Mutant: every subscription asks for new invoices only.
ReadIndex_NoBacklog(t) ==
    /\ pc[t] = "read_index"
    /\ index' = [index EXCEPT ![t] = 0]
    /\ Goto(t, "subscribe")
    /\ UNCHANGED <<lndVars, dbVars, controlVars, stopped, opened, cancelled,
                   position, faults>>

\* Mutant: the index taken for the first one wanted.
ReadIndex_NextWanted(t) ==
    /\ pc[t] = "read_index"
    /\ \E n \in SettleIndices \cup {0} :
          IsLatestSettleIndex(n) /\ index' = [index EXCEPT ![t] = n + 1]
    /\ Goto(t, "subscribe")
    /\ UNCHANGED <<lndVars, dbVars, controlVars, stopped, opened, cancelled,
                   position, faults>>

ReadIndex(t) ==
    /\ pc[t] = "read_index"
    /\ \E n \in SettleIndices \cup {0} :
          IsLatestSettleIndex(n) /\ index' = [index EXCEPT ![t] = n]
    /\ Goto(t, "subscribe")
    /\ UNCHANGED <<lndVars, dbVars, controlVars, stopped, opened, cancelled,
                   position, faults>>

Subscribe(t) ==
    /\ pc[t] = "subscribe"
    /\ opened' = [opened EXCEPT ![t] = TRUE]
    /\ cancelled' = [cancelled EXCEPT ![t] = FALSE]
    /\ position' = [position EXCEPT ![t] = 0]
    /\ Goto(t, "check")
    /\ UNCHANGED <<lndVars, dbVars, controlVars, stopped, index, faults>>

\* Mutant: no test of stopped after the subscription.
CheckStopped_Missing(t) ==
    /\ pc[t] = "check"
    /\ Goto(t, "next")
    /\ UNCHANGED <<lndVars, dbVars, controlVars, stopped, index, opened,
                   cancelled, position, faults>>

\* The task was stopped before it had a stream to cancel.
CheckStopped(t) ==
    /\ pc[t] = "check"
    /\ cancelled' = [cancelled EXCEPT ![t] = @ \/ stopped[t]]
    /\ Goto(t, "next")
    /\ UNCHANGED <<lndVars, dbVars, controlVars, stopped, index, opened,
                   position, faults>>

\* The next settled invoice: looked up among the sent offers, skipped if
\* none has its payment hash.
NextInvoice(t) ==
    /\ pc[t] = "next"
    /\ position[t] \in DOMAIN settled
    /\ \/ HeadInvoice(t) \in Offered /\ Goto(t, "insert") /\ UNCHANGED position
       \/ /\ HeadInvoice(t) \notin Offered
          /\ position' = [position EXCEPT ![t] = @ + 1]
          /\ UNCHANGED pc
    /\ UNCHANGED <<lndVars, dbVars, controlVars, stopped, index, opened,
                   cancelled, faults>>

\* Mutant: the offer is marked only if the payment was there already.
InsertReceivedPayment_SkipsMark(t) ==
    /\ pc[t] = "insert"
    /\ received' = [h \in Recorded \cup {HeadInvoice(t)} |->
                      IF h \in Recorded THEN received[h] ELSE position[t]]
    /\ \/ HeadInvoice(t) \in Recorded /\ Goto(t, "mark") /\ UNCHANGED position
       \/ /\ HeadInvoice(t) \notin Recorded /\ Goto(t, "next")
          /\ position' = [position EXCEPT ![t] = @ + 1]
    /\ UNCHANGED <<lndVars, sentOffers, controlVars, stopped, index, opened,
                   cancelled, faults>>

\* A payment hash that is there already is left as it is.
InsertReceivedPayment(t) ==
    /\ pc[t] = "insert"
    /\ received' = [h \in Recorded \cup {HeadInvoice(t)} |->
                      IF h \in Recorded THEN received[h] ELSE position[t]]
    /\ Goto(t, "mark")
    /\ UNCHANGED <<lndVars, sentOffers, controlVars, stopped, index, opened,
                   cancelled, position, faults>>

SetSentOfferPaid(t) ==
    /\ pc[t] = "mark"
    /\ sentOffers' = [h \in Offered |-> IF h = HeadInvoice(t) THEN TRUE ELSE sentOffers[h]]
    /\ position' = [position EXCEPT ![t] = @ + 1]
    /\ Goto(t, "next")
    /\ UNCHANGED <<lndVars, received, controlVars, stopped, index, opened,
                   cancelled, faults>>

\* A cancelled stream ends without an exception, after the invoices that
\* gRPC had received by then or before.
StreamEnds(t) ==
    /\ pc[t] = "next"
    /\ cancelled[t]
    /\ Goto(t, "loop")
    /\ UNCHANGED <<lndVars, dbVars, controlVars, stopped, index, opened,
                   cancelled, position, faults>>

\* Mutant: the exception ends the thread.
Retry_GivesUp(t) ==
    /\ pc[t] = "wait"
    /\ Goto(t, "ended")
    /\ UNCHANGED <<lndVars, dbVars, controlVars, stopped, index, opened,
                   cancelled, position, faults>>

\* The wait before a retry is over, or the task is stopped.
Retry(t) ==
    /\ pc[t] = "wait"
    /\ Goto(t, "loop")
    /\ UNCHANGED <<lndVars, dbVars, controlVars, stopped, index, opened,
                   cancelled, position, faults>>
-----------------------------------------------------------------------------
(* The threads that start and stop the processor.                          *)

Move(c, label) == caller' = [caller EXCEPT ![c] = label]

\* Where a caller is when start_processing or stop_processing returns.
Returned(c) == IF c = Worker THEN "running" ELSE "idle"

\* Mutant: start_processing and stop_processing without the lock.
AcquireLock_NoLock(c) ==
    /\ caller[c] \in {"start", "stop"}
    /\ Move(c, CASE caller[c] = "start" /\ current = None -> "spawn"
                 [] caller[c] = "start" /\ current # None -> "start_set"
                 [] caller[c] = "stop" /\ current = None -> "done"
                 [] caller[c] = "stop" /\ current # None -> "stop_set")
    /\ UNCHANGED <<lndVars, dbVars, lock, current, taskVars, faults>>

AcquireLock(c) ==
    /\ caller[c] \in {"start", "stop"}
    /\ lock = None
    /\ lock' = IF caller[c] = "stop" /\ current = None THEN None ELSE c
    /\ Move(c, CASE caller[c] = "start" /\ current = None -> "spawn"
                 [] caller[c] = "start" /\ current # None -> "start_set"
                 [] caller[c] = "stop" /\ current = None -> "done"
                 [] caller[c] = "stop" /\ current # None -> "stop_set")
    /\ UNCHANGED <<lndVars, dbVars, current, taskVars, faults>>

SetStopped(c) ==
    /\ caller[c] \in {"start_set", "stop_set"}
    /\ stopped' = [stopped EXCEPT ![current] = TRUE]
    /\ Move(c, IF caller[c] = "start_set" THEN "start_cancel" ELSE "stop_cancel")
    /\ UNCHANGED <<lndVars, dbVars, lock, current, pc, index, opened, cancelled,
                   position, faults>>

\* Mutant: stopped is set, but nothing is cancelled.
CancelResult_Missing(c) ==
    /\ caller[c] \in {"start_cancel", "stop_cancel"}
    /\ \/ caller[c] = "start_cancel" /\ Move(c, "spawn") /\ UNCHANGED lock
       \/ caller[c] = "stop_cancel" /\ Move(c, "done") /\ lock' = None
    /\ UNCHANGED <<lndVars, dbVars, current, taskVars, faults>>

CancelResult(c) ==
    /\ caller[c] \in {"start_cancel", "stop_cancel"}
    /\ cancelled' = [cancelled EXCEPT ![current] = @ \/ opened[current]]
    /\ \/ caller[c] = "start_cancel" /\ Move(c, "spawn") /\ UNCHANGED lock
       \/ caller[c] = "stop_cancel" /\ Move(c, "done") /\ lock' = None
    /\ UNCHANGED <<lndVars, dbVars, current, pc, stopped, index, opened,
                   position, faults>>

SpawnTask(c) ==
    /\ caller[c] = "spawn"
    /\ \E t \in Fresh : current' = t /\ Goto(t, "loop")
    /\ lock' = None
    /\ Move(c, Returned(c))
    /\ UNCHANGED <<lndVars, dbVars, stopped, index, opened, cancelled, position,
                   faults>>

\* Bound: a start is requested only while a task is left for it.
Starting == {c \in Caller : caller[c] \in {"start", "start_set", "start_cancel", "spawn"}}
TaskLeft == Cardinality(Fresh) > Cardinality(Starting)

\* Mutant: cleared to NULL.
ReprocessReceivedPayments_Null(c) ==
    /\ "reprocess" \in Requests
    /\ c \in Admin /\ caller[c] = "idle"
    /\ TaskLeft
    /\ received' = [h \in Recorded |-> None]
    /\ Move(c, "start")
    /\ UNCHANGED <<lndVars, sentOffers, lock, current, taskVars, faults>>

\* The indices are cleared before the running task is stopped.
ReprocessReceivedPayments(c) ==
    /\ "reprocess" \in Requests
    /\ c \in Admin /\ caller[c] = "idle"
    /\ TaskLeft
    /\ received' = [h \in Recorded |-> 0]
    /\ Move(c, "start")
    /\ UNCHANGED <<lndVars, sentOffers, lock, current, taskVars, faults>>

Shutdown ==
    /\ "shutdown" \in Requests
    /\ caller[Worker] = "running"
    /\ Move(Worker, "stop")
    /\ UNCHANGED <<lndVars, dbVars, lock, current, taskVars, faults>>
-----------------------------------------------------------------------------
(* Faults.                                                                 *)

\* The stream breaks: InvoiceSubscriptionError.
StreamFails(t) ==
    /\ "lnd" \in Faults /\ faults < MaxFaults
    /\ pc[t] = "next"
    /\ Goto(t, "wait")
    /\ faults' = faults + 1
    /\ UNCHANGED <<lndVars, dbVars, controlVars, stopped, index, opened,
                   cancelled, position>>

\* An SQL statement raises, which no handler in the thread catches.
StatementFails(t) ==
    /\ "database" \in Faults /\ faults < MaxFaults
    /\ pc[t] \in {"read_index", "next", "insert", "mark"}
    /\ Goto(t, "ended")
    /\ faults' = faults + 1
    /\ UNCHANGED <<lndVars, dbVars, controlVars, stopped, index, opened,
                   cancelled, position>>

\* The node dies and is started again; tables and lnd stay.
Crash ==
    /\ "crash" \in Faults /\ faults < MaxFaults
    /\ Fresh # {}
    /\ faults' = faults + 1
    /\ pc' = [t \in Task |-> IF pc[t] = "new" THEN "new" ELSE "ended"]
    /\ caller' = [c \in Caller |-> IF c = Worker THEN "start" ELSE "idle"]
    /\ lock' = None
    /\ current' = None
    /\ UNCHANGED <<lndVars, dbVars, stopped, index, opened, cancelled, position>>
-----------------------------------------------------------------------------
Init ==
    /\ settled = History
    /\ issued = {} /\ expired = {}
    /\ sentOffers = [h \in {} |-> FALSE]
    /\ received = [h \in {History[i] : i \in DOMAIN History} |->
                      CHOOSE i \in DOMAIN History : History[i] = h]
    /\ caller = [c \in Caller |-> IF c = Worker THEN "start" ELSE "idle"]
    /\ lock = None
    /\ current = None
    /\ pc = [t \in Task |-> "new"]
    /\ stopped = [t \in Task |-> FALSE]
    /\ index = [t \in Task |-> 0]
    /\ opened = [t \in Task |-> FALSE]
    /\ cancelled = [t \in Task |-> FALSE]
    /\ position = [t \in Task |-> 0]
    /\ faults = 0

Market ==
    \/ \E h \in Invoice : IssueOffer(h) \/ SettleInvoice(h) \/ Expire(h)
    \/ DeleteExpiredSentOffers

TaskStep(t) ==
    \/ TestStopped(t) \/ ReadIndex(t) \/ Subscribe(t) \/ CheckStopped(t)
    \/ NextInvoice(t) \/ InsertReceivedPayment(t) \/ SetSentOfferPaid(t)
    \/ StreamEnds(t) \/ Retry(t)

CallerStep(c) ==
    AcquireLock(c) \/ SetStopped(c) \/ CancelResult(c) \/ SpawnTask(c)

Fault == Crash \/ \E t \in Task : StreamFails(t) \/ StatementFails(t)

Next ==
    \/ Market
    \/ \E t \in Task : TaskStep(t) \/ AcceptSubscription(t)
    \/ \E c \in Caller : CallerStep(c) \/ ReprocessReceivedPayments(c)
    \/ Shutdown
    \/ Fault

Spec == Init /\ [][Next]_vars

\* Threads are scheduled, retry timers fire, lnd answers.
Fairness ==
    /\ \A t \in Task : WF_vars(TaskStep(t)) /\ WF_vars(AcceptSubscription(t))
    /\ \A c \in Caller : WF_vars(CallerStep(c))

LiveSpec == Spec /\ Fairness
-----------------------------------------------------------------------------
(* Safety.                                                                 *)

\* However starts, stops and reprocess requests overlap, at most one task is
\* alive without having been told to stop: replaced tasks are on their way out.
OneTaskKeepsRunning ==
    \A t, u \in Alive : ~stopped[t] /\ ~stopped[u] => t = u

\* A cancel is never lost between stop_processing, which reads
\* payments_result after setting stopped, and the task, which tests stopped
\* after setting payments_result: a stopped task only waits for invoices on
\* a stream that is cancelled or that its stopper is about to cancel.
NoLostCancel ==
    \A t \in Task :
        pc[t] = "next" /\ stopped[t]
            => \/ cancelled[t]
               \/ current = t /\ \E c \in Caller :
                                    caller[c] \in {"start_cancel", "stop_cancel"}

Handled(i) == settled[i] \in Recorded \/ settled[i] \notin Offered

Cleared == \E h \in Recorded : received[h] = 0

\* The highest recorded settle index is a safe point to go on from: every
\* invoice settled before a recorded one is recorded too, unless its sent
\* offer is gone, whatever streams break, statements fail and crashes happen
\* in between.  It takes a node that has recorded a payment before, and that
\* has not cleared the indices: lnd gives no backlog for index 0.
NoGaps ==
    Cleared \/ \A h \in Recorded : \A i \in 1..(received[h] - 1) : Handled(i)

\* What the processor promises: see PaymentLedger.
Ledger == INSTANCE PaymentLedger WITH offered <- Offered, ledger <- received

LedgerSpec == Ledger!Spec

(* Liveness.                                                               *)

\* A task that is told to stop ends, whatever it was doing.
StoppedTasksEnd == \A t \in Task : stopped[t] ~> pc[t] \in {"new", "ended"}

Stopping == caller[Worker] \in {"stop", "stop_set", "stop_cancel", "done"}

\* Every settled invoice of a sent offer gets recorded, unless the offer
\* goes out of retention first or the node is shut down.
SettledGetRecorded ==
    \A h \in Invoice :
        h \in Settled /\ h \in Offered
            ~> h \in Recorded \/ h \notin Offered \/ Stopping

\* A recorded payment marks its offer as paid (as long as no crash and no
\* failing statement comes between the two).
RecordedGetPaid ==
    \A h \in Invoice :
        h \in Recorded /\ h \in Offered ~> h \notin Offered \/ sentOffers[h]

\* reprocess_received_payments clears the indices in order to get the settled
\* invoices from lnd again: those that were missed get recorded.
ReprocessRecovers ==
    \A h \in Invoice :
        (h \in Settled /\ h \in Offered /\ \E c \in Admin : caller[c] = "start")
            ~> h \in Recorded \/ h \notin Offered
=============================================================================
