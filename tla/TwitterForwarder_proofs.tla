---------------------- MODULE TwitterForwarder_proofs ----------------------
(***************************************************************************)
(* Proofs about TwitterForwarder, for any number of accounts, restarts,    *)
(* tasks and faults.                                                       *)
(***************************************************************************)
EXTENDS TwitterForwarder, TLAPS

Cancelling == {"cancel", "end_cancel"}
Locking == Cancelling \cup {"stop_tasks", "spawn", "end_tasks"}

\* The lock of the forwarder has one holder.
OneHolder ==
    \A c, d \in Caller : caller[c] \in Locking /\ caller[d] \in Locking => c = d

\* The thread that starts tasks only has accounts left that have none.
StartsAreFree ==
    \A c \in Caller : caller[c] = "spawn" => todo[c] \cap Running = {}

\* A task that was not told to stop is the one in current_tasks.
TasksAreKnown ==
    \A t \in Alive : /\ handle[t] \in Handle
                     /\ ~stopped[t] => current[handle[t]] = t

\* current_tasks only holds tasks that were started.
KnownAreStarted == \A h \in Running : current[h] \notin Fresh

\* A thread that is about to cancel a stream has told the task to stop.
VictimsAreStopped ==
    \A c \in Caller : caller[c] \in Cancelling => stopped[current[victim[c]]]

\* Nobody stops a task while it opens its stream.
OpeningIsSafe == \A t \in Task : pc[t] \in {"open", "hung"} => ~stopped[t]

\* The stream of a stopped task is about to be cancelled if it is open.
StopsCancel ==
    \A t \in Task :
        stopped[t] /\ stream[t] = "open"
            => \E c \in Caller : caller[c] \in Cancelling /\ current[victim[c]] = t

ForwarderInv ==
    /\ TypeOK
    /\ OneHolder /\ StartsAreFree
    /\ TasksAreKnown /\ KnownAreStarted
    /\ VictimsAreStopped /\ OpeningIsSafe /\ StopsCancel

LEMMA InitInv == Init => ForwarderInv
BY ThreadAssumption, EnvironmentAssumption, SMT
   DEF Init, ForwarderInv, TypeOK, OneHolder, StartsAreFree, TasksAreKnown,
       KnownAreStarted, VictimsAreStopped, OpeningIsSafe, StopsCancel, Caller, Task, CallerLabel,
       TaskLabel, Running, Alive, Fresh, Locking, Cancelling

\* Requests change the accounts and a thread that does not hold the lock.
LEMMA RequestInv ==
    ASSUME ForwarderInv, Request
    PROVE  ForwarderInv'
<1>1. PICK c \in Caller, label \in {"start", "stop"} :
         /\ caller[c] \notin Locking /\ Move(c, label)
         /\ accounts' \subseteq Handle
         /\ UNCHANGED <<victim, todo, current, taskVars, faults>>
  <2>1. ASSUME NEW c \in Caller, NEW h \in Handle,
               AddTwitterAccount(c, h) \/ DeleteTwitterAccount(c, h)
        PROVE  /\ caller[c] \notin Locking /\ Move(c, "start")
               /\ accounts' \subseteq Handle
               /\ UNCHANGED <<victim, todo, current, taskVars, faults>>
    BY <2>1 DEF AddTwitterAccount, DeleteTwitterAccount, Locking, Cancelling,
       ForwarderInv, TypeOK
  <2>2. ASSUME Shutdown
        PROVE  /\ Worker \in Caller
               /\ caller[Worker] \notin Locking /\ Move(Worker, "stop")
               /\ accounts' \subseteq Handle
               /\ UNCHANGED <<victim, todo, current, taskVars, faults>>
    BY <2>2 DEF Shutdown, Locking, Cancelling, Caller, ForwarderInv, TypeOK
  <2> QED BY <2>1, <2>2 DEF Request
<1> USE DEF ForwarderInv, TypeOK, taskVars
<1>2. TypeOK'
  BY <1>1 DEF Move, CallerLabel, Running
<1>3. /\ \A d \in Caller : caller'[d] \in Locking => d # c /\ caller'[d] = caller[d]
      /\ \A d \in Caller : caller[d] \in Locking => caller'[d] = caller[d]
      /\ Locking \cap Cancelling = Cancelling /\ "spawn" \in Locking
  BY <1>1 DEF Move, Locking, Cancelling
<1>4. OneHolder' /\ StartsAreFree' /\ VictimsAreStopped' /\ StopsCancel'
  BY <1>1, <1>3 DEF OneHolder, StartsAreFree, VictimsAreStopped, StopsCancel, Running
<1>5. TasksAreKnown' /\ KnownAreStarted' /\ OpeningIsSafe'
  BY <1>1 DEF TasksAreKnown, KnownAreStarted, OpeningIsSafe, Alive, Fresh, Running
<1> QED BY <1>2, <1>4, <1>5

\* The steps of the threads that control the forwarder.
LEMMA CallerInv ==
    ASSUME ForwarderInv, NEW c \in Caller, CallerStep(c)
    PROVE  ForwarderInv'
<1> USE DEF ForwarderInv, TypeOK, taskVars, Move, Locking, Cancelling, CallerLabel,
            Running, Alive, Fresh
<1>1. CASE AcquireLock(c)
  <2>1. TypeOK'
    BY <1>1 DEF AcquireLock
  <2>2. OneHolder' /\ StartsAreFree'
    BY <1>1 DEF AcquireLock, LockHeld, OneHolder, StartsAreFree
  <2>3. VictimsAreStopped' /\ StopsCancel'
    BY <1>1 DEF AcquireLock, VictimsAreStopped, StopsCancel
  <2>4. TasksAreKnown' /\ KnownAreStarted' /\ OpeningIsSafe'
    BY <1>1 DEF AcquireLock, TasksAreKnown, KnownAreStarted, OpeningIsSafe
  <2> QED BY <2>1, <2>2, <2>3, <2>4
<1>2. CASE CancelStream(c)
  <2> DEFINE h == victim[c]
  <2>0. /\ h \in Handle /\ current[h] \in Task /\ stopped[current[h]]
        /\ \A d \in Caller : caller[d] \in Locking => d = c
        /\ victim' = [victim EXCEPT ![c] = None]
        /\ UNCHANGED <<accounts, todo, handle, pc, stopped, faults>>
    BY <1>2 DEF CancelStream, OneHolder, VictimsAreStopped
  <2>1. \/ /\ stream' = [stream EXCEPT ![current[h]] = "cancelled"]
           /\ current' = [current EXCEPT ![h] = 0]
           /\ caller' = [caller EXCEPT ![c] = IF caller[c] = "cancel"
                                                THEN "stop_tasks" ELSE "end_tasks"]
        \/ /\ stream[current[h]] = "none"
           /\ caller' = [caller EXCEPT ![c] = "raised"]
           /\ UNCHANGED <<stream, current>>
    BY <1>2 DEF CancelStream, Forget
  <2>2. TypeOK'
    BY <2>0, <2>1
  <2>3. OneHolder' /\ StartsAreFree'
    BY <2>0, <2>1 DEF OneHolder, StartsAreFree
  <2>4. TasksAreKnown' /\ KnownAreStarted' /\ OpeningIsSafe'
    BY <2>0, <2>1 DEF TasksAreKnown, KnownAreStarted, OpeningIsSafe
  <2>5. VictimsAreStopped' /\ StopsCancel'
    BY <2>0, <2>1 DEF VictimsAreStopped, StopsCancel
  <2> QED BY <2>2, <2>3, <2>4, <2>5
<1>3. CASE EndTasks(c)
  BY <1>3 DEF EndTasks, OneHolder, StartsAreFree, TasksAreKnown, KnownAreStarted,
     VictimsAreStopped, OpeningIsSafe, StopsCancel
<1>4. CASE ListAccounts(c)
  BY <1>4 DEF ListAccounts, OneHolder, StartsAreFree, TasksAreKnown, KnownAreStarted,
     VictimsAreStopped, OpeningIsSafe, StopsCancel
<1>5. CASE Started(c)
  BY <1>5 DEF Started, OneHolder, StartsAreFree, TasksAreKnown, KnownAreStarted,
     VictimsAreStopped, OpeningIsSafe, StopsCancel
<1>6. ASSUME NEW h \in Handle, StopTask(c, h)
      PROVE  ForwarderInv'
  <2>0. /\ current[h] \in Task
        /\ \A d \in Caller : caller[d] \in Locking => d = c
    BY <1>6 DEF StopTask, OneHolder
  <2>1. TypeOK'
    BY <1>6, <2>0 DEF StopTask, Forget
  <2>2. OneHolder' /\ StartsAreFree'
    BY <1>6 DEF StopTask, Forget, OneHolder, StartsAreFree
  <2>3. TasksAreKnown' /\ KnownAreStarted'
    BY <1>6 DEF StopTask, Forget, TasksAreKnown, KnownAreStarted
  <2>4. OpeningIsSafe'
    BY <1>6 DEF StopTask, OpeningIsSafe, TaskLockHeld
  <2>5. VictimsAreStopped' /\ StopsCancel'
    BY <1>6 DEF StopTask, Forget, VictimsAreStopped, StopsCancel, OneHolder
  <2> QED BY <2>1, <2>2, <2>3, <2>4, <2>5
<1>7. ASSUME NEW h \in Handle, NEW t \in Task, SpawnTask(c, h, t)
      PROVE  ForwarderInv'
  <2>1. /\ current[h] = 0 /\ \A u \in Task : u # 0
        /\ \A g \in Handle : current[g] # t
        /\ \A d \in Caller : caller[d] \in Locking => d = c
    BY <1>7 DEF SpawnTask, StartsAreFree, KnownAreStarted, OneHolder, Task
  <2>2. TypeOK'
    BY <1>7, <2>1 DEF SpawnTask, TaskLabel
  <2>3. OneHolder' /\ StartsAreFree'
    BY <1>7, <2>1 DEF SpawnTask, OneHolder, StartsAreFree
  <2>4. TasksAreKnown'
    BY <1>7, <2>1 DEF SpawnTask, TasksAreKnown
  <2>5. KnownAreStarted'
    BY <1>7, <2>1 DEF SpawnTask, KnownAreStarted
  <2>6. OpeningIsSafe'
    BY <1>7 DEF SpawnTask, OpeningIsSafe
  <2>7. VictimsAreStopped' /\ StopsCancel'
    BY <1>7, <2>1 DEF SpawnTask, VictimsAreStopped, StopsCancel
  <2> QED BY <2>2, <2>3, <2>4, <2>5, <2>6, <2>7
<1> QED BY <1>1, <1>2, <1>3, <1>4, <1>5, <1>6, <1>7 DEF CallerStep

\* What a task and Twitter do, which neither stops a task nor changes which
\* tasks are known.
LEMMA TaskInv ==
    ASSUME ForwarderInv, NEW t \in Task,
           TaskStep(t) \/ StreamFails(t) \/ RequestHangs(t)
    PROVE  ForwarderInv'
<1>1. /\ pc[t] \notin {"new", "ended"}
      /\ \E label \in TaskLabel \ {"new"} :
            /\ pc' = [pc EXCEPT ![t] = label]
            /\ label \in {"open", "hung"} => ~stopped[t]
      /\ \/ stream' = stream
         \/ ~stopped[t] /\ stream' = [stream EXCEPT ![t] = "open"]
         \/ stream' = [stream EXCEPT ![t] = "none"]
      /\ faults' \in 0..MaxFaults
      /\ UNCHANGED <<accounts, controlVars, handle, stopped>>
  <2> USE DEF ForwarderInv, TypeOK, OpeningIsSafe, Goto, TaskLabel
  <2>1. CASE TestStopped(t) \/ SetupStream(t) \/ Iterate(t) \/ StreamEnds(t) \/ Retry(t)
    BY <2>1 DEF TestStopped, SetupStream, Iterate, StreamEnds, Retry
  <2>2. CASE OpenStream(t) \/ DropStream(t)
    BY <2>2 DEF OpenStream, DropStream
  <2>3. CASE StreamFails(t) \/ RequestHangs(t)
    BY <2>3, EnvironmentAssumption DEF StreamFails, RequestHangs
  <2> QED BY <2>1, <2>2, <2>3 DEF TaskStep
<1> USE DEF ForwarderInv, TypeOK, controlVars, Running, Alive, Fresh
<1>2. TypeOK'
  BY <1>1
<1>3. OneHolder' /\ StartsAreFree'
  BY <1>1 DEF OneHolder, StartsAreFree
<1>4. TasksAreKnown' /\ KnownAreStarted'
  BY <1>1 DEF TasksAreKnown, KnownAreStarted
<1>5. OpeningIsSafe'
  BY <1>1 DEF OpeningIsSafe
<1>6. VictimsAreStopped' /\ StopsCancel'
  BY <1>1 DEF VictimsAreStopped, StopsCancel
<1> QED BY <1>2, <1>3, <1>4, <1>5, <1>6

LEMMA NextInv == ForwarderInv /\ [Next]_vars => ForwarderInv'
<1>1. ForwarderInv /\ UNCHANGED vars => ForwarderInv'
  BY DEF ForwarderInv, TypeOK, OneHolder, StartsAreFree, TasksAreKnown,
     KnownAreStarted, VictimsAreStopped, OpeningIsSafe, StopsCancel, Running, Alive, Fresh,
     vars, controlVars, taskVars
<1> QED BY <1>1, RequestInv, CallerInv, TaskInv DEF Next

THEOREM Invariance == Spec => []ForwarderInv
BY InitInv, NextInv, PTL DEF Spec

\* The type invariant, and that current_tasks has each task under its account.
THEOREM TypeCorrect == Spec => []TypeOK
<1>1. ForwarderInv => TypeOK
  BY DEF ForwarderInv
<1> QED BY <1>1, Invariance, PTL

\* However restarts overlap and whatever they leave undone, at most one living
\* task of an account has not been told to stop.
THEOREM AccountsHaveOneTask == Spec => []OneTaskPerAccount
<1>1. ForwarderInv => OneTaskPerAccount
  BY DEF ForwarderInv, TasksAreKnown, OneTaskPerAccount
<1> QED BY <1>1, Invariance, PTL

\* A stop never leaves a task waiting on a stream that nobody will cancel,
\* whether it comes before, while or after the stream is opened.
THEOREM CancelNeverLost == Spec => []NoLostCancel
<1>1. ForwarderInv => NoLostCancel
  BY DEF ForwarderInv, StopsCancel, NoLostCancel, Cancelling
<1> QED BY <1>1, Invariance, PTL
=============================================================================
