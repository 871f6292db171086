-------------------------- MODULE TwitterForwarder --------------------------
(***************************************************************************)
(* The Twitter forwarder: one task, a thread with a stream of tweets, per  *)
(* Twitter account.  Adding or deleting an account spawns a thread that    *)
(* restarts the forwarder: under the forwarder's lock it stops every task  *)
(* it knows and starts one per account of the database.  A task sets up    *)
(* its stream under a lock of its own, which stop_processing takes too,    *)
(* but drops the stream after an exception without that lock.              *)
(*                                                                         *)
(* Twitter is external: requests succeed, fail or hang (they have no       *)
(* timeout), and streams break.  The making of squeaks from tweets is in   *)
(* SqueakStore; here a tweet only matters when handling it raises.         *)
(***************************************************************************)
EXTENDS Integers, FiniteSets

CONSTANTS
    Handle,     \* Twitter handles
    Initial,    \* accounts in the database when the node starts
    Restarter,  \* threads that restart the forwarder (bounds the requests)
    Worker,     \* the thread of ProcessForwardTweetsWorker
    MaxTasks,   \* bound: how many tasks are ever started
    None,
    Requests,   \* what users do
    Faults,     \* what goes wrong
    MaxFaults   \* bound: how often it goes wrong

ASSUME ThreadAssumption == Worker \notin Restarter /\ None \notin Handle

ASSUME EnvironmentAssumption ==
    /\ Initial \subseteq Handle
    /\ Requests \subseteq {"add", "delete", "shutdown"}
    /\ Faults \subseteq {"stream", "hang"}
    /\ MaxTasks \in Nat /\ MaxFaults \in Nat

VARIABLES
    accounts,  \* twitter_account table: handles
    caller,    \* what each thread that controls the forwarder does next
    victim,    \* the handle whose task it is cancelling
    todo,      \* the accounts it still has to start
    current,   \* current_tasks: handle -> task, 0 if there is none
    handle,    \* the account of each task
    pc,        \* what each task does next
    stopped,   \* TwitterForwarderTask.stopped is set
    stream,    \* TwitterForwarderTask.tweet_stream
    faults     \* number of faults so far

controlVars == <<caller, victim, todo, current>>
taskVars == <<handle, pc, stopped, stream>>
vars == <<accounts, controlVars, taskVars, faults>>
-----------------------------------------------------------------------------
Caller == Restarter \cup {Worker}
Task == 1..MaxTasks

CallerLabel == {"new", "start", "stop_tasks", "cancel", "spawn",
                "running", "stop", "end_tasks", "end_cancel", "done", "raised"}

TaskLabel == {"new", "loop", "setup", "open", "hung", "iterate", "tweets",
              "except", "wait", "ended"}

Fresh == {t \in Task : pc[t] = "new"}
Alive == {t \in Task : pc[t] \notin {"new", "ended"}}

Running == {h \in Handle : current[h] # 0}

LockHeld == \E c \in Caller :
    caller[c] \in {"stop_tasks", "cancel", "spawn", "end_tasks", "end_cancel"}

\* A task's lock is held by the task while it opens its stream, and by the
\* thread that stops it.
TaskLockHeld(t) ==
    \/ pc[t] \in {"open", "hung"}
    \/ \E c \in Caller : /\ caller[c] \in {"cancel", "end_cancel"}
                         /\ current[victim[c]] = t

TypeOK ==
    /\ accounts \subseteq Handle
    /\ caller \in [Caller -> CallerLabel]
    /\ victim \in [Caller -> Handle \cup {None}]
    /\ todo \in [Caller -> SUBSET Handle]
    /\ current \in [Handle -> Task \cup {0}]
    /\ handle \in [Task -> Handle \cup {None}]
    /\ pc \in [Task -> TaskLabel]
    /\ stopped \in [Task -> BOOLEAN]
    /\ stream \in [Task -> {"none", "open", "cancelled"}]
    /\ faults \in 0..MaxFaults
    /\ \A h \in Running : handle[current[h]] = h
    /\ \A t \in Task : stream[t] = "cancelled" => stopped[t]
    /\ \A c \in Caller : caller[c] \in {"cancel", "end_cancel"} => victim[c] \in Running
-----------------------------------------------------------------------------
(* The admin requests and the worker of the node.                          *)

Move(c, label) == caller' = [caller EXCEPT ![c] = label]

\* Mutant: no restart.
AddTwitterAccount_NoRestart(c, h) ==
    /\ "add" \in Requests
    /\ caller[c] = "new" /\ c \in Restarter
    /\ accounts' = accounts \cup {h}
    /\ Move(c, "done")
    /\ UNCHANGED <<victim, todo, current, taskVars, faults>>

\* The forwarder is restarted whether or not the table changed.
AddTwitterAccount(c, h) ==
    /\ "add" \in Requests
    /\ caller[c] = "new" /\ c \in Restarter
    /\ accounts' = accounts \cup {h}
    /\ Move(c, "start")
    /\ UNCHANGED <<victim, todo, current, taskVars, faults>>

\* Mutant: no restart.
DeleteTwitterAccount_NoRestart(c, h) ==
    /\ "delete" \in Requests
    /\ caller[c] = "new" /\ c \in Restarter
    /\ accounts' = accounts \ {h}
    /\ Move(c, "done")
    /\ UNCHANGED <<victim, todo, current, taskVars, faults>>

DeleteTwitterAccount(c, h) ==
    /\ "delete" \in Requests
    /\ caller[c] = "new" /\ c \in Restarter
    /\ accounts' = accounts \ {h}
    /\ Move(c, "start")
    /\ UNCHANGED <<victim, todo, current, taskVars, faults>>

Shutdown ==
    /\ "shutdown" \in Requests
    /\ caller[Worker] = "running"
    /\ Move(Worker, "stop")
    /\ UNCHANGED <<accounts, victim, todo, current, taskVars, faults>>
-----------------------------------------------------------------------------
(* start_processing and stop_processing.                                   *)

\* Mutant: without the lock.
AcquireLock_NoLock(c) ==
    /\ \/ caller[c] = "start" /\ Move(c, "stop_tasks")
       \/ caller[c] = "stop" /\ Move(c, "end_tasks")
    /\ UNCHANGED <<accounts, victim, todo, current, taskVars, faults>>

AcquireLock(c) ==
    /\ ~LockHeld
    /\ \/ caller[c] = "start" /\ Move(c, "stop_tasks")
       \/ caller[c] = "stop" /\ Move(c, "end_tasks")
    /\ UNCHANGED <<accounts, victim, todo, current, taskVars, faults>>

Forget(h) == current' = [current EXCEPT ![h] = 0]

\* Mutant: the stream is cancelled before the task is told to stop.
StopTask_CancelsFirst(c, h) ==
    /\ caller[c] \in {"stop_tasks", "end_tasks"}
    /\ h \in Running
    /\ ~TaskLockHeld(current[h])
    /\ stream' = [stream EXCEPT ![current[h]] = IF @ = "none" THEN @ ELSE "cancelled"]
    /\ victim' = [victim EXCEPT ![c] = h]
    /\ Move(c, IF caller[c] = "stop_tasks" THEN "cancel" ELSE "end_cancel")
    /\ UNCHANGED <<accounts, todo, current, handle, pc, stopped, faults>>

\* One task of the dictionary: stopped is set, tweet_stream looked at.
StopTask(c, h) ==
    /\ caller[c] \in {"stop_tasks", "end_tasks"}
    /\ h \in Running
    /\ ~TaskLockHeld(current[h])
    /\ stopped' = [stopped EXCEPT ![current[h]] = TRUE]
    /\ \/ /\ stream[current[h]] # "none"
          /\ victim' = [victim EXCEPT ![c] = h]
          /\ Move(c, IF caller[c] = "stop_tasks" THEN "cancel" ELSE "end_cancel")
          /\ UNCHANGED current
       \/ /\ stream[current[h]] = "none"
          /\ Forget(h)
          /\ UNCHANGED <<caller, victim>>
    /\ UNCHANGED <<accounts, todo, handle, pc, stream, faults>>

\* tweet_stream is read again to call its cancel_fn.  If the task dropped it
\* in between, the exception leaves start_processing (or stop_processing).
CancelStream(c) ==
    /\ caller[c] \in {"cancel", "end_cancel"}
    /\ LET h == victim[c]
       IN  \/ /\ stream[current[h]] # "none"
              /\ stream' = [stream EXCEPT ![current[h]] = "cancelled"]
              /\ Forget(h)
              /\ Move(c, IF caller[c] = "cancel" THEN "stop_tasks" ELSE "end_tasks")
           \/ /\ stream[current[h]] = "none"
              /\ Move(c, "raised")
              /\ UNCHANGED <<stream, current>>
    /\ victim' = [victim EXCEPT ![c] = None]
    /\ UNCHANGED <<accounts, todo, handle, pc, stopped, faults>>

\* stop_processing is done.
EndTasks(c) ==
    /\ caller[c] = "end_tasks"
    /\ Running = {}
    /\ Move(c, "done")
    /\ UNCHANGED <<accounts, victim, todo, current, taskVars, faults>>

\* All tasks are stopped: the accounts are read.
ListAccounts(c) ==
    /\ caller[c] = "stop_tasks"
    /\ Running = {}
    /\ todo' = [todo EXCEPT ![c] = accounts]
    /\ Move(c, "spawn")
    /\ UNCHANGED <<accounts, victim, current, taskVars, faults>>

SpawnTask(c, h, t) ==
    /\ caller[c] = "spawn"
    /\ h \in todo[c]
    /\ t \in Fresh /\ \A u \in Fresh : t <= u
    /\ todo' = [todo EXCEPT ![c] = @ \ {h}]
    /\ current' = [current EXCEPT ![h] = t]
    /\ handle' = [handle EXCEPT ![t] = h]
    /\ pc' = [pc EXCEPT ![t] = "loop"]
    /\ UNCHANGED <<accounts, caller, victim, stopped, stream, faults>>

Started(c) ==
    /\ caller[c] = "spawn"
    /\ todo[c] = {}
    /\ Move(c, IF c = Worker THEN "running" ELSE "done")
    /\ UNCHANGED <<accounts, victim, todo, current, taskVars, faults>>
-----------------------------------------------------------------------------
(* The thread of a task: process_forward_tweets.                           *)

Goto(t, label) == pc' = [pc EXCEPT ![t] = label]

TestStopped(t) ==
    /\ pc[t] = "loop"
    /\ Goto(t, IF stopped[t] THEN "ended" ELSE "setup")
    /\ UNCHANGED <<accounts, controlVars, handle, stopped, stream, faults>>

\* Mutant: setup_stream without its test of stopped.
SetupStream_Unchecked(t) ==
    /\ pc[t] = "setup"
    /\ ~TaskLockHeld(t)
    /\ Goto(t, "open")
    /\ UNCHANGED <<accounts, controlVars, handle, stopped, stream, faults>>

\* The lock of the task is taken; a stopped task leaves tweet_stream alone.
SetupStream(t) ==
    /\ pc[t] = "setup"
    /\ ~TaskLockHeld(t)
    /\ Goto(t, IF stopped[t] THEN "iterate" ELSE "open")
    /\ UNCHANGED <<accounts, controlVars, handle, stopped, stream, faults>>

\* Twitter's rules are replaced and the stream is opened.
OpenStream(t) ==
    /\ pc[t] = "open"
    /\ stream' = [stream EXCEPT ![t] = "open"]
    /\ Goto(t, "iterate")
    /\ UNCHANGED <<accounts, controlVars, handle, stopped, faults>>

\* No stream: iterating over it raises.
Iterate(t) ==
    /\ pc[t] = "iterate"
    /\ Goto(t, IF stream[t] = "none" THEN "except" ELSE "tweets")
    /\ UNCHANGED <<accounts, controlVars, handle, stopped, stream, faults>>

\* A cancelled stream ends, or the iteration raises.
StreamEnds(t) ==
    /\ pc[t] = "tweets"
    /\ stream[t] = "cancelled"
    /\ Goto(t, "loop") \/ Goto(t, "except")
    /\ UNCHANGED <<accounts, controlVars, handle, stopped, stream, faults>>

\* The handler of exceptions, which holds no lock.
DropStream(t) ==
    /\ pc[t] = "except"
    /\ stream' = [stream EXCEPT ![t] = "none"]
    /\ Goto(t, "wait")
    /\ UNCHANGED <<accounts, controlVars, handle, stopped, faults>>

Retry(t) ==
    /\ pc[t] = "wait"
    /\ Goto(t, "loop")
    /\ UNCHANGED <<accounts, controlVars, handle, stopped, stream, faults>>
-----------------------------------------------------------------------------
(* Faults.                                                                 *)

\* The stream cannot be opened, breaks, or a tweet cannot be forwarded.  A
\* stream that Twitter ends in good order is opened again without a wait.
StreamFails(t) ==
    /\ "stream" \in Faults /\ faults < MaxFaults
    /\ \/ pc[t] = "open" /\ Goto(t, "except")
       \/ pc[t] = "tweets" /\ (Goto(t, "except") \/ Goto(t, "loop"))
    /\ faults' = faults + 1
    /\ UNCHANGED <<accounts, controlVars, handle, stopped, stream>>

\* A request to Twitter gets no answer.
RequestHangs(t) ==
    /\ "hang" \in Faults /\ faults < MaxFaults
    /\ pc[t] = "open"
    /\ Goto(t, "hung")
    /\ faults' = faults + 1
    /\ UNCHANGED <<accounts, controlVars, handle, stopped, stream>>
-----------------------------------------------------------------------------
Init ==
    /\ accounts = Initial
    /\ caller = [c \in Caller |-> IF c = Worker THEN "start" ELSE "new"]
    /\ victim = [c \in Caller |-> None]
    /\ todo = [c \in Caller |-> {}]
    /\ current = [h \in Handle |-> 0]
    /\ handle = [t \in Task |-> None]
    /\ pc = [t \in Task |-> "new"]
    /\ stopped = [t \in Task |-> FALSE]
    /\ stream = [t \in Task |-> "none"]
    /\ faults = 0

Request ==
    \/ \E c \in Caller, h \in Handle :
          AddTwitterAccount(c, h) \/ DeleteTwitterAccount(c, h)
    \/ Shutdown

CallerStep(c) ==
    \/ AcquireLock(c) \/ CancelStream(c) \/ EndTasks(c) \/ ListAccounts(c) \/ Started(c)
    \/ \E h \in Handle : StopTask(c, h) \/ \E t \in Task : SpawnTask(c, h, t)

TaskStep(t) ==
    \/ TestStopped(t) \/ SetupStream(t) \/ OpenStream(t) \/ Iterate(t)
    \/ StreamEnds(t) \/ DropStream(t) \/ Retry(t)

Next ==
    \/ Request
    \/ \E c \in Caller : CallerStep(c)
    \/ \E t \in Task : TaskStep(t) \/ StreamFails(t) \/ RequestHangs(t)

Spec == Init /\ [][Next]_vars

\* Threads are scheduled and requests that do not hang are answered.  Locks
\* are handed out fairly enough that a waiting thread gets one in the end.
Fairness ==
    /\ \A c \in Caller : SF_vars(CallerStep(c))
    /\ \A t \in Task : SF_vars(TaskStep(t))

LiveSpec == Spec /\ Fairness
-----------------------------------------------------------------------------
(* Safety.                                                                 *)

\* However restarts overlap and fail, no account is forwarded twice: of its
\* living tasks all but one have been told to stop.
OneTaskPerAccount ==
    \A t, u \in Alive :
        handle[t] = handle[u] /\ ~stopped[t] /\ ~stopped[u] => t = u

\* A stopped task never waits for tweets on an open stream, unless the thread
\* that stops it is about to cancel it.
NoLostCancel ==
    \A t \in Task :
        pc[t] = "tweets" /\ stopped[t] /\ stream[t] = "open"
            => \E c \in Caller : /\ caller[c] \in {"cancel", "end_cancel"}
                                 /\ current[victim[c]] = t

(* Liveness.                                                               *)

Forwarded(h) == \E t \in Alive : handle[t] = h /\ ~stopped[t]

Stopping == caller[Worker] \in {"stop", "end_tasks", "end_cancel", "done"}

\* An account that is there gets a task, unless the node stops or something
\* goes wrong first.
AccountsGetForwarded ==
    \A h \in Handle :
        h \in accounts ~> Forwarded(h) \/ h \notin accounts \/ Stopping \/ faults > 0

\* The tweets of a deleted account are no longer forwarded, under the same
\* condition.
DeletedAccountsStop ==
    \A h \in Handle :
        h \notin accounts ~> ~Forwarded(h) \/ h \in accounts \/ faults > 0

\* docs/getting-started.md:120: "After you set your bearer token and add your
\* Twitter handle, your squeaknode will be configured to automatically make
\* new squeaks for any new tweets that are created": whatever streams do.
AccountsAlwaysGetForwarded ==
    \A h \in Handle : h \in accounts ~> Forwarded(h) \/ h \notin accounts
=============================================================================
