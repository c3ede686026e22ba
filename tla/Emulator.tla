------------------------------ MODULE Emulator ------------------------------
(***************************************************************************)
(* The emulator worker of the user-mode driver after patch 0017: threads   *)
(* submit tasks, one worker thread processes them, a controlling thread    *)
(* starts and stops it.  One mutex and ONE condition variable serve the    *)
(* worker and the blocking submitters alike, and submit and stop notify    *)
(* only one waiter: whom, the condition variable chooses.                  *)
(*                                                                         *)
(* A critical section of m_taskMutex is one action.  waiting holds the     *)
(* threads asleep on m_taskCondition; a thread that left it, notified or   *)
(* not, takes the mutex and evaluates its predicate again.                 *)
(***************************************************************************)
EXTENDS Integers, Sequences

CONSTANTS
    Submitters,     \* threads that call submit
    Worker,         \* the thread of Emulator::run
    MaxTasks,       \* bound: tasks ever submitted
    MaxStarts       \* bound: calls of start

ASSUME EmulatorAssumption ==
    /\ Worker \notin Submitters
    /\ MaxTasks \in Nat /\ MaxStarts \in Nat

VARIABLES
    m_taskQueue, m_taskActive, m_threadActive, m_signalShutdown,
    m_thread,               \* the thread handle: TRUE when there is a thread to join
    waiting,                \* threads asleep on m_taskCondition
    workerPc, current,      \* Emulator::run and the task it processes
    submitPc, task,         \* the submitters and the last task of each
    stopPc,                 \* Emulator::stop on the controlling thread
    submitted, starts,      \* tasks and starts so far
    processed, discarded,   \* what became of the tasks that left the queue
    quiescent               \* never changes: the callers stop only when no submit is in progress
                            \* and submit only to a started emulator, as RuntimeTest does

queueVars  == <<m_taskQueue, m_taskActive, m_threadActive, m_signalShutdown>>
workerVars == <<workerPc, current>>
submitVars == <<submitPc, task, submitted>>
stopVars   == <<m_thread, stopPc, starts>>
fateVars   == <<processed, discarded>>
vars == <<queueVars, waiting, workerVars, submitVars, stopVars, fateVars, quiescent>>

NoTask == 0

Init ==
    /\ m_taskQueue = <<>> /\ m_taskActive = FALSE
    /\ m_threadActive = FALSE /\ m_signalShutdown = FALSE
    /\ waiting = {}
    /\ workerPc = "none" /\ current = NoTask
    /\ submitPc = [s \in Submitters |-> "idle"] /\ task = [s \in Submitters |-> NoTask]
    /\ submitted = 0
    /\ m_thread = FALSE /\ stopPc = "idle" /\ starts = 0
    /\ processed = <<>> /\ discarded = {}
    /\ quiescent \in BOOLEAN

\* notify_one wakes some thread that sleeps, if there is one.
NotifiesNobody == {waiting}
AfterNotifyOne == IF waiting = {} THEN {{}} ELSE {waiting \ {thread} : thread \in waiting}

-----------------------------------------------------------------------------
(* Callers: start, stop and submit.                                        *)

Start ==
    /\ ~m_thread /\ starts < MaxStarts
    /\ m_thread' = TRUE /\ starts' = starts + 1
    /\ workerPc' = "begin"
    /\ UNCHANGED <<quiescent, stopPc, current, queueVars, waiting, submitVars, fateVars>>

NoSubmitInProgress == \A s \in Submitters : submitPc[s] = "idle"

SignalShutdown ==
    /\ stopPc = "idle" /\ m_thread
    /\ quiescent => NoSubmitInProgress
    /\ m_signalShutdown' = TRUE
    /\ stopPc' = "notify"
    /\ UNCHANGED <<quiescent, m_taskQueue, m_taskActive, m_threadActive, waiting, workerVars, submitVars,
                   m_thread, starts, fateVars>>

NotifyShutdown ==
    /\ stopPc = "notify" /\ stopPc' = "join"
    /\ waiting' \in AfterNotifyOne
    /\ UNCHANGED <<quiescent, queueVars, workerVars, submitVars, m_thread, starts, fateVars>>

JoinWorker ==
    /\ stopPc = "join" /\ workerPc = "exited"
    /\ stopPc' = "idle" /\ m_thread' = FALSE /\ workerPc' = "none"
    /\ UNCHANGED <<quiescent, starts, current, queueVars, waiting, submitVars, fateVars>>

\* A blocking submitter has just made its own predicate false: it sleeps in
\* the critical section that queued its task, after the notification.
Submit(s) ==
    /\ submitPc[s] = "idle" /\ submitted < MaxTasks
    /\ quiescent => m_thread /\ stopPc = "idle"
    /\ submitted' = submitted + 1
    /\ task' = [task EXCEPT ![s] = submitted + 1]
    /\ m_taskQueue' = Append(m_taskQueue, submitted + 1)
    /\ \/ waiting' \in AfterNotifyOne /\ UNCHANGED submitPc
       \/ /\ submitPc' = [submitPc EXCEPT ![s] = "blocked"]
          /\ \E others \in AfterNotifyOne : waiting' = others \cup {s}
    /\ UNCHANGED <<quiescent, m_taskActive, m_threadActive, m_signalShutdown, workerVars, stopVars, fateVars>>

QueueDrained == m_taskQueue = <<>>
TasksDone == m_taskQueue = <<>> /\ ~m_taskActive

\* An awake blocking submitter evaluates its predicate.
Wake(s) ==
    /\ submitPc[s] = "blocked" /\ s \notin waiting
    /\ IF TasksDone
       THEN submitPc' = [submitPc EXCEPT ![s] = "idle"] /\ UNCHANGED waiting
       ELSE waiting' = waiting \cup {s} /\ UNCHANGED submitPc
    /\ UNCHANGED <<quiescent, queueVars, workerVars, task, submitted, stopVars, fateVars>>

-----------------------------------------------------------------------------
(* The worker: Emulator::run.                                              *)

Begin ==
    /\ workerPc = "begin" /\ workerPc' = "wait"
    /\ m_threadActive' = TRUE
    /\ UNCHANGED <<quiescent, m_taskQueue, m_taskActive, m_signalShutdown, current, waiting, submitVars,
                   stopVars, fateVars>>

WorkReady == m_signalShutdown \/ m_taskQueue # <<>>
MustExit == m_signalShutdown /\ m_taskQueue = <<>>

WaitForWork ==
    /\ workerPc = "wait" /\ Worker \notin waiting /\ ~WorkReady
    /\ waiting' = waiting \cup {Worker}
    /\ UNCHANGED <<quiescent, queueVars, workerVars, submitVars, stopVars, fateVars>>

TakeTask ==
    /\ workerPc = "wait" /\ Worker \notin waiting /\ WorkReady /\ ~MustExit
    /\ current' = Head(m_taskQueue) /\ m_taskQueue' = Tail(m_taskQueue)
    /\ m_taskActive' = TRUE
    /\ workerPc' = "process"
    /\ UNCHANGED <<quiescent, m_threadActive, m_signalShutdown, waiting, submitVars, stopVars, fateVars>>

ProcessTask ==
    /\ workerPc = "process" /\ workerPc' = "finish"
    /\ processed' = Append(processed, current)
    /\ UNCHANGED <<quiescent, discarded, current, queueVars, waiting, submitVars, stopVars>>

FinishTask ==
    /\ workerPc = "finish" /\ workerPc' = "notify"
    /\ m_taskActive' = FALSE /\ current' = NoTask
    /\ UNCHANGED <<quiescent, m_taskQueue, m_threadActive, m_signalShutdown, waiting, submitVars, stopVars, fateVars>>

NotifyOneSubmitter ==
    /\ workerPc = "notify" /\ workerPc' = "wait"
    /\ waiting' \in AfterNotifyOne
    /\ UNCHANGED <<quiescent, current, queueVars, submitVars, stopVars, fateVars>>

NotifySubmitters ==
    /\ workerPc = "notify" /\ workerPc' = "wait"
    /\ waiting' = {}
    /\ UNCHANGED <<quiescent, current, queueVars, submitVars, stopVars, fateVars>>

\* break leaves the critical section: submit may still run before the cleanup.
LeaveLoop ==
    /\ workerPc = "wait" /\ Worker \notin waiting /\ WorkReady /\ MustExit
    /\ workerPc' = "cleanup"
    /\ UNCHANGED <<quiescent, current, queueVars, waiting, submitVars, stopVars, fateVars>>

Cleanup ==
    /\ workerPc = "cleanup" /\ workerPc' = "notifyExit"
    /\ discarded' = discarded \cup {m_taskQueue[k] : k \in DOMAIN m_taskQueue}
    /\ m_taskQueue' = <<>>
    /\ m_taskActive' = FALSE /\ m_threadActive' = FALSE /\ m_signalShutdown' = FALSE
    /\ UNCHANGED <<quiescent, processed, current, waiting, submitVars, stopVars>>

Exit ==
    /\ workerPc = "notifyExit" /\ workerPc' = "exited"
    /\ waiting' = {}
    /\ UNCHANGED <<quiescent, current, queueVars, submitVars, stopVars, fateVars>>

Run == \/ Begin \/ WaitForWork \/ TakeTask \/ ProcessTask \/ FinishTask \/ NotifySubmitters
       \/ LeaveLoop \/ Cleanup \/ Exit

SpuriousWakeup ==
    /\ \E thread \in waiting : waiting' = waiting \ {thread}
    /\ UNCHANGED <<quiescent, queueVars, workerVars, submitVars, stopVars, fateVars>>

Stop == SignalShutdown \/ NotifyShutdown \/ JoinWorker

Next == Start \/ Stop \/ Run \/ SpuriousWakeup \/ \E s \in Submitters : Submit(s) \/ Wake(s)

Spec == Init /\ [][Next]_vars

\* Every thread in a call gets its turns; nobody has to call anything, but
\* a stop that began goes on.
Fairness ==
    /\ WF_vars(Run)
    /\ \A s \in Submitters : WF_vars(Wake(s))
    /\ WF_vars(NotifyShutdown) /\ WF_vars(JoinWorker)

FairSpec == Spec /\ Fairness

-----------------------------------------------------------------------------
Tasks == 1 .. MaxTasks

\* The types of the queue and its flags, of the callers and of the tasks;
\* m_taskActive is set exactly while the worker has a task in hand.
TypeOK ==
    /\ m_taskQueue \in Seq(Tasks)
    /\ {m_taskActive, m_threadActive, m_signalShutdown, m_thread} \subseteq BOOLEAN
    /\ waiting \subseteq Submitters \cup {Worker}
    /\ workerPc \in {"none", "begin", "wait", "process", "finish", "notify", "cleanup",
                     "notifyExit", "exited"}
    /\ current \in Tasks \cup {NoTask}
    /\ m_taskActive <=> current # NoTask
    /\ submitPc \in [Submitters -> {"idle", "blocked"}]
    /\ task \in [Submitters -> Tasks \cup {NoTask}]
    /\ submitted \in 0 .. MaxTasks /\ starts \in 0 .. MaxStarts
    /\ stopPc \in {"idle", "notify", "join"}
    /\ processed \in Seq(Tasks) /\ discarded \subseteq Tasks /\ quiescent \in BOOLEAN

\* notify_one on the shared condition variable never wakes the wrong thread:
\* when the worker sleeps it sleeps alone, there is no work, and a requested
\* shutdown has its notification still to come.
WorkerNotStranded ==
    Worker \in waiting =>
        /\ waiting = {Worker}
        /\ m_taskQueue = <<>>
        /\ m_signalShutdown => stopPc = "notify"

\* A submitter that sleeps is owed a wakeup: there is a task for the worker
\* (perhaps of a worker that is not started), or the worker will notify.
SubmitterNotForgotten ==
    waiting \cap Submitters # {} =>
        m_taskQueue # <<>> \/ workerPc \in {"process", "finish", "notify", "notifyExit"}

\* ping answers for the worker: true exactly from its first critical section
\* to its last, so never once a stop has joined it.
PingIsTruthful ==
    m_threadActive <=> workerPc \in {"wait", "process", "finish", "notify", "cleanup"}

\* A caller that stops only an emulator it is not using loses no task,
\* though the cleanup of the worker empties the queue unprocessed.
NothingDiscarded == quiescent => discarded = {}

\* Blocking submits return only when their task left the queue and was
\* processed, or was dropped by a shutdown; tasks are processed in order.
Promise == INSTANCE TaskService WITH
    last      <- submitted,
    pending   <- (IF workerPc = "process" THEN <<current>> ELSE <<>>) \o m_taskQueue,
    performed <- processed,
    dropped   <- discarded,
    owed      <- {task[s] : s \in {t \in Submitters : submitPc[t] = "blocked"}}

ServesTasks == Promise!Spec

\* A blocking submit returns, unless unsynchronised callers stop the worker
\* under it: then nobody is left to empty the queue.
BlockingSubmitReturns ==
    \A s \in Submitters :
        submitPc[s] = "blocked" ~>
            submitPc[s] = "idle" \/ (~quiescent /\ workerPc \in {"none", "exited"})

\* stop returns: the worker sees the request, ends, and is joined.
StopReturns == stopPc # "idle" ~> stopPc = "idle"
=============================================================================
