--------------------------- MODULE EmulatorProofs ---------------------------
(* Proofs about the emulator worker, for every set of submitters, every     *)
(* bound and both kinds of caller.                                          *)
EXTENDS Emulator, TLAPS

-----------------------------------------------------------------------------
(* Who may sleep, and with what in the queue.  Between the last look at its *)
(* predicate and the next notify_all the worker can only fall asleep with   *)
(* an empty queue, and then no submitter may still sleep: this is what      *)
(* makes notify_one sound on a condition variable that both sides share.    *)

SleepersAreInCalls ==
    /\ waiting \subseteq Submitters \cup {Worker}
    /\ Worker \in waiting => workerPc = "wait"

NoThreadNoWorker == ~m_thread => workerPc = "none"

ActiveWhileProcessing == m_taskActive => workerPc \in {"process", "finish"}

SleepersHaveWork ==
    waiting \cap Submitters # {} =>
        m_taskQueue # <<>> \/ workerPc \in {"process", "finish", "notify", "notifyExit"}

WorkerSleepsIdle ==
    Worker \in waiting =>
        /\ waiting \cap Submitters = {}
        /\ m_taskQueue = <<>>
        /\ m_signalShutdown => stopPc = "notify"

WakeupInv ==
    /\ m_taskQueue \in Seq(Nat)
    /\ submitted \in Nat
    /\ stopPc \in {"idle", "notify", "join"}
    /\ SleepersAreInCalls
    /\ NoThreadNoWorker
    /\ ActiveWhileProcessing
    /\ SleepersHaveWork
    /\ WorkerSleepsIdle

\* Appending a task leaves no empty queue.
LEMMA AppendNotEmpty == ASSUME NEW q \in Seq(Nat), NEW t \in Nat
                        PROVE  Append(q, t) # <<>> /\ Append(q, t) \in Seq(Nat)
  OBVIOUS

\* The wakeup invariant holds initially: nobody sleeps.
LEMMA WakeupInit == Init => WakeupInv
  BY DEF Init, WakeupInv, SleepersAreInCalls, NoThreadNoWorker, ActiveWhileProcessing, SleepersHaveWork, WorkerSleepsIdle

\* Every step of a caller, of the worker or of the condition variable keeps it.
LEMMA WakeupStep == WakeupInv /\ [Next]_vars => WakeupInv'
<1> SUFFICES ASSUME WakeupInv, [Next]_vars PROVE WakeupInv'
  OBVIOUS
<1> USE EmulatorAssumption DEF WakeupInv, SleepersAreInCalls, NoThreadNoWorker, ActiveWhileProcessing,
        SleepersHaveWork, WorkerSleepsIdle, queueVars, workerVars, submitVars, stopVars, fateVars
<1>1. CASE Start
  BY <1>1 DEF Start
<1>2. CASE SignalShutdown
  BY <1>2 DEF SignalShutdown
<1>3. CASE NotifyShutdown
  \* A sleeping worker sleeps alone, so the one notification is for it.
  <2>1. waiting' \subseteq waiting
    BY <1>3 DEF NotifyShutdown, AfterNotifyOne
  <2>2. Worker \notin waiting'
    BY <1>3 DEF NotifyShutdown, AfterNotifyOne
  <2> QED BY <1>3, <2>1, <2>2 DEF NotifyShutdown
<1>4. CASE JoinWorker
  BY <1>4 DEF JoinWorker
<1>5. ASSUME NEW s \in Submitters, Submit(s) PROVE WakeupInv'
  <2>1. m_taskQueue' # <<>> /\ m_taskQueue' \in Seq(Nat)
    BY <1>5, AppendNotEmpty DEF Submit
  <2>2. PICK others \in AfterNotifyOne : waiting' = others \/ waiting' = others \cup {s}
    BY <1>5 DEF Submit
  <2>3. Worker \notin others
    BY <2>2 DEF AfterNotifyOne
  <2>4. Worker \notin waiting' /\ waiting' \subseteq Submitters \cup {Worker}
    BY <2>2, <2>3 DEF AfterNotifyOne
  <2> QED BY <1>5, <2>1, <2>4 DEF Submit
<1>6. ASSUME NEW s \in Submitters, Wake(s) PROVE WakeupInv'
  <2>1. CASE TasksDone
    BY <1>6, <2>1 DEF Wake
  <2>2. CASE ~TasksDone
    BY <1>6, <2>2 DEF Wake, TasksDone
  <2> QED BY <2>1, <2>2
<1>7. CASE Begin
  BY <1>7 DEF Begin
<1>8. CASE WaitForWork
  BY <1>8 DEF WaitForWork, WorkReady
<1>9. CASE TakeTask
  <2>1. m_taskQueue' \in Seq(Nat)
    BY <1>9 DEF TakeTask, WorkReady, MustExit
  <2> QED BY <1>9, <2>1 DEF TakeTask
<1>10. CASE ProcessTask
  BY <1>10 DEF ProcessTask
<1>11. CASE FinishTask
  BY <1>11 DEF FinishTask
<1>12. CASE NotifySubmitters
  BY <1>12 DEF NotifySubmitters
<1>13. CASE LeaveLoop
  BY <1>13 DEF LeaveLoop, MustExit
<1>14. CASE Cleanup
  BY <1>14 DEF Cleanup
<1>15. CASE Exit
  BY <1>15 DEF Exit
<1>16. CASE SpuriousWakeup
  BY <1>16 DEF SpuriousWakeup
<1>17. CASE UNCHANGED vars
  BY <1>17 DEF vars
<1> QED
  BY <1>1, <1>2, <1>3, <1>4, <1>5, <1>6, <1>7, <1>8, <1>9, <1>10, <1>11, <1>12, <1>13,
     <1>14, <1>15, <1>16, <1>17 DEF Next, Stop, Run

\* The one condition variable that worker and submitters share loses no
\* wakeup, though submit and stop notify only one of the threads that sleep.
THEOREM WorkerIsNotStranded == Spec => []WorkerNotStranded
<1>1. WakeupInv => WorkerNotStranded
  BY DEF WakeupInv, SleepersAreInCalls, WorkerSleepsIdle, WorkerNotStranded
<1> QED
  BY WakeupInit, WakeupStep, <1>1, PTL DEF Spec

\* A blocking submitter sleeps only while the worker owes it a notification
\* or there is a task in the queue for a worker to take.
THEOREM SubmitterIsNotForgotten == Spec => []SubmitterNotForgotten
<1>1. WakeupInv => SubmitterNotForgotten
  BY DEF WakeupInv, SleepersHaveWork, SubmitterNotForgotten
<1> QED
  BY WakeupInit, WakeupStep, <1>1, PTL DEF Spec
-----------------------------------------------------------------------------
(* The types, and what each program counter says of the flags.              *)

\* The worker has a task in hand from take to finish, answers ping while it is
\* in its loop, and leaves only at a shutdown.
WorkerState ==
    /\ current # NoTask <=> workerPc \in {"process", "finish"}
    /\ PingIsTruthful
    /\ NoThreadNoWorker

StateInv == TypeOK /\ WorkerState

LEMMA TakenSeq ==
    ASSUME NEW S, NEW q \in Seq(S), q # <<>>
    PROVE  Head(q) \in S /\ Tail(q) \in Seq(S)
  OBVIOUS

LEMMA AppendedSeq ==
    ASSUME NEW S, NEW q \in Seq(S), NEW x \in S
    PROVE  Append(q, x) \in Seq(S)
  OBVIOUS

LEMMA StateInit == Init => StateInv
<1> SUFFICES ASSUME Init PROVE StateInv
  OBVIOUS
<1> USE EmulatorAssumption DEF Init, NoTask
<1>0. m_taskQueue \in Seq(Tasks) /\ processed \in Seq(Tasks)
  OBVIOUS
<1>1. /\ discarded \subseteq Tasks
      /\ {m_taskActive, m_threadActive, m_signalShutdown, m_thread} \subseteq BOOLEAN
  OBVIOUS
<1>2. /\ submitPc \in [Submitters -> {"idle", "blocked"}] /\ task \in [Submitters -> Tasks \cup {NoTask}]
      /\ submitted \in 0 .. MaxTasks /\ starts \in 0 .. MaxStarts
  OBVIOUS
<1>3. WorkerState
  BY DEF WorkerState, PingIsTruthful, NoThreadNoWorker
<1> QED BY <1>0, <1>1, <1>2, <1>3 DEF StateInv, TypeOK

LEMMA StateStep == StateInv /\ [Next]_vars => StateInv'
<1> SUFFICES ASSUME StateInv, [Next]_vars PROVE StateInv'
  OBVIOUS
<1> USE EmulatorAssumption DEF StateInv, TypeOK, WorkerState, PingIsTruthful, NoThreadNoWorker, queueVars,
        workerVars, submitVars, stopVars, fateVars
<1>0. \A rest \in AfterNotifyOne : rest \subseteq waiting
  BY DEF AfterNotifyOne
<1>1. CASE Start
  BY <1>1 DEF Start
<1>2. CASE SignalShutdown
  BY <1>2 DEF SignalShutdown
<1>3. CASE NotifyShutdown
  BY <1>0, <1>3 DEF NotifyShutdown
<1>4. CASE JoinWorker
  BY <1>4 DEF JoinWorker
<1>5. ASSUME NEW s \in Submitters, Submit(s) PROVE StateInv'
  <2>1. submitted + 1 \in Tasks /\ submitted + 1 \in 0 .. MaxTasks
    BY <1>5 DEF Submit, Tasks
  <2>2. m_taskQueue' \in Seq(Tasks)
    BY <1>5, <2>1, AppendedSeq DEF Submit
  <2>3. waiting' \subseteq Submitters \cup {Worker}
    BY <1>0, <1>5 DEF Submit
  <2>4. task' \in [Submitters -> Tasks \cup {NoTask}] /\ submitPc' \in [Submitters -> {"idle", "blocked"}]
    BY <1>5, <2>1 DEF Submit
  <2> QED BY <1>5, <2>1, <2>2, <2>3, <2>4 DEF Submit
<1>6. ASSUME NEW s \in Submitters, Wake(s) PROVE StateInv'
  BY <1>6 DEF Wake
<1>7. CASE Begin
  BY <1>7 DEF Begin
<1>8. CASE WaitForWork
  BY <1>8 DEF WaitForWork
<1>9. CASE TakeTask
  <2>1. m_taskQueue # <<>>
    BY <1>9 DEF TakeTask, WorkReady, MustExit
  <2>2. current' \in Tasks /\ m_taskQueue' \in Seq(Tasks)
    BY <1>9, <2>1, TakenSeq DEF TakeTask
  <2>3. NoTask \notin Tasks
    BY DEF Tasks, NoTask
  <2> QED BY <1>9, <2>2, <2>3 DEF TakeTask
<1>10. CASE ProcessTask
  <2>1. current \in Tasks
    BY <1>10 DEF ProcessTask
  <2>2. processed' \in Seq(Tasks)
    BY <1>10, <2>1, AppendedSeq DEF ProcessTask
  <2> QED BY <1>10, <2>2 DEF ProcessTask
<1>11. CASE FinishTask
  BY <1>11 DEF FinishTask
<1>12. CASE NotifySubmitters
  BY <1>12 DEF NotifySubmitters
<1>13. CASE LeaveLoop
  BY <1>13 DEF LeaveLoop
<1>14. CASE Cleanup
  <2>1. discarded' \subseteq Tasks
    BY <1>14 DEF Cleanup
  <2>2. <<>> \in Seq(Tasks)
    OBVIOUS
  <2>3. {m_taskActive', m_threadActive', m_signalShutdown', m_thread'} \subseteq BOOLEAN
    BY <1>14 DEF Cleanup
  <2> QED BY <1>14, <2>1, <2>2, <2>3 DEF Cleanup
<1>15. CASE Exit
  BY <1>15 DEF Exit
<1>16. CASE SpuriousWakeup
  BY <1>16 DEF SpuriousWakeup
<1>17. CASE UNCHANGED vars
  BY <1>17 DEF vars
<1> QED
  BY <1>1, <1>2, <1>3, <1>4, <1>5, <1>6, <1>7, <1>8, <1>9, <1>10, <1>11, <1>12, <1>13,
     <1>14, <1>15, <1>16, <1>17 DEF Next, Stop, Run

LEMMA StateAlways == Spec => []StateInv
  BY StateInit, StateStep, PTL DEF Spec

\* The flag ping returns is set exactly while the worker is in its loop: no
\* earlier worker and no race with stop leaves it wrong.
THEOREM PingAnswersTruthfully == Spec => []PingIsTruthful
<1>1. StateInv => PingIsTruthful
  BY DEF StateInv, WorkerState
<1> QED BY <1>1, StateAlways, PTL

\* The state of the emulator keeps its types, the active flag the task in hand.
THEOREM TypesAreKept == Spec => []TypeOK
<1>1. StateInv => TypeOK
  BY DEF StateInv
<1> QED BY <1>1, StateAlways, PTL
-----------------------------------------------------------------------------
(* The emulator implements TaskService.                                     *)

Blocked == {t \in Submitters : submitPc[t] = "blocked"}
Owed == {task[s] : s \in Blocked}
Pending == (IF workerPc = "process" THEN <<current>> ELSE <<>>) \o m_taskQueue

\* Blocked submitters wait for different tasks, all of them submitted.
Tickets ==
    /\ \A s \in Blocked : task[s] <= submitted
    /\ \A s, t \in Blocked : task[s] = task[t] => s = t

\* Only a submitter changes what is submitted or owed.
LEMMA OwedByCallers ==
    ASSUME [Next]_vars, \A s \in Submitters : ~Submit(s) /\ ~Wake(s)
    PROVE  UNCHANGED submitVars
  BY DEF Next, Stop, Run, Start, SignalShutdown, NotifyShutdown, JoinWorker, Begin, WaitForWork, TakeTask,
     ProcessTask, FinishTask, NotifySubmitters, LeaveLoop, Cleanup, Exit, SpuriousWakeup, vars, submitVars

\* submit numbers its task and, if it blocks, is owed that task.
LEMMA SubmitOwes ==
    ASSUME StateInv, Tickets, NEW s \in Submitters, Submit(s)
    PROVE  /\ Owed' = Owed \/ Owed' = Owed \cup {submitted + 1}
           /\ Tickets'
<1>1. s \notin Blocked /\ task'[s] = submitted + 1 /\ submitted' = submitted + 1 /\ submitted \in Nat
  BY EmulatorAssumption DEF Submit, Blocked, StateInv, TypeOK
<1>2. \A t \in Submitters : t # s => task'[t] = task[t]
  BY DEF Submit, StateInv, TypeOK
<1>3. Blocked' = Blocked \/ Blocked' = Blocked \cup {s}
  BY DEF Submit, Blocked, StateInv, TypeOK
<1>4. \A t \in Blocked : t \in Submitters /\ task[t] \in Nat /\ task[t] <= submitted
  BY DEF Blocked, Tickets, StateInv, TypeOK, Tasks, NoTask
<1>5. Tickets'
  BY <1>1, <1>2, <1>3, <1>4 DEF Tickets
<1>6. \A t \in Blocked : task'[t] = task[t]
  BY <1>1, <1>2, <1>4
<1> QED BY <1>1, <1>3, <1>5, <1>6 DEF Owed

\* A call that returns is owed nothing more, and the others still are.
LEMMA WakeReleases ==
    ASSUME StateInv, Tickets, NEW s \in Submitters, Wake(s)
    PROVE  /\ UNCHANGED Owed \/ (TasksDone /\ task[s] \in Owed /\ Owed' = Owed \ {task[s]})
           /\ Tickets'
<1>1. CASE TasksDone
  <2>1. s \in Blocked /\ UNCHANGED <<task, submitted>>
    BY <1>1 DEF Wake, Blocked
  <2>2. Blocked' = Blocked \ {s}
    BY <1>1 DEF Wake, Blocked, StateInv, TypeOK
  <2>3. Owed' = Owed \ {task[s]}
    BY <2>1, <2>2 DEF Owed, Tickets
  <2> QED BY <1>1, <2>1, <2>2, <2>3 DEF Owed, Tickets
<1>2. CASE ~TasksDone
  <2>1. UNCHANGED <<submitPc, task, submitted>>
    BY <1>2 DEF Wake
  <2> QED BY <2>1 DEF Owed, Blocked, Tickets
<1> QED BY <1>1, <1>2

LEMMA TicketsStep == StateInv /\ Tickets /\ [Next]_vars => Tickets'
<1> SUFFICES ASSUME StateInv, Tickets, [Next]_vars PROVE Tickets'
  OBVIOUS
<1>1. CASE \E s \in Submitters : Submit(s) \/ Wake(s)
  BY <1>1, SubmitOwes, WakeReleases
<1>2. CASE UNCHANGED submitVars
  BY <1>2 DEF Tickets, Blocked, submitVars
<1> QED BY <1>1, <1>2, OwedByCallers

\* What the queue with the task in hand before it becomes in each step.
LEMMA HandsOver ==
    ASSUME NEW S, NEW q \in Seq(S), NEW x \in S, NEW hand \in {<<>>, <<x>>}, NEW y \in S
    PROVE  /\ <<>> \o q = q
           /\ q # <<>> => <<Head(q)>> \o Tail(q) = q
           /\ <<x>> \o q # <<>> /\ Head(<<x>> \o q) = x /\ Tail(<<x>> \o q) = q
           /\ hand \o Append(q, y) = Append(hand \o q, y)
<1>1. <<>> \o q = q
  OBVIOUS
<1>2. q # <<>> => <<Head(q)>> \o Tail(q) = q
  OBVIOUS
<1>3. <<x>> \o q # <<>> /\ Head(<<x>> \o q) = x
  OBVIOUS
<1>4. Tail(<<x>> \o q) = q
  OBVIOUS
<1>5. hand \o Append(q, y) = Append(hand \o q, y)
  OBVIOUS
<1> QED BY <1>1, <1>2, <1>3, <1>4, <1>5

\* Each step of the emulator is a step of the service, or one it cannot see.
LEMMA PromiseStep == StateInv /\ Tickets /\ [Next]_vars => [Promise!Next]_(Promise!vars)
<1> SUFFICES ASSUME StateInv, Tickets, [Next]_vars PROVE [Promise!Next]_(Promise!vars)
  OBVIOUS
<1> USE DEF queueVars, workerVars, submitVars, stopVars, fateVars
<1> DEFINE Seen == <<submitted, Pending, processed, discarded, Owed>>
<1>0. /\ m_taskQueue \in Seq(Tasks) /\ submitted \in Nat
      /\ workerPc = "process" => current \in Tasks
      /\ m_taskQueue = <<>> /\ workerPc # "process" => Pending = <<>>
  BY EmulatorAssumption DEF StateInv, TypeOK, WorkerState, Pending
<1>1. ASSUME NEW s \in Submitters, Submit(s) PROVE Promise!Submit
  <2>1. submitted + 1 \in Tasks
    BY <1>1, EmulatorAssumption DEF Submit, StateInv, TypeOK, Tasks
  <2>2. Pending' = Append(Pending, submitted + 1)
    <3>1. CASE workerPc = "process"
      BY <1>0, <1>1, <2>1, <3>1, HandsOver DEF Pending, Submit
    <3>2. CASE workerPc # "process"
      BY <1>0, <1>1, <2>1, <3>2, HandsOver DEF Pending, Submit
    <3> QED BY <3>1, <3>2
  <2>3. Owed' \in {Owed, Owed \cup {submitted + 1}}
    BY <1>1, SubmitOwes
  <2> QED BY <1>1, <2>2, <2>3 DEF Submit, Promise!Submit, Pending, Owed, Blocked
<1>2. ASSUME NEW s \in Submitters, Wake(s) PROVE Promise!Release \/ UNCHANGED Seen
  <2>1. UNCHANGED <<submitted, Pending, processed, discarded>>
    BY <1>2 DEF Wake, Pending
  <2>2. CASE UNCHANGED Owed
    BY <2>1, <2>2
  <2>3. CASE TasksDone /\ task[s] \in Owed /\ Owed' = Owed \ {task[s]}
    <3>1. Pending = <<>>
      BY <1>0, <2>3 DEF TasksDone, StateInv, TypeOK, WorkerState
    <3>2. ~Promise!IsPending(task[s])
      BY <3>1 DEF Promise!IsPending, Pending
    <3> QED BY <2>1, <2>3, <3>2 DEF Promise!Release, Pending, Owed, Blocked
  <2> QED BY <1>2, <2>2, <2>3, WakeReleases
<1>3. ASSUME ProcessTask PROVE Promise!Next
  <2>1. Pending = <<current>> \o m_taskQueue /\ Pending' = <<>> \o m_taskQueue
    BY <1>3 DEF Pending, ProcessTask
  <2>2. Pending # <<>> /\ Head(Pending) = current /\ Tail(Pending) = Pending'
    BY <1>0, <1>3, <2>1, HandsOver DEF ProcessTask
  <2>3. processed' = Append(processed, current) /\ UNCHANGED <<submitted, discarded, Owed>>
    BY <1>3 DEF ProcessTask, Owed, Blocked
  <2> QED BY <2>2, <2>3 DEF Promise!Perform, Promise!Next, Pending, Owed, Blocked
<1>4. ASSUME Cleanup PROVE Promise!Next
  <2>1. Pending = m_taskQueue /\ Pending' = <<>>
    BY <1>0, <1>4, HandsOver DEF Cleanup, Pending
  <2>2. /\ discarded' = discarded \cup {Pending[k] : k \in DOMAIN Pending}
        /\ UNCHANGED <<submitted, processed, Owed>>
    BY <1>4, <2>1 DEF Cleanup, Owed, Blocked
  <2> QED BY <2>1, <2>2 DEF Promise!Drop, Promise!Next, Pending, Owed, Blocked
<1>5. ASSUME TakeTask PROVE UNCHANGED Seen
  <2>1. m_taskQueue # <<>>
    BY <1>5 DEF TakeTask, WorkReady, MustExit
  <2>2. Pending = m_taskQueue /\ Pending' = <<Head(m_taskQueue)>> \o Tail(m_taskQueue)
    BY <1>0, <1>5, HandsOver DEF TakeTask, Pending
  <2>3. UNCHANGED Pending
    BY <1>0, <2>1, <2>2, HandsOver
  <2>4. UNCHANGED Owed /\ UNCHANGED <<submitted, processed, discarded>>
    BY <1>5 DEF TakeTask, Owed, Blocked
  <2>5. UNCHANGED Seen
    BY <2>3, <2>4
  <2> QED BY <2>5
<1>6. ASSUME Start \/ Stop \/ SpuriousWakeup \/ UNCHANGED vars PROVE UNCHANGED Seen
  <2>1. UNCHANGED <<m_taskQueue, current, submitVars, fateVars>>
    BY <1>6 DEF Start, Stop, SignalShutdown, NotifyShutdown, JoinWorker, SpuriousWakeup, vars
  <2>2. (workerPc # "process" /\ workerPc' # "process") \/ UNCHANGED workerPc
    BY <1>6 DEF Start, Stop, SignalShutdown, NotifyShutdown, JoinWorker, SpuriousWakeup, vars, StateInv,
       WorkerState, NoThreadNoWorker
  <2>3. UNCHANGED Pending
    BY <2>1, <2>2 DEF Pending
  <2>4. UNCHANGED Owed /\ UNCHANGED <<submitted, processed, discarded>>
    BY <2>1 DEF Owed, Blocked
  <2>5. UNCHANGED Seen
    BY <2>3, <2>4
  <2> QED BY <2>5
<1>7. ASSUME Begin \/ WaitForWork \/ FinishTask \/ NotifySubmitters \/ LeaveLoop \/ Exit PROVE UNCHANGED Seen
  <2>1. UNCHANGED <<m_taskQueue, submitVars, fateVars>>
    BY <1>7 DEF Begin, WaitForWork, FinishTask, NotifySubmitters, LeaveLoop, Exit
  <2>2. workerPc # "process" /\ workerPc' # "process"
    BY <1>7 DEF Begin, WaitForWork, FinishTask, NotifySubmitters, LeaveLoop, Exit
  <2>3. UNCHANGED Pending
    BY <2>1, <2>2 DEF Pending
  <2>4. UNCHANGED Owed /\ UNCHANGED <<submitted, processed, discarded>>
    BY <2>1 DEF Owed, Blocked
  <2>5. UNCHANGED Seen
    BY <2>3, <2>4
  <2> QED BY <2>5
<1>8. Promise!Next \/ UNCHANGED Seen
  <2>1. CASE \E s \in Submitters : Submit(s) \/ Wake(s)
    BY <1>1, <1>2, <2>1 DEF Promise!Next
  <2>2. CASE ~\E s \in Submitters : Submit(s) \/ Wake(s)
    <3>1. Start \/ Stop \/ Run \/ SpuriousWakeup \/ UNCHANGED vars
      BY <2>2 DEF Next
    <3> QED BY <1>3, <1>4, <1>5, <1>6, <1>7, <3>1 DEF Run
  <2> QED BY <2>1, <2>2
<1> QED BY <1>8 DEF Promise!vars, Pending, Owed, Blocked

\* Submitters, worker and stop together perform tasks once and in the order
\* they were submitted, and release a caller only when its task is gone.
THEOREM EmulatorImplementsTaskService == Spec => ServesTasks
<1>1. Init => Promise!Init
  <2>1. Init => Pending = <<>> \o <<>> /\ Owed = {}
    BY DEF Init, Pending, Owed, Blocked
  <2>2. <<>> \o <<>> = <<>>
    OBVIOUS
  <2> QED BY <2>1, <2>2 DEF Init, Promise!Init, Pending, Owed, Blocked
<1>2. Init => Tickets
  BY DEF Init, Tickets, Blocked
<1> QED
  BY <1>1, <1>2, StateInit, StateStep, TicketsStep, PromiseStep, PTL
  DEF Spec, ServesTasks, Promise!Spec
-----------------------------------------------------------------------------
(* A caller that stops only what it is not using loses no task.             *)

\* A request to stop is pending only during stop, and the worker can only end
\* during stop: between stops the next worker starts without a request.
ShutdownBelongsToStop ==
    /\ m_thread => workerPc # "none"
    /\ m_signalShutdown => stopPc # "idle" /\ workerPc \notin {"none", "notifyExit", "exited"}
    /\ workerPc \in {"cleanup", "notifyExit", "exited"} => stopPc # "idle"

NothingLeft == quiescent => discarded = {} /\ (workerPc = "cleanup" => m_taskQueue = <<>>)

ShutdownInv == NoThreadNoWorker /\ ShutdownBelongsToStop /\ NothingLeft

LEMMA ShutdownStep == ShutdownInv /\ [Next]_vars => ShutdownInv'
<1> SUFFICES ASSUME ShutdownInv, [Next]_vars PROVE ShutdownInv'
  OBVIOUS
<1> USE DEF ShutdownInv, NoThreadNoWorker, ShutdownBelongsToStop, NothingLeft, queueVars, workerVars,
        submitVars, stopVars, fateVars
<1>1. CASE Start
  BY <1>1 DEF Start
<1>2. CASE Stop
  BY <1>2 DEF Stop, SignalShutdown, NotifyShutdown, JoinWorker
<1>3. ASSUME NEW s \in Submitters, Submit(s) PROVE ShutdownInv'
  BY <1>3 DEF Submit
<1>4. ASSUME NEW s \in Submitters, Wake(s) PROVE ShutdownInv'
  BY <1>4 DEF Wake
<1>5. CASE Begin \/ WaitForWork \/ TakeTask
  BY <1>5 DEF Begin, WaitForWork, TakeTask
<1>6. CASE ProcessTask \/ FinishTask \/ NotifySubmitters
  BY <1>6 DEF ProcessTask, FinishTask, NotifySubmitters
<1>7. CASE LeaveLoop
  BY <1>7 DEF LeaveLoop, MustExit
<1>8. CASE Cleanup
  <2>1. quiescent => discarded' = {}
    <3>1. SUFFICES ASSUME quiescent PROVE discarded' = {}
      OBVIOUS
    <3>2. m_taskQueue = <<>> /\ discarded = {}
      BY <1>8, <3>1 DEF Cleanup
    <3> QED BY <1>8, <3>2 DEF Cleanup
  <2> QED BY <1>8, <2>1 DEF Cleanup
<1>9. CASE Exit \/ SpuriousWakeup \/ UNCHANGED vars
  BY <1>9 DEF Exit, SpuriousWakeup, vars
<1> QED
  BY <1>1, <1>2, <1>3, <1>4, <1>5, <1>6, <1>7, <1>8, <1>9 DEF Next, Run

\* The queue the worker empties at its end is already empty when the caller
\* stops an emulator only between its submits.
THEOREM QuiescentStopLosesNothing == Spec => []NothingDiscarded
<1>1. Init => ShutdownInv
  BY DEF Init, ShutdownInv, NoThreadNoWorker, ShutdownBelongsToStop, NothingLeft
<1>2. ShutdownInv => NothingDiscarded
  BY DEF ShutdownInv, NothingLeft, NothingDiscarded
<1> QED
  BY <1>1, <1>2, ShutdownStep, PTL DEF Spec
=============================================================================
