--------------------------- MODULE BenchmarkLaunch ---------------------------
(***************************************************************************)
(* nvdla-benchmark-launch: runs one command under an alarm, waits for it,  *)
(* records its interval and its resource usage, and exits with its status, *)
(* with 124 when the alarm had gone off, or with 2 when it failed itself.  *)
(*                                                                         *)
(* The handler of the alarm is a step of its own: it may run between any   *)
(* two steps of the launcher from alarm to alarm(0), also after wait4 has  *)
(* reaped the command.                                                     *)
(***************************************************************************)
EXTENDS Integers

CONSTANTS
    Timeouts,       \* values of --timeout-seconds, 0 when it is not given
    Wrap,           \* 2^32: alarm takes an unsigned int
    Codes,          \* how the command may end by itself: a code or a signal
    Killable,       \* SIGKILL ends the command: it is not stuck in the kernel
    Running, Killed, None, Timeout, Broken

VARIABLES
    pc, timeout_seconds,
    command_pid,        \* TRUE once the handler knows the command
    timed_out,
    alarmSet,           \* an alarm is running
    child,              \* "none", "running", "zombie" or "reaped"
    ending,             \* how the command ended: Running until then
    filesWritten,       \* of the evidence
    exit                \* what the launcher returned: None until then

launcherVars == <<pc, timeout_seconds, command_pid, filesWritten, exit>>
vars == <<launcherVars, timed_out, alarmSet, child, ending>>

Init ==
    /\ pc = "fork" /\ timeout_seconds \in Timeouts
    /\ command_pid = FALSE /\ timed_out = FALSE /\ alarmSet = FALSE
    /\ child = "none" /\ ending = Running /\ filesWritten = 0 /\ exit = None

Return(code) == pc' = "returned" /\ exit' = code

\* The options are parsed; the clock or fork may fail.
Fork ==
    /\ pc = "fork"
    /\ \/ Return(Broken) /\ UNCHANGED child
       \/ pc' = "know" /\ child' = "running" /\ UNCHANGED exit
    /\ UNCHANGED <<timeout_seconds, command_pid, filesWritten, timed_out, alarmSet, ending>>

KnowCommand ==
    /\ pc = "know" /\ pc' = "arm"
    /\ command_pid' = TRUE
    /\ UNCHANGED <<timeout_seconds, filesWritten, exit, timed_out, alarmSet, child, ending>>

Alarms == timeout_seconds % Wrap # 0

\* alarm with a multiple of 2^32 sets no alarm.
Arm ==
    /\ pc = "arm" /\ pc' = "wait"
    /\ alarmSet' = Alarms
    /\ UNCHANGED <<timeout_seconds, command_pid, filesWritten, exit, timed_out, child, ending>>

\* wait4; the alarm interrupts it and it is called again.
Reap ==
    /\ pc = "wait" /\ child = "zombie"
    /\ pc' = "disarm" /\ child' = "reaped"
    /\ UNCHANGED <<timeout_seconds, command_pid, filesWritten, exit, timed_out, alarmSet, ending>>

\* It fails in another way: the launcher ends, and its alarm with it, whatever
\* the command does then.
WaitFails ==
    /\ pc = "wait"
    /\ Return(Broken) /\ alarmSet' = FALSE
    /\ UNCHANGED <<timeout_seconds, command_pid, filesWritten, timed_out, child, ending>>

Disarm ==
    /\ pc = "disarm" /\ pc' = "write"
    /\ alarmSet' = FALSE
    /\ UNCHANGED <<timeout_seconds, command_pid, filesWritten, exit, timed_out, child, ending>>

\* The elapsed time, the interval and the resource usage: the first file that
\* cannot be written ends the launcher.
Files == 3

Write ==
    /\ pc = "write" /\ filesWritten < Files
    /\ \/ filesWritten' = filesWritten + 1 /\ UNCHANGED <<pc, exit>>
       \/ Return(Broken) /\ UNCHANGED filesWritten
    /\ UNCHANGED <<timeout_seconds, command_pid, timed_out, alarmSet, child, ending>>

StatusOfCommand == ending
Status == IF timed_out THEN Timeout ELSE ending

ExitWithStatus ==
    /\ pc = "write" /\ filesWritten = Files
    /\ Return(Status)
    /\ UNCHANGED <<timeout_seconds, command_pid, filesWritten, timed_out, alarmSet, child, ending>>

Launcher == Fork \/ KnowCommand \/ Arm \/ Reap \/ Disarm \/ Write \/ ExitWithStatus

\* A kill reaches nobody once the command is reaped, if its pid is not in use again.
OnlyMarks == UNCHANGED <<child, ending>>
KillCommand ==
    IF command_pid /\ child = "running" /\ Killable
    THEN child' = "zombie" /\ ending' = Killed
    ELSE UNCHANGED <<child, ending>>

HandleTimeout ==
    /\ alarmSet /\ alarmSet' = FALSE
    /\ timed_out' = TRUE
    /\ KillCommand
    /\ UNCHANGED launcherVars

\* Setting the affinity or execvp fails, or the program ends, or it never does.
CommandEnds ==
    /\ child = "running" /\ child' = "zombie"
    /\ ending' \in Codes
    /\ UNCHANGED <<launcherVars, timed_out, alarmSet>>

Returned == pc = "returned" /\ UNCHANGED vars

Next == Launcher \/ WaitFails \/ HandleTimeout \/ CommandEnds \/ Returned

Spec == Init /\ [][Next]_vars

\* The launcher is scheduled and an alarm goes off; the command may hang, and
\* wait4 does not have to fail.
FairSpec == Spec /\ WF_vars(Launcher) /\ WF_vars(HandleTimeout)

-----------------------------------------------------------------------------
Promise == INSTANCE BoundedCommand WITH command <- ending, timeUp <- timed_out, result <- exit

\* The alarm, the command and the launcher in any order: a status other than
\* 124 is the command's own, and it was not killed before its time.
BoundsItsCommand == Promise!Spec

\* A launch with an alarm returns even if the command would run for ever; a
\* timeout that is 0 modulo 2^32 is no timeout.
LaunchReturns == timeout_seconds % Wrap # 0 => <>(pc = "returned")
=============================================================================
