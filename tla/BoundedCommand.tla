---------------------------- MODULE BoundedCommand ----------------------------
(***************************************************************************)
(* What the tools promise of a command they run with a timeout, whether    *)
(* nvdla-benchmark-launch does it with an alarm or run_with_watchdog with  *)
(* a second process: the command is only killed once its time is up, the   *)
(* result is the command's own status unless its time was up, and another  *)
(* command starts only when this one has ended.                            *)
(***************************************************************************)
CONSTANTS
    Codes,          \* how a command may end by itself
    Running, Killed, None, Timeout, Broken

VARIABLES
    command,        \* Running, Killed, or how it ended by itself
    timeUp,
    result          \* None, then what the caller is told

vars == <<command, timeUp, result>>

Init == command = Running /\ timeUp = FALSE /\ result = None

EndByItself ==
    /\ command = Running /\ command' \in Codes
    /\ UNCHANGED <<timeUp, result>>

\* The time may be up while the command runs, or between its end and the
\* result; a command that runs is killed then or later.
TimePasses ==
    /\ result = None /\ timeUp' = TRUE
    /\ command' \in IF command = Running THEN {Running, Killed} ELSE {command}
    /\ UNCHANGED result

\* Broken: the tool itself failed, before it started the command or after.
Return ==
    /\ result = None
    /\ \/ command # Running /\ result' = (IF timeUp THEN Timeout ELSE command)
       \/ result' = Broken
    /\ UNCHANGED <<command, timeUp>>

StartAnother == result # None /\ Init'

Next == EndByItself \/ TimePasses \/ Return \/ StartAnother

Spec == Init /\ [][Next]_vars
=============================================================================
