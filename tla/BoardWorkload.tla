---------------------------- MODULE BoardWorkload ----------------------------
(***************************************************************************)
(* nvdla-board-workload: after its prerequisites the script repeats a      *)
(* LeNet or ResNet-50 run until one fails, or drives a runtime server with *)
(* a client once (sdp) and then stops the server; it reports one verdict.  *)
(*                                                                         *)
(* run_with_watchdog is three processes: the script, the command and the   *)
(* watchdog that will kill it.  A process that is stuck in the kernel does *)
(* not end when it is killed.                                              *)
(***************************************************************************)
EXTENDS Integers, Sequences

CONSTANTS
    Modes,          \* the modes the runner is started in
    REPEAT,
    WATCHDOG_GRACE, \* looks at the server between TERM and KILL
    Killable,       \* SIGKILL ends a command: it is not stuck in the kernel
    Running, Killed, None, Timeout, Broken

ASSUME WorkloadAssumption ==
    /\ Modes \subseteq {"sdp", "lenet", "resnet50"}
    /\ REPEAT \in Nat \ {0} /\ WATCHDOG_GRACE \in Nat /\ Killable \in BOOLEAN

Codes == {"exit 0", "exit 1", "exit 127"}

VARIABLES
    pc, MODE, check,
    GOLDEN_OUTPUT,      \* the ResNet-50 workload has one
    index, PASS_COUNT, FIRST_FAILURE, STATUS, CLASSIFICATION, report,
    command, watchdog, marker, command_status, status,     \* run_with_watchdog
    server, look, unreaped,                                \* stop_server_bounded
    repeats,            \* what each repeat left behind, its classification included
    kernelBad

countVars    == <<MODE, GOLDEN_OUTPUT, check, index, PASS_COUNT, FIRST_FAILURE, repeats>>
verdictVars  == <<STATUS, CLASSIFICATION, report>>
commandVars  == <<command, watchdog, marker, command_status, status>>
serverVars   == <<server, look, unreaped>>
vars == <<pc, countVars, verdictVars, commandVars, serverVars, kernelBad>>

Prerequisites == <<"payload-verification-failure", "module-load-failure", "driver-bind-failure",
                   "render-node-failure", "irq-registration-failure", "payload-verification-failure">>

Init ==
    /\ pc = "checks" /\ MODE \in Modes /\ GOLDEN_OUTPUT \in BOOLEAN /\ check = 1
    /\ index = 1 /\ PASS_COUNT = 0 /\ FIRST_FAILURE = 0 /\ repeats = <<>>
    /\ STATUS = 0 /\ CLASSIFICATION = "not-run" /\ report = <<>>
    /\ command = Running /\ watchdog = "sleep" /\ marker = FALSE
    /\ command_status = None /\ status = None
    /\ server = "none" /\ look = 0 /\ unreaped = FALSE
    /\ kernelBad = FALSE

Conclude(code, classification) ==
    /\ STATUS' = code /\ CLASSIFICATION' = classification /\ pc' = "finish"
    /\ UNCHANGED report

Proceed(label) == pc' = label /\ UNCHANGED verdictVars

CheckPrerequisite ==
    /\ pc = "checks"
    /\ \/ Conclude(1, Prerequisites[check]) /\ UNCHANGED check
       \/ check < Len(Prerequisites) /\ check' = check + 1 /\ Proceed("checks")
       \/ /\ check = Len(Prerequisites) /\ UNCHANGED check
          /\ Proceed(IF MODE = "sdp" THEN "server" ELSE "wait")
    /\ UNCHANGED <<MODE, GOLDEN_OUTPUT, index, PASS_COUNT, FIRST_FAILURE, repeats, commandVars, serverVars, kernelBad>>

\* In the background; the client then runs under the watchdog.
StartServer ==
    /\ pc = "server" /\ Proceed("wait")
    /\ server' = "running"
    /\ UNCHANGED <<look, unreaped, countVars, commandVars, kernelBad>>

-----------------------------------------------------------------------------
(* run_with_watchdog.                                                      *)

Ended == command # Running
InRun == pc \in {"wait", "kill", "return"}

\* The run may have left a bad pattern in the kernel log.
WaitCommand ==
    /\ pc = "wait" /\ Ended /\ Proceed("kill")
    /\ command_status' = command
    /\ kernelBad' \in {kernelBad, TRUE}
    /\ UNCHANGED <<command, watchdog, marker, status, countVars, serverVars>>

\* kill and wait: from here on the watchdog does nothing more.
EndWatchdog ==
    /\ pc = "kill" /\ Proceed("return")
    /\ watchdog' = "done"
    /\ UNCHANGED <<command, marker, command_status, status, countVars, serverVars, kernelBad>>

Return ==
    /\ pc = "return" /\ Proceed(IF MODE = "sdp" THEN "stop" ELSE "judge")
    /\ status' = IF marker THEN Timeout ELSE command_status
    /\ UNCHANGED <<command, watchdog, marker, command_status, countVars, serverVars, kernelBad>>

\* Past RUNTIME_TIMEOUT kill -0 finds the command alive or, until the shell
\* has waited for it, ended; or it finds no process.
CheckCommand ==
    /\ InRun /\ watchdog = "sleep"
    /\ \/ pc = "wait" /\ watchdog' = "mark"
       \/ Ended /\ watchdog' = "done"
    /\ UNCHANGED <<pc, command, marker, command_status, status, countVars, verdictVars, serverVars, kernelBad>>

\* The command ends at once, or ignores TERM, or is stuck.
Signalled(signal) ==
    IF Ended \/ ~Killable THEN {command} ELSE IF signal = "KILL" THEN {Killed} ELSE {Killed, Running}

TermBeforeMark ==
    /\ watchdog = "mark" /\ watchdog' = "term"
    /\ command' \in Signalled("TERM")
    /\ UNCHANGED <<pc, marker, command_status, status, countVars, verdictVars, serverVars, kernelBad>>

Mark ==
    /\ watchdog = "mark" /\ watchdog' = "term"
    /\ marker' = TRUE
    /\ UNCHANGED <<pc, command, command_status, status, countVars, verdictVars, serverVars, kernelBad>>

Term ==
    /\ watchdog = "term" /\ watchdog' = "grace"
    /\ command' \in Signalled("TERM")
    /\ UNCHANGED <<pc, marker, command_status, status, countVars, verdictVars, serverVars, kernelBad>>

NoKill ==
    /\ watchdog = "grace" /\ watchdog' = "done"
    /\ UNCHANGED <<pc, command, marker, command_status, status, countVars, verdictVars, serverVars, kernelBad>>

\* WATCHDOG_GRACE seconds later.
Kill ==
    /\ watchdog = "grace" /\ watchdog' = "done"
    /\ command' \in Signalled("KILL")
    /\ UNCHANGED <<pc, marker, command_status, status, countVars, verdictVars, serverVars, kernelBad>>

Watchdog == CheckCommand \/ Mark \/ Term \/ Kill

CommandEnds ==
    /\ pc = "wait" /\ ~Ended /\ command' \in Codes
    /\ UNCHANGED <<pc, watchdog, marker, command_status, status, countVars, verdictVars, serverVars, kernelBad>>

-----------------------------------------------------------------------------
(* stop_server_bounded: it looks once a second whether the server ended.   *)

ServerEnds ==
    /\ server = "running" /\ server' = "ended"
    /\ UNCHANGED <<pc, look, unreaped, countVars, verdictVars, commandVars, kernelBad>>

SeesEnd == server = "ended"

\* Look 0 is before TERM, the last one after KILL.
LastLook == WATCHDOG_GRACE + 1

\* TERM is ignored or not; a server stuck in the kernel survives KILL, too.
AfterSignal(next) == IF next \in {1, LastLook} THEN {server, "ended"} ELSE {server}

LookAtServer ==
    /\ pc = "stop"
    /\ IF SeesEnd
       THEN server' = "reaped" /\ Proceed("judge") /\ UNCHANGED <<look, unreaped>>
       ELSE IF look = LastLook
       THEN unreaped' = TRUE /\ Proceed("judge") /\ UNCHANGED <<server, look>>
       ELSE /\ look' = look + 1 /\ Proceed("stop")
            /\ server' \in AfterSignal(look')
            /\ UNCHANGED unreaped
    /\ UNCHANGED <<countVars, commandVars, kernelBad>>

-----------------------------------------------------------------------------
(* The verdicts.                                                           *)

Evidence == [irq : BOOLEAN,                             \* a positive interrupt delta
             operations : {"none", "partial", "all"},   \* completed, from the kernel log
             output : {"missing", "empty", "zero", "invalid", "misshapen", "wrong", "exact"}]

\* The first condition that holds names the verdict; the last one always does.
First(rules) == rules[CHOOSE k \in DOMAIN rules : rules[k][1] /\ \A j \in 1 .. k - 1 : ~rules[j][1]][2]

Failed(run_status) == run_status # "exit 0"

\* An output of no words is no output; sdp looks for the file, and in an empty
\* one finds no byte that is not zero.
Empty(seen) == seen.output \in {"missing", "empty"}

LenetVerdict(run_status, seen) == First(<<
    <<run_status = Timeout,       "runtime-timeout">>,
    <<Failed(run_status),         "runtime-failure">>,
    <<~seen.irq,                  "initiated-without-irq">>,
    <<seen.operations = "partial", "partial-operation-sequence">>,
    <<seen.operations = "none",   "irq-without-completion">>,
    <<Empty(seen),                "missing-output">>,
    <<seen.output # "exact",      "output-mismatch">>,
    <<TRUE,                       "pass">> >>)

Resnet50Verdict(run_status, seen) == First(<<
    <<run_status = Timeout,       "runtime-timeout">>,
    <<Failed(run_status),         "runtime-failure">>,
    <<~seen.irq,                  "initiated-without-irq">>,
    <<Empty(seen),                "missing-output">>,
    <<seen.operations = "none",   "irq-without-completion">>,
    <<seen.operations = "partial", "partial-hwl-sequence">>,
    <<seen.output = "invalid",    "invalid-output-format">>,
    <<seen.output = "misshapen",  "output-shape-mismatch">>,
    <<GOLDEN_OUTPUT /\ seen.output # "exact", "output-mismatch">>,
    <<GOLDEN_OUTPUT,                     "exact-pass">>,
    <<TRUE,                       "execution-pass-oracle-pending">> >>)

SdpVerdict(client_status, seen) == First(<<
    <<client_status = Timeout,    "runtime-timeout">>,
    <<Failed(client_status),      "runtime-protocol-failure">>,
    <<seen.output = "missing",    "missing-output">>,
    <<~seen.irq,                  "initiated-without-irq">>,
    <<seen.operations = "none",   "irq-without-completion">>,
    <<seen.output = "exact",      "exact-pass">>,
    <<seen.output \in {"zero", "empty"}, "diagnostic-pass-oracle-inconclusive">>,
    <<TRUE,                       "unexpected-output-mismatch">> >>)

RepeatVerdict(seen) ==
    IF MODE = "lenet" THEN LenetVerdict(status, seen) ELSE Resnet50Verdict(status, seen)

RepeatPasses == {"pass", "exact-pass", "execution-pass-oracle-pending"}

FinalClassification ==
    IF MODE = "resnet50" /\ ~GOLDEN_OUTPUT
    THEN IF REPEAT = 1 THEN "execution-pass-oracle-pending" ELSE "execution-stability-pass-oracle-pending"
    ELSE IF REPEAT = 1 THEN "exact-pass" ELSE "stability-pass"

LastRepeat == index = REPEAT

\* The next repeat starts a command and a watchdog anew.
JudgeRepeat ==
    /\ pc = "judge" /\ MODE # "sdp"
    /\ \E seen \in Evidence :
        LET outcome == RepeatVerdict(seen) IN
        /\ repeats' = Append(repeats, [runtime |-> status, seen |-> seen, classification |-> outcome])
        /\ IF outcome \notin RepeatPasses
           THEN /\ Conclude(1, outcome) /\ FIRST_FAILURE' = index
                /\ UNCHANGED <<index, PASS_COUNT, commandVars>>
           ELSE /\ PASS_COUNT' = index /\ index' = index + 1 /\ UNCHANGED FIRST_FAILURE
                /\ IF LastRepeat
                   THEN Conclude(0, FinalClassification) /\ UNCHANGED commandVars
                   ELSE /\ Proceed("wait")
                        /\ command' = Running /\ watchdog' = "sleep" /\ marker' = FALSE
                        /\ command_status' = None /\ status' = None
    /\ UNCHANGED <<MODE, GOLDEN_OUTPUT, check, serverVars, kernelBad>>

SdpPasses == {"exact-pass", "diagnostic-pass-oracle-inconclusive"}

JudgeSdp ==
    /\ pc = "judge" /\ MODE = "sdp"
    /\ \E seen \in Evidence :
        LET outcome == SdpVerdict(status, seen) IN
        /\ repeats' = <<[runtime |-> status, seen |-> seen, classification |-> outcome]>>
        /\ Conclude(IF outcome \in SdpPasses THEN 0 ELSE 1, outcome)
        /\ PASS_COUNT' = IF outcome \in SdpPasses THEN 1 ELSE 0
    /\ UNCHANGED <<MODE, GOLDEN_OUTPUT, check, index, FIRST_FAILURE, commandVars, serverVars, kernelBad>>

KeepsPass == STATUS
FinalStatus == IF kernelBad THEN 1 ELSE STATUS

Finish ==
    /\ pc = "finish" /\ pc' = "exited"
    /\ STATUS' = FinalStatus
    /\ CLASSIFICATION' = IF kernelBad THEN "kernel-log-failure" ELSE CLASSIFICATION
    /\ report' = <<STATUS', CLASSIFICATION'>>
    /\ UNCHANGED <<countVars, commandVars, serverVars, kernelBad>>

\* set -e ends the script, without a report and without a trap.
Abort ==
    /\ pc \in {"checks", "server", "stop", "judge", "finish"} /\ pc' = "exited"
    /\ UNCHANGED <<countVars, verdictVars, commandVars, serverVars, kernelBad>>

Script ==
    \/ CheckPrerequisite \/ StartServer \/ WaitCommand \/ EndWatchdog \/ Return
    \/ LookAtServer \/ JudgeRepeat \/ JudgeSdp \/ Finish

Exited == pc = "exited" /\ UNCHANGED vars

Next == Script \/ Abort \/ Watchdog \/ CommandEnds \/ ServerEnds \/ Exited

Spec == Init /\ [][Next]_vars

\* Script and watchdog are scheduled; command and server may hang.
FairSpec == Spec /\ WF_vars(Script) /\ WF_vars(Watchdog)

-----------------------------------------------------------------------------
verdicts == [k \in DOMAIN repeats |-> repeats[k].classification]
Passes == SdpPasses \cup {"execution-pass-oracle-pending", "execution-stability-pass-oracle-pending",
                          "stability-pass"}
Classifications ==
    Passes \cup {Prerequisites[k] : k \in DOMAIN Prerequisites} \cup
    {"not-run", "kernel-log-failure", "pass", "runtime-timeout", "runtime-failure", "runtime-protocol-failure",
     "initiated-without-irq", "irq-without-completion", "partial-operation-sequence", "partial-hwl-sequence",
     "missing-output", "invalid-output-format", "output-shape-mismatch", "output-mismatch",
     "unexpected-output-mismatch"}

\* The types of the state of the script and of run_with_watchdog; an sdp run is
\* judged when its server is reaped, or the evidence says that it is not.
TypeOK ==
    /\ pc \in {"checks", "server", "wait", "kill", "return", "stop", "judge", "finish", "exited"}
    /\ MODE \in Modes /\ check \in 1 .. Len(Prerequisites)
    /\ index \in 1 .. REPEAT + 1 /\ PASS_COUNT \in 0 .. REPEAT /\ FIRST_FAILURE \in 0 .. REPEAT
    /\ STATUS \in {0, 1} /\ CLASSIFICATION \in Classifications
    /\ command \in Codes \cup {Running, Killed} /\ command_status \in Codes \cup {None, Killed}
    /\ status \in Codes \cup {None, Killed, Timeout}
    /\ watchdog \in {"sleep", "mark", "term", "grace", "done"}
    /\ {GOLDEN_OUTPUT, marker, unreaped, kernelBad} \subseteq BOOLEAN
    /\ server \in {"none", "running", "ended", "reaped"} /\ look \in 0 .. LastLook
    /\ pc = "judge" /\ MODE = "sdp" => server = "reaped" \/ unreaped
    /\ \A k \in DOMAIN repeats : repeats[k].seen \in Evidence /\ verdicts[k] \in Classifications
    /\ report \in {<<>>} \cup ({0, 1} \X Classifications)

\* A repeat begins only after all earlier ones passed; status 0 means that
\* every repeat passed, and a failing one is the last and is named.
StopsAtFirstFailure ==
    /\ MODE # "sdp" => \A k \in DOMAIN verdicts : verdicts[k] \notin RepeatPasses => k = Len(verdicts) /\ k = FIRST_FAILURE
    /\ report # <<>> =>
        /\ report[1] = 0 <=> report[2] \in Passes
        /\ report[1] = 0 => ~kernelBad /\ IF MODE = "sdp" THEN Len(verdicts) = 1
                                           ELSE Len(verdicts) = REPEAT /\ FIRST_FAILURE = 0

\* A timeout never passes for anything else: neither a killed command nor one
\* whose time was up gets another verdict, whichever process was the faster.
TimeoutIsNamed ==
    pc = "finish" /\ verdicts # <<>> /\ (marker \/ command = Killed) =>
        verdicts[Len(verdicts)] = "runtime-timeout"

Promise == INSTANCE BoundedCommand WITH timeUp <- marker, result <- status

\* Script, watchdog and command in any order: what the script is told is 124
\* if the watchdog ended the command, and else the command's own status.
BoundsItsCommands == Promise!Spec

\* Every run has a timeout and the script a last line, although a command or
\* a server may hang.
EveryRunEnds == <>(pc = "exited")
=============================================================================
