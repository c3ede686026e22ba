---------------------------- MODULE CpuBenchmark ----------------------------
(***************************************************************************)
(* nvdla-board-cpu-benchmark: the script that measures ONNX Runtime on the *)
(* cores.  Unlike nvdla-board-benchmark it does not set the governors: it  *)
(* verifies them before and after the runs, and checks the outputs in two  *)
(* runs of their own around the measured ones.                             *)
(*                                                                         *)
(* A trap handler runs between two commands and the script then goes on;   *)
(* restoring is the part of restore_environment that runs now.  The cores  *)
(* have one state, what their governors and frequencies read, and it may   *)
(* change at any time: the script does not own it.                         *)
(***************************************************************************)
EXTENDS Integers, Sequences

CONSTANTS
    Plan,           \* the regimes of the runs, "steady" at most once and last
    PowerSample,    \* --power
    CpuStates,      \* what the governors and frequencies of the cores may be
    Acceptable,     \* userspace everywhere and one frequency near the nominal
    MaxAttempts,    \* polls of the ready file: 200 in the script
    MaxSignals,     \* bound: signals the script receives
    MaxChanges,     \* bound: changes of the state of the cores
    Rails, MaxSamples

ASSUME CpuAssumption ==
    /\ Plan \in Seq({"cold", "warm", "steady"}) /\ PowerSample \in BOOLEAN
    /\ Acceptable \subseteq CpuStates
    /\ MaxAttempts \in Nat \ {0} /\ {MaxSignals, MaxChanges} \subseteq Nat

VARIABLES
    pc, restoring,
    STATUS, CLASSIFICATION,
    report,             \* what finish archived, once it did
    SAMPLER_PID,        \* TRUE while the script knows a sampler process
    attempts,
    printk, printkSaved,    \* as in nvdla-board-benchmark
    cpu, changes,       \* the state of the cores and how often it has changed
    verified,           \* the states that verify_cpu_state accepted, in order
    correct,            \* the correctness runs that passed
    kernelBad,          \* the kernel log since DMESG_LINES has a bad pattern
    runs,               \* the finished runs and the state of the cores at their end
    launchStart, launchEnd,     \* the interval of the last measured launch
    signals,
    \* of the sampler, see PowerSampler
    samplerPc, samplerStatus, sampleIndex, finalSample, timestamp, stopRequested, readings,
    stopFile, readyFile, durationOver, epoch

S == INSTANCE PowerSampler WITH usesStopFile <- TRUE, signalled <- FALSE

controlVars == <<printk, printkSaved>>
cpuVars     == <<cpu, changes>>
verdictVars == <<STATUS, CLASSIFICATION, report>>
checkVars   == <<verified, correct, kernelBad>>
runVars     == <<runs, launchStart, launchEnd>>
loopVars    == <<finalSample, timestamp>>
fileVars    == <<stopFile, readyFile>>
outputVars  == <<sampleIndex, readings>>
samplerVars == <<samplerPc, samplerStatus, loopVars, outputVars, stopRequested, fileVars,
                 durationOver>>
powerVars   == <<SAMPLER_PID, attempts>>
vars == <<pc, restoring, controlVars, cpuVars, verdictVars, checkVars, runVars, powerVars,
          signals, samplerVars, epoch>>

PassClassification == "correctness-qualified-performance-pass"

Init ==
    /\ pc = "checks" /\ restoring = "no"
    /\ STATUS = 1 /\ CLASSIFICATION = "not-run" /\ report = <<>>
    /\ SAMPLER_PID = FALSE /\ attempts = 0
    /\ printk = "original" /\ printkSaved = "no"
    /\ cpu \in CpuStates /\ changes = 0
    /\ verified = <<>> /\ correct = {}
    /\ kernelBad \in BOOLEAN    \* DMESG_LINES is 0: the log since boot
    /\ runs = <<>> /\ launchStart = 0 /\ launchEnd = 0
    /\ signals = 0
    /\ S!SamplerInit /\ epoch = 0

At(label) == pc = label /\ restoring = "no"

\* CLASSIFICATION=...; finish, which first restores the environment.
Conclude(status, classification) ==
    /\ STATUS' = status /\ CLASSIFICATION' = classification
    /\ pc' = "finish" /\ restoring' = "sampler"
    /\ UNCHANGED report

Fails(classification) == Conclude(STATUS, classification)

Proceed(label) == pc' = label /\ UNCHANGED <<restoring, verdictVars>>

\* An external program may write to the kernel log what finish will look for.
KernelLogGrows == kernelBad' \in {kernelBad, TRUE}

-----------------------------------------------------------------------------
(* Before the runs.                                                        *)

CheckPrerequisites ==
    /\ At("checks")
    /\ \/ Fails("boot-id-unavailable") \/ Fails("payload-verification-failure")
       \/ Proceed("quiet")
    /\ UNCHANGED <<controlVars, cpuVars, checkVars, runVars, powerVars, signals, samplerVars, epoch>>

\* DMESG_LINES is noted, the console level saved and then changed.
QuietConsole ==
    /\ At("quiet") /\ Proceed("verify")
    /\ kernelBad' = FALSE
    /\ printkSaved' \in {"yes", "refused"} /\ printk' = "quiet"
    /\ UNCHANGED <<cpuVars, verified, correct, runVars, powerVars, signals, samplerVars, epoch>>

\* verify_cpu_state: an acceptable state, after the runs the same as before.
AcceptsNominal == cpu \in Acceptable
AcceptsCpu == cpu \in Acceptable /\ (verified # <<>> => cpu = verified[1])

VerifyBefore ==
    /\ At("verify")
    /\ IF AcceptsCpu THEN verified' = <<cpu>> /\ Proceed("correctness")
       ELSE Fails("cpu-frequency-policy-invalid") /\ UNCHANGED verified
    /\ UNCHANGED <<controlVars, cpuVars, correct, kernelBad, runVars, powerVars, signals, samplerVars, epoch>>

RunCorrectness(phase, next, classification) ==
    /\ KernelLogGrows
    /\ \/ Fails(classification) /\ UNCHANGED correct
       \/ Proceed(next) /\ correct' = correct \cup {phase}
    /\ UNCHANGED <<controlVars, cpuVars, verified, runVars, powerVars, signals, samplerVars, epoch>>

CorrectnessBefore ==
    At("correctness") /\ RunCorrectness("before", "runs", "correctness-precheck-failure")

-----------------------------------------------------------------------------
(* The measured runs.                                                      *)

Regime == Plan[Len(runs) + 1]
RunFailure == [cold |-> "cold-run-failure", warm |-> "warm-run-failure", steady |-> "steady-run-failure"]
Sampled(regime) == regime = "steady" /\ PowerSample

NextRun ==
    /\ At("runs") /\ Len(runs) < Len(Plan)
    /\ \/ Regime = "cold" /\ Fails(RunFailure[Regime])
       \/ Proceed(IF Sampled(Regime) THEN "prepare" ELSE "launch")
    /\ UNCHANGED <<controlVars, cpuVars, checkVars, runVars, powerVars, signals, samplerVars, epoch>>

\* prepare_power is the left side of ||, where set -e has no effect, and its
\* last command succeeds: a failed discovery or idle trace is not noticed.
PreparePower ==
    /\ At("prepare") /\ Proceed("start")
    /\ UNCHANGED <<controlVars, cpuVars, checkVars, runVars, powerVars, signals, samplerVars, epoch>>

StartSampler ==
    /\ At("start") /\ Proceed("await")
    /\ SAMPLER_PID' = TRUE /\ samplerPc' = "setup"
    /\ UNCHANGED <<attempts, controlVars, cpuVars, checkVars, runVars, signals, epoch,
                   samplerStatus, loopVars, outputVars, stopRequested, fileVars, durationOver>>

SeesReady == readyFile

ForgetsSampler == SAMPLER_PID' = FALSE
KeepsSampler == UNCHANGED SAMPLER_PID

MayTryAgain == attempts + 1 < MaxAttempts

\* kill -0 fails for a sampler the shell has reaped, or forgot in a handler.
AwaitReady ==
    /\ At("await")
    /\ \/ /\ SeesReady /\ Proceed("launch") /\ UNCHANGED powerVars
       \/ /\ ~SeesReady /\ (samplerPc = "exited" \/ ~SAMPLER_PID)
          /\ Fails("power-sampler-start-failure") /\ UNCHANGED powerVars
       \/ /\ ~SeesReady /\ SAMPLER_PID
          /\ attempts' = attempts + 1
          /\ IF MayTryAgain
             THEN Proceed("await") /\ UNCHANGED SAMPLER_PID
             ELSE Fails("power-sampler-start-failure") /\ KeepsSampler
    /\ UNCHANGED <<controlVars, cpuVars, checkVars, runVars, signals, samplerVars, epoch>>

Launch ==
    /\ At("launch") /\ Proceed("launched")
    /\ epoch' = epoch + 1 /\ launchStart' = epoch + 1
    /\ UNCHANGED <<runs, launchEnd, controlVars, cpuVars, checkVars, powerVars, signals, samplerVars>>

\* run_perf: good is a zero status of the launcher and all samples in its CSV.
FinishRun ==
    /\ At("launched")
    /\ epoch' = epoch + 1 /\ launchEnd' = epoch + 1
    /\ KernelLogGrows
    /\ \E good \in BOOLEAN :
        /\ runs' = Append(runs, [good |-> good, cpu |-> cpu])
        /\ IF Sampled(Regime) THEN Proceed("stop")
           ELSE IF good THEN Proceed("runs")
           ELSE Fails(RunFailure[Regime])
    /\ UNCHANGED <<launchStart, verified, correct, controlVars, cpuVars, powerVars, signals, samplerVars>>

\* stop_power, for a good run and for a failed one.
StopSampler ==
    /\ At("stop") /\ Proceed("stopWait")
    /\ stopFile' = TRUE
    /\ UNCHANGED <<controlVars, cpuVars, checkVars, runVars, powerVars, signals, epoch, samplerPc,
                   samplerStatus, loopVars, outputVars, stopRequested, readyFile, durationOver>>

\* stop_power always returns 0: the status of wait is followed, under !, by an
\* assignment.  wait is cut short by a signal.
WaitForSampler ==
    /\ At("stopWait")
    /\ samplerPc = "exited" \/ ~SAMPLER_PID
    /\ SAMPLER_PID' = FALSE
    /\ IF runs[Len(runs)].good THEN Proceed("runs") ELSE Fails(RunFailure["steady"])
    /\ UNCHANGED <<attempts, controlVars, cpuVars, checkVars, runVars, signals, samplerVars, epoch>>

-----------------------------------------------------------------------------
(* After the runs.                                                         *)

CorrectnessAfter ==
    /\ At("runs") /\ Len(runs) = Len(Plan)
    /\ RunCorrectness("after", "verifyAfter", "correctness-postcheck-failure")

VerifyAfter ==
    /\ At("verifyAfter")
    /\ IF AcceptsCpu THEN verified' = Append(verified, cpu) /\ Conclude(0, PassClassification)
       ELSE Fails("cpu-frequency-policy-changed") /\ UNCHANGED verified
    /\ UNCHANGED <<controlVars, cpuVars, correct, kernelBad, runVars, powerVars, signals, samplerVars, epoch>>

-----------------------------------------------------------------------------
(* restore_environment, finish and the ways out.                           *)

EndsSampler == stopFile' = TRUE /\ S!SignalSampler

RestoreSampler ==
    /\ restoring = "sampler"
    /\ IF SAMPLER_PID THEN restoring' = "wait" /\ EndsSampler
       ELSE restoring' = "settings" /\ UNCHANGED samplerVars
    /\ UNCHANGED <<pc, verdictVars, controlVars, cpuVars, checkVars, runVars, powerVars, signals, epoch>>

RestoreWait ==
    /\ restoring = "wait" /\ samplerPc = "exited"
    /\ restoring' = "settings" /\ SAMPLER_PID' = FALSE
    /\ UNCHANGED <<pc, attempts, verdictVars, controlVars, cpuVars, checkVars, runVars, signals,
                   samplerVars, epoch>>

RestoreSettings ==
    /\ restoring = "settings" /\ restoring' = "no"
    /\ printk' = IF printkSaved = "yes" THEN "original" ELSE printk
    /\ pc' = CASE pc = "finish" -> "report" [] pc = "exit" -> "exited" [] OTHER -> pc
    /\ UNCHANGED <<printkSaved, verdictVars, cpuVars, checkVars, runVars, powerVars, signals, samplerVars, epoch>>

Leave == pc' = "exit" /\ restoring' = "sampler"

KeepsStatus == STATUS
FinalStatus == IF kernelBad THEN 1 ELSE STATUS

\* A bad pattern in the kernel log overrides every other verdict.
Report ==
    /\ At("report") /\ Leave
    /\ STATUS' = FinalStatus
    /\ CLASSIFICATION' = IF kernelBad THEN "kernel-log-failure" ELSE CLASSIFICATION
    /\ report' = <<STATUS', CLASSIFICATION'>>
    /\ UNCHANGED <<controlVars, cpuVars, checkVars, runVars, powerVars, signals, samplerVars, epoch>>

\* set -e: a command that fails where nothing tests it ends the script.
Abort ==
    /\ restoring = "no" /\ pc \in {"checks", "quiet", "verify", "runs", "verifyAfter", "report"}
    /\ Leave
    /\ UNCHANGED <<verdictVars, controlVars, cpuVars, checkVars, runVars, powerVars, signals, samplerVars, epoch>>

\* HUP, INT or TERM for the script: restore_environment, then on with it.
Trap ==
    /\ restoring = "no" /\ pc \notin {"launched", "exited"}
    /\ signals < MaxSignals /\ signals' = signals + 1
    /\ restoring' = "sampler"
    /\ UNCHANGED <<pc, verdictVars, controlVars, cpuVars, checkVars, runVars, powerVars, samplerVars, epoch>>

Script ==
    \/ CheckPrerequisites \/ QuietConsole \/ VerifyBefore \/ CorrectnessBefore
    \/ NextRun \/ PreparePower \/ StartSampler \/ AwaitReady \/ Launch \/ FinishRun
    \/ StopSampler \/ WaitForSampler \/ CorrectnessAfter \/ VerifyAfter
    \/ RestoreSampler \/ RestoreWait \/ RestoreSettings \/ Report

Sampler ==
    /\ S!Sampler
    /\ UNCHANGED <<pc, restoring, controlVars, cpuVars, verdictVars, checkVars, runVars, powerVars,
                   signals, epoch>>

\* Somebody else sets a governor or a frequency.
CpuChanges ==
    /\ pc # "exited" /\ changes < MaxChanges /\ changes' = changes + 1
    /\ cpu' \in CpuStates \ {cpu}
    /\ UNCHANGED <<pc, restoring, controlVars, verdictVars, checkVars, runVars, powerVars, signals,
                   samplerVars, epoch>>

Exited == pc = "exited" /\ UNCHANGED vars

Next == Script \/ Abort \/ Trap \/ Sampler \/ CpuChanges \/ Exited

Spec == Init /\ [][Next]_vars

-----------------------------------------------------------------------------
Passed == report # <<>> /\ report[2] = PassClassification
SteadyWithPower == PowerSample /\ "steady" \in {Plan[k] : k \in DOMAIN Plan}

\* However the script ends, by a verdict, by set -e or around signals, the
\* console level is the original one, unless the kernel refused to give or to
\* take it back, and no sampler of it runs.
RestoredAtExit ==
    pc = "exited" => (printkSaved # "refused" => printk = "original") /\ samplerPc \in {"absent", "exited"}

\* The archive says status 0 exactly for the passing verdict, which both
\* correctness runs, every run of the plan and the kernel log have earned.
VerdictIsEarned ==
    report # <<>> =>
        /\ report[1] = 0 <=> Passed
        /\ Passed =>
            /\ correct = {"before", "after"}
            /\ Len(runs) = Len(Plan) /\ \A k \in DOMAIN runs : runs[k].good
            /\ ~kernelBad

\* Two looks at the cores are enough for one change: if their state changed at
\* most once since the boot of the script, all passing runs saw the same one.
FrequencyWasHeld ==
    Passed /\ changes <= 1 =>
        \A k \in DOMAIN runs : runs[k].cpu = verified[1] /\ runs[k].cpu \in Acceptable

\* A passing verdict with power has a trace that brackets the launch.
PowerBracketsLaunch ==
    Passed /\ SteadyWithPower =>
        /\ samplerStatus = 0
        /\ readings[1].at < launchStart /\ readings[Len(readings)].at >= launchEnd
=============================================================================
