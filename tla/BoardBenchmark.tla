--------------------------- MODULE BoardBenchmark ---------------------------
(***************************************************************************)
(* nvdla-board-benchmark: the script that takes control of the console and *)
(* the CPU governors, runs the planned measurements one after the other,   *)
(* brackets the steady one with power samples, and reports one verdict.    *)
(* It runs beside the power sampler it started; signals may interrupt it.  *)
(*                                                                         *)
(* A trap handler runs between two commands and the script then goes on:   *)
(* restoring says which part of restore_environment runs now, on behalf of *)
(* finish, of the exit or of a signal.  While the launcher runs, in the    *)
(* foreground, a trap is put off until it has ended.                       *)
(***************************************************************************)
EXTENDS Integers, Sequences

CONSTANTS
    Plan,           \* the regimes of the runs, "steady" at most once and last
    PowerSample,    \* --power
    InputSet,       \* "single", "multi20" or "stream20"
    MaxAttempts,    \* polls of the ready file: 200 in the script
    MaxSignals,     \* bound: signals the script receives
    Rails, MaxSamples

ASSUME BenchmarkAssumption ==
    /\ Plan \in Seq({"cold", "warm", "steady"})
    /\ \A k \in DOMAIN Plan : Plan[k] = "steady" => k = Len(Plan)
    /\ {PowerSample} \subseteq BOOLEAN /\ InputSet \in {"single", "multi20", "stream20"}
    /\ MaxAttempts \in Nat \ {0} /\ MaxSignals \in Nat

VARIABLES
    pc, restoring,
    STATUS, CLASSIFICATION,
    report,             \* what finish archived, once it did
    SAMPLER_PID,        \* TRUE while the script knows a sampler process
    ready_attempt, runFailed,
    printk, governors,  \* "original", or as the script wants them: a core that has no
                        \* performance governor keeps its own
    printkSaved, governorsSaved,    \* "no", "yes", or "refused" by the kernel
    check, clockVerified,
    kernelBad,          \* the kernel log since DMESG_LINES has a bad pattern
    runs,               \* the finished runs and the conditions they ran under
    launchStart, launchEnd,     \* the interval of the last launch
    signals,
    \* of the sampler, see PowerSampler
    samplerPc, samplerStatus, sampleIndex, finalSample, timestamp, stopRequested, readings,
    stopFile, readyFile, durationOver, epoch

S == INSTANCE PowerSampler WITH usesStopFile <- TRUE, signalled <- FALSE

controlVars == <<printk, governors, printkSaved, governorsSaved>>
verdictVars == <<STATUS, CLASSIFICATION, report>>
checkVars   == <<check, clockVerified>>
runVars     == <<runs, launchStart, launchEnd, kernelBad>>
loopVars    == <<finalSample, timestamp>>
fileVars    == <<stopFile, readyFile>>
outputVars  == <<sampleIndex, readings>>
samplerVars == <<samplerPc, samplerStatus, loopVars, outputVars, stopRequested, fileVars,
                 durationOver>>
powerVars   == <<SAMPLER_PID, ready_attempt, runFailed>>
vars == <<pc, restoring, controlVars, verdictVars, checkVars, runVars, powerVars, signals,
          samplerVars, epoch>>

Prerequisites == <<"boot-id-unavailable", "payload-verification-failure",
                   "payload-clock-metadata-failure", "module-load-failure", "render-node-failure">>
ModuleLoad == 4     \* the check before which the script notes DMESG_LINES

PassClassification ==
    CASE InputSet = "multi20" -> "output-stable-input-variation-pass"
      [] InputSet = "stream20" -> "stream-pipeline-pass"
      [] OTHER -> "exact-performance-pass"

Init ==
    /\ pc = "checks" /\ restoring = "no"
    /\ STATUS = 0 /\ CLASSIFICATION = "not-run" /\ report = <<>>
    /\ SAMPLER_PID = FALSE /\ ready_attempt = 0 /\ runFailed = FALSE
    /\ printk = "original" /\ governors = "original"
    /\ printkSaved = "no" /\ governorsSaved = "no"
    /\ check = 1 /\ clockVerified = FALSE
    /\ kernelBad \in BOOLEAN    \* DMESG_LINES is 0: the log since boot
    /\ runs = <<>> /\ launchStart = 0 /\ launchEnd = 0
    /\ signals = 0
    /\ S!SamplerInit /\ epoch = 0

At(label) == pc = label /\ restoring = "no"

\* STATUS=1; CLASSIFICATION=...; finish, which first restores the environment.
Conclude(status, classification) ==
    /\ STATUS' = status /\ CLASSIFICATION' = classification
    /\ pc' = "finish" /\ restoring' = "sampler"
    /\ UNCHANGED report

Proceed(label) == pc' = label /\ UNCHANGED <<restoring, verdictVars>>

-----------------------------------------------------------------------------
(* Before the runs.                                                        *)

\* The log noted before the module is loaded does not count; what the load
\* writes to it does.
NotesLog == check + 1 = ModuleLoad
CheckPrerequisite ==
    /\ At("checks")
    /\ \/ Conclude(1, Prerequisites[check]) /\ UNCHANGED <<check, kernelBad>>
       \/ /\ check < Len(Prerequisites) /\ check' = check + 1 /\ Proceed("checks")
          /\ kernelBad' = (kernelBad /\ ~NotesLog)
       \/ /\ check = Len(Prerequisites) /\ UNCHANGED check /\ Proceed("quiet")
          /\ kernelBad' \in {kernelBad, TRUE}
    /\ UNCHANGED <<clockVerified, runs, launchStart, launchEnd, controlVars, powerVars, signals,
                   samplerVars, epoch>>

\* What cannot be read, or not be written back later, is not restored; neither
\* ends the script.
Refusable == {"yes", "refused"}
QuietConsole ==
    /\ At("quiet") /\ Proceed("govern")
    /\ printkSaved' \in Refusable /\ printk' = "quiet"
    /\ UNCHANGED <<governors, governorsSaved, checkVars, runVars, powerVars, signals,
                   samplerVars, epoch>>

SetGovernors ==
    /\ At("govern") /\ Proceed("clock")
    /\ governorsSaved' \in Refusable /\ governors' = "performance"
    /\ UNCHANGED <<printk, printkSaved, checkVars, runVars, powerVars, signals, samplerVars, epoch>>

VerifyClock ==
    /\ At("clock")
    /\ \/ clockVerified' = TRUE /\ Proceed("runs")
       \/ Conclude(1, "nvdla-clock-unverified") /\ UNCHANGED clockVerified
    /\ UNCHANGED <<check, controlVars, runVars, powerVars, signals, samplerVars, epoch>>

-----------------------------------------------------------------------------
(* The runs.                                                               *)

Regime == Plan[Len(runs) + 1]
RunFailure == [cold |-> "cold-run-failure", warm |-> "warm-run-failure", steady |-> "steady-run-failure"]
Sampled(regime) == regime = "steady" /\ PowerSample

NextRun ==
    /\ At("runs") /\ Len(runs) < Len(Plan)
    /\ \/ Regime = "cold" /\ Conclude(1, "page-cache-drop-failure")
       \/ Proceed(IF Sampled(Regime) THEN "prepare" ELSE "launch")
    /\ UNCHANGED <<controlVars, checkVars, runVars, powerVars, signals, samplerVars, epoch>>

AllRunsDone ==
    /\ At("runs") /\ Len(runs) = Len(Plan)
    /\ Conclude(0, PassClassification)
    /\ UNCHANGED <<controlVars, checkVars, runVars, powerVars, signals, samplerVars, epoch>>

\* --list, then the idle trace, each by a sampler of its own.
PreparePowerSampling ==
    /\ At("prepare")
    /\ \/ Conclude(1, "power-sensor-discovery-failure")
       \/ Conclude(1, "power-idle-sampling-failure")
       \/ Proceed("start")
    /\ UNCHANGED <<controlVars, checkVars, runVars, powerVars, signals, samplerVars, epoch>>

StartSampler ==
    /\ At("start") /\ Proceed("await")
    /\ SAMPLER_PID' = TRUE /\ samplerPc' = "setup"
    /\ UNCHANGED <<ready_attempt, runFailed, controlVars, checkVars, runVars, signals, epoch,
                   samplerStatus, loopVars, outputVars, stopRequested, fileVars, durationOver>>

NoWaitForReady == TRUE
SeesReady == readyFile

ForgetsSampler == SAMPLER_PID' = FALSE
KeepsSampler == UNCHANGED SAMPLER_PID

MayTryAgain == ready_attempt + 1 < MaxAttempts

\* kill -0 fails for a sampler the shell has reaped; until then it counts as
\* alive.  A sampler that is given up stays known, for restore_environment.
AwaitReady ==
    /\ At("await")
    /\ \/ /\ SeesReady /\ Proceed("launch")
          /\ UNCHANGED powerVars
       \/ /\ ~SeesReady /\ (samplerPc = "exited" \/ ~SAMPLER_PID)
          /\ SAMPLER_PID' = FALSE
          /\ Conclude(1, "power-active-sampler-start-failure")
          /\ UNCHANGED <<ready_attempt, runFailed>>
       \/ /\ ~SeesReady /\ SAMPLER_PID
          /\ ready_attempt' = ready_attempt + 1
          /\ IF MayTryAgain
             THEN Proceed("await") /\ UNCHANGED SAMPLER_PID
             ELSE Conclude(1, "power-active-sampler-start-failure") /\ KeepsSampler
          /\ UNCHANGED runFailed
    /\ UNCHANGED <<controlVars, checkVars, runVars, signals, samplerVars, epoch>>

Launch ==
    /\ At("launch") /\ Proceed("launched")
    /\ epoch' = epoch + 1 /\ launchStart' = epoch + 1
    /\ UNCHANGED <<runs, launchEnd, kernelBad, controlVars, checkVars, powerVars, signals,
                   samplerVars>>

\* run_profile: the launcher ends, by itself or at its timeout; good is a zero
\* status and verified outputs.  The count of interrupts is noted, not judged.
FinishRun ==
    /\ At("launched")
    /\ epoch' = epoch + 1 /\ launchEnd' = epoch + 1
    /\ kernelBad' \in {kernelBad, TRUE}
    /\ \E good \in BOOLEAN :
        /\ runs' = Append(runs, [good |-> good, printk |-> printk, governors |-> governors])
        /\ runFailed' = ~good
        /\ IF Sampled(Regime) THEN Proceed("stop")
           ELSE IF good THEN Proceed("runs")
           ELSE Conclude(1, RunFailure[Regime])
    /\ UNCHANGED <<launchStart, SAMPLER_PID, ready_attempt, controlVars, checkVars, signals,
                   samplerVars>>

\* stop_power_sampling, for a good run and for a failed one.
StopSampler ==
    /\ At("stop") /\ Proceed("stopWait")
    /\ stopFile' = TRUE
    /\ UNCHANGED <<controlVars, checkVars, runVars, powerVars, signals, epoch, samplerPc,
                   samplerStatus, loopVars, outputVars, stopRequested, readyFile, durationOver>>

\* wait fails at once for a sampler the script no longer knows, and is cut
\* short by a signal, whose handler makes the script forget it.
WaitForSampler ==
    /\ At("stopWait")
    /\ samplerPc = "exited" \/ ~SAMPLER_PID
    /\ SAMPLER_PID' = FALSE
    /\ IF runFailed THEN Conclude(1, RunFailure["steady"])
       ELSE IF SAMPLER_PID /\ samplerStatus = 0 THEN Proceed("runs")
       ELSE Conclude(1, "power-active-sampling-failure")
    /\ UNCHANGED <<ready_attempt, runFailed, controlVars, checkVars, runVars, signals,
                   samplerVars, epoch>>

-----------------------------------------------------------------------------
(* restore_environment, finish and the ways out.                           *)

LeavesSampler == UNCHANGED samplerVars
EndsSampler == stopFile' = TRUE /\ S!SignalSampler

RestoreSampler ==
    /\ restoring = "sampler"
    /\ IF SAMPLER_PID THEN restoring' = "wait" /\ EndsSampler
       ELSE restoring' = "settings" /\ UNCHANGED samplerVars
    /\ UNCHANGED <<pc, verdictVars, controlVars, checkVars, runVars, powerVars, signals, epoch>>

RestoreWait ==
    /\ restoring = "wait" /\ samplerPc = "exited"
    /\ restoring' = "settings" /\ SAMPLER_PID' = FALSE
    /\ UNCHANGED <<pc, ready_attempt, runFailed, verdictVars, controlVars, checkVars, runVars,
                   signals, samplerVars, epoch>>

Restored(setting, saved) == IF saved = "yes" THEN "original" ELSE setting

RestoreSettings ==
    /\ restoring = "settings" /\ restoring' = "no"
    /\ printk' = Restored(printk, printkSaved)
    /\ governors' = Restored(governors, governorsSaved)
    /\ pc' = CASE pc = "finish" -> "report" [] pc = "exit" -> "exited" [] OTHER -> pc
    /\ UNCHANGED <<printkSaved, governorsSaved, verdictVars, checkVars, runVars, powerVars, signals,
                   samplerVars, epoch>>

Leave == pc' = "exit" /\ restoring' = "sampler"

KeepsStatus == STATUS
FinalStatus == IF kernelBad THEN 1 ELSE STATUS

\* A bad pattern in the kernel log overrides every other verdict.
Report ==
    /\ At("report") /\ Leave
    /\ STATUS' = FinalStatus
    /\ CLASSIFICATION' = IF kernelBad THEN "kernel-log-failure" ELSE CLASSIFICATION
    /\ report' = <<STATUS', CLASSIFICATION'>>
    /\ UNCHANGED <<controlVars, checkVars, runVars, powerVars, signals, samplerVars, epoch>>

\* set -e: a command that fails where nothing tests it ends the script.
Abort ==
    /\ restoring = "no"
    /\ pc \in {"checks", "quiet", "govern", "clock", "runs", "prepare", "report"}
    /\ Leave
    /\ UNCHANGED <<verdictVars, controlVars, checkVars, runVars, powerVars, signals, samplerVars, epoch>>

\* HUP, INT or TERM for the script: restore_environment, then on with it.
Trap ==
    /\ restoring = "no" /\ pc \notin {"launched", "exited"}
    /\ signals < MaxSignals /\ signals' = signals + 1
    /\ restoring' = "sampler"
    /\ UNCHANGED <<pc, verdictVars, controlVars, checkVars, runVars, powerVars, samplerVars, epoch>>

Script ==
    \/ CheckPrerequisite \/ QuietConsole \/ SetGovernors \/ VerifyClock
    \/ NextRun \/ AllRunsDone \/ PreparePowerSampling \/ StartSampler \/ AwaitReady
    \/ Launch \/ FinishRun \/ StopSampler \/ WaitForSampler
    \/ RestoreSampler \/ RestoreWait \/ RestoreSettings \/ Report

Sampler ==
    /\ S!Sampler
    /\ UNCHANGED <<pc, restoring, controlVars, verdictVars, checkVars, runVars, powerVars, signals, epoch>>

Exited == pc = "exited" /\ UNCHANGED vars

Next == Script \/ Abort \/ Trap \/ Sampler \/ Exited

Spec == Init /\ [][Next]_vars

\* Both processes are scheduled; the launcher ends at its timeout at last.
FairSpec == Spec /\ WF_vars(Script) /\ WF_vars(Sampler)

-----------------------------------------------------------------------------

Passed == report # <<>> /\ report[2] = PassClassification

\* However the script ends, by a verdict, by set -e or around signals, the
\* console level and the governors are the original ones, unless the kernel
\* refused to give or to take them back, and no sampler runs.
RestoredAtExit ==
    pc = "exited" =>
        /\ printkSaved # "refused" => printk = "original"
        /\ governorsSaved # "refused" => governors = "original"
        /\ samplerPc \in {"absent", "exited"}

\* A passing verdict with power has a trace of whole samples that encloses
\* the launch: stamped before it began and after it had ended.
PowerBracketsLaunch ==
    Passed /\ PowerSample /\ "steady" \in {Plan[k] : k \in DOMAIN Plan} =>
        /\ readings # <<>>
        /\ \A k \in DOMAIN readings : readings[k].rails = Rails
        /\ readings[1].at < launchStart
        /\ readings[Len(readings)].at >= launchEnd

\* The archive says status 0 exactly for the passing verdict, which every run
\* of the plan, the clock and the kernel log have earned.
VerdictIsEarned ==
    report # <<>> =>
        /\ report[1] = 0 <=> Passed
        /\ Passed =>
            /\ Len(runs) = Len(Plan) /\ \A k \in DOMAIN runs : runs[k].good
            /\ clockVerified /\ ~kernelBad

\* Whatever fails and whoever is signalled, the script comes to its end: no
\* wait for a sampler is for ever.
AlwaysEnds == <>(pc = "exited")

\* The runs of a passing verdict were made with the performance governor and
\* the quiet console that the methodology promises.
PassedUnderControl ==
    Passed => \A k \in DOMAIN runs : runs[k].governors = "performance" /\ runs[k].printk = "quiet"
=============================================================================
