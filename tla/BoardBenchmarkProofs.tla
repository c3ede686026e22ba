------------------------- MODULE BoardBenchmarkProofs -------------------------
(***************************************************************************)
(* Proofs about nvdla-board-benchmark, for every plan of runs, any number  *)
(* of polls, rails and signals.                                            *)
(***************************************************************************)
EXTENDS BoardBenchmark, TLAPS

BeforeRuns == {"checks", "quiet", "govern", "clock"}
InRuns == {"runs", "prepare", "start", "await", "launch", "launched"}
AfterRun == {"stop", "stopWait"}

-----------------------------------------------------------------------------
(* The environment.  What was changed was saved before; a sampler that     *)
(* runs is known, and the restoration waits for it before it goes on.      *)

Ended == samplerPc \in {"absent", "exited"}

Restorable ==
    /\ pc \in BeforeRuns \cup InRuns \cup AfterRun \cup {"finish", "report", "exit", "exited"}
    /\ restoring \in {"no", "sampler", "wait", "settings"}
    /\ pc \in {"finish", "exit"} => restoring # "no"
    /\ SAMPLER_PID \in BOOLEAN /\ {printkSaved, governorsSaved} \subseteq {"no", "yes", "refused"}
    /\ printkSaved = "no" => printk = "original"
    /\ governorsSaved = "no" => governors = "original"
    /\ ~Ended => SAMPLER_PID
    /\ restoring = "settings" => ~SAMPLER_PID
    /\ pc = "exited" =>
         /\ restoring = "no" /\ ~SAMPLER_PID
         /\ printkSaved # "refused" => printk = "original"
         /\ governorsSaved # "refused" => governors = "original"

LEMMA RestorableInit == Init => Restorable
  BY DEF Init, S!SamplerInit, Restorable, Ended, BeforeRuns

LEMMA RestorableStep == ASSUME Restorable, [Next]_vars PROVE Restorable'
  <1> USE DEF Restorable, Ended, BeforeRuns, InRuns, AfterRun, At, Proceed, Conclude, Leave,
          controlVars, verdictVars, checkVars, runVars, powerVars, samplerVars
  <1>1. CASE CheckPrerequisite \/ NextRun \/ AllRunsDone \/ PreparePowerSampling
    BY <1>1 DEF CheckPrerequisite, NextRun, AllRunsDone, PreparePowerSampling
  <1>2. CASE QuietConsole \/ SetGovernors \/ VerifyClock
    BY <1>2 DEF QuietConsole, SetGovernors, VerifyClock, Refusable
  <1>3. CASE StartSampler \/ AwaitReady
    BY <1>3 DEF StartSampler, AwaitReady, SeesReady, KeepsSampler
  <1>4. CASE Launch \/ StopSampler \/ WaitForSampler
    BY <1>4 DEF Launch, StopSampler, WaitForSampler
  <1>5. CASE FinishRun
    <2>1. pc = "launched" /\ restoring = "no" /\ pc' \in {"stop", "runs", "finish"}
          /\ restoring' \in {"no", "sampler"} /\ (pc' = "finish" => restoring' = "sampler")
          /\ UNCHANGED <<SAMPLER_PID, controlVars, samplerVars>>
      BY <1>5 DEF FinishRun
    <2> QED
      BY <2>1
  <1>6. CASE RestoreWait
    BY <1>6 DEF RestoreWait
  <1>11. CASE RestoreSampler
    <2>1. /\ restoring = "sampler" /\ samplerPc' \in {samplerPc, "exited"}
          /\ restoring' = (IF SAMPLER_PID THEN "wait" ELSE "settings")
          /\ UNCHANGED <<pc, SAMPLER_PID, controlVars>>
      BY <1>11 DEF RestoreSampler, EndsSampler, S!SignalSampler, S!Exits
    <2> QED
      BY <2>1
  <1>7. CASE RestoreSettings
    BY <1>7 DEF RestoreSettings, Restored
  <1>8. CASE Report \/ Abort \/ Trap
    BY <1>8 DEF Report, Abort, Trap
  <1>9. CASE Sampler
    BY <1>9 DEF Sampler, S!Sampler, S!SetUp, S!LoopHead, S!Stamp, S!ReadRails, S!Publish, S!Sleep
  <1>10. CASE UNCHANGED vars
    BY <1>10 DEF vars
  <1> QED
    BY <1>1, <1>2, <1>3, <1>4, <1>5, <1>6, <1>7, <1>8, <1>9, <1>10, <1>11 DEF Next, Script, Exited

\* However the script ends, by a verdict, by set -e or around any number of
\* signals, it leaves no sampler behind, and the console and the governors as
\* it found them, but for what the kernel refused to give or to take back.
THEOREM EnvironmentIsRestored == Spec => []RestoredAtExit
  <1>1. Restorable => RestoredAtExit
    BY DEF Restorable, Ended, RestoredAtExit
  <1> QED
    BY <1>1, RestorableInit, RestorableStep, PTL DEF Spec

-----------------------------------------------------------------------------
(* The verdict.                                                            *)

Run == [good : BOOLEAN, printk : {"original", "quiet"}, governors : {"original", "performance"}]
AllGood == \A k \in 1 .. Len(runs) : runs[k].good
Earned == Len(runs) = Len(Plan) /\ AllGood /\ clockVerified

\* A run that was not good is the last one, and runFailed or the verdict says
\* so; nothing passes before the last run of the plan.
Judged ==
    /\ printk \in {"original", "quiet"} /\ governors \in {"original", "performance"}
    /\ runs \in Seq(Run) /\ Len(runs) <= Len(Plan)
    /\ check \in 1 .. Len(Prerequisites) /\ kernelBad \in BOOLEAN /\ STATUS \in {0, 1}
    /\ pc \in InRuns \cup AfterRun => clockVerified
    /\ pc \in BeforeRuns => runs = <<>>
    /\ pc \in {"prepare", "start", "await", "launch", "launched"} => Len(runs) < Len(Plan)
    /\ pc \in InRuns => AllGood
    /\ pc \in AfterRun /\ ~runFailed => AllGood
    /\ pc \in {"finish", "report"} =>
         (STATUS = 0 <=> CLASSIFICATION = PassClassification) /\ (STATUS = 0 => Earned)
    /\ report # <<>> =>
         /\ pc \in {"exit", "exited"}
         /\ report[1] = 0 <=> Passed
         /\ Passed => Earned /\ ~kernelBad

\* No failure has the name of the pass.
LEMMA FailuresAreNamed ==
    /\ \A k \in 1 .. Len(Prerequisites) : Prerequisites[k] # PassClassification
    /\ \A regime \in {"cold", "warm", "steady"} : RunFailure[regime] # PassClassification
    /\ PassClassification \notin
         {"kernel-log-failure", "nvdla-clock-unverified", "page-cache-drop-failure", "power-sensor-discovery-failure",
          "power-idle-sampling-failure", "power-active-sampler-start-failure", "power-active-sampling-failure"}
  <1>1. PassClassification \in {"output-stable-input-variation-pass", "stream-pipeline-pass", "exact-performance-pass"}
    BY DEF PassClassification
  <1>2. ASSUME NEW k \in 1 .. Len(Prerequisites) PROVE Prerequisites[k] # PassClassification
    <2>1. k \in 1 .. 5
      BY DEF Prerequisites
    <2>2. \/ Prerequisites[k] = "boot-id-unavailable" \/ Prerequisites[k] = "payload-verification-failure"
          \/ Prerequisites[k] = "payload-clock-metadata-failure" \/ Prerequisites[k] = "module-load-failure"
          \/ Prerequisites[k] = "render-node-failure"
      BY <2>1 DEF Prerequisites
    <2> QED
      BY <1>1, <2>2
  <1>3. \A regime \in {"cold", "warm", "steady"} :
          RunFailure[regime] \in {"cold-run-failure", "warm-run-failure", "steady-run-failure"}
    BY DEF RunFailure
  <1> QED
    BY <1>1, <1>2, <1>3

LEMMA JudgedInit == Init => Judged
  <1> SUFFICES ASSUME Init PROVE Judged
    OBVIOUS
  <1>1. runs = <<>> /\ runs \in Seq(Run) /\ Len(runs) = 0 /\ Len(Plan) \in Nat
    BY BenchmarkAssumption DEF Init
  <1>2. 1 \in 1 .. Len(Prerequisites)
    BY DEF Prerequisites
  <1> QED
    BY <1>1, <1>2 DEF Init, Judged, InRuns, AfterRun, BeforeRuns

\* The verdict of a run: a good one leads on, another one to its failure.
LEMMA FinishRunJudged == ASSUME Judged, FinishRun PROVE Judged'
  <1>a. /\ pc = "launched" /\ Len(runs) < Len(Plan) /\ AllGood /\ runs \in Seq(Run) /\ report = <<>>
        /\ Len(runs) \in Nat /\ Len(Plan) \in Nat
        /\ UNCHANGED <<printk, governors, check, clockVerified>> /\ kernelBad' \in {kernelBad, TRUE}
    <2>1. pc = "launched" /\ UNCHANGED <<printk, governors, check, clockVerified>> /\ kernelBad' \in {kernelBad, TRUE}
      BY DEF FinishRun, At, controlVars, checkVars
    <2>2. Len(runs) < Len(Plan) /\ AllGood /\ runs \in Seq(Run) /\ report = <<>>
      BY <2>1 DEF Judged, InRuns
    <2>3. Len(runs) \in Nat /\ Len(Plan) \in Nat
      BY <2>2, BenchmarkAssumption
    <2> QED
      BY <2>1, <2>2, <2>3
  <1>1. PICK good \in BOOLEAN :
          /\ runs' = Append(runs, [good |-> good, printk |-> printk, governors |-> governors])
          /\ runFailed' = ~good
          /\ IF Sampled(Regime) THEN Proceed("stop")
             ELSE IF good THEN Proceed("runs") ELSE Conclude(1, RunFailure[Regime])
    BY DEF FinishRun
  <1> DEFINE r == [good |-> good, printk |-> printk, governors |-> governors]
  <1>2. r \in Run /\ r.good = good
    BY DEF Judged, Run
  <1>3. runs' = Append(runs, r)
    BY <1>1
  <1> HIDE DEF r
  <1>4. /\ runs' \in Seq(Run) /\ Len(runs') = Len(runs) + 1
        /\ runs'[Len(runs')] = r
        /\ \A k \in 1 .. Len(runs') : k # Len(runs') => k \in 1 .. Len(runs) /\ runs'[k] = runs[k]
    <2> DEFINE T == Run
    <2>1. r \in T /\ runs \in Seq(T)
      BY <1>2, <1>a
    <2> HIDE DEF T
    <2>2. /\ runs' \in Seq(T) /\ Len(runs') = Len(runs) + 1
          /\ runs'[Len(runs')] = r
          /\ \A k \in 1 .. Len(runs') : k # Len(runs') => k \in 1 .. Len(runs) /\ runs'[k] = runs[k]
      BY <1>3, <2>1
    <2> QED
      BY <2>2 DEF T
  <1>5. Len(runs') <= Len(Plan) /\ (good => AllGood')
    BY <1>2, <1>4, <1>a DEF AllGood
  <1>6. Regime \in {"cold", "warm", "steady"}
    BY <1>a, BenchmarkAssumption DEF Regime
  <1>7. \/ pc' \in {"stop", "runs"} /\ UNCHANGED <<STATUS, CLASSIFICATION, report>> /\ (good \/ pc' = "stop")
        \/ pc' = "finish" /\ STATUS' = 1 /\ CLASSIFICATION' = RunFailure[Regime] /\ UNCHANGED report
    BY <1>1 DEF Proceed, Conclude, verdictVars
  <1>8. pc' \in {"stop", "runs", "finish"} /\ report' = <<>>
    BY <1>a, <1>7
  <1>9. pc' = "finish" => STATUS' = 1 /\ CLASSIFICATION' # PassClassification /\ PassClassification' = PassClassification
    BY <1>6, <1>7, FailuresAreNamed DEF PassClassification
  <1>10. /\ pc' = "runs" => AllGood'
         /\ pc' = "stop" /\ ~runFailed' => AllGood'
    BY <1>1, <1>5, <1>7
  <1>11. STATUS' \in {0, 1} /\ kernelBad' \in BOOLEAN /\ clockVerified
    BY <1>a, <1>7 DEF Judged, InRuns
  <1> QED
    BY <1>a, <1>4, <1>5, <1>8, <1>9, <1>10, <1>11 DEF Judged, InRuns, AfterRun, BeforeRuns

LEMMA JudgedStep == ASSUME Restorable, Judged, [Next]_vars PROVE Judged'
  <1> USE DEF At, Proceed, Conclude, Leave, controlVars, verdictVars, checkVars, runVars, powerVars
  <1>a. Len(Plan) \in Nat /\ PassClassification' = PassClassification
    BY BenchmarkAssumption DEF PassClassification
  <1>1. CASE CheckPrerequisite
    <2>1. /\ pc = "checks" /\ runs = <<>> /\ report = <<>> /\ UNCHANGED <<printk, governors, runs, clockVerified, report>>
          /\ kernelBad' \in BOOLEAN
          /\ \/ pc' = "finish" /\ STATUS' = 1 /\ CLASSIFICATION' = Prerequisites[check]
             \/ pc' \in {"checks", "quiet"} /\ UNCHANGED <<STATUS, CLASSIFICATION>>
      BY <1>1 DEF CheckPrerequisite, Judged, BeforeRuns
    <2>2. check' \in 1 .. Len(Prerequisites)
      <3>1. check \in 1 .. Len(Prerequisites) /\ Len(Prerequisites) \in Nat
        BY DEF Judged, Prerequisites
      <3>2. check < Len(Prerequisites) => check + 1 \in 1 .. Len(Prerequisites)
        BY <3>1
      <3>3. check' = check \/ (check < Len(Prerequisites) /\ check' = check + 1)
        BY <1>1 DEF CheckPrerequisite
      <3> QED
        BY <3>1, <3>2, <3>3
    <2>3. Prerequisites[check] # PassClassification
      BY FailuresAreNamed DEF Judged
    <2> QED
      BY <1>a, <2>1, <2>2, <2>3 DEF Judged, InRuns, AfterRun, BeforeRuns
  <1>2. CASE QuietConsole \/ SetGovernors \/ VerifyClock
    BY <1>a, <1>2, FailuresAreNamed, Len(<<>>) = 0 DEF QuietConsole, SetGovernors, Refusable, VerifyClock, Judged, InRuns, AfterRun, BeforeRuns, AllGood
  <1>3. CASE NextRun \/ PreparePowerSampling
    BY <1>a, <1>3, FailuresAreNamed DEF NextRun, PreparePowerSampling, Judged, InRuns, AfterRun, BeforeRuns, AllGood
  <1>4. CASE AllRunsDone
    BY <1>a, <1>4 DEF AllRunsDone, Judged, InRuns, AfterRun, BeforeRuns, AllGood, Earned
  <1>5. CASE StartSampler \/ AwaitReady
    BY <1>a, <1>5, FailuresAreNamed DEF StartSampler, AwaitReady, SeesReady, KeepsSampler, Judged, InRuns, AfterRun, BeforeRuns, AllGood
  <1>6. CASE Launch \/ StopSampler
    BY <1>a, <1>6 DEF Launch, StopSampler, Judged, InRuns, AfterRun, BeforeRuns, AllGood
  <1>7. CASE FinishRun
    BY <1>7, FinishRunJudged
  <1>8. CASE WaitForSampler
    <2>1. /\ pc = "stopWait" /\ UNCHANGED <<printk, governors, runs, clockVerified, report, check, kernelBad, runFailed>>
          /\ \/ pc' = "runs" /\ ~runFailed /\ UNCHANGED <<STATUS, CLASSIFICATION>>
             \/ pc' = "finish" /\ STATUS' = 1
                /\ CLASSIFICATION' \in {RunFailure["steady"], "power-active-sampling-failure"}
      BY <1>8 DEF WaitForSampler
    <2> QED
      BY <1>a, <2>1, FailuresAreNamed DEF Judged, InRuns, AfterRun, BeforeRuns, AllGood
  <1>9. CASE RestoreSampler \/ RestoreWait \/ Trap \/ Abort
    <2>1. /\ UNCHANGED <<printk, governors, runs, clockVerified, report, check, kernelBad, runFailed, STATUS, CLASSIFICATION>>
          /\ pc' = pc \/ (pc' = "exit" /\ pc \notin {"exit", "exited"})
      BY <1>9 DEF RestoreSampler, RestoreWait, Trap, Abort
    <2> QED
      BY <1>a, <2>1 DEF Judged, InRuns, AfterRun, BeforeRuns, AllGood, Earned, Passed
  <1>10. CASE RestoreSettings
    <2>1. /\ UNCHANGED <<runs, clockVerified, report, check, kernelBad, runFailed, STATUS, CLASSIFICATION>>
          /\ printk' \in {printk, "original"} /\ governors' \in {governors, "original"}
          /\ pc' = pc \/ (pc = "finish" /\ pc' = "report") \/ (pc = "exit" /\ pc' = "exited")
      <3>1. printk' \in {printk, "original"} /\ governors' \in {governors, "original"}
        BY <1>10 DEF RestoreSettings, Restored
      <3>2. pc' = pc \/ (pc = "finish" /\ pc' = "report") \/ (pc = "exit" /\ pc' = "exited")
        BY <1>10 DEF RestoreSettings
      <3> QED
        BY <1>10, <3>1, <3>2 DEF RestoreSettings
    <2> QED
      BY <1>a, <2>1 DEF Judged, InRuns, AfterRun, BeforeRuns, AllGood, Earned, Passed
  <1>11. CASE Report
    <2>1. /\ pc = "report" /\ pc' = "exit" /\ UNCHANGED <<printk, governors, runs, clockVerified, check, kernelBad, runFailed>>
          /\ STATUS' = (IF kernelBad THEN 1 ELSE STATUS)
          /\ CLASSIFICATION' = (IF kernelBad THEN "kernel-log-failure" ELSE CLASSIFICATION)
          /\ report' = <<STATUS', CLASSIFICATION'>>
      BY <1>11 DEF Report, FinalStatus
    <2>2. report'[1] = STATUS' /\ report'[2] = CLASSIFICATION' /\ report' # <<>>
      BY <2>1
    <2>3. /\ STATUS = 0 <=> CLASSIFICATION = PassClassification
          /\ STATUS = 0 => Earned
      BY <2>1 DEF Judged
    <2>4. Passed' <=> CLASSIFICATION' = PassClassification
      BY <1>a, <2>2 DEF Passed
    <2>5. /\ STATUS' = 0 <=> Passed'
          /\ Passed' => Earned' /\ ~kernelBad'
      BY <2>1, <2>3, <2>4, FailuresAreNamed DEF Earned, AllGood
    <2> QED
      BY <1>a, <2>1, <2>2, <2>5 DEF Judged, InRuns, AfterRun, BeforeRuns, AllGood, Earned
  <1>12. CASE Sampler \/ UNCHANGED vars
    BY <1>a, <1>12 DEF Sampler, vars, Judged, InRuns, AfterRun, BeforeRuns, AllGood, Earned, Passed
  <1> QED
    BY <1>1, <1>2, <1>3, <1>4, <1>5, <1>6, <1>7, <1>8, <1>9, <1>10, <1>11, <1>12 DEF Next, Script, Exited

\* The archive says 0 exactly for the passing verdict; every run of the plan,
\* the clock and the kernel log have earned it.
THEOREM PassIsEarned == Spec => []VerdictIsEarned
  <1>1. Judged => VerdictIsEarned
    <2> SUFFICES ASSUME Judged, report # <<>> PROVE VerdictIsEarned
      BY DEF VerdictIsEarned
    <2>1. DOMAIN runs = 1 .. Len(runs)
      BY DEF Judged
    <2> QED
      BY <2>1 DEF Judged, Earned, AllGood, VerdictIsEarned
  <1>2. Restorable /\ Judged /\ [Next]_vars => (Restorable /\ Judged)'
    BY RestorableStep, JudgedStep
  <1> QED
    BY <1>1, <1>2, RestorableInit, JudgedInit, PTL DEF Spec

-----------------------------------------------------------------------------
(* The power trace.                                                        *)

Whole(r) == r.rails = Rails
SteadyPlanned == PowerSample /\ "steady" \in {Plan[k] : k \in DOMAIN Plan}

\* Nothing of the sampler exists before the run that starts it.
Untouched ==
    samplerPc = "absent" =>
        /\ ~SAMPLER_PID /\ samplerStatus = 0 /\ sampleIndex = 0 /\ readings = <<>>
        /\ ~stopFile /\ ~stopRequested /\ ~readyFile

\* The output of the sampler, in the logical time of the script.
Sampling ==
    /\ samplerPc \in S!SamplerPcs
    /\ epoch \in Nat /\ timestamp \in 0 .. epoch /\ launchStart \in 0 .. epoch /\ launchEnd \in 0 .. epoch
    /\ sampleIndex \in Nat /\ readings \in Seq(S!Reading) /\ Len(readings) = sampleIndex
    /\ \A k \in 1 .. Len(readings) : readings[k].at <= epoch
    /\ ~durationOver
    /\ samplerPc \in {"setup", "stamp", "read"} => samplerStatus = 0
    /\ \A k \in 1 .. Len(readings) : ~Whole(readings[k]) => samplerStatus # 0
    /\ samplerPc \notin {"absent", "exited"} /\ samplerStatus # 0 => stopRequested
    /\ readyFile => Len(readings) > 0
    /\ samplerPc \in {"stamp", "read", "publish"} /\ finalSample => stopFile
    /\ samplerPc \in {"stamp", "read"} /\ finalSample => Len(readings) > 0

\* The script has not told the sampler to end but by the stop file, after the run.
Undisturbed == SAMPLER_PID /\ restoring # "wait" /\ pc \in {"await", "launch", "launched", "stop", "stopWait"}

Reached == Len(readings) > 0 /\ readings[Len(readings)].at = epoch

Bracketing ==
    Undisturbed =>
        /\ stopFile <=> pc = "stopWait"
        /\ stopRequested => samplerStatus # 0
        /\ pc = "stopWait" /\ finalSample =>
             (samplerPc = "read" => timestamp = epoch) /\ (samplerPc = "publish" => Reached)
        /\ samplerPc = "exited" /\ samplerStatus = 0 => pc = "stopWait" /\ Reached

Traced ==
    /\ Len(readings) > 0 /\ \A k \in 1 .. Len(readings) : Whole(readings[k])
    /\ readings[1].at < launchStart /\ readings[Len(readings)].at >= launchEnd

\* Where the script is says how far the trace has got.
Placed ==
    /\ pc \in BeforeRuns \cup {"prepare", "start"} => samplerPc = "absent"
    /\ pc = "runs" /\ Len(runs) < Len(Plan) => samplerPc = "absent"
    /\ pc \in {"launch", "launched"} /\ ~Sampled(Regime) => samplerPc = "absent"
    /\ pc \in {"prepare", "start", "await"} => Sampled(Regime)
    /\ pc \in AfterRun => Sampled(Plan[Len(runs)]) /\ Len(runs) > 0 /\ epoch = launchEnd
    /\ pc \in {"launch", "launched"} /\ Sampled(Regime) => Len(readings) > 0
    /\ (pc = "launched" /\ Sampled(Regime)) \/ pc \in AfterRun =>
         Len(readings) > 0 /\ readings[1].at < launchStart
    /\ SteadyPlanned =>
         /\ pc = "runs" /\ Len(runs) = Len(Plan) => Traced /\ samplerPc = "exited"
         /\ pc \in {"finish", "report"} /\ STATUS = 0 => Traced /\ samplerPc = "exited"
         /\ Passed => Traced /\ samplerPc = "exited"

PowerInv == Restorable /\ Judged /\ Untouched /\ Sampling /\ Bracketing /\ Placed

LEMMA PowerInit == Init => PowerInv
  <1> SUFFICES ASSUME Init PROVE PowerInv
    OBVIOUS
  <1>1. readings = <<>> /\ readings \in Seq(S!Reading) /\ Len(readings) = 0 /\ epoch = 0 /\ Len(Plan) \in Nat
    BY BenchmarkAssumption DEF Init, S!SamplerInit
  <1>2. Untouched /\ Bracketing
    BY DEF Init, S!SamplerInit, Untouched, Bracketing, Undisturbed
  <1>3. Sampling
    BY <1>1 DEF Init, S!SamplerInit, Sampling, S!SamplerPcs
  <1>4. Placed
    BY <1>1 DEF Init, S!SamplerInit, Placed, BeforeRuns, AfterRun, Passed
  <1> QED
    BY <1>2, <1>3, <1>4, RestorableInit, JudgedInit DEF PowerInv

\* The run with power is the last of the plan.
LEMMA SteadyIsLast ==
    ASSUME Judged, Len(runs) < Len(Plan)
    PROVE  /\ Len(runs) + 1 <= Len(Plan) /\ Len(runs) \in Nat /\ Len(Plan) \in Nat
           /\ Sampled(Regime) => Len(runs) + 1 = Len(Plan)
           /\ SteadyPlanned /\ Len(runs) + 1 = Len(Plan) => Sampled(Regime)
  <1>1. Len(runs) \in Nat /\ Len(Plan) \in Nat /\ DOMAIN Plan = 1 .. Len(Plan)
    BY BenchmarkAssumption DEF Judged
  <1>2. Len(runs) + 1 \in DOMAIN Plan
    BY <1>1
  <1>3. Sampled(Regime) => Len(runs) + 1 = Len(Plan)
    BY <1>2, BenchmarkAssumption DEF Sampled, Regime
  <1>4. SteadyPlanned => PowerSample /\ Plan[Len(Plan)] = "steady"
    BY BenchmarkAssumption DEF SteadyPlanned
  <1>5. Len(runs) + 1 = Len(Plan) => Regime = Plan[Len(Plan)]
    BY DEF Regime
  <1>6. SteadyPlanned /\ Len(runs) + 1 = Len(Plan) => Sampled(Regime)
    BY <1>4, <1>5 DEF Sampled
  <1>7. Len(runs) + 1 <= Len(Plan)
    BY <1>1
  <1> QED
    BY <1>1, <1>3, <1>6, <1>7

\* What the steps of the script preserve that leave sampler, clock and readings alone.
LEMMA QuietScript ==
    ASSUME PowerInv, UNCHANGED <<samplerVars, epoch, launchStart, launchEnd>>,
           SAMPLER_PID' => SAMPLER_PID
    PROVE  Untouched' /\ Sampling' /\ (Traced' <=> Traced) /\ (Reached' <=> Reached)
  BY DEF PowerInv, Untouched, Sampling, Traced, Whole, Reached, samplerVars, loopVars, fileVars, outputVars

\* Before the runs, between them and after them.
LEMMA OutsideStep ==
    ASSUME PowerInv, CheckPrerequisite \/ QuietConsole \/ SetGovernors \/ VerifyClock \/ NextRun
                     \/ AllRunsDone \/ PreparePowerSampling
    PROVE  Untouched' /\ Sampling' /\ Bracketing' /\ Placed'
  <1> USE DEF At, Proceed, Conclude, controlVars, verdictVars, checkVars, runVars, powerVars
  <1>a. /\ Restorable /\ Judged /\ Untouched /\ Sampling /\ Bracketing /\ Placed
        /\ UNCHANGED <<samplerVars, epoch, launchStart, launchEnd, SAMPLER_PID, runs, report>>
        /\ report = <<>>
    BY DEF PowerInv, Judged, CheckPrerequisite, QuietConsole, SetGovernors, VerifyClock, NextRun, AllRunsDone,
           PreparePowerSampling
  <1>b. Untouched' /\ Sampling' /\ (Traced' <=> Traced) /\ samplerPc' = samplerPc
    BY <1>a, QuietScript DEF samplerVars
  <1>c. Bracketing'
    <2>1. pc' \notin {"await", "launched", "stop", "stopWait"} /\ (pc' = "launch" => samplerPc = "absent")
      BY <1>a DEF CheckPrerequisite, QuietConsole, SetGovernors, VerifyClock, NextRun, AllRunsDone,
                  PreparePowerSampling, Placed
    <2> QED
      BY <1>a, <1>b, <2>1 DEF Bracketing, Undisturbed, Untouched
  <1>d. Placed'
    <2>0. ~Passed' /\ Regime' = Regime
      BY <1>a DEF Passed, Regime
    <2>1. CASE CheckPrerequisite \/ QuietConsole \/ SetGovernors
      <3>1. /\ pc \in BeforeRuns
            /\ pc' \in BeforeRuns \/ (pc' = "finish" /\ STATUS' = 1)
        BY <2>1 DEF CheckPrerequisite, QuietConsole, SetGovernors, BeforeRuns
      <3>2. samplerPc' = "absent"
        BY <3>1, <1>a, <1>b DEF Placed
      <3> QED
        BY <2>0, <3>1, <3>2 DEF Placed, BeforeRuns, AfterRun
    <2>2. CASE VerifyClock
      <3>1. pc = "clock" /\ samplerPc = "absent" /\ runs = <<>> /\ Len(runs) = 0
        BY <2>2, <1>a DEF VerifyClock, Placed, Judged, BeforeRuns
      <3>2. SteadyPlanned => Len(Plan) # 0
        BY BenchmarkAssumption DEF SteadyPlanned
      <3> QED
        BY <2>0, <2>2, <3>1, <3>2, <1>a, <1>b DEF VerifyClock, Placed, BeforeRuns, AfterRun
    <2>3. CASE NextRun
      BY <2>0, <2>3, <1>a, <1>b DEF NextRun, Placed, BeforeRuns, AfterRun
    <2>4. CASE AllRunsDone
      BY <2>0, <2>4, <1>a, <1>b DEF AllRunsDone, Placed, BeforeRuns, AfterRun
    <2>5. CASE PreparePowerSampling
      BY <2>0, <2>5, <1>a, <1>b DEF PreparePowerSampling, Placed, BeforeRuns, AfterRun
    <2> QED
      BY <2>1, <2>2, <2>3, <2>4, <2>5
  <1> QED
    BY <1>b, <1>c, <1>d

\* The sampler is started, its first sample is awaited.
LEMMA StartStep ==
    ASSUME PowerInv, StartSampler \/ AwaitReady
    PROVE  Untouched' /\ Sampling' /\ Bracketing' /\ Placed'
  <1> USE DEF At, Proceed, Conclude, controlVars, verdictVars, checkVars, runVars, powerVars
  <1>a. /\ Restorable /\ Judged /\ Untouched /\ Sampling /\ Bracketing /\ Placed /\ report = <<>>
        /\ UNCHANGED <<epoch, launchStart, launchEnd, runs, report, restoring>> \/ pc' = "finish"
        /\ UNCHANGED <<epoch, launchStart, launchEnd, runs, report>>
        /\ restoring = "no" /\ Sampled(Regime) /\ Len(runs) < Len(Plan)
    BY DEF PowerInv, Judged, StartSampler, AwaitReady, Placed
  <1>b. ~Passed' /\ Regime' = Regime
    BY <1>a DEF Passed, Regime
  <1>1. CASE StartSampler
    <2>1. /\ pc = "start" /\ pc' = "await" /\ samplerPc = "absent" /\ samplerPc' = "setup" /\ restoring' = "no"
          /\ UNCHANGED <<samplerStatus, loopVars, outputVars, stopRequested, fileVars, durationOver>>
      BY <1>1, <1>a DEF StartSampler, Placed
    <2>2. Untouched' /\ Sampling'
      BY <2>1, <1>a DEF Untouched, Sampling, S!SamplerPcs, loopVars, fileVars, outputVars, Whole
    <2>3. Bracketing' /\ Placed'
      BY <2>1, <1>a, <1>b DEF Untouched, Bracketing, Undisturbed, Placed, BeforeRuns, AfterRun, loopVars, fileVars
    <2> QED
      BY <2>2, <2>3
  <1>2. CASE AwaitReady
    <2>1. /\ pc = "await" /\ UNCHANGED samplerVars /\ (SAMPLER_PID' => SAMPLER_PID)
          /\ \/ pc' = "launch" /\ readyFile /\ restoring' = "no"
             \/ pc' = "await" /\ restoring' = "no"
             \/ pc' = "finish" /\ STATUS' = 1
      BY <1>2, <1>a DEF AwaitReady, SeesReady, KeepsSampler, Restorable
    <2>2. Untouched' /\ Sampling' /\ (Traced' <=> Traced) /\ (Reached' <=> Reached)
      BY <2>1, <1>a, QuietScript DEF PowerInv
    <2>3. Bracketing'
      BY <2>1, <2>2, <1>a DEF Bracketing, Undisturbed, samplerVars, loopVars, fileVars, outputVars
    <2>4. Placed'
      BY <2>1, <1>a, <1>b DEF Sampling, Placed, BeforeRuns, AfterRun, samplerVars, outputVars
    <2> QED
      BY <2>2, <2>3, <2>4
  <1> QED
    BY <1>1, <1>2

\* The run itself: the clock goes on at its begin and at its end.
LEMMA LaunchStep ==
    ASSUME PowerInv, Launch \/ FinishRun
    PROVE  Untouched' /\ Sampling' /\ Bracketing' /\ Placed'
  <1> USE DEF At, Proceed, Conclude, controlVars, verdictVars, checkVars, runVars, powerVars
  <1>a. /\ Restorable /\ Judged /\ Untouched /\ Sampling /\ Bracketing /\ Placed /\ report = <<>> /\ report' = <<>>
        /\ UNCHANGED <<samplerVars, SAMPLER_PID>> /\ epoch' = epoch + 1
        /\ restoring = "no" /\ Len(runs) < Len(Plan) /\ epoch \in Nat
    BY DEF PowerInv, Judged, Launch, FinishRun, Sampling
  <1>b. Untouched' /\ ~Passed'
    BY <1>a DEF Untouched, Passed, samplerVars, fileVars, outputVars
  <1>c. /\ \A k \in 1 .. Len(readings) : readings[k] \in S!Reading /\ readings[k].at \in Nat /\ readings[k].at <= epoch
        /\ readings' = readings
    <2>1. \A k \in 1 .. Len(readings) : readings[k] \in S!Reading /\ readings[k].at <= epoch
      BY <1>a DEF Sampling
    <2> QED
      BY <2>1, <1>a DEF S!Reading, samplerVars, outputVars
  <1>d. launchStart' \in 0 .. epoch' /\ launchEnd' \in 0 .. epoch' => Sampling'
    <2>1. \A k \in 1 .. Len(readings') : readings'[k].at <= epoch'
      BY <1>a, <1>c
    <2>2. timestamp' \in 0 .. epoch' /\ epoch' \in Nat
      BY <1>a DEF Sampling, samplerVars, loopVars
    <2> QED
      BY <2>1, <2>2, <1>a DEF Sampling, samplerVars, loopVars, fileVars, outputVars, Whole
  <1>1. CASE Launch
    <2>1. /\ pc = "launch" /\ pc' = "launched" /\ UNCHANGED <<runs, launchEnd, restoring>> /\ launchStart' = epoch + 1
      BY <1>1 DEF Launch
    <2>2. Sampling'
      BY <2>1, <1>a, <1>d DEF Sampling
    <2>3. Bracketing'
      BY <2>1, <1>a DEF Bracketing, Undisturbed, samplerVars, fileVars
    <2>4. Regime' = Regime /\ (Len(readings) > 0 => readings[1].at < launchStart')
      BY <2>1, <1>a, <1>c DEF Regime
    <2>5. Placed'
      BY <2>1, <2>4, <1>a, <1>b, <1>c DEF Placed, BeforeRuns, AfterRun, samplerVars
    <2> QED
      BY <1>b, <2>2, <2>3, <2>5
  <1>2. CASE FinishRun
    <2>1. /\ pc = "launched" /\ UNCHANGED launchStart /\ launchEnd' = epoch + 1
          /\ \/ pc' = "stop" /\ Sampled(Regime) /\ restoring' = "no"
             \/ pc' = "runs" /\ ~Sampled(Regime) /\ restoring' = "no"
             \/ pc' = "finish" /\ STATUS' = 1
      BY <1>2, <1>a DEF FinishRun
    <2>2. Len(runs') = Len(runs) + 1
      <3>1. PICK good \in BOOLEAN : runs' = Append(runs, [good |-> good, printk |-> printk, governors |-> governors])
        BY <1>2 DEF FinishRun
      <3> QED
        BY <3>1, <1>a DEF Judged
    <2>3. Sampling'
      BY <2>1, <1>a, <1>d DEF Sampling
    <2>4. Bracketing'
      BY <2>1, <1>a DEF Bracketing, Undisturbed, samplerVars, fileVars
    <2>5. /\ Plan[Len(runs')] = Regime /\ Len(runs') > 0
          /\ SteadyPlanned /\ ~Sampled(Regime) => Len(runs') < Len(Plan)
          /\ ~Sampled(Regime) => samplerPc = "absent"
          /\ Sampled(Regime) => Len(readings) > 0 /\ readings[1].at < launchStart
      BY <2>1, <2>2, <1>a, SteadyIsLast DEF Regime, Placed
    <2>6. Placed'
      BY <2>1, <2>5, <1>a, <1>b, <1>c DEF Placed, BeforeRuns, AfterRun, samplerVars
    <2> QED
      BY <1>b, <2>3, <2>4, <2>6
  <1> QED
    BY <1>1, <1>2

\* The stop file is created, the sampler is waited for.
LEMMA StopStep ==
    ASSUME PowerInv, StopSampler \/ WaitForSampler
    PROVE  Untouched' /\ Sampling' /\ Bracketing' /\ Placed'
  <1> USE DEF At, Proceed, Conclude, controlVars, verdictVars, checkVars, runVars, powerVars
  <1>a. /\ Restorable /\ Judged /\ Untouched /\ Sampling /\ Bracketing /\ Placed /\ report = <<>> /\ report' = <<>>
        /\ UNCHANGED <<samplerPc, samplerStatus, loopVars, outputVars, stopRequested, readyFile, durationOver, epoch,
                       launchStart, launchEnd, runs>>
        /\ restoring = "no" /\ pc \in AfterRun
    BY DEF PowerInv, Judged, StopSampler, WaitForSampler, AfterRun, samplerVars, fileVars
  <1>b. Sampled(Plan[Len(runs)]) /\ Len(runs) > 0 /\ epoch = launchEnd
        /\ Len(readings) > 0 /\ readings[1].at < launchStart
    BY <1>a DEF Placed
  <1>c. ~Passed' /\ samplerPc # "absent"
    BY <1>a, <1>b DEF Passed, Untouched
  <1>1. CASE StopSampler
    <2>1. pc = "stop" /\ pc' = "stopWait" /\ stopFile' = TRUE /\ UNCHANGED <<restoring, SAMPLER_PID>>
      BY <1>1 DEF StopSampler
    <2>2. Untouched' /\ Sampling'
      BY <2>1, <1>a, <1>c DEF Untouched, Sampling, loopVars, outputVars, Whole
    <2>3. Bracketing'
      BY <2>1, <1>a DEF Bracketing, Undisturbed, Sampling, loopVars, outputVars, Reached
    <2>4. Placed'
      BY <2>1, <1>a, <1>b, <1>c DEF Placed, BeforeRuns, AfterRun, outputVars
    <2> QED
      BY <2>2, <2>3, <2>4
  <1>2. CASE WaitForSampler
    <2>1. /\ pc = "stopWait" /\ UNCHANGED samplerVars /\ ~SAMPLER_PID'
          /\ \/ pc' = "finish" /\ STATUS' = 1
             \/ pc' = "runs" /\ samplerPc = "exited" /\ SAMPLER_PID /\ samplerStatus = 0
      BY <1>2, <1>a DEF WaitForSampler, Restorable
    <2>2. Untouched' /\ Sampling' /\ Bracketing' /\ (Traced' <=> Traced)
      BY <2>1, <1>a, QuietScript DEF PowerInv, Bracketing, Undisturbed
    <2>3. pc' = "runs" => Traced
      <3> SUFFICES ASSUME pc' = "runs" PROVE Traced
        OBVIOUS
      <3>1. Reached
        BY <2>1, <1>a DEF Bracketing, Undisturbed
      <3>2. \A k \in 1 .. Len(readings) : Whole(readings[k])
        BY <2>1, <1>a DEF Sampling
      <3> QED
        BY <3>1, <3>2, <1>b, <1>a DEF Traced, Reached, Sampling
    <2>4. Len(runs) = Len(Plan)
      <3>1. Len(runs) \in DOMAIN Plan
        BY <1>a, <1>b, BenchmarkAssumption DEF Judged
      <3> QED
        BY <3>1, <1>b, BenchmarkAssumption DEF Sampled
    <2>5. Placed'
      BY <2>1, <2>2, <2>3, <2>4, <1>a, <1>c DEF Placed, BeforeRuns, AfterRun, samplerVars
    <2> QED
      BY <2>2, <2>5
  <1> QED
    BY <1>1, <1>2

\* The ways out: a sampler that was told to end no longer counts.
LEMMA RestoreStep ==
    ASSUME PowerInv, RestoreSampler \/ RestoreWait \/ RestoreSettings \/ Report \/ Abort \/ Trap
    PROVE  Untouched' /\ Sampling' /\ Bracketing' /\ Placed'
  <1> USE DEF At, Proceed, Leave, controlVars, verdictVars, checkVars, runVars, powerVars
  <1>a. /\ Restorable /\ Judged /\ Untouched /\ Sampling /\ Bracketing /\ Placed
        /\ UNCHANGED <<epoch, launchStart, launchEnd, runs>> /\ Regime' = Regime
    BY DEF PowerInv, RestoreSampler, RestoreWait, RestoreSettings, Report, Abort, Trap, Regime
  <1>1. CASE RestoreSampler
    <2>1. UNCHANGED <<pc, SAMPLER_PID, STATUS, CLASSIFICATION, report>> /\ restoring = "sampler" /\ (Passed' <=> Passed)
      BY <1>1 DEF RestoreSampler, Passed, PassClassification
    <2>2. CASE ~SAMPLER_PID
      <3>1. UNCHANGED samplerVars
        BY <1>1, <2>2 DEF RestoreSampler
      <3>2. Untouched' /\ Sampling' /\ (Traced' <=> Traced) /\ UNCHANGED <<samplerPc, readings>>
        BY <3>1, <2>1, <1>a, QuietScript DEF PowerInv, samplerVars, outputVars
      <3> QED
        BY <3>2, <2>1, <2>2, <1>a DEF Bracketing, Undisturbed, Placed
    <2>3. CASE SAMPLER_PID
      <3>1. /\ restoring' = "wait" /\ stopFile' = TRUE
            /\ UNCHANGED <<loopVars, outputVars, readyFile, durationOver>>
            /\ \/ samplerPc = "setup" /\ samplerPc' = "exited" /\ samplerStatus' = 143 /\ UNCHANGED stopRequested
               \/ samplerPc # "setup" /\ stopRequested' = TRUE /\ UNCHANGED <<samplerPc, samplerStatus>>
        BY <1>1, <2>3 DEF RestoreSampler, EndsSampler, S!SignalSampler, S!Exits, S!loopVars, S!outputVars,
                          loopVars, outputVars
      <3>2. samplerPc # "absent" /\ samplerPc' # "absent"
        BY <3>1, <2>3, <1>a DEF Untouched
      <3>3. Sampling' /\ Untouched'
        BY <3>1, <3>2, <1>a DEF Sampling, Untouched, S!SamplerPcs, loopVars, outputVars, Whole
      <3>4. Bracketing' /\ (Traced' <=> Traced) /\ UNCHANGED readings
        BY <3>1, <1>a DEF Bracketing, Undisturbed, Traced, Whole, outputVars
      <3>5. samplerPc = "exited" => samplerPc' = "exited"
        BY <3>1
      <3>6. Placed'
        BY <2>1, <3>2, <3>4, <3>5, <1>a DEF Placed
      <3> QED
        BY <3>3, <3>4, <3>6
    <2> QED
      BY <2>2, <2>3
  <1>2. CASE RestoreWait \/ Trap
    <2>1. /\ UNCHANGED <<pc, STATUS, CLASSIFICATION, report, samplerVars>> /\ (SAMPLER_PID' => SAMPLER_PID /\ restoring # "wait")
          /\ (Passed' <=> Passed)
      BY <1>2 DEF RestoreWait, Trap, Passed, PassClassification
    <2>2. Untouched' /\ Sampling' /\ (Traced' <=> Traced) /\ (Reached' <=> Reached)
      BY <2>1, <1>a, QuietScript DEF PowerInv
    <2>3. Bracketing'
      BY <2>1, <2>2, <1>a DEF Bracketing, Undisturbed, samplerVars, loopVars, fileVars
    <2>4. Placed'
      BY <2>1, <2>2, <1>a DEF Placed, samplerVars, outputVars
    <2> QED
      BY <2>2, <2>3, <2>4
  <1>3. CASE RestoreSettings
    <2>1. /\ UNCHANGED <<STATUS, CLASSIFICATION, report, samplerVars, SAMPLER_PID>> /\ ~SAMPLER_PID /\ (Passed' <=> Passed)
          /\ pc' = pc \/ (pc = "finish" /\ pc' = "report") \/ (pc = "exit" /\ pc' = "exited")
      BY <1>3, <1>a DEF RestoreSettings, Restorable, Passed, PassClassification
    <2>2. Untouched' /\ Sampling' /\ (Traced' <=> Traced)
      BY <2>1, <1>a, QuietScript DEF PowerInv
    <2>3. Bracketing'
      BY <2>1 DEF Bracketing, Undisturbed
    <2>4. Placed'
      BY <2>1, <2>2, <1>a DEF Placed, BeforeRuns, AfterRun, samplerVars, outputVars
    <2> QED
      BY <2>2, <2>3, <2>4
  <1>4. CASE Report \/ Abort
    <2>1. /\ UNCHANGED <<samplerVars, SAMPLER_PID>> /\ pc' = "exit"
          /\ \/ UNCHANGED <<report, CLASSIFICATION>>
             \/ pc = "report" /\ STATUS' = FinalStatus /\ report' = <<STATUS', CLASSIFICATION'>>
      BY <1>4 DEF Report, Abort
    <2>2. Untouched' /\ Sampling' /\ (Traced' <=> Traced)
      BY <2>1, <1>a, QuietScript DEF PowerInv
    <2>3. Passed' => Passed \/ (pc = "report" /\ STATUS = 0)
      <3>1. CASE Abort
        BY <3>1 DEF Abort, Passed, PassClassification
      <3>2. CASE Report
        <4>1. /\ pc = "report" /\ report' = <<STATUS', CLASSIFICATION'>>
              /\ CLASSIFICATION' = (IF kernelBad THEN "kernel-log-failure" ELSE CLASSIFICATION)
              /\ PassClassification' = PassClassification
          BY <3>2 DEF Report, PassClassification
        <4>2. Passed' => CLASSIFICATION = PassClassification
          BY <4>1, FailuresAreNamed DEF Passed
        <4> QED
          BY <4>1, <4>2, <1>a DEF Judged
      <3> QED
        BY <1>4, <3>1, <3>2
    <2>4. Bracketing' /\ Placed'
      BY <2>1, <2>2, <2>3, <1>a DEF Bracketing, Undisturbed, Placed, BeforeRuns, AfterRun, samplerVars
    <2> QED
      BY <2>2, <2>4
  <1> QED
    BY <1>1, <1>2, <1>3, <1>4

\* Steps of the sampler that write nothing: a signal of the script is what ends
\* an undisturbed one no sooner than its last sample.
LEMMA SamplerControlStep ==
    ASSUME PowerInv, Sampler, S!SetUp \/ S!LoopHead \/ S!Stamp \/ S!Publish \/ S!Sleep
    PROVE  Untouched' /\ Sampling' /\ Bracketing' /\ Placed'
  <1> USE DEF S!Exits, S!loopVars, S!outputVars, S!fileVars
  <1>a. /\ Restorable /\ Judged /\ Untouched /\ Sampling /\ Bracketing /\ Placed
        /\ UNCHANGED <<pc, restoring, STATUS, CLASSIFICATION, report, runs, launchStart, launchEnd, SAMPLER_PID, epoch>>
    BY DEF PowerInv, Sampler, controlVars, verdictVars, checkVars, runVars, powerVars
  <1>b. /\ samplerPc \notin {"absent", "exited"} /\ samplerPc' \in S!SamplerPcs \ {"absent"}
        /\ UNCHANGED <<readings, sampleIndex, stopRequested, stopFile, durationOver>>
    BY DEF S!SamplerPcs, S!SetUp, S!LoopHead, S!Stamp, S!Publish, S!Sleep
  <1>c. Untouched' /\ Undisturbed' = Undisturbed /\ Reached' = Reached /\ Regime' = Regime /\ Passed' = Passed
    BY <1>a, <1>b DEF Untouched, Undisturbed, Reached, Regime, Passed, PassClassification
  <1>d. Placed'
    BY <1>a, <1>b, <1>c DEF Placed
  <1>e. (\A k \in 1 .. Len(readings') : readings'[k].at <= epoch')
        /\ (samplerStatus # 0 => samplerStatus' # 0)
        /\ \A k \in 1 .. Len(readings') : ~Whole(readings'[k]) => samplerStatus' # 0
    <2>1. samplerStatus # 0 => samplerStatus' # 0
      BY DEF S!SetUp, S!LoopHead, S!Stamp, S!Publish, S!Sleep
    <2> QED
      BY <2>1, <1>a, <1>b DEF Sampling, Whole
  <1>1. CASE S!SetUp
    BY <1>a, <1>b, <1>c, <1>d, <1>e, <1>1 DEF S!SetUp, Sampling, Bracketing
  <1>2. CASE S!LoopHead
    <2>1. /\ samplerPc = "loop" /\ UNCHANGED <<timestamp, readyFile, samplerStatus>>
          /\ \/ stopRequested /\ samplerPc' = "exited" /\ UNCHANGED finalSample
             \/ ~stopRequested /\ samplerPc' = "stamp" /\ (finalSample' <=> sampleIndex > 0 /\ stopFile)
      BY <1>2 DEF S!LoopHead, S!SeesStop
    <2>2. Sampling'
      BY <2>1, <1>a, <1>b, <1>e DEF Sampling
    <2>3. Bracketing'
      BY <2>1, <1>a, <1>b, <1>c DEF Bracketing, Sampling
    <2> QED
      BY <2>2, <2>3, <1>c, <1>d
  <1>3. CASE S!Stamp
    BY <1>a, <1>b, <1>c, <1>d, <1>e, <1>3 DEF S!Stamp, Sampling, Bracketing
  <1>4. CASE S!Publish
    <2>1. /\ samplerPc = "publish" /\ UNCHANGED <<timestamp, finalSample>>
          /\ readyFile' => readyFile \/ sampleIndex = 1
          /\ \/ samplerPc' = "exited" /\ samplerStatus' = 4
             \/ samplerPc' = "exited" /\ finalSample /\ UNCHANGED samplerStatus
             \/ samplerPc' = "sleep" /\ UNCHANGED samplerStatus
      BY <1>4 DEF S!Publish, S!AnnouncesReady, S!IsLast
    <2>2. Sampling'
      BY <2>1, <1>a, <1>b, <1>e DEF Sampling
    <2>3. Bracketing'
      BY <2>1, <1>a, <1>b, <1>c DEF Bracketing, Sampling
    <2> QED
      BY <2>2, <2>3, <1>c, <1>d
  <1>5. CASE S!Sleep
    BY <1>a, <1>b, <1>c, <1>d, <1>e, <1>5 DEF S!Sleep, Sampling, Bracketing
  <1> QED
    BY <1>1, <1>2, <1>3, <1>4, <1>5

\* The step that writes a sample.
LEMMA SamplerReadStep ==
    ASSUME PowerInv, Sampler, S!ReadRails
    PROVE  Untouched' /\ Sampling' /\ Bracketing' /\ Placed'
  <1> USE DEF S!loopVars, S!outputVars, S!fileVars
  <1>a. /\ Restorable /\ Judged /\ Untouched /\ Sampling /\ Bracketing /\ Placed
        /\ UNCHANGED <<pc, restoring, STATUS, CLASSIFICATION, report, runs, launchStart, launchEnd, SAMPLER_PID, epoch>>
    BY DEF PowerInv, Sampler, controlVars, verdictVars, checkVars, runVars, powerVars
  <1>b. /\ samplerPc = "read" /\ samplerPc' = "publish" /\ sampleIndex' = sampleIndex + 1
        /\ UNCHANGED <<finalSample, timestamp, stopFile, readyFile, durationOver>>
    BY DEF S!ReadRails, S!CountsSample
  <1>1. PICK rails \in 0 .. Rails :
          /\ readings' = Append(readings, [at |-> timestamp, rails |-> rails])
          /\ IF rails = Rails
             THEN UNCHANGED <<samplerStatus, stopRequested>>
             ELSE samplerStatus' = S!FailedRead /\ stopRequested' = TRUE
    BY DEF S!ReadRails
  <1> DEFINE r == [at |-> timestamp, rails |-> rails]
  <1>2. r \in S!Reading /\ r.at = timestamp /\ r.rails = rails
    BY <1>a DEF Sampling, S!Reading
  <1>3. readings \in Seq(S!Reading) /\ readings' = Append(readings, r)
    BY <1>a, <1>1 DEF Sampling
  <1> HIDE DEF r
  <1>4. /\ readings' \in Seq(S!Reading)
        /\ Len(readings') = Len(readings) + 1
        /\ readings'[Len(readings')] = r
        /\ \A k \in 1 .. Len(readings') : k # Len(readings') => k \in 1 .. Len(readings) /\ readings'[k] = readings[k]
    <2> DEFINE T == S!Reading
    <2>1. readings \in Seq(T) /\ r \in T
      BY <1>2, <1>3
    <2> HIDE DEF T
    <2>2. /\ readings' \in Seq(T)
          /\ Len(readings') = Len(readings) + 1
          /\ readings'[Len(readings')] = r
          /\ \A k \in 1 .. Len(readings') : k # Len(readings') => k \in 1 .. Len(readings) /\ readings'[k] = readings[k]
      BY <2>1, <1>3
    <2> QED
      BY <2>2 DEF T
  <1>5. samplerStatus = 0 /\ (\A k \in 1 .. Len(readings) : Whole(readings[k])) /\ sampleIndex \in Nat /\ Len(readings) = sampleIndex
    BY <1>a, <1>b DEF Sampling
  <1>6. /\ samplerStatus' # 0 => stopRequested' = TRUE
        /\ rails = Rails => samplerStatus' = 0 /\ stopRequested' = stopRequested
        /\ rails # Rails => samplerStatus' # 0
    BY <1>1, <1>5 DEF S!FailedRead
  <1>7. Untouched' /\ Undisturbed' = Undisturbed /\ Regime' = Regime /\ Passed' = Passed
    BY <1>a, <1>b DEF Untouched, Undisturbed, Regime, Passed, PassClassification
  <1>8. Sampling'
    <2>1. \A k \in 1 .. Len(readings') : readings'[k].at <= epoch'
      BY <1>2, <1>4, <1>a DEF Sampling
    <2>2. \A k \in 1 .. Len(readings') : ~Whole(readings'[k]) => samplerStatus' # 0
      <3> SUFFICES ASSUME NEW k \in 1 .. Len(readings'), ~Whole(readings'[k]) PROVE samplerStatus' # 0
        BY DEF Whole
      <3>1. k = Len(readings')
        BY <1>4, <1>5 DEF Whole
      <3> QED
        BY <3>1, <1>2, <1>4, <1>6 DEF Whole
    <2>3. Len(readings') = sampleIndex' /\ sampleIndex' \in Nat /\ Len(readings') > 0
      BY <1>4, <1>5, <1>b
    <2>5. samplerPc' \in S!SamplerPcs /\ timestamp' \in 0 .. epoch' /\ epoch' \in Nat /\ launchStart' \in 0 .. epoch'
          /\ launchEnd' \in 0 .. epoch' /\ ~durationOver' /\ (finalSample' => stopFile')
      BY <1>a, <1>b DEF Sampling, S!SamplerPcs
    <2> QED
      BY <2>1, <2>2, <2>3, <2>5, <1>4, <1>6, <1>b DEF Sampling, Whole
  <1>9. Bracketing'
    <2>1. timestamp = epoch => Reached'
      BY <1>2, <1>4, <1>5, <1>a DEF Reached
    <2>2. Undisturbed => (stopRequested' => samplerStatus' # 0)
      BY <1>1, <1>5, <1>6, <1>a DEF Bracketing
    <2> QED
      BY <2>1, <2>2, <1>7, <1>a, <1>b DEF Bracketing
  <1>10. Placed'
    <2>1. Len(readings') > 0 /\ (Len(readings) > 0 => readings'[1] = readings[1])
      BY <1>4, <1>5
    <2> QED
      BY <2>1, <1>7, <1>a, <1>b DEF Placed
  <1> QED
    BY <1>7, <1>8, <1>9, <1>10

LEMMA PowerStutter ==
    ASSUME PowerInv, UNCHANGED vars
    PROVE  Untouched' /\ Sampling' /\ Bracketing' /\ Placed'
  <1>1. UNCHANGED <<samplerVars, epoch, launchStart, launchEnd, pc, restoring, SAMPLER_PID, STATUS, report, runs>>
        /\ Regime' = Regime /\ Passed' = Passed
    BY DEF vars, controlVars, verdictVars, runVars, powerVars, Regime, Passed, PassClassification
  <1>2. Untouched' /\ Sampling' /\ (Traced' <=> Traced) /\ (Reached' <=> Reached)
    BY <1>1, QuietScript
  <1> QED
    BY <1>1, <1>2 DEF PowerInv, Bracketing, Undisturbed, Placed, samplerVars, loopVars, fileVars, outputVars

LEMMA PowerInvariant == Spec => []PowerInv
  <1>1. ASSUME PowerInv, [Next]_vars PROVE PowerInv'
    <2>1. Restorable' /\ Judged'
      BY <1>1, RestorableStep, JudgedStep DEF PowerInv
    <2>2. CASE Script
      BY <1>1, <2>1, <2>2, OutsideStep, StartStep, LaunchStep, StopStep, RestoreStep DEF Script, PowerInv
    <2>3. CASE Abort \/ Trap
      BY <1>1, <2>1, <2>3, RestoreStep DEF PowerInv
    <2>4. CASE Sampler
      BY <1>1, <2>1, <2>4, SamplerControlStep, SamplerReadStep DEF Sampler, S!Sampler, PowerInv
    <2>5. CASE UNCHANGED vars
      BY <1>1, <2>1, <2>5, PowerStutter DEF PowerInv
    <2> QED
      BY <1>1, <2>2, <2>3, <2>4, <2>5 DEF Next, Exited
  <1> QED
    BY <1>1, PowerInit, PTL DEF Spec

\* The trace behind a passing verdict with power has whole samples, the first
\* stamped before the launch began and the last after it had ended.
THEOREM PowerTraceBracketsLaunch == Spec => []PowerBracketsLaunch
  <1>1. PowerInv => PowerBracketsLaunch
    <2> SUFFICES ASSUME PowerInv, Passed, SteadyPlanned PROVE Traced /\ readings # <<>> /\ DOMAIN readings = 1 .. Len(readings)
      BY DEF PowerBracketsLaunch, SteadyPlanned, Traced, Whole
    <2>1. Traced /\ readings \in Seq(S!Reading)
      BY DEF PowerInv, Placed, Sampling
    <2>2. Len(<<>>) = 0
      OBVIOUS
    <2> QED
      BY <2>1, <2>2 DEF Traced
  <1> QED
    BY <1>1, PowerInvariant, PTL
=============================================================================
