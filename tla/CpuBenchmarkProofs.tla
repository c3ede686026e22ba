--------------------------- MODULE CpuBenchmarkProofs ---------------------------
(***************************************************************************)
(* Proofs about nvdla-board-cpu-benchmark, for every plan of runs, any     *)
(* states of the cores and any number of their changes, polls and signals. *)
(***************************************************************************)
EXTENDS CpuBenchmark, SequenceTheorems, TLAPS

BeforeRuns == {"checks", "quiet", "verify", "correctness"}
OfARun == {"prepare", "start", "await", "launch", "launched"}
InRuns == {"runs"} \cup OfARun
AfterRun == {"stop", "stopWait"}
Done == {"finish", "report", "exit", "exited"}

-----------------------------------------------------------------------------
(* The environment, as in nvdla-board-benchmark but for the governors.     *)

Ended == samplerPc \in {"absent", "exited"}

Restorable ==
    /\ pc \in BeforeRuns \cup InRuns \cup AfterRun \cup {"verifyAfter"} \cup Done
    /\ restoring \in {"no", "sampler", "wait", "settings"}
    /\ pc \in {"finish", "exit"} => restoring # "no"
    /\ SAMPLER_PID \in BOOLEAN /\ printkSaved \in {"no", "yes", "refused"}
    /\ printkSaved = "no" => printk = "original"
    /\ ~Ended => SAMPLER_PID
    /\ restoring = "settings" => ~SAMPLER_PID
    /\ pc = "exited" => restoring = "no" /\ ~SAMPLER_PID /\ (printkSaved # "refused" => printk = "original")

LEMMA RestorableInit == Init => Restorable
  BY DEF Init, S!SamplerInit, Restorable, Ended, BeforeRuns

LEMMA RestorableStep == ASSUME Restorable, [Next]_vars PROVE Restorable'
  <1> USE DEF Restorable, Ended, BeforeRuns, OfARun, InRuns, AfterRun, Done, At, Proceed, Conclude, Fails, Leave,
          controlVars, cpuVars, verdictVars, checkVars, runVars, powerVars, samplerVars
  <1>1. CASE CheckPrerequisites \/ QuietConsole \/ VerifyBefore
    BY <1>1 DEF CheckPrerequisites, QuietConsole, VerifyBefore
  <1>2. CASE CorrectnessBefore \/ CorrectnessAfter \/ VerifyAfter
    BY <1>2 DEF CorrectnessBefore, CorrectnessAfter, RunCorrectness, VerifyAfter
  <1>3. CASE NextRun \/ PreparePower
    BY <1>3 DEF NextRun, PreparePower
  <1>4. CASE StartSampler \/ AwaitReady
    BY <1>4 DEF StartSampler, AwaitReady, SeesReady, KeepsSampler
  <1>5. CASE Launch \/ StopSampler \/ WaitForSampler
    BY <1>5 DEF Launch, StopSampler, WaitForSampler
  <1>6. CASE FinishRun
    <2>1. pc = "launched" /\ restoring = "no" /\ pc' \in {"stop", "runs", "finish"}
          /\ restoring' \in {"no", "sampler"} /\ (pc' = "finish" => restoring' = "sampler")
          /\ UNCHANGED <<SAMPLER_PID, controlVars, samplerVars>>
      BY <1>6 DEF FinishRun
    <2> QED
      BY <2>1
  <1>7. CASE RestoreSampler
    <2>1. /\ restoring = "sampler" /\ samplerPc' \in {samplerPc, "exited"}
          /\ restoring' = (IF SAMPLER_PID THEN "wait" ELSE "settings")
          /\ UNCHANGED <<pc, SAMPLER_PID, controlVars>>
      BY <1>7 DEF RestoreSampler, EndsSampler, S!SignalSampler, S!Exits
    <2> QED
      BY <2>1
  <1>8. CASE RestoreWait
    BY <1>8 DEF RestoreWait
  <1>12. CASE RestoreSettings
    <2>1. /\ pc' \in {pc, "report", "exited"} /\ (pc' = "exited" => pc \in {"exit", "exited"})
          /\ pc \in {"finish", "exit"} => pc' \notin {"finish", "exit"}
          /\ restoring = "settings" /\ restoring' = "no" /\ printkSaved # "yes" => printk' = printk
          /\ printkSaved = "yes" => printk' = "original"
          /\ UNCHANGED <<SAMPLER_PID, printkSaved, samplerPc>> /\ restoring = "settings" /\ restoring' = "no"
      BY <1>12 DEF RestoreSettings
    <2> QED
      BY <2>1
  <1>9. CASE Report \/ Abort \/ Trap \/ CpuChanges
    BY <1>9 DEF Report, Abort, Trap, CpuChanges
  <1>10. CASE Sampler
    BY <1>10 DEF Sampler, S!Sampler, S!SetUp, S!LoopHead, S!Stamp, S!ReadRails, S!Publish, S!Sleep
  <1>11. CASE UNCHANGED vars
    BY <1>11 DEF vars
  <1> QED
    BY <1>1, <1>2, <1>3, <1>4, <1>5, <1>6, <1>7, <1>8, <1>9, <1>10, <1>11, <1>12 DEF Next, Script, Exited

\* However the script ends, and around any number of signals, the console
\* level is the original one, but for one that the kernel refused to give or
\* to take back, and the sampler it started has exited.
THEOREM EnvironmentIsRestored == Spec => []RestoredAtExit
  <1>1. Restorable => RestoredAtExit
    BY DEF Restorable, Ended, RestoredAtExit
  <1> QED
    BY <1>1, RestorableInit, RestorableStep, PTL DEF Spec

-----------------------------------------------------------------------------
(* The verdict and the state of the cores.                                 *)

Run == [good : BOOLEAN, cpu : CpuStates]
AllGood == \A k \in 1 .. Len(runs) : runs[k].good
Earned == Len(runs) = Len(Plan) /\ AllGood /\ correct = {"before", "after"} /\ Len(verified) > 1

Typed ==
    /\ cpu \in CpuStates /\ changes \in Nat
    /\ runs \in Seq(Run) /\ Len(runs) <= Len(Plan) /\ verified \in Seq(CpuStates)
    /\ STATUS \in {0, 1} /\ kernelBad \in BOOLEAN /\ correct \subseteq {"before", "after"}

\* How far the script has come says what has been checked; the first run that
\* was not good is the last one.
Judged ==
    /\ pc \in {"checks", "quiet", "verify"} => verified = <<>>
    /\ pc \in BeforeRuns => runs = <<>>
    /\ pc \in {"correctness", "verifyAfter"} \cup InRuns \cup AfterRun => Len(verified) = 1
    /\ pc \in InRuns \cup AfterRun \cup {"verifyAfter"} => "before" \in correct
    /\ pc \in OfARun => Len(runs) < Len(Plan)
    /\ pc \in AfterRun => Len(runs) > 0
    /\ pc \in InRuns => AllGood
    /\ pc \in AfterRun => \A k \in 1 .. Len(runs) : k # Len(runs) => runs[k].good
    /\ pc = "verifyAfter" => Len(runs) = Len(Plan) /\ AllGood /\ correct = {"before", "after"}
    /\ pc \notin Done => STATUS = 1
    /\ pc \in {"finish", "report"} =>
         (STATUS = 0 <=> CLASSIFICATION = PassClassification) /\ (STATUS = 0 => Earned)
    /\ report # <<>> =>
         /\ pc \in {"exit", "exited"}
         /\ report[1] = 0 <=> Passed
         /\ Passed => Earned /\ ~kernelBad

\* As long as the cores are in the state that was verified, a single change
\* cannot have been before a run: it would have to be undone.
Held ==
    Len(verified) > 0 =>
        /\ verified[1] \in Acceptable
        /\ changes = 0 => cpu = verified[1]
        /\ changes <= 1 /\ (cpu = verified[1] \/ Len(verified) > 1) => \A k \in 1 .. Len(runs) : runs[k].cpu = verified[1]

VerdictInv == Restorable /\ Typed /\ Judged /\ Held

Failures ==
    {RunFailure[regime] : regime \in {"cold", "warm", "steady"}} \cup
    {"boot-id-unavailable", "payload-verification-failure", "cpu-frequency-policy-invalid", "power-sampler-start-failure",
     "correctness-precheck-failure", "correctness-postcheck-failure", "cpu-frequency-policy-changed", "kernel-log-failure"}

\* No failure has the name of the pass.
LEMMA FailuresAreNamed == PassClassification \notin Failures
  BY DEF PassClassification, Failures, RunFailure

LEMMA VerdictInit == Init => VerdictInv
  <1> SUFFICES ASSUME Init PROVE VerdictInv
    OBVIOUS
  <1>1. runs = <<>> /\ verified = <<>> /\ Len(<<>>) = 0 /\ runs \in Seq(Run) /\ verified \in Seq(CpuStates) /\ Len(Plan) \in Nat
    BY CpuAssumption DEF Init
  <1>2. Typed
    BY <1>1 DEF Init, Typed
  <1>3. Judged /\ Held
    BY <1>1 DEF Init, Judged, Held, BeforeRuns, OfARun, InRuns, AfterRun, Done
  <1> QED
    BY <1>2, <1>3, RestorableInit DEF VerdictInv

\* A step that leaves runs, checks and report alone and goes where it came from
\* or to a failure.
LEMMA FailingStep ==
    ASSUME VerdictInv, pc \notin Done, pc' = "finish", STATUS' = STATUS, CLASSIFICATION' \in Failures,
           UNCHANGED <<runs, verified, correct, report, cpu, changes>>, kernelBad' \in BOOLEAN
    PROVE  Typed' /\ Judged' /\ Held'
  <1>1. STATUS' = 1 /\ PassClassification' = PassClassification /\ report' = <<>>
    BY DEF VerdictInv, Judged, PassClassification, Done
  <1>2. Typed' /\ Held'
    BY DEF VerdictInv, Typed, Held
  <1>3. Judged'
    BY <1>1, FailuresAreNamed DEF Judged, BeforeRuns, OfARun, InRuns, AfterRun, Done
  <1> QED
    BY <1>2, <1>3

\* Steps that change no more than the place in the script.
LEMMA PassingStep ==
    ASSUME VerdictInv, UNCHANGED <<runs, verified, correct, report, cpu, changes, STATUS, CLASSIFICATION, kernelBad>>,
           \/ pc' = pc
           \/ pc = "checks" /\ pc' = "quiet"
           \/ pc = "runs" /\ Len(runs) < Len(Plan) /\ pc' \in {"prepare", "launch"}
           \/ pc = "prepare" /\ pc' = "start"
           \/ pc = "start" /\ pc' = "await"
           \/ pc = "await" /\ pc' = "launch"
           \/ pc = "launch" /\ pc' = "launched"
           \/ pc = "stop" /\ pc' = "stopWait"
           \/ pc = "stopWait" /\ pc' = "runs" /\ runs[Len(runs)].good
           \/ pc = "finish" /\ pc' = "report"
           \/ pc \notin {"exit", "exited"} /\ pc' = "exit"
           \/ pc = "exit" /\ pc' = "exited"
    PROVE  Typed' /\ Judged' /\ Held'
  <1>1. Typed' /\ Held' /\ (AllGood' <=> AllGood) /\ (Earned' <=> Earned) /\ (Passed' <=> Passed)
    BY DEF VerdictInv, Typed, Held, AllGood, Earned, Passed, PassClassification
  <1>2. pc = "stopWait" /\ pc' = "runs" => AllGood
    BY DEF VerdictInv, Judged, AllGood, AfterRun
  <1>3. Judged'
    BY <1>1, <1>2 DEF VerdictInv, Judged, BeforeRuns, OfARun, InRuns, AfterRun, Done, PassClassification
  <1> QED
    BY <1>1, <1>3

\* The correctness runs and the two looks at the cores.
LEMMA CheckStep ==
    ASSUME VerdictInv, QuietConsole \/ VerifyBefore \/ CorrectnessBefore \/ CorrectnessAfter \/ VerifyAfter
    PROVE  Typed' /\ Judged' /\ Held'
  <1> USE DEF At, Proceed, Fails, Conclude, controlVars, cpuVars, verdictVars, checkVars, runVars, powerVars
  <1>a. /\ Typed /\ Judged /\ Held /\ pc \notin Done /\ STATUS = 1 /\ report = <<>> /\ Len(Plan) \in Nat
        /\ UNCHANGED <<runs, cpu, changes, report>> /\ PassClassification' = PassClassification
        /\ kernelBad' \in BOOLEAN
    <2>1. /\ pc \in {"quiet", "verify", "correctness", "runs", "verifyAfter"} /\ UNCHANGED <<runs, cpu, changes, report>>
          /\ kernelBad' \in {kernelBad, TRUE, FALSE}
      BY DEF QuietConsole, VerifyBefore, CorrectnessBefore, CorrectnessAfter, RunCorrectness, VerifyAfter, KernelLogGrows
    <2>2. Len(Plan) \in Nat
      BY CpuAssumption
    <2> QED
      BY <2>1, <2>2 DEF VerdictInv, Typed, Judged, Done, PassClassification
  <1>b. report' = <<>> /\ (AllGood' <=> AllGood)
    BY <1>a DEF AllGood
  <1> USE DEF BeforeRuns, OfARun, InRuns, AfterRun, Done
  <1>1. CASE QuietConsole
    <2>1. pc = "quiet" /\ pc' = "verify" /\ UNCHANGED <<verified, correct, STATUS>>
      BY <1>1 DEF QuietConsole
    <2> QED
      BY <2>1, <1>a, <1>b DEF Typed, Judged, Held
  <1>2. CASE VerifyBefore /\ AcceptsCpu
    <2>1. pc = "verify" /\ pc' = "correctness" /\ verified' = <<cpu>> /\ UNCHANGED <<correct, STATUS>> /\ cpu \in Acceptable
      BY <1>2 DEF VerifyBefore, AcceptsCpu
    <2>2. /\ verified' \in Seq(CpuStates) /\ Len(verified') = 1 /\ verified'[1] = cpu /\ runs = <<>> /\ Len(runs) = 0
      BY <2>1, <1>a DEF Typed, Judged
    <2> QED
      BY <2>1, <2>2, <1>a, <1>b DEF Typed, Judged, Held
  <1>3. CASE VerifyBefore /\ ~AcceptsCpu
    <2>1. pc' = "finish" /\ UNCHANGED <<verified, correct, STATUS, kernelBad>> /\ CLASSIFICATION' = "cpu-frequency-policy-invalid"
      BY <1>3 DEF VerifyBefore
    <2> QED
      BY <2>1, <1>a, FailingStep DEF Failures
  <1>4. CASE CorrectnessBefore \/ CorrectnessAfter
    <2>1. CASE pc' = "finish"
      <3>1. CLASSIFICATION' \in Failures /\ UNCHANGED <<STATUS, correct, verified>>
        BY <1>4, <2>1 DEF CorrectnessBefore, CorrectnessAfter, RunCorrectness, Failures
      <3> QED
        BY <2>1, <3>1, <1>a, FailingStep
    <2>2. CASE pc = "correctness" /\ pc' # "finish"
      <3>1. pc' = "runs" /\ correct' = correct \cup {"before"} /\ UNCHANGED <<STATUS, verified>>
        BY <1>4, <2>2 DEF CorrectnessBefore, CorrectnessAfter, RunCorrectness
      <3>2. runs = <<>> /\ Len(runs) = 0 /\ AllGood
        BY <2>2, <1>a DEF Judged, AllGood
      <3> QED
        BY <2>2, <3>1, <3>2, <1>a, <1>b DEF Typed, Judged, Held
    <2>3. CASE pc = "runs" /\ pc' # "finish"
      <3>1. pc' = "verifyAfter" /\ correct' = correct \cup {"after"} /\ UNCHANGED <<STATUS, verified>> /\ Len(runs) = Len(Plan)
        BY <1>4, <2>3 DEF CorrectnessBefore, CorrectnessAfter, RunCorrectness
      <3>2. AllGood /\ correct' = {"before", "after"}
        BY <2>3, <3>1, <1>a DEF Judged, Typed
      <3> QED
        BY <2>3, <3>1, <3>2, <1>a, <1>b DEF Typed, Judged, Held
    <2> QED
      BY <1>4, <2>1, <2>2, <2>3 DEF CorrectnessBefore, CorrectnessAfter
  <1>5. CASE VerifyAfter /\ AcceptsCpu
    <2>1. /\ pc = "verifyAfter" /\ pc' = "finish" /\ verified' = Append(verified, cpu) /\ correct' = correct
          /\ STATUS' = 0 /\ CLASSIFICATION' = PassClassification /\ (verified # <<>> => cpu = verified[1])
      BY <1>5 DEF VerifyAfter, AcceptsCpu
    <2>2. /\ Len(verified) = 1 /\ verified \in Seq(CpuStates) /\ Len(runs) = Len(Plan) /\ AllGood
          /\ correct = {"before", "after"} /\ cpu \in CpuStates
      BY <2>1, <1>a DEF Typed, Judged
    <2>3. verified' \in Seq(CpuStates) /\ Len(verified') = 2 /\ verified'[1] = verified[1] /\ cpu = verified[1]
      <3>1. Len(<<>>) = 0
        OBVIOUS
      <3>2. verified # <<>>
        BY <3>1, <2>2
      <3>3. cpu = verified[1]
        BY <3>2, <2>1
      <3> DEFINE w == Append(verified, cpu)
      <3>4. verified \in Seq(CpuStates) /\ cpu \in CpuStates
        BY <2>2
      <3>5. w \in Seq(CpuStates) /\ Len(w) = Len(verified) + 1 /\ \A k \in 1 .. Len(verified) : w[k] = verified[k]
        BY ONLY <3>4, AppendProperties
      <3>6. verified' = w
        BY <2>1
      <3> HIDE DEF w
      <3> QED
        BY <3>3, <3>5, <3>6, <2>2
    <2>4. Earned'
      BY <2>1, <2>2, <2>3, <1>a, <1>b DEF Earned
    <2> QED
      BY <2>1, <2>2, <2>3, <2>4, <1>a, <1>b DEF Typed, Judged, Held
  <1>6. CASE VerifyAfter /\ ~AcceptsCpu
    <2>1. pc' = "finish" /\ UNCHANGED <<verified, correct, STATUS, kernelBad>> /\ CLASSIFICATION' = "cpu-frequency-policy-changed"
      BY <1>6 DEF VerifyAfter
    <2> QED
      BY <2>1, <1>a, FailingStep DEF Failures
  <1> QED
    BY <1>1, <1>2, <1>3, <1>4, <1>5, <1>6

\* The end of a measured run, under the state of the cores at that moment.
LEMMA RunStep == ASSUME VerdictInv, FinishRun PROVE Typed' /\ Judged' /\ Held'
  <1> USE DEF At, Proceed, Fails, Conclude, controlVars, cpuVars, verdictVars, checkVars, runVars, powerVars
  <1>a. /\ Typed /\ Judged /\ Held /\ pc = "launched" /\ STATUS = 1 /\ report = <<>>
        /\ Len(runs) \in Nat /\ Len(Plan) \in Nat /\ Len(runs) < Len(Plan) /\ AllGood /\ Len(verified) = 1 /\ "before" \in correct
        /\ UNCHANGED <<cpu, changes, report, verified, correct>> /\ PassClassification' = PassClassification
        /\ kernelBad' \in BOOLEAN /\ STATUS' = STATUS
    <2>1. /\ pc = "launched" /\ UNCHANGED <<cpu, changes, report, verified, correct, STATUS>> /\ kernelBad' \in {kernelBad, TRUE}
      BY DEF FinishRun, KernelLogGrows
    <2>2. Typed /\ Judged /\ Held /\ Len(Plan) \in Nat /\ Len(runs) \in Nat
      BY CpuAssumption DEF VerdictInv, Typed
    <2> QED
      BY <2>1, <2>2 DEF Typed, Judged, OfARun, InRuns, Done, PassClassification
  <1>1. PICK good \in BOOLEAN :
          /\ runs' = Append(runs, [good |-> good, cpu |-> cpu])
          /\ IF Sampled(Regime) THEN Proceed("stop")
             ELSE IF good THEN Proceed("runs") ELSE Fails(RunFailure[Regime])
    BY DEF FinishRun
  <1> DEFINE r == [good |-> good, cpu |-> cpu]
  <1>2. r \in Run /\ r.good = good /\ r.cpu = cpu
    BY <1>a DEF Typed, Run
  <1>3. runs' = Append(runs, r) /\ runs \in Seq(Run)
    BY <1>1, <1>a DEF Typed
  <1> HIDE DEF r
  <1>4. /\ runs' \in Seq(Run) /\ Len(runs') = Len(runs) + 1 /\ runs'[Len(runs')] = r
        /\ \A k \in 1 .. Len(runs') : k # Len(runs') => k \in 1 .. Len(runs) /\ runs'[k] = runs[k]
    <2> DEFINE T == Run
    <2>1. r \in T /\ runs \in Seq(T)
      BY <1>2, <1>3
    <2> HIDE DEF T
    <2>2. /\ runs' \in Seq(T) /\ Len(runs') = Len(runs) + 1 /\ runs'[Len(runs')] = r
          /\ \A k \in 1 .. Len(runs') : k # Len(runs') => k \in 1 .. Len(runs) /\ runs'[k] = runs[k]
      BY <1>3, <2>1
    <2> QED
      BY <2>2 DEF T
  <1>5. Typed'
    BY <1>4, <1>a DEF Typed
  <1>6. Held'
    <2>1. ASSUME changes <= 1, cpu = verified[1], NEW k \in 1 .. Len(runs') PROVE runs'[k].cpu = verified[1]
      <3>1. CASE k = Len(runs')
        BY <2>1, <3>1, <1>2, <1>4
      <3>2. CASE k # Len(runs')
        <4>1. \A j \in 1 .. Len(runs) : runs[j].cpu = verified[1]
          BY <2>1, <1>a DEF Held
        <4>2. k \in 1 .. Len(runs) /\ runs'[k] = runs[k]
          BY <3>2, <1>4
        <4> QED
          BY <4>1, <4>2
      <3> QED
        BY <3>1, <3>2
    <2>2. verified' = verified /\ changes' = changes /\ cpu' = cpu /\ Len(verified) = 1
      BY <1>a
    <2>3. verified[1] \in Acceptable /\ (changes = 0 => cpu = verified[1])
      BY <1>a DEF Held
    <2> QED
      BY <2>1, <2>2, <2>3 DEF Held
  <1>7. /\ good => AllGood'
        /\ \A k \in 1 .. Len(runs') : k # Len(runs') => runs'[k].good
    BY <1>2, <1>4, <1>a DEF AllGood
  <1>8. Regime \in {"cold", "warm", "steady"}
    <2>1. Len(runs) + 1 \in 1 .. Len(Plan) /\ Plan \in Seq({"cold", "warm", "steady"})
      BY <1>a, CpuAssumption
    <2> QED
      BY <2>1 DEF Regime
  <1>9. \/ pc' = "stop"
        \/ pc' = "runs" /\ good
        \/ pc' = "finish" /\ CLASSIFICATION' \in Failures
    BY <1>1, <1>8 DEF Failures
  <1>10. Judged'
    BY <1>4, <1>7, <1>9, <1>a, FailuresAreNamed DEF Judged, BeforeRuns, OfARun, InRuns, AfterRun, Done
  <1> QED
    BY <1>5, <1>6, <1>10

\* The last word of the script: the kernel log overrides what it would say.
LEMMA ReportStep == ASSUME VerdictInv, Report PROVE Typed' /\ Judged' /\ Held'
  <1>1. /\ pc = "report" /\ pc' = "exit" /\ UNCHANGED <<runs, verified, correct, cpu, changes, kernelBad>>
        /\ STATUS' = (IF kernelBad THEN 1 ELSE STATUS)
        /\ CLASSIFICATION' = (IF kernelBad THEN "kernel-log-failure" ELSE CLASSIFICATION)
        /\ report'[1] = STATUS' /\ report'[2] = CLASSIFICATION' /\ report' # <<>>
        /\ PassClassification' = PassClassification
    BY DEF Report, At, Leave, FinalStatus, cpuVars, checkVars, runVars, PassClassification
  <1>2. Typed' /\ Held'
    BY <1>1 DEF VerdictInv, Typed, Held
  <1>3. (STATUS = 0 <=> CLASSIFICATION = PassClassification) /\ (STATUS = 0 => Earned)
    BY <1>1 DEF VerdictInv, Judged
  <1>4. Earned' <=> Earned
    BY <1>1 DEF Earned, AllGood
  <1>5. (report'[1] = 0 <=> Passed') /\ (Passed' => Earned' /\ ~kernelBad')
    BY <1>1, <1>3, <1>4, FailuresAreNamed DEF Passed, Failures
  <1>6. Judged'
    BY <1>1, <1>5 DEF Judged, BeforeRuns, OfARun, InRuns, AfterRun, Done
  <1> QED
    BY <1>2, <1>6

\* Another change of the cores, at any moment.
LEMMA CpuStep == ASSUME VerdictInv, CpuChanges PROVE Typed' /\ Judged' /\ Held'
  <1>1. /\ changes' = changes + 1 /\ cpu' \in CpuStates /\ cpu' # cpu
        /\ UNCHANGED <<pc, runs, verified, correct, STATUS, CLASSIFICATION, report, kernelBad>>
    BY DEF CpuChanges, verdictVars, checkVars, runVars
  <1>2. Typed' /\ Judged'
    BY <1>1 DEF VerdictInv, Typed, Judged, AllGood, Earned, Passed, PassClassification
  <1>3. Held'
    BY <1>1 DEF VerdictInv, Typed, Held
  <1> QED
    BY <1>2, <1>3

LEMMA VerdictInvariant == Spec => []VerdictInv
  <1>1. ASSUME VerdictInv, [Next]_vars PROVE Typed' /\ Judged' /\ Held'
    <2> USE DEF At, Proceed, Fails, Conclude, Leave, controlVars, cpuVars, verdictVars, checkVars, runVars, powerVars
    <2>0. kernelBad \in BOOLEAN
      BY <1>1 DEF VerdictInv, Typed
    <2>1. CASE CheckPrerequisites \/ NextRun \/ AwaitReady
      <3>1. UNCHANGED <<runs, verified, correct, report, cpu, changes, STATUS, kernelBad>> /\ pc \notin Done
        BY <2>1 DEF CheckPrerequisites, NextRun, AwaitReady, Done
      <3>2. CASE pc' = "finish"
        <4>1. CLASSIFICATION' \in Failures
          BY <2>1, <3>2 DEF CheckPrerequisites, NextRun, AwaitReady, Failures
        <4> QED
          BY <1>1, <2>0, <3>1, <3>2, <4>1, FailingStep
      <3>3. CASE pc' # "finish"
        <4>1. /\ CLASSIFICATION' = CLASSIFICATION
              /\ \/ pc = "checks" /\ pc' = "quiet"
                 \/ pc = "runs" /\ Len(runs) < Len(Plan) /\ pc' \in {"prepare", "launch"}
                 \/ pc = "await" /\ pc' \in {"await", "launch"}
          BY <2>1, <3>3 DEF CheckPrerequisites, NextRun, AwaitReady
        <4> QED
          BY <1>1, <3>1, <4>1, PassingStep
      <3> QED
        BY <3>2, <3>3
    <2>2. CASE PreparePower \/ StartSampler \/ Launch \/ StopSampler
      BY <1>1, <2>2, PassingStep DEF PreparePower, StartSampler, Launch, StopSampler
    <2>3. CASE WaitForSampler
      <3>1. UNCHANGED <<runs, verified, correct, report, cpu, changes, STATUS, kernelBad>> /\ pc = "stopWait" /\ pc \notin Done
        BY <2>3 DEF WaitForSampler, Done
      <3>2. CASE runs[Len(runs)].good
        BY <1>1, <2>3, <3>1, <3>2, PassingStep DEF WaitForSampler
      <3>3. CASE ~runs[Len(runs)].good
        <4>1. pc' = "finish" /\ CLASSIFICATION' \in Failures
          BY <2>3, <3>3 DEF WaitForSampler, Failures
        <4> QED
          BY <1>1, <2>0, <3>1, <4>1, FailingStep
      <3> QED
        BY <3>2, <3>3
    <2>4. CASE QuietConsole \/ VerifyBefore \/ CorrectnessBefore \/ CorrectnessAfter \/ VerifyAfter
      BY <1>1, <2>4, CheckStep
    <2>5. CASE FinishRun
      BY <1>1, <2>5, RunStep
    <2>6. CASE RestoreSampler \/ RestoreWait \/ Trap
      BY <1>1, <2>6, PassingStep DEF RestoreSampler, RestoreWait, Trap
    <2>7. CASE RestoreSettings
      <3>1. UNCHANGED <<runs, verified, correct, report, cpu, changes, STATUS, CLASSIFICATION, kernelBad>>
            /\ (pc' = pc \/ (pc = "finish" /\ pc' = "report") \/ (pc = "exit" /\ pc' = "exited"))
        BY <2>7 DEF RestoreSettings
      <3> QED
        BY <1>1, <3>1, PassingStep
    <2>8. CASE Report
      BY <1>1, <2>8, ReportStep
    <2>9. CASE Abort
      BY <1>1, <2>9, PassingStep DEF Abort
    <2>10. CASE CpuChanges
      BY <1>1, <2>10, CpuStep
    <2>11. CASE Sampler \/ UNCHANGED vars
      BY <1>1, <2>11, PassingStep DEF Sampler, vars
    <2> QED
      BY <1>1, <2>1, <2>2, <2>3, <2>4, <2>5, <2>6, <2>7, <2>8, <2>9, <2>10, <2>11 DEF Next, Script, Exited
  <1>2. VerdictInv /\ [Next]_vars => VerdictInv'
    BY <1>1, RestorableStep DEF VerdictInv
  <1> QED
    BY <1>2, VerdictInit, PTL DEF Spec

\* Status 0 is archived exactly with the passing verdict, behind which are both
\* correctness runs, every run of the plan and a clean kernel log.
THEOREM PassIsEarned == Spec => []VerdictIsEarned
  <1>1. VerdictInv => VerdictIsEarned
    <2> SUFFICES ASSUME VerdictInv, report # <<>> PROVE VerdictIsEarned
      BY DEF VerdictIsEarned
    <2>1. DOMAIN runs = 1 .. Len(runs)
      BY DEF VerdictInv, Typed
    <2> QED
      BY <2>1 DEF VerdictInv, Judged, Earned, AllGood, VerdictIsEarned
  <1> QED
    BY <1>1, VerdictInvariant, PTL

\* If the cores changed once at most, every run behind a passing verdict ended
\* in the one acceptable state that was verified before and after.
THEOREM OneChangeIsSeen == Spec => []FrequencyWasHeld
  <1>1. VerdictInv => FrequencyWasHeld
    <2> SUFFICES ASSUME VerdictInv, Passed, changes <= 1 PROVE FrequencyWasHeld
      BY DEF FrequencyWasHeld
    <2>1. Earned /\ DOMAIN runs = 1 .. Len(runs)
      BY DEF VerdictInv, Typed, Judged, Passed
    <2> QED
      BY <2>1 DEF VerdictInv, Typed, Held, Earned, FrequencyWasHeld
  <1> QED
    BY <1>1, VerdictInvariant, PTL
=============================================================================
