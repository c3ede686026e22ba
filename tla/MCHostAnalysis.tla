---------------------------- MODULE MCHostAnalysis ----------------------------
(* The programs of the host that read what was measured, one at a time, with *)
(* evidence that passes and, for each of their conditions, evidence that     *)
(* fails it alone.                                                           *)
EXTENDS MCHostImport, InputSets, HostReports

CONSTANT Masked

VARIABLES
    part,
    program, issued, running, ended, buffer, status, handled, servicePc, seen, polls, raced, trace

importVars == <<import, importPc, archives, index, sessions, rows, baseline, bootIds, summary, pending, files, report>>
traceVars == <<program, issued, running, ended, buffer, status, handled, servicePc, seen, polls, raced, trace>>

-----------------------------------------------------------------------------
(* Sessions of the CPU.                                                      *)

CpuRun(regime, launch, samples) ==
    [regime |-> regime, launch |-> launch, samples |-> samples, expected |-> Len(samples), affinity |-> "mask:0xf"]
BothPhases(value) == [phase \in {"before", "after"} |-> value]
CpuArchive(stem, boot, power) ==
    [stem |-> stem, safe |-> TRUE, benchmarkEnvs |-> 1, status |-> 0,
     classification |-> "correctness-qualified-performance-pass", boot |-> boot, timeSyncBoot |-> boot,
     ntp |-> "no", timeSyncNtp |-> "no", correctness |-> BothPhases("pass"), badPatterns |-> 0,
     governors |-> BothPhases(<<"userspace", "userspace">>), frequencies |-> BothPhases(<<1199, 1199>>),
     frequency |-> 1199, governor |-> "userspace", policy |-> "fixed-verified", model |-> "lenet", format |-> "onnx",
     manifest |-> [lenet |-> [onnx |-> "m", ort |-> "o", input |-> "i", output |-> "g"]],
     hashes |-> [model |-> "m", input |-> "i", output |-> "g", runtime |-> "r"], build |-> "b",
     mask |-> "mask:0xf", steadySamples |-> 3,
     runs |-> <<CpuRun("cold", 9, <<2>>), CpuRun("warm", 7, <<2>>), CpuRun("warm", 8, <<3>>),
                CpuRun("steady", 30, <<5, 3, 4>>)>>,
     powerSample |-> IF power = None THEN 0 ELSE 1, power |-> power]

Cpu1 == CpuArchive("s1", "b1", None)
Cpu2 == CpuArchive("s2", "b2", None)
Sampled1 == CpuArchive("s1", "b1", Power)
Sampled2 == CpuArchive("s2", "b2", [Power EXCEPT !.interval = Around(1, 6)])
\* The trace of a sweep with one rail named twice, and one whose time goes back.
RailTwice == [Power EXCEPT !.active = Append(Active, Row(2, 6, "PL", "int", 1))]
Backwards == [Power EXCEPT !.active = Sweep(0, 1, 1, 2) \o Sweep(1, 7, 5, 1) \o Sweep(2, 3, 2, 4)]
\* A trace whose last sweep was cut, and one with such a sweep amid the others.
CutAtEnd == [Power EXCEPT !.active = Append(Active, Row(3, 7, "PS", "cpu", 3))]
CutWithin == [Power EXCEPT !.active = Sweep(0, 1, 1, 2) \o <<Row(1, 3, "PS", "cpu", 5)>> \o Sweep(2, 6, 2, 7)]

BrokenCpu(a) ==
    {[a EXCEPT !.safe = FALSE], [a EXCEPT !.benchmarkEnvs = 0], [a EXCEPT !.status = 4],
     [a EXCEPT !.classification = "correctness-failed"], [a EXCEPT !.boot = None, !.timeSyncBoot = None],
     [a EXCEPT !.timeSyncBoot = "b9"], [a EXCEPT !.timeSyncNtp = "yes"], [a EXCEPT !.correctness["after"] = "fail"],
     [a EXCEPT !.badPatterns = 1], [a EXCEPT !.governors["after"] = <<"userspace", "ondemand">>],
     [a EXCEPT !.frequencies["before"] = <<1199, 600>>], [a EXCEPT !.frequencies["after"] = <<>>],
     [a EXCEPT !.frequency = 600], [a EXCEPT !.policy = "unverified"], [a EXCEPT !.governor = "schedutil"],
     [a EXCEPT !.model = "resnet50"], [a EXCEPT !.format = "ort"], [a EXCEPT !.format = "pb"],
     [a EXCEPT !.hashes["output"] = "x"], [a EXCEPT !.hashes["runtime"] = None], [a EXCEPT !.build = None],
     [a EXCEPT !.runs = <<>>], [a EXCEPT !.runs[1].expected = 2], [a EXCEPT !.runs[4].samples = <<5, 0, 4>>],
     [a EXCEPT !.runs[2].affinity = "mask:0x1"]}
CpuCases ==
    {<<Cpu1>>, <<Cpu1, Cpu2>>, <<Cpu1, [Cpu2 EXCEPT !.stem = "s1"]>>, <<Sampled1>>, <<Sampled1, Sampled2>>,
     <<[Sampled1 EXCEPT !.power = RailTwice]>>, <<[Sampled1 EXCEPT !.power = Backwards]>>,
     <<[Sampled1 EXCEPT !.power = CutAtEnd]>>, <<[Sampled1 EXCEPT !.power = CutWithin]>>,
     <<[Cpu1 EXCEPT !.powerSample = 1]>>,
     <<Cpu1, [Cpu2 EXCEPT !.stem = "s1", !.runs = <<CpuRun("steady", 9, <<1, 2>>)>>]>>,
     <<Cpu1, [Cpu2 EXCEPT !.runs = <<CpuRun("steady", 9, <<1, 2>>)>>]>>}
    \cup {<<>>, <<Cpu1, [Cpu2 EXCEPT !.hashes["runtime"] = "x"]>>, <<Cpu1, [Cpu2 EXCEPT !.boot = "b1", !.timeSyncBoot = "b1"]>>,
          <<Cpu1, Sampled2>>}
    \cup {<<b>> : b \in BrokenCpu(Cpu1)} \cup {<<Cpu1, b>> : b \in BrokenCpu(Cpu2)}
    \cup {<<[Sampled1 EXCEPT !.power = p]>> :
            p \in {[Power EXCEPT !.idle = Sweep(0, 1, 1, 1)], [Power EXCEPT !.interval.start = 5],
                   [Power EXCEPT !.idle = Sweep(0, 1, 1, 1) \o Sweep(1, 1, 1, 1)],
                   [Power EXCEPT !.active = Sweep(0, 3, 1, 2) \o Sweep(1, 6, 5, 1)],
                   [Power EXCEPT !.active = <<Row(0, 1, "PS", "cpu", 1), Row(1, 7, "PS", "cpu", 1)>>]}}

-----------------------------------------------------------------------------
(* Sessions that ran a set of two inputs.                                    *)

Frame(warmup, input, execution) == [warmup |-> warmup, input |-> input, execution |-> execution, update |-> 1]
Frames == <<Frame(TRUE, 0, 9), Frame(FALSE, 0, 4), Frame(FALSE, 1, 6), Frame(FALSE, 0, 5), Frame(FALSE, 1, 3)>>
Variation(boot, set) ==
    [safe |-> TRUE, benchmarkEnvs |-> 1, status |-> 0, inputSet |-> set,
     classification |-> IF set = "stream20" THEN "stream-pipeline-pass" ELSE "output-stable-input-variation-pass",
     badPatterns |-> 0, irqDelta |-> 5, boot |-> boot, provenance |-> [model |-> "lenet", module |-> "k", clock |-> 100],
     verification |-> "stable-output-pass", results |-> [i \in 0..1 |-> i], profileHolds |-> TRUE, inputCount |-> 2,
     pipeline |-> IF set = "stream20" THEN 12 ELSE 0, samples |-> Frames]
Multi == Variation("b1", "multi20")
BrokenVariation(a) ==
    {[a EXCEPT !.safe = FALSE], [a EXCEPT !.status = 1], [a EXCEPT !.inputSet = "single"],
     [a EXCEPT !.classification = "stream-pipeline-pass"], [a EXCEPT !.badPatterns = 2], [a EXCEPT !.irqDelta = 0],
     [a EXCEPT !.boot = None], [a EXCEPT !.provenance["module"] = None], [a EXCEPT !.provenance["clock"] = None],
     [a EXCEPT !.verification = "mismatch"], [a EXCEPT !.results = [i \in 0..0 |-> 1]], [a EXCEPT !.inputCount = 1],
     [a EXCEPT !.profileHolds = FALSE], [a EXCEPT !.samples = SubSeq(Frames, 1, 4)],
     [a EXCEPT !.samples = SubSeq(Frames, 1, 1)], [a EXCEPT !.samples = Frames \o <<Frame(FALSE, 1, 2)>>],
     [a EXCEPT !.samples = Frames \o <<Frame(FALSE, 2, 2)>>]}
VariationCases ==
    {<<>>, <<Multi>>, <<Multi, Variation("b2", "multi20")>>, <<Variation("b1", "stream20")>>,
     <<Variation("b1", "stream20"), [Variation("b2", "stream20") EXCEPT !.pipeline = 9]>>,
     <<Multi, [Variation("b2", "multi20") EXCEPT !.samples = Frames \o SubSeq(Frames, 2, 3)]>>,
     <<Multi, Multi>>, <<Multi, Variation("b2", "stream20")>>, <<[Variation("b1", "stream20") EXCEPT !.pipeline = 0]>>,
     <<Multi, [Variation("b2", "multi20") EXCEPT !.provenance["module"] = "x"]>>,
     <<Multi, [Variation("b2", "multi20") EXCEPT !.results = [i \in 0..1 |-> 1]]>>}
    \cup {<<b>> : b \in BrokenVariation(Multi)}

-----------------------------------------------------------------------------
(* A campaign of cohorts of two sessions.                                    *)

Member(key, k) ==
    [boot |-> <<key, k>>, archive |-> <<key, k>>, powered |-> key[3] = "power", executed |-> 4, energy |-> 10 + k]
Cohort(key) ==
    [sessionCount |-> 2, sessions |-> <<Member(key, 1), Member(key, 2)>>, model |-> key[2],
     powerSample |-> IF key[3] = "power" THEN 1 ELSE 0, status |-> IF key[1] = "nvdla" THEN "qualified" ELSE "pass",
     latency |-> [r \in {"cold", "warm", "steady"} |->
                    IF key[1] = "nvdla" THEN [median |-> 5, lower |-> 4, upper |-> 7]
                    ELSE [median |-> 20, lower |-> 18, upper |-> 21]]]
AllKeys == {"nvdla", "cpu"} \X {"lenet", "resnet50"} \X {"latency", "power"}
Cohorts == [key \in AllKeys |-> Cohort(key)]
ArchiveNames == {<<key, k>> : key \in AllKeys, k \in 1..3}
NvdlaPower == <<"nvdla", "lenet", "power">>
CpuLatency == <<"cpu", "lenet", "latency">>
BrokenCohorts ==
    {[Cohorts EXCEPT ![key].sessionCount = 1] : key \in AllKeys}
    \cup {[Cohorts EXCEPT ![key].sessions = <<@[1], @[2], Member(key, 3)>>] : key \in AllKeys}
    \cup {[Cohorts EXCEPT ![key].sessions[2].boot = <<key, 1>>] : key \in AllKeys}
    \cup {[Cohorts EXCEPT ![key].sessions[2].boot = None] : key \in AllKeys}
    \cup {[Cohorts EXCEPT ![NvdlaPower].powerSample = 0], [Cohorts EXCEPT ![NvdlaPower].model = "resnet50"],
          [Cohorts EXCEPT ![NvdlaPower].sessions[1].powered = FALSE], [Cohorts EXCEPT ![NvdlaPower].sessions[1].executed = 5],
          [Cohorts EXCEPT ![CpuLatency].status = "fail"], [Cohorts EXCEPT ![NvdlaPower].status = "unqualified"],
          [Cohorts EXCEPT ![CpuLatency].sessions[2].archive = <<NvdlaPower, 1>>]}
CampaignCases ==
    {[cohorts |-> Cohorts, available |-> ArchiveNames],
     [cohorts |-> Cohorts, available |-> {a \in ArchiveNames : a[2] < 3}],
     [cohorts |-> Cohorts, available |-> ArchiveNames \ {<<NvdlaPower, 1>>}]}
    \cup {[cohorts |-> c, available |-> ArchiveNames] : c \in BrokenCohorts}

-----------------------------------------------------------------------------
(* Two classes of images, and what a lock file may pin: nothing, all of it, too *)
(* few, one with a wrong label, one that is not there.                         *)

FiveLabels == <<0, 1, 1, 0, 1>>
PinnedChoices ==
    LET Nothing == [c \in {} |-> <<>>]
        Lock(lenet, resnet50) == [lenet |-> lenet, resnet50 |-> resnet50]
    IN  {Lock(Nothing, Nothing), Lock([c \in 0..1 |-> IF c = 0 THEN <<4, 1>> ELSE <<3, 5>>], [c \in {1} |-> <<0, 2>>]),
         Lock([c \in {0} |-> <<1>>], Nothing), Lock([c \in {1} |-> <<3, 4>>], Nothing),
         Lock(Nothing, [c \in {0} |-> <<1, 2>>]), Lock(Nothing, [c \in {1} |-> <<1>>])}

-----------------------------------------------------------------------------
(* Three operations, and other programs that a comparison has to tell apart. *)

Op(bit, value, needs) == [bit |-> bit, value |-> value, needs |-> needs]
ThreeOps == <<Op(0, 1, {}), Op(1, 1, {}), Op(0, 2, {1})>>
Trace == INSTANCE TraceRun WITH
    Program <- ThreeOps,
    Programs <- {ThreeOps, SubSeq(ThreeOps, 1, 2), <<Op(1, 1, {}), Op(0, 2, {}), Op(0, 1, {2})>>,
                 <<Op(0, 1, {}), Op(1, 1, {}), Op(1, 2, {2})>>},
    Buffers <- {4, 8, 9, 12}, MaxPolls <- 1,
    StateRegisters <- {"S_POINTER", "INTR_STATUS"}, AddressRegisters <- {"ADDR_LOW", "ADDR_HIGH", "OUT_ADDR"},
    HighRegisters <- {"ADDR_HIGH"}, OutputRegisters <- {"OUT_ADDR"}, ExtmemBase <- 4, ExtmemHigh <- 11,
    InterruptStatus <- "INTR_STATUS"

-----------------------------------------------------------------------------
\* The variables of the programs that do not run keep one value.
ImportIdle == Init
ReportsIdle == tool = "none" /\ evidence = <<>> /\ reportPc = "idle" /\ outcome = <<>> /\ unwritten = <<>>
SetsIdle ==
    /\ call = 0 /\ setPc = "idle" /\ cached = <<>> /\ verified = {} /\ pinned = <<>>
    /\ stage = <<>> /\ out = <<>> /\ before = <<>> /\ removing = FALSE
TraceIdle ==
    /\ program = <<>> /\ issued = 0 /\ running = {} /\ ended = {} /\ buffer = 0 /\ status = {} /\ handled = {}
    /\ servicePc = "idle" /\ seen = {} /\ polls = 0 /\ raced = FALSE /\ trace = <<>>

AnalysisInit ==
    \/ part = "import" /\ Init /\ ReportsIdle /\ SetsIdle /\ TraceIdle
    \/ part = "reports" /\ ImportIdle /\ ReportsInit /\ SetsIdle /\ TraceIdle
    \/ part = "sets" /\ ImportIdle /\ ReportsIdle /\ SetsInit /\ TraceIdle
    \/ part = "trace" /\ ImportIdle /\ ReportsIdle /\ SetsIdle /\ Trace!TraceInit

AnalysisNext ==
    /\ UNCHANGED part
    /\ \/ part = "import" /\ Next /\ UNCHANGED <<reportVars, setVars, traceVars>>
       \/ part = "reports" /\ ReportsNext /\ UNCHANGED <<importVars, setVars, traceVars>>
       \/ part = "sets" /\ SetsNext /\ UNCHANGED <<importVars, reportVars, traceVars>>
       \/ part = "trace" /\ Trace!TraceNext /\ UNCHANGED <<importVars, reportVars, setVars>>

AnalysisSpec == AnalysisInit /\ [][AnalysisNext]_<<part, importVars, reportVars, setVars, traceVars>>

-----------------------------------------------------------------------------
\* trace.py 585-694: two runs pass if and only if they are the same program.
TracesMatchIfEquivalent == part = "trace" => Trace!TracesMatchIfEquivalent
=============================================================================
