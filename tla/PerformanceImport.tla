-------------------------- MODULE PerformanceImport --------------------------
(***************************************************************************)
(* import_performance_archives: the archives of NVDLA benchmark sessions   *)
(* are checked one after the other, their samples summarised, and a report *)
(* is written file by file into a directory that may hold an earlier one.  *)
(* An archive is a record of the evidence the importer looks at.           *)
(***************************************************************************)
EXTENDS PowerTrace

CONSTANTS
    Collections,    \* the sequences of archives that an import is given
    Estimates,      \* number of resampled medians, 10,000 in the code
    MaxImports,     \* bound: imports into one directory
    None

Regimes == <<"cold", "warm", "steady">>
PHASES == <<"runtime_create", "loadable_read", "runtime_load", "emu_init", "input_setup", "output_setup",
            "output_write", "buffer_cleanup", "emu_stop", "runtime_unload", "runtime_destroy">>
SamplerKeys == {"power_sampler_sha256", "power_interval_ms", "power_phase", "power_sampler_cpu"}
PROVENANCE_KEYS == SamplerKeys \cup
    {"benchmark_interface", "model", "input_sha256", "loadable_sha256", "module_sha256", "runtime_sha256",
     "runtime_library_sha256", "kernel_release", "nvdla_clock_hz", "nvdla_clock_expected_hz",
     "nvdla_clock_tolerance_hz", "payload_sha256", "firmware_log", "benchmark_cpu", "power_sample"}

VARIABLES
    import,         \* which import into the directory this is
    importPc, archives, index,
    sessions, rows, baseline, bootIds,
    summary,
    pending,        \* the files this import still has to write
    files,          \* for each file of the directory the import that wrote it
    report          \* the files that the report in the directory refers to

loopVars   == <<index, sessions, rows, baseline, bootIds>>
outputVars == <<pending, files, report>>
vars == <<import, importPc, archives, loopVars, summary, outputVars>>

-----------------------------------------------------------------------------
(* The evidence of one archive.                                            *)

\* _load_session_root: one benchmark.env, in a bundle without links or ways out.
HoldsOneSession(a) == a.safe /\ a.benchmarkEnvs = 1

\* _environment_evidence: what benchmark.env says is what the files beside it say.
EnvironmentHolds(a) ==
    /\ a.schema = 2
    /\ a.boot # None /\ a.boot = a.bootFile /\ a.boot = a.timeSyncBoot
    /\ a.ntp # None /\ a.ntp = a.timeSyncNtp
    /\ a.timestamp # None
    /\ \A phase \in {"before", "after"} :
        LET t == a.temperature[phase]
        IN  /\ <<t.status, t.count>> = t.recorded
            /\ \/ t.status = "available" /\ t.count > 0
               \/ t.status = "unavailable" /\ t.count = 0

\* _provenance: the sampler's keys count only for a session that used it.
Provenance(a) ==
    [key \in PROVENANCE_KEYS |->
        IF key \in SamplerKeys /\ a.keys["power_sample"] # "1" THEN "disabled" ELSE a.keys[key]]

IsSequence(s) == s \in Seq(ToSet(s))

\* An import is given finite sequences, the runs it looks for are those of the
\* three regimes, None is no provenance, and what is read with int() is an
\* integer: the phases of a run, its launch, and the times of its samples.
IsRun(run) ==
    /\ run.regime \in ToSet(Regimes)
    /\ run.launch \in Int \cup {None}
    /\ \A p \in ToSet(PHASES) : run.phases[p] \in Int
    /\ IsSequence(run.samples)
    /\ \A s \in ToSet(run.samples) : s.execution \in Int /\ s.extract \in Int
ASSUME CollectionsAssumption ==
    \A c \in Collections :
        /\ IsSequence(c)
        /\ \A k \in DOMAIN c :
            /\ Provenance(c[k]) # None
            /\ IsSequence(c[k].runs)
            /\ \A j \in DOMAIN c[k].runs : IsRun(c[k].runs[j])
            /\ c[k].power # None => IsPower(c[k].power)
ASSUME EstimatesAssumption == Estimates \in Nat \ {0}

ClockHolds(c) ==
    /\ c.status = "verified-xsa-rate"
    /\ c.rate > 0 /\ c.expected > 0 /\ c.tolerance >= 0
    /\ c.rate - c.expected \in -c.tolerance..c.tolerance

ProvenanceHolds(a) ==
    /\ a.complexity.engines /\ a.complexity.operations = a.complexity.hwlCount
    /\ a.complexity.size = a.complexity.loadableSize
    /\ ClockHolds(a.clock)
    /\ \A key \in PROVENANCE_KEYS : Provenance(a)[key] # None

\* _read_profile.
ProfileHolds(p) ==
    /\ p.schema \in {2, 3, 4} /\ p.clock = "CLOCK_MONOTONIC_RAW"
    /\ p.resolution > 0 /\ p.overhead >= 0
    /\ p.consistent /\ p.status = 0

StartsProcess(run) == run.regime \in {"cold", "warm"}
Measured(run) == Subsequence(run.samples, {k \in DOMAIN run.samples : ~run.samples[k].warmup})

\* _profile_rows: what each of the runs has to show.
RunHolds(run, cpu) ==
    /\ run.verification = "exact-pass" /\ run.irqDelta > 0
    /\ ProfileHolds(run.profile)
    /\ run.affinity = cpu /\ run.scheduling
    /\ \A k \in DOMAIN Measured(run) :
        LET execution == Measured(run)[k].execution
        IN  /\ execution > 0 /\ 100 * run.profile.overhead <= execution
            /\ StartsProcess(run) => run.launch # None

RunsIn(a, regime) == Subsequence(a.runs, {k \in DOMAIN a.runs : a.runs[k].regime = regime})
WarmedRunsOf(a) == RunsIn(a, "warm") \o RunsIn(a, "steady")
RunsOf(a) == RunsIn(a, "cold") \o RunsIn(a, "warm") \o RunsIn(a, "steady")

\* One row for each measured sample, under the name of the archive's directory.
RowsOfRun(a, run) ==
    [k \in DOMAIN Measured(run) |->
        [session |-> a.name, regime |-> run.regime, profile |-> run.name, index |-> k,
         latency |-> IF StartsProcess(run) THEN run.launch ELSE Measured(run)[k].execution,
         execution |-> Measured(run)[k].execution, extract |-> Measured(run)[k].extract,
         phases |-> run.phases, userTime |-> run.userTime, iterations |-> Len(run.samples)]]

ProfileRows(a) == FlattenSeq([k \in DOMAIN RunsOf(a) |-> RowsOfRun(a, RunsOf(a)[k])])

\* Without a directory, or with a file of no rows, there is no power.
PowerAvailable(a) == a.power # None /\ a.power.active # <<>>
SteadyRun(a) == CHOOSE r \in ToSet(a.runs) : r.regime = "steady"
SessionPower(a) ==
    IF ~PowerAvailable(a) THEN None
    ELSE PowerSummary(a.power.idle, a.power.active, a.power.interval, Len(SteadyRun(a).samples))
PowerHolds(a) ==
    /\ a.power # None => Parses(a.power.idle)
    /\ PowerAvailable(a) =>
        /\ \E r \in ToSet(a.runs) : r.regime = "steady"
        /\ ~PowerRaises(a.power.idle, a.power.active, a.power.interval)

\* Nothing imported differs from the first archive in what was built and how it ran.
Baseline(a) == IF baseline = None THEN Provenance(a) ELSE baseline
SameBuild(a) == Provenance(a) = Baseline(a)
AnyBoot(a) == TRUE
FreshBoot(a) == a.boot \notin bootIds

Acceptable(a) ==
    /\ HoldsOneSession(a)
    /\ a.status = 0 /\ a.classification = "exact-performance-pass"
    /\ EnvironmentHolds(a) /\ FreshBoot(a)
    /\ ProvenanceHolds(a) /\ SameBuild(a)
    /\ \A k \in DOMAIN a.runs : RunHolds(a.runs[k], a.keys["benchmark_cpu"])
    /\ ProfileRows(a) # <<>>
    /\ PowerHolds(a)

-----------------------------------------------------------------------------
(* The summaries.                                                          *)

OfRegime(regime) == Subsequence(rows, {k \in DOMAIN rows : rows[k].regime = regime})
SessionsOf(rs) == {rs[k].session : k \in DOMAIN rs}
Of(rs, session) == Subsequence(rs, {k \in DOMAIN rs : rs[k].session = session})
Latencies(rs) == [k \in DOMAIN rs |-> rs[k].latency]
Executions(rs) == [k \in DOMAIN rs |-> rs[k].execution]

\* _profile_groups: the rows of one profile of one session.
Groups(rs) == {<<rs[k].session, rs[k].profile>> : k \in DOMAIN rs}
Group(rs, g) == Subsequence(rs, {k \in DOMAIN rs : <<rs[k].session, rs[k].profile>> = g})
Representatives(rs) == [k \in 1..Cardinality(Groups(rs)) |-> Group(rs, SetToSeq(Groups(rs))[k])[1]]

\* The six aggregates of _phase_summary, and what they leave of the latency.
TimeOf(r, phases) == Total([k \in DOMAIN phases |-> r.phases[phases[k]]]) + r.execution + r.extract
StartupAccounted(r) == TimeOf(r, SubSeq(PHASES, 1, 8))
Accounted(r) == TimeOf(r, PHASES)
Aggregates(r) ==
    [runtime_initialization |-> r.phases["runtime_create"] + r.phases["emu_init"],
     model_loading |-> r.phases["loadable_read"] + r.phases["runtime_load"],
     buffer_preparation |-> r.phases["input_setup"] + r.phases["output_setup"],
     runtime_execution |-> r.execution,
     result_handling |-> r.extract + r.phases["output_write"],
     teardown |-> r.phases["buffer_cleanup"] + r.phases["emu_stop"]
                    + r.phases["runtime_unload"] + r.phases["runtime_destroy"],
     unprofiled_process_and_launch |-> r.latency - Accounted(r)]
SteadyAggregates(r) == [runtime_execution |-> r.execution, result_handling |-> r.extract]

\* A process start is one profile of one sample that its phases fit into.
PhasesHold(rs) ==
    \A g \in Groups(rs) : Len(Group(rs, g)) = 1 /\ Accounted(Group(rs, g)[1]) <= Group(rs, g)[1].latency

PhaseTotals(rs, regime) ==
    LET parts == [k \in DOMAIN rs |-> IF regime = "steady" THEN SteadyAggregates(rs[k]) ELSE Aggregates(rs[k])]
    IN  [name \in DOMAIN parts[1] |-> Total([k \in DOMAIN rs |-> parts[k][name]])]

\* _scheduling_summary counts a process once, however many samples it has.
Scheduling(rs) == ScalarSummary([k \in DOMAIN Representatives(rs) |-> Representatives(rs)[k].userTime])

SessionMedians(rs) ==
    LET names == SetToSeq(SessionsOf(rs))
    IN  [k \in DOMAIN names |-> Median(Latencies(Of(rs, names[k])))]

RegimeSummary(rs, regime, estimates) ==
    [latency |-> Summary(Latencies(rs)), execution |-> Summary(Executions(rs)),
     phases |-> PhaseTotals(rs, regime), scheduling |-> Scheduling(rs),
     sessions |-> SessionsOf(rs), interval |-> Interval(SessionMedians(rs), estimates)]

\* _software_overhead: of the sessions with both regimes, the warm median less
\* the steady one.
Overhead ==
    LET warm == OfRegime("warm")
        steady == OfRegime("steady")
    IN  [s \in SessionsOf(warm) \cap SessionsOf(steady) |->
            Median(Latencies(Of(warm, s))) - Median(Latencies(Of(steady, s)))]

\* _pilot_sanity: the cold penalty of a session, and that of its first sample.
CachePenalty ==
    LET cold == OfRegime("cold")
        warm == OfRegime("warm")
    IN  [s \in SessionsOf(cold) \cap SessionsOf(warm) |->
            Median(Latencies(Of(cold, s))) - Median(Latencies(Of(warm, s)))]
FirstPenalty ==
    LET steady == OfRegime("steady")
        ordered(s) == SortSeq(Of(steady, s), LAMBDA q, r : q.index < r.index)
    IN  [s \in {t \in SessionsOf(steady) : Len(Of(steady, t)) > 1} |->
            Scale * ordered(s)[1].execution - Median(Executions(Tail(ordered(s))))]

\* _throughput_definitions: no stage is faster than the slower of the two
\* means, here times the number of samples of both.
Bottleneck(regimes) ==
    IF ~({"warm", "steady"} \subseteq DOMAIN regimes) THEN None
    ELSE LET warm == OfRegime("warm")
             steady == regimes["steady"].latency
             preparation == Total([k \in DOMAIN Representatives(warm) |-> Representatives(warm)[k].phases["input_setup"]])
         IN  Max({preparation * steady.count, steady.total * Len(Representatives(warm))})

\* The variability figure compares the medians of at least two sessions.
Deviations(regimes) ==
    [regime \in DOMAIN regimes |->
        LET medians == SessionMedians(OfRegime(regime))
        IN  [k \in DOMAIN medians |-> Scale * medians[k] - Median(medians)]]
Variability(regimes) ==
    IF Cardinality(UNION {regimes[r].sessions : r \in DOMAIN regimes}) < 2 THEN None
    ELSE Deviations(regimes)

-----------------------------------------------------------------------------
(* The import.                                                             *)

Figures == <<"latency-distribution.svg", "phase-breakdown.svg", "throughput-comparison.svg",
             "session-variability.svg">>
Tables == <<"performance-raw.csv", "performance-summary.json", "performance-summary.csv">>
PowerTable == "power-summary.csv"
Report == "performance-report.md"
Files == ToSet(Tables \o Figures) \cup {PowerTable, Report}

\* The power table is written, and referred to, if a session has a power trace.
HasPower == \E k \in DOMAIN sessions : sessions[k].power # None
ReportFirst == <<Report>> \o Tables \o (IF HasPower THEN <<PowerTable>> ELSE <<>>) \o Figures
Outputs == Tables \o (IF HasPower THEN <<PowerTable>> ELSE <<>>) \o Figures \o <<Report>>
Refers == ToSet(Figures) \cup (IF HasPower THEN {PowerTable, "performance-summary.json"} ELSE {})

Init ==
    /\ import = 0 /\ importPc = "idle" /\ archives = <<>>
    /\ index = 1 /\ sessions = <<>> /\ rows = <<>> /\ baseline = None /\ bootIds = {}
    /\ summary = None
    /\ pending = <<>> /\ files = [f \in Files |-> 0] /\ report = {}

\* No archive at all is refused like a bad one.
Start ==
    /\ importPc \in {"idle", "raised", "aborted", "done"} /\ import < MaxImports
    /\ import' = import + 1 /\ archives' \in Collections
    /\ importPc' = IF archives' = <<>> THEN "raised" ELSE "load"
    /\ index' = 1 /\ sessions' = <<>> /\ rows' = <<>> /\ baseline' = None /\ bootIds' = {}
    /\ summary' = None
    /\ UNCHANGED outputVars

Load ==
    /\ importPc = "load" /\ index <= Len(archives)
    /\ LET a == archives[index]
       IN  IF ~Acceptable(a) THEN importPc' = "raised" /\ UNCHANGED loopVars
           ELSE /\ index' = index + 1
                /\ bootIds' = bootIds \cup {a.boot} /\ baseline' = Baseline(a)
                /\ rows' = rows \o ProfileRows(a)
                /\ sessions' = Append(sessions, [session |-> a.name, boot |-> a.boot, provenance |-> Provenance(a),
                                                 power |-> SessionPower(a)])
                /\ UNCHANGED importPc
    /\ UNCHANGED <<import, archives, summary, outputVars>>

MeasuredRegimes == {regime \in ToSet(Regimes) : OfRegime(regime) # <<>>}
PhasesRaise == \E regime \in MeasuredRegimes \ {"steady"} : ~PhasesHold(OfRegime(regime))

\* The bootstrap starts every regime from the same seed: picks is what it draws.
Draws(picks, medians) ==
    LET n == Len(medians)
    IN  [e \in 1..Estimates |-> Median([k \in 1..n |-> medians[Min({n, picks[e][k]})]]) \div Scale]

Summarize ==
    /\ importPc = "load" /\ index > Len(archives)
    /\ IF PhasesRaise THEN importPc' = "raised" /\ UNCHANGED summary
       ELSE \E picks \in [1..Estimates -> [DOMAIN sessions -> DOMAIN sessions]] :
            LET regimes == [regime \in MeasuredRegimes |->
                    LET rs == OfRegime(regime)
                    IN  RegimeSummary(rs, regime, Draws(picks, SessionMedians(rs)))]
            IN  /\ importPc' = "write"
                /\ summary' = [accepted |-> Len(rows), sessionCount |-> Len(sessions), regimes |-> regimes,
                               overhead |-> Overhead, cache |-> CachePenalty, first |-> FirstPenalty,
                               bottleneck |-> Bottleneck(regimes), variability |-> Variability(regimes),
                               power |-> HasPower]
    /\ pending' = (IF PhasesRaise THEN <<>> ELSE Outputs)
    /\ UNCHANGED <<import, archives, loopVars, files, report>>

\* One file after the other; what is not written stays what it was.
Write ==
    /\ importPc = "write"
    /\ files' = [files EXCEPT ![Head(pending)] = import]
    /\ report' = IF Head(pending) = Report THEN Refers ELSE report
    /\ pending' = Tail(pending)
    /\ importPc' = IF Tail(pending) = <<>> THEN "done" ELSE "write"
    /\ UNCHANGED <<import, archives, loopVars, summary>>

\* The process is killed, or a file cannot be read or written: the exception
\* ends it where it is, and what it has written stays.
Abort ==
    /\ importPc \in {"load", "write"} /\ importPc' = "aborted" /\ pending' = <<>>
    /\ UNCHANGED <<import, archives, loopVars, summary, files, report>>

Next == Start \/ Load \/ Summarize \/ Write \/ Abort

Spec == Init /\ [][Next]_vars

-----------------------------------------------------------------------------
\* What an import passes on is one build on one boot each: every archive it was
\* given has become a session, no two sessions ran after the same boot or were
\* built or run in different ways, and an archive whose benchmark did not pass
\* is not among them.
SessionsAreComparable ==
    importPc = "done" =>
        /\ Len(sessions) = Len(archives)
        /\ \A j, k \in DOMAIN sessions : sessions[j].boot = sessions[k].boot => j = k
        /\ \A k \in DOMAIN sessions : /\ sessions[k].provenance = sessions[1].provenance
                                      /\ archives[k].status = 0
                                      /\ archives[k].clock.status = "verified-xsa-rate"

\* "No samples are discarded": the regimes' counts make up all the samples that
\* were measured in all the archives, and every session has its own in them.
CountOfRegime(regime) == IF regime \in DOMAIN summary.regimes THEN summary.regimes[regime].latency.count ELSE 0
NoSampleLost ==
    importPc = "done" =>
        LET measured == Total([k \in DOMAIN archives |->
                            Total([j \in DOMAIN archives[k].runs |-> Len(Measured(archives[k].runs[j]))])])
        IN  /\ summary.accepted = measured
            /\ Total([k \in DOMAIN Regimes |-> CountOfRegime(Regimes[k])]) = measured
            /\ UNION {summary.regimes[r].sessions : r \in DOMAIN summary.regimes}
                 = {archives[k].name : k \in DOMAIN archives}

StartParts == <<"runtime_initialization", "model_loading", "buffer_preparation", "runtime_execution",
                "result_handling", "teardown", "unprofiled_process_and_launch">>
SteadyParts == <<"runtime_execution", "result_handling">>
PartsOf(regime) == IF regime = "steady" THEN SteadyParts ELSE StartParts

\* The quantiles are quantiles, the interval lies within the sessions' medians,
\* the parts of a process start add up to its latency, and the energies are exact.
SummaryIsConsistent ==
    importPc = "done" =>
        /\ \A r \in DOMAIN summary.regimes :
            LET s == summary.regimes[r]
                medians == SessionMedians(OfRegime(r))
            IN  /\ QuantilesAreOrdered(Latencies(OfRegime(r)))
                /\ Scale * Least(medians) <= s.interval.lower
                /\ s.interval.lower <= s.interval.upper
                /\ s.interval.upper <= Scale * Greatest(medians)
                /\ Total([k \in DOMAIN PartsOf(r) |-> s.phases[PartsOf(r)[k]]])
                     = IF r = "steady" THEN s.execution.total + Total([k \in DOMAIN OfRegime(r) |-> OfRegime(r)[k].extract])
                       ELSE s.latency.total
        /\ \A k \in DOMAIN sessions : sessions[k].power # None =>
            EnergyIsExact(archives[k].power.idle, archives[k].power.active, archives[k].power.interval, sessions[k].power)

\* An import that is refused leaves the earlier report and its files as they
\* were; one that ends has written every file its report refers to; and, ended
\* at any point, it leaves no report that refers to a file older than itself.
ReportIsWhole ==
    /\ importPc = "raised" => \A f \in Files : files[f] # import
    /\ importPc = "done" => \A f \in report : files[f] = import
    /\ \A f \in report : files[f] >= files[Report]
=============================================================================
