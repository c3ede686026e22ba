------------------------------ MODULE CpuImport ------------------------------
(***************************************************************************)
(* import_cpu_performance_archives: what it makes of a sequence of         *)
(* archives of ONNX Runtime sessions.  A session is an archive's record of *)
(* evidence; a report is made of all of them or of none.                   *)
(***************************************************************************)
EXTENDS PowerTrace

CONSTANT NoEvidence     \* a file, field or hash that is not there

CpuRegimes == {"cold", "warm", "steady"}
Snapshots == {"before", "after"}

\* _load_session: the benchmark passed, and both of its correctness checks.
SessionHolds(a) ==
    /\ a.safe /\ a.benchmarkEnvs = 1
    /\ a.status = 0 /\ a.classification = "correctness-qualified-performance-pass"
    /\ a.boot # NoEvidence /\ a.timeSyncBoot = a.boot /\ a.timeSyncNtp = a.ntp
    /\ \A phase \in Snapshots : a.correctness[phase] = "pass"
    /\ a.badPatterns = 0

\* The cores were at one frequency, under the governor that keeps it, in both
\* snapshots and in what the benchmark says of itself.
FrequencyHolds(a) ==
    /\ \A phase \in Snapshots : a.governors[phase] # <<>> /\ a.frequencies[phase] # <<>>
    /\ UNION {ToSet(a.governors[phase]) : phase \in Snapshots} = {"userspace"}
    /\ UNION {ToSet(a.frequencies[phase]) : phase \in Snapshots} = {a.frequency}
    /\ a.governor = "userspace" /\ a.policy = "fixed-verified"

\* The model, its input and its golden output are those of the manifest.
FilesHold(a) ==
    /\ a.model \in DOMAIN a.manifest
    /\ a.format \in {"onnx", "ort"}
    /\ a.manifest[a.model][a.format] = a.hashes["model"]
    /\ \A file \in {"input", "output"} : a.manifest[a.model][file] = a.hashes[file]

\* The fields that have to be there, and to be the same in all sessions.
CpuProvenance(a) ==
    [model |-> a.model, format |-> a.format, frequency |-> a.frequency, powerSample |-> a.powerSample,
     hashes |-> a.hashes, build |-> a.build]
ProvenanceIsComplete(a) ==
    /\ a.build # NoEvidence /\ a.frequency # 0
    /\ \A file \in DOMAIN a.hashes : a.hashes[file] # NoEvidence

\* One run: as many samples as were asked for, on the cores that were asked for.
\* _perf_rows leaves out what is no number, and refuses what is not positive.
CpuRunHolds(a, run) ==
    /\ run.samples # <<>> /\ Len(run.samples) = run.expected
    /\ \A k \in DOMAIN run.samples : run.samples[k] > 0
    /\ run.affinity = a.mask
CpuRunLatencies(run) ==
    IF run.regime = "steady" THEN run.samples ELSE [k \in DOMAIN run.samples |-> run.launch]

\* A session that used the sampler and has no directory of its readings is one
\* without power.
Metered(a) == a.powerSample = 1 /\ a.power # NoEvidence
CpuPowerHolds(a) == Metered(a) => ~CpuPowerRaises(a.power.idle, a.power.active, a.power.interval)
CpuPower(a) == CpuPowerSummary(a.power.idle, a.power.active, a.power.interval, a.steadySamples)

CpuSessionHolds(a) ==
    /\ SessionHolds(a) /\ FrequencyHolds(a) /\ FilesHold(a) /\ ProvenanceIsComplete(a)
    /\ a.runs # <<>> /\ \A k \in DOMAIN a.runs : CpuRunHolds(a, a.runs[k])
    /\ CpuPowerHolds(a)

\* The comparisons between sessions come after all of them are loaded.
SamePlatform(as) == \A k \in DOMAIN as : CpuProvenance(as[k]) = CpuProvenance(as[1])
DistinctBoots(as) == \A j, k \in DOMAIN as : as[j].boot = as[k].boot => j = k

CpuAccepts(as) ==
    /\ as # <<>>
    /\ \A k \in DOMAIN as : CpuSessionHolds(as[k])
    /\ SamePlatform(as) /\ DistinctBoots(as)

-----------------------------------------------------------------------------
LatenciesOf(a, regime) ==
    FlattenSeq([k \in DOMAIN a.runs |-> IF a.runs[k].regime = regime THEN CpuRunLatencies(a.runs[k]) ELSE <<>>])
LatenciesByName(as, regime) ==
    FlattenSeq([k \in DOMAIN as |->
        IF \E j \in DOMAIN as : j > k /\ as[j].stem = as[k].stem THEN <<>> ELSE LatenciesOf(as[k], regime)])
AllLatencies(as, regime) == FlattenSeq([k \in DOMAIN as |-> LatenciesOf(as[k], regime)])

\* Sessions are told apart by the names of their archives: one name, one sample.
NamedAs(as, name) == Subsequence(as, {k \in DOMAIN as : as[k].stem = name})
WithSamples(as, regime) ==
    Subsequence(as, {k \in DOMAIN as : AllLatencies(NamedAs(as, as[k].stem), regime) # <<>>})
CpuMedians(as, regime) ==
    LET measured == WithSamples(as, regime)
    IN  [k \in DOMAIN measured |-> Median(AllLatencies(NamedAs(as, measured[k].stem), regime))]

\* Four figures are averaged over the sessions: the watts while idle, while
\* active and what they differ by, and what an inference took of the latter.
\* A mean is given by what it is the mean of, and a figure as a fraction.
PowerFigures(s) ==
    [idle |-> <<s.idleEnergy, s.idleDuration>>, active |-> <<s.energy, s.duration>>,
     incremental |-> <<s.incremental, s.duration * s.idleDuration>>,
     perInference |-> <<s.incremental, s.executed * s.idleDuration>>]
PowerMeans(as) ==
    LET sampled == Subsequence(as, {k \in DOMAIN as : Metered(as[k])})
    IN  [scope \in {"PS", "PL", "MONITORED"} |->
            [k \in DOMAIN sampled |-> PowerFigures(CpuPower(sampled[k])[scope])]]

CpuReport(as) ==
    LET measured == {r \in CpuRegimes : AllLatencies(as, r) # <<>>}
    IN  [sessions |-> Len(as), provenance |-> CpuProvenance(as[1]),
         latency |-> [r \in measured |-> Summary(AllLatencies(as, r))],
         medians |-> [r \in measured |-> CpuMedians(as, r)],
         power |-> PowerMeans(as)]

CpuOutputs == <<"cpu-performance-raw.csv", "cpu-performance-summary.json", "cpu-latency-distribution.svg",
                "cpu-performance-summary.csv", "cpu-performance-report.md">>

-----------------------------------------------------------------------------
AddUp(p, q, sum) == p[2] = sum[2] /\ q[2] = sum[2] /\ p[1] + q[1] = sum[1]
WholeTraces(a) == SweepsAreWhole(a.power.idle) /\ SweepsAreWhole(a.power.active)

\* Every sample of every session is in the statistics, and every session that
\* measured a regime has its median, as the only one if its name is its own; a
\* trace that the stricter NVDLA importer takes too has the same energies there;
\* and of each figure that is averaged the domains make up the total, whatever
\* the clock of a trace does, unless a sweep has no rail of one of them.
SoundCpuReport(as, report) ==
    /\ \A r \in CpuRegimes :
        LET measured == [k \in DOMAIN as |-> Len(LatenciesOf(as[k], r))]
        IN  Total(measured) > 0 => /\ r \in DOMAIN report.latency /\ report.latency[r].count = Total(measured)
                                   /\ QuantilesAreOrdered(AllLatencies(as, r))
                                   /\ LET own == Cardinality({k \in DOMAIN as : measured[k] > 0})
                                          count == Len(report.medians[r])
                                      IN  /\ own <= count
                                          /\ (\A j, k \in DOMAIN as : as[j].stem = as[k].stem => j = k) => count = own
    /\ \A k \in DOMAIN as :
        LET p == as[k].power
            strict == PowerSummary(p.idle, p.active, p.interval, as[k].steadySamples + 1)
        IN  Metered(as[k]) /\ ~PowerRaises(p.idle, p.active, p.interval) =>
                /\ EnergyIsExact(p.idle, p.active, p.interval, strict)
                /\ CpuPower(as[k])["PS"] = strict[DomainRails(p.active, "PS")]
                /\ CpuPower(as[k])["MONITORED"] = strict[AllRails(p.active)]
    /\ (\A k \in DOMAIN as : Metered(as[k]) => WholeTraces(as[k])) =>
        \A k \in DOMAIN report.power["MONITORED"] :
            \A figure \in {"idle", "active", "incremental", "perInference"} :
                AddUp(report.power["PS"][k][figure], report.power["PL"][k][figure],
                      report.power["MONITORED"][k][figure])
=============================================================================
