----------------------------- MODULE MCHostImport -----------------------------
(* Archives that pass, and for each check of the importers one that fails it. *)
EXTENDS PerformanceImport

Phases(preparation) == [p \in ToSet(PHASES) |-> IF p = "input_setup" THEN preparation ELSE IF p = "emu_stop" THEN 1 ELSE 0]
Sample(warmup, execution) == [warmup |-> warmup, execution |-> execution, extract |-> 1]
Profile == [schema |-> 4, clock |-> "CLOCK_MONOTONIC_RAW", resolution |-> 1, overhead |-> 0,
            consistent |-> TRUE, status |-> 0]
Run(name, regime, launch, samples) ==
    [name |-> name, regime |-> regime, verification |-> "exact-pass", irqDelta |-> 1, affinity |-> "3",
     scheduling |-> TRUE, profile |-> Profile, launch |-> launch, samples |-> samples,
     phases |-> Phases(2), userTime |-> launch]

Cold == Run("cold-1", "cold", 9, <<Sample(FALSE, 4)>>)
Warm(k, execution) == Run(k, "warm", execution + 4, <<Sample(FALSE, execution)>>)
Steady == Run("steady-1", "steady", 20, <<Sample(TRUE, 9), Sample(FALSE, 5), Sample(FALSE, 3), Sample(FALSE, 4)>>)

Row(sample, time, domain, rail, power) ==
    [sample |-> sample, time |-> time, domain |-> domain, rail |-> rail, power |-> power]
Sweep(sample, time, ps, pl) == <<Row(sample, time, "PS", "cpu", ps), Row(sample, time, "PL", "int", pl)>>
Idle == Sweep(0, 1, 1, 1) \o Sweep(1, 3, 2, 1)
Active == Sweep(0, 1, 1, 2) \o Sweep(1, 3, 5, 1) \o Sweep(2, 6, 2, 4)
Around(start, end) ==
    [schema |-> 1, clock |-> "CLOCK_MONOTONIC_RAW", start |-> start, end |-> end, elapsed |-> end - start,
     elapsedFile |-> end - start]
Power == [idle |-> Idle, active |-> Active, interval |-> Around(2, 5)]

Thermal(n) == [status |-> "available", count |-> n, recorded |-> <<"available", n>>]
Archive(name, boot, runs, power) ==
    [name |-> name, safe |-> TRUE, benchmarkEnvs |-> 1, status |-> 0, classification |-> "exact-performance-pass",
     schema |-> 2, boot |-> boot, bootFile |-> boot, timeSyncBoot |-> boot, ntp |-> "no", timeSyncNtp |-> "no",
     timestamp |-> "utc", temperature |-> [phase \in {"before", "after"} |-> Thermal(1)],
     keys |-> [key \in PROVENANCE_KEYS |->
                CASE key = "power_sample" -> IF power = None THEN "0" ELSE "1"
                  [] key = "benchmark_cpu" -> "3" [] OTHER -> "v"],
     complexity |-> [engines |-> TRUE, operations |-> 4, hwlCount |-> 4, size |-> 9, loadableSize |-> 9],
     clock |-> [status |-> "verified-xsa-rate", rate |-> 100, expected |-> 101, tolerance |-> 1],
     runs |-> runs, power |-> power]

All == <<Steady, Cold, Warm("warm-1", 4), Warm("warm-2", 6)>>
Good == Archive("s1", "b1", All, None)
Sampled == Archive("s1", "b1", All, Power)
Other == Archive("s2", "b2", All, None)
SampledOther == Archive("s2", "b2", <<Steady>>, [Power EXCEPT !.interval = Around(1, 6)])
SameName == [Other EXCEPT !.name = "s1"]
SteadyOnly(a) == [a EXCEPT !.runs = <<Steady>>]

\* One archive for each condition of the importer, that only this condition refuses.
Broken(a) ==
    {[a EXCEPT !.safe = FALSE], [a EXCEPT !.benchmarkEnvs = 2], [a EXCEPT !.status = 1],
     [a EXCEPT !.classification = "running"], [a EXCEPT !.schema = 1], [a EXCEPT !.bootFile = "b9"],
     [a EXCEPT !.timeSyncBoot = "b9"], [a EXCEPT !.timeSyncNtp = "yes"], [a EXCEPT !.timestamp = None],
     [a EXCEPT !.temperature["after"].count = 0], [a EXCEPT !.temperature["after"].status = "unavailable"],
     [a EXCEPT !.complexity.operations = 5], [a EXCEPT !.complexity.size = 8],
     [a EXCEPT !.clock.status = "unverified"], [a EXCEPT !.clock.rate = 99], [a EXCEPT !.keys["model"] = None],
     [a EXCEPT !.runs[1].verification = "mismatch"], [a EXCEPT !.runs[2].irqDelta = 0],
     [a EXCEPT !.runs[1].profile.consistent = FALSE], [a EXCEPT !.runs[1].profile.overhead = 1],
     [a EXCEPT !.runs[2].affinity = "2"], [a EXCEPT !.runs[2].scheduling = FALSE],
     [a EXCEPT !.runs[2].launch = None], [a EXCEPT !.runs[2].launch = 7], [a EXCEPT !.runs = <<>>],
     [a EXCEPT !.runs[1].samples = <<Sample(FALSE, 0)>>],
     [a EXCEPT !.runs[2].samples = <<Sample(FALSE, 2), Sample(FALSE, 2)>>]}
BrokenPower(a) ==
    {[a EXCEPT !.power.active = Sweep(0, 3, 1, 2) \o Sweep(1, 6, 5, 1)],
     [a EXCEPT !.power.active = Sweep(0, 1, 1, 2) \o Sweep(1, 4, 5, 1) \o Sweep(2, 4, 5, 1) \o Sweep(3, 6, 2, 4)],
     [a EXCEPT !.power.active = Sweep(0, 1, 1, 2) \o <<Row(0, 2, "PL", "aux", 5)>> \o Sweep(1, 3, 5, 1) \o Sweep(2, 6, 2, 4)],
     [a EXCEPT !.power.active = Append(Active, Row(2, 6, "PL", "int", 1))],
     [a EXCEPT !.power.idle = Sweep(0, 1, 1, 1)],
     [a EXCEPT !.power.active = <<>>, !.power.idle = Append(Idle, Row(1, 3, "PS", "cpu", 1))],
     [a EXCEPT !.power.interval.clock = "CLOCK_MONOTONIC"], [a EXCEPT !.power.interval.elapsedFile = 4], [a EXCEPT !.power.interval.start = 5]}

Changed(a) == [a EXCEPT !.keys["runtime_sha256"] = "w"]
\* The sampler's keys differ, which counts only for a session that used it.
OtherSampler(a) == [a EXCEPT !.keys["power_interval_ms"] = "w"]

Accepted ==
    {<<Good>>, <<Good, Other>>, <<Sampled>>, <<Sampled, SampledOther>>, <<Good, OtherSampler(Other)>>,
     <<SteadyOnly(Good), SteadyOnly(SameName)>>, <<[Sampled EXCEPT !.power.active = <<>>]>>}
Refused ==
    {<<>>} \cup {<<b>> : b \in Broken(Good)} \cup {<<b>> : b \in BrokenPower(Sampled)}
      \cup {<<Good, Changed(Other)>>, <<Good, SameName>>, <<Good, [Other EXCEPT !.boot = "b1", !.bootFile = "b1",
                                                                   !.timeSyncBoot = "b1"]>>,
            <<Sampled, OtherSampler(SampledOther)>>, <<Good, SampledOther>>}
AllCollections == Accepted \cup Refused
=============================================================================
