----------------------------- MODULE PowerTrace -----------------------------
(***************************************************************************)
(* What the two importers make of a power sampler's CSV files: rows of     *)
(* [sample, time, domain, rail, power].  Energies are exact: Grid * 2      *)
(* times the integral, for Grid a multiple of every gap between sweeps.    *)
(***************************************************************************)
EXTENDS Statistics

CONSTANT Grid
ASSUME GridAssumption == Grid \in Nat \ {0}

RailsOf(row) == <<row.domain, row.rail>>
SamplesOf(rows) == {rows[i].sample : i \in DOMAIN rows}
RowsOf(rows, sample) == {i \in DOMAIN rows : rows[i].sample = sample}
RailSet(rows, sample) == {RailsOf(rows[i]) : i \in RowsOf(rows, sample)}

\* What is read with int() is an integer, the sampler writes the rails of two
\* domains, and Grid is a multiple of every gap between two sweeps.
IsSweeps(rows) ==
    /\ rows \in Seq({rows[i] : i \in DOMAIN rows})
    /\ \A i \in DOMAIN rows : /\ rows[i].sample \in Int /\ rows[i].time \in Int /\ rows[i].power \in Int
                             /\ rows[i].domain \in {"PS", "PL"}
IsOnGrid(series) ==
    \A k \in 1..(Len(series) - 1) :
        series[k].time < series[k + 1].time => Grid % (series[k + 1].time - series[k].time) = 0

\* parse refuses a sweep of two timestamps, a rail named twice in a sweep, and
\* sweeps of different rails.
Parses(rows) ==
    /\ \A s \in SamplesOf(rows) : \A i, j \in RowsOf(rows, s) :
        /\ rows[i].time = rows[j].time
        /\ RailsOf(rows[i]) = RailsOf(rows[j]) => i = j
    /\ \A s, t \in SamplesOf(rows) : RailSet(rows, s) = RailSet(rows, t)

\* A scope is the set of rails it sums: a domain, a rail, or all of them.
AllRails(rows) == {RailsOf(rows[i]) : i \in DOMAIN rows}
Domains(rows) == {rows[i].domain : i \in DOMAIN rows}
DomainRails(rows, domain) == {r \in AllRails(rows) : r[1] = domain}
Scopes(rows) ==
    {AllRails(rows)} \cup {DomainRails(rows, d) : d \in Domains(rows)} \cup {{r} : r \in AllRails(rows)}

\* Samples are taken in the order of their index, whatever the clock says.
Series(rows, scope) ==
    LET Power(s) == Total([i \in DOMAIN rows |->
                        IF rows[i].sample = s /\ RailsOf(rows[i]) \in scope THEN rows[i].power ELSE 0])
        Time(s) == rows[Min(RowsOf(rows, s))].time
        samples == Ordered(SetToSeq(SamplesOf(rows)))
    IN  [k \in DOMAIN samples |-> [time |-> Time(samples[k]), power |-> Grid * Power(samples[k])]]

Monotonic(series) == \A k \in 1..(Len(series) - 1) : series[k].time < series[k + 1].time

\* integrate: the trapezoids between neighbours, doubled.
Integrate(series) ==
    Total([k \in 1..(Len(series) - 1) |->
              (series[k].power + series[k + 1].power) * (series[k + 1].time - series[k].time)])

\* interpolate: the power at a time, between the first two samples around it.
Surround(series, k, time) ==
    \/ series[k].time = time
    \/ series[k].time < time /\ time < series[k + 1].time
Surrounding(series, time) == {k \in 1..(Len(series) - 1) : Surround(series, k, time)}
Interpolates(series, time) == time = series[Len(series)].time \/ Surrounding(series, time) # {}
Interpolate(series, time) ==
    LET k == Min(Surrounding(series, time))
        gap == series[k + 1].time - series[k].time
    IN  IF time = series[Len(series)].time THEN series[Len(series)].power
        ELSE IF time = series[k].time THEN series[k].power
        ELSE series[k].power
               + ((time - series[k].time) * (series[k + 1].power - series[k].power)) \div gap

Brackets(series, start, end) == series[1].time <= start /\ end <= series[Len(series)].time

\* clip: the samples strictly within the interval, between its two ends.
Clip(series, start, end) ==
    <<[time |-> start, power |-> Interpolate(series, start)]>>
      \o Subsequence(series, {k \in DOMAIN series : start < series[k].time /\ series[k].time < end})
      \o <<[time |-> end, power |-> Interpolate(series, end)]>>

\* The conditions under which summarize_scope does not raise.
ScopeHolds(idle, active, start, end) ==
    /\ Len(idle) >= 2 /\ Len(active) >= 2
    /\ Monotonic(idle) /\ Monotonic(active)
    /\ Brackets(active, start, end)

\* summarize_scope.  The incremental energy is scaled by the idle duration too.
Scope(idle, active, start, end, executed) ==
    LET energy == Integrate(Clip(active, start, end))
        idleTime == idle[Len(idle)].time - idle[1].time
    IN  [energy |-> energy, duration |-> end - start,
         idleEnergy |-> Integrate(idle), idleDuration |-> idleTime,
         incremental |-> energy * idleTime - Integrate(idle) * (end - start),
         executed |-> executed, samples |-> Len(active)]

\* _power_summary of the NVDLA importer; i is launch-interval.env.
PowerRaises(idle, active, i) ==
    \/ ~Parses(idle) \/ ~Parses(active)
    \/ Scopes(idle) # Scopes(active)
    \/ ~({"PS", "PL"} \subseteq Domains(active))
    \/ i.schema # 1 \/ i.clock # "CLOCK_MONOTONIC_RAW" \/ i.start <= 0 \/ i.end <= i.start
    \/ i.elapsed # i.end - i.start \/ i.elapsedFile # i.elapsed
    \/ \E scope \in Scopes(active) :
        ~ScopeHolds(Series(idle, scope), Series(active, scope), i.start, i.end)

PowerSummary(idle, active, i, executed) ==
    [scope \in Scopes(active) |->
        Scope(Series(idle, scope), Series(active, scope), i.start, i.end, executed)]

\* What is given to an importer as evidence of power.
IsPower(p) ==
    /\ IsSweeps(p.idle) /\ IsSweeps(p.active) /\ IsOnGrid(Series(p.active, AllRails(p.active)))
    /\ p.interval.start \in Int /\ p.interval.end \in Int

-----------------------------------------------------------------------------
\* _power_summary of the CPU importer: nothing refuses a malformed sweep.  A rail
\* named twice counts twice, a sweep without rails of a domain is no sample of
\* it, and a trace of decreasing time is not noticed.
CpuScope(rows, name) == IF name = "MONITORED" THEN AllRails(rows) ELSE DomainRails(rows, name)
CpuSeries(rows, name) ==
    LET scope == CpuScope(rows, name)
        series == Series(rows, scope)
        samples == Ordered(SetToSeq(SamplesOf(rows)))
        HasPart(s) == \E i \in RowsOf(rows, s) : RailsOf(rows[i]) \in scope
    IN  Subsequence(series, {k \in DOMAIN series : HasPart(samples[k])})

CpuPowerRaises(idle, active, i) ==
    \/ Domains(idle) # Domains(active)
    \/ ~({"PS", "PL"} \subseteq Domains(active))
    \/ i.start <= 0 \/ i.end <= i.start
    \/ \E name \in {"PS", "PL", "MONITORED"} :
        LET before == CpuSeries(idle, name)
            trace == CpuSeries(active, name)
        IN  \/ Len(before) < 2 \/ Len(trace) < 2
            \/ before[1].time = before[Len(before)].time     \* a division by zero
            \/ ~Interpolates(trace, i.start) \/ ~Interpolates(trace, i.end)

CpuPowerSummary(idle, active, i, steady) ==
    [name \in {"PS", "PL", "MONITORED"} |->
        Scope(CpuSeries(idle, name), CpuSeries(active, name), i.start, i.end, steady + 1)]

-----------------------------------------------------------------------------
(* What the energies have to be.                                           *)

\* Each sweep has rails of all the domains.
SweepsAreWhole(rows) ==
    \A s \in SamplesOf(rows) : {rows[i].domain : i \in RowsOf(rows, s)} = Domains(rows)

\* The power between two sweeps changes linearly: the energy of an interval is
\* the sum of that of its units of time.
UnitSum(series, start, end) ==
    Total([k \in 1..(end - start) |-> Interpolate(series, start + k - 1) + Interpolate(series, start + k)])

\* The trapezoids of a clipped trace are that energy, and what happens outside
\* the interval does not count; the two domains make up the total; no more is
\* spent than the highest power for the whole time, no less than the lowest.
EnergyIsExact(idle, active, i, summary) ==
    /\ \A scope \in DOMAIN summary :
        LET series == Clip(Series(active, scope), i.start, i.end)
            powers == [k \in DOMAIN series |-> series[k].power]
        IN  /\ summary[scope].energy = UnitSum(Series(active, scope), i.start, i.end)
            /\ summary[scope].energy <= 2 * Greatest(powers) * (i.end - i.start)
            /\ summary[scope].energy >= 2 * Least(powers) * (i.end - i.start)
    /\ LET PS == summary[DomainRails(active, "PS")]
           PL == summary[DomainRails(active, "PL")]
           MONITORED == summary[AllRails(active)]
       IN  /\ PS.energy + PL.energy = MONITORED.energy
           /\ PS.incremental + PL.incremental = MONITORED.incremental
=============================================================================
