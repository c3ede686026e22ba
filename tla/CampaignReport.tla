--------------------------- MODULE CampaignReport ---------------------------
(***************************************************************************)
(* build_campaign_report: eight cohorts, each the summary that an importer *)
(* wrote of its sessions, are compared if they are complete and balanced.  *)
(***************************************************************************)
EXTENDS Integers, Sequences, FiniteSets, SequencesExt

CONSTANTS
    CohortSize,     \* sessions of a cohort: 5 in the code
    NoBoot          \* a session whose summary names no boot

Implementations == {"nvdla", "cpu"}
Models == {"lenet", "resnet50"}
Kinds == {"latency", "power"}
CampaignRegimes == {"cold", "warm", "steady"}
Keys == Implementations \X Models \X Kinds

Qualified == [nvdla |-> "qualified", cpu |-> "pass"]

\* _load_cohort: the summary is of this cohort, and of as many boots as sessions.
CohortHolds(key, c) ==
    /\ c.sessionCount = CohortSize /\ Len(c.sessions) = CohortSize
    /\ c.model = key[2]
    /\ c.powerSample = IF key[3] = "power" THEN 1 ELSE 0
    /\ LET boots == {c.sessions[k].boot : k \in 1..CohortSize}
       IN  NoBoot \notin boots /\ Cardinality(boots) = CohortSize
    /\ c.status = Qualified[key[1]]
    /\ key[3] = "power" => \A k \in 1..CohortSize : c.sessions[k].powered

\* _power: every session of a cohort has executed as many inferences.
ExecutedEqually(c) == \A k \in DOMAIN c.sessions : c.sessions[k].executed = c.sessions[1].executed

ArchivesOf(c) == {c.sessions[k].archive : k \in DOMAIN c.sessions}
Selected(cohorts) == UNION {ArchivesOf(cohorts[key]) : key \in Keys}
ExpectedArchives == Cardinality(Keys) * CohortSize
AnyNumber(n) == TRUE
RightNumber(n) == n = ExpectedArchives

CampaignAccepts(cohorts, available) ==
    /\ \A key \in Keys : CohortHolds(key, cohorts[key])
    /\ Selected(cohorts) \subseteq available
    /\ RightNumber(Cardinality(Selected(cohorts)))
    /\ \A key \in Keys : key[3] = "power" => ExecutedEqually(cohorts[key])

\* The latencies are those of the cohorts without power sampling.  A ratio is
\* a pair; its bounds are the quotients of the opposite ends of the intervals.
Compare(cohorts, model, regime) ==
    LET nvdla == cohorts[<<"nvdla", model, "latency">>].latency[regime]
        cpu == cohorts[<<"cpu", model, "latency">>].latency[regime]
    IN  [ratio |-> <<cpu.median, nvdla.median>>, lower |-> <<cpu.lower, nvdla.upper>>,
         upper |-> <<cpu.upper, nvdla.lower>>]

\* Energies of one inference, as pairs of a total and what it is divided by.
Energy(cohorts, implementation, model) ==
    LET sessions == cohorts[<<implementation, model, "power">>].sessions
    IN  <<MapThenSumSet(LAMBDA k : sessions[k].energy, DOMAIN sessions), sessions[1].executed * Len(sessions)>>

CampaignSummary(cohorts, available) ==
    [included |-> Selected(cohorts), excluded |-> available \ Selected(cohorts),
     comparison |-> [m \in Models |-> [r \in CampaignRegimes |-> Compare(cohorts, m, r)]],
     energy |-> [m \in Models |-> [i \in Implementations |-> Energy(cohorts, i, m)]]]

CampaignOutputs ==
    <<"campaign-selection.json", "campaign-summary.json", "latency-comparison.svg", "relative-latency.svg",
      "monitored-power.svg", "monitored-energy.svg", "campaign-report.md">>

-----------------------------------------------------------------------------
AtMost(p, q) == p[1] * q[2] <= q[1] * p[2]
WithinBounds(latency) == latency.lower <= latency.median /\ latency.median <= latency.upper

\* No archive is counted in two cohorts, every archive of the campaign is
\* included or named as excluded, a ratio lies within its bounds when the
\* medians lie within theirs, and every session has the same part of the
\* inferences that an energy is divided by.
BalancedCampaign(cohorts, available, summary) ==
    /\ \A j, k \in Keys : ArchivesOf(cohorts[j]) \cap ArchivesOf(cohorts[k]) # {} => j = k
    /\ Cardinality(summary.included) + Cardinality(summary.excluded) = Cardinality(available)
    /\ \A m \in Models, r \in CampaignRegimes :
        LET c == summary.comparison[m][r]
        IN  (\A i \in Implementations : WithinBounds(cohorts[<<i, m, "latency">>].latency[r]))
                => AtMost(c.lower, c.ratio) /\ AtMost(c.ratio, c.upper)
    /\ \A m \in Models, i \in Implementations :
        LET sessions == cohorts[<<i, m, "power">>].sessions
        IN  \A k \in DOMAIN sessions : summary.energy[m][i][2] = sessions[k].executed * Len(sessions)
=============================================================================
