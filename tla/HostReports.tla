----------------------------- MODULE HostReports -----------------------------
(***************************************************************************)
(* Three programs of the host that read evidence, refuse it or make a      *)
(* report of it, and write the report file after file: the importer of CPU *)
(* sessions, the importer of sessions with several inputs, and the report  *)
(* of a campaign.                                                          *)
(***************************************************************************)
EXTENDS CpuImport, InputVariation, CampaignReport

CONSTANTS
    CpuEvidence, VariationEvidence,     \* sequences of archives
    CampaignEvidence                    \* records of the cohorts and of the archives there are

\* A campaign has finitely many archives, a cohort lists its sessions, and the
\* latencies are whole nanoseconds.
ASSUME CampaignAssumption ==
    /\ CohortSize \in Nat
    /\ \A e \in CampaignEvidence :
        /\ IsFiniteSet(e.available)
        /\ \A key \in Keys :
            /\ DOMAIN e.cohorts[key].sessions = 1..Len(e.cohorts[key].sessions)
            /\ \A regime \in CampaignRegimes :
                LET latency == e.cohorts[key].latency[regime]
                IN  {latency.lower, latency.median, latency.upper} \subseteq Nat

\* The sessions of the CPU and their runs are listed, and what is read of them
\* are integers, the samples in whole nanoseconds.
ASSUME SessionsAssumption ==
    \A as \in CpuEvidence :
        /\ as \in Seq({as[k] : k \in DOMAIN as})
        /\ \A k \in DOMAIN as :
            /\ as[k].runs \in Seq({as[k].runs[j] : j \in DOMAIN as[k].runs})
            /\ \A j \in DOMAIN as[k].runs : as[k].runs[j].samples \in Seq(Int) /\ as[k].runs[j].launch \in Int
            /\ as[k].power # NoEvidence => IsPower(as[k].power) /\ as[k].steadySamples \in Int

\* A set has inputs; sessions and samples are listed, and what is read of them
\* with int() are integers.
ASSUME VariationAssumption ==
    /\ Inputs \in Nat \ {0}
    /\ \A as \in VariationEvidence :
        /\ as \in Seq({as[k] : k \in DOMAIN as})
        /\ \A k \in DOMAIN as :
            /\ as[k].samples \in Seq({as[k].samples[j] : j \in DOMAIN as[k].samples})
            /\ \A j \in DOMAIN as[k].samples : as[k].samples[j].execution \in Int
            /\ \A i \in DOMAIN as[k].results : as[k].results[i] \in Int

VARIABLES tool, evidence, reportPc, outcome, unwritten

reportVars == <<tool, evidence, reportPc, outcome, unwritten>>

NoOutcome == <<>>

ReportsInit ==
    /\ \/ tool = "cpu" /\ evidence \in CpuEvidence
       \/ tool = "variation" /\ evidence \in VariationEvidence
       \/ tool = "campaign" /\ evidence \in CampaignEvidence
    /\ reportPc = "load" /\ outcome = NoOutcome /\ unwritten = <<>>

\* Nothing is written before all of the evidence has been accepted.
Accepts ==
    CASE tool = "cpu" -> CpuAccepts(evidence)
      [] tool = "variation" -> VariationAccepts(evidence)
      [] tool = "campaign" -> CampaignAccepts(evidence.cohorts, evidence.available)
ReportOf ==
    CASE tool = "cpu" -> CpuReport(evidence)
      [] tool = "variation" -> VariationReport(evidence)
      [] tool = "campaign" -> CampaignSummary(evidence.cohorts, evidence.available)
ReportOutputs ==
    CASE tool = "cpu" -> CpuOutputs
      [] tool = "variation" -> VariationOutputs
      [] tool = "campaign" -> CampaignOutputs

Evaluate ==
    /\ reportPc = "load"
    /\ IF Accepts THEN reportPc' = "write" /\ outcome' = <<ReportOf>> /\ unwritten' = ReportOutputs
       ELSE reportPc' = "raised" /\ UNCHANGED <<outcome, unwritten>>
    /\ UNCHANGED <<tool, evidence>>

WriteNext ==
    /\ reportPc = "write"
    /\ unwritten' = Tail(unwritten)
    /\ reportPc' = IF unwritten' = <<>> THEN "done" ELSE "write"
    /\ UNCHANGED <<tool, evidence, outcome>>

ReportsNext == Evaluate \/ WriteNext

ReportsSpec == ReportsInit /\ [][ReportsNext]_reportVars

-----------------------------------------------------------------------------
Reported(program) == tool = program /\ outcome # NoOutcome

\* cpu_performance.py 340-521: a report of CPU sessions has all of their samples.
CpuReportIsSound == Reported("cpu") => SoundCpuReport(evidence, outcome[1])

\* input_variation.py 138-196: every input of a set has the same weight.
InputsWeighTheSame == Reported("variation") => EqualWeights(evidence, outcome[1])

\* campaign.py 94-126, 380-473: the cohorts of a campaign are disjoint and
\* complete, its ratios bounded, and its sessions weigh the same.
CampaignIsBalanced ==
    Reported("campaign") => BalancedCampaign(evidence.cohorts, evidence.available, outcome[1])
=============================================================================
