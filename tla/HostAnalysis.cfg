SPECIFICATION AnalysisSpec
CONSTANTS
    Grid = 6
    Collections <- AllCollections
    Estimates = 2
    MaxImports = 2
    None = None
    Masked = Masked
    NoEvidence = None
    Missing = None
    Inputs = 2
    CohortSize = 2
    NoBoot = None
    CpuEvidence <- CpuCases
    VariationEvidence <- VariationCases
    CampaignEvidence <- CampaignCases
    Labels <- FiveLabels
    Classes = 2
    Pinned <- PinnedChoices
    MaxCalls = 2
INVARIANTS
    SessionsAreComparable NoSampleLost SummaryIsConsistent ReportIsWhole
    CpuReportIsSound InputsWeighTheSame CampaignIsBalanced InputSetIsWhole TracesMatchIfEquivalent
CHECK_DEADLOCK FALSE
