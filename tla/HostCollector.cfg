SPECIFICATION Spec
CONSTANTS
    Jobs = 2
    MaxBoots = 3
    MaxSessions = 3
    MaxCampaigns = 2
INVARIANTS
    FreshBoots
    SuccessIsOwn
    CampaignIsWhole
CHECK_DEADLOCK FALSE
