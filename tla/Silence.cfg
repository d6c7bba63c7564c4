SPECIFICATION SilenceSpec
CONSTANTS
    Address          = {client, freelancer, arbiter, admin}
    Client           = client
    Admin            = admin
    InitFreelancer   = freelancer
    InitArbiter      = arbiter
    FundingModes     = {"Upfront", "PerMilestone"}
    InitCount        = 2
    MaxMilestones    = 2
    InitAmounts      = {10}
    Amounts          = {6}
    CanBounce        = {}
    AutoRelease      = 1
    AcceptanceWindow = 1
    OverdueGrace     = 1
    DisputeTimeout   = 1
    CancelTtl        = 2
    MaxRevisions     = 1
    MaxEvidence      = 1
    ArbiterFeeBps    = 1000
    MaxTime          = 4
    IntMax           = 1000000
    DueDates         = {0, 1}
    PartialAmounts   = {4}
    StreamRatios    <- MCStreamRatios
    Extensions       = {1}
    MaxExtension     = 1
    Donations        = {3}
    MaxBalance       = 25
    SplitBps         = {0, 2500, 10000}
    ElapsedRatios   <- MCElapsedRatios
    YieldAmounts     = {2}
    MaxYield         = 2
PROPERTIES DeliveredIsDecided FundedDisputesEnd
CHECK_DEADLOCK FALSE
