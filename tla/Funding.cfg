SPECIFICATION FundingSpec
CONSTANTS
    Address          = {client, freelancer, arbiter, admin}
    Client           = client
    Admin            = admin
    InitFreelancer   = freelancer
    InitArbiter      = arbiter
    FundingModes     = {"Upfront","PerMilestone"}
    InitCount        = 1
    MaxMilestones    = 2
    InitAmounts      = {10}
    Amounts          = {6}
    CanBounce        = {client}
    AutoRelease      = 1
    AcceptanceWindow = 1
    OverdueGrace     = 1
    DisputeTimeout   = 1
    CancelTtl        = 2
    MaxRevisions     = 1
    MaxEvidence      = 1
    ArbiterFeeBps    = 1000
    MaxTime          = 3
    IntMax           = 1000000
    DueDates         = {1}
    PartialAmounts   = {}
    StreamRatios    <- MCStreamRatios
    Extensions       = {1}
    MaxExtension     = 1
    Donations        = {3}
    MaxBalance       = 19
    SplitBps         = {0, 2500, 10000}
    ElapsedRatios   <- MCElapsedRatios
    YieldAmounts     = {2}
    MaxYield         = 2
INVARIANTS Solvent JobTotal
PROPERTIES ImplementsCustody
CHECK_DEADLOCK FALSE
