SPECIFICATION Spec
CONSTANTS
    Address          = {client, freelancer, arbiter, admin}
    Client           = client
    Admin            = admin
    InitFreelancer   = freelancer
    InitArbiter      = arbiter
    FundingModes     = {"Upfront"}
    InitCount        = 1
    MaxMilestones    = 1
    InitAmounts      = {10}
    Amounts          = {6}
    CanBounce        = {}
    AutoRelease      = 1
    AcceptanceWindow = 0
    OverdueGrace     = 0
    DisputeTimeout   = 1
    CancelTtl        = 2
    MaxRevisions     = 1
    MaxEvidence      = 0
    ArbiterFeeBps    = 1000
    MaxTime          = 2
    IntMax           = 1000000
    DueDates         = {1}
    PartialAmounts   = {4}
    StreamRatios    <- MCStreamRatios
    Extensions       = {1}
    MaxExtension     = 1
    Donations        = {}
    MaxBalance       = 25
    SplitBps         = {2500}
    ElapsedRatios   <- MCElapsedRatios
    YieldAmounts     = {}
    MaxYield         = 2
INVARIANTS Inductive
PROPERTIES EmergencyPauseFreezes DeliveredWorkIsNotClawedBack
CHECK_DEADLOCK FALSE
