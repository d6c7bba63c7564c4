SPECIFICATION MCSpec
CONSTANTS
    a1 = a1
    a2 = a2
    a3 = a3
    t1 = t1
    Address       = {a1, a2, a3}
    InitAdmin     = a1
    Setups       <- MCSetups
    MaxSigners    = 3
    MaxProposals  = 3
    LegacyIds     = {0}
    Token         = {t1, t2}
    MaxWhitelist  = 2
    Shares        = {2000, 6000}
    InitCount     = 1
    MaxMilestones = 2
    MaxVersion    = 2
INVARIANTS TypeOK PendingIsReferenced ReadyMeansMigrated AgreedSharesHold
PROPERTIES SpentProposalsStaySpent RotationMovesUnassignedRoles ImplementsSuccession UpgradeKeepsConfiguration
CHECK_DEADLOCK FALSE
