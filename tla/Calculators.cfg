SPECIFICATION MCSpec
CONSTANTS
    Grosses    <- MCGrosses
    Taxes      <- MCTaxes
    Ratios      = {0, 1, 2500, 3333, 4999, 5000, 5001, 9999, 10000, 10001}
    Fees       <- MCFees
    PartyCount  = 4
    Totals     <- MCTotals
    Weights     = {0, 1, 2, 3, 7}
    IntMax      = 100000000
INVARIANTS EmergencySplitAgrees WithheldSharesArePayable NetSharesArePayable ReturnsHamilton WithinQuota
CHECK_DEADLOCK FALSE
