------------------------------ MODULE EscrowSplits ------------------------------
(***************************************************************************)
(* The escrow's calculators that divide an amount between client and       *)
(* freelancer.  They store nothing; quote is the last answer given, and    *)
(* the interesting part is whether answers computed in different ways      *)
(* agree and leave nobody with a negative share.                           *)
(***************************************************************************)
EXTENDS EscrowMath

CONSTANTS
    Grosses,    \* amounts that are divided
    Taxes,      \* amounts withheld from them
    Ratios,     \* client shares in basis points
    Fees        \* platform fee ratios

FeeRatios == [client: Nat, freelancer: Nat, treasury: Nat]

ASSUME InputsAssumption ==
    /\ Grosses \subseteq Int /\ Taxes \subseteq Int /\ Ratios \subseteq Nat
    /\ Fees \subseteq FeeRatios

VARIABLE quote

Quote(kind, gross, tax, bps, client, freelancer) ==
    [kind |-> kind, gross |-> gross, tax |-> tax, bps |-> bps,
     client |-> client, freelancer |-> freelancer]

Init == quote = Quote("none", 0, 0, 0, 0, 0)

\* emergency_pause_split_refund, while emergency-paused.
EmergencyPauseSplitRefund(gross, bps) ==
    LET split == EmergencySplitExact(gross, bps)
    IN  /\ CanSplitExact(gross, bps)
        /\ quote' = Quote("emergency", gross, 0, bps, split.first, split.second)

\* tax_withholding_split_refund.
TaxWithholdingSplitRefund(gross, tax, bps) ==
    LET split == SplitWithheld(gross, tax, bps)
    IN  /\ CanSplitWithheld(gross, tax, bps)
        /\ quote' = Quote("withheld", gross, tax, bps, split.client, split.freelancer)

\* split_refund_net_distribution, of ratios that need not be the stored ones.
SplitRefundNetDistribution(gross, bps, fees) ==
    /\ CanDistribute(gross, bps, fees)
    /\ quote' = [kind |-> "net", gross |-> gross, bps |-> bps, fees |-> fees,
                 net |-> NetDistribution(gross, bps, fees)]

Next ==
    \/ \E g \in Grosses, bps \in Ratios: EmergencyPauseSplitRefund(g, bps)
    \/ \E g \in Grosses, t \in Taxes, bps \in Ratios: TaxWithholdingSplitRefund(g, t, bps)
    \/ \E g \in Grosses, bps \in Ratios, f \in Fees: SplitRefundNetDistribution(g, bps, f)

Spec == Init /\ [][Next]_quote

-----------------------------------------------------------------------------
\* The emergency split avoids the product that the other splits form, and yet
\* answers what they would answer whenever they can answer at all: a claim is
\* worth the same on both paths.
EmergencySplitAgrees ==
    quote.kind = "emergency" /\ CanSplitNearest(quote.gross, quote.bps, BpsScale) =>
        LET split == SplitNearest(quote.gross, quote.bps, BpsScale)
        IN  quote.client = split.first /\ quote.freelancer = split.second

\* Gross and tax are rounded apart and then subtracted, which never leaves a
\* party with a negative share, nor the two with more or less than the net.
WithheldSharesArePayable ==
    quote.kind = "withheld" =>
        /\ quote.client >= 0 /\ quote.freelancer >= 0
        /\ quote.client + quote.freelancer = quote.gross - quote.tax

\* Two fees rounded half up, each on its own, never take more than there is from
\* the freelancer, as long as the ratios are ones the contract would store; and
\* the four shares are the whole amount.
NetSharesArePayable ==
    quote.kind = "net" /\ FeesAllowed(quote.fees) =>
        LET n == quote.net
        IN  /\ n.refund >= 0 /\ n.clientFee >= 0 /\ n.treasuryFee >= 0 /\ n.freelancer >= 0
            /\ n.refund + n.clientFee + n.treasuryFee + n.freelancer = quote.gross
================================================================================
