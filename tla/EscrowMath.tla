------------------------------ MODULE EscrowMath ------------------------------
(***************************************************************************)
(* The pure arithmetic of the milestone escrow: how an amount is divided   *)
(* into two legs, and what the arbiter keeps.  Every value is an i128 in   *)
(* the code and every multiplication is checked; IntMax stands for the     *)
(* largest i128, and an operator named Can... says when the code returns   *)
(* Ok instead of an arithmetic error.                                      *)
(***************************************************************************)
EXTENDS Integers

CONSTANT IntMax     \* i128::MAX

\* 10_000 basis points are 100%.
BpsScale == 10000

ASSUME IntMaxAssumption == IntMax \in Nat /\ IntMax >= BpsScale

(***************************************************************************)
(* math::split_ratio_nearest: half-up rounding on the first leg, the exact *)
(* rest to the second.                                                     *)
(***************************************************************************)
CanSplitNearest(total, num, den) ==
    /\ total >= 0 /\ num >= 0 /\ den > 0 /\ num <= den
    /\ total * num + den \div 2 <= IntMax

SplitNearest(total, num, den) ==
    LET first == (total * num + den \div 2) \div den
    IN  [first |-> first, second |-> total - first]

(***************************************************************************)
(* math::split_bps with Rounding::Floor, reached through                   *)
(* allocate_refund_by_bps: the client's leg is rounded down, the           *)
(* freelancer gets the rest.                                               *)
(***************************************************************************)
CanSplitFloor(amount, bps) ==
    amount >= 0 /\ bps \in 0..BpsScale /\ amount * bps <= IntMax

SplitFloor(amount, bps) ==
    LET first == (amount * bps) \div BpsScale
    IN  [first |-> first, second |-> amount - first]

(***************************************************************************)
(* arbiter_fee_for: a basis-point fee on the disputed remainder, never     *)
(* more than what is available.                                            *)
(***************************************************************************)
ArbiterFee(remaining, available, feeBps) ==
    LET fee == (remaining * feeBps) \div BpsScale
    IN  IF feeBps = 0 THEN 0
        ELSE IF fee <= available THEN fee ELSE available

\* Mutant of EmergencySplitExact: the remainder is rounded down.
EmergencySplitFloor(total, bps) ==
    LET client == (total \div BpsScale) * bps + ((total % BpsScale) * bps) \div BpsScale
    IN  [first |-> client, second |-> total - client]

(***************************************************************************)
(* emergency_split_exact: the same half-up split computed on the quotient  *)
(* and the remainder of total / 10_000 apart, so that the product of the   *)
(* whole total never has to fit an i128.                                   *)
(***************************************************************************)
EmergencySplitExact(total, bps) ==
    LET client == (total \div BpsScale) * bps
                    + ((total % BpsScale) * bps + BpsScale \div 2) \div BpsScale
    IN  [first |-> client, second |-> total - client]

CanSplitExact(total, bps) ==
    total > 0 /\ bps \in 0..BpsScale

(***************************************************************************)
(* allocate_withholding_refund: the gross amount and the tax withheld from *)
(* it are divided by the same ratio and each party is paid its gross share *)
(* less its tax share.                                                     *)
(***************************************************************************)
CanSplitWithheld(gross, tax, clientBps) ==
    /\ gross > 0 /\ tax >= 0 /\ tax <= gross /\ clientBps \in 0..BpsScale
    /\ CanSplitNearest(gross, clientBps, BpsScale)
    /\ CanSplitNearest(tax, clientBps, BpsScale)

\* Mutant of SplitWithheld: the client's tax is rounded up.
SplitWithheldUp(gross, tax, clientBps) ==
    LET g       == SplitNearest(gross, clientBps, BpsScale)
        taxLeft == (tax * (BpsScale - clientBps)) \div BpsScale
    IN  [client |-> g.first - (tax - taxLeft), freelancer |-> g.second - taxLeft]

SplitWithheld(gross, tax, clientBps) ==
    LET g == SplitNearest(gross, clientBps, BpsScale)
        t == SplitNearest(tax, clientBps, BpsScale)
    IN  [client |-> g.first - t.first, freelancer |-> g.second - t.second]

(***************************************************************************)
(* split_refund_net_distribution: the client's refund is exempt; of the    *)
(* rest, the fees of client and treasury are rounded half up and the       *)
(* freelancer gets what they leave.  The ratios are the caller's;          *)
(* FeesAllowed is validate_fee_allocation, which only stored ratios pass.  *)
(***************************************************************************)
MaxTreasuryFeeBps == 2000
MaxClientFeeBps   == 5000

FeesAllowed(fees) ==
    /\ fees.client + fees.freelancer + fees.treasury = BpsScale
    /\ fees.client <= MaxClientFeeBps /\ fees.treasury <= MaxTreasuryFeeBps

CanDistribute(total, clientBps, fees) ==
    /\ total > 0 /\ CanSplitNearest(total, clientBps, BpsScale)
    /\ LET payout == SplitNearest(total, clientBps, BpsScale).second
       IN  /\ CanSplitNearest(payout, fees.client, BpsScale)
           /\ CanSplitNearest(payout, fees.treasury, BpsScale)

Distribution(refund, clientFee, treasuryFee, freelancer) ==
    [refund |-> refund, clientFee |-> clientFee,
     treasuryFee |-> treasuryFee, freelancer |-> freelancer]

\* Mutant of NetDistribution: the fees are rounded up.
NetDistributionUp(total, clientBps, fees) ==
    LET split    == SplitNearest(total, clientBps, BpsScale)
        Fee(bps) == split.second - SplitFloor(split.second, BpsScale - bps).first
    IN  Distribution(split.first, Fee(fees.client), Fee(fees.treasury),
                     split.second - Fee(fees.client) - Fee(fees.treasury))

NetDistribution(total, clientBps, fees) ==
    LET split    == SplitNearest(total, clientBps, BpsScale)
        Fee(bps) == SplitNearest(split.second, bps, BpsScale).first
    IN  Distribution(split.first, Fee(fees.client), Fee(fees.treasury),
                     split.second - Fee(fees.client) - Fee(fees.treasury))
=============================================================================
