----------------------------- MODULE EscrowDisputes -----------------------------
(***************************************************************************)
(* A dispute over one milestone: raised by a party, documented by both,    *)
(* and closed by the arbiter's award, by the arbiter's split, or by a      *)
(* party once the arbiter has let the timeout pass.                        *)
(***************************************************************************)
EXTENDS EscrowWorkflow

CONSTANT SplitBps   \* client_refund_bps values that are tried

ASSUME SplitBpsAssumption == SplitBps \subseteq Nat

\* raise_dispute and raise_dispute_inner, by the client or the freelancer.
RaiseDispute(i) ==
    /\ NotPaused /\ EscrowHasFunding /\ Accepted
    /\ i \in Live /\ MilestoneFunded(i) /\ ms[i].amount > 0
    /\ ms[i].status \in InReview
    /\ SetMilestone(i, [ms[i] EXCEPT
          !.status = "Disputed",
          !.dispute = [open |-> TRUE, at |-> now, previous |-> ms[i].status, evidence |-> 0]])
    /\ UNCHANGED <<jobVars, partyVars, moneyVars, pauseVars, lockVars, now>>

(***************************************************************************)
(* submit_evidence, by a party; like escalate_dispute it wants the whole   *)
(* job funded.                                                             *)
(***************************************************************************)
SubmitEvidence(i) ==
    /\ NotPaused /\ funded
    /\ i \in Live /\ ms[i].status = "Disputed"
    /\ ms[i].dispute.open /\ ms[i].dispute.evidence < MaxEvidence
    /\ SetMilestone(i, [ms[i] EXCEPT !.dispute.evidence = @ + 1])
    /\ UNCHANGED <<jobVars, partyVars, moneyVars, pauseVars, lockVars, now>>

DisputeTimedOut(m) == now - m.dispute.at >= DisputeTimeout

\* Mutant of Escalatable: it looks at the milestone's flag, which a job funded
\* upfront leaves unset.
EscalatableByFlag(i) ==
    /\ NotPaused /\ i \in Live /\ ms[i].funded
    /\ ms[i].status = "Disputed" /\ ms[i].dispute.open /\ DisputeTimedOut(ms[i])

Escalatable(i) ==
    /\ NotPaused /\ i \in Live /\ funded
    /\ ms[i].status = "Disputed" /\ ms[i].dispute.open /\ DisputeTimedOut(ms[i])

(***************************************************************************)
(* escalate_dispute: the milestone goes back to where it was, and a        *)
(* delivered one gets a fresh auto-release window.                         *)
(***************************************************************************)
EscalateDispute(i) ==
    LET previous == ms[i].dispute.previous
    IN  /\ Escalatable(i)
        /\ SetMilestone(i, WithoutDispute([ms[i] EXCEPT
              !.status = previous,
              !.deliveredAt = IF previous = "Delivered" THEN now ELSE @]))
        /\ UNCHANGED <<jobVars, partyVars, moneyVars, pauseVars, lockVars, now>>

-----------------------------------------------------------------------------
\* What both of the arbiter's endpoints require before they look at money.
Arbitrable(i) ==
    /\ NotPaused /\ EscrowHasFunding /\ Accepted
    /\ i \in Live /\ MilestoneFunded(i) /\ ms[i].status = "Disputed"
    /\ 0 < Remaining(ms[i]) /\ Remaining(ms[i]) <= Available(ledger)

FeeFor(i) == ArbiterFee(Remaining(ms[i]), Available(ledger), ArbiterFeeBps)

\* Mutant of Net: the fee comes on top of the award.
NetOfNothing(i) == Remaining(ms[i])

\* What is left for the parties.
Net(i) == Remaining(ms[i]) - FeeFor(i)

Closed(m) == WithoutExtension(WithoutDispute(m))

(***************************************************************************)
(* resolve_dispute: the arbiter's fee, then all the rest to one side.      *)
(***************************************************************************)
ResolveDispute(i, toFreelancer) ==
    LET rest   == Remaining(ms[i])
        payout == Net(i)
    IN  /\ Arbitrable(i)
        /\ \E l \in AfterPayIfAny(ledger, arbiter, FeeFor(i)):
              ledger' \in AfterPayIfAny(l, IF toFreelancer THEN freelancer ELSE Client, payout)
        /\ IF toFreelancer
             THEN /\ SetMilestone(i, Closed(Settled(ms[i], "Released", payout, rest)))
                  /\ CreditReputation(1)
             ELSE /\ SetMilestone(i, Closed(Settled(ms[i], "Refunded", 0, rest)))
                  /\ UNCHANGED reputation
        /\ UNCHANGED <<jobVars, partyVars, yieldAccrued, pauseVars, lockVars, now>>

\* How a dispute ended by two legs is recorded.
SplitStatus(refund, payout) ==
    IF payout = 0 THEN "Refunded" ELSE IF refund > 0 THEN "Split" ELSE "Released"

\* Disputed milestone i closes with refund to the client and payout to the
\* freelancer; spent counts the arbiter's fee as well.
CloseBySplit(i, refund, payout, spent) ==
    /\ SetMilestone(i, Closed(Settled(ms[i], SplitStatus(refund, payout), payout, spent)))
    /\ IF SplitStatus(refund, payout) = "Released" THEN CreditReputation(1)
       ELSE UNCHANGED reputation

(***************************************************************************)
(* apply_dispute_arbitration_split: the fee, then the client's share       *)
(* rounded down, then the freelancer's.                                    *)
(***************************************************************************)
ApplyDisputeArbitrationSplit(i, bps) ==
    LET split == SplitFloor(Net(i), bps)
    IN  /\ Arbitrable(i)
        /\ CanSplitFloor(Net(i), bps)
        /\ \E l \in AfterPayIfAny(ledger, arbiter, FeeFor(i)):
              \E k \in AfterPayIfAny(l, Client, split.first):
                  ledger' \in AfterPayIfAny(k, freelancer, split.second)
        /\ CloseBySplit(i, split.first, split.second, Remaining(ms[i]))
        /\ UNCHANGED <<jobVars, partyVars, yieldAccrued, pauseVars, lockVars, now>>

-----------------------------------------------------------------------------
DisputeNext ==
    \/ \E i \in Milestones: RaiseDispute(i)
    \/ \E i \in Milestones: SubmitEvidence(i)
    \/ \E i \in Milestones: EscalateDispute(i)
    \/ \E i \in Milestones, toFreelancer \in BOOLEAN: ResolveDispute(i, toFreelancer)
    \/ \E i \in Milestones, bps \in SplitBps: ApplyDisputeArbitrationSplit(i, bps)
=============================================================================
