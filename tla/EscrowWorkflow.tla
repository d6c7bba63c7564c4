----------------------------- MODULE EscrowWorkflow -----------------------------
(***************************************************************************)
(* The life of an accepted milestone when nobody argues: delivery,         *)
(* revision, deadline extensions, the client's approvals, the payout       *)
(* streamed by consent, the auto-release once the window is over, and the  *)
(* money that is left to collect.                                          *)
(***************************************************************************)
EXTENDS EscrowState

CONSTANTS
    PartialAmounts,     \* amounts approve_partial is tried with
    StreamRatios,       \* <<numerator, denominator>> pairs that are tried
    Extensions,         \* extra_seconds values that are tried
    MaxExtension,       \* bound of the model on an accumulated extension
    Donations,          \* amounts sent to the contract outside any entry point
    MaxBalance          \* bound of the model: no donation beyond this balance

ASSUME WorkflowAssumption ==
    /\ PartialAmounts \subseteq Int /\ Extensions \subseteq Nat /\ MaxExtension \in Nat
    /\ StreamRatios \subseteq Int \X Int
    /\ Donations \subseteq Nat \ {0} /\ MaxBalance \in Nat

\* Mutant of InReview: a dispute does not take a milestone out of review.
InReviewOrDisputed == {"Delivered", "PartiallyReleased", "Disputed"}

InReview == {"Delivered", "PartiallyReleased"}

-----------------------------------------------------------------------------
\* mark_delivered and mark_delivered_with_hash.
MarkDelivered(i) ==
    /\ NotPaused /\ Accepted
    /\ i \in Live /\ ms[i].status = "Pending" /\ MilestoneFunded(i)
    /\ ms[i].amount > 0
    /\ SetMilestone(i, [ms[i] EXCEPT !.status = "Delivered", !.deliveredAt = now])
    /\ UNCHANGED <<jobVars, partyVars, moneyVars, pauseVars, lockVars, now>>

\* Mutant of Revisable: a milestone that was partially paid goes back as well.
RevisableInReview(i) ==
    NotPaused /\ funded /\ i \in Live /\ ms[i].status \in InReview /\ ms[i].revisions < MaxRevisions

\* Mutant of Revisable: the limit is off by one.
RevisableOnceMore(i) ==
    NotPaused /\ funded /\ i \in Live /\ ms[i].status = "Delivered" /\ ms[i].revisions <= MaxRevisions

Revisable(i) ==
    NotPaused /\ funded /\ i \in Live /\ ms[i].status = "Delivered" /\ ms[i].revisions < MaxRevisions

(***************************************************************************)
(* request_revision asks for the whole job to be funded, not only this     *)
(* milestone.                                                              *)
(***************************************************************************)
RequestRevision(i) ==
    /\ Revisable(i)
    /\ SetMilestone(i, WithoutExtension(
          [ms[i] EXCEPT !.status = "Pending", !.deliveredAt = 0, !.revisions = @ + 1]))
    /\ UNCHANGED <<jobVars, partyVars, moneyVars, pauseVars, lockVars, now>>

\* What extend_milestone_deadline and time_extensions_consent share; both
\* need the client's and the freelancer's signature.
Extend(i, extra) ==
    /\ i \in Live /\ ms[i].status \in InReview
    /\ extra > 0 /\ ms[i].extension + extra <= MaxExtension
    /\ SetMilestone(i, [ms[i] EXCEPT !.extension = @ + extra])
    /\ UNCHANGED <<jobVars, partyVars, moneyVars, pauseVars, lockVars, now>>

\* extend_milestone_deadline: only the admin's pause stops it.
ExtendMilestoneDeadline(i, extra) == NotAdminPaused /\ Extend(i, extra)

\* time_extensions_consent: the emergency pause stops it too, a cancel lock
\* does not.
TimeExtensionsConsent(i, extra) == NotAdminPaused /\ ~ep /\ Extend(i, extra)

-----------------------------------------------------------------------------
\* approve_partial.
ApprovePartial(i, amt) ==
    /\ NotPaused /\ EscrowHasFunding
    /\ i \in Live /\ ms[i].status \in InReview /\ MilestoneFunded(i)
    /\ 0 < amt /\ amt <= Remaining(ms[i])
    /\ PayOrCredit(freelancer, amt)
    /\ IF amt = Remaining(ms[i])
         THEN /\ SetMilestone(i, WithoutExtension(Settled(ms[i], "Released", amt, amt)))
              /\ CreditReputation(1)
         ELSE /\ SetMilestone(i, Settled(ms[i], "PartiallyReleased", amt, amt))
              /\ UNCHANGED reputation
    /\ UNCHANGED <<jobVars, partyVars, yieldAccrued, pauseVars, lockVars, now>>

\* What approve_milestone and the auto-release pay: all that remains.
ReleaseInFull(i) ==
    LET rest == Remaining(ms[i])
    IN  /\ rest > 0
        /\ PayOrCredit(freelancer, rest)
        /\ SetMilestone(i, WithoutExtension(Settled(ms[i], "Released", rest, rest)))
        /\ CreditReputation(1)
        /\ UNCHANGED <<jobVars, partyVars, yieldAccrued, pauseVars, lockVars, now>>

\* approve_milestone: a Delivered milestone only.
ApproveMilestone(i) ==
    /\ NotPaused /\ EscrowHasFunding
    /\ i \in Live /\ ms[i].status = "Delivered" /\ MilestoneFunded(i)
    /\ ReleaseInFull(i)

\* approve_milestones: several distinct milestones, one payment; it also takes
\* the partially released ones, and leaves their extensions in storage.
ApproveMilestones(batch) ==
    /\ NotPaused /\ EscrowHasFunding
    /\ batch # {} /\ batch \subseteq Live
    /\ \A i \in batch: ms[i].status \in InReview /\ MilestoneFunded(i) /\ Remaining(ms[i]) > 0
    /\ Payable(TotalRemaining(batch))
    /\ PayOrCredit(freelancer, TotalRemaining(batch))
    /\ ms' = [i \in Milestones |->
                IF i \in batch
                THEN Settled(ms[i], "Released", Remaining(ms[i]), Remaining(ms[i]))
                ELSE ms[i]]
    /\ CreditReputation(Cardinality(batch))
    /\ UNCHANGED <<jobVars, partyVars, yieldAccrued, pauseVars, lockVars, now>>

(***************************************************************************)
(* payment_streaming_consent: both parties sign a share of the remainder   *)
(* that is transferred at once; the rest stays in escrow.  It looks at     *)
(* both pauses but not at the cancel lock, and a transfer that fails fails *)
(* the call instead of crediting the freelancer.                           *)
(***************************************************************************)
PaymentStreamingConsent(i, num, den) ==
    LET rest == Remaining(ms[i])
        pay  == SplitNearest(rest, num, den).first
    IN  /\ NotAdminPaused /\ ~ep
        /\ i \in Live /\ ms[i].status \in InReview
        /\ rest > 0 /\ CanSplitNearest(rest, num, den)
        /\ pay <= ledger.balance
        /\ ledger' = Transferred(ledger, pay)
        /\ IF ms[i].released + pay >= ms[i].amount
             THEN /\ SetMilestone(i, Settled(ms[i], "Released", pay, pay))
                  /\ CreditReputation(1)
             ELSE /\ SetMilestone(i, Settled(ms[i], "PartiallyReleased", pay, pay))
                  /\ UNCHANGED reputation
        /\ UNCHANGED <<jobVars, partyVars, yieldAccrued, pauseVars, lockVars, now>>

-----------------------------------------------------------------------------
\* auto_release_deadline.
Deadline(m) == m.deliveredAt + AutoRelease + m.extension

\* Mutant of AutoReleasable: the whole job must be funded.
AutoReleasableWhenAllFunded(i) ==
    NotPaused /\ i \in Live /\ funded /\ ms[i].status = "Delivered" /\ now >= Deadline(ms[i])

AutoReleasable(i) ==
    NotPaused /\ i \in Live /\ MilestoneFunded(i) /\ ms[i].status = "Delivered" /\ now >= Deadline(ms[i])

\* claim_auto_release by the freelancer and trigger_auto_release by anyone:
\* release_overdue_milestone.
TriggerAutoRelease(i) == AutoReleasable(i) /\ ReleaseInFull(i)

\* Mutant of Collected: the debt of the address is not cleared.
CollectedKeepingDebt(a) ==
    [ledger EXCEPT !.balance = @ - ledger.owed[a], !.totalOwed = @ - ledger.owed[a]]

Collected(a) ==
    [balance  |-> ledger.balance - ledger.owed[a],
     owed     |-> [ledger.owed EXCEPT ![a] = 0],
     totalOwed |-> ledger.totalOwed - ledger.owed[a]]

\* withdraw: what an address is owed, whatever is paused or locked.
Withdraw(a) ==
    /\ 0 < ledger.owed[a] /\ ledger.owed[a] <= ledger.balance
    /\ ledger' = Collected(a)
    /\ UNCHANGED <<jobVars, partyVars, ms, yieldAccrued, reputation, pauseVars, lockVars, now>>

\* sweep_excess of the escrow's own token, by the client or the admin: what is
\* held beyond the obligations goes to the client.
SweepExcess ==
    /\ NotPaused
    /\ \E excess \in 1..ledger.balance:
         /\ excess = ledger.balance - Obligations
         /\ ledger' = Transferred(ledger, excess)
    /\ UNCHANGED <<jobVars, partyVars, ms, yieldAccrued, reputation, pauseVars, lockVars, now>>

\* Anyone may transfer tokens straight to the contract's address.
Donate(amt) ==
    /\ ledger.balance + amt <= MaxBalance
    /\ ledger' = Deposited(amt)
    /\ UNCHANGED <<jobVars, partyVars, ms, yieldAccrued, reputation, pauseVars, lockVars, now>>

-----------------------------------------------------------------------------
DeliveryNext ==
    \/ \E i \in Milestones: MarkDelivered(i)
    \/ \E i \in Milestones: RequestRevision(i)
    \/ \E i \in Milestones, extra \in Extensions: ExtendMilestoneDeadline(i, extra)
    \/ \E i \in Milestones, extra \in Extensions: TimeExtensionsConsent(i, extra)

ApprovalNext ==
    \/ \E i \in Milestones, amt \in PartialAmounts: ApprovePartial(i, amt)
    \/ \E i \in Milestones: ApproveMilestone(i)
    \/ \E batch \in SUBSET Milestones: ApproveMilestones(batch)
    \/ \E i \in Milestones, r \in StreamRatios: PaymentStreamingConsent(i, r[1], r[2])
    \/ \E i \in Milestones: TriggerAutoRelease(i)

TokenNext ==
    \/ \E a \in Address: Withdraw(a)
    \/ SweepExcess
    \/ \E amt \in Donations: Donate(amt)
=============================================================================
