----------------------------- MODULE EscrowFunding -----------------------------
(***************************************************************************)
(* Setting the job up: deposits, the job's size, who has accepted it, who  *)
(* the parties are, and the two refunds that do not need anyone else's     *)
(* consent: an unaccepted job and an overdue milestone.                    *)
(***************************************************************************)
EXTENDS EscrowState

CONSTANT DueDates   \* due dates that are tried; 0 removes one

ASSUME DueDatesAssumption == DueDates \subseteq Nat

-----------------------------------------------------------------------------
(***************************************************************************)
(* fund: one deposit for the whole job.  The milestones' own funded flags  *)
(* stay false in this mode.                                                *)
(***************************************************************************)
Fund ==
    /\ NotPaused
    /\ fundingMode = "Upfront" /\ ~funded
    /\ totalAmount > 0
    /\ funded' = TRUE /\ fundedAt' = now
    /\ ledger' = Deposited(totalAmount)
    /\ UNCHANGED <<fundingMode, totalAmount, count, partyVars, ms, yieldAccrued,
                   reputation, pauseVars, lockVars, now>>

\* Mutant of LastOne: the loop stops one milestone early.
LastOneButOne(i) == \A j \in Live \ {i, count - 1}: ms[j].funded

\* Every milestone but i is funded already.
LastOne(i) == \A j \in Live \ {i}: ms[j].funded

(***************************************************************************)
(* fund_milestone: one milestone at a time; the last one makes the whole   *)
(* job funded, and only the first one starts the acceptance window.        *)
(***************************************************************************)
FundMilestone(i) ==
    /\ NotPaused
    /\ fundingMode = "PerMilestone"
    /\ i \in Live /\ ~ms[i].funded /\ ms[i].amount > 0
    /\ SetMilestone(i, [ms[i] EXCEPT !.funded = TRUE])
    /\ fundedAt' = IF fundedAt = 0 THEN now ELSE fundedAt
    /\ funded' = (funded \/ LastOne(i))
    /\ ledger' = Deposited(ms[i].amount)
    /\ UNCHANGED <<fundingMode, totalAmount, count, partyVars, yieldAccrued,
                   reputation, pauseVars, lockVars, now>>

\* add_milestone: client and freelancer together, with its deposit.
AddMilestone(amt) ==
    /\ NotPaused /\ funded
    /\ amt > 0 /\ count < MaxMilestones /\ totalAmount + amt <= IntMax
    /\ SetMilestone(count, NewMilestone(amt, TRUE))
    /\ count' = count + 1
    /\ totalAmount' = totalAmount + amt
    /\ ledger' = Deposited(amt)
    /\ UNCHANGED <<fundingMode, funded, fundedAt, partyVars, yieldAccrued,
                   reputation, pauseVars, lockVars, now>>

\* Mutant of CanReduce: also what is under review.
CanReduceInReview(i, amt) ==
    /\ NotPaused /\ funded
    /\ i \in Live /\ ms[i].status \in {"Pending", "PartiallyReleased"}
    /\ 0 < amt /\ amt < ms[i].amount

CanReduce(i, amt) ==
    /\ NotPaused /\ funded
    /\ i \in Live /\ ms[i].status = "Pending"
    /\ 0 < amt /\ amt < ms[i].amount

\* Mutant of ReduceTotal: the job keeps its old total.
ReduceNoTotal(refund) == UNCHANGED totalAmount

ReduceTotal(refund) == totalAmount' = totalAmount - refund

(***************************************************************************)
(* reduce_milestone: client and freelancer together; the difference goes   *)
(* back to the client.  The new amount is compared with the old one only,  *)
(* never with what the milestone has already released.                     *)
(***************************************************************************)
ReduceMilestone(i, amt) ==
    /\ CanReduce(i, amt)
    /\ LET refund == ms[i].amount - amt
       IN  /\ refund <= Available(ledger)
           /\ PayOrCredit(Client, refund)
           /\ ReduceTotal(refund)
    /\ SetMilestone(i, [ms[i] EXCEPT !.amount = amt])
    /\ UNCHANGED <<fundingMode, funded, fundedAt, count, partyVars, yieldAccrued,
                   reputation, pauseVars, lockVars, now>>

\* set_milestone_due_dates: by the client, before any funding and before the
\* freelancer accepts.
SetDueDates(due) ==
    /\ ~EscrowHasFunding
    /\ "freelancer" \notin acceptance
    /\ ms' = [i \in Milestones |->
                IF i \in Live THEN [ms[i] EXCEPT !.dueAt = due[i]] ELSE ms[i]]
    /\ UNCHANGED <<jobVars, partyVars, moneyVars, pauseVars, lockVars, now>>

-----------------------------------------------------------------------------
\* accept_job and accept_arbiter: not gated by any pause, nor by funding.
Accept(role) ==
    /\ role \notin acceptance
    /\ acceptance' = acceptance \cup {role}
    /\ UNCHANGED <<jobVars, freelancer, arbiter, ms, moneyVars, pauseVars, lockVars, now>>

AcceptJob     == Accept("freelancer")
AcceptArbiter == Accept("arbiter")

\* replace_arbiter: client and freelancer together.  The acceptance recorded by
\* the outgoing arbiter stays.
ReplaceArbiter(new) ==
    /\ NotPaused
    /\ new \in Address \ {Client, freelancer, arbiter}
    /\ \A i \in Live: ms[i].status # "Disputed"
    /\ arbiter' = new
    /\ UNCHANGED <<jobVars, acceptance, freelancer, ms, moneyVars, pauseVars, lockVars, now>>

\* rotate_freelancer: client and freelancer together, whatever is paused or
\* locked.  Acceptance and cancel approval recorded by the old address stay.
RotateFreelancer(new) ==
    /\ new \in Address \ {freelancer, Client, arbiter, Admin}
    /\ freelancer' = new
    /\ UNCHANGED <<jobVars, acceptance, arbiter, ms, moneyVars, pauseVars, lockVars, now>>

-----------------------------------------------------------------------------
WindowStart == IF fundedAt = 0 THEN 1 ELSE fundedAt

\* Mutant of NotAcceptedInTime: whether the job was accepted is not looked at.
WindowPassed == now >= WindowStart + AcceptanceWindow

NotAcceptedInTime == ~Accepted /\ now >= WindowStart + AcceptanceWindow

(***************************************************************************)
(* withdraw_unaccepted: everything funded and open goes back to the client *)
(* when the job was not accepted within the window.                        *)
(***************************************************************************)
WithdrawUnaccepted ==
    /\ NotPaused /\ EscrowHasFunding /\ NotAcceptedInTime
    /\ Payable(TotalRemaining(Due))
    /\ ms' = [i \in Milestones |->
                IF i \in Due THEN Settled(ms[i], "Refunded", 0, Remaining(ms[i])) ELSE ms[i]]
    /\ PayOrCredit(Client, TotalRemaining(Due))
    /\ UNCHANGED <<jobVars, partyVars, yieldAccrued, reputation, pauseVars, lockVars, now>>

\* reclaim_overdue: a milestone still Pending after its due date and the grace
\* period goes back to the client.
ReclaimOverdue(i) ==
    /\ NotPaused
    /\ i \in Live /\ ms[i].status = "Pending" /\ MilestoneFunded(i)
    /\ ms[i].dueAt # 0 /\ now > ms[i].dueAt + OverdueGrace
    /\ Remaining(ms[i]) > 0
    /\ SetMilestone(i, Settled(ms[i], "Refunded", 0, Remaining(ms[i])))
    /\ PayOrCredit(Client, Remaining(ms[i]))
    /\ UNCHANGED <<jobVars, partyVars, yieldAccrued, reputation, pauseVars, lockVars, now>>

-----------------------------------------------------------------------------
FundingNext ==
    \/ Fund
    \/ \E i \in Milestones: FundMilestone(i)
    \/ \E amt \in Amounts: AddMilestone(amt)
    \/ \E i \in Milestones, amt \in Amounts: ReduceMilestone(i, amt)
    \/ \E due \in [Milestones -> DueDates]: SetDueDates(due)

PartyNext ==
    \/ AcceptJob
    \/ AcceptArbiter
    \/ \E new \in Address: ReplaceArbiter(new)
    \/ \E new \in Address: RotateFreelancer(new)

RefundNext ==
    \/ WithdrawUnaccepted
    \/ \E i \in Milestones: ReclaimOverdue(i)
=============================================================================
