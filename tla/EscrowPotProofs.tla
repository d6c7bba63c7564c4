----------------------------- MODULE EscrowPotProofs -----------------------------
(***************************************************************************)
(* The escrow, seen as the pots of MilestonePot, proved for every value of *)
(* the constants: a job funded piece by piece is funded when all its       *)
(* pieces are, and every call moves each milestone as a pot may move.      *)
(***************************************************************************)
EXTENDS EscrowHistoryProofs

-----------------------------------------------------------------------------
(***************************************************************************)
(* Outside FundingNext no step funds a milestone, takes its funding back   *)
(* or changes its size; it leaves what was paid, pays less than what was   *)
(* left, or closes the milestone by paying exactly what was left.          *)
(***************************************************************************)
PaidOn(m, n) ==
    /\ n.funded = m.funded /\ n.amount = m.amount
    /\ \/ n.paid = m.paid /\ (IsTerminal(n) <=> IsTerminal(m))
       \/ ~IsTerminal(m) /\ ~IsTerminal(n) /\ m.paid < n.paid /\ n.paid < m.amount
       \/ ~IsTerminal(m) /\ IsTerminal(n) /\ n.paid = m.amount

OnlyPaid ==
    /\ UNCHANGED <<fundingMode, funded, count, totalAmount>>
    /\ \A i \in Milestones: PaidOn(ms[i], ms'[i])

LEMMA ClosedPaid ==
    ASSUME NEW m, Good(m), ~IsTerminal(m), NEW status \in {"Released", "Refunded", "Split"},
           NEW toward
    PROVE  /\ PaidOn(m, Settled(m, status, toward, Remaining(m)))
           /\ PaidOn(m, WithoutExtension(Settled(m, status, toward, Remaining(m))))
           /\ PaidOn(m, Closed(Settled(m, status, toward, Remaining(m))))
<1>1. m \in Milestone /\ m.paid = m.released
  BY DEF Good, PotCovered
<1>2. m.paid + Remaining(m) = m.amount
  BY <1>1 DEF Milestone, Remaining
<1> DEFINE n == Settled(m, status, toward, Remaining(m))
<1>3. \A x \in {n, WithoutExtension(n), Closed(n)}:
         /\ x.status = status /\ x.amount = m.amount /\ x.funded = m.funded
         /\ x.paid = m.paid + Remaining(m)
  BY <1>1 DEF Settled, WithoutExtension, WithoutDispute, Closed, Milestone
<1> HIDE DEF n
<1>4. \A x \in {n, WithoutExtension(n), Closed(n)}: PaidOn(m, x)
  BY <1>2, <1>3 DEF PaidOn, IsTerminal, Terminal
<1> QED
  BY <1>4 DEF n

\* A part of what is left, or nothing at all.
LEMMA PartPaid ==
    ASSUME NEW m, Good(m), ~IsTerminal(m), NEW amt \in Nat, amt < Remaining(m)
    PROVE  PaidOn(m, Settled(m, "PartiallyReleased", amt, amt))
<1>1. m \in Milestone /\ m.paid = m.released
  BY DEF Good, PotCovered
<1>2. m.paid \in Nat /\ m.amount \in Nat
  BY <1>1 DEF Milestone
<1>3. m.paid + amt < m.amount
  BY <1>1, <1>2 DEF Remaining
<1> DEFINE n == Settled(m, "PartiallyReleased", amt, amt)
<1>4. n.paid = m.paid + amt /\ n.amount = m.amount /\ n.funded = m.funded /\ ~IsTerminal(n)
  <2>1. "PartiallyReleased" \in MilestoneStatus
    BY DEF MilestoneStatus
  <2>2. /\ n.paid = m.paid + amt /\ n.amount = m.amount /\ n.funded = m.funded
        /\ n.status = "PartiallyReleased"
    BY <1>1, <2>1, SettledFields, Zenon
  <2> HIDE DEF n
  <2> QED
    BY <2>2 DEF IsTerminal, Terminal
<1> HIDE DEF n
<1>5. PaidOn(m, n)
  BY <1>2, <1>3, <1>4 DEF PaidOn
<1> QED
  BY <1>5 DEF n

LEMMA KeptPaid == ASSUME NEW m PROVE PaidOn(m, m)
  BY DEF PaidOn

LEMMA OneRewritten ==
    ASSUME Inductive, UNCHANGED jobVars, NEW j \in Milestones,
           NEW m, SetMilestone(j, m), PaidOn(ms[j], m)
    PROVE  OnlyPaid
  BY KeptPaid DEF Inductive, TypeOK, SetMilestone, OnlyPaid, jobVars

LEMMA MilestonesAreRecords == ASSUME Inductive PROVE \A i \in Milestones: ms[i] \in Milestone
  BY DEF Inductive, TypeOK

\* Several milestones are closed by one call.
LEMMA ManyClosed ==
    ASSUME Inductive, UNCHANGED jobVars, NEW S, S \subseteq Open,
           NEW status \in {"Released", "Refunded"}, NEW f,
           ms' = [i \in Milestones |-> IF i \in S THEN f[i] ELSE ms[i]],
           \A i \in S: \E toward:
              f[i] \in {Settled(ms[i], status, toward, Remaining(ms[i])),
                        WithoutExtension(Settled(ms[i], status, toward, Remaining(ms[i])))}
    PROVE  OnlyPaid
<1>1. ASSUME NEW i \in S PROVE PaidOn(ms[i], f[i])
  <2>1. Good(ms[i]) /\ ~IsTerminal(ms[i])
    BY LiveSlot DEF Open
  <2> QED
    BY <2>1, ClosedPaid
<1> QED
  BY <1>1, KeptPaid DEF OnlyPaid, jobVars

LEMMA RefundOnlyPays == ASSUME Inductive, RefundNext PROVE OnlyPaid
<1>1. CASE WithdrawUnaccepted
  <2> DEFINE f == [i \in Due |-> Settled(ms[i], "Refunded", 0, Remaining(ms[i]))]
  <2>1. /\ UNCHANGED jobVars /\ Due \subseteq Open
        /\ ms' = [i \in Milestones |-> IF i \in Due THEN f[i] ELSE ms[i]]
    BY <1>1 DEF WithdrawUnaccepted, Due
  <2>2. \A i \in Due: f[i] = Settled(ms[i], "Refunded", 0, Remaining(ms[i]))
    OBVIOUS
  <2> HIDE DEF f
  <2> QED
    BY <2>1, <2>2, ManyClosed
<1>2. ASSUME NEW j \in Milestones, ReclaimOverdue(j) PROVE OnlyPaid
  <2>1. Good(ms[j]) /\ ~IsTerminal(ms[j])
    BY <1>2, LiveSlot DEF ReclaimOverdue, IsTerminal, Terminal
  <2> QED
    BY <1>2, <2>1, ClosedPaid, OneRewritten DEF ReclaimOverdue
<1> QED
  BY <1>1, <1>2 DEF RefundNext

LEMMA DeliveryOnlyPays == ASSUME Inductive, DeliveryNext PROVE OnlyPaid
<1>1. ASSUME NEW j \in Milestones, MarkDelivered(j) PROVE OnlyPaid
  <2> DEFINE m == [ms[j] EXCEPT !.status = "Delivered", !.deliveredAt = now]
  <2>1. SetMilestone(j, m) /\ UNCHANGED jobVars
    BY <1>1 DEF MarkDelivered
  <2>2. PaidOn(ms[j], m)
    BY <1>1, MilestonesAreRecords DEF MarkDelivered, PaidOn, Milestone, IsTerminal, Terminal
  <2> HIDE DEF m
  <2> QED
    BY <2>1, <2>2, OneRewritten
<1>2. ASSUME NEW j \in Milestones, RequestRevision(j) PROVE OnlyPaid
  <2> DEFINE m == WithoutExtension(
                     [ms[j] EXCEPT !.status = "Pending", !.deliveredAt = 0, !.revisions = @ + 1])
  <2>1. SetMilestone(j, m) /\ UNCHANGED jobVars
    BY <1>2 DEF RequestRevision
  <2>2. PaidOn(ms[j], m)
    BY <1>2, MilestonesAreRecords
       DEF RequestRevision, Revisable, PaidOn, WithoutExtension, Milestone, IsTerminal, Terminal
  <2> HIDE DEF m
  <2> QED
    BY <2>1, <2>2, OneRewritten
<1>3. ASSUME NEW j \in Milestones, NEW extra \in Extensions, Extend(j, extra) PROVE OnlyPaid
  <2> DEFINE m == [ms[j] EXCEPT !.extension = @ + extra]
  <2>1. SetMilestone(j, m) /\ UNCHANGED jobVars
    BY <1>3 DEF Extend
  <2>2. PaidOn(ms[j], m)
    BY MilestonesAreRecords DEF PaidOn, Milestone, IsTerminal
  <2> HIDE DEF m
  <2> QED
    BY <2>1, <2>2, OneRewritten
<1> QED
  BY <1>1, <1>2, <1>3 DEF DeliveryNext, ExtendMilestoneDeadline, TimeExtensionsConsent

LEMMA ReleaseOnlyPays ==
    ASSUME Inductive, NEW j \in Live, ~IsTerminal(ms[j]), ReleaseInFull(j) PROVE OnlyPaid
  BY LiveSlot, ClosedPaid, OneRewritten DEF ReleaseInFull

LEMMA ApprovalOnlyPays == ASSUME Inductive, ApprovalNext PROVE OnlyPaid
<1>1. ASSUME NEW j \in Milestones, NEW amt \in PartialAmounts, ApprovePartial(j, amt)
      PROVE  OnlyPaid
  <2>1. PICK m: SetMilestone(j, m) /\ PaidOn(ms[j], m)
    <3>1. CASE amt = Remaining(ms[j])
      <4>1. Good(ms[j]) /\ ~IsTerminal(ms[j])
        BY <1>1, LiveSlot DEF ApprovePartial, IsTerminal, Terminal, InReview
      <4> QED
        BY <1>1, <3>1, <4>1, ClosedPaid DEF ApprovePartial
    <3>2. CASE amt # Remaining(ms[j])
      <4>1. /\ SetMilestone(j, Settled(ms[j], "PartiallyReleased", amt, amt))
            /\ j \in Live /\ ms[j].status \in InReview /\ amt \in Int
            /\ 0 < amt /\ amt <= Remaining(ms[j])
        BY <1>1, <3>2, WorkflowAssumption DEF ApprovePartial
      <4>2. Good(ms[j]) /\ Remaining(ms[j]) \in Nat /\ ~IsTerminal(ms[j])
        BY <4>1, LiveSlot DEF IsTerminal, Terminal, InReview
      <4>3. amt \in Nat /\ amt < Remaining(ms[j])
        BY <3>2, <4>1, <4>2
      <4> QED
        BY <4>1, <4>2, <4>3, PartPaid
    <3> QED
      BY <3>1, <3>2
  <2> QED
    BY <1>1, <2>1, OneRewritten DEF ApprovePartial
<1>2. ASSUME NEW batch \in SUBSET Milestones, ApproveMilestones(batch) PROVE OnlyPaid
  <2> DEFINE f == [i \in batch |-> Settled(ms[i], "Released", Remaining(ms[i]), Remaining(ms[i]))]
  <2>1. /\ UNCHANGED jobVars /\ batch \subseteq Open
        /\ ms' = [i \in Milestones |-> IF i \in batch THEN f[i] ELSE ms[i]]
    BY <1>2 DEF ApproveMilestones, Open, IsTerminal, Terminal, InReview
  <2>2. \A i \in batch: f[i] = Settled(ms[i], "Released", Remaining(ms[i]), Remaining(ms[i]))
    OBVIOUS
  <2> HIDE DEF f
  <2> QED
    BY <2>1, <2>2, ManyClosed
<1>3. ASSUME NEW j \in Milestones, NEW r \in StreamRatios,
             PaymentStreamingConsent(j, r[1], r[2])
      PROVE  OnlyPaid
  <2> DEFINE pay == SplitNearest(Remaining(ms[j]), r[1], r[2]).first
  <2>1. Good(ms[j]) /\ ms[j] \in Milestone /\ Remaining(ms[j]) \in Nat /\ ~IsTerminal(ms[j])
    BY <1>3, LiveSlot DEF PaymentStreamingConsent, IsTerminal, Terminal, InReview
  <2>2. pay \in 0..Remaining(ms[j])
    <3>1. CanSplitNearest(Remaining(ms[j]), r[1], r[2]) /\ r[1] \in Int /\ r[2] \in Int
      BY <1>3, WorkflowAssumption DEF PaymentStreamingConsent
    <3>2. r[1] \in Nat /\ r[2] \in Nat
      BY <3>1 DEF CanSplitNearest
    <3> QED
      BY <2>1, <3>1, <3>2, SplitNearestExact
  <2>3. /\ UNCHANGED jobVars
        /\ IF ms[j].released + pay >= ms[j].amount
             THEN SetMilestone(j, Settled(ms[j], "Released", pay, pay))
             ELSE SetMilestone(j, Settled(ms[j], "PartiallyReleased", pay, pay))
    BY <1>3 DEF PaymentStreamingConsent
  <2> HIDE DEF pay
  <2>4. ms[j].amount \in Nat /\ ms[j].released \in Nat
    BY <2>1 DEF Milestone
  <2>5. CASE ms[j].released + pay >= ms[j].amount
    <3>1. pay = Remaining(ms[j])
      BY <2>2, <2>4, <2>5 DEF Remaining
    <3> QED
      BY <2>1, <2>3, <2>5, <3>1, ClosedPaid, OneRewritten
  <2>6. CASE ~(ms[j].released + pay >= ms[j].amount)
    <3>1. pay \in Nat /\ pay < Remaining(ms[j])
      BY <2>2, <2>4, <2>6 DEF Remaining
    <3> QED
      BY <2>1, <2>3, <2>6, <3>1, PartPaid, OneRewritten
  <2> QED
    BY <2>5, <2>6
<1>4. ASSUME NEW j \in Milestones, ApproveMilestone(j) \/ TriggerAutoRelease(j) PROVE OnlyPaid
  BY <1>4, ReleaseOnlyPays
     DEF ApproveMilestone, TriggerAutoRelease, AutoReleasable, IsTerminal, Terminal
<1> QED
  BY <1>1, <1>2, <1>3, <1>4 DEF ApprovalNext

LEMMA DisputeOnlyPays == ASSUME Inductive, DisputeNext PROVE OnlyPaid
<1>1. ASSUME NEW j \in Milestones, RaiseDispute(j) PROVE OnlyPaid
  <2> DEFINE m == [ms[j] EXCEPT
          !.status = "Disputed",
          !.dispute = [open |-> TRUE, at |-> now, previous |-> ms[j].status, evidence |-> 0]]
  <2>1. SetMilestone(j, m) /\ UNCHANGED jobVars /\ ms[j].status \in InReview
    BY <1>1 DEF RaiseDispute
  <2>2. PaidOn(ms[j], m)
    <3>1. /\ m.paid = ms[j].paid /\ m.amount = ms[j].amount /\ m.funded = ms[j].funded
          /\ m.status = "Disputed"
      BY MilestonesAreRecords DEF Milestone
    <3> HIDE DEF m
    <3> QED
      BY <2>1, <3>1 DEF PaidOn, IsTerminal, Terminal, InReview
  <2> HIDE DEF m
  <2> QED
    BY <2>1, <2>2, OneRewritten
<1>2. ASSUME NEW j \in Milestones, SubmitEvidence(j) PROVE OnlyPaid
  <2> DEFINE m == [ms[j] EXCEPT !.dispute.evidence = @ + 1]
  <2>1. SetMilestone(j, m) /\ UNCHANGED jobVars
    BY <1>2 DEF SubmitEvidence
  <2>2. PaidOn(ms[j], m)
    BY MilestonesAreRecords DEF PaidOn, Milestone, IsTerminal
  <2> HIDE DEF m
  <2> QED
    BY <2>1, <2>2, OneRewritten
<1>3. ASSUME NEW j \in Milestones, EscalateDispute(j) PROVE OnlyPaid
  <2> DEFINE previous == ms[j].dispute.previous
             n == [ms[j] EXCEPT
                     !.status = previous,
                     !.deliveredAt = IF previous = "Delivered" THEN now ELSE @]
             m == WithoutDispute(n)
  <2>1. /\ SetMilestone(j, m) /\ UNCHANGED jobVars
        /\ j \in Live /\ ms[j].status = "Disputed" /\ ms[j].dispute.open
    BY <1>3 DEF EscalateDispute, Escalatable
  <2>2. previous \in InReview /\ ms[j] \in Milestone
    BY <2>1, LiveSlot DEF Good, DisputeRecorded, IsTerminal, Terminal
  <2>3. /\ m.paid = ms[j].paid /\ m.amount = ms[j].amount /\ m.funded = ms[j].funded
        /\ m.status = previous
    BY <2>2 DEF WithoutDispute, Milestone
  <2> HIDE DEF m, previous
  <2>4. PaidOn(ms[j], m)
    BY <2>1, <2>2, <2>3 DEF PaidOn, IsTerminal, Terminal, InReview
  <2> QED
    BY <2>1, <2>4, OneRewritten
<1>4. ASSUME NEW j \in Milestones, Arbitrable(j) PROVE Good(ms[j]) /\ ~IsTerminal(ms[j])
  BY <1>4, LiveSlot DEF Arbitrable, IsTerminal, Terminal
<1>5. ASSUME NEW j \in Milestones, NEW b \in BOOLEAN, ResolveDispute(j, b) PROVE OnlyPaid
  <2>1. PICK m: SetMilestone(j, m) /\ PaidOn(ms[j], m)
    <3>1. CASE b
      BY <1>4, <1>5, <3>1, ClosedPaid DEF ResolveDispute
    <3>2. CASE ~b
      BY <1>4, <1>5, <3>2, ClosedPaid DEF ResolveDispute
    <3> QED
      BY <3>1, <3>2
  <2> QED
    BY <1>5, <2>1, OneRewritten DEF ResolveDispute
<1>6. ASSUME NEW j \in Milestones, NEW bps \in SplitBps, ApplyDisputeArbitrationSplit(j, bps)
      PROVE  OnlyPaid
  BY <1>4, <1>6, ClosedPaid, OneRewritten
     DEF ApplyDisputeArbitrationSplit, CloseBySplit, SplitStatus
<1> QED
  BY <1>1, <1>2, <1>3, <1>5, <1>6 DEF DisputeNext

LEMMA AdminOnlyPays ==
    ASSUME Inductive, CancelNext \/ OverrideNext \/ MultisigNext PROVE OnlyPaid
<1>1. ASSUME NEW r \in Roles, CancelEscrow(r) \/ RevokeCancelApproval(r) PROVE OnlyPaid
  BY <1>1, KeptPaid DEF CancelEscrow, RevokeCancelApproval, OnlyPaid, jobVars
<1>2. ASSUME NEW to, NEW status \in {"Released", "Refunded"}, SettleAllRemaining(to, status)
      PROVE  OnlyPaid
  <2> DEFINE toward(i) == IF status = "Released" THEN Remaining(ms[i]) ELSE 0
             f == [i \in Due |-> WithoutExtension(Settled(ms[i], status,
                     IF status = "Released" THEN Remaining(ms[i]) ELSE 0, Remaining(ms[i])))]
  <2>1. /\ UNCHANGED jobVars /\ Due \subseteq Open
        /\ ms' = [i \in Milestones |-> IF i \in Due THEN f[i] ELSE ms[i]]
    BY <1>2 DEF SettleAllRemaining, Due
  <2>2. \A i \in Due: \E t: f[i] = WithoutExtension(Settled(ms[i], status, t, Remaining(ms[i])))
    <3> SUFFICES ASSUME NEW i \in Due
                 PROVE  f[i] = WithoutExtension(
                                  Settled(ms[i], status, toward(i), Remaining(ms[i])))
      OBVIOUS
    <3> QED
      OBVIOUS
  <2> HIDE DEF f, toward
  <2> QED
    BY <2>1, <2>2, ManyClosed
<1>3. ASSUME NEW j \in Milestones, Overridable(j) PROVE Good(ms[j]) /\ ~IsTerminal(ms[j])
  BY <1>3, LiveSlot DEF Overridable
<1>4. ASSUME NEW j \in Milestones, NEW to, NEW status \in {"Released", "Refunded"},
             AdminOverride(j, to, status)
      PROVE  OnlyPaid
  BY <1>3, <1>4, ClosedPaid, OneRewritten DEF AdminOverride
<1>5. ASSUME NEW j \in Milestones, NEW r \in ElapsedRatios,
             AdminOverrideStreamingRelease(j, r[1], r[2])
      PROVE  OnlyPaid
  BY <1>3, <1>5, ClosedPaid, OneRewritten
     DEF AdminOverrideStreamingRelease, CloseBySplit, SplitStatus
<1>6. CASE MultisigLock
  BY <1>6, KeptPaid DEF MultisigLock, OnlyPaid, jobVars
<1>7. ASSUME NEW j \in Milestones, NEW to, NEW status \in {"Released", "Refunded"},
             MultisigAdminOverride(j, to, status)
      PROVE  OnlyPaid
  BY <1>3, <1>7, ClosedPaid, OneRewritten DEF MultisigAdminOverride
<1> QED
  BY <1>1, <1>2, <1>4, <1>5, <1>6, <1>7
     DEF CancelNext, AdminOverrideCancelRelease, AdminOverrideCancelRefund, OverrideNext,
     AdminOverrideRelease, AdminOverrideRefund, MultisigNext, MultisigAdminOverrideRelease,
     MultisigAdminOverrideRefund, Roles

LEMMA QuietOnlyPays ==
    ASSUME PartyNext \/ TokenNext \/ PauseNext \/ YieldNext \/ Tick \/ UNCHANGED vars
    PROVE  OnlyPaid
<1>1. UNCHANGED <<ms, jobVars>>
  BY DEF PartyNext, AcceptJob, AcceptArbiter, Accept, ReplaceArbiter, RotateFreelancer,
     TokenNext, Withdraw, SweepExcess, Donate, PauseNext, EmergencyPause,
     EmergencyUnpauseParties, EmergencyUnpause, EmergencyPauseAdminOverride,
     AdminPauseEscrow, AdminResumeEscrow, SetPauses, YieldNext, AdminAccrueYield, Tick, vars
<1> QED
  BY <1>1, KeptPaid DEF OnlyPaid, jobVars

-----------------------------------------------------------------------------
(***************************************************************************)
(* Funding.                                                                *)
(***************************************************************************)
FundedKept ==
    UNCHANGED <<fundingMode, funded, count>> /\ \A i \in Milestones: ms'[i].funded = ms[i].funded

LEMMA OnlyPaidKeepsFunded == ASSUME OnlyPaid PROVE FundedKept
  BY DEF OnlyPaid, PaidOn, FundedKept

LEMMA OthersOnlyPay ==
    ASSUME Inductive, [Next]_vars, ~FundingNext PROVE OnlyPaid
  BY RefundOnlyPays, DeliveryOnlyPays, ApprovalOnlyPays, DisputeOnlyPays, AdminOnlyPays,
     QuietOnlyPays DEF Next

LEMMA FundingConsistentKept ==
    ASSUME Inductive, FundingConsistent, FundedKept PROVE FundingConsistent'
  BY LiveSlot DEF FundingConsistent, FundedKept, Live

LEMMA FundingConsistentStep ==
    ASSUME Inductive, FundingConsistent, FundingNext PROVE FundingConsistent'
<1>1. ms \in [Milestones -> Milestone] /\ Live \subseteq Milestones
      /\ count \in Nat /\ funded \in BOOLEAN /\ fundingMode \in {"Upfront", "PerMilestone"}
  BY LiveSlot, JobAssumption DEF Inductive, TypeOK, FundingMode
<1>2. CASE Fund
  BY <1>2 DEF Fund, FundingConsistent
<1>3. ASSUME NEW j \in Milestones, FundMilestone(j) PROVE FundingConsistent'
  <2>1. /\ fundingMode = "PerMilestone" /\ fundingMode' = fundingMode /\ count' = count
        /\ j \in Live /\ ~ms[j].funded
        /\ ms' = [ms EXCEPT ![j] = [ms[j] EXCEPT !.funded = TRUE]]
        /\ funded' = (funded \/ LastOne(j))
    BY <1>3 DEF FundMilestone, SetMilestone
  <2>2. ~funded
    BY <2>1 DEF FundingConsistent
  <2>3. ms'[j].funded = TRUE /\ \A i \in Live \ {j}: ms'[i].funded = ms[i].funded
    BY <1>1, <2>1 DEF Milestone
  <2>4. funded' <=> \A i \in Live: ms'[i].funded
    BY <2>1, <2>2, <2>3 DEF LastOne
  <2> QED
    BY <2>1, <2>4 DEF FundingConsistent, Live
<1>4. ASSUME NEW amt \in Amounts, AddMilestone(amt) PROVE FundingConsistent'
  <2>1. /\ funded /\ funded' = funded /\ fundingMode' = fundingMode /\ count' = count + 1
        /\ count \in Milestones
        /\ ms' = [ms EXCEPT ![count] = NewMilestone(amt, TRUE)]
    BY <1>1, <1>4, JobAssumption DEF AddMilestone, SetMilestone, Milestones, Inductive, TypeOK
  <2>2. NewMilestone(amt, TRUE).funded = TRUE
    BY DEF NewMilestone
  <2>3. ms'[count].funded = TRUE
    BY <1>1, <2>1, <2>2
  <2>4. \A i \in Live: i # count
    BY <1>1 DEF Live
  <2>5. \A i \in Live: ms'[i] = ms[i]
    BY <1>1, <2>1, <2>4
  <2>6. \A i \in Live': i \in Live \/ i = count
    BY <1>1, <2>1 DEF Live
  <2>7. CASE fundingMode = "PerMilestone"
    <3>1. \A i \in Live: ms[i].funded
      BY <2>1, <2>7 DEF FundingConsistent
    <3>2. \A i \in Live': ms'[i].funded
      BY <2>3, <2>5, <2>6, <3>1
    <3> QED
      BY <2>1, <2>7, <3>2 DEF FundingConsistent
  <2>8. CASE fundingMode # "PerMilestone"
    BY <2>1, <2>8 DEF FundingConsistent
  <2> QED
    BY <2>7, <2>8
<1>5. ASSUME NEW j \in Milestones, NEW amt \in Amounts, ReduceMilestone(j, amt)
      PROVE  FundedKept
  <2> DEFINE m == [ms[j] EXCEPT !.amount = amt]
  <2>1. SetMilestone(j, m) /\ UNCHANGED <<fundingMode, funded, count>>
    BY <1>5 DEF ReduceMilestone
  <2>2. m.funded = ms[j].funded
    BY MilestonesAreRecords DEF Milestone
  <2> HIDE DEF m
  <2> QED
    BY <1>1, <2>1, <2>2 DEF SetMilestone, FundedKept
<1>6. ASSUME NEW due \in [Milestones -> DueDates], SetDueDates(due) PROVE FundedKept
  <2>1. \A i \in Milestones: [ms[i] EXCEPT !.dueAt = due[i]].funded = ms[i].funded
    BY MilestonesAreRecords DEF Milestone
  <2> QED
    BY <1>6, <2>1 DEF SetDueDates, FundedKept, jobVars
<1> QED
  BY <1>2, <1>3, <1>4, <1>5, <1>6, FundingConsistentKept DEF FundingNext

LEMMA NothingFundedYet == ASSUME Init PROVE FundingConsistent
<1>1. Inductive
  BY InitInductive
<1>2. \A i \in Live: ms[i].funded = FALSE
  <2>1. PICK a: ms = [i \in Milestones |->
                        NewMilestone(IF i < InitCount THEN a[i] ELSE 0, FALSE)]
    BY DEF Init
  <2>2. \A x: NewMilestone(x, FALSE).funded = FALSE
    BY DEF NewMilestone
  <2> QED
    BY <1>1, <2>1, <2>2, LiveSlot
<1>3. 0 \in Live
  BY JobAssumption DEF Init, Live
<1> QED
  BY <1>2, <1>3 DEF Init, FundingConsistent

\* A job funded milestone by milestone counts as funded exactly when all of them are
\* (FundingConsistent): fund_milestone's look at the others, add_milestone's deposit
\* and every settlement that rewrites a milestone keep the two in step.
THEOREM FundedWhenAllAre == Spec => []FundingConsistent
<1>1. Init => FundingConsistent
  BY NothingFundedYet
<1>2. Inductive /\ FundingConsistent /\ [Next]_vars => FundingConsistent'
  BY FundingConsistentStep, FundingConsistentKept, OthersOnlyPay, OnlyPaidKeepsFunded
<1> QED
  BY <1>1, <1>2, InductiveInvariant, PTL DEF Spec

-----------------------------------------------------------------------------
(***************************************************************************)
(* No milestone pays more than its amount: the payments take what is left  *)
(* at most, and only what paid nothing may shrink.                         *)
(***************************************************************************)
LEMMA PaidWithinKept ==
    ASSUME Inductive, Inductive', PaidWithinAmount, OnlyPaid PROVE PaidWithinAmount'
<1> SUFFICES ASSUME NEW i \in Live' PROVE ms'[i].paid <= ms'[i].amount
  BY DEF PaidWithinAmount
<1>1. i \in Live /\ i \in Milestones
  BY LiveSlot DEF OnlyPaid, Live
<1>2. PaidOn(ms[i], ms'[i]) /\ ms[i].paid <= ms[i].amount
  BY <1>1 DEF OnlyPaid, PaidWithinAmount
<1>3. /\ ms'[i].amount = ms[i].amount
      /\ ms'[i].paid = ms[i].paid \/ ms'[i].paid < ms[i].amount \/ ms'[i].paid = ms[i].amount
  BY <1>2, Zenon DEF PaidOn
<1>4. ms[i].amount \in Nat /\ ms'[i].paid \in Nat
  <2>1. ms \in [Milestones -> Milestone] /\ ms' \in [Milestones -> Milestone]
    BY DEF Inductive, TypeOK
  <2> QED
    BY <1>1, <2>1 DEF Milestone
<1>5. CASE ms'[i].paid < ms[i].amount
  BY <1>3, <1>4, <1>5
<1>6. CASE ms'[i].paid = ms[i].paid
  BY <1>2, <1>3, <1>6
<1>7. CASE ms'[i].paid = ms[i].amount
  BY <1>3, <1>4, <1>7
<1> QED
  BY <1>3, <1>5, <1>6, <1>7

LEMMA PaidWithinStep ==
    ASSUME Inductive, PaidWithinAmount, [Next]_vars PROVE PaidWithinAmount'
<1>1. ms \in [Milestones -> Milestone] /\ Live \subseteq Milestones /\ count \in Nat
  BY LiveSlot, JobAssumption DEF Inductive, TypeOK
<1>2. \A i \in Milestones: ms[i].amount \in Nat /\ ms[i].paid \in Nat
  BY MilestonesAreRecords DEF Milestone
<1>3. CASE OnlyPaid
  BY <1>3, NextInductive, PaidWithinKept
<1>4. CASE UNCHANGED <<ms, count>>
  BY <1>4 DEF PaidWithinAmount, Live
<1>5. ASSUME NEW j \in Milestones, FundMilestone(j) PROVE PaidWithinAmount'
  <2> DEFINE m == [ms[j] EXCEPT !.funded = TRUE]
  <2>1. ms' = [ms EXCEPT ![j] = m] /\ count' = count
    BY <1>5 DEF FundMilestone, SetMilestone
  <2>2. m.amount = ms[j].amount /\ m.paid = ms[j].paid
    BY MilestonesAreRecords DEF Milestone
  <2> HIDE DEF m
  <2> QED
    BY <1>1, <2>1, <2>2 DEF PaidWithinAmount, Live
<1>6. ASSUME NEW amt \in Amounts, AddMilestone(amt) PROVE PaidWithinAmount'
  <2>1. /\ ms' = [ms EXCEPT ![count] = NewMilestone(amt, TRUE)] /\ count' = count + 1
        /\ count \in Milestones /\ amt > 0
    BY <1>1, <1>6, JobAssumption DEF AddMilestone, SetMilestone, Milestones, Inductive, TypeOK
  <2>2. NewMilestone(amt, TRUE).amount = amt /\ NewMilestone(amt, TRUE).paid = 0 /\ amt \in Nat
    BY JobAssumption DEF NewMilestone
  <2>3. (\A i \in Live': i \in Live \/ i = count) /\ \A i \in Live: i # count
    BY <1>1, <2>1 DEF Live
  <2>4. ms'[count].paid = 0 /\ ms'[count].amount = amt /\ \A i \in Live: ms'[i] = ms[i]
    BY <1>1, <2>1, <2>2, <2>3
  <2> SUFFICES ASSUME NEW i \in Live' PROVE ms'[i].paid <= ms'[i].amount
    BY DEF PaidWithinAmount
  <2>5. CASE i \in Live
    BY <2>4, <2>5 DEF PaidWithinAmount
  <2>6. CASE i = count
    <3>1. ms'[i].paid = 0 /\ ms'[i].amount = amt /\ amt \in Nat
      BY <2>2, <2>4, <2>6
    <3> QED
      BY ONLY <3>1
  <2> QED
    BY <2>3, <2>5, <2>6
<1>7. ASSUME NEW j \in Milestones, NEW amt \in Amounts, ReduceMilestone(j, amt)
      PROVE  PaidWithinAmount'
  <2> DEFINE m == [ms[j] EXCEPT !.amount = amt]
  <2>1. /\ ms' = [ms EXCEPT ![j] = m] /\ count' = count /\ amt > 0
        /\ j \in Live /\ ms[j].status = "Pending"
    BY <1>7 DEF ReduceMilestone, CanReduce, SetMilestone
  <2>2. m.amount = amt /\ m.paid = ms[j].paid /\ amt \in Nat
    BY MilestonesAreRecords, JobAssumption DEF Milestone
  <2>3. ms[j].paid = 0
    BY <2>1, LiveSlot DEF Good, PotCovered, UntouchedBeforePartial, IsTerminal, Terminal
  <2> HIDE DEF m
  <2> QED
    BY <1>1, <2>1, <2>2, <2>3 DEF PaidWithinAmount, Live
<1>8. ASSUME NEW due \in [Milestones -> DueDates], SetDueDates(due) PROVE PaidWithinAmount'
  <2>1. \A i \in Milestones: ms'[i].amount = ms[i].amount /\ ms'[i].paid = ms[i].paid
    BY <1>8, MilestonesAreRecords DEF SetDueDates, Milestone
  <2> QED
    BY <1>1, <1>8, <2>1 DEF SetDueDates, PaidWithinAmount, Live, jobVars
<1> QED
  BY <1>3, <1>4, <1>5, <1>6, <1>7, <1>8, OthersOnlyPay DEF FundingNext, Fund

LEMMA NothingPaidYet == ASSUME Init PROVE PaidWithinAmount
<1>1. PICK a: ms = [i \in Milestones |-> NewMilestone(IF i < InitCount THEN a[i] ELSE 0, FALSE)]
  BY DEF Init
<1>2. \A x: NewMilestone(x, FALSE).paid = 0
  BY DEF NewMilestone
<1>3. Live \subseteq Milestones /\ \A i \in Milestones: ms[i].amount \in Nat
  BY InitInductive, LiveSlot, MilestonesAreRecords DEF Milestone
<1>4. \A i \in Live: ms[i].paid = 0 /\ ms[i].amount \in Nat
  BY <1>1, <1>2, <1>3
<1> QED
  BY <1>4 DEF PaidWithinAmount

\* No call, whatever was released, disputed or reduced before, pays on a milestone's
\* account more than the milestone is worth.
THEOREM NothingOverpaid == Spec => []PaidWithinAmount
BY NothingPaidYet, PaidWithinStep, InductiveInvariant, PTL DEF Spec

\* No sequence of calls pays more than a milestone's amount or leaves part of a
\* closed one behind (Conservation).
THEOREM MoneyConserved == Spec => []Conservation
<1>1. ASSUME Inductive, PaidWithinAmount PROVE Conservation
  <2> SUFFICES ASSUME NEW i \in Live PROVE PotConserved(ms[i])
    BY DEF Conservation
  <2>1. ms[i] \in Milestone /\ PotCovered(ms[i]) /\ ms[i].paid <= ms[i].amount
    BY <1>1, LiveSlot DEF Good, PaidWithinAmount
  <2> QED
    BY <2>1 DEF PotCovered, PotConserved, Milestone
<1> QED
  BY <1>1, InductiveInvariant, NothingOverpaid, PTL

-----------------------------------------------------------------------------
(***************************************************************************)
(* Every step is, milestone by milestone, a step of a pot.                 *)
(***************************************************************************)
LEMMA PotTyped == ASSUME Inductive PROVE \A i \in Milestones: PotOf(i) \in MPot!Pot
<1> SUFFICES ASSUME NEW i \in Milestones PROVE PotOf(i) \in MPot!Pot
  OBVIOUS
<1>1. ms[i].amount \in Nat /\ ms[i].paid \in Nat
  BY MilestonesAreRecords DEF Milestone
<1> QED
  BY <1>1 DEF PotOf, MPot!Pot

LEMMA PotTypedNext == Inductive' => (\A i \in Milestones: PotOf(i) \in MPot!Pot)'
<1>1. Inductive => \A i \in Milestones: PotOf(i) \in MPot!Pot
  BY PotTyped
<1> QED
  BY <1>1, PTL

\* The parts of the invariant a pot's step needs, before and after.
LEMMA SlotFacts ==
    ASSUME Inductive, PaidWithinAmount, NEW i \in Milestones
    PROVE  /\ i \in Live =>
                /\ ms[i].amount \in Nat /\ ms[i].paid \in Nat /\ ms[i].amount > 0
                /\ IsTerminal(ms[i]) => ms[i].paid = ms[i].amount /\ MilestoneFunded(i)
                /\ ~IsTerminal(ms[i]) /\ ms[i].paid # 0 => MilestoneFunded(i)
                /\ ms[i].status = "Pending" => ms[i].paid = 0
                /\ ~MilestoneFunded(i) => ms[i].paid = 0
           /\ i \notin Live => ms[i] = NewMilestone(0, FALSE)
<1>1. CASE i \in Live
  <2>1. /\ ms[i] \in Milestone /\ ms[i].amount > 0
        /\ PotCovered(ms[i]) /\ ms[i].paid <= ms[i].amount /\ UntouchedBeforePartial(ms[i])
        /\ ms[i].status # "Pending" => MilestoneFunded(i)
    BY <1>1 DEF Inductive, SlotOK, Good, PaidWithinAmount
  <2>2. /\ ms[i].amount \in Nat /\ ms[i].paid \in Nat /\ ms[i].released \in Nat
        /\ ms[i].status = "Pending" => ~IsTerminal(ms[i])
    BY <2>1 DEF Milestone, IsTerminal, Terminal
  <2>3. ms[i].status = "Pending" => ms[i].paid = 0
    BY <2>1, <2>2 DEF UntouchedBeforePartial, PotCovered
  <2>4. IsTerminal(ms[i]) => ms[i].paid = ms[i].amount /\ MilestoneFunded(i)
    BY <2>1, <2>2 DEF PotCovered
  <2> QED
    BY <1>1, <2>1, <2>2, <2>3, <2>4
<1>2. CASE i \notin Live
  BY <1>2 DEF Inductive, SlotOK
<1> QED
  BY <1>1, <1>2

LEMMA SlotFactsNext ==
    Inductive' /\ PaidWithinAmount' =>
      (\A i \in Milestones:
           /\ i \in Live =>
                /\ ms[i].amount \in Nat /\ ms[i].paid \in Nat /\ ms[i].amount > 0
                /\ IsTerminal(ms[i]) => ms[i].paid = ms[i].amount /\ MilestoneFunded(i)
                /\ ~IsTerminal(ms[i]) /\ ms[i].paid # 0 => MilestoneFunded(i)
           /\ i \notin Live => ms[i] = NewMilestone(0, FALSE))'
<1>1. Inductive /\ PaidWithinAmount =>
      (\A i \in Milestones:
           /\ i \in Live =>
                /\ ms[i].amount \in Nat /\ ms[i].paid \in Nat /\ ms[i].amount > 0
                /\ IsTerminal(ms[i]) => ms[i].paid = ms[i].amount /\ MilestoneFunded(i)
                /\ ~IsTerminal(ms[i]) /\ ms[i].paid # 0 => MilestoneFunded(i)
           /\ i \notin Live => ms[i] = NewMilestone(0, FALSE))
  BY SlotFacts
<1> QED
  BY <1>1, PTL

LEMMA PotSame ==
    ASSUME NEW i, PotOf(i)' = PotOf(i) PROVE MPot!PotStep(PotOf(i), PotOf(i)')
  BY DEF MPot!PotStep

LEMMA DrainedPot ==
    ASSUME NEW a, NEW p, NEW x, x = [amount |-> a, paid |-> p, stage |-> "funded"]
    PROVE  [x EXCEPT !.paid = x.amount, !.stage = "closed"]
              = [amount |-> a, paid |-> a, stage |-> "closed"]
<1> DEFINE y == [x EXCEPT !.paid = x.amount]
<1>1. y = [amount |-> a, paid |-> a, stage |-> "funded"]
  OBVIOUS
<1>2. [x EXCEPT !.paid = x.amount, !.stage = "closed"] = [y EXCEPT !.stage = "closed"]
  OBVIOUS
<1> HIDE DEF y
<1>3. [y EXCEPT !.stage = "closed"] = [amount |-> a, paid |-> a, stage |-> "closed"]
  BY <1>1
<1> QED
  BY <1>2, <1>3

\* Outside FundingNext: a pot is paid, drained, or left as it is.
LEMMA PaidPot ==
    ASSUME Inductive, Inductive', PaidWithinAmount, PaidWithinAmount', OnlyPaid, NEW i \in Milestones,
           i \in Live /\ IsTerminal(ms[i]) => Still(i)
    PROVE  MPot!PotStep(PotOf(i), PotOf(i)')
<1>1. Live' = Live /\ MilestoneFunded(i)' = MilestoneFunded(i) /\ PaidOn(ms[i], ms'[i])
  BY DEF OnlyPaid, PaidOn, Live, MilestoneFunded
<1>2. CASE i \notin Live
  <2>1. ms'[i] = ms[i]
    BY <1>1, <1>2, SlotFacts, SlotFactsNext
  <2>2. PotOf(i)' = PotOf(i)
    BY <1>1, <2>1, <1>2 DEF PotOf
  <2> QED
    BY <2>2, PotSame
<1>3. CASE i \in Live /\ IsTerminal(ms[i])
  <2>1. PotOf(i)' = PotOf(i)
    BY <1>1, <1>3 DEF PotOf, Still, IsTerminal
  <2> QED
    BY <2>1, PotSame
<1>4. CASE i \in Live /\ ~IsTerminal(ms[i]) /\ IsTerminal(ms'[i])
  <2>1. ms'[i].paid = ms[i].amount /\ ms'[i].amount = ms[i].amount /\ MilestoneFunded(i)
    BY <1>1, <1>4, SlotFactsNext DEF PaidOn
  <2>2. PotOf(i) = [amount |-> ms[i].amount, paid |-> ms[i].paid, stage |-> "funded"]
    BY <1>4, <2>1 DEF PotOf
  <2>3. PotOf(i)' = [amount |-> ms[i].amount, paid |-> ms[i].amount, stage |-> "closed"]
    BY <1>1, <1>4, <2>1 DEF PotOf, IsTerminal
  <2>4. PotOf(i)' = [PotOf(i) EXCEPT !.paid = PotOf(i).amount, !.stage = "closed"]
    BY <2>2, <2>3, DrainedPot
  <2>5. PotOf(i).stage = "funded"
    BY <2>2
  <2> QED
    BY <2>4, <2>5, Zenon DEF MPot!PotStep, MPot!Drain
<1>5. CASE i \in Live /\ ~IsTerminal(ms[i]) /\ ~IsTerminal(ms'[i])
  <2>1. CASE ms'[i].paid = ms[i].paid
    <3>1. PotOf(i)' = PotOf(i)
      BY <1>1, <1>5, <2>1 DEF PotOf, PaidOn
    <3> QED
      BY <3>1, PotSame
  <2>2. CASE ms[i].paid < ms'[i].paid /\ ms'[i].paid < ms[i].amount
    <3>1. ms[i].paid \in Nat /\ ms'[i].paid \in Nat /\ ms'[i].amount = ms[i].amount
      BY <1>1, <1>5, SlotFacts, SlotFactsNext DEF PaidOn
    <3>2. ms'[i].paid # 0
      BY <2>2, <3>1
    <3>3. MilestoneFunded(i)
      BY <1>1, <1>5, <3>2, SlotFactsNext
    <3>4. PotOf(i) = [amount |-> ms[i].amount, paid |-> ms[i].paid, stage |-> "funded"]
      BY <1>5, <3>3 DEF PotOf
    <3>5. PotOf(i)' = [amount |-> ms[i].amount, paid |-> ms'[i].paid, stage |-> "funded"]
      BY <1>1, <1>5, <3>1, <3>3 DEF PotOf
    <3> QED
      BY <2>2, <3>4, <3>5 DEF MPot!PotStep, MPot!Pay
  <2> QED
    BY <1>1, <1>5, <2>1, <2>2 DEF PaidOn
<1> QED
  BY <1>2, <1>3, <1>4, <1>5


\* fund, fund_milestone, add_milestone and reduce_milestone: what becomes of a pot.
LEMMA FundingPot ==
    ASSUME Inductive, FundingConsistent, PaidWithinAmount, Inductive', FundingNext,
           NEW i \in Milestones
    PROVE  MPot!PotStep(PotOf(i), PotOf(i)')
<1>1. /\ ms \in [Milestones -> Milestone] /\ Live \subseteq Milestones
      /\ count \in Nat /\ funded \in BOOLEAN
  BY LiveSlot, JobAssumption DEF Inductive, TypeOK
<1>2. CASE Fund
  <2>1. funded' /\ ms' = ms /\ count' = count /\ fundingMode = "Upfront" /\ ~funded
    BY <1>2 DEF Fund
  <2>2. Live' = Live /\ ~MilestoneFunded(i) /\ MilestoneFunded(i)'
    BY <2>1 DEF Live, MilestoneFunded
  <2>3. CASE i \notin Live
    <3>1. PotOf(i)' = PotOf(i)
      BY <2>1, <2>2, <2>3 DEF PotOf
    <3> QED
      BY <3>1, PotSame
  <2>4. CASE i \in Live
    <3>1. ~IsTerminal(ms[i])
      BY <2>2, <2>4, SlotFacts
    <3>2. PotOf(i) = [amount |-> ms[i].amount, paid |-> ms[i].paid, stage |-> "unfunded"]
      BY <2>2, <2>4, <3>1 DEF PotOf
    <3>3. PotOf(i)' = [amount |-> ms[i].amount, paid |-> ms[i].paid, stage |-> "funded"]
      BY <2>1, <2>2, <2>4, <3>1 DEF PotOf, IsTerminal
    <3> QED
      BY <3>2, <3>3 DEF MPot!PotStep, MPot!FundPot
  <2> QED
    BY <2>3, <2>4
<1>3. ASSUME NEW j \in Milestones, FundMilestone(j)
      PROVE  MPot!PotStep(PotOf(i), PotOf(i)')
  <2> DEFINE m == [ms[j] EXCEPT !.funded = TRUE]
  <2>1. /\ fundingMode = "PerMilestone" /\ fundingMode' = fundingMode /\ count' = count
        /\ j \in Live /\ ~ms[j].funded /\ ms' = [ms EXCEPT ![j] = m]
        /\ funded' = (funded \/ LastOne(j))
    BY <1>3 DEF FundMilestone, SetMilestone
  <2>2. ~funded /\ Live' = Live
    BY <2>1 DEF FundingConsistent, Live
  <2>3. /\ m.funded = TRUE /\ m.amount = ms[j].amount /\ m.paid = ms[j].paid
        /\ m.status = ms[j].status
    BY MilestonesAreRecords DEF Milestone
  <2> HIDE DEF m
  <2>4. ms'[j] = m /\ (i # j => ms'[i] = ms[i])
    BY <1>1, <2>1
  <2>5. CASE i = j
    <3>1. ~MilestoneFunded(i) /\ MilestoneFunded(i)'
      BY <2>1, <2>2, <2>3, <2>4, <2>5 DEF MilestoneFunded
    <3>2. ~IsTerminal(ms[i]) /\ i \in Live
      BY <2>1, <2>5, <3>1, SlotFacts
    <3>3. PotOf(i) = [amount |-> ms[i].amount, paid |-> ms[i].paid, stage |-> "unfunded"]
      BY <3>1, <3>2 DEF PotOf
    <3>4. PotOf(i)' = [amount |-> ms[i].amount, paid |-> ms[i].paid, stage |-> "funded"]
      BY <2>2, <2>3, <2>4, <2>5, <3>1, <3>2 DEF PotOf, IsTerminal
    <3> QED
      BY <3>3, <3>4 DEF MPot!PotStep, MPot!FundPot
  <2>6. CASE i # j
    <3>1. i \in Live => (MilestoneFunded(i)' <=> MilestoneFunded(i))
      BY <2>1, <2>2, <2>4, <2>6 DEF MilestoneFunded, LastOne
    <3>2. PotOf(i)' = PotOf(i)
      BY <2>2, <2>4, <2>6, <3>1 DEF PotOf
    <3> QED
      BY <3>2, PotSame
  <2> QED
    BY <2>5, <2>6
<1>4. ASSUME NEW amt \in Amounts, AddMilestone(amt)
      PROVE  MPot!PotStep(PotOf(i), PotOf(i)')
  <2>1. /\ funded /\ funded' = funded /\ fundingMode' = fundingMode /\ count' = count + 1
        /\ count \in Milestones /\ count \notin Live
        /\ ms' = [ms EXCEPT ![count] = NewMilestone(amt, TRUE)]
        /\ amt \in Nat /\ amt > 0
    <3>1. count \in Milestones
      BY <1>1, <1>4, JobAssumption DEF AddMilestone, Milestones, Inductive, TypeOK
    <3>2. amt \in Nat
      BY JobAssumption
    <3> QED
      BY <1>1, <1>4, <3>1, <3>2 DEF AddMilestone, SetMilestone, Live
  <2>2. /\ NewMilestone(amt, TRUE).amount = amt /\ NewMilestone(amt, TRUE).paid = 0
        /\ ~IsTerminal(NewMilestone(amt, TRUE))
        /\ NewMilestone(0, FALSE).amount = 0 /\ NewMilestone(0, FALSE).paid = 0
    BY DEF NewMilestone, IsTerminal, Terminal
  <2>3. MilestoneFunded(i) /\ MilestoneFunded(i)'
    BY <2>1 DEF MilestoneFunded
  <2>4. CASE i = count
    <3>1. ms[i] = NewMilestone(0, FALSE) /\ ms'[i] = NewMilestone(amt, TRUE)
      BY <1>1, <2>1, <2>4, SlotFacts
    <3>2. i \in Live'
      BY <1>1, <2>1, <2>4, JobAssumption DEF Live, Milestones
    <3>3. PotOf(i) = [amount |-> 0, paid |-> 0, stage |-> "none"]
      BY <2>1, <2>2, <2>4, <3>1 DEF PotOf
    <3>4. PotOf(i)' = [amount |-> amt, paid |-> 0, stage |-> "funded"]
      BY <2>2, <2>3, <3>1, <3>2 DEF PotOf, IsTerminal
    <3> QED
      BY <2>1, <3>3, <3>4 DEF MPot!PotStep, MPot!Create, MPot!NoPot, MPot!FreshPot
  <2>5. CASE i # count
    <3>1. ms'[i] = ms[i] /\ (i \in Live' <=> i \in Live)
      BY <1>1, <2>1, <2>5, JobAssumption DEF Live, Milestones
    <3>2. PotOf(i)' = PotOf(i)
      BY <2>3, <3>1 DEF PotOf, IsTerminal
    <3> QED
      BY <3>2, PotSame
  <2> QED
    BY <2>4, <2>5
<1>5. ASSUME NEW j \in Milestones, NEW amt \in Amounts, ReduceMilestone(j, amt)
      PROVE  MPot!PotStep(PotOf(i), PotOf(i)')
  <2> DEFINE m == [ms[j] EXCEPT !.amount = amt]
  <2>1. /\ UNCHANGED <<fundingMode, funded, count>> /\ funded
        /\ j \in Live /\ ms[j].status = "Pending" /\ 0 < amt /\ amt < ms[j].amount
        /\ ms' = [ms EXCEPT ![j] = m]
    BY <1>5 DEF ReduceMilestone, CanReduce, SetMilestone
  <2>2. m.amount = amt /\ m.paid = ms[j].paid /\ m.status = ms[j].status
    BY MilestonesAreRecords DEF Milestone
  <2> HIDE DEF m
  <2>3. ms'[j] = m /\ (i # j => ms'[i] = ms[i])
    BY <1>1, <2>1
  <2>4. Live' = Live /\ MilestoneFunded(i) /\ MilestoneFunded(i)'
    BY <2>1 DEF Live, MilestoneFunded
  <2>5. CASE i = j
    <3>1. ms[i].paid = 0 /\ ~IsTerminal(ms[i]) /\ ~IsTerminal(ms'[i]) /\ i \in Live
      BY <2>1, <2>2, <2>3, <2>5, SlotFacts DEF IsTerminal, Terminal
    <3>2. PotOf(i) = [amount |-> ms[i].amount, paid |-> 0, stage |-> "funded"]
      BY <2>4, <3>1 DEF PotOf
    <3>3. PotOf(i)' = [amount |-> amt, paid |-> 0, stage |-> "funded"]
      BY <2>2, <2>3, <2>4, <2>5, <3>1 DEF PotOf, IsTerminal
    <3> QED
      BY <2>1, <2>5, <3>2, <3>3 DEF MPot!PotStep, MPot!Shrink
  <2>6. CASE i # j
    <3>1. PotOf(i)' = PotOf(i)
      BY <2>3, <2>4, <2>6 DEF PotOf, IsTerminal
    <3> QED
      BY <3>1, PotSame
  <2> QED
    BY <2>5, <2>6
<1>6. ASSUME NEW due \in [Milestones -> DueDates], SetDueDates(due)
      PROVE  MPot!PotStep(PotOf(i), PotOf(i)')
  <2>1. ms'[i].amount = ms[i].amount /\ ms'[i].paid = ms[i].paid
        /\ ms'[i].status = ms[i].status /\ ms'[i].funded = ms[i].funded
    BY <1>6, MilestonesAreRecords DEF SetDueDates, Milestone
  <2>2. PotOf(i)' = PotOf(i)
    BY <1>6, <2>1 DEF SetDueDates, PotOf, jobVars, Live, MilestoneFunded, IsTerminal
  <2> QED
    BY <2>2, PotSame
<1> QED
  BY <1>2, <1>3, <1>4, <1>5, <1>6 DEF FundingNext

LEMMA PotInit == ASSUME Init PROVE MPot!Init
<1>1. Inductive /\ PaidWithinAmount
  BY InitInductive, NothingPaidYet
<1>2. \A i \in Milestones: ms[i].paid = 0 /\ ms[i].status = "Pending" /\ ~MilestoneFunded(i)
  <2>1. PICK a: ms = [i \in Milestones |->
                        NewMilestone(IF i < InitCount THEN a[i] ELSE 0, FALSE)]
    BY DEF Init
  <2>2. \A x: /\ NewMilestone(x, FALSE).funded = FALSE /\ NewMilestone(x, FALSE).paid = 0
              /\ NewMilestone(x, FALSE).status = "Pending"
    BY DEF NewMilestone
  <2>3. \A i \in Milestones: ms[i].paid = 0 /\ ms[i].status = "Pending" /\ ms[i].funded = FALSE
    BY <2>1, <2>2
  <2> QED
    BY <2>3 DEF Init, MilestoneFunded
<1>3. ASSUME NEW i \in Milestones
      PROVE  PotOf(i) # MPot!NoPot =>
                PotOf(i).amount > 0 /\ PotOf(i) = MPot!FreshPot(PotOf(i).amount, "unfunded")
  <2>1. CASE i \in Live
    <3>1. ~IsTerminal(ms[i]) /\ ms[i].amount > 0
      BY <1>1, <1>2, <2>1, SlotFacts DEF IsTerminal, Terminal
    <3>2. PotOf(i) = [amount |-> ms[i].amount, paid |-> 0, stage |-> "unfunded"]
      BY <1>2, <2>1, <3>1 DEF PotOf
    <3> QED
      BY <3>1, <3>2 DEF MPot!FreshPot
  <2>2. CASE i \notin Live
    <3>1. ms[i] = NewMilestone(0, FALSE)
      BY <1>1, <2>2, SlotFacts
    <3>2. PotOf(i) = MPot!NoPot
      BY <2>2, <3>1 DEF PotOf, NewMilestone, MPot!NoPot
    <3> QED
      BY <3>2
  <2> QED
    BY <2>1, <2>2
<1> DEFINE pots == [i \in Milestones |-> PotOf(i)]
<1>4. pots \in [Milestones -> MPot!Pot] /\ \A i \in Milestones: pots[i] = PotOf(i)
  BY <1>1, PotTyped
<1> QED
  BY <1>3, <1>4 DEF MPot!Init

LEMMA PotStepTaken ==
    ASSUME Inductive, FundingConsistent, PaidWithinAmount, [Next]_vars
    PROVE  MPot!Next
<1>1. Inductive' /\ PaidWithinAmount'
  BY NextInductive, PaidWithinStep
<1>2. \A i \in Milestones: MPot!PotStep(PotOf(i), PotOf(i)')
  <2> SUFFICES ASSUME NEW i \in Milestones PROVE MPot!PotStep(PotOf(i), PotOf(i)')
    OBVIOUS
  <2>1. CASE FundingNext
    BY <1>1, <2>1, FundingPot
  <2>2. CASE ~FundingNext
    <3>1. OnlyPaid
      BY <2>2, OthersOnlyPay
    <3>2. i \in Live /\ IsTerminal(ms[i]) => Still(i)
      BY NextMoves DEF Moved, PartiesMove, StreamMove, BackToReview, ArbiterMove, AdminMove,
         IsTerminal, Terminal, InReview
    <3> QED
      BY <1>1, <3>1, <3>2, PaidPot
  <2> QED
    BY <2>1, <2>2
<1>3. \A i \in Milestones: PotOf(i)' \in MPot!Pot
  BY <1>1, PotTypedNext
<1>4. [i \in Milestones |-> PotOf(i)]' = [i \in Milestones |-> PotOf(i)']
  OBVIOUS
<1> QED
  BY <1>2, <1>3, <1>4 DEF MPot!Next

\* The escrow implements MilestonePot (ImplementsMilestonePot): whatever the entry
\* points do to each other, each milestone is filled once, paid out of what is in it,
\* drained once and never refilled.
THEOREM PotsRefined == Spec => ImplementsMilestonePot
<1>1. Init => MPot!Init
  BY PotInit
<1>2. Inductive /\ FundingConsistent /\ PaidWithinAmount /\ [Next]_vars
         => [MPot!Next]_[i \in Milestones |-> PotOf(i)]
  BY PotStepTaken
<1> QED
  BY <1>1, <1>2, InductiveInvariant, FundedWhenAllAre, NothingOverpaid, PTL
     DEF Spec, ImplementsMilestonePot, MPot!Spec
================================================================================
