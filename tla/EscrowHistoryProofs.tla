-------------------------- MODULE EscrowHistoryProofs --------------------------
(***************************************************************************)
(* What a step of the escrow may never do, proved for every value of the   *)
(* constants: who can move a milestone's money and when, and that no stale *)
(* agreement ever locks the escrow.                                        *)
(***************************************************************************)
EXTENDS EscrowHistory, MilestoneEscrowProofs

-----------------------------------------------------------------------------
(***************************************************************************)
(* The agreement to cancel.  Only the calls of CancelNext touch its record *)
(* and the lock, and only Tick the time.                                   *)
(***************************************************************************)
CancelFrame == UNCHANGED <<cancelApproval, cancelLock, now>>

LEMMA FundingKeepsCancel == ASSUME FundingNext PROVE CancelFrame
  BY DEF FundingNext, Fund, FundMilestone, AddMilestone, ReduceMilestone, SetDueDates,
     CancelFrame, lockVars

LEMMA PartyKeepsCancel == ASSUME PartyNext PROVE CancelFrame
  BY DEF PartyNext, AcceptJob, AcceptArbiter, Accept, ReplaceArbiter, RotateFreelancer,
     CancelFrame, lockVars

LEMMA RefundKeepsCancel == ASSUME RefundNext PROVE CancelFrame
  BY DEF RefundNext, WithdrawUnaccepted, ReclaimOverdue, CancelFrame, lockVars

LEMMA DeliveryKeepsCancel == ASSUME DeliveryNext PROVE CancelFrame
  BY DEF DeliveryNext, MarkDelivered, RequestRevision, ExtendMilestoneDeadline,
     TimeExtensionsConsent, Extend, CancelFrame, lockVars

LEMMA ApprovalKeepsCancel == ASSUME ApprovalNext PROVE CancelFrame
  BY DEF ApprovalNext, ApprovePartial, ApproveMilestone, ApproveMilestones,
     PaymentStreamingConsent, TriggerAutoRelease, ReleaseInFull, CancelFrame, lockVars

LEMMA TokenKeepsCancel == ASSUME TokenNext PROVE CancelFrame
  BY DEF TokenNext, Withdraw, SweepExcess, Donate, CancelFrame, lockVars

LEMMA DisputeKeepsCancel == ASSUME DisputeNext PROVE CancelFrame
  BY DEF DisputeNext, RaiseDispute, SubmitEvidence, EscalateDispute, ResolveDispute,
     ApplyDisputeArbitrationSplit, CancelFrame, lockVars

LEMMA PauseKeepsCancel == ASSUME PauseNext PROVE CancelFrame
  BY DEF PauseNext, EmergencyPause, EmergencyUnpauseParties, EmergencyUnpause,
     EmergencyPauseAdminOverride, AdminPauseEscrow, AdminResumeEscrow, SetPauses,
     CancelFrame, lockVars

LEMMA OverrideKeepsCancel == ASSUME OverrideNext PROVE CancelFrame
  BY DEF OverrideNext, AdminOverrideRelease, AdminOverrideRefund, AdminOverride,
     AdminOverrideStreamingRelease, CancelFrame, lockVars

LEMMA MultisigKeepsCancel == ASSUME MultisigNext PROVE CancelFrame
  BY DEF MultisigNext, MultisigLock, MultisigAdminOverrideRelease,
     MultisigAdminOverrideRefund, MultisigAdminOverride, CancelFrame

LEMMA YieldKeepsCancel == ASSUME YieldNext PROVE CancelFrame
  BY DEF YieldNext, AdminAccrueYield, CancelFrame, lockVars

LEMMA OnlyCancelNextCancels == ASSUME Next PROVE CancelNext \/ Tick \/ CancelFrame
  BY FundingKeepsCancel, PartyKeepsCancel, RefundKeepsCancel, DeliveryKeepsCancel,
     ApprovalKeepsCancel, TokenKeepsCancel, DisputeKeepsCancel, PauseKeepsCancel,
     OverrideKeepsCancel, MultisigKeepsCancel, YieldKeepsCancel DEF Next

-----------------------------------------------------------------------------
(***************************************************************************)
(* The inductive invariant: the record holds at most one agreement, and    *)
(* its date is the moment that party agreed.  A record of both would have  *)
(* become the lock in the step that made it.                               *)
(***************************************************************************)
AssentInv ==
    /\ now \in Nat \ {0}
    /\ assented \in [Roles -> Nat]
    /\ cancelApproval \in CancelApproval
    /\ cancelApproval.mask # Roles
    /\ \A r \in cancelApproval.mask: assented[r] = cancelApproval.at /\ assented[r] # 0

\* What a step that is neither an agreement nor a revocation leaves.
LEMMA QuietAssent ==
    ASSUME AssentInv, RecordAssent, UNCHANGED cancelApproval,
           now' = now \/ now' = now + 1, ~Locks,
           \A r \in Roles: ~CancelEscrow(r) /\ ~RevokeCancelApproval(r)
    PROVE  AssentInv'
<1>1. assented' = [r \in Roles |-> assented[r]]
  BY DEF RecordAssent
<1>2. cancelApproval.mask \subseteq Roles
  BY DEF AssentInv, CancelApproval, Roles
<1>3. \A r \in Roles: assented'[r] = assented[r]
  BY <1>1
<1>4. assented' \in [Roles -> Nat] /\ now' \in Nat \ {0}
  BY <1>1 DEF AssentInv
<1> QED
  BY <1>2, <1>3, <1>4 DEF AssentInv


\* An agreement either locks, and leaves no record, or is the only one recorded.
LEMMA CancelEffect ==
    ASSUME AssentInv, NEW r \in Roles, CancelEscrow(r)
    PROVE  /\ now' = now
           /\ \/ cancelApproval' = NoApproval
              \/ ~Locks /\ cancelApproval' = [mask |-> {r}, at |-> now]
<1> DEFINE mask == LiveApprovals \cup {r}
<1>1. now' = now /\ ~cancelLock
  BY DEF CancelEscrow
<1>2. CASE mask = {"client", "freelancer"}
  BY <1>1, <1>2 DEF CancelEscrow
<1>3. CASE mask # {"client", "freelancer"}
  <2>1. cancelApproval' = [mask |-> mask, at |-> now] /\ cancelLock' = cancelLock
    BY <1>3 DEF CancelEscrow
  <2>2. LiveApprovals \subseteq {"client", "freelancer"}
    BY DEF AssentInv, CancelApproval, LiveApprovals
  <2>3. mask = {r}
    BY <1>3, <2>2 DEF Roles
  <2> QED
    BY <1>1, <2>1, <2>3 DEF Locks
<1> QED
  BY <1>2, <1>3

LEMMA RevokeEffect ==
    ASSUME AssentInv, NEW r \in Roles, RevokeCancelApproval(r)
    PROVE  now' = now /\ cancelApproval' = NoApproval
<1>1. cancelApproval.mask \subseteq Roles /\ r \in cancelApproval.mask
  BY DEF AssentInv, CancelApproval, Roles, RevokeCancelApproval
<1>2. cancelApproval.mask \ {r} = {}
  BY <1>1 DEF AssentInv, Roles
<1> QED
  BY <1>2 DEF RevokeCancelApproval

LEMMA SettleEffect ==
    ASSUME NEW to, NEW status, SettleAllRemaining(to, status)
    PROVE  now' = now /\ cancelApproval' = cancelApproval /\ ~cancelLock'
  BY DEF SettleAllRemaining

LEMMA AssentTyped ==
    ASSUME AssentInv, RecordAssent
    PROVE  assented' \in [Roles -> Nat]
  BY DEF AssentInv, RecordAssent

LEMMA AssentStep ==
    ASSUME AssentInv, Next, RecordAssent
    PROVE  AssentInv'
<1>1. CASE \E r \in Roles: CancelEscrow(r)
  <2>1. PICK r \in Roles: CancelEscrow(r)
    BY <1>1
  <2>2. now' = now
    BY <2>1, CancelEffect
  <2>3. CASE cancelApproval' = NoApproval
    BY <2>2, <2>3, AssentTyped DEF AssentInv, NoApproval, CancelApproval, Roles
  <2>4. CASE ~Locks /\ cancelApproval' = [mask |-> {r}, at |-> now]
    <3>1. assented'[r] = now
      BY <2>1, <2>4 DEF RecordAssent
    <3>2. cancelApproval' \in CancelApproval /\ cancelApproval'.mask # Roles
      BY <2>4 DEF CancelApproval, Roles, AssentInv
    <3> QED
      BY <2>2, <2>4, <3>1, <3>2, AssentTyped DEF AssentInv
  <2> QED
    BY <2>1, <2>3, <2>4, CancelEffect
<1>2. CASE \E r \in Roles: RevokeCancelApproval(r)
  <2>1. now' = now /\ cancelApproval' = NoApproval
    BY <1>2, RevokeEffect
  <2> QED
    BY <2>1, AssentTyped DEF AssentInv, NoApproval, CancelApproval, Roles
<1>3. CASE ~(\E r \in Roles: CancelEscrow(r)) /\ ~(\E r \in Roles: RevokeCancelApproval(r))
  <2>1. CASE AdminOverrideCancelRelease \/ AdminOverrideCancelRefund
    BY <1>3, <2>1, SettleEffect, QuietAssent
       DEF AdminOverrideCancelRelease, AdminOverrideCancelRefund, Locks
  <2>2. CASE Tick
    BY <1>3, <2>2, QuietAssent DEF Tick, lockVars, Locks
  <2>3. CASE CancelFrame
    BY <1>3, <2>3, QuietAssent DEF CancelFrame, Locks
  <2> QED
    BY <1>3, <2>1, <2>2, <2>3, OnlyCancelNextCancels DEF CancelNext, Roles
<1> QED
  BY <1>1, <1>2, <1>3

\* The lock is set by an agreement, and the other one is on record and live.
LEMMA LockNeedsBoth ==
    ASSUME AssentInv, Next, Locks
    PROVE  \A r \in Roles: Agrees(r)
<1>1. ~CancelFrame /\ ~Tick
  BY DEF Locks, CancelFrame, Tick, lockVars
<1>2. ~AdminOverrideCancelRelease /\ ~AdminOverrideCancelRefund
  BY SettleEffect DEF Locks, AdminOverrideCancelRelease, AdminOverrideCancelRefund
<1>3. ~(\E r \in Roles: RevokeCancelApproval(r))
  BY DEF Locks, RevokeCancelApproval
<1>4. PICK role \in Roles: CancelEscrow(role)
  BY <1>1, <1>2, <1>3, OnlyCancelNextCancels DEF CancelNext, Roles
<1>5. LiveApprovals \cup {role} = {"client", "freelancer"}
  BY <1>4 DEF Locks, CancelEscrow
<1> SUFFICES ASSUME NEW r \in Roles PROVE Agrees(r)
  OBVIOUS
<1>6. CASE r = role
  BY <1>4, <1>6 DEF Agrees
<1>7. CASE r # role
  <2>1. r \in LiveApprovals
    BY <1>5, <1>7 DEF Roles
  <2>2. r \in cancelApproval.mask /\ now - cancelApproval.at < CancelTtl
    BY <2>1 DEF LiveApprovals
  <2> QED
    BY <2>2 DEF Agrees, AssentInv
<1> QED
  BY <1>6, <1>7

LEMMA AssentInit == ASSUME HistoryInit PROVE AssentInv
  BY DEF HistoryInit, Init, AssentInv, NoApproval, CancelApproval, Roles

LEMMA AssentInvariant == HistorySpec => []AssentInv
<1>1. AssentInv /\ [HistoryNext]_historyVars => AssentInv'
  <2> SUFFICES ASSUME AssentInv, [HistoryNext]_historyVars PROVE AssentInv'
    OBVIOUS
  <2>1. CASE HistoryNext
    BY <2>1, AssentStep DEF HistoryNext
  <2>2. CASE UNCHANGED historyVars
    BY <2>2 DEF historyVars, vars, lockVars, AssentInv
  <2> QED
    BY <2>1, <2>2
<1> QED
  BY <1>1, AssentInit, PTL DEF HistorySpec

\* The escrow is locked only by two agreements of one window (StaleIntentNeverLocks),
\* for every time to live: cancel_escrow drops what has expired before it counts,
\* and revoke_cancel_approval and the lock leave nothing behind.
THEOREM NoStaleLock == HistorySpec => StaleIntentNeverLocks
<1>1. AssentInv /\ [HistoryNext]_historyVars
         => [Locks => \A r \in Roles: Agrees(r)]_historyVars
  BY LockNeedsBoth DEF HistoryNext
<1> QED
  BY <1>1, AssentInvariant, PTL DEF HistorySpec, StaleIntentNeverLocks


-----------------------------------------------------------------------------
(***************************************************************************)
(* Who moves a milestone.  A step leaves its status, amount and payments   *)
(* alone, or is one of the moves below: the parties' own, which no pause   *)
(* and no lock lets through; a stream both sign; the way back from a       *)
(* dispute; the arbiter's decision; the admin's.                           *)
(***************************************************************************)
Still(i) ==
    /\ ms'[i].status = ms[i].status /\ ms'[i].paid = ms[i].paid
    /\ ms'[i].amount = ms[i].amount

PartiesMove(i) ==
    /\ NotPaused /\ ms[i].status \in InReview \cup {"Pending"}
    /\ ms[i].status \in InReview => ms'[i].status # "Refunded"

StreamMove(i) ==
    /\ ~ep /\ ms[i].status \in InReview /\ ms'[i].status # "Refunded"
    /\ \E r \in StreamRatios: PaymentStreamingConsent(i, r[1], r[2])

BackToReview(i) ==
    /\ ms[i].status = "Disputed"
    /\ ms'[i].paid = ms[i].paid

ArbiterMove(i) == NotPaused /\ ms[i].status = "Disputed" /\ ArbiterStep

AdminMove(i) == ~IsTerminal(ms[i]) /\ AdminStep

Moved(i) ==
    \/ Still(i) \/ PartiesMove(i) \/ StreamMove(i)
    \/ BackToReview(i) \/ ArbiterMove(i) \/ AdminMove(i)

\* A step that rewrites one milestone leaves the others still.
LEMMA OthersStill ==
    ASSUME Inductive, NEW j \in Milestones, NEW m, SetMilestone(j, m),
           NEW i \in Milestones
    PROVE  /\ i # j => Still(i)
           /\ i = j => ms'[i] = m
  BY DEF Inductive, TypeOK, SetMilestone, Still

LEMMA MilestonesUntouched ==
    ASSUME UNCHANGED ms, NEW i PROVE Still(i)
  BY DEF Still

LEMMA FundingMoves == ASSUME Inductive, FundingNext, NEW i \in Live PROVE Moved(i)
<1>1. i \in Milestones /\ ms[i] \in Milestone
  BY LiveSlot
<1>2. CASE Fund
  BY <1>1, <1>2, MilestonesUntouched DEF Fund, Moved
<1>3. ASSUME NEW j \in Milestones, FundMilestone(j) PROVE Moved(i)
  <2>1. SetMilestone(j, [ms[j] EXCEPT !.funded = TRUE]) /\ j \in Live
    BY <1>3 DEF FundMilestone
  <2>2. ms[j] \in Milestone
    BY <2>1, LiveSlot
  <2>3. i = j => Still(i)
    BY <1>1, <2>1, <2>2, OthersStill DEF Still, Milestone
  <2> QED
    BY <1>1, <2>1, <2>3, OthersStill DEF Moved
<1>4. ASSUME NEW amt \in Amounts, AddMilestone(amt) PROVE Moved(i)
  <2>1. count \in Milestones /\ i # count
    BY <1>4, JobAssumption DEF AddMilestone, Inductive, TypeOK, Milestones, Live
  <2> QED
    BY <1>1, <1>4, <2>1, OthersStill DEF AddMilestone, Moved
<1>5. ASSUME NEW j \in Milestones, NEW amt \in Amounts, ReduceMilestone(j, amt) PROVE Moved(i)
  <2>1. SetMilestone(j, [ms[j] EXCEPT !.amount = amt])
        /\ NotPaused /\ ms[j].status = "Pending"
    BY <1>5 DEF ReduceMilestone, CanReduce
  <2>2. CASE i = j
    BY <2>1, <2>2 DEF Moved, PartiesMove, InReview
  <2> QED
    BY <1>1, <2>1, <2>2, OthersStill DEF Moved
<1>6. ASSUME NEW due \in [Milestones -> DueDates], SetDueDates(due) PROVE Moved(i)
  BY <1>1, <1>6 DEF SetDueDates, Moved, Still, Milestone
<1> QED
  BY <1>2, <1>3, <1>4, <1>5, <1>6 DEF FundingNext

LEMMA RefundMoves == ASSUME Inductive, RefundNext, NEW i \in Live PROVE Moved(i)
<1>1. i \in Milestones /\ ms[i] \in Milestone /\ SlotOK(i)
  BY LiveSlot DEF Inductive
<1>2. CASE WithdrawUnaccepted
  <2>1. CASE i \in Due
    <3>1. ms[i].status \notin InReview \cup {"Disputed"}
      BY <1>1, <1>2 DEF SlotOK, WithdrawUnaccepted, NotAcceptedInTime
    <3>2. ms[i].status = "Pending"
      BY <1>1, <2>1, <3>1 DEF Due, Open, IsTerminal, Terminal, InReview, Milestone,
         MilestoneStatus
    <3> QED
      BY <1>2, <3>2 DEF WithdrawUnaccepted, Moved, PartiesMove, InReview
  <2>2. CASE i \notin Due
    BY <1>1, <1>2, <2>2 DEF WithdrawUnaccepted, Moved, Still
  <2> QED
    BY <2>1, <2>2
<1>3. ASSUME NEW j \in Milestones, ReclaimOverdue(j) PROVE Moved(i)
  <2>1. SetMilestone(j, Settled(ms[j], "Refunded", 0, Remaining(ms[j])))
        /\ NotPaused /\ ms[j].status = "Pending"
    BY <1>3 DEF ReclaimOverdue
  <2>2. CASE i = j
    BY <2>1, <2>2 DEF Moved, PartiesMove, InReview
  <2> QED
    BY <1>1, <2>1, <2>2, OthersStill DEF Moved
<1> QED
  BY <1>2, <1>3 DEF RefundNext

LEMMA DeliveryMoves == ASSUME Inductive, DeliveryNext, NEW i \in Live PROVE Moved(i)
<1>1. i \in Milestones /\ ms[i] \in Milestone
  BY LiveSlot
<1>2. ASSUME NEW j \in Milestones, MarkDelivered(j) PROVE Moved(i)
  <2>1. SetMilestone(j, [ms[j] EXCEPT !.status = "Delivered", !.deliveredAt = now])
        /\ NotPaused /\ ms[j].status = "Pending"
    BY <1>2 DEF MarkDelivered
  <2>2. CASE i = j
    BY <2>1, <2>2 DEF Moved, PartiesMove, InReview
  <2> QED
    BY <1>1, <2>1, <2>2, OthersStill DEF Moved
<1>3. ASSUME NEW j \in Milestones, RequestRevision(j) PROVE Moved(i)
  <2> DEFINE m == WithoutExtension(
                     [ms[j] EXCEPT !.status = "Pending", !.deliveredAt = 0, !.revisions = @ + 1])
  <2>1. SetMilestone(j, m) /\ NotPaused /\ ms[j].status = "Delivered"
    BY <1>3 DEF RequestRevision, Revisable
  <2>2. CASE i = j
    <3>1. m.status = "Pending"
      BY <1>1, <2>2 DEF WithoutExtension, Milestone
    <3>2. ms'[i] = m
      BY <1>1, <2>1, <2>2, OthersStill
    <3> HIDE DEF m
    <3> QED
      BY <2>1, <2>2, <3>1, <3>2 DEF Moved, PartiesMove, InReview
  <2> QED
    BY <1>1, <2>1, <2>2, OthersStill DEF Moved
<1>4. ASSUME NEW j \in Milestones, NEW extra \in Extensions, Extend(j, extra) PROVE Moved(i)
  <2>1. SetMilestone(j, [ms[j] EXCEPT !.extension = @ + extra])
    BY <1>4 DEF Extend
  <2>2. i = j => Still(i)
    BY <1>1, <2>1, OthersStill DEF Still, Milestone
  <2> QED
    BY <1>1, <2>1, <2>2, OthersStill DEF Moved
<1> QED
  BY <1>2, <1>3, <1>4 DEF DeliveryNext, ExtendMilestoneDeadline, TimeExtensionsConsent


\* What a payment or a closing writes as the status.
LEMMA StatusWritten ==
    ASSUME NEW m \in Milestone, NEW status, NEW toward, NEW amt
    PROVE  /\ Settled(m, status, toward, amt).status = status
           /\ WithoutExtension(Settled(m, status, toward, amt)).status = status
  BY DEF Settled, WithoutExtension, Milestone

\* The approvals of one milestone.
LEMMA ReviewedMoves ==
    ASSUME Inductive, NEW j \in Milestones, NotPaused, ms[j].status \in InReview,
           NEW m, SetMilestone(j, m), m.status # "Refunded", NEW i \in Live
    PROVE  Moved(i)
<1>1. i \in Milestones
  BY LiveSlot
<1>2. CASE i = j
  BY <1>1, <1>2, OthersStill DEF Moved, PartiesMove
<1> QED
  BY <1>1, <1>2, OthersStill DEF Moved

LEMMA ReleaseMoves ==
    ASSUME Inductive, NEW j \in Live, NotPaused, ms[j].status \in InReview,
           ReleaseInFull(j), NEW i \in Live
    PROVE  Moved(i)
<1> DEFINE m == WithoutExtension(Settled(ms[j], "Released", Remaining(ms[j]), Remaining(ms[j])))
<1>1. SetMilestone(j, m)
  BY DEF ReleaseInFull
<1>2. j \in Milestones /\ m.status = "Released"
  BY LiveSlot, StatusWritten
<1> HIDE DEF m
<1> QED
  BY <1>1, <1>2, ReviewedMoves

LEMMA ApprovalMoves == ASSUME Inductive, ApprovalNext, NEW i \in Live PROVE Moved(i)
<1>1. i \in Milestones /\ ms[i] \in Milestone
  BY LiveSlot
<1>2. ASSUME NEW j \in Milestones, NEW amt \in PartialAmounts, ApprovePartial(j, amt)
      PROVE  Moved(i)
  <2>1. NotPaused /\ j \in Live /\ ms[j].status \in InReview
    BY <1>2 DEF ApprovePartial
  <2>2. ms[j] \in Milestone
    BY <2>1, LiveSlot
  <2>3. PICK m: SetMilestone(j, m) /\ m.status # "Refunded"
    <3>1. CASE amt = Remaining(ms[j])
      BY <1>2, <2>2, <3>1, StatusWritten DEF ApprovePartial
    <3>2. CASE amt # Remaining(ms[j])
      BY <1>2, <2>2, <3>2, StatusWritten DEF ApprovePartial
    <3> QED
      BY <3>1, <3>2
  <2> QED
    BY <2>1, <2>3, ReviewedMoves
<1>3. ASSUME NEW j \in Milestones, ApproveMilestone(j) PROVE Moved(i)
  BY <1>3, ReleaseMoves DEF ApproveMilestone, InReview
<1>4. ASSUME NEW batch \in SUBSET Milestones, ApproveMilestones(batch) PROVE Moved(i)
  <2>1. CASE i \in batch
    <3>1. ms'[i] = Settled(ms[i], "Released", Remaining(ms[i]), Remaining(ms[i]))
          /\ NotPaused /\ ms[i].status \in InReview
      BY <1>1, <1>4, <2>1 DEF ApproveMilestones
    <3>2. ms'[i].status = "Released"
      BY <1>1, <3>1, StatusWritten
    <3> QED
      BY <3>1, <3>2 DEF Moved, PartiesMove
  <2>2. CASE i \notin batch
    BY <1>1, <1>4, <2>2 DEF ApproveMilestones, Moved, Still
  <2> QED
    BY <2>1, <2>2
<1>5. ASSUME NEW j \in Milestones, NEW r \in StreamRatios,
             PaymentStreamingConsent(j, r[1], r[2])
      PROVE  Moved(i)
  <2>1. ~ep /\ j \in Live /\ ms[j].status \in InReview
    BY <1>5 DEF PaymentStreamingConsent
  <2>2. ms[j] \in Milestone
    BY <2>1, LiveSlot
  <2>3. PICK m: SetMilestone(j, m) /\ m.status # "Refunded"
    <3> DEFINE pay == SplitNearest(Remaining(ms[j]), r[1], r[2]).first
    <3>1. CASE ms[j].released + pay >= ms[j].amount
      BY <1>5, <2>2, <3>1, StatusWritten DEF PaymentStreamingConsent
    <3>2. CASE ~(ms[j].released + pay >= ms[j].amount)
      BY <1>5, <2>2, <3>2, StatusWritten DEF PaymentStreamingConsent
    <3> QED
      BY <3>1, <3>2
  <2>4. CASE i = j
    BY <1>1, <1>5, <2>1, <2>3, <2>4, OthersStill DEF Moved, StreamMove
  <2> QED
    BY <1>1, <2>3, <2>4, OthersStill DEF Moved
<1>6. ASSUME NEW j \in Milestones, TriggerAutoRelease(j) PROVE Moved(i)
  BY <1>6, ReleaseMoves DEF TriggerAutoRelease, AutoReleasable, InReview
<1> QED
  BY <1>2, <1>3, <1>4, <1>5, <1>6 DEF ApprovalNext

LEMMA DisputeMoves == ASSUME Inductive, DisputeNext, NEW i \in Live PROVE Moved(i)
<1>1. i \in Milestones
  BY LiveSlot
<1>2. ASSUME NEW j \in Milestones, RaiseDispute(j) PROVE Moved(i)
  <2> DEFINE m == [ms[j] EXCEPT
          !.status = "Disputed",
          !.dispute = [open |-> TRUE, at |-> now, previous |-> ms[j].status, evidence |-> 0]]
  <2>1. SetMilestone(j, m) /\ NotPaused /\ ms[j].status \in InReview /\ j \in Live
    BY <1>2 DEF RaiseDispute
  <2>2. ms[j] \in Milestone
    BY <2>1, LiveSlot
  <2>3. m.status # "Refunded"
    BY <2>2 DEF Milestone
  <2> HIDE DEF m
  <2> QED
    BY <2>1, <2>3, ReviewedMoves
<1>3. ASSUME NEW j \in Milestones, SubmitEvidence(j) PROVE Moved(i)
  <2> DEFINE m == [ms[j] EXCEPT !.dispute.evidence = @ + 1]
  <2>1. SetMilestone(j, m) /\ ms[j].status = "Disputed" /\ j \in Live
    BY <1>3 DEF SubmitEvidence
  <2>2. ms[j] \in Milestone
    BY <2>1, LiveSlot
  <2>3. m.paid = ms[j].paid
    BY <2>2 DEF Milestone
  <2> HIDE DEF m
  <2> QED
    BY <1>1, <2>1, <2>3, OthersStill DEF Moved, BackToReview
<1>4. ASSUME NEW j \in Milestones, EscalateDispute(j) PROVE Moved(i)
  <2> DEFINE previous == ms[j].dispute.previous
             m == WithoutDispute([ms[j] EXCEPT
                     !.status = previous,
                     !.deliveredAt = IF previous = "Delivered" THEN now ELSE @])
  <2>1. SetMilestone(j, m) /\ ms[j].status = "Disputed" /\ j \in Live
    BY <1>4 DEF EscalateDispute, Escalatable
  <2>2. ms[j] \in Milestone
    BY <2>1, LiveSlot
  <2>3. m.paid = ms[j].paid
    BY <2>2 DEF WithoutDispute, Milestone
  <2> HIDE DEF m
  <2> QED
    BY <1>1, <2>1, <2>3, OthersStill DEF Moved, BackToReview
<1>5. ASSUME NEW j \in Milestones, NEW b \in BOOLEAN, ResolveDispute(j, b) PROVE Moved(i)
  <2>1. NotPaused /\ ms[j].status = "Disputed" /\ ArbiterStep
    BY <1>5 DEF ResolveDispute, Arbitrable, ArbiterStep
  <2>2. PICK m: SetMilestone(j, m)
    BY <1>5 DEF ResolveDispute
  <2> QED
    BY <1>1, <2>1, <2>2, OthersStill DEF Moved, ArbiterMove
<1>6. ASSUME NEW j \in Milestones, NEW bps \in SplitBps, ApplyDisputeArbitrationSplit(j, bps)
      PROVE  Moved(i)
  <2>1. NotPaused /\ ms[j].status = "Disputed" /\ ArbiterStep
    BY <1>6 DEF ApplyDisputeArbitrationSplit, Arbitrable, ArbiterStep
  <2>2. PICK m: SetMilestone(j, m)
    BY <1>6 DEF ApplyDisputeArbitrationSplit, CloseBySplit
  <2> QED
    BY <1>1, <2>1, <2>2, OthersStill DEF Moved, ArbiterMove
<1> QED
  BY <1>2, <1>3, <1>4, <1>5, <1>6 DEF DisputeNext


\* What the admin closes was open, the rest is still.
LEMMA AdminOnOne ==
    ASSUME Inductive, AdminStep, NEW j \in Milestones, Overridable(j),
           NEW m, SetMilestone(j, m), NEW i \in Live
    PROVE  Moved(i)
<1>1. i \in Milestones
  BY LiveSlot
<1> QED
  BY <1>1, OthersStill DEF Moved, AdminMove, Overridable

LEMMA OverrideMoves == ASSUME Inductive, OverrideNext, NEW i \in Live PROVE Moved(i)
<1>1. AdminStep
  BY DEF AdminStep
<1>2. ASSUME NEW j \in Milestones, NEW to, NEW status, AdminOverride(j, to, status)
      PROVE  Moved(i)
  <2>1. Overridable(j) /\ \E m: SetMilestone(j, m)
    BY <1>2 DEF AdminOverride
  <2> QED
    BY <1>1, <2>1, AdminOnOne
<1>3. ASSUME NEW j \in Milestones, NEW r \in ElapsedRatios,
             AdminOverrideStreamingRelease(j, r[1], r[2])
      PROVE  Moved(i)
  <2>1. Overridable(j) /\ \E m: SetMilestone(j, m)
    BY <1>3 DEF AdminOverrideStreamingRelease, CloseBySplit
  <2> QED
    BY <1>1, <2>1, AdminOnOne
<1> QED
  BY <1>2, <1>3 DEF OverrideNext, AdminOverrideRelease, AdminOverrideRefund

LEMMA MultisigMoves == ASSUME Inductive, MultisigNext, NEW i \in Live PROVE Moved(i)
<1>1. AdminStep
  BY DEF AdminStep
<1>2. CASE MultisigLock
  BY <1>2, MilestonesUntouched DEF MultisigLock, Moved
<1>3. ASSUME NEW j \in Milestones, NEW to, NEW status, MultisigAdminOverride(j, to, status)
      PROVE  Moved(i)
  <2>1. Overridable(j) /\ \E m: SetMilestone(j, m)
    BY <1>3 DEF MultisigAdminOverride
  <2> QED
    BY <1>1, <2>1, AdminOnOne
<1> QED
  BY <1>2, <1>3 DEF MultisigNext, MultisigAdminOverrideRelease, MultisigAdminOverrideRefund

LEMMA CancelMoves == ASSUME Inductive, CancelNext, NEW i \in Live PROVE Moved(i)
<1>1. i \in Milestones
  BY LiveSlot
<1>2. ASSUME NEW r \in Roles, CancelEscrow(r) \/ RevokeCancelApproval(r) PROVE Moved(i)
  BY <1>2, MilestonesUntouched DEF CancelEscrow, RevokeCancelApproval, Moved
<1>3. ASSUME NEW to, NEW status, SettleAllRemaining(to, status), AdminStep PROVE Moved(i)
  <2>1. CASE i \in Due
    BY <1>3, <2>1 DEF Due, Open, Moved, AdminMove
  <2>2. CASE i \notin Due
    BY <1>1, <1>3, <2>2 DEF SettleAllRemaining, Moved, Still
  <2> QED
    BY <2>1, <2>2
<1> QED
  BY <1>2, <1>3 DEF CancelNext, AdminOverrideCancelRelease, AdminOverrideCancelRefund,
     AdminStep, Roles

LEMMA QuietMoves ==
    ASSUME PartyNext \/ TokenNext \/ PauseNext \/ YieldNext \/ Tick, NEW i
    PROVE  Moved(i)
<1>1. UNCHANGED ms
  BY DEF PartyNext, AcceptJob, AcceptArbiter, Accept, ReplaceArbiter, RotateFreelancer,
     TokenNext, Withdraw, SweepExcess, Donate, PauseNext, EmergencyPause,
     EmergencyUnpauseParties, EmergencyUnpause, EmergencyPauseAdminOverride,
     AdminPauseEscrow, AdminResumeEscrow, SetPauses, YieldNext, AdminAccrueYield, Tick
<1> QED
  BY <1>1, MilestonesUntouched DEF Moved

LEMMA NextMoves ==
    ASSUME Inductive, [Next]_vars
    PROVE  \A i \in Live: Moved(i)
<1> SUFFICES ASSUME NEW i \in Live PROVE Moved(i)
  OBVIOUS
<1>1. CASE Next
  BY <1>1, FundingMoves, RefundMoves, DeliveryMoves, ApprovalMoves, DisputeMoves,
     OverrideMoves, MultisigMoves, CancelMoves, QuietMoves DEF Next
<1>2. CASE UNCHANGED vars
  BY <1>2, MilestonesUntouched DEF vars, Moved
<1> QED
  BY <1>1, <1>2

-----------------------------------------------------------------------------
\* A closed milestone is never paid, reopened or shrunk again (TerminalIsFinal):
\* every entry point's status guard, and the Due and Open sets of the ones that
\* settle several milestones, leave closed ones out.
THEOREM ClosedForGood == Spec => TerminalIsFinal
<1>1. Inductive /\ [Next]_vars =>
         [\A i \in Live: IsTerminal(ms[i]) =>
             /\ ms'[i].status = ms[i].status /\ ms'[i].paid = ms[i].paid
             /\ ms'[i].amount = ms[i].amount]_vars
  BY NextMoves DEF Moved, Still, PartiesMove, StreamMove, BackToReview, ArbiterMove, AdminMove,
     IsTerminal, Terminal, InReview
<1> QED
  BY <1>1, InductiveInvariant, PTL DEF Spec, TerminalIsFinal

\* Only a judgement moves a disputed milestone's money (DisputedMoneyNeedsJudgement),
\* withdraw_unaccepted included: a disputed milestone had both acceptances.
THEOREM JudgedBeforePaid == Spec => DisputedMoneyNeedsJudgement
<1>1. Inductive /\ [Next]_vars =>
         [\A i \in Live: ms[i].status = "Disputed" /\ ms'[i].paid # ms[i].paid
             => ArbiterStep \/ AdminStep]_vars
  BY NextMoves DEF Moved, Still, PartiesMove, StreamMove, BackToReview, ArbiterMove, AdminMove,
     InReview
<1> QED
  BY <1>1, InductiveInvariant, PTL DEF Spec, DisputedMoneyNeedsJudgement

\* Work under review is refunded by the admin only (DeliveredWorkIsNotClawedBack).
THEOREM ReviewIsNotRefunded == Spec => DeliveredWorkIsNotClawedBack
<1>1. Inductive /\ [Next]_vars =>
         [\A i \in Live: ms[i].status \in InReview /\ ms'[i].status = "Refunded"
             => AdminStep]_vars
  BY NextMoves DEF Moved, Still, PartiesMove, StreamMove, BackToReview, ArbiterMove, AdminMove,
     InReview
<1> QED
  BY <1>1, InductiveInvariant, PTL DEF Spec, DeliveredWorkIsNotClawedBack

\* Under the emergency pause only the admin moves money (EmergencyPauseFreezes):
\* payment_streaming_consent, which skips ensure_not_paused, asks for it as well.
THEOREM PauseFreezes == Spec => EmergencyPauseFreezes
<1>1. Inductive /\ [Next]_vars =>
         [\A i \in Live: ep /\ ms'[i].paid # ms[i].paid => AdminStep]_vars
  BY NextMoves DEF Moved, Still, PartiesMove, StreamMove, BackToReview, ArbiterMove, AdminMove,
     NotPaused
<1> QED
  BY <1>1, InductiveInvariant, PTL DEF Spec, EmergencyPauseFreezes

\* Under the cancel lock only the admin, or a stream both parties sign, moves
\* money (CancelLockHolds).
THEOREM LockFreezes == HistorySpec => CancelLockHolds
<1>1. HistorySpec => Spec
  <2>1. HistoryInit => Init
    BY DEF HistoryInit
  <2>2. [HistoryNext]_historyVars => [Next]_vars
    BY DEF HistoryNext, historyVars
  <2> QED
    BY <2>1, <2>2, PTL DEF HistorySpec, Spec
<1>2. Inductive /\ [HistoryNext]_historyVars =>
         [\A i \in Live: cancelLock /\ ms'[i].paid # ms[i].paid =>
             AdminStep \/ \E r \in StreamRatios:
                             PaymentStreamingConsent(i, r[1], r[2])]_historyVars
  <2> SUFFICES ASSUME Inductive, [HistoryNext]_historyVars
               PROVE  \A i \in Live: cancelLock /\ ms'[i].paid # ms[i].paid =>
                         AdminStep \/ \E r \in StreamRatios:
                                         PaymentStreamingConsent(i, r[1], r[2])
    OBVIOUS
  <2>1. [Next]_vars
    BY DEF HistoryNext, historyVars
  <2> QED
    BY <2>1, NextMoves DEF Moved, Still, PartiesMove, StreamMove, BackToReview, ArbiterMove,
       AdminMove, NotPaused
<1> QED
  BY <1>1, <1>2, InductiveInvariant, PTL DEF HistorySpec, CancelLockHolds
=============================================================================
