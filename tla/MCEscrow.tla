-------------------------------- MODULE MCEscrow --------------------------------
(***************************************************************************)
(* Finite instances of MilestoneEscrow.  Each slice starts from the        *)
(* constructor's state and takes whole actions of Next; it leaves out the  *)
(* actions that its question is not about, so that the others can be tried *)
(* on more milestones and over more time.                                  *)
(***************************************************************************)
EXTENDS MilestoneEscrow

MCStreamRatios  == {<<0, 1>>, <<1, 3>>, <<1, 1>>}
MCElapsedRatios == {<<0, 2>>, <<1, 2>>, <<2, 2>>}

\* The way every job starts.
SetUp ==
    \/ Fund
    \/ \E i \in Milestones: FundMilestone(i)
    \/ AcceptJob
    \/ AcceptArbiter

\* Money in and out before and around the work.
FundingSlice ==
    \/ FundingNext \/ PartyNext \/ RefundNext \/ TokenNext \/ YieldNext \/ Tick
    \/ \E i \in Milestones: MarkDelivered(i)

\* The undisputed life of a milestone.
WorkSlice ==
    \/ SetUp \/ DeliveryNext \/ ApprovalNext \/ Tick
    \/ \E i \in Milestones, amt \in Amounts: ReduceMilestone(i, amt)
    \/ \E a \in Address: Withdraw(a)

\* Disputes, and what may happen to a milestone between two of them.
DisputeSlice ==
    \/ SetUp \/ DisputeNext \/ Tick
    \/ \E i \in Milestones: MarkDelivered(i) \/ RequestRevision(i)
    \/ \E i \in Milestones, amt \in PartialAmounts: ApprovePartial(i, amt)
    \/ \E i \in Milestones, amt \in Amounts: ReduceMilestone(i, amt)
    \/ \E a \in Address: Withdraw(a)

\* A client or an arbiter that does nothing more, while pauses come and go.
SilenceSlice ==
    \/ SetUp \/ DeliveryNext \/ Tick
    \/ \E i \in Milestones: TriggerAutoRelease(i) \/ RaiseDispute(i) \/ EscalateDispute(i)
    \/ AdminPauseEscrow \/ AdminResumeEscrow

FundingSpec == Init /\ [][FundingSlice]_vars
WorkSpec    == Init /\ [][WorkSlice]_vars
DisputeSpec == Init /\ [][DisputeSlice]_vars
SilenceSpec ==
    Init /\ [][SilenceSlice]_vars /\ TimeFairness /\ KeeperFairness /\ EscalationFairness
=============================================================================
