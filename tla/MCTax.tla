--------------------------------- MODULE MCTax ---------------------------------
(***************************************************************************)
(* Finite instances of EscrowTax: withholding beside what may change a     *)
(* milestone between its withholding and its settlement.                   *)
(***************************************************************************)
EXTENDS EscrowTax

MCStreamRatios  == {<<1, 3>>}
MCElapsedRatios == {<<1, 2>>}

EscrowSlice ==
    \/ AcceptJob \/ AcceptArbiter
    \/ \E i \in Milestones:
          \/ FundMilestone(i) \/ MarkDelivered(i) \/ ApproveMilestone(i) \/ RaiseDispute(i)
    \/ \E i \in Milestones, amt \in PartialAmounts: ApprovePartial(i, amt)
    \/ \E i \in Milestones, amt \in Amounts: ReduceMilestone(i, amt)
    \/ \E a \in Address: Withdraw(a)

EscrowStep == EscrowSlice /\ UNCHANGED taxVars

TaxSpec == TaxInit /\ [][EscrowStep \/ TaxNext]_allVars
=============================================================================
