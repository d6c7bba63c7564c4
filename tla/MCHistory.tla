------------------------------- MODULE MCHistory -------------------------------
(***************************************************************************)
(* A finite instance of EscrowHistory: the slice of the escrow in which    *)
(* jobs are cancelled and overridden.                                      *)
(***************************************************************************)
EXTENDS MCEscrow, EscrowHistory

OneStream == {<<1, 2>>}

\* Cancellation and overrides over work in every status; only milestone 0 is paid
\* in parts.
AdminSlice ==
    \/ SetUp \/ CancelNext \/ OverrideNext \/ MultisigNext \/ Tick
    \/ \E i \in Milestones: MarkDelivered(i) \/ RaiseDispute(i)
    \/ \E amt \in PartialAmounts: ApprovePartial(0, amt)
    \/ \E r \in StreamRatios: PaymentStreamingConsent(0, r[1], r[2])
    \/ WithdrawUnaccepted
    \/ \E a \in Address: Withdraw(a)
    \/ SweepExcess

AdminSpec == HistoryInit /\ [][AdminSlice /\ RecordAssent]_historyVars
=============================================================================
