---------------------------- MODULE EscrowOverrides ----------------------------
(***************************************************************************)
(* The ways out of the normal workflow: the two parties' agreement to      *)
(* cancel and the admin's settlement of a cancelled job, the pauses, and   *)
(* the admin's overrides of a single milestone.  Every admin call below    *)
(* needs the Resolver, Operator or FeeManager role, which the code's       *)
(* require_role checks against the caller.                                 *)
(***************************************************************************)
EXTENDS EscrowDisputes

CONSTANTS
    ElapsedRatios,  \* <<elapsed, total>> seconds of admin_override_streaming_release
    YieldAmounts,   \* accrued_amount values that are tried
    MaxYield        \* bound of the model on the accrued yield

ASSUME OverridesAssumption ==
    /\ ElapsedRatios \subseteq Int \X Int
    /\ YieldAmounts \subseteq Int /\ MaxYield \in Nat

-----------------------------------------------------------------------------
(***************************************************************************)
(* cancel_escrow: the second of two approvals within the TTL locks the     *)
(* escrow; an approval on its own only leaves a dated record.  Neither     *)
(* the admin's pause nor what is left to settle matters.                   *)
(***************************************************************************)
\* Mutant of LiveApprovals: they never expire.
StoredApprovals == cancelApproval.mask

LiveApprovals == IF now - cancelApproval.at < CancelTtl THEN cancelApproval.mask ELSE {}

CancelEscrow(role) ==
    LET mask == LiveApprovals \cup {role}
    IN  /\ ~ep /\ ~cancelLock
        /\ EscrowHasFunding /\ ledger.balance > 0
        /\ role \notin LiveApprovals
        /\ IF mask = {"client", "freelancer"}
             THEN cancelLock' = TRUE /\ cancelApproval' = NoApproval
             ELSE cancelApproval' = [mask |-> mask, at |-> now] /\ UNCHANGED cancelLock
        /\ UNCHANGED <<jobVars, partyVars, ms, moneyVars, pauseVars, multisigLocked, now>>

\* revoke_cancel_approval: also of an approval that has expired.
RevokeCancelApproval(role) ==
    /\ ~cancelLock /\ role \in cancelApproval.mask
    /\ LET mask == cancelApproval.mask \ {role}
       IN  cancelApproval' = IF mask = {} THEN NoApproval
                             ELSE [cancelApproval EXCEPT !.mask = mask]
    /\ UNCHANGED <<jobVars, partyVars, ms, moneyVars, pauseVars, cancelLock,
                   multisigLocked, now>>

(***************************************************************************)
(* settle_all_remaining: every funded open milestone goes to one side and  *)
(* the lock is lifted.  A dispute younger than the timeout holds all of it *)
(* up, and a settled milestone keeps its dispute record.                   *)
(***************************************************************************)
SettleAllRemaining(to, status) ==
    /\ cancelLock /\ EscrowHasFunding
    /\ \A i \in Open: MilestoneFunded(i) /\ ms[i].status = "Disputed" /\ ms[i].dispute.open
                         => DisputeTimedOut(ms[i])
    /\ Payable(TotalRemaining(Due))
    /\ ms' = [i \in Milestones |->
                IF i \in Due
                THEN WithoutExtension(Settled(ms[i], status,
                        IF status = "Released" THEN Remaining(ms[i]) ELSE 0,
                        Remaining(ms[i])))
                ELSE ms[i]]
    /\ cancelLock' = FALSE /\ yieldAccrued' = 0
    /\ PayOrCredit(to, TotalRemaining(Due))
    /\ UNCHANGED <<jobVars, partyVars, reputation, pauseVars, cancelApproval,
                   multisigLocked, now>>

AdminOverrideCancelRelease == SettleAllRemaining(freelancer, "Released")
AdminOverrideCancelRefund  == SettleAllRemaining(Client, "Refunded")

-----------------------------------------------------------------------------
SetPauses(p, e, byParties) ==
    /\ paused' = p /\ ep' = e /\ epParty' = byParties
    /\ UNCHANGED <<jobVars, partyVars, ms, moneyVars, lockVars, now>>

\* emergency_pause and emergency_unpause_parties: client and freelancer together.
EmergencyPause              == ~ep /\ SetPauses(paused, TRUE, TRUE)
EmergencyUnpauseParties     == ep /\ epParty /\ SetPauses(paused, FALSE, FALSE)

\* emergency_unpause, emergency_pause_admin_override, admin_pause_escrow and
\* admin_resume_escrow: the Operator.
EmergencyUnpause            == ep /\ SetPauses(paused, FALSE, FALSE)
EmergencyPauseAdminOverride == ~ep /\ SetPauses(paused, TRUE, FALSE)
AdminPauseEscrow            == ~paused /\ SetPauses(TRUE, ep, epParty)
AdminResumeEscrow           == paused /\ SetPauses(FALSE, ep, epParty)

-----------------------------------------------------------------------------
\* Mutant of Overridable: what was closed can be overridden again.
OverridableAgain(i) ==
    /\ EscrowHasFunding
    /\ i \in Live /\ MilestoneFunded(i) /\ Remaining(ms[i]) > 0

\* Mutant of Overridable: the milestone's own funding is not looked at.
OverridableUnfunded(i) ==
    /\ EscrowHasFunding
    /\ i \in Live
    /\ ~IsTerminal(ms[i]) /\ Remaining(ms[i]) > 0

\* What every override of one milestone requires.
Overridable(i) ==
    /\ EscrowHasFunding
    /\ i \in Live /\ MilestoneFunded(i)
    /\ ~IsTerminal(ms[i]) /\ Remaining(ms[i]) > 0

(***************************************************************************)
(* admin_override_release and admin_override_refund: on a disputed         *)
(* milestone, or on any while the escrow is cancel-locked.  The lock stays,*)
(* and the accrued yield is forgotten.                                     *)
(***************************************************************************)
AdminOverride(i, to, status) ==
    LET rest == Remaining(ms[i])
    IN  /\ NotAdminPaused /\ Overridable(i)
        /\ ms[i].status = "Disputed" \/ cancelLock
        /\ SetMilestone(i, Closed(Settled(ms[i], status,
                                     IF status = "Released" THEN rest ELSE 0, rest)))
        /\ yieldAccrued' = 0
        /\ PayOrCredit(to, rest)
        /\ UNCHANGED <<jobVars, partyVars, reputation, pauseVars, lockVars, now>>

AdminOverrideRelease(i) == AdminOverride(i, freelancer, "Released")
AdminOverrideRefund(i)  == AdminOverride(i, Client, "Refunded")

(***************************************************************************)
(* admin_override_streaming_release: a disputed milestone is divided by    *)
(* elapsed time, the client's leg is paid first, and no pause stops it.    *)
(***************************************************************************)
AdminOverrideStreamingRelease(i, elapsed, total) ==
    LET rest  == Remaining(ms[i])
        split == SplitNearest(rest, elapsed, total)
    IN  /\ Overridable(i) /\ ms[i].status = "Disputed"
        /\ CanSplitNearest(rest, elapsed, total)
        /\ rest <= Available(ledger)
        /\ \E l \in AfterPayIfAny(ledger, Client, split.second):
              ledger' \in AfterPayIfAny(l, freelancer, split.first)
        /\ CloseBySplit(i, split.second, split.first, rest)
        /\ UNCHANGED <<jobVars, partyVars, yieldAccrued, pauseVars, lockVars, now>>

(***************************************************************************)
(* multisig_lock arms one multisig_admin_override_release or _refund, on   *)
(* any open milestone; they leave its dispute record and its extension.    *)
(***************************************************************************)
MultisigLock ==
    /\ ~multisigLocked
    /\ multisigLocked' = TRUE
    /\ UNCHANGED <<jobVars, partyVars, ms, moneyVars, pauseVars, cancelApproval,
                   cancelLock, now>>

MultisigAdminOverride(i, to, status) ==
    LET rest == Remaining(ms[i])
    IN  /\ multisigLocked /\ Overridable(i)
        /\ SetMilestone(i, Settled(ms[i], status, IF status = "Released" THEN rest ELSE 0, rest))
        /\ multisigLocked' = FALSE
        /\ PayOrCredit(to, rest)
        /\ UNCHANGED <<jobVars, partyVars, yieldAccrued, reputation, pauseVars,
                       cancelApproval, cancelLock, now>>

MultisigAdminOverrideRelease(i) == MultisigAdminOverride(i, freelancer, "Released")
MultisigAdminOverrideRefund(i)  == MultisigAdminOverride(i, Client, "Refunded")

\* admin_accrue_yield: bookkeeping only, no token arrives with it.
AdminAccrueYield(amt) ==
    /\ amt > 0 /\ yieldAccrued + amt <= MaxYield
    /\ yieldAccrued' = yieldAccrued + amt
    /\ UNCHANGED <<jobVars, partyVars, ms, ledger, reputation, pauseVars, lockVars, now>>

-----------------------------------------------------------------------------
CancelNext ==
    \/ \E role \in {"client", "freelancer"}: CancelEscrow(role)
    \/ \E role \in {"client", "freelancer"}: RevokeCancelApproval(role)
    \/ AdminOverrideCancelRelease
    \/ AdminOverrideCancelRefund

PauseNext ==
    \/ EmergencyPause
    \/ EmergencyUnpauseParties
    \/ EmergencyUnpause
    \/ EmergencyPauseAdminOverride
    \/ AdminPauseEscrow
    \/ AdminResumeEscrow

OverrideNext ==
    \/ \E i \in Milestones: AdminOverrideRelease(i)
    \/ \E i \in Milestones: AdminOverrideRefund(i)
    \/ \E i \in Milestones, r \in ElapsedRatios: AdminOverrideStreamingRelease(i, r[1], r[2])

MultisigNext ==
    \/ MultisigLock
    \/ \E i \in Milestones: MultisigAdminOverrideRelease(i)
    \/ \E i \in Milestones: MultisigAdminOverrideRefund(i)

YieldNext == \E amt \in YieldAmounts: AdminAccrueYield(amt)
=============================================================================
