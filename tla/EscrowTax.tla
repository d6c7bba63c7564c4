------------------------------- MODULE EscrowTax -------------------------------
(***************************************************************************)
(* Tax withholding, beside the whole escrow.  The two parties record, for  *)
(* one open milestone, what it would pay gross and how much of that is     *)
(* tax; nothing moves until the admin settles the milestone by the record. *)
(* The record is not refreshed by anything else that happens to the        *)
(* milestone.                                                              *)
(***************************************************************************)
EXTENDS MilestoneEscrow

CONSTANTS
    TaxRates,       \* tax_rate_bps that are tried
    TaxRecipients   \* addresses set_tax_recipient is tried with

ASSUME TaxAssumption == TaxRates \subseteq Nat /\ TaxRecipients \subseteq Address

\* A recipient is a set of at most one address, empty when the key is absent.
VARIABLES
    taxRecipient,   \* DataKey::TaxRecipient
    capturedFor,    \* DataKey::TaxWithholdingRecipient(i)
    taxRecord,      \* DataKey::TaxWithholdingLock(i)
    stalePaid       \* history: a record that was not the milestone's remainder was settled

taxVars == <<taxRecipient, capturedFor, taxRecord, stalePaid>>
allVars == <<vars, taxVars>>

\* promised is a history field: the recipient at the time of the withholding.
NoRecord == [open |-> FALSE, gross |-> 0, tax |-> 0, promised |-> {}]

TaxInit ==
    /\ Init
    /\ taxRecipient = {} /\ stalePaid = FALSE
    /\ capturedFor = [i \in Milestones |-> {}]
    /\ taxRecord = [i \in Milestones |-> NoRecord]

-----------------------------------------------------------------------------
\* set_tax_recipient: the FeeManager; a recipient is replaced, never removed.
SetTaxRecipient(a) ==
    /\ taxRecipient' = {a}
    /\ UNCHANGED <<vars, capturedFor, taxRecord, stalePaid>>

\* Mutant of Captured: a milestone keeps the recipient it captured first.
CapturedFirst(i) == IF capturedFor[i] # {} THEN capturedFor[i] ELSE taxRecipient

\* The recipient stored beside a new record; none is stored while none is set.
Captured(i) == IF taxRecipient # {} THEN taxRecipient ELSE capturedFor[i]

\* compute_tax_withholding.
Withholdable(i, rate) ==
    /\ i \in Live /\ ms[i].status \in {"Pending", "Delivered", "PartiallyReleased"}
    /\ ledger.balance > 0 /\ Remaining(ms[i]) > 0
    /\ rate <= BpsScale /\ CanSplitNearest(Remaining(ms[i]), rate, BpsScale)

(***************************************************************************)
(* tax_withholding_deductions: any funding of the job will do, and no      *)
(* pause stops it.  A second withholding overwrites the first.             *)
(***************************************************************************)
TaxWithholdingDeductions(i, rate) ==
    LET gross == Remaining(ms[i])
        tax   == SplitNearest(gross, rate, BpsScale).first
    IN  /\ EscrowHasFunding /\ Withholdable(i, rate)
        /\ tax > 0 => taxRecipient # {}
        /\ taxRecord' = [taxRecord EXCEPT ![i] =
                [open |-> TRUE, gross |-> gross, tax |-> tax, promised |-> taxRecipient]]
        /\ capturedFor' = [capturedFor EXCEPT ![i] = Captured(i)]
        /\ UNCHANGED <<vars, taxRecipient, stalePaid>>

-----------------------------------------------------------------------------
\* Mutant of TaxSettlable: what was closed otherwise can still be settled.
TaxSettlableAgain(i) ==
    EscrowHasFunding /\ i \in Live /\ taxRecord[i].open /\ MilestoneFunded(i)

\* What the three settlements require; a disputed milestone will do.
TaxSettlable(i) ==
    /\ EscrowHasFunding /\ i \in Live /\ taxRecord[i].open
    /\ MilestoneFunded(i) /\ ~IsTerminal(ms[i])

\* tax_settlement_recipient: what was captured, else the recipient in force.
SettlementRecipient(i) == IF capturedFor[i] # {} THEN capturedFor[i] ELSE taxRecipient

\* Mutant of AfterTax: the tax stays in the contract.
TaxKept(l, i) == {l}

\* The ledgers that paying the tax of record r can leave; none without a recipient.
AfterTax(l, i) ==
    IF taxRecord[i].tax = 0 THEN {l}
    ELSE UNION {AfterPay(l, a, taxRecord[i].tax): a \in SettlementRecipient(i)}

\* All that the payments of this step took out of the contract or credited.
Outflow == Available(ledger) - Available(ledger')

\* The part common to the settlements, after their payments: the record is removed
\* and released_amount grows by toward.
SettleByRecord(i, status, toward) ==
    /\ SetMilestone(i, Settled(ms[i], status, toward, Outflow))
    /\ taxRecord' = [taxRecord EXCEPT ![i] = NoRecord]
    /\ stalePaid' = (stalePaid \/ taxRecord[i].gross # Remaining(ms[i]))
    /\ UNCHANGED <<jobVars, partyVars, yieldAccrued, reputation, pauseVars, lockVars, now,
                   taxRecipient, capturedFor>>

NetAmount(i) == taxRecord[i].gross - taxRecord[i].tax

AdminOverrideTaxRelease(i) ==
    /\ TaxSettlable(i) /\ NetAmount(i) > 0
    /\ \E l \in AfterPay(ledger, freelancer, NetAmount(i)): ledger' \in AfterTax(l, i)
    /\ SettleByRecord(i, "Released", Remaining(ms[i]))

\* Mutant of ClientNet: the refund is gross, and the tax is paid beside it.
ClientGross(i) == taxRecord[i].gross

\* What admin_override_tax_refund pays the client.
ClientNet(i) == NetAmount(i)

AdminOverrideTaxRefund(i) ==
    /\ TaxSettlable(i) /\ taxRecord[i].gross > 0
    /\ \E l \in AfterPayIfAny(ledger, Client, ClientNet(i)): ledger' \in AfterTax(l, i)
    /\ SettleByRecord(i, "Refunded", 0)

AdminOverrideTaxSplitRefund(i, bps) ==
    LET rec  == taxRecord[i]
        legs == SplitWithheld(rec.gross, rec.tax, bps)
    IN  /\ TaxSettlable(i) /\ CanSplitWithheld(rec.gross, rec.tax, bps)
        /\ \E l \in AfterPayIfAny(ledger, Client, legs.client):
              \E k \in AfterPayIfAny(l, freelancer, legs.freelancer): ledger' \in AfterTax(k, i)
        /\ SettleByRecord(i, IF legs.freelancer = 0 THEN "Refunded" ELSE "Released",
                          legs.client + legs.freelancer)

TaxSettlement ==
    \E i \in Milestones:
        \/ AdminOverrideTaxRelease(i)
        \/ AdminOverrideTaxRefund(i)
        \/ \E bps \in SplitBps: AdminOverrideTaxSplitRefund(i, bps)

TaxNext ==
    \/ \E a \in TaxRecipients: SetTaxRecipient(a)
    \/ \E i \in Milestones, rate \in TaxRates: TaxWithholdingDeductions(i, rate)
    \/ TaxSettlement

\* The escrow with withholding: any call of either.
TaxedSpec == TaxInit /\ [][(Next /\ UNCHANGED taxVars) \/ TaxNext]_allVars

-----------------------------------------------------------------------------
\* Tax that was withheld has somewhere to go, and goes to whoever was the recipient
\* when the parties agreed to it: neither a later set_tax_recipient nor an earlier
\* withholding on the same milestone redirects it.
TaxGoesWherePromised ==
    \A i \in Milestones: taxRecord[i].open /\ taxRecord[i].tax > 0 =>
        /\ taxRecord[i].promised # {}
        /\ SettlementRecipient(i) = taxRecord[i].promised

\* No settlement, by a record or otherwise, strands part of a milestone in the
\* contract, the withheld tax included; a record may be too large for what is left
\* of its milestone, never too small.
SettledInFull == \A i \in Live: IsTerminal(ms[i]) => ms[i].paid >= ms[i].amount

\* The legs of a settlement and the tax are one division of the milestone's
\* remainder: as long as no record is settled after its milestone moved on,
\* withholding keeps every milestone conserved and the contract solvent.
OnlyStaleRecordsOverpay == ~stalePaid => Conservation /\ Solvent
=============================================================================
