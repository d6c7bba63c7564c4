---------------------------- MODULE MilestoneEscrow ----------------------------
(***************************************************************************)
(* The whole milestone escrow: its next-state relation, and what its       *)
(* parties rely on whoever calls what, in whatever order.                  *)
(***************************************************************************)
EXTENDS EscrowFunding, EscrowOverrides

Next ==
    \/ FundingNext  \/ PartyNext    \/ RefundNext
    \/ DeliveryNext \/ ApprovalNext \/ TokenNext
    \/ DisputeNext
    \/ CancelNext   \/ PauseNext    \/ OverrideNext
    \/ MultisigNext \/ YieldNext
    \/ Tick

Spec == Init /\ [][Next]_vars

-----------------------------------------------------------------------------
(***************************************************************************)
(* Fairness.  Ledgers keep closing.  trigger_auto_release needs no         *)
(* signature and pays a keeper's client, so someone calls it; either party *)
(* of a dispute wants it over and may escalate it.  Nobody else is assumed *)
(* to do anything.                                                         *)
(***************************************************************************)
TimeFairness       == WF_vars(Tick)
KeeperFairness     == \A i \in Milestones: WF_vars(TriggerAutoRelease(i))
EscalationFairness == \A i \in Milestones: WF_vars(EscalateDispute(i))

-----------------------------------------------------------------------------
\* Type invariant.  The i128 totals are signed in the code; that they never are
\* negative is a matter of Solvent and JobTotal.
TypeOK ==
    /\ fundingMode \in FundingMode
    /\ funded \in BOOLEAN /\ fundedAt \in Nat
    /\ acceptance \subseteq {"freelancer", "arbiter"}
    /\ freelancer \in Address /\ arbiter \in Address
    /\ totalAmount \in Int /\ count \in 1..MaxMilestones
    /\ ms \in [Milestones -> Milestone]
    /\ ledger \in Ledger
    /\ yieldAccrued \in Nat /\ reputation \in [Address -> Nat]
    /\ paused \in BOOLEAN /\ ep \in BOOLEAN /\ epParty \in BOOLEAN
    /\ cancelApproval \in CancelApproval
    /\ cancelLock \in BOOLEAN /\ multisigLocked \in BOOLEAN
    /\ now \in Nat

-----------------------------------------------------------------------------
(***************************************************************************)
(* Milestones.                                                             *)
(***************************************************************************)
\* What was released is part of what was paid; an open milestone never paid
\* anyone but the freelancer, and a closed one paid exactly its amount.
PotConserved(m) ==
    /\ m.released <= m.paid /\ m.paid <= m.amount
    /\ ~IsTerminal(m) => m.paid = m.released
    /\ IsTerminal(m)  => m.paid = m.amount

\* Conservation: no sequence of partial approvals, streams, disputes, reductions
\* and overrides pays out more than a milestone's amount, or closes it with
\* some of its amount still inside the contract.
Conservation == \A i \in Live: PotConserved(ms[i])

\* The part of it that holds whatever a settlement pays: nothing is stranded.
PotCovered(m) ==
    /\ m.released <= m.paid
    /\ ~IsTerminal(m) => m.paid = m.released /\ m.paid <= m.amount
    /\ IsTerminal(m)  => m.amount <= m.paid

\* The other part, in the words of SPEC.md: a milestone can never release more than
\* its funded amount.  True of the escrow by itself; the tax settlements of EscrowTax
\* pay what the record says, whatever was released meanwhile.
PaidWithinAmount == \A i \in Live: ms[i].paid <= ms[i].amount

\* A milestone the client may still shrink or send back for revision has
\* released nothing; the reduction compares the new amount with the old one
\* only, and relies on this.  A dispute remembers the status it interrupted, so
\* that escalation cannot bring back "untouched" for a milestone that was paid.
UntouchedBeforePartial(m) ==
    /\ m.status \in {"Pending", "Delivered"} => m.released = 0
    /\ m.status = "Disputed" /\ m.dispute.previous = "Delivered" => m.released = 0

NothingReleasedBeforeReview == \A i \in Live: UntouchedBeforePartial(ms[i])

\* A disputed milestone has its record, which sends it back to a status in which
\* it was under review; an open milestone that is not disputed has none, so no
\* old dispute can be escalated twice.
DisputeRecorded(m) ==
    ~IsTerminal(m) =>
        /\ m.status = "Disputed" <=> m.dispute.open
        /\ m.dispute.open => m.dispute.previous \in InReview

DisputesConsistent == \A i \in Live: DisputeRecorded(ms[i])

\* An extension granted for one review never reaches the next one.
ExtensionsBelongToReview == \A i \in Live: ms[i].status = "Pending" => ms[i].extension = 0

\* Work is under review or disputed only when its milestone is funded and both
\* the freelancer and the arbiter have accepted; what was settled was funded.
ReviewNeedsConsent ==
    \A i \in Live:
        /\ ms[i].status \in {"Delivered", "PartiallyReleased", "Disputed"}
              => acceptance = {"freelancer", "arbiter"}
        /\ ms[i].status # "Pending" => MilestoneFunded(i)

\* The four together, with what ties them to the job's size: milestones in use
\* have an amount, the others are blank.
Good(m) ==
    m \in Milestone /\ PotCovered(m) /\ UntouchedBeforePartial(m) /\ DisputeRecorded(m)

SlotOK(i) ==
    /\ i \in Live =>
          /\ Good(ms[i]) /\ ms[i].amount > 0
          /\ ms[i].status = "Pending" => ms[i].extension = 0
          /\ ms[i].status \in InReview \cup {"Disputed"} => Accepted
          /\ ms[i].status # "Pending" => MilestoneFunded(i)
    /\ i \notin Live => ms[i] = NewMilestone(0, FALSE)

\* The inductive invariant behind the theorems: no single part of it is
\* preserved on its own.
Inductive == TypeOK /\ \A i \in Milestones: SlotOK(i)

-----------------------------------------------------------------------------
(***************************************************************************)
(* Money of the whole contract.                                            *)
(***************************************************************************)
FundedOpen == {i \in Open: MilestoneFunded(i)}

OwedSum == SumFunction(ledger.owed)

\* The contract holds, at any time, all that is left in its funded milestones
\* and all that it owes: whichever of them is claimed first, the rest is there.
\* total_owed is what is owed, address by address.
Solvent ==
    /\ ledger.totalOwed = OwedSum
    /\ ledger.balance >= TotalRemaining(FundedOpen) + ledger.totalOwed

\* The job's stored total is the sum of its milestones whatever was added or
\* reduced: fund takes exactly this much.
JobTotal == totalAmount = SumFunction([i \in Live |-> ms[i].amount])

\* A job funded milestone by milestone is funded when all of them are, and one
\* funded upfront has no milestone that counts as funded on its own before.
FundingConsistent ==
    /\ fundingMode = "PerMilestone" => (funded <=> \A i \in Live: ms[i].funded)
    /\ fundingMode = "Upfront" /\ ~funded => \A i \in Live: ~ms[i].funded

\* The client's reputation counts milestones that ended Released, each at most
\* once, and every point of it was given to some freelancer as well, whoever
\* rotated in or out meanwhile.
ReputationEarned ==
    /\ reputation[Client] <= Cardinality({i \in Live: ms[i].status = "Released"})
    /\ reputation[Client]
         = SumFunctionOnSet(reputation, Address \ {Client})

-----------------------------------------------------------------------------
(***************************************************************************)
(* What a step may never do.                                               *)
(***************************************************************************)
ArbiterStep ==
    \E i \in Milestones:
        \/ \E b \in BOOLEAN: ResolveDispute(i, b)
        \/ \E bps \in SplitBps: ApplyDisputeArbitrationSplit(i, bps)

AdminStep ==
    \/ AdminOverrideCancelRelease \/ AdminOverrideCancelRefund
    \/ OverrideNext \/ MultisigNext

\* A closed milestone is never paid, reopened or shrunk again.
TerminalIsFinal ==
    [][\A i \in Live: IsTerminal(ms[i]) =>
          /\ ms'[i].status = ms[i].status /\ ms'[i].paid = ms[i].paid
          /\ ms'[i].amount = ms[i].amount]_vars

\* While a milestone is disputed, no party gets at its money: only the arbiter's
\* decision or the admin's does.
DisputedMoneyNeedsJudgement ==
    [][\A i \in Live: ms[i].status = "Disputed" /\ ms'[i].paid # ms[i].paid
          => ArbiterStep \/ AdminStep]_vars

\* Work that was delivered is not clawed back by the client: from review a
\* milestone becomes Refunded only by the admin.
DeliveredWorkIsNotClawedBack ==
    [][\A i \in Live: ms[i].status \in InReview /\ ms'[i].status = "Refunded"
          => AdminStep]_vars

\* While the emergency pause is on, a milestone's money moves only by the admin.
EmergencyPauseFreezes ==
    [][\A i \in Live: ep /\ ms'[i].paid # ms[i].paid => AdminStep]_vars

-----------------------------------------------------------------------------
(***************************************************************************)
(* The abstract specifications this one implements.                        *)
(***************************************************************************)
PotOf(i) ==
    [amount |-> ms[i].amount, paid |-> ms[i].paid,
     stage  |-> IF i \notin Live THEN "none"
                ELSE IF IsTerminal(ms[i]) THEN "closed"
                ELSE IF MilestoneFunded(i) THEN "funded" ELSE "unfunded"]

MPot == INSTANCE MilestonePot WITH Pots <- Milestones, pot <- [i \in Milestones |-> PotOf(i)]

\* Each milestone is filled once, drained once and never refilled, through every
\* interleaving of the entry points.
ImplementsMilestonePot == MPot!Spec

HeldFor(i) == IF i \in FundedOpen THEN Remaining(ms[i]) ELSE 0

Surplus == ledger.balance - TotalRemaining(FundedOpen) - OwedSum

Vault == INSTANCE Custody WITH Pots <- Milestones, Account <- Address,
            held <- [i \in Milestones |-> HeldFor(i)], owed <- ledger.owed, surplus <- Surplus

\* A call pays for the milestones it settles out of what is held for them, to
\* the token: never out of another milestone, a debt or a donation.
ImplementsCustody == Vault!Spec

-----------------------------------------------------------------------------
(***************************************************************************)
(* What must eventually happen.                                            *)
(***************************************************************************)
\* The latest moment at which milestone m's review window can close.
WindowEndsInTime(m) == m.deliveredAt + AutoRelease + MaxExtension <= MaxTime

\* If the escrow is not left paused or locked for ever, a delivered milestone
\* whose window ends within the model's time does not stay delivered: a silent
\* client cannot withhold the payment.
DeliveredIsDecided ==
    <>[]NotPaused =>
        \A i \in Milestones:
            (ms[i].status = "Delivered" /\ WindowEndsInTime(ms[i]))
                ~> (ms[i].status # "Delivered")

\* A dispute whose timeout is over within the model's time.
TimesOutInTime(m) == m.status = "Disputed" /\ m.dispute.at + DisputeTimeout <= MaxTime

\* If the escrow is not left paused or locked for ever, no dispute of a wholly
\* funded job goes on for ever: a silent arbiter cannot freeze its milestones.
FundedDisputesEnd ==
    <>[]NotPaused =>
        \A i \in Milestones:
            (funded /\ TimesOutInTime(ms[i])) ~> (ms[i].status # "Disputed")

\* The same without the condition, as the documents say it; escalate_dispute wants
\* the whole job funded, raise_dispute does not.
DisputesEnd ==
    <>[]NotPaused =>
        \A i \in Milestones: TimesOutInTime(ms[i]) ~> (ms[i].status # "Disputed")
=============================================================================
