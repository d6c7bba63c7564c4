# A verification of the milestone escrow

TLA+ modules, TLC runs and TLAPS proofs for the Soroban contract
`contracts/milestone-escrow` (`src/lib.rs`, `src/math.rs`). Line numbers
below are of `contracts/milestone-escrow/src/lib.rs` unless a file is named.

## 1. The system

A client deposits tokens for a job of up to 50 milestones. A freelancer
delivers, the client approves, an arbiter decides disputes, and an admin can
step in. One contract instance holds one job. Every call is a transaction: it
either succeeds as a whole or leaves no trace, and calls do not overlap. What is
hard is therefore not concurrency inside a call but the order of calls by five
kinds of actors (client, freelancer, arbiter, admin, anyone), the clock, and
token transfers that may fail and turn into a debt of the contract.

| component | state | operations | interacts with | what makes it correct |
|---|---|---|---|---|
| Funding and job size | `JobMeta` (funded, total, count), `FundedAt`, funding mode, `Milestone.funded`, due dates | `fund`, `fund_milestone`, `add_milestone`, `reduce_milestone`, `set_milestone_due_dates` | token contract (deposit), milestones | the stored total is the sum of the milestones; the job is funded exactly when all of it is |
| Parties | `freelancer`, `arbiter`, `Acceptance` | `accept_job`, `accept_arbiter`, `replace_arbiter`, `rotate_freelancer` | gates delivery and disputes | nothing is delivered without consent |
| Unilateral refunds | - | `withdraw_unaccepted`, `reclaim_overdue` | clock, funding, milestones | delivered work is not clawed back |
| Delivery and review | `status`, `delivered_at`, `RevCnt`, `TimeExt` | `mark_delivered`, `request_revision`, `extend_milestone_deadline`, `time_extensions_consent` | clock | an extension belongs to one review, revisions are bounded |
| Approval and payout | `released_amount`, `Reputation` | `approve_partial`, `approve_milestone`, `approve_milestones`, `payment_streaming_consent`, `claim_auto_release`, `trigger_auto_release` | token ledger | a milestone pays exactly its amount; a silent client cannot withhold it |
| Token ledger | balance, `Owed(addr)`, `TotalOwed` | `pay_or_credit` inside every payment, `withdraw`, `sweep_excess` | token contract, which may refuse a transfer | the contract holds what it must; no flow spends another's money |
| Disputes | `DisputeInfo(i)` | `raise_dispute`, `submit_evidence`, `escalate_dispute`, `resolve_dispute`, `apply_dispute_arbitration_split` | clock, ledger, review status | disputed money moves only by a decision; a silent arbiter cannot freeze it |
| Cancellation | `CancelApproval`, `CancelLock` | `cancel_escrow`, `revoke_cancel_approval`, `admin_override_cancel_release/refund` | all milestones at once | settlement takes only what is funded and open |
| Pauses | `Paused`, `Ep`, `EpParty` | `emergency_pause`, `emergency_unpause(_parties)`, `emergency_pause_admin_override`, `admin_pause_escrow`, `admin_resume_escrow` | guards of most endpoints, each looking at its own subset | a pause freezes what it says it freezes |
| Overrides | `MultisigLocked` | `admin_override_release/refund/streaming_release`, `multisig_lock`, `multisig_admin_override_release/refund` | disputes, cancel lock | nothing closed is settled again |
| Calculators | none | `emergency_pause_split_refund`, `tax_withholding_split_refund`, `compute_ratio_allocation`, `emergency_pause_allocation`, `calculate_platform_fee_split` and the split behind every payout | - | exact, no negative share, same answer on every path |
| Tax withholding | `TaxRecipient`, `TaxWithholdingLock(i)`, `TaxWithholdingRecipient(i)` | `set_tax_recipient`, `tax_withholding_deductions`, `admin_override_tax_release/refund/split_refund` | milestones, ledger | tax goes where it was promised; a settlement strands nothing |
| Admin, roles and succession | `Admin` (a persistent and an instance copy), `AdminRole(r)`, `AdminProposalCounter`, `AdminProposal(id)`, `PendingAdminTransfer`, `PendingMultiSigConfig`, the signers | `set_admin_role`, `transfer_admin`, `multisig_approval_init`, `multisig_approve`, `propose_`/`execute_`/`cancel_` of admin transfers and of signer changes | guards of every admin endpoint; the signers are cold configuration | nobody becomes admin without a quorum of the signers of that moment; no proposal counts twice |
| Cold configuration | token whitelist, multisig, yield shares, fee ratios, yield rate | `add_`/`remove_whitelisted_token`, `set_escrow_interest_yield`, `set_interest_yield_consent`, `lock_`/`unlock_escrow_interest_yield`, `admin_set_yield_rate`, `set_`/`lock_platform_fee_allocation`, `pf_alloc_admin_override` | funding ends what may be set alone | an agreed split is not replaced by one party |
| Upgrade and migration | `SchemaVersion`, `Version`, where each entry lives, the shape of each stored milestone | `upgrade`, `migrate_cold_config`, `migrate`, `ensure_migrated` in other endpoints | reads fall back to the older places | no configuration is lost, revived or overwritten; when the endpoints open, everything stored can be read |
| Factory | the code to deploy, its admin | see section 8 | | (not modelled) |

The hard behaviours, each a row of `PROJECT.json` "hazards" at its line: long
legal sequences that change `amount`, `released_amount` and `status` from a dozen
endpoints; status restored from a dispute record; transfers that fail; obligations
forgotten by a sweep; jobs that are only partly funded; timeouts that race a late
answer; pauses and locks that overlap and that endpoints check differently;
silent clients and arbiters; records that survive what they belong to; agreements
that expire, are revoked or used up and given again; signers, approvals and
proposals that overtake one another; configuration in two places while storage
migrates; rounding.

## 2. Modules

```
EscrowMath ── EscrowState ─┬─ EscrowFunding ──────────────────────┐
                           └─ EscrowWorkflow ─ EscrowDisputes ─ EscrowOverrides
                                                                  │
     MilestonePot, Custody (abstract) ──INSTANCE── MilestoneEscrow┘
                                                   ├── EscrowHistory ─┐
                                                   ├── MCEscrow ──────┴─ MCHistory
                                                   └── EscrowTax ─ MCTax
EscrowMath ─ EscrowSplits ─┐
Allocation ────────────────┴─ MCCalculators

PlatformState ─ PlatformAdmins ─ PlatformConfig ─ PlatformUpgrade ─┐
                    Succession (abstract) ──INSTANCE── Platform ───┘
                                                       └─ MCPlatform ─ PlatformClaims

proofs:  EscrowMathProofs ─┬─ CalculatorsProofs
                           └─ MilestoneEscrowProofs ─ EscrowHistoryProofs ─ EscrowPotProofs
                                                     EscrowTaxProofs ─ EscrowMoneyProofs ─┘
         PlatformProofs
```

The escrow (what happens to the money of one job) and the platform (who
administers the contract, how it is configured, which code it runs) are two
families. The code couples them through guards only: an admin endpoint asks who
the admin is, a state-changing endpoint asks whether storage was migrated. The
escrow modules take a migrated contract and one admin, which stands for whoever
the platform's modules let act; `PlatformState` keeps of the job what its own
endpoints look at (count, funded, paused, the shape of the stored milestones).

The escrow:

* `EscrowMath` - the divisions: half-up (`math::split_ratio_nearest`), floor
  (`split_bps`), the arbiter's fee, the emergency split on quotient and
  remainder, the tax-withheld split. `IntMax` is `i128::MAX`; a `Can...` operator
  says when the checked arithmetic of the code succeeds.
* `EscrowState` - storage as variables, `Init` (the constructor), the guards
  (`ensure_not_paused`, `assert_not_paused`, `require_accepted`,
  `require_escrow_has_funding`, `milestone_is_funded`), and `AfterPay`, the set of
  ledgers `pay_or_credit` can leave behind. `ms[i]` gathers `Milestone(i)` and the
  keys stored under its index. `ms[i].paid` is the one history field: all that
  left the contract or was credited on the milestone's account.
* `EscrowFunding`, `EscrowWorkflow`, `EscrowDisputes`, `EscrowOverrides` - one
  action per entry point, with its guards in the order of the code, both outcomes
  of every transfer, and everything it stores.
* `MilestonePot`, `Custody` - the two abstract specifications. A milestone is a
  pot that is filled once, drained once, never refilled, shrinks only while
  untouched. Custody says that every token is held for one milestone, owed to one
  address or surplus, and that a settlement spends what is held for the milestones
  it settles and nothing else.
* `MilestoneEscrow` - `Next`, the fairness conditions, every property, the
  inductive invariant and the two refinement mappings (`PotOf`; `HeldFor` and
  `Surplus`).
* `EscrowHistory` - `MilestoneEscrow` with one history variable, `assented`: when
  each party last agreed to cancel. The code's own record holds one timestamp and
  two bits, is overwritten by a late second approval and is deleted by a lock;
  the history says what the parties said, so that the two can be compared.
* `EscrowTax` - tax withholding over the whole escrow: the tax recipient, the
  recipient captured for a milestone and the record of what it would pay are
  further variables; the escrow's own actions leave them alone, as in the code,
  which is how a record becomes stale. `promised` (in a record) and `stalePaid`
  are history. What a settlement adds to `paid` is what its payments took out of
  the ledger. `MCTax` has a slice for TLC and one statement the code does not keep.
* `MCEscrow`, `MCHistory` - slices of `Next`.
* `EscrowSplits`, `Allocation` - the calculators; the largest-remainder loop is
  modelled turn by turn. `MCCalculators` runs both side by side.

The platform:

* `PlatformState` - storage, the reads that fall back to older places
  (`ColdGet`, `LoadMultisigConfig`, `HolderOf`), and `Init`: a fresh deployment of
  this code, or one written by either of the two older layouts with what their
  setters may have stored. An entry that may be absent is a set with at most one
  element. `agreed` is the one history variable: the yield split the parties can
  count on.
* `PlatformAdmins` - roles, succession, signers. An approval is a bit that indexes
  the signer vec of the moment, as in the code, so replaced signers make it name
  someone else.
* `PlatformConfig`, `PlatformUpgrade` - the FeeManager's configuration; the new
  code and its migrations, and what the job does meanwhile.
* `Succession` - abstract: a chief, a council, motions and who said aye, person by
  person. `Platform` maps bits of the signer vec to persons and pending entries to
  motions, and states the properties.
* `PlatformClaims` - a statement of a comment that the code does not keep.

What is left out of an action on purpose: authorisation (an action is whatever a
caller with the right signature can do; the caller is a parameter only where the
effect depends on it), events, storage rent, the execution locks that are set and
removed inside one call, spec and delivery hashes, the `DisputeFlag` and
`MilestoneReleased` keys of temporary storage, which nothing reads to decide.
Operators marked "Mutant of ..." are plausible bugs of the operator below them;
no action uses them.

## 3. Properties

Safety: `TypeOK`; `Conservation` (no mix of partial, streamed, disputed, reduced
and overridden payments pays more than a milestone's amount or closes it short);
`NothingReleasedBeforeReview` (what `reduce_milestone` silently relies on);
`DisputesConsistent`; `ExtensionsBelongToReview`; `ReviewNeedsConsent`; `Solvent`;
`JobTotal`; `FundingConsistent`; `ReputationEarned`.

Steps: `TerminalIsFinal`, `DisputedMoneyNeedsJudgement`,
`DeliveredWorkIsNotClawedBack`, `EmergencyPauseFreezes`, `CancelLockHolds` (a
locked job's money moves by the admin, or by the one endpoint that does not ask
for the lock, section 6), `StaleIntentNeverLocks` (a job is locked only by two
agreements given within one time to live, whatever was agreed, revoked, left to
expire, locked and settled before).

Tax: `TaxGoesWherePromised`, `SettledInFull` (a record may be too large for what
is left, never too small), `OnlyStaleRecordsOverpay`.

Refinement: `ImplementsMilestonePot`, `ImplementsCustody`, `ImplementsSuccession`.

Liveness: `DeliveredIsDecided`, `FundedDisputesEnd` (and `DisputesEnd`, which does
not hold in a partly funded job, section 6).

Calculators: `EmergencySplitAgrees`, `WithheldSharesArePayable`,
`NetSharesArePayable`, `ReturnsHamilton`, `WithinQuota`.

Platform: `PendingIsReferenced` (open proposals and pending entries match one to
one, so one approval never serves two purposes), `SpentProposalsStaySpent`,
`RotationMovesUnassignedRoles` (a new admin takes exactly the roles nobody was
assigned), `ReadyMeansMigrated`, `UpgradeKeepsConfiguration` (new code and its
migrations, in any order and number, change no answer of a configuration read),
`AgreedSharesHold` (a locked or funded yield split is the agreed one).

Stated by the repository and not kept by the code: `DisputesEnd`,
`PaidWithinAmount`, `InstallsWhatWasApproved`, section 6.

## 4. Runs and bounds

The full `Next` has over forty kinds of step, so it is checked as a whole on one
milestone, and in slices on two. A slice starts from the constructor's state and
takes whole actions of `Next`; a run asks of a slice only what the slice can
break. All slices keep funding, acceptance and time.

| run | instance | distinct states | shows |
|---|---|---|---|
| `work` | 2 milestones, funded one by one, time to 2 | 126 k | review, consent, funding flags and reputation under delivery, revision, extension and the five ways of approval |
| `funding` | both funding modes, add and reduce, bouncing transfers, donations, time to 3 | 260 k | `Solvent`, `JobTotal`, `ImplementsCustody` |
| `dispute` | upfront funding, fee 10 %, arbiter's transfer may fail, time to 3 | 107 k | `Conservation`, disputes raised again after escalation, both refinements |
| `admin` | 2 milestones, partly funded jobs, approvals that live 2 ticks, time to 3, partial payments on milestone 0 only | 170 k | `Solvent`, `TerminalIsFinal`, `StaleIntentNeverLocks`, `CancelLockHolds` under cancellation and all overrides |
| `whole` | complete `Next`, 1 milestone, time to 2 | 673 k | the inductive invariant, pauses, acceptance |
| `silence` | both funding modes, 2 milestones, time to 4 | 40 k | `DeliveredIsDecided`, `FundedDisputesEnd` |
| `calculators` | amounts at 0, 1, and around multiples of 10 000; 4 parties, five weights from 0 to 7, totals to 10 | 14 k | the calculators agree and are payable; the loop is Hamilton's method |
| `tax` | 2 milestones funded one by one, rates 0 and 25 %, two recipients, one of which may bounce, no clock | 289 k | the tax properties and `TerminalIsFinal` beside partial approvals, reductions, disputes and withdrawals |
| `platform` | 3 addresses, 3 signer sets of which one is invalid, 3 proposals, 1 upgrade, deployments of all three layouts | 60 k | the platform properties and `ImplementsSuccession` |
| `partial_funding`, `stale_tax`, `legacy_transfer` | | | expected violations, section 6 |

The bounds, and why they are enough. Two milestones: every operation touches one
milestone, or treats all those of a kind alike, so two show every interplay
(funded beside unfunded, open beside closed, disputed beside delivered). Amounts
are small but divide unevenly by the ratios used, so rounding leaves both legs
non-zero and different. Timeouts of one or two ticks against a horizon of two to
four let every timeout pass, be missed by one tick, and (for disputes) pass twice.
`MaxRevisions` 1 reaches the limit. `MaxTime` bounds the clock, `MaxExtension` an
accumulated extension, `MaxBalance` donations, `MaxYield` the accrual; the code
has no such bounds. `IntMax` is small enough in `calculators` for checked products
to fail.

In `platform` a behaviour explores one topic, the succession or the
configuration, each with its migrations: the two read each other's state nowhere
but in the migrations (the signers are part of the cold configuration, so the
succession starts from every place they may be stored in). Of the role setters
only one role's is run, the four being alike. Three signer sets change a member,
a place in the vec and the threshold; three proposals let two be open at once and
a third come after one is spent. `MaxProposals` and `MaxVersion` bound counters
that the code does not bound. A deployment of the oldest layout may carry a
transfer proposed before proposals had records, under an id from `LegacyIds`;
`platform` takes one that the counter never reaches, `legacy_transfer` one that it
does. Deployments of the second layout start without proposals.

Deadlock is not checked: the clock stops at `MaxTime` and a settled job allows
nothing more, so the bounded model ends by design; so does an allocation.

Every property of a passing run has a mutant in `PROJECT.json`: replacing one
mapped definition by a plausible bug makes TLC violate the property under the
run's own configuration.

## 5. Fairness

Only `silence` and `partial_funding` use fairness, all
weak. `TimeFairness`: ledgers keep closing. `KeeperFairness`:
`trigger_auto_release` needs no signature of a party and is meant for keepers.
`EscalationFairness`: either party of a dispute may escalate and one of them wants
it over. Nobody else (client, arbiter, admin) is assumed to act, and the pauses may
come and go; `<>[]NotPaused` in the properties excludes only an escrow that stays
paused or locked, or is paused again and again for ever. A milestone that was
partially approved has left the auto-release path (`approve_partial` moves it
from `Delivered` to `PartiallyReleased`, and only `Delivered` is auto-released),
which is why `DeliveredIsDecided` speaks of the delivered status.

## 6. Where code and documents disagree

1. `partial_funding`: `escalate_dispute` (6039), like `request_revision` (4967)
   and `submit_evidence`, wants the whole job funded, while `raise_dispute` wants
   the milestone funded. In a job funded milestone by milestone a dispute can be
   raised and then not escalated until all other milestones are funded. Root
   `SPEC.md:38`: "Unrelated unfunded milestones do not block work on a funded
   milestone."
2. `stale_tax`: the three tax settlements (11160, 11253, 11351) pay the gross
   amount of the record. A partial approval, a streamed payment or a reduction
   after the withholding leaves the record as it was, so the settlement pays more
   than is left, out of other milestones. Root `SPEC.md:45`: "A milestone can
   never release more than its funded amount." The repository has an ignored test
   for the refund (`tax_refund_after_partial_release_does_not_exceed_remaining_balance`,
   issue #689). `OnlyStaleRecordsOverpay` shows that this is the only way: as long
   as no stale record is settled, money is exact.
3. `legacy_transfer`: ids that older code let the proposer choose and ids that the
   counter assigns are one number space (`open_proposal_record`, 8770). A signer
   change proposed after the upgrade can create a record under the id of a pending
   transfer that has none, and `execute_admin_transfer` takes its approvals for
   the transfer. The comment at 8823 says that such an entry "cannot be executed at
   all". The theorems of section 7 name the exact condition under which it cannot.

Others were met while reading and have no run:

* `payment_streaming_consent` (7858) does not look at the cancel lock.
  `contracts/milestone-escrow/SPEC.md:280`: "While emergency paused (`Ep`) or
  cancel locked ... only the admin can move funds." It needs both parties'
  signatures. `CancelLockHolds` has it as its one exception.
* A cancel settlement and the multisig overrides close a disputed milestone and
  keep its record, while `SPEC.md:131` says "the record is deleted when the dispute
  closes" (`DisputesConsistent` speaks of open milestones).
* `contracts/milestone-escrow/SPEC.md:200` says that `admin_override_tax_refund`
  pays the client the gross amount; the code, its comment and the model pay it net
  of tax.
* The comment of `transfer_admin` (3768) says that the previous admin loses access
  to all admin-only endpoints; a role assigned to that address survives
  (`RotationMovesUnassignedRoles`).
* `README.md:18` says that the constructor "rejects any collision among `admin`,
  `client`, `freelancer`, and `arbiter`"; `initialize_inner` (3525-3539) and
  `validate_new_admin` (3186-3196) let the admin be the arbiter.
* `README.md:455`: between `upgrade` and `migrate` every state-changing endpoint
  returns `MigrationRequired`. `add_milestone` (4257), `reduce_milestone` (4358),
  `rotate_freelancer` (4575), `trigger_auto_release` (5169), `approve_milestones`
  (5624), `submit_evidence` (5916), `set_tax_recipient` (10702) do not ask.
* The whitelist is stored and no funding endpoint reads it.
* `replace_arbiter` and `rotate_freelancer` keep the acceptance the predecessor
  gave, and a rotated freelancer inherits the predecessor's approval of a
  cancellation: consent belongs to the role, not to the person.
* In a job funded milestone by milestone the FeeManager may change the yield
  shares alone until every milestone is funded; `AgreedSharesHold` speaks of the
  funded job.
* The split net of platform fees does not validate its fee ratios: two halves of
  a payout of 1 both round up and leave -1. `NetSharesArePayable` is about ratios
  that `validate_fee_allocation` lets be stored.

## 7. What is proved

For every number of milestones, addresses, amount, ratio, timeout, limit, signer
set and proposal, from the named assumptions on the constants
(`IntMaxAssumption`, `PartiesAssumption`, `JobAssumption`, `TimeAssumption`,
`DueDatesAssumption`, `WorkflowAssumption`, `SplitBpsAssumption`,
`OverridesAssumption`, `InputsAssumption`, `AllocationAssumption`,
`TaxAssumption`, `PlatformAssumption`), which TLC evaluates in the runs. They are
ranges of values and what the constructor rejects (parties that coincide), and say
of `Address` that it is finite: what is owed to all addresses is a sum.

* `MilestoneEscrowProofs` - `InductiveInvariant`: `Spec => []Inductive`, and from it
  `TypeCorrect`, `UntouchedWhileReducible`, `DisputesRecorded`, `ExtensionsDropped`,
  `ConsentFirst`. Every action of the escrow preserves `Inductive`, and it stays true
  beside the tax settlements, so the other modules build on it.
* `EscrowHistoryProofs` - the action properties. A classification lemma,
  `NextMoves`, says of every step and every milestone which of six kinds of move
  it is: none, a party's, a stream both signed, back to review by escalation, the
  arbiter's, the admin's. From it: `ClosedForGood` (`TerminalIsFinal`),
  `JudgedBeforePaid`, `ReviewIsNotRefunded`, `PauseFreezes`, `LockFreezes`. And
  `NoStaleLock` (`StaleIntentNeverLocks`), from an invariant that ties the record
  to the history: it holds at most one party's agreement, dated when it was given.
* `EscrowPotProofs` - `NothingOverpaid` (`PaidWithinAmount`) and with it
  `MoneyConserved` (`Conservation`); `PotsRefined`: `Spec => ImplementsMilestonePot`,
  the whole escrow implements the abstract pot, step by step under `PotOf`; and
  `FundedWhenAllAre` (`FundingConsistent`).
* `EscrowMoneyProofs` - the money of the whole contract: `TotalIsTheSum` (`JobTotal`),
  `AlwaysSolvent` (`Solvent`), `CustodyRefined` (`Spec => ImplementsCustody`) and
  `ReputationIsEarned` (`ReputationEarned`).
* `EscrowTaxProofs` - over the whole escrow with withholding (`TaxedSpec`):
  `WithheldTaxIsPromised` (`TaxGoesWherePromised`), `NothingStranded` (`SettledInFull`),
  `OnlyTheStaleOverpay` (`OnlyStaleRecordsOverpay`) and `ClosedForGoodWithTax`
  (`TerminalIsFinal`). `Conservation` and `Solvent` are theorems of `Spec`, not of
  `TaxedSpec`: there they are false, by the second point of section 6, and
  `OnlyTheStaleOverpay` is what remains true of them.
* `EscrowMathProofs` - `SplitNearestExact`, `SplitFloorExact`, `ArbiterFeeBounded`,
  `ExactIsNearest`, `WithheldPayable`, `NetPayable`; and the facts about sums over a
  finite set that the proofs about totals need.
* `CalculatorsProofs` - `EmergencyQuotesAgree`, `WithheldQuotesPayable`,
  `NetQuotesPayable`, and for the largest-remainder loop, with any number of parties,
  `AllocationsWithinQuota` (`WithinQuota`) and `HamiltonReturned` (`ReturnsHamilton`).
* `PlatformProofs` - `PlatformTyped`, `UpgradesAreInvisible`
  (`UpgradeKeepsConfiguration`), `RotationIsComplete`, `MigrationIsComplete`
  (`ReadyMeansMigrated`), `SplitIsAgreed` (`AgreedSharesHold`), `PendingAreReferenced`,
  `SpentForGood`; and `PlatformImplementsSuccession`:
  `Spec => ImplementsSuccession`. The heart of the last is that a bit of a record
  counts as the person at that place: signers are distinct, so as many bits are as
  many persons (`SeatsCount`), and whatever replaces the vec clears the bits.

`PendingAreReferenced`, `SpentForGood` and `PlatformImplementsSuccession` assume
`LegacyIds \cap Proposals = {}`: no transfer left by older code carries an id that
the counter will assign. Without it TLC refutes all three under the
configuration of `legacy_transfer`.

Why the invariants have to be strengthened. In the escrow, `reduce_milestone` keeps
`paid <= amount` only if a `Pending` milestone has released nothing; a milestone
becomes `Pending` again only from `Delivered`, by revision; it becomes `Delivered`
again by escalation, from the status in the dispute's record. So conservation
needs "nothing released while Pending or Delivered", that needs the same of a
dispute interrupted in `Delivered`, and that needs the record of an open dispute to
be the current one. With `PotCovered` (what is paid is what is released while a
milestone is open, and a closed one paid in full) `Inductive` is the conjunction, slot by slot (`SlotOK`), with
types, consent and funding, and with unused slots blank, which `add_milestone`
needs. The proof has a lemma per action that reduces the step to one changed slot,
then one per conjunct; the payments rest on the split theorems (the arbiter's and
the freelancer's legs are natural numbers and together the remainder) and on the
fact that `AfterPay` only ever yields ledgers of the right type.

Money as a whole. Solvency is a sum over milestones and addresses, and no sum is
preserved without knowing how each call moves its terms. The proof takes a step of
`Next` apart into what it does to each milestone (`OnlyPaid`: its funding and amount
stay and its payments grow, or it is one of the deposits, additions and reductions)
and what `AfterPay` does to the ledger (a payment leaves the balance or becomes a
debt, so balance minus debt falls by exactly what was paid), and then adds up:
`HeldSum` falls by the sum of what the milestones paid. `Accounts` is what every
call starts from and restores, `Inductive` with `FundingConsistent` (a deposit
covers exactly what was not funded), `PaidWithinAmount`, `JobTotal` (`fund` deposits
the stored total) and `Solvent`; each needs the others. `CustodyMove` is the same step
seen as a move of `Custody`. The sums are folds that pick their elements in an order
of their own; `SumRemove` says the order does not matter, by induction over the
subsets of a finite set (`SetInduction`). The library's induction theorems take the
property as an operator parameter, which the provers cannot instantiate, so the
property is given as a set of subsets and the induction is a minimal element of the
subsets outside it, from the library's fact that strict inclusion of finite sets is
well-founded.

With tax, `TaxedInv` says that a record covers what is left of its milestone as long
as that is open: nothing refreshes a record, but nothing makes an open milestone hold
more either (`RemainingShrinks`, over every entry point). So a settlement by a record
pays at least what is left, and exactly that unless it is stale. The rest of the
accounts (`Balanced`) is asked for only while no stale record was settled.
`TaxGoesWherePromised` alone is not inductive either: `TaxInv` adds that the recipient
is captured, so that the fallback to the one in force is never used for tax that was
promised.

The loop of the allocation. `LoopInv` says whom it has served (`ServedInOrder`: those
that had their unit had a remainder and come before those that did not) and that the
remainders of those that wait are worth at least the units that are left
(`UnitsCounted`). At the start the remainders are worth exactly those units
(`LeftIsTheRests`), and serving one takes less than one unit's worth, so while units
are left somebody with a remainder waits (`SomebodyWaits`), and the sentinel of the
parties that were served is never the largest.

On the platform, `ReadyMeansMigrated` needs to know where each layout may keep its
entries (`LayoutInv`); `AgreedSharesHold` needs each of the two places to
hold at most one split (`YieldInv`); the proposals
need pending entries and records to match below the counter (`ProposalInv`); the
refinement adds that stored signer sets are valid ones (`SetupInv`) and that bits
lie within the vec of the moment (`BitsInv`), together `MapInv`.

Only model-checked: `DeliveredIsDecided` and `FundedDisputesEnd`, since liveness under
fairness, and ENABLED, are out of the prover's reach. Every other property of a
passing run is also a theorem, `AllocationsWithinQuota` and `HamiltonReturned` of
`LoopSpec`, the calculators of their own `Spec`: `MCCalculators` only lets TLC choose
one of the two.

## 8. Not modelled

* The escrow factory: three setters of its admin and of the code to deploy, and a
  deployment that passes its arguments on. It keeps nothing about an escrow once
  it is created and no order of its calls matters, so a property of it would
  restate one guard. That a deployed escrow starts right is `Init` of the escrow.
* Getters, events and storage rent: read-only, or without effect on a decision as
  long as entries live.
* `sweep_excess` of a foreign token, which touches no modelled state, and
  `escrow_interest_yield`, a formula whose result nothing stores.
* Authorisation by signature, which the host enforces, and the bytes of hashes.
* The two families composed into one state space: they meet in guards only
  (section 2), and the product of their states is out of TLC's reach.
* Scripts, deployment and golden snapshots: tooling around the contracts.

What could be added next: the hazards of a migration that stops half way, should the
code come to migrate in several calls.
