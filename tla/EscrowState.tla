------------------------------ MODULE EscrowState ------------------------------
(***************************************************************************)
(* The storage of one milestone-escrow contract and the helpers its entry  *)
(* points share: who is who, what each milestone is worth and where it     *)
(* stands, the token ledger of the contract, and the pause and lock flags. *)
(*                                                                         *)
(* A call to the contract is one atomic transaction, so every entry point  *)
(* is one action of the modules that extend this one.  A call that returns *)
(* an error leaves no trace and is no step.  The execution locks that the  *)
(* code takes and releases inside one call can therefore never be observed *)
(* and are left out, and so are events and the expiry of storage.          *)
(***************************************************************************)
EXTENDS EscrowMath, FiniteSetsExt

CONSTANTS
    Address,            \* accounts that can hold a role or be paid
    Client,             \* JobMeta.client, never changed after construction
    Admin,              \* the platform's address (its rotation is not modelled here)
    InitFreelancer,     \* constructor arguments
    InitArbiter,
    FundingModes,       \* the funding modes a deployment may choose
    InitCount,          \* number of milestones at construction
    MaxMilestones,      \* MAX_MILESTONES
    InitAmounts,        \* milestone amounts tried at construction
    Amounts,            \* and later, for an added or a reduced milestone
    CanBounce,          \* accounts whose incoming transfer may fail (no trustline)
    AutoRelease,        \* auto_release_seconds
    AcceptanceWindow,   \* ACCEPTANCE_WINDOW_SECONDS
    OverdueGrace,       \* OVERDUE_GRACE_SECONDS
    DisputeTimeout,     \* dispute_timeout_seconds
    CancelTtl,          \* CANCEL_APPROVAL_TTL_SECONDS
    MaxRevisions,       \* MAX_REVISIONS
    MaxEvidence,        \* MAX_DISPUTE_EVIDENCE_ENTRIES
    ArbiterFeeBps,      \* arbiter_fee_bps
    MaxTime             \* bound of the model: the last ledger timestamp

FundingMode     == {"Upfront", "PerMilestone"}
MilestoneStatus == {"Pending", "Delivered", "PartiallyReleased", "Released",
                    "Disputed", "Refunded", "Split"}
Milestones      == 0..(MaxMilestones - 1)

(***************************************************************************)
(* What initialize_inner and initialize_with_settings reject at            *)
(* construction.                                                           *)
(***************************************************************************)
ASSUME PartiesAssumption ==
    /\ IsFiniteSet(Address)
    /\ {Client, Admin, InitFreelancer, InitArbiter} \subseteq Address
    /\ Client # InitFreelancer /\ InitArbiter # Client /\ InitArbiter # InitFreelancer
    /\ Admin # Client /\ Admin # InitFreelancer
    /\ CanBounce \subseteq Address

ASSUME JobAssumption ==
    /\ FundingModes \subseteq FundingMode
    /\ MaxMilestones \in Nat \ {0} /\ InitCount \in 1..MaxMilestones
    /\ InitAmounts \subseteq Nat \ {0} /\ Amounts \subseteq Nat \ {0}
    /\ ArbiterFeeBps \in 0..1000

ASSUME TimeAssumption ==
    /\ AutoRelease \in Nat \ {0} /\ DisputeTimeout \in Nat \ {0}
    /\ AcceptanceWindow \in Nat /\ OverdueGrace \in Nat /\ CancelTtl \in Nat
    /\ MaxRevisions \in Nat /\ MaxEvidence \in Nat /\ MaxTime \in Nat

VARIABLES
    fundingMode,    \* DataKey::FundingMode
    funded,         \* JobMeta.funded
    fundedAt,       \* DataKey::FundedAt, 0 when absent
    acceptance,     \* DataKey::Acceptance: who called accept_job / accept_arbiter
    freelancer,     \* JobMeta.freelancer
    arbiter,        \* JobMeta.arbiter
    totalAmount,    \* JobMeta.total_amount
    count,          \* JobMeta.milestone_count
    ms,             \* the milestones and the per-milestone keys beside them
    ledger,         \* the contract's token balance and what it owes
    yieldAccrued,   \* DataKey::YieldAccrued
    reputation,     \* DataKey::Reputation(address)
    paused,         \* DataKey::Paused, the admin's pause
    ep,             \* DataKey::Ep, the emergency pause
    epParty,        \* DataKey::EpParty: the parties paused it themselves
    cancelApproval, \* DataKey::CancelApproval, an empty mask when absent
    cancelLock,     \* DataKey::CancelLock
    multisigLocked, \* DataKey::MultisigLocked
    now             \* the ledger's timestamp

partyVars == <<acceptance, freelancer, arbiter>>
jobVars   == <<fundingMode, funded, fundedAt, totalAmount, count>>
moneyVars == <<ledger, yieldAccrued, reputation>>
pauseVars == <<paused, ep, epParty>>
lockVars  == <<cancelApproval, cancelLock, multisigLocked>>
vars      == <<jobVars, partyVars, ms, moneyVars, pauseVars, lockVars, now>>

-----------------------------------------------------------------------------
(***************************************************************************)
(* Records.  A milestone carries, beside the fields of struct Milestone,   *)
(* the keys stored under its index (due date, revision count, deadline     *)
(* extension, dispute record).  paid is a history field, not storage: all  *)
(* that ever left the contract, or was credited, on the milestone's        *)
(* account.                                                                *)
(***************************************************************************)
DisputeInfo == [open: BOOLEAN, at: Nat, previous: MilestoneStatus, evidence: 0..MaxEvidence]
NoDispute   == [open |-> FALSE, at |-> 0, previous |-> "Pending", evidence |-> 0]

Milestone ==
    [amount: Nat, released: Nat, status: MilestoneStatus, funded: BOOLEAN,
     deliveredAt: Nat, dueAt: Nat, revisions: 0..MaxRevisions, extension: Nat,
     dispute: DisputeInfo, paid: Nat]

NewMilestone(a, isFunded) ==
    [amount |-> a, released |-> 0, status |-> "Pending", funded |-> isFunded,
     deliveredAt |-> 0, dueAt |-> 0, revisions |-> 0, extension |-> 0,
     dispute |-> NoDispute, paid |-> 0]

Ledger == [balance: Nat, owed: [Address -> Nat], totalOwed: Int]

CancelApproval == [mask: SUBSET {"client", "freelancer"}, at: Nat]
NoApproval     == [mask |-> {}, at |-> 0]

-----------------------------------------------------------------------------
(***************************************************************************)
(* Milestones.                                                             *)
(***************************************************************************)
Live == 0..(count - 1)

Terminal      == {"Released", "Refunded", "Split"}
IsTerminal(m) == m.status \in Terminal

\* Mutant of Remaining: what was released before is forgotten.
WholeAmount(m) == m.amount

Remaining(m)  == m.amount - m.released

\* milestone_is_funded / require_milestone_is_funded.
MilestoneFunded(i) == funded \/ (fundingMode = "PerMilestone" /\ ms[i].funded)

\* require_escrow_has_funding.
EscrowHasFunding ==
    funded \/ (fundingMode = "PerMilestone" /\ \E i \in Live: ms[i].funded)

\* What the code sums, with checked additions, when one payment settles several
\* milestones; the call fails unless the sum is a positive i128.
TotalRemaining(S) == SumFunction([i \in S |-> Remaining(ms[i])])
Payable(total)    == total \in 1..IntMax

Open == {i \in Live: ~IsTerminal(ms[i])}

\* What withdraw_unaccepted and settle_all_remaining settle.
Due == {i \in Open: MilestoneFunded(i) /\ Remaining(ms[i]) > 0}

\* Mutant of Obligations: what is owed is swept with the surplus.
ObligationsWithoutOwed == TotalRemaining(Open) + yieldAccrued

\* outstanding_escrow_obligations.
Obligations == TotalRemaining(Open) + yieldAccrued + ledger.totalOwed

\* Mutant of Accepted: one of the two is enough.
AcceptedByEither == acceptance # {}

\* require_accepted.
Accepted == acceptance = {"freelancer", "arbiter"}

SetMilestone(i, m) == ms' = [ms EXCEPT ![i] = m]

(***************************************************************************)
(* How a milestone is settled: amt leaves on its account, of which toward  *)
(* is added to released_amount.                                            *)
(***************************************************************************)
Settled(m, status, toward, amt) ==
    [m EXCEPT !.status = status, !.released = @ + toward, !.paid = @ + amt]

\* Mutant of WithoutDispute and of WithoutExtension: the key is not removed.
Kept(m) == m

WithoutDispute(m)   == [m EXCEPT !.dispute = NoDispute]
WithoutExtension(m) == [m EXCEPT !.extension = 0]

-----------------------------------------------------------------------------
(***************************************************************************)
(* Money.  AfterPay is pay_or_credit: the set of ledgers a payment can     *)
(* leave.  The token transfer is tried first, and only a failed transfer   *)
(* looks at what others are owed before the amount is credited.  The set   *)
(* is empty when the call fails with InsufficientBalance.                  *)
(***************************************************************************)
Available(l) == l.balance - l.totalOwed

Transferred(l, amt) == [l EXCEPT !.balance = @ - amt]

Credited(l, to, amt) ==
    [l EXCEPT !.owed[to] = @ + amt, !.totalOwed = @ + amt]

AfterPay(l, to, amt) ==
    {r \in {Transferred(l, amt), Credited(l, to, amt)}:
        \/ r = Transferred(l, amt) /\ amt <= l.balance
        \/ r = Credited(l, to, amt) /\ to \in CanBounce /\ amt <= Available(l)}

PayOrCredit(to, amt) == ledger' \in AfterPay(ledger, to, amt)

\* A leg of zero is not paid at all.
AfterPayIfAny(l, to, amt) == IF amt > 0 THEN AfterPay(l, to, amt) ELSE {l}

Deposited(amt) == [ledger EXCEPT !.balance = @ + amt]

\* Mutant of CreditReputation: the freelancer is forgotten.
CreditClientOnly(n) == reputation' = [reputation EXCEPT ![Client] = @ + n]

\* increment_reputation for both parties, once per milestone in n.
CreditReputation(n) ==
    reputation' = [reputation EXCEPT ![Client] = @ + n, ![freelancer] = @ + n]

-----------------------------------------------------------------------------
(***************************************************************************)
(* Guards.                                                                 *)
(***************************************************************************)
\* Mutant of NotPaused: the emergency pause is not looked at.
NotPausedByAdmin == ~paused /\ ~cancelLock

\* Mutant of NotPaused: the cancel lock is not looked at.
NotPausedByAnyone == ~paused /\ ~ep

\* ensure_not_paused.
NotPaused == ~paused /\ ~ep /\ ~cancelLock

\* assert_not_paused looks at the admin's pause alone.
NotAdminPaused == ~paused

-----------------------------------------------------------------------------
\* __constructor: initialize_with_settings on top of initialize_inner.
Init ==
    /\ fundingMode \in FundingModes
    /\ funded = FALSE /\ fundedAt = 0
    /\ acceptance = {} /\ freelancer = InitFreelancer /\ arbiter = InitArbiter
    /\ count = InitCount
    /\ \E a \in [Milestones -> InitAmounts]:
          ms = [i \in Milestones |-> NewMilestone(IF i < InitCount THEN a[i] ELSE 0, FALSE)]
    /\ totalAmount = SumFunction([i \in Milestones |-> ms[i].amount])
    /\ Payable(totalAmount)
    /\ ledger = [balance |-> 0, owed |-> [a \in Address |-> 0], totalOwed |-> 0]
    /\ yieldAccrued = 0
    /\ reputation = [a \in Address |-> 0]
    /\ paused = FALSE /\ ep = FALSE /\ epParty = FALSE
    /\ cancelApproval = NoApproval /\ cancelLock = FALSE
    /\ multisigLocked = FALSE
    /\ now = 1

\* Time passes between ledgers.
Tick ==
    /\ now < MaxTime
    /\ now' = now + 1
    /\ UNCHANGED <<jobVars, partyVars, ms, moneyVars, pauseVars, lockVars>>
=============================================================================
