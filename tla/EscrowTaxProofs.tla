---------------------------- MODULE EscrowTaxProofs ----------------------------
(***************************************************************************)
(* The escrow with its tax withholding: withheld tax reaches the recipient *)
(* that was in force when the client and the freelancer agreed to it, no   *)
(* record strands part of a milestone, and only a record that is out of    *)
(* date can take too much.                                                 *)
(***************************************************************************)
EXTENDS EscrowTax, EscrowMoneyProofs

\* A record and a captured recipient for every milestone, of whatever value: the
\* amounts do not matter to the promise.
OnMilestones ==
    /\ taxRecord = [i \in Milestones |-> taxRecord[i]]
    /\ capturedFor = [i \in Milestones |-> capturedFor[i]]

\* The property alone is not inductive: while nothing is captured the settlement
\* falls back to the recipient in force, which may change under the record.
PromiseCaptured ==
    \A i \in Milestones: taxRecord[i].open /\ taxRecord[i].tax > 0 =>
        taxRecord[i].promised # {} /\ capturedFor[i] = taxRecord[i].promised

TaxInv == OnMilestones /\ PromiseCaptured

\* The captured recipient takes precedence over a later one.
LEMMA CapturedIsPromised == TaxInv => TaxGoesWherePromised
  BY DEF TaxInv, PromiseCaptured, TaxGoesWherePromised, SettlementRecipient

\* Nothing is promised before the first withholding.
LEMMA NothingPromisedYet == TaxInit => TaxInv
  BY DEF TaxInit, TaxInv, OnMilestones, PromiseCaptured, NoRecord

\* Removing a record cannot break a promise.
LEMMA RemovalKeepsPromises ==
  ASSUME TaxInv, NEW i \in Milestones, NEW status, NEW toward,
         SettleByRecord(i, status, toward)
  PROVE  TaxInv'
<1>1. taxRecord' = [taxRecord EXCEPT ![i] = NoRecord] /\ capturedFor' = capturedFor
  BY DEF SettleByRecord
<1>2. \A j \in Milestones: taxRecord'[j] = IF j = i THEN NoRecord ELSE taxRecord[j]
  BY <1>1, Zenon DEF TaxInv, OnMilestones
<1>3. OnMilestones'
  BY <1>1, Zenon DEF TaxInv, OnMilestones
<1>4. ~NoRecord.open
  BY DEF NoRecord
<1> QED
  BY <1>1, <1>2, <1>3, <1>4 DEF TaxInv, PromiseCaptured

\* A withholding promises the tax to the recipient in force and captures that one,
\* whatever was captured for the milestone before.
LEMMA WithholdingKeepsPromises ==
  ASSUME TaxInv, NEW i \in Milestones, NEW rate \in TaxRates,
         TaxWithholdingDeductions(i, rate)
  PROVE  TaxInv'
<1> DEFINE gross == Remaining(ms[i])
           tax   == SplitNearest(gross, rate, BpsScale).first
           rec   == [open |-> TRUE, gross |-> gross, tax |-> tax, promised |-> taxRecipient]
<1>1. /\ tax > 0 => taxRecipient # {}
      /\ taxRecord' = [taxRecord EXCEPT ![i] = rec]
      /\ capturedFor' = [capturedFor EXCEPT ![i] = Captured(i)]
  BY DEF TaxWithholdingDeductions
<1>2. rec.tax = tax /\ rec.promised = taxRecipient
  OBVIOUS
<1> HIDE DEF rec, tax
<1>3. /\ \A j \in Milestones: taxRecord'[j] = IF j = i THEN rec ELSE taxRecord[j]
      /\ \A j \in Milestones: capturedFor'[j] = IF j = i THEN Captured(i) ELSE capturedFor[j]
  BY <1>1, Zenon DEF TaxInv, OnMilestones
<1>4. OnMilestones'
  BY <1>1, Zenon DEF TaxInv, OnMilestones
<1>5. ASSUME NEW j \in Milestones, taxRecord'[j].open, taxRecord'[j].tax > 0
      PROVE  taxRecord'[j].promised # {} /\ capturedFor'[j] = taxRecord'[j].promised
  <2>1. CASE j = i
    BY <1>1, <1>2, <1>3, <1>5, <2>1 DEF Captured
  <2>2. CASE j # i
    BY <1>3, <1>5, <2>2 DEF TaxInv, PromiseCaptured
  <2> QED
    BY <2>1, <2>2
<1> QED
  BY <1>4, <1>5 DEF TaxInv, PromiseCaptured

\* Every step keeps the promises: the escrow's own entry points do not know of
\* records, and changing the recipient in force leaves what was captured.
LEMMA StepKeepsPromises ==
  TaxInv /\ [(Next /\ UNCHANGED taxVars) \/ TaxNext]_allVars => TaxInv'
<1> SUFFICES ASSUME TaxInv, [(Next /\ UNCHANGED taxVars) \/ TaxNext]_allVars PROVE TaxInv'
  OBVIOUS
<1>1. CASE UNCHANGED taxVars
  BY <1>1 DEF taxVars, TaxInv, OnMilestones, PromiseCaptured
<1>2. ASSUME NEW a \in TaxRecipients, SetTaxRecipient(a) PROVE TaxInv'
  BY <1>2 DEF SetTaxRecipient, TaxInv, OnMilestones, PromiseCaptured
<1>3. ASSUME NEW i \in Milestones, NEW rate \in TaxRates, TaxWithholdingDeductions(i, rate)
      PROVE  TaxInv'
  BY <1>3, WithholdingKeepsPromises
<1>4. ASSUME TaxSettlement PROVE TaxInv'
  <2>1. ASSUME NEW i \in Milestones, AdminOverrideTaxRelease(i) PROVE TaxInv'
    BY <2>1, RemovalKeepsPromises DEF AdminOverrideTaxRelease
  <2>2. ASSUME NEW i \in Milestones, AdminOverrideTaxRefund(i) PROVE TaxInv'
    BY <2>2, RemovalKeepsPromises DEF AdminOverrideTaxRefund
  <2>3. ASSUME NEW i \in Milestones, NEW bps \in SplitBps, AdminOverrideTaxSplitRefund(i, bps)
        PROVE  TaxInv'
    BY <2>3, RemovalKeepsPromises DEF AdminOverrideTaxSplitRefund
  <2> QED
    BY <1>4, <2>1, <2>2, <2>3 DEF TaxSettlement
<1>5. CASE UNCHANGED allVars
  BY <1>1, <1>5 DEF allVars
<1> QED
  BY <1>1, <1>2, <1>3, <1>4, <1>5 DEF TaxNext

-----------------------------------------------------------------------------
\* For any number of milestones, rates and recipients: tax that was withheld has a
\* destination, the one that was in force when it was withheld, through every
\* interleaving of the escrow's calls, new withholdings and changes of recipient.
THEOREM WithheldTaxIsPromised == TaxedSpec => []TaxGoesWherePromised
<1>1. TaxedSpec => []TaxInv
  BY NothingPromisedYet, StepKeepsPromises, PTL DEF TaxedSpec
<1> QED
  BY <1>1, CapturedIsPromised, PTL
-----------------------------------------------------------------------------
(***************************************************************************)
(* What a record says of its milestone.  Nothing refreshes it, but nothing *)
(* makes an open milestone hold more than it did either: the record never  *)
(* becomes too small.                                                      *)
(***************************************************************************)
RecordCovers(i) ==
    /\ taxRecord[i].gross \in Nat /\ taxRecord[i].tax \in 0..taxRecord[i].gross
    /\ i \in Live
    /\ ~IsTerminal(ms[i]) => Remaining(ms[i]) <= taxRecord[i].gross

RecordOK(i) ==
    /\ capturedFor[i] \subseteq Address
    /\ taxRecord[i].open => RecordCovers(i)

RecordsOK == taxRecipient \subseteq Address /\ \A i \in Milestones: RecordOK(i)

\* The accounts of the escrow by itself, as long as no record was out of date.
Balanced == FundingConsistent /\ PaidWithinAmount /\ JobTotal /\ Solvent

TaxedInv == OnMilestones /\ Inductive /\ RecordsOK /\ (~stalePaid => Balanced)

\* While a milestone is open, what is left of it only shrinks.
LEMMA RemainingShrinks ==
    ASSUME Inductive, [Next]_vars, NEW i \in Live, ~IsTerminal(ms'[i])
    PROVE  ~IsTerminal(ms[i]) /\ Remaining(ms'[i]) <= Remaining(ms[i])
<1>1. /\ i \in Milestones /\ i \in Live' /\ Inductive' /\ ms \in [Milestones -> Milestone]
      /\ ms' \in [Milestones -> Milestone]
  BY LiveSlot, LiveGrows, NextInductive DEF Inductive, TypeOK
<1>2. /\ ms[i].amount \in Nat /\ ms[i].released \in Nat /\ ms[i].paid \in Nat
      /\ ms'[i].amount \in Nat /\ ms'[i].released \in Nat /\ ms'[i].paid \in Nat
  BY <1>1 DEF Milestone
<1>3. CASE ~FundingNext
  <2>1. PaidOn(ms[i], ms'[i])
    BY <1>1, <1>3, OthersOnlyPay DEF OnlyPaid
  <2>2. ~IsTerminal(ms[i]) => ms[i].paid = ms[i].released
    BY LiveSlot DEF Good, PotCovered
  <2>3. ms'[i].paid = ms'[i].released
    BY <1>1 DEF Inductive, SlotOK, Good, PotCovered, IsTerminal
  <2> QED
    BY <1>2, <2>1, <2>2, <2>3 DEF PaidOn, Remaining
<1>4. CASE FundingNext
  <2> SUFFICES ms'[i].released = ms[i].released /\ ms'[i].status = ms[i].status
               /\ ms'[i].amount <= ms[i].amount
    BY <1>2 DEF Remaining, IsTerminal
  <2>1. CASE Fund
    BY <1>2, <2>1 DEF Fund
  <2>2. ASSUME NEW j \in Milestones, FundMilestone(j)
        PROVE  ms'[i].released = ms[i].released /\ ms'[i].status = ms[i].status
               /\ ms'[i].amount <= ms[i].amount
    <3> DEFINE m == [ms[j] EXCEPT !.funded = TRUE]
    <3>1. ms' = [ms EXCEPT ![j] = m]
      BY <2>2 DEF FundMilestone, SetMilestone
    <3>2. m.amount = ms[j].amount /\ m.released = ms[j].released /\ m.status = ms[j].status
      BY MilestonesAreRecords DEF Milestone
    <3> HIDE DEF m
    <3> QED
      BY <1>1, <1>2, <3>1, <3>2
  <2>3. ASSUME NEW amt \in Amounts, AddMilestone(amt)
        PROVE  ms'[i].released = ms[i].released /\ ms'[i].status = ms[i].status
               /\ ms'[i].amount <= ms[i].amount
    <3>1. ms' = [ms EXCEPT ![count] = NewMilestone(amt, TRUE)] /\ i # count
      BY <2>3, JobAssumption DEF AddMilestone, SetMilestone, Live, Inductive, TypeOK
    <3>2. ms'[i] = ms[i]
      BY <1>1, <3>1
    <3> QED
      BY <1>2, <3>2
  <2>4. ASSUME NEW j \in Milestones, NEW amt \in Amounts, ReduceMilestone(j, amt)
        PROVE  ms'[i].released = ms[i].released /\ ms'[i].status = ms[i].status
               /\ ms'[i].amount <= ms[i].amount
    <3> DEFINE m == [ms[j] EXCEPT !.amount = amt]
    <3>1. ms' = [ms EXCEPT ![j] = m] /\ amt < ms[j].amount /\ amt \in Nat
      BY <2>4, JobAssumption DEF ReduceMilestone, CanReduce, SetMilestone
    <3>2. m.amount = amt /\ m.released = ms[j].released /\ m.status = ms[j].status
      BY MilestonesAreRecords DEF Milestone
    <3> HIDE DEF m
    <3> QED
      BY <1>1, <1>2, <3>1, <3>2
  <2>5. ASSUME NEW due \in [Milestones -> DueDates], SetDueDates(due)
        PROVE  ms'[i].released = ms[i].released /\ ms'[i].status = ms[i].status
               /\ ms'[i].amount <= ms[i].amount
    <3>1. ms'[i] = [ms[i] EXCEPT !.dueAt = due[i]]
      BY <1>1, <2>5 DEF SetDueDates
    <3>2. /\ ms'[i].released = ms[i].released /\ ms'[i].status = ms[i].status
          /\ ms'[i].amount = ms[i].amount
      BY <1>1, <3>1 DEF Milestone
    <3> QED
      BY <1>2, <3>2
  <2> QED
    BY <1>4, <2>1, <2>2, <2>3, <2>4, <2>5 DEF FundingNext
<1> QED
  BY <1>3, <1>4

\* The escrow's own calls do not know of records; they keep what records say.
LEMMA EscrowKeepsRecords ==
    ASSUME TaxedInv, [Next]_vars, UNCHANGED taxVars PROVE TaxedInv'
<1>1. Inductive /\ Inductive' /\ RecordsOK
  BY NextInductive DEF TaxedInv
<1>2. taxRecipient' = taxRecipient /\ capturedFor' = capturedFor /\ taxRecord' = taxRecord
      /\ stalePaid' = stalePaid
  BY DEF taxVars
<1>3. OnMilestones'
  BY <1>2 DEF TaxedInv, OnMilestones
<1>4. ASSUME NEW i \in Milestones, taxRecord[i].open PROVE RecordCovers(i)'
  <2>1. RecordCovers(i)
    BY <1>1, <1>4 DEF RecordsOK, RecordOK
  <2>2. i \in Live /\ i \in Live'
    BY <1>1, <2>1, LiveGrows DEF RecordCovers
  <2>3. ASSUME ~IsTerminal(ms'[i]) PROVE Remaining(ms'[i]) <= taxRecord[i].gross
    <3>1. ~IsTerminal(ms[i]) /\ Remaining(ms'[i]) <= Remaining(ms[i])
      BY <1>1, <2>2, <2>3, RemainingShrinks
    <3>2. ms[i] \in Milestone /\ ms'[i] \in Milestone
      <4>1. ms \in [Milestones -> Milestone] /\ ms' \in [Milestones -> Milestone]
        BY <1>1 DEF Inductive, TypeOK
      <4> QED
        BY <4>1
    <3>3. Remaining(ms[i]) \in Int /\ Remaining(ms'[i]) \in Int /\ taxRecord[i].gross \in Int
      BY <2>1, <3>2 DEF Remaining, Milestone, RecordCovers
    <3> QED
      BY <2>1, <3>1, <3>3 DEF RecordCovers
  <2> QED
    BY <1>2, <2>1, <2>2, <2>3 DEF RecordCovers, IsTerminal, Remaining
<1>5. RecordsOK'
  BY <1>1, <1>2, <1>4 DEF RecordsOK, RecordOK
<1>6. ASSUME ~stalePaid' PROVE Balanced'
  <2>1. Accounts
    BY <1>1, <1>2, <1>6 DEF TaxedInv, Balanced, Accounts
  <2>2. Solvent' /\ JobTotal' /\ PaidWithinAmount'
    BY <2>1, AccountsStep, PaidWithinStep DEF CustodyMove, Accounts
  <2>3. FundingConsistent'
    BY <2>1, FundingConsistentStep, FundingConsistentKept, OthersOnlyPay, OnlyPaidKeepsFunded
       DEF Accounts
  <2> QED
    BY <2>2, <2>3 DEF Balanced
<1> QED
  BY <1>1, <1>3, <1>5, <1>6 DEF TaxedInv

\* A withholding looks at the milestone as it is, and moves nothing.
LEMMA WithholdingKeepsRecords ==
    ASSUME TaxedInv, NEW i \in Milestones, NEW rate \in TaxRates,
           TaxWithholdingDeductions(i, rate)
    PROVE  TaxedInv'
<1> DEFINE gross == Remaining(ms[i])
           tax   == SplitNearest(gross, rate, BpsScale).first
           rec   == [open |-> TRUE, gross |-> gross, tax |-> tax, promised |-> taxRecipient]
<1>1. /\ Withholdable(i, rate) /\ UNCHANGED <<vars, taxRecipient, stalePaid>>
      /\ taxRecord' = [taxRecord EXCEPT ![i] = rec]
      /\ capturedFor' = [capturedFor EXCEPT ![i] = Captured(i)]
  BY DEF TaxWithholdingDeductions
<1>2. i \in Live /\ ~IsTerminal(ms[i]) /\ gross \in Nat
  BY <1>1, LiveSlot DEF Withholdable, IsTerminal, Terminal, TaxedInv
<1>3. tax \in 0..gross
  <2>1. rate \in Nat /\ CanSplitNearest(gross, rate, BpsScale) /\ BpsScale \in Nat
    BY <1>1, TaxAssumption DEF Withholdable, BpsScale
  <2> QED
    BY <1>2, <2>1, SplitNearestExact
<1>4. rec.gross = gross /\ rec.tax = tax /\ rec.open
  OBVIOUS
<1> HIDE DEF rec, tax
<1>5. /\ \A j \in Milestones: taxRecord'[j] = IF j = i THEN rec ELSE taxRecord[j]
      /\ \A j \in Milestones: capturedFor'[j] = IF j = i THEN Captured(i) ELSE capturedFor[j]
      /\ OnMilestones'
  BY <1>1, Zenon DEF TaxedInv, OnMilestones
<1>6. ms' = ms /\ Live' = Live /\ taxRecipient' = taxRecipient
  BY <1>1 DEF vars, jobVars, Live
<1>7. RecordCovers(i)'
  BY <1>2, <1>3, <1>4, <1>5, <1>6 DEF RecordCovers, Remaining, IsTerminal
<1>8. Captured(i) \subseteq Address
  BY DEF Captured, TaxedInv, RecordsOK, RecordOK
<1>9. ASSUME NEW j \in Milestones PROVE RecordOK(j)'
  <2>1. CASE j = i
    BY <1>5, <1>7, <1>8, <2>1 DEF RecordOK
  <2>2. CASE j # i
    BY <1>5, <1>6, <2>2 DEF TaxedInv, RecordsOK, RecordOK, RecordCovers, IsTerminal, Remaining
  <2> QED
    BY <2>1, <2>2
<1>10. [Next]_vars /\ Inductive'
  BY <1>1, NextInductive DEF TaxedInv
<1>11. ASSUME ~stalePaid' PROVE Balanced'
  <2>1. Accounts
    BY <1>1, <1>11 DEF TaxedInv, Balanced, Accounts
  <2>2. Solvent' /\ JobTotal' /\ PaidWithinAmount'
    BY <1>10, <2>1, AccountsStep, PaidWithinStep DEF CustodyMove, Accounts
  <2>3. FundingConsistent'
    BY <1>10, <2>1, FundingConsistentStep, FundingConsistentKept, OthersOnlyPay, OnlyPaidKeepsFunded
       DEF Accounts
  <2> QED
    BY <2>2, <2>3 DEF Balanced
<1> QED
  BY <1>5, <1>6, <1>9, <1>10, <1>11 DEF TaxedInv, RecordsOK

-----------------------------------------------------------------------------
(***************************************************************************)
(* Settlements pay what the record says.                                   *)
(***************************************************************************)
LEMMA TaxPaysOut ==
    ASSUME TaxedInv, NEW i \in Milestones, TaxSettlable(i), NEW x \in Nat, NEW l,
           PaidOut(ledger, l, x), ledger' \in AfterTax(l, i),
           x + taxRecord[i].tax = taxRecord[i].gross
    PROVE  PaidOut(ledger, ledger', taxRecord[i].gross)
<1>1. taxRecord[i].tax \in Nat /\ ledger \in Ledger /\ l \in Ledger
  BY DEF TaxedInv, RecordsOK, RecordOK, RecordCovers, TaxSettlable, PaidOut, Inductive, TypeOK
<1>2. SettlementRecipient(i) \subseteq Address
  BY DEF TaxedInv, RecordsOK, RecordOK, SettlementRecipient
<1>3. PaidOut(l, ledger', taxRecord[i].tax)
  <2>1. CASE taxRecord[i].tax = 0
    BY <1>1, <2>1, NothingPaysOut DEF AfterTax
  <2>2. CASE taxRecord[i].tax # 0
    <3>1. PICK a \in SettlementRecipient(i): ledger' \in AfterPay(l, a, taxRecord[i].tax)
      BY <2>2 DEF AfterTax
    <3> QED
      BY <1>1, <1>2, <3>1, PayPaysOut
  <2> QED
    BY <2>1, <2>2
<1> QED
  BY <1>1, <1>3, LegsPayOut

\* The milestone is closed, with its amount paid at least, whatever was out of date.
LEMMA SettlementKeepsSlots ==
    ASSUME TaxedInv, NEW i \in Milestones, TaxSettlable(i), NEW status \in Terminal,
           NEW toward \in Nat, toward <= taxRecord[i].gross,
           SetMilestone(i, Settled(ms[i], status, toward, taxRecord[i].gross)),
           UNCHANGED <<jobVars, acceptance>>
    PROVE  SlotsOK'
<1> DEFINE g == taxRecord[i].gross
           m == Settled(ms[i], status, toward, g)
<1>1. /\ i \in Live /\ ~IsTerminal(ms[i]) /\ MilestoneFunded(i) /\ Inductive
      /\ g \in Nat /\ Remaining(ms[i]) <= g
  BY DEF TaxedInv, RecordsOK, RecordOK, RecordCovers, TaxSettlable
<1>2. /\ ms[i] \in Milestone /\ ms[i].paid = ms[i].released /\ ms[i].amount > 0
  BY <1>1, LiveSlot DEF Good, PotCovered
<1>3. ms[i].amount \in Nat /\ ms[i].released \in Nat /\ ms[i].paid \in Nat
  BY <1>2 DEF Milestone
<1>4. SetMilestone(i, m) /\ toward <= g
  OBVIOUS
<1> HIDE DEF g
<1>5. /\ m \in Milestone /\ m.status = status /\ m.released = ms[i].released + toward
      /\ m.paid = ms[i].paid + g /\ m.amount = ms[i].amount /\ m.funded = ms[i].funded
  <2>1. status \in MilestoneStatus
    BY DEF Terminal, MilestoneStatus
  <2> QED
    BY <1>1, <1>2, <2>1, SettledFields
<1> HIDE DEF m
<1>6. status \notin {"Pending", "Delivered", "Disputed"} \cup InReview
  BY DEF Terminal, InReview
<1>7. IsTerminal(m)
  BY <1>5 DEF IsTerminal
<1>8. PotCovered(m)
  BY <1>1, <1>2, <1>3, <1>4, <1>5, <1>7 DEF PotCovered, Remaining
<1>9. Good(m)
  BY <1>5, <1>6, <1>7, <1>8 DEF Good, UntouchedBeforePartial, DisputeRecorded
<1> QED
  BY <1>1, <1>2, <1>4, <1>5, <1>6, <1>9, SlotReplaced

LEMMA SettlementKeepsRecords ==
    ASSUME TaxedInv, NEW i \in Milestones, TaxSettlable(i), NEW status \in Terminal,
           NEW toward \in Nat, toward <= taxRecord[i].gross,
           PaidOut(ledger, ledger', taxRecord[i].gross), SettleByRecord(i, status, toward)
    PROVE  TaxedInv'
<1> DEFINE g == taxRecord[i].gross
<1>1. /\ Inductive /\ g \in Nat /\ ledger \in Ledger /\ ledger' \in Ledger
      /\ i \in Live /\ ~IsTerminal(ms[i]) /\ Good(ms[i]) /\ Remaining(ms[i]) \in Nat
  BY LiveSlot DEF TaxedInv, RecordsOK, RecordOK, RecordCovers, TaxSettlable, PaidOut,
     Inductive, TypeOK
<1>2. Outflow = g
  <2>1. /\ ledger.balance \in Nat /\ ledger.totalOwed \in Int
        /\ ledger'.balance \in Nat /\ ledger'.totalOwed \in Int
    BY <1>1 DEF Ledger
  <2> QED
    BY <1>1, <2>1 DEF PaidOut, Available, Outflow
<1>3. /\ SetMilestone(i, Settled(ms[i], status, toward, g))
      /\ taxRecord' = [taxRecord EXCEPT ![i] = NoRecord]
      /\ stalePaid' = (stalePaid \/ g # Remaining(ms[i]))
      /\ UNCHANGED <<jobVars, partyVars, yieldAccrued, reputation, pauseVars, lockVars, now,
                     taxRecipient, capturedFor>>
  BY <1>2 DEF SettleByRecord
<1>4. SlotsOK'
  BY <1>3, SettlementKeepsSlots DEF partyVars
<1>5. Inductive'
  BY <1>1, <1>3, <1>4, InductiveFromParts DEF Inductive, TypeOK, jobVars, partyVars, lockVars
<1>6. \A j \in Milestones: taxRecord'[j] = IF j = i THEN NoRecord ELSE taxRecord[j]
  BY <1>3, Zenon DEF TaxedInv, OnMilestones
<1>7. OnMilestones'
  BY <1>3, Zenon DEF TaxedInv, OnMilestones
<1>8. Live' = Live /\ \A j \in Milestones \ {i}: ms'[j] = ms[j]
  BY <1>1, <1>3 DEF jobVars, Live, SetMilestone, Inductive, TypeOK
<1>9. ASSUME NEW j \in Milestones PROVE RecordOK(j)'
  <2>1. CASE j = i
    BY <1>3, <1>6, <2>1 DEF TaxedInv, RecordsOK, RecordOK, NoRecord
  <2>2. CASE j # i
    BY <1>3, <1>6, <1>8, <2>2 DEF TaxedInv, RecordsOK, RecordOK, RecordCovers, IsTerminal, Remaining
  <2> QED
    BY <2>1, <2>2
<1>10. ASSUME ~stalePaid' PROVE Balanced'
  <2> DEFINE rest == Remaining(ms[i])
             m == Settled(ms[i], status, toward, rest)
  <2>1. ~stalePaid /\ g = rest
    BY <1>3, <1>10
  <2>2. SetMilestone(i, m) /\ PaidOut(ledger, ledger', rest) /\ UNCHANGED jobVars
    BY <1>3, <2>1
  <2>3. Balanced
    BY <2>1 DEF TaxedInv
  <2>4. PaidOn(ms[i], m)
    BY <1>1, ClosedPaid DEF Terminal
  <2>5. m \in {m, WithoutExtension(m), Closed(m)}
    OBVIOUS
  <2>6. OnlyPaid
    <3> HIDE DEF m
    <3> QED
      BY <1>1, <2>2, <2>4, OneRewritten
  <2>7. Paying
    BY <1>1, <1>5, <2>3, <2>6, PaidWithinKept DEF Paying, Balanced
  <2>8. CustodyMove
    BY <1>1, <2>2, <2>5, <2>7, ClosedSettles
  <2>9. JobTotal'
    BY <1>1, <1>5, <2>3, <2>6, WorthKept DEF Balanced, OnlyPaid, PaidOn
  <2>10. FundingConsistent'
    BY <1>1, <2>3, <2>6, FundingConsistentKept, OnlyPaidKeepsFunded DEF Balanced
  <2> QED
    BY <2>7, <2>8, <2>9, <2>10 DEF Balanced, CustodyMove, Paying
<1> QED
  BY <1>3, <1>5, <1>7, <1>9, <1>10 DEF TaxedInv, RecordsOK

LEMMA ReleaseSettledByRecord ==
    ASSUME TaxedInv, NEW i \in Milestones, AdminOverrideTaxRelease(i) PROVE TaxedInv'
<1>1. /\ TaxSettlable(i) /\ NetAmount(i) > 0 /\ SettleByRecord(i, "Released", Remaining(ms[i]))
      /\ \E l \in AfterPay(ledger, freelancer, NetAmount(i)): ledger' \in AfterTax(l, i)
  BY DEF AdminOverrideTaxRelease
<1>2. /\ taxRecord[i].gross \in Nat /\ taxRecord[i].tax \in Nat /\ NetAmount(i) \in Nat
      /\ NetAmount(i) + taxRecord[i].tax = taxRecord[i].gross
      /\ Remaining(ms[i]) \in Nat /\ Remaining(ms[i]) <= taxRecord[i].gross
      /\ ledger \in Ledger /\ freelancer \in Address
  BY <1>1, LiveSlot DEF TaxedInv, RecordsOK, RecordOK, RecordCovers, TaxSettlable, NetAmount,
     Inductive, TypeOK
<1>3. PaidOut(ledger, ledger', taxRecord[i].gross)
  BY <1>1, <1>2, PayPaysOut, TaxPaysOut
<1> QED
  BY <1>1, <1>2, <1>3, SettlementKeepsRecords DEF Terminal

LEMMA RefundSettledByRecord ==
    ASSUME TaxedInv, NEW i \in Milestones, AdminOverrideTaxRefund(i) PROVE TaxedInv'
<1>1. /\ TaxSettlable(i) /\ SettleByRecord(i, "Refunded", 0)
      /\ \E l \in AfterPayIfAny(ledger, Client, NetAmount(i)): ledger' \in AfterTax(l, i)
  BY DEF AdminOverrideTaxRefund, ClientNet
<1>2. /\ taxRecord[i].gross \in Nat /\ taxRecord[i].tax \in Nat /\ NetAmount(i) \in Nat
      /\ NetAmount(i) + taxRecord[i].tax = taxRecord[i].gross
      /\ ledger \in Ledger /\ Client \in Address
  BY <1>1, PartiesAssumption DEF TaxedInv, RecordsOK, RecordOK, RecordCovers, TaxSettlable,
     NetAmount, Inductive, TypeOK
<1>3. PaidOut(ledger, ledger', taxRecord[i].gross)
  BY <1>1, <1>2, LegPaysOut, TaxPaysOut
<1> QED
  BY <1>1, <1>2, <1>3, SettlementKeepsRecords DEF Terminal

LEMMA SplitSettledByRecord ==
    ASSUME TaxedInv, NEW i \in Milestones, NEW bps \in SplitBps,
           AdminOverrideTaxSplitRefund(i, bps)
    PROVE  TaxedInv'
<1> DEFINE gross == taxRecord[i].gross
           tax   == taxRecord[i].tax
           legs  == SplitWithheld(gross, tax, bps)
           c     == legs.client
           f     == legs.freelancer
<1>1. /\ TaxSettlable(i) /\ CanSplitWithheld(gross, tax, bps)
      /\ \E l \in AfterPayIfAny(ledger, Client, c):
            \E k \in AfterPayIfAny(l, freelancer, f): ledger' \in AfterTax(k, i)
      /\ SettleByRecord(i, IF f = 0 THEN "Refunded" ELSE "Released", c + f)
  BY DEF AdminOverrideTaxSplitRefund
<1>2. /\ gross \in Nat /\ tax \in Nat /\ tax <= gross
      /\ ledger \in Ledger /\ Client \in Address /\ freelancer \in Address
  BY <1>1, PartiesAssumption DEF TaxedInv, RecordsOK, RecordOK, RecordCovers, TaxSettlable,
     Inductive, TypeOK
<1>3. c \in Nat /\ f \in Nat /\ c + f = gross - tax
  <2>1. bps \in Nat
    BY <1>1 DEF CanSplitWithheld, BpsScale
  <2>2. c >= 0 /\ f >= 0 /\ c + f = gross - tax
    BY <1>1, <1>2, <2>1, WithheldPayable
  <2>3. c \in Int /\ f \in Int
    BY <1>2, <2>1 DEF SplitWithheld, SplitNearest, BpsScale
  <2> QED
    BY <2>2, <2>3
<1> HIDE DEF c, f, legs
<1>4. PICK l \in AfterPayIfAny(ledger, Client, c):
         \E r \in AfterPayIfAny(l, freelancer, f): ledger' \in AfterTax(r, i)
  BY <1>1
<1> PICK k \in AfterPayIfAny(l, freelancer, f): ledger' \in AfterTax(k, i)
  BY <1>4
<1>5. PaidOut(ledger, k, c + f)
  BY <1>2, <1>3, TwoLegs
<1>6. c + f \in Nat /\ c + f + tax = gross /\ c + f <= gross
  BY <1>2, <1>3
<1>7. PaidOut(ledger, ledger', gross)
  BY <1>1, <1>5, <1>6, TaxPaysOut
<1> QED
  BY <1>1, <1>6, <1>7, SettlementKeepsRecords DEF Terminal

LEMMA TaxedStep == TaxedInv /\ [(Next /\ UNCHANGED taxVars) \/ TaxNext]_allVars => TaxedInv'
<1> SUFFICES ASSUME TaxedInv, [(Next /\ UNCHANGED taxVars) \/ TaxNext]_allVars PROVE TaxedInv'
  OBVIOUS
<1>1. CASE (Next /\ UNCHANGED taxVars) \/ UNCHANGED allVars
  BY <1>1, EscrowKeepsRecords DEF allVars
<1>2. ASSUME NEW a \in TaxRecipients, SetTaxRecipient(a) PROVE TaxedInv'
  <2>1. /\ UNCHANGED <<vars, capturedFor, taxRecord, stalePaid>>
        /\ taxRecipient' \subseteq Address
    BY <1>2, TaxAssumption DEF SetTaxRecipient
  <2> DEFINE others == OnMilestones /\ Inductive /\ (\A i \in Milestones: RecordOK(i))
                         /\ (~stalePaid => Balanced)
  <2>2. others'
    <3>1. Inductive'
      BY <2>1, NextInductive DEF TaxedInv
    <3>2. OnMilestones'
      BY <2>1 DEF TaxedInv, OnMilestones
    <3>3. ASSUME NEW i \in Milestones PROVE RecordOK(i)'
      BY <2>1 DEF TaxedInv, RecordsOK, RecordOK, RecordCovers, vars, jobVars, Live,
         IsTerminal, Remaining
    <3>4. ASSUME ~stalePaid' PROVE Balanced'
      <4>1. Accounts
        BY <2>1, <3>4 DEF TaxedInv, Balanced, Accounts
      <4>2. Solvent' /\ JobTotal' /\ PaidWithinAmount'
        BY <2>1, <4>1, AccountsStep, PaidWithinStep DEF CustodyMove, Accounts
      <4>3. FundingConsistent'
        BY <2>1, <4>1, FundingConsistentStep, FundingConsistentKept, OthersOnlyPay,
           OnlyPaidKeepsFunded DEF Accounts
      <4> QED
        BY <4>2, <4>3 DEF Balanced
    <3> QED
      BY <3>1, <3>2, <3>3, <3>4
  <2> QED
    BY <2>1, <2>2 DEF TaxedInv, RecordsOK
<1>3. ASSUME NEW i \in Milestones, NEW rate \in TaxRates, TaxWithholdingDeductions(i, rate)
      PROVE  TaxedInv'
  BY <1>3, WithholdingKeepsRecords
<1>4. CASE TaxSettlement
  BY <1>4, ReleaseSettledByRecord, RefundSettledByRecord, SplitSettledByRecord DEF TaxSettlement
<1> QED
  BY <1>1, <1>2, <1>3, <1>4 DEF TaxNext

LEMMA TaxedStart == TaxInit => TaxedInv
<1> SUFFICES ASSUME TaxInit PROVE TaxedInv
  OBVIOUS
<1>1. OnMilestones
  BY NothingPromisedYet DEF TaxInv
<1>2. Inductive /\ Balanced
  BY InitInductive, NothingFundedYet, NothingPaidYet, AccountsInit DEF TaxInit, Balanced
<1>3. RecordsOK
  BY DEF TaxInit, RecordsOK, RecordOK, NoRecord
<1> QED
  BY <1>1, <1>2, <1>3 DEF TaxedInv

LEMMA TaxedInvariant == TaxedSpec => []TaxedInv
  BY TaxedStart, TaxedStep, PTL DEF TaxedSpec

\* With withholding as without it, a closed milestone has paid its whole amount
\* (SettledInFull): a reduction, a partial approval or a stream after the withholding
\* leaves the record too large, and nothing makes it too small.
THEOREM NothingStranded == TaxedSpec => []SettledInFull
<1>1. ASSUME TaxedInv PROVE SettledInFull
  <2> SUFFICES ASSUME NEW i \in Live, IsTerminal(ms[i]) PROVE ms[i].paid >= ms[i].amount
    BY DEF SettledInFull
  <2>1. ms[i] \in Milestone /\ ms[i].amount <= ms[i].paid
    BY <1>1, LiveSlot DEF TaxedInv, Good, PotCovered
  <2> QED
    BY <2>1 DEF Milestone
<1> QED
  BY <1>1, TaxedInvariant, PTL

\* As long as no record was settled after its milestone had moved on, every milestone
\* is conserved and the contract solvent (OnlyStaleRecordsOverpay): the overpayment
\* that the stale record allows is the only way the money can go wrong.
THEOREM OnlyTheStaleOverpay == TaxedSpec => []OnlyStaleRecordsOverpay
<1>1. ASSUME TaxedInv, ~stalePaid PROVE Conservation /\ Solvent
  <2>1. Balanced /\ Inductive
    BY <1>1 DEF TaxedInv
  <2>2. ASSUME NEW i \in Live PROVE PotConserved(ms[i])
    <3>1. ms[i] \in Milestone /\ PotCovered(ms[i]) /\ ms[i].paid <= ms[i].amount
      BY <2>1, LiveSlot DEF Good, Balanced, PaidWithinAmount
    <3> QED
      BY <3>1 DEF PotCovered, PotConserved, Milestone
  <2> QED
    BY <2>1, <2>2 DEF Conservation, Balanced
<1>2. TaxedInv => OnlyStaleRecordsOverpay
  BY <1>1 DEF OnlyStaleRecordsOverpay
<1> QED
  BY <1>2, TaxedInvariant, PTL

\* The settlements by record do not reopen what is closed either (TerminalIsFinal):
\* they ask for an open milestone, which holds when the same record is settled twice
\* and when the milestone was closed by another call in between.
THEOREM ClosedForGoodWithTax == TaxedSpec => TerminalIsFinal
<1> DEFINE Final == \A i \in Live: IsTerminal(ms[i]) =>
              /\ ms'[i].status = ms[i].status /\ ms'[i].paid = ms[i].paid
              /\ ms'[i].amount = ms[i].amount
<1>1. ASSUME TaxedInv, [(Next /\ UNCHANGED taxVars) \/ TaxNext]_allVars PROVE [Final]_vars
  <2>1. Inductive
    BY <1>1 DEF TaxedInv
  <2>2. CASE Next
    BY <2>1, <2>2, NextMoves DEF Moved, Still, PartiesMove, StreamMove, BackToReview,
       ArbiterMove, AdminMove, IsTerminal, Terminal, InReview
  <2>3. CASE UNCHANGED vars
    BY <2>3
  <2>4. ASSUME NEW j \in Milestones, NEW m, SetMilestone(j, m), ~IsTerminal(ms[j]) PROVE Final
    <3> SUFFICES ASSUME NEW i \in Live, IsTerminal(ms[i])
                 PROVE  /\ ms'[i].status = ms[i].status /\ ms'[i].paid = ms[i].paid
                        /\ ms'[i].amount = ms[i].amount
      OBVIOUS
    <3>1. i \in Milestones /\ i # j
      BY <2>1, <2>4, LiveSlot
    <3> QED
      BY <2>1, <2>4, <3>1, OthersStill DEF Still
  <2>5. CASE TaxSettlement
    <3>1. PICK j \in Milestones: TaxSettlable(j) /\ \E m: SetMilestone(j, m)
      BY <2>5 DEF TaxSettlement, AdminOverrideTaxRelease, AdminOverrideTaxRefund,
         AdminOverrideTaxSplitRefund, SettleByRecord
    <3> QED
      BY <2>4, <3>1 DEF TaxSettlable
  <2>6. TaxNext => UNCHANGED vars \/ TaxSettlement
    BY DEF TaxNext, SetTaxRecipient, TaxWithholdingDeductions
  <2> QED
    BY <1>1, <2>2, <2>3, <2>5, <2>6 DEF allVars
<1> QED
  BY <1>1, TaxedInvariant, PTL DEF TaxedSpec, TerminalIsFinal
=============================================================================
