------------------------- MODULE MilestoneEscrowProofs -------------------------
(***************************************************************************)
(* For every number of milestones, every amount, fee and time window, and  *)
(* every order of calls: the types, and slot by slot what no single        *)
(* property is preserved without.                                          *)
(***************************************************************************)
EXTENDS MilestoneEscrow, EscrowMathProofs

-----------------------------------------------------------------------------
(***************************************************************************)
(* Milestones as records: what each way of changing one preserves.         *)
(***************************************************************************)
\* The fields a payment writes, and the ones it leaves.
LEMMA SettledFields ==
    ASSUME NEW m \in Milestone, NEW status \in MilestoneStatus,
           NEW toward \in Nat, NEW amt \in Nat
    PROVE  /\ Settled(m, status, toward, amt) \in Milestone
           /\ Settled(m, status, toward, amt).status = status
           /\ Settled(m, status, toward, amt).released = m.released + toward
           /\ Settled(m, status, toward, amt).paid = m.paid + amt
           /\ Settled(m, status, toward, amt).amount = m.amount
           /\ Settled(m, status, toward, amt).funded = m.funded
           /\ Settled(m, status, toward, amt).dispute = m.dispute
           /\ Settled(m, status, toward, amt).extension = m.extension
<1> DEFINE a == [m EXCEPT !.status = status]
           b == [a EXCEPT !.released = @ + toward]
           c == [b EXCEPT !.paid = @ + amt]
<1>1. /\ a \in Milestone /\ a.status = status /\ a.released = m.released /\ a.paid = m.paid
      /\ a.amount = m.amount /\ a.funded = m.funded
      /\ a.dispute = m.dispute /\ a.extension = m.extension
  BY DEF Milestone
<1> HIDE DEF a
<1>2. /\ b \in Milestone /\ b.status = status /\ b.released = m.released + toward
      /\ b.paid = m.paid /\ b.amount = m.amount /\ b.funded = m.funded
      /\ b.dispute = m.dispute /\ b.extension = m.extension
  BY <1>1 DEF Milestone
<1> HIDE DEF b
<1>3. /\ c \in Milestone /\ c.status = status /\ c.released = m.released + toward
      /\ c.paid = m.paid + amt /\ c.amount = m.amount /\ c.funded = m.funded
      /\ c.dispute = m.dispute /\ c.extension = m.extension
  BY <1>2 DEF Milestone
<1>4. Settled(m, status, toward, amt) = c
  BY DEF Settled, a, b
<1> QED BY <1>3, <1>4

\* Closing a milestone pays all that was left, whatever part of it counts as
\* released to the freelancer.
LEMMA SettledGood ==
    ASSUME NEW m, Good(m), ~IsTerminal(m),
           NEW status \in Terminal, NEW toward \in Nat, toward <= Remaining(m)
    PROVE  LET r == Settled(m, status, toward, Remaining(m))
           IN  /\ Good(r) /\ IsTerminal(r)
               /\ r.amount = m.amount /\ r.funded = m.funded /\ r.status = status
<1> DEFINE r == Settled(m, status, toward, Remaining(m))
<1>1. m \in Milestone /\ m.amount \in Nat /\ m.released \in Nat /\ m.paid = m.released
      /\ m.released <= m.amount
  BY DEF Good, PotCovered, Milestone
<1>2. toward \in Nat /\ m.released + toward <= m.amount /\ m.paid + Remaining(m) = m.amount
  BY <1>1 DEF Remaining
<1>3. status \in MilestoneStatus
  BY DEF Terminal, MilestoneStatus
<1>4. /\ r \in Milestone /\ r.status = status /\ r.released = m.released + toward
      /\ r.paid = m.amount /\ r.amount = m.amount /\ r.funded = m.funded
  <2> DEFINE rest == Remaining(m)
  <2>1. rest \in Nat /\ m.paid + rest = m.amount
    BY <1>1 DEF Remaining
  <2> HIDE DEF rest
  <2>2. m \in Milestone /\ status \in MilestoneStatus /\ toward \in Nat /\ rest \in Nat
    BY <1>1, <1>2, <1>3, <2>1
  <2>3. /\ Settled(m, status, toward, rest) \in Milestone
        /\ Settled(m, status, toward, rest).status = status
        /\ Settled(m, status, toward, rest).released = m.released + toward
        /\ Settled(m, status, toward, rest).paid = m.paid + rest
        /\ Settled(m, status, toward, rest).amount = m.amount
        /\ Settled(m, status, toward, rest).funded = m.funded
    BY <2>2, SettledFields
  <2> QED BY <2>1, <2>3 DEF rest
<1> HIDE DEF r
<1>5. IsTerminal(r)
  BY <1>4 DEF IsTerminal
<1>6. PotCovered(r) /\ UntouchedBeforePartial(r) /\ DisputeRecorded(r)
  BY <1>1, <1>2, <1>4, <1>5 DEF PotCovered, UntouchedBeforePartial, DisputeRecorded, Terminal
<1>7. /\ Good(r) /\ IsTerminal(r)
      /\ r.amount = m.amount /\ r.funded = m.funded /\ r.status = status
  BY <1>4, <1>5, <1>6 DEF Good
<1> QED BY <1>7 DEF r

\* A payment on account leaves the milestone open and partially released.
LEMMA PartlyPaidGood ==
    ASSUME NEW m, Good(m), m.status \in InReview, NEW amt \in Nat, amt <= Remaining(m)
    PROVE  LET r == Settled(m, "PartiallyReleased", amt, amt)
           IN  /\ Good(r) /\ r.amount = m.amount /\ r.funded = m.funded
               /\ r.status = "PartiallyReleased"
<1> DEFINE r == Settled(m, "PartiallyReleased", amt, amt)
<1>0. ~IsTerminal(m) /\ m.status # "Disputed"
  BY DEF InReview, IsTerminal, Terminal
<1>1. m \in Milestone /\ m.amount \in Nat /\ m.released \in Nat /\ m.paid = m.released
      /\ m.released <= m.amount /\ ~m.dispute.open
  BY <1>0 DEF Good, PotCovered, DisputeRecorded, Milestone, DisputeInfo
<1>2. amt \in Nat /\ m.released + amt <= m.amount
  BY <1>1 DEF Remaining
<1>3. "PartiallyReleased" \in MilestoneStatus
  BY DEF MilestoneStatus
<1>4. /\ r \in Milestone /\ r.status = "PartiallyReleased" /\ r.released = m.released + amt
      /\ r.paid = m.released + amt /\ r.amount = m.amount /\ r.funded = m.funded
      /\ r.dispute = m.dispute
  <2> DEFINE st == "PartiallyReleased"
  <2>1. st \in MilestoneStatus /\ r = Settled(m, st, amt, amt)
    BY <1>3
  <2> HIDE DEF st, r
  <2>2. /\ Settled(m, st, amt, amt) \in Milestone /\ Settled(m, st, amt, amt).status = st
        /\ Settled(m, st, amt, amt).released = m.released + amt
        /\ Settled(m, st, amt, amt).paid = m.paid + amt
        /\ Settled(m, st, amt, amt).amount = m.amount
        /\ Settled(m, st, amt, amt).funded = m.funded
        /\ Settled(m, st, amt, amt).dispute = m.dispute
    <3>1. m \in Milestone /\ amt \in Nat /\ st \in MilestoneStatus
      BY <1>1, <1>2, <2>1
    <3> QED BY ONLY <3>1, SettledFields
  <2> QED BY <1>1, <2>1, <2>2 DEF st
<1> HIDE DEF r
<1>5. PotCovered(r) /\ UntouchedBeforePartial(r) /\ DisputeRecorded(r)
  BY <1>1, <1>2, <1>4
     DEF PotCovered, UntouchedBeforePartial, DisputeRecorded, Terminal, IsTerminal
<1>6. Good(r) /\ r.amount = m.amount /\ r.funded = m.funded /\ r.status = "PartiallyReleased"
  BY <1>4, <1>5 DEF Good
<1> QED BY <1>6 DEF r

\* Dropping the extension is harmless.
LEMMA WithoutExtensionGood ==
    ASSUME NEW m, Good(m)
    PROVE  LET r == WithoutExtension(m)
           IN  /\ Good(r) /\ r.amount = m.amount /\ r.funded = m.funded
               /\ r.status = m.status /\ r.extension = 0
BY DEF Good, Milestone, MilestoneStatus, PotCovered, UntouchedBeforePartial, DisputeRecorded,
       IsTerminal, Terminal, WithoutExtension, InReview

\* Dropping the dispute record is harmless once the milestone is closed.
LEMMA ClosedGood ==
    ASSUME NEW m, Good(m), IsTerminal(m)
    PROVE  LET r == Closed(m)
           IN  /\ Good(r) /\ r.amount = m.amount /\ r.funded = m.funded
               /\ r.status = m.status
<1> DEFINE d == WithoutDispute(m)
<1>1. NoDispute \in DisputeInfo
  BY TimeAssumption DEF NoDispute, DisputeInfo, MilestoneStatus
<1>2. /\ d \in Milestone /\ d.status = m.status /\ d.amount = m.amount /\ d.funded = m.funded
      /\ d.paid = m.paid /\ d.released = m.released
  BY <1>1 DEF Good, Milestone, WithoutDispute
<1> HIDE DEF d
<1>3. Good(d)
  BY <1>2 DEF Good, PotCovered, UntouchedBeforePartial, DisputeRecorded, IsTerminal, Terminal
<1>4. /\ Good(WithoutExtension(d)) /\ WithoutExtension(d).amount = m.amount
      /\ WithoutExtension(d).funded = m.funded /\ WithoutExtension(d).status = m.status
  BY <1>2, <1>3, WithoutExtensionGood
<1> QED BY <1>4 DEF Closed, d

\* The three ways the entry points leave a milestone they close.
LEMMA ClosingGood ==
    ASSUME NEW n, Good(n), ~IsTerminal(n),
           NEW status \in Terminal, NEW toward \in Nat, toward <= Remaining(n),
           NEW m \in {Settled(n, status, toward, Remaining(n)),
                      WithoutExtension(Settled(n, status, toward, Remaining(n))),
                      Closed(Settled(n, status, toward, Remaining(n)))}
    PROVE  Good(m) /\ m.amount = n.amount /\ m.funded = n.funded /\ m.status = status
<1> DEFINE r == Settled(n, status, toward, Remaining(n))
<1>1. /\ Good(r) /\ IsTerminal(r) /\ r.amount = n.amount /\ r.funded = n.funded
      /\ r.status = status
  BY SettledGood
<1> HIDE DEF r
<1>2. m \in {r, WithoutExtension(r), Closed(r)}
  BY DEF r
<1> QED BY <1>1, <1>2, WithoutExtensionGood, ClosedGood

-----------------------------------------------------------------------------
(***************************************************************************)
(* Steps: one milestone is replaced, several are settled, or none changes. *)
(***************************************************************************)
SlotsOK == ms \in [Milestones -> Milestone] /\ \A i \in Milestones: SlotOK(i)

\* Nothing that the slots depend on changes.
LEMMA SlotsUnchanged ==
    ASSUME Inductive, UNCHANGED <<ms, jobVars, acceptance>>
    PROVE  SlotsOK'
BY DEF Inductive, TypeOK, SlotsOK, SlotOK, Live, Accepted, MilestoneFunded, jobVars

\* What the invariant says of a milestone in use.
LEMMA LiveSlot ==
    ASSUME Inductive
    PROVE  /\ Live \subseteq Milestones /\ Open \subseteq Live
           /\ \A i \in Live: /\ Good(ms[i]) /\ ms[i].amount > 0 /\ ms[i] \in Milestone
                             /\ ~IsTerminal(ms[i]) => Remaining(ms[i]) \in Nat
<1>1. Live \subseteq Milestones /\ Open \subseteq Live
  BY JobAssumption DEF Inductive, TypeOK, Open, Live, Milestones
<1>2. ASSUME NEW i \in Live
      PROVE  /\ Good(ms[i]) /\ ms[i].amount > 0 /\ ms[i] \in Milestone
             /\ ~IsTerminal(ms[i]) => Remaining(ms[i]) \in Nat
  <2>1. Good(ms[i]) /\ ms[i].amount > 0
    BY <1>1 DEF Inductive, SlotOK
  <2>2. /\ ms[i] \in Milestone /\ ms[i].amount \in Nat /\ ms[i].released \in Nat
        /\ ms[i].paid \in Nat
        /\ ~IsTerminal(ms[i]) => ms[i].released = ms[i].paid /\ ms[i].paid <= ms[i].amount
    BY <2>1 DEF Good, PotCovered, Milestone
  <2> QED BY <2>1, <2>2 DEF Remaining
<1> QED BY <1>1, <1>2

\* One milestone is replaced by a good one of the same size.
LEMMA SlotReplaced ==
    ASSUME Inductive, NEW i \in Milestones, i \in Live, NEW m, SetMilestone(i, m),
           Good(m), m.amount > 0, m.funded = ms[i].funded,
           m.status = "Pending" => m.extension = 0,
           m.status \in InReview \cup {"Disputed"} => Accepted,
           m.status # "Pending" => MilestoneFunded(i),
           UNCHANGED <<jobVars, acceptance>>
    PROVE  SlotsOK'
<1>1. ms \in [Milestones -> Milestone] /\ m \in Milestone /\ ms' = [ms EXCEPT ![i] = m]
  BY DEF Inductive, TypeOK, Good, SetMilestone
<1>2. ms' \in [Milestones -> Milestone] /\ ms'[i] = m
      /\ \A j \in Milestones \ {i}: ms'[j] = ms[j]
  BY <1>1
<1>3. \A j \in Milestones: MilestoneFunded(j)' <=> MilestoneFunded(j)
  BY <1>2 DEF MilestoneFunded, jobVars
<1>4. Live' = Live /\ Accepted' = Accepted
  BY DEF Live, Accepted, jobVars
<1>5. ASSUME NEW j \in Milestones PROVE SlotOK(j)'
  <2>1. CASE j = i
    BY <1>2, <1>3, <1>4, <2>1 DEF SlotOK
  <2>2. CASE j # i
    BY <1>2, <1>3, <1>4, <2>2 DEF SlotOK, Inductive
  <2> QED BY <2>1, <2>2
<1> QED BY <1>2, <1>5 DEF SlotsOK

\* One funded milestone is closed: all that was left of it is paid.
LEMMA SlotClosed ==
    ASSUME Inductive, NEW i \in Milestones, i \in Live, ~IsTerminal(ms[i]), MilestoneFunded(i),
           NEW status \in Terminal, NEW toward \in Nat, toward <= Remaining(ms[i]),
           NEW m \in {Settled(ms[i], status, toward, Remaining(ms[i])),
                      WithoutExtension(Settled(ms[i], status, toward, Remaining(ms[i]))),
                      Closed(Settled(ms[i], status, toward, Remaining(ms[i])))},
           SetMilestone(i, m), UNCHANGED <<jobVars, acceptance>>
    PROVE  SlotsOK'
<1>1. Good(ms[i]) /\ ms[i].amount > 0
  BY DEF Inductive, SlotOK
<1>2. Good(m) /\ m.amount = ms[i].amount /\ m.funded = ms[i].funded /\ m.status = status
  BY <1>1, ClosingGood
<1>3. status \notin {"Pending", "Disputed"} \cup InReview
  BY DEF Terminal, InReview
<1> QED BY <1>1, <1>2, <1>3, SlotReplaced DEF InReview

\* Several funded milestones are closed by one call.
LEMMA SlotsClosed ==
    ASSUME Inductive, NEW S, S \subseteq Open, \A i \in S: MilestoneFunded(i),
           NEW status \in Terminal, NEW f,
           ms' = [i \in Milestones |-> IF i \in S THEN f[i] ELSE ms[i]],
           \A i \in S: \E toward \in Nat:
              /\ toward <= Remaining(ms[i])
              /\ f[i] \in {Settled(ms[i], status, toward, Remaining(ms[i])),
                           WithoutExtension(Settled(ms[i], status, toward, Remaining(ms[i])))},
           UNCHANGED <<jobVars, acceptance>>
    PROVE  SlotsOK'
<1>1. S \subseteq Milestones /\ S \subseteq Live /\ \A i \in S: ~IsTerminal(ms[i])
  BY JobAssumption DEF Open, Live, Milestones, Inductive, TypeOK
<1>2. ASSUME NEW i \in S
      PROVE  /\ Good(f[i]) /\ f[i].amount = ms[i].amount /\ f[i].funded = ms[i].funded
             /\ f[i].status = status
  <2>1. Good(ms[i])
    BY <1>1 DEF Inductive, SlotOK
  <2>2. PICK toward \in Nat:
              /\ toward <= Remaining(ms[i])
              /\ f[i] \in {Settled(ms[i], status, toward, Remaining(ms[i])),
                           WithoutExtension(Settled(ms[i], status, toward, Remaining(ms[i])))}
    OBVIOUS
  <2> QED BY <1>1, <2>1, <2>2, ClosingGood
<1>3. ms' \in [Milestones -> Milestone]
  BY <1>2 DEF Inductive, TypeOK, Good
<1>4. \A j \in Milestones: MilestoneFunded(j)' <=> MilestoneFunded(j)
  BY <1>2 DEF MilestoneFunded, jobVars
<1>5. Live' = Live /\ Accepted' = Accepted
  BY DEF Live, Accepted, jobVars
<1>6. status \notin {"Pending", "Disputed"} \cup InReview
  BY DEF Terminal, InReview
<1>7. ASSUME NEW j \in Milestones PROVE SlotOK(j)'
  <2>1. CASE j \in S
    <3>1. SlotOK(j) /\ ms'[j] = f[j]
      BY <2>1 DEF Inductive
    <3> QED BY <1>1, <1>2, <1>4, <1>5, <1>6, <2>1, <3>1 DEF SlotOK
  <2>2. CASE j \notin S
    <3>1. SlotOK(j) /\ ms'[j] = ms[j]
      BY <2>2 DEF Inductive
    <3> QED BY <1>4, <1>5, <3>1 DEF SlotOK
  <2> QED BY <2>1, <2>2
<1> QED BY <1>3, <1>7 DEF SlotsOK

-----------------------------------------------------------------------------
(***************************************************************************)
(* Payments keep the ledger well formed.                                   *)
(***************************************************************************)
LEMMA PayTyped ==
    ASSUME NEW l \in Ledger, NEW to \in Address, NEW amt \in Nat, NEW r \in AfterPay(l, to, amt)
    PROVE  r \in Ledger
<1>1. CASE r = Transferred(l, amt) /\ amt <= l.balance
  <2>1. l.balance - amt \in Nat
    BY <1>1 DEF Ledger
  <2> QED BY <1>1, <2>1 DEF Transferred, Ledger
<1>2. CASE r = Credited(l, to, amt)
  <2> DEFINE c == [l EXCEPT !.owed[to] = @ + amt]
  <2>1. l.owed[to] + amt \in Nat /\ l.totalOwed + amt \in Int
    BY DEF Ledger
  <2>2. c \in Ledger /\ c.totalOwed = l.totalOwed
    BY <2>1 DEF Ledger
  <2>3. r = [c EXCEPT !.totalOwed = @ + amt]
    BY <1>2 DEF Credited
  <2> HIDE DEF c
  <2> QED BY <2>1, <2>2, <2>3 DEF Ledger
<1> QED BY <1>1, <1>2 DEF AfterPay

LEMMA PayIfAnyTyped ==
    ASSUME NEW l \in Ledger, NEW to \in Address, NEW amt \in Nat,
           NEW r \in AfterPayIfAny(l, to, amt)
    PROVE  r \in Ledger
BY PayTyped DEF AfterPayIfAny

LEMMA DepositTyped ==
    ASSUME Inductive, NEW amt \in Nat
    PROVE  Deposited(amt) \in Ledger
BY DEF Inductive, TypeOK, Deposited, Ledger

-----------------------------------------------------------------------------
(***************************************************************************)
(* Every entry point preserves the inductive invariant.                    *)
(***************************************************************************)
\* What is left to show once the slots and the ledger are known to be well formed.
LEMMA InductiveFromParts ==
    ASSUME Inductive, SlotsOK', ledger' \in Ledger, now' \in Nat,
           fundingMode' = fundingMode, funded' \in BOOLEAN, fundedAt' \in Nat,
           acceptance' \subseteq {"freelancer", "arbiter"},
           freelancer' \in Address, arbiter' \in Address,
           totalAmount' \in Int, count' \in 1..MaxMilestones,
           yieldAccrued' \in Nat, reputation' \in [Address -> Nat],
           UNCHANGED pauseVars, cancelApproval' \in CancelApproval,
           cancelLock' \in BOOLEAN, multisigLocked' \in BOOLEAN
    PROVE  Inductive'
BY DEF Inductive, TypeOK, SlotsOK, pauseVars

LEMMA FundingStep == ASSUME Inductive, FundingNext PROVE Inductive'
<1>1. ASSUME Fund PROVE Inductive'
  <2>1. SlotsOK'
    BY <1>1 DEF Fund, Inductive, TypeOK, SlotsOK, SlotOK, Live, Accepted, MilestoneFunded, partyVars
  <2>2. ledger' \in Ledger
    BY <1>1, DepositTyped DEF Fund, Inductive, TypeOK
  <2> QED BY <1>1, <2>1, <2>2, InductiveFromParts DEF Fund, Inductive, TypeOK, partyVars, pauseVars, lockVars
<1>2. ASSUME NEW i \in Milestones, FundMilestone(i) PROVE Inductive'
  <2> DEFINE m == [ms[i] EXCEPT !.funded = TRUE]
  <2>1. Good(ms[i]) /\ ms[i] \in Milestone /\ i \in Live
    BY <1>2 DEF FundMilestone, Inductive, SlotOK, TypeOK
  <2>2. /\ m \in Milestone /\ m.amount = ms[i].amount /\ m.status = ms[i].status
        /\ m.released = ms[i].released /\ m.paid = ms[i].paid /\ m.dispute = ms[i].dispute
        /\ m.extension = ms[i].extension /\ m.funded
    BY <2>1 DEF Milestone
  <2>3. ms' = [ms EXCEPT ![i] = m]
    BY <1>2 DEF FundMilestone, SetMilestone
  <2> HIDE DEF m
  <2>4. Good(m)
    BY <2>1, <2>2 DEF Good, PotCovered, UntouchedBeforePartial, DisputeRecorded, IsTerminal
  <2>5. \A j \in Milestones: MilestoneFunded(j) => MilestoneFunded(j)'
    BY <1>2, <2>1, <2>2, <2>3 DEF FundMilestone, MilestoneFunded, Inductive, TypeOK
  <2>6. Live' = Live /\ Accepted' = Accepted
    BY <1>2 DEF FundMilestone, Live, Accepted, partyVars
  <2>7. SlotsOK'
    <3>1. ms' \in [Milestones -> Milestone] /\ ms'[i] = m
          /\ \A j \in Milestones \ {i}: ms'[j] = ms[j]
      BY <2>2, <2>3 DEF Inductive, TypeOK
    <3>2. ASSUME NEW j \in Milestones PROVE SlotOK(j)'
      <4>1. CASE j = i
        BY <2>1, <2>2, <2>4, <2>5, <2>6, <3>1, <4>1 DEF SlotOK, Inductive
      <4>2. CASE j # i
        BY <2>5, <2>6, <3>1, <4>2 DEF SlotOK, Inductive
      <4> QED BY <4>1, <4>2
    <3> QED BY <3>1, <3>2 DEF SlotsOK
  <2>8. ledger' \in Ledger
    BY <1>2, <2>1, DepositTyped DEF FundMilestone, Milestone
  <2> QED BY <1>2, <2>7, <2>8, InductiveFromParts
          DEF FundMilestone, Inductive, TypeOK, partyVars, pauseVars, lockVars
<1>3. ASSUME NEW amt \in Amounts, AddMilestone(amt) PROVE Inductive'
  <2> DEFINE m == NewMilestone(amt, TRUE)
  <2>1. amt \in Nat \ {0} /\ count \in Milestones /\ count \notin Live /\ count' = count + 1
        /\ count \in 1..MaxMilestones /\ count' \in 1..MaxMilestones
    BY <1>3, JobAssumption DEF AddMilestone, Live, Milestones, Inductive, TypeOK
  <2>2. /\ m \in Milestone /\ m.amount = amt /\ m.status = "Pending" /\ m.released = 0
        /\ m.paid = 0 /\ m.dispute = NoDispute /\ m.extension = 0 /\ m.funded
    BY <2>1, TimeAssumption
       DEF NewMilestone, Milestone, MilestoneStatus, NoDispute, DisputeInfo
  <2>3. ms' = [ms EXCEPT ![count] = m]
    BY <1>3 DEF AddMilestone, SetMilestone
  <2> HIDE DEF m
  <2>4. Good(m)
    BY <2>1, <2>2 DEF Good, PotCovered, UntouchedBeforePartial, DisputeRecorded, IsTerminal,
                      Terminal, NoDispute
  <2>5. ms' \in [Milestones -> Milestone] /\ ms'[count] = m
        /\ \A j \in Milestones \ {count}: ms'[j] = ms[j]
    BY <2>1, <2>2, <2>3 DEF Inductive, TypeOK
  <2>6. \A j \in Milestones: j \in Live' <=> j \in Live \/ j = count
    BY <2>1 DEF Live, Milestones
  <2>7. Accepted' = Accepted /\ \A j \in Milestones: MilestoneFunded(j)'
    BY <1>3 DEF AddMilestone, Accepted, partyVars, MilestoneFunded
  <2>8. ASSUME NEW j \in Milestones PROVE SlotOK(j)'
    <3>1. CASE j = count
      <4>1. m.amount > 0 /\ "Pending" \notin InReview \cup {"Disputed"}
        BY <2>1, <2>2 DEF InReview
      <4> QED BY <2>2, <2>4, <2>5, <2>6, <2>7, <3>1, <4>1 DEF SlotOK
    <3>2. CASE j # count
      BY <2>5, <2>6, <2>7, <3>2 DEF SlotOK, Inductive
    <3> QED BY <3>1, <3>2
  <2>9. ledger' \in Ledger
    BY <1>3, <2>1, DepositTyped DEF AddMilestone
  <2>10. SlotsOK'
    BY <2>5, <2>8 DEF SlotsOK
  <2> QED BY <1>3, <2>1, <2>9, <2>10, InductiveFromParts
          DEF AddMilestone, Inductive, TypeOK, partyVars, pauseVars, lockVars
<1>4. ASSUME NEW i \in Milestones, NEW amt \in Amounts, ReduceMilestone(i, amt) PROVE Inductive'
  <2> DEFINE m == [ms[i] EXCEPT !.amount = amt]
  <2>1. /\ Good(ms[i]) /\ ms[i] \in Milestone /\ i \in Live /\ ms[i].status = "Pending"
        /\ ms[i].extension = 0 /\ amt \in Nat \ {0} /\ amt < ms[i].amount
    BY <1>4, JobAssumption DEF ReduceMilestone, CanReduce, ReduceTotal, Inductive, SlotOK, TypeOK
  <2>2. /\ m \in Milestone /\ m.amount = amt /\ m.status = "Pending"
        /\ m.released = ms[i].released /\ m.paid = ms[i].paid /\ m.dispute = ms[i].dispute
        /\ m.extension = 0 /\ m.funded = ms[i].funded
    BY <2>1 DEF Milestone
  <2>3. SetMilestone(i, m)
    BY <1>4 DEF ReduceMilestone, CanReduce, ReduceTotal
  <2> HIDE DEF m
  <2>4. Good(m)
    BY <2>1, <2>2 DEF Good, PotCovered, UntouchedBeforePartial, DisputeRecorded, IsTerminal,
                      Terminal
  <2>5. SlotsOK'
    <3>1. ms \in [Milestones -> Milestone]
      BY DEF Inductive, TypeOK
    <3>2. ms' \in [Milestones -> Milestone] /\ ms'[i] = m
          /\ \A j \in Milestones \ {i}: ms'[j] = ms[j]
      BY <2>2, <2>3, <3>1 DEF SetMilestone
    <3>3. Live' = Live /\ Accepted' = Accepted
          /\ \A j \in Milestones: MilestoneFunded(j)' <=> MilestoneFunded(j)
      BY <1>4, <2>2, <3>2 DEF ReduceMilestone, CanReduce, ReduceTotal, Live, Accepted, MilestoneFunded, partyVars
    <3>4. ASSUME NEW j \in Milestones PROVE SlotOK(j)'
      <4>1. CASE j = i
        <5>1. m.amount > 0 /\ "Pending" \notin InReview \cup {"Disputed"}
          BY <2>1, <2>2 DEF InReview
        <5> QED BY <2>1, <2>2, <2>4, <3>2, <3>3, <4>1, <5>1 DEF SlotOK
      <4>2. CASE j # i
        BY <3>2, <3>3, <4>2 DEF SlotOK, Inductive
      <4> QED BY <4>1, <4>2
    <3> QED BY <3>2, <3>4 DEF SlotsOK
  <2>6. ms[i].amount - amt \in Nat
    BY <2>1 DEF Milestone
  <2>7. ledger' \in Ledger
    BY <1>4, <2>6, PayTyped, PartiesAssumption DEF ReduceMilestone, CanReduce, ReduceTotal, PayOrCredit, Inductive, TypeOK
  <2> QED BY <1>4, <2>5, <2>6, <2>7, InductiveFromParts
          DEF ReduceMilestone, CanReduce, ReduceTotal, Inductive, TypeOK, partyVars, pauseVars, lockVars
<1>5. ASSUME NEW due \in [Milestones -> DueDates], SetDueDates(due) PROVE Inductive'
  <2>1. ms \in [Milestones -> Milestone] /\ \A i \in Milestones: due[i] \in Nat
    BY DueDatesAssumption DEF Inductive, TypeOK
  <2>2. Live' = Live /\ Accepted' = Accepted
    BY <1>5 DEF SetDueDates, Live, Accepted, jobVars, partyVars
  <2>3. ASSUME NEW i \in Milestones PROVE SlotOK(i)' /\ ms'[i] \in Milestone
    <3>1. CASE i \in Live
      <4> DEFINE m == [ms[i] EXCEPT !.dueAt = due[i]]
      <4>1. Good(ms[i]) /\ ms[i] \in Milestone /\ SlotOK(i)
        BY <2>1, <3>1 DEF Inductive, SlotOK
      <4>2. ms'[i] = m
        BY <1>5, <3>1 DEF SetDueDates
      <4>3. /\ m \in Milestone /\ m.amount = ms[i].amount /\ m.status = ms[i].status
            /\ m.released = ms[i].released /\ m.paid = ms[i].paid /\ m.dispute = ms[i].dispute
            /\ m.extension = ms[i].extension /\ m.funded = ms[i].funded
        BY <2>1, <4>1 DEF Milestone
      <4> HIDE DEF m
      <4>4. Good(m)
        BY <4>1, <4>3 DEF Good, PotCovered, UntouchedBeforePartial, DisputeRecorded, IsTerminal
      <4>5. MilestoneFunded(i)' <=> MilestoneFunded(i)
        BY <1>5, <4>2, <4>3 DEF SetDueDates, MilestoneFunded, jobVars
      <4> QED BY <2>2, <3>1, <4>1, <4>2, <4>3, <4>4, <4>5 DEF SlotOK
    <3>2. CASE i \notin Live
      <4>1. ms'[i] = ms[i]
        BY <1>5, <3>2 DEF SetDueDates
      <4> QED BY <2>1, <2>2, <3>2, <4>1 DEF SlotOK, Inductive
    <3> QED BY <3>1, <3>2
  <2>4. SlotsOK'
    <3>1. ms' = [i \in Milestones |-> ms'[i]]
      BY <1>5 DEF SetDueDates
    <3> QED BY <2>3, <3>1 DEF SlotsOK
  <2> QED BY <1>5, <2>4, InductiveFromParts
          DEF SetDueDates, Inductive, TypeOK, jobVars, partyVars, moneyVars, pauseVars, lockVars
<1> QED BY <1>1, <1>2, <1>3, <1>4, <1>5 DEF FundingNext

\* The calls that leave milestones and ledger alone.
LEMMA PartyStep == ASSUME Inductive, PartyNext PROVE Inductive'
<1>1. ASSUME NEW role \in {"freelancer", "arbiter"}, Accept(role) PROVE Inductive'
  <2>1. SlotsOK'
    BY <1>1 DEF Accept, Inductive, TypeOK, SlotsOK, SlotOK, Live, Accepted, MilestoneFunded, jobVars
  <2> QED BY <1>1, <2>1, InductiveFromParts
          DEF Accept, Inductive, TypeOK, jobVars, moneyVars, pauseVars, lockVars
<1>2. ASSUME NEW new \in Address, ReplaceArbiter(new) \/ RotateFreelancer(new) PROVE Inductive'
  <2>1. SlotsOK'
    BY <1>2, SlotsUnchanged DEF ReplaceArbiter, RotateFreelancer
  <2> QED BY <1>2, <2>1, InductiveFromParts
          DEF ReplaceArbiter, RotateFreelancer, Inductive, TypeOK, jobVars, moneyVars, pauseVars, lockVars
<1> QED BY <1>1, <1>2 DEF PartyNext, AcceptJob, AcceptArbiter

LEMMA QuietStep ==
    ASSUME Inductive,
           \/ PauseNext \/ YieldNext \/ MultisigLock \/ Tick
           \/ \E role \in {"client", "freelancer"}: CancelEscrow(role) \/ RevokeCancelApproval(role)
    PROVE  Inductive'
<1>1. ASSUME NEW p \in BOOLEAN, NEW e \in BOOLEAN, NEW b \in BOOLEAN, SetPauses(p, e, b)
      PROVE  Inductive'
  <2>1. SlotsOK'
    BY <1>1, SlotsUnchanged DEF SetPauses, partyVars
  <2> QED BY <1>1, <2>1
          DEF SetPauses, Inductive, TypeOK, SlotsOK, jobVars, partyVars, moneyVars, lockVars
<1>2. CASE PauseNext
  <2>1. paused \in BOOLEAN /\ ep \in BOOLEAN /\ epParty \in BOOLEAN
    BY DEF Inductive, TypeOK
  <2> QED BY <1>1, <1>2, <2>1
          DEF PauseNext, EmergencyPause, EmergencyUnpauseParties, EmergencyUnpause,
              EmergencyPauseAdminOverride, AdminPauseEscrow, AdminResumeEscrow
<1>3. CASE YieldNext
  <2>1. PICK amt \in YieldAmounts: AdminAccrueYield(amt)
    BY <1>3 DEF YieldNext
  <2>2. amt \in Nat
    BY <2>1, OverridesAssumption DEF AdminAccrueYield
  <2>3. SlotsOK'
    BY <2>1, SlotsUnchanged DEF AdminAccrueYield, partyVars
  <2> QED BY <2>1, <2>2, <2>3, InductiveFromParts
          DEF AdminAccrueYield, Inductive, TypeOK, jobVars, partyVars, pauseVars, lockVars
<1>4. CASE MultisigLock
  <2>1. SlotsOK'
    BY <1>4, SlotsUnchanged DEF MultisigLock, partyVars
  <2> QED BY <1>4, <2>1, InductiveFromParts
          DEF MultisigLock, Inductive, TypeOK, jobVars, partyVars, moneyVars, pauseVars
<1>5. CASE Tick
  <2>1. SlotsOK'
    BY <1>5, SlotsUnchanged DEF Tick, partyVars
  <2> QED BY <1>5, <2>1, InductiveFromParts
          DEF Tick, Inductive, TypeOK, jobVars, partyVars, moneyVars, pauseVars, lockVars
<1>6. ASSUME NEW role \in {"client", "freelancer"},
             CancelEscrow(role) \/ RevokeCancelApproval(role)
      PROVE  Inductive'
  <2>1. SlotsOK'
    BY <1>6, SlotsUnchanged DEF CancelEscrow, RevokeCancelApproval, partyVars
  <2>2. cancelApproval \in CancelApproval /\ cancelLock \in BOOLEAN /\ now \in Nat
    BY DEF Inductive, TypeOK
  <2>3. LiveApprovals \subseteq {"client", "freelancer"} /\ NoApproval \in CancelApproval
    BY <2>2 DEF LiveApprovals, NoApproval, CancelApproval
  <2>4. cancelApproval' \in CancelApproval /\ cancelLock' \in BOOLEAN
    <3>1. CASE CancelEscrow(role)
      <4>1. [mask |-> LiveApprovals \cup {role}, at |-> now] \in CancelApproval
        BY <2>2, <2>3 DEF CancelApproval
      <4> QED BY <2>2, <2>3, <3>1, <4>1 DEF CancelEscrow
    <3>2. CASE RevokeCancelApproval(role)
      <4> DEFINE mask == cancelApproval.mask \ {role}
      <4>1. mask \in SUBSET {"client", "freelancer"}
        BY <2>2 DEF CancelApproval
      <4> HIDE DEF mask
      <4>2. [cancelApproval EXCEPT !.mask = mask] \in CancelApproval
        BY <2>2, <4>1 DEF CancelApproval
      <4> QED BY <2>2, <2>3, <3>2, <4>2 DEF RevokeCancelApproval, mask
    <3> QED BY <1>6, <3>1, <3>2
  <2>5. /\ UNCHANGED <<jobVars, partyVars, ms, moneyVars, pauseVars, multisigLocked, now>>
    BY <1>6 DEF CancelEscrow, RevokeCancelApproval
  <2> QED BY <2>1, <2>4, <2>5, InductiveFromParts
          DEF Inductive, TypeOK, jobVars, partyVars, moneyVars, pauseVars
<1> QED BY <1>2, <1>3, <1>4, <1>5, <1>6

LEMMA TokenStep == ASSUME Inductive, TokenNext PROVE Inductive'
<1>1. SlotsOK'
  BY SlotsUnchanged DEF TokenNext, Withdraw, Collected, SweepExcess, Donate, partyVars
<1>2. ledger' \in Ledger
  <2>1. ASSUME NEW a \in Address, Withdraw(a) PROVE ledger' \in Ledger
    <3>1. ledger \in Ledger /\ ledger.owed[a] \in Nat /\ ledger.balance - ledger.owed[a] \in Nat
      BY <2>1 DEF Withdraw, Collected, Inductive, TypeOK, Ledger
    <3> QED BY <2>1, <3>1 DEF Withdraw, Collected, Ledger
  <2>2. ASSUME SweepExcess PROVE ledger' \in Ledger
    <3>1. PICK excess \in 1..ledger.balance: ledger' = Transferred(ledger, excess)
      BY <2>2 DEF SweepExcess
    <3>2. ledger \in Ledger /\ ledger.balance \in Nat
      BY DEF Inductive, TypeOK, Ledger
    <3>3. ledger.balance - excess \in Nat
      BY <3>2
    <3> QED BY <3>1, <3>2, <3>3 DEF Transferred, Ledger
  <2>3. ASSUME NEW amt \in Donations, Donate(amt) PROVE ledger' \in Ledger
    BY <2>3, DepositTyped, WorkflowAssumption DEF Donate
  <2> QED BY <2>1, <2>2, <2>3 DEF TokenNext
<1>3. UNCHANGED <<jobVars, partyVars, ms, yieldAccrued, reputation, pauseVars, lockVars, now>>
  BY DEF TokenNext, Withdraw, Collected, SweepExcess, Donate
<1> QED BY <1>1, <1>2, <1>3, InductiveFromParts
        DEF Inductive, TypeOK, jobVars, partyVars, pauseVars, lockVars

\* What is settled in a batch is a positive number of tokens.
LEMMA RefundStep == ASSUME Inductive, RefundNext PROVE Inductive'
<1>1. ASSUME WithdrawUnaccepted PROVE Inductive'
  <2> DEFINE due == Due
             total == TotalRemaining(due)
             f == [i \in due |-> Settled(ms[i], "Refunded", 0, Remaining(ms[i]))]
  <2>1. /\ ms' = [i \in Milestones |-> IF i \in due THEN f[i] ELSE ms[i]]
        /\ total \in Nat /\ PayOrCredit(Client, total)
        /\ UNCHANGED <<jobVars, partyVars, yieldAccrued, reputation, pauseVars, lockVars, now>>
    BY <1>1, IntMaxAssumption DEF WithdrawUnaccepted, Payable
  <2>2. \A i \in due: \E toward \in Nat:
           /\ toward <= Remaining(ms[i])
           /\ f[i] \in {Settled(ms[i], "Refunded", toward, Remaining(ms[i])),
                        WithoutExtension(Settled(ms[i], "Refunded", toward, Remaining(ms[i])))}
    <3> SUFFICES ASSUME NEW i \in due
                 PROVE  /\ 0 <= Remaining(ms[i])
                        /\ f[i] = Settled(ms[i], "Refunded", 0, Remaining(ms[i]))
      OBVIOUS
    <3>1. Remaining(ms[i]) \in Nat
      BY LiveSlot DEF Due, Open
    <3> QED BY <3>1
  <2>3. due \subseteq Open /\ \A i \in due: MilestoneFunded(i)
    BY DEF Due
  <2>4. "Refunded" \in Terminal /\ UNCHANGED <<jobVars, acceptance>>
    BY <2>1 DEF Terminal, partyVars
  <2>5. ledger' \in Ledger
    BY <2>1, PayTyped, PartiesAssumption DEF PayOrCredit, Inductive, TypeOK
  <2> HIDE DEF due, total, f
  <2>6. SlotsOK'
    BY <2>1, <2>2, <2>3, <2>4, SlotsClosed
  <2> QED BY <2>1, <2>5, <2>6, InductiveFromParts
          DEF Inductive, TypeOK, jobVars, partyVars, pauseVars, lockVars
<1>2. ASSUME NEW i \in Milestones, ReclaimOverdue(i) PROVE Inductive'
  <2>1. /\ i \in Live /\ ~IsTerminal(ms[i]) /\ MilestoneFunded(i)
        /\ SetMilestone(i, Settled(ms[i], "Refunded", 0, Remaining(ms[i])))
        /\ PayOrCredit(Client, Remaining(ms[i])) /\ Remaining(ms[i]) > 0
        /\ UNCHANGED <<jobVars, partyVars, yieldAccrued, reputation, pauseVars, lockVars, now>>
    BY <1>2 DEF ReclaimOverdue, IsTerminal, Terminal
  <2>2. Remaining(ms[i]) \in Nat
    BY <2>1, LiveSlot
  <2>3. SlotsOK'
    <3>1. "Refunded" \in Terminal /\ 0 <= Remaining(ms[i]) /\ UNCHANGED <<jobVars, acceptance>>
      BY <2>1, <2>2 DEF Terminal, partyVars
    <3> QED BY <2>1, <3>1, SlotClosed
  <2>4. ledger' \in Ledger
    BY <2>1, <2>2, PayTyped, PartiesAssumption DEF PayOrCredit, Inductive, TypeOK
  <2> QED BY <2>1, <2>3, <2>4, InductiveFromParts
          DEF Inductive, TypeOK, jobVars, partyVars, pauseVars, lockVars
<1> QED BY <1>1, <1>2 DEF RefundNext

\* Milestone i, under way, becomes m: it moves between Pending and Delivered or
\* stays under review, and no money moves.
ReviewMove(i, m) ==
    /\ SetMilestone(i, m) /\ i \in Live
    /\ m \in Milestone /\ m.amount = ms[i].amount /\ m.funded = ms[i].funded
    /\ m.released = ms[i].released /\ m.paid = ms[i].paid /\ m.dispute = ms[i].dispute
    /\ \/ ms[i].status \in {"Pending", "Delivered"} /\ m.status \in {"Pending", "Delivered"}
       \/ m.status = ms[i].status /\ m.status \in InReview
    /\ m.status = "Pending" => m.extension = 0
    /\ Accepted \/ m.status = ms[i].status \/ m.status = "Pending"
    /\ MilestoneFunded(i)
    /\ UNCHANGED <<jobVars, partyVars, moneyVars, pauseVars, lockVars, now>>

LEMMA ReviewMoveInductive ==
    ASSUME Inductive, NEW i \in Milestones, NEW m, ReviewMove(i, m)
    PROVE  Inductive'
<1>1. /\ Good(ms[i]) /\ ms[i].amount > 0
      /\ ms[i].status \in InReview \cup {"Disputed"} => Accepted
  BY DEF Inductive, SlotOK, ReviewMove
<1>2. Good(m)
  BY <1>1 DEF ReviewMove, Good, PotCovered, UntouchedBeforePartial, DisputeRecorded, IsTerminal,
              Terminal, InReview
<1>3. m.status \in InReview \cup {"Disputed"} => Accepted
  BY <1>1 DEF ReviewMove, InReview
<1>4. UNCHANGED <<jobVars, acceptance>>
  BY DEF ReviewMove, partyVars
<1>5. SlotsOK'
  BY <1>1, <1>2, <1>3, <1>4, SlotReplaced DEF ReviewMove
<1> QED BY <1>5, InductiveFromParts
        DEF ReviewMove, Inductive, TypeOK, jobVars, partyVars, moneyVars, pauseVars, lockVars

LEMMA DeliveryStep == ASSUME Inductive, DeliveryNext PROVE Inductive'
<1>1. ASSUME NEW i \in Milestones, MarkDelivered(i) PROVE Inductive'
  <2> DEFINE m == [ms[i] EXCEPT !.status = "Delivered", !.deliveredAt = now]
  <2>1. ms[i] \in Milestone /\ now \in Nat
    BY DEF Inductive, TypeOK
  <2>2. /\ m \in Milestone /\ m.amount = ms[i].amount /\ m.funded = ms[i].funded
        /\ m.released = ms[i].released /\ m.paid = ms[i].paid /\ m.dispute = ms[i].dispute
        /\ m.status = "Delivered"
    BY <2>1 DEF Milestone, MilestoneStatus
  <2>3. SetMilestone(i, m)
    BY <1>1 DEF MarkDelivered
  <2> HIDE DEF m
  <2>4. ReviewMove(i, m)
    BY <1>1, <2>2, <2>3 DEF MarkDelivered, ReviewMove
  <2> QED BY <2>4, ReviewMoveInductive
<1>2. ASSUME NEW i \in Milestones, RequestRevision(i) PROVE Inductive'
  <2> DEFINE n == [ms[i] EXCEPT !.status = "Pending", !.deliveredAt = 0, !.revisions = @ + 1]
             m == WithoutExtension(n)
  <2>1. ms[i] \in Milestone /\ ms[i].revisions + 1 \in 0..MaxRevisions
    <3>1. ms[i] \in Milestone /\ ms[i].revisions < MaxRevisions
      BY <1>2 DEF RequestRevision, Revisable, Inductive, TypeOK
    <3> QED BY <3>1, TimeAssumption DEF Milestone
  <2>2. /\ n \in Milestone /\ n.amount = ms[i].amount /\ n.funded = ms[i].funded
        /\ n.released = ms[i].released /\ n.paid = ms[i].paid /\ n.dispute = ms[i].dispute
        /\ n.status = "Pending"
    <3> DEFINE a == [ms[i] EXCEPT !.status = "Pending"]
               b == [a EXCEPT !.deliveredAt = 0]
    <3>1. /\ a \in Milestone /\ a.amount = ms[i].amount /\ a.funded = ms[i].funded
          /\ a.released = ms[i].released /\ a.paid = ms[i].paid /\ a.dispute = ms[i].dispute
          /\ a.status = "Pending" /\ a.revisions = ms[i].revisions
      BY <2>1 DEF Milestone, MilestoneStatus
    <3> HIDE DEF a
    <3>2. /\ b \in Milestone /\ b.amount = ms[i].amount /\ b.funded = ms[i].funded
          /\ b.released = ms[i].released /\ b.paid = ms[i].paid /\ b.dispute = ms[i].dispute
          /\ b.status = "Pending" /\ b.revisions = ms[i].revisions
      BY <3>1 DEF Milestone
    <3>3. n = [b EXCEPT !.revisions = @ + 1]
      BY DEF a
    <3> HIDE DEF b, n
    <3> QED BY <2>1, <3>2, <3>3 DEF Milestone
  <2>3. SetMilestone(i, m)
    BY <1>2 DEF RequestRevision, Revisable
  <2> HIDE DEF n
  <2>4. /\ m \in Milestone /\ m.amount = ms[i].amount /\ m.funded = ms[i].funded
        /\ m.released = ms[i].released /\ m.paid = ms[i].paid /\ m.dispute = ms[i].dispute
        /\ m.status = "Pending" /\ m.extension = 0
    BY <2>2 DEF Milestone, WithoutExtension
  <2> HIDE DEF m
  <2>5. /\ MilestoneFunded(i) /\ i \in Live /\ ms[i].status = "Delivered"
        /\ UNCHANGED <<jobVars, partyVars, moneyVars, pauseVars, lockVars, now>>
    BY <1>2 DEF RequestRevision, Revisable, MilestoneFunded
  <2>6. ReviewMove(i, m)
    BY <2>3, <2>4, <2>5 DEF ReviewMove
  <2> QED BY <2>6, ReviewMoveInductive
<1>3. ASSUME NEW i \in Milestones, NEW extra \in Extensions, Extend(i, extra) PROVE Inductive'
  <2> DEFINE m == [ms[i] EXCEPT !.extension = @ + extra]
  <2>1. ms[i] \in Milestone /\ extra \in Nat
    BY WorkflowAssumption DEF Inductive, TypeOK
  <2>2. /\ m \in Milestone /\ m.amount = ms[i].amount /\ m.funded = ms[i].funded
        /\ m.released = ms[i].released /\ m.paid = ms[i].paid /\ m.dispute = ms[i].dispute
        /\ m.status = ms[i].status
    BY <2>1 DEF Milestone
  <2>3. SetMilestone(i, m) /\ i \in Live /\ ms[i].status \in InReview
    BY <1>3 DEF Extend
  <2> HIDE DEF m
  <2>4. MilestoneFunded(i) /\ m.status # "Pending"
    BY <2>2, <2>3 DEF Inductive, SlotOK, InReview
  <2>5. ReviewMove(i, m)
    BY <1>3, <2>2, <2>3, <2>4 DEF Extend, ReviewMove
  <2> QED BY <2>5, ReviewMoveInductive
<1> QED BY <1>1, <1>2, <1>3 DEF DeliveryNext, ExtendMilestoneDeadline, TimeExtensionsConsent

\* A milestone paid by a positive part or by nothing: approve_partial, and the
\* streamed payout that does not exhaust it.
LEMMA SlotPartlyPaid ==
    ASSUME Inductive, NEW i \in Milestones, i \in Live, ms[i].status \in InReview,
           NEW amt \in Nat, amt <= Remaining(ms[i]),
           SetMilestone(i, Settled(ms[i], "PartiallyReleased", amt, amt)),
           UNCHANGED <<jobVars, acceptance>>
    PROVE  SlotsOK'
<1> DEFINE m == Settled(ms[i], "PartiallyReleased", amt, amt)
<1>1. /\ Good(ms[i]) /\ ms[i].amount > 0 /\ Accepted /\ MilestoneFunded(i)
  BY DEF Inductive, SlotOK, InReview
<1>2. /\ Good(m) /\ m.amount = ms[i].amount /\ m.funded = ms[i].funded
      /\ m.status = "PartiallyReleased"
  BY <1>1, PartlyPaidGood
<1> HIDE DEF m
<1>3. SetMilestone(i, m) /\ m.amount > 0 /\ (m.status = "Pending" => m.extension = 0)
  BY <1>1, <1>2 DEF m
<1> QED BY <1>1, <1>2, <1>3, SlotReplaced

\* What is released never exceeds what remains, so the milestone pays the exact
\* rest when it is released in full.
LEMMA ReleaseInFullStep ==
    ASSUME Inductive, NEW i \in Milestones, i \in Live, ~IsTerminal(ms[i]), MilestoneFunded(i),
           ReleaseInFull(i)
    PROVE  Inductive'
<1> DEFINE rest == Remaining(ms[i])
<1>1. rest \in Nat
  BY LiveSlot
<1>2. SlotsOK'
  <2>1. /\ SetMilestone(i, WithoutExtension(Settled(ms[i], "Released", rest, rest)))
        /\ UNCHANGED <<jobVars, acceptance>>
    BY DEF ReleaseInFull, partyVars
  <2>2. "Released" \in Terminal /\ rest <= Remaining(ms[i])
    BY <1>1 DEF Terminal
  <2> QED BY <1>1, <2>1, <2>2, SlotClosed
<1>3. ledger' \in Ledger
  BY <1>1, PayTyped DEF ReleaseInFull, PayOrCredit, Inductive, TypeOK
<1>4. reputation' \in [Address -> Nat]
  BY DEF ReleaseInFull, CreditReputation, Inductive, TypeOK
<1> QED BY <1>2, <1>3, <1>4, InductiveFromParts
        DEF ReleaseInFull, Inductive, TypeOK, jobVars, partyVars, pauseVars, lockVars

LEMMA ApprovalStep == ASSUME Inductive, ApprovalNext PROVE Inductive'
<1>0. \A i \in Live: ms[i].status \in InReview => ~IsTerminal(ms[i])
  BY DEF InReview, IsTerminal, Terminal
<1>1. ASSUME NEW i \in Milestones, NEW amt \in PartialAmounts, ApprovePartial(i, amt)
      PROVE  Inductive'
  <2>1. /\ i \in Live /\ ms[i].status \in InReview /\ MilestoneFunded(i)
        /\ amt \in Nat /\ amt <= Remaining(ms[i]) /\ PayOrCredit(freelancer, amt)
        /\ UNCHANGED <<jobVars, partyVars, yieldAccrued, pauseVars, lockVars, now>>
        /\ UNCHANGED <<jobVars, acceptance>>
    BY <1>1, WorkflowAssumption DEF ApprovePartial, partyVars
  <2>2. SlotsOK' /\ reputation' \in [Address -> Nat]
    <3>1. CASE amt = Remaining(ms[i])
      <4>1. SetMilestone(i, WithoutExtension(Settled(ms[i], "Released", amt, Remaining(ms[i]))))
        BY <1>1, <3>1 DEF ApprovePartial
      <4>2. "Released" \in Terminal
        BY DEF Terminal
      <4>3. reputation' \in [Address -> Nat]
        BY <1>1, <3>1 DEF ApprovePartial, CreditReputation, Inductive, TypeOK
      <4> QED BY <1>0, <2>1, <4>1, <4>2, <4>3, SlotClosed
    <3>2. CASE amt # Remaining(ms[i])
      <4>1. /\ SetMilestone(i, Settled(ms[i], "PartiallyReleased", amt, amt))
            /\ reputation' = reputation
        BY <1>1, <3>2 DEF ApprovePartial
      <4> QED BY <2>1, <4>1, SlotPartlyPaid DEF Inductive, TypeOK
    <3> QED BY <3>1, <3>2
  <2>3. ledger' \in Ledger
    BY <2>1, PayTyped DEF PayOrCredit, Inductive, TypeOK
  <2> QED BY <2>1, <2>2, <2>3, InductiveFromParts
          DEF Inductive, TypeOK, jobVars, partyVars, pauseVars, lockVars
<1>2. ASSUME NEW i \in Milestones, ApproveMilestone(i) \/ TriggerAutoRelease(i) PROVE Inductive'
  <2>1. i \in Live /\ ~IsTerminal(ms[i]) /\ MilestoneFunded(i) /\ ReleaseInFull(i)
    BY <1>2 DEF ApproveMilestone, TriggerAutoRelease, AutoReleasable, IsTerminal, Terminal
  <2> QED BY <2>1, ReleaseInFullStep
<1>3. ASSUME NEW batch \in SUBSET Milestones, ApproveMilestones(batch) PROVE Inductive'
  <2> DEFINE total == TotalRemaining(batch)
             f == [i \in batch |-> Settled(ms[i], "Released", Remaining(ms[i]), Remaining(ms[i]))]
  <2>1. /\ ms' = [i \in Milestones |-> IF i \in batch THEN f[i] ELSE ms[i]]
        /\ total \in Nat /\ PayOrCredit(freelancer, total) /\ CreditReputation(Cardinality(batch))
        /\ UNCHANGED <<jobVars, partyVars, yieldAccrued, pauseVars, lockVars, now>>
        /\ batch \subseteq Live /\ \A i \in batch: ms[i].status \in InReview /\ MilestoneFunded(i)
    BY <1>3, IntMaxAssumption DEF ApproveMilestones, Payable
  <2>2. \A i \in batch: \E toward \in Nat:
           /\ toward <= Remaining(ms[i])
           /\ f[i] \in {Settled(ms[i], "Released", toward, Remaining(ms[i])),
                        WithoutExtension(Settled(ms[i], "Released", toward, Remaining(ms[i])))}
    <3> SUFFICES ASSUME NEW i \in batch
                 PROVE  /\ Remaining(ms[i]) \in Nat /\ Remaining(ms[i]) <= Remaining(ms[i])
                        /\ f[i] = Settled(ms[i], "Released", Remaining(ms[i]), Remaining(ms[i]))
      OBVIOUS
    <3>1. Remaining(ms[i]) \in Nat
      BY <2>1, LiveSlot DEF IsTerminal, Terminal, InReview
    <3> QED BY <3>1
  <2>3. batch \subseteq Open /\ \A i \in batch: MilestoneFunded(i)
    BY <1>0, <2>1 DEF Open
  <2>4. "Released" \in Terminal /\ UNCHANGED <<jobVars, acceptance>>
    BY <2>1 DEF Terminal, partyVars
  <2>5. ledger' \in Ledger
    BY <2>1, PayTyped DEF PayOrCredit, Inductive, TypeOK
  <2>6. reputation' \in [Address -> Nat]
    <3>1. IsFiniteSet(batch)
      <4>1. IsFiniteSet(0..(MaxMilestones - 1))
        <5>1. 0 \in Int /\ MaxMilestones - 1 \in Int
          BY JobAssumption
        <5> QED BY ONLY <5>1, FS_Interval
      <4> QED BY <4>1, FS_Subset DEF Milestones
    <3>2. Cardinality(batch) \in Nat
      BY <3>1, FS_CardinalityType
    <3> QED BY <2>1, <3>2 DEF CreditReputation, Inductive, TypeOK
  <2> HIDE DEF total, f
  <2>7. SlotsOK'
    BY <2>1, <2>2, <2>3, <2>4, SlotsClosed
  <2> QED BY <2>1, <2>5, <2>6, <2>7, InductiveFromParts
          DEF Inductive, TypeOK, jobVars, partyVars, pauseVars, lockVars
<1>4. ASSUME NEW i \in Milestones, NEW num \in Int, NEW den \in Int,
             PaymentStreamingConsent(i, num, den)
      PROVE  Inductive'
  <2> DEFINE rest == Remaining(ms[i])
             pay  == SplitNearest(rest, num, den).first
  <2>1. /\ i \in Live /\ ms[i].status \in InReview
        /\ CanSplitNearest(rest, num, den)
        /\ pay <= ledger.balance /\ ledger' = Transferred(ledger, pay)
        /\ UNCHANGED <<jobVars, partyVars, yieldAccrued, pauseVars, lockVars, now>>
        /\ UNCHANGED <<jobVars, acceptance>>
    BY <1>4 DEF PaymentStreamingConsent, partyVars
  <2>2. Good(ms[i]) /\ ms[i].amount \in Nat /\ ms[i].released \in Nat /\ rest \in Nat
        /\ MilestoneFunded(i) /\ ms[i].released + rest = ms[i].amount
    <3>1. MilestoneFunded(i)
      BY <2>1 DEF Inductive, SlotOK, InReview
    <3>2. Good(ms[i]) /\ ms[i] \in Milestone /\ rest \in Nat
      BY <2>1, LiveSlot DEF IsTerminal, Terminal, InReview
    <3>3. ms[i].amount \in Nat /\ ms[i].released \in Nat
      BY <3>2 DEF Milestone
    <3> QED BY <3>1, <3>2, <3>3 DEF Remaining
  <2>3. pay \in Nat /\ pay <= rest
    <3>1. num \in Nat /\ den \in Nat
      BY <2>1 DEF CanSplitNearest
    <3> HIDE DEF rest
    <3>2. pay \in 0..rest
      BY <2>1, <2>2, <3>1, SplitNearestExact
    <3> QED BY <2>2, <3>2
  <2>4. SlotsOK' /\ reputation' \in [Address -> Nat]
    <3>1. CASE ms[i].released + pay >= ms[i].amount
      <4>1. pay = rest
        BY <2>2, <2>3, <3>1
      <4>2. /\ SetMilestone(i, Settled(ms[i], "Released", rest, rest)) /\ CreditReputation(1)
        BY <1>4, <3>1, <4>1 DEF PaymentStreamingConsent
      <4>3. "Released" \in Terminal /\ rest <= Remaining(ms[i])
        BY <2>2 DEF Terminal
      <4>4. reputation' \in [Address -> Nat]
        BY <4>2 DEF CreditReputation, Inductive, TypeOK
      <4> QED BY <1>0, <2>1, <2>2, <4>2, <4>3, <4>4, SlotClosed
    <3>2. CASE ~(ms[i].released + pay >= ms[i].amount)
      <4>1. /\ SetMilestone(i, Settled(ms[i], "PartiallyReleased", pay, pay))
            /\ reputation' = reputation
        BY <1>4, <3>2 DEF PaymentStreamingConsent
      <4> HIDE DEF pay
      <4> QED BY <2>1, <2>3, <4>1, SlotPartlyPaid DEF Inductive, TypeOK
    <3> QED BY <3>1, <3>2
  <2>5. ledger' \in Ledger
    <3>1. ledger \in Ledger /\ ledger.balance \in Nat
      BY DEF Inductive, TypeOK, Ledger
    <3> HIDE DEF pay
    <3>2. ledger.balance - pay \in Nat
      BY <2>1, <2>3, <3>1
    <3> QED BY <2>1, <3>1, <3>2 DEF Transferred, Ledger
  <2> QED BY <2>1, <2>4, <2>5, InductiveFromParts
          DEF Inductive, TypeOK, jobVars, partyVars, pauseVars, lockVars
<1>5. \A r \in StreamRatios: r[1] \in Int /\ r[2] \in Int
  BY WorkflowAssumption
<1> QED BY <1>1, <1>2, <1>3, <1>4, <1>5 DEF ApprovalNext

\* An open record and a status that closes: what the two legs of a split make of
\* a milestone.
LEMMA SplitStatusTerminal ==
    ASSUME NEW refund \in Nat, NEW payout \in Nat
    PROVE  SplitStatus(refund, payout) \in Terminal
BY DEF SplitStatus, Terminal

\* The arbiter's fee is part of the disputed remainder.
LEMMA FeeTyped ==
    ASSUME Inductive, NEW i \in Milestones, Arbitrable(i)
    PROVE  /\ Remaining(ms[i]) \in Nat /\ FeeFor(i) \in Nat
           /\ Remaining(ms[i]) - FeeFor(i) \in 0..Remaining(ms[i])
<1>1. Remaining(ms[i]) \in Nat
  BY LiveSlot DEF Arbitrable, IsTerminal, Terminal
<1>2. Available(ledger) \in Int
  BY DEF Inductive, TypeOK, Ledger, Available
<1>3. Available(ledger) \in Nat
  BY <1>1, <1>2 DEF Arbitrable
<1>4. ArbiterFeeBps \in 0..BpsScale
  BY JobAssumption DEF BpsScale
<1> DEFINE rest == Remaining(ms[i])
           fee  == FeeFor(i)
<1>5. fee \in 0..rest
  BY <1>1, <1>3, <1>4, ArbiterFeeBounded DEF FeeFor
<1> HIDE DEF rest, fee
<1>6. rest \in Nat
  BY <1>1 DEF rest
<1>7. fee \in Nat /\ rest - fee \in 0..rest
  BY <1>5, <1>6
<1> QED BY <1>6, <1>7 DEF rest, fee

\* A dispute closed by two legs.
LEMMA CloseBySplitStep ==
    ASSUME Inductive, NEW i \in Milestones, i \in Live, ms[i].status = "Disputed",
           MilestoneFunded(i), NEW refund \in Nat, NEW payout \in Nat,
           payout <= Remaining(ms[i]), CloseBySplit(i, refund, payout, Remaining(ms[i])),
           UNCHANGED <<jobVars, acceptance>>
    PROVE  SlotsOK' /\ reputation' \in [Address -> Nat]
<1> DEFINE st == SplitStatus(refund, payout)
<1>1. st \in Terminal
  BY SplitStatusTerminal
<1>2. SetMilestone(i, Closed(Settled(ms[i], st, payout, Remaining(ms[i]))))
  BY DEF CloseBySplit
<1>3. reputation' \in [Address -> Nat]
  BY DEF CloseBySplit, CreditReputation, Inductive, TypeOK
<1> HIDE DEF st
<1>4. ~IsTerminal(ms[i])
  BY DEF IsTerminal, Terminal
<1> QED BY <1>1, <1>2, <1>3, <1>4, SlotClosed

\* A milestone whose status or record changes in a dispute, with no money moved.
DisputeMove(i, m) ==
    /\ SetMilestone(i, m) /\ i \in Live
    /\ m \in Milestone /\ m.amount = ms[i].amount /\ m.funded = ms[i].funded
    /\ m.released = ms[i].released /\ m.paid = ms[i].paid
    /\ {ms[i].status, m.status} \subseteq InReview \cup {"Disputed"}
    /\ DisputeRecorded(m) /\ UntouchedBeforePartial(m)
    /\ Accepted
    /\ UNCHANGED <<jobVars, partyVars, moneyVars, pauseVars, lockVars, now>>

LEMMA DisputeMoveInductive ==
    ASSUME Inductive, NEW i \in Milestones, NEW m, DisputeMove(i, m)
    PROVE  Inductive'
<1>1. Good(ms[i]) /\ ms[i].amount > 0 /\ MilestoneFunded(i) /\ m.status # "Pending"
  BY DEF Inductive, SlotOK, DisputeMove, InReview
<1>2. Good(m)
  BY <1>1 DEF DisputeMove, Good, PotCovered, IsTerminal, Terminal, InReview
<1>3. UNCHANGED <<jobVars, acceptance>>
  BY DEF DisputeMove, partyVars
<1>4. SlotsOK'
  BY <1>1, <1>2, <1>3, SlotReplaced DEF DisputeMove
<1> QED BY <1>4, InductiveFromParts
        DEF DisputeMove, Inductive, TypeOK, jobVars, partyVars, moneyVars, pauseVars, lockVars

LEMMA DisputeStep == ASSUME Inductive, DisputeNext PROVE Inductive'
<1>1. ASSUME NEW i \in Milestones, RaiseDispute(i) PROVE Inductive'
  <2> DEFINE d == [open |-> TRUE, at |-> now, previous |-> ms[i].status, evidence |-> 0]
             n == [ms[i] EXCEPT !.status = "Disputed"]
             m == [n EXCEPT !.dispute = d]
  <2>1. /\ i \in Live /\ ms[i] \in Milestone /\ now \in Nat /\ ms[i].status \in InReview
        /\ Accepted /\ Good(ms[i])
    BY <1>1 DEF RaiseDispute, Inductive, TypeOK, SlotOK
  <2>2. d \in DisputeInfo /\ d.open /\ d.previous = ms[i].status
    BY <2>1, TimeAssumption DEF DisputeInfo, InReview, MilestoneStatus
  <2>3. SetMilestone(i, m)
    BY <1>1 DEF RaiseDispute
  <2> HIDE DEF d
  <2>4. /\ n \in Milestone /\ n.amount = ms[i].amount /\ n.funded = ms[i].funded
        /\ n.released = ms[i].released /\ n.paid = ms[i].paid /\ n.status = "Disputed"
    BY <2>1 DEF Milestone, MilestoneStatus
  <2> HIDE DEF n
  <2>5. /\ m \in Milestone /\ m.amount = ms[i].amount /\ m.funded = ms[i].funded
        /\ m.released = ms[i].released /\ m.paid = ms[i].paid /\ m.status = "Disputed"
        /\ m.dispute = d
    BY <2>2, <2>4 DEF Milestone
  <2> HIDE DEF m
  <2>6. DisputeRecorded(m)
    BY <2>1, <2>2, <2>5 DEF DisputeRecorded
  <2>7. UntouchedBeforePartial(m)
    BY <2>1, <2>2, <2>5 DEF UntouchedBeforePartial, Good
  <2>8. DisputeMove(i, m)
    BY <1>1, <2>1, <2>3, <2>5, <2>6, <2>7 DEF DisputeMove, RaiseDispute
  <2> QED BY <2>8, DisputeMoveInductive
<1>2. ASSUME NEW i \in Milestones, SubmitEvidence(i) PROVE Inductive'
  <2> DEFINE d == [ms[i].dispute EXCEPT !.evidence = @ + 1]
             m == [ms[i] EXCEPT !.dispute = d]
  <2>1. /\ i \in Live /\ ms[i] \in Milestone /\ ms[i].status = "Disputed" /\ Accepted
        /\ Good(ms[i]) /\ ms[i].dispute \in DisputeInfo
        /\ ms[i].dispute.evidence < MaxEvidence
    BY <1>2 DEF SubmitEvidence, Inductive, TypeOK, SlotOK, Milestone
  <2>2. /\ d \in DisputeInfo /\ d.open = ms[i].dispute.open
        /\ d.previous = ms[i].dispute.previous
    <3>1. ms[i].dispute.evidence + 1 \in 0..MaxEvidence
      BY <2>1, TimeAssumption DEF DisputeInfo
    <3> QED BY <2>1, <3>1 DEF DisputeInfo
  <2>3. SetMilestone(i, m)
    BY <1>2 DEF SubmitEvidence
  <2> HIDE DEF d
  <2>4. /\ m \in Milestone /\ m.amount = ms[i].amount /\ m.funded = ms[i].funded
        /\ m.released = ms[i].released /\ m.paid = ms[i].paid /\ m.status = "Disputed"
        /\ m.dispute = d
    BY <2>1, <2>2 DEF Milestone
  <2> HIDE DEF m
  <2>5. DisputeRecorded(m) /\ UntouchedBeforePartial(m)
    BY <2>1, <2>2, <2>4 DEF DisputeRecorded, UntouchedBeforePartial, Good, IsTerminal
  <2>6. DisputeMove(i, m)
    BY <1>2, <2>1, <2>3, <2>4, <2>5 DEF DisputeMove, SubmitEvidence
  <2> QED BY <2>6, DisputeMoveInductive
<1>3. ASSUME NEW i \in Milestones, EscalateDispute(i) PROVE Inductive'
  <2> DEFINE prev == ms[i].dispute.previous
             at == IF prev = "Delivered" THEN now ELSE ms[i].deliveredAt
             a == [ms[i] EXCEPT !.status = prev]
             b == [a EXCEPT !.deliveredAt = at]
             m == WithoutDispute(b)
  <2>1. /\ i \in Live /\ ms[i] \in Milestone /\ ms[i].status = "Disputed" /\ Accepted
        /\ Good(ms[i]) /\ ms[i].dispute.open /\ now \in Nat
    BY <1>3 DEF EscalateDispute, Escalatable, Inductive, TypeOK, SlotOK
  <2>2. prev \in InReview /\ (prev = "Delivered" => ms[i].released = 0)
    BY <2>1 DEF Good, DisputeRecorded, UntouchedBeforePartial, IsTerminal, Terminal
  <2>3. at \in Nat
    BY <2>1 DEF Milestone
  <2>4. SetMilestone(i, WithoutDispute([ms[i] EXCEPT !.status = prev,
              !.deliveredAt = IF prev = "Delivered" THEN now ELSE @]))
    BY <1>3 DEF EscalateDispute, Escalatable
  <2>5. b = [ms[i] EXCEPT !.status = prev,
              !.deliveredAt = IF prev = "Delivered" THEN now ELSE @]
    BY <2>1 DEF Milestone
  <2>6. SetMilestone(i, m)
    BY <2>4, <2>5
  <2> HIDE DEF at, prev
  <2>7. /\ a \in Milestone /\ a.amount = ms[i].amount /\ a.funded = ms[i].funded
        /\ a.released = ms[i].released /\ a.paid = ms[i].paid /\ a.status = prev
    BY <2>1, <2>2 DEF Milestone, MilestoneStatus, InReview
  <2> HIDE DEF a
  <2>8. /\ b \in Milestone /\ b.amount = ms[i].amount /\ b.funded = ms[i].funded
        /\ b.released = ms[i].released /\ b.paid = ms[i].paid /\ b.status = prev
    BY <2>3, <2>7 DEF Milestone
  <2> HIDE DEF b
  <2>9. NoDispute \in DisputeInfo /\ ~NoDispute.open
    BY TimeAssumption DEF NoDispute, DisputeInfo, MilestoneStatus
  <2>10. /\ m \in Milestone /\ m.amount = ms[i].amount /\ m.funded = ms[i].funded
         /\ m.released = ms[i].released /\ m.paid = ms[i].paid /\ m.status = prev
         /\ ~m.dispute.open
    BY <2>8, <2>9 DEF Milestone, WithoutDispute
  <2> HIDE DEF m
  <2>11. m.status # "Disputed" /\ (m.status \in {"Pending", "Delivered"} => m.released = 0)
    BY <2>2, <2>10 DEF InReview
  <2>12. DisputeRecorded(m) /\ UntouchedBeforePartial(m)
    BY <2>10, <2>11 DEF DisputeRecorded, UntouchedBeforePartial
  <2>13. {ms[i].status, m.status} \subseteq InReview \cup {"Disputed"}
    BY <2>1, <2>2, <2>10
  <2>14. UNCHANGED <<jobVars, partyVars, moneyVars, pauseVars, lockVars, now>>
    BY <1>3 DEF EscalateDispute, Escalatable
  <2>15. DisputeMove(i, m)
    BY <2>1, <2>6, <2>10, <2>12, <2>13, <2>14 DEF DisputeMove
  <2> QED BY <2>15, DisputeMoveInductive
<1>4. ASSUME NEW i \in Milestones, NEW b \in BOOLEAN, ResolveDispute(i, b) PROVE Inductive'
  <2> DEFINE rest   == Remaining(ms[i])
             fee    == FeeFor(i)
             payout == rest - fee
             to     == IF b THEN freelancer ELSE Client
  <2>1. /\ Arbitrable(i)
        /\ \E l \in AfterPayIfAny(ledger, arbiter, fee): ledger' \in AfterPayIfAny(l, to, payout)
        /\ IF b THEN /\ SetMilestone(i, Closed(Settled(ms[i], "Released", payout, rest)))
                     /\ CreditReputation(1)
           ELSE /\ SetMilestone(i, Closed(Settled(ms[i], "Refunded", 0, rest)))
                /\ UNCHANGED reputation
        /\ UNCHANGED <<jobVars, partyVars, yieldAccrued, pauseVars, lockVars, now>>
    BY <1>4 DEF ResolveDispute, Net
  <2>2. /\ i \in Live /\ MilestoneFunded(i) /\ ~IsTerminal(ms[i])
        /\ UNCHANGED <<jobVars, acceptance>>
    BY <2>1 DEF Arbitrable, IsTerminal, Terminal, partyVars
  <2>3. rest \in Nat /\ fee \in Nat /\ payout \in Nat /\ payout <= rest
    BY <2>1, FeeTyped
  <2>4. to \in Address /\ arbiter \in Address /\ ledger \in Ledger
    BY PartiesAssumption DEF Inductive, TypeOK
  <2> HIDE DEF payout, fee, to
  <2>5. ledger' \in Ledger
    BY <2>1, <2>3, <2>4, PayIfAnyTyped
  <2>6. SlotsOK'
    <3>1. "Released" \in Terminal /\ "Refunded" \in Terminal /\ 0 <= Remaining(ms[i])
      BY <2>3 DEF Terminal
    <3>2. CASE b
      BY <2>1, <2>2, <2>3, <3>1, <3>2, SlotClosed
    <3>3. CASE ~b
      BY <2>1, <2>2, <2>3, <3>1, <3>3, SlotClosed
    <3> QED BY <3>2, <3>3
  <2>7. reputation' \in [Address -> Nat]
    BY <2>1 DEF CreditReputation, Inductive, TypeOK
  <2> QED BY <2>1, <2>5, <2>6, <2>7, InductiveFromParts
          DEF Inductive, TypeOK, jobVars, partyVars, pauseVars, lockVars
<1>5. ASSUME NEW i \in Milestones, NEW bps \in SplitBps, ApplyDisputeArbitrationSplit(i, bps)
      PROVE  Inductive'
  <2> DEFINE rest  == Remaining(ms[i])
             fee   == FeeFor(i)
             net   == rest - fee
             first == SplitFloor(net, bps).first
             second == SplitFloor(net, bps).second
  <2>1. /\ Arbitrable(i) /\ CanSplitFloor(net, bps)
        /\ \E l \in AfterPayIfAny(ledger, arbiter, fee):
              \E k \in AfterPayIfAny(l, Client, first): ledger' \in AfterPayIfAny(k, freelancer, second)
        /\ CloseBySplit(i, first, second, rest)
        /\ UNCHANGED <<jobVars, partyVars, yieldAccrued, pauseVars, lockVars, now>>
    BY <1>5 DEF ApplyDisputeArbitrationSplit, Net
  <2>2. /\ i \in Live /\ MilestoneFunded(i) /\ ms[i].status = "Disputed"
        /\ UNCHANGED <<jobVars, acceptance>>
    BY <2>1 DEF Arbitrable, partyVars
  <2>3. rest \in Nat /\ fee \in Nat /\ net \in Nat /\ net <= rest
    BY <2>1, FeeTyped
  <2>4. first \in Nat /\ second \in Nat /\ second <= rest
    <3>1. bps \in Nat
      BY SplitBpsAssumption
    <3> HIDE DEF net, rest
    <3>2. first \in 0..net /\ second \in 0..net
      BY <2>1, <2>3, <3>1, SplitFloorExact
    <3> HIDE DEF first, second
    <3> QED BY <2>3, <3>2
  <2>5. freelancer \in Address /\ arbiter \in Address /\ Client \in Address /\ ledger \in Ledger
    BY PartiesAssumption DEF Inductive, TypeOK
  <2> HIDE DEF fee, first, second
  <2>6. ledger' \in Ledger
    BY <2>1, <2>3, <2>4, <2>5, PayIfAnyTyped
  <2>7. SlotsOK' /\ reputation' \in [Address -> Nat]
    BY <2>1, <2>2, <2>4, CloseBySplitStep
  <2> QED BY <2>1, <2>6, <2>7, InductiveFromParts
          DEF Inductive, TypeOK, jobVars, partyVars, pauseVars, lockVars
<1> QED BY <1>1, <1>2, <1>3, <1>4, <1>5 DEF DisputeNext

LEMMA CancelStep == ASSUME Inductive, CancelNext PROVE Inductive'
<1>1. ASSUME NEW to \in Address, NEW status \in {"Released", "Refunded"},
             SettleAllRemaining(to, status)
      PROVE  Inductive'
  <2> DEFINE due == Due
             total == TotalRemaining(due)
             toward(i) == IF status = "Released" THEN Remaining(ms[i]) ELSE 0
             f == [i \in due |-> WithoutExtension(Settled(ms[i], status,
                            IF status = "Released" THEN Remaining(ms[i]) ELSE 0,
                            Remaining(ms[i])))]
  <2>1. /\ ms' = [i \in Milestones |-> IF i \in due THEN f[i] ELSE ms[i]]
        /\ total \in Nat /\ PayOrCredit(to, total)
        /\ cancelLock' = FALSE /\ yieldAccrued' = 0
        /\ UNCHANGED <<jobVars, partyVars, reputation, pauseVars, cancelApproval,
                       multisigLocked, now>>
    BY <1>1, IntMaxAssumption DEF SettleAllRemaining, Payable
  <2>2. \A i \in due: \E t \in Nat:
           /\ t <= Remaining(ms[i])
           /\ f[i] \in {Settled(ms[i], status, t, Remaining(ms[i])),
                        WithoutExtension(Settled(ms[i], status, t, Remaining(ms[i])))}
    <3> SUFFICES ASSUME NEW i \in due
                 PROVE  /\ toward(i) \in Nat /\ toward(i) <= Remaining(ms[i])
                        /\ f[i] = WithoutExtension(Settled(ms[i], status, toward(i), Remaining(ms[i])))
      OBVIOUS
    <3>1. Remaining(ms[i]) \in Nat
      BY LiveSlot DEF Due, Open
    <3> QED BY <3>1
  <2>3. due \subseteq Open /\ \A i \in due: MilestoneFunded(i)
    BY DEF Due
  <2>4. status \in Terminal /\ UNCHANGED <<jobVars, acceptance>>
    BY <2>1 DEF Terminal, partyVars
  <2>5. ledger' \in Ledger
    BY <2>1, PayTyped DEF PayOrCredit, Inductive, TypeOK
  <2> HIDE DEF due, total, f
  <2>6. SlotsOK'
    BY <2>1, <2>2, <2>3, <2>4, SlotsClosed
  <2> QED BY <2>1, <2>5, <2>6, InductiveFromParts
          DEF Inductive, TypeOK, jobVars, partyVars, pauseVars
<1>2. freelancer \in Address /\ Client \in Address
  BY PartiesAssumption DEF Inductive, TypeOK
<1> QED BY <1>1, <1>2, QuietStep
        DEF CancelNext, AdminOverrideCancelRelease, AdminOverrideCancelRefund

LEMMA OverrideStep == ASSUME Inductive, OverrideNext PROVE Inductive'
<1>1. ASSUME NEW i \in Milestones, NEW to \in Address, NEW status \in {"Released", "Refunded"},
             AdminOverride(i, to, status)
      PROVE  Inductive'
  <2> DEFINE rest   == Remaining(ms[i])
             toward == IF status = "Released" THEN rest ELSE 0
  <2>1. /\ i \in Live /\ ~IsTerminal(ms[i]) /\ MilestoneFunded(i)
        /\ SetMilestone(i, Closed(Settled(ms[i], status, toward, rest)))
        /\ PayOrCredit(to, rest) /\ yieldAccrued' = 0
        /\ UNCHANGED <<jobVars, partyVars, reputation, pauseVars, lockVars, now>>
        /\ UNCHANGED <<jobVars, acceptance>>
    BY <1>1 DEF AdminOverride, Overridable, partyVars
  <2>2. rest \in Nat /\ toward \in Nat /\ toward <= rest /\ status \in Terminal
    BY <2>1, LiveSlot DEF Terminal
  <2>3. ledger' \in Ledger
    BY <2>1, <2>2, PayTyped DEF PayOrCredit, Inductive, TypeOK
  <2> HIDE DEF toward
  <2>4. SlotsOK'
    BY <2>1, <2>2, SlotClosed
  <2> QED BY <2>1, <2>3, <2>4, InductiveFromParts
          DEF Inductive, TypeOK, jobVars, partyVars, pauseVars, lockVars
<1>2. ASSUME NEW i \in Milestones, NEW elapsed \in Int, NEW total \in Int,
             AdminOverrideStreamingRelease(i, elapsed, total)
      PROVE  Inductive'
  <2> DEFINE rest   == Remaining(ms[i])
             first  == SplitNearest(rest, elapsed, total).first
             second == SplitNearest(rest, elapsed, total).second
  <2>1. /\ Overridable(i) /\ ms[i].status = "Disputed" /\ CanSplitNearest(rest, elapsed, total)
        /\ \E l \in AfterPayIfAny(ledger, Client, second):
              ledger' \in AfterPayIfAny(l, freelancer, first)
        /\ CloseBySplit(i, second, first, rest)
        /\ UNCHANGED <<jobVars, partyVars, yieldAccrued, pauseVars, lockVars, now>>
    BY <1>2 DEF AdminOverrideStreamingRelease
  <2>2. i \in Live /\ MilestoneFunded(i) /\ UNCHANGED <<jobVars, acceptance>>
    BY <2>1 DEF Overridable, partyVars
  <2>3. rest \in Nat
    BY <2>1, <2>2, LiveSlot DEF IsTerminal, Terminal
  <2>4. first \in Nat /\ second \in Nat /\ first <= rest
    <3>1. elapsed \in Nat /\ total \in Nat
      BY <1>2, <2>1 DEF CanSplitNearest
    <3> HIDE DEF rest
    <3>2. first \in 0..rest /\ second \in 0..rest
      BY <2>1, <2>3, <3>1, SplitNearestExact
    <3> HIDE DEF first, second
    <3> QED BY <2>3, <3>2
  <2>5. freelancer \in Address /\ Client \in Address /\ ledger \in Ledger
    BY PartiesAssumption DEF Inductive, TypeOK
  <2> HIDE DEF first, second
  <2>6. ledger' \in Ledger
    BY <2>1, <2>4, <2>5, PayIfAnyTyped
  <2>7. SlotsOK' /\ reputation' \in [Address -> Nat]
    BY <2>1, <2>2, <2>4, CloseBySplitStep
  <2> QED BY <2>1, <2>6, <2>7, InductiveFromParts
          DEF Inductive, TypeOK, jobVars, partyVars, pauseVars, lockVars
<1>3. freelancer \in Address /\ Client \in Address
  BY PartiesAssumption DEF Inductive, TypeOK
<1>4. \A r \in ElapsedRatios: r[1] \in Int /\ r[2] \in Int
  BY OverridesAssumption
<1> QED BY <1>1, <1>2, <1>3, <1>4 DEF OverrideNext, AdminOverrideRelease, AdminOverrideRefund

LEMMA MultisigStep == ASSUME Inductive, MultisigNext PROVE Inductive'
<1>1. ASSUME NEW i \in Milestones, NEW to \in Address, NEW status \in {"Released", "Refunded"},
             MultisigAdminOverride(i, to, status)
      PROVE  Inductive'
  <2> DEFINE rest   == Remaining(ms[i])
             toward == IF status = "Released" THEN rest ELSE 0
  <2>1. /\ i \in Live /\ ~IsTerminal(ms[i]) /\ MilestoneFunded(i)
        /\ SetMilestone(i, Settled(ms[i], status, toward, rest))
        /\ PayOrCredit(to, rest) /\ multisigLocked' = FALSE
        /\ UNCHANGED <<jobVars, partyVars, yieldAccrued, reputation, pauseVars,
                       cancelApproval, cancelLock, now>>
        /\ UNCHANGED <<jobVars, acceptance>>
    BY <1>1 DEF MultisigAdminOverride, Overridable, partyVars
  <2>2. rest \in Nat /\ toward \in Nat /\ toward <= rest /\ status \in Terminal
    BY <2>1, LiveSlot DEF Terminal
  <2>3. ledger' \in Ledger
    BY <2>1, <2>2, PayTyped DEF PayOrCredit, Inductive, TypeOK
  <2> HIDE DEF toward
  <2>4. SlotsOK'
    BY <2>1, <2>2, SlotClosed
  <2> QED BY <2>1, <2>3, <2>4, InductiveFromParts
          DEF Inductive, TypeOK, jobVars, partyVars, pauseVars
<1>2. freelancer \in Address /\ Client \in Address
  BY PartiesAssumption DEF Inductive, TypeOK
<1> QED BY <1>1, <1>2, QuietStep
        DEF MultisigNext, MultisigAdminOverrideRelease, MultisigAdminOverrideRefund

-----------------------------------------------------------------------------
(***************************************************************************)
(* The constructor establishes the invariant, every step keeps it.         *)
(***************************************************************************)
LEMMA InitInductive == ASSUME Init PROVE Inductive
<1>1. PICK a \in [Milestones -> InitAmounts]:
         ms = [i \in Milestones |-> NewMilestone(IF i < InitCount THEN a[i] ELSE 0, FALSE)]
  BY DEF Init
<1>2. NoDispute \in DisputeInfo /\ ~NoDispute.open
  BY TimeAssumption DEF NoDispute, DisputeInfo, MilestoneStatus
<1>3. ASSUME NEW n \in Nat
      PROVE  LET m == NewMilestone(n, FALSE)
             IN  /\ Good(m) /\ m.amount = n /\ m.status = "Pending" /\ m.extension = 0
  <2> DEFINE m == NewMilestone(n, FALSE)
  <2>1. /\ m \in Milestone /\ m.amount = n /\ m.status = "Pending" /\ m.released = 0
        /\ m.paid = 0 /\ m.dispute = NoDispute /\ m.extension = 0
    BY <1>2, TimeAssumption DEF NewMilestone, Milestone, MilestoneStatus
  <2> HIDE DEF m
  <2>2. Good(m)
    BY <1>2, <2>1 DEF Good, PotCovered, UntouchedBeforePartial, DisputeRecorded, IsTerminal,
                      Terminal
  <2> QED BY <2>1, <2>2 DEF m
<1>4. count = InitCount /\ count \in 1..MaxMilestones
  BY JobAssumption DEF Init
<1>5. ASSUME NEW i \in Milestones PROVE ms[i] \in Milestone /\ SlotOK(i)
  <2> DEFINE n == IF i < InitCount THEN a[i] ELSE 0
  <2>1. n \in Nat /\ (i \in Live => n > 0) /\ (i \notin Live => n = 0)
    <3>1. /\ i \in Nat /\ InitCount \in Nat /\ (i \in Live <=> i < InitCount)
      BY <1>4, JobAssumption DEF Live, Milestones
    <3>2. a[i] \in Nat /\ a[i] > 0
      <4>1. a[i] \in InitAmounts /\ InitAmounts \subseteq Nat \ {0}
        BY JobAssumption
      <4>2. a[i] \in Nat /\ a[i] # 0
        BY <4>1
      <4> DEFINE k == a[i]
      <4> HIDE DEF k
      <4>3. k \in Nat /\ k # 0
        BY <4>2 DEF k
      <4>4. k > 0
        BY ONLY <4>3
      <4> QED BY <4>2, <4>4 DEF k
    <3> QED BY ONLY <3>1, <3>2 DEF n
  <2>2. ms[i] = NewMilestone(n, FALSE)
    BY <1>1
  <2> HIDE DEF n
  <2>3. /\ Good(ms[i]) /\ ms[i].amount = n /\ ms[i].status = "Pending" /\ ms[i].extension = 0
    BY <1>3, <2>1, <2>2
  <2>4. "Pending" \notin InReview \cup {"Disputed"}
    BY DEF InReview
  <2> QED BY <2>1, <2>2, <2>3, <2>4 DEF SlotOK, Good
<1>6. ms \in [Milestones -> Milestone]
  BY <1>1, <1>5
<1>7. /\ NoApproval \in CancelApproval /\ ledger \in Ledger
      /\ reputation \in [Address -> Nat]
  BY DEF Init, NoApproval, CancelApproval, Ledger
<1>8. TypeOK
  <2>1. totalAmount \in Int
    BY IntMaxAssumption DEF Init, Payable
  <2>2. /\ fundingMode \in FundingMode /\ funded = FALSE /\ fundedAt = 0 /\ acceptance = {}
        /\ freelancer \in Address /\ arbiter \in Address /\ yieldAccrued = 0
        /\ paused = FALSE /\ ep = FALSE /\ epParty = FALSE /\ now = 1
        /\ cancelApproval = NoApproval /\ cancelLock = FALSE /\ multisigLocked = FALSE
    BY JobAssumption, PartiesAssumption DEF Init
  <2> QED BY <1>4, <1>6, <1>7, <2>1, <2>2 DEF TypeOK
<1> QED BY <1>5, <1>8 DEF Inductive

LEMMA NextInductive == ASSUME Inductive, [Next]_vars PROVE Inductive'
<1>1. CASE Next
  BY <1>1, FundingStep, PartyStep, RefundStep, DeliveryStep, ApprovalStep, TokenStep, DisputeStep,
     CancelStep, QuietStep, OverrideStep, MultisigStep
     DEF Next
<1>2. CASE UNCHANGED vars
  <2>1. SlotsOK'
    BY <1>2, SlotsUnchanged DEF vars, partyVars
  <2> QED BY <1>2, <2>1, InductiveFromParts
          DEF Inductive, TypeOK, vars, jobVars, partyVars, moneyVars, pauseVars, lockVars
<1> QED BY <1>1, <1>2

\* The inductive invariant holds in every reachable state.
THEOREM InductiveInvariant == Spec => []Inductive
BY InitInductive, NextInductive, PTL DEF Spec

\* Every value stays in its type, whatever is called in whatever order.
THEOREM TypeCorrect == Spec => []TypeOK
<1>1. Inductive => TypeOK
  BY DEF Inductive
<1> QED BY <1>1, InductiveInvariant, PTL

LEMMA InductiveImplies ==
    ASSUME Inductive
    PROVE  /\ NothingReleasedBeforeReview /\ DisputesConsistent
           /\ ExtensionsBelongToReview /\ ReviewNeedsConsent
BY LiveSlot DEF Inductive, SlotOK, Good, NothingReleasedBeforeReview, DisputesConsistent, ExtensionsBelongToReview, ReviewNeedsConsent, Accepted, InReview

\* What may still be shrunk or sent back has released nothing.
THEOREM UntouchedWhileReducible == Spec => []NothingReleasedBeforeReview
BY InductiveInvariant, InductiveImplies, PTL

\* Dispute records and disputed milestones go together.
THEOREM DisputesRecorded == Spec => []DisputesConsistent
BY InductiveInvariant, InductiveImplies, PTL

\* No extension survives into the next review.
THEOREM ExtensionsDropped == Spec => []ExtensionsBelongToReview
BY InductiveInvariant, InductiveImplies, PTL

\* Nothing is reviewed, disputed or settled before consent and funding.
THEOREM ConsentFirst == Spec => []ReviewNeedsConsent
BY InductiveInvariant, InductiveImplies, PTL
=============================================================================
