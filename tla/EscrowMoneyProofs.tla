---------------------------- MODULE EscrowMoneyProofs ----------------------------
(***************************************************************************)
(* The money of the whole contract, for any number of milestones and       *)
(* addresses: the stored total is the sum of the milestones, the contract  *)
(* always holds what is left in them and what it owes, every call is a     *)
(* movement of Custody, and reputation is earned by releases.              *)
(***************************************************************************)
EXTENDS EscrowPotProofs

-----------------------------------------------------------------------------
(***************************************************************************)
(* Sums over the milestones: the slots that are not in use count nothing.  *)
(***************************************************************************)
WorthOf(m) == SumFunctionOnSet([i \in Milestones |-> m[i].amount], Milestones)

HeldSum == SumFunctionOnSet([i \in Milestones |-> HeldFor(i)], Milestones)

LEMMA MilestonesFinite == IsFiniteSet(Milestones)
  BY FS_Interval, JobAssumption DEF Milestones

\* The stored total is compared with the amounts of all slots.
LEMMA JobTotalOverSlots == Inductive => (JobTotal <=> totalAmount = WorthOf(ms))
<1> SUFFICES ASSUME Inductive PROVE SumFunction([i \in Live |-> ms[i].amount]) = WorthOf(ms)
  BY DEF JobTotal
<1> DEFINE f == [i \in Live |-> ms[i].amount]
           g == [i \in Milestones |-> ms[i].amount]
<1>1. Live \in SUBSET Milestones /\ \A i \in Milestones: ms[i].amount \in Nat
  BY LiveSlot, MilestonesAreRecords DEF Milestone
<1>2. \A i \in Live: f[i] \in Int /\ f[i] = g[i]
  BY <1>1
<1>3. \A i \in Milestones \ Live: g[i] = 0
  BY DEF Inductive, SlotOK, NewMilestone
<1>4. SumFunctionOnSet(f, Live) = SumFunctionOnSet(g, Milestones)
  <2> HIDE DEF f, g
  <2> QED
    BY <1>1, <1>2, <1>3, MilestonesFinite, SumWithin
<1>5. SumFunction(f) = SumFunctionOnSet(f, Live)
  BY DEF SumFunction
<1> QED
  BY <1>4, <1>5 DEF WorthOf

LEMMA JobTotalOverSlotsNext == Inductive' => (JobTotal' <=> totalAmount' = WorthOf(ms'))
<1>1. (Inductive => (JobTotal <=> totalAmount = WorthOf(ms)))'
  BY JobTotalOverSlots, PTL
<1> QED
  BY <1>1 DEF WorthOf

\* What a milestone holds, in terms of what it paid.
LEMMA HeldTyped ==
    Inductive => \A i \in Milestones:
       /\ HeldFor(i) \in Nat
       /\ HeldFor(i) = IF i \in Live /\ ~IsTerminal(ms[i]) /\ MilestoneFunded(i)
                       THEN ms[i].amount - ms[i].paid ELSE 0
<1> SUFFICES ASSUME Inductive, NEW i \in Milestones
             PROVE  /\ HeldFor(i) \in Nat
                    /\ HeldFor(i) = IF i \in Live /\ ~IsTerminal(ms[i]) /\ MilestoneFunded(i)
                                    THEN ms[i].amount - ms[i].paid ELSE 0
  OBVIOUS
<1>1. CASE i \in FundedOpen
  <2>1. i \in Live /\ ~IsTerminal(ms[i]) /\ MilestoneFunded(i)
    BY <1>1 DEF FundedOpen, Open
  <2>2. Remaining(ms[i]) \in Nat /\ ms[i].paid = ms[i].released
    BY <2>1, LiveSlot DEF Good, PotCovered
  <2> QED
    BY <1>1, <2>1, <2>2 DEF HeldFor, Remaining
<1>2. CASE i \notin FundedOpen
  BY <1>2 DEF HeldFor, FundedOpen, Open
<1> QED
  BY <1>1, <1>2

LEMMA HeldTypedNext ==
    Inductive' => \A i \in Milestones:
       /\ HeldFor(i)' \in Nat
       /\ HeldFor(i)' = IF i \in Live' /\ ~IsTerminal(ms'[i]) /\ MilestoneFunded(i)'
                        THEN ms'[i].amount - ms'[i].paid ELSE 0
<1>1. (Inductive => \A i \in Milestones:
         /\ HeldFor(i) \in Nat
         /\ HeldFor(i) = IF i \in Live /\ ~IsTerminal(ms[i]) /\ MilestoneFunded(i)
                         THEN ms[i].amount - ms[i].paid ELSE 0)'
  BY HeldTyped, PTL
<1> QED
  BY <1>1 DEF IsTerminal

LEMMA HeldIsRemaining ==
    Inductive => TotalRemaining(FundedOpen) = HeldSum /\ HeldSum \in Nat
<1> SUFFICES ASSUME Inductive PROVE TotalRemaining(FundedOpen) = HeldSum /\ HeldSum \in Nat
  OBVIOUS
<1> DEFINE f == [i \in FundedOpen |-> Remaining(ms[i])]
           g == [i \in Milestones |-> HeldFor(i)]
<1>1. FundedOpen \in SUBSET Milestones
  BY LiveSlot DEF FundedOpen
<1>2. \A i \in Milestones: g[i] \in Nat
  BY HeldTyped
<1>3. /\ \A i \in FundedOpen: f[i] \in Int /\ f[i] = g[i]
      /\ \A i \in Milestones \ FundedOpen: g[i] = 0
  BY <1>1, <1>2 DEF HeldFor
<1>4. SumFunctionOnSet(f, FundedOpen) = SumFunctionOnSet(g, Milestones)
      /\ SumFunctionOnSet(g, Milestones) \in Nat
  <2> HIDE DEF f, g
  <2> QED
    BY <1>1, <1>2, <1>3, MilestonesFinite, SumWithin, SumNat
<1>5. SumFunction(f) = SumFunctionOnSet(f, FundedOpen)
  BY DEF SumFunction
<1> QED
  BY <1>4, <1>5 DEF TotalRemaining, HeldSum

LEMMA HeldIsRemainingNext ==
    Inductive' => TotalRemaining(FundedOpen)' = HeldSum' /\ HeldSum' \in Nat
<1>1. (Inductive => TotalRemaining(FundedOpen) = HeldSum /\ HeldSum \in Nat)'
  BY HeldIsRemaining, PTL
<1> QED
  BY <1>1

\* What the contract owes, address by address.
LEMMA OwedSumOver ==
    Inductive => OwedSum = SumFunctionOnSet(ledger.owed, Address) /\ OwedSum \in Nat
<1> SUFFICES ASSUME Inductive
             PROVE  OwedSum = SumFunctionOnSet(ledger.owed, Address) /\ OwedSum \in Nat
  OBVIOUS
<1>1. ledger.owed \in [Address -> Nat] /\ IsFiniteSet(Address)
  BY PartiesAssumption DEF Inductive, TypeOK, Ledger
<1>2. SumFunctionOnSet(ledger.owed, Address) \in Nat
  BY <1>1, SumNat
<1> QED
  BY <1>1, <1>2 DEF OwedSum, SumFunction

LEMMA OwedSumOverNext ==
    Inductive' => OwedSum' = SumFunctionOnSet(ledger'.owed, Address) /\ OwedSum' \in Nat
<1>1. (Inductive => OwedSum = SumFunctionOnSet(ledger.owed, Address) /\ OwedSum \in Nat)'
  BY OwedSumOver, PTL
<1> QED
  BY <1>1
-----------------------------------------------------------------------------
(***************************************************************************)
(* Payments: what a leg takes is taken from the free balance, whether it   *)
(* is transferred or credited.                                             *)
(***************************************************************************)
Owed(l) == SumFunctionOnSet(l.owed, Address)

PaidOut(l, r, amt) ==
    /\ r \in Ledger
    /\ \A a \in Address: l.owed[a] <= r.owed[a]
    /\ Owed(r) - Owed(l) = r.totalOwed - l.totalOwed
    /\ r.balance <= l.balance
    /\ Available(r) = Available(l) - amt

LEMMA OwedTyped == ASSUME NEW l \in Ledger PROVE Owed(l) \in Nat
  BY SumNat, PartiesAssumption DEF Owed, Ledger

LEMMA TransferPaysOut ==
    ASSUME NEW l \in Ledger, NEW amt \in Nat, amt <= l.balance
    PROVE  PaidOut(l, Transferred(l, amt), amt)
<1> DEFINE r == Transferred(l, amt)
<1>1. r.balance = l.balance - amt /\ r.owed = l.owed /\ r.totalOwed = l.totalOwed
  BY DEF Transferred, Ledger
<1>2. r \in Ledger
  BY DEF Transferred, Ledger
<1> HIDE DEF r
<1>3. l.balance \in Nat /\ l.totalOwed \in Int /\ l.owed \in [Address -> Nat]
  BY DEF Ledger
<1>4. Owed(r) = Owed(l) /\ Owed(l) \in Nat
  BY <1>1, OwedTyped DEF Owed
<1>5. PaidOut(l, r, amt)
  BY <1>1, <1>2, <1>3, <1>4 DEF PaidOut, Available
<1> QED
  BY <1>5 DEF r

LEMMA CreditPaysOut ==
    ASSUME NEW l \in Ledger, NEW to \in Address, NEW amt \in Nat
    PROVE  PaidOut(l, Credited(l, to, amt), amt)
<1> DEFINE c == [l EXCEPT !.owed[to] = @ + amt]
           r == Credited(l, to, amt)
<1>1. l.balance \in Nat /\ l.totalOwed \in Int /\ l.owed \in [Address -> Nat]
  BY DEF Ledger
<1>2. /\ c \in Ledger /\ c.balance = l.balance /\ c.totalOwed = l.totalOwed
      /\ c.owed = [l.owed EXCEPT ![to] = @ + amt]
  BY <1>1 DEF Ledger
<1>3. r = [c EXCEPT !.totalOwed = @ + amt]
  BY DEF Credited
<1> HIDE DEF c, r
<1>4. r \in Ledger /\ r.balance = c.balance /\ r.owed = c.owed /\ r.totalOwed = c.totalOwed + amt
  BY <1>1, <1>2, <1>3 DEF Ledger
<1>5. \A a \in Address: r.owed[a] = IF a = to THEN l.owed[a] + amt ELSE l.owed[a]
  BY <1>1, <1>2, <1>4
<1>6. Owed(r) = Owed(l) + amt
  <2> DEFINE f == l.owed
             g == r.owed
  <2>1. \A a \in Address: f[a] \in Int /\ g[a] \in Int /\ (a # to => g[a] = f[a])
    BY <1>1, <1>5
  <2>2. g[to] = f[to] + amt /\ f[to] \in Int
    BY <1>1, <1>5
  <2> HIDE DEF f, g
  <2>3. SumFunctionOnSet(g, Address) = SumFunctionOnSet(f, Address) - f[to] + g[to]
    BY <2>1, SumChanged, PartiesAssumption
  <2>4. SumFunctionOnSet(f, Address) \in Int
    BY <2>1, SumInt, PartiesAssumption
  <2>5. SumFunctionOnSet(g, Address) = SumFunctionOnSet(f, Address) + amt
    BY <2>2, <2>3, <2>4
  <2> QED
    BY <2>5 DEF Owed, f, g
<1>7. Owed(l) \in Nat
  BY OwedTyped
<1>8. \A a \in Address: l.owed[a] <= r.owed[a]
  BY <1>1, <1>5
<1>9. PaidOut(l, r, amt)
  BY <1>1, <1>2, <1>4, <1>6, <1>7, <1>8 DEF PaidOut, Available
<1> QED
  BY <1>9 DEF r

LEMMA PayPaysOut ==
    ASSUME NEW l \in Ledger, NEW to \in Address, NEW amt \in Nat, NEW r \in AfterPay(l, to, amt)
    PROVE  PaidOut(l, r, amt)
  BY TransferPaysOut, CreditPaysOut DEF AfterPay

LEMMA NothingPaysOut == ASSUME NEW l \in Ledger PROVE PaidOut(l, l, 0)
<1>1. l.balance \in Nat /\ l.totalOwed \in Int /\ l.owed \in [Address -> Nat]
  BY DEF Ledger
<1> QED
  BY <1>1, OwedTyped DEF PaidOut, Available

LEMMA LegPaysOut ==
    ASSUME NEW l \in Ledger, NEW to \in Address, NEW amt \in Nat,
           NEW r \in AfterPayIfAny(l, to, amt)
    PROVE  PaidOut(l, r, amt)
<1>1. CASE amt > 0
  BY <1>1, PayPaysOut DEF AfterPayIfAny
<1>2. CASE ~(amt > 0)
  BY <1>2, NothingPaysOut DEF AfterPayIfAny
<1> QED
  BY <1>1, <1>2

\* The legs of one call add up.
LEMMA LegsPayOut ==
    ASSUME NEW l \in Ledger, NEW k, NEW r, NEW x \in Nat, NEW y \in Nat,
           PaidOut(l, k, x), PaidOut(k, r, y)
    PROVE  PaidOut(l, r, x + y)
<1>1. /\ l.balance \in Nat /\ l.totalOwed \in Int /\ l.owed \in [Address -> Nat]
      /\ k.balance \in Nat /\ k.totalOwed \in Int /\ k.owed \in [Address -> Nat]
      /\ r.balance \in Nat /\ r.totalOwed \in Int /\ r.owed \in [Address -> Nat]
      /\ Owed(l) \in Nat /\ Owed(k) \in Nat /\ Owed(r) \in Nat
  BY OwedTyped DEF PaidOut, Ledger
<1>2. \A a \in Address: l.owed[a] <= k.owed[a] /\ k.owed[a] <= r.owed[a]
  BY DEF PaidOut
<1>3. \A a \in Address: l.owed[a] <= r.owed[a]
  <2> SUFFICES ASSUME NEW a \in Address PROVE l.owed[a] <= r.owed[a]
    OBVIOUS
  <2>1. l.owed[a] \in Nat /\ k.owed[a] \in Nat /\ r.owed[a] \in Nat
    BY <1>1
  <2> QED
    BY <1>2, <2>1
<1> QED
  BY <1>1, <1>3 DEF PaidOut, Available
-----------------------------------------------------------------------------
(***************************************************************************)
(* Solvency, and the movements of Custody, in terms of the sums.           *)
(***************************************************************************)
LEMMA SolventOver ==
    Inductive => /\ Surplus = ledger.balance - HeldSum - Owed(ledger)
                 /\ Solvent <=> /\ ledger.totalOwed = Owed(ledger)
                                /\ ledger.balance >= HeldSum + ledger.totalOwed
  BY HeldIsRemaining, OwedSumOver DEF Solvent, Surplus, Owed

LEMMA SolventOverNext ==
    Inductive' => /\ Surplus' = ledger'.balance - HeldSum' - Owed(ledger')
                  /\ Solvent' <=> /\ ledger'.totalOwed = Owed(ledger')
                                  /\ ledger'.balance >= HeldSum' + ledger'.totalOwed
<1>1. (Inductive => /\ Surplus = ledger.balance - HeldSum - Owed(ledger)
                    /\ Solvent <=> /\ ledger.totalOwed = Owed(ledger)
                                   /\ ledger.balance >= HeldSum + ledger.totalOwed)'
  BY SolventOver, PTL
<1> QED
  BY <1>1 DEF Owed

\* Custody sums what the escrow sums.
LEMMA CustodySums == ASSUME NEW f PROVE Vault!SumFunction(f) = SumFunctionOnSet(f, DOMAIN f)
  BY Zenon DEF Vault!SumFunction, Vault!SumFunctionOnSet, Vault!FoldFunctionOnSet,
     Vault!MapThenFoldSet, SumFunctionOnSet, FoldFunctionOnSet, MapThenFoldSet

LEMMA GrownIsDifference ==
    ASSUME NEW S, IsFiniteSet(S), NEW before, NEW after,
           \A x \in S: before[x] \in Int /\ after[x] \in Int
    PROVE  Vault!Grown(before, after, S)
             = SumFunctionOnSet(after, S) - SumFunctionOnSet(before, S)
<1> DEFINE d == [x \in S |-> after[x] - before[x]]
<1>1. \A x \in S: d[x] \in Int /\ after[x] = before[x] + d[x]
  OBVIOUS
<1>2. Vault!Grown(before, after, S) = SumFunctionOnSet(d, S)
  BY CustodySums DEF Vault!Grown
<1> HIDE DEF d
<1>3. SumFunctionOnSet(after, S) = SumFunctionOnSet(before, S) + SumFunctionOnSet(d, S)
  BY <1>1, SumsAdd
<1>4. SumFunctionOnSet(before, S) \in Int /\ SumFunctionOnSet(d, S) \in Int
  BY <1>1, SumInt
<1> QED
  BY <1>2, <1>3, <1>4

\* Milestones are settled and the contract pays what they gave up.
LEMMA SettleStep ==
    ASSUME Inductive, Inductive', Solvent, NEW amt \in Nat,
           \A i \in Milestones: HeldFor(i)' <= HeldFor(i),
           HeldSum' = HeldSum - amt, PaidOut(ledger, ledger', amt)
    PROVE  Solvent' /\ Vault!Settle
<1>1. /\ ledger.balance \in Nat /\ ledger.totalOwed \in Int /\ ledger.owed \in [Address -> Nat]
      /\ ledger'.balance \in Nat /\ ledger'.totalOwed \in Int /\ ledger'.owed \in [Address -> Nat]
      /\ ledger \in Ledger /\ ledger' \in Ledger
  BY DEF PaidOut, Ledger, Inductive, TypeOK
<1>2. /\ Owed(ledger) \in Nat /\ Owed(ledger') \in Nat /\ HeldSum \in Nat /\ HeldSum' \in Nat
  BY <1>1, OwedTyped, HeldIsRemaining, HeldIsRemainingNext
<1>3. /\ ledger.totalOwed = Owed(ledger) /\ ledger.balance >= HeldSum + ledger.totalOwed
      /\ Owed(ledger') - Owed(ledger) = ledger'.totalOwed - ledger.totalOwed
      /\ ledger'.balance <= ledger.balance
      /\ ledger'.balance - ledger'.totalOwed = ledger.balance - ledger.totalOwed - amt
  BY SolventOver DEF PaidOut, Available
<1>4. Solvent' /\ Surplus' = Surplus
  BY <1>1, <1>2, <1>3, SolventOver, SolventOverNext
<1>5. Owed(ledger') - Owed(ledger) <= HeldSum - HeldSum'
  BY <1>1, <1>2, <1>3
<1> DEFINE held == [i \in Milestones |-> HeldFor(i)]
<1>6. held \in [Milestones -> Nat] /\ held' \in [Milestones -> Nat]
  BY HeldTyped, HeldTypedNext
<1>7. Vault!Grown(ledger.owed, ledger'.owed, Address) = Owed(ledger') - Owed(ledger)
  BY <1>1, GrownIsDifference, PartiesAssumption DEF Owed
<1>8. Vault!Grown(held', held, Milestones) = HeldSum - HeldSum'
  <2> DEFINE h == held'
             g == held
  <2>1. \A i \in Milestones: h[i] \in Int /\ g[i] \in Int
    BY <1>6
  <2>2. SumFunctionOnSet(g, Milestones) = HeldSum /\ SumFunctionOnSet(h, Milestones) = HeldSum'
    BY DEF HeldSum
  <2> HIDE DEF h, g
  <2>3. Vault!Grown(h, g, Milestones) = HeldSum - HeldSum'
    BY <2>1, <2>2, GrownIsDifference, MilestonesFinite
  <2> QED
    BY <2>3 DEF h, g
<1>9. \A a \in Address: ledger.owed[a] <= ledger'.owed[a]
  BY DEF PaidOut
<1> QED
  BY <1>1, <1>4, <1>5, <1>6, <1>7, <1>8, <1>9 DEF Vault!Settle
\* What a step that only pays takes from a milestone is what the milestone holds less.
LEMMA HeldFollowsPaid ==
    ASSUME Inductive, Inductive', PaidWithinAmount, PaidWithinAmount', OnlyPaid,
           NEW i \in Milestones
    PROVE  /\ ms[i].paid \in Nat /\ ms'[i].paid \in Nat
           /\ HeldFor(i)' = HeldFor(i) - (ms'[i].paid - ms[i].paid)
           /\ HeldFor(i)' <= HeldFor(i)
<1>1. Live' = Live /\ MilestoneFunded(i)' = MilestoneFunded(i) /\ PaidOn(ms[i], ms'[i])
  BY DEF OnlyPaid, PaidOn, Live, MilestoneFunded
<1>2. /\ HeldFor(i) \in Nat /\ HeldFor(i)' \in Nat
      /\ HeldFor(i) = IF i \in Live /\ ~IsTerminal(ms[i]) /\ MilestoneFunded(i)
                      THEN ms[i].amount - ms[i].paid ELSE 0
      /\ HeldFor(i)' = IF i \in Live /\ ~IsTerminal(ms'[i]) /\ MilestoneFunded(i)
                       THEN ms'[i].amount - ms'[i].paid ELSE 0
  BY <1>1, HeldTyped, HeldTypedNext
<1>3. /\ ms[i].paid \in Nat /\ ms[i].amount \in Nat /\ ms'[i].paid \in Nat
      /\ ms'[i].amount = ms[i].amount
  <2>1. ms' \in [Milestones -> Milestone]
    BY DEF Inductive, TypeOK
  <2>2. ms'[i] \in Milestone /\ ms[i] \in Milestone
    BY <2>1, MilestonesAreRecords
  <2> QED
    BY <1>1, <2>2 DEF Milestone, PaidOn
<1>4. CASE ms'[i].paid = ms[i].paid /\ (IsTerminal(ms'[i]) <=> IsTerminal(ms[i]))
  BY <1>2, <1>3, <1>4
<1>5. CASE ~(ms'[i].paid = ms[i].paid /\ (IsTerminal(ms'[i]) <=> IsTerminal(ms[i])))
  <2>1. /\ ~IsTerminal(ms[i])
        /\ \/ ~IsTerminal(ms'[i]) /\ ms[i].paid < ms'[i].paid /\ ms'[i].paid < ms[i].amount
           \/ IsTerminal(ms'[i]) /\ ms'[i].paid = ms[i].amount
    BY <1>1, <1>5, Zenon DEF PaidOn
  <2>2. i \in Live /\ MilestoneFunded(i)
    <3>1. CASE i \notin Live
      <4>1. ms'[i] = ms[i]
        BY <1>1, <3>1, SlotFacts, SlotFactsNext
      <4> QED
        BY <1>5, <4>1
    <3>2. CASE i \in Live /\ IsTerminal(ms'[i])
      <4>1. MilestoneFunded(i)'
        BY <1>1, <3>2, SlotFactsNext
      <4> QED
        BY <1>1, <3>2, <4>1
    <3>3. CASE i \in Live /\ ~IsTerminal(ms'[i])
      <4>1. ms'[i].paid # 0
        BY <1>3, <2>1, <3>3
      <4>2. MilestoneFunded(i)'
        BY <1>1, <3>3, <4>1, SlotFactsNext
      <4> QED
        BY <1>1, <3>3, <4>2
    <3> QED
      BY <3>1, <3>2, <3>3
  <2> QED
    BY <1>2, <1>3, <2>1, <2>2
<1> QED
  BY <1>4, <1>5

\* One milestone is paid amt.
LEMMA OneHeld ==
    ASSUME Inductive, Inductive', PaidWithinAmount, PaidWithinAmount', OnlyPaid,
           NEW j \in Milestones, NEW amt \in Nat,
           \A i \in Milestones \ {j}: ms'[i].paid = ms[i].paid,
           ms'[j].paid = ms[j].paid + amt
    PROVE  HeldSum' = HeldSum - amt
<1> DEFINE f == [i \in Milestones |-> HeldFor(i)]
           g == [i \in Milestones |-> HeldFor(i)']
<1>1. \A i \in Milestones: f[i] \in Nat /\ g[i] \in Nat /\ (i # j => g[i] = f[i])
  <2> SUFFICES ASSUME NEW i \in Milestones
               PROVE  HeldFor(i) \in Nat /\ HeldFor(i)' \in Nat /\ (i # j => HeldFor(i)' = HeldFor(i))
    OBVIOUS
  <2>1. HeldFor(i) \in Nat /\ HeldFor(i)' \in Nat
    BY HeldTyped, HeldTypedNext
  <2> QED
    BY <2>1, HeldFollowsPaid
<1>2. g[j] = f[j] - amt
  BY HeldFollowsPaid
<1>3. SumFunctionOnSet(f, Milestones) = HeldSum /\ SumFunctionOnSet(g, Milestones) = HeldSum'
  BY DEF HeldSum
<1> HIDE DEF f, g
<1>4. SumFunctionOnSet(g, Milestones) = SumFunctionOnSet(f, Milestones) - f[j] + g[j]
  BY <1>1, SumChanged, MilestonesFinite
<1>5. HeldSum \in Nat /\ f[j] \in Nat
  BY <1>1, HeldIsRemaining
<1> QED
  BY <1>2, <1>3, <1>4, <1>5

\* Several milestones are paid all that is left of them.
LEMMA ManyHeld ==
    ASSUME Inductive, Inductive', PaidWithinAmount, PaidWithinAmount', OnlyPaid,
           NEW S, S \subseteq Open,
           \A i \in S: ms'[i].paid = ms[i].paid + Remaining(ms[i]),
           \A i \in Milestones \ S: ms'[i].paid = ms[i].paid
    PROVE  HeldSum' = HeldSum - TotalRemaining(S) /\ TotalRemaining(S) \in Nat
<1> DEFINE r == [i \in S |-> Remaining(ms[i])]
           d == [i \in Milestones |-> ms'[i].paid - ms[i].paid]
           f == [i \in Milestones |-> HeldFor(i)]
           g == [i \in Milestones |-> HeldFor(i)']
<1>1. S \in SUBSET Milestones /\ \A i \in S: Remaining(ms[i]) \in Nat
  BY LiveSlot DEF Open
<1>2. \A i \in Milestones: /\ f[i] \in Nat /\ g[i] \in Nat /\ d[i] \in Int
                           /\ f[i] = g[i] + d[i]
  <2> SUFFICES ASSUME NEW i \in Milestones
               PROVE  /\ HeldFor(i) \in Nat /\ HeldFor(i)' \in Nat
                      /\ ms'[i].paid - ms[i].paid \in Int
                      /\ HeldFor(i) = HeldFor(i)' + (ms'[i].paid - ms[i].paid)
    OBVIOUS
  <2>1. HeldFor(i) \in Nat /\ HeldFor(i)' \in Nat
    BY HeldTyped, HeldTypedNext
  <2> QED
    BY <2>1, HeldFollowsPaid
<1>3. \A i \in S: r[i] \in Int /\ r[i] = d[i]
  <2> SUFFICES ASSUME NEW i \in S
               PROVE  /\ Remaining(ms[i]) \in Int
                      /\ Remaining(ms[i]) = ms'[i].paid - ms[i].paid
    BY <1>1
  <2>1. ms[i].paid \in Nat /\ i \in Milestones
    BY <1>1, HeldFollowsPaid
  <2> QED
    BY <1>1, <2>1
<1>4. \A i \in Milestones \ S: d[i] = 0
  <2> SUFFICES ASSUME NEW i \in Milestones \ S PROVE ms'[i].paid - ms[i].paid = 0
    OBVIOUS
  <2>1. ms[i].paid \in Nat
    BY HeldFollowsPaid
  <2> QED
    BY <2>1
<1>5. SumFunctionOnSet(f, Milestones) = HeldSum /\ SumFunctionOnSet(g, Milestones) = HeldSum'
  BY DEF HeldSum
<1>6. TotalRemaining(S) = SumFunctionOnSet(r, S) /\ \A i \in S: r[i] \in Nat
  BY <1>1 DEF TotalRemaining, SumFunction
<1> HIDE DEF r, d, f, g
<1>7. SumFunctionOnSet(r, S) = SumFunctionOnSet(d, Milestones)
  BY <1>1, <1>3, <1>4, SumWithin, MilestonesFinite
<1>8. SumFunctionOnSet(f, Milestones) = SumFunctionOnSet(g, Milestones) + SumFunctionOnSet(d, Milestones)
  BY <1>2, SumsAdd, MilestonesFinite
<1>9. IsFiniteSet(S)
  BY <1>1, MilestonesFinite, FS_Subset
<1>10. SumFunctionOnSet(r, S) \in Nat
  BY <1>6, <1>9, SumNat
<1>11. HeldSum' \in Nat
  BY HeldIsRemainingNext
<1> QED
  BY <1>5, <1>6, <1>7, <1>8, <1>10, <1>11
-----------------------------------------------------------------------------
(***************************************************************************)
(* The calls that only pay are settlements of Custody, or move no money.   *)
(***************************************************************************)
CustodyMove == Solvent' /\ [Vault!Next]_<<[i \in Milestones |-> HeldFor(i)], ledger.owed, Surplus>>

\* Before and after a step, all that the settlements rely on.
Paying ==
    /\ Inductive /\ Inductive' /\ PaidWithinAmount /\ PaidWithinAmount'
    /\ Solvent /\ OnlyPaid

LEMMA SettledPaid ==
    ASSUME NEW m \in Milestone, NEW status, NEW toward, NEW amt
    PROVE  \A x \in {Settled(m, status, toward, amt),
                     WithoutExtension(Settled(m, status, toward, amt)),
                     Closed(Settled(m, status, toward, amt))}: x.paid = m.paid + amt
  BY DEF Settled, WithoutExtension, WithoutDispute, Closed, Milestone

LEMMA OneSettled ==
    ASSUME Paying, NEW j \in Milestones, NEW m, SetMilestone(j, m), NEW amt \in Nat,
           m.paid = ms[j].paid + amt, PaidOut(ledger, ledger', amt)
    PROVE  CustodyMove
<1>1. ms' = [ms EXCEPT ![j] = m] /\ ms \in [Milestones -> Milestone]
  BY DEF SetMilestone, Paying, Inductive, TypeOK
<1>2. ms'[j] = m /\ \A i \in Milestones \ {j}: ms'[i].paid = ms[i].paid
  BY <1>1
<1>3. HeldSum' = HeldSum - amt
  BY <1>2, OneHeld DEF Paying
<1>4. \A i \in Milestones: HeldFor(i)' <= HeldFor(i)
  BY HeldFollowsPaid DEF Paying
<1> QED
  BY <1>3, <1>4, SettleStep DEF Paying, CustodyMove, Vault!Next

LEMMA ManySettled ==
    ASSUME Paying, NEW S, S \subseteq Open, NEW f,
           ms' = [i \in Milestones |-> IF i \in S THEN f[i] ELSE ms[i]],
           \A i \in S: f[i].paid = ms[i].paid + Remaining(ms[i]),
           TotalRemaining(S) \in Nat => PaidOut(ledger, ledger', TotalRemaining(S))
    PROVE  CustodyMove
<1>1. S \subseteq Milestones
  BY LiveSlot DEF Open, Paying
<1>2. /\ \A i \in S: ms'[i].paid = ms[i].paid + Remaining(ms[i])
      /\ \A i \in Milestones \ S: ms'[i].paid = ms[i].paid
  BY <1>1
<1>3. HeldSum' = HeldSum - TotalRemaining(S) /\ TotalRemaining(S) \in Nat
  BY <1>2, ManyHeld DEF Paying
<1>4. \A i \in Milestones: HeldFor(i)' <= HeldFor(i)
  BY HeldFollowsPaid DEF Paying
<1> QED
  BY <1>3, <1>4, SettleStep DEF Paying, CustodyMove, Vault!Next

\* No milestone is paid and the ledger stays.
LEMMA NothingSettled ==
    ASSUME Paying, ledger' = ledger, \A i \in Milestones: ms'[i].paid = ms[i].paid
    PROVE  CustodyMove
<1>1. \A i \in Milestones: HeldFor(i)' = HeldFor(i)
  <2> SUFFICES ASSUME NEW i \in Milestones PROVE HeldFor(i)' = HeldFor(i)
    OBVIOUS
  <2>1. HeldFor(i) \in Nat
    BY HeldTyped DEF Paying
  <2> QED
    BY <2>1, HeldFollowsPaid DEF Paying
<1> DEFINE held == [i \in Milestones |-> HeldFor(i)]
<1>2. held' = held
  BY <1>1
<1>3. HeldSum' = HeldSum
  BY <1>2 DEF HeldSum
<1>4. Surplus' = Surplus /\ Solvent'
  BY <1>3, SolventOver, SolventOverNext DEF Paying
<1> QED
  BY <1>2, <1>4 DEF CustodyMove

LEMMA PayOrCreditPaysOut ==
    ASSUME Inductive, NEW to \in Address, NEW amt \in Nat, PayOrCredit(to, amt)
    PROVE  PaidOut(ledger, ledger', amt)
  BY PayPaysOut DEF PayOrCredit, Inductive, TypeOK

LEMMA RefundsSettle == ASSUME Paying, RefundNext PROVE CustodyMove
<1>1. Client \in Address /\ \A i \in Milestones: ms[i] \in Milestone
  BY PartiesAssumption, MilestonesAreRecords DEF Paying
<1>2. CASE WithdrawUnaccepted
  <2> DEFINE f == [i \in Due |-> Settled(ms[i], "Refunded", 0, Remaining(ms[i]))]
  <2>1. /\ ms' = [i \in Milestones |-> IF i \in Due THEN f[i] ELSE ms[i]]
        /\ PayOrCredit(Client, TotalRemaining(Due))
    BY <1>2 DEF WithdrawUnaccepted
  <2>2. Due \subseteq Open /\ Due \subseteq Milestones
    BY LiveSlot DEF Due, Open, Paying
  <2>3. \A i \in Due: f[i].paid = ms[i].paid + Remaining(ms[i])
    BY <1>1, <2>2, SettledPaid
  <2> HIDE DEF f
  <2>4. TotalRemaining(Due) \in Nat => PaidOut(ledger, ledger', TotalRemaining(Due))
    BY <1>1, <2>1, PayOrCreditPaysOut DEF Paying
  <2> QED
    BY <2>1, <2>2, <2>3, <2>4, ManySettled
<1>3. ASSUME NEW j \in Milestones, ReclaimOverdue(j) PROVE CustodyMove
  <2> DEFINE rest == Remaining(ms[j])
             m == Settled(ms[j], "Refunded", 0, rest)
  <2>1. SetMilestone(j, m) /\ PayOrCredit(Client, rest) /\ j \in Live /\ ~IsTerminal(ms[j])
    BY <1>3 DEF ReclaimOverdue, IsTerminal, Terminal
  <2>2. rest \in Nat
    BY <2>1, LiveSlot DEF Paying
  <2>3. m.paid = ms[j].paid + rest
    BY <1>1, SettledPaid
  <2> HIDE DEF m, rest
  <2>4. PaidOut(ledger, ledger', rest)
    BY <1>1, <2>1, <2>2, PayOrCreditPaysOut DEF Paying
  <2> QED
    BY <2>1, <2>2, <2>3, <2>4, OneSettled
<1> QED
  BY <1>2, <1>3 DEF RefundNext

\* One milestone is rewritten and its money stays.
LEMMA OneKept ==
    ASSUME Paying, ledger' = ledger, NEW j \in Milestones, NEW m, SetMilestone(j, m),
           m.paid = ms[j].paid
    PROVE  CustodyMove
<1>1. ms' = [ms EXCEPT ![j] = m] /\ ms \in [Milestones -> Milestone]
  BY DEF SetMilestone, Paying, Inductive, TypeOK
<1>2. \A i \in Milestones: ms'[i].paid = ms[i].paid
  BY <1>1
<1> QED
  BY <1>2, NothingSettled

LEMMA DeliveriesMoveNothing == ASSUME Paying, DeliveryNext PROVE CustodyMove
<1>1. \A i \in Milestones: ms[i] \in Milestone
  BY MilestonesAreRecords DEF Paying
<1>2. ASSUME NEW j \in Milestones, MarkDelivered(j) PROVE CustodyMove
  <2> DEFINE m == [ms[j] EXCEPT !.status = "Delivered", !.deliveredAt = now]
  <2>1. SetMilestone(j, m) /\ ledger' = ledger
    BY <1>2 DEF MarkDelivered, moneyVars
  <2>2. m.paid = ms[j].paid
    BY <1>1 DEF Milestone
  <2> HIDE DEF m
  <2> QED
    BY <2>1, <2>2, OneKept
<1>3. ASSUME NEW j \in Milestones, RequestRevision(j) PROVE CustodyMove
  <2> DEFINE m == WithoutExtension(
                     [ms[j] EXCEPT !.status = "Pending", !.deliveredAt = 0, !.revisions = @ + 1])
  <2>1. SetMilestone(j, m) /\ ledger' = ledger
    BY <1>3 DEF RequestRevision, moneyVars
  <2>2. m.paid = ms[j].paid
    BY <1>1 DEF WithoutExtension, Milestone
  <2> HIDE DEF m
  <2> QED
    BY <2>1, <2>2, OneKept
<1>4. ASSUME NEW j \in Milestones, NEW extra \in Extensions, Extend(j, extra) PROVE CustodyMove
  <2> DEFINE m == [ms[j] EXCEPT !.extension = @ + extra]
  <2>1. SetMilestone(j, m) /\ ledger' = ledger
    BY <1>4 DEF Extend, moneyVars
  <2>2. m.paid = ms[j].paid
    BY <1>1 DEF Milestone
  <2> HIDE DEF m
  <2> QED
    BY <2>1, <2>2, OneKept
<1> QED
  BY <1>2, <1>3, <1>4 DEF DeliveryNext, ExtendMilestoneDeadline, TimeExtensionsConsent

LEMMA ReleaseSettles ==
    ASSUME Paying, NEW j \in Live, ~IsTerminal(ms[j]), ReleaseInFull(j) PROVE CustodyMove
<1> DEFINE rest == Remaining(ms[j])
           m == WithoutExtension(Settled(ms[j], "Released", rest, rest))
<1>1. SetMilestone(j, m) /\ PayOrCredit(freelancer, rest)
  BY DEF ReleaseInFull
<1>2. rest \in Nat /\ j \in Milestones /\ ms[j] \in Milestone /\ freelancer \in Address
  BY LiveSlot DEF Paying, Inductive, TypeOK
<1>3. m.paid = ms[j].paid + rest
  BY <1>2, SettledPaid
<1> HIDE DEF m, rest
<1>4. PaidOut(ledger, ledger', rest)
  BY <1>1, <1>2, PayOrCreditPaysOut DEF Paying
<1> QED
  BY <1>1, <1>2, <1>3, <1>4, OneSettled

LEMMA ApprovalsSettle == ASSUME Paying, ApprovalNext PROVE CustodyMove
<1>1. /\ freelancer \in Address /\ ledger \in Ledger /\ Live \subseteq Milestones
      /\ \A i \in Milestones: ms[i] \in Milestone
  BY MilestonesAreRecords, LiveSlot DEF Paying, Inductive, TypeOK
<1>2. ASSUME NEW j \in Milestones, NEW amt \in PartialAmounts, ApprovePartial(j, amt)
      PROVE  CustodyMove
  <2>1. amt \in Nat /\ PayOrCredit(freelancer, amt)
    BY <1>2, WorkflowAssumption DEF ApprovePartial
  <2>2. PICK m: SetMilestone(j, m) /\ m.paid = ms[j].paid + amt
    <3>1. CASE amt = Remaining(ms[j])
      BY <1>1, <1>2, <3>1, SettledPaid DEF ApprovePartial
    <3>2. CASE amt # Remaining(ms[j])
      BY <1>1, <1>2, <3>2, SettledPaid DEF ApprovePartial
    <3> QED
      BY <3>1, <3>2
  <2>3. PaidOut(ledger, ledger', amt)
    BY <1>1, <2>1, PayOrCreditPaysOut DEF Paying
  <2> QED
    BY <2>1, <2>2, <2>3, OneSettled
<1>3. ASSUME NEW batch \in SUBSET Milestones, ApproveMilestones(batch) PROVE CustodyMove
  <2> DEFINE f == [i \in batch |-> Settled(ms[i], "Released", Remaining(ms[i]), Remaining(ms[i]))]
  <2>1. /\ PayOrCredit(freelancer, TotalRemaining(batch)) /\ batch \subseteq Open
        /\ ms' = [i \in Milestones |-> IF i \in batch THEN f[i] ELSE ms[i]]
    BY <1>3 DEF ApproveMilestones, Open, IsTerminal, Terminal, InReview
  <2>2. \A i \in batch: f[i].paid = ms[i].paid + Remaining(ms[i])
    BY <1>1, SettledPaid
  <2> HIDE DEF f
  <2>3. TotalRemaining(batch) \in Nat => PaidOut(ledger, ledger', TotalRemaining(batch))
    BY <1>1, <2>1, PayOrCreditPaysOut DEF Paying
  <2> QED
    BY <2>1, <2>2, <2>3, ManySettled
<1>4. ASSUME NEW j \in Milestones, NEW r \in StreamRatios, PaymentStreamingConsent(j, r[1], r[2])
      PROVE  CustodyMove
  <2> DEFINE pay == SplitNearest(Remaining(ms[j]), r[1], r[2]).first
  <2>1. Remaining(ms[j]) \in Nat
    BY <1>4, LiveSlot DEF PaymentStreamingConsent, IsTerminal, Terminal, InReview, Paying
  <2>2. pay \in Nat
    <3>1. CanSplitNearest(Remaining(ms[j]), r[1], r[2]) /\ r[1] \in Int /\ r[2] \in Int
      BY <1>4, WorkflowAssumption DEF PaymentStreamingConsent
    <3>2. r[1] \in Nat /\ r[2] \in Nat
      BY <3>1 DEF CanSplitNearest
    <3> QED
      BY <2>1, <3>1, <3>2, SplitNearestExact
  <2>3. /\ pay <= ledger.balance /\ ledger' = Transferred(ledger, pay)
        /\ \E status: SetMilestone(j, Settled(ms[j], status, pay, pay))
    BY <1>4 DEF PaymentStreamingConsent
  <2> HIDE DEF pay
  <2>4. PaidOut(ledger, ledger', pay)
    BY <1>1, <2>2, <2>3, TransferPaysOut
  <2>5. PICK m: SetMilestone(j, m) /\ m.paid = ms[j].paid + pay
    BY <1>1, <2>3, SettledPaid
  <2> QED
    BY <2>2, <2>4, <2>5, OneSettled
<1>5. ASSUME NEW j \in Milestones, ApproveMilestone(j) \/ TriggerAutoRelease(j) PROVE CustodyMove
  BY <1>5, ReleaseSettles
     DEF ApproveMilestone, TriggerAutoRelease, AutoReleasable, IsTerminal, Terminal
<1> QED
  BY <1>2, <1>3, <1>4, <1>5 DEF ApprovalNext

\* An arbiter's or an admin's decision in one or two legs of what is left.
LEMMA TwoLegs ==
    ASSUME NEW l \in Ledger, NEW a \in Address, NEW b \in Address, NEW x \in Nat, NEW y \in Nat,
           NEW k \in AfterPayIfAny(l, a, x), NEW r \in AfterPayIfAny(k, b, y)
    PROVE  PaidOut(l, r, x + y)
<1>1. PaidOut(l, k, x)
  BY LegPaysOut
<1>2. k \in Ledger
  BY <1>1 DEF PaidOut
<1>3. PaidOut(k, r, y)
  BY <1>2, LegPaysOut
<1> QED
  BY <1>1, <1>3, LegsPayOut

LEMMA ClosedSettles ==
    ASSUME Paying, NEW j \in Milestones, Remaining(ms[j]) \in Nat, NEW status, NEW toward,
           NEW m \in {Settled(ms[j], status, toward, Remaining(ms[j])),
                      WithoutExtension(Settled(ms[j], status, toward, Remaining(ms[j]))),
                      Closed(Settled(ms[j], status, toward, Remaining(ms[j])))},
           SetMilestone(j, m), PaidOut(ledger, ledger', Remaining(ms[j]))
    PROVE  CustodyMove
<1> DEFINE rest == Remaining(ms[j])
<1>1. m \in {Settled(ms[j], status, toward, rest), WithoutExtension(Settled(ms[j], status, toward, rest)),
             Closed(Settled(ms[j], status, toward, rest))} /\ rest \in Nat
  OBVIOUS
<1>2. PaidOut(ledger, ledger', rest) /\ ms[j] \in Milestone
  BY MilestonesAreRecords DEF Paying
<1> HIDE DEF rest
<1>3. m.paid = ms[j].paid + rest
  BY <1>1, <1>2, SettledPaid
<1> QED
  BY <1>1, <1>2, <1>3, OneSettled

LEMMA DisputesSettle == ASSUME Paying, DisputeNext PROVE CustodyMove
<1>1. /\ {Client, freelancer, arbiter} \subseteq Address /\ ledger \in Ledger
      /\ \A i \in Milestones: ms[i] \in Milestone
  BY MilestonesAreRecords, PartiesAssumption DEF Paying, Inductive, TypeOK
<1>2. ASSUME NEW j \in Milestones, RaiseDispute(j) PROVE CustodyMove
  <2> DEFINE m == [ms[j] EXCEPT
          !.status = "Disputed",
          !.dispute = [open |-> TRUE, at |-> now, previous |-> ms[j].status, evidence |-> 0]]
  <2>1. SetMilestone(j, m) /\ ledger' = ledger
    BY <1>2 DEF RaiseDispute, moneyVars
  <2>2. m.paid = ms[j].paid
    BY <1>1 DEF Milestone
  <2> HIDE DEF m
  <2> QED
    BY <2>1, <2>2, OneKept
<1>3. ASSUME NEW j \in Milestones, SubmitEvidence(j) PROVE CustodyMove
  <2> DEFINE m == [ms[j] EXCEPT !.dispute.evidence = @ + 1]
  <2>1. SetMilestone(j, m) /\ ledger' = ledger
    BY <1>3 DEF SubmitEvidence, moneyVars
  <2>2. m.paid = ms[j].paid
    BY <1>1 DEF Milestone
  <2> HIDE DEF m
  <2> QED
    BY <2>1, <2>2, OneKept
<1>4. ASSUME NEW j \in Milestones, EscalateDispute(j) PROVE CustodyMove
  <2> DEFINE previous == ms[j].dispute.previous
             m == WithoutDispute([ms[j] EXCEPT
                     !.status = previous,
                     !.deliveredAt = IF previous = "Delivered" THEN now ELSE @])
  <2>1. SetMilestone(j, m) /\ ledger' = ledger
    BY <1>4 DEF EscalateDispute, moneyVars
  <2>2. m.paid = ms[j].paid
    BY <1>1 DEF WithoutDispute, Milestone
  <2> HIDE DEF m
  <2> QED
    BY <2>1, <2>2, OneKept
<1>5. ASSUME NEW j \in Milestones, Arbitrable(j)
      PROVE  /\ Remaining(ms[j]) \in Nat /\ FeeFor(j) \in Nat /\ Net(j) \in Nat
             /\ FeeFor(j) + Net(j) = Remaining(ms[j])
  <2> DEFINE rest == Remaining(ms[j])
             fee  == FeeFor(j)
  <2>1. rest \in Nat /\ fee \in Nat /\ rest - fee \in 0..rest
    BY <1>5, FeeTyped DEF Paying
  <2> HIDE DEF rest, fee
  <2>2. rest - fee \in Nat /\ fee + (rest - fee) = rest
    BY <2>1
  <2> QED
    BY <2>1, <2>2 DEF rest, fee, Net
<1>6. ASSUME NEW j \in Milestones, NEW b \in BOOLEAN, ResolveDispute(j, b) PROVE CustodyMove
  <2> DEFINE to == IF b THEN freelancer ELSE Client
  <2>1. PICK l \in AfterPayIfAny(ledger, arbiter, FeeFor(j)): ledger' \in AfterPayIfAny(l, to, Net(j))
    BY <1>6 DEF ResolveDispute
  <2>2. PaidOut(ledger, ledger', FeeFor(j) + Net(j)) /\ Remaining(ms[j]) \in Nat
    <3>1. to \in Address /\ arbiter \in Address
      BY <1>1
    <3> HIDE DEF to
    <3> QED
      BY <1>1, <1>5, <1>6, <2>1, <3>1, TwoLegs DEF ResolveDispute
  <2>3. \E status, toward: SetMilestone(j, Closed(Settled(ms[j], status, toward, Remaining(ms[j]))))
    BY <1>6 DEF ResolveDispute
  <2> QED
    BY <1>5, <1>6, <2>2, <2>3, ClosedSettles DEF ResolveDispute
<1>7. ASSUME NEW j \in Milestones, NEW bps \in SplitBps, ApplyDisputeArbitrationSplit(j, bps)
      PROVE  CustodyMove
  <2> DEFINE first == SplitFloor(Net(j), bps).first
             second == SplitFloor(Net(j), bps).second
  <2>1. /\ Remaining(ms[j]) \in Nat /\ FeeFor(j) \in Nat /\ Net(j) \in Nat
        /\ FeeFor(j) + Net(j) = Remaining(ms[j])
    BY <1>5, <1>7 DEF ApplyDisputeArbitrationSplit
  <2>2. first \in Nat /\ second \in Nat /\ first + second = Net(j)
    <3>1. CanSplitFloor(Net(j), bps) /\ bps \in Nat
      BY <1>7, SplitBpsAssumption DEF ApplyDisputeArbitrationSplit
    <3> QED
      BY <2>1, <3>1, SplitFloorExact
  <2>3. PICK l \in AfterPayIfAny(ledger, arbiter, FeeFor(j)):
           \E k \in AfterPayIfAny(l, Client, first): ledger' \in AfterPayIfAny(k, freelancer, second)
    BY <1>7 DEF ApplyDisputeArbitrationSplit
  <2>4. SetMilestone(j, Closed(Settled(ms[j], SplitStatus(first, second), second, Remaining(ms[j]))))
    BY <1>7 DEF ApplyDisputeArbitrationSplit, CloseBySplit
  <2> HIDE DEF first, second
  <2>5. PaidOut(ledger, l, FeeFor(j)) /\ l \in Ledger
    BY <1>1, <2>1, <2>3, LegPaysOut DEF PaidOut
  <2>6. PaidOut(l, ledger', first + second)
    BY <1>1, <2>2, <2>3, <2>5, TwoLegs
  <2>7. PaidOut(ledger, ledger', Remaining(ms[j]))
    BY <1>1, <2>1, <2>2, <2>5, <2>6, LegsPayOut
  <2> QED
    BY <2>1, <2>4, <2>7, ClosedSettles
<1> QED
  BY <1>2, <1>3, <1>4, <1>6, <1>7 DEF DisputeNext

LEMMA AdminSettles ==
    ASSUME Paying, CancelNext \/ OverrideNext \/ MultisigNext PROVE CustodyMove
<1>1. /\ {Client, freelancer} \subseteq Address /\ ledger \in Ledger
      /\ \A i \in Milestones: ms[i] \in Milestone
  BY MilestonesAreRecords, PartiesAssumption DEF Paying, Inductive, TypeOK
<1>2. ASSUME NEW r \in Roles, CancelEscrow(r) \/ RevokeCancelApproval(r) \/ MultisigLock
      PROVE  CustodyMove
  BY <1>2, NothingSettled DEF CancelEscrow, RevokeCancelApproval, MultisigLock, moneyVars
<1>3. ASSUME NEW to \in Address, NEW status \in {"Released", "Refunded"}, SettleAllRemaining(to, status)
      PROVE  CustodyMove
  <2> DEFINE f == [i \in Due |-> WithoutExtension(Settled(ms[i], status,
                     IF status = "Released" THEN Remaining(ms[i]) ELSE 0, Remaining(ms[i])))]
  <2>1. /\ PayOrCredit(to, TotalRemaining(Due))
        /\ ms' = [i \in Milestones |-> IF i \in Due THEN f[i] ELSE ms[i]]
    BY <1>3 DEF SettleAllRemaining
  <2>2. Due \subseteq Open /\ Due \subseteq Milestones
    BY LiveSlot DEF Due, Open, Paying
  <2>3. \A i \in Due: f[i].paid = ms[i].paid + Remaining(ms[i])
    BY <1>1, <2>2, SettledPaid
  <2> HIDE DEF f
  <2>4. TotalRemaining(Due) \in Nat => PaidOut(ledger, ledger', TotalRemaining(Due))
    BY <2>1, PayOrCreditPaysOut DEF Paying
  <2> QED
    BY <2>1, <2>2, <2>3, <2>4, ManySettled
<1>4. ASSUME NEW j \in Milestones, Overridable(j) PROVE Remaining(ms[j]) \in Nat
  BY <1>4, LiveSlot DEF Overridable, Paying
<1>5. ASSUME NEW j \in Milestones, NEW to \in Address, NEW status,
             AdminOverride(j, to, status) \/ MultisigAdminOverride(j, to, status)
      PROVE  CustodyMove
  <2>1. Remaining(ms[j]) \in Nat /\ PayOrCredit(to, Remaining(ms[j]))
    BY <1>4, <1>5 DEF AdminOverride, MultisigAdminOverride
  <2>2. PaidOut(ledger, ledger', Remaining(ms[j]))
    BY <2>1, PayOrCreditPaysOut DEF Paying
  <2>3. \E toward: \/ SetMilestone(j, Closed(Settled(ms[j], status, toward, Remaining(ms[j]))))
                   \/ SetMilestone(j, Settled(ms[j], status, toward, Remaining(ms[j])))
    BY <1>5 DEF AdminOverride, MultisigAdminOverride
  <2> QED
    BY <2>1, <2>2, <2>3, ClosedSettles
<1>6. ASSUME NEW j \in Milestones, NEW r \in ElapsedRatios,
             AdminOverrideStreamingRelease(j, r[1], r[2])
      PROVE  CustodyMove
  <2> DEFINE first == SplitNearest(Remaining(ms[j]), r[1], r[2]).first
             second == SplitNearest(Remaining(ms[j]), r[1], r[2]).second
  <2>1. Remaining(ms[j]) \in Nat
    BY <1>4, <1>6 DEF AdminOverrideStreamingRelease
  <2>2. first \in Nat /\ second \in Nat /\ second + first = Remaining(ms[j])
    <3>1. CanSplitNearest(Remaining(ms[j]), r[1], r[2]) /\ r[1] \in Int /\ r[2] \in Int
      BY <1>6, OverridesAssumption DEF AdminOverrideStreamingRelease
    <3>2. r[1] \in Nat /\ r[2] \in Nat
      BY <3>1 DEF CanSplitNearest
    <3> QED
      BY <2>1, <3>1, <3>2, SplitNearestExact
  <2>3. PICK l \in AfterPayIfAny(ledger, Client, second):
           ledger' \in AfterPayIfAny(l, freelancer, first)
    BY <1>6 DEF AdminOverrideStreamingRelease
  <2>4. SetMilestone(j, Closed(Settled(ms[j], SplitStatus(second, first), first, Remaining(ms[j]))))
    BY <1>6 DEF AdminOverrideStreamingRelease, CloseBySplit
  <2> HIDE DEF first, second
  <2>5. PaidOut(ledger, ledger', Remaining(ms[j]))
    BY <1>1, <2>2, <2>3, TwoLegs
  <2> QED
    BY <2>1, <2>4, <2>5, ClosedSettles
<1>7. Client \in Address /\ freelancer \in Address
  BY <1>1
<1> QED
  BY <1>2, <1>3, <1>5, <1>6, <1>7
     DEF CancelNext, AdminOverrideCancelRelease, AdminOverrideCancelRefund, OverrideNext,
     AdminOverrideRelease, AdminOverrideRefund, MultisigNext, MultisigAdminOverrideRelease,
     MultisigAdminOverrideRefund, Roles

LEMMA OthersMoveNothing ==
    ASSUME Paying, PartyNext \/ PauseNext \/ YieldNext \/ Tick \/ UNCHANGED vars PROVE CustodyMove
<1>1. UNCHANGED <<ms, ledger>>
  BY DEF PartyNext, AcceptJob, AcceptArbiter, Accept, ReplaceArbiter, RotateFreelancer,
     PauseNext, EmergencyPause,
     EmergencyUnpauseParties, EmergencyUnpause, EmergencyPauseAdminOverride,
     AdminPauseEscrow, AdminResumeEscrow, SetPauses, YieldNext, AdminAccrueYield, Tick, vars, moneyVars
<1> QED
  BY <1>1, NothingSettled

-----------------------------------------------------------------------------
(***************************************************************************)
(* The token's own entry points: collection, donation and sweep.           *)
(***************************************************************************)
\* What milestones hold depends on nothing a token call changes.
LEMMA HeldStays ==
    ASSUME Inductive, Inductive', UNCHANGED <<ms, jobVars>>
    PROVE  /\ [i \in Milestones |-> HeldFor(i)]' = [i \in Milestones |-> HeldFor(i)]
           /\ HeldSum' = HeldSum
<1>1. Live' = Live /\ \A i \in Milestones: MilestoneFunded(i)' <=> MilestoneFunded(i)
  BY DEF Live, MilestoneFunded, jobVars
<1>2. \A i \in Milestones: HeldFor(i)' = HeldFor(i)
  BY <1>1 DEF HeldFor, FundedOpen, Open, MilestoneFunded, IsTerminal, Remaining
<1> DEFINE held == [i \in Milestones |-> HeldFor(i)]
<1>3. held' = held
  BY <1>2
<1> QED
  BY <1>3 DEF HeldSum

\* All open milestones are worth at least what the funded ones hold.
LEMMA HeldWithinOpen ==
    ASSUME Inductive PROVE HeldSum <= TotalRemaining(Open) /\ TotalRemaining(Open) \in Nat
<1> DEFINE f == [i \in Open |-> Remaining(ms[i])]
           g == [i \in Milestones |-> IF i \in Open THEN Remaining(ms[i]) ELSE 0]
           h == [i \in Milestones |-> HeldFor(i)]
<1>1. Open \in SUBSET Milestones /\ \A i \in Open: Remaining(ms[i]) \in Nat
  BY LiveSlot DEF Open
<1>2. \A i \in Open: f[i] \in Nat /\ f[i] = g[i]
  BY <1>1
<1>3. \A i \in Milestones \ Open: g[i] = 0
  OBVIOUS
<1>4. \A i \in Milestones: h[i] \in Int /\ g[i] \in Int /\ h[i] <= g[i]
  <2> SUFFICES ASSUME NEW i \in Milestones
               PROVE  h[i] \in Int /\ g[i] \in Int /\ h[i] <= g[i]
    OBVIOUS
  <2>1. h[i] = HeldFor(i) /\ HeldFor(i) \in Nat
    BY HeldTyped
  <2>2. CASE i \in Open
    BY <1>1, <2>1, <2>2 DEF HeldFor
  <2>3. CASE i \notin Open
    BY <2>1, <2>3 DEF HeldFor, FundedOpen
  <2> QED
    BY <2>2, <2>3
<1>5. TotalRemaining(Open) = SumFunctionOnSet(f, Open)
      /\ HeldSum = SumFunctionOnSet(h, Milestones)
  BY DEF TotalRemaining, SumFunction, HeldSum
<1> HIDE DEF f, g, h
<1>6. IsFiniteSet(Open)
  BY <1>1, MilestonesFinite, FS_Subset
<1>7. SumFunctionOnSet(f, Open) = SumFunctionOnSet(g, Milestones)
  BY <1>1, <1>2, <1>3, SumWithin, MilestonesFinite
<1>8. SumFunctionOnSet(f, Open) \in Nat
  BY <1>2, <1>6, SumNat
<1>9. SumFunctionOnSet(h, Milestones) <= SumFunctionOnSet(g, Milestones)
  BY <1>4, SumMonotone, MilestonesFinite
<1> QED
  BY <1>5, <1>7, <1>8, <1>9

LEMMA TokensMove ==
    ASSUME Inductive, Inductive', Solvent, TokenNext PROVE CustodyMove
<1> DEFINE held == [i \in Milestones |-> HeldFor(i)]
<1>1. UNCHANGED <<ms, jobVars>>
  BY DEF TokenNext, Withdraw, SweepExcess, Donate
<1>2. held' = held /\ HeldSum' = HeldSum /\ HeldSum \in Nat
  BY <1>1, HeldStays, HeldIsRemaining
<1>3. /\ ledger.balance \in Nat /\ ledger.totalOwed \in Int /\ ledger.owed \in [Address -> Nat]
      /\ ledger'.balance \in Nat /\ ledger'.totalOwed \in Int /\ ledger'.owed \in [Address -> Nat]
      /\ ledger \in Ledger /\ ledger' \in Ledger /\ yieldAccrued \in Nat
  BY DEF Ledger, Inductive, TypeOK
<1>4. Owed(ledger) \in Nat /\ Owed(ledger') \in Nat
  BY <1>3, OwedTyped
<1>5. /\ Surplus = ledger.balance - HeldSum - Owed(ledger)
      /\ ledger.totalOwed = Owed(ledger) /\ ledger.balance >= HeldSum + ledger.totalOwed
      /\ Surplus' = ledger'.balance - HeldSum' - Owed(ledger')
      /\ Solvent' <=> /\ ledger'.totalOwed = Owed(ledger')
                      /\ ledger'.balance >= HeldSum' + ledger'.totalOwed
  BY SolventOver, SolventOverNext
<1> HIDE DEF held
<1>6. ASSUME NEW a \in Address, Withdraw(a) PROVE Solvent' /\ Vault!Collect(a)
  <2>1. /\ ledger'.balance = ledger.balance - ledger.owed[a]
        /\ ledger'.owed = [ledger.owed EXCEPT ![a] = 0]
        /\ ledger'.totalOwed = ledger.totalOwed - ledger.owed[a]
    BY <1>6 DEF Withdraw, Collected
  <2>2. Owed(ledger') = Owed(ledger) - ledger.owed[a]
    <3> DEFINE f == ledger.owed
               g == ledger'.owed
    <3>1. \A x \in Address: f[x] \in Int /\ g[x] \in Int /\ (x # a => g[x] = f[x])
      BY <1>3, <2>1
    <3>2. g[a] = 0 /\ f[a] \in Int
      BY <1>3, <2>1
    <3> HIDE DEF f, g
    <3>3. SumFunctionOnSet(g, Address) = SumFunctionOnSet(f, Address) - f[a] + g[a]
      BY <3>1, SumChanged, PartiesAssumption
    <3>4. SumFunctionOnSet(f, Address) \in Int
      BY <3>1, SumInt, PartiesAssumption
    <3>5. SumFunctionOnSet(g, Address) = SumFunctionOnSet(f, Address) - f[a]
      BY <3>2, <3>3, <3>4
    <3> QED
      BY <3>5 DEF Owed, f, g
  <2>3. ledger.owed[a] \in Nat
    BY <1>3
  <2>4. Surplus' = Surplus /\ Solvent'
    BY <1>2, <1>3, <1>4, <1>5, <2>1, <2>2, <2>3
  <2> QED
    BY <1>2, <2>1, <2>4 DEF Vault!Collect, held
<1>7. ASSUME NEW amt \in Donations, Donate(amt) PROVE Solvent' /\ Vault!Gift
  <2>1. amt \in Nat /\ amt > 0
    BY WorkflowAssumption
  <2>2. /\ ledger'.balance = ledger.balance + amt /\ ledger'.owed = ledger.owed
        /\ ledger'.totalOwed = ledger.totalOwed
    BY <1>3, <1>7 DEF Donate, Deposited, Ledger
  <2>3. Owed(ledger') = Owed(ledger)
    BY <2>2 DEF Owed
  <2>4. Surplus' \in Nat /\ Surplus < Surplus' /\ Solvent'
    BY <1>2, <1>3, <1>4, <1>5, <2>1, <2>2, <2>3
  <2> QED
    BY <1>2, <2>2, <2>4 DEF Vault!Gift, held
<1>8. CASE SweepExcess
  <2>1. PICK excess \in 1..ledger.balance:
           excess = ledger.balance - Obligations /\ ledger' = Transferred(ledger, excess)
    BY <1>8 DEF SweepExcess
  <2>2. /\ ledger'.balance = ledger.balance - excess /\ ledger'.owed = ledger.owed
        /\ ledger'.totalOwed = ledger.totalOwed
    BY <1>3, <2>1 DEF Transferred, Ledger
  <2>3. Owed(ledger') = Owed(ledger)
    BY <2>2 DEF Owed
  <2>4. /\ HeldSum <= TotalRemaining(Open) /\ TotalRemaining(Open) \in Nat
        /\ Obligations = TotalRemaining(Open) + yieldAccrued + ledger.totalOwed
    BY HeldWithinOpen DEF Obligations
  <2>5. Obligations \in Int /\ Obligations >= HeldSum + ledger.totalOwed
    BY <1>2, <1>3, <2>4
  <2>6. ledger'.balance = Obligations /\ excess \in Nat /\ excess > 0
    BY <1>3, <2>1, <2>2, <2>5
  <2>7. Surplus' \in Nat /\ Surplus' < Surplus /\ Solvent'
    BY <1>2, <1>3, <1>4, <1>5, <2>2, <2>3, <2>5, <2>6
  <2>8. Solvent' /\ Vault!Sweep
    <3>1. held' = held /\ ledger'.owed = ledger.owed /\ Surplus' \in Nat /\ Surplus' < Surplus
      BY <1>2, <2>2, <2>7
    <3> QED
      BY <3>1, <2>7 DEF Vault!Sweep, held
  <2> QED
    BY <2>8 DEF CustodyMove, Vault!Next
<1> QED
  BY <1>6, <1>7, <1>8 DEF TokenNext, CustodyMove, Vault!Next
-----------------------------------------------------------------------------
(***************************************************************************)
(* Deposits: what comes in is held for the milestones it funds, and the    *)
(* stored total follows the job's size.                                    *)
(***************************************************************************)
LEMMA DepositStep ==
    ASSUME Inductive, Inductive', Solvent, NEW amt \in Nat, ledger' = Deposited(amt),
           HeldSum' = HeldSum + amt, \A i \in Milestones: HeldFor(i) <= HeldFor(i)'
    PROVE  CustodyMove
<1>1. /\ ledger.balance \in Nat /\ ledger.totalOwed \in Int /\ ledger.owed \in [Address -> Nat]
      /\ ledger \in Ledger
  BY DEF Ledger, Inductive, TypeOK
<1>2. /\ ledger'.balance = ledger.balance + amt /\ ledger'.owed = ledger.owed
      /\ ledger'.totalOwed = ledger.totalOwed
  BY <1>1 DEF Deposited, Ledger
<1>3. Owed(ledger') = Owed(ledger) /\ Owed(ledger) \in Nat /\ HeldSum \in Nat
  BY <1>1, <1>2, OwedTyped, HeldIsRemaining DEF Owed
<1>4. /\ Surplus = ledger.balance - HeldSum - Owed(ledger)
      /\ ledger.totalOwed = Owed(ledger) /\ ledger.balance >= HeldSum + ledger.totalOwed
      /\ Surplus' = ledger'.balance - HeldSum' - Owed(ledger')
      /\ Solvent' <=> /\ ledger'.totalOwed = Owed(ledger')
                      /\ ledger'.balance >= HeldSum' + ledger'.totalOwed
  BY SolventOver, SolventOverNext
<1>5. Surplus' = Surplus /\ Solvent'
  BY <1>1, <1>2, <1>3, <1>4
<1> DEFINE held == [i \in Milestones |-> HeldFor(i)]
<1>6. held' \in [Milestones -> Nat] /\ \A i \in Milestones: held[i] <= held'[i]
  BY HeldTypedNext
<1> QED
  BY <1>2, <1>5, <1>6 DEF CustodyMove, Vault!Next, Vault!Deposit

\* One milestone's holding changes.
LEMMA HeldChanged ==
    ASSUME Inductive, Inductive', NEW j \in Milestones,
           \A i \in Milestones \ {j}: HeldFor(i)' = HeldFor(i)
    PROVE  HeldSum' = HeldSum - HeldFor(j) + HeldFor(j)'
<1> DEFINE f == [i \in Milestones |-> HeldFor(i)]
           g == [i \in Milestones |-> HeldFor(i)']
<1>1. \A i \in Milestones: f[i] \in Int /\ g[i] \in Int /\ (i # j => g[i] = f[i])
  BY HeldTyped, HeldTypedNext
<1>2. f[j] = HeldFor(j) /\ g[j] = HeldFor(j)' /\ SumFunctionOnSet(f, Milestones) = HeldSum
      /\ SumFunctionOnSet(g, Milestones) = HeldSum'
  BY DEF HeldSum
<1> HIDE DEF f, g
<1> QED
  BY <1>1, <1>2, SumChanged, MilestonesFinite

\* One milestone's amount changes.
LEMMA WorthChanged ==
    ASSUME Inductive, Inductive', JobTotal, NEW j \in Milestones,
           \A i \in Milestones \ {j}: ms'[i].amount = ms[i].amount,
           totalAmount' = totalAmount - ms[j].amount + ms'[j].amount
    PROVE  JobTotal'
<1> DEFINE f == [i \in Milestones |-> ms[i].amount]
           g == [i \in Milestones |-> ms'[i].amount]
<1>1. \A i \in Milestones: ms[i].amount \in Nat /\ ms'[i].amount \in Nat
  <2>1. ms' \in [Milestones -> Milestone]
    BY DEF Inductive, TypeOK
  <2> QED
    BY <2>1, MilestonesAreRecords DEF Milestone
<1>2. \A i \in Milestones: f[i] \in Int /\ g[i] \in Int /\ (i # j => g[i] = f[i])
  BY <1>1
<1>3. f[j] = ms[j].amount /\ g[j] = ms'[j].amount /\ SumFunctionOnSet(f, Milestones) = WorthOf(ms)
      /\ SumFunctionOnSet(g, Milestones) = WorthOf(ms')
  BY DEF WorthOf
<1> HIDE DEF f, g
<1>4. WorthOf(ms') = WorthOf(ms) - ms[j].amount + ms'[j].amount
  BY <1>2, <1>3, SumChanged, MilestonesFinite
<1> QED
  BY <1>4, JobTotalOverSlots, JobTotalOverSlotsNext

LEMMA WorthKept ==
    ASSUME Inductive, Inductive', JobTotal, totalAmount' = totalAmount,
           \A i \in Milestones: ms'[i].amount = ms[i].amount
    PROVE  JobTotal'
<1>1. [i \in Milestones |-> ms'[i].amount] = [i \in Milestones |-> ms[i].amount]
  OBVIOUS
<1> QED
  BY <1>1, JobTotalOverSlots, JobTotalOverSlotsNext DEF WorthOf

\* What a milestone that is not funded, or was not touched, holds and paid.
LEMMA FundingMove ==
    ASSUME Inductive, Inductive', PaidWithinAmount, FundingConsistent, JobTotal, Solvent,
           FundingNext
    PROVE  CustodyMove /\ JobTotal'
<1>1. /\ ms \in [Milestones -> Milestone] /\ Live \subseteq Milestones
      /\ count \in Nat /\ funded \in BOOLEAN /\ totalAmount \in Int
      /\ ms' \in [Milestones -> Milestone]
  BY LiveSlot, JobAssumption DEF Inductive, TypeOK
<1>2. \A i \in Milestones: /\ ms[i].amount \in Nat /\ ms[i].paid \in Nat
                           /\ ms'[i].amount \in Nat /\ ms'[i].paid \in Nat
  BY <1>1 DEF Milestone
<1>3. CASE Fund
  <2>1. /\ funded' /\ ms' = ms /\ count' = count /\ fundingMode = "Upfront" /\ ~funded
        /\ totalAmount' = totalAmount /\ ledger' = Deposited(totalAmount) /\ totalAmount > 0
    BY <1>3 DEF Fund
  <2>2. Live' = Live /\ \A i \in Milestones: ~MilestoneFunded(i) /\ MilestoneFunded(i)'
    BY <2>1 DEF Live, MilestoneFunded
  <2>3. ASSUME NEW i \in Milestones PROVE HeldFor(i) = 0 /\ HeldFor(i)' = ms[i].amount
    <3>1. HeldFor(i) = 0
      BY <2>2, HeldTyped
    <3>2. CASE i \in Live
      <4>1. ~IsTerminal(ms[i]) /\ ms[i].paid = 0
        BY <2>2, <3>2, SlotFacts
      <4>2. HeldFor(i)' = ms[i].amount - ms[i].paid
        BY <2>1, <2>2, <3>2, <4>1, HeldTypedNext
      <4> QED
        BY <1>2, <3>1, <4>1, <4>2
    <3>3. CASE i \notin Live
      <4>1. ms[i].amount = 0
        BY <3>3, SlotFacts DEF NewMilestone
      <4> QED
        BY <2>2, <3>1, <3>3, <4>1, HeldTypedNext
    <3> QED
      BY <3>2, <3>3
  <2> DEFINE f == [i \in Milestones |-> HeldFor(i)]
             g == [i \in Milestones |-> ms[i].amount]
             h == [i \in Milestones |-> HeldFor(i)']
  <2>4. \A i \in Milestones: f[i] \in Int /\ g[i] \in Int /\ h[i] = f[i] + g[i]
    BY <1>2, <2>3
  <2>5. /\ SumFunctionOnSet(f, Milestones) = HeldSum /\ SumFunctionOnSet(g, Milestones) = WorthOf(ms)
        /\ SumFunctionOnSet(h, Milestones) = HeldSum'
    BY DEF HeldSum, WorthOf
  <2> HIDE DEF f, g, h
  <2>6. HeldSum' = HeldSum + WorthOf(ms)
    BY <2>4, <2>5, SumsAdd, MilestonesFinite
  <2>7. WorthOf(ms) = totalAmount /\ totalAmount \in Nat
    BY <1>1, <2>1, JobTotalOverSlots
  <2>8. \A i \in Milestones: HeldFor(i) <= HeldFor(i)'
    BY <1>2, <2>3
  <2>9. CustodyMove
    BY <2>1, <2>6, <2>7, <2>8, DepositStep
  <2>10. JobTotal'
    BY <2>1, WorthKept
  <2> QED
    BY <2>9, <2>10
<1>4. ASSUME NEW j \in Milestones, FundMilestone(j) PROVE CustodyMove /\ JobTotal'
  <2> DEFINE m == [ms[j] EXCEPT !.funded = TRUE]
  <2>1. /\ fundingMode = "PerMilestone" /\ fundingMode' = fundingMode /\ count' = count
        /\ j \in Live /\ ~ms[j].funded /\ ms' = [ms EXCEPT ![j] = m]
        /\ funded' = (funded \/ LastOne(j)) /\ totalAmount' = totalAmount
        /\ ledger' = Deposited(ms[j].amount)
    BY <1>4 DEF FundMilestone, SetMilestone
  <2>2. ~funded /\ Live' = Live
    BY <2>1 DEF FundingConsistent, Live
  <2>3. /\ m.funded = TRUE /\ m.amount = ms[j].amount /\ m.paid = ms[j].paid
        /\ m.status = ms[j].status
    BY <1>1 DEF Milestone
  <2> HIDE DEF m
  <2>4. ms'[j] = m /\ \A i \in Milestones \ {j}: ms'[i] = ms[i]
    BY <1>1, <2>1
  <2>5. ~MilestoneFunded(j) /\ MilestoneFunded(j)'
    BY <2>1, <2>2, <2>3, <2>4 DEF MilestoneFunded
  <2>6. ~IsTerminal(ms[j]) /\ ~IsTerminal(ms'[j]) /\ ms[j].paid = 0
    <3>1. ~IsTerminal(ms[j]) /\ ms[j].paid = 0
      BY <2>1, <2>5, SlotFacts
    <3> QED
      BY <2>3, <2>4, <3>1 DEF IsTerminal
  <2>7. HeldFor(j) = 0 /\ HeldFor(j)' = ms[j].amount
    <3>1. HeldFor(j) = 0
      BY <2>5, HeldTyped
    <3>2. HeldFor(j)' = ms'[j].amount - ms'[j].paid
      BY <2>1, <2>2, <2>5, <2>6, HeldTypedNext
    <3> QED
      BY <1>2, <2>3, <2>4, <2>6, <3>1, <3>2
  <2>8. ASSUME NEW i \in Milestones \ {j} PROVE HeldFor(i)' = HeldFor(i)
    <3>1. ms'[i] = ms[i] /\ (i \in Live => (MilestoneFunded(i)' <=> MilestoneFunded(i)))
      BY <2>1, <2>2, <2>4 DEF MilestoneFunded, LastOne
    <3> QED
      BY <2>2, <3>1, HeldTyped, HeldTypedNext
  <2>9. HeldSum' = HeldSum + ms[j].amount
    <3>1. HeldSum' = HeldSum - HeldFor(j) + HeldFor(j)' /\ HeldSum \in Nat
      BY <2>8, HeldChanged, HeldIsRemaining
    <3> QED
      BY <1>2, <2>7, <3>1
  <2>10. \A i \in Milestones: HeldFor(i) <= HeldFor(i)'
    <3> SUFFICES ASSUME NEW i \in Milestones PROVE HeldFor(i) <= HeldFor(i)'
      OBVIOUS
    <3>1. HeldFor(i) \in Nat
      BY HeldTyped
    <3> QED
      BY <1>2, <2>7, <2>8, <3>1
  <2>11. CustodyMove
    BY <1>2, <2>1, <2>9, <2>10, DepositStep
  <2>12. JobTotal'
    BY <2>1, <2>3, <2>4, WorthKept
  <2> QED
    BY <2>11, <2>12
<1>5. ASSUME NEW amt \in Amounts, AddMilestone(amt) PROVE CustodyMove /\ JobTotal'
  <2> DEFINE m == NewMilestone(amt, TRUE)
  <2>1. PICK j \in Milestones:
           /\ j = count /\ funded /\ funded' = funded /\ count' = j + 1
           /\ j \notin Live /\ j \in Live'
           /\ ms' = [ms EXCEPT ![j] = m]
           /\ amt \in Nat /\ ledger' = Deposited(amt) /\ totalAmount' = totalAmount + amt
    <3>1. count \in Milestones
      BY <1>1, <1>5, JobAssumption DEF AddMilestone, Milestones, Inductive, TypeOK
    <3>2. amt \in Nat
      BY JobAssumption
    <3>3. /\ funded /\ funded' = funded /\ count' = count + 1
          /\ count \notin Live /\ count \in Live'
          /\ ms' = [ms EXCEPT ![count] = m]
          /\ ledger' = Deposited(amt) /\ totalAmount' = totalAmount + amt
      BY <1>1, <1>5 DEF AddMilestone, SetMilestone, Live
    <3> HIDE DEF m
    <3> QED
      BY <3>1, <3>2, <3>3
  <2>2. /\ m.amount = amt /\ m.paid = 0 /\ ~IsTerminal(m)
        /\ NewMilestone(0, FALSE).amount = 0
    BY DEF NewMilestone, IsTerminal, Terminal
  <2> HIDE DEF m
  <2>3. ms'[j] = m /\ \A i \in Milestones \ {j}: ms'[i] = ms[i]
    BY <1>1, <2>1
  <2>4. \A i \in Milestones: MilestoneFunded(i) /\ MilestoneFunded(i)'
    BY <2>1 DEF MilestoneFunded
  <2>5. HeldFor(j) = 0 /\ HeldFor(j)' = amt
    <3>1. HeldFor(j) = 0
      BY <2>1, HeldTyped
    <3>2. HeldFor(j)' = ms'[j].amount - ms'[j].paid
      BY <2>1, <2>2, <2>3, <2>4, HeldTypedNext
    <3> QED
      BY <2>1, <2>2, <2>3, <3>1, <3>2
  <2>6. ASSUME NEW i \in Milestones \ {j} PROVE HeldFor(i)' = HeldFor(i)
    <3>1. ms'[i] = ms[i] /\ (i \in Live' <=> i \in Live)
      BY <1>1, <2>1, <2>3, JobAssumption DEF Live, Milestones
    <3> QED
      BY <2>4, <3>1, HeldTyped, HeldTypedNext
  <2>7. HeldSum' = HeldSum + amt
    <3>1. HeldSum' = HeldSum - HeldFor(j) + HeldFor(j)' /\ HeldSum \in Nat
      BY <2>1, <2>6, HeldChanged, HeldIsRemaining
    <3> QED
      BY <2>1, <2>5, <3>1
  <2>8. \A i \in Milestones: HeldFor(i) <= HeldFor(i)'
    <3> SUFFICES ASSUME NEW i \in Milestones PROVE HeldFor(i) <= HeldFor(i)'
      OBVIOUS
    <3>1. HeldFor(i) \in Nat
      BY HeldTyped
    <3> QED
      BY <2>1, <2>5, <2>6, <3>1
  <2>9. CustodyMove
    BY <2>1, <2>7, <2>8, DepositStep
  <2>10. ms[j].amount = 0
    BY <2>1, <2>2, SlotFacts
  <2>11. totalAmount' = totalAmount - ms[j].amount + ms'[j].amount
    BY <1>1, <2>1, <2>2, <2>3, <2>10
  <2>12. JobTotal'
    BY <2>1, <2>3, <2>11, WorthChanged
  <2> QED
    BY <2>9, <2>12
<1>6. ASSUME NEW j \in Milestones, NEW amt \in Amounts, ReduceMilestone(j, amt)
      PROVE  CustodyMove /\ JobTotal'
  <2> DEFINE m == [ms[j] EXCEPT !.amount = amt]
             refund == ms[j].amount - amt
  <2>1. /\ UNCHANGED <<fundingMode, funded, count>> /\ funded
        /\ j \in Live /\ ms[j].status = "Pending" /\ 0 < amt /\ amt < ms[j].amount
        /\ ms' = [ms EXCEPT ![j] = m] /\ amt \in Nat
        /\ PayOrCredit(Client, refund) /\ totalAmount' = totalAmount - refund
    BY <1>6, JobAssumption DEF ReduceMilestone, CanReduce, ReduceTotal, SetMilestone
  <2>2. m.amount = amt /\ m.paid = ms[j].paid /\ m.status = ms[j].status
    BY <1>1 DEF Milestone
  <2>3. refund \in Nat
    BY <1>2, <2>1
  <2> HIDE DEF m
  <2>4. ms'[j] = m /\ \A i \in Milestones \ {j}: ms'[i] = ms[i]
    BY <1>1, <2>1
  <2>5. Live' = Live /\ \A i \in Milestones: MilestoneFunded(i) /\ MilestoneFunded(i)'
    BY <2>1 DEF Live, MilestoneFunded
  <2>6. ms[j].paid = 0 /\ ~IsTerminal(ms[j]) /\ ~IsTerminal(ms'[j])
    BY <2>1, <2>2, <2>4, SlotFacts DEF IsTerminal, Terminal
  <2>7. HeldFor(j) = ms[j].amount /\ HeldFor(j)' = amt
    <3>1. HeldFor(j) = ms[j].amount - ms[j].paid
      BY <2>1, <2>5, <2>6, HeldTyped
    <3>2. HeldFor(j)' = ms'[j].amount - ms'[j].paid
      BY <2>1, <2>5, <2>6, HeldTypedNext
    <3> QED
      BY <1>2, <2>1, <2>2, <2>4, <2>6, <3>1, <3>2
  <2>8. ASSUME NEW i \in Milestones \ {j} PROVE HeldFor(i)' = HeldFor(i)
    BY <2>4, <2>5, HeldTyped, HeldTypedNext
  <2>9. HeldSum' = HeldSum - refund
    <3>1. HeldSum' = HeldSum - HeldFor(j) + HeldFor(j)' /\ HeldSum \in Nat
      BY <2>8, HeldChanged, HeldIsRemaining
    <3> QED
      BY <1>2, <2>1, <2>7, <3>1
  <2>10. \A i \in Milestones: HeldFor(i)' <= HeldFor(i)
    <3> SUFFICES ASSUME NEW i \in Milestones PROVE HeldFor(i)' <= HeldFor(i)
      OBVIOUS
    <3>1. HeldFor(i) \in Nat
      BY HeldTyped
    <3> QED
      BY <1>2, <2>1, <2>7, <2>8, <3>1
  <2>11. PaidOut(ledger, ledger', refund)
    <3>1. Client \in Address
      BY PartiesAssumption
    <3> HIDE DEF refund
    <3> QED
      BY <2>1, <2>3, <3>1, PayOrCreditPaysOut
  <2>12. CustodyMove
    BY <2>3, <2>9, <2>10, <2>11, SettleStep DEF CustodyMove, Vault!Next
  <2>13. totalAmount' = totalAmount - ms[j].amount + ms'[j].amount
    BY <1>1, <1>2, <2>1, <2>2, <2>4
  <2>14. JobTotal'
    BY <2>4, <2>13, WorthChanged
  <2> QED
    BY <2>12, <2>14
<1>7. ASSUME NEW due \in [Milestones -> DueDates], SetDueDates(due) PROVE CustodyMove /\ JobTotal'
  <2>1. \A i \in Milestones:
           /\ ms'[i].amount = ms[i].amount /\ ms'[i].paid = ms[i].paid
           /\ ms'[i].status = ms[i].status /\ ms'[i].funded = ms[i].funded
    BY <1>1, <1>7 DEF SetDueDates, Milestone
  <2>2. UNCHANGED jobVars /\ ledger' = ledger
    BY <1>7 DEF SetDueDates, moneyVars
  <2>3. ASSUME NEW i \in Milestones PROVE HeldFor(i)' = HeldFor(i)
    <3>1. Live' = Live /\ (MilestoneFunded(i)' <=> MilestoneFunded(i))
          /\ (IsTerminal(ms'[i]) <=> IsTerminal(ms[i]))
      BY <2>1, <2>2 DEF Live, MilestoneFunded, jobVars, IsTerminal
    <3> QED
      BY <2>1, <3>1, HeldTyped, HeldTypedNext
  <2> DEFINE held == [i \in Milestones |-> HeldFor(i)]
  <2>4. held' = held
    BY <2>3
  <2>5. HeldSum' = HeldSum
    BY <2>4 DEF HeldSum
  <2>6. Surplus' = Surplus /\ Solvent'
    BY <2>2, <2>5, SolventOver, SolventOverNext
  <2>7. CustodyMove
    BY <2>2, <2>4, <2>6 DEF CustodyMove
  <2>8. JobTotal'
    BY <2>1, <2>2, WorthKept DEF jobVars
  <2> QED
    BY <2>7, <2>8
<1> QED
  BY <1>3, <1>4, <1>5, <1>6, <1>7 DEF FundingNext
-----------------------------------------------------------------------------
(***************************************************************************)
(* The theorems: Accounts is what every call starts from and restores.     *)
(***************************************************************************)
Accounts == Inductive /\ FundingConsistent /\ PaidWithinAmount /\ JobTotal /\ Solvent

LEMMA AccountsStep ==
    ASSUME Accounts, [Next]_vars PROVE CustodyMove /\ JobTotal'
<1>1. /\ Inductive /\ Inductive' /\ PaidWithinAmount /\ PaidWithinAmount'
      /\ FundingConsistent /\ JobTotal /\ Solvent
  BY NextInductive, PaidWithinStep DEF Accounts
<1>2. CASE FundingNext
  BY <1>1, <1>2, FundingMove
<1>3. CASE ~FundingNext
  <2>1. OnlyPaid
    BY <1>1, <1>3, OthersOnlyPay
  <2>2. JobTotal'
    BY <1>1, <2>1, WorthKept DEF OnlyPaid, PaidOn
  <2>3. Paying
    BY <1>1, <2>1 DEF Paying
  <2>4. CustodyMove
    BY <1>1, <1>3, <2>3, TokensMove, RefundsSettle, DeliveriesMoveNothing, ApprovalsSettle,
       DisputesSettle, AdminSettles, OthersMoveNothing DEF Next
  <2> QED
    BY <2>2, <2>4
<1> QED
  BY <1>2, <1>3

LEMMA AccountsInit == ASSUME Init PROVE JobTotal /\ Solvent /\ Vault!Init
<1>1. Inductive /\ PaidWithinAmount
  BY InitInductive, NothingPaidYet
<1>2. JobTotal
  <2>1. totalAmount = WorthOf(ms)
    BY DEF Init, SumFunction, WorthOf
  <2> QED
    BY <1>1, <2>1, JobTotalOverSlots
<1>3. \A i \in Milestones: HeldFor(i) = 0
  <2> SUFFICES ASSUME NEW i \in Milestones PROVE ~MilestoneFunded(i)
    BY <1>1, HeldTyped
  <2>1. PICK a: ms = [k \in Milestones |-> NewMilestone(IF k < InitCount THEN a[k] ELSE 0, FALSE)]
    BY DEF Init
  <2>2. \A x: NewMilestone(x, FALSE).funded = FALSE
    BY DEF NewMilestone
  <2>3. ms[i].funded = FALSE
    BY <2>1, <2>2
  <2> QED
    BY <2>3 DEF Init, MilestoneFunded
<1> DEFINE none == [i \in {} |-> 0]
           held == [i \in Milestones |-> HeldFor(i)]
<1>4. HeldSum = 0
  <2>1. held = [i \in Milestones |-> 0] /\ HeldSum = SumFunctionOnSet(held, Milestones)
    BY <1>3 DEF HeldSum
  <2>2. \A i \in Milestones \ {}: held[i] = 0
    BY <1>3
  <2> HIDE DEF held, none
  <2>3. SumFunctionOnSet(none, {}) = SumFunctionOnSet(held, Milestones)
    BY <2>2, SumWithin, MilestonesFinite
  <2> QED
    BY <2>1, <2>3, SumOfNothing
<1>5. /\ ledger.balance = 0 /\ ledger.totalOwed = 0 /\ ledger.owed = [a \in Address |-> 0]
  BY DEF Init
<1>6. Owed(ledger) = 0
  <2> DEFINE o == ledger.owed
  <2>1. \A a \in Address \ {}: o[a] = 0
    BY <1>5
  <2> HIDE DEF o, none
  <2>2. SumFunctionOnSet(none, {}) = SumFunctionOnSet(o, Address)
    BY <2>1, SumWithin, PartiesAssumption
  <2>3. SumFunctionOnSet(o, Address) = 0
    BY <2>2, SumOfNothing
  <2> QED
    BY <2>3 DEF Owed, o
<1>7. Solvent /\ Surplus = 0
  BY <1>1, <1>4, <1>5, <1>6, SolventOver
<1>8. held = [i \in Milestones |-> 0]
  BY <1>3
<1> QED
  BY <1>2, <1>5, <1>7, <1>8 DEF Vault!Init

LEMMA AccountsKept == Spec => []Accounts
<1>1. Init => JobTotal /\ Solvent
  BY AccountsInit
<1>2. Inductive /\ FundingConsistent /\ PaidWithinAmount /\ JobTotal /\ Solvent /\ [Next]_vars
         => JobTotal' /\ Solvent'
  BY AccountsStep DEF Accounts, CustodyMove
<1>3. Accounts <=> Inductive /\ FundingConsistent /\ PaidWithinAmount /\ JobTotal /\ Solvent
  BY DEF Accounts
<1> QED
  BY <1>1, <1>2, <1>3, InductiveInvariant, FundedWhenAllAre, NothingOverpaid, PTL DEF Spec

\* The job's stored total is the sum of its milestones whatever was added or reduced
\* (JobTotal), so that fund takes exactly what the milestones are worth.
THEOREM TotalIsTheSum == Spec => []JobTotal
<1>1. Accounts => JobTotal
  BY DEF Accounts
<1> QED
  BY <1>1, AccountsKept, PTL

\* The contract always holds all that is left in its funded milestones and all that
\* it owes, and total_owed is what is owed address by address (Solvent): no call,
\* no failed transfer, no sweep and no withdrawal takes what belongs to another.
THEOREM AlwaysSolvent == Spec => []Solvent
<1>1. Accounts => Solvent
  BY DEF Accounts
<1> QED
  BY <1>1, AccountsKept, PTL

\* The escrow implements Custody (ImplementsCustody): each call is a deposit, a
\* settlement paid for by the milestones it settles, a collection, a gift or a sweep.
THEOREM CustodyRefined == Spec => ImplementsCustody
<1>1. Init => Vault!Init
  BY AccountsInit
<1>2. Accounts /\ [Next]_vars
         => [Vault!Next]_<<[i \in Milestones |-> HeldFor(i)], ledger.owed, Surplus>>
  BY AccountsStep DEF CustodyMove
<1> QED
  BY <1>1, <1>2, AccountsKept, PTL DEF Spec, ImplementsCustody, Vault!Spec, Vault!custodyVars

-----------------------------------------------------------------------------
(***************************************************************************)
(* Reputation: every credit is for milestones that this very step closes   *)
(* as Released, and closed milestones stay closed.                         *)
(***************************************************************************)
ReleasedOnes == {i \in Live: ms[i].status = "Released"}

\* The milestones that a step closes as Released.
NewlyReleased == ReleasedOnes' \ ReleasedOnes

\* What a step does to reputation, and who can be credited.
Earned ==
    \/ reputation' = reputation
    \/ \E S \in SUBSET NewlyReleased: CreditReputation(Cardinality(S))

PartiesApart == freelancer # Client

LEMMA ReleasedFinite == Inductive => IsFiniteSet(ReleasedOnes)
  BY LiveSlot, MilestonesFinite, FS_Subset DEF ReleasedOnes

\* What was released stays released.
LEMMA ReleasedStays ==
    ASSUME Inductive, [Next]_vars, Live \subseteq Live' PROVE ReleasedOnes \subseteq ReleasedOnes'
<1> SUFFICES ASSUME NEW i \in ReleasedOnes PROVE i \in ReleasedOnes'
  OBVIOUS
<1>1. i \in Live /\ IsTerminal(ms[i]) /\ ms[i].status = "Released"
  BY DEF ReleasedOnes, IsTerminal, Terminal
<1>2. ms'[i].status = ms[i].status
  BY <1>1, NextMoves DEF Moved, Still, PartiesMove, StreamMove, BackToReview, ArbiterMove, AdminMove,
     IsTerminal, Terminal, InReview
<1> QED
  BY <1>1, <1>2 DEF ReleasedOnes

LEMMA LiveGrows == ASSUME Inductive, [Next]_vars PROVE Live \subseteq Live'
<1>1. count \in Nat
  BY JobAssumption DEF Inductive, TypeOK
<1>2. CASE ~FundingNext
  BY <1>2, OthersOnlyPay DEF OnlyPaid, Live
<1>3. CASE FundingNext
  <2>1. count' = count \/ count' = count + 1
    BY <1>3 DEF FundingNext, Fund, FundMilestone, AddMilestone, ReduceMilestone, SetDueDates, jobVars
  <2> QED
    BY <1>1, <2>1 DEF Live
<1> QED
  BY <1>2, <1>3

\* A credit is worth what it counts.
LEMMA EarnedStep ==
    ASSUME Inductive, Inductive', PartiesApart, ReputationEarned, Earned,
           ReleasedOnes \subseteq ReleasedOnes'
    PROVE  ReputationEarned'
<1> DEFINE others == Address \ {Client}
<1>1. /\ IsFiniteSet(others) /\ freelancer \in others /\ Client \in Address
      /\ reputation \in [Address -> Nat]
  BY PartiesAssumption, FS_Subset DEF Inductive, TypeOK, PartiesApart
<1>2. IsFiniteSet(ReleasedOnes) /\ IsFiniteSet(ReleasedOnes')
  <2>1. (Inductive => IsFiniteSet(ReleasedOnes))'
    BY ReleasedFinite, PTL
  <2> QED
    BY <2>1, ReleasedFinite
<1>3. /\ Cardinality(ReleasedOnes) \in Nat /\ Cardinality(ReleasedOnes') \in Nat
      /\ Cardinality(ReleasedOnes) <= Cardinality(ReleasedOnes')
  BY <1>2, FS_CardinalityType, FS_Subset
<1>4. /\ reputation[Client] <= Cardinality(ReleasedOnes)
      /\ reputation[Client] = SumFunctionOnSet(reputation, others)
  BY DEF ReputationEarned, ReleasedOnes
<1>5. ReputationEarned' <=> /\ reputation'[Client] <= Cardinality(ReleasedOnes')
                            /\ reputation'[Client] = SumFunctionOnSet(reputation', others)
  BY DEF ReputationEarned, ReleasedOnes
<1> HIDE DEF others
<1>6. CASE reputation' = reputation
  BY <1>1, <1>3, <1>4, <1>5, <1>6
<1>7. ASSUME NEW S \in SUBSET NewlyReleased, CreditReputation(Cardinality(S))
      PROVE  ReputationEarned'
  <2> DEFINE n == Cardinality(S)
  <2>1. S \subseteq ReleasedOnes' /\ S \cap ReleasedOnes = {} /\ IsFiniteSet(S)
    BY <1>2, FS_Subset DEF NewlyReleased
  <2>2. n \in Nat
    BY <2>1, FS_CardinalityType
  <2>3. n + Cardinality(ReleasedOnes) <= Cardinality(ReleasedOnes')
    <3> DEFINE U == S \cup ReleasedOnes
    <3>1. IsFiniteSet(U) /\ Cardinality(U)
            = n + Cardinality(ReleasedOnes) - Cardinality(S \cap ReleasedOnes)
      BY <1>2, <2>1, FS_Union
    <3>2. Cardinality(S \cap ReleasedOnes) = 0
      BY <2>1, FS_EmptySet
    <3>3. U \subseteq ReleasedOnes'
      BY <2>1
    <3> HIDE DEF U, n
    <3>4. Cardinality(U) <= Cardinality(ReleasedOnes')
      BY <1>2, <3>3, FS_Subset
    <3> QED
      BY <1>3, <2>2, <3>1, <3>2, <3>4
  <2>4. reputation' = [reputation EXCEPT ![Client] = @ + n, ![freelancer] = @ + n]
    BY <1>7 DEF CreditReputation
  <2> HIDE DEF n
  <2>5. /\ reputation'[Client] = reputation[Client] + n
        /\ reputation'[freelancer] = reputation[freelancer] + n
        /\ \A a \in others: /\ reputation[a] \in Nat /\ reputation'[a] \in Int
                            /\ a # freelancer => reputation'[a] = reputation[a]
    BY <1>1, <2>2, <2>4 DEF others
  <2>6. SumFunctionOnSet(reputation', others)
          = SumFunctionOnSet(reputation, others) - reputation[freelancer] + reputation'[freelancer]
    <3> DEFINE f == reputation
               g == reputation'
    <3>1. \A a \in others: f[a] \in Int /\ g[a] \in Int /\ (a # freelancer => g[a] = f[a])
      BY <2>5
    <3> HIDE DEF f, g
    <3>2. SumFunctionOnSet(g, others) = SumFunctionOnSet(f, others) - f[freelancer] + g[freelancer]
      BY <1>1, <3>1, SumChanged
    <3> QED
      BY <3>2 DEF f, g
  <2>7. reputation[Client] \in Nat /\ reputation[freelancer] \in Nat
    BY <1>1 DEF others
  <2> QED
    BY <1>3, <1>4, <1>5, <2>2, <2>3, <2>5, <2>6, <2>7
<1> QED
  BY <1>6, <1>7 DEF Earned

\* One milestone is closed as Released.
LEMMA OneEarned ==
    ASSUME Inductive, UNCHANGED jobVars, NEW j \in Live, ~IsTerminal(ms[j]),
           NEW m, SetMilestone(j, m), m.status = "Released", CreditReputation(1)
    PROVE  Earned
<1>1. ms'[j].status = "Released" /\ Live' = Live /\ ms[j].status # "Released"
  BY LiveSlot DEF SetMilestone, Inductive, TypeOK, IsTerminal, Terminal, Live, jobVars
<1>2. {j} \in SUBSET NewlyReleased
  BY <1>1 DEF NewlyReleased, ReleasedOnes
<1>3. CreditReputation(Cardinality({j}))
  BY FS_Singleton
<1> QED
  BY <1>2, <1>3 DEF Earned

\* Every way to pay keeps the status it is told to write.
LEMMA ReleasedStatus ==
    ASSUME NEW m \in Milestone, NEW toward, NEW amt
    PROVE  /\ Settled(m, "Released", toward, amt).status = "Released"
           /\ WithoutExtension(Settled(m, "Released", toward, amt)).status = "Released"
           /\ Closed(Settled(m, "Released", toward, amt)).status = "Released"
  BY DEF Settled, WithoutExtension, WithoutDispute, Closed, Milestone

LEMMA ApprovalsEarn == ASSUME Inductive, ApprovalNext PROVE Earned
<1>1. \A i \in Live: ms[i] \in Milestone
  BY LiveSlot
<1>2. ASSUME NEW j \in Milestones, NEW amt \in PartialAmounts, ApprovePartial(j, amt) PROVE Earned
  <2>1. UNCHANGED jobVars /\ j \in Live /\ ~IsTerminal(ms[j])
    BY <1>2 DEF ApprovePartial, InReview, IsTerminal, Terminal
  <2>2. CASE amt = Remaining(ms[j])
    BY <1>1, <1>2, <2>1, <2>2, ReleasedStatus, OneEarned DEF ApprovePartial
  <2>3. CASE amt # Remaining(ms[j])
    BY <1>2, <2>3 DEF ApprovePartial, Earned
  <2> QED
    BY <2>2, <2>3
<1>3. ASSUME NEW batch \in SUBSET Milestones, ApproveMilestones(batch) PROVE Earned
  <2>1. /\ UNCHANGED jobVars /\ batch \subseteq Live /\ CreditReputation(Cardinality(batch))
        /\ \A i \in batch: ms[i].status \in InReview
        /\ ms' = [i \in Milestones |->
                    IF i \in batch
                    THEN Settled(ms[i], "Released", Remaining(ms[i]), Remaining(ms[i]))
                    ELSE ms[i]]
    BY <1>3 DEF ApproveMilestones
  <2>2. Live' = Live
    BY <2>1 DEF Live, jobVars
  <2>3. \A i \in batch: ms'[i].status = "Released" /\ ms[i].status # "Released"
    BY <1>1, <2>1, ReleasedStatus DEF InReview
  <2>4. batch \in SUBSET NewlyReleased
    BY <2>1, <2>2, <2>3 DEF NewlyReleased, ReleasedOnes
  <2> QED
    BY <2>1, <2>4 DEF Earned
<1>4. ASSUME NEW j \in Milestones, NEW r \in StreamRatios, PaymentStreamingConsent(j, r[1], r[2])
      PROVE  Earned
  <2> DEFINE pay == SplitNearest(Remaining(ms[j]), r[1], r[2]).first
  <2>1. /\ UNCHANGED jobVars /\ j \in Live /\ ms[j].status \in InReview
        /\ \/ SetMilestone(j, Settled(ms[j], "Released", pay, pay)) /\ CreditReputation(1)
           \/ UNCHANGED reputation
    BY <1>4 DEF PaymentStreamingConsent
  <2> HIDE DEF pay
  <2>2. ~IsTerminal(ms[j])
    BY <2>1 DEF InReview, IsTerminal, Terminal
  <2> QED
    BY <1>1, <2>1, <2>2, ReleasedStatus, OneEarned DEF Earned
<1>5. ASSUME NEW j \in Milestones, ApproveMilestone(j) \/ TriggerAutoRelease(j) PROVE Earned
  <2>1. j \in Live /\ ~IsTerminal(ms[j]) /\ ReleaseInFull(j)
    BY <1>5 DEF ApproveMilestone, TriggerAutoRelease, AutoReleasable, IsTerminal, Terminal
  <2> QED
    BY <1>1, <2>1, ReleasedStatus, OneEarned DEF ReleaseInFull
<1> QED
  BY <1>2, <1>3, <1>4, <1>5 DEF ApprovalNext

\* The decisions credit the freelancer's side, or nobody.
LEMMA SplitEarns ==
    ASSUME Inductive, UNCHANGED jobVars, NEW j \in Live, ~IsTerminal(ms[j]),
           NEW refund, NEW payout, NEW spent, CloseBySplit(j, refund, payout, spent)
    PROVE  Earned
<1>1. ms[j] \in Milestone
  BY LiveSlot
<1>2. CASE SplitStatus(refund, payout) = "Released"
  BY <1>1, <1>2, ReleasedStatus, OneEarned DEF CloseBySplit
<1>3. CASE SplitStatus(refund, payout) # "Released"
  BY <1>3 DEF CloseBySplit, Earned
<1> QED
  BY <1>2, <1>3

LEMMA JudgementsEarn == ASSUME Inductive, DisputeNext \/ OverrideNext PROVE Earned
<1>1. \A i \in Live: ms[i] \in Milestone
  BY LiveSlot
<1>2. ASSUME NEW j \in Milestones, NEW b \in BOOLEAN, ResolveDispute(j, b) PROVE Earned
  <2>1. UNCHANGED jobVars /\ j \in Live /\ ~IsTerminal(ms[j])
    BY <1>2 DEF ResolveDispute, Arbitrable, IsTerminal, Terminal
  <2>2. CASE b
    BY <1>1, <1>2, <2>1, <2>2, ReleasedStatus, OneEarned DEF ResolveDispute
  <2>3. CASE ~b
    BY <1>2, <2>3 DEF ResolveDispute, Earned
  <2> QED
    BY <2>2, <2>3
<1>3. ASSUME NEW j \in Milestones, NEW bps \in SplitBps, ApplyDisputeArbitrationSplit(j, bps)
      PROVE  Earned
  BY <1>3, SplitEarns DEF ApplyDisputeArbitrationSplit, Arbitrable, IsTerminal, Terminal
<1>4. ASSUME NEW j \in Milestones, NEW r \in ElapsedRatios, AdminOverrideStreamingRelease(j, r[1], r[2])
      PROVE  Earned
  BY <1>4, SplitEarns DEF AdminOverrideStreamingRelease, Overridable
<1>5. ASSUME NEW j \in Milestones, RaiseDispute(j) \/ SubmitEvidence(j) \/ EscalateDispute(j)
                  \/ AdminOverrideRelease(j) \/ AdminOverrideRefund(j)
      PROVE  Earned
  BY <1>5 DEF RaiseDispute, SubmitEvidence, EscalateDispute, AdminOverrideRelease,
     AdminOverrideRefund, AdminOverride, moneyVars, Earned
<1> QED
  BY <1>2, <1>3, <1>4, <1>5 DEF DisputeNext, OverrideNext

LEMMA OthersEarnNothing ==
    ASSUME \/ FundingNext \/ PartyNext \/ RefundNext \/ DeliveryNext \/ TokenNext \/ CancelNext
           \/ PauseNext \/ MultisigNext \/ YieldNext \/ Tick \/ UNCHANGED vars
    PROVE  Earned
<1>1. CASE FundingNext \/ PartyNext \/ RefundNext
  BY <1>1 DEF FundingNext, Fund, FundMilestone, AddMilestone, ReduceMilestone, SetDueDates,
     PartyNext, AcceptJob, AcceptArbiter, Accept, ReplaceArbiter, RotateFreelancer,
     RefundNext, WithdrawUnaccepted, ReclaimOverdue, moneyVars, Earned
<1>2. CASE DeliveryNext \/ TokenNext
  BY <1>2 DEF DeliveryNext, MarkDelivered, RequestRevision, ExtendMilestoneDeadline,
     TimeExtensionsConsent, Extend, TokenNext, Withdraw, SweepExcess, Donate, moneyVars, Earned
<1>3. CASE CancelNext \/ MultisigNext \/ YieldNext
  BY <1>3 DEF CancelNext, CancelEscrow, RevokeCancelApproval, AdminOverrideCancelRelease,
     AdminOverrideCancelRefund, SettleAllRemaining, MultisigNext, MultisigLock,
     MultisigAdminOverrideRelease, MultisigAdminOverrideRefund, MultisigAdminOverride,
     YieldNext, AdminAccrueYield, moneyVars, Earned
<1>4. CASE PauseNext \/ Tick \/ UNCHANGED vars
  BY <1>4 DEF PauseNext, EmergencyPause, EmergencyUnpauseParties, EmergencyUnpause,
     EmergencyPauseAdminOverride, AdminPauseEscrow, AdminResumeEscrow, SetPauses, Tick, vars,
     moneyVars, Earned
<1> QED
  BY <1>1, <1>2, <1>3, <1>4

LEMMA ApartStep == ASSUME PartiesApart, [Next]_vars PROVE PartiesApart'
<1>1. CASE PartyNext
  BY <1>1 DEF PartyNext, AcceptJob, AcceptArbiter, Accept, ReplaceArbiter, RotateFreelancer,
     PartiesApart
<1>2. CASE ~PartyNext
  <2>1. freelancer' = freelancer
    <3>1. CASE FundingNext \/ RefundNext \/ DeliveryNext \/ TokenNext \/ ApprovalNext
      BY <3>1 DEF FundingNext, Fund, FundMilestone, AddMilestone, ReduceMilestone, SetDueDates,
         RefundNext, WithdrawUnaccepted, ReclaimOverdue, DeliveryNext, MarkDelivered,
         RequestRevision, ExtendMilestoneDeadline, TimeExtensionsConsent, Extend, TokenNext,
         Withdraw, SweepExcess, Donate, ApprovalNext, ApprovePartial, ApproveMilestone,
         ApproveMilestones, ReleaseInFull, PaymentStreamingConsent, TriggerAutoRelease, partyVars
    <3>2. CASE DisputeNext \/ CancelNext \/ OverrideNext \/ MultisigNext
      BY <3>2 DEF DisputeNext, RaiseDispute, SubmitEvidence, EscalateDispute, ResolveDispute,
         ApplyDisputeArbitrationSplit, CancelNext, CancelEscrow, RevokeCancelApproval,
         AdminOverrideCancelRelease, AdminOverrideCancelRefund, SettleAllRemaining,
         OverrideNext, AdminOverrideRelease, AdminOverrideRefund, AdminOverride,
         AdminOverrideStreamingRelease, MultisigNext, MultisigLock,
         MultisigAdminOverrideRelease, MultisigAdminOverrideRefund, MultisigAdminOverride, partyVars
    <3>3. CASE PauseNext \/ YieldNext \/ Tick \/ UNCHANGED vars
      BY <3>3 DEF PauseNext, EmergencyPause, EmergencyUnpauseParties, EmergencyUnpause,
         EmergencyPauseAdminOverride, AdminPauseEscrow, AdminResumeEscrow, SetPauses,
         YieldNext, AdminAccrueYield, Tick, vars, partyVars
    <3> QED
      BY <1>2, <3>1, <3>2, <3>3 DEF Next
  <2> QED
    BY <2>1 DEF PartiesApart
<1> QED
  BY <1>1, <1>2

\* The client's reputation never exceeds the milestones that ended Released, and all
\* of it was given to freelancers as well (ReputationEarned), whoever rotated in or
\* out: a rotation never makes the two parties one account.
THEOREM ReputationIsEarned == Spec => []ReputationEarned
<1>1. Init => PartiesApart /\ ReputationEarned
  <2> SUFFICES ASSUME Init PROVE PartiesApart /\ ReputationEarned
    OBVIOUS
  <2>1. PartiesApart
    BY PartiesAssumption DEF Init, PartiesApart
  <2>2. Client \in Address /\ reputation = [a \in Address |-> 0] /\ Inductive
    BY PartiesAssumption, InitInductive DEF Init
  <2> DEFINE none == [i \in {} |-> 0]
             others == Address \ {Client}
  <2>3. IsFiniteSet(others) /\ \A a \in others \ {}: reputation[a] = 0
    BY <2>2, PartiesAssumption, FS_Subset
  <2> HIDE DEF none, others
  <2>4. SumFunctionOnSet(none, {}) = SumFunctionOnSet(reputation, others)
    BY <2>3, SumWithin
  <2>5. SumFunctionOnSet(reputation, others) = 0
    BY <2>4, SumOfNothing
  <2>6. Cardinality(ReleasedOnes) \in Nat
    BY <2>2, ReleasedFinite, FS_CardinalityType
  <2>7. ReputationEarned
    BY <2>2, <2>5, <2>6 DEF ReputationEarned, ReleasedOnes, others
  <2> QED
    BY <2>1, <2>7
<1>2. Inductive /\ PartiesApart /\ ReputationEarned /\ [Next]_vars
         => PartiesApart' /\ ReputationEarned'
  <2> SUFFICES ASSUME Inductive, PartiesApart, ReputationEarned, [Next]_vars
               PROVE  PartiesApart' /\ ReputationEarned'
    OBVIOUS
  <2>1. Inductive' /\ ReleasedOnes \subseteq ReleasedOnes' /\ PartiesApart'
    BY NextInductive, LiveGrows, ReleasedStays, ApartStep
  <2>2. Earned
    BY ApprovalsEarn, JudgementsEarn, OthersEarnNothing DEF Next
  <2> QED
    BY <2>1, <2>2, EarnedStep
<1> QED
  BY <1>1, <1>2, InductiveInvariant, PTL DEF Spec

=============================================================================
