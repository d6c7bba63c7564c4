--------------------------- MODULE CalculatorsProofs ---------------------------
(***************************************************************************)
(* Every quote the calculators can give, for all amounts, taxes and        *)
(* ratios, from the theorems about the divisions; and every allocation     *)
(* that the largest-remainder loop can return, for any number of parties   *)
(* and all weights, from its loop invariant.                               *)
(***************************************************************************)
EXTENDS EscrowSplits, Allocation, EscrowMathProofs

\* The emergency split quotes what the direct split quotes, whatever was asked
\* before.
THEOREM EmergencyQuotesAgree == Spec => []EmergencySplitAgrees
<1>1. Init => EmergencySplitAgrees
  BY DEF Init, Quote, EmergencySplitAgrees
<1>2. EmergencySplitAgrees /\ [Next]_quote => EmergencySplitAgrees'
  <2> SUFFICES ASSUME EmergencySplitAgrees, [Next]_quote PROVE EmergencySplitAgrees'
    OBVIOUS
  <2>1. ASSUME NEW g \in Grosses, NEW bps \in Ratios, EmergencyPauseSplitRefund(g, bps)
        PROVE  EmergencySplitAgrees'
    <3>1. g \in Nat /\ bps \in Nat
      BY <2>1, InputsAssumption DEF EmergencyPauseSplitRefund, CanSplitExact
    <3>2. EmergencySplitExact(g, bps) = SplitNearest(g, bps, BpsScale)
      BY <3>1, ExactIsNearest
    <3> QED BY <2>1, <3>2 DEF EmergencyPauseSplitRefund, Quote, EmergencySplitAgrees
  <2>2. ASSUME NEW g \in Grosses, NEW t \in Taxes, NEW bps \in Ratios,
               TaxWithholdingSplitRefund(g, t, bps)
        PROVE  EmergencySplitAgrees'
    BY <2>2 DEF TaxWithholdingSplitRefund, Quote, EmergencySplitAgrees
  <2>3. ASSUME NEW g \in Grosses, NEW bps \in Ratios, NEW f \in Fees,
               SplitRefundNetDistribution(g, bps, f)
        PROVE  EmergencySplitAgrees'
    BY <2>3 DEF SplitRefundNetDistribution, EmergencySplitAgrees
  <2>4. CASE UNCHANGED quote
    BY <2>4 DEF EmergencySplitAgrees
  <2> QED BY <2>1, <2>2, <2>3, <2>4 DEF Next
<1> QED BY <1>1, <1>2, PTL DEF Spec

\* Quotes net of tax are payable and complete.
THEOREM WithheldQuotesPayable == Spec => []WithheldSharesArePayable
<1>1. Init => WithheldSharesArePayable
  BY DEF Init, Quote, WithheldSharesArePayable
<1>2. WithheldSharesArePayable /\ [Next]_quote => WithheldSharesArePayable'
  <2> SUFFICES ASSUME WithheldSharesArePayable, [Next]_quote
               PROVE  WithheldSharesArePayable'
    OBVIOUS
  <2>1. ASSUME NEW g \in Grosses, NEW bps \in Ratios, EmergencyPauseSplitRefund(g, bps)
        PROVE  WithheldSharesArePayable'
    BY <2>1 DEF EmergencyPauseSplitRefund, Quote, WithheldSharesArePayable
  <2>2. ASSUME NEW g \in Grosses, NEW t \in Taxes, NEW bps \in Ratios,
               TaxWithholdingSplitRefund(g, t, bps)
        PROVE  WithheldSharesArePayable'
    <3>1. g \in Nat /\ t \in Nat /\ bps \in Nat /\ CanSplitWithheld(g, t, bps)
      BY <2>2, InputsAssumption DEF TaxWithholdingSplitRefund, CanSplitWithheld
    <3> DEFINE s == SplitWithheld(g, t, bps)
    <3>2. s.client >= 0 /\ s.freelancer >= 0 /\ s.client + s.freelancer = g - t
      BY <3>1, WithheldPayable
    <3>3. quote' = Quote("withheld", g, t, bps, s.client, s.freelancer)
      BY <2>2 DEF TaxWithholdingSplitRefund
    <3> HIDE DEF s
    <3> QED BY <3>2, <3>3 DEF Quote, WithheldSharesArePayable
  <2>3. ASSUME NEW g \in Grosses, NEW bps \in Ratios, NEW f \in Fees,
               SplitRefundNetDistribution(g, bps, f)
        PROVE  WithheldSharesArePayable'
    BY <2>3 DEF SplitRefundNetDistribution, WithheldSharesArePayable
  <2>4. CASE UNCHANGED quote
    BY <2>4 DEF WithheldSharesArePayable
  <2> QED BY <2>1, <2>2, <2>3, <2>4 DEF Next
<1> QED BY <1>1, <1>2, PTL DEF Spec

\* Distributions net of fees are payable and complete, for every amount, every
\* ratio and every fee that the contract would store.
THEOREM NetQuotesPayable == Spec => []NetSharesArePayable
<1>1. Init => NetSharesArePayable
  BY DEF Init, Quote, NetSharesArePayable
<1>2. NetSharesArePayable /\ [Next]_quote => NetSharesArePayable'
  <2> SUFFICES ASSUME NetSharesArePayable, [Next]_quote PROVE NetSharesArePayable'
    OBVIOUS
  <2>1. ASSUME NEW g \in Grosses, NEW bps \in Ratios, EmergencyPauseSplitRefund(g, bps)
        PROVE  NetSharesArePayable'
    BY <2>1 DEF EmergencyPauseSplitRefund, Quote, NetSharesArePayable
  <2>2. ASSUME NEW g \in Grosses, NEW t \in Taxes, NEW bps \in Ratios,
               TaxWithholdingSplitRefund(g, t, bps)
        PROVE  NetSharesArePayable'
    BY <2>2 DEF TaxWithholdingSplitRefund, Quote, NetSharesArePayable
  <2>3. ASSUME NEW g \in Grosses, NEW bps \in Ratios, NEW f \in Fees,
               SplitRefundNetDistribution(g, bps, f)
        PROVE  NetSharesArePayable'
    <3> DEFINE n == NetDistribution(g, bps, f)
    <3>1. /\ g \in Nat /\ bps \in Nat /\ CanDistribute(g, bps, f)
          /\ f \in [client: Nat, freelancer: Nat, treasury: Nat]
      BY <2>3, InputsAssumption DEF SplitRefundNetDistribution, CanDistribute, FeeRatios
    <3>2. FeesAllowed(f) =>
            /\ n.refund >= 0 /\ n.clientFee >= 0 /\ n.treasuryFee >= 0 /\ n.freelancer >= 0
            /\ n.refund + n.clientFee + n.treasuryFee + n.freelancer = g
      BY <3>1, NetPayable
    <3>3. quote' = [kind |-> "net", gross |-> g, bps |-> bps, fees |-> f, net |-> n]
      BY <2>3 DEF SplitRefundNetDistribution
    <3> HIDE DEF n
    <3> QED BY <3>2, <3>3 DEF NetSharesArePayable
  <2>4. CASE UNCHANGED quote
    BY <2>4 DEF NetSharesArePayable
  <2> QED BY <2>1, <2>2, <2>3, <2>4 DEF Next
<1> QED BY <1>1, <1>2, PTL DEF Spec
-----------------------------------------------------------------------------
(***************************************************************************)
(* The first loop: floors and remainders.                                  *)
(***************************************************************************)
LEMMA PartiesFinite == IsFiniteSet(Parties)
  BY FS_Interval, AllocationAssumption DEF Parties

LEMMA DivisionExact ==
    ASSUME NEW x \in Nat, NEW n \in Nat \ {0}
    PROVE  x \div n \in Nat /\ x % n \in 0..(n - 1) /\ x = n * (x \div n) + (x % n)
  OBVIOUS

LEMMA QuotaAndRest ==
    ASSUME NEW t \in Int, NEW w \in [Parties -> Int], CanAllocate(t, w)
    PROVE  /\ t \in Nat /\ WeightSum(w) \in Nat \ {0}
           /\ WeightSum(w) = SumFunctionOnSet(w, Parties)
           /\ \A p \in Parties:
                 /\ w[p] \in Nat /\ t * w[p] \in Nat
                 /\ Quota(t, w, p) \in Nat /\ Rest(t, w, p) \in 0..(WeightSum(w) - 1)
                 /\ t * w[p] = WeightSum(w) * Quota(t, w, p) + Rest(t, w, p)
<1>1. t \in Nat /\ WeightSum(w) \in Nat \ {0}
  BY IntMaxAssumption DEF CanAllocate
<1>2. WeightSum(w) = SumFunctionOnSet(w, Parties)
  BY DEF WeightSum, SumFunction
<1>3. ASSUME NEW p \in Parties
      PROVE  /\ w[p] \in Nat /\ t * w[p] \in Nat
             /\ Quota(t, w, p) \in Nat /\ Rest(t, w, p) \in 0..(WeightSum(w) - 1)
             /\ t * w[p] = WeightSum(w) * Quota(t, w, p) + Rest(t, w, p)
  <2>1. w[p] \in Nat
    BY DEF CanAllocate
  <2>2. t * w[p] \in Nat
    <3> DEFINE v == w[p]
    <3>1. v \in Nat
      BY <2>1
    <3> HIDE DEF v
    <3>2. t * v \in Nat
      BY <1>1, <3>1, ProductMonotone
    <3> QED
      BY <3>2 DEF v
  <2> QED
    BY <1>1, <2>1, <2>2, DivisionExact DEF Quota, Rest
<1> QED
  BY <1>1, <1>2, <1>3

\* What the floors leave is what the remainders amount to, in units of the weight sum.
LEMMA LeftIsTheRests ==
    ASSUME NEW t \in Int, NEW w \in [Parties -> Int], CanAllocate(t, w)
    PROVE  /\ Left(t, w) \in Nat
           /\ SumFunctionOnSet([p \in Parties |-> Rest(t, w, p)], Parties)
                 = WeightSum(w) * Left(t, w)
           /\ SumFunctionOnSet([p \in Parties |-> Quota(t, w, p)], Parties) = t - Left(t, w)
<1> DEFINE W == WeightSum(w)
           q == [p \in Parties |-> Quota(t, w, p)]
           r == [p \in Parties |-> Rest(t, w, p)]
           v == [p \in Parties |-> t * w[p]]
           b == [p \in Parties |-> W * Quota(t, w, p)]
           Q == SumFunctionOnSet(q, Parties)
           R == SumFunctionOnSet(r, Parties)
<1>1. /\ t \in Nat /\ W \in Nat \ {0} /\ W = SumFunctionOnSet(w, Parties)
      /\ \A p \in Parties: /\ w[p] \in Nat /\ v[p] = t * w[p] /\ b[p] = W * q[p]
                           /\ q[p] \in Nat /\ r[p] \in Nat /\ b[p] \in Int /\ v[p] = b[p] + r[p]
  <2>1. /\ t \in Nat /\ W \in Nat \ {0} /\ W = SumFunctionOnSet(w, Parties)
    BY QuotaAndRest
  <2> SUFFICES ASSUME NEW p \in Parties
               PROVE  /\ w[p] \in Nat /\ v[p] = t * w[p] /\ b[p] = W * q[p]
                      /\ q[p] \in Nat /\ r[p] \in Nat /\ b[p] \in Int /\ v[p] = b[p] + r[p]
    BY <2>1
  <2>2. /\ w[p] \in Nat /\ Quota(t, w, p) \in Nat /\ Rest(t, w, p) \in 0..(W - 1)
        /\ t * w[p] = W * Quota(t, w, p) + Rest(t, w, p)
    BY QuotaAndRest
  <2>3. v[p] = t * w[p] /\ b[p] = W * q[p] /\ q[p] = Quota(t, w, p) /\ r[p] = Rest(t, w, p)
    OBVIOUS
  <2> HIDE DEF q, r, v, b, W
  <2> QED
    BY <2>1, <2>2, <2>3
<1>2. Left(t, w) = t - Q
  BY DEF Left, SumFunction
<1> HIDE DEF W, q, r, v, b
<1>3. SumFunctionOnSet(v, Parties) = t * W
  BY <1>1, SumScaled, PartiesFinite
<1>4. SumFunctionOnSet(b, Parties) = W * Q
  BY <1>1, SumScaled, PartiesFinite
<1>5. SumFunctionOnSet(v, Parties) = SumFunctionOnSet(b, Parties) + R
  BY <1>1, SumsAdd, PartiesFinite
<1>6. Q \in Nat /\ R \in Nat
  BY <1>1, SumNat, PartiesFinite
<1> HIDE DEF Q, R
<1>7. R = W * (t - Q)
  <2>1. t * W = W * Q + R
    BY <1>3, <1>4, <1>5
  <2>2. W * (t - Q) = W * t - W * Q
    BY <1>1, <1>6
  <2>3. W * t = t * W /\ W * Q \in Int
    BY <1>1, <1>6
  <2> QED
    BY <1>6, <2>1, <2>2, <2>3
<1>8. t - Q \in Nat
  <2> SUFFICES ASSUME Q > t PROVE FALSE
    BY <1>1, <1>6
  <2>1. W * (t - Q) < 0
    BY <1>1, <1>6
  <2> QED
    BY <1>6, <1>7, <2>1
<1>9. Q = t - Left(t, w)
  BY <1>1, <1>2, <1>6
<1> QED
  BY <1>2, <1>7, <1>8, <1>9 DEF W, r, q, Q, R

-----------------------------------------------------------------------------
(***************************************************************************)
(* The second loop.  Its invariant: the parties that had their unit come   *)
(* before those that did not, each had a remainder, and the remainders of  *)
(* the parties that wait are enough for the units that are left.           *)
(***************************************************************************)
Served == {p \in Parties: remainders[p] = Retired}

Waiting == [p \in Parties |-> IF p \in Served THEN 0 ELSE Rest(total, weights, p)]

ServedInOrder ==
    /\ \A p \in Parties:
          /\ remainders[p] = IF p \in Served THEN Retired ELSE Rest(total, weights, p)
          /\ allocations[p] = Quota(total, weights, p) + IF p \in Served THEN 1 ELSE 0
    /\ \A p \in Served:
          /\ Rest(total, weights, p) > 0
          /\ \A q \in Parties \ Served: Before(total, weights, p, q)

UnitsCounted ==
    /\ Cardinality(Served) + remaining = Left(total, weights)
    /\ SumFunctionOnSet(Waiting, Parties) >= WeightSum(weights) * remaining
    /\ SumFunctionOnSet(allocations, Parties) + remaining = total

LoopInv ==
    /\ total \in Nat /\ remaining \in Nat
    /\ allocations \in [Parties -> Int] /\ remainders \in [Parties -> Int]
    /\ running => total > 0
    /\ total > 0 =>
          /\ weights \in [Parties -> Int] /\ CanAllocate(total, weights)
          /\ ServedInOrder /\ UnitsCounted
          /\ ~running => remaining = 0

\* Of finitely many parties with a number each, one comes first: nobody's number is
\* larger, and nobody with the same number has a smaller index.
LEMMA FirstOfTheLargest ==
    ASSUME NEW f, \A p \in Parties: f[p] \in Int
    PROVE  \E p \in Parties: \A o \in Parties: f[o] < f[p] \/ (f[o] = f[p] /\ p <= o)
<1> DEFINE First(T, p) == \A o \in T: f[o] < f[p] \/ (f[o] = f[p] /\ p <= o)
           G == {T \in SUBSET Parties: T # {} => \E p \in T: First(T, p)}
<1>1. ASSUME NEW T \in SUBSET Parties, \A U \in SUBSET T: U # T => U \in G
      PROVE  T \in G
  <2> SUFFICES ASSUME T # {} PROVE \E p \in T: First(T, p)
    OBVIOUS
  <2>1. PICK x \in T: TRUE
    OBVIOUS
  <2>2. \A o \in T: f[o] \in Int /\ o \in Int
    BY DEF Parties
  <2>3. CASE T = {x}
    BY <2>2, <2>3
  <2>4. CASE T # {x}
    <3>1. T \ {x} # {} /\ T \ {x} \in G
      BY <1>1, <2>1, <2>4
    <3>2. PICK y \in T \ {x}: First(T \ {x}, y)
      BY <3>1
    <3>3. CASE f[x] < f[y] \/ (f[x] = f[y] /\ y <= x)
      BY <3>2, <3>3
    <3>4. CASE ~(f[x] < f[y] \/ (f[x] = f[y] /\ y <= x))
      <4>1. ASSUME NEW o \in T PROVE f[o] < f[x] \/ (f[o] = f[x] /\ x <= o)
        <5>1. CASE o = x
          BY <2>2, <5>1
        <5>2. CASE o # x
          BY <2>2, <3>2, <3>4, <5>2
        <5> QED
          BY <5>1, <5>2
      <4> QED
        BY <4>1
    <3> QED
      BY <3>3, <3>4
  <2> QED
    BY <2>3, <2>4
<1>2. \A T \in SUBSET Parties: T \in G
  <2> HIDE DEF G
  <2> QED
    BY <1>1, SetInduction, PartiesFinite
<1>3. Parties # {}
  BY AllocationAssumption DEF Parties
<1> QED
  BY <1>2, <1>3

LEMMA BestIsFirst ==
    ASSUME remainders \in [Parties -> Int]
    PROVE  /\ Best \in Parties
           /\ \A o \in Parties: remainders[o] < remainders[Best]
                                \/ (remainders[o] = remainders[Best] /\ Best <= o)
<1>1. PICK b \in Parties: \A o \in Parties: remainders[o] < remainders[b]
                                            \/ (remainders[o] = remainders[b] /\ b <= o)
  BY FirstOfTheLargest
<1>2. Largest(b) /\ \A o \in Parties: Largest(o) => b <= o
  <2>1. Largest(b)
    BY <1>1 DEF Largest
  <2>2. ASSUME NEW o \in Parties, Largest(o) PROVE b <= o
    BY <1>1, <2>2 DEF Largest
  <2> QED
    BY <2>1, <2>2
<1>3. Best \in Parties /\ Largest(Best) /\ \A o \in Parties: Largest(o) => Best <= o
  BY <1>2, Zenon DEF Best
<1>4. Best <= b /\ b <= Best
  BY <1>2, <1>3
<1>5. Best = b
  BY <1>3, <1>4 DEF Parties
<1> QED
  BY <1>1, <1>5

\* A call starts with nobody served and all units to hand out.
LEMMA AllocateStarts ==
    ASSUME LoopInv, NEW t \in Totals, NEW w \in [Parties -> Weights], Allocate(t, w)
    PROVE  LoopInv'
<1>1. t \in Int /\ w \in [Parties -> Int] /\ CanAllocate(t, w)
  BY AllocationAssumption DEF Allocate
<1>2. /\ total' = t /\ weights' = w /\ running' = TRUE /\ remaining' = Left(t, w)
      /\ allocations' = [p \in Parties |-> Quota(t, w, p)]
      /\ remainders' = [p \in Parties |-> Rest(t, w, p)]
  BY DEF Allocate
<1>3. /\ t \in Nat /\ t > 0 /\ Left(t, w) \in Nat
      /\ \A p \in Parties: /\ Quota(t, w, p) \in Nat /\ Rest(t, w, p) \in Nat
  <2>1. /\ t \in Nat /\ WeightSum(w) \in Nat \ {0}
        /\ \A p \in Parties: /\ Quota(t, w, p) \in Nat
                             /\ Rest(t, w, p) \in 0..(WeightSum(w) - 1)
    BY <1>1, QuotaAndRest
  <2>2. Left(t, w) \in Nat
    BY <1>1, LeftIsTheRests
  <2>3. t > 0
    BY <1>1 DEF CanAllocate
  <2> QED
    BY <2>1, <2>2, <2>3
<1>4. Served' = {}
  BY <1>2, <1>3 DEF Served, Retired
<1>5. ServedInOrder'
  BY <1>2, <1>3, <1>4 DEF ServedInOrder
<1>6. UnitsCounted'
  <2>1. Waiting' = [p \in Parties |-> Rest(t, w, p)]
    BY <1>2, <1>4 DEF Waiting
  <2>2. SumFunctionOnSet(Waiting', Parties) = WeightSum(w) * Left(t, w)
    BY <1>1, <2>1, LeftIsTheRests
  <2>3. SumFunctionOnSet(allocations', Parties) = t - Left(t, w)
    BY <1>1, <1>2, LeftIsTheRests
  <2>4. Cardinality(Served') = 0
    BY <1>4, FS_EmptySet
  <2>5. WeightSum(w) \in Nat
    BY <1>1, QuotaAndRest
  <2>6. WeightSum(w) * Left(t, w) \in Int
    BY <1>3, <2>5
  <2> QED
    BY <1>2, <1>3, <2>2, <2>3, <2>4, <2>6 DEF UnitsCounted
<1> QED
  BY <1>1, <1>2, <1>3, <1>5, <1>6 DEF LoopInv

\* While units are left, somebody with a remainder waits.
LEMMA SomebodyWaits ==
    ASSUME LoopInv, total > 0, remaining > 0
    PROVE  \E p \in Parties: p \notin Served /\ Rest(total, weights, p) > 0
<1> SUFFICES ASSUME \A p \in Parties: p \in Served \/ ~(Rest(total, weights, p) > 0) PROVE FALSE
  OBVIOUS
<1> DEFINE f == Waiting
<1>1. /\ WeightSum(weights) \in Nat \ {0} /\ remaining \in Nat \ {0}
      /\ \A p \in Parties: Rest(total, weights, p) \in Nat
  BY QuotaAndRest DEF LoopInv
<1>2. \A p \in Parties \ {}: f[p] = 0
  BY <1>1 DEF Waiting
<1> HIDE DEF f
<1> DEFINE none == [p \in {} |-> 0]
<1> HIDE DEF none
<1>3. SumFunctionOnSet(none, {}) = SumFunctionOnSet(f, Parties)
  BY <1>2, SumWithin, PartiesFinite
<1>4. SumFunctionOnSet(f, Parties) = 0
  BY <1>3, SumOfNothing
<1>5. SumFunctionOnSet(f, Parties) >= WeightSum(weights) * remaining
  BY DEF LoopInv, UnitsCounted, f
<1>6. WeightSum(weights) * remaining > 0
  <2> DEFINE W == WeightSum(weights)
  <2>1. W \in Nat \ {0}
    BY <1>1
  <2> HIDE DEF W
  <2>2. W * 1 <= W * remaining
    BY <1>1, <2>1, ProductMonotone
  <2>3. W * remaining > 0
    BY <1>1, <2>1, <2>2
  <2> QED
    BY <2>3 DEF W
<1> QED
  BY <1>1, <1>4, <1>5, <1>6

LEMMA HandOutServes == ASSUME LoopInv, HandOut PROVE LoopInv'
<1>1. /\ total > 0 /\ remaining > 0 /\ running
      /\ total \in Nat /\ remaining \in Nat /\ weights \in [Parties -> Int]
      /\ CanAllocate(total, weights) /\ ServedInOrder /\ UnitsCounted
      /\ allocations \in [Parties -> Int] /\ remainders \in [Parties -> Int]
  BY DEF LoopInv, HandOut
<1>2. /\ WeightSum(weights) \in Nat \ {0}
      /\ \A p \in Parties: Rest(total, weights, p) \in 0..(WeightSum(weights) - 1)
  BY <1>1, QuotaAndRest
<1>3. PICK b \in Parties:
         /\ b = Best
         /\ \A o \in Parties: remainders[o] < remainders[b]
                              \/ (remainders[o] = remainders[b] /\ b <= o)
  BY <1>1, BestIsFirst
<1>4. /\ allocations' = [allocations EXCEPT ![b] = @ + 1]
      /\ remainders' = [remainders EXCEPT ![b] = Retired]
      /\ remaining' = remaining - 1
      /\ total' = total /\ weights' = weights /\ running' = running
  BY <1>3 DEF HandOut, Retire
<1>5. b \notin Served /\ remainders[b] = Rest(total, weights, b) /\ Rest(total, weights, b) > 0
  <2>1. PICK p \in Parties: p \notin Served /\ Rest(total, weights, p) > 0
    BY <1>1, SomebodyWaits
  <2>2. remainders[p] > 0 /\ remainders[p] \in Int /\ remainders[b] \in Int
    BY <1>1, <2>1 DEF ServedInOrder
  <2>3. remainders[b] > 0
    BY <1>3, <2>2
  <2>4. b \notin Served
    BY <2>3 DEF Served, Retired
  <2> QED
    BY <1>1, <2>3, <2>4 DEF ServedInOrder
<1>6. Served' = Served \cup {b}
  BY <1>1, <1>4 DEF Served
<1>7. ServedInOrder'
  <2>1. ASSUME NEW p \in Parties
        PROVE  /\ remainders'[p] = IF p \in Served' THEN Retired ELSE Rest(total, weights, p)
               /\ allocations'[p] = Quota(total, weights, p) + IF p \in Served' THEN 1 ELSE 0
    <3>1. CASE p = b
      <4>1. allocations'[p] = allocations[b] + 1 /\ remainders'[p] = Retired
        BY <1>1, <1>4, <3>1
      <4>2. allocations[b] = Quota(total, weights, b) + 0 /\ Quota(total, weights, b) \in Nat
        BY <1>1, <1>5, QuotaAndRest DEF ServedInOrder
      <4> QED
        BY <1>6, <3>1, <4>1, <4>2
    <3>2. CASE p # b
      <4>1. allocations'[p] = allocations[p] /\ remainders'[p] = remainders[p]
        BY <1>1, <1>4, <3>2
      <4> QED
        BY <1>1, <1>6, <3>2, <4>1 DEF ServedInOrder
    <3> QED
      BY <3>1, <3>2
  <2>2. ASSUME NEW p \in Served', NEW q \in Parties \ Served' PROVE Before(total, weights, p, q)
    <3>1. CASE p = b
      <4>1. remainders[q] = Rest(total, weights, q) /\ q # b
        BY <1>1, <1>6, <2>2 DEF ServedInOrder
      <4>2. Rest(total, weights, q) < Rest(total, weights, b)
            \/ (Rest(total, weights, q) = Rest(total, weights, b) /\ b <= q)
        BY <1>3, <1>5, <4>1
      <4>3. b \in Int /\ q \in Int
        BY DEF Parties
      <4> QED
        BY <1>2, <3>1, <4>1, <4>2, <4>3 DEF Before
    <3>2. CASE p # b
      BY <1>1, <1>6, <2>2, <3>2 DEF ServedInOrder
    <3> QED
      BY <3>1, <3>2
  <2>3. \A p \in Served': Rest(total, weights, p) > 0
    BY <1>1, <1>5, <1>6 DEF ServedInOrder
  <2> QED
    BY <1>4, <2>1, <2>2, <2>3 DEF ServedInOrder, Before
<1>8. UnitsCounted'
  <2> DEFINE W == WeightSum(weights)
             f == Waiting
             g == [p \in Parties |-> IF p \in Served \cup {b} THEN 0 ELSE Rest(total, weights, p)]
             a == allocations
             c == allocations'
  <2>1. Waiting' = g
    BY <1>4, <1>6 DEF Waiting
  <2>2. /\ W \in Nat \ {0} /\ Rest(total, weights, b) < W
    BY <1>2
  <2>3. /\ \A p \in Parties: f[p] \in Int /\ g[p] \in Int /\ (p # b => g[p] = f[p])
        /\ f[b] = Rest(total, weights, b) /\ g[b] = 0 /\ Rest(total, weights, b) \in Int
    BY <1>2, <1>5 DEF Waiting
  <2>4. /\ \A p \in Parties: a[p] \in Int /\ c[p] \in Int /\ (p # b => c[p] = a[p])
        /\ c[b] = a[b] + 1
    BY <1>1, <1>4
  <2>5. /\ Cardinality(Served) + remaining = Left(total, weights)
        /\ SumFunctionOnSet(f, Parties) >= W * remaining
        /\ SumFunctionOnSet(a, Parties) + remaining = total
    BY <1>1 DEF UnitsCounted
  <2> HIDE DEF W, f, g, a, c
  <2>6. SumFunctionOnSet(g, Parties) >= W * (remaining - 1)
    <3>1. SumFunctionOnSet(g, Parties) = SumFunctionOnSet(f, Parties) - f[b] + g[b]
      BY <2>3, SumChanged, PartiesFinite
    <3>2. SumFunctionOnSet(f, Parties) \in Int
      BY <2>3, SumInt, PartiesFinite
    <3>3. W * (remaining - 1) = W * remaining - W /\ W * remaining \in Int
      BY <1>1, <2>2
    <3> QED
      BY <2>2, <2>3, <2>5, <3>1, <3>2, <3>3
  <2>7. SumFunctionOnSet(c, Parties) + (remaining - 1) = total
    <3>1. SumFunctionOnSet(c, Parties) = SumFunctionOnSet(a, Parties) - a[b] + c[b]
      BY <2>4, SumChanged, PartiesFinite
    <3>2. SumFunctionOnSet(a, Parties) \in Int /\ a[b] \in Int
      BY <2>4, SumInt, PartiesFinite
    <3> QED
      BY <1>1, <2>4, <2>5, <3>1, <3>2
  <2>8. Cardinality(Served \cup {b}) + (remaining - 1) = Left(total, weights)
    <3>1. IsFiniteSet(Served)
      BY PartiesFinite, FS_Subset DEF Served
    <3>2. Cardinality(Served \cup {b}) = Cardinality(Served) + 1 /\ Cardinality(Served) \in Nat
      BY <1>5, <3>1, FS_AddElement, FS_CardinalityType
    <3> QED
      BY <1>1, <2>5, <3>2
  <2> QED
    BY <1>4, <1>6, <2>1, <2>6, <2>7, <2>8 DEF UnitsCounted, W, c
<1>9. /\ allocations' \in [Parties -> Int] /\ remainders' \in [Parties -> Int]
      /\ remaining' \in Nat
  BY <1>1, <1>4 DEF Retired
<1> QED
  BY <1>1, <1>4, <1>7, <1>8, <1>9 DEF LoopInv

LEMMA LoopKeepsInv == LoopInv /\ [LoopNext]_loopVars => LoopInv'
<1> SUFFICES ASSUME LoopInv, [LoopNext]_loopVars PROVE LoopInv'
  OBVIOUS
<1>1. CASE Return \/ UNCHANGED loopVars
  <2>1. /\ total' = total /\ weights' = weights /\ allocations' = allocations
        /\ remainders' = remainders /\ remaining' = remaining
        /\ running' = running \/ (running' = FALSE /\ remaining = 0)
    BY <1>1 DEF Return, loopVars
  <2>2. Served' = Served
    BY <2>1 DEF Served
  <2>3. Waiting' = Waiting
    BY <2>1, <2>2 DEF Waiting
  <2>4. (ServedInOrder => ServedInOrder') /\ (UnitsCounted => UnitsCounted')
    BY <2>1, <2>2, <2>3 DEF ServedInOrder, UnitsCounted
  <2> QED
    BY <2>1, <2>4 DEF LoopInv
<1> QED
  BY <1>1, AllocateStarts, HandOutServes DEF LoopNext

LEMMA LoopStarts == LoopInit => LoopInv
  BY DEF LoopInit, LoopInv, Retired

LEMMA LoopInvariant == LoopSpec => []LoopInv
  BY LoopStarts, LoopKeepsInv, PTL DEF LoopSpec

\* At every turn of the loop each party has the floor of its quota or one unit more,
\* and more than the floor only if its quota is not whole, so nothing without a
\* weight; and no unit is lost, left over or handed out of nothing (WithinQuota).
THEOREM AllocationsWithinQuota == LoopSpec => []WithinQuota
<1>1. ASSUME LoopInv PROVE WithinQuota
  <2> SUFFICES ASSUME total > 0 PROVE WithinQuota
    BY DEF WithinQuota
  <2> DEFINE W == WeightSum(weights)
  <2>1. /\ total \in Int /\ weights \in [Parties -> Int] /\ CanAllocate(total, weights)
        /\ ServedInOrder /\ UnitsCounted /\ allocations \in [Parties -> Int]
    BY <1>1 DEF LoopInv
  <2>2. W \in Nat \ {0}
    BY <2>1, QuotaAndRest
  <2>3. ASSUME NEW p \in Parties
        PROVE  /\ allocations[p] * W >= total * weights[p] - Rest(total, weights, p)
               /\ allocations[p] * W < total * weights[p] + W
    <3> DEFINE q == Quota(total, weights, p)
               r == Rest(total, weights, p)
               x == total * weights[p]
               a == allocations[p]
    <3>1. q \in Nat /\ r \in 0..(W - 1) /\ x \in Nat /\ x = W * q + r
      BY <2>1, QuotaAndRest
    <3>2. a = q \/ (a = q + 1 /\ r > 0)
      BY <2>1, <3>1 DEF ServedInOrder
    <3> HIDE DEF q, r, x, a, W
    <3>3. (q + 1) * W = W * q + W /\ q * W = W * q /\ W * q \in Int
      BY <2>2, <3>1
    <3>4. a * W >= x - r /\ a * W < x + W
      BY <2>2, <3>1, <3>2, <3>3
    <3> QED
      BY <3>4 DEF q, r, x, a
  <2>4. SumFunction(allocations) + remaining = total
    BY <2>1 DEF UnitsCounted, SumFunction
  <2> QED
    BY <2>3, <2>4 DEF WithinQuota
<1> QED
  BY <1>1, LoopInvariant, PTL

\* What is returned is Hamilton's allocation with ties to the lower index
\* (ReturnsHamilton): the scan for the largest remainder, the sentinel and the count
\* of turns serve exactly the parties with fewer than Left before them.
THEOREM HamiltonReturned == LoopSpec => []ReturnsHamilton
<1>1. ASSUME LoopInv PROVE ReturnsHamilton
  <2> SUFFICES ASSUME ~running, total > 0, NEW p \in Parties
               PROVE  allocations[p] = HamiltonShare(total, weights, p)
    BY DEF ReturnsHamilton
  <2> DEFINE ahead == {o \in Parties: Before(total, weights, o, p)}
             left  == Left(total, weights)
  <2>1. /\ ServedInOrder /\ Cardinality(Served) = left
        /\ \A o \in Parties: Rest(total, weights, o) \in Int
    <3>1. /\ ServedInOrder /\ Cardinality(Served) + 0 = left /\ total \in Int
          /\ weights \in [Parties -> Int] /\ CanAllocate(total, weights)
      BY <1>1 DEF LoopInv, UnitsCounted
    <3>2. Cardinality(Served) \in Nat
      BY PartiesFinite, FS_Subset, FS_CardinalityType DEF Served
    <3> QED
      BY <3>1, <3>2, QuotaAndRest
  <2>2. IsFiniteSet(Served) /\ IsFiniteSet(ahead) /\ Served \subseteq Parties
    BY PartiesFinite, FS_Subset DEF Served
  <2>3. Cardinality(Served) \in Nat /\ Cardinality(ahead) \in Nat
    BY <2>2, FS_CardinalityType
  <2>4. allocations[p] = Quota(total, weights, p) + IF p \in Served THEN 1 ELSE 0
    BY <2>1 DEF ServedInOrder
  <2>5. HamiltonShare(total, weights, p)
          = Quota(total, weights, p) + IF Cardinality(ahead) < left THEN 1 ELSE 0
    BY DEF HamiltonShare
  <2>6. CASE p \in Served
    <3>1. p \notin ahead
      BY <2>1 DEF Before, Parties
    <3>2. ASSUME NEW o \in ahead PROVE o \in Served
      <4> SUFFICES ASSUME o \notin Served PROVE FALSE
        OBVIOUS
      <4>1. Before(total, weights, p, o) /\ Before(total, weights, o, p)
        BY <2>1, <2>6 DEF ServedInOrder
      <4> QED
        BY <2>1, <4>1 DEF Before, Parties
    <3>3. ahead \subseteq Served \ {p}
      BY <3>1, <3>2
    <3>4. Cardinality(Served \ {p}) = Cardinality(Served) - 1 /\ IsFiniteSet(Served \ {p})
      BY <2>2, <2>6, FS_RemoveElement
    <3>5. Cardinality(ahead) <= Cardinality(Served \ {p})
      <4> HIDE DEF ahead
      <4> QED
        BY <3>3, <3>4, FS_Subset
    <3>6. Cardinality(ahead) < left
      BY <2>1, <2>3, <3>4, <3>5
    <3> QED
      BY <2>4, <2>5, <2>6, <3>6
  <2>7. CASE p \notin Served
    <3>1. Served \subseteq ahead
      BY <2>1, <2>2, <2>7 DEF ServedInOrder
    <3>2. Cardinality(Served) <= Cardinality(ahead)
      <4> HIDE DEF ahead
      <4> QED
        BY <2>2, <3>1, FS_Subset
    <3>3. ~(Cardinality(ahead) < left)
      BY <2>1, <2>3, <3>2
    <3> QED
      BY <2>4, <2>5, <2>7, <3>3
  <2> QED
    BY <2>6, <2>7
<1> QED
  BY <1>1, LoopInvariant, PTL
================================================================================
