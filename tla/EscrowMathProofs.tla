---------------------------- MODULE EscrowMathProofs ----------------------------
(***************************************************************************)
(* The divisions never create or lose a unit, and no leg is negative: for  *)
(* every amount and every ratio the code accepts.  And what the proofs     *)
(* about totals need to know of sums over a finite set.                    *)
(***************************************************************************)
EXTENDS EscrowMath, FiniteSetsExt, FiniteSetTheorems, WellFoundedInduction, TLAPS

\* A product grows with its factor: the one nonlinear fact the rest needs.
LEMMA ProductMonotone ==
    ASSUME NEW a \in Nat, NEW b \in Nat, NEW c \in Nat, b <= c
    PROVE  a * b <= a * c /\ a * b \in Nat
<1> DEFINE d == c - b
<1>1. d \in Nat /\ c = b + d
  OBVIOUS
<1>2. a * (b + d) = a * b + a * d
  BY <1>1
<1>3. a * d >= 0 /\ a * b \in Nat
  BY <1>1
<1> QED BY <1>1, <1>2, <1>3

\* Rounding a part of a whole down to a multiple of the scale stays between
\* nothing and the whole.
LEMMA QuotientBound ==
    ASSUME NEW x \in Nat, NEW t \in Nat, NEW den \in Nat \ {0},
           x <= t * den + den \div 2
    PROVE  x \div den \in 0..t
<1>1. den \div 2 \in Nat /\ den \div 2 < den
  OBVIOUS
<1>2. x < (t + 1) * den
  BY <1>1
<1> DEFINE q == x \div den
<1>3. q \in Nat /\ q * den <= x
  OBVIOUS
<1>4. q <= t
  <2> SUFFICES ASSUME q >= t + 1 PROVE FALSE
    BY <1>3
  <2>1. den * (t + 1) <= den * q
    BY <1>3, ProductMonotone
  <2> QED BY <2>1, <1>2, <1>3
<1> QED BY <1>3, <1>4

\* split_ratio_nearest, behind the streamed payouts and the time splits: the two
\* legs are not negative and add up to the amount.
THEOREM SplitNearestExact ==
    ASSUME NEW total \in Nat, NEW num \in Nat, NEW den \in Nat,
           CanSplitNearest(total, num, den)
    PROVE  LET s == SplitNearest(total, num, den)
           IN  s.first \in 0..total /\ s.second \in 0..total /\ s.first + s.second = total
<1>1. den \in Nat \ {0} /\ num <= den
  BY DEF CanSplitNearest
<1>2. total * num <= total * den /\ total * num \in Nat
  BY <1>1, ProductMonotone
<1>3. den \div 2 \in Nat /\ total * den \in Nat
  BY <1>1
<1> DEFINE x == total * num + den \div 2
<1>4. x \in Nat /\ x <= total * den + den \div 2
  BY <1>2, <1>3
<1>5. x \div den \in 0..total
  <2> HIDE DEF x
  <2> QED BY <1>1, <1>4, QuotientBound
<1> QED BY <1>5 DEF SplitNearest

\* allocate_refund_by_bps, behind the arbiter's split: the same for the leg that
\* is rounded down.
THEOREM SplitFloorExact ==
    ASSUME NEW amount \in Nat, NEW bps \in Nat, CanSplitFloor(amount, bps)
    PROVE  LET s == SplitFloor(amount, bps)
           IN  s.first \in 0..amount /\ s.second \in 0..amount /\ s.first + s.second = amount
<1>1. bps <= 10000
  BY DEF CanSplitFloor, BpsScale
<1>2. amount * bps <= amount * 10000 /\ amount * bps \in Nat
  BY <1>1, ProductMonotone
<1>3. (amount * bps) \div 10000 \in 0..amount
  BY <1>2
<1> QED BY <1>3 DEF SplitFloor, BpsScale

\* arbiter_fee_for: the fee never exceeds the disputed remainder, nor what is
\* available.
THEOREM ArbiterFeeBounded ==
    ASSUME NEW remaining \in Nat, NEW available \in Nat, NEW bps \in 0..BpsScale
    PROVE  ArbiterFee(remaining, available, bps) \in 0..remaining
           /\ ArbiterFee(remaining, available, bps) <= available
<1>1. bps \in Nat /\ bps <= 10000
  BY DEF BpsScale
<1>2. remaining * bps <= remaining * 10000 /\ remaining * bps \in Nat
  BY <1>1, ProductMonotone
<1>3. (remaining * bps) \div 10000 \in 0..remaining
  BY <1>2
<1> QED BY <1>3 DEF ArbiterFee, BpsScale

\* Whole multiples of the scale pass through the division.
LEMMA MultipleApart ==
    ASSUME NEW p \in Nat, NEW y \in Nat
    PROVE  (10000 * p + y) \div 10000 = p + y \div 10000
OBVIOUS

\* emergency_split_exact answers what the direct half-up split answers.
THEOREM ExactIsNearest ==
    ASSUME NEW total \in Nat, NEW bps \in Nat
    PROVE  EmergencySplitExact(total, bps) = SplitNearest(total, bps, BpsScale)
<1> DEFINE q == total \div 10000
           r == total % 10000
<1>1. q \in Nat /\ r \in Nat /\ total = 10000 * q + r
  OBVIOUS
<1> HIDE DEF q, r
<1>2. q * bps \in Nat /\ r * bps \in Nat
  BY <1>1
<1>3. total * bps = 10000 * (q * bps) + r * bps
  <2>1. (10000 * q + r) * bps = 10000 * (q * bps) + r * bps
    BY <1>1
  <2> QED BY <2>1, <1>1
<1>4. (total * bps + 5000) \div 10000 = q * bps + (r * bps + 5000) \div 10000
  <2> DEFINE p == q * bps
             y == r * bps + 5000
  <2>1. p \in Nat /\ y \in Nat /\ total * bps + 5000 = 10000 * p + y
    BY <1>2, <1>3
  <2>2. (10000 * p + y) \div 10000 = p + y \div 10000
    <3> HIDE DEF p, y
    <3> QED BY <2>1, MultipleApart
  <2> QED BY <2>1, <2>2
<1> QED BY <1>4 DEF EmergencySplitExact, SplitNearest, BpsScale, q, r

\* allocate_withholding_refund: rounding gross and tax apart leaves nobody with a
\* negative share, and the two shares are the net amount.
THEOREM WithheldPayable ==
    ASSUME NEW gross \in Nat, NEW tax \in Nat, NEW bps \in Nat,
           CanSplitWithheld(gross, tax, bps)
    PROVE  LET s == SplitWithheld(gross, tax, bps)
           IN  s.client >= 0 /\ s.freelancer >= 0 /\ s.client + s.freelancer = gross - tax
<1>1. bps <= 10000 /\ tax <= gross
  BY DEF CanSplitWithheld, BpsScale
<1> DEFINE d == gross - tax
<1>2. d \in Nat /\ gross = tax + d
  BY <1>1
<1> HIDE DEF d
<1>3. d * bps <= d * 10000 /\ d * bps \in Nat /\ tax * bps \in Nat
  BY <1>1, <1>2, ProductMonotone
<1>4. gross * bps = tax * bps + d * bps
  <2>1. (tax + d) * bps = tax * bps + d * bps
    BY <1>2
  <2> QED BY <2>1, <1>2
<1> DEFINE ng == (gross * bps + 5000) \div 10000
           nt == (tax * bps + 5000) \div 10000
<1>5. ng \in Int /\ nt \in Int /\ nt <= ng /\ ng <= nt + d
  <2> DEFINE x == tax * bps
             y == d * bps
  <2>1. x \in Nat /\ y \in Nat /\ y <= d * 10000 /\ gross * bps = x + y
    BY <1>3, <1>4
  <2>2. /\ (x + y + 5000) \div 10000 \in Int /\ (x + 5000) \div 10000 \in Int
        /\ (x + 5000) \div 10000 <= (x + y + 5000) \div 10000
        /\ (x + y + 5000) \div 10000 <= (x + 5000) \div 10000 + d
    <3> HIDE DEF x, y
    <3> QED BY <2>1, <1>2
  <2> QED BY <2>1, <2>2
<1> HIDE DEF ng, nt
<1>6. /\ SplitNearest(gross, bps, BpsScale) = [first |-> ng, second |-> gross - ng]
      /\ SplitNearest(tax, bps, BpsScale) = [first |-> nt, second |-> tax - nt]
  BY DEF SplitNearest, BpsScale, ng, nt
<1>7. SplitWithheld(gross, tax, bps)
        = [client |-> ng - nt, freelancer |-> (gross - ng) - (tax - nt)]
  BY <1>6 DEF SplitWithheld
<1> QED BY <1>2, <1>5, <1>7

\* split_refund_net_distribution: ratios that validate_fee_allocation passes leave
\* the freelancer something or nothing, never a debt, and nobody else either.
THEOREM NetPayable ==
    ASSUME NEW total \in Nat, NEW bps \in Nat,
           NEW fees \in [client: Nat, freelancer: Nat, treasury: Nat],
           CanDistribute(total, bps, fees), FeesAllowed(fees)
    PROVE  LET n == NetDistribution(total, bps, fees)
           IN  /\ n.refund >= 0 /\ n.clientFee >= 0 /\ n.treasuryFee >= 0 /\ n.freelancer >= 0
               /\ n.refund + n.clientFee + n.treasuryFee + n.freelancer = total
<1> DEFINE split == SplitNearest(total, bps, BpsScale)
           p == split.second
           x == p * fees.client
           y == p * fees.treasury
<1>1. split.first \in 0..total /\ p \in 0..total /\ split.first + p = total
  <2>1. BpsScale \in Nat /\ CanSplitNearest(total, bps, BpsScale)
    BY DEF CanDistribute, BpsScale
  <2> QED BY <2>1, SplitNearestExact
<1> HIDE DEF split
<1>2. fees.client \in Nat /\ fees.treasury \in Nat /\ fees.client <= 5000 /\ fees.treasury <= 2000
  BY DEF FeesAllowed, MaxClientFeeBps, MaxTreasuryFeeBps
<1>3. x \in Nat /\ x <= 5000 * p
  <2>1. p * fees.client <= p * 5000 /\ p * fees.client \in Nat
    BY <1>1, <1>2, ProductMonotone
  <2> QED BY <1>1, <2>1
<1>4. y \in Nat /\ y <= 2000 * p
  <2>1. p * fees.treasury <= p * 2000 /\ p * fees.treasury \in Nat
    BY <1>1, <1>2, ProductMonotone
  <2> QED BY <1>1, <2>1
<1> DEFINE c == (x + 5000) \div 10000
           t == (y + 5000) \div 10000
<1>5. c \in Nat /\ t \in Nat /\ c + t <= p
  <2> HIDE DEF x, y, p
  <2> QED BY <1>1, <1>3, <1>4
<1>6. NetDistribution(total, bps, fees) = Distribution(split.first, c, t, p - c - t)
  BY DEF NetDistribution, SplitNearest, BpsScale, split
<1> HIDE DEF c, t, p
<1> QED BY <1>1, <1>5, <1>6 DEF Distribution
-----------------------------------------------------------------------------
(***************************************************************************)
(* Sums.  SumFunctionOnSet is a fold that picks its elements one by one;   *)
(* every fact below is proved by induction over the finite subsets, from   *)
(* the well-founded order they have by inclusion.                          *)
(***************************************************************************)
\* Induction over the finite subsets of S, with the induction hypothesis for every smaller
\* one: G is the set of the subsets that are as wanted.
LEMMA SetInduction ==
    ASSUME NEW S, IsFiniteSet(S), NEW G,
           \A T \in SUBSET S: (\A U \in SUBSET T: U # T => U \in G) => T \in G
    PROVE  \A T \in SUBSET S: T \in G
<1> DEFINE bad == {T \in SUBSET S: T \notin G}
<1>1. IsWellFoundedOn(StrictSubsetOrdering(S), SUBSET S)
  BY FS_StrictSubsetOrderingWellFounded, FS_FiniteSubsetsOfFinite
<1>2. SUFFICES ASSUME bad # {} PROVE FALSE
  OBVIOUS
<1>3. PICK T \in bad: \A U \in bad: <<U, T>> \notin StrictSubsetOrdering(S)
  <2>1. bad \subseteq SUBSET S
    OBVIOUS
  <2> HIDE DEF bad
  <2> QED
    BY <1>1, <1>2, <2>1, WFMin
<1>4. ASSUME NEW U \in SUBSET T, U # T PROVE U \in G
  <2>1. <<U, T>> \in StrictSubsetOrdering(S)
    BY <1>4 DEF StrictSubsetOrdering
  <2> QED
    BY <1>3, <2>1
<1> QED
  BY <1>3, <1>4

-----------------------------------------------------------------------------
\* The element the fold takes next.
Picked(s) == CHOOSE x \in s: TRUE

IsPartialSums(h, f, S) ==
    h = [s \in SUBSET S |-> IF s = {} THEN 0 ELSE f[Picked(s)] + h[s \ {Picked(s)}]]

PartialSums(f, S) == CHOOSE h: IsPartialSums(h, f, S)

LEMMA PickedIn == ASSUME NEW s, s # {} PROVE Picked(s) \in s
  BY DEF Picked

\* The fold of the community module is the last of its partial sums, which are
\* defined by recursion on the set.
LEMMA SumIsPartialSum ==
    ASSUME NEW f, NEW S PROVE SumFunctionOnSet(f, S) = PartialSums(f, S)[S]
  BY Zenon DEF SumFunctionOnSet, FoldFunctionOnSet, MapThenFoldSet, PartialSums, IsPartialSums, Picked

\* What the recursion says of one subset.
LEMMA PartialSumsAt ==
    ASSUME NEW f, NEW S, NEW h, IsPartialSums(h, f, S), NEW s \in SUBSET S
    PROVE  h[s] = IF s = {} THEN 0 ELSE f[Picked(s)] + h[s \ {Picked(s)}]
  BY Zenon DEF IsPartialSums

\* The partial sums of a set are those of a larger one.
LEMMA PartialSumsUnique ==
    ASSUME NEW f, NEW S, NEW T, IsFiniteSet(S), S \subseteq T,
           NEW h, IsPartialSums(h, f, S), NEW g, IsPartialSums(g, f, T)
    PROVE  \A s \in SUBSET S: h[s] = g[s]
<1> DEFINE G == {s \in SUBSET S: h[s] = g[s]}
<1>1. ASSUME NEW s \in SUBSET S, \A u \in SUBSET s: u # s => u \in G
      PROVE  s \in G
  <2>1. CASE s = {}
    BY <2>1, PartialSumsAt
  <2>2. CASE s # {}
    <3>1. s \ {Picked(s)} \in G
      BY <1>1, <2>2, PickedIn
    <3> QED
      BY <2>2, <3>1, PartialSumsAt
  <2> QED
    BY <2>1, <2>2
<1>2. \A s \in SUBSET S: s \in G
  <2> HIDE DEF G
  <2> QED
    BY <1>1, SetInduction
<1> QED
  BY <1>2

\* The recursion has a solution: that of a set is put together from those of its
\* subsets.
LEMMA PartialSumsExist ==
    ASSUME NEW f, NEW S, IsFiniteSet(S) PROVE IsPartialSums(PartialSums(f, S), f, S)
<1> DEFINE G == {T \in SUBSET S: \E h: IsPartialSums(h, f, T)}
<1>1. ASSUME NEW T \in SUBSET S, \A U \in SUBSET T: U # T => U \in G
      PROVE  T \in G
  <2> DEFINE P(U) == PartialSums(f, U)
             h == [s \in SUBSET T |-> IF s = {} THEN 0 ELSE
                      IF s = T THEN f[Picked(s)] + P(s \ {Picked(s)})[s \ {Picked(s)}]
                      ELSE P(s)[s]]
  <2>1. ASSUME NEW U \in SUBSET T, U # T PROVE IsPartialSums(P(U), f, U)
    BY <1>1, <2>1, Zenon DEF PartialSums
  <2>2. ASSUME NEW s \in SUBSET T
        PROVE  h[s] = IF s = {} THEN 0 ELSE f[Picked(s)] + h[s \ {Picked(s)}]
    <3>1. CASE s = {}
      BY <3>1
    <3>2. CASE s # {}
      <4> DEFINE u == s \ {Picked(s)}
      <4>0. Picked(s) \in s
        BY <3>2, PickedIn
      <4>1. u \in SUBSET T /\ u # T /\ u \subseteq s /\ u # s /\ IsFiniteSet(u)
        <5>1. u \subseteq S /\ u \in SUBSET T /\ u # T /\ u \subseteq s /\ u # s
          BY <4>0
        <5> HIDE DEF u
        <5> QED
          BY <5>1, FS_Subset
      <4>2. h[u] = P(u)[u]
        <5>1. CASE u = {}
          <6>1. IsPartialSums(P(u), f, u) /\ u \in SUBSET u
            BY <4>1, <2>1
          <6>2. P(u)[u] = 0
            <7> HIDE DEF P, u
            <7> QED BY <6>1, <5>1, PartialSumsAt
          <6> QED
            BY <4>1, <5>1, <6>2
        <5>2. CASE u # {}
          BY <4>1, <5>2
        <5> QED
          BY <5>1, <5>2
      <4>3. h[s] = f[Picked(s)] + P(u)[u]
        <5>1. CASE s = T
          BY <3>2, <5>1
        <5>2. CASE s # T
          <6>1. IsPartialSums(P(s), f, s) /\ IsPartialSums(P(u), f, u)
            BY <2>1, <4>1, <5>2
          <6>2. P(s)[s] = f[Picked(s)] + P(s)[u]
            <7> HIDE DEF P
            <7> QED BY <3>2, <6>1, PartialSumsAt
          <6>3. P(u)[u] = P(s)[u]
            <7>1. u \in SUBSET u
              OBVIOUS
            <7> HIDE DEF P, u
            <7> QED BY <6>1, <4>1, <7>1, PartialSumsUnique
          <6>4. h[s] = P(s)[s]
            BY <3>2, <5>2
          <6> QED
            BY <6>2, <6>3, <6>4
        <5> QED
          BY <5>1, <5>2
      <4> HIDE DEF h, P
      <4> QED
        BY <3>2, <4>2, <4>3
    <3> QED
      BY <3>1, <3>2
  <2>3. IsPartialSums(h, f, T)
    <3>1. h = [s \in SUBSET T |-> h[s]]
      OBVIOUS
    <3> HIDE DEF h
    <3>2. [s \in SUBSET T |-> h[s]]
            = [s \in SUBSET T |-> IF s = {} THEN 0 ELSE f[Picked(s)] + h[s \ {Picked(s)}]]
      BY <2>2
    <3> QED
      BY <3>1, <3>2, Zenon DEF IsPartialSums
  <2> QED
    BY <2>3
<1>2. \A T \in SUBSET S: T \in G
  <2> HIDE DEF G
  <2> QED
    BY <1>1, SetInduction
<1>3. \E h: IsPartialSums(h, f, S)
  BY <1>2
<1> QED
  BY <1>3, Zenon DEF PartialSums

\* The sum over no element.
LEMMA SumOfNothing == ASSUME NEW f PROVE SumFunctionOnSet(f, {}) = 0
  BY Zenon DEF SumFunctionOnSet, FoldFunctionOnSet, MapThenFoldSet

\* The sum takes the chosen element first.
LEMMA SumUnfolds ==
    ASSUME NEW f, NEW S, IsFiniteSet(S), S # {}
    PROVE  SumFunctionOnSet(f, S)
             = f[Picked(S)] + SumFunctionOnSet(f, S \ {Picked(S)})
<1> DEFINE u == S \ {Picked(S)}
<1>1. u \subseteq S /\ IsFiniteSet(u) /\ u \in SUBSET u
  BY FS_Subset
<1> HIDE DEF u
<1>2. IsPartialSums(PartialSums(f, S), f, S) /\ IsPartialSums(PartialSums(f, u), f, u)
  BY <1>1, PartialSumsExist
<1>3. PartialSums(f, u)[u] = PartialSums(f, S)[u]
  BY <1>1, <1>2, PartialSumsUnique
<1>4. PartialSums(f, S)[S] = f[Picked(S)] + PartialSums(f, S)[u]
  BY <1>2, PartialSumsAt DEF u
<1> QED
  BY <1>3, <1>4, SumIsPartialSum DEF u

-----------------------------------------------------------------------------
\* A sum of integers is one.
LEMMA SumInt ==
    ASSUME NEW S, IsFiniteSet(S), NEW f, \A x \in S: f[x] \in Int
    PROVE  SumFunctionOnSet(f, S) \in Int
<1> DEFINE G == {T \in SUBSET S: SumFunctionOnSet(f, T) \in Int}
<1>1. ASSUME NEW T \in SUBSET S, \A U \in SUBSET T: U # T => U \in G
      PROVE  T \in G
  <2>1. CASE T = {}
    BY <2>1, SumOfNothing
  <2>2. CASE T # {}
    <3>1. Picked(T) \in T /\ IsFiniteSet(T)
      BY <2>2, PickedIn, FS_Subset
    <3>2. SumFunctionOnSet(f, T \ {Picked(T)}) \in Int
      BY <1>1, <3>1
    <3> QED
      BY <2>2, <3>1, <3>2, SumUnfolds
  <2> QED
    BY <2>1, <2>2
<1>2. \A T \in SUBSET S: T \in G
  <2> HIDE DEF G
  <2> QED
    BY <1>1, SetInduction
<1> QED
  BY <1>2

\* Any element may be taken first.
LEMMA SumRemove ==
    ASSUME NEW S, IsFiniteSet(S), NEW f, \A x \in S: f[x] \in Int, NEW y \in S
    PROVE  SumFunctionOnSet(f, S) = f[y] + SumFunctionOnSet(f, S \ {y})
<1> DEFINE G == {T \in SUBSET S: \A x \in T:
                    SumFunctionOnSet(f, T) = f[x] + SumFunctionOnSet(f, T \ {x})}
<1>1. ASSUME NEW T \in SUBSET S, \A U \in SUBSET T: U # T => U \in G
      PROVE  T \in G
  <2> SUFFICES ASSUME NEW x \in T
               PROVE  SumFunctionOnSet(f, T) = f[x] + SumFunctionOnSet(f, T \ {x})
    OBVIOUS
  <2> DEFINE p == Picked(T)
             rest == T \ {p}
             others == T \ {x}
             both == rest \ {x}
  <2>1. /\ p \in T /\ IsFiniteSet(T)
        /\ SumFunctionOnSet(f, T) = f[p] + SumFunctionOnSet(f, rest)
    BY PickedIn, FS_Subset, SumUnfolds
  <2>2. CASE x = p
    BY <2>1, <2>2
  <2>3. CASE x # p
    <3>1. x \in rest /\ rest \in SUBSET T /\ rest # T
          /\ p \in others /\ others \in SUBSET T /\ others # T /\ both = others \ {p}
      BY <2>1, <2>3
    <3>2. SumFunctionOnSet(f, rest) = f[x] + SumFunctionOnSet(f, both)
      BY <1>1, <3>1
    <3>3. SumFunctionOnSet(f, others) = f[p] + SumFunctionOnSet(f, both)
      BY <1>1, <3>1
    <3>4. SumFunctionOnSet(f, both) \in Int
      <4>1. both \subseteq S /\ IsFiniteSet(both)
        BY <2>1, FS_Subset
      <4> HIDE DEF both
      <4> QED
        BY <4>1, SumInt
    <3>5. f[x] \in Int /\ f[p] \in Int
      BY <2>1
    <3> HIDE DEF p, rest, others, both
    <3> QED
      BY <2>1, <3>2, <3>3, <3>4, <3>5 DEF others
  <2> QED
    BY <2>2, <2>3
<1>2. \A T \in SUBSET S: T \in G
  <2> HIDE DEF G
  <2> QED
    BY <1>1, SetInduction
<1> QED
  BY <1>2

\* Sums add up element by element.
LEMMA SumsAdd ==
    ASSUME NEW S, IsFiniteSet(S), NEW f, NEW g, NEW h,
           \A x \in S: f[x] \in Int /\ g[x] \in Int /\ h[x] = f[x] + g[x]
    PROVE  SumFunctionOnSet(h, S) = SumFunctionOnSet(f, S) + SumFunctionOnSet(g, S)
<1> DEFINE G == {T \in SUBSET S:
                   SumFunctionOnSet(h, T) = SumFunctionOnSet(f, T) + SumFunctionOnSet(g, T)}
<1>1. ASSUME NEW T \in SUBSET S, \A U \in SUBSET T: U # T => U \in G
      PROVE  T \in G
  <2>1. CASE T = {}
    BY <2>1, SumOfNothing
  <2>2. CASE T # {}
    <3> DEFINE p == Picked(T)
               rest == T \ {p}
    <3>1. p \in T /\ IsFiniteSet(T) /\ rest \in SUBSET T /\ rest # T
      BY <2>2, PickedIn, FS_Subset
    <3>2. SumFunctionOnSet(h, rest) = SumFunctionOnSet(f, rest) + SumFunctionOnSet(g, rest)
      BY <1>1, <3>1
    <3>3. SumFunctionOnSet(f, rest) \in Int /\ SumFunctionOnSet(g, rest) \in Int
      <4>1. rest \subseteq S /\ IsFiniteSet(rest)
        BY <3>1, FS_Subset
      <4> HIDE DEF rest
      <4> QED
        BY <4>1, SumInt
    <3>4. /\ SumFunctionOnSet(f, T) = f[p] + SumFunctionOnSet(f, rest)
          /\ SumFunctionOnSet(g, T) = g[p] + SumFunctionOnSet(g, rest)
          /\ SumFunctionOnSet(h, T) = h[p] + SumFunctionOnSet(h, rest)
      BY <2>2, <3>1, SumUnfolds
    <3>5. f[p] \in Int /\ g[p] \in Int /\ h[p] = f[p] + g[p]
      BY <3>1
    <3> HIDE DEF p, rest
    <3> QED
      BY <3>2, <3>3, <3>4, <3>5
  <2> QED
    BY <2>1, <2>2
<1>2. \A T \in SUBSET S: T \in G
  <2> HIDE DEF G
  <2> QED
    BY <1>1, SetInduction
<1> QED
  BY <1>2

\* A common factor of the terms is one of the sum.
LEMMA SumScaled ==
    ASSUME NEW S, IsFiniteSet(S), NEW k \in Int, NEW f, NEW h,
           \A x \in S: f[x] \in Int /\ h[x] = k * f[x]
    PROVE  SumFunctionOnSet(h, S) = k * SumFunctionOnSet(f, S)
<1> DEFINE G == {T \in SUBSET S: SumFunctionOnSet(h, T) = k * SumFunctionOnSet(f, T)}
<1>1. ASSUME NEW T \in SUBSET S, \A U \in SUBSET T: U # T => U \in G
      PROVE  T \in G
  <2>1. CASE T = {}
    BY <2>1, SumOfNothing
  <2>2. CASE T # {}
    <3> DEFINE p == Picked(T)
               rest == T \ {p}
    <3>1. p \in T /\ IsFiniteSet(T) /\ rest \in SUBSET T /\ rest # T
      BY <2>2, PickedIn, FS_Subset
    <3>2. SumFunctionOnSet(h, rest) = k * SumFunctionOnSet(f, rest)
      BY <1>1, <3>1
    <3>3. SumFunctionOnSet(f, rest) \in Int
      <4>1. rest \subseteq S /\ IsFiniteSet(rest)
        BY <3>1, FS_Subset
      <4> HIDE DEF rest
      <4> QED
        BY <4>1, SumInt
    <3>4. /\ SumFunctionOnSet(f, T) = f[p] + SumFunctionOnSet(f, rest)
          /\ SumFunctionOnSet(h, T) = h[p] + SumFunctionOnSet(h, rest)
      BY <2>2, <3>1, SumUnfolds
    <3>5. f[p] \in Int /\ h[p] = k * f[p]
      BY <3>1
    <3> HIDE DEF p, rest
    <3> QED
      BY <3>2, <3>3, <3>4, <3>5
  <2> QED
    BY <2>1, <2>2
<1>2. \A T \in SUBSET S: T \in G
  <2> HIDE DEF G
  <2> QED
    BY <1>1, SetInduction
<1> QED
  BY <1>2

\* The sum grows with its terms.
LEMMA SumMonotone ==
    ASSUME NEW S, IsFiniteSet(S), NEW f, NEW g,
           \A x \in S: f[x] \in Int /\ g[x] \in Int /\ f[x] <= g[x]
    PROVE  SumFunctionOnSet(f, S) <= SumFunctionOnSet(g, S)
<1> DEFINE G == {T \in SUBSET S: SumFunctionOnSet(f, T) <= SumFunctionOnSet(g, T)}
<1>1. ASSUME NEW T \in SUBSET S, \A U \in SUBSET T: U # T => U \in G
      PROVE  T \in G
  <2>1. CASE T = {}
    BY <2>1, SumOfNothing
  <2>2. CASE T # {}
    <3> DEFINE p == Picked(T)
               rest == T \ {p}
    <3>1. p \in T /\ IsFiniteSet(T) /\ rest \in SUBSET T /\ rest # T
      BY <2>2, PickedIn, FS_Subset
    <3>2. SumFunctionOnSet(f, rest) <= SumFunctionOnSet(g, rest)
      BY <1>1, <3>1
    <3>3. SumFunctionOnSet(f, rest) \in Int /\ SumFunctionOnSet(g, rest) \in Int
      <4>1. rest \subseteq S /\ IsFiniteSet(rest)
        BY <3>1, FS_Subset
      <4> HIDE DEF rest
      <4> QED
        BY <4>1, SumInt
    <3>4. /\ SumFunctionOnSet(f, T) = f[p] + SumFunctionOnSet(f, rest)
          /\ SumFunctionOnSet(g, T) = g[p] + SumFunctionOnSet(g, rest)
      BY <2>2, <3>1, SumUnfolds
    <3>5. f[p] \in Int /\ g[p] \in Int /\ f[p] <= g[p]
      BY <3>1
    <3> HIDE DEF p, rest
    <3> QED
      BY <3>2, <3>3, <3>4, <3>5
  <2> QED
    BY <2>1, <2>2
<1>2. \A T \in SUBSET S: T \in G
  <2> HIDE DEF G
  <2> QED
    BY <1>1, SetInduction
<1> QED
  BY <1>2

\* The sum depends on the terms over the set only.
LEMMA SumSame ==
    ASSUME NEW S, IsFiniteSet(S), NEW f, NEW g,
           \A x \in S: f[x] \in Int /\ f[x] = g[x]
    PROVE  SumFunctionOnSet(f, S) = SumFunctionOnSet(g, S)
<1>1. /\ SumFunctionOnSet(f, S) <= SumFunctionOnSet(g, S)
      /\ SumFunctionOnSet(g, S) <= SumFunctionOnSet(f, S)
  BY SumMonotone
<1>2. SumFunctionOnSet(f, S) \in Int /\ SumFunctionOnSet(g, S) \in Int
  BY SumInt
<1> QED
  BY <1>1, <1>2

\* A sum of naturals is one.
LEMMA SumNat ==
    ASSUME NEW S, IsFiniteSet(S), NEW f, \A x \in S: f[x] \in Nat
    PROVE  SumFunctionOnSet(f, S) \in Nat
<1> DEFINE z == [x \in S |-> 0]
<1>1. SumFunctionOnSet(z, S) <= SumFunctionOnSet(f, S)
  BY SumMonotone
<1>2. SumFunctionOnSet(f, S) \in Int /\ SumFunctionOnSet(z, S) \in Int
  BY SumInt
<1>3. SumFunctionOnSet(z, S) = SumFunctionOnSet(z, S) + SumFunctionOnSet(z, S)
  BY SumsAdd
<1> HIDE DEF z
<1> QED
  BY <1>1, <1>2, <1>3

\* Only one term changes.
LEMMA SumChanged ==
    ASSUME NEW S, IsFiniteSet(S), NEW y \in S, NEW f, NEW g,
           \A x \in S: f[x] \in Int /\ g[x] \in Int /\ (x # y => g[x] = f[x])
    PROVE  SumFunctionOnSet(g, S) = SumFunctionOnSet(f, S) - f[y] + g[y]
<1> DEFINE rest == S \ {y}
<1>1. rest \subseteq S /\ IsFiniteSet(rest) /\ \A x \in rest: g[x] = f[x]
  BY FS_Subset
<1>2. /\ SumFunctionOnSet(f, S) = f[y] + SumFunctionOnSet(f, rest)
      /\ SumFunctionOnSet(g, S) = g[y] + SumFunctionOnSet(g, rest)
  BY SumRemove
<1> HIDE DEF rest
<1>3. SumFunctionOnSet(f, rest) = SumFunctionOnSet(g, rest)
      /\ SumFunctionOnSet(f, rest) \in Int
  BY <1>1, SumSame, SumInt
<1> QED
  BY <1>2, <1>3

\* Terms of zero may be left out.
LEMMA SumWithin ==
    ASSUME NEW S, IsFiniteSet(S), NEW T \in SUBSET S, NEW f, NEW g,
           \A x \in T: f[x] \in Int /\ f[x] = g[x],
           \A x \in S \ T: g[x] = 0
    PROVE  SumFunctionOnSet(f, T) = SumFunctionOnSet(g, S)
<1> DEFINE G == {U \in SUBSET S: SumFunctionOnSet(g, U) = SumFunctionOnSet(g, U \cap T)}
<1>0. \A x \in S: g[x] \in Int
  OBVIOUS
<1>1. ASSUME NEW V \in SUBSET S, \A U \in SUBSET V: U # V => U \in G
      PROVE  V \in G
  <2>1. CASE V = {}
    <3>1. V = V \cap T
      BY <2>1
    <3> QED
      BY <3>1
  <2>2. CASE V # {}
    <3> DEFINE p == Picked(V)
               rest == V \ {p}
    <3>1. p \in V /\ IsFiniteSet(V) /\ rest \in SUBSET V /\ rest # V
      BY <2>2, PickedIn, FS_Subset
    <3>2. SumFunctionOnSet(g, rest) = SumFunctionOnSet(g, rest \cap T)
      BY <1>1, <3>1
    <3>3. SumFunctionOnSet(g, V) = g[p] + SumFunctionOnSet(g, rest)
      BY <2>2, <3>1, SumUnfolds
    <3>4. SumFunctionOnSet(g, rest) \in Int
      <4>1. rest \subseteq S /\ IsFiniteSet(rest)
        BY <3>1, FS_Subset
      <4> HIDE DEF rest
      <4> QED
        BY <4>1, <1>0, SumInt
    <3>5. CASE p \in T
      <4> DEFINE W == V \cap T
      <4>1. p \in W /\ IsFiniteSet(W) /\ W \subseteq S /\ W \ {p} = rest \cap T
        BY <3>1, <3>5, FS_Subset
      <4> HIDE DEF W
      <4>2. SumFunctionOnSet(g, W) = g[p] + SumFunctionOnSet(g, W \ {p})
        BY <4>1, <1>0, SumRemove
      <4> QED
        BY <3>2, <3>3, <4>1, <4>2 DEF W
    <3>6. CASE p \notin T
      <4>1. rest \cap T = V \cap T /\ g[p] = 0
        BY <3>1, <3>6
      <4> HIDE DEF rest, G
      <4>2. SumFunctionOnSet(g, V) = SumFunctionOnSet(g, rest)
        BY <3>3, <3>4, <4>1
      <4>3. SumFunctionOnSet(g, V) = SumFunctionOnSet(g, V \cap T)
        BY <3>2, <4>1, <4>2
      <4> QED
        BY <4>3 DEF G
    <3> QED
      BY <3>5, <3>6
  <2> QED
    BY <2>1, <2>2
<1>2. \A U \in SUBSET S: U \in G
  <2> HIDE DEF G
  <2> QED
    BY <1>1, SetInduction
<1>3. SumFunctionOnSet(g, S) = SumFunctionOnSet(g, S \cap T) /\ S \cap T = T
  BY <1>2
<1>4. SumFunctionOnSet(f, T) = SumFunctionOnSet(g, T)
  <2>1. IsFiniteSet(T)
    BY FS_Subset
  <2> QED
    BY <2>1, SumSame
<1> QED
  BY <1>3, <1>4
=============================================================================
