------------------------------- MODULE Allocation -------------------------------
(***************************************************************************)
(* The largest-remainder allocation that compute_ratio_allocation,         *)
(* emergency_pause_allocation and calculate_platform_fee_split share: the  *)
(* floor of each party's quota first, then the units that are left, one    *)
(* at a time, to the party with the largest remainder that has not had     *)
(* one yet.  The loop is modelled step by step.  Nothing is stored, so one *)
(* call per behaviour is all there is to see.                              *)
(***************************************************************************)
EXTENDS EscrowMath, FiniteSetsExt

CONSTANTS
    PartyCount,     \* length of the weight vector
    Totals,         \* amounts that are allocated
    Weights         \* weights that are tried

ASSUME AllocationAssumption ==
    /\ PartyCount \in Nat \ {0}
    /\ Totals \subseteq Int /\ Weights \subseteq Int

Parties == 0..(PartyCount - 1)

VARIABLES
    total,          \* arguments of the call
    weights,
    allocations,    \* the vectors of the two loops
    remainders,
    remaining,      \* units still to be handed out
    running         \* a call is under way

loopVars == <<total, weights, allocations, remainders, remaining, running>>

\* i128::MIN in the remainders of the parties that had their unit.
Retired == -1

WeightSum(w) == SumFunction(w)

Quota(t, w, p) == (t * w[p]) \div WeightSum(w)
Rest(t, w, p)  == (t * w[p]) % WeightSum(w)

\* Units that the floors leave.
Left(t, w) == t - SumFunction([p \in Parties |-> Quota(t, w, p)])

CanAllocate(t, w) ==
    /\ t > 0
    /\ \A p \in Parties: w[p] >= 0 /\ t * w[p] <= IntMax
    /\ WeightSum(w) \in 1..IntMax

LoopInit ==
    /\ total = 0 /\ remaining = 0 /\ running = FALSE
    /\ weights = [p \in Parties |-> 0]
    /\ allocations = [p \in Parties |-> 0]
    /\ remainders = [p \in Parties |-> Retired]

\* The first loop: floors and remainders.
Allocate(t, w) ==
    /\ ~running /\ total = 0
    /\ CanAllocate(t, w)
    /\ total' = t /\ weights' = w
    /\ allocations' = [p \in Parties |-> Quota(t, w, p)]
    /\ remainders' = [p \in Parties |-> Rest(t, w, p)]
    /\ remaining' = Left(t, w)
    /\ running' = TRUE

Largest(p) == \A o \in Parties: remainders[o] <= remainders[p]

\* Mutant of Best: a tie goes to the last party.
BestLast == CHOOSE p \in Parties: Largest(p) /\ \A o \in Parties: Largest(o) => o <= p

\* The scan takes a strictly larger remainder only: the first of the largest.
Best == CHOOSE p \in Parties: Largest(p) /\ \A o \in Parties: Largest(o) => p <= o

\* Mutant of Retire: the party stays in the running.
RetireNobody(p) == UNCHANGED remainders

Retire(p) == remainders' = [remainders EXCEPT ![p] = Retired]

\* One turn of the second loop.
HandOut ==
    /\ running /\ remaining > 0
    /\ allocations' = [allocations EXCEPT ![Best] = @ + 1]
    /\ Retire(Best)
    /\ remaining' = remaining - 1
    /\ UNCHANGED <<total, weights, running>>

Return ==
    /\ running /\ remaining = 0
    /\ running' = FALSE
    /\ UNCHANGED <<total, weights, allocations, remainders, remaining>>

LoopNext ==
    \/ \E t \in Totals, w \in [Parties -> Weights]: Allocate(t, w)
    \/ HandOut
    \/ Return

LoopSpec == LoopInit /\ [][LoopNext]_loopVars

-----------------------------------------------------------------------------
\* Party p comes before q when units are handed out.
Before(t, w, p, q) ==
    \/ Rest(t, w, p) > Rest(t, w, q)
    \/ Rest(t, w, p) = Rest(t, w, q) /\ p < q

\* Hamilton's method, without the loop: the parties that are among the first
\* get one unit more than their floor.
HamiltonShare(t, w, p) ==
    LET ahead == {o \in Parties: Before(t, w, o, p)}
    IN  Quota(t, w, p) + IF Cardinality(ahead) < Left(t, w) THEN 1 ELSE 0

\* What is returned is Hamilton's allocation, ties broken by the lower index, so
\* the same inputs give the same vector whoever computes it.
ReturnsHamilton ==
    ~running /\ total > 0 =>
        \A p \in Parties: allocations[p] = HamiltonShare(total, weights, p)

\* No party gets a second unit or, with no weight, anything at all, at any turn
\* of the loop, and no unit is left over or handed out of nothing.
WithinQuota ==
    total > 0 =>
        /\ \A p \in Parties:
              /\ allocations[p] * WeightSum(weights) >= total * weights[p] - Rest(total, weights, p)
              /\ allocations[p] * WeightSum(weights) < total * weights[p] + WeightSum(weights)
        /\ SumFunction(allocations) + remaining = total
=============================================================================
