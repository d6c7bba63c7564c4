------------------------------ MODULE MilestonePot ------------------------------
(***************************************************************************)
(* What an escrow promises about each milestone, whoever may call what: a  *)
(* milestone is a pot of fixed size that is filled once, drained once and  *)
(* never refilled.  It may shrink as long as nothing left it; nothing      *)
(* leaves it before it is funded; and it is closed exactly when all of it  *)
(* has been paid.                                                          *)
(***************************************************************************)
EXTENDS Integers

CONSTANT Pots

VARIABLE pot

Pot == [amount: Nat, paid: Nat, stage: {"none", "unfunded", "funded", "closed"}]

NoPot         == [amount |-> 0, paid |-> 0, stage |-> "none"]
FreshPot(a,s) == [amount |-> a, paid |-> 0, stage |-> s]

Create(p, q)  == p = NoPot /\ q.amount > 0 /\ q = FreshPot(q.amount, "funded")
FundPot(p, q) == p.stage = "unfunded" /\ q = [p EXCEPT !.stage = "funded"]
Shrink(p, q)  == /\ p.stage = "funded" /\ p.paid = 0
                 /\ 0 < q.amount /\ q.amount < p.amount
                 /\ q = [p EXCEPT !.amount = q.amount]
Pay(p, q)     == /\ p.stage = "funded"
                 /\ p.paid < q.paid /\ q.paid < p.amount
                 /\ q = [p EXCEPT !.paid = q.paid]
Drain(p, q)   == p.stage = "funded" /\ q = [p EXCEPT !.paid = p.amount, !.stage = "closed"]

PotStep(p, q) == q = p \/ Create(p, q) \/ FundPot(p, q) \/ Shrink(p, q) \/ Pay(p, q) \/ Drain(p, q)

Init == /\ pot \in [Pots -> Pot]
        /\ \A i \in Pots: pot[i] # NoPot =>
              pot[i].amount > 0 /\ pot[i] = FreshPot(pot[i].amount, "unfunded")

\* One call may settle several milestones.
Next == /\ pot' \in [Pots -> Pot]
        /\ \A i \in Pots: PotStep(pot[i], pot'[i])

Spec == Init /\ [][Next]_pot
=============================================================================
