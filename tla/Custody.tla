-------------------------------- MODULE Custody --------------------------------
(***************************************************************************)
(* What an escrow promises about its token balance as a whole.  Every      *)
(* token it holds is held for one funded milestone, owed to one address,   *)
(* or surplus that came in outside the workflow.  A settlement takes what  *)
(* it pays from the milestones it settles and from nowhere else, and what  *)
(* it cannot pay becomes owed; surplus only leaves as surplus.             *)
(***************************************************************************)
EXTENDS Integers, FiniteSetsExt

CONSTANTS Pots, Account

VARIABLES held, owed, surplus

custodyVars == <<held, owed, surplus>>

Grown(before, after, S) == SumFunction([x \in S |-> after[x] - before[x]])

Init == /\ held = [i \in Pots |-> 0]
        /\ owed = [a \in Account |-> 0]
        /\ surplus = 0

Deposit == /\ held' \in [Pots -> Nat]
           /\ \A i \in Pots: held[i] <= held'[i]
           /\ UNCHANGED <<owed, surplus>>

Settle == /\ held' \in [Pots -> Nat] /\ owed' \in [Account -> Nat]
          /\ \A i \in Pots: held'[i] <= held[i]
          /\ \A a \in Account: owed[a] <= owed'[a]
          /\ Grown(owed, owed', Account) <= Grown(held', held, Pots)
          /\ UNCHANGED surplus

Collect(a) == /\ owed' = [owed EXCEPT ![a] = 0]
              /\ UNCHANGED <<held, surplus>>

Gift  == surplus' \in Nat /\ surplus < surplus' /\ UNCHANGED <<held, owed>>
Sweep == surplus' \in Nat /\ surplus' < surplus /\ UNCHANGED <<held, owed>>

Next == Deposit \/ Settle \/ (\E a \in Account: Collect(a)) \/ Gift \/ Sweep

Spec == Init /\ [][Next]_custodyVars
=============================================================================
