----------------------------- MODULE MCCalculators -----------------------------
(***************************************************************************)
(* Inputs for the calculators.  Nothing is stored, so a behaviour asks for *)
(* one quote or runs one allocation.  The amounts are the smallest ones,   *)
(* those around multiples of the scale, where the rounding goes either     *)
(* way, and one whose products do not fit IntMax.                          *)
(***************************************************************************)
EXTENDS EscrowSplits, Allocation

Large == 20000000

MCGrosses == {-1, 0, 1, 2, 3, 9999, 10000, 10001, 12345, 25000}
MCTaxes   == {-1, 0, 1, 2, 3, 5000, 10000}
MCTotals  == {0, 1, 2, 3, 5, 7, 10, Large}

\* The highest fees that can be stored, small ones, and some that cannot be.
MCFees == {[client |-> MaxClientFeeBps, freelancer |-> 3000, treasury |-> MaxTreasuryFeeBps],
           [client |-> 1, freelancer |-> 9998, treasury |-> 1],
           [client |-> 5000, freelancer |-> 0, treasury |-> 5000]}

MCInit == Init /\ LoopInit

MCNext ==
    \/ Init /\ LoopInit /\ Next /\ UNCHANGED loopVars
    \/ Init /\ LoopNext /\ UNCHANGED quote

MCSpec == MCInit /\ [][MCNext]_<<quote, loopVars>>
=============================================================================
