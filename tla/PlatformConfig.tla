----------------------------- MODULE PlatformConfig -----------------------------
(***************************************************************************)
(* What the FeeManager configures: the token whitelist, how yield is       *)
(* shared between the parties, and the platform's fee allocation.  Every   *)
(* call reads the entry wherever it is and writes it where it belongs.     *)
(***************************************************************************)
EXTENDS PlatformAdmins

Configure(key, value) ==
    StoreCold(key, value) /\ UNCHANGED <<yieldRate, adminVars, proposalVars, layoutVars, jobVars>>

-----------------------------------------------------------------------------
\* add_whitelisted_token and remove_whitelisted_token: until the job is funded,
\* and never the last one.
AddWhitelistedToken(token) ==
    /\ Migrated /\ ~funded
    /\ \E list \in ColdGet("whitelist"):
          /\ token \notin list /\ Cardinality(list) < MaxWhitelist
          /\ Configure("whitelist", list \cup {token})
    /\ UNCHANGED agreed

RemoveWhitelistedToken(token) ==
    /\ Migrated /\ ~funded
    /\ \E list \in ColdGet("whitelist"):
          /\ token \in list /\ Cardinality(list) > 1
          /\ Configure("whitelist", list \ {token})
    /\ UNCHANGED agreed

-----------------------------------------------------------------------------
(***************************************************************************)
(* agreed is a history variable: the shares that the parties can count on, *)
(* which are those they signed, or those they found when the split was     *)
(* locked or the job funded.                                               *)
(***************************************************************************)
\* ensure_interest_yield_writable.
YieldWritable == \A y \in ColdGet("yield"): ~y.locked

Share(bps, isLocked) == [client |-> bps, locked |-> isLocked]

\* Mutant of MaySetAlone: funding does not end it.
MaySetAnyTime == YieldWritable

MaySetAlone == ~funded /\ YieldWritable

\* set_escrow_interest_yield: by the FeeManager alone, until the job is funded.
SetEscrowInterestYield(bps) ==
    /\ Migrated
    /\ MaySetAlone /\ bps <= BpsScale
    /\ Configure("yield", Share(bps, FALSE)) /\ UNCHANGED agreed

\* set_interest_yield_consent: with the signatures of client and freelancer.
SetInterestYieldConsent(bps) ==
    /\ Migrated
    /\ bps <= BpsScale /\ YieldWritable
    /\ Configure("yield", Share(bps, FALSE)) /\ agreed' = {bps}

LockEscrowInterestYield ==
    /\ Migrated
    /\ \E y \in ColdGet("yield"): ~y.locked /\ Configure("yield", [y EXCEPT !.locked = TRUE])
    /\ agreed' = ConfiguredShares

\* unlock_escrow_interest_yield: with the signatures of client and freelancer.
UnlockEscrowInterestYield ==
    /\ Migrated
    /\ \E y \in ColdGet("yield"): y.locked /\ Configure("yield", [y EXCEPT !.locked = FALSE])
    /\ UNCHANGED agreed

\* admin_set_yield_rate.
AdminSetYieldRate(bps) ==
    /\ Migrated /\ ~paused
    /\ bps <= BpsScale
    /\ yieldRate' = bps
    /\ UNCHANGED <<agreed, coldVars, adminVars, proposalVars, layoutVars, jobVars>>

-----------------------------------------------------------------------------
MaxTreasuryFeeBps == 2000
MaxClientFeeBps   == 5000

\* validate_fee_allocation, of allocations whose three parts sum to the scale.
FeeAllocations ==
    {[client |-> c, freelancer |-> BpsScale - c - t, treasury |-> t, locked |-> FALSE]:
        c \in Shares \cap 0..MaxClientFeeBps, t \in Shares \cap 0..MaxTreasuryFeeBps}

SetPlatformFeeAllocation(f) ==
    /\ Migrated
    /\ \E g \in ColdGet("fee"): ~g.locked
    /\ Configure("fee", f) /\ UNCHANGED agreed

LockPlatformFeeAllocation ==
    /\ Migrated
    /\ \E f \in ColdGet("fee"): ~f.locked /\ Configure("fee", [f EXCEPT !.locked = TRUE])
    /\ UNCHANGED agreed

\* pf_alloc_admin_override: of a locked allocation, which it unlocks.
PfAllocAdminOverride(f) ==
    /\ Migrated
    /\ \E g \in ColdGet("fee"): g.locked
    /\ Configure("fee", f) /\ UNCHANGED agreed

-----------------------------------------------------------------------------
ConfigNext ==
    \/ \E token \in Token: AddWhitelistedToken(token)
    \/ \E token \in Token: RemoveWhitelistedToken(token)
    \/ \E bps \in Shares: SetEscrowInterestYield(bps)
    \/ \E bps \in Shares: SetInterestYieldConsent(bps)
    \/ LockEscrowInterestYield
    \/ UnlockEscrowInterestYield
    \/ \E bps \in Shares: AdminSetYieldRate(bps)
    \/ \E f \in FeeAllocations: SetPlatformFeeAllocation(f)
    \/ LockPlatformFeeAllocation
    \/ \E f \in FeeAllocations: PfAllocAdminOverride(f)
=============================================================================
