----------------------------- MODULE EscrowHistory -----------------------------
(***************************************************************************)
(* The agreement to cancel, seen from the parties: what each of them said  *)
(* and when, kept beside the escrow, whose own record is overwritten,      *)
(* expires and is removed.                                                 *)
(***************************************************************************)
EXTENDS MilestoneEscrow

VARIABLE assented   \* history: when a party last agreed to cancel, 0 when it does not

historyVars == <<vars, assented>>

Roles == {"client", "freelancer"}

HistoryInit == Init /\ assented = [r \in Roles |-> 0]

Locks == ~cancelLock /\ cancelLock'

\* A lock uses both agreements up.
RecordAssent ==
    assented' = [r \in Roles |->
                   IF Locks THEN 0
                   ELSE IF CancelEscrow(r) THEN now
                   ELSE IF RevokeCancelApproval(r) THEN 0 ELSE assented[r]]

HistoryNext == Next /\ RecordAssent

HistorySpec == HistoryInit /\ [][HistoryNext]_historyVars

-----------------------------------------------------------------------------
\* r agrees to cancel in this very step, or did within the time to live and has
\* neither taken it back nor seen it lead to an earlier lock.
Agrees(r) == CancelEscrow(r) \/ (assented[r] # 0 /\ now - assented[r] < CancelTtl)

\* The escrow is locked only by two agreements of one window, whatever was agreed,
\* revoked, left to expire, locked and settled before.
StaleIntentNeverLocks == [][Locks => \A r \in Roles: Agrees(r)]_historyVars

\* While the escrow is locked a milestone's money moves only by the admin, or by a
\* stream that both parties sign, which does not ask for the lock.
CancelLockHolds ==
    [][\A i \in Live: cancelLock /\ ms'[i].paid # ms[i].paid =>
          AdminStep \/ \E r \in StreamRatios: PaymentStreamingConsent(i, r[1], r[2])]_historyVars
=============================================================================
