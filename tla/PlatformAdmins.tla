----------------------------- MODULE PlatformAdmins -----------------------------
(***************************************************************************)
(* The root admin, the roles it assigns, and the multisig signers that     *)
(* must approve its succession once they are registered.  Approvals are    *)
(* bits that index the signer vec of the moment.                           *)
(***************************************************************************)
EXTENDS PlatformState

\* set_admin_role, by the root admin.
SetAdminRole(role, a) ==
    /\ Migrated
    /\ roles' = [roles EXCEPT ![role] = IF a = instanceAdmin THEN {} ELSE {a}]
    /\ UNCHANGED <<admin, instanceAdmin, proposalVars, coldVars, yieldVars, layoutVars, jobVars>>

\* Mutant of InstallAdmin: the instance copy is forgotten.
InstallPersistentOnly(a) == admin' = a /\ UNCHANGED <<instanceAdmin, roles>>

\* The writes that a completed transfer makes.
InstallAdmin(a) == admin' = a /\ instanceAdmin' = a /\ UNCHANGED roles

\* transfer_admin: by the admin alone, while there are no signers.
TransferAdmin(a) ==
    /\ Migrated
    /\ LoadMultisigConfig = {} /\ a # admin /\ pendingTransfer = {}
    /\ InstallAdmin(a)
    /\ UNCHANGED <<proposalVars, coldVars, yieldVars, layoutVars, jobVars>>

-----------------------------------------------------------------------------
\* multisig_approval_init: once.
MultisigApprovalInit(c) ==
    /\ Migrated
    /\ persistent["multisig"] = {} /\ instance["multisig"] = {} /\ legacySigners = {}
    /\ ValidSetup(c)
    /\ StoreCold("multisig", c)
    /\ UNCHANGED <<adminVars, proposalVars, yieldVars, layoutVars, jobVars>>

\* Mutant of MayApprove: a spent proposal still collects approvals.
MayApproveSpent(id) == HasRecord(id)

MayApprove(id) == HasRecord(id) /\ records[id].status = "Pending"

\* multisig_approve: the signer's position in the vec is its bit.
MultisigApprove(signer, id) ==
    /\ Migrated
    /\ \E c \in LoadMultisigConfig: \E bit \in DOMAIN c.signers:
          /\ c.signers[bit] = signer
          /\ bit \in 1..MaxSigners
          /\ records' = [records EXCEPT ![id].bitmap = @ \cup {bit}]
    /\ MayApprove(id)
    /\ UNCHANGED <<counter, pendingTransfer, pendingConfig, adminVars, coldVars, yieldVars,
                   layoutVars, jobVars>>

\* What read_multisig_approval answers: as many bits as the threshold of now.
Approved(id) == \E c \in LoadMultisigConfig: Cardinality(records[id].bitmap) >= c.threshold

\* open_proposal_record.
OpenProposalRecord(subject) ==
    /\ counter < MaxProposals
    /\ counter' = counter + 1
    /\ records' = [records EXCEPT ![counter + 1] =
                     [subject |-> subject, status |-> "Pending", bitmap |-> {}]]

\* Mutants of Consumed: the proposal stays open, or its approvals stay on it.
BitsCleared(p, status) == [p EXCEPT !.bitmap = {}]
ClosedOnly(p, status) == [p EXCEPT !.status = status]

Consumed(p, status) == [p EXCEPT !.status = status, !.bitmap = {}]

-----------------------------------------------------------------------------
ProposeAdminTransfer(a) ==
    /\ Migrated
    /\ a # admin /\ pendingTransfer = {}
    /\ OpenProposalRecord(a)
    /\ pendingTransfer' = {[to |-> a, id |-> counter + 1]}
    /\ UNCHANGED <<pendingConfig, adminVars, coldVars, yieldVars, layoutVars, jobVars>>

\* execute_admin_transfer: by anyone.
ExecuteAdminTransfer ==
    /\ Migrated
    /\ \E t \in pendingTransfer:
          /\ HasRecord(t.id) /\ records[t.id].status = "Pending"
          /\ Approved(t.id)
          /\ IF t.to = admin THEN UNCHANGED adminVars ELSE InstallAdmin(t.to)
          /\ records' = [records EXCEPT ![t.id] = Consumed(@, "Executed")]
    /\ pendingTransfer' = {}
    /\ UNCHANGED <<counter, pendingConfig, coldVars, yieldVars, layoutVars, jobVars>>

\* A transfer that older code proposed may have no record.
CancelAdminTransferProposal ==
    /\ Migrated
    /\ \E t \in pendingTransfer:
          records' = IF HasRecord(t.id)
                     THEN [records EXCEPT ![t.id] = Consumed(@, "Cancelled")] ELSE records
    /\ pendingTransfer' = {}
    /\ UNCHANGED <<counter, pendingConfig, adminVars, coldVars, yieldVars, layoutVars, jobVars>>

-----------------------------------------------------------------------------
ProposeMultisigConfig(c) ==
    /\ Migrated
    /\ LoadMultisigConfig # {} /\ ValidSetup(c) /\ pendingConfig = {}
    /\ OpenProposalRecord(admin)
    /\ pendingConfig' = {[setup |-> c, id |-> counter + 1]}
    /\ UNCHANGED <<pendingTransfer, adminVars, coldVars, yieldVars, layoutVars, jobVars>>

\* Mutant of WithoutTransferApprovals: the bits are left to name other signers.
WithOldApprovals(recs) == recs

\* Approvals of a pending transfer index the old signer vec and are dropped.
WithoutTransferApprovals(recs) ==
    [id \in Proposals |->
        IF HasRecord(id) /\ \E t \in pendingTransfer: t.id = id
        THEN [recs[id] EXCEPT !.bitmap = {}] ELSE recs[id]]

\* execute_multisig_config: by anyone.
ExecuteMultisigConfig ==
    /\ Migrated
    /\ \E p \in pendingConfig:
          /\ HasRecord(p.id) /\ records[p.id].status = "Pending"
          /\ Approved(p.id)
          /\ persistent' = [persistent EXCEPT !["multisig"] = {p.setup}]
          /\ records' = WithoutTransferApprovals(
                           [records EXCEPT ![p.id] = Consumed(@, "Executed")])
    /\ instance' = [instance EXCEPT !["multisig"] = {}]
    /\ legacySigners' = {}
    /\ pendingConfig' = {}
    /\ UNCHANGED <<counter, pendingTransfer, adminVars, yieldVars, layoutVars, jobVars>>

CancelMultisigConfigProposal ==
    /\ Migrated
    /\ \E p \in pendingConfig:
          records' = IF HasRecord(p.id)
                     THEN [records EXCEPT ![p.id] = Consumed(@, "Cancelled")] ELSE records
    /\ pendingConfig' = {}
    /\ UNCHANGED <<counter, pendingTransfer, adminVars, coldVars, yieldVars, layoutVars, jobVars>>

-----------------------------------------------------------------------------
RoleNext == \E role \in AdminRole, a \in Address: SetAdminRole(role, a)

SuccessionNext ==
    \/ \E a \in Address: TransferAdmin(a)
    \/ \E a \in Address: ProposeAdminTransfer(a)
    \/ ExecuteAdminTransfer
    \/ CancelAdminTransferProposal

SignersNext ==
    \/ \E c \in Setups: MultisigApprovalInit(c)
    \/ \E signer \in Address, id \in Proposals: MultisigApprove(signer, id)
    \/ \E c \in Setups: ProposeMultisigConfig(c)
    \/ ExecuteMultisigConfig
    \/ CancelMultisigConfigProposal
=============================================================================
