-------------------------------- MODULE Platform --------------------------------
(***************************************************************************)
(* The platform's side of an escrow contract as a whole: its next-state    *)
(* relation and what holds whoever calls what, before, during and after a  *)
(* migration.                                                              *)
(***************************************************************************)
EXTENDS PlatformUpgrade

Next ==
    \/ RoleNext \/ SuccessionNext \/ SignersNext
    \/ ConfigNext
    \/ UpgradeNext \/ JobNext

Spec == Init /\ [][Next]_vars

-----------------------------------------------------------------------------
\* Type invariant.
TypeOK ==
    /\ admin \in Address /\ instanceAdmin \in Address
    /\ roles \in [AdminRole -> SUBSET Address]
    /\ counter \in 0..MaxProposals /\ records \in [Proposals -> Proposal]
    /\ pendingTransfer \in SUBSET Transfer /\ pendingConfig \in SUBSET Change
    /\ \A key \in ColdKey: persistent[key] \subseteq ColdValue(key)
    /\ \A key \in ColdKey: instance[key] \subseteq ColdValue(key)
    /\ DOMAIN persistent = ColdKey /\ DOMAIN instance = ColdKey
    /\ legacySigners \subseteq MultiSigConfig
    /\ yieldRate \in Nat /\ schema \in 1..SchemaVersion /\ version \in Nat
    /\ shapes \in [Slots -> 0..SchemaVersion]
    /\ count \in 1..MaxMilestones /\ funded \in BOOLEAN /\ paused \in BOOLEAN
    /\ agreed \subseteq Nat

-----------------------------------------------------------------------------
(***************************************************************************)
(* Proposals.                                                              *)
(***************************************************************************)
\* The proposals that are pending, whatever was proposed, executed and withdrawn
\* meanwhile, are those that a pending transfer or a pending signer change
\* points to: none is lost, and none can be approved that will never be looked
\* at.  The two never point to the same one, or one approval would serve both.
PendingIsReferenced ==
    /\ \A id \in Proposals:
          HasRecord(id) /\ records[id].status = "Pending" <=>
             HasRecord(id) /\ \/ \E t \in pendingTransfer: t.id = id
                              \/ \E p \in pendingConfig: p.id = id
    /\ \A t \in pendingTransfer, p \in pendingConfig: t.id # p.id

\* A proposal that was executed or cancelled is spent: its id is never used
\* again, and nobody's approval of it comes to count for anything.
SpentProposalsStaySpent ==
    [][\A id \in Proposals: HasRecord(id) /\ records[id].status # "Pending"
          => records'[id] = records[id] /\ records'[id].bitmap = {}]_vars

-----------------------------------------------------------------------------
(***************************************************************************)
(* The admin.                                                              *)
(***************************************************************************)
\* A new admin takes over the roles that nobody was assigned, all of them and at
\* once, and only those: an assigned role outlives the admin that assigned it.
RotationMovesUnassignedRoles ==
    [][admin' # admin => \A r \in AdminRole:
          IF roles[r] = {} THEN HolderOf(r)' = {admin'} ELSE HolderOf(r)' = HolderOf(r)]_vars

-----------------------------------------------------------------------------
(***************************************************************************)
(* The abstract specification of the succession that this one implements:  *)
(* a bit of a record stands for the signer at that place of the vec, a     *)
(* proposal for the motion that the pending entry with its id describes.   *)
(***************************************************************************)
Only(option) == CHOOSE v \in option: TRUE

Seats(c, places) == {c.signers[k]: k \in places \cap DOMAIN c.signers}
Signers(c)       == Seats(c, DOMAIN c.signers)

Council  == IF LoadMultisigConfig = {} THEN {} ELSE Signers(Only(LoadMultisigConfig))
Quorum   == IF LoadMultisigConfig = {} THEN 0 ELSE Only(LoadMultisigConfig).threshold
Ayes(id) == IF LoadMultisigConfig = {} THEN {}
            ELSE Seats(Only(LoadMultisigConfig), records[id].bitmap)

AsMotion(stage, what, people, n, ayes) ==
    [stage |-> stage, what |-> what, people |-> people, quorum |-> n, ayes |-> ayes]

MotionFor(id) ==
    LET heirs   == {t.to: t \in {t \in pendingTransfer: t.id = id}}
        changes == {p.setup: p \in {p \in pendingConfig: p.id = id}}
    IN  IF ~HasRecord(id) THEN AsMotion("none", "nothing", {}, 0, {})
        ELSE IF records[id].status # "Pending" THEN AsMotion("spent", "nothing", {}, 0, {})
        ELSE IF heirs # {} THEN AsMotion("open", "chief", heirs, 0, Ayes(id))
        ELSE AsMotion("open", "council", Signers(Only(changes)), Only(changes).threshold, Ayes(id))

Motions == [id \in Proposals |-> MotionFor(id)]

Heirs == INSTANCE Succession WITH Person <- Address, Motion <- Proposals,
            chief <- admin, council <- Council, quorum <- Quorum, motions <- Motions

\* Every change of the admin or of the signers is one that a quorum of the signers
\* of that moment approved, person by person, for that very proposal.
ImplementsSuccession == Heirs!Spec

-----------------------------------------------------------------------------
(***************************************************************************)
(* Configuration and migration.                                            *)
(***************************************************************************)
\* Once the entry points are open again, every milestone can be read by this
\* code and no older copy is left that could come back when a newer one goes.
ReadyMeansMigrated ==
    /\ Migrated => \A i \in 0..(count - 1): shapes[i] = SchemaVersion
    /\ schema >= 2 => instance = NothingStored /\ legacySigners = {}

\* Replacing the code and migrating, in any order and number, changes no answer
\* of the configuration reads: not the signers, the tokens, the shares or the fee.
UpgradeKeepsConfiguration ==
    [][UpgradeNext => /\ LoadMultisigConfig' = LoadMultisigConfig
                      /\ \A key \in ColdKey \ {"multisig"}: ColdGet(key)' = ColdGet(key)]_vars

\* What the parties can count on: once the yield's shares are locked or the job is
\* funded, the split in force is the one they signed or found at that moment, and
\* neither the FeeManager alone nor a migration replaces it.
AgreedSharesHold ==
    funded \/ (\E y \in ColdGet("yield"): y.locked) => ConfiguredShares = agreed
=============================================================================
