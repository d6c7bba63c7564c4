----------------------------- MODULE PlatformProofs -----------------------------
(***************************************************************************)
(* What holds of every platform: for any addresses, signer sets, shares,   *)
(* limits and numbers of proposals, milestones and upgrades; and that the  *)
(* platform implements Succession.                                         *)
(***************************************************************************)
EXTENDS Platform, FiniteSetTheorems, TLAPS

-----------------------------------------------------------------------------
(***************************************************************************)
(* What each group of entry points leaves alone.                           *)
(***************************************************************************)
\* Configuring touches neither people nor proposals, layout or job.
LEMMA ConfigFrame ==
  ASSUME ConfigNext
  PROVE  UNCHANGED <<adminVars, proposalVars, layoutVars, jobVars, instance, legacySigners>>
  BY DEF ConfigNext, AddWhitelistedToken, RemoveWhitelistedToken, SetEscrowInterestYield,
         SetInterestYieldConsent, LockEscrowInterestYield, UnlockEscrowInterestYield,
         AdminSetYieldRate, SetPlatformFeeAllocation, LockPlatformFeeAllocation,
         PfAllocAdminOverride, Configure, StoreCold, coldVars

\* Upgrading and migrating touch neither people nor proposals, shares or job.
LEMMA UpgradeFrame ==
  ASSUME UpgradeNext
  PROVE  /\ UNCHANGED <<adminVars, proposalVars, yieldVars, jobVars>>
         /\ UNCHANGED coldVars \/ MoveColdConfig
  BY DEF UpgradeNext, Upgrade, MigrateColdConfig, Migrate

\* The job's entry points touch no people, proposals or configuration.
LEMMA JobFrame ==
  ASSUME JobNext
  PROVE  UNCHANGED <<adminVars, proposalVars, coldVars, yieldRate>>
  BY DEF JobNext, Fund, AddMilestone, AdminPauseEscrow, AdminResumeEscrow, SetPaused, yieldVars

\* Succession and roles touch no configuration, layout or job.
LEMMA SuccessionFrame ==
  ASSUME RoleNext \/ SuccessionNext
  PROVE  UNCHANGED <<coldVars, yieldVars, layoutVars, jobVars, pendingConfig>>
  BY DEF RoleNext, SuccessionNext, SetAdminRole, TransferAdmin, ProposeAdminTransfer,
         ExecuteAdminTransfer, CancelAdminTransferProposal, proposalVars

\* The signers' entry points touch neither people, shares, layout nor job.
LEMMA SignersFrame ==
  ASSUME SignersNext
  PROVE  UNCHANGED <<adminVars, yieldVars, layoutVars, jobVars, pendingTransfer>>
  BY DEF SignersNext, MultisigApprovalInit, MultisigApprove, ProposeMultisigConfig,
         ExecuteMultisigConfig, CancelMultisigConfigProposal, proposalVars

-----------------------------------------------------------------------------
(***************************************************************************)
(* Migration and configuration.                                            *)
(***************************************************************************)
\* Moving the configuration changes no answer of its reads, whichever of the places
\* each entry was in.
LEMMA MoveKeepsAnswers ==
  ASSUME MoveColdConfig
  PROVE  /\ LoadMultisigConfig' = LoadMultisigConfig
         /\ \A key \in ColdKey \ {"multisig"}: ColdGet(key)' = ColdGet(key)
<1>1. /\ \A key \in ColdKey: persistent'[key] =
             IF key = "multisig" /\ MigratedColdEntry(key) = {} THEN legacySigners
             ELSE MigratedColdEntry(key)
      /\ \A key \in ColdKey: instance'[key] = {}
      /\ legacySigners' = {}
  BY DEF MoveColdConfig, NothingStored
<1>2. "multisig" \in ColdKey
  BY DEF ColdKey
<1>3. LoadMultisigConfig' = LoadMultisigConfig
  BY <1>1, <1>2 DEF LoadMultisigConfig, ColdGet, MigratedColdEntry
<1>4. \A key \in ColdKey \ {"multisig"}: ColdGet(key)' = ColdGet(key)
  BY <1>1 DEF ColdGet, MigratedColdEntry
<1> QED
  BY <1>3, <1>4

\* For every configuration, wherever it is stored: no upgrade or migration changes
\* what the contract answers.
THEOREM UpgradesAreInvisible == Spec => UpgradeKeepsConfiguration
<1>1. ASSUME UpgradeNext
      PROVE  /\ LoadMultisigConfig' = LoadMultisigConfig
             /\ \A key \in ColdKey \ {"multisig"}: ColdGet(key)' = ColdGet(key)
  <2>1. CASE UNCHANGED coldVars
    BY <2>1 DEF coldVars, LoadMultisigConfig, ColdGet
  <2> QED
    BY <1>1, <2>1, UpgradeFrame, MoveKeepsAnswers
<1>2. [Next]_vars => [UpgradeNext => /\ LoadMultisigConfig' = LoadMultisigConfig
                                     /\ \A key \in ColdKey \ {"multisig"}: ColdGet(key)' = ColdGet(key)]_vars
  BY <1>1
<1> QED
  BY <1>2, PTL DEF Spec, UpgradeKeepsConfiguration

-----------------------------------------------------------------------------
(***************************************************************************)
(* The admin.                                                              *)
(***************************************************************************)
\* The admin changes in one way only, both copies at once and the roles left alone.
LEMMA AdminInstalled ==
  ASSUME Next, admin' # admin
  PROVE  instanceAdmin' = admin' /\ roles' = roles
<1>1. ~ConfigNext /\ ~UpgradeNext /\ ~JobNext /\ ~SignersNext
  BY ConfigFrame, UpgradeFrame, JobFrame, SignersFrame DEF adminVars
<1>2. CASE RoleNext
  BY <1>2 DEF RoleNext, SetAdminRole
<1>3. CASE SuccessionNext
  BY <1>3 DEF SuccessionNext, TransferAdmin, ProposeAdminTransfer, ExecuteAdminTransfer,
              CancelAdminTransferProposal, InstallAdmin, adminVars
<1> QED
  BY <1>1, <1>2, <1>3 DEF Next

\* Whoever becomes admin, by whichever way, takes over the unassigned roles and no
\* others.
THEOREM RotationIsComplete == Spec => RotationMovesUnassignedRoles
<1>1. ASSUME Next, admin' # admin, NEW r \in AdminRole
      PROVE  IF roles[r] = {} THEN HolderOf(r)' = {admin'} ELSE HolderOf(r)' = HolderOf(r)
  BY <1>1, AdminInstalled DEF HolderOf
<1>2. [Next]_vars => [admin' # admin => \A r \in AdminRole:
          IF roles[r] = {} THEN HolderOf(r)' = {admin'} ELSE HolderOf(r)' = HolderOf(r)]_vars
  BY <1>1
<1> QED
  BY <1>2, PTL DEF Spec, RotationMovesUnassignedRoles
-----------------------------------------------------------------------------
(***************************************************************************)
(* The layout.                                                             *)
(***************************************************************************)
\* ReadyMeansMigrated alone is not inductive: where the job may end and what a
\* stored shape may be is part of it.
LayoutInv ==
    /\ count \in 1..MaxMilestones
    /\ schema \in 1..SchemaVersion
    /\ shapes \in [Slots -> 0..SchemaVersion]
    /\ ReadyMeansMigrated

\* It depends on these variables only.
LEMMA LayoutUnchanged ==
  ASSUME LayoutInv, UNCHANGED <<count, schema, shapes, instance, legacySigners>>
  PROVE  LayoutInv'
  BY DEF LayoutInv, ReadyMeansMigrated, Migrated

LEMMA LayoutInit == ASSUME Init PROVE LayoutInv
<1>1. \E v \in {1, 2, 3}, shape \in {1, 2, 3}:
          /\ StoredAs(v, shape)
          /\ v = 3 => shape = 3
          /\ v >= 2 => instance = NothingStored /\ legacySigners = {}
  BY DEF Init, FreshDeployment, SecondSchema, FirstSchema
<1>2. PICK v \in {1, 2, 3}, shape \in {1, 2, 3}:
          /\ StoredAs(v, shape)
          /\ v = 3 => shape = 3
          /\ v >= 2 => instance = NothingStored /\ legacySigners = {}
  BY <1>1
<1>3. count = InitCount /\ InitCount \in 1..MaxMilestones /\ MaxMilestones \in Nat
  BY PlatformAssumption DEF Init
<1>4. shapes \in [Slots -> 0..SchemaVersion]
  BY <1>2 DEF StoredAs, SchemaVersion
<1>5. ASSUME Migrated, NEW i \in 0..(count - 1) PROVE shapes[i] = SchemaVersion
  BY <1>2, <1>3, <1>5 DEF StoredAs, Migrated, SchemaVersion, Slots
<1> QED
  BY <1>2, <1>3, <1>4, <1>5 DEF LayoutInv, ReadyMeansMigrated, StoredAs, SchemaVersion

\* A migration leaves every milestone of the job in the current shape.
LEMMA MigrateReady == ASSUME LayoutInv, Migrate PROVE LayoutInv'
<1>1. /\ count' = count /\ schema' = SchemaVersion
      /\ shapes' = [i \in Slots |-> IF i < count THEN MigratedShape(shapes[i]) ELSE shapes[i]]
      /\ MaxMilestones \in Nat
  BY PlatformAssumption DEF Migrate, jobVars
<1>2. \A i \in Slots: shapes[i] \in 0..3 /\ MigratedShape(shapes[i]) = 3
  BY DEF LayoutInv, MigratedShape, SchemaVersion
<1>3. shapes' \in [Slots -> 0..SchemaVersion]
  BY <1>1, <1>2 DEF SchemaVersion
<1>4. \A i \in 0..(count' - 1): shapes'[i] = SchemaVersion
  BY <1>1, <1>2 DEF LayoutInv, Slots, SchemaVersion
<1>5. instance' = NothingStored /\ legacySigners' = {}
  BY DEF Migrate, LayoutInv, ReadyMeansMigrated, MoveColdConfig, coldVars, SchemaVersion
<1> QED
  BY <1>1, <1>3, <1>4, <1>5 DEF LayoutInv, ReadyMeansMigrated, SchemaVersion

\* A milestone added before the migration is written in the current shape and met by it.
LEMMA AddMilestoneReady == ASSUME LayoutInv, AddMilestone PROVE LayoutInv'
<1>1. /\ count' = count + 1 /\ count < MaxMilestones /\ MaxMilestones \in Nat
      /\ shapes' = [shapes EXCEPT ![count] = SchemaVersion]
      /\ UNCHANGED <<schema, instance, legacySigners>>
  BY PlatformAssumption DEF AddMilestone, RoomLeft, coldVars
<1>2. count \in Slots /\ count' \in 1..MaxMilestones
  BY <1>1 DEF LayoutInv, Slots
<1>3. /\ shapes' \in [Slots -> 0..SchemaVersion]
      /\ \A i \in Slots: shapes'[i] = IF i = count THEN SchemaVersion ELSE shapes[i]
  BY <1>1, <1>2 DEF LayoutInv, SchemaVersion
<1>4. ASSUME Migrated, NEW i \in 0..(count' - 1) PROVE shapes'[i] = SchemaVersion
  BY <1>1, <1>2, <1>3, <1>4 DEF LayoutInv, ReadyMeansMigrated, Slots
<1> QED
  BY <1>1, <1>2, <1>3, <1>4 DEF LayoutInv, ReadyMeansMigrated, Migrated

LEMMA LayoutStep == ASSUME LayoutInv, [Next]_vars PROVE LayoutInv'
<1>1. CASE ConfigNext \/ RoleNext \/ SuccessionNext
  BY <1>1, ConfigFrame, SuccessionFrame, LayoutUnchanged DEF layoutVars, jobVars, coldVars
<1>2. CASE SignersNext
  <2>1. UNCHANGED <<count, schema, shapes>>
    BY <1>2, SignersFrame DEF layoutVars, jobVars
  <2>2. schema >= 2 => instance' = instance /\ legacySigners' = {}
    BY <1>2 DEF SignersNext, MultisigApprovalInit, MultisigApprove, ProposeMultisigConfig,
                ExecuteMultisigConfig, CancelMultisigConfigProposal, StoreCold, coldVars,
                LayoutInv, ReadyMeansMigrated, NothingStored
  <2> QED
    BY <2>1, <2>2 DEF LayoutInv, ReadyMeansMigrated, Migrated
<1>3. CASE Upgrade
  BY <1>3, LayoutUnchanged DEF Upgrade, jobVars, coldVars
<1>4. CASE MigrateColdConfig
  BY <1>4 DEF MigrateColdConfig, MoveColdConfig, LayoutInv, ReadyMeansMigrated, Migrated,
              layoutVars, jobVars
<1>5. CASE Migrate
  BY <1>5, MigrateReady
<1>6. CASE AddMilestone
  BY <1>6, AddMilestoneReady
<1>7. CASE Fund \/ AdminPauseEscrow \/ AdminResumeEscrow
  BY <1>7, LayoutUnchanged DEF Fund, AdminPauseEscrow, AdminResumeEscrow, SetPaused,
                               layoutVars, coldVars
<1>8. CASE UNCHANGED vars
  BY <1>8, LayoutUnchanged DEF vars, layoutVars, jobVars, coldVars
<1> QED
  BY <1>1, <1>2, <1>3, <1>4, <1>5, <1>6, <1>7, <1>8 DEF Next, UpgradeNext, JobNext

\* For any number of milestones, in whatever mix of shapes and places they were stored:
\* when the entry points are open nothing is left in an old layout.
THEOREM MigrationIsComplete == Spec => []ReadyMeansMigrated
<1>1. Spec => []LayoutInv
  BY LayoutInit, LayoutStep, PTL DEF Spec
<1> QED
  BY <1>1, PTL DEF LayoutInv

-----------------------------------------------------------------------------
(***************************************************************************)
(* The shares of the yield.                                                *)
(***************************************************************************)
\* An entry is absent or has one value.
Single(option) == \A v, w \in option: v = w

\* Without it, reading a value and storing it back could change what is configured.
YieldInv ==
    /\ Single(persistent["yield"]) /\ Single(instance["yield"])
    /\ persistent = [key \in ColdKey |-> persistent[key]]
    /\ AgreedSharesHold

\* Storing one entry leaves the others.
LEMMA Stored ==
  ASSUME YieldInv, NEW key \in ColdKey, NEW value, StoreCold(key, value)
  PROVE  /\ persistent'["yield"] = IF key = "yield" THEN {value} ELSE persistent["yield"]
         /\ persistent' = [k \in ColdKey |-> persistent'[k]]
         /\ instance' = instance
<1>1. persistent' = [persistent EXCEPT ![key] = {value}] /\ instance' = instance
  BY DEF StoreCold
<1>2. \A k \in ColdKey: persistent'[k] = IF k = key THEN {value} ELSE persistent[k]
  BY <1>1, Zenon DEF YieldInv
<1>3. persistent' = [k \in ColdKey |-> persistent'[k]]
  BY <1>1, Zenon DEF YieldInv
<1>4. "yield" \in ColdKey
  BY DEF ColdKey
<1> QED
  BY <1>1, <1>2, <1>3, <1>4

\* In every deployment the entry has at most one value in each place, and what is
\* configured counts as agreed.
LEMMA YieldInit == ASSUME Init PROVE YieldInv
<1>1. \A y \in AnyYield: Single(y)
  BY DEF AnyYield, Single
<1>2. Single({})
  BY DEF Single
<1>3. /\ NothingStored["yield"] = {} /\ "yield" \in ColdKey
      /\ NothingStored = [key \in ColdKey |-> NothingStored[key]]
  BY DEF NothingStored, ColdKey
<1>4. ASSUME NEW t \in Token, NEW m, NEW y
      PROVE  /\ ConstructorConfig(t)["yield"] = {}
             /\ ConstructorConfig(t) = [key \in ColdKey |-> ConstructorConfig(t)[key]]
             /\ ChangedConfig(t, m, y)["yield"] = y
             /\ ChangedConfig(t, m, y) = [key \in ColdKey |-> ChangedConfig(t, m, y)[key]]
  BY DEF ChangedConfig, ConstructorConfig, NothingStored, ColdKey
<1>5. ASSUME NEW t \in Token
      PROVE  /\ [NothingStored EXCEPT !["whitelist"] = {{t}}]["yield"] = {}
             /\ [NothingStored EXCEPT !["whitelist"] = {{t}}] =
                  [key \in ColdKey |-> [NothingStored EXCEPT !["whitelist"] = {{t}}][key]]
  BY DEF NothingStored, ColdKey
<1>6. agreed = ConfiguredShares
  BY DEF Init
<1>7. CASE FreshDeployment
  BY <1>2, <1>3, <1>4, <1>6, <1>7 DEF FreshDeployment, YieldInv, AgreedSharesHold
<1>8. CASE SecondSchema
  BY <1>1, <1>2, <1>3, <1>4, <1>6, <1>8 DEF SecondSchema, YieldInv, AgreedSharesHold
<1>9. CASE FirstSchema
  <2>1. PICK t \in Token, m \in AnySetup, y \in AnyYield:
            instance = ChangedConfig(t, m, y)
    BY <1>9 DEF FirstSchema
  <2>2. PICK u \in Token:
            persistent \in {NothingStored, [NothingStored EXCEPT !["whitelist"] = {{u}}]}
    BY <1>9 DEF FirstSchema
  <2>3. instance["yield"] = y
    BY <1>4, <2>1
  <2>4. /\ persistent["yield"] = {}
        /\ persistent = [key \in ColdKey |-> persistent[key]]
    BY <1>3, <1>5, <2>2
  <2> QED
    BY <1>1, <1>2, <1>6, <2>3, <2>4 DEF YieldInv, AgreedSharesHold
<1> QED
  BY <1>7, <1>8, <1>9 DEF Init

\* Storing another entry, or reading these ones, keeps the shares as they are.
LEMMA SharesUntouched ==
  ASSUME YieldInv, persistent'["yield"] = persistent["yield"], instance'["yield"] = instance["yield"],
         persistent' = [key \in ColdKey |-> persistent'[key]], UNCHANGED <<funded, agreed>>
  PROVE  YieldInv'
  BY DEF YieldInv, AgreedSharesHold, ConfiguredShares, SharesIn, ColdGet

\* A share that is stored replaces what was configured.
LEMMA SharesStored ==
  ASSUME YieldInv, NEW y, StoreCold("yield", y),
         funded' \/ y.locked => agreed' = {y.client}
  PROVE  YieldInv'
<1>1. "yield" \in ColdKey
  BY DEF ColdKey
<1>2. /\ persistent'["yield"] = {y}
      /\ persistent' = [k \in ColdKey |-> persistent'[k]]
      /\ instance' = instance
  BY <1>1, Stored
<1>3. ColdGet("yield")' = {y} /\ ConfiguredShares' = {y.client}
  BY <1>2 DEF ColdGet, ConfiguredShares, SharesIn
<1> QED
  BY <1>2, <1>3 DEF YieldInv, Single, AgreedSharesHold

\* The one value that is configured gives the one share.
LEMMA OneShare ==
  ASSUME YieldInv, NEW y \in ColdGet("yield")
  PROVE  ConfiguredShares = {y.client}
<1>1. Single(ColdGet("yield"))
  BY DEF YieldInv, ColdGet
<1>2. ColdGet("yield") = {y}
  BY <1>1 DEF Single
<1> QED
  BY <1>2 DEF ConfiguredShares, SharesIn

\* Configuration: the FeeManager alone only before funding and under no lock, everyone
\* else with the parties' signatures or without a change of the share.
LEMMA YieldConfigStep == ASSUME YieldInv, ConfigNext PROVE YieldInv'
<1>1. funded' = funded
  BY ConfigFrame DEF jobVars
<1>2. ASSUME NEW key \in ColdKey, key # "yield", NEW value, Configure(key, value), UNCHANGED agreed
      PROVE  YieldInv'
  BY <1>1, <1>2, Stored, SharesUntouched DEF Configure
<1>3. "whitelist" \in ColdKey /\ "fee" \in ColdKey
  BY DEF ColdKey
<1>4. ASSUME NEW token \in Token, AddWhitelistedToken(token) \/ RemoveWhitelistedToken(token)
      PROVE  YieldInv'
  BY <1>2, <1>3, <1>4 DEF AddWhitelistedToken, RemoveWhitelistedToken
<1>5. ASSUME NEW bps \in Shares, SetEscrowInterestYield(bps) PROVE YieldInv'
  <2>1. ~funded' /\ ~Share(bps, FALSE).locked /\ StoreCold("yield", Share(bps, FALSE))
    BY <1>1, <1>5 DEF SetEscrowInterestYield, MaySetAlone, Share, Configure
  <2> QED
    BY <2>1, SharesStored
<1>6. ASSUME NEW bps \in Shares, SetInterestYieldConsent(bps) PROVE YieldInv'
  <2>1. agreed' = {Share(bps, FALSE).client} /\ StoreCold("yield", Share(bps, FALSE))
    BY <1>6 DEF SetInterestYieldConsent, Share, Configure
  <2> QED
    BY <2>1, SharesStored
<1>7. ASSUME LockEscrowInterestYield PROVE YieldInv'
  <2>1. PICK y \in ColdGet("yield"): Configure("yield", [y EXCEPT !.locked = TRUE])
    BY <1>7 DEF LockEscrowInterestYield
  <2>2. agreed' = {y.client}
    BY <1>7, OneShare DEF LockEscrowInterestYield
  <2>3. [y EXCEPT !.locked = TRUE].client = y.client
    OBVIOUS
  <2> QED
    BY <2>1, <2>2, <2>3, SharesStored DEF Configure
<1>8. ASSUME UnlockEscrowInterestYield PROVE YieldInv'
  <2>1. PICK y \in ColdGet("yield"): y.locked /\ Configure("yield", [y EXCEPT !.locked = FALSE])
    BY <1>8 DEF UnlockEscrowInterestYield
  <2>2. agreed' = {y.client}
    BY <1>8, <2>1, OneShare DEF UnlockEscrowInterestYield, YieldInv, AgreedSharesHold
  <2>3. [y EXCEPT !.locked = FALSE].client = y.client
    OBVIOUS
  <2> QED
    BY <2>1, <2>2, <2>3, SharesStored DEF Configure
<1>9. ASSUME NEW bps \in Shares, AdminSetYieldRate(bps) PROVE YieldInv'
  BY <1>9, SharesUntouched DEF AdminSetYieldRate, coldVars, jobVars, YieldInv
<1>10. ASSUME \/ \E f \in FeeAllocations: SetPlatformFeeAllocation(f) \/ PfAllocAdminOverride(f)
              \/ LockPlatformFeeAllocation
       PROVE  YieldInv'
  BY <1>2, <1>3, <1>10 DEF SetPlatformFeeAllocation, PfAllocAdminOverride, LockPlatformFeeAllocation
<1> QED
  BY <1>4, <1>5, <1>6, <1>7, <1>8, <1>9, <1>10 DEF ConfigNext

LEMMA YieldStep == ASSUME YieldInv, [Next]_vars PROVE YieldInv'
<1>1. CASE ConfigNext
  BY <1>1, YieldConfigStep
<1>2. CASE RoleNext \/ SuccessionNext
  BY <1>2, SuccessionFrame, SharesUntouched DEF coldVars, yieldVars, jobVars, YieldInv
<1>3. CASE SignersNext
  <2>1. UNCHANGED <<funded, agreed>>
    BY <1>3, SignersFrame DEF jobVars, yieldVars
  <2>2. CASE UNCHANGED coldVars
    BY <2>1, <2>2, SharesUntouched DEF coldVars, YieldInv
  <2>3. ASSUME NEW c \in Setups, MultisigApprovalInit(c) PROVE YieldInv'
    <3>1. "multisig" \in ColdKey
      BY DEF ColdKey
    <3> QED
      BY <2>1, <2>3, <3>1, Stored, SharesUntouched DEF MultisigApprovalInit
  <2>4. ASSUME ExecuteMultisigConfig PROVE YieldInv'
    <3>1. PICK p \in pendingConfig: persistent' = [persistent EXCEPT !["multisig"] = {p.setup}]
      BY <2>4 DEF ExecuteMultisigConfig
    <3>2. instance' = [instance EXCEPT !["multisig"] = {}]
      BY <2>4 DEF ExecuteMultisigConfig
    <3>3. \A k \in ColdKey \ {"multisig"}: persistent'[k] = persistent[k]
      BY <3>1, Zenon DEF YieldInv
    <3>4. persistent' = [k \in ColdKey |-> persistent'[k]]
      BY <3>1, Zenon DEF YieldInv
    <3>5. instance'["yield"] = instance["yield"] /\ "yield" \in ColdKey \ {"multisig"}
      BY <3>2 DEF ColdKey
    <3> QED
      BY <2>1, <3>3, <3>4, <3>5, SharesUntouched
  <2> QED
    BY <1>3, <2>2, <2>3, <2>4 DEF SignersNext, MultisigApprove, ProposeMultisigConfig,
                                  CancelMultisigConfigProposal
<1>4. CASE UpgradeNext
  <2>1. UNCHANGED <<funded, agreed>> /\ (UNCHANGED coldVars \/ MoveColdConfig)
    BY <1>4, UpgradeFrame DEF jobVars, yieldVars
  <2>2. CASE UNCHANGED coldVars
    BY <2>1, <2>2, SharesUntouched DEF coldVars, YieldInv
  <2>3. CASE MoveColdConfig
    <3>1. "yield" \in ColdKey \ {"multisig"}
      BY DEF ColdKey
    <3>2. ColdGet("yield")' = ColdGet("yield")
      BY <2>3, <3>1, MoveKeepsAnswers
    <3>3. /\ persistent' = [k \in ColdKey |-> persistent'[k]]
          /\ persistent'["yield"] = MigratedColdEntry("yield")
          /\ instance'["yield"] = {}
      BY <2>3, <3>1 DEF MoveColdConfig, NothingStored
    <3>4. Single(persistent'["yield"]) /\ Single(instance'["yield"])
      BY <3>3 DEF YieldInv, MigratedColdEntry, Single
    <3> QED
      BY <2>1, <3>2, <3>3, <3>4 DEF YieldInv, AgreedSharesHold, ConfiguredShares
  <2> QED
    BY <2>1, <2>2, <2>3
<1>5. CASE JobNext
  <2>1. UNCHANGED coldVars
    BY <1>5, JobFrame
  <2>2. CASE Fund
    <3>1. agreed' = ConfiguredShares /\ ConfiguredShares' = ConfiguredShares
      BY <2>1, <2>2 DEF Fund, ConfiguredShares, ColdGet, coldVars
    <3> QED
      BY <2>1, <3>1 DEF YieldInv, AgreedSharesHold, coldVars
  <2>3. CASE AddMilestone \/ AdminPauseEscrow \/ AdminResumeEscrow
    BY <2>3, SharesUntouched DEF AddMilestone, AdminPauseEscrow, AdminResumeEscrow, SetPaused,
                                 coldVars, yieldVars, YieldInv
  <2> QED
    BY <1>5, <2>2, <2>3 DEF JobNext
<1>6. CASE UNCHANGED vars
  BY <1>6, SharesUntouched DEF vars, coldVars, yieldVars, jobVars, YieldInv
<1> QED
  BY <1>1, <1>2, <1>3, <1>4, <1>5, <1>6 DEF Next

\* For any shares and any order of consent, lock, unlock, funding and migration: the
\* split in force is the one that the parties agreed to.
THEOREM SplitIsAgreed == Spec => []AgreedSharesHold
<1>1. Spec => []YieldInv
  BY YieldInit, YieldStep, PTL DEF Spec
<1> QED
  BY <1>1, PTL DEF YieldInv

-----------------------------------------------------------------------------
(***************************************************************************)
(* Types, part by part.                                                    *)
(***************************************************************************)
PeopleOK ==
    /\ admin \in Address /\ instanceAdmin \in Address
    /\ roles \in [AdminRole -> SUBSET Address]

ProposalsOK ==
    /\ counter \in 0..MaxProposals /\ records \in [Proposals -> Proposal]
    /\ pendingTransfer \in SUBSET Transfer /\ pendingConfig \in SUBSET Change

ColdOK ==
    /\ \A key \in ColdKey: persistent[key] \subseteq ColdValue(key)
    /\ \A key \in ColdKey: instance[key] \subseteq ColdValue(key)
    /\ DOMAIN persistent = ColdKey /\ DOMAIN instance = ColdKey
    /\ legacySigners \subseteq MultiSigConfig

ValuesOK ==
    /\ yieldRate \in Nat /\ version \in Nat /\ agreed \subseteq Nat
    /\ funded \in BOOLEAN /\ paused \in BOOLEAN

Typed == PeopleOK /\ ProposalsOK /\ ColdOK /\ ValuesOK

LEMMA TypedIsTypeOK == Typed /\ LayoutInv => TypeOK
  BY DEF Typed, PeopleOK, ProposalsOK, ColdOK, ValuesOK, LayoutInv, TypeOK

\* What a cold entry holds.
LEMMA ColdValues ==
  /\ ColdValue("whitelist") = SUBSET Token /\ ColdValue("multisig") = MultiSigConfig
  /\ ColdValue("yield") = YieldState /\ ColdValue("fee") = FeeAllocation
  /\ ColdKey = {"whitelist", "multisig", "yield", "fee"}
  BY DEF ColdValue, ColdKey

\* What a read answers is of the type of the entry.
LEMMA ColdGetTyped ==
  ASSUME ColdOK
  PROVE  /\ \A key \in ColdKey: ColdGet(key) \subseteq ColdValue(key)
         /\ LoadMultisigConfig \subseteq MultiSigConfig
         /\ ConfiguredShares \subseteq Nat
<1>1. \A key \in ColdKey: ColdGet(key) \subseteq ColdValue(key)
  BY DEF ColdOK, ColdGet
<1>2. LoadMultisigConfig \subseteq MultiSigConfig
  BY <1>1, ColdValues DEF ColdOK, LoadMultisigConfig
<1>3. ConfiguredShares \subseteq Nat
  <2>1. ColdGet("yield") \subseteq YieldState
    BY <1>1, ColdValues
  <2>2. \A y \in ColdGet("yield"): y.client \in Nat
    BY <2>1 DEF YieldState
  <2> QED
    BY <2>2 DEF ConfiguredShares, SharesIn
<1> QED
  BY <1>1, <1>2, <1>3

LEMMA StoredTyped ==
  ASSUME ColdOK, NEW key \in ColdKey, NEW value \in ColdValue(key), StoreCold(key, value)
  PROVE  ColdOK'
<1>1. /\ DOMAIN persistent' = ColdKey
      /\ \A k \in ColdKey: persistent'[k] = IF k = key THEN {value} ELSE persistent[k]
      /\ instance' = instance /\ legacySigners' = legacySigners
  BY DEF ColdOK, StoreCold
<1>2. \A k: ColdValue(k)' = ColdValue(k)
  BY DEF ColdValue
<1> QED
  BY <1>1, <1>2 DEF ColdOK

LEMMA MovedTyped == ASSUME ColdOK, MoveColdConfig PROVE ColdOK'
<1>1. /\ \A key \in ColdKey: persistent'[key] =
             IF key = "multisig" /\ MigratedColdEntry(key) = {} THEN legacySigners
             ELSE MigratedColdEntry(key)
      /\ \A key \in ColdKey: instance'[key] = {}
      /\ legacySigners' = {}
      /\ DOMAIN persistent' = ColdKey /\ DOMAIN instance' = ColdKey
  BY DEF MoveColdConfig, NothingStored
<1>2. \A key \in ColdKey: MigratedColdEntry(key) \subseteq ColdValue(key)
  BY DEF ColdOK, MigratedColdEntry
<1> QED
  BY <1>1, <1>2, ColdValues DEF ColdOK

LEMMA ProposalOpened ==
  ASSUME ProposalsOK, NEW a \in Address, OpenProposalRecord(a)
  PROVE  /\ counter' \in 0..MaxProposals /\ records' \in [Proposals -> Proposal]
         /\ counter + 1 \in Nat
<1>1. MaxProposals \in Nat /\ counter + 1 \in Proposals /\ counter' = counter + 1
  BY PlatformAssumption DEF ProposalsOK, OpenProposalRecord, Proposals
<1>2. [subject |-> a, status |-> "Pending", bitmap |-> {}] \in Proposal
  BY DEF Proposal, ProposalStatus
<1> QED
  BY <1>1, <1>2 DEF ProposalsOK, OpenProposalRecord, Proposals

\* A proposal that is consumed, approved or stripped of its approvals remains one.
LEMMA ProposalTyped ==
  ASSUME NEW p \in Proposal
  PROVE  /\ \A status \in ProposalStatus: Consumed(p, status) \in Proposal
         /\ \A bit \in 1..MaxSigners: [p EXCEPT !.bitmap = @ \cup {bit}] \in Proposal
         /\ [p EXCEPT !.bitmap = {}] \in Proposal
  BY DEF Proposal, Consumed

-----------------------------------------------------------------------------
\* Every deployment is typed.
LEMMA TypedInit == ASSUME Init PROVE Typed
<1>1. PeopleOK
  BY PlatformAssumption DEF Init, PeopleOK
<1>2. ProposalsOK
  <2>1. [subject |-> InitAdmin, status |-> "Cancelled", bitmap |-> {}] \in Proposal
    BY PlatformAssumption DEF Proposal, ProposalStatus
  <2>2. \A a \in Address, n \in LegacyIds: [to |-> a, id |-> n] \in Transfer
    BY PlatformAssumption DEF Transfer
  <2>3. pendingTransfer \in SUBSET Transfer
    BY <2>2 DEF Init, FreshDeployment, SecondSchema, FirstSchema
  <2> QED
    BY <2>1, <2>3, PlatformAssumption DEF Init, ProposalsOK
<1>3. ColdOK
  <2>1. AnySetup \subseteq SUBSET MultiSigConfig /\ NoSetup \subseteq SUBSET MultiSigConfig
    BY PlatformAssumption DEF AnySetup, NoSetup
  <2>2. AnyYield \subseteq SUBSET YieldState
    <3>1. \A b \in Shares, l \in BOOLEAN: [client |-> b, locked |-> l] \in YieldState
      BY PlatformAssumption DEF YieldState
    <3>2. ASSUME NEW y \in AnyYield PROVE y \subseteq YieldState
      <4>1. y = {} \/ \E b \in Shares, l \in BOOLEAN: y = {[client |-> b, locked |-> l]}
        BY DEF AnyYield
      <4> QED
        BY <3>1, <4>1
    <3> QED
      BY <3>2
  <2>3. DefaultFee \in FeeAllocation
    BY DEF DefaultFee, FeeAllocation, BpsScale
  <2> DEFINE Holds(f) == DOMAIN f = ColdKey /\ \A key \in ColdKey: f[key] \subseteq ColdValue(key)
  <2>4. Holds(NothingStored)
    BY DEF NothingStored
  <2>5. ASSUME NEW t \in Token
        PROVE  Holds(ConstructorConfig(t)) /\ Holds([NothingStored EXCEPT !["whitelist"] = {{t}}])
    BY <2>3, ColdValues DEF ConstructorConfig, NothingStored
  <2>6. ASSUME NEW t \in Token, NEW m \in AnySetup, NEW y \in AnyYield
        PROVE  Holds(ChangedConfig(t, m, y))
    <3>1. /\ DOMAIN ChangedConfig(t, m, y) = ColdKey
          /\ ChangedConfig(t, m, y)["multisig"] = m
          /\ ChangedConfig(t, m, y)["yield"] = y
          /\ \A key \in {"whitelist", "fee"}: ChangedConfig(t, m, y)[key] = ConstructorConfig(t)[key]
      BY DEF ChangedConfig, ConstructorConfig, NothingStored, ColdKey
    <3> QED
      BY <2>1, <2>2, <2>5, <3>1, ColdValues
  <2> HIDE DEF Holds
  <2>7. Holds(persistent) /\ Holds(instance) /\ legacySigners \subseteq MultiSigConfig
    <3>1. CASE FreshDeployment
      BY <2>4, <2>5, <3>1 DEF FreshDeployment
    <3>2. CASE SecondSchema
      BY <2>4, <2>6, <3>2 DEF SecondSchema
    <3>3. CASE FirstSchema
      <4>1. Holds(instance)
        BY <2>6, <3>3 DEF FirstSchema
      <4>2. Holds(persistent)
        BY <2>4, <2>5, <3>3 DEF FirstSchema
      <4>3. legacySigners \subseteq MultiSigConfig
        BY <2>1, <3>3 DEF FirstSchema
      <4> QED
        BY <4>1, <4>2, <4>3
    <3> QED
      BY <3>1, <3>2, <3>3 DEF Init
  <2> QED
    BY <2>7 DEF ColdOK, Holds
<1>4. ValuesOK
  <2>1. agreed \subseteq Nat
    BY <1>3, ColdGetTyped DEF Init
  <2>2. funded \in BOOLEAN
    <3>1. FreshDeployment => funded \in BOOLEAN
      BY DEF FreshDeployment
    <3>2. SecondSchema => funded \in BOOLEAN
      BY DEF SecondSchema
    <3>3. FirstSchema => funded \in BOOLEAN
      BY DEF FirstSchema
    <3> QED
      BY <3>1, <3>2, <3>3 DEF Init
  <2>3. yieldRate = 0 /\ version = 1 /\ paused = FALSE
    BY DEF Init
  <2> QED
    BY <2>1, <2>2, <2>3 DEF ValuesOK
<1> QED
  BY <1>1, <1>2, <1>3, <1>4 DEF Typed

\* People and proposals: what the root admin, the signers and anyone who executes
\* leave is typed.
LEMMA TypedPeople == ASSUME Typed, RoleNext \/ SuccessionNext PROVE PeopleOK'
<1>1. ASSUME NEW a \in Address, InstallAdmin(a) PROVE PeopleOK'
  BY <1>1 DEF InstallAdmin, Typed, PeopleOK
<1>2. CASE UNCHANGED adminVars
  BY <1>2 DEF adminVars, Typed, PeopleOK
<1>3. ASSUME NEW role \in AdminRole, NEW a \in Address, SetAdminRole(role, a) PROVE PeopleOK'
  BY <1>3 DEF SetAdminRole, Typed, PeopleOK
<1>4. ASSUME ExecuteAdminTransfer PROVE PeopleOK'
  BY <1>1, <1>2, <1>4 DEF ExecuteAdminTransfer, Typed, ProposalsOK, Transfer
<1> QED
  BY <1>1, <1>2, <1>3, <1>4 DEF RoleNext, SuccessionNext, TransferAdmin, ProposeAdminTransfer,
                                CancelAdminTransferProposal

LEMMA TypedProposals == ASSUME Typed, SuccessionNext \/ SignersNext PROVE ProposalsOK'
<1> USE DEF Typed, ProposalsOK
<1>1. CASE UNCHANGED proposalVars
  BY <1>1 DEF proposalVars
<1>2. ASSUME NEW a \in Address, ProposeAdminTransfer(a) PROVE ProposalsOK'
  <2>1. pendingTransfer' \in SUBSET Transfer
    BY <1>2, ProposalOpened DEF ProposeAdminTransfer, Transfer
  <2> QED
    BY <1>2, <2>1, ProposalOpened DEF ProposeAdminTransfer
<1>3. ASSUME NEW c \in Setups, ProposeMultisigConfig(c) PROVE ProposalsOK'
  <2>1. /\ OpenProposalRecord(admin) /\ admin \in Address
        /\ pendingConfig' = {[setup |-> c, id |-> counter + 1]} /\ pendingTransfer' = pendingTransfer
    BY <1>3 DEF ProposeMultisigConfig, PeopleOK
  <2>2. pendingConfig' \in SUBSET Change
    BY <2>1, ProposalOpened, PlatformAssumption DEF Change
  <2> QED
    BY <2>1, <2>2, ProposalOpened
<1>4. ASSUME NEW id, id \in Proposals, NEW status \in ProposalStatus
      PROVE  [records EXCEPT ![id] = Consumed(@, status)] \in [Proposals -> Proposal]
  BY <1>4, ProposalTyped
<1>5. \A id: HasRecord(id) => id \in Proposals
  BY PlatformAssumption DEF HasRecord, Proposals
<1>6. {"Executed", "Cancelled"} \subseteq ProposalStatus
  BY DEF ProposalStatus
<1>7. ASSUME ExecuteAdminTransfer PROVE ProposalsOK'
  BY <1>4, <1>5, <1>6, <1>7 DEF ExecuteAdminTransfer
<1>8. ASSUME CancelAdminTransferProposal PROVE ProposalsOK'
  BY <1>4, <1>5, <1>6, <1>8 DEF CancelAdminTransferProposal
<1>9. ASSUME CancelMultisigConfigProposal PROVE ProposalsOK'
  BY <1>4, <1>5, <1>6, <1>9 DEF CancelMultisigConfigProposal
<1>10. ASSUME NEW signer \in Address, NEW id \in Proposals, MultisigApprove(signer, id)
       PROVE  ProposalsOK'
  <2>1. PICK bit \in 1..MaxSigners: records' = [records EXCEPT ![id].bitmap = @ \cup {bit}]
    BY <1>10 DEF MultisigApprove
  <2>2. [records[id] EXCEPT !.bitmap = @ \cup {bit}] \in Proposal
    BY ProposalTyped
  <2>3. records' \in [Proposals -> Proposal]
    BY <2>1, <2>2
  <2> QED
    BY <1>10, <2>3 DEF MultisigApprove
<1>11. ASSUME ExecuteMultisigConfig PROVE ProposalsOK'
  <2>1. PICK p \in pendingConfig:
            /\ HasRecord(p.id)
            /\ records' = WithoutTransferApprovals([records EXCEPT ![p.id] = Consumed(@, "Executed")])
    BY <1>11 DEF ExecuteMultisigConfig
  <2> DEFINE recs == [records EXCEPT ![p.id] = Consumed(@, "Executed")]
  <2>2. recs \in [Proposals -> Proposal]
    BY <1>4, <1>5, <1>6, <2>1
  <2> HIDE DEF recs
  <2>3. WithoutTransferApprovals(recs) \in [Proposals -> Proposal]
    BY <2>2, ProposalTyped DEF WithoutTransferApprovals
  <2> QED
    BY <1>11, <2>1, <2>3 DEF ExecuteMultisigConfig, recs
<1> QED
  BY <1>1, <1>2, <1>3, <1>7, <1>8, <1>9, <1>10, <1>11
     DEF SuccessionNext, SignersNext, TransferAdmin, MultisigApprovalInit

\* What the FeeManager, the parties and the signers may store.
LEMMA TypedConfig == ASSUME Typed, ConfigNext PROVE ColdOK' /\ ValuesOK'
<1>1. ColdOK /\ ValuesOK
  BY DEF Typed
<1>2. UNCHANGED <<version, funded, paused>>
  BY ConfigFrame DEF layoutVars, jobVars
<1>3. ASSUME NEW key \in ColdKey, NEW value \in ColdValue(key), Configure(key, value),
             agreed' \subseteq Nat
      PROVE  ColdOK' /\ ValuesOK'
  BY <1>1, <1>2, <1>3, StoredTyped DEF Configure, ValuesOK
<1>4. agreed \subseteq Nat /\ ConfiguredShares \subseteq Nat
  BY <1>1, ColdGetTyped DEF ValuesOK
<1>5. {"whitelist", "yield", "fee"} \subseteq ColdKey
  BY ColdValues
<1>6. ASSUME NEW token \in Token, AddWhitelistedToken(token) \/ RemoveWhitelistedToken(token)
      PROVE  ColdOK' /\ ValuesOK'
  <2>1. PICK list \in ColdGet("whitelist"):
            \E value \in {list \cup {token}, list \ {token}}: Configure("whitelist", value)
    BY <1>6 DEF AddWhitelistedToken, RemoveWhitelistedToken
  <2>2. list \in SUBSET Token
    BY <1>1, <1>5, ColdGetTyped, ColdValues
  <2>3. \A value \in {list \cup {token}, list \ {token}}: value \in ColdValue("whitelist")
    BY <2>2, ColdValues
  <2> QED
    BY <1>3, <1>4, <1>5, <1>6, <2>1, <2>3 DEF AddWhitelistedToken, RemoveWhitelistedToken
<1>7. ASSUME NEW bps \in Shares, SetEscrowInterestYield(bps) \/ SetInterestYieldConsent(bps)
      PROVE  ColdOK' /\ ValuesOK'
  <2>1. bps \in Nat /\ Share(bps, FALSE) \in ColdValue("yield")
    BY PlatformAssumption, ColdValues DEF Share, YieldState
  <2>2. agreed' \subseteq Nat
    BY <1>4, <1>7, <2>1 DEF SetEscrowInterestYield, SetInterestYieldConsent
  <2> QED
    BY <1>3, <1>5, <1>7, <2>1, <2>2 DEF SetEscrowInterestYield, SetInterestYieldConsent
<1>8. ASSUME LockEscrowInterestYield \/ UnlockEscrowInterestYield PROVE ColdOK' /\ ValuesOK'
  <2>1. PICK y \in ColdGet("yield"), l \in BOOLEAN: Configure("yield", [y EXCEPT !.locked = l])
    BY <1>8 DEF LockEscrowInterestYield, UnlockEscrowInterestYield
  <2>2. y \in YieldState
    BY <1>1, <1>5, ColdGetTyped, ColdValues
  <2>3. [y EXCEPT !.locked = l] \in ColdValue("yield")
    BY <2>2, ColdValues DEF YieldState
  <2>4. agreed' \subseteq Nat
    BY <1>4, <1>8 DEF LockEscrowInterestYield, UnlockEscrowInterestYield
  <2> QED
    BY <1>3, <1>5, <2>1, <2>3, <2>4
<1>9. ASSUME NEW bps \in Shares, AdminSetYieldRate(bps) PROVE ColdOK' /\ ValuesOK'
  <2>1. bps \in Nat
    BY PlatformAssumption
  <2>2. ValuesOK'
    BY <1>1, <1>2, <1>9, <2>1 DEF AdminSetYieldRate, ValuesOK
  <2>3. ColdOK'
    BY <1>1, <1>9 DEF AdminSetYieldRate, coldVars, ColdOK, ColdValue
  <2> QED
    BY <2>2, <2>3
<1>10. ASSUME NEW f \in FeeAllocations, SetPlatformFeeAllocation(f) \/ PfAllocAdminOverride(f)
       PROVE  ColdOK' /\ ValuesOK'
  <2>1. PICK c \in 0..MaxClientFeeBps, t \in 0..MaxTreasuryFeeBps:
            f = [client |-> c, freelancer |-> BpsScale - c - t, treasury |-> t, locked |-> FALSE]
    BY DEF FeeAllocations
  <2>2. c \in Nat /\ t \in Nat /\ BpsScale - c - t \in Nat
    BY DEF MaxClientFeeBps, MaxTreasuryFeeBps, BpsScale
  <2>3. f \in ColdValue("fee")
    BY <2>1, <2>2, ColdValues DEF FeeAllocation
  <2> QED
    BY <1>3, <1>4, <1>5, <1>10, <2>3 DEF SetPlatformFeeAllocation, PfAllocAdminOverride
<1>11. ASSUME LockPlatformFeeAllocation PROVE ColdOK' /\ ValuesOK'
  <2>1. PICK f \in ColdGet("fee"): Configure("fee", [f EXCEPT !.locked = TRUE])
    BY <1>11 DEF LockPlatformFeeAllocation
  <2>2. f \in FeeAllocation
    BY <1>1, <1>5, ColdGetTyped, ColdValues
  <2>3. [f EXCEPT !.locked = TRUE] \in ColdValue("fee")
    BY <2>2, ColdValues DEF FeeAllocation
  <2> QED
    BY <1>3, <1>4, <1>5, <1>11, <2>1, <2>3 DEF LockPlatformFeeAllocation
<1> QED
  BY <1>6, <1>7, <1>8, <1>9, <1>10, <1>11 DEF ConfigNext

\* Registering and replacing signers.
LEMMA TypedSigners == ASSUME Typed, SignersNext PROVE ColdOK'
<1>1. ColdOK /\ "multisig" \in ColdKey
  BY ColdValues DEF Typed
<1>2. CASE UNCHANGED coldVars
  BY <1>1, <1>2 DEF coldVars, ColdOK, ColdValue
<1>3. ASSUME NEW c \in Setups, MultisigApprovalInit(c) PROVE ColdOK'
  <2>1. c \in ColdValue("multisig")
    BY PlatformAssumption, ColdValues
  <2> QED
    BY <1>1, <1>3, <2>1, StoredTyped DEF MultisigApprovalInit
<1>4. ASSUME ExecuteMultisigConfig PROVE ColdOK'
  <2>1. PICK p \in pendingConfig: persistent' = [persistent EXCEPT !["multisig"] = {p.setup}]
    BY <1>4 DEF ExecuteMultisigConfig
  <2>2. p.setup \in MultiSigConfig
    BY DEF Typed, ProposalsOK, Change
  <2>3. /\ DOMAIN persistent' = ColdKey /\ DOMAIN instance' = ColdKey
        /\ \A key \in ColdKey: persistent'[key] = IF key = "multisig" THEN {p.setup} ELSE persistent[key]
        /\ \A key \in ColdKey: instance'[key] = IF key = "multisig" THEN {} ELSE instance[key]
        /\ legacySigners' = {}
    BY <1>1, <1>4, <2>1 DEF ExecuteMultisigConfig, ColdOK
  <2> QED
    BY <1>1, <2>2, <2>3, ColdValues DEF ColdOK
<1> QED
  BY <1>2, <1>3, <1>4 DEF SignersNext, MultisigApprove, ProposeMultisigConfig,
                          CancelMultisigConfigProposal

\* Upgrading, migrating and the job.
LEMMA TypedUpgrades == ASSUME Typed, UpgradeNext \/ JobNext PROVE ColdOK' /\ ValuesOK'
<1>1. ColdOK /\ ValuesOK
  BY DEF Typed
<1>2. UNCHANGED coldVars \/ MoveColdConfig
  BY UpgradeFrame, JobFrame
<1>3. ColdOK'
  <2>1. CASE UNCHANGED coldVars
    BY <1>1, <2>1 DEF coldVars, ColdOK, ColdValue
  <2> QED
    BY <1>1, <1>2, <2>1, MovedTyped
<1>4. ValuesOK'
  <2>1. CASE UpgradeNext
    BY <1>1, <2>1 DEF UpgradeNext, Upgrade, MigrateColdConfig, Migrate, yieldVars, layoutVars,
                      jobVars, ValuesOK
  <2>2. ConfiguredShares \subseteq Nat
    BY <1>1, ColdGetTyped
  <2>3. CASE JobNext
    BY <1>1, <2>2, <2>3 DEF JobNext, Fund, AddMilestone, AdminPauseEscrow, AdminResumeEscrow,
                            SetPaused, yieldVars, layoutVars, ValuesOK
  <2> QED
    BY <2>1, <2>3
<1> QED
  BY <1>3, <1>4

LEMMA TypedStep == ASSUME Typed, [Next]_vars PROVE Typed'
<1>1. UNCHANGED adminVars => PeopleOK'
  BY DEF Typed, PeopleOK, adminVars
<1>2. UNCHANGED proposalVars => ProposalsOK'
  BY DEF Typed, ProposalsOK, proposalVars
<1>3. UNCHANGED coldVars => ColdOK'
  BY DEF Typed, ColdOK, ColdValue, coldVars
<1>4. UNCHANGED <<yieldVars, layoutVars, jobVars>> => ValuesOK'
  BY DEF Typed, ValuesOK, yieldVars, layoutVars, jobVars
<1>5. CASE RoleNext
  <2>1. UNCHANGED proposalVars
    BY <1>5 DEF RoleNext, SetAdminRole
  <2> QED
    BY <1>2, <1>3, <1>4, <1>5, <2>1, TypedPeople, SuccessionFrame DEF Typed
<1>6. CASE SuccessionNext
  BY <1>3, <1>4, <1>6, TypedPeople, TypedProposals, SuccessionFrame DEF Typed
<1>7. CASE SignersNext
  BY <1>1, <1>4, <1>7, TypedProposals, TypedSigners, SignersFrame DEF Typed
<1>8. CASE ConfigNext
  BY <1>1, <1>2, <1>8, TypedConfig, ConfigFrame DEF Typed
<1>9. CASE UpgradeNext \/ JobNext
  BY <1>1, <1>2, <1>9, TypedUpgrades, UpgradeFrame, JobFrame DEF Typed
<1>10. CASE UNCHANGED vars
  BY <1>1, <1>2, <1>3, <1>4, <1>10 DEF vars, Typed
<1> QED
  BY <1>5, <1>6, <1>7, <1>8, <1>9, <1>10 DEF Next

\* No entry point leaves the state space, from any deployment and at any layout.
THEOREM PlatformTyped == Spec => []TypeOK
<1>1. Spec => []Typed
  BY TypedInit, TypedStep, PTL DEF Spec
<1>2. Spec => []LayoutInv
  BY LayoutInit, LayoutStep, PTL DEF Spec
<1> QED
  BY <1>1, <1>2, TypedIsTypeOK, PTL

-----------------------------------------------------------------------------
(***************************************************************************)
(* Proposals.  Ids that older code let the caller choose lie outside those *)
(* the counter assigns: where they do not, both properties below fail, as  *)
(* PlatformClaims shows for one of them.                                   *)
(***************************************************************************)
IsPending(id) == HasRecord(id) /\ records[id].status = "Pending"
IsNamed(id)   == (\E t \in pendingTransfer: t.id = id) \/ (\E p \in pendingConfig: p.id = id)

\* A pending entry names one proposal, and approvals are on pending ones only.
ProposalInv ==
    /\ Single(pendingTransfer) /\ Single(pendingConfig)
    /\ \A t \in pendingTransfer: HasRecord(t.id) \/ t.id \in LegacyIds
    /\ \A p \in pendingConfig: HasRecord(p.id)
    /\ \A t \in pendingTransfer, p \in pendingConfig: t.id # p.id
    /\ \A id \in Proposals: HasRecord(id) => (IsPending(id) <=> IsNamed(id))
    /\ \A id \in Proposals: HasRecord(id) /\ ~IsPending(id) => records[id].bitmap = {}

LEMMA ProposalInvReferenced == ProposalInv => PendingIsReferenced
  BY DEF ProposalInv, PendingIsReferenced, IsPending, IsNamed

LEMMA ProposalInvInit == ASSUME Init PROVE ProposalInv
<1>1. counter = 0 /\ pendingConfig = {}
  BY DEF Init
<1>2. \/ pendingTransfer = {}
      \/ \E a \in Address, n \in LegacyIds: pendingTransfer = {[to |-> a, id |-> n]}
  BY DEF Init, FreshDeployment, SecondSchema, FirstSchema
<1>3. \A id: ~HasRecord(id)
  BY <1>1 DEF HasRecord
<1> QED
  BY <1>1, <1>2, <1>3 DEF ProposalInv, Single

LEMMA ProposalInvUnchanged == ASSUME ProposalInv, UNCHANGED proposalVars PROVE ProposalInv'
  BY DEF ProposalInv, proposalVars, IsPending, IsNamed, HasRecord

\* Records are numbered by the counter.
LEMMA RecordsAreProposals ==
  ASSUME Typed
  PROVE  \A id: HasRecord(id) => id \in Proposals
  BY PlatformAssumption DEF Typed, ProposalsOK, HasRecord, Proposals

\* What opening a proposal does to the others: nothing.
LEMMA Opened ==
  ASSUME Typed, NEW a, OpenProposalRecord(a)
  PROVE  /\ counter + 1 \in Proposals /\ ~HasRecord(counter + 1)
         /\ \A id: HasRecord(id)' <=> HasRecord(id) \/ id = counter + 1
         /\ records'[counter + 1].status = "Pending"
         /\ \A id \in Proposals: HasRecord(id) => records'[id] = records[id]
<1>1. /\ counter \in Nat /\ MaxProposals \in Nat /\ counter < MaxProposals
      /\ counter' = counter + 1
      /\ records' = [records EXCEPT ![counter + 1] =
                       [subject |-> a, status |-> "Pending", bitmap |-> {}]]
      /\ records \in [Proposals -> Proposal]
  BY PlatformAssumption DEF Typed, ProposalsOK, OpenProposalRecord
<1>2. counter + 1 \in Proposals
  BY <1>1 DEF Proposals
<1>3. \A id \in Proposals: records'[id] =
         IF id = counter + 1 THEN [subject |-> a, status |-> "Pending", bitmap |-> {}] ELSE records[id]
  BY <1>1, <1>2
<1> QED
  BY <1>1, <1>2, <1>3 DEF HasRecord

\* Consuming a proposal closes it and leaves the others.
LEMMA ConsumedOne ==
  ASSUME Typed, NEW id, HasRecord(id), NEW status \in {"Executed", "Cancelled"}
  PROVE  LET recs == [records EXCEPT ![id] = Consumed(@, status)]
         IN  /\ recs[id].status = status /\ recs[id].bitmap = {}
             /\ \A j \in Proposals \ {id}: recs[j] = records[j]
<1>1. id \in Proposals /\ records \in [Proposals -> Proposal]
  BY RecordsAreProposals DEF Typed, ProposalsOK
<1>2. records[id] \in Proposal
  BY <1>1
<1>3. Consumed(records[id], status).status = status /\ Consumed(records[id], status).bitmap = {}
  BY <1>2 DEF Consumed, Proposal
<1> QED
  BY <1>1, <1>3

\* After a pending entry is executed or withdrawn, its proposal is closed and no longer
\* named, and every other proposal is as pending and as named as before.
LEMMA ClosedAndUnnamed ==
  ASSUME Typed, ProposalInv, counter' = counter,
         NEW id,
         \/ pendingTransfer' = {} /\ pendingConfig' = pendingConfig /\ \E t \in pendingTransfer: t.id = id
         \/ pendingConfig' = {} /\ pendingTransfer' = pendingTransfer /\ \E p \in pendingConfig: p.id = id,
         HasRecord(id) => records'[id].status # "Pending" /\ records'[id].bitmap = {},
         \A j \in Proposals \ {id}: HasRecord(j) =>
             /\ records'[j].status = records[j].status
             /\ records'[j] = records[j] \/ records'[j].bitmap = {}
  PROVE  ProposalInv'
<1>1. \A j: HasRecord(j)' <=> HasRecord(j)
  BY DEF HasRecord
<1>2. /\ \A t, u \in pendingTransfer: t = u
      /\ \A p, q \in pendingConfig: p = q
      /\ \A t \in pendingTransfer, p \in pendingConfig: t.id # p.id
  BY DEF ProposalInv, Single
<1>3. ~IsNamed(id)' /\ \A j: j # id => (IsNamed(j)' <=> IsNamed(j))
  BY <1>2 DEF IsNamed
<1>4. \A j \in Proposals: HasRecord(j) =>
         IF j = id THEN ~IsPending(j)' ELSE IsPending(j)' <=> IsPending(j)
  BY <1>1 DEF IsPending
<1>5. Single(pendingTransfer)' /\ Single(pendingConfig)'
  BY DEF ProposalInv, Single
<1>6. \A j \in Proposals: HasRecord(j)' => (IsPending(j)' <=> IsNamed(j)')
  BY <1>1, <1>3, <1>4 DEF ProposalInv
<1>7. ASSUME NEW j \in Proposals, HasRecord(j)', ~IsPending(j)' PROVE records'[j].bitmap = {}
  BY <1>1, <1>4, <1>7 DEF ProposalInv
<1>8. Proposals' = Proposals
  BY DEF Proposals
<1> QED
  BY <1>1, <1>5, <1>6, <1>7, <1>8 DEF ProposalInv

\* The id that the counter assigns next is not that of a pending entry.
LEMMA NextIdIsNew ==
  ASSUME Typed, ProposalInv, LegacyIds \cap Proposals = {}, NEW a, OpenProposalRecord(a)
  PROVE  ~IsNamed(counter + 1)
  BY Opened DEF ProposalInv, IsNamed

\* Where a new proposal is named by one new entry, nothing else changes.
LEMMA OpenedAndNamed ==
  ASSUME Typed, ProposalInv, LegacyIds \cap Proposals = {}, NEW a, OpenProposalRecord(a),
         NEW x, x.id = counter + 1,
         \/ pendingTransfer = {} /\ pendingTransfer' = {x} /\ pendingConfig' = pendingConfig
         \/ pendingConfig = {} /\ pendingConfig' = {x} /\ pendingTransfer' = pendingTransfer
  PROVE  ProposalInv'
<1>0. /\ x.id \in Proposals /\ ~HasRecord(x.id) /\ records'[x.id].status = "Pending"
      /\ \A id: HasRecord(id)' <=> HasRecord(id) \/ id = x.id
      /\ \A id \in Proposals: HasRecord(id) => records'[id] = records[id]
  BY Opened
<1>1. ~IsNamed(x.id)
  BY NextIdIsNew
<1>2. \A id: IsNamed(id)' <=> IsNamed(id) \/ id = x.id
  BY DEF IsNamed
<1>3. \A id \in Proposals: HasRecord(id) => (IsPending(id)' <=> IsPending(id))
  BY <1>0 DEF IsPending
<1>4. IsPending(x.id)'
  BY <1>0 DEF IsPending
<1>5. Single(pendingTransfer)' /\ Single(pendingConfig)'
  BY DEF ProposalInv, Single
<1>6. /\ \A t \in pendingTransfer': HasRecord(t.id)' \/ t.id \in LegacyIds
      /\ \A p \in pendingConfig': HasRecord(p.id)'
  BY <1>0 DEF ProposalInv
<1>7. \A t \in pendingTransfer', p \in pendingConfig': t.id # p.id
  BY <1>1 DEF ProposalInv, IsNamed
<1>8. ASSUME NEW id \in Proposals, HasRecord(id)' PROVE IsPending(id)' <=> IsNamed(id)'
  BY <1>2, <1>3, <1>4, <1>8, <1>0 DEF ProposalInv
<1>9. ASSUME NEW id \in Proposals, HasRecord(id)', ~IsPending(id)' PROVE records'[id].bitmap = {}
  BY <1>3, <1>4, <1>9, <1>0 DEF ProposalInv
<1>10. Proposals' = Proposals
  BY DEF Proposals
<1> QED
  BY <1>5, <1>6, <1>7, <1>8, <1>9, <1>10 DEF ProposalInv

\* An approval goes to a pending proposal and changes nothing but its bits.
LEMMA ApprovedOne ==
  ASSUME Typed, NEW signer \in Address, NEW id \in Proposals, MultisigApprove(signer, id)
  PROVE  /\ IsPending(id) /\ records'[id].status = records[id].status
         /\ \A j \in Proposals \ {id}: records'[j] = records[j]
         /\ UNCHANGED <<counter, pendingTransfer, pendingConfig>>
<1>1. records \in [Proposals -> Proposal]
  BY DEF Typed, ProposalsOK
<1>2. PICK bit \in 1..MaxSigners: records' = [records EXCEPT ![id].bitmap = @ \cup {bit}]
  BY DEF MultisigApprove
<1>3. records'[id] = [records[id] EXCEPT !.bitmap = @ \cup {bit}]
  BY <1>1, <1>2
<1>4. records[id] \in Proposal
  BY <1>1
<1>5. records'[id].status = records[id].status
  BY <1>3, <1>4 DEF Proposal
<1> QED
  BY <1>1, <1>2, <1>5 DEF MultisigApprove, MayApprove, IsPending

LEMMA ApprovalKeepsProposals ==
  ASSUME Typed, ProposalInv, NEW signer \in Address, NEW id \in Proposals, MultisigApprove(signer, id)
  PROVE  ProposalInv'
<1>1. \A j: HasRecord(j)' <=> HasRecord(j)
  BY ApprovedOne DEF HasRecord
<1>2. \A j \in Proposals: IsPending(j)' <=> IsPending(j)
  BY <1>1, ApprovedOne DEF IsPending
<1>3. \A j: IsNamed(j)' <=> IsNamed(j)
  BY ApprovedOne DEF IsNamed
<1>4. Proposals' = Proposals
  BY DEF Proposals
<1>5. \A j \in Proposals: HasRecord(j) /\ ~IsPending(j) => records'[j].bitmap = {}
  BY ApprovedOne DEF ProposalInv
<1> QED
  BY <1>1, <1>2, <1>3, <1>4, <1>5, ApprovedOne DEF ProposalInv, Single

\* Executing a signer change closes its proposal and takes the approvals, but not the
\* standing, of the pending transfer's.
LEMMA SignersReplaced ==
  ASSUME Typed, ProposalInv, ExecuteMultisigConfig
  PROVE  \E p \in pendingConfig:
            /\ IsPending(p.id) /\ records'[p.id].status = "Executed" /\ records'[p.id].bitmap = {}
            /\ \A j \in Proposals \ {p.id}: HasRecord(j) =>
                  /\ records'[j].status = records[j].status
                  /\ records'[j] = records[j] \/ (records'[j].bitmap = {} /\ IsPending(j))
            /\ \A j \in Proposals: HasRecord(j) => records'[j].bitmap = {}
            /\ UNCHANGED <<counter, pendingTransfer>> /\ pendingConfig' = {}
<1>1. PICK p \in pendingConfig:
          /\ HasRecord(p.id) /\ records[p.id].status = "Pending"
          /\ records' = WithoutTransferApprovals([records EXCEPT ![p.id] = Consumed(@, "Executed")])
  BY DEF ExecuteMultisigConfig
<1> DEFINE recs == [records EXCEPT ![p.id] = Consumed(@, "Executed")]
<1>2. /\ recs[p.id].status = "Executed" /\ recs[p.id].bitmap = {}
      /\ \A j \in Proposals \ {p.id}: recs[j] = records[j]
  BY <1>1, ConsumedOne
<1>3. p.id \in Proposals /\ recs \in [Proposals -> Proposal]
  <2>1. p.id \in Proposals
    BY <1>1, RecordsAreProposals
  <2>2. records \in [Proposals -> Proposal] /\ "Executed" \in ProposalStatus
    BY DEF Typed, ProposalsOK, ProposalStatus
  <2> QED
    BY <2>1, <2>2, ProposalTyped
<1> HIDE DEF recs
<1>4. \A j \in Proposals: records'[j] =
          IF HasRecord(j) /\ \E t \in pendingTransfer: t.id = j
          THEN [recs[j] EXCEPT !.bitmap = {}] ELSE recs[j]
  BY <1>1 DEF WithoutTransferApprovals, recs
<1>5. \A j \in Proposals: /\ [recs[j] EXCEPT !.bitmap = {}].status = recs[j].status
                          /\ [recs[j] EXCEPT !.bitmap = {}].bitmap = {}
  BY <1>3 DEF Proposal
<1>6. ~\E t \in pendingTransfer: t.id = p.id
  BY DEF ProposalInv
<1>7. ASSUME NEW j \in Proposals \ {p.id}, HasRecord(j)
      PROVE  /\ records'[j].status = records[j].status
             /\ records'[j] = records[j] \/ (records'[j].bitmap = {} /\ IsPending(j))
  BY <1>2, <1>4, <1>5, <1>7 DEF ProposalInv, IsNamed
<1>8. UNCHANGED <<counter, pendingTransfer>> /\ pendingConfig' = {}
  BY DEF ExecuteMultisigConfig
<1>9. ASSUME NEW j \in Proposals \ {p.id}, HasRecord(j) PROVE records'[j].bitmap = {}
  <2>1. CASE ~IsPending(j)
    BY <1>7, <1>9, <2>1 DEF ProposalInv
  <2>2. CASE IsPending(j)
    <3>1. \E t \in pendingTransfer: t.id = j
      BY <1>9, <2>2 DEF ProposalInv, IsNamed, Single
    <3> QED
      BY <1>4, <1>5, <1>9, <3>1
  <2> QED
    BY <2>1, <2>2
<1>10. \A j \in Proposals: HasRecord(j) => records'[j].bitmap = {}
  BY <1>2, <1>3, <1>4, <1>6, <1>9
<1>11. /\ IsPending(p.id)
       /\ records'[p.id].status = "Executed" /\ records'[p.id].bitmap = {}
  BY <1>1, <1>2, <1>3, <1>4, <1>6 DEF IsPending
<1> QED
  BY <1>7, <1>8, <1>10, <1>11

LEMMA ProposalInvStep ==
  ASSUME Typed, ProposalInv, LegacyIds \cap Proposals = {}, [Next]_vars
  PROVE  ProposalInv'
<1>1. CASE UNCHANGED proposalVars
  BY <1>1, ProposalInvUnchanged
<1>2. ASSUME NEW a \in Address, ProposeAdminTransfer(a) PROVE ProposalInv'
  <2>1. [to |-> a, id |-> counter + 1].id = counter + 1
    OBVIOUS
  <2> QED
    BY <1>2, <2>1, OpenedAndNamed DEF ProposeAdminTransfer
<1>3. ASSUME NEW c \in Setups, ProposeMultisigConfig(c) PROVE ProposalInv'
  <2>1. [setup |-> c, id |-> counter + 1].id = counter + 1
    OBVIOUS
  <2> QED
    BY <1>3, <2>1, OpenedAndNamed DEF ProposeMultisigConfig
<1>4. ASSUME NEW signer \in Address, NEW id \in Proposals, MultisigApprove(signer, id)
      PROVE  ProposalInv'
  BY <1>4, ApprovalKeepsProposals
<1>5. ASSUME ExecuteAdminTransfer PROVE ProposalInv'
  <2>1. PICK t \in pendingTransfer:
            HasRecord(t.id) /\ records' = [records EXCEPT ![t.id] = Consumed(@, "Executed")]
    BY <1>5 DEF ExecuteAdminTransfer
  <2>2. UNCHANGED <<counter, pendingConfig>> /\ pendingTransfer' = {}
    BY <1>5 DEF ExecuteAdminTransfer
  <2> QED
    BY <2>1, <2>2, ConsumedOne, ClosedAndUnnamed
<1>6. ASSUME CancelAdminTransferProposal PROVE ProposalInv'
  <2>1. PICK t \in pendingTransfer:
            records' = IF HasRecord(t.id)
                       THEN [records EXCEPT ![t.id] = Consumed(@, "Cancelled")] ELSE records
    BY <1>6 DEF CancelAdminTransferProposal
  <2>2. UNCHANGED <<counter, pendingConfig>> /\ pendingTransfer' = {}
    BY <1>6 DEF CancelAdminTransferProposal
  <2> QED
    BY <2>1, <2>2, ConsumedOne, ClosedAndUnnamed
<1>7. ASSUME CancelMultisigConfigProposal PROVE ProposalInv'
  <2>1. PICK p \in pendingConfig:
            records' = IF HasRecord(p.id)
                       THEN [records EXCEPT ![p.id] = Consumed(@, "Cancelled")] ELSE records
    BY <1>7 DEF CancelMultisigConfigProposal
  <2>2. UNCHANGED <<counter, pendingTransfer>> /\ pendingConfig' = {}
    BY <1>7 DEF CancelMultisigConfigProposal
  <2> QED
    BY <2>1, <2>2, ConsumedOne, ClosedAndUnnamed
<1>8. ASSUME ExecuteMultisigConfig PROVE ProposalInv'
  <2>1. PICK p \in pendingConfig:
            /\ IsPending(p.id) /\ records'[p.id].status = "Executed" /\ records'[p.id].bitmap = {}
            /\ \A j \in Proposals \ {p.id}: HasRecord(j) =>
                  /\ records'[j].status = records[j].status
                  /\ records'[j] = records[j] \/ (records'[j].bitmap = {} /\ IsPending(j))
            /\ UNCHANGED <<counter, pendingTransfer>> /\ pendingConfig' = {}
    BY <1>8, SignersReplaced
  <2> QED
    BY <2>1, ClosedAndUnnamed
<1>9. CASE SuccessionNext
  BY <1>1, <1>2, <1>5, <1>6, <1>9 DEF SuccessionNext, TransferAdmin
<1>10. CASE SignersNext
  BY <1>1, <1>3, <1>4, <1>7, <1>8, <1>10 DEF SignersNext, MultisigApprovalInit
<1>11. CASE RoleNext \/ ConfigNext \/ UpgradeNext \/ JobNext \/ UNCHANGED vars
  BY <1>1, <1>11, ConfigFrame, UpgradeFrame, JobFrame DEF RoleNext, SetAdminRole, vars
<1> QED
  BY <1>9, <1>10, <1>11 DEF Next

\* For any number of proposals and signers: pending proposals are those that a pending
\* transfer or signer change names, one each.
THEOREM PendingAreReferenced ==
  ASSUME LegacyIds \cap Proposals = {}
  PROVE  Spec => []PendingIsReferenced
<1>1. Typed /\ ProposalInv /\ [Next]_vars => Typed' /\ ProposalInv'
  BY TypedStep, ProposalInvStep
<1>2. Init => Typed /\ ProposalInv
  BY TypedInit, ProposalInvInit
<1>3. Spec => [](Typed /\ ProposalInv)
  BY <1>1, <1>2, PTL DEF Spec
<1> QED
  BY <1>3, ProposalInvReferenced, PTL

\* Every entry point writes to pending proposals and to new ones only.
LEMMA SpentUntouched ==
  ASSUME Typed, ProposalInv, Next, NEW id \in Proposals, HasRecord(id), ~IsPending(id)
  PROVE  records'[id] = records[id]
<1>1. \A t \in pendingTransfer: HasRecord(t.id) => t.id # id
  BY DEF ProposalInv, IsNamed
<1>2. \A p \in pendingConfig: p.id # id
  BY DEF ProposalInv, IsNamed
<1>3. CASE UNCHANGED proposalVars
  BY <1>3 DEF proposalVars
<1>4. ASSUME NEW a, OpenProposalRecord(a) PROVE records'[id] = records[id]
  BY <1>4, Opened
<1>5. ASSUME NEW n, HasRecord(n), n # id, NEW status \in {"Executed", "Cancelled"}
      PROVE  [records EXCEPT ![n] = Consumed(@, status)][id] = records[id]
  BY <1>5, ConsumedOne
<1>6. CASE SuccessionNext
  BY <1>1, <1>3, <1>4, <1>5, <1>6 DEF SuccessionNext, TransferAdmin, ProposeAdminTransfer,
                                      ExecuteAdminTransfer, CancelAdminTransferProposal
<1>7. ASSUME NEW signer \in Address, NEW n \in Proposals, MultisigApprove(signer, n)
      PROVE  records'[id] = records[id]
  BY <1>7, ApprovedOne
<1>8. ASSUME ExecuteMultisigConfig PROVE records'[id] = records[id]
  BY <1>2, <1>8, SignersReplaced
<1>9. ASSUME CancelMultisigConfigProposal PROVE records'[id] = records[id]
  BY <1>2, <1>5, <1>9 DEF CancelMultisigConfigProposal
<1>10. CASE SignersNext
  BY <1>3, <1>4, <1>7, <1>8, <1>9, <1>10 DEF SignersNext, MultisigApprovalInit, ProposeMultisigConfig
<1>11. CASE RoleNext \/ ConfigNext \/ UpgradeNext \/ JobNext
  BY <1>3, <1>11, ConfigFrame, UpgradeFrame, JobFrame DEF RoleNext, SetAdminRole
<1> QED
  BY <1>6, <1>10, <1>11 DEF Next

\* For any number of proposals and signers: an approval of a spent proposal counts for
\* nothing, ever.
THEOREM SpentForGood ==
  ASSUME LegacyIds \cap Proposals = {}
  PROVE  Spec => SpentProposalsStaySpent
<1> DEFINE Kept == \A id \in Proposals: HasRecord(id) /\ records[id].status # "Pending"
                      => records'[id] = records[id] /\ records'[id].bitmap = {}
<1>1. Typed /\ ProposalInv /\ [Next]_vars => Typed' /\ ProposalInv'
  BY TypedStep, ProposalInvStep
<1>2. Init => Typed /\ ProposalInv
  BY TypedInit, ProposalInvInit
<1>3. Typed /\ ProposalInv /\ [Next]_vars => [Kept]_vars
  BY SpentUntouched DEF ProposalInv, IsPending
<1> QED
  BY <1>1, <1>2, <1>3, PTL DEF Spec, SpentProposalsStaySpent
-----------------------------------------------------------------------------
(***************************************************************************)
(* Succession.  Nobody becomes admin or signer, and no signer is replaced, *)
(* without a quorum of the signers of that moment.                         *)
(***************************************************************************)

-----------------------------------------------------------------------------
(***************************************************************************)
(* Bits and people.                                                        *)
(***************************************************************************)
\* The signers of a valid set are distinct: places and people are equally many.
LEMMA SeatsCount ==
  ASSUME NEW c \in MultiSigConfig, ValidSetup(c), NEW P \in SUBSET DOMAIN c.signers
  PROVE  /\ Cardinality(Seats(c, P)) = Cardinality(P)
         /\ Cardinality(P) \in Nat
<1>1. DOMAIN c.signers = 1..Len(c.signers) /\ Len(c.signers) \in Nat
  BY DEF MultiSigConfig
<1>2. IsFiniteSet(P) /\ Cardinality(P) \in Nat
  <2>1. IsFiniteSet(1..Len(c.signers))
    BY <1>1, FS_Interval
  <2>2. IsFiniteSet(P)
    BY <1>1, <2>1, FS_Subset
  <2> QED
    BY <2>2, FS_CardinalityType
<1>3. ExistsBijection(P, Seats(c, P))
  <2> DEFINE f == [k \in P |-> c.signers[k]]
  <2>1. f \in [P -> Seats(c, P)]
    BY DEF Seats
  <2>2. \A i, j \in P: f[i] = f[j] => i = j
    BY DEF ValidSetup
  <2>3. \A a \in Seats(c, P): \E k \in P: f[k] = a
    BY DEF Seats
  <2> QED
    BY <2>1, <2>2, <2>3 DEF ExistsBijection, Bijection, Injection, Surjection, IsInjective
<1> QED
  BY <1>2, <1>3, FS_Bijection

\* Succession counts as this module does.
LEMMA SameCount == ASSUME NEW S PROVE Heirs!Cardinality(S) = Cardinality(S)
  BY DEF Heirs!Cardinality, Cardinality

\* A valid set is one that may sit in the council.
LEMMA ValidSetupSeated ==
  ASSUME NEW c \in MultiSigConfig, ValidSetup(c)
  PROVE  /\ Heirs!Seated(Signers(c), c.threshold)
         /\ c.threshold \in 0..Cardinality(Address)
<1>1. /\ DOMAIN c.signers = 1..Len(c.signers) /\ Len(c.signers) \in Nat
      /\ c.signers \in [1..Len(c.signers) -> Address]
      /\ Len(c.signers) >= 1 /\ c.threshold \in 1..Len(c.signers)
  BY PlatformAssumption DEF MultiSigConfig, ValidSetup
<1>2. Signers(c) \subseteq Address /\ c.signers[1] \in Signers(c)
  BY <1>1 DEF Signers, Seats
<1>3. Cardinality(Signers(c)) = Len(c.signers)
  BY <1>1, SeatsCount, FS_Interval DEF Signers
<1>4. Cardinality(Signers(c)) <= Cardinality(Address) /\ Cardinality(Address) \in Nat
  BY <1>2, PlatformAssumption, FS_Subset, FS_CardinalityType
<1> QED
  BY <1>1, <1>2, <1>3, <1>4, SameCount DEF Heirs!Seated

\* The one value of an entry.
LEMMA OnlyValue ==
  ASSUME NEW option, Single(option), NEW v \in option
  PROVE  Only(option) = v
  BY DEF Only, Single

-----------------------------------------------------------------------------
(***************************************************************************)
(* What the mapping rests on.                                              *)
(***************************************************************************)
\* Wherever signers are stored or proposed they are one valid set.
SetupInv ==
    /\ Single(persistent["multisig"]) /\ Single(instance["multisig"]) /\ Single(legacySigners)
    /\ \A c \in persistent["multisig"] \cup instance["multisig"] \cup legacySigners: ValidSetup(c)
    /\ \A p \in pendingConfig: ValidSetup(p.setup)

\* A bit names a signer of the present, or the same quorum could be reached by nobody.
BitsInv ==
    \A id \in Proposals: HasRecord(id) =>
        /\ LoadMultisigConfig = {} => records[id].bitmap = {}
        /\ \A c \in LoadMultisigConfig: records[id].bitmap \subseteq DOMAIN c.signers

LEMMA ConfigIsValid ==
  ASSUME Typed, SetupInv
  PROVE  /\ Single(LoadMultisigConfig)
         /\ \A c \in LoadMultisigConfig: c \in MultiSigConfig /\ ValidSetup(c)
<1>1. LoadMultisigConfig \subseteq MultiSigConfig
  BY ColdGetTyped DEF Typed
<1> QED
  BY <1>1 DEF SetupInv, LoadMultisigConfig, ColdGet

LEMMA SetupInit == ASSUME Init PROVE SetupInv
<1>1. \A m \in AnySetup: Single(m) /\ \A c \in m: ValidSetup(c)
  BY DEF AnySetup, NoSetup, Single
<1>2. NoSetup \subseteq AnySetup /\ {} \in AnySetup /\ Single({})
  BY DEF AnySetup, NoSetup, Single
<1>3. /\ NothingStored["multisig"] = {}
      /\ \A t \in Token: /\ ConstructorConfig(t)["multisig"] = {}
                         /\ [NothingStored EXCEPT !["whitelist"] = {{t}}]["multisig"] = {}
      /\ \A t \in Token: \A m, y: ChangedConfig(t, m, y)["multisig"] = m
  BY DEF NothingStored, ConstructorConfig, ChangedConfig, ColdKey
<1>4. /\ persistent["multisig"] \in AnySetup /\ instance["multisig"] \in AnySetup
      /\ legacySigners \in AnySetup
  <2>1. CASE FreshDeployment
    BY <1>2, <1>3, <2>1 DEF FreshDeployment
  <2>2. CASE SecondSchema
    <3>1. PICK t \in Token, m \in AnySetup, y \in AnyYield: persistent = ChangedConfig(t, m, y)
      BY <2>2 DEF SecondSchema
    <3>2. persistent["multisig"] = m
      BY <1>3, <3>1
    <3>3. instance = NothingStored /\ legacySigners = {}
      BY <2>2 DEF SecondSchema
    <3> QED
      BY <1>2, <1>3, <3>2, <3>3
  <2>3. CASE FirstSchema
    <3>1. instance["multisig"] \in AnySetup
      BY <1>3, <2>3 DEF FirstSchema
    <3>2. persistent["multisig"] \in AnySetup
      <4>1. PICK t \in Token:
                persistent \in {NothingStored, [NothingStored EXCEPT !["whitelist"] = {{t}}]}
        BY <2>3 DEF FirstSchema
      <4>2. persistent["multisig"] = {}
        BY <1>3, <4>1
      <4> QED
        BY <1>2, <4>2
    <3>3. legacySigners \in AnySetup
      BY <1>2, <2>3 DEF FirstSchema
    <3> QED
      BY <3>1, <3>2, <3>3
  <2> QED
    BY <2>1, <2>2, <2>3 DEF Init
<1>5. pendingConfig = {}
  BY DEF Init
<1> QED
  BY <1>1, <1>4, <1>5 DEF SetupInv

LEMMA BitsInit == ASSUME Init PROVE BitsInv
<1>1. \A id: ~HasRecord(id)
  BY DEF Init, HasRecord
<1> QED
  BY <1>1 DEF BitsInv

LEMMA SetupUnchanged ==
  ASSUME SetupInv, UNCHANGED pendingConfig,
         persistent'["multisig"] = persistent["multisig"],
         instance'["multisig"] = instance["multisig"], legacySigners' = legacySigners
  PROVE  SetupInv'
  BY DEF SetupInv, ValidSetup

LEMMA ConfigUnchanged ==
  ASSUME persistent'["multisig"] = persistent["multisig"],
         instance'["multisig"] = instance["multisig"], legacySigners' = legacySigners
  PROVE  LoadMultisigConfig' = LoadMultisigConfig
  BY DEF LoadMultisigConfig, ColdGet

\* The FeeManager and the parties store other entries.
LEMMA ConfigStepKeepsSigners ==
  ASSUME Typed, ConfigNext
  PROVE  /\ persistent'["multisig"] = persistent["multisig"]
         /\ instance'["multisig"] = instance["multisig"] /\ legacySigners' = legacySigners
<1>1. ASSUME NEW key, key # "multisig", NEW value, Configure(key, value)
      PROVE  persistent'["multisig"] = persistent["multisig"]
  <2>1. persistent' = [persistent EXCEPT ![key] = {value}]
    BY <1>1 DEF Configure, StoreCold
  <2>2. "multisig" \in DOMAIN persistent
    BY ColdValues DEF Typed, ColdOK
  <2> QED
    BY <1>1, <2>1, <2>2
<1>2. persistent'["multisig"] = persistent["multisig"]
  BY <1>1 DEF ConfigNext, AddWhitelistedToken, RemoveWhitelistedToken, SetEscrowInterestYield,
              SetInterestYieldConsent, LockEscrowInterestYield, UnlockEscrowInterestYield,
              AdminSetYieldRate, SetPlatformFeeAllocation, LockPlatformFeeAllocation,
              PfAllocAdminOverride, coldVars
<1> QED
  BY <1>2, ConfigFrame

\* Moving the configuration moves one valid set or none.
LEMMA MoveKeepsSetups == ASSUME Typed, SetupInv, MoveColdConfig, UNCHANGED pendingConfig PROVE SetupInv'
<1>1. "multisig" \in ColdKey
  BY ColdValues
<1>2. /\ persistent'["multisig"] \in {persistent["multisig"], instance["multisig"], legacySigners}
      /\ instance'["multisig"] = {} /\ legacySigners' = {}
  BY <1>1 DEF MoveColdConfig, MigratedColdEntry, NothingStored
<1> QED
  BY <1>2 DEF SetupInv, Single, ValidSetup

\* The first signers, and every later set, were validated when they were proposed.
LEMMA SignersKeepSetups == ASSUME Typed, SetupInv, SignersNext PROVE SetupInv'
<1>1. "multisig" \in DOMAIN persistent /\ "multisig" \in DOMAIN instance
  BY ColdValues DEF Typed, ColdOK
<1>2. CASE UNCHANGED <<coldVars, pendingConfig>>
  BY <1>2, SetupUnchanged DEF coldVars
<1>3. ASSUME NEW c \in Setups, MultisigApprovalInit(c) PROVE SetupInv'
  <2>1. /\ persistent'["multisig"] = {c} /\ ValidSetup(c)
        /\ UNCHANGED <<instance, legacySigners, pendingConfig>>
    BY <1>1, <1>3 DEF MultisigApprovalInit, StoreCold, proposalVars
  <2> QED
    BY <2>1 DEF SetupInv, Single, ValidSetup
<1>4. ASSUME NEW c \in Setups, ProposeMultisigConfig(c) PROVE SetupInv'
  <2>1. /\ pendingConfig' = {[setup |-> c, id |-> counter + 1]} /\ ValidSetup(c)
        /\ UNCHANGED coldVars
    BY <1>4 DEF ProposeMultisigConfig
  <2> QED
    BY <2>1 DEF SetupInv, ValidSetup, coldVars
<1>5. ASSUME ExecuteMultisigConfig PROVE SetupInv'
  <2>1. PICK p \in pendingConfig: persistent' = [persistent EXCEPT !["multisig"] = {p.setup}]
    BY <1>5 DEF ExecuteMultisigConfig
  <2>2. /\ persistent'["multisig"] = {p.setup} /\ instance'["multisig"] = {}
        /\ legacySigners' = {} /\ pendingConfig' = {}
    BY <1>1, <1>5, <2>1 DEF ExecuteMultisigConfig
  <2> QED
    BY <2>2 DEF SetupInv, Single, ValidSetup
<1>6. ASSUME CancelMultisigConfigProposal PROVE SetupInv'
  BY <1>6 DEF CancelMultisigConfigProposal, SetupInv, ValidSetup, coldVars
<1> QED
  BY <1>2, <1>3, <1>4, <1>5, <1>6 DEF SignersNext, MultisigApprove

LEMMA SetupStep == ASSUME Typed, SetupInv, [Next]_vars PROVE SetupInv'
<1>1. CASE RoleNext \/ SuccessionNext
  BY <1>1, SuccessionFrame, SetupUnchanged DEF coldVars
<1>2. CASE SignersNext
  BY <1>2, SignersKeepSetups
<1>3. CASE ConfigNext
  BY <1>3, ConfigFrame, ConfigStepKeepsSigners, SetupUnchanged DEF proposalVars
<1>4. CASE UpgradeNext \/ JobNext
  <2>1. UNCHANGED pendingConfig /\ (UNCHANGED coldVars \/ MoveColdConfig)
    BY <1>4, UpgradeFrame, JobFrame DEF proposalVars
  <2> QED
    BY <2>1, SetupUnchanged, MoveKeepsSetups DEF coldVars
<1>5. CASE UNCHANGED vars
  BY <1>5, SetupUnchanged DEF vars, coldVars, proposalVars
<1> QED
  BY <1>1, <1>2, <1>3, <1>4, <1>5 DEF Next

-----------------------------------------------------------------------------
\* Bits change when a signer approves, and are gone when the signers change.
LEMMA BitsKept ==
  ASSUME BitsInv, counter' = counter, LoadMultisigConfig' = LoadMultisigConfig,
         \A id \in Proposals: HasRecord(id) =>
             records'[id] = records[id] \/ records'[id].bitmap = {}
  PROVE  BitsInv'
<1>1. Proposals' = Proposals /\ \A id: HasRecord(id)' <=> HasRecord(id)
  BY DEF Proposals, HasRecord
<1> QED
  BY <1>1 DEF BitsInv

LEMMA BitsOpened ==
  ASSUME Typed, BitsInv, LoadMultisigConfig' = LoadMultisigConfig, NEW a, OpenProposalRecord(a)
  PROVE  BitsInv'
<1>1. /\ counter + 1 \in Proposals
      /\ \A id: HasRecord(id)' <=> HasRecord(id) \/ id = counter + 1
      /\ \A id \in Proposals: HasRecord(id) => records'[id] = records[id]
  BY Opened
<1>2. records \in [Proposals -> Proposal]
  BY DEF Typed, ProposalsOK
<1>3. records'[counter + 1].bitmap = {}
  BY <1>1, <1>2 DEF OpenProposalRecord
<1>4. Proposals' = Proposals
  BY DEF Proposals
<1> QED
  BY <1>1, <1>3, <1>4 DEF BitsInv

LEMMA BitsApproved ==
  ASSUME Typed, SetupInv, BitsInv, NEW signer \in Address, NEW id \in Proposals,
         MultisigApprove(signer, id)
  PROVE  BitsInv'
<1>1. PICK c \in LoadMultisigConfig, bit \in 1..MaxSigners:
          bit \in DOMAIN c.signers /\ records' = [records EXCEPT ![id].bitmap = @ \cup {bit}]
  BY DEF MultisigApprove
<1>2. LoadMultisigConfig = {c}
  BY <1>1, ConfigIsValid DEF Single
<1>3. records \in [Proposals -> Proposal]
  BY DEF Typed, ProposalsOK
<1>4. records[id] \in Proposal
  BY <1>3
<1>5. records'[id].bitmap = records[id].bitmap \cup {bit}
  BY <1>1, <1>3, <1>4 DEF Proposal
<1>6. LoadMultisigConfig' = LoadMultisigConfig
  BY ConfigUnchanged DEF MultisigApprove, coldVars
<1>7. /\ \A j \in Proposals \ {id}: records'[j] = records[j]
      /\ Proposals' = Proposals /\ \A j: HasRecord(j)' <=> HasRecord(j)
  BY ApprovedOne DEF Proposals, HasRecord
<1> QED
  BY <1>1, <1>2, <1>5, <1>6, <1>7 DEF BitsInv

LEMMA BitsSigners ==
  ASSUME Typed, ProposalInv, SetupInv, BitsInv, SignersNext
  PROVE  BitsInv'
<1>1. CASE UNCHANGED <<coldVars, proposalVars>>
  BY <1>1, BitsKept, ConfigUnchanged DEF coldVars, proposalVars
<1>2. ASSUME NEW c \in Setups, MultisigApprovalInit(c) PROVE BitsInv'
  <2>1. LoadMultisigConfig = {} /\ UNCHANGED <<counter, records>>
    BY <1>2 DEF MultisigApprovalInit, LoadMultisigConfig, ColdGet, proposalVars
  <2>2. \A id \in Proposals: HasRecord(id) => records'[id].bitmap = {}
    BY <2>1 DEF BitsInv
  <2>3. Proposals' = Proposals /\ \A id: HasRecord(id)' <=> HasRecord(id)
    BY <2>1 DEF Proposals, HasRecord
  <2> QED
    BY <2>2, <2>3 DEF BitsInv
<1>3. ASSUME NEW c \in Setups, ProposeMultisigConfig(c) PROVE BitsInv'
  BY <1>3, BitsOpened, ConfigUnchanged DEF ProposeMultisigConfig, coldVars
<1>4. ASSUME NEW signer \in Address, NEW id \in Proposals, MultisigApprove(signer, id)
      PROVE  BitsInv'
  BY <1>4, BitsApproved
<1>5. ASSUME ExecuteMultisigConfig PROVE BitsInv'
  <2>1. /\ \A id \in Proposals: HasRecord(id) => records'[id].bitmap = {}
        /\ counter' = counter
    BY <1>5, SignersReplaced
  <2>2. Proposals' = Proposals /\ \A id: HasRecord(id)' <=> HasRecord(id)
    BY <2>1 DEF Proposals, HasRecord
  <2> QED
    BY <2>1, <2>2 DEF BitsInv
<1>6. ASSUME CancelMultisigConfigProposal PROVE BitsInv'
  <2>1. PICK p \in pendingConfig:
            records' = IF HasRecord(p.id)
                       THEN [records EXCEPT ![p.id] = Consumed(@, "Cancelled")] ELSE records
    BY <1>6 DEF CancelMultisigConfigProposal
  <2>2. UNCHANGED <<counter, coldVars>>
    BY <1>6 DEF CancelMultisigConfigProposal
  <2>3. \A id \in Proposals: HasRecord(id) =>
            records'[id] = records[id] \/ records'[id].bitmap = {}
    BY <2>1, ConsumedOne
  <2> QED
    BY <2>2, <2>3, BitsKept, ConfigUnchanged DEF coldVars
<1> QED
  BY <1>1, <1>2, <1>3, <1>4, <1>5, <1>6 DEF SignersNext

LEMMA BitsStep ==
  ASSUME Typed, ProposalInv, SetupInv, BitsInv, [Next]_vars
  PROVE  BitsInv'
<1>1. UNCHANGED coldVars => LoadMultisigConfig' = LoadMultisigConfig
  BY ConfigUnchanged DEF coldVars
<1>2. CASE LoadMultisigConfig' = LoadMultisigConfig /\ UNCHANGED proposalVars
  BY <1>2, BitsKept DEF proposalVars
<1>3. CASE RoleNext
  BY <1>1, <1>2, <1>3 DEF RoleNext, SetAdminRole
<1>4. CASE SuccessionNext
  <2>1. LoadMultisigConfig' = LoadMultisigConfig
    BY <1>1, <1>4, SuccessionFrame
  <2>2. ASSUME NEW a \in Address, ProposeAdminTransfer(a) PROVE BitsInv'
    BY <2>1, <2>2, BitsOpened DEF ProposeAdminTransfer
  <2>3. ASSUME ExecuteAdminTransfer PROVE BitsInv'
    <3>1. PICK t \in pendingTransfer:
              HasRecord(t.id) /\ records' = [records EXCEPT ![t.id] = Consumed(@, "Executed")]
      BY <2>3 DEF ExecuteAdminTransfer
    <3>2. \A id \in Proposals: HasRecord(id) =>
              records'[id] = records[id] \/ records'[id].bitmap = {}
      BY <3>1, ConsumedOne
    <3>3. counter' = counter
      BY <2>3 DEF ExecuteAdminTransfer
    <3> QED
      BY <2>1, <3>2, <3>3, BitsKept
  <2>4. ASSUME CancelAdminTransferProposal PROVE BitsInv'
    <3>1. PICK t \in pendingTransfer:
              records' = IF HasRecord(t.id)
                         THEN [records EXCEPT ![t.id] = Consumed(@, "Cancelled")] ELSE records
      BY <2>4 DEF CancelAdminTransferProposal
    <3>2. \A id \in Proposals: HasRecord(id) =>
              records'[id] = records[id] \/ records'[id].bitmap = {}
      BY <3>1, ConsumedOne
    <3>3. counter' = counter
      BY <2>4 DEF CancelAdminTransferProposal
    <3> QED
      BY <2>1, <3>2, <3>3, BitsKept
  <2> QED
    BY <1>2, <1>4, <2>1, <2>2, <2>3, <2>4 DEF SuccessionNext, TransferAdmin
<1>5. CASE SignersNext
  BY <1>5, BitsSigners
<1>6. CASE ConfigNext
  BY <1>2, <1>6, ConfigFrame, ConfigStepKeepsSigners, ConfigUnchanged
<1>7. CASE UpgradeNext \/ JobNext
  BY <1>1, <1>2, <1>7, UpgradeFrame, MoveKeepsAnswers, JobFrame
<1>8. CASE UNCHANGED vars
  BY <1>1, <1>2, <1>8 DEF vars
<1> QED
  BY <1>3, <1>4, <1>5, <1>6, <1>7, <1>8 DEF Next

-----------------------------------------------------------------------------
(***************************************************************************)
(* The mapping.                                                            *)
(***************************************************************************)
MapInv == Typed /\ ProposalInv /\ SetupInv /\ BitsInv

\* What a proposal is mapped to, read off the pending entries.
MotionTable ==
    \A id \in Proposals:
        /\ ~HasRecord(id) => MotionFor(id) = Heirs!Unmoved
        /\ HasRecord(id) /\ ~IsPending(id) => MotionFor(id) = Heirs!Spent
        /\ \A t \in pendingTransfer: IsPending(id) /\ t.id = id =>
               MotionFor(id) = AsMotion("open", "chief", {t.to}, 0, Ayes(id))
        /\ \A p \in pendingConfig: IsPending(id) /\ p.id = id =>
               MotionFor(id) = AsMotion("open", "council", Signers(p.setup), p.setup.threshold, Ayes(id))

LEMMA MotionTableHolds == MapInv => MotionTable
<1> SUFFICES ASSUME MapInv, NEW id \in Proposals
             PROVE  /\ ~HasRecord(id) => MotionFor(id) = Heirs!Unmoved
                    /\ HasRecord(id) /\ ~IsPending(id) => MotionFor(id) = Heirs!Spent
                    /\ \A t \in pendingTransfer: IsPending(id) /\ t.id = id =>
                           MotionFor(id) = AsMotion("open", "chief", {t.to}, 0, Ayes(id))
                    /\ \A p \in pendingConfig: IsPending(id) /\ p.id = id =>
                           MotionFor(id) = AsMotion("open", "council", Signers(p.setup),
                                                    p.setup.threshold, Ayes(id))
  BY DEF MotionTable
<1> DEFINE heirs   == {t.to: t \in {t \in pendingTransfer: t.id = id}}
           changes == {p.setup: p \in {p \in pendingConfig: p.id = id}}
<1>1. /\ \A t, u \in pendingTransfer: t = u
      /\ \A p, q \in pendingConfig: p = q
      /\ \A t \in pendingTransfer, p \in pendingConfig: t.id # p.id
  BY DEF MapInv, ProposalInv, Single
<1>2. ASSUME NEW t \in pendingTransfer, t.id = id PROVE heirs = {t.to}
  BY <1>1, <1>2
<1>3. ASSUME NEW p \in pendingConfig, p.id = id PROVE heirs = {} /\ changes = {p.setup}
  BY <1>1, <1>3
<1>4. ASSUME NEW p \in pendingConfig, p.id = id PROVE Only(changes) = p.setup
  BY <1>3, <1>4, OnlyValue DEF Single
<1>5. ~HasRecord(id) => MotionFor(id) = Heirs!Unmoved
  BY DEF MotionFor, AsMotion, Heirs!Unmoved, Heirs!MotionOf
<1>6. HasRecord(id) /\ ~IsPending(id) => MotionFor(id) = Heirs!Spent
  BY DEF MotionFor, AsMotion, Heirs!Spent, Heirs!MotionOf, IsPending
<1>7. IsPending(id) => MotionFor(id) =
         IF heirs # {} THEN AsMotion("open", "chief", heirs, 0, Ayes(id))
         ELSE AsMotion("open", "council", Signers(Only(changes)), Only(changes).threshold, Ayes(id))
  BY DEF MotionFor, IsPending
<1> HIDE DEF heirs, changes
<1>8. ASSUME NEW t \in pendingTransfer, IsPending(id), t.id = id
      PROVE  MotionFor(id) = AsMotion("open", "chief", {t.to}, 0, Ayes(id))
  BY <1>2, <1>7, <1>8
<1>9. ASSUME NEW p \in pendingConfig, IsPending(id), p.id = id
      PROVE  MotionFor(id) =
                AsMotion("open", "council", Signers(p.setup), p.setup.threshold, Ayes(id))
  BY <1>3, <1>4, <1>7, <1>9
<1> QED
  BY <1>5, <1>6, <1>8, <1>9

LEMMA MotionTableHoldsNext == MapInv' => MotionTable'
  BY MotionTableHolds, PTL

\* A motion that is open is one that a pending entry describes.
LEMMA OpenMotions ==
  ASSUME MapInv
  PROVE  /\ pendingTransfer = {} => \A m \in Proposals: ~Heirs!Open(m, "chief")
         /\ pendingConfig = {} => \A m \in Proposals: ~Heirs!Open(m, "council")
<1>1. ASSUME NEW m \in Proposals
      PROVE  \/ Motions[m].stage # "open"
             \/ Motions[m].what = "chief" /\ pendingTransfer # {}
             \/ Motions[m].what = "council" /\ pendingConfig # {}
  <2>1. Motions[m] = MotionFor(m)
    BY DEF Motions
  <2>2. CASE ~HasRecord(m)
    BY <2>1, <2>2, MotionTableHolds DEF MotionTable, Heirs!Unmoved, Heirs!MotionOf
  <2>3. CASE HasRecord(m) /\ ~IsPending(m)
    BY <2>1, <2>3, MotionTableHolds DEF MotionTable, Heirs!Spent, Heirs!MotionOf
  <2>4. CASE IsPending(m)
    <3>1. IsNamed(m)
      BY <2>4 DEF MapInv, ProposalInv, IsPending
    <3> QED
      BY <2>1, <2>4, <3>1, MotionTableHolds DEF MotionTable, AsMotion, IsNamed
  <2> QED
    BY <2>2, <2>3, <2>4 DEF IsPending
<1> QED
  BY <1>1 DEF Heirs!Open, Heirs!IsOpen

\* The council is the signers in force.
LEMMA CouncilInForce ==
  ASSUME Typed, SetupInv, NEW c \in LoadMultisigConfig
  PROVE  /\ Council = Signers(c) /\ Quorum = c.threshold
         /\ \A id: Ayes(id) = Seats(c, records[id].bitmap)
<1>1. Only(LoadMultisigConfig) = c
  BY ConfigIsValid, OnlyValue
<1> QED
  BY <1>1 DEF Council, Quorum, Ayes

\* What an approval says and what a quorum is.
LEMMA ApprovedIsCarried ==
  ASSUME MapInv, NEW id \in Proposals, HasRecord(id), Approved(id),
         Motions[id].ayes = Ayes(id)
  PROVE  Heirs!Carried(id) /\ Council # {}
<1>1. PICK c \in LoadMultisigConfig: Cardinality(records[id].bitmap) >= c.threshold
  BY DEF Approved
<1>2. c \in MultiSigConfig /\ ValidSetup(c) /\ records[id].bitmap \in SUBSET DOMAIN c.signers
  BY ConfigIsValid DEF MapInv, BitsInv
<1>3. /\ Council = Signers(c) /\ Quorum = c.threshold
      /\ Ayes(id) = Seats(c, records[id].bitmap)
  BY CouncilInForce DEF MapInv
<1>4. Cardinality(Ayes(id)) >= Quorum
  BY <1>1, <1>2, <1>3, SeatsCount
<1>5. Ayes(id) \subseteq Council
  BY <1>3 DEF Signers, Seats
<1>6. Council # {}
  BY <1>2, <1>3, ValidSetupSeated DEF Heirs!Seated
<1> QED
  BY <1>4, <1>5, <1>6, SameCount DEF Heirs!Carried

-----------------------------------------------------------------------------
\* A motion depends on its record, on the entries with its id and on the signers.
LEMMA MotionKept ==
  ASSUME NEW id, HasRecord(id)' <=> HasRecord(id),
         HasRecord(id) => records'[id] = records[id],
         LoadMultisigConfig' = LoadMultisigConfig,
         {t \in pendingTransfer': t.id = id} = {t \in pendingTransfer: t.id = id},
         {p \in pendingConfig': p.id = id} = {p \in pendingConfig: p.id = id}
  PROVE  MotionFor(id)' = MotionFor(id)
<1>1. HasRecord(id) => Ayes(id)' = Ayes(id)
  BY DEF Ayes
<1> QED
  BY <1>1 DEF MotionFor

LEMMA MotionsReplaced ==
  ASSUME NEW m \in Proposals, NEW x, MotionFor(m)' = x,
         \A id \in Proposals \ {m}: MotionFor(id)' = MotionFor(id)
  PROVE  Motions' = [Motions EXCEPT ![m] = x]
<1>1. Proposals' = Proposals
  BY DEF Proposals
<1>2. Motions' = [id \in Proposals |-> MotionFor(id)']
  BY <1>1 DEF Motions
<1>3. [Motions EXCEPT ![m] = x] = [id \in Proposals |-> IF id = m THEN x ELSE MotionFor(id)]
  BY DEF Motions
<1> QED
  BY <1>2, <1>3

\* Whatever leaves people, proposals and signers alone is no step of Succession.
LEMMA SuccessionStutters ==
  ASSUME admin' = admin, UNCHANGED proposalVars, LoadMultisigConfig' = LoadMultisigConfig
  PROVE  UNCHANGED Heirs!vars
<1>1. \A id: MotionFor(id)' = MotionFor(id)
  BY MotionKept DEF proposalVars, HasRecord
<1>2. Motions' = Motions
  BY <1>1 DEF Motions, Proposals
<1>3. Council' = Council /\ Quorum' = Quorum
  BY DEF Council, Quorum
<1> QED
  BY <1>2, <1>3 DEF Heirs!vars

-----------------------------------------------------------------------------
(***************************************************************************)
(* The entry points, one by one.                                           *)
(***************************************************************************)
LEMMA SuccessionInit == ASSUME Init, MapInv PROVE Heirs!Init
<1>1. \A id \in Proposals: ~HasRecord(id)
  BY DEF Init, HasRecord
<1>2. Motions = [m \in Proposals |-> Heirs!Unmoved]
  BY <1>1, MotionTableHolds DEF MotionTable, Motions
<1>3. (Council = {} /\ Quorum = 0) \/ Heirs!Seated(Council, Quorum)
  <2>1. ASSUME NEW c \in LoadMultisigConfig PROVE Heirs!Seated(Council, Quorum)
    BY CouncilInForce, ConfigIsValid, ValidSetupSeated DEF MapInv
  <2> QED
    BY <2>1 DEF Council, Quorum
<1>4. admin \in Address
  BY DEF MapInv, Typed, PeopleOK
<1> QED
  BY <1>2, <1>3, <1>4 DEF Heirs!Init

\* Without signers the admin names the next one.
LEMMA TransferIsName ==
  ASSUME MapInv, NEW a \in Address, TransferAdmin(a)
  PROVE  Heirs!Next
<1>1. /\ LoadMultisigConfig = {} /\ pendingTransfer = {} /\ admin' = a
      /\ UNCHANGED <<proposalVars, coldVars>>
  BY DEF TransferAdmin, InstallAdmin
<1>2. LoadMultisigConfig' = LoadMultisigConfig
  BY <1>1, ConfigUnchanged DEF coldVars
<1>3. \A id: MotionFor(id)' = MotionFor(id)
  BY <1>1, <1>2, MotionKept DEF proposalVars, HasRecord
<1>4. Motions' = Motions /\ Council' = Council /\ Quorum' = Quorum
  BY <1>2, <1>3 DEF Motions, Proposals, Council, Quorum
<1>5. Council = {}
  BY <1>1 DEF Council
<1>6. Heirs!Name
  BY <1>1, <1>4, <1>5, OpenMotions DEF Heirs!Name
<1> QED
  BY <1>6 DEF Heirs!Next

\* The first signers take their seats.
LEMMA RegistrationIsSeat ==
  ASSUME MapInv, MapInv', NEW c \in Setups, MultisigApprovalInit(c)
  PROVE  Heirs!Next
<1>1. /\ LoadMultisigConfig = {} /\ UNCHANGED <<proposalVars, admin>>
      /\ persistent'["multisig"] = {c}
  <2>1. "multisig" \in DOMAIN persistent
    BY ColdValues DEF MapInv, Typed, ColdOK
  <2> QED
    BY <2>1 DEF MultisigApprovalInit, LoadMultisigConfig, ColdGet, StoreCold, adminVars
<1>2. LoadMultisigConfig' = {c}
  BY <1>1 DEF LoadMultisigConfig, ColdGet
<1>3. Only({c}) = c
  BY OnlyValue DEF Single
<1>4. Council = {} /\ Council' = Signers(c) /\ Quorum' = c.threshold
  BY <1>1, <1>2, <1>3 DEF Council, Quorum
<1>5. c \in MultiSigConfig /\ ValidSetup(c)
  BY PlatformAssumption DEF MultisigApprovalInit
<1>6. ASSUME NEW id \in Proposals PROVE MotionFor(id)' = MotionFor(id)
  <2>1. HasRecord(id) => Ayes(id) = {} /\ Ayes(id)' = {}
    <3>1. HasRecord(id) => records[id].bitmap = {} /\ records' = records
      BY <1>1 DEF MapInv, BitsInv, proposalVars
    <3> QED
      BY <1>1, <1>2, <1>3, <3>1 DEF Ayes, Seats
  <2>2. UNCHANGED <<counter, records, pendingTransfer, pendingConfig>>
    BY <1>1 DEF proposalVars
  <2> QED
    BY <2>1, <2>2 DEF MotionFor, HasRecord
<1>7. Motions' = Motions
  BY <1>6 DEF Motions, Proposals
<1>8. Heirs!Seated(Council', Quorum')
  BY <1>4, <1>5, ValidSetupSeated
<1>9. Heirs!Seat
  BY <1>1, <1>4, <1>7, <1>8 DEF Heirs!Seat
<1> QED
  BY <1>9 DEF Heirs!Next

\* A proposal is a motion.
LEMMA ProposalIsMove ==
  ASSUME MapInv, MapInv', NEW a, OpenProposalRecord(a), UNCHANGED <<admin, coldVars>>,
         NEW what \in {"chief", "council"}, NEW people \in SUBSET Address,
         NEW n \in 0..Cardinality(Address), Heirs!Sound(what, people, n),
         \A m \in Proposals: ~Heirs!Open(m, what),
         NEW m, m = counter + 1,
         MotionFor(m)' = AsMotion("open", what, people, n, Ayes(m)'),
         \A id \in Proposals \ {m}:
             /\ {t \in pendingTransfer': t.id = id} = {t \in pendingTransfer: t.id = id}
             /\ {p \in pendingConfig': p.id = id} = {p \in pendingConfig: p.id = id}
  PROVE  Heirs!Next
<1>1. /\ m \in Proposals /\ ~HasRecord(m)
      /\ \A id: HasRecord(id)' <=> HasRecord(id) \/ id = m
      /\ \A id \in Proposals: HasRecord(id) => records'[id] = records[id]
  BY Opened DEF MapInv
<1>2. LoadMultisigConfig' = LoadMultisigConfig
  BY ConfigUnchanged DEF coldVars
<1>3. records'[m].bitmap = {}
  <2>1. records \in [Proposals -> Proposal]
    BY DEF MapInv, Typed, ProposalsOK
  <2> QED
    BY <1>1, <2>1 DEF OpenProposalRecord
<1>4. Ayes(m)' = {}
  BY <1>3 DEF Ayes, Seats
<1>5. MotionFor(m)' = Heirs!MotionOf("open", what, people, n)
  BY <1>4 DEF AsMotion, Heirs!MotionOf
<1>6. \A id \in Proposals \ {m}: MotionFor(id)' = MotionFor(id)
  BY <1>1, <1>2, MotionKept
<1>7. Motions' = [Motions EXCEPT ![m] = Heirs!MotionOf("open", what, people, n)]
  BY <1>1, <1>5, <1>6, MotionsReplaced
<1>8. Motions[m].stage = "none"
  BY <1>1, MotionTableHolds DEF MotionTable, Motions, Heirs!Unmoved, Heirs!MotionOf
<1>9. Council' = Council /\ Quorum' = Quorum
  BY <1>2 DEF Council, Quorum
<1>10. n \in 0..Heirs!Cardinality(Address)
  BY SameCount
<1>11. Heirs!Move(m)
  BY <1>7, <1>8, <1>9, <1>10 DEF Heirs!Move
<1> QED
  BY <1>1, <1>11 DEF Heirs!Next

LEMMA TransferProposalIsMove ==
  ASSUME MapInv, MapInv', NEW a \in Address, ProposeAdminTransfer(a)
  PROVE  Heirs!Next
<1> DEFINE t == [to |-> a, id |-> counter + 1]
<1>1. /\ pendingTransfer = {} /\ pendingTransfer' = {t} /\ OpenProposalRecord(a)
      /\ UNCHANGED <<pendingConfig, admin, coldVars>>
  BY DEF ProposeAdminTransfer, adminVars
<1>2. PICK m: m = counter + 1
  OBVIOUS
<1>3. t.to = a /\ t.id = m
  BY <1>2
<1>4. IsPending(m)' /\ m \in Proposals'
  BY <1>1, <1>2, Opened DEF MapInv, IsPending, Proposals
<1> HIDE DEF t
<1>5. MotionFor(m)' = AsMotion("open", "chief", {a}, 0, Ayes(m)')
  BY <1>1, <1>3, <1>4, MotionTableHoldsNext DEF MotionTable, AsMotion
<1>6. Heirs!Sound("chief", {a}, 0) /\ 0 \in 0..Cardinality(Address)
  <2>1. Heirs!Cardinality({a}) = 1
    BY SameCount, FS_Singleton
  <2>2. Cardinality(Address) \in Nat
    BY PlatformAssumption, FS_CardinalityType
  <2> QED
    BY <2>1, <2>2 DEF Heirs!Sound
<1>7. \A id \in Proposals \ {m}:
          /\ {u \in pendingTransfer': u.id = id} = {u \in pendingTransfer: u.id = id}
          /\ {p \in pendingConfig': p.id = id} = {p \in pendingConfig: p.id = id}
  BY <1>1, <1>3
<1> QED
  BY <1>1, <1>2, <1>5, <1>6, <1>7, OpenMotions, ProposalIsMove

LEMMA SignerProposalIsMove ==
  ASSUME MapInv, MapInv', NEW c \in Setups, ProposeMultisigConfig(c)
  PROVE  Heirs!Next
<1> DEFINE p == [setup |-> c, id |-> counter + 1]
<1>1. /\ pendingConfig = {} /\ pendingConfig' = {p} /\ OpenProposalRecord(admin)
      /\ ValidSetup(c) /\ UNCHANGED <<pendingTransfer, admin, coldVars>>
  BY DEF ProposeMultisigConfig, adminVars
<1>2. PICK m: m = counter + 1
  OBVIOUS
<1>3. p.setup = c /\ p.id = m
  BY <1>2
<1>4. IsPending(m)' /\ m \in Proposals'
  BY <1>1, <1>2, Opened DEF MapInv, IsPending, Proposals
<1> HIDE DEF p
<1>5. MotionFor(m)' = AsMotion("open", "council", Signers(c), c.threshold, Ayes(m)')
  BY <1>1, <1>3, <1>4, MotionTableHoldsNext DEF MotionTable, AsMotion, Signers, Seats
<1>6. Heirs!Seated(Signers(c), c.threshold) /\ c.threshold \in 0..Cardinality(Address)
  BY <1>1, PlatformAssumption, ValidSetupSeated
<1>7. Heirs!Sound("council", Signers(c), c.threshold) /\ Signers(c) \in SUBSET Address
  BY <1>6 DEF Heirs!Sound, Heirs!Seated
<1>8. \A id \in Proposals \ {m}:
          /\ {u \in pendingTransfer': u.id = id} = {u \in pendingTransfer: u.id = id}
          /\ {q \in pendingConfig': q.id = id} = {q \in pendingConfig: q.id = id}
  BY <1>1, <1>3
<1> QED
  BY <1>1, <1>2, <1>5, <1>6, <1>7, <1>8, OpenMotions, ProposalIsMove

\* An approval is an aye of the person at that place.
LEMMA ApprovalIsAye ==
  ASSUME MapInv, MapInv', NEW signer \in Address, NEW id \in Proposals, MultisigApprove(signer, id)
  PROVE  Heirs!Next
<1>1. PICK c \in LoadMultisigConfig, bit \in 1..MaxSigners:
          /\ bit \in DOMAIN c.signers /\ c.signers[bit] = signer
          /\ records' = [records EXCEPT ![id].bitmap = @ \cup {bit}]
  BY DEF MultisigApprove
<1>2. UNCHANGED <<counter, pendingTransfer, pendingConfig, admin, coldVars>>
  BY DEF MultisigApprove, adminVars
<1>3. LoadMultisigConfig' = LoadMultisigConfig
  BY <1>2, ConfigUnchanged DEF coldVars
<1>4. /\ IsPending(id) /\ IsPending(id)' /\ IsNamed(id)
      /\ \A j \in Proposals \ {id}: records'[j] = records[j]
      /\ \A j: HasRecord(j)' <=> HasRecord(j)
  BY <1>2, ApprovedOne DEF MapInv, ProposalInv, IsPending, HasRecord
<1>5. records'[id].bitmap = records[id].bitmap \cup {bit}
  <2>1. records \in [Proposals -> Proposal]
    BY DEF MapInv, Typed, ProposalsOK
  <2>2. records[id] \in Proposal
    BY <2>1
  <2> QED
    BY <1>1, <2>1, <2>2 DEF Proposal
<1>6. Ayes(id)' = Ayes(id) \cup {signer}
  <2>1. Ayes(id) = Seats(c, records[id].bitmap)
    BY CouncilInForce DEF MapInv
  <2>2. Only(LoadMultisigConfig) = c
    BY ConfigIsValid, OnlyValue DEF MapInv
  <2>3. Ayes(id)' = Seats(c, records'[id].bitmap)
    BY <1>3, <2>2 DEF Ayes, Seats
  <2> QED
    BY <1>1, <1>5, <2>1, <2>3 DEF Seats
<1>7. /\ Motions[id].stage = "open" /\ Motions[id].ayes = Ayes(id)
      /\ MotionFor(id)' = [Motions[id] EXCEPT !.ayes = @ \cup {signer}]
  <2>1. Motions[id] = MotionFor(id) /\ id \in Proposals'
    BY DEF Motions, Proposals
  <2>2. ASSUME NEW t \in pendingTransfer, t.id = id
        PROVE  /\ MotionFor(id) = AsMotion("open", "chief", {t.to}, 0, Ayes(id))
               /\ MotionFor(id)' = AsMotion("open", "chief", {t.to}, 0, Ayes(id)')
    <3>1. MotionFor(id) = AsMotion("open", "chief", {t.to}, 0, Ayes(id))
      BY <1>4, <2>2, MotionTableHolds DEF MotionTable
    <3>2. MotionFor(id)' = AsMotion("open", "chief", {t.to}, 0, Ayes(id)')
      BY <1>2, <1>4, <2>1, <2>2, MotionTableHoldsNext DEF MotionTable, AsMotion
    <3> QED
      BY <3>1, <3>2
  <2>3. ASSUME NEW p \in pendingConfig, p.id = id
        PROVE  /\ MotionFor(id) =
                     AsMotion("open", "council", Signers(p.setup), p.setup.threshold, Ayes(id))
               /\ MotionFor(id)' =
                     AsMotion("open", "council", Signers(p.setup), p.setup.threshold, Ayes(id)')
    <3>1. MotionFor(id) = AsMotion("open", "council", Signers(p.setup), p.setup.threshold, Ayes(id))
      BY <1>4, <2>3, MotionTableHolds DEF MotionTable
    <3>2. MotionFor(id)' = AsMotion("open", "council", Signers(p.setup), p.setup.threshold, Ayes(id)')
      BY <1>2, <1>4, <2>1, <2>3, MotionTableHoldsNext DEF MotionTable, AsMotion, Signers, Seats
    <3> QED
      BY <3>1, <3>2
  <2>4. ASSUME NEW what, NEW people, NEW n,
               MotionFor(id) = AsMotion("open", what, people, n, Ayes(id)),
               MotionFor(id)' = AsMotion("open", what, people, n, Ayes(id)')
        PROVE  /\ Motions[id].stage = "open" /\ Motions[id].ayes = Ayes(id)
               /\ MotionFor(id)' = [Motions[id] EXCEPT !.ayes = @ \cup {signer}]
    BY <1>6, <2>1, <2>4 DEF AsMotion
  <2>5. CASE \E t \in pendingTransfer: t.id = id
    BY <2>2, <2>4, <2>5
  <2>6. CASE \E p \in pendingConfig: p.id = id
    BY <2>3, <2>4, <2>6
  <2> QED
    BY <1>4, <2>5, <2>6 DEF IsNamed
<1>8. \A j \in Proposals \ {id}: MotionFor(j)' = MotionFor(j)
  BY <1>2, <1>3, <1>4, MotionKept
<1>9. Motions' = [Motions EXCEPT ![id].ayes = @ \cup {signer}]
  <2>1. Motions' = [Motions EXCEPT ![id] = [Motions[id] EXCEPT !.ayes = @ \cup {signer}]]
    BY <1>7, <1>8, MotionsReplaced
  <2> QED
    BY <2>1
<1>10. Council' = Council /\ Quorum' = Quorum /\ signer \in Council
  BY <1>1, <1>3, CouncilInForce DEF MapInv, Council, Quorum, Signers, Seats
<1>11. Heirs!SayAye(id, signer)
  BY <1>2, <1>7, <1>9, <1>10 DEF Heirs!SayAye, Heirs!IsOpen
<1> QED
  BY <1>11 DEF Heirs!Next

\* Closing the proposal of a pending entry spends its motion and keeps the others.
LEMMA ClosingSpends ==
  ASSUME MapInv, MapInv', NEW m \in Proposals, HasRecord(m)', ~IsPending(m)',
         counter' = counter, LoadMultisigConfig' = LoadMultisigConfig,
         \A j \in Proposals \ {m}: records'[j] = records[j],
         \/ (pendingTransfer' = {} /\ pendingConfig' = pendingConfig
             /\ \A t \in pendingTransfer: t.id = m)
         \/ (pendingConfig' = {} /\ pendingTransfer' = pendingTransfer
             /\ \A p \in pendingConfig: p.id = m)
  PROVE  /\ Motions' = [Motions EXCEPT ![m] = Heirs!Spent]
         /\ Council' = Council /\ Quorum' = Quorum
<1>1. m \in Proposals'
  BY DEF Proposals
<1>2. MotionFor(m)' = Heirs!Spent
  BY <1>1, MotionTableHoldsNext DEF MotionTable, Heirs!Spent, Heirs!MotionOf
<1>3. \A j: HasRecord(j)' <=> HasRecord(j)
  BY DEF HasRecord
<1>4. \A j \in Proposals \ {m}: MotionFor(j)' = MotionFor(j)
  BY <1>3, MotionKept
<1>5. Motions' = [Motions EXCEPT ![m] = Heirs!Spent]
  BY <1>2, <1>4, MotionsReplaced
<1> QED
  BY <1>5 DEF Council, Quorum

\* An executed transfer installs the heir of a motion that a quorum carried.
LEMMA ExecutionIsInstall ==
  ASSUME MapInv, MapInv', ExecuteAdminTransfer
  PROVE  Heirs!Next
<1>1. PICK t \in pendingTransfer:
          /\ HasRecord(t.id) /\ records[t.id].status = "Pending" /\ Approved(t.id)
          /\ IF t.to = admin THEN UNCHANGED adminVars ELSE InstallAdmin(t.to)
          /\ records' = [records EXCEPT ![t.id] = Consumed(@, "Executed")]
  BY DEF ExecuteAdminTransfer
<1>2. pendingTransfer' = {} /\ UNCHANGED <<counter, pendingConfig, coldVars>>
  BY DEF ExecuteAdminTransfer
<1>3. PICK m: m = t.id
  OBVIOUS
<1>4. m \in Proposals /\ IsPending(m)
  BY <1>1, <1>3, RecordsAreProposals DEF MapInv, IsPending
<1>5. /\ records'[m].status = "Executed"
      /\ \A j \in Proposals \ {m}: records'[j] = records[j]
  BY <1>1, <1>3, ConsumedOne DEF MapInv
<1>6. HasRecord(m)' /\ ~IsPending(m)'
  BY <1>1, <1>2, <1>3, <1>5 DEF HasRecord, IsPending
<1>7. LoadMultisigConfig' = LoadMultisigConfig
  BY <1>2, ConfigUnchanged DEF coldVars
<1>8. \A u \in pendingTransfer: u.id = m
  BY <1>3 DEF MapInv, ProposalInv, Single
<1>9. /\ Motions' = [Motions EXCEPT ![m] = Heirs!Spent]
      /\ Council' = Council /\ Quorum' = Quorum
  BY <1>2, <1>4, <1>5, <1>6, <1>7, <1>8, ClosingSpends
<1>10. Motions[m] = AsMotion("open", "chief", {t.to}, 0, Ayes(m))
  BY <1>3, <1>4, MotionTableHolds DEF MotionTable, Motions
<1>11. admin' = t.to
  BY <1>1 DEF InstallAdmin, adminVars
<1>12. Heirs!Carried(m) /\ Council # {}
  BY <1>1, <1>3, <1>4, <1>10, ApprovedIsCarried DEF AsMotion
<1>13. Heirs!Install(m)
  BY <1>9, <1>10, <1>11, <1>12 DEF Heirs!Install, Heirs!Open, Heirs!IsOpen, AsMotion
<1> QED
  BY <1>4, <1>13 DEF Heirs!Next

\* A withdrawn proposal is a motion that is dropped; older code's had none.
LEMMA CancellationIsDrop ==
  ASSUME MapInv, MapInv', LegacyIds \cap Proposals = {}, CancelAdminTransferProposal
  PROVE  Heirs!Next \/ UNCHANGED Heirs!vars
<1>1. PICK t \in pendingTransfer:
          records' = IF HasRecord(t.id)
                     THEN [records EXCEPT ![t.id] = Consumed(@, "Cancelled")] ELSE records
  BY DEF CancelAdminTransferProposal
<1>2. pendingTransfer' = {} /\ UNCHANGED <<counter, pendingConfig, coldVars, admin>>
  BY DEF CancelAdminTransferProposal, adminVars
<1>3. PICK m: m = t.id
  OBVIOUS
<1>4. LoadMultisigConfig' = LoadMultisigConfig
  BY <1>2, ConfigUnchanged DEF coldVars
<1>5. \A u \in pendingTransfer: u.id = m
  BY <1>3 DEF MapInv, ProposalInv, Single
<1>6. CASE HasRecord(m)
  <2>1. m \in Proposals /\ IsPending(m)
    BY <1>3, <1>6, RecordsAreProposals DEF MapInv, ProposalInv, IsNamed
  <2>2. /\ records'[m].status = "Cancelled"
        /\ \A j \in Proposals \ {m}: records'[j] = records[j]
    BY <1>1, <1>3, <1>6, ConsumedOne DEF MapInv
  <2>3. HasRecord(m)' /\ ~IsPending(m)'
    BY <1>2, <1>6, <2>2 DEF HasRecord, IsPending
  <2>4. /\ Motions' = [Motions EXCEPT ![m] = Heirs!Spent]
        /\ Council' = Council /\ Quorum' = Quorum
    BY <1>2, <1>4, <1>5, <2>1, <2>2, <2>3, ClosingSpends
  <2>5. Motions[m] = AsMotion("open", "chief", {t.to}, 0, Ayes(m))
    BY <1>3, <2>1, MotionTableHolds DEF MotionTable, Motions
  <2>6. Heirs!Drop(m)
    BY <1>2, <2>4, <2>5 DEF Heirs!Drop, Heirs!IsOpen, AsMotion
  <2> QED
    BY <2>1, <2>6 DEF Heirs!Next
<1>7. CASE ~HasRecord(m)
  <2>1. m \notin Proposals /\ records' = records
    BY <1>1, <1>3, <1>7 DEF MapInv, ProposalInv
  <2>2. \A j \in Proposals: MotionFor(j)' = MotionFor(j)
    <3>1. ASSUME NEW j \in Proposals
          PROVE  {u \in pendingTransfer': u.id = j} = {u \in pendingTransfer: u.id = j}
      BY <1>2, <1>5, <2>1
    <3> QED
      BY <1>2, <1>4, <2>1, <3>1, MotionKept DEF HasRecord
  <2>3. Motions' = Motions
    BY <2>2 DEF Motions, Proposals
  <2> QED
    BY <1>2, <1>4, <2>3 DEF Heirs!vars, Council, Quorum
<1> QED
  BY <1>6, <1>7

LEMMA SignerCancellationIsDrop ==
  ASSUME MapInv, MapInv', CancelMultisigConfigProposal
  PROVE  Heirs!Next
<1>1. PICK p \in pendingConfig:
          records' = IF HasRecord(p.id)
                     THEN [records EXCEPT ![p.id] = Consumed(@, "Cancelled")] ELSE records
  BY DEF CancelMultisigConfigProposal
<1>2. pendingConfig' = {} /\ UNCHANGED <<counter, pendingTransfer, coldVars, admin>>
  BY DEF CancelMultisigConfigProposal, adminVars
<1>3. PICK m: m = p.id
  OBVIOUS
<1>4. LoadMultisigConfig' = LoadMultisigConfig
  BY <1>2, ConfigUnchanged DEF coldVars
<1>5. m \in Proposals /\ IsPending(m) /\ HasRecord(m)
  BY <1>3, RecordsAreProposals DEF MapInv, ProposalInv, IsNamed
<1>6. /\ records'[m].status = "Cancelled"
      /\ \A j \in Proposals \ {m}: records'[j] = records[j]
  BY <1>1, <1>3, <1>5, ConsumedOne DEF MapInv
<1>7. HasRecord(m)' /\ ~IsPending(m)'
  BY <1>2, <1>5, <1>6 DEF HasRecord, IsPending
<1>8. \A q \in pendingConfig: q.id = m
  BY <1>3 DEF MapInv, ProposalInv, Single
<1>9. /\ Motions' = [Motions EXCEPT ![m] = Heirs!Spent]
      /\ Council' = Council /\ Quorum' = Quorum
  BY <1>2, <1>4, <1>5, <1>6, <1>7, <1>8, ClosingSpends
<1>10. Motions[m] = AsMotion("open", "council", Signers(p.setup), p.setup.threshold, Ayes(m))
  BY <1>3, <1>5, MotionTableHolds DEF MotionTable, Motions
<1>11. Heirs!Drop(m)
  BY <1>2, <1>9, <1>10 DEF Heirs!Drop, Heirs!IsOpen, AsMotion
<1> QED
  BY <1>5, <1>11 DEF Heirs!Next

\* An executed signer change seats the council of a motion that a quorum of the old one
\* carried, and what the old one has said of other motions is gone.
LEMMA SignerChangeIsReplace ==
  ASSUME MapInv, MapInv', ExecuteMultisigConfig
  PROVE  Heirs!Next
<1>1. PICK p \in pendingConfig:
          /\ HasRecord(p.id) /\ records[p.id].status = "Pending" /\ Approved(p.id)
          /\ persistent' = [persistent EXCEPT !["multisig"] = {p.setup}]
  BY DEF ExecuteMultisigConfig
<1>2. /\ \A j \in Proposals: HasRecord(j) => records'[j].bitmap = {}
      /\ UNCHANGED <<counter, pendingTransfer, admin>> /\ pendingConfig' = {}
  BY SignersReplaced DEF MapInv, ExecuteMultisigConfig, adminVars
<1>3. PICK m: m = p.id
  OBVIOUS
<1>4. m \in Proposals /\ IsPending(m) /\ \A q \in pendingConfig: q.id = m
  BY <1>1, <1>3, RecordsAreProposals DEF MapInv, ProposalInv, Single, IsPending
<1>5. /\ records'[m].status = "Executed"
      /\ \A j \in Proposals \ {m}: HasRecord(j) => records'[j].status = records[j].status
  BY <1>3, <1>4, SignersReplaced DEF MapInv
<1>6. \A j: HasRecord(j)' <=> HasRecord(j)
  BY <1>2 DEF HasRecord
<1>7. LoadMultisigConfig' = {p.setup}
  <2>1. "multisig" \in DOMAIN persistent
    BY ColdValues DEF MapInv, Typed, ColdOK
  <2> QED
    BY <1>1, <2>1 DEF LoadMultisigConfig, ColdGet
<1>8. Council' = Signers(p.setup) /\ Quorum' = p.setup.threshold
  <2>1. Only({p.setup}) = p.setup
    BY OnlyValue DEF Single
  <2> QED
    BY <1>7, <2>1 DEF Council, Quorum
<1>9. \A j \in Proposals: HasRecord(j) => Ayes(j)' = {}
  BY <1>2 DEF Ayes, Seats
<1>10. Motions[m] = AsMotion("open", "council", Signers(p.setup), p.setup.threshold, Ayes(m))
  BY <1>3, <1>4, MotionTableHolds DEF MotionTable, Motions
<1>11. MotionFor(m)' = Heirs!Spent
  <2>1. HasRecord(m)' /\ ~IsPending(m)' /\ m \in Proposals'
    BY <1>4, <1>5, <1>6 DEF IsPending, Proposals
  <2> QED
    BY <2>1, MotionTableHoldsNext DEF MotionTable, Heirs!Spent, Heirs!MotionOf
<1>12. ASSUME NEW j \in Proposals \ {m}
       PROVE  MotionFor(j)' = [Motions[j] EXCEPT !.ayes = {}]
  <2>1. Motions[j] = MotionFor(j) /\ j \in Proposals'
    BY DEF Motions, Proposals
  <2>2. CASE ~HasRecord(j)
    <3>1. MotionFor(j) = Heirs!Unmoved /\ MotionFor(j)' = Heirs!Unmoved
      BY <1>6, <2>1, <2>2, MotionTableHolds, MotionTableHoldsNext
         DEF MotionTable, Heirs!Unmoved, Heirs!MotionOf
    <3> QED
      BY <2>1, <3>1 DEF Heirs!Unmoved, Heirs!MotionOf
  <2>3. CASE HasRecord(j) /\ ~IsPending(j)
    <3>1. ~IsPending(j)' /\ HasRecord(j)'
      BY <1>5, <1>6, <2>3 DEF IsPending
    <3>2. MotionFor(j) = Heirs!Spent /\ MotionFor(j)' = Heirs!Spent
      BY <2>1, <2>3, <3>1, MotionTableHolds, MotionTableHoldsNext
         DEF MotionTable, Heirs!Spent, Heirs!MotionOf
    <3> QED
      BY <2>1, <3>2 DEF Heirs!Spent, Heirs!MotionOf
  <2>4. CASE IsPending(j)
    <3>1. PICK t \in pendingTransfer: t.id = j
      BY <1>4, <2>4 DEF MapInv, ProposalInv, IsPending, IsNamed
    <3>2. IsPending(j)' /\ t \in pendingTransfer'
      BY <1>2, <1>5, <1>6, <2>4 DEF IsPending
    <3>3. MotionFor(j) = AsMotion("open", "chief", {t.to}, 0, Ayes(j))
      BY <2>4, <3>1, MotionTableHolds DEF MotionTable
    <3>4. MotionFor(j)' = AsMotion("open", "chief", {t.to}, 0, Ayes(j)')
      BY <2>1, <3>1, <3>2, MotionTableHoldsNext DEF MotionTable, AsMotion
    <3>5. Ayes(j)' = {}
      BY <1>9, <2>4 DEF IsPending
    <3> QED
      BY <2>1, <3>3, <3>4, <3>5 DEF AsMotion
  <2> QED
    BY <2>2, <2>3, <2>4 DEF IsPending
<1>13. Motions' = [o \in Proposals |-> IF o = m THEN Heirs!Spent
                                       ELSE [Motions[o] EXCEPT !.ayes = {}]]
  <2>1. Motions' = [o \in Proposals |-> MotionFor(o)']
    BY DEF Motions, Proposals
  <2> QED
    BY <1>11, <1>12, <2>1
<1>14. Heirs!Carried(m) /\ Council # {}
  BY <1>1, <1>3, <1>4, <1>10, ApprovedIsCarried DEF AsMotion, IsPending
<1>15. Heirs!Replace(m)
  BY <1>2, <1>8, <1>10, <1>13, <1>14 DEF Heirs!Replace, Heirs!Open, Heirs!IsOpen, AsMotion
<1> QED
  BY <1>4, <1>15 DEF Heirs!Next

-----------------------------------------------------------------------------
LEMMA SuccessionStep ==
  ASSUME MapInv, MapInv', LegacyIds \cap Proposals = {}, [Next]_vars
  PROVE  Heirs!Next \/ UNCHANGED Heirs!vars
<1>1. CASE admin' = admin /\ UNCHANGED <<proposalVars, coldVars>>
  BY <1>1, SuccessionStutters, ConfigUnchanged DEF coldVars
<1>2. CASE RoleNext
  BY <1>1, <1>2 DEF RoleNext, SetAdminRole
<1>3. CASE SuccessionNext
  BY <1>3, TransferIsName, TransferProposalIsMove, ExecutionIsInstall, CancellationIsDrop
     DEF SuccessionNext
<1>4. CASE SignersNext
  BY <1>4, RegistrationIsSeat, ApprovalIsAye, SignerProposalIsMove, SignerChangeIsReplace,
     SignerCancellationIsDrop DEF SignersNext
<1>5. CASE ConfigNext
  <2>1. LoadMultisigConfig' = LoadMultisigConfig
    BY <1>5, ConfigStepKeepsSigners, ConfigUnchanged DEF MapInv
  <2> QED
    BY <1>5, <2>1, ConfigFrame, SuccessionStutters DEF adminVars
<1>6. CASE UpgradeNext \/ JobNext
  <2>1. UNCHANGED <<adminVars, proposalVars>>
    BY <1>6, UpgradeFrame, JobFrame
  <2>2. LoadMultisigConfig' = LoadMultisigConfig
    BY <1>6, UpgradeFrame, JobFrame, MoveKeepsAnswers, ConfigUnchanged DEF coldVars
  <2> QED
    BY <2>1, <2>2, SuccessionStutters DEF adminVars
<1>7. CASE UNCHANGED vars
  BY <1>1, <1>7 DEF vars, adminVars
<1> QED
  BY <1>2, <1>3, <1>4, <1>5, <1>6, <1>7 DEF Next

\* For any addresses, signer sets and numbers of proposals, through every migration:
\* the admin and the signers change only as Succession allows.
THEOREM PlatformImplementsSuccession ==
  ASSUME LegacyIds \cap Proposals = {}
  PROVE  Spec => ImplementsSuccession
<1>1. Init => MapInv
  BY TypedInit, ProposalInvInit, SetupInit, BitsInit DEF MapInv
<1>2. MapInv /\ [Next]_vars => MapInv'
  BY TypedStep, ProposalInvStep, SetupStep, BitsStep DEF MapInv
<1>3. Init => Heirs!Init
  BY <1>1, SuccessionInit
<1>4. MapInv /\ MapInv' /\ [Next]_vars => [Heirs!Next]_Heirs!vars
  BY SuccessionStep
<1> QED
  BY <1>1, <1>2, <1>3, <1>4, PTL DEF Spec, ImplementsSuccession, Heirs!Spec
=============================================================================
