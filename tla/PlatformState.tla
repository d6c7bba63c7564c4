----------------------------- MODULE PlatformState -----------------------------
(***************************************************************************)
(* What one escrow contract stores for the platform that runs it: the root *)
(* admin and the narrower roles, the multisig signers and their proposals, *)
(* the rarely used configuration, and the layout all of it is stored in.   *)
(* Of the job itself only what these entry points look at is here.         *)
(*                                                                         *)
(* An entry that may be absent is the set of its values: empty, or with    *)
(* one element.  As in EscrowState a call is one step, and the locks that  *)
(* set_platform_fee_allocation takes and releases inside it are left out.  *)
(***************************************************************************)
EXTENDS Integers, Sequences, FiniteSetsExt

CONSTANTS
    Address,
    InitAdmin,          \* the admin a deployment starts with
    Setups,             \* signer sets with a threshold that are tried
    MaxSigners,         \* MAX_MULTISIG_SIGNERS
    MaxProposals,       \* bound of the model on AdminProposalCounter
    LegacyIds,          \* ids that a transfer proposed by older code may carry
    Token,              \* token contracts
    MaxWhitelist,       \* MAX_WHITELIST_SIZE
    Shares,             \* basis points that are tried for yields and fees
    InitCount,          \* milestones of the job
    MaxMilestones,      \* MAX_MILESTONES
    MaxVersion          \* bound of the model on the number of upgrades

AdminRole == {"Upgrader", "Operator", "FeeManager", "Resolver"}
ColdKey   == {"whitelist", "multisig", "yield", "fee"}
Slots     == 0..(MaxMilestones - 1)

BpsScale      == 10000
SchemaVersion == 3

MultiSigConfig == [signers: Seq(Address), threshold: Int]

ASSUME PlatformAssumption ==
    /\ IsFiniteSet(Address) /\ InitAdmin \in Address
    /\ Setups \subseteq MultiSigConfig
    /\ MaxSigners \in Nat /\ MaxProposals \in Nat /\ LegacyIds \subseteq Nat
    /\ MaxWhitelist \in Nat /\ Shares \subseteq Nat
    /\ MaxMilestones \in Nat \ {0} /\ InitCount \in 1..MaxMilestones
    /\ MaxVersion \in Nat

VARIABLES
    admin,              \* DataKey::Admin, the persistent copy
    instanceAdmin,      \* DataKey::Admin, the instance copy
    roles,              \* DataKey::AdminRole(role)
    counter,            \* DataKey::AdminProposalCounter
    records,            \* DataKey::AdminProposal(id)
    pendingTransfer,    \* DataKey::PendingAdminTransfer
    pendingConfig,      \* DataKey::PendingMultiSigConfig
    persistent,         \* the cold configuration, where this code writes it
    instance,           \* and where older code wrote it
    legacySigners,      \* MultiSigSigners and MultiSigThreshold of the oldest code
    yieldRate,          \* DataKey::YieldConfig
    schema,             \* DataKey::SchemaVersion, 1 when absent
    version,            \* DataKey::Version
    shapes,             \* the layout each stored milestone was written in
    count,              \* JobMeta.milestone_count
    funded,             \* JobMeta.funded
    paused,             \* DataKey::Paused
    agreed              \* not storage: see PlatformConfig

adminVars    == <<admin, instanceAdmin, roles>>
proposalVars == <<counter, records, pendingTransfer, pendingConfig>>
coldVars     == <<persistent, instance, legacySigners>>
layoutVars   == <<schema, version, shapes>>
jobVars      == <<count, funded, paused>>
yieldVars    == <<yieldRate, agreed>>
vars == <<adminVars, proposalVars, coldVars, yieldVars, layoutVars, jobVars>>

-----------------------------------------------------------------------------
(***************************************************************************)
(* Stored values.                                                          *)
(***************************************************************************)
ProposalStatus == {"Pending", "Executed", "Cancelled"}

\* A bit of approvals_bitmap is an index into the signer vec.
Proposal == [subject: Address, status: ProposalStatus, bitmap: SUBSET (1..MaxSigners)]

Transfer == [to: Address, id: Nat]
Change   == [setup: MultiSigConfig, id: Nat]

YieldState    == [client: Nat, locked: BOOLEAN]
FeeAllocation == [client: Nat, freelancer: Nat, treasury: Nat, locked: BOOLEAN]

ColdValue(key) ==
    CASE key = "whitelist" -> SUBSET Token
      [] key = "multisig"  -> MultiSigConfig
      [] key = "yield"     -> YieldState
      [] key = "fee"       -> FeeAllocation

Proposals == 1..MaxProposals
HasRecord(id) == id \in 1..counter

-----------------------------------------------------------------------------
(***************************************************************************)
(* Reads.                                                                  *)
(***************************************************************************)
\* cold_get.
ColdGet(key) == IF persistent[key] # {} THEN persistent[key] ELSE instance[key]

\* load_multisig_config.
LoadMultisigConfig ==
    IF ColdGet("multisig") # {} THEN ColdGet("multisig") ELSE legacySigners

\* The client's share of the yield that is configured, if any.
SharesIn(option)  == {y.client: y \in option}
ConfiguredShares  == SharesIn(ColdGet("yield"))

\* The address that require_role lets act in a role; also get_admin_role.
HolderOf(role) == IF roles[role] # {} THEN roles[role] ELSE {instanceAdmin}

\* ensure_migrated, on a contract that was initialized.
Migrated == schema >= SchemaVersion

\* How every writer stores cold configuration.
StoreCold(key, value) ==
    /\ persistent' = [persistent EXCEPT ![key] = {value}]
    /\ UNCHANGED <<instance, legacySigners>>

-----------------------------------------------------------------------------
(***************************************************************************)
(* Deployments that this code can find itself running.                     *)
(***************************************************************************)
NothingStored == [key \in ColdKey |-> {}]

DefaultFee == [client |-> 0, freelancer |-> BpsScale, treasury |-> 0, locked |-> FALSE]

\* What initialize_inner stores.
ConstructorConfig(token) ==
    [NothingStored EXCEPT !["whitelist"] = {{token}}, !["fee"] = {DefaultFee}]

\* validate_multisig_setup.
ValidSetup(c) ==
    /\ Len(c.signers) \in 1..MaxSigners
    /\ c.threshold \in 1..Len(c.signers)
    /\ \A i, j \in DOMAIN c.signers: c.signers[i] = c.signers[j] => i = j

NoSetup    == {{}}
AnySetup   == NoSetup \cup {{c}: c \in {c \in Setups: ValidSetup(c)}}
AnyYield   == {{}} \cup {{[client |-> s, locked |-> l]}: s \in Shares, l \in BOOLEAN}

\* What the setters may have made of it since.
ChangedConfig(token, setup, yield) ==
    [ConstructorConfig(token) EXCEPT !["multisig"] = setup, !["yield"] = yield]

StoredAs(schemaVersion, shape) ==
    /\ schema = schemaVersion
    /\ shapes = [i \in Slots |-> IF i < InitCount THEN shape ELSE 0]

\* Deployed by this code, by its constructor.
FreshDeployment ==
    /\ StoredAs(3, 3) /\ funded = FALSE
    /\ \E t \in Token: persistent = ConstructorConfig(t)
    /\ instance = NothingStored /\ legacySigners = {} /\ pendingTransfer = {}

\* Written by code that moved the configuration but had no deliverable hashes.
SecondSchema ==
    /\ StoredAs(2, 2) /\ funded \in BOOLEAN
    /\ \E t \in Token, m \in AnySetup, y \in AnyYield:
          persistent = ChangedConfig(t, m, y)
    /\ instance = NothingStored /\ legacySigners = {} /\ pendingTransfer = {}

\* Written before the layout was numbered: the configuration may be in either
\* place or, where it was changed after it began to move, in both.  A transfer
\* proposed before proposals had records is still pending, perhaps.
FirstSchema ==
    /\ \E shape \in {1, 2}: StoredAs(1, shape)
    /\ funded \in BOOLEAN
    /\ \E t \in Token, m \in AnySetup, y \in AnyYield:
          instance = ChangedConfig(t, m, y)
    /\ \E t \in Token: persistent \in {NothingStored, [NothingStored EXCEPT !["whitelist"] = {{t}}]}
    /\ legacySigners \in IF instance["multisig"] = {} THEN AnySetup ELSE NoSetup
    /\ pendingTransfer \in
          {{}} \cup {{[to |-> a, id |-> n]}: a \in Address, n \in LegacyIds}

Init ==
    /\ admin = InitAdmin /\ instanceAdmin = InitAdmin
    /\ roles = [r \in AdminRole |-> {}]
    /\ counter = 0 /\ pendingConfig = {}
    /\ records = [id \in Proposals |->
                    [subject |-> InitAdmin, status |-> "Cancelled", bitmap |-> {}]]
    /\ yieldRate = 0 /\ version = 1
    /\ count = InitCount /\ paused = FALSE
    /\ FreshDeployment \/ SecondSchema \/ FirstSchema
    /\ agreed = ConfiguredShares
=============================================================================
