----------------------------- MODULE PlatformUpgrade -----------------------------
(***************************************************************************)
(* Replacing the code and bringing what older code stored up to its        *)
(* layout.  Between the two, entry points that start with ensure_migrated  *)
(* refuse; the others go on.                                               *)
(***************************************************************************)
EXTENDS PlatformConfig

\* upgrade: from here on the contract runs this code.
Upgrade ==
    /\ ~paused /\ version < MaxVersion
    /\ version' = version + 1
    /\ UNCHANGED <<adminVars, proposalVars, coldVars, yieldVars, schema, shapes, jobVars>>

-----------------------------------------------------------------------------
\* Mutant of MigratedColdEntry: the older copy replaces the newer one.
OverwrittenColdEntry(key) == IF instance[key] # {} THEN instance[key] ELSE persistent[key]

\* migrate_cold_entry: a persistent copy is newer and is kept.
MigratedColdEntry(key) == IF persistent[key] = {} THEN instance[key] ELSE persistent[key]

\* move_cold_config, which also folds in the signers of the oldest code.
MoveColdConfig ==
    /\ persistent' = [key \in ColdKey |->
          IF key = "multisig" /\ MigratedColdEntry(key) = {} THEN legacySigners
          ELSE MigratedColdEntry(key)]
    /\ instance' = NothingStored
    /\ legacySigners' = {}

\* migrate_cold_config: at any time, any number of times.
MigrateColdConfig ==
    /\ MoveColdConfig
    /\ UNCHANGED <<adminVars, proposalVars, yieldVars, layoutVars, jobVars>>

\* Mutant of MigratedShape: a milestone that has a spec_hash is taken for done.
ShapeOfFirstStep(shape) == IF shape = 1 THEN SchemaVersion ELSE shape

\* migrate_milestones_to_v3, for one stored milestone; the rest of it is kept.
MigratedShape(shape) == IF shape < SchemaVersion THEN SchemaVersion ELSE shape

Migrate ==
    /\ schema < SchemaVersion
    /\ \A i \in 0..(count - 1): shapes[i] # 0
    /\ shapes' = [i \in Slots |-> IF i < count THEN MigratedShape(shapes[i]) ELSE shapes[i]]
    /\ IF schema < 2 THEN MoveColdConfig ELSE UNCHANGED coldVars
    /\ schema' = SchemaVersion
    /\ UNCHANGED <<adminVars, proposalVars, yieldVars, version, jobVars>>

-----------------------------------------------------------------------------
(***************************************************************************)
(* What happens to the job meanwhile.                                      *)
(***************************************************************************)
\* fund.
Fund ==
    /\ Migrated /\ ~paused /\ ~funded
    /\ funded' = TRUE
    /\ agreed' = ConfiguredShares
    /\ UNCHANGED <<adminVars, proposalVars, coldVars, yieldRate, layoutVars, count, paused>>

\* Mutant of RoomLeft: one too many.
RoomForOneMore == count <= MaxMilestones

RoomLeft == count < MaxMilestones

\* add_milestone does not ask whether storage was migrated.
AddMilestone ==
    /\ ~paused /\ funded /\ RoomLeft
    /\ shapes' = [shapes EXCEPT ![count] = SchemaVersion]
    /\ count' = count + 1
    /\ UNCHANGED <<adminVars, proposalVars, coldVars, yieldVars, schema, version, funded, paused>>

\* admin_pause_escrow and admin_resume_escrow do not either.
SetPaused(p) ==
    /\ paused # p
    /\ paused' = p
    /\ UNCHANGED <<adminVars, proposalVars, coldVars, yieldVars, layoutVars, count, funded>>

AdminPauseEscrow  == SetPaused(TRUE)
AdminResumeEscrow == SetPaused(FALSE)

-----------------------------------------------------------------------------
UpgradeNext ==
    \/ Upgrade
    \/ MigrateColdConfig
    \/ Migrate

JobNext ==
    \/ Fund
    \/ AddMilestone
    \/ AdminPauseEscrow
    \/ AdminResumeEscrow
=============================================================================
