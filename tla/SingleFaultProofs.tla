-------------------------- MODULE SingleFaultProofs --------------------------
(***************************************************************************)
(* A machine of upgrades and resets that meets a single fault, a failed    *)
(* call or a power loss, boots again.                                      *)
(***************************************************************************)
EXTENDS ResetProofs

USE DEF persistentVars, volatileVars, runVars, cmdVars, vars, resetVars, allVars
USE DEF MountTree, Extract, DropTree, MakeImage, CopyTree, Squash, CleanThen, CleanTreeJob
USE DEF Goto, Abort
-----------------------------------------------------------------------------
(* The recovery image, whatever commands run.                              *)

\* A step of an upgrade succeeds or fails, and keeps what the upgrade found.
LEMMA UpgradeStepKeeps ==
  UpgradeStep => /\ cmd = "upgrade" /\ cmd' = "upgrade" /\ pc \in Running
                 /\ UNCHANGED <<start, loaded, spec, runs, stateFS>> /\ (Succeeds \/ Fails)
                 /\ pc' # "ready"
<1> SUFFICES ASSUME UpgradeStep
             PROVE  /\ pc \in Running /\ UNCHANGED <<start, loaded, spec, runs>> /\ (Succeeds \/ Fails)
                    /\ pc' # "ready"
  BY DEF UpgradeStep
<1> USE DEF Running
<1>1. CASE \/ MountState \/ MountRecovery \/ MountPersistent \/ BeforeHook \/ AfterHook \/ PostHook
           \/ BindTree \/ DumpSource \/ DumpFailed
  BY <1>1
  DEF MountState, MountRecovery, MountPersistent, BeforeHook, AfterHook, PostHook, RunHook,
      BindTree, DumpSource, DumpFailed, TreeCleaner, TreeUnmounts, RemovalFails
<1>2. CASE \/ SelinuxRelabel \/ ChrootHook \/ SetGrubVariables \/ SetDefaultGrubEntry
           \/ CreateImage \/ FillImage \/ SquashImage \/ CleanTree
  BY <1>2
  DEF SelinuxRelabel, ChrootHook, ChrootedCallback, SetGrubVariables, SetDefaultGrubEntry,
      CreateImage, FillImage, SquashImage, ImgFails, CleanTree, TreeCleaner, TreeUnmounts, RemovalFails
<1>3. CASE Backup \/ LabelPassive \/ Swap \/ Sync \/ WriteStateYaml \/ WriteRecoveryYaml
  BY <1>3
  DEF Backup, LabelPassive, Swap, Sync, WriteStateYaml, WriteRecoveryYaml, WriteYaml, Succeeds
<1>4. CASE JobUmount \/ JobRemountRO \/ JobRemove \/ JobCleanTree \/ CleanupDone \/ PowerAction
  BY <1>4
  DEF JobUmount, JobRemountRO, JobRevertMount, JobRemove, JobCleanTree, PopJob, TreeCleaner,
      TreeUnmounts, RemovalFails, CleanupDone, PowerAction, PoweredOff, Succeeds
<1> QED
  BY <1>1, <1>2, <1>3, <1>4 DEF UpgradeStep, Step

\* The recovery image changes only when an upgrade renames a complete one over it, and when
\* power is lost.
RecoveryReplaced ==
  /\ cmd = "upgrade" /\ pc = "swap" /\ pc' = "sync" /\ spec.recovery /\ Succeeds
  /\ disk'["recovery"].ok /\ disk'["recovery"].fs = spec.recoveryFS
  /\ disk'["recovery"].label = spec.recoveryLabel

LEMMA RecoveryInUpgrade ==
  MachineTypes /\ HistoryInv /\ UpgradeStep => SameRecovery \/ RecoveryReplaced
<1> SUFFICES ASSUME MachineTypes, HistoryInv, UpgradeStep PROVE SameRecovery \/ RecoveryReplaced
  OBVIOUS
<1>0. cmd = "upgrade" /\ TypeOK /\ Step /\ disk \in [Slot -> Image] /\ "recovery" \in Slot
  BY Components DEF UpgradeStep, MachineTypes, Slot
<1>1. CASE disk'["recovery"] = disk["recovery"]
  BY <1>1 DEF SameRecovery
<1>2. CASE disk' = Synced(disk)
  BY <1>0, <1>2, SyncKeepsFiles DEF SameRecovery
<1>3. CASE CreateImage \/ FillImage \/ SquashImage \/ JobRemove
  <2>1. disk'["recovery"] = disk["recovery"]
    BY <1>0, <1>3, TransSlotOther DEF CreateImage, FillImage, SquashImage, JobRemove, SystemSlot
  <2> QED
    BY <1>1, <2>1
<1>4. CASE Backup
  <2>1. disk'["recovery"] = disk["recovery"]
    BY <1>0, <1>4 DEF Backup, Renamed, Slot
  <2> QED
    BY <1>1, <2>1
<1>5. CASE LabelPassive
  <2>1. CASE disk' = Synced([disk EXCEPT !["passive"].label = spec.passiveLabel])
    <3> DEFINE d == [disk EXCEPT !["passive"].label = spec.passiveLabel]
    <3>1. d \in [Slot -> Image] /\ disk' = Synced(d)
      BY <1>0, <2>1, Relabelled
    <3>2. d["recovery"] = disk["recovery"]
      BY <1>0
    <3> HIDE DEF d
    <3> QED
      BY <1>0, <3>1, <3>2, SyncKeepsFiles DEF SameRecovery
  <2> QED
    BY <1>1, <1>5, <2>1 DEF LabelPassive
<1>6. CASE Swap
  <2>1. CASE disk' = Renamed(TransSlot, FinalSlot) /\ Succeeds /\ pc' = "sync"
    <3>1. CASE ~spec.recovery
      BY <1>0, <1>1, <2>1, <3>1, SwapMoves
    <3>2. CASE spec.recovery
      <4>1. disk[TransSlot].ok /\ disk[TransSlot].fs = ImageFS /\ disk[TransSlot].label = ImageLabel
        BY <1>0, <1>6 DEF Swap, HistoryInv, RecoveryTracked, ImageReady
      <4>2. disk'["recovery"] = disk[TransSlot]
        BY <1>0, <2>1, <3>2, SwapMoves
      <4> QED
        BY <1>0, <1>6, <2>1, <3>2, <4>1, <4>2 DEF RecoveryReplaced, Swap, ImageFS, ImageLabel
    <3> QED
      BY <3>1, <3>2
  <2> QED
    BY <1>1, <1>6, <2>1 DEF Swap
<1>7. \/ disk' = disk \/ disk' = Synced(disk) \/ CreateImage \/ FillImage \/ SquashImage
      \/ JobRemove \/ Backup \/ LabelPassive \/ Swap
  BY <1>0
  DEF Step, MountState, MountRecovery, MountPersistent, BeforeHook, AfterHook, PostHook, RunHook,
      BindTree, DumpSource, DumpFailed, SelinuxRelabel, ChrootHook, SetGrubVariables,
      SetDefaultGrubEntry, CleanTree, Sync, WriteStateYaml, WriteRecoveryYaml, JobUmount,
      JobRemountRO, JobRevertMount, JobCleanTree, CleanupDone, PowerAction
<1> QED
  BY <1>1, <1>2, <1>3, <1>4, <1>5, <1>6, <1>7

\* A reset writes it back at most.
LEMMA RecoveryInReset == MachineTypes /\ ResetStep => SameRecovery
<1> SUFFICES ASSUME MachineTypes, ResetStep PROVE SameRecovery
  OBVIOUS
<1>1. disk \in [Slot -> Image] /\ "recovery" \in Slot
  BY Components DEF Slot
<1>2. CASE disk'["recovery"] = disk["recovery"]
  BY <1>2 DEF SameRecovery
<1>3. CASE disk' = Synced(disk)
  BY <1>1, <1>3, SyncKeepsFiles DEF SameRecovery
<1> QED
  BY <1>2, <1>3, ResetSparesRecovery DEF PowerAction

LEMMA RecoveryMoves ==
  ASSUME MachineTypes, HistoryInv, [MachineNext]_allVars, ~PowerLoss
  PROVE  SameRecovery \/ RecoveryReplaced
<1>0. disk \in [Slot -> Image] /\ "recovery" \in Slot
  BY Components DEF Slot
<1>1. CASE disk' = disk
  BY <1>1 DEF SameRecovery
<1>2. CASE disk' = Synced(disk)
  BY <1>0, <1>2, SyncKeepsFiles DEF SameRecovery
<1>3. CASE ResetStep
  BY <1>3, RecoveryInReset
<1>4. CASE CallUpgrade \/ CallReset
  BY <1>1, <1>4 DEF CallUpgrade, StartUpgrade, CallReset, StartReset
<1>5. CASE Reboot \/ \E s \in SystemSlot : Boot(s)
  BY <1>1, <1>2, <1>5 DEF Reboot, Boot
<1> QED
  BY <1>1, <1>3, <1>4, <1>5, RecoveryInUpgrade, MachineSteps

\* On a machine whose recovery image is ext2 and whose configuration changes no file system,
\* the recovery image has the label that every record and the GRUB environment have for it.
NamedSystem(entry) == entry.fs = "ext2" /\ entry.label = "COS_SYSTEM"
RecoveryNamed ==
  /\ NamedSystem(disk["recovery"]) /\ grub["recovery"] = "COS_SYSTEM"
  /\ NamedSystem(loaded.recovery) /\ \A p \in ImgPart : NamedSystem(yaml[p].recovery)

\* A command loads such a record.
LEMMA NamedLoaded == RecoveryNamed => NamedSystem(LoadedState.recovery)
<1> SUFFICES ASSUME RecoveryNamed PROVE NamedSystem(LoadedState.recovery)
  OBVIOUS
<1>1. CASE LoadedState \in {yaml[p] : p \in ImgPart}
  BY <1>1 DEF RecoveryNamed
<1>2. CASE \E file : LoadedState = [Defaults EXCEPT !.file = file]
  <2>1. LoadedState.recovery.fs = "ext2" /\ LoadedState.recovery.label = "COS_SYSTEM"
    BY <1>2 DEF Defaults
  <2> QED
    BY <2>1 DEF NamedSystem
<1> QED
  BY <1>1, <1>2 DEF LoadedState, ImgPart

\* The records that an upgrade writes.
LEMMA NamedNew ==
  ASSUME TypeOK, HistoryInv, RecoveryNamed, pc \notin {"ready", "off"}
  PROVE  NamedSystem(NewInstallState.recovery)
<1>1. CASE ~spec.recovery
  BY <1>1, NewRecord DEF RecoveryNamed
<1>2. CASE spec.recovery
  <2> DEFINE img == [src |-> {runs}, fs |-> ImageFS, label |-> ImageLabel]
  <2>1. NewInstallState
          = [[loaded EXCEPT !.file = "whole"] EXCEPT !.recovery = img, !.recoveryNull = FALSE]
    BY <1>2 DEF NewInstallState
  <2>2. img.fs = spec.recoveryFS /\ img.label = spec.recoveryLabel
    BY <1>2 DEF ImageFS, ImageLabel
  <2> HIDE DEF img
  <2>3. NewInstallState.recovery = img
    BY <2>1 DEF TypeOK, RunOK, InstallState
  <2>4. spec.recoveryFS = "ext2" /\ spec.recoveryLabel = "COS_SYSTEM"
    BY Zenon DEF HistoryInv, SpecTracked, RecoveryNamed, NamedSystem
  <2> QED
    BY <2>2, <2>3, <2>4 DEF NamedSystem
<1> QED
  BY <1>1, <1>2

\* What an upgrade does to the records and to the GRUB environment.
LEMMA UpgradeWrites ==
  MachineTypes /\ UpgradeStep =>
    /\ \/ grub' = grub \/ grub' = GrubLabels
       \/ \E set \in SUBSET SystemSlot :
            grub' = [s \in SystemSlot |-> IF s \in set THEN GrubLabels[s] ELSE grub[s]]
    /\ \/ yaml' = yaml
       \/ \E p \in ImgPart : yaml' = [yaml EXCEPT ![p] = NewInstallState] /\ Succeeds
       \/ \E p \in ImgPart : \E file : yaml' = [yaml EXCEPT ![p].file = file] /\ Fails
<1> SUFFICES ASSUME MachineTypes, Step
             PROVE  /\ \/ grub' = grub \/ grub' = GrubLabels
                       \/ \E set \in SUBSET SystemSlot :
                            grub' = [s \in SystemSlot |-> IF s \in set THEN GrubLabels[s] ELSE grub[s]]
                    /\ \/ yaml' = yaml
                       \/ \E p \in ImgPart : yaml' = [yaml EXCEPT ![p] = NewInstallState] /\ Succeeds
                       \/ \E p \in ImgPart : \E file : yaml' = [yaml EXCEPT ![p].file = file] /\ Fails
  BY DEF UpgradeStep
<1>1. CASE \/ MountState \/ MountRecovery \/ MountPersistent \/ BeforeHook \/ AfterHook \/ PostHook
           \/ BindTree \/ DumpSource \/ DumpFailed \/ SelinuxRelabel \/ ChrootHook
           \/ SetDefaultGrubEntry \/ CreateImage \/ FillImage \/ SquashImage \/ CleanTree
  BY <1>1
  DEF MountState, MountRecovery, MountPersistent, BeforeHook, AfterHook, PostHook, RunHook,
      BindTree, DumpSource, DumpFailed, SelinuxRelabel, ChrootHook, SetDefaultGrubEntry,
      CreateImage, FillImage, SquashImage, CleanTree
<1>2. CASE \/ Backup \/ LabelPassive \/ Swap \/ Sync \/ JobUmount \/ JobRemountRO \/ JobRemove
           \/ JobCleanTree \/ CleanupDone \/ PowerAction
  BY <1>2
  DEF Backup, LabelPassive, Swap, Sync, JobUmount, JobRemountRO, JobRevertMount, JobRemove,
      JobCleanTree, CleanupDone, PowerAction, PoweredOff
<1>3. CASE SetGrubVariables
  BY <1>3 DEF SetGrubVariables
<1>4. CASE WriteStateYaml \/ WriteRecoveryYaml
  <2>1. \/ WriteYaml("state", NewInstallState, "recoveryYaml", "state.yaml")
        \/ WriteYaml("recovery", NewInstallState, "cleanup", "state.yaml")
        \/ yaml' = yaml
    BY <1>4 DEF WriteStateYaml, WriteRecoveryYaml
  <2>2. /\ grub' = grub
        /\ \/ yaml' = yaml
           \/ \E p \in ImgPart : yaml' = [yaml EXCEPT ![p] = NewInstallState] /\ Succeeds
           \/ \E p \in ImgPart : \E file : yaml' = [yaml EXCEPT ![p].file = file] /\ Fails
    BY <1>4, <2>1 DEF WriteStateYaml, WriteRecoveryYaml, WriteYaml, ImgPart
  <2> QED
    BY <2>2
<1> QED
  BY <1>1, <1>2, <1>3, <1>4 DEF Step

LEMMA NamedUpgrade == MachineTypes /\ HistoryInv /\ RecoveryNamed /\ UpgradeStep => RecoveryNamed'
<1> SUFFICES ASSUME MachineTypes, HistoryInv, RecoveryNamed, UpgradeStep PROVE RecoveryNamed'
  OBVIOUS
<1>1. /\ cmd = "upgrade" /\ pc \notin {"ready", "off"} /\ loaded' = loaded /\ TypeOK
  BY UpgradeStepKeeps DEF Running, MachineTypes
<1>2. spec.recoveryFS = "ext2" /\ spec.recoveryLabel = "COS_SYSTEM"
  BY <1>1, Zenon DEF HistoryInv, SpecTracked, RecoveryNamed, NamedSystem
<1>3. NamedSystem(disk'["recovery"])
  BY <1>2, RecoveryInUpgrade DEF RecoveryNamed, NamedSystem, SameRecovery, RecoveryReplaced
<1>4. grub'["recovery"] = "COS_SYSTEM"
  BY <1>2, UpgradeWrites DEF RecoveryNamed, GrubLabels, SystemSlot
<1>5. ASSUME NEW p \in ImgPart PROVE NamedSystem(yaml'[p].recovery)
  <2>1. yaml \in [ImgPart -> InstallState] /\ NamedSystem(yaml[p].recovery)
    BY Components DEF RecoveryNamed
  <2>2. CASE \E q \in ImgPart : yaml' = [yaml EXCEPT ![q] = NewInstallState]
    BY <1>1, <2>1, <2>2, NamedNew
  <2>3. CASE \E q \in ImgPart : \E file : yaml' = [yaml EXCEPT ![q].file = file]
    <3>0. PICK q \in ImgPart : \E file : yaml' = [yaml EXCEPT ![q].file = file]
      BY <2>3
    <3>1. PICK file : yaml' = [yaml EXCEPT ![q].file = file]
      BY <3>0
    <3>2. yaml'[p] = yaml[p] \/ yaml'[p] = [yaml[p] EXCEPT !.file = file]
      BY <2>1, <3>1
    <3>3. yaml'[p].recovery = yaml[p].recovery
      BY <2>1, <3>2 DEF InstallState
    <3> QED
      BY <2>1, <3>3
  <2> QED
    BY <2>1, <2>2, <2>3, UpgradeWrites
<1> QED
  BY <1>1, <1>3, <1>4, <1>5 DEF RecoveryNamed

\* What a reset does to the GRUB environment.
LEMMA ResetSetsGrub ==
  ResetStep => \/ grub' = grub
               \/ grub' = DefaultLabels /\ FormatState
               \/ grub' = ResetLabels /\ SetResetVariables
               \/ \E set \in SUBSET SystemSlot :
                    /\ SetResetVariables
                    /\ grub' = [s \in SystemSlot |-> IF s \in set THEN ResetLabels[s] ELSE grub[s]]
<1> SUFFICES ASSUME ResetStep, grub' # grub
             PROVE  \/ grub' = DefaultLabels /\ FormatState
                    \/ grub' = ResetLabels /\ SetResetVariables
                    \/ \E set \in SUBSET SystemSlot :
                         /\ SetResetVariables
                         /\ grub' = [s \in SystemSlot |-> IF s \in set THEN ResetLabels[s] ELSE grub[s]]
  OBVIOUS
<1>1. FormatState \/ SetResetVariables
  <2>1. /\ ~UnmountAll /\ ~FormatData /\ ~MountAll /\ ~BeforeReset /\ ~DeployActive /\ ~DumpActive
        /\ ~DumpActiveFailed /\ ~InstallGrub /\ ~RelabelReset /\ ~ChrootReset /\ ~AfterReset
    BY DEF UnmountAll, FormatData, MountAll, BeforeReset, RunHook, DeployActive, DumpActive,
           DumpActiveFailed, InstallGrub, RelabelReset, ChrootReset, AfterReset
  <2>2. /\ ~ResetEntry /\ ~CreateActive /\ ~FillActive /\ ~SquashActive /\ ~CleanActive
        /\ ~CopyPassive /\ ~PostReset /\ ~MountRecoveryRW /\ ~WriteResetYaml /\ ~WriteResetRecoveryYaml
    BY DEF ResetEntry, RunHook, CreateActive, FillActive, SquashActive,
           CleanActive, CopyPassive, PostReset, MountRecoveryRW, WriteResetYaml, WriteResetRecoveryYaml
  <2>3. /\ ~JobCleanActive /\ ~JobUnmountAll /\ ~JobUmount /\ ~JobRemountRO /\ ~CleanupDone
        /\ ~PowerAction
    BY DEF JobCleanActive, JobUnmountAll, JobUmount, JobRemountRO, JobRevertMount, CleanupDone,
           PowerAction, PoweredOff
  <2> QED
    BY <2>1, <2>2, <2>3 DEF ResetStep
<1>2. CASE FormatState
  BY <1>2 DEF FormatState, StateWiped
<1>3. CASE SetResetVariables
  BY <1>3 DEF SetResetVariables
<1> QED
  BY <1>1, <1>2, <1>3

LEMMA NamedReset == MachineTypes /\ HistoryInv /\ RecoveryNamed /\ ResetStep => RecoveryNamed'
<1> SUFFICES ASSUME MachineTypes, HistoryInv, RecoveryNamed, ResetStep PROVE RecoveryNamed'
  OBVIOUS
<1>1. cmd = "reset" /\ loaded' = loaded
  BY ResetStepKeeps
<1>2. NamedSystem(disk'["recovery"])
  BY RecoveryInReset DEF RecoveryNamed, NamedSystem, SameRecovery
<1>3. grub'["recovery"] = "COS_SYSTEM"
  BY ResetSetsGrub DEF RecoveryNamed, NamedSystem, ResetLabels, DefaultLabels, SystemSlot
<1>4. ASSUME NEW p \in ImgPart PROVE NamedSystem(yaml'[p].recovery)
  <2>1. yaml \in [ImgPart -> InstallState] /\ NamedSystem(yaml[p].recovery)
    BY Components DEF RecoveryNamed
  <2>2. CASE yaml' = [yaml EXCEPT !["state"] = Defaults]
    <3>1. Defaults.recovery.fs = "ext2" /\ Defaults.recovery.label = "COS_SYSTEM"
      BY DEF Defaults
    <3> QED
      BY <2>1, <2>2, <3>1 DEF NamedSystem
  <2>3. CASE \E q \in ImgPart : yaml' = [yaml EXCEPT ![q] = ResetState]
    <3>1. ResetState.recovery = loaded.recovery
      BY DEF ResetState
    <3> QED
      BY <2>1, <2>3, <3>1 DEF RecoveryNamed
  <2>4. CASE \E q \in ImgPart : \E file : yaml' = [yaml EXCEPT ![q] = [yaml[q] EXCEPT !.file = file]]
    <3>0. PICK q \in ImgPart : \E file : yaml' = [yaml EXCEPT ![q] = [yaml[q] EXCEPT !.file = file]]
      BY <2>4
    <3>1. PICK file : yaml' = [yaml EXCEPT ![q] = [yaml[q] EXCEPT !.file = file]]
      BY <3>0
    <3>2. yaml'[p] = yaml[p] \/ yaml'[p] = [yaml[p] EXCEPT !.file = file]
      BY <2>1, <3>1
    <3>3. yaml'[p].recovery = yaml[p].recovery
      BY <2>1, <3>2 DEF InstallState
    <3> QED
      BY <2>1, <3>3
  <2> QED
    BY <2>1, <2>2, <2>3, <2>4, ResetWrites
<1> QED
  BY <1>1, <1>2, <1>3, <1>4 DEF RecoveryNamed

\* What a power loss, a reboot and a boot do to an image.
LEMMA PowerMoves ==
  ASSUME MachineTypes, PowerLoss \/ Reboot \/ \E b \in SystemSlot : Boot(b), NEW s \in Slot
  PROVE  /\ disk'[s].fs = disk[s].fs /\ disk'[s].content = disk[s].content
         /\ disk'[s].label = disk[s].label
         /\ disk[s].ok /\ ~disk[s].dirty => disk'[s].ok /\ ~disk'[s].dirty
<1>0. disk \in [Slot -> Image]
  BY Components
<1>1. CASE disk' = disk
  BY <1>1
<1>2. CASE disk' = Synced(disk)
  BY <1>0, <1>2, SyncKeepsFiles
<1>3. CASE PowerLoss
  <2>1. PICK torn \in SUBSET {x \in Slot : disk[x].dirty} :
          disk' = Synced([x \in Slot |-> [disk[x] EXCEPT !.ok = @ /\ x \notin torn]])
    BY <1>3 DEF PowerLoss
  <2>2. disk'[s] = [[disk[s] EXCEPT !.ok = @ /\ s \notin torn] EXCEPT !.dirty = FALSE]
    BY <2>1, Zenon DEF Synced
  <2>3. disk[s].dirty \/ s \notin torn
    BY <2>1
  <2> DEFINE old == disk[s]
             new == disk'[s]
             t == s \in torn
  <2>4. old \in Image /\ new = [[old EXCEPT !.ok = @ /\ ~t] EXCEPT !.dirty = FALSE]
        /\ (old.dirty \/ ~t)
    BY <1>0, <2>2, <2>3
  <2> HIDE DEF old, new, t
  <2>5. new.fs = old.fs /\ new.content = old.content /\ new.label = old.label
    BY <2>4 DEF Image
  <2>6. old.ok /\ ~old.dirty => new.ok /\ ~new.dirty
    BY <2>4 DEF Image
  <2> QED
    BY <2>5, <2>6 DEF old, new
<1> QED
  BY <1>1, <1>2, <1>3 DEF Reboot, Boot

LEMMA NamedStep == MachineTypes /\ HistoryInv /\ RecoveryNamed /\ [MachineNext]_allVars => RecoveryNamed'
<1> SUFFICES ASSUME MachineTypes, HistoryInv, RecoveryNamed, [MachineNext]_allVars PROVE RecoveryNamed'
  OBVIOUS
<1>1. CASE UNCHANGED allVars
  BY <1>1 DEF RecoveryNamed, NamedSystem
<1>2. CASE CallUpgrade \/ CallReset
  <2>1. loaded' = LoadedState /\ UNCHANGED <<disk, yaml, grub>>
    BY <1>2 DEF CallUpgrade, StartUpgrade, CallReset, StartReset
  <2> QED
    BY <2>1, NamedLoaded DEF RecoveryNamed, NamedSystem
<1>3. CASE Reboot \/ PowerLoss \/ \E s \in SystemSlot : Boot(s)
  <2>1. UNCHANGED <<loaded, yaml, grub>>
    BY <1>3 DEF Reboot, PowerLoss, PoweredOff, Boot
  <2>2. disk'["recovery"].fs = disk["recovery"].fs /\ disk'["recovery"].label = disk["recovery"].label
    BY <1>3, PowerMoves DEF Slot
  <2> QED
    BY <2>1, <2>2 DEF RecoveryNamed, NamedSystem
<1> QED
  BY <1>1, <1>2, <1>3, NamedUpgrade, NamedReset, MachineSteps

\* The recovery image of a machine that met no fault, or that has no OEM partition: there no
\* upgrade gets past the GRUB variables, so none replaces the image.
PastGrub == {"defaultEntry", "createImg", "fillImg", "cleanTree", "backup", "label", "swap", "sync"}
RecoveryWhole ==
  /\ faults = 0 \/ ~HasOEM => disk["recovery"].ok
  /\ ~HasOEM /\ cmd = "upgrade" => pc \notin PastGrub

\* An upgrade gets there through the GRUB variables only.
LEMMA ToPastGrub ==
  UpgradeStep /\ pc' \in PastGrub => HasOEM \/ pc \in PastGrub
<1> SUFFICES ASSUME UpgradeStep, pc' \in PastGrub, ~HasOEM PROVE pc \in PastGrub
  OBVIOUS
<1> USE DEF PastGrub
<1>1. CASE \/ MountState \/ MountRecovery \/ MountPersistent \/ BeforeHook \/ AfterHook \/ PostHook
           \/ BindTree \/ DumpSource \/ DumpFailed \/ SelinuxRelabel \/ ChrootHook
  BY <1>1
  DEF MountState, MountRecovery, MountPersistent, BeforeHook, AfterHook, PostHook, RunHook,
      BindTree, DumpSource, DumpFailed, SelinuxRelabel, ChrootHook, ChrootedCallback
<1>2. CASE SetGrubVariables
  BY <1>2 DEF SetGrubVariables
<1>3. CASE \/ SetDefaultGrubEntry \/ CreateImage \/ FillImage \/ SquashImage \/ CleanTree \/ Backup
           \/ LabelPassive \/ Swap \/ Sync
  BY <1>3
  DEF SetDefaultGrubEntry, CreateImage, FillImage, SquashImage, CleanTree, Backup, LabelPassive,
      Swap, Sync
<1>4. CASE \/ WriteStateYaml \/ WriteRecoveryYaml \/ JobUmount \/ JobRemountRO \/ JobRemove
           \/ JobCleanTree \/ CleanupDone \/ PowerAction
  BY <1>4
  DEF WriteStateYaml, WriteRecoveryYaml, WriteYaml, JobUmount, JobRemountRO, JobRevertMount,
      JobRemove, JobCleanTree, PopJob, CleanupDone, PowerAction, PoweredOff
<1> QED
  BY <1>1, <1>2, <1>3, <1>4 DEF UpgradeStep, Step

\* Every step of the machine is of a call that succeeds or of one that fails.
LEMMA StepSucceedsOrFails ==
  MachineTypes /\ [MachineNext]_allVars => Succeeds \/ Fails
<1> SUFFICES ASSUME MachineTypes, [MachineNext]_allVars PROVE Succeeds \/ Fails
  OBVIOUS
<1>1. UNCHANGED allVars => Succeeds
  BY DEF Succeeds
<1>2. CallUpgrade \/ CallReset \/ Reboot \/ (\E s \in SystemSlot : Boot(s)) => Succeeds
  BY DEF CallUpgrade, StartUpgrade, CallReset, StartReset, Reboot, Boot, Succeeds
<1>3. PowerLoss => Fails
  BY DEF PowerLoss
<1> QED
  BY <1>1, <1>2, <1>3, UpgradeStepKeeps, ResetStepKeeps, MachineSteps

\* Only an upgrade that replaced the recovery image and has not synced it can lose it.
LEMMA PowerSpares ==
  ASSUME MachineTypes, HistoryInv, PowerLoss, disk["recovery"].ok
  PROVE  disk'["recovery"].ok \/ (cmd = "upgrade" /\ pc = "sync" /\ spec.recovery)
BY PowerMoves DEF HistoryInv, RecordsInv, Slot

LEMMA WholeStep ==
  MachineTypes /\ HistoryInv /\ RecoveryWhole /\ [MachineNext]_allVars => RecoveryWhole'
<1> SUFFICES ASSUME MachineTypes, HistoryInv, RecoveryWhole, [MachineNext]_allVars PROVE RecoveryWhole'
  OBVIOUS
<1>1. faults \in Nat
  BY Components, UpgradeAssumption
<1>2. ASSUME faults' = 0 \/ ~HasOEM PROVE disk'["recovery"].ok
  <2>1. faults = 0 \/ ~HasOEM
    BY <1>1, <1>2, StepSucceedsOrFails DEF Succeeds, Fails
  <2>2. disk["recovery"].ok
    BY <2>1 DEF RecoveryWhole
  <2>3. CASE PowerLoss
    <3>1. ~HasOEM
      BY <1>1, <1>2, <2>3 DEF PowerLoss, Fails
    <3> QED
      BY <2>2, <2>3, <3>1, PowerSpares DEF RecoveryWhole, PastGrub
  <2>4. CASE ~PowerLoss
    BY <2>2, <2>4, RecoveryMoves DEF SameRecovery, RecoveryReplaced
  <2> QED
    BY <2>3, <2>4
<1>3. ASSUME ~HasOEM, cmd' = "upgrade" PROVE pc' \notin PastGrub
  <2>1. CASE UNCHANGED allVars
    BY <1>3, <2>1 DEF RecoveryWhole
  <2>2. CASE UpgradeStep
    BY <1>3, <2>2, ToPastGrub DEF RecoveryWhole, UpgradeStep
  <2>3. CASE CallUpgrade
    BY <2>3 DEF CallUpgrade, StartUpgrade, PastGrub
  <2>4. CASE Reboot \/ PowerLoss \/ \E s \in SystemSlot : Boot(s)
    BY <2>4 DEF Reboot, PowerLoss, PoweredOff, Boot, PastGrub
  <2>5. CASE ResetStep \/ CallReset
    BY <1>3, <2>5, ResetStepKeeps DEF CallReset, StartReset
  <2> QED
    BY <2>1, <2>2, <2>3, <2>4, <2>5, MachineSteps
<1> QED
  BY <1>2, <1>3 DEF RecoveryWhole

\* Calm: no fault so far, or a single one, which cost the recovery image.
MachineIsCalm == HasOEM /\ (faults = 0 \/ (faults = 1 /\ ~disk["recovery"].ok))

\* The fault that keeps the machine calm is the power loss before the sync of an upgrade.
LEMMA CalmOnly ==
  ASSUME MachineTypes, HistoryInv, RecoveryWhole, [MachineNext]_allVars, MachineIsCalm'
  PROVE  /\ MachineIsCalm
         /\ Succeeds \/ (PowerLoss /\ cmd = "upgrade" /\ pc = "sync" /\ spec.recovery)
<1>1. faults \in Nat /\ HasOEM /\ ~(Succeeds /\ Fails)
  BY Components, UpgradeAssumption, FaultOrNot DEF MachineIsCalm
<1>2. ASSUME ~PowerLoss, disk["recovery"].ok PROVE disk'["recovery"].ok
  BY <1>2, RecoveryMoves DEF SameRecovery, RecoveryReplaced
<1>3. CASE Succeeds
  <2>1. faults' = faults /\ ~PowerLoss
    BY <1>1, <1>3 DEF Succeeds, PowerLoss
  <2> QED
    BY <1>1, <1>2, <1>3, <2>1 DEF MachineIsCalm
<1>4. CASE Fails
  <2>1. faults = 0 /\ ~disk'["recovery"].ok
    BY <1>1, <1>4 DEF Fails, MachineIsCalm
  <2>2. disk["recovery"].ok
    BY <2>1 DEF RecoveryWhole
  <2>3. PowerLoss
    BY <1>2, <2>1, <2>2
  <2> QED
    BY <1>1, <2>1, <2>2, <2>3, PowerSpares DEF MachineIsCalm
<1> QED
  BY <1>3, <1>4, StepSucceedsOrFails

\* The label that a run plans for the active image.
ActivePlanned ==
  pc \notin {"ready", "off"} =>
    spec.activeLabel = IF spec.activeFS = "squashfs" THEN "" ELSE loaded.active.label

LEMMA PlannedStep == MachineTypes /\ ActivePlanned /\ [MachineNext]_allVars => ActivePlanned'
<1> SUFFICES ASSUME MachineTypes, ActivePlanned, [MachineNext]_allVars PROVE ActivePlanned'
  OBVIOUS
<1>1. CASE UNCHANGED allVars
  BY <1>1, Zenon DEF ActivePlanned
<1>2. CASE UpgradeStep
  BY <1>2, UpgradeStepKeeps, Zenon DEF ActivePlanned, Running
<1>3. CASE ResetStep
  <2>1. pc \notin {"ready", "off"} /\ UNCHANGED <<spec, loaded>>
    BY <1>3, ResetStepKeeps, StagesDiffer
  <2> QED
    BY <2>1, Zenon DEF ActivePlanned
<1>4. CASE CallUpgrade \/ CallReset
  <2>1. PICK recovery, sys, rec :
          spec' = NewSpec(recovery, sys, rec) /\ loaded' = LoadedState
    <3>1. CASE CallUpgrade
      BY <3>1 DEF CallUpgrade, StartUpgrade
    <3>2. CASE CallReset
      BY <3>2 DEF CallReset, StartReset
    <3> QED
      BY <1>4, <3>1, <3>2
  <2> QED
    BY <2>1, Zenon DEF ActivePlanned, NewSpec
<1>5. CASE Reboot \/ PowerLoss \/ \E s \in SystemSlot : Boot(s)
  BY <1>5, Zenon DEF Reboot, PowerLoss, PoweredOff, Boot, ActivePlanned
<1> QED
  BY <1>1, <1>2, <1>3, <1>4, <1>5, MachineSteps

\* A reset between the formatting and its end.
Remaking == cmd = "reset" /\ pc \in ResetLive \ {"power", "exited"}

\* The records of a calm machine: whole, of the file system it was installed with, knowing
\* recovery.  A reset formats one copy away and writes it anew.
InstalledFS == yaml["recovery"].active.fs
AsInstalled(state) ==
  /\ state.file = "whole" /\ ~state.recoveryNull /\ state.recovery.src # {}
  /\ state.active.fs = InstalledFS
  /\ InstalledFS = "ext2" => state.active.label = "COS_ACTIVE"
RecordsCalm ==
  /\ AsInstalled(yaml["recovery"]) /\ AsInstalled(loaded)
  /\ ~Remaking => AsInstalled(yaml["state"])

\* The system images: complete and synced, and of the file system recorded.  An ext2 active
\* image has its label and is there but between the renames of an upgrade.
Renaming == cmd = "upgrade" /\ BetweenRenames
SystemThere ==
  /\ \A s \in {"active", "passive"} :
       disk[s].fs # "none" => disk[s].fs = InstalledFS /\ disk[s].ok /\ ~disk[s].dirty
  /\ disk["active"].fs # "none" \/ disk["passive"].fs # "none"
  /\ InstalledFS = "ext2" =>
       /\ Renaming \/ (disk["active"].fs = "ext2" /\ disk["active"].label = "COS_ACTIVE")
       /\ grub["active"] = "COS_ACTIVE"
  /\ cmd = "upgrade" /\ pc = "swap" /\ ~spec.recovery => ~disk["transState"].dirty

\* Nothing is mounted but the scratch tree of a running upgrade.
TreeStage == {"dump", "dumpFailed", "relabel", "chrootHook", "afterHook", "grubVars",
              "defaultEntry", "createImg", "fillImg", "cleanTree"}
TreeBind  == [slot |-> TransSlot, left |-> {}]
NothingHeld ==
  /\ stateFS = "grub" /\ loops = {}
  /\ work = IF cmd = "upgrade" /\ pc \in TreeStage THEN <<TreeBind>> ELSE <<>>

CalmMachine ==
  /\ RecordsCalm
  /\ cmd = "reset" /\ pc \in ResetLive => start.able /\ start.faults = faults
  /\ ~Remaking => SystemThere /\ NothingHeld

\* What a run of a calm machine plans.
LEMMA PlannedCalm ==
  ASSUME MachineTypes, HistoryInv, ActivePlanned, RecordsCalm, pc \notin {"ready", "off"}
  PROVE  /\ spec.activeFS = InstalledFS
         /\ InstalledFS = "ext2" => spec.activeLabel = "COS_ACTIVE"
BY Zenon DEF HistoryInv, SpecTracked, ActivePlanned, RecordsCalm, AsInstalled

LEMMA NewRecordCalm ==
  ASSUME MachineTypes, TypeOK, HistoryInv, ActivePlanned, RecordsCalm, pc \notin {"ready", "off"}
  PROVE  AsInstalled(NewInstallState)
<1>1. /\ spec.activeFS = InstalledFS
      /\ InstalledFS = "ext2" => spec.activeLabel = "COS_ACTIVE"
  BY PlannedCalm
<1>2. AsInstalled(loaded) /\ loaded \in InstallState
  BY DEF RecordsCalm, TypeOK, RunOK
<1> DEFINE img == [src |-> {runs}, fs |-> ImageFS, label |-> ImageLabel]
           new == [loaded EXCEPT !.file = "whole"]
<1>3. new.file = "whole" /\ new.recoveryNull = loaded.recoveryNull /\ new.recovery = loaded.recovery
      /\ new.active = loaded.active
  BY <1>2 DEF InstallState
<1>4. /\ DOMAIN new = {"file", "recoveryNull", "active", "passive", "recovery"}
  BY <1>2 DEF InstallState
<1>5. CASE spec.recovery
  <2>1. NewInstallState = [new EXCEPT !.recovery = img, !.recoveryNull = FALSE]
    BY <1>5 DEF NewInstallState
  <2>2. img.src # {}
    OBVIOUS
  <2> HIDE DEF img, new
  <2>3. /\ NewInstallState.file = "whole" /\ ~NewInstallState.recoveryNull
        /\ NewInstallState.recovery = img /\ NewInstallState.active = loaded.active
    BY <1>3, <1>4, <2>1
  <2> QED
    BY <1>2, <2>2, <2>3 DEF AsInstalled
<1>6. CASE ~spec.recovery
  <2>1. PICK pas : NewInstallState = [new EXCEPT !.active = img, !.passive = pas]
    BY <1>6, Zenon DEF NewInstallState
  <2>2. img.fs = spec.activeFS /\ img.label = spec.activeLabel
    BY <1>6 DEF ImageFS, ImageLabel
  <2> HIDE DEF img, new
  <2>3. /\ NewInstallState.file = "whole" /\ NewInstallState.recoveryNull = loaded.recoveryNull
        /\ NewInstallState.recovery = loaded.recovery /\ NewInstallState.active = img
    BY <1>3, <1>4, <2>1
  <2> QED
    BY <1>1, <1>2, <2>2, <2>3 DEF AsInstalled
<1> QED
  BY <1>5, <1>6

LEMMA ResetRecordCalm ==
  ASSUME MachineTypes, HistoryInv, ActivePlanned, RecordsCalm, pc \notin {"ready", "off"}
  PROVE  AsInstalled(ResetState)
<1>1. /\ spec.activeFS = InstalledFS
      /\ InstalledFS = "ext2" => spec.activeLabel = "COS_ACTIVE"
  BY PlannedCalm
<1>2. /\ ResetState.file = "whole" /\ ResetState.recovery = loaded.recovery
      /\ ResetState.active.fs = spec.activeFS /\ ResetState.active.label = spec.activeLabel
      /\ ResetState.recoveryNull = (loaded.file = "whole" /\ loaded.recovery.src = {})
  BY DEF ResetState
<1> QED
  BY <1>1, <1>2 DEF RecordsCalm, AsInstalled

\* The records in an upgrade of which no call fails.
LEMMA RecordsUpgrade ==
  ASSUME MachineTypes, HistoryInv, ActivePlanned, RecordsCalm, UpgradeStep, Succeeds
  PROVE  RecordsCalm' /\ InstalledFS' = InstalledFS
<1>1. /\ cmd = "upgrade" /\ cmd' = "upgrade" /\ pc \notin {"ready", "off"} /\ loaded' = loaded /\ TypeOK
      /\ yaml \in [ImgPart -> InstallState] /\ ~Fails
  BY UpgradeStepKeeps, Components, FaultOrNot DEF Running, MachineTypes
<1>2. AsInstalled(NewInstallState) /\ \A p \in ImgPart : AsInstalled(yaml[p])
  BY <1>1, NewRecordCalm DEF RecordsCalm, Remaking, ImgPart
<1>3. \A p \in ImgPart : yaml'[p] = yaml[p] \/ yaml'[p] = NewInstallState
  BY <1>1, UpgradeWrites
<1>4. InstalledFS' = InstalledFS
  BY <1>2, <1>3 DEF InstalledFS, AsInstalled, ImgPart
<1>5. \A p \in ImgPart : AsInstalled(yaml[p])'
  BY <1>2, <1>3, <1>4 DEF AsInstalled
<1> QED
  BY <1>1, <1>4, <1>5 DEF RecordsCalm, AsInstalled, ImgPart

\* The mounts in an upgrade of which no call fails.
LEMMA HeldUpgrade ==
  ASSUME MachineTypes, NothingHeld, HasOEM, UpgradeStep, Succeeds
  PROVE  NothingHeld'
<1>0. /\ cmd = "upgrade" /\ cmd' = "upgrade" /\ Step /\ ~Fails /\ stateFS' = stateFS
      /\ TreeBind' = TreeBind
  BY UpgradeStepKeeps, FaultOrNot DEF UpgradeStep, TreeBind, TransSlot
<1>1. work = IF pc \in TreeStage THEN <<TreeBind>> ELSE <<>>
  BY <1>0 DEF NothingHeld
<1> SUFFICES loops' = {} /\ work' = IF pc' \in TreeStage THEN <<TreeBind>> ELSE <<>>
  BY <1>0 DEF NothingHeld
<1>2. loops = {}
  BY DEF NothingHeld
<1> USE DEF TreeStage
<1>3. CASE MountState \/ MountRecovery \/ MountPersistent \/ BeforeHook \/ AfterHook \/ PostHook
  BY <1>0, <1>1, <1>2, <1>3
  DEF MountState, MountRecovery, MountPersistent, BeforeHook, AfterHook, PostHook, RunHook
<1>4. CASE BindTree \/ DumpSource
  BY <1>0, <1>1, <1>2, <1>4 DEF BindTree, DumpSource, TreeBind
<1>5. CASE DumpFailed \/ CleanTree \/ JobCleanTree
  <2>1. TreeCleaner(TransSlot) /\ loops' = loops /\ pc' \notin TreeStage
    BY <1>0, <1>5 DEF DumpFailed, CleanTree, JobCleanTree, PopJob
  <2>2. CASE work = <<>>
    BY <1>2, <2>1, <2>2 DEF TreeCleaner, TreeUnmounts, RemovalFails, CanUnmountTree
  <2>3. CASE work = <<TreeBind>>
    <3>1. Len(work) = 1 /\ work[1].left = {}
      BY <2>3 DEF TreeBind
    <3>2. CanUnmountTree
      BY <2>3, <3>1 DEF CanUnmountTree, Top
    <3>3. work' = SubSeq(work, 1, Len(work) - 1)
      BY <1>0, <2>1, <3>2 DEF TreeCleaner, TreeUnmounts, RemovalFails
    <3>4. work' = <<>>
      BY <2>3, <3>1, <3>3
    <3> QED
      BY <1>2, <2>1, <3>4
  <2> QED
    BY <1>1, <2>2, <2>3
<1>6. CASE SelinuxRelabel \/ ChrootHook
  BY <1>0, <1>1, <1>2, <1>6 DEF SelinuxRelabel, ChrootHook, ChrootedCallback
<1>7. CASE SetGrubVariables \/ SetDefaultGrubEntry
  BY <1>0, <1>1, <1>2, <1>7 DEF SetGrubVariables, SetDefaultGrubEntry
<1>8. CASE CreateImage \/ FillImage \/ SquashImage
  BY <1>0, <1>1, <1>2, <1>8 DEF CreateImage, FillImage, SquashImage, ImgFails
<1>9. CASE Backup \/ LabelPassive \/ Swap \/ Sync \/ WriteStateYaml \/ WriteRecoveryYaml
  BY <1>0, <1>1, <1>2, <1>9
  DEF Backup, LabelPassive, Swap, Sync, WriteStateYaml, WriteRecoveryYaml, WriteYaml
<1>10. CASE JobUmount \/ JobRemountRO \/ JobRemove \/ CleanupDone \/ PowerAction
  BY <1>0, <1>1, <1>2, <1>10
  DEF JobUmount, JobRemountRO, JobRevertMount, JobRemove, PopJob, CleanupDone, PowerAction, PoweredOff
<1> QED
  BY <1>0, <1>3, <1>4, <1>5, <1>6, <1>7, <1>8, <1>9, <1>10 DEF Step

\* The system images in an upgrade of which no call fails.
LEMMA SystemUpgrade ==
  ASSUME MachineTypes, HistoryInv, UpgradesInv, ActivePlanned, RecordsCalm, SystemThere,
         UpgradeStep, Succeeds
  PROVE  SystemThere'
<1>0. /\ cmd = "upgrade" /\ cmd' = "upgrade" /\ Step /\ TypeOK /\ ~Fails /\ spec' = spec
      /\ pc \notin {"ready", "off"} /\ disk \in [Slot -> Image]
      /\ "active" \in Slot /\ "passive" \in Slot /\ "transState" \in Slot
  BY UpgradeStepKeeps, FaultOrNot, Components DEF UpgradeStep, MachineTypes, Running, Slot
<1>1. InstalledFS' = InstalledFS
  BY RecordsUpgrade
<1>2. /\ spec.activeFS = InstalledFS /\ (InstalledFS = "ext2" => spec.activeLabel = "COS_ACTIVE")
  BY <1>0, PlannedCalm
<1>3. InstalledFS = "ext2" => grub'["active"] = "COS_ACTIVE"
  <2>1. grub'["active"] = grub["active"] \/ grub'["active"] = spec.activeLabel
    BY UpgradeWrites DEF GrubLabels, SystemSlot
  <2> QED
    BY <1>2, <2>1 DEF SystemThere
<1>4. ASSUME disk'["active"] = disk["active"], disk'["passive"] = disk["passive"],
             ~BetweenRenames, pc' # "swap" \/ spec.recovery
      PROVE  SystemThere'
  BY <1>0, <1>1, <1>3, <1>4 DEF SystemThere, Renaming
<1>5. CASE \/ MountState \/ MountRecovery \/ MountPersistent \/ BeforeHook \/ AfterHook \/ PostHook
           \/ BindTree \/ DumpSource \/ DumpFailed \/ SelinuxRelabel \/ ChrootHook
  BY <1>4, <1>5
  DEF MountState, MountRecovery, MountPersistent, BeforeHook, AfterHook, PostHook, RunHook,
      BindTree, DumpSource, DumpFailed, SelinuxRelabel, ChrootHook, ChrootedCallback, BetweenRenames
<1>6. CASE SetGrubVariables \/ SetDefaultGrubEntry \/ WriteStateYaml \/ WriteRecoveryYaml
  BY <1>4, <1>6
  DEF SetGrubVariables, SetDefaultGrubEntry, WriteStateYaml, WriteRecoveryYaml, WriteYaml, BetweenRenames
<1>7. CASE CreateImage \/ FillImage \/ SquashImage \/ JobRemove
  <2>1. disk'["active"] = disk["active"] /\ disk'["passive"] = disk["passive"]
    BY <1>0, <1>7, TransSlotOther DEF CreateImage, FillImage, SquashImage, JobRemove, SystemSlot
  <2>2. pc \in {"createImg", "fillImg", "cleanup"} /\ pc' # "swap"
    BY <1>7 DEF CreateImage, FillImage, SquashImage, ImgFails, JobRemove, PopJob
  <2> QED
    BY <1>4, <2>1, <2>2 DEF BetweenRenames
<1>8. CASE CleanTree
  BY <1>4, <1>8 DEF CleanTree, BetweenRenames
<1>9. CASE Backup
  <2>1. CASE disk["active"].fs # "none" /\ disk' = Renamed("active", "passive") /\ pc' = "label"
    <3>1. disk'["active"] = NoFile /\ disk'["passive"] = disk["active"]
      BY <1>0, <2>1 DEF Renamed
    <3>2. ~spec.recovery
      BY <1>0, <1>9 DEF Backup, UpgradesInv, RotationReady
    <3>3. Renaming'
      BY <1>0, <2>1, <3>2 DEF Renaming, BetweenRenames
    <3>4. disk'["active"].fs = "none"
      <4>1. NoFile.fs = "none"
        BY DEF NoFile
      <4> QED
        BY <3>1, <4>1
    <3> QED
      BY <1>0, <1>1, <1>3, <2>1, <3>1, <3>3, <3>4 DEF SystemThere
  <2>2. CASE disk["active"].fs = "none" /\ disk' = disk /\ pc' = "cleanup"
    BY <1>4, <1>9, <2>2 DEF Backup, BetweenRenames
  <2> QED
    BY <1>0, <1>9, <2>1, <2>2 DEF Backup
<1>10. CASE LabelPassive
  <2>1. CASE /\ disk["passive"].fs # "squashfs" /\ pc' = "swap"
             /\ disk' = Synced([disk EXCEPT !["passive"].label = spec.passiveLabel])
    <3> DEFINE d == [disk EXCEPT !["passive"].label = spec.passiveLabel]
    <3>1. d \in [Slot -> Image] /\ disk' = Synced(d)
      BY <1>0, <2>1, Relabelled
    <3>2. d["active"] = disk["active"] /\ d["transState"] = disk["transState"]
      BY <1>0
    <3>3. d["passive"] = [disk["passive"] EXCEPT !.label = spec.passiveLabel]
      BY <1>0
    <3>4. d["passive"].fs = disk["passive"].fs /\ d["passive"].ok = disk["passive"].ok
      BY <1>0, <3>3 DEF Image
    <3> HIDE DEF d
    <3>5. \A s \in {"active", "passive"} :
            disk'[s].fs = disk[s].fs /\ disk'[s].ok = disk[s].ok /\ ~disk'[s].dirty
      <4>1. disk'["active"].fs = d["active"].fs /\ disk'["active"].ok = d["active"].ok
            /\ ~disk'["active"].dirty
        BY <1>0, <3>1, SyncKeepsFiles
      <4>2. disk'["passive"].fs = d["passive"].fs /\ disk'["passive"].ok = d["passive"].ok
            /\ ~disk'["passive"].dirty
        BY <1>0, <3>1, SyncKeepsFiles
      <4> QED
        BY <3>2, <3>4, <4>1, <4>2
    <3>6. disk'["active"].label = disk["active"].label /\ ~disk'["transState"].dirty
      BY <1>0, <3>1, <3>2, SyncKeepsFiles
    <3>7. Renaming => Renaming'
      BY <1>0, <2>1 DEF Renaming, BetweenRenames
    <3> QED
      BY <1>0, <1>1, <1>3, <3>5, <3>6, <3>7 DEF SystemThere
  <2>2. CASE disk["passive"].fs = "squashfs" /\ disk' = disk /\ pc' = "cleanup"
    <3>1. InstalledFS # "ext2"
      BY <2>2 DEF SystemThere
    <3> QED
      BY <1>0, <1>1, <2>2, <3>1 DEF SystemThere
  <2> QED
    BY <1>0, <1>10, <2>1, <2>2 DEF LabelPassive
<1>11. CASE Swap
  <2>1. disk' = Renamed(TransSlot, FinalSlot) /\ pc = "swap" /\ pc' = "sync"
    BY <1>0, <1>11 DEF Swap
  <2>2. CASE spec.recovery
    <3>1. disk'["active"] = disk["active"] /\ disk'["passive"] = disk["passive"]
      BY <1>0, <2>1, <2>2, SwapMoves
    <3> QED
      BY <1>4, <2>1, <2>2, <3>1 DEF BetweenRenames
  <2>3. CASE ~spec.recovery
    <3>1. /\ disk[TransSlot].ok /\ disk[TransSlot].fs = ImageFS /\ disk[TransSlot].label = ImageLabel
          /\ TransSlot = "transState" /\ ImageFS = spec.activeFS /\ ImageLabel = spec.activeLabel
      BY <1>0, <2>1, <2>3
      DEF HistoryInv, RecoveryTracked, ImageReady, TransSlot, ImageFS, ImageLabel
    <3>2. disk'["active"] = disk["transState"] /\ disk'["passive"] = disk["passive"]
      BY <1>0, <2>1, <2>3, <3>1, SwapMoves
    <3>3. spec.activeFS \in {"ext2", "squashfs"} /\ ~disk["transState"].dirty
      BY <1>0, <2>1, <2>3 DEF TypeOK, RunOK, UpgradeSpec, SystemThere
    <3> QED
      BY <1>0, <1>1, <1>2, <1>3, <2>1, <3>1, <3>2, <3>3 DEF SystemThere
  <2> QED
    BY <2>2, <2>3
<1>12. CASE disk' = Synced(disk) /\ ~BetweenRenames /\ pc' # "swap"
  <2>1. \A s \in {"active", "passive"} :
          /\ disk'[s].fs = disk[s].fs /\ disk'[s].ok = disk[s].ok /\ disk'[s].label = disk[s].label
          /\ ~disk'[s].dirty
    <3>1. ASSUME NEW s \in {"active", "passive"}
          PROVE  /\ disk'[s].fs = disk[s].fs /\ disk'[s].ok = disk[s].ok
                 /\ disk'[s].label = disk[s].label /\ ~disk'[s].dirty
      <4>1. s \in Slot
        BY DEF Slot
      <4> QED
        BY <1>0, <1>12, <4>1, SyncKeepsFiles
    <3> QED
      BY <3>1
  <2> QED
    BY <1>0, <1>1, <1>3, <1>12, <2>1 DEF SystemThere, Renaming
<1>13. CASE Sync \/ PowerAction
  BY <1>4, <1>12, <1>13 DEF Sync, PowerAction, PoweredOff, BetweenRenames
<1>14. CASE JobUmount \/ JobRemountRO \/ JobCleanTree \/ CleanupDone
  BY <1>4, <1>14
  DEF JobUmount, JobRemountRO, JobRevertMount, JobCleanTree, PopJob, CleanupDone, BetweenRenames
<1> QED
  BY <1>0, <1>5, <1>6, <1>7, <1>8, <1>9, <1>10, <1>11, <1>13, <1>14 DEF Step

\* The steps of a reset that write a record.
LEMMA ResetWriters ==
  ResetStep /\ yaml' # yaml => FormatState \/ WriteResetYaml \/ WriteResetRecoveryYaml
<1> SUFFICES ASSUME ResetStep, yaml' # yaml
             PROVE  FormatState \/ WriteResetYaml \/ WriteResetRecoveryYaml
  OBVIOUS
<1>1. /\ ~UnmountAll /\ ~FormatData /\ ~MountAll /\ ~BeforeReset /\ ~DeployActive /\ ~DumpActive
      /\ ~DumpActiveFailed /\ ~InstallGrub /\ ~RelabelReset /\ ~ChrootReset /\ ~AfterReset
  BY DEF UnmountAll, FormatData, MountAll, BeforeReset, RunHook, DeployActive, DumpActive,
         DumpActiveFailed, InstallGrub, RelabelReset, ChrootReset, AfterReset
<1>2. /\ ~SetResetVariables /\ ~ResetEntry /\ ~CreateActive /\ ~FillActive /\ ~SquashActive
      /\ ~CleanActive /\ ~CopyPassive /\ ~PostReset /\ ~MountRecoveryRW
  BY DEF SetResetVariables, ResetEntry, RunHook, CreateActive, FillActive, SquashActive,
         CleanActive, CopyPassive, PostReset, MountRecoveryRW
<1>3. /\ ~JobCleanActive /\ ~JobUnmountAll /\ ~JobUmount /\ ~JobRemountRO /\ ~CleanupDone
      /\ ~PowerAction
  BY DEF JobCleanActive, JobUnmountAll, JobUmount, JobRemountRO, JobRevertMount, CleanupDone,
         PowerAction, PoweredOff
<1> QED
  BY <1>1, <1>2, <1>3 DEF ResetStep

\* A reset of which no call fails.
LEMMA CalmReset ==
  ASSUME MachineTypes, HistoryInv, ActivePlanned, UnmountInv', SourceTracked', RepairInv, RepairInv',
         CalmMachine, ResetStep, Succeeds
  PROVE  CalmMachine'
<1>0. /\ cmd = "reset" /\ cmd' = "reset" /\ pc \in ResetLive /\ pc \notin {"ready", "off"}
      /\ UNCHANGED <<start, loaded, spec, source>> /\ ~Fails /\ faults' = faults
      /\ yaml \in [ImgPart -> InstallState] /\ disk \in [Slot -> Image]
  BY ResetStepKeeps, StagesDiffer, FaultOrNot, Components DEF Succeeds
<1>1. start.able /\ start.faults = faults /\ Unhindered
  BY <1>0 DEF CalmMachine, RepairInv, NoFault
<1>2. AsInstalled(ResetState) /\ RecordsCalm
  BY <1>0, ResetRecordCalm DEF CalmMachine
<1>3. yaml'["recovery"] = yaml["recovery"] \/ yaml'["recovery"] = ResetState
  <2>1. CASE yaml' = yaml \/ yaml' = [yaml EXCEPT !["state"] = Defaults]
    BY <1>0, <2>1 DEF ImgPart
  <2>2. CASE WriteResetYaml \/ WriteResetRecoveryYaml
    BY <1>0, <2>2 DEF WriteResetYaml, WriteResetRecoveryYaml, WriteYaml, ImgPart
  <2>3. yaml' # yaml => FormatState \/ WriteResetYaml \/ WriteResetRecoveryYaml
    BY ResetWriters
  <2>4. CASE FormatState
    BY <2>1, <2>4 DEF FormatState, StateWiped
  <2> QED
    BY <2>1, <2>2, <2>3, <2>4
<1>4. InstalledFS' = InstalledFS
  BY <1>2, <1>3 DEF InstalledFS, RecordsCalm, AsInstalled
<1>5. (AsInstalled(yaml["recovery"]) /\ AsInstalled(loaded))'
  BY <1>0, <1>2, <1>3, <1>4 DEF RecordsCalm, AsInstalled
<1>6. CASE Remaking'
  BY <1>0, <1>1, <1>5, <1>6 DEF CalmMachine, RecordsCalm
<1>7. CASE CleanupDone /\ ~Remaking'
  <2>1. pc' = "power" /\ err' = "none"
    BY <1>1, <1>7 DEF CleanupDone, Unhindered
  <2>2. Stages' /\ Len(jobs') = 0 /\ ~cleanErr'
    BY <1>0, <2>1 DEF SourceTracked, UnmountInv, StackInv
  <2>3. /\ stateFS' = "grub" /\ Labelled' /\ Built("active")' /\ Built("passive")'
        /\ disk'["active"].label = spec.activeLabel /\ yaml'["state"] = ResetState'
        /\ ~disk'["active"].dirty /\ ~disk'["passive"].dirty
    BY <1>0, <2>1, <2>2 DEF Stages, WithGrub, WithLabels, WithActive, WithPassive, ImgPart
  <2>4. ResetState' = ResetState
    BY <1>0 DEF ResetState
  <2>5. AsInstalled(yaml["state"])'
    BY <1>2, <1>4, <2>3, <2>4 DEF AsInstalled
  <2>6. spec.activeFS = InstalledFS /\ (InstalledFS = "ext2" => spec.activeLabel = "COS_ACTIVE")
        /\ spec.activeFS \in {"ext2", "squashfs"}
    BY <1>0, <1>2, PlannedCalm DEF MachineTypes, ResetTypeOK, RunOK, UpgradeSpec
  <2>7. SystemThere'
    BY <1>0, <1>4, <2>3, <2>6 DEF SystemThere, Built, Labelled, Renaming
  <2>8. NoFault' /\ Unhindered'
    BY <1>0, <1>1, <2>1 DEF RepairInv, NoFault, ResetLive, Ending
  <2>9. NothingHeld'
    BY <1>0, <2>1, <2>3, <2>8 DEF NothingHeld, Unhindered, TreeMounted
  <2> QED
    BY <1>0, <1>1, <1>5, <2>5, <2>7, <2>9 DEF CalmMachine, RecordsCalm
<1>8. CASE PowerAction /\ UNCHANGED resetVars
  <2>1. ~Remaking /\ ~Remaking' /\ pc' \in {"exited", "off"} /\ pc = "power"
    BY <1>0, <1>8 DEF Remaking, PowerAction, PoweredOff, ResetLive, Formatting, Mounted, Deployed, Recording, Ending
  <2>2. AsInstalled(yaml["state"])' /\ grub' = grub
    BY <1>2, <1>4, <1>8, <2>1 DEF RecordsCalm, AsInstalled, PowerAction, PoweredOff
  <2>3. ASSUME NEW s \in {"active", "passive"}
        PROVE  /\ disk'[s].fs = disk[s].fs /\ disk'[s].ok = disk[s].ok /\ disk'[s].label = disk[s].label
               /\ ~disk[s].dirty => ~disk'[s].dirty
    <3>1. CASE disk' = disk
      BY <3>1
    <3>2. CASE disk' = Synced(disk)
      BY <1>0, <3>2, SyncKeepsFiles DEF Slot
    <3> QED
      BY <1>8, <3>1, <3>2 DEF PowerAction
  <2>4. SystemThere'
    BY <1>0, <1>4, <2>1, <2>2, <2>3 DEF CalmMachine, SystemThere, Renaming
  <2>5. NothingHeld'
    BY <1>0, <1>8, <2>1 DEF CalmMachine, NothingHeld, PowerAction, PoweredOff
  <2> QED
    BY <1>0, <1>1, <1>5, <2>2, <2>4, <2>5 DEF CalmMachine, RecordsCalm
<1>9. \/ Remaking' \/ CleanupDone \/ (PowerAction /\ UNCHANGED resetVars)
  <2>1. CASE \/ UnmountAll \/ FormatState \/ FormatData \/ MountAll \/ BeforeReset
             \/ DeployActive \/ DumpActive \/ DumpActiveFailed \/ InstallGrub \/ RelabelReset
             \/ ChrootReset \/ AfterReset \/ SetResetVariables \/ ResetEntry
    BY <1>0, <2>1
    DEF UnmountAll, FormatState, FormatData, MountAll, BeforeReset, RunHook, DeployActive,
        DumpActive, DumpActiveFailed, InstallGrub, RelabelReset, ChrootReset, ChrootedCallback,
        AfterReset, SetResetVariables, ResetEntry, Remaking, ResetLive, Formatting, Mounted,
        Deployed, Recording, Ending
  <2>2. CASE \/ CreateActive \/ FillActive \/ SquashActive \/ CleanActive \/ CopyPassive \/ PostReset
             \/ MountRecoveryRW \/ WriteResetYaml \/ WriteResetRecoveryYaml
             \/ JobCleanActive \/ JobUnmountAll \/ JobUmount \/ JobRemountRO
    BY <1>0, <2>2
    DEF CreateActive, FillActive, SquashActive, ImgFails, CleanActive, CopyPassive, PostReset, RunHook,
        MountRecoveryRW, WriteResetYaml, WriteResetRecoveryYaml, WriteYaml, JobCleanActive,
        JobUnmountAll, JobUmount, JobRemountRO, JobRevertMount, PopJob, Remaking, ResetLive,
        Formatting, Mounted, Deployed, Recording, Ending
  <2> QED
    BY <2>1, <2>2 DEF ResetStep
<1> QED
  BY <1>6, <1>7, <1>8, <1>9
\* A command that starts on a calm machine.
LEMMA CalmCommand ==
  ASSUME MachineTypes, CalmMachine, HasOEM, CallUpgrade \/ CallReset
  PROVE  CalmMachine'
<1>1. /\ UNCHANGED <<disk, yaml, grub, work, loops, stateFS, faults>> /\ loaded' = LoadedState
      /\ pc \in {"ready", "exited"} /\ booted' = booted
      /\ \/ cmd' = "upgrade" /\ pc' = "mountState"
         \/ cmd' = "reset" /\ pc' = "unmountAll" /\ start'.faults = faults
            /\ start'.able = /\ work = <<>> /\ loops = {} /\ HasOEM
                             /\ ~LoadedState.recoveryNull /\ stateFS # "unformatted"
  <2>1. CASE CallUpgrade
    BY <2>1 DEF CallUpgrade, StartUpgrade
  <2>2. CASE CallReset
    <3>1. PICK sys \in {"ext2", "squashfs"}, external \in BOOLEAN : StartReset(sys, external)
      BY <2>2 DEF CallReset
    <3> QED
      BY <3>1 DEF StartReset
  <2> QED
    BY <2>1, <2>2
<1>2. ~Remaking
  BY <1>1 DEF Remaking, ResetLive, Formatting, Mounted, Deployed, Recording, Ending
<1>3. SystemThere /\ NothingHeld /\ RecordsCalm /\ AsInstalled(yaml["state"])
  BY <1>2 DEF CalmMachine, RecordsCalm
<1>4. work = <<>> /\ loops = {} /\ stateFS = "grub"
  BY <1>1, <1>3 DEF NothingHeld, TreeStage
<1>5. AsInstalled(LoadedState)
  BY <1>3 DEF LoadedState, RecordsCalm, AsInstalled
<1>6. InstalledFS' = InstalledFS
  BY <1>1 DEF InstalledFS
<1>7. RecordsCalm'
  BY <1>1, <1>3, <1>5, <1>6 DEF RecordsCalm, AsInstalled
<1>8. cmd' = "reset" /\ pc' \in ResetLive => start'.able /\ start'.faults = faults'
  BY <1>1, <1>4, <1>5 DEF AsInstalled
<1>9. SystemThere'
  BY <1>1, <1>3, <1>6 DEF SystemThere, Renaming, BetweenRenames
<1>10. NothingHeld'
  BY <1>1, <1>4 DEF NothingHeld, TreeStage
<1> QED
  BY <1>7, <1>8, <1>9, <1>10 DEF CalmMachine

\* A calm machine that goes down and comes up.
LEMMA CalmPower ==
  ASSUME MachineTypes, CalmMachine, UNCHANGED resetVars,
         \/ Reboot \/ \E s \in SystemSlot : Boot(s)
         \/ PowerLoss /\ cmd = "upgrade" /\ pc = "sync"
  PROVE  CalmMachine'
<1>1. /\ UNCHANGED <<yaml, grub, loaded, cmd, stateFS>> /\ pc' \in {"off", "ready"}
      /\ pc \in {"ready", "exited", "off", "sync"} /\ (pc = "sync" => cmd = "upgrade")
      /\ \/ work' = <<>> /\ loops' = {}
         \/ UNCHANGED <<work, loops>> /\ pc = "off"
  BY DEF Reboot, PowerLoss, PoweredOff, Boot, resetVars, runVars, persistentVars
<1>2. ~Remaking /\ ~Renaming
  BY <1>1 DEF Remaking, ResetLive, Formatting, Mounted, Deployed, Recording, Ending, Renaming, BetweenRenames
<1>3. SystemThere /\ NothingHeld /\ RecordsCalm
  BY <1>2 DEF CalmMachine
<1>4. InstalledFS' = InstalledFS
  BY <1>1 DEF InstalledFS
<1>5. RecordsCalm'
  BY <1>1, <1>2, <1>3, <1>4 DEF RecordsCalm, AsInstalled
<1>6. \A s \in {"active", "passive"} :
        /\ disk'[s].fs = disk[s].fs /\ disk'[s].label = disk[s].label
        /\ disk[s].ok /\ ~disk[s].dirty => disk'[s].ok /\ ~disk'[s].dirty
  BY PowerMoves DEF Slot
<1>7. SystemThere'
  BY <1>1, <1>2, <1>3, <1>4, <1>6 DEF SystemThere
<1>8. NothingHeld'
  BY <1>1, <1>3 DEF NothingHeld, TreeStage
<1>9. pc' \notin ResetLive
  BY <1>1 DEF ResetLive, Formatting, Mounted, Deployed, Recording, Ending
<1> QED
  BY <1>5, <1>7, <1>8, <1>9 DEF CalmMachine

\* A calm machine stays one as long as it is calm.
LEMMA CalmOn ==
  ASSUME MachineTypes, HistoryInv, UpgradesInv, RecoveryWhole, ActivePlanned, RepairInv,
         MachineIsCalm => CalmMachine, [MachineNext]_allVars,
         UnmountInv', SourceTracked', RepairInv'
  PROVE  (MachineIsCalm => CalmMachine)'
<1> SUFFICES ASSUME MachineIsCalm' PROVE CalmMachine'
  OBVIOUS
<1>1. /\ MachineIsCalm /\ CalmMachine /\ HasOEM
      /\ Succeeds \/ (PowerLoss /\ cmd = "upgrade" /\ pc = "sync")
  BY CalmOnly DEF MachineIsCalm
<1>2. PowerLoss => ~Succeeds
  BY FaultOrNot DEF PowerLoss
<1>3. CASE UNCHANGED allVars
  <2>1. UNCHANGED <<disk, yaml, grub, work, loops, stateFS, faults, loaded, cmd, pc, start, spec>>
    BY <1>3 DEF allVars, vars, resetVars, persistentVars, volatileVars, runVars, cmdVars
  <2>2. InstalledFS' = InstalledFS
    BY <2>1 DEF InstalledFS
  <2>3. RecordsCalm' = RecordsCalm /\ Remaking' = Remaking
    BY <2>1, <2>2 DEF RecordsCalm, AsInstalled, Remaking
  <2>4. SystemThere' = SystemThere
    BY <2>1, <2>2 DEF SystemThere, Renaming, BetweenRenames
  <2>5. NothingHeld' = NothingHeld
    BY <2>1 DEF NothingHeld, TreeBind, TransSlot
  <2> QED
    BY <1>1, <2>1, <2>3, <2>4, <2>5 DEF CalmMachine
<1>4. CASE UpgradeStep
  <2>1. cmd = "upgrade" /\ cmd' = "upgrade" /\ UNCHANGED resetVars
    BY <1>4 DEF UpgradeStep
  <2>2. CASE PowerLoss /\ pc = "sync"
    BY <1>1, <2>1, <2>2, CalmPower
  <2>3. CASE Succeeds
    <3>1. RecordsCalm /\ SystemThere /\ NothingHeld
      BY <1>1, <2>1 DEF CalmMachine, Remaking
    <3>2. RecordsCalm' /\ SystemThere' /\ NothingHeld'
      BY <1>1, <1>4, <2>3, <3>1, RecordsUpgrade, SystemUpgrade, HeldUpgrade
    <3> QED
      BY <2>1, <3>2 DEF CalmMachine
  <2> QED
    BY <1>1, <2>2, <2>3
<1>5. CASE ResetStep
  <2>1. Succeeds
    BY <1>1, <1>5 DEF ResetStep
  <2> QED
    BY <1>1, <1>5, <2>1, CalmReset
<1>6. CASE CallUpgrade \/ CallReset
  BY <1>1, <1>6, CalmCommand
<1>7. CASE (Reboot \/ PowerLoss \/ \E s \in SystemSlot : Boot(s)) /\ UNCHANGED resetVars
  <2>1. PowerLoss => cmd = "upgrade" /\ pc = "sync"
    BY <1>1, <1>2
  <2> QED
    BY <1>1, <1>7, <2>1, CalmPower
<1> QED
  BY <1>3, <1>4, <1>5, <1>6, <1>7, MachineSteps
\* An installation is such a machine.
LEMMA SingleFaultInit ==
  ASSUME RecoveryFS = {"ext2"}, MachineInit
  PROVE  RecoveryNamed /\ RecoveryWhole /\ ActivePlanned /\ CalmMachine
<1>1. PICK sys \in SystemFS : disk = InstalledDisk(sys, "ext2", {0})
  BY Zenon DEF MachineInit, Init
<1>2. sys \in {"ext2", "squashfs"}
  BY UpgradeAssumption
<1> DEFINE act == Installed(sys, "COS_ACTIVE", {0})
           pas == Installed(sys, "COS_PASSIVE", {0})
           rcv == Installed("ext2", "COS_SYSTEM", {0})
<1>3. disk["active"] = act /\ disk["passive"] = pas /\ disk["recovery"] = rcv
  BY <1>1 DEF InstalledDisk, Slot
<1>4. act.fs = sys /\ act.ok /\ ~act.dirty
  BY DEF Installed
<1>5. act.label = IF sys = "squashfs" THEN "" ELSE "COS_ACTIVE"
  BY DEF Installed
<1>6. pas.fs = sys /\ pas.ok /\ ~pas.dirty
  BY DEF Installed
<1>7. rcv.fs = "ext2" /\ rcv.ok /\ rcv.content = {0}
  BY DEF Installed
<1>8. rcv.label = "COS_SYSTEM"
  BY DEF Installed
<1> HIDE DEF act, pas, rcv
<1>9. /\ grub["recovery"] = disk["recovery"].label /\ grub["active"] = disk["active"].label
      /\ pc = "ready" /\ cmd = "upgrade" /\ work = <<>> /\ loops = {} /\ stateFS = "grub"
      /\ loaded = RecordedState(disk) /\ \A p \in ImgPart : yaml[p] = loaded
  BY Zenon DEF MachineInit, Init, SystemSlot
<1>10. /\ loaded.file = "whole" /\ ~loaded.recoveryNull
       /\ loaded.active.fs = disk["active"].fs /\ loaded.active.label = disk["active"].label
       /\ loaded.recovery.src = disk["recovery"].content /\ loaded.recovery.fs = disk["recovery"].fs
       /\ loaded.recovery.label = disk["recovery"].label
  <2>1. loaded = RecordedState(disk)
    BY <1>9
  <2>2. loaded.recovery = Recorded(disk["recovery"]) /\ loaded.active = Recorded(disk["active"])
        /\ loaded.file = "whole" /\ ~loaded.recoveryNull
    BY <2>1 DEF RecordedState
  <2> QED
    BY <2>2 DEF Recorded
<1>11. RecoveryNamed
  BY <1>3, <1>7, <1>8, <1>9, <1>10 DEF RecoveryNamed, NamedSystem
<1>12. RecoveryWhole /\ ActivePlanned
  BY <1>3, <1>7, <1>9 DEF RecoveryWhole, PastGrub, ActivePlanned
<1>13. InstalledFS = sys
  BY <1>3, <1>4, <1>9, <1>10 DEF InstalledFS, ImgPart
<1>14. AsInstalled(loaded)
  BY <1>3, <1>4, <1>5, <1>7, <1>10, <1>13, Zenon DEF AsInstalled
<1>15. RecordsCalm
  BY <1>9, <1>14 DEF RecordsCalm, AsInstalled, ImgPart
<1>16. SystemThere /\ NothingHeld
  BY <1>2, <1>3, <1>4, <1>5, <1>6, <1>9, <1>13, Zenon
  DEF SystemThere, Renaming, BetweenRenames, NothingHeld, TreeStage
<1> QED
  BY <1>9, <1>11, <1>12, <1>15, <1>16 DEF CalmMachine

\* On a machine that is calm and off an image boots: the recovery image or, if the single
\* fault cost it, a system image.
LEMMA SingleFaultImplies ==
  MachineTypes /\ RecoveryNamed /\ RecoveryWhole /\ (MachineIsCalm => CalmMachine) => SingleFaultBoots
<1> SUFFICES ASSUME MachineTypes, RecoveryNamed, RecoveryWhole, MachineIsCalm => CalmMachine,
                    pc = "off", faults <= 1
             PROVE  \E s \in SystemSlot : Bootable(s)
  BY DEF SingleFaultBoots
<1>1. faults = 0 \/ faults = 1
  BY Components, UpgradeAssumption
<1>2. CASE disk["recovery"].ok
  <2>1. Bootable("recovery")
    BY <1>2 DEF RecoveryNamed, NamedSystem, Bootable
  <2> QED
    BY <2>1 DEF SystemSlot
<1>3. CASE ~disk["recovery"].ok
  <2>1. MachineIsCalm
    BY <1>1, <1>3 DEF RecoveryWhole, MachineIsCalm
  <2>2. SystemThere /\ ~Renaming
    BY <2>1 DEF CalmMachine, Remaking, ResetLive, Formatting, Mounted, Deployed, Recording, Ending,
                Renaming, BetweenRenames
  <2>3. CASE disk["active"].fs # "none"
    <3>1. Bootable("active")
      BY <2>2, <2>3 DEF SystemThere, Bootable
    <3> QED
      BY <3>1 DEF SystemSlot
  <2>4. CASE disk["active"].fs = "none"
    <3>1. Bootable("passive")
      BY <2>2, <2>4 DEF SystemThere, Bootable
    <3> QED
      BY <3>1 DEF SystemSlot
  <2> QED
    BY <2>3, <2>4
<1> QED
  BY <1>2, <1>3

\* A machine that met at most one fault, a failed call or a power loss, in any sequence of
\* upgrades and resets, boots again unless a reset has taken the boot loader away.
THEOREM SingleFaultBootsAll ==
  ASSUME RecoveryFS = {"ext2"}, FSOverride = FALSE
  PROVE  MachineSpec => []SingleFaultBoots
<1>1. MachineInit => /\ UnmountInv /\ SourceTracked /\ RepairInv
                     /\ RecoveryNamed /\ RecoveryWhole /\ ActivePlanned /\ CalmMachine
  BY SingleFaultInit DEF MachineInit, UnmountInv, StackInv, MountInv, SourceTracked, RepairInv
<1>2. /\ MachineTypes /\ MachineTypes' /\ UnmountInv /\ HistoryInv /\ SourceTracked /\ RepairInv /\ UpgradesInv
      /\ RecoveryNamed /\ RecoveryWhole /\ ActivePlanned /\ (MachineIsCalm => CalmMachine)
      /\ [MachineNext]_allVars
      => /\ UnmountInv' /\ HistoryInv' /\ SourceTracked' /\ RepairInv' /\ UpgradesInv'
         /\ RecoveryNamed' /\ RecoveryWhole' /\ ActivePlanned' /\ (MachineIsCalm => CalmMachine)'
  BY UnmountStep, HistoryStep, SourceStep, RepairStep, UpgradesStep, NamedStep, WholeStep,
     PlannedStep, CalmOn
<1> QED
  BY <1>1, <1>2, MachineTypeInit, MachineTypeStep, HistoryInit, UpgradesInit, SingleFaultImplies, PTL
  DEF MachineSpec
=============================================================================
