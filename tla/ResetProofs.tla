----------------------------- MODULE ResetProofs -----------------------------
(***************************************************************************)
(* Theorems about the machine of module Reset, on which upgrades and       *)
(* resets follow one another: its types, what a reset unmounts, that it    *)
(* repairs whatever was left on the disk, and what it delivers.            *)
(***************************************************************************)
EXTENDS Reset, UpgradeProofs

USE DEF persistentVars, volatileVars, runVars, cmdVars, vars, resetVars, allVars
USE DEF MountTree, Extract, DropTree, MakeImage, CopyTree, Squash, CleanThen, CleanTreeJob
USE DEF Goto, Abort

\* The stages of a reset: before the partitions are mounted, with them mounted, with
\* the scratch tree, with recovery writable, and its end.
Formatting == {"formatState", "formatData", "mountAll"}
Mounted    == {"beforeReset", "deployActive", "dumpActive", "dumpFailed"}
Deployed   == {"installGrub", "relabelReset", "chrootReset", "afterReset", "resetGrubVars",
               "resetEntry", "createActive", "fillActive", "cleanActive", "copyPassive",
               "postReset", "mountRecoveryRW"}
Recording  == {"resetYaml", "resetRecoveryYaml"}
Ending     == {"cleanup", "power", "exited"}
ResetLive  == {"unmountAll"} \cup Formatting \cup Mounted \cup Deployed \cup Recording \cup Ending
-----------------------------------------------------------------------------
(* Types.                                                                  *)

AnyJob == Job \cup [op : {"umountAll"}, part : {"state"}]

\* An upgrade has its own types, also on this machine, and a reset its own stages.
MachineTypes ==
  /\ ResetTypeOK
  /\ cmd = "upgrade" => TypeOK
  /\ cmd = "reset" => pc \in ResetLive \cup {"off", "ready"}

\* The jobs of an upgrade are jobs of the machine.
LEMMA JobsOfUpgrade == jobs \in Seq(Job) => jobs \in Seq(AnyJob)
BY LenProperties DEF AnyJob

\* The types of an upgrade are types of the machine.
LEMMA UpgradeTypes ==
  ASSUME TypeOK, stateFS \in {"unformatted", "formatted", "grub"}, cmd \in {"upgrade", "reset"},
         source \subseteq Version
  PROVE  ResetTypeOK
BY JobsOfUpgrade DEF TypeOK, CommandOK, ResetTypeOK, AnyJob, ResetError

\* The stages of a reset are stages of the machine.
LEMMA ResetStages == ResetLive \cup {"off", "ready"} \subseteq Running \cup ResetStage \cup {"ready", "exited", "off"}
BY DEF ResetLive, Formatting, Mounted, Deployed, Recording, Ending, Running, ResetStage

\* The count of faults stays within its bound.
LEMMA FaultBound ==
  ASSUME faults \in 0 .. MaxFaults, Succeeds \/ Fails
  PROVE  faults' \in 0 .. MaxFaults
BY UpgradeAssumption DEF Succeeds, Fails

\* A step of a reset that leaves the sources and the run's spec alone keeps the types if
\* what it changes is typed.
LEMMA ResetTypes ==
  ASSUME MachineTypes, cmd = "reset", UNCHANGED <<booted, runVars, cmd, source>>,
         disk' \in [Slot -> Image], tree' \in [Slot -> SUBSET Version],
         yaml' \in [ImgPart -> InstallState], grub' \in [SystemSlot -> Label],
         lost' \subseteq {"dev", "oem", "persistent"},
         mnt' \in [Part -> Mode], work' \in Seq(Bind), loops' \subseteq ImgPart,
         pc' \in ResetLive \cup {"off", "ready"}, jobs' \in Seq(AnyJob), err' \in ResetError,
         cleanErr' \in BOOLEAN, exit' \in 0 .. 2, Succeeds \/ Fails,
         stateFS' \in {"unformatted", "formatted", "grub"}
  PROVE  MachineTypes'
<1>1. faults' \in 0 .. MaxFaults
  BY FaultBound DEF MachineTypes, ResetTypeOK
<1>2. PersistentOK' /\ VolatileOK' /\ RunOK'
  BY DEF MachineTypes, ResetTypeOK, PersistentOK, VolatileOK, RunOK
<1>3. ResetTypeOK'
  BY <1>1, <1>2, ResetStages DEF MachineTypes, ResetTypeOK, AnyJob
<1> QED
  BY <1>3 DEF MachineTypes

\* What a state of the machine has, one by one.
LEMMA Components ==
  ASSUME MachineTypes
  PROVE  /\ disk \in [Slot -> Image] /\ tree \in [Slot -> SUBSET Version]
         /\ yaml \in [ImgPart -> InstallState] /\ grub \in [SystemSlot -> Label]
         /\ lost \subseteq {"dev", "oem", "persistent"}
         /\ mnt \in [Part -> Mode] /\ work \in Seq(Bind) /\ loops \subseteq ImgPart
         /\ jobs \in Seq(AnyJob) /\ err \in ResetError /\ cleanErr \in BOOLEAN
         /\ exit \in 0 .. 2 /\ stateFS \in {"unformatted", "formatted", "grub"}
         /\ source \subseteq Version /\ faults \in 0 .. MaxFaults
BY DEF MachineTypes, ResetTypeOK, PersistentOK, VolatileOK, AnyJob

\* The codes a reset fails with.
LEMMA ResetCodes ==
  {"UnmountPartitions", "FormatPartitions", "MountPartitions", "HookBeforeReset", "DeployImgTree",
   "InstallGrub", "SelinuxRelabel", "HookAfterResetChroot", "HookAfterReset", "panic",
   "SetGrubVariables", "SetDefaultGrubEntry", "CreateImgFromTree", "DeployImage",
   "HookPostReset", "CreateFile", "Cleanup", "Reboot", "none"} \subseteq ResetError
BY DEF ResetError, Error, ErrorCode

\* The hooks and other steps of a reset that only succeed or fail.
LEMMA ResetHookTypes ==
  MachineTypes /\ cmd = "reset" /\ (BeforeReset \/ AfterReset \/ ResetEntry \/ PostReset) => MachineTypes'
<1> SUFFICES ASSUME MachineTypes, cmd = "reset", BeforeReset \/ AfterReset \/ ResetEntry \/ PostReset
             PROVE  MachineTypes'
  OBVIOUS
<1>1. /\ UNCHANGED <<persistentVars, volatileVars, runVars, jobs, cleanErr, resetVars, exit>>
      /\ Succeeds \/ Fails
  BY DEF BeforeReset, AfterReset, ResetEntry, PostReset, RunHook
<1>2. pc' \in ResetLive
  BY DEF BeforeReset, AfterReset, ResetEntry, PostReset, RunHook, ResetLive, Mounted, Deployed, Ending
<1>3. err' \in ResetError
  BY ResetCodes, Components DEF BeforeReset, AfterReset, ResetEntry, PostReset, RunHook
<1> QED
  BY <1>1, <1>2, <1>3, Components, ResetTypes

\* Unmounting leaves the mounts and images typed.
LEMMA UnmountTypes ==
  ASSUME MachineTypes, NEW stay, UnmountPartitions(stay)
  PROVE  disk' \in [Slot -> Image] /\ mnt' \in [Part -> Mode] /\ (Succeeds \/ Fails)
<1>1. \A s \in Slot : disk[s] \in Image /\ [disk[s] EXCEPT !.dirty = FALSE] \in Image
  BY Components DEF Image
<1>2. disk' \in [Slot -> Image]
  BY <1>1 DEF UnmountPartitions
<1>3. \A p \in Part : mnt[p] \in Mode /\ "none" \in Mode
  BY Components DEF Mode
<1>4. mnt' \in [Part -> Mode]
  BY <1>3 DEF UnmountPartitions
<1> QED
  BY <1>2, <1>4 DEF UnmountPartitions

\* Unmounting all partitions keeps the types.
LEMMA UnmountAllTypes == MachineTypes /\ cmd = "reset" /\ UnmountAll => MachineTypes'
<1> SUFFICES ASSUME MachineTypes, cmd = "reset", UnmountAll PROVE MachineTypes'
  OBVIOUS
<1>1. PICK stay \in SUBSET Part :
        /\ UnmountPartitions(stay)
        /\ IF stay = {} THEN Goto("formatState") ELSE Abort("UnmountPartitions")
  BY DEF UnmountAll
<1>2. disk' \in [Slot -> Image] /\ mnt' \in [Part -> Mode] /\ (Succeeds \/ Fails)
  BY <1>1, UnmountTypes
<1>3. pc' \in ResetLive /\ err' \in ResetError /\ exit' = exit
  BY <1>1, ResetCodes, Components DEF ResetLive, Formatting, Ending
<1>4. UNCHANGED <<tree, yaml, grub, lost, booted, work, loops, runVars, jobs, cleanErr, resetVars>>
  BY DEF UnmountAll
<1> QED
  BY <1>2, <1>3, <1>4, Components, ResetTypes

\* A wiped state partition is typed.
LEMMA WipedTypes ==
  ASSUME MachineTypes, StateWiped
  PROVE  /\ disk' \in [Slot -> Image] /\ tree' \in [Slot -> SUBSET Version]
         /\ yaml' \in [ImgPart -> InstallState] /\ grub' \in [SystemSlot -> Label]
<1>1. disk' \in [Slot -> Image]
  BY Components, NoFileType DEF StateWiped
<1>2. tree' \in [Slot -> SUBSET Version]
  BY Components DEF StateWiped
<1>3. Defaults \in InstallState
  BY DEF Defaults, InstallState, Entry, Label
<1>4. yaml' \in [ImgPart -> InstallState]
  BY <1>3, Components DEF StateWiped
<1>5. DefaultLabels \in [SystemSlot -> Label]
  BY DEF DefaultLabels, SystemSlot, Label
<1> QED
  BY <1>1, <1>2, <1>4, <1>5 DEF StateWiped

\* Formatting keeps the types.
LEMMA FormatTypes == MachineTypes /\ cmd = "reset" /\ (FormatState \/ FormatData) => MachineTypes'
<1> SUFFICES ASSUME MachineTypes, cmd = "reset", FormatState \/ FormatData PROVE MachineTypes'
  OBVIOUS
<1>1. /\ UNCHANGED <<lost, volatileVars, runVars, jobs, cleanErr, cmd, source, exit>>
      /\ Succeeds \/ Fails
  BY DEF FormatState, FormatData
<1>2. pc' \in ResetLive /\ err' \in ResetError
  BY ResetCodes, Components DEF FormatState, FormatData, ResetLive, Formatting, Ending
<1>3. StateWiped \/ UNCHANGED <<disk, tree, yaml, grub>>
  BY DEF FormatState, FormatData
<1>4. /\ disk' \in [Slot -> Image] /\ tree' \in [Slot -> SUBSET Version]
      /\ yaml' \in [ImgPart -> InstallState] /\ grub' \in [SystemSlot -> Label]
  BY <1>3, WipedTypes, Components
<1>5. stateFS' \in {"unformatted", "formatted", "grub"}
  BY Components DEF FormatState, FormatData
<1> QED
  BY <1>1, <1>2, <1>4, <1>5, Components, ResetTypes

\* Mounting keeps the types.
LEMMA MountTypes == MachineTypes /\ cmd = "reset" /\ (MountAll \/ MountRecoveryRW) => MachineTypes'
<1> SUFFICES ASSUME MachineTypes, cmd = "reset", MountAll \/ MountRecoveryRW PROVE MachineTypes'
  OBVIOUS
<1>1. /\ UNCHANGED <<persistentVars, booted, work, loops, runVars, cleanErr, resetVars, exit>>
      /\ Succeeds \/ Fails
  BY DEF MountAll, MountRecoveryRW
<1>2. pc' \in ResetLive /\ err' \in ResetError
  BY ResetCodes, Components DEF MountAll, MountRecoveryRW, ResetLive, Mounted, Recording, Ending
<1>3. mnt' \in [Part -> Mode]
  BY Components DEF MountAll, MountRecoveryRW, MountRWPartition, Mode
<1>4. Unmounter("recovery") \in AnyJob /\ [op |-> "umountAll", part |-> "state"] \in AnyJob
  BY DEF Unmounter, AnyJob, Job, Part, ImgPart
<1>5. jobs' \in Seq(AnyJob)
  <2>1. jobs \in Seq(AnyJob)
    BY Components
  <2> QED
    BY <1>4, <2>1, AppendType DEF MountAll, MountRecoveryRW
<1> QED
  BY <1>1, <1>2, <1>3, <1>5, Components, ResetTypes

\* The tree cleaner keeps the types.
LEMMA CleanerTypes ==
  ASSUME MachineTypes, NEW slot \in Slot, TreeCleaner(slot)
  PROVE  /\ work' \in Seq(Bind) /\ tree' \in [Slot -> SUBSET Version]
         /\ lost' \subseteq {"dev", "oem", "persistent"} /\ (Succeeds \/ Fails)
<1>1. work' \in Seq(Bind)
  <2>1. work \in Seq(Bind)
    BY Components
  <2> QED
    BY <2>1, FrontType DEF TreeCleaner, TreeUnmounts, RemovalFails
<1>2. CASE work' = <<>>
  BY <1>1, <1>2, Components DEF TreeCleaner, TreeUnmounts, RemovalFails, RemoveTree
<1>3. CASE work' # <<>>
  <2>1. work'[Len(work')] \in Bind
    BY <1>1, <1>3, LenProperties, ElementOfSeq, EmptySeq
  <2>2. work'[Len(work')].left \subseteq {"dev", "oem", "persistent"}
    BY <2>1 DEF Bind
  <2> QED
    BY <1>1, <1>3, <2>2, Components DEF TreeCleaner, TreeUnmounts, RemovalFails
<1> QED
  BY <1>2, <1>3

\* Deploying the tree keeps the types.
LEMMA DeployTypes == MachineTypes /\ cmd = "reset" /\ (DeployActive \/ DumpActive) => MachineTypes'
<1> SUFFICES ASSUME MachineTypes, cmd = "reset", DeployActive \/ DumpActive PROVE MachineTypes'
  OBVIOUS
<1>1. /\ UNCHANGED <<disk, yaml, grub, booted, mnt, loops, runVars, cleanErr, resetVars, exit>>
      /\ Succeeds \/ Fails
  BY DEF DeployActive, DumpActive
<1>2. pc' \in ResetLive /\ err' \in ResetError
  BY ResetCodes, Components
  DEF DeployActive, DumpActive, ResetLive, Mounted, Deployed, Ending
<1>3. [slot |-> "active", left |-> {}] \in Bind
  BY DEF Bind, Slot
<1>4. work' \in Seq(Bind)
  <2>1. work \in Seq(Bind)
    BY Components
  <2> QED
    BY <1>3, <2>1, AppendType DEF DeployActive, DumpActive
<1>5. work # <<>> => Top.left \subseteq {"dev", "oem", "persistent"}
  <2>1. work # <<>> => Top \in Bind
    BY LenProperties, ElementOfSeq, EmptySeq, Components DEF Top
  <2> QED
    BY <2>1 DEF Bind
<1>6. lost' \subseteq {"dev", "oem", "persistent"}
  BY <1>5, Components DEF DeployActive, DumpActive
<1>7. tree' \in [Slot -> SUBSET Version]
  BY Components DEF DeployActive, DumpActive, RemoveTree
<1>8. [op |-> "cleanTree", part |-> HomePart] \in AnyJob
  BY DEF HomePart, AnyJob, Job, Part, ImgPart
<1>9. jobs' \in Seq(AnyJob)
  <2>1. jobs \in Seq(AnyJob)
    BY Components
  <2> QED
    BY <1>8, <2>1, AppendType DEF DeployActive, DumpActive
<1> QED
  BY <1>1, <1>2, <1>4, <1>6, <1>7, <1>9, Components, ResetTypes

\* The tree cleaner after a failure, and in CreateImgFromTree, keeps the types.
LEMMA CleanActiveTypes == MachineTypes /\ cmd = "reset" /\ (DumpActiveFailed \/ CleanActive) => MachineTypes'
<1> SUFFICES ASSUME MachineTypes, cmd = "reset", DumpActiveFailed \/ CleanActive PROVE MachineTypes'
  OBVIOUS
<1>1. /\ UNCHANGED <<disk, yaml, grub, booted, mnt, loops, runVars, jobs, cleanErr, resetVars, exit>>
      /\ TreeCleaner("active")
  BY DEF DumpActiveFailed, CleanActive
<1>2. pc' \in ResetLive /\ err' \in ResetError
  BY ResetCodes, Components DEF DumpActiveFailed, CleanActive, ResetLive, Deployed, Ending
<1>3. "active" \in Slot
  BY DEF Slot
<1> QED
  BY <1>1, <1>2, <1>3, CleanerTypes, Components, ResetTypes

\* What a chroot leaves mounted under the visible scratch tree.
LEMMA LeftTypes ==
  ASSUME work \in Seq(Bind), NEW left \in SUBSET ChrootBinds,
         work' = [work EXCEPT ![Len(work)].left = @ \cup left]
  PROVE  work' \in Seq(Bind)
<1>1. ChrootBinds \subseteq {"dev", "oem", "persistent"}
  BY DEF ChrootBinds
<1>2. CASE work = <<>>
  <2>1. DOMAIN work = {}
    BY <1>2
  <2>2. work' = work
    BY <1>2, <2>1, LenProperties
  <2> QED
    BY <2>2
<1>3. CASE work # <<>>
  <2> DEFINE bind == [work[Len(work)] EXCEPT !.left = @ \cup left]
  <2>1. Len(work) \in 1 .. Len(work) /\ work[Len(work)] \in Bind
    BY <1>3, LenProperties, ElementOfSeq, EmptySeq
  <2>2. bind \in Bind
    BY <1>1, <2>1 DEF Bind
  <2>3. work' = [work EXCEPT ![Len(work)] = bind]
    OBVIOUS
  <2> QED
    BY <2>1, <2>2, <2>3, ExceptSeq
<1> QED
  BY <1>2, <1>3

\* The chroots of a reset keep the types.
LEMMA ResetChrootTypes == MachineTypes /\ cmd = "reset" /\ (RelabelReset \/ ChrootReset) => MachineTypes'
<1> SUFFICES ASSUME MachineTypes, cmd = "reset", RelabelReset \/ ChrootReset PROVE MachineTypes'
  OBVIOUS
<1>1. /\ UNCHANGED <<persistentVars, booted, mnt, loops, runVars, jobs, cleanErr, resetVars, exit>>
      /\ Succeeds \/ Fails
  BY DEF RelabelReset, ChrootReset, ChrootedCallback
<1>2. pc' \in ResetLive /\ err' \in ResetError
  BY ResetCodes, Components DEF RelabelReset, ChrootReset, ChrootedCallback, ResetLive, Deployed, Ending
<1>3. work' = work \/ \E left \in SUBSET ChrootBinds : work' = [work EXCEPT ![Len(work)].left = @ \cup left]
  BY DEF RelabelReset, ChrootReset, ChrootedCallback
<1>4. work' \in Seq(Bind)
  BY <1>3, LeftTypes, Components
<1> QED
  BY <1>1, <1>2, <1>4, Components, ResetTypes

\* Installing the boot loader keeps the types.
LEMMA InstallGrubTypes == MachineTypes /\ cmd = "reset" /\ InstallGrub => MachineTypes'
<1> SUFFICES ASSUME MachineTypes, cmd = "reset", InstallGrub PROVE MachineTypes'
  OBVIOUS
<1>1. /\ UNCHANGED <<persistentVars, volatileVars, runVars, jobs, cleanErr, cmd, source, exit>>
      /\ Succeeds \/ Fails
  BY DEF InstallGrub
<1>2. pc' \in ResetLive /\ err' \in ResetError /\ stateFS' \in {"unformatted", "formatted", "grub"}
  BY ResetCodes, Components DEF InstallGrub, ResetLive, Deployed, Ending
<1> QED
  BY <1>1, <1>2, Components, ResetTypes

\* Setting the variables of GRUB keeps the types.
LEMMA ResetVariablesTypes == MachineTypes /\ cmd = "reset" /\ SetResetVariables => MachineTypes'
<1> SUFFICES ASSUME MachineTypes, cmd = "reset", SetResetVariables PROVE MachineTypes'
  OBVIOUS
<1>1. /\ UNCHANGED <<disk, tree, yaml, lost, volatileVars, runVars, jobs, cleanErr, resetVars, exit>>
      /\ Succeeds \/ Fails
  BY DEF SetResetVariables
<1>2. pc' \in ResetLive /\ err' \in ResetError
  BY ResetCodes, Components DEF SetResetVariables, ResetLive, Deployed, Ending
<1>3. /\ spec.activeLabel \in Label /\ spec.passiveLabel \in Label
      /\ loaded.recovery.label \in Label /\ grub["recovery"] \in Label
  BY DEF MachineTypes, ResetTypeOK, RunOK, PersistentOK, UpgradeSpec, InstallState, Entry, SystemSlot
<1>4. ResetLabels \in [SystemSlot -> Label]
  BY <1>3 DEF ResetLabels, SystemSlot
<1>5. grub' \in [SystemSlot -> Label]
  BY <1>4, Components DEF SetResetVariables
<1> QED
  BY <1>1, <1>2, <1>5, Components, ResetTypes

\* Making the active image keeps the types.
LEMMA ActiveTypes == MachineTypes /\ cmd = "reset" /\ (CreateActive \/ FillActive \/ SquashActive) => MachineTypes'
<1> SUFFICES ASSUME MachineTypes, cmd = "reset", CreateActive \/ FillActive \/ SquashActive
             PROVE  MachineTypes'
  OBVIOUS
<1>1. UNCHANGED <<tree, yaml, grub, lost, booted, mnt, work, runVars, jobs, cleanErr, resetVars, exit>>
  BY DEF CreateActive, FillActive, SquashActive, ImgFails
<1>2. Succeeds \/ Fails
  BY DEF CreateActive, FillActive, SquashActive
<1>3. pc' \in ResetLive /\ err' \in ResetError
  BY ResetCodes, Components
  DEF CreateActive, FillActive, SquashActive, ImgFails, ResetLive, Deployed
<1>4. "active" \in Slot /\ RunOK /\ disk["active"].content \in SUBSET Version /\ tree["active"] \in SUBSET Version
  BY Components DEF MachineTypes, ResetTypeOK, Slot, Image
<1>5. \A ok \in BOOLEAN : /\ NewFile({}, ok) \in Image /\ NewFile(tree["active"], ok) \in Image
                          /\ NewFile(disk["active"].content \cup tree["active"], ok) \in Image
  <2>1. /\ {} \in SUBSET Version
        /\ disk["active"].content \cup tree["active"] \in SUBSET Version
    BY <1>4
  <2> QED
    BY <1>4, <2>1, NewFileType
<1>6. \/ disk' = disk
      \/ \E image \in Image : disk' = [disk EXCEPT !["active"] = image]
  BY <1>5, NoFileType DEF CreateActive, FillActive, SquashActive
<1>7. disk' \in [Slot -> Image]
  BY <1>4, <1>6, Components
<1>8. loops' \subseteq ImgPart
  BY Components, TransSlotType DEF CreateActive, FillActive, SquashActive
<1> QED
  BY <1>1, <1>2, <1>3, <1>7, <1>8, Components, ResetTypes

\* Copying active to passive keeps the types.
LEMMA CopyTypes == MachineTypes /\ cmd = "reset" /\ CopyPassive => MachineTypes'
<1> SUFFICES ASSUME MachineTypes, cmd = "reset", CopyPassive PROVE MachineTypes'
  OBVIOUS
<1>1. /\ UNCHANGED <<tree, yaml, grub, lost, volatileVars, runVars, jobs, cleanErr, resetVars, exit>>
      /\ Succeeds \/ Fails
  BY DEF CopyPassive
<1>2. pc' \in ResetLive /\ err' \in ResetError
  BY ResetCodes, Components DEF CopyPassive, ResetLive, Deployed, Ending
<1> DEFINE copy == [disk["active"] EXCEPT !.dirty = TRUE]
<1>3. disk["active"] \in Image /\ CopiedLabel \in Label
  BY Components, Zenon DEF MachineTypes, ResetTypeOK, RunOK, UpgradeSpec, CopiedLabel, Image, Slot
<1>4. /\ copy \in Image /\ [copy EXCEPT !.ok = FALSE] \in Image
      /\ [copy EXCEPT !.label = CopiedLabel] \in Image
  BY <1>3 DEF Image
<1>5. disk' = disk \/ \E image \in Image : disk' = [disk EXCEPT !["passive"] = image]
  BY <1>4 DEF CopyPassive
<1>6. disk' \in [Slot -> Image]
  BY <1>5, Components DEF Slot
<1> QED
  BY <1>1, <1>2, <1>6, Components, ResetTypes

\* The state a reset records is an install state.
LEMMA ResetStateTypes == MachineTypes => ResetState \in InstallState
<1> SUFFICES ASSUME MachineTypes PROVE ResetState \in InstallState
  OBVIOUS
<1> DEFINE img == [src |-> source, fs |-> spec.activeFS, label |-> spec.activeLabel]
           pas == [img EXCEPT !.label = spec.passiveLabel, !.fs = loaded.active.fs]
<1>1. /\ source \subseteq Version /\ spec.activeFS \in {"ext2", "squashfs"}
      /\ spec.activeLabel \in Label /\ spec.passiveLabel \in Label
      /\ loaded.active.fs \in {"ext2", "squashfs"} /\ loaded.recovery \in Entry
      /\ (loaded.file = "whole" /\ loaded.recovery.src = {}) \in BOOLEAN
  BY DEF MachineTypes, ResetTypeOK, RunOK, UpgradeSpec, InstallState, Entry
<1>2. img \in Entry /\ pas \in Entry
  BY <1>1 DEF Entry
<1>3. ResetState = [file |-> "whole",
                    recoveryNull |-> loaded.file = "whole" /\ loaded.recovery.src = {},
                    active |-> img, passive |-> pas, recovery |-> loaded.recovery]
  BY DEF ResetState
<1> HIDE DEF img, pas
<1> QED
  BY <1>1, <1>2, <1>3 DEF InstallState

\* Recording the new state keeps the types.
LEMMA ResetYamlTypes ==
  MachineTypes /\ cmd = "reset" /\ (WriteResetYaml \/ WriteResetRecoveryYaml) => MachineTypes'
<1> SUFFICES ASSUME MachineTypes, cmd = "reset", WriteResetYaml \/ WriteResetRecoveryYaml
             PROVE  MachineTypes'
  OBVIOUS
<1>1. /\ UNCHANGED <<disk, tree, grub, lost, volatileVars, runVars, jobs, cleanErr, resetVars, exit>>
      /\ Succeeds \/ Fails
  BY DEF WriteResetYaml, WriteResetRecoveryYaml, WriteYaml
<1>2. pc' \in ResetLive /\ err' \in ResetError
  BY ResetCodes, Components
  DEF WriteResetYaml, WriteResetRecoveryYaml, WriteYaml, ResetLive, Recording, Ending
<1>3. PICK p \in ImgPart : \/ yaml' = [yaml EXCEPT ![p] = ResetState]
                           \/ \E file \in {yaml[p].file, "broken", "empty"} :
                                yaml' = [yaml EXCEPT ![p].file = file]
  BY DEF WriteResetYaml, WriteResetRecoveryYaml, WriteYaml, ImgPart
<1>4. \A file \in {yaml[p].file, "broken", "empty"} : [yaml[p] EXCEPT !.file = file] \in InstallState
  BY Components DEF InstallState
<1>5. yaml' \in [ImgPart -> InstallState]
  BY <1>3, <1>4, ResetStateTypes, Components
<1> QED
  BY <1>1, <1>2, <1>5, Components, ResetTypes

\* Popping a job keeps the stack typed.
LEMMA PopTypes ==
  ASSUME MachineTypes, NEW op, PopJob(op)
  PROVE  jobs' \in Seq(AnyJob) /\ LastJob \in AnyJob /\ pc' = "cleanup" /\ UNCHANGED <<err, exit>>
<1>1. jobs \in Seq(AnyJob)
  BY Components
<1> QED
  BY <1>1, FrontType, LenProperties, ElementOfSeq, EmptySeq DEF PopJob, LastJob

\* The cleanup of a reset keeps the types.
LEMMA ResetCleanupTypes ==
  MachineTypes /\ cmd = "reset"
  /\ (JobCleanActive \/ JobUnmountAll \/ ((JobUmount \/ JobRemountRO) /\ UNCHANGED resetVars))
  => MachineTypes'
<1> SUFFICES ASSUME MachineTypes, cmd = "reset",
                    JobCleanActive \/ JobUnmountAll \/ ((JobUmount \/ JobRemountRO) /\ UNCHANGED resetVars)
             PROVE  MachineTypes'
  OBVIOUS
<1>1. "cleanup" \in ResetLive
  BY DEF ResetLive, Ending
<1>2. CASE JobCleanActive
  <2>1. /\ UNCHANGED <<disk, yaml, grub, booted, mnt, loops, runVars, resetVars>>
        /\ PopJob("cleanTree") /\ TreeCleaner("active") /\ cleanErr' = (cleanErr \/ TreeCleanerFailed)
    BY <1>2 DEF JobCleanActive
  <2>2. "active" \in Slot /\ cleanErr' \in BOOLEAN
    BY <2>1 DEF Slot
  <2> QED
    BY <1>1, <2>1, <2>2, PopTypes, CleanerTypes, Components, ResetTypes
<1>3. CASE JobUnmountAll
  <2>1. PICK stay \in SUBSET Part : UnmountPartitions(stay) /\ cleanErr' = (cleanErr \/ stay # {})
    BY <1>3 DEF JobUnmountAll
  <2>2. /\ UNCHANGED <<tree, yaml, grub, lost, booted, work, loops, runVars, resetVars>>
        /\ PopJob("umountAll") /\ cleanErr' \in BOOLEAN
    BY <1>3, <2>1 DEF JobUnmountAll
  <2>3. disk' \in [Slot -> Image] /\ mnt' \in [Part -> Mode] /\ (Succeeds \/ Fails)
    BY <2>1, UnmountTypes
  <2> QED
    BY <1>1, <2>2, <2>3, PopTypes, Components, ResetTypes
<1>4. CASE (JobUmount \/ JobRemountRO) /\ UNCHANGED resetVars
  <2>1. /\ UNCHANGED <<persistentVars, booted, work, loops, runVars, resetVars>>
        /\ Succeeds \/ Fails
    BY <1>4 DEF JobUmount, JobRemountRO, JobRevertMount
  <2>2. PICK op : PopJob(op)
    BY <1>4 DEF JobUmount, JobRemountRO, JobRevertMount
  <2>3. mnt' \in [Part -> Mode] /\ cleanErr' \in BOOLEAN
    BY <1>4, Components DEF JobUmount, JobRemountRO, JobRevertMount, Mode
  <2> QED
    BY <1>1, <2>1, <2>2, <2>3, PopTypes, Components, ResetTypes
<1> QED
  BY <1>2, <1>3, <1>4

\* The end of a reset keeps the types.
LEMMA ResetEndTypes ==
  MachineTypes /\ cmd = "reset" /\ CleanupDone /\ UNCHANGED resetVars => MachineTypes'
<1> SUFFICES ASSUME MachineTypes, cmd = "reset", CleanupDone, UNCHANGED resetVars
             PROVE  MachineTypes'
  OBVIOUS
<1>1. /\ UNCHANGED <<persistentVars, volatileVars, runVars, jobs, cleanErr, faults>>
      /\ Succeeds
  BY DEF CleanupDone, Succeeds
<1>2. pc' \in ResetLive /\ err' \in ResetError /\ exit' \in 0 .. 2
  BY ResetCodes, Components DEF CleanupDone, ResetLive, Ending
<1> QED
  BY <1>1, <1>2, Components, ResetTypes

\* A machine that goes down while or after a reset keeps the types.
LEMMA ResetOffTypes ==
  ASSUME MachineTypes, cmd = "reset", UNCHANGED resetVars, PoweredOff, Succeeds \/ Fails,
         disk' \in [Slot -> Image]
  PROVE  MachineTypes'
<1>1. /\ pc' = "off" /\ err' = "none" /\ cleanErr' = FALSE /\ exit' = 0 /\ jobs' = <<>>
      /\ mnt' = [p \in Part |-> "none"] /\ work' = <<>> /\ loops' = {}
      /\ UNCHANGED <<tree, yaml, grub, lost, booted, runVars>>
  BY DEF PoweredOff
<1>2. /\ err' \in ResetError /\ exit' \in 0 .. 2 /\ cleanErr' \in BOOLEAN
      /\ pc' \in ResetLive \cup {"off", "ready"}
  <2>1. cleanErr' \in BOOLEAN
    BY <1>1
  <2> QED
    BY <1>1, <2>1, ResetCodes
<1>3. jobs' \in Seq(AnyJob) /\ work' \in Seq(Bind) /\ loops' \subseteq ImgPart
  BY <1>1
<1>4. mnt' \in [Part -> Mode]
  BY <1>1 DEF Mode
<1> QED
  BY <1>1, <1>2, <1>3, <1>4, Components, ResetTypes

\* Losing power, the reboots and the power action keep the images typed.
LEMMA DownTypes ==
  ASSUME disk \in [Slot -> Image],
         disk' = Synced(disk) \/ \E torn \in SUBSET {s \in Slot : disk[s].dirty} :
           disk' = Synced([s \in Slot |-> [disk[s] EXCEPT !.ok = @ /\ s \notin torn]])
  PROVE  disk' \in [Slot -> Image]
<1>1. CASE disk' = Synced(disk)
  BY <1>1, SyncedType
<1>2. CASE \E torn \in SUBSET {s \in Slot : disk[s].dirty} :
             disk' = Synced([s \in Slot |-> [disk[s] EXCEPT !.ok = @ /\ s \notin torn]])
  <2>1. PICK torn \in SUBSET {s \in Slot : disk[s].dirty} :
               disk' = Synced([s \in Slot |-> [disk[s] EXCEPT !.ok = @ /\ s \notin torn]])
    BY <1>2
  <2>2. \A s \in Slot : [disk[s] EXCEPT !.ok = @ /\ s \notin torn] \in Image
    BY DEF Image
  <2> QED
    BY <2>1, <2>2, SyncedType
<1> QED
  BY <1>1, <1>2

\* A machine that goes down and comes up after a reset keeps the types.
LEMMA ResetPowerTypes ==
  ASSUME MachineTypes, cmd = "reset", UNCHANGED resetVars,
         PowerAction \/ Reboot \/ PowerLoss \/ \E s \in SystemSlot : Boot(s)
  PROVE  MachineTypes'
<1>1. CASE PowerAction /\ pc' = "exited"
  <2>1. /\ UNCHANGED <<persistentVars, volatileVars, runVars, jobs, cleanErr>>
        /\ Succeeds \/ Fails
    BY <1>1 DEF PowerAction, PoweredOff
  <2>2. pc' \in ResetLive /\ err' \in ResetError /\ exit' \in 0 .. 2
    BY <1>1, ResetCodes, Components DEF PowerAction, PoweredOff, ResetLive, Ending
  <2> QED
    BY <2>1, <2>2, Components, ResetTypes
<1>2. CASE PowerAction /\ pc' # "exited"
  <2>1. PoweredOff /\ (Succeeds \/ Fails) /\ disk' = Synced(disk)
    BY <1>2 DEF PowerAction
  <2> QED
    BY <2>1, DownTypes, ResetOffTypes, Components
<1>3. CASE Reboot \/ PowerLoss
  <2>1. /\ PoweredOff /\ (Succeeds \/ Fails)
        /\ disk' = Synced(disk) \/ \E torn \in SUBSET {s \in Slot : disk[s].dirty} :
             disk' = Synced([s \in Slot |-> [disk[s] EXCEPT !.ok = @ /\ s \notin torn]])
    BY <1>3 DEF Reboot, PowerLoss
  <2> QED
    BY <2>1, DownTypes, ResetOffTypes, Components
<1>4. CASE \E s \in SystemSlot : Boot(s)
  <2>1. PICK s \in SystemSlot : Boot(s)
    BY <1>4
  <2>2. BootMounts(s) \in [Part -> Mode]
    BY DEF BootMounts, Part, ImgPart, Mode
  <2>3. /\ UNCHANGED <<persistentVars, work, loops, runVars, jobs, cleanErr, err, exit, faults>>
        /\ pc' = "ready" /\ booted' = s /\ mnt' = BootMounts(s)
    BY <2>1 DEF Boot
  <2>4. ResetTypeOK'
    BY <2>2, <2>3, ResetStages
    DEF MachineTypes, ResetTypeOK, PersistentOK, VolatileOK, RunOK
  <2> QED
    BY <2>3, <2>4 DEF MachineTypes
<1> QED
  BY <1>1, <1>2, <1>3, <1>4

\* What a command loads is an install state.
LEMMA LoadedTypes == MachineTypes => LoadedState \in InstallState
<1> SUFFICES ASSUME MachineTypes PROVE LoadedState \in InstallState
  OBVIOUS
<1>1. \A file \in {"whole", "broken", "empty"} : [Defaults EXCEPT !.file = file] \in InstallState
  BY Zenon DEF Defaults, InstallState, Entry, Label
<1>2. \A p \in ImgPart : yaml[p] \in InstallState /\ yaml[p].file \in {"whole", "broken", "empty"}
  BY Components DEF InstallState
<1> QED
  BY <1>1, <1>2 DEF LoadedState, ImgPart

\* The spec made of it is typed.
LEMMA SpecTypes ==
  ASSUME MachineTypes, NEW recovery \in BOOLEAN, NEW sys \in {"ext2", "squashfs"},
         NEW rec \in {"ext2", "squashfs"}
  PROVE  NewSpec(recovery, sys, rec) \in UpgradeSpec
BY LoadedTypes, Zenon DEF NewSpec, UpgradeSpec, InstallState, Entry, Label

\* What a run finds when it starts is typed.
LEMMA FoundTypes ==
  ASSUME MachineTypes, NEW trusted \in BOOLEAN, NEW fresh \in BOOLEAN, NEW able \in BOOLEAN
  PROVE  [mnt |-> mnt, active |-> disk["active"].content, faults |-> faults,
          trusted |-> trusted, fresh |-> fresh, able |-> able] \in Start
<1>1. disk["active"].content \in SUBSET Version
  BY Components DEF Image, Slot
<1>2. mnt \in [Part -> Mode] /\ faults \in 0 .. MaxFaults
  BY Components
<1> QED
  BY <1>1, <1>2 DEF Start

\* Calling an upgrade on a machine in any state gives an upgrade its types.
LEMMA CallUpgradeTypes == MachineTypes /\ CallUpgrade => TypeOK' /\ MachineTypes'
<1> SUFFICES ASSUME MachineTypes, CallUpgrade PROVE TypeOK' /\ MachineTypes'
  OBVIOUS
<1>1. PICK recovery \in BOOLEAN, sys \in {"ext2", "squashfs"}, rec \in {"ext2", "squashfs"} :
        StartUpgrade(recovery, sys, rec)
  BY DEF CallUpgrade
<1>2. PersistentOK' /\ VolatileOK'
  BY <1>1 DEF StartUpgrade, MachineTypes, ResetTypeOK, PersistentOK, VolatileOK
<1>3. start' \in Start
  <2>1. Accurate(LoadedState) \in BOOLEAN
    BY DEF Accurate
  <2>2. \A trusted, fresh, able \in BOOLEAN :
          [mnt |-> mnt, active |-> disk["active"].content, faults |-> faults,
           trusted |-> trusted, fresh |-> fresh, able |-> able] \in Start
    BY FoundTypes
  <2> QED
    BY <1>1, <2>1, <2>2, Zenon DEF StartUpgrade
<1>4. runs' \in Version
  BY <1>1, UpgradeAssumption DEF StartUpgrade, MachineTypes, ResetTypeOK, RunOK, Version
<1>5. spec' \in UpgradeSpec /\ loaded' \in InstallState
  BY <1>1, LoadedTypes, SpecTypes DEF StartUpgrade
<1>6. CommandOK'
  <2>1. /\ jobs' = <<>> /\ pc' = "mountState" /\ err' = "none" /\ cleanErr' = FALSE /\ exit' = 0
        /\ faults' = faults
    BY <1>1 DEF StartUpgrade
  <2>2. jobs' \in Seq(Job)
    BY <2>1
  <2>3. pc' \in Running \cup {"ready", "exited", "off"} /\ err' \in Error /\ exit' \in 0 .. 2
    BY <2>1 DEF Running, Error
  <2>4. cleanErr' \in BOOLEAN
    BY <2>1
  <2>5. faults' \in 0 .. MaxFaults
    BY <2>1, Components
  <2> QED
    BY <2>2, <2>3, <2>4, <2>5 DEF CommandOK
<1>7. TypeOK'
  BY <1>2, <1>3, <1>4, <1>5, <1>6 DEF TypeOK, RunOK
<1>8. /\ stateFS' \in {"unformatted", "formatted", "grub"} /\ cmd' = "upgrade"
      /\ source' \subseteq Version
  BY Components DEF CallUpgrade, MachineTypes, ResetTypeOK
<1>9. ResetTypeOK'
  <2>1. jobs' \in Seq(AnyJob) /\ err' \in ResetError /\ pc' \in Running
    <3>1. jobs' = <<>> /\ err' = "none" /\ pc' = "mountState"
      BY <1>1 DEF StartUpgrade
    <3> QED
      BY <3>1, ResetCodes DEF Running
  <2> QED
    BY <1>7, <1>8, <2>1 DEF TypeOK, CommandOK, ResetTypeOK, AnyJob
<1> QED
  BY <1>7, <1>8, <1>9 DEF MachineTypes

\* Calling a reset keeps the types.
LEMMA CallResetTypes == MachineTypes /\ CallReset => MachineTypes'
<1> SUFFICES ASSUME MachineTypes, CallReset PROVE MachineTypes'
  OBVIOUS
<1>1. PICK sys \in {"ext2", "squashfs"}, external \in BOOLEAN : StartReset(sys, external)
  BY DEF CallReset
<1>2. PersistentOK' /\ VolatileOK'
  BY <1>1 DEF StartReset, MachineTypes, ResetTypeOK, PersistentOK, VolatileOK
<1>3. start' \in Start
  <2>1. /\ (LoadedState.recovery.src = disk["recovery"].content) \in BOOLEAN
        /\ (/\ work = <<>> /\ loops = {} /\ HasOEM
            /\ ~LoadedState.recoveryNull /\ stateFS # "unformatted") \in BOOLEAN
    OBVIOUS
  <2>2. \A trusted, fresh, able \in BOOLEAN :
          [mnt |-> mnt, active |-> disk["active"].content, faults |-> faults,
           trusted |-> trusted, fresh |-> fresh, able |-> able] \in Start
    BY FoundTypes
  <2> QED
    BY <1>1, <2>1, <2>2, Zenon DEF StartReset
<1>4. runs' \in Version /\ runs + 1 \in Version
  BY <1>1, UpgradeAssumption DEF StartReset, MachineTypes, ResetTypeOK, RunOK, Version
<1>5. spec' \in UpgradeSpec /\ loaded' \in InstallState
  <2>1. LoadedState.recovery.fs \in {"ext2", "squashfs"}
    BY LoadedTypes DEF InstallState, Entry
  <2> QED
    BY <1>1, <2>1, LoadedTypes, SpecTypes DEF StartReset
<1>6. source' \subseteq Version
  <2>1. disk["recovery"].content \subseteq Version
    BY Components DEF Image, Slot
  <2> QED
    BY <1>1, <1>4, <2>1 DEF StartReset
<1>7. /\ jobs' = <<>> /\ pc' = "unmountAll" /\ err' = "none" /\ cleanErr' = FALSE /\ exit' = 0
      /\ faults' = faults /\ stateFS' = stateFS /\ cmd' = "reset"
  BY <1>1 DEF StartReset
<1>8. cleanErr' \in BOOLEAN
  BY <1>7
<1>9. /\ jobs' \in Seq(AnyJob) /\ pc' \in ResetLive /\ err' \in ResetError /\ exit' \in 0 .. 2
      /\ faults' \in 0 .. MaxFaults /\ stateFS' \in {"unformatted", "formatted", "grub"}
  BY <1>7, ResetCodes, Components DEF ResetLive
<1>10. ResetTypeOK'
  BY <1>2, <1>3, <1>4, <1>5, <1>6, <1>7, <1>8, <1>9, ResetStages DEF RunOK, ResetTypeOK, AnyJob
<1> QED
  BY <1>7, <1>9, <1>10 DEF MachineTypes

\* The steps of an upgrade keep its types on this machine.
LEMMA UpgradeStepTypes ==
  ASSUME MachineTypes, cmd = "upgrade", [Next]_vars, UNCHANGED resetVars
  PROVE  TypeOK' /\ MachineTypes'
<1>1. TypeOK'
  BY TypeStep DEF MachineTypes
<1>2. stateFS' \in {"unformatted", "formatted", "grub"} /\ cmd' = "upgrade" /\ source' \subseteq Version
  BY DEF MachineTypes, ResetTypeOK
<1>3. jobs' \in Seq(AnyJob)
  BY <1>1, LenProperties DEF TypeOK, CommandOK, AnyJob
<1>4. ResetTypeOK'
  BY <1>1, <1>2, <1>3 DEF TypeOK, CommandOK, ResetTypeOK, AnyJob, ResetError
<1> QED
  BY <1>1, <1>2, <1>4 DEF MachineTypes

\* The kinds of steps of the machine: those of an upgrade are steps of module Upgrade.
LEMMA MachineSteps ==
  ASSUME MachineTypes, MachineNext
  PROVE  \/ cmd = "upgrade" /\ UpgradeStep
         \/ cmd = "reset" /\ ResetStep
         \/ CallUpgrade \/ CallReset
         \/ (Reboot \/ PowerLoss \/ \E s \in SystemSlot : Boot(s)) /\ UNCHANGED resetVars
BY DEF MachineNext, UpgradeStep, ResetStep, BootLoaded

\* Every step of the machine keeps the types.
LEMMA MachineTypeStep == MachineTypes /\ [MachineNext]_allVars => MachineTypes'
<1> SUFFICES ASSUME MachineTypes, [MachineNext]_allVars PROVE MachineTypes'
  OBVIOUS
<1>1. CASE UNCHANGED allVars
  BY <1>1
  DEF MachineTypes, ResetTypeOK, TypeOK, PersistentOK, VolatileOK, RunOK, CommandOK
<1>2. CASE UpgradeStep
  BY <1>2, UpgradeStepTypes DEF UpgradeStep, Next
<1>3. CASE ResetStep
  <2>1. cmd = "reset"
    BY <1>3 DEF ResetStep
  <2>2. CASE \/ UnmountAll \/ FormatState \/ FormatData \/ MountAll \/ BeforeReset
             \/ DeployActive \/ DumpActive \/ DumpActiveFailed \/ InstallGrub
             \/ RelabelReset \/ ChrootReset \/ AfterReset \/ SetResetVariables \/ ResetEntry
    BY <2>1, <2>2, UnmountAllTypes, FormatTypes, MountTypes, ResetHookTypes, DeployTypes,
       CleanActiveTypes, InstallGrubTypes, ResetChrootTypes, ResetVariablesTypes
  <2>3. CASE \/ CreateActive \/ FillActive \/ SquashActive \/ CleanActive \/ CopyPassive
             \/ PostReset \/ MountRecoveryRW \/ WriteResetYaml \/ WriteResetRecoveryYaml
    BY <2>1, <2>3, ActiveTypes, CleanActiveTypes, CopyTypes, ResetHookTypes, MountTypes,
       ResetYamlTypes
  <2>4. CASE \/ JobCleanActive \/ JobUnmountAll
             \/ (JobUmount \/ JobRemountRO \/ CleanupDone \/ PowerAction) /\ UNCHANGED resetVars
    BY <2>1, <2>4, ResetCleanupTypes, ResetEndTypes, ResetPowerTypes
  <2> QED
    BY <1>3, <2>2, <2>3, <2>4 DEF ResetStep
<1>4. CASE CallUpgrade \/ CallReset
  BY <1>4, CallUpgradeTypes, CallResetTypes
<1>5. CASE (Reboot \/ PowerLoss \/ \E s \in SystemSlot : Boot(s)) /\ UNCHANGED resetVars
  <2>1. CASE cmd = "upgrade"
    BY <1>5, <2>1, UpgradeStepTypes DEF Next
  <2>2. CASE cmd = "reset"
    BY <1>5, <2>2, ResetPowerTypes
  <2> QED
    BY <2>1, <2>2 DEF MachineTypes, ResetTypeOK
<1> QED
  BY <1>1, <1>2, <1>3, <1>4, <1>5, MachineSteps

\* The machine of an installation has the types.
LEMMA MachineTypeInit == MachineInit => MachineTypes
<1> SUFFICES ASSUME MachineInit PROVE MachineTypes
  OBVIOUS
<1>1. TypeOK
  BY TypeInit DEF MachineInit
<1>2. stateFS = "grub" /\ cmd = "upgrade" /\ source = {}
  BY DEF MachineInit
<1> QED
  BY <1>1, <1>2, UpgradeTypes DEF MachineTypes

\* Type correctness of the machine: upgrades and resets in any order, failing and
\* interrupted, keep its state and that of the commands typed (reset.go, upgrade.go).
THEOREM MachineTypeCorrect == MachineSpec => []ResetTypeOK
<1>1. MachineTypes => ResetTypeOK
  BY DEF MachineTypes
<1> QED
  BY <1>1, MachineTypeInit, MachineTypeStep, PTL DEF MachineSpec
-----------------------------------------------------------------------------
(* What a reset unmounts.                                                  *)

UmountAllJob   == [op |-> "umountAll", part |-> "state"]
CleanActiveJob == [op |-> "cleanTree", part |-> "state"]
RevertRecovery == [op |-> IF start.mnt["recovery"] = "none" THEN "umount" ELSE "remountRO",
                   part |-> "recovery"]

\* The order of the stack, and how far it has grown at each stage.
StackInv ==
  cmd = "reset" =>
    /\ Len(jobs) <= 3
    /\ Len(jobs) >= 1 => jobs[1] = UmountAllJob
    /\ Len(jobs) >= 2 => jobs[2] = CleanActiveJob
    /\ Len(jobs) = 3 => jobs[3] = RevertRecovery
    /\ pc \in {"unmountAll"} \cup Formatting => Len(jobs) = 0
    /\ pc \in Mounted => Len(jobs) = 1
    /\ pc \in Deployed => Len(jobs) = 2
    /\ pc \in Recording => Len(jobs) = 3
    /\ pc \in {"power", "exited", "off", "ready"} => Len(jobs) = 0

Unmounted  == mnt["state"] = "none" /\ mnt["persistent"] = "none"
Unmounting == err \in {"UnmountPartitions", "MountPartitions"}

\* State and persistent are unmounted before they are formatted and when their job has
\* run; recovery is as it was found until it is mounted, and when its job has run.
MountInv ==
  cmd = "reset" =>
    /\ pc \in Formatting => Unmounted
    /\ pc \in Ending /\ Len(jobs) = 0 => cleanErr \/ Unmounting \/ Unmounted
    /\ pc \in ResetLive /\ Len(jobs) < 3 =>
         cleanErr \/ (mnt["recovery"] = "rw" => start.mnt["recovery"] = "rw")
    /\ pc \in {"unmountAll"} \cup Formatting \cup Mounted \cup Deployed =>
         mnt["recovery"] = start.mnt["recovery"]
    /\ pc = "power" => err = "none"
    /\ pc \in ResetLive => ~spec.recovery

UnmountInv == StackInv /\ MountInv

\* The stages differ.
LEMMA StagesDiffer ==
  /\ \A p \in {"unmountAll"} : p \notin Formatting \cup Mounted \cup Deployed \cup Recording \cup Ending
  /\ \A p \in Formatting : p \notin {"unmountAll"} \cup Mounted \cup Deployed \cup Recording \cup Ending
  /\ \A p \in Mounted : p \notin {"unmountAll"} \cup Formatting \cup Deployed \cup Recording \cup Ending
  /\ \A p \in Deployed : p \notin {"unmountAll"} \cup Formatting \cup Mounted \cup Recording \cup Ending
  /\ \A p \in Recording : p \notin {"unmountAll"} \cup Formatting \cup Mounted \cup Deployed \cup Ending
  /\ \A p \in Ending \cup {"off", "ready"} :
       p \notin {"unmountAll"} \cup Formatting \cup Mounted \cup Deployed \cup Recording
  /\ \A p \in ResetLive : p \notin {"off", "ready"}
BY DEF Formatting, Mounted, Deployed, Recording, Ending, ResetLive

\* Pushing a job on the stack of a reset.
LEMMA ResetPushed ==
  ASSUME MachineTypes, NEW job, jobs' = Append(jobs, job)
  PROVE  /\ Len(jobs) \in Nat
         /\ Len(jobs') = Len(jobs) + 1 /\ jobs'[Len(jobs) + 1] = job
         /\ \A i \in 1 .. Len(jobs) : jobs'[i] = jobs[i]
<1>1. jobs \in Seq(AnyJob \cup {job}) /\ job \in AnyJob \cup {job}
  <2>1. jobs \in Seq(AnyJob)
    BY Components
  <2> QED
    BY <2>1, LenProperties
<1> QED
  BY <1>1, AppendProperties, LenProperties

\* Popping a job off the stack of a reset.
LEMMA ResetPopped ==
  ASSUME MachineTypes, NEW op, PopJob(op)
  PROVE  /\ Len(jobs) \in Nat /\ Len(jobs) >= 1 /\ Len(jobs') = Len(jobs) - 1
         /\ \A i \in 1 .. Len(jobs') : jobs'[i] = jobs[i]
         /\ LastJob = jobs[Len(jobs)] /\ LastJob.op = op
<1>1. jobs \in Seq(AnyJob)
  BY Components
<1>2. Len(jobs) \in Nat /\ Len(jobs) # 0
  BY <1>1, LenProperties, EmptySeq DEF PopJob
<1>3. jobs' = SubSeq(jobs, 1, Len(jobs) - 1)
  BY DEF PopJob
<1>4. Len(jobs') = Len(jobs) - 1 /\ \A i \in 1 .. Len(jobs') : jobs'[i] = jobs[i]
  <2>1. \A i \in 1 .. Len(jobs) - 1 : jobs[i] \in AnyJob
    BY <1>1, <1>2, LenProperties
  <2>2. Len(jobs) - 1 \in Int /\ 1 \in Int
    BY <1>2
  <2>3. /\ Len(jobs') = IF 1 <= Len(jobs) - 1 THEN (Len(jobs) - 1) - 1 + 1 ELSE 0
        /\ \A i \in 1 .. (Len(jobs) - 1) - 1 + 1 : jobs'[i] = jobs[1 + i - 1]
    BY <1>1, <1>3, <2>1, <2>2, SubSeqProperties
  <2>4. Len(jobs') = Len(jobs) - 1
    <3>1. Len(jobs') = IF 1 <= Len(jobs) - 1 THEN (Len(jobs) - 1) - 1 + 1 ELSE 0
      BY <2>3
    <3> QED
      BY <1>2, <3>1
  <2>5. ASSUME NEW i \in 1 .. Len(jobs') PROVE jobs'[i] = jobs[i]
    <3>1. i \in 1 .. (Len(jobs) - 1) - 1 + 1 /\ 1 + i - 1 = i
      BY <1>2, <2>4
    <3>2. jobs'[i] = jobs[1 + i - 1]
      BY <2>3, <3>1
    <3> QED
      BY <3>1, <3>2
  <2> QED
    BY <2>4, <2>5
<1> QED
  BY <1>2, <1>4 DEF PopJob, LastJob

\* Steps within a part of a reset, or from it into the cleanup, that leave the mounts.
LEMMA UnmountQuiet ==
  ASSUME MachineTypes, UnmountInv, cmd = "reset", UNCHANGED <<jobs, start, spec, cmd, mnt, cleanErr>>,
         \/ pc \in Formatting /\ pc' \in Formatting \cup {"cleanup"}
         \/ pc \in Mounted /\ pc' \in Mounted \cup {"cleanup"}
         \/ pc \in Deployed /\ pc' \in Deployed \cup {"cleanup"}
         \/ pc \in Recording /\ pc' \in Recording \cup {"cleanup"}
  PROVE  UnmountInv'
<1>1. pc' # "power" /\ (pc' \in Ending => pc' = "cleanup") /\ pc \in ResetLive
  BY StagesDiffer DEF Ending, ResetLive
<1>2. Len(jobs) = 0 => pc \in Formatting
  BY DEF UnmountInv, StackInv
<1>3. StackInv'
  <2>1. /\ Len(jobs) <= 3 /\ (Len(jobs) >= 1 => jobs[1] = UmountAllJob)
        /\ (Len(jobs) >= 2 => jobs[2] = CleanActiveJob)
        /\ (Len(jobs) = 3 => jobs[3] = RevertRecovery)
    BY DEF UnmountInv, StackInv
  <2>2. RevertRecovery' = RevertRecovery
    BY DEF RevertRecovery
  <2>3. /\ pc' \in {"unmountAll"} \cup Formatting => pc \in Formatting
        /\ pc' \in Mounted => pc \in Mounted
        /\ pc' \in Deployed => pc \in Deployed
        /\ pc' \in Recording => pc \in Recording
        /\ pc' \notin {"power", "exited", "off", "ready"}
    BY StagesDiffer DEF Ending
  <2>4. /\ pc \in Formatting => Len(jobs) = 0
        /\ pc \in Mounted => Len(jobs) = 1
        /\ pc \in Deployed => Len(jobs) = 2
        /\ pc \in Recording => Len(jobs) = 3
    BY DEF UnmountInv, StackInv
  <2> QED
    BY <2>1, <2>2, <2>3, <2>4 DEF StackInv, UmountAllJob, CleanActiveJob
<1>4. MountInv'
  <2>1. /\ pc' \in Formatting => pc \in Formatting
        /\ pc' \in {"unmountAll"} \cup Formatting \cup Mounted \cup Deployed =>
             pc \in Formatting \cup Mounted \cup Deployed
    BY StagesDiffer DEF Ending
  <2> QED
    BY <1>1, <1>2, <2>1 DEF UnmountInv, MountInv, Unmounted
<1> QED
  BY <1>3, <1>4 DEF UnmountInv

\* Unmounting all partitions at the beginning.
LEMMA UnmountAllInv == MachineTypes /\ UnmountInv /\ cmd = "reset" /\ UnmountAll => UnmountInv'
<1> SUFFICES ASSUME MachineTypes, UnmountInv, cmd = "reset", UnmountAll PROVE UnmountInv'
  OBVIOUS
<1>1. PICK stay \in SUBSET Part :
        /\ UnmountPartitions(stay)
        /\ IF stay = {} THEN Goto("formatState") ELSE Abort("UnmountPartitions")
  BY DEF UnmountAll
<1>2. /\ pc = "unmountAll" /\ UNCHANGED <<jobs, start, spec, cmd, cleanErr>> /\ ~spec.recovery
      /\ Len(jobs) = 0 /\ mnt["recovery"] = start.mnt["recovery"]
  BY DEF UnmountAll, UnmountInv, StackInv, MountInv, ResetLive
<1>3. /\ mnt'["recovery"] = mnt["recovery"]
      /\ stay = {} => mnt'["state"] = "none" /\ mnt'["persistent"] = "none"
  BY <1>1 DEF UnmountPartitions, Part, ImgPart
<1>4. \/ stay = {} /\ pc' = "formatState"
      \/ pc' = "cleanup" /\ err' = "UnmountPartitions"
  BY <1>1
<1>5. StackInv'
  BY <1>2, <1>4 DEF StackInv, Formatting, Mounted, Deployed, Recording
<1>6. MountInv'
  BY <1>2, <1>3, <1>4
  DEF MountInv, Unmounted, Unmounting, Formatting, Mounted, Deployed, Recording, Ending
<1> QED
  BY <1>5, <1>6 DEF UnmountInv

\* Mounting them again.
LEMMA MountAllInv == MachineTypes /\ UnmountInv /\ cmd = "reset" /\ MountAll => UnmountInv'
<1> SUFFICES ASSUME MachineTypes, UnmountInv, cmd = "reset", MountAll PROVE UnmountInv'
  OBVIOUS
<1>1. /\ pc = "mountAll" /\ UNCHANGED <<start, spec, cmd, cleanErr>> /\ ~spec.recovery
      /\ Len(jobs) = 0 /\ mnt["recovery"] = start.mnt["recovery"]
  BY DEF MountAll, UnmountInv, StackInv, MountInv, Formatting, ResetLive
<1>2. mnt'["recovery"] = mnt["recovery"]
  <2>1. mnt \in [Part -> Mode] /\ "recovery" \in Part
    BY Components DEF Part, ImgPart
  <2> QED
    BY <2>1 DEF MountAll
<1>3. CASE pc' = "beforeReset" /\ jobs' = Append(jobs, UmountAllJob)
  <2>1. Len(jobs') = 1 /\ jobs'[1] = UmountAllJob
    BY <1>1, <1>3, ResetPushed
  <2>2. StackInv'
    BY <1>3, <2>1 DEF StackInv, Formatting, Mounted, Deployed, Recording, UmountAllJob
  <2>3. MountInv'
    BY <1>1, <1>2, <1>3, <2>1 DEF MountInv, Formatting, Ending
  <2> QED
    BY <2>2, <2>3 DEF UnmountInv
<1>4. CASE pc' = "cleanup" /\ err' = "MountPartitions" /\ jobs' = jobs
  <2>1. StackInv'
    BY <1>1, <1>4 DEF StackInv, Formatting, Mounted, Deployed, Recording
  <2>2. MountInv'
    BY <1>1, <1>2, <1>4 DEF MountInv, Unmounting, Formatting, Mounted, Deployed
  <2> QED
    BY <2>1, <2>2 DEF UnmountInv
<1> QED
  BY <1>3, <1>4 DEF MountAll, UmountAllJob

\* The tree cleaner is pushed when the source is in the tree.
LEMMA DumpActiveInv == MachineTypes /\ UnmountInv /\ cmd = "reset" /\ DumpActive => UnmountInv'
<1> SUFFICES ASSUME MachineTypes, UnmountInv, cmd = "reset", DumpActive PROVE UnmountInv'
  OBVIOUS
<1>1. pc = "dumpActive" /\ UNCHANGED <<start, spec, cmd, mnt, cleanErr>>
      /\ pc \in Mounted /\ pc \in ResetLive
  BY DEF DumpActive, Mounted, ResetLive
<1>2. CASE pc' = "installGrub" /\ jobs' = Append(jobs, [op |-> "cleanTree", part |-> HomePart])
  <2>1. /\ Len(jobs) = 1 /\ jobs[1] = UmountAllJob /\ mnt["recovery"] = start.mnt["recovery"]
        /\ ~spec.recovery
    BY <1>1 DEF UnmountInv, StackInv, MountInv
  <2>2. [op |-> "cleanTree", part |-> HomePart] = CleanActiveJob
    BY <2>1 DEF HomePart, CleanActiveJob
  <2>3. Len(jobs') = 2 /\ jobs'[1] = UmountAllJob /\ jobs'[2] = CleanActiveJob
    BY <1>2, <2>1, <2>2, ResetPushed
  <2>4. StackInv'
    BY <1>2, <2>3
    DEF StackInv, Formatting, Mounted, Deployed, Recording, UmountAllJob, CleanActiveJob
  <2>5. MountInv'
    BY <1>1, <1>2, <2>1, <2>3 DEF MountInv, Formatting, Ending
  <2> QED
    BY <2>4, <2>5 DEF UnmountInv
<1>3. CASE pc' = "dumpFailed" /\ UNCHANGED jobs
  BY <1>1, <1>3, UnmountQuiet DEF Mounted
<1> QED
  BY <1>2, <1>3 DEF DumpActive

\* Recovery is mounted to be written, and how it was found says how its mount is reverted.
LEMMA MountRecoveryRWInv ==
  MachineTypes /\ UnmountInv /\ cmd = "reset" /\ MountRecoveryRW => UnmountInv'
<1> SUFFICES ASSUME MachineTypes, UnmountInv, cmd = "reset", MountRecoveryRW PROVE UnmountInv'
  OBVIOUS
<1>1. pc = "mountRecoveryRW" /\ UNCHANGED <<start, spec, cmd, cleanErr>>
      /\ pc \in Deployed /\ pc \in ResetLive
  BY DEF MountRecoveryRW, Deployed, ResetLive
<1>2. CASE pc' = "resetYaml" /\ jobs' = Append(jobs, Unmounter("recovery"))
  <2>1. /\ Len(jobs) = 2 /\ jobs[1] = UmountAllJob /\ jobs[2] = CleanActiveJob
        /\ mnt["recovery"] = start.mnt["recovery"] /\ ~spec.recovery
    BY <1>1 DEF UnmountInv, StackInv, MountInv
  <2>2. Unmounter("recovery") = RevertRecovery
    BY <2>1 DEF Unmounter, RevertRecovery
  <2>3. /\ Len(jobs') = 3 /\ jobs'[1] = UmountAllJob /\ jobs'[2] = CleanActiveJob
        /\ jobs'[3] = RevertRecovery
    BY <1>2, <2>1, <2>2, ResetPushed
  <2>4. StackInv'
    BY <1>1, <1>2, <2>3
    DEF StackInv, Formatting, Mounted, Deployed, Recording, UmountAllJob, CleanActiveJob,
        RevertRecovery
  <2>5. MountInv'
    BY <1>1, <1>2, <2>1, <2>3 DEF MountInv, Formatting, Mounted, Deployed, Ending
  <2> QED
    BY <2>4, <2>5 DEF UnmountInv
<1>3. CASE pc' = "cleanup" /\ UNCHANGED <<mnt, jobs>>
  BY <1>1, <1>3, UnmountQuiet
<1> QED
  BY <1>2, <1>3 DEF MountRecoveryRW

\* Which job the length of the stack of a reset tells.
LEMMA ResetJobKinds ==
  ASSUME MachineTypes, UnmountInv, cmd = "reset", NEW op, PopJob(op)
  PROVE  /\ Len(jobs) \in 1 .. 3 /\ pc = "cleanup" /\ pc' = "cleanup" /\ err' = err
         /\ op = "umountAll" <=> Len(jobs) = 1
         /\ op = "cleanTree" <=> Len(jobs) = 2
         /\ op \in {"umount", "remountRO"} <=> Len(jobs) = 3
         /\ Len(jobs) = 3 => LastJob = RevertRecovery
<1>1. /\ Len(jobs) \in Nat /\ Len(jobs) >= 1 /\ LastJob = jobs[Len(jobs)] /\ LastJob.op = op
  BY ResetPopped
<1>2. /\ Len(jobs) <= 3 /\ (Len(jobs) >= 1 => jobs[1] = UmountAllJob)
      /\ (Len(jobs) >= 2 => jobs[2] = CleanActiveJob)
      /\ (Len(jobs) = 3 => jobs[3] = RevertRecovery)
  BY DEF UnmountInv, StackInv
<1>3. Len(jobs) = 1 \/ Len(jobs) = 2 \/ Len(jobs) = 3
  <2>1. Len(jobs) \in Nat /\ Len(jobs) >= 1 /\ Len(jobs) <= 3
    BY <1>1, <1>2
  <2>2. \A n \in Nat : n >= 1 /\ n <= 3 => n = 1 \/ n = 2 \/ n = 3
    OBVIOUS
  <2> QED
    BY <2>1, <2>2
<1>4. pc = "cleanup" /\ pc' = "cleanup" /\ err' = err
  BY DEF PopJob
<1>5. CASE Len(jobs) = 1
  BY <1>1, <1>2, <1>4, <1>5 DEF UmountAllJob
<1>6. CASE Len(jobs) = 2
  BY <1>1, <1>2, <1>4, <1>6 DEF CleanActiveJob
<1>7. CASE Len(jobs) = 3
  BY <1>1, <1>2, <1>4, <1>7 DEF RevertRecovery
<1> QED
  BY <1>3, <1>5, <1>6, <1>7

\* A job that was popped leaves the order of the rest.
LEMMA PoppedStack ==
  ASSUME MachineTypes, UnmountInv, cmd = "reset", NEW op, PopJob(op), UNCHANGED <<start, cmd>>
  PROVE  StackInv' /\ Len(jobs') = Len(jobs) - 1
<1>1. Len(jobs) \in 1 .. 3 /\ pc' = "cleanup"
  BY ResetJobKinds
<1>2. Len(jobs') = Len(jobs) - 1 /\ \A i \in 1 .. Len(jobs') : jobs'[i] = jobs[i]
  BY ResetPopped
<1>3. /\ Len(jobs) >= 1 => jobs[1] = UmountAllJob
      /\ Len(jobs) >= 2 => jobs[2] = CleanActiveJob
  BY DEF UnmountInv, StackInv
<1>4. /\ Len(jobs') <= 2 /\ (Len(jobs') >= 1 => jobs'[1] = UmountAllJob)
      /\ (Len(jobs') >= 2 => jobs'[2] = CleanActiveJob)
  BY <1>1, <1>2, <1>3
<1> QED
  BY <1>1, <1>2, <1>4
  DEF StackInv, Formatting, Mounted, Deployed, Recording, UmountAllJob, CleanActiveJob

\* The jobs of the cleanup stack.
LEMMA ResetJobsInv ==
  MachineTypes /\ UnmountInv /\ cmd = "reset"
  /\ (JobCleanActive \/ JobUnmountAll \/ ((JobUmount \/ JobRemountRO) /\ UNCHANGED resetVars))
  => UnmountInv'
<1> SUFFICES ASSUME MachineTypes, UnmountInv, cmd = "reset",
                    JobCleanActive \/ JobUnmountAll \/ ((JobUmount \/ JobRemountRO) /\ UNCHANGED resetVars)
             PROVE  UnmountInv'
  OBVIOUS
<1>1. /\ UNCHANGED <<start, spec, cmd>>
      /\ \E op : PopJob(op)
  BY DEF JobCleanActive, JobUnmountAll, JobUmount, JobRemountRO, JobRevertMount
<1>2. StackInv' /\ Len(jobs') = Len(jobs) - 1 /\ Len(jobs) \in 1 .. 3
  BY <1>1, PoppedStack, ResetJobKinds
<1>3. /\ pc = "cleanup" /\ pc' = "cleanup" /\ ~spec.recovery
      /\ Len(jobs) < 3 => cleanErr \/ (mnt["recovery"] = "rw" => start.mnt["recovery"] = "rw")
  BY <1>1, ResetJobKinds DEF UnmountInv, MountInv, ResetLive, Ending
<1>4. CASE JobCleanActive
  <2>1. UNCHANGED mnt /\ cleanErr' = (cleanErr \/ TreeCleanerFailed) /\ PopJob("cleanTree")
    BY <1>4 DEF JobCleanActive
  <2>2. Len(jobs) = 2 /\ (cleanErr => cleanErr')
    BY <2>1, ResetJobKinds
  <2>3. MountInv'
    <3>1. UNCHANGED mnt /\ Len(jobs') = 1
      BY <1>2, <2>1, <2>2
    <3> QED
      BY <1>1, <1>3, <2>2, <3>1 DEF MountInv, Formatting, Mounted, Deployed
  <2> QED
    BY <1>2, <2>3 DEF UnmountInv
<1>5. CASE JobUnmountAll
  <2>1. PICK stay \in SUBSET Part : UnmountPartitions(stay) /\ cleanErr' = (cleanErr \/ stay # {})
    BY <1>5 DEF JobUnmountAll
  <2>2. Len(jobs) = 1
    BY <1>5, ResetJobKinds DEF JobUnmountAll
  <2>3. /\ mnt'["recovery"] = mnt["recovery"]
        /\ stay = {} => mnt'["state"] = "none" /\ mnt'["persistent"] = "none"
    BY <2>1 DEF UnmountPartitions, Part, ImgPart
  <2>4. (cleanErr => cleanErr') /\ (cleanErr' \/ Unmounted')
    BY <2>1, <2>3 DEF Unmounted
  <2>5. MountInv'
    <3>1. Len(jobs') = 0
      BY <1>2, <2>2
    <3> QED
      BY <1>1, <1>3, <2>2, <2>3, <2>4, <3>1 DEF MountInv, Formatting, Mounted, Deployed
  <2> QED
    BY <1>2, <2>5 DEF UnmountInv
<1>6. CASE (JobUmount \/ JobRemountRO) /\ UNCHANGED resetVars
  <2>1. PICK op \in {"umount", "remountRO"}, mode \in {"none", "ro"} : JobRevertMount(op, mode)
    BY <1>6 DEF JobUmount, JobRemountRO
  <2>2. Len(jobs) = 3 /\ LastJob = RevertRecovery
    BY <2>1, ResetJobKinds DEF JobRevertMount
  <2>3. LastJob.part = "recovery"
    BY <2>2 DEF RevertRecovery
  <2>4. mnt \in [Part -> Mode] /\ "recovery" \in Part
    BY Components DEF Part, ImgPart
  <2>5. cleanErr' \/ mnt'["recovery"] = mode
    BY <2>1, <2>3, <2>4 DEF JobRevertMount
  <2>6. MountInv'
    BY <1>1, <1>2, <1>3, <2>1, <2>2, <2>5 DEF MountInv, Formatting, Mounted, Deployed
  <2> QED
    BY <1>2, <2>6 DEF UnmountInv
<1> QED
  BY <1>4, <1>5, <1>6

\* The end of a reset.
LEMMA ResetEndInv ==
  ASSUME MachineTypes, UnmountInv, cmd = "reset", UNCHANGED resetVars,
         CleanupDone \/ (PowerAction /\ pc' = "exited")
  PROVE  UnmountInv'
<1>1. /\ UNCHANGED <<start, spec, cmd, mnt, cleanErr, jobs>>
      /\ pc \in {"cleanup", "power"} /\ pc' \in {"power", "exited"}
  BY DEF CleanupDone, PowerAction, PoweredOff
<1>2. Len(jobs) = 0
  <2>1. CASE CleanupDone
    BY <2>1, EmptySeq DEF CleanupDone
  <2>2. CASE PowerAction
    BY <2>2 DEF PowerAction, UnmountInv, StackInv
  <2> QED
    BY <2>1, <2>2
<1>3. /\ ~spec.recovery /\ (cleanErr \/ Unmounting \/ Unmounted)
      /\ cleanErr \/ (mnt["recovery"] = "rw" => start.mnt["recovery"] = "rw")
  BY <1>1, <1>2 DEF UnmountInv, MountInv, ResetLive, Ending
<1>4. (Unmounting => Unmounting') /\ (pc' = "power" => err' = "none")
  <2>1. CASE CleanupDone
    BY <2>1 DEF CleanupDone, Unmounting
  <2>2. CASE PowerAction /\ pc' = "exited"
    BY <2>2 DEF PowerAction, PoweredOff, UnmountInv, MountInv, Unmounting
  <2> QED
    BY <2>1, <2>2
<1>5. StackInv'
  BY <1>1, <1>2 DEF StackInv, Formatting, Mounted, Deployed, Recording
<1>6. MountInv'
  BY <1>1, <1>2, <1>3, <1>4 DEF MountInv, Formatting, Mounted, Deployed, Unmounted
<1> QED
  BY <1>5, <1>6 DEF UnmountInv

\* A machine that goes down or comes up.
LEMMA ResetPowerInv ==
  ASSUME MachineTypes, UnmountInv, cmd = "reset", UNCHANGED resetVars,
         PowerAction \/ Reboot \/ PowerLoss \/ \E s \in SystemSlot : Boot(s)
  PROVE  UnmountInv'
<1>1. CASE PowerAction /\ pc' = "exited"
  BY <1>1, ResetEndInv
<1>2. CASE pc' \in {"off", "ready"} /\ Len(jobs') = 0
  BY <1>2
  DEF UnmountInv, StackInv, MountInv, Formatting, Mounted, Deployed, Recording, Ending, ResetLive
<1>3. CASE PoweredOff
  BY <1>2, <1>3, EmptySeq DEF PoweredOff
<1>4. CASE \E s \in SystemSlot : Boot(s)
  <2>1. pc' = "ready" /\ Len(jobs) = 0 /\ jobs' = jobs
    BY <1>4 DEF Boot, UnmountInv, StackInv
  <2> QED
    BY <1>2, <2>1
<1> QED
  BY <1>1, <1>3, <1>4 DEF PowerAction, Reboot, PowerLoss

\* The steps of a reset that mount nothing and push no job.
LEMMA ResetQuietInv ==
  MachineTypes /\ UnmountInv /\ cmd = "reset"
  /\ \/ FormatState \/ FormatData \/ BeforeReset \/ DeployActive \/ DumpActiveFailed \/ InstallGrub
     \/ RelabelReset \/ ChrootReset \/ AfterReset \/ SetResetVariables \/ ResetEntry
     \/ CreateActive \/ FillActive \/ SquashActive \/ CleanActive \/ CopyPassive \/ PostReset
     \/ WriteResetYaml \/ WriteResetRecoveryYaml
  => UnmountInv'
<1> SUFFICES ASSUME MachineTypes, UnmountInv, cmd = "reset",
                    \/ FormatState \/ FormatData \/ BeforeReset \/ DeployActive
                    \/ DumpActiveFailed \/ InstallGrub \/ RelabelReset \/ ChrootReset
                    \/ AfterReset \/ SetResetVariables \/ ResetEntry \/ CreateActive
                    \/ FillActive \/ SquashActive \/ CleanActive \/ CopyPassive \/ PostReset
                    \/ WriteResetYaml \/ WriteResetRecoveryYaml
             PROVE  UnmountInv'
  OBVIOUS
<1>1. CASE FormatState \/ FormatData
  <2>1. /\ UNCHANGED <<jobs, start, spec, cmd, mnt, cleanErr>>
        /\ pc \in Formatting /\ pc' \in Formatting \cup {"cleanup"}
    BY <1>1 DEF FormatState, FormatData, Formatting
  <2> QED
    BY <2>1, UnmountQuiet
<1>2. CASE BeforeReset \/ DeployActive \/ DumpActiveFailed
  <2>1. /\ UNCHANGED <<jobs, start, spec, cmd, mnt, cleanErr>>
        /\ pc \in Mounted /\ pc' \in Mounted \cup {"cleanup"}
    BY <1>2 DEF BeforeReset, RunHook, DeployActive, DumpActiveFailed, Mounted
  <2> QED
    BY <2>1, UnmountQuiet
<1>3. CASE InstallGrub \/ RelabelReset \/ ChrootReset \/ AfterReset \/ SetResetVariables \/ ResetEntry
  <2>1. /\ UNCHANGED <<jobs, start, spec, cmd, mnt, cleanErr>>
        /\ pc \in Deployed /\ pc' \in Deployed \cup {"cleanup"}
    BY <1>3
    DEF InstallGrub, RelabelReset, ChrootReset, ChrootedCallback, AfterReset, SetResetVariables,
        ResetEntry, RunHook, Deployed
  <2> QED
    BY <2>1, UnmountQuiet
<1>4. CASE CreateActive \/ FillActive \/ SquashActive \/ CleanActive \/ CopyPassive \/ PostReset
  <2>1. /\ UNCHANGED <<jobs, start, spec, cmd, mnt, cleanErr>>
        /\ pc \in Deployed /\ pc' \in Deployed \cup {"cleanup"}
    BY <1>4
    DEF CreateActive, FillActive, SquashActive, ImgFails, CleanActive, CopyPassive, PostReset,
        RunHook, Deployed
  <2> QED
    BY <2>1, UnmountQuiet
<1>5. CASE WriteResetYaml \/ WriteResetRecoveryYaml
  <2>1. /\ UNCHANGED <<jobs, start, spec, cmd, mnt, cleanErr>>
        /\ pc \in Recording /\ pc' \in Recording \cup {"cleanup"}
    BY <1>5 DEF WriteResetYaml, WriteResetRecoveryYaml, WriteYaml, Recording
  <2> QED
    BY <2>1, UnmountQuiet
<1> QED
  BY <1>1, <1>2, <1>3, <1>4, <1>5

\* A reset begins with no job.
LEMMA CallResetInv == CallReset => UnmountInv'
<1> SUFFICES ASSUME CallReset PROVE UnmountInv'
  OBVIOUS
<1>1. PICK sys \in {"ext2", "squashfs"}, external \in BOOLEAN : StartReset(sys, external)
  BY DEF CallReset
<1>2. /\ pc' = "unmountAll" /\ Len(jobs') = 0 /\ mnt' = mnt /\ start'.mnt = mnt /\ ~spec'.recovery
  BY <1>1, EmptySeq, Zenon DEF StartReset, NewSpec
<1>3. StackInv'
  BY <1>2 DEF StackInv, Formatting, Mounted, Deployed, Recording
<1>4. MountInv'
  BY <1>2 DEF MountInv, Formatting, Ending
<1> QED
  BY <1>3, <1>4 DEF UnmountInv

\* Every step keeps the stack and the mounts of a reset in order.
LEMMA UnmountStep == MachineTypes /\ UnmountInv /\ [MachineNext]_allVars => UnmountInv'
<1> SUFFICES ASSUME MachineTypes, UnmountInv, [MachineNext]_allVars PROVE UnmountInv'
  OBVIOUS
<1>1. CASE UNCHANGED allVars
  BY <1>1 DEF UnmountInv, StackInv, MountInv, RevertRecovery, UmountAllJob, CleanActiveJob,
              Unmounted, Unmounting
<1>2. CASE cmd' # "reset"
  BY <1>2 DEF UnmountInv, StackInv, MountInv
<1>3. CASE cmd = "reset" /\ ResetStep
  <2>1. CASE \/ FormatState \/ FormatData \/ BeforeReset \/ DeployActive \/ DumpActiveFailed
             \/ InstallGrub \/ RelabelReset \/ ChrootReset \/ AfterReset \/ SetResetVariables
             \/ ResetEntry \/ CreateActive \/ FillActive \/ SquashActive \/ CleanActive
             \/ CopyPassive \/ PostReset \/ WriteResetYaml \/ WriteResetRecoveryYaml
    BY <1>3, <2>1, ResetQuietInv
  <2>2. CASE UnmountAll \/ MountAll \/ DumpActive \/ MountRecoveryRW
    BY <1>3, <2>2, UnmountAllInv, MountAllInv, DumpActiveInv, MountRecoveryRWInv
  <2>3. CASE \/ JobCleanActive \/ JobUnmountAll
             \/ (JobUmount \/ JobRemountRO) /\ UNCHANGED resetVars
    BY <1>3, <2>3, ResetJobsInv
  <2>4. CASE (CleanupDone \/ PowerAction) /\ UNCHANGED resetVars
    BY <1>3, <2>4, ResetEndInv, ResetPowerInv
  <2> QED
    BY <1>3, <2>1, <2>2, <2>3, <2>4 DEF ResetStep
<1>4. CASE CallReset
  BY <1>4, CallResetInv
<1>5. CASE CallUpgrade \/ UpgradeStep
  BY <1>2, <1>5 DEF CallUpgrade, UpgradeStep
<1>6. CASE (Reboot \/ PowerLoss \/ \E s \in SystemSlot : Boot(s)) /\ UNCHANGED resetVars
  BY <1>2, <1>6, ResetPowerInv
<1> QED
  BY <1>1, <1>3, <1>4, <1>5, <1>6, MachineSteps

\* When no cleanup job failed, a reset that got past the mounts leaves state and persistent
\* unmounted and recovery not writable: its stack of three jobs is complete and in order
\* (reset.go, cleanstack.go).
THEOREM ResetUnmountsAll == MachineSpec => []ResetUnmounts
<1>1. MachineInit => UnmountInv
  BY DEF MachineInit, UnmountInv, StackInv, MountInv
<1>2. MachineTypes /\ UnmountInv => ResetUnmounts
  <2> SUFFICES ASSUME UnmountInv, cmd = "reset", pc = "exited", ~cleanErr, ~Unmounting
               PROVE  Unmounted /\ (mnt["recovery"] = "rw" => start.mnt["recovery"] = "rw")
    BY DEF ResetUnmounts, Unmounted, Unmounting
  <2>1. Len(jobs) = 0 /\ pc \in Ending /\ pc \in ResetLive
    BY DEF UnmountInv, StackInv, Ending, ResetLive
  <2> QED
    BY <2>1 DEF UnmountInv, MountInv
<1> QED
  BY <1>1, <1>2, MachineTypeInit, MachineTypeStep, UnmountStep, PTL DEF MachineSpec
-----------------------------------------------------------------------------
(* A reset in which no call fails.                                         *)

\* The active image is gone from the formatting until it is made, and the scratch tree is
\* mounted from its deployment until the image is made of it.
ActiveGone ==
  {"formatData", "mountAll", "beforeReset", "deployActive", "dumpActive", "installGrub",
   "relabelReset", "chrootReset", "afterReset", "resetGrubVars", "resetEntry", "createActive"}
TreeMounted ==
  {"dumpActive", "installGrub", "relabelReset", "chrootReset", "afterReset", "resetGrubVars",
   "resetEntry", "createActive", "fillActive", "cleanActive"}
ActiveBind == [slot |-> "active", left |-> {}]

\* No call of the running reset failed, and it began without an obstacle.
NoFault == faults = start.faults /\ start.able /\ pc \in ResetLive

\* Then it meets none: no error, nothing mounted but its own scratch tree, a state
\* partition that can be formatted, nothing in the way of mksquashfs.
Unhindered ==
  /\ err = "none" /\ ~cleanErr /\ loops = {} /\ HasOEM /\ ~loaded.recoveryNull
  /\ pc # "dumpFailed"
  /\ pc \in TreeMounted => work = <<ActiveBind>>
  /\ pc \notin TreeMounted => work = <<>>
  /\ pc \in {"unmountAll", "formatState"} => stateFS # "unformatted"
  /\ pc \in ActiveGone => disk["active"].fs = "none"

RepairInv == cmd = "reset" => start.faults <= faults /\ (NoFault => Unhindered)

\* A call fails or it does not.
LEMMA FaultOrNot == MachineTypes => ~(Succeeds /\ Fails)
BY UpgradeAssumption, Components DEF Succeeds, Fails

\* The count of faults grows by one at most.
LEMMA FaultsGrow ==
  ASSUME MachineTypes, Succeeds \/ Fails, start.faults <= faults, start' = start
  PROVE  start'.faults <= faults' /\ (faults' = start'.faults => faults = start.faults /\ Succeeds)
<1>1. start.faults \in Nat /\ faults \in Nat
  BY UpgradeAssumption, Components DEF MachineTypes, ResetTypeOK, RunOK, Start
<1>2. faults' = faults \/ faults' = faults + 1
  BY DEF Succeeds, Fails
<1> QED
  BY <1>1, <1>2 DEF Succeeds

\* Steps within a part of a reset that meet no obstacle.
LEMMA RepairQuiet ==
  ASSUME Unhindered, UNCHANGED <<err, cleanErr, loops, loaded, work>>,
         \/ pc \in ActiveGone \cap TreeMounted /\ pc' \in ActiveGone \cap TreeMounted /\ UNCHANGED disk
         \/ pc \in ActiveGone \ TreeMounted /\ pc' \in ActiveGone \ TreeMounted /\ UNCHANGED disk
         \/ pc \notin TreeMounted /\ pc' \in {"copyPassive", "postReset", "mountRecoveryRW", "power", "exited"}
         \/ pc \notin TreeMounted /\ pc' \in Recording \cup {"cleanup"}
  PROVE  Unhindered'
BY DEF Unhindered, ActiveGone, TreeMounted, Recording

\* Unmounting and formatting.
LEMMA RepairFormat ==
  ASSUME MachineTypes, Unhindered, Succeeds, UnmountAll \/ FormatState \/ FormatData
  PROVE  Unhindered'
<1>0. ~Fails
  BY FaultOrNot
<1>1. CASE UnmountAll
  <2>1. PICK stay \in SUBSET Part :
          /\ UnmountPartitions(stay)
          /\ IF stay = {} THEN Goto("formatState") ELSE Abort("UnmountPartitions")
    BY <1>1 DEF UnmountAll
  <2>2. stay = {}
    BY <1>0, <2>1 DEF UnmountPartitions, Held, Unhindered
  <2>3. /\ pc = "unmountAll" /\ pc' = "formatState"
        /\ UNCHANGED <<err, cleanErr, loops, loaded, work, stateFS>>
    BY <1>1, <2>1, <2>2 DEF UnmountAll
  <2> QED
    BY <2>3 DEF Unhindered, ActiveGone, TreeMounted
<1>2. CASE FormatState
  <2>1. pc = "formatState" /\ UNCHANGED <<cleanErr, loops, loaded, work>>
    BY <1>2 DEF FormatState
  <2>2. work = <<>> /\ stateFS # "unformatted"
    BY <2>1 DEF Unhindered, TreeMounted
  <2>3. CanFormat
    BY <2>2 DEF CanFormat, StateInUse
  <2>4. StateWiped /\ pc' = "formatData" /\ err' = err
    BY <1>0, <1>2, <2>3 DEF FormatState
  <2>5. disk'["active"].fs = "none"
    BY <2>4, Zenon DEF StateWiped, StateSlot, Slot, NoFile
  <2> QED
    BY <2>1, <2>2, <2>4, <2>5 DEF Unhindered, TreeMounted
<1>3. CASE FormatData
  <2>1. pc = "formatData" /\ UNCHANGED <<disk, cleanErr, loops, loaded, work>>
    BY <1>3 DEF FormatData
  <2>2. work = <<>>
    BY <2>1 DEF Unhindered, TreeMounted
  <2>3. ~DataInUse
    BY <2>2 DEF DataInUse
  <2>4. pc' = "mountAll" /\ err' = err
    BY <1>0, <1>3, <2>3 DEF FormatData
  <2> QED
    BY <2>1, <2>4, RepairQuiet DEF ActiveGone, TreeMounted
<1> QED
  BY <1>1, <1>2, <1>3

\* The scratch tree is mounted once and filled.
LEMMA RepairTree ==
  ASSUME MachineTypes, Unhindered, Succeeds,
         MountAll \/ BeforeReset \/ DeployActive \/ DumpActive
  PROVE  Unhindered'
<1>0. ~Fails
  BY FaultOrNot
<1>1. CASE MountAll \/ BeforeReset
  <2>1. /\ pc \in {"mountAll", "beforeReset"} /\ pc' \in {"beforeReset", "deployActive"}
        /\ UNCHANGED <<disk, err, cleanErr, loops, loaded, work>>
    BY <1>0, <1>1 DEF MountAll, BeforeReset, RunHook
  <2> QED
    BY <2>1, RepairQuiet DEF ActiveGone, TreeMounted
<1>2. CASE DeployActive
  <2>1. /\ pc = "deployActive" /\ pc' = "dumpActive" /\ UNCHANGED <<disk, err, cleanErr, loops, loaded>>
        /\ work' = Append(work, ActiveBind)
    BY <1>0, <1>2 DEF DeployActive, ActiveBind
  <2>2. work = <<>>
    BY <2>1 DEF Unhindered, TreeMounted
  <2>3. work' = <<ActiveBind>>
    BY <2>1, <2>2
  <2> QED
    BY <2>1, <2>3 DEF Unhindered, ActiveGone, TreeMounted
<1>3. CASE DumpActive
  <2>1. /\ pc = "dumpActive" /\ pc' = "installGrub"
        /\ UNCHANGED <<disk, err, cleanErr, loops, loaded, work>>
    BY <1>0, <1>3 DEF DumpActive
  <2> QED
    BY <2>1, RepairQuiet DEF ActiveGone, TreeMounted
<1> QED
  BY <1>1, <1>2, <1>3

\* The work on the scratch tree.
LEMMA RepairWork ==
  ASSUME MachineTypes, Unhindered, Succeeds,
         \/ InstallGrub \/ RelabelReset \/ ChrootReset \/ AfterReset \/ SetResetVariables
         \/ ResetEntry
  PROVE  Unhindered'
<1>0. ~Fails
  BY FaultOrNot
<1>1. /\ pc \in {"installGrub", "relabelReset", "chrootReset", "afterReset", "resetGrubVars",
                 "resetEntry"}
      /\ UNCHANGED <<disk, cleanErr, loops, loaded>>
  BY DEF InstallGrub, RelabelReset, ChrootReset, AfterReset, SetResetVariables, ResetEntry, RunHook
<1>2. /\ pc' \in {"relabelReset", "chrootReset", "afterReset", "resetGrubVars", "resetEntry",
                  "createActive"}
      /\ UNCHANGED <<err, work>>
  <2>1. CASE InstallGrub \/ AfterReset \/ ResetEntry
    BY <1>0, <2>1 DEF InstallGrub, AfterReset, ResetEntry, RunHook
  <2>2. CASE RelabelReset \/ ChrootReset
    BY <1>0, <2>2 DEF RelabelReset, ChrootReset, ChrootedCallback
  <2>3. CASE SetResetVariables
    BY <1>0, <2>3 DEF SetResetVariables, Unhindered
  <2> QED
    BY <2>1, <2>2, <2>3
<1> QED
  BY <1>1, <1>2, RepairQuiet DEF ActiveGone, TreeMounted

\* The active image is made; mksquashfs meets no old image.
LEMMA RepairActive ==
  ASSUME MachineTypes, Unhindered, Succeeds, CreateActive \/ FillActive \/ SquashActive
  PROVE  Unhindered'
<1>0. ~Fails
  BY FaultOrNot
<1>1. pc \in {"createActive", "fillActive"} /\ UNCHANGED <<cleanErr, loaded, work>>
  BY DEF CreateActive, FillActive, SquashActive, ImgFails
<1>2. pc' \in {"fillActive", "cleanActive"} /\ UNCHANGED <<err, loops>>
  <2>1. CASE CreateActive \/ FillActive
    BY <1>0, <2>1 DEF CreateActive, FillActive
  <2>2. CASE SquashActive
    <3>1. disk["active"].fs = "none"
      BY <2>2 DEF SquashActive, Unhindered, ActiveGone
    <3> QED
      BY <1>0, <2>2, <3>1 DEF SquashActive
  <2> QED
    BY <2>1, <2>2
<1> QED
  BY <1>1, <1>2 DEF Unhindered, ActiveGone, TreeMounted

\* A mounted scratch tree with nothing under it is unmounted, an unmounted one stays so.
LEMMA RepairCleaner ==
  ASSUME MachineTypes, Succeeds, TreeCleaner("active"), work = <<>> \/ work = <<ActiveBind>>
  PROVE  work' = <<>>
<1>0. ~Fails
  BY FaultOrNot
<1>1. CASE work = <<>>
  BY <1>0, <1>1 DEF TreeCleaner, TreeUnmounts, RemovalFails, CanUnmountTree
<1>2. CASE work = <<ActiveBind>>
  <2>1. Len(work) = 1 /\ Top.left = {} /\ work # <<>>
    BY <1>2 DEF Top, ActiveBind
  <2>2. work' = SubSeq(work, 1, Len(work) - 1)
    BY <1>0, <2>1 DEF TreeCleaner, TreeUnmounts, RemovalFails, CanUnmountTree
  <2>3. work' = SubSeq(work, 1, 0)
    BY <2>1, <2>2
  <2>4. Len(work') = 0 /\ work' \in Seq(Bind)
    <3>1. \A i \in 1 .. 0 : work[i] \in Bind
      OBVIOUS
    <3>2. 1 \in Int /\ 0 \in Int
      OBVIOUS
    <3>3. /\ SubSeq(work, 1, 0) \in Seq(Bind)
          /\ Len(SubSeq(work, 1, 0)) = IF 1 <= 0 THEN 0 - 1 + 1 ELSE 0
      BY <3>1, <3>2, SubSeqProperties
    <3> QED
      BY <2>3, <3>3
  <2> QED
    BY <2>4, EmptySeq
<1> QED
  BY <1>1, <1>2

\* The scratch tree is removed without an error.
LEMMA RepairClean ==
  ASSUME MachineTypes, Unhindered, Succeeds, CleanActive \/ JobCleanActive
  PROVE  Unhindered'
<1>1. TreeCleaner("active")
  BY DEF CleanActive, JobCleanActive
<1>2. work = <<>> \/ work = <<ActiveBind>>
  BY DEF Unhindered
<1>3. work' = <<>> /\ ~TreeCleanerFailed
  BY <1>1, <1>2, RepairCleaner DEF TreeCleanerFailed, Succeeds
<1>4. UNCHANGED <<disk, loops, loaded>>
  BY DEF CleanActive, JobCleanActive
<1>5. CASE CleanActive
  <2>1. pc = "cleanActive" /\ pc' = "copyPassive" /\ UNCHANGED <<err, cleanErr>>
    BY <1>3, <1>5 DEF CleanActive, Unhindered
  <2> QED
    BY <1>3, <1>4, <2>1 DEF Unhindered, ActiveGone, TreeMounted
<1>6. CASE JobCleanActive
  <2>1. pc = "cleanup" /\ pc' = "cleanup" /\ err' = err /\ cleanErr' = (cleanErr \/ TreeCleanerFailed)
    BY <1>6 DEF JobCleanActive, PopJob
  <2>2. ~cleanErr'
    BY <1>3, <2>1 DEF Unhindered
  <2> QED
    BY <1>3, <1>4, <2>1, <2>2 DEF Unhindered, ActiveGone, TreeMounted
<1> QED
  BY <1>5, <1>6

\* The copy to passive and the records.
LEMMA RepairRecord ==
  ASSUME MachineTypes, Unhindered, Succeeds,
         \/ CopyPassive \/ PostReset \/ MountRecoveryRW \/ WriteResetYaml
         \/ WriteResetRecoveryYaml
  PROVE  Unhindered'
<1>0. ~Fails
  BY FaultOrNot
<1>1. /\ pc \in {"copyPassive", "postReset", "mountRecoveryRW", "resetYaml", "resetRecoveryYaml"}
      /\ pc' \in {"postReset", "mountRecoveryRW", "resetYaml", "resetRecoveryYaml", "cleanup"}
      /\ UNCHANGED <<err, cleanErr, loops, loaded, work>>
  BY <1>0
  DEF CopyPassive, PostReset, RunHook, MountRecoveryRW, WriteResetYaml, WriteResetRecoveryYaml,
      WriteYaml
<1> QED
  BY <1>1, RepairQuiet DEF TreeMounted, Recording

\* The cleanup jobs find their partitions free.
LEMMA RepairCleanup ==
  ASSUME MachineTypes, Unhindered, Succeeds,
         JobUnmountAll \/ JobUmount \/ JobRemountRO \/ CleanupDone \/ (PowerAction /\ pc' # "off")
  PROVE  Unhindered'
<1>0. ~Fails
  BY FaultOrNot
<1>1. CASE JobUnmountAll
  <2>1. PICK stay \in SUBSET Part : UnmountPartitions(stay) /\ cleanErr' = (cleanErr \/ stay # {})
    BY <1>1 DEF JobUnmountAll
  <2>2. stay = {}
    BY <1>0, <2>1 DEF UnmountPartitions, Held, Unhindered
  <2>3. ~cleanErr'
    BY <2>1, <2>2 DEF Unhindered
  <2>4. pc = "cleanup" /\ pc' = "cleanup" /\ UNCHANGED <<err, loops, loaded, work>>
    BY <1>1 DEF JobUnmountAll, PopJob
  <2> QED
    BY <2>3, <2>4 DEF Unhindered, ActiveGone, TreeMounted
<1>2. CASE JobUmount \/ JobRemountRO
  <2>1. LastJob.part \notin loops
    BY DEF Unhindered
  <2>2. /\ pc = "cleanup" /\ pc' = "cleanup" /\ UNCHANGED <<err, cleanErr, loops, loaded, work>>
    BY <1>0, <1>2, <2>1 DEF JobUmount, JobRemountRO, JobRevertMount, PopJob
  <2> QED
    BY <2>2, RepairQuiet DEF TreeMounted
<1>3. CASE CleanupDone
  <2>1. /\ pc = "cleanup" /\ pc' = "power" /\ UNCHANGED <<err, cleanErr, loops, loaded, work>>
    BY <1>3 DEF CleanupDone, Unhindered
  <2> QED
    BY <2>1, RepairQuiet DEF TreeMounted
<1>4. CASE PowerAction /\ pc' # "off"
  <2>1. /\ pc = "power" /\ pc' = "exited" /\ UNCHANGED <<err, cleanErr, loops, loaded, work>>
    BY <1>0, <1>4 DEF PowerAction, PoweredOff
  <2> QED
    BY <2>1, RepairQuiet DEF TreeMounted
<1> QED
  BY <1>1, <1>2, <1>3, <1>4

\* A reset's step succeeds or fails, and keeps what the reset found.
LEMMA ResetStepKeeps ==
  ResetStep => /\ cmd = "reset" /\ cmd' = "reset" /\ pc \in ResetLive
               /\ UNCHANGED <<start, loaded, spec, runs, source>> /\ (Succeeds \/ Fails)
<1> SUFFICES ASSUME ResetStep
             PROVE  /\ cmd = "reset" /\ cmd' = "reset" /\ pc \in ResetLive
                    /\ UNCHANGED <<start, loaded, spec, runs, source>> /\ (Succeeds \/ Fails)
  OBVIOUS
<1>0. cmd = "reset"
  BY DEF ResetStep
<1>1. CASE \/ UnmountAll \/ FormatState \/ FormatData \/ MountAll \/ BeforeReset
           \/ DeployActive \/ DumpActive \/ DumpActiveFailed \/ InstallGrub
  BY <1>0, <1>1
  DEF UnmountAll, UnmountPartitions, FormatState, FormatData, MountAll, BeforeReset, RunHook,
      DeployActive, DumpActive, DumpActiveFailed, TreeCleaner, TreeUnmounts, RemovalFails, InstallGrub,
      ResetLive, Formatting, Mounted, Deployed
<1>2. CASE \/ RelabelReset \/ ChrootReset \/ AfterReset \/ SetResetVariables \/ ResetEntry
           \/ CreateActive \/ FillActive \/ SquashActive \/ CleanActive \/ CopyPassive
  BY <1>0, <1>2
  DEF RelabelReset, ChrootReset, ChrootedCallback, AfterReset, RunHook, SetResetVariables,
      ResetEntry, CreateActive, FillActive, SquashActive, ImgFails, CleanActive, TreeCleaner,
      TreeUnmounts, RemovalFails, CopyPassive, ResetLive, Deployed
<1>3. CASE PostReset \/ MountRecoveryRW \/ WriteResetYaml \/ WriteResetRecoveryYaml
  BY <1>0, <1>3
  DEF PostReset, RunHook, MountRecoveryRW, WriteResetYaml, WriteResetRecoveryYaml, WriteYaml,
      ResetLive, Deployed, Recording
<1>4. CASE \/ JobCleanActive \/ JobUnmountAll
           \/ (JobUmount \/ JobRemountRO \/ CleanupDone \/ PowerAction) /\ UNCHANGED resetVars
  BY <1>0, <1>4
  DEF JobCleanActive, JobUnmountAll, TreeCleaner, TreeUnmounts, RemovalFails, UnmountPartitions, PopJob,
      JobUmount, JobRemountRO, JobRevertMount, CleanupDone, PowerAction, PoweredOff, Succeeds,
      ResetLive, Ending
<1> QED
  BY <1>1, <1>2, <1>3, <1>4 DEF ResetStep

\* Every step keeps a reset unhindered as long as no call fails.
LEMMA RepairStep == MachineTypes /\ RepairInv /\ [MachineNext]_allVars => RepairInv'
<1> SUFFICES ASSUME MachineTypes, RepairInv, [MachineNext]_allVars PROVE RepairInv'
  OBVIOUS
<1>1. CASE UNCHANGED allVars
  BY <1>1 DEF RepairInv, NoFault, Unhindered
<1>2. CASE cmd' # "reset"
  BY <1>2 DEF RepairInv
<1>3. CASE ResetStep
  <2>1. /\ cmd = "reset" /\ pc \in ResetLive /\ start' = start /\ (Succeeds \/ Fails)
        /\ start.faults <= faults
    BY <1>3, ResetStepKeeps DEF RepairInv
  <2>2. start'.faults <= faults' /\ (faults' = start'.faults => faults = start.faults /\ Succeeds)
    BY <2>1, FaultsGrow
  <2> SUFFICES ASSUME NoFault', Succeeds, Unhindered PROVE Unhindered'
    BY <2>1, <2>2 DEF RepairInv, NoFault
  <2>3. ~DumpActiveFailed /\ pc' # "off"
    BY DEF DumpActiveFailed, Unhindered, NoFault, ResetLive, Formatting, Mounted, Deployed,
           Recording, Ending
  <2> QED
    BY <1>3, <2>3, RepairFormat, RepairTree, RepairWork, RepairActive, RepairClean, RepairRecord,
       RepairCleanup
    DEF ResetStep
<1>4. CASE CallReset
  <2>1. PICK sys \in {"ext2", "squashfs"}, external \in BOOLEAN : StartReset(sys, external)
    BY <1>4 DEF CallReset
  <2>2. /\ pc' = "unmountAll" /\ err' = "none" /\ ~cleanErr' /\ UNCHANGED <<faults, work, loops, stateFS>>
        /\ start'.faults = faults /\ loaded' = LoadedState
        /\ start'.able => /\ work = <<>> /\ loops = {} /\ HasOEM /\ ~LoadedState.recoveryNull
                          /\ stateFS # "unformatted"
    BY <2>1 DEF StartReset
  <2>3. start'.able => Unhindered'
    BY <2>2 DEF Unhindered, ActiveGone, TreeMounted
  <2>4. start'.faults <= faults'
    BY <2>2, Components
  <2> QED
    BY <2>3, <2>4 DEF RepairInv, NoFault
<1>5. CASE CallUpgrade \/ UpgradeStep
  BY <1>2, <1>5 DEF CallUpgrade, UpgradeStep
<1>6. CASE (Reboot \/ PowerLoss \/ \E s \in SystemSlot : Boot(s)) /\ UNCHANGED resetVars
  <2> SUFFICES ASSUME cmd = "reset" PROVE RepairInv'
    BY <1>2, <1>6
  <2>1. pc' \in {"off", "ready"} /\ start' = start /\ (Succeeds \/ Fails)
    BY <1>6 DEF Reboot, PowerLoss, PoweredOff, Boot, Succeeds
  <2>2. start'.faults <= faults'
    BY <2>1, FaultsGrow DEF RepairInv
  <2>3. pc' \notin ResetLive
    BY <2>1 DEF ResetLive, Formatting, Mounted, Deployed, Recording, Ending
  <2> QED
    BY <2>2, <2>3 DEF RepairInv, NoFault
<1> QED
  BY <1>1, <1>3, <1>4, <1>5, <1>6, MachineSteps

\* Whatever failed or interrupted commands left on the disk, a reset in which no call fails
\* succeeds, as long as it found no leftover mount, a state partition that is formatted and
\* no null for recovery in state.yaml: it makes everything it needs anew (reset.go).
THEOREM ResetRepairsAll == MachineSpec => []ResetRepairs
<1>1. MachineInit => RepairInv
  BY DEF MachineInit, RepairInv
<1>2. MachineTypes /\ RepairInv => ResetRepairs
  BY DEF RepairInv, ResetRepairs, NoFault, Unhindered, ResetLive, Ending
<1> QED
  BY <1>1, <1>2, MachineTypeInit, MachineTypeStep, RepairStep, PTL DEF MachineSpec
-----------------------------------------------------------------------------
(* What state.yaml says of the recovery image, across upgrades and resets. *)

\* A record of state.yaml after n runs: the recovery entry is of one of them, an image it
\* names is complete and has the file system and label it names, and passive has a label if it can.
RecordFine(state, image, n) ==
  /\ state.recovery.src \subseteq 0 .. n
  /\ state.recovery.src = image.content =>
       /\ image.ok /\ image.fs = state.recovery.fs
       /\ image.fs = "ext2" => image.label = state.recovery.label
  /\ state.active.fs = "ext2" => state.passive.label # ""

\* Both copies and what was loaded are such records; only a recovery upgrade leaves its
\* image unsynced, for the one step of Run between the rename and the sync.
RecordsInv ==
  /\ \A p \in ImgPart : RecordFine(yaml[p], disk["recovery"], runs)
  /\ RecordFine(loaded, disk["recovery"], runs)
  /\ disk["recovery"].content # {}
  /\ disk["recovery"].dirty => cmd = "upgrade" /\ pc = "sync" /\ spec.recovery

\* How the spec of a run follows from what it loaded.
SpecTracked ==
  pc \notin {"ready", "off"} =>
    /\ spec.activeFS = loaded.active.fs
    /\ spec.passiveLabel = IF spec.activeFS = "squashfs" THEN "" ELSE loaded.passive.label
    /\ spec.recoveryFS = loaded.recovery.fs
    /\ spec.recoveryLabel = IF spec.recoveryFS = "squashfs" THEN "" ELSE loaded.recovery.label
    /\ cmd = "upgrade" => runs \notin loaded.recovery.src
    /\ cmd = "reset" /\ start.trusted => loaded.recovery.src = disk["recovery"].content

\* No record knows an upgrade before it writes one, and its source is on its way from the
\* tree into the image with its label.
BeforeYaml == Running \ {"recoveryYaml", "cleanup", "power"}
Replacing  == {"sync", "postHook", "stateYaml", "recoveryYaml"}
RecoveryTracked ==
  cmd = "upgrade" =>
    /\ pc \in BeforeYaml => \A p \in ImgPart : runs \notin yaml[p].recovery.src
    /\ pc \in Extracted => runs \in tree[TransSlot]
    /\ ImageReady => /\ disk[TransSlot].ok /\ runs \in disk[TransSlot].content
                     /\ disk[TransSlot].fs = ImageFS /\ disk[TransSlot].label = ImageLabel
    /\ spec.recovery /\ pc \in Replacing =>
         /\ disk["recovery"].ok /\ runs \in disk["recovery"].content
         /\ disk["recovery"].fs = ImageFS /\ disk["recovery"].label = ImageLabel

HistoryInv == RecordsInv /\ SpecTracked /\ RecoveryTracked

\* The recovery image is the same but for its sync.
SameRecovery ==
  /\ disk'["recovery"].fs = disk["recovery"].fs
  /\ disk'["recovery"].content = disk["recovery"].content
  /\ disk'["recovery"].label = disk["recovery"].label
  /\ disk'["recovery"].ok = disk["recovery"].ok

\* A write that fails leaves a broken file, of the same entries.
LEMMA BrokenFine ==
  ASSUME NEW state \in InstallState, NEW file, NEW image, NEW n, RecordFine(state, image, n)
  PROVE  RecordFine([state EXCEPT !.file = file], image, n)
<1>1. LET new == [state EXCEPT !.file = file]
      IN  new.recovery = state.recovery /\ new.active = state.active /\ new.passive = state.passive
  BY DEF InstallState
<1> QED
  BY <1>1, Zenon DEF RecordFine

\* What a command loads is such a record too.
LEMMA LoadedFine ==
  ASSUME MachineTypes, RecordsInv
  PROVE  RecordFine(LoadedState, disk["recovery"], runs)
<1>1. CASE LoadedState \in {yaml[p] : p \in ImgPart}
  BY <1>1 DEF RecordsInv
<1>2. CASE \E file : LoadedState = [Defaults EXCEPT !.file = file]
  <2>1. /\ LoadedState.recovery.src = {} /\ LoadedState.passive.label = "COS_PASSIVE"
    BY <1>2 DEF Defaults
  <2> QED
    BY <2>1, Zenon DEF RecordFine, RecordsInv
<1> QED
  BY <1>1, <1>2 DEF LoadedState, ImgPart

\* One run later.
LEMMA FineLater ==
  ASSUME MachineTypes, NEW state, RecordFine(state, disk["recovery"], runs)
  PROVE  /\ RecordFine(state, disk["recovery"], runs + 1)
         /\ runs + 1 \notin state.recovery.src
<1>1. runs \in Nat
  BY DEF MachineTypes, ResetTypeOK, RunOK, Version
<1>2. 0 .. runs \subseteq 0 .. (runs + 1) /\ runs + 1 \notin 0 .. runs
  BY <1>1
<1> QED
  BY <1>2, Zenon DEF RecordFine

\* Steps that leave the recovery image and write only such records.
LEMMA HistoryKept ==
  ASSUME MachineTypes, RecordsInv, SpecTracked, SameRecovery,
         UNCHANGED <<loaded, spec, runs, start, cmd>>,
         \A p \in ImgPart : yaml'[p] = yaml[p] \/ RecordFine(yaml'[p], disk["recovery"], runs),
         disk'["recovery"].dirty => disk["recovery"].dirty /\ pc' = pc,
         pc' \notin {"ready", "off"} => pc \notin {"ready", "off"}
  PROVE  RecordsInv' /\ SpecTracked'
<1>1. \A p \in ImgPart : RecordFine(yaml'[p], disk["recovery"], runs)
  BY DEF RecordsInv
<1>2. /\ \A p \in ImgPart : RecordFine(yaml'[p], disk'["recovery"], runs')
      /\ RecordFine(loaded', disk'["recovery"], runs')
  BY <1>1, Zenon DEF RecordsInv, RecordFine, SameRecovery
<1>3. disk'["recovery"].content # {}
  BY DEF RecordsInv, SameRecovery
<1>4. RecordsInv'
  BY <1>2, <1>3 DEF RecordsInv
<1>5. SpecTracked'
  BY Zenon DEF SpecTracked, SameRecovery
<1> QED
  BY <1>4, <1>5

\* Steps of an upgrade that leave the records and the recovery image.
LEMMA HistoryQuiet ==
  ASSUME MachineTypes, HistoryInv, cmd = "upgrade",
         UNCHANGED <<yaml, loaded, spec, runs, start, cmd>>, disk'["recovery"] = disk["recovery"],
         \/ pc \notin {"sync", "ready", "off"} /\ pc' \in {"cleanup", "power", "exited"}
         \/ pc \in ToExtract /\ pc' \in ToExtract \cup {"dumpFailed"}
         \/ pc \in Extracted /\ pc' \in Extracted /\ tree'[TransSlot] = tree[TransSlot]
         \/ pc \in Extracted /\ pc' = "cleanTree" /\ err' # "none"
         \/ ImageReady /\ pc' \in {"backup", "label", "swap"} /\ disk'[TransSlot] = disk[TransSlot]
         \/ pc = "postHook" /\ pc' = "stateYaml"
  PROVE  HistoryInv'
<1>1. /\ pc \notin {"sync", "ready", "off"} /\ pc' \notin {"sync", "ready", "off"}
  BY DEF ToExtract, Extracted, ToCreate, ImageReady
<1>2. ~disk["recovery"].dirty
  BY <1>1 DEF HistoryInv, RecordsInv
<1>3. RecordsInv' /\ SpecTracked'
  BY <1>1, <1>2, HistoryKept DEF HistoryInv, SameRecovery
<1>4. TransSlot' = TransSlot /\ ImageFS' = ImageFS /\ ImageLabel' = ImageLabel
  BY DEF TransSlot, ImageFS, ImageLabel
<1>5. pc' \in BeforeYaml => pc \in BeforeYaml
  BY DEF BeforeYaml, Running, ToExtract, Extracted, ToCreate, ImageReady
<1>6. RecoveryTracked'
  <2>1. pc' \in BeforeYaml => \A p \in ImgPart : runs' \notin yaml'[p].recovery.src
    BY <1>5 DEF HistoryInv, RecoveryTracked
  <2>2. pc' \in Extracted => runs' \in tree'[TransSlot]
    BY DEF HistoryInv, RecoveryTracked, ToExtract, Extracted, ToCreate
  <2>3. ImageReady' => /\ disk'[TransSlot].ok /\ runs' \in disk'[TransSlot].content
                       /\ disk'[TransSlot].fs = ImageFS /\ disk'[TransSlot].label = ImageLabel
    BY DEF HistoryInv, RecoveryTracked, ImageReady, ToExtract, Extracted, ToCreate
  <2>4. pc' \in Replacing => pc \in Replacing
    BY DEF Replacing, ToExtract, Extracted, ToCreate
  <2> QED
    BY <1>4, <2>1, <2>2, <2>3, <2>4 DEF HistoryInv, RecoveryTracked
<1> QED
  BY <1>3, <1>6 DEF HistoryInv

\* The steps of an upgrade that touch no image, no tree and no record.
LEMMA HistoryWork ==
  ASSUME MachineTypes, HistoryInv, cmd = "upgrade", cmd' = "upgrade",
         \/ MountState \/ MountRecovery \/ MountPersistent \/ BeforeHook \/ AfterHook \/ PostHook
         \/ SelinuxRelabel \/ ChrootHook \/ SetGrubVariables \/ SetDefaultGrubEntry
         \/ JobUmount \/ JobRemountRO \/ CleanupDone
  PROVE  HistoryInv'
<1> USE HistoryQuiet DEF ToExtract, Extracted, ToCreate
<1>1. CASE MountState \/ MountRecovery \/ MountPersistent
  BY <1>1 DEF MountState, MountRecovery, MountPersistent
<1>2. CASE BeforeHook \/ AfterHook \/ PostHook
  BY <1>2 DEF BeforeHook, AfterHook, PostHook, RunHook
<1>3. CASE SelinuxRelabel \/ ChrootHook
  BY <1>3 DEF SelinuxRelabel, ChrootHook, ChrootedCallback
<1>4. CASE SetGrubVariables \/ SetDefaultGrubEntry
  BY <1>4 DEF SetGrubVariables, SetDefaultGrubEntry
<1>5. CASE JobUmount \/ JobRemountRO
  BY <1>5 DEF JobUmount, JobRemountRO, JobRevertMount, PopJob
<1>6. CASE CleanupDone
  BY <1>6 DEF CleanupDone
<1> QED
  BY <1>1, <1>2, <1>3, <1>4, <1>5, <1>6

\* The source of an upgrade comes into its tree, and the tree goes away.
LEMMA HistoryTree ==
  ASSUME MachineTypes, TypeOK, HistoryInv, cmd = "upgrade", cmd' = "upgrade",
         BindTree \/ DumpSource \/ DumpFailed \/ CleanTree \/ JobCleanTree
  PROVE  HistoryInv'
<1>1. UNCHANGED <<disk, yaml, spec, loaded, start, runs>>
  BY DEF BindTree, DumpSource, DumpFailed, CleanTree, JobCleanTree
<1>2. CASE BindTree
  BY <1>1, <1>2, HistoryQuiet DEF BindTree, ToExtract
<1>3. CASE DumpSource /\ pc' = "dumpFailed"
  BY <1>1, <1>3, HistoryQuiet DEF DumpSource, ToExtract
<1>4. CASE DumpSource /\ pc' = "relabel"
  <2>1. pc = "dump" /\ tree'[TransSlot] = tree[TransSlot] \cup {runs}
    BY <1>4, TransSlotType DEF DumpSource, TypeOK, PersistentOK
  <2>2. ~disk["recovery"].dirty
    BY <2>1 DEF HistoryInv, RecordsInv
  <2>3. RecordsInv' /\ SpecTracked'
    BY <1>1, <1>4, <2>1, <2>2, HistoryKept DEF HistoryInv, SameRecovery
  <2>4. RecoveryTracked'
    BY <1>1, <1>4, <2>1
    DEF HistoryInv, RecoveryTracked, BeforeYaml, Running, Replacing, TransSlot, ImageReady
  <2> QED
    BY <2>3, <2>4 DEF HistoryInv
<1>5. CASE DumpFailed \/ JobCleanTree
  BY <1>1, <1>5, HistoryQuiet DEF DumpFailed, JobCleanTree, PopJob
<1>6. CASE CleanTree
  <2>1. \/ pc = "cleanTree" /\ pc' = "cleanup"
        \/ pc = "cleanTree" /\ err = "none" /\ pc' \in {"swap", "backup"}
    BY <1>6 DEF CleanTree
  <2> QED
    BY <1>1, <2>1, HistoryQuiet DEF ImageReady
<1> QED
  BY <1>2, <1>3, <1>4, <1>5, <1>6 DEF DumpSource

\* The transition image of an upgrade.
LEMMA HistoryImage ==
  ASSUME MachineTypes, TypeOK, HistoryInv, cmd = "upgrade", cmd' = "upgrade",
         CreateImage \/ FillImage \/ SquashImage
  PROVE  HistoryInv'
<1>1. /\ UNCHANGED <<tree, yaml, spec, loaded, start, runs>> /\ pc \in Extracted
      /\ disk \in [Slot -> Image] /\ TransSlot \in Slot /\ RunOK
  BY TransSlotType
  DEF CreateImage, FillImage, SquashImage, ImgFails, Extracted, ToCreate, TypeOK, PersistentOK
<1>2. disk'["recovery"] = disk["recovery"]
  BY <1>1, TransSlotOther DEF CreateImage, FillImage, SquashImage, SystemSlot, Slot
<1>3. CASE (pc' = "cleanTree" /\ err' # "none") \/ pc' = "fillImg"
  BY <1>1, <1>2, <1>3, HistoryQuiet DEF Extracted
<1>4. CASE pc' = "cleanTree" /\ err' = "none"
  <2>1. \E old : disk' = [disk EXCEPT ![TransSlot] = NewFile(old \cup tree[TransSlot], TRUE)]
    <3>1. CASE FillImage
      <4>1. disk' = [disk EXCEPT ![TransSlot] = NewFile({} \cup tree[TransSlot], TRUE)]
        BY <1>4, <3>1 DEF FillImage, ImgFails
      <4> QED
        BY <4>1
    <3>2. CASE CreateImage \/ SquashImage
      BY <1>4, <3>2 DEF CreateImage, SquashImage, ImgFails
    <3> QED
      BY <3>1, <3>2
  <2>2. PICK old : disk' = [disk EXCEPT ![TransSlot] = NewFile(old \cup tree[TransSlot], TRUE)]
    BY <2>1
  <2>3. disk'[TransSlot] = NewFile(old \cup tree[TransSlot], TRUE)
    BY <1>1, <2>2
  <2>4. runs \in tree[TransSlot]
    BY <1>1 DEF HistoryInv, RecoveryTracked
  <2>5. /\ disk'[TransSlot].ok /\ runs \in disk'[TransSlot].content
        /\ disk'[TransSlot].fs = ImageFS /\ disk'[TransSlot].label = ImageLabel
    BY <2>3, <2>4 DEF NewFile
  <2>6. ~disk["recovery"].dirty /\ pc \in BeforeYaml
    BY <1>1 DEF HistoryInv, RecordsInv, BeforeYaml, Running, Extracted, ToCreate
  <2>7. RecordsInv' /\ SpecTracked'
    BY <1>1, <1>2, <1>4, <2>6, HistoryKept DEF HistoryInv, SameRecovery, Extracted, ToCreate
  <2>8. TransSlot' = TransSlot /\ ImageFS' = ImageFS /\ ImageLabel' = ImageLabel
    BY <1>1 DEF TransSlot, ImageFS, ImageLabel
  <2>9. RecoveryTracked'
    BY <1>1, <1>4, <2>5, <2>6, <2>8 DEF HistoryInv, RecoveryTracked, Replacing, Extracted, ToCreate
  <2> QED
    BY <2>7, <2>9 DEF HistoryInv
<1> QED
  BY <1>3, <1>4 DEF CreateImage, FillImage, SquashImage, ImgFails

\* The rotation of a system upgrade up to the swap.
LEMMA HistoryRotate ==
  ASSUME MachineTypes, TypeOK, HistoryInv, cmd = "upgrade", cmd' = "upgrade", Backup \/ LabelPassive
  PROVE  HistoryInv'
<1>1. /\ UNCHANGED <<tree, yaml, spec, loaded, start, runs>> /\ pc \in {"backup", "label"}
      /\ disk \in [Slot -> Image] /\ TransSlot \in Slot \ SystemSlot
  BY TransSlotOther DEF Backup, LabelPassive, TypeOK, PersistentOK
<1>2. CASE pc' = "cleanup" /\ disk' = disk
  BY <1>1, <1>2, HistoryQuiet
<1>3. CASE Backup /\ pc' = "label" /\ disk' = Renamed("active", "passive")
  <2>1. disk'["recovery"] = disk["recovery"] /\ disk'[TransSlot] = disk[TransSlot]
    BY <1>1, <1>3 DEF Renamed, Slot, SystemSlot
  <2> QED
    BY <1>1, <1>3, <2>1, HistoryQuiet DEF ImageReady
<1>4. CASE /\ pc' = "swap"
           /\ disk' = Synced([disk EXCEPT !["passive"].label = spec.passiveLabel])
  <2> DEFINE d == [disk EXCEPT !["passive"].label = spec.passiveLabel]
  <2>1. \A s \in Slot \ {"passive"} : d[s] = disk[s]
    BY <1>1
  <2>2. \A s \in Slot : disk'[s] = [d[s] EXCEPT !.dirty = FALSE]
    BY <1>4 DEF Synced
  <2> HIDE DEF d
  <2>3. \A s \in Slot \ {"passive"} :
          /\ disk'[s].fs = disk[s].fs /\ disk'[s].content = disk[s].content
          /\ disk'[s].ok = disk[s].ok /\ disk'[s].label = disk[s].label /\ disk'[s].dirty = FALSE
    <3> SUFFICES ASSUME NEW s \in Slot \ {"passive"}
                 PROVE  /\ disk'[s].fs = disk[s].fs /\ disk'[s].content = disk[s].content
                        /\ disk'[s].ok = disk[s].ok /\ disk'[s].label = disk[s].label
                        /\ disk'[s].dirty = FALSE
      OBVIOUS
    <3>1. disk'[s] = [disk[s] EXCEPT !.dirty = FALSE] /\ disk[s] \in Image
      BY <1>1, <2>1, <2>2
    <3> QED
      BY <3>1 DEF Image
  <2>4. SameRecovery /\ ~disk'["recovery"].dirty
    BY <2>3 DEF SameRecovery, Slot
  <2>5. RecordsInv' /\ SpecTracked'
    BY <1>1, <1>4, <2>4, HistoryKept DEF HistoryInv
  <2>6. /\ disk'[TransSlot].ok = disk[TransSlot].ok /\ disk'[TransSlot].content = disk[TransSlot].content
        /\ disk'[TransSlot].label = disk[TransSlot].label /\ disk'[TransSlot].fs = disk[TransSlot].fs
        /\ TransSlot' = TransSlot /\ ImageFS' = ImageFS /\ ImageLabel' = ImageLabel
    BY <1>1, <2>3 DEF SystemSlot, TransSlot, ImageFS, ImageLabel
  <2>7. ImageReady /\ pc \in BeforeYaml
    BY <1>1 DEF ImageReady, BeforeYaml, Running
  <2>8. RecoveryTracked'
    BY <1>1, <1>4, <2>6, <2>7 DEF HistoryInv, RecoveryTracked, Replacing, Extracted, ToCreate
  <2> QED
    BY <2>5, <2>8 DEF HistoryInv
<1> QED
  BY <1>2, <1>3, <1>4 DEF Backup, LabelPassive

\* The swap of a recovery upgrade installs an image that no record knows yet.
LEMMA HistorySwap ==
  ASSUME MachineTypes, TypeOK, HistoryInv, cmd = "upgrade", cmd' = "upgrade", Swap
  PROVE  HistoryInv'
<1>1. /\ UNCHANGED <<tree, yaml, spec, loaded, start, runs>> /\ pc = "swap"
      /\ TransSlot' = TransSlot /\ ImageFS' = ImageFS /\ ImageLabel' = ImageLabel
  BY DEF Swap, TransSlot, ImageFS, ImageLabel
<1>2. /\ disk[TransSlot].ok /\ runs \in disk[TransSlot].content
      /\ disk[TransSlot].fs = ImageFS /\ disk[TransSlot].label = ImageLabel
      /\ \A p \in ImgPart : runs \notin yaml[p].recovery.src
      /\ runs \notin loaded.recovery.src /\ ~disk["recovery"].dirty
  BY <1>1, Zenon DEF HistoryInv, RecordsInv, SpecTracked, RecoveryTracked, ImageReady, BeforeYaml, Running
<1>3. CASE pc' = "cleanup" /\ disk' = disk
  BY <1>1, <1>3, HistoryQuiet
<1>4. CASE pc' = "sync" /\ disk' = Renamed(TransSlot, FinalSlot)
  <2>1. disk'["recovery"] = IF spec.recovery THEN disk[TransSlot] ELSE disk["recovery"]
    BY <1>4, SwapMoves DEF Slot, FinalSlot, TransSlot
  <2>2. RecoveryTracked'
    BY <1>1, <1>2, <1>4, <2>1
    DEF RecoveryTracked, Extracted, ToCreate, ImageReady, Replacing
  <2>3. CASE spec.recovery
    <3>1. runs \in disk'["recovery"].content
      BY <1>2, <2>1, <2>3
    <3>2. /\ \A p \in ImgPart : RecordFine(yaml[p], disk'["recovery"], runs)
          /\ RecordFine(loaded, disk'["recovery"], runs)
      BY <1>2, <3>1, Zenon DEF HistoryInv, RecordsInv, RecordFine
    <3>3. RecordsInv'
      BY <1>1, <1>4, <2>3, <3>1, <3>2 DEF RecordsInv
    <3>4. SpecTracked'
      BY <1>1, <1>4, Zenon DEF HistoryInv, SpecTracked
    <3> QED
      BY <2>2, <3>3, <3>4 DEF HistoryInv
  <2>4. CASE ~spec.recovery
    <3>1. RecordsInv' /\ SpecTracked'
      BY <1>1, <1>2, <1>4, <2>1, <2>4, HistoryKept DEF HistoryInv, SameRecovery
    <3> QED
      BY <2>2, <3>1 DEF HistoryInv
  <2> QED
    BY <2>3, <2>4
<1> QED
  BY <1>3, <1>4 DEF Swap

\* The sync.
LEMMA HistorySync ==
  ASSUME MachineTypes, TypeOK, HistoryInv, cmd = "upgrade", cmd' = "upgrade", Sync
  PROVE  HistoryInv'
<1>1. /\ UNCHANGED <<tree, yaml, spec, loaded, start, runs>> /\ pc = "sync" /\ pc' = "postHook"
      /\ disk \in [Slot -> Image] /\ disk' = Synced(disk)
      /\ ImageFS' = ImageFS /\ ImageLabel' = ImageLabel
  BY DEF Sync, ImageFS, ImageLabel, TypeOK, PersistentOK
<1>2. SameRecovery /\ disk'["recovery"].dirty = FALSE
  BY <1>1, SyncKeepsFiles DEF SameRecovery, Slot
<1>3. RecordsInv' /\ SpecTracked'
  BY <1>1, <1>2, HistoryKept DEF HistoryInv
<1>4. RecoveryTracked'
  BY <1>1, <1>2
  DEF HistoryInv, RecoveryTracked, SameRecovery, Extracted, ToCreate, ImageReady, Replacing,
      BeforeYaml, Running
<1> QED
  BY <1>3, <1>4 DEF HistoryInv

\* The removal of the transition image.
LEMMA HistoryRemove ==
  ASSUME MachineTypes, TypeOK, HistoryInv, cmd = "upgrade", cmd' = "upgrade", JobRemove
  PROVE  HistoryInv'
<1>1. /\ UNCHANGED <<yaml, spec, loaded, start, runs>> /\ pc = "cleanup" /\ pc' = "cleanup"
      /\ disk' = disk \/ disk' = [disk EXCEPT ![TransSlot] = NoFile]
  BY DEF JobRemove, PopJob
<1>2. disk'["recovery"] = disk["recovery"]
  BY <1>1, TransSlotOther DEF TypeOK, PersistentOK, SystemSlot, Slot
<1> QED
  BY <1>1, <1>2, HistoryQuiet

\* The state an upgrade records describes recovery: the image it installed, or as loaded.
LEMMA NewRecordFine ==
  ASSUME MachineTypes, HistoryInv, cmd = "upgrade", pc \in {"stateYaml", "recoveryYaml"}
  PROVE  RecordFine(NewInstallState, disk["recovery"], runs)
<1>1. /\ loaded \in InstallState /\ loaded.active \in Entry /\ loaded.passive \in Entry
      /\ loaded.recovery \in Entry /\ runs \in Nat
  BY DEF MachineTypes, ResetTypeOK, RunOK, InstallState, Version
<1>2. RecordFine(loaded, disk["recovery"], runs)
  BY DEF HistoryInv, RecordsInv
<1>3. /\ spec.activeFS = loaded.active.fs
      /\ spec.passiveLabel = IF spec.activeFS = "squashfs" THEN "" ELSE loaded.passive.label
  BY Zenon DEF HistoryInv, SpecTracked
<1> DEFINE img == [src |-> {runs}, fs |-> ImageFS, label |-> ImageLabel]
<1>4. CASE spec.recovery
  <2>1. NewInstallState
          = [[loaded EXCEPT !.file = "whole"] EXCEPT !.recovery = img, !.recoveryNull = FALSE]
    BY <1>4 DEF NewInstallState
  <2>2. img.src = {runs} /\ img.fs = ImageFS /\ img.label = ImageLabel
    OBVIOUS
  <2> HIDE DEF img
  <2>3. /\ NewInstallState.active = loaded.active /\ NewInstallState.passive = loaded.passive
        /\ NewInstallState.recovery = img
    BY <1>1, <2>1 DEF InstallState
  <2>4. disk["recovery"].ok /\ disk["recovery"].fs = ImageFS /\ disk["recovery"].label = ImageLabel
    BY <1>4 DEF HistoryInv, RecoveryTracked, Replacing
  <2>5. {runs} \subseteq 0 .. runs
    BY <1>1
  <2> QED
    BY <1>2, <2>2, <2>3, <2>4, <2>5, Zenon DEF RecordFine
<1>5. CASE ~spec.recovery
  <2> DEFINE pas == IF loaded.passive.src = {}
                    THEN [loaded.passive EXCEPT !.label = spec.passiveLabel] ELSE loaded.passive
             rec == IF loaded.active.src = {} THEN pas
                    ELSE [pas EXCEPT !.src = loaded.active.src, !.fs = loaded.active.fs]
  <2>1. NewInstallState = [[loaded EXCEPT !.file = "whole"] EXCEPT !.active = img, !.passive = rec]
    BY <1>5 DEF NewInstallState
  <2>2. pas \in Entry /\ (spec.activeFS = "ext2" => pas.label # "")
    <3>1. spec.passiveLabel \in Label
      BY DEF MachineTypes, ResetTypeOK, RunOK, UpgradeSpec
    <3>2. spec.activeFS = "ext2" => spec.passiveLabel # "" /\ loaded.passive.label # ""
      BY <1>2, <1>3, Zenon DEF RecordFine
    <3> QED
      BY <1>1, <3>1, <3>2, Zenon DEF Entry
  <2>3. rec.label = pas.label
    <3> HIDE DEF pas
    <3> QED
      BY <2>2, Zenon DEF Entry
  <2>4. img.fs = spec.activeFS
    BY <1>5 DEF ImageFS
  <2> HIDE DEF pas, img, rec
  <2>5. /\ NewInstallState.active = img /\ NewInstallState.passive = rec
        /\ NewInstallState.recovery = loaded.recovery
    BY <1>1, <2>1 DEF InstallState
  <2> QED
    BY <1>2, <2>2, <2>3, <2>4, <2>5, Zenon DEF RecordFine
<1> QED
  BY <1>4, <1>5

\* Writing the records of an upgrade.
LEMMA HistoryWrite ==
  ASSUME MachineTypes, TypeOK, HistoryInv, cmd = "upgrade", cmd' = "upgrade",
         WriteStateYaml \/ WriteRecoveryYaml
  PROVE  HistoryInv'
<1>1. /\ UNCHANGED <<disk, tree, spec, loaded, start, runs>>
      /\ pc \in {"stateYaml", "recoveryYaml"} /\ pc' \in {"recoveryYaml", "cleanup"}
  BY DEF WriteStateYaml, WriteRecoveryYaml, WriteYaml
<1>2. /\ yaml \in [ImgPart -> InstallState]
      /\ \/ yaml' = yaml
         \/ \E p \in ImgPart : yaml' = [yaml EXCEPT ![p] = NewInstallState]
         \/ \E p \in ImgPart, file \in {"whole", "broken", "empty"} :
              yaml' = [yaml EXCEPT ![p] = [yaml[p] EXCEPT !.file = file]]
  <2>1. /\ yaml \in [ImgPart -> InstallState]
        /\ \A p \in ImgPart : yaml[p].file \in {"whole", "broken", "empty"}
    BY DEF TypeOK, PersistentOK, InstallState
  <2>2. \/ yaml' = yaml
        \/ \E p \in ImgPart : yaml' = [yaml EXCEPT ![p] = NewInstallState]
        \/ \E p \in ImgPart : \E file \in {yaml[p].file, "broken", "empty"} :
             yaml' = [yaml EXCEPT ![p].file = file]
    BY DEF WriteStateYaml, WriteRecoveryYaml, WriteYaml, ImgPart
  <2> QED
    BY <2>1, <2>2
<1>3. ASSUME NEW p \in ImgPart
      PROVE  yaml'[p] = yaml[p] \/ RecordFine(yaml'[p], disk["recovery"], runs)
  <2>1. RecordFine(NewInstallState, disk["recovery"], runs)
    BY <1>1, NewRecordFine
  <2>2. \A file : RecordFine([yaml[p] EXCEPT !.file = file], disk["recovery"], runs)
    <3>1. yaml[p] \in InstallState /\ RecordFine(yaml[p], disk["recovery"], runs)
      BY <1>2 DEF HistoryInv, RecordsInv
    <3> QED
      BY <3>1, BrokenFine
  <2> QED
    BY <1>2, <2>1, <2>2
<1>4. RecordsInv' /\ SpecTracked'
  <2>1. ~disk["recovery"].dirty /\ SameRecovery
    BY <1>1 DEF HistoryInv, RecordsInv, SameRecovery
  <2> QED
    BY <1>1, <1>3, <2>1, HistoryKept DEF HistoryInv
<1>5. RecoveryTracked'
  BY <1>1
  DEF HistoryInv, RecoveryTracked, BeforeYaml, Replacing, Extracted, ToCreate, ImageReady, ImageFS,
      ImageLabel
<1> QED
  BY <1>4, <1>5 DEF HistoryInv

\* Going down and coming up: a recovery image that is torn is one no record knows.
LEMMA HistoryPower ==
  ASSUME MachineTypes, HistoryInv, UNCHANGED resetVars,
         PowerAction \/ Reboot \/ PowerLoss \/ \E s \in SystemSlot : Boot(s)
  PROVE  HistoryInv'
<1>1. /\ UNCHANGED <<tree, yaml, spec, loaded, start, runs, cmd>> /\ disk \in [Slot -> Image]
      /\ pc' \in {"exited", "off", "ready"}
  BY Components DEF PowerAction, Reboot, PowerLoss, PoweredOff, Boot
<1>2. RecoveryTracked'
  BY <1>1 DEF RecoveryTracked, BeforeYaml, Running, Extracted, ToCreate, ImageReady, Replacing
<1>3. pc' \notin {"ready", "off"} => pc \notin {"ready", "off"}
  BY DEF PowerAction, Reboot, PowerLoss, PoweredOff, Boot
<1>4. CASE SameRecovery /\ ~disk'["recovery"].dirty
  BY <1>1, <1>2, <1>3, <1>4, HistoryKept DEF HistoryInv
<1>5. CASE disk' = Synced(disk)
  BY <1>1, <1>4, <1>5, SyncKeepsFiles DEF SameRecovery, Slot
<1>6. CASE disk' = disk /\ pc # "sync"
  BY <1>4, <1>6 DEF SameRecovery, HistoryInv, RecordsInv
<1>7. CASE PowerLoss
  <2>1. PICK torn \in SUBSET {s \in Slot : disk[s].dirty} :
          disk' = Synced([s \in Slot |-> [disk[s] EXCEPT !.ok = @ /\ s \notin torn]])
    BY <1>7 DEF PowerLoss
  <2> DEFINE old == disk["recovery"]
             new == disk'["recovery"]
  <2>2. old \in Image /\ new = [[old EXCEPT !.ok = @ /\ "recovery" \notin torn] EXCEPT !.dirty = FALSE]
    BY <1>1, <2>1 DEF Synced, Slot
  <2>3. /\ new.fs = old.fs /\ new.content = old.content /\ new.label = old.label
        /\ new.dirty = FALSE /\ ("recovery" \notin torn => new.ok = old.ok)
    <3> HIDE DEF old, new
    <3> QED
      BY <2>2 DEF Image
  <2>4. CASE ~old.dirty
    BY <1>4, <2>1, <2>3, <2>4 DEF SameRecovery
  <2>5. CASE old.dirty
    <3>1. /\ runs \in new.content
          /\ \A p \in ImgPart : runs \notin yaml[p].recovery.src
          /\ runs \notin loaded.recovery.src
      BY <2>3, <2>5, Zenon
      DEF HistoryInv, RecordsInv, SpecTracked, RecoveryTracked, BeforeYaml, Running, Replacing
    <3>2. /\ \A p \in ImgPart : RecordFine(yaml[p], new, runs)
          /\ RecordFine(loaded, new, runs)
      BY <3>1, Zenon DEF HistoryInv, RecordsInv, RecordFine
    <3>3. RecordsInv'
      BY <1>1, <2>3, <3>1, <3>2 DEF RecordsInv
    <3>4. SpecTracked'
      BY <1>7, Zenon DEF SpecTracked, PowerLoss, PoweredOff
    <3> QED
      BY <1>2, <3>3, <3>4 DEF HistoryInv
  <2> QED
    BY <2>4, <2>5
<1> QED
  BY <1>5, <1>6, <1>7 DEF PowerAction, Reboot, PoweredOff, Boot

\* A step of an upgrade keeps the records and what they say of recovery.
LEMMA HistoryUpgrade == MachineTypes /\ HistoryInv /\ UpgradeStep => HistoryInv'
<1> SUFFICES ASSUME MachineTypes, HistoryInv, UpgradeStep PROVE HistoryInv'
  OBVIOUS
<1>1. cmd = "upgrade" /\ cmd' = "upgrade" /\ UNCHANGED resetVars /\ Step /\ TypeOK
  BY DEF UpgradeStep, MachineTypes
<1> QED
  BY <1>1, HistoryWork, HistoryTree, HistoryImage, HistoryRotate, HistorySwap, HistorySync,
     HistoryRemove, HistoryWrite, HistoryPower
  DEF Step

\* A command that starts finds such records, and names its run anew.
LEMMA HistoryStart ==
  ASSUME FSOverride = FALSE, MachineTypes, HistoryInv, CallUpgrade \/ CallReset
  PROVE  HistoryInv'
<1>1. PICK recovery \in BOOLEAN, sys \in {"ext2", "squashfs"}, rec \in {"ext2", "squashfs"} :
        /\ sys = LoadedState.active.fs /\ rec = LoadedState.recovery.fs
        /\ spec' = NewSpec(recovery, sys, rec)
        /\ loaded' = LoadedState /\ runs' = runs + 1 /\ UNCHANGED <<disk, yaml>>
        /\ pc \in {"ready", "exited"} /\ pc' \in {"mountState", "unmountAll"}
        /\ cmd' = "reset" /\ start'.trusted => LoadedState.recovery.src = disk["recovery"].content
  <2>1. CASE CallUpgrade
    BY <2>1 DEF CallUpgrade, StartUpgrade, FSChoices
  <2>2. CASE CallReset
    <3>1. PICK sys \in {"ext2", "squashfs"}, external \in BOOLEAN : StartReset(sys, external)
      BY <2>2 DEF CallReset
    <3>2. LoadedState.recovery.fs \in {"ext2", "squashfs"}
      BY LoadedTypes DEF InstallState, Entry
    <3> QED
      BY <3>1, <3>2 DEF StartReset, FSChoices
  <2> QED
    BY <2>1, <2>2
<1>2. /\ \A p \in ImgPart : RecordFine(yaml[p], disk["recovery"], runs + 1)
                            /\ runs + 1 \notin yaml[p].recovery.src
      /\ RecordFine(LoadedState, disk["recovery"], runs + 1)
      /\ runs + 1 \notin LoadedState.recovery.src
  BY FineLater, LoadedFine DEF HistoryInv, RecordsInv
<1>3. ~disk["recovery"].dirty
  BY <1>1 DEF HistoryInv, RecordsInv
<1>4. RecordsInv'
  BY <1>1, <1>2, <1>3 DEF HistoryInv, RecordsInv
<1>5. SpecTracked'
  BY <1>1, <1>2, Zenon DEF SpecTracked, NewSpec
<1>6. RecoveryTracked'
  BY <1>1, <1>2 DEF RecoveryTracked, Extracted, ToCreate, ImageReady, Replacing
<1> QED
  BY <1>4, <1>5, <1>6 DEF HistoryInv

\* The records of an installation.
LEMMA HistoryInit == MachineInit => HistoryInv
<1> SUFFICES ASSUME MachineInit PROVE HistoryInv
  OBVIOUS
<1>1. PICK sys \in SystemFS, rec \in RecoveryFS : disk = InstalledDisk(sys, rec, {0})
  BY Zenon DEF MachineInit, Init
<1>2. /\ runs = 0 /\ pc = "ready" /\ loaded = RecordedState(disk)
      /\ \A p \in ImgPart : yaml[p] = loaded
  BY Zenon DEF MachineInit, Init
<1>3. /\ disk["active"] = Installed(sys, "COS_ACTIVE", {0})
      /\ disk["passive"] = Installed(sys, "COS_PASSIVE", {0})
      /\ disk["recovery"] = Installed(rec, "COS_SYSTEM", {0})
  BY <1>1 DEF InstalledDisk, Slot
<1>4. /\ loaded.recovery.src = disk["recovery"].content /\ loaded.recovery.label = disk["recovery"].label
      /\ loaded.recovery.fs = disk["recovery"].fs
      /\ loaded.active.fs = disk["active"].fs /\ loaded.passive.label = disk["passive"].label
  BY <1>2 DEF RecordedState, Recorded
<1>5. /\ disk["recovery"].content = {0} /\ disk["recovery"].ok = TRUE
      /\ disk["recovery"].dirty = FALSE /\ disk["active"].fs = sys
      /\ sys = "ext2" => disk["passive"].label = "COS_PASSIVE"
  <2> DEFINE act == Installed(sys, "COS_ACTIVE", {0})
             pas == Installed(sys, "COS_PASSIVE", {0})
             rcv == Installed(rec, "COS_SYSTEM", {0})
  <2>1. act.fs = sys
    BY DEF Installed
  <2>2. sys = "ext2" => pas.label = "COS_PASSIVE"
    BY DEF Installed
  <2>3. rcv.content = {0}
    BY DEF Installed
  <2>4. rcv.ok = TRUE
    BY DEF Installed
  <2>5. rcv.dirty = FALSE
    BY DEF Installed
  <2>6. disk["active"] = act /\ disk["passive"] = pas /\ disk["recovery"] = rcv
    BY <1>3
  <2> HIDE DEF act, pas, rcv
  <2> QED
    BY <2>1, <2>2, <2>3, <2>4, <2>5, <2>6
<1>6. RecordFine(loaded, disk["recovery"], runs)
  <2>1. {0} \subseteq 0 .. 0
    OBVIOUS
  <2>2. loaded.recovery.src \subseteq 0 .. runs
    BY <1>2, <1>4, <1>5, <2>1
  <2>3. loaded.active.fs = "ext2" => loaded.passive.label # ""
    BY <1>4, <1>5, Zenon
  <2> QED
    BY <1>4, <1>5, <2>2, <2>3, Zenon DEF RecordFine
<1>7. RecordsInv
  BY <1>2, <1>5, <1>6 DEF RecordsInv
<1>8. SpecTracked /\ RecoveryTracked
  BY <1>2 DEF SpecTracked, RecoveryTracked, BeforeYaml, Running, Extracted, ToCreate, ImageReady, Replacing
<1> QED
  BY <1>7, <1>8 DEF HistoryInv

\* A reset leaves the recovery image to the end.
LEMMA ResetSparesRecovery ==
  MachineTypes /\ ResetStep /\ ~PowerAction => disk'["recovery"] = disk["recovery"]
<1> SUFFICES ASSUME MachineTypes, ResetStep, ~PowerAction PROVE disk'["recovery"] = disk["recovery"]
  OBVIOUS
<1>0. /\ disk \in [Slot -> Image] /\ "recovery" \in Slot /\ "recovery" \notin StateSlot
      /\ \A image : [disk EXCEPT !["active"] = image]["recovery"] = disk["recovery"]
      /\ \A image : [disk EXCEPT !["passive"] = image]["recovery"] = disk["recovery"]
  BY Components DEF Slot, StateSlot
<1>1. CASE UNCHANGED disk
  BY <1>1
<1>2. CASE UnmountAll \/ JobUnmountAll
  <2>1. PICK stay : UnmountPartitions(stay)
    BY <1>2 DEF UnmountAll, JobUnmountAll
  <2> QED
    BY <1>0, <2>1 DEF UnmountPartitions
<1>3. CASE FormatState
  BY <1>0, <1>3 DEF FormatState, StateWiped
<1>4. CASE CreateActive \/ FillActive \/ SquashActive
  BY <1>0, <1>4 DEF CreateActive, FillActive, SquashActive
<1>5. CASE CopyPassive
  BY <1>0, <1>5 DEF CopyPassive
<1>6. CASE \/ FormatData \/ MountAll \/ BeforeReset \/ DeployActive \/ DumpActive
           \/ DumpActiveFailed \/ InstallGrub \/ RelabelReset \/ ChrootReset \/ AfterReset
  BY <1>1, <1>6
  DEF FormatData, MountAll, BeforeReset, RunHook, DeployActive, DumpActive, DumpActiveFailed,
      InstallGrub, RelabelReset, ChrootReset, AfterReset
<1>7. CASE \/ SetResetVariables \/ ResetEntry \/ CleanActive \/ PostReset \/ MountRecoveryRW
           \/ WriteResetYaml \/ WriteResetRecoveryYaml \/ JobCleanActive
           \/ JobUmount \/ JobRemountRO \/ CleanupDone
  BY <1>1, <1>7
  DEF SetResetVariables, ResetEntry, RunHook, CleanActive, PostReset, MountRecoveryRW,
      WriteResetYaml, WriteResetRecoveryYaml, JobCleanActive, JobUmount, JobRemountRO,
      JobRevertMount, CleanupDone
<1> QED
  BY <1>2, <1>3, <1>4, <1>5, <1>6, <1>7 DEF ResetStep

\* What a reset does to the records: nothing, it formats one away, or writes its own.
LEMMA ResetWrites ==
  MachineTypes /\ ResetStep =>
    \/ yaml' = yaml
    \/ yaml' = [yaml EXCEPT !["state"] = Defaults]
    \/ \E p \in ImgPart : yaml' = [yaml EXCEPT ![p] = ResetState]
    \/ \E p \in ImgPart : \E file : yaml' = [yaml EXCEPT ![p] = [yaml[p] EXCEPT !.file = file]]
<1> SUFFICES ASSUME MachineTypes, ResetStep, yaml' # yaml
             PROVE  \/ yaml' = [yaml EXCEPT !["state"] = Defaults]
                    \/ \E p \in ImgPart : yaml' = [yaml EXCEPT ![p] = ResetState]
                    \/ \E p \in ImgPart : \E file : yaml' = [yaml EXCEPT ![p] = [yaml[p] EXCEPT !.file = file]]
  OBVIOUS
<1>1. FormatState \/ WriteResetYaml \/ WriteResetRecoveryYaml
  <2>1. /\ ~UnmountAll /\ ~FormatData /\ ~MountAll /\ ~BeforeReset /\ ~DeployActive /\ ~DumpActive
        /\ ~DumpActiveFailed /\ ~InstallGrub /\ ~RelabelReset /\ ~ChrootReset /\ ~AfterReset
    BY DEF UnmountAll, FormatData, MountAll, BeforeReset, RunHook, DeployActive, DumpActive,
           DumpActiveFailed, InstallGrub, RelabelReset, ChrootReset, AfterReset
  <2>2. /\ ~SetResetVariables /\ ~ResetEntry /\ ~CreateActive /\ ~FillActive /\ ~SquashActive
        /\ ~CleanActive /\ ~CopyPassive /\ ~PostReset /\ ~MountRecoveryRW
    BY DEF SetResetVariables, ResetEntry, RunHook, CreateActive, FillActive, SquashActive,
           CleanActive, CopyPassive, PostReset, MountRecoveryRW
  <2>3. /\ ~JobCleanActive /\ ~JobUnmountAll /\ ~JobUmount /\ ~JobRemountRO /\ ~CleanupDone
        /\ ~PowerAction
    BY DEF JobCleanActive, JobUnmountAll, JobUmount, JobRemountRO, JobRevertMount, CleanupDone,
           PowerAction, PoweredOff
  <2> QED
    BY <2>1, <2>2, <2>3 DEF ResetStep
<1>2. CASE FormatState
  BY <1>2 DEF FormatState, StateWiped
<1>3. CASE WriteResetYaml
  <2>1. WriteYaml("state", ResetState, "resetRecoveryYaml", "CreateFile") /\ "state" \in ImgPart
    BY <1>3 DEF WriteResetYaml, ImgPart
  <2> QED
    BY <2>1 DEF WriteYaml
<1>4. CASE WriteResetRecoveryYaml
  <2>1. WriteYaml("recovery", ResetState, "cleanup", "CreateFile") /\ "recovery" \in ImgPart
    BY <1>4 DEF WriteResetRecoveryYaml, ImgPart
  <2> QED
    BY <2>1 DEF WriteYaml
<1> QED
  BY <1>1, <1>2, <1>3, <1>4

\* The state a reset records describes recovery as the loaded one does.
LEMMA ResetRecordFine ==
  ASSUME MachineTypes, HistoryInv, pc \notin {"ready", "off"}
  PROVE  RecordFine(ResetState, disk["recovery"], runs)
<1>1. RecordFine(loaded, disk["recovery"], runs)
  BY DEF HistoryInv, RecordsInv
<1>2. /\ spec.activeFS = loaded.active.fs
      /\ spec.passiveLabel = IF spec.activeFS = "squashfs" THEN "" ELSE loaded.passive.label
  BY Zenon DEF HistoryInv, SpecTracked
<1>3. /\ ResetState.recovery = loaded.recovery /\ ResetState.active.fs = spec.activeFS
      /\ ResetState.passive.label = spec.passiveLabel
  BY DEF ResetState
<1> QED
  BY <1>1, <1>2, <1>3, Zenon DEF RecordFine

\* A step of a reset keeps the records and what they say of recovery.
LEMMA HistoryReset == MachineTypes /\ HistoryInv /\ ResetStep => HistoryInv'
<1> SUFFICES ASSUME MachineTypes, HistoryInv, ResetStep PROVE HistoryInv'
  OBVIOUS
<1>1. /\ cmd = "reset" /\ cmd' = "reset" /\ pc \in ResetLive
      /\ UNCHANGED <<start, loaded, spec, runs>>
  BY ResetStepKeeps
<1>2. CASE PowerAction
  <2>1. UNCHANGED resetVars
    <3>1. pc = "power"
      BY <1>2 DEF PowerAction
    <3> QED
      BY <3>1
      DEF ResetStep, UnmountAll, FormatState, FormatData, MountAll, BeforeReset, DeployActive,
          DumpActive, DumpActiveFailed, InstallGrub, RelabelReset, ChrootReset, AfterReset,
          SetResetVariables, ResetEntry, CreateActive, FillActive, SquashActive, CleanActive,
          CopyPassive, PostReset, RunHook, MountRecoveryRW, WriteResetYaml,
          WriteResetRecoveryYaml, JobCleanActive, JobUnmountAll, PopJob
  <2> QED
    BY <1>2, <2>1, HistoryPower
<1>3. CASE ~PowerAction
  <2>1. disk'["recovery"] = disk["recovery"]
    BY <1>3, ResetSparesRecovery
  <2>2. ~disk["recovery"].dirty /\ SameRecovery
    BY <1>1, <2>1 DEF HistoryInv, RecordsInv, SameRecovery
  <2>3. pc \notin {"ready", "off"}
    BY <1>1, StagesDiffer
  <2>4. ASSUME NEW p \in ImgPart
        PROVE  yaml'[p] = yaml[p] \/ RecordFine(yaml'[p], disk["recovery"], runs)
    <3>1. RecordFine(ResetState, disk["recovery"], runs)
      BY <2>3, ResetRecordFine
    <3>2. RecordFine(Defaults, disk["recovery"], runs)
      <4>1. Defaults.recovery.src = {} /\ Defaults.passive.label = "COS_PASSIVE"
        BY DEF Defaults
      <4> QED
        BY <4>1, Zenon DEF RecordFine, HistoryInv, RecordsInv
    <3>3. \A file : RecordFine([yaml[p] EXCEPT !.file = file], disk["recovery"], runs)
      <4>1. yaml[p] \in InstallState /\ RecordFine(yaml[p], disk["recovery"], runs)
        BY Components DEF HistoryInv, RecordsInv
      <4> QED
        BY <4>1, BrokenFine
    <3>4. yaml \in [ImgPart -> InstallState]
      BY Components
    <3> QED
      BY <1>1, <3>1, <3>2, <3>3, <3>4, ResetWrites
  <2>5. RecordsInv' /\ SpecTracked'
    BY <1>1, <2>1, <2>2, <2>3, <2>4, HistoryKept DEF HistoryInv
  <2> QED
    BY <1>1, <2>5 DEF HistoryInv, RecoveryTracked
<1> QED
  BY <1>2, <1>3

\* Every step of the machine keeps the records and what they say of recovery.
LEMMA HistoryStep ==
  ASSUME FSOverride = FALSE
  PROVE  MachineTypes /\ HistoryInv /\ [MachineNext]_allVars => HistoryInv'
<1> SUFFICES ASSUME MachineTypes, HistoryInv, [MachineNext]_allVars PROVE HistoryInv'
  OBVIOUS
<1>1. CASE UNCHANGED allVars
  <2>1. RecordsInv'
    BY <1>1, Zenon DEF HistoryInv, RecordsInv, RecordFine
  <2>2. SpecTracked'
    BY <1>1, Zenon DEF HistoryInv, SpecTracked
  <2>3. RecoveryTracked'
    BY <1>1 DEF HistoryInv, RecoveryTracked, ImageReady, TransSlot, ImageFS, ImageLabel
  <2> QED
    BY <2>1, <2>2, <2>3 DEF HistoryInv
<1> QED
  BY <1>1, MachineSteps, HistoryUpgrade, HistoryReset, HistoryStart, HistoryPower
-----------------------------------------------------------------------------
(* What a reset delivers.                                                  *)

\* The stages with an empty and with a full scratch tree, with the boot loader, with its
\* labels, with the active image and with the passive one.
TreeEmpty  == {"formatData", "mountAll", "beforeReset", "deployActive", "dumpActive"}
WithTree    == {"installGrub", "relabelReset", "chrootReset", "afterReset", "resetGrubVars",
                "resetEntry", "createActive", "fillActive"}
WithPassive == {"postReset", "mountRecoveryRW", "resetYaml", "resetRecoveryYaml", "cleanup", "power"}
WithActive  == {"cleanActive", "copyPassive"} \cup WithPassive
WithLabels  == {"resetEntry", "createActive", "fillActive"} \cup WithActive
WithGrub    == {"relabelReset", "chrootReset", "afterReset", "resetGrubVars"} \cup WithLabels

\* An image made of the source, and the labels of the boot menu.
Built(s) == disk[s].content = source /\ disk[s].ok /\ disk[s].fs = spec.activeFS
Labelled ==
  /\ grub["active"] = spec.activeLabel /\ grub["passive"] = spec.passiveLabel
  /\ loaded.recovery.src # {} => grub["recovery"] = loaded.recovery.label

\* What is where as long as the reset met no error.
Stages ==
  /\ pc \in TreeEmpty => tree["active"] = {}
  /\ pc \in ActiveGone => disk["active"] = NoFile
  /\ pc \in WithTree => tree["active"] = source
  /\ pc \in WithGrub => stateFS = "grub"
  /\ pc \in WithLabels => Labelled
  /\ pc \in WithActive => Built("active") /\ disk["active"].label = spec.activeLabel
  /\ pc \in WithPassive => Built("passive") /\ disk["passive"].label = CopiedLabel
  /\ pc = "resetRecoveryYaml" => yaml["state"] = ResetState
  /\ pc \in {"cleanup", "power"} => \A p \in ImgPart : yaml[p] = ResetState
  /\ pc \in {"cleanup", "power"} /\ Len(jobs) = 0 =>
       cleanErr \/ (~disk["active"].dirty /\ ~disk["passive"].dirty)

\* The source on its way from the tree into both images, the labels and the records.
SourceTracked ==
  cmd = "reset" =>
    /\ pc = "dumpFailed" => err # "none"
    /\ pc = "power" => ~cleanErr
    /\ err = "none" => Stages

\* An error, or a stage outside of the reset, asks for nothing.
LEMMA SourceOver ==
  ASSUME \/ err' # "none" /\ pc' # "power"
         \/ pc' \in {"unmountAll", "formatState", "exited", "off", "ready"}
  PROVE  SourceTracked'
BY DEF SourceTracked, Stages, TreeEmpty, ActiveGone, WithTree, WithGrub, WithLabels, WithActive,
       WithPassive

\* Steps from stage to stage that leave all of it.
LEMMA SourceQuiet ==
  ASSUME SourceTracked, cmd = "reset",
         UNCHANGED <<disk, tree, yaml, grub, stateFS, source, spec, loaded, cmd>>,
         err' # "none" \/ err' = err,
         \/ err' # "none" /\ pc' # "power"
         \/ pc \in TreeEmpty /\ pc' \in TreeEmpty
         \/ pc = "relabelReset" /\ pc' = "chrootReset"
         \/ pc = "chrootReset" /\ pc' = "afterReset"
         \/ pc = "afterReset" /\ pc' = "resetGrubVars"
         \/ pc = "resetEntry" /\ pc' = "createActive"
         \/ pc = "postReset" /\ pc' = "mountRecoveryRW"
         \/ pc = "mountRecoveryRW" /\ pc' = "resetYaml"
  PROVE  SourceTracked'
<1>1. CASE err' # "none" /\ pc' # "power"
  BY <1>1, SourceOver
<1>2. CASE ~(err' # "none" /\ pc' # "power")
  <2>1. pc' # "power"
    BY <1>2 DEF TreeEmpty
  <2>2. err' = "none" /\ err = "none"
    BY <1>2, <2>1
  <2>3. Labelled' = Labelled /\ CopiedLabel' = CopiedLabel
    BY DEF Labelled, CopiedLabel
  <2>4. \A s : Built(s) = Built(s)'
    BY DEF Built
  <2>5. Stages
    BY <2>2 DEF SourceTracked
  <2>6. Stages'
    BY <1>2, <2>2, <2>3, <2>4, <2>5
    DEF Stages, Built, TreeEmpty, ActiveGone, WithTree, WithGrub, WithLabels, WithActive, WithPassive
  <2> QED
    BY <1>2, <2>1, <2>2, <2>6 DEF SourceTracked, TreeEmpty
<1> QED
  BY <1>1, <1>2

\* The formatting empties the state partition.
LEMMA SourceFormat == MachineTypes /\ FormatState => SourceTracked'
<1> SUFFICES ASSUME MachineTypes, FormatState PROVE SourceTracked'
  OBVIOUS
<1>1. CASE pc' = "formatData"
  <2>1. StateWiped
    BY <1>1 DEF FormatState
  <2>2. "active" \in Slot /\ "active" \in StateSlot
    BY DEF Slot, StateSlot
  <2>3. disk'["active"] = NoFile /\ tree'["active"] = {}
    BY <2>1, <2>2 DEF StateWiped
  <2> QED
    BY <1>1, <2>3
    DEF SourceTracked, Stages, TreeEmpty, ActiveGone, WithTree, WithGrub, WithLabels, WithActive,
        WithPassive
<1>2. CASE pc' # "formatData"
  <2>1. err' # "none" /\ pc' # "power"
    BY <1>2 DEF FormatState
  <2> QED
    BY <2>1, SourceOver
<1> QED
  BY <1>1, <1>2

\* The scratch tree holds the source, the boot loader is installed, the labels are set.
LEMMA SourceDeploy ==
  ASSUME MachineTypes, SourceTracked, cmd = "reset", DumpActive \/ InstallGrub \/ SetResetVariables
  PROVE  SourceTracked'
<1>1. CASE err' # "none" /\ pc' # "power"
  BY <1>1, SourceOver
<1> SUFFICES ASSUME ~(err' # "none" /\ pc' # "power") PROVE SourceTracked'
  BY <1>1
<1>2. CASE DumpActive
  <2>1. /\ pc = "dumpActive" /\ pc' = "installGrub" /\ err' = err /\ UNCHANGED <<disk, source, cmd>>
        /\ tree' = [tree EXCEPT !["active"] = @ \cup source]
    BY <1>2 DEF DumpActive
  <2>2. err = "none"
    BY <2>1
  <2>3. tree["active"] = {} /\ disk["active"] = NoFile
    BY <2>1, <2>2 DEF SourceTracked, Stages, TreeEmpty, ActiveGone
  <2>4. tree'["active"] = source
    BY <2>1, <2>3, Components DEF Slot
  <2> QED
    BY <2>1, <2>3, <2>4
    DEF SourceTracked, Stages, TreeEmpty, ActiveGone, WithTree, WithGrub, WithLabels, WithActive,
        WithPassive
<1>3. CASE InstallGrub
  <2>1. /\ pc = "installGrub" /\ pc' = "relabelReset" /\ err' = err
        /\ UNCHANGED <<disk, tree, source, cmd>> /\ stateFS' = "grub"
    BY <1>3 DEF InstallGrub
  <2>2. err = "none"
    BY <2>1
  <2>3. tree["active"] = source /\ disk["active"] = NoFile
    BY <2>1, <2>2 DEF SourceTracked, Stages, WithTree, ActiveGone
  <2> QED
    BY <2>1, <2>3
    DEF SourceTracked, Stages, TreeEmpty, ActiveGone, WithTree, WithGrub, WithLabels, WithActive,
        WithPassive
<1>4. CASE SetResetVariables
  <2>1. /\ pc = "resetGrubVars" /\ pc' = "resetEntry" /\ err' = err
        /\ UNCHANGED <<disk, tree, source, cmd, stateFS, spec, loaded>> /\ grub' = ResetLabels
    BY <1>4 DEF SetResetVariables
  <2>2. err = "none"
    BY <2>1
  <2>3. tree["active"] = source /\ disk["active"] = NoFile /\ stateFS = "grub"
    BY <2>1, <2>2 DEF SourceTracked, Stages, WithTree, ActiveGone, WithGrub
  <2>4. Labelled'
    BY <2>1 DEF Labelled, ResetLabels, SystemSlot
  <2> QED
    BY <2>1, <2>3, <2>4
    DEF SourceTracked, Stages, TreeEmpty, ActiveGone, WithTree, WithGrub, WithLabels, WithActive,
        WithPassive
<1> QED
  BY <1>2, <1>3, <1>4

\* The active image is made of the scratch tree.
LEMMA SourceImage ==
  ASSUME MachineTypes, SourceTracked, cmd = "reset", ~spec.recovery,
         CreateActive \/ FillActive \/ SquashActive
  PROVE  SourceTracked'
<1>1. CASE err' # "none" /\ pc' # "power"
  BY <1>1, SourceOver
<1> SUFFICES ASSUME ~(err' # "none" /\ pc' # "power") PROVE SourceTracked'
  BY <1>1
<1>2. /\ UNCHANGED <<tree, yaml, grub, spec, loaded, cmd, source, stateFS>>
      /\ pc \in {"createActive", "fillActive"} /\ pc' \in {"fillActive", "cleanActive"} /\ err' = err
  BY DEF CreateActive, FillActive, SquashActive, ImgFails
<1>3. err = "none" /\ ImageFS = spec.activeFS /\ ImageLabel = spec.activeLabel
  BY <1>2 DEF ImageFS, ImageLabel
<1>4. tree["active"] = source /\ stateFS = "grub" /\ Labelled
  BY <1>2, <1>3 DEF SourceTracked, Stages, WithTree, WithGrub, WithLabels
<1>5. Labelled'
  BY <1>2, <1>4 DEF Labelled
<1>6. pc = "createActive" => disk["active"] = NoFile
  BY <1>3 DEF SourceTracked, Stages, ActiveGone
<1>7. "active" \in Slot /\ disk \in [Slot -> Image]
  BY Components DEF Slot
<1>8. CASE CreateActive
  <2>1. pc' = "fillActive"
    BY <1>2, <1>3, <1>8 DEF CreateActive, ImgFails
  <2> QED
    BY <1>2, <1>4, <1>5, <2>1
    DEF SourceTracked, Stages, TreeEmpty, ActiveGone, WithTree, WithGrub, WithLabels, WithActive,
        WithPassive
<1>9. CASE FillActive \/ SquashActive
  <2>1. pc' = "cleanActive" /\ disk'["active"] = NewFile(source, TRUE)
    <3>1. CASE FillActive
      BY <1>2, <1>3, <1>4, <1>7, <3>1 DEF FillActive, ImgFails
    <3>2. CASE SquashActive
      <4> DEFINE new == NewFile(disk["active"].content \cup tree["active"], TRUE)
      <4>0. ~ImgFails("cleanActive")
        BY <1>2, <1>3 DEF ImgFails
      <4>1. pc' = "cleanActive" /\ disk' = [disk EXCEPT !["active"] = new]
        BY <3>2, <4>0 DEF SquashActive
      <4>2. disk["active"].content = {}
        <5>1. pc = "createActive"
          BY <3>2 DEF SquashActive
        <5>2. NoFile.content = {}
          BY DEF NoFile
        <5> QED
          BY <1>6, <5>1, <5>2
      <4>3. disk["active"].content \cup tree["active"] = source
        BY <1>4, <4>2
      <4> QED
        BY <1>7, <4>1, <4>3
    <3> QED
      BY <1>9, <3>1, <3>2
  <2>2. Built("active")' /\ disk'["active"].label = spec'.activeLabel
    BY <1>2, <1>3, <2>1 DEF Built, NewFile
  <2> QED
    BY <1>2, <1>4, <1>5, <2>1, <2>2
    DEF SourceTracked, Stages, TreeEmpty, ActiveGone, WithTree, WithGrub, WithLabels, WithActive,
        WithPassive
<1> QED
  BY <1>8, <1>9

\* The scratch tree goes away, and active is copied to passive.
LEMMA SourceCopy ==
  ASSUME MachineTypes, SourceTracked, cmd = "reset", CleanActive \/ CopyPassive
  PROVE  SourceTracked'
<1>1. CASE err' # "none" /\ pc' # "power"
  BY <1>1, SourceOver
<1> SUFFICES ASSUME ~(err' # "none" /\ pc' # "power") PROVE SourceTracked'
  BY <1>1
<1>2. /\ UNCHANGED <<yaml, grub, spec, loaded, cmd, source, stateFS>>
      /\ pc \in {"cleanActive", "copyPassive"} /\ pc' \in {"copyPassive", "postReset"} /\ err' = err
      /\ err = "none"
  BY DEF CleanActive, CopyPassive
<1>3. /\ stateFS = "grub" /\ Labelled /\ Built("active") /\ disk["active"].label = spec.activeLabel
  BY <1>2 DEF SourceTracked, Stages, WithGrub, WithLabels, WithActive
<1>4. Labelled'
  BY <1>2, <1>3 DEF Labelled
<1>5. "active" \in Slot /\ "passive" \in Slot /\ disk \in [Slot -> Image]
  BY Components DEF Slot
<1>6. CASE CleanActive
  <2>1. pc' = "copyPassive" /\ disk' = disk
    BY <1>2, <1>6 DEF CleanActive
  <2>2. Built("active")' /\ disk'["active"].label = spec'.activeLabel
    BY <1>2, <1>3, <2>1 DEF Built
  <2> QED
    BY <1>2, <1>3, <1>4, <2>1, <2>2
    DEF SourceTracked, Stages, TreeEmpty, ActiveGone, WithTree, WithGrub, WithLabels, WithActive,
        WithPassive
<1>7. CASE CopyPassive
  <2> DEFINE copy == [[disk["active"] EXCEPT !.dirty = TRUE] EXCEPT !.label = CopiedLabel]
  <2>1. pc' = "postReset" /\ disk' = [disk EXCEPT !["passive"] = copy]
    BY <1>2, <1>7 DEF CopyPassive
  <2>2. /\ copy.content = disk["active"].content /\ copy.ok = disk["active"].ok
        /\ copy.fs = disk["active"].fs /\ copy.label = CopiedLabel
    BY <1>5 DEF Image
  <2> HIDE DEF copy
  <2>3. disk'["active"] = disk["active"] /\ disk'["passive"] = copy
    BY <1>5, <2>1
  <2>4. Built("active")' /\ disk'["active"].label = spec'.activeLabel
    BY <1>2, <1>3, <2>3 DEF Built
  <2>5. Built("passive")'
    BY <1>2, <1>3, <2>2, <2>3 DEF Built
  <2>6. CopiedLabel' = CopiedLabel
    BY <1>2, <2>3 DEF CopiedLabel
  <2>7. disk'["passive"].label = CopiedLabel'
    BY <2>2, <2>3, <2>6
  <2> QED
    BY <1>2, <1>3, <1>4, <2>1, <2>4, <2>5, <2>7
    DEF SourceTracked, Stages, TreeEmpty, ActiveGone, WithTree, WithGrub, WithLabels, WithActive,
        WithPassive
<1> QED
  BY <1>6, <1>7

\* Writing the records, and the end of the cleanup.
LEMMA SourceRecord ==
  ASSUME MachineTypes, UnmountInv, SourceTracked, cmd = "reset",
         \/ WriteResetYaml \/ WriteResetRecoveryYaml \/ (CleanupDone /\ UNCHANGED resetVars)
  PROVE  SourceTracked'
<1>1. CASE err' # "none" /\ pc' # "power"
  BY <1>1, SourceOver
<1> SUFFICES ASSUME ~(err' # "none" /\ pc' # "power") PROVE SourceTracked'
  BY <1>1
<1>2. /\ UNCHANGED <<disk, tree, grub, spec, loaded, cmd, source, stateFS, jobs, cleanErr>>
      /\ pc \in {"resetYaml", "resetRecoveryYaml", "cleanup"}
      /\ pc' \in {"resetRecoveryYaml", "cleanup", "power"} /\ err' = err /\ err = "none"
  <2>1. CASE WriteResetYaml \/ WriteResetRecoveryYaml
    BY <2>1 DEF WriteResetYaml, WriteResetRecoveryYaml, WriteYaml
  <2>2. CASE CleanupDone /\ UNCHANGED resetVars
    BY <2>2 DEF CleanupDone
  <2> QED
    BY <2>1, <2>2
<1>3. /\ stateFS = "grub" /\ Labelled /\ Built("active") /\ disk["active"].label = spec.activeLabel
      /\ Built("passive") /\ disk["passive"].label = CopiedLabel
  BY <1>2 DEF SourceTracked, Stages, WithGrub, WithLabels, WithActive, WithPassive
<1>4. /\ stateFS' = "grub" /\ Labelled' /\ Built("active")' /\ disk'["active"].label = spec'.activeLabel
      /\ Built("passive")' /\ disk'["passive"].label = CopiedLabel'
  BY <1>2, <1>3, Zenon DEF Labelled, Built, CopiedLabel
<1>5. ResetState' = ResetState
  BY <1>2 DEF ResetState
<1>6. yaml \in [ImgPart -> InstallState]
  BY Components
<1>7. CASE WriteResetYaml
  <2>1. pc' = "resetRecoveryYaml" /\ yaml' = [yaml EXCEPT !["state"] = ResetState]
    BY <1>2, <1>7 DEF WriteResetYaml, WriteYaml
  <2>2. yaml'["state"] = ResetState'
    BY <1>5, <1>6, <2>1 DEF ImgPart
  <2> QED
    BY <1>2, <1>4, <2>1, <2>2
    DEF SourceTracked, Stages, TreeEmpty, ActiveGone, WithTree, WithGrub, WithLabels, WithActive,
        WithPassive
<1>8. CASE WriteResetRecoveryYaml
  <2>1. /\ pc = "resetRecoveryYaml" /\ pc' = "cleanup"
        /\ yaml' = [yaml EXCEPT !["recovery"] = ResetState]
    BY <1>2, <1>8 DEF WriteResetRecoveryYaml, WriteYaml
  <2>2. yaml["state"] = ResetState
    BY <1>2, <2>1 DEF SourceTracked, Stages
  <2>3. \A p \in ImgPart : yaml'[p] = ResetState'
    BY <1>5, <1>6, <2>1, <2>2 DEF ImgPart
  <2>4. Len(jobs') # 0
    BY <1>2, <2>1 DEF UnmountInv, StackInv, Recording
  <2> QED
    BY <1>2, <1>4, <2>1, <2>3, <2>4
    DEF SourceTracked, Stages, TreeEmpty, ActiveGone, WithTree, WithGrub, WithLabels, WithActive,
        WithPassive
<1>9. CASE CleanupDone /\ UNCHANGED resetVars
  <2>1. /\ pc = "cleanup" /\ pc' = "power" /\ UNCHANGED yaml /\ ~cleanErr
    BY <1>2, <1>9 DEF CleanupDone
  <2>2. \A p \in ImgPart : yaml'[p] = ResetState'
    BY <1>2, <1>5, <2>1 DEF SourceTracked, Stages
  <2>3. Len(jobs) = 0 => ~disk["active"].dirty /\ ~disk["passive"].dirty
    BY <1>2, <2>1 DEF SourceTracked, Stages
  <2> QED
    BY <1>2, <1>4, <2>1, <2>2, <2>3
    DEF SourceTracked, Stages, TreeEmpty, ActiveGone, WithTree, WithGrub, WithLabels, WithActive,
        WithPassive
<1> QED
  BY <1>7, <1>8, <1>9

\* What the unmounting of state does to its images.
LEMMA UnmountedImages ==
  ASSUME MachineTypes, NEW stay, UnmountPartitions(stay), NEW s \in {"active", "passive"}
  PROVE  /\ disk'[s].content = disk[s].content /\ disk'[s].ok = disk[s].ok
         /\ disk'[s].fs = disk[s].fs /\ disk'[s].label = disk[s].label
         /\ stay = {} => ~disk'[s].dirty
<1>1. disk[s] \in Image /\ s \in Slot /\ s \in StateSlot
  BY Components DEF Slot, StateSlot
<1>2. disk'[s] = IF "state" \notin stay THEN [disk[s] EXCEPT !.dirty = FALSE] ELSE disk[s]
  BY <1>1 DEF UnmountPartitions
<1> DEFINE old == disk[s]
           new == disk'[s]
<1>3. old \in Image /\ (new = [old EXCEPT !.dirty = FALSE] \/ (new = old /\ stay # {}))
  BY <1>1, <1>2
<1> HIDE DEF old, new
<1>4. /\ new.content = old.content /\ new.ok = old.ok /\ new.fs = old.fs /\ new.label = old.label
  BY <1>3 DEF Image
<1>5. stay = {} => new.dirty = FALSE
  BY <1>3 DEF Image
<1> QED
  BY <1>4, <1>5 DEF old, new

\* The cleanup jobs: the images are written back by the last one.
LEMMA SourceCleanup ==
  ASSUME MachineTypes, UnmountInv, SourceTracked, cmd = "reset",
         \/ JobCleanActive \/ JobUnmountAll \/ ((JobUmount \/ JobRemountRO) /\ UNCHANGED resetVars)
  PROVE  SourceTracked'
<1>1. CASE err' # "none" /\ pc' # "power"
  BY <1>1, SourceOver
<1> SUFFICES ASSUME ~(err' # "none" /\ pc' # "power") PROVE SourceTracked'
  BY <1>1
<1>2. /\ UNCHANGED <<yaml, grub, spec, loaded, cmd, source, stateFS>>
      /\ pc = "cleanup" /\ pc' = "cleanup" /\ err' = err
  BY DEF JobCleanActive, JobUnmountAll, JobUmount, JobRemountRO, JobRevertMount, PopJob
<1>3. err = "none"
  BY <1>2
<1>4. /\ stateFS = "grub" /\ Labelled /\ Built("active") /\ disk["active"].label = spec.activeLabel
      /\ Built("passive") /\ disk["passive"].label = CopiedLabel
      /\ \A p \in ImgPart : yaml[p] = ResetState
  BY <1>2, <1>3 DEF SourceTracked, Stages, WithGrub, WithLabels, WithActive, WithPassive
<1>5. /\ \A s \in {"active", "passive"} :
           /\ disk'[s].content = disk[s].content /\ disk'[s].ok = disk[s].ok
           /\ disk'[s].fs = disk[s].fs /\ disk'[s].label = disk[s].label
      /\ Len(jobs') = 0 => cleanErr' \/ (~disk'["active"].dirty /\ ~disk'["passive"].dirty)
  <2>1. CASE JobUnmountAll
    <3>1. PICK stay \in SUBSET Part : UnmountPartitions(stay) /\ cleanErr' = (cleanErr \/ stay # {})
      BY <2>1 DEF JobUnmountAll
    <3>2. stay # {} => cleanErr'
      BY <3>1
    <3> QED
      BY <3>1, <3>2, UnmountedImages
  <2>2. CASE JobCleanActive \/ JobUmount \/ JobRemountRO
    <3>1. PICK op \in {"cleanTree", "umount", "remountRO"} : PopJob(op)
      BY <2>2 DEF JobCleanActive, JobUmount, JobRemountRO, JobRevertMount
    <3>2. /\ Len(jobs) \in 1 .. 3 /\ (op = "umountAll" <=> Len(jobs) = 1)
          /\ Len(jobs') = Len(jobs) - 1
      BY <3>1, ResetJobKinds, ResetPopped
    <3>3. Len(jobs') # 0
      BY <3>1, <3>2
    <3>4. disk' = disk
      BY <2>2 DEF JobCleanActive, JobUmount, JobRemountRO, JobRevertMount
    <3> QED
      BY <3>3, <3>4
  <2> QED
    BY <2>1, <2>2
<1>6. /\ stateFS' = "grub" /\ Labelled' /\ Built("active")' /\ disk'["active"].label = spec'.activeLabel
      /\ Built("passive")' /\ disk'["passive"].label = CopiedLabel'
  BY <1>2, <1>4, <1>5, Zenon DEF Labelled, Built, CopiedLabel
<1>7. \A p \in ImgPart : yaml'[p] = ResetState'
  BY <1>2, <1>4 DEF ResetState
<1> QED
  BY <1>2, <1>5, <1>6, <1>7
  DEF SourceTracked, Stages, TreeEmpty, ActiveGone, WithTree, WithGrub, WithLabels, WithActive,
      WithPassive

\* The steps that only go on or fail.
LEMMA SourceGoesOn ==
  ASSUME MachineTypes, SourceTracked, cmd = "reset",
         \/ FormatData \/ MountAll \/ BeforeReset \/ DeployActive \/ RelabelReset \/ ChrootReset
         \/ AfterReset \/ ResetEntry \/ PostReset \/ MountRecoveryRW
  PROVE  SourceTracked'
<1> USE SourceQuiet, SourceOver DEF TreeEmpty
<1>1. CASE FormatData \/ MountAll \/ BeforeReset
  BY <1>1 DEF FormatData, MountAll, BeforeReset, RunHook
<1>2. CASE DeployActive
  BY <1>2 DEF DeployActive
<1>3. CASE RelabelReset \/ ChrootReset
  BY <1>3 DEF RelabelReset, ChrootReset, ChrootedCallback
<1>4. CASE AfterReset \/ ResetEntry \/ PostReset
  BY <1>4 DEF AfterReset, ResetEntry, PostReset, RunHook
<1>5. CASE MountRecoveryRW
  BY <1>5 DEF MountRecoveryRW
<1> QED
  BY <1>1, <1>2, <1>3, <1>4, <1>5

\* Every step keeps the source on its way.
LEMMA SourceStep ==
  MachineTypes /\ UnmountInv /\ SourceTracked /\ [MachineNext]_allVars => SourceTracked'
<1> SUFFICES ASSUME MachineTypes, UnmountInv, SourceTracked, [MachineNext]_allVars
             PROVE  SourceTracked'
  OBVIOUS
<1>1. CASE UNCHANGED allVars
  BY <1>1, Zenon DEF SourceTracked, Stages, Labelled, Built, CopiedLabel, ResetState
<1>2. CASE cmd' # "reset"
  BY <1>2 DEF SourceTracked
<1>3. CASE ResetStep
  <2>1. cmd = "reset" /\ ~spec.recovery
    BY <1>3, ResetStepKeeps DEF UnmountInv, MountInv
  <2>2. UnmountAll => SourceTracked'
    <3>1. UnmountAll => \/ pc' = "formatState"
                        \/ err' # "none" /\ pc' # "power"
      BY DEF UnmountAll
    <3> QED
      BY <3>1, SourceOver
  <2>3. DumpActiveFailed => SourceTracked'
    <3>1. DumpActiveFailed => err' # "none" /\ pc' # "power"
      BY <2>1 DEF DumpActiveFailed, SourceTracked
    <3> QED
      BY <3>1, SourceOver
  <2>4. PowerAction => SourceTracked'
    <3>1. PowerAction => pc' \in {"exited", "off"}
      BY DEF PowerAction, PoweredOff
    <3> QED
      BY <3>1, SourceOver
  <2> QED
    BY <1>3, <2>1, <2>2, <2>3, <2>4, SourceGoesOn, SourceFormat, SourceDeploy, SourceImage, SourceCopy,
       SourceRecord, SourceCleanup
    DEF ResetStep
<1>4. CASE CallReset
  <2>1. pc' = "unmountAll"
    BY <1>4 DEF CallReset, StartReset
  <2> QED
    BY <2>1, SourceOver
<1>5. CASE CallUpgrade \/ UpgradeStep
  BY <1>2, <1>5 DEF CallUpgrade, UpgradeStep
<1>6. CASE Reboot \/ PowerLoss \/ \E s \in SystemSlot : Boot(s)
  <2>1. pc' \in {"off", "ready"}
    BY <1>6 DEF Reboot, PowerLoss, PoweredOff, Boot
  <2> QED
    BY <2>1, SourceOver
<1> QED
  BY <1>1, <1>3, <1>4, <1>5, <1>6, MachineSteps

\* When a reset reports success, active and passive are both exactly the source, complete,
\* written back and bootable; so is recovery if the state it loaded described it, and both
\* copies of state.yaml name all three images (updateInstallState and Run of reset.go).
\* The configuration does not override file systems.
THEOREM ResetDeliversAll ==
  ASSUME FSOverride = FALSE
  PROVE  MachineSpec => []ResetDelivers
<1>1. MachineInit => UnmountInv /\ SourceTracked
  BY DEF MachineInit, UnmountInv, StackInv, MountInv, SourceTracked
<1>2. MachineTypes /\ UnmountInv /\ HistoryInv /\ SourceTracked => ResetDelivers
  <2> SUFFICES ASSUME MachineTypes, UnmountInv, HistoryInv, SourceTracked, cmd = "reset", pc = "power"
               PROVE  /\ stateFS = "grub"
                      /\ \A s \in {"active", "passive"} :
                           disk[s].content = source /\ disk[s].ok /\ ~disk[s].dirty /\ Bootable(s)
                      /\ start.trusted =>
                           /\ Bootable("recovery")
                           /\ \A p \in ImgPart : yaml[p].file = "whole" /\ Accurate(yaml[p])
    BY DEF ResetDelivers
  <2>1. err = "none" /\ Len(jobs) = 0
    BY DEF UnmountInv, StackInv, MountInv
  <2>2. Stages /\ ~cleanErr
    BY <2>1 DEF SourceTracked
  <2>3. /\ stateFS = "grub" /\ Labelled /\ Built("active") /\ disk["active"].label = spec.activeLabel
        /\ Built("passive") /\ disk["passive"].label = CopiedLabel
        /\ \A p \in ImgPart : yaml[p] = ResetState
        /\ ~disk["active"].dirty /\ ~disk["passive"].dirty
    BY <2>1, <2>2 DEF Stages, WithGrub, WithLabels, WithActive, WithPassive
  <2>4. /\ RecordFine(loaded, disk["recovery"], runs) /\ disk["recovery"].content # {}
        /\ spec.activeFS = loaded.active.fs
        /\ spec.passiveLabel = IF spec.activeFS = "squashfs" THEN "" ELSE loaded.passive.label
        /\ start.trusted => loaded.recovery.src = disk["recovery"].content
    BY Zenon DEF HistoryInv, RecordsInv, SpecTracked
  <2>5. Bootable("active")
    BY <2>3 DEF Built, Labelled, Bootable
  <2>6. Bootable("passive")
    <3>1. spec.activeFS = "ext2" => disk["passive"].label = spec.passiveLabel
      BY <2>3, <2>4, Zenon DEF CopiedLabel, RecordFine
    <3> QED
      BY <2>3, <3>1 DEF Built, Labelled, Bootable
  <2>7. ASSUME start.trusted PROVE Bootable("recovery")
    BY <2>3, <2>4, <2>7, Zenon DEF Bootable, Labelled, RecordFine
  <2>8. ASSUME start.trusted, NEW p \in ImgPart PROVE yaml[p].file = "whole" /\ Accurate(yaml[p])
    <3>1. /\ ResetState.file = "whole" /\ ResetState.active.src = source
          /\ ResetState.passive.src = source /\ ResetState.recovery.src = loaded.recovery.src
      BY DEF ResetState
    <3>2. /\ ResetState["active"].src = source /\ ResetState["passive"].src = source
          /\ ResetState["recovery"].src = loaded.recovery.src
      BY <3>1
    <3> QED
      BY <2>3, <2>4, <2>8, <3>1, <3>2, Zenon DEF Accurate, Built
  <2> QED
    BY <2>3, <2>5, <2>6, <2>7, <2>8 DEF Built
<1> QED
  BY <1>1, <1>2, MachineTypeInit, MachineTypeStep, UnmountStep, HistoryInit, HistoryStep, SourceStep,
     PTL DEF MachineSpec

-----------------------------------------------------------------------------
(* Upgrades between resets.                                                *)

\* A run that comes to the rotation has a complete image to install.
LEMMA ReadyStep ==
  ASSUME TypeOK, RotationReady, [Next]_vars
  PROVE  RotationReady'
<1>1. CASE pc' \notin {"cleanTree", "backup", "label", "swap"}
  BY <1>1 DEF RotationReady, ImageReady
<1>2. CASE pc' = "cleanTree" /\ err' # "none"
  BY <1>2 DEF RotationReady, ImageReady
<1>0. TransSlot \in Slot /\ TransSlot \notin SystemSlot /\ RunOK /\ disk \in [Slot -> Image]
  BY TransSlotType, TransSlotOther DEF TypeOK, PersistentOK
<1>3. CASE (FillImage \/ SquashImage) /\ pc' = "cleanTree" /\ err' = "none"
  <2>1. TransSlot' = TransSlot
    BY <1>3 DEF FillImage, SquashImage, TransSlot
  <2>2. PICK content : disk' = [disk EXCEPT ![TransSlot] = NewFile(content, TRUE)]
    BY <1>3 DEF FillImage, SquashImage, ImgFails
  <2>3. disk'[TransSlot].fs # "none" /\ disk'[TransSlot].ok
    BY <1>0, <2>2, NewFileThere
  <2> QED
    BY <1>3, <2>1, <2>3 DEF RotationReady, ImageReady
<1>4. CASE CleanTree
  <2>1. /\ UNCHANGED <<disk, spec>> /\ TransSlot' = TransSlot /\ pc = "cleanTree"
        /\ \/ pc' = "cleanup"
           \/ err = "none" /\ pc' = IF spec.recovery THEN "swap" ELSE "backup"
    BY <1>4 DEF CleanTree, TransSlot
  <2> QED
    BY <2>1 DEF RotationReady, ImageReady
<1>5. CASE Backup
  <2>1. pc = "backup" /\ spec' = spec /\ TransSlot' = TransSlot /\ pc' \in {"label", "cleanup"}
    BY <1>5 DEF Backup, TransSlot
  <2>2. ~spec.recovery /\ TransSlot = "transState"
    BY <2>1 DEF RotationReady, TransSlot
  <2>3. disk'["transState"] = disk["transState"]
    BY <1>0, <1>5 DEF Backup, Renamed, Slot
  <2> QED
    BY <2>1, <2>2, <2>3 DEF RotationReady, ImageReady
<1>6. CASE LabelPassive
  <2>1. pc = "label" /\ spec' = spec /\ TransSlot' = TransSlot /\ pc' \in {"swap", "cleanup"}
    BY <1>6 DEF LabelPassive, TransSlot
  <2>2. CASE pc' = "swap"
    <3> DEFINE d == [disk EXCEPT !["passive"].label = spec.passiveLabel]
    <3>1. d \in [Slot -> Image] /\ disk' = Synced(d)
      BY <1>6, <2>2, Relabelled DEF LabelPassive
    <3>2. d[TransSlot] = disk[TransSlot]
      BY <1>0 DEF SystemSlot
    <3> HIDE DEF d
    <3>3. disk'[TransSlot].fs = d[TransSlot].fs /\ disk'[TransSlot].ok = d[TransSlot].ok
      BY <1>0, <3>1, SyncKeepsFiles
    <3> QED
      BY <2>1, <2>2, <3>2, <3>3 DEF RotationReady, ImageReady
  <2>3. CASE pc' = "cleanup"
    BY <2>3 DEF RotationReady, ImageReady
  <2> QED
    BY <2>1, <2>2, <2>3
<1>7. CASE UNCHANGED <<pc, err, disk, spec>>
  BY <1>7 DEF RotationReady, ImageReady, TransSlot
<1>8. \/ pc' \notin {"cleanTree", "backup", "label", "swap"}
      \/ pc' = "cleanTree" /\ err' # "none"
      \/ (FillImage \/ SquashImage) /\ pc' = "cleanTree" /\ err' = "none"
      \/ CleanTree \/ Backup \/ LabelPassive \/ UNCHANGED <<pc, err, disk, spec>>
  <2>1. CASE \/ MountState \/ MountRecovery \/ MountPersistent \/ BeforeHook \/ BindTree
             \/ DumpSource \/ DumpFailed \/ SelinuxRelabel \/ ChrootHook \/ AfterHook
    BY <2>1
    DEF MountState, MountRecovery, MountPersistent, BeforeHook, BindTree, DumpSource, DumpFailed,
        SelinuxRelabel, ChrootHook, ChrootedCallback, AfterHook, RunHook
  <2>2. CASE \/ SetGrubVariables \/ SetDefaultGrubEntry \/ CreateImage \/ FillImage \/ SquashImage
    BY <2>2
    DEF SetGrubVariables, SetDefaultGrubEntry, CreateImage, FillImage, SquashImage, ImgFails
  <2>3. CASE \/ Swap \/ Sync \/ PostHook \/ WriteStateYaml \/ WriteRecoveryYaml \/ JobUmount
             \/ JobRemountRO \/ JobRemove \/ JobCleanTree \/ CleanupDone \/ PowerAction
    BY <2>3
    DEF Swap, Sync, PostHook, RunHook, WriteStateYaml, WriteRecoveryYaml, WriteYaml, JobUmount,
        JobRemountRO, JobRevertMount, JobRemove, JobCleanTree, PopJob, CleanupDone, PowerAction,
        PoweredOff
  <2>4. CASE \/ Reboot \/ PowerLoss \/ \E s \in SystemSlot : Boot(s)
             \/ \E recovery \in BOOLEAN, sys, rec \in {"ext2", "squashfs"} :
                  StartUpgrade(recovery, sys, rec)
    BY <2>4 DEF Reboot, PowerLoss, PoweredOff, Boot, StartUpgrade
  <2> QED
    BY <2>1, <2>2, <2>3, <2>4 DEF Next, Step
<1> QED
  BY <1>1, <1>2, <1>3, <1>4, <1>5, <1>6, <1>7, <1>8

\* Absent images stay empty when the machine goes down and comes up.
LEMMA ContentPower ==
  ASSUME MachineTypes, NoFileNoContent,
         PowerAction \/ Reboot \/ PowerLoss \/ \E s \in SystemSlot : Boot(s)
  PROVE  NoFileNoContent'
<1>0. disk \in [Slot -> Image]
  BY Components
<1>1. CASE disk' = disk
  BY <1>1 DEF NoFileNoContent
<1>2. CASE disk' = Synced(disk)
  BY <1>0, <1>2, SyncKeepsFiles DEF NoFileNoContent
<1>3. CASE PowerLoss
  <2>1. PICK torn \in SUBSET {s \in Slot : disk[s].dirty} :
          disk' = Synced([s \in Slot |-> [disk[s] EXCEPT !.ok = @ /\ s \notin torn]])
    BY <1>3 DEF PowerLoss
  <2>2. ASSUME NEW s \in Slot PROVE disk'[s].fs = disk[s].fs /\ disk'[s].content = disk[s].content
    <3>1. disk'[s] = [[disk[s] EXCEPT !.ok = @ /\ s \notin torn] EXCEPT !.dirty = FALSE]
      BY <2>1, Zenon DEF Synced
    <3> QED
      BY <1>0, <3>1 DEF Image
  <2> QED
    BY <2>2 DEF NoFileNoContent
<1> QED
  BY <1>1, <1>2, <1>3 DEF PowerAction, Reboot, Boot

\* A reset makes images of its source and removes what it formats.
LEMMA ContentReset == MachineTypes /\ NoFileNoContent /\ ResetStep => NoFileNoContent'
<1> SUFFICES ASSUME MachineTypes, NoFileNoContent, ResetStep PROVE NoFileNoContent'
  OBVIOUS
<1>0. /\ disk \in [Slot -> Image] /\ "active" \in Slot /\ "passive" \in Slot /\ RunOK
      /\ NoFile.fs = "none" /\ NoFile.content = {}
  BY Components DEF Slot, NoFile, MachineTypes, ResetTypeOK
<1>1. CASE UNCHANGED disk
  BY <1>1 DEF NoFileNoContent
<1>2. CASE UnmountAll \/ JobUnmountAll
  <2>1. PICK stay : UnmountPartitions(stay)
    BY <1>2 DEF UnmountAll, JobUnmountAll
  <2>2. \A s \in Slot : disk'[s].fs = disk[s].fs /\ disk'[s].content = disk[s].content
    BY <1>0, <2>1 DEF UnmountPartitions, Image
  <2> QED
    BY <2>2 DEF NoFileNoContent
<1>3. CASE FormatState
  BY <1>0, <1>3 DEF FormatState, StateWiped, NoFileNoContent
<1>4. CASE CreateActive \/ FillActive \/ SquashActive
  <2>1. \/ disk' = disk
        \/ disk' = [disk EXCEPT !["active"] = NoFile]
        \/ \E content, ok : disk' = [disk EXCEPT !["active"] = NewFile(content, ok)]
    BY <1>4 DEF CreateActive, FillActive, SquashActive
  <2>2. \A content, ok : NewFile(content, ok).fs # "none"
    BY <1>0, NewFileThere
  <2> QED
    BY <1>0, <2>1, <2>2 DEF NoFileNoContent
<1>5. CASE CopyPassive
  <2>1. \/ disk' = disk
        \/ \E image : /\ disk' = [disk EXCEPT !["passive"] = image]
                      /\ image.fs = disk["active"].fs /\ image.content = disk["active"].content
    <3> DEFINE copy == [disk["active"] EXCEPT !.dirty = TRUE]
    <3>1. copy \in Image /\ copy.fs = disk["active"].fs /\ copy.content = disk["active"].content
      BY <1>0 DEF Image
    <3>2. /\ [copy EXCEPT !.label = CopiedLabel].fs = copy.fs
          /\ [copy EXCEPT !.label = CopiedLabel].content = copy.content
          /\ [copy EXCEPT !.ok = FALSE].fs = copy.fs
          /\ [copy EXCEPT !.ok = FALSE].content = copy.content
      BY <3>1 DEF Image
    <3>3. \/ disk' = disk
          \/ disk' = [disk EXCEPT !["passive"] = [copy EXCEPT !.label = CopiedLabel]]
          \/ disk' = [disk EXCEPT !["passive"] = [copy EXCEPT !.ok = FALSE]]
          \/ disk' = [disk EXCEPT !["passive"] = copy]
      BY <1>5 DEF CopyPassive
    <3> HIDE DEF copy
    <3> QED
      BY <3>1, <3>2, <3>3
  <2> QED
    BY <1>0, <2>1 DEF NoFileNoContent
<1>6. CASE PowerAction
  BY <1>6, ContentPower
<1>7. CASE \/ FormatData \/ MountAll \/ BeforeReset \/ DeployActive \/ DumpActive
           \/ DumpActiveFailed \/ InstallGrub \/ RelabelReset \/ ChrootReset \/ AfterReset
  BY <1>1, <1>7
  DEF FormatData, MountAll, BeforeReset, RunHook, DeployActive, DumpActive, DumpActiveFailed,
      InstallGrub, RelabelReset, ChrootReset, AfterReset
<1>8. CASE \/ SetResetVariables \/ ResetEntry \/ CleanActive \/ PostReset \/ MountRecoveryRW
           \/ WriteResetYaml \/ WriteResetRecoveryYaml \/ JobCleanActive
           \/ JobUmount \/ JobRemountRO \/ CleanupDone
  BY <1>1, <1>8
  DEF SetResetVariables, ResetEntry, RunHook, CleanActive, PostReset, MountRecoveryRW,
      WriteResetYaml, WriteResetRecoveryYaml, JobCleanActive, JobUmount, JobRemountRO,
      JobRevertMount, CleanupDone
<1> QED
  BY <1>2, <1>3, <1>4, <1>5, <1>6, <1>7, <1>8 DEF ResetStep

\* A reset records the source for both images, or what makes neither known.
LEMMA PairedReset == MachineTypes /\ PairedInv /\ ResetStep => PairedInv'
<1> SUFFICES ASSUME MachineTypes, PairedInv, ResetStep PROVE PairedInv'
  OBVIOUS
<1>1. loaded' = loaded /\ yaml \in [ImgPart -> InstallState]
  BY ResetStepKeeps, Components
<1>2. Paired(Defaults)
  BY DEF Paired, Defaults
<1>3. Paired(ResetState)
  BY DEF Paired, ResetState
<1>4. \A p \in ImgPart : \A file : Paired([yaml[p] EXCEPT !.file = file])
  BY <1>1 DEF Paired, PairedInv, InstallState
<1>5. \A p \in ImgPart : Paired(yaml'[p])
  <2> USE <1>1, <1>2, <1>3, <1>4 DEF PairedInv
  <2>1. CASE yaml' = yaml
    BY <2>1
  <2>2. CASE yaml' = [yaml EXCEPT !["state"] = Defaults]
    BY <2>2
  <2>3. CASE \E p \in ImgPart : yaml' = [yaml EXCEPT ![p] = ResetState]
    BY <2>3
  <2>4. CASE \E p \in ImgPart : \E file : yaml' = [yaml EXCEPT ![p] = [yaml[p] EXCEPT !.file = file]]
    BY <2>4
  <2> QED
    BY <2>1, <2>2, <2>3, <2>4, ResetWrites
<1> QED
  BY <1>1, <1>5 DEF PairedInv, Paired

\* What holds of an upgrade alone holds of an upgrade on this machine; between upgrades
\* no more is left of it than that absent images are empty and the records paired.
UpgradesInv ==
  /\ NoFileNoContent /\ PairedInv
  /\ cmd = "upgrade" => CleanInv /\ RotationReady /\ DeliverInv /\ RecordInv

\* A step of an upgrade, and of the machine while the last command was one.
LEMMA UpgradesGoOn ==
  ASSUME MachineTypes, UpgradesInv, cmd = "upgrade", [Next]_vars, UNCHANGED resetVars
  PROVE  UpgradesInv'
<1>1. TypeOK /\ CleanInv /\ RotationReady /\ DeliverInv /\ RecordInv /\ PairedInv
  BY DEF MachineTypes, UpgradesInv
<1>2. CleanInv'
  BY <1>1, CleanStep
<1>3. RotationReady'
  BY <1>1, ReadyStep
<1>4. DeliverInv'
  BY <1>1, DeliverStep
<1>5. RecordInv' /\ PairedInv'
  BY <1>1, RecordStep, PairedStep
<1>6. NoFileNoContent'
  BY <1>4 DEF DeliverInv
<1> QED
  BY <1>2, <1>3, <1>4, <1>5, <1>6 DEF UpgradesInv

\* An upgrade begins, whatever command was there before.
LEMMA UpgradesStart == UpgradesInv /\ CallUpgrade => UpgradesInv'
<1> SUFFICES ASSUME UpgradesInv, CallUpgrade PROVE UpgradesInv'
  OBVIOUS
<1>1. \E recovery \in BOOLEAN, sys, rec \in {"ext2", "squashfs"} : StartUpgrade(recovery, sys, rec)
  BY DEF CallUpgrade
<1>2. NoFileNoContent /\ PairedInv
  BY DEF UpgradesInv
<1>3. /\ pc' = "mountState" /\ loaded' = LoadedState /\ UNCHANGED <<disk, yaml>>
  BY <1>1 DEF StartUpgrade
<1>4. CleanInv' /\ DeliverInv' /\ RecordInv'
  BY <1>1, <1>2, CleanStart, DeliverStart, RecordStart
<1>5. RotationReady'
  BY <1>3 DEF RotationReady, ImageReady
<1>6. NoFileNoContent'
  BY <1>2, <1>3 DEF NoFileNoContent
<1>7. PairedInv'
  BY <1>2, <1>3, LoadedPaired DEF PairedInv, Paired
<1> QED
  BY <1>4, <1>5, <1>6, <1>7 DEF UpgradesInv

\* Every step of the machine.
LEMMA UpgradesStep == MachineTypes /\ UpgradesInv /\ [MachineNext]_allVars => UpgradesInv'
<1> SUFFICES ASSUME MachineTypes, UpgradesInv, [MachineNext]_allVars PROVE UpgradesInv'
  OBVIOUS
<1>0. NoFileNoContent /\ PairedInv
  BY DEF UpgradesInv
<1>1. CASE cmd = "upgrade" /\ (UpgradeStep \/ UNCHANGED allVars)
  BY <1>1, UpgradesGoOn DEF UpgradeStep, Next
<1>2. CASE cmd = "reset" /\ (ResetStep \/ UNCHANGED allVars)
  <2>1. cmd' = "reset"
    BY <1>2, ResetStepKeeps
  <2>2. NoFileNoContent' /\ PairedInv'
    <3>1. CASE ResetStep
      BY <1>0, <3>1, ContentReset, PairedReset
    <3>2. CASE UNCHANGED allVars
      BY <1>0, <3>2 DEF NoFileNoContent, PairedInv, Paired
    <3> QED
      BY <1>2, <3>1, <3>2
  <2> QED
    BY <2>1, <2>2 DEF UpgradesInv
<1>3. CASE CallUpgrade
  BY <1>3, UpgradesStart
<1>4. CASE CallReset
  <2>1. cmd' = "reset" /\ loaded' = LoadedState /\ UNCHANGED <<disk, yaml>>
    BY <1>4 DEF CallReset, StartReset
  <2>2. NoFileNoContent'
    BY <1>0, <2>1 DEF NoFileNoContent
  <2>3. PairedInv'
    BY <1>0, <2>1, LoadedPaired DEF PairedInv, Paired
  <2> QED
    BY <2>1, <2>2, <2>3 DEF UpgradesInv
<1>5. CASE (Reboot \/ PowerLoss \/ \E s \in SystemSlot : Boot(s)) /\ UNCHANGED resetVars
  <2>1. CASE cmd = "upgrade"
    BY <1>5, <2>1, UpgradesGoOn DEF Next
  <2>2. CASE cmd = "reset"
    <3>1. NoFileNoContent'
      BY <1>0, <1>5, ContentPower
    <3>2. cmd' = "reset" /\ UNCHANGED <<loaded, yaml>>
      BY <1>5, <2>2 DEF Reboot, PowerLoss, PoweredOff, Boot
    <3>3. PairedInv'
      BY <1>0, <3>2 DEF PairedInv, Paired
    <3> QED
      BY <3>1, <3>2, <3>3 DEF UpgradesInv
  <2> QED
    BY <2>1, <2>2 DEF MachineTypes, ResetTypeOK
<1>6. cmd \in {"upgrade", "reset"}
  BY DEF MachineTypes, ResetTypeOK
<1> QED
  BY <1>1, <1>2, <1>3, <1>4, <1>5, <1>6, MachineSteps

\* The machine starts installed.
LEMMA UpgradesInit == MachineInit => UpgradesInv
<1> SUFFICES ASSUME MachineInit PROVE UpgradesInv
  OBVIOUS
<1>1. Init
  BY DEF MachineInit
<1>2. CleanInv /\ DeliverInv /\ RecordInv /\ PairedInv
  BY <1>1, CleanInit, DeliverInit, RecordInit
<1>3. RotationReady
  BY <1>1, Zenon DEF Init, RotationReady, ImageReady
<1>4. NoFileNoContent
  BY <1>2 DEF DeliverInv
<1> QED
  BY <1>2, <1>3, <1>4 DEF UpgradesInv

\* An upgrade between resets that succeed, fail or are interrupted: it delivers the
\* requested source, records all images if it knew them, and leaves mounts and no
\* transition image behind as it should (upgrade.go, after reset.go).
THEOREM UpgradesDeliver ==
  MachineSpec => [](cmd = "upgrade" => DeliversRequestedImage /\ StateYamlAccurate /\ CleanedUp)
<1>1. MachineTypes /\ UpgradesInv
        => (cmd = "upgrade" => DeliversRequestedImage /\ StateYamlAccurate /\ CleanedUp)
  <2> SUFFICES ASSUME MachineTypes, UpgradesInv, cmd = "upgrade"
               PROVE  DeliversRequestedImage /\ StateYamlAccurate /\ CleanedUp
    OBVIOUS
  <2>1. TypeOK /\ CleanInv /\ DeliverInv /\ RecordInv
    BY DEF MachineTypes, UpgradesInv
  <2> QED
    BY <2>1, DeliverImplies, RecordImplies, CleanImplies
<1> QED
  BY <1>1, MachineTypeInit, MachineTypeStep, UpgradesInit, UpgradesStep, PTL DEF MachineSpec

\* From the GRUB environment to the images: a system upgrade sets the labels of its spec,
\* gives passive its label, then installs an image with that of active.
PassiveNamed == {"swap"} \cup Replaced
AfterGrub    == {"defaultEntry", "createImg", "fillImg", "cleanTree", "backup", "label"} \cup PassiveNamed
UpgradeLabels ==
  cmd = "upgrade" /\ ~spec.recovery /\ err = "none" =>
    /\ pc \in AfterGrub => grub = GrubLabels
    /\ pc \in PassiveNamed => disk["passive"].label = spec.passiveLabel
    /\ pc \in Replaced => disk["active"].label = spec.activeLabel
    /\ pc # "dumpFailed"
    /\ pc \in Running /\ start.trusted => loaded.recovery.src = disk["recovery"].content

\* Steps of a system upgrade that change neither the system images nor their labels.
LEMMA LabelsQuiet ==
  ASSUME UpgradeLabels, cmd = "upgrade", UNCHANGED <<grub, loaded, spec, start>>, SameImages,
         ~spec.recovery /\ err' = "none" =>
           /\ pc' \in Running => pc \in Running /\ err = "none"
           /\ pc' \in AfterGrub => pc \in AfterGrub
           /\ pc' \in PassiveNamed => pc \in PassiveNamed
           /\ pc' \in Replaced => pc \in Replaced
           /\ pc' # "dumpFailed"
  PROVE  UpgradeLabels'
<1>1. AfterGrub \subseteq Running
  BY DEF AfterGrub, PassiveNamed, Replaced, Settled, Running
<1>2. GrubLabels' = GrubLabels /\ AfterGrub' = AfterGrub
  BY DEF GrubLabels
<1>3. PassiveNamed \subseteq AfterGrub /\ Replaced \subseteq AfterGrub
  BY DEF AfterGrub, PassiveNamed
<1> QED
  BY <1>1, <1>2, <1>3 DEF UpgradeLabels, SameImages, SystemSlot

\* The stages of a run that end it, or that are none of a system upgrade's.
LEMMA LabelsIdle ==
  ASSUME \/ pc' \notin Running
         \/ pc' = "cleanup" /\ err' # "none"
         \/ cmd' # "upgrade"
  PROVE  UpgradeLabels'
<1>1. AfterGrub \subseteq Running /\ PassiveNamed \subseteq Running /\ Replaced \subseteq Running
      /\ "dumpFailed" \in Running
  BY DEF AfterGrub, PassiveNamed, Replaced, Settled, Running
<1> QED
  BY <1>1 DEF UpgradeLabels

\* A step of an upgrade keeps the labels.
LEMMA LabelsUpgrade ==
  MachineTypes /\ HistoryInv /\ UpgradeLabels /\ UpgradeStep => UpgradeLabels'
<1> SUFFICES ASSUME MachineTypes, HistoryInv, UpgradeLabels, UpgradeStep PROVE UpgradeLabels'
  OBVIOUS
<1>0. /\ cmd = "upgrade" /\ Step /\ TypeOK /\ disk \in [Slot -> Image]
      /\ disk' = disk => SameImages
  BY Components DEF UpgradeStep, MachineTypes, SameImages
<1> USE DEF AfterGrub, PassiveNamed, Replaced, Settled, Running
<1>1. CASE MountState \/ MountRecovery \/ MountPersistent
  BY <1>0, <1>1, LabelsQuiet DEF MountState, MountRecovery, MountPersistent
<1>2. CASE BeforeHook \/ AfterHook \/ PostHook
  BY <1>0, <1>2, LabelsQuiet DEF BeforeHook, AfterHook, PostHook, RunHook
<1>3. CASE BindTree \/ DumpSource
  BY <1>0, <1>3, LabelsQuiet DEF BindTree, DumpSource
<1>4. CASE DumpFailed
  BY <1>0, <1>4, LabelsQuiet DEF DumpFailed, UpgradeLabels
<1>5. CASE SelinuxRelabel \/ ChrootHook
  BY <1>0, <1>5, LabelsQuiet DEF SelinuxRelabel, ChrootHook, ChrootedCallback
<1>6. CASE SetGrubVariables
  <2>1. /\ pc = "grubVars" /\ UNCHANGED <<disk, spec, loaded, start>>
        /\ \/ grub' = GrubLabels /\ pc' \in {"createImg", "defaultEntry"} /\ err' = err
           \/ pc' = "cleanup" /\ err' # "none"
    BY <1>6 DEF SetGrubVariables
  <2>2. GrubLabels' = GrubLabels
    BY <2>1 DEF GrubLabels
  <2> QED
    BY <1>0, <2>1, <2>2, LabelsIdle DEF UpgradeLabels
<1>7. CASE SetDefaultGrubEntry
  BY <1>0, <1>7, LabelsQuiet DEF SetDefaultGrubEntry
<1>8. CASE CreateImage \/ FillImage \/ SquashImage
  <2>1. SameImages
    BY <1>0, <1>8, TransOnly
  <2> QED
    BY <1>0, <1>8, <2>1, LabelsQuiet DEF CreateImage, FillImage, SquashImage, ImgFails
<1>9. CASE CleanTree
  BY <1>0, <1>9, LabelsQuiet DEF CleanTree
<1>10. CASE Backup
  <2>1. /\ pc = "backup" /\ UNCHANGED <<grub, spec, loaded, start>>
        /\ \/ pc' = "label" /\ err' = err /\ disk' = Renamed("active", "passive")
           \/ pc' = "cleanup" /\ err' # "none"
    BY <1>10 DEF Backup
  <2>2. disk' = Renamed("active", "passive") => disk'["recovery"] = disk["recovery"]
    BY <1>0 DEF Renamed, Slot
  <2>3. GrubLabels' = GrubLabels
    BY <2>1 DEF GrubLabels
  <2> QED
    BY <1>0, <2>1, <2>2, <2>3, LabelsIdle DEF UpgradeLabels
<1>11. CASE LabelPassive
  <2>1. /\ pc = "label" /\ UNCHANGED <<grub, spec, loaded, start>>
        /\ \/ /\ pc' = "swap" /\ err' = err
              /\ disk' = Synced([disk EXCEPT !["passive"].label = spec.passiveLabel])
           \/ pc' = "cleanup" /\ err' # "none"
    BY <1>11 DEF LabelPassive
  <2>2. ASSUME disk' = Synced([disk EXCEPT !["passive"].label = spec.passiveLabel])
        PROVE  /\ disk'["passive"].label = spec.passiveLabel
               /\ disk'["recovery"].content = disk["recovery"].content
    <3> DEFINE d == [disk EXCEPT !["passive"].label = spec.passiveLabel]
    <3>1. d \in [Slot -> Image] /\ disk' = Synced(d)
      BY <1>0, <2>2, Relabelled
    <3>2. d["passive"].label = spec.passiveLabel /\ d["recovery"] = disk["recovery"]
      BY <1>0 DEF Slot, Image
    <3>3. "passive" \in Slot /\ "recovery" \in Slot
      BY DEF Slot
    <3> HIDE DEF d
    <3> QED
      BY <3>1, <3>2, <3>3, SyncKeepsFiles
  <2>3. GrubLabels' = GrubLabels
    BY <2>1 DEF GrubLabels
  <2> QED
    BY <1>0, <2>1, <2>2, <2>3, LabelsIdle DEF UpgradeLabels
<1>12. CASE Swap
  <2>1. /\ pc = "swap" /\ UNCHANGED <<grub, spec, loaded, start>>
        /\ \/ pc' = "sync" /\ err' = err /\ disk' = Renamed(TransSlot, FinalSlot)
           \/ pc' = "cleanup" /\ err' # "none"
    BY <1>12 DEF Swap
  <2>2. ASSUME ~spec.recovery, disk' = Renamed(TransSlot, FinalSlot)
        PROVE  /\ disk'["active"].label = spec.activeLabel /\ disk'["passive"] = disk["passive"]
               /\ disk'["recovery"] = disk["recovery"]
    <3>1. disk[TransSlot].label = spec.activeLabel
      BY <1>0, <2>1, <2>2 DEF HistoryInv, RecoveryTracked, ImageReady, ImageLabel
    <3> QED
      BY <1>0, <2>2, <3>1, SwapMoves DEF Slot
  <2>3. GrubLabels' = GrubLabels
    BY <2>1 DEF GrubLabels
  <2> QED
    BY <1>0, <2>1, <2>2, <2>3, LabelsIdle DEF UpgradeLabels
<1>13. CASE Sync
  <2>1. SameImages
    BY <1>0, <1>13, SyncKeepsFiles DEF Sync, SameImages, SystemSlot, Slot
  <2> QED
    BY <1>0, <1>13, <2>1, LabelsQuiet DEF Sync
<1>14. CASE WriteStateYaml \/ WriteRecoveryYaml
  BY <1>0, <1>14, LabelsQuiet DEF WriteStateYaml, WriteRecoveryYaml, WriteYaml
<1>15. CASE JobRemove
  <2>1. SameImages
    BY <1>0, <1>15, TransOnly
  <2> QED
    BY <1>0, <1>15, <2>1, LabelsQuiet DEF JobRemove, PopJob
<1>16. CASE JobUmount \/ JobRemountRO \/ JobCleanTree
  BY <1>0, <1>16, LabelsQuiet DEF JobUmount, JobRemountRO, JobRevertMount, JobCleanTree, PopJob
<1>17. CASE CleanupDone
  BY <1>0, <1>17, LabelsQuiet DEF CleanupDone
<1>18. CASE PowerAction
  BY <1>18, LabelsIdle DEF PowerAction, PoweredOff
<1> QED
  BY <1>0, <1>1, <1>2, <1>3, <1>4, <1>5, <1>6, <1>7, <1>8, <1>9, <1>10, <1>11, <1>12, <1>13, <1>14,
     <1>15, <1>16, <1>17, <1>18
  DEF Step

\* Every step of the machine.
LEMMA LabelsStep ==
  MachineTypes /\ HistoryInv /\ UpgradeLabels /\ [MachineNext]_allVars => UpgradeLabels'
<1> SUFFICES ASSUME MachineTypes, HistoryInv, UpgradeLabels, [MachineNext]_allVars
             PROVE  UpgradeLabels'
  OBVIOUS
<1>1. CASE UNCHANGED allVars
  BY <1>1 DEF UpgradeLabels, GrubLabels, AfterGrub, PassiveNamed, Replaced, Settled, Running
<1>2. CASE UpgradeStep
  BY <1>2, LabelsUpgrade
<1>3. CASE cmd = "reset" /\ ResetStep
  <2>1. cmd' # "upgrade"
    BY <1>3, ResetStepKeeps
  <2> QED
    BY <2>1, LabelsIdle
<1>4. CASE CallUpgrade
  <2>1. /\ pc' = "mountState" /\ loaded' = LoadedState /\ disk' = disk
        /\ start'.trusted = Accurate(LoadedState)
    BY <1>4 DEF CallUpgrade, StartUpgrade
  <2>2. start'.trusted => loaded'.recovery.src = disk'["recovery"].content
    BY <2>1 DEF Accurate
  <2>3. "mountState" \notin AfterGrub \cup PassiveNamed \cup Replaced
    BY DEF AfterGrub, PassiveNamed, Replaced, Settled
  <2> QED
    BY <2>1, <2>2, <2>3 DEF UpgradeLabels
<1>5. CASE CallReset
  BY <1>5, LabelsIdle DEF CallReset, StartReset
<1>6. CASE Reboot \/ PowerLoss \/ \E s \in SystemSlot : Boot(s)
  <2>1. pc' \notin Running
    BY <1>6 DEF Reboot, PowerLoss, PoweredOff, Boot, Running
  <2> QED
    BY <2>1, LabelsIdle
<1> QED
  BY <1>1, <1>2, <1>3, <1>4, <1>5, <1>6, MachineSteps

\* A system upgrade that reports success leaves every complete image bootable.
LEMMA LabelsImply ==
  ASSUME HistoryInv, UpgradeLabels, cmd = "upgrade", ~spec.recovery, pc = "power" => err = "none"
  PROVE  GrubMatchesImages
<1> SUFFICES ASSUME pc = "power", start.trusted, NEW s \in SystemSlot, disk[s].fs = "ext2"
             PROVE  disk[s].label = grub[s]
  BY DEF GrubMatchesImages, Bootable
<1>1. /\ grub = GrubLabels /\ disk["passive"].label = spec.passiveLabel
      /\ disk["active"].label = spec.activeLabel /\ loaded.recovery.src = disk["recovery"].content
  BY DEF UpgradeLabels, AfterGrub, PassiveNamed, Replaced, Settled, Running
<1>2. /\ GrubLabels["active"] = spec.activeLabel /\ GrubLabels["passive"] = spec.passiveLabel
      /\ GrubLabels["recovery"] = spec.recoveryLabel
  BY DEF GrubLabels, SystemSlot
<1>3. disk["recovery"].fs = "ext2" => disk["recovery"].label = spec.recoveryLabel
  BY <1>1, Zenon DEF HistoryInv, RecordsInv, RecordFine, SpecTracked
<1> QED
  BY <1>1, <1>2, <1>3 DEF SystemSlot

\* An upgrade keeps its promises on a machine where resets succeed, fail and are
\* interrupted (upgrade.go after reset.go): what it delivers, records, labels and cleans
\* up.  The configuration changes no recorded file system: GRUB would look for the label
\* of the recovery system that it plans, not for that of the image.
THEOREM UpgradesUnaffectedAll ==
  ASSUME FSOverride = FALSE
  PROVE  MachineSpec => []UpgradesUnaffected
<1>1. MachineTypes /\ UpgradesInv /\ HistoryInv /\ UpgradeLabels => UpgradesUnaffected
  <2> SUFFICES ASSUME MachineTypes, UpgradesInv, HistoryInv, UpgradeLabels, cmd = "upgrade"
               PROVE  /\ DeliversRequestedImage /\ StateYamlAccurate /\ CleanedUp
                      /\ spec.recovery \/ GrubMatchesImages
    BY DEF UpgradesUnaffected
  <2>1. TypeOK /\ CleanInv /\ DeliverInv /\ RecordInv
    BY DEF MachineTypes, UpgradesInv
  <2>2. DeliversRequestedImage /\ StateYamlAccurate /\ CleanedUp
    BY <2>1, DeliverImplies, RecordImplies, CleanImplies
  <2>3. pc = "power" => err = "none"
    BY <2>1 DEF CleanInv, TransitionTracked
  <2>4. CASE ~spec.recovery
    BY <2>2, <2>3, <2>4, LabelsImply
  <2> QED
    BY <2>2, <2>4
<1>2. MachineInit => UpgradeLabels
  BY Zenon DEF MachineInit, Init, UpgradeLabels, AfterGrub, PassiveNamed, Replaced, Settled, Running
<1> QED
  BY <1>1, <1>2, MachineTypeInit, MachineTypeStep, UpgradesInit, UpgradesStep, HistoryInit, HistoryStep,
     LabelsStep, PTL DEF MachineSpec
=============================================================================
