--------------------------- MODULE UpgradeProofs ----------------------------
(***************************************************************************)
(* Theorems about Upgrade, for any number of runs and faults and any       *)
(* configuration of file systems and partitions: the rotation and its      *)
(* refinement of ImageSlots, the mounts and files a run cleans up, the     *)
(* files of the host it must not delete, the image it delivers, and the    *)
(* state.yaml and GRUB labels that describe it.                            *)
(***************************************************************************)
EXTENDS UpgradeSlots, TLAPS, SequenceTheorems

USE DEF persistentVars, volatileVars, runVars, cmdVars, vars
USE DEF MountTree, Extract, DropTree, MakeImage, CopyTree, Squash, CleanThen, CleanTreeJob

\* An absent file is an image value.
LEMMA NoFileType == NoFile \in Image
BY UpgradeAssumption DEF Image, NoFile, Label

\* The installer's images are image values.
LEMMA InstalledType ==
  ASSUME NEW fs \in {"ext2", "squashfs"}, NEW label \in Label
  PROVE  Installed(fs, label, {0}) \in Image
<1>1. {0} \in SUBSET Version
  BY UpgradeAssumption DEF Version
<1>2. (IF fs = "squashfs" THEN "" ELSE label) \in Label
  BY Zenon DEF Label
<1> QED
  BY <1>1, <1>2, Zenon DEF Installed, Image

\* An image file that exists is recorded with its type.
LEMMA RecordedType ==
  ASSUME NEW image \in Image, image.fs # "none"
  PROVE  Recorded(image) \in Entry
BY DEF Recorded, Image, Entry

\* The machine starts with well typed state.
LEMMA TypeInit == Init => TypeOK
<1> SUFFICES ASSUME Init PROVE TypeOK
  OBVIOUS
<1> USE UpgradeAssumption
<1>1. PICK sys \in SystemFS, rec \in RecoveryFS : disk = InstalledDisk(sys, rec, {0})
  BY Zenon DEF Init
<1>2. disk \in [Slot -> Image] /\ \A s \in SystemSlot : disk[s].fs # "none"
  <2>1. /\ Installed(sys, "COS_ACTIVE", {0}) \in Image
        /\ Installed(sys, "COS_PASSIVE", {0}) \in Image
        /\ Installed(rec, "COS_SYSTEM", {0}) \in Image
    BY InstalledType, Zenon DEF Label
  <2>2. /\ Installed(sys, "COS_ACTIVE", {0}).fs # "none"
        /\ Installed(sys, "COS_PASSIVE", {0}).fs # "none"
        /\ Installed(rec, "COS_SYSTEM", {0}).fs # "none"
    BY DEF Installed
  <2> QED
    BY <1>1, <2>1, <2>2, NoFileType DEF InstalledDisk, Slot, SystemSlot
<1>3. \A s \in SystemSlot : Recorded(disk[s]) \in Entry
  BY <1>2, RecordedType DEF SystemSlot, Slot
<1>4. loaded \in InstallState
  <2>1. [Recorded(disk["passive"]) EXCEPT !.fs = "ext2"] \in Entry
    BY <1>3 DEF Entry, SystemSlot
  <2> QED
    BY <1>3, <2>1, Zenon DEF Init, RecordedState, InstallState, SystemSlot
<1>5. yaml \in [ImgPart -> InstallState]
  BY <1>4, Zenon DEF Init
<1>6. grub \in [SystemSlot -> Label]
  BY <1>2, Zenon DEF Init, SystemSlot, Slot, Image
<1>7. mnt \in [Part -> Mode] /\ booted \in SystemSlot
  BY Zenon DEF Init, BootMounts, Part, ImgPart, Mode
<1>8. start \in Start
  <2>1. 0 \in 0 .. MaxFaults /\ {} \in SUBSET Version
    BY DEF UpgradeAssumption
  <2> QED
    BY <1>7, <2>1, Zenon DEF Init, Start
<1>9. spec \in UpgradeSpec
  BY Zenon DEF Init, Label, UpgradeSpec
<1>10. tree \in [Slot -> SUBSET Version]
  BY Zenon DEF Init
<1>11. /\ lost = {} /\ loops = {} /\ work = <<>> /\ jobs = <<>>
       /\ pc = "ready" /\ err = "none" /\ cleanErr = FALSE /\ exit = 0
       /\ runs = 0 /\ faults = 0
  BY Zenon DEF Init
<1>12. work \in Seq(Bind) /\ jobs \in Seq(Job)
  BY <1>11
<1>13. runs \in Version /\ faults \in 0 .. MaxFaults /\ exit \in 0 .. 2
  BY <1>11 DEF Version
<1>14. err \in Error
  BY <1>11 DEF Error
<1> QED
  BY <1>2, <1>4, <1>5, <1>6, <1>7, <1>8, <1>9, <1>10, <1>11, <1>12, <1>13, <1>14
  DEF TypeOK, PersistentOK, VolatileOK, RunOK, CommandOK

\* Dropping the last element of a sequence keeps its type (the cleanup stack, the
\* stacked mounts).
LEMMA FrontType ==
  ASSUME NEW S, NEW s \in Seq(S)
  PROVE  SubSeq(s, 1, Len(s) - 1) \in Seq(S)
<1>1. \A i \in 1 .. Len(s) - 1 : s[i] \in S
  BY LenProperties
<1> QED
  BY <1>1, SubSeqProperties, LenProperties

\* Appending an element of its type to a sequence keeps the type.
LEMMA AppendType ==
  ASSUME NEW S, NEW s \in Seq(S), NEW e \in S
  PROVE  Append(s, e) \in Seq(S)
OBVIOUS

\* What a step leaves alone keeps its type.
LEMMA Frame ==
  ASSUME TypeOK
  PROVE  /\ UNCHANGED persistentVars => PersistentOK'
         /\ UNCHANGED volatileVars => VolatileOK'
         /\ UNCHANGED runVars => RunOK'
BY DEF TypeOK, PersistentOK, VolatileOK, RunOK

Stage == Running \cup {"ready", "exited", "off"}

\* The count of faults stays within its bound.
LEMMA FaultType ==
  ASSUME CommandOK, Succeeds \/ Fails
  PROVE  faults' \in 0 .. MaxFaults
BY UpgradeAssumption DEF CommandOK, Succeeds, Fails

\* Advancing with Goto or leaving with Abort keeps the control state typed.
LEMMA ControlType ==
  ASSUME CommandOK, NEW p \in Stage, NEW code \in Error,
         Succeeds \/ Fails, Goto(p) \/ Abort(code)
  PROVE  /\ pc' \in Stage /\ err' \in Error /\ exit' \in 0 .. 2
         /\ faults' \in 0 .. MaxFaults
BY FaultType DEF CommandOK, Goto, Abort, Stage, Running

\* Mounting the state partition keeps the types.
LEMMA MountStateType == TypeOK /\ MountState => TypeOK'
<1> SUFFICES ASSUME TypeOK, MountState PROVE TypeOK'
  OBVIOUS
<1>1. PersistentOK' /\ RunOK'
  BY Frame DEF MountState
<1>2. VolatileOK'
  BY DEF MountState, MountRWPartition, TypeOK, VolatileOK, Mode, Part, ImgPart
<1>3. Unmounter("state") \in Job
  BY DEF Unmounter, Job, Part, ImgPart
<1>4. jobs' \in Seq(Job)
  BY <1>3, AppendType DEF MountState, TypeOK, CommandOK
<1>5. CommandOK'
  BY <1>4, ControlType DEF MountState, TypeOK, CommandOK, Stage, Running, Error, ErrorCode
<1> QED
  BY <1>1, <1>2, <1>5 DEF TypeOK

\* Mounting the recovery partition keeps the types.
LEMMA MountRecoveryType == TypeOK /\ MountRecovery => TypeOK'
<1> SUFFICES ASSUME TypeOK, MountRecovery PROVE TypeOK'
  OBVIOUS
<1>1. PersistentOK' /\ RunOK'
  BY Frame DEF MountRecovery
<1>2. VolatileOK'
  BY DEF MountRecovery, MountRWPartition, TypeOK, VolatileOK, Mode, Part, ImgPart
<1>3. <<Unmounter("recovery"), [op |-> "remove", part |-> HomePart]>> \in Seq(Job)
  BY DEF Unmounter, HomePart, Job, Part, ImgPart
<1>4. jobs' \in Seq(Job)
  BY <1>3, ConcatProperties DEF MountRecovery, TypeOK, CommandOK
<1>5. CommandOK'
  BY <1>4, ControlType DEF MountRecovery, TypeOK, CommandOK, Stage, Running, Error, ErrorCode
<1> QED
  BY <1>1, <1>2, <1>5 DEF TypeOK

\* Mounting the persistent partition keeps the types.
LEMMA MountPersistentType == TypeOK /\ MountPersistent => TypeOK'
<1> SUFFICES ASSUME TypeOK, MountPersistent PROVE TypeOK'
  OBVIOUS
<1>1. PersistentOK' /\ RunOK'
  BY Frame DEF MountPersistent
<1>2. VolatileOK'
  BY DEF MountPersistent, MountRWPartition, TypeOK, VolatileOK, Mode, Part, ImgPart
<1>3. Unmounter("persistent") \in Job
  BY DEF Unmounter, Job, Part, ImgPart
<1>4. jobs' \in Seq(Job)
  BY <1>3, AppendType DEF MountPersistent, TypeOK, CommandOK
<1>5. CommandOK'
  BY <1>4, ControlType DEF MountPersistent, TypeOK, CommandOK, Stage, Running, Error, ErrorCode
<1> QED
  BY <1>1, <1>2, <1>5 DEF TypeOK

\* A hook keeps the types, whatever stage it leads to.
LEMMA HookType ==
  ASSUME TypeOK, NEW at, NEW p \in Stage, NEW code \in Error, RunHook(at, p, code)
  PROVE  TypeOK'
<1>1. PersistentOK' /\ VolatileOK' /\ RunOK'
  BY Frame DEF RunHook
<1>2. CommandOK'
  BY ControlType DEF RunHook, TypeOK, CommandOK, Stage
<1> QED
  BY <1>1, <1>2 DEF TypeOK

\* The three hooks keep the types.
LEMMA HooksType == TypeOK /\ (BeforeHook \/ AfterHook \/ PostHook) => TypeOK'
BY HookType DEF BeforeHook, AfterHook, PostHook, Stage, Running, Error, ErrorCode

\* The paths of a run are image files and its partition holds images.
LEMMA TransSlotType == TransSlot \in Slot /\ FinalSlot \in Slot /\ HomePart \in ImgPart
BY DEF TransSlot, FinalSlot, HomePart, Slot, ImgPart

\* TreeCleaner: the bind mounts it leaves, the trees it empties, what it deletes.
LEMMA TreeCleanerType ==
  ASSUME PersistentOK, VolatileOK, CommandOK, NEW slot \in Slot, TreeCleaner(slot)
  PROVE  /\ work' \in Seq(Bind)
         /\ tree' \in [Slot -> SUBSET Version]
         /\ lost' \subseteq {"dev", "oem", "persistent"}
         /\ faults' \in 0 .. MaxFaults
<1>1. work' \in Seq(Bind)
  BY FrontType DEF TreeCleaner, TreeUnmounts, RemovalFails, VolatileOK
<1>2. faults' \in 0 .. MaxFaults
  BY FaultType DEF TreeCleaner, TreeUnmounts, RemovalFails
<1>3. CASE work' = <<>>
  BY <1>1, <1>2, <1>3 DEF TreeCleaner, RemovalFails, RemoveTree, PersistentOK
<1>4. CASE work' # <<>>
  <2>1. work'[Len(work')] \in Bind
    BY <1>1, <1>4, LenProperties, ElementOfSeq, EmptySeq
  <2>2. work'[Len(work')].left \subseteq {"dev", "oem", "persistent"}
    BY <2>1 DEF Bind
  <2>3. tree' \in [Slot -> SUBSET Version]
    BY <1>4 DEF TreeCleaner, RemovalFails, PersistentOK
  <2>4. lost' \subseteq {"dev", "oem", "persistent"}
    BY <1>4, <2>2 DEF TreeCleaner, RemovalFails, PersistentOK
  <2> QED
    BY <1>1, <1>2, <2>3, <2>4
<1> QED
  BY <1>3, <1>4

\* DeployImgTree keeps the types up to the bind mount.
LEMMA BindTreeType == TypeOK /\ BindTree => TypeOK'
<1> SUFFICES ASSUME TypeOK, BindTree PROVE TypeOK'
  OBVIOUS
<1>1. TransSlot \in Slot
  BY TransSlotType
<1>2. [slot |-> TransSlot, left |-> {}] \in Bind
  BY <1>1 DEF Bind
<1>3. work' \in Seq(Bind)
  BY <1>2, AppendType DEF BindTree, TypeOK, VolatileOK
<1>4. work # <<>> => Top \in Bind
  BY LenProperties, ElementOfSeq, EmptySeq DEF TypeOK, VolatileOK, Top
<1>5. work # <<>> => Top.left \subseteq {"dev", "oem", "persistent"}
  BY <1>4 DEF Bind
<1>6. tree' \in [Slot -> SUBSET Version]
  BY DEF BindTree, RemoveTree, TypeOK, PersistentOK
<1>7. lost' \subseteq {"dev", "oem", "persistent"}
  BY <1>5 DEF BindTree, TypeOK, PersistentOK
<1>8. CommandOK'
  BY ControlType DEF BindTree, TypeOK, CommandOK, Stage, Running, Error, ErrorCode
<1>9. RunOK'
  BY Frame DEF BindTree
<1> QED
  BY <1>3, <1>6, <1>7, <1>8, <1>9 DEF BindTree, TypeOK, PersistentOK, VolatileOK

\* Extracting the source keeps the types.
LEMMA DumpSourceType == TypeOK /\ DumpSource => TypeOK'
<1> SUFFICES ASSUME TypeOK, DumpSource PROVE TypeOK'
  OBVIOUS
<1>1. HomePart \in ImgPart
  BY DEF HomePart, ImgPart
<1>2. [op |-> "cleanTree", part |-> HomePart] \in Job
  BY <1>1 DEF Job, Part
<1>3. jobs' \in Seq(Job)
  BY <1>2, AppendType DEF DumpSource, TypeOK, CommandOK
<1>4. tree' \in [Slot -> SUBSET Version]
  BY DEF DumpSource, TypeOK, PersistentOK, RunOK
<1>5. PersistentOK'
  BY <1>4 DEF DumpSource, TypeOK, PersistentOK
<1>6. VolatileOK' /\ RunOK'
  BY Frame DEF DumpSource
<1>7. CommandOK'
  BY <1>3, FaultType DEF DumpSource, Goto, TypeOK, CommandOK, Running, Error, ErrorCode
<1> QED
  BY <1>5, <1>6, <1>7 DEF TypeOK

\* The error path of DeployImgTree keeps the types.
LEMMA DumpFailedType == TypeOK /\ DumpFailed => TypeOK'
<1> SUFFICES ASSUME TypeOK, DumpFailed PROVE TypeOK'
  OBVIOUS
<1>1. PersistentOK' /\ VolatileOK'
  BY TreeCleanerType, TransSlotType DEF DumpFailed, TypeOK, PersistentOK, VolatileOK
<1>2. RunOK'
  BY Frame DEF DumpFailed
<1>3. CommandOK'
  BY TreeCleanerType, TransSlotType DEF DumpFailed, TypeOK, CommandOK, Running
<1> QED
  BY <1>1, <1>2, <1>3 DEF TypeOK

\* A chroot leaves bind mounts of the host's trees only.
LEMMA ChrootedCallbackType ==
  ASSUME VolatileOK, CommandOK, NEW p \in Stage, NEW code \in Error,
         ChrootedCallback(ChrootBinds, p, code)
  PROVE  work' \in Seq(Bind)
<1>1. CASE UNCHANGED work
  BY <1>1 DEF VolatileOK
<1>2. CASE \E left \in SUBSET ChrootBinds :
             work' = [work EXCEPT ![Len(work)].left = @ \cup left]
  <2>1. PICK left \in SUBSET ChrootBinds :
               work' = [work EXCEPT ![Len(work)].left = @ \cup left]
    BY <1>2
  <2>2. ChrootBinds \subseteq {"dev", "oem", "persistent"}
    BY DEF ChrootBinds
  <2>3. CASE work = <<>>
    <3>1. DOMAIN work = {}
      BY <2>3
    <3>2. work' = work
      BY <2>1, <2>3, <3>1, LenProperties DEF VolatileOK
    <3> QED
      BY <3>2 DEF VolatileOK
  <2>4. CASE work # <<>>
    <3> DEFINE bind == [work[Len(work)] EXCEPT !.left = @ \cup left]
    <3>1. Len(work) \in 1 .. Len(work) /\ work[Len(work)] \in Bind
      BY <2>4, LenProperties, ElementOfSeq, EmptySeq DEF VolatileOK
    <3>2. bind \in Bind
      BY <2>2, <3>1 DEF Bind
    <3>3. work' = [work EXCEPT ![Len(work)] = bind]
      BY <2>1
    <3> QED
      BY <3>1, <3>2, <3>3, ExceptSeq DEF VolatileOK
  <2> QED
    BY <2>3, <2>4
<1> QED
  BY <1>1, <1>2 DEF ChrootedCallback

\* The two chroots of a run keep the types.
LEMMA InChrootType == TypeOK /\ (SelinuxRelabel \/ ChrootHook) => TypeOK'
<1> SUFFICES ASSUME TypeOK, SelinuxRelabel \/ ChrootHook PROVE TypeOK'
  OBVIOUS
<1>1. PersistentOK' /\ RunOK'
  BY Frame DEF SelinuxRelabel, ChrootHook
<1>2. work' \in Seq(Bind)
  BY ChrootedCallbackType
  DEF SelinuxRelabel, ChrootHook, TypeOK, VolatileOK, Stage, Running, Error, ErrorCode
<1>3. VolatileOK'
  BY <1>2 DEF SelinuxRelabel, ChrootHook, TypeOK, VolatileOK
<1>4. CommandOK'
  BY ControlType
  DEF SelinuxRelabel, ChrootHook, ChrootedCallback, TypeOK, CommandOK, Stage, Running,
      Error, ErrorCode
<1> QED
  BY <1>1, <1>3, <1>4 DEF TypeOK

\* Writing the GRUB labels keeps the types.
LEMMA SetGrubVariablesType == TypeOK /\ SetGrubVariables => TypeOK'
<1> SUFFICES ASSUME TypeOK, SetGrubVariables PROVE TypeOK'
  OBVIOUS
<1>1. GrubLabels \in [SystemSlot -> Label]
  BY DEF GrubLabels, SystemSlot, TypeOK, RunOK, UpgradeSpec
<1>2. grub' \in [SystemSlot -> Label]
  BY <1>1 DEF SetGrubVariables, TypeOK, PersistentOK
<1>3. PersistentOK'
  BY <1>2 DEF SetGrubVariables, TypeOK, PersistentOK
<1>4. VolatileOK' /\ RunOK'
  BY Frame DEF SetGrubVariables
<1>5. CommandOK'
  BY ControlType DEF SetGrubVariables, TypeOK, CommandOK, Stage, Running, Error, ErrorCode
<1> QED
  BY <1>3, <1>4, <1>5 DEF TypeOK

\* Writing the default entry keeps the types.
LEMMA SetDefaultGrubEntryType == TypeOK /\ SetDefaultGrubEntry => TypeOK'
<1> SUFFICES ASSUME TypeOK, SetDefaultGrubEntry PROVE TypeOK'
  OBVIOUS
<1>1. PersistentOK' /\ VolatileOK' /\ RunOK'
  BY Frame DEF SetDefaultGrubEntry
<1>2. CommandOK'
  BY ControlType DEF SetDefaultGrubEntry, TypeOK, CommandOK, Stage, Running, Error, ErrorCode
<1> QED
  BY <1>1, <1>2 DEF TypeOK

\* The transition image a run writes is an image value.
LEMMA NewFileType ==
  ASSUME RunOK, NEW content \in SUBSET Version, NEW ok \in BOOLEAN
  PROVE  NewFile(content, ok) \in Image
<1>1. ImageFS \in {"ext2", "squashfs"} /\ ImageLabel \in Label
  BY DEF RunOK, UpgradeSpec, ImageFS, ImageLabel
<1> QED
  BY <1>1 DEF NewFile, Image

\* The steps that write image files leave everything else but the control alone.
LEMMA DiskStepType ==
  ASSUME TypeOK, disk' \in [Slot -> Image], UNCHANGED <<tree, yaml, grub, lost>>,
         UNCHANGED runVars
  PROVE  PersistentOK' /\ RunOK'
BY Frame DEF TypeOK, PersistentOK

\* Creating the image file keeps the types.
LEMMA CreateImageType == TypeOK /\ CreateImage => TypeOK'
<1> SUFFICES ASSUME TypeOK, CreateImage PROVE TypeOK'
  OBVIOUS
<1>1. NewFile({}, FALSE) \in Image
  BY NewFileType DEF TypeOK
<1>2. disk' \in [Slot -> Image]
  BY <1>1, NoFileType, TransSlotType DEF CreateImage, TypeOK, PersistentOK
<1>3. PersistentOK' /\ VolatileOK' /\ RunOK'
  BY <1>2, DiskStepType, Frame DEF CreateImage
<1>4. CommandOK'
  BY FaultType DEF CreateImage, Goto, ImgFails, TypeOK, CommandOK, Running, Error, ErrorCode
<1> QED
  BY <1>3, <1>4 DEF TypeOK

\* Copying the tree into the image keeps the types.
LEMMA FillImageType == TypeOK /\ FillImage => TypeOK'
<1> SUFFICES ASSUME TypeOK, FillImage PROVE TypeOK'
  OBVIOUS
<1>1. \A ok \in BOOLEAN : NewFile(tree[TransSlot], ok) \in Image
  BY NewFileType, TransSlotType DEF TypeOK, PersistentOK
<1>2. disk' \in [Slot -> Image]
  BY <1>1, TransSlotType DEF FillImage, TypeOK, PersistentOK
<1>3. PersistentOK' /\ RunOK'
  BY <1>2, DiskStepType DEF FillImage
<1>4. VolatileOK'
  BY TransSlotType DEF FillImage, TypeOK, VolatileOK
<1>5. CommandOK'
  BY FaultType DEF FillImage, Goto, ImgFails, TypeOK, CommandOK, Running, Error, ErrorCode
<1> QED
  BY <1>3, <1>4, <1>5 DEF TypeOK

\* mksquashfs keeps the types.
LEMMA SquashImageType == TypeOK /\ SquashImage => TypeOK'
<1> SUFFICES ASSUME TypeOK, SquashImage PROVE TypeOK'
  OBVIOUS
<1>1. \A ok \in BOOLEAN : NewFile(tree[TransSlot], ok) \in Image
  BY NewFileType, TransSlotType DEF TypeOK, PersistentOK
<1>2. NewFile(disk[TransSlot].content \cup tree[TransSlot], TRUE) \in Image
  <2>1. disk[TransSlot].content \cup tree[TransSlot] \in SUBSET Version
    BY TransSlotType DEF TypeOK, PersistentOK, Image
  <2> QED
    BY <2>1, NewFileType DEF TypeOK
<1>3. disk' \in [Slot -> Image]
  BY <1>1, <1>2, TransSlotType DEF SquashImage, TypeOK, PersistentOK
<1>4. PersistentOK' /\ VolatileOK' /\ RunOK'
  BY <1>3, DiskStepType, Frame DEF SquashImage
<1>5. CommandOK'
  BY FaultType DEF SquashImage, Goto, ImgFails, TypeOK, CommandOK, Running, Error, ErrorCode
<1> QED
  BY <1>4, <1>5 DEF TypeOK

\* Removing the scratch tree keeps the types.
LEMMA CleanTreeType == TypeOK /\ CleanTree => TypeOK'
<1> SUFFICES ASSUME TypeOK, CleanTree PROVE TypeOK'
  OBVIOUS
<1>1. PersistentOK' /\ VolatileOK'
  BY TreeCleanerType, TransSlotType DEF CleanTree, TypeOK, PersistentOK, VolatileOK
<1>2. RunOK'
  BY Frame DEF CleanTree
<1>3. CommandOK'
  BY TreeCleanerType, TransSlotType
  DEF CleanTree, Goto, Abort, TypeOK, CommandOK, Running, Error, ErrorCode
<1> QED
  BY <1>1, <1>2, <1>3 DEF TypeOK

\* A synchronised disk is a disk.
LEMMA SyncedType ==
  ASSUME NEW d \in [Slot -> Image]
  PROVE  Synced(d) \in [Slot -> Image]
BY DEF Synced, Image

\* The backup of active keeps the types.
LEMMA BackupType == TypeOK /\ Backup => TypeOK'
<1> SUFFICES ASSUME TypeOK, Backup PROVE TypeOK'
  OBVIOUS
<1>1. disk' \in [Slot -> Image]
  BY NoFileType DEF Backup, Renamed, Slot, TypeOK, PersistentOK
<1>2. PersistentOK' /\ VolatileOK' /\ RunOK'
  BY <1>1, DiskStepType, Frame DEF Backup
<1>3. CommandOK'
  BY ControlType DEF Backup, TypeOK, CommandOK, Stage, Running, Error, ErrorCode
<1> QED
  BY <1>2, <1>3 DEF TypeOK

\* Relabelling passive keeps the types.
LEMMA LabelPassiveType == TypeOK /\ LabelPassive => TypeOK'
<1> SUFFICES ASSUME TypeOK, LabelPassive PROVE TypeOK'
  OBVIOUS
<1>1. [disk EXCEPT !["passive"].label = spec.passiveLabel] \in [Slot -> Image]
  BY DEF TypeOK, PersistentOK, RunOK, UpgradeSpec, Image, Slot
<1>2. disk' \in [Slot -> Image]
  BY <1>1, SyncedType DEF LabelPassive, TypeOK, PersistentOK
<1>3. PersistentOK' /\ VolatileOK' /\ RunOK'
  BY <1>2, DiskStepType, Frame DEF LabelPassive
<1>4. CommandOK'
  BY ControlType DEF LabelPassive, TypeOK, CommandOK, Stage, Running, Error, ErrorCode
<1> QED
  BY <1>3, <1>4 DEF TypeOK

\* The rename of the transition image keeps the types.
LEMMA SwapType == TypeOK /\ Swap => TypeOK'
<1> SUFFICES ASSUME TypeOK, Swap PROVE TypeOK'
  OBVIOUS
<1>1. disk' \in [Slot -> Image]
  BY NoFileType, TransSlotType DEF Swap, Renamed, TypeOK, PersistentOK
<1>2. PersistentOK' /\ VolatileOK' /\ RunOK'
  BY <1>1, DiskStepType, Frame DEF Swap
<1>3. CommandOK'
  BY ControlType DEF Swap, TypeOK, CommandOK, Stage, Running, Error, ErrorCode
<1> QED
  BY <1>2, <1>3 DEF TypeOK

\* The sync keeps the types.
LEMMA SyncType == TypeOK /\ Sync => TypeOK'
<1> SUFFICES ASSUME TypeOK, Sync PROVE TypeOK'
  OBVIOUS
<1>1. disk' \in [Slot -> Image]
  BY SyncedType DEF Sync, TypeOK, PersistentOK
<1>2. PersistentOK' /\ VolatileOK' /\ RunOK'
  BY <1>1, DiskStepType, Frame DEF Sync
<1>3. CommandOK'
  BY DEF Sync, Goto, TypeOK, CommandOK, Running
<1> QED
  BY <1>2, <1>3 DEF TypeOK

\* The install state a run writes is well formed.
LEMMA NewInstallStateType ==
  ASSUME RunOK
  PROVE  NewInstallState \in InstallState
<1> DEFINE img == [src |-> {runs}, fs |-> ImageFS, label |-> ImageLabel]
           old == loaded.passive
           pas == IF old.src = {} THEN [old EXCEPT !.label = spec.passiveLabel] ELSE old
           former == [pas EXCEPT !.src = loaded.active.src, !.fs = loaded.active.fs]
           new == [loaded EXCEPT !.file = "whole"]
<1>1. img \in Entry
  BY DEF RunOK, UpgradeSpec, ImageFS, ImageLabel, Entry
<1>2. loaded.active \in Entry /\ old \in Entry
  BY DEF RunOK, InstallState
<1>3. pas \in Entry
  BY <1>2 DEF RunOK, UpgradeSpec, Entry
<1>4. former \in Entry
  BY <1>2, <1>3, Zenon DEF Entry
<1>5. new \in InstallState
  BY DEF RunOK, InstallState
<1>6. [new EXCEPT !.recovery = img, !.recoveryNull = FALSE] \in InstallState
  BY <1>1, <1>5 DEF InstallState
<1>7. \A e \in Entry : [new EXCEPT !.active = img, !.passive = e] \in InstallState
  BY <1>1, <1>5 DEF InstallState
<1>8. \/ NewInstallState = [new EXCEPT !.recovery = img, !.recoveryNull = FALSE]
      \/ NewInstallState = [new EXCEPT !.active = img, !.passive = pas]
      \/ NewInstallState = [new EXCEPT !.active = img, !.passive = former]
  BY DEF NewInstallState
<1> HIDE DEF img, pas, former, new
<1>9. /\ [new EXCEPT !.active = img, !.passive = pas] \in InstallState
      /\ [new EXCEPT !.active = img, !.passive = former] \in InstallState
  BY <1>3, <1>4, <1>7, Zenon
<1> QED
  BY <1>6, <1>8, <1>9

\* Writing one copy of state.yaml leaves two well formed copies.
LEMMA WriteYamlType ==
  ASSUME TypeOK, NEW p \in ImgPart, NEW next \in Stage, NEW code \in Error, WriteYaml(p, NewInstallState, next, code)
  PROVE  yaml' \in [ImgPart -> InstallState] /\ pc' \in Stage /\ err' \in Error
         /\ exit' \in 0 .. 2 /\ faults' \in 0 .. MaxFaults
<1>1. \A file \in {yaml[p].file, "broken", "empty"} :
        [yaml[p] EXCEPT !.file = file] \in InstallState
  BY DEF TypeOK, PersistentOK, InstallState
<1>2. \A file \in {yaml[p].file, "broken", "empty"} :
        [yaml EXCEPT ![p].file = file] \in [ImgPart -> InstallState]
  BY <1>1 DEF TypeOK, PersistentOK
<1>3. yaml' \in [ImgPart -> InstallState]
  BY <1>2, NewInstallStateType DEF WriteYaml, TypeOK, PersistentOK
<1> QED
  BY <1>3, ControlType DEF WriteYaml, TypeOK, Error, ErrorCode

\* Both writes of state.yaml keep the types.
LEMMA WriteInstallStateType == TypeOK /\ (WriteStateYaml \/ WriteRecoveryYaml) => TypeOK'
<1> SUFFICES ASSUME TypeOK, WriteStateYaml \/ WriteRecoveryYaml PROVE TypeOK'
  OBVIOUS
<1> DEFINE Typed == /\ yaml' \in [ImgPart -> InstallState] /\ pc' \in Stage
                    /\ err' \in Error /\ exit' \in 0 .. 2 /\ faults' \in 0 .. MaxFaults
<1>1. ASSUME NEW p \in ImgPart, NEW next \in Stage, NEW code \in Error, WriteYaml(p, NewInstallState, next, code)
      PROVE  Typed
  BY <1>1, WriteYamlType
<1>2. ASSUME Succeeds, Abort("panic"), UNCHANGED yaml
      PROVE  Typed
  <2>1. "cleanup" \in Stage /\ "panic" \in Error
    BY DEF Stage, Running, Error
  <2> QED
    BY <1>2, <2>1, FaultType DEF Abort, TypeOK, PersistentOK, CommandOK
<1>3. Typed
  <2>1. /\ {"recoveryYaml", "cleanup"} \subseteq Stage
        /\ {"state", "recovery"} \subseteq ImgPart /\ "state.yaml" \in Error
    BY DEF Stage, Running, ImgPart, Error
  <2> HIDE DEF Typed
  <2> QED
    BY <1>1, <1>2, <2>1 DEF WriteStateYaml, WriteRecoveryYaml
<1>4. PersistentOK'
  BY <1>3 DEF WriteStateYaml, WriteRecoveryYaml, TypeOK, PersistentOK
<1>5. VolatileOK' /\ RunOK'
  BY Frame DEF WriteStateYaml, WriteRecoveryYaml
<1>6. CommandOK'
  BY <1>3 DEF WriteStateYaml, WriteRecoveryYaml, TypeOK, CommandOK, Stage
<1> QED
  BY <1>4, <1>5, <1>6 DEF TypeOK

\* The cleanup stack holds jobs, so its last one is a job.
LEMMA PopJobType ==
  ASSUME TypeOK, NEW op, PopJob(op)
  PROVE  /\ LastJob \in Job
         /\ jobs' \in Seq(Job) /\ pc' \in Stage /\ err' \in Error /\ exit' \in 0 .. 2
BY FrontType, LenProperties, ElementOfSeq, EmptySeq
DEF PopJob, LastJob, TypeOK, CommandOK, Stage

\* Reverting a mount keeps the types.
LEMMA JobRevertMountType == TypeOK /\ (JobUmount \/ JobRemountRO) => TypeOK'
<1> SUFFICES ASSUME TypeOK, NEW op, NEW mode \in Mode, JobRevertMount(op, mode)
             PROVE  TypeOK'
  BY DEF JobUmount, JobRemountRO, Mode
<1>1. PersistentOK' /\ RunOK'
  BY Frame DEF JobRevertMount
<1>2. VolatileOK'
  BY PopJobType DEF JobRevertMount, Job, TypeOK, VolatileOK
<1>3. CommandOK'
  BY PopJobType, FaultType DEF JobRevertMount, TypeOK, CommandOK, Stage
<1> QED
  BY <1>1, <1>2, <1>3 DEF TypeOK

\* Removing the transition file keeps the types.
LEMMA JobRemoveType == TypeOK /\ JobRemove => TypeOK'
<1> SUFFICES ASSUME TypeOK, JobRemove PROVE TypeOK'
  OBVIOUS
<1>1. disk' \in [Slot -> Image]
  BY NoFileType DEF JobRemove, TypeOK, PersistentOK
<1>2. PersistentOK' /\ VolatileOK' /\ RunOK'
  BY <1>1, DiskStepType, Frame DEF JobRemove
<1>3. CommandOK'
  BY PopJobType, FaultType DEF JobRemove, TypeOK, CommandOK, Stage
<1> QED
  BY <1>2, <1>3 DEF TypeOK

\* The tree cleaner as a cleanup job keeps the types.
LEMMA JobCleanTreeType == TypeOK /\ JobCleanTree => TypeOK'
<1> SUFFICES ASSUME TypeOK, JobCleanTree PROVE TypeOK'
  OBVIOUS
<1>1. PersistentOK' /\ VolatileOK'
  BY TreeCleanerType, TransSlotType DEF JobCleanTree, TypeOK, PersistentOK, VolatileOK
<1>2. RunOK'
  BY Frame DEF JobCleanTree
<1>3. cleanErr' \in BOOLEAN
  BY DEF JobCleanTree, TypeOK, CommandOK
<1>4. CommandOK'
  BY <1>3, PopJobType, TreeCleanerType, TransSlotType DEF JobCleanTree, TypeOK, CommandOK, Stage
<1> QED
  BY <1>1, <1>2, <1>4 DEF TypeOK

\* The end of the cleanup keeps the types.
LEMMA CleanupDoneType == TypeOK /\ CleanupDone => TypeOK'
<1> SUFFICES ASSUME TypeOK, CleanupDone PROVE TypeOK'
  OBVIOUS
<1>1. PersistentOK' /\ VolatileOK' /\ RunOK'
  BY Frame DEF CleanupDone
<1>2. CommandOK'
  BY DEF CleanupDone, Goto, TypeOK, CommandOK, Running, Error, ErrorCode
<1> QED
  BY <1>1, <1>2 DEF TypeOK

\* A machine that goes down keeps the types if its image files do.
LEMMA PoweredOffType ==
  ASSUME TypeOK, PoweredOff, disk' \in [Slot -> Image], faults' \in 0 .. MaxFaults
  PROVE  TypeOK'
<1>1. PersistentOK' /\ RunOK'
  BY DiskStepType DEF PoweredOff
<1>2. VolatileOK'
  <2>1. <<>> \in Seq(Bind)
    OBVIOUS
  <2> QED
    BY <2>1 DEF PoweredOff, TypeOK, VolatileOK, Mode
<1>3. CommandOK'
  <2>1. /\ jobs' = <<>> /\ pc' = "off"
        /\ err' = "none" /\ cleanErr' = FALSE /\ exit' = 0
    BY DEF PoweredOff
  <2>2. jobs' \in Seq(Job)
    BY <2>1
  <2>3. pc' \in Running \cup {"ready", "exited", "off"}
    BY <2>1 DEF Running
  <2>4. err' \in Error /\ exit' \in 0 .. 2
    BY <2>1 DEF Error
  <2>5. faults' \in 0 .. MaxFaults
    OBVIOUS
  <2> QED
    BY <2>1, <2>2, <2>3, <2>4, <2>5 DEF CommandOK
<1> QED
  BY <1>1, <1>2, <1>3 DEF TypeOK

\* The power action keeps the types.
LEMMA PowerActionType == TypeOK /\ PowerAction => TypeOK'
<1> SUFFICES ASSUME TypeOK, PowerAction PROVE TypeOK'
  OBVIOUS
<1>1. faults' \in 0 .. MaxFaults
  BY FaultType DEF PowerAction, TypeOK
<1>2. CASE disk' = Synced(disk) /\ PoweredOff
  BY <1>1, <1>2, PoweredOffType, SyncedType DEF TypeOK, PersistentOK
<1>3. CASE pc' = "exited" /\ UNCHANGED <<persistentVars, volatileVars, runVars, cmdVars>>
  <2>1. PersistentOK' /\ VolatileOK' /\ RunOK'
    BY <1>3, Frame
  <2>2. CommandOK'
    BY <1>1, <1>3 DEF TypeOK, CommandOK
  <2> QED
    BY <2>1, <2>2 DEF TypeOK
<1>4. CASE /\ pc' = "exited" /\ err' = "Reboot" /\ exit' = 1
           /\ UNCHANGED <<persistentVars, volatileVars, runVars, jobs, cleanErr>>
  <2>1. PersistentOK' /\ VolatileOK' /\ RunOK'
    BY <1>4, Frame
  <2>2. CommandOK'
    BY <1>1, <1>4 DEF TypeOK, CommandOK, Error, ErrorCode
  <2> QED
    BY <2>1, <2>2 DEF TypeOK
<1> QED
  BY <1>2, <1>3, <1>4 DEF PowerAction

\* A reboot keeps the types.
LEMMA RebootType == TypeOK /\ Reboot => TypeOK'
BY PoweredOffType, SyncedType, FaultType DEF Reboot, TypeOK, PersistentOK

\* A power loss keeps the types.
LEMMA PowerLossType == TypeOK /\ PowerLoss => TypeOK'
<1> SUFFICES ASSUME TypeOK, PowerLoss PROVE TypeOK'
  OBVIOUS
<1>1. PICK torn \in SUBSET {s \in Slot : disk[s].dirty} :
        disk' = Synced([s \in Slot |-> [disk[s] EXCEPT !.ok = @ /\ s \notin torn]])
  BY DEF PowerLoss
<1>2. \A s \in Slot : [disk[s] EXCEPT !.ok = @ /\ s \notin torn] \in Image
  <2>1. ASSUME NEW image \in Image, NEW whole \in BOOLEAN
        PROVE  [image EXCEPT !.ok = whole] \in Image
    BY DEF Image
  <2> TAKE s \in Slot
  <2>2. disk[s] \in Image
    BY DEF TypeOK, PersistentOK
  <2>3. (disk[s].ok /\ s \notin torn) \in BOOLEAN
    OBVIOUS
  <2> QED
    BY <2>1, <2>2, <2>3
<1>3. disk' \in [Slot -> Image]
  BY <1>1, <1>2, SyncedType
<1> QED
  BY <1>3, PoweredOffType, FaultType DEF PowerLoss, TypeOK

\* Booting an image keeps the types.
LEMMA BootType == ASSUME TypeOK, NEW s \in SystemSlot, Boot(s) PROVE TypeOK'
<1>1. PersistentOK' /\ RunOK'
  BY Frame DEF Boot
<1>2. BootMounts(s) \in [Part -> Mode]
  BY DEF BootMounts, Part, ImgPart, Mode
<1>3. VolatileOK'
  BY <1>2 DEF Boot, TypeOK, VolatileOK
<1>4. CommandOK'
  BY DEF Boot, Goto, TypeOK, CommandOK
<1> QED
  BY <1>1, <1>3, <1>4 DEF TypeOK

\* The labels of a run are those of the install state it loads.
LEMMA StartUpgradeType ==
  ASSUME TypeOK, NEW recovery \in BOOLEAN, NEW sys \in {"ext2", "squashfs"},
         NEW rec \in {"ext2", "squashfs"}, StartUpgrade(recovery, sys, rec)
  PROVE  TypeOK'
<1>1. PersistentOK' /\ VolatileOK'
  BY Frame DEF StartUpgrade
<1>2. LoadedState \in InstallState
  <2>1. Defaults \in InstallState
    BY DEF Defaults, InstallState, Entry, Label
  <2>2. \A p \in ImgPart : yaml[p] \in InstallState
    BY DEF TypeOK, PersistentOK
  <2>3. \A file \in {"whole", "broken", "empty"} : [Defaults EXCEPT !.file = file] \in InstallState
    BY <2>1 DEF InstallState
  <2> QED
    BY <2>2, <2>3 DEF LoadedState, InstallState, ImgPart
<1>3. NewSpec(recovery, sys, rec) \in UpgradeSpec
  BY <1>2, Zenon DEF NewSpec, UpgradeSpec, InstallState, Entry, Label
<1>4. runs' \in Version
  BY UpgradeAssumption DEF StartUpgrade, TypeOK, RunOK, Version
<1>5. start' \in Start
  <2>1. \A trusted, fresh, able \in BOOLEAN :
          [mnt |-> mnt, active |-> disk["active"].content, faults |-> faults,
           trusted |-> trusted, fresh |-> fresh, able |-> able] \in Start
    BY DEF TypeOK, PersistentOK, VolatileOK, CommandOK, Start, Image, Slot
  <2>2. Accurate(LoadedState) \in BOOLEAN
    BY DEF Accurate
  <2> QED
    BY <2>1, <2>2, Zenon DEF StartUpgrade
<1>6. RunOK'
  BY <1>2, <1>3, <1>4, <1>5 DEF StartUpgrade, RunOK
<1>7. CommandOK'
  <2>1. /\ jobs' = <<>> /\ pc' = "mountState"
        /\ err' = "none" /\ cleanErr' = FALSE /\ exit' = 0
    BY DEF StartUpgrade
  <2>2. jobs' \in Seq(Job)
    BY <2>1
  <2>3. pc' \in Running \cup {"ready", "exited", "off"}
    BY <2>1 DEF Running
  <2>4. err' \in Error /\ exit' \in 0 .. 2
    BY <2>1 DEF Error
  <2>5. faults' \in 0 .. MaxFaults
    BY DEF StartUpgrade, TypeOK, CommandOK
  <2> QED
    BY <2>1, <2>2, <2>3, <2>4, <2>5 DEF CommandOK
<1> QED
  BY <1>1, <1>6, <1>7 DEF TypeOK

\* Every step of the machine keeps the types.
LEMMA TypeStep == TypeOK /\ [Next]_vars => TypeOK'
<1> SUFFICES ASSUME TypeOK, [Next]_vars PROVE TypeOK'
  OBVIOUS
<1>1. CASE Step
  BY <1>1, MountStateType, MountRecoveryType, MountPersistentType, HooksType,
     BindTreeType, DumpSourceType, DumpFailedType, InChrootType, SetGrubVariablesType,
     SetDefaultGrubEntryType, CreateImageType, FillImageType, SquashImageType,
     CleanTreeType, BackupType, LabelPassiveType, SwapType, SyncType,
     WriteInstallStateType, JobRevertMountType, JobRemoveType, JobCleanTreeType,
     CleanupDoneType, PowerActionType
  DEF Step
<1>2. CASE \E recovery \in BOOLEAN, sys, rec \in {"ext2", "squashfs"} :
             StartUpgrade(recovery, sys, rec)
  BY <1>2, StartUpgradeType
<1>3. CASE Reboot \/ PowerLoss
  BY <1>3, RebootType, PowerLossType
<1>4. CASE \E s \in SystemSlot : Boot(s)
  BY <1>4, BootType
<1>5. CASE UNCHANGED vars
  BY <1>5, Frame DEF TypeOK, CommandOK
<1> QED
  BY <1>1, <1>2, <1>3, <1>4, <1>5 DEF Next

\* Type correctness: in every run the state of the machine and of the command has
\* its type (the state that Run of upgrade.go reads and writes).
THEOREM TypeCorrect == Spec => []TypeOK
BY TypeInit, TypeStep, PTL DEF Spec
-----------------------------------------------------------------------------
(* The rotation of the images.                                             *)

\* On an installed machine both system images are complete and on the disk.
LEMMA RotationInit == Init => RotationSafe
<1> SUFFICES ASSUME Init PROVE RotationSafe
  OBVIOUS
<1>1. PICK sys \in SystemFS, rec \in RecoveryFS : disk = InstalledDisk(sys, rec, {0})
  BY Zenon DEF Init
<1>2. /\ disk["active"] = Installed(sys, "COS_ACTIVE", {0})
      /\ disk["passive"] = Installed(sys, "COS_PASSIVE", {0})
      /\ disk["recovery"] = Installed(rec, "COS_SYSTEM", {0})
  BY <1>1 DEF InstalledDisk, Slot
<1>3. ASSUME NEW fs \in {"ext2", "squashfs"}, NEW label
      PROVE  LET file == Installed(fs, label, {0}) IN file.fs # "none" /\ file.ok /\ ~file.dirty
  BY DEF Installed
<1>4. \A s \in SystemSlot : disk[s].fs # "none" /\ disk[s].ok /\ ~disk[s].dirty
  <2>1. sys \in {"ext2", "squashfs"} /\ rec \in {"ext2", "squashfs"}
    BY UpgradeAssumption
  <2>2. disk["active"].fs # "none" /\ disk["active"].ok /\ ~disk["active"].dirty
    BY <1>2, <1>3, <2>1
  <2>3. disk["passive"].fs # "none" /\ disk["passive"].ok /\ ~disk["passive"].dirty
    BY <1>2, <1>3, <2>1
  <2>4. disk["recovery"].fs # "none" /\ disk["recovery"].ok /\ ~disk["recovery"].dirty
    BY <1>2, <1>3, <2>1
  <2> QED
    BY <2>2, <2>3, <2>4 DEF SystemSlot
<1>5. pc = "ready"
  BY Zenon DEF Init
<1> QED
  BY <1>4, <1>5 DEF RotationSafe, SystemSlot

\* The stages between the image's creation and the end of the rotation.
Rotation == {"cleanTree", "backup", "label", "swap", "sync"}

\* Steps that neither touch an image file nor belong to the rotation.
LEMMA RotationQuiet ==
  ASSUME RotationSafe, UNCHANGED disk, pc # "sync", pc' \notin Rotation
  PROVE  RotationSafe'
BY DEF RotationSafe, Rotation

\* Steps that touch a transition image only, outside of the rotation.
LEMMA RotationTransition ==
  ASSUME RotationSafe, \A s \in SystemSlot : disk'[s] = disk[s],
         pc # "sync", pc' \notin {"backup", "label", "swap"}, pc' = "cleanTree" => err' # "none"
  PROVE  RotationSafe'
BY DEF RotationSafe, SystemSlot

\* A step that synchronises the disk outside of the rotation, or powers off.
LEMMA RotationSynced ==
  ASSUME RotationSafe, TypeOK, disk' = Synced(disk), pc' \notin {"cleanTree", "backup", "label", "swap"}
  PROVE  RotationSafe'
<1>1. ASSUME NEW image \in Image
      PROVE  LET clean == [image EXCEPT !.dirty = FALSE]
             IN  clean.fs = image.fs /\ clean.ok = image.ok /\ clean.dirty = FALSE
  BY DEF Image
<1>2. disk \in [Slot -> Image]
  BY DEF TypeOK, PersistentOK
<1>3. \A s \in Slot : disk'[s] = [disk[s] EXCEPT !.dirty = FALSE]
  BY DEF Synced
<1>4. \A s \in Slot : disk'[s].fs = disk[s].fs /\ disk'[s].ok = disk[s].ok /\ disk'[s].dirty = FALSE
  <2> TAKE s \in Slot
  <2>1. disk[s] \in Image
    BY <1>2
  <2> DEFINE clean == [disk[s] EXCEPT !.dirty = FALSE]
  <2>2. clean.fs = disk[s].fs /\ clean.ok = disk[s].ok /\ clean.dirty = FALSE
    BY <1>1, <2>1
  <2>3. disk'[s] = clean
    BY <1>3
  <2> HIDE DEF clean
  <2> QED
    BY <2>2, <2>3
<1>5. {"active", "passive", "recovery"} \subseteq Slot
  BY DEF Slot
<1> QED
  BY <1>4, <1>5 DEF RotationSafe

\* The transition image is none of the bootable ones.
LEMMA TransSlotOther == TransSlot \in Slot \ SystemSlot
BY DEF TransSlot, Slot, SystemSlot

\* The steps of a run before it writes the image.
LEMMA BeforeImageRotation ==
  RotationSafe /\ \/ MountState \/ MountRecovery \/ MountPersistent \/ BeforeHook
                  \/ AfterHook \/ BindTree \/ DumpSource \/ DumpFailed \/ SelinuxRelabel
                  \/ ChrootHook \/ SetGrubVariables \/ SetDefaultGrubEntry
  => RotationSafe'
<1> USE RotationQuiet DEF Goto, Abort, Rotation
<1>1. ASSUME RotationSafe, MountState \/ MountRecovery \/ MountPersistent PROVE RotationSafe'
  BY <1>1 DEF MountState, MountRecovery, MountPersistent
<1>2. ASSUME RotationSafe, BeforeHook \/ AfterHook PROVE RotationSafe'
  BY <1>2 DEF BeforeHook, AfterHook, RunHook
<1>3. ASSUME RotationSafe, BindTree \/ DumpSource \/ DumpFailed PROVE RotationSafe'
  BY <1>3 DEF BindTree, DumpSource, DumpFailed
<1>4. ASSUME RotationSafe, SelinuxRelabel \/ ChrootHook PROVE RotationSafe'
  BY <1>4 DEF SelinuxRelabel, ChrootHook, ChrootedCallback
<1>5. ASSUME RotationSafe, SetGrubVariables \/ SetDefaultGrubEntry PROVE RotationSafe'
  BY <1>5 DEF SetGrubVariables, SetDefaultGrubEntry
<1> QED
  BY <1>1, <1>2, <1>3, <1>4, <1>5

\* The steps of a run after the rotation, and its cleanup jobs but one.
LEMMA AfterImageRotation ==
  RotationSafe /\ \/ PostHook \/ WriteStateYaml \/ WriteRecoveryYaml
                  \/ JobUmount \/ JobRemountRO \/ JobCleanTree \/ CleanupDone
  => RotationSafe'
<1> USE RotationQuiet DEF Goto, Abort, Rotation
<1>1. ASSUME RotationSafe, PostHook \/ WriteStateYaml \/ WriteRecoveryYaml PROVE RotationSafe'
  BY <1>1 DEF PostHook, RunHook, WriteStateYaml, WriteRecoveryYaml, WriteYaml
<1>2. ASSUME RotationSafe, JobUmount \/ JobRemountRO \/ JobCleanTree PROVE RotationSafe'
  BY <1>2 DEF JobUmount, JobRemountRO, JobRevertMount, JobCleanTree, PopJob
<1>3. ASSUME RotationSafe, CleanupDone PROVE RotationSafe'
  BY <1>3 DEF CleanupDone
<1> QED
  BY <1>1, <1>2, <1>3

\* What a run writes is marked dirty and as complete as it says.
LEMMA NewFileFields ==
  ASSUME RunOK, NEW content \in SUBSET Version, NEW ok \in BOOLEAN
  PROVE  LET file == NewFile(content, ok)
         IN  file.fs # "none" /\ file.ok = ok /\ file.dirty = TRUE
BY DEF NewFile, RunOK, UpgradeSpec, ImageFS

\* Until the transition image is complete the run does not reach the rotation.
LEMMA CreateImageRotation == TypeOK /\ RotationSafe /\ CreateImage => RotationSafe'
<1> SUFFICES ASSUME TypeOK, RotationSafe, CreateImage PROVE RotationSafe'
  OBVIOUS
<1>1. \A s \in SystemSlot : disk'[s] = disk[s]
  BY TransSlotOther DEF CreateImage, TypeOK, PersistentOK, SystemSlot, Slot
<1>2. pc = "createImg" /\ (pc' = "fillImg" \/ (pc' = "cleanTree" /\ err' # "none"))
  BY DEF CreateImage, Goto, ImgFails
<1> QED
  BY <1>1, <1>2, RotationTransition

\* A complete transition image lets the run go on to the rotation.
LEMMA CompleteImageRotation ==
  ASSUME TypeOK, RotationSafe, pc # "sync", NEW content \in SUBSET Version,
         disk' = [disk EXCEPT ![TransSlot] = NewFile(content, TRUE)],
         pc' = "cleanTree", UNCHANGED spec
  PROVE  RotationSafe'
<1>1. \A s \in SystemSlot : disk'[s] = disk[s]
  BY TransSlotOther DEF TypeOK, PersistentOK, SystemSlot, Slot
<1>2. disk'[TransSlot'] = NewFile(content, TRUE)
  BY TransSlotOther DEF TypeOK, PersistentOK, TransSlot
<1>3. /\ disk'[TransSlot'].fs # "none" /\ disk'[TransSlot'].ok
      /\ disk'[TransSlot'].dirty
  BY <1>2, NewFileFields DEF TypeOK
<1> QED
  BY <1>1, <1>3 DEF RotationSafe, SystemSlot

\* The copy into the image succeeds only with a complete image.
LEMMA FillImageRotation == TypeOK /\ RotationSafe /\ FillImage => RotationSafe'
<1> SUFFICES ASSUME TypeOK, RotationSafe, FillImage PROVE RotationSafe'
  OBVIOUS
<1>0. tree[TransSlot] \in SUBSET Version
  BY TransSlotType DEF TypeOK, PersistentOK
<1>1. CASE Goto("cleanTree") /\ disk' = [disk EXCEPT ![TransSlot] = NewFile(tree[TransSlot], TRUE)]
  BY <1>0, <1>1, CompleteImageRotation DEF FillImage, Goto
<1>2. CASE ImgFails("cleanTree") /\ \E copied \in BOOLEAN :
             disk' = [disk EXCEPT ![TransSlot] = NewFile(tree[TransSlot], copied)]
  <2>1. \A s \in SystemSlot : disk'[s] = disk[s]
    BY <1>2, TransSlotOther DEF TypeOK, PersistentOK, SystemSlot, Slot
  <2> QED
    BY <1>2, <2>1, RotationTransition DEF FillImage, ImgFails
<1> QED
  BY <1>1, <1>2 DEF FillImage

\* mksquashfs succeeds only with a complete image.
LEMMA SquashImageRotation == TypeOK /\ RotationSafe /\ SquashImage => RotationSafe'
<1> SUFFICES ASSUME TypeOK, RotationSafe, SquashImage PROVE RotationSafe'
  OBVIOUS
<1>0. disk[TransSlot].content \cup tree[TransSlot] \in SUBSET Version
  BY TransSlotType DEF TypeOK, PersistentOK, Image
<1>1. CASE /\ Goto("cleanTree")
           /\ disk' = [disk EXCEPT ![TransSlot] =
                         NewFile(disk[TransSlot].content \cup tree[TransSlot], TRUE)]
  BY <1>0, <1>1, CompleteImageRotation DEF SquashImage, Goto
<1>2. CASE ImgFails("cleanTree") /\ disk' \in {disk, [disk EXCEPT ![TransSlot] = NewFile(tree[TransSlot], FALSE)]}
  <2>1. \A s \in SystemSlot : disk'[s] = disk[s]
    BY <1>2, TransSlotOther DEF TypeOK, PersistentOK, SystemSlot, Slot
  <2> QED
    BY <1>2, <2>1, RotationTransition DEF SquashImage, ImgFails
<1> QED
  BY <1>1, <1>2 DEF SquashImage

\* The scratch tree is removed between the image and the rotation.
LEMMA CleanTreeRotation == RotationSafe /\ CleanTree => RotationSafe'
<1> SUFFICES ASSUME RotationSafe, CleanTree PROVE RotationSafe'
  OBVIOUS
<1>1. disk' = disk /\ spec' = spec /\ pc = "cleanTree"
  BY DEF CleanTree
<1>2. \/ pc' = "cleanup"
      \/ err = "none" /\ pc' = "swap" /\ spec.recovery
      \/ err = "none" /\ pc' = "backup" /\ ~spec.recovery
  BY DEF CleanTree, Goto, Abort
<1> QED
  BY <1>1, <1>2 DEF RotationSafe, TransSlot

\* The backup moves a complete active image over passive.
LEMMA BackupRotation == TypeOK /\ RotationSafe /\ Backup => RotationSafe'
<1> SUFFICES ASSUME TypeOK, RotationSafe, Backup PROVE RotationSafe'
  OBVIOUS
<1>1. CASE Goto("label") /\ disk["active"].fs # "none" /\ disk' = Renamed("active", "passive")
  <2>1. /\ pc = "backup" /\ pc' = "label" /\ ~spec.recovery /\ ~spec'.recovery
        /\ TransSlot = "transState" /\ TransSlot' = "transState"
    BY <1>1 DEF Backup, Goto, RotationSafe, TransSlot
  <2>2. /\ disk'["passive"] = disk["active"] /\ disk'["active"] = NoFile
        /\ disk'["recovery"] = disk["recovery"] /\ disk'["transState"] = disk["transState"]
    BY <1>1 DEF Renamed, TypeOK, PersistentOK, Slot
  <2>3. NoFile.fs = "none"
    BY DEF NoFile
  <2> QED
    BY <1>1, <2>1, <2>2, <2>3 DEF RotationSafe
<1>2. CASE Abort("MoveFile") /\ UNCHANGED disk
  BY <1>2, RotationQuiet DEF Backup, Abort, Rotation
<1> QED
  BY <1>1, <1>2 DEF Backup

\* The sync after the relabelling puts the transition image on the disk.
LEMMA LabelPassiveRotation == TypeOK /\ RotationSafe /\ LabelPassive => RotationSafe'
<1> SUFFICES ASSUME TypeOK, RotationSafe, LabelPassive PROVE RotationSafe'
  OBVIOUS
<1>1. CASE Goto("swap") /\ disk' = Synced([disk EXCEPT !["passive"].label = spec.passiveLabel])
  <2>1. /\ pc = "label" /\ pc' = "swap" /\ ~spec.recovery /\ ~spec'.recovery
        /\ TransSlot = "transState" /\ TransSlot' = "transState"
    BY <1>1 DEF LabelPassive, Goto, RotationSafe, TransSlot
  <2>2. \A s \in Slot : /\ disk'[s].fs = disk[s].fs /\ disk'[s].ok = disk[s].ok
                        /\ disk'[s].dirty = FALSE
    BY <1>1 DEF Synced, TypeOK, PersistentOK, Image
  <2>3. {"active", "passive", "recovery", "transState"} \subseteq Slot
    BY DEF Slot
  <2>4. spec'.recovery = FALSE
    BY <2>1 DEF LabelPassive, TypeOK, RunOK, UpgradeSpec
  <2> QED
    BY <2>1, <2>2, <2>3, <2>4 DEF RotationSafe
<1>2. CASE Abort("LabelImage") /\ UNCHANGED disk
  BY <1>2, RotationQuiet DEF LabelPassive, Abort, Rotation
<1> QED
  BY <1>1, <1>2 DEF LabelPassive

\* The transition image that is renamed over active is complete and on the disk.
LEMMA SwapRotation == TypeOK /\ RotationSafe /\ Swap => RotationSafe'
<1> SUFFICES ASSUME TypeOK, RotationSafe, Swap PROVE RotationSafe'
  OBVIOUS
<1>1. CASE Goto("sync") /\ disk' = Renamed(TransSlot, FinalSlot)
  <2>1. disk'[FinalSlot] = disk[TransSlot]
    BY <1>1 DEF Renamed, FinalSlot, TransSlot, TypeOK, PersistentOK, Slot
  <2>2. \A s \in SystemSlot \ {FinalSlot} : disk'[s] = disk[s]
    BY <1>1, TransSlotOther DEF Renamed, TypeOK, PersistentOK, SystemSlot, Slot
  <2>3. CASE spec.recovery
    BY <1>1, <2>1, <2>2, <2>3 DEF Swap, Goto, RotationSafe, FinalSlot, SystemSlot
  <2>4. CASE ~spec.recovery
    BY <1>1, <2>1, <2>2, <2>4 DEF Swap, Goto, RotationSafe, FinalSlot, SystemSlot
  <2> QED
    BY <2>3, <2>4
<1>2. CASE Abort("MoveFile") /\ UNCHANGED disk
  BY <1>2, RotationQuiet DEF Swap, Abort, Rotation
<1> QED
  BY <1>1, <1>2 DEF Swap

\* The sync settles a replaced recovery image.
LEMMA SyncRotation == TypeOK /\ RotationSafe /\ Sync => RotationSafe'
BY RotationSynced DEF Sync, Goto

\* The cleanup removes a transition image only.
LEMMA JobRemoveRotation == TypeOK /\ RotationSafe /\ JobRemove => RotationSafe'
<1> SUFFICES ASSUME TypeOK, RotationSafe, JobRemove PROVE RotationSafe'
  OBVIOUS
<1>1. \A s \in SystemSlot : disk'[s] = disk[s]
  BY TransSlotOther DEF JobRemove, TypeOK, PersistentOK, SystemSlot, Slot
<1> QED
  BY <1>1, RotationTransition DEF JobRemove, PopJob

\* A power loss tears only what is dirty, no system image.
LEMMA PowerLossRotation == TypeOK /\ RotationSafe /\ PowerLoss => RotationSafe'
<1> SUFFICES ASSUME TypeOK, RotationSafe, PowerLoss PROVE RotationSafe'
  OBVIOUS
<1>1. PICK torn \in SUBSET {s \in Slot : disk[s].dirty} :
        disk' = Synced([s \in Slot |-> [disk[s] EXCEPT !.ok = @ /\ s \notin torn]])
  BY DEF PowerLoss
<1>2. ASSUME NEW s \in Slot
      PROVE  /\ disk'[s].fs = disk[s].fs /\ disk'[s].dirty = FALSE
             /\ ~disk[s].dirty => disk'[s].ok = disk[s].ok
  <2>1. disk'[s] = [[disk[s] EXCEPT !.ok = @ /\ s \notin torn] EXCEPT !.dirty = FALSE]
    BY <1>1, Zenon DEF Synced
  <2>2. disk[s] \in Image
    BY DEF TypeOK, PersistentOK
  <2>3. ~disk[s].dirty => s \notin torn
    OBVIOUS
  <2> QED
    BY <2>1, <2>2, <2>3 DEF Image
<1>3. {"active", "passive", "recovery"} \subseteq Slot
  BY DEF Slot
<1>4. pc' = "off"
  BY DEF PowerLoss, PoweredOff
<1> QED
  BY <1>2, <1>3, <1>4 DEF RotationSafe

\* Going down in order tears nothing.
LEMMA PowerRotation == TypeOK /\ RotationSafe /\ (PowerAction \/ Reboot) => RotationSafe'
<1> SUFFICES ASSUME TypeOK, RotationSafe, PowerAction \/ Reboot PROVE RotationSafe'
  OBVIOUS
<1>1. CASE disk' = Synced(disk) /\ pc' = "off"
  BY <1>1, RotationSynced
<1>2. CASE UNCHANGED disk /\ pc' = "exited" /\ pc = "power"
  BY <1>2, RotationQuiet DEF Rotation
<1> QED
  BY <1>1, <1>2 DEF PowerAction, Reboot, PoweredOff

\* Every step of the machine keeps the rotation safe.
LEMMA RotationStep == TypeOK /\ RotationSafe /\ [Next]_vars => RotationSafe'
<1> SUFFICES ASSUME TypeOK, RotationSafe, [Next]_vars PROVE RotationSafe'
  OBVIOUS
<1>1. CASE Step
  BY <1>1, BeforeImageRotation, AfterImageRotation, CreateImageRotation,
     FillImageRotation, SquashImageRotation, CleanTreeRotation, BackupRotation,
     LabelPassiveRotation, SwapRotation, SyncRotation, JobRemoveRotation, PowerRotation
  DEF Step
<1>2. CASE \E recovery \in BOOLEAN, sys, rec \in {"ext2", "squashfs"} :
             StartUpgrade(recovery, sys, rec)
  BY <1>2, RotationQuiet DEF StartUpgrade, Rotation
<1>3. CASE Reboot \/ PowerLoss
  BY <1>3, PowerRotation, PowerLossRotation
<1>4. CASE \E s \in SystemSlot : Boot(s)
  BY <1>4, RotationQuiet DEF Boot, Goto, Rotation
<1>5. CASE UNCHANGED vars
  BY <1>5 DEF RotationSafe, TransSlot
<1> QED
  BY <1>1, <1>2, <1>3, <1>4, <1>5 DEF Next

\* The inductive invariant behind the survival of the system images.
THEOREM RotationCorrect == Spec => []RotationSafe
<1>1. Init => TypeOK /\ RotationSafe
  BY TypeInit, RotationInit
<1>2. (TypeOK /\ RotationSafe) /\ [Next]_vars => (TypeOK /\ RotationSafe)'
  BY TypeStep, RotationStep
<1> QED
  BY <1>1, <1>2, PTL DEF Spec

\* Whatever fails, however often the machine loses power and however many
\* upgrades follow one another, there is an active or a passive image and neither
\* is ever a partly written one (the renames of Run and the sync between them).
THEOREM SystemSurvives == Spec => []SystemImageSurvives
<1>1. RotationSafe => SystemImageSurvives
  BY DEF RotationSafe, SystemImageSurvives
<1> QED
  BY <1>1, RotationCorrect, PTL
-----------------------------------------------------------------------------
(* The refinement of ImageSlots.                                           *)

\* A step that leaves the three images alone and does not take part in the
\* rotation is no step of ImageSlots.
LEMMA SlotsStutter ==
  ASSUME UNCHANGED slots, UNCHANGED pending, rotating = FALSE, rotating' = FALSE
  PROVE  [Slots!Next]_(Slots!vars)
BY Zenon DEF Slots!vars

\* Neither is one that changes no bootable image outside of the rotation.
LEMMA SlotsQuiet ==
  ASSUME \A s \in SystemSlot : disk'[s] = disk[s],
         pc \notin {"label", "swap"}, pc' \notin {"label", "swap"}
  PROVE  [Slots!Next]_(Slots!vars)
<1>1. slots' = slots /\ pending' = pending
  BY DEF slots, pending, SystemSlot
<1>2. rotating = FALSE /\ rotating' = FALSE
  BY DEF rotating
<1> QED
  BY <1>1, <1>2, SlotsStutter

\* A rotation that ends without a new active image.
LEMMA SlotsAbandon ==
  ASSUME \A s \in SystemSlot : Seen(disk'[s]) = Seen(disk[s]), UNCHANGED pending,
         pc' \notin {"label", "swap"}
  PROVE  [Slots!Next]_(Slots!vars)
<1>1. slots' = slots
  BY DEF slots
<1>2. rotating' = FALSE
  BY DEF rotating
<1>3. CASE rotating
  BY <1>1, <1>2, <1>3 DEF Slots!Next, Slots!Abandon
<1>4. CASE ~rotating
  <2>1. rotating = FALSE
    BY <1>4 DEF rotating
  <2> QED
    BY <1>1, <1>2, <2>1, SlotsStutter
<1> QED
  BY <1>3, <1>4

\* An installed machine has three complete images.
LEMMA SlotsInit == Init => Slots!Init
<1> SUFFICES ASSUME Init PROVE Slots!Init
  OBVIOUS
<1>1. PICK sys \in SystemFS, rec \in RecoveryFS : disk = InstalledDisk(sys, rec, {0})
  BY Zenon DEF Init
<1>2. ASSUME NEW fs \in {"ext2", "squashfs"}, NEW label
      PROVE  /\ Seen(Installed(fs, label, {0})) = Slots!Complete({0})
             /\ Installed(fs, label, {0}).dirty = FALSE
  BY DEF Installed, Seen, Slots!Complete
<1>3. sys \in {"ext2", "squashfs"} /\ rec \in {"ext2", "squashfs"}
  BY UpgradeAssumption
<1>4. /\ Seen(disk["active"]) = Slots!Complete({0})
      /\ Seen(disk["passive"]) = Slots!Complete({0})
      /\ Seen(disk["recovery"]) = Slots!Complete({0})
      /\ disk["recovery"].dirty = FALSE
  <2>1. /\ disk["active"] = Installed(sys, "COS_ACTIVE", {0})
        /\ disk["passive"] = Installed(sys, "COS_PASSIVE", {0})
        /\ disk["recovery"] = Installed(rec, "COS_SYSTEM", {0})
    BY <1>1 DEF InstalledDisk, Slot
  <2> QED
    BY <1>2, <1>3, <2>1
<1>5. {0} \in SUBSET Version
  BY UpgradeAssumption DEF Version
<1>6. slots \in [Slots!SystemSlot -> {Slots!Complete(c) : c \in SUBSET Version}]
  BY <1>4, <1>5 DEF slots, SystemSlot, Slots!SystemSlot
<1>7. rotating = FALSE
  BY Zenon DEF Init, rotating
<1> QED
  BY <1>4, <1>6, <1>7 DEF Slots!Init, pending

\* The backup is the rotation of ImageSlots, or fails and is nothing.
LEMMA BackupSlots == TypeOK /\ RotationSafe /\ Backup => [Slots!Next]_(Slots!vars)
<1> SUFFICES ASSUME TypeOK, RotationSafe, Backup PROVE [Slots!Next]_(Slots!vars)
  OBVIOUS
<1>1. CASE Goto("label") /\ disk["active"].fs # "none" /\ disk' = Renamed("active", "passive")
  <2>0. pc = "backup" /\ spec' = spec
    BY DEF Backup
  <2>1. pc' = "label" /\ ~spec.recovery /\ ~spec'.recovery
    BY <1>1, <2>0 DEF Goto, RotationSafe
  <2>2. /\ disk'["passive"] = disk["active"] /\ disk'["active"] = NoFile
        /\ disk'["recovery"] = disk["recovery"]
    BY <1>1 DEF Renamed, TypeOK, PersistentOK, Slot
  <2>3. Seen(NoFile) = NoFile
    BY DEF Seen, NoFile
  <2>4. slots' = [slots EXCEPT !["passive"] = slots["active"], !["active"] = NoFile]
    BY <2>2, <2>3 DEF slots, SystemSlot
  <2>5. slots["active"] # NoFile
    <3>1. slots["active"] = [content |-> disk["active"].content, ok |-> disk["active"].ok]
      BY <1>1 DEF slots, Seen, SystemSlot
    <3>2. DOMAIN slots["active"] = {"content", "ok"}
      BY <3>1
    <3>3. DOMAIN NoFile = {"fs", "content", "label", "ok", "dirty"}
      BY DEF NoFile
    <3> QED
      BY <3>2, <3>3
  <2>6. ~rotating /\ rotating' = TRUE /\ pending' = pending
    BY <2>0, <2>1, <2>2 DEF rotating, pending
  <2> QED
    BY <2>4, <2>5, <2>6 DEF Slots!Next, Slots!Rotate
<1>2. CASE Abort("MoveFile") /\ UNCHANGED disk
  BY <1>2, SlotsQuiet DEF Backup, Abort
<1> QED
  BY <1>1, <1>2 DEF Backup

\* Relabelling is invisible; when it fails the rotation is abandoned.
LEMMA LabelPassiveSlots == TypeOK /\ RotationSafe /\ LabelPassive => [Slots!Next]_(Slots!vars)
<1> SUFFICES ASSUME TypeOK, RotationSafe, LabelPassive PROVE [Slots!Next]_(Slots!vars)
  OBVIOUS
<1>0. pending = FALSE
  BY DEF LabelPassive, RotationSafe, pending, TypeOK, PersistentOK, Image, Slot
<1>1. CASE Goto("swap") /\ disk' = Synced([disk EXCEPT !["passive"].label = spec.passiveLabel])
  <2>1. \A s \in Slot : /\ disk'[s].fs = disk[s].fs /\ disk'[s].ok = disk[s].ok
                        /\ disk'[s].content = disk[s].content /\ disk'[s].dirty = FALSE
    BY <1>1 DEF Synced, TypeOK, PersistentOK, Image
  <2>2. slots' = slots
    BY <2>1 DEF slots, Seen, SystemSlot, Slot
  <2>3. pending' = FALSE
    BY <2>1 DEF pending, Slot
  <2>4. rotating' = rotating
    <3>1. pc = "label" /\ spec' = spec
      BY DEF LabelPassive
    <3>2. pc' = "swap"
      BY <1>1 DEF Goto
    <3> QED
      BY <3>1, <3>2 DEF rotating
  <2> QED
    BY <1>0, <2>2, <2>3, <2>4, Zenon DEF Slots!vars
<1>2. CASE Abort("LabelImage") /\ UNCHANGED disk
  BY <1>2, SlotsAbandon DEF Abort, pending
<1> QED
  BY <1>1, <1>2 DEF LabelPassive

\* The last rename installs a complete image, in active or in recovery.
LEMMA SwapSlots == TypeOK /\ RotationSafe /\ Swap => [Slots!Next]_(Slots!vars)
<1> SUFFICES ASSUME TypeOK, RotationSafe, Swap PROVE [Slots!Next]_(Slots!vars)
  OBVIOUS
<1>1. CASE Goto("sync") /\ disk' = Renamed(TransSlot, FinalSlot)
  <2> DEFINE c == disk[TransSlot].content
  <2>1. c \in SUBSET Version
    BY TransSlotType DEF TypeOK, PersistentOK, Image
  <2>2. disk'[FinalSlot] = disk[TransSlot]
    BY <1>1 DEF Renamed, FinalSlot, TransSlot, TypeOK, PersistentOK, Slot
  <2>3. \A s \in SystemSlot \ {FinalSlot} : disk'[s] = disk[s]
    BY <1>1, TransSlotOther DEF Renamed, TypeOK, PersistentOK, SystemSlot, Slot
  <2>4. disk[TransSlot].fs # "none" /\ disk[TransSlot].ok = TRUE
    BY TransSlotType DEF Swap, RotationSafe, TypeOK, PersistentOK, Image
  <2>5. Seen(disk'[FinalSlot]) = Slots!Complete(c)
    BY <2>2, <2>4 DEF Seen, Slots!Complete
  <2>6. FinalSlot \in SystemSlot
    BY DEF FinalSlot, SystemSlot
  <2>7. slots' = [slots EXCEPT ![FinalSlot] = Slots!Complete(c)]
    BY <2>3, <2>5, <2>6 DEF slots
  <2>8. rotating' = FALSE
    BY <1>1 DEF Goto, rotating
  <2>9. CASE spec.recovery
    <3>1. FinalSlot = "recovery" /\ ~rotating /\ rotating' = rotating
      BY <2>8, <2>9 DEF FinalSlot, rotating
    <3>2. pending' = TRUE
      BY <2>2, <2>9, <3>1 DEF pending, Swap, RotationSafe, TypeOK, RunOK, UpgradeSpec
    <3> QED
      BY <2>1, <2>7, <3>1, <3>2 DEF Slots!Next, Slots!ReplaceRecovery
  <2>10. CASE ~spec.recovery
    <3>1. FinalSlot = "active" /\ rotating
      BY <2>10 DEF FinalSlot, rotating, Swap
    <3>2. pending' = pending
      BY <2>3, <3>1 DEF pending, SystemSlot
    <3> QED
      BY <2>1, <2>7, <2>8, <3>1, <3>2 DEF Slots!Next, Slots!Install
  <2> QED
    BY <2>9, <2>10
<1>2. CASE Abort("MoveFile") /\ UNCHANGED disk
  BY <1>2, SlotsAbandon DEF Abort, pending
<1> QED
  BY <1>1, <1>2 DEF Swap

\* A synchronisation of the disk settles a replaced recovery image.
LEMMA SyncedSlots ==
  ASSUME TypeOK, RotationSafe, disk' = Synced(disk), pc' \notin {"label", "swap"},
         pc \notin {"label", "swap"}
  PROVE  [Slots!Next]_(Slots!vars)
<1>1. \A s \in Slot : /\ disk'[s].fs = disk[s].fs /\ disk'[s].ok = disk[s].ok
                      /\ disk'[s].content = disk[s].content /\ disk'[s].dirty = FALSE
  BY DEF Synced, TypeOK, PersistentOK, Image
<1>2. slots' = slots
  BY <1>1 DEF slots, Seen, SystemSlot, Slot
<1>3. pending' = FALSE /\ pending \in BOOLEAN
  BY <1>1 DEF pending, TypeOK, PersistentOK, Image, Slot
<1>4. rotating = FALSE /\ rotating' = FALSE
  BY DEF rotating
<1>5. CASE pending
  BY <1>2, <1>3, <1>4, <1>5 DEF Slots!Next, Slots!Settle
<1>6. CASE ~pending
  BY <1>2, <1>3, <1>4, <1>6, SlotsStutter
<1> QED
  BY <1>5, <1>6

\* A power loss damages at most an unsynced recovery image.
LEMMA PowerLossSlots == TypeOK /\ RotationSafe /\ PowerLoss => [Slots!Next]_(Slots!vars)
<1> SUFFICES ASSUME TypeOK, RotationSafe, PowerLoss PROVE [Slots!Next]_(Slots!vars)
  OBVIOUS
<1>1. PICK torn \in SUBSET {s \in Slot : disk[s].dirty} :
        disk' = Synced([s \in Slot |-> [disk[s] EXCEPT !.ok = @ /\ s \notin torn]])
  BY DEF PowerLoss
<1>2. ASSUME NEW s \in Slot
      PROVE  /\ disk'[s].fs = disk[s].fs /\ disk'[s].content = disk[s].content
             /\ disk'[s].dirty = FALSE
             /\ s \notin torn => disk'[s].ok = disk[s].ok
             /\ s \in torn => disk'[s].ok = FALSE
  <2>1. disk'[s] = [[disk[s] EXCEPT !.ok = @ /\ s \notin torn] EXCEPT !.dirty = FALSE]
    BY <1>1, Zenon DEF Synced
  <2>2. disk[s] \in Image
    BY DEF TypeOK, PersistentOK
  <2> QED
    BY <2>1, <2>2 DEF Image
<1>3. {"active", "passive", "recovery"} \subseteq Slot
  BY DEF Slot
<1>4. pc' = "off" /\ rotating' = FALSE
  BY DEF PowerLoss, PoweredOff, rotating
<1>5. pending' = FALSE /\ pending \in BOOLEAN
  BY <1>2, <1>3 DEF pending, TypeOK, PersistentOK, Image
<1>6. \A s \in {"active", "passive"} : Seen(disk'[s]) = Seen(disk[s])
  <2>1. \A s \in {"active", "passive"} : s \in torn => disk[s].fs = "none"
    BY DEF RotationSafe
  <2> QED
    BY <1>2, <1>3, <2>1 DEF Seen
<1>7. CASE "recovery" \in torn /\ disk["recovery"].fs # "none"
  <2>1. pending = TRUE /\ rotating = FALSE
    BY <1>5, <1>7 DEF pending, RotationSafe, rotating
  <2>2. Seen(disk'["recovery"]) = Slots!Torn(Seen(disk["recovery"]))
    BY <1>2, <1>3, <1>7 DEF Seen, Slots!Torn
  <2>3. slots' = [slots EXCEPT !["recovery"] = Slots!Torn(slots["recovery"])]
    BY <1>6, <2>2 DEF slots, SystemSlot
  <2> QED
    BY <1>4, <1>5, <2>1, <2>3 DEF Slots!Next, Slots!Damage
<1>8. CASE "recovery" \notin torn \/ disk["recovery"].fs = "none"
  <2>1. \A s \in SystemSlot : Seen(disk'[s]) = Seen(disk[s])
    BY <1>2, <1>3, <1>6, <1>8 DEF Seen, SystemSlot
  <2>2. CASE pending = FALSE
    BY <1>4, <1>5, <2>1, <2>2, SlotsAbandon
  <2>3. CASE pending = TRUE
    <3>1. rotating = FALSE
      BY <2>3 DEF pending, RotationSafe, rotating
    <3>2. slots' = slots
      BY <2>1 DEF slots
    <3> QED
      BY <1>4, <1>5, <2>3, <3>1, <3>2 DEF Slots!Next, Slots!Settle
  <2> QED
    BY <1>5, <2>2, <2>3
<1> QED
  BY <1>7, <1>8

\* The transition image is written and removed apart from the bootable images.
LEMMA SystemSlotsKept ==
  TypeOK /\ (CreateImage \/ FillImage \/ SquashImage \/ JobRemove)
    => \A s \in SystemSlot : disk'[s] = disk[s]
BY TransSlotOther
DEF CreateImage, FillImage, SquashImage, JobRemove, TypeOK, PersistentOK, SystemSlot, Slot

\* The stages a step leads from and to, for the steps that do not rotate images.
LEMMA TransitionSlots ==
  TypeOK /\ (CreateImage \/ FillImage \/ SquashImage \/ JobRemove)
    => [Slots!Next]_(Slots!vars)
<1>1. CreateImage \/ SquashImage \/ FillImage \/ JobRemove
        => pc \notin {"label", "swap"} /\ pc' \notin {"label", "swap"}
  BY DEF CreateImage, SquashImage, FillImage, JobRemove, PopJob, Goto, ImgFails
<1> QED
  BY <1>1, SystemSlotsKept, SlotsQuiet

\* A step that touches no image file and is no part of the rotation.
LEMMA OtherSlots ==
  ASSUME UNCHANGED disk, pc \notin {"label", "swap"}, pc' \notin {"label", "swap"}
  PROVE  [Slots!Next]_(Slots!vars)
BY SlotsQuiet

\* The steps before the image is written are invisible.
LEMMA BeforeImageSlots ==
  \/ MountState \/ MountRecovery \/ MountPersistent \/ BeforeHook
  \/ AfterHook \/ BindTree \/ DumpSource \/ DumpFailed \/ SelinuxRelabel
  \/ ChrootHook \/ SetGrubVariables \/ SetDefaultGrubEntry
  => [Slots!Next]_(Slots!vars)
<1> USE OtherSlots DEF Goto, Abort
<1>1. ASSUME MountState \/ MountRecovery \/ MountPersistent PROVE [Slots!Next]_(Slots!vars)
  BY <1>1 DEF MountState, MountRecovery, MountPersistent
<1>2. ASSUME BeforeHook \/ AfterHook PROVE [Slots!Next]_(Slots!vars)
  BY <1>2 DEF BeforeHook, AfterHook, RunHook
<1>3. ASSUME BindTree \/ DumpSource \/ DumpFailed PROVE [Slots!Next]_(Slots!vars)
  BY <1>3 DEF BindTree, DumpSource, DumpFailed
<1>4. ASSUME SelinuxRelabel \/ ChrootHook PROVE [Slots!Next]_(Slots!vars)
  BY <1>4 DEF SelinuxRelabel, ChrootHook, ChrootedCallback
<1>5. ASSUME SetGrubVariables \/ SetDefaultGrubEntry PROVE [Slots!Next]_(Slots!vars)
  BY <1>5 DEF SetGrubVariables, SetDefaultGrubEntry
<1> QED
  BY <1>1, <1>2, <1>3, <1>4, <1>5

\* So are the steps after the rotation.
LEMMA AfterImageSlots ==
  \/ PostHook \/ WriteStateYaml \/ WriteRecoveryYaml
  \/ JobUmount \/ JobRemountRO \/ JobCleanTree \/ CleanupDone
  => [Slots!Next]_(Slots!vars)
<1> USE OtherSlots DEF Goto, Abort
<1>1. ASSUME PostHook \/ WriteStateYaml \/ WriteRecoveryYaml PROVE [Slots!Next]_(Slots!vars)
  BY <1>1 DEF PostHook, RunHook, WriteStateYaml, WriteRecoveryYaml, WriteYaml
<1>2. ASSUME JobUmount \/ JobRemountRO \/ JobCleanTree PROVE [Slots!Next]_(Slots!vars)
  BY <1>2 DEF JobUmount, JobRemountRO, JobRevertMount, JobCleanTree, PopJob
<1>3. ASSUME CleanupDone PROVE [Slots!Next]_(Slots!vars)
  BY <1>3 DEF CleanupDone
<1> QED
  BY <1>1, <1>2, <1>3

\* Removing the scratch tree ends a recovery upgrade's way to the swap, which is
\* no rotation.
LEMMA CleanTreeSlots == RotationSafe /\ CleanTree => [Slots!Next]_(Slots!vars)
<1> SUFFICES ASSUME RotationSafe, CleanTree PROVE [Slots!Next]_(Slots!vars)
  OBVIOUS
<1>1. disk' = disk /\ spec' = spec /\ pc = "cleanTree"
  BY DEF CleanTree
<1>2. pc' = "cleanup" \/ (pc' = "swap" /\ spec.recovery) \/ pc' = "backup"
  BY DEF CleanTree, Goto, Abort
<1>3. rotating = FALSE /\ rotating' = FALSE
  BY <1>1, <1>2 DEF rotating
<1> QED
  BY <1>1, <1>3, SlotsStutter, Zenon DEF slots, pending

\* A sync, alone or as part of an orderly shutdown, settles recovery.
LEMMA PowerSlots ==
  TypeOK /\ RotationSafe /\ (Sync \/ PowerAction \/ Reboot) => [Slots!Next]_(Slots!vars)
<1> SUFFICES ASSUME TypeOK, RotationSafe, Sync \/ PowerAction \/ Reboot
             PROVE  [Slots!Next]_(Slots!vars)
  OBVIOUS
<1>1. pc \in {"sync", "power", "ready", "exited"} /\ pc' \in {"postHook", "off", "exited"}
  BY DEF Sync, PowerAction, Reboot, PoweredOff, Goto
<1>2. disk' = Synced(disk) \/ disk' = disk
  BY DEF Sync, PowerAction, Reboot
<1> QED
  BY <1>1, <1>2, SyncedSlots, OtherSlots

\* Every step of the machine is a step of ImageSlots or changes nothing there.
LEMMA SlotsStep == TypeOK /\ RotationSafe /\ [Next]_vars => [Slots!Next]_(Slots!vars)
<1> SUFFICES ASSUME TypeOK, RotationSafe, [Next]_vars PROVE [Slots!Next]_(Slots!vars)
  OBVIOUS
<1>1. CASE Step
  BY <1>1, BeforeImageSlots, AfterImageSlots, TransitionSlots, CleanTreeSlots,
     BackupSlots, LabelPassiveSlots, SwapSlots, PowerSlots
  DEF Step
<1>2. CASE \E recovery \in BOOLEAN, sys, rec \in {"ext2", "squashfs"} :
             StartUpgrade(recovery, sys, rec)
  BY <1>2, OtherSlots DEF StartUpgrade
<1>3. CASE Reboot \/ PowerLoss
  BY <1>3, PowerSlots, PowerLossSlots
<1>4. CASE \E s \in SystemSlot : Boot(s)
  BY <1>4, OtherSlots DEF Boot, Goto
<1>5. CASE UNCHANGED vars
  BY <1>5 DEF Slots!vars, slots, rotating, pending
<1> QED
  BY <1>1, <1>2, <1>3, <1>4, <1>5 DEF Next

\* The upgrade implements ImageSlots for any number of runs, failures and power
\* losses: active moves to passive in one step, only a complete image follows it,
\* and no other image is ever touched but the recovery image that is upgraded.
THEOREM UpgradeImplementsSlots == Spec => ImplementsImageSlots
<1>1. Init => Slots!Init
  BY SlotsInit
<1>2. TypeOK /\ RotationSafe /\ [Next]_vars => [Slots!Next]_(Slots!vars)
  BY SlotsStep
<1> QED
  BY <1>1, <1>2, TypeCorrect, RotationCorrect, PTL DEF Spec, ImplementsImageSlots, Slots!Spec
-----------------------------------------------------------------------------
(* What the refinement is worth: ImageSlots on the images of an upgrade.   *)

\* No image that ImageSlots knows is the absent one, and a complete one is an image.
LEMMA SlotTypes ==
  /\ NoFile \notin Slots!SlotImage
  /\ \A c \in SUBSET Version : /\ Slots!Complete(c) \in Slots!SlotImage
                               /\ Slots!Complete(c) # NoFile /\ Slots!Complete(c).ok
<1>1. \A c \in SUBSET Version : Slots!Complete(c) \in Slots!SlotImage /\ Slots!Complete(c).ok
  BY DEF Slots!Complete, Slots!SlotImage
<1>2. NoFile \notin Slots!SlotImage
  <2>1. "fs" \in DOMAIN NoFile
    BY DEF NoFile
  <2>2. \A file \in Slots!SlotImage : "fs" \notin DOMAIN file
    BY DEF Slots!SlotImage
  <2> QED
    BY <2>1, <2>2
<1> QED
  BY <1>1, <1>2

\* A step keeps the slots typed.
LEMMA SlotsTyped ==
  ASSUME Slots!TypeOK, [Slots!Next]_(Slots!vars)
  PROVE  Slots!TypeOK'
<1> USE DEF Slots!TypeOK, Slots!SystemSlot
<1>1. CASE Slots!Rotate
  BY <1>1 DEF Slots!Rotate
<1>2. CASE Slots!Abandon \/ Slots!Settle
  <2>1. slots' = slots /\ (pending' = FALSE \/ pending' = pending)
    BY <1>2 DEF Slots!Abandon, Slots!Settle
  <2>2. rotating' \in BOOLEAN /\ pending' \in BOOLEAN
    BY <1>2 DEF Slots!Abandon, Slots!Settle
  <2>3. pending' => slots'["recovery"] # NoFile
    BY <2>1
  <2> QED
    BY <2>1, <2>2, <2>3
<1>3. CASE Slots!Damage
  <2>1. slots["recovery"] \in Slots!SlotImage
    BY <1>3 DEF Slots!Damage
  <2>2. Slots!Torn(slots["recovery"]) \in Slots!SlotImage
    BY <2>1 DEF Slots!Torn, Slots!SlotImage
  <2> QED
    BY <1>3, <2>2 DEF Slots!Damage
<1>4. CASE \E c \in SUBSET Version : Slots!Install(c)
  <2>1. PICK c \in SUBSET Version : Slots!Install(c)
    BY <1>4
  <2>2. slots' \in [Slots!SystemSlot -> Slots!SlotImage \cup {NoFile}]
    BY <2>1, SlotTypes DEF Slots!Install
  <2>3. slots'["recovery"] = slots["recovery"] /\ pending' = pending /\ rotating' = FALSE
    BY <2>1 DEF Slots!Install
  <2> QED
    BY <2>2, <2>3
<1>5. CASE \E c \in SUBSET Version : Slots!ReplaceRecovery(c)
  BY <1>5, SlotTypes DEF Slots!ReplaceRecovery
<1>6. CASE UNCHANGED Slots!vars
  BY <1>6 DEF Slots!vars
<1> QED
  BY <1>1, <1>2, <1>3, <1>4, <1>5, <1>6 DEF Slots!Next

\* A step leaves a complete active or passive image.
LEMMA SlotsKept ==
  ASSUME Slots!TypeOK, Slots!SlotsSurvive, [Slots!Next]_(Slots!vars)
  PROVE  Slots!SlotsSurvive'
<1> USE DEF Slots!TypeOK, Slots!SlotsSurvive, Slots!SystemSlot
<1>1. CASE Slots!Rotate
  BY <1>1 DEF Slots!Rotate
<1>2. CASE Slots!Abandon \/ Slots!Settle \/ Slots!Damage
  BY <1>2 DEF Slots!Abandon, Slots!Settle, Slots!Damage
<1>3. CASE \E c \in SUBSET Version : Slots!Install(c) \/ Slots!ReplaceRecovery(c)
  BY <1>3, SlotTypes DEF Slots!Install, Slots!ReplaceRecovery
<1>4. CASE UNCHANGED Slots!vars
  BY <1>4 DEF Slots!vars
<1> QED
  BY <1>1, <1>2, <1>3, <1>4 DEF Slots!Next

\* The abstract rotation never leaves the machine without a complete system image,
\* and never with a damaged one (the order of the renames in Run of upgrade.go).
THEOREM SlotsAlwaysSurvive == Slots!Spec => []Slots!SlotsSurvive
<1>1. Slots!Init => Slots!TypeOK /\ Slots!SlotsSurvive
  BY SlotTypes DEF Slots!Init, Slots!TypeOK, Slots!SlotsSurvive, Slots!SystemSlot
<1>2. Slots!TypeOK /\ Slots!SlotsSurvive /\ [Slots!Next]_(Slots!vars)
        => Slots!TypeOK' /\ Slots!SlotsSurvive'
  BY SlotsTyped, SlotsKept
<1> QED
  BY <1>1, <1>2, PTL DEF Slots!Spec
-----------------------------------------------------------------------------
(* What an upgrade leaves behind.                                          *)

USE DEF Goto, Abort

\* The stages of a run in which it works, before and after the scratch tree exists.
BeforeTree == {"beforeHook", "deploy", "dump", "dumpFailed"}
AfterTree  == {"relabel", "chrootHook", "afterHook", "grubVars", "defaultEntry", "createImg",
               "fillImg", "cleanTree", "backup", "label", "swap", "sync", "postHook",
               "stateYaml", "recoveryYaml"}
Live == Running \cup {"exited"}

\* The stages of a run are the mounts, the two parts of its work and its end.
LEMMA StagesOfRun ==
  Running = {"mountState", "mountRecovery", "mountPersistent", "cleanup", "power"}
            \cup BeforeTree \cup AfterTree
BY DEF Running, BeforeTree, AfterTree
-----------------------------------------------------------------------------
(* The files of the host.                                                  *)

\* While nothing has gone wrong in a run that started without leftovers, nothing of
\* the host is mounted in the scratch tree between two steps.
NothingExposed ==
  start.able /\ err = "none" /\ pc \in Running => \A i \in DOMAIN work : work[i].left = {}

\* The tree cleaner unmounts the visible scratch tree or nothing.
LEMMA CleanerShows ==
  ASSUME VolatileOK, NEW slot, TreeCleaner(slot)
  PROVE  /\ work' \in Seq(Bind) /\ Len(work') <= Len(work)
         /\ \A i \in 1 .. Len(work') : work'[i] = work[i]
<1>1. CASE work' = work
  BY <1>1, LenProperties DEF VolatileOK
<1>2. CASE CanUnmountTree /\ work' = SubSeq(work, 1, Len(work) - 1)
  <2>1. work' \in Seq(Bind)
    BY <1>2, FrontType DEF VolatileOK
  <2>2. Len(work) \in Nat /\ work # <<>> /\ Len(work) # 0
    BY <1>2, LenProperties, EmptySeq DEF VolatileOK, CanUnmountTree
  <2> QED
    BY <1>2, <2>1, <2>2, SubSeqProperties DEF VolatileOK
<1> QED
  BY <1>1, <1>2 DEF TreeCleaner, TreeUnmounts, RemovalFails

\* A tree cleaner deletes nothing of the host when nothing of it is mounted there.
LEMMA CleanerDeletesNothing ==
  ASSUME VolatileOK, NEW slot, TreeCleaner(slot), \A i \in DOMAIN work : work[i].left = {}
  PROVE  lost' = lost /\ \A i \in DOMAIN work' : work'[i].left = {}
<1>1. \A i \in DOMAIN work' : i \in DOMAIN work /\ work'[i] = work[i]
  BY CleanerShows, LenProperties DEF VolatileOK
<1>2. CASE work' = <<>>
  BY <1>1, <1>2 DEF TreeCleaner, RemovalFails
<1>3. CASE work' # <<>>
  <2>1. Len(work') \in DOMAIN work'
    BY <1>3, CleanerShows, LenProperties, EmptySeq
  <2>2. work'[Len(work')].left = {}
    BY <1>1, <2>1
  <2>3. lost' = lost \/ lost' = lost \cup work'[Len(work')].left
    BY <1>3 DEF TreeCleaner, RemovalFails
  <2> QED
    BY <1>1, <2>2, <2>3
<1> QED
  BY <1>2, <1>3

\* Steps that leave the mounts of the scratch tree alone.
LEMMA ExposedQuiet ==
  ASSUME NothingExposed, UNCHANGED <<work, start>>, pc \in Running, err' = "none" => err = "none"
  PROVE  NothingExposed'
BY DEF NothingExposed

\* A new mount of the scratch tree has nothing under it.
LEMMA BindTreeExposes == TypeOK /\ NothingExposed /\ BindTree => NothingExposed'
<1> SUFFICES ASSUME TypeOK, NothingExposed, BindTree PROVE NothingExposed'
  OBVIOUS
<1>1. CASE work' = Append(work, [slot |-> TransSlot, left |-> {}]) /\ err' = err
  <2> DEFINE bind == [slot |-> TransSlot, left |-> {}]
  <2>1. work \in Seq(Bind) /\ bind \in Bind
    BY TransSlotType DEF TypeOK, VolatileOK, Bind
  <2>2. \A i \in DOMAIN work' : work'[i] = bind \/ (i \in DOMAIN work /\ work'[i] = work[i])
    BY <1>1, <2>1, AppendProperties, LenProperties
  <2>3. pc \in Running /\ start' = start
    BY DEF BindTree, Running
  <2> QED
    BY <1>1, <2>2, <2>3 DEF NothingExposed
<1>2. CASE err' = "DeployImgTree"
  BY <1>2 DEF NothingExposed
<1> QED
  BY <1>1, <1>2 DEF BindTree

\* Every step keeps the host's files out of the scratch tree of a run that goes well.
LEMMA ExposedStep == TypeOK /\ NothingExposed /\ [Next]_vars => NothingExposed'
<1> SUFFICES ASSUME TypeOK, NothingExposed, [Next]_vars PROVE NothingExposed'
  OBVIOUS
<1>1. CASE MountState \/ MountRecovery \/ MountPersistent \/ BeforeHook \/ AfterHook \/ PostHook
  <2>1. pc \in Running
    BY <1>1 DEF MountState, MountRecovery, MountPersistent, BeforeHook, AfterHook, PostHook,
                RunHook, Running
  <2>2. UNCHANGED <<work, start>> /\ (err' = "none" => err = "none")
    BY <1>1 DEF MountState, MountRecovery, MountPersistent, BeforeHook, AfterHook, PostHook, RunHook
  <2> QED
    BY <2>1, <2>2, ExposedQuiet
<1>2. CASE DumpSource \/ SetGrubVariables \/ SetDefaultGrubEntry \/ CreateImage \/ FillImage
           \/ SquashImage
  <2>1. pc \in Running
    BY <1>2 DEF DumpSource, SetGrubVariables, SetDefaultGrubEntry, CreateImage, FillImage,
                SquashImage, Running
  <2>2. UNCHANGED <<work, start>> /\ (err' = "none" => err = "none")
    BY <1>2 DEF DumpSource, SetGrubVariables, SetDefaultGrubEntry, CreateImage, FillImage,
                SquashImage, ImgFails
  <2> QED
    BY <2>1, <2>2, ExposedQuiet
<1>3. CASE Backup \/ LabelPassive \/ Swap \/ Sync \/ WriteStateYaml \/ WriteRecoveryYaml
           \/ JobUmount \/ JobRemountRO \/ JobRemove
  <2>1. pc \in Running
    BY <1>3 DEF Backup, LabelPassive, Swap, Sync, WriteStateYaml, WriteRecoveryYaml, JobUmount,
                JobRemountRO, JobRevertMount, JobRemove, PopJob, Running
  <2>2. UNCHANGED <<work, start>> /\ (err' = "none" => err = "none")
    BY <1>3 DEF Backup, LabelPassive, Swap, Sync, WriteStateYaml, WriteRecoveryYaml, WriteYaml,
                JobUmount, JobRemountRO, JobRevertMount, JobRemove, PopJob
  <2> QED
    BY <2>1, <2>2, ExposedQuiet
<1>4. CASE BindTree
  BY <1>4, BindTreeExposes
<1>5. CASE SelinuxRelabel \/ ChrootHook
  <2>1. pc \in Running /\ start' = start
    BY <1>5 DEF SelinuxRelabel, ChrootHook, Running
  <2>2. (work' = work /\ err' = err) \/ err' # "none"
    BY <1>5 DEF SelinuxRelabel, ChrootHook, ChrootedCallback
  <2> QED
    BY <2>1, <2>2 DEF NothingExposed
<1>6. CASE DumpFailed \/ CleanTree \/ JobCleanTree
  <2>1. pc \in Running /\ start' = start /\ (err' = "none" => err = "none")
    BY <1>6 DEF DumpFailed, CleanTree, JobCleanTree, PopJob, Running
  <2>2. TreeCleaner(TransSlot)
    BY <1>6 DEF DumpFailed, CleanTree, JobCleanTree
  <2> QED
    BY <2>1, <2>2, CleanerDeletesNothing DEF NothingExposed, TypeOK
<1>7. CASE CleanupDone
  <2>1. pc \in Running /\ UNCHANGED <<work, start>> /\ (err' = "none" => err = "none")
    BY <1>7 DEF CleanupDone, Running
  <2> QED
    BY <2>1, ExposedQuiet
<1>8. CASE PowerAction \/ Reboot \/ PowerLoss \/ \E s \in SystemSlot : Boot(s)
  <2>1. pc' \in {"exited", "off", "ready"}
    BY <1>8 DEF PowerAction, Reboot, PowerLoss, PoweredOff, Boot
  <2> QED
    BY <2>1 DEF NothingExposed, Running
<1>9. CASE \E recovery \in BOOLEAN, sys, rec \in {"ext2", "squashfs"} :
             StartUpgrade(recovery, sys, rec)
  <2>1. work' = work /\ (start'.able => work = <<>>)
    BY <1>9 DEF StartUpgrade
  <2> QED
    BY <2>1 DEF NothingExposed
<1>10. CASE UNCHANGED vars
  BY <1>10 DEF NothingExposed
<1> QED
  BY <1>1, <1>2, <1>3, <1>4, <1>5, <1>6, <1>7, <1>8, <1>9, <1>10 DEF Next, Step

\* A step that deletes files of the host belongs to a run that has failed, or that
\* found what keeps it from succeeding.
LEMMA HostDataStep ==
  TypeOK /\ NothingExposed /\ [Next]_vars => (lost' # lost => err # "none" \/ ~start.able)
<1> SUFFICES ASSUME TypeOK, NothingExposed, [Next]_vars, start.able, err = "none"
             PROVE  lost' = lost
  OBVIOUS
<1>1. CASE DumpFailed \/ CleanTree \/ JobCleanTree
  <2>1. TreeCleaner(TransSlot) /\ pc \in Running
    BY <1>1 DEF DumpFailed, CleanTree, JobCleanTree, PopJob, Running
  <2> QED
    BY <2>1, CleanerDeletesNothing DEF NothingExposed, TypeOK
<1>2. CASE BindTree
  <2>1. pc \in Running
    BY <1>2 DEF BindTree, Running
  <2>2. work # <<>> => Len(work) \in DOMAIN work
    BY LenProperties, EmptySeq DEF TypeOK, VolatileOK
  <2>3. work # <<>> => Top.left = {}
    BY <2>1, <2>2 DEF NothingExposed, Top
  <2> QED
    BY <1>2, <2>3 DEF BindTree
<1>3. CASE Step /\ ~(DumpFailed \/ CleanTree \/ JobCleanTree \/ BindTree)
  BY <1>3
  DEF Step, MountState, MountRecovery, MountPersistent, BeforeHook, AfterHook, PostHook, RunHook,
      DumpSource, SelinuxRelabel, ChrootHook, SetGrubVariables, SetDefaultGrubEntry, CreateImage,
      FillImage, SquashImage, Backup, LabelPassive, Swap, Sync, WriteStateYaml, WriteRecoveryYaml,
      JobUmount, JobRemountRO, JobRevertMount, JobRemove, CleanupDone, PowerAction, PoweredOff
<1>4. CASE ~Step
  BY <1>4 DEF Next, StartUpgrade, Reboot, PowerLoss, PoweredOff, Boot
<1> QED
  BY <1>1, <1>2, <1>3, <1>4

\* Removing the scratch tree deletes files of the host only after the run has failed,
\* or when it found what keeps it from succeeding (the tree cleaner of DeployImgTree
\* and what a chroot left mounted), in any number of runs and whatever calls fail.
THEOREM HostData == Spec => HostDataKept
<1>1. Init => TypeOK /\ NothingExposed
  <2>1. Init => NothingExposed
    BY Zenon DEF Init, NothingExposed, Running
  <2> QED
    BY <2>1, TypeInit
<1>2. (TypeOK /\ NothingExposed) /\ [Next]_vars => (TypeOK /\ NothingExposed)'
  BY TypeStep, ExposedStep
<1>3. (TypeOK /\ NothingExposed) /\ [Next]_vars => [lost' # lost => err # "none" \/ ~start.able]_vars
  BY HostDataStep
<1> QED
  BY <1>1, <1>2, <1>3, PTL DEF Spec, HostDataKept
-----------------------------------------------------------------------------
(* The cleanup stack.                                                      *)

\* What a run pushes: the reverts of its mounts, the removal of the transition
\* image, the tree cleaner.
Undo(p)   == [op |-> IF start.mnt[p] = "none" THEN "umount" ELSE "remountRO", part |-> p]
RemoveJob == [op |-> "remove", part |-> HomePart]
CleanJob  == [op |-> "cleanTree", part |-> HomePart]

\* The order of the stack: it is always a beginning of the jobs of a whole run, in
\* which persistent is missing when it was mounted already or could not be.
JobsOrdered ==
  /\ Len(jobs) <= 5
  /\ Len(jobs) >= 1 => jobs[1] = Undo("state")
  /\ Len(jobs) >= 2 => jobs[2] = Undo("recovery")
  /\ Len(jobs) >= 3 => jobs[3] = RemoveJob
  /\ Len(jobs) >= 4 => jobs[4] \in {Undo("persistent"), CleanJob}
  /\ Len(jobs) = 5 => jobs[4] = Undo("persistent") /\ jobs[5] = CleanJob

\* How far the stack has grown at each stage.
JobsPushed ==
  /\ pc = "mountState" => Len(jobs) = 0
  /\ pc = "mountRecovery" => Len(jobs) = 1
  /\ pc = "mountPersistent" => Len(jobs) = 3
  /\ pc \in BeforeTree => Len(jobs) = 3 \/ (Len(jobs) = 4 /\ jobs[4] = Undo("persistent"))
  /\ pc \in AfterTree => Len(jobs) >= 4
  /\ pc \in {"power", "exited", "off", "ready"} => Len(jobs) = 0

Restored(p) == /\ (mnt[p] = "none") = (start.mnt[p] = "none")
               /\ mnt[p] = "rw" => start.mnt[p] = "rw"

\* A partition whose revert waits on the stack is writable, where later jobs need it;
\* one that was not mounted yet, or whose revert has run, is as the run found it.
MountsTracked ==
  pc \in Live =>
  /\ Len(jobs) >= 1 => mnt["state"] = "rw"
  /\ Len(jobs) >= 2 => mnt["recovery"] = "rw"
  /\ Len(jobs) = 0 => cleanErr \/ Restored("state")
  /\ Len(jobs) <= 1 => cleanErr \/ Restored("recovery")
  /\ Len(jobs) <= 3 \/ jobs[4] = CleanJob => cleanErr \/ Restored("persistent")
  /\ pc = "mountState" => mnt = start.mnt
  /\ pc = "mountRecovery" => mnt["recovery"] = start.mnt["recovery"]
  /\ pc \in {"mountRecovery", "mountPersistent"} => mnt["persistent"] = start.mnt["persistent"]

\* Once its removal has run the transition image is gone.
TransitionTracked ==
  /\ pc \in {"cleanup", "power", "exited"} /\ Len(jobs) < 3 =>
       \/ cleanErr \/ err \in {"MountStatePartition", "MountRecoveryPartition"}
       \/ disk[TransSlot].fs = "none"
  /\ pc = "power" => err = "none"

CleanInv == JobsOrdered /\ JobsPushed /\ MountsTracked /\ TransitionTracked

\* The three kinds of jobs differ.
LEMMA JobKinds ==
  /\ \A p : Undo(p).op \in {"umount", "remountRO"} /\ Undo(p).part = p
  /\ RemoveJob.op = "remove" /\ RemoveJob.part = HomePart /\ CleanJob.op = "cleanTree"
BY DEF Undo, RemoveJob, CleanJob

\* Pushing a job on the stack.
LEMMA Pushed ==
  ASSUME TypeOK, NEW job, jobs' = Append(jobs, job)
  PROVE  /\ Len(jobs) \in Nat
         /\ Len(jobs') = Len(jobs) + 1 /\ jobs'[Len(jobs) + 1] = job
         /\ \A i \in 1 .. Len(jobs) : jobs'[i] = jobs[i]
<1>1. jobs \in Seq(Job \cup {job}) /\ job \in Job \cup {job}
  BY LenProperties DEF TypeOK, CommandOK
<1> QED
  BY <1>1, AppendProperties, LenProperties

\* Steps within a part of a run, or from it into the cleanup.
LEMMA CleanQuiet ==
  ASSUME TypeOK, CleanInv, UNCHANGED <<jobs, start, spec, mnt, cleanErr>>,
         \/ pc \in BeforeTree /\ pc' \in BeforeTree \cup {"cleanup"}
         \/ pc \in AfterTree /\ pc' \in AfterTree \cup {"cleanup"}
  PROVE  CleanInv'
<1>1. Len(jobs) \in Nat /\ Len(jobs) >= 3
  <2>1. Len(jobs) \in Nat
    BY LenProperties DEF TypeOK, CommandOK
  <2>2. Len(jobs) = 3 \/ Len(jobs) = 4 \/ Len(jobs) >= 4
    BY DEF CleanInv, JobsPushed
  <2> QED
    BY <2>1, <2>2
<1>2. /\ pc \in Running
      /\ pc' \notin {"mountState", "mountRecovery", "mountPersistent", "power", "exited",
                     "off", "ready"}
  BY StagesOfRun DEF BeforeTree, AfterTree
<1>3. JobsOrdered'
  BY DEF CleanInv, JobsOrdered, Undo, RemoveJob, CleanJob, HomePart
<1>4. JobsPushed'
  BY <1>2 DEF CleanInv, JobsPushed, Undo, BeforeTree, AfterTree
<1>5. MountsTracked'
  BY <1>2 DEF CleanInv, MountsTracked, Restored, CleanJob, HomePart, Live
<1>6. TransitionTracked'
  BY <1>1, <1>2 DEF TransitionTracked
<1> QED
  BY <1>3, <1>4, <1>5, <1>6 DEF CleanInv

\* The steps of a run that push nothing.
LEMMA CleanWork ==
  ASSUME TypeOK, CleanInv,
         \/ BeforeHook \/ BindTree \/ DumpFailed \/ SelinuxRelabel \/ ChrootHook \/ AfterHook
         \/ SetGrubVariables \/ SetDefaultGrubEntry \/ CreateImage \/ FillImage \/ SquashImage
         \/ CleanTree \/ Backup \/ LabelPassive \/ Swap \/ Sync
         \/ PostHook \/ WriteStateYaml \/ WriteRecoveryYaml
  PROVE  CleanInv'
<1> USE CleanQuiet DEF BeforeTree, AfterTree
<1>1. CASE BeforeHook \/ AfterHook \/ PostHook
  BY <1>1 DEF BeforeHook, AfterHook, PostHook, RunHook
<1>2. CASE BindTree \/ DumpFailed
  BY <1>2 DEF BindTree, DumpFailed
<1>3. CASE SelinuxRelabel \/ ChrootHook
  BY <1>3 DEF SelinuxRelabel, ChrootHook, ChrootedCallback
<1>4. CASE SetGrubVariables \/ SetDefaultGrubEntry
  BY <1>4 DEF SetGrubVariables, SetDefaultGrubEntry
<1>5. CASE CreateImage \/ FillImage \/ SquashImage
  BY <1>5 DEF CreateImage, FillImage, SquashImage, ImgFails
<1>6. CASE CleanTree
  BY <1>6 DEF CleanTree
<1>7. CASE Backup \/ LabelPassive \/ Swap \/ Sync
  BY <1>7 DEF Backup, LabelPassive, Swap, Sync
<1>8. CASE WriteStateYaml \/ WriteRecoveryYaml
  BY <1>8 DEF WriteStateYaml, WriteRecoveryYaml, WriteYaml
<1> QED
  BY <1>1, <1>2, <1>3, <1>4, <1>5, <1>6, <1>7, <1>8

\* Mounting the state partition pushes its revert.
LEMMA CleanMountState == TypeOK /\ CleanInv /\ MountState => CleanInv'
<1> SUFFICES ASSUME TypeOK, CleanInv, MountState PROVE CleanInv'
  OBVIOUS
<1>1. /\ pc = "mountState" /\ Len(jobs) = 0 /\ mnt = start.mnt
      /\ UNCHANGED <<start, spec, cleanErr, disk>>
  BY StagesOfRun DEF CleanInv, JobsPushed, MountsTracked, Live, MountState
<1>2. CASE Succeeds /\ MountRWPartition("state") /\ jobs' = Append(jobs, Unmounter("state"))
           /\ pc' = "mountRecovery"
  <2>1. Len(jobs') = 1 /\ jobs'[1] = Unmounter("state")
    BY <1>1, <1>2, Pushed
  <2>2. Unmounter("state") = Undo("state")' /\ "state" \in Part
    BY <1>1 DEF Unmounter, Undo, Part, ImgPart
  <2>3. /\ mnt'["state"] = "rw" /\ mnt'["recovery"] = start.mnt["recovery"]
        /\ mnt'["persistent"] = start.mnt["persistent"]
    BY <1>1, <1>2, <2>2 DEF MountRWPartition, TypeOK, VolatileOK, Part, ImgPart
  <2>4. JobsOrdered' /\ JobsPushed'
    BY <1>2, <2>1, <2>2 DEF JobsOrdered, JobsPushed, BeforeTree, AfterTree
  <2>5. MountsTracked' /\ TransitionTracked'
    BY <1>1, <1>2, <2>1, <2>3 DEF MountsTracked, Restored, TransitionTracked
  <2> QED
    BY <2>4, <2>5 DEF CleanInv
<1>3. CASE pc' = "cleanup" /\ err' = "MountStatePartition" /\ UNCHANGED <<mnt, jobs>>
  <2>1. JobsOrdered' /\ JobsPushed'
    BY <1>1, <1>3 DEF CleanInv, JobsOrdered, JobsPushed, Undo, RemoveJob, CleanJob, HomePart,
                      BeforeTree, AfterTree
  <2>2. MountsTracked' /\ TransitionTracked'
    BY <1>1, <1>3 DEF MountsTracked, Restored, TransitionTracked
  <2> QED
    BY <2>1, <2>2 DEF CleanInv
<1> QED
  BY <1>2, <1>3 DEF MountState

\* Mounting the recovery partition pushes its revert and the removal.
LEMMA CleanMountRecovery == TypeOK /\ CleanInv /\ MountRecovery => CleanInv'
<1> SUFFICES ASSUME TypeOK, CleanInv, MountRecovery PROVE CleanInv'
  OBVIOUS
<1>1. /\ pc = "mountRecovery" /\ Len(jobs) = 1 /\ mnt["recovery"] = start.mnt["recovery"]
      /\ mnt["state"] = "rw" /\ mnt["persistent"] = start.mnt["persistent"]
      /\ jobs[1] = Undo("state")
      /\ UNCHANGED <<start, spec, cleanErr, disk>>
  <2>1. pc = "mountRecovery" /\ UNCHANGED <<start, spec, cleanErr, disk>>
    BY DEF MountRecovery
  <2>2. pc \in Live /\ Len(jobs) = 1
    BY <2>1, StagesOfRun DEF CleanInv, JobsPushed, Live
  <2>3. jobs[1] = Undo("state")
    BY <2>2 DEF CleanInv, JobsOrdered
  <2>4. /\ mnt["state"] = "rw" /\ mnt["recovery"] = start.mnt["recovery"]
        /\ mnt["persistent"] = start.mnt["persistent"]
    BY <2>1, <2>2 DEF CleanInv, MountsTracked
  <2> QED
    BY <2>1, <2>2, <2>3, <2>4
<1>2. CASE Succeeds /\ MountRWPartition("recovery") /\ pc' = "mountPersistent"
           /\ jobs' = jobs \o <<Unmounter("recovery"), RemoveJob>>
  <2>1. /\ Len(jobs') = 3 /\ jobs'[1] = jobs[1] /\ jobs'[2] = Unmounter("recovery")
        /\ jobs'[3] = RemoveJob
    <3>1. jobs \in Seq(Job) /\ <<Unmounter("recovery"), RemoveJob>> \in Seq(Job)
      BY DEF TypeOK, CommandOK, Unmounter, RemoveJob, HomePart, Job, Part, ImgPart
    <3> QED
      BY <1>1, <1>2, <3>1, ConcatProperties
  <2>2. Unmounter("recovery") = Undo("recovery")' /\ Undo("state")' = Undo("state")
        /\ RemoveJob' = RemoveJob /\ "recovery" \in Part
    BY <1>1 DEF Unmounter, Undo, RemoveJob, HomePart, Part, ImgPart
  <2>3. /\ mnt'["state"] = "rw" /\ mnt'["recovery"] = "rw"
        /\ mnt'["persistent"] = start.mnt["persistent"]
    BY <1>1, <1>2, <2>2 DEF MountRWPartition, TypeOK, VolatileOK, Part, ImgPart
  <2>4. JobsOrdered' /\ JobsPushed'
    BY <1>1, <1>2, <2>1, <2>2 DEF JobsOrdered, JobsPushed, BeforeTree, AfterTree
  <2>5. MountsTracked' /\ TransitionTracked'
    BY <1>1, <1>2, <2>1, <2>3 DEF MountsTracked, Restored, TransitionTracked
  <2> QED
    BY <2>4, <2>5 DEF CleanInv
<1>3. CASE pc' = "cleanup" /\ err' = "MountRecoveryPartition" /\ UNCHANGED <<mnt, jobs>>
  <2>1. JobsOrdered' /\ JobsPushed'
    BY <1>1, <1>3 DEF CleanInv, JobsOrdered, JobsPushed, Undo, RemoveJob, CleanJob, HomePart,
                      BeforeTree, AfterTree
  <2>2. MountsTracked' /\ TransitionTracked'
    <3>1. MountsTracked'
      <4>1. Restored("recovery")' /\ Restored("persistent")' /\ mnt'["state"] = "rw"
        BY <1>1, <1>3 DEF Restored
      <4>2. Len(jobs') = 1 /\ pc' = "cleanup"
        BY <1>1, <1>3
      <4> QED
        BY <4>1, <4>2 DEF MountsTracked
    <3>2. TransitionTracked'
      BY <1>3 DEF TransitionTracked
    <3> QED
      BY <3>1, <3>2
  <2> QED
    BY <2>1, <2>2 DEF CleanInv
<1> QED
  BY <1>2, <1>3 DEF MountRecovery, RemoveJob

\* Mounting the persistent partition pushes its revert if it did mount it.
LEMMA CleanMountPersistent == TypeOK /\ CleanInv /\ MountPersistent => CleanInv'
<1> SUFFICES ASSUME TypeOK, CleanInv, MountPersistent PROVE CleanInv'
  OBVIOUS
<1>1. /\ pc = "mountPersistent" /\ pc' = "beforeHook" /\ Len(jobs) = 3
      /\ mnt["state"] = "rw" /\ mnt["recovery"] = "rw"
      /\ mnt["persistent"] = start.mnt["persistent"]
      /\ jobs[1] = Undo("state") /\ jobs[2] = Undo("recovery") /\ jobs[3] = RemoveJob
      /\ UNCHANGED <<start, spec, cleanErr, disk>>
  <2>1. /\ pc = "mountPersistent" /\ pc' = "beforeHook"
        /\ UNCHANGED <<start, spec, cleanErr, disk>>
    BY DEF MountPersistent
  <2>2. pc \in Live /\ Len(jobs) = 3
    BY <2>1, StagesOfRun DEF CleanInv, JobsPushed, Live
  <2>3. jobs[1] = Undo("state") /\ jobs[2] = Undo("recovery") /\ jobs[3] = RemoveJob
    BY <2>2 DEF CleanInv, JobsOrdered
  <2>4. /\ mnt["state"] = "rw" /\ mnt["recovery"] = "rw"
        /\ mnt["persistent"] = start.mnt["persistent"]
    BY <2>1, <2>2 DEF CleanInv, MountsTracked
  <2> QED
    BY <2>1, <2>2, <2>3, <2>4
<1>2. /\ Undo("state")' = Undo("state") /\ Undo("recovery")' = Undo("recovery")
      /\ RemoveJob' = RemoveJob /\ Undo("persistent")' = Undo("persistent")
  BY <1>1 DEF Undo, RemoveJob, HomePart
<1>3. CASE MountRWPartition("persistent") /\ jobs' = Append(jobs, Unmounter("persistent"))
  <2>1. /\ Len(jobs') = 4 /\ jobs'[1] = jobs[1] /\ jobs'[2] = jobs[2] /\ jobs'[3] = jobs[3]
        /\ jobs'[4] = Unmounter("persistent")
    BY <1>1, <1>3, Pushed
  <2>2. Unmounter("persistent") = Undo("persistent") /\ "persistent" \in Part
    BY <1>1 DEF Unmounter, Undo, Part
  <2>3. mnt'["state"] = "rw" /\ mnt'["recovery"] = "rw"
    BY <1>1, <1>3, <2>2 DEF MountRWPartition, TypeOK, VolatileOK, Part, ImgPart
  <2>4. JobsOrdered' /\ JobsPushed'
    BY <1>1, <1>2, <2>1, <2>2 DEF JobsOrdered, JobsPushed, BeforeTree, AfterTree
  <2>5. jobs'[4] # CleanJob'
    BY <1>2, <2>1, <2>2, JobKinds DEF CleanJob, Undo
  <2>6. MountsTracked' /\ TransitionTracked'
    BY <1>1, <2>1, <2>3, <2>5 DEF MountsTracked, TransitionTracked
  <2> QED
    BY <2>4, <2>6 DEF CleanInv
<1>4. CASE UNCHANGED <<mnt, jobs>>
  <2>1. JobsOrdered'
    <3>1. /\ Len(jobs') = 3 /\ jobs'[1] = Undo("state")' /\ jobs'[2] = Undo("recovery")'
          /\ jobs'[3] = RemoveJob'
      BY <1>1, <1>2, <1>4
    <3> QED
      BY <3>1 DEF JobsOrdered
  <2>3. JobsPushed'
    BY <1>1, <1>4 DEF JobsPushed, BeforeTree, AfterTree
  <2>2. MountsTracked' /\ TransitionTracked'
    BY <1>1, <1>4 DEF MountsTracked, Restored, TransitionTracked
  <2> QED
    BY <2>1, <2>2, <2>3 DEF CleanInv
<1> QED
  BY <1>3, <1>4 DEF MountPersistent

\* Extracting the source pushes the tree cleaner, last.
LEMMA CleanDumpSource == TypeOK /\ CleanInv /\ DumpSource => CleanInv'
<1> SUFFICES ASSUME TypeOK, CleanInv, DumpSource PROVE CleanInv'
  OBVIOUS
<1>1. CASE pc' = "dumpFailed" /\ UNCHANGED jobs
  BY <1>1, CleanQuiet DEF DumpSource, BeforeTree
<1>2. CASE pc' = "relabel" /\ jobs' = Append(jobs, CleanJob)
  <2>1. /\ pc \in BeforeTree /\ pc = "dump" /\ pc \in Live
        /\ UNCHANGED <<start, spec, cleanErr, mnt>>
    BY StagesOfRun DEF DumpSource, BeforeTree, Live
  <2>2. /\ Len(jobs) = 3 \/ (Len(jobs) = 4 /\ jobs[4] = Undo("persistent"))
        /\ jobs[1] = Undo("state") /\ jobs[2] = Undo("recovery") /\ jobs[3] = RemoveJob
    BY <2>1 DEF CleanInv, JobsPushed, JobsOrdered
  <2>3. /\ Undo("state")' = Undo("state") /\ Undo("recovery")' = Undo("recovery")
        /\ RemoveJob' = RemoveJob /\ Undo("persistent")' = Undo("persistent")
        /\ CleanJob' = CleanJob
    BY <2>1 DEF Undo, RemoveJob, CleanJob, HomePart
  <2>4. /\ Len(jobs') = Len(jobs) + 1 /\ jobs'[Len(jobs) + 1] = CleanJob
        /\ \A i \in 1 .. Len(jobs) : jobs'[i] = jobs[i]
    BY <1>2, Pushed
  <2>5. JobsOrdered' /\ JobsPushed'
    <3>1. CASE Len(jobs) = 3
      <4>1. /\ Len(jobs') = 4 /\ jobs'[1] = jobs[1] /\ jobs'[2] = jobs[2] /\ jobs'[3] = jobs[3]
            /\ jobs'[4] = CleanJob
        BY <2>4, <3>1
      <4> QED
        BY <1>2, <2>2, <2>3, <4>1 DEF JobsOrdered, JobsPushed, BeforeTree, AfterTree
    <3>2. CASE Len(jobs) = 4 /\ jobs[4] = Undo("persistent")
      <4>1. /\ Len(jobs') = 5 /\ jobs'[1] = jobs[1] /\ jobs'[2] = jobs[2] /\ jobs'[3] = jobs[3]
            /\ jobs'[4] = jobs[4] /\ jobs'[5] = CleanJob
        BY <2>4, <3>2
      <4> QED
        BY <1>2, <2>2, <2>3, <3>2, <4>1 DEF JobsOrdered, JobsPushed, BeforeTree, AfterTree
    <3> QED
      BY <2>2, <3>1, <3>2
  <2>6. mnt["state"] = "rw" /\ mnt["recovery"] = "rw"
        /\ (Len(jobs) = 3 => cleanErr \/ Restored("persistent"))
    BY <2>1, <2>2 DEF CleanInv, MountsTracked
  <2>7. Len(jobs) = 4 => jobs'[4] # CleanJob
    BY <2>2, <2>4, JobKinds
  <2>8. MountsTracked' /\ TransitionTracked'
    BY <1>2, <2>1, <2>2, <2>3, <2>4, <2>6, <2>7 DEF MountsTracked, Restored, TransitionTracked
  <2> QED
    BY <2>5, <2>8 DEF CleanInv
<1> QED
  BY <1>1, <1>2 DEF DumpSource, CleanJob

\* Popping a job off the stack.
LEMMA Popped ==
  ASSUME TypeOK, NEW op, PopJob(op)
  PROVE  /\ Len(jobs) \in Nat /\ Len(jobs) >= 1 /\ LastJob.op = op /\ LastJob = jobs[Len(jobs)]
         /\ Len(jobs') = Len(jobs) - 1
         /\ \A i \in 1 .. Len(jobs) - 1 : jobs'[i] = jobs[i]
         /\ pc = "cleanup" /\ pc' = "cleanup" /\ err' = err
<1>1. jobs \in Seq(Job) /\ jobs # <<>> /\ jobs' = SubSeq(jobs, 1, Len(jobs) - 1)
  BY DEF PopJob, TypeOK, CommandOK
<1>2. Len(jobs) \in Nat /\ Len(jobs) # 0
  BY <1>1, LenProperties, EmptySeq
<1>3. Len(jobs') = Len(jobs) - 1 /\ \A i \in 1 .. Len(jobs) - 1 : jobs'[i] = jobs[i]
  <2>1. \A i \in 1 .. Len(jobs) - 1 : jobs[i] \in Job
    BY <1>1, <1>2, LenProperties
  <2>2. Len(jobs) - 1 \in Int /\ 1 \in Int
    BY <1>2
  <2>3. /\ Len(jobs') = IF 1 <= Len(jobs) - 1 THEN (Len(jobs) - 1) - 1 + 1 ELSE 0
        /\ \A i \in 1 .. (Len(jobs) - 1) - 1 + 1 : jobs'[i] = jobs[1 + i - 1]
    BY <1>1, <2>1, <2>2, SubSeqProperties
  <2>4. Len(jobs') = Len(jobs) - 1
    <3>1. Len(jobs') = IF 1 <= Len(jobs) - 1 THEN (Len(jobs) - 1) - 1 + 1 ELSE 0
      BY <2>3
    <3> QED
      BY <1>2, <3>1
  <2>5. ASSUME NEW i \in 1 .. Len(jobs) - 1 PROVE jobs'[i] = jobs[i]
    <3>1. i \in 1 .. (Len(jobs) - 1) - 1 + 1 /\ 1 + i - 1 = i
      BY <1>2
    <3>2. jobs'[i] = jobs[1 + i - 1]
      BY <2>3, <3>1
    <3> QED
      BY <3>1, <3>2
  <2> QED
    BY <2>4, <2>5
<1> QED
  BY <1>2, <1>3 DEF PopJob, LastJob

\* After a pop the stack is still a beginning of the jobs of a whole run.
LEMMA PoppedOrdered ==
  ASSUME TypeOK, CleanInv, NEW op, PopJob(op), UNCHANGED <<start, spec>>
  PROVE  JobsOrdered' /\ JobsPushed'
<1>1. /\ Undo("state")' = Undo("state") /\ Undo("recovery")' = Undo("recovery")
      /\ RemoveJob' = RemoveJob /\ Undo("persistent")' = Undo("persistent")
      /\ CleanJob' = CleanJob
  BY DEF Undo, RemoveJob, CleanJob, HomePart
<1>2. /\ Len(jobs) \in 1 .. 5 /\ Len(jobs') = Len(jobs) - 1
      /\ \A i \in 1 .. Len(jobs) - 1 : jobs'[i] = jobs[i]
  <2>1. Len(jobs) <= 5
    BY DEF CleanInv, JobsOrdered
  <2>2. /\ Len(jobs) \in Nat /\ Len(jobs) >= 1 /\ Len(jobs') = Len(jobs) - 1
        /\ \A i \in 1 .. Len(jobs) - 1 : jobs'[i] = jobs[i]
    BY Popped
  <2> QED
    BY <2>1, <2>2
<1>3. JobsOrdered'
  <2>1. Len(jobs') \in 0 .. 4
    BY <1>2
  <2>2. Len(jobs') >= 1 => jobs'[1] = Undo("state")
    BY <1>2 DEF CleanInv, JobsOrdered
  <2>3. Len(jobs') >= 2 => jobs'[2] = Undo("recovery")
    BY <1>2 DEF CleanInv, JobsOrdered
  <2>4. Len(jobs') >= 3 => jobs'[3] = RemoveJob
    BY <1>2 DEF CleanInv, JobsOrdered
  <2>5. Len(jobs') >= 4 => jobs'[4] \in {Undo("persistent"), CleanJob}
    BY <1>2 DEF CleanInv, JobsOrdered
  <2> QED
    BY <1>1, <2>1, <2>2, <2>3, <2>4, <2>5 DEF JobsOrdered
<1>4. JobsPushed'
  BY Popped DEF JobsPushed, BeforeTree, AfterTree
<1> QED
  BY <1>3, <1>4

\* Which job is the last one, by the height of the stack.
LEMMA LastJobIs ==
  ASSUME TypeOK, CleanInv, NEW op, PopJob(op)
  PROVE  \/ Len(jobs) = 1 /\ LastJob = Undo("state")
         \/ Len(jobs) = 2 /\ LastJob = Undo("recovery")
         \/ Len(jobs) = 3 /\ LastJob = RemoveJob
         \/ Len(jobs) = 4 /\ LastJob = Undo("persistent")
         \/ Len(jobs) = 4 /\ LastJob = CleanJob
         \/ Len(jobs) = 5 /\ LastJob = CleanJob /\ jobs[4] = Undo("persistent")
<1>1. LastJob = jobs[Len(jobs)]
  BY Popped
<1>2. Len(jobs) = 1 \/ Len(jobs) = 2 \/ Len(jobs) = 3 \/ Len(jobs) = 4 \/ Len(jobs) = 5
  <2>1. Len(jobs) <= 5
    BY DEF CleanInv, JobsOrdered
  <2>2. Len(jobs) \in Nat /\ Len(jobs) >= 1 /\ Len(jobs') = Len(jobs) - 1
    BY Popped
  <2>3. Len(jobs) \in 1 .. 5
    BY <2>1, <2>2
  <2> QED
    BY <2>3
<1>3. JobsOrdered
  BY DEF CleanInv
<1>4. CASE Len(jobs) \in {1, 2, 3}
  BY <1>1, <1>3, <1>4 DEF JobsOrdered
<1>5. CASE Len(jobs) \in {4, 5}
  BY <1>1, <1>3, <1>5 DEF JobsOrdered
<1> QED
  BY <1>2, <1>4, <1>5

\* Reverting a mount leaves the partition as the run found it, or an error.
LEMMA CleanRevertMount ==
  ASSUME TypeOK, CleanInv, NEW op, NEW mode, JobRevertMount(op, mode),
         \/ op = "umount" /\ mode = "none"
         \/ op = "remountRO" /\ mode = "ro"
  PROVE  CleanInv'
<1>1. PopJob(op) /\ UNCHANGED <<start, spec, disk>>
  BY DEF JobRevertMount
<1>2. JobsOrdered' /\ JobsPushed'
  BY <1>1, PoppedOrdered
<1>3. /\ Len(jobs) \in Nat /\ Len(jobs') = Len(jobs) - 1 /\ LastJob.op = op
      /\ pc = "cleanup" /\ pc' = "cleanup" /\ pc \in Live /\ err' = err
      /\ \A i \in 1 .. Len(jobs) - 1 : jobs'[i] = jobs[i]
  BY <1>1, Popped DEF Live, Running
<1>4. \/ Len(jobs) = 1 /\ LastJob = Undo("state")
      \/ Len(jobs) = 2 /\ LastJob = Undo("recovery")
      \/ Len(jobs) = 4 /\ LastJob = Undo("persistent")
  <2>1. LastJob.op \in {"umount", "remountRO"}
    BY <1>3
  <2> QED
    BY <1>1, <2>1, LastJobIs, JobKinds
<1>5. \/ cleanErr' = TRUE /\ mnt' = mnt
      \/ cleanErr' = cleanErr /\ mnt' = [mnt EXCEPT ![LastJob.part] = mode]
  BY DEF JobRevertMount
<1>6. ASSUME NEW p \in Part, LastJob = Undo(p)
      PROVE  /\ cleanErr' \/ Restored(p)'
             /\ \A q \in Part \ {p} : mnt'[q] = mnt[q]
             /\ cleanErr => cleanErr'
  <2>1. LastJob.part = p /\ (op = "umount" <=> start.mnt[p] = "none")
    BY <1>3, <1>6 DEF Undo
  <2>2. mnt \in [Part -> Mode]
    BY DEF TypeOK, VolatileOK
  <2>3. CASE cleanErr' = TRUE /\ mnt' = mnt
    BY <2>3
  <2>4. CASE cleanErr' = cleanErr /\ mnt' = [mnt EXCEPT ![p] = mode]
    <3>1. mnt'[p] = mode
      BY <2>2, <2>4
    <3>2. Restored(p)'
      BY <1>1, <2>1, <3>1 DEF Restored
    <3> QED
      BY <2>2, <2>4, <3>2
  <2> QED
    BY <1>5, <2>1, <2>3, <2>4
<1>7. "state" \in Part /\ "recovery" \in Part /\ "persistent" \in Part
  BY DEF Part, ImgPart
<1>8. \A p \in Part : mnt'[p] = mnt[p] => (Restored(p) => Restored(p)')
  BY <1>1 DEF Restored
<1>9. MountsTracked'
  <2>1. CASE Len(jobs) = 1 /\ LastJob = Undo("state")
    <3>1. cleanErr' \/ (Restored("state") /\ Restored("recovery") /\ Restored("persistent"))'
      BY <1>3, <1>6, <1>7, <1>8, <2>1 DEF CleanInv, MountsTracked
    <3> QED
      BY <1>3, <2>1, <3>1 DEF MountsTracked
  <2>2. CASE Len(jobs) = 2 /\ LastJob = Undo("recovery")
    <3>1. cleanErr' \/ (Restored("recovery") /\ Restored("persistent"))'
      BY <1>3, <1>6, <1>7, <1>8, <2>2 DEF CleanInv, MountsTracked
    <3>2. mnt'["state"] = "rw"
      BY <1>3, <1>6, <1>7, <2>2 DEF CleanInv, MountsTracked
    <3> QED
      BY <1>3, <2>2, <3>1, <3>2 DEF MountsTracked
  <2>3. CASE Len(jobs) = 4 /\ LastJob = Undo("persistent")
    <3>1. cleanErr' \/ Restored("persistent")'
      BY <1>6, <1>7, <2>3
    <3>2. mnt'["state"] = "rw" /\ mnt'["recovery"] = "rw"
      BY <1>3, <1>6, <1>7, <2>3 DEF CleanInv, MountsTracked
    <3> QED
      BY <1>3, <2>3, <3>1, <3>2 DEF MountsTracked
  <2> QED
    BY <1>4, <2>1, <2>2, <2>3
<1>10. TransitionTracked'
  <2>1. cleanErr => cleanErr'
    BY <1>5
  <2>2. TransSlot' = TransSlot
    BY <1>1 DEF TransSlot
  <2>3. Len(jobs') < 3 => Len(jobs) < 3
    BY <1>3, <1>4
  <2> QED
    BY <1>1, <1>3, <2>1, <2>2, <2>3 DEF CleanInv, TransitionTracked
<1> QED
  BY <1>2, <1>9, <1>10 DEF CleanInv

\* The removal finds its partition writable, so it removes the transition image or
\* reports an error.
LEMMA CleanJobRemove == TypeOK /\ CleanInv /\ JobRemove => CleanInv'
<1> SUFFICES ASSUME TypeOK, CleanInv, JobRemove PROVE CleanInv'
  OBVIOUS
<1>1. PopJob("remove") /\ UNCHANGED <<start, spec, mnt>>
  BY DEF JobRemove
<1>2. JobsOrdered' /\ JobsPushed'
  BY <1>1, PoppedOrdered
<1>3. /\ Len(jobs') = Len(jobs) - 1 /\ LastJob.op = "remove"
      /\ pc = "cleanup" /\ pc' = "cleanup" /\ pc \in Live
  BY <1>1, Popped DEF Live, Running
<1>4. Len(jobs) = 3 /\ LastJob = RemoveJob
  BY <1>1, <1>3, LastJobIs, JobKinds
<1>5. /\ mnt["state"] = "rw" /\ mnt["recovery"] = "rw" /\ mnt[HomePart] = "rw"
      /\ cleanErr \/ Restored("persistent")
  BY <1>3, <1>4 DEF CleanInv, MountsTracked, HomePart
<1>6. cleanErr => cleanErr'
  BY DEF JobRemove
<1>7. MountsTracked'
  BY <1>1, <1>3, <1>4, <1>5, <1>6 DEF MountsTracked, Restored
<1>8. TransitionTracked'
  <2>1. cleanErr' \/ disk' = [disk EXCEPT ![TransSlot] = NoFile]
    BY <1>4, <1>5, JobKinds DEF JobRemove
  <2>2. TransSlot' = TransSlot /\ TransSlot \in Slot
    BY <1>1, TransSlotType DEF TransSlot
  <2>3. cleanErr' \/ disk'[TransSlot'].fs = "none"
    <3>1. CASE disk' = [disk EXCEPT ![TransSlot] = NoFile]
      BY <2>2, <3>1, Zenon DEF TypeOK, PersistentOK, NoFile
    <3> QED
      BY <2>1, <3>1
  <2> QED
    BY <1>3, <2>3 DEF TransitionTracked
<1> QED
  BY <1>2, <1>7, <1>8 DEF CleanInv

\* The tree cleaner as a job touches neither mounts nor images.
LEMMA CleanJobCleanTree == TypeOK /\ CleanInv /\ JobCleanTree => CleanInv'
<1> SUFFICES ASSUME TypeOK, CleanInv, JobCleanTree PROVE CleanInv'
  OBVIOUS
<1>1. PopJob("cleanTree") /\ UNCHANGED <<start, spec, mnt, disk>> /\ (cleanErr => cleanErr')
  BY Zenon DEF JobCleanTree
<1>2. JobsOrdered' /\ JobsPushed'
  BY <1>1, PoppedOrdered
<1>3. /\ Len(jobs') = Len(jobs) - 1 /\ LastJob.op = "cleanTree"
      /\ pc = "cleanup" /\ pc' = "cleanup" /\ pc \in Live
      /\ \A i \in 1 .. Len(jobs) - 1 : jobs'[i] = jobs[i]
  BY <1>1, Popped DEF Live, Running
<1>4. \/ Len(jobs) = 4 /\ jobs[4] = CleanJob
      \/ Len(jobs) = 5 /\ jobs[4] = Undo("persistent")
  <2>1. Len(jobs) \in {4, 5} /\ LastJob = CleanJob
    BY <1>1, <1>3, LastJobIs, JobKinds
  <2> QED
    BY <1>1, <2>1, LastJobIs, Popped
<1>5. mnt["state"] = "rw" /\ mnt["recovery"] = "rw"
  BY <1>3, <1>4 DEF CleanInv, MountsTracked
<1>6. MountsTracked'
  <2>1. CASE Len(jobs) = 4 /\ jobs[4] = CleanJob
    <3>1. cleanErr \/ Restored("persistent")
      BY <1>3, <2>1 DEF CleanInv, MountsTracked
    <3> QED
      BY <1>1, <1>3, <1>5, <2>1, <3>1 DEF MountsTracked, Restored
  <2>2. CASE Len(jobs) = 5 /\ jobs[4] = Undo("persistent")
    <3>1. Len(jobs') = 4 /\ jobs'[4] = Undo("persistent")
      BY <1>3, <2>2
    <3>2. jobs'[4] # CleanJob'
      <4>1. CleanJob' = CleanJob
        BY <1>1 DEF CleanJob, HomePart
      <4> QED
        BY <3>1, <4>1, JobKinds
    <3> QED
      <4>1. mnt'["state"] = "rw" /\ mnt'["recovery"] = "rw" /\ pc' = "cleanup"
        BY <1>1, <1>3, <1>5
      <4>2. ~(Len(jobs') = 0) /\ ~(Len(jobs') <= 1) /\ ~(Len(jobs') <= 3)
        BY <3>1
      <4> QED
        BY <3>2, <4>1, <4>2 DEF MountsTracked
  <2> QED
    BY <1>4, <2>1, <2>2
<1>7. TransitionTracked'
  BY <1>3, <1>4 DEF TransitionTracked
<1> QED
  BY <1>2, <1>6, <1>7 DEF CleanInv

\* The end of the cleanup, and of the run.
LEMMA CleanEnd == TypeOK /\ CleanInv /\ CleanupDone => CleanInv'
<1> SUFFICES ASSUME TypeOK, CleanInv, CleanupDone PROVE CleanInv'
  OBVIOUS
<1>1. /\ pc = "cleanup" /\ jobs = <<>> /\ pc' \in {"power", "exited"} /\ pc \in Live /\ pc' \in Live
      /\ UNCHANGED <<jobs, start, spec, mnt, disk, cleanErr>>
      /\ err' = err \/ (err = "none" /\ err' = "Cleanup" /\ cleanErr)
      /\ pc' = "power" => err' = "none"
  BY DEF CleanupDone, Live, Running, TypeOK, CommandOK
<1>2. Len(jobs) = 0 /\ Len(jobs') = 0
  BY <1>1
<1>3. JobsOrdered' /\ JobsPushed'
  BY <1>1, <1>2 DEF JobsOrdered, JobsPushed, BeforeTree, AfterTree
<1>4. MountsTracked'
  BY <1>1, <1>2 DEF CleanInv, MountsTracked, Restored
<1>5. TransitionTracked'
  <2>1. TransSlot' = TransSlot
    BY <1>1 DEF TransSlot
  <2> QED
    BY <1>1, <1>2, <2>1 DEF CleanInv, TransitionTracked
<1> QED
  BY <1>3, <1>4, <1>5 DEF CleanInv

\* A machine that is down, comes up or is ready has nothing on the stack.
LEMMA CleanOff ==
  ASSUME pc' \in {"off", "ready"}, Len(jobs') = 0
  PROVE  CleanInv'
<1>1. pc' \notin Live
  BY DEF Live, Running
<1> QED
  BY <1>1 DEF CleanInv, JobsOrdered, JobsPushed, MountsTracked, TransitionTracked, BeforeTree,
              AfterTree

\* The power action, and what powers the machine off or on.
LEMMA CleanPower ==
  ASSUME TypeOK, CleanInv, PowerAction \/ Reboot \/ PowerLoss \/ \E s \in SystemSlot : Boot(s)
  PROVE  CleanInv'
<1>1. CASE PoweredOff
  BY <1>1, CleanOff DEF PoweredOff
<1>2. CASE \E s \in SystemSlot : Boot(s)
  <2>1. pc = "off" /\ pc' = "ready" /\ jobs' = jobs
    BY <1>2 DEF Boot
  <2> QED
    BY <2>1, CleanOff DEF CleanInv, JobsPushed
<1>3. CASE /\ pc = "power" /\ pc' = "exited" /\ UNCHANGED <<jobs, start, spec, mnt, disk, cleanErr>>
           /\ err' \in {err, "Reboot"}
  <2>1. Len(jobs) = 0 /\ Len(jobs') = 0 /\ pc \in Live /\ pc' \in Live
    BY <1>3 DEF CleanInv, JobsPushed, Live, Running
  <2>2. JobsOrdered' /\ JobsPushed'
    BY <1>3, <2>1 DEF JobsOrdered, JobsPushed, BeforeTree, AfterTree
  <2>3. MountsTracked'
    BY <1>3, <2>1 DEF CleanInv, MountsTracked, Restored
  <2>4. TransitionTracked'
    <3>1. err = "none" /\ TransSlot' = TransSlot
      BY <1>3 DEF CleanInv, TransitionTracked, TransSlot
    <3> QED
      BY <1>3, <2>1, <3>1 DEF CleanInv, TransitionTracked
  <2> QED
    BY <2>2, <2>3, <2>4 DEF CleanInv
<1> QED
  BY <1>1, <1>2, <1>3 DEF PowerAction, Reboot, PowerLoss

\* A run begins with an empty stack and with the mounts it finds, whatever was before.
LEMMA CleanStart ==
  ASSUME \E recovery \in BOOLEAN, sys, rec \in {"ext2", "squashfs"} : StartUpgrade(recovery, sys, rec)
  PROVE  CleanInv'
<1>1. pc' = "mountState" /\ Len(jobs') = 0 /\ mnt' = mnt /\ start'.mnt = mnt
  BY DEF StartUpgrade
<1>2. JobsOrdered' /\ JobsPushed'
  BY <1>1 DEF JobsOrdered, JobsPushed, BeforeTree, AfterTree
<1>3. MountsTracked' /\ TransitionTracked'
  BY <1>1 DEF MountsTracked, TransitionTracked, Restored
<1> QED
  BY <1>2, <1>3 DEF CleanInv

\* Every step keeps the stack, the mounts and the transition image in line.
LEMMA CleanStep == TypeOK /\ CleanInv /\ [Next]_vars => CleanInv'
<1> SUFFICES ASSUME TypeOK, CleanInv, [Next]_vars PROVE CleanInv'
  OBVIOUS
<1>1. CASE \/ BeforeHook \/ BindTree \/ DumpFailed \/ SelinuxRelabel \/ ChrootHook \/ AfterHook
           \/ SetGrubVariables \/ SetDefaultGrubEntry \/ CreateImage \/ FillImage \/ SquashImage
           \/ CleanTree \/ Backup \/ LabelPassive \/ Swap \/ Sync
           \/ PostHook \/ WriteStateYaml \/ WriteRecoveryYaml
  BY <1>1, CleanWork
<1>2. CASE MountState
  BY <1>2, CleanMountState
<1>3. CASE MountRecovery
  BY <1>3, CleanMountRecovery
<1>4. CASE MountPersistent
  BY <1>4, CleanMountPersistent
<1>5. CASE DumpSource
  BY <1>5, CleanDumpSource
<1>6. CASE JobUmount
  BY <1>6, CleanRevertMount DEF JobUmount
<1>7. CASE JobRemountRO
  BY <1>7, CleanRevertMount DEF JobRemountRO
<1>8. CASE JobRemove
  BY <1>8, CleanJobRemove
<1>9. CASE JobCleanTree
  BY <1>9, CleanJobCleanTree
<1>10. CASE CleanupDone
  BY <1>10, CleanEnd
<1>11. CASE PowerAction \/ Reboot \/ PowerLoss \/ \E s \in SystemSlot : Boot(s)
  BY <1>11, CleanPower
<1>12. CASE \E recovery \in BOOLEAN, sys, rec \in {"ext2", "squashfs"} :
              StartUpgrade(recovery, sys, rec)
  BY <1>12, CleanStart
<1>13. CASE UNCHANGED vars
  BY <1>13 DEF CleanInv, JobsOrdered, JobsPushed, MountsTracked, TransitionTracked, Restored,
               Undo, RemoveJob, CleanJob, HomePart, TransSlot
<1> QED
  BY <1>1, <1>2, <1>3, <1>4, <1>5, <1>6, <1>7, <1>8, <1>9, <1>10, <1>11, <1>12, <1>13
  DEF Next, Step

\* The machine starts with nothing on the stack.
LEMMA CleanInit == Init => CleanInv
<1> SUFFICES ASSUME Init PROVE CleanInv
  OBVIOUS
<1>1. pc = "ready" /\ Len(jobs) = 0 /\ pc \notin Live
  BY Zenon DEF Init, Live, Running
<1> QED
  BY <1>1 DEF CleanInv, JobsOrdered, JobsPushed, MountsTracked, TransitionTracked, BeforeTree,
              AfterTree

\* A run that ends in power or exited has an empty stack, so it is as clean as promised.
LEMMA CleanImplies == TypeOK /\ CleanInv => CleanedUp
<1> SUFFICES ASSUME TypeOK, CleanInv PROVE CleanedUp
  OBVIOUS
<1>1. pc \in {"power", "exited"} => Len(jobs) = 0 /\ pc \in Live
  BY DEF CleanInv, JobsPushed, Live, Running
<1>2. MountsRestored
  <2> SUFFICES ASSUME pc = "exited", ~cleanErr, NEW p \in Part PROVE Restored(p)
    BY DEF MountsRestored, Restored
  <2>1. Restored("state") /\ Restored("recovery") /\ Restored("persistent")
    BY <1>1 DEF CleanInv, MountsTracked
  <2> QED
    BY <2>1 DEF Part, ImgPart
<1>3. TransitionRemoved
  BY <1>1 DEF CleanInv, TransitionTracked, TransitionRemoved
<1> QED
  BY <1>2, <1>3 DEF CleanedUp

\* A run whose cleanup met no error leaves the mounts as it found them and no transition
\* image (the jobs of pkg/utils/cleanstack.go), whatever failed before, after any number
\* of runs and power losses.
THEOREM CleansUp == Spec => []CleanedUp
<1>1. Init => TypeOK /\ CleanInv
  BY TypeInit, CleanInit
<1>2. (TypeOK /\ CleanInv) /\ [Next]_vars => (TypeOK /\ CleanInv)'
  BY TypeStep, CleanStep
<1>3. TypeOK /\ CleanInv => CleanedUp
  BY CleanImplies
<1> QED
  BY <1>1, <1>2, <1>3, PTL DEF Spec
-----------------------------------------------------------------------------
(* The delivered image.                                                    *)

\* The stages up to the extraction of the source, from it to the image, with the
\* image, and after the rename that installs it.
ToExtract == {"mountState", "mountRecovery", "mountPersistent", "beforeHook", "deploy", "dump"}
ToCreate  == {"relabel", "chrootHook", "afterHook", "grubVars", "defaultEntry", "createImg"}
Extracted == ToCreate \cup {"fillImg"}
Rotating  == {"cleanTree", "backup", "label", "swap"}
Settled   == {"postHook", "stateYaml", "recoveryYaml", "cleanup", "power"}
Replaced  == {"sync"} \cup Settled
ToBackup  == ToExtract \cup Extracted \cup {"cleanTree", "backup"}

\* An absent image has no content.
NoFileNoContent == \A s \in Slot : disk[s].fs = "none" => disk[s].content = {}

\* The requested source on its way, in a run that found nothing where it works and
\* has not failed: in the tree, in the transition image, in the final image.
FreshInv ==
  start.fresh /\ err = "none" =>
    /\ pc \in ToExtract => tree[TransSlot] = {}
    /\ pc \in Extracted => tree[TransSlot] = {runs}
    /\ pc \in ToExtract \cup ToCreate => disk[TransSlot].fs = "none"
    /\ pc \in Rotating => disk[TransSlot].content = {runs}
    /\ pc \in Replaced => disk[FinalSlot].content = {runs} /\ disk[FinalSlot].ok
    /\ pc \in Settled => ~disk[FinalSlot].dirty

\* The former active image on its way to passive.
PassiveInv ==
  ~spec.recovery /\ err = "none" =>
    /\ pc \in ToBackup => disk["active"].content = start.active
    /\ pc \in {"label", "swap"} \cup Replaced => disk["passive"].content = start.active

\* A system image comes from some source, and so does what will become one.
FilledInv ==
  /\ disk["active"].fs # "none" => disk["active"].content # {}
  /\ disk["passive"].fs # "none" => disk["passive"].content # {}
  /\ pc \in Extracted => tree[TransSlot] # {}
  /\ pc \in {"backup", "label", "swap"} \/ (pc = "cleanTree" /\ err = "none")
       => disk[TransSlot].content # {}

DeliverInv == /\ NoFileNoContent /\ FreshInv /\ PassiveInv
              /\ pc = "dumpFailed" => err # "none"

\* The transition image is complete and will be installed.
ImageReady == pc \in {"backup", "label", "swap"} \/ (pc = "cleanTree" /\ err = "none")

\* What a run needs of the rotation to deliver, whatever the other images are: a
\* complete transition image to install, and no backup for a recovery upgrade.
RotationReady ==
  /\ ImageReady => disk[TransSlot].fs # "none" /\ disk[TransSlot].ok
  /\ pc \in {"backup", "label"} => ~spec.recovery

LEMMA SafeReady == RotationSafe => RotationReady
BY DEF RotationSafe, RotationReady, ImageReady

\* Steps within a part of a run that leave the images and the scratch trees alone.
LEMMA DeliverQuiet ==
  ASSUME DeliverInv, UNCHANGED <<disk, tree, spec, start, runs>>, err' = "none" => err = "none",
         \/ pc' = "cleanup" /\ err' # "none"
         \/ pc' \in {"exited", "ready"}
         \/ pc \in ToExtract /\ pc' \in ToExtract
         \/ pc \in ToCreate /\ pc' \in ToCreate
         \/ pc \in Settled /\ pc' \in Settled
  PROVE  DeliverInv' /\ (FilledInv => FilledInv')
<1>1. TransSlot' = TransSlot /\ FinalSlot' = FinalSlot
  BY DEF TransSlot, FinalSlot
<1>2. NoFileNoContent'
  BY DEF DeliverInv, NoFileNoContent
<1>3. FreshInv'
  BY <1>1 DEF DeliverInv, FreshInv, ToExtract, ToCreate, Extracted, Rotating, Settled, Replaced
<1>4. PassiveInv'
  BY DEF DeliverInv, PassiveInv, ToExtract, ToCreate, Extracted, Settled, Replaced, ToBackup
<1>5. FilledInv => FilledInv'
  BY <1>1 DEF DeliverInv, FilledInv, ToExtract, ToCreate, Extracted, Settled
<1>6. pc' # "dumpFailed"
  BY DEF ToExtract, ToCreate, Settled
<1> QED
  BY <1>2, <1>3, <1>4, <1>5, <1>6 DEF DeliverInv

\* The steps of a run that touch neither an image nor a scratch tree.
LEMMA DeliverWork ==
  ASSUME DeliverInv,
         \/ MountState \/ MountRecovery \/ MountPersistent \/ BeforeHook \/ AfterHook \/ PostHook
         \/ SelinuxRelabel \/ ChrootHook \/ SetGrubVariables \/ SetDefaultGrubEntry
         \/ WriteStateYaml \/ WriteRecoveryYaml \/ JobUmount \/ JobRemountRO \/ CleanupDone
         \/ \E s \in SystemSlot : Boot(s)
  PROVE  DeliverInv' /\ (FilledInv => FilledInv')
<1> USE DeliverQuiet DEF ToExtract, ToCreate, Settled
<1>1. CASE MountState \/ MountRecovery \/ MountPersistent
  BY <1>1 DEF MountState, MountRecovery, MountPersistent
<1>2. CASE BeforeHook \/ AfterHook \/ PostHook
  BY <1>2 DEF BeforeHook, AfterHook, PostHook, RunHook
<1>3. CASE SelinuxRelabel \/ ChrootHook
  BY <1>3 DEF SelinuxRelabel, ChrootHook, ChrootedCallback
<1>4. CASE SetGrubVariables \/ SetDefaultGrubEntry
  BY <1>4 DEF SetGrubVariables, SetDefaultGrubEntry
<1>5. CASE WriteStateYaml \/ WriteRecoveryYaml
  BY <1>5 DEF WriteStateYaml, WriteRecoveryYaml, WriteYaml
<1>6. CASE JobUmount \/ JobRemountRO
  BY <1>6 DEF JobUmount, JobRemountRO, JobRevertMount, PopJob
<1>7. CASE CleanupDone
  BY <1>7 DEF CleanupDone
<1>8. CASE \E s \in SystemSlot : Boot(s)
  BY <1>8 DEF Boot
<1> QED
  BY <1>1, <1>2, <1>3, <1>4, <1>5, <1>6, <1>7, <1>8

\* The scratch tree holds exactly the requested source once it is extracted.
LEMMA DeliverTree ==
  ASSUME TypeOK, DeliverInv, BindTree \/ DumpSource \/ DumpFailed \/ CleanTree \/ JobCleanTree
  PROVE  DeliverInv' /\ (FilledInv => FilledInv')
<1>1. /\ UNCHANGED <<disk, spec, start, runs>> /\ TransSlot' = TransSlot /\ FinalSlot' = FinalSlot
      /\ TransSlot \in Slot
  BY TransSlotType
  DEF BindTree, DumpSource, DumpFailed, CleanTree, JobCleanTree, TransSlot, FinalSlot
<1>2. NoFileNoContent'
  BY <1>1 DEF DeliverInv, NoFileNoContent
<1>3. CASE pc' = "cleanup" /\ err' # "none"
  BY <1>1, <1>2, <1>3
  DEF DeliverInv, FreshInv, PassiveInv, FilledInv, Extracted, ToCreate
<1>4. CASE pc = "deploy" /\ pc' = "dump" /\ tree' = tree /\ err' = err
  BY <1>1, <1>4, DeliverQuiet DEF ToExtract
<1>5. CASE DumpSource /\ pc' = "relabel"
  <2>1. pc = "dump" /\ err' = err /\ tree'[TransSlot] = tree[TransSlot] \cup {runs}
    BY <1>1, <1>5 DEF DumpSource, TypeOK, PersistentOK
  <2>2. FreshInv'
    BY <1>1, <1>5, <2>1
    DEF DeliverInv, FreshInv, ToExtract, ToCreate, Extracted, Rotating, Settled, Replaced
  <2>3. PassiveInv'
    BY <1>1, <1>5, <2>1
    DEF DeliverInv, PassiveInv, ToBackup, ToExtract, ToCreate, Extracted, Settled, Replaced
  <2>4. FilledInv => FilledInv'
    BY <1>1, <1>5, <2>1 DEF DeliverInv, FilledInv
  <2> QED
    BY <1>2, <1>5, <2>2, <2>3, <2>4 DEF DeliverInv
<1>6. CASE DumpSource /\ pc' = "dumpFailed"
  <2>1. err' # "none"
    BY <1>6 DEF DumpSource
  <2> QED
    BY <1>1, <1>2, <1>6, <2>1
    DEF DeliverInv, FreshInv, PassiveInv, FilledInv, Extracted, ToCreate
<1>7. CASE CleanTree /\ err = "none" /\ pc' \in {"swap", "backup"} /\ err' = err
  <2>1. pc = "cleanTree" /\ (pc' = "swap" <=> spec.recovery)
    BY <1>7 DEF CleanTree
  <2>2. FreshInv'
    BY <1>1, <1>7, <2>1
    DEF DeliverInv, FreshInv, ToExtract, ToCreate, Extracted, Rotating, Settled, Replaced
  <2>3. PassiveInv'
    BY <1>1, <1>7, <2>1
    DEF DeliverInv, PassiveInv, ToBackup, ToExtract, ToCreate, Extracted, Settled, Replaced
  <2>4. FilledInv => FilledInv'
    BY <1>1, <1>7, <2>1 DEF DeliverInv, FilledInv, Extracted, ToCreate
  <2> QED
    BY <1>2, <1>7, <2>2, <2>3, <2>4 DEF DeliverInv
<1>8. CASE JobCleanTree
  <2>1. pc = "cleanup" /\ pc' = "cleanup" /\ err' = err
    BY <1>8 DEF JobCleanTree, PopJob
  <2> QED
    BY <1>1, <1>2, <2>1
    DEF DeliverInv, FreshInv, PassiveInv, FilledInv, ToExtract, ToCreate, Extracted, Rotating,
        Settled, Replaced, ToBackup
<1>9. DumpFailed => pc' = "cleanup" /\ err' # "none"
  BY DEF DumpFailed, DeliverInv
<1>10. BindTree => \/ pc' = "cleanup" /\ err' # "none"
                   \/ pc = "deploy" /\ pc' = "dump" /\ tree' = tree /\ err' = err
  BY DEF BindTree
<1>11. CleanTree => \/ pc' = "cleanup" /\ err' # "none"
                    \/ err = "none" /\ pc' \in {"swap", "backup"} /\ err' = err
  BY DEF CleanTree
<1>12. DumpSource => pc' \in {"relabel", "dumpFailed"}
  BY DEF DumpSource
<1> QED
  BY <1>3, <1>4, <1>5, <1>6, <1>7, <1>8, <1>9, <1>10, <1>11, <1>12

\* A step that writes the transition image only and leaves the run failed.
LEMMA DeliverFails ==
  ASSUME TypeOK, DeliverInv, NEW file, disk' = [disk EXCEPT ![TransSlot] = file],
         file.fs = "none" => file.content = {}, err' # "none", pc' \in {"cleanup", "cleanTree"}
  PROVE  DeliverInv' /\ (FilledInv => FilledInv')
<1>1. \A s \in Slot : disk'[s] = IF s = TransSlot THEN file ELSE disk[s]
  BY DEF TypeOK, PersistentOK
<1>2. disk'["active"] = disk["active"] /\ disk'["passive"] = disk["passive"]
  BY <1>1, TransSlotOther DEF Slot, SystemSlot
<1>3. NoFileNoContent'
  BY <1>1 DEF DeliverInv, NoFileNoContent
<1> QED
  BY <1>2, <1>3 DEF DeliverInv, FreshInv, PassiveInv, FilledInv, Extracted, ToCreate

\* Image files a run writes are there.
LEMMA NewFileThere ==
  ASSUME RunOK, NEW content, NEW ok
  PROVE  /\ NewFile(content, ok).fs # "none" /\ NewFile(content, ok).content = content
         /\ NewFile(content, ok).ok = ok /\ NewFile(content, ok).fs = ImageFS
BY DEF NewFile, RunOK, UpgradeSpec, ImageFS

\* Creating the transition image.
LEMMA DeliverCreate == TypeOK /\ DeliverInv /\ CreateImage => DeliverInv' /\ (FilledInv => FilledInv')
<1> SUFFICES ASSUME TypeOK, DeliverInv, CreateImage PROVE DeliverInv' /\ (FilledInv => FilledInv')
  OBVIOUS
<1>1. /\ UNCHANGED <<tree, spec, start, runs>> /\ TransSlot' = TransSlot /\ TransSlot \in Slot
      /\ disk \in [Slot -> Image] /\ RunOK
  BY TransSlotType DEF CreateImage, TransSlot, TypeOK, PersistentOK
<1>2. CASE ImgFails("cleanTree")
  <2>1. err' # "none" /\ pc' = "cleanTree"
        /\ disk' \in {disk, [disk EXCEPT ![TransSlot] = NoFile],
                    [disk EXCEPT ![TransSlot] = NewFile({}, FALSE)]}
    BY <1>2 DEF CreateImage, ImgFails
  <2>2. \E file : /\ disk' = [disk EXCEPT ![TransSlot] = file]
                  /\ file.fs = "none" => file.content = {}
    <3>1. CASE disk' = disk
      <4>1. disk' = [disk EXCEPT ![TransSlot] = disk[TransSlot]]
        BY <1>1, <3>1
      <4> QED
        BY <1>1, <4>1 DEF DeliverInv, NoFileNoContent
    <3>2. CASE disk' = [disk EXCEPT ![TransSlot] = NoFile]
      <4>1. NoFile.fs = "none" => NoFile.content = {}
        BY DEF NoFile
      <4> QED
        BY <3>2, <4>1
    <3>3. CASE disk' = [disk EXCEPT ![TransSlot] = NewFile({}, FALSE)]
      <4>1. NewFile({}, FALSE).fs # "none"
        BY <1>1, NewFileThere
      <4> QED
        BY <3>3, <4>1
    <3> QED
      BY <2>1, <3>1, <3>2, <3>3
  <2> QED
    BY <1>2, <2>1, <2>2, DeliverFails
<1>3. CASE pc' = "fillImg" /\ err' = err /\ disk' = [disk EXCEPT ![TransSlot] = NewFile({}, FALSE)]
  <2>1. pc = "createImg"
    BY DEF CreateImage
  <2>2. \A s \in Slot : disk'[s] = IF s = TransSlot THEN NewFile({}, FALSE) ELSE disk[s]
    BY <1>1, <1>3
  <2>3. disk'["active"] = disk["active"] /\ disk'["passive"] = disk["passive"]
    BY <2>2, TransSlotOther DEF Slot, SystemSlot
  <2>4. NoFileNoContent'
    <3>1. NewFile({}, FALSE).fs # "none"
      BY <1>1, NewFileThere
    <3> QED
      BY <2>2, <3>1 DEF DeliverInv, NoFileNoContent
  <2>5. FreshInv'
    BY <1>1, <1>3, <2>1
    DEF DeliverInv, FreshInv, ToExtract, ToCreate, Extracted, Rotating, Settled, Replaced
  <2>6. PassiveInv'
    BY <1>1, <1>3, <2>1, <2>3
    DEF DeliverInv, PassiveInv, ToBackup, ToExtract, ToCreate, Extracted, Settled, Replaced
  <2>7. FilledInv => FilledInv'
    BY <1>1, <1>3, <2>1, <2>3 DEF DeliverInv, FilledInv, ToCreate, Extracted
  <2> QED
    BY <1>3, <2>4, <2>5, <2>6, <2>7 DEF DeliverInv
<1> QED
  BY <1>2, <1>3 DEF CreateImage, ImgFails

\* A complete transition image holds what the tree held.
LEMMA DeliverComplete ==
  ASSUME TypeOK, DeliverInv, pc \in Extracted, pc' = "cleanTree", err' = err, NEW old,
         disk' = [disk EXCEPT ![TransSlot] = NewFile(old \cup tree[TransSlot], TRUE)],
         start.fresh /\ err = "none" => old = {}, UNCHANGED <<spec, start, runs, tree>>
  PROVE  DeliverInv' /\ (FilledInv => FilledInv')
<1>1. /\ TransSlot' = TransSlot /\ TransSlot \in Slot /\ disk \in [Slot -> Image] /\ RunOK
  BY TransSlotType DEF TransSlot, TypeOK, PersistentOK
<1>2. \A s \in Slot : disk'[s] = IF s = TransSlot THEN NewFile(old \cup tree[TransSlot], TRUE)
                                 ELSE disk[s]
  BY <1>1
<1>3. disk'["active"] = disk["active"] /\ disk'["passive"] = disk["passive"]
  BY <1>2, TransSlotOther DEF Slot, SystemSlot
<1>4. NoFileNoContent'
  <2>1. NewFile(old \cup tree[TransSlot], TRUE).fs # "none"
    BY <1>1, NewFileThere
  <2> QED
    BY <1>2, <2>1 DEF DeliverInv, NoFileNoContent
<1>5. disk'[TransSlot].content = old \cup tree[TransSlot]
  BY <1>1, <1>2, NewFileThere
<1>6. FreshInv'
  BY <1>1, <1>5
  DEF DeliverInv, FreshInv, ToExtract, ToCreate, Extracted, Rotating, Settled, Replaced
<1>7. PassiveInv'
  BY <1>3
  DEF DeliverInv, PassiveInv, ToBackup, ToExtract, ToCreate, Extracted, Settled, Replaced
<1>8. FilledInv => FilledInv'
  BY <1>1, <1>3, <1>5 DEF DeliverInv, FilledInv, ToCreate, Extracted
<1> QED
  BY <1>4, <1>6, <1>7, <1>8 DEF DeliverInv

\* Copying the tree into the image, or squashing it.
LEMMA DeliverFill == TypeOK /\ DeliverInv /\ (FillImage \/ SquashImage) => DeliverInv' /\ (FilledInv => FilledInv')
<1> SUFFICES ASSUME TypeOK, DeliverInv, FillImage \/ SquashImage PROVE DeliverInv' /\ (FilledInv => FilledInv')
  OBVIOUS
<1>1. /\ UNCHANGED <<tree, spec, start, runs>> /\ pc \in Extracted /\ TransSlot \in Slot
      /\ disk \in [Slot -> Image] /\ RunOK /\ pc' = "cleanTree"
  BY TransSlotType
  DEF FillImage, SquashImage, ImgFails, Extracted, ToCreate, TypeOK, PersistentOK
<1>2. CASE err' # "none"
  <2>1. \/ disk' = disk
        \/ \E ok \in BOOLEAN : disk' = [disk EXCEPT ![TransSlot] = NewFile(tree[TransSlot], ok)]
        \/ disk' = [disk EXCEPT ![TransSlot] = NewFile(disk[TransSlot].content \cup tree[TransSlot], TRUE)]
    BY DEF FillImage, SquashImage
  <2>2. \E file : /\ disk' = [disk EXCEPT ![TransSlot] = file]
                  /\ file.fs = "none" => file.content = {}
    <3>1. CASE disk' = disk
      <4>1. disk' = [disk EXCEPT ![TransSlot] = disk[TransSlot]]
        BY <1>1, <3>1
      <4> QED
        BY <1>1, <4>1 DEF DeliverInv, NoFileNoContent
    <3>2. CASE \E ok \in BOOLEAN : disk' = [disk EXCEPT ![TransSlot] = NewFile(tree[TransSlot], ok)]
      <4>1. PICK ok \in BOOLEAN : disk' = [disk EXCEPT ![TransSlot] = NewFile(tree[TransSlot], ok)]
        BY <3>2
      <4>2. NewFile(tree[TransSlot], ok).fs # "none"
        BY <1>1, NewFileThere
      <4> QED
        BY <4>1, <4>2
    <3>3. CASE disk' = [disk EXCEPT ![TransSlot] = NewFile(disk[TransSlot].content \cup tree[TransSlot], TRUE)]
      <4>1. NewFile(disk[TransSlot].content \cup tree[TransSlot], TRUE).fs # "none"
        BY <1>1, NewFileThere
      <4> QED
        BY <3>3, <4>1
    <3> QED
      BY <2>1, <3>1, <3>2, <3>3
  <2> QED
    BY <1>1, <1>2, <2>2, DeliverFails
<1>3. CASE FillImage /\ err' = "none"
  <2>1. err' = err /\ disk' = [disk EXCEPT ![TransSlot] = NewFile({} \cup tree[TransSlot], TRUE)]
    BY <1>3 DEF FillImage, ImgFails
  <2> QED
    BY <1>1, <2>1, DeliverComplete
<1>4. CASE SquashImage /\ err' = "none"
  <2>1. /\ err' = err /\ pc = "createImg"
        /\ disk' = [disk EXCEPT ![TransSlot] = NewFile(disk[TransSlot].content \cup tree[TransSlot], TRUE)]
    BY <1>4 DEF SquashImage, ImgFails
  <2>2. start.fresh /\ err = "none" => disk[TransSlot].content = {}
    BY <1>1, <2>1 DEF DeliverInv, FreshInv, ToCreate, NoFileNoContent
  <2> QED
    BY <1>1, <2>1, <2>2, DeliverComplete
<1> QED
  BY <1>2, <1>3, <1>4

\* A sync, a power loss and a relabelling change neither files nor contents.
SameFiles == \A s \in Slot : disk'[s].fs = disk[s].fs /\ disk'[s].content = disk[s].content

\* The sync marks every image as written to the disk and changes nothing else.
LEMMA SyncKeepsFiles ==
  ASSUME NEW d \in [Slot -> Image], disk' = Synced(d)
  PROVE  \A s \in Slot : /\ disk'[s].fs = d[s].fs /\ disk'[s].content = d[s].content
                         /\ disk'[s].ok = d[s].ok /\ disk'[s].label = d[s].label
                         /\ disk'[s].dirty = FALSE
BY DEF Synced, Image

\* The machine is down: only the images matter.
LEMMA DeliverOff ==
  ASSUME DeliverInv, pc' = "off", SameFiles
  PROVE  DeliverInv' /\ (FilledInv => FilledInv')
<1>1. NoFileNoContent'
  BY DEF DeliverInv, NoFileNoContent, SameFiles
<1>2. FreshInv' /\ PassiveInv' /\ (FilledInv => FilledInv')
  BY DEF DeliverInv, FreshInv, PassiveInv, FilledInv, ToBackup, ToExtract, ToCreate, Extracted,
         Rotating, Settled, Replaced, SameFiles, Slot
<1> QED
  BY <1>1, <1>2 DEF DeliverInv

\* The backup makes the former active image the passive one.
LEMMA DeliverBackup == TypeOK /\ RotationReady /\ DeliverInv /\ Backup => DeliverInv' /\ (FilledInv => FilledInv')
<1> SUFFICES ASSUME TypeOK, RotationReady, DeliverInv, Backup PROVE DeliverInv' /\ (FilledInv => FilledInv')
  OBVIOUS
<1>1. CASE pc' = "label" /\ err' = err /\ disk["active"].fs # "none" /\ disk' = Renamed("active", "passive")
  <2>1. /\ pc = "backup" /\ ~spec.recovery /\ UNCHANGED <<tree, spec, start, runs>>
        /\ TransSlot = "transState" /\ TransSlot' = "transState"
    BY DEF Backup, RotationReady, TransSlot
  <2>2. /\ disk'["passive"] = disk["active"] /\ disk'["active"] = NoFile
        /\ disk'["recovery"] = disk["recovery"] /\ disk'["transState"] = disk["transState"]
        /\ disk'["transRecovery"] = disk["transRecovery"]
    BY <1>1 DEF Renamed, TypeOK, PersistentOK, Slot
  <2>3. NoFile.fs = "none" /\ NoFile.content = {}
    BY DEF NoFile
  <2>4. NoFileNoContent'
    BY <2>2, <2>3 DEF DeliverInv, NoFileNoContent, Slot
  <2>5. FreshInv'
    BY <1>1, <2>1, <2>2
    DEF DeliverInv, FreshInv, ToExtract, ToCreate, Extracted, Rotating, Settled, Replaced
  <2>6. PassiveInv'
    BY <1>1, <2>1, <2>2
    DEF DeliverInv, PassiveInv, ToBackup, ToExtract, ToCreate, Extracted, Settled, Replaced
  <2>7. FilledInv => FilledInv'
    BY <1>1, <2>1, <2>2, <2>3 DEF DeliverInv, FilledInv, ToCreate, Extracted
  <2> QED
    BY <1>1, <2>4, <2>5, <2>6, <2>7 DEF DeliverInv
<1>2. CASE Abort("MoveFile") /\ UNCHANGED disk
  BY <1>2, DeliverQuiet DEF Backup
<1> QED
  BY <1>1, <1>2 DEF Backup

LEMMA Relabelled ==
  ASSUME TypeOK
  PROVE  [disk EXCEPT !["passive"].label = spec.passiveLabel] \in [Slot -> Image]
<1>1. spec.passiveLabel \in Label
  BY DEF TypeOK, RunOK, UpgradeSpec
<1>2. \A i \in Image, l \in Label : [i EXCEPT !.label = l] \in Image
  BY DEF Image
<1> QED
  BY <1>1, <1>2 DEF TypeOK, PersistentOK

\* Relabelling and syncing keep every content.
LEMMA DeliverLabel == TypeOK /\ DeliverInv /\ LabelPassive => DeliverInv' /\ (FilledInv => FilledInv')
<1> SUFFICES ASSUME TypeOK, DeliverInv, LabelPassive PROVE DeliverInv' /\ (FilledInv => FilledInv')
  OBVIOUS
<1>1. CASE pc' = "swap" /\ err' = err
           /\ disk' = Synced([disk EXCEPT !["passive"].label = spec.passiveLabel])
  <2>1. pc = "label" /\ UNCHANGED <<tree, spec, start, runs>> /\ TransSlot' = TransSlot
        /\ TransSlot \in Slot /\ "active" \in Slot /\ "passive" \in Slot
    BY TransSlotType DEF LabelPassive, TransSlot, Slot
  <2>2. [disk EXCEPT !["passive"].label = spec.passiveLabel] \in [Slot -> Image]
    BY Relabelled
  <2>3. SameFiles
    <3> DEFINE d == [disk EXCEPT !["passive"].label = spec.passiveLabel]
    <3>1. \A s \in Slot : d[s].fs = disk[s].fs /\ d[s].content = disk[s].content
      BY DEF TypeOK, PersistentOK, Image
    <3>2. \A s \in Slot : disk'[s].fs = d[s].fs /\ disk'[s].content = d[s].content
      <4>1. d \in [Slot -> Image] /\ disk' = Synced(d)
        BY <1>1, <2>2
      <4> HIDE DEF d
      <4> QED
        BY <4>1, SyncKeepsFiles
    <3> QED
      BY <3>1, <3>2 DEF SameFiles
  <2>4. NoFileNoContent'
    BY <2>3 DEF DeliverInv, NoFileNoContent, SameFiles
  <2>5. FreshInv'
    BY <1>1, <2>1, <2>3
    DEF DeliverInv, FreshInv, ToExtract, ToCreate, Extracted, Rotating, Settled, Replaced, SameFiles
  <2>6. PassiveInv'
    BY <1>1, <2>1, <2>3
    DEF DeliverInv, PassiveInv, ToBackup, ToExtract, ToCreate, Extracted, Settled, Replaced, SameFiles
  <2>7. FilledInv => FilledInv'
    BY <1>1, <2>1, <2>3 DEF DeliverInv, FilledInv, ToCreate, Extracted, SameFiles
  <2> QED
    BY <1>1, <2>4, <2>5, <2>6, <2>7 DEF DeliverInv
<1>2. CASE Abort("LabelImage") /\ UNCHANGED disk
  BY <1>2, DeliverQuiet DEF LabelPassive
<1> QED
  BY <1>1, <1>2 DEF LabelPassive

\* What a rename does to the images.
LEMMA SwapMoves ==
  ASSUME TypeOK, disk' = Renamed(TransSlot, FinalSlot)
  PROVE  /\ disk'[FinalSlot] = disk[TransSlot] /\ disk'[TransSlot] = NoFile
         /\ \A s \in Slot \ {TransSlot, FinalSlot} : disk'[s] = disk[s]
         /\ FinalSlot \in {"active", "recovery"} /\ TransSlot \in {"transState", "transRecovery"}
         /\ FinalSlot = "active" <=> ~spec.recovery
BY DEF Renamed, FinalSlot, TransSlot, TypeOK, PersistentOK, Slot

\* The transition image, complete and of the requested source, becomes the final image.
LEMMA DeliverSwap == TypeOK /\ RotationReady /\ DeliverInv /\ Swap => DeliverInv' /\ (FilledInv => FilledInv')
<1> SUFFICES ASSUME TypeOK, RotationReady, DeliverInv, Swap PROVE DeliverInv' /\ (FilledInv => FilledInv')
  OBVIOUS
<1>1. CASE pc' = "sync" /\ err' = err /\ disk' = Renamed(TransSlot, FinalSlot)
  <2>1. /\ pc = "swap" /\ UNCHANGED <<tree, spec, start, runs>> /\ FinalSlot' = FinalSlot
    BY DEF Swap, FinalSlot
  <2>2. disk[TransSlot].ok /\ disk[TransSlot].fs # "none"
    BY <2>1 DEF RotationReady, ImageReady
  <2>3. NoFile.fs = "none" /\ NoFile.content = {}
    BY DEF NoFile
  <2>4. /\ disk'[FinalSlot] = disk[TransSlot]
        /\ disk'["passive"] = disk["passive"]
        /\ disk'["active"] = IF spec.recovery THEN disk["active"] ELSE disk[TransSlot]
    BY <1>1, SwapMoves DEF Slot
  <2>5. NoFileNoContent'
    BY <1>1, <2>2, <2>3, SwapMoves DEF DeliverInv, NoFileNoContent
  <2>6. FreshInv'
    BY <1>1, <2>1, <2>2, <2>4
    DEF DeliverInv, FreshInv, ToExtract, ToCreate, Extracted, Rotating, Settled, Replaced
  <2>7. PassiveInv'
    BY <1>1, <2>1, <2>4
    DEF DeliverInv, PassiveInv, ToBackup, ToExtract, ToCreate, Extracted, Settled, Replaced
  <2>8. FilledInv => FilledInv'
    BY <1>1, <2>1, <2>4 DEF DeliverInv, FilledInv, ToCreate, Extracted
  <2> QED
    BY <1>1, <2>5, <2>6, <2>7, <2>8 DEF DeliverInv
<1>2. CASE Abort("MoveFile") /\ UNCHANGED disk
  BY <1>2, DeliverQuiet DEF Swap
<1> QED
  BY <1>1, <1>2 DEF Swap

\* The sync settles the final image.
LEMMA DeliverSync == TypeOK /\ DeliverInv /\ Sync => DeliverInv' /\ (FilledInv => FilledInv')
<1> SUFFICES ASSUME TypeOK, DeliverInv, Sync PROVE DeliverInv' /\ (FilledInv => FilledInv')
  OBVIOUS
<1>1. /\ pc = "sync" /\ pc' = "postHook" /\ err' = err /\ UNCHANGED <<tree, spec, start, runs>>
      /\ FinalSlot' = FinalSlot /\ FinalSlot \in Slot /\ "active" \in Slot /\ "passive" \in Slot
  BY TransSlotType DEF Sync, FinalSlot, Slot
<1>2. \A s \in Slot : /\ disk'[s].fs = disk[s].fs /\ disk'[s].content = disk[s].content
                      /\ disk'[s].ok = disk[s].ok /\ disk'[s].dirty = FALSE
  BY SyncKeepsFiles DEF Sync, TypeOK, PersistentOK
<1>3. NoFileNoContent'
  BY <1>2 DEF DeliverInv, NoFileNoContent
<1>4. FreshInv'
  BY <1>1, <1>2
  DEF DeliverInv, FreshInv, ToExtract, ToCreate, Extracted, Rotating, Settled, Replaced
<1>5. PassiveInv'
  BY <1>1, <1>2
  DEF DeliverInv, PassiveInv, ToBackup, ToExtract, ToCreate, Extracted, Settled, Replaced
<1>6. FilledInv => FilledInv'
  BY <1>1, <1>2 DEF DeliverInv, FilledInv, ToCreate, Extracted
<1> QED
  BY <1>1, <1>3, <1>4, <1>5, <1>6 DEF DeliverInv

\* The cleanup removes a transition image only.
LEMMA DeliverRemove == TypeOK /\ DeliverInv /\ JobRemove => DeliverInv' /\ (FilledInv => FilledInv')
<1> SUFFICES ASSUME TypeOK, DeliverInv, JobRemove PROVE DeliverInv' /\ (FilledInv => FilledInv')
  OBVIOUS
<1>1. /\ pc = "cleanup" /\ pc' = "cleanup" /\ err' = err /\ UNCHANGED <<tree, spec, start, runs>>
      /\ FinalSlot' = FinalSlot /\ FinalSlot \in SystemSlot
  BY DEF JobRemove, PopJob, FinalSlot, SystemSlot
<1>2. \A s \in SystemSlot : disk'[s] = disk[s]
  BY TransSlotOther DEF JobRemove, TypeOK, PersistentOK, SystemSlot, Slot
<1>3. NoFile.fs = "none" /\ NoFile.content = {}
  BY DEF NoFile
<1>4. disk' = disk \/ \A s \in Slot : disk'[s] = IF s = TransSlot THEN NoFile ELSE disk[s]
  BY DEF JobRemove, TypeOK, PersistentOK
<1>5. NoFileNoContent'
  BY <1>3, <1>4 DEF DeliverInv, NoFileNoContent
<1>6. FreshInv'
  BY <1>1, <1>2
  DEF DeliverInv, FreshInv, ToExtract, ToCreate, Extracted, Rotating, Settled, Replaced
<1>7. PassiveInv'
  BY <1>1, <1>2
  DEF DeliverInv, PassiveInv, ToBackup, ToExtract, ToCreate, Extracted, Settled, Replaced, SystemSlot
<1>8. FilledInv => FilledInv'
  BY <1>1, <1>2 DEF DeliverInv, FilledInv, ToCreate, Extracted, SystemSlot
<1> QED
  BY <1>1, <1>5, <1>6, <1>7, <1>8 DEF DeliverInv

\* Going down and coming up.
LEMMA DeliverPower ==
  ASSUME TypeOK, DeliverInv, PowerAction \/ Reboot \/ PowerLoss
  PROVE  DeliverInv' /\ (FilledInv => FilledInv')
<1>1. CASE pc' = "off" /\ disk' = Synced(disk)
  <2>1. SameFiles
    BY <1>1, SyncKeepsFiles DEF SameFiles, TypeOK, PersistentOK
  <2> QED
    BY <1>1, <2>1, DeliverOff
<1>2. CASE PowerLoss
  <2>1. PICK torn \in SUBSET {s \in Slot : disk[s].dirty} :
          disk' = Synced([s \in Slot |-> [disk[s] EXCEPT !.ok = @ /\ s \notin torn]])
    BY <1>2 DEF PowerLoss
  <2>2. ASSUME NEW s \in Slot PROVE disk'[s].fs = disk[s].fs /\ disk'[s].content = disk[s].content
    <3>1. disk'[s] = [[disk[s] EXCEPT !.ok = @ /\ s \notin torn] EXCEPT !.dirty = FALSE]
      BY <2>1, Zenon DEF Synced
    <3> QED
      BY <3>1 DEF TypeOK, PersistentOK, Image
  <2> QED
    BY <1>2, <2>2, DeliverOff DEF PowerLoss, PoweredOff, SameFiles
<1>3. CASE pc = "power" /\ pc' = "exited" /\ UNCHANGED <<disk, tree, spec, start, runs>>
           /\ (err' = "none" => err = "none")
  BY <1>3, DeliverQuiet
<1> QED
  BY <1>1, <1>2, <1>3 DEF PowerAction, Reboot, PowerLoss, PoweredOff

\* A run begins with what "fresh" and the active image say of the machine.
LEMMA DeliverStart ==
  ASSUME NoFileNoContent, \E recovery \in BOOLEAN, sys, rec \in {"ext2", "squashfs"} :
                            StartUpgrade(recovery, sys, rec)
  PROVE  DeliverInv' /\ (FilledInv => FilledInv')
<1>1. PICK recovery \in BOOLEAN, sys \in {"ext2", "squashfs"}, rec \in {"ext2", "squashfs"} :
        StartUpgrade(recovery, sys, rec)
  OBVIOUS
<1>2. /\ pc' = "mountState" /\ UNCHANGED <<disk, tree>> /\ spec'.recovery = recovery
      /\ start'.active = disk["active"].content
      /\ LET slot == IF recovery THEN "transRecovery" ELSE "transState"
         IN  start'.fresh => tree[slot] = {} /\ disk[slot].fs = "none"
  BY <1>1, Zenon DEF StartUpgrade, NewSpec
<1>3. TransSlot' = IF recovery THEN "transRecovery" ELSE "transState"
  BY <1>2 DEF TransSlot
<1>4. NoFileNoContent'
  BY <1>2 DEF NoFileNoContent
<1>5. FreshInv'
  BY <1>2, <1>3
  DEF FreshInv, ToExtract, ToCreate, Extracted, Rotating, Settled, Replaced
<1>6. PassiveInv' /\ (FilledInv => FilledInv')
  BY <1>2 DEF PassiveInv, FilledInv, ToBackup, ToExtract, ToCreate, Extracted,
              Settled, Replaced
<1> QED
  BY <1>2, <1>4, <1>5, <1>6 DEF DeliverInv

\* Every step keeps the requested source and the former active image on their way.
LEMMA DeliverStep == TypeOK /\ RotationReady /\ DeliverInv /\ [Next]_vars => DeliverInv' /\ (FilledInv => FilledInv')
<1> SUFFICES ASSUME TypeOK, RotationReady, DeliverInv, [Next]_vars PROVE DeliverInv' /\ (FilledInv => FilledInv')
  OBVIOUS
<1>1. CASE Step
  BY <1>1, DeliverWork, DeliverTree, DeliverCreate, DeliverFill, DeliverBackup, DeliverLabel,
     DeliverSwap, DeliverSync, DeliverRemove, DeliverPower
  DEF Step
<1>2. CASE ~Step /\ Next
  <2>1. NoFileNoContent
    BY DEF DeliverInv
  <2> QED
    BY <1>2, <2>1, DeliverStart, DeliverPower, DeliverWork DEF Next
<1>3. CASE UNCHANGED vars
  <2>1. TransSlot' = TransSlot /\ FinalSlot' = FinalSlot
    BY <1>3 DEF TransSlot, FinalSlot
  <2> QED
    BY <1>3, <2>1 DEF DeliverInv, NoFileNoContent, FreshInv, PassiveInv, FilledInv
<1> QED
  BY <1>1, <1>2, <1>3

\* The machine starts with images of the installed source.
LEMMA DeliverInit == Init => DeliverInv /\ FilledInv
<1> SUFFICES ASSUME Init PROVE DeliverInv /\ FilledInv
  OBVIOUS
<1>1. PICK sys \in SystemFS, rec \in RecoveryFS : disk = InstalledDisk(sys, rec, {0})
  BY Zenon DEF Init
<1>2. pc = "ready"
  BY Zenon DEF Init
<1>3. ASSUME NEW s \in Slot
      PROVE  /\ disk[s].fs = "none" => disk[s].content = {}
             /\ s \in {"active", "passive"} => disk[s].content # {}
  <2>1. /\ NoFile.content = {} /\ sys # "none" /\ rec # "none"
        /\ \A fs, label : /\ Installed(fs, label, {0}).fs = fs
                          /\ Installed(fs, label, {0}).content = {0}
    BY UpgradeAssumption DEF NoFile, Installed
  <2> QED
    BY <1>1, <2>1 DEF InstalledDisk, Slot
<1>4. NoFileNoContent /\ FilledInv
  BY <1>2, <1>3 DEF NoFileNoContent, FilledInv, Slot, Extracted, ToCreate
<1> QED
  BY <1>2, <1>4 DEF DeliverInv, FreshInv, PassiveInv, ToBackup, ToExtract, ToCreate, Extracted,
                    Rotating, Settled, Replaced

\* The invariants of a run, together.
RunInv == TypeOK /\ RotationSafe /\ CleanInv /\ DeliverInv /\ FilledInv

\* They hold of every run.
THEOREM RunCorrect == Spec => []RunInv
<1>1. Init => RunInv
  BY TypeInit, RotationInit, CleanInit, DeliverInit DEF RunInv
<1>2. RunInv /\ [Next]_vars => RunInv'
  BY TypeStep, RotationStep, CleanStep, SafeReady, DeliverStep DEF RunInv
<1> QED
  BY <1>1, <1>2, PTL DEF Spec

\* What the invariants say of a run that has reached its power action without error.
LEMMA DeliverImplies == CleanInv /\ DeliverInv => DeliversRequestedImage
<1> SUFFICES ASSUME CleanInv, DeliverInv, pc = "power", start.fresh
             PROVE  /\ disk[FinalSlot].content = {runs} /\ disk[FinalSlot].ok
                    /\ ~disk[FinalSlot].dirty
                    /\ ~spec.recovery => disk["passive"].content = start.active
  BY DEF DeliversRequestedImage
<1>1. err = "none"
  BY DEF CleanInv, TransitionTracked
<1>2. FreshInv /\ PassiveInv
  BY DEF DeliverInv
<1> QED
  BY <1>1, <1>2 DEF FreshInv, PassiveInv, Settled, Replaced

\* When an upgrade succeeds, the image it replaced is complete, synced and exactly the
\* requested source, and a system upgrade that did not run from the passive image kept the
\* former active one as passive (Run of upgrade.go), after any runs, failed calls and power losses before it.
THEOREM Delivers == Spec => []DeliversRequestedImage
<1>1. RunInv => DeliversRequestedImage
  BY DeliverImplies DEF RunInv
<1> QED
  BY <1>1, RunCorrect, PTL
-----------------------------------------------------------------------------
(* The record in state.yaml.                                               *)

\* What the run loaded describes the images until the rotation; between the renames it
\* describes what has not been touched; the state it will write describes what it installed.
TrustInv ==
  start.trusted /\ err = "none" =>
    /\ pc \in ToBackup => Accurate(loaded)
    /\ pc \in {"label", "swap"} /\ ~spec.recovery =>
         /\ loaded.active.src = disk["passive"].content
         /\ loaded.recovery.src = disk["recovery"].content
    /\ pc = "swap" /\ spec.recovery => Accurate(loaded)
    /\ pc \in Replaced /\ start.fresh => Accurate(NewInstallState)

\* The copies of state.yaml written so far.
YamlInv ==
  err = "none" =>
    /\ pc = "recoveryYaml" => yaml["state"] = NewInstallState
    /\ pc \in {"cleanup", "power"} => \A p \in ImgPart : yaml[p] = NewInstallState

RecordInv == TrustInv /\ YamlInv

\* Who does not know the active image does not know the passive one either.
Paired(state) == state.active.src = {} => state.passive.src = {}
PairedInv == Paired(loaded) /\ \A p \in ImgPart : Paired(yaml[p])

\* The state to write depends on what was loaded and on the run only.
LEMMA SameRecord == UNCHANGED <<loaded, spec, runs>> => NewInstallState' = NewInstallState
BY DEF NewInstallState, ImageFS, ImageLabel

\* Steps within a part of a run that leave the contents of the system images and the
\* copies of state.yaml alone.
LEMMA RecordQuiet ==
  ASSUME RecordInv, UNCHANGED <<yaml, loaded, spec, start, runs>>, err' = "none" => err = "none",
         \A s \in SystemSlot : disk'[s].content = disk[s].content,
         \/ pc' = "cleanup" /\ err' # "none"
         \/ pc' \in {"exited", "ready", "off", "dumpFailed"}
         \/ pc \in ToBackup /\ pc' \in ToBackup
         \/ pc \in Replaced /\ pc' \in Replaced /\ pc' # "recoveryYaml"
            /\ (pc' \in {"cleanup", "power"} => pc \in {"cleanup", "power"})
  PROVE  RecordInv'
<1>1. NewInstallState' = NewInstallState
  BY SameRecord
<1>2. /\ Accurate(loaded)' <=> Accurate(loaded)
      /\ Accurate(NewInstallState)' <=> Accurate(NewInstallState)
  BY <1>1 DEF Accurate, SystemSlot
<1>3. TrustInv'
  BY <1>2 DEF RecordInv, TrustInv, ToBackup, ToExtract, ToCreate, Extracted, Settled, Replaced
<1>4. YamlInv'
  BY <1>1 DEF RecordInv, YamlInv, ToBackup, ToExtract, ToCreate, Extracted, Settled, Replaced
<1> QED
  BY <1>3, <1>4 DEF RecordInv

\* The steps of a run that neither rotate the images nor write state.yaml.
LEMMA RecordWork ==
  ASSUME TypeOK, RecordInv, DeliverInv,
         \/ MountState \/ MountRecovery \/ MountPersistent \/ BeforeHook \/ AfterHook \/ PostHook
         \/ SelinuxRelabel \/ ChrootHook \/ SetGrubVariables \/ SetDefaultGrubEntry
         \/ BindTree \/ DumpSource \/ DumpFailed \/ CreateImage \/ FillImage \/ SquashImage
         \/ JobUmount \/ JobRemountRO \/ JobRemove \/ JobCleanTree \/ CleanupDone
         \/ Sync \/ \E s \in SystemSlot : Boot(s)
  PROVE  RecordInv'
<1>0. SystemSlot \subseteq Slot
  BY DEF SystemSlot, Slot
<1> USE RecordQuiet DEF ToBackup, ToExtract, ToCreate, Extracted, Settled, Replaced
<1>1. CASE MountState \/ MountRecovery \/ MountPersistent
  BY <1>1 DEF MountState, MountRecovery, MountPersistent
<1>2. CASE BeforeHook \/ AfterHook \/ PostHook
  BY <1>2 DEF BeforeHook, AfterHook, PostHook, RunHook
<1>3. CASE SelinuxRelabel \/ ChrootHook
  BY <1>3 DEF SelinuxRelabel, ChrootHook, ChrootedCallback
<1>4. CASE SetGrubVariables \/ SetDefaultGrubEntry
  BY <1>4 DEF SetGrubVariables, SetDefaultGrubEntry
<1>5. CASE BindTree \/ DumpSource \/ DumpFailed
  BY <1>5 DEF BindTree, DumpSource, DumpFailed, DeliverInv
<1>6. CASE CreateImage \/ FillImage \/ SquashImage
  <2>1. \A s \in SystemSlot : disk'[s] = disk[s]
    BY <1>0, <1>6, TransSlotOther DEF CreateImage, FillImage, SquashImage, TypeOK, PersistentOK
  <2> QED
    BY <1>6, <2>1 DEF CreateImage, FillImage, SquashImage, ImgFails
<1>7. CASE JobUmount \/ JobRemountRO \/ JobCleanTree
  BY <1>7 DEF JobUmount, JobRemountRO, JobRevertMount, JobCleanTree, PopJob
<1>8. CASE JobRemove
  <2>1. \A s \in SystemSlot : disk'[s] = disk[s]
    BY <1>0, <1>8, TransSlotOther DEF JobRemove, TypeOK, PersistentOK
  <2> QED
    BY <1>8, <2>1 DEF JobRemove, PopJob
<1>9. CASE CleanupDone
  BY <1>9 DEF CleanupDone
<1>10. CASE Sync
  <2>1. \A s \in Slot : disk'[s].content = disk[s].content
    BY <1>10, SyncKeepsFiles DEF Sync, TypeOK, PersistentOK
  <2> QED
    BY <1>0, <1>10, <2>1 DEF Sync
<1>11. CASE \E s \in SystemSlot : Boot(s)
  BY <1>11 DEF Boot
<1> QED
  BY <1>1, <1>2, <1>3, <1>4, <1>5, <1>6, <1>7, <1>8, <1>9, <1>10, <1>11

\* Between the scratch tree and the first rename what was loaded still holds.
LEMMA RecordCleanTree == RecordInv /\ CleanTree => RecordInv'
<1> SUFFICES ASSUME RecordInv, CleanTree PROVE RecordInv'
  OBVIOUS
<1>1. /\ pc = "cleanTree" /\ UNCHANGED <<disk, yaml, loaded, spec, start, runs>>
      /\ \/ pc' = "cleanup" /\ err' # "none"
         \/ err' = err /\ pc' = "backup"
         \/ err' = err /\ pc' = "swap" /\ spec.recovery
  BY DEF CleanTree
<1>2. CASE pc' # "swap"
  BY <1>1, <1>2, RecordQuiet DEF ToBackup
<1>3. CASE pc' = "swap"
  BY <1>1, <1>3 DEF RecordInv, TrustInv, YamlInv, Accurate, ToBackup, ToExtract, ToCreate,
                    Extracted, Settled, Replaced
<1> QED
  BY <1>2, <1>3

\* The backup: passive now has the content that is recorded for active.
LEMMA RecordBackup == TypeOK /\ RecordInv /\ Backup => RecordInv'
<1> SUFFICES ASSUME TypeOK, RecordInv, Backup PROVE RecordInv'
  OBVIOUS
<1>1. CASE pc' = "label" /\ err' = err /\ disk["active"].fs # "none" /\ disk' = Renamed("active", "passive")
  <2>1. pc = "backup" /\ UNCHANGED <<yaml, loaded, spec, start, runs>>
    BY DEF Backup
  <2>2. disk'["passive"] = disk["active"] /\ disk'["recovery"] = disk["recovery"]
    BY <1>1 DEF Renamed, TypeOK, PersistentOK, Slot
  <2>3. start.trusted /\ err = "none" =>
          loaded.active.src = disk["active"].content /\ loaded.recovery.src = disk["recovery"].content
    BY <2>1 DEF RecordInv, TrustInv, ToBackup, Accurate
  <2> QED
    BY <1>1, <2>1, <2>2, <2>3
    DEF RecordInv, TrustInv, YamlInv, ToBackup, ToExtract, ToCreate, Extracted, Settled, Replaced
<1>2. CASE Abort("MoveFile") /\ UNCHANGED disk
  BY <1>2, RecordQuiet DEF Backup
<1> QED
  BY <1>1, <1>2 DEF Backup

\* Relabelling changes no content.
LEMMA RecordLabel == TypeOK /\ RotationReady /\ RecordInv /\ LabelPassive => RecordInv'
<1> SUFFICES ASSUME TypeOK, RotationReady, RecordInv, LabelPassive PROVE RecordInv'
  OBVIOUS
<1>1. CASE pc' = "swap" /\ err' = err
           /\ disk' = Synced([disk EXCEPT !["passive"].label = spec.passiveLabel])
  <2>1. pc = "label" /\ UNCHANGED <<yaml, loaded, spec, start, runs>> /\ ~spec.recovery
    BY DEF LabelPassive, RotationReady
  <2>2. \A s \in Slot : disk'[s].content = disk[s].content
    BY <1>1 DEF Synced, TypeOK, PersistentOK, Image
  <2>3. "passive" \in Slot /\ "recovery" \in Slot
    BY DEF Slot
  <2> QED
    BY <1>1, <2>1, <2>2, <2>3
    DEF RecordInv, TrustInv, YamlInv, ToBackup, ToExtract, ToCreate, Extracted, Settled, Replaced
<1>2. CASE Abort("LabelImage") /\ UNCHANGED disk
  BY <1>2, RecordQuiet DEF LabelPassive
<1> QED
  BY <1>1, <1>2 DEF LabelPassive

\* What the new state says of each image.
LEMMA NewRecord ==
  ASSUME TypeOK
  PROVE  /\ spec.recovery =>
              /\ NewInstallState.recovery.src = {runs}
              /\ NewInstallState.active = loaded.active /\ NewInstallState.passive = loaded.passive
         /\ ~spec.recovery =>
              /\ NewInstallState.active.src = {runs} /\ NewInstallState.recovery = loaded.recovery
              /\ Paired(loaded) => NewInstallState.passive.src = loaded.active.src
         /\ NewInstallState.file = "whole"
<1>1. /\ loaded \in InstallState /\ loaded.active \in Entry /\ loaded.passive \in Entry
      /\ loaded.recovery \in Entry
  BY DEF TypeOK, RunOK, InstallState
<1>2. CASE spec.recovery
  BY <1>1, <1>2 DEF NewInstallState, InstallState
<1>3. CASE ~spec.recovery
  <2> DEFINE pas == IF loaded.passive.src = {}
                    THEN [loaded.passive EXCEPT !.label = spec.passiveLabel] ELSE loaded.passive
             img == [src |-> {runs}, fs |-> ImageFS, label |-> ImageLabel]
             rec == IF loaded.active.src = {} THEN pas
                    ELSE [pas EXCEPT !.src = loaded.active.src, !.fs = loaded.active.fs]
  <2>1. NewInstallState = [[loaded EXCEPT !.file = "whole"] EXCEPT !.active = img, !.passive = rec]
    BY <1>3 DEF NewInstallState
  <2>2. pas \in [src : SUBSET Version, fs : {"ext2", "squashfs"}, label : {spec.passiveLabel} \cup Label]
    BY <1>1 DEF Entry
  <2>3. Paired(loaded) => rec.src = loaded.active.src
    <3>1. pas.src = loaded.passive.src
      BY <1>1 DEF Entry
    <3> QED
      BY <2>2, <3>1 DEF Paired
  <2>4. img.src = {runs}
    OBVIOUS
  <2> HIDE DEF pas, img, rec
  <2>5. /\ NewInstallState.active = img /\ NewInstallState.passive = rec
        /\ NewInstallState.recovery = loaded.recovery /\ NewInstallState.file = "whole"
    BY <1>1, <2>1 DEF InstallState
  <2> QED
    BY <1>3, <2>3, <2>4, <2>5
<1> QED
  BY <1>2, <1>3

\* The rename installs what the new state will say.
LEMMA RecordSwap == TypeOK /\ RecordInv /\ PairedInv /\ DeliverInv /\ Swap => RecordInv'
<1> SUFFICES ASSUME TypeOK, RecordInv, PairedInv, DeliverInv, Swap PROVE RecordInv'
  OBVIOUS
<1>1. CASE pc' = "sync" /\ err' = err /\ disk' = Renamed(TransSlot, FinalSlot)
  <2>1. pc = "swap" /\ UNCHANGED <<yaml, loaded, spec, start, runs>>
    BY DEF Swap
  <2>2. disk'[FinalSlot] = disk[TransSlot] /\ \A s \in SystemSlot \ {FinalSlot} : disk'[s] = disk[s]
    BY <1>1, SwapMoves, TransSlotOther DEF SystemSlot, Slot
  <2>3. start.fresh /\ err = "none" => disk[TransSlot].content = {runs}
    BY <2>1 DEF DeliverInv, FreshInv, Rotating
  <2>4. start.trusted /\ start.fresh /\ err = "none" => Accurate(NewInstallState)'
    <3> SUFFICES ASSUME start.trusted, start.fresh, err = "none" PROVE Accurate(NewInstallState)'
      OBVIOUS
    <3>1. NewInstallState' = NewInstallState
      BY <2>1, SameRecord
    <3>2. CASE spec.recovery
      <4>1. FinalSlot = "recovery" /\ disk'["active"] = disk["active"] /\ disk'["passive"] = disk["passive"]
        BY <2>2, <3>2 DEF FinalSlot, SystemSlot
      <4>2. Accurate(loaded)
        BY <2>1, <3>2 DEF RecordInv, TrustInv
      <4>3. /\ NewInstallState.recovery.src = {runs} /\ NewInstallState.active = loaded.active
            /\ NewInstallState.passive = loaded.passive
        BY <3>2, NewRecord
      <4>4. /\ NewInstallState.active.src = disk'["active"].content
            /\ NewInstallState.passive.src = disk'["passive"].content
            /\ NewInstallState.recovery.src = disk'["recovery"].content
        BY <2>2, <2>3, <4>1, <4>2, <4>3 DEF Accurate
      <4> QED
        BY <3>1, <4>4 DEF Accurate
    <3>3. CASE ~spec.recovery
      <4>1. FinalSlot = "active" /\ disk'["passive"] = disk["passive"] /\ disk'["recovery"] = disk["recovery"]
        BY <2>2, <3>3 DEF FinalSlot, SystemSlot
      <4>2. /\ Paired(loaded) /\ loaded.active.src = disk["passive"].content
            /\ loaded.recovery.src = disk["recovery"].content
        BY <2>1, <3>3 DEF RecordInv, TrustInv, PairedInv
      <4>3. /\ NewInstallState.active.src = {runs} /\ NewInstallState.recovery = loaded.recovery
            /\ NewInstallState.passive.src = loaded.active.src
        BY <3>3, <4>2, NewRecord
      <4>4. /\ NewInstallState.active.src = disk'["active"].content
            /\ NewInstallState.passive.src = disk'["passive"].content
            /\ NewInstallState.recovery.src = disk'["recovery"].content
        BY <2>2, <2>3, <4>1, <4>2, <4>3
      <4> QED
        BY <3>1, <4>4 DEF Accurate
    <3> QED
      BY <3>2, <3>3
  <2> QED
    BY <1>1, <2>1, <2>4
    DEF RecordInv, TrustInv, YamlInv, ToBackup, ToExtract, ToCreate, Extracted
<1>2. CASE Abort("MoveFile") /\ UNCHANGED disk
  BY <1>2, RecordQuiet DEF Swap
<1> QED
  BY <1>1, <1>2 DEF Swap

\* Writing the copies of state.yaml.
LEMMA RecordWrite == TypeOK /\ RecordInv /\ (WriteStateYaml \/ WriteRecoveryYaml) => RecordInv'
<1> SUFFICES ASSUME TypeOK, RecordInv, WriteStateYaml \/ WriteRecoveryYaml PROVE RecordInv'
  OBVIOUS
<1>1. UNCHANGED <<disk, loaded, spec, start, runs>>
  BY DEF WriteStateYaml, WriteRecoveryYaml
<1>2. /\ NewInstallState' = NewInstallState
      /\ Accurate(NewInstallState)' <=> Accurate(NewInstallState)
  BY <1>1, SameRecord DEF Accurate
<1>3. CASE pc' = "cleanup" /\ err' # "none"
  BY <1>3 DEF RecordInv, TrustInv, YamlInv
<1>4. CASE /\ pc = "stateYaml" /\ pc' = "recoveryYaml" /\ err' = err
           /\ yaml' = [yaml EXCEPT !["state"] = NewInstallState]
  <2>1. yaml'["state"] = NewInstallState
    BY <1>4 DEF TypeOK, PersistentOK, ImgPart
  <2> QED
    BY <1>1, <1>2, <1>4, <2>1
    DEF RecordInv, TrustInv, YamlInv, ToBackup, ToExtract, ToCreate, Extracted, Settled, Replaced
<1>5. CASE /\ pc = "recoveryYaml" /\ pc' = "cleanup" /\ err' = err
           /\ yaml' = [yaml EXCEPT !["recovery"] = NewInstallState]
  <2>1. yaml'["recovery"] = NewInstallState /\ yaml'["state"] = yaml["state"]
    BY <1>5 DEF TypeOK, PersistentOK, ImgPart
  <2> QED
    BY <1>1, <1>2, <1>5, <2>1
    DEF RecordInv, TrustInv, YamlInv, ToBackup, ToExtract, ToCreate, Extracted, Settled, Replaced,
        ImgPart
<1> QED
  BY <1>3, <1>4, <1>5 DEF WriteStateYaml, WriteRecoveryYaml, WriteYaml

\* A run starts with what it loads.
LEMMA RecordStart ==
  ASSUME \E recovery \in BOOLEAN, sys, rec \in {"ext2", "squashfs"} : StartUpgrade(recovery, sys, rec)
  PROVE  RecordInv'
<1>1. /\ pc' = "mountState" /\ disk' = disk /\ loaded' = LoadedState
      /\ start'.trusted = Accurate(LoadedState)
  BY DEF StartUpgrade
<1>2. Accurate(LoadedState) => Accurate(loaded)'
  BY <1>1 DEF Accurate
<1> QED
  BY <1>1, <1>2 DEF RecordInv, TrustInv, YamlInv, ToBackup, ToExtract, ToCreate, Extracted,
                    Settled, Replaced

\* Going down says nothing of the record.
LEMMA RecordPower ==
  ASSUME RecordInv, \/ PowerAction \/ Reboot \/ PowerLoss
                    \/ \E recovery \in BOOLEAN, sys, rec \in {"ext2", "squashfs"} :
                         StartUpgrade(recovery, sys, rec)
  PROVE  RecordInv'
<1>1. CASE pc' \in {"off", "exited"}
  BY <1>1 DEF RecordInv, TrustInv, YamlInv, ToBackup, ToExtract, ToCreate, Extracted, Settled,
              Replaced
<1>2. CASE \E recovery \in BOOLEAN, sys, rec \in {"ext2", "squashfs"} :
             StartUpgrade(recovery, sys, rec)
  BY <1>2, RecordStart
<1> QED
  BY <1>1, <1>2 DEF PowerAction, Reboot, PowerLoss, PoweredOff

\* A run loads a copy or the defaults, which know neither image.
LEMMA LoadedPaired == PairedInv => Paired(LoadedState)
<1>1. \A file : Paired([Defaults EXCEPT !.file = file])
  BY DEF Paired, Defaults
<1> QED
  BY <1>1 DEF LoadedState, PairedInv, ImgPart

\* What a run writes is paired if what it loaded is.
LEMMA PairedStep == TypeOK /\ PairedInv /\ [Next]_vars => PairedInv'
<1> SUFFICES ASSUME TypeOK, PairedInv, [Next]_vars PROVE PairedInv'
  OBVIOUS
<1>1. CASE \E recovery \in BOOLEAN, sys, rec \in {"ext2", "squashfs"} : StartUpgrade(recovery, sys, rec)
  <2>1. loaded' = LoadedState /\ yaml' = yaml
    BY <1>1 DEF StartUpgrade
  <2> QED
    BY <2>1, LoadedPaired DEF PairedInv, Paired
<1>2. CASE WriteStateYaml \/ WriteRecoveryYaml
  <2>1. Paired(NewInstallState)
    <3>1. CASE spec.recovery
      BY <3>1, NewRecord DEF PairedInv, Paired
    <3>2. CASE ~spec.recovery
      <4>1. NewInstallState.active.src # {}
        BY <3>2, NewRecord
      <4> QED
        BY <4>1 DEF Paired
    <3> QED
      BY <3>1, <3>2
  <2>2. \A p \in ImgPart, file \in {"whole", "broken", "empty"} :
          Paired([yaml[p] EXCEPT !.file = file]) = Paired(yaml[p])
    BY DEF Paired, TypeOK, PersistentOK, InstallState
  <2>3. /\ loaded' = loaded
        /\ \/ yaml' = yaml
           \/ \E p \in ImgPart : yaml' = [yaml EXCEPT ![p] = NewInstallState]
           \/ \E p \in ImgPart : \E file \in {"whole", "broken", "empty"} :
                yaml' = [yaml EXCEPT ![p] = [yaml[p] EXCEPT !.file = file]]
    BY <1>2 DEF WriteStateYaml, WriteRecoveryYaml, WriteYaml, ImgPart, TypeOK, PersistentOK, InstallState
  <2>4. \A p \in ImgPart : Paired(yaml'[p])
    BY <2>1, <2>2, <2>3 DEF PairedInv, TypeOK, PersistentOK
  <2> QED
    BY <2>3, <2>4 DEF PairedInv, Paired
<1>3. CASE UNCHANGED <<yaml, loaded>>
  BY <1>3 DEF PairedInv, Paired
<1>4. UNCHANGED <<yaml, loaded>> \/ WriteStateYaml \/ WriteRecoveryYaml
      \/ \E recovery \in BOOLEAN, sys, rec \in {"ext2", "squashfs"} : StartUpgrade(recovery, sys, rec)
  <2>1. CASE Step
    BY <2>1
    DEF Step, MountState, MountRecovery, MountPersistent, BeforeHook, AfterHook, PostHook, RunHook,
        BindTree, DumpSource, DumpFailed, SelinuxRelabel, ChrootHook, ChrootedCallback,
        SetGrubVariables, SetDefaultGrubEntry, CreateImage, FillImage, SquashImage, CleanTree,
        Backup, LabelPassive, Swap, Sync, JobUmount, JobRemountRO, JobRevertMount, JobRemove,
        JobCleanTree, CleanupDone, PowerAction, PoweredOff
  <2>2. CASE Reboot \/ PowerLoss \/ \E s \in SystemSlot : Boot(s)
    BY <2>2 DEF Reboot, PowerLoss, PoweredOff, Boot
  <2> QED
    BY <2>1, <2>2 DEF Next
<1> QED
  BY <1>1, <1>2, <1>3, <1>4

\* Every step keeps the record in line with the images.
LEMMA RecordStep ==
  ASSUME TypeOK, RotationReady, DeliverInv, PairedInv, RecordInv, [Next]_vars
  PROVE  RecordInv'
<1>1. CASE Step
  BY <1>1, RecordWork, RecordCleanTree, RecordBackup, RecordLabel, RecordSwap, RecordWrite,
     RecordPower
  DEF Step
<1>2. CASE ~Step /\ Next
  BY <1>2, RecordWork, RecordPower DEF Next
<1>3. CASE UNCHANGED vars
  <2>1. NewInstallState' = NewInstallState
    BY <1>3, SameRecord
  <2>2. Accurate(loaded)' <=> Accurate(loaded)
    BY <1>3 DEF Accurate
  <2>3. Accurate(NewInstallState)' <=> Accurate(NewInstallState)
    BY <1>3, <2>1 DEF Accurate
  <2> QED
    BY <1>3, <2>1, <2>2, <2>3 DEF RecordInv, TrustInv, YamlInv
<1> QED
  BY <1>1, <1>2, <1>3

\* A machine as installed has records of all its images.
LEMMA RecordInit == Init => RecordInv /\ PairedInv
<1> SUFFICES ASSUME Init PROVE RecordInv /\ PairedInv
  OBVIOUS
<1>1. RecordInv
  BY Zenon DEF Init, RecordInv, TrustInv, YamlInv, ToBackup, ToExtract, ToCreate, Extracted, Settled,
         Replaced
<1>2. Paired(loaded)
  <2>1. loaded.active.src = disk["active"].content
    BY Zenon DEF Init, RecordedState, Recorded
  <2>2. PICK sys \in SystemFS, rec \in RecoveryFS : disk = InstalledDisk(sys, rec, {0})
    BY Zenon DEF Init
  <2>3. Installed(sys, "COS_ACTIVE", {0}).content = {0}
    BY DEF Installed
  <2>4. disk["active"] = Installed(sys, "COS_ACTIVE", {0})
    BY <2>2 DEF InstalledDisk, Slot
  <2> QED
    BY <2>1, <2>3, <2>4 DEF Paired
<1>3. \A p \in ImgPart : yaml[p] = loaded
  BY Zenon DEF Init
<1> QED
  BY <1>1, <1>2, <1>3 DEF PairedInv

\* What the invariants say of the records after a run without error.
LEMMA RecordImplies == TypeOK /\ CleanInv /\ RecordInv => StateYamlAccurate
<1> SUFFICES ASSUME TypeOK, CleanInv, RecordInv, pc = "power", start.fresh, start.trusted,
                    NEW p \in ImgPart
             PROVE  yaml[p].file = "whole" /\ Accurate(yaml[p])
  BY DEF StateYamlAccurate
<1>1. err = "none"
  BY DEF CleanInv, TransitionTracked
<1>2. yaml[p] = NewInstallState /\ Accurate(NewInstallState)
  BY <1>1 DEF RecordInv, TrustInv, YamlInv, Settled, Replaced
<1> QED
  BY <1>2, NewRecord

\* When an upgrade succeeds whose loaded copy of state.yaml described the images, both
\* copies name the content of all three images, the backup included
\* (upgradeInstallStateYaml).
THEOREM RecordsImages == Spec => []StateYamlAccurate
<1>1. RunInv /\ RecordInv /\ PairedInv /\ [Next]_vars => (RecordInv /\ PairedInv)'
  BY SafeReady, RecordStep, PairedStep DEF RunInv
<1>2. RunInv /\ RecordInv => StateYamlAccurate
  BY RecordImplies DEF RunInv
<1> QED
  BY <1>1, <1>2, RecordInit, RunCorrect, PTL DEF Spec
-----------------------------------------------------------------------------
(* Runs in which no call fails.                                            *)

\* With ext2 system images only, no image of the state partition is ever a squashfs,
\* whatever the copies of state.yaml and the configuration say.
Ext2Only ==
  /\ disk["active"].fs # "squashfs" /\ disk["passive"].fs # "squashfs"
  /\ disk["transState"].fs # "squashfs"
  /\ \A p \in ImgPart : yaml[p].active.fs = "ext2"
  /\ loaded.active.fs = "ext2" /\ spec.activeFS = "ext2"

\* A run that found nothing in its way, and in which no call has failed so far.
Faultless == faults = start.faults /\ start.able /\ loaded.file # "empty" /\ pc \in Live

\* The stages at which the scratch tree is mounted, before and after them.
InTree   == {"dump", "cleanTree"} \cup Extracted
RunOpening == {"mountState", "mountRecovery", "mountPersistent", "beforeHook", "deploy"}
Finished == {"backup", "label", "swap", "exited"} \cup Replaced

\* What keeps every call of such a run from meeting an obstacle.
Unimpeded ==
  /\ err = "none" /\ ~cleanErr /\ loops = {} /\ HasOEM /\ pc # "dumpFailed"
  /\ pc \in InTree => work = <<[slot |-> TransSlot, left |-> {}]>>
  /\ pc \notin InTree => work = <<>>
  /\ ~spec.recovery /\ pc \in ToBackup => disk["active"].fs # "none"
  /\ ImageFS = "squashfs" /\ pc \in ToExtract \cup ToCreate => disk[TransSlot].fs = "none"

RetryInv == start.faults <= faults /\ (Faultless => Unimpeded)

\* Steps that leave the images of the state partition, state.yaml and the run alone.
LEMMA Ext2Quiet ==
  ASSUME Ext2Only, UNCHANGED <<yaml, loaded, spec>>,
         \A s \in {"active", "passive", "transState"} :
            disk'[s].fs = disk[s].fs \/ disk'[s].fs = "none"
  PROVE  Ext2Only'
BY DEF Ext2Only

\* The file a run writes next to the system images is an ext2 image.
LEMMA Ext2Writes ==
  ASSUME TypeOK, Ext2Only, CreateImage \/ FillImage \/ SquashImage
  PROVE  Ext2Only'
<1>1. /\ UNCHANGED <<yaml, loaded, spec>> /\ RunOK /\ disk \in [Slot -> Image]
      /\ TransSlot = IF spec.recovery THEN "transRecovery" ELSE "transState"
  BY DEF CreateImage, FillImage, SquashImage, TypeOK, PersistentOK, TransSlot
<1>2. \A s \in Slot \ {TransSlot} : disk'[s] = disk[s]
  BY <1>1 DEF CreateImage, FillImage, SquashImage
<1>3. ~spec.recovery => ImageFS = "ext2"
  BY DEF ImageFS, Ext2Only
<1>4. disk'[TransSlot].fs \in {disk[TransSlot].fs, "none", ImageFS}
  <2>1. TransSlot \in Slot
    BY TransSlotType
  <2>3. NewFile({}, FALSE).fs = ImageFS /\ NewFile(tree[TransSlot], TRUE).fs = ImageFS
        /\ NewFile(tree[TransSlot], FALSE).fs = ImageFS
        /\ NewFile(disk[TransSlot].content \cup tree[TransSlot], TRUE).fs = ImageFS
    BY DEF NewFile
  <2>4. NoFile.fs = "none"
    BY DEF NoFile
  <2>5. CASE CreateImage
    BY <1>1, <2>1, <2>3, <2>4, <2>5 DEF CreateImage
  <2>6. CASE FillImage
    <3>1. \E ok \in BOOLEAN : disk' = [disk EXCEPT ![TransSlot] = NewFile(tree[TransSlot], ok)]
      BY <2>6 DEF FillImage
    <3>2. PICK ok \in BOOLEAN : disk' = [disk EXCEPT ![TransSlot] = NewFile(tree[TransSlot], ok)]
      BY <3>1
    <3>3. NewFile(tree[TransSlot], ok).fs = ImageFS
      BY DEF NewFile
    <3> QED
      BY <1>1, <2>1, <3>2, <3>3
  <2>7. CASE SquashImage
    BY <1>1, <2>1, <2>3, <2>7 DEF SquashImage
  <2> QED
    BY <2>5, <2>6, <2>7
<1>5. CASE spec.recovery
  BY <1>1, <1>2, <1>5, Ext2Quiet DEF Slot
<1>6. CASE ~spec.recovery
  <2>1. /\ TransSlot = "transState" /\ disk'["active"] = disk["active"]
        /\ disk'["passive"] = disk["passive"] /\ disk'["transState"].fs # "squashfs"
    BY <1>1, <1>2, <1>3, <1>4, <1>6 DEF Slot, Ext2Only
  <2> QED
    BY <1>1, <2>1 DEF Ext2Only
<1> QED
  BY <1>5, <1>6

\* The rotation moves ext2 images only.
LEMMA Ext2Rotates ==
  ASSUME TypeOK, RotationSafe, Ext2Only, Backup \/ LabelPassive \/ Swap \/ Sync \/ JobRemove
  PROVE  Ext2Only'
<1>1. UNCHANGED <<yaml, loaded, spec>> /\ NoFile.fs = "none"
  BY Zenon DEF Backup, LabelPassive, Swap, Sync, JobRemove, NoFile
<1>2. CASE disk' = disk
  BY <1>1, <1>2, Ext2Quiet
<1>3. CASE disk' = Renamed("active", "passive")
  <2>1. /\ disk'["passive"] = disk["active"] /\ disk'["active"] = NoFile
        /\ disk'["transState"] = disk["transState"]
    BY <1>3 DEF Renamed, TypeOK, PersistentOK, Slot
  <2> QED
    BY <1>1, <2>1 DEF Ext2Only
<1>4. CASE disk' = Renamed(TransSlot, FinalSlot)
  <2>1. CASE spec.recovery
    <3>1. /\ disk'["passive"] = disk["passive"] /\ disk'["active"] = disk["active"]
          /\ disk'["transState"] = disk["transState"]
      BY <1>4, <2>1 DEF Renamed, TransSlot, FinalSlot, TypeOK, PersistentOK, Slot
    <3> QED
      BY <1>1, <3>1 DEF Ext2Only
  <2>2. CASE ~spec.recovery
    <3>1. /\ disk'["passive"] = disk["passive"] /\ disk'["active"] = disk["transState"]
          /\ disk'["transState"] = NoFile
      BY <1>4, <2>2 DEF Renamed, TransSlot, FinalSlot, TypeOK, PersistentOK, Slot
    <3> QED
      BY <1>1, <3>1 DEF Ext2Only
  <2> QED
    BY <2>1, <2>2
<1>5. CASE LabelPassive \/ Sync
  <2>1. CASE disk' = Synced(disk) \/ disk' = Synced([disk EXCEPT !["passive"].label = spec.passiveLabel])
    <3>1. \A s \in Slot : disk'[s].fs = disk[s].fs
      BY <2>1 DEF Synced, TypeOK, PersistentOK, Image
    <3> QED
      BY <1>1, <3>1, Ext2Quiet DEF Slot
  <2> QED
    BY <1>2, <1>5, <2>1 DEF LabelPassive, Sync
<1>6. CASE JobRemove
  <2>1. disk' = disk \/ disk' = [disk EXCEPT ![TransSlot] = NoFile]
    BY <1>6 DEF JobRemove
  <2>2. \A s \in Slot : disk'[s].fs = disk[s].fs \/ disk'[s].fs = "none"
    BY <1>1, <2>1 DEF TypeOK, PersistentOK
  <2> QED
    BY <1>1, <2>2, Ext2Quiet DEF Slot
<1> QED
  BY <1>2, <1>3, <1>4, <1>5, <1>6 DEF Backup, Swap

\* The file system recorded for active stays ext2.
LEMMA Ext2Recorded ==
  ASSUME TypeOK, Ext2Only, WriteStateYaml \/ WriteRecoveryYaml
  PROVE  Ext2Only'
<1>1. UNCHANGED <<disk, loaded, spec>>
  BY DEF WriteStateYaml, WriteRecoveryYaml
<1>2. NewInstallState.active.fs = "ext2"
  <2>1. loaded \in InstallState
    BY DEF TypeOK, RunOK
  <2>2. CASE spec.recovery
    BY <2>1, <2>2 DEF NewInstallState, InstallState, Ext2Only
  <2>3. CASE ~spec.recovery
    <3> DEFINE img == [src |-> {runs}, fs |-> ImageFS, label |-> ImageLabel]
    <3>1. \E pas : NewInstallState = [[loaded EXCEPT !.file = "whole"] EXCEPT !.active = img, !.passive = pas]
      BY <2>3, Zenon DEF NewInstallState
    <3>2. img.fs = "ext2"
      BY <2>3 DEF ImageFS, Ext2Only
    <3> HIDE DEF img
    <3>3. NewInstallState.active = img
      BY <2>1, <3>1 DEF InstallState
    <3> QED
      BY <3>2, <3>3
  <2> QED
    BY <2>2, <2>3
<1>3. \/ yaml' = yaml
      \/ \E p \in ImgPart : yaml' = [yaml EXCEPT ![p] = NewInstallState]
      \/ \E p \in ImgPart, file \in {"whole", "broken", "empty"} : yaml' = [yaml EXCEPT ![p].file = file]
  BY DEF WriteStateYaml, WriteRecoveryYaml, WriteYaml, TypeOK, PersistentOK, InstallState, ImgPart
<1>4. \A p \in ImgPart : yaml'[p].active.fs = "ext2"
  BY <1>2, <1>3 DEF TypeOK, PersistentOK, InstallState, Ext2Only
<1> QED
  BY <1>1, <1>4 DEF Ext2Only

\* Going down keeps the file systems; a run of an ext2 machine is configured for ext2.
LEMMA Ext2Power ==
  ASSUME SystemFS = {"ext2"}, TypeOK, Ext2Only,
         \/ PowerAction \/ Reboot \/ PowerLoss
         \/ \E recovery \in BOOLEAN, sys, rec \in {"ext2", "squashfs"} : StartUpgrade(recovery, sys, rec)
  PROVE  Ext2Only'
<1>1. CASE PowerAction \/ Reboot \/ PowerLoss
  <2>1. UNCHANGED <<yaml, loaded, spec>>
    BY <1>1 DEF PowerAction, Reboot, PowerLoss, PoweredOff
  <2>2. CASE disk' = disk \/ disk' = Synced(disk)
    <3>1. \A s \in Slot : disk'[s].fs = disk[s].fs
      BY <2>2 DEF Synced, TypeOK, PersistentOK, Image
    <3> QED
      BY <2>1, <3>1, Ext2Quiet DEF Slot
  <2>3. CASE PowerLoss
    <3>1. PICK torn \in SUBSET {s \in Slot : disk[s].dirty} :
            disk' = Synced([s \in Slot |-> [disk[s] EXCEPT !.ok = @ /\ s \notin torn]])
      BY <2>3 DEF PowerLoss
    <3>2. ASSUME NEW s \in Slot PROVE disk'[s].fs = disk[s].fs
      <4>1. disk'[s] = [[disk[s] EXCEPT !.ok = @ /\ s \notin torn] EXCEPT !.dirty = FALSE]
        BY <3>1, Zenon DEF Synced
      <4> QED
        BY <4>1 DEF TypeOK, PersistentOK, Image
    <3> QED
      BY <2>1, <3>2, Ext2Quiet DEF Slot
  <2> QED
    BY <1>1, <2>2, <2>3 DEF PowerAction, Reboot
<1>2. CASE \E recovery \in BOOLEAN, sys, rec \in {"ext2", "squashfs"} : StartUpgrade(recovery, sys, rec)
  <2>1. PICK recovery \in BOOLEAN, sys \in {"ext2", "squashfs"}, rec \in {"ext2", "squashfs"} :
          StartUpgrade(recovery, sys, rec)
    BY <1>2
  <2>2. LoadedState.active.fs = "ext2"
    <3>1. \A p \in ImgPart : yaml[p].active.fs = "ext2"
      BY DEF Ext2Only
    <3>2. \A file : [Defaults EXCEPT !.file = file].active.fs = "ext2"
      BY DEF Defaults
    <3> QED
      BY <3>1, <3>2 DEF LoadedState, ImgPart
  <2>3. sys = "ext2"
    BY <2>1, <2>2 DEF StartUpgrade, FSChoices
  <2>4. spec'.activeFS = "ext2" /\ loaded' = LoadedState /\ UNCHANGED <<disk, yaml>>
    BY <2>1, <2>3, Zenon DEF StartUpgrade, NewSpec
  <2> QED
    BY <2>2, <2>4 DEF Ext2Only
<1> QED
  BY <1>1, <1>2

\* Every step keeps the system images ext2.
LEMMA Ext2Step ==
  ASSUME SystemFS = {"ext2"}, TypeOK, RotationSafe, Ext2Only, [Next]_vars
  PROVE  Ext2Only'
<1>1. CASE CreateImage \/ FillImage \/ SquashImage
  BY <1>1, Ext2Writes
<1>2. CASE Backup \/ LabelPassive \/ Swap \/ Sync \/ JobRemove
  BY <1>2, Ext2Rotates
<1>3. CASE WriteStateYaml \/ WriteRecoveryYaml
  BY <1>3, Ext2Recorded
<1>4. CASE \/ PowerAction \/ Reboot \/ PowerLoss
           \/ \E recovery \in BOOLEAN, sys, rec \in {"ext2", "squashfs"} : StartUpgrade(recovery, sys, rec)
  BY <1>4, Ext2Power
<1>5. CASE \/ MountState \/ MountRecovery \/ MountPersistent \/ BeforeHook \/ AfterHook \/ PostHook
           \/ BindTree \/ DumpSource \/ DumpFailed \/ SelinuxRelabel \/ ChrootHook
           \/ SetGrubVariables \/ SetDefaultGrubEntry \/ CleanTree
           \/ JobUmount \/ JobRemountRO \/ JobCleanTree \/ CleanupDone
           \/ \E s \in SystemSlot : Boot(s)
  <2>1. UNCHANGED <<disk, yaml, loaded, spec>>
    BY <1>5
    DEF MountState, MountRecovery, MountPersistent, BeforeHook, AfterHook, PostHook, RunHook,
        BindTree, DumpSource, DumpFailed, SelinuxRelabel, ChrootHook, SetGrubVariables,
        SetDefaultGrubEntry, CleanTree, JobUmount, JobRemountRO, JobRevertMount, JobCleanTree,
        CleanupDone, Boot
  <2> QED
    BY <2>1, Ext2Quiet
<1>6. CASE UNCHANGED vars
  BY <1>6, Ext2Quiet
<1> QED
  BY <1>1, <1>2, <1>3, <1>4, <1>5, <1>6 DEF Next, Step

\* The installer's ext2 images.
LEMMA Ext2Init == SystemFS = {"ext2"} /\ Init => Ext2Only
<1> SUFFICES ASSUME SystemFS = {"ext2"}, Init PROVE Ext2Only
  OBVIOUS
<1>1. PICK sys \in SystemFS, rec \in RecoveryFS : disk = InstalledDisk(sys, rec, {0})
  BY Zenon DEF Init
<1>2. \A label : Installed("ext2", label, {0}).fs = "ext2"
  BY DEF Installed
<1>3. disk["active"].fs = "ext2" /\ disk["passive"].fs = "ext2" /\ disk["transState"].fs = "none"
  BY <1>1, <1>2, Zenon DEF InstalledDisk, Slot, NoFile
<1>4. loaded.active.fs = "ext2" /\ \A p \in ImgPart : yaml[p] = loaded
  BY <1>3, Zenon DEF Init, RecordedState, Recorded
<1> QED
  BY <1>3, <1>4, Zenon DEF Init, Ext2Only

\* If no call fails in a step of a run that met no obstacle so far, none failed before.
LEMMA FaultlessBefore ==
  ASSUME TypeOK, RetryInv, UNCHANGED <<start, loaded>>, Succeeds \/ Fails, pc \in Live
  PROVE  /\ start'.faults <= faults'
         /\ Faultless' => Faultless /\ Unimpeded /\ Succeeds
<1>1. start.faults \in Nat /\ faults \in Nat /\ MaxFaults \in Nat
  BY UpgradeAssumption DEF TypeOK, RunOK, CommandOK, Start
<1>2. faults' = faults \/ faults' = faults + 1
  BY DEF Succeeds, Fails
<1>3. start.faults <= faults
  BY DEF RetryInv
<1>4. start'.faults <= faults'
  BY <1>1, <1>2, <1>3
<1>5. Faultless' => faults' = faults
  BY <1>1, <1>2, <1>3 DEF Faultless
<1> QED
  BY <1>4, <1>5 DEF RetryInv, Faultless, Succeeds

\* Steps within a part of a run that meet no obstacle and touch no image it needs.
LEMMA RetryQuiet ==
  ASSUME Unimpeded, UNCHANGED <<err, cleanErr, loops, work, spec>>,
         \/ UNCHANGED disk /\ pc \in RunOpening /\ pc' \in RunOpening
         \/ UNCHANGED disk /\ pc \in ToCreate /\ pc' \in ToCreate
         \/ pc \in Finished /\ pc' \in Finished \ {"backup"}
  PROVE  Unimpeded'
<1>1. ImageFS' = ImageFS /\ TransSlot' = TransSlot
  BY DEF ImageFS, TransSlot
<1> QED
  BY <1>1 DEF Unimpeded, InTree, RunOpening, Finished, ToBackup, ToExtract, ToCreate, Extracted,
              Replaced, Settled

\* A call fails or it does not.
LEMMA NotBoth == TypeOK => ~(Succeeds /\ Fails)
BY UpgradeAssumption DEF TypeOK, CommandOK, Succeeds, Fails

\* The steps of a run in which no call fails, until the scratch tree is mounted and
\* while it is.
LEMMA RetryWork ==
  ASSUME TypeOK, Unimpeded, Succeeds,
         \/ MountState \/ MountRecovery \/ MountPersistent \/ BeforeHook \/ AfterHook
         \/ SelinuxRelabel \/ ChrootHook \/ SetGrubVariables \/ SetDefaultGrubEntry
  PROVE  Unimpeded'
<1>0. ~Fails
  BY NotBoth
<1> USE RetryQuiet DEF RunOpening, ToCreate
<1>1. CASE MountState \/ MountRecovery \/ MountPersistent
  BY <1>0, <1>1 DEF MountState, MountRecovery, MountPersistent
<1>2. CASE BeforeHook \/ AfterHook
  BY <1>0, <1>2 DEF BeforeHook, AfterHook, RunHook
<1>3. CASE SelinuxRelabel \/ ChrootHook
  BY <1>0, <1>3 DEF SelinuxRelabel, ChrootHook, ChrootedCallback
<1>4. CASE SetGrubVariables \/ SetDefaultGrubEntry
  <2>1. HasOEM
    BY DEF Unimpeded
  <2> QED
    BY <1>0, <1>4, <2>1 DEF SetGrubVariables, SetDefaultGrubEntry
<1> QED
  BY <1>1, <1>2, <1>3, <1>4

\* The scratch tree is mounted once and filled.
LEMMA RetryTree ==
  ASSUME TypeOK, Unimpeded, Succeeds, BindTree \/ DumpSource
  PROVE  Unimpeded'
<1>0. ~Fails
  BY NotBoth
<1>1. CASE BindTree
  <2> DEFINE bind == [slot |-> TransSlot, left |-> {}]
  <2>1. /\ pc = "deploy" /\ pc' = "dump" /\ UNCHANGED <<disk, err, cleanErr, loops, spec>>
        /\ work' = Append(work, bind)
    BY <1>0, <1>1 DEF BindTree
  <2>2. work = <<>>
    BY <2>1 DEF Unimpeded, InTree, Extracted, ToCreate
  <2>3. work' = <<bind>>
    BY <2>1, <2>2
  <2>4. TransSlot' = TransSlot /\ ImageFS' = ImageFS
    BY <2>1 DEF TransSlot, ImageFS
  <2> QED
    BY <2>1, <2>3, <2>4 DEF Unimpeded, InTree, ToBackup, ToExtract, ToCreate, Extracted
<1>2. CASE DumpSource
  <2>1. pc = "dump" /\ pc' = "relabel" /\ UNCHANGED <<disk, err, cleanErr, loops, work, spec>>
    BY <1>0, <1>2 DEF DumpSource
  <2>2. TransSlot' = TransSlot /\ ImageFS' = ImageFS
    BY <2>1 DEF TransSlot, ImageFS
  <2> QED
    BY <2>1, <2>2 DEF Unimpeded, InTree, ToBackup, ToExtract, ToCreate, Extracted
<1> QED
  BY <1>1, <1>2

\* The transition image is created and filled; mksquashfs meets no old image.
LEMMA RetryImage ==
  ASSUME TypeOK, Unimpeded, Succeeds, CreateImage \/ FillImage \/ SquashImage
  PROVE  Unimpeded'
<1>0. ~Fails
  BY NotBoth
<1>1. \A s \in SystemSlot : disk'[s] = disk[s]
  BY TransSlotOther DEF CreateImage, FillImage, SquashImage, TypeOK, PersistentOK, SystemSlot, Slot
<1>2. /\ UNCHANGED <<work, spec, cleanErr>> /\ pc \in ToCreate \cup {"fillImg"} /\ pc' \in {"fillImg", "cleanTree"}
      /\ TransSlot' = TransSlot /\ ImageFS' = ImageFS /\ "active" \in SystemSlot
  BY DEF CreateImage, FillImage, SquashImage, ImgFails, ToCreate, TransSlot, ImageFS, SystemSlot
<1>3. UNCHANGED <<loops, err>>
  <2>1. CASE CreateImage \/ FillImage
    BY <1>0, <2>1 DEF CreateImage, FillImage
  <2>2. CASE SquashImage
    <3>1. pc = "createImg" /\ ImageFS = "squashfs"
      BY <2>2 DEF SquashImage
    <3>2. disk[TransSlot].fs = "none"
      BY <3>1 DEF Unimpeded, ToCreate
    <3> QED
      BY <1>0, <2>2, <3>2 DEF SquashImage
  <2> QED
    BY <2>1, <2>2
<1> QED
  BY <1>1, <1>2, <1>3 DEF Unimpeded, InTree, ToBackup, ToExtract, ToCreate, Extracted

\* A mounted scratch tree with nothing under it is unmounted, an unmounted one stays so.
LEMMA RetryCleaner ==
  ASSUME TypeOK, Succeeds, TreeCleaner(TransSlot),
         work = <<>> \/ work = <<[slot |-> TransSlot, left |-> {}]>>
  PROVE  work' = <<>>
<1>0. ~Fails
  BY NotBoth
<1>1. CASE work = <<>>
  BY <1>0, <1>1 DEF TreeCleaner, TreeUnmounts, RemovalFails, CanUnmountTree
<1>2. CASE work = <<[slot |-> TransSlot, left |-> {}]>>
  <2>1. Len(work) = 1 /\ Top.left = {} /\ work # <<>>
    BY <1>2 DEF Top
  <2>2. work' = SubSeq(work, 1, Len(work) - 1)
    BY <1>0, <2>1 DEF TreeCleaner, TreeUnmounts, RemovalFails, CanUnmountTree
  <2>3. work' = SubSeq(work, 1, 0)
    BY <2>1, <2>2
  <2>4. Len(work') = 0 /\ work' \in Seq(Bind)
    <3>1. \A i \in 1 .. 0 : work[i] \in Bind
      OBVIOUS
    <3>2. 1 \in Int /\ 0 \in Int
      OBVIOUS
    <3>3. /\ SubSeq(work, 1, 0) \in Seq(Bind)
          /\ Len(SubSeq(work, 1, 0)) = IF 1 <= 0 THEN 0 - 1 + 1 ELSE 0
      BY <3>1, <3>2, SubSeqProperties
    <3> QED
      BY <2>3, <3>3
  <2> QED
    BY <2>4, EmptySeq
<1> QED
  BY <1>1, <1>2

\* The scratch tree is removed without an error.
LEMMA RetryCleanTree ==
  ASSUME TypeOK, Unimpeded, Succeeds, CleanTree \/ JobCleanTree
  PROVE  Unimpeded'
<1>1. TreeCleaner(TransSlot)
  BY DEF CleanTree, JobCleanTree
<1>2. work = <<>> \/ work = <<[slot |-> TransSlot, left |-> {}]>>
  BY DEF Unimpeded
<1>3. work' = <<>> /\ ~TreeCleanerFailed
  BY <1>1, <1>2, RetryCleaner DEF TreeCleanerFailed, Succeeds
<1>4. UNCHANGED <<disk, loops, spec>> /\ TransSlot' = TransSlot /\ ImageFS' = ImageFS
  BY DEF CleanTree, JobCleanTree, TransSlot, ImageFS
<1>5. CASE CleanTree
  <2>1. pc = "cleanTree" /\ pc' \in {"swap", "backup"} /\ UNCHANGED <<err, cleanErr>>
    BY <1>3, <1>5 DEF CleanTree, Unimpeded
  <2> QED
    BY <1>3, <1>4, <2>1 DEF Unimpeded, InTree, ToBackup, ToExtract, ToCreate, Extracted
<1>6. CASE JobCleanTree
  <2>1. pc = "cleanup" /\ pc' = "cleanup" /\ err' = err /\ cleanErr' = (cleanErr \/ TreeCleanerFailed)
    BY <1>6 DEF JobCleanTree, PopJob
  <2>2. ~cleanErr'
    BY <1>3, <2>1 DEF Unimpeded
  <2> QED
    BY <1>3, <1>4, <2>1, <2>2 DEF Unimpeded, InTree, ToBackup, ToExtract, ToCreate, Extracted
<1> QED
  BY <1>5, <1>6

\* There is an active image to move, and both renames and the relabelling of an ext2
\* image succeed; so do the later steps.
LEMMA RetryRotate ==
  ASSUME TypeOK, RotationSafe, Ext2Only, Unimpeded, Succeeds, loaded.file # "empty",
         \/ Backup \/ LabelPassive \/ Swap \/ Sync \/ PostHook
         \/ WriteStateYaml \/ WriteRecoveryYaml
  PROVE  Unimpeded'
<1>0. ~Fails
  BY NotBoth
<1> USE RetryQuiet DEF Finished, Replaced, Settled
<1>1. CASE Backup
  <2>1. pc = "backup" /\ disk["active"].fs # "none"
    BY <1>1 DEF Backup, Unimpeded, ToBackup, RotationSafe
  <2> QED
    BY <1>0, <1>1, <2>1 DEF Backup
<1>2. CASE LabelPassive
  <2>1. disk["passive"].fs # "squashfs"
    BY DEF Ext2Only
  <2> QED
    BY <1>0, <1>2, <2>1 DEF LabelPassive
<1>3. CASE Swap \/ Sync \/ PostHook
  BY <1>0, <1>3 DEF Swap, Sync, PostHook, RunHook
<1>4. CASE WriteStateYaml \/ WriteRecoveryYaml
  BY <1>0, <1>4 DEF WriteStateYaml, WriteRecoveryYaml, WriteYaml
<1> QED
  BY <1>1, <1>2, <1>3, <1>4

\* The cleanup jobs find their partitions free and writable.
LEMMA RetryCleanup ==
  ASSUME TypeOK, CleanInv, Unimpeded, Succeeds, JobUmount \/ JobRemountRO \/ JobRemove \/ CleanupDone
  PROVE  Unimpeded'
<1>0. ~Fails
  BY NotBoth
<1> USE RetryQuiet DEF Finished, Replaced, Settled
<1>1. CASE JobUmount \/ JobRemountRO
  <2>1. LastJob.part \notin loops
    BY DEF Unimpeded
  <2> QED
    BY <1>0, <1>1, <2>1 DEF JobUmount, JobRemountRO, JobRevertMount, PopJob
<1>2. CASE JobRemove
  <2>1. PopJob("remove")
    BY <1>2 DEF JobRemove
  <2>2. /\ Len(jobs) \in Nat /\ Len(jobs') = Len(jobs) - 1 /\ LastJob.op = "remove" /\ pc = "cleanup"
    BY <2>1, Popped
  <2>3. Len(jobs) = 3 /\ LastJob = RemoveJob
    BY <2>1, <2>2, LastJobIs, JobKinds
  <2>4. mnt["state"] = "rw" /\ mnt["recovery"] = "rw"
    BY <2>2, <2>3 DEF CleanInv, MountsTracked, Live, Running
  <2>5. mnt[LastJob.part] = "rw"
    BY <2>3, <2>4, JobKinds DEF HomePart
  <2> QED
    BY <1>0, <1>2, <2>5 DEF JobRemove, PopJob
<1>3. CASE CleanupDone
  <2>1. err = "none" /\ ~cleanErr
    BY DEF Unimpeded
  <2> QED
    BY <1>3, <2>1 DEF CleanupDone
<1> QED
  BY <1>1, <1>2, <1>3

\* A step of a run keeps it unimpeded as long as no call fails.
LEMMA RetryStep ==
  ASSUME TypeOK, RotationSafe, CleanInv, Ext2Only, RetryInv, [Next]_vars
  PROVE  RetryInv'
<1>1. CASE Step
  <2>1. pc \in Live
    BY <1>1
    DEF Live, Running, Step, MountState, MountRecovery, MountPersistent, BeforeHook, AfterHook,
        PostHook, RunHook, BindTree, DumpSource, DumpFailed, SelinuxRelabel, ChrootHook,
        SetGrubVariables, SetDefaultGrubEntry, CreateImage, FillImage, SquashImage, CleanTree,
        Backup, LabelPassive, Swap, Sync, WriteStateYaml, WriteRecoveryYaml, JobUmount,
        JobRemountRO, JobRevertMount, JobRemove, JobCleanTree, PopJob, CleanupDone, PowerAction
  <2>2. UNCHANGED <<start, loaded>>
    BY <1>1
    DEF Step, MountState, MountRecovery, MountPersistent, BeforeHook, AfterHook,
        PostHook, RunHook, BindTree, DumpSource, DumpFailed, SelinuxRelabel, ChrootHook,
        SetGrubVariables, SetDefaultGrubEntry, CreateImage, FillImage, SquashImage, CleanTree,
        Backup, LabelPassive, Swap, Sync, WriteStateYaml, WriteRecoveryYaml, JobUmount,
        JobRemountRO, JobRevertMount, JobRemove, JobCleanTree, CleanupDone, PowerAction, PoweredOff
  <2>3. Succeeds \/ Fails
    BY <1>1
    DEF Step, MountState, MountRecovery, MountPersistent, BeforeHook, AfterHook,
        PostHook, RunHook, BindTree, DumpSource, DumpFailed, SelinuxRelabel, ChrootHook,
        ChrootedCallback, TreeCleaner, TreeUnmounts, RemovalFails,
        SetGrubVariables, SetDefaultGrubEntry, CreateImage, FillImage, SquashImage, CleanTree,
        Backup, LabelPassive, Swap, Sync, WriteStateYaml, WriteRecoveryYaml, WriteYaml, JobUmount,
        JobRemountRO, JobRevertMount, JobRemove, JobCleanTree, CleanupDone, PowerAction, Succeeds
  <2>4. start'.faults <= faults' /\ (Faultless' => Faultless /\ Unimpeded /\ Succeeds)
    BY <2>1, <2>2, <2>3, FaultlessBefore
  <2> SUFFICES ASSUME Faultless', Faultless, Unimpeded, Succeeds PROVE Unimpeded'
    BY <2>4 DEF RetryInv
  <2>6. loaded.file # "empty"
    BY DEF Faultless
  <2>7. CASE PowerAction
    <3>1. ~Fails /\ pc' # "off"
      BY NotBoth DEF Faultless, Live, Running
    <3>2. pc = "power" /\ pc' = "exited" /\ UNCHANGED <<disk, err, cleanErr, loops, work, spec>>
      BY <2>7, <3>1 DEF PowerAction, PoweredOff
    <3> QED
      BY <3>2, RetryQuiet DEF Finished, Replaced, Settled
  <2>8. ~DumpFailed
    BY DEF DumpFailed, Unimpeded
  <2> QED
    BY <1>1, <2>6, <2>7, <2>8, RetryWork, RetryTree, RetryImage, RetryCleanTree, RetryRotate, RetryCleanup
    DEF Step
<1>2. CASE \E recovery \in BOOLEAN, sys, rec \in {"ext2", "squashfs"} : StartUpgrade(recovery, sys, rec)
  <2>1. PICK recovery \in BOOLEAN, sys \in {"ext2", "squashfs"}, rec \in {"ext2", "squashfs"} :
          StartUpgrade(recovery, sys, rec)
    BY <1>2
  <2>2. /\ pc' = "mountState" /\ err' = "none" /\ ~cleanErr' /\ faults' = faults
        /\ start'.faults = faults /\ UNCHANGED <<work, loops, disk>> /\ spec'.recovery = recovery
        /\ spec'.activeFS = sys /\ spec'.recoveryFS = rec
    BY <2>1, Zenon DEF StartUpgrade, NewSpec
  <2>3. LET slot == IF recovery THEN "transRecovery" ELSE "transState"
            fs   == IF recovery THEN rec ELSE sys
        IN  start'.able => /\ recovery \/ disk["active"].fs # "none"
                           /\ work = <<>> /\ loops = {} /\ HasOEM
                           /\ fs = "squashfs" => disk[slot].fs = "none"
    BY <2>1 DEF StartUpgrade
  <2>4. /\ TransSlot' = IF recovery THEN "transRecovery" ELSE "transState"
        /\ ImageFS' = IF recovery THEN rec ELSE sys
    BY <2>2 DEF TransSlot, ImageFS
  <2>5. start'.able => Unimpeded'
    BY <2>2, <2>3, <2>4 DEF Unimpeded, InTree, Extracted, ToCreate
  <2>6. start'.faults <= faults'
    BY <2>2 DEF TypeOK, CommandOK
  <2> QED
    BY <2>5, <2>6 DEF RetryInv, Faultless
<1>3. CASE Reboot \/ PowerLoss \/ \E s \in SystemSlot : Boot(s)
  <2>1. pc' \notin Live /\ start' = start
    BY <1>3 DEF Reboot, PowerLoss, PoweredOff, Boot, Live, Running
  <2>2. start'.faults <= faults'
    <3>1. faults' = faults \/ faults' = faults + 1
      BY <1>3 DEF Reboot, PowerLoss, Boot, Succeeds, Fails
    <3>2. start.faults \in Nat /\ faults \in Nat /\ start.faults <= faults
      BY UpgradeAssumption DEF TypeOK, RunOK, CommandOK, Start, RetryInv
    <3> QED
      BY <2>1, <3>1, <3>2
  <2> QED
    BY <2>1, <2>2 DEF RetryInv, Faultless
<1>4. CASE UNCHANGED vars
  <2>1. TransSlot' = TransSlot /\ ImageFS' = ImageFS
    BY <1>4 DEF TransSlot, ImageFS
  <2> QED
    BY <1>4, <2>1 DEF RetryInv, Faultless, Unimpeded
<1> QED
  BY <1>1, <1>2, <1>3, <1>4 DEF Next

\* On a machine with ext2 system images a run in which no call fails succeeds, whatever
\* interrupted the runs before it, as long as it found an active image, no leftover
\* mount, no old transition image in the way of mksquashfs and a state.yaml that is not
\* empty.  (With squashfs images the relabelling fails: see SquashfsActiveUpgrades.)
THEOREM RetriesSucceed ==
  ASSUME SystemFS = {"ext2"}
  PROVE  Spec => []RetrySucceeds
<1>1. Init => RunInv /\ Ext2Only /\ RetryInv
  <2>1. Init => RunInv
    BY TypeInit, RotationInit, CleanInit, DeliverInit DEF RunInv
  <2>2. Init => RetryInv
    <3> SUFFICES ASSUME Init PROVE RetryInv
      OBVIOUS
    <3>1. /\ pc = "ready" /\ faults = 0
          /\ start = [mnt |-> mnt, active |-> {}, faults |-> 0,
                      trusted |-> TRUE, fresh |-> TRUE, able |-> TRUE]
      BY Zenon DEF Init
    <3> QED
      BY <3>1 DEF RetryInv, Faultless, Live, Running
  <2> QED
    BY <2>1, <2>2, Ext2Init
<1>2. (RunInv /\ Ext2Only /\ RetryInv) /\ [Next]_vars => (RunInv /\ Ext2Only /\ RetryInv)'
  <2>1. RunInv /\ [Next]_vars => RunInv'
    BY TypeStep, RotationStep, CleanStep, SafeReady, DeliverStep DEF RunInv
  <2>2. RunInv => TypeOK /\ RotationSafe /\ CleanInv
    BY DEF RunInv
  <2> QED
    BY <2>1, <2>2, Ext2Step, RetryStep
<1>3. RetryInv => RetrySucceeds
  BY DEF RetryInv, RetrySucceeds, Faultless, Unimpeded, Live
<1> QED
  BY <1>1, <1>2, <1>3, PTL DEF Spec
-----------------------------------------------------------------------------
(* Labels.  With ext2 system images whose file systems the configuration does  *)
(* not change, each image keeps the label the boot menu looks for.              *)

\* Active has been moved to passive and the new image is not in its place yet.
BetweenRenames == pc \in {"label", "swap"} /\ ~spec.recovery

\* The labels of the system images never change; a passive image without its label is
\* the former active one, whose run was interrupted before the relabelling.
LabelInv ==
  /\ \A p \in ImgPart : yaml[p].active.label = "COS_ACTIVE" /\ yaml[p].passive.label = "COS_PASSIVE"
  /\ loaded.active.label = "COS_ACTIVE" /\ loaded.passive.label = "COS_PASSIVE"
  /\ pc \in Live => spec.activeLabel = "COS_ACTIVE" /\ spec.passiveLabel = "COS_PASSIVE"
  /\ grub["active"] = "COS_ACTIVE" /\ grub["passive"] = "COS_PASSIVE"
  /\ disk["active"].fs # "none" => disk["active"].label = "COS_ACTIVE"
  /\ disk["passive"].fs # "none" /\ (disk["active"].fs # "none" \/ (pc = "swap" /\ ~spec.recovery))
       => disk["passive"].label = "COS_PASSIVE"
  /\ ImageReady => disk[TransSlot].fs = ImageFS /\ disk[TransSlot].label = ImageLabel

\* A state.yaml that describes the images is not one of a machine that lost active.
ActiveInv ==
  /\ \A p \in ImgPart : yaml[p].active.src = {} => yaml[p].passive.src = {}
  /\ loaded.active.src = {} => loaded.passive.src = {}
  /\ start.trusted /\ err = "none" /\ pc \in Live => disk["active"].fs # "none" \/ BetweenRenames

\* Which sources a record and an image can come from: an image holds the source of the
\* run that made it, a record names the source of the run that wrote it.
SourceInv ==
  /\ \A p \in ImgPart : yaml[p].recovery.src \subseteq 0 .. runs
  /\ loaded.recovery.src \subseteq 0 .. runs
  /\ pc \in Live => runs \notin loaded.recovery.src
  /\ pc \in ToBackup \cup {"label", "swap"} => \A p \in ImgPart : runs \notin yaml[p].recovery.src
  /\ pc \in Extracted => runs \in tree[TransSlot]
  /\ ImageReady => runs \in disk[TransSlot].content
  /\ disk["recovery"].fs # "none" => disk["recovery"].content # {}

\* An entry that names the content of the recovery image names its file system.
SameFS(entry) ==
  disk["recovery"].fs # "none" /\ entry.src = disk["recovery"].content => entry.fs = disk["recovery"].fs
LabelledSystem(entry) == entry.fs = "ext2" => entry.label = "COS_SYSTEM"

RecoveryInv ==
  /\ \A p \in ImgPart : SameFS(yaml[p].recovery) /\ LabelledSystem(yaml[p].recovery)
  /\ SameFS(loaded.recovery) /\ LabelledSystem(loaded.recovery)
  /\ pc \in Live => /\ spec.recoveryFS = loaded.recovery.fs
                    /\ spec.recoveryLabel = IF spec.recoveryFS = "squashfs" THEN "" ELSE "COS_SYSTEM"
  /\ disk["recovery"].fs = "ext2" => disk["recovery"].label = "COS_SYSTEM"
  /\ spec.recovery /\ \/ pc \in {"sync", "postHook", "stateYaml", "recoveryYaml"}
                      \/ pc \in {"cleanup", "power"} /\ err = "none"
       => disk["recovery"].fs = spec.recoveryFS
  /\ start.trusted /\ err = "none" /\ pc \in Live /\ ~spec.recovery
       => loaded.recovery.src = disk["recovery"].content

\* After SetGrubVariables the GRUB environment holds the labels of the run.
GrubInv ==
  pc \in {"defaultEntry", "createImg", "fillImg", "cleanTree", "backup", "label", "swap"} \cup Replaced
  /\ err = "none" => grub = GrubLabels

ImagesInv == LabelInv /\ ActiveInv /\ SourceInv /\ RecoveryInv /\ GrubInv

\* A step changes neither files, contents nor labels of the system images.
SameImages ==
  \A s \in SystemSlot : /\ disk'[s].fs = disk[s].fs /\ disk'[s].content = disk[s].content
                        /\ disk'[s].label = disk[s].label

\* Steps within a part of a run, or to its end, that change none of this.
LEMMA ImagesQuiet ==
  ASSUME ImagesInv, UNCHANGED <<yaml, grub, loaded, spec, start, runs>>, SameImages,
         err' = "none" => err = "none" \/ pc' = "off", tree' = tree \/ pc' \notin Extracted,
         \/ pc \in Live /\ pc' = "cleanup" /\ err' # "none"
         \/ pc' \in {"ready", "off"}
         \/ pc \in {"cleanup", "power"} /\ pc' \in {"cleanup", "power", "exited"}
         \/ pc \in ToExtract /\ pc' \in ToExtract \cup {"dumpFailed"}
         \/ pc \in {"relabel", "chrootHook", "afterHook"} /\ pc' \in {"chrootHook", "afterHook", "grubVars"}
         \/ pc \in {"defaultEntry", "createImg"} /\ pc' \in {"createImg", "fillImg"}
         \/ pc \in Extracted /\ pc' = "cleanTree" /\ err' # "none"
         \/ pc \in {"sync", "postHook"} /\ pc' \in {"postHook", "stateYaml"}
  PROVE  ImagesInv'
<1>1. /\ TransSlot' = TransSlot /\ ImageFS' = ImageFS /\ ImageLabel' = ImageLabel
      /\ GrubLabels' = GrubLabels
  BY DEF TransSlot, ImageFS, ImageLabel, GrubLabels
<1>2. /\ ~ImageReady' /\ (pc' \in Live => pc \in Live)
      /\ pc' # "swap" /\ (pc' \in ToBackup \cup {"label", "swap"} => pc \in ToBackup)
      /\ (pc' \in Live => pc' # "off")
  BY DEF ImageReady, Live, Running, ToExtract, ToCreate, Extracted, ToBackup
<1>3. "active" \in SystemSlot /\ "passive" \in SystemSlot /\ "recovery" \in SystemSlot
  BY DEF SystemSlot
<1>4. LabelInv'
  BY <1>1, <1>2, <1>3 DEF ImagesInv, LabelInv, SameImages
<1>5. ActiveInv'
  <2>1. err' = "none" /\ pc' \in Live => ~BetweenRenames
    BY DEF BetweenRenames, Live, Running, ToExtract, ToCreate, Extracted
  <2> QED
    BY <1>2, <1>3, <2>1 DEF ImagesInv, ActiveInv, SameImages
<1>6. SourceInv'
  <2>1. pc' \in Extracted => pc \in Extracted
    BY DEF ToExtract, ToCreate, Extracted
  <2> QED
    BY <1>1, <1>2, <1>3, <2>1 DEF ImagesInv, SourceInv, SameImages
<1>7. RecoveryInv'
  <2>1. \A e : SameFS(e) => SameFS(e)'
    BY <1>3 DEF SameFS, SameImages
  <2>2. SameFS(loaded.recovery)' /\ \A p \in ImgPart : SameFS(yaml[p].recovery)'
    BY <2>1, Zenon DEF ImagesInv, RecoveryInv
  <2>3. start.trusted /\ err' = "none" /\ pc' \in Live /\ ~spec.recovery
          => loaded.recovery.src = disk["recovery"].content
    BY <1>2, Zenon DEF ImagesInv, RecoveryInv
  <2>4. spec.recovery /\ \/ pc' \in {"sync", "postHook", "stateYaml", "recoveryYaml"}
                         \/ pc' \in {"cleanup", "power"} /\ err' = "none"
          => disk["recovery"].fs = spec.recoveryFS
    BY Zenon DEF ImagesInv, RecoveryInv, ToExtract, ToCreate, Extracted
  <2> QED
    BY <1>2, <1>3, <2>2, <2>3, <2>4, Zenon DEF ImagesInv, RecoveryInv, LabelledSystem, SameImages
<1>8. GrubInv'
  BY <1>1 DEF ImagesInv, GrubInv, ToExtract, ToCreate, Extracted, Settled, Replaced
<1> QED
  BY <1>4, <1>5, <1>6, <1>7, <1>8 DEF ImagesInv

\* The steps of a run that change no image, no record and no variable of GRUB.
LEMMA ImagesWork ==
  ASSUME TypeOK, ImagesInv, DeliverInv,
         \/ MountState \/ MountRecovery \/ MountPersistent \/ BeforeHook \/ PostHook
         \/ BindTree \/ DumpFailed \/ SelinuxRelabel \/ ChrootHook \/ AfterHook
         \/ SetDefaultGrubEntry \/ JobUmount \/ JobRemountRO \/ JobCleanTree \/ CleanupDone
         \/ \E s \in SystemSlot : Boot(s)
  PROVE  ImagesInv'
<1>0. disk' = disk => SameImages
  BY DEF SameImages
<1> USE ImagesQuiet, <1>0 DEF ToExtract, Live, Running
<1>1. CASE MountState \/ MountRecovery \/ MountPersistent
  BY <1>1 DEF MountState, MountRecovery, MountPersistent
<1>2. CASE BeforeHook \/ AfterHook \/ PostHook
  BY <1>2 DEF BeforeHook, AfterHook, PostHook, RunHook
<1>3. CASE BindTree
  <2>1. tree' = tree \/ pc' \notin Extracted
    BY <1>3 DEF BindTree, Extracted, ToCreate
  <2> QED
    BY <1>3, <2>1 DEF BindTree
<1>4. CASE DumpFailed
  <2>1. err' # "none" /\ pc' \notin Extracted
    BY <1>4 DEF DumpFailed, DeliverInv, Extracted, ToCreate
  <2> QED
    BY <1>4, <2>1 DEF DumpFailed
<1>5. CASE SelinuxRelabel \/ ChrootHook
  BY <1>5 DEF SelinuxRelabel, ChrootHook, ChrootedCallback
<1>6. CASE SetDefaultGrubEntry
  BY <1>6 DEF SetDefaultGrubEntry
<1>7. CASE JobUmount \/ JobRemountRO
  BY <1>7 DEF JobUmount, JobRemountRO, JobRevertMount, PopJob
<1>8. CASE JobCleanTree
  <2>1. pc' \notin Extracted
    BY <1>8 DEF JobCleanTree, PopJob, Extracted, ToCreate
  <2> QED
    BY <1>8, <2>1 DEF JobCleanTree, PopJob
<1>9. CASE CleanupDone
  BY <1>9 DEF CleanupDone
<1>10. CASE \E s \in SystemSlot : Boot(s)
  BY <1>10 DEF Boot
<1> QED
  BY <1>1, <1>2, <1>3, <1>4, <1>5, <1>6, <1>7, <1>8, <1>9, <1>10

\* The extracted tree holds the source of the run.
LEMMA ImagesDump == TypeOK /\ ImagesInv /\ DumpSource => ImagesInv'
<1> SUFFICES ASSUME TypeOK, ImagesInv, DumpSource PROVE ImagesInv'
  OBVIOUS
<1>1. UNCHANGED <<disk, yaml, grub, loaded, spec, start, runs>> /\ pc = "dump"
  BY DEF DumpSource
<1>2. SameImages
  BY <1>1 DEF SameImages
<1>3. CASE pc' = "dumpFailed" /\ err' # "none"
  BY <1>1, <1>2, <1>3, ImagesQuiet DEF ToExtract, Extracted, ToCreate
<1>4. CASE pc' = "relabel" /\ err' = err
  <2>1. runs \in tree'[TransSlot']
    BY TransSlotType DEF DumpSource, TransSlot, TypeOK, PersistentOK
  <2>2. LabelInv'
    BY <1>1, <1>4 DEF ImagesInv, LabelInv, ImageReady, Live, Running
  <2>3. ActiveInv'
    BY <1>1, <1>4 DEF ImagesInv, ActiveInv, BetweenRenames, Live, Running
  <2>4. SourceInv'
    BY <1>1, <1>4, <2>1 DEF ImagesInv, SourceInv, ImageReady, Live, Running, ToBackup, ToExtract, ToCreate, Extracted
  <2>5. RecoveryInv'
    BY <1>1, <1>4, Zenon DEF ImagesInv, RecoveryInv, SameFS, LabelledSystem, Live, Running
  <2>6. GrubInv'
    BY <1>4 DEF GrubInv, Replaced, Settled
  <2> QED
    BY <2>2, <2>3, <2>4, <2>5, <2>6 DEF ImagesInv
<1> QED
  BY <1>3, <1>4 DEF DumpSource

\* The labels of the run are those the images have.
LEMMA ImagesGrub == TypeOK /\ ImagesInv /\ SetGrubVariables => ImagesInv'
<1> SUFFICES ASSUME TypeOK, ImagesInv, SetGrubVariables PROVE ImagesInv'
  OBVIOUS
<1>1. /\ UNCHANGED <<disk, tree, yaml, loaded, spec, start, runs>> /\ pc = "grubVars" /\ pc \in Live
      /\ "active" \in SystemSlot /\ "passive" \in SystemSlot
  BY DEF SetGrubVariables, Live, Running, SystemSlot
<1>2. GrubLabels["active"] = "COS_ACTIVE" /\ GrubLabels["passive"] = "COS_PASSIVE"
  BY <1>1 DEF GrubLabels, ImagesInv, LabelInv
<1>3. /\ \/ grub' = grub
         \/ grub' = GrubLabels
         \/ \E set \in SUBSET SystemSlot :
              grub' = [s \in SystemSlot |-> IF s \in set THEN GrubLabels[s] ELSE grub[s]]
      /\ \/ pc' = "cleanup" /\ err' # "none"
         \/ pc' \in {"createImg", "defaultEntry"} /\ err' = err /\ grub' = GrubLabels
  BY DEF SetGrubVariables
<1>4. grub'["active"] = "COS_ACTIVE" /\ grub'["passive"] = "COS_PASSIVE"
  BY <1>1, <1>2, <1>3 DEF ImagesInv, LabelInv
<1>5. ~ImageReady' /\ ~BetweenRenames' /\ ~BetweenRenames /\ pc' \in Live /\ TransSlot' = TransSlot
  BY <1>1, <1>3 DEF ImageReady, BetweenRenames, Live, Running, TransSlot
<1>6. LabelInv'
  BY <1>1, <1>3, <1>4, <1>5 DEF ImagesInv, LabelInv
<1>7. ActiveInv'
  BY <1>1, <1>3, <1>5 DEF ImagesInv, ActiveInv
<1>8. SourceInv'
  BY <1>1, <1>3, <1>5 DEF ImagesInv, SourceInv, ToBackup, ToExtract, ToCreate, Extracted
<1>9. RecoveryInv'
  BY <1>1, <1>3, <1>5, Zenon DEF ImagesInv, RecoveryInv, SameFS, LabelledSystem
<1>10. GrubInv'
  <2>1. GrubLabels' = GrubLabels
    BY <1>1 DEF GrubLabels
  <2> QED
    BY <1>3, <2>1 DEF GrubInv, Replaced, Settled
<1> QED
  BY <1>6, <1>7, <1>8, <1>9, <1>10 DEF ImagesInv

\* Writing the transition image touches no system image.
LEMMA TransOnly ==
  ASSUME TypeOK, CreateImage \/ FillImage \/ SquashImage \/ JobRemove
  PROVE  SameImages
<1>1. \A s \in SystemSlot : disk'[s] = disk[s]
  BY TransSlotOther
  DEF CreateImage, FillImage, SquashImage, JobRemove, TypeOK, PersistentOK, SystemSlot, Slot
<1> QED
  BY <1>1 DEF SameImages

\* A complete transition image has the label and the source of the run.
LEMMA ImagesComplete ==
  ASSUME TypeOK, ImagesInv, pc \in {"createImg", "fillImg"}, pc' = "cleanTree", err' = err, NEW old,
         disk' = [disk EXCEPT ![TransSlot] = NewFile(old \cup tree[TransSlot], TRUE)], SameImages,
         UNCHANGED <<tree, yaml, grub, loaded, spec, start, runs>>
  PROVE  ImagesInv'
<1>1. /\ TransSlot' = TransSlot /\ ImageFS' = ImageFS /\ ImageLabel' = ImageLabel
      /\ GrubLabels' = GrubLabels /\ TransSlot \in Slot /\ pc \in Live /\ pc' \in Live
      /\ ~BetweenRenames /\ ~BetweenRenames'
  BY TransSlotType DEF TransSlot, ImageFS, ImageLabel, GrubLabels, Live, Running, BetweenRenames
<1>2. disk'[TransSlot] = NewFile(old \cup tree[TransSlot], TRUE)
  BY <1>1 DEF TypeOK, PersistentOK
<1>3. /\ disk'[TransSlot].fs = ImageFS /\ disk'[TransSlot].label = ImageLabel
      /\ disk'[TransSlot].content = old \cup tree[TransSlot]
  BY <1>2 DEF NewFile
<1>4. "active" \in SystemSlot /\ "passive" \in SystemSlot /\ "recovery" \in SystemSlot
  BY DEF SystemSlot
<1>5. LabelInv'
  BY <1>1, <1>3, <1>4 DEF ImagesInv, LabelInv, SameImages
<1>6. ActiveInv'
  BY <1>1, <1>4 DEF ImagesInv, ActiveInv, SameImages
<1>7. SourceInv'
  BY <1>1, <1>3, <1>4
  DEF ImagesInv, SourceInv, SameImages, ToBackup, ToExtract, ToCreate, Extracted
<1>8. RecoveryInv'
  <2>1. \A e : SameFS(e) => SameFS(e)'
    BY <1>4 DEF SameFS, SameImages
  <2> QED
    BY <1>1, <1>4, <2>1, Zenon DEF ImagesInv, RecoveryInv, LabelledSystem, SameImages
<1>9. GrubInv'
  BY <1>1 DEF ImagesInv, GrubInv
<1> QED
  BY <1>5, <1>6, <1>7, <1>8, <1>9 DEF ImagesInv

\* Creating, filling or squashing the transition image.
LEMMA ImagesFill ==
  ASSUME TypeOK, ImagesInv, CreateImage \/ FillImage \/ SquashImage
  PROVE  ImagesInv'
<1>1. /\ UNCHANGED <<tree, yaml, grub, loaded, spec, start, runs>> /\ SameImages
      /\ pc \in {"createImg", "fillImg"}
  BY TransOnly DEF CreateImage, FillImage, SquashImage
<1>2. CASE pc' = "cleanTree" /\ err' # "none"
  BY <1>1, <1>2, ImagesQuiet
  DEF CreateImage, FillImage, SquashImage, ImgFails, Extracted, ToCreate
<1>3. CASE CreateImage /\ pc' = "fillImg" /\ err' = err
  BY <1>1, <1>3, ImagesQuiet DEF CreateImage
<1>4. CASE FillImage /\ pc' = "cleanTree" /\ err' = err
           /\ disk' = [disk EXCEPT ![TransSlot] = NewFile(tree[TransSlot], TRUE)]
  <2>1. {} \cup tree[TransSlot] = tree[TransSlot]
    OBVIOUS
  <2>2. disk' = [disk EXCEPT ![TransSlot] = NewFile({} \cup tree[TransSlot], TRUE)]
    BY <1>4, <2>1
  <2> QED
    BY <1>1, <1>4, <2>2, ImagesComplete
<1>5. CASE SquashImage /\ pc' = "cleanTree" /\ err' = err
           /\ disk' = [disk EXCEPT ![TransSlot] = NewFile(disk[TransSlot].content \cup tree[TransSlot], TRUE)]
  BY <1>1, <1>5, ImagesComplete
<1> QED
  BY <1>2, <1>3, <1>4, <1>5 DEF CreateImage, FillImage, SquashImage, ImgFails

\* The scratch tree is removed before the rotation.
LEMMA ImagesCleanTree == TypeOK /\ ImagesInv /\ CleanTree => ImagesInv'
<1> SUFFICES ASSUME TypeOK, ImagesInv, CleanTree PROVE ImagesInv'
  OBVIOUS
<1>1. /\ pc = "cleanTree" /\ pc \in Live /\ UNCHANGED <<disk, yaml, grub, loaded, spec, start, runs>>
      /\ \/ pc' = "cleanup" /\ err' # "none"
         \/ err = "none" /\ err' = err /\ pc' \in {"backup", "swap"} /\ (pc' = "swap" <=> spec.recovery)
  BY DEF CleanTree, Live, Running
<1>2. CASE pc' = "cleanup" /\ err' # "none"
  BY <1>1, <1>2, ImagesQuiet DEF SameImages, Extracted, ToCreate
<1>3. CASE err = "none" /\ err' = err /\ pc' \in {"backup", "swap"} /\ (pc' = "swap" <=> spec.recovery)
  <2>1. /\ TransSlot' = TransSlot /\ ImageFS' = ImageFS /\ ImageLabel' = ImageLabel
        /\ GrubLabels' = GrubLabels /\ pc' \in Live /\ ImageReady /\ ~BetweenRenames
    BY <1>1, <1>3 DEF TransSlot, ImageFS, ImageLabel, GrubLabels, Live, Running, BetweenRenames, ImageReady
  <2>2. LabelInv'
    BY <1>1, <1>3, <2>1 DEF ImagesInv, LabelInv
  <2>3. ActiveInv'
    BY <1>1, <1>3, <2>1 DEF ImagesInv, ActiveInv
  <2>4. SourceInv'
    BY <1>1, <1>3, <2>1 DEF ImagesInv, SourceInv, ToBackup, ToExtract, ToCreate, Extracted
  <2>5. RecoveryInv'
    BY <1>1, <1>3, <2>1, Zenon DEF ImagesInv, RecoveryInv, SameFS, LabelledSystem
  <2>6. GrubInv'
    BY <1>1, <1>3, <2>1 DEF ImagesInv, GrubInv
  <2> QED
    BY <2>2, <2>3, <2>4, <2>5, <2>6 DEF ImagesInv
<1> QED
  BY <1>1, <1>2, <1>3

\* The backup moves an image whose label is that of active to passive.
LEMMA ImagesBackup == TypeOK /\ RotationSafe /\ ImagesInv /\ Backup => ImagesInv'
<1> SUFFICES ASSUME TypeOK, RotationSafe, ImagesInv, Backup PROVE ImagesInv'
  OBVIOUS
<1>1. /\ pc = "backup" /\ pc \in Live /\ ~spec.recovery /\ ImageReady
      /\ UNCHANGED <<tree, yaml, grub, loaded, spec, start, runs>>
      /\ TransSlot = "transState" /\ TransSlot' = "transState" /\ ImageFS' = ImageFS
      /\ ImageLabel' = ImageLabel /\ GrubLabels' = GrubLabels
  BY DEF Backup, Live, Running, RotationSafe, ImageReady, TransSlot, ImageFS, ImageLabel, GrubLabels
<1>2. CASE pc' = "label" /\ err' = err /\ disk' = Renamed("active", "passive")
  <2>1. /\ disk'["active"] = NoFile /\ disk'["recovery"] = disk["recovery"]
        /\ disk'["transState"] = disk["transState"] /\ NoFile.fs = "none"
    BY <1>2, Zenon DEF Renamed, TypeOK, PersistentOK, Slot, NoFile
  <2>2. pc' \in Live /\ BetweenRenames'
    BY <1>1, <1>2 DEF Live, Running, BetweenRenames
  <2>3. LabelInv'
    BY <1>1, <1>2, <2>1 DEF ImagesInv, LabelInv
  <2>4. ActiveInv'
    BY <1>1, <2>2 DEF ImagesInv, ActiveInv
  <2>5. SourceInv'
    BY <1>1, <1>2, <2>1, <2>2 DEF ImagesInv, SourceInv, ToBackup, ToExtract, ToCreate, Extracted
  <2>6. RecoveryInv'
    BY <1>1, <1>2, <2>1, <2>2, Zenon DEF ImagesInv, RecoveryInv, SameFS, LabelledSystem
  <2>7. GrubInv'
    BY <1>1, <1>2 DEF ImagesInv, GrubInv
  <2> QED
    BY <2>3, <2>4, <2>5, <2>6, <2>7 DEF ImagesInv
<1>3. CASE Abort("MoveFile") /\ UNCHANGED disk
  BY <1>1, <1>3, ImagesQuiet DEF SameImages, Extracted, ToCreate
<1> QED
  BY <1>2, <1>3 DEF Backup

\* The passive image gets its label.
LEMMA ImagesLabel == TypeOK /\ RotationSafe /\ ImagesInv /\ LabelPassive => ImagesInv'
<1> SUFFICES ASSUME TypeOK, RotationSafe, ImagesInv, LabelPassive PROVE ImagesInv'
  OBVIOUS
<1>1. /\ pc = "label" /\ pc \in Live /\ ~spec.recovery /\ ImageReady
      /\ UNCHANGED <<tree, yaml, grub, loaded, spec, start, runs>>
      /\ TransSlot = "transState" /\ TransSlot' = "transState" /\ ImageFS' = ImageFS
      /\ ImageLabel' = ImageLabel /\ GrubLabels' = GrubLabels
  BY DEF LabelPassive, Live, Running, RotationSafe, ImageReady, TransSlot, ImageFS, ImageLabel, GrubLabels
<1>2. CASE pc' = "swap" /\ err' = err
           /\ disk' = Synced([disk EXCEPT !["passive"].label = spec.passiveLabel])
  <2> DEFINE d == [disk EXCEPT !["passive"].label = spec.passiveLabel]
  <2>1. d \in [Slot -> Image] /\ disk' = Synced(d)
    BY <1>2, Relabelled
  <2>2. \A s \in Slot \ {"passive"} : d[s] = disk[s]
    BY DEF TypeOK, PersistentOK
  <2>3. d["passive"].label = "COS_PASSIVE"
    BY <1>1 DEF TypeOK, PersistentOK, Image, Slot, ImagesInv, LabelInv
  <2> HIDE DEF d
  <2>4. \A s \in Slot \ {"passive"} : /\ disk'[s].fs = disk[s].fs /\ disk'[s].content = disk[s].content
                                      /\ disk'[s].label = disk[s].label
    <3> SUFFICES ASSUME NEW s \in Slot, s # "passive"
                 PROVE  /\ disk'[s].fs = disk[s].fs /\ disk'[s].content = disk[s].content
                        /\ disk'[s].label = disk[s].label
      OBVIOUS
    <3>1. d[s] = disk[s]
      BY <2>2
    <3>2. /\ disk'[s].fs = d[s].fs /\ disk'[s].content = d[s].content
          /\ disk'[s].label = d[s].label
      BY <2>1, SyncKeepsFiles
    <3> QED
      BY <3>1, <3>2
  <2>5. disk'["passive"].label = "COS_PASSIVE"
    BY <2>1, <2>3, SyncKeepsFiles DEF Slot
  <2>6. /\ pc' \in Live /\ BetweenRenames' /\ "active" \in Slot \ {"passive"}
        /\ "recovery" \in Slot \ {"passive"} /\ "transState" \in Slot \ {"passive"}
    BY <1>1, <1>2 DEF Live, Running, BetweenRenames, Slot
  <2>7. LabelInv'
    BY <1>1, <1>2, <2>4, <2>5, <2>6 DEF ImagesInv, LabelInv
  <2>8. ActiveInv'
    BY <1>1, <2>6 DEF ImagesInv, ActiveInv
  <2>9. SourceInv'
    BY <1>1, <1>2, <2>4, <2>6 DEF ImagesInv, SourceInv, ToBackup, ToExtract, ToCreate, Extracted
  <2>10. RecoveryInv'
    BY <1>1, <1>2, <2>4, <2>6, Zenon DEF ImagesInv, RecoveryInv, SameFS, LabelledSystem
  <2>11. GrubInv'
    BY <1>1, <1>2 DEF ImagesInv, GrubInv
  <2> QED
    BY <2>7, <2>8, <2>9, <2>10, <2>11 DEF ImagesInv
<1>3. CASE Abort("LabelImage") /\ UNCHANGED disk
  BY <1>1, <1>3, ImagesQuiet DEF SameImages, Extracted, ToCreate
<1> QED
  BY <1>2, <1>3 DEF LabelPassive

\* The transition image takes the place, and has the label, of the image it replaces.
LEMMA ImagesSwap == TypeOK /\ RotationSafe /\ ImagesInv /\ Swap => ImagesInv'
<1> SUFFICES ASSUME TypeOK, RotationSafe, ImagesInv, Swap PROVE ImagesInv'
  OBVIOUS
<1>1. /\ pc = "swap" /\ pc \in Live /\ ImageReady
      /\ UNCHANGED <<tree, yaml, grub, loaded, spec, start, runs>> /\ GrubLabels' = GrubLabels
  BY DEF Swap, Live, Running, ImageReady, GrubLabels
<1>2. CASE pc' = "sync" /\ err' = err /\ disk' = Renamed(TransSlot, FinalSlot)
  <2>1. /\ disk[TransSlot].fs = ImageFS /\ disk[TransSlot].label = ImageLabel
        /\ runs \in disk[TransSlot].content
    BY <1>1 DEF ImagesInv, LabelInv, SourceInv
  <2>2. /\ disk'[FinalSlot] = disk[TransSlot]
        /\ disk'["passive"] = disk["passive"]
        /\ disk'["active"] = IF spec.recovery THEN disk["active"] ELSE disk[TransSlot]
        /\ disk'["recovery"] = IF spec.recovery THEN disk[TransSlot] ELSE disk["recovery"]
    BY <1>2, SwapMoves DEF Slot
  <2>3. pc' \in Live /\ ~ImageReady' /\ disk[TransSlot].fs # "none"
    BY <1>1, <1>2 DEF Live, Running, ImageReady, RotationSafe
  <2>4. LabelInv'
    BY <1>1, <1>2, <2>1, <2>2, <2>3 DEF ImagesInv, LabelInv, ImageLabel
  <2>5. ActiveInv'
    BY <1>1, <1>2, <2>2, <2>3 DEF ImagesInv, ActiveInv, BetweenRenames
  <2>6. SourceInv'
    BY <1>1, <1>2, <2>1, <2>2, <2>3
    DEF ImagesInv, SourceInv, ToBackup, ToExtract, ToCreate, Extracted
  <2>7. RecoveryInv'
    <3>1. CASE ~spec.recovery
      BY <1>1, <1>2, <2>2, <2>3, <3>1, Zenon DEF ImagesInv, RecoveryInv, SameFS, LabelledSystem
    <3>2. CASE spec.recovery
      <4>1. /\ disk'["recovery"].fs = spec.recoveryFS /\ disk'["recovery"].label = spec.recoveryLabel
            /\ runs \in disk'["recovery"].content
        BY <2>1, <2>2, <3>2 DEF ImageFS, ImageLabel
      <4>2. runs \notin loaded.recovery.src /\ \A p \in ImgPart : runs \notin yaml[p].recovery.src
        BY <1>1 DEF ImagesInv, SourceInv
      <4> QED
        BY <1>1, <1>2, <2>3, <3>2, <4>1, <4>2, Zenon DEF ImagesInv, RecoveryInv, SameFS, LabelledSystem
    <3> QED
      BY <3>1, <3>2
  <2>8. GrubInv'
    BY <1>1, <1>2 DEF ImagesInv, GrubInv, Replaced
  <2> QED
    BY <2>4, <2>5, <2>6, <2>7, <2>8 DEF ImagesInv
<1>3. CASE Abort("MoveFile") /\ UNCHANGED disk
  BY <1>1, <1>3, ImagesQuiet DEF SameImages, Extracted, ToCreate
<1> QED
  BY <1>2, <1>3 DEF Swap

\* A sync, the removal of the transition image and going down change no system image's
\* label.
LEMMA ImagesPower ==
  ASSUME TypeOK, ImagesInv, Sync \/ JobRemove \/ PowerAction \/ Reboot \/ PowerLoss
  PROVE  ImagesInv'
<1>1. CASE disk' = Synced(disk) \/ disk' = disk
  <2>1. SameImages
    BY <1>1, SyncKeepsFiles DEF SameImages, TypeOK, PersistentOK, SystemSlot, Slot
  <2> QED
    BY <2>1, ImagesQuiet
    DEF Sync, JobRemove, PopJob, PowerAction, Reboot, PowerLoss, PoweredOff, Extracted, ToCreate
<1>2. CASE JobRemove
  BY <1>2, TransOnly, ImagesQuiet DEF JobRemove, PopJob
<1>3. CASE PowerLoss
  <2>1. PICK torn \in SUBSET {s \in Slot : disk[s].dirty} :
          disk' = Synced([s \in Slot |-> [disk[s] EXCEPT !.ok = @ /\ s \notin torn]])
    BY <1>3 DEF PowerLoss
  <2>2. ASSUME NEW s \in Slot
        PROVE  /\ disk'[s].fs = disk[s].fs /\ disk'[s].content = disk[s].content
               /\ disk'[s].label = disk[s].label
    <3>1. disk'[s] = [[disk[s] EXCEPT !.ok = @ /\ s \notin torn] EXCEPT !.dirty = FALSE]
      BY <2>1, Zenon DEF Synced
    <3> QED
      BY <3>1 DEF TypeOK, PersistentOK, Image
  <2>3. SameImages
    BY <2>2 DEF SameImages, SystemSlot, Slot
  <2> QED
    BY <1>3, <2>3, ImagesQuiet DEF PowerLoss, PoweredOff
<1> QED
  BY <1>1, <1>2, <1>3 DEF Sync, PowerAction, Reboot

\* The state that a run writes keeps the labels, and describes the recovery image.
LEMMA NewRecordLabels ==
  ASSUME TypeOK, ImagesInv, pc \in {"stateYaml", "recoveryYaml"}
  PROVE  /\ NewInstallState.active.label = "COS_ACTIVE"
         /\ NewInstallState.passive.label = "COS_PASSIVE"
         /\ NewInstallState.active.src = {} => NewInstallState.passive.src = {}
         /\ NewInstallState.recovery.src \subseteq 0 .. runs
         /\ SameFS(NewInstallState.recovery) /\ LabelledSystem(NewInstallState.recovery)
<1>1. /\ loaded \in InstallState /\ loaded.active \in Entry /\ loaded.passive \in Entry
      /\ loaded.recovery \in Entry /\ pc \in Live /\ runs \in Nat
  BY DEF TypeOK, RunOK, InstallState, Live, Running, Version
<1>2. /\ loaded.active.label = "COS_ACTIVE" /\ loaded.passive.label = "COS_PASSIVE"
      /\ spec.activeLabel = "COS_ACTIVE" /\ spec.passiveLabel = "COS_PASSIVE"
      /\ loaded.active.src = {} => loaded.passive.src = {}
  BY <1>1 DEF ImagesInv, LabelInv, ActiveInv
<1>3. CASE spec.recovery
  <2> DEFINE img == [src |-> {runs}, fs |-> ImageFS, label |-> ImageLabel]
  <2>1. NewInstallState
          = [[loaded EXCEPT !.file = "whole"] EXCEPT !.recovery = img, !.recoveryNull = FALSE]
    BY <1>3 DEF NewInstallState
  <2>2. /\ img.src = {runs} /\ img.fs = spec.recoveryFS /\ img.label = spec.recoveryLabel
    BY <1>3 DEF ImageFS, ImageLabel
  <2> HIDE DEF img
  <2>3. /\ NewInstallState.active = loaded.active /\ NewInstallState.passive = loaded.passive
        /\ NewInstallState.recovery = img
    BY <1>1, <2>1 DEF InstallState
  <2>4. /\ disk["recovery"].fs = spec.recoveryFS
        /\ spec.recoveryLabel = IF spec.recoveryFS = "squashfs" THEN "" ELSE "COS_SYSTEM"
    BY <1>1, <1>3, Zenon DEF ImagesInv, RecoveryInv
  <2>5. SameFS(img) /\ LabelledSystem(img)
    BY <2>2, <2>4, Zenon DEF SameFS, LabelledSystem
  <2>6. img.src \subseteq 0 .. runs
    BY <1>1, <2>2
  <2> QED
    BY <1>2, <2>3, <2>5, <2>6
<1>4. CASE ~spec.recovery
  <2> DEFINE pas == IF loaded.passive.src = {}
                    THEN [loaded.passive EXCEPT !.label = spec.passiveLabel] ELSE loaded.passive
             img == [src |-> {runs}, fs |-> ImageFS, label |-> ImageLabel]
             rec == IF loaded.active.src = {} THEN pas
                    ELSE [pas EXCEPT !.src = loaded.active.src, !.fs = loaded.active.fs]
  <2>1. NewInstallState = [[loaded EXCEPT !.file = "whole"] EXCEPT !.active = img, !.passive = rec]
    BY <1>4 DEF NewInstallState
  <2>2. pas \in [src : SUBSET Version, fs : {"ext2", "squashfs"}, label : {"COS_PASSIVE"}]
    <3>1. loaded.passive \in [src : SUBSET Version, fs : {"ext2", "squashfs"}, label : {"COS_PASSIVE"}]
      BY <1>1, <1>2 DEF Entry
    <3> QED
      BY <1>2, <3>1
  <2>3. rec.label = "COS_PASSIVE"
    <3> HIDE DEF pas
    <3> QED
      BY <2>2
  <2>4. img.src = {runs} /\ img.label = "COS_ACTIVE"
    BY <1>2, <1>4 DEF ImageLabel
  <2> HIDE DEF pas, img, rec
  <2>5. /\ NewInstallState.active = img /\ NewInstallState.passive = rec
        /\ NewInstallState.recovery = loaded.recovery
    BY <1>1, <2>1 DEF InstallState
  <2> QED
    BY <2>3, <2>4, <2>5, Zenon DEF ImagesInv, SourceInv, RecoveryInv
<1> QED
  BY <1>3, <1>4

\* Writing a copy of state.yaml.
LEMMA ImagesWrite ==
  ASSUME TypeOK, ImagesInv, WriteStateYaml \/ WriteRecoveryYaml
  PROVE  ImagesInv'
<1>1. /\ UNCHANGED <<disk, tree, grub, loaded, spec, start, runs>>
      /\ pc \in {"stateYaml", "recoveryYaml"} /\ pc \in Live /\ pc' \in Live
      /\ pc' \in {"recoveryYaml", "cleanup"} /\ (err' = "none" => err = "none")
  BY DEF WriteStateYaml, WriteRecoveryYaml, WriteYaml, Live, Running
<1>2. \/ yaml' = yaml
      \/ \E p \in ImgPart : yaml' = [yaml EXCEPT ![p] = NewInstallState]
      \/ \E p \in ImgPart, file \in {"whole", "broken", "empty"} : yaml' = [yaml EXCEPT ![p].file = file]
  BY DEF WriteStateYaml, WriteRecoveryYaml, WriteYaml, TypeOK, PersistentOK, InstallState, ImgPart
<1>3. ASSUME NEW p \in ImgPart
      PROVE  \/ yaml'[p] = NewInstallState
             \/ /\ yaml'[p].active = yaml[p].active /\ yaml'[p].passive = yaml[p].passive
                /\ yaml'[p].recovery = yaml[p].recovery
  BY <1>2 DEF TypeOK, PersistentOK, InstallState
<1>4. /\ \A e : SameFS(e) => SameFS(e)'
      /\ ~ImageReady' /\ ~BetweenRenames /\ GrubLabels' = GrubLabels
  BY <1>1 DEF SameFS, ImageReady, BetweenRenames, GrubLabels
<1>5. LabelInv'
  BY <1>1, <1>3, <1>4, NewRecordLabels DEF ImagesInv, LabelInv
<1>6. ActiveInv'
  BY <1>1, <1>3, <1>4, NewRecordLabels DEF ImagesInv, ActiveInv
<1>7. SourceInv'
  BY <1>1, <1>3, <1>4, NewRecordLabels
  DEF ImagesInv, SourceInv, ToBackup, ToExtract, ToCreate, Extracted
<1>8. RecoveryInv'
  <2>1. \A p \in ImgPart : SameFS(yaml[p].recovery)' /\ LabelledSystem(yaml[p].recovery)'
    <3> SUFFICES ASSUME NEW p \in ImgPart
                 PROVE  SameFS(yaml[p].recovery)' /\ LabelledSystem(yaml[p].recovery)'
      OBVIOUS
    <3>1. CASE yaml'[p] = NewInstallState
      <4>1. SameFS(NewInstallState.recovery) /\ LabelledSystem(NewInstallState.recovery)
        BY <1>1, NewRecordLabels
      <4> QED
        BY <1>1, <3>1, <4>1 DEF SameFS, LabelledSystem
    <3>2. CASE yaml'[p].recovery = yaml[p].recovery
      BY <1>1, <3>2, Zenon DEF ImagesInv, RecoveryInv, SameFS, LabelledSystem
    <3> QED
      BY <1>3, <3>1, <3>2
  <2> QED
    BY <1>1, <1>4, <2>1, Zenon DEF ImagesInv, RecoveryInv, SameFS, LabelledSystem
<1>9. GrubInv'
  BY <1>1, <1>4 DEF ImagesInv, GrubInv, Replaced, Settled
<1> QED
  BY <1>5, <1>6, <1>7, <1>8, <1>9 DEF ImagesInv

\* What a run can load of the labels and of the recovery image.
LEMMA LoadedLabels ==
  ASSUME TypeOK, ImagesInv
  PROVE  /\ LoadedState.active.label = "COS_ACTIVE" /\ LoadedState.passive.label = "COS_PASSIVE"
         /\ LoadedState.active.src = {} => LoadedState.passive.src = {}
         /\ LoadedState.recovery.src \subseteq 0 .. runs
         /\ SameFS(LoadedState.recovery) /\ LabelledSystem(LoadedState.recovery)
<1> DEFINE home == yaml[IF booted = "recovery" THEN "recovery" ELSE "state"]
<1>1. \E p \in ImgPart : home = yaml[p]
  BY DEF ImgPart
<1>2. CASE LoadedState = home
  BY <1>1, <1>2, Zenon DEF ImagesInv, LabelInv, ActiveInv, SourceInv, RecoveryInv
<1>3. CASE LoadedState = [Defaults EXCEPT !.file = home.file]
  <2>1. /\ LoadedState.active = [src |-> {}, fs |-> "ext2", label |-> "COS_ACTIVE"]
        /\ LoadedState.passive = [src |-> {}, fs |-> "ext2", label |-> "COS_PASSIVE"]
        /\ LoadedState.recovery = [src |-> {}, fs |-> "ext2", label |-> "COS_SYSTEM"]
    BY <1>3 DEF Defaults
  <2>2. disk["recovery"].fs # "none" => disk["recovery"].content # {}
    BY DEF ImagesInv, SourceInv
  <2> QED
    BY <2>1, <2>2 DEF SameFS, LabelledSystem
<1> QED
  BY <1>2, <1>3 DEF LoadedState

\* A state.yaml that describes the images is found on a machine that has an active one.
LEMMA TrustedActive ==
  ASSUME TypeOK, RotationSafe, DeliverInv, FilledInv, ImagesInv, Accurate(LoadedState)
  PROVE  disk["active"].fs # "none"
<1> SUFFICES ASSUME disk["active"].fs = "none" PROVE FALSE
  OBVIOUS
<1>1. disk["active"].content = {}
  BY DEF DeliverInv, NoFileNoContent, Slot
<1>2. LoadedState.active.src = {} /\ LoadedState.passive.src = disk["passive"].content
  BY <1>1 DEF Accurate
<1>3. disk["passive"].content = {}
  BY <1>2, LoadedLabels
<1> QED
  BY <1>3 DEF FilledInv, RotationSafe

\* A run takes the labels and file systems of the copy it loads.
LEMMA ImagesStart ==
  ASSUME FSOverride = FALSE, TypeOK, RotationSafe, DeliverInv, FilledInv, Ext2Only, ImagesInv,
         \E recovery \in BOOLEAN, sys, rec \in {"ext2", "squashfs"} : StartUpgrade(recovery, sys, rec)
  PROVE  ImagesInv'
<1>1. PICK recovery \in BOOLEAN, sys \in {"ext2", "squashfs"}, rec \in {"ext2", "squashfs"} :
        StartUpgrade(recovery, sys, rec)
  OBVIOUS
<1>2. LoadedState.active.fs = "ext2"
  <2>1. \A p \in ImgPart : yaml[p].active.fs = "ext2"
    BY DEF Ext2Only
  <2>2. \A file : [Defaults EXCEPT !.file = file].active.fs = "ext2"
    BY DEF Defaults
  <2> QED
    BY <2>1, <2>2 DEF LoadedState, ImgPart
<1>3. sys = "ext2" /\ rec = LoadedState.recovery.fs
  BY <1>1, <1>2 DEF StartUpgrade, FSChoices
<1>4. /\ pc' = "mountState" /\ UNCHANGED <<disk, tree, yaml, grub>> /\ loaded' = LoadedState
      /\ runs' = runs + 1 /\ spec'.recoveryFS = LoadedState.recovery.fs
      /\ spec'.activeLabel = LoadedState.active.label
      /\ spec'.passiveLabel = LoadedState.passive.label
      /\ spec'.recoveryLabel = IF LoadedState.recovery.fs = "squashfs" THEN ""
                               ELSE LoadedState.recovery.label
      /\ start'.trusted = Accurate(LoadedState)
  <2>1. /\ pc' = "mountState" /\ UNCHANGED <<disk, tree, yaml, grub>> /\ loaded' = LoadedState
        /\ runs' = runs + 1 /\ spec' = NewSpec(recovery, sys, rec)
    BY <1>1 DEF StartUpgrade
  <2>2. start'.trusted = Accurate(LoadedState)
    BY <1>1 DEF StartUpgrade
  <2>3. /\ NewSpec(recovery, sys, rec).recoveryFS = rec
        /\ NewSpec(recovery, sys, rec).activeLabel = LoadedState.active.label
        /\ NewSpec(recovery, sys, rec).passiveLabel = LoadedState.passive.label
        /\ NewSpec(recovery, sys, rec).recoveryLabel = IF rec = "squashfs" THEN ""
                                                       ELSE LoadedState.recovery.label
    <3> DEFINE new == NewSpec(recovery, sys, rec)
    <3>1. new.recoveryFS = rec
      BY DEF NewSpec
    <3>2. new.activeLabel = LoadedState.active.label
      BY <1>3 DEF NewSpec
    <3>3. new.passiveLabel = LoadedState.passive.label
      BY <1>3 DEF NewSpec
    <3>4. new.recoveryLabel = IF rec = "squashfs" THEN "" ELSE LoadedState.recovery.label
      BY DEF NewSpec
    <3> QED
      BY <3>1, <3>2, <3>3, <3>4, Zenon
  <2> QED
    BY <1>3, <2>1, <2>2, <2>3, Zenon
<1>5. ~ImageReady' /\ pc' \in Live /\ runs \in Nat
  <2>1. runs \in Nat
    BY UpgradeAssumption DEF TypeOK, RunOK, Version
  <2> QED
    BY <1>4, <2>1, Zenon DEF ImageReady, Live, Running
<1>6. LoadedState.recovery.fs \in {"ext2", "squashfs"}
  BY DEF LoadedState, Defaults, TypeOK, PersistentOK, InstallState, Entry, ImgPart
<1>7. LabelInv'
  BY <1>4, <1>5, LoadedLabels, Zenon DEF ImagesInv, LabelInv
<1>8. ActiveInv'
  BY <1>4, LoadedLabels, TrustedActive, Zenon DEF ImagesInv, ActiveInv
<1>9. SourceInv'
  <2>1. runs + 1 \notin 0 .. runs /\ 0 .. runs \subseteq 0 .. (runs + 1)
    BY <1>5
  <2> QED
    BY <1>4, <1>5, <2>1, LoadedLabels, Zenon
    DEF ImagesInv, SourceInv, ToBackup, ToExtract, ToCreate, Extracted
<1>10. RecoveryInv'
  <2>1. SameFS(LoadedState.recovery) /\ LabelledSystem(LoadedState.recovery)
    BY LoadedLabels
  <2>2. Accurate(LoadedState) => LoadedState.recovery.src = disk["recovery"].content
    BY DEF Accurate
  <2> QED
    BY <1>4, <1>6, <2>1, <2>2, Zenon DEF ImagesInv, RecoveryInv, SameFS, LabelledSystem
<1>11. GrubInv'
  BY <1>4, Zenon DEF GrubInv, Replaced, Settled
<1> QED
  BY <1>7, <1>8, <1>9, <1>10, <1>11 DEF ImagesInv

\* Every step keeps the labels where the boot menu looks for them.
LEMMA ImagesStep ==
  ASSUME FSOverride = FALSE, RunInv, Ext2Only, ImagesInv, [Next]_vars
  PROVE  ImagesInv'
<1>1. TypeOK /\ RotationSafe /\ DeliverInv /\ FilledInv
  BY DEF RunInv
<1>2. CASE Step
  BY <1>1, <1>2, ImagesWork, ImagesDump, ImagesGrub, ImagesFill, ImagesCleanTree, ImagesBackup,
     ImagesLabel, ImagesSwap, ImagesPower, ImagesWrite
  DEF Step
<1>3. CASE ~Step /\ Next
  BY <1>1, <1>3, ImagesWork, ImagesPower, ImagesStart DEF Next
<1>4. CASE UNCHANGED vars
  <2>1. /\ TransSlot' = TransSlot /\ ImageFS' = ImageFS /\ ImageLabel' = ImageLabel
        /\ GrubLabels' = GrubLabels
    BY <1>4 DEF TransSlot, ImageFS, ImageLabel, GrubLabels
  <2>2. ImageReady' = ImageReady /\ BetweenRenames' = BetweenRenames
    BY <1>4 DEF ImageReady, BetweenRenames
  <2>3. LabelInv' /\ ActiveInv' /\ SourceInv'
    BY <1>4, <2>1, <2>2 DEF ImagesInv, LabelInv, ActiveInv, SourceInv
  <2>4. RecoveryInv' /\ GrubInv'
    BY <1>4, <2>1, Zenon DEF ImagesInv, RecoveryInv, SameFS, LabelledSystem, GrubInv
  <2> QED
    BY <2>3, <2>4 DEF ImagesInv
<1> QED
  BY <1>2, <1>3, <1>4

\* The installer labels the images and records the labels.
LEMMA ImagesInit == SystemFS = {"ext2"} /\ Init => ImagesInv
<1> SUFFICES ASSUME SystemFS = {"ext2"}, Init PROVE ImagesInv
  OBVIOUS
<1>1. PICK rec \in RecoveryFS : disk = InstalledDisk("ext2", rec, {0})
  BY Zenon DEF Init
<1>2. /\ disk["active"] = Installed("ext2", "COS_ACTIVE", {0})
      /\ disk["passive"] = Installed("ext2", "COS_PASSIVE", {0})
      /\ disk["recovery"] = Installed(rec, "COS_SYSTEM", {0})
  BY <1>1 DEF InstalledDisk, Slot
<1>3. rec \in {"ext2", "squashfs"}
  BY <1>1, UpgradeAssumption
<1>4. /\ disk["active"].label = "COS_ACTIVE" /\ disk["active"].content = {0}
      /\ disk["passive"].label = "COS_PASSIVE" /\ disk["passive"].content = {0}
      /\ disk["recovery"].fs = rec /\ disk["recovery"].content = {0}
      /\ disk["recovery"].label = IF rec = "squashfs" THEN "" ELSE "COS_SYSTEM"
      /\ disk["active"].fs = "ext2"
  <2> DEFINE act == Installed("ext2", "COS_ACTIVE", {0})
             pas == Installed("ext2", "COS_PASSIVE", {0})
             sys == Installed(rec, "COS_SYSTEM", {0})
  <2>1. act.label = "COS_ACTIVE" /\ act.content = {0} /\ act.fs = "ext2"
    BY DEF Installed
  <2>2. pas.label = "COS_PASSIVE" /\ pas.content = {0}
    BY DEF Installed
  <2>3. sys.fs = rec /\ sys.content = {0}
    BY DEF Installed
  <2>4. sys.label = IF rec = "squashfs" THEN "" ELSE "COS_SYSTEM"
    BY DEF Installed
  <2> HIDE DEF act, pas, sys
  <2>5. disk["active"] = act /\ disk["passive"] = pas /\ disk["recovery"] = sys
    BY <1>2 DEF act, pas, sys
  <2> QED
    BY <2>1, <2>2, <2>3, <2>4, <2>5, Zenon
<1>5. /\ loaded.active.label = "COS_ACTIVE" /\ loaded.active.src = {0}
      /\ loaded.passive.label = "COS_PASSIVE"
      /\ loaded.recovery.src = {0} /\ loaded.recovery.fs = rec
      /\ loaded.recovery.label = disk["recovery"].label
  <2>1. loaded = RecordedState(disk)
    BY Zenon DEF Init
  <2>2. /\ loaded.active = Recorded(disk["active"]) /\ loaded.recovery = Recorded(disk["recovery"])
        /\ loaded.passive = [Recorded(disk["passive"]) EXCEPT !.fs = "ext2"]
    BY <2>1 DEF RecordedState
  <2>3. loaded.active.label = disk["active"].label /\ loaded.active.src = disk["active"].content
    BY <2>2 DEF Recorded
  <2>4. /\ loaded.recovery.src = disk["recovery"].content /\ loaded.recovery.fs = disk["recovery"].fs
        /\ loaded.recovery.label = disk["recovery"].label
    BY <2>2 DEF Recorded
  <2>5. loaded.passive.label = disk["passive"].label
    BY <2>2 DEF Recorded
  <2> QED
    BY <1>4, <2>3, <2>4, <2>5, Zenon
<1>6. /\ \A p \in ImgPart : yaml[p] = loaded
      /\ grub["active"] = "COS_ACTIVE" /\ grub["passive"] = "COS_PASSIVE"
      /\ runs = 0 /\ pc = "ready" /\ spec.recovery = FALSE
  BY <1>4, Zenon DEF Init, SystemSlot
<1>7. pc \notin Live /\ ~ImageReady
  BY <1>6 DEF Live, Running, ImageReady
<1>8. LabelInv
  BY <1>4, <1>5, <1>6, <1>7, Zenon DEF LabelInv
<1>9. ActiveInv
  BY <1>5, <1>6, <1>7 DEF ActiveInv
<1>10. SourceInv
  <2>1. {0} \subseteq 0 .. runs
    BY <1>6
  <2> QED
    BY <1>4, <1>5, <1>6, <1>7, <2>1, Zenon DEF SourceInv, ToBackup, ToExtract, ToCreate, Extracted
<1>11. RecoveryInv
  BY <1>3, <1>4, <1>5, <1>6, <1>7, Zenon DEF RecoveryInv, SameFS, LabelledSystem
<1>12. GrubInv
  BY <1>6 DEF GrubInv, Replaced, Settled
<1> QED
  BY <1>8, <1>9, <1>10, <1>11, <1>12 DEF ImagesInv

\* When an upgrade succeeds whose loaded copy of state.yaml described the images, every
\* complete image carries the label that the GRUB environment names for it
\* (SetGrubVariables, the label of the transition image and the relabelling in Run).
\* For ext2 system images whose recovery file system no configuration changes: a
\* relabelling of squashfs fails, and a changed recovery file system changes the label
\* that GRUB looks for before the image is rebuilt.
THEOREM LabelsMatch ==
  ASSUME SystemFS = {"ext2"}, FSOverride = FALSE
  PROVE  Spec => []GrubMatchesImages
<1>1. Init => Ext2Only /\ ImagesInv
  BY Ext2Init, ImagesInit
<1>2. RunInv /\ (Ext2Only /\ ImagesInv) /\ [Next]_vars => (Ext2Only /\ ImagesInv)'
  BY Ext2Step, ImagesStep DEF RunInv
<1>3. RunInv /\ (Ext2Only /\ ImagesInv) => GrubMatchesImages
  <2> SUFFICES ASSUME RunInv, Ext2Only, ImagesInv, pc = "power", start.trusted, NEW s \in SystemSlot,
                      disk[s].ok, disk[s].fs = "ext2"
               PROVE  disk[s].label = grub[s]
    BY DEF GrubMatchesImages, Bootable
  <2>1. err = "none" /\ pc \in Live
    BY DEF RunInv, CleanInv, TransitionTracked, Live, Running
  <2>2. grub = GrubLabels /\ disk["active"].fs # "none"
    BY <2>1 DEF ImagesInv, GrubInv, ActiveInv, BetweenRenames, Replaced, Settled
  <2>3. CASE s = "active"
    BY <2>1, <2>2, <2>3 DEF ImagesInv, LabelInv
  <2>4. CASE s = "passive"
    BY <2>1, <2>2, <2>4 DEF ImagesInv, LabelInv
  <2>5. CASE s = "recovery"
    <3>1. grub["recovery"] = spec.recoveryLabel
      BY <2>2 DEF GrubLabels, SystemSlot
    <3>2. spec.recoveryFS = "ext2"
      <4>1. CASE spec.recovery
        BY <2>1, <2>5, <4>1, Zenon DEF ImagesInv, RecoveryInv
      <4>2. CASE ~spec.recovery
        BY <2>1, <2>5, <4>2, Zenon DEF ImagesInv, RecoveryInv, SameFS
      <4> QED
        BY <4>1, <4>2
    <3> QED
      BY <2>1, <2>5, <3>1, <3>2 DEF ImagesInv, RecoveryInv
  <2> QED
    BY <2>3, <2>4, <2>5 DEF SystemSlot
<1> QED
  BY <1>1, <1>2, <1>3, RunCorrect, PTL DEF Spec
-----------------------------------------------------------------------------
(* The first fault.                                                        *)

\* No fault so far, or one that has left no active image: then everything about the
\* recovery system is as it should be.
Calm == faults = 0 \/ (faults = 1 /\ disk["active"].fs = "none" /\ ~BetweenRenames)

RecoverySound ==
  /\ disk["recovery"].ok /\ disk["recovery"].fs # "none"
  /\ \A p \in ImgPart : yaml[p].file = "whole" /\ yaml[p].recovery.fs = disk["recovery"].fs
  /\ pc \in Live => loaded.file = "whole" /\ loaded.recovery.fs = disk["recovery"].fs
  /\ disk["recovery"].fs = "ext2" => grub["recovery"] = "COS_SYSTEM"

CalmInv == /\ faults = 0 => disk["active"].fs # "none" \/ BetweenRenames
           /\ Calm => RecoverySound

\* A step that keeps the active image either is not between the renames or is a fault:
\* it is a first fault only for a machine that has an active image or is between them.
LEMMA CalmBefore ==
  ASSUME TypeOK, CalmInv, Succeeds \/ Fails, disk'["active"].fs = disk["active"].fs,
         ~BetweenRenames \/ Fails
  PROVE  /\ Calm' => Calm
         /\ faults' = 0 => disk'["active"].fs # "none"
         /\ Calm' /\ Fails => BetweenRenames
<1>1. faults \in Nat
  BY UpgradeAssumption DEF TypeOK, CommandOK
<1> QED
  BY <1>1 DEF Calm, CalmInv, Succeeds, Fails

\* Steps that leave the recovery system alone.
LEMMA CalmQuiet ==
  ASSUME TypeOK, CalmInv, Succeeds \/ Fails, UNCHANGED <<yaml, grub, loaded>>,
         disk'["active"].fs = disk["active"].fs, disk'["recovery"].fs = disk["recovery"].fs,
         disk'["recovery"].ok = disk["recovery"].ok, ~BetweenRenames \/ Fails,
         pc' \in Live => pc \in Live
  PROVE  CalmInv'
BY CalmBefore DEF CalmInv, RecoverySound

\* The steps of a run outside the rotation.
LEMMA CalmWork ==
  ASSUME TypeOK, CalmInv,
         \/ MountState \/ MountRecovery \/ MountPersistent \/ BeforeHook \/ PostHook
         \/ BindTree \/ DumpSource \/ DumpFailed \/ SelinuxRelabel \/ ChrootHook \/ AfterHook
         \/ SetDefaultGrubEntry \/ JobUmount \/ JobRemountRO \/ JobCleanTree \/ CleanupDone
         \/ CleanTree \/ \E s \in SystemSlot : Boot(s)
  PROVE  CalmInv'
<1> USE CalmQuiet DEF Live, Running, BetweenRenames, Succeeds, Fails
<1>1. CASE MountState \/ MountRecovery \/ MountPersistent
  BY <1>1 DEF MountState, MountRecovery, MountPersistent
<1>2. CASE BeforeHook \/ AfterHook \/ PostHook
  BY <1>2 DEF BeforeHook, AfterHook, PostHook, RunHook
<1>3. CASE BindTree \/ DumpSource
  BY <1>3 DEF BindTree, DumpSource
<1>4. CASE DumpFailed
  BY <1>4 DEF DumpFailed, TreeCleaner, TreeUnmounts, RemovalFails
<1>5. CASE SelinuxRelabel \/ ChrootHook
  BY <1>5 DEF SelinuxRelabel, ChrootHook, ChrootedCallback
<1>6. CASE SetDefaultGrubEntry
  BY <1>6 DEF SetDefaultGrubEntry
<1>7. CASE JobUmount \/ JobRemountRO
  BY <1>7 DEF JobUmount, JobRemountRO, JobRevertMount, PopJob
<1>8. CASE JobCleanTree
  BY <1>8 DEF JobCleanTree, PopJob, TreeCleaner, TreeUnmounts, RemovalFails
<1>9. CASE CleanTree
  BY <1>9 DEF CleanTree, TreeCleaner, TreeUnmounts, RemovalFails
<1>10. CASE CleanupDone
  BY <1>10 DEF CleanupDone
<1>11. CASE \E s \in SystemSlot : Boot(s)
  BY <1>11 DEF Boot
<1> QED
  BY <1>1, <1>2, <1>3, <1>4, <1>5, <1>6, <1>7, <1>8, <1>9, <1>10, <1>11

\* Writing and removing the transition image, and syncing.
LEMMA CalmDisk ==
  ASSUME TypeOK, CalmInv,
         CreateImage \/ FillImage \/ SquashImage \/ JobRemove \/ Sync \/ PowerAction \/ Reboot
  PROVE  CalmInv'
<1>1. CASE disk' = Synced(disk) \/ disk' = disk
  <2>1. \A s \in Slot : disk'[s].fs = disk[s].fs /\ disk'[s].ok = disk[s].ok
    BY <1>1, SyncKeepsFiles DEF TypeOK, PersistentOK
  <2>2. pc' \in Live => pc \in Live
    BY DEF CreateImage, FillImage, SquashImage, JobRemove, PopJob, Sync, PowerAction, Reboot,
           PoweredOff, Live, Running
  <2>3. /\ UNCHANGED <<yaml, grub, loaded>> /\ ~BetweenRenames /\ (Succeeds \/ Fails)
        /\ "active" \in Slot /\ "recovery" \in Slot
    BY DEF CreateImage, FillImage, SquashImage, JobRemove, PopJob, Sync, PowerAction, Reboot,
           PoweredOff, BetweenRenames, Succeeds, Slot
  <2> QED
    BY <2>1, <2>2, <2>3, CalmQuiet
<1>2. CASE CreateImage \/ FillImage \/ SquashImage \/ JobRemove
  <2>1. disk'["active"] = disk["active"] /\ disk'["recovery"] = disk["recovery"]
    BY <1>2, TransSlotOther
    DEF CreateImage, FillImage, SquashImage, JobRemove, TypeOK, PersistentOK, SystemSlot, Slot
  <2>2. /\ UNCHANGED <<yaml, grub, loaded>> /\ ~BetweenRenames /\ pc \in Live /\ (Succeeds \/ Fails)
    BY <1>2 DEF CreateImage, FillImage, SquashImage, JobRemove, PopJob, BetweenRenames, Live, Running
  <2> QED
    BY <2>1, <2>2, CalmQuiet
<1> QED
  BY <1>1, <1>2 DEF Sync, PowerAction, Reboot, PoweredOff

\* A power loss tears the recovery image only between its rename and the sync, when there
\* is an active image.
LEMMA CalmPowerLoss == TypeOK /\ RotationSafe /\ CalmInv /\ PowerLoss => CalmInv'
<1> SUFFICES ASSUME TypeOK, RotationSafe, CalmInv, PowerLoss PROVE CalmInv'
  OBVIOUS
<1>1. PICK torn \in SUBSET {s \in Slot : disk[s].dirty} :
        disk' = Synced([s \in Slot |-> [disk[s] EXCEPT !.ok = @ /\ s \notin torn]])
  BY DEF PowerLoss
<1>2. ASSUME NEW s \in Slot
      PROVE  disk'[s].fs = disk[s].fs /\ (disk[s].ok /\ s \notin torn => disk'[s].ok)
  <2>1. disk'[s] = [[disk[s] EXCEPT !.ok = @ /\ s \notin torn] EXCEPT !.dirty = FALSE]
    BY <1>1, Zenon DEF Synced
  <2> QED
    BY <2>1 DEF TypeOK, PersistentOK, Image
<1>3. /\ Fails /\ pc' = "off" /\ UNCHANGED <<yaml, grub, loaded>>
      /\ "active" \in Slot /\ "recovery" \in Slot
  BY DEF PowerLoss, PoweredOff, Slot
<1>4. CASE Calm' => Calm /\ BetweenRenames
  <2>1. Calm' => "recovery" \notin torn
    BY <1>1, <1>4 DEF RotationSafe, BetweenRenames
  <2> QED
    BY <1>2, <1>3, <1>4, <2>1, CalmBefore DEF CalmInv, RecoverySound, Live, Running
<1> QED
  BY <1>2, <1>3, <1>4, CalmBefore

\* The rotation: active is absent between its backup and the rename of the new image.
LEMMA CalmRotate ==
  ASSUME TypeOK, RotationSafe, Ext2Only, ImagesInv, CalmInv, Backup \/ LabelPassive \/ Swap
  PROVE  CalmInv'
<1>1. /\ UNCHANGED <<yaml, grub, loaded, spec>> /\ (Succeeds \/ Fails) /\ pc \in Live
      /\ faults \in Nat
  BY UpgradeAssumption DEF Backup, LabelPassive, Swap, TypeOK, CommandOK, Live, Running
<1>2. CASE Backup /\ UNCHANGED disk
  BY <1>1, <1>2, CalmQuiet DEF Backup, BetweenRenames
<1>3. CASE (LabelPassive \/ Swap) /\ UNCHANGED disk /\ Fails
  BY <1>1, <1>3, CalmQuiet
<1>4. CASE Backup /\ Succeeds /\ pc' = "label" /\ disk' = Renamed("active", "passive")
  <2>1. ~spec.recovery /\ disk'["recovery"] = disk["recovery"] /\ BetweenRenames'
    BY <1>1, <1>4 DEF Backup, RotationSafe, BetweenRenames, Renamed, TypeOK, PersistentOK, Slot
  <2>2. Calm' => Calm
    BY <1>1, <1>4, <2>1 DEF Calm, Succeeds
  <2> QED
    BY <1>1, <2>1, <2>2 DEF CalmInv, RecoverySound
<1>5. CASE LabelPassive /\ Succeeds /\ pc' = "swap"
           /\ disk' = Synced([disk EXCEPT !["passive"].label = spec.passiveLabel])
  <2> DEFINE d == [disk EXCEPT !["passive"].label = spec.passiveLabel]
  <2>1. d \in [Slot -> Image] /\ disk' = Synced(d)
    BY <1>5, Relabelled
  <2>2. d["active"] = disk["active"] /\ d["recovery"] = disk["recovery"]
    BY DEF TypeOK, PersistentOK, Slot
  <2> HIDE DEF d
  <2>3. disk'["recovery"].fs = disk["recovery"].fs /\ disk'["recovery"].ok = disk["recovery"].ok
    BY <2>1, <2>2, SyncKeepsFiles DEF Slot
  <2>4. BetweenRenames'
    BY <1>1, <1>5 DEF LabelPassive, RotationSafe, BetweenRenames
  <2>5. Calm' => Calm
    BY <1>1, <1>5, <2>4 DEF Calm, Succeeds
  <2> QED
    BY <1>1, <2>3, <2>4, <2>5 DEF CalmInv, RecoverySound
<1>6. CASE Swap /\ Succeeds /\ pc' = "sync" /\ disk' = Renamed(TransSlot, FinalSlot)
  <2>1. /\ disk[TransSlot].ok /\ disk[TransSlot].fs = ImageFS /\ disk[TransSlot].fs # "none"
    BY <1>6 DEF Swap, RotationSafe, ImagesInv, LabelInv, ImageReady
  <2>2. /\ disk'["active"] = IF spec.recovery THEN disk["active"] ELSE disk[TransSlot]
        /\ disk'["recovery"] = IF spec.recovery THEN disk[TransSlot] ELSE disk["recovery"]
    BY <1>6, SwapMoves DEF Slot
  <2>3. CASE ~spec.recovery
    <3>1. faults' = 0 \/ ~Calm'
      BY <2>1, <2>2, <2>3 DEF Calm
    <3> QED
      BY <1>1, <1>6, <2>1, <2>2, <2>3, <3>1 DEF CalmInv, RecoverySound, Calm, Succeeds
  <2>4. CASE spec.recovery
    <3>1. ~BetweenRenames /\ (Calm' => Calm) /\ (faults' = 0 => disk'["active"].fs # "none")
      BY <1>1, <1>6, <2>2, <2>4, CalmBefore DEF BetweenRenames
    <3>2. Calm => disk'["recovery"].fs = disk["recovery"].fs
      BY <1>1, <2>1, <2>2, <2>4, Zenon DEF CalmInv, RecoverySound, ImagesInv, RecoveryInv, ImageFS
    <3> QED
      BY <1>1, <2>1, <2>2, <2>4, <3>1, <3>2 DEF CalmInv, RecoverySound
  <2> QED
    BY <2>3, <2>4
<1> QED
  BY <1>2, <1>3, <1>4, <1>5, <1>6 DEF Backup, LabelPassive, Swap, Ext2Only

\* The label of the recovery image in the GRUB environment.
LEMMA CalmGrub == TypeOK /\ ImagesInv /\ CalmInv /\ SetGrubVariables => CalmInv'
<1> SUFFICES ASSUME TypeOK, ImagesInv, CalmInv, SetGrubVariables PROVE CalmInv'
  OBVIOUS
<1>1. /\ UNCHANGED <<disk, yaml, loaded>> /\ (Succeeds \/ Fails) /\ pc \in Live /\ ~BetweenRenames
      /\ "recovery" \in SystemSlot
  BY DEF SetGrubVariables, Live, Running, BetweenRenames, SystemSlot
<1>2. grub'["recovery"] = grub["recovery"] \/ grub'["recovery"] = spec.recoveryLabel
  BY DEF SetGrubVariables, GrubLabels, SystemSlot
<1>3. Calm => spec.recoveryFS = disk["recovery"].fs
  BY <1>1, Zenon DEF CalmInv, RecoverySound, ImagesInv, RecoveryInv
<1>4. Calm /\ disk["recovery"].fs = "ext2" => grub'["recovery"] = "COS_SYSTEM"
  BY <1>1, <1>2, <1>3, Zenon DEF CalmInv, RecoverySound, ImagesInv, RecoveryInv
<1> QED
  BY <1>1, <1>4, CalmBefore DEF CalmInv, RecoverySound

\* A copy of state.yaml is damaged only by a fault.
LEMMA CalmWrite ==
  ASSUME TypeOK, ImagesInv, CalmInv, WriteStateYaml \/ WriteRecoveryYaml
  PROVE  CalmInv'
<1>1. /\ UNCHANGED <<disk, grub, loaded>> /\ (Succeeds \/ Fails) /\ pc \in Live /\ ~BetweenRenames
      /\ pc \in {"stateYaml", "recoveryYaml"}
  BY DEF WriteStateYaml, WriteRecoveryYaml, WriteYaml, Live, Running, BetweenRenames
<1>2. CASE Fails
  BY <1>1, <1>2, CalmBefore DEF CalmInv
<1>3. CASE yaml' = yaml
  BY <1>1, <1>3, CalmQuiet
<1>4. CASE \E p \in ImgPart : yaml' = [yaml EXCEPT ![p] = NewInstallState]
  <2>1. NewInstallState.file = "whole"
    BY NewRecord
  <2>2. Calm => NewInstallState.recovery.fs = disk["recovery"].fs
    <3> SUFFICES ASSUME Calm PROVE NewInstallState.recovery.fs = disk["recovery"].fs
      OBVIOUS
    <3>1. loaded.recovery.fs = disk["recovery"].fs
      BY <1>1 DEF CalmInv, RecoverySound
    <3>2. CASE ~spec.recovery
      BY <3>1, <3>2, NewRecord
    <3>3. CASE spec.recovery
      <4> DEFINE img == [src |-> {runs}, fs |-> ImageFS, label |-> ImageLabel]
      <4>1. NewInstallState
              = [[loaded EXCEPT !.file = "whole"] EXCEPT !.recovery = img, !.recoveryNull = FALSE]
        BY <3>3 DEF NewInstallState
      <4>2. img.fs = spec.recoveryFS
        BY <3>3 DEF ImageFS
      <4> HIDE DEF img
      <4>3. NewInstallState.recovery = img
        BY <4>1 DEF TypeOK, RunOK, InstallState
      <4>4. disk["recovery"].fs = spec.recoveryFS
        BY <1>1, <3>3, Zenon DEF ImagesInv, RecoveryInv
      <4> QED
        BY <4>2, <4>3, <4>4
    <3> QED
      BY <3>2, <3>3
  <2>3. ASSUME NEW p \in ImgPart PROVE yaml'[p] = NewInstallState \/ yaml'[p] = yaml[p]
    BY <1>4 DEF TypeOK, PersistentOK
  <2> QED
    BY <1>1, <2>1, <2>2, <2>3, CalmBefore DEF CalmInv, RecoverySound
<1> QED
  BY <1>2, <1>3, <1>4 DEF WriteStateYaml, WriteRecoveryYaml, WriteYaml, ImgPart

\* A run loads a whole copy.
LEMMA CalmStart ==
  ASSUME TypeOK, CalmInv,
         \E recovery \in BOOLEAN, sys, rec \in {"ext2", "squashfs"} : StartUpgrade(recovery, sys, rec)
  PROVE  CalmInv'
<1>1. /\ UNCHANGED <<disk, yaml, grub>> /\ loaded' = LoadedState /\ Succeeds /\ ~BetweenRenames
  BY DEF StartUpgrade, BetweenRenames, Succeeds
<1>2. Calm => /\ LoadedState.file = "whole"
              /\ LoadedState.recovery.fs = disk["recovery"].fs
  BY DEF LoadedState, CalmInv, RecoverySound, ImgPart
<1> QED
  BY <1>1, <1>2, CalmBefore DEF CalmInv, RecoverySound

\* Every step keeps the recovery system sound until a fault can have damaged it.
LEMMA CalmStep ==
  ASSUME RunInv, Ext2Only, ImagesInv, CalmInv, [Next]_vars
  PROVE  CalmInv'
<1>1. TypeOK /\ RotationSafe
  BY DEF RunInv
<1>2. CASE Step
  BY <1>1, <1>2, CalmWork, CalmDisk, CalmRotate, CalmGrub, CalmWrite DEF Step
<1>3. CASE ~Step /\ Next
  BY <1>1, <1>3, CalmWork, CalmDisk, CalmPowerLoss, CalmStart DEF Next
<1>4. CASE UNCHANGED vars
  <2>1. BetweenRenames' = BetweenRenames
    BY <1>4 DEF BetweenRenames
  <2> QED
    BY <1>4, <2>1 DEF CalmInv, Calm, RecoverySound
<1> QED
  BY <1>2, <1>3, <1>4

\* The installer leaves a recovery system and two copies of state.yaml.
LEMMA CalmInit == Init => CalmInv
<1> SUFFICES ASSUME Init PROVE CalmInv
  OBVIOUS
<1>1. PICK sys \in SystemFS, rec \in RecoveryFS : disk = InstalledDisk(sys, rec, {0})
  BY Zenon DEF Init
<1>2. sys \in {"ext2", "squashfs"} /\ rec \in {"ext2", "squashfs"}
  BY <1>1, UpgradeAssumption
<1> DEFINE act == Installed(sys, "COS_ACTIVE", {0})
           sysrec == Installed(rec, "COS_SYSTEM", {0})
<1>3. disk["active"] = act /\ disk["recovery"] = sysrec
  BY <1>1 DEF InstalledDisk, Slot
<1>4. act.fs = sys
  BY DEF Installed
<1>5. sysrec.fs = rec /\ sysrec.ok
  BY DEF Installed
<1>6. sysrec.label = IF rec = "squashfs" THEN "" ELSE "COS_SYSTEM"
  BY DEF Installed
<1> HIDE DEF act, sysrec
<1>7. pc \notin Live /\ grub["recovery"] = disk["recovery"].label
  BY Zenon DEF Init, Live, Running, SystemSlot
<1>8. loaded.file = "whole" /\ loaded.recovery.fs = disk["recovery"].fs
  <2>1. loaded = RecordedState(disk)
    BY Zenon DEF Init
  <2>2. loaded.recovery = Recorded(disk["recovery"]) /\ loaded.file = "whole"
    BY <2>1 DEF RecordedState
  <2> QED
    BY <2>2 DEF Recorded
<1>9. \A p \in ImgPart : yaml[p] = loaded
  BY Zenon DEF Init
<1> QED
  BY <1>2, <1>3, <1>4, <1>5, <1>6, <1>7, <1>8, <1>9, Zenon DEF CalmInv, RecoverySound

\* After any single fault, a power loss or a failed call, in any number of upgrades, a
\* machine that goes down has an image that boots: a system image or, between the renames
\* and after a failure there, the recovery image.
THEOREM FirstFaultBoots ==
  ASSUME SystemFS = {"ext2"}, FSOverride = FALSE
  PROVE  Spec => []SingleFaultBootable
<1>1. Init => Ext2Only /\ ImagesInv /\ CalmInv
  BY Ext2Init, ImagesInit, CalmInit
<1>2. RunInv /\ (Ext2Only /\ ImagesInv /\ CalmInv) /\ [Next]_vars => (Ext2Only /\ ImagesInv /\ CalmInv)'
  BY Ext2Step, ImagesStep, CalmStep DEF RunInv
<1>3. RunInv /\ (Ext2Only /\ ImagesInv /\ CalmInv) => SingleFaultBootable
  <2> SUFFICES ASSUME RunInv, ImagesInv, CalmInv, pc = "off", faults <= 1
               PROVE  \E s \in SystemSlot : Bootable(s)
    BY DEF SingleFaultBootable
  <2>1. faults = 0 \/ faults = 1
    BY UpgradeAssumption DEF RunInv, TypeOK, CommandOK
  <2>2. CASE disk["active"].fs # "none"
    <3>1. Bootable("active")
      BY <2>2 DEF RunInv, RotationSafe, ImagesInv, LabelInv, Bootable
    <3> QED
      BY <3>1 DEF SystemSlot
  <2>3. CASE disk["active"].fs = "none"
    <3>1. Calm /\ RecoverySound
      BY <2>1, <2>3 DEF CalmInv, Calm, BetweenRenames
    <3>2. Bootable("recovery")
      BY <3>1, Zenon DEF RecoverySound, ImagesInv, RecoveryInv, Bootable
    <3> QED
      BY <3>2 DEF SystemSlot
  <2> QED
    BY <2>2, <2>3
<1> QED
  BY <1>1, <1>2, <1>3, RunCorrect, PTL DEF Spec
=============================================================================
