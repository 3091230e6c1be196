---------------------------- MODULE InstallProofs ----------------------------
(***************************************************************************)
(* Theorems about Install: its types, what an installation cleans up, that *)
(* it repairs whatever was left on the device, what it delivers, and what  *)
(* one that does not format costs a bootable system.                       *)
(***************************************************************************)
EXTENDS Install, UpgradeProofs

USE DEF persistentVars, volatileVars, runVars, cmdVars, vars, installVars, allVars
USE DEF MountTree, Extract, DropTree, MakeImage, CopyTree, Squash, CleanThen, CleanTreeJob
USE DEF Goto, Abort
-----------------------------------------------------------------------------
(* Types.                                                                  *)

Place == Running \cup InstallStage \cup {"ready", "exited", "off"}

\* The stages an installation goes through.
LEMMA Places ==
  InstallStage \cup {"dumpFailed", "cleanup", "power", "exited", "off", "ready"} \subseteq Place
BY DEF Place, Running, InstallStage

\* The codes an installation fails with.
LEMMA InstallCodes ==
  {"Unknown", "DeactivatingDevices", "PartitioningDevice", "AlreadyInstalled", "MountPartitions",
   "HookBeforeInstall", "CopyFile", "InstallGrub", "HookAfterInstallChroot", "HookAfterInstall",
   "CopyFileImg", "DeployImage", "HookPostInstall", "CreateFile", "DeployImgTree",
   "SelinuxRelabel", "SetGrubVariables", "SetDefaultGrubEntry", "CreateImgFromTree", "Cleanup",
   "Reboot", "none"} \subseteq InstallError
BY DEF InstallError, Error, ErrorCode

\* The count of faults stays within its bound.
LEMMA FaultBound ==
  ASSUME faults \in 0 .. MaxFaults, Succeeds \/ Fails
  PROVE  faults' \in 0 .. MaxFaults
BY UpgradeAssumption DEF Succeeds, Fails

\* What a state of the live machine has, one by one.
LEMMA Components ==
  ASSUME InstallTypeOK
  PROVE  /\ disk \in [Slot -> Image] /\ tree \in [Slot -> SUBSET Version]
         /\ yaml \in [ImgPart -> InstallState] /\ grub \in [SystemSlot -> Label]
         /\ lost \subseteq {"dev", "oem", "persistent"}
         /\ mnt \in [Part -> Mode] /\ work \in Seq(Bind) /\ loops \subseteq ImgPart \cup {"iso"}
         /\ jobs \in Seq(InstallJob) /\ err \in InstallError /\ cleanErr \in BOOLEAN
         /\ exit \in 0 .. 2 /\ faults \in 0 .. MaxFaults /\ runs \in Version
         /\ spec \in UpgradeSpec /\ start \in Start /\ loaded \in InstallState
         /\ device \in {"blank", "partial", "made", "grub"} /\ how \in Options
         /\ iso \in {"none", "file", "mounted"} /\ RunOK
BY DEF InstallTypeOK, PersistentOK, RunOK

\* A step of the run keeps the types if what it changes is typed.
LEMMA InstallTypes ==
  ASSUME InstallTypeOK, UNCHANGED <<booted, loaded, start, runs, how>>,
         spec' \in UpgradeSpec,
         disk' \in [Slot -> Image], tree' \in [Slot -> SUBSET Version],
         yaml' \in [ImgPart -> InstallState], grub' \in [SystemSlot -> Label],
         lost' \subseteq {"dev", "oem", "persistent"},
         mnt' \in [Part -> Mode], work' \in Seq(Bind), loops' \subseteq ImgPart \cup {"iso"},
         pc' \in Place, jobs' \in Seq(InstallJob), err' \in InstallError,
         cleanErr' \in BOOLEAN, exit' \in 0 .. 2, Succeeds \/ Fails,
         device' \in {"blank", "partial", "made", "grub"}, iso' \in {"none", "file", "mounted"}
  PROVE  InstallTypeOK'
<1>1. faults' \in 0 .. MaxFaults
  BY FaultBound, Components
<1>2. PersistentOK' /\ RunOK'
  BY DEF InstallTypeOK, PersistentOK, RunOK
<1> QED
  BY <1>1, <1>2 DEF InstallTypeOK, Place, InstallJob

\* Steps that change nothing but where the run is.
LEMMA ControlTypes ==
  ASSUME InstallTypeOK, UNCHANGED <<persistentVars, volatileVars, runVars, jobs, cleanErr, installVars>>,
         pc' \in Place, err' \in InstallError, exit' \in 0 .. 2, Succeeds \/ Fails
  PROVE  InstallTypeOK'
<1>1. faults' \in 0 .. MaxFaults
  BY FaultBound, Components
<1>2. PersistentOK' /\ RunOK'
  BY DEF InstallTypeOK, PersistentOK, RunOK
<1> QED
  BY <1>1, <1>2 DEF InstallTypeOK, Place, InstallJob

\* The hooks and other steps that only succeed or fail.
LEMMA InstallHookTypes ==
  ASSUME InstallTypeOK,
         \/ BeforeInstall \/ CopyCloudConfig \/ AfterInstall \/ InstallEntry \/ PostInstall
         \/ KeepPartitions
  PROVE  InstallTypeOK'
<1>1. /\ UNCHANGED <<persistentVars, volatileVars, runVars, jobs, cleanErr, installVars, exit>>
      /\ Succeeds \/ Fails
  BY DEF BeforeInstall, CopyCloudConfig, AfterInstall, InstallEntry, PostInstall, RunHook,
         KeepPartitions
<1>2. pc' \in InstallStage \cup {"cleanup"}
  BY DEF BeforeInstall, CopyCloudConfig, AfterInstall, InstallEntry, PostInstall, RunHook,
         KeepPartitions, InstallStage
<1>3. err' \in InstallError
  BY InstallCodes, Components
  DEF BeforeInstall, CopyCloudConfig, AfterInstall, InstallEntry, PostInstall, RunHook,
      KeepPartitions
<1> QED
  BY <1>1, <1>2, <1>3, Places, Components, ControlTypes

\* Downloading the ISO keeps the types.
LEMMA FetchTypes == ASSUME InstallTypeOK, FetchISO PROVE InstallTypeOK'
<1>1. /\ UNCHANGED <<persistentVars, volatileVars, runVars, cleanErr, device, how, exit>>
      /\ Succeeds \/ Fails
      /\ iso' \in {"none", "file", "mounted"}
  BY DEF FetchISO
<1>2. pc' \in Place /\ err' \in InstallError
  BY Places, InstallCodes, Components DEF FetchISO, InstallStage
<1>3. jobs' \in Seq(InstallJob)
  <2>1. \A op \in {"isoFile", "isoAll"} : [op |-> op, part |-> "state"] \in InstallJob
    BY DEF InstallJob, ImgPart
  <2>2. jobs' = ISOJob(iso')
    BY DEF FetchISO
  <2> QED
    BY <2>1, <2>2 DEF ISOJob
<1> QED
  BY <1>1, <1>2, <1>3, Components, InstallTypes

\* A wiped device is typed.
LEMMA WipedTypes ==
  ASSUME InstallTypeOK, DeviceWiped
  PROVE  /\ disk' \in [Slot -> Image] /\ tree' \in [Slot -> SUBSET Version]
         /\ yaml' \in [ImgPart -> InstallState] /\ grub' \in [SystemSlot -> Label]
<1>1. Defaults \in InstallState
  BY DEF Defaults, InstallState, Entry, Label
<1>2. DefaultLabels \in [SystemSlot -> Label]
  BY DEF DefaultLabels, SystemSlot, Label
<1> QED
  BY <1>1, <1>2, NoFileType DEF DeviceWiped

\* Formatting keeps the types.
LEMMA FormatTypes == ASSUME InstallTypeOK, FormatDevice PROVE InstallTypeOK'
<1>1. /\ UNCHANGED <<lost, volatileVars, runVars, jobs, cleanErr, how, iso, exit>>
      /\ Succeeds \/ Fails
  BY DEF FormatDevice
<1>2. pc' \in Place /\ err' \in InstallError
  BY Places, InstallCodes, Components DEF FormatDevice, InstallStage
<1>3. DeviceWiped \/ UNCHANGED <<disk, tree, yaml, grub>>
  BY DEF FormatDevice
<1>4. /\ disk' \in [Slot -> Image] /\ tree' \in [Slot -> SUBSET Version]
      /\ yaml' \in [ImgPart -> InstallState] /\ grub' \in [SystemSlot -> Label]
  BY <1>3, WipedTypes, Components
<1>5. device' \in {"blank", "partial", "made", "grub"}
  BY Components DEF FormatDevice
<1> QED
  BY <1>1, <1>2, <1>4, <1>5, Components, InstallTypes

\* Writing the images of a partition back leaves them typed.
LEMMA WrittenBackTypes ==
  ASSUME InstallTypeOK, NEW gone PROVE WrittenBack(gone) \in [Slot -> Image]
<1>1. \A image \in Image : [image EXCEPT !.dirty = FALSE] \in Image
  BY DEF Image
<1>2. \A s \in Slot : disk[s] \in Image
  BY Components
<1> QED
  BY <1>1, <1>2 DEF WrittenBack

\* Mounting and unmounting the partitions keep the types.
LEMMA MountTypes == ASSUME InstallTypeOK, MountInstall PROVE InstallTypeOK'
<1>1. UNCHANGED <<tree, yaml, grub, lost, booted, work, loops, runVars, cleanErr, installVars, exit>>
  BY DEF MountInstall
<1>2. Succeeds \/ Fails
  BY DEF MountInstall
<1>3. pc' \in Place /\ err' \in InstallError
  BY Places, InstallCodes, Components DEF MountInstall, InstallStage
<1>4. disk' \in [Slot -> Image]
  BY WrittenBackTypes, Components DEF MountInstall
<1>5. mnt' \in [Part -> Mode]
  BY DEF MountInstall, Mode
<1>6. jobs' \in Seq(InstallJob)
  <2>1. [op |-> "umountInstalled", part |-> "state"] \in InstallJob
    BY DEF InstallJob, ImgPart
  <2>2. jobs \in Seq(InstallJob)
    BY Components
  <2> QED
    BY <2>1, <2>2, AppendType DEF MountInstall
<1> QED
  BY <1>1, <1>2, <1>3, <1>4, <1>5, <1>6, Components, InstallTypes

\* A job that is popped leaves the stack typed.
LEMMA PoppedTypes ==
  ASSUME InstallTypeOK, NEW op, PopJob(op)
  PROVE  jobs' \in Seq(InstallJob) /\ pc' = "cleanup" /\ UNCHANGED <<err, exit>>
<1>1. jobs \in Seq(InstallJob)
  BY Components
<1> QED
  BY <1>1, FrontType DEF PopJob

\* The jobs that unmount the partitions and release the ISO keep the types.
LEMMA UmountJobTypes == ASSUME InstallTypeOK, JobUmountInstalled PROVE InstallTypeOK'
<1>1. PICK stay \in SUBSET {p \in Part : mnt[p] # "none"} :
       /\ IF stay = Busy THEN Succeeds ELSE Fails
       /\ mnt' = [p \in Part |-> IF p \in stay THEN mnt[p] ELSE "none"]
       /\ disk' = WrittenBack({p \in Part : mnt[p] # "none"} \ stay)
       /\ cleanErr' = (cleanErr \/ stay # {})
  BY DEF JobUmountInstalled
<1>2. mnt' \in [Part -> Mode] /\ disk' \in [Slot -> Image]
  BY <1>1, WrittenBackTypes, Components DEF Mode
<1>3. jobs' \in Seq(InstallJob) /\ pc' \in Place /\ UNCHANGED <<err, exit>>
  BY PoppedTypes, Places DEF JobUmountInstalled
<1>4. UNCHANGED <<tree, yaml, grub, lost, booted, work, loops, runVars, installVars>>
  BY DEF JobUmountInstalled
<1>5. cleanErr' \in BOOLEAN /\ (Succeeds \/ Fails)
  BY <1>1
<1> QED
  BY <1>2, <1>3, <1>4, <1>5, Components, InstallTypes

\* The jobs that release the ISO keep the types.
LEMMA ISOJobTypes == ASSUME InstallTypeOK, JobISO PROVE InstallTypeOK'
<1>1. jobs' \in Seq(InstallJob) /\ pc' \in Place /\ UNCHANGED <<err, exit>>
  BY PoppedTypes, Places DEF JobISO
<1>2. UNCHANGED <<persistentVars, volatileVars, runVars, device, how>>
  BY DEF JobISO
<1>3. Succeeds \/ Fails
  BY DEF JobISO
<1>4. cleanErr' \in BOOLEAN
  BY Components DEF JobISO
<1>5. iso' \in {"none", "file", "mounted"}
  BY Components DEF JobISO
<1> QED
  BY <1>1, <1>2, <1>3, <1>4, <1>5, Components, InstallTypes

\* The visible scratch tree.
LEMMA TopTypes ==
  ASSUME InstallTypeOK, work # <<>>
  PROVE  Top.left \subseteq {"dev", "oem", "persistent"} /\ Top.slot \in Slot
<1>1. work \in Seq(Bind)
  BY Components
<1>2. Top \in Bind
  BY <1>1, LenProperties, ElementOfSeq, EmptySeq DEF Top
<1> QED
  BY <1>2 DEF Bind

\* The tree cleaner keeps the types.
LEMMA CleanerTypes ==
  ASSUME InstallTypeOK, NEW slot \in Slot, TreeCleaner(slot)
  PROVE  /\ work' \in Seq(Bind) /\ tree' \in [Slot -> SUBSET Version]
         /\ lost' \subseteq {"dev", "oem", "persistent"} /\ (Succeeds \/ Fails)
<1>1. work' \in Seq(Bind)
  <2>1. work \in Seq(Bind)
    BY Components
  <2> QED
    BY <2>1, FrontType DEF TreeCleaner, TreeUnmounts, RemovalFails
<1>2. CASE work' = <<>>
  BY <1>1, <1>2, Components DEF TreeCleaner, TreeUnmounts, RemovalFails, RemoveTree
<1>3. CASE work' # <<>>
  <2>1. work'[Len(work')] \in Bind
    BY <1>1, <1>3, LenProperties, ElementOfSeq, EmptySeq
  <2>2. work'[Len(work')].left \subseteq {"dev", "oem", "persistent"}
    BY <2>1 DEF Bind
  <2> QED
    BY <1>1, <1>3, <2>2, Components DEF TreeCleaner, TreeUnmounts, RemovalFails
<1> QED
  BY <1>2, <1>3

\* A tree cleaner that reports no error has unmounted the tree and emptied it.
LEMMA CleanerEmpties ==
  ASSUME InstallTypeOK, NEW slot, TreeCleaner(slot), ~TreeCleanerFailed
  PROVE  work' = <<>> /\ RemoveTree(slot)
<1>1. faults \in Nat
  BY Components
<1>2. work' = <<>> /\ faults' = faults
  BY DEF TreeCleanerFailed
<1>3. ~Fails
  BY <1>1, <1>2 DEF Fails
<1> QED
  BY <1>2, <1>3 DEF TreeCleaner, RemovalFails

\* The tree cleaner after a failure, in CreateImgFromTree and as a job keeps the types.
LEMMA CleanTypes ==
  ASSUME InstallTypeOK, DumpInstallFailed \/ CleanActive \/ CleanRecovery \/ JobCleanActive
  PROVE  InstallTypeOK'
<1>1. /\ UNCHANGED <<disk, yaml, grub, booted, mnt, loops, runVars, installVars>>
      /\ \E slot \in Slot : TreeCleaner(slot)
  BY DEF DumpInstallFailed, CleanActive, CleanRecovery, JobCleanActive, Slot
<1>2. /\ work' \in Seq(Bind) /\ tree' \in [Slot -> SUBSET Version]
      /\ lost' \subseteq {"dev", "oem", "persistent"} /\ (Succeeds \/ Fails)
  BY <1>1, CleanerTypes
<1>3. CASE DumpInstallFailed \/ CleanActive \/ CleanRecovery
  <2>1. UNCHANGED <<jobs, cleanErr, exit>>
    BY <1>3 DEF DumpInstallFailed, CleanActive, CleanRecovery
  <2>2. pc' \in Place /\ err' \in InstallError
    BY <1>3, Places, InstallCodes, Components
    DEF DumpInstallFailed, CleanActive, CleanRecovery, InstallStage
  <2> QED
    BY <1>1, <1>2, <2>1, <2>2, Components, InstallTypes
<1>4. CASE JobCleanActive
  <2>1. jobs' \in Seq(InstallJob) /\ pc' \in Place /\ UNCHANGED <<err, exit>>
    BY <1>4, PoppedTypes, Places DEF JobCleanActive
  <2>2. cleanErr' \in BOOLEAN
    BY <1>4, Components DEF JobCleanActive, TreeCleanerFailed
  <2> QED
    BY <1>1, <1>2, <2>1, <2>2, Components, InstallTypes
<1> QED
  BY <1>3, <1>4

\* Mounting the scratch tree of active keeps the types.
LEMMA DeployTypes == ASSUME InstallTypeOK, DeployActive PROVE InstallTypeOK'
<1>1. /\ UNCHANGED <<disk, yaml, grub, booted, mnt, loops, runVars, jobs, cleanErr, installVars, exit>>
      /\ Succeeds \/ Fails
  BY DEF DeployActive
<1>2. pc' \in Place /\ err' \in InstallError
  BY Places, InstallCodes, Components DEF DeployActive, InstallStage
<1>3. work' \in Seq(Bind)
  <2>1. work \in Seq(Bind)
    BY Components
  <2>2. [slot |-> "active", left |-> {}] \in Bind
    BY DEF Bind, Slot
  <2> QED
    BY <2>1, <2>2, AppendType DEF DeployActive
<1>4. lost' \subseteq {"dev", "oem", "persistent"}
  BY TopTypes, Components DEF DeployActive
<1>5. tree' \in [Slot -> SUBSET Version]
  BY Components DEF DeployActive, RemoveTree
<1> QED
  BY <1>1, <1>2, <1>3, <1>4, <1>5, Components, InstallTypes

\* Extracting the source of active keeps the types.
LEMMA DumpTypes == ASSUME InstallTypeOK, DumpActive \/ DumpActiveLeaks PROVE InstallTypeOK'
<1>1. /\ UNCHANGED <<disk, yaml, grub, lost, booted, mnt, work, runVars, cleanErr, installVars, exit>>
      /\ Succeeds \/ Fails
  BY DEF DumpActive, DumpActiveLeaks, DumpLeaks
<1>2. pc' \in Place /\ err' \in InstallError
  BY Places, InstallCodes, Components DEF DumpActive, DumpActiveLeaks, DumpLeaks, InstallStage
<1>3. loops' \subseteq ImgPart \cup {"iso"}
  BY Components DEF DumpActive, DumpActiveLeaks, DumpLeaks
<1>4. tree' \in [Slot -> SUBSET Version]
  <2>1. runs \in Version
    BY Components
  <2>2. tree' = [tree EXCEPT !["active"] = @ \cup {runs}]
    BY DEF DumpActive, DumpActiveLeaks, DumpLeaks
  <2> QED
    BY <2>1, <2>2, Components DEF Slot
<1>5. jobs' \in Seq(InstallJob)
  <2>1. jobs \in Seq(InstallJob)
    BY Components
  <2>2. [op |-> "cleanTree", part |-> HomePart] \in InstallJob
    BY DEF InstallJob, HomePart, ImgPart
  <2> QED
    BY <2>1, <2>2, AppendType DEF DumpActive, DumpActiveLeaks
<1> QED
  BY <1>1, <1>2, <1>3, <1>4, <1>5, Components, InstallTypes

\* Installing the boot loader keeps the types.
LEMMA InstallGrubTypes == ASSUME InstallTypeOK, InstallGrub PROVE InstallTypeOK'
<1>1. /\ UNCHANGED <<persistentVars, volatileVars, runVars, jobs, cleanErr, how, iso, exit>>
      /\ Succeeds \/ Fails
  BY DEF InstallGrub
<1>2. /\ pc' \in Place /\ err' \in InstallError
      /\ device' \in {"blank", "partial", "made", "grub"}
  BY Places, InstallCodes, Components DEF InstallGrub, InstallStage
<1> QED
  BY <1>1, <1>2, Components, InstallTypes

\* What a chroot leaves mounted under the visible scratch tree.
LEMMA LeftTypes ==
  ASSUME work \in Seq(Bind), NEW left \in SUBSET ChrootBinds,
         work' = [work EXCEPT ![Len(work)].left = @ \cup left]
  PROVE  work' \in Seq(Bind)
<1>1. ChrootBinds \subseteq {"dev", "oem", "persistent"}
  BY DEF ChrootBinds
<1>2. CASE work = <<>>
  <2>1. DOMAIN work = {}
    BY <1>2
  <2>2. work' = work
    BY <1>2, <2>1, LenProperties
  <2> QED
    BY <2>2
<1>3. CASE work # <<>>
  <2> DEFINE bind == [work[Len(work)] EXCEPT !.left = @ \cup left]
  <2>1. Len(work) \in 1 .. Len(work) /\ work[Len(work)] \in Bind
    BY <1>3, LenProperties, ElementOfSeq, EmptySeq
  <2>2. bind \in Bind
    BY <1>1, <2>1 DEF Bind
  <2>3. work' = [work EXCEPT ![Len(work)] = bind]
    OBVIOUS
  <2> QED
    BY <2>1, <2>2, <2>3, ExceptSeq
<1> QED
  BY <1>2, <1>3

\* The chroots of an installation keep the types.
LEMMA InstallChrootTypes == ASSUME InstallTypeOK, RelabelInstall \/ ChrootInstall PROVE InstallTypeOK'
<1>1. /\ UNCHANGED <<persistentVars, booted, mnt, loops, runVars, jobs, cleanErr, installVars, exit>>
      /\ Succeeds \/ Fails
  BY DEF RelabelInstall, ChrootInstall, Chrooted, ChrootedCallback
<1>2. pc' \in Place /\ err' \in InstallError
  BY Places, InstallCodes, Components
  DEF RelabelInstall, ChrootInstall, Chrooted, ChrootedCallback, InstallStage
<1>3. work' = work \/ \E left \in SUBSET ChrootBinds : work' = [work EXCEPT ![Len(work)].left = @ \cup left]
  BY DEF RelabelInstall, ChrootInstall, Chrooted, ChrootedCallback
<1>4. work' \in Seq(Bind)
  BY <1>3, LeftTypes, Components
<1> QED
  BY <1>1, <1>2, <1>4, Components, InstallTypes

\* The labels of an installation are labels.
LEMMA InstallLabelTypes == InstallTypeOK => GrubLabels \in [SystemSlot -> Label]
<1> SUFFICES ASSUME InstallTypeOK PROVE GrubLabels \in [SystemSlot -> Label]
  OBVIOUS
<1>1. spec \in UpgradeSpec
  BY Components
<1> QED
  BY <1>1 DEF GrubLabels, SystemSlot, UpgradeSpec

\* Setting the variables of GRUB keeps the types.
LEMMA InstallVariablesTypes == ASSUME InstallTypeOK, SetInstallVariables PROVE InstallTypeOK'
<1>1. /\ UNCHANGED <<disk, tree, yaml, lost, volatileVars, runVars, jobs, cleanErr, installVars, exit>>
      /\ Succeeds \/ Fails
  BY DEF SetInstallVariables
<1>2. pc' \in Place /\ err' \in InstallError
  BY Places, InstallCodes, Components DEF SetInstallVariables, InstallStage
<1>3. grub' \in [SystemSlot -> Label]
  BY InstallLabelTypes, Components DEF SetInstallVariables
<1> QED
  BY <1>1, <1>2, <1>3, Components, InstallTypes

\* Making an image keeps the types, whichever image it is.
LEMMA ImageTypes ==
  ASSUME InstallTypeOK, NEW slot \in Slot, NEW at, NEW next \in InstallStage,
         NEW cleaner \in InstallStage,
         \/ MakeImage(at, slot, next, cleaner)
         \/ CopyTree(at, slot, cleaner)
         \/ Squash(at, slot, cleaner),
         UNCHANGED installVars
  PROVE  InstallTypeOK'
<1>1. UNCHANGED <<tree, yaml, grub, lost, booted, mnt, work, runVars, jobs, cleanErr, exit>>
  BY DEF ImgFails
<1>2. Succeeds \/ Fails
  OBVIOUS
<1>3. pc' \in Place /\ err' \in InstallError
  <2>1. pc' \in InstallStage
    BY DEF ImgFails
  <2>2. err' = err \/ err' = "CreateImgFromTree"
    BY DEF ImgFails
  <2> QED
    BY <2>1, <2>2, Places, InstallCodes, Components
<1>4. RunOK /\ disk[slot].content \in SUBSET Version /\ tree[slot] \in SUBSET Version
  BY Components DEF Image
<1>5. \A ok \in BOOLEAN : /\ NewFile({}, ok) \in Image /\ NewFile(tree[slot], ok) \in Image
                          /\ NewFile(disk[slot].content \cup tree[slot], ok) \in Image
  <2>1. {} \in SUBSET Version /\ disk[slot].content \cup tree[slot] \in SUBSET Version
    BY <1>4
  <2> QED
    BY <1>4, <2>1, NewFileType
<1>6. disk' = disk \/ \E image \in Image : disk' = [disk EXCEPT ![slot] = image]
  BY <1>5, NoFileType
<1>7. disk' \in [Slot -> Image]
  BY <1>6, Components
<1>8. loops' \subseteq ImgPart \cup {"iso"}
  BY Components, TransSlotType
<1> QED
  BY <1>1, <1>2, <1>3, <1>7, <1>8, Components, InstallTypes

\* Making the images of active and recovery.
LEMMA ImagesTypes ==
  ASSUME InstallTypeOK,
         \/ CreateActive \/ FillActive \/ SquashActive
         \/ CreateRecovery \/ FillRecovery \/ SquashRecovery
  PROVE  InstallTypeOK'
<1>1. /\ {"active", "recovery"} \subseteq Slot
      /\ {"fillActive", "cleanActive", "fillRecovery", "cleanRecovery"} \subseteq InstallStage
  BY DEF Slot, InstallStage
<1>2. UNCHANGED installVars
  BY DEF CreateActive, FillActive, SquashActive, CreateRecovery, FillRecovery, SquashRecovery
<1>3. CASE CreateActive \/ FillActive \/ SquashActive
  <2>1. \/ MakeImage("createActive", "active", "fillActive", "cleanActive")
        \/ CopyTree("fillActive", "active", "cleanActive")
        \/ Squash("createActive", "active", "cleanActive")
    BY <1>3 DEF CreateActive, FillActive, SquashActive
  <2> QED
    BY <1>1, <1>2, <2>1, ImageTypes
<1>4. CASE CreateRecovery \/ FillRecovery \/ SquashRecovery
  <2>1. \/ MakeImage("createRecovery", "recovery", "fillRecovery", "cleanRecovery")
        \/ CopyTree("fillRecovery", "recovery", "cleanRecovery")
        \/ Squash("createRecovery", "recovery", "cleanRecovery")
    BY <1>4 DEF CreateRecovery, FillRecovery, SquashRecovery
  <2> QED
    BY <1>1, <1>2, <2>1, ImageTypes
<1> QED
  BY <1>3, <1>4

\* Copying the active image keeps the types.
LEMMA CopyImageTypes ==
  ASSUME InstallTypeOK, NEW at, NEW slot \in Slot, NEW label \in Label, NEW next \in InstallStage,
         NEW code \in {"CopyFileImg", "DeployImage"}, CopyImage(at, slot, label, next, code)
  PROVE  InstallTypeOK'
<1>1. /\ UNCHANGED <<tree, yaml, grub, lost, volatileVars, runVars, jobs, cleanErr, installVars, exit>>
      /\ Succeeds \/ Fails
  BY Zenon DEF CopyImage
<1>2. pc' \in Place /\ err' \in InstallError
  BY Places, InstallCodes, Components, Zenon DEF CopyImage
<1> DEFINE copy == [disk["active"] EXCEPT !.dirty = TRUE]
<1>3. disk["active"] \in Image
  BY Components DEF Slot
<1>4. /\ copy \in Image /\ [copy EXCEPT !.ok = FALSE] \in Image
      /\ [copy EXCEPT !.label = label] \in Image
  BY <1>3 DEF Image
<1>5. disk' = disk \/ \E image \in Image : disk' = [disk EXCEPT ![slot] = image]
  BY <1>4, Zenon DEF CopyImage
<1>6. disk' \in [Slot -> Image]
  BY <1>5, Components
<1> QED
  BY <1>1, <1>2, <1>6, Components, InstallTypes

\* The copies to recovery and passive.
LEMMA CopyTypes == ASSUME InstallTypeOK, CopyRecovery \/ CopyPassive PROVE InstallTypeOK'
<1>1. spec \in UpgradeSpec
  BY Components
<1>2. spec.recoveryLabel \in Label /\ spec.passiveLabel \in Label
  BY <1>1 DEF UpgradeSpec
<1>3. {"recovery", "passive"} \subseteq Slot /\ {"passive", "postInstall"} \subseteq InstallStage
  BY DEF Slot, InstallStage
<1> QED
  BY <1>2, <1>3, CopyImageTypes DEF CopyRecovery, CopyPassive

\* Mounting the scratch tree of recovery keeps the types.
LEMMA DeployRecoveryTypes == ASSUME InstallTypeOK, DeployRecovery PROVE InstallTypeOK'
<1>1. /\ UNCHANGED <<disk, yaml, grub, booted, mnt, loops, loaded, start, runs, jobs, cleanErr,
                     installVars, exit>>
      /\ Succeeds \/ Fails
  BY DEF DeployRecovery
<1>2. pc' \in Place /\ err' \in InstallError
  BY Places, InstallCodes, Components DEF DeployRecovery, InstallStage
<1>3. spec' \in UpgradeSpec
  BY Components DEF DeployRecovery, UpgradeSpec
<1>4. work' \in Seq(Bind)
  <2>1. work \in Seq(Bind)
    BY Components
  <2>2. [slot |-> "recovery", left |-> {}] \in Bind
    BY DEF Bind, Slot
  <2> QED
    BY <2>1, <2>2, AppendType DEF DeployRecovery
<1>5. lost' \subseteq {"dev", "oem", "persistent"}
  BY TopTypes, Components DEF DeployRecovery
<1>6. tree' \in [Slot -> SUBSET Version]
  BY Components DEF DeployRecovery, RemoveTree
<1> QED
  BY <1>1, <1>2, <1>3, <1>4, <1>5, <1>6, Components, InstallTypes

\* Extracting the source of recovery keeps the types.
LEMMA DumpRecoveryTypes == ASSUME InstallTypeOK, DumpRecovery \/ DumpRecoveryLeaks PROVE InstallTypeOK'
<1>1. /\ UNCHANGED <<disk, yaml, grub, lost, booted, mnt, work, runVars, jobs, cleanErr,
                     installVars, exit>>
      /\ Succeeds \/ Fails
  BY DEF DumpRecovery, DumpRecoveryLeaks, DumpLeaks
<1>2. pc' \in Place /\ err' \in InstallError
  BY Places, InstallCodes, Components DEF DumpRecovery, DumpRecoveryLeaks, DumpLeaks, InstallStage
<1>3. loops' \subseteq ImgPart \cup {"iso"}
  BY Components DEF DumpRecovery, DumpRecoveryLeaks, DumpLeaks, ImgPart
<1>4. tree' \in [Slot -> SUBSET Version]
  <2>1. RecoverySource \subseteq Version
    <3>1. 0 \in Version
      BY UpgradeAssumption DEF Version
    <3>2. disk["active"].content \in SUBSET Version
      BY Components DEF Image, Slot
    <3> QED
      BY <3>1, <3>2 DEF RecoverySource
  <2>2. tree' = [tree EXCEPT !["recovery"] = @ \cup RecoverySource]
    BY DEF DumpRecovery, DumpRecoveryLeaks, DumpLeaks
  <2> QED
    BY <2>1, <2>2, Components DEF Slot
<1> QED
  BY <1>1, <1>2, <1>3, <1>4, Components, InstallTypes

\* The state an installation records.
LEMMA InstalledStateType == InstallTypeOK => InstalledState \in InstallState
<1> SUFFICES ASSUME InstallTypeOK PROVE InstalledState \in InstallState
  OBVIOUS
<1>1. spec \in UpgradeSpec /\ {runs} \in SUBSET Version /\ {0} \in SUBSET Version
  BY Components, UpgradeAssumption DEF Version
<1>2. \A a \in Entry, p \in Entry, r \in Entry :
        [file |-> "whole", recoveryNull |-> FALSE, active |-> a, passive |-> p, recovery |-> r]
          \in InstallState
  BY DEF InstallState
<1>3. \A src \in SUBSET Version, fs \in {"ext2", "squashfs"}, label \in Label :
        [src |-> src, fs |-> fs, label |-> label] \in Entry
  BY DEF Entry
<1>4. /\ spec.activeFS \in {"ext2", "squashfs"} /\ spec.recoveryFS \in {"ext2", "squashfs"}
      /\ spec.activeLabel \in Label /\ spec.passiveLabel \in Label /\ spec.recoveryLabel \in Label
  BY <1>1 DEF UpgradeSpec
<1>5. (IF how.own THEN {0} ELSE {runs}) \in SUBSET Version
  BY <1>1
<1> QED
  BY <1>1, <1>2, <1>3, <1>4, <1>5 DEF InstalledState

\* Recording the installation keeps the types.
LEMMA WriteInstallTypes == ASSUME InstallTypeOK, WriteInstallYaml PROVE InstallTypeOK'
<1>1. UNCHANGED <<disk, tree, grub, lost, volatileVars, runVars, jobs, cleanErr, installVars, exit>>
  BY DEF WriteInstallYaml, WriteYaml
<1>2. Succeeds \/ Fails
  BY DEF WriteInstallYaml, WriteYaml
<1>3. pc' \in Place /\ err' \in InstallError
  BY Places, InstallCodes, Components DEF WriteInstallYaml, WriteYaml, InstallStage
<1>5. \A p \in ImgPart : [yaml EXCEPT ![p] = InstalledState] \in [ImgPart -> InstallState]
  BY InstalledStateType, Components
<1>6. yaml' \in [ImgPart -> InstallState]
  <2>1. \E p \in ImgPart : \/ yaml' = [yaml EXCEPT ![p] = InstalledState]
                           \/ \E file \in {yaml[p].file, "broken", "empty"} :
                                yaml' = [yaml EXCEPT ![p].file = file]
    BY DEF WriteInstallYaml, WriteYaml, ImgPart
  <2>2. PICK p \in ImgPart : \/ yaml' = [yaml EXCEPT ![p] = InstalledState]
                             \/ \E file \in {yaml[p].file, "broken", "empty"} :
                                  yaml' = [yaml EXCEPT ![p].file = file]
    BY <2>1
  <2>3. CASE yaml' = [yaml EXCEPT ![p] = InstalledState]
    BY <1>5, <2>3
  <2>4. CASE \E file \in {yaml[p].file, "broken", "empty"} : yaml' = [yaml EXCEPT ![p].file = file]
    <3>1. PICK file \in {yaml[p].file, "broken", "empty"} : yaml' = [yaml EXCEPT ![p].file = file]
      BY <2>4
    <3>2. yaml[p] \in InstallState /\ yaml \in [ImgPart -> InstallState]
      BY Components
    <3>3. file \in {"whole", "broken", "empty"}
      BY <3>2 DEF InstallState
    <3>4. [yaml[p] EXCEPT !.file = file] \in InstallState
      BY <3>2, <3>3 DEF InstallState
    <3>5. yaml' = [yaml EXCEPT ![p] = [yaml[p] EXCEPT !.file = file]]
      BY <3>1
    <3> QED
      BY <3>2, <3>4, <3>5
  <2> QED
    BY <2>2, <2>3, <2>4
<1> QED
  BY <1>1, <1>2, <1>3, <1>6, Components, InstallTypes

\* The end of the cleanup keeps the types.
LEMMA DoneTypes == ASSUME InstallTypeOK, CleanupDone, UNCHANGED installVars PROVE InstallTypeOK'
<1>1. UNCHANGED <<persistentVars, volatileVars, runVars, jobs, cleanErr, installVars>> /\ Succeeds
  BY DEF CleanupDone, Succeeds
<1>2. pc' \in Place /\ err' \in InstallError /\ exit' \in 0 .. 2
  BY Places, InstallCodes, Components DEF CleanupDone
<1> QED
  BY <1>1, <1>2, ControlTypes

\* A synced disk is typed.
LEMMA SyncedTypes == ASSUME InstallTypeOK PROVE Synced(disk) \in [Slot -> Image]
<1>1. \A image \in Image : [image EXCEPT !.dirty = FALSE] \in Image
  BY DEF Image
<1>2. disk \in [Slot -> Image]
  BY Components
<1> QED
  BY <1>1, <1>2 DEF Synced

\* What is left when the power is gone is typed.
LEMMA OffTypes ==
  ASSUME InstallTypeOK, PoweredOff, disk' \in [Slot -> Image], Succeeds \/ Fails, ISOGone,
         UNCHANGED <<device, how>>
  PROVE  InstallTypeOK'
<1>1. /\ pc' \in Place /\ err' \in InstallError /\ exit' \in 0 .. 2 /\ cleanErr' \in BOOLEAN
      /\ UNCHANGED <<tree, yaml, grub, lost, booted, runVars>> /\ loops' \subseteq ImgPart \cup {"iso"}
  <2>1. /\ pc' = "off" /\ err' = "none" /\ exit' = 0 /\ cleanErr' = FALSE /\ loops' = {}
        /\ UNCHANGED <<tree, yaml, grub, lost, booted, runVars>>
    BY DEF PoweredOff
  <2>2. pc' \in Place /\ err' \in InstallError
    BY <2>1, Places, InstallCodes
  <2>3. exit' \in 0 .. 2
    BY <2>1
  <2>4. cleanErr' \in BOOLEAN
    BY <2>1
  <2>5. loops' \subseteq ImgPart \cup {"iso"}
    BY <2>1
  <2> QED
    BY <2>1, <2>2, <2>3, <2>4, <2>5
<1>2. mnt' \in [Part -> Mode]
  BY DEF PoweredOff, Mode
<1>3. work' \in Seq(Bind) /\ jobs' \in Seq(InstallJob)
  BY DEF PoweredOff
<1>4. iso' \in {"none", "file", "mounted"}
  BY DEF PoweredOff, ISOGone
<1> QED
  BY <1>1, <1>2, <1>3, <1>4, Components, InstallTypes

\* Powering off, rebooting and losing power keep the types.
LEMMA PowerTypes ==
  ASSUME InstallTypeOK, PowerAction \/ Reboot \/ PowerLoss, ISOGone, UNCHANGED <<device, how>>
  PROVE  InstallTypeOK'
<1>1. CASE PowerAction /\ pc' = "exited"
  <2>1. UNCHANGED <<persistentVars, volatileVars, runVars, jobs, cleanErr, installVars>>
    BY <1>1 DEF PowerAction, PoweredOff, ISOGone
  <2>2. Succeeds \/ Fails
    BY <1>1 DEF PowerAction
  <2>3. pc' \in Place /\ err' \in InstallError /\ exit' \in 0 .. 2
    BY <1>1, Places, InstallCodes, Components DEF PowerAction, PoweredOff
  <2> QED
    BY <2>1, <2>2, <2>3, ControlTypes
<1>2. CASE (PowerAction /\ pc' # "exited") \/ Reboot
  <2>1. PoweredOff /\ disk' = Synced(disk) /\ Succeeds
    BY <1>2 DEF PowerAction, Reboot
  <2> QED
    BY <2>1, SyncedTypes, OffTypes
<1>3. CASE PowerLoss
  <2>1. PICK torn \in SUBSET {s \in Slot : disk[s].dirty} :
          disk' = Synced([s \in Slot |-> [disk[s] EXCEPT !.ok = @ /\ s \notin torn]])
    BY <1>3 DEF PowerLoss
  <2>2. \A s \in Slot : [disk[s] EXCEPT !.ok = @ /\ s \notin torn] \in Image
    <3>1. \A image \in Image, ok \in BOOLEAN : [image EXCEPT !.ok = @ /\ ok] \in Image
      BY DEF Image
    <3>2. disk \in [Slot -> Image] /\ \A s \in Slot : (s \notin torn) \in BOOLEAN
      BY Components
    <3> QED
      BY <3>1, <3>2
  <2>3. disk' \in [Slot -> Image]
    BY <2>1, <2>2, SyncedType
  <2>4. PoweredOff /\ Fails
    BY <1>3 DEF PowerLoss
  <2> QED
    BY <2>3, <2>4, OffTypes
<1> QED
  BY <1>1, <1>2, <1>3

\* Booting the live system keeps the types.
LEMMA BootTypes == ASSUME InstallTypeOK, BootLive PROVE InstallTypeOK'
<1>1. UNCHANGED <<persistentVars, volatileVars, runVars, jobs, cleanErr, installVars, exit, err>>
  BY DEF BootLive
<1>2. pc' \in Place /\ Succeeds
  BY Places DEF BootLive, Succeeds
<1> QED
  BY <1>1, <1>2, Components, ControlTypes

\* Starting an installation keeps the types.
LEMMA StartTypes ==
  ASSUME InstallTypeOK, NEW o \in Options, NEW sys \in SystemFS, NEW rec \in RecoveryFS,
         StartInstall(o, sys, rec)
  PROVE  InstallTypeOK'
<1>1. /\ UNCHANGED <<persistentVars, booted, mnt, work, faults, loaded, device>>
      /\ loops' = loops \ {"iso"} /\ how' = o /\ iso' = "none" /\ runs' = runs + 1
      /\ jobs' = <<>> /\ err' = "none" /\ cleanErr' = FALSE /\ exit' = 0
      /\ pc' \in {"fetchISO", "prepare"}
  BY Zenon DEF StartInstall
<1>2. sys \in {"ext2", "squashfs"} /\ rec \in {"ext2", "squashfs"}
  BY UpgradeAssumption
<1>3. spec' \in UpgradeSpec
  BY <1>2, Zenon DEF StartInstall, UpgradeSpec, Label
<1>4. runs' \in Version
  <2>1. runs < MaxRuns /\ runs \in 0 .. MaxRuns
    BY Components, Zenon DEF StartInstall, Version
  <2> QED
    BY <1>1, <2>1, UpgradeAssumption DEF Version
<1>5. start' \in Start
  <2>1. /\ start'.mnt = mnt /\ start'.active = disk["active"].content /\ start'.faults = faults
        /\ start'.trusted \in BOOLEAN /\ start'.fresh \in BOOLEAN /\ start'.able \in BOOLEAN
        /\ start' = [mnt |-> start'.mnt, active |-> start'.active, faults |-> start'.faults,
                     trusted |-> start'.trusted, fresh |-> start'.fresh, able |-> start'.able]
    BY Zenon DEF StartInstall
  <2>2. disk["active"].content \in SUBSET Version
    BY Components DEF Image, Slot
  <2> QED
    BY <2>1, <2>2, Components DEF Start
<1>6. pc' \in Place /\ err' \in InstallError
  BY <1>1, Places, InstallCodes DEF InstallStage
<1>7. /\ disk' \in [Slot -> Image] /\ tree' \in [Slot -> SUBSET Version]
      /\ yaml' \in [ImgPart -> InstallState] /\ grub' \in [SystemSlot -> Label]
      /\ lost' \subseteq {"dev", "oem", "persistent"}
      /\ mnt' \in [Part -> Mode] /\ work' \in Seq(Bind) /\ loops' \subseteq ImgPart \cup {"iso"}
      /\ loaded' \in InstallState /\ booted' = "live" /\ faults' \in 0 .. MaxFaults
      /\ device' \in {"blank", "partial", "made", "grub"}
  BY <1>1, Components DEF InstallTypeOK
<1>8. jobs' \in Seq(InstallJob)
  BY <1>1
<1>9. PersistentOK' /\ RunOK'
  BY <1>3, <1>4, <1>5, <1>7 DEF PersistentOK, RunOK
<1>10. /\ err' \in InstallError /\ cleanErr' \in BOOLEAN /\ exit' \in 0 .. 2 /\ how' \in Options
       /\ iso' \in {"none", "file", "mounted"}
       /\ pc' \in Running \cup InstallStage \cup {"ready", "exited", "off"}
  <2>1. exit' \in 0 .. 2
    BY <1>1
  <2>2. cleanErr' \in BOOLEAN
    BY <1>1
  <2> QED
    BY <1>1, <1>6, <2>1, <2>2 DEF Place
<1>11. jobs' \in Seq(InstallJob')
  BY <1>8 DEF InstallJob
<1> QED
  BY <1>7, <1>9, <1>10, <1>11 DEF InstallTypeOK

\* A live system starts with well typed state.
LEMMA LiveTypes == LiveInit => InstallTypeOK
<1> SUFFICES ASSUME LiveInit PROVE InstallTypeOK
  OBVIOUS
<1> USE UpgradeAssumption
<1>1. {0} \in SUBSET Version /\ Defaults \in InstallState /\ DefaultLabels \in [SystemSlot -> Label]
  BY DEF Version, Defaults, InstallState, Entry, Label, DefaultLabels, SystemSlot
<1>2. PersistentOK
  <2>1. CASE device = "blank"
    <3>1. disk = [s \in Slot |-> NoFile] /\ yaml = [p \in ImgPart |-> Defaults] /\ grub = DefaultLabels
      BY <2>1, Zenon DEF LiveInit
    <3> QED
      BY <1>1, <3>1, NoFileType, Zenon DEF LiveInit, PersistentOK
  <2>2. CASE device = "grub"
    <3>1. PICK sys \in SystemFS, rec \in RecoveryFS : disk = InstalledDisk(sys, rec, {0})
      BY <2>2, Zenon DEF LiveInit
    <3>2. /\ Installed(sys, "COS_ACTIVE", {0}) \in Image
          /\ Installed(sys, "COS_PASSIVE", {0}) \in Image
          /\ Installed(rec, "COS_SYSTEM", {0}) \in Image
      BY InstalledType, Zenon DEF Label
    <3>3. /\ Installed(sys, "COS_ACTIVE", {0}).fs # "none"
          /\ Installed(sys, "COS_PASSIVE", {0}).fs # "none"
          /\ Installed(rec, "COS_SYSTEM", {0}).fs # "none"
      BY DEF Installed
    <3>4. disk \in [Slot -> Image] /\ \A s \in SystemSlot : disk[s].fs # "none"
      BY <3>1, <3>2, <3>3, NoFileType DEF InstalledDisk, Slot, SystemSlot
    <3>5. \A s \in SystemSlot : Recorded(disk[s]) \in Entry
      BY <3>4, RecordedType DEF SystemSlot, Slot
    <3>6. [Recorded(disk["passive"]) EXCEPT !.fs = "ext2"] \in Entry
      BY <3>5 DEF Entry, SystemSlot
    <3>7. RecordedState(disk) \in InstallState
      BY <3>5, <3>6 DEF RecordedState, InstallState, SystemSlot
    <3>8. yaml = [p \in ImgPart |-> RecordedState(disk)] /\ grub = [s \in SystemSlot |-> disk[s].label]
      BY <2>2, Zenon DEF LiveInit
    <3>9. \A s \in SystemSlot : disk[s].label \in Label
      BY <3>4 DEF Image, SystemSlot, Slot
    <3> QED
      BY <3>4, <3>7, <3>8, <3>9, Zenon DEF LiveInit, PersistentOK
  <2> QED
    BY <2>1, <2>2, Zenon DEF LiveInit
<1>3. mnt \in [Part -> Mode] /\ work \in Seq(Bind) /\ jobs \in Seq(InstallJob)
  <2>1. mnt = [p \in Part |-> "none"] /\ work = <<>> /\ jobs = <<>>
    BY Zenon DEF LiveInit
  <2> QED
    BY <2>1 DEF Mode
<1>4. RunOK
  <2>1. start \in Start
    <3>1. 0 \in 0 .. MaxFaults /\ {} \in SUBSET Version
      OBVIOUS
    <3> QED
      BY <1>3, <3>1, Zenon DEF LiveInit, Start
  <2>2. spec = [recovery |-> FALSE, activeFS |-> "ext2", recoveryFS |-> "ext2",
                activeLabel |-> "", passiveLabel |-> "", recoveryLabel |-> ""]
        /\ runs = 0 /\ loaded = Defaults
    BY Zenon DEF LiveInit
  <2>3. spec \in UpgradeSpec
    BY <2>2, Zenon DEF UpgradeSpec, Label
  <2>4. runs \in Version
    <3>1. 0 \in 0 .. MaxRuns
      BY UpgradeAssumption
    <3> QED
      BY <2>2, <3>1, Zenon DEF Version
  <2> QED
    BY <1>1, <2>1, <2>2, <2>3, <2>4, Zenon DEF RunOK
<1>5. /\ booted = "live" /\ loops \subseteq ImgPart \cup {"iso"}
      /\ pc \in Running \cup InstallStage \cup {"ready", "exited", "off"}
      /\ err \in InstallError /\ cleanErr \in BOOLEAN /\ exit \in 0 .. 2
      /\ faults \in 0 .. MaxFaults
      /\ device \in {"blank", "partial", "made", "grub"} /\ how \in Options
      /\ iso \in {"none", "file", "mounted"}
  <2>1. /\ booted = "live" /\ loops = {} /\ pc = "ready" /\ err = "none" /\ cleanErr = FALSE
        /\ exit = 0 /\ faults = 0 /\ device \in {"blank", "grub"} /\ how \in Options /\ iso = "none"
    BY Zenon DEF LiveInit
  <2>2. exit \in 0 .. 2 /\ faults \in 0 .. MaxFaults
    BY <2>1
  <2>3. cleanErr \in BOOLEAN
    BY <2>1
  <2> QED
    BY <2>1, <2>2, <2>3, InstallCodes
<1> QED
  BY <1>2, <1>3, <1>4, <1>5 DEF InstallTypeOK

\* Every step keeps the types.
LEMMA LiveTypeStep == InstallTypeOK /\ [LiveNext]_allVars => InstallTypeOK'
<1> SUFFICES ASSUME InstallTypeOK, [LiveNext]_allVars PROVE InstallTypeOK'
  OBVIOUS
<1>1. CASE UNCHANGED allVars
  <2>1. PersistentOK' /\ RunOK'
    BY <1>1 DEF InstallTypeOK, PersistentOK, RunOK
  <2> QED
    BY <1>1, <2>1 DEF InstallTypeOK, InstallJob
<1>2. CASE InstallStep
  BY <1>2, FetchTypes, FormatTypes, InstallHookTypes, MountTypes, DeployTypes, DumpTypes,
     CleanTypes, InstallGrubTypes, InstallChrootTypes, InstallVariablesTypes, ImagesTypes,
     CopyTypes, DeployRecoveryTypes, DumpRecoveryTypes, WriteInstallTypes, UmountJobTypes,
     ISOJobTypes, DoneTypes, PowerTypes
  DEF InstallStep
<1>3. CASE CallInstall \/ BootLive
  BY <1>3, StartTypes, BootTypes DEF CallInstall
<1>4. CASE (Reboot \/ PowerLoss) /\ ISOGone /\ UNCHANGED <<device, how>>
  BY <1>4, PowerTypes
<1> QED
  BY <1>1, <1>2, <1>3, <1>4 DEF LiveNext

\* An installation never leaves the types of its variables: images, trees, records, labels
\* and the cleanup stack are what the code's data can be, whatever fails (install.go).
THEOREM InstallTypeCorrect == LiveSpec => []InstallTypeOK
BY LiveTypes, LiveTypeStep, PTL DEF LiveSpec
-----------------------------------------------------------------------------
(* What an installation cleans up.                                         *)

Idle    == {"ready", "off"}
Has(op) == \E i \in 1 .. Len(jobs) : jobs[i].op = op

\* The ISO has its job first on the stack, mounted partitions have theirs, until a job
\* failed; only MountPartitions may leave some mounted without a job.
TidyInv ==
  pc \notin Idle =>
    /\ iso # "none" => cleanErr \/ (Len(jobs) >= 1 /\ jobs[1].op \in {"isoAll", "isoFile"})
    /\ \/ err = "MountPartitions" \/ cleanErr \/ Has("umountInstalled")
       \/ \A p \in Part : mnt[p] # "none" => start.mnt[p] # "none"
    /\ err = "MountPartitions" => pc \in {"cleanup", "exited"}
    /\ pc \in {"fetchISO", "power", "exited"} => jobs = <<>>
    /\ pc = "power" => err = "none" /\ ~cleanErr

\* A job is pushed on top of the others.
LEMMA JobPushed ==
  ASSUME InstallTypeOK, NEW job, jobs' = Append(jobs, job)
  PROVE  /\ Len(jobs') >= 1
         /\ Len(jobs) >= 1 => jobs'[1] = jobs[1]
         /\ Has(job.op)'
         /\ \A op : Has(op) => Has(op)'
<1>1. jobs \in Seq(InstallJob \cup {job}) /\ job \in InstallJob \cup {job}
  <2>1. jobs \in Seq(InstallJob)
    BY Components
  <2> QED
    BY <2>1, LenProperties
<1>2. /\ Len(jobs) \in Nat
      /\ Len(jobs') = Len(jobs) + 1 /\ jobs'[Len(jobs) + 1] = job
      /\ \A i \in 1 .. Len(jobs) : jobs'[i] = jobs[i]
  BY <1>1, AppendProperties, LenProperties
<1>3. Len(jobs) >= 1 => jobs'[1] = jobs[1]
  BY <1>2
<1>4. Has(job.op)'
  <2>1. Len(jobs) + 1 \in 1 .. Len(jobs')
    BY <1>2
  <2> QED
    BY <1>2, <2>1 DEF Has
<1>5. ASSUME NEW op, Has(op) PROVE Has(op)'
  <2>1. PICK i \in 1 .. Len(jobs) : jobs[i].op = op
    BY <1>5 DEF Has
  <2>2. i \in 1 .. Len(jobs') /\ jobs'[i].op = op
    BY <1>2, <2>1
  <2> QED
    BY <2>2 DEF Has
<1> QED
  BY <1>2, <1>3, <1>4, <1>5

\* The last job is popped, and the others stay.
LEMMA JobPopped ==
  ASSUME InstallTypeOK, NEW op, PopJob(op)
  PROVE  /\ pc = "cleanup" /\ pc' = "cleanup" /\ UNCHANGED <<err, exit>>
         /\ Len(jobs) >= 1 /\ jobs[1].op # op => Len(jobs') >= 1 /\ jobs'[1] = jobs[1]
         /\ \A o : Has(o) /\ o # op => Has(o)'
<1>1. jobs \in Seq(InstallJob)
  BY Components
<1>2. Len(jobs) \in Nat /\ Len(jobs) >= 1 /\ jobs[Len(jobs)].op = op
  <2>1. Len(jobs) \in Nat /\ Len(jobs) # 0 /\ jobs[Len(jobs)].op = op
    BY <1>1, LenProperties, EmptySeq DEF PopJob, LastJob
  <2> QED
    BY <2>1
<1>3. jobs' = SubSeq(jobs, 1, Len(jobs) - 1)
  BY DEF PopJob
<1>4. Len(jobs') = Len(jobs) - 1 /\ \A i \in 1 .. Len(jobs') : jobs'[i] = jobs[i]
  <2>1. \A i \in 1 .. Len(jobs) - 1 : jobs[i] \in InstallJob
    BY <1>1, <1>2, LenProperties
  <2>2. Len(jobs) - 1 \in Int /\ 1 \in Int
    BY <1>2
  <2>3. /\ Len(jobs') = IF 1 <= Len(jobs) - 1 THEN (Len(jobs) - 1) - 1 + 1 ELSE 0
        /\ \A i \in 1 .. (Len(jobs) - 1) - 1 + 1 : jobs'[i] = jobs[1 + i - 1]
    BY <1>1, <1>3, <2>1, <2>2, SubSeqProperties
  <2>4. Len(jobs') = Len(jobs) - 1
    <3>1. Len(jobs') = IF 1 <= Len(jobs) - 1 THEN (Len(jobs) - 1) - 1 + 1 ELSE 0
      BY <2>3
    <3>2. \A n \in Nat : n >= 1 => (IF 1 <= n - 1 THEN (n - 1) - 1 + 1 ELSE 0) = n - 1
      OBVIOUS
    <3>3. Len(jobs) \in Nat /\ Len(jobs) >= 1
      BY <1>2
    <3> QED
      BY <3>1, <3>2, <3>3
  <2>5. ASSUME NEW i \in 1 .. Len(jobs') PROVE jobs'[i] = jobs[i]
    <3>1. i \in 1 .. (Len(jobs) - 1) - 1 + 1 /\ 1 + i - 1 = i
      BY <1>2, <2>4
    <3>2. jobs'[i] = jobs[1 + i - 1]
      BY <2>3, <3>1
    <3> QED
      BY <3>1, <3>2
  <2> QED
    BY <2>4, <2>5
<1>5. ASSUME jobs[1].op # op PROVE Len(jobs') >= 1 /\ jobs'[1] = jobs[1]
  <2>1. Len(jobs) # 1
    BY <1>2, <1>5
  <2>2. Len(jobs') >= 1 /\ 1 \in 1 .. Len(jobs')
    BY <1>2, <1>4, <2>1
  <2> QED
    BY <1>4, <2>2
<1>6. ASSUME NEW o, Has(o), o # op PROVE Has(o)'
  <2>1. PICK i \in 1 .. Len(jobs) : jobs[i].op = o
    BY <1>6 DEF Has
  <2>2. i # Len(jobs)
    BY <1>2, <1>6, <2>1
  <2>3. i \in 1 .. Len(jobs')
    BY <1>2, <1>4, <2>1, <2>2
  <2>4. jobs'[i].op = o
    BY <1>4, <2>1, <2>3
  <2> QED
    BY <2>3, <2>4 DEF Has
<1>7. pc = "cleanup" /\ pc' = "cleanup" /\ UNCHANGED <<err, exit>>
  BY DEF PopJob
<1> QED
  BY <1>2, <1>5, <1>6, <1>7

\* The steps of a run that neither mount partitions nor fetch or release anything.
Working ==
  \/ FormatDevice \/ KeepPartitions \/ BeforeInstall
  \/ DeployActive \/ DumpActive \/ DumpActiveLeaks \/ DumpInstallFailed
  \/ CopyCloudConfig \/ InstallGrub \/ RelabelInstall \/ ChrootInstall \/ AfterInstall
  \/ SetInstallVariables \/ InstallEntry
  \/ CreateActive \/ FillActive \/ SquashActive \/ CleanActive
  \/ CopyRecovery \/ DeployRecovery \/ DumpRecovery \/ DumpRecoveryLeaks
  \/ CreateRecovery \/ FillRecovery \/ SquashRecovery \/ CleanRecovery
  \/ CopyPassive \/ PostInstall \/ WriteInstallYaml

\* They stay within the run, keep what it fetched and mounted and what it knows of its
\* start, and only push jobs.
LEMMA WorkingKeeps ==
  Working => /\ pc \in InstallStage \cup {"dumpFailed"}
             /\ pc' \in (InstallStage \ {"fetchISO"}) \cup {"dumpFailed", "cleanup"}
             /\ UNCHANGED <<iso, how, mnt, booted, start, runs, loaded, cleanErr>>
             /\ err' # "MountPartitions" \/ err' = err
             /\ jobs' = jobs \/ \E job : jobs' = Append(jobs, job)
             /\ Succeeds \/ Fails
<1> DEFINE Kept == /\ pc \in InstallStage \cup {"dumpFailed"}
                   /\ pc' \in (InstallStage \ {"fetchISO"}) \cup {"dumpFailed", "cleanup"}
                   /\ UNCHANGED <<iso, how, mnt, booted, start, runs, loaded, cleanErr>>
                   /\ err' # "MountPartitions" \/ err' = err
                   /\ jobs' = jobs \/ \E job : jobs' = Append(jobs, job)
                   /\ Succeeds \/ Fails
<1>1. FormatDevice \/ KeepPartitions \/ BeforeInstall \/ DeployActive => Kept
  BY DEF FormatDevice, KeepPartitions, BeforeInstall, DeployActive, RunHook, InstallStage
<1>2. DumpActive \/ DumpActiveLeaks \/ CopyCloudConfig \/ InstallGrub => Kept
  BY DEF DumpActive, DumpActiveLeaks, DumpLeaks, CopyCloudConfig, InstallGrub, RunHook, InstallStage
<1>3. DumpInstallFailed \/ CleanActive \/ CleanRecovery => Kept
  BY DEF DumpInstallFailed, CleanActive, CleanRecovery, TreeCleaner, TreeUnmounts, RemovalFails, InstallStage
<1>4. RelabelInstall \/ ChrootInstall \/ AfterInstall \/ SetInstallVariables \/ InstallEntry => Kept
  BY DEF RelabelInstall, ChrootInstall, Chrooted, ChrootedCallback, AfterInstall, InstallEntry,
         SetInstallVariables, RunHook, InstallStage
<1>5. CreateActive \/ FillActive \/ SquashActive => Kept
  BY DEF CreateActive, FillActive, SquashActive, ImgFails, InstallStage
<1>6. CreateRecovery \/ FillRecovery \/ SquashRecovery => Kept
  BY DEF CreateRecovery, FillRecovery, SquashRecovery, ImgFails, InstallStage
<1>7. CopyRecovery \/ CopyPassive \/ PostInstall \/ WriteInstallYaml => Kept
  BY Zenon DEF CopyRecovery, CopyPassive, CopyImage, PostInstall, RunHook, WriteInstallYaml, WriteYaml,
         InstallStage
<1>8. DeployRecovery \/ DumpRecovery \/ DumpRecoveryLeaks => Kept
  BY DEF DeployRecovery, DumpRecovery, DumpRecoveryLeaks, DumpLeaks, InstallStage
<1> HIDE DEF Kept
<1>9. Working => Kept
  BY <1>1, <1>2, <1>3, <1>4, <1>5, <1>6, <1>7, <1>8 DEF Working
<1> QED
  BY <1>9 DEF Kept

\* The stages of the work are none of the others.
LEMMA WorkStages ==
  \A p \in InstallStage \cup {"dumpFailed"} : p \notin Idle \cup {"cleanup", "power", "exited"}
BY DEF InstallStage, Idle

\* The work on the device keeps the stack.
LEMMA WorkingTidy == ASSUME InstallTypeOK, TidyInv, Working PROVE TidyInv'
<1>1. /\ pc \in InstallStage \cup {"dumpFailed"}
      /\ pc' \in (InstallStage \ {"fetchISO"}) \cup {"dumpFailed", "cleanup"}
      /\ UNCHANGED <<iso, mnt, start, cleanErr>>
      /\ err' # "MountPartitions" \/ err' = err
      /\ jobs' = jobs \/ \E job : jobs' = Append(jobs, job)
  BY WorkingKeeps
<1>2. pc \notin Idle \cup {"cleanup", "power", "exited"} /\ pc' \notin {"fetchISO", "power", "exited"}
  BY <1>1, WorkStages
<1>3. err # "MountPartitions" /\ err' # "MountPartitions"
  BY <1>1, <1>2 DEF TidyInv
<1>4. /\ Len(jobs) >= 1 => Len(jobs') >= 1 /\ jobs'[1] = jobs[1]
      /\ Has("umountInstalled") => Has("umountInstalled")'
  <2>1. CASE jobs' = jobs
    BY <2>1 DEF Has
  <2>2. CASE \E job : jobs' = Append(jobs, job)
    BY <2>2, JobPushed
  <2> QED
    BY <1>1, <2>1, <2>2
<1>5. /\ iso # "none" => cleanErr \/ (Len(jobs) >= 1 /\ jobs[1].op \in {"isoAll", "isoFile"})
      /\ \/ cleanErr \/ Has("umountInstalled")
         \/ \A p \in Part : mnt[p] # "none" => start.mnt[p] # "none"
  BY <1>2, <1>3 DEF TidyInv
<1> QED
  BY <1>1, <1>2, <1>3, <1>4, <1>5 DEF TidyInv

\* Fetching the ISO pushes its job whether it failed or not.
LEMMA FetchTidy == ASSUME InstallTypeOK, TidyInv, FetchISO PROVE TidyInv'
<1>1. /\ pc = "fetchISO" /\ UNCHANGED <<mnt, start, cleanErr>> /\ jobs' = ISOJob(iso')
      /\ pc' \in {"prepare", "cleanup"} /\ (err' = err \/ err' = "Unknown")
      /\ iso' \in {"none", "file", "mounted"}
  BY DEF FetchISO
<1>2. /\ jobs = <<>> /\ err # "MountPartitions"
      /\ \/ cleanErr \/ Has("umountInstalled")
         \/ \A p \in Part : mnt[p] # "none" => start.mnt[p] # "none"
  BY <1>1 DEF TidyInv, Idle
<1>3. ~Has("umountInstalled")
  <2>1. Len(jobs) = 0
    BY <1>2
  <2> QED
    BY <2>1 DEF Has
<1>4. iso' # "none" => Len(jobs') >= 1 /\ jobs'[1].op \in {"isoAll", "isoFile"}
  BY <1>1 DEF ISOJob
<1> QED
  BY <1>1, <1>2, <1>3, <1>4 DEF TidyInv, Idle

\* Mounting the partitions pushes their job, or fails with MountPartitions.
LEMMA MountTidy == ASSUME InstallTypeOK, TidyInv, MountInstall PROVE TidyInv'
<1>1. pc = "mountInstall" /\ UNCHANGED <<iso, start, cleanErr>>
  BY DEF MountInstall
<1>2. iso # "none" => cleanErr \/ (Len(jobs) >= 1 /\ jobs[1].op \in {"isoAll", "isoFile"})
  BY <1>1 DEF TidyInv, Idle
<1>3. err # "MountPartitions"
  BY <1>1 DEF TidyInv, Idle
<1>4. CASE pc' = "beforeInstall" /\ err' = err
           /\ jobs' = Append(jobs, [op |-> "umountInstalled", part |-> "state"])
  <2>1. /\ Len(jobs') >= 1 /\ (Len(jobs) >= 1 => jobs'[1] = jobs[1])
        /\ Has("umountInstalled")'
    BY <1>4, JobPushed
  <2> QED
    BY <1>1, <1>2, <1>3, <1>4, <2>1 DEF TidyInv
<1>5. CASE pc' = "cleanup" /\ err' = "MountPartitions" /\ UNCHANGED jobs
  BY <1>1, <1>2, <1>5 DEF TidyInv
<1> QED
  BY <1>4, <1>5 DEF MountInstall

\* A job of the stack keeps the rest.
LEMMA JobsTidy ==
  ASSUME InstallTypeOK, TidyInv, JobCleanActive \/ JobUmountInstalled \/ JobISO
  PROVE  TidyInv'
<1>1. start' = start /\ \E op : PopJob(op)
  BY DEF JobCleanActive, JobUmountInstalled, JobISO
<1>2. pc = "cleanup" /\ pc' = "cleanup" /\ err' = err
  BY <1>1, JobPopped
<1>3. /\ iso # "none" => cleanErr \/ (Len(jobs) >= 1 /\ jobs[1].op \in {"isoAll", "isoFile"})
      /\ \/ err = "MountPartitions" \/ cleanErr \/ Has("umountInstalled")
         \/ \A p \in Part : mnt[p] # "none" => start.mnt[p] # "none"
  BY <1>2 DEF TidyInv, Idle
<1>4. CASE JobCleanActive
  <2>1. UNCHANGED <<iso, mnt>> /\ PopJob("cleanTree") /\ cleanErr' = (cleanErr \/ TreeCleanerFailed)
    BY <1>4 DEF JobCleanActive
  <2>2. /\ Len(jobs) >= 1 /\ jobs[1].op # "cleanTree" => Len(jobs') >= 1 /\ jobs'[1] = jobs[1]
        /\ Has("umountInstalled") => Has("umountInstalled")'
    BY <2>1, JobPopped
  <2>3. cleanErr => cleanErr'
    BY <2>1, Zenon
  <2> QED
    BY <1>1, <1>2, <1>3, <2>1, <2>2, <2>3 DEF TidyInv
<1>5. CASE JobUmountInstalled
  <2>1. PICK stay \in SUBSET {p \in Part : mnt[p] # "none"} :
          /\ mnt' = [p \in Part |-> IF p \in stay THEN mnt[p] ELSE "none"]
          /\ cleanErr' = (cleanErr \/ stay # {})
    BY <1>5 DEF JobUmountInstalled
  <2>2. UNCHANGED iso /\ PopJob("umountInstalled")
    BY <1>5 DEF JobUmountInstalled
  <2>3. Len(jobs) >= 1 /\ jobs[1].op # "umountInstalled" => Len(jobs') >= 1 /\ jobs'[1] = jobs[1]
    BY <2>2, JobPopped
  <2>4. cleanErr' \/ \A p \in Part : mnt'[p] = "none"
    BY <2>1
  <2>5. cleanErr => cleanErr'
    BY <2>1
  <2> QED
    BY <1>1, <1>2, <1>3, <2>2, <2>3, <2>4, <2>5 DEF TidyInv
<1>6. CASE JobISO
  <2>1. /\ UNCHANGED mnt /\ (PopJob("isoAll") \/ PopJob("isoFile"))
        /\ (iso' = "none" /\ cleanErr' = cleanErr) \/ cleanErr' = TRUE
    BY <1>6 DEF JobISO
  <2>2. Has("umountInstalled") => Has("umountInstalled")'
    BY <2>1, JobPopped
  <2> QED
    BY <1>1, <1>2, <1>3, <2>1, <2>2 DEF TidyInv
<1> QED
  BY <1>4, <1>5, <1>6

\* Every step keeps the stack tidy.
LEMMA TidyStep == InstallTypeOK /\ TidyInv /\ [LiveNext]_allVars => TidyInv'
<1> SUFFICES ASSUME InstallTypeOK, TidyInv, [LiveNext]_allVars PROVE TidyInv'
  OBVIOUS
<1>1. CASE UNCHANGED allVars
  BY <1>1 DEF TidyInv, Has
<1>2. CASE CleanupDone /\ UNCHANGED installVars
  <2>1. /\ pc = "cleanup" /\ jobs = <<>> /\ UNCHANGED <<jobs, mnt, start, cleanErr, iso>>
        /\ \/ err = "none" /\ ~cleanErr /\ pc' = "power" /\ err' = err
           \/ pc' = "exited" /\ (err = "none" => cleanErr /\ err' = "Cleanup") /\ (err # "none" => err' = err)
    BY <1>2 DEF CleanupDone
  <2>2. Has("umountInstalled")' = Has("umountInstalled")
    BY <2>1 DEF Has
  <2> QED
    BY <2>1, <2>2 DEF TidyInv, Idle
<1>3. CASE (PowerAction \/ Reboot \/ PowerLoss) /\ pc' = "off"
  BY <1>3 DEF TidyInv, Idle
<1>4. CASE PowerAction /\ ISOGone /\ pc' # "off"
  <2>1. /\ pc = "power" /\ pc' = "exited" /\ UNCHANGED <<jobs, mnt, start, cleanErr, iso>>
        /\ err' = err \/ err' = "Reboot"
    BY <1>4 DEF PowerAction, PoweredOff, ISOGone
  <2>2. Has("umountInstalled")' = Has("umountInstalled")
    BY <2>1 DEF Has
  <2> QED
    BY <2>1, <2>2 DEF TidyInv, Idle
<1>5. CASE CallInstall
  <2>1. PICK o \in Options, sys \in SystemFS, rec \in RecoveryFS : StartInstall(o, sys, rec)
    BY <1>5 DEF CallInstall
  <2>2. /\ pc' \in {"fetchISO", "prepare"} /\ iso' = "none" /\ jobs' = <<>> /\ err' = "none"
        /\ UNCHANGED mnt /\ start'.mnt = mnt
    BY <2>1, Zenon DEF StartInstall
  <2> QED
    BY <2>2 DEF TidyInv
<1>6. CASE BootLive
  BY <1>6 DEF BootLive, TidyInv, Idle
<1>7. PowerAction \/ Reboot \/ PowerLoss => pc' = "off" \/ PowerAction
  BY DEF Reboot, PowerLoss, PoweredOff
<1> QED
  BY <1>1, <1>2, <1>3, <1>4, <1>5, <1>6, <1>7, WorkingTidy, FetchTidy, MountTidy, JobsTidy
  DEF LiveNext, InstallStep, Working

\* When no cleanup job failed, an installation unmounts what it mounted and releases the ISO
\* it downloaded, whatever step it ended at (the stack of install.go and cleanstack.go).
THEOREM InstallCleansUpAll == LiveSpec => []InstallCleansUp
<1>1. LiveInit => TidyInv
  BY Zenon DEF LiveInit, TidyInv, Idle
<1>2. TidyInv => InstallCleansUp
  <2> SUFFICES ASSUME TidyInv, pc = "exited", ~cleanErr
               PROVE  /\ iso = "none"
                      /\ err # "MountPartitions" =>
                           \A p \in Part : mnt[p] # "none" => start.mnt[p] # "none"
    BY DEF InstallCleansUp
  <2>1. Len(jobs) = 0
    BY DEF TidyInv, Idle
  <2>2. ~Has("umountInstalled")
    BY <2>1 DEF Has
  <2> QED
    BY <2>1, <2>2 DEF TidyInv, Idle
<1> QED
  BY <1>1, <1>2, LiveTypes, LiveTypeStep, TidyStep, PTL DEF LiveSpec
-----------------------------------------------------------------------------
(* What an installation repairs.                                           *)

ActiveBind   == [slot |-> "active", left |-> {}]
RecoveryBind == [slot |-> "recovery", left |-> {}]

\* The stages before the device is ready, with the tree of active, and with the one of
\* recovery; those that have not touched the active image, or not the recovery image.
Opening      == {"fetchISO", "prepare"}
Preparing    == {"mountInstall", "beforeInstall", "deployActive"}
ActiveWork   == {"dumpActive", "cloudConfig", "installGrub", "relabelInstall", "chrootInstall",
                 "afterInstall", "labels", "entry", "createActive"}
ActiveMade   == {"fillActive", "cleanActive"}
RecoveryWork == {"dumpRecovery", "createRecovery"}
RecoveryMade == {"fillRecovery", "cleanRecovery"}
ActiveTree   == ActiveWork \cup ActiveMade
RecoveryTree == RecoveryWork \cup RecoveryMade
ActiveOld    == Opening \cup Preparing \cup ActiveWork
RecoveryOld  == Opening \cup Preparing \cup ActiveTree \cup {"recovery"} \cup RecoveryWork
Finishing    == {"passive", "postInstall", "installYaml", "installRecoveryYaml", "cleanup", "power"}

\* Nothing is in the way of the run: it holds the scratch tree its stage needs and no
\* other, no loop device, and its device is fit.
Unhindered ==
  /\ err = "none" /\ ~cleanErr /\ loops = {} /\ pc # "dumpFailed"
  /\ pc \in ActiveTree => work = <<ActiveBind>>
  /\ pc \in RecoveryTree => work = <<RecoveryBind>>
  /\ pc \notin ActiveTree \cup RecoveryTree => work = <<>>
  /\ pc \in Opening \cup {"mountInstall"} => \A p \in Part : mnt[p] = "none"
  /\ pc \in Opening /\ ~how.format => device = "made" \/ (device = "grub" /\ how.force)
  /\ pc = "mountInstall" => device \in {"made", "grub"}
  /\ pc \in RecoveryOld \ RecoveryWork => ~spec.recovery
  /\ pc \in RecoveryTree => spec.recovery /\ ~CopiesActive

\* mksquashfs will not meet an image, once the device is formatted or if it is not.
NoOldImage ==
  ~(pc \in Opening /\ how.format) =>
    /\ pc \in ActiveOld /\ spec.activeFS = "squashfs" => disk["active"].fs = "none"
    /\ pc \in RecoveryOld /\ ~CopiesActive /\ spec.recoveryFS = "squashfs" =>
         disk["recovery"].fs = "none"

NoFault == faults = start.faults /\ start.able

RepairInv ==
  pc \notin Idle => start.faults <= faults /\ (NoFault => Unhindered /\ NoOldImage)

\* The stages differ.
LEMMA InstallStagesDiffer ==
  /\ \A p \in Opening : p \notin Preparing \cup ActiveTree \cup RecoveryTree \cup Finishing \cup {"recovery"}
  /\ \A p \in Preparing : p \notin Opening \cup ActiveTree \cup RecoveryTree \cup Finishing \cup {"recovery"}
  /\ \A p \in ActiveWork : p \notin Opening \cup Preparing \cup ActiveMade \cup RecoveryTree \cup Finishing \cup {"recovery"}
  /\ \A p \in ActiveMade : p \notin Opening \cup Preparing \cup ActiveWork \cup RecoveryTree \cup Finishing \cup {"recovery"}
  /\ \A p \in RecoveryWork : p \notin Opening \cup Preparing \cup ActiveTree \cup RecoveryMade \cup Finishing \cup {"recovery"}
  /\ \A p \in RecoveryMade : p \notin Opening \cup Preparing \cup ActiveTree \cup RecoveryWork \cup Finishing \cup {"recovery"}
  /\ \A p \in Finishing \cup {"recovery"} : p \notin Opening \cup Preparing \cup ActiveTree \cup RecoveryTree
BY DEF Opening, Preparing, ActiveTree, ActiveWork, ActiveMade, RecoveryTree, RecoveryWork,
       RecoveryMade, Finishing

\* A call fails or it does not.
LEMMA FaultOrNot == ASSUME InstallTypeOK, Succeeds PROVE ~Fails
<1>1. faults \in Nat
  BY UpgradeAssumption, Components
<1> QED
  BY <1>1 DEF Succeeds, Fails

\* The faults of a run only grow; with none so far the step before had none.
LEMMA FaultsGrow ==
  ASSUME InstallTypeOK, Succeeds \/ Fails, start.faults <= faults, start' = start
  PROVE  start'.faults <= faults' /\ (faults' = start'.faults => faults = start.faults /\ Succeeds)
<1>1. start.faults \in Nat /\ faults \in Nat
  <2>1. start \in Start /\ faults \in 0 .. MaxFaults
    BY Components
  <2> QED
    BY <2>1, UpgradeAssumption DEF Start
<1>2. faults' = faults \/ faults' = faults + 1
  BY DEF Succeeds, Fails
<1> QED
  BY <1>1, <1>2 DEF Succeeds

\* The device is made ready and mounted.
LEMMA RepairOpening ==
  ASSUME InstallTypeOK, Unhindered, NoOldImage, Succeeds,
         FetchISO \/ FormatDevice \/ KeepPartitions \/ MountInstall
  PROVE  Unhindered' /\ NoOldImage'
<1>0. ~Fails
  BY FaultOrNot
<1>1. CASE FetchISO
  <2>1. /\ pc = "fetchISO" /\ pc' = "prepare"
        /\ UNCHANGED <<disk, err, cleanErr, loops, work, mnt, device, how, spec>>
    BY <1>0, <1>1 DEF FetchISO
  <2>2. Unhindered'
    BY <2>1, InstallStagesDiffer DEF Unhindered, Opening, RecoveryOld
  <2>3. NoOldImage'
    BY <2>1 DEF NoOldImage, CopiesActive, Opening, ActiveOld, RecoveryOld
  <2> QED
    BY <2>2, <2>3
<1>2. CASE FormatDevice
  <2>1. pc = "prepare" /\ pc \in Opening
    BY <1>2 DEF FormatDevice, Opening
  <2>2. work = <<>> /\ (\A p \in Part : mnt[p] = "none") /\ loops = {} /\ ~spec.recovery
    BY <2>1, InstallStagesDiffer DEF Unhindered, RecoveryOld
  <2>3. ~InUse
    BY <2>2 DEF InUse
  <2>4. /\ DeviceWiped /\ device' = "made" /\ pc' = "mountInstall"
        /\ UNCHANGED <<err, cleanErr, loops, work, mnt, how, spec>>
    BY <1>0, <1>2, <2>3 DEF FormatDevice
  <2>5. disk'["active"].fs = "none" /\ disk'["recovery"].fs = "none"
    BY <2>4, Zenon DEF DeviceWiped, Slot, NoFile
  <2>6. pc' \in Preparing
    BY <2>4 DEF Preparing
  <2>7. Unhindered'
    BY <2>2, <2>4, <2>6, InstallStagesDiffer DEF Unhindered
  <2>8. NoOldImage'
    BY <2>5 DEF NoOldImage
  <2> QED
    BY <2>7, <2>8
<1>3. CASE KeepPartitions
  <2>1. pc = "prepare" /\ pc \in Opening /\ ~how.format
    BY <1>3 DEF KeepPartitions, Opening
  <2>2. work = <<>> /\ (\A p \in Part : mnt[p] = "none") /\ loops = {} /\ ~spec.recovery
    BY <2>1, InstallStagesDiffer DEF Unhindered, RecoveryOld
  <2>3. device = "made" \/ (device = "grub" /\ how.force)
    BY <2>1 DEF Unhindered
  <2>4. /\ pc' = "mountInstall"
        /\ UNCHANGED <<disk, err, cleanErr, loops, work, mnt, device, how, spec>>
    BY <1>3, <2>3 DEF KeepPartitions
  <2>6. pc' \in Preparing
    BY <2>4 DEF Preparing
  <2>7. Unhindered'
    BY <2>2, <2>3, <2>4, <2>6, InstallStagesDiffer DEF Unhindered
  <2>8. NoOldImage'
    BY <2>1, <2>4, <2>6 DEF NoOldImage, CopiesActive, Opening, ActiveOld, RecoveryOld
  <2> QED
    BY <2>7, <2>8
<1>4. CASE MountInstall
  <2>1. pc = "mountInstall" /\ pc \in Preparing
    BY <1>4 DEF MountInstall, Preparing
  <2>2. /\ work = <<>> /\ (\A p \in Part : mnt[p] = "none") /\ loops = {} /\ ~spec.recovery
        /\ device \in {"made", "grub"} /\ pc \notin Opening
    BY <2>1, InstallStagesDiffer DEF Unhindered, RecoveryOld
  <2>3. /\ pc' = "beforeInstall"
        /\ UNCHANGED <<disk, err, cleanErr, loops, work, device, how, spec>>
    BY <1>0, <1>4, <2>2 DEF MountInstall
  <2>4. pc' \in Preparing
    BY <2>3 DEF Preparing
  <2>5. Unhindered'
    BY <2>2, <2>3, <2>4, InstallStagesDiffer DEF Unhindered
  <2>6. NoOldImage'
    BY <2>1, <2>2, <2>3, <2>4 DEF NoOldImage, CopiesActive, ActiveOld, RecoveryOld
  <2> QED
    BY <2>5, <2>6
<1> QED
  BY <1>1, <1>2, <1>3, <1>4

\* The work on the tree of active.
LEMMA RepairWork ==
  ASSUME InstallTypeOK, Unhindered, NoOldImage, Succeeds,
         \/ BeforeInstall \/ DeployActive \/ DumpActive \/ CopyCloudConfig \/ InstallGrub
         \/ RelabelInstall \/ ChrootInstall \/ AfterInstall \/ SetInstallVariables \/ InstallEntry
  PROVE  Unhindered' /\ NoOldImage'
<1>0. ~Fails
  BY FaultOrNot
<1>1. /\ UNCHANGED <<disk, err, cleanErr, loops, how, spec>>
      /\ pc \in {"beforeInstall", "deployActive"} \cup ActiveWork /\ pc' \in {"deployActive"} \cup ActiveWork
  <2>1. CASE BeforeInstall \/ CopyCloudConfig \/ AfterInstall \/ InstallEntry
    BY <1>0, <2>1
    DEF BeforeInstall, CopyCloudConfig, AfterInstall, InstallEntry, RunHook, ActiveWork
  <2>2. CASE DeployActive \/ DumpActive \/ InstallGrub \/ SetInstallVariables
    BY <1>0, <2>2 DEF DeployActive, DumpActive, InstallGrub, SetInstallVariables, ActiveWork
  <2>3. CASE RelabelInstall \/ ChrootInstall
    BY <1>0, <2>3 DEF RelabelInstall, ChrootInstall, Chrooted, ChrootedCallback, ActiveWork
  <2> QED
    BY <2>1, <2>2, <2>3
<1>2. /\ pc \in Preparing \cup ActiveWork /\ pc' \in Preparing \cup ActiveWork
      /\ pc' # "mountInstall"
  BY <1>1 DEF Preparing, ActiveWork
<1>3. ~spec.recovery /\ pc \notin Opening /\ pc' \notin Opening
  BY <1>2, InstallStagesDiffer DEF Unhindered, RecoveryOld, ActiveTree
<1>4. pc' \in ActiveWork => work' = <<ActiveBind>>
  <2>1. CASE DeployActive
    <3>1. pc = "deployActive" /\ work' = Append(work, ActiveBind)
      BY <1>0, <2>1 DEF DeployActive, ActiveBind
    <3>2. work = <<>>
      BY <3>1 DEF Unhindered, ActiveTree, ActiveWork, ActiveMade, RecoveryTree, RecoveryWork, RecoveryMade
    <3> QED
      BY <3>1, <3>2
  <2>2. CASE BeforeInstall
    BY <1>0, <2>2 DEF BeforeInstall, RunHook, ActiveWork
  <2>3. CASE CopyCloudConfig \/ AfterInstall \/ InstallEntry
    BY <1>0, <2>3 DEF CopyCloudConfig, AfterInstall, InstallEntry, RunHook, Unhindered, ActiveTree, ActiveWork
  <2>4. CASE DumpActive \/ InstallGrub \/ SetInstallVariables
    BY <1>0, <2>4 DEF DumpActive, InstallGrub, SetInstallVariables, Unhindered, ActiveTree, ActiveWork
  <2>5. CASE RelabelInstall \/ ChrootInstall
    BY <1>0, <2>5
    DEF RelabelInstall, ChrootInstall, Chrooted, ChrootedCallback, Unhindered, ActiveTree, ActiveWork
  <2> QED
    BY <2>1, <2>2, <2>3, <2>4, <2>5
<1>5. pc' = "deployActive" => work' = <<>>
  <2> SUFFICES ASSUME pc' = "deployActive" PROVE work' = <<>>
    OBVIOUS
  <2>1. BeforeInstall
    BY <1>0 DEF CopyCloudConfig, AfterInstall, InstallEntry, RunHook, DeployActive, DumpActive,
                InstallGrub, SetInstallVariables, RelabelInstall, ChrootInstall, Chrooted,
                ChrootedCallback
  <2>2. pc = "beforeInstall" /\ work' = work
    BY <2>1 DEF BeforeInstall, RunHook
  <2> QED
    BY <2>2 DEF Unhindered, ActiveTree, ActiveWork, ActiveMade, RecoveryTree, RecoveryWork, RecoveryMade
<1>6. Unhindered'
  <2>1. pc' # "dumpFailed" /\ pc' \notin RecoveryTree /\ pc' \notin ActiveMade
    BY <1>1 DEF ActiveWork, RecoveryTree, RecoveryWork, RecoveryMade, ActiveMade
  <2> QED
    BY <1>1, <1>2, <1>3, <1>4, <1>5, <2>1 DEF Unhindered, ActiveTree, ActiveWork
<1>7. NoOldImage'
  BY <1>1, <1>2, <1>3 DEF NoOldImage, CopiesActive, ActiveOld, RecoveryOld, ActiveTree
<1> QED
  BY <1>6, <1>7

\* The file system and the slot of the image that is made.
LEMMA MadeFS ==
  ASSUME Unhindered
  PROVE  /\ pc \in ActiveTree => ImageFS = spec.activeFS
         /\ pc \in RecoveryTree => ImageFS = spec.recoveryFS
BY InstallStagesDiffer DEF Unhindered, ImageFS, RecoveryOld, ActiveTree

\* The active image is made; mksquashfs meets no old image.
LEMMA RepairActive ==
  ASSUME InstallTypeOK, Unhindered, NoOldImage, Succeeds, CreateActive \/ FillActive \/ SquashActive
  PROVE  Unhindered' /\ NoOldImage'
<1>0. ~Fails
  BY FaultOrNot
<1>1. pc \in {"createActive", "fillActive"} /\ UNCHANGED <<cleanErr, how, spec, work>>
  BY DEF CreateActive, FillActive, SquashActive, ImgFails
<1>2. pc \in ActiveTree /\ pc \notin Opening
  BY <1>1 DEF ActiveTree, ActiveWork, ActiveMade, Opening
<1>3. pc' \in ActiveMade /\ UNCHANGED <<err, loops>>
  <2>1. CASE CreateActive \/ FillActive
    BY <1>0, <2>1 DEF CreateActive, FillActive, ActiveMade
  <2>2. CASE SquashActive
    <3>1. pc = "createActive" /\ ImageFS = "squashfs"
      BY <2>2 DEF SquashActive
    <3>2. spec.activeFS = "squashfs" /\ pc \in ActiveOld
      BY <1>2, <3>1, MadeFS DEF ActiveOld, ActiveWork
    <3>3. disk["active"].fs = "none"
      BY <1>2, <3>2 DEF NoOldImage
    <3> QED
      BY <1>0, <2>2, <3>3 DEF SquashActive, ActiveMade
  <2> QED
    BY <2>1, <2>2
<1>4. disk'["recovery"] = disk["recovery"]
  <2>1. disk \in [Slot -> Image] /\ "recovery" \in Slot
    BY Components DEF Slot
  <2> QED
    BY <2>1 DEF CreateActive, FillActive, SquashActive
<1>5. ~spec.recovery /\ work = <<ActiveBind>>
  BY <1>2, InstallStagesDiffer DEF Unhindered, RecoveryOld, ActiveTree
<1>6. pc' \notin Opening \cup Preparing \cup ActiveWork \cup RecoveryTree \cup {"dumpFailed", "recovery"}
  BY <1>3, InstallStagesDiffer DEF ActiveMade
<1>7. Unhindered'
  BY <1>1, <1>3, <1>5, <1>6 DEF Unhindered, ActiveTree, Preparing
<1>8. NoOldImage'
  <2>1. pc \in RecoveryOld
    BY <1>2 DEF RecoveryOld
  <2>2. pc' \notin ActiveOld
    BY <1>6 DEF ActiveOld
  <2> QED
    BY <1>1, <1>2, <1>4, <1>6, <2>1, <2>2 DEF NoOldImage, CopiesActive
<1> QED
  BY <1>7, <1>8

\* A mounted scratch tree with nothing under it is unmounted, an unmounted one stays so.
LEMMA RepairCleaner ==
  ASSUME InstallTypeOK, Succeeds, NEW slot, TreeCleaner(slot),
         work = <<>> \/ work = <<ActiveBind>> \/ work = <<RecoveryBind>>
  PROVE  work' = <<>>
<1>0. ~Fails
  BY FaultOrNot
<1>1. CASE work = <<>>
  BY <1>0, <1>1 DEF TreeCleaner, TreeUnmounts, RemovalFails, CanUnmountTree
<1>2. CASE work = <<ActiveBind>> \/ work = <<RecoveryBind>>
  <2>1. Len(work) = 1 /\ Top.left = {} /\ work # <<>>
    BY <1>2 DEF Top, ActiveBind, RecoveryBind
  <2>2. work' = SubSeq(work, 1, Len(work) - 1)
    BY <1>0, <2>1 DEF TreeCleaner, TreeUnmounts, RemovalFails, CanUnmountTree
  <2>3. work' = SubSeq(work, 1, 0)
    BY <2>1, <2>2
  <2>4. Len(work') = 0 /\ work' \in Seq(Bind)
    <3>1. \A i \in 1 .. 0 : work[i] \in Bind
      OBVIOUS
    <3>2. 1 \in Int /\ 0 \in Int
      OBVIOUS
    <3>3. /\ SubSeq(work, 1, 0) \in Seq(Bind)
          /\ Len(SubSeq(work, 1, 0)) = IF 1 <= 0 THEN 0 - 1 + 1 ELSE 0
      BY <3>1, <3>2, SubSeqProperties
    <3> QED
      BY <2>3, <3>3
  <2> QED
    BY <2>4, EmptySeq
<1> QED
  BY <1>1, <1>2

\* The scratch trees are removed without an error.
LEMMA RepairClean ==
  ASSUME InstallTypeOK, Unhindered, NoOldImage, Succeeds,
         CleanActive \/ CleanRecovery \/ JobCleanActive
  PROVE  Unhindered' /\ NoOldImage'
<1>1. \E slot : TreeCleaner(slot)
  BY DEF CleanActive, CleanRecovery, JobCleanActive
<1>2. work = <<>> \/ work = <<ActiveBind>> \/ work = <<RecoveryBind>>
  BY DEF Unhindered
<1>3. work' = <<>> /\ ~TreeCleanerFailed
  BY <1>1, <1>2, RepairCleaner DEF TreeCleanerFailed, Succeeds
<1>4. UNCHANGED <<disk, loops, how, spec, device, mnt>> /\ err = "none" /\ ~cleanErr
  BY DEF CleanActive, CleanRecovery, JobCleanActive, Unhindered
<1>5. CASE CleanActive
  <2>1. pc = "cleanActive" /\ pc' = "recovery" /\ UNCHANGED <<err, cleanErr>>
    BY <1>3, <1>4, <1>5 DEF CleanActive
  <2>2. pc \in RecoveryOld \ RecoveryWork /\ pc \notin Opening /\ pc' \in RecoveryOld \ RecoveryWork
    BY <2>1, InstallStagesDiffer DEF ActiveTree, ActiveMade, RecoveryOld, Opening, RecoveryWork
  <2>3. pc' \notin Opening \cup Preparing \cup ActiveTree \cup RecoveryTree
    BY <2>1, InstallStagesDiffer
  <2>4. Unhindered'
    BY <1>3, <1>4, <2>1, <2>2, <2>3 DEF Unhindered, Preparing
  <2>5. NoOldImage'
    BY <1>4, <2>2, <2>3 DEF NoOldImage, CopiesActive, ActiveOld, ActiveTree
  <2> QED
    BY <2>4, <2>5
<1>6. CASE CleanRecovery \/ JobCleanActive
  <2>1. pc' \in {"passive", "cleanup"} /\ err' = err /\ ~cleanErr'
    <3>1. CASE CleanRecovery
      <4>1. pc' = "passive" /\ UNCHANGED <<err, cleanErr>>
        BY <1>3, <1>4, <3>1 DEF CleanRecovery
      <4> QED
        BY <1>4, <4>1
    <3>2. CASE JobCleanActive
      <4>1. pc' = "cleanup" /\ UNCHANGED err
        BY <3>2 DEF JobCleanActive, PopJob
      <4>2. cleanErr' = (cleanErr \/ TreeCleanerFailed)
        BY <3>2 DEF JobCleanActive
      <4> QED
        BY <1>3, <1>4, <4>1, <4>2
    <3> QED
      BY <1>6, <3>1, <3>2
  <2>2. pc' \in Finishing
    BY <2>1 DEF Finishing
  <2>3. pc' \notin Opening \cup Preparing \cup ActiveTree \cup RecoveryTree \cup {"recovery", "dumpFailed"}
    BY <2>1, <2>2, InstallStagesDiffer
  <2> QED
    BY <1>3, <1>4, <2>1, <2>3
    DEF Unhindered, NoOldImage, ActiveOld, RecoveryOld, ActiveTree, RecoveryTree, Preparing
<1> QED
  BY <1>4, <1>5, <1>6

\* The recovery image is copied or made.
LEMMA RepairRecovery ==
  ASSUME InstallTypeOK, Unhindered, NoOldImage, Succeeds,
         \/ CopyRecovery \/ DeployRecovery \/ DumpRecovery
         \/ CreateRecovery \/ FillRecovery \/ SquashRecovery
  PROVE  Unhindered' /\ NoOldImage'
<1>0. ~Fails
  BY FaultOrNot
<1>1. CASE CopyRecovery
  <2>1. pc = "recovery" /\ pc' = "passive" /\ UNCHANGED <<err, cleanErr, loops, work>>
    BY <1>0, <1>1, Zenon DEF CopyRecovery, CopyImage
  <2>2. pc' \notin Opening \cup Preparing \cup ActiveTree \cup RecoveryTree \cup {"recovery", "dumpFailed"}
    BY <2>1, InstallStagesDiffer DEF Finishing
  <2>3. work = <<>>
    BY <2>1, InstallStagesDiffer DEF Unhindered
  <2> QED
    BY <2>1, <2>2, <2>3
    DEF Unhindered, NoOldImage, ActiveOld, RecoveryOld, ActiveTree, RecoveryTree, Preparing
<1>2. CASE DeployRecovery
  <2>1. /\ pc = "recovery" /\ pc' = "dumpRecovery" /\ UNCHANGED <<disk, err, cleanErr, loops, how>>
        /\ work' = Append(work, RecoveryBind) /\ spec' = [spec EXCEPT !.recovery = TRUE]
        /\ ~CopiesActive
    BY <1>0, <1>2 DEF DeployRecovery, RecoveryBind
  <2>2. work = <<>>
    BY <2>1, InstallStagesDiffer DEF Unhindered
  <2>3. work' = <<RecoveryBind>>
    BY <2>1, <2>2
  <2>4. spec \in UpgradeSpec
    BY Components
  <2>5. spec'.recovery /\ spec'.activeFS = spec.activeFS /\ spec'.recoveryFS = spec.recoveryFS
    BY <2>1, <2>4 DEF UpgradeSpec
  <2>6. ~CopiesActive'
    BY <2>1, <2>5 DEF CopiesActive
  <2>7. pc' \in RecoveryWork /\ pc \in RecoveryOld /\ pc \notin Opening
    BY <2>1 DEF RecoveryWork, RecoveryOld, Opening
  <2>8. pc' \notin Opening \cup Preparing \cup ActiveTree \cup {"recovery", "dumpFailed"}
    BY <2>1, <2>7, InstallStagesDiffer
  <2>9. Unhindered'
    BY <2>1, <2>3, <2>5, <2>6, <2>7, <2>8
    DEF Unhindered, RecoveryTree, RecoveryOld, Preparing
  <2>10. NoOldImage'
    BY <2>1, <2>5, <2>6, <2>7, <2>8 DEF NoOldImage, ActiveOld, ActiveTree
  <2> QED
    BY <2>9, <2>10
<1>3. CASE DumpRecovery
  <2>1. /\ pc = "dumpRecovery" /\ pc' = "createRecovery"
        /\ UNCHANGED <<disk, err, cleanErr, loops, how, work, spec>>
    BY <1>0, <1>3 DEF DumpRecovery
  <2>2. pc \in RecoveryWork /\ pc' \in RecoveryWork
    BY <2>1 DEF RecoveryWork
  <2>3. /\ pc' \notin Opening \cup Preparing \cup ActiveTree \cup {"recovery", "dumpFailed"}
        /\ pc \notin Opening
    BY <2>1, <2>2, InstallStagesDiffer
  <2>4. work = <<RecoveryBind>> /\ spec.recovery /\ ~CopiesActive
    BY <2>2 DEF Unhindered, RecoveryTree
  <2>5. Unhindered'
    BY <2>1, <2>2, <2>3, <2>4
    DEF Unhindered, RecoveryTree, RecoveryOld, CopiesActive, Preparing
  <2>6. NoOldImage'
    BY <2>1, <2>2, <2>3 DEF NoOldImage, ActiveOld, ActiveTree, CopiesActive, RecoveryOld
  <2> QED
    BY <2>5, <2>6
<1>4. CASE CreateRecovery \/ FillRecovery \/ SquashRecovery
  <2>1. /\ pc \in {"createRecovery", "fillRecovery"}
        /\ UNCHANGED <<cleanErr, how, spec, work>>
    BY <1>4 DEF CreateRecovery, FillRecovery, SquashRecovery, ImgFails
  <2>2. pc \in RecoveryTree /\ pc \notin Opening
    BY <2>1 DEF RecoveryTree, RecoveryWork, RecoveryMade, Opening
  <2>3. work = <<RecoveryBind>> /\ spec.recovery /\ ~CopiesActive
    BY <2>2 DEF Unhindered
  <2>4. pc' \in RecoveryMade /\ UNCHANGED <<err, loops>>
    <3>1. CASE CreateRecovery \/ FillRecovery
      BY <1>0, <3>1 DEF CreateRecovery, FillRecovery, RecoveryMade
    <3>2. CASE SquashRecovery
      <4>1. pc = "createRecovery" /\ ImageFS = "squashfs"
        BY <3>2 DEF SquashRecovery
      <4>2. spec.recoveryFS = "squashfs" /\ pc \in RecoveryOld
        BY <2>2, <4>1, MadeFS DEF RecoveryOld, RecoveryWork
      <4>3. disk["recovery"].fs = "none"
        BY <2>2, <2>3, <4>2 DEF NoOldImage
      <4> QED
        BY <1>0, <3>2, <4>3 DEF SquashRecovery, RecoveryMade
    <3> QED
      BY <1>4, <3>1, <3>2
  <2>5. pc' \notin Opening \cup Preparing \cup ActiveTree \cup RecoveryWork \cup {"recovery", "dumpFailed"}
    BY <2>4, InstallStagesDiffer DEF RecoveryMade
  <2>6. Unhindered'
    BY <2>1, <2>3, <2>4, <2>5 DEF Unhindered, RecoveryTree, RecoveryOld, CopiesActive, Preparing
  <2>7. NoOldImage'
    BY <2>5 DEF NoOldImage, ActiveOld, RecoveryOld, ActiveTree
  <2> QED
    BY <2>6, <2>7
<1> QED
  BY <1>1, <1>2, <1>3, <1>4

\* The passive image, the records, the cleanup and the end.
LEMMA RepairFinish ==
  ASSUME InstallTypeOK, Unhindered, NoOldImage, Succeeds,
         \/ CopyPassive \/ PostInstall \/ WriteInstallYaml \/ JobUmountInstalled \/ JobISO
         \/ CleanupDone \/ (PowerAction /\ pc' # "off")
  PROVE  Unhindered' /\ NoOldImage'
<1>0. ~Fails
  BY FaultOrNot
<1>1. /\ pc \in Finishing /\ pc' \in Finishing \cup {"exited"} /\ UNCHANGED <<err, loops, work>> /\ ~cleanErr'
  <2>1. CASE CopyPassive \/ PostInstall \/ WriteInstallYaml
    <3>1. UNCHANGED <<err, loops, work, cleanErr>>
      <4>1. CASE CopyPassive
        BY <1>0, <4>1, Zenon DEF CopyPassive, CopyImage
      <4>2. CASE PostInstall
        BY <1>0, <4>2 DEF PostInstall, RunHook
      <4>3. CASE WriteInstallYaml
        BY <1>0, <4>3 DEF WriteInstallYaml, WriteYaml
      <4> QED
        BY <2>1, <4>1, <4>2, <4>3
    <3>2. pc \in Finishing /\ pc' \in Finishing
      BY <1>0, <2>1, Zenon
      DEF CopyPassive, CopyImage, PostInstall, RunHook, WriteInstallYaml, WriteYaml, Finishing
    <3>3. ~cleanErr'
      BY <3>1 DEF Unhindered
    <3> QED
      BY <3>1, <3>2, <3>3
  <2>2. CASE JobUmountInstalled
    <3>1. PICK stay \in SUBSET {p \in Part : mnt[p] # "none"} :
            /\ IF stay = Busy THEN Succeeds ELSE Fails
            /\ cleanErr' = (cleanErr \/ stay # {})
      BY <2>2 DEF JobUmountInstalled
    <3>2. Busy = {}
      BY DEF Busy, Unhindered
    <3>3. stay = {}
      BY <1>0, <3>1, <3>2
    <3>4. ~cleanErr'
      BY <3>1, <3>3 DEF Unhindered
    <3> QED
      BY <2>2, <3>4 DEF JobUmountInstalled, PopJob, Finishing
  <2>3. CASE JobISO
    <3>1. "iso" \notin loops /\ ~cleanErr
      BY DEF Unhindered
    <3> QED
      BY <1>0, <2>3, <3>1 DEF JobISO, PopJob, Finishing
  <2>4. CASE CleanupDone
    BY <2>4 DEF CleanupDone, Unhindered, Finishing
  <2>5. CASE PowerAction /\ pc' # "off"
    BY <1>0, <2>5 DEF PowerAction, PoweredOff, Unhindered, Finishing
  <2> QED
    BY <2>1, <2>2, <2>3, <2>4, <2>5
<1>2. pc \notin ActiveTree \cup RecoveryTree
  BY <1>1, InstallStagesDiffer
<1>3. pc' \notin Opening \cup Preparing \cup ActiveTree \cup RecoveryTree \cup {"recovery", "dumpFailed"}
  BY <1>1, InstallStagesDiffer
  DEF Finishing, Opening, Preparing, ActiveTree, ActiveWork, ActiveMade, RecoveryTree,
      RecoveryWork, RecoveryMade
<1> QED
  BY <1>1, <1>2, <1>3
  DEF Unhindered, NoOldImage, ActiveOld, RecoveryOld, ActiveTree, RecoveryTree, Preparing

\* Every step keeps a run unhindered as long as no call fails.
LEMMA RepairStep == InstallTypeOK /\ RepairInv /\ [LiveNext]_allVars => RepairInv'
<1> SUFFICES ASSUME InstallTypeOK, RepairInv, [LiveNext]_allVars PROVE RepairInv'
  OBVIOUS
<1>1. CASE UNCHANGED allVars
  BY <1>1 DEF RepairInv, NoFault, Unhindered, NoOldImage, CopiesActive
<1>2. CASE pc' \in Idle
  BY <1>2 DEF RepairInv
<1>3. CASE InstallStep /\ pc' \notin Idle
  <2>1. pc \notin Idle /\ start' = start /\ (Succeeds \/ Fails)
    <3>1. CASE Working
      BY <3>1, WorkingKeeps, WorkStages
    <3>2. CASE FetchISO \/ MountInstall
      BY <3>2 DEF FetchISO, MountInstall, Idle
    <3>3. CASE JobCleanActive \/ JobUmountInstalled \/ JobISO
      BY <3>3
      DEF JobCleanActive, JobUmountInstalled, JobISO, PopJob, TreeCleaner, TreeUnmounts,
          RemovalFails, Idle
    <3>4. CASE CleanupDone \/ PowerAction
      BY <3>4 DEF CleanupDone, PowerAction, PoweredOff, Succeeds, Idle
    <3> QED
      BY <1>3, <3>1, <3>2, <3>3, <3>4 DEF InstallStep, Working
  <2>2. start'.faults <= faults' /\ (faults' = start'.faults => faults = start.faults /\ Succeeds)
    BY <2>1, FaultsGrow DEF RepairInv
  <2> SUFFICES ASSUME NoFault', Succeeds, Unhindered, NoOldImage PROVE Unhindered' /\ NoOldImage'
    BY <2>1, <2>2 DEF RepairInv, NoFault
  <2>3. ~Fails /\ pc # "dumpFailed" /\ pc' # "off"
    BY <1>3, FaultOrNot DEF Unhindered, Idle
  <2>4. ~DumpActiveLeaks /\ ~DumpRecoveryLeaks /\ ~DumpInstallFailed
    BY <2>3 DEF DumpActiveLeaks, DumpRecoveryLeaks, DumpLeaks, DumpInstallFailed
  <2> QED
    BY <1>3, <2>3, <2>4, RepairOpening, RepairWork, RepairActive, RepairClean, RepairRecovery, RepairFinish
    DEF InstallStep
<1>4. CASE CallInstall
  <2>1. PICK o \in Options, sys \in SystemFS, rec \in RecoveryFS : StartInstall(o, sys, rec)
    BY <1>4 DEF CallInstall
  <2>2. /\ pc' \in {"fetchISO", "prepare"} /\ err' = "none" /\ ~cleanErr' /\ how' = o
        /\ UNCHANGED <<disk, faults, work, mnt, device>> /\ loops' = loops \ {"iso"}
        /\ start'.faults = faults
        /\ spec'.recovery = FALSE /\ spec'.activeFS = sys /\ spec'.recoveryFS = rec
    BY <2>1, Zenon DEF StartInstall
  <2>3. start'.able =>
          /\ ~InUse /\ (o.format \/ device = "made" \/ (device = "grub" /\ o.force))
          /\ ~Meets(o, sys, "active")
          /\ (sys # rec \/ o.own) => ~Meets(o, rec, "recovery")
    BY <2>1, Zenon DEF StartInstall
  <2>4. start'.able => Unhindered'
    <3> SUFFICES ASSUME start'.able PROVE Unhindered'
      OBVIOUS
    <3>1. work' = <<>> /\ (\A p \in Part : mnt'[p] = "none") /\ loops' = {}
      <4>1. loops \subseteq ImgPart \cup {"iso"}
        BY Components
      <4> QED
        BY <2>2, <2>3, <4>1 DEF InUse
    <3>2. pc' \in Opening
      BY <2>2 DEF Opening
    <3>3. pc' \notin Preparing \cup ActiveTree \cup RecoveryTree \cup {"recovery", "dumpFailed"}
      BY <2>2, <3>2, InstallStagesDiffer
    <3> QED
      BY <2>2, <2>3, <3>1, <3>2, <3>3 DEF Unhindered, Preparing
  <2>5. start'.able => NoOldImage'
    BY <2>2, <2>3 DEF NoOldImage, Meets, CopiesActive, Opening
  <2>6. start'.faults <= faults'
    <3>1. faults \in Nat
      BY UpgradeAssumption, Components
    <3> QED
      BY <2>2, <3>1
  <2> QED
    BY <2>4, <2>5, <2>6 DEF RepairInv, NoFault
<1>5. CASE BootLive \/ ((Reboot \/ PowerLoss) /\ ISOGone /\ UNCHANGED <<device, how>>)
  BY <1>2, <1>5 DEF BootLive, Reboot, PowerLoss, PoweredOff, Idle
<1> QED
  BY <1>1, <1>2, <1>3, <1>4, <1>5 DEF LiveNext

\* Whatever an interrupted or failed installation left on the disk, one in which no call
\* fails succeeds: a formatting one when nothing of the disk is in use, any other when it
\* may replace what is there and mksquashfs meets no old image (install.go).
THEOREM InstallRepairsAll == LiveSpec => []InstallRepairs
<1>1. LiveInit => RepairInv
  BY Zenon DEF LiveInit, RepairInv, Idle
<1>2. RepairInv => InstallRepairs
  BY DEF RepairInv, InstallRepairs, NoFault, Unhindered, Idle
<1> QED
  BY <1>1, <1>2, LiveTypes, LiveTypeStep, RepairStep, PTL DEF LiveSpec
-----------------------------------------------------------------------------
(* What an installation delivers.                                          *)

\* No error so far.
Sound == err = "none" /\ ~cleanErr

\* An installation makes no transition image, and an image that is absent is empty.
DiskInv ==
  /\ disk["transState"] = NoFile /\ disk["transRecovery"] = NoFile
  /\ \A s \in Slot : disk[s].fs = "none" => disk[s].content = {}

\* A squashfs image has no label.
LabelsInv ==
  pc \notin Idle =>
    /\ spec.activeLabel = IF spec.activeFS = "squashfs" THEN "" ELSE "COS_ACTIVE"
    /\ spec.passiveLabel = IF spec.activeFS = "squashfs" THEN "" ELSE "COS_PASSIVE"
    /\ spec.recoveryLabel = IF spec.recoveryFS = "squashfs" THEN "" ELSE "COS_SYSTEM"

\* Between the scratch trees none is mounted; the partitions are mounted until they are
\* unmounted, which writes the images back.
SettledInv ==
  pc \notin Idle \cup {"exited"} /\ Sound =>
    /\ pc # "dumpFailed"
    /\ pc \in Finishing \cup {"recovery"} => work = <<>>
    /\ pc \notin Opening \cup {"mountInstall"} =>
         \/ Has("umountInstalled") /\ mnt["state"] = "rw" /\ mnt["recovery"] = "rw"
         \/ pc \in {"cleanup", "power"} /\ \A s \in Slot : ~disk[s].dirty

\* The step changes at most one image, to one of another shape.
LEMMA DiskChanges ==
  ASSUME InstallTypeOK, DiskInv, NEW slot \in SystemSlot, NEW image,
         image.fs = "none" => image.content = {},
         disk' = [disk EXCEPT ![slot] = image]
  PROVE  DiskInv'
<1>1. disk \in [Slot -> Image] /\ slot \in Slot /\ slot \notin {"transState", "transRecovery"}
      /\ {"transState", "transRecovery"} \subseteq Slot
  BY Components DEF SystemSlot, Slot
<1> QED
  BY <1>1 DEF DiskInv

\* Writing images back leaves the rest of them.
LEMMA WrittenBackKeeps ==
  ASSUME InstallTypeOK, NEW gone, disk' = WrittenBack(gone)
  PROVE  \A s \in Slot : /\ disk'[s].fs = disk[s].fs /\ disk'[s].content = disk[s].content
                         /\ disk'[s].label = disk[s].label /\ disk'[s].ok = disk[s].ok
                         /\ disk[s] = NoFile => disk'[s] = NoFile
<1>1. \A image \in Image :
        /\ [image EXCEPT !.dirty = FALSE].fs = image.fs
        /\ [image EXCEPT !.dirty = FALSE].content = image.content
        /\ [image EXCEPT !.dirty = FALSE].label = image.label
        /\ [image EXCEPT !.dirty = FALSE].ok = image.ok
  BY DEF Image
<1>2. [NoFile EXCEPT !.dirty = FALSE] = NoFile
  <2>1. \A image \in Image : image.dirty = FALSE => [image EXCEPT !.dirty = FALSE] = image
    BY DEF Image
  <2>2. NoFile.dirty = FALSE
    BY DEF NoFile
  <2> QED
    BY <2>1, <2>2, NoFileType
<1>3. \A s \in Slot : disk'[s] = disk[s] \/ disk'[s] = [disk[s] EXCEPT !.dirty = FALSE]
  BY DEF WrittenBack
<1>4. \A s \in Slot : disk[s] \in Image
  BY Components
<1> QED
  BY <1>1, <1>2, <1>3, <1>4

\* Images that keep their file system and content, absent ones included.
LEMMA DiskKept ==
  ASSUME DiskInv,
         \A s \in Slot : /\ disk'[s].fs = disk[s].fs /\ disk'[s].content = disk[s].content
                         /\ disk[s] = NoFile => disk'[s] = NoFile
  PROVE  DiskInv'
<1>1. {"transState", "transRecovery"} \subseteq Slot
  BY DEF Slot
<1> QED
  BY <1>1 DEF DiskInv

\* What is left of the images when the power is gone.
LEMMA OffDisk ==
  ASSUME InstallTypeOK, PowerAction \/ Reboot \/ PowerLoss
  PROVE  \A s \in Slot : /\ disk'[s].fs = disk[s].fs /\ disk'[s].content = disk[s].content
                         /\ disk'[s].label = disk[s].label
                         /\ disk[s] = NoFile => disk'[s] = NoFile
<1>1. \A image \in Image, ok \in BOOLEAN :
        /\ [[image EXCEPT !.ok = @ /\ ok] EXCEPT !.dirty = FALSE].fs = image.fs
        /\ [[image EXCEPT !.ok = @ /\ ok] EXCEPT !.dirty = FALSE].content = image.content
        /\ [[image EXCEPT !.ok = @ /\ ok] EXCEPT !.dirty = FALSE].label = image.label
        /\ [image EXCEPT !.dirty = FALSE].fs = image.fs
        /\ [image EXCEPT !.dirty = FALSE].content = image.content
        /\ [image EXCEPT !.dirty = FALSE].label = image.label
  BY DEF Image
<1>2. \A ok \in BOOLEAN : /\ [[NoFile EXCEPT !.ok = @ /\ ok] EXCEPT !.dirty = FALSE] = NoFile
                          /\ [NoFile EXCEPT !.dirty = FALSE] = NoFile
  <2>1. \A image \in Image : image.dirty = FALSE => [image EXCEPT !.dirty = FALSE] = image
    BY DEF Image
  <2>2. \A image \in Image, ok \in BOOLEAN : image.ok = FALSE => [image EXCEPT !.ok = @ /\ ok] = image
    BY DEF Image
  <2>3. NoFile.dirty = FALSE /\ NoFile.ok = FALSE
    BY DEF NoFile
  <2> QED
    BY <2>1, <2>2, <2>3, NoFileType
<1>3. \A s \in Slot : \E ok \in BOOLEAN :
        \/ disk'[s] = disk[s] \/ disk'[s] = [disk[s] EXCEPT !.dirty = FALSE]
        \/ disk'[s] = [[disk[s] EXCEPT !.ok = @ /\ ok] EXCEPT !.dirty = FALSE]
  <2>1. CASE PowerAction \/ Reboot
    BY <2>1, Zenon DEF PowerAction, Reboot, Synced
  <2>2. CASE PowerLoss
    <3>1. PICK torn \in SUBSET {s \in Slot : disk[s].dirty} :
            disk' = Synced([s \in Slot |-> [disk[s] EXCEPT !.ok = @ /\ s \notin torn]])
      BY <2>2 DEF PowerLoss
    <3>2. \A s \in Slot : disk'[s] = [[disk[s] EXCEPT !.ok = @ /\ (s \notin torn)] EXCEPT !.dirty = FALSE]
      BY <3>1, Zenon DEF Synced
    <3>3. \A s \in Slot : (s \notin torn) \in BOOLEAN
      OBVIOUS
    <3> QED
      BY <3>2, <3>3, Zenon
  <2> QED
    BY <2>1, <2>2, Zenon
<1>4. \A s \in Slot : disk[s] \in Image
  BY Components
<1> SUFFICES ASSUME NEW s \in Slot
             PROVE  /\ disk'[s].fs = disk[s].fs /\ disk'[s].content = disk[s].content
                    /\ disk'[s].label = disk[s].label
                    /\ disk[s] = NoFile => disk'[s] = NoFile
  OBVIOUS
<1>5. PICK ok \in BOOLEAN :
        \/ disk'[s] = disk[s] \/ disk'[s] = [disk[s] EXCEPT !.dirty = FALSE]
        \/ disk'[s] = [[disk[s] EXCEPT !.ok = @ /\ ok] EXCEPT !.dirty = FALSE]
  BY <1>3, Zenon
<1>6. disk[s] \in Image
  BY <1>4
<1>7. CASE disk'[s] = disk[s] \/ disk'[s] = [disk[s] EXCEPT !.dirty = FALSE]
  BY <1>1, <1>2, <1>6, <1>7, Zenon
<1>8. CASE disk'[s] = [[disk[s] EXCEPT !.ok = @ /\ ok] EXCEPT !.dirty = FALSE]
  <2>1. /\ disk'[s].fs = disk[s].fs /\ disk'[s].content = disk[s].content
        /\ disk'[s].label = disk[s].label
    BY <1>1, <1>6, <1>8
  <2>2. ASSUME disk[s] = NoFile PROVE disk'[s] = NoFile
    <3>1. disk'[s] = [[NoFile EXCEPT !.ok = @ /\ ok] EXCEPT !.dirty = FALSE]
      BY <1>8, <2>2
    <3> QED
      BY <1>2, <3>1, Zenon
  <2> QED
    BY <2>1, <2>2
<1> QED
  BY <1>5, <1>7, <1>8

\* The steps that write images, and what all others leave alone: the images, and the stages
\* in which an image is being written.
MakesImage == CreateActive \/ FillActive \/ SquashActive \/ CreateRecovery \/ FillRecovery \/ SquashRecovery

LEMMA KeepsDisk ==
  [LiveNext]_allVars =>
    \/ disk' = disk /\ (pc \in {"fillActive", "fillRecovery"} => UNCHANGED allVars)
    \/ MakesImage \/ CopyRecovery \/ CopyPassive \/ FormatDevice
    \/ MountInstall \/ JobUmountInstalled \/ PowerAction \/ Reboot \/ PowerLoss
<1> DEFINE Kept == disk' = disk /\ pc \notin {"fillActive", "fillRecovery"}
<1>1. FetchISO \/ KeepPartitions \/ BeforeInstall \/ DeployActive \/ DumpActive \/ DumpActiveLeaks
      \/ DumpInstallFailed \/ CopyCloudConfig \/ InstallGrub \/ RelabelInstall \/ ChrootInstall
      => Kept
  BY DEF FetchISO, KeepPartitions, BeforeInstall, DeployActive, DumpActive, DumpActiveLeaks,
         DumpLeaks, DumpInstallFailed, CopyCloudConfig, InstallGrub, RelabelInstall, ChrootInstall,
         Chrooted, RunHook
<1>2. AfterInstall \/ SetInstallVariables \/ InstallEntry \/ CleanActive \/ DeployRecovery
      \/ DumpRecovery \/ DumpRecoveryLeaks \/ CleanRecovery \/ PostInstall \/ WriteInstallYaml
      \/ JobCleanActive \/ JobISO \/ CleanupDone \/ BootLive
      => Kept
  BY DEF AfterInstall, SetInstallVariables, InstallEntry, CleanActive, DeployRecovery, DumpRecovery,
         DumpRecoveryLeaks, DumpLeaks, CleanRecovery, PostInstall, WriteInstallYaml, JobCleanActive,
         JobISO, CleanupDone, BootLive, RunHook, PopJob
<1>3. ASSUME CallInstall PROVE Kept
  <2>1. PICK o \in Options, sys \in SystemFS, rec \in RecoveryFS : StartInstall(o, sys, rec)
    BY <1>3 DEF CallInstall
  <2> QED
    BY <2>1, Zenon DEF StartInstall
<1>4. UNCHANGED allVars => disk' = disk
  OBVIOUS
<1> QED
  BY <1>1, <1>2, <1>3, <1>4 DEF LiveNext, InstallStep, MakesImage

\* No step makes a transition image or an absent one with content.
LEMMA DiskStep == InstallTypeOK /\ DiskInv /\ [LiveNext]_allVars => DiskInv'
<1> SUFFICES ASSUME InstallTypeOK, DiskInv, [LiveNext]_allVars PROVE DiskInv'
  OBVIOUS
<1>1. ASSUME disk' = disk PROVE DiskInv'
  BY <1>1 DEF DiskInv
<1>2. ASSUME CreateActive \/ FillActive \/ SquashActive \/ CreateRecovery \/ FillRecovery \/ SquashRecovery
      PROVE  DiskInv'
  <2>1. RunOK /\ ImageFS # "none"
    BY Components DEF ImageFS, RunOK, UpgradeSpec
  <2>2. /\ NoFile.content = {}
        /\ \A content, ok : NewFile(content, ok).fs # "none"
    BY <2>1 DEF NoFile, NewFile
  <2>3. disk' = disk \/ \E slot \in {"active", "recovery"} :
          \/ disk' = [disk EXCEPT ![slot] = NoFile]
          \/ \E content, ok : disk' = [disk EXCEPT ![slot] = NewFile(content, ok)]
    BY <1>2 DEF CreateActive, FillActive, SquashActive, CreateRecovery, FillRecovery, SquashRecovery
  <2>4. {"active", "recovery"} \subseteq SystemSlot
    BY DEF SystemSlot
  <2> QED
    BY <1>1, <2>2, <2>3, <2>4, DiskChanges
<1>3. ASSUME CopyRecovery \/ CopyPassive PROVE DiskInv'
  <2> DEFINE copy == [disk["active"] EXCEPT !.dirty = TRUE]
  <2>1. \A label \in Label : /\ copy.fs = disk["active"].fs /\ copy.content = disk["active"].content
                             /\ [copy EXCEPT !.label = label].fs = disk["active"].fs
                             /\ [copy EXCEPT !.label = label].content = disk["active"].content
                             /\ [copy EXCEPT !.ok = FALSE].fs = disk["active"].fs
                             /\ [copy EXCEPT !.ok = FALSE].content = disk["active"].content
    <3>1. disk["active"] \in Image
      BY Components DEF Slot
    <3> QED
      BY <3>1 DEF Image
  <2>2. disk["active"].fs = "none" => disk["active"].content = {}
    BY DEF DiskInv, Slot
  <2>3. spec.recoveryLabel \in Label /\ spec.passiveLabel \in Label
    BY Components DEF UpgradeSpec
  <2>4. {"passive", "recovery"} \subseteq SystemSlot
    BY DEF SystemSlot
  <2>5. disk' = disk \/ \E slot \in {"passive", "recovery"} :
          \/ disk' = [disk EXCEPT ![slot] = copy]
          \/ disk' = [disk EXCEPT ![slot] = [copy EXCEPT !.ok = FALSE]]
          \/ \E label \in Label : disk' = [disk EXCEPT ![slot] = [copy EXCEPT !.label = label]]
    BY <1>3, <2>3, Zenon DEF CopyRecovery, CopyPassive, CopyImage
  <2> HIDE DEF copy
  <2>6. CASE \E slot \in {"passive", "recovery"} :
               \/ disk' = [disk EXCEPT ![slot] = copy]
               \/ disk' = [disk EXCEPT ![slot] = [copy EXCEPT !.ok = FALSE]]
    <3>1. "" \in Label
      BY DEF Label
    <3> QED
      BY <2>1, <2>2, <2>4, <2>6, <3>1, DiskChanges, Zenon
  <2>7. CASE \E slot \in {"passive", "recovery"}, label \in Label :
               disk' = [disk EXCEPT ![slot] = [copy EXCEPT !.label = label]]
    <3>1. PICK slot \in {"passive", "recovery"}, label \in Label :
            disk' = [disk EXCEPT ![slot] = [copy EXCEPT !.label = label]]
      BY <2>7
    <3>2. [copy EXCEPT !.label = label].fs = "none" => [copy EXCEPT !.label = label].content = {}
      BY <2>1, <2>2
    <3> QED
      BY <2>4, <3>1, <3>2, DiskChanges
  <2> QED
    BY <1>1, <2>5, <2>6, <2>7
<1>4. ASSUME MountInstall \/ JobUmountInstalled PROVE DiskInv'
  <2>1. disk' = disk \/ \E gone : disk' = WrittenBack(gone)
    BY <1>4 DEF MountInstall, JobUmountInstalled
  <2> QED
    BY <1>1, <2>1, WrittenBackKeeps, DiskKept
<1>5. ASSUME PowerAction \/ Reboot \/ PowerLoss PROVE DiskInv'
  BY <1>5, OffDisk, DiskKept
<1>6. ASSUME FormatDevice PROVE DiskInv'
  <2>1. disk' = disk \/ disk' = [s \in Slot |-> NoFile]
    BY <1>6 DEF FormatDevice, DeviceWiped
  <2>2. NoFile.content = {} /\ {"transState", "transRecovery"} \subseteq Slot
    BY DEF NoFile, Slot
  <2> QED
    BY <1>1, <2>1, <2>2 DEF DiskInv
<1> QED
  BY <1>1, <1>2, <1>3, <1>4, <1>5, <1>6, KeepsDisk DEF MakesImage

\* A run keeps its specification and options, except that it comes to the recovery image.
LEMMA SpecKept ==
  InstallStep => /\ pc \notin Idle /\ UNCHANGED <<how, start>>
                 /\ spec' = spec \/ (DeployRecovery /\ spec' = [spec EXCEPT !.recovery = TRUE])
<1>1. ASSUME Working
      PROVE  /\ pc \notin Idle /\ UNCHANGED <<how, start>>
             /\ spec' = spec \/ (DeployRecovery /\ spec' = [spec EXCEPT !.recovery = TRUE])
  <2>1. pc \notin Idle /\ UNCHANGED <<how, start>>
    BY <1>1, WorkingKeeps, WorkStages
  <2>2. FormatDevice \/ KeepPartitions \/ BeforeInstall \/ DeployActive \/ DumpActive \/ DumpActiveLeaks
        \/ DumpInstallFailed \/ CopyCloudConfig \/ InstallGrub \/ RelabelInstall \/ ChrootInstall
        => spec' = spec
    BY DEF FormatDevice, KeepPartitions, BeforeInstall, DeployActive, DumpActive, DumpActiveLeaks,
           DumpLeaks, DumpInstallFailed, CopyCloudConfig, InstallGrub, RelabelInstall,
           ChrootInstall, Chrooted, RunHook
  <2>3. AfterInstall \/ SetInstallVariables \/ InstallEntry \/ CreateActive \/ FillActive
        \/ SquashActive \/ CleanActive \/ CopyRecovery \/ DumpRecovery \/ DumpRecoveryLeaks
        => spec' = spec
    BY Zenon DEF AfterInstall, SetInstallVariables, InstallEntry, CreateActive, FillActive, SquashActive,
           CleanActive, CopyRecovery, CopyImage, DumpRecovery, DumpRecoveryLeaks, DumpLeaks, RunHook
  <2>4. CreateRecovery \/ FillRecovery \/ SquashRecovery \/ CleanRecovery \/ CopyPassive
        \/ PostInstall \/ WriteInstallYaml => spec' = spec
    BY Zenon DEF CreateRecovery, FillRecovery, SquashRecovery, CleanRecovery, CopyPassive, CopyImage,
           PostInstall, RunHook, WriteInstallYaml
  <2>5. DeployRecovery => spec' = spec \/ spec' = [spec EXCEPT !.recovery = TRUE]
    BY DEF DeployRecovery
  <2> QED
    BY <1>1, <2>1, <2>2, <2>3, <2>4, <2>5 DEF Working
<1>2. FetchISO \/ MountInstall \/ JobCleanActive \/ JobUmountInstalled \/ JobISO
      \/ (CleanupDone /\ UNCHANGED installVars) \/ (PowerAction /\ UNCHANGED how)
      => spec' = spec /\ pc \notin Idle /\ UNCHANGED <<how, start>>
  BY DEF FetchISO, MountInstall, JobCleanActive, JobUmountInstalled, JobISO, CleanupDone,
         PowerAction, PoweredOff, PopJob, Idle
<1> QED
  BY <1>1, <1>2 DEF InstallStep, Working

\* The file systems and labels of a run are chosen when it starts.
LEMMA LabelsStep == InstallTypeOK /\ LabelsInv /\ [LiveNext]_allVars => LabelsInv'
<1> SUFFICES ASSUME InstallTypeOK, LabelsInv, [LiveNext]_allVars PROVE LabelsInv'
  OBVIOUS
<1>1. ASSUME pc \notin Idle,
             spec' = spec \/ spec' = [spec EXCEPT !.recovery = TRUE]
      PROVE  LabelsInv'
  <2>1. spec \in UpgradeSpec
    BY Components
  <2>2. /\ spec'.activeLabel = spec.activeLabel /\ spec'.passiveLabel = spec.passiveLabel
        /\ spec'.recoveryLabel = spec.recoveryLabel
        /\ spec'.activeFS = spec.activeFS /\ spec'.recoveryFS = spec.recoveryFS
    BY <1>1, <2>1 DEF UpgradeSpec
  <2> QED
    BY <1>1, <2>2, Zenon DEF LabelsInv
<1>2. CASE UNCHANGED allVars
  BY <1>2, Zenon DEF LabelsInv
<1>3. CASE InstallStep
  BY <1>1, <1>3, SpecKept
<1>4. CASE CallInstall
  <2>1. PICK o \in Options, sys \in SystemFS, rec \in RecoveryFS : StartInstall(o, sys, rec)
    BY <1>4 DEF CallInstall
  <2> QED
    BY <2>1, Zenon DEF StartInstall, LabelsInv
<1>5. CASE BootLive \/ Reboot \/ PowerLoss
  <2>1. pc' \in Idle
    BY <1>5 DEF BootLive, Reboot, PowerLoss, PoweredOff, Idle
  <2> QED
    BY <2>1, Zenon DEF LabelsInv
<1> QED
  BY <1>2, <1>3, <1>4, <1>5 DEF LiveNext

\* A step of the work never takes an error back.
LEMMA ErrorsStay == Working => err' = err \/ err' # "none"
<1>1. FormatDevice \/ KeepPartitions \/ BeforeInstall \/ DeployActive \/ DumpActive \/ DumpActiveLeaks
      => err' = err \/ err' # "none"
  BY DEF FormatDevice, KeepPartitions, BeforeInstall, DeployActive, DumpActive, DumpActiveLeaks,
         DumpLeaks, RunHook
<1>2. DumpInstallFailed \/ CopyCloudConfig \/ InstallGrub \/ RelabelInstall \/ ChrootInstall
      \/ AfterInstall \/ SetInstallVariables \/ InstallEntry => err' = err \/ err' # "none"
  BY DEF DumpInstallFailed, CopyCloudConfig, InstallGrub, RelabelInstall, ChrootInstall, AfterInstall,
         SetInstallVariables, InstallEntry, Chrooted, ChrootedCallback, RunHook
<1>3. CreateActive \/ FillActive \/ SquashActive \/ CleanActive \/ CreateRecovery \/ FillRecovery
      \/ SquashRecovery \/ CleanRecovery => err' = err \/ err' # "none"
  BY DEF CreateActive, FillActive, SquashActive, CleanActive, CreateRecovery, FillRecovery,
         SquashRecovery, CleanRecovery, ImgFails
<1>4. CopyRecovery \/ DeployRecovery \/ DumpRecovery \/ DumpRecoveryLeaks \/ CopyPassive
      \/ PostInstall \/ WriteInstallYaml => err' = err \/ err' # "none"
  BY Zenon DEF CopyRecovery, CopyPassive, CopyImage, DeployRecovery, DumpRecovery, DumpRecoveryLeaks,
         DumpLeaks, PostInstall, RunHook, WriteInstallYaml, WriteYaml
<1> QED
  BY <1>1, <1>2, <1>3, <1>4 DEF Working

\* Where a step of the work leads that ends without an error.
LEMMA WorkGoes ==
  ASSUME Working, err' = "none", pc # "dumpFailed"
  PROVE  /\ pc' # "dumpFailed"
         /\ pc = "prepare" => pc' = "mountInstall"
         /\ pc # "prepare" => pc \notin Opening \cup {"mountInstall"}
         /\ pc' \in Finishing \cup {"recovery"} =>
              \/ CleanActive \/ CleanRecovery
              \/ pc \in Finishing \cup {"recovery"} /\ work' = work
<1> DEFINE Goes == /\ pc' # "dumpFailed"
                   /\ pc = "prepare" => pc' = "mountInstall"
                   /\ pc # "prepare" => pc \notin Opening \cup {"mountInstall"}
                   /\ pc' \in Finishing \cup {"recovery"} =>
                        \/ CleanActive \/ CleanRecovery
                        \/ pc \in Finishing \cup {"recovery"} /\ work' = work
<1>1. FormatDevice \/ KeepPartitions \/ BeforeInstall \/ DeployActive \/ DumpActive \/ DumpActiveLeaks => Goes
  BY DEF FormatDevice, KeepPartitions, BeforeInstall, DeployActive, DumpActive, DumpActiveLeaks,
         DumpLeaks, RunHook, Opening, Finishing
<1>2. CopyCloudConfig \/ InstallGrub \/ RelabelInstall \/ ChrootInstall
      \/ AfterInstall \/ SetInstallVariables \/ InstallEntry => Goes
  BY DEF CopyCloudConfig, InstallGrub, RelabelInstall, ChrootInstall, AfterInstall,
         SetInstallVariables, InstallEntry, Chrooted, ChrootedCallback, RunHook, Opening, Finishing
<1>3. CreateActive \/ FillActive \/ SquashActive \/ CreateRecovery \/ FillRecovery
      \/ SquashRecovery => Goes
  BY DEF CreateActive, FillActive, SquashActive, CreateRecovery, FillRecovery,
         SquashRecovery, ImgFails, Opening, Finishing
<1>4. CopyRecovery \/ DeployRecovery \/ DumpRecovery \/ DumpRecoveryLeaks \/ CopyPassive
      \/ PostInstall \/ WriteInstallYaml => Goes
  BY Zenon DEF CopyRecovery, CopyPassive, CopyImage, DeployRecovery, DumpRecovery, DumpRecoveryLeaks,
         DumpLeaks, PostInstall, RunHook, WriteInstallYaml, WriteYaml, Opening, Finishing
<1>5. CleanActive \/ CleanRecovery => Goes
  <2>1. CleanActive => pc = "cleanActive" /\ pc' \in {"recovery", "cleanup"}
    BY DEF CleanActive
  <2>2. CleanRecovery => pc = "cleanRecovery" /\ pc' \in {"passive", "cleanup"}
    BY DEF CleanRecovery
  <2> QED
    BY <2>1, <2>2 DEF Opening
<1>6. ~DumpInstallFailed
  BY DEF DumpInstallFailed
<1> HIDE DEF Goes
<1>7. Goes
  BY <1>1, <1>2, <1>3, <1>4, <1>5, <1>6 DEF Working
<1> QED
  BY <1>7 DEF Goes

\* Every step leaves an installation without error settled.
LEMMA SettledStep == InstallTypeOK /\ SettledInv /\ [LiveNext]_allVars => SettledInv'
<1> SUFFICES ASSUME InstallTypeOK, SettledInv, [LiveNext]_allVars PROVE SettledInv'
  OBVIOUS
<1>1. CASE UNCHANGED allVars
  BY <1>1 DEF SettledInv, Sound, Has
<1>2. CASE pc' \in Idle \cup {"exited"} \/ ~Sound'
  BY <1>2 DEF SettledInv
<1>3. CASE Working /\ Sound'
  <2>1. /\ pc \in InstallStage \cup {"dumpFailed"} /\ UNCHANGED <<mnt, cleanErr>>
        /\ pc' \in (InstallStage \ {"fetchISO"}) \cup {"dumpFailed", "cleanup"}
        /\ jobs' = jobs \/ \E job : jobs' = Append(jobs, job)
    BY <1>3, WorkingKeeps
  <2>2. Sound /\ pc \notin Idle \cup {"cleanup", "power", "exited"}
    BY <1>3, <2>1, ErrorsStay, WorkStages DEF Sound
  <2>3. /\ pc # "dumpFailed"
        /\ pc \in Finishing \cup {"recovery"} => work = <<>>
        /\ pc \notin Opening \cup {"mountInstall"} =>
             Has("umountInstalled") /\ mnt["state"] = "rw" /\ mnt["recovery"] = "rw"
    BY <2>2 DEF SettledInv
  <2>4. /\ pc' # "dumpFailed"
        /\ pc = "prepare" => pc' = "mountInstall"
        /\ pc # "prepare" => pc \notin Opening \cup {"mountInstall"}
        /\ pc' \in Finishing \cup {"recovery"} =>
             \/ CleanActive \/ CleanRecovery
             \/ pc \in Finishing \cup {"recovery"} /\ work' = work
    BY <1>3, <2>3, WorkGoes DEF Sound
  <2>5. Has("umountInstalled") => Has("umountInstalled")'
    <3>1. CASE jobs' = jobs
      BY <3>1 DEF Has
    <3>2. CASE \E job : jobs' = Append(jobs, job)
      BY <3>2, JobPushed
    <3> QED
      BY <2>1, <3>1, <3>2
  <2>6. CleanActive \/ CleanRecovery => work' = <<>>
    BY <1>3, <2>2 DEF CleanActive, CleanRecovery, TreeCleanerFailed, Sound
  <2>7. pc' \in Finishing \cup {"recovery"} => work' = <<>>
    BY <2>3, <2>4, <2>6
  <2>8. pc' \notin Opening \cup {"mountInstall"} =>
          Has("umountInstalled")' /\ mnt'["state"] = "rw" /\ mnt'["recovery"] = "rw"
    BY <2>1, <2>3, <2>4, <2>5
  <2> QED
    BY <2>4, <2>7, <2>8 DEF SettledInv
<1>4. CASE (FetchISO \/ MountInstall) /\ Sound'
  <2>1. CASE FetchISO
    <3>1. pc' = "prepare"
      BY <1>4, <2>1 DEF FetchISO, Sound
    <3> QED
      BY <3>1 DEF SettledInv, Opening, Finishing
  <2>2. CASE MountInstall
    <3>1. /\ pc' = "beforeInstall"
          /\ mnt' = [p \in Part |-> IF p \in Present THEN "rw" ELSE "none"]
          /\ jobs' = Append(jobs, [op |-> "umountInstalled", part |-> "state"])
      BY <1>4, <2>2 DEF MountInstall, Sound
    <3>2. Has("umountInstalled")'
      BY <3>1, JobPushed
    <3>3. mnt'["state"] = "rw" /\ mnt'["recovery"] = "rw"
      BY <3>1 DEF Part, ImgPart, Present
    <3> QED
      BY <3>1, <3>2, <3>3 DEF SettledInv, Opening, Finishing
  <2> QED
    BY <1>4, <2>1, <2>2
<1>5. CASE (JobCleanActive \/ JobUmountInstalled \/ JobISO) /\ Sound'
  <2>1. \E op : PopJob(op)
    BY <1>5 DEF JobCleanActive, JobUmountInstalled, JobISO
  <2>2. pc = "cleanup" /\ pc' = "cleanup" /\ err' = err
    BY <2>1, JobPopped
  <2>3. Sound
    <3>1. ~cleanErr' => ~cleanErr
      BY <1>5 DEF JobCleanActive, JobUmountInstalled, JobISO
    <3> QED
      BY <1>5, <2>2, <3>1 DEF Sound
  <2>4. /\ work = <<>>
        /\ \/ Has("umountInstalled") /\ mnt["state"] = "rw" /\ mnt["recovery"] = "rw"
           \/ \A s \in Slot : ~disk[s].dirty
    BY <2>2, <2>3 DEF SettledInv, Idle, Opening, Finishing
  <2>5. CASE JobCleanActive \/ JobISO
    <3>1. UNCHANGED <<disk, mnt>>
      BY <2>5 DEF JobCleanActive, JobISO
    <3>2. work' = <<>>
      BY <2>4, <2>5 DEF JobCleanActive, JobISO, TreeCleaner, TreeUnmounts, RemovalFails, CanUnmountTree
    <3>3. Has("umountInstalled") => Has("umountInstalled")'
      BY <2>5, JobPopped DEF JobCleanActive, JobISO
    <3> QED
      BY <2>2, <2>4, <3>1, <3>2, <3>3 DEF SettledInv
  <2>6. CASE JobUmountInstalled
    <3>1. PICK stay \in SUBSET {p \in Part : mnt[p] # "none"} :
            /\ disk' = WrittenBack({p \in Part : mnt[p] # "none"} \ stay)
            /\ cleanErr' = (cleanErr \/ stay # {})
      BY <2>6 DEF JobUmountInstalled
    <3>2. stay = {}
      BY <1>5, <3>1 DEF Sound
    <3>3. work' = <<>>
      BY <2>4, <2>6 DEF JobUmountInstalled
    <3>4. \A s \in Slot : ~disk'[s].dirty
      <4>1. \A image \in Image : ~[image EXCEPT !.dirty = FALSE].dirty
        BY DEF Image
      <4>2. \A s \in Slot : disk[s] \in Image /\ HomeOf(s) \in {"state", "recovery"}
        BY Components DEF HomeOf
      <4>3. DOMAIN work = {}
        BY <2>4
      <4>4. CASE \A s \in Slot : ~disk[s].dirty
        BY <3>1, <4>1, <4>2, <4>4 DEF WrittenBack
      <4>5. CASE mnt["state"] = "rw" /\ mnt["recovery"] = "rw"
        <5>1. \A s \in Slot : HomeOf(s) \in {p \in Part : mnt[p] # "none"} \ stay
          BY <3>2, <4>2, <4>5 DEF Part, ImgPart
        <5>2. \A s \in Slot : disk'[s] = [disk[s] EXCEPT !.dirty = FALSE]
          BY <3>1, <4>3, <5>1 DEF WrittenBack
        <5> QED
          BY <4>1, <4>2, <5>2
      <4> QED
        BY <2>4, <4>4, <4>5
    <3> QED
      BY <2>2, <3>3, <3>4 DEF SettledInv
  <2> QED
    BY <1>5, <2>5, <2>6
<1>6. CASE CleanupDone /\ Sound' /\ pc' # "exited"
  <2>1. /\ pc = "cleanup" /\ pc' = "power" /\ Sound
        /\ UNCHANGED <<disk, mnt, work, jobs>>
    BY <1>6 DEF CleanupDone, Sound
  <2>2. /\ work = <<>>
        /\ \/ Has("umountInstalled") /\ mnt["state"] = "rw" /\ mnt["recovery"] = "rw"
           \/ \A s \in Slot : ~disk[s].dirty
    BY <2>1 DEF SettledInv, Idle, Opening, Finishing
  <2>3. Has("umountInstalled")' = Has("umountInstalled")
    BY <2>1 DEF Has
  <2> QED
    BY <2>1, <2>2, <2>3 DEF SettledInv
<1>7. CASE CallInstall
  <2>1. pc' \in Opening
    <3>1. PICK o \in Options, sys \in SystemFS, rec \in RecoveryFS : StartInstall(o, sys, rec)
      BY <1>7 DEF CallInstall
    <3> QED
      BY <3>1, Zenon DEF StartInstall, Opening
  <2> QED
    BY <2>1, InstallStagesDiffer DEF SettledInv, Opening
<1>8. PowerAction \/ Reboot \/ PowerLoss \/ BootLive => pc' \in Idle \cup {"exited"}
  BY DEF PowerAction, Reboot, PowerLoss, PoweredOff, BootLive, Idle
<1> QED
  BY <1>1, <1>2, <1>3, <1>4, <1>5, <1>6, <1>7, <1>8 DEF LiveNext, InstallStep, Working

\* The stages with the boot loader in place, with the labels set, and with each image made.
GrubDone     == {"relabelInstall", "chrootInstall", "afterInstall", "labels"}
Labelled     == {"entry", "createActive"}
ActiveDone   == {"cleanActive", "recovery"} \cup RecoveryTree \cup Finishing
RecoveryDone == {"cleanRecovery"} \cup Finishing
PassiveDone  == Finishing \ {"passive"}

\* The source of recovery, a tree that only one image has, and an image as requested.
Carried == IF how.own THEN {0} ELSE {runs}
NoTree  == [s \in Slot |-> {}]
Only(slot, source) == [s \in Slot |-> IF s = slot THEN source ELSE {}]
Made(slot, fs, label, source) ==
  disk[slot].fs = fs /\ disk[slot].label = label /\ disk[slot].content = source /\ disk[slot].ok

\* What an installation that found nothing in its way and has not failed has reached:
\* which image it works on, what is in the trees, which images are made, what is recorded.
SpecStage ==
  /\ pc \in RecoveryOld \ RecoveryWork => ~spec.recovery
  /\ pc \in RecoveryTree => spec.recovery /\ ~CopiesActive
TreeStage ==
  ~(pc \in Opening /\ how.format) =>
    /\ pc \in ActiveTree \ {"dumpActive"} => tree = Only("active", {runs})
    /\ pc \in RecoveryTree \ {"dumpRecovery"} => tree = Only("recovery", Carried)
    /\ pc \notin (ActiveTree \ {"dumpActive"}) \cup (RecoveryTree \ {"dumpRecovery"}) => tree = NoTree
ImageStage ==
  /\ pc \in ActiveDone => Made("active", spec.activeFS, spec.activeLabel, {runs})
  /\ pc \in RecoveryDone => Made("recovery", spec.recoveryFS, spec.recoveryLabel, Carried)
  /\ pc \in PassiveDone => Made("passive", spec.activeFS, spec.passiveLabel, {runs})
RecordStage ==
  /\ pc \in GrubDone \cup Labelled \cup {"fillActive"} \cup ActiveDone => device = "grub"
  /\ pc \in Labelled \cup {"fillActive"} \cup ActiveDone => grub = GrubLabels
  /\ pc \in {"installRecoveryYaml", "cleanup", "power"} => yaml["state"] = InstalledState
  /\ pc \in {"cleanup", "power"} => yaml["recovery"] = InstalledState

Delivering == SpecStage /\ NoOldImage /\ TreeStage /\ ImageStage /\ RecordStage

DeliverInstallInv == pc \notin Idle \cup {"exited"} /\ start.fresh /\ Sound => Delivering

\* The trees of a formatted device and of a fresh run.
LEMMA OnlyTrees ==
  ASSUME InstallTypeOK, NEW slot \in Slot, NEW source
  PROVE  /\ tree = NoTree => [tree EXCEPT ![slot] = @ \cup source] = Only(slot, source)
         /\ tree = Only(slot, source) =>
              /\ [tree EXCEPT ![slot] = {}] = NoTree
              /\ tree[slot] = source
         /\ tree = NoTree => [tree EXCEPT ![slot] = {}] = NoTree
BY DEF NoTree, Only

\* Steps between which no part of what is reached changes.
LEMMA DeliverHooks ==
  ASSUME Delivering, Sound',
         \/ BeforeInstall \/ CopyCloudConfig \/ RelabelInstall \/ ChrootInstall
         \/ AfterInstall \/ InstallEntry \/ PostInstall
  PROVE  Delivering'
<1>1. UNCHANGED <<disk, tree, yaml, grub, device, how, spec, runs>>
  BY DEF BeforeInstall, CopyCloudConfig, RelabelInstall, ChrootInstall, AfterInstall,
         InstallEntry, PostInstall, RunHook, Chrooted
<1>2. \/ pc = "beforeInstall" /\ pc' = "deployActive"
      \/ pc = "cloudConfig" /\ pc' = "installGrub"
      \/ pc = "relabelInstall" /\ pc' = "chrootInstall"
      \/ pc = "chrootInstall" /\ pc' = "afterInstall"
      \/ pc = "afterInstall" /\ pc' = "labels"
      \/ pc = "entry" /\ pc' = "createActive"
      \/ pc = "postInstall" /\ pc' = "installYaml"
  BY DEF BeforeInstall, CopyCloudConfig, RelabelInstall, ChrootInstall, AfterInstall,
         InstallEntry, PostInstall, RunHook, Chrooted, ChrootedCallback, Sound
<1> DEFINE Same(P) == pc' \in P <=> pc \in P
<1>3. /\ Same(Opening) /\ Same(Preparing) /\ Same(ActiveWork) /\ Same(ActiveMade) /\ Same({"recovery"})
      /\ Same(RecoveryWork) /\ Same(RecoveryMade) /\ Same(Finishing) /\ Same(GrubDone) /\ Same(Labelled)
      /\ Same({"fillActive"}) /\ Same({"cleanActive", "recovery"}) /\ Same({"cleanRecovery"})
      /\ Same({"passive"}) /\ Same({"installRecoveryYaml", "cleanup", "power"}) /\ Same({"cleanup", "power"})
      /\ Same({"dumpActive"}) /\ Same({"dumpRecovery"})
  BY <1>2 DEF Opening, Preparing, ActiveWork, ActiveMade, RecoveryWork, RecoveryMade, Finishing,
              GrubDone, Labelled
<1>4. /\ Same(ActiveTree) /\ Same(RecoveryTree)
  BY <1>3 DEF ActiveTree, RecoveryTree
<1>5. /\ Same(ActiveOld) /\ Same(RecoveryOld) /\ Same(ActiveDone) /\ Same(RecoveryDone) /\ Same(PassiveDone)
  BY <1>3, <1>4 DEF ActiveOld, RecoveryOld, ActiveDone, RecoveryDone, PassiveDone
<1>6. SpecStage' /\ NoOldImage'
  BY <1>1, <1>3, <1>4, <1>5 DEF Delivering, SpecStage, NoOldImage, CopiesActive
<1>7. TreeStage'
  BY <1>1, <1>3, <1>4 DEF Delivering, TreeStage, Carried
<1>8. ImageStage'
  BY <1>1, <1>5 DEF Delivering, ImageStage, Made, Carried
<1>9. RecordStage'
  BY <1>1, <1>3, <1>5 DEF Delivering, RecordStage, GrubLabels, InstalledState
<1> QED
  BY <1>6, <1>7, <1>8, <1>9 DEF Delivering

\* The device is made ready and mounted.
LEMMA DeliverOpening ==
  ASSUME Delivering, Sound', FetchISO \/ FormatDevice \/ KeepPartitions \/ MountInstall
  PROVE  Delivering'
<1>1. UNCHANGED <<how, spec, runs>>
  BY DEF FetchISO, FormatDevice, KeepPartitions, MountInstall
<1>2. \/ pc = "fetchISO" /\ pc' = "prepare" /\ UNCHANGED <<disk, tree>>
      \/ pc = "prepare" /\ pc' = "mountInstall" /\ how.format /\ DeviceWiped
      \/ pc = "prepare" /\ pc' = "mountInstall" /\ ~how.format /\ UNCHANGED <<disk, tree>>
      \/ pc = "mountInstall" /\ pc' = "beforeInstall" /\ UNCHANGED <<disk, tree>>
  BY DEF FetchISO, FormatDevice, KeepPartitions, MountInstall, Sound
<1>3. /\ pc \in Opening \cup Preparing /\ pc' \in Opening \cup Preparing
      /\ pc' \in Opening => pc \in Opening /\ UNCHANGED <<disk, tree>>
  BY <1>2 DEF Opening, Preparing
<1>4. /\ \A p \in Opening \cup Preparing : /\ p \in ActiveOld /\ p \in RecoveryOld \ RecoveryWork
                                           /\ p \notin ActiveTree \cup RecoveryTree
                                           /\ p \notin Finishing \cup {"recovery"} \cup ActiveMade
                                           /\ p \notin GrubDone \cup Labelled
  BY InstallStagesDiffer
  DEF ActiveOld, RecoveryOld, RecoveryTree, ActiveTree, Opening, Preparing, GrubDone, Labelled
<1>5. pc' \notin ActiveDone \cup RecoveryDone \cup PassiveDone \cup {"fillActive"} \cup {"installRecoveryYaml"}
  BY <1>3, <1>4 DEF ActiveDone, RecoveryDone, PassiveDone, ActiveMade, RecoveryTree, RecoveryMade, Finishing
<1>6. SpecStage'
  BY <1>1, <1>3, <1>4 DEF Delivering, SpecStage
<1>7. NoOldImage'
  <2>1. CASE how.format /\ DeviceWiped
    <3>1. disk'["active"].fs = "none" /\ disk'["recovery"].fs = "none"
      BY <2>1, Zenon DEF DeviceWiped, Slot, NoFile
    <3> QED
      BY <3>1 DEF NoOldImage
  <2>2. CASE UNCHANGED disk /\ (pc \in Opening /\ how.format => pc' \in Opening)
    BY <1>1, <1>3, <1>4, <2>2 DEF Delivering, NoOldImage, CopiesActive
  <2>3. \/ how.format /\ DeviceWiped
        \/ UNCHANGED disk /\ (pc \in Opening /\ how.format => pc' \in Opening)
    BY <1>2 DEF Opening
  <2> QED
    BY <2>1, <2>2, <2>3
<1>8. TreeStage'
  <2>1. CASE how.format /\ DeviceWiped
    <3>1. tree' = NoTree
      BY <2>1 DEF DeviceWiped, NoTree
    <3> QED
      BY <1>3, <1>4, <3>1 DEF TreeStage
  <2>2. CASE UNCHANGED tree /\ (pc \in Opening /\ how.format => pc' \in Opening)
    BY <1>1, <1>3, <1>4, <2>2 DEF Delivering, TreeStage
  <2>3. \/ how.format /\ DeviceWiped
        \/ UNCHANGED tree /\ (pc \in Opening /\ how.format => pc' \in Opening)
    BY <1>2 DEF Opening
  <2> QED
    BY <2>1, <2>2, <2>3
<1>9. ImageStage' /\ RecordStage'
  <2>1. pc' \notin {"installRecoveryYaml", "cleanup", "power"}
    BY <1>3, <1>4 DEF Finishing
  <2> QED
    BY <1>3, <1>4, <1>5, <2>1 DEF ImageStage, RecordStage
<1> QED
  BY <1>6, <1>7, <1>8, <1>9 DEF Delivering

\* The tree of active is mounted and filled, the boot loader installed and configured.
LEMMA DeployWork ==
  ASSUME InstallTypeOK, Delivering, Sound',
         DeployActive \/ DumpActive \/ DumpActiveLeaks \/ InstallGrub \/ SetInstallVariables
  PROVE  Delivering'
<1>1. UNCHANGED <<disk, how, spec, runs, yaml>>
  BY DEF DeployActive, DumpActive, DumpActiveLeaks, DumpLeaks, InstallGrub, SetInstallVariables
<1>2. \/ pc = "deployActive" /\ pc' = "dumpActive" /\ UNCHANGED <<tree, device, grub>>
      \/ /\ pc = "dumpActive" /\ pc' = "cloudConfig" /\ UNCHANGED <<device, grub>>
         /\ tree' = [tree EXCEPT !["active"] = @ \cup {runs}]
      \/ pc = "installGrub" /\ pc' = "relabelInstall" /\ UNCHANGED <<tree, grub>> /\ device' = "grub"
      \/ pc = "labels" /\ pc' = "entry" /\ UNCHANGED <<tree, device>> /\ grub' = GrubLabels
  BY DEF DeployActive, DumpActive, DumpActiveLeaks, DumpLeaks, InstallGrub, SetInstallVariables, Sound
<1>3. pc \in Preparing \cup ActiveWork /\ pc' \in ActiveWork
  BY <1>2 DEF Preparing, ActiveWork
<1>4. \A p \in Preparing \cup ActiveWork :
        /\ p \in ActiveOld /\ p \in RecoveryOld \ RecoveryWork
        /\ p \notin Opening \cup RecoveryTree \cup ActiveDone \cup RecoveryDone \cup PassiveDone
        /\ p \notin {"fillActive", "installRecoveryYaml", "cleanup", "power"}
  BY InstallStagesDiffer
  DEF ActiveOld, RecoveryOld, ActiveTree, RecoveryTree, ActiveDone, RecoveryDone, PassiveDone,
      ActiveMade, RecoveryMade, Finishing
<1>5. SpecStage'
  BY <1>1, <1>3, <1>4 DEF Delivering, SpecStage
<1>6. NoOldImage'
  BY <1>1, <1>3, <1>4 DEF Delivering, NoOldImage, CopiesActive
<1>7. TreeStage'
  <2>1. \/ pc \in {"deployActive", "dumpActive"} /\ tree = NoTree
        \/ pc \in ActiveTree \ {"dumpActive"} /\ tree = Only("active", {runs})
    BY <1>2, <1>3, <1>4 DEF Delivering, TreeStage, ActiveTree, ActiveWork, ActiveMade
  <2>2. \/ pc' = "dumpActive" /\ tree' = NoTree
        \/ pc' \in ActiveTree \ {"dumpActive"} /\ tree' = Only("active", {runs})
    <3>1. CASE pc = "dumpActive"
      <4>1. tree = NoTree
        BY <2>1, <3>1
      <4>2. tree' = Only("active", {runs})
        BY <1>2, <3>1, <4>1, OnlyTrees DEF Slot
      <4> QED
        BY <1>2, <3>1, <4>2 DEF ActiveTree, ActiveWork
    <3>2. CASE pc = "deployActive"
      BY <1>2, <2>1, <3>2 DEF ActiveTree, ActiveWork, ActiveMade
    <3>3. CASE pc \in {"installGrub", "labels"}
      BY <1>2, <2>1, <3>3 DEF ActiveTree, ActiveWork, ActiveMade
    <3> QED
      BY <1>2, <3>1, <3>2, <3>3
  <2>3. Only("active", {runs})' = Only("active", {runs}) /\ NoTree' = NoTree
    BY <1>1 DEF Only, NoTree
  <2> QED
    BY <1>3, <1>4, <2>2, <2>3 DEF TreeStage
<1>8. ImageStage'
  BY <1>3, <1>4 DEF ImageStage
<1>9. RecordStage'
  <2>1. pc' \in GrubDone \cup Labelled => device' = "grub"
    BY <1>2 DEF Delivering, RecordStage, GrubDone, Labelled
  <2>2. pc' \in Labelled => grub' = GrubLabels'
    BY <1>1, <1>2 DEF Labelled, GrubLabels
  <2> QED
    BY <1>3, <1>4, <2>1, <2>2 DEF RecordStage
<1> QED
  BY <1>5, <1>6, <1>7, <1>8, <1>9 DEF Delivering

\* An image that is made from a tree.
LEMMA DeliverMade ==
  ASSUME InstallTypeOK, NEW slot \in {"active", "recovery"}, NEW source,
         disk' = [disk EXCEPT ![slot] = NewFile(source, TRUE)]
  PROVE  /\ disk'[slot].fs = ImageFS /\ disk'[slot].label = ImageLabel
         /\ disk'[slot].content = source /\ disk'[slot].ok
         /\ \A s \in Slot \ {slot} : disk'[s] = disk[s]
BY Components DEF Slot, NewFile

\* The active image is made of exactly the source, and its tree removed.
LEMMA DeliverActive ==
  ASSUME InstallTypeOK, DiskInv, Delivering, Sound, Sound',
         CreateActive \/ FillActive \/ SquashActive \/ CleanActive
  PROVE  Delivering'
<1>1. UNCHANGED <<how, spec, runs, yaml, grub, device>>
  BY DEF CreateActive, FillActive, SquashActive, CleanActive
<1>2. /\ pc \in {"createActive", "fillActive", "cleanActive"}
      /\ pc' \in {"fillActive", "cleanActive", "recovery"}
  BY DEF CreateActive, FillActive, SquashActive, CleanActive, ImgFails, Sound
<1>3. /\ pc \in ActiveTree \ {"dumpActive"} /\ pc' \in ActiveMade \cup {"recovery"}
      /\ pc \in Labelled \cup {"fillActive"} \cup ActiveDone
  BY <1>2 DEF ActiveTree, ActiveWork, ActiveMade, Labelled, ActiveDone
<1>4. \A p \in ActiveTree \cup {"recovery"} :
        /\ p \in RecoveryOld \ RecoveryWork
        /\ p \notin Opening \cup RecoveryTree \cup RecoveryDone \cup PassiveDone
        /\ p \notin {"installRecoveryYaml", "cleanup", "power"}
  BY InstallStagesDiffer
  DEF RecoveryOld, ActiveTree, RecoveryTree, RecoveryDone, PassiveDone, RecoveryMade, Finishing
<1>5. pc' \notin ActiveOld /\ pc' \in ActiveTree \cup {"recovery"}
  BY <1>3, InstallStagesDiffer DEF ActiveOld, ActiveTree
<1>6. ~spec.recovery /\ tree = Only("active", {runs}) /\ tree["active"] = {runs}
  <2>1. tree = Only("active", {runs})
    BY <1>3, <1>4 DEF Delivering, TreeStage
  <2> QED
    BY <1>3, <1>4, <2>1, OnlyTrees DEF Delivering, SpecStage, Slot
<1>7. ImageFS = spec.activeFS /\ ImageLabel = spec.activeLabel
  BY <1>6 DEF ImageFS, ImageLabel
<1>8. disk \in [Slot -> Image] /\ {"active", "recovery"} \subseteq Slot
  BY Components DEF Slot
<1>9. disk'["recovery"] = disk["recovery"]
  BY <1>8 DEF CreateActive, FillActive, SquashActive, CleanActive
<1>10. SpecStage'
  BY <1>1, <1>4, <1>5, <1>6 DEF SpecStage
<1>11. NoOldImage'
  BY <1>1, <1>3, <1>4, <1>5, <1>9 DEF Delivering, NoOldImage, CopiesActive
<1>12. TreeStage'
  <2>1. CASE CreateActive \/ FillActive \/ SquashActive
    <3>1. UNCHANGED tree /\ pc' \in ActiveMade
      BY <2>1 DEF CreateActive, FillActive, SquashActive, ImgFails, ActiveMade
    <3>2. pc' \in ActiveTree \ {"dumpActive"}
      BY <3>1 DEF ActiveTree, ActiveMade
    <3>3. Only("active", {runs})' = Only("active", {runs})
      BY <1>1 DEF Only
    <3> QED
      BY <1>4, <1>6, <3>1, <3>2, <3>3 DEF TreeStage
  <2>2. CASE CleanActive
    <3>1. pc' = "recovery" /\ TreeCleaner("active") /\ ~TreeCleanerFailed
      BY <2>2 DEF CleanActive, Sound
    <3>2. tree' = NoTree
      BY <1>6, <1>8, <3>1, CleanerEmpties, OnlyTrees DEF RemoveTree
    <3>3. NoTree' = NoTree
      BY DEF NoTree
    <3>4. pc' \notin ActiveTree \cup RecoveryTree
      BY <3>1, InstallStagesDiffer
    <3> QED
      BY <3>2, <3>3, <3>4 DEF TreeStage
  <2> QED
    BY <2>1, <2>2
<1>13. pc' \in ActiveDone => Made("active", spec.activeFS, spec.activeLabel, {runs})'
  <2> SUFFICES ASSUME pc' \in ActiveDone
               PROVE  /\ disk'["active"].fs = spec.activeFS /\ disk'["active"].label = spec.activeLabel
                      /\ disk'["active"].content = {runs} /\ disk'["active"].ok
    BY <1>1 DEF Made
  <2>1. CASE CreateActive
    <3>1. pc' = "fillActive"
      BY <2>1 DEF CreateActive, Sound, ImgFails
    <3> QED
      BY <3>1, InstallStagesDiffer DEF ActiveDone, ActiveMade, RecoveryTree, RecoveryWork, RecoveryMade, Finishing
  <2>2. CASE FillActive
    <3>1. disk' = [disk EXCEPT !["active"] = NewFile(tree["active"], TRUE)]
      BY <2>2 DEF FillActive, Sound, ImgFails
    <3> QED
      BY <1>6, <1>7, <3>1, DeliverMade
  <2>3. CASE SquashActive
    <3>1. /\ disk' = [disk EXCEPT !["active"] = NewFile(disk["active"].content \cup tree["active"], TRUE)]
          /\ pc = "createActive" /\ ImageFS = "squashfs"
      BY <2>3 DEF SquashActive, Sound, ImgFails
    <3>2. pc \in ActiveOld /\ pc \notin Opening
      BY <1>3, <1>4, <3>1 DEF ActiveOld, ActiveWork
    <3>3. disk["active"].content = {}
      BY <1>7, <1>8, <3>1, <3>2 DEF Delivering, NoOldImage, DiskInv
    <3>4. disk["active"].content \cup tree["active"] = {runs}
      BY <1>6, <3>3
    <3> QED
      BY <1>7, <3>1, <3>4, DeliverMade
  <2>4. CASE CleanActive
    <3>1. UNCHANGED disk /\ pc = "cleanActive"
      BY <2>4 DEF CleanActive
    <3>2. pc \in ActiveDone
      BY <3>1 DEF ActiveDone
    <3> QED
      BY <3>1, <3>2 DEF Delivering, ImageStage, Made
  <2> QED
    BY <2>1, <2>2, <2>3, <2>4
<1>14. ImageStage'
  BY <1>4, <1>5, <1>13 DEF ImageStage
<1>15. RecordStage'
  <2>1. device = "grub" /\ grub = GrubLabels
    BY <1>3 DEF Delivering, RecordStage
  <2> QED
    BY <1>1, <1>4, <1>5, <2>1 DEF RecordStage, GrubLabels
<1> QED
  BY <1>10, <1>11, <1>12, <1>14, <1>15 DEF Delivering

\* An image is copied from the active one, which may be squashfs: then there is no label.
LEMMA DeliverCopy ==
  ASSUME InstallTypeOK, NEW slot \in {"passive", "recovery"}, NEW label \in Label, NEW fs, NEW source,
         NEW at, NEW next, NEW code \in {"CopyFileImg", "DeployImage"}, Sound',
         CopyImage(at, slot, label, next, code),
         Made("active", fs, IF label = "" THEN "" ELSE spec.activeLabel, source)
  PROVE  /\ disk'[slot].fs = fs /\ disk'[slot].label = label
         /\ disk'[slot].content = source /\ disk'[slot].ok
         /\ \A s \in Slot \ {slot} : disk'[s] = disk[s]
<1> DEFINE copy == [disk["active"] EXCEPT !.dirty = TRUE]
<1>1. disk' = [disk EXCEPT ![slot] = IF label = "" THEN copy ELSE [copy EXCEPT !.label = label]]
  BY Zenon DEF CopyImage, Sound
<1>2. disk \in [Slot -> Image] /\ slot \in Slot /\ disk["active"] \in Image
  BY Components, Zenon DEF Slot
<1>3. /\ copy.fs = disk["active"].fs /\ copy.content = disk["active"].content
      /\ copy.label = disk["active"].label /\ copy.ok = disk["active"].ok
      /\ [copy EXCEPT !.label = label].fs = disk["active"].fs
      /\ [copy EXCEPT !.label = label].content = disk["active"].content
      /\ [copy EXCEPT !.label = label].ok = disk["active"].ok
      /\ [copy EXCEPT !.label = label].label = label
  BY <1>2, Zenon DEF Image
<1> HIDE DEF copy
<1>4. disk'[slot] = IF label = "" THEN copy ELSE [copy EXCEPT !.label = label]
  BY <1>1, <1>2, Zenon
<1>5. \A s \in Slot \ {slot} : disk'[s] = disk[s]
  BY <1>1, <1>2, Zenon
<1>6. CASE label = ""
  BY <1>3, <1>4, <1>5, <1>6, Zenon DEF Made
<1>7. CASE label # ""
  BY <1>3, <1>4, <1>5, <1>7, Zenon DEF Made
<1> QED
  BY <1>6, <1>7, Zenon

\* Where the stages of the recovery image are, and what stays as it is from there on.
LEMMA RecoveryPlaces ==
  /\ \A p \in RecoveryTree \cup {"recovery"} :
       /\ p \in ActiveDone /\ p \notin Opening \cup ActiveTree \cup ActiveOld \cup Finishing \cup PassiveDone
       /\ p \notin {"installRecoveryYaml", "cleanup", "power", "dumpActive", "fillActive"}
  /\ \A p \in Finishing :
       /\ p \in ActiveDone \cap RecoveryDone
       /\ p \notin Opening \cup ActiveTree \cup ActiveOld \cup RecoveryTree \cup RecoveryOld
       /\ p \notin {"recovery", "dumpActive", "dumpRecovery", "fillActive"}
BY InstallStagesDiffer
DEF ActiveDone, RecoveryDone, PassiveDone, ActiveOld, RecoveryOld, ActiveTree, RecoveryTree, Opening,
    Preparing, ActiveWork, ActiveMade, RecoveryWork, RecoveryMade, Finishing

\* The recovery image is a copy of active.
LEMMA DeliverCopied ==
  ASSUME InstallTypeOK, LabelsInv, Delivering, Sound, Sound', CopyRecovery
  PROVE  Delivering'
<1>1. /\ pc = "recovery" /\ pc' = "passive" /\ CopiesActive
      /\ UNCHANGED <<how, spec, runs, yaml, grub, device, tree>>
  BY Zenon DEF CopyRecovery, CopyImage, Sound
<1>2. pc' \in Finishing /\ pc' \notin PassiveDone /\ pc \notin Idle
  BY <1>1 DEF Finishing, PassiveDone, Idle
<1>3. /\ pc \in ActiveDone /\ pc \notin Opening \cup ActiveTree \cup RecoveryTree
      /\ pc' \in ActiveDone
      /\ pc' \notin Opening \cup ActiveTree \cup ActiveOld \cup RecoveryTree \cup RecoveryOld
  BY <1>1, <1>2, RecoveryPlaces, InstallStagesDiffer
<1>4. Made("active", spec.activeFS, spec.activeLabel, {runs})
  BY <1>3 DEF Delivering, ImageStage
<1>5. spec.recoveryLabel \in Label /\ (spec.recoveryLabel = "" => spec.activeLabel = "")
      /\ spec.activeFS = spec.recoveryFS /\ Carried = {runs}
  BY <1>1, <1>2, Components, Zenon DEF LabelsInv, CopiesActive, UpgradeSpec, Carried
<1>6. /\ disk'["recovery"].fs = spec.recoveryFS /\ disk'["recovery"].label = spec.recoveryLabel
      /\ disk'["recovery"].content = {runs} /\ disk'["recovery"].ok
      /\ disk'["active"] = disk["active"]
  <2>1. CopyImage("recovery", "recovery", spec.recoveryLabel, "passive", "CopyFileImg")
    BY DEF CopyRecovery
  <2>2. Made("active", spec.recoveryFS, IF spec.recoveryLabel = "" THEN "" ELSE spec.activeLabel, {runs})
    BY <1>4, <1>5, Zenon
  <2>3. "active" \in Slot \ {"recovery"}
    BY DEF Slot
  <2> QED
    BY <1>5, <2>1, <2>2, <2>3, DeliverCopy, Zenon
<1>7. SpecStage' /\ NoOldImage'
  BY <1>1, <1>3 DEF SpecStage, NoOldImage
<1>8. TreeStage'
  BY <1>1, <1>3 DEF Delivering, TreeStage, NoTree
<1>9. ImageStage'
  BY <1>1, <1>2, <1>4, <1>5, <1>6, Zenon DEF ImageStage, Made, Carried
<1>10. RecordStage'
  BY <1>1, <1>3 DEF Delivering, RecordStage, GrubLabels
<1> QED
  BY <1>7, <1>8, <1>9, <1>10 DEF Delivering

\* The tree of recovery is mounted and filled.
LEMMA DeliverDumped ==
  ASSUME InstallTypeOK, Delivering, Sound, Sound',
         DeployRecovery \/ DumpRecovery \/ DumpRecoveryLeaks
  PROVE  Delivering'
<1>1. UNCHANGED <<how, runs, yaml, grub, device, disk>>
  BY DEF DeployRecovery, DumpRecovery, DumpRecoveryLeaks, DumpLeaks
<1>2. \/ /\ pc = "recovery" /\ pc' = "dumpRecovery" /\ UNCHANGED tree /\ ~CopiesActive
         /\ spec' = [spec EXCEPT !.recovery = TRUE]
      \/ /\ pc = "dumpRecovery" /\ pc' = "createRecovery" /\ UNCHANGED spec
         /\ tree' = [tree EXCEPT !["recovery"] = @ \cup RecoverySource]
  BY DEF DeployRecovery, DumpRecovery, DumpRecoveryLeaks, DumpLeaks, Sound
<1>3. /\ pc \in {"recovery", "dumpRecovery"} /\ pc' \in RecoveryWork
      /\ pc \in RecoveryTree \cup {"recovery"} /\ pc' \in RecoveryTree
      /\ pc \in RecoveryOld
  BY <1>2 DEF RecoveryWork, RecoveryTree, RecoveryOld
<1>4. /\ pc \in ActiveDone /\ pc \notin Opening \cup ActiveTree
      /\ pc' \in ActiveDone /\ pc' \notin Opening \cup ActiveTree \cup ActiveOld \cup Finishing
      /\ pc' \notin PassiveDone \cup {"installRecoveryYaml", "cleanup", "power"}
  BY <1>3, RecoveryPlaces
<1>5. /\ spec'.recovery /\ spec'.activeFS = spec.activeFS /\ spec'.recoveryFS = spec.recoveryFS
      /\ spec'.activeLabel = spec.activeLabel /\ spec'.passiveLabel = spec.passiveLabel
      /\ spec'.recoveryLabel = spec.recoveryLabel /\ ~CopiesActive
  <2>1. spec \in UpgradeSpec
    BY Components
  <2>2. CASE pc = "recovery"
    BY <1>2, <2>1, <2>2 DEF UpgradeSpec
  <2>3. CASE pc = "dumpRecovery"
    BY <1>2, <2>3 DEF Delivering, SpecStage, RecoveryTree, RecoveryWork
  <2> QED
    BY <1>3, <2>2, <2>3
<1>6. SpecStage'
  BY <1>1, <1>3, <1>5 DEF SpecStage, CopiesActive
<1>7. NoOldImage'
  BY <1>1, <1>3, <1>4, <1>5 DEF Delivering, NoOldImage, CopiesActive
<1>8. Made("active", spec.activeFS, spec.activeLabel, {runs})
  BY <1>4 DEF Delivering, ImageStage
<1>9. tree = NoTree
  <2>1. pc \notin RecoveryTree \ {"dumpRecovery"}
    BY <1>3, InstallStagesDiffer
  <2> QED
    BY <1>4, <2>1 DEF Delivering, TreeStage
<1>10. TreeStage'
  <2>1. CASE pc = "recovery"
    BY <1>2, <1>4, <1>9, <2>1 DEF TreeStage, NoTree, RecoveryTree, RecoveryWork
  <2>2. CASE pc = "dumpRecovery"
    <3>1. RecoverySource = Carried
      BY <1>8 DEF RecoverySource, Carried, Made
    <3>2. tree' = Only("recovery", Carried)
      BY <1>2, <1>9, <2>2, <3>1, OnlyTrees DEF Slot
    <3>3. Only("recovery", Carried)' = Only("recovery", Carried)
      BY <1>1 DEF Only, Carried
    <3>4. pc' \in RecoveryTree \ {"dumpRecovery"}
      BY <1>2, <1>3, <2>2
    <3> QED
      BY <1>4, <3>2, <3>3, <3>4 DEF TreeStage
  <2> QED
    BY <1>3, <2>1, <2>2
<1>11. ImageStage'
  <2>1. pc' \notin RecoveryDone
    BY <1>2, <1>4 DEF RecoveryDone
  <2> QED
    BY <1>1, <1>4, <1>5, <1>8, <2>1 DEF ImageStage, Made
<1>12. RecordStage'
  <2>1. device = "grub" /\ grub = GrubLabels
    BY <1>4 DEF Delivering, RecordStage
  <2> QED
    BY <1>1, <1>4, <1>5, <2>1 DEF RecordStage, GrubLabels
<1> QED
  BY <1>6, <1>7, <1>10, <1>11, <1>12 DEF Delivering

\* The recovery image is made of exactly its source, and its tree removed.
LEMMA DeliverRecovery ==
  ASSUME InstallTypeOK, DiskInv, Delivering, Sound, Sound',
         CreateRecovery \/ FillRecovery \/ SquashRecovery \/ CleanRecovery
  PROVE  Delivering'
<1>1. UNCHANGED <<how, spec, runs, yaml, grub, device>>
  BY DEF CreateRecovery, FillRecovery, SquashRecovery, CleanRecovery
<1>2. /\ pc \in {"createRecovery", "fillRecovery", "cleanRecovery"}
      /\ pc' \in {"fillRecovery", "cleanRecovery", "passive"}
  BY DEF CreateRecovery, FillRecovery, SquashRecovery, CleanRecovery, ImgFails, Sound, TreeCleanerFailed
<1>3. /\ pc \in RecoveryTree \ {"dumpRecovery"} /\ pc' \in RecoveryMade \cup {"passive"}
      /\ pc' \in RecoveryTree \cup Finishing /\ pc' \notin RecoveryWork
  BY <1>2 DEF RecoveryTree, RecoveryWork, RecoveryMade, Finishing
<1>4. /\ pc \in ActiveDone /\ pc \notin Opening \cup ActiveTree
      /\ pc' \in ActiveDone /\ pc' \notin Opening \cup ActiveTree \cup ActiveOld \cup PassiveDone
      /\ pc' \notin {"installRecoveryYaml", "cleanup", "power", "recovery"}
      /\ pc' \notin RecoveryOld
  <2>1. pc \in ActiveDone /\ pc \notin Opening \cup ActiveTree
    BY <1>3, RecoveryPlaces
  <2>2. /\ pc' \in ActiveDone /\ pc' \notin Opening \cup ActiveTree \cup ActiveOld
        /\ pc' \notin {"installRecoveryYaml", "cleanup", "power", "recovery"}
    BY <1>2, <1>3, RecoveryPlaces
  <2>3. pc' \notin PassiveDone
    BY <1>2 DEF PassiveDone, Finishing
  <2>4. pc' \notin RecoveryOld
    <3>1. pc' \notin Preparing
      BY <1>2 DEF Preparing
    <3> QED
      BY <1>3, <2>2, <3>1 DEF RecoveryOld
  <2> QED
    BY <2>1, <2>2, <2>3, <2>4
<1>5. spec.recovery /\ ~CopiesActive /\ tree = Only("recovery", Carried) /\ tree["recovery"] = Carried
  <2>1. tree = Only("recovery", Carried)
    BY <1>3, <1>4 DEF Delivering, TreeStage
  <2> QED
    BY <1>3, <2>1, OnlyTrees DEF Delivering, SpecStage, Slot
<1>6. ImageFS = spec.recoveryFS /\ ImageLabel = spec.recoveryLabel
  BY <1>5 DEF ImageFS, ImageLabel
<1>7. disk \in [Slot -> Image] /\ {"active", "recovery"} \subseteq Slot
  BY Components DEF Slot
<1>8. disk'["active"] = disk["active"]
  BY <1>7 DEF CreateRecovery, FillRecovery, SquashRecovery, CleanRecovery
<1>9. SpecStage' /\ NoOldImage'
  BY <1>1, <1>4, <1>5 DEF SpecStage, NoOldImage, CopiesActive
<1>10. TreeStage'
  <2>1. CASE CreateRecovery \/ FillRecovery \/ SquashRecovery
    <3>1. UNCHANGED tree /\ pc' \in RecoveryMade
      BY <2>1 DEF CreateRecovery, FillRecovery, SquashRecovery, ImgFails, RecoveryMade
    <3>2. pc' \in RecoveryTree \ {"dumpRecovery"}
      BY <3>1 DEF RecoveryTree, RecoveryMade
    <3>3. Only("recovery", Carried)' = Only("recovery", Carried)
      BY <1>1 DEF Only, Carried
    <3> QED
      BY <1>4, <1>5, <3>1, <3>2, <3>3 DEF TreeStage
  <2>2. CASE CleanRecovery
    <3>1. pc' = "passive" /\ TreeCleaner("recovery") /\ ~TreeCleanerFailed
      BY <2>2 DEF CleanRecovery, Sound
    <3>2. tree' = NoTree
      BY <1>5, <1>7, <3>1, CleanerEmpties, OnlyTrees DEF RemoveTree
    <3>3. NoTree' = NoTree
      BY DEF NoTree
    <3>4. pc' \notin ActiveTree \cup RecoveryTree
      BY <3>1, InstallStagesDiffer DEF Finishing
    <3> QED
      BY <3>2, <3>3, <3>4 DEF TreeStage
  <2> QED
    BY <2>1, <2>2
<1>11. pc' \in RecoveryDone =>
         /\ disk'["recovery"].fs = spec.recoveryFS /\ disk'["recovery"].label = spec.recoveryLabel
         /\ disk'["recovery"].content = Carried /\ disk'["recovery"].ok
  <2> SUFFICES ASSUME pc' \in RecoveryDone
               PROVE  /\ disk'["recovery"].fs = spec.recoveryFS /\ disk'["recovery"].label = spec.recoveryLabel
                      /\ disk'["recovery"].content = Carried /\ disk'["recovery"].ok
    OBVIOUS
  <2>1. CASE CreateRecovery
    <3>1. pc' = "fillRecovery"
      BY <2>1 DEF CreateRecovery, Sound, ImgFails
    <3> QED
      BY <3>1 DEF RecoveryDone, Finishing
  <2>2. CASE FillRecovery
    <3>1. disk' = [disk EXCEPT !["recovery"] = NewFile(tree["recovery"], TRUE)]
      BY <2>2 DEF FillRecovery, Sound, ImgFails
    <3> QED
      BY <1>5, <1>6, <3>1, DeliverMade
  <2>3. CASE SquashRecovery
    <3>1. /\ disk' = [disk EXCEPT !["recovery"] = NewFile(disk["recovery"].content \cup tree["recovery"], TRUE)]
          /\ pc = "createRecovery" /\ ImageFS = "squashfs"
      BY <2>3 DEF SquashRecovery, Sound, ImgFails
    <3>2. pc \in RecoveryOld /\ pc \notin Opening
      BY <1>4, <3>1 DEF RecoveryOld, RecoveryWork
    <3>3. disk["recovery"].content = {}
      BY <1>5, <1>6, <1>7, <3>1, <3>2 DEF Delivering, NoOldImage, DiskInv
    <3>4. disk["recovery"].content \cup tree["recovery"] = Carried
      BY <1>5, <3>3
    <3> QED
      BY <1>6, <3>1, <3>4, DeliverMade
  <2>4. CASE CleanRecovery
    <3>1. UNCHANGED disk /\ pc = "cleanRecovery"
      BY <2>4 DEF CleanRecovery
    <3>2. pc \in RecoveryDone
      BY <3>1 DEF RecoveryDone
    <3> QED
      BY <3>1, <3>2 DEF Delivering, ImageStage, Made
  <2> QED
    BY <2>1, <2>2, <2>3, <2>4
<1>12. ImageStage'
  <2>1. Made("active", spec.activeFS, spec.activeLabel, {runs})
    BY <1>4 DEF Delivering, ImageStage
  <2> QED
    BY <1>1, <1>4, <1>8, <1>11, <2>1 DEF ImageStage, Made, Carried
<1>13. RecordStage'
  <2>1. device = "grub" /\ grub = GrubLabels
    BY <1>4 DEF Delivering, RecordStage
  <2> QED
    BY <1>1, <1>4, <2>1 DEF RecordStage, GrubLabels
<1> QED
  BY <1>9, <1>10, <1>12, <1>13 DEF Delivering

\* The passive image is copied and the installation recorded.
LEMMA DeliverRecords ==
  ASSUME InstallTypeOK, LabelsInv, Delivering, Sound, Sound', CopyPassive \/ WriteInstallYaml
  PROVE  Delivering'
<1>1. UNCHANGED <<how, spec, runs, grub, device, tree>>
  BY Zenon DEF CopyPassive, CopyImage, WriteInstallYaml
<1>2. \/ pc = "passive" /\ pc' = "postInstall" /\ UNCHANGED yaml /\ CopyPassive
      \/ /\ pc = "installYaml" /\ pc' = "installRecoveryYaml" /\ UNCHANGED disk
         /\ yaml' = [yaml EXCEPT !["state"] = InstalledState]
      \/ /\ pc = "installRecoveryYaml" /\ pc' = "cleanup" /\ UNCHANGED disk
         /\ yaml' = [yaml EXCEPT !["recovery"] = InstalledState]
  BY Zenon DEF CopyPassive, CopyImage, WriteInstallYaml, WriteYaml, Sound
<1>3. pc \in Finishing /\ pc' \in PassiveDone /\ pc' \in Finishing /\ pc \notin Idle
  BY <1>2 DEF Finishing, PassiveDone, Idle
<1>4. /\ pc \in ActiveDone /\ pc \in RecoveryDone /\ pc \notin Opening \cup ActiveTree \cup RecoveryTree
      /\ pc' \notin Opening \cup ActiveTree \cup ActiveOld \cup RecoveryTree \cup RecoveryOld
  BY <1>3, RecoveryPlaces
<1>5. /\ Made("active", spec.activeFS, spec.activeLabel, {runs})
      /\ Made("recovery", spec.recoveryFS, spec.recoveryLabel, Carried)
  BY <1>4 DEF Delivering, ImageStage
<1>6. /\ disk'["active"] = disk["active"] /\ disk'["recovery"] = disk["recovery"]
      /\ disk'["passive"].fs = spec.activeFS /\ disk'["passive"].label = spec.passiveLabel
      /\ disk'["passive"].content = {runs} /\ disk'["passive"].ok
  <2>1. CASE CopyPassive
    <3>1. spec.passiveLabel \in Label /\ (spec.passiveLabel = "" => spec.activeLabel = "")
      BY <1>3, Components, Zenon DEF LabelsInv, UpgradeSpec
    <3>2. Made("active", spec.activeFS, IF spec.passiveLabel = "" THEN "" ELSE spec.activeLabel, {runs})
      BY <1>5, <3>1, Zenon
    <3>3. {"active", "recovery"} \subseteq Slot \ {"passive"}
      BY DEF Slot
    <3> QED
      BY <2>1, <3>1, <3>2, <3>3, DeliverCopy, Zenon DEF CopyPassive
  <2>2. CASE pc \in {"installYaml", "installRecoveryYaml"}
    <3>1. UNCHANGED disk /\ pc \in PassiveDone
      BY <1>2, <2>2 DEF PassiveDone, Finishing
    <3> QED
      BY <3>1 DEF Delivering, ImageStage, Made
  <2> QED
    BY <1>2, <2>1, <2>2
<1>7. SpecStage' /\ NoOldImage'
  BY <1>4 DEF SpecStage, NoOldImage
<1>8. TreeStage'
  BY <1>1, <1>4 DEF Delivering, TreeStage, NoTree
<1>9. ImageStage'
  BY <1>1, <1>5, <1>6 DEF ImageStage, Made, Carried
<1>10. RecordStage'
  <2>1. device = "grub" /\ grub = GrubLabels
    BY <1>4 DEF Delivering, RecordStage
  <2>2. InstalledState' = InstalledState /\ GrubLabels' = GrubLabels
    BY <1>1 DEF InstalledState, GrubLabels
  <2>3. yaml \in [ImgPart -> InstallState] /\ {"state", "recovery"} \subseteq ImgPart
    BY Components DEF ImgPart
  <2>4. pc' \in {"installRecoveryYaml", "cleanup"} => yaml'["state"] = InstalledState
    <3>1. CASE pc = "installRecoveryYaml"
      BY <1>2, <2>3, <3>1 DEF Delivering, RecordStage
    <3>2. CASE pc # "installRecoveryYaml"
      BY <1>2, <2>3, <3>2
    <3> QED
      BY <3>1, <3>2
  <2>5. pc' = "cleanup" => yaml'["recovery"] = InstalledState
    BY <1>2, <2>3
  <2>6. pc' # "power"
    BY <1>2
  <2> QED
    BY <1>1, <2>1, <2>2, <2>4, <2>5, <2>6 DEF RecordStage
<1> QED
  BY <1>7, <1>8, <1>9, <1>10 DEF Delivering

\* The jobs and the end of the cleanup keep what was delivered.
LEMMA DeliverCleanup ==
  ASSUME InstallTypeOK, SettledInv, Delivering, Sound, Sound',
         JobCleanActive \/ JobUmountInstalled \/ JobISO \/ (CleanupDone /\ UNCHANGED installVars)
  PROVE  Delivering'
<1>1. /\ UNCHANGED <<how, spec, runs, grub, device, yaml>>
      /\ pc = "cleanup" /\ pc' \in {"cleanup", "power"}
  BY DEF JobCleanActive, JobUmountInstalled, JobISO, CleanupDone, PopJob, Sound
<1>2. pc \in Finishing /\ pc' \in PassiveDone /\ pc' \in Finishing /\ pc \in PassiveDone
  BY <1>1 DEF Finishing, PassiveDone
<1>3. /\ pc \in ActiveDone /\ pc \in RecoveryDone /\ pc \notin Opening \cup ActiveTree \cup RecoveryTree
      /\ pc' \notin Opening \cup ActiveTree \cup ActiveOld \cup RecoveryTree \cup RecoveryOld
  BY <1>2, RecoveryPlaces
<1>4. \A s \in Slot : /\ disk'[s].fs = disk[s].fs /\ disk'[s].content = disk[s].content
                      /\ disk'[s].label = disk[s].label /\ disk'[s].ok = disk[s].ok
  <2>1. CASE JobUmountInstalled
    BY <2>1, WrittenBackKeeps DEF JobUmountInstalled
  <2>2. CASE ~JobUmountInstalled
    BY <2>2 DEF JobCleanActive, JobISO, CleanupDone
  <2> QED
    BY <2>1, <2>2
<1>5. tree = NoTree
  BY <1>3 DEF Delivering, TreeStage
<1>6. tree' = NoTree
  <2>1. CASE JobCleanActive
    <3>1. TreeCleaner("active") /\ ~TreeCleanerFailed
      BY <2>1, Zenon DEF JobCleanActive, Sound
    <3> QED
      BY <1>5, <3>1, CleanerEmpties, OnlyTrees DEF RemoveTree, Slot
  <2>2. CASE ~JobCleanActive
    BY <1>5, <2>2 DEF JobUmountInstalled, JobISO, CleanupDone
  <2> QED
    BY <2>1, <2>2
<1>7. SpecStage' /\ NoOldImage'
  BY <1>3 DEF SpecStage, NoOldImage
<1>8. TreeStage'
  BY <1>3, <1>6 DEF TreeStage, NoTree
<1>9. ImageStage'
  <2>1. {"active", "passive", "recovery"} \subseteq Slot
    BY DEF Slot
  <2> QED
    BY <1>1, <1>2, <1>3, <1>4, <2>1 DEF Delivering, ImageStage, Made, Carried
<1>10. RecordStage'
  <2>1. /\ device = "grub" /\ grub = GrubLabels
        /\ yaml["state"] = InstalledState /\ yaml["recovery"] = InstalledState
    BY <1>1, <1>3 DEF Delivering, RecordStage
  <2> QED
    BY <1>1, <2>1 DEF RecordStage, GrubLabels, InstalledState
<1> QED
  BY <1>7, <1>8, <1>9, <1>10 DEF Delivering

\* The errors of a run are not taken back, and it stays the run it is.
LEMMA SoundBefore ==
  ASSUME InstallTypeOK, InstallStep, pc' \notin Idle \cup {"exited"}, Sound'
  PROVE  Sound /\ pc \notin Idle \cup {"exited"} /\ start' = start
<1>1. CASE Working
  <2>1. pc \notin Idle \cup {"exited"} /\ UNCHANGED <<start, cleanErr>>
    BY <1>1, WorkingKeeps, WorkStages
  <2>2. err = "none"
    BY <1>1, ErrorsStay DEF Sound
  <2> QED
    BY <2>1, <2>2 DEF Sound
<1>2. CASE FetchISO \/ MountInstall
  BY <1>2 DEF FetchISO, MountInstall, Sound, Idle
<1>3. CASE JobCleanActive \/ JobUmountInstalled \/ JobISO
  <2>1. pc = "cleanup" /\ UNCHANGED <<err, start>>
    BY <1>3 DEF JobCleanActive, JobUmountInstalled, JobISO, PopJob
  <2>2. ~cleanErr
    BY <1>3 DEF JobCleanActive, JobUmountInstalled, JobISO, Sound
  <2> QED
    BY <2>1, <2>2 DEF Sound, Idle
<1>4. CASE CleanupDone
  BY <1>4 DEF CleanupDone, Sound, Idle
<1>5. CASE PowerAction
  BY <1>5 DEF PowerAction, PoweredOff, Idle
<1> QED
  BY <1>1, <1>2, <1>3, <1>4, <1>5 DEF InstallStep, Working

\* A fresh run begins with nothing in its way.
LEMMA DeliverBegins == ASSUME InstallTypeOK, CallInstall, start'.fresh PROVE Delivering'
<1>1. PICK o \in Options, sys \in SystemFS, rec \in RecoveryFS : StartInstall(o, sys, rec)
  BY DEF CallInstall
<1>2. /\ pc' \in {"fetchISO", "prepare"} /\ how' = o /\ UNCHANGED <<disk, tree>>
      /\ spec'.recovery = FALSE /\ spec'.activeFS = sys /\ spec'.recoveryFS = rec
  BY <1>1, Zenon DEF StartInstall
<1>3. /\ ~Meets(o, sys, "active")
      /\ (sys # rec \/ o.own) => ~Meets(o, rec, "recovery")
      /\ o.format \/ \A s \in Slot : tree[s] = {}
  BY <1>1, Zenon DEF StartInstall
<1>4. pc' \in Opening
  BY <1>2 DEF Opening
<1>5. /\ pc' \notin ActiveTree \cup RecoveryTree \cup Finishing \cup ActiveDone \cup RecoveryDone
      /\ pc' \notin PassiveDone \cup GrubDone \cup Labelled
      /\ pc' \notin {"installRecoveryYaml", "cleanup", "power", "fillActive"}
  BY <1>2, <1>4, InstallStagesDiffer
  DEF ActiveDone, RecoveryDone, PassiveDone, GrubDone, Labelled, RecoveryTree, RecoveryMade
<1>6. SpecStage'
  BY <1>2, <1>5 DEF SpecStage
<1>7. NoOldImage'
  BY <1>2, <1>3 DEF NoOldImage, Meets, CopiesActive, Opening
<1>8. TreeStage'
  <2>1. ~o.format => tree' = NoTree
    BY <1>2, <1>3, Components DEF NoTree
  <2> QED
    BY <1>2, <1>4, <1>5, <2>1 DEF TreeStage, NoTree
<1>9. ImageStage' /\ RecordStage'
  BY <1>5 DEF ImageStage, RecordStage
<1> QED
  BY <1>6, <1>7, <1>8, <1>9 DEF Delivering

\* Every step of a fresh run without error advances its delivery.
LEMMA DeliverInstallStep ==
  InstallTypeOK /\ DiskInv /\ LabelsInv /\ SettledInv /\ DeliverInstallInv /\ [LiveNext]_allVars
    => DeliverInstallInv'
<1> SUFFICES ASSUME InstallTypeOK, DiskInv, LabelsInv, SettledInv, DeliverInstallInv, [LiveNext]_allVars
             PROVE  DeliverInstallInv'
  OBVIOUS
<1>1. CASE UNCHANGED allVars
  <2>1. /\ CopiesActive' = CopiesActive /\ Carried' = Carried /\ GrubLabels' = GrubLabels
        /\ InstalledState' = InstalledState
    BY <1>1 DEF CopiesActive, Carried, GrubLabels, InstalledState, allVars, vars, runVars, installVars
  <2>2. /\ pc' = pc /\ disk' = disk /\ tree' = tree /\ spec' = spec /\ how' = how /\ yaml' = yaml
        /\ grub' = grub /\ device' = device /\ start' = start /\ runs' = runs
    BY <1>1 DEF allVars, vars, persistentVars, runVars, installVars
  <2>3. SpecStage => SpecStage'
    BY <2>1, <2>2 DEF SpecStage
  <2>4. NoOldImage => NoOldImage'
    BY <2>1, <2>2 DEF NoOldImage
  <2>5. TreeStage => TreeStage'
    BY <2>1, <2>2 DEF TreeStage
  <2>6. ImageStage => ImageStage'
    BY <2>1, <2>2 DEF ImageStage, Made
  <2>7. RecordStage => RecordStage'
    BY <2>1, <2>2 DEF RecordStage
  <2>8. Sound' => Sound
    BY <1>1 DEF Sound, allVars, vars, cmdVars
  <2> QED
    BY <2>2, <2>3, <2>4, <2>5, <2>6, <2>7, <2>8 DEF DeliverInstallInv, Delivering
<1>2. CASE pc' \in Idle \cup {"exited"} \/ ~Sound' \/ ~start'.fresh
  BY <1>2 DEF DeliverInstallInv
<1>3. CASE InstallStep /\ pc' \notin Idle \cup {"exited"} /\ Sound' /\ start'.fresh
  <2>1. Sound /\ pc \notin Idle \cup {"exited"} /\ start' = start
    BY <1>3, SoundBefore
  <2>2. Delivering
    BY <1>3, <2>1 DEF DeliverInstallInv
  <2>3. ~DumpInstallFailed
    BY <2>1 DEF SettledInv, DumpInstallFailed
  <2>4. ~PowerAction
    BY <1>3 DEF PowerAction, PoweredOff, Idle
  <2>5. Delivering'
    BY <1>3, <2>1, <2>2, <2>3, <2>4, DeliverHooks, DeliverOpening, DeployWork, DeliverActive,
       DeliverCopied, DeliverDumped, DeliverRecovery, DeliverRecords, DeliverCleanup
    DEF InstallStep
  <2> QED
    BY <2>5 DEF DeliverInstallInv
<1>4. CASE CallInstall
  BY <1>4, DeliverBegins DEF DeliverInstallInv
<1>5. BootLive \/ Reboot \/ PowerLoss => pc' \in Idle
  BY DEF BootLive, Reboot, PowerLoss, PoweredOff, Idle
<1> QED
  BY <1>1, <1>2, <1>3, <1>4, <1>5 DEF LiveNext

\* Images that differ in their content only.
LEMMA NewContent ==
  ASSUME NEW old \in Image, NEW new \in Image,
         new.fs = old.fs, new.label = old.label, new.ok = old.ok, new.dirty = old.dirty
  PROVE  new = [old EXCEPT !.content = new.content]
BY DEF Image

\* What has been reached when the run reports success.
LEMMA DeliverEnd ==
  ASSUME InstallTypeOK, DiskInv, LabelsInv, SettledInv, TidyInv, DeliverInstallInv
  PROVE  InstallDelivers
<1> SUFFICES ASSUME pc = "power", start.fresh
             PROVE  /\ disk = [InstalledDisk(spec.activeFS, spec.recoveryFS, {runs})
                                 EXCEPT !["recovery"].content = IF how.own THEN {0} ELSE {runs}]
                    /\ yaml = [p \in ImgPart |-> RecordedState(disk)]
                    /\ grub = [s \in SystemSlot |-> disk[s].label]
                    /\ tree = [s \in Slot |-> {}] /\ device = "grub"
  BY DEF InstallDelivers
<1>1. Sound /\ pc \notin Idle \cup {"exited"} /\ jobs = <<>>
  BY DEF TidyInv, Sound, Idle
<1>2. Delivering
  BY <1>1 DEF DeliverInstallInv
<1>3. pc \in Finishing /\ pc \in PassiveDone
  BY DEF Finishing, PassiveDone
<1>4. pc \in ActiveDone /\ pc \in RecoveryDone /\ pc \notin Opening \cup ActiveTree \cup RecoveryTree
  BY <1>3, RecoveryPlaces
<1>5. \A s \in Slot : ~disk[s].dirty
  <2>1. Len(jobs) = 0
    BY <1>1
  <2>2. ~Has("umountInstalled")
    BY <2>1 DEF Has
  <2> QED
    BY <1>1, <2>2 DEF SettledInv, Opening
<1>6. /\ Made("active", spec.activeFS, spec.activeLabel, {runs})
      /\ Made("recovery", spec.recoveryFS, spec.recoveryLabel, Carried)
      /\ Made("passive", spec.activeFS, spec.passiveLabel, {runs})
  BY <1>2, <1>3, <1>4 DEF Delivering, ImageStage
<1>7. tree = [s \in Slot |-> {}] /\ device = "grub" /\ grub = GrubLabels
      /\ yaml["state"] = InstalledState /\ yaml["recovery"] = InstalledState
  BY <1>2, <1>4 DEF Delivering, TreeStage, RecordStage, NoTree
<1>8. \A image \in Image : image.ok /\ ~image.dirty =>
        image = [fs |-> image.fs, content |-> image.content, label |-> image.label,
                 ok |-> TRUE, dirty |-> FALSE]
  BY DEF Image
<1>9. disk \in [Slot -> Image] /\ {"active", "passive", "recovery"} \subseteq Slot
  BY Components DEF Slot
<1>10. /\ disk["active"] = Installed(spec.activeFS, "COS_ACTIVE", {runs})
       /\ disk["passive"] = Installed(spec.activeFS, "COS_PASSIVE", {runs})
       /\ disk["recovery"] = Installed(spec.recoveryFS, "COS_SYSTEM", Carried)
  <2>1. /\ spec.activeLabel = IF spec.activeFS = "squashfs" THEN "" ELSE "COS_ACTIVE"
        /\ spec.passiveLabel = IF spec.activeFS = "squashfs" THEN "" ELSE "COS_PASSIVE"
        /\ spec.recoveryLabel = IF spec.recoveryFS = "squashfs" THEN "" ELSE "COS_SYSTEM"
    BY <1>1, Zenon DEF LabelsInv
  <2>2. \A s \in {"active", "passive", "recovery"} :
          disk[s] = [fs |-> disk[s].fs, content |-> disk[s].content, label |-> disk[s].label,
                     ok |-> TRUE, dirty |-> FALSE]
    BY <1>5, <1>6, <1>8, <1>9 DEF Made
  <2> QED
    BY <1>6, <2>1, <2>2, Zenon DEF Made, Installed
<1>11. disk = [InstalledDisk(spec.activeFS, spec.recoveryFS, {runs})
                 EXCEPT !["recovery"].content = IF how.own THEN {0} ELSE {runs}]
  <2> DEFINE made == InstalledDisk(spec.activeFS, spec.recoveryFS, {runs})
             image == [made["recovery"] EXCEPT !.content = Carried]
  <2>1. /\ made \in [Slot -> {made[s] : s \in Slot}]
        /\ made["active"] = disk["active"] /\ made["passive"] = disk["passive"]
        /\ made["recovery"] = Installed(spec.recoveryFS, "COS_SYSTEM", {runs})
        /\ made["transState"] = NoFile /\ made["transRecovery"] = NoFile
    BY <1>10 DEF InstalledDisk, Slot
  <2> HIDE DEF made
  <2>2. image = disk["recovery"]
    <3> DEFINE old == made["recovery"]
    <3>1. spec.recoveryFS \in {"ext2", "squashfs"} /\ {runs} \in SUBSET Version
      BY Components DEF UpgradeSpec, Version
    <3>2. old = Installed(spec.recoveryFS, "COS_SYSTEM", {runs})
      BY <2>1
    <3>3. old \in Image
      <4>1. Installed(spec.recoveryFS, "COS_SYSTEM", {runs}) \in Image
        BY <3>1 DEF Installed, Image, Label
      <4> QED
        BY <3>2, <4>1
    <3>4. /\ old.fs = spec.recoveryFS /\ old.ok = TRUE /\ old.dirty = FALSE
          /\ old.label = IF spec.recoveryFS = "squashfs" THEN "" ELSE "COS_SYSTEM"
      <4>1. /\ Installed(spec.recoveryFS, "COS_SYSTEM", {runs}).fs = spec.recoveryFS
            /\ Installed(spec.recoveryFS, "COS_SYSTEM", {runs}).ok = TRUE /\ Installed(spec.recoveryFS, "COS_SYSTEM", {runs}).dirty = FALSE
            /\ Installed(spec.recoveryFS, "COS_SYSTEM", {runs}).label = IF spec.recoveryFS = "squashfs" THEN "" ELSE "COS_SYSTEM"
            /\ Installed(spec.recoveryFS, "COS_SYSTEM", {runs}).content = {runs}
        BY DEF Installed
      <4> QED
        BY <3>2, <4>1, Zenon
    <3>5. /\ disk["recovery"].fs = spec.recoveryFS
          /\ disk["recovery"].ok = TRUE /\ disk["recovery"].dirty = FALSE
          /\ disk["recovery"].label = IF spec.recoveryFS = "squashfs" THEN "" ELSE "COS_SYSTEM"
          /\ disk["recovery"].content = Carried
      <4>1. /\ Installed(spec.recoveryFS, "COS_SYSTEM", Carried).fs = spec.recoveryFS
            /\ Installed(spec.recoveryFS, "COS_SYSTEM", Carried).ok = TRUE /\ Installed(spec.recoveryFS, "COS_SYSTEM", Carried).dirty = FALSE
            /\ Installed(spec.recoveryFS, "COS_SYSTEM", Carried).label = IF spec.recoveryFS = "squashfs" THEN "" ELSE "COS_SYSTEM"
            /\ Installed(spec.recoveryFS, "COS_SYSTEM", Carried).content = Carried
        BY DEF Installed
      <4> QED
        BY <1>10, <4>1, Zenon
    <3>6. disk["recovery"] \in Image
      BY <1>9
    <3> HIDE DEF old
    <3>7. disk["recovery"] = [old EXCEPT !.content = disk["recovery"].content]
      <4>1. /\ disk["recovery"].fs = old.fs /\ disk["recovery"].label = old.label
            /\ disk["recovery"].ok = old.ok /\ disk["recovery"].dirty = old.dirty
        BY <3>4, <3>5, Zenon
      <4> QED
        BY <3>3, <3>6, <4>1, NewContent
    <3> QED
      BY <3>5, <3>7, Zenon DEF old
  <2>3. \A s \in Slot : disk[s] = [made EXCEPT !["recovery"] = image][s]
    BY <1>9, <2>1, <2>2 DEF DiskInv, Slot
  <2>4. DOMAIN made = Slot
    BY <2>1
  <2>5. disk = [made EXCEPT !["recovery"] = image]
    BY <1>9, <2>3, <2>4
  <2> QED
    BY <2>5 DEF Carried, made
<1>12. RecordedState(disk) = InstalledState
  <2>1. Recorded(disk["active"]) =
          [src |-> {runs}, fs |-> spec.activeFS, label |-> spec.activeLabel]
    BY <1>6 DEF Recorded, Made
  <2>2. Recorded(disk["recovery"]) =
          [src |-> Carried, fs |-> spec.recoveryFS, label |-> spec.recoveryLabel]
    BY <1>6 DEF Recorded, Made
  <2>3. [Recorded(disk["passive"]) EXCEPT !.fs = "ext2"] =
          [src |-> {runs}, fs |-> "ext2", label |-> spec.passiveLabel]
    BY <1>6 DEF Recorded, Made
  <2> QED
    BY <2>1, <2>2, <2>3 DEF RecordedState, InstalledState, Carried
<1>13. yaml = [p \in ImgPart |-> RecordedState(disk)]
  BY <1>7, <1>12, Components DEF ImgPart
<1>14. grub = [s \in SystemSlot |-> disk[s].label]
  BY <1>6, <1>7 DEF GrubLabels, Made, SystemSlot
<1> QED
  BY <1>7, <1>11, <1>13, <1>14

\* When an installation reports success it leaves exactly the machine that upgrades start
\* from: three complete images of the requested sources and file systems on the disk, the
\* records and labels that describe them, no scratch tree and the boot loader (install.go).
THEOREM InstallDeliversAll == LiveSpec => []InstallDelivers
<1>1. LiveInit => DiskInv
  <2>1. NoFile.content = {}
    BY DEF NoFile
  <2>2. ASSUME NEW sys \in SystemFS, NEW rec \in RecoveryFS, disk = InstalledDisk(sys, rec, {0})
        PROVE  DiskInv
    BY <2>1, <2>2, UpgradeAssumption, Zenon DEF InstalledDisk, Installed, DiskInv, Slot
  <2>3. disk = [s \in Slot |-> NoFile] => DiskInv
    BY <2>1 DEF DiskInv, Slot
  <2> QED
    BY <2>2, <2>3, Zenon DEF LiveInit
<1>2. LiveInit => TidyInv /\ LabelsInv /\ SettledInv /\ DeliverInstallInv
  BY Zenon DEF LiveInit, TidyInv, LabelsInv, SettledInv, DeliverInstallInv, Idle
<1>3. InstallTypeOK /\ DiskInv /\ LabelsInv /\ SettledInv /\ TidyInv /\ DeliverInstallInv => InstallDelivers
  BY DeliverEnd
<1> QED
  BY <1>1, <1>2, <1>3, LiveTypes, LiveTypeStep, TidyStep, DiskStep, LabelsStep, SettledStep,
     DeliverInstallStep, PTL DEF LiveSpec
-----------------------------------------------------------------------------
(* What an installation over a bootable system costs.                      *)

\* The GRUB environment and the images have no labels but those of their slots.
NamesInv ==
  /\ \A s \in SystemSlot : grub[s] \in {"", DefaultLabels[s]}
  /\ \A s \in SystemSlot : disk[s].fs = "ext2" => disk[s].label # ""

\* Which image a run works on, and the stages that a run with an error does not reach.
StagesInv ==
  /\ SpecStage
  /\ pc \in InstallStage \ {"cleanActive", "cleanRecovery"} => err = "none"

\* The image is one that the run would make and that the GRUB environment finds.
RequestedFS(s) == IF s = "recovery" THEN spec.recoveryFS ELSE spec.activeFS
Fit(s) == /\ disk[s].ok /\ disk[s].fs = RequestedFS(s)
          /\ disk[s].fs = "ext2" => disk[s].label = DefaultLabels[s]

\* Images are replaced one by one: while one is written, the others are fit.
ImageReplaced == IF pc = "fillActive" THEN {"active"} ELSE IF pc = "fillRecovery" THEN {"recovery"} ELSE {}
OneLost  == \E s \in SystemSlot : \A t \in SystemSlot \ {s} : Fit(t)
BootInv ==
  pc \notin Idle /\ start.trusted =>
    /\ ~how.format
    /\ \A s \in SystemSlot : RequestedFS(s) = "ext2" => grub[s] = DefaultLabels[s]
    /\ pc \in InstallStage /\ err = "none" => \A s \in SystemSlot \ ImageReplaced : Fit(s)
    /\ OneLost

\* Who changes the GRUB environment.
LEMMA KeepsGrub ==
  [LiveNext]_allVars => grub' = grub \/ SetInstallVariables \/ FormatDevice
<1>1. FetchISO \/ KeepPartitions \/ MountInstall \/ BeforeInstall \/ DeployActive \/ DumpActive
      \/ DumpActiveLeaks \/ DumpInstallFailed \/ CopyCloudConfig \/ InstallGrub \/ RelabelInstall
      \/ ChrootInstall => grub' = grub
  BY DEF FetchISO, KeepPartitions, MountInstall, BeforeInstall, DeployActive, DumpActive,
         DumpActiveLeaks, DumpLeaks, DumpInstallFailed, CopyCloudConfig, InstallGrub, RelabelInstall,
         ChrootInstall, Chrooted, RunHook
<1>2. AfterInstall \/ InstallEntry \/ MakesImage \/ CleanActive \/ CopyRecovery \/ DeployRecovery
      \/ DumpRecovery \/ DumpRecoveryLeaks \/ CleanRecovery \/ CopyPassive => grub' = grub
  BY Zenon DEF AfterInstall, InstallEntry, MakesImage, CreateActive, FillActive, SquashActive, CleanActive,
         CopyRecovery, CopyPassive, CopyImage, DeployRecovery, DumpRecovery, DumpRecoveryLeaks,
         DumpLeaks, CreateRecovery, FillRecovery, SquashRecovery, CleanRecovery, RunHook
<1>3. PostInstall \/ WriteInstallYaml \/ JobCleanActive \/ JobUmountInstalled \/ JobISO
      \/ CleanupDone \/ PowerAction \/ BootLive \/ Reboot \/ PowerLoss => grub' = grub
  BY DEF PostInstall, RunHook, WriteInstallYaml, WriteYaml, JobCleanActive, JobUmountInstalled, JobISO,
         CleanupDone, PowerAction, PoweredOff, BootLive, Reboot, PowerLoss
<1>4. ASSUME CallInstall PROVE grub' = grub
  <2>1. PICK o \in Options, sys \in SystemFS, rec \in RecoveryFS : StartInstall(o, sys, rec)
    BY <1>4 DEF CallInstall
  <2> QED
    BY <2>1, Zenon DEF StartInstall
<1>5. UNCHANGED allVars => grub' = grub
  OBVIOUS
<1> QED
  BY <1>1, <1>2, <1>3, <1>4, <1>5 DEF LiveNext, InstallStep, MakesImage

\* The labels of a specification.
LEMMA SpecLabels ==
  ASSUME LabelsInv, pc \notin Idle, NEW s \in SystemSlot
  PROVE  GrubLabels[s] = IF RequestedFS(s) = "squashfs" THEN "" ELSE DefaultLabels[s]
<1>1. CASE s = "active"
  BY <1>1, Zenon DEF LabelsInv, GrubLabels, RequestedFS, DefaultLabels
<1>2. CASE s = "passive"
  BY <1>2, Zenon DEF LabelsInv, GrubLabels, RequestedFS, DefaultLabels
<1>3. CASE s = "recovery"
  BY <1>3, Zenon DEF LabelsInv, GrubLabels, RequestedFS, DefaultLabels
<1> QED
  BY <1>1, <1>2, <1>3, Zenon DEF SystemSlot

\* An image that is made has its label.
LEMMA MadeNames ==
  ASSUME InstallTypeOK, LabelsInv, MakesImage
  PROVE  disk' = disk \/ \E slot \in {"active", "recovery"} : \E image :
           disk' = [disk EXCEPT ![slot] = image] /\ (image.fs = "ext2" => image.label # "")
<1>1. pc \notin Idle
  BY DEF MakesImage, CreateActive, FillActive, SquashActive, CreateRecovery, FillRecovery,
         SquashRecovery, Idle
<1>2. ImageFS = "ext2" => ImageLabel # ""
  BY <1>1, Zenon DEF LabelsInv, ImageFS, ImageLabel
<1>3. /\ NoFile.fs = "none"
      /\ \A content, ok : NewFile(content, ok).fs = ImageFS /\ NewFile(content, ok).label = ImageLabel
  BY DEF NoFile, NewFile
<1>4. disk' = disk \/ \E slot \in {"active", "recovery"} :
        \/ disk' = [disk EXCEPT ![slot] = NoFile]
        \/ \E content, ok : disk' = [disk EXCEPT ![slot] = NewFile(content, ok)]
  BY DEF MakesImage, CreateActive, FillActive, SquashActive, CreateRecovery, FillRecovery, SquashRecovery
<1>5. ASSUME NEW slot, disk' = [disk EXCEPT ![slot] = NoFile]
      PROVE  \E image : disk' = [disk EXCEPT ![slot] = image] /\ (image.fs = "ext2" => image.label # "")
  BY <1>3, <1>5, Zenon
<1>6. ASSUME NEW slot, NEW content, NEW ok, disk' = [disk EXCEPT ![slot] = NewFile(content, ok)]
      PROVE  \E image : disk' = [disk EXCEPT ![slot] = image] /\ (image.fs = "ext2" => image.label # "")
  BY <1>2, <1>3, <1>6, Zenon
<1>7. CASE disk' = disk
  BY <1>7
<1>8. CASE disk' # disk
  <2>1. PICK slot \in {"active", "recovery"} :
          \/ disk' = [disk EXCEPT ![slot] = NoFile]
          \/ \E content, ok : disk' = [disk EXCEPT ![slot] = NewFile(content, ok)]
    BY <1>4, <1>8
  <2>2. \E image : disk' = [disk EXCEPT ![slot] = image] /\ (image.fs = "ext2" => image.label # "")
    <3>1. CASE disk' = [disk EXCEPT ![slot] = NoFile]
      BY <1>5, <3>1, Zenon
    <3>2. CASE \E content, ok : disk' = [disk EXCEPT ![slot] = NewFile(content, ok)]
      <4>1. PICK content, ok : disk' = [disk EXCEPT ![slot] = NewFile(content, ok)]
        BY <3>2
      <4> QED
        BY <1>6, <4>1, Zenon
    <3> QED
      BY <2>1, <3>1, <3>2, Zenon
  <2> QED
    BY <2>2, Zenon
<1> QED
  BY <1>7, <1>8, Zenon

\* A copy of the active image, whole or not, has a label.
LEMMA CopyNames ==
  ASSUME InstallTypeOK, NamesInv, CopyRecovery \/ CopyPassive
  PROVE  disk' = disk \/ \E slot \in {"passive", "recovery"} : \E image :
           disk' = [disk EXCEPT ![slot] = image] /\ (image.fs = "ext2" => image.label # "")
<1> DEFINE copy == [disk["active"] EXCEPT !.dirty = TRUE]
<1>1. disk["active"] \in Image /\ (disk["active"].fs = "ext2" => disk["active"].label # "")
  BY Components, Zenon DEF Slot, NamesInv, SystemSlot
<1>2. /\ copy.fs = disk["active"].fs /\ copy.label = disk["active"].label
      /\ [copy EXCEPT !.ok = FALSE].fs = disk["active"].fs
      /\ [copy EXCEPT !.ok = FALSE].label = disk["active"].label
      /\ \A label : [copy EXCEPT !.label = label].label = label
  BY <1>1, Zenon DEF Image
<1>3. disk' = disk \/ \E slot \in {"passive", "recovery"} :
        \/ disk' = [disk EXCEPT ![slot] = copy]
        \/ disk' = [disk EXCEPT ![slot] = [copy EXCEPT !.ok = FALSE]]
        \/ \E label : label # "" /\ disk' = [disk EXCEPT ![slot] = [copy EXCEPT !.label = label]]
  BY Zenon DEF CopyRecovery, CopyPassive, CopyImage
<1> HIDE DEF copy
<1>4. CASE disk' = disk
  BY <1>4
<1>5. CASE disk' # disk
  <2>1. PICK slot \in {"passive", "recovery"} :
          \/ disk' = [disk EXCEPT ![slot] = copy]
          \/ disk' = [disk EXCEPT ![slot] = [copy EXCEPT !.ok = FALSE]]
          \/ \E label : label # "" /\ disk' = [disk EXCEPT ![slot] = [copy EXCEPT !.label = label]]
    BY <1>3, <1>5, Zenon
  <2>2. CASE disk' = [disk EXCEPT ![slot] = copy]
    BY <1>1, <1>2, <2>2, Zenon
  <2>3. CASE disk' = [disk EXCEPT ![slot] = [copy EXCEPT !.ok = FALSE]]
    BY <1>1, <1>2, <2>3, Zenon
  <2>4. CASE \E label : label # "" /\ disk' = [disk EXCEPT ![slot] = [copy EXCEPT !.label = label]]
    <3>1. PICK label : label # "" /\ disk' = [disk EXCEPT ![slot] = [copy EXCEPT !.label = label]]
      BY <2>4, Zenon
    <3>2. [copy EXCEPT !.label = label].label # ""
      BY <1>2, <3>1, Zenon
    <3> QED
      BY <3>1, <3>2, Zenon
  <2> QED
    BY <2>1, <2>2, <2>3, <2>4, Zenon
<1> QED
  BY <1>4, <1>5, Zenon

\* No step gives the GRUB environment or an image a label that is not its own.
LEMMA NamesStep == InstallTypeOK /\ LabelsInv /\ NamesInv /\ [LiveNext]_allVars => NamesInv'
<1> SUFFICES ASSUME InstallTypeOK, LabelsInv, NamesInv, [LiveNext]_allVars PROVE NamesInv'
  OBVIOUS
<1>1. \A s \in SystemSlot : grub'[s] \in {"", DefaultLabels[s]}
  <2>1. CASE grub' = grub
    BY <2>1, Zenon DEF NamesInv
  <2>2. CASE FormatDevice
    <3>1. grub' = grub \/ grub' = DefaultLabels
      BY <2>2 DEF FormatDevice, DeviceWiped
    <3> QED
      BY <2>1, <3>1, Zenon
  <2>3. CASE SetInstallVariables
    <3>1. pc \notin Idle
      BY <2>3 DEF SetInstallVariables, Idle
    <3>2. \A s \in SystemSlot : grub'[s] = GrubLabels[s] \/ grub'[s] = grub[s]
      BY <2>3 DEF SetInstallVariables
    <3> QED
      BY <3>1, <3>2, SpecLabels, Zenon DEF NamesInv
  <2> QED
    BY <2>1, <2>2, <2>3, KeepsGrub, Zenon
<1>2. \A s \in SystemSlot : disk'[s].fs = "ext2" => disk'[s].label # ""
  <2>1. CASE disk' = disk
    BY <2>1, Zenon DEF NamesInv
  <2>2. ASSUME NEW slot \in SystemSlot, NEW image,
               disk' = [disk EXCEPT ![slot] = image] /\ (image.fs = "ext2" => image.label # "")
        PROVE  \A s \in SystemSlot : disk'[s].fs = "ext2" => disk'[s].label # ""
    <3>1. \A s \in SystemSlot : disk'[s] = disk[s] \/ disk'[s] = image
      BY <2>2, Components, Zenon DEF SystemSlot, Slot
    <3> QED
      BY <2>2, <3>1, Zenon DEF NamesInv
  <2>3. CASE MakesImage
    BY <2>1, <2>2, <2>3, MadeNames, Zenon DEF SystemSlot
  <2>4. CASE CopyRecovery \/ CopyPassive
    BY <2>1, <2>2, <2>4, CopyNames, Zenon DEF SystemSlot
  <2>5. CASE FormatDevice
    <3>1. disk' = disk \/ disk' = [s \in Slot |-> NoFile]
      BY <2>5 DEF FormatDevice, DeviceWiped
    <3>2. NoFile.fs = "none" /\ SystemSlot \subseteq Slot
      BY DEF NoFile, SystemSlot, Slot
    <3> QED
      BY <2>1, <3>1, <3>2, Zenon
  <2>6. CASE MountInstall \/ JobUmountInstalled
    <3>1. disk' = disk \/ \E gone : disk' = WrittenBack(gone)
      BY <2>6 DEF MountInstall, JobUmountInstalled
    <3> QED
      BY <2>1, <3>1, WrittenBackKeeps, Zenon DEF NamesInv, SystemSlot, Slot
  <2>7. CASE PowerAction \/ Reboot \/ PowerLoss
    BY <2>7, OffDisk, Zenon DEF NamesInv, SystemSlot, Slot
  <2> QED
    BY <2>1, <2>3, <2>4, <2>5, <2>6, <2>7, KeepsDisk, Zenon
<1> QED
  BY <1>1, <1>2, Zenon DEF NamesInv

\* The stages up to the recovery image, and those that a run with an error does not reach.
BeforeRecovery == Opening \cup Preparing \cup ActiveTree \cup {"recovery"}
Steady         == InstallStage \ {"cleanActive", "cleanRecovery"}

\* Stages come in their order, and an error ends the work.
LEMMA StagesGo ==
  ASSUME Working \/ FetchISO \/ MountInstall
  PROVE  /\ pc' \in BeforeRecovery => pc \in BeforeRecovery
         /\ pc' \in RecoveryTree => pc \in RecoveryTree \/ DeployRecovery
         /\ pc' \in Steady => err' = err /\ (pc \in Steady \/ err = "none")
<1> DEFINE Goes == /\ pc' \in BeforeRecovery => pc \in BeforeRecovery
                   /\ pc' \in RecoveryTree => pc \in RecoveryTree \/ DeployRecovery
                   /\ pc' \in Steady => err' = err /\ (pc \in Steady \/ err = "none")
<1> USE DEF BeforeRecovery, RecoveryTree, Steady, InstallStage, Opening, Preparing, ActiveTree,
            ActiveWork, ActiveMade, RecoveryWork, RecoveryMade
<1>1. FetchISO \/ FormatDevice \/ KeepPartitions \/ MountInstall => Goes
  BY DEF FetchISO, FormatDevice, KeepPartitions, MountInstall
<1>2. BeforeInstall \/ DeployActive \/ DumpActive \/ DumpActiveLeaks => Goes
  BY DEF BeforeInstall, DeployActive, DumpActive, DumpActiveLeaks, DumpLeaks, RunHook
<1>3. CopyCloudConfig \/ InstallGrub \/ RelabelInstall \/ ChrootInstall
      \/ AfterInstall \/ SetInstallVariables \/ InstallEntry => Goes
  BY DEF CopyCloudConfig, InstallGrub, RelabelInstall, ChrootInstall, AfterInstall,
         SetInstallVariables, InstallEntry, Chrooted, ChrootedCallback, RunHook
<1>4. CreateActive \/ FillActive \/ SquashActive => Goes
  BY DEF CreateActive, FillActive, SquashActive, ImgFails
<1>5. CreateRecovery \/ FillRecovery \/ SquashRecovery => Goes
  BY DEF CreateRecovery, FillRecovery, SquashRecovery, ImgFails
<1>6. CopyRecovery \/ CopyPassive \/ PostInstall \/ WriteInstallYaml => Goes
  BY Zenon DEF CopyRecovery, CopyPassive, CopyImage, PostInstall, RunHook, WriteInstallYaml, WriteYaml
<1>7. DeployRecovery \/ DumpRecovery \/ DumpRecoveryLeaks => Goes
  BY DEF DeployRecovery, DumpRecovery, DumpRecoveryLeaks, DumpLeaks
<1>8. CleanActive \/ CleanRecovery \/ DumpInstallFailed => Goes
  <2>1. CleanActive => pc = "cleanActive" /\ (pc' = "cleanup" \/ (pc' = "recovery" /\ err' = err /\ err = "none"))
    BY DEF CleanActive
  <2>2. CleanRecovery => pc = "cleanRecovery" /\ (pc' = "cleanup" \/ (pc' = "passive" /\ err' = err /\ err = "none"))
    BY DEF CleanRecovery
  <2>3. DumpInstallFailed => pc' = "cleanup"
    BY DEF DumpInstallFailed
  <2> QED
    BY <2>1, <2>2, <2>3
<1> HIDE DEF Goes
<1>9. Goes
  BY <1>1, <1>2, <1>3, <1>4, <1>5, <1>6, <1>7, <1>8 DEF Working
<1> QED
  BY <1>9 DEF Goes

\* Nothing but the error path is left of a run whose dump failed.
LEMMA DumpFailedEnds == Working /\ pc = "dumpFailed" => pc' = "cleanup"
<1> SUFFICES ASSUME Working, pc = "dumpFailed" PROVE DumpInstallFailed
  BY DEF DumpInstallFailed
<1>1. ~(FormatDevice \/ KeepPartitions \/ BeforeInstall \/ DeployActive \/ DumpActive \/ DumpActiveLeaks
        \/ CopyCloudConfig \/ InstallGrub \/ RelabelInstall \/ ChrootInstall \/ AfterInstall)
  BY DEF FormatDevice, KeepPartitions, BeforeInstall, DeployActive, DumpActive, DumpActiveLeaks,
         DumpLeaks, CopyCloudConfig, InstallGrub, RelabelInstall, ChrootInstall, Chrooted, AfterInstall,
         RunHook
<1>2. ~(SetInstallVariables \/ InstallEntry \/ CreateActive \/ FillActive \/ SquashActive \/ CleanActive
        \/ CopyRecovery \/ DeployRecovery \/ DumpRecovery \/ DumpRecoveryLeaks)
  BY DEF SetInstallVariables, InstallEntry, CreateActive, FillActive, SquashActive, CleanActive,
         CopyRecovery, CopyImage, DeployRecovery, DumpRecovery, DumpRecoveryLeaks, DumpLeaks, RunHook
<1>3. ~(CreateRecovery \/ FillRecovery \/ SquashRecovery \/ CleanRecovery \/ CopyPassive
        \/ PostInstall \/ WriteInstallYaml)
  BY DEF CreateRecovery, FillRecovery, SquashRecovery, CleanRecovery, CopyPassive, CopyImage,
         PostInstall, RunHook, WriteInstallYaml
<1> QED
  BY <1>1, <1>2, <1>3 DEF Working

\* The stages of SpecStage.
LEMMA SpecStages ==
  /\ RecoveryOld \ RecoveryWork = BeforeRecovery
  /\ BeforeRecovery \cup RecoveryTree \subseteq InstallStage
BY InstallStagesDiffer
DEF BeforeRecovery, RecoveryOld, InstallStage, Opening, Preparing, ActiveTree, ActiveWork, ActiveMade,
    RecoveryTree, RecoveryWork, RecoveryMade

LEMMA StagesStep == InstallTypeOK /\ StagesInv /\ [LiveNext]_allVars => StagesInv'
<1> SUFFICES ASSUME InstallTypeOK, StagesInv, [LiveNext]_allVars PROVE StagesInv'
  OBVIOUS
<1>1. SpecStage <=> /\ pc \in BeforeRecovery => ~spec.recovery
                    /\ pc \in RecoveryTree => spec.recovery /\ ~CopiesActive
  BY SpecStages DEF SpecStage
<1>2. SpecStage' <=> /\ pc' \in BeforeRecovery => ~spec'.recovery
                     /\ pc' \in RecoveryTree => spec'.recovery /\ ~CopiesActive'
  BY SpecStages DEF SpecStage
<1>3. CASE UNCHANGED allVars
  BY <1>1, <1>2, <1>3 DEF StagesInv, CopiesActive
<1>4. CASE Working \/ FetchISO \/ MountInstall
  <2>1. UNCHANGED how /\ (spec' = spec \/ (DeployRecovery /\ spec' = [spec EXCEPT !.recovery = TRUE]))
    BY <1>4, SpecKept DEF InstallStep, Working
  <2>2. CASE DeployRecovery
    <3>1. ~CopiesActive /\ UNCHANGED how
          /\ \/ pc' = "dumpRecovery" /\ spec' = [spec EXCEPT !.recovery = TRUE]
             \/ pc' = "cleanup"
      BY <2>2, <2>1 DEF DeployRecovery
    <3>2. \A rec \in UpgradeSpec :
            /\ [rec EXCEPT !.recovery = TRUE].recovery
            /\ [rec EXCEPT !.recovery = TRUE].activeFS = rec.activeFS
            /\ [rec EXCEPT !.recovery = TRUE].recoveryFS = rec.recoveryFS
      BY DEF UpgradeSpec
    <3>3. pc' = "dumpRecovery" => spec'.recovery /\ ~CopiesActive'
      BY <3>1, <3>2, Components DEF CopiesActive
    <3>4. /\ pc' \in {"dumpRecovery", "cleanup"} /\ pc' \notin BeforeRecovery
          /\ "cleanup" \notin RecoveryTree \cup InstallStage
      BY <3>1 DEF BeforeRecovery, RecoveryTree, Opening, Preparing, ActiveTree, ActiveWork, ActiveMade,
                  RecoveryWork, RecoveryMade, InstallStage
    <3>5. SpecStage'
      BY <1>2, <3>3, <3>4
    <3>6. pc' = "dumpRecovery" => err' = err /\ pc = "recovery"
      BY <2>2 DEF DeployRecovery
    <3> QED
      BY <3>4, <3>5, <3>6 DEF StagesInv, InstallStage
  <2>3. CASE ~DeployRecovery
    <3>1. spec' = spec /\ CopiesActive' = CopiesActive
      BY <2>1, <2>3 DEF CopiesActive
    <3> QED
      BY <1>1, <1>2, <1>4, <2>3, <3>1, StagesGo DEF StagesInv, Steady
  <2> QED
    BY <2>2, <2>3
<1>5. CASE JobCleanActive \/ JobUmountInstalled \/ JobISO \/ CleanupDone \/ PowerAction \/ BootLive
           \/ Reboot \/ PowerLoss
  <2>1. pc' \in {"cleanup", "power", "exited", "off", "ready"}
    BY <1>5 DEF JobCleanActive, JobUmountInstalled, JobISO, PopJob, CleanupDone, PowerAction, BootLive,
                Reboot, PowerLoss, PoweredOff
  <2>2. pc' \notin BeforeRecovery \cup RecoveryTree \cup InstallStage
    BY <2>1 DEF BeforeRecovery, RecoveryTree, Opening, Preparing, ActiveTree, ActiveWork, ActiveMade,
                RecoveryWork, RecoveryMade, InstallStage
  <2>3. SpecStage'
    BY <1>2, <2>2
  <2> QED
    BY <2>2, <2>3 DEF StagesInv
<1>6. CASE CallInstall
  <2>1. ~spec'.recovery /\ err' = "none" /\ pc' \in Opening
    <3>1. PICK o \in Options, sys \in SystemFS, rec \in RecoveryFS : StartInstall(o, sys, rec)
      BY <1>6 DEF CallInstall
    <3>2. pc' \in Opening
      BY <3>1, Zenon DEF StartInstall, Opening
    <3> QED
      BY <3>1, <3>2, Zenon DEF StartInstall
  <2>2. pc' \notin RecoveryTree
    BY <2>1 DEF Opening, RecoveryTree, RecoveryWork, RecoveryMade
  <2> QED
    BY <1>2, <2>1, <2>2 DEF StagesInv
<1> QED
  BY <1>3, <1>4, <1>5, <1>6 DEF LiveNext, InstallStep, Working

\* A run that writes one image, the others being fit, loses at most that one.
LEMMA OneWritten ==
  ASSUME NEW slot \in SystemSlot, \A s \in SystemSlot \ {slot} : Fit(s) /\ disk'[s] = disk[s],
         UNCHANGED spec
  PROVE  OneLost' /\ \A s \in SystemSlot \ {slot} : Fit(s)'
<1>1. \A s \in SystemSlot \ {slot} : Fit(s)'
  BY DEF Fit, RequestedFS
<1> QED
  BY <1>1 DEF OneLost

\* Images that are written back remain as fit as they were.
LEMMA FitStays ==
  ASSUME BootInv, pc \notin Idle, start.trusted, UNCHANGED <<how, start, grub>>,
         \A s \in SystemSlot : RequestedFS(s)' = RequestedFS(s),
         \A s \in SystemSlot : /\ disk'[s].fs = disk[s].fs /\ disk'[s].label = disk[s].label
                               /\ disk'[s].ok = disk[s].ok,
         pc' \in InstallStage /\ err' = "none" =>
           pc \in InstallStage /\ err = "none" /\ ImageReplaced = {}
  PROVE  BootInv'
<1>1. \A s \in SystemSlot : Fit(s) => Fit(s)'
  BY DEF Fit
<1>2. OneLost'
  BY <1>1 DEF BootInv, OneLost
<1>3. pc' \in InstallStage /\ err' = "none" => \A s \in SystemSlot : Fit(s)'
  BY <1>1 DEF BootInv
<1>4. \A s \in SystemSlot : RequestedFS(s)' = "ext2" => grub'[s] = DefaultLabels[s]
  BY DEF BootInv
<1>5. ~how'.format
  BY DEF BootInv
<1> HIDE DEF Fit
<1> QED
  BY <1>2, <1>3, <1>4, <1>5 DEF BootInv

\* While an image is made from a tree the other two are fit, and it is when it is made.
LEMMA BootMade ==
  ASSUME InstallTypeOK, LabelsInv, StagesInv, BootInv, pc \notin Idle, start.trusted, MakesImage
  PROVE  BootInv'
<1>1. UNCHANGED <<how, start, spec, grub>>
  BY DEF MakesImage, CreateActive, FillActive, SquashActive, CreateRecovery, FillRecovery, SquashRecovery
<1>2. ASSUME NEW slot \in {"active", "recovery"},
             pc \in Steady, ImageReplaced \subseteq {slot},
             \A s \in SystemSlot \ {slot} : disk'[s] = disk[s],
             \/ ImageReplaced' = {slot} \/ err' # "none"
             \/ \E content : disk' = [disk EXCEPT ![slot] = NewFile(content, TRUE)],
             ImageFS = RequestedFS(slot), ImageLabel = GrubLabels[slot]
      PROVE  BootInv'
  <2>1. pc \in InstallStage /\ err = "none" /\ slot \in SystemSlot
    BY <1>2 DEF StagesInv, Steady, SystemSlot
  <2>2. \A s \in SystemSlot \ {slot} : Fit(s)
    BY <1>2, <2>1 DEF BootInv
  <2>3. OneLost' /\ \A s \in SystemSlot \ {slot} : Fit(s)'
    BY <1>1, <1>2, <2>1, <2>2, OneWritten
  <2>4. ASSUME NEW content, disk' = [disk EXCEPT ![slot] = NewFile(content, TRUE)] PROVE Fit(slot)'
    <3>1. disk'[slot] = NewFile(content, TRUE)
      BY <2>4, Components DEF Slot
    <3>2. /\ NewFile(content, TRUE).ok /\ NewFile(content, TRUE).fs = RequestedFS(slot)
          /\ NewFile(content, TRUE).label = GrubLabels[slot]
      BY <1>2 DEF NewFile
    <3>3. RequestedFS(slot) = "ext2" => GrubLabels[slot] = DefaultLabels[slot]
      BY <2>1, SpecLabels, Zenon
    <3>4. RequestedFS(slot)' = RequestedFS(slot)
      BY <1>1 DEF RequestedFS
    <3> QED
      BY <3>1, <3>2, <3>3, <3>4 DEF Fit
  <2>5. pc' \in InstallStage /\ err' = "none" => \A s \in SystemSlot \ ImageReplaced' : Fit(s)'
    BY <1>2, <2>3, <2>4
  <2>6. \A s \in SystemSlot : RequestedFS(s)' = "ext2" => grub'[s] = DefaultLabels[s]
    BY <1>1 DEF BootInv, RequestedFS
  <2>7. ~how'.format
    BY <1>1 DEF BootInv
  <2> HIDE DEF Fit
  <2> QED
    BY <2>3, <2>5, <2>6, <2>7 DEF BootInv
<1>3. disk \in [Slot -> Image] /\ SystemSlot \subseteq Slot
  BY Components DEF SystemSlot, Slot
<1>4. CASE CreateActive \/ FillActive \/ SquashActive
  <2>1. /\ pc \in {"createActive", "fillActive"}
        /\ \/ pc' = "fillActive"
           \/ /\ pc' = "cleanActive"
              /\ err' # "none" \/ \E content : disk' = [disk EXCEPT !["active"] = NewFile(content, TRUE)]
    BY <1>4 DEF CreateActive, FillActive, SquashActive, ImgFails
  <2>2. \A s \in SystemSlot \ {"active"} : disk'[s] = disk[s]
    BY <1>3, <1>4 DEF CreateActive, FillActive, SquashActive
  <2>3. ~spec.recovery
    BY <2>1, SpecStages DEF StagesInv, SpecStage, BeforeRecovery, ActiveTree, ActiveWork, ActiveMade
  <2>4. ImageFS = RequestedFS("active") /\ ImageLabel = GrubLabels["active"]
    BY <2>3 DEF ImageFS, ImageLabel, RequestedFS, GrubLabels, SystemSlot
  <2>5. pc \in Steady /\ ImageReplaced \subseteq {"active"}
    BY <2>1 DEF Steady, InstallStage, ImageReplaced
  <2>6. \/ ImageReplaced' = {"active"} \/ err' # "none"
        \/ \E content : disk' = [disk EXCEPT !["active"] = NewFile(content, TRUE)]
    BY <2>1 DEF ImageReplaced
  <2> QED
    BY <1>2, <2>2, <2>4, <2>5, <2>6
<1>5. CASE CreateRecovery \/ FillRecovery \/ SquashRecovery
  <2>1. /\ pc \in {"createRecovery", "fillRecovery"}
        /\ \/ pc' = "fillRecovery"
           \/ /\ pc' = "cleanRecovery"
              /\ err' # "none" \/ \E content : disk' = [disk EXCEPT !["recovery"] = NewFile(content, TRUE)]
    BY <1>5 DEF CreateRecovery, FillRecovery, SquashRecovery, ImgFails
  <2>2. \A s \in SystemSlot \ {"recovery"} : disk'[s] = disk[s]
    BY <1>3, <1>5 DEF CreateRecovery, FillRecovery, SquashRecovery
  <2>3. spec.recovery
    BY <2>1 DEF StagesInv, SpecStage, RecoveryTree, RecoveryWork, RecoveryMade
  <2>4. ImageFS = RequestedFS("recovery") /\ ImageLabel = GrubLabels["recovery"]
    BY <2>3 DEF ImageFS, ImageLabel, RequestedFS, GrubLabels, SystemSlot
  <2>5. pc \in Steady /\ ImageReplaced \subseteq {"recovery"}
    BY <2>1 DEF Steady, InstallStage, ImageReplaced
  <2>6. \/ ImageReplaced' = {"recovery"} \/ err' # "none"
        \/ \E content : disk' = [disk EXCEPT !["recovery"] = NewFile(content, TRUE)]
    BY <2>1 DEF ImageReplaced
  <2> QED
    BY <1>2, <2>2, <2>4, <2>5, <2>6
<1> QED
  BY <1>4, <1>5 DEF MakesImage

\* A copy of the active image with the label of its slot is fit.
LEMMA BootCopied ==
  ASSUME InstallTypeOK, LabelsInv, StagesInv, BootInv, pc \notin Idle, start.trusted,
         CopyRecovery \/ CopyPassive
  PROVE  BootInv'
<1>1. UNCHANGED <<how, start, spec, grub>>
  BY Zenon DEF CopyRecovery, CopyPassive, CopyImage
<1>2. \E slot \in {"passive", "recovery"}, at \in {"recovery", "passive"},
        next \in {"passive", "postInstall"}, code \in {"CopyFileImg", "DeployImage"} :
        /\ CopyImage(at, slot, GrubLabels[slot], next, code)
        /\ RequestedFS(slot) = spec.activeFS
  <2>1. CASE CopyRecovery
    <3>1. GrubLabels["recovery"] = spec.recoveryLabel /\ RequestedFS("recovery") = spec.activeFS
      BY <2>1 DEF CopyRecovery, CopiesActive, RequestedFS, GrubLabels, SystemSlot
    <3> QED
      BY <2>1, <3>1 DEF CopyRecovery
  <2>2. CASE CopyPassive
    <3>1. GrubLabels["passive"] = spec.passiveLabel /\ RequestedFS("passive") = spec.activeFS
      BY DEF RequestedFS, GrubLabels, SystemSlot
    <3> QED
      BY <2>2, <3>1 DEF CopyPassive
  <2> QED
    BY <2>1, <2>2
<1>3. PICK slot \in {"passive", "recovery"}, at \in {"recovery", "passive"},
        next \in {"passive", "postInstall"}, code \in {"CopyFileImg", "DeployImage"} :
        /\ CopyImage(at, slot, GrubLabels[slot], next, code)
        /\ RequestedFS(slot) = spec.activeFS
  BY <1>2
<1>4. pc \in Steady /\ pc \in InstallStage /\ ImageReplaced = {}
  BY <1>3, Zenon DEF CopyImage, Steady, InstallStage, ImageReplaced
<1>5. slot \in SystemSlot /\ slot # "active" /\ {"active"} \cup SystemSlot \subseteq Slot
  BY DEF SystemSlot, Slot
<1>6. err = "none" /\ \A s \in SystemSlot : Fit(s)
  BY <1>4 DEF StagesInv, Steady, BootInv
<1> DEFINE copy == [disk["active"] EXCEPT !.dirty = TRUE]
<1>7. /\ \A s \in SystemSlot \ {slot} : disk'[s] = disk[s]
      /\ \/ pc' = next /\ disk'[slot] = IF GrubLabels[slot] = "" THEN copy
                                         ELSE [copy EXCEPT !.label = GrubLabels[slot]]
         \/ pc' = "cleanup"
  BY <1>3, <1>5, Components, Zenon DEF CopyImage
<1>8. OneLost' /\ \A s \in SystemSlot \ {slot} : Fit(s)'
  BY <1>1, <1>5, <1>6, <1>7, OneWritten, Zenon
<1>9. disk["active"] \in Image /\ disk["active"].ok /\ disk["active"].fs = spec.activeFS
  BY <1>5, <1>6, Components DEF Fit, RequestedFS, SystemSlot
<1>10. /\ copy.ok = disk["active"].ok /\ copy.fs = disk["active"].fs
       /\ [copy EXCEPT !.label = GrubLabels[slot]].ok = disk["active"].ok
       /\ [copy EXCEPT !.label = GrubLabels[slot]].fs = disk["active"].fs
       /\ [copy EXCEPT !.label = GrubLabels[slot]].label = GrubLabels[slot]
  BY <1>9 DEF Image
<1> HIDE DEF copy
<1>11. spec.activeFS = "ext2" => GrubLabels[slot] = DefaultLabels[slot] /\ DefaultLabels[slot] # ""
  BY <1>3, <1>5, SpecLabels, Zenon DEF DefaultLabels, SystemSlot
<1>12. RequestedFS(slot)' = RequestedFS(slot)
  BY <1>1 DEF RequestedFS
<1>13. pc' = next => Fit(slot)'
  <2>1. pc' = next => disk'[slot] = IF GrubLabels[slot] = "" THEN copy
                                      ELSE [copy EXCEPT !.label = GrubLabels[slot]]
    BY <1>7, Zenon
  <2>2. pc' = next => disk'[slot].ok /\ disk'[slot].fs = spec.activeFS
    BY <1>9, <1>10, <2>1, Zenon
  <2>3. pc' = next /\ spec.activeFS = "ext2" => disk'[slot].label = DefaultLabels[slot]
    BY <1>10, <1>11, <2>1, Zenon
  <2> QED
    BY <1>3, <1>12, <2>2, <2>3 DEF Fit
<1>14. pc' \in InstallStage => \A s \in SystemSlot : Fit(s)'
  BY <1>7, <1>8, <1>13, Zenon DEF InstallStage
<1>15. \A s \in SystemSlot : RequestedFS(s)' = "ext2" => grub'[s] = DefaultLabels[s]
  BY <1>1 DEF BootInv, RequestedFS
<1>16. ~how'.format
  BY <1>1 DEF BootInv
<1> QED
  BY <1>8, <1>14, <1>15, <1>16 DEF BootInv

\* Every step of an installation over a bootable system keeps the images fit but one.
LEMMA BootStep ==
  InstallTypeOK /\ LabelsInv /\ NamesInv /\ StagesInv /\ BootInv /\ [LiveNext]_allVars => BootInv'
<1> SUFFICES ASSUME InstallTypeOK, LabelsInv, NamesInv, StagesInv, BootInv, [LiveNext]_allVars,
                    pc' \notin Idle, start'.trusted
             PROVE  BootInv'
  BY DEF BootInv
<1>1. CASE UNCHANGED allVars
  BY <1>1 DEF BootInv, OneLost, Fit, RequestedFS, ImageReplaced
<1>2. CASE CallInstall
  <2>1. PICK o \in Options, sys \in SystemFS, rec \in RecoveryFS : StartInstall(o, sys, rec)
    BY <1>2 DEF CallInstall
  <2>2. /\ ~o.format /\ how' = o /\ UNCHANGED <<disk, grub>>
        /\ \A s \in SystemSlot : Bootable(s)
        /\ disk["active"].fs = sys /\ disk["passive"].fs = sys /\ disk["recovery"].fs = rec
        /\ spec'.activeFS = sys /\ spec'.recoveryFS = rec /\ pc' \in Opening
    <3>1. pc' \in Opening
      BY <2>1, Zenon DEF StartInstall, Opening
    <3>2. /\ start'.trusted = /\ ~o.format /\ device = "grub" /\ ~InUse
                              /\ \A s \in SystemSlot : Bootable(s)
                              /\ disk["active"].fs = sys /\ disk["passive"].fs = sys
                              /\ disk["recovery"].fs = rec
          /\ how' = o /\ UNCHANGED <<disk, grub>>
          /\ spec'.activeFS = sys /\ spec'.recoveryFS = rec
      BY <2>1, Zenon DEF StartInstall
    <3> QED
      BY <3>1, <3>2
  <2>3. \A s \in SystemSlot : disk[s].fs = RequestedFS(s)'
    BY <2>2 DEF RequestedFS, SystemSlot
  <2>4. \A s \in SystemSlot : disk[s].fs = "ext2" =>
          grub[s] = DefaultLabels[s] /\ disk[s].label = DefaultLabels[s]
    BY <2>2, Zenon DEF NamesInv, Bootable
  <2>5. \A s \in SystemSlot : Fit(s)'
    BY <2>2, <2>3, <2>4 DEF Fit, Bootable
  <2>6. OneLost'
    BY <2>5 DEF OneLost, SystemSlot
  <2>7. \A s \in SystemSlot : RequestedFS(s)' = "ext2" => grub'[s] = DefaultLabels[s]
    BY <2>2, <2>3, <2>4
  <2> QED
    BY <2>2, <2>5, <2>6, <2>7 DEF BootInv
<1>3. BootLive \/ Reboot \/ PowerLoss => pc' \in Idle
  BY DEF BootLive, Reboot, PowerLoss, PoweredOff, Idle
<1>4. CASE InstallStep
  <2>1. /\ pc \notin Idle /\ UNCHANGED <<how, start>> /\ start.trusted
        /\ spec' = spec \/ spec' = [spec EXCEPT !.recovery = TRUE]
    BY <1>4, SpecKept
  <2>2. \A s \in SystemSlot : RequestedFS(s)' = RequestedFS(s)
    <3>1. spec'.activeFS = spec.activeFS /\ spec'.recoveryFS = spec.recoveryFS
      BY <2>1, Components DEF UpgradeSpec
    <3> QED
      BY <3>1 DEF RequestedFS
  <2>3. CASE MakesImage \/ CopyRecovery \/ CopyPassive
    BY <2>1, <2>3, BootMade, BootCopied
  <2>4. ~FormatDevice
    BY <2>1 DEF FormatDevice, BootInv
  <2>5. CASE MountInstall \/ JobUmountInstalled
    <3>1. UNCHANGED grub /\ (disk' = disk \/ \E gone : disk' = WrittenBack(gone))
      BY <2>5 DEF MountInstall, JobUmountInstalled
    <3>2. \A s \in SystemSlot : /\ disk'[s].fs = disk[s].fs /\ disk'[s].label = disk[s].label
                                /\ disk'[s].ok = disk[s].ok
      BY <3>1, WrittenBackKeeps DEF SystemSlot, Slot
    <3>3. pc' \in InstallStage => pc \in InstallStage /\ err' = err /\ ImageReplaced = {}
      BY <2>5 DEF MountInstall, JobUmountInstalled, PopJob, InstallStage, ImageReplaced
    <3> QED
      BY <2>1, <2>2, <3>1, <3>2, <3>3, FitStays
  <2>6. CASE disk' = disk /\ pc \notin {"fillActive", "fillRecovery"}
    <3>1. ImageReplaced = {}
      BY <2>6 DEF ImageReplaced
    <3>2. pc' \in InstallStage /\ err' = "none" => pc \in InstallStage /\ err = "none"
      <4>1. CASE Working
        <5>1. pc = "dumpFailed" => pc' = "cleanup"
          BY <4>1, DumpFailedEnds
        <5>2. pc \in InstallStage \cup {"dumpFailed"} /\ "cleanup" \notin InstallStage
          BY <4>1, WorkingKeeps DEF InstallStage
        <5> QED
          BY <4>1, <5>1, <5>2, ErrorsStay
      <4>2. CASE FetchISO \/ MountInstall
        BY <4>2 DEF FetchISO, MountInstall, InstallStage
      <4>3. CASE JobCleanActive \/ JobUmountInstalled \/ JobISO \/ CleanupDone \/ PowerAction
        BY <4>3 DEF JobCleanActive, JobUmountInstalled, JobISO, PopJob, CleanupDone, PowerAction,
                    PoweredOff, InstallStage
      <4> QED
        BY <1>4, <4>1, <4>2, <4>3 DEF InstallStep, Working
    <3>3. CASE grub' = grub
      BY <2>1, <2>2, <2>6, <3>1, <3>2, <3>3, FitStays
    <3>4. CASE SetInstallVariables
      <4>1. grub' = grub \/ \A s \in SystemSlot : grub'[s] = GrubLabels[s] \/ grub'[s] = grub[s]
        BY <3>4 DEF SetInstallVariables
      <4>2. \A s \in SystemSlot : RequestedFS(s)' = "ext2" => grub'[s] = DefaultLabels[s]
        BY <2>1, <2>2, <4>1, SpecLabels, Zenon DEF BootInv
      <4>3. \A s \in SystemSlot : Fit(s) => Fit(s)'
        BY <2>2, <2>6 DEF Fit
      <4>4. OneLost'
        BY <2>1, <4>3 DEF BootInv, OneLost
      <4>5. pc' \in InstallStage /\ err' = "none" => \A s \in SystemSlot : Fit(s)'
        BY <2>1, <3>1, <3>2, <4>3 DEF BootInv
      <4>6. ~how'.format
        BY <2>1 DEF BootInv
      <4> QED
        BY <4>2, <4>4, <4>5, <4>6 DEF BootInv
    <3> QED
      BY <2>4, <3>3, <3>4, KeepsGrub
  <2>7. CASE PowerAction
    <3>1. pc' = "off" \/ (disk' = disk /\ pc = "power")
      BY <2>7 DEF PowerAction, PoweredOff
    <3> QED
      BY <2>6, <3>1 DEF Idle
  <2> QED
    BY <1>1, <1>3, <2>3, <2>4, <2>5, <2>6, <2>7, KeepsDisk
<1> QED
  BY <1>1, <1>2, <1>3, <1>4 DEF LiveNext

\* A no-format installation over a bootable system of the same file systems costs it at
\* most one image: at every step two of the three would boot (install.go).
THEOREM NoFormatKeepsBootableAll == LiveSpec => []NoFormatKeepsBootable
<1>1. LiveInit => NamesInv
  <2>1. ASSUME grub = DefaultLabels, disk = [s \in Slot |-> NoFile] PROVE NamesInv
    BY <2>1, Zenon DEF NamesInv, NoFile, SystemSlot, Slot
  <2>2. ASSUME NEW sys \in SystemFS, NEW rec \in RecoveryFS, disk = InstalledDisk(sys, rec, {0}),
               grub = [s \in SystemSlot |-> disk[s].label]
        PROVE  NamesInv
    <3>1. /\ disk["active"] = Installed(sys, "COS_ACTIVE", {0})
          /\ disk["passive"] = Installed(sys, "COS_PASSIVE", {0})
          /\ disk["recovery"] = Installed(rec, "COS_SYSTEM", {0})
      BY <2>2 DEF InstalledDisk, Slot
    <3>2. \A s \in SystemSlot : /\ disk[s].label \in {"", DefaultLabels[s]}
                                /\ disk[s].fs = "ext2" => disk[s].label # ""
      <4>1. \A s \in SystemSlot : \E fs : disk[s] = Installed(fs, DefaultLabels[s], {0})
        <5>1. /\ DefaultLabels["active"] = "COS_ACTIVE" /\ DefaultLabels["passive"] = "COS_PASSIVE"
              /\ DefaultLabels["recovery"] = "COS_SYSTEM"
          BY DEF DefaultLabels, SystemSlot
        <5> QED
          BY <3>1, <5>1 DEF SystemSlot
      <4>2. \A s \in SystemSlot : DefaultLabels[s] # ""
        BY Zenon DEF DefaultLabels, SystemSlot
      <4>3. ASSUME NEW s \in SystemSlot
            PROVE  disk[s].label \in {"", DefaultLabels[s]} /\ (disk[s].fs = "ext2" => disk[s].label # "")
        <5>1. PICK fs : disk[s] = Installed(fs, DefaultLabels[s], {0})
          BY <4>1
        <5>2. /\ Installed(fs, DefaultLabels[s], {0}).fs = fs
              /\ Installed(fs, DefaultLabels[s], {0}).label =
                   IF fs = "squashfs" THEN "" ELSE DefaultLabels[s]
          BY DEF Installed
        <5>3. disk[s].fs = fs /\ disk[s].label = IF fs = "squashfs" THEN "" ELSE DefaultLabels[s]
          BY <5>1, <5>2, Zenon
        <5> QED
          BY <4>2, <5>3, Zenon
      <4> QED
        BY <4>3, Zenon
    <3> QED
      BY <2>2, <3>2, Zenon DEF NamesInv
  <2> QED
    BY <2>1, <2>2, Zenon DEF LiveInit
<1>2. LiveInit => LabelsInv /\ BootInv
  BY Zenon DEF LiveInit, LabelsInv, BootInv, Idle
<1>3. LiveInit => StagesInv
  <2>1. "ready" \notin BeforeRecovery \cup RecoveryTree \cup InstallStage
    BY DEF BeforeRecovery, RecoveryTree, Opening, Preparing, ActiveTree, ActiveWork, ActiveMade,
           RecoveryWork, RecoveryMade, InstallStage
  <2> QED
    BY <2>1, SpecStages, Zenon DEF LiveInit, StagesInv, SpecStage
<1>4. InstallTypeOK /\ BootInv => NoFormatKeepsBootable
  <2> SUFFICES ASSUME BootInv, pc = "exited", start.trusted
               PROVE  \E lostImage \in SystemSlot : \A s \in SystemSlot \ {lostImage} : Bootable(s)
    BY DEF NoFormatKeepsBootable
  <2>1. pc \notin Idle
    BY DEF Idle
  <2>2. OneLost /\ \A s \in SystemSlot : RequestedFS(s) = "ext2" => grub[s] = DefaultLabels[s]
    BY <2>1 DEF BootInv
  <2>3. \A s \in SystemSlot : Fit(s) => Bootable(s)
    BY <2>2 DEF Fit, Bootable
  <2> QED
    BY <2>2, <2>3 DEF OneLost
<1> QED
  BY <1>1, <1>2, <1>3, <1>4, LiveTypes, LiveTypeStep, LabelsStep, NamesStep, StagesStep, BootStep, PTL
  DEF LiveSpec
=============================================================================
