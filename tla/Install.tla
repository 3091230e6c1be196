------------------------------ MODULE Install -------------------------------
(***************************************************************************)
(* The install command (pkg/action/install.go), run from a live medium on  *)
(* a blank disk or over an installed system.  It partitions the device or, *)
(* with no-format, keeps what is there, deploys a source (an ISO it may    *)
(* first download) into the active image, derives recovery and passive     *)
(* from it, and leaves the machine that module Upgrade starts from.  Calls *)
(* fail and the machine loses power as in module Upgrade, whose steps an   *)
(* installation shares where the code does.                                *)
(***************************************************************************)
EXTENDS Upgrade

\* The options of a run: format the device, replace a running deployment, install
\* from an ISO, give recovery a source of its own and not the active image.
CONSTANT Options

ASSUME InstallAssumption ==
  Options \subseteq [format : BOOLEAN, force : BOOLEAN, iso : BOOLEAN, own : BOOLEAN]

VARIABLES
  device,   \* "blank", "partial"ly partitioned, "made", or with "grub" installed
  how,      \* the options of the run
  iso       \* the downloaded ISO: "none", a "file", or "mounted"

installVars == <<device, how, iso>>
allVars == <<vars, installVars>>

InstallStage == {"fetchISO", "prepare", "mountInstall", "beforeInstall", "deployActive",
                 "dumpActive", "cloudConfig", "installGrub", "relabelInstall", "chrootInstall",
                 "afterInstall", "labels", "entry", "createActive", "fillActive",
                 "cleanActive", "recovery", "dumpRecovery", "createRecovery", "fillRecovery",
                 "cleanRecovery", "passive", "postInstall", "installYaml", "installRecoveryYaml"}
InstallError == Error \cup {"Unknown", "DeactivatingDevices", "PartitioningDevice",
                  "AlreadyInstalled", "MountPartitions", "HookBeforeInstall", "CopyFile",
                  "InstallGrub", "HookAfterInstallChroot", "HookAfterInstall", "CopyFileImg",
                  "DeployImage", "HookPostInstall", "CreateFile"}
-----------------------------------------------------------------------------
(* The command, its source and its device.                                 *)

\* A mount that an earlier run left behind keeps the device busy.
InUse == (\E p \in Part : mnt[p] # "none") \/ work # <<>> \/ loops \cap ImgPart # {}

\* mksquashfs adds to a squashfs image that it finds and refuses any other file.
Meets(o, fs, slot) == ~o.format /\ fs = "squashfs" /\ disk[slot].fs # "none"

\* NewInstallSpec and Sanitize.  The properties use: can nothing but a fault keep
\* the run from succeeding ("able"), does it work on clean ground ("fresh"), does
\* it replace a bootable system by one of the same kind ("trusted").
StartInstall(o, sysFS, recFS) ==
  LET system(label) == IF sysFS = "squashfs" THEN "" ELSE label
      meets == Meets(o, sysFS, "active") \/ (sysFS # recFS /\ Meets(o, recFS, "recovery"))
                \/ (o.own /\ Meets(o, recFS, "recovery"))
  IN
  /\ pc \in {"ready", "exited"} /\ runs < MaxRuns
  /\ spec' = [recovery |-> FALSE, activeFS |-> sysFS, recoveryFS |-> recFS,
              activeLabel |-> system("COS_ACTIVE"), passiveLabel |-> system("COS_PASSIVE"),
              recoveryLabel |-> IF recFS = "squashfs" THEN "" ELSE "COS_SYSTEM"]
  /\ how' = o /\ iso' = "none" /\ runs' = runs + 1
  /\ start' = [mnt |-> mnt, active |-> disk["active"].content, faults |-> faults,
               trusted |-> /\ ~o.format /\ device = "grub" /\ ~InUse
                           /\ \A s \in SystemSlot : Bootable(s)
                           /\ disk["active"].fs = sysFS /\ disk["passive"].fs = sysFS
                           /\ disk["recovery"].fs = recFS,
               fresh   |-> ~meets /\ (o.format \/ \A s \in Slot : tree[s] = {}),
               able    |-> /\ ~InUse /\ ~meets
                           /\ o.format \/ device = "made" \/ (device = "grub" /\ o.force)]
  /\ jobs' = <<>> /\ err' = "none" /\ cleanErr' = FALSE /\ exit' = 0
  /\ pc' = IF o.iso THEN "fetchISO" ELSE "prepare"
  /\ loops' = loops \ {"iso"}     \* an ISO of an earlier run
  /\ UNCHANGED <<persistentVars, booted, mnt, work, faults, loaded, device>>

ISOJob(state) ==
  IF state = "none" THEN <<>>
  ELSE << [op |-> IF state = "mounted" THEN "isoAll" ELSE "isoFile", part |-> "state"] >>

\* Mutant: the cleaner is pushed when there is no error.
FetchISOUnreleased ==
  /\ pc = "fetchISO"
  /\ \/ Succeeds /\ iso' = "mounted" /\ jobs' = ISOJob(iso') /\ Goto("prepare")
     \/ Fails /\ iso' \in {"file", "mounted"} /\ UNCHANGED jobs /\ Abort("Unknown")
  /\ UNCHANGED <<persistentVars, volatileVars, runVars, cleanErr, device, how>>

\* UpdateSourceFormISO: download and mount the ISO, find the root file system in
\* it.  Its cleaner is pushed before the error is looked at.
FetchISO ==
  /\ pc = "fetchISO"
  /\ \/ Succeeds /\ iso' = "mounted" /\ Goto("prepare")
     \/ Fails /\ iso' \in {"none", "file", "mounted"} /\ Abort("Unknown")
  /\ jobs' = ISOJob(iso')
  /\ UNCHANGED <<persistentVars, volatileVars, runVars, cleanErr, device, how>>

\* A new partition table with new file systems on it.
DeviceWiped ==
  /\ disk' = [s \in Slot |-> NoFile] /\ tree' = [s \in Slot |-> {}]
  /\ yaml' = [p \in ImgPart |-> Defaults] /\ grub' = DefaultLabels

\* DeactivateDevices and PartitionAndFormatDevice (module Partitioner).  parted
\* refuses a device that is in use.
FormatDevice ==
  /\ pc = "prepare" /\ how.format
  /\ \/ ~InUse /\ Succeeds /\ DeviceWiped /\ device' = "made" /\ Goto("mountInstall")
     \/ ~InUse /\ Fails /\ DeviceWiped /\ device' = "partial" /\ Abort("PartitioningDevice")
     \/ /\ InUse /\ Succeeds /\ Abort("PartitioningDevice")
        /\ UNCHANGED <<disk, tree, yaml, grub, device>>
     \/ /\ Fails /\ Abort("DeactivatingDevices")
        /\ UNCHANGED <<disk, tree, yaml, grub, device>>
  /\ UNCHANGED <<lost, volatileVars, runVars, jobs, cleanErr, how, iso>>

\* No-format.  Whether the labels of a deployment are listed depends on how the
\* system was booted (external).
KeepPartitions ==
  /\ pc = "prepare" /\ ~how.format /\ Succeeds
  /\ \/ Goto("mountInstall")
     \/ device = "grub" /\ ~how.force /\ Abort("AlreadyInstalled")
  /\ UNCHANGED <<persistentVars, volatileVars, runVars, jobs, cleanErr, installVars>>
-----------------------------------------------------------------------------
(* Mounting and unmounting.                                                *)

HomeOf(slot) == IF slot \in {"recovery", "transRecovery"} THEN "recovery" ELSE "state"

\* Unmounting a partition writes its images back, unless a bind mount of a scratch
\* tree keeps its file system in use.
WrittenBack(gone) ==
  [s \in Slot |-> IF /\ HomeOf(s) \in gone
                     /\ \A i \in DOMAIN work : HomeOf(work[i].slot) # HomeOf(s)
                  THEN [disk[s] EXCEPT !.dirty = FALSE] ELSE disk[s]]

Present == ImgPart \cup IF HasPersistent THEN {"persistent"} ELSE {}

\* UnmountPartitions: every mounted one is tried; a loop device keeps it busy.
Busy == {p \in loops \cap Part : mnt[p] # "none"}

\* MountPartitions.  A partition that is mounted there already cannot be mounted
\* again; when one fails all of them are unmounted, whatever that returns.
MountInstall ==
  /\ pc = "mountInstall"
  /\ LET mountable == device \in {"made", "grub"} /\ \A p \in Part : mnt[p] = "none"
     IN  \/ /\ mountable /\ Succeeds /\ Goto("beforeInstall")
            /\ mnt' = [p \in Part |-> IF p \in Present THEN "rw" ELSE "none"]
            /\ jobs' = Append(jobs, [op |-> "umountInstalled", part |-> "state"])
            /\ UNCHANGED disk
         \/ /\ IF mountable THEN Fails ELSE Succeeds
            /\ Abort("MountPartitions") /\ UNCHANGED jobs
            /\ \E stay \in IF mountable THEN SUBSET Present ELSE {Busy} :
                 /\ mnt' = [p \in Part |-> IF p \in stay THEN "rw" ELSE "none"]
                 /\ disk' = WrittenBack({p \in Part : mnt[p] # "none"} \ stay)
  /\ UNCHANGED <<tree, yaml, grub, lost, booted, work, loops, runVars, cleanErr, installVars>>

JobUmountInstalled ==
  /\ PopJob("umountInstalled")
  /\ \E stay \in SUBSET {p \in Part : mnt[p] # "none"} :
       /\ Busy \subseteq stay /\ IF stay = Busy THEN Succeeds ELSE Fails
       /\ mnt' = [p \in Part |-> IF p \in stay THEN mnt[p] ELSE "none"]
       /\ disk' = WrittenBack({p \in Part : mnt[p] # "none"} \ stay)
       /\ cleanErr' = (cleanErr \/ stay # {})
  /\ UNCHANGED <<tree, yaml, grub, lost, booted, work, loops, runVars, installVars>>

\* The cleaners of the ISO: unmount it, unless its file is still in use, then
\* remove its directory.
JobISO ==
  /\ \/ /\ PopJob("isoAll")
        /\ \/ "iso" \notin loops /\ Succeeds /\ iso' = "none" /\ UNCHANGED cleanErr
           \/ "iso" \in loops /\ Succeeds /\ cleanErr' = TRUE /\ UNCHANGED iso
           \/ "iso" \notin loops /\ Fails /\ iso' \in {"mounted", "file"} /\ cleanErr' = TRUE
     \/ /\ PopJob("isoFile")
        /\ \/ Succeeds /\ iso' = "none" /\ UNCHANGED cleanErr
           \/ Fails /\ cleanErr' = TRUE /\ UNCHANGED iso
  /\ UNCHANGED <<persistentVars, volatileVars, runVars, device, how>>
-----------------------------------------------------------------------------
(* The active image.                                                       *)

BeforeInstall == RunHook("beforeInstall", "deployActive", "HookBeforeInstall") /\ UNCHANGED installVars
DeployActive  == MountTree("deployActive", "active", "dumpActive") /\ UNCHANGED installVars
DumpActive    == Extract("dumpActive", "active", {runs}, "cloudConfig") /\ UNCHANGED installVars

\* The root file system of an ISO is mounted to be copied; that it could not be
\* unmounted goes unnoticed.
DumpLeaks(at, slot, source, held, next) ==
  /\ pc = at /\ Fails /\ Goto(next)
  /\ tree' = [tree EXCEPT ![slot] = @ \cup source]
  /\ loops' = loops \cup {held}
  /\ UNCHANGED <<disk, yaml, grub, lost, booted, mnt, work, runVars, cleanErr, installVars>>
DumpActiveLeaks ==
  /\ how.iso /\ DumpLeaks("dumpActive", "active", {runs}, "iso", "cloudConfig")
  /\ jobs' = Append(jobs, [op |-> "cleanTree", part |-> HomePart])

CopyCloudConfig == RunHook("cloudConfig", "installGrub", "CopyFile") /\ UNCHANGED installVars

\* Grub.Install: the boot loader's files and its configuration.
InstallGrub ==
  /\ pc = "installGrub"
  /\ \/ Succeeds /\ device' = "grub" /\ Goto("relabelInstall")
     \/ Fails /\ device' \in {device, "grub"} /\ Abort("InstallGrub")
  /\ UNCHANGED <<persistentVars, volatileVars, runVars, jobs, cleanErr, how, iso>>

Chrooted(at, next, code) ==
  /\ pc = at /\ ChrootedCallback(ChrootBinds, next, code)
  /\ UNCHANGED <<persistentVars, booted, mnt, loops, runVars, jobs, cleanErr, installVars>>
RelabelInstall == Chrooted("relabelInstall", "chrootInstall", "SelinuxRelabel")
ChrootInstall  == Chrooted("chrootInstall", "afterInstall", "HookAfterInstallChroot")
AfterInstall   == RunHook("afterInstall", "labels", "HookAfterInstall") /\ UNCHANGED installVars

\* The labels of all three images, one by one in no particular order.
SetInstallVariables ==
  /\ pc = "labels"
  /\ \/ Succeeds /\ grub' = GrubLabels /\ Goto("entry")
     \/ /\ Fails /\ Abort("SetGrubVariables")
        /\ \E set \in SUBSET SystemSlot :
             grub' = [s \in SystemSlot |-> IF s \in set THEN GrubLabels[s] ELSE grub[s]]
  /\ UNCHANGED <<disk, tree, yaml, lost, volatileVars, runVars, jobs, cleanErr, installVars>>

InstallEntry == RunHook("entry", "createActive", "SetDefaultGrubEntry") /\ UNCHANGED installVars

CreateActive == MakeImage("createActive", "active", "fillActive", "cleanActive") /\ UNCHANGED installVars
FillActive   == CopyTree("fillActive", "active", "cleanActive") /\ UNCHANGED installVars
SquashActive == Squash("createActive", "active", "cleanActive") /\ UNCHANGED installVars
CleanActive  == CleanThen("cleanActive", "active", "recovery") /\ UNCHANGED installVars
-----------------------------------------------------------------------------
(* Recovery and passive.                                                   *)

\* Mutant: the copy keeps the label of the active image.
CopyImageUnlabelled(at, slot, label, next, code) ==
  /\ pc = at /\ Succeeds /\ Goto(next)
  /\ disk' = [disk EXCEPT ![slot] = [disk["active"] EXCEPT !.dirty = TRUE]]
  /\ UNCHANGED <<tree, yaml, grub, lost, volatileVars, runVars, jobs, cleanErr, installVars>>

\* CopyFileImg of the active image, and its label.
CopyImage(at, slot, label, next, code) ==
  /\ pc = at
  /\ LET copy == [disk["active"] EXCEPT !.dirty = TRUE]
     IN  \/ /\ Succeeds /\ Goto(next)
            /\ disk' = [disk EXCEPT ![slot] =
                          IF label = "" THEN copy ELSE [copy EXCEPT !.label = label]]
         \/ /\ Fails /\ Abort(code)
            /\ disk' \in {disk,                                              \* mkdir
                          [disk EXCEPT ![slot] = [copy EXCEPT !.ok = FALSE]],
                          [disk EXCEPT ![slot] = copy]}                      \* tune2fs
  /\ UNCHANGED <<tree, yaml, grub, lost, volatileVars, runVars, jobs, cleanErr, installVars>>

CopiesActive == ~how.own /\ spec.activeFS = spec.recoveryFS

CopyRecovery ==
  CopiesActive /\ CopyImage("recovery", "recovery", spec.recoveryLabel, "passive", "CopyFileImg")

\* DeployImage of recovery: its tree is mounted over the same WorkingImgDir.  (The
\* steps it shares with active end in active's error codes, not in DeployImage.)
DeployRecovery ==
  /\ ~CopiesActive /\ pc = "recovery"
  /\ \/ /\ Succeeds /\ pc' = "dumpRecovery" /\ UNCHANGED err
        /\ work' = Append(work, [slot |-> "recovery", left |-> {}])
        /\ spec' = [spec EXCEPT !.recovery = TRUE] /\ UNCHANGED <<tree, lost>>
     \/ /\ Fails /\ pc' = "cleanup" /\ err' = "DeployImage"
        /\ \/ UNCHANGED <<tree, lost>>                       \* mkdir of the tree
           \/ RemoveTree("recovery") /\ UNCHANGED lost      \* mkdir of the root
           \/ /\ work # <<>>
              /\ tree' = [tree EXCEPT !["recovery"] = {}, ![Top.slot] = {}]
              /\ lost' = lost \cup Top.left
        /\ UNCHANGED <<work, spec>>
  /\ UNCHANGED <<disk, yaml, grub, booted, mnt, loops, loaded, start, runs, jobs, cleanErr,
                 exit, installVars>>

\* From its own source, or from the active image mounted as a loop device on state.
RecoverySource == IF how.own THEN {0} ELSE disk["active"].content
DumpRecovery ==
  /\ pc = "dumpRecovery"
  /\ tree' = [tree EXCEPT !["recovery"] = @ \cup RecoverySource]
  /\ \/ Succeeds /\ Goto("createRecovery")
     \/ Fails /\ pc' = "dumpFailed" /\ err' = "DeployImage" /\ UNCHANGED exit
  /\ UNCHANGED <<disk, yaml, grub, lost, volatileVars, runVars, jobs, cleanErr, installVars>>
DumpRecoveryLeaks ==
  /\ ~how.own /\ UNCHANGED jobs
  /\ DumpLeaks("dumpRecovery", "recovery", RecoverySource, "state", "createRecovery")

CreateRecovery ==
  MakeImage("createRecovery", "recovery", "fillRecovery", "cleanRecovery") /\ UNCHANGED installVars
FillRecovery   == CopyTree("fillRecovery", "recovery", "cleanRecovery") /\ UNCHANGED installVars
SquashRecovery == Squash("createRecovery", "recovery", "cleanRecovery") /\ UNCHANGED installVars
CleanRecovery  == CleanThen("cleanRecovery", "recovery", "passive") /\ UNCHANGED installVars

CopyPassive == CopyImage("passive", "passive", spec.passiveLabel, "postInstall", "DeployImage")

PostInstall == RunHook("postInstall", "installYaml", "HookPostInstall") /\ UNCHANGED installVars

\* Mutant: a recovery image made from the active one names its file as the source.
InstalledStateOwnSource ==
  LET entry(src, fs, label) == [src |-> src, fs |-> fs, label |-> label]
  IN  [file |-> "whole", recoveryNull |-> FALSE,
       active   |-> entry({runs}, spec.activeFS, spec.activeLabel),
       passive  |-> entry({runs}, "ext2", spec.passiveLabel),
       recovery |-> entry(IF CopiesActive THEN {runs} ELSE {0}, spec.recoveryFS, spec.recoveryLabel)]
\* createInstallStateYaml: a recovery image made from active has active's source.
InstalledState ==
  LET entry(src, fs, label) == [src |-> src, fs |-> fs, label |-> label]
  IN  [file |-> "whole", recoveryNull |-> FALSE,
       active   |-> entry({runs}, spec.activeFS, spec.activeLabel),
       passive  |-> entry({runs}, "ext2", spec.passiveLabel),
       recovery |-> entry(IF how.own THEN {0} ELSE {runs}, spec.recoveryFS, spec.recoveryLabel)]

WriteInstallYaml ==
  /\ \/ /\ pc = "installYaml"
        /\ WriteYaml("state", InstalledState, "installRecoveryYaml", "CreateFile")
     \/ /\ pc = "installRecoveryYaml"
        /\ WriteYaml("recovery", InstalledState, "cleanup", "CreateFile")
  /\ UNCHANGED <<disk, tree, grub, lost, volatileVars, runVars, jobs, cleanErr, installVars>>

\* The error path of DeployImgTree, and the tree cleaner of active as a job.
DumpInstallFailed ==
  DropTree(IF spec.recovery THEN "recovery" ELSE "active") /\ UNCHANGED installVars
JobCleanActive == CleanTreeJob("active") /\ UNCHANGED installVars
-----------------------------------------------------------------------------
(* The machine.                                                            *)

\* A power loss or shutdown takes the downloaded ISO with the live system.
ISOGone == iso' = IF pc' = "off" THEN "none" ELSE iso

InstallStep ==
  \/ FetchISO \/ FormatDevice \/ KeepPartitions \/ MountInstall \/ BeforeInstall
  \/ DeployActive \/ DumpActive \/ DumpActiveLeaks \/ DumpInstallFailed
  \/ CopyCloudConfig \/ InstallGrub \/ RelabelInstall \/ ChrootInstall \/ AfterInstall
  \/ SetInstallVariables \/ InstallEntry
  \/ CreateActive \/ FillActive \/ SquashActive \/ CleanActive
  \/ CopyRecovery \/ DeployRecovery \/ DumpRecovery \/ DumpRecoveryLeaks
  \/ CreateRecovery \/ FillRecovery \/ SquashRecovery \/ CleanRecovery
  \/ CopyPassive \/ PostInstall \/ WriteInstallYaml
  \/ JobCleanActive \/ JobUmountInstalled \/ JobISO
  \/ CleanupDone /\ UNCHANGED installVars
  \/ PowerAction /\ ISOGone /\ UNCHANGED <<device, how>>

CallInstall ==
  \E o \in Options, sys \in SystemFS, rec \in RecoveryFS : StartInstall(o, sys, rec)

\* The live system starts with none of the disk's partitions mounted.
BootLive ==
  /\ pc = "off" /\ Goto("ready")
  /\ UNCHANGED <<persistentVars, volatileVars, runVars, jobs, cleanErr, faults, installVars>>

\* A live system next to a blank disk or an installed one.
LiveInit ==
  /\ \/ /\ device = "blank" /\ disk = [s \in Slot |-> NoFile]
        /\ yaml = [p \in ImgPart |-> Defaults] /\ grub = DefaultLabels
     \/ /\ device = "grub"
        /\ \E sys \in SystemFS, rec \in RecoveryFS : disk = InstalledDisk(sys, rec, {0})
        /\ yaml = [p \in ImgPart |-> RecordedState(disk)]
        /\ grub = [s \in SystemSlot |-> disk[s].label]
  /\ how \in Options /\ iso = "none"
  /\ tree = [s \in Slot |-> {}] /\ lost = {} /\ loaded = Defaults
  /\ booted = "live" /\ mnt = [p \in Part |-> "none"] /\ work = <<>> /\ loops = {}
  /\ pc = "ready" /\ jobs = <<>> /\ err = "none" /\ cleanErr = FALSE /\ exit = 0
  /\ spec = [recovery |-> FALSE, activeFS |-> "ext2", recoveryFS |-> "ext2",
             activeLabel |-> "", passiveLabel |-> "", recoveryLabel |-> ""]
  /\ runs = 0 /\ faults = 0
  /\ start = [mnt |-> mnt, active |-> {}, faults |-> 0,
              trusted |-> FALSE, fresh |-> TRUE, able |-> TRUE]

LiveNext ==
  \/ InstallStep \/ CallInstall \/ BootLive
  \/ (Reboot \/ PowerLoss) /\ ISOGone /\ UNCHANGED <<device, how>>

LiveSpec == LiveInit /\ [][LiveNext]_allVars
-----------------------------------------------------------------------------
InstallJob == [op : {"isoFile", "isoAll", "umountInstalled", "cleanTree"}, part : ImgPart]

InstallTypeOK ==
  /\ PersistentOK /\ RunOK
  /\ booted = "live" /\ mnt \in [Part -> Mode] /\ work \in Seq(Bind)
  /\ loops \subseteq ImgPart \cup {"iso"}
  /\ pc \in Running \cup InstallStage \cup {"ready", "exited", "off"}
  /\ jobs \in Seq(InstallJob)
  /\ err \in InstallError /\ cleanErr \in BOOLEAN /\ exit \in 0 .. 2
  /\ faults \in 0 .. MaxFaults
  /\ device \in {"blank", "partial", "made", "grub"} /\ how \in Options
  /\ iso \in {"none", "file", "mounted"}

\* When an installation reports success it leaves the machine that upgrades start
\* from, whatever was on the disk: three complete images, on the disk, of the
\* requested sources and file systems, state.yaml and the GRUB labels describing
\* exactly them, no scratch tree and the boot loader.
InstallDelivers ==
  pc = "power" /\ start.fresh =>
    LET made == InstalledDisk(spec.activeFS, spec.recoveryFS, {runs})
    IN  /\ disk = [made EXCEPT !["recovery"].content = IF how.own THEN {0} ELSE {runs}]
        /\ yaml = [p \in ImgPart |-> RecordedState(disk)]
        /\ grub = [s \in SystemSlot |-> disk[s].label]
        /\ tree = [s \in Slot |-> {}] /\ device = "grub"

\* Whatever an interrupted or failed installation left on the disk, one in which no
\* call fails succeeds: when it formats, as long as nothing of the disk is in use;
\* when it does not, if there are partitions, if it may replace what is on them and
\* if mksquashfs meets no old image.
InstallRepairs ==
  pc = "exited" /\ runs > 0 /\ faults = start.faults /\ start.able => err = "none"

\* When no cleanup job failed, a run leaves no partition mounted that was not,
\* unless mounting itself failed, and it releases the ISO it downloaded, at whatever
\* step it ended.
InstallCleansUp ==
  pc = "exited" /\ ~cleanErr =>
    /\ iso = "none"
    /\ err # "MountPartitions" =>
         \A p \in Part : mnt[p] # "none" => start.mnt[p] # "none"

\* A no-format installation over a bootable system of the same file systems, in
\* which at most one call fails, costs at most one image: they are replaced one by
\* one and all of them carry the labels the GRUB environment names.
NoFormatKeepsBootable ==
  pc = "exited" /\ runs > 0 /\ start.trusted /\ faults <= start.faults + 1
    => \E lostImage \in SystemSlot : \A s \in SystemSlot \ {lostImage} : Bootable(s)
=============================================================================
