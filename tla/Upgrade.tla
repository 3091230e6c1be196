------------------------------ MODULE Upgrade ------------------------------
(***************************************************************************)
(* The upgrade command (pkg/action/upgrade.go) on a machine that holds an  *)
(* active, a passive and a recovery image.  A run deploys a source tree,   *)
(* turns it into a transition image, rotates active into passive and       *)
(* renames the transition image over the image it replaces.  Every call    *)
(* that can fail may fail, the machine may lose power between any two      *)
(* steps, and runs follow one another with or without a reboot.            *)
(*                                                                         *)
(* What outlives a power loss: the image files, the scratch trees next to  *)
(* them, the two state.yaml copies, the GRUB environment.  Run number n    *)
(* deploys source n; the content of an image is the set of sources its     *)
(* files come from, so a content with two elements is a mix of two         *)
(* systems.                                                                *)
(***************************************************************************)
EXTENDS Naturals, Sequences

CONSTANTS SystemFS,       \* file systems of the active and passive images
          RecoveryFS,     \* file systems of the recovery image
          FSOverride,     \* the configuration may change the file systems
          HasOEM,         \* the disk has an OEM partition
          HasPersistent,  \* the disk has a persistent partition
          ChrootLeaks,    \* unmounting a chroot's bind mounts may fail
          MaxRuns,        \* bound on the number of upgrades
          MaxFaults       \* bound on failed calls and power losses

ASSUME UpgradeAssumption ==
  /\ SystemFS \subseteq {"ext2", "squashfs"} /\ SystemFS # {}
  /\ RecoveryFS \subseteq {"ext2", "squashfs"} /\ RecoveryFS # {}
  /\ FSOverride \in BOOLEAN /\ HasOEM \in BOOLEAN /\ HasPersistent \in BOOLEAN
  /\ ChrootLeaks \in BOOLEAN
  /\ MaxRuns \in Nat /\ MaxFaults \in Nat

Version == 0 .. MaxRuns
Label   == {"", "COS_ACTIVE", "COS_PASSIVE", "COS_SYSTEM"}
Slot    == {"active", "passive", "recovery", "transState", "transRecovery"}
ImgPart == {"state", "recovery"}             \* partitions that hold images
Part    == ImgPart \cup {"persistent"}

\* An image file; fs = "none" when there is no such file.  "ok": its content
\* is complete.  "dirty": written since the last sync.
Image == [fs : {"none", "ext2", "squashfs"}, content : SUBSET Version,
          label : Label, ok : BOOLEAN, dirty : BOOLEAN]
NoFile == [fs |-> "none", content |-> {}, label |-> "", ok |-> FALSE, dirty |-> FALSE]

\* An ImageState of state.yaml; src = {} when the entry is missing.  A copy of the
\* file can be broken, or empty: no error to read, but nothing in it.  A reset may
\* write a null for the missing entry of the recovery partition (module Reset).
Entry == [src : SUBSET Version, fs : {"ext2", "squashfs"}, label : Label]
InstallState == [file : {"whole", "broken", "empty"}, recoveryNull : BOOLEAN,
                 active : Entry, passive : Entry, recovery : Entry]

\* A bind mount on WorkingImgDir of the scratch tree of an image, and the bind
\* mounts a chroot left under it.
Bind == [slot : Slot, left : SUBSET {"dev", "oem", "persistent"}]

Mode == {"none", "ro", "rw"}        \* how a partition is mounted
Job == [op : {"umount", "remountRO", "remove", "cleanTree"}, part : Part]

\* The UpgradeSpec of a run, and what the run found when it started.
UpgradeSpec == [recovery : BOOLEAN, activeFS : {"ext2", "squashfs"},
                recoveryFS : {"ext2", "squashfs"}, activeLabel : Label,
                passiveLabel : Label, recoveryLabel : Label]
Start == [mnt : [Part -> Mode], active : SUBSET Version, faults : 0 .. MaxFaults,
          trusted : BOOLEAN, fresh : BOOLEAN, able : BOOLEAN]

Running == {"mountState", "mountRecovery", "mountPersistent", "beforeHook",
            "deploy", "dump", "dumpFailed", "relabel", "chrootHook", "afterHook", "grubVars",
            "defaultEntry", "createImg", "fillImg", "cleanTree", "backup",
            "label", "swap", "sync", "postHook", "stateYaml", "recoveryYaml",
            "cleanup", "power"}

\* The exit codes of pkg/error/exit-codes.go that an upgrade's errors carry, and
\* the errors that carry none.
ErrorCode == {"MountStatePartition", "MountRecoveryPartition", "HookBeforeUpgrade",
              "HookAfterUpgrade", "HookAfterUpgradeChroot", "MoveFile", "Cleanup",
              "Reboot", "LabelImage", "SetDefaultGrubEntry", "SelinuxRelabel",
              "HookPostUpgrade", "DeployImgTree", "CreateImgFromTree", "SetGrubVariables"}
Error == ErrorCode \cup {"none", "panic", "state.yaml"}

VARIABLES
  disk,      \* [Slot -> Image]: the image files
  tree,      \* content of the scratch tree next to an image, {} when absent
  yaml,      \* the state.yaml copies on the state and recovery partitions
  grub,      \* labels stored in grub_oem_env
  lost,      \* host trees whose files a cleanup deleted
  booted,    \* the slot the running system was booted from
  mnt,       \* how each partition is mounted
  work,      \* bind mounts stacked on WorkingImgDir, the visible one last
  loops,     \* partitions with an image still loop mounted
  pc, spec, jobs, err, cleanErr, exit, loaded,   \* the running command
  runs, faults, start                            \* bookkeeping

persistentVars == <<disk, tree, yaml, grub, lost>>
volatileVars   == <<booted, mnt, work, loops>>
runVars        == <<spec, loaded, start, runs>>
cmdVars        == <<jobs, err, cleanErr, exit>>
vars == <<persistentVars, volatileVars, runVars, cmdVars, pc, faults>>
-----------------------------------------------------------------------------
(* The paths and labels of a run.                                          *)

TransSlot == IF spec.recovery THEN "transRecovery" ELSE "transState"
\* Mutant: a recovery upgrade replaces the active image.
FinalSlotActive == "active"
FinalSlot == IF spec.recovery THEN "recovery" ELSE "active"
HomePart  == IF spec.recovery THEN "recovery" ELSE "state"
ImageFS    == IF spec.recovery THEN spec.recoveryFS ELSE spec.activeFS
ImageLabel == IF spec.recovery THEN spec.recoveryLabel ELSE spec.activeLabel

\* The state in memory when there is none to read.
Defaults ==
  [file |-> "broken", recoveryNull |-> FALSE,
   active   |-> [src |-> {}, fs |-> "ext2", label |-> "COS_ACTIVE"],
   passive  |-> [src |-> {}, fs |-> "ext2", label |-> "COS_PASSIVE"],
   recovery |-> [src |-> {}, fs |-> "ext2", label |-> "COS_SYSTEM"]]

\* LoadInstallState reads the copy on the partition the system booted from.
LoadedState ==
  LET home == yaml[IF booted = "recovery" THEN "recovery" ELSE "state"]
  IN  IF home.file = "whole" THEN home ELSE [Defaults EXCEPT !.file = home.file]

\* NewUpgradeSpec and Sanitize: labels come from the install state and are
\* unset for squashfs; the configuration may override the file systems.
NewSpec(recovery, sysFS, recFS) ==
  [recovery      |-> recovery,
   activeFS      |-> sysFS,
   recoveryFS    |-> recFS,
   activeLabel   |-> IF sysFS = "squashfs" THEN "" ELSE LoadedState.active.label,
   passiveLabel  |-> IF sysFS = "squashfs" THEN "" ELSE LoadedState.passive.label,
   recoveryLabel |-> IF recFS = "squashfs" THEN "" ELSE LoadedState.recovery.label]

\* The sync command: everything written so far is on the disk.
Synced(d) == [s \in Slot |-> [d[s] EXCEPT !.dirty = FALSE]]
-----------------------------------------------------------------------------
(* Control flow.                                                           *)

Goto(p) == pc' = p /\ UNCHANGED <<err, exit>>

\* A return with an error: the deferred cleanup takes over.
Abort(code) == pc' = "cleanup" /\ err' = code /\ UNCHANGED exit

Succeeds == UNCHANGED faults
Fails    == faults < MaxFaults /\ faults' = faults + 1

\* The install state describes the images that are on the disk.
Accurate(state) ==
  \A s \in {"active", "passive", "recovery"} : state[s].src = disk[s].content

FSChoices(recorded, configured) ==
  IF FSOverride THEN configured \cup {recorded} ELSE {recorded}

\* The upgrade command is called.  What it finds is kept for the properties:
\* the mounts, the active image and the faults so far; whether the install
\* state is right ("trusted"), whether nothing of an interrupted run lies
\* where it works ("fresh"), whether nothing keeps it from succeeding ("able").
StartUpgrade(recovery, sysFS, recFS) ==
  /\ pc \in {"ready", "exited"} /\ runs < MaxRuns
  /\ sysFS \in FSChoices(LoadedState.active.fs, SystemFS)
  /\ recFS \in FSChoices(LoadedState.recovery.fs, RecoveryFS)
  /\ spec' = NewSpec(recovery, sysFS, recFS)
  /\ loaded' = LoadedState
  /\ runs' = runs + 1
  /\ LET slot  == IF recovery THEN "transRecovery" ELSE "transState"
         trans == disk[slot]
         fs    == IF recovery THEN recFS ELSE sysFS
     IN  start' = [mnt |-> mnt, active |-> disk["active"].content, faults |-> faults,
                   trusted |-> Accurate(LoadedState),
                   fresh   |-> tree[slot] = {} /\ work = <<>> /\ trans.fs = "none",
                   able    |-> /\ recovery \/ disk["active"].fs # "none"
                               /\ work = <<>> /\ loops = {} /\ HasOEM
                               /\ fs = "squashfs" => trans.fs = "none"]
  /\ jobs' = <<>> /\ err' = "none" /\ cleanErr' = FALSE /\ exit' = 0
  /\ pc' = "mountState"
  /\ UNCHANGED <<persistentVars, volatileVars, faults>>
-----------------------------------------------------------------------------
(* Mounting the partitions.                                                *)

Unmounter(p) == [op |-> IF mnt[p] = "none" THEN "umount" ELSE "remountRO", part |-> p]

MountRWPartition(p) == mnt' = [mnt EXCEPT ![p] = "rw"]

MountState ==
  /\ pc = "mountState"
  /\ \/ /\ Succeeds /\ MountRWPartition("state")
        /\ jobs' = Append(jobs, Unmounter("state"))
        /\ Goto("mountRecovery")
     \/ /\ Fails /\ Abort("MountStatePartition")
        /\ UNCHANGED <<mnt, jobs>>
  /\ UNCHANGED <<persistentVars, booted, work, loops, runVars, cleanErr>>

\* Mutant: the removal of the transition file is pushed before the unmount.
MountRecoveryEarlyRemove ==
  /\ pc = "mountRecovery" /\ Succeeds /\ MountRWPartition("recovery")
  /\ jobs' = <<[op |-> "remove", part |-> HomePart]>> \o jobs \o <<Unmounter("recovery")>>
  /\ Goto("mountPersistent")
  /\ UNCHANGED <<persistentVars, booted, work, loops, runVars, cleanErr>>

\* Once recovery is mounted the removal of the transition file is pushed too.
MountRecovery ==
  /\ pc = "mountRecovery"
  /\ \/ /\ Succeeds /\ MountRWPartition("recovery")
        /\ jobs' = jobs \o <<Unmounter("recovery"), [op |-> "remove", part |-> HomePart]>>
        /\ Goto("mountPersistent")
     \/ /\ Fails /\ Abort("MountRecoveryPartition")
        /\ UNCHANGED <<mnt, jobs>>
  /\ UNCHANGED <<persistentVars, booted, work, loops, runVars, cleanErr>>

\* Only when it is not mounted yet; a failure is only logged.
MountPersistent ==
  /\ pc = "mountPersistent"
  /\ \/ /\ HasPersistent /\ mnt["persistent"] = "none"
        /\ Succeeds /\ MountRWPartition("persistent")
        /\ jobs' = Append(jobs, Unmounter("persistent"))
     \/ /\ HasPersistent /\ mnt["persistent"] = "none"
        /\ Fails /\ UNCHANGED <<mnt, jobs>>
     \/ /\ ~HasPersistent \/ mnt["persistent"] # "none"
        /\ Succeeds /\ UNCHANGED <<mnt, jobs>>
  /\ Goto("beforeHook")
  /\ UNCHANGED <<persistentVars, booted, work, loops, runVars, cleanErr>>
-----------------------------------------------------------------------------
(* Hooks.  A hook that is not strict never fails.                          *)

RunHook(at, next, code) ==
  /\ pc = at
  /\ \/ Succeeds /\ Goto(next)
     \/ Fails /\ Abort(code)
  /\ UNCHANGED <<persistentVars, volatileVars, runVars, jobs, cleanErr>>

BeforeHook == RunHook("beforeHook", "deploy", "HookBeforeUpgrade")
AfterHook  == RunHook("afterHook", "grubVars", "HookAfterUpgrade")
PostHook   == RunHook("postHook", "stateYaml", "HookPostUpgrade")
-----------------------------------------------------------------------------
(* The scratch tree.                                                       *)

Top == work[Len(work)]

\* umount of WorkingImgDir: impossible while something is mounted under it.
\* Its error is ignored.
CanUnmountTree == work # <<>> /\ Top.left = {}
TreeUnmounts ==
  \/ /\ CanUnmountTree /\ Succeeds
     /\ work' = SubSeq(work, 1, Len(work) - 1)
  \/ ~CanUnmountTree /\ Succeeds /\ UNCHANGED work
  \/ CanUnmountTree /\ Fails /\ UNCHANGED work

\* RemoveAll of the tree directory.
RemoveTree(slot) == tree' = [tree EXCEPT ![slot] = {}]

\* One of the removals fails by itself, whatever the unmount did.
RemovalFails ==
  /\ Fails /\ UNCHANGED <<tree, lost>>
  /\ work' = IF CanUnmountTree THEN SubSeq(work, 1, Len(work) - 1) ELSE work

\* The tree cleaner that DeployImgTree returns: unmount, RemoveAll of the
\* mount point, RemoveAll of the tree.  While something is still mounted there,
\* what shows through it is deleted and the mount point itself resists.
TreeCleaner(slot) ==
  \/ /\ TreeUnmounts
     /\ IF work' = <<>> THEN RemoveTree(slot) /\ UNCHANGED lost
        ELSE LET shown == work'[Len(work')]
             IN  /\ tree' = [tree EXCEPT ![shown.slot] = {}]
                 /\ lost' = lost \cup shown.left
  \/ RemovalFails

\* Mutant: the error of the unmount is returned.
TreeCleanerFailedUnmount == work' = work
\* The errors of the removals: a mount point still in use, or a failure of their own.
TreeCleanerFailed == work' # <<>> \/ faults' # faults

\* DeployImgTree up to the bind mount.  A failed mount removes the tree and
\* whatever WorkingImgDir shows.
MountTree(at, slot, next) ==
  /\ pc = at
  /\ \/ /\ Succeeds /\ Goto(next)
        /\ work' = Append(work, [slot |-> slot, left |-> {}])
        /\ UNCHANGED <<tree, lost>>
     \/ /\ Fails /\ Abort("DeployImgTree")
        /\ \/ UNCHANGED <<tree, lost>>                     \* mkdir of the tree
           \/ RemoveTree(slot) /\ UNCHANGED lost          \* mkdir of the root
           \/ IF work = <<>> THEN RemoveTree(slot) /\ UNCHANGED lost
              ELSE /\ tree' = [tree EXCEPT ![slot] = {}, ![Top.slot] = {}]
                   /\ lost' = lost \cup Top.left
        /\ UNCHANGED work
  /\ UNCHANGED <<disk, yaml, grub, booted, mnt, loops, runVars, jobs, cleanErr>>

BindTree == MountTree("deploy", TransSlot, "dump")

\* DumpSource and CreateDirStructure: the source is extracted over whatever
\* the tree already holds.
Extract(at, slot, source, next) ==
  /\ pc = at
  /\ tree' = [tree EXCEPT ![slot] = @ \cup source]
  /\ \/ /\ Succeeds
        /\ jobs' = Append(jobs, [op |-> "cleanTree", part |-> HomePart])
        /\ Goto(next)
     \/ /\ Fails /\ pc' = "dumpFailed" /\ err' = "DeployImgTree"
        /\ UNCHANGED <<jobs, exit>>
  /\ UNCHANGED <<disk, yaml, grub, lost, volatileVars, runVars, cleanErr>>

DumpSource == Extract("dump", TransSlot, {runs}, "relabel")

\* The error path of DeployImgTree calls the cleaner and ignores its error.
DropTree(slot) ==
  /\ pc = "dumpFailed" /\ TreeCleaner(slot)
  /\ pc' = "cleanup" /\ UNCHANGED <<err, exit>>
  /\ UNCHANGED <<disk, yaml, grub, booted, mnt, loops, runVars, jobs, cleanErr>>

DumpFailed == DropTree(TransSlot)
-----------------------------------------------------------------------------
(* Work inside the tree.                                                   *)

\* Mutant: the chroot is not closed.
ChrootedCallbackOpen(binds, next, code) ==
  \/ /\ Succeeds /\ Goto(next)
     /\ work' = [work EXCEPT ![Len(work)].left = @ \cup binds]
  \/ Fails /\ Abort(code) /\ UNCHANGED work

\* ChrootedCallback (module Chroot): with an error it may leave any of its
\* bind mounts in place, without one it leaves none.
ChrootedCallback(binds, next, code) ==
  \/ /\ Succeeds /\ Goto(next) /\ UNCHANGED work
  \/ /\ Fails /\ Abort(code)
     /\ \E left \in IF ChrootLeaks THEN SUBSET binds ELSE {{}} :
          work' = [work EXCEPT ![Len(work)].left = @ \cup left]

\* The bind mounts of both chroots: the kernel file systems, OEM and
\* persistent.  An unmounted persistent exposes nothing but its mount point.
ChrootBinds == {"dev"} \cup (IF HasOEM THEN {"oem"} ELSE {})
                       \cup (IF mnt["persistent"] # "none" THEN {"persistent"} ELSE {})

\* A squashfs image is not relabelled.
SelinuxRelabel ==
  /\ pc = "relabel"
  /\ \/ /\ ImageFS # "squashfs"
        /\ ChrootedCallback(ChrootBinds, "chrootHook", "SelinuxRelabel")
     \/ /\ ImageFS = "squashfs"
        /\ Succeeds /\ Goto("chrootHook") /\ UNCHANGED work
  /\ UNCHANGED <<persistentVars, booted, mnt, loops, runVars, jobs, cleanErr>>

ChrootHook ==
  /\ pc = "chrootHook"
  /\ ChrootedCallback(ChrootBinds, "afterHook", "HookAfterUpgradeChroot")
  /\ UNCHANGED <<persistentVars, booted, mnt, loops, runVars, jobs, cleanErr>>

SystemSlot == {"active", "passive", "recovery"}
\* Mutant: the label of the active image for the recovery system.
GrubLabelsMixed == [s \in SystemSlot |->
                      IF s = "passive" THEN spec.passiveLabel ELSE spec.activeLabel]
GrubLabels == [s \in SystemSlot |->
                 CASE s = "active"   -> spec.activeLabel
                   [] s = "passive"  -> spec.passiveLabel
                   [] s = "recovery" -> spec.recoveryLabel]

\* The variables are set one by one in no particular order.  Without an OEM
\* partition GetGrubLabels dereferences a nil pointer: the run panics, its
\* deferred cleanup still runs.
SetGrubVariables ==
  /\ pc = "grubVars"
  /\ \/ /\ ~HasOEM /\ Succeeds
        /\ Abort("panic") /\ UNCHANGED grub
     \/ /\ HasOEM /\ Succeeds /\ grub' = GrubLabels
        /\ Goto(IF spec.recovery THEN "createImg" ELSE "defaultEntry")
     \/ /\ HasOEM /\ Fails /\ Abort("SetGrubVariables")
        /\ \E set \in SUBSET SystemSlot :
             grub' = [s \in SystemSlot |-> IF s \in set THEN GrubLabels[s] ELSE grub[s]]
  /\ UNCHANGED <<disk, tree, yaml, lost, volatileVars, runVars, jobs, cleanErr>>

SetDefaultGrubEntry ==
  /\ pc = "defaultEntry"
  /\ \/ Succeeds /\ Goto("createImg")
     \/ Fails /\ Abort("SetDefaultGrubEntry")
  /\ UNCHANGED <<persistentVars, volatileVars, runVars, jobs, cleanErr>>
-----------------------------------------------------------------------------
(* The transition image (CreateImgFromTree).                               *)

\* Image creation failed: the deferred tree cleaner still runs.
ImgFails(cleaner) == pc' = cleaner /\ err' = "CreateImgFromTree" /\ UNCHANGED exit

NewFile(content, ok) ==
  [fs |-> ImageFS, content |-> content, label |-> ImageLabel, ok |-> ok, dirty |-> TRUE]

\* CreateFileSystemImage and MountImage: the file is created (an old one is
\* truncated), formatted and loop mounted.
MakeImage(at, slot, next, cleaner) ==
  /\ pc = at /\ ImageFS = "ext2"
  /\ \/ /\ Succeeds /\ Goto(next)
        /\ disk' = [disk EXCEPT ![slot] = NewFile({}, FALSE)]
     \/ /\ Fails /\ ImgFails(cleaner)
        /\ disk' \in {disk,                                       \* before Create
                      [disk EXCEPT ![slot] = NoFile],             \* mkfs
                      [disk EXCEPT ![slot] = NewFile({}, FALSE)]} \* MountImage
  /\ UNCHANGED <<tree, yaml, grub, lost, volatileVars, runVars, jobs, cleanErr>>

\* SyncData into the mounted image, then the deferred UnmountImage.
CopyTree(at, slot, cleaner) ==
  /\ pc = at
  /\ \/ /\ Succeeds /\ Goto(cleaner)
        /\ disk' = [disk EXCEPT ![slot] = NewFile(tree[slot], TRUE)]
        /\ UNCHANGED loops
     \/ /\ Fails /\ ImgFails(cleaner)
        /\ \E copied, leaked \in BOOLEAN :
             /\ copied => leaked
             /\ disk' = [disk EXCEPT ![slot] = NewFile(tree[slot], copied)]
             /\ loops' = IF leaked THEN loops \cup {HomePart} ELSE loops
  /\ UNCHANGED <<tree, yaml, grub, lost, booted, mnt, work, runVars, jobs, cleanErr>>

\* mksquashfs (external).  It appends to a squashfs file that already exists
\* and refuses any other existing file.
Squash(at, slot, cleaner) ==
  /\ pc = at /\ ImageFS = "squashfs"
  /\ LET old == disk[slot]
     IN  \/ /\ old.fs = "none" \/ (old.fs = "squashfs" /\ old.ok)
            /\ Succeeds /\ Goto(cleaner)
            /\ disk' = [disk EXCEPT ![slot] = NewFile(old.content \cup tree[slot], TRUE)]
         \/ /\ old.fs # "none" /\ ~(old.fs = "squashfs" /\ old.ok)
            /\ Succeeds /\ ImgFails(cleaner) /\ UNCHANGED disk
         \/ /\ Fails /\ ImgFails(cleaner)
            /\ disk' \in {disk, [disk EXCEPT ![slot] = NewFile(tree[slot], FALSE)]}
  /\ UNCHANGED <<tree, yaml, grub, lost, volatileVars, runVars, jobs, cleanErr>>

\* The deferred tree cleaner of CreateImgFromTree; its error counts unless the
\* image has failed already.
CleanThen(at, slot, next) ==
  /\ pc = at /\ TreeCleaner(slot)
  /\ IF err # "none" THEN pc' = "cleanup" /\ UNCHANGED <<err, exit>>
     ELSE IF TreeCleanerFailed THEN Abort("CreateImgFromTree") ELSE Goto(next)
  /\ UNCHANGED <<disk, yaml, grub, booted, mnt, loops, runVars, jobs, cleanErr>>

CreateImage == MakeImage("createImg", TransSlot, "fillImg", "cleanTree")
FillImage   == CopyTree("fillImg", TransSlot, "cleanTree")
SquashImage == Squash("createImg", TransSlot, "cleanTree")

\* Mutant: no backup of the active image.
CleanTreeNoBackup == CleanThen("cleanTree", TransSlot, "swap")
CleanTree == CleanThen("cleanTree", TransSlot, IF spec.recovery THEN "swap" ELSE "backup")
-----------------------------------------------------------------------------
(* Rotating the images.                                                    *)

\* mv -f: one rename within a file system.
Renamed(from, to) == [disk EXCEPT ![to] = disk[from], ![from] = NoFile]

\* mv -f active.img passive.img, whatever image the system was booted from.
Backup ==
  /\ pc = "backup"
  /\ \/ /\ disk["active"].fs # "none" /\ Succeeds
        /\ disk' = Renamed("active", "passive") /\ Goto("label")
     \/ /\ disk["active"].fs = "none" /\ Succeeds
        /\ Abort("MoveFile") /\ UNCHANGED disk
     \/ Fails /\ Abort("MoveFile") /\ UNCHANGED disk
  /\ UNCHANGED <<tree, yaml, grub, lost, volatileVars, runVars, jobs, cleanErr>>

\* Mutants: no sync after the relabelling; no relabelling.
LabelPassiveUnsynced ==
  /\ pc = "label" /\ Succeeds /\ Goto("swap")
  /\ disk' = [disk EXCEPT !["passive"].label = spec.passiveLabel]
  /\ UNCHANGED <<tree, yaml, grub, lost, volatileVars, runVars, jobs, cleanErr>>
LabelPassiveSyncOnly ==
  /\ pc = "label" /\ Succeeds /\ disk' = Synced(disk) /\ Goto("swap")
  /\ UNCHANGED <<tree, yaml, grub, lost, volatileVars, runVars, jobs, cleanErr>>

\* tune2fs -L on the passive image, then sync.  tune2fs knows no squashfs.
LabelPassive ==
  /\ pc = "label"
  /\ \/ /\ disk["passive"].fs # "squashfs" /\ Succeeds
        /\ disk' = Synced([disk EXCEPT !["passive"].label = spec.passiveLabel])
        /\ Goto("swap")
     \/ /\ disk["passive"].fs = "squashfs" /\ Succeeds
        /\ Abort("LabelImage") /\ UNCHANGED disk
     \/ Fails /\ Abort("LabelImage") /\ UNCHANGED disk
  /\ UNCHANGED <<tree, yaml, grub, lost, volatileVars, runVars, jobs, cleanErr>>

\* mv -f transition.img <final image>.
Swap ==
  /\ pc = "swap"
  /\ \/ Succeeds /\ disk' = Renamed(TransSlot, FinalSlot) /\ Goto("sync")
     \/ Fails /\ Abort("MoveFile") /\ UNCHANGED disk
  /\ UNCHANGED <<tree, yaml, grub, lost, volatileVars, runVars, jobs, cleanErr>>

Sync ==
  /\ pc = "sync" /\ disk' = Synced(disk) /\ Goto("postHook")
  /\ UNCHANGED <<tree, yaml, grub, lost, volatileVars, runVars, jobs, cleanErr, faults>>
-----------------------------------------------------------------------------
(* state.yaml.                                                             *)

\* Mutant: the record of the passive image is not updated.
NewInstallStateActiveOnly ==
  LET img == [src |-> {runs}, fs |-> ImageFS, label |-> ImageLabel]
      new == [loaded EXCEPT !.file = "whole"]
  IN  IF spec.recovery THEN [new EXCEPT !.recovery = img] ELSE [new EXCEPT !.active = img]

\* upgradeInstallStateYaml: the record of the replaced active image becomes
\* the one of the passive image, whose label is kept.
NewInstallState ==
  LET img == [src |-> {runs}, fs |-> ImageFS, label |-> ImageLabel]
      old == loaded.passive
      pas == IF old.src = {} THEN [old EXCEPT !.label = spec.passiveLabel] ELSE old
      new == [loaded EXCEPT !.file = "whole"]
  IN  IF spec.recovery THEN [new EXCEPT !.recovery = img, !.recoveryNull = FALSE]
      ELSE [new EXCEPT
              !.active  = img,
              !.passive = IF loaded.active.src = {} THEN pas
                          ELSE [pas EXCEPT !.src = loaded.active.src, !.fs = loaded.active.fs]]

\* WriteFile of one copy; a failed write may leave it truncated.
WriteYaml(p, state, next, code) ==
  \/ Succeeds /\ yaml' = [yaml EXCEPT ![p] = state] /\ Goto(next)
  \/ /\ Fails /\ Abort(code)
     /\ \E file \in {yaml[p].file, "broken", "empty"} : yaml' = [yaml EXCEPT ![p].file = file]

\* An empty state.yaml has no map of partitions to set an entry in: a panic.
WriteStateYaml ==
  /\ pc = "stateYaml"
  /\ \/ loaded.file # "empty" /\ WriteYaml("state", NewInstallState, "recoveryYaml", "state.yaml")
     \/ loaded.file = "empty" /\ Succeeds /\ Abort("panic") /\ UNCHANGED yaml
  /\ UNCHANGED <<disk, tree, grub, lost, volatileVars, runVars, jobs, cleanErr>>

WriteRecoveryYaml ==
  /\ pc = "recoveryYaml" /\ WriteYaml("recovery", NewInstallState, "cleanup", "state.yaml")
  /\ UNCHANGED <<disk, tree, grub, lost, volatileVars, runVars, jobs, cleanErr>>
-----------------------------------------------------------------------------
(* The cleanup stack (pkg/utils/cleanstack.go): the last job first, all of  *)
(* them whatever their errors.                                             *)

LastJob == jobs[Len(jobs)]

\* Mutant: the job is run but stays on the stack.
PopJobStays(op) ==
  /\ pc = "cleanup" /\ jobs # <<>> /\ LastJob.op = op
  /\ UNCHANGED <<jobs, pc, err, exit>>
PopJob(op) ==
  /\ pc = "cleanup" /\ jobs # <<>> /\ LastJob.op = op
  /\ jobs' = SubSeq(jobs, 1, Len(jobs) - 1)
  /\ UNCHANGED <<pc, err, exit>>

\* Reverting MountRWPartition; a loop device keeps its partition busy.
JobRevertMount(op, mode) ==
  /\ PopJob(op)
  /\ \/ /\ LastJob.part \notin loops /\ Succeeds
        /\ mnt' = [mnt EXCEPT ![LastJob.part] = mode] /\ UNCHANGED cleanErr
     \/ /\ LastJob.part \in loops /\ Succeeds
        /\ cleanErr' = TRUE /\ UNCHANGED mnt
     \/ Fails /\ cleanErr' = TRUE /\ UNCHANGED mnt
  /\ UNCHANGED <<persistentVars, booted, work, loops, runVars>>

JobUmount    == JobRevertMount("umount", "none")
JobRemountRO == JobRevertMount("remountRO", "ro")

\* remove: the transition file, if its partition is there to look for it.
JobRemove ==
  /\ PopJob("remove")
  /\ \/ /\ mnt[LastJob.part] = "rw" /\ Succeeds
        /\ disk' = [disk EXCEPT ![TransSlot] = NoFile] /\ UNCHANGED cleanErr
     \/ /\ mnt[LastJob.part] = "none" /\ Succeeds /\ UNCHANGED <<disk, cleanErr>>
     \/ /\ mnt[LastJob.part] = "ro" /\ disk[TransSlot].fs # "none" /\ Succeeds
        /\ cleanErr' = TRUE /\ UNCHANGED disk
     \/ Fails /\ cleanErr' = TRUE /\ UNCHANGED disk
  /\ UNCHANGED <<tree, yaml, grub, lost, volatileVars, runVars>>

CleanTreeJob(slot) ==
  /\ PopJob("cleanTree") /\ TreeCleaner(slot)
  /\ cleanErr' = (cleanErr \/ TreeCleanerFailed)
  /\ UNCHANGED <<disk, yaml, grub, booted, mnt, loops, runVars>>

JobCleanTree == CleanTreeJob(TransSlot)

\* The stack is empty.  The deferred cleanup wraps every error of the run into
\* a multierror, for which Execute exits with 1; a panic exits with 2.
CleanupDone ==
  /\ pc = "cleanup" /\ jobs = <<>>
  /\ IF err = "none" /\ ~cleanErr
     THEN Goto("power")
     ELSE /\ err' = IF err = "none" THEN "Cleanup" ELSE err
          /\ exit' = IF err = "panic" THEN 2 ELSE 1
          /\ pc' = "exited"
  /\ UNCHANGED <<persistentVars, volatileVars, runVars, jobs, cleanErr, faults>>
-----------------------------------------------------------------------------
(* Power.                                                                  *)

\* What the running system knew is gone.
PoweredOff ==
  /\ pc' = "off"
  /\ mnt' = [p \in Part |-> "none"] /\ work' = <<>> /\ loops' = {}
  /\ jobs' = <<>> /\ err' = "none" /\ cleanErr' = FALSE /\ exit' = 0
  /\ UNCHANGED <<tree, yaml, grub, lost, booted, runVars>>

\* PowerAction: nothing, a reboot or power off, or one that fails.
PowerAction ==
  /\ pc = "power"
  /\ \/ /\ Succeeds /\ pc' = "exited"
        /\ UNCHANGED <<persistentVars, volatileVars, runVars, cmdVars>>
     \/ Succeeds /\ disk' = Synced(disk) /\ PoweredOff
     \/ /\ Fails /\ pc' = "exited" /\ err' = "Reboot" /\ exit' = 1
        /\ UNCHANGED <<persistentVars, volatileVars, runVars, jobs, cleanErr>>

\* The operator reboots between two commands.
Reboot == pc \in {"ready", "exited"} /\ Succeeds /\ disk' = Synced(disk) /\ PoweredOff

\* Power loss: renames are durable, unsynced content may be gone.
PowerLoss ==
  /\ pc # "off" /\ Fails /\ PoweredOff
  /\ \E torn \in SUBSET {s \in Slot : disk[s].dirty} :
       disk' = Synced([s \in Slot |-> [disk[s] EXCEPT !.ok = @ /\ s \notin torn]])

\* The boot loader (external): the chosen image must be complete and, for a
\* file system with a label, carry the label the GRUB environment looks for.
Bootable(s) == disk[s].ok /\ (disk[s].fs = "ext2" => disk[s].label = grub[s])

\* What the boot menu assumes when grub_oem_env is gone (external).
DefaultLabels == [s \in SystemSlot |-> CASE s = "active"   -> "COS_ACTIVE"
                                         [] s = "passive"  -> "COS_PASSIVE"
                                         [] s = "recovery" -> "COS_SYSTEM"]

\* Active and passive systems run with state mounted read-only and persistent
\* mounted; the recovery system mounts only its own partition.
BootMounts(s) ==
  [p \in Part |-> CASE p = "state"      -> IF s = "recovery" THEN "none" ELSE "ro"
                    [] p = "recovery"   -> IF s = "recovery" THEN "ro" ELSE "none"
                    [] p = "persistent" -> IF s = "recovery" \/ ~HasPersistent
                                           THEN "none" ELSE "rw"]

Boot(s) ==
  /\ pc = "off" /\ Bootable(s)
  /\ booted' = s /\ mnt' = BootMounts(s)
  /\ Goto("ready")
  /\ UNCHANGED <<persistentVars, work, loops, runVars, jobs, cleanErr, faults>>
-----------------------------------------------------------------------------
Installed(fs, label, src) ==
  [fs |-> fs, content |-> src, label |-> IF fs = "squashfs" THEN "" ELSE label,
   ok |-> TRUE, dirty |-> FALSE]
InstalledDisk(sys, rec, src) ==
  [s \in Slot |-> CASE s = "active"   -> Installed(sys, "COS_ACTIVE", src)
                    [] s = "passive"  -> Installed(sys, "COS_PASSIVE", src)
                    [] s = "recovery" -> Installed(rec, "COS_SYSTEM", src)
                    [] OTHER          -> NoFile]

\* The installer records ext2 for passive, whatever active is.
Recorded(image) == [src |-> image.content, fs |-> image.fs, label |-> image.label]
RecordedState(d) ==
  [file |-> "whole", recoveryNull |-> FALSE, active |-> Recorded(d["active"]),
   passive |-> [Recorded(d["passive"]) EXCEPT !.fs = "ext2"],
   recovery |-> Recorded(d["recovery"])]

\* A machine as the installer leaves it (module Install), booted from any of its images.
Init ==
  /\ \E sys \in SystemFS, rec \in RecoveryFS : disk = InstalledDisk(sys, rec, {0})
  /\ tree = [s \in Slot |-> {}]
  /\ loaded = RecordedState(disk)
  /\ yaml = [p \in ImgPart |-> loaded]
  /\ grub = [s \in SystemSlot |-> disk[s].label]
  /\ lost = {}
  /\ booted \in SystemSlot /\ mnt = BootMounts(booted)
  /\ work = <<>> /\ loops = {}
  /\ pc = "ready" /\ jobs = <<>> /\ err = "none" /\ cleanErr = FALSE /\ exit = 0
  /\ spec = [recovery |-> FALSE, activeFS |-> "ext2", recoveryFS |-> "ext2",
             activeLabel |-> "", passiveLabel |-> "", recoveryLabel |-> ""]
  /\ runs = 0 /\ faults = 0
  /\ start = [mnt |-> mnt, active |-> {}, faults |-> 0,
              trusted |-> TRUE, fresh |-> TRUE, able |-> TRUE]

\* The steps of a running upgrade command.
Step ==
  \/ MountState \/ MountRecovery \/ MountPersistent
  \/ BeforeHook \/ BindTree \/ DumpSource \/ DumpFailed
  \/ SelinuxRelabel \/ ChrootHook \/ AfterHook
  \/ SetGrubVariables \/ SetDefaultGrubEntry
  \/ CreateImage \/ FillImage \/ SquashImage \/ CleanTree
  \/ Backup \/ LabelPassive \/ Swap \/ Sync
  \/ PostHook \/ WriteStateYaml \/ WriteRecoveryYaml
  \/ JobUmount \/ JobRemountRO \/ JobRemove \/ JobCleanTree \/ CleanupDone
  \/ PowerAction

Next ==
  \/ Step
  \/ \E recovery \in BOOLEAN, sys, rec \in {"ext2", "squashfs"} :
       StartUpgrade(recovery, sys, rec)
  \/ Reboot \/ PowerLoss
  \/ \E s \in SystemSlot : Boot(s)

Spec == Init /\ [][Next]_vars

-----------------------------------------------------------------------------
PersistentOK ==
  /\ disk \in [Slot -> Image]
  /\ tree \in [Slot -> SUBSET Version]
  /\ yaml \in [ImgPart -> InstallState]
  /\ grub \in [SystemSlot -> Label]
  /\ lost \subseteq {"dev", "oem", "persistent"}
VolatileOK ==
  /\ booted \in SystemSlot
  /\ mnt \in [Part -> Mode]
  /\ work \in Seq(Bind)
  /\ loops \subseteq ImgPart
RunOK ==
  /\ spec \in UpgradeSpec
  /\ loaded \in InstallState
  /\ start \in Start
  /\ runs \in Version
CommandOK ==
  /\ pc \in Running \cup {"ready", "exited", "off"}
  /\ jobs \in Seq(Job)
  /\ err \in Error /\ cleanErr \in BOOLEAN /\ exit \in 0 .. 2
  /\ faults \in 0 .. MaxFaults
TypeOK == PersistentOK /\ VolatileOK /\ RunOK /\ CommandOK

\* Power loss, failed calls and retries never cost the system its last image:
\* at every moment there is an active or a passive image, and neither of them
\* is ever a partly written one (the renames of Run and the sync between them).
SystemImageSurvives ==
  /\ disk["active"].fs # "none" \/ disk["passive"].fs # "none"
  /\ \A s \in {"active", "passive"} : disk[s].fs # "none" => disk[s].ok

\* Why it holds, and why recovery can be torn at one moment only: the system
\* images are never dirty, the transition image is complete when the rotation
\* begins and on the disk before it becomes the active image, and a recovery
\* image is dirty only between its rename and the sync (the order of steps in Run).
RotationSafe ==
  /\ disk["active"].fs # "none" \/ disk["passive"].fs # "none"
  /\ \A s \in {"active", "passive"} : disk[s].fs # "none" => disk[s].ok /\ ~disk[s].dirty
  /\ disk["recovery"].dirty => pc = "sync"
  /\ pc \in {"backup", "label", "swap"} \/ (pc = "cleanTree" /\ err = "none")
       => disk[TransSlot].fs # "none" /\ disk[TransSlot].ok
  /\ pc \in {"backup", "label"} => ~spec.recovery
  /\ pc = "swap" => disk[TransSlot].dirty = spec.recovery
  /\ pc = "cleanTree" /\ err = "none" /\ spec.recovery => disk[TransSlot].dirty

\* After any single fault, a power loss or a failed call, a machine that goes
\* down comes up again: some image boots, although between the renames and the
\* relabelling neither system image does.
SingleFaultBootable == pc = "off" /\ faults <= 1 => \E s \in SystemSlot : Bootable(s)

\* When the upgrade reports success, the image it replaced is, complete and
\* synced, exactly the requested source, and a system upgrade that did not run from
\* the passive image kept the former active one as passive.
DeliversRequestedImage ==
  pc = "power" /\ start.fresh =>
    /\ disk[FinalSlot].content = {runs} /\ disk[FinalSlot].ok /\ ~disk[FinalSlot].dirty
    /\ ~spec.recovery /\ booted # "passive" => disk["passive"].content = start.active

\* When the upgrade reports success, both copies of state.yaml name the
\* content of all three images, if the copy it loaded did so.
StateYamlAccurate ==
  pc = "power" /\ start.fresh /\ start.trusted =>
    \A p \in ImgPart : yaml[p].file = "whole" /\ Accurate(yaml[p])

\* When the upgrade reports success, every complete image carries the label the
\* GRUB environment names for it, so each of them boots.
GrubMatchesImages ==
  pc = "power" /\ start.trusted => \A s \in SystemSlot : disk[s].ok => Bootable(s)

\* When no cleanup job failed, a finished run leaves every partition mounted or
\* not as it found it, and leaves none writable that was not.
MountsRestored ==
  pc = "exited" /\ ~cleanErr =>
    \A p \in Part : /\ (mnt[p] = "none") = (start.mnt[p] = "none")
                    /\ mnt[p] = "rw" => start.mnt[p] = "rw"

\* When no cleanup job failed, a run that got past the mounts leaves no
\* transition image behind, whatever happened in it and before it.
TransitionRemoved ==
  /\ pc \in {"exited", "power"} /\ ~cleanErr
  /\ err \notin {"MountStatePartition", "MountRecoveryPartition"}
  => disk[TransSlot].fs = "none"

\* A run cleans up after itself, whichever step failed and in whatever state it
\* began: the jobs it pushed ran, all of them and in the order that lets them work.
CleanedUp == MountsRestored /\ TransitionRemoved

\* A run in which no call fails succeeds, also after runs that failed or were
\* interrupted, as long as there is still an active image to back up, no mount
\* is left over, mksquashfs does not meet an old transition image and state.yaml
\* is not empty.
RetrySucceeds ==
  pc = "exited" /\ runs > 0 /\ faults = start.faults /\ start.able /\ loaded.file # "empty"
    => err = "none"

\* Removing the scratch tree deletes files of the host (persistent, OEM or /dev)
\* only when a chroot could not be unmounted, and never behind the back of a run
\* that nothing it found kept from succeeding: it has failed before it does so.
HostDataKept == [][lost' # lost => err # "none" \/ ~start.able]_vars

\* pkg/types/v1/config.go, Sanitize unsets the labels of a squashfs active image:
\* such an image can be upgraded, a run in which no call fails on its own does
\* not end with an error.
SquashfsActiveUpgrades ==
  pc = "exited" /\ start.able /\ faults = start.faults /\ spec.activeFS = "squashfs"
    => err = "none"
=============================================================================
