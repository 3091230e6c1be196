------------------------------- MODULE Reset --------------------------------
(***************************************************************************)
(* The reset command (pkg/action/reset.go) next to the upgrade command on  *)
(* one machine.  A reset runs from the recovery system only.  It formats   *)
(* the state partition, with both system images, GRUB's files and one copy *)
(* of state.yaml, and deploys a source into a new active image that it     *)
(* copies to passive.  Upgrades and resets follow one another in any       *)
(* order; calls fail and the machine loses power as in module Upgrade,     *)
(* whose steps a reset shares where the code does.                         *)
(***************************************************************************)
EXTENDS Upgrade

VARIABLES
  stateFS,   \* the state partition: "unformatted", "formatted", or with "grub" files
  cmd,       \* the command that runs or ran last
  source     \* the sources whose files the reset deploys

resetVars == <<stateFS, cmd, source>>
allVars == <<vars, resetVars>>

ResetStage == {"unmountAll", "formatState", "formatData", "mountAll", "beforeReset",
               "deployActive", "dumpActive", "installGrub", "relabelReset",
               "chrootReset", "afterReset", "resetGrubVars", "resetEntry", "createActive",
               "fillActive", "cleanActive", "copyPassive", "postReset", "mountRecoveryRW",
               "resetYaml", "resetRecoveryYaml"}
ResetError == Error \cup {"UnmountPartitions", "FormatPartitions", "MountPartitions",
               "HookBeforeReset", "InstallGrub", "HookAfterResetChroot", "HookAfterReset",
               "DeployImage", "HookPostReset", "CreateFile"}
-----------------------------------------------------------------------------
(* The command and the partitions.                                         *)

\* NewResetSpec and Sanitize: only from the recovery system.  The source is the
\* recovery image the system runs from, or the one the configuration names.
StartReset(sysFS, external) ==
  /\ pc \in {"ready", "exited"} /\ runs < MaxRuns /\ booted = "recovery"
  /\ external \/ disk["recovery"].fs # "none"
  /\ sysFS \in FSChoices(LoadedState.active.fs, SystemFS)
  /\ spec' = NewSpec(FALSE, sysFS, LoadedState.recovery.fs)
  /\ loaded' = LoadedState
  /\ runs' = runs + 1
  /\ cmd' = "reset"
  /\ source' = IF external THEN {runs + 1} ELSE disk["recovery"].content
  /\ start' = [mnt |-> mnt, active |-> disk["active"].content, faults |-> faults,
               trusted |-> LoadedState.recovery.src = disk["recovery"].content,
               fresh   |-> TRUE,
               able    |-> /\ work = <<>> /\ loops = {} /\ HasOEM
                           /\ ~LoadedState.recoveryNull /\ stateFS # "unformatted"]
  /\ jobs' = <<>> /\ err' = "none" /\ cleanErr' = FALSE /\ exit' = 0
  /\ pc' = "unmountAll"
  /\ UNCHANGED <<persistentVars, volatileVars, faults, stateFS>>

StateSlot == {"active", "passive", "transState"}

\* UnmountPartitions of all partitions but recovery: every mounted one is tried;
\* a loop device keeps state busy.  Unmounting state writes its images back.
Held == {p \in loops \cap {"state"} : mnt[p] # "none"}
UnmountPartitions(stay) ==
  /\ stay \subseteq {p \in {"state", "persistent"} : mnt[p] # "none"}
  /\ Held \subseteq stay /\ IF stay = Held THEN Succeeds ELSE Fails
  /\ mnt' = [p \in Part |-> IF p = "recovery" \/ p \in stay THEN mnt[p] ELSE "none"]
  /\ disk' = [s \in Slot |-> IF s \in StateSlot /\ "state" \notin stay
                             THEN [disk[s] EXCEPT !.dirty = FALSE] ELSE disk[s]]

UnmountAll ==
  /\ pc = "unmountAll"
  /\ \E stay \in SUBSET Part :
       /\ UnmountPartitions(stay)
       /\ IF stay = {} THEN Goto("formatState") ELSE Abort("UnmountPartitions")
  /\ UNCHANGED <<tree, yaml, grub, lost, booted, work, loops, runVars, jobs, cleanErr,
                 resetVars>>

\* mkfs on the state partition.
StateWiped ==
  /\ disk' = [s \in Slot |-> IF s \in StateSlot THEN NoFile ELSE disk[s]]
  /\ tree' = [s \in Slot |-> IF s \in StateSlot THEN {} ELSE tree[s]]
  /\ yaml' = [yaml EXCEPT !["state"] = Defaults]
  /\ grub' = DefaultLabels

\* mkfs refuses a partition that a bind mount of an earlier run still holds.  The
\* file system to make is the one found on the partition, so a partition that a
\* failed mkfs left without one cannot be formatted.
StateInUse == \E i \in DOMAIN work : work[i].slot \in StateSlot
CanFormat  == ~StateInUse /\ stateFS # "unformatted"
FormatState ==
  /\ pc = "formatState"
  /\ \/ CanFormat /\ Succeeds /\ StateWiped /\ stateFS' = "formatted" /\ Goto("formatData")
     \/ /\ IF CanFormat THEN Fails ELSE Succeeds
        /\ Abort("FormatPartitions") /\ UNCHANGED <<disk, tree, yaml, grub, stateFS>>
     \/ /\ CanFormat /\ Fails /\ Abort("FormatPartitions")
        /\ StateWiped /\ stateFS' \in {"unformatted", "formatted"}
  /\ UNCHANGED <<lost, volatileVars, runVars, jobs, cleanErr, cmd, source>>

\* The optional formatting of persistent and OEM.
DataInUse == \E i \in DOMAIN work : work[i].left \cap {"oem", "persistent"} # {}
FormatData ==
  /\ pc = "formatData"
  /\ \/ Succeeds /\ Goto("mountAll")
     \/ DataInUse /\ Succeeds /\ Abort("FormatPartitions")
     \/ Fails /\ Abort("FormatPartitions")
  /\ UNCHANGED <<persistentVars, volatileVars, runVars, jobs, cleanErr, resetVars>>

\* Mutant: the unmount is not pushed on the cleanup stack.
MountAllForgotten ==
  /\ pc = "mountAll" /\ Succeeds /\ Goto("beforeReset")
  /\ mnt' = [mnt EXCEPT !["state"] = "rw", !["persistent"] = IF HasPersistent THEN "rw" ELSE @]
  /\ UNCHANGED <<persistentVars, booted, work, loops, runVars, jobs, cleanErr, resetVars>>

\* MountPartitions of all partitions but recovery; when one fails all of them
\* are unmounted, whatever that returns.
MountAll ==
  /\ pc = "mountAll"
  /\ \/ /\ Succeeds /\ Goto("beforeReset")
        /\ mnt' = [mnt EXCEPT !["state"] = "rw",
                              !["persistent"] = IF HasPersistent THEN "rw" ELSE @]
        /\ jobs' = Append(jobs, [op |-> "umountAll", part |-> "state"])
     \/ /\ Fails /\ Abort("MountPartitions") /\ UNCHANGED jobs
        /\ \E stay \in SUBSET (IF HasPersistent THEN {"state", "persistent"} ELSE {"state"}) :
             mnt' = [p \in Part |-> IF p \in stay THEN "rw" ELSE mnt[p]]
  /\ UNCHANGED <<persistentVars, booted, work, loops, runVars, cleanErr, resetVars>>
-----------------------------------------------------------------------------
(* Deploying the source.                                                   *)

BeforeReset  == RunHook("beforeReset", "deployActive", "HookBeforeReset") /\ UNCHANGED resetVars
DeployActive == MountTree("deployActive", "active", "dumpActive") /\ UNCHANGED resetVars
DumpActive   == Extract("dumpActive", "active", source, "installGrub") /\ UNCHANGED resetVars

\* Grub.Install: the boot loader's files, its configuration last.
InstallGrub ==
  /\ pc = "installGrub"
  /\ \/ Succeeds /\ stateFS' = "grub" /\ Goto("relabelReset")
     \/ Fails /\ stateFS' \in {stateFS, "grub"} /\ Abort("InstallGrub")
  /\ UNCHANGED <<persistentVars, volatileVars, runVars, jobs, cleanErr, cmd, source>>

\* Whatever the file system of the image is.
RelabelReset ==
  /\ pc = "relabelReset"
  /\ ChrootedCallback(ChrootBinds, "chrootReset", "SelinuxRelabel")
  /\ UNCHANGED <<persistentVars, booted, mnt, loops, runVars, jobs, cleanErr, resetVars>>

ChrootReset ==
  /\ pc = "chrootReset"
  /\ ChrootedCallback(ChrootBinds, "afterReset", "HookAfterResetChroot")
  /\ UNCHANGED <<persistentVars, booted, mnt, loops, runVars, jobs, cleanErr, resetVars>>

AfterReset == RunHook("afterReset", "resetGrubVars", "HookAfterReset") /\ UNCHANGED resetVars

\* Mutant: the recovery system gets the label of the active image.
ResetLabelsActive ==
  [s \in SystemSlot |-> IF s = "passive" THEN spec.passiveLabel ELSE spec.activeLabel]
\* The label of the recovery system is the recorded one, if there is one.
ResetLabels ==
  [s \in SystemSlot |-> CASE s = "active"   -> spec.activeLabel
                          [] s = "passive"  -> spec.passiveLabel
                          [] s = "recovery" -> IF loaded.recovery.src = {} THEN grub[s]
                                               ELSE loaded.recovery.label]

\* GetGrubLabels dereferences a missing OEM partition and a null recovery entry.
SetResetVariables ==
  /\ pc = "resetGrubVars"
  /\ \/ /\ ~HasOEM \/ loaded.recoveryNull
        /\ Succeeds /\ Abort("panic") /\ UNCHANGED grub
     \/ /\ HasOEM /\ ~loaded.recoveryNull
        /\ Succeeds /\ grub' = ResetLabels /\ Goto("resetEntry")
     \/ /\ HasOEM /\ ~loaded.recoveryNull /\ Fails /\ Abort("SetGrubVariables")
        /\ \E set \in SUBSET SystemSlot :
             grub' = [s \in SystemSlot |-> IF s \in set THEN ResetLabels[s] ELSE grub[s]]
  /\ UNCHANGED <<disk, tree, yaml, lost, volatileVars, runVars, jobs, cleanErr, resetVars>>

ResetEntry == RunHook("resetEntry", "createActive", "SetDefaultGrubEntry") /\ UNCHANGED resetVars
-----------------------------------------------------------------------------
(* The images and state.yaml.                                              *)

CreateActive == MakeImage("createActive", "active", "fillActive", "cleanActive") /\ UNCHANGED resetVars
FillActive   == CopyTree("fillActive", "active", "cleanActive") /\ UNCHANGED resetVars
SquashActive == Squash("createActive", "active", "cleanActive") /\ UNCHANGED resetVars
CleanActive  == CleanThen("cleanActive", "active", "copyPassive") /\ UNCHANGED resetVars

\* Mutant: the copy keeps the label of the active image.
CopiedLabelKept == disk["active"].label
\* CopyFileImg asks the recorded file system of the active image, not the one
\* it has now, whether there is a label to set.
CopiedLabel == IF loaded.active.fs # "squashfs" /\ spec.passiveLabel # ""
               THEN spec.passiveLabel ELSE disk["active"].label

CopyPassive ==
  /\ pc = "copyPassive"
  /\ LET copy == [disk["active"] EXCEPT !.dirty = TRUE]
     IN  \/ /\ Succeeds /\ Goto("postReset")
            /\ disk' = [disk EXCEPT !["passive"] = [copy EXCEPT !.label = CopiedLabel]]
         \/ /\ Fails /\ Abort("DeployImage")
            /\ disk' \in {disk,                                               \* mkdir
                          [disk EXCEPT !["passive"] = [copy EXCEPT !.ok = FALSE]],
                          [disk EXCEPT !["passive"] = copy]}                  \* tune2fs
  /\ UNCHANGED <<tree, yaml, grub, lost, volatileVars, runVars, jobs, cleanErr, resetVars>>

PostReset == RunHook("postReset", "mountRecoveryRW", "HookPostReset") /\ UNCHANGED resetVars

MountRecoveryRW ==
  /\ pc = "mountRecoveryRW"
  /\ \/ /\ Succeeds /\ MountRWPartition("recovery")
        /\ jobs' = Append(jobs, Unmounter("recovery"))
        /\ Goto("resetYaml")
     \/ Fails /\ Abort("CreateFile") /\ UNCHANGED <<mnt, jobs>>
  /\ UNCHANGED <<persistentVars, booted, work, loops, runVars, cleanErr, resetVars>>

ResetStateMislabelled ==
  LET img == [src |-> source, fs |-> spec.activeFS, label |-> spec.activeLabel]
  IN  [file |-> "whole", recoveryNull |-> FALSE, active |-> img,
       passive |-> [img EXCEPT !.label = spec.passiveLabel, !.fs = loaded.active.fs],
       recovery |-> [loaded.recovery EXCEPT !.label = spec.activeLabel]]
\* updateInstallState: a new state, with the recovery entry of the loaded one:
\* a null when a state was loaded that had none.
ResetState ==
  LET img == [src |-> source, fs |-> spec.activeFS, label |-> spec.activeLabel]
  IN  [file |-> "whole",
       recoveryNull |-> loaded.file = "whole" /\ loaded.recovery.src = {},
       active   |-> img,
       passive  |-> [img EXCEPT !.label = spec.passiveLabel, !.fs = loaded.active.fs],
       recovery |-> loaded.recovery]

WriteResetYaml ==
  /\ pc = "resetYaml" /\ WriteYaml("state", ResetState, "resetRecoveryYaml", "CreateFile")
  /\ UNCHANGED <<disk, tree, grub, lost, volatileVars, runVars, jobs, cleanErr, resetVars>>

WriteResetRecoveryYaml ==
  /\ pc = "resetRecoveryYaml" /\ WriteYaml("recovery", ResetState, "cleanup", "CreateFile")
  /\ UNCHANGED <<disk, tree, grub, lost, volatileVars, runVars, jobs, cleanErr, resetVars>>
-----------------------------------------------------------------------------
(* Cleanup and the machine.                                                *)

DumpActiveFailed == DropTree("active") /\ UNCHANGED resetVars
JobCleanActive   == CleanTreeJob("active") /\ UNCHANGED resetVars

JobUnmountAll ==
  /\ PopJob("umountAll")
  /\ \E stay \in SUBSET Part :
       UnmountPartitions(stay) /\ cleanErr' = (cleanErr \/ stay # {})
  /\ UNCHANGED <<tree, yaml, grub, lost, booted, work, loops, runVars, resetVars>>

\* The steps of a running reset command.
ResetStep ==
  /\ cmd = "reset"
  /\ \/ UnmountAll \/ FormatState \/ FormatData \/ MountAll \/ BeforeReset
     \/ DeployActive \/ DumpActive \/ DumpActiveFailed \/ InstallGrub
     \/ RelabelReset \/ ChrootReset \/ AfterReset \/ SetResetVariables \/ ResetEntry
     \/ CreateActive \/ FillActive \/ SquashActive \/ CleanActive \/ CopyPassive
     \/ PostReset \/ MountRecoveryRW \/ WriteResetYaml \/ WriteResetRecoveryYaml
     \/ JobCleanActive \/ JobUnmountAll
     \/ (JobUmount \/ JobRemountRO \/ CleanupDone \/ PowerAction) /\ UNCHANGED resetVars

UpgradeStep == cmd = "upgrade" /\ Step /\ UNCHANGED resetVars

\* Without a file system on state an upgrade ends at its first mount.
CallUpgrade ==
  /\ \E recovery \in BOOLEAN, sys, rec \in {"ext2", "squashfs"} :
       StartUpgrade(recovery, sys, rec)
  /\ stateFS # "unformatted"
  /\ cmd' = "upgrade" /\ UNCHANGED <<stateFS, source>>
CallReset == \E sys \in {"ext2", "squashfs"}, external \in BOOLEAN : StartReset(sys, external)

\* Nothing boots without the files of the boot loader.
BootLoaded == stateFS = "grub" /\ (\E s \in SystemSlot : Boot(s)) /\ UNCHANGED resetVars

MachineInit == Init /\ stateFS = "grub" /\ cmd = "upgrade" /\ source = {}
MachineNext ==
  \/ UpgradeStep \/ ResetStep \/ CallUpgrade \/ CallReset
  \/ (Reboot \/ PowerLoss) /\ UNCHANGED resetVars
  \/ BootLoaded
MachineSpec == MachineInit /\ [][MachineNext]_allVars
FairMachineSpec == MachineSpec /\ WF_allVars(UpgradeStep \/ ResetStep)
-----------------------------------------------------------------------------
ResetTypeOK ==
  /\ PersistentOK /\ VolatileOK /\ RunOK
  /\ pc \in Running \cup ResetStage \cup {"ready", "exited", "off"}
  /\ jobs \in Seq(Job \cup [op : {"umountAll"}, part : {"state"}])
  /\ err \in ResetError /\ cleanErr \in BOOLEAN /\ exit \in 0 .. 2
  /\ faults \in 0 .. MaxFaults
  /\ stateFS \in {"unformatted", "formatted", "grub"} /\ cmd \in {"upgrade", "reset"} /\ source \subseteq Version

\* When a reset reports success, active and passive are both exactly the source,
\* complete, written back and bootable with the boot loader it installed; if the
\* install state it loaded described recovery, so is recovery, and both copies of
\* state.yaml now name the content of all three images.
ResetDelivers ==
  cmd = "reset" /\ pc = "power" =>
    /\ stateFS = "grub"
    /\ \A s \in {"active", "passive"} :
         disk[s].content = source /\ disk[s].ok /\ ~disk[s].dirty /\ Bootable(s)
    /\ start.trusted => /\ Bootable("recovery")
                        /\ \A p \in ImgPart : yaml[p].file = "whole" /\ Accurate(yaml[p])

\* Whatever failed or interrupted upgrades and resets left on the disk, a reset in
\* which no call fails succeeds, as long as no mount of theirs is left over, a failed
\* mkfs did not leave state unformatted and state.yaml has no null for recovery.
ResetRepairs ==
  cmd = "reset" /\ pc = "exited" /\ faults = start.faults /\ start.able => err = "none"

\* When no cleanup job failed, a reset that got past the mounts leaves state and
\* persistent unmounted and recovery not writable.
ResetUnmounts ==
  cmd = "reset" /\ pc = "exited" /\ ~cleanErr /\ err \notin {"UnmountPartitions", "MountPartitions"}
  => /\ mnt["state"] = "none" /\ mnt["persistent"] = "none"
     /\ mnt["recovery"] = "rw" => start.mnt["recovery"] = "rw"

\* Upgrades keep their promises on a machine where resets succeed, fail and are
\* interrupted: what they deliver, record, label and clean up.  Only a passive image
\* that an interrupted reset did not label keeps the wrong label until a system upgrade.
UpgradesUnaffected ==
  cmd = "upgrade" => /\ DeliversRequestedImage /\ StateYamlAccurate
                     /\ spec.recovery \/ GrubMatchesImages
                     /\ CleanedUp

\* As long as the boot loader is there, a machine that goes down after a single
\* fault, in an upgrade or in a reset, comes up again.
SingleFaultBoots ==
  pc = "off" /\ faults <= 1 /\ stateFS = "grub" => \E s \in SystemSlot : Bootable(s)

\* Every run of either command ends, through all of its cleanup jobs.
CommandsEnd == (pc \in Running \cup ResetStage) ~> (pc \in {"exited", "off"})
=============================================================================
