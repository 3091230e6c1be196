# TLA+ models of elemental-cli

`elemental` installs, upgrades and resets machines that run from read-only
images. It rewrites the disk the machine boots from, with calls each of which
can fail, and the power can go at any time. This directory models that: which
steps a command makes in which order, what each leaves behind when it fails or
is cut short, and what the next command, or the next boot, finds.

* [Inventory](#inventory) - the parts of the system
* [Modules](#modules) - what each module models and how it corresponds to the code
* [Runs](#runs) - what TLC checks, the bounds, the fairness
* [Proofs](#proofs) - what TLAPS proves and along which argument
* [Divergences](#divergences) - where code and documentation disagree
* [Limits](#limits) - abstractions, what is only model-checked, what is not modelled
* [Plan](#plan) - what comes next

Paths are relative to the repository. Check with `tlc -config X.cfg M` for the
pairs in the table of runs; prove with `tlapm M.tla` for the modules named `*Proofs`.

## Inventory

| Part | State | Operations | What makes it correct |
|---|---|---|---|
| upgrade action (`pkg/action/upgrade.go`) | the image files `active.img`, `passive.img`, `recovery.img`, `transition.img`; scratch trees; two copies of `state.yaml`; the GRUB environment | `Run`: mounts, deploy, build the transition image, rotate, record, clean up | never without a complete system image; success means the requested source, recorded and labelled; mounts put back |
| reset action (`pkg/action/reset.go`) | the same, from recovery | `Run`: unmount, format, build active, copy passive, install GRUB, record | repairs whatever is left; both system images equal the source |
| install action (`pkg/action/install.go`) | the same, on a new or old disk; a downloaded ISO | `Run`: ISO, partition or not, active, recovery, passive, GRUB, record | ends in the state upgrades start from; can be repeated |
| cleanup stack (`pkg/utils/cleanstack.go`) | a stack of jobs | `Push`, `Pop`, `Cleanup` | every job runs, last pushed first, whatever fails |
| chroot environment (`pkg/utils/chroot.go`) | active mounts, the process root | `Prepare`, `Close`, `RunCallback` | it knows of every mount it left; a failure is reported |
| image operations (`pkg/elemental/elemental.go`) | mounts, loop devices, scratch trees | `MountRWPartition`, `DeployImgTree`, `CreateImgFromTree`, `CopyFileImg`, `DumpSource` and more | the commands' properties rest on what these leave on failure |
| install state and specs (`pkg/types/v1/config.go`, `pkg/config/config.go`) | `state.yaml` | `LoadInstallState`, `WriteInstallState`, the `New*Spec` constructors, `GetGrubLabels` | the record describes the images |
| partitioner (`pkg/partitioner`) | a partition table, its file systems | `AddPartition`, `ExpandLastPartition`, `FormatPartition`, `Reload` | numbers and sectors it believes in are those on the disk |
| layout plugin (`pkg/cloudinit/layout_plugin.go`) | the same disk | `Layout`, at every boot | repeating it changes nothing; nothing is lost |
| GRUB installation (`pkg/utils/grub.go`) and boot manager (`pkg/efi`) | files on the boot partition, firmware variables `BootXXXX` and `BootOrder` | `Install`, `FindOrCreate`, `PrependAndSetBootOrder` | boots elemental first, other systems keep entries and order |
| build-iso (`pkg/action/build-iso.go`, `pkg/live`) | trees of the root, EFI and ISO file systems in a scratch directory; the ISO and its `.sha256` | `ISORun`: apply sources, boot loaders, squashfs, EFI image, burn, checksum | success is the ISO asked for; no checksum vouches for another one; the host is left alone |
| stages and hooks (`pkg/utils/runstage.go`, `pkg/action/common.go`) | the executor's modifier, which all hooks share; the files that stages find and make | `RunStage`, `Hook`, `ChrootHook` | each stage runs over all there is; errors count if strict; chroot errors always |
| command line (`cmd`, `cmd/config`), exit codes (`pkg/error`) | the merged configuration of viper | merge files, bind environment and flags, decode, sanitize | the highest layer wins; an action starts with all it needs |
| partition lookup (`pkg/utils/getpartitions.go`, `GetByNameOrLabel`) | none: it reads the disks | the partitions of all disks, by name, label and mount | those of the installed system are found, not another disk's |
| services (`pkg/http`, runner, mounter, syscalls), raw disks (`pkg/utils/vhd.go`) | none | thin wrappers | calls that succeed or fail |

The commands run one at a time on a machine. They interact through what they
leave: images, scratch trees, mounts, loop devices, `state.yaml`, GRUB's
environment, the partition table, firmware variables. So the hard behaviour is
not interleaving of threads but *sequences with faults*: each call may fail,
the early returns leave different parts undone, the deferred cleanup runs on
whatever there is and can fail too, the power may go between two steps, the
next run starts on the result with or without a reboot. `PROJECT.json` lists
these hazards at their lines, with the properties that would notice.

## Modules

| Module | Models | Extends |
|---|---|---|
| `Upgrade` | upgrade action with its spec, image operations, cleanup stack, boot and power loss | |
| `ImageSlots` | abstract: what may happen to the three bootable images | |
| `UpgradeSlots` | refinement mapping from `Upgrade` to `ImageSlots` | `Upgrade` |
| `Reset` | reset action; upgrades and resets in any order on one machine | `Upgrade` |
| `Install`, `MCInstall` | install action from a live medium | `Upgrade` |
| `Chroot` | any sequence of calls on one `Chroot` | |
| `Stages`, `MCStages` | hooks, on the host and in a chroot: `RunStage` inside `RunCallback` | `Chroot` |
| `BuildISO`, `MCBuildISO` | builds of ISOs into one file, one after the other | `Chroot` |
| `Commands`, `MCCommands` | what install, upgrade, reset and build-iso do before their action: configuration, flags, partition lookup, checks | |
| `PartitionLists` | the firmware partitions and `PartitionsByInstallOrder`, as operators | |
| `Partitioner`, `MCPartitioner` | `Disk`, `parted`, `mkfs`, the installer's partitioning and the layout plugin on one disk | `PartitionLists` |
| `GrubInstall`, `MCGrubInstall` | `Grub.Install` and the boot manager, with other systems using the same firmware | |
| `UpgradeProofs` | theorems about the upgrade: types, the rotation, the refinement, and what a run cleans up, delivers, records and labels | `UpgradeSlots` |
| `ResetProofs` | theorems about resets, on a machine that also upgrades | `Reset`, `UpgradeProofs` |
| `SingleFaultProofs` | the theorem that such a machine survives a single fault | `ResetProofs` |
| `InstallProofs` | theorems about installations | `Install`, `UpgradeProofs` |
| `PartitionerProofs` | theorems about layouts and installations on one disk | `Partitioner` |
| `GrubInstallProofs` | theorems about the boot loader and the firmware's variables | `GrubInstall` |
| `ChrootProofs` | the inductive invariant of the chroot environment; theorems about its clients, hooks and builds | `Stages`, `BuildISO` |
| `CommandsProofs` | theorems about what a command starts with | `Commands` |

**Form.** A run of a command is a program counter `pc` over its stages; a stage
is one action, guarded by `pc`, and stands for a call of the code with the
early return behind it. `Succeeds` and `Fails` (which costs one of `MaxFaults`)
are the two outcomes of a call. `Abort(code)` is the early return: it goes to
the cleanup, whose stack is the sequence `jobs`; the last job pushed runs
first. Error codes keep the names of `pkg/error/exit-codes.go`. Where a later
failure makes a difference, e.g. a file truncated but not written, the action
has a disjunct for each thing that the failed call leaves.

**Upgrade.** `disk` maps the image names to `Image` records. Run *n* deploys
source *n*; `content` is the set of sources an image has files from, so two
elements mean a mix of two systems, which happens when the scratch tree of an
interrupted run is still there. `ok` and `dirty` tell complete and unsynced
images; a power loss tears dirty ones. `yaml` holds the two copies of
`state.yaml`, `grub` the labels of the environment, `mnt`, `work` and `loops`
the mounts. `start` records what a run found, for the properties only
(`fresh`: no scratch tree was left, `trusted`: the loaded state was accurate,
`able`: no leftover blocks the run).

| `Upgrade` | `pkg/action/upgrade.go` |
|---|---|
| `StartUpgrade`, `NewSpec`, `Defaults`, `FSChoices` | `cmd/upgrade.go`, `NewUpgradeSpec`, `Sanitize` |
| `MountState`, `MountRecovery`, `MountPersistent` | 152-180, with `MountRWPartition` |
| `BeforeHook`, `AfterHook`, `PostHook` | 182, 225, 291 |
| `BindTree`, `DumpSource`, `DumpFailed` | `DeployImgTree`, with `DumpSource` |
| `SelinuxRelabel`, `ChrootHook` | 198-224 |
| `SetGrubVariables`, `SetDefaultGrubEntry` | 231-246 |
| `CreateImage`, `FillImage`, `SquashImage`, `CleanTree` | `CreateImgFromTree` |
| `Backup`, `LabelPassive`, `Swap`, `Sync` | 258-288, the rotation |
| `WriteStateYaml`, `WriteRecoveryYaml` | `upgradeInstallStateYaml`, `WriteInstallState` |
| `JobUmount`, `JobRemountRO`, `JobRemove`, `JobCleanTree`, `CleanupDone` | the deferred cleanup |
| `PowerAction`, `Reboot`, `PowerLoss`, `Boot` | `PowerAction` and the machine |

**Reset.** One action per stage of `pkg/action/reset.go`, in `ResetStep`;
`CallUpgrade` and `CallReset` let both commands follow one another, with the
upgrade's steps (`UpgradeStep`) as they are. `stateFS` tells whether the state partition
is formatted and has a boot loader; `source` says what the recovery system holds.

**Install.** One action per stage again. `how` holds the options of
a run: formatting, force, ISO source, a recovery system of its own; `device` how far
the disk is. Partitioning and the boot entries
are one step each here, which the next two modules open up.

**Partitioner.** `table` is the table on the disk and `dev` the copy the
`Disk` structure holds; `length` is the size of the disk and `known` the one its
GPT knows. The differences between them are what most of its properties are about. Sizes and starts are in sectors of `1/SectorsPerMiB` MiB.
`parted` is external: it commits commands one by one, gives a new partition the
lowest free number and refuses what does not fit.

**GrubInstall.** `option` and `order` are the firmware variables `BootXXXX` and
`BootOrder`, `bm` the boot manager's copy of them. Other systems add, remove and
reorder entries between the runs (`OtherSystem`), and what they have must be kept. A run is an
installation, which clears elemental's entries and formats the EFI partition or keeps it, or a
reset, which keeps both.

**Chroot.** `mounted` counts what is mounted, `activeMounts` is the field of
the structure, `root` the root of the process. A callback is a step of its own,
`CallbackReturns`, which the modules below replace by what really runs there.

**Stages.** Composes hooks with the chroot they run in: `ChrootHook` is
`Call("RunCallback")`, and while `pc = "callback"` the steps of `RunStage` are
taken (`at` is their counter), the last of which lets the callback return. `todo`
is what a `Run` of yip has left, `ran` what it ran with stage, notation and
root, `present` the local files, to which anything that runs may add. `began[i]`
records what was there when stage *i* began, for the property only.

**BuildISO.** `tree` holds what was put into each of the three trees, in
order, as names of sources and parts; `squash`, `efiImg` and `output` are
made of them. `EnterChroot`, `ChrootStep`, `InCallback` and `LeaveChroot` are
`BuildEltoritoImg` on the chroot of `Chroot`. `output` and `sha256`
survive from build to build; the removal of the scratch directory (`Cleanup`)
also removes what a leaked mount shows there (`lost`).

**Commands.** A layer (file, environment, flags) is a function from keys to
values; `vp` is what viper has merged. One option of each kind stands for
those that are read the same way. `in` is the input, including the host: firmware, default
source, whether it runs from recovery, and the partitions of all disks in the
order of the kernel, with the labels that `state.yaml` records.
`Found` is viper's search for a configuration file by its name; `Pick`, `ByName`, `ByLabel`
and `Lookup` are `GetByName` and its relatives.

| `Commands` | code |
|---|---|
| `ReadOSRelease`, `ReadConfig`, `ReadDropin`, `DropinsRead`, `Decode` | `ReadConfigRun`, `ReadConfigBuild` |
| `ValidateFlags`, `AdaptFlags` | `cmd/flags.go` |
| `ReadSpec` with `Default`, `NewSpecFails`, `Lookup`, `Insane` | `ReadInstallSpec`, `ReadUpgradeSpec`, `ReadResetSpec`, the constructors, `Sanitize` |
| `ReadBuildISO`, `TakeSource`, `TakeOverlays` | `ReadBuildISO`, `cmd/build-iso.go:80` |
| `TakeTarget` | `cmd/install.go:78` |

## Runs

| Run | Module / configuration | Shows | About |
|---|---|---|---|
| upgrade_faults | `UpgradeSlots` / `Upgrade_faults` | no system image lost or torn, `ImageSlots` implemented, one fault leaves a bootable machine, success delivers, records and labels, cleanup, host files deleted never without an error, retry | 75 s |
| reset_machine | `Reset` / `Reset_machine` | a reset delivers and repairs; upgrades keep their promises on such a machine; one fault leaves it bootable | 50 s |
| reset_panics | `Reset` / `Reset_panics` | without OEM partition both commands panic; cleanup still runs, every run ends | 55 s |
| install_live | `MCInstall` / `Install_live` | success is the state that `Upgrade` starts from; a retry repairs; nothing stays mounted; no-format costs at most one image | 75 s |
| chroot_stages | `MCStages` / `Stages_hooks` | the chroot's bookkeeping is exact and leftovers are reported; stages are complete, in their root and notation, whatever ran before; a hook fails exactly when it should | 30 s |
| build_iso | `MCBuildISO` / `BuildISO_rebuilds` | success delivers all sources in order and what the firmware boots; the checksum never fits a broken ISO; success leaves the host alone; what fits succeeds | 10 s |
| commands_layers | `MCCommands` / `Commands_layers` | the highest layer wins for each option of each command; an action starts with what it needs and on the right disk | 20 s |
| partitioner_gpt | `MCPartitioner` / `Partitioner_gpt` | what a successful run delivers, what a layout never touches, idempotence, success where there is room | 30 s |
| grub_history | `MCGrubInstall` / `GrubInstall_history` | boots elemental first, others keep entries and order, nothing piles up, retry | 90 s |
| upgrade_squashfs, partitioner_expand, config_partitions | as in `PROJECT.json` | one [divergence](#divergences) each | s |

**Bounds.** `MaxFaults = 2` lets a fault hit the run, and a second one its
cleanup or the following run; the promises for one fault are conditional on
`faults <= 1`, those on retries on no fault since the run started. `MaxRuns = 3`
gives: a run that fails, one that starts on its leftovers, one more on the
result. With two runs, what the first delivers is never the image a
failed second one leaves to a third. Image sources are numbered by the run, so any number
greater than the runs adds nothing. `Reset_panics` uses two runs because it checks
liveness. `Reset_machine` has system images of both file systems, an ext2 recovery
image, which a reset never writes, and no persistent partition, which
`Reset_panics` has.
`Partitioner` runs on disks of 5 or 7 MiB with sectors of half a MiB: small enough that tables fill up exactly, with a one-sector backup GPT,
so every boundary of the free space computation is met; three old tables, with
one and two partitions and a gap. `GrubInstall` has numbers 0 to 2: a number may
be free, of another system, or elemental's own, and all may be taken; its images are a
complete one and one without a module and the shim. `Stages`
has four calls and three faults: a hook in a chroot that leaks, a `Close` that fails and is
retried, another hook, which sees what the first ones left; a local path, a URL, and a file that
only `cos.setup` names, each there or not, are the kinds of sources that the code
tells apart. `BuildISO` has BIOS builds with the boot loader from the root, from a source of the ISO and from neither; three builds, so that an old ISO with its
checksum meets a failed rebuild and then a good one, and three faults, as many as it takes to fail in the
chroot, in leaving it and in the cleanup; EFI trees are empty, just below, at
and beyond what the aligned image holds. `Commands` is one process: what is
enumerated is each layer with a value that meets one in another layer, and each
bad file, flag and argument; hosts have the names or labels of a second disk collide
with none or one of those of the installed system. Deadlock checking is off because bounded behaviours end;
`CommandsEnd` shows that no run of an upgrade or reset stops half way.

**Fairness.** Only `reset_panics` needs it: `WF(UpgradeStep \/ ResetStep)`. A
command is one sequential goroutine that the operating system schedules, and
the calls it makes return; nothing else is fair: nobody has to call a command,
reboot, or lose power. `CommandsEnd` then says that each run comes to an exit,
or the machine went down.

**Mutants.** Each property of a passing run is violated when one mapped
definition is replaced by a mutated form: a dropped sync, a swapped order, a
guard missing (`PROJECT.json`, "mutants"; the mutated operators stand before
their originals in the modules).

## Proofs

For every value of the constants that satisfies the assumption of the module:

* `UpgradeAssumption`: any number of runs and faults, any file systems, with or
  without OEM and persistent partitions; `InstallAssumption`: any set of options.
* `ChrootAssumption`: any list of distinct extra mounts, any number of calls and
  faults; `StagesAssumption`: any list of paths, remote or local, none of which is called
  like the command line; for `BuildISO` any specs, sources and sizes.
* `PartitionerAssumption` and `InputsAssumption`: any disk sizes, any sector size with a backup GPT
  shorter than a MiB; any old tables numbered in the order of the disk and without
  overlaps (`AddPartition` counts on from the last number, so it relies on that order
  itself); any layouts with at most one size to expand to, since the
  configuration has one `expand_partition`; any installations that have a partition to make,
  since `PartitionAndFormatDevice` always makes the state partition.
* `GrubAssumption`: any highest entry number but 0, any number of runs and faults.
* `CommandsAssumption`: any files, drop-ins, environments, flags and hosts; the growing size a file
  gives is a number, which the decoder requires, and a partition that is found is on a disk.

The theorems:

| Theorem | States |
|---|---|
| `UpgradeProofs!TypeCorrect` | `Spec => []TypeOK` |
| `UpgradeProofs!RotationCorrect` | `Spec => []RotationSafe` |
| `UpgradeProofs!SystemSurvives` | `Spec => []SystemImageSurvives`: always an active or passive image, neither ever torn |
| `UpgradeProofs!HostData` | `Spec => HostDataKept` (an action property) |
| `UpgradeProofs!CleansUp` | `Spec => []CleanedUp` |
| `UpgradeProofs!RunCorrect` | `Spec => []RunInv`: types, rotation, stack and content together |
| `UpgradeProofs!Delivers` | `Spec => []DeliversRequestedImage` |
| `UpgradeProofs!RecordsImages` | `Spec => []StateYamlAccurate` |
| `UpgradeProofs!RetriesSucceed` | `Spec => []RetrySucceeds`, for ext2 system images |
| `UpgradeProofs!LabelsMatch` | `Spec => []GrubMatchesImages`, for ext2 system images, no change of file systems |
| `UpgradeProofs!FirstFaultBoots` | `Spec => []SingleFaultBootable`, likewise |
| `ResetProofs!MachineTypeCorrect` | `MachineSpec => []ResetTypeOK` |
| `ResetProofs!ResetUnmountsAll` | `MachineSpec => []ResetUnmounts` |
| `ResetProofs!ResetRepairsAll` | `MachineSpec => []ResetRepairs` |
| `ResetProofs!ResetDeliversAll` | `MachineSpec => []ResetDelivers`, if the configuration names no file system |
| `ResetProofs!UpgradesDeliver` | `MachineSpec => [](cmd = "upgrade" => DeliversRequestedImage /\ StateYamlAccurate /\ CleanedUp)` |
| `ResetProofs!UpgradesUnaffectedAll` | `MachineSpec => []UpgradesUnaffected`, if the configuration names no file system |
| `SingleFaultProofs!SingleFaultBootsAll` | `MachineSpec => []SingleFaultBoots`, if the configuration names no file system and recovery images are ext2 |
| `InstallProofs!InstallTypeCorrect` | `LiveSpec => []InstallTypeOK` |
| `InstallProofs!InstallCleansUpAll` | `LiveSpec => []InstallCleansUp` |
| `InstallProofs!InstallRepairsAll` | `LiveSpec => []InstallRepairs` |
| `InstallProofs!InstallDeliversAll` | `LiveSpec => []InstallDelivers` |
| `InstallProofs!NoFormatKeepsBootableAll` | `LiveSpec => []NoFormatKeepsBootable` |
| `UpgradeProofs!UpgradeImplementsSlots` | `Spec => ImplementsImageSlots` |
| `UpgradeProofs!SlotsAlwaysSurvive` | what that implies: in `ImageSlots` a complete system image always exists |
| `ChrootProofs!ChrootTracks` | `Spec => []Tracked`, of a client that makes any calls |
| `ChrootProofs!ChrootTypeCorrect` | `StagesSpec => []TypeOK` |
| `ChrootProofs!MountsTracked` | `StagesSpec => []Tracked` |
| `ChrootProofs!LeaksReported` | `StagesSpec => []LeakOnlyWithError` |
| `ChrootProofs!HooksReported` | `StagesSpec => []HooksReport` |
| `ChrootProofs!StagesCompleteAll` | `StagesSpec => []StagesComplete` |
| `ChrootProofs!ChecksumSound` | `BuildSpec => []VerifiedISOWhole` |
| `ChrootProofs!HostKept` | `BuildSpec => []SuccessKeepsHost` |
| `ChrootProofs!Delivers` | `BuildSpec => []ISODelivers` |
| `ChrootProofs!Succeeding` | `BuildSpec => []FittingBuildSucceeds` |
| `PartitionerProofs!FormatsOnlyItsOwn` | `Spec => []FormatsItsOwn` |
| `PartitionerProofs!LayoutsKeep` | `Spec => []LayoutKeeps` |
| `PartitionerProofs!LayoutsDeliver` | `Spec => []LayoutDelivers` |
| `PartitionerProofs!LayoutsAreStable` | `Spec => []LayoutStable` |
| `PartitionerProofs!InstallsDeliver` | `Spec => []InstallDelivers` |
| `PartitionerProofs!FittingInstallsSucceed` | `Spec => []FittingInstallSucceeds` |
| `GrubInstallProofs!GrubTypeCorrect` | `Spec => []TypeOK` |
| `GrubInstallProofs!BootsElementalAll` | `Spec => []BootsElemental` |
| `GrubInstallProofs!EntriesSoundAll` | `Spec => []EntriesSound` |
| `GrubInstallProofs!OthersKeepTheirOrderAll` | `Spec => []OthersKeepTheirOrder` |
| `GrubInstallProofs!RetrySucceedsAll` | `Spec => []RetrySucceeds` |
| `GrubInstallProofs!OthersUntouchedAll` | `Spec => OthersUntouched` (an action property) |
| `CommandsProofs!HighestLayerWinsAll` | `Spec => []HighestLayerWins` |
| `CommandsProofs!ActionReadyAll` | `Spec => []ActionReady` |

*Argument.* `SystemImageSurvives` is not inductive: a state in which `swap` is
about to rename an incomplete, or unsynced, transition image satisfies it, and
the next step, or a power loss after that, breaks it. `RotationSafe` adds what
the order of steps in `Run` establishes: system images are never dirty, the
transition image is complete from the end of `CreateImgFromTree` to the rename,
a system upgrade's was synced by the `sync` after `tune2fs` and a recovery
upgrade's was not, and recovery is dirty only between rename and sync.
Together with `TypeOK` it is inductive: it was checked as an invariant of
`upgrade_faults` first, then proved with one lemma per action. Actions before the image
exists share `BeforeImageRotation` (they touch no system image and leave `pc`
where the conjuncts say nothing), those after it `AfterImageRotation`.

The refinement maps the files to slots, `rotated` to the stages between
the renames, `unsynced` to a dirty recovery image. Each action is a stutter
except `Backup` (Rotate), `Swap` (Install or ReplaceRecovery), a failed `tune2fs`
or rename (Abandon), `Sync` and power loss (Settle, Damage, Abandon); it needs both invariants.
A second conclusion than `SystemSurvives` comes from it: the passive image is
only ever changed by moving active there. `ImageSlots` itself assumes only that
`Absent` is no image.

*The outcome of an upgrade.* Each property is about the last state of a run, so
its invariant says what holds at every stage on the way. TLC checked each of
them as an invariant of `upgrade_faults` before it was proved.

* `CleanInv`, for `CleanedUp`: the stack is a beginning of the jobs of a whole run, in
  the order of the code (`JobsOrdered`), of a length that goes with the stage
  (`JobsPushed`); a partition whose revert is on the stack is writable, one whose revert
  has run is as it was found, or a job has failed (`MountsTracked`). That is where the
  order counts: the transition image can only be removed while its partition is
  still writable, so its job is above the revert of recovery (`TransitionTracked`).
* `DeliverInv`, for `DeliversRequestedImage`: in a run that found nothing where it works and
  has not failed, the source is alone in the tree, then in the transition image, then in
  the final one (`FreshInv`); the former active image moves to passive
  (`PassiveInv`). Beside it `FilledInv`, images have content, which the record needs:
  an entry with `src = {}` is taken for a missing one.
* `RecordInv`, for `StateYamlAccurate`: what was loaded describes the disk up to the
  renames; between them it describes what has moved (`TrustInv`); then what will be
  written describes it, and the copies written so far are that (`YamlInv`).
* `RetryInv`, for `RetrySucceeds`: while no call has failed, no obstacle is there
  (`Unimpeded`): the work directory has exactly this run's mount while it needs one, active exists
  until it is backed up, mksquashfs meets no old file. `SystemFS = {"ext2"}` is a hypothesis,
  because with squashfs the relabelling does fail (`upgrade_squashfs`).
* `ImagesInv`, for `GrubMatchesImages`: which label the images, the records, the spec and
  GRUB's environment have at each stage. Its point is the recovery image: GRUB's label
  comes from the record, which describes the image only if it names the image's content. `SourceInv`
  says which run a source and a record can come from, so a record that names the
  content is not of another image.
* `CalmInv`, for `SingleFaultBootable`: no fault yet, or one that left no active image,
  means that the recovery system and its records are sound. The lemma
  `CalmBefore` is the core: a first fault costs the active image only between the renames.

For `LabelsMatch` and `FirstFaultBoots` the configuration is not to change file systems (`FSOverride = FALSE`): a
run of a *system* upgrade under a configuration that names squashfs for recovery unsets
the recovery label in GRUB's environment although the image is still the
ext2 one. The run has the same value.

*Resets.* The proofs are about `MachineSpec`: a reset begins with whatever earlier
upgrades and resets left, so the invariants hold across commands.

* `MachineTypes` adds to `ResetTypeOK` that a running upgrade has the types of `Upgrade`,
  with the lemmas of `UpgradeProofs`, and a reset its own stages.
* `UnmountInv`, for `ResetUnmounts`: which of the three jobs are on the stack at each stage
  (`StackInv`) and what each still will undo (`MountInv`).
* `RepairInv`, for `ResetRepairs`: while no call failed nothing is in the way (`Unhindered`):
  only its own tree is mounted, and active is gone until it is made, because formatting
  state removed what a failed command had left. It needs nothing about the past but the
  types, which is why a reset repairs anything.
* `HistoryInv`, for what `ResetDelivers` says of recovery: a reset does not touch the recovery
  image, but its record and GRUB's label for it come from the `state.yaml` it loaded.
  `RecordFine` holds of every copy ever written: if it names the content
  of the recovery image, the image is complete and has the file system and label it names. A
  recovery upgrade replaces the image before it writes the records, so the
  invariant also says that no record knows the running upgrade's source before then
  (`RecoveryTracked`); else an old record could come to describe a new image.
* `SourceTracked`, for the rest of `ResetDelivers`: where the source is at each stage of a
  reset without error. `FSOverride = FALSE` is a hypothesis: a configuration that names
  ext2 for active where the records say squashfs has the passive image labelled with the empty label
  that goes with squashfs.
* `UpgradesInv`, for `UpgradesUnaffected`: the invariants of a run of `Upgrade` hold of an
  upgrade on this machine too. They are local to the run: `CleanStart`, `DeliverStart` and
  `RecordStart` find them when it begins, whatever is on the disk, as long as absent images are empty
  and no record names passive without active (`PairedInv`), and those two a reset keeps.
  (`FilledInv` and the invariants of labels are not local, so they stay out of it.)
* `UpgradeLabels`, for the labels: a system upgrade writes those of its spec into GRUB's
  environment before the images have them. What it does not make, the recovery image,
  has GRUB's label by `RecordFine`. A passive image that an interrupted reset left unlabelled
  keeps the wrong one through a recovery upgrade, so the property is about system upgrades.

*A single fault.* `SingleFaultBoots` is about a machine of upgrades *and* resets: a reset leaves
the machine without system images for most of its run, and what an upgrade relies on, its records
and labels, may be a reset's. `RecoveryNamed` and `RecoveryWhole` give the recovery image its name
and say that it is complete before the first fault; so it boots, unless that fault cost it. One fault
can: a power loss before the sync of a recovery upgrade. The rest of the proof is about the machines to
which that may still happen (`MachineIsCalm`): they met no fault, or just this one. Lemma `CalmOnly` says
that nothing else keeps a machine calm, so on a calm machine every command succeeds, and
`CalmMachine` follows them in turn: records know what was installed, system images are
complete, synced and labelled but during a reset and between the renames of an upgrade, and nothing is
mounted. `ActivePlanned` adds the label a run plans for active. Recovery images are ext2 in the
theorem, as in the run: `RecoveryNamed` says so of every record, also of the defaults that stand in for
a `state.yaml` that is missing. For squashfs recovery images, which those defaults do not fit, the property
is not proved.

*Installations.* The proofs are about `LiveSpec`: installations from a live medium, one
after the other on what the earlier ones left, with failing calls and power losses.

* `TidyInv`, for `InstallCleansUp`: a downloaded ISO has its job at the bottom of the stack,
  mounted partitions have theirs somewhere on it, until a job fails.
* `RepairInv`, for `InstallRepairs`: while no call has failed, nothing is in the way of the stage
  that comes (`Unhindered`): only its own tree is mounted, the device is formatted or was
  made before; and mksquashfs meets no old image (`NoOldImage`).
* `DeliverInstallInv`, for `InstallDelivers`: where the source, the images and the records
  are at each stage of a run without error (`SpecStage`, `TreeStage`, `ImageStage`, `RecordStage`).
  An image is on the disk because the state and recovery partitions stay mounted until the
  cleanup unmounts them, which writes it back (`SettledInv`). It needs that
  an installation makes no transition image (`DiskInv`), and that the labels of a spec
  follow from its file systems (`LabelsInv`).
* `BootInv`, for `NoFormatKeepsBootable`: while the run has no error, every image is `Fit`, that is
  complete, of the requested file system and with the label GRUB looks for, but the one being
  written (`Replaced`); after an error two of them are. The labels written to GRUB's environment
  are those it had, since images and environment know only the default label of each
  slot (`NamesInv`), and an image torn by an error is not copied, since no later stage is reached
  with one (`StagesInv`). The proof does not use the bound on faults in the property: it takes
  one failing call to end the run, and the cleanup touches no image.

*The chroot.* `Tracked` compares the kernel's mount table with two lists as
sets; a step that takes the last element of one list needs to know that it
occurs nowhere else. `ChrootInv` therefore adds that both lists are distinct,
that `failures` is empty outside `Close`, and that during `Prepare` the active
mounts are the first `next - 1` elements of `Mounts`, so that the next one is
not mounted yet. For the leaks it adds which calls own their mounts and that a process stuck in the
chroot belongs to a call with an error. There is one lemma per step, and one for
calls; the clients cite them. In `Stages` a hook on the host finds no chroot
open (`HookInv`). `HooksReported` is the deeper result: "an error if and only if" needs that
the unmount of a mount point with another below it is only refused after that
one has resisted, which holds because the active mounts stay a prefix of `Mounts` until
`Close` ends (`BusyBelow`), and that an error not yet returned is in `failures`
(`ReportInv`).

`StagesComplete` compares two sequences, the lines that yip ran and those that what was there at the beginning of each
stage asks for. `CompleteInv` gives `ran` at every step of a hook: `Before(i)`, what the stages before the
*i*th had to run, as long as one has not begun; within one, `ran` and what its sources still
have to run (`Rest`) are together `Before(i + 1)`; then the commands run so far come behind. It
also says that the modifier is only on while the command line runs, which is what one hook leaves to
the next, and that the process is in the root of the hook. A source that makes a
file changes `present` but not `began`, so what a stage runs is what it found.

*Builds.* `VerifiedISOWhole` alone is not kept by a build that writes a new ISO under
an old checksum: `ChecksumInv` says that the checksum is of an earlier build
until this one writes its own, and that at that moment the ISO is whole and its own.
`HostInv` says that a build enters a chroot only where nothing is mounted, so
that `RunCallback` owns the mounts, and that a chroot left without error is closed.

`ISODelivers` is about the order of what is in an ISO. `DeliverInv` gives, for each
stage, the whole content of each tree as a concatenation of the sources copied so far
and the parts the build has added; one lemma per step says how
that grows. A source called like a part of the build would be taken for it, e.g. one
named `loaders` for the boot image of a BIOS, so `BuildAssumption` says that no source
bears such a name (`Made`); the names of sources stand for their files. A source of the
ISO may hold the two files that xorriso hands to a BIOS (`LoaderSources`). Then a
build without boot loader in the root succeeds as well, and no boot image is made in the root:
`ISODelivers` asks for that image only where the loader comes from the root, and of any ISO
for a loader from somewhere (`Loadable`), which follows since xorriso did not fail. `FittingBuildSucceeds`
rests on `FitInv`: as long as no call has failed, no mount is left, and the chroot on the stack
is the build's own.

*The partitioner.* The program plans with what it read of the disk, so all else
rests on `DeviceInv`: that reading is true (`DevTrue`) at every step but those between a write and
the reload after it. `NewInv` then says that the number `AddPartition` computed is that of the last
partition, which this run made; that is `FormatsItsOwn`. It needs tables to stay in the
order of the disk (`TableInv`), which is what the free space computation is for: lemma by lemma,
a partition that parted accepts begins after the end of the last and ends before the backup GPT. `KeepInv`
follows the partitions a layout found, the last one through its removal and the second `mkpart`,
`LayoutInv` and `StableInv` the wanted ones, as far as they were looked up; `InstallInv`
says where each partition of an installation lies and how large it is (`Laid`). For
`FittingInstallSucceeds` it follows that what was made ends where `Behind` says it does
(`MadeEnds`), and as `Behind` only grows (`BehindGrows`) there is room for the next one.

*GRUB.* The order that `PrependAndSetBootOrder` writes is `Firsts` of the new number and the old
order; the lemmas on `Firsts` say that it lists each number once, those of a part in the
order of the whole, and a number put first first. The invariant follows a run through its stages:
which it comes to (`StageInv`), what has been copied by then (`FilesInv`), that the boot manager
knows the variables when it picks a number (`EntryInv`), and that the order of the others is that
of the start of the run (`OrderInv`). No two entries name the same partition of
elemental, since one is only made if none was found; that holds over all histories, also
if a run stops between the entry and the order. `RetryInv` says what a run without a
failing call can still fail on: an entry that cannot be parsed, or no free number (`Hindered`).

*The command line.* `Tops(f, layers, m)` says that `f` has, for each key, the value of the highest
of the first `m` layers. `MergeInv` says that of the merged configuration and the files
read so far (`Remaining`: the drop-ins left are the end of the list), `RunInv` and `ValuesInv` of
what is decoded from it, below environment and flags. The flags that are translated
(`--directory`, `--force-efi` and so on) replace keys, which `Adapted` describes. `HighestLayerWins`
excludes a drop-in called `config`, which reads `config.yaml` again (`Plain`). `SaneInv` and `SourcesInv` give
`ActionReady`: what the constructors and `Sanitize` refuse is not there later.
`FindsOwn` is about the lookup by name or label: it takes the first of the fitting
places whose partition is mounted, or the last one, which the lemmas state with the least and the greatest
of a set of places.

*Induction.* Where a property is about sequences (`There`, `Firsts`, `Behind`), the model has a recursive
function, and the lemmas first show that the function exists and satisfies its equations, then
what it computes. The library states induction for an operator, which no
prover here can instantiate, so the lemmas use it for sets: one that holds 0 and every successor
holds all numbers (`NatSetInduction`).

TLC finds the inductive invariants true in the runs too, except where they quantify over
all keys (`Tops`, `Adapted`), which it cannot enumerate. Each property of the
passing runs is stated by a theorem but one, `CommandsEnd`, which is liveness and out of the prover's reach.
The theorems are about the steps of the modules, so the
[abstractions](#limits) apply to them as well.

## Divergences

Found while modelling, each shown by a run that TLC ends with a counterexample:

1. `upgrade_squashfs`: `upgrade.go:272` calls `tune2fs -L` on the backup
   whatever its file system. On a squashfs image it fails after active was moved
   away; `config.go:264` unsets the label for squashfs images, so they are meant to work.
2. `partitioner_expand`: the check of `ExpandLastPartition` accepts a size one
   sector too large and ignores the backup GPT; parted refuses when the
   partition is already removed.
3. `config_partitions`: `setDecoder` (`cmd/config/config.go:86`) sets `ZeroFields`, for
   slices as its comment says; the partitions of a spec, which are pointers, are
   replaced by zero ones too. A file that names one field of a partition loses the defaults of the
   others: `persistent: {size: 300}`, the example of `config.yaml.example:20`, installs a
   persistent partition without name, label, file system or mount point; `state:` is
   refused; one without size takes the rest of the disk.

Seen while reading, and stated as conditions of the properties or as [limits](#limits):

* Every system upgrade moves active over passive
  (`upgrade.go:258`), also when passive is the image the machine runs from: it replaces the
  image that is known to boot. The test of this case (`upgrade_test.go:550`) is named "does not
  backup active img to passive" and expects that "Passive should have not been touched" (`:566`);
  it passes since its runner does not carry out that `mv` (`:529`). `DeliversRequestedImage`, and with
  it `UpgradesUnaffected`, demands the backup only of a machine that runs from another image.
* `GetGrubLabels` (`grub.go:63`) dereferences a missing OEM partition, which
  `NewResetSpec` says is not a hard requirement (`config.go:415`): the reset
  panics after it formatted the state partition (`reset_panics` shows that the cleanup still runs).
* After a chroot that leaked, a later successful upgrade of the same boot runs
  the tree cleaner over the leftover mount and deletes files of the host; `HostDataKept` excludes it
  by `start.able`. So does a leak in a BIOS ISO build: `RemoveAll` of the scratch directory
  deletes nodes of `/dev`. Only a build that fails does that.
* `ISORun` has no named result: what its deferred cleanup returns is lost
  (`build-iso.go:69`), and a scratch directory that stays is no error.
* The size of the EFI image is that of the files, rounded to 4 MB (`build-iso.go:209`); what
  the file system needs itself is ignored, and files that end just below the slot do not fit (`FittingBuildSucceeds`
  states the condition).
* A build that fails between xorriso and the checksum leaves a new ISO beside an old `.sha256`.
* `DumpSource` ignores a failed unmount of an image file it copied from (`elemental.go:458`).
* A drop-in is looked up by its base name in all configuration directories:
  `config.d/config.yaml` reads `config.yaml` once more instead of itself, and a file in
  a subdirectory of `config.d` makes every command fail (`cmd/config/config.go:190`).
* An image source that cannot be decoded causes a warning only, and an
  installation or reset goes on with the default source: an upper-case image name, or the type
  `channel`, which `build-iso.go:43` and `config.yaml.example` document.
* Flags are validated, the configuration is not: `--cosign-key` is refused though
  the file enables cosign, `reboot: true` in a file with `--poweroff` is accepted, `--force-efi`
  wins over `--firmware bios`, and an unknown firmware from a file or the
  environment leaves an EFI machine without a boot partition.
* A local `cos.setup` or cloud-init path written as `file://` is dropped as one
  that does not exist (`runstage.go:124`).
* A partition that the installed system lacks, or has without its name, is
  taken from another disk that has one of that name or label, mounted ones first; reset formats it. `FindsOwn` states
  what keeps the lookup on its own disk.
* `cleanstack.go:56` wraps the error of the run in a multierror, so every failed
  run exits with 1 and not with the documented code (`docs/elemental_exit-codes.md`).
* Any error of reading `BootOrder` counts as an empty order, which is then written
  back with the new entry only (`manager.go:35`); `OthersKeepTheirOrder` excludes it
  through `Flawless`.
* An empty `state.yaml`, which a failed write leaves, makes an upgrade panic
  (`RetrySucceeds` excludes `loaded.file = "empty"`).
* `Close` of the chroot keeps failed mounts in the order it met them; a retry
  takes them from the end, so outer ones first, and fails again on the busy ones,
  although the comment promises reverse order (`chroot.go:113`).
* A reset that changes active from squashfs to ext2 leaves passive with the
  file system of the record and without label (`config.go:462`).
* `PartitionsByInstallOrder` moves only persistent and the extra partitions of
  size 0 to the end (`config.go:434`, `:403`). A state partition of size 0 takes the
  rest of the disk and makes the installation fail.
* Any lookup error makes the layout plugin add a second partition with the same
  label (`layout_plugin.go:91`).
* A failed copy of one of several boot files is not reported
  (`grub.go:208`); `Flawless` excludes it.
* A no-format installation overwrites the images without a sync between: a power
  loss can tear all of them. `NoFormatKeepsBootable` is about failing calls.
* A reset interrupted between format and GRUB leaves no boot loader;
  `SingleFaultBoots` is conditional on `stateFS = "grub"`.

## Limits

*Abstractions common to the modules.*

* A power loss tears image files only; `state.yaml` and GRUB's environment are
  damaged by failed writes but not by a power loss.
* In `Upgrade`, an unmount is not taken as a sync, which is the cautious choice;
  reset's and install's unmounts of the state partition do write images
  back, unless a bind mount holds the file system.
* The default labels of GRUB's configuration and the boot itself are external.
  Contents of persistent and OEM are kept only as "were files deleted".
* A command runs alone; two instances at a time are not modelled.
* In the modules of the commands a hook succeeds or fails; `Stages` models what runs
  in it. yip runs a stage over one source after the other and collects errors; what
  the files do is theirs, except that they may create others.
* A state partition whose mkfs failed cannot be formatted by a later reset,
  since the file system to make is the one it had; nor can an upgrade mount it.
* `Install` runs on a live medium only and always with an OEM partition; a
  no-format installation with squashfs over existing images is left out by
  `able`, since mksquashfs appends to or refuses an old file.
* `Partitioner`: flags and partition names left out; old signatures in the area of a new
  partition are ignored; tables are numbered in disk order; sizes are so small
  that `uint64` cannot overflow; msdos tables are in the module's
  parameter `GPTBackup = 0` but in no run.
* `GrubInstall`: one file list stands for those of three distributions; numbers
  go to `MaxEntry` instead of 65535; an unparsable entry aborts.

* `Upgrade`, `Reset`: the read-only mount of a source that is itself an image file is left out, with the
  ignored failure of its unmount. A reset copies `recovery.img` of the partition that the machine
  runs from (`pkg/config/config.go:437`), which is in use in any case, and no later step uses the mount point.
  In `Install` and `BuildISO`, where the mount keeps another partition or the scratch directory busy, it is modelled.
* `BuildISO`: file contents of boot loaders and `grub.cfg` are left out; the
  EFI tree has one of a few sizes; a scratch directory is never reused, as its name is random.
* `Commands`: options that are read like a modelled one are left out; a layer names
  a key with a value that is not empty; a section that exists but is no mapping is not considered.

*Not modelled.* The services are thin wrappers over HTTP, registries, cosign, the
file system and the shell: the modules have their calls succeed or fail.
`pkg/utils/vhd.go` is arithmetic on a header and no command calls it. `run-stage`, `cloud-init`,
`version` and `pull-image` call one function that is modelled or external. The
plug-ins of yip, other than the layout plugin, are yip's own. `PartitionsByMountPoint`
sorts strings; the mount points of `pkg/constants` are siblings below `/run/cos`, so
its order matters only for mount points that a configured layout nests, and is not modelled.

## Plan

The order put the upgrade first, as the command that runs most often and on
machines nobody looks after, then the commands that share its state, then the
parts they call, then what comes before and beside them (`Stages`, `BuildISO`, `Commands`). Done:
everything in the table of modules. Next:

1. *Mount points.* `PartitionsByMountPoint` and nested mounts, with mounting in
   order and unmounting in reverse (`MountPartitions`, `UnmountPartitions`).
2. *A single fault with squashfs recovery images.* TLC finds `SingleFaultBoots` true of them with the
   bounds of `reset_machine`; the proof needs an invariant that tells the records of an
   installation from the defaults.

Abstract specifications worth adding: the boot order as a set of owners with
ranks, implemented by `GrubInstall`; a disk as a set of labelled regions,
implemented by `Partitioner`.
