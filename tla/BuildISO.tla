------------------------------ MODULE BuildISO ------------------------------
(***************************************************************************)
(* The build of a live ISO (pkg/action/build-iso.go, pkg/live/green.go):   *)
(* sources are applied to the trees of the root, the EFI and the ISO file  *)
(* systems, boot loaders are taken from the root, and the result is burnt  *)
(* and check-summed.  A BIOS boot image is made in a chroot (Chroot), in   *)
(* the scratch directory whose removal is the only cleanup job.  Builds    *)
(* follow one another and write to the same file.                          *)
(***************************************************************************)
EXTENDS Chroot, SequencesExt

CONSTANTS Specs,        \* the LiveISO specs a build may have
          Systems,      \* sources with a kernel, an initrd and boot loaders
          Images,       \* sources that are image files to mount
          LoaderSources, \* sources that hold a BIOS boot loader for the ISO
          EFISizes,     \* sizes the EFI tree may have, in units of the image size
          Align,        \* the slot an EFI image is aligned to
          Overhead,     \* what the file system of an EFI image needs itself
          MaxBuilds     \* bound on the number of builds

Dir  == {"rootfs", "uefi", "image"}
Made == {"loader", "grub.cfg", "eltorito", "loaders", "kernel", "partial"}

\* Made are the parts that the build adds itself: no source is called like one.
ASSUME BuildAssumption ==
  /\ \A s \in Specs : /\ s.firmware \in {"efi", "bios"} /\ s.bootloader \in BOOLEAN
                      /\ \A d \in Dir : s[d] \in Seq(STRING \ Made)
  /\ LoaderSources \cap Made = {}
  /\ EFISizes \subseteq Nat /\ Align \in Nat \ {0} /\ Overhead \in Nat /\ MaxBuilds \in Nat

Parts == Made \cup UNION {Range(s[d]) : s \in Specs, d \in Dir}

\* An ISO file: the build that wrote it, whether it is whole, and what is in it.
NoISO == [build |-> 0, whole |-> FALSE, iso |-> <<>>, squash |-> <<>>, efi |-> <<>>]

VARIABLES
  spec,      \* the LiveISO spec of the build
  tree,      \* [Dir -> Seq(Parts)]: what was put into each tree, in order
  squash,    \* the squashfs of the root
  efiImg,    \* the files copied into the EFI image
  efiSize,   \* the size of the EFI tree
  output,    \* the ISO file
  sha256,    \* the build whose ISO the .sha256 file names, 0 when it names none
  scratch,   \* the scratch directory of the build exists
  imgsrc,    \* images still mounted at ImgSrcDir
  lost,      \* host directories that the cleanup emptied
  bpc, k,    \* the next step of the build and of its loop
  code,      \* the exit code
  builds, found     \* bookkeeping; found: lost and faults at the start

treeVars == <<tree, squash, efiImg, efiSize>>
fileVars == <<output, sha256>>
hostVars == <<scratch, imgsrc, lost>>
runVars  == <<spec, builds, found>>
buildVars == <<treeVars, fileVars, hostVars, runVars, bpc, k, code>>
allVars   == <<vars, buildVars>>

chrootVars == <<mountVars, callVars, root, pc, err>>     \* all but faults
-----------------------------------------------------------------------------
Move(p)    == bpc' = p /\ UNCHANGED code
Leave(c)   == bpc' = "cleanup" /\ code' = c     \* a return with an error
Efi  == spec.firmware = "efi"
Bios == spec.firmware = "bios"

\* The build-iso command calls ISORun: a process and a scratch path of their own.
StartBuild(s) ==
  /\ bpc \in {"ready", "done"} /\ builds < MaxBuilds
  /\ builds' = builds + 1 /\ spec' = s /\ code' = "none"
  /\ found' = [lost |-> lost, faults |-> faults]
  /\ tree' = [d \in Dir |-> <<>>] /\ squash' = <<>> /\ efiImg' = <<>> /\ efiSize' = 0
  /\ scratch' = FALSE /\ k' = 1 /\ bpc' = "tempDir"
  /\ activeMounts' = <<>> /\ failures' = <<>> /\ mounted' = [m \in Mount |-> 0]
  /\ call' = "none" /\ own' = FALSE /\ next' = 1 /\ clean' = TRUE /\ calls' = 0
  /\ start' = faults
  /\ root' = "host" /\ pc' = "idle" /\ err' = FALSE
  /\ UNCHANGED <<fileVars, imgsrc, lost, faults>>

\* The scratch directory; its removal is pushed before anything else can fail.
TempDir ==
  /\ bpc = "tempDir"
  /\ \/ Succeeds /\ Move("dirs") /\ scratch' = TRUE
     \/ Fails /\ Leave("CreateTempDir") /\ UNCHANGED scratch
  /\ UNCHANGED <<chrootVars, treeVars, fileVars, imgsrc, lost, runVars, k>>

\* A step that only puts a part into a tree, or fails.
Put(at, d, parts, after, failure) ==
  /\ bpc = at
  /\ \/ Succeeds /\ Move(after) /\ tree' = [tree EXCEPT ![d] = @ \o parts]
     \/ Fails /\ Leave(failure) /\ UNCHANGED tree
  /\ UNCHANGED <<chrootVars, squash, efiImg, efiSize, fileVars, hostVars, runVars, k>>

Dirs == Put("dirs", "rootfs", <<>>, "rootfs", "CreateDir")

\* applySources: one source after the other over what is there (DumpSource).  An
\* image file is mounted for the copy; the error of its unmount is ignored.
ApplySource(d) ==
  /\ bpc = d /\ k <= Len(spec[d])
  /\ LET source == spec[d][k] IN
     \/ /\ Succeeds \/ (source \in Images /\ Fails)
        /\ imgsrc' = IF faults' = faults THEN imgsrc ELSE imgsrc + 1
        /\ tree' = [tree EXCEPT ![d] = Append(@, source)]
        /\ k' = k + 1 /\ Move(d)
     \/ /\ Fails /\ Leave("DumpSource")
        /\ tree' = [tree EXCEPT ![d] = Append(@, "partial")]
        /\ UNCHANGED <<imgsrc, k>>
  /\ UNCHANGED <<chrootVars, squash, efiImg, efiSize, fileVars, scratch, lost, runVars>>

SourcesApplied(d) ==
  /\ bpc = d /\ k > Len(spec[d])
  /\ k' = 1
  /\ Move(CASE d = "rootfs" -> "structure" [] d = "uefi" -> "isoLoader" [] d = "image" -> "isoRoot")
  /\ UNCHANGED <<vars, treeVars, fileVars, hostVars, runVars>>

Structure ==
  Put("structure", "rootfs", <<>>,
      IF ~Efi THEN "isoLoader" ELSE IF spec.bootloader THEN "efiLoader" ELSE "uefi", "CreateDir")

HasSystem == Range(tree["rootfs"]) \cap Systems # {}

\* PrepareEFI copies the boot loader of the root, if there is one.
PrepareEFI(at, d, after, failure) ==
  \/ HasSystem /\ Put(at, d, <<"loader">>, after, failure)
  \/ /\ bpc = at /\ ~HasSystem /\ Succeeds /\ Leave(failure)
     /\ UNCHANGED <<chrootVars, treeVars, fileVars, hostVars, runVars, k>>

EFILoader == PrepareEFI("efiLoader", "uefi", "uefi", "CopyData")

\* PrepareISO, when the boot loader comes from the root: a BIOS image is built in
\* the root, then grub.cfg is written, then the EFI files are copied here too.
ISOLoader ==
  /\ bpc = "isoLoader"
  /\ Move(IF ~spec.bootloader THEN "image" ELSE IF Bios THEN "mkimage" ELSE "grubCfg")
  /\ UNCHANGED <<vars, treeVars, fileVars, hostVars, runVars, k>>

\* BuildEltoritoImg calls the chroot twice: grub2-mkimage, then ConcatFiles.
EnterChroot ==
  /\ bpc \in {"mkimage", "concat"} /\ Call("RunCallback")
  /\ Move(IF bpc = "mkimage" THEN "mkimageIn" ELSE "concatIn")
  /\ UNCHANGED <<treeVars, fileVars, hostVars, runVars, k>>

InChroot == bpc \in {"mkimageIn", "concatIn"}

ChrootStep ==
  /\ InChroot
  /\ Enter \/ PrepareMount \/ Prepared \/ EnterRoot \/ RestoreRoot
     \/ CloseMount \/ Closed \/ Return
  /\ UNCHANGED buildVars

\* The command in the chroot; the second one leaves the boot image in the root.
InCallback ==
  /\ InChroot /\ pc = "callback"
  /\ \/ /\ HasSystem /\ Succeeds /\ Goto("restore")
        /\ tree' = IF bpc = "mkimageIn" THEN tree
                   ELSE [tree EXCEPT !["rootfs"] = Append(@, "eltorito")]
     \/ /\ (~HasSystem /\ Succeeds) \/ Fails
        /\ Error("restore") /\ UNCHANGED tree
  /\ UNCHANGED <<mountVars, callVars, root, squash, efiImg, efiSize, fileVars, hostVars, runVars>>
  /\ UNCHANGED <<bpc, k, code>>

\* Mutant: only the error of the command counts, not the one of the chroot.
LeaveChrootSilent ==
  /\ InChroot /\ pc = "idle"
  /\ IF err /\ "eltorito" \notin Range(tree["rootfs"]) THEN Leave("CreateFile")
     ELSE Move(IF bpc = "mkimageIn" THEN "concat" ELSE "loaders")
  /\ UNCHANGED <<vars, treeVars, fileVars, hostVars, runVars, k>>

LeaveChroot ==
  /\ InChroot /\ pc = "idle"
  /\ IF err THEN Leave("CreateFile")
     ELSE Move(IF bpc = "mkimageIn" THEN "concat" ELSE "loaders")
  /\ UNCHANGED <<vars, treeVars, fileVars, hostVars, runVars, k>>

Loaders == Put("loaders", "image", <<"loaders">>, "grubCfg", "CreateFile")
GrubCfg == Put("grubCfg", "image", <<"grub.cfg">>, IF Efi THEN "efiFiles" ELSE "image", "CreateFile")
EFIFiles == PrepareEFI("efiFiles", "image", "image", "CreateFile")

\* prepareISORoot: kernel and initrd of the root, then its squashfs.
ISORoot ==
  \/ HasSystem /\ Put("isoRoot", "image", <<"kernel">>, "squash", "CopyFile")
  \/ /\ bpc = "isoRoot" /\ ~HasSystem /\ Succeeds /\ Leave("StatFile")
     /\ UNCHANGED <<chrootVars, treeVars, fileVars, hostVars, runVars, k>>

Squash ==
  /\ bpc = "squash"
  /\ \/ /\ Succeeds /\ Move(IF Efi THEN "createEFI" ELSE "remove")
        /\ squash' = tree["rootfs"]
     \/ Fails /\ Leave("MKFSCall") /\ UNCHANGED squash
  /\ UNCHANGED <<chrootVars, tree, efiImg, efiSize, fileVars, hostVars, runVars, k>>

\* Mutant: the size is rounded down.
EFISizeDown(size) == (size \div Align) * Align
\* The EFI image is aligned to the next slot above the size of the files.
EFISize(size) == (size \div Align) * Align + Align

\* An error of createEFI carries no exit code.
CreateEFI ==
  /\ bpc = "createEFI"
  /\ \/ /\ Succeeds /\ Move("mcopy")
        /\ efiSize' \in EFISizes
     \/ Fails /\ Leave("error") /\ UNCHANGED efiSize
  /\ UNCHANGED <<chrootVars, tree, squash, efiImg, fileVars, hostVars, runVars, k>>

Fits == efiSize + Overhead <= EFISize(efiSize)

\* Mutant: files that cannot be copied are skipped.
McopySkips ==
  /\ bpc = "mcopy" /\ k <= Len(tree["uefi"]) /\ Move("mcopy") /\ k' = k + 1
  /\ \/ Succeeds /\ efiImg' = Append(efiImg, tree["uefi"][k])
     \/ Fails /\ UNCHANGED efiImg
  /\ UNCHANGED <<chrootVars, tree, squash, efiSize, fileVars, hostVars, runVars>>

\* mcopy of one file after the other; what does not fit fails.
Mcopy ==
  /\ bpc = "mcopy" /\ k <= Len(tree["uefi"])
  /\ \/ /\ Fits \/ k < Len(tree["uefi"])
        /\ Succeeds /\ Move("mcopy") /\ k' = k + 1
        /\ efiImg' = Append(efiImg, tree["uefi"][k])
     \/ /\ (~Fits /\ k = Len(tree["uefi"]) /\ Succeeds) \/ Fails
        /\ Leave("error") /\ UNCHANGED <<efiImg, k>>
  /\ UNCHANGED <<chrootVars, tree, squash, efiSize, fileVars, hostVars, runVars>>

Mcopied ==
  /\ bpc = "mcopy" /\ k > Len(tree["uefi"]) /\ Move("remove")
  /\ UNCHANGED <<vars, treeVars, fileVars, hostVars, runVars, k>>

\* burnISO removes an old file of that name first, but not its .sha256.
RemoveOutput ==
  /\ bpc = "remove"
  /\ \/ Succeeds /\ Move("xorriso") /\ output' = NoISO
     \/ output # NoISO /\ Fails /\ Leave("RemoveFile") /\ UNCHANGED output
  /\ UNCHANGED <<chrootVars, treeVars, sha256, hostVars, runVars, k>>

\* xorriso needs the BIOS boot images it is told of, which PrepareISO or a source of
\* the ISO puts where it looks for them.  When it fails there may be no file or a part
\* of one.
CanBurn == Efi \/ Range(tree["image"]) \cap ({"loaders"} \cup LoaderSources) # {}
Burnt(whole) == [build |-> builds, whole |-> whole, iso |-> tree["image"],
                 squash |-> squash, efi |-> efiImg]

\* Mutant: the result of xorriso is not looked at.
XorrisoUnchecked ==
  /\ bpc = "xorriso" /\ Move("checksum")
  /\ \/ CanBurn /\ Succeeds /\ output' = Burnt(TRUE)
     \/ /\ (~CanBurn /\ Succeeds) \/ Fails
        /\ output' \in {NoISO, Burnt(FALSE)}
  /\ UNCHANGED <<chrootVars, treeVars, sha256, hostVars, runVars, k>>

Xorriso ==
  /\ bpc = "xorriso"
  /\ \/ CanBurn /\ Succeeds /\ Move("checksum") /\ output' = Burnt(TRUE)
     \/ /\ (~CanBurn /\ Succeeds) \/ Fails
        /\ Leave("CommandRun") /\ output' \in {NoISO, Burnt(FALSE)}
  /\ UNCHANGED <<chrootVars, treeVars, sha256, hostVars, runVars, k>>

Checksum ==
  /\ bpc = "checksum"
  /\ \/ output # NoISO /\ Succeeds /\ Move("writeSum")
     \/ /\ (output = NoISO /\ Succeeds) \/ Fails
        /\ Leave("CalculateChecksum")
  /\ UNCHANGED <<chrootVars, treeVars, fileVars, hostVars, runVars, k>>

\* The write of the .sha256 file may leave the old one or a truncated one.
WriteSum ==
  /\ bpc = "writeSum"
  /\ \/ Succeeds /\ Leave("none") /\ sha256' = output.build
     \/ Fails /\ Leave("CreateFile") /\ sha256' \in {sha256, 0}
  /\ UNCHANGED <<chrootVars, treeVars, output, hostVars, runVars, k>>

\* The deferred cleanup removes the scratch directory.  Device nodes of the host
\* that a leaked mount shows there are removed too, and its mount point resists; a
\* process left in the chroot does not find the directory.  ISORun has no named
\* result: what Cleanup returns is lost, and the exit code stays.
Cleanup ==
  /\ bpc = "cleanup" /\ bpc' = "done" /\ UNCHANGED code
  /\ LET leaked == {m \in Mount : mounted[m] > 0}
     IN  \/ /\ root = "host" /\ Succeeds
            /\ scratch' = (leaked # {}) /\ lost' = lost \cup (leaked \cap {"dev", "dev/pts"})
         \/ /\ (root = "chroot" /\ Succeeds) \/ (scratch /\ Fails)
            /\ UNCHANGED <<scratch, lost>>
  /\ UNCHANGED <<chrootVars, treeVars, fileVars, imgsrc, runVars, k>>
-----------------------------------------------------------------------------
BuildInit ==
  /\ Init
  /\ spec \in Specs /\ tree = [d \in Dir |-> <<>>] /\ squash = <<>> /\ efiImg = <<>>
  /\ efiSize = 0 /\ output = NoISO /\ sha256 = 0 /\ scratch = FALSE /\ imgsrc = 0
  /\ lost = {} /\ bpc = "ready" /\ k = 1 /\ code = "none" /\ builds = 0
  /\ found = [lost |-> {}, faults |-> 0]

BuildStep ==
  \/ TempDir \/ Dirs \/ Structure \/ EFILoader \/ ISOLoader
  \/ \E d \in Dir : ApplySource(d) \/ SourcesApplied(d)
  \/ EnterChroot \/ ChrootStep \/ InCallback \/ LeaveChroot
  \/ Loaders \/ GrubCfg \/ EFIFiles \/ ISORoot \/ Squash
  \/ CreateEFI \/ Mcopy \/ Mcopied \/ RemoveOutput \/ Xorriso
  \/ Checksum \/ WriteSum \/ Cleanup

BuildNext == BuildStep \/ \E s \in Specs : StartBuild(s)

BuildSpec == BuildInit /\ [][BuildNext]_allVars
-----------------------------------------------------------------------------
BuildTypeOK ==
  /\ TypeOK
  /\ spec \in Specs /\ tree \in [Dir -> Seq(Parts)] /\ squash \in Seq(Parts)
  /\ efiImg \in Seq(Parts) /\ efiSize \in EFISizes \cup {0} /\ scratch \in BOOLEAN
  /\ output.build \in 0 .. MaxBuilds /\ output.whole \in BOOLEAN
  /\ sha256 \in 0 .. MaxBuilds /\ imgsrc \in 0 .. MaxFaults /\ lost \subseteq Mount
  /\ k \in Nat /\ builds \in 0 .. MaxBuilds

\* The spec names a boot loader that xorriso finds: any EFI one, or that of a BIOS,
\* which comes from the root or from a source of the ISO.
Loadable == Efi \/ spec.bootloader \/ Range(spec.image) \cap LoaderSources # {}

\* A build that exits with success leaves the ISO that was asked for: the squashfs
\* holds the root sources in their order, a later one over an earlier one, with
\* the BIOS boot image if it had to be made there; the EFI image, when there is one,
\* holds the boot loader and the EFI sources; the ISO's own sources lie over what the
\* boot loader put there; the ISO has a boot loader for its firmware, from the root or
\* from one of those sources; and the checksum is that of this file.
ISODelivers ==
  bpc = "done" /\ builds > 0 /\ code = "none" =>
    /\ output.build = builds /\ output.whole /\ sha256 = builds
    /\ output.squash = spec.rootfs \o (IF Bios /\ spec.bootloader THEN <<"eltorito">> ELSE <<>>)
    /\ Loadable
    /\ Efi  => output.efi = (IF spec.bootloader THEN <<"loader">> ELSE <<>>) \o spec.uefi
    /\ Bios => output.efi = <<>>
    /\ output.iso = (CASE ~spec.bootloader -> <<>>
                      [] spec.bootloader /\ Efi -> <<"grub.cfg", "loader">>
                      [] spec.bootloader /\ Bios -> <<"loaders", "grub.cfg">>)
                    \o spec.image \o <<"kernel">>

\* Whatever builds failed where, an ISO that agrees with the .sha256 file beside it
\* is a whole one: a failed rebuild leaves the old checksum next to no file or next
\* to a part of the new one, which it does not fit.
VerifiedISOWhole == sha256 # 0 /\ sha256 = output.build => output.whole

\* The removal of the scratch tree runs over everything mounted in it.  A build
\* that succeeds had closed its chroots: it deleted nothing of the host's /dev, is
\* in its own root and left no mount there.
SuccessKeepsHost ==
  bpc = "done" /\ builds > 0 /\ code = "none" =>
    /\ lost = found.lost /\ root = "host"
    /\ \A m \in Mount : mounted[m] = 0

\* A build in which no call fails of itself, from a root with a system and with a boot
\* loader for its firmware, succeeds,
\* whatever earlier builds left behind and however large its EFI files are, if the
\* slot they end in leaves the room that their file system needs.
FittingBuildSucceeds ==
  /\ bpc = "done" /\ builds > 0 /\ faults = found.faults
  /\ (efiSize % Align) + Overhead <= Align
  /\ Range(spec.rootfs) \cap Systems # {} /\ Loadable
  => code = "none"
=============================================================================
