----------------------------- MODULE Partitioner -----------------------------
(***************************************************************************)
(* The partition table of one disk and the two programs that change it     *)
(* through pkg/partitioner: the installer, which writes a new table        *)
(* (pkg/elemental/elemental.go), and the layout plugin of cloud-init       *)
(* (pkg/cloudinit/layout_plugin.go), which every boot runs again to expand *)
(* the last partition and to add missing ones.  Every call of parted,      *)
(* sgdisk, mkfs, the resize tools or udev may fail, a program may be       *)
(* interrupted, and the disk may grow between two runs, as the disk of a   *)
(* virtual machine does.                                                   *)
(*                                                                         *)
(* parted (external) runs the commands of one call in their order and      *)
(* commits each of them, gives a new partition the lowest free number, and *)
(* refuses a partition that does not fit.                                  *)
(***************************************************************************)
EXTENDS Naturals, Sequences, FiniteSets, TLC, PartitionLists

CONSTANTS SectorsPerMiB,
          GPTBackup,     \* sectors of the backup GPT at the end, 0 on msdos
          MaxParts,      \* how many partitions the table can hold
          Sizes,         \* disk sizes, in MiB
          Tables,        \* partition tables a disk may come with
          Layouts,       \* layouts of the cloud-init configuration
          Installs,      \* partitions and extra partitions to install
          MaxRuns, MaxFaults

ASSUME PartitionerAssumption ==
  /\ SectorsPerMiB \in Nat \ {0} /\ GPTBackup \in Nat /\ MaxParts \in Nat
  /\ GPTBackup < SectorsPerMiB
  /\ Sizes \subseteq Nat
  /\ MaxRuns \in Nat /\ MaxFaults \in Nat

VARIABLES
  length,    \* sectors of the disk
  known,     \* sectors of the disk according to its partition table
  table,     \* the partitions in the order they have on the disk
  hung,      \* a temporary mount that could not be unmounted holds the last one
  dev,       \* what the program knows of the disk
  prog, pc, want, expand, next, num, err,    \* the running program
  layout,    \* the configuration, the same at every boot
  runs, faults, start                        \* bookkeeping

diskVars == <<length, known, table, hung>>
progVars == <<prog, want, expand>>
bookVars == <<layout, runs, start>>
vars == <<diskVars, dev, progVars, pc, next, num, err, bookVars, faults>>

Unknown == [loaded |-> FALSE, lastS |-> 0, parts |-> <<>>]

\* Sizes of the configuration are in MiB, those of the table in sectors.
MiBToSectors(size) == size * SectorsPerMiB

End(part) == part.start + part.size - 1
\* The last sector a partition may use.
Usable(sectors) == sectors - 1 - GPTBackup

\* What a disk comes with: partitions numbered in the order of the disk, without overlaps.
\* The code relies on that order: AddPartition counts on from the last number.
Partition == [num : Nat, start : Nat, size : Nat, label : STRING,
              fs : {"none", "ext4", "xfs", "vfat", ""}, full : BOOLEAN, data : BOOLEAN, made : Nat]
InOrder(t) ==
  /\ \A k \in 1 .. Len(t) : t[k].num = k /\ t[k].size # 0
  /\ \A j, k \in 1 .. Len(t) : j < k => End(t[j]) < t[k].start

\* What the configuration holds: typed partitions, at most one size to expand to, and
\* with an installation that passes Sanitize at least one partition to make.
WantedPart == [label : STRING, size : Nat, fs : {"ext4", "xfs", "vfat", ""}]
InputsTyped ==
  /\ \A t \in Tables : t \in Seq(Partition) /\ Len(t) <= MaxParts /\ InOrder(t)
  /\ \A l \in Layouts : l.parts \in Seq(WantedPart) /\ l.expand \subseteq Nat
                        /\ \A r, s \in l.expand : r = s
  /\ \A i \in Installs : Sanitized(i.parts, i.extras) =>
       PartitionsByInstallOrder(i.parts, i.extras) \in Seq(WantedPart) \ {<<>>}
ASSUME InputsAssumption == InputsTyped

Stage == {"device", "expandLoad", "expandWrite", "expandReload", "expandFind", "resize",
            "growXfs", "wipe", "wipeReload", "lookup", "addLoad", "addWrite", "addReload",
            "find", "format"}
-----------------------------------------------------------------------------
Succeeds == UNCHANGED faults
Fails    == faults < MaxFaults /\ faults' = faults + 1
Goto(p)  == pc' = p /\ UNCHANGED err
Abort(e) == pc' = "exited" /\ err' = e

\* The next partition to make, or the end of the program.
Continue(n) ==
  /\ next' = n
  /\ Goto(IF n > Len(want) THEN "exited" ELSE IF prog = "install" THEN "addLoad" ELSE "lookup")
-----------------------------------------------------------------------------
(* Partitions as parted makes them (external).                             *)

LowestFree(t) == CHOOSE n \in 1 .. Len(t) + 1 : /\ \A k \in DOMAIN t : t[k].num # n
                                                /\ \A m \in 1 .. n - 1 : \E k \in DOMAIN t : t[k].num = m

\* mkpart at the end of the table, from a sector to a size or, for 0, to the end.
Fits(t, first, size) ==
  /\ Len(t) < MaxParts
  /\ t # <<>> => first > End(t[Len(t)])
  /\ first <= Usable(known)
  /\ size # 0 => first + size - 1 <= Usable(known)
SizeOf(first, size) == IF size = 0 THEN Usable(known) - first + 1 ELSE size
-----------------------------------------------------------------------------
(* The programs are called.                                                *)

Called(p) ==
  /\ pc \in {"ready", "exited"} /\ runs < MaxRuns
  /\ prog' = p /\ runs' = runs + 1 /\ dev' = Unknown
  /\ err' = "none" /\ num' = 0
  /\ start' = [table |-> table, faults |-> faults,
               again |-> prog = "layout" /\ runs > 0 /\ err = "none"]

\* PartitionAndFormatDevice of the installer, after Sanitize; nothing holds the
\* disk, as the installer runs from another one.
CallInstall(install) ==
  /\ ~hung
  /\ Sanitized(install.parts, install.extras)
  /\ Called("install")
  /\ want' = PartitionsByInstallOrder(install.parts, install.extras)
  /\ expand' = {} /\ next' = 1 /\ pc' = "wipe"
  /\ UNCHANGED <<diskVars, layout, faults>>

\* layoutPlugin: the disk is looked up by a label or a path.
CallLayout ==
  /\ Called("layout")
  /\ want' = layout.parts /\ expand' = layout.expand
  /\ next' = 1 /\ pc' = "device"
  /\ UNCHANGED <<diskVars, layout, faults>>

FindDevice ==
  /\ pc = "device"
  /\ \/ Succeeds /\ expand # {} /\ Goto("expandLoad") /\ UNCHANGED next
     \/ Succeeds /\ expand = {} /\ Continue(1)
     \/ Fails /\ Abort("device") /\ UNCHANGED next
  /\ UNCHANGED <<diskVars, dev, progVars, num, bookVars>>
-----------------------------------------------------------------------------
(* Reload.                                                                 *)

Snapshot == [loaded |-> TRUE, lastS |-> length,
             parts |-> [k \in DOMAIN table |-> [num   |-> table[k].num, start |-> table[k].start,
                                                size  |-> table[k].size]]]

\* Mutant: a GPT that does not know the size of its disk stays as it is.
ReloadUnfixed(to) ==
  \/ Succeeds /\ dev' = Snapshot /\ Goto(to) /\ UNCHANGED known
  \/ Fails /\ Abort("reload") /\ UNCHANGED <<dev, known>>
\* parted print; a GPT that does not know the size of its disk is fixed with
\* sgdisk and printed again.
Reload(to) ==
  \/ Succeeds /\ dev' = Snapshot /\ Goto(to)
     /\ known' = IF GPTBackup > 0 THEN length ELSE known
  \/ Fails /\ Abort("reload") /\ UNCHANGED dev
     /\ known' \in IF GPTBackup > 0 THEN {known, length} ELSE {known}

ReloadAt(at, to) ==
  /\ pc = at /\ Reload(to)
  /\ UNCHANGED <<length, table, hung, progVars, next, num, bookVars>>

\* Only when nothing was loaded yet.
LoadAt(at, to) ==
  IF dev.loaded THEN /\ pc = at /\ Goto(to) /\ Succeeds
                     /\ UNCHANGED <<diskVars, dev, progVars, next, num, bookVars>>
  ELSE ReloadAt(at, to)

ExpandLoad   == LoadAt("expandLoad", "expandWrite")
ExpandReload == ReloadAt("expandReload", "expandFind")
WipeReload   == ReloadAt("wipeReload", "addLoad")
AddLoad      == LoadAt("addLoad", "addWrite")
\* Mutant: what is known of the disk is not refreshed.
AddReloadStale ==
  /\ pc = "addReload" /\ Goto("find") /\ Succeeds
  /\ UNCHANGED <<diskVars, dev, progVars, next, num, bookVars>>
AddReload    == ReloadAt("addReload", "find")
-----------------------------------------------------------------------------
(* ExpandLastPartition.                                                    *)

LastKnown == dev.parts[Len(dev.parts)]

\* computeFreeSpaceWithoutLast.
FreeWithoutLast ==
  IF Len(dev.parts) > 1 THEN dev.lastS - End(dev.parts[Len(dev.parts) - 1])
  ELSE dev.lastS - (SectorsPerMiB - 1)

\* Mutant: the size it has already is refused.
ExpandAllowedStrict(size) == size = 0 \/ (size > LastKnown.size /\ size <= FreeWithoutLast)
ExpandAllowed(size) == size = 0 \/ (size >= LastKnown.size /\ size <= FreeWithoutLast)

\* Mutant: the partition starts where the free space starts.
RecreatedMoved(last, size) ==
  LET first == IF Len(dev.parts) > 1 THEN End(dev.parts[Len(dev.parts) - 1]) + 1 ELSE SectorsPerMiB
      new   == SizeOf(first, size)
  IN  [last EXCEPT !.start = first, !.size = new, !.full = @ /\ new = last.size]
\* The same partition with another size: its file system is still there.
Recreated(last, size) ==
  LET new == SizeOf(last.start, size)
  IN  [last EXCEPT !.num = LowestFree(Front(table)), !.size = new, !.full = @ /\ new = last.size]

\* "rm" and "mkpart" in one call of parted; a held partition cannot be removed.
ExpandWrite ==
  /\ pc = "expandWrite"
  /\ LET size == MiBToSectors(CHOOSE s \in expand : TRUE)
         last == table[Len(table)]
     IN  IF dev.parts = <<>> \/ ~ExpandAllowed(size) \/ hung
         THEN Succeeds /\ Abort("expand") /\ UNCHANGED <<table, num>>
         ELSE \/ /\ Fits(Front(table), last.start, size)
                 /\ Succeeds /\ Goto("expandReload")
                 /\ table' = Append(Front(table), Recreated(last, size))
                 /\ num' = LastKnown.num
              \/ /\ ~Fits(Front(table), last.start, size)
                 /\ Succeeds /\ Abort("expand") /\ table' = Front(table) /\ UNCHANGED num
              \/ /\ Fails /\ Abort("expand") /\ table' \in {table, Front(table)} /\ UNCHANGED num
  /\ UNCHANGED <<length, known, hung, dev, progVars, next, bookVars>>

\* FindPartitionDevice, which gives up after some tries.
Exists(n) == \E k \in DOMAIN table : table[k].num = n
FindAt(at, to) ==
  /\ pc = at
  /\ \/ Exists(num) /\ Succeeds /\ Goto(to)
     \/ ~Exists(num) /\ Succeeds /\ Abort("find")
     \/ Exists(num) /\ Fails /\ Abort("find")
  /\ UNCHANGED <<diskVars, dev, progVars, next, num, bookVars>>

ExpandFind == FindAt("expandFind", "resize")

At(n) == CHOOSE k \in DOMAIN table : table[k].num = n

Resize ==
  /\ pc = "resize"
  /\ LET k == At(num)
     IN  \/ /\ table[k].fs = "ext4" /\ Succeeds
            /\ table' = [table EXCEPT ![k].full = TRUE] /\ Continue(1)
         \/ /\ table[k].fs = "xfs" /\ Succeeds /\ Goto("growXfs") /\ UNCHANGED <<table, next>>
         \/ /\ table[k].fs \notin {"ext4", "xfs"} /\ Succeeds
            /\ Abort("resize") /\ UNCHANGED <<table, next>>
         \/ Fails /\ Abort("resize") /\ UNCHANGED <<table, next>>
  /\ UNCHANGED <<length, known, hung, dev, progVars, num, bookVars>>

GrowXfs ==
  /\ pc = "growXfs"
  /\ LET k == At(num)
     IN  \/ /\ Succeeds /\ Continue(1)
            /\ table' = [table EXCEPT ![k].full = TRUE] /\ UNCHANGED hung
         \/ /\ Fails /\ Abort("resize") /\ UNCHANGED next           \* xfs_growfs, then umount
            /\ UNCHANGED <<table, hung>>
         \/ /\ Fails /\ Abort("resize") /\ UNCHANGED next           \* umount
            /\ table' = [table EXCEPT ![k].data = FALSE] /\ hung' = TRUE
  /\ UNCHANGED <<length, known, dev, progVars, num, bookVars>>
-----------------------------------------------------------------------------
(* AddPartition and the formatting of what it added.                       *)

\* NewPartitionTable: mklabel.
Wipe ==
  /\ pc = "wipe"
  /\ \/ Succeeds /\ table' = <<>> /\ known' = length /\ Goto("wipeReload")
     \/ Fails /\ Abort("wipe") /\ UNCHANGED <<table, known>>
  /\ UNCHANGED <<length, hung, dev, progVars, next, num, bookVars>>

Labelled(label) == \E k \in DOMAIN table : table[k].label = label

Lookup ==
  /\ pc = "lookup"
  /\ \/ Labelled(want[next].label) /\ Succeeds /\ Continue(next + 1)
     \/ ~Labelled(want[next].label) /\ Succeeds /\ Goto("addLoad") /\ UNCHANGED next
     \/ Fails /\ Goto("addLoad") /\ UNCHANGED next
  /\ UNCHANGED <<diskVars, dev, progVars, num, bookVars>>

\* computeFreeSpace.
FreeSpace == IF dev.parts = <<>> THEN dev.lastS - (SectorsPerMiB - 1)
             ELSE dev.lastS - End(LastKnown)
\* Mutant: a sector is left out between two partitions.
NextStartLate == IF dev.parts = <<>> THEN SectorsPerMiB ELSE End(LastKnown) + 2
NextStart  == IF dev.parts = <<>> THEN SectorsPerMiB ELSE End(LastKnown) + 1
\* Mutant: the number of the last partition.
NextNumberLast  == IF dev.parts = <<>> THEN 1 ELSE LastKnown.num
NextNumber == IF dev.parts = <<>> THEN 1 ELSE LastKnown.num + 1

Added(size) == [num |-> LowestFree(table), start |-> NextStart, size |-> SizeOf(NextStart, size),
                label |-> "", fs |-> "none", full |-> FALSE, data |-> TRUE, made |-> runs]

\* "mkpart", and "set" for the flags, which may fail after the partition is there.
AddWrite ==
  /\ pc = "addWrite"
  /\ LET size == MiBToSectors(want[next].size)
     IN  IF size > FreeSpace \/ ~Fits(table, NextStart, size)
         THEN Succeeds /\ Abort("add") /\ UNCHANGED <<table, num>>
         ELSE \/ /\ Succeeds /\ Goto("addReload")
                 /\ table' = Append(table, Added(size)) /\ num' = NextNumber
              \/ /\ Fails /\ Abort("add") /\ UNCHANGED num
                 /\ table' \in {table, Append(table, Added(size))}
  /\ UNCHANGED <<length, known, hung, dev, progVars, next, bookVars>>

Find == FindAt("find", "format")

\* mkfs, or wipefs when no file system is asked for.
Formatted(k) ==
  [table EXCEPT ![k].fs = want[next].fs, ![k].label = want[next].label, ![k].full = TRUE]
Format ==
  /\ pc = "format"
  /\ LET k == At(num)
     IN  \/ Succeeds /\ table' = Formatted(k) /\ Continue(next + 1)
         \/ Fails /\ Abort("format") /\ UNCHANGED next
            /\ table' \in {table, Formatted(k),
                           [table EXCEPT ![k].fs = "none", ![k].label = "", ![k].full = FALSE]}
  /\ UNCHANGED <<length, known, hung, dev, progVars, num, bookVars>>
-----------------------------------------------------------------------------
(* The machine.                                                            *)

\* The program is interrupted, or the machine boots again after it ended.
Restart ==
  /\ pc # "ready"
  /\ \/ pc = "exited" /\ Succeeds /\ UNCHANGED err
     \/ pc # "exited" /\ Fails /\ err' = "interrupted"
  /\ pc' = "ready" /\ hung' = FALSE /\ dev' = Unknown
  /\ UNCHANGED <<length, known, table, progVars, next, num, bookVars>>

\* The disk is made larger while the machine is off.
Grow ==
  /\ pc = "ready"
  /\ \E s \in Sizes : s * SectorsPerMiB > length /\ length' = s * SectorsPerMiB
  /\ known' = IF GPTBackup > 0 THEN known ELSE length'
  /\ err' = "grown"
  /\ UNCHANGED <<table, hung, dev, progVars, pc, next, num, bookVars, faults>>

Init ==
  /\ \E s \in Sizes : length = s * SectorsPerMiB
  /\ known = length
  /\ table \in Tables
  /\ table # <<>> => End(table[Len(table)]) <= Usable(length)
  /\ hung = FALSE /\ dev = Unknown
  /\ prog = "layout" /\ pc = "ready" /\ want = <<>> /\ expand = {}
  /\ next = 1 /\ num = 0 /\ err = "none"
  /\ layout \in Layouts
  /\ runs = 0 /\ faults = 0
  /\ start = [table |-> table, faults |-> 0, again |-> FALSE]

Step ==
  \/ FindDevice \/ ExpandLoad \/ ExpandWrite \/ ExpandReload \/ ExpandFind \/ Resize \/ GrowXfs
  \/ Wipe \/ WipeReload \/ Lookup \/ AddLoad \/ AddWrite \/ AddReload \/ Find \/ Format

Next == Step \/ (\E i \in Installs : CallInstall(i)) \/ CallLayout \/ Restart \/ Grow

Spec == Init /\ [][Next]_vars
-----------------------------------------------------------------------------
TypeOK ==
  /\ length \in Nat /\ known \in Nat /\ hung \in BOOLEAN
  /\ table \in Seq(Partition)
  /\ dev \in [loaded : BOOLEAN, lastS : Nat, parts : Seq([num : Nat, start : Nat, size : Nat])]
  /\ prog \in {"install", "layout"} /\ pc \in Stage \cup {"ready", "exited"}
  /\ want \in Seq([label : STRING, size : Nat, fs : STRING]) /\ expand \subseteq Nat
  /\ next \in 1 .. Len(want) + 1 /\ num \in 0 .. Len(table) /\ err \in STRING
  /\ runs \in 0 .. MaxRuns /\ faults \in 0 .. MaxFaults

\* A program is running or has just ended.
Active == pc \in Stage \cup {"exited"} /\ runs > 0

\* mkfs runs on the partition that this run has just added, never on another: the
\* number AddPartition returns is the one parted chose, as long as the partitions
\* are numbered in the order of the disk.
FormatsItsOwn ==
  pc \in {"find", "format"} =>
    /\ table # <<>> /\ num = table[Len(table)].num /\ table[Len(table)].made = runs
    /\ \A k \in 1 .. Len(table) - 1 : table[k].num # num

\* The layout plugin touches none of the partitions it found but the last, and
\* that one only to make it larger: it keeps its place, number, file system and
\* files, unless parted failed after it removed it or a temporary mount hangs.
LayoutKeeps ==
  Active /\ prog = "layout" =>
    \A k \in DOMAIN start.table :
      LET old == start.table[k]
      IN  /\ k < Len(start.table) \/ expand = {} => k \in DOMAIN table /\ table[k] = old
          /\ k \notin DOMAIN table => err = "expand"
          /\ k \in DOMAIN table =>
               /\ table[k].size >= old.size /\ (table[k].data = old.data \/ hung)
               /\ [table[k] EXCEPT !.size = old.size, !.full = old.full, !.data = old.data] = old

\* A layout that ends without an error has given the last partition the size
\* asked for, or all of a disk that may have grown, with its file system, and
\* every wanted partition is there and formatted.
LayoutDelivers ==
  pc = "exited" /\ prog = "layout" /\ err = "none" /\ runs > 0 =>
    /\ \A w \in 1 .. Len(want) : Labelled(want[w].label)
    /\ \A s \in expand :
         LET last == table[Len(start.table)]
         IN  /\ last.full
             /\ IF s = 0 THEN End(last) = Usable(length) ELSE last.size = MiBToSectors(s)

\* The boot after a successful layout repeats it without an error and changes
\* nothing, unless it both expands and adds partitions.
LayoutStable ==
  /\ pc = "exited" /\ prog = "layout" /\ start.again /\ faults = start.faults
  /\ want = <<>> \/ expand = {}
  => err = "none" /\ table = start.table

\* A successful installation leaves exactly the wanted partitions, in the order
\* of PartitionsByInstallOrder, one after the other from the first MiB on, each
\* of its size and formatted; one of size 0 reaches the end of the disk.
InstallDelivers ==
  pc = "exited" /\ prog = "install" /\ err = "none" =>
    /\ Len(table) = Len(want)
    /\ \A k \in DOMAIN table :
         /\ table[k].label = want[k].label /\ table[k].fs = want[k].fs /\ table[k].full
         /\ table[k].start = IF k = 1 THEN SectorsPerMiB ELSE End(table[k - 1]) + 1
         /\ IF want[k].size = 0 THEN End(table[k]) = Usable(length)
            ELSE table[k].size = MiBToSectors(want[k].size)

\* The sector behind the first n of the wanted partitions, which begin at the first MiB.
Behind[n \in 0 .. Len(want)] ==
  IF n = 0 THEN SectorsPerMiB ELSE Behind[n - 1] + MiBToSectors(want[n].size)

\* An installation in which no call fails succeeds when the wanted partitions fit
\* and only the last one has size 0, whatever was on the disk.
FittingInstallSucceeds ==
  /\ pc = "exited" /\ prog = "install" /\ faults = start.faults
  /\ Len(want) <= MaxParts /\ Behind[Len(want)] <= Usable(length)
  /\ \A k \in 1 .. Len(want) - 1 : want[k].size # 0
  => err = "none"

\* "Layout plugin can only expand a partition, not shrink it" (pkg/partitioner/disk.go),
\* and what does not fit it refuses: when no call fails on its own, no partition gets
\* smaller or disappears.
ExpansionNeverLoses ==
  Active /\ prog = "layout" /\ faults = start.faults =>
    \A k \in DOMAIN start.table : k \in DOMAIN table /\ table[k].size >= start.table[k].size
=============================================================================
