-------------------------- MODULE PartitionerProofs --------------------------
(***************************************************************************)
(* Theorems about Partitioner, for any disk, layout and installation: the  *)
(* partition that is formatted is the one that was added, a layout keeps   *)
(* what it finds, layouts and installations deliver what they were asked   *)
(* for, and an installation with enough room succeeds.                     *)
(***************************************************************************)
EXTENDS Partitioner, TLAPS, SequenceTheorems, WellFoundedInduction

USE DEF diskVars, progVars, bookVars, vars

-----------------------------------------------------------------------------
(* Partitions and tables.                                                  *)

\* The partitions of the model; the provers do not know that "" is a string.
Part == [num : Nat, start : Nat, size : Nat, label : STRING \cup {""},
         fs : {"none", "ext4", "xfs", "vfat", ""}, full : BOOLEAN, data : BOOLEAN, made : Nat]

LEMMA TablesOfParts == Seq(Partition) \subseteq Seq(Part)
<1>1. Partition \subseteq Part
  BY Zenon DEF Partition, Part
<1> QED
  BY <1>1, SeqMonotonic

LEMMA PartFields ==
  \A p \in Part : /\ p.num \in Nat /\ p.start \in Nat /\ p.size \in Nat /\ p.made \in Nat
                       /\ End(p) \in Int /\ End(p) = p.start + p.size - 1
<1> SUFFICES ASSUME NEW p \in Part
             PROVE  /\ p.num \in Nat /\ p.start \in Nat /\ p.size \in Nat /\ p.made \in Nat
                    /\ End(p) \in Int /\ End(p) = p.start + p.size - 1
  OBVIOUS
<1>1. p.num \in Nat /\ p.start \in Nat /\ p.size \in Nat /\ p.made \in Nat
  BY Zenon DEF Part
<1> QED
  BY <1>1 DEF End

LEMMA PartFlags == \A p \in Part : p.full \in BOOLEAN /\ p.data \in BOOLEAN
BY Zenon DEF Part

LEMMA WantedFields ==
  \A w \in WantedPart : /\ w.label \in STRING /\ w.size \in Nat /\ w.fs \in {"ext4", "xfs", "vfat", ""}
BY Zenon DEF WantedPart

LEMMA MiBIs ==
  \A n \in Nat : /\ MiBToSectors(n) \in Nat
                 /\ (MiBToSectors(n) = 0) <=> (n = 0)
BY PartitionerAssumption DEF MiBToSectors

LEMMA UsableIs ==
  ASSUME NEW s \in Nat
  PROVE  Usable(s) = s - 1 - GPTBackup /\ Usable(s) \in Int
BY PartitionerAssumption DEF Usable

LEMMA SeqIs ==
  ASSUME NEW S, NEW t \in Seq(S)
  PROVE  /\ Len(t) \in Nat /\ DOMAIN t = 1 .. Len(t) /\ \A k \in 1 .. Len(t) : t[k] \in S
         /\ t = <<>> <=> Len(t) = 0
OBVIOUS

\* parted numbers the next partition of such a table after the others.
LEMMA LowestFreeIs ==
  ASSUME NEW t \in Seq(Part), \A k \in 1 .. Len(t) : t[k].num = k
  PROVE  LowestFree(t) = Len(t) + 1
<1> DEFINE n == Len(t)
           P(m) == /\ \A k \in DOMAIN t : t[k].num # m
                   /\ \A l \in 1 .. m - 1 : \E k \in DOMAIN t : t[k].num = l
<1>1. n \in Nat /\ DOMAIN t = 1 .. n /\ \A k \in 1 .. n : t[k].num = k
  BY SeqIs
<1> HIDE DEF n
<1>2. P(n + 1) /\ n + 1 \in 1 .. n + 1
  BY <1>1
<1>3. \A m \in 1 .. n + 1 : P(m) => m = n + 1
  BY <1>1
<1>4. LowestFree(t) = CHOOSE m \in 1 .. n + 1 : P(m)
  BY DEF LowestFree, n
<1> HIDE DEF P
<1>5. P(CHOOSE m \in 1 .. n + 1 : P(m)) /\ (CHOOSE m \in 1 .. n + 1 : P(m)) \in 1 .. n + 1
  BY <1>2
<1>6. LowestFree(t) = n + 1
  BY <1>3, <1>4, <1>5
<1> QED
  BY <1>6 DEF n

\* The partition numbered like its place is found there.
LEMMA AtIs ==
  ASSUME NEW n \in 1 .. Len(table), table \in Seq(Part), InOrder(table)
  PROVE  At(n) = n /\ Exists(n)
<1>1. DOMAIN table = 1 .. Len(table) /\ \A k \in 1 .. Len(table) : table[k].num = k
  BY SeqIs DEF InOrder
<1>2. \E k \in DOMAIN table : table[k].num = n
  BY <1>1
<1>3. At(n) \in DOMAIN table /\ table[At(n)].num = n
  BY <1>2 DEF At
<1> QED
  BY <1>1, <1>2, <1>3 DEF Exists

LEMMA FrontIs ==
  ASSUME NEW t \in Seq(Part), t # <<>>
  PROVE  /\ Front(t) \in Seq(Part) /\ Len(Front(t)) = Len(t) - 1 /\ Len(t) \in Nat /\ Len(t) > 0
         /\ \A k \in 1 .. Len(t) - 1 : Front(t)[k] = t[k]
         /\ t[Len(t)] \in Part
<1>1. Len(t) \in Nat /\ Len(t) > 0 /\ \A k \in 1 .. Len(t) - 1 : t[k] \in Part
  BY SeqIs
<1> DEFINE n == Len(t) - 1
           f == SubSeq(t, 1, n)
<1>2. /\ n \in Nat /\ n - 1 + 1 = n /\ 1 \in Int /\ n \in Int
      /\ \A k \in 1 .. n : 1 + k - 1 = k
  BY <1>1
<1> HIDE DEF n
<1>3. /\ f \in Seq(Part) /\ Len(f) = IF 1 <= n THEN n - 1 + 1 ELSE 0
      /\ \A k \in 1 .. n - 1 + 1 : f[k] = t[1 + k - 1]
  BY <1>1, <1>2, SubSeqProperties DEF n
<1> HIDE DEF f
<1>4. f \in Seq(Part) /\ Len(f) = n /\ \A k \in 1 .. n : f[k] = t[k]
  BY <1>2, <1>3
<1> QED
  BY <1>1, <1>4, SeqIs DEF Front, f, n

\* A partition appended to a table.
LEMMA AppendIs ==
  ASSUME NEW t \in Seq(Part), NEW p \in Part
  PROVE  /\ Append(t, p) \in Seq(Part) /\ Len(Append(t, p)) = Len(t) + 1 /\ Len(t) \in Nat
         /\ \A k \in 1 .. Len(t) : Append(t, p)[k] = t[k]
         /\ Append(t, p)[Len(t) + 1] = p
OBVIOUS

\* The last partition of a table is replaced.
LEMMA RewriteIs ==
  ASSUME NEW t \in Seq(Part), t # <<>>, NEW p \in Part
  PROVE  LET r == Append(Front(t), p)
         IN  /\ r \in Seq(Part) /\ Len(r) = Len(t) /\ r[Len(t)] = p
             /\ \A k \in 1 .. Len(t) - 1 : r[k] = t[k]
<1>1. PICK f : f = Front(t)
  OBVIOUS
<1>2. /\ f \in Seq(Part) /\ Len(f) = Len(t) - 1 /\ Len(t) \in Nat
      /\ \A k \in 1 .. Len(t) - 1 : f[k] = t[k]
  BY <1>1, FrontIs
<1>3. /\ Append(f, p) \in Seq(Part) /\ Len(Append(f, p)) = Len(f) + 1
      /\ \A k \in 1 .. Len(f) : Append(f, p)[k] = f[k]
      /\ Append(f, p)[Len(f) + 1] = p
  BY <1>2, AppendIs
<1> QED
  BY <1>1, <1>2, <1>3

\* A partition replaced in a table.
LEMMA ReplaceIs ==
  ASSUME NEW t \in Seq(Part), NEW k \in 1 .. Len(t), NEW p \in Part, NEW r, r = [t EXCEPT ![k] = p]
  PROVE  /\ r \in Seq(Part) /\ Len(r) = Len(t) /\ r[k] = p
         /\ \A j \in 1 .. Len(t) : j # k => r[j] = t[j]
OBVIOUS

\* The same tables.
LEMMA SameTable ==
  ASSUME NEW t \in Seq(Part), NEW u \in Seq(Part), Len(t) = Len(u),
         \A k \in 1 .. Len(t) : t[k] = u[k]
  PROVE  t = u
OBVIOUS
-----------------------------------------------------------------------------
(* Tables in the order of the disk.                                        *)

\* The last sector a partition may use comes after all partitions.
Within(t, sectors) == \A k \in 1 .. Len(t) : End(t[k]) <= Usable(sectors)

LEMMA FrontInOrder ==
  ASSUME NEW t \in Seq(Part), t # <<>>, InOrder(t), NEW s \in Nat, Within(t, s)
  PROVE  InOrder(Front(t)) /\ Within(Front(t), s)
<1> DEFINE f == Front(t)
<1>1. Len(t) \in Nat /\ Len(f) = Len(t) - 1 /\ \A k \in 1 .. Len(f) : f[k] = t[k] /\ k \in 1 .. Len(t)
  BY FrontIs
<1> HIDE DEF f
<1>2. InOrder(f)
  BY <1>1 DEF InOrder
<1>3. Within(f, s)
  BY <1>1 DEF Within
<1> QED
  BY <1>2, <1>3 DEF f

\* The partitions of such a table end before the next one starts, and before the last ends.
LEMMA Ends ==
  ASSUME NEW t \in Seq(Part), InOrder(t), NEW k \in 1 .. Len(t)
  PROVE  t[k].start <= End(t[k]) /\ End(t[k]) <= End(t[Len(t)])
<1>1. Len(t) \in 1 .. Len(t) /\ Len(t) \in Nat
  BY SeqIs
<1>2. /\ t[k].start \in Nat /\ t[k].size \in Nat /\ End(t[k]) = t[k].start + t[k].size - 1
      /\ t[Len(t)].start \in Nat /\ t[Len(t)].size \in Nat
      /\ End(t[Len(t)]) = t[Len(t)].start + t[Len(t)].size - 1
  BY <1>1, SeqIs, PartFields
<1>3. t[k].size # 0 /\ t[Len(t)].size # 0
  BY <1>1 DEF InOrder
<1>4. k = Len(t) \/ End(t[k]) < t[Len(t)].start
  BY <1>1 DEF InOrder
<1>5. t[k].start <= End(t[k]) /\ t[Len(t)].start <= End(t[Len(t)])
  BY <1>2, <1>3
<1>6. CASE k = Len(t)
  BY <1>2, <1>5, <1>6
<1>7. CASE End(t[k]) < t[Len(t)].start
  <2>1. End(t[k]) \in Int /\ t[Len(t)].start \in Int /\ End(t[Len(t)]) \in Int
    BY ONLY <1>2, SMTT(20)
  <2> QED
    BY <1>5, <1>7, <2>1
<1> QED
  BY <1>4, <1>6, <1>7

\* An appended partition that starts after the last one and fits.
LEMMA AppendInOrder ==
  ASSUME NEW t \in Seq(Part), InOrder(t), NEW s \in Nat, Within(t, s), NEW p \in Part,
         p.num = Len(t) + 1, p.size # 0, End(p) <= Usable(s),
         t # <<>> => p.start > End(t[Len(t)])
  PROVE  InOrder(Append(t, p)) /\ Within(Append(t, p), s)
<1> DEFINE r == Append(t, p)
           n == Len(t)
<1>1. Len(r) = n + 1 /\ n \in Nat /\ r[n + 1] = p /\ \A k \in 1 .. n : r[k] = t[k]
  BY AppendIs
<1>2. ASSUME NEW k \in 1 .. n PROVE End(t[k]) < p.start
  <2>1. t # <<>> /\ n \in 1 .. n
    BY SeqIs
  <2>2. p.start > End(t[n]) /\ End(t[k]) <= End(t[n])
    BY <2>1, Ends
  <2>3. End(t[k]) \in Int /\ End(t[n]) \in Int /\ p.start \in Nat
    BY <2>1, SeqIs, PartFields
  <2> QED
    BY <2>2, <2>3
<1>3. InOrder(t) /\ Within(t, s)
  OBVIOUS
<1> HIDE DEF r, n
<1>4. \A k \in 1 .. n : End(t[k]) <= Usable(s) /\ t[k].num = k /\ t[k].size # 0
  BY <1>3 DEF Within, InOrder, n
<1>5. \A j, k \in 1 .. n : j < k => End(t[j]) < t[k].start
  BY <1>3 DEF InOrder, n
<1>6. \A k \in 1 .. n + 1 : k = n + 1 \/ k \in 1 .. n
  BY <1>1
<1>7. Within(r, s)
  BY <1>1, <1>4, <1>6 DEF Within
<1>8. p.num = n + 1
  BY DEF n
<1>9. \A k \in 1 .. n + 1 : r[k].num = k /\ r[k].size # 0
  BY <1>1, <1>4, <1>6, <1>8
<1>10. \A j, k \in 1 .. n + 1 : j < k => End(r[j]) < r[k].start
  BY <1>1, <1>2, <1>5
<1>11. InOrder(r)
  BY <1>1, <1>9, <1>10 DEF InOrder
<1> QED
  BY <1>7, <1>11 DEF r
-----------------------------------------------------------------------------
(* The inductive invariant.                                                *)

KnownPart == [num : Nat, start : Nat, size : Nat]

Types ==
  /\ length \in Nat /\ known \in Nat /\ hung \in BOOLEAN
  /\ table \in Seq(Part)
  /\ dev \in [loaded : BOOLEAN, lastS : Nat, parts : Seq(KnownPart)]
  /\ prog \in {"install", "layout"} /\ pc \in Stage \cup {"ready", "exited"}
  /\ want \in Seq(WantedPart) /\ next \in 1 .. Len(want) + 1
  /\ num \in Nat /\ runs \in Nat /\ faults \in Nat /\ layout \in Layouts
  /\ start.table \in Seq(Part) /\ start.faults \in Nat /\ start.again \in BOOLEAN

Adding   == {"addReload", "find", "format"}
ToAdd    == {"lookup", "addLoad", "addWrite"}
Expanded == {"expandReload", "expandFind", "resize", "growXfs"}
ToExpand == {"device", "expandLoad", "expandWrite"}

TableInv ==
  /\ Len(table) <= MaxParts /\ InOrder(table) /\ Within(table, known)
  /\ known <= length /\ (GPTBackup = 0 => known = length)

\* Which program is at which of its steps, and with what.
ProgramInv ==
  /\ pc \in Stage => err = "none" /\ runs > 0
  /\ pc \in {"wipe", "wipeReload"} => prog = "install"
  /\ pc \in ToExpand \cup Expanded \cup {"lookup"} => prog = "layout"
  /\ pc \in {"wipe", "wipeReload"} \cup ToAdd \cup Adding => next <= Len(want)
  /\ prog = "layout" /\ runs > 0 => want = layout.parts /\ expand = layout.expand
  /\ prog = "install" => expand = {}
  /\ pc \in {"expandLoad", "expandWrite"} \cup Expanded => expand # {}
  /\ pc = "exited" /\ err = "none" => next = Len(want) + 1
  /\ pc = "exited" => runs > 0
  /\ pc # "ready" => start.faults <= faults

\* What the program knows of the disk is true but between a write and a reload.
DevTrue ==
  /\ dev.lastS = length /\ Len(dev.parts) = Len(table)
  /\ \A k \in 1 .. Len(table) : /\ dev.parts[k].num = table[k].num
                                /\ dev.parts[k].start = table[k].start
                                /\ dev.parts[k].size = table[k].size
DeviceInv ==
  /\ dev.loaded => known = length
  /\ dev.loaded /\ pc \notin {"expandReload", "addReload", "exited"} => DevTrue
  /\ pc \in {"expandWrite", "addWrite"} \cup Expanded \cup Adding => dev.loaded
  /\ pc \in {"ready", "device", "wipe", "wipeReload"} => ~dev.loaded
  /\ pc \in ToAdd => dev.loaded \/ (prog = "layout" /\ expand = {})

NewInv == pc \in Adding => table # <<>> /\ num = Len(table) /\ table[Len(table)].made = runs

\* The partitions a layout found.
OthersKept ==
  \A k \in 1 .. Len(start.table) :
    k < Len(start.table) \/ expand = {} => k <= Len(table) /\ table[k] = start.table[k]
Kept(old, part) ==
  /\ part.size >= old.size /\ (part.data = old.data \/ hung)
  /\ part.num = old.num /\ part.start = old.start /\ part.label = old.label
  /\ part.fs = old.fs /\ part.made = old.made
LastKept ==
  start.table # <<>> /\ Len(start.table) <= Len(table) =>
    Kept(start.table[Len(start.table)], table[Len(start.table)])
KeepInv ==
  prog = "layout" /\ runs > 0 /\ pc # "ready" =>
    /\ OthersKept /\ LastKept
    /\ Len(start.table) <= Len(table) \/ err = "expand"
    /\ pc \in ToExpand => table = start.table
    /\ pc \in Expanded => Len(table) = Len(start.table) /\ num = Len(table) /\ ~hung /\ table # <<>>
    /\ pc \in Adding => Len(start.table) < Len(table)

\* The last of those is of the size asked for, and usable as a whole.
Sized(part, s) ==
  IF s = 0 THEN End(part) = Usable(length)
  ELSE /\ part.size = MiBToSectors(s)
       /\ Len(start.table) = 1 => part.size <= length - (SectorsPerMiB - 1)
LastSized == \A s \in expand : Sized(table[Len(start.table)], s)
LastFull  == expand # {} =>
  /\ start.table # <<>> /\ Len(start.table) <= Len(table) /\ ~hung /\ known = length
  /\ table[Len(start.table)].full /\ table[Len(start.table)].fs \in {"ext4", "xfs"}
\* The first wanted partitions are among the first ones of the disk.
Found(wanted, parts) ==
  \A w \in 1 .. wanted : \E k \in 1 .. parts : table[k].label = want[w].label
Settled == pc \in {"ready", "exited"} /\ err = "none"
LayoutInv ==
  prog = "layout" /\ runs > 0 =>
    /\ pc \in Expanded => LastSized
    /\ pc = "growXfs" => table[Len(table)].fs = "xfs"
    /\ Settled => next = Len(want) + 1
    /\ pc \in ToAdd \cup Adding \/ Settled =>
         /\ LastFull /\ LastSized
         /\ want = <<>> => Len(table) = Len(start.table)
    /\ pc \in ToAdd \/ Settled => Found(next - 1, Len(table))
    /\ pc \in Adding => Found(next - 1, Len(table) - 1)

\* A layout that is repeated finds nothing to do.
StableInv ==
  /\ pc # "ready" /\ prog = "layout" /\ runs > 0
  /\ start.again /\ faults = start.faults /\ (want = <<>> \/ expand = {})
  =>
    /\ table = start.table /\ err = "none" /\ pc \notin {"addLoad", "addWrite"} \cup Adding
    /\ Found(Len(want), Len(table)) /\ LastFull /\ LastSized

\* The partitions an installation has made.
Laid ==
  \A k \in 1 .. Len(table) :
    /\ table[k].start = IF k = 1 THEN SectorsPerMiB ELSE End(table[k - 1]) + 1
    /\ IF want[k].size = 0 THEN End(table[k]) = Usable(length)
       ELSE table[k].size = MiBToSectors(want[k].size)
    /\ k < next => table[k].label = want[k].label /\ table[k].fs = want[k].fs /\ table[k].full
InstallInv ==
  prog = "install" =>
    /\ pc = "wipe" => next = 1
    /\ pc \in {"wipeReload"} \cup ToAdd \cup Adding \/ (pc = "exited" /\ err = "none") =>
         Laid /\ Len(table) = IF pc \in Adding THEN next ELSE next - 1

IInv == /\ Types /\ TableInv /\ ProgramInv /\ DeviceInv /\ NewInv
        /\ KeepInv /\ LayoutInv /\ StableInv /\ InstallInv
-----------------------------------------------------------------------------
(* The steps that leave the disk as it is.                                 *)

LEMMA SnapshotIs ==
  ASSUME Types
  PROVE  /\ Snapshot \in [loaded : BOOLEAN, lastS : Nat, parts : Seq(KnownPart)]
         /\ Snapshot.loaded /\ Snapshot.lastS = length /\ Len(Snapshot.parts) = Len(table)
         /\ \A k \in 1 .. Len(table) : /\ Snapshot.parts[k].num = table[k].num
                                       /\ Snapshot.parts[k].start = table[k].start
                                       /\ Snapshot.parts[k].size = table[k].size
<1> DEFINE part(k) == [num |-> table[k].num, start |-> table[k].start, size |-> table[k].size]
           parts == [k \in DOMAIN table |-> part(k)]
           n == Len(table)
<1>1. n \in Nat /\ DOMAIN table = 1 .. n /\ length \in Nat /\ \A k \in 1 .. n : table[k] \in Part
  BY SeqIs DEF Types
<1>2. ASSUME NEW k \in 1 .. n
      PROVE  /\ part(k) \in KnownPart /\ part(k).num = table[k].num
             /\ part(k).start = table[k].start /\ part(k).size = table[k].size
  BY <1>1, PartFields DEF KnownPart
<1> HIDE DEF part, n
<1>3. parts = [k \in 1 .. n |-> part(k)]
  BY <1>1
<1>4. parts \in Seq(KnownPart) /\ Len(parts) = n /\ \A k \in 1 .. n : parts[k] = part(k)
  BY <1>1, <1>2, <1>3
<1>5. Snapshot = [loaded |-> TRUE, lastS |-> length, parts |-> parts]
  BY DEF Snapshot, part
<1> HIDE DEF parts
<1>6. /\ Snapshot.loaded /\ Snapshot.lastS = length /\ Snapshot.parts = parts
      /\ Snapshot \in [loaded : BOOLEAN, lastS : Nat, parts : Seq(KnownPart)]
  BY <1>1, <1>4, <1>5
<1> QED
  BY <1>2, <1>4, <1>6 DEF n

\* The next partition of the configuration, or the end.
After(n) == IF n > Len(want) THEN "exited" ELSE IF prog = "install" THEN "addLoad" ELSE "lookup"

LookAround == \/ FindDevice \/ ExpandLoad \/ ExpandReload \/ ExpandFind \/ WipeReload
              \/ Lookup \/ AddLoad \/ AddReload \/ Find

\* What such a step does to the disk and to what is known of it.
Looks ==
  /\ UNCHANGED <<length, table, hung, prog, want, expand, num, layout, runs, start>>
  /\ \/ dev' = dev /\ known' = known
     \/ dev' = Snapshot /\ known' = IF GPTBackup > 0 THEN length ELSE known
     \/ dev' = dev /\ known' \in (IF GPTBackup > 0 THEN {known, length} ELSE {known}) /\ pc' = "exited"

\* Where it goes without an error.
Turn ==
  \/ pc = "device" /\ expand # {} /\ pc' = "expandLoad" /\ next' = next /\ dev' = dev
  \/ pc = "device" /\ expand = {} /\ pc' = After(1) /\ next' = 1 /\ dev' = dev
  \/ pc = "expandLoad" /\ pc' = "expandWrite" /\ next' = next /\ dev'.loaded
  \/ pc = "expandReload" /\ pc' = "expandFind" /\ next' = next /\ dev' = Snapshot
  \/ pc = "expandFind" /\ pc' = "resize" /\ next' = next /\ dev' = dev
  \/ pc = "wipeReload" /\ pc' = "addLoad" /\ next' = next /\ dev' = Snapshot
  \/ pc = "lookup" /\ Labelled(want[next].label) /\ pc' = After(next + 1) /\ next' = next + 1 /\ dev' = dev
  \/ /\ pc = "lookup" /\ pc' = "addLoad" /\ next' = next /\ dev' = dev
     /\ ~Labelled(want[next].label) \/ faults' = faults + 1
  \/ pc = "addLoad" /\ pc' = "addWrite" /\ next' = next /\ dev'.loaded
  \/ pc = "addReload" /\ pc' = "find" /\ next' = next /\ dev' = Snapshot
  \/ pc = "find" /\ pc' = "format" /\ next' = next /\ dev' = dev

LEMMA LookAroundIs ==
  ASSUME Types, LookAround
  PROVE  /\ Looks /\ pc \in Stage \ {"wipe", "expandWrite", "addWrite", "resize", "growXfs", "format"}
         /\ faults' = faults \/ faults' = faults + 1
         /\ \/ Turn /\ err' = err /\ (faults' = faults \/ pc = "lookup")
            \/ pc' = "exited" /\ err' # "none" /\ next' = next
               /\ \/ faults' = faults + 1
                  \/ pc \in {"expandFind", "find"} /\ ~Exists(num) /\ faults' = faults
<1> USE DEF Looks, Turn, Succeeds, Fails, Goto, Abort, Stage, Types
<1>1. Snapshot.loaded
  BY SnapshotIs
<1>2. CASE FindDevice
  BY <1>2 DEF FindDevice, Continue, After
<1>3. CASE Lookup
  BY <1>3 DEF Lookup, Continue, After
<1>4. CASE ExpandLoad
  BY <1>1, <1>4 DEF ExpandLoad, LoadAt, ReloadAt, Reload
<1>5. CASE AddLoad
  BY <1>1, <1>5 DEF AddLoad, LoadAt, ReloadAt, Reload
<1>6. CASE ExpandReload \/ WipeReload \/ AddReload
  BY <1>6 DEF ExpandReload, WipeReload, AddReload, ReloadAt, Reload
<1>7. CASE ExpandFind \/ Find
  BY <1>7 DEF ExpandFind, Find, FindAt
<1> QED
  BY <1>2, <1>3, <1>4, <1>5, <1>6, <1>7 DEF LookAround

\* The predicates that say the same before and after.
LEMMA LooksKeep ==
  ASSUME Types, TableInv, Looks
  PROVE  /\ OthersKept' <=> OthersKept
         /\ LastKept' <=> LastKept
         /\ LastSized' <=> LastSized
         /\ LastFull => LastFull'
         /\ \A n, m : Found(n, m)' <=> Found(n, m)
         /\ Exists(num)' <=> Exists(num)
<1> USE DEF Looks
<1>1. OthersKept' <=> OthersKept
  BY DEF OthersKept
<1>2. LastKept' <=> LastKept
  BY DEF LastKept, Kept
<1>3. LastSized' <=> LastSized
  BY DEF LastSized, Sized
<1>4. LastFull => LastFull'
  BY DEF LastFull
<1>5. \A n, m : Found(n, m)' <=> Found(n, m)
  BY DEF Found
<1>6. Exists(num)' <=> Exists(num)
  BY DEF Exists
<1> QED
  BY <1>1, <1>2, <1>3, <1>4, <1>5, <1>6

\* The sizes of the disk and of its table.
LEMMA UsableGrows ==
  ASSUME NEW r \in Nat, NEW s \in Nat, r <= s, NEW t \in Seq(Part), Within(t, r)
  PROVE  Within(t, s)
<1>1. Usable(r) <= Usable(s) /\ Usable(r) \in Int /\ Usable(s) \in Int
  BY UsableIs, PartitionerAssumption
<1>2. \A k \in 1 .. Len(t) : End(t[k]) \in Int
  BY SeqIs, PartFields
<1> QED
  BY <1>1, <1>2 DEF Within

LEMMA LookAroundKeeps ==
  ASSUME IInv, LookAround
  PROVE  IInv'
<1> USE DEF IInv
<1>1. /\ Looks /\ pc \in Stage \ {"wipe", "expandWrite", "addWrite", "resize", "growXfs", "format"}
      /\ faults' = faults \/ faults' = faults + 1
      /\ \/ Turn /\ err' = err /\ (faults' = faults \/ pc = "lookup")
         \/ pc' = "exited" /\ err' # "none" /\ next' = next
            /\ \/ faults' = faults + 1
               \/ pc \in {"expandFind", "find"} /\ ~Exists(num) /\ faults' = faults
  BY LookAroundIs
<1>2. /\ OthersKept' <=> OthersKept
      /\ LastKept' <=> LastKept
      /\ LastSized' <=> LastSized
      /\ LastFull => LastFull'
      /\ \A n, m : Found(n, m)' <=> Found(n, m)
  BY <1>1, LooksKeep
<1>3. Exists(num) \/ pc \notin {"expandFind", "find"}
  <2>1. SUFFICES ASSUME pc \in {"expandFind", "find"} PROVE Exists(num)
    OBVIOUS
  <2>2. num = Len(table) /\ table # <<>>
    BY <2>1 DEF NewInv, KeepInv, Adding, Expanded, ProgramInv, Stage
  <2>3. num \in 1 .. Len(table)
    BY <2>2, SeqIs DEF Types
  <2> QED
    BY <2>3, AtIs DEF Types, TableInv
<1>4. /\ Looks /\ (faults' = faults \/ faults' = faults + 1)
      /\ \/ Turn /\ err' = err /\ pc \in Stage /\ (faults' = faults \/ pc = "lookup")
         \/ pc' = "exited" /\ pc \in Stage /\ err' # "none" /\ next' = next /\ faults' = faults + 1
  BY <1>1, <1>3
<1>5. Types'
  <2>1. dev' \in [loaded : BOOLEAN, lastS : Nat, parts : Seq(KnownPart)]
    BY <1>4, SnapshotIs DEF Types, Looks
  <2>2. known' \in Nat
    BY <1>4 DEF Types, Looks
  <2>3. pc' \in Stage \cup {"ready", "exited"}
    BY <1>4 DEF Turn, Stage, After
  <2>4. next' \in 1 .. Len(want) + 1
    <3>1. pc = "lookup" => next <= Len(want)
      BY DEF ProgramInv, ToAdd
    <3>2. Len(want) \in Nat /\ next \in 1 .. Len(want) + 1
      BY SeqIs DEF Types
    <3> QED
      BY <1>4, <3>1, <3>2 DEF Turn
  <2> QED
    BY <1>4, <2>1, <2>2, <2>3, <2>4 DEF Types, Looks
<1>6. TableInv'
  <2>1. known' \in Nat /\ known <= known' /\ known' <= length /\ (GPTBackup = 0 => known' = length)
    BY <1>4 DEF Types, TableInv, Looks
  <2>2. Within(table, known')
    BY <2>1, UsableGrows DEF Types, TableInv
  <2> QED
    BY <1>4, <2>1, <2>2 DEF TableInv, Looks
<1>7. dev'.loaded => known' = length
  <2>1. known' = length \/ (dev' = dev /\ known' \in {known, length})
    BY <1>4, PartitionerAssumption DEF TableInv, Looks
  <2> QED
    BY <2>1, <1>4 DEF Looks, DeviceInv
<1>8. dev' = Snapshot => DevTrue' /\ dev'.loaded
  BY <1>4, SnapshotIs DEF DevTrue, Looks
<1>9. dev' = dev => (DevTrue' <=> DevTrue)
  BY <1>4 DEF DevTrue, Looks
<1>10. ProgramInv'
  <2>1. UNCHANGED <<prog, want, expand, layout, runs, start>> /\ start.faults \in Nat /\ faults \in Nat
    BY <1>4 DEF Looks, Types
  <2>2. CASE pc' = "exited" /\ pc \in Stage /\ err' # "none" /\ next' = next /\ faults' = faults + 1
    BY <2>1, <2>2 DEF ProgramInv, Stage, ToExpand, Expanded, ToAdd, Adding
  <2>3. CASE Turn /\ err' = err /\ pc \in Stage
    BY <1>4, <2>1, <2>3, SMTT(30) DEF ProgramInv, Turn, Types, Stage, After, ToExpand, Expanded, ToAdd, Adding
  <2> QED
    BY <1>4, <2>2, <2>3
<1>11. DeviceInv'
  BY <1>4, <1>7, <1>8, <1>9 DEF DeviceInv, ProgramInv, Looks, Turn, Stage, After, ToExpand, Expanded, ToAdd, Adding
<1>12. NewInv'
  BY <1>4 DEF NewInv, Looks, Turn, Stage, After, Adding
<1>13. KeepInv'
  BY <1>2, <1>4 DEF KeepInv, ProgramInv, Looks, Turn, Stage, After, ToExpand, Expanded, ToAdd, Adding
<1>14. LayoutInv'
  <2>1. SUFFICES ASSUME prog = "layout", runs > 0
                 PROVE  LayoutInv'
    BY <1>4 DEF LayoutInv, Looks
  <2>2. LayoutInv /\ KeepInv /\ ProgramInv /\ want \in Seq(WantedPart) /\ next \in 1 .. Len(want) + 1
    BY DEF Types
  <2>3. want = <<>> => Len(want) = 0
    OBVIOUS
  <2>4. /\ Settled' <=> pc' \in {"ready", "exited"} /\ err' = "none"
        /\ err = "none"
    BY <1>4 DEF Settled, ProgramInv
  <2>5. pc' \in Expanded => LastSized'
    BY <1>2, <1>4, <2>1, <2>2 DEF LayoutInv, Turn, Expanded, After
  <2>6. pc' # "growXfs"
    BY <1>4 DEF Turn, After
  <2>7. pc' \in ToAdd \cup Adding \/ Settled' =>
          /\ LastFull' /\ LastSized'
          /\ want' = <<>> => Len(table') = Len(start'.table)
    <3>1. expand = {} => LastFull /\ LastSized
      BY DEF LastFull, LastSized
    <3>2. pc = "device" => table = start.table
      BY <2>1, <2>2 DEF KeepInv, ToExpand
    <3>3. pc' \in ToAdd \cup Adding \/ Settled' => (pc = "device" /\ expand = {}) \/ pc \in ToAdd \cup Adding
      BY <1>4, <2>1, <2>2, <2>4 DEF Turn, ToAdd, Adding, After, ProgramInv
    <3>4. pc \in ToAdd \cup Adding => LastFull /\ LastSized /\ (want = <<>> => Len(table) = Len(start.table))
      BY <2>1, <2>2 DEF LayoutInv
    <3> QED
      BY <1>2, <1>4, <3>1, <3>2, <3>3, <3>4 DEF Looks
  <2>8. (pc' \in ToAdd \/ Settled') /\ pc # "lookup" => Found(next' - 1, Len(table))
    <3>1. Found(0, Len(table))
      BY DEF Found
    <3> QED
      BY <1>4, <2>1, <2>2, <2>4, <3>1 DEF LayoutInv, Turn, ToAdd, After, ProgramInv
  <2>9. (pc' \in ToAdd \/ Settled') /\ pc = "lookup" => Found(next' - 1, Len(table))
    <3>1. SUFFICES ASSUME pc = "lookup", pc' \in ToAdd \/ Settled'
                   PROVE  Found(next' - 1, Len(table))
      OBVIOUS
    <3>2. Found(next - 1, Len(table)) /\ next \in Nat
      BY <2>1, <2>2, <3>1, SeqIs DEF LayoutInv, ToAdd
    <3>3. CASE next' = next
      BY <3>2, <3>3
    <3>4. CASE next' = next + 1 /\ Labelled(want[next].label)
      <4>1. \E k \in 1 .. Len(table) : table[k].label = want[next].label
        BY <3>4, SeqIs DEF Labelled, Types
      <4>2. \A w \in 1 .. next : w \in 1 .. next - 1 \/ w = next
        BY <3>2
      <4>3. next' - 1 = next
        BY <3>2, <3>4
      <4> QED
        BY <3>2, <4>1, <4>2, <4>3 DEF Found
    <3> QED
      BY <1>4, <2>4, <3>1, <3>3, <3>4 DEF Turn
  <2>10. pc' \in ToAdd \/ Settled' => Found(next - 1, Len(table))'
    <3>1. Found(next' - 1, Len(table)) => Found(next - 1, Len(table))'
      BY <1>4 DEF Found, Looks
    <3> QED
      BY <2>8, <2>9, <3>1
  <2>11. pc' \in Adding => Found(next - 1, Len(table) - 1)'
    <3>1. pc' \in Adding => pc \in Adding /\ next' = next
      BY <1>4 DEF Adding, Turn, After
    <3>2. pc \in Adding => Found(next - 1, Len(table) - 1)
      BY <2>1, <2>2 DEF LayoutInv
    <3>3. next' = next => (Found(next - 1, Len(table) - 1)' <=> Found(next - 1, Len(table) - 1))
      BY <1>4 DEF Found, Looks
    <3> QED
      BY <3>1, <3>2, <3>3
  <2>12. Settled' => next' = Len(want') + 1
    <3>1. next' \in 1 .. Len(want) + 1 /\ Len(want) \in Nat
      BY <1>4, <1>5, SeqIs DEF Types, Looks
    <3>2. Settled' => next' > Len(want)
      BY <1>4, <2>1, <2>2, <2>4 DEF Turn, After, ProgramInv, Stage
    <3> QED
      BY <1>4, <3>1, <3>2 DEF Looks
  <2> QED
    BY <2>5, <2>6, <2>7, <2>10, <2>11, <2>12 DEF LayoutInv
<1>15. StableInv'
  <2>1. SUFFICES ASSUME pc' # "ready", prog = "layout", runs > 0, start.again, faults' = start.faults,
                        want = <<>> \/ expand = {}
                 PROVE  /\ table' = start'.table /\ err' = "none"
                        /\ pc' \notin {"addLoad", "addWrite"} \cup Adding
                        /\ Found(Len(want), Len(table))' /\ LastFull' /\ LastSized'
    BY <1>4 DEF StableInv, Looks
  <2>2. faults' = faults /\ faults = start.faults
    BY <1>4, <2>1 DEF ProgramInv, Types, Stage
  <2>3. /\ table = start.table /\ err = "none" /\ pc \notin {"addLoad", "addWrite"} \cup Adding
        /\ Found(Len(want), Len(table)) /\ LastFull /\ LastSized
    BY <1>4, <2>1, <2>2 DEF StableInv, Stage
  <2>4. Turn /\ err' = err
    BY <1>4, <2>2 DEF Types
  <2>5. Found(Len(want), Len(table))' <=> Found(Len(want), Len(table))
    BY <1>4 DEF Found, Looks
  <2>6. pc = "lookup" => Labelled(want[next].label)
    <3>1. SUFFICES ASSUME pc = "lookup" PROVE Labelled(want[next].label)
      OBVIOUS
    <3>2. next \in 1 .. Len(want)
      BY <3>1 DEF ProgramInv, ToAdd, Types
    <3> QED
      <4>1. \E k \in 1 .. Len(table) : table[k].label = want[next].label
        BY <2>3, <3>2 DEF Found
      <4>2. DOMAIN table = 1 .. Len(table)
        BY SeqIs DEF Types
      <4> QED
        BY <4>1, <4>2 DEF Labelled
  <2>7. pc' \notin {"addLoad", "addWrite"} \cup Adding
    BY <2>1, <2>2, <2>3, <2>4, <2>6, <1>4 DEF Turn, After, Adding, ProgramInv, Types
  <2> QED
    BY <1>2, <1>4, <2>3, <2>4, <2>5, <2>7 DEF Looks
<1>16. InstallInv'
  <2>1. SUFFICES ASSUME prog = "install" PROVE InstallInv'
    BY <1>4 DEF InstallInv, Looks
  <2>2. next' = next => (Laid' <=> Laid)
    BY <1>4 DEF Laid, Looks
  <2>3. pc \notin {"device", "lookup", "expandLoad", "expandReload", "expandFind"}
    BY <2>1 DEF ProgramInv, ToExpand, Expanded
  <2> QED
    BY <1>4, <2>1, <2>2, <2>3 DEF InstallInv, Looks, Turn, ToAdd, Adding, Stage
<1> QED
  BY <1>5, <1>6, <1>10, <1>11, <1>12, <1>13, <1>14, <1>15, <1>16
-----------------------------------------------------------------------------
(* The machine: the first state, the calls, restarts and larger disks.     *)

LEMMA DiskSizes == \A s \in Sizes : s * SectorsPerMiB \in Nat
BY PartitionerAssumption

LEMMA UnknownIs == /\ Unknown \in [loaded : BOOLEAN, lastS : Nat, parts : Seq(KnownPart)]
                   /\ Unknown.loaded = FALSE
BY DEF Unknown

LEMMA KeptAsIs == \A p \in Part : Kept(p, p)
BY PartFields DEF Kept

\* A table whose last partition fits is within the disk.
LEMMA LastWithin ==
  ASSUME NEW t \in Seq(Part), InOrder(t), NEW s \in Nat,
         t # <<>> => End(t[Len(t)]) <= Usable(s)
  PROVE  Within(t, s)
<1> SUFFICES ASSUME NEW k \in 1 .. Len(t) PROVE End(t[k]) <= Usable(s)
  BY DEF Within
<1>1. t # <<>> /\ Len(t) \in 1 .. Len(t)
  BY SeqIs
<1>2. End(t[k]) \in Int /\ End(t[Len(t)]) \in Int /\ Usable(s) \in Int
  BY <1>1, SeqIs, PartFields, UsableIs
<1> QED
  BY <1>1, <1>2, Ends

LEMMA InitHolds ==
  ASSUME InputsTyped, Init
  PROVE  IInv
<1>1. /\ length \in Nat /\ known = length /\ table \in Seq(Part) /\ Len(table) <= MaxParts
      /\ InOrder(table) /\ layout \in Layouts /\ runs = 0 /\ faults = 0 /\ hung = FALSE
      /\ dev = Unknown /\ prog = "layout" /\ pc = "ready" /\ want = <<>> /\ next = 1 /\ num = 0
      /\ table # <<>> => End(table[Len(table)]) <= Usable(length)
  BY DiskSizes, TablesOfParts DEF Init, InputsTyped
<1>2. start.table = table /\ start.faults = 0 /\ start.again = FALSE
  BY DEF Init
<1>3. want \in Seq(WantedPart) /\ Len(want) = 0
  BY <1>1
<1>4. Types
  <2>1. hung \in BOOLEAN /\ start.again \in BOOLEAN
    BY <1>1, <1>2, Zenon
  <2> QED
    BY <1>1, <1>2, <1>3, <2>1, UnknownIs DEF Types
<1>5. TableInv
  BY <1>1, LastWithin DEF TableInv
<1>6. ProgramInv /\ DeviceInv /\ NewInv
  BY <1>1, UnknownIs DEF ProgramInv, DeviceInv, NewInv, Stage, ToExpand, Expanded, ToAdd, Adding
<1>7. KeepInv /\ LayoutInv /\ StableInv /\ InstallInv
  BY <1>1 DEF KeepInv, LayoutInv, StableInv, InstallInv
<1> QED
  BY <1>4, <1>5, <1>6, <1>7 DEF IInv

\* What every call does.
LEMMA CalledIs ==
  ASSUME Types, NEW p, Called(p)
  PROVE  /\ pc \in {"ready", "exited"} /\ prog' = p /\ runs' = runs + 1 /\ runs' \in Nat /\ runs' > 0
         /\ dev' = Unknown /\ err' = "none" /\ num' = 0
         /\ start'.table = table /\ start'.faults = faults
         /\ start'.again = (prog = "layout" /\ runs > 0 /\ err = "none")
BY DEF Called, Types

LEMMA CallInstallKeeps ==
  ASSUME InputsTyped, IInv, NEW i \in Installs, CallInstall(i)
  PROVE  IInv'
<1> USE DEF IInv
<1>1. /\ Called("install") /\ pc' = "wipe" /\ next' = 1 /\ expand' = {}
      /\ UNCHANGED <<length, known, table, hung, layout, faults>>
      /\ want' \in Seq(WantedPart) /\ want' # <<>>
  BY DEF CallInstall, InputsTyped
<1>2. /\ prog' = "install" /\ runs' \in Nat /\ runs' > 0
      /\ dev' = Unknown /\ err' = "none" /\ num' = 0
      /\ start'.table = table /\ start'.faults = faults
      /\ start'.again = (prog = "layout" /\ runs > 0 /\ err = "none")
  BY <1>1, CalledIs
<1>3. Len(want') \in Nat /\ Len(want') > 0
  BY <1>1
<1>4. Types'
  BY <1>1, <1>2, <1>3, UnknownIs DEF Types, Stage
<1>5. TableInv'
  BY <1>1 DEF TableInv
<1>6. ProgramInv' /\ DeviceInv' /\ NewInv'
  BY <1>1, <1>2, <1>3, UnknownIs
     DEF Types, ProgramInv, DeviceInv, NewInv, Stage, ToExpand, Expanded, ToAdd, Adding
<1>7. KeepInv' /\ LayoutInv' /\ StableInv' /\ InstallInv'
  BY <1>1, <1>2 DEF KeepInv, LayoutInv, StableInv, InstallInv, ToAdd, Adding
<1> QED
  BY <1>4, <1>5, <1>6, <1>7

LEMMA CallLayoutKeeps ==
  ASSUME InputsTyped, IInv, CallLayout
  PROVE  IInv'
<1> USE DEF IInv
<1>1. /\ Called("layout") /\ pc' = "device" /\ next' = 1
      /\ UNCHANGED <<length, known, table, hung, layout, faults>>
      /\ want' = layout.parts /\ expand' = layout.expand /\ want' \in Seq(WantedPart)
  BY DEF CallLayout, InputsTyped, Types
<1>2. /\ prog' = "layout" /\ runs' \in Nat /\ runs' > 0 /\ pc \in {"ready", "exited"}
      /\ dev' = Unknown /\ err' = "none" /\ num' = 0
      /\ start'.table = table /\ start'.faults = faults
      /\ start'.again = (prog = "layout" /\ runs > 0 /\ err = "none")
  BY <1>1, CalledIs
<1>3. Len(want') \in Nat
  BY <1>1
<1>4. Types'
  BY <1>1, <1>2, <1>3, UnknownIs DEF Types, Stage
<1>5. TableInv'
  BY <1>1 DEF TableInv
<1>6. ProgramInv' /\ DeviceInv' /\ NewInv'
  BY <1>1, <1>2, <1>3, UnknownIs
     DEF Types, ProgramInv, DeviceInv, NewInv, Stage, ToExpand, Expanded, ToAdd, Adding
<1>7. KeepInv'
  <2>1. Len(table) \in Nat /\ (table # <<>> => table[Len(table)] \in Part)
    BY SeqIs DEF Types
  <2>2. OthersKept'
    BY <1>1, <1>2, <2>1 DEF OthersKept
  <2>3. table # <<>> => Kept(table[Len(table)], table[Len(table)])
    BY <2>1, KeptAsIs
  <2>4. LastKept'
    BY <1>1, <1>2, <2>3 DEF LastKept, Kept
  <2> QED
    BY <1>1, <1>2, <2>1, <2>2, <2>4 DEF KeepInv, Expanded, Adding
<1>8. LayoutInv'
  BY <1>1, <1>2 DEF LayoutInv, Expanded, ToAdd, Adding, Settled
<1>9. StableInv'
  <2>1. SUFFICES ASSUME start'.again, want' = <<>> \/ expand' = {}
                 PROVE  Found(Len(want), Len(table))' /\ LastFull' /\ LastSized'
    BY <1>1, <1>2 DEF StableInv, Adding
  <2>2. prog = "layout" /\ runs > 0 /\ Settled /\ start'.table = table
    BY <1>2, <2>1 DEF Settled
  <2>3. want' = want /\ expand' = expand
    BY <1>1, <2>2 DEF ProgramInv
  <2>4. /\ next = Len(want) + 1 /\ LastFull /\ LastSized /\ Found(next - 1, Len(table))
        /\ want = <<>> => Len(table) = Len(start.table)
    BY <2>2 DEF LayoutInv
  <2>5. next - 1 = Len(want)
    BY <2>4, SeqIs DEF Types
  <2>6. Found(Len(want), Len(table))'
    BY <1>1, <2>3, <2>4, <2>5 DEF Found
  <2>7. expand # {} => Len(start.table) = Len(table) /\ table # <<>> /\ Len(table) \in Nat
    <3>1. Len(start.table) \in Nat /\ Len(table) \in Nat
      BY SeqIs DEF Types
    <3>2. expand # {} => start.table # <<>> /\ Len(start.table) = Len(table)
      BY <2>1, <2>3, <2>4 DEF LastFull
    <3> QED
      BY <3>1, <3>2, SeqIs DEF Types
  <2>8. LastFull'
    BY <1>1, <2>2, <2>3, <2>4, <2>7 DEF LastFull
  <2>9. LastSized'
    BY <1>1, <2>2, <2>3, <2>4, <2>7 DEF LastSized, Sized
  <2> QED
    BY <2>6, <2>8, <2>9
<1>10. InstallInv'
  BY <1>2 DEF InstallInv
<1> QED
  BY <1>4, <1>5, <1>6, <1>7, <1>8, <1>9, <1>10

LEMMA RestartKeeps ==
  ASSUME IInv, Restart
  PROVE  IInv'
<1> USE DEF IInv
<1>1. /\ pc' = "ready" /\ hung' = FALSE /\ dev' = Unknown
      /\ UNCHANGED <<length, known, table, prog, want, expand, next, num, layout, runs, start>>
      /\ err' = "none" => err = "none" /\ pc = "exited"
      /\ faults' = faults \/ faults' = faults + 1
  BY DEF Restart, Succeeds, Fails
<1>2. Types'
  <2>1. hung' \in BOOLEAN
    BY <1>1, Zenon
  <2> QED
    BY <1>1, <2>1, UnknownIs DEF Types
<1>3. TableInv'
  BY <1>1 DEF TableInv
<1>4. ProgramInv' /\ DeviceInv' /\ NewInv'
  BY <1>1, UnknownIs DEF ProgramInv, DeviceInv, NewInv, Stage, ToExpand, Expanded, ToAdd, Adding
<1>5. KeepInv' /\ StableInv' /\ InstallInv'
  BY <1>1 DEF KeepInv, StableInv, InstallInv, ToAdd, Adding
<1>6. LayoutInv'
  <2>1. SUFFICES ASSUME prog = "layout", runs > 0, err' = "none"
                 PROVE  /\ next' = Len(want') + 1 /\ LastFull' /\ LastSized'
                        /\ want' = <<>> => Len(table') = Len(start'.table)
                        /\ Found(next - 1, Len(table))'
    BY <1>1 DEF LayoutInv, Settled, ToAdd, Adding, Expanded
  <2>2. /\ next = Len(want) + 1 /\ LastFull /\ LastSized /\ Found(next - 1, Len(table))
        /\ want = <<>> => Len(table) = Len(start.table)
    BY <1>1, <2>1 DEF LayoutInv, Settled
  <2>3. LastFull' /\ LastSized'
    BY <1>1, <2>2 DEF LastFull, LastSized, Sized
  <2>4. Found(next - 1, Len(table))'
    BY <1>1, <2>2 DEF Found
  <2> QED
    BY <1>1, <2>2, <2>3, <2>4
<1> QED
  BY <1>2, <1>3, <1>4, <1>5, <1>6

LEMMA GrowKeeps ==
  ASSUME IInv, Grow
  PROVE  IInv'
<1> USE DEF IInv
<1>1. /\ pc = "ready" /\ length' \in Nat /\ length' > length /\ err' = "grown"
      /\ known' = IF GPTBackup > 0 THEN known ELSE length'
      /\ UNCHANGED <<table, hung, dev, prog, want, expand, pc, next, num, layout, runs, start, faults>>
  BY DiskSizes DEF Grow
<1>2. known' \in Nat /\ known <= known' /\ known' <= length' /\ (GPTBackup = 0 => known' = length')
  BY <1>1, PartitionerAssumption DEF Types, TableInv
<1>3. Types'
  BY <1>1, <1>2 DEF Types
<1>4. TableInv'
  <2>1. Within(table, known')
    BY <1>2, UsableGrows DEF Types, TableInv
  <2> QED
    BY <1>1, <1>2, <2>1 DEF TableInv
<1>5. ProgramInv' /\ DeviceInv' /\ NewInv'
  BY <1>1 DEF ProgramInv, DeviceInv, NewInv, Stage, ToExpand, Expanded, ToAdd, Adding
<1>6. KeepInv' /\ StableInv' /\ InstallInv' /\ LayoutInv'
  BY <1>1 DEF KeepInv, StableInv, InstallInv, LayoutInv, Settled, ToAdd, Adding, Expanded
<1> QED
  BY <1>3, <1>4, <1>5, <1>6
-----------------------------------------------------------------------------
(* A partition is added.                                                   *)

\* The first partitions, those a layout found among them, stay what they are.
LEMMA PrefixKept ==
  ASSUME Types, NEW m \in Nat, m <= Len(table), m <= Len(table'), Len(table') \in Nat,
         \A k \in 1 .. m : table'[k] = table[k], Len(start.table) <= m,
         UNCHANGED <<length, known, hung, want, expand, start>>
  PROVE  /\ OthersKept => OthersKept'
         /\ LastKept => LastKept'
         /\ LastFull /\ LastSized => LastFull' /\ LastSized'
         /\ \A n \in Int : \A j \in 0 .. m : Found(n, j) => Found(n, j)'
<1>1. Len(start.table) \in Nat /\ Len(table) \in Nat /\ (start.table # <<>> => Len(start.table) \in 1 .. m)
  BY SeqIs DEF Types
<1>2. OthersKept => OthersKept'
  BY <1>1 DEF OthersKept
<1>3. LastKept => LastKept'
  BY <1>1 DEF LastKept, Kept
<1>4. LastFull /\ LastSized => LastFull' /\ LastSized'
  BY <1>1 DEF LastFull, LastSized, Sized
<1>5. ASSUME NEW n \in Int, NEW j \in 0 .. m, Found(n, j)
      PROVE  Found(n, j)'
  <2>1. \A k \in 1 .. j : table'[k] = table[k]
    OBVIOUS
  <2> QED
    BY <1>5, <2>1 DEF Found
<1> QED
  BY <1>2, <1>3, <1>4, <1>5

\* The place of the next partition.
LEMMA NextIs ==
  ASSUME Types, TableInv, DeviceInv, pc = "addWrite"
  PROVE  /\ NextStart = IF Len(table) = 0 THEN SectorsPerMiB ELSE End(table[Len(table)]) + 1
         /\ NextNumber = Len(table) + 1 /\ NextStart \in Nat
         /\ known = length
<1>1. DevTrue /\ known = length
  BY DEF DeviceInv
<1>2. dev.parts \in Seq(KnownPart) /\ Len(dev.parts) = Len(table)
  BY <1>1 DEF Types, DevTrue
<1>3. dev.parts = <<>> <=> Len(table) = 0
  BY <1>2
<1>4. Len(table) # 0 => /\ Len(table) \in 1 .. Len(table) /\ Len(table) \in Nat
                        /\ table[Len(table)] \in Part
  BY SeqIs DEF Types
<1>5. Len(table) # 0 =>
        /\ LastKnown.num = table[Len(table)].num /\ LastKnown.start = table[Len(table)].start
        /\ LastKnown.size = table[Len(table)].size
  BY <1>1, <1>2, <1>4 DEF DevTrue, LastKnown
<1>6. Len(table) # 0 =>
        /\ table[Len(table)].num = Len(table) /\ End(LastKnown) = End(table[Len(table)])
        /\ End(table[Len(table)]) + 1 \in Nat
  BY <1>4, <1>5, PartFields DEF TableInv, InOrder, End
<1>7. Len(table) \in Nat
  BY SeqIs DEF Types
<1> QED
  BY <1>1, <1>3, <1>5, <1>6, <1>7, PartitionerAssumption DEF NextStart, NextNumber

LEMMA AddedIs ==
  ASSUME Types, TableInv, DeviceInv, pc = "addWrite", NEW size \in Nat, Fits(table, NextStart, size)
  PROVE  LET p == Added(size)
             r == Append(table, p)
         IN  /\ p \in Part /\ p.made = runs
             /\ p.start = IF Len(table) = 0 THEN SectorsPerMiB ELSE End(table[Len(table)]) + 1
             /\ IF size = 0 THEN End(p) = Usable(length) ELSE p.size = size
             /\ r \in Seq(Part) /\ InOrder(r) /\ Within(r, known) /\ Len(r) <= MaxParts
             /\ Len(r) = Len(table) + 1 /\ r[Len(table) + 1] = p
             /\ \A k \in 1 .. Len(table) : r[k] = table[k]
<1> DEFINE p == Added(size)
           r == Append(table, p)
<1>1. /\ NextStart = IF Len(table) = 0 THEN SectorsPerMiB ELSE End(table[Len(table)]) + 1
      /\ NextStart \in Nat /\ known = length /\ known \in Nat /\ length \in Nat
  BY NextIs DEF Types
<1>2. LowestFree(table) = Len(table) + 1 /\ Len(table) \in Nat
  BY LowestFreeIs, SeqIs DEF Types, TableInv, InOrder
<1>3. /\ Len(table) < MaxParts /\ NextStart <= Usable(known)
      /\ size # 0 => NextStart + size - 1 <= Usable(known)
      /\ table # <<>> => NextStart > End(table[Len(table)])
  BY DEF Fits
<1>4. Usable(known) \in Int
  BY <1>1, UsableIs
<1>5. /\ SizeOf(NextStart, size) \in Nat \ {0}
      /\ NextStart + SizeOf(NextStart, size) - 1 <= Usable(known)
      /\ IF size = 0 THEN NextStart + SizeOf(NextStart, size) - 1 = Usable(known)
         ELSE SizeOf(NextStart, size) = size
  <2> DEFINE x == SizeOf(NextStart, size)
  <2>1. CASE size = 0
    <3>1. x = Usable(known) - NextStart + 1
      BY <2>1 DEF SizeOf
    <3> QED
      BY <1>1, <1>3, <1>4, <2>1, <3>1
  <2>2. CASE size # 0
    <3>1. x = size
      BY <2>2 DEF SizeOf
    <3> QED
      BY <1>1, <1>3, <1>4, <2>2, <3>1
  <2> QED
    BY <2>1, <2>2
<1>6. /\ p \in Part
      /\ p.num = Len(table) + 1 /\ p.start = NextStart /\ p.size = SizeOf(NextStart, size) /\ p.made = runs
  <2> DEFINE n == Len(table) + 1
             f == NextStart
             x == SizeOf(NextStart, size)
  <2>1. n \in Nat /\ f \in Nat /\ x \in Nat /\ runs \in Nat
    BY <1>1, <1>2, <1>5 DEF Types
  <2>2. p = [num |-> n, start |-> f, size |-> x, label |-> "", fs |-> "none",
             full |-> FALSE, data |-> TRUE, made |-> runs]
    BY <1>2 DEF Added
  <2> HIDE DEF n, f, x, p
  <2>3. p \in Part
    <3>1. "" \in STRING \cup {""} /\ "none" \in {"none", "ext4", "xfs", "vfat", ""}
      OBVIOUS
    <3>2. FALSE \in BOOLEAN /\ TRUE \in BOOLEAN
      BY Zenon
    <3> QED
      BY <2>1, <2>2, <3>1, <3>2, Zenon DEF Part
  <2>4. p.num = n /\ p.start = f /\ p.size = x /\ p.made = runs
    BY <2>2, Zenon
  <2> QED
    BY <2>3, <2>4 DEF n, f, x
<1> HIDE DEF p
<1>7. End(p) = NextStart + SizeOf(NextStart, size) - 1
  BY <1>6 DEF End
<1>8. /\ r \in Seq(Part) /\ Len(r) = Len(table) + 1
      /\ \A k \in 1 .. Len(table) : r[k] = table[k]
      /\ r[Len(table) + 1] = p
  BY <1>6, AppendIs DEF Types
<1>9. InOrder(r) /\ Within(r, known)
  BY <1>1, <1>3, <1>5, <1>6, <1>7, AppendInOrder DEF Types, TableInv
<1>10. Len(r) <= MaxParts
  BY <1>2, <1>3, <1>8, PartitionerAssumption
<1> HIDE DEF r
<1>11. /\ p.start = IF Len(table) = 0 THEN SectorsPerMiB ELSE End(table[Len(table)]) + 1
       /\ IF size = 0 THEN End(p) = Usable(length) ELSE p.size = size
  BY <1>1, <1>5, <1>6, <1>7
<1> QED
  BY <1>6, <1>8, <1>9, <1>10, <1>11 DEF p, r

LEMMA AddWriteKeeps ==
  ASSUME InputsTyped, IInv, AddWrite
  PROVE  IInv'
<1> USE DEF IInv
<1> DEFINE size == MiBToSectors(want[next].size)
           p == Added(size)
           r == Append(table, p)
<1>1. pc = "addWrite" /\ err = "none" /\ runs > 0 /\ next \in 1 .. Len(want)
  BY DEF AddWrite, ProgramInv, Stage, Types, ToAdd
<1>2. size \in Nat /\ ((size = 0) <=> (want[next].size = 0))
  BY <1>1, MiBIs, WantedFields, SeqIs, Zenon DEF Types
<1>3. /\ UNCHANGED <<length, known, hung, dev, prog, want, expand, next, layout, runs, start>>
      /\ faults' = faults \/ faults' = faults + 1
      /\ \/ /\ pc' = "addReload" /\ err' = err /\ faults' = faults
            /\ Fits(table, NextStart, size) /\ table' = r /\ num' = NextNumber
         \/ /\ pc' = "exited" /\ err' = "add" /\ num' = num
            /\ table' = table \/ (Fits(table, NextStart, size) /\ table' = r)
  BY DEF AddWrite, Succeeds, Fails, Goto, Abort
<1>4. Fits(table, NextStart, size) =>
        /\ p \in Part /\ p.made = runs
        /\ p.start = IF Len(table) = 0 THEN SectorsPerMiB ELSE End(table[Len(table)]) + 1
        /\ IF size = 0 THEN End(p) = Usable(length) ELSE p.size = size
        /\ r \in Seq(Part) /\ InOrder(r) /\ Within(r, known) /\ Len(r) <= MaxParts
        /\ Len(r) = Len(table) + 1 /\ r[Len(table) + 1] = p
        /\ \A k \in 1 .. Len(table) : r[k] = table[k]
  BY <1>1, <1>2, AddedIs
<1>5. NextNumber = Len(table) + 1 /\ known = length /\ Len(table) \in Nat
  BY <1>1, NextIs, SeqIs DEF Types
<1> HIDE DEF size, p, r
<1>6. /\ table' \in Seq(Part) /\ InOrder(table') /\ Within(table', known) /\ Len(table') <= MaxParts
      /\ Len(table) <= Len(table') /\ Len(table') \in Nat
      /\ \A k \in 1 .. Len(table) : table'[k] = table[k]
  BY <1>3, <1>4, <1>5 DEF Types, TableInv
<1>7. Len(start.table) \in Nat /\ start.table # <<>> => Len(start.table) \in 1 .. Len(start.table)
  BY SeqIs DEF Types
<1>8. prog = "layout" => /\ OthersKept /\ LastKept /\ Len(start.table) <= Len(table)
                         /\ LastFull /\ LastSized /\ (want = <<>> => Len(table) = Len(start.table))
                         /\ Found(next - 1, Len(table))
  BY <1>1 DEF KeepInv, LayoutInv, ToAdd
<1>9. prog = "layout" => OthersKept' /\ LastKept' /\ LastFull' /\ LastSized'
  BY <1>1, <1>3, <1>5, <1>6, <1>8, PrefixKept
<1>10. Types'
  <2>1. pc' \in Stage \cup {"ready", "exited"}
    BY <1>3 DEF Stage
  <2>2. num' \in Nat /\ faults' \in Nat
    BY <1>3, <1>5 DEF Types
  <2> QED
    BY <1>3, <1>6, <2>1, <2>2 DEF Types
<1>11. TableInv'
  BY <1>3, <1>6 DEF TableInv
<1>12. ProgramInv'
  <2>1. start.faults \in Nat /\ faults \in Nat
    BY DEF Types
  <2> QED
    BY <1>1, <1>3, <2>1, SMTT(30) DEF ProgramInv, Stage, ToExpand, Expanded, ToAdd, Adding
<1>13. DeviceInv'
  BY <1>1, <1>3 DEF DeviceInv, ToExpand, Expanded, ToAdd, Adding
<1>14. NewInv'
  BY <1>3, <1>4, <1>5, <1>6 DEF NewInv, Adding
<1>15. KeepInv'
  BY <1>3, <1>4, <1>5, <1>6, <1>7, <1>8, <1>9 DEF KeepInv, ToExpand, Expanded, Adding
<1>16. LayoutInv'
  <2>1. SUFFICES ASSUME prog = "layout", pc' = "addReload"
                 PROVE  /\ LastFull' /\ LastSized' /\ want # <<>>
                        /\ Found(next - 1, Len(table) - 1)'
    BY <1>3 DEF LayoutInv, Settled, ToAdd, Adding, Expanded
  <2>2. want # <<>>
    BY <1>1
  <2>3. Len(table') - 1 = Len(table)
    BY <1>3, <1>4, <1>5, <2>1
  <2>4. Found(next - 1, Len(table) - 1)'
    BY <1>3, <1>6, <1>8, <2>1, <2>3 DEF Found
  <2> QED
    BY <1>9, <2>1, <2>2, <2>4
<1>17. StableInv'
  <2>1. SUFFICES ASSUME prog = "layout", start.again, faults' = start.faults, want = <<>> \/ expand = {}
                 PROVE  FALSE
    BY <1>3 DEF StableInv
  <2>2. faults = start.faults
    BY <1>1, <1>3, <2>1 DEF ProgramInv, Types
  <2> QED
    BY <1>1, <2>1, <2>2 DEF StableInv
<1>18. InstallInv'
  <2>1. SUFFICES ASSUME prog = "install", pc' = "addReload"
                 PROVE  Laid' /\ Len(table') = next'
    BY <1>3 DEF InstallInv, ToAdd, Adding
  <2>2. Laid /\ Len(table) = next - 1 /\ next \in Nat /\ table' = r /\ Fits(table, NextStart, size)
    BY <1>1, <1>3, <2>1 DEF InstallInv, ToAdd, Adding
  <2>3. Len(table') = next /\ table'[next] = p /\ \A k \in 1 .. next - 1 : table'[k] = table[k]
    BY <1>4, <2>2
  <2>4. ASSUME NEW k \in 1 .. next
        PROVE  /\ table'[k].start = IF k = 1 THEN SectorsPerMiB ELSE End(table'[k - 1]) + 1
               /\ IF want[k].size = 0 THEN End(table'[k]) = Usable(length)
                  ELSE table'[k].size = MiBToSectors(want[k].size)
               /\ k < next => /\ table'[k].label = want[k].label /\ table'[k].fs = want[k].fs
                              /\ table'[k].full
    <3>1. CASE k # next
      <4>1. k \in 1 .. next - 1 /\ table'[k] = table[k] /\ (k # 1 => table'[k - 1] = table[k - 1])
        BY <2>2, <2>3, <3>1
      <4> QED
        BY <2>2, <4>1 DEF Laid
    <3>2. CASE k = next
      <4>1. table'[k] = p /\ (k # 1 => k - 1 = Len(table) /\ table'[k - 1] = table[Len(table)])
        BY <2>2, <2>3, <3>2
      <4>2. (k = 1) <=> (Len(table) = 0)
        BY <2>2, <3>2
      <4>3. p.start = IF k = 1 THEN SectorsPerMiB ELSE End(table'[k - 1]) + 1
        BY <1>4, <2>2, <4>1, <4>2
      <4>4. IF want[k].size = 0 THEN End(p) = Usable(length) ELSE p.size = MiBToSectors(want[k].size)
        BY <1>2, <1>4, <2>2, <3>2 DEF size
      <4>5. ~(k < next)
        BY <2>2, <3>2
      <4> QED
        BY <4>1, <4>3, <4>4, <4>5
    <3> QED
      BY <3>1, <3>2
  <2> QED
    BY <1>3, <2>2, <2>3, <2>4 DEF Laid
<1> QED
  BY <1>10, <1>11, <1>12, <1>13, <1>14, <1>15, <1>16, <1>17, <1>18
-----------------------------------------------------------------------------
(* A partition is formatted, or its file system is grown.                  *)

IsFormat(f, l, b) ==
  f \in {"none", "ext4", "xfs", "vfat", ""} /\ l \in STRING \cup {""} /\ b \in BOOLEAN

IsFormatted(r, t, k, f, l, b) == r = [t EXCEPT ![k].fs = f, ![k].label = l, ![k].full = b]

FormattedAs(r, t, k, f, l, b) ==
  /\ r \in Seq(Part) /\ Len(r) = Len(t)
  /\ \A j \in 1 .. Len(t) : j # k => r[j] = t[j]
  /\ r[k].num = t[k].num /\ r[k].start = t[k].start /\ r[k].size = t[k].size
  /\ r[k].made = t[k].made /\ r[k].fs = f /\ r[k].label = l /\ r[k].full = b

LEMMA FormattedIs ==
  ASSUME NEW t \in Seq(Part), NEW k \in 1 .. Len(t), NEW f, NEW l, NEW b, IsFormat(f, l, b),
         NEW r, IsFormatted(r, t, k, f, l, b)
  PROVE  FormattedAs(r, t, k, f, l, b)
<1>1. PICK p : p = t[k]
  OBVIOUS
<1>2. PICK q : q = [p EXCEPT !.fs = f, !.label = l, !.full = b]
  OBVIOUS
<1>3. PICK u : u = [t EXCEPT ![k] = q]
  OBVIOUS
<1>4. r = u
  BY <1>1, <1>2, <1>3, SeqIs DEF IsFormatted
<1>5. p \in Part
  BY <1>1, SeqIs
<1>6. q \in Part
  BY <1>2, <1>5, Zenon DEF Part, IsFormat
<1>7. /\ q.num = p.num /\ q.start = p.start /\ q.size = p.size /\ q.made = p.made
      /\ q.fs = f /\ q.label = l /\ q.full = b
  BY <1>2, <1>5, Zenon DEF Part
<1>8. /\ u \in Seq(Part) /\ Len(u) = Len(t) /\ u[k] = q
      /\ \A j \in 1 .. Len(t) : j # k => u[j] = t[j]
  BY <1>3, <1>6, ReplaceIs
<1> QED
  BY <1>1, <1>4, <1>7, <1>8 DEF FormattedAs

\* Partitions of the same numbers, places and sizes.
SamePlaces(t, u) ==
  /\ Len(u) = Len(t)
  /\ \A k \in 1 .. Len(t) : u[k].num = t[k].num /\ u[k].start = t[k].start /\ u[k].size = t[k].size

LEMMA PlacesKept ==
  ASSUME Types, TableInv, SamePlaces(table, table'), UNCHANGED <<length, known, dev>>
  PROVE  TableInv' /\ (DevTrue => DevTrue') /\ \A k \in 1 .. Len(table) : End(table'[k]) = End(table[k])
<1>1. Len(table') = Len(table)
  BY DEF SamePlaces
<1>2. \A k \in 1 .. Len(table) : End(table'[k]) = End(table[k])
  BY DEF SamePlaces, End
<1>3. InOrder(table')
  BY <1>1, <1>2 DEF SamePlaces, InOrder, TableInv
<1>4. Within(table', known)
  BY <1>1, <1>2 DEF Within, TableInv
<1>5. TableInv'
  BY <1>1, <1>3, <1>4 DEF TableInv
<1>6. DevTrue => DevTrue'
  BY <1>1 DEF SamePlaces, DevTrue
<1> QED
  BY <1>2, <1>5, <1>6

\* What formatting the last partition may leave.
LEMMA FormatIs ==
  ASSUME IInv, Format
  PROVE  /\ pc = "format" /\ err = "none" /\ runs > 0 /\ next \in 1 .. Len(want)
         /\ num = Len(table) /\ Len(table) \in Nat /\ Len(table) > 0
         /\ UNCHANGED <<length, known, hung, dev, prog, want, expand, num, layout, runs, start>>
         /\ table' \in Seq(Part) /\ SamePlaces(table, table')
         /\ \A k \in 1 .. Len(table) - 1 : table'[k] = table[k]
         /\ \/ /\ next' = next + 1 /\ pc' = After(next + 1) /\ err' = err /\ faults' = faults
               /\ table'[Len(table)].label = want[next].label
               /\ table'[Len(table)].fs = want[next].fs /\ table'[Len(table)].full
            \/ pc' = "exited" /\ err' = "format" /\ next' = next /\ faults' = faults + 1
<1> USE DEF IInv
<1> DEFINE n == Len(table)
<1>1. /\ pc = "format" /\ err = "none" /\ runs > 0 /\ next \in 1 .. Len(want)
      /\ num = n /\ table # <<>>
  <2>1. pc = "format"
    BY Zenon DEF Format
  <2> QED
    BY <2>1 DEF ProgramInv, Stage, Types, NewInv, Adding
<1>2. n \in Nat /\ n > 0 /\ table[n] \in Part
  BY <1>1, SeqIs DEF Types
<1>3. At(num) = n
  BY <1>1, <1>2, AtIs DEF Types, TableInv
<1> DEFINE fs == want[next].fs
           label == want[next].label
<1>13. PICK made : made = [table EXCEPT ![n].fs = fs, ![n].label = label, ![n].full = TRUE]
  OBVIOUS
<1>14. PICK wiped : wiped = [table EXCEPT ![n].fs = "none", ![n].label = "", ![n].full = FALSE]
  OBVIOUS
<1>4. /\ UNCHANGED <<length, known, hung, dev, prog, want, expand, num, layout, runs, start>>
      /\ \/ /\ table' = made /\ err' = err /\ faults' = faults
            /\ next' = next + 1 /\ pc' = After(next + 1)
         \/ /\ pc' = "exited" /\ err' = "format" /\ next' = next /\ faults' = faults + 1
            /\ table' \in {table, made, wiped}
  BY <1>3, <1>13, <1>14, Zenon DEF Format, Formatted, Succeeds, Fails, Goto, Abort, Continue, After
<1>5. want[next] \in WantedPart
  BY <1>1, SeqIs DEF Types
<1>6. IsFormat(fs, label, TRUE)
  <2>1. fs \in {"ext4", "xfs", "vfat", ""} /\ label \in STRING
    BY <1>5, WantedFields, Zenon
  <2> QED
    BY <2>1, Zenon DEF IsFormat
<1>7. IsFormat("none", "", FALSE)
  BY Zenon DEF IsFormat
<1>8. /\ made \in Seq(Part) /\ Len(made) = n
      /\ \A j \in 1 .. n : j # n => made[j] = table[j]
      /\ made[n].num = table[n].num /\ made[n].start = table[n].start /\ made[n].size = table[n].size
      /\ made[n].fs = fs /\ made[n].label = label /\ made[n].full = TRUE
  <2>1. table \in Seq(Part) /\ n \in 1 .. Len(table)
    BY <1>2 DEF Types
  <2>2. IsFormatted(made, table, n, fs, label, TRUE)
    BY <1>13 DEF IsFormatted
  <2>3. FormattedAs(made, table, n, fs, label, TRUE)
    BY <1>6, <2>1, <2>2, FormattedIs
  <2> QED
    BY <2>3 DEF FormattedAs
<1>9. /\ wiped \in Seq(Part) /\ Len(wiped) = n
      /\ \A j \in 1 .. n : j # n => wiped[j] = table[j]
      /\ wiped[n].num = table[n].num /\ wiped[n].start = table[n].start /\ wiped[n].size = table[n].size
  <2>1. table \in Seq(Part) /\ n \in 1 .. Len(table)
    BY <1>2 DEF Types
  <2>2. IsFormatted(wiped, table, n, "none", "", FALSE)
    BY <1>14, Zenon DEF IsFormatted
  <2>3. FormattedAs(wiped, table, n, "none", "", FALSE)
    BY <1>7, <2>1, <2>2, FormattedIs, Zenon
  <2> QED
    BY <2>3, Zenon DEF FormattedAs
<1>10. ASSUME table' \in {table, made, wiped}
       PROVE  /\ table' \in Seq(Part) /\ SamePlaces(table, table')
              /\ \A k \in 1 .. n - 1 : table'[k] = table[k]
  <2>1. CASE table' = table
    BY <1>2, <2>1 DEF Types, SamePlaces
  <2>2. CASE table' = made
    BY <1>2, <1>8, <2>2 DEF SamePlaces
  <2>3. CASE table' = wiped
    BY <1>2, <1>9, <2>3 DEF SamePlaces
  <2> QED
    BY <1>10, <2>1, <2>2, <2>3
<1>11. CASE table' = made /\ err' = err /\ faults' = faults /\ next' = next + 1 /\ pc' = After(next + 1)
  <2>1. table' \in {table, made, wiped}
    BY <1>11
  <2>2. table'[n].label = want[next].label /\ table'[n].fs = want[next].fs /\ table'[n].full = TRUE
    BY <1>8, <1>11
  <2> QED
    BY <1>1, <1>2, <1>4, <1>10, <1>11, <2>1, <2>2
<1>12. CASE /\ pc' = "exited" /\ err' = "format" /\ next' = next /\ faults' = faults + 1
            /\ table' \in {table, made, wiped}
  BY <1>1, <1>2, <1>4, <1>10, <1>12
<1> QED
  BY <1>4, <1>11, <1>12

LEMMA FormatKeeps ==
  ASSUME IInv, Format
  PROVE  IInv'
<1> USE DEF IInv
<1> DEFINE n == Len(table)
<1>1. /\ pc = "format" /\ err = "none" /\ runs > 0 /\ next \in 1 .. Len(want) /\ Len(want) \in Nat
      /\ num = n /\ n \in Nat /\ n > 0
      /\ UNCHANGED <<length, known, hung, dev, prog, want, expand, num, layout, runs, start>>
      /\ table' \in Seq(Part) /\ SamePlaces(table, table') /\ Len(table') = n
      /\ \A k \in 1 .. n - 1 : table'[k] = table[k]
      /\ \/ /\ next' = next + 1 /\ pc' = After(next + 1) /\ err' = err /\ faults' = faults
            /\ table'[n].label = want[next].label /\ table'[n].fs = want[next].fs /\ table'[n].full
         \/ pc' = "exited" /\ err' = "format" /\ next' = next /\ faults' = faults + 1
  BY FormatIs, SeqIs DEF Types, SamePlaces
<1>2. TableInv' /\ (DevTrue => DevTrue') /\ \A k \in 1 .. n : End(table'[k]) = End(table[k])
  BY <1>1, PlacesKept
<1>3. Types'
  <2>1. pc' \in Stage \cup {"ready", "exited"}
    BY <1>1 DEF Stage, After
  <2>2. next' \in 1 .. Len(want) + 1
    <3>1. next \in 1 .. Len(want) /\ Len(want) \in Nat /\ (next' = next \/ next' = next + 1)
      BY <1>1
    <3> QED
      BY ONLY <3>1
  <2>3. faults' \in Nat
    <3>1. faults \in Nat
      BY DEF Types
    <3>2. faults' = faults \/ faults' = faults + 1
      BY <1>1
    <3> QED
      BY ONLY <3>1, <3>2
  <2> QED
    BY <1>1, <2>1, <2>2, <2>3 DEF Types
<1>4. ProgramInv'
  <2>1. start.faults \in Nat /\ faults \in Nat /\ prog \in {"install", "layout"}
    BY DEF Types
  <2>2. /\ pc' = "exited" \/ (pc' = "addLoad" /\ prog = "install") \/ (pc' = "lookup" /\ prog = "layout")
        /\ pc' = "exited" /\ err' = "none" => next' = Len(want) + 1
        /\ pc' # "exited" => next' <= Len(want) /\ err' = "none"
    BY <1>1, <2>1, SMTT(20) DEF After
  <2> QED
    BY <1>1, <2>1, <2>2, SMTT(30) DEF ProgramInv, Stage, ToExpand, Expanded, ToAdd, Adding
<1>5. DeviceInv'
  BY <1>1, <1>2 DEF DeviceInv, After, ToExpand, Expanded, ToAdd, Adding
<1>6. NewInv'
  BY <1>1 DEF NewInv, After, Adding
<1>7. Len(start.table) \in Nat
  BY SeqIs DEF Types
<1>8. prog = "layout" =>
        /\ OthersKept /\ LastKept /\ Len(start.table) < n /\ LastFull /\ LastSized
        /\ want # <<>> /\ Found(next - 1, n - 1)
  BY <1>1 DEF KeepInv, LayoutInv, Adding
<1>9. prog = "layout" =>
        /\ OthersKept' /\ LastKept' /\ LastFull' /\ LastSized'
        /\ \A i \in Int : \A j \in 0 .. n - 1 : Found(i, j) => Found(i, j)'
  <2>1. SUFFICES ASSUME prog = "layout"
                 PROVE  /\ OthersKept' /\ LastKept' /\ LastFull' /\ LastSized'
                        /\ \A i \in Int : \A j \in 0 .. n - 1 : Found(i, j) => Found(i, j)'
    OBVIOUS
  <2>2. n - 1 \in Nat /\ n - 1 <= Len(table) /\ n - 1 <= Len(table') /\ Len(start.table) <= n - 1
    BY <1>1, <1>7, <1>8, <2>1
  <2> QED
    BY <1>1, <1>8, <2>1, <2>2, PrefixKept
<1>10. KeepInv'
  BY <1>1, <1>7, <1>8, <1>9 DEF KeepInv, After, ToExpand, Expanded, Adding
<1>11. LayoutInv'
  <2>1. SUFFICES ASSUME prog = "layout", err' = "none"
                 PROVE  LayoutInv'
    BY <1>1 DEF LayoutInv, Settled, ToAdd, Adding, Expanded
  <2>2. next' = next + 1 /\ pc' = After(next + 1) /\ table'[n].label = want[next].label
    BY <1>1, <2>1
  <2>3. Found(next - 1, Len(table))'
    <3> SUFFICES ASSUME NEW w \in 1 .. next PROVE \E k \in 1 .. n : table'[k].label = want[w].label
      <4>1. want' = want /\ next' - 1 = next /\ Len(table') = n
        BY <1>1, <2>2
      <4> QED
        BY <4>1 DEF Found
    <3>2. CASE w = next
      BY <1>1, <2>2, <3>2
    <3>3. CASE w # next
      <4>1. w \in 1 .. next - 1
        BY <1>1, <3>3
      <4>2. \E k \in 1 .. n - 1 : table[k].label = want[w].label
        BY <1>8, <2>1, <4>1 DEF Found
      <4> QED
        BY <1>1, <4>2
    <3> QED
      BY <3>2, <3>3
  <2>4. pc' = "exited" => next' = Len(want') + 1
    BY <1>1, <2>1, <2>2 DEF After
  <2>5. pc' \in {"exited", "lookup"}
    BY <2>1, <2>2 DEF After
  <2>6. LastFull' /\ LastSized' /\ want' # <<>>
    BY <1>1, <1>8, <1>9, <2>1
  <2> QED
    BY <2>3, <2>4, <2>5, <2>6 DEF LayoutInv, Settled, ToAdd, Adding, Expanded
<1>12. StableInv'
  <2>1. SUFFICES ASSUME prog = "layout", start.again, faults' = start.faults, want = <<>> \/ expand = {}
                 PROVE  FALSE
    BY <1>1 DEF StableInv
  <2>2. faults = start.faults
    BY <1>1, <2>1 DEF ProgramInv, Types
  <2> QED
    BY <1>1, <2>1, <2>2 DEF StableInv, Adding
<1>13. InstallInv'
  <2>1. SUFFICES ASSUME prog = "install", err' = "none"
                 PROVE  InstallInv'
    BY <1>1 DEF InstallInv, ToAdd, Adding
  <2>2. /\ Laid /\ n = next /\ next' = next + 1
        /\ table'[n].label = want[next].label /\ table'[n].fs = want[next].fs /\ table'[n].full
    BY <1>1, <2>1 DEF InstallInv, ToAdd, Adding
  <2>3. ASSUME NEW k \in 1 .. n
        PROVE  /\ table'[k].start = IF k = 1 THEN SectorsPerMiB ELSE End(table'[k - 1]) + 1
               /\ IF want[k].size = 0 THEN End(table'[k]) = Usable(length)
                  ELSE table'[k].size = MiBToSectors(want[k].size)
    <3>1. table'[k].start = table[k].start /\ table'[k].size = table[k].size /\ End(table'[k]) = End(table[k])
      BY <1>1, <1>2 DEF SamePlaces
    <3>2. k # 1 => End(table'[k - 1]) = End(table[k - 1])
      BY <1>1, <1>2
    <3> QED
      BY <2>2, <3>1, <3>2 DEF Laid
  <2>4. ASSUME NEW k \in 1 .. n
        PROVE  table'[k].label = want[k].label /\ table'[k].fs = want[k].fs /\ table'[k].full
    <3>1. CASE k = n
      BY <2>2, <3>1
    <3>2. CASE k # n
      BY <1>1, <2>2, <3>2 DEF Laid
    <3> QED
      BY <3>1, <3>2
  <2>5. Laid'
    BY <1>1, <2>3, <2>4 DEF Laid
  <2>6. Len(table') = next' - 1
    BY <1>1, <2>2
  <2> QED
    BY <1>1, <2>1, <2>2, <2>5, <2>6 DEF InstallInv, After, Adding
<1> QED
  BY <1>2, <1>3, <1>4, <1>5, <1>6, <1>10, <1>11, <1>12, <1>13

\* One flag of a partition is set.
FlagSet(r, t, k) ==
  /\ r \in Seq(Part) /\ Len(r) = Len(t)
  /\ \A j \in 1 .. Len(t) : j # k => r[j] = t[j]
  /\ r[k].num = t[k].num /\ r[k].start = t[k].start /\ r[k].size = t[k].size
  /\ r[k].made = t[k].made /\ r[k].fs = t[k].fs /\ r[k].label = t[k].label

FullSet(r, t, k) ==
  /\ FlagSet(r, t, k) /\ r[k].full = TRUE /\ r[k].data = t[k].data
  /\ t[k].full => r = t

LEMMA FullIs ==
  ASSUME NEW t \in Seq(Part), NEW k \in 1 .. Len(t)
  PROVE  \A r : r = [t EXCEPT ![k].full = TRUE] => FullSet(r, t, k)
<1>1. PICK p : p = t[k]
  OBVIOUS
<1>2. PICK q : q = [p EXCEPT !.full = TRUE]
  OBVIOUS
<1>3. PICK u : u = [t EXCEPT ![k] = q]
  OBVIOUS
<1>4. \A r : r = [t EXCEPT ![k].full = TRUE] => r = u
  BY <1>1, <1>2, <1>3, SeqIs
<1>5. p \in Part
  BY <1>1, SeqIs
<1>6. q \in Part
  BY <1>2, <1>5, Zenon DEF Part
<1>7. /\ q.num = p.num /\ q.start = p.start /\ q.size = p.size /\ q.made = p.made
      /\ q.fs = p.fs /\ q.label = p.label /\ q.data = p.data /\ q.full = TRUE
  BY <1>2, <1>5, Zenon DEF Part
<1>8. /\ u \in Seq(Part) /\ Len(u) = Len(t) /\ u[k] = q
      /\ \A j \in 1 .. Len(t) : j # k => u[j] = t[j]
  BY <1>3, <1>6, ReplaceIs
<1>9. p.full => q = p
  BY <1>2, <1>5, Zenon DEF Part
<1>10. p.full => u = t
  <2>1. p.full => \A j \in 1 .. Len(t) : u[j] = t[j]
    BY <1>1, <1>8, <1>9
  <2> QED
    BY <1>8, <2>1, SameTable
<1>11. FullSet(u, t, k)
  BY <1>1, <1>7, <1>8, <1>10 DEF FlagSet, FullSet
<1> QED
  BY <1>4, <1>11, Zenon

LEMMA LostIs ==
  ASSUME NEW t \in Seq(Part), NEW k \in 1 .. Len(t)
  PROVE  \A r : r = [t EXCEPT ![k].data = FALSE] => FlagSet(r, t, k)
<1>1. PICK p : p = t[k]
  OBVIOUS
<1>2. PICK q : q = [p EXCEPT !.data = FALSE]
  OBVIOUS
<1>3. PICK u : u = [t EXCEPT ![k] = q]
  OBVIOUS
<1>4. \A r : r = [t EXCEPT ![k].data = FALSE] => r = u
  BY <1>1, <1>2, <1>3, SeqIs
<1>5. p \in Part
  BY <1>1, SeqIs
<1>6. q \in Part
  BY <1>2, <1>5, Zenon DEF Part
<1>7. /\ q.num = p.num /\ q.start = p.start /\ q.size = p.size /\ q.made = p.made
      /\ q.fs = p.fs /\ q.label = p.label
  BY <1>2, <1>5, Zenon DEF Part
<1>8. /\ u \in Seq(Part) /\ Len(u) = Len(t) /\ u[k] = q
      /\ \A j \in 1 .. Len(t) : j # k => u[j] = t[j]
  BY <1>3, <1>6, ReplaceIs
<1>9. FlagSet(u, t, k)
  BY <1>1, <1>7, <1>8 DEF FlagSet
<1> QED
  BY <1>4, <1>9, Zenon

LEMMA FlagSetPlaces ==
  ASSUME NEW t \in Seq(Part), NEW k \in 1 .. Len(t), NEW r, FlagSet(r, t, k)
  PROVE  SamePlaces(t, r) /\ r \in Seq(Part) /\ \A j \in 1 .. Len(t) : j # k => r[j] = t[j]
<1>1. ASSUME NEW j \in 1 .. Len(t)
      PROVE  r[j].num = t[j].num /\ r[j].start = t[j].start /\ r[j].size = t[j].size
  BY DEF FlagSet
<1> QED
  BY <1>1 DEF FlagSet, SamePlaces

\* A new partition table.
LEMMA WipeKeeps ==
  ASSUME IInv, Wipe
  PROVE  IInv'
<1> USE DEF IInv
<1>1. pc = "wipe"
  BY DEF Wipe
<1>2. prog = "install" /\ next = 1 /\ err = "none" /\ runs > 0 /\ ~dev.loaded /\ next <= Len(want)
  BY <1>1 DEF ProgramInv, InstallInv, DeviceInv, Stage
<1>3. /\ UNCHANGED <<length, hung, dev, prog, want, expand, next, num, layout, runs, start>>
      /\ \/ table' = <<>> /\ known' = length /\ pc' = "wipeReload" /\ err' = err /\ faults' = faults
         \/ pc' = "exited" /\ err' = "wipe" /\ table' = table /\ known' = known /\ faults' = faults + 1
  BY DEF Wipe, Succeeds, Fails, Goto, Abort
<1>4. table' = <<>> => table' \in Seq(Part) /\ Len(table') = 0
  BY <1>3
<1>5. Types'
  <2>1. pc' \in Stage \cup {"ready", "exited"}
    BY <1>3 DEF Stage
  <2>2. table' \in Seq(Part) /\ known' \in Nat /\ faults' \in Nat
    BY <1>3, <1>4 DEF Types
  <2> QED
    BY <1>3, <2>1, <2>2 DEF Types
<1>6. TableInv'
  <2>1. CASE table' = <<>> /\ known' = length
    BY <1>3, <1>4, <2>1, PartitionerAssumption DEF TableInv, InOrder, Within, Types
  <2>2. CASE table' = table /\ known' = known
    BY <1>3, <2>2 DEF TableInv
  <2> QED
    BY <1>3, <2>1, <2>2
<1>7. ProgramInv' /\ DeviceInv' /\ NewInv'
  BY <1>1, <1>2, <1>3
     DEF Types, ProgramInv, DeviceInv, NewInv, Stage, ToExpand, Expanded, ToAdd, Adding
<1>8. KeepInv' /\ LayoutInv' /\ StableInv'
  BY <1>2, <1>3 DEF KeepInv, LayoutInv, StableInv
<1>9. InstallInv'
  BY <1>2, <1>3, <1>4 DEF InstallInv, Laid, ToAdd, Adding
<1> QED
  BY <1>5, <1>6, <1>7, <1>8, <1>9

\* The file system of the last partition has grown.
LEMMA GrownKeeps ==
  ASSUME IInv, pc \in {"resize", "growXfs"}, table[Len(table)].fs \in {"ext4", "xfs"},
         table' = [table EXCEPT ![Len(table)].full = TRUE],
         next' = 1, pc' = After(1), err' = err, faults' = faults,
         UNCHANGED <<length, known, hung, dev, prog, want, expand, num, layout, runs, start>>
  PROVE  IInv'
<1> USE DEF IInv
<1> DEFINE n == Len(table)
<1>1. prog = "layout" /\ runs > 0 /\ err = "none" /\ expand # {} /\ dev.loaded /\ known = length
  BY DEF ProgramInv, DeviceInv, Expanded, Stage
<1>2. /\ OthersKept /\ LastKept /\ Len(start.table) = n /\ num = n /\ ~hung /\ table # <<>>
      /\ DevTrue /\ LastSized
  BY <1>1 DEF KeepInv, DeviceInv, LayoutInv, Expanded
<1>3. n \in Nat /\ n \in 1 .. n /\ Len(want) \in Nat
  BY <1>2, SeqIs DEF Types
<1>4. /\ FlagSet(table', table, n) /\ table'[n].full = TRUE /\ table'[n].data = table[n].data
      /\ table[n].full => table' = table
  <2>1. table \in Seq(Part)
    BY DEF Types
  <2>2. FullSet(table', table, n)
    BY <1>3, <2>1, FullIs
  <2> QED
    BY <2>2 DEF FullSet
<1>5. /\ SamePlaces(table, table') /\ table' \in Seq(Part) /\ Len(table') = n
      /\ \A j \in 1 .. n : j # n => table'[j] = table[j]
  <2>1. table \in Seq(Part) /\ n \in 1 .. Len(table)
    BY <1>3 DEF Types
  <2> QED
    BY <1>4, <2>1, FlagSetPlaces DEF FlagSet
<1>6. TableInv' /\ DevTrue' /\ End(table'[n]) = End(table[n])
  BY <1>2, <1>3, <1>5, PlacesKept
<1>7. pc' \in {"exited", "lookup"} /\ (pc' = "exited" => Len(want) = 0) /\ (pc' = "lookup" => 1 <= Len(want))
  BY <1>1, <1>3 DEF After
<1>8. Types'
  BY <1>3, <1>5, <1>7 DEF Types, Stage
<1>9. ProgramInv' /\ DeviceInv' /\ NewInv'
  <2>1. ProgramInv'
    <3>1. start.faults \in Nat /\ faults \in Nat
      BY DEF Types
    <3>2. pc' = "exited" => next' = Len(want) + 1
      BY <1>3, <1>7
    <3> QED
      BY <1>1, <1>7, <3>1, <3>2, SMTT(30) DEF ProgramInv, Stage, ToExpand, Expanded, ToAdd, Adding
  <2>2. DeviceInv'
    BY <1>1, <1>6, <1>7 DEF DeviceInv, ToExpand, Expanded, ToAdd, Adding
  <2>3. NewInv'
    BY <1>7 DEF NewInv, Adding
  <2> QED
    BY <2>1, <2>2, <2>3
<1>10. OthersKept'
  BY <1>1, <1>2, <1>3, <1>5 DEF OthersKept
<1>11. LastKept'
  BY <1>2, <1>3, <1>4, <1>5 DEF LastKept, Kept, FlagSet
<1>12. LastSized'
  BY <1>2, <1>3, <1>4, <1>6 DEF LastSized, Sized, FlagSet
<1>13. LastFull'
  <2>1. start.table # <<>>
    BY <1>2, <1>3, SeqIs DEF Types
  <2> QED
    BY <1>1, <1>2, <1>3, <1>4, <1>5, <2>1 DEF LastFull, FlagSet
<1>14. KeepInv'
  BY <1>1, <1>2, <1>3, <1>5, <1>7, <1>10, <1>11 DEF KeepInv, ToExpand, Expanded, Adding
<1>15. Found(next - 1, Len(table))'
  BY DEF Found
<1>16. LayoutInv'
  BY <1>1, <1>2, <1>5, <1>7, <1>12, <1>13, <1>15 DEF LayoutInv, Settled, ToAdd, Adding, Expanded
<1>17. StableInv'
  <2>1. SUFFICES ASSUME start.again, faults = start.faults, want = <<>> \/ expand = {}
                 PROVE  table' = start'.table /\ Found(Len(want), Len(table))'
    BY <1>1, <1>7, <1>12, <1>13 DEF StableInv, Adding
  <2>2. table = start.table /\ LastFull /\ Found(Len(want), Len(table))
    BY <1>1, <2>1 DEF StableInv
  <2>3. table' = table
    BY <1>1, <1>2, <1>4, <2>2 DEF LastFull
  <2> QED
    BY <2>2, <2>3 DEF Found
<1>18. InstallInv'
  BY <1>1 DEF InstallInv
<1> QED
  BY <1>6, <1>8, <1>9, <1>14, <1>16, <1>17, <1>18

\* A layout stops on an error with the partitions where they are.
LEMMA ResizeFails ==
  ASSUME IInv, pc \in {"resize", "growXfs"}, pc' = "exited", err' = "resize", next' = next,
         \/ table' = table /\ hung' = hung
         \/ FlagSet(table', table, Len(table)) /\ hung' = TRUE,
         \/ faults' = faults + 1
         \/ faults' = faults /\ table[Len(table)].fs \notin {"ext4", "xfs"},
         UNCHANGED <<length, known, dev, prog, want, expand, num, layout, runs, start>>
  PROVE  IInv'
<1> USE DEF IInv
<1> DEFINE n == Len(table)
<1>1. prog = "layout" /\ runs > 0 /\ err = "none" /\ expand # {} /\ dev.loaded /\ known = length
  BY DEF ProgramInv, DeviceInv, Expanded, Stage
<1>2. OthersKept /\ LastKept /\ Len(start.table) = n /\ table # <<>>
  BY <1>1 DEF KeepInv, Expanded
<1>3. n \in Nat /\ n \in 1 .. n
  BY <1>2, SeqIs DEF Types
<1>4. /\ table' \in Seq(Part) /\ SamePlaces(table, table') /\ Len(table') = n
      /\ \A j \in 1 .. n : j # n => table'[j] = table[j]
      /\ table' = table \/ FlagSet(table', table, n)
  <2>1. CASE table' = table
    BY <1>3, <2>1 DEF Types, SamePlaces
  <2>2. CASE FlagSet(table', table, n)
    BY <1>3, <2>2, FlagSetPlaces DEF Types, FlagSet
  <2> QED
    BY <2>1, <2>2
<1>5. TableInv'
  BY <1>4, PlacesKept
<1>6. hung' \in BOOLEAN
  BY Zenon DEF Types
<1>7. Types'
  BY <1>4, <1>6 DEF Types
<1>8. ProgramInv' /\ DeviceInv' /\ NewInv'
  BY <1>1 DEF Types, ProgramInv, DeviceInv, NewInv, Stage, ToExpand, Expanded, ToAdd, Adding
<1>9. OthersKept'
  BY <1>1, <1>2, <1>3, <1>4 DEF OthersKept
<1>10. LastKept'
  <2>1. CASE table' = table /\ hung' = hung
    BY <1>2, <2>1 DEF LastKept, Kept
  <2>2. CASE FlagSet(table', table, n) /\ hung' = TRUE
    BY <1>2, <1>3, <2>2 DEF LastKept, Kept, FlagSet
  <2> QED
    BY <2>1, <2>2
<1>11. KeepInv'
  BY <1>2, <1>3, <1>4, <1>9, <1>10 DEF KeepInv, ToExpand, Expanded, Adding
<1>12. LayoutInv'
  BY DEF LayoutInv, Settled, ToAdd, Adding, Expanded
<1>13. StableInv'
  <2>1. SUFFICES ASSUME start.again, faults' = start.faults, want = <<>> \/ expand = {}
                 PROVE  FALSE
    BY DEF StableInv
  <2>2. faults = start.faults /\ faults' = faults
    BY <2>1 DEF ProgramInv, Types
  <2>3. LastFull
    BY <1>1, <2>1, <2>2 DEF StableInv
  <2> QED
    BY <1>1, <1>2, <2>2, <2>3 DEF LastFull, Types
<1>14. InstallInv'
  BY <1>1 DEF InstallInv
<1> QED
  BY <1>5, <1>7, <1>8, <1>11, <1>12, <1>13, <1>14

\* Where the tools run.
LEMMA LastIs ==
  ASSUME IInv, pc \in {"resize", "growXfs"}
  PROVE  At(num) = Len(table) /\ Len(table) \in 1 .. Len(table) /\ table # <<>>
<1>1. prog = "layout" /\ runs > 0
  BY DEF IInv, ProgramInv, Expanded, Stage
<1>2. num = Len(table) /\ table # <<>> /\ table \in Seq(Part) /\ InOrder(table)
  BY <1>1 DEF IInv, KeepInv, Expanded, Types, TableInv
<1>3. Len(table) \in 1 .. Len(table)
  BY <1>2, SeqIs
<1> QED
  BY <1>2, <1>3, AtIs

LEMMA ResizeKeeps ==
  ASSUME IInv, Resize
  PROVE  IInv'
<1> DEFINE n == Len(table)
<1>1. pc = "resize"
  BY DEF Resize
<1>2. At(num) = n
  BY <1>1, LastIs
<1>3. UNCHANGED <<length, known, hung, dev, prog, want, expand, num, layout, runs, start>>
  BY DEF Resize
<1>4. \/ /\ table[n].fs = "ext4" /\ faults' = faults /\ table' = [table EXCEPT ![n].full = TRUE]
         /\ next' = 1 /\ pc' = After(1) /\ err' = err
      \/ /\ table[n].fs = "xfs" /\ faults' = faults /\ pc' = "growXfs" /\ err' = err
         /\ table' = table /\ next' = next
      \/ /\ table[n].fs \notin {"ext4", "xfs"} /\ faults' = faults
         /\ pc' = "exited" /\ err' = "resize" /\ table' = table /\ next' = next
      \/ faults' = faults + 1 /\ pc' = "exited" /\ err' = "resize" /\ table' = table /\ next' = next
  BY <1>2 DEF Resize, Succeeds, Fails, Goto, Abort, Continue, After
<1>5. CASE /\ table[n].fs = "ext4" /\ faults' = faults /\ table' = [table EXCEPT ![n].full = TRUE]
           /\ next' = 1 /\ pc' = After(1) /\ err' = err
  BY <1>1, <1>3, <1>5, GrownKeeps
<1>6. CASE /\ pc' = "exited" /\ err' = "resize" /\ table' = table /\ next' = next
           /\ \/ faults' = faults + 1
              \/ faults' = faults /\ table[n].fs \notin {"ext4", "xfs"}
  BY <1>1, <1>3, <1>6, ResizeFails
<1>7. CASE /\ table[n].fs = "xfs" /\ faults' = faults /\ pc' = "growXfs" /\ err' = err
           /\ table' = table /\ next' = next
  <2> USE DEF IInv
  <2>1. Types'
    BY <1>3, <1>7 DEF Types, Stage
  <2>2. TableInv'
    BY <1>3, <1>7 DEF TableInv
  <2>3. ProgramInv'
    BY <1>1, <1>3, <1>7 DEF ProgramInv, Stage, ToExpand, Expanded, ToAdd, Adding
  <2>4. DevTrue' <=> DevTrue
    BY <1>3, <1>7 DEF DevTrue
  <2>5. DeviceInv' /\ NewInv'
    BY <1>1, <1>3, <1>7, <2>4 DEF DeviceInv, NewInv, ToExpand, Expanded, ToAdd, Adding
  <2>6. (OthersKept' <=> OthersKept) /\ (LastKept' <=> LastKept)
    BY <1>3, <1>7 DEF OthersKept, LastKept, Kept
  <2>7. (LastSized' <=> LastSized) /\ (LastFull' <=> LastFull)
    BY <1>3, <1>7 DEF LastSized, Sized, LastFull
  <2>8. Found(Len(want), Len(table))' <=> Found(Len(want), Len(table))
    BY <1>3, <1>7 DEF Found
  <2>9. KeepInv'
    BY <1>1, <1>3, <1>7, <2>6 DEF KeepInv, ToExpand, Expanded, Adding
  <2>10. LayoutInv'
    BY <1>1, <1>3, <1>7, <2>7 DEF LayoutInv, Settled, Expanded, ToAdd, Adding
  <2>11. StableInv'
    BY <1>1, <1>3, <1>7, <2>7, <2>8 DEF StableInv, Adding
  <2>12. InstallInv'
    BY <1>1, <1>3 DEF InstallInv, ProgramInv, Expanded
  <2> QED
    BY <2>1, <2>2, <2>3, <2>5, <2>9, <2>10, <2>11, <2>12
<1> QED
  BY <1>4, <1>5, <1>6, <1>7

LEMMA GrowXfsKeeps ==
  ASSUME IInv, GrowXfs
  PROVE  IInv'
<1> DEFINE n == Len(table)
<1>1. pc = "growXfs"
  BY DEF GrowXfs
<1>2. At(num) = n /\ n \in 1 .. n
  BY <1>1, LastIs
<1>3. UNCHANGED <<length, known, dev, prog, want, expand, num, layout, runs, start>>
  BY DEF GrowXfs
<1>4. \/ /\ faults' = faults /\ table' = [table EXCEPT ![n].full = TRUE] /\ hung' = hung
         /\ next' = 1 /\ pc' = After(1) /\ err' = err
      \/ /\ faults' = faults + 1 /\ pc' = "exited" /\ err' = "resize" /\ next' = next
         /\ \/ table' = table /\ hung' = hung
            \/ table' = [table EXCEPT ![n].data = FALSE] /\ hung' = TRUE
  BY <1>2 DEF GrowXfs, Succeeds, Fails, Goto, Abort, Continue, After
<1>5. table[n].fs = "xfs"
  BY <1>1 DEF IInv, LayoutInv, ProgramInv, Expanded, Stage
<1>6. table' = [table EXCEPT ![n].data = FALSE] => FlagSet(table', table, n)
  <2>1. table \in Seq(Part)
    BY DEF IInv, Types
  <2> QED
    BY <1>2, <2>1, LostIs
<1>7. CASE /\ faults' = faults /\ table' = [table EXCEPT ![n].full = TRUE] /\ hung' = hung
           /\ next' = 1 /\ pc' = After(1) /\ err' = err
  BY <1>1, <1>3, <1>5, <1>7, GrownKeeps
<1>8. CASE /\ faults' = faults + 1 /\ pc' = "exited" /\ err' = "resize" /\ next' = next
           /\ (table' = table /\ hung' = hung) \/ (FlagSet(table', table, n) /\ hung' = TRUE)
  BY <1>1, <1>3, <1>8, ResizeFails
<1> QED
  BY <1>4, <1>6, <1>7, <1>8
-----------------------------------------------------------------------------
(* The last partition is made again with another size.                     *)

\* The partition parted makes: in the place of the last one, and within the disk.
LEMMA RecreatedIs ==
  ASSUME Types, TableInv, table # <<>>, NEW size \in Nat,
         Fits(Front(table), table[Len(table)].start, size)
  PROVE  LET last == table[Len(table)]
             p    == Recreated(last, size)
             r    == Append(Front(table), p)
         IN  /\ p \in Part /\ p.num = last.num /\ p.start = last.start /\ p.label = last.label
             /\ p.fs = last.fs /\ p.data = last.data /\ p.made = last.made
             /\ IF size = 0 THEN End(p) = Usable(known) ELSE p.size = size
             /\ p.size = last.size => p = last
             /\ r \in Seq(Part) /\ InOrder(r) /\ Within(r, known)
             /\ Len(r) = Len(table) /\ r[Len(table)] = p
             /\ \A k \in 1 .. Len(table) - 1 : r[k] = table[k]
<1> DEFINE n == Len(table)
           f == Front(table)
           x == SizeOf(table[n].start, size)
           p == Recreated(table[n], size)
           r == Append(f, p)
<1>0. PICK last : last = table[n]
  OBVIOUS
<1>1. /\ f \in Seq(Part) /\ Len(f) = n - 1 /\ n \in Nat /\ n > 0 /\ n \in 1 .. n
      /\ \A k \in 1 .. n - 1 : f[k] = table[k]
      /\ last \in Part
  BY <1>0, FrontIs DEF Types
<1>2. last.num = n /\ last.size # 0 /\ last.start \in Nat /\ last.size \in Nat
  BY <1>0, <1>1, PartFields DEF TableInv, InOrder
<1>3. known \in Nat /\ Usable(known) \in Int
  BY UsableIs DEF Types
<1>4. /\ n - 1 < MaxParts
      /\ f # <<>> => last.start > End(f[Len(f)])
      /\ last.start <= Usable(known)
      /\ size # 0 => last.start + size - 1 <= Usable(known)
  BY <1>0, <1>1 DEF Fits
<1>5. /\ x \in Nat \ {0} /\ last.start + x - 1 <= Usable(known)
      /\ IF size = 0 THEN last.start + x - 1 = Usable(known) ELSE x = size
  <2>1. CASE size = 0
    <3>1. x = Usable(known) - last.start + 1
      BY <1>0, <2>1 DEF SizeOf
    <3> QED
      BY <1>2, <1>3, <1>4, <2>1, <3>1
  <2>2. CASE size # 0
    <3>1. x = size
      BY <2>2 DEF SizeOf
    <3> QED
      BY <1>2, <1>3, <1>4, <2>2, <3>1
  <2> QED
    BY <2>1, <2>2
<1>6. InOrder(f) /\ Within(f, known)
  BY <1>3, FrontInOrder DEF Types, TableInv
<1>7. LowestFree(f) = n
  <2>1. \A k \in 1 .. Len(f) : f[k].num = k
    BY <1>6 DEF InOrder
  <2>2. Len(f) + 1 = n
    BY <1>1
  <2> QED
    BY <1>1, <2>1, <2>2, LowestFreeIs
<1>8. PICK y : y = x
  OBVIOUS
<1>9. PICK b : b = (last.full /\ y = last.size)
  OBVIOUS
<1>10. p = [last EXCEPT !.num = n, !.size = y, !.full = b]
  BY <1>0, <1>7, <1>8, <1>9 DEF Recreated
<1> HIDE DEF p
<1>11. p \in Part
  <2>1. b \in BOOLEAN /\ n \in Nat /\ y \in Nat
    <3>1. b \in BOOLEAN
      BY <1>9, Zenon
    <3>2. y \in Nat
      BY <1>5, <1>8
    <3> QED
      BY <1>1, <3>1, <3>2
  <2> HIDE DEF n
  <2> QED
    BY <1>1, <1>10, <2>1, Zenon DEF Part
<1>12. /\ p.num = n /\ p.start = last.start /\ p.size = y /\ p.label = last.label
       /\ p.fs = last.fs /\ p.data = last.data /\ p.made = last.made
  BY <1>1, <1>10, Zenon DEF Part
<1>13. y = last.size => p = last
  <2>1. y = last.size => b = last.full
    BY <1>1, <1>9, PartFlags, Zenon
  <2> QED
    BY <1>1, <1>2, <1>10, <2>1, Zenon DEF Part
<1>14. End(p) = last.start + y - 1
  BY <1>12 DEF End
<1>15. /\ r \in Seq(Part) /\ Len(r) = n /\ r[n] = p
       /\ \A k \in 1 .. n - 1 : r[k] = table[k]
  BY <1>11, RewriteIs DEF Types
<1>16. InOrder(r) /\ Within(r, known)
  <2>1. p.num = Len(f) + 1 /\ p.size # 0 /\ End(p) <= Usable(known)
    BY <1>1, <1>5, <1>8, <1>12, <1>14
  <2>2. f # <<>> => p.start > End(f[Len(f)])
    BY <1>4, <1>12
  <2> QED
    BY <1>1, <1>3, <1>6, <1>11, <2>1, <2>2, AppendInOrder
<1>17. IF size = 0 THEN End(p) = Usable(known) ELSE p.size = size
  BY <1>5, <1>8, <1>12, <1>14
<1> QED
  BY <1>0, <1>2, <1>11, <1>12, <1>13, <1>15, <1>16, <1>17 DEF p

\* What the program knows when it expands.
ExpandSize == MiBToSectors(CHOOSE s \in expand : TRUE)

LEMMA ExpandKnows ==
  ASSUME InputsTyped, IInv, pc = "expandWrite"
  PROVE  /\ prog = "layout" /\ runs > 0 /\ err = "none" /\ expand # {} /\ dev.loaded /\ known = length
         /\ table = start.table /\ OthersKept /\ LastKept /\ DevTrue
         /\ \A s \in expand : s \in Nat /\ ExpandSize = MiBToSectors(s)
         /\ ExpandSize \in Nat
         /\ dev.parts = <<>> <=> table = <<>>
         /\ table # <<>> => /\ LastKnown.num = table[Len(table)].num
                            /\ LastKnown.start = table[Len(table)].start
                            /\ LastKnown.size = table[Len(table)].size
                            /\ Len(table) \in 1 .. Len(table) /\ Len(table) \in Nat
                            /\ table[Len(table)] \in Part
<1> USE DEF IInv
<1>1. /\ prog = "layout" /\ runs > 0 /\ err = "none" /\ expand # {} /\ dev.loaded /\ known = length
      /\ expand = layout.expand
  BY DEF ProgramInv, DeviceInv, Stage, ToExpand
<1>2. table = start.table /\ OthersKept /\ LastKept /\ DevTrue
  BY <1>1 DEF KeepInv, DeviceInv, ToExpand
<1>3. expand \subseteq Nat /\ \A r, s \in expand : r = s
  BY <1>1 DEF InputsTyped, Types
<1>4. \A s \in expand : s \in Nat /\ ExpandSize = MiBToSectors(s)
  BY <1>3 DEF ExpandSize
<1>5. ExpandSize \in Nat
  BY <1>1, <1>4, MiBIs
<1>6. dev.parts \in Seq(KnownPart) /\ Len(dev.parts) = Len(table)
  BY <1>2 DEF Types, DevTrue
<1>7. dev.parts = <<>> <=> table = <<>>
  BY <1>6, SeqIs DEF Types
<1>8. table # <<>> => /\ Len(table) \in 1 .. Len(table) /\ Len(table) \in Nat
                      /\ table[Len(table)] \in Part
  BY SeqIs DEF Types
<1>9. table # <<>> => /\ LastKnown.num = table[Len(table)].num
                      /\ LastKnown.start = table[Len(table)].start
                      /\ LastKnown.size = table[Len(table)].size
  BY <1>2, <1>6, <1>8 DEF LastKnown, DevTrue
<1> QED
  BY <1>1, <1>2, <1>4, <1>5, <1>7, <1>8, <1>9

\* The next layout, on a disk that is as the last one left it, expands nothing.
LEMMA ExpandRepeats ==
  ASSUME InputsTyped, IInv, pc = "expandWrite", LastFull, LastSized
  PROVE  /\ dev.parts # <<>> /\ ExpandAllowed(ExpandSize) /\ ~hung
         /\ Fits(Front(table), table[Len(table)].start, ExpandSize)
         /\ Recreated(table[Len(table)], ExpandSize) = table[Len(table)]
<1> USE DEF IInv
<1> DEFINE n == Len(table)
           size == ExpandSize
<1>0. PICK last : last = table[n]
  OBVIOUS
<1>1. /\ expand # {} /\ known = length /\ table = start.table /\ DevTrue
      /\ \A s \in expand : s \in Nat /\ size = MiBToSectors(s)
      /\ size \in Nat
      /\ dev.parts = <<>> <=> table = <<>>
      /\ table # <<>> => /\ LastKnown.num = last.num /\ LastKnown.start = last.start
                         /\ LastKnown.size = last.size
                         /\ n \in 1 .. n /\ n \in Nat /\ last \in Part
  BY <1>0, ExpandKnows
<1>2. table # <<>> /\ ~hung /\ dev.parts # <<>>
  BY <1>1 DEF LastFull
<1>13. n \in Nat /\ n >= 1
  BY <1>1, <1>2
<1>3. /\ last.start \in Nat /\ last.size \in Nat /\ last.size # 0 /\ End(last) = last.start + last.size - 1
      /\ End(last) <= Usable(known)
  BY <1>0, <1>1, <1>2, PartFields DEF TableInv, InOrder, Within
<1>4. Usable(known) = length - 1 - GPTBackup /\ Usable(known) \in Int /\ length \in Nat /\ GPTBackup \in Nat
  BY <1>1, UsableIs, PartitionerAssumption DEF Types
<1>5. IF size = 0 THEN End(last) = Usable(known)
      ELSE last.size = size /\ (n = 1 => last.size <= length - (SectorsPerMiB - 1))
  <2>1. PICK s \in expand : TRUE
    BY <1>1
  <2>2. s \in Nat /\ size = MiBToSectors(s) /\ (s = 0 <=> size = 0)
    BY <1>1, <2>1, MiBIs
  <2>3. Sized(last, s)
    BY <1>0, <1>1, <2>1 DEF LastSized
  <2> QED
    BY <1>1, <2>2, <2>3 DEF Sized
<1>7. /\ Len(Front(table)) = n - 1 /\ Front(table) \in Seq(Part)
      /\ \A k \in 1 .. n - 1 : Front(table)[k] = table[k]
  BY <1>2, FrontIs DEF Types
<1>8. Front(table) # <<>> => /\ n - 1 \in 1 .. n - 1 /\ n - 1 \in 1 .. n /\ n # 1
                             /\ Front(table)[Len(Front(table))] = table[n - 1]
  BY <1>7, <1>13, SeqIs
<1>9. n # 1 => /\ End(table[n - 1]) < last.start /\ End(table[n - 1]) \in Int
               /\ n - 1 \in 1 .. n
  <2>1. SUFFICES ASSUME n # 1
                 PROVE  End(table[n - 1]) < last.start /\ End(table[n - 1]) \in Int /\ n - 1 \in 1 .. n
    OBVIOUS
  <2>2. n - 1 \in 1 .. n /\ n - 1 < n
    <3> HIDE DEF n
    <3> QED
      BY <1>13, <2>1
  <2>3. End(table[n - 1]) < last.start
    BY <1>0, <1>1, <1>2, <2>2 DEF TableInv, InOrder
  <2>4. End(table[n - 1]) \in Int
    BY <2>2, SeqIs, PartFields DEF Types
  <2> QED
    BY <2>2, <2>3, <2>4
<1>10. Fits(Front(table), table[n].start, size)
  <2>1. n - 1 < MaxParts
    BY <1>1, <1>2, PartitionerAssumption DEF TableInv
  <2>2. Front(table) # <<>> => last.start > End(Front(table)[Len(Front(table))])
    BY <1>3, <1>8, <1>9
  <2>3. last.start <= Usable(known) /\ (size # 0 => last.start + size - 1 <= Usable(known))
    BY <1>3, <1>4, <1>5
  <2> QED
    BY <1>0, <1>7, <2>1, <2>2, <2>3 DEF Fits
<1>11. Recreated(table[n], size) = table[n]
  <2>1. PICK p : p = Recreated(table[n], size)
    OBVIOUS
  <2>2. /\ p \in Part /\ p.start = last.start
        /\ IF size = 0 THEN End(p) = Usable(known) ELSE p.size = size
        /\ p.size = last.size => p = last
    BY <1>0, <1>1, <1>2, <1>10, <2>1, RecreatedIs
  <2>3. p.size \in Nat /\ End(p) = p.start + p.size - 1
    BY <2>2, PartFields
  <2>4. p.size = last.size
    BY <1>3, <1>4, <1>5, <2>2, <2>3
  <2> QED
    BY <1>0, <2>1, <2>2, <2>4
<1>12. ExpandAllowed(size)
  <2>1. CASE size = 0
    BY <2>1 DEF ExpandAllowed
  <2>2. CASE size # 0
    <3>1. size >= LastKnown.size
      BY <1>1, <1>2, <1>5, <2>2
    <3>2. dev.lastS = length /\ Len(dev.parts) = n
      BY <1>1 DEF DevTrue
    <3>3. n # 1 => End(dev.parts[n - 1]) = End(table[n - 1])
      BY <1>1, <1>9 DEF DevTrue, End
    <3>4. FreeWithoutLast = IF n > 1 THEN length - End(table[n - 1]) ELSE length - (SectorsPerMiB - 1)
      <4> HIDE DEF n
      <4>1. CASE n = 1
        BY <3>2, <4>1 DEF FreeWithoutLast
      <4>2. CASE n # 1
        <5>1. n > 1
          BY <1>13, <4>2
        <5> QED
          BY <3>2, <3>3, <4>2, <5>1 DEF FreeWithoutLast
      <4> QED
        BY <4>1, <4>2
    <3>5. size <= FreeWithoutLast
      <4>1. CASE n = 1
        BY <1>5, <2>2, <3>4, <4>1
      <4>2. CASE n # 1
        <5>1. FreeWithoutLast = length - End(table[n - 1])
          BY <1>13, <3>4, <4>2
        <5>2. /\ length = Usable(known) + 1 + GPTBackup /\ last.size = size
              /\ last.start + last.size - 1 <= Usable(known) /\ End(table[n - 1]) < last.start
          BY <1>3, <1>4, <1>5, <1>9, <2>2, <4>2
        <5>3. /\ Usable(known) \in Int /\ GPTBackup \in Nat /\ End(table[n - 1]) \in Int
              /\ last.start \in Nat /\ last.size \in Nat
          BY <1>3, <1>4, <1>9, <4>2
        <5>4. last.size <= length - End(table[n - 1])
          BY ONLY <5>2, <5>3, SMTT(20)
        <5> QED
          BY <5>1, <5>2, <5>4
      <4> QED
        BY <4>1, <4>2
    <3> QED
      BY <3>1, <3>5 DEF ExpandAllowed
  <2> QED
    BY <2>1, <2>2
<1> QED
  BY <1>2, <1>10, <1>11, <1>12

\* A layout stops on an error before it has made the partition again.
LEMMA ExpandFails ==
  ASSUME InputsTyped, IInv, pc = "expandWrite", pc' = "exited", err' = "expand", next' = next, num' = num,
         table' = table \/ (table # <<>> /\ table' = Front(table)),
         faults' = faults \/ faults' = faults + 1,
         faults' = faults => ~(LastFull /\ LastSized),
         UNCHANGED <<length, known, hung, dev, prog, want, expand, layout, runs, start>>
  PROVE  IInv'
<1> USE DEF IInv
<1> DEFINE n == Len(table)
<1>1. /\ prog = "layout" /\ runs > 0 /\ err = "none" /\ expand # {} /\ dev.loaded /\ known = length
      /\ table = start.table /\ OthersKept /\ LastKept
  BY ExpandKnows
<1>2. n \in Nat /\ (table # <<>> => n > 0)
  BY SeqIs DEF Types
<1>3. table' = table \/ (/\ table' \in Seq(Part) /\ Len(table') = n - 1
                         /\ \A k \in 1 .. n - 1 : table'[k] = table[k])
  BY FrontIs DEF Types
<1>4. table' \in Seq(Part) /\ Len(table') \in Nat /\ Len(table') <= n
  BY <1>2, <1>3 DEF Types
<1>5. Types'
  BY <1>4 DEF Types
<1>6. TableInv'
  <2>1. CASE table' = table
    BY <2>1 DEF TableInv
  <2>2. CASE table # <<>> /\ table' = Front(table)
    <3>1. InOrder(table') /\ Within(table', known)
      BY <2>2, FrontInOrder DEF Types, TableInv
    <3> QED
      BY <1>2, <1>4, <3>1, PartitionerAssumption DEF TableInv
  <2> QED
    BY <2>1, <2>2
<1>7. ProgramInv' /\ DeviceInv' /\ NewInv'
  BY <1>1 DEF Types, ProgramInv, DeviceInv, NewInv, Stage, ToExpand, Expanded, ToAdd, Adding
<1>8. OthersKept'
  <2>1. \A k \in 1 .. n : k < n => k <= Len(table') /\ table'[k] = table[k]
    BY <1>2, <1>3
  <2> QED
    BY <1>1, <2>1 DEF OthersKept
<1>9. LastKept'
  <2>1. Len(table') = n => table' = table
    BY <1>2, <1>3
  <2>2. n <= Len(table') => table' = table
    BY <1>2, <1>4, <2>1
  <2> QED
    BY <1>1, <2>2 DEF LastKept, Kept
<1>10. KeepInv'
  BY <1>8, <1>9 DEF KeepInv, ToExpand, Expanded, Adding
<1>11. LayoutInv'
  BY DEF LayoutInv, Settled, ToAdd, Adding, Expanded
<1>12. StableInv'
  <2>1. SUFFICES ASSUME start.again, faults' = start.faults, want = <<>> \/ expand = {}
                 PROVE  FALSE
    BY DEF StableInv
  <2>2. faults = start.faults /\ faults' = faults
    BY <2>1 DEF ProgramInv, Types
  <2>3. LastFull /\ LastSized
    BY <1>1, <2>1, <2>2 DEF StableInv
  <2> QED
    BY <2>2, <2>3
<1>13. InstallInv'
  BY <1>1 DEF InstallInv
<1> QED
  BY <1>5, <1>6, <1>7, <1>10, <1>11, <1>12, <1>13

\* The partition is there again.
LEMMA ExpandSucceeds ==
  ASSUME InputsTyped, IInv, pc = "expandWrite", dev.parts # <<>>, ExpandAllowed(ExpandSize), ~hung,
         Fits(Front(table), table[Len(table)].start, ExpandSize),
         table' = Append(Front(table), Recreated(table[Len(table)], ExpandSize)),
         num' = LastKnown.num, pc' = "expandReload", err' = err, next' = next, faults' = faults,
         UNCHANGED <<length, known, hung, dev, prog, want, expand, layout, runs, start>>
  PROVE  IInv'
<1> USE DEF IInv
<1> DEFINE n == Len(table)
           size == ExpandSize
<1>0. PICK last : last = table[n]
  OBVIOUS
<1>1. /\ prog = "layout" /\ runs > 0 /\ err = "none" /\ expand # {} /\ dev.loaded /\ known = length
      /\ table = start.table /\ OthersKept /\ LastKept /\ DevTrue
      /\ \A s \in expand : s \in Nat /\ size = MiBToSectors(s)
      /\ size \in Nat /\ table # <<>>
      /\ LastKnown.num = last.num /\ LastKnown.start = last.start /\ LastKnown.size = last.size
      /\ n \in 1 .. n /\ n \in Nat /\ last \in Part
  BY <1>0, ExpandKnows
<1>2. PICK p : p = Recreated(last, size)
  OBVIOUS
<1>3. /\ p \in Part /\ p.num = last.num /\ p.start = last.start /\ p.label = last.label
      /\ p.fs = last.fs /\ p.data = last.data /\ p.made = last.made
      /\ IF size = 0 THEN End(p) = Usable(known) ELSE p.size = size
      /\ p.size = last.size => p = last
      /\ table' \in Seq(Part) /\ InOrder(table') /\ Within(table', known)
      /\ Len(table') = n /\ table'[n] = p
      /\ \A k \in 1 .. n - 1 : table'[k] = table[k]
  BY <1>0, <1>1, <1>2, RecreatedIs
<1>4. /\ last.num = n /\ last.size \in Nat /\ last.start \in Nat /\ End(last) = last.start + last.size - 1
      /\ End(last) <= Usable(known) /\ p.size \in Nat /\ End(p) = p.start + p.size - 1
  BY <1>0, <1>1, <1>3, PartFields DEF TableInv, InOrder, Within
<1>5. Usable(known) \in Int /\ length \in Nat
  BY UsableIs DEF Types
<1>6. p.size >= last.size
  <2>1. CASE size = 0
    BY <1>3, <1>4, <1>5, <2>1
  <2>2. CASE size # 0
    BY <1>1, <1>3, <2>2 DEF ExpandAllowed
  <2> QED
    BY <2>1, <2>2
<1>7. n = 1 /\ size # 0 => p.size <= length - (SectorsPerMiB - 1)
  <2>1. SUFFICES ASSUME n = 1, size # 0
                 PROVE  p.size <= length - (SectorsPerMiB - 1)
    OBVIOUS
  <2>2. Len(dev.parts) = 1 /\ dev.lastS = length
    BY <1>1, <2>1 DEF DevTrue
  <2>3. FreeWithoutLast = length - (SectorsPerMiB - 1)
    BY <2>2 DEF FreeWithoutLast
  <2>4. size <= FreeWithoutLast
    BY <2>1 DEF ExpandAllowed
  <2> QED
    BY <1>3, <2>1, <2>3, <2>4
<1>8. Types'
  BY <1>1, <1>3, <1>4 DEF Types, Stage
<1>9. TableInv'
  BY <1>3 DEF TableInv
<1>10. ProgramInv' /\ DeviceInv' /\ NewInv'
  BY <1>1 DEF Types, ProgramInv, DeviceInv, NewInv, Stage, ToExpand, Expanded, ToAdd, Adding
<1>11. OthersKept'
  <2>1. \A k \in 1 .. n : k < n => k <= Len(table') /\ table'[k] = table[k]
    BY <1>1, <1>3
  <2> QED
    BY <1>1, <2>1 DEF OthersKept
<1>12. LastKept'
  BY <1>0, <1>1, <1>3, <1>6 DEF LastKept, Kept
<1>13. table' # <<>>
  BY <1>1, <1>3, SeqIs
<1>14. KeepInv'
  BY <1>1, <1>3, <1>4, <1>11, <1>12, <1>13 DEF KeepInv, ToExpand, Expanded, Adding
<1>15. LastSized'
  <2>1. SUFFICES ASSUME NEW s \in expand
                 PROVE  IF s = 0 THEN End(p) = Usable(length)
                        ELSE p.size = MiBToSectors(s) /\ (n = 1 => p.size <= length - (SectorsPerMiB - 1))
    BY <1>1, <1>3 DEF LastSized, Sized
  <2>2. size = MiBToSectors(s) /\ (s = 0 <=> size = 0)
    BY <1>1, <2>1, MiBIs
  <2> QED
    BY <1>1, <1>3, <1>7, <2>2
<1>16. LayoutInv'
  BY <1>15 DEF LayoutInv, Settled, ToAdd, Adding, Expanded
<1>17. StableInv'
  <2>1. SUFFICES ASSUME start.again, faults = start.faults, want = <<>> \/ expand = {}
                 PROVE  /\ table' = table /\ Found(Len(want), Len(table))' /\ LastFull'
    BY <1>1, <1>15 DEF StableInv, Adding
  <2>2. LastFull /\ LastSized /\ Found(Len(want), Len(table))
    BY <1>1, <2>1 DEF StableInv
  <2>3. p = last
    BY <1>0, <1>2, <2>2, ExpandRepeats
  <2>4. \A k \in 1 .. n : table'[k] = table[k]
    BY <1>0, <1>1, <1>3, <2>3
  <2>5. table' = table
    BY <1>3, <2>4, SameTable DEF Types
  <2> QED
    BY <2>2, <2>5 DEF Found, LastFull
<1>18. InstallInv'
  BY <1>1 DEF InstallInv
<1> QED
  BY <1>8, <1>9, <1>10, <1>14, <1>16, <1>17, <1>18

LEMMA ExpandWriteKeeps ==
  ASSUME InputsTyped, IInv, ExpandWrite
  PROVE  IInv'
<1>1. pc = "expandWrite" /\ UNCHANGED <<length, known, hung, dev, prog, want, expand, next, layout, runs, start>>
  BY DEF ExpandWrite
<1> DEFINE last == table[Len(table)]
           fits == Fits(Front(table), last.start, ExpandSize)
           refused == dev.parts = <<>> \/ ~ExpandAllowed(ExpandSize) \/ hung
<1>2. \/ /\ refused /\ faults' = faults /\ pc' = "exited" /\ err' = "expand" /\ table' = table /\ num' = num
      \/ /\ ~refused /\ fits /\ faults' = faults /\ pc' = "expandReload" /\ err' = err
         /\ table' = Append(Front(table), Recreated(last, ExpandSize)) /\ num' = LastKnown.num
      \/ /\ ~refused /\ ~fits /\ faults' = faults /\ pc' = "exited" /\ err' = "expand"
         /\ table' = Front(table) /\ num' = num
      \/ /\ ~refused /\ faults' = faults + 1 /\ pc' = "exited" /\ err' = "expand"
         /\ table' \in {table, Front(table)} /\ num' = num
  <2> HIDE DEF last, fits
  <2> QED
    BY DEF ExpandWrite, ExpandSize, Succeeds, Fails, Goto, Abort, last, fits
<1>3. ~refused => table # <<>>
  BY <1>1, ExpandKnows
<1>4. refused \/ ~fits => ~(LastFull /\ LastSized)
  BY <1>1, ExpandRepeats
<1>5. CASE /\ ~refused /\ fits /\ faults' = faults /\ pc' = "expandReload" /\ err' = err
           /\ table' = Append(Front(table), Recreated(last, ExpandSize)) /\ num' = LastKnown.num
  BY <1>1, <1>5, ExpandSucceeds
<1>6. CASE /\ pc' = "exited" /\ err' = "expand" /\ num' = num
           /\ table' = table \/ (table # <<>> /\ table' = Front(table))
           /\ faults' = faults \/ faults' = faults + 1
           /\ faults' = faults => ~(LastFull /\ LastSized)
  BY <1>1, <1>6, ExpandFails
<1>7. faults' = faults + 1 => faults' # faults
  BY DEF IInv, Types
<1> HIDE DEF fits, refused, last
<1> QED
  BY <1>2, <1>3, <1>4, <1>5, <1>6, <1>7
-----------------------------------------------------------------------------
(* The room that an installation needs.                                    *)

LEMMA NatMin ==
  ASSUME NEW T \in SUBSET Nat, T # {}
  PROVE  \E n \in T : \A m \in T : n <= m
<1>1. PICK n \in T : \A m \in T : ~(<<m, n>> \in OpToRel(<, Nat))
  BY NatLessThanWellFounded, WFMin, Zenon
<1>2. \A m \in T : ~(m < n)
  BY <1>1, Zenon DEF OpToRel
<1> QED
  BY <1>2

\* A set that holds 0 and every successor holds all numbers.
LEMMA NatSetInduction ==
  ASSUME NEW S, 0 \in S, \A n \in Nat : n \in S => n + 1 \in S
  PROVE  Nat \subseteq S
<1> DEFINE T == Nat \ S
<1> SUFFICES ASSUME T # {} PROVE FALSE
  OBVIOUS
<1>1. PICK n \in T : \A m \in T : n <= m
  BY NatMin
<1>2. n # 0 /\ n - 1 \in Nat /\ ~(n <= n - 1)
  BY <1>1
<1>3. n - 1 \in S
  BY <1>1, <1>2
<1> QED
  BY <1>1, <1>2, <1>3

\* f is the function that Behind defines, up to n.
Sums(f, n) ==
  f = [i \in 0 .. n |-> IF i = 0 THEN SectorsPerMiB ELSE f[i - 1] + MiBToSectors(want[i].size)]

LEMMA SumsExist == \A n \in Nat : \E f : Sums(f, n)
<1> DEFINE Has == {n \in Nat : \E f : Sums(f, n)}
<1>1. 0 \in Has
  <2> DEFINE f == [i \in 0 .. 0 |-> SectorsPerMiB]
  <2>1. Sums(f, 0)
    BY DEF Sums
  <2> QED
    BY <2>1
<1>2. ASSUME NEW n \in Nat, n \in Has PROVE n + 1 \in Has
  <2>1. PICK f : Sums(f, n)
    BY <1>2
  <2> DEFINE top == f[n] + MiBToSectors(want[n + 1].size)
             g == [i \in 0 .. n + 1 |-> IF i <= n THEN f[i] ELSE top]
             h == [i \in 0 .. n + 1 |->
                     IF i = 0 THEN SectorsPerMiB ELSE g[i - 1] + MiBToSectors(want[i].size)]
  <2>2. f[0] = SectorsPerMiB /\ \A i \in 1 .. n : f[i] = f[i - 1] + MiBToSectors(want[i].size)
    BY <2>1 DEF Sums
  <2>3. ASSUME NEW i \in 0 .. n + 1 PROVE g[i] = h[i]
    <3>1. CASE i = 0
      BY <2>2, <3>1
    <3>2. CASE i \in 1 .. n
      BY <2>2, <3>2
    <3>3. CASE i = n + 1
      BY <3>3
    <3> QED
      BY <3>1, <3>2, <3>3
  <2>4. g = h
    BY <2>3
  <2>5. Sums(g, n + 1)
    BY <2>4 DEF Sums
  <2> QED
    BY <2>5
<1> HIDE DEF Has
<1>3. Nat \subseteq Has
  BY <1>1, <1>2, NatSetInduction
<1> QED
  BY <1>3 DEF Has

LEMMA BehindIs ==
  ASSUME Types
  PROVE  /\ Behind[0] = SectorsPerMiB
         /\ \A n \in 1 .. Len(want) : Behind[n] = Behind[n - 1] + MiBToSectors(want[n].size)
<1>1. Len(want) \in Nat
  BY SeqIs DEF Types
<1>2. Sums(Behind, Len(want))
  <2> DEFINE f == CHOOSE f : Sums(f, Len(want))
  <2>1. Sums(f, Len(want))
    BY <1>1, SumsExist, Zenon
  <2>2. Behind = f
    BY DEF Behind, Sums
  <2> QED
    BY <2>1, <2>2
<1> QED
  BY <1>1, <1>2 DEF Sums

\* It grows with what is wanted.
LEMMA BehindGrows ==
  ASSUME Types
  PROVE  /\ \A n \in 0 .. Len(want) : Behind[n] \in Nat
         /\ \A n \in 0 .. Len(want) : Behind[n] <= Behind[Len(want)]
<1> DEFINE top == Len(want)
<1>1. top \in Nat /\ SectorsPerMiB \in Nat
  BY PartitionerAssumption, SeqIs DEF Types
<1>2. \A n \in 1 .. top : MiBToSectors(want[n].size) \in Nat
  BY MiBIs, WantedFields, SeqIs DEF Types
<1>3. Behind[0] = SectorsPerMiB /\ \A n \in 1 .. top : Behind[n] = Behind[n - 1] + MiBToSectors(want[n].size)
  BY BehindIs
<1> HIDE DEF top
<1> DEFINE S == {n \in Nat : n <= top => Behind[n] \in Nat}
           T == {d \in Nat : d <= top => Behind[top - d] <= Behind[top]}
<1>4. 0 \in S
  BY <1>1, <1>3
<1>5. ASSUME NEW n \in Nat, n \in S PROVE n + 1 \in S
  <2>1. CASE n + 1 <= top
    <3>1. n + 1 \in 1 .. top /\ (n + 1) - 1 = n
      BY <1>1, <2>1
    <3>2. Behind[n + 1] = Behind[n] + MiBToSectors(want[n + 1].size)
      BY <1>3, <3>1
    <3> QED
      BY <1>1, <1>2, <1>5, <3>1, <3>2
  <2> QED
    BY <2>1
<1>6. \A n \in 0 .. top : Behind[n] \in Nat
  <2> HIDE DEF S
  <2>1. Nat \subseteq S
    BY <1>4, <1>5, NatSetInduction
  <2> QED
    BY <1>1, <2>1 DEF S
<1>7. 0 \in T
  BY <1>1, <1>6
<1>8. ASSUME NEW d \in Nat, d \in T PROVE d + 1 \in T
  <2>1. CASE d + 1 <= top
    <3>1. PICK n \in 1 .. top : n = top - d /\ n - 1 = top - (d + 1) /\ n - 1 \in 0 .. top
      BY <1>1, <2>1
    <3>2. Behind[n] = Behind[n - 1] + MiBToSectors(want[n].size) /\ Behind[n] <= Behind[top]
      BY <1>1, <1>3, <1>8, <2>1, <3>1
    <3>3. Behind[n - 1] <= Behind[n]
      BY <1>2, <1>6, <3>1, <3>2
    <3>4. Behind[n - 1] <= Behind[top]
      <4>1. Behind[n - 1] \in Nat /\ Behind[n] \in Nat /\ Behind[top] \in Nat
        BY <1>1, <1>6, <3>1
      <4> QED
        BY <3>2, <3>3, <4>1
    <3> QED
      BY <3>1, <3>4
  <2> QED
    BY <2>1
<1>9. \A n \in 0 .. top : Behind[n] <= Behind[top]
  <2> HIDE DEF T
  <2>1. Nat \subseteq T
    BY <1>7, <1>8, NatSetInduction
  <2> SUFFICES ASSUME NEW n \in 0 .. top PROVE Behind[n] <= Behind[top]
    OBVIOUS
  <2>2. PICK d \in Nat : d = top - n /\ d <= top /\ top - d = n
    BY <1>1
  <2>3. d <= top => Behind[top - d] <= Behind[top]
    BY <2>1 DEF T
  <2> QED
    BY <2>2, <2>3
<1> QED
  BY <1>6, <1>9 DEF top

\* No partition but the last takes all that is left.
Bounded == \A k \in 1 .. Len(want) - 1 : want[k].size # 0
Fitting == Len(want) <= MaxParts /\ Behind[Len(want)] <= Usable(length) /\ Bounded

\* What was made ends where what is made next begins.
LEMMA MadeEnds ==
  ASSUME IInv, prog = "install", pc = "addWrite", Bounded
  PROVE  IF Len(table) = 0 THEN Behind[next - 1] = SectorsPerMiB
         ELSE End(table[Len(table)]) + 1 = Behind[next - 1]
<1>1. /\ Types /\ Laid /\ Len(table) = next - 1 /\ next \in 1 .. Len(want) /\ Len(want) \in Nat
      /\ Len(table) \in Nat
  BY SeqIs DEF IInv, Types, InstallInv, ProgramInv, ToAdd, Adding
<1>2. \A k \in 1 .. Len(table) : table[k] \in Part /\ want[k] \in WantedPart
  BY <1>1, SeqIs DEF Types
<1> DEFINE n == Len(table)
           Place(k) == End(table[k]) + 1 = Behind[k]
           S == {k \in Nat : k + 1 <= n => Place(k + 1)}
<1>3. ASSUME NEW k \in 1 .. n
      PROVE  /\ table[k].start = IF k = 1 THEN SectorsPerMiB ELSE End(table[k - 1]) + 1
             /\ table[k].size = MiBToSectors(want[k].size)
             /\ table[k].start \in Nat /\ table[k].size \in Nat
             /\ Behind[k] = Behind[k - 1] + table[k].size
             /\ Behind[k] \in Nat /\ Behind[k - 1] \in Nat
             /\ End(table[k]) + 1 = table[k].start + table[k].size
  <2>1. k \in 1 .. Len(want) - 1 /\ k \in 1 .. Len(want) /\ k - 1 \in 0 .. Len(want) /\ k \in 0 .. Len(want)
    BY <1>1
  <2>2. want[k].size # 0
    BY <2>1 DEF Bounded
  <2>3. /\ table[k].start = IF k = 1 THEN SectorsPerMiB ELSE End(table[k - 1]) + 1
        /\ table[k].size = MiBToSectors(want[k].size)
    BY <1>1, <2>2 DEF Laid
  <2>4. table[k].start \in Nat /\ table[k].size \in Nat /\ End(table[k]) = table[k].start + table[k].size - 1
    BY <1>2, PartFields
  <2>5. Behind[k] = Behind[k - 1] + MiBToSectors(want[k].size) /\ Behind[k] \in Nat /\ Behind[k - 1] \in Nat
    BY <1>1, <2>1, BehindIs, BehindGrows
  <2> QED
    BY <2>3, <2>4, <2>5
<1>4. Behind[0] = SectorsPerMiB
  BY <1>1, BehindIs
<1> HIDE DEF n
<1>5. 0 \in S
  <2>1. CASE 1 <= n
    BY <1>1, <1>3, <1>4, <2>1
  <2> QED
    BY <2>1
<1>6. ASSUME NEW k \in Nat, k \in S PROVE k + 1 \in S
  <2>1. CASE (k + 1) + 1 <= n
    <3>1. PICK m \in 1 .. n : m = (k + 1) + 1 /\ m - 1 = k + 1 /\ m # 1
      BY <1>1, <2>1 DEF n
    <3>2. End(table[m - 1]) + 1 = Behind[m - 1]
      BY <1>1, <1>6, <2>1, <3>1 DEF n
    <3>3. Place(m)
      BY <1>3, <3>1, <3>2
    <3> QED
      BY <3>1, <3>3
  <2> QED
    BY <2>1
<1>7. n # 0 => Place(n)
  <2> HIDE DEF S, Place
  <2>1. Nat \subseteq S
    BY <1>5, <1>6, NatSetInduction
  <2>2. n # 0 => n - 1 \in Nat /\ (n - 1) + 1 = n
    BY <1>1 DEF n
  <2>3. n # 0 => n - 1 \in S
    BY <2>1, <2>2
  <2> QED
    BY <1>1, <2>2, <2>3 DEF S, n
<1> QED
  BY <1>1, <1>4, <1>7 DEF n

\* So there is room for the next one.
LEMMA NextFits ==
  ASSUME IInv, prog = "install", pc = "addWrite", Fitting
  PROVE  /\ ~(MiBToSectors(want[next].size) > FreeSpace)
         /\ Fits(table, NextStart, MiBToSectors(want[next].size))
<1> DEFINE size == MiBToSectors(want[next].size)
           a == Behind[next - 1]
           b == Behind[Len(want)]
<1>1. /\ Types /\ TableInv /\ DeviceInv /\ next \in 1 .. Len(want) /\ Len(want) \in Nat
      /\ Len(table) \in Nat /\ Len(table) = next - 1 /\ DevTrue /\ length \in Nat
      /\ (table = <<>> <=> Len(table) = 0)
  BY SeqIs DEF IInv, Types, InstallInv, ProgramInv, DeviceInv, ToAdd, Adding
<1>2. /\ NextStart = IF Len(table) = 0 THEN SectorsPerMiB ELSE End(table[Len(table)]) + 1
      /\ NextStart \in Nat /\ known = length
  BY <1>1, NextIs
<1>3. NextStart = a
  BY <1>2, MadeEnds DEF Fitting
<1>4. size \in Nat
  BY <1>1, MiBIs, WantedFields, SeqIs DEF Types
<1>5. a \in Nat /\ b \in Nat /\ Behind[next] \in Nat /\ a + size <= b
  <2>1. next - 1 \in 0 .. Len(want) /\ next \in 0 .. Len(want) /\ Len(want) \in 0 .. Len(want)
    BY <1>1
  <2>2. a \in Nat /\ b \in Nat /\ Behind[next] \in Nat /\ Behind[next] <= b
    BY <1>1, <2>1, BehindGrows
  <2>3. Behind[next] = a + size
    BY <1>1, BehindIs
  <2> QED
    BY <2>2, <2>3
<1>6. b <= Usable(length) /\ Usable(length) = length - 1 - GPTBackup /\ GPTBackup \in Nat
  BY <1>1, UsableIs, PartitionerAssumption DEF Fitting
<1>7. Len(table) < MaxParts
  BY <1>1, PartitionerAssumption DEF Fitting
<1>8. table # <<>> => NextStart > End(table[Len(table)])
  <2>1. Len(table) # 0 => End(table[Len(table)]) \in Int
    <3>1. Len(table) # 0 => table[Len(table)] \in Part
      BY <1>1, SeqIs DEF Types
    <3> QED
      BY <3>1, PartFields
  <2> QED
    BY <1>1, <1>2, <2>1
<1>9. FreeSpace = (length - NextStart) + 1
  <2>1. dev.parts \in Seq(KnownPart) /\ Len(dev.parts) = Len(table) /\ dev.lastS = length
    BY <1>1 DEF Types, DevTrue
  <2>2. dev.parts = <<>> <=> Len(table) = 0
    BY <2>1
  <2>3. NextStart = IF dev.parts = <<>> THEN SectorsPerMiB ELSE End(LastKnown) + 1
    BY DEF NextStart
  <2>4. CASE dev.parts = <<>>
    BY <1>1, <2>1, <2>3, <2>4, PartitionerAssumption DEF FreeSpace
  <2>5. CASE dev.parts # <<>>
    <3>1. FreeSpace = length - End(LastKnown) /\ NextStart = End(LastKnown) + 1
      BY <2>1, <2>3, <2>5 DEF FreeSpace
    <3>2. End(LastKnown) \in Int
      <4>1. Len(dev.parts) \in 1 .. Len(dev.parts) /\ LastKnown \in KnownPart
        BY <2>1, <2>5 DEF LastKnown
      <4> QED
        BY <4>1 DEF KnownPart, End
    <3> QED
      BY <1>1, <3>1, <3>2
  <2> QED
    BY <2>4, <2>5
<1> HIDE DEF size, a, b
<1>10. ~(size > FreeSpace)
  BY <1>1, <1>3, <1>4, <1>5, <1>6, <1>9
<1>11. Fits(table, NextStart, size)
  <2>1. NextStart <= Usable(known) /\ NextStart + size - 1 <= Usable(known)
    BY <1>1, <1>2, <1>3, <1>4, <1>5, <1>6
  <2> QED
    BY <1>7, <1>8, <2>1 DEF Fits
<1> QED
  BY <1>10, <1>11 DEF size

LEMMA FittingSame ==
  ASSUME UNCHANGED <<want, length>>
  PROVE  Fitting' <=> Fitting
<1>1. Behind' = Behind
  BY DEF Behind
<1> QED
  BY <1>1 DEF Fitting, Bounded

LEMMA InstallEnds ==
  ASSUME IInv, [Next]_vars, FittingInstallSucceeds
  PROVE  FittingInstallSucceeds'
<1> SUFFICES ASSUME pc' = "exited", prog' = "install", faults' = start'.faults, Fitting', err' # "none"
             PROVE  FALSE
  BY DEF FittingInstallSucceeds, Fitting, Bounded
<1>1. CASE UNCHANGED vars
  <2>1. Fitting /\ UNCHANGED <<pc, prog, faults, start, err>>
    BY <1>1, FittingSame
  <2> QED
    BY <2>1 DEF FittingInstallSucceeds, Fitting, Bounded
<1>2. pc \in Stage => err = "none" /\ start.faults <= faults
  BY DEF IInv, ProgramInv, Stage
<1>3. faults \in Nat /\ start.faults \in Nat
  BY DEF IInv, Types
<1>4. CASE LookAround
  <2>1. prog = "install" /\ start' = start /\ table' = table /\ pc \in Stage /\ faults' \in {faults, faults + 1}
    BY <1>4, LookAroundIs DEF IInv, Looks
  <2>2. pc \in {"find", "expandFind"} /\ ~Exists(num)
    BY <1>2, <1>3, <1>4, <2>1, LookAroundIs DEF IInv
  <2>3. pc = "find" /\ num = Len(table) /\ Len(table) \in 1 .. Len(table) /\ table[Len(table)].num = num
    BY <2>1, <2>2, SeqIs DEF IInv, ProgramInv, NewInv, Adding, Expanded, TableInv, InOrder, Types
  <2> QED
    BY <2>2, <2>3, SeqIs DEF Exists, IInv, Types
<1>5. CASE Wipe \/ Format
  <2>1. pc \in Stage /\ start' = start
    BY <1>5 DEF Wipe, Format, Stage
  <2>2. err' = err \/ faults' = faults + 1
    BY <1>5 DEF Wipe, Format, Continue, Succeeds, Fails, Goto, Abort
  <2> QED
    BY <1>2, <1>3, <2>1, <2>2
<1>6. CASE AddWrite
  <2>1. /\ pc = "addWrite" /\ prog = "install" /\ start' = start /\ Fitting
        /\ err = "none" /\ start.faults <= faults
    <3>1. pc = "addWrite" /\ UNCHANGED <<prog, start, want, length>>
      BY <1>6 DEF AddWrite
    <3> QED
      BY <1>2, <3>1, FittingSame DEF Stage
  <2>2. /\ ~(MiBToSectors(want[next].size) > FreeSpace)
        /\ Fits(table, NextStart, MiBToSectors(want[next].size))
    BY <2>1, NextFits
  <2>3. ~(MiBToSectors(want[next].size) > FreeSpace \/ ~Fits(table, NextStart, MiBToSectors(want[next].size)))
    BY <2>2
  <2>4. pc' = "addReload" \/ faults' = faults + 1
    BY <1>6, <2>3, Zenon DEF AddWrite, Succeeds, Fails, Goto, Abort
  <2> QED
    BY <1>3, <2>1, <2>4
<1>7. CASE ExpandWrite \/ Resize \/ GrowXfs
  <2>1. pc \in ToExpand \cup Expanded /\ prog' = prog
    BY <1>7 DEF ExpandWrite, Resize, GrowXfs, ToExpand, Expanded
  <2> QED
    BY <2>1 DEF IInv, ProgramInv
<1>8. CASE (\E i \in Installs : CallInstall(i)) \/ CallLayout \/ Restart \/ Grow
  BY <1>8 DEF CallInstall, CallLayout, Restart, Grow
<1> QED
  BY <1>1, <1>4, <1>5, <1>6, <1>7, <1>8 DEF Next, Step, LookAround
-----------------------------------------------------------------------------
(* The theorems.                                                           *)

LEMMA NextKeeps ==
  ASSUME InputsTyped, IInv, [Next]_vars
  PROVE  IInv'
<1>1. CASE UNCHANGED vars
  <2>1. Types' /\ TableInv' /\ ProgramInv' /\ DeviceInv' /\ NewInv'
    <3>1. Types'
      BY <1>1 DEF IInv, Types
    <3>2. TableInv'
      BY <1>1 DEF IInv, TableInv, InOrder, Within, End, Usable
    <3>3. ProgramInv'
      BY <1>1 DEF IInv, ProgramInv
    <3>4. DeviceInv'
      BY <1>1 DEF IInv, DeviceInv, DevTrue
    <3>5. NewInv'
      BY <1>1 DEF IInv, NewInv
    <3> QED
      BY <3>1, <3>2, <3>3, <3>4, <3>5
  <2>2. KeepInv'
    BY <1>1 DEF IInv, KeepInv, OthersKept, LastKept, Kept
  <2>3. LastFull' <=> LastFull
    BY <1>1 DEF LastFull
  <2>4. LastSized' <=> LastSized
    BY <1>1 DEF LastSized, Sized
  <2>5. /\ Found(next - 1, Len(table))' <=> Found(next - 1, Len(table))
        /\ Found(next - 1, Len(table) - 1)' <=> Found(next - 1, Len(table) - 1)
        /\ Found(Len(want), Len(table))' <=> Found(Len(want), Len(table))
    BY <1>1 DEF Found
  <2>6. LayoutInv'
    BY <1>1, <2>3, <2>4, <2>5 DEF IInv, LayoutInv, Settled
  <2>7. StableInv'
    BY <1>1, <2>3, <2>4, <2>5 DEF IInv, StableInv
  <2>8. Laid' <=> Laid
    BY <1>1 DEF Laid
  <2>9. InstallInv'
    BY <1>1, <2>8 DEF IInv, InstallInv
  <2> QED
    BY <2>1, <2>2, <2>6, <2>7, <2>9 DEF IInv
<1>2. CASE LookAround
  BY <1>2, LookAroundKeeps
<1>3. CASE ExpandWrite
  BY <1>3, ExpandWriteKeeps
<1>4. CASE Resize
  BY <1>4, ResizeKeeps
<1>5. CASE GrowXfs
  BY <1>5, GrowXfsKeeps
<1>6. CASE Wipe
  BY <1>6, WipeKeeps
<1>7. CASE AddWrite
  BY <1>7, AddWriteKeeps
<1>8. CASE Format
  BY <1>8, FormatKeeps
<1>9. CASE \E i \in Installs : CallInstall(i)
  BY <1>9, CallInstallKeeps
<1>10. CASE CallLayout
  BY <1>10, CallLayoutKeeps
<1>11. CASE Restart
  BY <1>11, RestartKeeps
<1>12. CASE Grow
  BY <1>12, GrowKeeps
<1> HIDE DEF vars
<1>13. Step => \/ LookAround \/ ExpandWrite \/ Resize \/ GrowXfs \/ Wipe \/ AddWrite \/ Format
  BY DEF Step, LookAround
<1> QED
  BY <1>1, <1>2, <1>3, <1>4, <1>5, <1>6, <1>7, <1>8, <1>9, <1>10, <1>11, <1>12, <1>13 DEF Next

LEMMA Inductive == Spec => []IInv
<1>1. Init => IInv
  BY InputsAssumption, InitHolds
<1>2. IInv /\ [Next]_vars => IInv'
  BY InputsAssumption, NextKeeps
<1> QED
  BY <1>1, <1>2, PTL DEF Spec

\* FormatsItsOwn: mkfs runs on the partition that AddPartition has just made, for
\* every table that is numbered in the order of the disk.
THEOREM FormatsOnlyItsOwn == Spec => []FormatsItsOwn
<1>1. ASSUME IInv PROVE FormatsItsOwn
  <2> SUFFICES ASSUME pc \in {"find", "format"}
               PROVE  /\ table # <<>> /\ num = table[Len(table)].num /\ table[Len(table)].made = runs
                      /\ \A k \in 1 .. Len(table) - 1 : table[k].num # num
    BY DEF FormatsItsOwn
  <2>1. table # <<>> /\ num = Len(table) /\ table[Len(table)].made = runs
    BY <1>1 DEF IInv, NewInv, Adding
  <2>2. Len(table) \in Nat /\ Len(table) \in 1 .. Len(table)
    BY <1>1, <2>1, SeqIs DEF IInv, Types
  <2>3. \A k \in 1 .. Len(table) : table[k].num = k
    BY <1>1 DEF IInv, TableInv, InOrder
  <2> QED
    BY <2>1, <2>2, <2>3
<1> QED
  BY <1>1, Inductive, PTL

\* LayoutKeeps: a layout leaves the partitions it found as they are, and makes only
\* the last of them larger, whatever call fails.
THEOREM LayoutsKeep == Spec => []LayoutKeeps
<1>1. ASSUME IInv PROVE LayoutKeeps
  <2> SUFFICES ASSUME Active, prog = "layout", NEW k \in DOMAIN start.table
               PROVE  LET old == start.table[k]
                      IN  /\ k < Len(start.table) \/ expand = {} => k \in DOMAIN table /\ table[k] = old
                          /\ k \notin DOMAIN table => err = "expand"
                          /\ k \in DOMAIN table =>
                               /\ table[k].size >= old.size /\ (table[k].data = old.data \/ hung)
                               /\ [table[k] EXCEPT !.size = old.size, !.full = old.full,
                                                   !.data = old.data] = old
    BY Zenon DEF LayoutKeeps
  <2> DEFINE m == Len(start.table)
             n == Len(table)
  <2>1. pc # "ready" /\ runs > 0
    BY DEF Active, Stage
  <2>2. OthersKept /\ LastKept /\ (m <= n \/ err = "expand")
    BY <1>1, <2>1 DEF IInv, KeepInv
  <2>3. /\ DOMAIN table = 1 .. n /\ DOMAIN start.table = 1 .. m /\ n \in Nat /\ m \in Nat
        /\ start.table # <<>> /\ k \in 1 .. m
    BY <1>1, SeqIs DEF IInv, Types
  <2>4. PICK old : old = start.table[k]
    OBVIOUS
  <2>5. PICK part : part = table[k]
    OBVIOUS
  <2>6. old \in Part /\ (k \in 1 .. n => part \in Part)
    BY <1>1, <2>3, <2>4, <2>5, SeqIs DEF IInv, Types
  <2>7. k < m \/ expand = {} => k \in 1 .. n /\ part = old
    BY <2>2, <2>3, <2>4, <2>5 DEF OthersKept
  <2>8. k \notin 1 .. n => err = "expand"
    BY <2>2, <2>3, <2>7
  <2>9. k \in 1 .. n => Kept(old, part)
    <3>1. CASE k < m
      BY <2>6, <2>7, <3>1, KeptAsIs
    <3>2. CASE k = m
      BY <2>2, <2>3, <2>4, <2>5, <3>2 DEF LastKept
    <3> QED
      BY <2>3, <3>1, <3>2
  <2>10. ASSUME part \in Part, Kept(old, part)
         PROVE  [part EXCEPT !.size = old.size, !.full = old.full, !.data = old.data] = old
    BY <2>6, <2>10, Zenon DEF Kept, Part
  <2> QED
    BY <2>3, <2>4, <2>5, <2>6, <2>7, <2>8, <2>9, <2>10 DEF Kept
<1> QED
  BY <1>1, Inductive, PTL

\* LayoutDelivers: a layout that ends without an error has made, formatted and grown
\* what it was asked for.
THEOREM LayoutsDeliver == Spec => []LayoutDelivers
<1>1. ASSUME IInv PROVE LayoutDelivers
  <2> SUFFICES ASSUME pc = "exited", prog = "layout", err = "none", runs > 0
               PROVE  /\ \A w \in 1 .. Len(want) : Labelled(want[w].label)
                      /\ \A s \in expand :
                           LET last == table[Len(start.table)]
                           IN  /\ last.full
                               /\ IF s = 0 THEN End(last) = Usable(length) ELSE last.size = MiBToSectors(s)
    BY DEF LayoutDelivers
  <2>1. next = Len(want) + 1 /\ LastFull /\ LastSized /\ Found(next - 1, Len(table))
    BY <1>1 DEF IInv, LayoutInv, Settled
  <2>2. DOMAIN table = 1 .. Len(table) /\ next - 1 = Len(want)
    BY <1>1, <2>1, SeqIs DEF IInv, Types
  <2>3. \A w \in 1 .. Len(want) : Labelled(want[w].label)
    BY <2>1, <2>2 DEF Found, Labelled
  <2> QED
    BY <2>1, <2>3 DEF LastFull, LastSized, Sized
<1> QED
  BY <1>1, Inductive, PTL

\* LayoutStable: the next boot repeats a layout that succeeded and changes nothing.
THEOREM LayoutsAreStable == Spec => []LayoutStable
<1>1. ASSUME IInv PROVE LayoutStable
  BY <1>1 DEF IInv, LayoutStable, StableInv, ProgramInv
<1> QED
  BY <1>1, Inductive, PTL

\* InstallDelivers: an installation that succeeds leaves exactly the wanted partitions,
\* one after the other, each of its size and formatted.
THEOREM InstallsDeliver == Spec => []InstallDelivers
<1>1. ASSUME IInv PROVE InstallDelivers
  <2> SUFFICES ASSUME pc = "exited", prog = "install", err = "none"
               PROVE  /\ Len(table) = Len(want)
                      /\ \A k \in DOMAIN table :
                           /\ table[k].label = want[k].label /\ table[k].fs = want[k].fs /\ table[k].full
                           /\ table[k].start = IF k = 1 THEN SectorsPerMiB ELSE End(table[k - 1]) + 1
                           /\ IF want[k].size = 0 THEN End(table[k]) = Usable(length)
                              ELSE table[k].size = MiBToSectors(want[k].size)
    BY DEF InstallDelivers
  <2>1. Laid /\ Len(table) = next - 1 /\ next = Len(want) + 1
    BY <1>1 DEF IInv, InstallInv, ProgramInv, Adding
  <2>2. DOMAIN table = 1 .. Len(table) /\ Len(table) = Len(want) /\ Len(want) \in Nat
    BY <1>1, <2>1, SeqIs DEF IInv, Types
  <2>3. \A k \in DOMAIN table : k < next
    BY <2>1, <2>2
  <2> QED
    BY <2>1, <2>2, <2>3 DEF Laid
<1> QED
  BY <1>1, Inductive, PTL

\* FittingInstallSucceeds: an installation in which no call fails ends without an error
\* on every disk that has the room, whatever was on it.
THEOREM FittingInstallsSucceed == Spec => []FittingInstallSucceeds
<1>1. Init => FittingInstallSucceeds
  BY DEF Init, FittingInstallSucceeds
<1> QED
  BY <1>1, Inductive, InstallEnds, PTL DEF Spec
=============================================================================
