--------------------------- MODULE CommandsProofs ---------------------------
(***************************************************************************)
(* Theorems about Commands, for any files, environment, flags and hosts.   *)
(***************************************************************************)
EXTENDS Commands, TLAPS, SequenceTheorems, WellFoundedInduction

-----------------------------------------------------------------------------
(* Least and greatest numbers.                                             *)

LEMMA LeastExists ==
  ASSUME NEW T \in SUBSET Nat, T # {}
  PROVE  \E n \in T : \A m \in T : n <= m
<1>1. PICK n \in T : \A m \in T : ~(<<m, n>> \in OpToRel(<, Nat))
  BY NatLessThanWellFounded, WFMin, Zenon
<1>2. \A m \in T : ~(m < n)
  BY <1>1, Zenon DEF OpToRel
<1> QED
  BY <1>2

LEMMA MinIs ==
  ASSUME NEW T \in SUBSET Nat, T # {}
  PROVE  Min(T) \in T /\ \A m \in T : Min(T) <= m
BY LeastExists, Zenon DEF Min

LEMMA MaxIs ==
  ASSUME NEW top \in Nat, NEW T \in SUBSET (1 .. top), T # {}
  PROVE  Max(T) \in T /\ \A m \in T : Max(T) >= m
<1> DEFINE Above == {n \in Nat : \A m \in T : n >= m}
<1>1. PICK n \in Above : \A m \in Above : n <= m
  <2>1. top \in Above
    OBVIOUS
  <2> QED
    BY <2>1, LeastExists
<1>2. n \in T
  <2>1. SUFFICES ASSUME n \notin T PROVE FALSE
    OBVIOUS
  <2>2. \A m \in T : m \in Nat /\ n >= m /\ n # m /\ m >= 1
    BY <1>1, <2>1
  <2>3. n - 1 \in Above /\ ~(n <= n - 1)
    <3>1. PICK m \in T : TRUE
      OBVIOUS
    <3>2. n \in Nat /\ n # 0
      BY <1>1, <2>2, <3>1
    <3> QED
      BY <2>2, <3>2
  <2> QED
    BY <1>1, <2>3
<1>3. \A m \in T : n >= m
  BY <1>1
<1> HIDE DEF Above
<1> QED
  BY <1>2, <1>3, Zenon DEF Max
-----------------------------------------------------------------------------
(* Layers.                                                                 *)

\* f has, for every key, the value of the highest of the first m layers that names it.
Tops(f, layers, m) ==
  \A k : /\ k \in DOMAIN f <=> \E i \in 1 .. m : k \in DOMAIN layers[i]
         /\ \A i \in 1 .. m :
              k \in DOMAIN layers[i] /\ (\A j \in (i + 1) .. m : k \notin DOMAIN layers[j])
              => f[k] = layers[i][k]

LEMMA OverIs ==
  ASSUME NEW f, NEW g
  PROVE  \A k : /\ k \in DOMAIN Over(f, g) <=> k \in DOMAIN f \/ k \in DOMAIN g
                /\ k \in DOMAIN f => Over(f, g)[k] = f[k]
                /\ k \in DOMAIN g /\ k \notin DOMAIN f => Over(f, g)[k] = g[k]
BY DEF Over

LEMMA OverTops ==
  ASSUME NEW f, NEW layers, NEW m \in Nat, Tops(f, layers, m)
  PROVE  Tops(Over(layers[m + 1], f), layers, m + 1)
<1>1. PICK g, h : g = layers[m + 1] /\ h = Over(g, f)
  OBVIOUS
<1>2. \A k : /\ k \in DOMAIN h <=> k \in DOMAIN g \/ k \in DOMAIN f
             /\ k \in DOMAIN g => h[k] = g[k]
             /\ k \in DOMAIN f /\ k \notin DOMAIN g => h[k] = f[k]
  BY <1>1, OverIs
<1> SUFFICES ASSUME NEW k
    PROVE  /\ k \in DOMAIN h <=> \E i \in 1 .. m + 1 : k \in DOMAIN layers[i]
           /\ \A i \in 1 .. m + 1 :
                k \in DOMAIN layers[i] /\ (\A j \in (i + 1) .. m + 1 : k \notin DOMAIN layers[j])
                => h[k] = layers[i][k]
  BY <1>1 DEF Tops
<1>3. k \in DOMAIN h <=> \E i \in 1 .. m + 1 : k \in DOMAIN layers[i]
  <2>1. k \in DOMAIN f <=> \E i \in 1 .. m : k \in DOMAIN layers[i]
    BY DEF Tops
  <2> QED
    BY <1>1, <1>2, <2>1
<1>4. ASSUME NEW i \in 1 .. m + 1, k \in DOMAIN layers[i],
             \A j \in (i + 1) .. m + 1 : k \notin DOMAIN layers[j]
      PROVE  h[k] = layers[i][k]
  <2>1. CASE i = m + 1
    BY <1>1, <1>2, <1>4, <2>1
  <2>2. CASE i \in 1 .. m
    <3>1. k \notin DOMAIN g
      BY <1>1, <1>4, <2>2
    <3>2. k \in DOMAIN f /\ f[k] = layers[i][k]
      BY <1>4, <2>2 DEF Tops
    <3> QED
      BY <1>2, <3>1, <3>2
  <2> QED
    BY <2>1, <2>2
<1> QED
  BY <1>3, <1>4

LEMMA TopsSame ==
  ASSUME NEW f, NEW layers, NEW others, NEW m \in Nat, Tops(f, layers, m),
         \A i \in 1 .. m : others[i] = layers[i]
  PROVE  Tops(f, others, m)
BY DEF Tops

\* The files in the order in which they are read.
FilesRead ==
  [i \in 1 .. Len(in.dropins) + 2 |->
     IF i = 1 THEN in.osRelease.values ELSE IF i = 2 THEN in.config.values
     ELSE in.dropins[i - 2].file.values]

\* What Init says of the input.
InInv ==
  /\ in.command \in Commands /\ in.host \in Hosts[in.command]
  /\ in.osRelease \in Releases /\ in.config \in Files /\ in.dropins \in Dropins
  /\ DOMAIN in.flags \subseteq FlagsOf(in.command)

LEMMA Dropped ==
  ASSUME InInv
  PROVE  /\ in.dropins \in Seq(Range(in.dropins)) /\ Len(in.dropins) \in Nat
         /\ DOMAIN in.dropins = 1 .. Len(in.dropins)
BY CommandsAssumption DEF InInv

LEMMA FunctionIsSeq ==
  ASSUME NEW n \in Nat, NEW D, NEW f \in [1 .. n -> D]
  PROVE  f \in Seq(D) /\ Len(f) = n
<1>1. f \in Seq(D)
  BY SeqDef
<1> QED
  BY <1>1, LenProperties

LEMMA LayersAre ==
  ASSUME InInv, NEW section
  PROVE  /\ Len(Layers(section)) = Len(in.dropins) + 4
         /\ \A i \in 1 .. Len(in.dropins) + 2 : Layers(section)[i] = FilesRead[i]
         /\ Layers(section)[Len(in.dropins) + 3] = Only(in.env, EnvKeys(section))
         /\ Layers(section)[Len(in.dropins) + 4] = in.flags
<1>1. PICK n \in Nat : n = Len(in.dropins)
  BY Dropped
<1>2. PICK a, b, c : /\ a = <<in.osRelease.values, in.config.values>>
                     /\ b = [i \in 1 .. n |-> in.dropins[i].file.values]
                     /\ c = <<Only(in.env, EnvKeys(section)), in.flags>>
  OBVIOUS
<1>3. Layers(section) = (a \o b) \o c
  BY <1>1, <1>2 DEF Layers
<1>0. PICK D : D = Range(a) \cup Range(b) \cup Range(c)
  OBVIOUS
<1>4. a \in Seq(D) /\ b \in Seq(D) /\ c \in Seq(D) /\ Len(a) = 2 /\ Len(b) = n /\ Len(c) = 2
  <2>1. DOMAIN a = 1 .. 2 /\ DOMAIN b = 1 .. n /\ DOMAIN c = 1 .. 2
    BY <1>2
  <2>3. a \in [1 .. 2 -> D] /\ b \in [1 .. n -> D] /\ c \in [1 .. 2 -> D]
    <3>1. a = [i \in 1 .. 2 |-> a[i]] /\ b = [i \in 1 .. n |-> b[i]] /\ c = [i \in 1 .. 2 |-> c[i]]
      BY <1>2
    <3>2. (\A i \in 1 .. 2 : a[i] \in D /\ c[i] \in D) /\ \A i \in 1 .. n : b[i] \in D
      BY <1>0, <2>1 DEF Range
    <3> QED
      BY <3>1, <3>2
  <2> QED
    BY <2>3, FunctionIsSeq
<1>6. PICK ab : ab = a \o b
  OBVIOUS
<1>5. /\ ab \in Seq(D) /\ Len(ab) = n + 2
      /\ \A i \in 1 .. n + 2 : ab[i] = IF i <= 2 THEN a[i] ELSE b[i - 2]
  <2>1. /\ ab \in Seq(D) /\ Len(ab) = Len(a) + Len(b)
        /\ \A i \in 1 .. Len(a) + Len(b) : ab[i] = IF i <= Len(a) THEN a[i] ELSE b[i - Len(a)]
    BY <1>4, <1>6, ConcatProperties
  <2>2. 2 + n = n + 2
    OBVIOUS
  <2> QED
    BY <1>4, <2>1, <2>2
<1>7. /\ Len(ab \o c) = n + 4
      /\ \A i \in 1 .. n + 4 : (ab \o c)[i] = IF i <= n + 2 THEN ab[i] ELSE c[i - (n + 2)]
  BY <1>4, <1>5, <1>6, ConcatProperties
<1>8. \A i \in 1 .. n + 2 : ab[i] = FilesRead[i]
  <2> SUFFICES ASSUME NEW i \in 1 .. n + 2 PROVE ab[i] = FilesRead[i]
    OBVIOUS
  <2>1. FilesRead[i] = IF i = 1 THEN in.osRelease.values ELSE IF i = 2 THEN in.config.values
                       ELSE in.dropins[i - 2].file.values
    BY <1>1 DEF FilesRead
  <2>2. a[1] = in.osRelease.values /\ a[2] = in.config.values
    BY <1>2
  <2>3. i > 2 => b[i - 2] = in.dropins[i - 2].file.values
    BY <1>2
  <2>4. ab[i] = IF i <= 2 THEN a[i] ELSE b[i - 2]
    BY <1>5, <1>6
  <2> QED
    BY <2>1, <2>2, <2>3, <2>4
<1>9. c[1] = Only(in.env, EnvKeys(section)) /\ c[2] = in.flags
  BY <1>2
<1>10. PICK l : l = ab \o c /\ l = Layers(section)
  BY <1>3, <1>6
<1>11. /\ Len(l) = n + 4 /\ \A i \in 1 .. n + 2 : l[i] = FilesRead[i]
       /\ l[n + 3] = c[1] /\ l[n + 4] = c[2]
  BY <1>7, <1>8, <1>10
<1> QED
  BY <1>1, <1>9, <1>10, <1>11, Zenon

\* What viper gives when all files are read and the flags are as they were given.
LEMMA EffectiveTops ==
  ASSUME InInv, NEW section, NEW f, Tops(f, FilesRead, Len(in.dropins) + 2)
  PROVE  Tops(Over(in.flags, Over(Only(in.env, EnvKeys(section)), f)), Layers(section), Len(in.dropins) + 4)
<1>1. PICK n \in Nat : n = Len(in.dropins)
  BY Dropped
<1>2. PICK l, e : l = Layers(section) /\ e = Over(Only(in.env, EnvKeys(section)), f)
  OBVIOUS
<1>3. Tops(f, l, n + 2)
  BY <1>1, <1>2, LayersAre, TopsSame
<1>4. l[(n + 2) + 1] = Only(in.env, EnvKeys(section)) /\ l[(n + 3) + 1] = in.flags
  BY <1>1, <1>2, LayersAre
<1>5. Tops(Over(l[(n + 2) + 1], f), l, (n + 2) + 1)
  BY <1>3, OverTops
<1>6. (n + 2) + 1 = n + 3 /\ (n + 3) + 1 = n + 4
  OBVIOUS
<1>7. Tops(e, l, n + 3)
  BY <1>2, <1>4, <1>5, <1>6
<1>8. Tops(Over(l[(n + 3) + 1], e), l, (n + 3) + 1)
  BY <1>7, OverTops
<1> QED
  BY <1>1, <1>2, <1>4, <1>6, <1>8

LEMMA TopmostIs ==
  ASSUME InInv, NEW section, NEW f, Tops(f, Layers(section), Len(in.dropins) + 4), NEW k, NEW default
  PROVE  Topmost(section, k, default) = IF k \in DOMAIN f THEN f[k] ELSE default
<1>0. PICK n \in Nat : n = Len(in.dropins) + 4
  BY Dropped
<1>1. PICK l : n = Len(in.dropins) + 4 /\ l = Layers(section)
  BY <1>0
<1>2. Len(l) = n
  BY <1>1, LayersAre
<1> DEFINE having == {i \in 1 .. n : k \in DOMAIN l[i]}
<1>3. Topmost(section, k, default) = IF having = {} THEN default ELSE l[Max(having)][k]
  BY <1>1, <1>2 DEF Topmost
<1>4. CASE having = {}
  <2>1. k \notin DOMAIN f
    BY <1>1, <1>4 DEF Tops
  <2> QED
    BY <1>3, <1>4, <2>1
<1>5. CASE having # {}
  <2>1. PICK m : m = Max(having)
    OBVIOUS
  <2>2. m \in having /\ \A i \in having : m >= i
    BY <1>5, <2>1, MaxIs
  <2>3. \A j \in (m + 1) .. n : k \notin DOMAIN l[j]
    BY <2>2
  <2>4. k \in DOMAIN f /\ f[k] = l[m][k]
    BY <1>1, <2>2, <2>3 DEF Tops
  <2> HIDE DEF having
  <2> QED
    BY <1>3, <1>5, <2>1, <2>4
<1> QED
  BY <1>4, <1>5
-----------------------------------------------------------------------------
(* The inductive invariant.                                                *)

Reading == {"os-release", "config", "config.d"}
Merged  == {"decode", "flags", "adapt", "spec"}
Known   == {"arguments", "overlays", "action"}
\* No drop-in is named like config.yaml.
Plain == \A i \in 1 .. Len(in.dropins) : in.dropins[i].name # "config"

StageInv ==
  /\ pc \in Reading \cup Merged \cup Known \cup {"refused"}
  /\ pc \in {"os-release", "config.d", "adapt"} => ~ISO
  /\ pc = "overlays" => ISO

\* What is left of the drop-ins is the end of the sequence.
Remaining ==
  /\ left \in Seq(Range(in.dropins)) /\ Len(left) \in 0 .. Len(in.dropins)
  /\ \A j \in 1 .. Len(left) : left[j] = in.dropins[(Len(in.dropins) - Len(left)) + j]

\* The merged configuration is that of the files read so far.
MergeInv ==
  /\ pc = "os-release" => vp = <<>> /\ left = in.dropins
  /\ pc = "config" => IF ISO THEN vp = <<>> ELSE Tops(vp, FilesRead, 1) /\ left = in.dropins
  /\ pc = "config.d" =>
       Remaining /\ (Plain => Tops(vp, FilesRead, (Len(in.dropins) + 2) - Len(left)))
  /\ pc \in Merged =>
       IF ISO THEN vp = Over(in.config.values, <<>>)
       ELSE Plain => Tops(vp, FilesRead, Len(in.dropins) + 2)
  /\ "growing" \in DOMAIN vp => vp["growing"] \in Nat

\* The flags as they were given, and then with the translated ones.
Set(k, v) == k \in DOMAIN flags /\ flags[k] = v
Asks(f)   == Get(in.flags, f) # None
Adapted ==
  /\ \A k : k \notin Replaced =>
       /\ k \in DOMAIN flags <=> k \in DOMAIN in.flags
       /\ k \in DOMAIN in.flags => flags[k] = in.flags[k]
  /\ Asks("directory")    => Set("system.uri", "dir:" \o Get(in.flags, "directory"))
  /\ Asks("docker-image") => Set("system.uri", "docker:" \o Get(in.flags, "docker-image"))
  /\ Asks("force-efi")    => Set("firmware", "efi")
  /\ Asks("force-gpt")    => Set("part-table", "gpt")
FlagsInv ==
  /\ pc \in Reading \cup {"decode", "flags", "adapt"} \/ ISO => flags = in.flags
  /\ pc = "adapt" => ~(Asks("directory") /\ Asks("docker-image"))
  /\ pc = "spec" /\ ~ISO => Adapted

\* The RunConfig.
RunInv ==
  pc \in {"flags", "adapt", "spec"} \cup Known /\ ~ISO /\ Plain =>
    \A k \in RunKeys : cfg[k] = Topmost("run", k, None)

\* The spec.
Shaped ==
  /\ spec = [values |-> spec.values, parts |-> spec.parts, growing |-> spec.growing,
             sources |-> spec.sources, found |-> spec.found]
  /\ DOMAIN spec.values = SpecKeys /\ DOMAIN spec.sources = Tree

ValuesInv ==
  /\ Plain => \A k \in SpecKeys \ (Replaced \cup {"target"}) :
                LET v == Topmost(in.command, k, Default(k)) IN v \in Undecodable \cup {spec.values[k]}
  /\ Asked("system.uri", "directory", "dir:" \o Get(in.flags, "directory"))
  /\ Asked("system.uri", "docker-image", "docker:" \o Get(in.flags, "docker-image"))
  /\ Asked("firmware", "force-efi", "efi") /\ Asked("part-table", "force-gpt", "gpt")

SaneInv ==
  /\ ~Insane(spec) /\ ~NewSpecFails /\ spec.growing \in Nat
  /\ in.command # "install" => \A p \in Looked : spec.found[p] = Lookup(p)
  /\ pc = "action" /\ in.command = "install" =>
       spec.values["target"] # None /\ (in.arg # None => spec.values["target"] = in.arg)

AskedRoot == IF in.arg # None THEN in.arg ELSE Get(in.config.values, "rootfs")
SourcesInv ==
  /\ pc \in {"arguments", "overlays"} => \A t \in Tree \ {"rootfs"} : spec.sources[t] = <<>>
  /\ pc = "arguments" =>
       LET source == Get(in.config.values, "rootfs") IN
       source \notin Undecodable /\ spec.sources["rootfs"] = IF source = None THEN <<>> ELSE <<source>>
  /\ pc \in {"overlays", "action"} => AskedRoot # None /\ AskedRoot \notin Undecodable
  /\ pc = "overlays" => spec.sources["rootfs"] = <<AskedRoot>>
  /\ pc = "action" =>
       LET over == Get(in.flags, "overlay-rootfs") IN
       /\ spec.sources["rootfs"] = <<AskedRoot>> \o (IF over = None THEN <<>> ELSE <<over>>)
       /\ \A t \in Tree : Range(spec.sources[t]) \ {AskedRoot} \subseteq Paths

SpecInv ==
  /\ Shaped
  /\ pc \in Known /\ ~ISO => ValuesInv /\ SaneInv
  /\ ISO => SourcesInv

IInv == InInv /\ StageInv /\ MergeInv /\ FlagsInv /\ RunInv /\ SpecInv
-----------------------------------------------------------------------------
(* The input does not change, nor what is computed from it.                *)

LEMMA InputSame ==
  ASSUME UNCHANGED in
  PROVE  /\ InInv' <=> InInv
         /\ ISO' <=> ISO
         /\ Plain' <=> Plain
         /\ FilesRead' = FilesRead /\ Replaced' = Replaced
         /\ \A f : Asks(f)' <=> Asks(f)
         /\ \A s, k, d : Topmost(s, k, d)' = Topmost(s, k, d)
         /\ \A p : Lookup(p)' = Lookup(p)
         /\ \A k : Default(k)' = Default(k)
         /\ NewSpecFails' <=> NewSpecFails
         /\ AskedRoot' = AskedRoot
<1>1. InInv' <=> InInv
  BY DEF InInv
<1>2. ISO' <=> ISO
  BY DEF ISO
<1>3. Plain' <=> Plain
  BY DEF Plain
<1>4. FilesRead' = FilesRead /\ Replaced' = Replaced
  BY DEF FilesRead, Replaced
<1>5. \A f : Asks(f)' <=> Asks(f)
  BY DEF Asks
<1>6. \A s, k, d : Topmost(s, k, d)' = Topmost(s, k, d)
  BY DEF Topmost, Layers
<1>7. \A p : Lookup(p)' = Lookup(p)
  BY DEF Lookup, ByName, ByLabel, Pick
<1>8. \A k : Default(k)' = Default(k)
  BY <1>7 DEF Default
<1>9. NewSpecFails' <=> NewSpecFails
  BY <1>7 DEF NewSpecFails
<1>10. AskedRoot' = AskedRoot
  BY DEF AskedRoot
<1> QED
  BY <1>1, <1>2, <1>3, <1>4, <1>5, <1>6, <1>7, <1>8, <1>9, <1>10

LEMMA InAlways == [Next]_vars => UNCHANGED in
BY DEF Next, vars, ReadOSRelease, ReadConfig, ReadDropin, DropinsRead, Decode, ValidateFlags,
       AdaptFlags, ReadSpec, ReadBuildISO, TakeTarget, TakeSource, TakeOverlays, Merge

\* Steps that leave a part of the state alone.
LEMMA MergeFrame ==
  ASSUME MergeInv, UNCHANGED <<in, vp, left>>, pc' \in Merged => pc \in Merged, pc' \notin Reading
  PROVE  MergeInv'
BY InputSame DEF MergeInv, Reading, Merged, Tops

LEMMA FlagsFrame ==
  ASSUME FlagsInv, UNCHANGED <<in, flags>>,
         pc' \in Reading \cup {"decode", "flags"} => pc \in Reading \cup {"decode", "flags"},
         pc' # "adapt", pc' = "spec" => ISO
  PROVE  FlagsInv'
BY InputSame DEF FlagsInv, Reading

LEMMA RunFrame ==
  ASSUME RunInv, UNCHANGED <<in, cfg>>,
         pc' \in {"flags", "adapt", "spec"} \cup Known => pc \in {"flags", "adapt", "spec"} \cup Known
  PROVE  RunInv'
BY InputSame DEF RunInv

LEMMA SpecFrame ==
  ASSUME SpecInv, UNCHANGED <<in, spec>>, pc' \notin Known
  PROVE  SpecInv'
BY InputSame DEF SpecInv, Shaped, SourcesInv, Known
-----------------------------------------------------------------------------
(* Reading the files.                                                      *)

\* A step that merges a file, and what holds of it whatever is in the file.
LEMMA MergeDoes ==
  ASSUME IInv, NEW file, NEW next, Merge(file, next), next \in {"config", "config.d", "decode"},
         pc \in Reading, next = "config" => ~ISO, next = "config.d" => ~ISO
  PROVE  /\ UNCHANGED <<in, flags, cfg, spec>>
         /\ \/ pc' = "refused" /\ vp' = vp
            \/ file.kind # "broken" /\ pc' = next /\ vp' = Over(file.values, vp)
         /\ StageInv' /\ FlagsInv' /\ RunInv' /\ SpecInv'
<1>1. UNCHANGED <<in, flags, cfg, spec>>
  BY DEF Merge
<1>2. \/ pc' = "refused" /\ vp' = vp
      \/ file.kind # "broken" /\ pc' = next /\ vp' = Over(file.values, vp)
  <2>1. CASE file.kind = "broken"
    BY <2>1 DEF Merge, Refuse
  <2>2. CASE file.kind # "broken"
    BY <2>2 DEF Merge, Goto
  <2> QED
    BY <2>1, <2>2
<1>3. StageInv'
  BY <1>1, <1>2, InputSame DEF StageInv, Reading, Merged
<1>4. FlagsInv'
  BY <1>1, <1>2, FlagsFrame DEF IInv, Reading
<1>5. RunInv'
  BY <1>1, <1>2, RunFrame DEF IInv, Known
<1>6. SpecInv'
  BY <1>1, <1>2, SpecFrame DEF IInv, Known
<1> QED
  BY <1>1, <1>2, <1>3, <1>4, <1>5, <1>6

\* What every file and drop-in that can be read gives.
Growing(f) == "growing" \in DOMAIN f => f["growing"] \in Nat
LEMMA GrowingOver ==
  ASSUME NEW f, NEW g, Growing(f), Growing(g)
  PROVE  Growing(Over(f, g))
BY OverIs DEF Growing

LEMMA GrowingFiles ==
  ASSUME InInv
  PROVE  /\ Growing(in.osRelease.values) /\ Growing(in.config.values)
         /\ \A d \in Range(in.dropins) : Growing(Found(d).values)
<1>1. \A f \in Files \cup Releases \cup UNION {{d[i].file : i \in DOMAIN d} : d \in Dropins} :
        Growing(f.values)
  BY CommandsAssumption DEF Growing
<1>2. in.osRelease \in Releases /\ in.config \in Files /\ in.dropins \in Dropins
  BY DEF InInv
<1>3. ASSUME NEW d \in Range(in.dropins) PROVE Growing(Found(d).values)
  <2>1. PICK i \in DOMAIN in.dropins : d = in.dropins[i]
    BY DEF Range
  <2>2. d.file \in {in.dropins[j].file : j \in DOMAIN in.dropins}
    BY <2>1
  <2>3. Growing(d.file.values)
    BY <1>1, <1>2, <2>2
  <2>4. Growing(<<>>)
    BY DEF Growing
  <2> QED
    BY <1>1, <1>2, <2>3, <2>4 DEF Found
<1> QED
  BY <1>1, <1>2, <1>3

LEMMA FirstFiles ==
  ASSUME InInv
  PROVE  /\ Tops(<<>>, FilesRead, 0) /\ FilesRead[1] = in.osRelease.values
         /\ FilesRead[2] = in.config.values
<1>1. PICK n \in Nat : n = Len(in.dropins)
  BY Dropped
<1>2. 1 \in 1 .. n + 2 /\ 2 \in 1 .. n + 2
  BY <1>1
<1>3. FilesRead[1] = in.osRelease.values /\ FilesRead[2] = in.config.values
  BY <1>1, <1>2 DEF FilesRead
<1>4. Tops(<<>>, FilesRead, 0)
  BY DEF Tops
<1> QED
  BY <1>3, <1>4

LEMMA ReadOSReleaseKeeps ==
  ASSUME IInv, ReadOSRelease
  PROVE  IInv'
<1>1. pc = "os-release" /\ ~ISO /\ Merge(in.osRelease, "config") /\ UNCHANGED left /\ InInv
  BY DEF ReadOSRelease, IInv, StageInv
<1>2. /\ UNCHANGED in /\ StageInv' /\ FlagsInv' /\ RunInv' /\ SpecInv'
      /\ \/ pc' = "refused" /\ vp' = vp
         \/ pc' = "config" /\ vp' = Over(in.osRelease.values, vp)
  BY <1>1, MergeDoes DEF Reading
<1>3. vp = <<>> /\ left = in.dropins /\ Growing(vp)
  BY <1>1 DEF IInv, MergeInv, Growing
<1>4. CASE pc' = "refused" /\ vp' = vp
  BY <1>1, <1>2, <1>3, <1>4 DEF MergeInv, Growing, Merged, IInv, InInv
<1>5. CASE pc' = "config" /\ vp' = Over(in.osRelease.values, vp)
  <2>1. Tops(vp', FilesRead, 1)
    <3>1. Tops(Over(FilesRead[0 + 1], <<>>), FilesRead, 0 + 1)
      BY <1>1, FirstFiles, OverTops
    <3> QED
      BY <1>1, <1>3, <1>5, <3>1, FirstFiles
  <2>2. Growing(vp')
    BY <1>1, <1>3, <1>5, GrowingFiles, GrowingOver
  <2>3. Tops(vp', FilesRead', 1) /\ ~ISO'
    BY <1>1, <1>2, <2>1, InputSame
  <2>4. MergeInv'
    BY <1>1, <1>2, <1>3, <1>5, <2>2, <2>3 DEF MergeInv, Growing, Merged
  <2> QED
    BY <1>1, <1>2, <2>4, InputSame DEF IInv
<1> QED
  BY <1>2, <1>4, <1>5

LEMMA ReadConfigKeeps ==
  ASSUME IInv, ReadConfig
  PROVE  IInv'
<1>1. /\ pc = "config" /\ UNCHANGED left /\ InInv
      /\ Merge(in.config, IF ISO THEN "decode" ELSE "config.d")
  BY DEF ReadConfig, IInv
<1>2. /\ UNCHANGED in /\ StageInv' /\ FlagsInv' /\ RunInv' /\ SpecInv'
      /\ \/ pc' = "refused" /\ vp' = vp
         \/ pc' = (IF ISO THEN "decode" ELSE "config.d") /\ vp' = Over(in.config.values, vp)
  BY <1>1, MergeDoes DEF Reading
<1>3. /\ IF ISO THEN vp = <<>> ELSE Tops(vp, FilesRead, 1) /\ left = in.dropins
      /\ Growing(vp)
  BY <1>1 DEF IInv, MergeInv, Growing
<1>4. InInv' /\ (ISO' <=> ISO) /\ FilesRead' = FilesRead
  BY <1>1, <1>2, InputSame
<1>5. Growing(vp')
  BY <1>1, <1>2, <1>3, GrowingFiles, GrowingOver
<1>6. CASE pc' = "refused"
  BY <1>2, <1>4, <1>5, <1>6 DEF MergeInv, Growing, Merged, IInv
<1>7. CASE ISO /\ pc' = "decode" /\ vp' = Over(in.config.values, vp)
  BY <1>2, <1>3, <1>4, <1>5, <1>7 DEF MergeInv, Growing, Merged, IInv
<1>8. CASE ~ISO /\ pc' = "config.d" /\ vp' = Over(in.config.values, vp)
  <2>1. Tops(vp', FilesRead, 2)
    <3>1. Tops(Over(FilesRead[1 + 1], vp), FilesRead, 1 + 1)
      BY <1>3, <1>8, OverTops
    <3> QED
      BY <1>1, <1>8, <3>1, FirstFiles
  <2>2. Remaining'
    BY <1>1, <1>2, <1>3, <1>8, Dropped DEF Remaining
  <2>3. (Len(in.dropins') + 2) - Len(left') = 2
    BY <1>1, <1>2, <1>3, <1>8, Dropped
  <2>4. MergeInv'
    BY <1>4, <1>5, <1>8, <2>1, <2>2, <2>3 DEF MergeInv, Growing, Merged
  <2> QED
    BY <1>2, <1>4, <2>4 DEF IInv
<1> QED
  BY <1>2, <1>6, <1>7, <1>8

LEMMA Shift ==
  ASSUME NEW n \in Nat, NEW l \in Nat, NEW j \in 1 .. l - 1
  PROVE  j + 1 \in 1 .. l /\ (n - l) + (j + 1) = (n - (l - 1)) + j
OBVIOUS

\* The next drop-in is the one after those that are read.
LEMMA NextDropin ==
  ASSUME InInv, Remaining, left # <<>>, UNCHANGED in, left' = Tail(left), NEW n \in Nat, NEW l \in Nat,
         n = Len(in.dropins), l = Len(left)
  PROVE  /\ Remaining' /\ l \in 1 .. n /\ Len(left') = l - 1
         /\ Head(left) \in Range(in.dropins) /\ Head(left) = in.dropins[(n - l) + 1]
<1>1. left \in Seq(Range(in.dropins)) /\ l \in 1 .. n
  BY EmptySeq DEF Remaining
<1>2. \A j \in 1 .. l : left[j] = in.dropins[(n - l) + j]
  BY DEF Remaining
<1>3. /\ left' \in Seq(Range(in.dropins)) /\ Len(left') = l - 1
      /\ \A j \in 1 .. l - 1 : left'[j] = left[j + 1]
      /\ Head(left) = left[1] /\ Head(left) \in Range(in.dropins)
  BY <1>1
<1>4. Head(left) = in.dropins[(n - l) + 1]
  BY <1>1, <1>2, <1>3
<1>5. \A j \in 1 .. l - 1 : left'[j] = in.dropins[(n - (l - 1)) + j]
  <2> SUFFICES ASSUME NEW j \in 1 .. l - 1 PROVE left'[j] = in.dropins[(n - (l - 1)) + j]
    OBVIOUS
  <2>1. j + 1 \in 1 .. l /\ (n - l) + (j + 1) = (n - (l - 1)) + j
    BY Shift
  <2> QED
    BY <1>2, <1>3, <2>1
<1>6. Remaining'
  BY <1>1, <1>3, <1>5 DEF Remaining
<1> QED
  BY <1>1, <1>3, <1>4, <1>6

LEMMA ReadDropinKeeps ==
  ASSUME IInv, ReadDropin
  PROVE  IInv'
<1>1. /\ pc = "config.d" /\ ~ISO /\ left # <<>> /\ left' = Tail(left) /\ InInv /\ Remaining
      /\ Merge(Found(Head(left)), "config.d")
  BY DEF ReadDropin, IInv, StageInv, MergeInv
<1>2. PICK d : d = Head(left)
  OBVIOUS
<1>3. /\ UNCHANGED in /\ StageInv' /\ FlagsInv' /\ RunInv' /\ SpecInv'
      /\ \/ pc' = "refused" /\ vp' = vp
         \/ Found(d).kind # "broken" /\ pc' = "config.d" /\ vp' = Over(Found(d).values, vp)
  BY <1>1, <1>2, MergeDoes DEF Reading
<1>4. PICK n \in Nat, l \in Nat : n = Len(in.dropins) /\ l = Len(left)
  BY <1>1, Dropped DEF Remaining
<1>5. /\ Remaining' /\ l \in 1 .. n /\ Len(left') = l - 1
      /\ d \in Range(in.dropins) /\ d = in.dropins[(n - l) + 1]
  BY <1>1, <1>2, <1>3, <1>4, NextDropin
<1>6. InInv' /\ (ISO' <=> ISO) /\ FilesRead' = FilesRead /\ (Plain' <=> Plain)
  BY <1>1, <1>3, InputSame
<1>7. Growing(vp')
  <2>1. Growing(vp) /\ Growing(Found(d).values)
    BY <1>1, <1>5, GrowingFiles DEF IInv, MergeInv, Growing
  <2> QED
    BY <1>3, <2>1, GrowingOver DEF Growing
<1>8. CASE pc' = "refused"
  BY <1>3, <1>6, <1>7, <1>8 DEF MergeInv, Growing, Merged, IInv
<1>9. CASE Found(d).kind # "broken" /\ pc' = "config.d" /\ vp' = Over(Found(d).values, vp)
  <2>1. ASSUME Plain PROVE Tops(vp', FilesRead, (n + 2) - (l - 1))
    <3>1. d.name # "config"
      BY <1>4, <1>5, <2>1 DEF Plain
    <3>2. Found(d) = d.file
      BY <1>9, <3>1 DEF Found
    <3>3. FilesRead[((n + 2) - l) + 1] = d.file.values
      <4>1. ((n + 2) - l) + 1 \in 3 .. n + 2 /\ (((n + 2) - l) + 1) - 2 = (n - l) + 1
        BY <1>5
      <4> QED
        BY <1>4, <1>5, <4>1 DEF FilesRead
    <3>4. Tops(vp, FilesRead, (n + 2) - l)
      BY <1>1, <1>4, <2>1 DEF IInv, MergeInv
    <3>5. PICK m \in Nat : m = (n + 2) - l /\ m + 1 = (n + 2) - (l - 1)
      BY <1>5
    <3>6. Tops(Over(FilesRead[m + 1], vp), FilesRead, m + 1)
      BY <3>4, <3>5, OverTops
    <3> QED
      BY <1>9, <3>2, <3>3, <3>5, <3>6
  <2>2. Plain' => Tops(vp', FilesRead', (Len(in.dropins') + 2) - Len(left'))
    BY <1>3, <1>4, <1>5, <1>6, <2>1
  <2>3. MergeInv'
    BY <1>5, <1>7, <1>9, <2>2 DEF MergeInv, Growing, Merged
  <2> QED
    BY <1>3, <1>6, <2>3 DEF IInv
<1> QED
  BY <1>3, <1>6, <1>8, <1>9

LEMMA DropinsReadKeeps ==
  ASSUME IInv, DropinsRead
  PROVE  IInv'
<1>1. /\ pc = "config.d" /\ ~ISO /\ left = <<>> /\ pc' = "decode" /\ InInv
      /\ UNCHANGED <<in, flags, vp, left, cfg, spec>>
  BY DEF DropinsRead, Goto, IInv, StageInv
<1>2. InInv' /\ (ISO' <=> ISO) /\ FilesRead' = FilesRead /\ (Plain' <=> Plain)
  BY <1>1, InputSame
<1>3. PICK n \in Nat : n = Len(in.dropins)
  BY <1>1, Dropped
<1>4. Plain => Tops(vp, FilesRead, n + 2)
  <2>1. Len(left) = 0 /\ (n + 2) - 0 = n + 2
    BY <1>1
  <2> QED
    BY <1>1, <1>3, <2>1 DEF IInv, MergeInv
<1>5. MergeInv'
  BY <1>1, <1>2, <1>3, <1>4 DEF MergeInv, Merged, IInv
<1>6. StageInv'
  BY <1>1, <1>2 DEF StageInv, Merged
<1>7. FlagsInv'
  BY <1>1, FlagsFrame DEF IInv, Reading
<1>8. RunInv'
  BY <1>1, RunFrame DEF IInv, Known
<1>9. SpecInv'
  BY <1>1, SpecFrame DEF IInv, Known
<1> QED
  BY <1>2, <1>5, <1>6, <1>7, <1>8, <1>9 DEF IInv
-----------------------------------------------------------------------------
(* The RunConfig and the flags.                                            *)

LEMMA DecodeKeeps ==
  ASSUME IInv, Decode
  PROVE  IInv'
<1>1. /\ pc = "decode" /\ InInv /\ flags = in.flags
      /\ cfg' = [k \in RunKeys |-> Get(Effective(IF ISO THEN "build" ELSE "run"), k)]
      /\ UNCHANGED <<in, flags, vp, left, spec>>
  BY DEF Decode, IInv, FlagsInv
<1>2. pc' \in {"refused", "flags"}
  <2>1. CASE cfg'["arch"] = "unknown"
    BY <2>1 DEF Decode, Refuse
  <2>2. CASE cfg'["arch"] # "unknown"
    BY <2>2 DEF Decode, Goto
  <2> QED
    BY <2>1, <2>2
<1>3. /\ InInv' /\ (ISO' <=> ISO) /\ (Plain' <=> Plain)
      /\ \A s, k, d : Topmost(s, k, d)' = Topmost(s, k, d)
  BY <1>1, InputSame
<1>4. ASSUME ~ISO, Plain, NEW k \in RunKeys PROVE cfg'[k] = Topmost("run", k, None)
  <2>1. PICK f : f = Effective("run")
    OBVIOUS
  <2>2. Tops(vp, FilesRead, Len(in.dropins) + 2)
    BY <1>1, <1>4 DEF IInv, MergeInv, Merged
  <2>3. Tops(f, Layers("run"), Len(in.dropins) + 4)
    BY <1>1, <2>1, <2>2, EffectiveTops DEF Effective
  <2>6. InInv
    BY <1>1
  <2>4. Topmost("run", k, None) = IF k \in DOMAIN f THEN f[k] ELSE None
    BY <2>3, <2>6, TopmostIs
  <2>5. cfg'[k] = Get(f, k)
    BY <1>1, <1>4, <2>1
  <2> QED
    BY <2>4, <2>5 DEF Get
<1>5. RunInv'
  BY <1>3, <1>4 DEF RunInv
<1>6. StageInv'
  BY <1>2, <1>3 DEF StageInv, Merged
<1>7. MergeInv'
  BY <1>1, <1>2, MergeFrame DEF IInv, Reading, Merged
<1>8. FlagsInv'
  BY <1>1, <1>2, FlagsFrame DEF IInv
<1>9. SpecInv'
  BY <1>1, <1>2, SpecFrame DEF IInv, Known
<1> QED
  BY <1>3, <1>5, <1>6, <1>7, <1>8, <1>9 DEF IInv

LEMMA ValidateFlagsKeeps ==
  ASSUME IInv, ValidateFlags
  PROVE  IInv'
<1>1. /\ pc = "flags" /\ InInv /\ flags = in.flags
      /\ UNCHANGED <<in, flags, vp, left, cfg, spec>>
  BY DEF ValidateFlags, IInv, FlagsInv
<1>2. \/ pc' = "refused"
      \/ ISO /\ pc' = "spec"
      \/ ~ISO /\ pc' = "adapt" /\ ~SourceFlagsClash
  <2>1. CASE ISO
    <3>1. IF CosignFlagsClash THEN Refuse("CosignWrongFlags") ELSE Goto("spec")
      BY <2>1 DEF ValidateFlags
    <3> QED
      BY <2>1, <3>1 DEF Refuse, Goto
  <2>2. CASE ~ISO
    <3>1. IF SourceFlagsClash \/ CosignFlagsClash \/ PowerFlagsClash
          THEN Refuse("ReadingInstallUpgradeFlags") ELSE Goto("adapt")
      BY <2>2 DEF ValidateFlags
    <3> QED
      BY <2>2, <3>1 DEF Refuse, Goto
  <2> QED
    BY <2>1, <2>2
<1>3. InInv' /\ (ISO' <=> ISO) /\ \A f : Asks(f)' <=> Asks(f)
  BY <1>1, InputSame
<1>4. StageInv'
  BY <1>2, <1>3 DEF StageInv, Merged
<1>5. MergeInv'
  BY <1>1, <1>2, MergeFrame DEF IInv, Reading, Merged
<1>6. FlagsInv'
  <2>1. pc' = "adapt" => ~(Asks("directory") /\ Asks("docker-image"))
    <3>1. ~SourceFlagsClash => ~(Given("directory") /\ Given("docker-image"))
      BY DEF SourceFlagsClash, SourceFlags
    <3> QED
      BY <1>1, <1>2, <3>1 DEF Given, Asks
  <2> QED
    BY <1>1, <1>2, <1>3, <2>1 DEF FlagsInv
<1>7. RunInv'
  BY <1>1, RunFrame DEF IInv
<1>8. SpecInv'
  BY <1>1, <1>2, SpecFrame DEF IInv, Known
<1> QED
  BY <1>3, <1>4, <1>5, <1>6, <1>7, <1>8 DEF IInv

LEMMA Translated ==
  ASSUME InInv, flags = in.flags, ~(Asks("directory") /\ Asks("docker-image")), AdaptFlags
  PROVE  Adapted'
<1>1. UNCHANGED in
  BY DEF AdaptFlags
<1>2. /\ \A f : Asks(f)' <=> Asks(f)
      /\ Replaced' = Replaced
  BY <1>1, InputSame
<1>3. Replaced = {k \in Replaceable : \E f \in DeprecatedFor(k) : Given(f)}
  BY DEF Replaced, Given
<1>4. PICK g : g = [k \in Replaced |->
                      CASE k = "firmware"                          -> "efi"
                        [] k = "part-table"                        -> "gpt"
                        [] k = "system.uri" /\ Given("directory")  -> "dir:" \o flags["directory"]
                        [] k = "system.uri" /\ ~Given("directory") -> "docker:" \o flags["docker-image"]]
  OBVIOUS
<1>5. flags' = Over(g, flags)
  BY <1>3, <1>4 DEF AdaptFlags
<1>17. DOMAIN g = Replaced
  BY <1>4
<1>6. \A k : /\ k \in DOMAIN flags' <=> k \in Replaced \/ k \in DOMAIN in.flags
             /\ k \in Replaced => flags'[k] = g[k]
             /\ k \in DOMAIN in.flags /\ k \notin Replaced => flags'[k] = in.flags[k]
  BY <1>5, <1>17, OverIs
<1>7. /\ "firmware" \in Replaced => g["firmware"] = "efi"
      /\ "part-table" \in Replaced => g["part-table"] = "gpt"
      /\ "system.uri" \in Replaced /\ Given("directory") =>
           g["system.uri"] = "dir:" \o flags["directory"]
      /\ "system.uri" \in Replaced /\ ~Given("directory") =>
           g["system.uri"] = "docker:" \o flags["docker-image"]
  BY <1>4
<1>8. /\ "directory" \in DeprecatedFor("system.uri") /\ "docker-image" \in DeprecatedFor("system.uri")
      /\ "force-efi" \in DeprecatedFor("firmware") /\ "force-gpt" \in DeprecatedFor("part-table")
  BY DEF DeprecatedFor
<1>9. /\ Asks("directory") \/ Asks("docker-image") => "system.uri" \in Replaced
      /\ Asks("force-efi") => "firmware" \in Replaced
      /\ Asks("force-gpt") => "part-table" \in Replaced
  BY <1>8 DEF Replaced, Replaceable, Asks
<1>10. \A f : Asks(f) => Get(in.flags, f) = in.flags[f]
  BY DEF Asks, Get
<1>11. \A f : Asks(f) <=> Given(f)
  BY DEF Asks, Given
<1>12. \A k : k \notin Replaced =>
         /\ k \in DOMAIN flags' <=> k \in DOMAIN in.flags
         /\ k \in DOMAIN in.flags => flags'[k] = in.flags[k]
  BY <1>6
<1>13. ASSUME Asks("directory")
       PROVE  "system.uri" \in DOMAIN flags' /\ flags'["system.uri"] = "dir:" \o Get(in.flags, "directory")
  BY <1>6, <1>7, <1>9, <1>10, <1>11, <1>13
<1>14. ASSUME Asks("docker-image")
       PROVE  "system.uri" \in DOMAIN flags' /\ flags'["system.uri"] = "docker:" \o Get(in.flags, "docker-image")
  BY <1>6, <1>7, <1>9, <1>10, <1>11, <1>14
<1>15. Asks("force-efi") => "firmware" \in DOMAIN flags' /\ flags'["firmware"] = "efi"
  BY <1>6, <1>7, <1>9
<1>16. Asks("force-gpt") => "part-table" \in DOMAIN flags' /\ flags'["part-table"] = "gpt"
  BY <1>6, <1>7, <1>9
<1> QED
  BY <1>1, <1>2, <1>12, <1>13, <1>14, <1>15, <1>16 DEF Adapted, Set

LEMMA AdaptFlagsKeeps ==
  ASSUME IInv, AdaptFlags
  PROVE  IInv'
<1>1. /\ pc = "adapt" /\ ~ISO /\ InInv /\ flags = in.flags /\ pc' = "spec"
      /\ ~(Asks("directory") /\ Asks("docker-image"))
      /\ UNCHANGED <<in, vp, left, cfg, spec>>
  BY DEF AdaptFlags, Goto, IInv, FlagsInv, StageInv
<1>2. InInv' /\ (ISO' <=> ISO)
  BY <1>1, InputSame
<1>3. StageInv'
  BY <1>1, <1>2 DEF StageInv, Merged
<1>4. MergeInv'
  BY <1>1, MergeFrame DEF IInv, Reading, Merged
<1>5. FlagsInv'
  BY <1>1, <1>2, Translated DEF FlagsInv, Reading
<1>6. RunInv'
  BY <1>1, RunFrame DEF IInv
<1>7. SpecInv'
  BY <1>1, SpecFrame DEF IInv, Known
<1> QED
  BY <1>2, <1>3, <1>4, <1>5, <1>6, <1>7 DEF IInv
-----------------------------------------------------------------------------
(* The spec.                                                               *)

\* What decoding gives of the layers: the topmost value, unless it is no source.
LEMMA DecodedIs ==
  ASSUME NEW eff, NEW k
  PROVE  /\ k \in DOMAIN eff /\ eff[k] \notin Undecodable => Decoded(eff, k) = eff[k]
         /\ k \notin DOMAIN eff => Decoded(eff, k) = Default(k)
         /\ k \in DOMAIN eff /\ k \notin SourceKeys => Decoded(eff, k) = eff[k]
BY DEF Decoded

LEMMA EffectiveIs ==
  ASSUME NEW section
  PROVE  \A k : /\ k \in DOMAIN flags =>
                     k \in DOMAIN Effective(section) /\ Effective(section)[k] = flags[k]
                /\ k \notin DOMAIN flags =>
                     LET lower == Over(Only(in.env, EnvKeys(section)), vp)
                     IN  /\ k \in DOMAIN Effective(section) <=> k \in DOMAIN lower
                         /\ k \in DOMAIN lower => Effective(section)[k] = lower[k]
<1>1. PICK lower, eff : /\ lower = Over(Only(in.env, EnvKeys(section)), vp)
                        /\ eff = Over(flags, lower) /\ eff = Effective(section)
  BY DEF Effective
<1>2. eff = Over(flags, lower)
  BY <1>1
<1>3. ASSUME NEW k
      PROVE  /\ k \in DOMAIN eff <=> k \in DOMAIN flags \/ k \in DOMAIN lower
             /\ k \in DOMAIN flags => eff[k] = flags[k]
             /\ k \in DOMAIN lower /\ k \notin DOMAIN flags => eff[k] = lower[k]
  BY <1>2, OverIs
<1> QED
  BY <1>1, <1>3

\* The values of a spec that is decoded, for the keys that were not translated.
LEMMA DecodedTopmost ==
  ASSUME InInv, Adapted, Plain, Tops(vp, FilesRead, Len(in.dropins) + 2),
         NEW k \in SpecKeys \ Replaced, NEW eff, eff = Effective(in.command)
  PROVE  Topmost(in.command, k, Default(k)) \in Undecodable \cup {Decoded(eff, k)}
<1>1. PICK lower, f : /\ lower = Over(Only(in.env, EnvKeys(in.command)), vp)
                      /\ f = Over(in.flags, lower)
  OBVIOUS
<1>2. Tops(f, Layers(in.command), Len(in.dropins) + 4)
  BY <1>1, EffectiveTops
<1>3. Topmost(in.command, k, Default(k)) = IF k \in DOMAIN f THEN f[k] ELSE Default(k)
  BY <1>2, TopmostIs
<1>4. /\ k \in DOMAIN f <=> k \in DOMAIN in.flags \/ k \in DOMAIN lower
      /\ k \in DOMAIN in.flags => f[k] = in.flags[k]
      /\ k \in DOMAIN lower /\ k \notin DOMAIN in.flags => f[k] = lower[k]
  BY <1>1, OverIs
<1>5. /\ k \in DOMAIN flags <=> k \in DOMAIN in.flags
      /\ k \in DOMAIN in.flags => flags[k] = in.flags[k]
  BY DEF Adapted
<1>6. /\ k \in DOMAIN flags => k \in DOMAIN eff /\ eff[k] = flags[k]
      /\ k \notin DOMAIN flags =>
           /\ k \in DOMAIN eff <=> k \in DOMAIN lower
           /\ k \in DOMAIN lower => eff[k] = lower[k]
  BY <1>1, EffectiveIs
<1>7. /\ k \in DOMAIN eff <=> k \in DOMAIN f
      /\ k \in DOMAIN f => eff[k] = f[k]
  BY <1>4, <1>5, <1>6
<1>8. CASE k \in DOMAIN f
  BY <1>3, <1>7, <1>8, DecodedIs
<1>9. CASE k \notin DOMAIN f
  BY <1>3, <1>7, <1>9, DecodedIs
<1> QED
  BY <1>8, <1>9

\* And those that were.
LEMMA DecodedAsked ==
  ASSUME Adapted, NEW eff, eff = Effective(in.command)
  PROVE  /\ Asks("directory") =>
              "dir:" \o Get(in.flags, "directory") \in Undecodable \cup {Decoded(eff, "system.uri")}
         /\ Asks("docker-image") =>
              "docker:" \o Get(in.flags, "docker-image") \in Undecodable \cup {Decoded(eff, "system.uri")}
         /\ Asks("force-efi") => Decoded(eff, "firmware") = "efi"
         /\ Asks("force-gpt") => Decoded(eff, "part-table") = "gpt"
<1>1. ASSUME NEW k, NEW v, Set(k, v)
      PROVE  v \in Undecodable \cup {Decoded(eff, k)} /\ (k \notin SourceKeys => Decoded(eff, k) = v)
  <2>1. k \in DOMAIN eff /\ eff[k] = v
    BY <1>1, EffectiveIs DEF Set
  <2> QED
    BY <2>1, DecodedIs
<1>2. "firmware" \notin SourceKeys /\ "part-table" \notin SourceKeys
  BY DEF SourceKeys
<1> QED
  BY <1>1, <1>2 DEF Adapted

\* The sum of the partitions that grow is a number: neither flags nor environment set it.
LEMMA GrowingIs ==
  ASSUME InInv, Adapted, Growing(vp)
  PROVE  Growing(Effective(in.command))
<1>1. PICK lower, eff : /\ lower = Over(Only(in.env, EnvKeys(in.command)), vp)
                        /\ eff = Effective(in.command)
  OBVIOUS
<1>2. "growing" \notin DOMAIN in.flags
  BY DEF InInv, Commands, FlagsOf, SourceFlags, CosignFlags, Tree, OverlayFlag
<1>3. "growing" \notin DOMAIN flags
  BY <1>2 DEF Adapted, Replaced, Replaceable
<1>4. "growing" \notin DOMAIN Only(in.env, EnvKeys(in.command))
  BY DEF Only, EnvKeys, SourceKeys
<1>5. Growing(lower)
  BY <1>1, <1>4, OverIs DEF Growing
<1>6. /\ "growing" \in DOMAIN eff <=> "growing" \in DOMAIN lower
      /\ "growing" \in DOMAIN lower => eff["growing"] = lower["growing"]
  BY <1>1, <1>3, EffectiveIs
<1> QED
  BY <1>1, <1>5, <1>6 DEF Growing

LEMMA InsaneSame ==
  ASSUME UNCHANGED in, NEW s, spec' = s
  PROVE  Insane(spec)' <=> Insane(s)
BY DEF Insane

LEMMA ReadSpecKeeps ==
  ASSUME IInv, ReadSpec
  PROVE  IInv'
<1>1. /\ pc = "spec" /\ ~ISO /\ InInv /\ Adapted /\ Growing(vp) /\ in.command \in Commands
      /\ UNCHANGED <<in, flags, vp, left, cfg>>
      /\ Plain => Tops(vp, FilesRead, Len(in.dropins) + 2)
  BY DEF ReadSpec, IInv, FlagsInv, MergeInv, Merged, Growing, InInv
<1>2. PICK eff : eff = Effective(in.command)
  OBVIOUS
<1>3. PICK s : s = [values |-> [k \in SpecKeys |-> Decoded(eff, k)],
                    parts |-> [p \in Partitions |-> DecodedPart(eff, p)],
                    growing |-> IF "growing" \in DOMAIN eff THEN eff["growing"] ELSE 0,
                    sources |-> [t \in Tree |-> <<>>],
                    found |-> [p \in Looked |-> IF in.command = "install" THEN NoPart ELSE Lookup(p)]]
  OBVIOUS
<1>4. /\ spec' = IF NewSpecFails THEN spec ELSE s
      /\ IF NewSpecFails \/ Insane(s) THEN Refuse("ReadingSpecConfig") ELSE Goto("arguments")
  BY <1>2, <1>3 DEF ReadSpec
<1>5. \/ pc' = "refused" /\ spec' \in {spec, s}
      \/ pc' = "arguments" /\ spec' = s /\ ~NewSpecFails /\ ~Insane(s)
  BY <1>4 DEF Refuse, Goto
<1>6. /\ InInv' /\ (ISO' <=> ISO) /\ (Plain' <=> Plain) /\ (NewSpecFails' <=> NewSpecFails)
      /\ Replaced' = Replaced
      /\ \A x, k, d : Topmost(x, k, d)' = Topmost(x, k, d)
      /\ \A p : Lookup(p)' = Lookup(p)
      /\ \A k : Default(k)' = Default(k)
      /\ \A f : Asks(f)' <=> Asks(f)
  BY <1>1, InputSame
<1>7. StageInv'
  BY <1>1, <1>5, <1>6 DEF StageInv, Known
<1>8. MergeInv'
  BY <1>1, <1>5, MergeFrame DEF IInv, Reading, Merged
<1>9. FlagsInv'
  BY <1>1, <1>5, FlagsFrame DEF IInv, Reading
<1>10. RunInv'
  BY <1>1, RunFrame DEF IInv
<1>11. Shaped'
  <2>1. Shaped
    BY DEF IInv, SpecInv
  <2>2. /\ s = [values |-> s.values, parts |-> s.parts, growing |-> s.growing,
                sources |-> s.sources, found |-> s.found]
        /\ DOMAIN s.values = SpecKeys /\ DOMAIN s.sources = Tree
    BY <1>3
  <2>3. spec' \in {spec, s}
    BY <1>5
  <2> QED
    BY <2>1, <2>2, <2>3 DEF Shaped
<1>12. CASE pc' = "refused"
  BY <1>1, <1>6, <1>7, <1>8, <1>9, <1>10, <1>11, <1>12 DEF IInv, SpecInv, Known
<1>13. CASE pc' = "arguments" /\ spec' = s /\ ~NewSpecFails /\ ~Insane(s)
  <2>1. \A k \in SpecKeys : spec'.values[k] = Decoded(eff, k)
    BY <1>3, <1>13
  <2>2. {"system.uri", "firmware", "part-table"} \subseteq SpecKeys
    BY DEF SpecKeys, SourceKeys
  <2>3. ValuesInv'
    <3>1. ASSUME Plain, NEW k \in SpecKeys \ (Replaced \cup {"target"})
          PROVE  Topmost(in.command, k, Default(k))' \in Undecodable \cup {spec'.values[k]}
      <4>1. Topmost(in.command, k, Default(k)) \in Undecodable \cup {Decoded(eff, k)}
        BY <1>1, <1>2, <3>1, DecodedTopmost
      <4>2. Topmost(in.command, k, Default(k))' = Topmost(in.command, k, Default(k))
        BY <1>1, <1>6
      <4> QED
        BY <2>1, <4>1, <4>2
    <3>2. /\ Asks("directory") =>
               "dir:" \o Get(in.flags, "directory") \in Undecodable \cup {spec'.values["system.uri"]}
          /\ Asks("docker-image") =>
               "docker:" \o Get(in.flags, "docker-image") \in Undecodable \cup {spec'.values["system.uri"]}
          /\ Asks("force-efi") => spec'.values["firmware"] = "efi"
          /\ Asks("force-gpt") => spec'.values["part-table"] = "gpt"
      BY <1>1, <1>2, <2>1, <2>2, DecodedAsked
    <3> QED
      BY <1>1, <1>6, <3>1, <3>2 DEF ValuesInv, Asked, Asks
  <2>4. SaneInv'
    <3>1. ~Insane(spec)'
      BY <1>1, <1>13, InsaneSame
    <3>2. spec'.growing \in Nat
      BY <1>1, <1>2, <1>3, <1>13, GrowingIs DEF Growing
    <3>3. in.command # "install" => \A p \in Looked : spec'.found[p] = Lookup(p)
      BY <1>3, <1>13
    <3> QED
      BY <1>1, <1>6, <1>13, <3>1, <3>2, <3>3 DEF SaneInv
  <2> QED
    BY <1>1, <1>6, <1>7, <1>8, <1>9, <1>10, <1>11, <2>3, <2>4 DEF IInv, SpecInv
<1> QED
  BY <1>5, <1>12, <1>13

\* A build-iso has no flag, no environment and one file that says what its root is.
LEMMA RootIs ==
  ASSUME InInv, ISO, flags = in.flags, vp = Over(in.config.values, <<>>)
  PROVE  Get(Effective("iso"), "rootfs") = Get(in.config.values, "rootfs")
<1>1. PICK lower, eff : lower = Over(Only(in.env, EnvKeys("iso")), vp) /\ eff = Effective("iso")
  OBVIOUS
<1>2. "rootfs" \notin DOMAIN flags
  BY DEF InInv, ISO, FlagsOf, CosignFlags, Tree, OverlayFlag
<1>3. DOMAIN Only(in.env, EnvKeys("iso")) = {}
  BY DEF Only, EnvKeys
<1>4. /\ "rootfs" \in DOMAIN eff <=> "rootfs" \in DOMAIN lower
      /\ "rootfs" \in DOMAIN lower => eff["rootfs"] = lower["rootfs"]
  BY <1>1, <1>2, EffectiveIs
<1>5. /\ "rootfs" \in DOMAIN lower <=> "rootfs" \in DOMAIN vp
      /\ "rootfs" \in DOMAIN vp => lower["rootfs"] = vp["rootfs"]
  BY <1>1, <1>3, OverIs
<1>6. DOMAIN <<>> = {}
  OBVIOUS
<1>7. /\ "rootfs" \in DOMAIN vp <=> "rootfs" \in DOMAIN in.config.values
      /\ "rootfs" \in DOMAIN in.config.values => vp["rootfs"] = in.config.values["rootfs"]
  BY <1>6, OverIs
<1> QED
  BY <1>1, <1>4, <1>5, <1>7 DEF Get

LEMMA ReadBuildISOKeeps ==
  ASSUME IInv, ReadBuildISO
  PROVE  IInv'
<1>1. /\ pc = "spec" /\ ISO /\ InInv /\ flags = in.flags /\ vp = Over(in.config.values, <<>>)
      /\ UNCHANGED <<in, flags, vp, left, cfg>>
  BY DEF ReadBuildISO, IInv, FlagsInv, MergeInv, Merged
<1>2. PICK source, sources : /\ source = Get(in.config.values, "rootfs")
                             /\ sources = [EmptySpec.sources EXCEPT !["rootfs"] =
                                             IF source = None THEN <<>> ELSE <<source>>]
  OBVIOUS
<1>3. source = Get(Effective("iso"), "rootfs")
  BY <1>1, <1>2, RootIs
<1>4. /\ spec' = [EmptySpec EXCEPT !.sources = sources]
      /\ IF source \in Undecodable THEN Refuse("ReadingSpecConfig") ELSE Goto("arguments")
  BY <1>2, <1>3 DEF ReadBuildISO
<1>5. pc' = "refused" \/ (pc' = "arguments" /\ source \notin Undecodable)
  BY <1>4 DEF Refuse, Goto
<1>6. /\ DOMAIN sources = Tree /\ \A t \in Tree \ {"rootfs"} : sources[t] = <<>>
      /\ sources["rootfs"] = IF source = None THEN <<>> ELSE <<source>>
  BY <1>2 DEF EmptySpec, Tree
<1>7. PICK v, p, g, f : /\ spec' = [values |-> v, parts |-> p, growing |-> g, sources |-> sources, found |-> f]
                        /\ DOMAIN v = SpecKeys
  <2>1. PICK v, p, g, t, f :
          /\ EmptySpec = [values |-> v, parts |-> p, growing |-> g, sources |-> t, found |-> f]
          /\ v = [k \in SpecKeys |-> None]
    BY DEF EmptySpec
  <2>2. spec' = [values |-> v, parts |-> p, growing |-> g, sources |-> sources, found |-> f]
    BY <1>4, <2>1
  <2>3. DOMAIN v = SpecKeys
    BY <2>1
  <2> QED
    BY <2>2, <2>3
<1>8. InInv' /\ (ISO' <=> ISO) /\ AskedRoot' = AskedRoot
  BY <1>1, InputSame
<1>9. StageInv'
  BY <1>1, <1>5, <1>8 DEF StageInv, Known
<1>10. MergeInv'
  BY <1>1, <1>5, MergeFrame DEF IInv, Reading, Merged
<1>11. FlagsInv'
  BY <1>1, <1>5, FlagsFrame DEF IInv, Reading
<1>12. RunInv'
  BY <1>1, RunFrame DEF IInv
<1>13. Shaped'
  BY <1>6, <1>7 DEF Shaped
<1>14. SourcesInv'
  BY <1>1, <1>2, <1>5, <1>6, <1>7 DEF SourcesInv
<1> QED
  BY <1>1, <1>8, <1>9, <1>10, <1>11, <1>12, <1>13, <1>14 DEF IInv, SpecInv

\* A spec that differs in its target only.
LEMMA TakeTargetKeeps ==
  ASSUME IInv, TakeTarget
  PROVE  IInv'
<1>1. /\ pc = "arguments" /\ ~ISO /\ InInv /\ Shaped /\ ValuesInv /\ SaneInv
      /\ UNCHANGED <<in, flags, vp, left, cfg>>
  BY DEF TakeTarget, IInv, SpecInv, Known
<1>2. PICK target : target = IF in.command = "install" /\ in.arg # None THEN in.arg ELSE spec.values["target"]
  OBVIOUS
<1>3. /\ spec' = [spec EXCEPT !.values["target"] = target]
      /\ IF in.command = "install" /\ target = None THEN Refuse("InvalidTarget") ELSE Goto("action")
  BY <1>2 DEF TakeTarget
<1>4. pc' = "refused" \/ (pc' = "action" /\ (in.command = "install" => target # None))
  BY <1>3 DEF Refuse, Goto
<1>5. PICK v, p, g, t, f :
        /\ spec = [values |-> v, parts |-> p, growing |-> g, sources |-> t, found |-> f]
        /\ DOMAIN v = SpecKeys /\ DOMAIN t = Tree
  BY <1>1 DEF Shaped
<1>6. PICK w : w = [v EXCEPT !["target"] = target]
  OBVIOUS
<1>7. spec' = [values |-> w, parts |-> p, growing |-> g, sources |-> t, found |-> f]
  BY <1>3, <1>5, <1>6
<1>8. /\ DOMAIN w = SpecKeys /\ w["target"] = target
      /\ \A k \in SpecKeys : k # "target" => w[k] = v[k]
  BY <1>5, <1>6 DEF SpecKeys
<1>9. /\ InInv' /\ (ISO' <=> ISO) /\ (Plain' <=> Plain) /\ (NewSpecFails' <=> NewSpecFails)
      /\ Replaced' = Replaced
      /\ \A x, k, d : Topmost(x, k, d)' = Topmost(x, k, d)
      /\ \A q : Lookup(q)' = Lookup(q)
      /\ \A k : Default(k)' = Default(k)
  BY <1>1, InputSame
<1>10. Shaped'
  BY <1>5, <1>7, <1>8 DEF Shaped
<1>11. ValuesInv'
  <2>1. \A k \in SpecKeys \ {"target"} : spec'.values[k] = spec.values[k]
    BY <1>5, <1>7, <1>8
  <2>2. {"system.uri", "firmware", "part-table"} \subseteq SpecKeys \ {"target"}
    BY DEF SpecKeys, SourceKeys
  <2>3. ASSUME Plain, NEW k \in SpecKeys \ (Replaced \cup {"target"})
        PROVE  Topmost(in.command, k, Default(k))' \in Undecodable \cup {spec'.values[k]}
    <3>1. Topmost(in.command, k, Default(k)) \in Undecodable \cup {spec.values[k]}
      BY <1>1, <2>3 DEF ValuesInv
    <3>2. Topmost(in.command, k, Default(k))' = Topmost(in.command, k, Default(k))
      BY <1>1, <1>9
    <3> QED
      BY <2>1, <3>1, <3>2
  <2>4. /\ Asked("system.uri", "directory", "dir:" \o Get(in.flags, "directory"))'
        /\ Asked("system.uri", "docker-image", "docker:" \o Get(in.flags, "docker-image"))'
        /\ Asked("firmware", "force-efi", "efi")' /\ Asked("part-table", "force-gpt", "gpt")'
    BY <1>1, <2>1, <2>2 DEF ValuesInv, Asked
  <2> QED
    BY <1>9, <2>3, <2>4 DEF ValuesInv
<1>12. SaneInv'
  <2>1. ~Insane(spec)'
    <3>1. \A k \in {"system.uri", "iso", "recovery", "recovery-system.uri"} : w[k] = v[k]
      BY <1>8 DEF SpecKeys, SourceKeys
    <3>2. ~Insane(spec)
      BY <1>1 DEF SaneInv
    <3> QED
      BY <1>1, <1>5, <1>7, <3>1, <3>2 DEF Insane
  <2>2. /\ spec'.growing \in Nat
        /\ in.command # "install" => \A q \in Looked : spec'.found[q] = Lookup(q)
    BY <1>1, <1>5, <1>7 DEF SaneInv
  <2>3. pc' = "action" /\ in.command = "install" =>
          spec'.values["target"] # None /\ (in.arg # None => spec'.values["target"] = in.arg)
    BY <1>2, <1>4, <1>7, <1>8
  <2> QED
    BY <1>1, <1>9, <2>1, <2>2, <2>3 DEF SaneInv
<1>13. StageInv'
  BY <1>1, <1>4, <1>9 DEF StageInv, Known
<1>14. MergeInv'
  BY <1>1, <1>4, MergeFrame DEF IInv, Reading, Merged
<1>15. FlagsInv'
  BY <1>1, <1>4, FlagsFrame DEF IInv, Reading
<1>16. RunInv'
  BY <1>1, RunFrame DEF IInv, Known
<1> QED
  BY <1>1, <1>9, <1>10, <1>11, <1>12, <1>13, <1>14, <1>15, <1>16 DEF IInv, SpecInv

\* The argument of build-iso goes over the root of the manifest.
LEMMA TakeSourceKeeps ==
  ASSUME IInv, TakeSource
  PROVE  IInv'
<1>1. /\ pc = "arguments" /\ ISO /\ InInv /\ Shaped /\ SourcesInv
      /\ UNCHANGED <<in, flags, vp, left, cfg>>
      /\ spec' = IF in.arg = None \/ in.arg \in Undecodable THEN spec
                 ELSE [spec EXCEPT !.sources["rootfs"] = <<in.arg>>]
  BY DEF TakeSource, IInv, SpecInv
<1>2. PICK v, p, g, t, f :
        /\ spec = [values |-> v, parts |-> p, growing |-> g, sources |-> t, found |-> f]
        /\ DOMAIN v = SpecKeys /\ DOMAIN t = Tree
  BY <1>1 DEF Shaped
<1>3. PICK source : source = Get(in.config.values, "rootfs")
  OBVIOUS
<1>4. /\ source \notin Undecodable /\ t["rootfs"] = IF source = None THEN <<>> ELSE <<source>>
      /\ \A x \in Tree \ {"rootfs"} : t[x] = <<>>
  BY <1>1, <1>2, <1>3 DEF SourcesInv
<1>5. AskedRoot = IF in.arg # None THEN in.arg ELSE source
  BY <1>3 DEF AskedRoot
<1>6. \/ pc' = "refused"
      \/ in.arg \notin Undecodable /\ ~(in.arg = None /\ t["rootfs"] = <<>>) /\ pc' = "overlays"
  <2>1. /\ in.arg \in Undecodable => pc' = "refused" \/ (in.arg = None /\ pc' = "refused")
        /\ in.arg \notin Undecodable /\ in.arg = None /\ t["rootfs"] = <<>> => pc' = "refused"
        /\ in.arg \notin Undecodable /\ ~(in.arg = None /\ t["rootfs"] = <<>>) => pc' = "overlays"
    BY <1>2 DEF TakeSource, Refuse, Goto
  <2> QED
    BY <2>1
<1>7. PICK u : u = IF in.arg = None \/ in.arg \in Undecodable THEN t ELSE [t EXCEPT !["rootfs"] = <<in.arg>>]
  OBVIOUS
<1>8. spec' = [values |-> v, parts |-> p, growing |-> g, sources |-> u, found |-> f]
  BY <1>1, <1>2, <1>7
<1>9. /\ DOMAIN u = Tree /\ \A x \in Tree \ {"rootfs"} : u[x] = <<>>
      /\ u["rootfs"] = IF in.arg = None \/ in.arg \in Undecodable THEN t["rootfs"] ELSE <<in.arg>>
  BY <1>2, <1>4, <1>7 DEF Tree
<1>10. InInv' /\ (ISO' <=> ISO) /\ AskedRoot' = AskedRoot
  BY <1>1, InputSame
<1>11. Shaped'
  BY <1>2, <1>8, <1>9 DEF Shaped
<1>12. SourcesInv'
  <2>1. pc' = "overlays" => AskedRoot # None /\ AskedRoot \notin Undecodable /\ u["rootfs"] = <<AskedRoot>>
    BY <1>4, <1>5, <1>6, <1>9
  <2> QED
    BY <1>6, <1>8, <1>9, <1>10, <2>1 DEF SourcesInv
<1>13. StageInv'
  BY <1>1, <1>6, <1>10 DEF StageInv, Known
<1>14. MergeInv'
  BY <1>1, <1>6, MergeFrame DEF IInv, Reading, Merged
<1>15. FlagsInv'
  BY <1>1, <1>6, FlagsFrame DEF IInv, Reading
<1>16. RunInv'
  BY <1>1, RunFrame DEF IInv, Known
<1> QED
  BY <1>1, <1>10, <1>11, <1>12, <1>13, <1>14, <1>15, <1>16 DEF IInv, SpecInv

LEMMA Few ==
  ASSUME NEW a, NEW b
  PROVE  /\ Append(<<>>, a) = <<a>> /\ Append(<<a>>, b) = <<a>> \o <<b>>
         /\ <<a>> \o <<>> = <<a>>
         /\ Range(<<>>) = {} /\ Range(<<a>>) = {a} /\ Range(<<a>> \o <<b>>) = {a, b}
<1>1. Append(<<>>, a) = <<a>> /\ Append(<<a>>, b) = <<a>> \o <<b>> /\ <<a>> \o <<>> = <<a>>
  OBVIOUS
<1>2. Range(<<>>) = {} /\ Range(<<a>>) = {a}
  BY DEF Range
<1>3. PICK s : s = <<a>> \o <<b>>
  OBVIOUS
<1>4. DOMAIN s = {1, 2} /\ s[1] = a /\ s[2] = b
  BY <1>3
<1>5. Range(s) = {a, b}
  BY <1>4 DEF Range
<1> QED
  BY <1>1, <1>2, <1>3, <1>5

\* The overlays go over what there is of each tree.
LEMMA TakeOverlaysKeeps ==
  ASSUME IInv, TakeOverlays
  PROVE  IInv'
<1>1. /\ pc = "overlays" /\ ISO /\ InInv /\ Shaped /\ SourcesInv /\ flags = in.flags
      /\ UNCHANGED <<in, flags, vp, left, cfg>>
  BY DEF TakeOverlays, IInv, SpecInv, StageInv, FlagsInv
<1>2. PICK v, p, g, t, f :
        /\ spec = [values |-> v, parts |-> p, growing |-> g, sources |-> t, found |-> f]
        /\ DOMAIN v = SpecKeys /\ DOMAIN t = Tree
  BY <1>1 DEF Shaped
<1>3. PICK given : given = {x \in Tree : Given(OverlayFlag[x])}
  OBVIOUS
<1>4. PICK u : u = [x \in Tree |-> IF x \in given THEN Append(t[x], flags[OverlayFlag[x]]) ELSE t[x]]
  OBVIOUS
<1>5. /\ spec' = [spec EXCEPT !.sources = u]
      /\ IF \A x \in given : flags[OverlayFlag[x]] \in Paths THEN Goto("action") ELSE Refuse("StatFile")
  BY <1>2, <1>3, <1>4 DEF TakeOverlays
<1>6. spec' = [values |-> v, parts |-> p, growing |-> g, sources |-> u, found |-> f]
  BY <1>2, <1>5
<1>7. \/ pc' = "refused"
      \/ pc' = "action" /\ \A x \in given : flags[OverlayFlag[x]] \in Paths
  BY <1>5 DEF Goto, Refuse
<1>8. PICK asked, over : asked = AskedRoot /\ over = Get(in.flags, "overlay-rootfs")
  OBVIOUS
<1>9. asked # None /\ asked \notin Undecodable /\ t["rootfs"] = <<asked>>
      /\ \A x \in Tree \ {"rootfs"} : t[x] = <<>>
  BY <1>1, <1>2, <1>8 DEF SourcesInv
<1>10. /\ "rootfs" \in Tree /\ DOMAIN u = Tree
       /\ "rootfs" \in given <=> over # None
       /\ "rootfs" \in given => flags["overlay-rootfs"] = over
  BY <1>1, <1>3, <1>4, <1>8 DEF Tree, OverlayFlag, Given, Get
<1>11. u["rootfs"] = <<asked>> \o (IF over = None THEN <<>> ELSE <<over>>)
  <2>1. CASE over = None
    BY <1>4, <1>9, <1>10, <2>1, Few
  <2>2. CASE over # None
    <3>1. u["rootfs"] = Append(<<asked>>, over)
      BY <1>4, <1>9, <1>10, <2>2 DEF OverlayFlag
    <3> QED
      BY <2>2, <3>1, Few
  <2> QED
    BY <2>1, <2>2
<1>12. ASSUME pc' = "action", NEW x \in Tree
       PROVE  Range(u[x]) \ {asked} \subseteq Paths
  <2>1. CASE x \notin given
    <3>1. u[x] = <<>> \/ u[x] = <<asked>>
      BY <1>4, <1>9, <2>1
    <3> QED
      BY <3>1, Few
  <2>2. CASE x \in given
    <3>1. PICK path : path = flags[OverlayFlag[x]] /\ path \in Paths
      BY <1>7, <1>12, <2>2
    <3>2. u[x] = Append(<<>>, path) \/ u[x] = Append(<<asked>>, path)
      BY <1>4, <1>9, <2>2, <3>1
    <3>3. Range(u[x]) \subseteq {asked, path}
      <4>1. Append(<<>>, path) = <<path>> /\ Append(<<asked>>, path) = <<asked>> \o <<path>>
        BY Few
      <4>2. Range(<<path>>) = {path} /\ Range(<<asked>> \o <<path>>) = {asked, path}
        BY Few
      <4>3. CASE u[x] = Append(<<>>, path)
        BY <4>1, <4>2, <4>3
      <4>4. CASE u[x] = Append(<<asked>>, path)
        BY <4>1, <4>2, <4>4
      <4> QED
        BY <3>2, <4>3, <4>4
    <3> QED
      BY <3>1, <3>3
  <2> QED
    BY <2>1, <2>2
<1>13. InInv' /\ (ISO' <=> ISO) /\ AskedRoot' = AskedRoot
  BY <1>1, InputSame
<1>14. Shaped'
  BY <1>2, <1>6, <1>10 DEF Shaped
<1>15. SourcesInv'
  BY <1>1, <1>6, <1>7, <1>8, <1>9, <1>11, <1>12, <1>13 DEF SourcesInv
<1>16. StageInv'
  BY <1>1, <1>7, <1>13 DEF StageInv, Known
<1>17. MergeInv'
  BY <1>1, <1>7, MergeFrame DEF IInv, Reading, Merged
<1>18. FlagsInv'
  BY <1>1, <1>7, FlagsFrame DEF IInv, Reading
<1>19. RunInv'
  BY <1>1, RunFrame DEF IInv, Known
<1> QED
  BY <1>1, <1>13, <1>14, <1>15, <1>16, <1>17, <1>18, <1>19 DEF IInv, SpecInv
-----------------------------------------------------------------------------
(* The invariant holds.                                                    *)

LEMMA Initially ==
  ASSUME Init
  PROVE  IInv
<1>1. PICK c \in Commands :
        in \in [command : {c}, host : Hosts[c], osRelease : Releases, config : Files,
                dropins : Dropins, env : Environments,
                flags : {f \in FlagSets : DOMAIN f \subseteq FlagsOf(c)},
                arg : IF c \in {"reset", "upgrade"} THEN {None} ELSE Arguments]
  BY DEF Init
<1>2. /\ flags = in.flags /\ vp = <<>> /\ left = in.dropins
      /\ cfg = [k \in RunKeys |-> None] /\ spec = EmptySpec
      /\ pc = (IF in.command = "build-iso" THEN "config" ELSE "os-release") /\ code = "none"
  BY DEF Init
<1>3. InInv
  BY <1>1 DEF InInv
<1>4. StageInv
  BY <1>2 DEF StageInv, Reading, ISO
<1>5. MergeInv
  <2>1. DOMAIN <<>> = {}
    OBVIOUS
  <2> QED
    BY <1>2, <2>1 DEF MergeInv, Merged, ISO
<1>6. FlagsInv
  BY <1>2 DEF FlagsInv, ISO
<1>7. RunInv
  BY <1>2 DEF RunInv, Known
<1>8. SpecInv
  <2>1. Shaped
    BY <1>2 DEF Shaped, EmptySpec
  <2> QED
    BY <1>2, <2>1 DEF SpecInv, SourcesInv, Known
<1> QED
  BY <1>3, <1>4, <1>5, <1>6, <1>7, <1>8 DEF IInv

LEMMA Stutters ==
  ASSUME IInv, UNCHANGED vars
  PROVE  IInv'
<1>1. UNCHANGED <<in, flags, vp, left, cfg, spec, pc>>
  BY DEF vars
<1>2. /\ InInv' /\ (ISO' <=> ISO) /\ (Plain' <=> Plain) /\ (NewSpecFails' <=> NewSpecFails)
      /\ Replaced' = Replaced /\ FilesRead' = FilesRead /\ AskedRoot' = AskedRoot
      /\ \A x, k, d : Topmost(x, k, d)' = Topmost(x, k, d)
      /\ \A q : Lookup(q)' = Lookup(q)
      /\ \A k : Default(k)' = Default(k)
      /\ \A f : Asks(f)' <=> Asks(f)
  BY <1>1, InputSame DEF IInv
<1>3. StageInv'
  BY <1>1, <1>2 DEF StageInv, IInv
<1>4. MergeInv'
  BY <1>1, <1>2 DEF MergeInv, IInv, Remaining
<1>5. FlagsInv'
  BY <1>1, <1>2 DEF FlagsInv, IInv, Adapted, Set
<1>6. RunInv'
  BY <1>1, RunFrame DEF IInv
<1>7. Shaped' /\ (ISO => SourcesInv')
  BY <1>1, <1>2 DEF Shaped, SourcesInv, IInv, SpecInv
<1>8. ASSUME pc \in Known, ~ISO PROVE ValuesInv' /\ SaneInv'
  <2>1. ValuesInv /\ SaneInv
    BY <1>8 DEF IInv, SpecInv
  <2>2. ValuesInv'
    BY <1>1, <1>2, <2>1 DEF ValuesInv, Asked
  <2>3. Insane(spec)' <=> Insane(spec)
    BY <1>1 DEF Insane
  <2>4. SaneInv'
    BY <1>1, <1>2, <2>1, <2>3 DEF SaneInv
  <2> QED
    BY <2>2, <2>4
<1> QED
  BY <1>1, <1>2, <1>3, <1>4, <1>5, <1>6, <1>7, <1>8 DEF IInv, SpecInv

LEMMA Inductive ==
  ASSUME IInv, [Next]_vars
  PROVE  IInv'
BY Stutters, ReadOSReleaseKeeps, ReadConfigKeeps, ReadDropinKeeps, DropinsReadKeeps, DecodeKeeps,
   ValidateFlagsKeeps, AdaptFlagsKeeps, ReadSpecKeeps, ReadBuildISOKeeps, TakeTargetKeeps,
   TakeSourceKeeps, TakeOverlaysKeeps DEF Next

LEMMA Always == Spec => []IInv
<1>1. Init => IInv
  BY Initially
<1>2. IInv /\ [Next]_vars => IInv'
  BY Inductive
<1> QED
  BY <1>1, <1>2, PTL DEF Spec
-----------------------------------------------------------------------------
(* What a command starts with.                                             *)

LEMMA Starts ==
  ASSUME IInv, pc = "action"
  PROVE  HighestLayerWins
<1>1. InInv /\ RunInv /\ (~ISO => ValuesInv)
  BY DEF IInv, SpecInv, Known
<1>2. ISO => /\ "directory" \notin DOMAIN in.flags /\ "docker-image" \notin DOMAIN in.flags
             /\ "force-efi" \notin DOMAIN in.flags /\ "force-gpt" \notin DOMAIN in.flags
  BY <1>1 DEF InInv, ISO, FlagsOf, CosignFlags, Tree, OverlayFlag
<1>3. /\ Asked("system.uri", "directory", "dir:" \o Get(in.flags, "directory"))
      /\ Asked("system.uri", "docker-image", "docker:" \o Get(in.flags, "docker-image"))
      /\ Asked("firmware", "force-efi", "efi") /\ Asked("part-table", "force-gpt", "gpt")
  <2>1. CASE ISO
    BY <1>2, <2>1 DEF Asked, Get
  <2>2. CASE ~ISO
    BY <1>1, <2>2 DEF ValuesInv
  <2> QED
    BY <2>1, <2>2
<1>4. ASSUME Plain, ~ISO
      PROVE  /\ \A k \in RunKeys : cfg[k] = Topmost("run", k, None)
             /\ \A k \in SpecKeys \ (Replaced \cup {"target"}) :
                  LET v == Topmost(in.command, k, Default(k)) IN v \in Undecodable \cup {spec.values[k]}
  BY <1>1, <1>4 DEF RunInv, ValuesInv, Known
<1> QED
  BY <1>3, <1>4 DEF HighestLayerWins, Plain

\* Pick returns one of the places, and one that is mounted if there is one.
LEMMA PickIs ==
  ASSUME InInv, NEW places \in SUBSET DOMAIN in.host.parts
  PROVE  /\ places = {} => Pick(places) = NoPart
         /\ places # {} => \E i \in places :
              /\ Pick(places) = in.host.parts[i]
              /\ (\E j \in places : in.host.parts[j].mounted) => in.host.parts[i].mounted
<1>0. PICK top \in Nat : DOMAIN in.host.parts = 1 .. top
  BY CommandsAssumption DEF InInv
<1>1. PICK parts : parts = in.host.parts /\ DOMAIN parts = 1 .. top
  BY <1>0
<1>2. PICK mounted : mounted = {i \in places : parts[i].mounted}
  OBVIOUS
<1>3. Pick(places) = IF mounted # {} THEN parts[Min(mounted)]
                     ELSE IF places # {} THEN parts[Max(places)] ELSE NoPart
  BY <1>1, <1>2 DEF Pick
<1>4. places \in SUBSET (1 .. top) /\ mounted \in SUBSET Nat
  BY <1>1, <1>2
<1>5. mounted # {} => Min(mounted) \in mounted
  BY <1>4, MinIs
<1>6. places # {} => Max(places) \in places
  BY <1>4, MaxIs
<1>7. CASE mounted # {}
  <2>1. Min(mounted) \in places /\ parts[Min(mounted)].mounted
    BY <1>2, <1>5, <1>7
  <2> QED
    BY <1>1, <1>2, <1>3, <1>7, <2>1
<1>8. CASE mounted = {} /\ places # {}
  BY <1>1, <1>2, <1>3, <1>6, <1>8
<1>9. CASE places = {}
  BY <1>2, <1>3, <1>9
<1> QED
  BY <1>7, <1>8, <1>9

LEMMA OwnFound ==
  ASSUME IInv, pc = "action", in.command \in {"upgrade", "reset"}, NEW p \in Looked
  PROVE  FindsOwn(p)
<1>1. InInv /\ spec.found[p] = Lookup(p)
  BY DEF IInv, SpecInv, SaneInv, Known, ISO
<1>2. PICK parts, label : /\ parts = in.host.parts
                          /\ label = IF p \in DOMAIN in.host.labels THEN in.host.labels[p] ELSE p
  OBVIOUS
<1>3. PICK own, foreign :
        /\ own = {q \in ToSet(parts) : q.disk = in.host.own}
        /\ foreign = ToSet(parts) \ own
  OBVIOUS
<1>4. PICK named, labelled : /\ named = {i \in DOMAIN parts : parts[i].name = p}
                             /\ labelled = {i \in DOMAIN parts : parts[i].label = label}
  OBVIOUS
<1>5. ToSet(parts) = {parts[i] : i \in DOMAIN parts}
  BY DEF ToSet
<1>6. \A i \in DOMAIN parts : parts[i].disk # None /\ parts[i].mounted \in BOOLEAN
  BY <1>1, <1>2, CommandsAssumption DEF InInv, Range
<1>7. ByName(p) = Pick(named) /\ ByLabel(p) = Pick(labelled)
  BY <1>2, <1>4 DEF ByName, ByLabel
<1>8. NoPart.disk = None
  BY DEF NoPart
<1>9. /\ named = {} => Lookup(p) = Pick(labelled)
      /\ named # {} => \E i \in named :
           /\ Lookup(p) = parts[i]
           /\ (\E j \in named : parts[j].mounted) => parts[i].mounted
  <2>1. CASE named = {}
    <3>1. Pick(named) = NoPart
      BY <1>1, <1>2, <1>4, <2>1, PickIs
    <3> QED
      BY <1>7, <2>1, <3>1 DEF Lookup
  <2>2. CASE named # {}
    <3>1. PICK i \in named : /\ Pick(named) = parts[i]
                             /\ (\E j \in named : parts[j].mounted) => parts[i].mounted
      BY <1>1, <1>2, <1>4, <2>2, PickIs
    <3>2. Pick(named) # NoPart
      BY <1>4, <1>6, <1>8, <3>1
    <3> QED
      BY <1>7, <2>2, <3>1, <3>2 DEF Lookup
  <2> QED
    BY <2>1, <2>2
<1>10. labelled # {} => \E i \in labelled : Pick(labelled) = parts[i]
  BY <1>1, <1>2, <1>4, PickIs
<1>11. \A i \in DOMAIN parts : parts[i] \in own \/ parts[i] \in foreign
  BY <1>3, <1>5
<1>12. \A q \in own : \E i \in DOMAIN parts : q = parts[i]
  BY <1>3, <1>5
<1>13. ASSUME \E q \in own : q.name = p /\ q.mounted, \A o \in foreign : ~o.mounted
       PROVE  Lookup(p) \in own
  <2>1. PICK i \in named : Lookup(p) = parts[i] /\ parts[i].mounted
    <3>1. \E j \in named : parts[j].mounted
      BY <1>4, <1>12, <1>13
    <3> QED
      BY <1>9, <3>1
  <2> QED
    BY <1>4, <1>11, <1>13, <2>1
<1>14. ASSUME \E q \in own : q.name = p, ~(\E q \in foreign : q.name = p)
       PROVE  Lookup(p) \in own
  <2>1. PICK i \in named : Lookup(p) = parts[i]
    BY <1>4, <1>9, <1>12, <1>14
  <2> QED
    BY <1>4, <1>11, <1>14, <2>1
<1>15. ASSUME \E q \in own : q.label = label, ~(\E q \in foreign : q.name = p),
              ~(\E q \in foreign : q.label = label)
       PROVE  Lookup(p) \in own
  <2>1. CASE named # {}
    <3>1. PICK i \in named : Lookup(p) = parts[i]
      BY <1>9, <2>1
    <3> QED
      BY <1>4, <1>11, <1>15, <3>1
  <2>2. CASE named = {}
    <3>1. labelled # {}
      BY <1>4, <1>12, <1>15
    <3>2. PICK i \in labelled : Lookup(p) = parts[i]
      BY <1>9, <1>10, <2>2, <3>1
    <3> QED
      BY <1>4, <1>11, <1>15, <3>2
  <2> QED
    BY <2>1, <2>2
<1> QED
  BY <1>1, <1>2, <1>3, <1>13, <1>14, <1>15 DEF FindsOwn

LEMMA Ready ==
  ASSUME IInv
  PROVE  ActionReady
<1>1. CASE pc # "action"
  BY <1>1 DEF ActionReady, Runs
<1>2. CASE pc = "action"
  <2>1. InInv /\ (~ISO => SaneInv) /\ (ISO => SourcesInv)
    BY <1>2 DEF IInv, SpecInv, Known
  <2>2. Runs("install") =>
          /\ spec.values["target"] # None /\ (in.arg # None => spec.values["target"] = in.arg)
          /\ spec.values["system.uri"] # None \/ spec.values["iso"] # None
          /\ spec.parts["state"]["mountpoint"] # None
          /\ spec.growing + (IF spec.parts["persistent"]["size"] \in {"0", None} THEN 1 ELSE 0) <= 1
    BY <2>1 DEF Runs, ISO, SaneInv, Insane
  <2>3. Runs("upgrade") =>
          /\ spec.found[IF spec.values["recovery"] # None THEN "recovery" ELSE "state"] # NoPart
          /\ spec.values[IF spec.values["recovery"] # None THEN "recovery-system.uri" ELSE "system.uri"] # None
    BY <2>1 DEF Runs, ISO, SaneInv, Insane
  <2>4. Runs("reset") =>
          /\ in.host.recovery /\ spec.values["system.uri"] # None
          /\ {"state", "recovery"} \subseteq {p \in Looked : spec.found[p] # NoPart}
    <3>1. {"state", "recovery"} \subseteq Looked
      BY DEF Looked, Partitions
    <3>2. Runs("reset") => in.command = "reset" /\ ~ISO /\ in.command # "install"
      BY DEF Runs, ISO
    <3>3. Runs("reset") => /\ in.host.recovery /\ Lookup("state") # NoPart
                           /\ Lookup("recovery") # NoPart
      BY <2>1, <3>2 DEF SaneInv, NewSpecFails
    <3>4. Runs("reset") => spec.values["system.uri"] # None
      BY <2>1, <3>2 DEF SaneInv, Insane
    <3>5. Runs("reset") => \A p \in Looked : spec.found[p] = Lookup(p)
      BY <2>1, <3>2 DEF SaneInv
    <3> QED
      BY <3>1, <3>3, <3>4, <3>5
  <2>5. Runs("upgrade") \/ Runs("reset") => \A p \in Looked : FindsOwn(p)
    BY <1>2, OwnFound DEF Runs
  <2>6. Runs("build-iso") =>
          LET asked == IF in.arg # None THEN in.arg ELSE Get(in.config.values, "rootfs")
              over  == Get(in.flags, "overlay-rootfs")
          IN  /\ asked # None /\ asked \notin Undecodable
              /\ spec.sources["rootfs"] = <<asked>> \o (IF over = None THEN <<>> ELSE <<over>>)
              /\ \A t \in Tree : Range(spec.sources[t]) \ {asked} \subseteq Paths
    BY <1>2, <2>1 DEF Runs, ISO, SourcesInv, AskedRoot
  <2> QED
    BY <2>2, <2>3, <2>4, <2>5, <2>6 DEF ActionReady
<1> QED
  BY <1>1, <1>2

\* A command that starts runs with what was asked for last, whatever the files, the
\* drop-ins, the environment and the flags are.
THEOREM HighestLayerWinsAll == Spec => []HighestLayerWins
<1>1. IInv => HighestLayerWins
  <2>1. pc # "action" => HighestLayerWins
    BY DEF HighestLayerWins
  <2> QED
    BY <2>1, Starts
<1> QED
  BY <1>1, Always, PTL

\* What the actions take for granted of what they are started with.
THEOREM ActionReadyAll == Spec => []ActionReady
<1>1. IInv => ActionReady
  BY Ready
<1> QED
  BY <1>1, Always, PTL
=============================================================================
