------------------------------ MODULE Commands ------------------------------
(***************************************************************************)
(* What a command does before its action starts (cmd/*.go, cmd/config):    *)
(* configuration files are merged one over the other, flags and environ-   *)
(* ment go on top, deprecated flags are translated, the result is decoded  *)
(* over the defaults of the RunConfig and of the command's spec, and what  *)
(* cannot work is refused.  One process runs one command.                  *)
(*                                                                         *)
(* A layer is a function from some of the keys to values; the keys of the  *)
(* command's own section carry no prefix.                                  *)
(***************************************************************************)
EXTENDS Naturals, SequencesExt

CONSTANTS Hosts,        \* for each command, [efi, live, recovery, parts, labels, own]: EFI firmware, an image to
                        \* default to, booted from recovery, the partitions of all disks
                        \* in the order of the kernel, the labels that state.yaml records,
                        \* the disk of the installed system
          Releases,     \* the files that /etc/os-release may be: [kind, values]
          Files,        \* and config.yaml or manifest.yaml
          Dropins,      \* sequences of drop-ins in lexical order: [name, file]
          Environments, FlagSets,   \* layers
          Arguments,    \* positional arguments, "" for none
          Undecodable,  \* URIs that are no image sources
          Paths         \* overlay directories that exist

None       == ""                                \* what a key or a flag without a value reads as
Commands   == {"install", "upgrade", "reset", "build-iso"}
RunKeys    == {"reboot", "poweroff", "cosign", "cosign-key", "arch"}
SourceKeys == {"system.uri", "recovery-system.uri"}
SpecKeys   == SourceKeys \cup {"target", "iso", "firmware", "part-table", "recovery"}
Partitions == {"oem", "recovery", "state", "persistent"}
Fields     == {"name", "label", "size", "fs", "mountpoint"}
Field(p, f) == p \o "." \o f                    \* the key of a partition's field
Tree       == {"rootfs", "uefi", "iso"}
OverlayFlag == [rootfs |-> "overlay-rootfs", uefi |-> "overlay-uefi", iso |-> "overlay-iso"]
Looked     == Partitions \cup {"efi"}              \* the partitions looked for on the disks
NoPart     == [name |-> None, label |-> None, mounted |-> FALSE, disk |-> None]

ASSUME CommandsAssumption ==
  /\ \A f \in Files \cup Releases : f.kind \in {"absent", "broken", "ok"}
  /\ \A f \in Files \cup Releases \cup UNION {{d[i].file : i \in DOMAIN d} : d \in Dropins} :
       "growing" \in DOMAIN f.values => f.values["growing"] \in Nat
  /\ \A d \in Dropins : d \in Seq(Range(d))
  /\ \A c \in Commands : \A h \in Hosts[c] :
       /\ {h.efi, h.live, h.recovery} \subseteq BOOLEAN
       /\ h.parts \in Seq(Range(h.parts))
       /\ \A q \in Range(h.parts) : q.mounted \in BOOLEAN /\ q.disk # None
  /\ Undecodable \subseteq STRING /\ Paths \subseteq STRING /\ Arguments \subseteq STRING

VARIABLES
  in,        \* command, host, files, environment and arguments: they do not change
  flags,     \* the flags that were given or are set by the translation
  vp,        \* the configuration merged so far
  left,      \* the drop-ins that are still to be read
  cfg,       \* the RunConfig
  spec,      \* the spec of the command
  pc,        \* the next step; "action" when the action runs
  code       \* the exit code of a refusal

vars == <<in, flags, vp, left, cfg, spec, pc, code>>
-----------------------------------------------------------------------------
Get(layer, k) == IF k \in DOMAIN layer THEN layer[k] ELSE None
Over(f, g)    == [k \in DOMAIN f \cup DOMAIN g |-> IF k \in DOMAIN f THEN f[k] ELSE g[k]]
Only(f, ks)   == [k \in DOMAIN f \cap ks |-> f[k]]

Goto(p)   == pc' = p /\ UNCHANGED code
Refuse(c) == pc' = "refused" /\ code' = c
ISO == in.command = "build-iso"

\* /etc/os-release, config.yaml or manifest.yaml: what is there goes over what was
\* read before, what cannot be parsed ends the command.
Merge(file, next) ==
  /\ IF file.kind = "broken"
     THEN Refuse(IF ISO THEN "ReadingBuildConfig" ELSE "ReadingRunConfig") /\ UNCHANGED vp
     ELSE Goto(next) /\ vp' = Over(file.values, vp)
  /\ UNCHANGED <<in, flags, cfg, spec>>

ReadOSRelease == pc = "os-release" /\ Merge(in.osRelease, "config") /\ UNCHANGED left
ReadConfig == pc = "config" /\ Merge(in.config, IF ISO THEN "decode" ELSE "config.d") /\ UNCHANGED left

\* A drop-in is looked for by its base name, first in the directory of config.yaml:
\* one of the name config finds config.yaml, one in a subdirectory finds nothing.
Found(dropin) ==
  IF dropin.name = "config" /\ in.config.kind # "absent" THEN in.config
  ELSE IF dropin.name = "nested" THEN [kind |-> "broken", values |-> <<>>] ELSE dropin.file

ReadDropin ==
  /\ pc = "config.d" /\ left # <<>>
  /\ Merge(Found(Head(left)), "config.d") /\ left' = Tail(left)

DropinsRead ==
  /\ pc = "config.d" /\ left = <<>> /\ Goto("decode")
  /\ UNCHANGED <<in, flags, vp, left, cfg, spec>>

\* viper's order: given flags, bound environment variables, files.
EnvKeys(section) ==
  CASE section = "run"     -> {"poweroff", "reboot"}
    [] section = "install" -> {"target", "iso", "firmware", "part-table"} \cup SourceKeys
    [] section = "reset"   -> {"target", "system.uri"}
    [] section = "upgrade" -> {"recovery"} \cup SourceKeys
    [] OTHER               -> {}
Effective(section) == Over(flags, Over(Only(in.env, EnvKeys(section)), vp))

\* Unmarshal and Sanitize: an arch that is not known is refused.
Decode ==
  /\ pc = "decode"
  /\ LET eff == Effective(IF ISO THEN "build" ELSE "run") IN
     /\ cfg' = [k \in RunKeys |-> Get(eff, k)]
     /\ IF cfg'["arch"] = "unknown"
        THEN Refuse(IF ISO THEN "ReadingBuildConfig" ELSE "ReadingRunConfig")
        ELSE Goto("flags")
  /\ UNCHANGED <<in, flags, vp, left, spec>>

\* Only the flags are validated, not the configuration.
Given(k) == Get(flags, k) # None
SourceFlags == {"system.uri", "directory", "docker-image"}
SourceFlagsClash == \E j, k \in SourceFlags : j # k /\ Given(j) /\ Given(k)
CosignFlagsClash == Given("cosign-key") /\ ~Given("cosign")
PowerFlagsClash  == Given("reboot") /\ Given("poweroff")

ValidateFlags ==
  /\ pc = "flags"
  /\ IF ISO
     THEN IF CosignFlagsClash THEN Refuse("CosignWrongFlags") ELSE Goto("spec")
     ELSE IF SourceFlagsClash \/ CosignFlagsClash \/ PowerFlagsClash
          THEN Refuse("ReadingInstallUpgradeFlags") ELSE Goto("adapt")
  /\ UNCHANGED <<in, flags, vp, left, cfg, spec>>

\* Mutant: the deprecated flags are not translated.
AdaptFlagsNone == pc = "adapt" /\ Goto("spec") /\ UNCHANGED <<in, flags, vp, left, cfg, spec>>

\* Deprecated flags become the ones that replace them, which are set by this.
DeprecatedFor(k) ==
  CASE k = "system.uri" -> {"directory", "docker-image"}
    [] k = "firmware"   -> {"force-efi"}
    [] k = "part-table" -> {"force-gpt"}
Replaceable == {"system.uri", "firmware", "part-table"}

AdaptFlags ==
  /\ pc = "adapt" /\ Goto("spec")
  /\ LET adapted == {k \in Replaceable : \E f \in DeprecatedFor(k) : Given(f)}
     IN  flags' = Over([k \in adapted |->
                          CASE k = "firmware"                          -> "efi"
                            [] k = "part-table"                        -> "gpt"
                            [] k = "system.uri" /\ Given("directory")  -> "dir:" \o flags["directory"]
                            [] k = "system.uri" /\ ~Given("directory") -> "docker:" \o flags["docker-image"]],
                       flags)
  /\ UNCHANGED <<in, vp, left, cfg, spec>>
-----------------------------------------------------------------------------
\* GetByName and GetByLabel: of the places in the list that fit, the first one with a
\* partition that is mounted, or else the last one.
Pick(places) ==
  LET mounted == {i \in places : in.host.parts[i].mounted} IN
  IF mounted # {} THEN in.host.parts[Min(mounted)]
  ELSE IF places # {} THEN in.host.parts[Max(places)] ELSE NoPart

ByName(p) == Pick({i \in DOMAIN in.host.parts : in.host.parts[i].name = p})
ByLabel(p) ==      \* the label that was recorded, or the default one
  LET label == IF p \in DOMAIN in.host.labels THEN in.host.labels[p] ELSE p IN
  Pick({i \in DOMAIN in.host.parts : in.host.parts[i].label = label})

\* Mutant: the label is tried first.
LookupLabelFirst(p) == IF ByLabel(p) # NoPart THEN ByLabel(p) ELSE ByName(p)

\* GetByNameOrLabel among the partitions of all disks.
Lookup(p) == IF ByName(p) # NoPart THEN ByName(p) ELSE ByLabel(p)

\* The spec before the configuration: what the constructors find on the host.
DefaultPart(p) ==
  [f \in Fields |-> CASE f = "size" -> IF p = "persistent" THEN "0" ELSE "some"
                      [] f = "fs"   -> "ext4"
                      [] OTHER      -> p]
Default(k) ==
  CASE k = "system.uri" -> IF in.host.live /\ in.command # "upgrade" THEN "file:default" ELSE None
    [] k = "recovery-system.uri" -> IF in.command = "install" THEN "file:active" ELSE None
    [] k = "target"     -> IF in.command = "reset" THEN Lookup("state").disk ELSE None
    [] k = "firmware"   -> IF in.host.efi THEN "efi" ELSE "bios"
    [] k = "part-table" -> "gpt"
    [] OTHER            -> None
NewSpecFails ==
  /\ in.command = "reset"
  /\ \/ ~in.host.recovery
     \/ NoPart \in {Lookup("state"), Lookup("recovery")}
     \/ in.host.efi /\ Lookup("efi") = NoPart
EmptySpec == [values |-> [k \in SpecKeys |-> None], parts |-> [p \in Partitions |-> DefaultPart(p)],
              growing |-> 0, sources |-> [t \in Tree |-> <<>>], found |-> [p \in Looked |-> NoPart]]

\* Decoding over the defaults.  A source that is none only causes a warning and
\* leaves the default.
Decoded(eff, k) ==
  IF k \in DOMAIN eff /\ ~(k \in SourceKeys /\ eff[k] \in Undecodable) THEN eff[k] ELSE Default(k)

\* Partitions are pointers, which the decoder replaces by zero ones (ZeroFields):
\* when a field is given, the others are empty.
DecodedPart(eff, p) ==
  IF \A f \in Fields : Field(p, f) \notin DOMAIN eff THEN DefaultPart(p)
  ELSE [f \in Fields |-> Get(eff, Field(p, f))]

\* Sanitize.  A partition without a size takes the rest of the disk.
Insane(s) ==
  CASE in.command = "install" ->
         \/ s.values["system.uri"] = None /\ s.values["iso"] = None
         \/ s.parts["state"]["mountpoint"] = None
         \/ s.growing > 1
         \/ s.growing = 1 /\ s.parts["persistent"]["size"] \in {"0", None}
    [] in.command = "upgrade" ->
         \/ s.found[IF s.values["recovery"] # None THEN "recovery" ELSE "state"] = NoPart
         \/ s.values[IF s.values["recovery"] # None THEN "recovery-system.uri" ELSE "system.uri"] = None
    [] in.command = "reset"   -> s.values["system.uri"] = None

\* ReadInstallSpec, ReadUpgradeSpec and ReadResetSpec.
ReadSpec ==
  /\ pc = "spec" /\ ~ISO
  /\ LET eff == Effective(in.command)
         s   == [values  |-> [k \in SpecKeys |-> Decoded(eff, k)],
                 parts   |-> [p \in Partitions |-> DecodedPart(eff, p)],
                 growing |-> IF "growing" \in DOMAIN eff THEN eff["growing"] ELSE 0,
                 sources |-> [t \in Tree |-> <<>>],
                 found   |-> [p \in Looked |-> IF in.command = "install" THEN NoPart ELSE Lookup(p)]]
     IN  /\ spec' = IF NewSpecFails THEN spec ELSE s
         /\ IF NewSpecFails \/ Insane(s) THEN Refuse("ReadingSpecConfig") ELSE Goto("arguments")
  /\ UNCHANGED <<in, flags, vp, left, cfg>>

\* ReadBuildISO; a root source that is none becomes a nil, which is refused.
ReadBuildISO ==
  /\ pc = "spec" /\ ISO
  /\ LET source == Get(Effective("iso"), "rootfs") IN
     /\ spec' = [EmptySpec EXCEPT !.sources["rootfs"] = IF source = None THEN <<>> ELSE <<source>>]
     /\ IF source \in Undecodable THEN Refuse("ReadingSpecConfig") ELSE Goto("arguments")
  /\ UNCHANGED <<in, flags, vp, left, cfg>>

\* The device of an installation goes over what was configured.
TakeTarget ==
  /\ pc = "arguments" /\ ~ISO
  /\ LET target == IF in.command = "install" /\ in.arg # None THEN in.arg ELSE spec.values["target"] IN
     /\ spec' = [spec EXCEPT !.values["target"] = target]
     /\ IF in.command = "install" /\ target = None THEN Refuse("InvalidTarget") ELSE Goto("action")
  /\ UNCHANGED <<in, flags, vp, left, cfg>>

\* The argument of build-iso replaces the root sources.
TakeSource ==
  /\ pc = "arguments" /\ ISO
  /\ spec' = IF in.arg = None \/ in.arg \in Undecodable THEN spec
             ELSE [spec EXCEPT !.sources["rootfs"] = <<in.arg>>]
  /\ CASE in.arg \in Undecodable                          -> Refuse("IdentifySource")
       [] in.arg = None /\ spec.sources["rootfs"] = <<>>      -> Refuse("NoSourceProvided")
       [] OTHER                                            -> Goto("overlays")
  /\ UNCHANGED <<in, flags, vp, left, cfg>>

\* Overlays lie over all other sources of their tree and have to exist.
TakeOverlays ==
  /\ pc = "overlays"
  /\ LET given == {t \in Tree : Given(OverlayFlag[t])}
         path(t) == flags[OverlayFlag[t]]
     IN  /\ spec' = [spec EXCEPT !.sources = [t \in Tree |->
                       IF t \in given THEN Append(@[t], path(t)) ELSE @[t]]]
         /\ IF \A t \in given : path(t) \in Paths THEN Goto("action") ELSE Refuse("StatFile")
  /\ UNCHANGED <<in, flags, vp, left, cfg>>
-----------------------------------------------------------------------------
\* The flags a command has; cobra refuses others.
CosignFlags == {"cosign", "cosign-key"}
FlagsOf(c) ==
  CASE c = "reset"     -> SourceFlags \cup CosignFlags \cup {"reboot", "poweroff"}
    [] c = "upgrade"   -> SourceFlags \cup CosignFlags \cup {"reboot", "poweroff", "recovery-system.uri", "recovery"}
    [] c = "install"   -> SourceFlags \cup CosignFlags \cup {"reboot", "poweroff", "recovery-system.uri",
                            "iso", "firmware", "part-table", "force-efi", "force-gpt", "arch"}
    [] c = "build-iso" -> CosignFlags \cup {"arch"} \cup {OverlayFlag[t] : t \in Tree}

Init ==
  /\ \E c \in Commands :
       in \in [command : {c}, host : Hosts[c], osRelease : Releases, config : Files,
              dropins : Dropins, env : Environments,
              flags : {f \in FlagSets : DOMAIN f \subseteq FlagsOf(c)},
              arg : IF c \in {"reset", "upgrade"} THEN {None} ELSE Arguments]
  /\ flags = in.flags /\ vp = <<>> /\ left = in.dropins
  /\ cfg = [k \in RunKeys |-> None] /\ spec = EmptySpec
  /\ pc = (IF in.command = "build-iso" THEN "config" ELSE "os-release") /\ code = "none"

Next ==
  \/ ReadOSRelease \/ ReadConfig \/ ReadDropin \/ DropinsRead \/ Decode
  \/ ValidateFlags \/ AdaptFlags \/ ReadSpec \/ ReadBuildISO
  \/ TakeTarget \/ TakeSource \/ TakeOverlays

Spec == Init /\ [][Next]_vars
-----------------------------------------------------------------------------
\* All that was given, from the lowest layer to the highest.
Layers(section) ==
  <<in.osRelease.values, in.config.values>>
  \o [i \in 1 .. Len(in.dropins) |-> in.dropins[i].file.values]
  \o <<Only(in.env, EnvKeys(section)), in.flags>>
Topmost(section, k, default) ==
  LET layers == Layers(section)
      having == {i \in 1 .. Len(layers) : k \in DOMAIN layers[i]}
  IN  IF having = {} THEN default ELSE layers[Max(having)][k]

Runs(c) == pc = "action" /\ in.command = c
Asked(k, flag, value) == Get(in.flags, flag) # None => value \in Undecodable \cup {spec.values[k]}
Replaced == {k \in Replaceable : \E f \in DeprecatedFor(k) : Get(in.flags, f) # None}

\* A command that starts runs with what was asked for last: every option has the
\* value of the highest layer that names it (os-release, config.yaml, the drop-ins
\* in their order, the environment, the flags), or its default, and a deprecated
\* flag counts as the one that replaces it.  Two exceptions that the code makes: a
\* drop-in named like config.yaml, and a source that cannot be decoded.
HighestLayerWins ==
  pc = "action" /\ (\A i \in 1 .. Len(in.dropins) : in.dropins[i].name # "config") =>
    /\ ~ISO => \A k \in RunKeys : cfg[k] = Topmost("run", k, None)
    /\ ~ISO => \A k \in SpecKeys \ (Replaced \cup {"target"}) :
         LET v == Topmost(in.command, k, Default(k)) IN v \in Undecodable \cup {spec.values[k]}
    /\ Asked("system.uri", "directory", "dir:" \o Get(in.flags, "directory"))
    /\ Asked("system.uri", "docker-image", "docker:" \o Get(in.flags, "docker-image"))
    /\ Asked("firmware", "force-efi", "efi") /\ Asked("part-table", "force-gpt", "gpt")

\* The partition that is found is the one of the installed system: no other is
\* taken for one that it has under its name, unless that name exists twice and
\* nothing tells by a mount which is meant; nor for one that it only has by its
\* label, if no other partition has this label.
FindsOwn(p) ==
  LET parts   == ToSet(in.host.parts)
      label   == IF p \in DOMAIN in.host.labels THEN in.host.labels[p] ELSE p
      own     == {q \in parts : q.disk = in.host.own}
      foreign == parts \ own
      Has(qs, field, v) == \E q \in qs : q[field] = v
      apart   == \/ \E q \in own : q.name = p /\ q.mounted /\ \A o \in foreign : ~o.mounted
                 \/ Has(own, "name", p) /\ ~Has(foreign, "name", p)
                 \/ Has(own, "label", label) /\ ~Has(foreign, "name", p) /\ ~Has(foreign, "label", label)
  IN  apart => spec.found[p] \in own

\* What the actions take for granted of what they are started with: an installation
\* has a target, a source, a state partition that it mounts and at most one of the
\* persistent and extra partitions that takes the rest of the disk; an upgrade has
\* the partition of the image that it replaces and a source for it; a reset runs from
\* recovery, has a source, state and recovery; both work on the partitions of the
\* installed system and not on those of another disk; an ISO has root sources, the argument or else those
\* of the manifest, with the overlays over them, and all of them are sources.
ActionReady ==
  /\ Runs("install") =>
       /\ spec.values["target"] # None /\ (in.arg # None => spec.values["target"] = in.arg)
       /\ spec.values["system.uri"] # None \/ spec.values["iso"] # None
       /\ spec.parts["state"]["mountpoint"] # None
       /\ spec.growing + (IF spec.parts["persistent"]["size"] \in {"0", None} THEN 1 ELSE 0) <= 1
  /\ Runs("upgrade") =>
       /\ spec.found[IF spec.values["recovery"] # None THEN "recovery" ELSE "state"] # NoPart
       /\ spec.values[IF spec.values["recovery"] # None THEN "recovery-system.uri" ELSE "system.uri"] # None
  /\ Runs("reset") =>
       /\ in.host.recovery /\ spec.values["system.uri"] # None
       /\ {"state", "recovery"} \subseteq {p \in Looked : spec.found[p] # NoPart}
  /\ Runs("upgrade") \/ Runs("reset") => \A p \in Looked : FindsOwn(p)
  /\ Runs("build-iso") =>
       LET asked == IF in.arg # None THEN in.arg ELSE Get(in.config.values, "rootfs")
           over  == Get(in.flags, "overlay-rootfs")
       IN  /\ asked # None /\ asked \notin Undecodable
           /\ spec.sources["rootfs"] = <<asked>> \o (IF over = None THEN <<>> ELSE <<over>>)
           /\ \A t \in Tree : Range(spec.sources[t]) \ {asked} \subseteq Paths

\* What config.yaml.example says of partitions as of all options: "Elemental uses
\* defaults if any of this value is missing" (decode of cmd/config/config.go).
PartitionsKeepDefaults ==
  Runs("install") /\ in.dropins = <<>> =>
    \A p \in Partitions, f \in Fields :
      spec.parts[p][f] = Topmost("install", Field(p, f), DefaultPart(p)[f])
=============================================================================
