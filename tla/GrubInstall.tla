----------------------------- MODULE GrubInstall -----------------------------
(***************************************************************************)
(* Grub.Install (pkg/utils/grub.go) and the EFI boot manager               *)
(* (pkg/efi/manager.go): the boot loader's files on the EFI and the state  *)
(* partition, the BootXXXX variables and BootOrder.  Installations, which  *)
(* make a new EFI partition, and resets, which keep it, follow one         *)
(* another; other systems and the firmware change the variables between    *)
(* them.  Every call may fail and a run may be interrupted.                *)
(***************************************************************************)
EXTENDS Naturals, Sequences, FiniteSets, SequencesExt

CONSTANTS MaxEntry,     \* the highest number of a BootXXXX variable (65535)
          Images,       \* the sets of artifacts an image may hold
          MaxRuns, MaxFaults

ASSUME GrubAssumption ==
  /\ MaxEntry \in Nat \ {0} /\ MaxRuns \in Nat /\ MaxFaults \in Nat

Number == 0 .. MaxEntry

\* A load option: whose it is and the partition it points to.  Those of elemental
\* point to the EFI partition of an installation, "broken" ones cannot be parsed.
Option    == [name : {"none", "elemental", "other", "broken"}, dev : 0 .. MaxRuns]
NoOption  == [name |-> "none", dev |-> 0]
Ours(dev) == [name |-> "elemental", dev |-> dev]

\* What an image holds for the boot loader, in the order Grub looks for it.
Modules   == <<"loopback.mod", "squash4.mod">>
ShimFiles == <<"shim.efi", "grub.efi">>
Dirs      == {"boot", "elemental"}       \* EFI/boot (the fallback) and EFI/elemental

VARIABLES
  option,    \* the BootXXXX variables
  order,     \* BootOrder
  efi,       \* the EFI partition: its identity and its files
  state,     \* the boot loader's files on the state partition
  args,      \* arguments of the run
  bm,        \* the boot manager in memory
  pc, walk, found, number, err,       \* the running Grub.Install
  runs, faults, start

firmwareVars == <<option, order>>
diskVars     == <<efi, state>>
callVars     == <<args, runs, start>>
vars == <<option, order, efi, state, args, bm, pc, walk, found, number, err, runs, faults, start>>

Stages == {"modules", "shim", "fallback", "grubcfg", "clear", "load", "find", "order", "bios", "config"}
Ended  == pc \in {"idle", "done"}
-----------------------------------------------------------------------------
Succeeds == UNCHANGED faults
Fails    == faults < MaxFaults /\ faults' = faults + 1
Goto(p)  == pc' = p /\ UNCHANGED err
Abort(e) == pc' = "done" /\ err' = e

\* No boot manager is in memory.
NoManager == [entries |-> [n \in Number |-> NoOption], order |-> <<>>]

IsOurs(opt)      == opt.name = "elemental"
Mine(opts)       == {n \in Number : IsOurs(opts[n])}
Used(opts)       == {n \in Number : opts[n] # NoOption}
Others(opts)     == {n \in Number : opts[n].name = "other"}

\* The numbers of S in the order in which they first occur in ns.
Firsts(ns, S) ==
  LET upTo[i \in 0 .. Len(ns)] ==
        IF i = 0 THEN <<>>
        ELSE IF ns[i] \in S /\ ~Contains(upTo[i - 1], ns[i]) THEN Append(upTo[i - 1], ns[i])
        ELSE upTo[i - 1]
  IN  upTo[Len(ns)]
OthersIn(ns, opts) == Firsts(ns, Others(opts))

\* The call from install, with clearBootEntries, on new EFI and state partitions or,
\* when it does not format, on those there are; or from reset, which formats state only.
Call(install, format, firmware, entry, image) ==
  /\ Ended /\ runs < MaxRuns
  /\ runs' = runs + 1
  /\ args' = [clear |-> install, firmware |-> firmware, entry |-> entry, image |-> image]
  /\ efi' = IF install /\ format THEN [dev |-> runs + 1, files |-> {}] ELSE efi
  /\ state' = IF format THEN {} ELSE state
  /\ start' = [others |-> OthersIn(order, option), faults |-> faults]
  /\ pc' = IF firmware = "efi" THEN "modules" ELSE "bios"
  /\ walk' = 1 /\ found' = FALSE /\ err' = "none"
  /\ bm' = NoManager /\ number' = 0
  /\ UNCHANGED <<firmwareVars, faults>>
-----------------------------------------------------------------------------
(* InstallEFI.                                                             *)

Walked(files, got, next, e) ==
  LET any == found \/ got IN
  IF ~any THEN Abort(e) /\ UNCHANGED <<walk, found>>
  ELSE IF walk < Len(files)
  THEN walk' = walk + 1 /\ found' = any /\ UNCHANGED <<pc, err>>
  ELSE walk' = 1 /\ found' = FALSE /\ Goto(next)

\* Directories that cannot be made and a source that cannot be identified end the run.
CannotPrepare ==
  /\ pc \in {"modules", "shim", "config"} /\ walk = 1 /\ Fails /\ Abort("prepare")
  /\ UNCHANGED <<firmwareVars, diskVars, callVars, bm, walk, found, number>>

CopyModule ==
  /\ pc = "modules"
  /\ \/ /\ Modules[walk] \in args.image /\ Succeeds
        /\ state' = state \cup {Modules[walk]}
        /\ Walked(Modules, TRUE, "shim", "modules")
     \/ /\ Modules[walk] \notin args.image /\ Succeeds /\ UNCHANGED state
        /\ Walked(Modules, FALSE, "shim", "modules")
     \/ /\ Modules[walk] \in args.image /\ Fails /\ UNCHANGED state
        /\ Walked(Modules, FALSE, "shim", "modules")
  /\ UNCHANGED <<firmwareVars, efi, callVars, bm, number>>

\* Each shim file goes to both directories; the second copy may fail after the first.
CopyShim ==
  LET f == ShimFiles[walk]
      copied(ds) == efi' = [efi EXCEPT !.files = @ \cup {<<d, f>> : d \in ds}] IN
  /\ pc = "shim"
  /\ \/ f \in args.image /\ Succeeds /\ copied(Dirs) /\ Walked(ShimFiles, TRUE, "fallback", "shim")
     \/ f \notin args.image /\ Succeeds /\ copied({}) /\ Walked(ShimFiles, FALSE, "fallback", "shim")
     \/ /\ f \in args.image /\ Fails /\ (copied({}) \/ copied({"boot"}))
        /\ Walked(ShimFiles, FALSE, "fallback", "shim")
  /\ UNCHANGED <<firmwareVars, state, callVars, bm, number>>

\* The shim is copied to the name the firmware falls back to.
Fallback ==
  /\ pc = "fallback"
  /\ IF <<"boot", "shim.efi">> \in efi.files
     THEN \/ Succeeds /\ efi' = [efi EXCEPT !.files = @ \cup {<<"boot", "bootx64.efi">>}] /\ Goto("grubcfg")
          \/ Fails /\ UNCHANGED efi /\ Abort("fallback")
     ELSE UNCHANGED <<efi, faults>> /\ Abort("fallback")
  /\ UNCHANGED <<firmwareVars, state, callVars, bm, walk, found, number>>

AfterEFI == IF ~args.entry THEN "config" ELSE IF args.clear THEN "clear" ELSE "load"

EFIConfig ==
  LET written(ds) == efi' = [efi EXCEPT !.files = @ \cup {<<d, "grub.cfg">> : d \in ds}] IN
  /\ pc = "grubcfg"
  /\ \/ Succeeds /\ written(Dirs) /\ Goto(AfterEFI)
     \/ Fails /\ (written({}) \/ written({"boot"})) /\ Abort("grubcfg")
  /\ UNCHANGED <<firmwareVars, state, callVars, bm, walk, found, number>>
-----------------------------------------------------------------------------
(* The boot entries.                                                       *)

\* ClearBootEntry: an entry that cannot be listed or read is left, one that cannot be
\* removed ends the run with those before it removed.  BootOrder is not touched.
Clear ==
  LET removed(ns) == option' = [n \in Number |-> IF n \in ns THEN NoOption ELSE option[n]] IN
  /\ pc = "clear"
  /\ \/ Succeeds /\ removed(Mine(option)) /\ Goto("load")
     \/ Fails /\ (\E kept \in SUBSET Mine(option) : removed(Mine(option) \ kept)) /\ Goto("load")
     \/ Fails /\ (\E gone \in SUBSET Mine(option) : gone # Mine(option) /\ removed(gone)) /\ Abort("clear")
  /\ UNCHANGED <<order, diskVars, callVars, bm, walk, found, number>>

Load ==
  /\ pc = "load"
  /\ IF \E n \in Number : option[n].name = "broken"
     THEN Abort("load") /\ UNCHANGED <<bm, faults>>
     ELSE \/ Succeeds /\ bm' = [entries |-> option, order |-> order] /\ Goto("find")
          \/ Fails /\ bm' = [entries |-> option, order |-> <<>>] /\ Goto("find")
          \/ Fails /\ UNCHANGED bm /\ Abort("load")
  /\ UNCHANGED <<firmwareVars, diskVars, callVars, walk, found, number>>

\* Mutant: only numbers above all used ones are free.
FreeEntriesAbove == {n \in Number \ {MaxEntry} : \A m \in n .. MaxEntry : bm.entries[m] = NoOption}
\* NextFreeEntry never tries the highest number.
FreeEntries == {n \in Number \ {MaxEntry} : bm.entries[n] = NoOption}

\* Mutant: the entries after the ordered ones are taken to be free.
NextFreeAfterOrder(free) == IF Len(bm.order) < MaxEntry THEN Len(bm.order) ELSE MaxEntry - 1
\* The lowest of them.
NextFree(free) == CHOOSE n \in free : \A m \in free : n <= m

\* FindOrCreateEntry: a free number is needed even when an identical entry is found.
Identical(dev) == {n \in Number : bm.entries[n] = Ours(dev)}

FindOrCreate ==
  /\ pc = "find"
  /\ IF FreeEntries = {} THEN Abort("find") /\ UNCHANGED <<option, bm, number, faults>>
     ELSE \/ /\ Identical(efi.dev) # {} /\ Succeeds /\ number' \in Identical(efi.dev)
             /\ Goto("order") /\ UNCHANGED <<option, bm>>
          \/ LET n == NextFree(FreeEntries) IN
             /\ Identical(efi.dev) = {} /\ Succeeds /\ number' = n
             /\ option' = [option EXCEPT ![n] = Ours(efi.dev)]
             /\ bm' = [bm EXCEPT !.entries[n] = Ours(efi.dev)]
             /\ Goto("order")
          \/ Fails /\ Abort("find") /\ UNCHANGED <<option, bm, number>>
  /\ UNCHANGED <<order, diskVars, callVars, walk, found>>

\* Mutant: the entry goes last if it is new.
PrependedLast(n) == IF Contains(bm.order, n) THEN bm.order ELSE Append(bm.order, n)
\* Mutant: numbers without an entry stay.
PrependedDangling(n) == <<n>> \o Firsts(bm.order, Number \ {n})
\* Mutant: only the new entry is ordered.
PrependedAlone(n) == <<n>>
\* PrependAndSetBootOrder: without repetitions and numbers that have no entry.
Prepended(n) == Firsts(<<n>> \o bm.order, Used(bm.entries))

SetOrder ==
  /\ pc = "order"
  /\ \/ Succeeds /\ order' = Prepended(number) /\ bm' = [bm EXCEPT !.order = order'] /\ Goto("config")
     \/ Fails /\ UNCHANGED <<order, bm>> /\ Abort("order")
  /\ UNCHANGED <<option, diskVars, callVars, walk, found, number>>
-----------------------------------------------------------------------------
(* InstallBIOS and InstallConfig.                                          *)

InstallBIOS ==
  /\ pc = "bios"
  /\ \/ Succeeds /\ state' = state \cup {"core"} /\ Goto("config")
     \/ Fails /\ UNCHANGED state /\ Abort("bios")
  /\ UNCHANGED <<firmwareVars, efi, callVars, bm, walk, found, number>>

InstallConfig ==
  /\ pc = "config"
  /\ \/ Succeeds /\ state' = state \cup {"grub.cfg"} /\ Goto("done")
     \/ Fails /\ UNCHANGED state /\ Abort("config")
  /\ UNCHANGED <<firmwareVars, efi, callVars, bm, walk, found, number>>

Step == \/ CannotPrepare \/ CopyModule \/ CopyShim \/ Fallback \/ EFIConfig
        \/ Clear \/ Load \/ FindOrCreate \/ SetOrder \/ InstallBIOS \/ InstallConfig

\* The run is killed or the machine loses power.
Interrupt ==
  /\ ~Ended /\ Fails /\ Abort("interrupted")
  /\ UNCHANGED <<firmwareVars, diskVars, callVars, bm, walk, found, number>>

\* Another system adds or removes an entry, or orders entries anew; the firmware may
\* leave numbers in BootOrder that have no entry.
OtherSystem ==
  /\ Ended /\ runs < MaxRuns
  /\ \/ \E n \in Number, name \in {"other", "broken"} :
          /\ option[n] = NoOption /\ option' = [option EXCEPT ![n] = [name |-> name, dev |-> 0]]
          /\ \/ order' = <<n>> \o Firsts(order, Number \ {n})
             \/ name = "other" /\ UNCHANGED order
     \/ \E n \in Used(option) : option' = [option EXCEPT ![n] = NoOption] /\ UNCHANGED order
     \/ order # <<>> /\ order' \in {Reverse(order), Tail(order)} /\ UNCHANGED option
  /\ pc' = "idle" /\ err' = "none" /\ bm' = NoManager /\ number' = 0 /\ walk' = 1 /\ found' = FALSE
  /\ start' = [others |-> <<>>, faults |-> 0]
  /\ args' = [clear |-> FALSE, firmware |-> args.firmware, entry |-> FALSE, image |-> {}]
  /\ UNCHANGED <<diskVars, runs, faults>>

Init ==
  /\ option = [n \in Number |-> NoOption] /\ order = <<>>
  /\ efi = [dev |-> 0, files |-> {}] /\ state = {}
  /\ args = [clear |-> FALSE, firmware |-> "bios", entry |-> FALSE, image |-> {}]
  /\ bm = NoManager
  /\ pc = "idle" /\ walk = 1 /\ found = FALSE /\ number = 0 /\ err = "none"
  /\ runs = 0 /\ faults = 0 /\ start = [others |-> <<>>, faults |-> 0]

\* A boot entry may be disabled, which matters to EFI only.
EntryChoices(firmware) == IF firmware = "efi" THEN BOOLEAN ELSE {FALSE}

\* A reset, and an installation that does not format, run on a machine that was
\* installed with the same firmware.
Next ==
  \/ Step \/ Interrupt \/ OtherSystem
  \/ \E firmware \in {"efi", "bios"}, image \in Images : \E entry \in EntryChoices(firmware) :
       \/ Call(TRUE, TRUE, firmware, entry, image)
       \/ /\ efi.dev # 0 /\ firmware = args.firmware
          /\ Call(TRUE, FALSE, firmware, entry, image) \/ Call(FALSE, TRUE, firmware, entry, image)

Spec     == Init /\ [][Next]_vars
-----------------------------------------------------------------------------
(* Properties.                                                             *)

\* Types of the state.
TypeOK ==
  /\ option \in [Number -> Option]
  /\ order \in Seq(Number) /\ bm.order \in Seq(Number) /\ bm.entries \in [Number -> Option]
  /\ efi.dev \in 0 .. MaxRuns
  /\ efi.files \subseteq Dirs \X (Range(ShimFiles) \cup {"bootx64.efi", "grub.cfg"})
  /\ state \subseteq Range(Modules) \cup {"core", "grub.cfg"}
  /\ pc \in Stages \cup {"idle", "done"}
  /\ walk \in {1, 2} /\ found \in BOOLEAN /\ number \in Number
  /\ runs \in 0 .. MaxRuns /\ faults \in 0 .. MaxFaults

Succeeded == pc = "done" /\ err = "none"
WithEntry == Succeeded /\ args.firmware = "efi" /\ args.entry

\* Nothing went wrong in a run that succeeded, not even what Install ignores: an
\* unreadable BootOrder, and a copy that fails after another of its list succeeded.
Flawless == Succeeded /\ faults = start.faults

\* What a run leaves is what the firmware boots: a success puts the shim of this
\* installation first in BootOrder and gives state its configuration; a flawless run
\* has the shim and the grub.cfg that chains to state in both places, and every
\* EFI artifact the image holds beside them.
BootsElemental ==
  /\ WithEntry => order # <<>> /\ option[Head(order)] = Ours(efi.dev)
  /\ Succeeded => "grub.cfg" \in state
  /\ Succeeded /\ args.firmware = "efi" => <<"boot", "bootx64.efi">> \in efi.files
  /\ Flawless /\ args.firmware = "efi" =>
       Dirs \X ({"shim.efi", "grub.cfg"} \cup (Range(ShimFiles) \cap args.image)) \subseteq efi.files

\* Nothing piles up over any history of runs, interrupted ones included: no two entries
\* point to the shim of one partition ("Does not duplicate if an entry exists"), and
\* after an installation that met no error none points to a partition that is gone.
\* The order that a run writes repeats nothing and names only entries there are, also
\* after Clear left numbers in it whose entries it removed.
EntriesSound ==
  /\ \A m, n \in Mine(option) : option[m] = option[n] => m = n
  /\ WithEntry /\ args.clear /\ Flawless => Cardinality(Mine(option)) = 1
  /\ WithEntry => IsInjective(order) /\ \A i \in DOMAIN order : option[order[i]] # NoOption

\* The other systems stay bootable in the order they had when nothing went wrong.
OthersKeepTheirOrder == Flawless => OthersIn(order, option) = start.others

\* No run touches an entry that is not elemental's, whatever number it has.
OthersUntouched ==
  [][~Ended => \A n \in Number : option[n].name \in {"other", "broken"} => option'[n] = option[n]]_vars

\* Whatever earlier runs left, a run on a sound image succeeds if nothing fails in it,
\* every entry can be parsed and a number is free.
RetrySucceeds ==
  /\ pc = "done" /\ faults = start.faults
  /\ Range(Modules) \cup Range(ShimFiles) \subseteq args.image
  /\ \A n \in Number : option[n].name # "broken"
  /\ \E n \in Number \ {MaxEntry} : option[n] = NoOption
  => err = "none"
=============================================================================
