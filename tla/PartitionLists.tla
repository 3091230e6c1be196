---------------------------- MODULE PartitionLists ----------------------------
(***************************************************************************)
(* The partitions of an install specification (pkg/types/v1/config.go):    *)
(* the named partitions, the extra ones of the configuration, the one the  *)
(* firmware needs, and the order in which the installer creates them.      *)
(***************************************************************************)
EXTENDS Naturals, Sequences, SequencesExt

\* A wanted partition; size in MiB, 0 for all that is left.  fs = "" is a
\* partition that is not formatted.
Wanted(label, size, fs) == [label |-> label, size |-> size, fs |-> fs]

\* SetFirmwarePartitions: GPT disks get a partition for the firmware, others
\* boot from a flag on the state partition.
WithFirmware(parts, firmware, gpt) ==
  IF ~gpt THEN parts
  ELSE IF firmware = "efi" THEN [efi |-> Wanted("efi", 1, "vfat")] @@ parts
                           ELSE [bios |-> Wanted("", 1, "")] @@ parts

DefaultOrder == <<"bios", "efi", "oem", "recovery", "state", "persistent">>

\* Sanitize: at most one of persistent and the extra partitions has size 0.
Sanitized(parts, extras) ==
  Len(SelectSeq(extras \o <<parts["persistent"]>>, LAMBDA p : p.size = 0)) <= 1

\* PartitionsByInstallOrder: the named partitions in the default order, then the
\* extra ones; the first of persistent and the extra ones that has size 0 goes to the
\* end, another one is dropped.
PartitionsByInstallOrder(parts, extras) ==
  LET names  == SelectSeq(DefaultOrder, LAMBDA n : n \in DOMAIN parts /\ n # "persistent")
      named  == [k \in DOMAIN names |-> parts[names[k]]]
      others == <<parts["persistent"]>> \o extras
      rest   == SelectSeq(others, LAMBDA p : p.size = 0)
  IN  named \o SelectSeq(others, LAMBDA p : p.size # 0) \o IF rest = <<>> THEN <<>> ELSE <<Head(rest)>>
=============================================================================
