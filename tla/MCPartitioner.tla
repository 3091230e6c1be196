---------------------------- MODULE MCPartitioner -----------------------------
(* Disks, layouts and installations for model checking Partitioner.          *)
EXTENDS Partitioner

Old(n, first, size, label, fs) ==
  [num |-> n, start |-> first, size |-> size, label |-> label, fs |-> fs,
   full |-> TRUE, data |-> TRUE, made |-> 0]

\* In sectors of half a MiB: an empty disk, one partition, two with a gap.
MCTables == {<<>>,
             <<Old(1, 2, 4, "persistent", "ext4")>>,
             <<Old(1, 2, 2, "state", "ext4"), Old(2, 6, 2, "persistent", "xfs")>>}

MCLayouts ==
  {[expand |-> e, parts |-> p] :
     e \in {{}, {0}, {2}, {4}},
     p \in {<<>>, <<Wanted("data", 1, "ext4")>>,
            <<Wanted("data", 1, "xfs"), Wanted("more", 1, "vfat"), Wanted("rest", 0, "xfs")>>}}

Parts(state, persistent) ==
  [n \in {"state", "persistent"} |->
     IF n = "state" THEN Wanted("state", state, "ext4") ELSE Wanted("persistent", persistent, "ext4")]
MCInstalls ==
  {[parts |-> WithFirmware(Parts(1, p), f, GPTBackup > 0), extras |-> x] :
     p \in {0, 1}, f \in {"efi", "bios"},
     x \in {<<>>, <<Wanted("extra", 0, "xfs")>>, <<Wanted("data", 1, "ext4")>>}}
==============================================================================
