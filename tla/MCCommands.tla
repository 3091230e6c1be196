----------------------------- MODULE MCCommands -----------------------------
(***************************************************************************)
(* Commands for TLC: one option of each kind in each layer, so that layers *)
(* meet in the same key; hosts, files and arguments good and bad.          *)
(***************************************************************************)
EXTENDS Commands, TLC

OK(values) == [kind |-> "ok", values |-> values]
Absent == [kind |-> "absent", values |-> <<>>]
Broken == [kind |-> "broken", values |-> <<>>]

\* The installed system with partition names, with labels only, booted from it or
\* from elsewhere, besides a disk that carries a partition named or labelled alike.
Part(name, label, disk, mounted) == [name |-> name, label |-> label, mounted |-> mounted, disk |-> disk]
Own(mounted) == <<Part("efi", "efi", "sda", FALSE), Part("recovery", "MY_RECOVERY", "sda", mounted),
                  Part("state", "state", "sda", FALSE)>>
Unnamed == <<Part("", "efi", "sda", FALSE), Part("", "MY_RECOVERY", "sda", TRUE),
             Part("", "state", "sda", FALSE)>>
Foreign == {<<>>, <<Part("", "state", "sdb", FALSE)>>, <<Part("recovery", "recovery", "sdb", FALSE)>>,
            <<Part("", "recovery", "sdb", TRUE)>>}

Host(efi, live, recovery, parts) ==
  [efi |-> efi, live |-> live, recovery |-> recovery, parts |-> parts,
   labels |-> "recovery" :> "MY_RECOVERY", own |-> "sda"]

Bare      == {Host(e, TRUE, FALSE, <<>>) : e \in BOOLEAN} \cup {Host(TRUE, FALSE, TRUE, <<>>)}
Installed ==
  {Host(TRUE, TRUE, TRUE, Own(TRUE) \o f) : f \in Foreign}
  \cup {Host(TRUE, TRUE, FALSE, f \o Own(FALSE)) : f \in Foreign}
  \cup {Host(TRUE, TRUE, TRUE, Unnamed \o f) : f \in Foreign}
  \cup {Host(TRUE, FALSE, TRUE, Own(TRUE)), Host(FALSE, TRUE, TRUE, Tail(Own(FALSE))),
        Host(TRUE, TRUE, TRUE, Tail(Own(TRUE)))}

MCHosts == [c \in Commands |->
  CASE c = "build-iso" -> {Host(TRUE, FALSE, FALSE, <<>>)}
    [] c = "install"   -> Bare
    [] OTHER           -> Installed \cup {Host(FALSE, TRUE, TRUE, <<>>)}]

MCReleases == {Absent, Broken, OK("reboot" :> "release")}

MCFiles ==
  {Absent, Broken, OK("rootfs" :> "docker:root"), OK("rootfs" :> "docker:Bad"),
   OK("reboot" :> "file" @@ "system.uri" :> "docker:file" @@ "target" :> "disk"),
   OK("growing" :> 1 @@ "target" :> "disk"), OK("growing" :> 2),
   OK("growing" :> 1 @@ "persistent.size" :> "300"),
   OK("persistent.label" :> "DATA"), OK("state.size" :> "some"), OK("arch" :> "unknown")}

Dropin(name, file) == [name |-> name, file |-> file]
MCDropins ==
  {<<>>, <<Dropin("01", OK("reboot" :> "01" @@ "firmware" :> "bios"))>>,
   <<Dropin("01", OK("system.uri" :> "docker:01")), Dropin("02", OK("system.uri" :> "docker:02"))>>,
   <<Dropin("01", OK("system.uri" :> "docker:01")), Dropin("config", OK("target" :> "disk"))>>,
   <<Dropin("nested", OK("reboot" :> "nested"))>>, <<Dropin("01", Broken)>>}

MCEnvironments ==
  {<<>>, "poweroff" :> "env" @@ "target" :> "disk" @@ "cosign" :> "env",
   "system.uri" :> "docker:env" @@ "firmware" :> "env", "recovery" :> "env",
   "recovery-system.uri" :> "docker:Bad"}

MCFlagSets ==
  {<<>>, "system.uri" :> "docker:flag", "docker-image" :> "flag", "directory" :> "flag",
   "docker-image" :> "Bad", "docker-image" :> "flag" @@ "directory" :> "flag",
   "force-efi" :> "true" @@ "firmware" :> "bios", "force-gpt" :> "true" @@ "part-table" :> "msdos",
   "reboot" :> "true" @@ "poweroff" :> "true", "poweroff" :> "true", "cosign-key" :> "key",
   "recovery" :> "true" @@ "recovery-system.uri" :> "docker:flag", "iso" :> "url",
   "overlay-rootfs" :> "there" @@ "overlay-iso" :> "there",
   "overlay-rootfs" :> "there" @@ "overlay-uefi" :> "missing"}
=============================================================================
