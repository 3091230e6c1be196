----------------------------- MODULE MCBuildISO -----------------------------
(***************************************************************************)
(* BuildISO for TLC: EFI and BIOS, the boot loader of the root or none, an *)
(* overlay over the root, EFI and ISO sources, one of which may hold the   *)
(* boot loader of a BIOS, and a root without system.                       *)
(***************************************************************************)
EXTENDS BuildISO

MCExtraMounts == <<>>

ISO(rootfs, uefi, image, firmware, bootloader) ==
  [rootfs |-> rootfs, uefi |-> uefi, image |-> image,
   firmware |-> firmware, bootloader |-> bootloader]

MCSpecs ==
  {ISO(<<"os", "overlay">>, <<"grubEFI">>, <<"overlayISO">>, f, b) :
     f \in {"efi", "bios"}, b \in BOOLEAN}
  \cup {ISO(<<"os">>, <<>>, <<"loaderISO", "overlayISO">>, "bios", b) : b \in BOOLEAN}
  \cup {ISO(<<"osImage">>, <<>>, <<>>, f, TRUE) : f \in {"efi", "bios"}}
  \cup {ISO(<<"overlay">>, <<>>, <<>>, f, b) : f \in {"efi", "bios"}, b \in BOOLEAN}
=============================================================================
