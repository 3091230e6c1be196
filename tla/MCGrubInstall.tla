---------------------------- MODULE MCGrubInstall ----------------------------
(* The images of GrubInstall for TLC: one with all that a run needs and one   *)
(* without a module, which matters to a BIOS, and the shim, which does to EFI. *)
EXTENDS GrubInstall

Sound    == Range(Modules) \cup Range(ShimFiles)
MCImages == {Sound, Sound \ {"squash4.mod", "shim.efi"}}
=============================================================================
