------------------------------ MODULE MCStages ------------------------------
(***************************************************************************)
(* Stages for TLC: a URL and a local path, one file that only cos.setup *)
(* names, and the extra mounts of the upgrade's chroot hooks.              *)
(***************************************************************************)
EXTENDS Stages

MCExtraMounts == <<"oem", "usr/local">>
MCPaths == <<"https", "oem">>
=============================================================================
