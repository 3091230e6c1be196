---------------------------- MODULE UpgradeSlots ----------------------------
(***************************************************************************)
(* The upgrade as an implementation of ImageSlots: what the image files    *)
(* and the stage of the run mean for the slots.                            *)
(***************************************************************************)
EXTENDS Upgrade

\* What ImageSlots sees of an image file.
Seen(file) == IF file.fs = "none" THEN NoFile ELSE [content |-> file.content, ok |-> file.ok]

slots    == [s \in SystemSlot |-> Seen(disk[s])]
rotating == pc \in {"label", "swap"} /\ ~spec.recovery
pending  == disk["recovery"].dirty

Slots == INSTANCE ImageSlots WITH
           Content  <- SUBSET Version,
           Absent   <- NoFile,
           image    <- slots,
           rotated  <- rotating,
           unsynced <- pending

\* An upgrade, with all its failures, power losses and retries, does to the
\* three bootable images only what ImageSlots promises (Run of upgrade.go).
ImplementsImageSlots == Slots!Spec
=============================================================================
