----------------------------- MODULE ImageSlots -----------------------------
(***************************************************************************)
(* What an upgrade (pkg/action/upgrade.go) promises about the three images *)
(* a machine boots from, whatever fails on the way: the active image moves *)
(* to passive in one step, only a complete image takes its place, and only *)
(* a recovery image that was just replaced can be damaged by a power loss. *)
(* Everything else the command does is invisible here.                     *)
(***************************************************************************)
CONSTANTS Content,      \* what an image can hold
          Absent        \* there is no image: a value that is no SlotImage

SystemSlot == {"active", "passive", "recovery"}

\* ok: the content of the image is complete.
SlotImage == [content : Content, ok : BOOLEAN]

VARIABLES image,     \* [SystemSlot -> SlotImage \cup {Absent}]
          rotated,   \* active was moved to passive, its place is empty
          unsynced   \* recovery was replaced, nothing made it durable yet

vars == <<image, rotated, unsynced>>

Complete(c) == [content |-> c, ok |-> TRUE]
Torn(file)  == [content |-> file.content, ok |-> FALSE]

Init ==
  /\ image \in [SystemSlot -> {Complete(c) : c \in Content}]
  /\ rotated = FALSE /\ unsynced = FALSE

\* active becomes passive, whatever passive held.
Rotate ==
  /\ ~rotated /\ image["active"] # Absent
  /\ image' = [image EXCEPT !["passive"] = image["active"], !["active"] = Absent]
  /\ rotated' = TRUE
  /\ UNCHANGED unsynced

\* A new active image, after the rotation only.
Install(c) ==
  /\ rotated
  /\ image' = [image EXCEPT !["active"] = Complete(c)]
  /\ rotated' = FALSE
  /\ UNCHANGED unsynced

\* The run ends without a new active image.
Abandon == rotated /\ rotated' = FALSE /\ UNCHANGED <<image, unsynced>>

ReplaceRecovery(c) ==
  /\ ~rotated
  /\ image' = [image EXCEPT !["recovery"] = Complete(c)] /\ unsynced' = TRUE
  /\ UNCHANGED rotated

\* The recovery image reaches the disk, or a power loss tears it.
Settle == unsynced /\ unsynced' = FALSE /\ UNCHANGED <<image, rotated>>
Damage ==
  /\ unsynced /\ unsynced' = FALSE
  /\ image' = [image EXCEPT !["recovery"] = Torn(@)]
  /\ UNCHANGED rotated

Next ==
  \/ Rotate \/ Abandon \/ Settle \/ Damage
  \/ \E c \in Content : Install(c) \/ ReplaceRecovery(c)

Spec == Init /\ [][Next]_vars
-----------------------------------------------------------------------------
TypeOK ==
  /\ image \in [SystemSlot -> SlotImage \cup {Absent}]
  /\ rotated \in BOOLEAN /\ unsynced \in BOOLEAN
  /\ unsynced => image["recovery"] # Absent

\* There is always a complete active or passive image, and never a damaged one,
\* also when one upgrade after the other stops half way (the renames of Run).
SlotsSurvive ==
  /\ \E s \in {"active", "passive"} : image[s] # Absent
  /\ \A s \in {"active", "passive"} : image[s] # Absent => image[s].ok
=============================================================================
