--------------------------- MODULE MCGlobalArena ---------------------------
(* Small instances of GlobalArena for TLC.                                   *)
EXTENDS GlobalArena

\* One elastic chunk: the last VRAM slot.
LastSlot == {{VSlots - 1}}
=============================================================================
