------------------------------ MODULE MCStager ------------------------------
(* Stager for TLC: three experts over one VRAM slot and two pinned slots.    *)
(* One VRAM slot gives one write-back a call: within two calls a ring of one *)
(* entry is taken a second time, landed or busy, and one of two entries has  *)
(* two write-backs under way at once.                                        *)
EXTENDS Stager

=============================================================================
