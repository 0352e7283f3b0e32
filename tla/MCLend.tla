------------------------------- MODULE MCLend -------------------------------
(* Instances of Lend for TLC. *)
EXTENDS Lend

\* Four regions in allocation order, two of one size.
MCSizes == <<2, 4, 2, 1>>

=============================================================================
