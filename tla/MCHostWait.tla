----------------------------- MODULE MCHostWait -----------------------------
(* Instances of HostWait for TLC: two waiting threads.                      *)
EXTENDS HostWait

CONSTANTS stager, reader

=============================================================================
