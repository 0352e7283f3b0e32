---------------------------- MODULE MCNvmeSource ----------------------------
(* NvmeSource for TLC: two threads.                                          *)
EXTENDS NvmeSource

=============================================================================
