---------------------------- MODULE MCPrefillRing ----------------------------
(* The prefill streams for TLC: four layers use each half of the ring twice,   *)
(* three groups come back to the first slot set.                               *)
EXTENDS PrefillRing

\* Every environment but the copy engine with the low-bit tier.
SoundBuilds == {b \in AllBuilds : ~(b.async = 2 /\ b.tier = "low_bit")}

\* The default staging mode, with the low-bit tier.
LowBitBuilds == {[async |-> 2, ring |-> FALSE, tier |-> "low_bit"]}
=============================================================================
