--------------------------- MODULE MCPrefixCache ---------------------------
(* PrefixCache for TLC: two ids, the second of which opens a user turn.    *)
EXTENDS PrefixCache, TLC

CONSTANTS a, u

MCIds == {a, u}
IdSymmetry == Permutations(MCIds)

=============================================================================
