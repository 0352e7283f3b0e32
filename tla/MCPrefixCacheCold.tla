------------------------- MODULE MCPrefixCacheCold -------------------------
(* PrefixCacheCold for TLC: two ids; no symmetry, the property is temporal. *)
EXTENDS PrefixCacheCold

CONSTANTS a, u

MCIds == {a, u}

=============================================================================
