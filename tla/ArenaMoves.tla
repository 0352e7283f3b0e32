----------------------------- MODULE ArenaMoves -----------------------------
(* The slots of the global expert arena (glm5_tiers.rs, CROW_GLM_ARENA=      *)
(* global): one ring of VRAM slots and one pool of pinned slots shared by    *)
(* every MoE layer, the container (NVMe) behind them, and what one call of a *)
(* layer may do to the places: the table serve_global, serve_fill and        *)
(* write_back can execute.  GlobalArena decides the moves and is shown to    *)
(* stay inside this table; Stager executes any move of the table.            *)
EXTENDS Integers, Sequences, FiniteSets, SequencesExt

CONSTANTS
  Layers,     \* MoE layers
  Experts,    \* experts of a layer
  VSlots,     \* VRAM slots of the arena
  RSlots      \* pinned slots of the arena

ASSUME ArenaAssumption ==
  /\ Layers \in Nat \ {0} /\ Experts \in Nat \ {0}
  /\ VSlots \in Nat /\ RSlots \in Nat

Keys  == 0 .. Layers * Experts - 1
Vrams == 0 .. VSlots - 1
Rams  == 0 .. RSlots - 1
None  == -1

KeysOf(l) == {k \in Keys : k \div Experts = l}

\* Where the record of a key lies.
Vram(v) == [tier |-> "vram", slot |-> v]
Ram(q)  == [tier |-> "ram", slot |-> q]
Nvme    == [tier |-> "nvme", slot |-> None]
Places  == {Vram(v) : v \in Vrams} \cup {Ram(q) : q \in Rams} \cup {Nvme}

NoPlaces == [k \in Keys |-> Nvme]
InVram(p) == p.tier = "vram"
InRam(p)  == p.tier = "ram"

\* What a move of one key between two calls must be, for serve_global's phases
\* to have a copy for it: a key the call did not select only goes down (a VRAM
\* victim to pinned or out, a pinned one out); a selected one never leaves its
\* tier downwards and never changes pinned slots.
MayMove(selected, from, to) ==
  IF selected
    THEN \/ to = from
         \/ InVram(to) /\ ~InVram(from)
         \/ InRam(to) /\ from = Nvme
    ELSE \/ to = from
         \/ InVram(from) /\ ~InVram(to)
         \/ InRam(from) /\ to = Nvme

ServableMoves(before, after, ids) ==
  \A k \in Keys : MayMove(k \in ids, before[k], after[k])
=============================================================================
