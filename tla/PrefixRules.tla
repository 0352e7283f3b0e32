---------------------------- MODULE PrefixRules ----------------------------
(***************************************************************************)
(* The pure rules of the prefix cache (engine/src/cache.rs): which held    *)
(* snapshot a request may resume from, which slot a new snapshot takes,    *)
(* what a cold start does with the held conversation, and how far a parked *)
(* conversation can still be trusted.  No state: every operator takes the  *)
(* slots, the park and the histories it reads as arguments.                *)
(*                                                                         *)
(* Data.  A token id is a member of Ids.  What a device buffer holds is    *)
(* the id sequence it was computed from BY PREFILL; anything else (decode  *)
(* rows, rejected drafts, uninitialised memory) is Junk, the empty         *)
(* sequence.  A slot with pos = 0 is empty: a snapshot follows a prefill   *)
(* of at least one token, so no held slot sits at 0.                       *)
(***************************************************************************)
EXTENDS Integers, Sequences

CONSTANTS
  Ids,        \* token ids
  Turn,       \* the id that opens a user turn (the template's first turn id)
  NCtx,       \* n_ctx: KV rows per head
  Compress,   \* KV rows of one pooled QSA block
  NSlots,     \* SLOTS (3), plus one under CROW_PREFIX_ANCHOR=1
  ParkCap,    \* CROW_PREFIX_PARK_ROWS; 0 turns parking off
  AnchorOn,   \* CROW_PREFIX_ANCHOR=1
  AnchorMin   \* ANCHOR_MIN

ASSUME RulesAssumption ==
  /\ NCtx \in Nat \ {0}
  /\ Compress \in Nat \ {0}
  /\ NSlots \in Nat \ {0, 1}
  /\ ParkCap \in Nat
  /\ AnchorOn \in BOOLEAN
  /\ AnchorMin \in Nat

Junk == << >>
Prefix(s, n) == SubSeq(s, 1, n)
Least(a, b) == IF a <= b THEN a ELSE b
Greatest(a, b) == IF a <= b THEN b ELSE a

Rows == 0 .. NCtx - 1
CapBlocks == (NCtx + Compress - 1) \div Compress
Blocks == 0 .. CapBlocks - 1
SlotIx == 1 .. NSlots

\* Snapshot: one held position and the host copies that name it
EmptySlot == [pos |-> 0, done |-> 0, rec |-> Junk, logits |-> Junk,
              parked |-> FALSE, head |-> FALSE]

\* Parked: the conversation set aside, its KV rows 0..rows-1 and pooled
\* blocks 0..blocks-1 copied to host RAM; history = << >> is None
NoPark == [history |-> << >>, rows |-> 0, blocks |-> 0, dirty |-> 0,
           kv |-> [r \in Rows |-> Junk], pooled |-> [b \in Blocks |-> Junk]]

-----------------------------------------------------------------------------
(* Reuse: spec 7.4                                                         *)

\* p <= common_prefix_len(a, b)
InCommonPrefix(p, a, b) ==
  /\ p <= Len(a)
  /\ p <= Len(b)
  /\ Prefix(a, p) = Prefix(b, p)

LiveSlots(slots) == {i \in SlotIx : slots[i].pos > 0 /\ ~slots[i].parked}
ParkedSlots(slots) == {i \in SlotIx : slots[i].pos > 0 /\ slots[i].parked}
EmptySlots(slots) == {i \in SlotIx : slots[i].pos = 0}

\* rows 0..min(dirty, p)-1 were overwritten, the park puts back 0..rows-1
ParkedUsable(p, dirty, rows) == Least(p, dirty) <= rows
ParkRows(top) == Least(top, ParkCap)
\* Mutant: only the complete blocks, without the one that holds row `rows`
ParkBlocksComplete(rows) == Least(rows \div Compress, CapBlocks)
ParkBlocks(rows) == Least(rows \div Compress + 1, CapBlocks)

ParkedCandidates(slots, park, dirty) ==
  {i \in ParkedSlots(slots) : ParkedUsable(slots[i].pos, dirty, park.rows)}

\* Mutant: a slot at the end of the prompt is taken without a logits row
EligibleNoLogits(cands, slots, held, ids) ==
  {i \in cands : InCommonPrefix(slots[i].pos, held, ids)}

\* the slots of cands a request for ids may resume from, held being their
\* history: a position AT the end of the prompt needs its logits row (#100)
Eligible(cands, slots, held, ids) ==
  {i \in cands :
     /\ InCommonPrefix(slots[i].pos, held, ids)
     /\ slots[i].pos = Len(ids) => slots[i].logits # Junk}

\* reuse_slot_with_logits: the largest position, the lower index on a tie
IsBest(i, cands, slots) ==
  /\ i \in cands
  /\ \A j \in cands : \/ slots[j].pos < slots[i].pos
                      \/ slots[j].pos = slots[i].pos /\ i <= j

LiveEligible(slots, history, ids) ==
  Eligible(LiveSlots(slots), slots, history, ids)

ParkEligible(slots, park, history, ids) ==
  Eligible(ParkedCandidates(slots, park, Greatest(park.dirty, Len(history))),
           slots, park.history, ids)

\* decide_mm: the parked conversation is taken only when it reuses more
ResumesParked(i, slots, park, history, ids) ==
  /\ park # NoPark
  /\ IsBest(i, ParkEligible(slots, park, history, ids), slots)
  /\ \A j \in LiveEligible(slots, history, ids) : slots[j].pos < slots[i].pos

ResumesLive(i, slots, park, history, ids) ==
  /\ IsBest(i, LiveEligible(slots, history, ids), slots)
  /\ ~ \E j \in SlotIx : ResumesParked(j, slots, park, history, ids)

GoesCold(slots, park, history, ids) ==
  /\ LiveEligible(slots, history, ids) = {}
  /\ ~ \E j \in SlotIx : ResumesParked(j, slots, park, history, ids)

-----------------------------------------------------------------------------
(* Forgetting                                                              *)

\* drop_live: the parked conversation keeps its snapshots
DropLive(slots) ==
  [i \in SlotIx |-> IF slots[i].parked THEN slots[i] ELSE EmptySlot]

\* Mutant: a rollback forgets nothing
ForgetNothing(slots, p) == slots

\* Mutant: a rollback of the live conversation forgets parked slots too
ForgetParkedToo(slots, p) ==
  [i \in SlotIx |-> IF slots[i].pos > p THEN EmptySlot ELSE slots[i]]

\* rolled_back: live slots above p name a discarded branch
ForgetAbove(slots, p) ==
  [i \in SlotIx |-> IF ~slots[i].parked /\ slots[i].pos > p
                    THEN EmptySlot ELSE slots[i]]

\* adopt_parked: the live slots are dropped, the parked ones become live
AdoptParked(slots) ==
  [i \in SlotIx |-> IF slots[i].parked THEN [slots[i] EXCEPT !.parked = FALSE]
                    ELSE EmptySlot]

\* invalidate
NoSlots == [i \in SlotIx |-> EmptySlot]

-----------------------------------------------------------------------------
(* The cold start: plan_cold and apply_cold (#118)                         *)

\* the parked slots that survive a request of newLen ids
Kept(slots, park, liveLen, newLen) ==
  IF park = NoPark THEN {}
  ELSE ParkedCandidates(slots, park,
         Greatest(Greatest(park.dirty, liveLen), newLen))

\* the newest live slot i is worth parking: it survives the request and is
\* at least as large as what is parked already
PlanPark(i, slots, park, liveLen, newLen) ==
  LET t == slots[i].pos IN
  /\ ParkCap > 0
  /\ i \in LiveSlots(slots)
  /\ \A j \in LiveSlots(slots) : slots[j].pos <= t
  /\ ParkedUsable(t, newLen, ParkRows(t))
  /\ \A k \in Kept(slots, park, liveLen, newLen) : slots[k].pos <= t

PlanKeep(slots, park, liveLen, newLen) ==
  /\ ParkCap > 0
  /\ Kept(slots, park, liveLen, newLen) # {}
  /\ ~ \E i \in SlotIx : PlanPark(i, slots, park, liveLen, newLen)

PlanDrop(slots, park, liveLen, newLen) ==
  \/ ParkCap = 0
  \/ /\ Kept(slots, park, liveLen, newLen) = {}
     /\ ~ \E i \in SlotIx : PlanPark(i, slots, park, liveLen, newLen)

\* apply_cold, Park: an older parked conversation is dropped and every live
\* slot becomes a parked one
ParkLive(slots) ==
  [i \in SlotIx |-> IF i \in LiveSlots(slots)
                    THEN [slots[i] EXCEPT !.parked = TRUE] ELSE EmptySlot]

-----------------------------------------------------------------------------
(* claim: the slot a snapshot is copied into                               *)

IsFirst(i, S) == i \in S /\ \A j \in S : i <= j

IsSmallest(i, S, slots) ==
  /\ i \in S
  /\ \A j \in S : \/ slots[i].pos < slots[j].pos
                  \/ slots[i].pos = slots[j].pos /\ i <= j

\* Mutant: head anchors are not spared
IsSmallestOfAny(i, side, head, slots) == IsSmallest(i, side, slots)

\* smallest_of: turn snapshots give way before head anchors, and a new head
\* anchor replaces an old one first
IsSmallestOf(i, side, head, slots) ==
  LET heads  == {j \in side : slots[j].head}
      others == side \ heads
      first  == IF head THEN heads ELSE others
  IN IsSmallest(i, IF first # {} THEN first ELSE side, slots)

\* Mutant: parked slots give way before live ones
ClaimsParkedFirst(i, slots, pos, head) ==
  LET same == {j \in LiveSlots(slots) : slots[j].pos = pos} IN
  IF same # {} THEN IsFirst(i, same)
  ELSE IF EmptySlots(slots) # {} THEN IsFirst(i, EmptySlots(slots))
  ELSE IF ParkedSlots(slots) # {} THEN IsSmallestOf(i, ParkedSlots(slots), head, slots)
  ELSE IsSmallestOf(i, LiveSlots(slots), head, slots)

\* the live slot already at pos, else an empty one, else the smallest live
\* one, else the smallest parked one (the code's `spare_parked` picks the
\* same slot as the branch after it)
Claims(i, slots, pos, head) ==
  LET same == {j \in LiveSlots(slots) : slots[j].pos = pos} IN
  IF same # {} THEN IsFirst(i, same)
  ELSE IF EmptySlots(slots) # {} THEN IsFirst(i, EmptySlots(slots))
  ELSE IF LiveSlots(slots) # {} THEN IsSmallestOf(i, LiveSlots(slots), head, slots)
  ELSE IsSmallestOf(i, ParkedSlots(slots), head, slots)

\* the claimed slot, filled with s, moves to the front; the others keep
\* their order
RotateIn(slots, i, s) ==
  [k \in SlotIx |-> IF k = 1 THEN s
                    ELSE IF k <= i THEN slots[k - 1] ELSE slots[k]]

-----------------------------------------------------------------------------
(* anchor_point: the first user turn of the prompt, when it is long        *)
(* enough, not already reused, and something follows it                    *)

IsAnchorPoint(b, prompt, cached) ==
  /\ AnchorOn
  /\ b \in 0 .. Len(prompt) - 1
  /\ prompt[b + 1] = Turn
  /\ \A k \in 1 .. b : prompt[k] # Turn
  /\ b >= AnchorMin
  /\ b > cached

=============================================================================
