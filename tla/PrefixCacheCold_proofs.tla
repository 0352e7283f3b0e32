----------------------- MODULE PrefixCacheCold_proofs -----------------------
(***************************************************************************)
(* What a held conversation is worth: every snapshot, parked conversation  *)
(* and slot file is the prefill its ids say, and the first draw of every   *)
(* request reads what an engine without a cache would have computed.       *)
(***************************************************************************)
EXTENDS PrefixCacheCold, SequenceTheorems, TLAPS

-----------------------------------------------------------------------------
(* Sequences                                                               *)

\* A prefix of an id list is an id list of the length asked for, and agrees
\* with the list on every index (SubSeq as Prefix uses it).
LEMMA PrefixOf ==
  ASSUME NEW s \in Seq(Ids), NEW n \in Nat, n <= Len(s)
  PROVE  /\ Prefix(s, n) \in Seq(Ids)
         /\ Len(Prefix(s, n)) = n
         /\ \A i \in 1 .. n : Prefix(s, n)[i] = s[i]
<1>1. \A i \in 1 .. n : s[i] \in Ids
  BY ElementOfSeq
<1>2. 1 \in Int /\ n \in Int
  OBVIOUS
<1>3. /\ SubSeq(s, 1, n) \in Seq(Ids)
      /\ Len(SubSeq(s, 1, n)) = IF 1 <= n THEN n - 1 + 1 ELSE 0
      /\ \A i \in 1 .. n - 1 + 1 : SubSeq(s, 1, n)[i] = s[1 + i - 1]
  BY <1>1, <1>2, SubSeqProperties
<1>. QED
  BY <1>3 DEF Prefix

\* Junk, the empty list, is an id list.
LEMMA JunkType == Junk \in Seq(Ids)
  BY EmptySeq DEF Junk

\* A prompt is a non-empty id list shorter than the KV buffer.
LEMMA PromptType ==
  ASSUME NEW ids \in Prompts
  PROVE  ids \in Seq(Ids) /\ Len(ids) \in 1 .. NCtx - 1
<1>1. PICK n \in 1 .. MaxPrompt : ids \in [1 .. n -> Ids]
  BY DEF Prompts
<1>2. n \in Nat /\ n \in 1 .. NCtx - 1
  BY CacheAssumption, RulesAssumption
<1>3. ids \in Seq(Ids)
  BY <1>1, <1>2, SeqDef
<1>4. Len(ids) = n
  BY <1>1, <1>2, <1>3, LenProperties
<1>. QED
  BY <1>2, <1>3, <1>4

\* Multiplying by a natural number is monotonic.
LEMMA MulMono ==
  ASSUME NEW c \in Nat, NEW a \in Int, NEW b \in Int, a <= b
  PROVE  c * a <= c * b
<1>1. c * (b - a) = c * b - c * a
  BY SMT
<1>2. c * (b - a) >= 0
  BY SMT
<1>3. c * a \in Int /\ c * b \in Int
  BY SMT
<1>. QED
  BY <1>1, <1>2, <1>3

\* Blocks completed by n rows: the quotient is a natural number, and a block is
\* complete exactly when its last row lies below n (done_blocks, gen.rs).
LEMMA DivBound ==
  ASSUME NEW n \in Nat, NEW c \in Nat \ {0}
  PROVE  /\ n \div c \in Nat
         /\ \A b \in Nat : /\ (b + 1) * c \in Nat
                           /\ b < n \div c <=> (b + 1) * c <= n
<1>1. n \div c \in Int /\ n % c \in 0 .. c - 1 /\ n = c * (n \div c) + (n % c)
  BY SMT
<1>. DEFINE q == n \div c
            m == n % c
<1>2. q \in Int /\ m \in Int /\ 0 <= m /\ m < c /\ n = c * q + m
  BY <1>1
<1>. HIDE DEF q, m
<1>3. q \in Nat
  <2>1. SUFFICES ASSUME q <= -1 PROVE FALSE
    BY <1>2
  <2>2. c * q <= c * (-1)
    BY <1>2, <2>1, MulMono
  <2>. QED
    BY <1>2, <2>2
<1>4. ASSUME NEW b \in Nat
      PROVE  /\ (b + 1) * c \in Nat
             /\ b < q <=> (b + 1) * c <= n
  <2>1. (b + 1) * c \in Nat /\ (b + 1) * c = c * (b + 1)
    BY SMT
  <2>2. CASE b < q
    <3>1. c * (b + 1) <= c * q
      BY <1>2, <2>2, MulMono
    <3>. QED
      BY <1>2, <2>1, <2>2, <3>1
  <2>3. CASE q <= b
    <3>1. c * q <= c * b
      BY <1>2, <2>3, MulMono
    <3>2. c * (b + 1) = c * b + c
      BY SMT
    <3>. QED
      BY <1>2, <2>1, <2>3, <3>1, <3>2
  <2>. QED
    BY <1>2, <2>2, <2>3
<1>. QED
  BY <1>3, <1>4 DEF q

\* Block indices are natural numbers.
LEMMA BlockType ==
  CapBlocks \in Nat /\ \A b \in Blocks : b \in Nat
<1>1. /\ NCtx \in Nat /\ Compress \in Nat \ {0}
      /\ NCtx + Compress - 1 \in Nat
  BY RulesAssumption
<1>2. CapBlocks \in Nat
  BY <1>1, DivBound DEF CapBlocks
<1>. QED
  BY <1>2 DEF Blocks

-----------------------------------------------------------------------------
(* The rules keep the types of the slots                                   *)

\* An empty slot is a slot, and the absent park is a park.
LEMMA EmptyTypes ==
  /\ EmptySlot \in SlotType
  /\ NoSlots \in [SlotIx -> SlotType]
  /\ NoPark \in ParkType
<1>1. Junk \in Seq(Ids) /\ << >> \in Seq(Ids)
  BY JunkType, EmptySeq
<1>2. EmptySlot \in SlotType
  BY <1>1 DEF EmptySlot, SlotType, CellType
<1>. QED
  BY <1>1, <1>2 DEF NoSlots, NoPark, ParkType, CellType

\* Forgetting, adopting and parking slots yields slots.
LEMMA ForgetTypes ==
  ASSUME NEW sl \in [SlotIx -> SlotType], NEW p \in Nat
  PROVE  /\ DropLive(sl) \in [SlotIx -> SlotType]
         /\ ForgetAbove(sl, p) \in [SlotIx -> SlotType]
         /\ AdoptParked(sl) \in [SlotIx -> SlotType]
         /\ ParkLive(sl) \in [SlotIx -> SlotType]
<1>1. EmptySlot \in SlotType
  BY EmptyTypes
<1>2. ASSUME NEW s \in SlotType, NEW b \in BOOLEAN
      PROVE  [s EXCEPT !.parked = b] \in SlotType
  BY DEF SlotType
<1>3. \A i \in SlotIx : /\ [sl[i] EXCEPT !.parked = FALSE] \in SlotType
                        /\ [sl[i] EXCEPT !.parked = TRUE] \in SlotType
  BY <1>2
<1>. QED
  BY <1>1, <1>3 DEF DropLive, ForgetAbove, AdoptParked, ParkLive

\* Filling the claimed slot and moving it to the front yields slots.
LEMMA RotateType ==
  ASSUME NEW sl \in [SlotIx -> SlotType], NEW i \in SlotIx, NEW s \in SlotType
  PROVE  RotateIn(sl, i, s) \in [SlotIx -> SlotType]
<1>1. ASSUME NEW k \in SlotIx, k # 1, k <= i
      PROVE  k - 1 \in SlotIx
  BY <1>1, RulesAssumption DEF SlotIx
<1>. QED
  BY <1>1 DEF RotateIn

-----------------------------------------------------------------------------
(* What a decision guarantees                                              *)

\* The live slot a request resumes from holds a common prefix of the history
\* and the prompt, with a logits row when it ends the prompt.
LEMMA ResumesLiveFacts ==
  ASSUME NEW sl, NEW pk, NEW h, NEW ids, NEW i,
         ResumesLive(i, sl, pk, h, ids)
  PROVE  /\ i \in SlotIx /\ sl[i].pos > 0 /\ sl[i].parked = FALSE
         /\ InCommonPrefix(sl[i].pos, h, ids)
         /\ sl[i].pos = Len(ids) => sl[i].logits # Junk
<1>1. i \in LiveEligible(sl, h, ids)
  BY DEF ResumesLive, IsBest
<1>2. i \in Eligible(LiveSlots(sl), sl, h, ids)
  BY <1>1 DEF LiveEligible
<1>3. /\ i \in LiveSlots(sl)
      /\ InCommonPrefix(sl[i].pos, h, ids)
      /\ sl[i].pos = Len(ids) => sl[i].logits # Junk
  BY <1>2 DEF Eligible
<1>4. i \in SlotIx /\ sl[i].pos > 0 /\ ~sl[i].parked
  BY <1>3 DEF LiveSlots
<1>. QED
  BY <1>3, <1>4

\* The parked slot a request resumes from is usable, and holds a common prefix
\* of the parked history and the prompt.
LEMMA ResumesParkedFacts ==
  ASSUME NEW sl, NEW pk, NEW h, NEW ids, NEW i,
         ResumesParked(i, sl, pk, h, ids)
  PROVE  /\ pk # NoPark
         /\ i \in ParkedCandidates(sl, pk, Greatest(pk.dirty, Len(h)))
         /\ i \in SlotIx /\ sl[i].pos > 0 /\ sl[i].parked
         /\ InCommonPrefix(sl[i].pos, pk.history, ids)
         /\ sl[i].pos = Len(ids) => sl[i].logits # Junk
<1>1. i \in ParkEligible(sl, pk, h, ids) /\ pk # NoPark
  BY DEF ResumesParked, IsBest
<1>2. i \in Eligible(ParkedCandidates(sl, pk, Greatest(pk.dirty, Len(h))), sl, pk.history, ids)
  BY <1>1 DEF ParkEligible
<1>3. /\ i \in ParkedCandidates(sl, pk, Greatest(pk.dirty, Len(h)))
      /\ InCommonPrefix(sl[i].pos, pk.history, ids)
      /\ sl[i].pos = Len(ids) => sl[i].logits # Junk
  BY <1>2 DEF Eligible
<1>4. i \in ParkedSlots(sl)
  BY <1>3 DEF ParkedCandidates
<1>5. i \in SlotIx /\ sl[i].pos > 0 /\ sl[i].parked
  BY <1>4 DEF ParkedSlots
<1>. QED
  BY <1>1, <1>3, <1>5

-----------------------------------------------------------------------------
(* The cache operations keep the types of the engine                       *)

\* A rollback onto a slot that is a prefix of its history keeps the engine
\* typed, with the position at the end of the history.
LEMMA RestoreSlotType ==
  ASSUME TypeOK,
         NEW s \in SlotType, NEW held \in Seq(Ids),
         s.pos <= Len(held), s.pos < NCtx,
         RestoreSlot(s, held)
  PROVE  /\ cap' \in BOOLEAN
         /\ rec' \in Seq(Ids) /\ logits' \in Seq(Ids)
         /\ pos' \in Nat /\ pos' < NCtx /\ done' \in Nat
         /\ history' \in Seq(Ids) /\ Len(history') = pos'
<1>1. s.pos \in Nat /\ s.done \in Nat /\ s.rec \in Seq(Ids) /\ s.logits \in Seq(Ids)
  BY DEF SlotType, CellType
<1>2. Prefix(held, s.pos) \in Seq(Ids) /\ Len(Prefix(held, s.pos)) = s.pos
  BY <1>1, PrefixOf
<1>. QED
  BY <1>1, <1>2 DEF RestoreSlot, DropDecodeGraph, TypeOK, CellType

\* A reset engine is typed.
LEMMA ResetType ==
  ASSUME ResetToZero
  PROVE  /\ cap' \in BOOLEAN /\ rec' \in Seq(Ids)
         /\ pos' \in Nat /\ pos' < NCtx /\ done' \in Nat
         /\ history' \in Seq(Ids) /\ Len(history') = pos'
<1>1. << >> \in Seq(Ids) /\ Len(<< >>) = 0
  BY EmptySeq
<1>2. 0 < NCtx
  BY RulesAssumption
<1>. QED
  BY <1>1, <1>2, JunkType DEF ResetToZero, DropDecodeGraph

\* A snapshot of a typed engine keeps slots and park typed.
LEMMA TakeSnapshotType ==
  ASSUME TypeOK, NEW head \in BOOLEAN,
         pos' \in Nat, done' \in Nat, rec' \in Seq(Ids), logits' \in Seq(Ids),
         TakeSnapshot(head)
  PROVE  slots' \in [SlotIx -> SlotType] /\ park' \in ParkType
<1>1. PICK i \in SlotIx :
        /\ slots' = RotateIn(slots, i,
             [pos |-> pos', done |-> done', rec |-> rec', logits |-> logits',
              parked |-> FALSE, head |-> head])
        /\ park' = IF ParkedSlots(slots) \ {i} = {} THEN NoPark ELSE park
  BY DEF TakeSnapshot, ParkWithout
<1>2. [pos |-> pos', done |-> done', rec |-> rec', logits |-> logits',
       parked |-> FALSE, head |-> head] \in SlotType
  BY DEF SlotType, CellType
<1>. QED
  BY <1>1, <1>2, RotateType, EmptyTypes DEF TypeOK

-----------------------------------------------------------------------------
(* Type correctness, one lemma per group of actions                        *)

\* A request that is accepted: warm, from the park, or cold.
LEMMA StartType ==
  ASSUME TypeOK, NEW ids \in Prompts,
         \/ \E i \in SlotIx : StartWarm(ids, i) \/ StartParked(ids, i)
         \/ StartCold(ids)
  PROVE  TypeOK'
<1>1. ids \in Seq(Ids) /\ Len(ids) < NCtx
  BY PromptType, RulesAssumption
<1>2. ASSUME NEW i \in SlotIx, StartWarm(ids, i)
      PROVE  TypeOK'
  <2>1. /\ slots[i] \in SlotType /\ slots[i].pos \in Nat
        /\ slots[i].pos <= Len(history) /\ slots[i].pos < NCtx
    <3>1. i \in SlotIx /\ InCommonPrefix(slots[i].pos, history, ids)
      BY <1>2, ResumesLiveFacts DEF StartWarm
    <3>2. slots[i] \in SlotType
      BY <3>1 DEF TypeOK
    <3>. QED
      BY <3>1, <3>2, RulesAssumption DEF InCommonPrefix, TypeOK, SlotType
  <2>2. /\ cap' \in BOOLEAN
        /\ rec' \in Seq(Ids) /\ logits' \in Seq(Ids)
        /\ pos' \in Nat /\ pos' < NCtx /\ done' \in Nat
        /\ history' \in Seq(Ids) /\ Len(history') = pos'
    BY <1>2, <2>1, RestoreSlotType DEF StartWarm, TypeOK, CellType
  <2>3. slots' \in [SlotIx -> SlotType]
    BY <1>2, <2>1, ForgetTypes DEF StartWarm, TypeOK
  <2>4. park' \in ParkType
    <3>1. Greatest(park.dirty, Len(history)) \in Nat
      BY DEF TypeOK, ParkType, Greatest
    <3>2. park' = IF park = NoPark THEN NoPark
                  ELSE [park EXCEPT !.dirty = Greatest(park.dirty, Len(history))]
      BY <1>2 DEF StartWarm
    <3>. QED
      BY <3>1, <3>2, EmptyTypes DEF TypeOK, ParkType
  <2>. QED
    BY <1>1, <1>2, <2>2, <2>3, <2>4 DEF StartWarm, Accept, TypeOK, CellType
<1>3. ASSUME NEW i \in SlotIx, StartParked(ids, i)
      PROVE  TypeOK'
  <2>1. /\ slots[i] \in SlotType /\ slots[i].pos \in Nat
        /\ slots[i].pos <= Len(park.history)
        /\ slots[i].pos <= Len(ids)
    <3>1. i \in SlotIx /\ InCommonPrefix(slots[i].pos, park.history, ids)
      BY <1>3, ResumesParkedFacts DEF StartParked
    <3>2. slots[i] \in SlotType
      BY <3>1 DEF TypeOK
    <3>. QED
      BY <3>1, <3>2 DEF InCommonPrefix, SlotType
  <2>2. /\ park.history \in Seq(Ids) /\ park.kv \in [Rows -> Seq(Ids)]
        /\ park.pooled \in [Blocks -> Seq(Ids)]
    BY DEF TypeOK, ParkType, CellType
  <2>3. slots[i].pos < NCtx
    BY <1>1, <2>1, RulesAssumption
  <2>4. /\ cap' \in BOOLEAN
        /\ rec' \in Seq(Ids) /\ logits' \in Seq(Ids)
        /\ pos' \in Nat /\ pos' < NCtx /\ done' \in Nat
        /\ history' \in Seq(Ids) /\ Len(history') = pos'
    BY <1>3, <2>1, <2>2, <2>3, RestoreSlotType DEF StartParked
  <2>5. slots' \in [SlotIx -> SlotType]
    BY <1>3, <2>1, ForgetTypes DEF StartParked, TypeOK
  <2>6. kv' \in [Rows -> Seq(Ids)] /\ pooled' \in [Blocks -> Seq(Ids)]
    BY <1>3, <2>2 DEF StartParked, TypeOK, CellType
  <2>. QED
    BY <1>1, <1>3, <2>4, <2>5, <2>6, EmptyTypes DEF StartParked, Accept, TypeOK, CellType
<1>4. ASSUME StartCold(ids)
      PROVE  TypeOK'
  <2>1. slots' \in [SlotIx -> SlotType] /\ park' \in ParkType
    <3>1. ASSUME NEW i \in SlotIx, ColdPark(ids, i)
          PROVE  slots' \in [SlotIx -> SlotType] /\ park' \in ParkType
      <4>1. ParkRows(slots[i].pos) \in Nat
        BY RulesAssumption DEF ParkRows, Least, TypeOK, SlotType
      <4>2. ParkBlocks(ParkRows(slots[i].pos)) \in Nat
        BY <4>1, RulesAssumption DEF ParkBlocks, CapBlocks, Least
      <4>. DEFINE rows == ParkRows(slots[i].pos)
      <4>. DEFINE blocks == ParkBlocks(rows)
      <4>3. /\ [r \in Rows |-> IF r < rows THEN kv[r] ELSE Junk] \in [Rows -> CellType]
            /\ [b \in Blocks |-> IF b < blocks THEN pooled[b] ELSE Junk] \in [Blocks -> CellType]
        BY JunkType DEF TypeOK, CellType
      <4>4. park' = [history |-> history, rows |-> rows, blocks |-> blocks, dirty |-> 0,
                     kv |-> [r \in Rows |-> IF r < rows THEN kv[r] ELSE Junk],
                     pooled |-> [b \in Blocks |-> IF b < blocks THEN pooled[b] ELSE Junk]]
        BY <3>1 DEF ColdPark
      <4>5. history \in CellType /\ rows \in Nat /\ blocks \in Nat
        BY <4>1, <4>2 DEF TypeOK
      <4>. HIDE DEF rows, blocks
      <4>6. park' \in ParkType
        BY <4>3, <4>4, <4>5 DEF ParkType
      <4>. QED
        BY <3>1, <4>6, ForgetTypes DEF ColdPark, TypeOK
    <3>2. ASSUME ColdKeep(ids)
          PROVE  slots' \in [SlotIx -> SlotType] /\ park' \in ParkType
      <4>1. Greatest(park.dirty, Len(history)) \in Nat
        BY DEF TypeOK, ParkType, Greatest
      <4>. QED
        BY <3>2, <4>1, ForgetTypes DEF ColdKeep, TypeOK, ParkType
    <3>3. ASSUME ColdDrop(ids)
          PROVE  slots' \in [SlotIx -> SlotType] /\ park' \in ParkType
      BY <3>3, EmptyTypes DEF ColdDrop
    <3>. QED
      BY <1>4, <3>1, <3>2, <3>3 DEF StartCold
  <2>2. /\ cap' \in BOOLEAN /\ rec' \in Seq(Ids)
        /\ pos' \in Nat /\ pos' < NCtx /\ done' \in Nat
        /\ history' \in Seq(Ids) /\ Len(history') = pos'
    BY <1>4, ResetType DEF StartCold
  <2>. QED
    BY <1>1, <1>4, <2>1, <2>2 DEF StartCold, Accept, TypeOK, CellType
<1>. QED
  BY <1>2, <1>3, <1>4

\* The end of the prefill in progress lies ahead of pos, inside the prompt.
LEMMA PrefillEndType ==
  ASSUME TypeOK, pos < Len(req)
  PROVE  PrefillEnd \in Nat /\ pos < PrefillEnd /\ PrefillEnd <= Len(req)
<1>1. Len(req) \in Nat /\ pos \in Nat
  BY DEF TypeOK, CellType
<1>2. CASE \E b \in Rows : IsAnchorPoint(b, req, pos)
  <2>1. PrefillEnd \in Rows /\ IsAnchorPoint(PrefillEnd, req, pos)
    BY <1>2 DEF PrefillEnd
  <2>. QED
    BY <1>1, <2>1, RulesAssumption DEF IsAnchorPoint, Rows
<1>3. CASE ~ \E b \in Rows : IsAnchorPoint(b, req, pos)
  BY <1>1, <1>3 DEF PrefillEnd
<1>. QED
  BY <1>2, <1>3

\* One chunk of prefill keeps the engine typed and ends inside the prompt.
LEMMA WriteChunkType ==
  ASSUME TypeOK, NEW t \in Nat, pos + t <= Len(req),
         WriteChunk(t)
  PROVE  /\ history' \in Seq(Ids) /\ Len(history') = pos'
         /\ pos' = pos + t /\ pos' \in Nat /\ pos' < NCtx
         /\ done' \in Nat
         /\ rec' \in Seq(Ids) /\ logits' \in Seq(Ids)
         /\ kv' \in [Rows -> Seq(Ids)] /\ pooled' \in [Blocks -> Seq(Ids)]
         /\ cap' \in BOOLEAN
<1>. DEFINE piece == SubSeq(req, pos + 1, pos + t)
            h == history \o piece
            Cell(n) == IF EngineExact THEN Prefix(h, n) ELSE Junk
<1>1. /\ req \in Seq(Ids) /\ Len(req) \in Nat /\ Len(req) < NCtx
      /\ history \in Seq(Ids) /\ Len(history) = pos /\ pos \in Nat
      /\ NCtx \in Nat /\ Compress \in Nat \ {0}
  BY RulesAssumption DEF TypeOK, CellType
<1>2. piece \in Seq(Ids) /\ Len(piece) = t
  <2>1. \A i \in pos + 1 .. pos + t : req[i] \in Ids
    <3>1. \A i \in pos + 1 .. pos + t : i \in 1 .. Len(req)
      BY <1>1
    <3>. QED
      BY <1>1, <3>1, ElementOfSeq
  <2>2. pos + 1 \in Int /\ pos + t \in Int
    BY <1>1
  <2>3. /\ piece \in Seq(Ids)
        /\ Len(piece) = IF pos + 1 <= pos + t THEN (pos + t) - (pos + 1) + 1 ELSE 0
    BY <2>1, <2>2, SubSeqProperties
  <2>. QED
    BY <1>1, <2>3
<1>. HIDE DEF piece
<1>3. h \in Seq(Ids) /\ Len(h) = pos + t
  <2>1. history \in Seq(Ids) /\ piece \in Seq(Ids)
    BY <1>1, <1>2
  <2>2. /\ history \o piece \in Seq(Ids)
        /\ Len(history \o piece) = Len(history) + Len(piece)
    BY <2>1, ConcatProperties
  <2>. QED
    BY <1>1, <1>2, <2>2
<1>4. \A n \in 0 .. pos + t : Cell(n) \in Seq(Ids)
  <2>1. ASSUME NEW n \in 0 .. pos + t
        PROVE  Prefix(h, n) \in Seq(Ids)
    <3>1. n \in Nat /\ n <= Len(h)
      BY <1>1, <1>3
    <3>. QED
      BY <1>3, <3>1, PrefixOf
  <2>. QED
    BY <2>1, JunkType DEF Cell
<1>5. /\ history' = h
      /\ pos' = pos + t
      /\ done' = (pos + t) \div Compress
      /\ kv' = [r \in Rows |-> IF pos <= r /\ r < pos + t THEN Cell(r + 1) ELSE kv[r]]
      /\ pooled' = [b \in Blocks |->
                      IF pos \div Compress <= b /\ b < (pos + t) \div Compress
                      THEN Cell((b + 1) * Compress) ELSE pooled[b]]
      /\ rec' = Cell(pos + t)
      /\ logits' = Cell(pos + t)
      /\ cap' = cap
  BY DEF WriteChunk, piece
<1>. HIDE DEF h, Cell
<1>6. kv' \in [Rows -> Seq(Ids)]
  <2>1. \A r \in Rows : pos <= r /\ r < pos + t => r + 1 \in 0 .. pos + t
    BY <1>1 DEF Rows
  <2>2. \A r \in Rows : kv[r] \in Seq(Ids)
    BY DEF TypeOK, CellType
  <2>. QED
    BY <1>4, <1>5, <2>1, <2>2
<1>7. pooled' \in [Blocks -> Seq(Ids)]
  <2>1. ASSUME NEW b \in Blocks, b < (pos + t) \div Compress
        PROVE  (b + 1) * Compress \in 0 .. pos + t
    <3>1. b \in Nat
      BY BlockType
    <3>2. pos + t \in Nat
      BY <1>1
    <3>3. (b + 1) * Compress \in Nat /\ (b + 1) * Compress <= pos + t
      BY <1>1, <2>1, <3>1, <3>2, DivBound
    <3>. QED
      BY <3>2, <3>3
  <2>2. \A b \in Blocks : pooled[b] \in Seq(Ids)
    BY DEF TypeOK, CellType
  <2>. QED
    BY <1>4, <1>5, <2>1, <2>2
<1>8. done' \in Nat
  BY <1>1, <1>5, DivBound
<1>9. cap' \in BOOLEAN
  BY <1>5 DEF TypeOK
<1>10. pos + t \in Nat /\ pos + t < NCtx /\ pos + t \in 0 .. pos + t
  BY <1>1
<1>11. rec' \in Seq(Ids) /\ logits' \in Seq(Ids)
  BY <1>4, <1>5, <1>10
<1>12. history' \in Seq(Ids) /\ Len(history') = pos'
  BY <1>3, <1>5
<1>. QED
  BY <1>5, <1>6, <1>7, <1>8, <1>9, <1>10, <1>11, <1>12

\* A prefill chunk, with the snapshot or the stop that ends it.
LEMMA PrefillType ==
  ASSUME TypeOK, PrefillChunk \/ PrefillNothing
  PROVE  TypeOK'
<1>1. CASE PrefillChunk
  <2>. DEFINE end == PrefillEnd
              t == Least(Chunk, end - pos)
  <2>1. end \in Nat /\ pos < end /\ end <= Len(req) /\ pos \in Nat /\ Len(req) \in Nat
    BY <1>1, PrefillEndType DEF PrefillChunk, TypeOK, CellType
  <2>2. t \in Nat /\ pos + t <= Len(req)
    BY <2>1, CacheAssumption DEF Least
  <2>3. WriteChunk(t)
    BY <1>1 DEF PrefillChunk
  <2>. HIDE DEF t
  <2>4. /\ history' \in Seq(Ids) /\ Len(history') = pos'
        /\ pos' = pos + t /\ pos' \in Nat /\ pos' < NCtx
        /\ done' \in Nat
        /\ rec' \in Seq(Ids) /\ logits' \in Seq(Ids)
        /\ kv' \in [Rows -> Seq(Ids)] /\ pooled' \in [Blocks -> Seq(Ids)]
        /\ cap' \in BOOLEAN
    BY <2>2, <2>3, WriteChunkType
  <2>5. /\ file' = file
        /\ \/ UNCHANGED <<pc, req, cache>>
           \/ TakeSnapshot(FALSE) /\ pc' = "idle" /\ req' = << >>
           \/ TakeSnapshot(TRUE) /\ UNCHANGED <<pc, req>>
           \/ TakeSnapshot(FALSE) /\ pc' = "draw" /\ req' = req
    BY <1>1 DEF PrefillChunk, t
  <2>6. slots' \in [SlotIx -> SlotType] /\ park' \in ParkType
    <3>1. CASE TakeSnapshot(FALSE) \/ TakeSnapshot(TRUE)
      BY <2>4, <3>1, TakeSnapshotType
    <3>2. CASE UNCHANGED cache
      BY <3>2 DEF cache, TypeOK
    <3>. QED
      BY <2>5, <3>1, <3>2
  <2>7. /\ pc' \in {"idle", "prefill", "draw", "decode"}
        /\ req' \in Seq(Ids) /\ Len(req') < NCtx
    <3>1. << >> \in Seq(Ids) /\ Len(<< >>) = 0 /\ 0 < NCtx
      BY EmptySeq, RulesAssumption
    <3>. QED
      BY <2>5, <3>1 DEF TypeOK, CellType
  <2>. QED
    BY <2>4, <2>5, <2>6, <2>7 DEF TypeOK, CellType
<1>2. CASE PrefillNothing
  <2>1. slots' \in [SlotIx -> SlotType] /\ park' \in ParkType
    <3>1. pos' \in Nat /\ done' \in Nat /\ rec' \in Seq(Ids) /\ logits' \in Seq(Ids)
      BY <1>2 DEF PrefillNothing, engine, TypeOK, CellType
    <3>. QED
      BY <1>2, <3>1, TakeSnapshotType DEF PrefillNothing
  <2>. QED
    BY <1>2, <2>1 DEF PrefillNothing, engine, TypeOK
<1>. QED
  BY <1>1, <1>2

\* One decoded token, plain or by a verify pass.
LEMMA DecodeType ==
  ASSUME TypeOK,
         \/ \E id \in Ids : DecodeStep(id)
         \/ \E fed \in Fed, rows \in 1 .. Drafts + 1 : SpecPass(fed, rows)
  PROVE  TypeOK'
<1>1. ASSUME NEW id \in Ids, DecodeStep(id)
      PROVE  TypeOK'
  <2>1. Append(history, id) \in Seq(Ids) /\ Len(Append(history, id)) = pos + 1
    BY AppendProperties DEF TypeOK, CellType
  <2>2. pos + 1 \in Nat /\ pos + 1 < NCtx
    BY <1>1, RulesAssumption, CacheAssumption DEF DecodeStep, MayFeed, Least, TypeOK, CellType
  <2>3. [kv EXCEPT ![pos] = Junk] \in [Rows -> Seq(Ids)]
    BY JunkType DEF TypeOK, CellType
  <2>4. \A b : [pooled EXCEPT ![b] = Junk] \in [Blocks -> Seq(Ids)]
    BY JunkType DEF TypeOK, CellType
  <2>5. (pos + 1) \div Compress \in Nat
    BY <2>2, RulesAssumption, DivBound
  <2>6. done' \in Nat
    BY <1>1, <2>5 DEF DecodeStep, TypeOK
  <2>7. kv' \in [Rows -> Seq(Ids)] /\ pooled' \in [Blocks -> Seq(Ids)]
    BY <1>1, <2>3, <2>4 DEF DecodeStep
  <2>. QED
    BY <1>1, <2>1, <2>2, <2>6, <2>7, JunkType DEF DecodeStep, cache, TypeOK, CellType
<1>2. ASSUME NEW fed \in Fed, NEW rows \in 1 .. Drafts + 1, SpecPass(fed, rows)
      PROVE  TypeOK'
  <2>1. fed \in Seq(Ids) /\ Len(fed) \in Nat
    <3>1. PICK n \in 1 .. Drafts + 1 : fed \in [1 .. n -> Ids]
      BY DEF Fed
    <3>2. n \in Nat
      BY <3>1, CacheAssumption
    <3>. QED
      BY <3>1, <3>2, SeqDef, LenProperties
  <2>2. history \o fed \in Seq(Ids) /\ Len(history \o fed) = pos + Len(fed)
    BY <2>1, ConcatProperties DEF TypeOK, CellType
  <2>3. pos + Len(fed) \in Nat /\ pos + Len(fed) < NCtx
    BY <1>2, <2>1, RulesAssumption, CacheAssumption DEF SpecPass, MayFeed, Least, TypeOK, CellType
  <2>4. kv' \in [Rows -> Seq(Ids)]
    BY <1>2, JunkType DEF SpecPass, TypeOK, CellType
  <2>. QED
    BY <1>2, <2>2, <2>3, <2>4, JunkType DEF SpecPass, cache, TypeOK, CellType
<1>. QED
  BY <1>1, <1>2

\* The end of an answer, and the request that is dropped.
LEMMA EndType ==
  ASSUME TypeOK, Finish \/ AllocFail
  PROVE  TypeOK'
<1>1. << >> \in Seq(Ids) /\ Len(<< >>) = 0 /\ 0 < NCtx
  BY EmptySeq, RulesAssumption
<1>2. CASE Finish
  BY <1>1, <1>2 DEF Finish, engine, cache, TypeOK, CellType
<1>3. CASE AllocFail
  <2>1. /\ cap' \in BOOLEAN /\ rec' \in Seq(Ids)
        /\ pos' \in Nat /\ pos' < NCtx /\ done' \in Nat
        /\ history' \in Seq(Ids) /\ Len(history') = pos'
    BY <1>3, ResetType DEF AllocFail
  <2>. QED
    BY <1>1, <1>3, <2>1, EmptyTypes DEF AllocFail, TypeOK, CellType
<1>. QED
  BY <1>2, <1>3

\* What a save writes.
LEMMA SavedType ==
  ASSUME TypeOK, MaySave
  PROVE  Saved \in FileType /\ Len(Saved.ids) < NCtx
<1>. DEFINE p == slots[1].pos
<1>1. /\ 1 \in SlotIx /\ p \in Nat /\ p <= Len(history)
      /\ slots[1].done \in Nat /\ slots[1].rec \in Seq(Ids)
  BY RulesAssumption DEF MaySave, PromptSlot, SlotIx, TypeOK, SlotType, CellType, LiveSlots
<1>2. Prefix(history, p) \in Seq(Ids) /\ Len(Prefix(history, p)) = p
  BY <1>1, PrefixOf DEF TypeOK, CellType
<1>3. /\ [r \in Rows |-> IF r < p THEN kv[r] ELSE Junk] \in [Rows -> Seq(Ids)]
      /\ [b \in Blocks |-> IF b < slots[1].done THEN pooled[b] ELSE Junk] \in [Blocks -> Seq(Ids)]
  BY JunkType DEF TypeOK, CellType
<1>4. Saved = [ids |-> Prefix(history, p), done |-> slots[1].done,
               rec |-> slots[1].rec,
               kv |-> [r \in Rows |-> IF r < p THEN kv[r] ELSE Junk],
               pooled |-> [b \in Blocks |-> IF b < slots[1].done THEN pooled[b] ELSE Junk]]
  BY DEF Saved, SavedIds
<1>5. Saved \in FileType /\ Len(Saved.ids) = p
  BY <1>1, <1>2, <1>3, <1>4 DEF FileType, CellType
<1>6. p < NCtx
  BY <1>1, RulesAssumption DEF TypeOK
<1>. QED
  BY <1>5, <1>6

\* Saving and restoring the slot file.
LEMMA FileTypes ==
  ASSUME TypeOK, SaveSlot \/ RestoreFile \/ RestoreFails
  PROVE  TypeOK'
<1>1. CASE SaveSlot
  BY <1>1, SavedType DEF SaveSlot, engine, cache, TypeOK
<1>2. CASE RestoreFile
  <2>. DEFINE p == Len(file.ids)
  <2>1. /\ file.ids \in Seq(Ids) /\ p \in Nat /\ p < NCtx
        /\ file.done \in Nat /\ file.rec \in Seq(Ids)
        /\ file.kv \in [Rows -> Seq(Ids)] /\ file.pooled \in [Blocks -> Seq(Ids)]
    BY DEF TypeOK, FileType, CellType
  <2>2. kv' \in [Rows -> Seq(Ids)] /\ pooled' \in [Blocks -> Seq(Ids)]
    BY <1>2, <2>1 DEF RestoreFile, TypeOK, CellType
  <2>3. [EmptySlot EXCEPT !.pos = p, !.done = file.done, !.rec = file.rec] \in SlotType
    BY <2>1, EmptyTypes DEF SlotType, CellType
  <2>4. slots' \in [SlotIx -> SlotType]
    BY <1>2, <2>3, EmptyTypes DEF RestoreFile, RestoredSlots
  <2>. QED
    BY <1>2, <2>1, <2>2, <2>4, EmptyTypes DEF RestoreFile, DropDecodeGraph, TypeOK, CellType
<1>3. CASE RestoreFails
  <2>1. kv' \in [Rows -> Seq(Ids)] /\ pooled' \in [Blocks -> Seq(Ids)]
    BY <1>3, JunkType DEF RestoreFails, TypeOK, CellType
  <2>. QED
    BY <1>3, <2>1, EmptyTypes DEF RestoreFails, DropDecodeGraph, TypeOK, CellType
<1>. QED
  BY <1>1, <1>2, <1>3

\* A process that starts, with or without a slot file on disk.
LEMMA BootType ==
  /\ Init => TypeOK
  /\ TypeOK /\ Restart => TypeOK'
<1>1. /\ << >> \in Seq(Ids) /\ Len(<< >>) = 0 /\ 0 < NCtx
      /\ Junk \in Seq(Ids)
  BY EmptySeq, RulesAssumption, JunkType
<1>2. /\ [r \in Rows |-> Junk] \in [Rows -> Seq(Ids)]
      /\ [b \in Blocks |-> Junk] \in [Blocks -> Seq(Ids)]
  BY <1>1
<1>3. NoFile \in FileType /\ Len(NoFile.ids) < NCtx
  BY <1>1, <1>2 DEF NoFile, FileType, CellType
<1>4. ASSUME Init PROVE TypeOK
  <2>1. req \in Seq(Ids) /\ Len(req) < NCtx /\ history \in Seq(Ids) /\ Len(history) = pos
    BY <1>1, <1>4 DEF Init, Boot
  <2>2. pos \in Nat /\ pos < NCtx /\ done \in Nat /\ rec \in Seq(Ids) /\ logits \in Seq(Ids)
    BY <1>1, <1>4 DEF Init, Boot
  <2>3. kv \in [Rows -> Seq(Ids)] /\ pooled \in [Blocks -> Seq(Ids)]
    BY <1>2, <1>4 DEF Init, Boot
  <2>4. pc \in {"idle", "prefill", "draw", "decode"} /\ cap \in BOOLEAN
    BY <1>4 DEF Init, Boot
  <2>5. /\ slots \in [SlotIx -> SlotType] /\ park \in ParkType
        /\ file \in FileType /\ Len(file.ids) < NCtx
    BY <1>3, <1>4, EmptyTypes DEF Init, Boot
  <2>. QED
    BY <2>1, <2>2, <2>3, <2>4, <2>5 DEF TypeOK, CellType
<1>5. ASSUME TypeOK, Restart PROVE TypeOK'
  <2>1. req' \in Seq(Ids) /\ Len(req') < NCtx /\ history' \in Seq(Ids) /\ Len(history') = pos'
    BY <1>1, <1>5 DEF Restart
  <2>2. pos' \in Nat /\ pos' < NCtx /\ done' \in Nat /\ rec' \in Seq(Ids) /\ logits' \in Seq(Ids)
    BY <1>1, <1>5 DEF Restart
  <2>3. kv' \in [Rows -> Seq(Ids)] /\ pooled' \in [Blocks -> Seq(Ids)]
    BY <1>2, <1>5 DEF Restart
  <2>4. pc' \in {"idle", "prefill", "draw", "decode"} /\ cap' \in BOOLEAN
    BY <1>5 DEF Restart
  <2>5. /\ slots' \in [SlotIx -> SlotType] /\ park' \in ParkType
        /\ file' \in FileType /\ Len(file'.ids) < NCtx
    BY <1>5, EmptyTypes, SavedType DEF Restart, LeftOnDisk, TypeOK
  <2>. QED
    BY <2>1, <2>2, <2>3, <2>4, <2>5 DEF TypeOK, CellType
<1>. QED
  BY <1>4, <1>5

\* Type correctness: the position is always the length of the history and
\* inside the KV buffer, whatever was parked, restored, drafted or dropped.
THEOREM TypeCorrect == Spec => []TypeOK
<1>1. Init => TypeOK
  BY BootType
<1>2. TypeOK /\ [Next]_vars => TypeOK'
  <2>. SUFFICES ASSUME TypeOK, [Next]_vars PROVE TypeOK'
    OBVIOUS
  <2>1. CASE Next
    BY <2>1, StartType, PrefillType, DecodeType, EndType, FileTypes, BootType DEF Next
  <2>2. CASE UNCHANGED vars
    BY <2>2 DEF vars, engine, cache, TypeOK
  <2>. QED
    BY <2>1, <2>2
<1>. QED
  BY <1>1, <1>2, PTL DEF Spec

\* The settings the theorems speak of.  With drafts, a verify pass may write
\* rows that no history counts (above what a park puts back) and rows past the
\* context (onto the first rows of the next head): the theorems then ask that
\* parking is off and that the budget leaves the drafts room below n_ctx.
DraftsHaveRoom ==
  Drafts > 0 => ParkCap = 0 /\ MaxPrompt + MaxTokens + Drafts <= NCtx + 1

-----------------------------------------------------------------------------
(* Prefixes                                                                *)

\* A prefix of a prefix, and the prefix that is everything.
LEMMA PrefixTwice ==
  ASSUME NEW s \in Seq(Ids), NEW n \in Nat, NEW m \in Nat, m <= n, n <= Len(s)
  PROVE  Prefix(Prefix(s, n), m) = Prefix(s, m)
<1>1. Prefix(s, n) \in Seq(Ids) /\ Len(Prefix(s, n)) = n /\ \A i \in 1 .. n : Prefix(s, n)[i] = s[i]
  BY PrefixOf
<1>2. /\ Prefix(Prefix(s, n), m) \in Seq(Ids) /\ Len(Prefix(Prefix(s, n), m)) = m
      /\ \A i \in 1 .. m : Prefix(Prefix(s, n), m)[i] = Prefix(s, n)[i]
  BY <1>1, PrefixOf
<1>3. Prefix(s, m) \in Seq(Ids) /\ Len(Prefix(s, m)) = m /\ \A i \in 1 .. m : Prefix(s, m)[i] = s[i]
  BY PrefixOf
<1>4. \A i \in 1 .. m : Prefix(Prefix(s, n), m)[i] = Prefix(s, m)[i]
  BY <1>1, <1>2, <1>3
<1>. QED
  BY <1>2, <1>3, <1>4, SeqEqual

(* All of a sequence is its prefix of full length. *)
LEMMA PrefixAll ==
  ASSUME NEW s \in Seq(Ids)
  PROVE  Prefix(s, Len(s)) = s
  BY SubSeqFull DEF Prefix

\* What is appended leaves the prefixes alone.
LEMMA PrefixOfMore ==
  ASSUME NEW s \in Seq(Ids), NEW t \in Seq(Ids), NEW n \in Nat, n <= Len(s)
  PROVE  Prefix(s \o t, n) = Prefix(s, n)
<1>1. /\ s \o t \in Seq(Ids) /\ Len(s \o t) = Len(s) + Len(t)
      /\ \A i \in 1 .. Len(s) + Len(t) : (s \o t)[i] = IF i <= Len(s) THEN s[i] ELSE t[i - Len(s)]
  BY ConcatProperties
<1>2. n <= Len(s \o t)
  BY <1>1
<1>3. /\ Prefix(s \o t, n) \in Seq(Ids) /\ Len(Prefix(s \o t, n)) = n
      /\ \A i \in 1 .. n : Prefix(s \o t, n)[i] = (s \o t)[i]
  BY <1>1, <1>2, PrefixOf
<1>4. Prefix(s, n) \in Seq(Ids) /\ Len(Prefix(s, n)) = n /\ \A i \in 1 .. n : Prefix(s, n)[i] = s[i]
  BY PrefixOf
<1>5. \A i \in 1 .. n : (s \o t)[i] = s[i]
  BY <1>1
<1>6. \A i \in 1 .. n : Prefix(s \o t, n)[i] = Prefix(s, n)[i]
  BY <1>3, <1>4, <1>5
<1>. QED
  BY <1>3, <1>4, <1>6, SeqEqual

\* A chunk of the prompt continues a prefix of the prompt.
LEMMA NextChunk ==
  ASSUME NEW s \in Seq(Ids), NEW n \in Nat, NEW t \in Nat, n + t <= Len(s)
  PROVE  Prefix(s, n) \o SubSeq(s, n + 1, n + t) = Prefix(s, n + t)
<1>1. Len(s) \in Nat /\ 1 \in 1 .. Len(s) + 1 /\ n \in 1 - 1 .. Len(s) /\ n + t \in n .. Len(s)
  OBVIOUS
<1>. QED
  BY <1>1, ConcatAdjacentSubSeq DEF Prefix

\* Two lists that share a prefix share the shorter ones.
LEMMA PrefixShared ==
  ASSUME NEW s \in Seq(Ids), NEW t \in Seq(Ids), NEW n \in Nat, NEW m \in Nat,
         m <= n, n <= Len(s), n <= Len(t), Prefix(s, n) = Prefix(t, n)
  PROVE  Prefix(s, m) = Prefix(t, m)
<1>1. Prefix(Prefix(s, n), m) = Prefix(s, m) /\ Prefix(Prefix(t, n), m) = Prefix(t, m)
  BY PrefixTwice
<1>. QED
  BY <1>1

-----------------------------------------------------------------------------
(* Snapshots and the rows they name                                        *)

\* What a snapshot claims of the history it is a prefix of.
Names(s, h) ==
  /\ s.pos <= Len(h)
  /\ s.rec = Prefix(h, s.pos)
  /\ s.logits \in {Junk, s.rec}
  /\ s.done = s.pos \div Compress

\* Rows and blocks below n are the same before and after.
SameBelow(rows, blocks, rows2, blocks2, n) ==
  /\ \A r \in Rows : r < n => rows2[r] = rows[r]
  /\ \A b \in Blocks : (b + 1) * Compress <= n => blocks2[b] = blocks[b]

\* Exact rows stay exact for fewer rows, for every list with that prefix, and
\* when only rows above are written.
LEMMA ExactShift ==
  ASSUME NEW rows, NEW blocks, NEW rows2, NEW blocks2,
         NEW h \in Seq(Ids), NEW g \in Seq(Ids), NEW n \in Nat, NEW m \in Nat,
         m <= n, n <= Len(h), m <= Len(g), Prefix(h, m) = Prefix(g, m),
         RowsExact(rows, blocks, h, n), SameBelow(rows, blocks, rows2, blocks2, m)
  PROVE  RowsExact(rows2, blocks2, g, m)
<1>1. ASSUME NEW k \in Nat, k <= m
      PROVE  Prefix(h, k) = Prefix(g, k)
  <2>1. m <= Len(h)
    OBVIOUS
  <2>. QED
    BY <1>1, <2>1, PrefixShared
<1>2. ASSUME NEW r \in Rows, r < m
      PROVE  rows2[r] = Prefix(g, r + 1)
  <2>1. r \in Nat /\ r < n /\ r + 1 \in Nat /\ r + 1 <= m
    BY <1>2, RulesAssumption DEF Rows
  <2>. QED
    BY <1>1, <1>2, <2>1 DEF RowsExact, SameBelow
<1>3. ASSUME NEW b \in Blocks, (b + 1) * Compress <= m
      PROVE  blocks2[b] = Prefix(g, (b + 1) * Compress)
  <2>1. b \in Nat
    BY BlockType
  <2>2. (b + 1) * Compress \in Nat
    BY <2>1, RulesAssumption, DivBound
  <2>3. (b + 1) * Compress <= n
    BY <1>3, <2>2
  <2>. QED
    BY <1>1, <1>3, <2>2, <2>3 DEF RowsExact, SameBelow
<1>. QED
  BY <1>2, <1>3 DEF RowsExact

\* A snapshot that names a prefix of h is a snapshot of every list with that
\* prefix, as long as nothing below its position is written.
LEMMA SlotSurvives ==
  ASSUME NEW rows, NEW blocks, NEW rows2, NEW blocks2,
         NEW h \in Seq(Ids), NEW g \in Seq(Ids), NEW s, s.pos \in Nat,
         Names(s, h), RowsExact(rows, blocks, h, s.pos),
         s.pos <= Len(g), Prefix(h, s.pos) = Prefix(g, s.pos),
         SameBelow(rows, blocks, rows2, blocks2, s.pos)
  PROVE  Names(s, g) /\ RowsExact(rows2, blocks2, g, s.pos)
<1>1. s.pos <= Len(h)
  BY DEF Names
<1>2. RowsExact(rows2, blocks2, g, s.pos)
  BY <1>1, ExactShift
<1>3. Names(s, g)
  BY DEF Names
<1>. QED
  BY <1>2, <1>3

\* A block at or past the one that holds row n is not complete below n.
LEMMA LaterBlock ==
  ASSUME NEW n \in Nat, NEW b \in Blocks, n \div Compress <= b
  PROVE  ~((b + 1) * Compress <= n)
<1>1. b \in Nat /\ Compress \in Nat \ {0}
  BY BlockType, RulesAssumption
<1>2. n \div Compress \in Nat /\ (b < n \div Compress <=> (b + 1) * Compress <= n)
  BY <1>1, DivBound
<1>. QED
  BY <1>1, <1>2

\* Completed blocks count up with the rows.
LEMMA DivMono ==
  ASSUME NEW n \in Nat, NEW m \in Nat, m <= n
  PROVE  m \div Compress \in Nat /\ n \div Compress \in Nat /\ m \div Compress <= n \div Compress
<1>. DEFINE q == m \div Compress
            k == n \div Compress
<1>1. Compress \in Nat \ {0}
  BY RulesAssumption
<1>2. q \in Nat /\ k \in Nat
  BY <1>1, DivBound
<1>3. \A b \in Nat : b < q => b < k
  <2>1. \A b \in Nat : (b + 1) * Compress \in Nat /\ (b < q <=> (b + 1) * Compress <= m)
    BY <1>1, DivBound
  <2>2. \A b \in Nat : b < k <=> (b + 1) * Compress <= n
    BY <1>1, DivBound
  <2>. QED
    BY <2>1, <2>2
<1>. HIDE DEF q, k
<1>4. q <= k
  <2>1. q = 0 \/ (q - 1 \in Nat /\ q - 1 < q)
    BY <1>2
  <2>. QED
    BY <1>2, <1>3, <2>1
<1>. QED
  BY <1>2, <1>4 DEF q, k

-----------------------------------------------------------------------------
(* The inductive invariant                                                 *)

\* The rows written since the conversation was parked.
Dirty == Greatest(park.dirty, Len(history))

\* What a parked snapshot needs is in the host copy below the park's rows, and
\* still on the device above them, as long as no request wrote that far.
Back(s) ==
  /\ \A r \in Rows : r < s.pos =>
       IF r < park.rows THEN park.kv[r] = Prefix(park.history, r + 1)
       ELSE Dirty <= park.rows => kv[r] = Prefix(park.history, r + 1)
  /\ \A b \in Blocks : (b + 1) * Compress <= s.pos =>
       IF b < park.blocks THEN park.pooled[b] = Prefix(park.history, (b + 1) * Compress)
       ELSE Dirty <= park.rows => pooled[b] = Prefix(park.history, (b + 1) * Compress)

ParkInv ==
  park # NoPark =>
    /\ ParkCap > 0 /\ park.rows > 0
    /\ park.blocks = ParkBlocks(park.rows)
    /\ \A i \in ParkedSlots(slots) : Names(slots[i], park.history) /\ Back(slots[i])

\* Where the request stands: its prompt is prefilled up to pos, exactly, and
\* at the end of the prompt the logits row is the prompt's.
PhaseInv ==
  /\ Len(req) <= MaxPrompt
  /\ pc = "idle" => req = << >>
  /\ pc = "prefill" => /\ ~cap /\ pos <= Len(req) /\ history = Prefix(req, pos)
                       /\ EngineExact /\ done = pos \div Compress
                       /\ pos = Len(req) => logits = req
                       /\ req # << >>
  /\ pc = "draw" => history = req /\ EngineExact /\ done = pos \div Compress /\ logits = req
  /\ pc = "decode" /\ Drafts = 0 => done = pos \div Compress

CacheInv == TypeOK /\ LiveIntact /\ FileIntact /\ SlotsSound /\ ParkInv /\ PhaseInv

\* The typed parts the proofs below use most.
LEMMA Parts ==
  ASSUME TypeOK
  PROVE  /\ history \in Seq(Ids) /\ Len(history) = pos /\ pos \in Nat /\ pos < NCtx
         /\ req \in Seq(Ids) /\ rec \in Seq(Ids) /\ logits \in Seq(Ids)
         /\ slots \in [SlotIx -> SlotType]
         /\ \A i \in SlotIx : /\ slots[i] \in SlotType /\ slots[i].pos \in Nat /\ slots[i].done \in Nat
                              /\ slots[i].parked \in BOOLEAN /\ slots[i].rec \in Seq(Ids)
         /\ park \in ParkType /\ park.history \in Seq(Ids) /\ park.rows \in Nat
         /\ park.blocks \in Nat /\ park.dirty \in Nat
         /\ file.ids \in Seq(Ids)
<1>1. \A i \in SlotIx : slots[i] \in SlotType
  BY DEF TypeOK
<1>. QED
  BY <1>1 DEF TypeOK, CellType, SlotType, ParkType, FileType

\* Which live slots there are, one by one.
LEMMA LiveIs ==
  ASSUME NEW sl, NEW i
  PROVE  /\ i \in LiveSlots(sl) <=> i \in SlotIx /\ sl[i].pos > 0 /\ ~sl[i].parked
         /\ i \in ParkedSlots(sl) <=> i \in SlotIx /\ sl[i].pos > 0 /\ sl[i].parked
  BY DEF LiveSlots, ParkedSlots

-----------------------------------------------------------------------------
(* Carrying the invariant over a step                                      *)

\* The live snapshots after a step: new and exact, or old with nothing written
\* below them.
LEMMA LiveCarried ==
  ASSUME TypeOK, LiveIntact, history' \in Seq(Ids),
         \A k \in LiveSlots(slots') :
           \/ Names(slots'[k], history') /\ RowsExact(kv', pooled', history', slots'[k].pos)
           \/ \E j \in LiveSlots(slots) :
                /\ slots'[k] = slots[j] /\ slots[j].pos <= Len(history')
                /\ Prefix(history, slots[j].pos) = Prefix(history', slots[j].pos)
                /\ SameBelow(kv, pooled, kv', pooled', slots[j].pos)
  PROVE  LiveIntact'
<1>1. ASSUME NEW k \in LiveSlots(slots')
      PROVE  Names(slots'[k], history') /\ RowsExact(kv', pooled', history', slots'[k].pos)
  <2>1. CASE Names(slots'[k], history') /\ RowsExact(kv', pooled', history', slots'[k].pos)
    BY <2>1
  <2>2. ASSUME NEW j \in LiveSlots(slots),
               slots'[k] = slots[j], slots[j].pos <= Len(history'),
               Prefix(history, slots[j].pos) = Prefix(history', slots[j].pos),
               SameBelow(kv, pooled, kv', pooled', slots[j].pos)
        PROVE  Names(slots'[k], history') /\ RowsExact(kv', pooled', history', slots'[k].pos)
    <3>1. Names(slots[j], history) /\ RowsExact(kv, pooled, history, slots[j].pos)
      BY DEF LiveIntact, Names
    <3>2. slots[j].pos \in Nat /\ history \in Seq(Ids)
      BY Parts, LiveIs
    <3>. QED
      BY <2>2, <3>1, <3>2, SlotSurvives
  <2>. QED
    BY <1>1, <2>1, <2>2
<1>. QED
  BY <1>1 DEF LiveIntact, Names

\* The parked snapshots after a step: old ones, with the host copy untouched
\* and nothing written at or above its rows while they count on the device.
LEMMA ParkCarried ==
  ASSUME TypeOK, ParkInv, TypeOK',
         park' # NoPark =>
           /\ park # NoPark
           /\ park'.history = park.history /\ park'.rows = park.rows
           /\ park'.blocks = park.blocks /\ park'.kv = park.kv /\ park'.pooled = park.pooled
           /\ Dirty <= Dirty'
           /\ Dirty' <= park.rows =>
                /\ \A r \in Rows : r >= park.rows => kv'[r] = kv[r]
                /\ \A b \in Blocks : b >= park.blocks => pooled'[b] = pooled[b],
         park' # NoPark =>
           \A k \in ParkedSlots(slots') : \E j \in ParkedSlots(slots) : slots'[k] = slots[j]
  PROVE  ParkInv'
<1>. SUFFICES ASSUME park' # NoPark
              PROVE  /\ ParkCap > 0 /\ park'.rows > 0
                     /\ park'.blocks = ParkBlocks(park'.rows)
                     /\ \A k \in ParkedSlots(slots') : Names(slots'[k], park'.history) /\ Back(slots[k])'
  BY DEF ParkInv
<1>1. /\ ParkCap > 0 /\ park'.rows > 0
      /\ park'.blocks = ParkBlocks(park'.rows)
  BY DEF ParkInv
<1>2. ASSUME NEW k \in ParkedSlots(slots')
      PROVE  Names(slots'[k], park'.history) /\ Back(slots[k])'
  <2>1. PICK j \in ParkedSlots(slots) : slots'[k] = slots[j]
    BY <1>2
  <2>2. Names(slots[j], park.history) /\ Back(slots[j])
    BY DEF ParkInv
  <2>3. Dirty' <= park'.rows => Dirty <= park.rows
    <3>1. park.dirty \in Nat /\ Len(history) \in Nat /\ park.rows \in Nat
      BY Parts
    <3>2. Dirty \in Nat
      BY <3>1 DEF Dirty, Greatest
    <3>3. Dirty' \in Int
      <4>1. park'.dirty \in Int /\ Len(history') \in Int
        BY DEF TypeOK, ParkType, CellType
      <4>. QED
        BY <4>1 DEF Dirty, Greatest
    <3>. QED
      BY <3>1, <3>2, <3>3
  <2>4. ASSUME NEW r \in Rows, r < slots'[k].pos
        PROVE  IF r < park'.rows THEN park'.kv[r] = Prefix(park'.history, r + 1)
               ELSE Dirty' <= park'.rows => kv'[r] = Prefix(park'.history, r + 1)
    <3>1. r \in Int /\ park.rows \in Int
      BY Parts, RulesAssumption DEF Rows
    <3>2. IF r < park.rows THEN park.kv[r] = Prefix(park.history, r + 1)
          ELSE Dirty <= park.rows => kv[r] = Prefix(park.history, r + 1)
      BY <2>1, <2>2, <2>4 DEF Back
    <3>3. CASE r < park.rows
      BY <3>2, <3>3
    <3>4. CASE ~(r < park.rows)
      <4>1. r >= park.rows
        BY <3>1, <3>4
      <4>. QED
        BY <2>3, <3>2, <3>4, <4>1
    <3>. QED
      BY <3>3, <3>4
  <2>5. ASSUME NEW b \in Blocks, (b + 1) * Compress <= slots'[k].pos
        PROVE  IF b < park'.blocks THEN park'.pooled[b] = Prefix(park'.history, (b + 1) * Compress)
               ELSE Dirty' <= park'.rows => pooled'[b] = Prefix(park'.history, (b + 1) * Compress)
    <3>1. b \in Int /\ park.blocks \in Int
      BY Parts, BlockType
    <3>2. IF b < park.blocks THEN park.pooled[b] = Prefix(park.history, (b + 1) * Compress)
          ELSE Dirty <= park.rows => pooled[b] = Prefix(park.history, (b + 1) * Compress)
      BY <2>1, <2>2, <2>5 DEF Back
    <3>3. CASE b < park.blocks
      BY <3>2, <3>3
    <3>4. CASE ~(b < park.blocks)
      <4>1. b >= park.blocks
        BY <3>1, <3>4
      <4>. QED
        BY <2>3, <3>2, <3>4, <4>1
    <3>. QED
      BY <3>3, <3>4
  <2>6. Names(slots'[k], park'.history)
    BY <2>1, <2>2
  <2>. QED
    BY <2>4, <2>5, <2>6 DEF Back
<1>. QED
  BY <1>1, <1>2

-----------------------------------------------------------------------------
(* A snapshot is taken                                                     *)

\* Where the slot now at k was, when slot i moved to the front.
Source(i, k) == IF k <= i THEN k - 1 ELSE k

\* The filled slot is the first, every other one is still there, once.
LEMMA Rotated ==
  ASSUME NEW sl \in [SlotIx -> SlotType], NEW i \in SlotIx, NEW s
  PROVE  /\ 1 \in SlotIx /\ RotateIn(sl, i, s)[1] = s
         /\ \A k \in SlotIx \ {1} : /\ Source(i, k) \in SlotIx /\ Source(i, k) # i
                                    /\ RotateIn(sl, i, s)[k] = sl[Source(i, k)]
         /\ \A j \in SlotIx : j # i => \E k \in SlotIx \ {1} : Source(i, k) = j
         /\ \A k, l \in SlotIx \ {1} : Source(i, k) = Source(i, l) => k = l
<1>1. 1 \in SlotIx /\ NSlots \in Nat /\ SlotIx = 1 .. NSlots
  BY RulesAssumption DEF SlotIx
<1>2. RotateIn(sl, i, s)[1] = s
  BY <1>1 DEF RotateIn
<1>3. ASSUME NEW k \in SlotIx \ {1}
      PROVE  /\ Source(i, k) \in SlotIx /\ Source(i, k) # i
             /\ RotateIn(sl, i, s)[k] = sl[Source(i, k)]
  <2>1. Source(i, k) \in SlotIx /\ Source(i, k) # i
    BY <1>1 DEF Source
  <2>2. RotateIn(sl, i, s)[k] = sl[Source(i, k)]
    BY DEF RotateIn, Source
  <2>. QED
    BY <2>1, <2>2
<1>4. ASSUME NEW j \in SlotIx, j # i
      PROVE  \E k \in SlotIx \ {1} : Source(i, k) = j
  <2>1. CASE j < i
    <3>1. j + 1 \in SlotIx \ {1} /\ Source(i, j + 1) = j
      BY <1>1, <2>1 DEF Source
    <3>. QED
      BY <3>1
  <2>2. CASE j > i
    <3>1. j \in SlotIx \ {1} /\ Source(i, j) = j
      BY <1>1, <2>2 DEF Source
    <3>. QED
      BY <3>1
  <2>. QED
    BY <1>1, <1>4, <2>1, <2>2
<1>5. \A k, l \in SlotIx \ {1} : Source(i, k) = Source(i, l) => k = l
  BY <1>1 DEF Source
<1>. QED
  BY <1>1, <1>2, <1>3, <1>4, <1>5

\* What a claim never does: it takes a second slot for a position the live
\* conversation holds, and it takes a parked slot while another is there.
LEMMA ClaimFacts ==
  ASSUME NEW sl \in [SlotIx -> SlotType], NEW p, NEW head, NEW i \in SlotIx,
         Claims(i, sl, p, head)
  PROVE  /\ \A j \in LiveSlots(sl) : sl[j].pos = p => i \in LiveSlots(sl) /\ sl[i].pos = p
         /\ i \in ParkedSlots(sl) => LiveSlots(sl) = {} /\ EmptySlots(sl) = {}
<1>. DEFINE same == {j \in LiveSlots(sl) : sl[j].pos = p}
<1>1. CASE same # {}
  <2>1. i \in same
    BY <1>1 DEF Claims, IsFirst
  <2>. QED
    BY <2>1, LiveIs
<1>2. CASE same = {}
  <2>1. \A j \in LiveSlots(sl) : sl[j].pos # p
    BY <1>2
  <2>2. ASSUME i \in ParkedSlots(sl)
        PROVE  LiveSlots(sl) = {} /\ EmptySlots(sl) = {}
    <3>1. sl[i].pos > 0 /\ sl[i].parked
      BY <2>2 DEF ParkedSlots
    <3>2. EmptySlots(sl) = {}
      <4>1. ASSUME EmptySlots(sl) # {} PROVE FALSE
        <5>1. i \in EmptySlots(sl)
          BY <1>2, <4>1 DEF Claims, IsFirst
        <5>. QED
          BY <3>1, <5>1 DEF EmptySlots
      <4>. QED
        BY <4>1
    <3>3. LiveSlots(sl) = {}
      <4>1. ASSUME LiveSlots(sl) # {} PROVE FALSE
        <5>1. IsSmallestOf(i, LiveSlots(sl), head, sl)
          BY <1>2, <3>2, <4>1 DEF Claims
        <5>2. i \in LiveSlots(sl)
          BY <5>1 DEF IsSmallestOf, IsSmallest
        <5>. QED
          BY <3>1, <5>2 DEF LiveSlots
      <4>. QED
        BY <4>1
    <3>. QED
      BY <3>2, <3>3
  <2>. QED
    BY <2>1, <2>2
<1>. QED
  BY <1>1, <1>2

\* The slots after a snapshot: the new one in front, the others one by one.
LEMMA SnapshotSlots ==
  ASSUME TypeOK, NEW head \in BOOLEAN, TakeSnapshot(head)
  PROVE  \E i \in SlotIx :
           /\ Claims(i, slots, pos', head) /\ park' = ParkWithout(i)
           /\ slots' = RotateIn(slots, i,
                [pos |-> pos', done |-> done', rec |-> rec', logits |-> logits',
                 parked |-> FALSE, head |-> head])
           /\ slots'[1] = [pos |-> pos', done |-> done', rec |-> rec', logits |-> logits',
                           parked |-> FALSE, head |-> head]
           /\ \A k \in LiveSlots(slots') : k = 1 \/ Source(i, k) \in LiveSlots(slots)
           /\ \A k \in ParkedSlots(slots') : k # 1 /\ Source(i, k) \in ParkedSlots(slots)
           /\ \A k \in SlotIx \ {1} : slots'[k] = slots[Source(i, k)]
<1>1. PICK i \in SlotIx :
        /\ Claims(i, slots, pos', head) /\ park' = ParkWithout(i)
        /\ slots' = RotateIn(slots, i,
             [pos |-> pos', done |-> done', rec |-> rec', logits |-> logits',
              parked |-> FALSE, head |-> head])
  BY DEF TakeSnapshot
<1>2. /\ slots'[1] = [pos |-> pos', done |-> done', rec |-> rec', logits |-> logits',
                      parked |-> FALSE, head |-> head]
      /\ \A k \in SlotIx \ {1} : Source(i, k) \in SlotIx /\ slots'[k] = slots[Source(i, k)]
  <2>. DEFINE new == [pos |-> pos', done |-> done', rec |-> rec', logits |-> logits',
                      parked |-> FALSE, head |-> head]
  <2>1. slots \in [SlotIx -> SlotType] /\ slots' = RotateIn(slots, i, new)
    BY <1>1, Parts
  <2>. HIDE DEF new
  <2>2. /\ RotateIn(slots, i, new)[1] = new
        /\ \A k \in SlotIx \ {1} : /\ Source(i, k) \in SlotIx
                                   /\ RotateIn(slots, i, new)[k] = slots[Source(i, k)]
    BY <2>1, Rotated
  <2>3. /\ slots'[1] = new
        /\ \A k \in SlotIx \ {1} : Source(i, k) \in SlotIx /\ slots'[k] = slots[Source(i, k)]
    BY <2>1, <2>2
  <2>. QED
    BY <2>3 DEF new
<1>3. slots'[1].parked = FALSE
  BY <1>2
<1>4. \A k \in LiveSlots(slots') : k = 1 \/ Source(i, k) \in LiveSlots(slots)
  BY <1>2, LiveIs
<1>5. \A k \in ParkedSlots(slots') : k # 1 /\ Source(i, k) \in ParkedSlots(slots)
  BY <1>2, <1>3, LiveIs
<1>. QED
  BY <1>1, <1>2, <1>4, <1>5

\* A snapshot keeps slots and park together, and positions apart.
LEMMA SnapshotSound ==
  ASSUME TypeOK, SlotsSound, NEW head \in BOOLEAN, TakeSnapshot(head)
  PROVE  SlotsSound'
<1>1. PICK i \in SlotIx :
        /\ Claims(i, slots, pos', head) /\ park' = ParkWithout(i)
        /\ slots' = RotateIn(slots, i,
             [pos |-> pos', done |-> done', rec |-> rec', logits |-> logits',
              parked |-> FALSE, head |-> head])
        /\ slots'[1] = [pos |-> pos', done |-> done', rec |-> rec', logits |-> logits',
                        parked |-> FALSE, head |-> head]
        /\ \A k \in ParkedSlots(slots') : k # 1 /\ Source(i, k) \in ParkedSlots(slots)
        /\ \A k \in SlotIx \ {1} : slots'[k] = slots[Source(i, k)]
  BY SnapshotSlots
<1>2. /\ 1 \in SlotIx
      /\ \A k \in SlotIx \ {1} : Source(i, k) \in SlotIx /\ Source(i, k) # i
      /\ \A j \in SlotIx : j # i => \E k \in SlotIx \ {1} : Source(i, k) = j
      /\ \A k, l \in SlotIx \ {1} : Source(i, k) = Source(i, l) => k = l
  BY Parts, Rotated
<1>3. ParkHasSlots'
  <2>1. ParkedSlots(slots') # {} <=> ParkedSlots(slots) \ {i} # {}
    <3>1. ASSUME NEW k \in ParkedSlots(slots') PROVE Source(i, k) \in ParkedSlots(slots) \ {i}
      <4>1. k \in SlotIx \ {1}
        BY <1>1, LiveIs
      <4>. QED
        BY <1>1, <1>2, <4>1
    <3>2. ASSUME NEW j \in ParkedSlots(slots) \ {i} PROVE \E k : k \in ParkedSlots(slots')
      <4>1. PICK k \in SlotIx \ {1} : Source(i, k) = j
        BY <1>2, LiveIs
      <4>2. slots'[k] = slots[j]
        BY <1>1, <4>1
      <4>3. k \in ParkedSlots(slots')
        BY <4>2, LiveIs
      <4>. QED
        BY <4>3
    <3>. QED
      BY <3>1, <3>2
  <2>2. park' # NoPark <=> ParkedSlots(slots) \ {i} # {}
    <3>1. ParkedSlots(slots) \ {i} # {} => park # NoPark
      BY DEF SlotsSound, ParkHasSlots
    <3>. QED
      BY <1>1, <3>1 DEF ParkWithout
  <2>. QED
    BY <2>1, <2>2 DEF ParkHasSlots
<1>4. PositionsDistinct'
  <2>. SUFFICES ASSUME NEW k \in SlotIx, NEW l \in SlotIx,
                       slots'[k].pos > 0, slots'[k].pos = slots'[l].pos,
                       slots'[k].parked = slots'[l].parked, k # l
                PROVE  FALSE
    BY DEF PositionsDistinct
  <2>1. ASSUME NEW m \in SlotIx \ {1},
               slots'[m].pos = pos', slots'[m].pos > 0, slots'[m].parked = FALSE
        PROVE  FALSE
    <3>1. Source(i, m) \in LiveSlots(slots) /\ slots[Source(i, m)].pos = pos' /\ Source(i, m) # i
      BY <1>1, <1>2, <2>1, LiveIs
    <3>2. i \in LiveSlots(slots) /\ slots[i].pos = pos'
      <4>1. slots \in [SlotIx -> SlotType] /\ Claims(i, slots, pos', head)
        BY <1>1, Parts
      <4>2. \A j \in LiveSlots(slots) : slots[j].pos = pos' => i \in LiveSlots(slots) /\ slots[i].pos = pos'
        BY <4>1, ClaimFacts
      <4>. QED
        BY <3>1, <4>2
    <3>3. /\ Source(i, m) \in SlotIx /\ slots[Source(i, m)].pos > 0
          /\ slots[Source(i, m)].parked = slots[i].parked
      BY <3>1, <3>2, LiveIs, Parts
    <3>. QED
      BY <3>1, <3>2, <3>3 DEF SlotsSound, PositionsDistinct
  <2>2. slots'[1].pos = pos' /\ slots'[1].parked = FALSE
    BY <1>1
  <2>3. CASE k = 1
    BY <2>1, <2>2, <2>3
  <2>4. CASE l = 1
    BY <2>1, <2>2, <2>4
  <2>5. CASE k # 1 /\ l # 1
    <3>1. Source(i, k) \in SlotIx /\ Source(i, l) \in SlotIx /\ Source(i, k) # Source(i, l)
      BY <1>2, <2>5
    <3>2. slots'[k] = slots[Source(i, k)] /\ slots'[l] = slots[Source(i, l)]
      BY <1>1, <2>5
    <3>. QED
      BY <3>1, <3>2 DEF SlotsSound, PositionsDistinct
  <2>. QED
    BY <2>3, <2>4, <2>5
<1>. QED
  BY <1>3, <1>4 DEF SlotsSound

\* A snapshot of an exact state leaves every live snapshot exact, when the
\* step before it wrote nothing below an old one.
LEMMA SnapshotLive ==
  ASSUME TypeOK, LiveIntact, NEW head \in BOOLEAN, TakeSnapshot(head),
         history' \in Seq(Ids), Len(history') = pos', rec' = history',
         logits' \in {Junk, rec'}, done' = pos' \div Compress,
         RowsExact(kv', pooled', history', pos'),
         \A j \in LiveSlots(slots) :
           /\ slots[j].pos <= Len(history')
           /\ Prefix(history, slots[j].pos) = Prefix(history', slots[j].pos)
           /\ SameBelow(kv, pooled, kv', pooled', slots[j].pos)
  PROVE  LiveIntact'
<1>1. PICK i \in SlotIx :
        /\ slots'[1] = [pos |-> pos', done |-> done', rec |-> rec', logits |-> logits',
                        parked |-> FALSE, head |-> head]
        /\ \A k \in LiveSlots(slots') : k = 1 \/ Source(i, k) \in LiveSlots(slots)
        /\ \A k \in SlotIx \ {1} : slots'[k] = slots[Source(i, k)]
  BY SnapshotSlots
<1>2. Prefix(history', pos') = history'
  BY PrefixAll
<1>3. Names(slots'[1], history') /\ RowsExact(kv', pooled', history', slots'[1].pos)
  BY <1>1, <1>2 DEF Names
<1>4. ASSUME NEW k \in LiveSlots(slots'), k # 1
      PROVE  Source(i, k) \in LiveSlots(slots) /\ slots'[k] = slots[Source(i, k)]
  BY <1>1, <1>4, LiveIs
<1>. QED
  BY <1>3, <1>4, LiveCarried

\* A snapshot leaves the parked conversation as it is, or drops it with its
\* last slot.
LEMMA SnapshotPark ==
  ASSUME TypeOK, NEW head \in BOOLEAN, TakeSnapshot(head)
  PROVE  /\ park' \in {park, NoPark}
         /\ \A k \in ParkedSlots(slots') : \E j \in ParkedSlots(slots) : slots'[k] = slots[j]
<1>1. PICK i \in SlotIx :
        /\ park' = ParkWithout(i)
        /\ \A k \in ParkedSlots(slots') : k # 1 /\ Source(i, k) \in ParkedSlots(slots)
        /\ \A k \in SlotIx \ {1} : slots'[k] = slots[Source(i, k)]
  BY SnapshotSlots
<1>2. \A k \in ParkedSlots(slots') : k \in SlotIx \ {1}
  BY <1>1, LiveIs
<1>. QED
  BY <1>1, <1>2 DEF ParkWithout

-----------------------------------------------------------------------------
(* Facts the actions share                                                 *)

\* No rows are exact rows of nothing.
LEMMA NothingExact ==
  ASSUME NEW rows, NEW blocks
  PROVE  /\ RowsExact(rows, blocks, << >>, 0)
         /\ 0 \div Compress = 0
         /\ \A s \in Seq(Ids) : Prefix(s, 0) = << >>
<1>1. Compress \in Nat \ {0} /\ \A b \in Blocks : b \in Nat
  BY RulesAssumption, BlockType
<1>2. \A b \in Blocks : (b + 1) * Compress \in Nat /\ (b < 0 \div Compress <=> (b + 1) * Compress <= 0)
  BY <1>1, DivBound
<1>3. 0 \div Compress = 0
  BY <1>1
<1>4. \A b \in Blocks : ~((b + 1) * Compress <= 0)
  BY <1>1, <1>2, <1>3
<1>5. \A r \in Rows : ~(r < 0)
  BY RulesAssumption DEF Rows
<1>6. ASSUME NEW s \in Seq(Ids) PROVE Prefix(s, 0) = << >>
  BY SubSeqEmpty DEF Prefix
<1>. QED
  BY <1>3, <1>4, <1>5, <1>6 DEF RowsExact

\* The empty slot is neither live nor parked.
LEMMA EmptyIsEmpty ==
  /\ EmptySlot.pos = 0 /\ EmptySlot.parked = FALSE
  /\ \A i \in SlotIx : NoSlots[i] = EmptySlot
  /\ LiveSlots(NoSlots) = {} /\ ParkedSlots(NoSlots) = {}
  BY DEF EmptySlot, NoSlots, LiveSlots, ParkedSlots

\* Forgetting slots keeps the positions of the others apart.
LEMMA ThinDistinct ==
  ASSUME TypeOK, SlotsSound,
         \A k \in SlotIx : \/ slots'[k].pos = 0
                           \/ slots'[k].pos = slots[k].pos /\ slots'[k].parked = slots[k].parked
  PROVE  PositionsDistinct'
<1>. SUFFICES ASSUME NEW k \in SlotIx, NEW l \in SlotIx,
                     slots'[k].pos > 0, slots'[k].pos = slots'[l].pos,
                     slots'[k].parked = slots'[l].parked
              PROVE  k = l
  BY DEF PositionsDistinct
<1>1. /\ slots'[k].pos = slots[k].pos /\ slots'[k].parked = slots[k].parked
      /\ slots'[l].pos = slots[l].pos /\ slots'[l].parked = slots[l].parked
  OBVIOUS
<1>. QED
  BY <1>1 DEF SlotsSound, PositionsDistinct

\* Adopting the parked slots, or parking the live ones, does too: the others
\* are emptied.
LEMMA TurnDistinct ==
  ASSUME TypeOK, SlotsSound, NEW side,
         side = LiveSlots(slots) \/ side = ParkedSlots(slots),
         \A k \in SlotIx : slots'[k].pos = 0 \/ (k \in side /\ slots'[k].pos = slots[k].pos)
  PROVE  PositionsDistinct'
<1>. SUFFICES ASSUME NEW k \in SlotIx, NEW l \in SlotIx,
                     slots'[k].pos > 0, slots'[k].pos = slots'[l].pos
              PROVE  k = l
  BY DEF PositionsDistinct
<1>1. k \in side /\ l \in side /\ slots[k].pos > 0 /\ slots[k].pos = slots[l].pos
  OBVIOUS
<1>2. slots[k].parked = slots[l].parked
  BY <1>1, LiveIs, Parts
<1>. QED
  BY <1>1, <1>2 DEF SlotsSound, PositionsDistinct

\* A park that only counts more dirty rows is still a park.
LEMMA StillParked ==
  ASSUME TypeOK, park.rows > 0, NEW n \in Nat
  PROVE  /\ [park EXCEPT !.dirty = n] # NoPark
         /\ [park EXCEPT !.dirty = n].history = park.history
         /\ [park EXCEPT !.dirty = n].rows = park.rows
         /\ [park EXCEPT !.dirty = n].blocks = park.blocks
         /\ [park EXCEPT !.dirty = n].kv = park.kv
         /\ [park EXCEPT !.dirty = n].pooled = park.pooled
         /\ [park EXCEPT !.dirty = n].dirty = n
<1>1. park \in ParkType
  BY Parts
<1>2. /\ [park EXCEPT !.dirty = n].history = park.history
      /\ [park EXCEPT !.dirty = n].rows = park.rows
      /\ [park EXCEPT !.dirty = n].blocks = park.blocks
      /\ [park EXCEPT !.dirty = n].kv = park.kv
      /\ [park EXCEPT !.dirty = n].pooled = park.pooled
      /\ [park EXCEPT !.dirty = n].dirty = n
  BY <1>1 DEF ParkType
<1>3. NoPark.rows = 0 /\ ~(0 > 0)
  BY DEF NoPark
<1>4. [park EXCEPT !.dirty = n] # NoPark
  BY <1>2, <1>3, Zenon
<1>. QED
  BY <1>2, <1>4

\* A block the park does not hold lies past its rows.
LEMMA BlockAbovePark ==
  ASSUME NEW n \in Nat, NEW b \in Blocks, b >= ParkBlocks(n)
  PROVE  n \div Compress \in Nat /\ b > n \div Compress
<1>1. /\ b \in Nat /\ CapBlocks \in Nat /\ b < CapBlocks
      /\ n \div Compress \in Nat
  BY BlockType, RulesAssumption, DivBound DEF Blocks
<1>. DEFINE q == n \div Compress
<1>. HIDE DEF q
<1>2. b >= Least(q + 1, CapBlocks)
  BY DEF ParkBlocks, q
<1>3. q \in Nat
  BY <1>1 DEF q
<1>4. b > q
  BY <1>1, <1>2, <1>3 DEF Least
<1>. QED
  BY <1>1, <1>4 DEF q

\* A parked snapshot the rule offers is whole once its rows are put back.
LEMMA Offered ==
  ASSUME TypeOK, ParkInv, park # NoPark, NEW i \in ParkedCandidates(slots, park, Dirty)
  PROVE  /\ i \in ParkedSlots(slots) /\ Names(slots[i], park.history)
         /\ RowsExact([r \in Rows |-> IF r < park.rows THEN park.kv[r] ELSE kv[r]],
                      [b \in Blocks |-> IF b < park.blocks THEN park.pooled[b] ELSE pooled[b]],
                      park.history, slots[i].pos)
<1>1. i \in ParkedSlots(slots) /\ Least(slots[i].pos, Dirty) <= park.rows
  BY DEF ParkedCandidates, ParkedUsable
<1>2. Names(slots[i], park.history) /\ Back(slots[i]) /\ park.blocks = ParkBlocks(park.rows)
  BY <1>1 DEF ParkInv
<1>3. slots[i].pos \in Nat /\ park.rows \in Nat /\ park.blocks \in Nat
  BY <1>1, Parts, LiveIs
<1>4. ASSUME NEW r \in Rows, r < slots[i].pos, ~(r < park.rows)
      PROVE  Dirty <= park.rows
  BY <1>1, <1>3, <1>4, RulesAssumption DEF Least, Rows
<1>5. ASSUME NEW b \in Blocks, (b + 1) * Compress <= slots[i].pos, ~(b < park.blocks)
      PROVE  Dirty <= park.rows
  <2>1. b \in Nat /\ (b + 1) * Compress \in Nat
    BY BlockType, RulesAssumption, DivBound
  <2>2. park.rows \div Compress \in Nat /\ b > park.rows \div Compress
    BY <1>2, <1>3, <1>5, <2>1, BlockAbovePark
  <2>3. ~((b + 1) * Compress <= park.rows)
    BY <1>3, <2>1, <2>2, LaterBlock
  <2>4. ~(slots[i].pos <= park.rows)
    BY <1>3, <1>5, <2>1, <2>3
  <2>. QED
    BY <1>1, <2>4 DEF Least
<1>6. \A r \in Rows : r < slots[i].pos =>
        (IF r < park.rows THEN park.kv[r] ELSE kv[r]) = Prefix(park.history, r + 1)
  BY <1>2, <1>4 DEF Back
<1>7. \A b \in Blocks : (b + 1) * Compress <= slots[i].pos =>
        (IF b < park.blocks THEN park.pooled[b] ELSE pooled[b]) = Prefix(park.history, (b + 1) * Compress)
  BY <1>2, <1>5 DEF Back
<1>. QED
  BY <1>1, <1>2, <1>6, <1>7 DEF RowsExact

\* An adopted slot below the rollback is the parked one it was, now live.
LEMMA Adopted ==
  ASSUME NEW sl \in [SlotIx -> SlotType], NEW p \in Nat, NEW k \in SlotIx,
         ForgetAbove(AdoptParked(sl), p)[k].pos > 0
  PROVE  LET t == ForgetAbove(AdoptParked(sl), p)[k] IN
         /\ k \in ParkedSlots(sl) /\ sl[k].pos \in Nat /\ sl[k].pos <= p
         /\ t.pos = sl[k].pos /\ t.rec = sl[k].rec
         /\ t.logits = sl[k].logits /\ t.done = sl[k].done
         /\ t.parked = FALSE
<1>. DEFINE a == [sl[k] EXCEPT !.parked = FALSE]
            t == ForgetAbove(AdoptParked(sl), p)[k]
<1>1. sl[k] \in SlotType /\ sl[k].pos \in Nat
  BY DEF SlotType
<1>2. /\ a.pos = sl[k].pos /\ a.rec = sl[k].rec /\ a.logits = sl[k].logits
      /\ a.done = sl[k].done /\ a.parked = FALSE
  BY <1>1 DEF SlotType
<1>3. AdoptParked(sl)[k] = IF sl[k].parked THEN a ELSE EmptySlot
  BY DEF AdoptParked
<1>4. t = IF ~AdoptParked(sl)[k].parked /\ AdoptParked(sl)[k].pos > p
          THEN EmptySlot ELSE AdoptParked(sl)[k]
  BY DEF ForgetAbove
<1>. HIDE DEF a
<1>5. t.pos > 0
  OBVIOUS
<1>. HIDE DEF t
<1>6. EmptySlot.pos = 0
  BY DEF EmptySlot
<1>7. sl[k].parked /\ t = a /\ ~(a.pos > p)
  BY <1>2, <1>3, <1>4, <1>5, <1>6
<1>8. sl[k].pos > 0 /\ sl[k].pos <= p
  BY <1>1, <1>2, <1>5, <1>7
<1>9. k \in ParkedSlots(sl)
  BY <1>7, <1>8, LiveIs
<1>10. /\ k \in ParkedSlots(sl) /\ sl[k].pos \in Nat /\ sl[k].pos <= p
       /\ t.pos = sl[k].pos /\ t.rec = sl[k].rec
       /\ t.logits = sl[k].logits /\ t.done = sl[k].done
       /\ t.parked = FALSE
  BY <1>1, <1>2, <1>7, <1>8, <1>9
<1>. QED
  BY <1>10 DEF t

-----------------------------------------------------------------------------
(* Slots and park come and go together                                     *)

\* A park is a copy of at least one row.
SlotsInv == TypeOK /\ SlotsSound /\ (park # NoPark => park.rows > 0)

\* Resuming from a live slot forgets slots, none of them parked.
LEMMA WarmSlots ==
  ASSUME SlotsInv, NEW ids \in Prompts, NEW i \in SlotIx, StartWarm(ids, i)
  PROVE  /\ SlotsSound' /\ (park' # NoPark => park'.rows > 0)
         /\ park' # NoPark => /\ park # NoPark
                              /\ park'.history = park.history /\ park'.rows = park.rows
                              /\ park'.blocks = park.blocks /\ park'.kv = park.kv
                              /\ park'.pooled = park.pooled /\ park'.dirty = Dirty
         /\ \A k \in SlotIx : \/ slots'[k] = EmptySlot
                              \/ /\ slots'[k] = slots[k]
                                 /\ ~slots[k].parked => slots[k].pos <= slots[i].pos
         /\ \A k \in SlotIx : k \in ParkedSlots(slots') <=> k \in ParkedSlots(slots)
<1>1. TypeOK /\ SlotsSound /\ (park # NoPark => park.rows > 0)
  BY DEF SlotsInv
<1>2. /\ slots' = ForgetAbove(slots, slots[i].pos)
      /\ park' = IF park = NoPark THEN NoPark ELSE [park EXCEPT !.dirty = Dirty]
  BY DEF StartWarm, Dirty
<1>3. \A k \in SlotIx : \/ slots'[k] = EmptySlot
                        \/ slots'[k] = slots[k] /\ (~slots[k].parked => slots[k].pos <= slots[i].pos)
  <2>1. \A k \in SlotIx : slots[k].pos \in Nat
    BY <1>1, Parts
  <2>. QED
    BY <1>2, <2>1 DEF ForgetAbove
<1>4. \A k \in SlotIx : k \in ParkedSlots(slots') <=> k \in ParkedSlots(slots)
  <2>1. \A k \in SlotIx : slots[k].parked => slots'[k] = slots[k]
    BY <1>2 DEF ForgetAbove
  <2>. QED
    BY <1>3, <2>1, LiveIs, EmptyIsEmpty
<1>5. Dirty \in Nat
  BY <1>1, Parts DEF Greatest, Dirty
<1>6. park # NoPark => /\ park' # NoPark
                       /\ park'.history = park.history /\ park'.rows = park.rows
                       /\ park'.blocks = park.blocks /\ park'.kv = park.kv
                       /\ park'.pooled = park.pooled /\ park'.dirty = Dirty
  BY <1>1, <1>2, <1>5, StillParked
<1>7. SlotsSound'
  <2>1. ParkedSlots(slots') # {} <=> ParkedSlots(slots) # {}
    BY <1>4, LiveIs
  <2>2. ParkHasSlots'
    BY <1>1, <1>2, <1>6, <2>1 DEF SlotsSound, ParkHasSlots
  <2>3. PositionsDistinct'
    BY <1>1, <1>3, EmptyIsEmpty, ThinDistinct
  <2>. QED
    BY <2>2, <2>3 DEF SlotsSound
<1>. QED
  BY <1>1, <1>2, <1>3, <1>4, <1>6, <1>7

\* Resuming from a parked slot empties every live slot and the park.
LEMMA ParkedTurn ==
  ASSUME SlotsInv, TypeOK', NEW ids \in Prompts, NEW i \in SlotIx, StartParked(ids, i)
  PROVE  /\ SlotsSound' /\ park' = NoPark
         /\ \A k \in SlotIx : slots'[k].pos > 0 =>
              /\ k \in ParkedSlots(slots) /\ slots[k].pos \in Nat /\ slots[k].pos <= slots[i].pos
              /\ slots'[k].pos = slots[k].pos /\ slots'[k].rec = slots[k].rec
              /\ slots'[k].logits = slots[k].logits /\ slots'[k].done = slots[k].done
              /\ slots'[k].parked = FALSE
<1>1. TypeOK /\ SlotsSound
  BY DEF SlotsInv
<1>2. park' = NoPark /\ slots' = ForgetAbove(AdoptParked(slots), slots[i].pos)
  BY DEF StartParked
<1>3. slots \in [SlotIx -> SlotType] /\ slots[i].pos \in Nat
  BY <1>1, Parts
<1>4. ASSUME NEW k \in SlotIx, slots'[k].pos > 0
      PROVE  /\ k \in ParkedSlots(slots) /\ slots[k].pos \in Nat /\ slots[k].pos <= slots[i].pos
             /\ slots'[k].pos = slots[k].pos /\ slots'[k].rec = slots[k].rec
             /\ slots'[k].logits = slots[k].logits /\ slots'[k].done = slots[k].done
             /\ slots'[k].parked = FALSE
  BY <1>2, <1>3, <1>4, Adopted
<1>5. SlotsSound'
  <2>1. ParkedSlots(slots') = {}
    BY <1>4, LiveIs
  <2>2. ParkHasSlots'
    BY <1>2, <2>1 DEF ParkHasSlots
  <2>3. \A k \in SlotIx : slots'[k].pos = 0 \/ (k \in ParkedSlots(slots) /\ slots'[k].pos = slots[k].pos)
    <3>1. ASSUME NEW k \in SlotIx PROVE slots'[k].pos \in Nat
      BY DEF TypeOK, SlotType
    <3>2. \A k \in SlotIx : slots'[k].pos > 0 => k \in ParkedSlots(slots) /\ slots'[k].pos = slots[k].pos
      BY <1>4
    <3>3. \A k \in SlotIx : slots'[k].pos = 0 \/ slots'[k].pos > 0
      BY <3>1
    <3>. QED
      BY <3>2, <3>3
  <2>4. PositionsDistinct'
    BY <1>1, <2>3, TurnDistinct
  <2>. QED
    BY <2>2, <2>4 DEF SlotsSound
<1>. QED
  BY <1>2, <1>4, <1>5

\* Setting the live conversation aside turns its slots into parked ones.
LEMMA AsideSlots ==
  ASSUME SlotsInv, NEW ids \in Prompts, NEW i \in SlotIx, StartCold(ids), ColdPark(ids, i)
  PROVE  /\ SlotsSound' /\ park' # NoPark /\ park'.rows > 0
         /\ \A k \in SlotIx : \/ k \notin LiveSlots(slots) /\ slots'[k].pos = 0
                              \/ /\ k \in LiveSlots(slots)
                                 /\ slots'[k].pos = slots[k].pos /\ slots'[k].rec = slots[k].rec
                                 /\ slots'[k].logits = slots[k].logits /\ slots'[k].done = slots[k].done
                                 /\ slots'[k].parked = TRUE
         /\ LiveSlots(slots') = {} /\ i \in ParkedSlots(slots')
         /\ \A k \in ParkedSlots(slots') : k \in LiveSlots(slots)
<1>1. TypeOK /\ SlotsSound
  BY DEF SlotsInv
<1>2. i \in LiveSlots(slots) /\ ParkCap > 0
  BY DEF ColdPark, PlanPark
<1>3. park'.rows = ParkRows(slots[i].pos) /\ slots' = ParkLive(slots)
  BY DEF ColdPark
<1>4. park'.rows > 0 /\ park' # NoPark
  <2>1. slots[i].pos \in Nat /\ slots[i].pos > 0
    BY <1>1, <1>2, Parts, LiveIs
  <2>2. ParkRows(slots[i].pos) > 0
    BY <1>2, <2>1, RulesAssumption DEF ParkRows, Least
  <2>3. NoPark.rows = 0
    BY DEF NoPark
  <2>. QED
    BY <1>3, <2>2, <2>3
<1>5. ASSUME NEW k \in SlotIx
      PROVE  \/ k \notin LiveSlots(slots) /\ slots'[k].pos = 0
             \/ /\ k \in LiveSlots(slots)
                /\ slots'[k].pos = slots[k].pos /\ slots'[k].rec = slots[k].rec
                /\ slots'[k].logits = slots[k].logits /\ slots'[k].done = slots[k].done
                /\ slots'[k].parked = TRUE
  <2>1. slots[k] \in SlotType
    BY <1>1, Parts
  <2>. DEFINE a == [slots[k] EXCEPT !.parked = TRUE]
  <2>2. /\ a.pos = slots[k].pos /\ a.rec = slots[k].rec /\ a.logits = slots[k].logits
        /\ a.done = slots[k].done /\ a.parked = TRUE
    BY <2>1 DEF SlotType
  <2>3. slots'[k] = IF k \in LiveSlots(slots) THEN a ELSE EmptySlot
    BY <1>3 DEF ParkLive
  <2>. HIDE DEF a
  <2>. QED
    BY <2>2, <2>3, EmptyIsEmpty
<1>6. LiveSlots(slots') = {} /\ i \in ParkedSlots(slots')
      /\ \A k \in ParkedSlots(slots') : k \in LiveSlots(slots)
  <2>. ~(0 > 0)
    OBVIOUS
  <2>1. ASSUME NEW k \in LiveSlots(slots') PROVE FALSE
    <3>1. k \in SlotIx /\ slots'[k].pos > 0 /\ ~slots'[k].parked
      BY LiveIs
    <3>. QED
      BY <1>5, <3>1, Zenon
  <2>2. ASSUME NEW k \in ParkedSlots(slots') PROVE k \in LiveSlots(slots)
    <3>1. k \in SlotIx /\ slots'[k].pos > 0
      BY LiveIs
    <3>. QED
      BY <1>5, <3>1, Zenon
  <2>3. i \in ParkedSlots(slots')
    BY <1>2, <1>5, LiveIs
  <2>. QED
    BY <2>1, <2>2, <2>3
<1>7. SlotsSound'
  <2>1. ParkHasSlots'
    BY <1>4, <1>6 DEF ParkHasSlots
  <2>2. \A k \in SlotIx : slots'[k].pos = 0 \/ (k \in LiveSlots(slots) /\ slots'[k].pos = slots[k].pos)
    BY <1>5
  <2>3. PositionsDistinct'
    BY <1>1, <2>2, TurnDistinct
  <2>. QED
    BY <2>1, <2>3 DEF SlotsSound
<1>. QED
  BY <1>4, <1>5, <1>6, <1>7

\* Keeping the parked conversation empties the live slots only.
LEMMA KeptSlots ==
  ASSUME SlotsInv, NEW ids \in Prompts, StartCold(ids), ColdKeep(ids)
  PROVE  /\ SlotsSound' /\ park # NoPark /\ park' # NoPark
         /\ park'.history = park.history /\ park'.rows = park.rows /\ park.rows > 0
         /\ park'.blocks = park.blocks /\ park'.kv = park.kv /\ park'.pooled = park.pooled
         /\ park'.dirty = Dirty /\ Dirty \in Nat
         /\ \A k \in LiveSlots(slots') : FALSE
         /\ \A k \in ParkedSlots(slots) : k \in ParkedSlots(slots')
         /\ \A k \in ParkedSlots(slots') : k \in ParkedSlots(slots) /\ slots'[k] = slots[k]
<1>1. TypeOK /\ SlotsSound
  BY DEF SlotsInv
<1>2. slots' = DropLive(slots) /\ park' = [park EXCEPT !.dirty = Dirty]
  BY DEF ColdKeep, Dirty
<1>3. park # NoPark /\ park.rows > 0
  BY DEF ColdKeep, PlanKeep, Kept, SlotsInv
<1>4. Dirty \in Nat
  BY <1>1, Parts DEF Dirty, Greatest
<1>5. /\ park' # NoPark /\ park'.history = park.history /\ park'.rows = park.rows
      /\ park'.blocks = park.blocks /\ park'.kv = park.kv /\ park'.pooled = park.pooled
      /\ park'.dirty = Dirty
  BY <1>1, <1>2, <1>3, <1>4, StillParked
<1>6. \A k \in SlotIx : \/ slots[k].parked /\ slots'[k] = slots[k]
                        \/ ~slots[k].parked /\ slots'[k] = EmptySlot
  BY <1>2 DEF DropLive
<1>7. /\ \A k \in LiveSlots(slots') : FALSE
      /\ \A k \in ParkedSlots(slots) : k \in ParkedSlots(slots')
      /\ \A k \in ParkedSlots(slots') : k \in ParkedSlots(slots) /\ slots'[k] = slots[k]
  BY <1>6, LiveIs, EmptyIsEmpty
<1>8. SlotsSound'
  <2>1. ParkedSlots(slots') # {} <=> ParkedSlots(slots) # {}
    BY <1>7
  <2>2. ParkHasSlots'
    BY <1>1, <1>3, <1>5, <2>1 DEF SlotsSound, ParkHasSlots
  <2>3. PositionsDistinct'
    BY <1>1, <1>6, EmptyIsEmpty, ThinDistinct
  <2>. QED
    BY <2>2, <2>3 DEF SlotsSound
<1>. QED
  BY <1>3, <1>4, <1>5, <1>7, <1>8

-----------------------------------------------------------------------------
(* A request is accepted                                                   *)

\* What the slots' part of the invariant says.
LEMMA CacheSlots == CacheInv => SlotsInv
  BY DEF CacheInv, SlotsInv, ParkInv

\* A rollback onto slot s, whose rows are exact, starts the prefill from the
\* first s.pos ids of the prompt.
LEMMA RolledBack ==
  ASSUME TypeOK, NEW ids \in Prompts, Accept(ids),
         NEW s \in SlotType, NEW held \in Seq(Ids), RestoreSlot(s, held),
         InCommonPrefix(s.pos, held, ids), s.pos = Len(ids) => s.logits # Junk,
         Names(s, held), RowsExact(kv', pooled', held, s.pos)
  PROVE  PhaseInv'
<1>1. ids \in Seq(Ids) /\ Len(ids) \in 1 .. MaxPrompt /\ Len(ids) \in Nat
  <2>1. PICK n \in 1 .. MaxPrompt : ids \in [1 .. n -> Ids]
    BY DEF Prompts
  <2>2. ids \in Seq(Ids) /\ n \in Nat
    BY <2>1, PromptType, CacheAssumption, RulesAssumption
  <2>3. Len(ids) = n
    BY <2>1, <2>2, LenProperties
  <2>. QED
    BY <2>1, <2>2, <2>3
<1>2. s.pos \in Nat /\ s.pos <= Len(held) /\ s.pos <= Len(ids) /\ Prefix(held, s.pos) = Prefix(ids, s.pos)
  BY DEF InCommonPrefix, SlotType
<1>3. /\ cap' = FALSE /\ rec' = s.rec /\ pos' = s.pos /\ done' = s.done
      /\ history' = Prefix(held, s.pos) /\ req' = ids /\ pc' = "prefill"
      /\ logits' = IF s.pos = Len(ids) THEN s.logits ELSE logits
  BY DEF RestoreSlot, DropDecodeGraph, Accept
<1>4. history' \in Seq(Ids) /\ Len(history') = s.pos /\ Prefix(history', s.pos) = history'
  BY <1>2, <1>3, PrefixOf, PrefixAll
<1>5. EngineExact'
  <2>1. RowsExact(kv', pooled', history', s.pos)
    <3>1. SameBelow(kv', pooled', kv', pooled', s.pos)
      BY DEF SameBelow
    <3>. QED
      BY <1>2, <1>3, <1>4, <3>1, ExactShift
  <2>2. rec' = history'
    BY <1>3 DEF Names
  <2>. QED
    BY <1>3, <1>4, <2>1, <2>2 DEF EngineExact
<1>6. pos' = Len(req') => logits' = req'
  <2>1. SUFFICES ASSUME s.pos = Len(ids) PROVE s.logits = ids
    BY <1>3
  <2>2. Prefix(ids, s.pos) = ids
    BY <1>1, <2>1, PrefixAll
  <2>. QED
    BY <1>2, <2>1, <2>2 DEF Names
<1>7. done' = pos' \div Compress
  BY <1>3 DEF Names
<1>8. req' # << >>
  BY <1>1, <1>3
<1>9. Len(req') <= MaxPrompt /\ pos' <= Len(req') /\ history' = Prefix(req', pos')
  BY <1>1, <1>2, <1>3, CacheAssumption
<1>. QED
  BY <1>3, <1>5, <1>6, <1>7, <1>8, <1>9 DEF PhaseInv

\* A request that resumes from a live snapshot.
LEMMA WarmStep ==
  ASSUME CacheInv, TypeOK', NEW ids \in Prompts, NEW i \in SlotIx, StartWarm(ids, i)
  PROVE  CacheInv'
<1>. DEFINE p == slots[i].pos
<1>1. /\ i \in LiveSlots(slots) /\ p > 0 /\ p \in Nat
      /\ InCommonPrefix(p, history, ids) /\ (p = Len(ids) => slots[i].logits # Junk)
  <2>1. ResumesLive(i, slots, park, history, ids)
    BY DEF StartWarm
  <2>. QED
    BY <2>1, ResumesLiveFacts, LiveIs, Parts DEF CacheInv
<1>2. /\ history \in Seq(Ids) /\ slots[i] \in SlotType
      /\ Names(slots[i], history) /\ RowsExact(kv, pooled, history, p)
  BY <1>1, Parts DEF CacheInv, LiveIntact, Names
<1>3. /\ kv' = kv /\ pooled' = pooled /\ file' = file
      /\ slots' = ForgetAbove(slots, p) /\ history' = Prefix(history, p) /\ p <= Len(history)
      /\ park' = IF park = NoPark THEN NoPark
                 ELSE [park EXCEPT !.dirty = Greatest(park.dirty, Len(history))]
  BY <1>2 DEF StartWarm, Accept, RestoreSlot, Names
<1>4. PhaseInv'
  BY <1>1, <1>2, <1>3, RolledBack DEF StartWarm, CacheInv
<1>5. history' \in Seq(Ids) /\ Len(history') = p
  BY <1>1, <1>2, <1>3, PrefixOf
<1>6. /\ SlotsSound'
      /\ park' # NoPark => /\ park # NoPark
                           /\ park'.history = park.history /\ park'.rows = park.rows
                           /\ park'.blocks = park.blocks /\ park'.kv = park.kv
                           /\ park'.pooled = park.pooled /\ park'.dirty = Dirty
      /\ \A k \in SlotIx : slots'[k] = EmptySlot \/ (slots'[k] = slots[k] /\ (~slots[k].parked => slots[k].pos <= p))
      /\ \A k \in SlotIx : k \in ParkedSlots(slots') <=> k \in ParkedSlots(slots)
  BY CacheSlots, WarmSlots
<1>7. \A k \in LiveSlots(slots') : k \in LiveSlots(slots) /\ slots'[k] = slots[k] /\ slots[k].pos <= p
  BY <1>6, LiveIs, EmptyIsEmpty
<1>8. LiveIntact'
  <2>1. ASSUME NEW k \in LiveSlots(slots')
        PROVE  /\ Prefix(history, slots[k].pos) = Prefix(history', slots[k].pos)
               /\ SameBelow(kv, pooled, kv', pooled', slots[k].pos)
    <3>1. slots[k].pos \in Nat /\ slots[k].pos <= p
      BY <1>7, LiveIs, Parts DEF CacheInv
    <3>. QED
      BY <1>1, <1>2, <1>3, <3>1, PrefixTwice DEF SameBelow
  <2>2. \A k \in LiveSlots(slots') : slots[k].pos <= Len(history')
    BY <1>5, <1>7
  <2>. QED
    BY <1>5, <1>7, <2>1, <2>2, LiveCarried DEF CacheInv
<1>9. Dirty \in Nat
  BY Parts DEF CacheInv, Greatest, Dirty
<1>10. ParkInv'
  <2>1. park' # NoPark => Dirty <= Dirty'
    <3>1. p <= Len(history) /\ Len(history) \in Nat /\ park.dirty \in Nat
      BY <1>2, Parts DEF CacheInv, Names
    <3>2. Greatest(Dirty, p) = Dirty
      BY <1>1, <3>1 DEF Dirty, Greatest
    <3>3. park' # NoPark => Dirty' = Greatest(Dirty, p)
      BY <1>5, <1>6 DEF Dirty
    <3>. QED
      BY <1>9, <3>2, <3>3
  <2>2. \A k \in ParkedSlots(slots') : k \in ParkedSlots(slots) /\ slots'[k] = slots[k]
    BY <1>6, LiveIs, EmptyIsEmpty
  <2>. QED
    BY <1>3, <1>6, <2>1, <2>2, ParkCarried DEF CacheInv
<1>11. FileIntact'
  BY <1>3 DEF CacheInv, FileIntact
<1>. QED
  BY <1>4, <1>6, <1>8, <1>10, <1>11 DEF CacheInv

\* A request that resumes from the parked conversation.
LEMMA ParkedStep ==
  ASSUME CacheInv, TypeOK', NEW ids \in Prompts, NEW i \in SlotIx, StartParked(ids, i)
  PROVE  CacheInv'
<1>. DEFINE p == slots[i].pos
            h == park.history
            backKv == [r \in Rows |-> IF r < park.rows THEN park.kv[r] ELSE kv[r]]
            backPooled == [b \in Blocks |-> IF b < park.blocks THEN park.pooled[b] ELSE pooled[b]]
<1>1. /\ park # NoPark /\ i \in ParkedCandidates(slots, park, Dirty)
      /\ InCommonPrefix(p, h, ids) /\ (p = Len(ids) => slots[i].logits # Junk)
  <2>1. ResumesParked(i, slots, park, history, ids)
    BY DEF StartParked
  <2>. QED
    BY <2>1, ResumesParkedFacts DEF Dirty
<1>2. /\ kv' = backKv /\ pooled' = backPooled /\ file' = file /\ park' = NoPark
      /\ slots' = ForgetAbove(AdoptParked(slots), p) /\ history' = Prefix(h, p)
  BY DEF StartParked, Accept, RestoreSlot
<1>3. i \in ParkedSlots(slots) /\ Names(slots[i], h) /\ RowsExact(kv', pooled', h, p)
  BY <1>1, <1>2, Offered DEF CacheInv
<1>4. h \in Seq(Ids) /\ slots[i] \in SlotType /\ p \in Nat /\ p <= Len(h)
  BY <1>3, Parts DEF CacheInv, Names
<1>. HIDE DEF backKv, backPooled
<1>5. PhaseInv'
  BY <1>1, <1>3, <1>4, RolledBack DEF StartParked, CacheInv
<1>6. history' \in Seq(Ids) /\ Len(history') = p
  BY <1>2, <1>4, PrefixOf
<1>7. /\ SlotsSound'
      /\ \A k \in SlotIx : slots'[k].pos > 0 =>
           /\ k \in ParkedSlots(slots) /\ slots[k].pos \in Nat /\ slots[k].pos <= p
           /\ slots'[k].pos = slots[k].pos /\ slots'[k].rec = slots[k].rec
           /\ slots'[k].logits = slots[k].logits /\ slots'[k].done = slots[k].done
  BY CacheSlots, ParkedTurn
<1>8. LiveIntact'
  <2>1. ASSUME NEW k \in LiveSlots(slots')
        PROVE  Names(slots'[k], history') /\ RowsExact(kv', pooled', history', slots'[k].pos)
    <3>1. /\ k \in ParkedSlots(slots) /\ slots[k].pos \in Nat /\ slots[k].pos <= p
          /\ slots'[k].pos = slots[k].pos /\ slots'[k].rec = slots[k].rec
          /\ slots'[k].logits = slots[k].logits /\ slots'[k].done = slots[k].done
      BY <1>7, LiveIs
    <3>2. Names(slots[k], h)
      BY <1>1, <3>1 DEF CacheInv, ParkInv
    <3>3. Prefix(h, slots[k].pos) = Prefix(history', slots[k].pos)
      BY <1>2, <1>4, <3>1, PrefixTwice
    <3>4. Names(slots'[k], history')
      BY <1>6, <3>1, <3>2, <3>3 DEF Names
    <3>5. SameBelow(kv', pooled', kv', pooled', slots[k].pos)
      BY DEF SameBelow
    <3>6. RowsExact(kv', pooled', history', slots[k].pos)
      BY <1>3, <1>4, <1>6, <3>1, <3>3, <3>5, ExactShift
    <3>. QED
      BY <3>1, <3>4, <3>6
  <2>. QED
    BY <2>1 DEF LiveIntact, Names
<1>9. ParkInv' /\ FileIntact'
  BY <1>2 DEF CacheInv, ParkInv, FileIntact
<1>. QED
  BY <1>5, <1>7, <1>8, <1>9 DEF CacheInv

\* A prompt is a non-empty id list of at most MaxPrompt ids.
LEMMA PromptLen ==
  ASSUME NEW ids \in Prompts
  PROVE  ids \in Seq(Ids) /\ Len(ids) \in 1 .. MaxPrompt /\ Len(ids) \in Nat /\ ids # << >>
<1>1. PICK n \in 1 .. MaxPrompt : ids \in [1 .. n -> Ids]
  BY DEF Prompts
<1>2. ids \in Seq(Ids) /\ n \in Nat
  BY <1>1, PromptType, CacheAssumption, RulesAssumption
<1>3. Len(ids) = n
  BY <1>1, <1>2, LenProperties
<1>. QED
  BY <1>1, <1>2, <1>3, EmptySeq, CacheAssumption

\* Everything held is dropped.
LEMMA NothingHeld ==
  ASSUME slots' = NoSlots, park' = NoPark
  PROVE  LiveIntact' /\ SlotsSound' /\ ParkInv'
<1>1. LiveSlots(slots') = {} /\ ParkedSlots(slots') = {} /\ \A k \in SlotIx : slots'[k].pos = 0
  BY EmptyIsEmpty
<1>2. LiveIntact'
  BY <1>1 DEF LiveIntact
<1>3. ParkHasSlots'
  BY <1>1 DEF ParkHasSlots
<1>4. PositionsDistinct'
  BY <1>1 DEF PositionsDistinct
<1>5. ParkInv'
  BY DEF ParkInv
<1>. QED
  BY <1>2, <1>3, <1>4, <1>5 DEF SlotsSound

\* A request that prefills from the first id.
LEMMA FromZero ==
  ASSUME TypeOK, NEW ids \in Prompts, Accept(ids), ResetToZero
  PROVE  PhaseInv' /\ history' = << >> /\ history' \in Seq(Ids) /\ Len(history') = 0
<1>1. ids \in Seq(Ids) /\ Len(ids) \in 1 .. MaxPrompt /\ Len(ids) \in Nat /\ ids # << >>
  BY PromptLen
<1>2. /\ cap' = FALSE /\ rec' = << >> /\ pos' = 0 /\ done' = 0
      /\ history' = << >> /\ req' = ids /\ pc' = "prefill"
  BY DEF ResetToZero, DropDecodeGraph, Accept, Junk
<1>3. history' \in Seq(Ids) /\ Len(history') = 0
  BY <1>2, EmptySeq
<1>4. /\ RowsExact(kv', pooled', << >>, 0)
      /\ 0 \div Compress = 0
      /\ Prefix(ids, 0) = << >>
  BY <1>1, NothingExact
<1>5. EngineExact'
  BY <1>2, <1>3, <1>4 DEF EngineExact
<1>6. Len(req') <= MaxPrompt /\ pos' <= Len(req') /\ pos' # Len(req') /\ history' = Prefix(req', pos')
      /\ done' = pos' \div Compress
  BY <1>1, <1>2, <1>4, CacheAssumption, RulesAssumption
<1>. QED
  BY <1>1, <1>2, <1>3, <1>5, <1>6 DEF PhaseInv

\* A cold start that sets the live conversation aside.
LEMMA SetAside ==
  ASSUME CacheInv, TypeOK', NEW ids \in Prompts, NEW i \in SlotIx, StartCold(ids), ColdPark(ids, i)
  PROVE  LiveIntact' /\ SlotsSound' /\ ParkInv'
<1>. DEFINE rows == ParkRows(slots[i].pos)
<1>1. i \in LiveSlots(slots) /\ ParkCap > 0
  BY DEF ColdPark, PlanPark
<1>2. /\ park'.history = history /\ park'.rows = rows /\ park'.blocks = ParkBlocks(rows)
      /\ park'.kv = [r \in Rows |-> IF r < rows THEN kv[r] ELSE Junk]
      /\ park'.pooled = [b \in Blocks |-> IF b < ParkBlocks(rows) THEN pooled[b] ELSE Junk]
      /\ kv' = kv /\ pooled' = pooled /\ slots' = ParkLive(slots)
  BY DEF ColdPark, StartCold
<1>. HIDE DEF rows
<1>3. /\ SlotsSound' /\ park' # NoPark /\ park'.rows > 0
      /\ \A k \in SlotIx : \/ k \notin LiveSlots(slots) /\ slots'[k].pos = 0
                           \/ /\ k \in LiveSlots(slots)
                              /\ slots'[k].pos = slots[k].pos /\ slots'[k].rec = slots[k].rec
                              /\ slots'[k].logits = slots[k].logits /\ slots'[k].done = slots[k].done
                              /\ slots'[k].parked = TRUE
      /\ LiveSlots(slots') = {} /\ i \in ParkedSlots(slots')
      /\ \A k \in ParkedSlots(slots') : k \in LiveSlots(slots)
  BY CacheSlots, AsideSlots
<1>4. LiveIntact'
  BY <1>3 DEF LiveIntact
<1>5. ASSUME NEW k \in ParkedSlots(slots')
      PROVE  Names(slots'[k], park'.history) /\ Back(slots[k])'
  <2>1. k \in LiveSlots(slots) /\ k \in SlotIx
    BY <1>3, LiveIs
  <2>2. Names(slots[k], history) /\ RowsExact(kv, pooled, history, slots[k].pos)
    BY <2>1 DEF CacheInv, LiveIntact, Names
  <2>3. /\ slots'[k].pos = slots[k].pos /\ slots'[k].rec = slots[k].rec
        /\ slots'[k].logits = slots[k].logits /\ slots'[k].done = slots[k].done
    BY <1>3, <2>1
  <2>4. Names(slots'[k], park'.history)
    BY <1>2, <2>2, <2>3 DEF Names
  <2>5. ASSUME NEW r \in Rows, r < slots'[k].pos
        PROVE  IF r < park'.rows THEN park'.kv[r] = Prefix(park'.history, r + 1)
               ELSE Dirty' <= park'.rows => kv'[r] = Prefix(park'.history, r + 1)
    BY <1>2, <2>2, <2>3, <2>5 DEF RowsExact
  <2>6. ASSUME NEW b \in Blocks, (b + 1) * Compress <= slots'[k].pos
        PROVE  IF b < park'.blocks THEN park'.pooled[b] = Prefix(park'.history, (b + 1) * Compress)
               ELSE Dirty' <= park'.rows => pooled'[b] = Prefix(park'.history, (b + 1) * Compress)
    BY <1>2, <2>2, <2>3, <2>6 DEF RowsExact
  <2>. QED
    BY <2>4, <2>5, <2>6 DEF Back
<1>6. ParkInv'
  BY <1>1, <1>2, <1>3, <1>5 DEF ParkInv
<1>. QED
  BY <1>3, <1>4, <1>6

\* A cold start that keeps the parked conversation.
LEMMA KeptAside ==
  ASSUME CacheInv, TypeOK', NEW ids \in Prompts, StartCold(ids), ColdKeep(ids)
  PROVE  LiveIntact' /\ SlotsSound' /\ ParkInv'
<1>1. TypeOK /\ ParkInv
  BY DEF CacheInv
<1>2. kv' = kv /\ pooled' = pooled
  BY DEF StartCold
<1>3. /\ SlotsSound' /\ park # NoPark /\ park' # NoPark
      /\ park'.history = park.history /\ park'.rows = park.rows
      /\ park'.blocks = park.blocks /\ park'.kv = park.kv /\ park'.pooled = park.pooled
      /\ park'.dirty = Dirty /\ Dirty \in Nat
      /\ \A k \in LiveSlots(slots') : FALSE
      /\ \A k \in ParkedSlots(slots') : k \in ParkedSlots(slots) /\ slots'[k] = slots[k]
  BY CacheSlots, KeptSlots
<1>4. LiveIntact'
  BY <1>3 DEF LiveIntact
<1>5. ParkInv'
  <2>1. Dirty <= Dirty'
    <3>1. history' = << >> /\ Len(history') = 0
      BY EmptySeq DEF StartCold, ResetToZero
    <3>2. Greatest(Dirty, 0) = Dirty
      BY <1>3 DEF Greatest
    <3>3. Dirty' = Greatest(Dirty, 0)
      BY <1>3, <3>1 DEF Dirty
    <3>. QED
      BY <1>3, <3>2, <3>3
  <2>. QED
    BY <1>1, <1>2, <1>3, <2>1, ParkCarried
<1>. QED
  BY <1>3, <1>4, <1>5

\* A request no snapshot serves.
LEMMA ColdStep ==
  ASSUME CacheInv, TypeOK', NEW ids \in Prompts, StartCold(ids)
  PROVE  CacheInv'
<1>1. PhaseInv'
  BY FromZero DEF StartCold, CacheInv
<1>2. LiveIntact' /\ SlotsSound' /\ ParkInv'
  <2>1. CASE \E i \in SlotIx : ColdPark(ids, i)
    BY <2>1, SetAside
  <2>2. CASE ColdKeep(ids)
    BY <2>2, KeptAside
  <2>3. CASE ColdDrop(ids)
    BY <2>3, NothingHeld DEF ColdDrop
  <2>. QED
    BY <2>1, <2>2, <2>3 DEF StartCold
<1>3. FileIntact'
  BY DEF StartCold, Accept, CacheInv, FileIntact
<1>. QED
  BY <1>1, <1>2, <1>3 DEF CacheInv

-----------------------------------------------------------------------------
(* The prompt is prefilled                                                 *)

\* A chunk continues an exact prefill of the prompt, and writes only between
\* the old position and the new one.
LEMMA ChunkFacts ==
  ASSUME TypeOK, PhaseInv, pc = "prefill", NEW t \in Nat, pos + t <= Len(req), WriteChunk(t)
  PROVE  /\ pos' = pos + t /\ pos' \in Nat /\ history' = Prefix(req, pos') /\ history' \in Seq(Ids)
         /\ Len(history') = pos' /\ rec' = history' /\ logits' = history'
         /\ done' = pos' \div Compress /\ cap' = cap
         /\ RowsExact(kv', pooled', history', pos')
         /\ \A n \in Nat : n <= pos => /\ Prefix(history, n) = Prefix(history', n)
                                       /\ SameBelow(kv, pooled, kv', pooled', n)
         /\ \A r \in Rows : r >= pos' => kv'[r] = kv[r]
         /\ \A b \in Blocks : b >= pos' \div Compress => pooled'[b] = pooled[b]
<1>. DEFINE e == pos + t
            q == pos \div Compress
            qe == e \div Compress
            h == Prefix(req, e)
<1>1. /\ history \in Seq(Ids) /\ Len(history) = pos /\ pos \in Nat /\ req \in Seq(Ids)
      /\ e \in Nat /\ pos <= e /\ e <= Len(req) /\ Len(req) \in Nat
  BY Parts
<1>2. history = Prefix(req, pos) /\ EngineExact
  BY DEF PhaseInv
<1>3. history \o SubSeq(req, pos + 1, pos + t) = h
  <2>1. req \in Seq(Ids) /\ pos \in Nat /\ t \in Nat /\ pos + t <= Len(req)
    BY <1>1
  <2>2. Prefix(req, pos) \o SubSeq(req, pos + 1, pos + t) = Prefix(req, pos + t)
    BY <2>1, NextChunk
  <2>. QED
    BY <1>2, <2>2
<1>4. h \in Seq(Ids) /\ Len(h) = e /\ Prefix(h, e) = h
  BY <1>1, PrefixOf, PrefixAll
<1>5. ASSUME NEW n \in Nat, n <= pos
      PROVE  Prefix(history, n) = Prefix(h, n)
  BY <1>1, <1>2, <1>5, PrefixTwice
<1>6. /\ history' = h /\ pos' = e /\ done' = qe /\ rec' = h /\ logits' = h /\ cap' = cap
      /\ kv' = [r \in Rows |-> IF pos <= r /\ r < e THEN Prefix(h, r + 1) ELSE kv[r]]
      /\ pooled' = [b \in Blocks |-> IF q <= b /\ b < qe
                                     THEN Prefix(h, (b + 1) * Compress) ELSE pooled[b]]
  BY <1>2, <1>3, <1>4 DEF WriteChunk
<1>7. q \in Nat /\ qe \in Nat
      /\ \A b \in Nat : /\ (b + 1) * Compress \in Nat
                        /\ (b < q <=> (b + 1) * Compress <= pos)
                        /\ (b < qe <=> (b + 1) * Compress <= e)
  BY <1>1, DivBound, RulesAssumption
<1>8. \A r \in Rows : r \in Nat
  BY RulesAssumption DEF Rows
<1>9. \A b \in Blocks : b \in Nat
  BY BlockType
<1>10. /\ \A r \in Rows : r < pos => kv[r] = Prefix(history, r + 1)
       /\ \A b \in Blocks : (b + 1) * Compress <= pos => pooled[b] = Prefix(history, (b + 1) * Compress)
  BY <1>1, <1>2 DEF EngineExact, RowsExact
<1>. HIDE DEF e, q, qe, h
<1>11. ASSUME NEW r \in Rows, r < e
       PROVE  kv'[r] = Prefix(h, r + 1)
  <2>1. CASE pos <= r
    BY <1>6, <1>11, <2>1
  <2>2. CASE r < pos
    <3>1. kv'[r] = kv[r] /\ r + 1 \in Nat /\ r + 1 <= pos
      BY <1>1, <1>6, <1>8, <2>2
    <3>. QED
      BY <1>5, <1>10, <2>2, <3>1
  <2>. QED
    BY <1>1, <1>8, <2>1, <2>2
<1>12. ASSUME NEW b \in Blocks, (b + 1) * Compress <= e
       PROVE  pooled'[b] = Prefix(h, (b + 1) * Compress)
  <2>1. b \in Nat /\ b < qe
    BY <1>7, <1>9, <1>12
  <2>2. CASE q <= b
    BY <1>6, <2>1, <2>2
  <2>3. CASE b < q
    <3>1. pooled'[b] = pooled[b]
      BY <1>6, <1>7, <2>1, <2>3
    <3>2. (b + 1) * Compress \in Nat /\ (b + 1) * Compress <= pos
      BY <1>7, <2>1, <2>3
    <3>. QED
      BY <1>5, <1>10, <3>1, <3>2
  <2>. QED
    BY <1>7, <2>1, <2>2, <2>3
<1>13. ASSUME NEW n \in Nat, n <= pos
       PROVE  SameBelow(kv, pooled, kv', pooled', n)
  <2>1. ASSUME NEW r \in Rows, r < n PROVE kv'[r] = kv[r]
    BY <1>1, <1>6, <1>8, <1>13, <2>1
  <2>2. ASSUME NEW b \in Blocks, (b + 1) * Compress <= n PROVE pooled'[b] = pooled[b]
    <3>1. b \in Nat /\ (b + 1) * Compress \in Nat
      BY <1>7, <1>9
    <3>2. (b + 1) * Compress <= pos
      BY <1>1, <1>13, <2>2, <3>1
    <3>3. b < q
      BY <1>7, <3>1, <3>2
    <3>. QED
      BY <1>6, <1>7, <3>1, <3>3
  <2>. QED
    BY <2>1, <2>2 DEF SameBelow
<1>14. \A r \in Rows : r >= e => kv'[r] = kv[r]
  BY <1>1, <1>6, <1>8
<1>15. \A b \in Blocks : b >= qe => pooled'[b] = pooled[b]
  BY <1>6, <1>7, <1>9
<1>16. RowsExact(kv', pooled', h, e)
  BY <1>11, <1>12 DEF RowsExact
<1>17. e = pos + t /\ h = Prefix(req, e) /\ qe = e \div Compress
  BY DEF e, h, qe
<1>. QED
  BY <1>1, <1>4, <1>5, <1>6, <1>13, <1>14, <1>15, <1>16, <1>17

\* A step that writes below dirty rows only leaves the parked conversation as
\* it is, when its slots are among the old ones.
LEMMA DirtyPark ==
  ASSUME TypeOK, ParkInv, TypeOK', park' \in {park, NoPark},
         \A k \in ParkedSlots(slots') : \E j \in ParkedSlots(slots) : slots'[k] = slots[j],
         Len(history) <= Len(history'),
         \A r \in Rows : r >= Len(history') => kv'[r] = kv[r],
         \A b \in Blocks : b > Len(history') \div Compress => pooled'[b] = pooled[b]
  PROVE  ParkInv'
<1>1. /\ Len(history) \in Nat /\ Len(history') \in Nat /\ park.rows \in Nat /\ park.dirty \in Nat
  <2>1. Len(history) \in Nat /\ park.rows \in Nat /\ park.dirty \in Nat
    BY Parts
  <2>2. Len(history') \in Nat
    BY DEF TypeOK, CellType
  <2>. QED
    BY <2>1, <2>2
<1>2. SUFFICES ASSUME park' # NoPark PROVE ParkInv'
  BY DEF ParkInv
<1>3. park' = park /\ park # NoPark
  BY <1>2
<1>4. Dirty' = Greatest(park.dirty, Len(history')) /\ Dirty = Greatest(park.dirty, Len(history))
  BY <1>3 DEF Dirty
<1>5. Dirty <= Dirty' /\ (Dirty' <= park.rows => Len(history') <= park.rows)
  BY <1>1, <1>4 DEF Greatest
<1>6. ASSUME Dirty' <= park.rows
      PROVE  /\ \A r \in Rows : r >= park.rows => kv'[r] = kv[r]
             /\ \A b \in Blocks : b >= park.blocks => pooled'[b] = pooled[b]
  <2>1. Len(history') <= park.rows
    BY <1>5, <1>6
  <2>2. ASSUME NEW r \in Rows, r >= park.rows PROVE kv'[r] = kv[r]
    <3>1. r \in Int
      BY RulesAssumption DEF Rows
    <3>2. r >= Len(history')
      BY <1>1, <2>1, <2>2, <3>1
    <3>. QED
      BY <3>2
  <2>3. ASSUME NEW b \in Blocks, b >= park.blocks PROVE pooled'[b] = pooled[b]
    <3>1. park.blocks = ParkBlocks(park.rows)
      BY <1>3 DEF ParkInv
    <3>2. park.rows \div Compress \in Nat /\ b > park.rows \div Compress
      BY <1>1, <2>3, <3>1, BlockAbovePark
    <3>3. Len(history') \div Compress \in Nat /\ Len(history') \div Compress <= park.rows \div Compress
      BY <1>1, <2>1, DivMono
    <3>4. b \in Nat
      BY BlockType
    <3>5. b > Len(history') \div Compress
      BY <3>2, <3>3, <3>4
    <3>. QED
      BY <3>5
  <2>. QED
    BY <2>2, <2>3
<1>. QED
  BY <1>2, <1>3, <1>5, <1>6, ParkCarried

\* A chunk leaves the parked conversation as it is, with or without a snapshot.
LEMMA ChunkPark ==
  ASSUME CacheInv, TypeOK', pc = "prefill", NEW t \in Nat, pos + t <= Len(req), WriteChunk(t),
         park' \in {park, NoPark},
         \A k \in ParkedSlots(slots') : \E j \in ParkedSlots(slots) : slots'[k] = slots[j]
  PROVE  ParkInv'
<1>1. TypeOK /\ ParkInv /\ PhaseInv
  BY DEF CacheInv
<1>2. /\ pos' = pos + t /\ pos' \in Nat /\ Len(history') = pos'
      /\ \A r \in Rows : r >= pos' => kv'[r] = kv[r]
      /\ \A b \in Blocks : b >= pos' \div Compress => pooled'[b] = pooled[b]
  BY <1>1, ChunkFacts
<1>3. Len(history) <= Len(history')
  BY <1>1, <1>2, Parts
<1>4. \A b \in Blocks : b > pos' \div Compress => pooled'[b] = pooled[b]
  <2>1. pos' \div Compress \in Nat /\ \A b \in Blocks : b \in Nat
    BY <1>2, DivBound, RulesAssumption, BlockType
  <2>2. \A b \in Blocks : b > pos' \div Compress => b >= pos' \div Compress
    BY <2>1
  <2>. QED
    BY <1>2, <2>2
<1>. QED
  BY <1>1, <1>2, <1>3, <1>4, DirtyPark

\* The length of a chunk: not past the prompt's end, nor the anchor's.
LEMMA ChunkLength ==
  ASSUME TypeOK, pos < Len(req), NEW t, t = Least(Chunk, PrefillEnd - pos)
  PROVE  /\ t \in Nat \ {0} /\ pos + t <= PrefillEnd /\ PrefillEnd <= Len(req) /\ PrefillEnd \in Nat
         /\ pos + t <= Len(req) /\ pos \in Nat /\ Len(req) \in Nat
<1>1. PrefillEnd \in Nat /\ pos < PrefillEnd /\ PrefillEnd <= Len(req)
  BY PrefillEndType
<1>2. pos \in Nat /\ Len(req) \in Nat
  BY Parts
<1>3. t \in Nat \ {0} /\ pos + t <= PrefillEnd
  BY <1>1, <1>2, CacheAssumption DEF Least
<1>. QED
  BY <1>1, <1>2, <1>3

\* One chunk of the prompt, the last one, one that ends at the anchor, or one
\* after which the request is stopped.
LEMMA ChunkStep ==
  ASSUME CacheInv, TypeOK', PrefillChunk
  PROVE  CacheInv'
<1>. DEFINE t == Least(Chunk, PrefillEnd - pos)
<1>1. TypeOK /\ LiveIntact /\ FileIntact /\ SlotsSound /\ ParkInv /\ PhaseInv
  BY DEF CacheInv
<1>2. pc = "prefill" /\ pos < Len(req) /\ WriteChunk(t) /\ file' = file
  BY DEF PrefillChunk
<1>3. \/ pos + t < PrefillEnd /\ pc' = pc /\ req' = req /\ slots' = slots /\ park' = park
      \/ TakeSnapshot(FALSE) /\ pc' = "idle" /\ req' = << >>
      \/ pos + t = PrefillEnd /\ PrefillEnd < Len(req) /\ TakeSnapshot(TRUE) /\ pc' = pc /\ req' = req
      \/ pos + t = Len(req) /\ TakeSnapshot(FALSE) /\ pc' = "draw" /\ req' = req
  BY DEF PrefillChunk, cache
<1>4. t \in Nat \ {0} /\ pos + t <= Len(req) /\ pos \in Nat /\ Len(req) \in Nat
  BY <1>1, <1>2, ChunkLength
<1>. HIDE DEF t
<1>5. /\ pos' = pos + t /\ pos' \in Nat /\ history' = Prefix(req, pos') /\ history' \in Seq(Ids)
      /\ Len(history') = pos' /\ rec' = history' /\ logits' = history'
      /\ done' = pos' \div Compress /\ cap' = cap
      /\ RowsExact(kv', pooled', history', pos')
      /\ \A n \in Nat : n <= pos => /\ Prefix(history, n) = Prefix(history', n)
                                    /\ SameBelow(kv, pooled, kv', pooled', n)
  BY <1>1, <1>2, <1>4, ChunkFacts
<1>6. EngineExact'
  BY <1>5 DEF EngineExact
<1>7. pos' = Len(req) => history' = req
  BY <1>1, <1>5, Parts, PrefixAll
<1>8. ASSUME NEW j \in LiveSlots(slots)
      PROVE  /\ slots[j].pos <= Len(history')
             /\ Prefix(history, slots[j].pos) = Prefix(history', slots[j].pos)
             /\ SameBelow(kv, pooled, kv', pooled', slots[j].pos)
  <2>1. slots[j].pos \in Nat /\ slots[j].pos <= pos
    BY <1>1, Parts, LiveIs DEF LiveIntact
  <2>. QED
    BY <1>4, <1>5, <2>1
<1>9. ASSUME NEW head \in BOOLEAN, TakeSnapshot(head)
      PROVE  LiveIntact' /\ SlotsSound' /\ ParkInv'
  <2>1. LiveIntact'
    BY <1>1, <1>5, <1>8, <1>9, SnapshotLive
  <2>2. SlotsSound'
    BY <1>1, <1>9, SnapshotSound
  <2>3. /\ park' \in {park, NoPark}
        /\ \A k \in ParkedSlots(slots') : \E j \in ParkedSlots(slots) : slots'[k] = slots[j]
    BY <1>1, <1>9, SnapshotPark
  <2>. QED
    BY <1>2, <1>4, <2>1, <2>2, <2>3, ChunkPark
<1>10. ASSUME slots' = slots, park' = park
       PROVE  LiveIntact' /\ SlotsSound' /\ ParkInv'
  <2>1. LiveIntact'
    BY <1>1, <1>5, <1>8, <1>10, LiveCarried
  <2>2. SlotsSound'
    BY <1>1, <1>10 DEF SlotsSound, ParkHasSlots, PositionsDistinct
  <2>3. ParkInv'
    BY <1>2, <1>4, <1>10, ChunkPark
  <2>. QED
    BY <2>1, <2>2, <2>3
<1>11. LiveIntact' /\ SlotsSound' /\ ParkInv'
  BY <1>3, <1>9, <1>10
<1>12. FileIntact'
  BY <1>1, <1>2 DEF FileIntact
<1>13. PhaseInv'
  <2>1. Len(req) <= MaxPrompt /\ ~cap /\ req # << >>
    BY <1>1, <1>2 DEF PhaseInv
  <2>2. CASE pc' = "prefill" /\ req' = req
    <3>1. ~cap' /\ pos' <= Len(req') /\ history' = Prefix(req', pos') /\ (pos' = Len(req') => logits' = req')
      BY <1>4, <1>5, <1>7, <2>1, <2>2
    <3>. QED
      BY <1>5, <1>6, <2>1, <2>2, <3>1 DEF PhaseInv
  <2>3. CASE pc' = "idle" /\ req' = << >>
    <3>1. Len(req') <= MaxPrompt
      BY <2>3, EmptySeq, CacheAssumption
    <3>. QED
      BY <2>3, <3>1 DEF PhaseInv
  <2>4. CASE pc' = "draw" /\ req' = req /\ pos + t = Len(req)
    BY <1>5, <1>6, <1>7, <2>1, <2>4 DEF PhaseInv
  <2>. QED
    BY <1>2, <1>3, <2>2, <2>3, <2>4
<1>. QED
  BY <1>11, <1>12, <1>13 DEF CacheInv

\* A prompt that ends at the snapshot needs no prefill.
LEMMA NothingStep ==
  ASSUME CacheInv, TypeOK', PrefillNothing
  PROVE  CacheInv'
<1>1. TypeOK /\ LiveIntact /\ FileIntact /\ SlotsSound /\ ParkInv /\ PhaseInv
  BY DEF CacheInv
<1>2. /\ pc = "prefill" /\ pos = Len(req) /\ TakeSnapshot(FALSE) /\ pc' = "draw"
      /\ req' = req /\ file' = file
      /\ history' = history /\ pos' = pos /\ done' = done /\ rec' = rec /\ logits' = logits
      /\ kv' = kv /\ pooled' = pooled /\ cap' = cap
  BY DEF PrefillNothing, engine
<1>3. /\ history = Prefix(req, pos) /\ EngineExact /\ done = pos \div Compress /\ logits = req
      /\ Len(req) <= MaxPrompt
  BY <1>1, <1>2 DEF PhaseInv
<1>4. history = req /\ rec = history /\ RowsExact(kv, pooled, history, pos)
      /\ history \in Seq(Ids) /\ Len(history) = pos
  BY <1>1, <1>2, <1>3, Parts, PrefixAll DEF EngineExact
<1>5. EngineExact'
  BY <1>2, <1>3 DEF EngineExact
<1>6. PhaseInv'
  BY <1>2, <1>3, <1>4, <1>5 DEF PhaseInv
<1>7. ASSUME NEW j \in LiveSlots(slots)
      PROVE  /\ slots[j].pos <= Len(history')
             /\ Prefix(history, slots[j].pos) = Prefix(history', slots[j].pos)
             /\ SameBelow(kv, pooled, kv', pooled', slots[j].pos)
  BY <1>1, <1>2 DEF LiveIntact, SameBelow
<1>8. LiveIntact'
  BY <1>1, <1>2, <1>3, <1>4, <1>7, SnapshotLive
<1>9. SlotsSound'
  BY <1>1, <1>2, SnapshotSound
<1>10. ParkInv'
  <2>1. /\ park' \in {park, NoPark}
        /\ \A k \in ParkedSlots(slots') : \E j \in ParkedSlots(slots) : slots'[k] = slots[j]
    BY <1>1, <1>2, SnapshotPark
  <2>2. Len(history) <= Len(history')
    BY <1>1, <1>2, Parts
  <2>. QED
    BY <1>1, <1>2, <2>1, <2>2, DirtyPark
<1>11. FileIntact'
  BY <1>1, <1>2 DEF FileIntact
<1>. QED
  BY <1>6, <1>8, <1>9, <1>10, <1>11 DEF CacheInv

-----------------------------------------------------------------------------
(* The answer is decoded                                                   *)

\* Which block the next row belongs to, and how many are complete with it.
LEMMA NextBlock ==
  ASSUME NEW n \in Nat
  PROVE  /\ n \div Compress \in Nat /\ (n + 1) \div Compress \in Nat
         /\ n \div Compress <= (n + 1) \div Compress
         /\ (n + 1) % Compress = 0 => (n + 1) \div Compress - 1 = n \div Compress
         /\ (n + 1) % Compress # 0 => (n + 1) \div Compress = n \div Compress
<1>. DEFINE q == n \div Compress
            k == (n + 1) \div Compress
            m == (n + 1) % Compress
<1>1. Compress \in Nat \ {0} /\ n + 1 \in Nat
  BY RulesAssumption
<1>2. q \in Nat /\ k \in Nat /\ q <= k
  BY <1>1, DivMono
<1>3. m \in Nat /\ n + 1 = Compress * k + m
  BY <1>1, SMT
<1>4. /\ (q + 1) * Compress \in Nat /\ ~((q + 1) * Compress <= n)
      /\ q < k <=> (q + 1) * Compress <= n + 1
  <2>1. \A b \in Nat : (b + 1) * Compress \in Nat /\ (b < q <=> (b + 1) * Compress <= n)
    BY <1>1, DivBound
  <2>2. \A b \in Nat : b < k <=> (b + 1) * Compress <= n + 1
    BY <1>1, DivBound
  <2>. HIDE DEF q, k
  <2>. QED
    BY <1>2, <2>1, <2>2
<1>5. (q + 1) * Compress = Compress * (q + 1)
  <2>. HIDE DEF q
  <2>. QED
    BY <1>1, <1>2, SMT
<1>6. \A a, b \in Nat : a <= b => Compress * a <= Compress * b
  BY <1>1, MulMono
<1>7. \A a \in Nat : Compress * a \in Nat
  BY <1>1, SMT
<1>. HIDE DEF q, k, m
<1>8. m = 0 => q < k
  <2>1. SUFFICES ASSUME m = 0, k <= q PROVE FALSE
    BY <1>2
  <2>2. Compress * k <= Compress * q
    BY <1>2, <1>6, <2>1
  <2>3. n + 1 = Compress * k
    BY <1>2, <1>3, <1>7, <2>1
  <2>4. Compress * q <= n
    <3>1. CASE q = 0
      BY <1>1, <3>1
    <3>2. CASE q # 0
      <4>1. q - 1 \in Nat /\ q - 1 < q /\ (q - 1) + 1 = q
        BY <1>2, <3>2
      <4>2. ((q - 1) + 1) * Compress <= n
        BY <1>1, <4>1, DivBound DEF q
      <4>3. q * Compress <= n
        BY <4>1, <4>2
      <4>4. q * Compress = Compress * q
        BY <1>1, <1>2, SMT
      <4>. QED
        BY <4>3, <4>4
    <3>. QED
      BY <3>1, <3>2
  <2>. QED
    BY <1>2, <1>7, <2>2, <2>3, <2>4
<1>9. k <= q + 1
  <2>1. SUFFICES ASSUME q + 2 <= k PROVE FALSE
    BY <1>2
  <2>2. Compress * (q + 2) <= Compress * k
    BY <1>2, <1>6, <2>1
  <2>3. Compress * (q + 2) = Compress * (q + 1) + Compress
    BY <1>1, <1>2, SMT
  <2>. QED
    BY <1>1, <1>2, <1>3, <1>4, <1>5, <1>7, <2>2, <2>3
<1>10. m # 0 => k = q
  <2>1. SUFFICES ASSUME m # 0, q < k PROVE FALSE
    BY <1>2
  <2>2. Compress * (q + 1) <= Compress * k
    BY <1>2, <1>6, <2>1
  <2>3. Compress * (q + 1) >= n + 1
    BY <1>1, <1>4, <1>5
  <2>. QED
    BY <1>2, <1>3, <1>7, <2>1, <2>2, <2>3
<1>11. m = 0 => k - 1 = q
  BY <1>2, <1>8, <1>9
<1>. QED
  BY <1>2, <1>10, <1>11 DEF q, k, m

\* Decoding adds ids to the history and writes no row or block the history
\* counts, so every live snapshot stays exact.
LEMMA DecodedLive ==
  ASSUME CacheInv, NEW more \in Seq(Ids), history' = history \o more,
         slots' = slots,
         \A n \in Nat : n <= pos => SameBelow(kv, pooled, kv', pooled', n)
  PROVE  LiveIntact' /\ Len(history) <= Len(history')
<1>1. /\ TypeOK /\ LiveIntact /\ history \in Seq(Ids) /\ Len(history) = pos /\ pos \in Nat
  BY Parts DEF CacheInv
<1>2. history' \in Seq(Ids) /\ Len(history') = Len(history) + Len(more) /\ Len(more) \in Nat
  <2>1. history \o more \in Seq(Ids) /\ Len(history \o more) = Len(history) + Len(more)
    BY <1>1, ConcatProperties
  <2>2. Len(more) \in Nat
    OBVIOUS
  <2>. QED
    BY <2>1, <2>2
<1>3. ASSUME NEW j \in LiveSlots(slots)
      PROVE  /\ slots[j].pos <= Len(history')
             /\ Prefix(history, slots[j].pos) = Prefix(history', slots[j].pos)
             /\ SameBelow(kv, pooled, kv', pooled', slots[j].pos)
  <2>1. slots[j].pos \in Nat /\ slots[j].pos <= pos
    BY <1>1, Parts, LiveIs DEF LiveIntact
  <2>. QED
    BY <1>1, <1>2, <2>1, PrefixOfMore
<1>4. LiveIntact'
  BY <1>1, <1>2, <1>3, LiveCarried
<1>. QED
  BY <1>1, <1>2, <1>4

\* One decoded id: its row and its block come after everything held.
LEMMA DecodeOne ==
  ASSUME CacheInv, TypeOK', NEW id \in Ids, DecodeStep(id)
  PROVE  CacheInv'
<1>. DEFINE complete == (pos + 1) % Compress = 0
            block    == IF complete THEN (pos + 1) \div Compress - 1 ELSE done
<1>1. TypeOK /\ LiveIntact /\ FileIntact /\ SlotsSound /\ ParkInv /\ PhaseInv
  BY DEF CacheInv
<1>2. /\ pc \in {"draw", "decode"} /\ Drafts = 0 /\ pc' = "decode"
      /\ kv' = [kv EXCEPT ![pos] = Junk] /\ pooled' = [pooled EXCEPT ![block] = Junk]
      /\ done' = IF complete THEN (pos + 1) \div Compress ELSE done
      /\ history' = Append(history, id) /\ pos' = pos + 1
      /\ req' = req /\ slots' = slots /\ park' = park /\ file' = file
  BY DEF DecodeStep, cache
<1>3. done = pos \div Compress /\ Len(req) <= MaxPrompt
  BY <1>1, <1>2 DEF PhaseInv
<1>4. /\ pos \in Nat /\ history \in Seq(Ids) /\ Len(history) = pos
      /\ kv \in [Rows -> Seq(Ids)] /\ pooled \in [Blocks -> Seq(Ids)]
  BY <1>1, Parts DEF TypeOK, CellType
<1>5. /\ pos \div Compress \in Nat /\ (pos + 1) \div Compress \in Nat
      /\ pos \div Compress <= (pos + 1) \div Compress
      /\ (pos + 1) % Compress = 0 => (pos + 1) \div Compress - 1 = pos \div Compress
      /\ (pos + 1) % Compress # 0 => (pos + 1) \div Compress = pos \div Compress
  BY <1>4, NextBlock
<1>6. block = pos \div Compress /\ done' = pos' \div Compress
  BY <1>2, <1>3, <1>5
<1>7. history' = history \o <<id>> /\ <<id>> \in Seq(Ids) /\ Len(history') = pos + 1
  <2>1. <<id>> \in Seq(Ids)
    OBVIOUS
  <2>2. Append(history, id) = history \o <<id>>
    BY <1>4, AppendIsConcat
  <2>3. Len(history') = pos + 1
    BY <1>2, <1>4, AppendProperties
  <2>. QED
    BY <1>2, <2>1, <2>2, <2>3
<1>. HIDE DEF block, complete
<1>8. \A r \in Rows : r # pos => kv'[r] = kv[r]
  BY <1>2, <1>4
<1>9. \A b \in Blocks : b # pos \div Compress => pooled'[b] = pooled[b]
  BY <1>2, <1>4, <1>6
<1>10. (\A r \in Rows : r \in Nat) /\ (\A b \in Blocks : b \in Nat)
  BY RulesAssumption, BlockType DEF Rows
<1>11. ASSUME NEW n \in Nat, n <= pos
       PROVE  SameBelow(kv, pooled, kv', pooled', n)
  <2>1. ASSUME NEW r \in Rows, r < n PROVE kv'[r] = kv[r]
    BY <1>4, <1>8, <1>10, <1>11, <2>1
  <2>2. ASSUME NEW b \in Blocks, (b + 1) * Compress <= n PROVE pooled'[b] = pooled[b]
    <3>1. b \in Nat /\ (b + 1) * Compress \in Nat /\ (b < pos \div Compress <=> (b + 1) * Compress <= pos)
      BY <1>4, <1>10, DivBound, RulesAssumption
    <3>2. (b + 1) * Compress <= pos
      BY <1>4, <1>11, <2>2, <3>1
    <3>. QED
      BY <1>5, <1>9, <3>1, <3>2
  <2>. QED
    BY <2>1, <2>2 DEF SameBelow
<1>12. LiveIntact' /\ Len(history) <= Len(history')
  BY <1>2, <1>7, <1>11, DecodedLive
<1>13. ParkInv'
  <2>1. \A r \in Rows : r >= pos + 1 => kv'[r] = kv[r]
    BY <1>4, <1>8, <1>10
  <2>2. \A b \in Blocks : b > (pos + 1) \div Compress => pooled'[b] = pooled[b]
    BY <1>5, <1>9, <1>10
  <2>. QED
    BY <1>1, <1>2, <1>7, <1>12, <2>1, <2>2, DirtyPark
<1>14. SlotsSound' /\ FileIntact'
  BY <1>1, <1>2 DEF SlotsSound, ParkHasSlots, PositionsDistinct, FileIntact
<1>15. PhaseInv'
  BY <1>2, <1>3, <1>6 DEF PhaseInv
<1>. QED
  BY <1>12, <1>13, <1>14, <1>15 DEF CacheInv

\* Under DraftsHaveRoom a verify pass writes no row below the position.
LEMMA VerifyAbove ==
  ASSUME DraftsHaveRoom, TypeOK, Len(req) <= MaxPrompt, Drafts > 0,
         NEW n \in Nat \ {0}, MayFeed(n), NEW rows \in 1 .. Drafts + 1,
         NEW r \in Rows, r < pos
  PROVE  r \notin VerifyRows(rows)
<1>1. pos \in Nat /\ Len(req) \in Nat /\ NCtx \in Nat \ {0} /\ Drafts \in Nat
      /\ MaxTokens \in Nat \ {0} /\ MaxPrompt \in Nat /\ rows \in Nat /\ r \in Nat
  BY Parts, RulesAssumption, CacheAssumption DEF Rows
<1>2. pos + n - Len(req) <= MaxTokens - 1
  BY <1>1 DEF MayFeed, Least
<1>3. pos + rows - 1 <= NCtx - 1
  BY <1>1, <1>2 DEF DraftsHaveRoom
<1>4. ASSUME NEW j \in pos .. pos + rows - 1 PROVE r # j % NCtx
  <2>1. j \in Nat /\ j < NCtx /\ j >= pos
    BY <1>1, <1>3
  <2>2. j % NCtx = j
    BY <1>1, <2>1
  <2>. QED
    BY <1>1, <2>1, <2>2
<1>. QED
  BY <1>4 DEF VerifyRows

\* One verify pass: as long as the drafts have room, its rows come after
\* everything held.
LEMMA VerifyOne ==
  ASSUME DraftsHaveRoom, CacheInv, TypeOK', Drafts > 0,
         NEW fed \in Fed, NEW rows \in 1 .. Drafts + 1, SpecPass(fed, rows)
  PROVE  CacheInv'
<1>1. TypeOK /\ LiveIntact /\ FileIntact /\ SlotsSound /\ ParkInv /\ PhaseInv
  BY DEF CacheInv
<1>2. /\ pc' = "decode" /\ MayFeed(Len(fed))
      /\ kv' = [r \in Rows |-> IF r \in VerifyRows(rows) THEN Junk ELSE kv[r]]
      /\ pooled' = pooled /\ done' = done /\ history' = history \o fed
      /\ req' = req /\ slots' = slots /\ park' = park /\ file' = file
  BY DEF SpecPass, cache
<1>3. fed \in Seq(Ids) /\ Len(fed) \in Nat \ {0}
  <2>1. PICK n \in 1 .. Drafts + 1 : fed \in [1 .. n -> Ids]
    BY DEF Fed
  <2>2. n \in Nat \ {0}
    BY <2>1, CacheAssumption
  <2>3. fed \in Seq(Ids)
    BY <2>1, <2>2, SeqDef
  <2>4. Len(fed) = n
    BY <2>1, <2>2, <2>3, LenProperties
  <2>. QED
    BY <2>2, <2>3, <2>4
<1>4. Len(req) <= MaxPrompt /\ Drafts # 0
  BY <1>1, CacheAssumption DEF PhaseInv
<1>5. ASSUME NEW n \in Nat, n <= pos
      PROVE  SameBelow(kv, pooled, kv', pooled', n)
  <2>1. ASSUME NEW r \in Rows, r < n PROVE kv'[r] = kv[r]
    <3>1. r < pos
      BY <1>1, <1>5, <2>1, Parts, RulesAssumption DEF Rows
    <3>2. r \notin VerifyRows(rows)
      BY <1>1, <1>2, <1>3, <1>4, <3>1, VerifyAbove
    <3>. QED
      BY <1>2, <3>2
  <2>. QED
    BY <1>2, <2>1 DEF SameBelow
<1>6. LiveIntact'
  BY <1>2, <1>3, <1>5, DecodedLive
<1>7. ParkInv'
  <2>1. park = NoPark
    BY <1>1, RulesAssumption DEF ParkInv, DraftsHaveRoom
  <2>. QED
    BY <1>2, <2>1 DEF ParkInv
<1>8. SlotsSound' /\ FileIntact'
  BY <1>1, <1>2 DEF SlotsSound, ParkHasSlots, PositionsDistinct, FileIntact
<1>9. PhaseInv'
  BY <1>2, <1>4 DEF PhaseInv
<1>. QED
  BY <1>6, <1>7, <1>8, <1>9 DEF CacheInv

-----------------------------------------------------------------------------
(* The request ends, slot files, restarts                                  *)

\* A step that touches neither the held state nor the rows keeps its facts.
LEMMA HeldSame ==
  ASSUME LiveIntact, SlotsSound, ParkInv,
         history' = history, kv' = kv, pooled' = pooled, slots' = slots, park' = park
  PROVE  LiveIntact' /\ SlotsSound' /\ ParkInv'
<1>1. LiveIntact'
  BY DEF LiveIntact
<1>2. SlotsSound'
  BY DEF SlotsSound, ParkHasSlots, PositionsDistinct
<1>3. ParkInv'
  <2>1. \A k \in ParkedSlots(slots) : park # NoPark => Names(slots[k], park.history) /\ Back(slots[k])
    BY DEF ParkInv
  <2>2. Dirty' = Dirty
    BY DEF Dirty
  <2>3. ASSUME NEW k \in ParkedSlots(slots), park # NoPark PROVE Back(slots[k])'
    BY <2>1, <2>2, <2>3 DEF Back
  <2>. QED
    BY <2>1, <2>3 DEF ParkInv
<1>. QED
  BY <1>1, <1>2, <1>3

\* An idle server has no prompt.
LEMMA IdlePhase ==
  ASSUME pc' = "idle", req' = << >>
  PROVE  PhaseInv'
<1>1. Len(req') <= MaxPrompt
  BY EmptySeq, CacheAssumption
<1>. QED
  BY <1>1 DEF PhaseInv

\* The answer ends, or the request runs out of memory.
LEMMA EndStep ==
  ASSUME CacheInv, TypeOK', Finish \/ AllocFail
  PROVE  CacheInv'
<1>1. CASE Finish
  <2>1. PhaseInv'
    BY <1>1, IdlePhase DEF Finish
  <2>2. LiveIntact' /\ SlotsSound' /\ ParkInv'
    BY <1>1, HeldSame DEF Finish, engine, cache, CacheInv
  <2>3. FileIntact'
    BY <1>1 DEF Finish, CacheInv, FileIntact
  <2>. QED
    BY <2>1, <2>2, <2>3 DEF CacheInv
<1>2. CASE AllocFail
  <2>1. PhaseInv'
    BY <1>2, IdlePhase DEF AllocFail
  <2>2. LiveIntact' /\ SlotsSound' /\ ParkInv'
    BY <1>2, NothingHeld DEF AllocFail
  <2>3. FileIntact'
    BY <1>2 DEF AllocFail, CacheInv, FileIntact
  <2>. QED
    BY <2>1, <2>2, <2>3 DEF CacheInv
<1>. QED
  BY <1>1, <1>2

\* A save writes the prefill of the ids it names: the rows of the prompt slot
\* are still the ones its snapshot was taken from.
LEMMA SavedExact ==
  ASSUME TypeOK, LiveIntact, MaySave
  PROVE  /\ Saved.rec = Saved.ids
         /\ Saved.done = Len(Saved.ids) \div Compress
         /\ RowsExact(Saved.kv, Saved.pooled, Saved.ids, Len(Saved.ids))
<1>. DEFINE p == slots[1].pos
            g == Prefix(history, p)
<1>1. 1 \in LiveSlots(slots) /\ history \in Seq(Ids) /\ p \in Nat
  BY Parts, LiveIs DEF MaySave, PromptSlot
<1>2. /\ p <= Len(history) /\ slots[1].rec = g /\ slots[1].done = p \div Compress
      /\ RowsExact(kv, pooled, history, p)
  BY <1>1 DEF LiveIntact
<1>3. g \in Seq(Ids) /\ Len(g) = p /\ \A n \in Nat : n <= p => Prefix(g, n) = Prefix(history, n)
  BY <1>1, <1>2, PrefixOf, PrefixTwice
<1>4. /\ Saved.ids = g /\ Saved.rec = g /\ Saved.done = p \div Compress
      /\ Saved.kv = [r \in Rows |-> IF r < p THEN kv[r] ELSE Junk]
      /\ Saved.pooled = [b \in Blocks |-> IF b < p \div Compress THEN pooled[b] ELSE Junk]
  BY <1>2 DEF Saved, SavedIds
<1>5. ASSUME NEW b \in Blocks, (b + 1) * Compress <= p
      PROVE  b < p \div Compress
  BY <1>1, <1>5, BlockType, DivBound, RulesAssumption
<1>. HIDE DEF p
<1>6. SameBelow(kv, pooled, Saved.kv, Saved.pooled, p)
  BY <1>4, <1>5 DEF SameBelow
<1>7. RowsExact(Saved.kv, Saved.pooled, g, p)
  <2>1. Prefix(history, p) = Prefix(g, p)
    BY <1>1, <1>3
  <2>. HIDE DEF g
  <2>. QED
    BY <1>1, <1>2, <1>3, <1>6, <2>1, ExactShift
<1>. QED
  BY <1>3, <1>4, <1>7

\* A restored file leaves one slot, and no park.
LEMMA RestoredSlot ==
  ASSUME RestoreFile
  PROVE  /\ SlotsSound' /\ park' = NoPark
         /\ slots'[1].pos = Len(file.ids) /\ slots'[1].done = file.done /\ slots'[1].rec = file.rec
         /\ slots'[1].logits = Junk /\ slots'[1].parked = FALSE
         /\ \A k \in LiveSlots(slots') : k = 1
<1>1. /\ slots'[1].pos = Len(file.ids) /\ slots'[1].done = file.done /\ slots'[1].rec = file.rec
      /\ slots'[1].logits = Junk /\ slots'[1].parked = FALSE
      /\ \A k \in SlotIx : k # 1 => slots'[k] = EmptySlot
  <2>. DEFINE s == [EmptySlot EXCEPT !.pos = Len(file.ids), !.done = file.done, !.rec = file.rec]
  <2>1. /\ s.pos = Len(file.ids) /\ s.done = file.done /\ s.rec = file.rec
        /\ s.logits = Junk /\ s.parked = FALSE
    BY DEF EmptySlot
  <2>2. slots' = [NoSlots EXCEPT ![1] = s]
    BY DEF RestoreFile, RestoredSlots
  <2>. HIDE DEF s
  <2>3. 1 \in SlotIx /\ \A k \in SlotIx : slots'[k] = IF k = 1 THEN s ELSE EmptySlot
    BY <2>2, RulesAssumption DEF NoSlots, SlotIx
  <2>. QED
    BY <2>1, <2>3
<1>2. (\A k \in LiveSlots(slots') : k = 1) /\ (\A k \in ParkedSlots(slots') : FALSE)
  BY <1>1, LiveIs, EmptyIsEmpty
<1>3. park' = NoPark
  BY DEF RestoreFile
<1>4. ParkHasSlots'
  BY <1>2, <1>3 DEF ParkHasSlots
<1>5. PositionsDistinct'
  <2>1. \A k \in SlotIx : slots'[k].pos > 0 => k = 1
    BY <1>1, EmptyIsEmpty
  <2>. QED
    BY <2>1 DEF PositionsDistinct
<1>. QED
  BY <1>1, <1>2, <1>3, <1>4, <1>5 DEF SlotsSound

\* What a restored file puts into the rows is what its prompt slot names.
LEMMA RestoredLive ==
  ASSUME TypeOK, FileIntact, RestoreFile
  PROVE  LiveIntact' /\ SlotsSound' /\ ParkInv'
<1>. DEFINE p == Len(file.ids)
<1>1. /\ history' = file.ids /\ park' = NoPark
      /\ kv' = [r \in Rows |-> IF r < p THEN file.kv[r] ELSE kv[r]]
      /\ pooled' = [b \in Blocks |-> IF b < file.done THEN file.pooled[b] ELSE pooled[b]]
  BY DEF RestoreFile
<1>2. file.ids \in Seq(Ids) /\ p \in Nat /\ Prefix(file.ids, p) = file.ids
  BY Parts, PrefixAll
<1>3. /\ SlotsSound'
      /\ slots'[1].pos = p /\ slots'[1].done = file.done /\ slots'[1].rec = file.rec
      /\ slots'[1].logits = Junk
      /\ \A k \in LiveSlots(slots') : k = 1
  BY RestoredSlot
<1>4. RowsExact(kv', pooled', file.ids, p)
  <2>1. \A b \in Blocks : (b + 1) * Compress <= p => b < file.done
    BY <1>2, BlockType, DivBound, RulesAssumption DEF FileIntact
  <2>2. SameBelow(file.kv, file.pooled, kv', pooled', p)
    BY <1>1, <2>1 DEF SameBelow
  <2>3. RowsExact(file.kv, file.pooled, file.ids, p)
    BY DEF FileIntact
  <2>. QED
    BY <1>2, <2>2, <2>3, ExactShift
<1>5. LiveIntact'
  <2>1. /\ slots'[1].pos <= Len(history') /\ slots'[1].rec = Prefix(history', slots'[1].pos)
        /\ slots'[1].done = slots'[1].pos \div Compress
        /\ RowsExact(kv', pooled', history', slots'[1].pos)
    BY <1>1, <1>2, <1>3, <1>4 DEF FileIntact
  <2>. QED
    BY <1>3, <2>1 DEF LiveIntact
<1>6. ParkInv'
  BY <1>1 DEF ParkInv
<1>. QED
  BY <1>3, <1>5, <1>6

\* Saving and restoring the slot file.
LEMMA FileStep ==
  ASSUME CacheInv, TypeOK', SaveSlot \/ RestoreFile \/ RestoreFails
  PROVE  CacheInv'
<1>1. TypeOK /\ LiveIntact /\ FileIntact /\ SlotsSound /\ ParkInv /\ PhaseInv /\ pc = "idle" /\ req = << >>
  BY DEF CacheInv, PhaseInv, SaveSlot, MaySave, RestoreFile, RestoreFails
<1>2. PhaseInv'
  BY <1>1, IdlePhase DEF SaveSlot, RestoreFile, RestoreFails
<1>3. CASE SaveSlot
  <2>1. file' = Saved /\ MaySave
    BY <1>3 DEF SaveSlot
  <2>2. FileIntact'
    BY <1>1, <2>1, SavedExact DEF FileIntact
  <2>3. LiveIntact' /\ SlotsSound' /\ ParkInv'
    BY <1>1, <1>3, HeldSame DEF SaveSlot, engine, cache
  <2>. QED
    BY <1>2, <2>2, <2>3 DEF CacheInv
<1>4. CASE RestoreFile
  <2>1. FileIntact'
    BY <1>1, <1>4 DEF RestoreFile, FileIntact
  <2>. QED
    BY <1>1, <1>2, <1>4, <2>1, RestoredLive DEF CacheInv
<1>5. CASE RestoreFails
  <2>1. FileIntact'
    BY <1>1, <1>5 DEF RestoreFails, FileIntact
  <2>2. LiveIntact' /\ SlotsSound' /\ ParkInv'
    BY <1>5, NothingHeld DEF RestoreFails
  <2>. QED
    BY <1>2, <2>1, <2>2 DEF CacheInv
<1>. QED
  BY <1>3, <1>4, <1>5

\* A process that starts, with or without a slot file on disk.
LEMMA BootStep ==
  /\ Init => CacheInv
  /\ CacheInv /\ Restart /\ TypeOK' => CacheInv'
<1>1. ASSUME Init PROVE CacheInv
  <2>1. TypeOK
    BY <1>1, BootType
  <2>2. slots = NoSlots /\ park = NoPark /\ pc = "idle" /\ req = << >> /\ file = NoFile
    BY <1>1 DEF Init, Boot
  <2>3. LiveSlots(slots) = {} /\ ParkedSlots(slots) = {} /\ \A k \in SlotIx : slots[k].pos = 0
    BY <2>2, EmptyIsEmpty
  <2>4. LiveIntact
    BY <2>3 DEF LiveIntact
  <2>5. SlotsSound
    BY <2>2, <2>3 DEF SlotsSound, ParkHasSlots, PositionsDistinct
  <2>6. ParkInv
    BY <2>2 DEF ParkInv
  <2>7. FileIntact
    <3>1. file.ids = << >> /\ file.rec = << >> /\ file.done = 0
      BY <2>2 DEF NoFile, Junk
    <3>2. Len(<< >>) = 0
      BY EmptySeq
    <3>. QED
      BY <3>1, <3>2, NothingExact DEF FileIntact
  <2>8. PhaseInv
    <3>1. Len(req) <= MaxPrompt
      BY <2>2, EmptySeq, CacheAssumption
    <3>. QED
      BY <2>2, <3>1 DEF PhaseInv
  <2>. QED
    BY <2>1, <2>4, <2>5, <2>6, <2>7, <2>8 DEF CacheInv
<1>2. ASSUME CacheInv, Restart, TypeOK' PROVE CacheInv'
  <2>1. PhaseInv'
    BY <1>2, IdlePhase DEF Restart
  <2>2. LiveIntact' /\ SlotsSound' /\ ParkInv'
    BY <1>2, NothingHeld DEF Restart
  <2>3. FileIntact'
    <3>1. file' = file \/ (MaySave /\ file' = Saved)
      BY <1>2 DEF Restart, LeftOnDisk
    <3>2. CASE file' = file
      BY <1>2, <3>2 DEF CacheInv, FileIntact
    <3>3. CASE MaySave /\ file' = Saved
      BY <1>2, <3>3, SavedExact DEF CacheInv, FileIntact
    <3>. QED
      BY <3>1, <3>2, <3>3
  <2>. QED
    BY <1>2, <2>1, <2>2, <2>3 DEF CacheInv
<1>. QED
  BY <1>1, <1>2

\* Every step keeps the invariant.
LEMMA CacheStep ==
  ASSUME DraftsHaveRoom, CacheInv, [Next]_vars
  PROVE  CacheInv'
<1>1. TypeOK'
  <2>1. CASE Next
    BY <2>1, StartType, PrefillType, DecodeType, EndType, FileTypes, BootType DEF Next, CacheInv
  <2>2. CASE UNCHANGED vars
    BY <2>2 DEF vars, engine, cache, TypeOK, CacheInv
  <2>. QED
    BY <2>1, <2>2
<1>2. CASE UNCHANGED vars
  <2>1. LiveIntact' /\ SlotsSound' /\ ParkInv'
    BY <1>2, HeldSame DEF vars, engine, cache, CacheInv
  <2>2. FileIntact'
    BY <1>2 DEF vars, CacheInv, FileIntact
  <2>3. PhaseInv'
    <3>1. EngineExact' = EngineExact
      BY <1>2 DEF vars, engine, EngineExact
    <3>. QED
      BY <1>2, <3>1 DEF vars, engine, CacheInv, PhaseInv
  <2>. QED
    BY <1>1, <2>1, <2>2, <2>3 DEF CacheInv
<1>3. CASE Next
  <2>1. CASE \E ids \in Prompts : \/ \E i \in SlotIx : StartWarm(ids, i)
                                  \/ \E i \in SlotIx : StartParked(ids, i)
                                  \/ StartCold(ids)
    BY <1>1, <2>1, WarmStep, ParkedStep, ColdStep
  <2>2. CASE PrefillChunk \/ PrefillNothing
    BY <1>1, <2>2, ChunkStep, NothingStep
  <2>3. CASE \E id \in Ids : DecodeStep(id)
    BY <1>1, <2>3, DecodeOne
  <2>4. CASE Drafts > 0 /\ \E fed \in Fed, rows \in 1 .. Drafts + 1 : SpecPass(fed, rows)
    BY <1>1, <2>4, VerifyOne
  <2>5. CASE Finish \/ AllocFail
    BY <1>1, <2>5, EndStep
  <2>6. CASE SaveSlot \/ RestoreFile \/ RestoreFails
    BY <1>1, <2>6, FileStep
  <2>7. CASE Restart
    BY <1>1, <2>7, BootStep
  <2>. QED
    BY <1>3, <2>1, <2>2, <2>3, <2>4, <2>5, <2>6, <2>7 DEF Next
<1>. QED
  BY <1>2, <1>3

\* The invariant: what is held is what its ids say, and a prefill continues it.
THEOREM CacheInvariance ==
  ASSUME DraftsHaveRoom
  PROVE  Spec => []CacheInv
<1>1. Init => CacheInv
  BY BootStep
<1>2. CacheInv /\ [Next]_vars => CacheInv'
  BY CacheStep
<1>. QED
  BY <1>1, <1>2, PTL DEF Spec

\* What is held is whole: every live snapshot names rows a prefill of its ids
\* wrote, whatever ran since it was taken (claim, Snapshot::prefill_clean).
THEOREM HeldIsWhole ==
  ASSUME DraftsHaveRoom
  PROVE  Spec => []LiveIntact
<1>1. CacheInv => LiveIntact
  BY DEF CacheInv
<1>. QED
  BY <1>1, CacheInvariance, PTL

\* What is parked is whole as long as the rule offers it: the rows put back
\* and the rows still on the device are the prefill of the parked history
\* (parked_usable, unpark).
THEOREM ParkedIsWhole ==
  ASSUME DraftsHaveRoom
  PROVE  Spec => []ParkedIntact
<1>1. CacheInv => ParkedIntact
  <2>. SUFFICES ASSUME CacheInv, park # NoPark,
                       NEW i \in ParkedCandidates(slots, park, Greatest(park.dirty, Len(history)))
                PROVE  LET s == slots[i] IN
                       /\ s.pos <= Len(park.history)
                       /\ s.rec = Prefix(park.history, s.pos)
                       /\ s.logits \in {Junk, s.rec}
                       /\ s.done = s.pos \div Compress
                       /\ RowsExact([r \in Rows |-> IF r < park.rows THEN park.kv[r] ELSE kv[r]],
                            [b \in Blocks |-> IF b < park.blocks THEN park.pooled[b] ELSE pooled[b]],
                            park.history, s.pos)
    BY DEF ParkedIntact
  <2>1. i \in ParkedCandidates(slots, park, Dirty)
    BY DEF Dirty
  <2>. QED
    BY <2>1, Offered DEF CacheInv, Names
<1>. QED
  BY <1>1, CacheInvariance, PTL

\* What a slot file holds is the prefill of the ids it names, through any
\* number of saves, restores and restarts (slot.rs).
THEOREM FilesAreWhole ==
  ASSUME DraftsHaveRoom
  PROVE  Spec => []FileIntact
<1>1. CacheInv => FileIntact
  BY DEF CacheInv
<1>. QED
  BY <1>1, CacheInvariance, PTL

\* Prefill only ever continues an exact state of the prompt's own prefix, with
\* no decode graph alive (A4).
THEOREM PrefillCorrect ==
  ASSUME DraftsHaveRoom
  PROVE  Spec => []PrefillFromExact
<1>1. CacheInv => PrefillFromExact
  BY DEF CacheInv, PhaseInv, PrefillFromExact
<1>. QED
  BY <1>1, CacheInvariance, PTL

-----------------------------------------------------------------------------
(* Slots and park over every setting: no hypothesis on the drafts          *)

\* Every step keeps the positions apart and the park with its slots.
LEMMA SlotsStep ==
  ASSUME SlotsInv, TypeOK', [Next]_vars
  PROVE  SlotsSound' /\ (park' # NoPark => park'.rows > 0)
<1>1. TypeOK /\ SlotsSound /\ (park # NoPark => park.rows > 0)
  BY DEF SlotsInv
<1>2. ASSUME slots' = slots, park' = park
      PROVE  SlotsSound' /\ (park' # NoPark => park'.rows > 0)
  BY <1>1, <1>2 DEF SlotsSound, ParkHasSlots, PositionsDistinct
<1>3. ASSUME NEW head \in BOOLEAN, TakeSnapshot(head)
      PROVE  SlotsSound' /\ (park' # NoPark => park'.rows > 0)
  <2>1. park' \in {park, NoPark}
    BY <1>1, <1>3, SnapshotPark
  <2>. QED
    BY <1>1, <1>3, <2>1, SnapshotSound
<1>4. ASSUME slots' = NoSlots, park' = NoPark
      PROVE  SlotsSound' /\ (park' # NoPark => park'.rows > 0)
  BY <1>4, NothingHeld
<1>5. CASE \E ids \in Prompts, i \in SlotIx : StartWarm(ids, i)
  BY <1>5, WarmSlots
<1>6. CASE \E ids \in Prompts, i \in SlotIx : StartParked(ids, i)
  BY <1>6, ParkedTurn
<1>7. CASE \E ids \in Prompts : StartCold(ids)
  <2>1. PICK ids \in Prompts : StartCold(ids)
    BY <1>7
  <2>2. CASE \E i \in SlotIx : ColdPark(ids, i)
    BY <2>1, <2>2, AsideSlots
  <2>3. CASE ColdKeep(ids)
    BY <2>1, <2>3, KeptSlots
  <2>4. CASE ColdDrop(ids)
    BY <1>4, <2>4 DEF ColdDrop
  <2>. QED
    BY <2>1, <2>2, <2>3, <2>4 DEF StartCold
<1>8. CASE PrefillChunk \/ PrefillNothing
  <2>1. \/ slots' = slots /\ park' = park
        \/ \E head \in BOOLEAN : TakeSnapshot(head)
    BY <1>8 DEF PrefillChunk, PrefillNothing, cache
  <2>. QED
    BY <1>2, <1>3, <2>1
<1>9. CASE \/ \E id \in Ids : DecodeStep(id)
           \/ \E fed \in Fed, rows \in 1 .. Drafts + 1 : SpecPass(fed, rows)
           \/ Finish \/ SaveSlot \/ UNCHANGED vars
  <2>1. slots' = slots /\ park' = park
    BY <1>9 DEF DecodeStep, SpecPass, Finish, SaveSlot, vars, cache
  <2>. QED
    BY <1>2, <2>1
<1>10. CASE AllocFail \/ RestoreFails \/ Restart
  BY <1>4, <1>10 DEF AllocFail, RestoreFails, Restart
<1>11. CASE RestoreFile
  BY <1>11, RestoredSlot
<1>. QED
  BY <1>5, <1>6, <1>7, <1>8, <1>9, <1>10, <1>11 DEF Next

\* The parked conversation and its slots come and go together, and positions
\* stay apart, with drafts or without.
THEOREM SlotsInvariance == Spec => []SlotsInv
<1>1. Init => SlotsInv
  <2>1. Init => park = NoPark
    BY DEF Init, Boot
  <2>. QED
    BY <2>1, BootStep DEF CacheInv, SlotsInv
<1>2. SlotsInv /\ TypeOK' /\ [Next]_vars => SlotsInv'
  BY SlotsStep DEF SlotsInv
<1>. QED
  BY <1>1, <1>2, TypeCorrect, PTL DEF Spec

\* What claim, apply_cold, adopt_parked and invalidate keep of slots and park.
THEOREM SlotsCorrect == Spec => []SlotsSound
<1>1. SlotsInv => SlotsSound
  BY DEF SlotsInv
<1>. QED
  BY <1>1, SlotsInvariance, PTL

\* A snapshot never takes the last parked slot: while there is one, some other
\* slot is empty, live, or parked too.
LEMMA SnapshotKeepsPark ==
  ASSUME SlotsInv, NEW head \in BOOLEAN, TakeSnapshot(head), park # NoPark
  PROVE  park' # NoPark
<1>1. PICK i \in SlotIx : Claims(i, slots, pos', head) /\ park' = ParkWithout(i)
  BY SnapshotSlots DEF SlotsInv
<1>2. slots \in [SlotIx -> SlotType]
  BY Parts DEF SlotsInv
<1>3. ParkedSlots(slots) # {}
  BY DEF SlotsInv, SlotsSound, ParkHasSlots
<1>4. ParkedSlots(slots) \ {i} # {}
  <2>1. CASE i \notin ParkedSlots(slots)
    BY <1>3, <2>1
  <2>2. CASE i \in ParkedSlots(slots)
    <3>1. LiveSlots(slots) = {} /\ EmptySlots(slots) = {}
      BY <1>1, <1>2, <2>2, ClaimFacts
    <3>2. PICK k \in SlotIx : k # i
      <4>1. 1 \in SlotIx /\ 2 \in SlotIx
        BY RulesAssumption DEF SlotIx
      <4>. QED
        BY <4>1
    <3>3. slots[k].pos \in Nat /\ slots[k].parked \in BOOLEAN
      BY <1>2 DEF SlotType
    <3>4. slots[k].pos # 0
      BY <3>1 DEF EmptySlots
    <3>5. slots[k].pos > 0
      BY <3>3, <3>4
    <3>6. k \in ParkedSlots(slots)
      BY <3>1, <3>3, <3>5, LiveIs
    <3>. QED
      BY <3>2, <3>6
  <2>. QED
    BY <2>1, <2>2
<1>. QED
  BY <1>1, <1>4 DEF ParkWithout

\* A request in flight only loses the park when it loses everything.
LEMMA ParkStays ==
  ASSUME SlotsInv, [Next]_vars, pc # "idle", park # NoPark, park' = NoPark
  PROVE  history' = << >>
<1>1. CASE PrefillChunk \/ PrefillNothing
  <2>1. \/ park' = park
        \/ \E head \in BOOLEAN : TakeSnapshot(head)
    BY <1>1 DEF PrefillChunk, PrefillNothing, cache
  <2>. QED
    BY <2>1, SnapshotKeepsPark
<1>2. CASE AllocFail \/ Restart
  BY <1>2 DEF AllocFail, ResetToZero, Restart
<1>3. CASE \/ \E id \in Ids : DecodeStep(id)
           \/ \E fed \in Fed, rows \in 1 .. Drafts + 1 : SpecPass(fed, rows)
           \/ Finish \/ UNCHANGED vars
  <2>1. park' = park
    BY <1>3 DEF DecodeStep, SpecPass, Finish, vars, cache
  <2>. QED
    BY <2>1
<1>4. ~(\E ids \in Prompts : Accept(ids)) /\ ~SaveSlot /\ ~RestoreFile /\ ~RestoreFails
  BY DEF Accept, SaveSlot, MaySave, RestoreFile, RestoreFails
<1>. QED
  BY <1>1, <1>2, <1>3, <1>4 DEF Next, StartWarm, StartParked, StartCold

\* A cold start that ends with a park ends with a usable one.
LEMMA ParkIsUsable ==
  ASSUME SlotsInv, NEW ids \in Prompts, StartCold(ids), park' # NoPark
  PROVE  ParkedCandidates(slots', park', Greatest(park'.dirty, Len(req'))) # {}
<1>1. TypeOK /\ req' = ids
  BY DEF SlotsInv, StartCold, Accept
<1>2. CASE \E i \in SlotIx : ColdPark(ids, i)
  <2>1. PICK i \in SlotIx : ColdPark(ids, i)
    BY <1>2
  <2>2. i \in LiveSlots(slots) /\ i \in ParkedSlots(slots') /\ slots'[i].pos = slots[i].pos
    <3>1. i \in ParkedSlots(slots')
      BY <2>1, AsideSlots
    <3>2. i \in LiveSlots(slots)
      BY <2>1 DEF ColdPark, PlanPark
    <3>. QED
      BY <2>1, <3>1, <3>2, AsideSlots
  <2>3. ParkedUsable(slots[i].pos, Len(ids), park'.rows) /\ park'.dirty = 0
    BY <2>1 DEF ColdPark, PlanPark
  <2>4. Greatest(0, Len(ids)) = Len(ids)
    BY PromptLen DEF Greatest
  <2>5. i \in ParkedCandidates(slots', park', Greatest(park'.dirty, Len(req')))
    BY <1>1, <2>2, <2>3, <2>4 DEF ParkedCandidates
  <2>. QED
    BY <2>5
<1>3. CASE ColdKeep(ids)
  <2>1. Kept(slots, park, Len(history), Len(ids)) # {}
    BY <1>3 DEF ColdKeep, PlanKeep
  <2>2. /\ park # NoPark /\ park'.rows = park.rows /\ park'.dirty = Dirty
        /\ \A k \in ParkedSlots(slots) : k \in ParkedSlots(slots')
        /\ \A k \in ParkedSlots(slots') : slots'[k] = slots[k]
    BY <1>3, KeptSlots
  <2>3. PICK k \in ParkedCandidates(slots, park, Greatest(Dirty, Len(ids))) : TRUE
    BY <2>1, <2>2 DEF Kept, Dirty
  <2>4. k \in ParkedSlots(slots) /\ ParkedUsable(slots[k].pos, Greatest(Dirty, Len(ids)), park.rows)
    BY <2>3 DEF ParkedCandidates
  <2>5. k \in ParkedCandidates(slots', park', Greatest(park'.dirty, Len(req')))
    BY <1>1, <2>2, <2>4 DEF ParkedCandidates
  <2>. QED
    BY <2>5
<1>4. CASE ColdDrop(ids)
  BY <1>4 DEF ColdDrop
<1>. QED
  BY <1>2, <1>3, <1>4 DEF StartCold

\* The parked conversation waits for its next turn: no snapshot of another
\* conversation takes its last slot, and a cold start never sets one aside
\* that the new prompt makes useless (claim, plan_cold).
THEOREM ParkCorrect == Spec => ParkSound
<1>1. SlotsInv /\ [Next]_vars =>
        (pc # "idle" /\ park # NoPark /\ park' = NoPark => history' = << >>)
  BY ParkStays
<1>2. SlotsInv /\ [Next]_vars =>
        ((pc = "idle" /\ pc' = "prefill" /\ history' = << >> /\ park' # NoPark)
         => ParkedCandidates(slots', park', Greatest(park'.dirty, Len(req'))) # {})
  <2>. SUFFICES ASSUME SlotsInv, [Next]_vars,
                       pc = "idle", pc' = "prefill", history' = << >>, park' # NoPark
                PROVE  ParkedCandidates(slots', park', Greatest(park'.dirty, Len(req'))) # {}
    OBVIOUS
  <2>1. CASE \E ids \in Prompts : StartCold(ids)
    BY <2>1, ParkIsUsable
  <2>2. ASSUME NEW ids \in Prompts, NEW i \in SlotIx, StartWarm(ids, i) PROVE FALSE
    <3>1. slots[i].pos > 0 /\ InCommonPrefix(slots[i].pos, history, ids)
      BY <2>2, ResumesLiveFacts DEF StartWarm
    <3>2. /\ history \in Seq(Ids) /\ slots[i].pos \in Nat /\ slots[i].pos <= Len(history)
          /\ history' = Prefix(history, slots[i].pos)
      BY <2>2, <3>1, Parts DEF SlotsInv, InCommonPrefix, StartWarm, RestoreSlot
    <3>3. Len(history') = slots[i].pos
      BY <3>2, PrefixOf
    <3>. QED
      BY <3>1, <3>3, EmptySeq
  <2>3. ASSUME NEW ids \in Prompts, NEW i \in SlotIx, StartParked(ids, i) PROVE FALSE
    BY <2>3 DEF StartParked
  <2>4. ~(PrefillChunk \/ PrefillNothing \/ (\E id \in Ids : DecodeStep(id))
          \/ (\E fed \in Fed, rows \in 1 .. Drafts + 1 : SpecPass(fed, rows))
          \/ Finish \/ AllocFail \/ SaveSlot \/ RestoreFile \/ RestoreFails \/ Restart
          \/ UNCHANGED vars)
    BY DEF PrefillChunk, PrefillNothing, DecodeStep, SpecPass, Finish, AllocFail, SaveSlot,
           RestoreFile, RestoreFails, Restart, vars
  <2>. QED
    BY <2>1, <2>2, <2>3, <2>4 DEF Next
<1>. QED
  BY <1>1, <1>2, SlotsInvariance, PTL DEF Spec, ParkSound, ParkOutlivesRequest, ParkIsWorthKeeping

\* A snapshot at a position no head holds leaves a head, when the live
\* conversation has another slot to give.
LEMMA SnapshotKeepsHead ==
  ASSUME TypeOK, NEW head \in BOOLEAN, TakeSnapshot(head), pos' > 0,
         LiveHead # {}, LiveSlots(slots) \ LiveHead # {}, \A i \in LiveHead : slots[i].pos # pos'
  PROVE  LiveHead' # {}
<1>1. PICK i \in SlotIx :
        /\ Claims(i, slots, pos', head)
        /\ slots'[1] = [pos |-> pos', done |-> done', rec |-> rec', logits |-> logits',
                        parked |-> FALSE, head |-> head]
        /\ \A k \in SlotIx \ {1} : slots'[k] = slots[Source(i, k)]
  BY SnapshotSlots
<1>2. 1 \in SlotIx /\ \A j \in SlotIx : j # i => \E k \in SlotIx \ {1} : Source(i, k) = j
  BY Parts, Rotated
<1>3. \A k : k \in LiveHead <=> k \in LiveSlots(slots) /\ slots[k].head
  BY DEF LiveHead
<1>4. \A k : k \in LiveHead' <=> k \in LiveSlots(slots') /\ slots'[k].head
  BY DEF LiveHead
<1>5. CASE head = TRUE
  <2>1. slots'[1].pos > 0 /\ slots'[1].parked = FALSE /\ slots'[1].head = TRUE
    BY <1>1, <1>5
  <2>2. 1 \in LiveSlots(slots')
    BY <1>2, <2>1, LiveIs
  <2>. QED
    BY <1>4, <2>1, <2>2
<1>6. CASE head = FALSE
  <2>1. i \notin LiveHead
    <3>. DEFINE same == {j \in LiveSlots(slots) : slots[j].pos = pos'}
                live == LiveSlots(slots)
    <3>1. CASE same # {}
      <4>1. i \in same
        BY <1>1, <3>1 DEF Claims, IsFirst
      <4>. QED
        BY <4>1
    <3>2. CASE same = {} /\ EmptySlots(slots) # {}
      <4>1. i \in EmptySlots(slots)
        BY <1>1, <3>2 DEF Claims, IsFirst
      <4>2. slots[i].pos = 0
        BY <4>1 DEF EmptySlots
      <4>. QED
        BY <1>3, <4>2, LiveIs
    <3>3. CASE same = {} /\ EmptySlots(slots) = {}
      <4>1. LiveSlots(slots) # {}
        BY <1>3
      <4>2. IsSmallestOf(i, LiveSlots(slots), FALSE, slots)
        BY <1>1, <1>6, <3>3, <4>1 DEF Claims
      <4>3. LiveSlots(slots) \ {j \in LiveSlots(slots) : slots[j].head} = LiveSlots(slots) \ LiveHead
        BY DEF LiveHead
      <4>4. i \in LiveSlots(slots) \ LiveHead
        BY <4>2, <4>3 DEF IsSmallestOf, IsSmallest
      <4>. QED
        BY <4>4
    <3>. QED
      BY <3>1, <3>2, <3>3
  <2>2. PICK j \in LiveHead : j # i
    BY <2>1
  <2>3. j \in SlotIx /\ j \in LiveSlots(slots) /\ slots[j].head
    BY <1>3, LiveIs
  <2>4. PICK k \in SlotIx \ {1} : Source(i, k) = j
    BY <1>2, <2>2, <2>3
  <2>5. slots'[k] = slots[j]
    BY <1>1, <2>4
  <2>6. k \in LiveSlots(slots') /\ slots'[k].head
    BY <2>3, <2>4, <2>5, LiveIs
  <2>. QED
    BY <1>4, <2>6
<1>. QED
  BY <1>5, <1>6

\* The head anchor outlives the turns: no turn snapshot evicts it while the
\* live conversation has another slot (claim, smallest_of).
THEOREM HeadCorrect == Spec => HeadOutlivesTurns
<1>1. TypeOK /\ TypeOK' /\ [Next]_vars =>
        ((pc = "prefill" /\ pos' # 0 /\ LiveHead # {} /\ LiveSlots(slots) \ LiveHead # {}
          /\ \A i \in LiveHead : slots[i].pos # pos')
         => LiveHead' # {})
  <2>. SUFFICES ASSUME TypeOK, TypeOK', [Next]_vars, pc = "prefill", pos' # 0, LiveHead # {},
                       LiveSlots(slots) \ LiveHead # {}, \A i \in LiveHead : slots[i].pos # pos'
                PROVE  LiveHead' # {}
    OBVIOUS
  <2>1. pos' > 0
    BY DEF TypeOK
  <2>2. CASE PrefillChunk \/ PrefillNothing
    <3>1. slots' = slots \/ \E head \in BOOLEAN : TakeSnapshot(head)
      BY <2>2 DEF PrefillChunk, PrefillNothing, cache
    <3>2. CASE slots' = slots
      BY <3>2 DEF LiveHead
    <3>. QED
      BY <2>1, <3>1, <3>2, SnapshotKeepsHead
  <2>3. CASE UNCHANGED vars
    BY <2>3 DEF vars, cache, LiveHead
  <2>4. ~AllocFail /\ ~Restart
    BY DEF AllocFail, ResetToZero, Restart
  <2>5. ~((\E ids \in Prompts : Accept(ids)) \/ (\E id \in Ids : DecodeStep(id))
          \/ (\E fed \in Fed, rows \in 1 .. Drafts + 1 : SpecPass(fed, rows))
          \/ Finish \/ SaveSlot \/ RestoreFile \/ RestoreFails)
    BY DEF Accept, DecodeStep, SpecPass, Finish, SaveSlot, MaySave, RestoreFile, RestoreFails
  <2>. QED
    BY <2>2, <2>3, <2>4, <2>5 DEF Next, StartWarm, StartParked, StartCold
<1>. QED
  BY <1>1, TypeCorrect, PTL DEF Spec, HeadOutlivesTurns

-----------------------------------------------------------------------------
(* The cache never changes the output: refinement of ColdEngine            *)

\* What the first draw reads is what a prefill of the prompt alone leaves.
LEMMA DrawIsFresh ==
  ASSUME CacheInv, pc = "draw"
  PROVE  DrawView = Cold!FreshView(req)
<1>1. /\ TypeOK /\ history = req /\ rec = req /\ logits = req /\ pos = Len(req)
      /\ done = pos \div Compress /\ RowsExact(kv, pooled, req, pos)
  BY DEF CacheInv, PhaseInv, EngineExact
<1>2. pos \in Nat /\ pos < NCtx /\ NCtx \in Nat /\ Compress \in Nat \ {0}
  BY <1>1, Parts, RulesAssumption
<1>3. ASSUME NEW r \in 1 .. pos PROVE kv[r - 1] = SubSeq(req, 1, r)
  <2>1. r - 1 \in Rows /\ r - 1 < pos /\ (r - 1) + 1 = r
    BY <1>2 DEF Rows
  <2>2. kv[r - 1] = Prefix(req, (r - 1) + 1)
    BY <1>1, <2>1 DEF RowsExact
  <2>. QED
    BY <2>1, <2>2 DEF Prefix
<1>4. pos \div Compress \in Nat
  BY <1>2, DivBound
<1>5. ASSUME NEW b \in 1 .. pos \div Compress PROVE pooled[b - 1] = SubSeq(req, 1, b * Compress)
  <2>1. b - 1 \in Nat /\ (b - 1) + 1 = b /\ b - 1 < pos \div Compress
    BY <1>4
  <2>2. ((b - 1) + 1) * Compress \in Nat /\ ((b - 1) + 1) * Compress <= pos
    BY <1>2, <2>1, DivBound
  <2>3. NCtx + Compress - 1 \in Nat /\ pos <= NCtx + Compress - 1
    BY <1>2
  <2>4. ((b - 1) + 1) * Compress <= NCtx + Compress - 1
    BY <1>2, <2>2, <2>3
  <2>5. b - 1 < CapBlocks
    BY <1>2, <2>1, <2>3, <2>4, DivBound DEF CapBlocks
  <2>6. b - 1 \in Blocks
    BY <2>1, <2>5, BlockType DEF Blocks
  <2>7. pooled[b - 1] = Prefix(req, ((b - 1) + 1) * Compress)
    BY <1>1, <2>2, <2>6 DEF RowsExact
  <2>. QED
    BY <2>1, <2>7 DEF Prefix
<1>6. [r \in 1 .. pos |-> kv[r - 1]] = [r \in 1 .. Len(req) |-> SubSeq(req, 1, r)]
  BY <1>1, <1>3
<1>7. [b \in 1 .. done |-> pooled[b - 1]] = [b \in 1 .. Len(req) \div Compress |-> SubSeq(req, 1, b * Compress)]
  BY <1>1, <1>5
<1>. QED
  BY <1>1, <1>6, <1>7 DEF DrawView, Cold!FreshView, Cold!Start

\* Outside the draw there is nothing to read.
LEMMA NothingToDraw ==
  /\ pc # "draw" => DrawView = Cold!NoView
  /\ pc' # "draw" => DrawView' = Cold!NoView
  BY DEF DrawView, Cold!NoView

\* Every step of the server is a step of the engine without a cache, or none.
LEMMA ColdSteps ==
  ASSUME CacheInv, [Next]_vars, pc' = "draw" => DrawView' = Cold!FreshView(req')
  PROVE  [Cold!Next]_(Cold!vars)
<1>1. ASSUME pc' = pc, req' = req, pc # "draw"
      PROVE  UNCHANGED Cold!vars
  BY <1>1, NothingToDraw DEF Cold!vars
<1>2. ASSUME pc # "idle", pc' = "idle", req' = << >>
      PROVE  Cold!Stop
  BY <1>2, NothingToDraw DEF Cold!Stop
<1>3. ASSUME pc = "prefill", pc' = "draw", req' = req
      PROVE  Cold!Prefilled
  BY <1>3 DEF Cold!Prefilled
<1>4. CASE \E ids \in Prompts : Accept(ids)
  <2>1. PICK ids \in Prompts : Accept(ids)
    BY <1>4
  <2>2. \E n \in 1 .. MaxPrompt : req' \in [1 .. n -> Ids]
    BY <2>1 DEF Accept, Prompts
  <2>3. Cold!Accept
    BY <2>1, <2>2, NothingToDraw DEF Accept, Cold!Accept
  <2>. QED
    BY <2>3 DEF Cold!Next
<1>5. CASE PrefillChunk \/ PrefillNothing
  <2>1. /\ pc = "prefill"
        /\ \/ pc' = pc /\ req' = req
           \/ pc' = "idle" /\ req' = << >>
           \/ pc' = "draw" /\ req' = req
    BY <1>5 DEF PrefillChunk, PrefillNothing
  <2>. QED
    BY <1>1, <1>2, <1>3, <2>1 DEF Cold!Next
<1>6. CASE \/ \E id \in Ids : DecodeStep(id)
           \/ \E fed \in Fed, rows \in 1 .. Drafts + 1 : SpecPass(fed, rows)
  <2>1. pc \in {"draw", "decode"} /\ pc' = "decode" /\ req' = req
    BY <1>6 DEF DecodeStep, SpecPass
  <2>2. CASE pc = "draw"
    <3>1. Cold!Answer
      BY <2>1, <2>2, NothingToDraw DEF Cold!Answer
    <3>. QED
      BY <3>1 DEF Cold!Next
  <2>. QED
    BY <1>1, <2>1, <2>2
<1>7. CASE Finish \/ AllocFail
  <2>1. pc # "idle" /\ pc' = "idle" /\ req' = << >>
    BY <1>7 DEF Finish, AllocFail
  <2>. QED
    BY <1>2, <2>1 DEF Cold!Next
<1>8. CASE SaveSlot \/ RestoreFile \/ RestoreFails
  <2>1. pc = "idle" /\ pc' = pc /\ req' = req
    BY <1>8 DEF SaveSlot, MaySave, RestoreFile, RestoreFails
  <2>. QED
    BY <1>1, <2>1
<1>9. CASE Restart
  <2>1. pc' = "idle" /\ req' = << >> /\ (pc = "idle" => req = << >>)
    BY <1>9 DEF Restart, CacheInv, PhaseInv
  <2>2. CASE pc = "idle"
    BY <1>1, <2>1, <2>2
  <2>. QED
    BY <1>2, <2>1, <2>2 DEF Cold!Next
<1>10. CASE UNCHANGED vars
  <2>1. UNCHANGED <<pc, req, DrawView>>
    BY <1>10 DEF vars, engine, DrawView
  <2>. QED
    BY <2>1 DEF Cold!vars
<1>. QED
  BY <1>4, <1>5, <1>6, <1>7, <1>8, <1>9, <1>10 DEF Next, StartWarm, StartParked, StartCold

\* "The cache never changes the output" (docs/architecture.md 7.5), the safety
\* half of ServesAsCold: every behaviour of the server is one of an engine that
\* holds nothing between requests, so whatever was held, parked, rolled back,
\* restored or stopped before, the first draw of a request reads exactly what a
\* prefill of its whole prompt leaves.
THEOREM NeverChangesTheOutput ==
  ASSUME DraftsHaveRoom
  PROVE  Spec => Cold!Init /\ [][Cold!Next]_(Cold!vars)
<1>1. Init => Cold!Init
  BY NothingToDraw DEF Init, Boot, Cold!Init
<1>2. CacheInv => (pc = "draw" => DrawView = Cold!FreshView(req))
  BY DrawIsFresh
<1>3. CacheInv /\ [Next]_vars /\ (pc = "draw" => DrawView = Cold!FreshView(req))'
        => [Cold!Next]_(Cold!vars)
  BY ColdSteps
<1>. QED
  BY <1>1, <1>2, <1>3, CacheInvariance, PTL DEF Spec

=============================================================================
