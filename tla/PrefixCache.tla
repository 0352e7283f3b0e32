---------------------------- MODULE PrefixCache ----------------------------
(***************************************************************************)
(* The single-request chat server's held conversation: the engine state    *)
(* that survives a request (engine/src/gen.rs, reset.rs), the prompt       *)
(* snapshots and the one parked conversation of the prefix cache           *)
(* (cache.rs), the slot file (slot.rs), and the request that drives them   *)
(* (bin/serve.rs, chat_generate, guarded, slot_route).                     *)
(*                                                                         *)
(* The server is single threaded: requests never overlap, so the hazards   *)
(* are sequences.  A request may stop at a chunk boundary, fail an         *)
(* allocation anywhere, or end its answer at any token; what it leaves in  *)
(* the KV rows, the recurrent state and the slots is what the next one     *)
(* starts from.                                                            *)
(*                                                                         *)
(* A cell (KV row, pooled block, recurrent state, logits row) holds the id *)
(* sequence whose PREFILL computed it, or Junk.  Decode writes Junk: its   *)
(* kernels do not reproduce prefill's bits, so no decode row may ever be   *)
(* reused as a prompt row.                                                 *)
(***************************************************************************)
EXTENDS PrefixRules

CONSTANTS
  Chunk,      \* prompt_chunk: tokens of one prefill chunk
  MaxPrompt,  \* bound: longest prompt a client sends (< NCtx)
  MaxTokens,  \* bound: largest max_tokens a client asks for
  Drafts,     \* MTP_VERIFY_MAX - 1: drafts of one verify pass; 0 = no MTP head
  FilesOn     \* bound: whether slot files and process restarts are explored

ASSUME CacheAssumption ==
  /\ Chunk \in Nat \ {0}
  /\ MaxPrompt \in 1 .. NCtx - 1
  /\ MaxTokens \in Nat \ {0}
  /\ Drafts \in Nat
  /\ Drafts > 0 => Compress > NCtx  \* the MTP model has full attention: no pooled blocks
  /\ FilesOn \in BOOLEAN

VARIABLES
  pc,       \* "idle", "prefill", "draw" (first token next), "decode"
  req,      \* the prompt of the request in flight, << >> when idle
  history,  \* Engine::history
  pos,      \* Engine::pos
  done,     \* Engine::done_blocks
  rec,      \* the recurrent buffers: GDN state, conv windows, PLE, QSA ring
  logits,   \* s.logits row 0
  kv,       \* KV row r, in every layer and head
  pooled,   \* pooled QSA block b, in every layer
  cap,      \* the capture stream of the decode graph is alive
  slots,    \* PrefixCache::slots; slot 1 is SLOT_PROMPT
  park,     \* PrefixCache::park with park_kv and park_pooled
  file      \* the one slot file of this model, NoFile when absent

engine == <<history, pos, done, rec, logits, kv, pooled, cap>>
cache == <<slots, park>>
vars == <<pc, req, engine, cache, file>>

NoFile == [ids |-> << >>, done |-> 0, rec |-> Junk,
           kv |-> [r \in Rows |-> Junk], pooled |-> [b \in Blocks |-> Junk]]

Prompts == UNION {[1 .. n -> Ids] : n \in 1 .. MaxPrompt}

\* the rows and complete blocks below n are those of a prefill of h
RowsExact(rows, blocks, h, n) ==
  /\ \A r \in Rows : r < n => rows[r] = Prefix(h, r + 1)
  /\ \A b \in Blocks : (b + 1) * Compress <= n => blocks[b] = Prefix(h, (b + 1) * Compress)

EngineExact == /\ pos = Len(history)
               /\ rec = history
               /\ RowsExact(kv, pooled, history, Len(history))

Boot ==
  /\ pc = "idle"
  /\ req = << >>
  /\ history = << >> /\ pos = 0 /\ done = 0
  /\ rec = Junk /\ logits = Junk
  /\ kv = [r \in Rows |-> Junk]
  /\ pooled = [b \in Blocks |-> Junk]
  /\ cap = FALSE
  /\ slots = NoSlots
  /\ park = NoPark

Init == Boot /\ file = NoFile

-----------------------------------------------------------------------------
(* Cache operations on the engine                                          *)

\* Mutant: the decode graph and its stream outlive the operation
KeepDecodeGraph == cap' = cap

\* A4: the graph goes, and the legacy stream is the active one again
DropDecodeGraph == cap' = FALSE

\* rollback onto slot s, held being the history it is a prefix of (already
\* put back by an unpark); the decode graph goes first (A4)
RestoreSlot(s, held) ==
  /\ DropDecodeGraph
  /\ rec' = s.rec
  /\ pos' = s.pos
  /\ done' = s.done
  /\ history' = Prefix(held, s.pos)
  \* #100: a prompt that ends at the slot takes its logits row instead of a
  \* prefill
  /\ logits' = IF s.pos = Len(req') THEN s.logits ELSE logits

\* reset_to_zero; the GDN state itself is zeroed by the first chunk's init
\* flag, which no step can come between
ResetToZero ==
  /\ DropDecodeGraph
  /\ pos' = 0 /\ done' = 0
  /\ history' = << >>
  /\ rec' = Junk

\* the park once slot i is claimed: a park without slots is dropped
ParkWithout(i) == IF ParkedSlots(slots) \ {i} = {} THEN NoPark ELSE park

\* snapshot_as, after the step that set the primed engine state: claim, copy,
\* name
TakeSnapshot(head) ==
  \E i \in SlotIx :
    /\ Claims(i, slots, pos', head)
    /\ slots' = RotateIn(slots, i,
                  [pos |-> pos', done |-> done', rec |-> rec', logits |-> logits',
                   parked |-> FALSE, head |-> head])
    /\ park' = ParkWithout(i)

-----------------------------------------------------------------------------
(* One request: chat_generate                                              *)

Accept(ids) == /\ pc = "idle"
               /\ pc' = "prefill"
               /\ req' = ids
               /\ UNCHANGED file

\* the decision names a live slot
StartWarm(ids, i) ==
  /\ Accept(ids)
  /\ ResumesLive(i, slots, park, history, ids)
  /\ RestoreSlot(slots[i], history)
  /\ slots' = ForgetAbove(slots, slots[i].pos)
  /\ park' = IF park = NoPark THEN NoPark
             ELSE [park EXCEPT !.dirty = Greatest(@, Len(history))]
  /\ UNCHANGED <<kv, pooled>>

\* the decision names a parked slot: unpark, then roll back onto it
StartParked(ids, i) ==
  /\ Accept(ids)
  /\ ResumesParked(i, slots, park, history, ids)
  /\ kv' = [r \in Rows |-> IF r < park.rows THEN park.kv[r] ELSE kv[r]]
  /\ pooled' = [b \in Blocks |-> IF b < park.blocks THEN park.pooled[b] ELSE pooled[b]]
  /\ RestoreSlot(slots[i], park.history)
  /\ slots' = ForgetAbove(AdoptParked(slots), slots[i].pos)
  /\ park' = NoPark

\* no slot serves the request: park the held conversation, keep the parked
\* one, or drop everything; then reset_to_zero
ColdPark(ids, i) ==
  /\ PlanPark(i, slots, park, Len(history), Len(ids))
  /\ slots' = ParkLive(slots)
  /\ LET rows   == ParkRows(slots[i].pos)
         blocks == ParkBlocks(rows)
     IN park' = [history |-> history, rows |-> rows, blocks |-> blocks, dirty |-> 0,
                 kv |-> [r \in Rows |-> IF r < rows THEN kv[r] ELSE Junk],
                 pooled |-> [b \in Blocks |-> IF b < blocks THEN pooled[b] ELSE Junk]]

ColdKeep(ids) ==
  /\ PlanKeep(slots, park, Len(history), Len(ids))
  /\ slots' = DropLive(slots)
  /\ park' = [park EXCEPT !.dirty = Greatest(@, Len(history))]

ColdDrop(ids) ==
  /\ PlanDrop(slots, park, Len(history), Len(ids))
  /\ slots' = NoSlots
  /\ park' = NoPark

StartCold(ids) ==
  /\ Accept(ids)
  /\ GoesCold(slots, park, history, ids)
  /\ \/ \E i \in SlotIx : ColdPark(ids, i)
     \/ ColdKeep(ids)
     \/ ColdDrop(ids)
  /\ ResetToZero
  /\ UNCHANGED <<logits, kv, pooled>>

\* the prefill stops once at the head anchor, when one lies ahead
PrefillEnd ==
  IF \E b \in Rows : IsAnchorPoint(b, req, pos)
  THEN CHOOSE b \in Rows : IsAnchorPoint(b, req, pos)
  ELSE Len(req)

\* one chunk of prefill_until: rows, completed blocks, recurrent state, head;
\* computed over a state that is not a prefill's, its results are not either
WriteChunk(t) ==
  LET h == history \o SubSeq(req, pos + 1, pos + t)
      Cell(n) == IF EngineExact THEN Prefix(h, n) ELSE Junk
  IN /\ history' = h
     /\ pos' = pos + t
     /\ done' = (pos + t) \div Compress
     /\ kv' = [r \in Rows |-> IF pos <= r /\ r < pos + t THEN Cell(r + 1) ELSE kv[r]]
     /\ pooled' = [b \in Blocks |->
                     IF pos \div Compress <= b /\ b < (pos + t) \div Compress
                     THEN Cell((b + 1) * Compress) ELSE pooled[b]]
     /\ rec' = Cell(pos + t)
     /\ logits' = Cell(pos + t)
     /\ UNCHANGED cap

\* the stop probe (client gone, shutdown) is asked after every chunk but the
\* last; a stopped request snapshots what it prefilled and decodes nothing
PrefillChunk ==
  /\ pc = "prefill"
  /\ pos < Len(req)
  /\ LET end == PrefillEnd
         t   == Least(Chunk, end - pos)
     IN /\ WriteChunk(t)
        /\ \/ /\ pos + t < end
              /\ UNCHANGED <<pc, req, cache>>
           \/ /\ pos + t < end
              /\ TakeSnapshot(FALSE)
              /\ pc' = "idle" /\ req' = << >>
           \/ /\ pos + t = end /\ end < Len(req)
              /\ TakeSnapshot(TRUE)
              /\ UNCHANGED <<pc, req>>
           \/ /\ pos + t = Len(req)
              /\ TakeSnapshot(FALSE)
              /\ pc' = "draw"
              /\ UNCHANGED req
  /\ UNCHANGED file

\* #100: nothing to prefill, the logits row came back with the slot
PrefillNothing ==
  /\ pc = "prefill"
  /\ pos = Len(req)
  /\ UNCHANGED engine
  /\ TakeSnapshot(FALSE)
  /\ pc' = "draw"
  /\ UNCHANGED <<req, file>>

\* Mutant: max_tokens is not clamped to the context
MayFeedUnclamped(n) == pos + n - Len(req) <= MaxTokens - 1

\* the loop feeds at most max_tokens - 1 ids, and max_tokens is clamped to
\* n_ctx - prompt (clamped_max_tokens)
MayFeed(n) == pos + n - Len(req) <= Least(MaxTokens, NCtx - Len(req)) - 1

\* decode_step: one row; the pooling node writes the completed block, or
\* garbage into the next one
DecodeStep(id) ==
  /\ pc \in {"draw", "decode"}
  /\ Drafts = 0
  /\ MayFeed(1)
  /\ pc' = "decode"
  /\ LET complete == (pos + 1) % Compress = 0
         block    == IF complete THEN (pos + 1) \div Compress - 1 ELSE done
     IN /\ kv' = [kv EXCEPT ![pos] = Junk]
        /\ pooled' = [pooled EXCEPT ![block] = Junk]
        /\ done' = IF complete THEN (pos + 1) \div Compress ELSE done
  /\ history' = Append(history, id)
  /\ pos' = pos + 1
  /\ rec' = Junk /\ logits' = Junk
  /\ cap' = TRUE
  /\ UNCHANGED <<req, cache, file>>

\* Mutant: a pass starts at the last settled row instead of the one after it
VerifyRowsOneBack(rows) == {r \in Rows : pos - 1 <= r /\ r < pos + rows - 1}

\* the KV rows a verify pass writes; one at or past n_ctx lands on the first
\* rows of the next head's block (kv_row_ptr, store_kv: head * n_ctx + slot)
VerifyRows(rows) == {r \in Rows : \E j \in pos .. pos + rows - 1 : r = j % NCtx}

\* spec_step and its settling: the rows of the fed id and of every draft are
\* written, mtp_accept keeps only the ids that were drawn
SpecPass(fed, rows) ==
  /\ pc \in {"draw", "decode"}
  /\ Len(fed) <= rows
  /\ MayFeed(Len(fed))
  /\ pc' = "decode"
  /\ kv' = [r \in Rows |-> IF r \in VerifyRows(rows) THEN Junk ELSE kv[r]]
  /\ history' = history \o fed
  /\ pos' = pos + Len(fed)
  /\ rec' = Junk /\ logits' = Junk
  /\ cap' = TRUE
  /\ UNCHANGED <<req, done, pooled, cache, file>>

\* the answer ends: a stop, the budget, a gone client, a shutdown
Finish ==
  /\ pc \in {"draw", "decode"}
  /\ pc' = "idle"
  /\ req' = << >>
  /\ UNCHANGED <<engine, cache, file>>

\* guarded: an AllocFailed anywhere in the request drops it and everything held
AllocFail ==
  /\ pc # "idle"
  /\ pc' = "idle"
  /\ req' = << >>
  /\ slots' = NoSlots
  /\ park' = NoPark
  /\ ResetToZero
  /\ UNCHANGED <<logits, kv, pooled, file>>

-----------------------------------------------------------------------------
(* Slot files (#32 A10) and restarts                                       *)

\* prompt_slot: slot 1 while it names the history
PromptSlot == 1 \in LiveSlots(slots)

\* Mutant: the whole history is written, answer included
SavedHistory(p) == history

\* the ids a slot file names: those of the prompt the slot holds
SavedIds(p) == Prefix(history, p)

\* slot::save's refusals
MaySave ==
  /\ FilesOn
  /\ pc = "idle"
  /\ PromptSlot
  /\ slots[1].pos <= Len(history)

\* the prompt slot's buffers, the KV rows and blocks as the device holds them
\* now, and the ids
Saved ==
  LET p == slots[1].pos IN
  [ids |-> SavedIds(p), done |-> slots[1].done,
   rec |-> slots[1].rec,
   kv |-> [r \in Rows |-> IF r < p THEN kv[r] ELSE Junk],
   pooled |-> [b \in Blocks |-> IF b < slots[1].done THEN pooled[b] ELSE Junk]]

\* slot::save; one that fails removes its temporary file and changes nothing
SaveSlot ==
  /\ MaySave
  /\ file' = Saved
  /\ UNCHANGED <<pc, req, engine, cache>>

\* Mutant: the file is written under its own name
LeftInPlace(old, new) == {old, new, [new EXCEPT !.kv = [r \in Rows |-> Junk]]}

\* what a save that dies leaves under the file's name: all is written and synced
\* under another name before the rename
LeftOnDisk(old, new) == {old, new}

\* invalidate, then set_prompt_slot: a slot file carries no logits row
RestoredSlots(f) ==
  [NoSlots EXCEPT ![1] = [EmptySlot EXCEPT !.pos = Len(f.ids), !.done = f.done, !.rec = f.rec]]

\* slot::restore: the recurrent state goes into the slot, not into the device
RestoreFile ==
  /\ FilesOn
  /\ pc = "idle"
  /\ file # NoFile
  /\ LET p == Len(file.ids) IN
     /\ kv' = [r \in Rows |-> IF r < p THEN file.kv[r] ELSE kv[r]]
     /\ pooled' = [b \in Blocks |-> IF b < file.done THEN file.pooled[b] ELSE pooled[b]]
     /\ pos' = p
     /\ done' = file.done
     /\ history' = file.ids
  /\ slots' = RestoredSlots(file)
  /\ park' = NoPark
  /\ DropDecodeGraph
  /\ UNCHANGED <<pc, req, rec, logits, file>>

\* a read error after the header checks: the payload streams, so some layers
\* hold the file's rows and some the old ones
RestoreFails ==
  /\ FilesOn
  /\ pc = "idle"
  /\ file # NoFile
  /\ slots' = NoSlots
  /\ park' = NoPark
  /\ DropDecodeGraph
  /\ \/ UNCHANGED <<kv, pooled>>
     \/ /\ kv' = [r \in Rows |-> IF r < Len(file.ids) THEN Junk ELSE kv[r]]
        /\ \/ UNCHANGED pooled
           \/ pooled' = [b \in Blocks |-> IF b < file.done THEN Junk ELSE pooled[b]]
  /\ UNCHANGED <<pc, req, history, pos, done, rec, logits, file>>

\* the process dies at any point, also in the middle of a save, and boots again;
\* only the file remains
Restart ==
  /\ FilesOn
  /\ \/ UNCHANGED file
     \/ MaySave /\ file' \in LeftOnDisk(file, Saved)
  /\ pc' = "idle" /\ req' = << >>
  /\ history' = << >> /\ pos' = 0 /\ done' = 0
  /\ rec' = Junk /\ logits' = Junk
  /\ kv' = [r \in Rows |-> Junk]
  /\ pooled' = [b \in Blocks |-> Junk]
  /\ cap' = FALSE
  /\ slots' = NoSlots /\ park' = NoPark

-----------------------------------------------------------------------------
Fed == UNION {[1 .. n -> Ids] : n \in 1 .. Drafts + 1}

Next ==
  \/ \E ids \in Prompts : \/ \E i \in SlotIx : StartWarm(ids, i)
                          \/ \E i \in SlotIx : StartParked(ids, i)
                          \/ StartCold(ids)
  \/ PrefillChunk
  \/ PrefillNothing
  \/ \E id \in Ids : DecodeStep(id)
  \/ /\ Drafts > 0
     /\ \E fed \in Fed, rows \in 1 .. Drafts + 1 : SpecPass(fed, rows)
  \/ Finish
  \/ AllocFail
  \/ SaveSlot
  \/ RestoreFile
  \/ RestoreFails
  \/ Restart

Spec == Init /\ [][Next]_vars

-----------------------------------------------------------------------------
(* Properties                                                              *)

CellType == Seq(Ids)

SlotType == [pos : Nat, done : Nat, rec : CellType, logits : CellType,
             parked : BOOLEAN, head : BOOLEAN]
ParkType == [history : CellType, rows : Nat, blocks : Nat, dirty : Nat,
             kv : [Rows -> CellType], pooled : [Blocks -> CellType]]
FileType == [ids : CellType, done : Nat, rec : CellType,
             kv : [Rows -> CellType], pooled : [Blocks -> CellType]]

\* Types of the engine and the cache, and the two bounds the code relies on
\* without checking: the position is the length of the history and stays
\* inside the KV buffer of n_ctx rows (Engine, Snapshot, Parked, slot file).
TypeOK ==
  /\ pc \in {"idle", "prefill", "draw", "decode"}
  /\ req \in CellType /\ Len(req) < NCtx
  /\ history \in CellType /\ Len(history) = pos
  /\ pos \in Nat /\ pos < NCtx
  /\ done \in Nat
  /\ rec \in CellType /\ logits \in CellType
  /\ kv \in [Rows -> CellType]
  /\ pooled \in [Blocks -> CellType]
  /\ cap \in BOOLEAN
  /\ slots \in [SlotIx -> SlotType]
  /\ park \in ParkType
  /\ file \in FileType /\ Len(file.ids) < NCtx

\* "every held slot is a prefix of history" (claim, the #101 invariant) and
\* "every KV and pooled QSA row below pos was written by prefill" (Snapshot::
\* prefill_clean): what a rollback relies on and never checks.
LiveIntact ==
  \A i \in LiveSlots(slots) :
    LET s == slots[i] IN
    /\ s.pos <= Len(history)
    /\ s.rec = Prefix(history, s.pos)
    /\ s.logits \in {Junk, s.rec}
    /\ s.done = s.pos \div Compress
    /\ RowsExact(kv, pooled, history, s.pos)

\* A parked snapshot the rule still offers (parked_usable) is whole: the rows
\* put back from host RAM and the rows still on the device together are the
\* prefill of its own history (#118: "rows 0..min(dirty, p) were overwritten,
\* and the park put back rows 0..rows").
ParkedIntact ==
  park # NoPark =>
    LET backKv == [r \in Rows |-> IF r < park.rows THEN park.kv[r] ELSE kv[r]]
        backPooled == [b \in Blocks |-> IF b < park.blocks THEN park.pooled[b] ELSE pooled[b]]
    IN \A i \in ParkedCandidates(slots, park, Greatest(park.dirty, Len(history))) :
         LET s == slots[i] IN
         /\ s.pos <= Len(park.history)
         /\ s.rec = Prefix(park.history, s.pos)
         /\ s.logits \in {Junk, s.rec}
         /\ s.done = s.pos \div Compress
         /\ RowsExact(backKv, backPooled, park.history, s.pos)

\* A park and its slots come and go together: no slot of a conversation that
\* is gone, no stash that nothing can reach (claim, apply_cold, adopt_parked,
\* invalidate).
ParkHasSlots == (park # NoPark) <=> (ParkedSlots(slots) # {})

\* claim takes the slot already at pos, so one conversation never holds one
\* position twice.
PositionsDistinct ==
  \A i, j \in SlotIx :
    /\ slots[i].pos > 0
    /\ slots[i].pos = slots[j].pos
    /\ slots[i].parked = slots[j].parked
    => i = j

\* What claim, apply_cold, adopt_parked and invalidate keep of slots and park
\* together, over any number of requests.
SlotsSound == ParkHasSlots /\ PositionsDistinct

\* Prefill always continues an exact state, on the legacy stream: its chunk
\* uploads come from temporaries, which only that stream waits for (A4).
PrefillFromExact ==
  pc = "prefill" => /\ ~cap
                    /\ history = Prefix(req, pos)
                    /\ EngineExact

\* What a slot file holds is the prefill of its ids, whatever ran between the
\* snapshot and the save (slot.rs: "the KV prefix is untouched by everything
\* that ran after the snapshot").
FileIntact ==
  /\ file.rec = file.ids
  /\ file.done = Len(file.ids) \div Compress
  /\ RowsExact(file.kv, file.pooled, file.ids, Len(file.ids))

\* While a request runs, no snapshot takes the parked conversation's last
\* slot: only a failed allocation (or a restart) loses a park mid-request.
ParkOutlivesRequest ==
  [][pc # "idle" /\ park # NoPark /\ park' = NoPark => history' = << >>]_vars

\* A cold start keeps a parked conversation only if the new prompt leaves a
\* snapshot of it usable (plan_cold), so the stash is never dead weight from
\* the start.
ParkIsWorthKeeping ==
  [][(pc = "idle" /\ pc' = "prefill" /\ history' = << >> /\ park' # NoPark)
     => ParkedCandidates(slots', park', Greatest(park'.dirty, Len(req'))) # {}]_vars

\* The parked conversation waits for its next turn: it is worth its rows, and
\* requests of other conversations never push it out.
ParkSound == ParkOutlivesRequest /\ ParkIsWorthKeeping

\* "a turn snapshot never evicts" the head anchor "while another slot of its
\* side is there" (claim); a snapshot AT the anchor's position renames it.
LiveHead == {i \in LiveSlots(slots) : slots[i].head}
HeadOutlivesTurns ==
  [][(pc = "prefill" /\ pos' # 0 /\ LiveHead # {} /\ LiveSlots(slots) \ LiveHead # {}
      /\ \A i \in LiveHead : slots[i].pos # pos')
     => LiveHead' # {}]_vars

=============================================================================
