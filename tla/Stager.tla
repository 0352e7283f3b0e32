------------------------------- MODULE Stager -------------------------------
(* The moves of a decode call through the global arena with the stager       *)
(* (glm5_tiers.rs: Stager, StagerMover, ChunkMover, WbRing, Deferred).  The  *)
(* host queues a call's copies and waits for next to nothing; the stager     *)
(* stream, the ring's write-back stream, the NVMe readers, the deferred-read *)
(* thread and the compute stream run behind it in any order the events and   *)
(* the landed flags allow.  What the arena decides is any move of ArenaMoves. *)
(*                                                                           *)
(* Layers do not appear: a key is an expert of some layer, and the one       *)
(* selection of a call is of one layer's keys.  Not modelled: the early      *)
(* reply and its tail, the CPU lane, the prompt calls.                       *)
EXTENDS ArenaMoves

CONSTANTS
  Picks,         \* most experts one call selects; also the staging slots
  Rings,         \* sizes of the write-back ring a boot may set (CROW_GLM_ARENA_VRING > 0)
  MaxCalls,      \* calls of a run
  Seeds,         \* how many experts the arena may hold when the run begins
  Faults         \* NVMe reads that may fail

ASSUME StagerAssumption ==
  /\ Picks \in Nat \ {0} /\ Rings \subseteq Nat \ {0}
  /\ MaxCalls \in Nat /\ Faults \in Nat /\ Seeds \subseteq 0 .. VSlots + RSlots

VARIABLES
  place,      \* where the arena has each record
  flight,     \* rflight: the landed value a guessed read will raise, else 0
  mem,        \* the record in every cell, None while it is being written
  landed,     \* the landed flags
  stager,     \* the stager stream: operations queued
  ring,       \* the write-back ring: its book, its events, its stream
  reads,      \* NVMe reads submitted and not done
  deferred,   \* reads waiting in the deferred-read thread
  call,       \* the call the host is queueing
  run,        \* the experts the compute stream runs next, and from where
  seq,
  failed      \* experts whose read failed

vars == <<place, flight, mem, landed, stager, ring, reads, deferred, call, run, seq, failed>>

Ents   == UNION {0 .. n - 1 : n \in Rings}
Stages == 0 .. Picks - 1

\* Memory cells besides the arena's slots.
Entry(r) == [tier |-> "ring", slot |-> r]
Stage(s) == [tier |-> "stage", slot |-> s]
Land(s)  == [tier |-> "land", slot |-> s]
Cells    == (Places \ {Nvme}) \cup {Entry(r) : r \in Ents}
              \cup {Stage(s) : s \in Stages} \cup {Land(s) : s \in Stages}

NoRun  == << >>
NoCall == [at |-> "idle"]
Asc(S) == SetToSortSeq(S, <)

-----------------------------------------------------------------------------
(* Operations of the stager stream.                                          *)

WaitFlag(k, v)  == [op |-> "flag", key |-> k, seq |-> v]
WaitBack(id)    == [op |-> "back", id |-> id]
Copy(from, to)  == [op |-> "copy", from |-> from, to |-> to]
Out(from, r, id) == [op |-> "out", from |-> from, to |-> Entry(r), id |-> id]
Gate(v)         == [op |-> "gate", seq |-> v]

\* A read of key k into a cell; val raised when it is done.
ReadOf(k, cell, v, guess) == [key |-> k, cell |-> cell, seq |-> v, guess |-> guess]

\* The cells of reads handed to the readers: their bytes are lost from here on.
Torn(m, rs) == [c \in Cells |-> IF \E rd \in rs : rd.cell = c THEN None ELSE m[c]]

-----------------------------------------------------------------------------
(* The write-back ring.  Write-backs are numbered; its stream runs them in   *)
(* order, so write-back id has landed once it left todo.                     *)

NoRing(n) == [slot |-> [r \in 0 .. n - 1 |-> None], ev |-> [r \in 0 .. n - 1 |-> 0],
              next |-> 0, issued |-> 0, waited |-> 0, todo |-> <<>>]

Entries(g) == DOMAIN g.slot

HasLanded(g, id) == id <= g.issued - Len(g.todo)
EventDone(g, r)  == HasLanded(g, g.ev[r])

\* RingBook::pending
Pending(g, q) == {r \in Entries(g) : g.slot[r] = q /\ ~EventDone(g, r)}

\* ChunkMover::wait_gpu
WaitGpu(g, q) == [i \in 1 .. Cardinality(Pending(g, q)) |-> WaitBack(g.ev[Asc(Pending(g, q))[i]])]

\* RingBook::take: the first free or landed entry from next, else next itself.
NextEntry(g, r) == (r + 1) % Cardinality(Entries(g))

FromNext(g) == [i \in 1 .. Cardinality(Entries(g)) |-> (g.next + i - 1) % Cardinality(Entries(g))]
Usable(g)   == {r \in Entries(g) : g.slot[r] = None \/ EventDone(g, r)}
TakeOf(g)   == IF Usable(g) = {} THEN g.next ELSE SelectSeq(FromNext(g), LAMBDA r : r \in Usable(g))[1]

\* Wrong: the copy into an entry does not wait for the write-back out of it.
WriteBackAtOnce(a, from, q) ==
  LET g == a.ring
      r == TakeOf(g)
      id == g.issued + 1
  IN  [ops  |-> Append(a.ops, Out(from, r, id)),
       ring |-> [g EXCEPT !.slot[r] = q, !.ev[r] = id, !.next = NextEntry(g, r),
                          !.issued = id, !.waited = @ + (IF Usable(g) = {} THEN 1 ELSE 0),
                          !.todo = Append(@, [id |-> id, entry |-> r, slot |-> q])]]

\* ChunkMover::vram_to_pinned: out of the VRAM cell into a ring entry, from there
\* into slot q on the ring's stream; an entry not landed yet is waited for.
WriteBack(a, from, q) ==
  LET g  == a.ring
      r  == TakeOf(g)
      id == g.issued + 1
  IN  [ops  |-> a.ops \o (IF Usable(g) = {} THEN <<WaitBack(g.ev[r])>> ELSE <<>>)
                      \o <<Out(from, r, id)>>,
       ring |-> [g EXCEPT !.slot[r] = q, !.ev[r] = id, !.next = NextEntry(g, r),
                          !.issued = id, !.waited = @ + (IF Usable(g) = {} THEN 1 ELSE 0),
                          !.todo = Append(@, [id |-> id, entry |-> r, slot |-> q])]]

-----------------------------------------------------------------------------
(* The host.                                                                 *)

Queued(k) == \/ \E rd \in reads : rd.key = k
             \/ \E i \in DOMAIN deferred : \E rd \in deferred[i].reads : rd.key = k

\* harvest: guessed reads that are done are in flight no more.
Harvested == [k \in Keys |-> IF Queued(k) THEN flight[k] ELSE 0]

\* Every demand read of an earlier call has reported (settle).
DemandsDone ==
  /\ \A rd \in reads : rd.guess
  /\ \A i \in DOMAIN deferred : \A rd \in deferred[i].reads : rd.guess

\* drop_stale_guesses: guesses still in a reader's queue.
Droppable == {k \in Keys : flight[k] # 0 /\ \E rd \in reads : rd.key = k}

\* One record per slot.
OneEach(p) == \A j, k \in Keys : j # k /\ p[j] = p[k] => p[j] = Nvme

Entrants(c) == {k \in Keys : InVram(c.after[k]) /\ ~InVram(c.before[k])}
Left(c)     == {k \in c.ids : c.after[k] = Nvme}
Staged(c)   == Asc(Entrants(c)) \o Asc(Left(c))
Victims(c)  == {k \in Keys : InVram(c.before[k]) /\ InRam(c.after[k])}
ToPinned(c) == {k \in Keys : c.before[k] = Nvme /\ InRam(c.after[k])}
\* Pinned slots phase A copies from (read_pinned; freed by the call in the arena).
ReadPinned(c) == {c.before[k].slot : k \in {x \in Entrants(c) : InRam(c.before[x])}}

\* The staged records on the NVMe: their reads into the landing.
ToLanding(c) ==
  {ReadOf(Staged(c)[s], Land(s - 1), c.seq, FALSE) : s \in {i \in DOMAIN Staged(c) : c.before[Staged(c)[i]] = Nvme}}

Waits(rs) == LET ks == Asc({rd.key : rd \in rs})
             IN  [i \in DOMAIN ks |-> WaitFlag(ks[i], (CHOOSE rd \in rs : rd.key = ks[i]).seq)]

\* Joins: the stream waits for a guessed read this call selects.
Joins(c, fl) == LET ks == Asc({k \in c.ids : fl[k] # 0})
                IN  [i \in DOMAIN ks |-> WaitFlag(ks[i], fl[ks[i]])]

\* Wrong: the stream does not wait for a write-back into a slot it copies from.
StagePinnedAtOnce(c, g) ==
  FlattenSeq([s \in DOMAIN Staged(c) |->
    LET b == c.before[Staged(c)[s]] IN
      IF InRam(b) THEN <<Copy(b, Stage(s - 1))>> ELSE <<>>])

\* Phase A, the pinned records: each copied behind the write-backs into its slot.
StagePinned(c, g) ==
  FlattenSeq([s \in DOMAIN Staged(c) |->
    LET b == c.before[Staged(c)[s]] IN
      IF InRam(b) THEN WaitGpu(g, b.slot) \o <<Copy(b, Stage(s - 1))>> ELSE <<>>])

\* Phase A, the records on the NVMe: behind their landed flags.
StageLanded(c) ==
  LET ix == Asc({rd.cell.slot : rd \in ToLanding(c)})
  IN  Waits(ToLanding(c)) \o [i \in DOMAIN ix |-> Copy(Land(ix[i]), Stage(ix[i]))]

\* Phase B, the VRAM victims.
WriteBacks(c, g) ==
  FoldLeft(LAMBDA a, k : WriteBack(a, c.before[k], c.after[k].slot),
           [ops |-> <<>>, ring |-> g], Asc(Victims(c)))

\* table_global, serve_global up to the reads into pinned slots: the earlier
\* reads settled, the done guesses harvested, stale ones dropped, the arena's
\* step; then phase A and phase B's write-backs are queued.
Serve(ids, after, stale) ==
  LET fl == [k \in Keys |-> IF k \in stale THEN 0 ELSE Harvested[k]]
      at == [k \in Keys |-> IF k \in stale THEN Nvme ELSE place[k]]
      c  == [at |-> "fill", ids |-> ids, before |-> at, after |-> after, seq |-> seq + 1]
      b  == WriteBacks(c, ring)
  IN
  /\ stale \cap ids = {}
  /\ ServableMoves(at, after, ids) /\ OneEach(after)
  /\ \A k \in Keys : fl[k] # 0 => after[k] = at[k]
  /\ seq' = seq + 1
  /\ call' = c
  /\ place' = after /\ flight' = fl
  /\ stager' = stager \o Joins(c, fl) \o StagePinned(c, ring) \o StageLanded(c) \o b.ops
  /\ ring' = b.ring
  /\ reads' = {rd \in reads : rd.key \notin stale} \cup ToLanding(c)
  /\ mem' = Torn(mem, ToLanding(c))
  /\ UNCHANGED <<landed, deferred, run, failed>>

PinnedReads(c) == {ReadOf(k, c.after[k], c.seq, FALSE) : k \in ToPinned(c)}

\* A job of the deferred-read thread: reads to submit once the gate of call v
\* (0: none) and the events of these entries are through; each is handed over for
\* the write-back it stands for now.
EventOf(r) == [entry |-> r, id |-> ring.ev[r]]
Job(rs, v, rs2) ==
  [reads |-> rs, gate |-> v, events |-> {EventOf(r) : r \in rs2}, awaits |-> {}, synced |-> FALSE]

\* Wrong: the gate left out.
GatedNever(c) == FALSE

\* A read into a slot phase A of this call still copies from.
Gated(c) == \E k \in ToPinned(c) : c.after[k].slot \in ReadPinned(c)

\* Phase C: the VRAM entrants out of staging.
Unstage(c) ==
  [s \in 1 .. Cardinality(Entrants(c)) |-> Copy(Stage(s - 1), c.after[Staged(c)[s]])]

\* Where the experts of the call are.
LocOf(c, k) == IF c.after[k] = Nvme
                 THEN Stage((CHOOSE s \in DOMAIN Staged(c) : Staged(c)[s] = k) - 1)
                 ELSE c.after[k]

\* settle_locs: the experts read pinned slots behind the write-backs into them.
SettleLocs(c, g) ==
  FlattenSeq([i \in DOMAIN Asc(c.ids) |->
    IF InRam(c.after[Asc(c.ids)[i]]) THEN WaitGpu(g, c.after[Asc(c.ids)[i]].slot) ELSE <<>>])

\* ChunkMover::nvme: the host waits for the write-backs into the reads' slots.
FillReady(c) == \A k \in ToPinned(c) : Pending(ring, c.after[k].slot) = {}

\* The rest of serve_global: NVMe misses read straight into their pinned slots,
\* phase C, settle_locs.
Fill ==
  LET rs == PinnedReads(call) IN
  /\ call.at = "fill" /\ FillReady(call)
  /\ IF Gated(call)
       THEN /\ deferred' = Append(deferred, Job(rs, call.seq, {}))
            /\ UNCHANGED <<reads, mem>>
       ELSE /\ reads' = reads \cup rs /\ mem' = Torn(mem, rs)
            /\ UNCHANGED deferred
  /\ stager' = stager \o (IF Gated(call) THEN <<Gate(call.seq)>> ELSE <<>>)
                      \o Waits(rs) \o Unstage(call) \o SettleLocs(call, ring)
  /\ call' = [call EXCEPT !.at = "guess"]
  /\ UNCHANGED <<place, flight, landed, ring, run, seq, failed>>

\* prefetch_admit: a slot nobody holds that this call did not free, else the slot
\* of a landed expert the call does not select.
GuessSlots ==
  LET held == {place[k].slot : k \in {x \in Keys : InRam(place[x])}}
      free == (Rams \ held) \ ReadPinned(call)
  IN  IF free # {} THEN free
      ELSE {place[k].slot : k \in {x \in Keys : InRam(place[x]) /\ x \notin call.ids /\ flight[x] = 0}}

\* The write-backs a guessed read is deferred behind.
GuessWaits(q) == Pending(ring, q)

\* guess_reads: a guessed expert of the next layer read ahead into a pinned slot.
Guess(k, q) ==
  LET rd == ReadOf(k, Ram(q), seq, TRUE) IN
  /\ call.at = "guess" /\ k \notin call.ids /\ place[k] = Nvme /\ q \in GuessSlots
  /\ place' = [x \in Keys |-> IF x = k THEN Ram(q) ELSE IF place[x] = Ram(q) THEN Nvme ELSE place[x]]
  /\ flight' = [flight EXCEPT ![k] = seq]
  /\ IF GuessWaits(q) # {}
       THEN /\ deferred' = Append(deferred, Job({rd}, 0, GuessWaits(q)))
            /\ UNCHANGED <<reads, mem>>
       ELSE /\ reads' = reads \cup {rd} /\ mem' = Torn(mem, {rd})
            /\ UNCHANGED deferred
  /\ UNCHANGED <<landed, stager, ring, call, run, seq, failed>>

\* finish_staged: the table is up, the compute stream waits for the batch's event.
Answer ==
  /\ call.at = "guess"
  /\ run' = [k \in call.ids |-> LocOf(call, k)]
  /\ call' = NoCall
  /\ UNCHANGED <<place, flight, mem, landed, stager, ring, reads, deferred, seq, failed>>

-----------------------------------------------------------------------------
(* Streams, readers, the deferred-read thread.                               *)

\* May the head of the stager stream run?
Runnable(o) ==
  CASE o.op = "flag" -> landed[o.key] >= o.seq
    [] o.op = "back" -> HasLanded(ring, o.id)
    [] OTHER         -> TRUE

StagerStep ==
  LET o == Head(stager) IN
  /\ stager # <<>> /\ Runnable(o)
  /\ stager' = Tail(stager)
  /\ mem' = IF o.op \in {"copy", "out"} THEN [mem EXCEPT ![o.to] = mem[o.from]] ELSE mem
  /\ UNCHANGED <<place, flight, landed, ring, reads, deferred, call, run, seq, failed>>

\* The ring's stream: entry to pinned slot, behind the copy into the entry.
RingStep ==
  LET w == Head(ring.todo) IN
  /\ ring.todo # <<>>
  /\ \A i \in DOMAIN stager : stager[i].op = "out" => stager[i].id # w.id
  /\ mem' = [mem EXCEPT ![Ram(w.slot)] = mem[Entry(w.entry)]]
  /\ ring' = [ring EXCEPT !.todo = Tail(@)]
  /\ UNCHANGED <<place, flight, landed, stager, reads, deferred, call, run, seq, failed>>

\* raise_landed: the flag follows the bytes.
Raise(rd) ==
  /\ landed' = [landed EXCEPT ![rd.key] = rd.seq]
  /\ reads' = reads \ {rd}
  /\ UNCHANGED <<place, flight, stager, ring, deferred, call, run, seq>>

\* A reader is done with a record (NvmeSource has the reader itself).
ReadLands == \E rd \in reads :
  /\ mem' = [mem EXCEPT ![rd.cell] = rd.key] /\ UNCHANGED failed
  /\ Raise(rd)

\* Wrong: a failed read leaves its flag down.
ReadFailsSilent == \E rd \in reads :
  /\ Cardinality(failed) < Faults /\ failed' = failed \cup {rd.key}
  /\ reads' = reads \ {rd}
  /\ UNCHANGED <<place, flight, mem, landed, stager, ring, deferred, call, run, seq>>

\* A failed read raises its flag too: the stream must not wait for it.
ReadFails == \E rd \in reads :
  /\ Cardinality(failed) < Faults /\ failed' = failed \cup {rd.key} /\ UNCHANGED mem
  /\ Raise(rd)

\* The deferred-read thread comes to a job: cuEventSynchronize takes each event
\* as it was last recorded.
DeferSync ==
  /\ deferred # <<>> /\ ~Head(deferred).synced
  /\ deferred' = [deferred EXCEPT ![1].synced = TRUE,
                                  ![1].awaits = {ring.ev[e.entry] : e \in Head(deferred).events}]
  /\ UNCHANGED <<place, flight, mem, landed, stager, ring, reads, call, run, seq, failed>>

DeferSubmit ==
  LET j == Head(deferred) IN
  /\ deferred # <<>> /\ j.synced
  /\ \A id \in j.awaits : HasLanded(ring, id)
  /\ \A i \in DOMAIN stager : stager[i].op = "gate" => stager[i].seq # j.gate
  /\ deferred' = Tail(deferred)
  /\ reads' = reads \cup j.reads /\ mem' = Torn(mem, j.reads)
  /\ UNCHANGED <<place, flight, landed, stager, ring, call, run, seq, failed>>

\* What nobody reads again once the experts ran: staging, the landing, ring entries
\* whose write-back landed, arena slots without an owner.
Forgotten ==
  {c \in Cells : /\ \A k \in Keys : place[k] # c
                 /\ \A i \in DOMAIN ring.todo : Entry(ring.todo[i].entry) # c}

\* The compute stream: the batch's event has come, the experts read their records.
Run ==
  /\ run # NoRun /\ stager = <<>>
  /\ run' = NoRun
  /\ mem' = [c \in Cells |-> IF c \in Forgotten THEN None ELSE mem[c]]
  /\ UNCHANGED <<place, flight, landed, stager, ring, reads, deferred, call, seq, failed>>

Quiet == stager = <<>> /\ ring.todo = <<>> /\ reads = {} /\ deferred = <<>> /\ call = NoCall /\ run = NoRun

-----------------------------------------------------------------------------
\* Between two calls of a warm engine: the first n keys seeded, VRAM first.
Init ==
  /\ \E n \in Seeds :
       place = [k \in Keys |-> CASE k >= n -> Nvme
                                 [] k < n /\ k < VSlots -> Vram(k)
                                 [] OTHER -> Ram(k - VSlots)]
  /\ mem = [c \in Cells |-> IF \E k \in Keys : place[k] = c THEN CHOOSE k \in Keys : place[k] = c ELSE None]
  /\ flight = [k \in Keys |-> 0] /\ landed = [k \in Keys |-> 0]
  /\ stager = <<>> /\ ring \in {NoRing(n) : n \in Rings} /\ reads = {} /\ deferred = <<>>
  /\ call = NoCall /\ run = NoRun /\ seq = 0 /\ failed = {}

Selections == {S \in SUBSET Keys : S # {} /\ Cardinality(S) <= Picks}

Next ==
  \/ /\ call = NoCall /\ run = NoRun /\ seq < MaxCalls /\ DemandsDone
     /\ \E ids \in Selections, stale \in SUBSET Droppable, after \in [Keys -> Places] :
          Serve(ids, after, stale)
  \/ Fill
  \/ \E k \in Keys, q \in Rams : Guess(k, q)
  \/ Answer
  \/ StagerStep \/ RingStep \/ ReadLands \/ ReadFails
  \/ DeferSync \/ DeferSubmit \/ Run

Spec == Init /\ [][Next]_vars

\* The streams, the readers and the thread go on whenever they may; the host
\* finishes the call it queues.  Nothing forces another call.
FairSpec ==
  /\ Spec
  /\ WF_vars(Fill \/ Answer)
  /\ WF_vars(StagerStep) /\ WF_vars(RingStep) /\ WF_vars(ReadLands)
  /\ WF_vars(DeferSync \/ DeferSubmit) /\ WF_vars(Run)

-----------------------------------------------------------------------------
(* Properties.                                                               *)

\* The books stay books: one record per slot, flags never ahead of the calls,
\* every queued operation on cells that exist.
TypeOK ==
  /\ place \in [Keys -> Places] /\ OneEach(place)
  /\ mem \in [Cells -> Keys \cup {None}]
  /\ flight \in [Keys -> 0 .. MaxCalls] /\ landed \in [Keys -> 0 .. MaxCalls]
  /\ \E n \in Rings : ring.slot \in [0 .. n - 1 -> Rams \cup {None}] /\ ring.next \in 0 .. n - 1
  /\ \A r \in Entries(ring) : ring.ev[r] <= ring.issued
  /\ \A rd \in reads : rd.cell \in Cells /\ rd.seq \in 1 .. MaxCalls
  /\ \A i \in DOMAIN stager : stager[i].op \in {"copy", "out"} => {stager[i].from, stager[i].to} \subseteq Cells
  /\ DOMAIN run \subseteq Keys /\ seq \in 0 .. MaxCalls /\ failed \subseteq Keys

\* No write-back has had to take a busy entry (WbRing::waited, which the code
\* counts): the ring names every write-back under way.
NoneBusy == ring.waited = 0

\* Once a call's batch has run, every expert it selected reads its own record,
\* and nothing (a guessed read, a late write-back) changes it before the experts
\* ran, as long as no busy entry was taken.
ReadsExact == NoneBusy /\ run # NoRun /\ stager = <<>> =>
  \A k \in DOMAIN run \ failed : mem[run[k]] = k

\* Who reads behind a write-back waits for it, also when its ring entry was taken
\* while busy: a queued copy out of a pinned slot and the experts for every
\* write-back into that slot queued before them, a copy into a ring entry for the
\* write-backs out of it, an NVMe read for the write-backs the ring names.  And no
\* two reads write one cell.
ReadersWait ==
  LET started == {i \in DOMAIN ring.todo :
                    \A j \in DOMAIN stager : stager[j].op = "out" => stager[j].id # ring.todo[i].id}
      into    == {Ram(ring.todo[i].slot) : i \in started}
  IN
  /\ stager # <<>> /\ Head(stager).op = "copy" => Head(stager).from \notin into
  /\ stager # <<>> /\ Head(stager).op = "out" =>
       \A i \in started : Entry(ring.todo[i].entry) # Head(stager).to
  /\ stager = <<>> => \A k \in DOMAIN run : run[k] \notin into
  /\ \A rd \in reads : InRam(rd.cell) => Pending(ring, rd.cell.slot) = {}
  /\ \A a, b \in reads : a.cell = b.cell => a = b

\* glm5_tiers.rs, WbRing: "Every later reader of that pinned slot waits for the D2H:
\* [...] an NVMe write into the slot on the host".  Of every write-back, also one
\* whose entry was taken while busy: no read writes a slot it still goes into.
WritesAlone ==
  \A rd \in reads : \A i \in DOMAIN ring.todo : Ram(ring.todo[i].slot) # rd.cell

\* With nothing under way every slot the books give to an expert holds it; a
\* failed read spoils no record but its own.
Settled == Quiet => \A k \in Keys \ failed : place[k] # Nvme => mem[place[k]] = k

\* The books of the arena and of the ring, and what lies behind them once all is
\* through; the last as long as no busy entry was taken.
BooksSound == TypeOK /\ (NoneBusy => Settled)

\* A deferred read's event was recorded again before the thread was through with it.
Overtaken == \E i \in DOMAIN deferred : \E e \in deferred[i].events : ring.ev[e.entry] # e.id

\* Once the calls stop, all that is under way ends: the call is answered, its
\* experts run, every read, also one handed to the deferred-read thread, is done
\* (nvme_source.rs: a device waiting on a flag never waits for a read that will
\* not come), unless such a read waits for an event that was recorded again.
WorkEnds == []<>(Quiet \/ Overtaken)
=============================================================================
