# crow-nest in TLA+

A verification project for the crow-nest inference engine (Rust and CUDA): TLA+ modules of the
parts whose state outlives a request or runs beside it, TLC runs on small instances, and TLAPS
proofs for every value of the constants. Paths are relative to the repository; line numbers are
those of this commit. `PROJECT.json` lists the runs, the mutants that show each property can fail,
the source lines every definition stands for, the findings, the hazards and the theorems.

## 1. The system

`serve` (engine/src/bin/serve.rs) is an HTTP server around one GPU engine (engine/src/gen.rs). One
thread accepts a connection, runs the request to its end and accepts the next. What is hard is
therefore not two requests at once but

* state that survives a request: KV rows, recurrent state, snapshots, a parked conversation, a
  slot file. A request can stop at any prefill chunk, fail an allocation anywhere or end its answer
  at any token, and the next one starts from what it left;
* device work that outlives the call that queued it: two CUDA streams and two events order expert
  copies against the kernels that read the experts;
* memory the process gives away: VRAM lent to another process between requests;
* one thread that reads what others write without a lock (the decode watchdog).

A second engine family, GLM-5 (engine/src/glm5_*.rs), does run threads beside each other. Its
experts live in VRAM, pinned host RAM and a file on an NVMe drive, and while the GPU computes a row a
controller thread answers the device's requests for experts, a stager stream copies records, a
write-back stream empties VRAM slots, NVMe readers and a deferred-read thread fill slots from the
host, and a CPU thread computes some of the experts. What orders them is a handful of events, mapped
words and landed flags.

| component | state | operations | talks to | hard behaviour | correct when |
|---|---|---|---|---|---|
| prefix cache (cache.rs) | snapshot slots, the parked conversation with its stashed rows | decide, rollback, unpark, cold start (park, keep, drop), snapshot | engine rows, slot files, chat requests | long sequences of stops, divergence and parking | a held snapshot is the prefill of its ids; the cache never changes the output |
| engine (gen.rs, reset.rs) | position, history, KV rows, pooled blocks, recurrent state, logits row, decode graph | prefill chunk, decode step, MTP pass, reset | everything | decode rows differ from prefill rows; drafts overshoot | prefill continues only an exact state |
| slot files (slot.rs) | one file per name | save, restore | cache, engine | save after more decoding; failures in mid payload; restarts | the file is the prefill of its ids; a refusal changes nothing |
| chat requests (bin/serve.rs) | prompt, budget, stage | start, prefill, draw, finish, dropped request | cache, engine, trickle | stop and allocation failure anywhere | every request ends |
| expert trickle (residency.rs, gen.rs) | hot and pinned slots, spare slots, swaps in flight, parked batch | tick, issue, commit A and B, drain | two CUDA streams | copies overlap kernels that read the slots | the device table names exact bytes at every moment |
| VRAM lending (lend.rs, cuda.rs, bin/serve.rs) | gate, mapped regions, waiting requests | lend, return, retry, park, serve parked | accept loop, MTP weights, other processes | half-finished returns, deadlines, order | no request runs on memory that is away |
| decode watchdog (hostwait.rs) | row and wait slots (atomics), logged row | open, close, snapshot, check | decode thread, NVMe, CUDA waits | torn reads | reports are true and said once |
| expert arena (glm5_tiers.rs, GlobalArena) | owner of every VRAM and pinned slot, LRU, free list, reads in flight | call, guess, cancel, prompt mark, disable, enable, refill, reset | copy phases of a call, stager | victims under pins, guesses and elastic chunks | every move can be executed and the bytes follow the books |
| stager (glm5_tiers.rs, Stager) | ring of write-backs, landed flags, deferred reads, queued copies | a decode call's copies, guessed reads | arena, NVMe readers, compute stream | host, three streams, readers and a thread overlap | experts read their own record; all work ends |
| NVMe source (nvme_source.rs) | queues, tickets, landed flags | fetch, promote, cancel, wait, drop | stager | a cancel meets a reader that starts, failed reads, wakeups | a ticket completes once, a flag follows its bytes |
| controller (glm5_flags.rs, glm5_tiers.rs) | request ring, reply words, jobs, row ahead | queue a row, serve requests, decode, drop, fail | device kernels, stager, CPU lane | bounded device waits, rows queued ahead | an accepted answer is the head's on the ids held |
| prefill streams (gen.rs, kernels.rs) | ring of slabs, staging sets, tile plan | stage, multiply, copy ahead | four CUDA streams | copies run two layers or one group ahead | a multiplication reads its own experts |
| per-layer expert cache (expert_cache.rs) | tiers per layer | access, admit, demote, seed | residency | exclusivity, capacity | two-tier LRU is one LRU stack |
| adaptive draft length (gen.rs) | averages, depth | choose, observe | MTP | a depth is never tried again | depth in range, deeper chains are probed |
| rest of GLM-5 (batching, graphs, MTP) | slots, graphs, drafts | decode batches | controller | rows of several sequences in one pass | not modelled |
| boot and planner (boot.rs, manager.rs) | none after start | plan, refuse | all sizes | boundaries | pure function |
| parsers (toolcall.rs, toolgrammar.rs, stopstr.rs, tokenizer.rs) | held-back tail | push, flush | response stream | markers split over tokens | no byte lost or leaked |
| arithmetic (kernels, cpu_*, vit.rs, sample.rs) | none | kernels | engine | numeric | out of scope |
| offline tools (converter, oracle, probes, bins) | files | convert, measure | none | none concurrent | out of scope |

## 2. Modules

| module | what it is | lines of code it stands for |
|---|---|---|
| PrefixRules | the pure rules of cache.rs: reuse, forgetting, cold-start plan, claiming a slot | cache.rs 255-1118 |
| PrefixCache | engine + cache + slot file + request | gen.rs, reset.rs, cache.rs, slot.rs, bin/serve.rs |
| ColdEngine | abstract: an engine that keeps nothing between requests | docs/architecture.md 7.5 |
| PrefixCacheCold | PrefixCache refines ColdEngine; fairness | the same |
| Trickle | residency bookkeeping, tick, drain, two streams | residency.rs, gen.rs 6453-6611 |
| Lend | accept loop, gate, regions, clock | lend.rs, cuda.rs 1500-1735, bin/serve.rs |
| HostWait | every atomic access of the watchdog | hostwait.rs |
| ArenaMoves | which moves serve_global can execute; shared by the next two | glm5_tiers.rs 2433-2540 |
| GlobalArena | the arena's books and the bytes behind them, decision by decision | glm5_tiers.rs 1423-2540, 3254-3310, 3919-3979 |
| Stager | the copies of a decode call over streams, readers and threads | glm5_tiers.rs 2968-3239, 9389-10058 |
| NvmeSource | readers, queues, piece pool, tickets, flags | nvme_source.rs 391-1358 |
| PrefillRing | four streams of a grouped prefill | gen.rs 4229-4487, 5150-5322, 6613-6623, kernels.rs |
| Controller | controlled rows: host, device, controller thread, lane | glm5_flags.rs, glm5_tiers.rs 12561-12847 |
| MC* | constants and symmetry for TLC | |
| PrefixCacheCold_proofs, Lend_proofs, HostWait_proofs, GlobalArena_proofs, NvmeSource_proofs, Controller_proofs, Trickle_proofs, PrefillRing_proofs | theorems | |

Trickle, Stager, PrefillRing and Controller treat CUDA alike: a stream is a queue the host appends
to, its head runs when the event or word it waits for is there, streams interleave freely, and a wait
covers what was recorded when it was *called*.

### 2.1 PrefixCache

**Data.** The value of a device cell (KV row, pooled block, recurrent state, logits row) is the id
sequence whose *prefill* computed it, or `Junk`. Decode writes `Junk`: its kernels do not reproduce
prefill's bits, which is why the code never reuses a decode row as a prompt row (cache.rs:472). A
prefill chunk computed over a state that is not exact writes `Junk` too, so an error spreads as it
would on the device. All layers and heads are written alike and are one array; the one place where
heads matter (a row past the context falls into the next head, gen.rs:5586) is modelled as the
wrap-around it is. A slot with `pos = 0` is an empty slot: a snapshot follows at least one token.

**Actions.** `StartWarm`, `StartParked` and `StartCold` are the whole start of a request: decision
(`decide_mm`), rollback or unpark or the cold plan, forgetting, and the graph teardown.
`PrefillChunk` is one chunk with what may follow it in the code (next chunk, stop with snapshot,
head-anchor snapshot, end with snapshot). `PrefillNothing` is a prompt whose logits row came back
with the slot. `Restart` is the death of the process at any point and its next start; in the middle
of a save it leaves the old file or the new one (`LeftOnDisk`), because the save writes and syncs
another name before the rename. `DecodeStep` and `SpecPass` feed ids; `Finish` ends the answer anywhere; `AllocFail`
is `guarded`. `SaveSlot`, `RestoreFile`, `RestoreFails` and `Restart` are the slot routes and the
process. Which snapshot a request resumes from is deterministic in the model as in the code; what
clients send, when they stop and what is drawn is not.

**Bounds.** `MaxPrompt`, `MaxTokens`, `NCtx`, two ids. Two ids are enough for prompts to share a
prefix, diverge and return; `NCtx` 4 to 7 with chunk 2 gives stops inside a prompt, blocks that
complete in a prefill and in a decode, blocks that are cut by the park cap, and a full context.
Two or three slots make every claim rule fire (same position, empty, smallest live, smallest
parked). `ParkCap` 1 or 2 lies below the longest conversation so that stash and device rows both
matter. The id symmetry is not used with `AnchorOn` (`Turn` is one of the ids) nor for liveness.

### 2.2 Trickle

The host *enqueues*; each stream executes its queue in order at its own pace. A table flip, a
token's pass, a copy, an event record and an event wait are queue entries, and the host bookkeeping
moves when the code moves it, which is long before the device does. A copy takes two steps, between
which the target slot holds no expert. A pass stays in the queue while it runs, so it may read the
table and the slots at any moment before it is popped. Layers share nothing but the streams: one is
modelled. What a tick plans is any plan `plan_swaps` can return (the routing counts decide which).
Event generations wrap at four, more than are ever outstanding. `BooksSound` (its parts
`TypeOK`, `OneHome` and `PlanExecutable`) speaks of the host bookkeeping, `TableExact` of what the
device reads.

Bounds: four experts, two of them resident, two spares: two swaps in flight in different phases and
two-swap batches are possible. With and without MTP (`Modes`).

### 2.3 Lend

`loop` is the control point of the accept loop in `main`: what is due, one connection, the requests
that wait. Time is counted in seconds that pass anywhere, so a deadline or a retry may fall due
while a request runs, before it, or exactly at the poll. `held` is whether other processes leave
room: while it is set, mapping may be refused at *any* region, and the regions before it stay
mapped and zeroed. Bounds: four regions (two of one size, so that the order of release is tested),
four requests, ttls up to 3 s against a retry of 1 s so that the retry comes before and
after the deadline.

### 2.4 HostWait

One action per atomic access, interleaved in program order. The accesses are relaxed; on x86-64 the
writers' stores and the reader's loads keep their order, and nothing here stores and then loads
another location to decide something, so interleavings are what the build produces. The clock moves
at any moment and readings may be equal. Two threads share one kind of wait, which is what lets one
of them close a slot the other has opened over it; two rows let a snapshot straddle the end of one
and the start of the next, and a clock of three readings lets a row reach the limit, end, and be
followed by one that hangs.

### 2.5 ArenaMoves and GlobalArena

A call of `step` is a run of steps, one per expert it decides about (`Route`, `AdmitNext`,
`LandNext`), so that the invariants hold *between* the decisions of one call, where a victim is
chosen among slots the same call has just freed or filled. `Serve` then executes the moves in the
order of serve_global's phases; `mem` is the record in each slot. `ServableMoves` is the union of
what serve_global, serve_fill and write_back accept (they return an error or panic otherwise), and
Stager uses the same operator for "whatever the arena decided". The frequency tiers compare decayed
counts: either outcome is a step. `PolicySet` are the switches a boot may set; the run checks the
CLOCK and the unified tiers, the proofs hold for every set of them.

Bounds: two layers of two experts, two VRAM and two pinned slots, two picks. Four keys over four
slots and the NVMe let a call find every slot taken, routed or in flight; one elastic chunk holds
the last VRAM slot.

### 2.6 Stager

The host queues a call's copies: phase A into staging, write-backs into ring entries, NVMe reads into
landing or pinned slots, phase C out of staging. `Serve`, `Fill`, `Guess`, `Answer` are the points
between which the readers, the stager stream, the ring's stream and the deferred-read thread move.
A cell is `None` while a read is under way into it. What the arena decides is any servable move.
`Gated` is the deferral of a read into a slot phase A still copies from; `GuessWaits` that of a guess
into a slot with a write-back under way.

`ring.waited` is the counter WbRing keeps (glm5_tiers.rs:3032): write-backs that had to take an entry whose last
write-back had not landed. From there on the ring no longer names every write-back under way, and the
events it handed out may be recorded again. No action is held back from that; the properties say what they
cover. `ReadersWait` is what the code orders, and holds in every state. `ReadsExact` and the second half
of `BooksSound` hold as long as no busy entry was taken (`NoneBusy`): afterwards a write-back the ring has forgotten
may land over a record just read, which `ring_forgets` shows (`WritesAlone`, finding 4). `WorkEnds` says that all work
ends unless a deferred read holds an event that was recorded again (`Overtaken`), which takes no busy entry, a
landed one will do (finding 5).

Bounds: three experts, one VRAM and two pinned slots, rings of one and of two entries, two calls, two experts
resident at the start, one read may fail. One VRAM slot gives one write-back a call, so within two calls a ring of
one entry is taken a second time, landed or busy, and one of two entries has two write-backs under way at
once. `ring_forgets` needs no failing read.

### 2.7 NvmeSource

One module for the three backends (`Kinds`): a FIFO per reader, a high and a low queue per reader, and
the piece pool with its shared queues and low lanes. A thread takes, reads, finishes a record, and
reports; condition variables are modelled with who waits and who is woken, and nothing wakes by
itself. `Submit`, `Promote`, `Cancel` and `Close` come from other threads at any moment; promote and cancel
go by a record's flag, so they take any queued piece of a record, or the batch of one reader that is this
record alone, whatever else its fetch holds. Bounds: two threads, two fetches of up to two records of two
pieces, one failing read.

### 2.8 PrefillRing

A buffer holds the name of what was written to it: a plan, a slab, a tile group's experts. The host
queues a chunk's commands layer by layer with the events the code records and waits for; the
environment (`Builds`: staging mode, ring, low-bit tier) is fixed at start. Four layers use each half
of the ring twice, three groups return to the first staging set, two chunks let a decode-sized chunk
follow a grouped one and the reverse. `SoundBuilds` leaves out one combination (finding 7).
What the host queues in one go is a composition of calls on the driver's state (`PlanTiles`, `FillSet`,
`StageGroup`, `PfIssue`). The driver numbers the records of an event; a wait carries the number it has to
see, and none (0) when nothing was recorded.

### 2.9 Controller

Host, compute stream, controller thread, stager stream, NVMe landings and CPU lane. A request carries the
layer and its number; the ring has two entries, so a reader that falls behind finds its entry
overwritten. What a step of the device read is `ok` only if table, copies, landings and lane row
were those of its own request. The recurrent state is the sequence of ids it has seen and whether every
step was exact. Timeouts (1 s on the device, 30 s on the host), failed reads and failed launches are
faults, of which a run has `MaxFaults`; time itself is not modelled. Bounds: two layers, so that the
last layer of one row and the first of the next meet, two calls, one fault, and a launch queue of two
layers against `Ahead = 1`. Four of the eight settings are checked: early reply; early reply with the lookahead; early reply
with the lane; late reply with both. (All eight pass too: 1.3 M states, four minutes. The safety invariants also pass
with two faults: 3.1 M states; with liveness that takes longer than a run should.) The head of a
controlled row does not fail by itself: `ctl_check` (glm5_tiers.rs:12601) refuses graphs of a row, the
one place `run_head` could report an error from, and the id it returns is below the vocabulary. The two
early returns behind it (glm5_tiers.rs:12812) are therefore no action.

## 3. Runs

| run | asks | distinct states |
|---|---|---|
| cache | requests of two conversations, stops, failures, parking, head anchor: `TypeOK`, `LiveIntact`, `ParkedIntact`, `SlotsSound`, `PrefillFromExact`, `ParkSound`, `HeadOutlivesTurns`, and `ServesAsCold` (refinement of ColdEngine, with liveness) | 312 k |
| cache_file | save, restore, failed restore, deaths of the process, MTP passes: `LiveIntact`, `FileIntact`, `ServesAsCold` | 95 k |
| trickle | `BooksSound`, `TableExact`, `DrainSettles`, `SwapsReturn` | 780 k |
| lend | `EngineMemoryReady`, `GateSound`, `NobodyOvertakes`, and with fairness `ParkedServed` | 6 k |
| watchdog | `StampsSound`, `ReportsSound`, and with fairness `HangReported` | 1.3 M |
| arena | `TypeOK`, `Consistent`, `MovesServable`, `BytesFollow`, `LateReadsKeepSlot` | 2.9 M |
| stager | `ReadersWait`; `ReadsExact` and `BooksSound`, up to the first busy ring entry taken; with fairness `WorkEnds`, unless a deferred read's event is recorded again | 1.2 M |
| nvme | `FlagAfterBytes`, `TicketsSound`, and with fairness `TicketsDone` | 479 k |
| prefill_ring | `GemmsReadTheirs`, `BuffersSound` | 720 k |
| controller | `RowsSound`, `AnswersExact`, `NeverStarved`, and with fairness `CallsReturn` | 430 k |
| mtp_dirty, ring_forgets | the findings 1 and 4: `ParkedIntact` with drafts, `WritesAlone` of every write-back | a violation each |

The type invariant of a module is a conjunct of one of its properties (`BooksSound`, `GateSound`,
`StampsSound`, `TicketsSound`, `BuffersSound`, `RowsSound`) or a property of its own.

Deadlock is checked in cache, cache_file, trickle, lend, watchdog and arena. In trickle that is the
absence of an event cycle between the host and the two streams. Stager, NvmeSource, PrefillRing and
Controller stop when their bounded calls, fetches or chunks are used up; there `WorkEnds`,
`TicketsDone` and `CallsReturn` say that nothing hangs before, and PrefillRing has no liveness.

**Fairness.** PrefixCacheCold: weak fairness of the serving thread's own steps, because one thread
runs a request to its end and none of its steps waits for another actor. Lend: weak fairness of the
loop (it polls with a timeout while lent) and of the clock; clients owe nothing, and `ParkedServed`
states its one assumption on the other processes in the formula: from some moment on they leave the
card alone. HostWait: weak fairness of the watchdog and of the clock only; the decoding thread may
hang, since that is what is to be reported. Stager: weak fairness of the three streams (the driver runs what is
queued), of the readers, of the deferred-read thread and of a call the host has begun; no new call is
owed. NvmeSource: weak fairness of each thread; nobody owes a fetch, a cancel or a drop. Controller:
weak fairness of the host within a call, of the device, the controller thread, the stager stream, the
lane and the landings; faults are not fair. Trickle and PrefillRing need none: `SwapsReturn` is an
action property.

## 4. Findings

Findings 1 and 4 are checked by a run that must find the violation. The others were met while modelling; the
runs' constants or the property leave them out, and each can be seen by the change named.

1. **Rejected drafts are not counted as dirty rows** (`mtp_dirty`, cache.rs:738). With the MTP head
   and parking on, a verify pass writes the rows of all its drafts while only the kept ids enter
   `history`, the measure of the rows a request has written. A parked snapshot is then offered
   although one of its rows on the device was overwritten.
2. **A failed read leaves its expert resident** (glm5_tiers.rs:9718). The landed flag of
   a failed read is raised so that the device does not wait for ever, the error is reported once, to
   the next call, and the engine resets its layers' state; the arena keeps the expert in a slot that
   never received its record. The next call that selects it computes with those bytes, without an
   error, where glm5_tiers.rs:39 says that the bytes are the container's (`Settled` of Stager speaks of
   all keys but the failed ones; over all keys it fails with `Faults = 1`).
3. **A verify pass may write past the context** (gen.rs:5586). The budget of a request
   leaves no room for drafts below `n_ctx`; rows past it fall on the next head's first rows, below a held
   snapshot. The run cache_file keeps prompt, budget and drafts within `NCtx` (with NCtx = 5, ParkCap =
   0, FilesOn = FALSE, MaxPrompt = 3, MaxTokens = 2, Drafts = 2, `LiveIntact` fails in five states, against cache.rs:472-474).
4. **The write-back ring forgets a slot** (`ring_forgets`, glm5_tiers.rs:2983-2999). `RingBook::take`
   reuses an entry whose write-back has not landed; the entry then names the new slot only, and `pending`
   says nothing of the old one. The streams stay ordered (`ReadersWait`), but a read the *host*
   starts into the old slot does not wait, against glm5_tiers.rs:3021-3023. If the write-back ends last, the
   slot holds the evicted record under the name of the other expert.
5. **A deferred read may wait for the wrong write-back** (glm5_tiers.rs:9469). The event of
   a ring entry is recorded again when the entry is reused; `cuEventSynchronize` in the deferred-read
   thread then waits for the later write-back. If the call that queued it joins the guessed read the
   thread holds, the stager stream waits for the flag of that read, the write-back for the stager
   stream, the thread for the write-back. The first write-back may long have landed. Without `Overtaken`,
   `WorkEnds` fails in sixteen states. Findings 4 and 5 need the ring to come round within a call or two: 24
   entries by default, 0 to 256 by environment.
6. **A pool worker can sleep through the close** (nvme_source.rs:1244-1266). A worker
   that found low pieces but no free lane waits; a worker that finishes a low piece notifies one
   waiter, and only while low pieces are left. With three workers, one lane and two low pieces at the
   drop a worker sleeps for ever and `join` with it, against the comment in `Drop` that the workers drain
   both queues before they leave (`WorkersLeave` with Threads = 3, Fetches = 1, MaxRecs = 1, Pieces = 2,
   Kinds = {"pool"}, Lanes = {1}, Faults = 0). The engine settles its tickets before it drops the source.
7. **Low-bit cold tier with the default staging mode** (gen.rs:4396, kernels.rs:4106).
   With CROW_COLD_TIER the copy engine stands back (`res.lb.is_none()` is false) while the kernel, told
   CROW_PF_ASYNC=2, returns before it copies: nobody fills the staging slots, which docs/env.md:333
   describes as the diagnostic mode 3 (`Builds <- LowBitBuilds`: `GemmsReadTheirs` fails in twelve states).
   docs/env.md:66 keeps the tier off for `serve`.
8. **A refused restore is not always without effect** (slot.rs:699). A read error in the payload is
   answered 400 after the held conversation was dropped and rows were overwritten, where
   slot.rs:637 and bin/serve.rs:5767 promise an untouched engine. No snapshot is wrong afterwards
   (`LiveIntact` holds): the conversation is lost, not corrupted.
9. **A snapshot of the watchdog can be torn** (hostwait.rs:187). The position of a row is stored
   before its number, so the second read of the number does not catch every change. The effect
   is a wrong position in a log line; number, start and age are right (`ReportsSound`).
10. **Comments of the controller that the lookahead made untrue.** `decode_la` calls `enqueue_ctl`,
    and so `tiers.decode_ready()` (glm5_tiers.rs:12632), while the job of the row before runs,
    against the Safety note of `enqueue_ctl`. After `release_all` (glm5_flags.rs:1907, "no queued
    reply write lowers it again") the answer the stager stream writes for the next job does lower the word;
    the device then runs into its one-second limit, in rows whose answer is rejected anyway
    (`AnswersExact` holds). `NeverStarved` is therefore stated up to the first failed job.

## 5. Proofs

`PrefixCacheCold_proofs` begins with PrefixCache itself, theorem `TypeCorrect`: `Spec => []TypeOK` for every context length, chunk,
block size, slot count, park cap, draft depth and id set that satisfy `RulesAssumption` and
`CacheAssumption`. Besides types, `TypeOK` says that the position is the length of the history and
stays below `n_ctx` and that a slot file names fewer than `n_ctx` ids. The bound on the
position is inductive together with the bound on the prompt: a prefill ends at the prompt
(`PrefillEnd`), and decoding is bounded by the clamped budget (`MayFeed`), which is where `NCtx`
enters. `TypeOK` is its own inductive invariant apart from the facts about sequences and blocks,
which are lemmas at the top of the module (`PrefixOf`, `DivBound`, `BlockType`, `EmptyTypes`,
`ForgetTypes` ...), then one lemma per group of actions.

The rest of `PrefixCacheCold_proofs` proves what a held conversation is worth. `CacheInv` is the inductive
invariant: every live slot is exact up to its position (`LiveIntact`), the file is exact, the parked
slots' rows are in the stash below `park.rows` and still on the device above it while nobody wrote that
far (`ParkInv`), and a prefill stands on an exact state and a prefix of its request (`PhaseInv`).
`ParkedIntact` is not inductive by itself, because it speaks only of the slots the rule offers *now*;
`ParkInv` says it of every parked slot with the dirty mark as a condition. From it follow
`HeldIsWhole`, `ParkedIsWhole`, `FilesAreWhole` and `PrefillCorrect`, and with it
`NeverChangesTheOutput`: the initial state of PrefixCacheCold is one of ColdEngine and each of its
steps is a step of ColdEngine or a stutter, which is the safety half of `ServesAsCold`. These
theorems assume `DraftsHaveRoom`: nothing is asked of an engine without the MTP head; with it, parking is
off and the budget leaves the drafts room below `n_ctx`. Without that assumption the theorems are false,
and findings 1 and 3 are the two ways. The statements about slots and parks hold with drafts as
well and need the smaller `SlotsInv`: `SlotsCorrect`, and the action properties `ParkCorrect` and
`HeadCorrect`. `RulesAssumption` asks for two slots at least (the code has three, cache.rs:244): with one,
a snapshot would have to evict the head anchor.

`Lend_proofs`: for every set of regions, sizes, weights, ttls, targets and number of requests.
`EngineMemoryReady` (`MemoryReady`) alone is not inductive: the step
that lends or the one that serves a waiting request must know what the gate stands for. `LendInv`
adds that memory is away only behind a lent gate and that an engine request is inside the loop only
while the gate is not lent. Every action keeps it; the refused return (`ReturnKeepsGate`) is the
interesting one. `GateCorrect` adds the other direction, a lent gate means that a region is away: the
first region by size is released whatever the target is, since no bytes are released before it
(`BytesOfNone`). `InOrderOfArrival` proves the action property `NobodyOvertakes` from the order
of the parked requests, all of which arrived before the one on the wire.

`HostWait_proofs`: for every set of threads, number of rows, limit and length of the clock. `SlotIsLive`
needs that a stamp in the slot is the one its writer still holds, for every point between a
writer's two stores. `ReportsCorrect` is about piecemeal reads: `Intact` describes a snapshot none of whose
reads is of another row than its number says, `SnapInv` what such a snapshot proves even if rows begin and
end before it is judged, and `LoggedInv` that a row once reported cannot be reported again, because every
later row starts after the limit the first one was measured at (`LaterFrom`).

`NvmeSource_proofs`: for every set of threads, lanes, pieces, fetches and each backend. `SourceInv` follows
each piece: no two places (queue positions, threads) share one, a piece on its way is neither read nor
counted, and a flag is up exactly when every piece of its record was counted. That gives
`FlagsFollowBytes`; `TicketsCorrect` adds the counter `in_flight`. A queue is extended, shortened at
its head, or split by `promote` and `cancel` into the units picked and the others (`Picked`), so the
module first proves that picking keeps order, loses nothing and duplicates nothing.

`GlobalArena_proofs`: for every number of layers, experts, slots and picks, every set of policies
and every chunk plan that satisfy `GlobalArenaAssumption`, five invariants of the run `arena`
(`TypeCorrect`, `BooksConsistent`, `CallsServable`, `BytesFollowBooks`, `LateReadsSafe`), all from one
inductive invariant (`Invariance`). It adds to them

* `BookOK`, the relation between owners, places, LRU and free list with a *hole*: the keys whose slot
  is taken but not yet named while a decision is half made;
* `VramSide`, where the CLOCK hand, the pins and the disabled slots may be;
* `Loops`, what each of the loops inside a call has done so far (the experts routed are protected, the
  entrants are distinct and not routed twice);
* `Bytes`, what the slots hold relative to the places *before* the call, as long as its moves are not
  executed.

`MovesServable` is the hard one: a pinned slot freed by an admission and taken again by a demotion in
the same call must be read by phase A before phase B writes it, which needs the order of the three
lists. The lemmas on operators come first (`Unlink`, `Touch`, `Evict`, `RamInsert`, `Demote`), then
one lemma per action, then the theorems.

`Controller_proofs`, theorems `NobodyStarves`, `AnswersCorrect` and `RowsCorrect`: for every number of layers, calls and faults, every
setting, every lead of the host below the size of the launch queue. The first rests on `RowInv`, which relates the counters of four
actors: the layers in the stream are those queued and not run (`QueueInv`, a cardinality over the
stream's entries), the jobs cover the requests handed over (`JobsInv`), a serial answer still owed by the
stager stream is the next one (`Owed`), and, as long as no job failed, the reply word is at most one
behind the device and the thread is between the two (`PaceInv`). `Ctl::pace` then leaves at most
`Ahead` layers in the stream, less than the queue holds, so no launch blocks. The invariant also counts jobs
and results against where the host is (`RowsInv`), which is what an early return without its result would
break.

`AnswersExact` looks only at a host between two calls; what makes it true was queued one or two rows before.
`DataInv` (theorem `DataInvariance`) says it of every moment, in six parts:

* `StreamInv`: how the launches around a head lie in the stream: head, then the backup of the state, then the
  next row's input, then at most the layers of the row ahead; and whether the head has run (`marked`);
* `HandInv`: before the head has run, the row ahead's job has no result and its first request is not published, so
  the result the host takes first is that of the row in hand;
* `TokInv`: `Cur`, the ids the state will have seen when the launch at the front of the stream is done, and `Base`,
  what the backup will be, against the ids the host holds, for each place of the host; and the state is right
  (`kda.ok`) as long as no job failed;
* `StoreInv`: the numbers of the requests: nothing copied, landing or queued on the stager stream is of a request
  behind the one the thread has served (`Served`), and the stager's calls are in their order;
* `AnsInv`: whose table, copies and landing the device finds once the reply word is up, and `LaneInv`: the CPU lane
  holds the job of the device's request, or its row is ready, or there is neither. Both are said only while no job
  failed, and only between a publish and the end of its layer.

`StepExact` draws the conclusion: a step of a layer that need not wait reads what was made for its own request.
With `RowInv` the parts are inductive; the order of their proof is the order above, one lemma per action
or group of actions. `DropRestores` follows from `TokInv`, what is left between calls from the count of
jobs and results. The six parts were model-checked on the instance of the run `controller` with two calls before
they were proved, and once more after the proof had asked for one change: the lane's flag is never above the
requests answered, not only never above the device's own.

`Trickle_proofs`: for every number of experts, hot slots and spare slots, every plan a tick may make, both
settings of `Defer` and both modes. The module has two halves. The first is the host's books: `Kept`
says of one state `x` (`Now` is the current one) that every expert has one home (`Homes`), that phase A
of a swap in flight still finds what it planned (`Incoming`), that a spare slot is missing from the
list exactly from the issue of a swap to its return (`Free`), and that a parked batch can be issued
(`Planned`). A call of the serve thread is a composition of `Issue`, `LandSwaps`, `Park` and `Launch`,
so each of these gets its lemma, and `TickKept` and `DrainKept` put them together. That gives
`BooksCorrect`, `DrainCorrect` and `SwapsCorrect`. `BooksInv`, this half of the invariant, was
model-checked before it was proved.

The second half is `TableCorrect`. The queues hold commands whose effect lies in the future, and any
invariant on their text would have to describe every interleaving that is left. `FutureInv` names a
set `D` of devices (contents, compute queue, side queue) instead: the current one is in it, no step of a
stream leaves it (`Closed`), and each of its members has an exact table, ends its side queue with the
record the next landing waits for, has, once the record a parked batch will wait for is through, only
passes left, and has every copy in its place when both streams are done (`Landed`). The steps of
the GPU keep this by definition of `Closed`; the work is in the host's calls, each of which must build
the set for the longer queues out of the old one (`Leads`): `BehindClosed` appends one operation to the compute
stream, `BesideClosed` a batch to the side stream, `LandLeads` shows that behind its wait the flip meets only
devices whose copies are done, and `WorkingClosed` that the copies of a batch run into slots no
table entry names (`Jobs`, from the books). No argument about the reuse of event generations is needed:
a wait that also waits for an older record of the same name has fewer steps, not others.
`FutureInv` quantifies over sets of unbounded queues and cannot be evaluated by TLC; its consequence
`TableExact` is what the run checks.

`PrefillRing_proofs`: for every number of layers, tile groups and chunks, and every environment,
`BuffersCorrect`; with `GemmsCorrect`, every environment but the copy engine with the low-bit tier.
That hypothesis is `SoundBuilds`, the constant of the run: without it the theorem is false, and finding
7 is why. The invariant `RingInv` speaks of the text of the queues:

* `Before(d, s, i, t, j)`: position `i` of stream `s` is through before position `j` of stream `t` may
  run, because the stream is the same, because a record at or behind the first is waited for at or before
  the second (`Fenced`), or through both by way of the compute stream. Two such hops are never needed
  without the compute stream between them;
* `Ordered`: any two queued commands of which one writes what the other touches are ordered by `Before`;
* `AllSee`: the last command before a reader that changes a buffer leaves in it what the reader needs, or
  there is none and the buffer holds it already;
* `Numbered`: the records of an event stand on one stream, in the order of their numbers;
* `HostKnows`: for each place of the host's loop, what its next calls may count on: which staging,
  copies and plans the compute stream already waits for, and which slab, plan and slot set the next command
  of a stream would find.

A stream's step takes a head, and a head that may run has nothing before it (`FreeIsFirst`). So it found
what it needs (`FreeReads`), two heads do not clash (`FreeTogether`), and what is left stays
in order (`PopSound`, `PopKnows`). A call of the host appends: it keeps the invariant if the new command
is behind all it clashes with and finds what it needs (`Fits`, `CallSound`). What remains is one lemma
per group of calls (`PfIssueCalls`, `SlabCalls`, `PlanTilesCalls`, `StageGroupCalls`, `GemmCalls`,
`FilledCalls`), each of which shows which event of the code makes its command fit: for instance a slab
is copied into a half of the ring behind `ring_done` of that half, whose record stands behind the compute
stream's waits for the staging that read it (`ReleasedHalf`). `PfIssueCalls` is used twice, at the start of a chunk
with nothing queued (`Drained`: the host has waited for the compute stream, and that waits for the others) and
at the end of a layer.

Only model-checked: all liveness, with the fairness half of `ServesAsCold` (liveness and ENABLED are out
of the prover's reach), and the three invariants of Stager (`ReadersWait`, `ReadsExact`, `BooksSound`),
whose streams, readers and deferred-read thread would need the invariants of PrefillRing and of NvmeSource
together.

## 6. Not modelled

* Arithmetic, file and wire formats, logging, measurement tools: no state that another part's
  control depends on.
* Image spans of the reuse rule (`common_prefix_len_mm`): the text path only.
* `adapt_tick` / `swap_in`, the synchronous re-cut of the hot set: serve never calls it.
* A slot file's encoding and the refusals of its header: a torn file never exists under the file's
  name (`LeftOnDisk`), so only read errors after the checks are modelled (`RestoreFails`).
* Trickle and PrefillRing beside each other (the slab the ring copies is the pinned slots the trickle
  swaps): the drain between requests keeps them apart; the two streams are not composed.
* GlobalArena: the decayed counts, the per-layer tiers, the boot plan. Stager: prompt calls
  (serve_global_prompt), the tail of the early reply, the CPU lane's picks, the direct copy with
  CROW_GLM_ARENA_VRING=0. Controller: draft rows and batches, the second lane bit, the over-budget
  answer, generate_la (the same protocol as decode_la), errors of `tiers.settle`. PrefillRing: the
  diagnostic modes 3 and 4, hot experts. NvmeSource: alignment, unbuffered I/O, the submission
  queue of the ring backend, the counters but `in_flight`.
* GLM-5 batching, graphs and MTP; the per-layer expert cache, the parsers, the adaptive draft depth
  and the boot planner: on the plan.

The models of the CUDA streams (`ComputeWait` ... `CopyEnd`), of the clock and of refused mappings
stand for code outside the repository and are marked external in `PROJECT.json`.

## 7. Plan

In order; each step keeps every run above.

1. Stager proofs: the order of its queued copies as in `PrefillRing_proofs`, beside the readers' and the
   deferred-read thread's books.
2. Stager: that its `Serve` is what GlobalArena's calls do (the arena's places as a refinement
   mapping), then `ReadersWait` as a theorem.
3. GLM-5 batches: rows of several sequences through one controlled pass, and the scheduler of
   bin/serve.rs that forms them.
4. ExpertCache (two-tier LRU refines one LRU stack split at the VRAM capacity), AdaptiveK with
   abstract rates, and StreamFilter (the hold-back of stopstr.rs and toolcall.rs against a reference
   that sees the whole text).
