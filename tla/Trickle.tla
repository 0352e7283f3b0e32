------------------------------ MODULE Trickle ------------------------------
(* The stream-side trickle: between two tokens the engine moves experts of a *)
(* layer between its hot slots (VRAM) and its pinned slots (host RAM) while  *)
(* the GPU goes on computing.  The host thread only ENQUEUES work: pointer   *)
(* table uploads and token passes on the compute stream, copies on a side    *)
(* stream, and two events that order the streams against each other.  Each   *)
(* stream executes its queue in order and at its own pace.                   *)
(*                                                                           *)
(* A swap takes two ticks.  Phase A copies the incoming expert's pinned      *)
(* bytes into a spare hot slot; the next tick commits it (the table names    *)
(* the hot slot) and starts phase B, which copies the evicted expert's bytes *)
(* into the pinned slot just left; the tick after that commits B (the table  *)
(* names the pinned slot, the old hot slot is the new spare).                *)
(*                                                                           *)
(* One layer is modelled: every table, slot and swap belongs to one layer,   *)
(* and layers share nothing but the two streams.                             *)
EXTENDS Integers, Sequences, FiniteSets, SequencesExt

CONSTANTS
  Experts,    \* the layer's routed experts
  HotN,       \* hot experts of the layer (n)
  Spares,     \* spare hot slots (stride - n)
  Defer,      \* CROW_TRICKLE_DEFER: park a tick's copies for the next launch
  Modes,      \* how boots decode: MTP verify passes (TRUE), decode steps (FALSE)
  None        \* no expert in a hot slot (EMPTY), no pinned slot, no batch

ASSUME TrickleAssumption ==
  /\ IsFiniteSet(Experts)
  /\ HotN \in 1 .. Cardinality(Experts)
  /\ Spares \in Nat \ {0}
  /\ Defer \in BOOLEAN /\ Modes \subseteq BOOLEAN
  /\ None \notin Experts /\ None \notin Nat

HotSlots    == 0 .. HotN + Spares - 1
PinnedSlots == 0 .. Cardinality(Experts) - HotN - 1
Hot(s)      == <<"hot", s>>
Pinned(c)   == <<"pinned", c>>
Places      == {Hot(s) : s \in HotSlots} \cup {Pinned(c) : c \in PinnedSlots}

\* Event generations: a wait names the record it was enqueued after.  At most
\* three records of one event are ever outstanding, so four names suffice.
Gens == 0 .. 3

\* Enqueued work.
Flip(t)         == [op |-> "flip", table |-> t]
Pass            == [op |-> "pass"]
CopyTo(to, from) == [op |-> "copy", to |-> to, from |-> from]
Record(ev, g)   == [op |-> "record", ev |-> ev, gen |-> g]
WaitFor(ev, g)  == [op |-> "wait", ev |-> ev, gen |-> g]

VARIABLES
  host,       \* where the serve thread stands in the request
  res,        \* Residency: sets, cold_index, spare_free
  tr,         \* Trickle and the parked TrickleBatch: in_a, in_b, pend, events, mtp
  queue,      \* the two streams' enqueued work
  gpu         \* device pointer table, slot contents, what is executing

vars == <<host, res, tr, queue, gpu>>

\* The host's whole state, so that one call can be composed from others.
Now        == [res |-> res, tr |-> tr, queue |-> queue]
Becomes(x) == res' = x.res /\ tr' = x.tr /\ queue' = x.queue

Resident(r)     == {r.sets[s] : s \in HotSlots} \ {None}
SlotHolding(r, e) == CHOOSE s \in HotSlots : r.sets[s] = e

\* The pointer table the host bookkeeping describes: a resident expert's hot
\* slot, every other expert's pinned slot.
FillTable(r) ==
  [e \in Experts |-> IF e \in Resident(r) THEN Hot(SlotHolding(r, e))
                                          ELSE Pinned(r.cold[e])]

----------------------------------------------------------------------------
(* Issuing a parked batch on the side stream: it waits for the table flip    *)
(* of the tick that planned it, then phase B of the committed swaps, phase A *)
(* of the new ones, then the event the next tick waits for.                  *)

\* The new swaps of a batch, each with the spare slot it pops.
Started(r, news) ==
  [i \in 1 .. Len(news) |->
     [slot  |-> news[i].slot, evict |-> r.sets[news[i].slot],
      new   |-> news[i].new,  cs    |-> r.cold[news[i].new],
      spare |-> r.spare[Len(r.spare) + 1 - i]]]

CopyA(p) == CopyTo(Hot(p.spare), Pinned(p.cs))
CopyB(p) == CopyTo(Pinned(p.cs), Hot(p.slot))
CopiesA(swaps) == [i \in 1 .. Len(swaps) |-> CopyA(swaps[i])]
CopiesB(swaps) == [i \in 1 .. Len(swaps) |-> CopyB(swaps[i])]

\* Mutant: the side stream does not wait for the table flip.
IssueUnordered(x) ==
  IF x.tr.pend = None THEN x
  ELSE LET b   == x.tr.pend
           new == Started(x.res, b.newA)
           g   == (x.tr.sideGen + 1) % 4
       IN [res   |-> [x.res EXCEPT !.spare = SubSeq(@, 1, Len(@) - Len(new))],
           tr    |-> [x.tr EXCEPT !.pend = None, !.inB = b.toB,
                                  !.inA = @ \o new, !.sideGen = g],
           queue |-> [x.queue EXCEPT !.side =
                        @ \o CopiesB(b.toB) \o CopiesA(new) \o <<Record("side", g)>>]]

\* Mutant: the batch's returning swaps are not kept for commit B.
IssueForgetsB(x) ==
  IF x.tr.pend = None THEN x
  ELSE LET b   == x.tr.pend
           new == Started(x.res, b.newA)
           g   == (x.tr.sideGen + 1) % 4
       IN [res   |-> [x.res EXCEPT !.spare = SubSeq(@, 1, Len(@) - Len(new))],
           tr    |-> [x.tr EXCEPT !.pend = None, !.inA = @ \o new, !.sideGen = g],
           queue |-> [x.queue EXCEPT !.side =
                        @ \o <<WaitFor("commit", x.tr.commitGen)>>
                          \o CopiesB(b.toB) \o CopiesA(new)
                          \o <<Record("side", g)>>]]

Issue(x) ==
  IF x.tr.pend = None THEN x
  ELSE LET b   == x.tr.pend
           new == Started(x.res, b.newA)
           g   == (x.tr.sideGen + 1) % 4
       IN [res   |-> [x.res EXCEPT !.spare = SubSeq(@, 1, Len(@) - Len(new))],
           tr    |-> [x.tr EXCEPT !.pend = None, !.inB = b.toB,
                                  !.inA = @ \o new, !.sideGen = g],
           queue |-> [x.queue EXCEPT !.side =
                        @ \o <<WaitFor("commit", x.tr.commitGen)>>
                          \o CopiesB(b.toB) \o CopiesA(new)
                          \o <<Record("side", g)>>]]

----------------------------------------------------------------------------
(* A tick: commit what landed, plan new swaps, park the copies.              *)

\* Commit B: the evicted expert is cold again, its old slot is the new spare.
CommitB(r, done) ==
  [sets  |-> [s \in HotSlots |->
                IF \E p \in ToSet(done) : p.slot = s THEN None ELSE r.sets[s]],
   cold  |-> [e \in Experts |->
                IF \E p \in ToSet(done) : p.evict = e
                  THEN (CHOOSE p \in ToSet(done) : p.evict = e).cs
                  ELSE r.cold[e]],
   spare |-> r.spare \o [i \in 1 .. Len(done) |-> done[i].slot]]

\* Commit A: the incoming expert is resident in the spare slot; the evicted
\* one stays readable where it is until commit B.
CommitA(r, done) ==
  [sets  |-> [s \in HotSlots |->
                IF \E p \in ToSet(done) : p.spare = s
                  THEN (CHOOSE p \in ToSet(done) : p.spare = s).new
                  ELSE r.sets[s]],
   cold  |-> [e \in Experts |->
                IF \E p \in ToSet(done) : p.new = e THEN None ELSE r.cold[e]],
   spare |-> r.spare]

\* The compute stream waits for the side stream's copies, then flips the table.
LandSwaps(x) ==
  LET r == CommitA(CommitB(x.res, x.tr.inB), x.tr.inA)
  IN IF x.tr.inA = <<>> /\ x.tr.inB = <<>> THEN x
     ELSE [res   |-> r,
           tr    |-> [x.tr EXCEPT !.inA = <<>>, !.inB = <<>>],
           queue |-> [x.queue EXCEPT !.compute =
                        @ \o <<WaitFor("side", x.tr.sideGen), Flip(FillTable(r))>>]]

\* The slots a plan may evict from: occupied, and of no swap in flight.
Evictable(r, toB) ==
  {s \in HotSlots : r.sets[s] # None /\ \A p \in ToSet(toB) : s \notin {p.slot, p.spare}}

\* What plan_swaps can return: up to one absent expert per free spare slot,
\* against as many evictable residents.  The routing counts decide which.
Plans(r, toB) ==
  UNION {{news \in [1 .. k -> [slot : Evictable(r, toB), new : Experts \ Resident(r)]] :
            \A i, j \in 1 .. k : i # j => /\ news[i].slot # news[j].slot
                                          /\ news[i].new # news[j].new}
         : k \in 0 .. Len(r.spare)}

Park(x, toB, news) ==
  IF toB = <<>> /\ news = <<>> THEN x
  ELSE LET g == (x.tr.commitGen + 1) % 4
           y == [res   |-> x.res,
                 tr    |-> [x.tr EXCEPT !.pend = [toB |-> toB, newA |-> news], !.commitGen = g],
                 queue |-> [x.queue EXCEPT !.compute = Append(@, Record("commit", g))]]
       IN IF Defer THEN y ELSE Issue(y)

\* A tick that plans nothing.
QuietTick(x) == LET y == Issue(x) IN Park(LandSwaps(y), y.tr.inA, <<>>)

\* Mutant: one quiet tick.
DrainOnce(x) ==
  LET y == Issue(x)
  IN IF y.tr.inA = <<>> /\ y.tr.inB = <<>> THEN y ELSE Issue(QuietTick(y))

\* trickle_drain: two ticks without new plans commit whatever is in flight.
Drain(x) ==
  LET y == Issue(x)
  IN IF y.tr.inA = <<>> /\ y.tr.inB = <<>> THEN y
     ELSE Issue(QuietTick(Issue(QuietTick(y))))

----------------------------------------------------------------------------
(* The serve thread.  One request: a prefill, a first decode step, then a    *)
(* tick and a step per token, and a drain at the end.                        *)

\* The host computes a layer pass: kernels that read expert weights through
\* the pointer table of the compute stream.
Launch(x) == [x EXCEPT !.queue.compute = Append(@, Pass)]

Prefill ==
  /\ host = "idle" /\ queue.compute = <<>>
  /\ Becomes(Launch(Now))
  /\ host' = "prefill"
  /\ UNCHANGED gpu

PrefillDone ==
  /\ host = "prefill" /\ queue.compute = <<>>
  /\ host' = "step"
  /\ UNCHANGED <<res, tr, queue, gpu>>

\* decode_step: the parked copies go out behind the launch.
DecodeStep ==
  /\ host = "step" /\ ~tr.mtp
  /\ Becomes(Issue(Launch(Now)))
  /\ host' = "launched"
  /\ UNCHANGED gpu

\* spec_step: a verify pass, or a row of the last one; neither issues copies.
SpecStep ==
  /\ host = "step" /\ tr.mtp
  /\ \/ Becomes(Launch(Now))
     \/ Becomes(Now)
  /\ host' = "launched"
  /\ UNCHANGED gpu

\* The end-of-step sync waits for the compute stream only.
StepDone ==
  /\ host = "launched" /\ queue.compute = <<>>
  /\ host' = "between"
  /\ UNCHANGED <<res, tr, queue, gpu>>

\* Mutant: the tick plans before it commits what landed.
TickPlansFirst ==
  /\ host = "between"
  /\ LET x   == Issue(Now)
         toB == x.tr.inA
     IN \E news \in Plans(x.res, toB) : Becomes(Park(LandSwaps(x), toB, news))
  /\ host' = "step"
  /\ UNCHANGED gpu

Tick ==
  /\ host = "between"
  /\ LET x   == Issue(Now)
         toB == x.tr.inA
         y   == LandSwaps(x)
     IN \E news \in Plans(y.res, toB) : Becomes(Park(y, toB, news))
  /\ host' = "step"
  /\ UNCHANGED gpu

\* The request ends, after a step or (decode run at an EOS) after a tick; if
\* anything was in flight the drain waits for both streams.
EndRequest ==
  /\ host \in {"between", "step"}
  /\ Becomes(Drain(Now))
  /\ LET y == Issue(Now)
     IN host' = IF y.tr.inA = <<>> /\ y.tr.inB = <<>> THEN "idle" ELSE "draining"
  /\ UNCHANGED gpu

Drained ==
  /\ host = "draining" /\ queue.side = <<>> /\ queue.compute = <<>>
  /\ host' = "idle"
  /\ UNCHANGED <<res, tr, queue, gpu>>

\* A device allocation fails before the launch: guarded drops the request
\* without a drain, and reset_to_zero waits for the compute stream.
AllocFail ==
  /\ host \in {"prefill", "step"}
  /\ host' = "failed"
  /\ UNCHANGED <<res, tr, queue, gpu>>

ResetDone ==
  /\ host = "failed" /\ queue.compute = <<>>
  /\ host' = "idle"
  /\ UNCHANGED <<res, tr, queue, gpu>>

----------------------------------------------------------------------------
(* The GPU: each stream executes its queue in order.  A slot being written   *)
(* holds no expert until its copy is done.  A pass stays in the queue while  *)
(* it runs and reads through the table at any moment of that time.           *)

\* The record a wait names has executed: it is in no queue any more.
Reached(w) ==
  LET recorder == IF w.ev = "side" THEN queue.side ELSE queue.compute
  IN \A i \in 1 .. Len(recorder) : recorder[i] # Record(w.ev, w.gen)

ComputeHead(kind) == queue.compute # <<>> /\ Head(queue.compute).op = kind
SideHead(kind)    == queue.side # <<>> /\ Head(queue.side).op = kind
PopCompute == queue' = [queue EXCEPT !.compute = Tail(@)]
PopSide    == queue' = [queue EXCEPT !.side = Tail(@)]

ComputeWait == ComputeHead("wait") /\ Reached(Head(queue.compute)) /\ PopCompute /\ UNCHANGED gpu
ComputeRecord == ComputeHead("record") /\ PopCompute /\ UNCHANGED gpu
ComputeFlip ==
  /\ ComputeHead("flip") /\ PopCompute
  /\ gpu' = [gpu EXCEPT !.table = Head(queue.compute).table]
PassEnd == ComputeHead("pass") /\ PopCompute /\ UNCHANGED gpu

SideWait == SideHead("wait") /\ Reached(Head(queue.side)) /\ PopSide /\ UNCHANGED gpu
SideRecord == SideHead("record") /\ PopSide /\ UNCHANGED gpu
CopyStart ==
  /\ SideHead("copy") /\ ~gpu.copying
  /\ gpu' = [gpu EXCEPT !.copying = TRUE, !.slab[Head(queue.side).to] = None]
  /\ UNCHANGED queue
CopyEnd ==
  /\ SideHead("copy") /\ gpu.copying /\ PopSide
  /\ gpu' = [gpu EXCEPT !.copying = FALSE,
                        !.slab[Head(queue.side).to] = gpu.slab[Head(queue.side).from]]

ComputeStep == ComputeWait \/ ComputeRecord \/ ComputeFlip \/ PassEnd
SideStep    == SideWait \/ SideRecord \/ CopyStart \/ CopyEnd
GpuStep     == (ComputeStep \/ SideStep) /\ UNCHANGED <<host, res, tr>>

HostStep == \/ Prefill \/ PrefillDone \/ DecodeStep \/ SpecStep \/ StepDone
            \/ Tick \/ EndRequest \/ Drained \/ AllocFail \/ ResetDone

\* A boot has filled the hot slots from the hot set and the pinned slots with
\* every other expert, and uploaded the table.
Init ==
  /\ host = "idle"
  /\ \E order \in [1 .. Cardinality(Experts) -> Experts] :
       /\ \A i, j \in DOMAIN order : order[i] = order[j] => i = j
       /\ res = [sets  |-> [s \in HotSlots |-> IF s < HotN THEN order[s + 1] ELSE None],
                 cold  |-> [e \in Experts |->
                              IF \E c \in PinnedSlots : order[HotN + c + 1] = e
                                THEN CHOOSE c \in PinnedSlots : order[HotN + c + 1] = e
                                ELSE None],
                 spare |-> [i \in 1 .. Spares |-> HotN + i - 1]]
       /\ gpu = [table   |-> FillTable(res),
                 slab    |-> [p \in Places |->
                                IF p[1] = "pinned" THEN order[HotN + p[2] + 1]
                                ELSE IF p[2] < HotN THEN order[p[2] + 1] ELSE None],
                 copying |-> FALSE]
  /\ \E m \in Modes :
       tr = [inA |-> <<>>, inB |-> <<>>, pend |-> None, sideGen |-> 0, commitGen |-> 0,
             mtp |-> m]
  /\ queue = [compute |-> <<>>, side |-> <<>>]

Next == HostStep \/ GpuStep
Spec == Init /\ [][Next]_vars

----------------------------------------------------------------------------
(* Properties.                                                               *)

Swaps == [slot : HotSlots, evict : Experts, new : Experts,
          cs : PinnedSlots, spare : HotSlots]
Batches == [toB : Seq(Swaps), newA : Seq([slot : HotSlots, new : Experts])]

\* None also stands for the absence of a parked batch (Option::None).
ASSUME NoBatchAssumption == None \notin Batches

Tables == [Experts -> Places]
Ops == [op : {"pass"}] \cup [op : {"flip"}, table : Tables]
       \cup [op : {"copy"}, to : Places, from : Places]
       \cup [op : {"record", "wait"}, ev : {"side", "commit"}, gen : Gens]

\* What every field holds: the types of Residency, Trickle and TrickleBatch
\* (residency.rs, gen.rs), and never more free spare slots than were allocated.
TypeOK ==
  /\ host \in {"idle", "prefill", "step", "launched", "between", "draining", "failed"}
  /\ res \in [sets : [HotSlots -> Experts \cup {None}],
              cold : [Experts -> PinnedSlots \cup {None}], spare : Seq(HotSlots)]
  /\ tr \in [inA : Seq(Swaps), inB : Seq(Swaps), pend : Batches \cup {None},
             sideGen : Gens, commitGen : Gens, mtp : Modes]
  /\ queue \in [compute : Seq(Ops), side : Seq(Ops)]
  /\ gpu \in [table : Tables, slab : [Places -> Experts \cup {None}], copying : BOOLEAN]
  /\ Len(res.spare) <= Spares

\* The swaps between phase A's commit and phase B's: issued or still parked.
Returning == tr.inB \o (IF tr.pend = None THEN <<>> ELSE tr.pend.toB)
IsColdAt(c) == {e \in Experts : res.cold[e] = c}

\* The bookkeeping of residency.rs loses and duplicates nothing: every expert
\* is in one hot slot or in one pinned slot and never in both, no two experts
\* share a pinned slot, and a pinned slot nobody is in is the one a returning
\* swap will fill ("host RAM never grows").
OneHome ==
  /\ \A s, t \in HotSlots : res.sets[s] # None /\ res.sets[s] = res.sets[t] => s = t
  /\ \A e \in Experts : (e \in Resident(res)) = (res.cold[e] = None)
  /\ \A c \in PinnedSlots :
       Cardinality(IsColdAt(c)) + Cardinality({i \in DOMAIN Returning : Returning[i].cs = c}) = 1

\* None of the three expect/assert panics of swap_stream_a can fire: when a
\* parked batch is issued, each incoming expert is still cold, each slot it
\* evicts from still occupied, and a spare slot is free for each.
PlanExecutable ==
  tr.pend # None =>
    /\ Len(tr.pend.newA) <= Len(res.spare)
    /\ \A i \in DOMAIN tr.pend.newA :
         /\ res.cold[tr.pend.newA[i].new] # None
         /\ res.sets[tr.pend.newA[i].slot] # None

\* The host's books, whose moves run ahead of the device's: typed, one home per
\* expert, and every parked batch can still be issued, a token later, by whichever
\* step comes next.
BooksSound == TypeOK /\ OneHome /\ PlanExecutable

\* At every moment the device pointer table names, for every expert, a slot
\* that holds exactly that expert's bytes: no flip runs ahead of its copies
\* and no copy runs into a slot a pass may still be reading
\* (docs/architecture.md 7.5 condition 2: the tick moves where an expert is
\* read from, not what).
TableExact == \A e \in Experts : gpu.table[e] \in Places /\ gpu.slab[gpu.table[e]] = e

\* The assertion of trickle_drain: two ticks settle everything, and the layer
\* has its n residents and all its spare slots back.
DrainSettles ==
  host = "draining" =>
    /\ tr.inA = <<>> /\ tr.inB = <<>> /\ tr.pend = None
    /\ Cardinality(Resident(res)) = HotN
    /\ Len(res.spare) = Spares

\* A swap in flight is never lost: it leaves the books only when the expert it
\* evicts is back in the cold index, in the tick that says so, whether the
\* request goes on, ends, or failed with copies parked or issued.
Evicting(e) == \E p \in ToSet(tr.inA \o Returning) : p.evict = e

SwapsReturn ==
  [][\A e \in Experts : Evicting(e) /\ ~Evicting(e)' => res'.cold[e] # None]_vars

=============================================================================
