----------------------------- MODULE PrefillRing -----------------------------
(* The streams of a grouped prefill (engine/src/gen.rs, moe_run and            *)
(* prefill_until): the compute stream plans and multiplies, a staging stream   *)
(* copies the cold experts of one tile group into one of two slot sets ahead   *)
(* of the group's GEMMs (CROW_PF_ASYNC), a DMA stream copies whole cold slabs  *)
(* into a ring of two halves two layers ahead (CROW_PF_DMA), and a fourth      *)
(* stream stages a decode-sized chunk. Nothing but events orders them.         *)
(*                                                                             *)
(* The host queues commands; a stream runs its own in order, one at a time,    *)
(* and the four streams interleave freely. A record of an event counts when    *)
(* its stream reaches it; a wait covers the records queued before it was       *)
(* called, and none when there was none (cuda.rs, stream_wait_event).          *)
(*                                                                             *)
(* What a buffer holds is the name of what was written to it: the plan of a    *)
(* chunk and layer, the slab of a layer, the experts of a tile group.          *)
EXTENDS Integers, Sequences

CONSTANTS
    Layers,         \* decoder layers
    Groups,         \* tile groups a layer's plan may have (PF_MAX_GROUPS)
    Chunks,         \* chunks of the prompt
    Builds          \* the environments the process may have been started in

\* CROW_PF_ASYNC: 0 one stream, 1 the kernel copies on a side stream, 2 the copy
\* engine does; CROW_PF_DMA: the ring; CROW_COLD_TIER: the low-bit cold tier.
AllBuilds == [async : 0..2, ring : BOOLEAN, tier : {"exact", "low_bit"}]

ASSUME SizesAssumption ==
    /\ Layers \in Nat \ {0, 1}
    /\ Groups \in Nat \ {0}
    /\ Chunks \in Nat \ {0}
    /\ Builds \subseteq AllBuilds

VARIABLES
    build,      \* the environment of the process, one of Builds
    host,       \* where prefill_until is
    driver,     \* the streams' queues, and the records queued of each event
    fired,      \* the number of the last record each event has seen
    plan,       \* tiles and perm: the chunk and layer planned last
    ring,       \* the ring's halves
    slots,      \* the two slot sets
    eptr        \* the weight pointers of each tile group

vars == <<build, host, driver, fired, plan, ring, slots, eptr>>

Streams == {"compute", "stage", "dma", "fork"}

Half(i) == i % 2

\* One event per name and half (the plan, fork and join events use half 0).
EventNames == {"plan", "filled", "done", "ring_filled", "ring_done", "go", "joined"}
Events == EventNames \X {0, 1}

NoPlan == [chunk |-> -1, layer |-> -1]
PlanOf(chunk, layer) == [chunk |-> chunk, layer |-> layer]

\* What a slot set holds: a group's experts as a plan names them, copied from
\* the slab of a layer.
Experts(p, g, from) == [plan |-> p, group |-> g, from |-> from]

-----------------------------------------------------------------------------
(* Commands, and the driver's queues.                                          *)

Record(s, name, i) == [op |-> "record", on |-> s, event |-> <<name, i>>, upto |-> 0]
Wait(s, name, i) == [op |-> "wait", on |-> s, event |-> <<name, i>>, upto |-> 0]
Work(s, kind, l, g) ==
    [op |-> kind, on |-> s, chunk |-> host.chunk, layer |-> l, group |-> g,
     tiles |-> host.tiles]

\* What the driver does with one command: a record is the next of its event, a
\* wait takes the records so far.
Counted(d, c) ==
    IF c.op = "record" THEN [d.recorded EXCEPT ![c.event] = @ + 1] ELSE d.recorded

Queued(d, c) ==
    IF c.op \in {"record", "wait"} THEN [c EXCEPT !.upto = Counted(d, c)[c.event]] ELSE c

Called(d, c) ==
    [queue |-> [d.queue EXCEPT ![c.on] = Append(@, Queued(d, c))],
     recorded |-> Counted(d, c)]

CalledIf(b, d, c) == IF b THEN Called(d, c) ELSE d

\* Stream t waits for what stream s was given so far.
HandOver(d, name, s, t) == Called(Called(d, Record(s, name, 0)), Wait(t, name, 0))

-----------------------------------------------------------------------------
(* The host.                                                                   *)

SideStream == build.async >= 1
\* The copy engine stages: the host reads the plan and queues the copies.
CopyEngine == build.async = 2 /\ build.tier = "exact"
\* pf_dma_live: the ring serves grouped chunks only.
RingLive == build.ring /\ host.kind = "grouped"

\* The slot set of a group: one set when there is no side stream.
SetOf(g) == IF SideStream THEN Half(g) ELSE 0

\* pf_issue: the half is free once the layer that used it is done.
PfIssue(d, l) ==
    LET free == Called(d, Wait("dma", "ring_done", Half(l)))
        copied == Called(free, Work("dma", "copy", l, 0))
    IN  Called(copied, Record("dma", "ring_filled", Half(l)))

\* The start of a chunk. Its uploads wait for the compute stream (the legacy
\* stream: PrefixCache has the decode graph dropped before every prefill); the
\* ring's two halves are queued for the first two layers.
StartChunk(kind) ==
    /\ host.at = "chunk"
    /\ host.chunk < Chunks
    /\ driver.queue["compute"] = << >>
    /\ host' = [host EXCEPT !.at = "layer", !.kind = kind, !.layer = 0]
    /\ driver' = IF build.ring /\ kind = "grouped" THEN PfIssue(PfIssue(driver, 0), 1)
                                                  ELSE driver
    /\ UNCHANGED <<build, fired, plan, ring, slots, eptr>>

\* The plan of the layer's tiles; the staging stream waits for it.
PlanTiles(d) ==
    LET planned == Called(d, Work("compute", "plan", host.layer, 0))
    IN  IF SideStream THEN HandOver(planned, "plan", "compute", "stage") ELSE planned

\* Wrong: the layer does not wait for its half of the ring.
PlanLayerUnfilled ==
    /\ host.at = "layer"
    /\ host.kind = "grouped"
    /\ driver' = PlanTiles(driver)
    /\ host' = [host EXCEPT !.at = IF CopyEngine THEN "read_back" ELSE "groups",
                            !.group = 0, !.groups = Groups]
    /\ UNCHANGED <<build, fired, plan, ring, slots, eptr>>

\* A layer of a grouped chunk: the ring's half, then the plan of the tiles. A
\* host that does not read the plan takes the worst case for the groups.
PlanLayer ==
    /\ host.at = "layer"
    /\ host.kind = "grouped"
    /\ driver' = PlanTiles(CalledIf(RingLive, driver,
                                  Wait("compute", "ring_filled", Half(host.layer))))
    /\ host' = [host EXCEPT !.at = IF CopyEngine THEN "read_back" ELSE "groups",
                            !.group = 0, !.groups = Groups]
    /\ UNCHANGED <<build, fired, plan, ring, slots, eptr>>

\* The copy engine's plan: the host waits for the compute stream, reads the
\* tiles and how many groups hold any.
ReadBack(n) ==
    /\ host.at = "read_back"
    /\ driver.queue["compute"] = << >>
    /\ host' = [host EXCEPT !.at = "groups", !.groups = n, !.tiles = plan]
    /\ UNCHANGED <<build, driver, fired, plan, ring, slots, eptr>>

\* The copies of a group, and the event that tells the compute stream that the
\* set is filled.
FillSet(d, g) ==
    LET s == IF SideStream THEN "stage" ELSE "compute"
        copied == CalledIf(CopyEngine, d, Work(s, "memcpy", host.layer, g))
        staged == Called(copied, Work(s, "stage", host.layer, g))
    IN  CalledIf(SideStream, staged, Record(s, "filled", Half(g)))

\* Wrong: the copies of a group do not wait for the set's last GEMMs.
StageGroupAtOnce(d, g) == FillSet(d, g)

\* stage_group: on the side stream it waits for the set's last GEMMs.
StageGroup(d, g) ==
    FillSet(CalledIf(SideStream, d, Wait("stage", "done", Half(g))), g)

StageGroupIf(b, d, g) == IF b THEN StageGroup(d, g) ELSE d

\* One turn of the group loop: the next group's staging is queued before this
\* group's GEMMs.
GroupGemms ==
    LET g == host.group
        own == StageGroupIf(~SideStream \/ g = 0, driver, g)
        ahead == StageGroupIf(SideStream /\ g + 1 < host.groups, own, g + 1)
        filled == CalledIf(SideStream, ahead, Wait("compute", "filled", Half(g)))
        done == Called(filled, Work("compute", "gemm", host.layer, g))
    IN  /\ host.at = "groups"
        /\ g < host.groups
        /\ driver' = CalledIf(SideStream, done, Record("compute", "done", Half(g)))
        /\ host' = [host EXCEPT !.group = g + 1]
        /\ UNCHANGED <<build, fired, plan, ring, slots, eptr>>

NextLayer(h) ==
    IF h.layer + 1 < Layers
    THEN [h EXCEPT !.at = "layer", !.layer = @ + 1]
    ELSE [h EXCEPT !.at = "chunk", !.chunk = @ + 1]

\* The layer is queued: its half of the ring is released behind its GEMMs and
\* the slab two layers on is queued behind that.
LayerDone ==
    LET done == CalledIf(RingLive, driver, Record("compute", "ring_done", Half(host.layer)))
    IN  /\ host.at = "groups"
        /\ host.group = host.groups
        /\ driver' = IF RingLive /\ host.layer + 2 < Layers THEN PfIssue(done, host.layer + 2)
                                                         ELSE done
        /\ host' = NextLayer(host)
        /\ UNCHANGED <<build, fired, plan, ring, slots, eptr>>

\* A layer of a decode-sized chunk: the copy forks from the compute stream
\* (CROW_STAGE_PAR) and joins before the routed GEMV.
StagedLayer ==
    LET forked == HandOver(driver, "go", "compute", "fork")
        copied == Called(forked, Work("fork", "stage_cold", host.layer, 0))
        joined == HandOver(copied, "joined", "fork", "compute")
    IN  /\ host.at = "layer"
        /\ host.kind = "staged"
        /\ driver' = Called(joined, Work("compute", "gemv", host.layer, 0))
        /\ host' = NextLayer(host)
        /\ UNCHANGED <<build, fired, plan, ring, slots, eptr>>

-----------------------------------------------------------------------------
(* The streams.                                                                *)

Queue(s) == driver.queue[s]

\* The stream's next command may run.
Runnable(s) ==
    /\ Queue(s) # << >>
    /\ Head(Queue(s)).op = "wait" =>
           fired[Head(Queue(s)).event] >= Head(Queue(s)).upto

\* stage_tiles: it writes the group's pointers and copies its experts, from the
\* ring when it is there, else from the pinned slab. With CROW_PF_ASYNC 2 it
\* copies nothing.
StageKernel(w) ==
    /\ eptr' = [eptr EXCEPT ![w.group] = plan]
    /\ slots' = IF build.async = 2 THEN slots
                ELSE [slots EXCEPT ![SetOf(w.group)] =
                        Experts(plan, w.group,
                                IF build.ring THEN ring[Half(w.layer)] ELSE w.layer)]

\* The copy engine's copies of a group: the tiles are the host's.
CopyGroup(w) ==
    /\ slots' = [slots EXCEPT ![SetOf(w.group)] = Experts(w.tiles, w.group, w.layer)]
    /\ UNCHANGED eptr

\* The staging kernel of a decode-sized chunk fills the slots from the first on.
StageCold(w) ==
    /\ slots' = [i \in {0, 1} |-> Experts(PlanOf(w.chunk, w.layer), 0, w.layer)]
    /\ UNCHANGED eptr

Run(s) ==
    LET w == Head(Queue(s))
    IN  /\ Runnable(s)
        /\ driver' = [driver EXCEPT !.queue[s] = Tail(@)]
        /\ fired' = IF w.op = "record" THEN [fired EXCEPT ![w.event] = w.upto] ELSE fired
        /\ plan' = IF w.op = "plan" THEN PlanOf(w.chunk, w.layer) ELSE plan
        /\ ring' = IF w.op = "copy" THEN [ring EXCEPT ![Half(w.layer)] = w.layer] ELSE ring
        /\ CASE w.op = "stage" -> StageKernel(w)
             [] w.op = "memcpy" -> CopyGroup(w)
             [] w.op = "stage_cold" -> StageCold(w)
             [] OTHER -> UNCHANGED <<slots, eptr>>
        /\ UNCHANGED <<build, host>>

-----------------------------------------------------------------------------

Init ==
    /\ build \in Builds
    /\ host = [at |-> "chunk", chunk |-> 0, kind |-> "grouped", layer |-> 0,
               group |-> 0, groups |-> 0, tiles |-> NoPlan]
    /\ driver = [queue |-> [s \in Streams |-> << >>], recorded |-> [e \in Events |-> 0]]
    /\ fired = [e \in Events |-> 0]
    /\ plan = NoPlan
    /\ ring = [i \in {0, 1} |-> -1]
    /\ slots = [i \in {0, 1} |-> Experts(NoPlan, 0, -1)]
    /\ eptr = [g \in 0..(Groups - 1) |-> NoPlan]

HostStep ==
    \/ \E kind \in {"grouped", "staged"} : StartChunk(kind)
    \/ PlanLayer
    \/ \E n \in 1..Groups : ReadBack(n)
    \/ GroupGemms
    \/ LayerDone
    \/ StagedLayer

Next == HostStep \/ \E s \in Streams : Run(s)

Spec == Init /\ [][Next]_vars

-----------------------------------------------------------------------------
(* Properties.                                                                 *)

Plans == [chunk : -1..(Chunks - 1), layer : -1..(Layers - 1)]

\* The types; and an event never fires more often than it was recorded.
TypeOK ==
    /\ build \in Builds
    /\ host \in [at : {"chunk", "layer", "read_back", "groups"}, chunk : 0..Chunks,
                 kind : {"grouped", "staged"}, layer : 0..(Layers - 1),
                 group : 0..Groups, groups : 0..Groups, tiles : Plans]
    /\ \A e \in Events : fired[e] \in 0..driver.recorded[e]
    /\ plan \in Plans
    /\ ring \in [{0, 1} -> -1..(Layers - 1)]
    /\ slots \in [{0, 1} -> [plan : Plans, group : 0..(Groups - 1), from : -1..(Layers - 1)]]
    /\ eptr \in [0..(Groups - 1) -> Plans]

\* A routed multiplication that may run reads the experts of its own chunk,
\* layer and group, copied from its own layer's slab, and for as long as it may
\* run: no copy of a later group, layer or chunk comes before it (gen.rs,
\* moe_run's group loop with pa_ev_filled and pa_ev_done, pf_issue's ring).
GemmsReadTheirs ==
    Queue("compute") # << >> =>
        LET w == Head(Queue("compute"))
            own == PlanOf(w.chunk, w.layer)
        IN  /\ w.op = "gemm" =>
                /\ plan = own
                /\ eptr[w.group] = own
                /\ slots[SetOf(w.group)] = Experts(own, w.group, w.layer)
            /\ w.op = "gemv" =>
                \A i \in {0, 1} : slots[i] = Experts(own, 0, w.layer)

\* The buffers a command reads, and those it writes.
ThePlan == {<<"plan", 0>>}
InRing(w) == IF build.ring /\ build.async # 2 THEN {<<"ring", Half(w.layer)>>} ELSE {}
BothSets == {<<"set", 0>>, <<"set", 1>>}

ReadSet(w) ==
    CASE w.op = "stage" -> ThePlan \cup InRing(w)
      [] w.op = "gemm" -> ThePlan \cup {<<"set", SetOf(w.group)>>, <<"eptr", w.group>>}
      [] w.op = "gemv" -> BothSets
      [] OTHER -> {}

WriteSet(w) ==
    CASE w.op = "plan" -> ThePlan
      [] w.op = "copy" -> {<<"ring", Half(w.layer)>>}
      [] w.op = "stage" -> {<<"eptr", w.group>>, <<"set", SetOf(w.group)>>}
      [] w.op = "memcpy" -> {<<"set", SetOf(w.group)>>}
      [] w.op = "stage_cold" -> BothSets
      [] OTHER -> {}

\* Two commands of different streams that may run at the same time never touch
\* one buffer, unless both only read it: what a kernel reads is not rewritten
\* under it, and two copies never fill one slot set together. The events are
\* all that says so (gen.rs, moe_run, pf_issue, prefill_until).
NeverTogether ==
    \A s, t \in Streams : s # t /\ Runnable(s) /\ Runnable(t) =>
        LET v == Head(Queue(s))
            w == Head(Queue(t))
        IN  WriteSet(v) \cap (ReadSet(w) \cup WriteSet(w)) = {}

\* What the queues and events keep, whatever pace the streams take.
BuffersSound == TypeOK /\ NeverTogether

=============================================================================
