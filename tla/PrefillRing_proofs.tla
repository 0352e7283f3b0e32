------------------------- MODULE PrefillRing_proofs -------------------------
(***************************************************************************)
(* The prefill's four streams for any number of layers, groups and chunks: *)
(* no two commands that may run together clash in a buffer, and every GEMM *)
(* finds the plan and the experts of its own chunk, layer and group.       *)
(*                                                                         *)
(* The argument is one of order.  Before(d, s, i, t, j) says that the      *)
(* events put position i of stream s before position j of stream t.        *)
(* Ordered says that any two queued commands that may not run together are *)
(* so ordered, and AllSee that the last change of a buffer before each     *)
(* reader is the one it needs.  A stream's step takes a head, which        *)
(* nothing is before, so both facts stay; a call of the host appends, so   *)
(* both stay when the appended command is behind all it clashes with.      *)
(* HostKnows says what is behind what, at each place of the host's loop.   *)
(***************************************************************************)
EXTENDS PrefillRing, SequenceTheorems, TLAPS

----------------------------------------------------------------------------
(* Commands and buffers, of one environment u.                               *)

WorkOps  == {"plan", "copy", "stage", "memcpy", "stage_cold", "gemm", "gemv"}
Syncs    == [op : {"record", "wait"}, on : Streams, event : Events, upto : Nat]
Works    == [op : WorkOps, on : Streams, chunk : 0..(Chunks - 1), layer : 0..(Layers - 1),
             group : 0..(Groups - 1), tiles : Plans]
Commands == Syncs \cup Works
Devices  == [queue : [Streams -> Seq(Commands)], recorded : [Events -> Nat]]
Buffers  == ThePlan \cup ({"ring", "set"} \X {0, 1}) \cup ({"eptr"} \X (0..(Groups - 1)))

\* What the buffers hold: the plan p, the ring r, the slot sets s, the pointers e.
Memory(p, r, s, e) ==
  [b \in Buffers |-> CASE b[1] = "plan" -> p
                       [] b[1] = "ring" -> r[b[2]]
                       [] b[1] = "set"  -> s[b[2]]
                       [] b[1] = "eptr" -> e[b[2]]]

\* The environment without anybody to fill the slot sets (docs: CROW_PF_ASYNC=2
\* with the low-bit tier) is no part of what the values promise.
Fills(u) == ~(u.async = 2 /\ u.tier = "low_bit")
SetIn(u, g) == IF u.async >= 1 THEN Half(g) ELSE 0

Reads(u, w) ==
  CASE w.op = "stage" -> ThePlan \cup (IF u.ring /\ u.async # 2
                                       THEN {<<"ring", Half(w.layer)>>} ELSE {})
    [] w.op = "gemm"  -> ThePlan \cup {<<"set", SetIn(u, w.group)>>, <<"eptr", w.group>>}
    [] w.op = "gemv"  -> BothSets
    [] OTHER          -> {}

Writes(u, w) ==
  CASE w.op = "plan"       -> ThePlan
    [] w.op = "copy"       -> {<<"ring", Half(w.layer)>>}
    [] w.op = "stage"      -> {<<"eptr", w.group>>, <<"set", SetIn(u, w.group)>>}
    [] w.op = "memcpy"     -> {<<"set", SetIn(u, w.group)>>}
    [] w.op = "stage_cold" -> BothSets
    [] OTHER               -> {}

\* The buffers whose content a command changes, and those it must find right.
Puts(u, w) == IF w.op = "stage" /\ u.async = 2 THEN {<<"eptr", w.group>>} ELSE Writes(u, w)
Expects(u, w) == IF w.op = "gemm" /\ ~Fills(u) THEN ThePlan \cup {<<"eptr", w.group>>}
                                               ELSE Reads(u, w)

\* What a command leaves in a buffer it changes, and what it must find in one it
\* reads: the plan, the slab and the experts of its own chunk, layer and group.
Own(w) == PlanOf(w.chunk, w.layer)
Leaves(w, b) ==
  CASE w.op = "copy"       -> w.layer
    [] w.op = "memcpy"     -> Experts(w.tiles, w.group, w.layer)
    [] w.op = "stage_cold" -> Experts(Own(w), 0, w.layer)
    [] w.op = "stage" /\ b[1] = "set" -> Experts(Own(w), w.group, w.layer)
    [] OTHER               -> Own(w)
Needs(w, b) ==
  CASE b[1] = "ring" -> w.layer
    [] b[1] = "set"  -> Experts(Own(w), IF w.op = "gemv" THEN 0 ELSE w.group, w.layer)
    [] OTHER         -> Own(w)

\* Two commands that may not run together.
Clash(u, v, w) ==
  \/ \E b \in Writes(u, v) : b \in Reads(u, w) \/ b \in Writes(u, w)
  \/ \E b \in Writes(u, w) : b \in Reads(u, v)

----------------------------------------------------------------------------
(* What the events order.  A position is a stream and an index of its queue; *)
(* the index behind the last one stands for whatever is queued next.         *)

Size(d, s) == Len(d.queue[s])
NextPos(d, s) == Size(d, s) + 1
At(d, s, i) == d.queue[s][i]

Covers(r, w) == r.op = "record" /\ w.op = "wait" /\ r.event = w.event /\ r.upto <= w.upto

\* A record at or behind the first position is waited for up to the second.
Fenced(d, s, i, t, j) ==
  \E k \in 1..Size(d, s), n \in 1..Size(d, t) :
     i <= k /\ n <= j /\ Covers(At(d, s, k), At(d, t, n))

\* The first position is through before the second may run: the same stream, one
\* event, or two by way of the compute stream.
Before(d, s, i, t, j) ==
  \/ s = t /\ i < j
  \/ Fenced(d, s, i, t, j)
  \/ \E c \in 1..Size(d, "compute") : Fenced(d, s, i, "compute", c) /\ Fenced(d, "compute", c, t, j)

Behind(d, s, i, t) == Fenced(d, s, i, t, NextPos(d, t))

\* The records of an event are numbered in the order of their one stream.
HomeOf(e) == CASE e[1] \in {"filled"} -> "stage"
               [] e[1] \in {"ring_filled"} -> "dma"
               [] e[1] \in {"joined"} -> "fork"
               [] OTHER -> "compute"
Numbered(d, f) ==
  /\ \A e \in Events : f[e] <= d.recorded[e]
  /\ \A s \in Streams : \A i \in 1..Size(d, s) :
       At(d, s, i).op = "record" =>
         /\ HomeOf(At(d, s, i).event) = s
         /\ f[At(d, s, i).event] < At(d, s, i).upto
         /\ At(d, s, i).upto <= d.recorded[At(d, s, i).event]
  /\ \A s \in Streams : \A i, j \in 1..Size(d, s) :
       i < j /\ At(d, s, i).op = "record" /\ At(d, s, j).op = "record"
             /\ At(d, s, i).event = At(d, s, j).event
         => At(d, s, i).upto < At(d, s, j).upto

\* Any two queued commands that may not run together are ordered.
Ordered(u, d) ==
  \A s, t \in Streams : \A i \in 1..Size(d, s), j \in 1..Size(d, t) :
     s # t /\ Clash(u, At(d, s, i), At(d, t, j))
       => Before(d, s, i, t, j) \/ Before(d, t, j, s, i)

\* A command at the position finds v in b: the last command before it that
\* changes b leaves v there.
Sees(u, d, m, t, j, b, v) ==
  \/ /\ m[b] = v
     /\ \A s \in Streams : \A i \in 1..Size(d, s) :
          b \in Puts(u, At(d, s, i)) => Before(d, t, j, s, i)
  \/ \E s \in Streams : \E i \in 1..Size(d, s) :
       /\ b \in Puts(u, At(d, s, i))
       /\ Leaves(At(d, s, i), b) = v
       /\ Before(d, s, i, t, j)
       /\ \A p \in Streams : \A k \in 1..Size(d, p) :
            b \in Puts(u, At(d, p, k)) =>
              (p = s /\ k = i) \/ Before(d, p, k, s, i) \/ Before(d, t, j, p, k)

Finds(u, d, m, t, b, v) == Sees(u, d, m, t, NextPos(d, t), b, v)

AllSee(u, d, m) ==
  \A t \in Streams : \A j \in 1..Size(d, t) : \A b \in Expects(u, At(d, t, j)) :
     Sees(u, d, m, t, j, b, Needs(At(d, t, j), b))

Sound(u, d, f, m) ==
  /\ d \in Devices /\ f \in [Events -> Nat]
  /\ Numbered(d, f)
  /\ Ordered(u, d)
  /\ AllSee(u, d, m)

----------------------------------------------------------------------------
(* Where the host is, and what its next calls may count on.                  *)

Staging(w) == w.op \in {"stage", "memcpy"}

\* Which commands a chunk queues, and where.
Grouped(u, w, s) ==
  \/ w.op \in {"record", "wait"}
  \/ w.op \in {"plan", "gemm"} /\ s = "compute"
  \/ w.op = "stage" /\ s = (IF u.async >= 1 THEN "stage" ELSE "compute")
  \/ w.op = "memcpy" /\ s = "stage" /\ u.async = 2
  \/ w.op = "copy" /\ s = "dma" /\ u.ring
Staged(w, s) ==
  \/ w.op \in {"record", "wait"}
  \/ w.op = "gemv" /\ s = "compute"
  \/ w.op = "stage_cold" /\ s = "fork"

AllGrouped(u, d) == \A s \in Streams : \A i \in 1..Size(d, s) : Grouped(u, At(d, s, i), s)
AllStaged(d) == \A s \in Streams : \A i \in 1..Size(d, s) : Staged(At(d, s, i), s)

\* A record of e comes behind the position.
Marked(d, s, i, e) == \E k \in i..Size(d, s) : At(d, s, k).op = "record" /\ At(d, s, k).event = e

FillsMarked(d) ==
  \A i \in 1..Size(d, "stage") :
     Staging(At(d, "stage", i)) => Marked(d, "stage", i, <<"filled", Half(At(d, "stage", i).group)>>)
GemmsMarked(d) ==
  \A i \in 1..Size(d, "compute") :
     At(d, "compute", i).op = "gemm"
       => Marked(d, "compute", i, <<"done", Half(At(d, "compute", i).group)>>)
CopiesMarked(d) ==
  \A i \in 1..Size(d, "dma") :
     At(d, "dma", i).op = "copy"
       => Marked(d, "dma", i, <<"ring_filled", Half(At(d, "dma", i).layer)>>)

\* Staging of the halves in H, copies of the layers below n, and all plans, that
\* the compute stream (the staging stream) already waits for.
FillsBehind(d, H) ==
  \A i \in 1..Size(d, "stage") :
     Staging(At(d, "stage", i)) /\ Half(At(d, "stage", i).group) \in H
       => Behind(d, "stage", i, "compute")
CopiesBehind(d, n) ==
  \A i \in 1..Size(d, "dma") :
     At(d, "dma", i).op = "copy" /\ At(d, "dma", i).layer < n => Behind(d, "dma", i, "compute")
CopiesFirst(d, n) ==
  \A i \in 1..Size(d, "dma") :
     At(d, "dma", i).op = "copy" /\ At(d, "dma", i).layer < n
       => Before(d, "dma", i, "stage", NextPos(d, "stage"))
CopiesBelow(d, n) ==
  \A i \in 1..Size(d, "dma") : At(d, "dma", i).op = "copy" => At(d, "dma", i).layer < n
PlansBehind(d) ==
  \A i \in 1..Size(d, "compute") :
     At(d, "compute", i).op = "plan" => Behind(d, "compute", i, "stage")
ColdBehind(d) ==
  \A i \in 1..Size(d, "fork") :
     At(d, "fork", i).op = "stage_cold" => Behind(d, "fork", i, "compute")

OwnPlan(h) == PlanOf(h.chunk, h.layer)
ThePlanBuffer == <<"plan", 0>>

\* The slab of layer l is the next the ring's DMA stream leaves in its half.
RingHas(u, d, m, t, l) == Finds(u, d, m, t, <<"ring", Half(l)>>, l)
SetHas(u, d, m, t, h, g) ==
  /\ Fills(u) => Finds(u, d, m, t, <<"set", SetIn(u, g)>>, Experts(OwnPlan(h), g, h.layer))
  /\ Finds(u, d, m, t, <<"eptr", g>>, OwnPlan(h))

\* Whatever a grouped chunk is doing.
Grouping(u, d) ==
  /\ AllGrouped(u, d)
  /\ u.async >= 1 => FillsMarked(d) /\ GemmsMarked(d)
  /\ CopiesMarked(d)

\* Between two chunks: the compute stream waits for all that was queued.
AtChunk(d) == FillsBehind(d, {0, 1}) /\ CopiesBehind(d, Layers)

\* Before a layer's plan: the ring's DMA stream has its slab and the next one.
AtLayer(u, d, m, h) ==
  /\ FillsBehind(d, {0, 1})
  /\ CopiesBehind(d, h.layer) /\ CopiesBelow(d, h.layer + 2)
  /\ u.ring => RingHas(u, d, m, "dma", h.layer)
  /\ u.ring /\ h.layer + 1 < Layers => RingHas(u, d, m, "dma", h.layer + 1)

\* With the plan queued: both streams find it and the layer's slab.
Planned(u, d, m, h) ==
  /\ CopiesBehind(d, h.layer + 1) /\ CopiesBelow(d, h.layer + 2)
  /\ Finds(u, d, m, "compute", ThePlanBuffer, OwnPlan(h))
  /\ u.ring => RingHas(u, d, m, "compute", h.layer)
  /\ u.ring /\ h.layer + 1 < Layers => RingHas(u, d, m, "dma", h.layer + 1)
  /\ u.async >= 1 =>
       /\ PlansBehind(d)
       /\ CopiesFirst(d, h.layer + 1)
       /\ Finds(u, d, m, "stage", ThePlanBuffer, OwnPlan(h))
       /\ u.ring => RingHas(u, d, m, "stage", h.layer)

\* In the group loop: the group staged ahead is all the compute stream does not
\* wait for yet.
Ahead(h) == 0 < h.group /\ h.group < h.groups
AtGroups(u, d, m, h) ==
  /\ FillsBehind(d, IF Ahead(h) THEN {0, 1} \ {Half(h.group)} ELSE {0, 1})
  /\ u.async >= 1 /\ Ahead(h) => SetHas(u, d, m, "stage", h, h.group)
  /\ u.async = 2 /\ u.tier = "exact" => h.tiles = OwnPlan(h)

Hosts == [at : {"chunk", "layer", "read_back", "groups"}, chunk : 0..Chunks,
          kind : {"grouped", "staged"}, layer : 0..(Layers - 1),
          group : 0..Groups, groups : 0..Groups, tiles : Plans]

HostKnows(u, d, m, h) ==
  /\ h \in Hosts
  /\ h.at # "chunk" => h.chunk < Chunks
  /\ h.at = "read_back" => u.async = 2 /\ u.tier = "exact" /\ h.kind = "grouped" /\ h.group = 0
  /\ h.at = "groups" => h.group <= h.groups /\ h.kind = "grouped"
  /\ h.kind = "grouped" =>
       /\ Grouping(u, d)
       /\ h.at = "chunk" => AtChunk(d)
       /\ h.at = "layer" => AtLayer(u, d, m, h)
       /\ h.at = "read_back" => Planned(u, d, m, h) /\ FillsBehind(d, {0, 1})
       /\ h.at = "groups" => Planned(u, d, m, h) /\ AtGroups(u, d, m, h)
  /\ h.kind = "staged" => AllStaged(d) /\ ColdBehind(d)

Content == Memory(plan, ring, slots, eptr)
RingInv ==
  /\ build \in Builds
  /\ plan \in Plans
  /\ ring \in [{0, 1} -> -1..(Layers - 1)]
  /\ slots \in [{0, 1} -> [plan : Plans, group : 0..(Groups - 1), from : -1..(Layers - 1)]]
  /\ eptr \in [0..(Groups - 1) -> Plans]
  /\ Sound(build, driver, fired, Content)
  /\ HostKnows(build, driver, Content, host)
----------------------------------------------------------------------------
(* Queues, and what one command appended to them changes.                    *)

\* The constants are the sizes the module assumes.
LEMMA Sizes ==
  /\ Layers \in Nat /\ Layers >= 2 /\ Groups \in Nat /\ Groups >= 1 /\ Chunks \in Nat /\ Chunks >= 1
  /\ Builds \subseteq AllBuilds
  BY SizesAssumption

\* Neighbours are of different halves, every second of the same.
LEMMA Halves ==
  ASSUME NEW n \in Nat
  PROVE  Half(n) \in {0, 1} /\ Half(n + 1) # Half(n) /\ Half(n + 2) = Half(n)
  BY SMT DEF Half

\* Of two layers less than two apart with the same half of the ring, the earlier
\* is at most the later.
LEMMA HalfOfNext ==
  ASSUME NEW a \in Nat, NEW b \in Nat, Half(a) = Half(b), a < b + 2
  PROVE  a < b + 1
<1>1. CASE a = b + 1
  BY <1>1, Halves
<1> QED BY <1>1

\* A queue has a length, and holds commands.
LEMMA Positions ==
  ASSUME NEW d \in Devices, NEW s \in Streams
  PROVE  /\ Size(d, s) \in Nat /\ NextPos(d, s) = Size(d, s) + 1
         /\ \A i \in 1..Size(d, s) : At(d, s, i) \in Commands
<1>1. d.queue[s] \in Seq(Commands)
  BY DEF Devices
<1> QED BY <1>1, LenProperties, ElementOfSeq DEF Size, NextPos, At

\* A call of the driver (cudaMemcpyAsync, cudaLaunchKernel, cudaEventRecord) adds
\* one command at the end of one queue and moves nothing.
LEMMA CallAppends ==
  ASSUME NEW d \in Devices, NEW c \in Commands
  PROVE  LET y == Called(d, c)
         IN  /\ y \in Devices
             /\ \A s \in Streams : s # c.on => Size(y, s) = Size(d, s)
             /\ Size(y, c.on) = Size(d, c.on) + 1
             /\ \A s \in Streams : \A i \in 1..Size(d, s) : At(y, s, i) = At(d, s, i)
             /\ At(y, c.on, Size(y, c.on)) = Queued(d, c)
             /\ y.recorded = Counted(d, c)
             /\ Queued(d, c) \in Commands
<1> DEFINE y == Called(d, c)
           q == Queued(d, c)
           r == Counted(d, c)
<1>0. /\ c.on \in Streams
      /\ c.op \in {"record", "wait"} => c \in Syncs
      /\ d.recorded \in [Events -> Nat] /\ d.queue \in [Streams -> Seq(Commands)]
  BY DEF Commands, Syncs, Works, WorkOps, Devices
<1>1. r \in [Events -> Nat]
  BY <1>0 DEF Syncs, Counted
<1>2. q \in Commands
  <2>1. CASE c.op \in {"record", "wait"}
    <3>1. q = [c EXCEPT !.upto = r[c.event]]
      BY <2>1 DEF Queued
    <3>2. c \in Syncs /\ r[c.event] \in Nat
      BY <1>0, <1>1, <2>1 DEF Syncs
    <3> HIDE DEF q, r
    <3> QED BY <3>1, <3>2 DEF Syncs, Commands
  <2>2. CASE c.op \notin {"record", "wait"}
    BY <2>2 DEF Queued
  <2> QED BY <2>1, <2>2
<1>4. y = [queue |-> [d.queue EXCEPT ![c.on] = Append(@, q)], recorded |-> r]
  BY DEF Called
<1> HIDE DEF y, q, r
<1>5. /\ d.queue[c.on] \in Seq(Commands)
      /\ Append(d.queue[c.on], q) \in Seq(Commands)
      /\ Len(Append(d.queue[c.on], q)) = Len(d.queue[c.on]) + 1
      /\ \A i \in 1..Len(d.queue[c.on]) : Append(d.queue[c.on], q)[i] = d.queue[c.on][i]
      /\ Append(d.queue[c.on], q)[Len(d.queue[c.on]) + 1] = q
  BY <1>0, <1>2, AppendProperties
<1>6. y \in Devices
  BY <1>0, <1>1, <1>4, <1>5 DEF Devices
<1>7. \A s \in Streams : s # c.on => y.queue[s] = d.queue[s]
  BY <1>0, <1>4
<1>8. y.queue[c.on] = Append(d.queue[c.on], q)
  BY <1>0, <1>4
<1>9. \A s \in Streams : s # c.on => Size(y, s) = Size(d, s)
  BY <1>7 DEF Size
<1>10. Size(y, c.on) = Size(d, c.on) + 1
  BY <1>5, <1>8 DEF Size
<1>11. \A s \in Streams : \A i \in 1..Size(d, s) : At(y, s, i) = At(d, s, i)
  BY <1>5, <1>7, <1>8 DEF Size, At
<1>12. At(y, c.on, Size(y, c.on)) = q
  BY <1>5, <1>8, <1>10 DEF Size, At
<1>13. y.recorded = r
  BY <1>4
<1> QED BY <1>2, <1>6, <1>9, <1>10, <1>11, <1>12, <1>13 DEF y, q, r

\* The queues of d, and behind them those of y.
Grows(d, y) ==
  /\ d \in Devices /\ y \in Devices
  /\ \A s \in Streams : /\ Size(d, s) <= Size(y, s)
                        /\ \A i \in 1..Size(d, s) : At(y, s, i) = At(d, s, i)

\* A call of the driver only appends.
LEMMA CallGrows ==
  ASSUME NEW d \in Devices, NEW c \in Commands
  PROVE  Grows(d, Called(d, c))
<1> DEFINE y == Called(d, c)
<1>1. \A s \in Streams : Size(d, s) \in Nat
  BY Positions
<1>2. /\ y \in Devices
      /\ \A s \in Streams : s # c.on => Size(y, s) = Size(d, s)
      /\ Size(y, c.on) = Size(d, c.on) + 1
      /\ \A s \in Streams : \A i \in 1..Size(d, s) : At(y, s, i) = At(d, s, i)
  BY CallAppends
<1> HIDE DEF y
<1>3. \A s \in Streams : Size(d, s) <= Size(y, s)
  BY <1>1, <1>2
<1>4. Grows(d, y)
  BY <1>2, <1>3 DEF Grows
<1> QED BY <1>4 DEF y

\* A record and the wait that covers it stay where they are when the driver is
\* called again.
LEMMA FencedGrows ==
  ASSUME NEW d, NEW y, Grows(d, y), NEW s \in Streams, NEW t \in Streams,
         NEW i \in Nat, NEW j \in Nat, NEW n \in Nat, j <= n, Fenced(d, s, i, t, j)
  PROVE  Fenced(y, s, i, t, n)
<1>1. PICK k \in 1..Size(d, s), l \in 1..Size(d, t) :
        i <= k /\ l <= j /\ Covers(At(d, s, k), At(d, t, l))
  BY DEF Fenced
<1>2. /\ Size(d, s) \in Nat /\ Size(d, t) \in Nat /\ Size(y, s) \in Nat /\ Size(y, t) \in Nat
      /\ Size(d, s) <= Size(y, s) /\ Size(d, t) <= Size(y, t)
  BY Positions DEF Grows
<1>3. k \in 1..Size(y, s) /\ l \in 1..Size(y, t) /\ l <= n
  BY <1>1, <1>2
<1>4. At(y, s, k) = At(d, s, k) /\ At(y, t, l) = At(d, t, l)
  BY <1>1 DEF Grows
<1> QED BY <1>1, <1>3, <1>4 DEF Fenced

\* Nor does a later call undo an order the events give.
LEMMA BeforeGrows ==
  ASSUME NEW d, NEW y, Grows(d, y), NEW s \in Streams, NEW t \in Streams,
         NEW i \in Nat, NEW j \in Nat, NEW n \in Nat, j <= n, Before(d, s, i, t, j)
  PROVE  Before(y, s, i, t, n)
<1>1. CASE s = t /\ i < j
  BY <1>1 DEF Before
<1>2. CASE Fenced(d, s, i, t, j)
  BY <1>2, FencedGrows DEF Before
<1>3. ASSUME NEW c \in 1..Size(d, "compute"),
             Fenced(d, s, i, "compute", c), Fenced(d, "compute", c, t, j)
      PROVE  Before(y, s, i, t, n)
  <2>1. "compute" \in Streams /\ c \in Nat /\ c \in 1..Size(y, "compute")
    BY Positions DEF Grows, Streams
  <2>2. Fenced(y, s, i, "compute", c) /\ Fenced(y, "compute", c, t, n)
    BY <1>3, <2>1, FencedGrows
  <2> QED BY <2>1, <2>2 DEF Before
<1> QED BY <1>1, <1>2, <1>3 DEF Before

\* Nothing queued is behind what is not queued yet.
LEMMA EndIsLast ==
  ASSUME NEW d \in Devices, NEW s \in Streams, NEW t \in Streams,
         NEW i \in 1..Size(d, s), Before(d, t, NextPos(d, t), s, i)
  PROVE  FALSE
<1>1. Size(d, s) \in Nat /\ Size(d, t) \in Nat /\ NextPos(d, t) = Size(d, t) + 1
  BY Positions
<1> QED BY <1>1 DEF Before, Fenced

\* A position sees what it saw when what is new changes the buffer only behind it.
LEMMA SeesGrows ==
  ASSUME NEW u, NEW m, NEW d, NEW y, Grows(d, y), NEW t \in Streams, NEW j \in Nat, NEW n \in Nat,
         NEW b, NEW v, Sees(u, d, m, t, j, b, v),
         n = j \/ (j = NextPos(d, t) /\ j <= n),
         \A s \in Streams : \A i \in 1..Size(y, s) :
           b \in Puts(u, At(y, s, i)) => i <= Size(d, s) \/ Before(y, t, n, s, i)
  PROVE  Sees(u, y, m, t, n, b, v)
<1>0. \A s \in Streams : Size(d, s) \in Nat /\ Size(y, s) \in Nat
  BY Positions DEF Grows
<1>1. \A s \in Streams : \A i \in 1..Size(y, s) :
        i <= Size(d, s) => i \in 1..Size(d, s) /\ i \in Nat /\ At(y, s, i) = At(d, s, i)
  BY <1>0 DEF Grows
<1>2. ASSUME NEW s \in Streams, NEW i \in 1..Size(d, s), Before(d, t, j, s, i)
      PROVE  Before(y, t, n, s, i)
  <2>1. CASE n = j
    BY <1>0, <1>2, <2>1, BeforeGrows
  <2>2. CASE j = NextPos(d, t)
    BY <1>2, <2>2, EndIsLast DEF Grows
  <2> QED BY <2>1, <2>2
<1>3. CASE /\ m[b] = v
           /\ \A s \in Streams : \A i \in 1..Size(d, s) :
                b \in Puts(u, At(d, s, i)) => Before(d, t, j, s, i)
  <2>1. \A s \in Streams : \A i \in 1..Size(y, s) :
          b \in Puts(u, At(y, s, i)) => Before(y, t, n, s, i)
    BY <1>1, <1>2, <1>3
  <2> QED BY <1>3, <2>1 DEF Sees
<1>4. ASSUME NEW s \in Streams, NEW i \in 1..Size(d, s),
             b \in Puts(u, At(d, s, i)), Leaves(At(d, s, i), b) = v, Before(d, s, i, t, j),
             \A p \in Streams : \A k \in 1..Size(d, p) :
               b \in Puts(u, At(d, p, k)) =>
                 (p = s /\ k = i) \/ Before(d, p, k, s, i) \/ Before(d, t, j, p, k)
      PROVE  Sees(u, y, m, t, n, b, v)
  <2>1. i \in 1..Size(y, s) /\ At(y, s, i) = At(d, s, i) /\ i \in Nat
    BY <1>0 DEF Grows
  <2>2. j <= n
    OBVIOUS
  <2>3. Before(y, s, i, t, n)
    BY <1>4, <2>1, <2>2, BeforeGrows
  <2>4. ASSUME NEW p \in Streams, NEW k \in 1..Size(y, p), b \in Puts(u, At(y, p, k))
        PROVE  (p = s /\ k = i) \/ Before(y, p, k, s, i) \/ Before(y, t, n, p, k)
    <3>1. CASE k <= Size(d, p)
      <4>1. k \in 1..Size(d, p) /\ k \in Nat /\ b \in Puts(u, At(d, p, k))
        BY <1>1, <2>4, <3>1
      <4>2. CASE Before(d, p, k, s, i)
        BY <2>1, <4>1, <4>2, BeforeGrows
      <4> QED BY <1>2, <1>4, <4>1, <4>2
    <3> QED BY <2>4, <3>1
  <2> QED BY <1>4, <2>1, <2>3, <2>4 DEF Sees
<1> QED BY <1>3, <1>4 DEF Sees

----------------------------------------------------------------------------
(* What a command touches.                                                   *)

\* What lies in the queue when a command was called, and that it touches what
\* the command touches.
LEMMA QueuedIs ==
  ASSUME NEW d, NEW c \in Commands
  PROVE  LET q == Queued(d, c)
         IN  /\ q.op = c.op
             /\ c.op \in {"record", "wait"} =>
                  q.event = c.event /\ q.upto = Counted(d, c)[c.event]
             /\ c.op \notin {"record", "wait"} => q = c
<1> DEFINE q == Queued(d, c)
<1>1. CASE c.op \in {"record", "wait"}
  <2>1. c \in Syncs /\ q = [c EXCEPT !.upto = Counted(d, c)[c.event]]
    BY <1>1 DEF Queued, Commands, Syncs, Works, WorkOps
  <2> HIDE DEF q
  <2>2. q.op = c.op /\ q.event = c.event /\ q.upto = Counted(d, c)[c.event]
    BY <2>1 DEF Syncs
  <2> QED BY <1>1, <2>2 DEF q
<1>2. CASE c.op \notin {"record", "wait"}
  BY <1>2 DEF Queued
<1> QED BY <1>1, <1>2

\* Records and waits touch no buffer.
LEMMA SyncsTouchNothing ==
  ASSUME NEW u, NEW c, c.op \in {"record", "wait"}
  PROVE  Reads(u, c) = {} /\ Writes(u, c) = {} /\ Puts(u, c) = {} /\ Expects(u, c) = {}
  BY DEF Reads, Writes, Puts, Expects

\* Numbering a command changes no buffer it touches.
LEMMA QueuedTouches ==
  ASSUME NEW u, NEW d, NEW c \in Commands
  PROVE  LET q == Queued(d, c)
         IN  /\ Reads(u, q) = Reads(u, c) /\ Writes(u, q) = Writes(u, c)
             /\ Puts(u, q) = Puts(u, c) /\ Expects(u, q) = Expects(u, c)
             /\ c.op \notin {"record", "wait"} => q = c
<1>1. CASE c.op \in {"record", "wait"}
  <2> DEFINE q == Queued(d, c)
  <2>1. q.op \in {"record", "wait"}
    BY <1>1, QueuedIs
  <2>2. Reads(u, c) = {} /\ Writes(u, c) = {} /\ Puts(u, c) = {} /\ Expects(u, c) = {}
    BY <1>1, SyncsTouchNothing
  <2> HIDE DEF q
  <2>3. Reads(u, q) = {} /\ Writes(u, q) = {} /\ Puts(u, q) = {} /\ Expects(u, q) = {}
    BY <2>1, SyncsTouchNothing
  <2> QED BY <1>1, <2>2, <2>3 DEF q
<1>2. CASE c.op \notin {"record", "wait"}
  BY <1>2, QueuedIs
<1> QED BY <1>1, <1>2

\* Commands that may not run together may not do so in either order.
LEMMA ClashIsMutual ==
  ASSUME NEW u, NEW v, NEW w, Clash(u, v, w)
  PROVE  Clash(u, w, v)
  BY DEF Clash

\* A command that changes a buffer may not run with one that changes, expects or
\* reads it.
LEMMA PutsClash ==
  ASSUME NEW u, NEW v, NEW w, NEW b, b \in Puts(u, v),
         b \in Puts(u, w) \/ b \in Expects(u, w) \/ b \in Reads(u, w)
  PROVE  Clash(u, v, w)
<1>1. b \in Writes(u, v)
  BY DEF Puts, Writes
<1>2. b \in Writes(u, w) \/ b \in Reads(u, w)
  <2>1. b \in Puts(u, w) => b \in Writes(u, w)
    BY DEF Puts, Writes
  <2>2. b \in Expects(u, w) => b \in Reads(u, w)
    BY DEF Expects, Reads
  <2> QED BY <2>1, <2>2
<1> QED BY <1>1, <1>2 DEF Clash

\* A command fits behind the queues: the records of an event come from one
\* stream, what clashes with it is before it, and it finds what it needs.
Fits(u, d, m, c) ==
  /\ c \in Commands
  /\ c.op = "record" => HomeOf(c.event) = c.on
  /\ \A s \in Streams : \A i \in 1..Size(d, s) :
       s # c.on /\ Clash(u, At(d, s, i), c) => Before(d, s, i, c.on, NextPos(d, c.on))
  /\ \A b \in Expects(u, c) : b \notin Puts(u, c) /\ Finds(u, d, m, c.on, b, Needs(c, b))

\* A record on the home stream of its event, and any wait, can be called at any
\* time.
LEMMA SyncFits ==
  ASSUME NEW u, NEW d, NEW m, NEW c \in Syncs, c.op = "record" => HomeOf(c.event) = c.on
  PROVE  Fits(u, d, m, c)
<1>1. c \in Commands /\ c.op \in {"record", "wait"}
  BY DEF Commands, Syncs
<1>2. Reads(u, c) = {} /\ Writes(u, c) = {} /\ Expects(u, c) = {}
  BY <1>1, SyncsTouchNothing
<1> QED BY <1>1, <1>2 DEF Fits, Clash

\* The driver numbers the records of an event in the order of its home stream.
LEMMA CallNumbered ==
  ASSUME NEW d \in Devices, NEW f \in [Events -> Nat], Numbered(d, f), NEW c \in Commands,
         c.op = "record" => HomeOf(c.event) = c.on
  PROVE  Numbered(Called(d, c), f)
<1> DEFINE y == Called(d, c)
<1>1. /\ y \in Devices /\ y.recorded = Counted(d, c)
      /\ \A s \in Streams : s # c.on => Size(y, s) = Size(d, s)
      /\ Size(y, c.on) = Size(d, c.on) + 1
      /\ \A s \in Streams : \A i \in 1..Size(d, s) : At(y, s, i) = At(d, s, i)
      /\ At(y, c.on, Size(y, c.on)) = Queued(d, c)
  BY CallAppends
<1> HIDE DEF y
<1>2. /\ c.on \in Streams /\ d.recorded \in [Events -> Nat]
      /\ \A s \in Streams : Size(d, s) \in Nat
      /\ c.op = "record" => c.event \in Events
  BY Positions DEF Commands, Syncs, Works, WorkOps, Devices
<1>3. /\ \A e \in Events : d.recorded[e] \in Nat /\ y.recorded[e] \in Nat /\ d.recorded[e] <= y.recorded[e]
      /\ c.op = "record" => y.recorded[c.event] = d.recorded[c.event] + 1
  BY <1>1, <1>2 DEF Counted
<1>4. /\ Queued(d, c).op = c.op
      /\ c.op = "record" => Queued(d, c).event = c.event /\ Queued(d, c).upto = y.recorded[c.event]
  BY <1>1, QueuedIs
<1>5. \A s \in Streams : \A i \in 1..Size(y, s) :
        \/ i \in 1..Size(d, s) /\ At(y, s, i) = At(d, s, i)
        \/ s = c.on /\ i = Size(d, s) + 1 /\ At(y, s, i) = Queued(d, c)
  BY <1>1, <1>2
<1>6. \A e \in Events : f[e] <= y.recorded[e]
  BY <1>3 DEF Numbered
<1>7. ASSUME NEW s \in Streams, NEW i \in 1..Size(d, s), At(d, s, i).op = "record"
      PROVE  /\ HomeOf(At(d, s, i).event) = s /\ f[At(d, s, i).event] < At(d, s, i).upto
             /\ At(d, s, i).upto <= d.recorded[At(d, s, i).event]
             /\ At(d, s, i).event \in Events /\ At(d, s, i).upto \in Nat
  <2>1. At(d, s, i) \in Commands
    BY Positions
  <2>2. At(d, s, i) \in Syncs
    BY <1>7, <2>1 DEF Commands, Works, WorkOps
  <2> QED BY <1>7, <2>2 DEF Numbered, Syncs
<1>8. ASSUME NEW s \in Streams, NEW i \in 1..Size(y, s), At(y, s, i).op = "record"
      PROVE  /\ HomeOf(At(y, s, i).event) = s /\ f[At(y, s, i).event] < At(y, s, i).upto
             /\ At(y, s, i).upto <= y.recorded[At(y, s, i).event]
  <2>1. CASE i \in 1..Size(d, s) /\ At(y, s, i) = At(d, s, i)
    BY <1>3, <1>7, <1>8, <2>1
  <2>2. CASE s = c.on /\ i = Size(d, s) + 1 /\ At(y, s, i) = Queued(d, c)
    <3>1. c.op = "record" /\ c.event \in Events /\ f[c.event] <= d.recorded[c.event]
      BY <1>2, <1>4, <1>8, <2>2 DEF Numbered
    <3> QED BY <1>2, <1>3, <1>4, <2>2, <3>1
  <2> QED BY <1>5, <2>1, <2>2
<1>9. ASSUME NEW s \in Streams, NEW i \in 1..Size(y, s), NEW j \in 1..Size(y, s), i < j,
             At(y, s, i).op = "record", At(y, s, j).op = "record",
             At(y, s, i).event = At(y, s, j).event
      PROVE  At(y, s, i).upto < At(y, s, j).upto
  <2>0. i \in 1..Size(d, s) /\ At(y, s, i) = At(d, s, i)
    BY <1>1, <1>2, <1>9
  <2>1. CASE j \in 1..Size(d, s) /\ At(y, s, j) = At(d, s, j)
    BY <1>9, <2>0, <2>1 DEF Numbered
  <2>2. CASE s = c.on /\ j = Size(d, s) + 1 /\ At(y, s, j) = Queued(d, c)
    <3>1. At(d, s, i).op = "record" /\ At(d, s, i).event = c.event /\ c.op = "record"
      BY <1>4, <1>9, <2>0, <2>2
    <3>2. At(d, s, i).upto <= d.recorded[c.event] /\ At(d, s, i).upto \in Nat /\ c.event \in Events
      BY <1>7, <2>0, <3>1
    <3> QED BY <1>3, <1>4, <2>0, <2>2, <3>1, <3>2
  <2> QED BY <1>5, <2>1, <2>2
<1>10. Numbered(y, f)
  BY <1>6, <1>8, <1>9 DEF Numbered
<1> QED BY <1>10 DEF y

\* What the next command would find in a buffer outlasts a call that does not
\* change that buffer.
LEMMA FindsCall ==
  ASSUME NEW u, NEW d \in Devices, NEW m, NEW c \in Commands, NEW t \in Streams, NEW b, NEW v,
         Finds(u, d, m, t, b, v), b \notin Puts(u, c)
  PROVE  Finds(u, Called(d, c), m, t, b, v)
<1> DEFINE y == Called(d, c)
<1>1. /\ y \in Devices
      /\ \A s \in Streams : s # c.on => Size(y, s) = Size(d, s)
      /\ Size(y, c.on) = Size(d, c.on) + 1
      /\ At(y, c.on, Size(y, c.on)) = Queued(d, c)
      /\ Grows(d, y)
  BY CallAppends, CallGrows
<1> HIDE DEF y
<1>2. /\ c.on \in Streams
      /\ \A s \in Streams : Size(d, s) \in Nat /\ Size(y, s) \in Nat
      /\ \A s \in Streams : NextPos(d, s) = Size(d, s) + 1 /\ NextPos(y, s) = Size(y, s) + 1
  BY <1>1, Positions DEF Commands, Syncs, Works
<1>3. \A s \in Streams : \A i \in 1..Size(y, s) :
        b \in Puts(u, At(y, s, i)) => i <= Size(d, s)
  <2>1. b \notin Puts(u, Queued(d, c))
    BY QueuedTouches
  <2> QED BY <1>1, <1>2, <2>1
<1>4. NextPos(d, t) \in Nat /\ NextPos(y, t) \in Nat /\ NextPos(d, t) <= NextPos(y, t)
  BY <1>1, <1>2
<1>5. Sees(u, y, m, t, NextPos(y, t), b, v)
  BY <1>1, <1>3, <1>4, SeesGrows DEF Finds
<1> QED BY <1>5 DEF y, Finds

\* The next command finds what the last one left.
LEMMA FindsCalled ==
  ASSUME NEW u, NEW d \in Devices, NEW m, NEW c, Fits(u, d, m, c), NEW b, b \in Puts(u, c)
  PROVE  Finds(u, Called(d, c), m, c.on, b, Leaves(c, b))
<1> DEFINE y == Called(d, c)
           t == c.on
           n == Size(d, t) + 1
<1>0. c \in Commands
  BY DEF Fits
<1>1. /\ y \in Devices
      /\ \A s \in Streams : s # t => Size(y, s) = Size(d, s)
      /\ Size(y, t) = Size(d, t) + 1
      /\ \A s \in Streams : \A i \in 1..Size(d, s) : At(y, s, i) = At(d, s, i)
      /\ At(y, t, Size(y, t)) = Queued(d, c)
      /\ Grows(d, y)
  BY <1>0, CallAppends, CallGrows
<1>2. Queued(d, c) = c
  <2>1. c.op \notin {"record", "wait"}
    BY SyncsTouchNothing
  <2> QED BY <1>0, <2>1, QueuedIs
<1> HIDE DEF y
<1>3. /\ t \in Streams
      /\ \A s \in Streams : Size(d, s) \in Nat
      /\ NextPos(d, t) = n /\ NextPos(y, t) = n + 1
  BY <1>0, <1>1, Positions DEF Commands, Syncs, Works
<1>4. n \in 1..Size(y, t) /\ At(y, t, n) = c /\ n \in Nat
  BY <1>1, <1>2, <1>3
<1>5. Before(y, t, n, t, NextPos(y, t))
  BY <1>3 DEF Before
<1>6. ASSUME NEW p \in Streams, NEW k \in 1..Size(y, p), b \in Puts(u, At(y, p, k))
      PROVE  (p = t /\ k = n) \/ Before(y, p, k, t, n)
  <2>1. CASE p = t /\ k < n
    BY <2>1 DEF Before
  <2>2. CASE p # t
    <3>1. k \in 1..Size(d, p) /\ k \in Nat /\ b \in Puts(u, At(d, p, k))
      BY <1>1, <1>3, <1>6, <2>2
    <3>2. Clash(u, At(d, p, k), c)
      BY <3>1, PutsClash
    <3>3. Before(d, p, k, t, n)
      BY <1>3, <2>2, <3>1, <3>2 DEF Fits
    <3> QED BY <1>1, <1>3, <1>4, <3>1, <3>3, BeforeGrows
  <2>3. (k \in Nat /\ k <= n) \/ p # t
    BY <1>1, <1>3
  <2> QED BY <1>3, <2>1, <2>2, <2>3
<1>7. Sees(u, y, m, t, NextPos(y, t), b, Leaves(c, b))
  BY <1>3, <1>4, <1>5, <1>6 DEF Sees
<1> QED BY <1>7 DEF y, Finds

\* A command that fits leaves the queues sound.
LEMMA CallSound ==
  ASSUME NEW u, NEW d, NEW f, NEW m, Sound(u, d, f, m), NEW c, Fits(u, d, m, c)
  PROVE  Sound(u, Called(d, c), f, m)
<1> DEFINE y == Called(d, c)
           t == c.on
           n == Size(d, t) + 1
<1>0. c \in Commands /\ d \in Devices /\ f \in [Events -> Nat]
  BY DEF Fits, Sound
<1>1. /\ y \in Devices
      /\ \A s \in Streams : s # t => Size(y, s) = Size(d, s)
      /\ Size(y, t) = Size(d, t) + 1
      /\ \A s \in Streams : \A i \in 1..Size(d, s) : At(y, s, i) = At(d, s, i)
      /\ At(y, t, Size(y, t)) = Queued(d, c)
      /\ Grows(d, y)
  BY <1>0, CallAppends, CallGrows
<1>2. Numbered(y, f)
  BY <1>0, CallNumbered DEF Sound, Fits
<1> HIDE DEF y
<1>3. /\ t \in Streams
      /\ \A s \in Streams : Size(d, s) \in Nat
      /\ NextPos(d, t) = n /\ n \in Nat
      /\ \A s \in Streams : \A i \in 1..Size(y, s) :
           \/ i \in 1..Size(d, s) /\ i \in Nat /\ At(y, s, i) = At(d, s, i)
           \/ s = t /\ i = n /\ At(y, s, i) = Queued(d, c)
  <2>1. t \in Streams
    BY <1>0 DEF Commands, Syncs, Works
  <2>2. \A s \in Streams : Size(d, s) \in Nat
    BY <1>0, Positions
  <2>3. NextPos(d, t) = n /\ n \in Nat
    BY <1>0, <2>1, <2>2, Positions
  <2>4. \A s \in Streams : \A i \in 1..Size(y, s) :
           \/ i \in 1..Size(d, s) /\ i \in Nat /\ At(y, s, i) = At(d, s, i)
           \/ s = t /\ i = n /\ At(y, s, i) = Queued(d, c)
    BY <1>1, <2>1, <2>2
  <2> QED BY <2>1, <2>2, <2>3, <2>4
<1>4. \A v : Clash(u, v, Queued(d, c)) => Clash(u, v, c)
  BY <1>0, QueuedTouches DEF Clash
<1>5. ASSUME NEW s \in Streams, NEW i \in 1..Size(y, s), s # t, Clash(u, At(y, s, i), Queued(d, c))
      PROVE  Before(y, s, i, t, n)
  <2>1. i \in 1..Size(d, s) /\ i \in Nat /\ At(y, s, i) = At(d, s, i)
    BY <1>3, <1>5
  <2>2. Before(d, s, i, t, n)
    BY <1>3, <1>4, <1>5, <2>1 DEF Fits
  <2> QED BY <1>1, <1>3, <2>1, <2>2, BeforeGrows
<1>6. ASSUME NEW s \in Streams, NEW p \in Streams, NEW i \in 1..Size(y, s), NEW j \in 1..Size(y, p),
             s # p, Clash(u, At(y, s, i), At(y, p, j))
      PROVE  Before(y, s, i, p, j) \/ Before(y, p, j, s, i)
  <2>1. CASE /\ i \in 1..Size(d, s) /\ i \in Nat /\ At(y, s, i) = At(d, s, i)
             /\ j \in 1..Size(d, p) /\ j \in Nat /\ At(y, p, j) = At(d, p, j)
    <3>1. Before(d, s, i, p, j) \/ Before(d, p, j, s, i)
      BY <1>6, <2>1 DEF Sound, Ordered
    <3> QED BY <1>1, <2>1, <3>1, BeforeGrows
  <2>2. CASE p = t /\ j = n /\ At(y, p, j) = Queued(d, c)
    BY <1>5, <1>6, <2>2
  <2>3. CASE s = t /\ i = n /\ At(y, s, i) = Queued(d, c)
    <3>1. Clash(u, At(y, p, j), Queued(d, c))
      BY <1>6, <2>3, ClashIsMutual
    <3> QED BY <1>5, <1>6, <2>3, <3>1
  <2> QED BY <1>3, <2>1, <2>2, <2>3
<1>7. Ordered(u, y)
  BY <1>6 DEF Ordered
<1>8. ASSUME NEW p \in Streams, NEW j \in 1..Size(y, p), NEW b \in Expects(u, At(y, p, j))
      PROVE  Sees(u, y, m, p, j, b, Needs(At(y, p, j), b))
  <2>1. CASE j \in 1..Size(d, p) /\ j \in Nat /\ At(y, p, j) = At(d, p, j)
    <3>1. Sees(u, d, m, p, j, b, Needs(At(d, p, j), b))
      BY <1>8, <2>1 DEF Sound, AllSee
    <3>2. ASSUME NEW s \in Streams, NEW i \in 1..Size(y, s), b \in Puts(u, At(y, s, i)),
                 ~(i <= Size(d, s))
          PROVE  Before(y, p, j, s, i)
      <4>1. s = t /\ i = n /\ At(y, s, i) = Queued(d, c)
        BY <1>3, <3>2
      <4>2. CASE p = t
        BY <1>3, <2>1, <4>1, <4>2 DEF Before
      <4>3. CASE p # t
        <5>1. Clash(u, At(y, s, i), At(y, p, j))
          BY <1>8, <3>2, PutsClash
        <5> QED BY <1>5, <4>1, <4>3, <5>1, ClashIsMutual
      <4> QED BY <4>2, <4>3
    <3> QED BY <1>1, <2>1, <3>1, <3>2, SeesGrows
  <2>2. CASE p = t /\ j = n /\ At(y, p, j) = Queued(d, c)
    <3>1. b \in Expects(u, c) /\ b \notin Puts(u, c) /\ Finds(u, d, m, t, b, Needs(c, b))
      BY <1>0, <1>8, <2>2, QueuedTouches DEF Fits
    <3>2. Queued(d, c) = c
      <4>1. c.op \notin {"record", "wait"}
        BY <3>1, SyncsTouchNothing
      <4> QED BY <1>0, <4>1, QueuedIs
    <3>3. Sees(u, d, m, t, n, b, Needs(c, b))
      BY <1>3, <3>1 DEF Finds
    <3>4. \A s \in Streams : \A i \in 1..Size(y, s) :
            b \in Puts(u, At(y, s, i)) => i <= Size(d, s)
      BY <1>3, <3>1, <3>2
    <3>5. Sees(u, y, m, t, n, b, Needs(c, b))
      BY <1>1, <1>3, <3>3, <3>4, SeesGrows
    <3> QED BY <2>2, <3>2, <3>5
  <2> QED BY <1>3, <2>1, <2>2
<1>9. AllSee(u, y, m)
  BY <1>8 DEF AllSee
<1>10. Sound(u, y, f, m)
  BY <1>0, <1>1, <1>2, <1>7, <1>9 DEF Sound
<1> QED BY <1>10 DEF y

----------------------------------------------------------------------------
(* What the first command of a stream changes when it runs.                  *)

Shift(s, p) == IF p = s THEN 1 ELSE 0
Popped(d, s) == [queue |-> [d.queue EXCEPT ![s] = Tail(@)], recorded |-> d.recorded]
Free(d, f, s) ==
  /\ 1 \in 1..Size(d, s)
  /\ At(d, s, 1).op = "wait" => f[At(d, s, 1).event] >= At(d, s, 1).upto
Passed(d, f, s) ==
  IF At(d, s, 1).op = "record" THEN [f EXCEPT ![At(d, s, 1).event] = At(d, s, 1).upto] ELSE f

\* The driver takes the first command of a queue; the others move up by one.
LEMMA PopShifts ==
  ASSUME NEW d \in Devices, NEW s \in Streams, 1 \in 1..Size(d, s)
  PROVE  LET y == Popped(d, s)
         IN  /\ y \in Devices /\ y.recorded = d.recorded
             /\ \A p \in Streams : /\ Size(y, p) \in Nat
                                   /\ Size(d, p) = Size(y, p) + Shift(s, p)
                                   /\ NextPos(d, p) = NextPos(y, p) + Shift(s, p)
                                   /\ NextPos(y, p) \in Nat /\ NextPos(y, p) >= 1
             /\ \A p \in Streams : \A i \in 1..Size(y, p) :
                  /\ At(y, p, i) = At(d, p, i + Shift(s, p))
                  /\ i + Shift(s, p) \in 1..Size(d, p)
<1> DEFINE y == Popped(d, s)
           q == d.queue[s]
           z == Tail(q)
<1>1. /\ d.queue \in [Streams -> Seq(Commands)] /\ d.recorded \in [Events -> Nat]
      /\ y = [queue |-> [d.queue EXCEPT ![s] = Tail(@)], recorded |-> d.recorded]
  BY DEF Devices, Popped
<1>2. q \in Seq(Commands) /\ q # << >>
  <2>1. Len(q) # 0
    BY DEF Size
  <2> QED BY <1>1, <2>1, EmptySeq
<1>3. /\ z \in Seq(Commands)
      /\ Len(z) = Len(q) - 1
      /\ \A i \in 1..Len(z) : z[i] = q[i + 1]
  BY <1>2, HeadTailProperties
<1>4. \A p \in Streams : Len(d.queue[p]) \in Nat
  BY <1>1, LenProperties
<1>4a. y = [queue |-> [d.queue EXCEPT ![s] = z], recorded |-> d.recorded]
  BY <1>1
<1> HIDE DEF y, z
<1>5. y \in Devices /\ y.recorded = d.recorded
  BY <1>1, <1>3, <1>4a DEF Devices
<1>6. /\ y.queue[s] = z
      /\ \A p \in Streams : p # s => y.queue[p] = d.queue[p]
  BY <1>1, <1>4a
<1>7. \A p \in Streams : Size(y, p) \in Nat /\ NextPos(y, p) = Size(y, p) + 1 /\ NextPos(d, p) = Size(d, p) + 1
  BY <1>5, Positions
<1>8. ASSUME NEW p \in Streams
      PROVE  Size(d, p) = Size(y, p) + Shift(s, p)
  <2>1. Len(d.queue[p]) \in Nat
    BY <1>4
  <2>2. CASE p = s
    BY <1>3, <1>6, <2>1, <2>2 DEF Size, Shift
  <2>3. CASE p # s
    BY <1>6, <2>1, <2>3 DEF Size, Shift
  <2> QED BY <2>2, <2>3
<1>9. ASSUME NEW p \in Streams, NEW i \in 1..Size(y, p)
      PROVE  At(y, p, i) = At(d, p, i + Shift(s, p)) /\ i + Shift(s, p) \in 1..Size(d, p)
  <2>1. CASE p = s
    <3>1. z[i] = q[i + 1] /\ y.queue[p] = z /\ i + 1 \in 1..Size(d, p)
      BY <1>3, <1>6, <1>7, <1>8, <2>1 DEF Size, Shift
    <3> QED BY <2>1, <3>1 DEF At, Shift
  <2>2. CASE p # s
    BY <1>6, <1>7, <1>8, <2>2 DEF Size, At, Shift
  <2> QED BY <2>1, <2>2
<1>10. \A p \in Streams : NextPos(d, p) = NextPos(y, p) + Shift(s, p) /\ NextPos(y, p) \in Nat /\ NextPos(y, p) >= 1
  BY <1>7, <1>8 DEF Shift
<1> QED BY <1>5, <1>7, <1>8, <1>9, <1>10 DEF y

\* Records have types.
LEMMA RecordFacts ==
  ASSUME NEW d \in Devices, NEW f \in [Events -> Nat], Numbered(d, f),
         NEW s \in Streams, NEW i \in 1..Size(d, s), At(d, s, i).op = "record"
  PROVE  /\ At(d, s, i).event \in Events /\ At(d, s, i).upto \in Nat
         /\ f[At(d, s, i).event] \in Nat
         /\ HomeOf(At(d, s, i).event) = s
         /\ f[At(d, s, i).event] < At(d, s, i).upto
         /\ At(d, s, i).upto <= d.recorded[At(d, s, i).event]
<1>1. At(d, s, i) \in Syncs
  BY Positions DEF Commands, Works, WorkOps
<1> QED BY <1>1 DEF Syncs, Numbered

\* Nothing queued holds up a command that may run.
LEMMA FreeIsFirst ==
  ASSUME NEW d \in Devices, NEW f \in [Events -> Nat], Numbered(d, f),
         NEW s \in Streams, Free(d, f, s), NEW p \in Streams, NEW i \in Nat
  PROVE  /\ ~Fenced(d, p, i, s, 1)
         /\ 1 <= i => ~Before(d, p, i, s, 1)
<1>1. ASSUME NEW c \in Streams, NEW l \in Nat, Fenced(d, c, l, s, 1)
      PROVE  FALSE
  <2>1. PICK k \in 1..Size(d, c), n \in 1..Size(d, s) : n <= 1 /\ Covers(At(d, c, k), At(d, s, n))
    BY <1>1 DEF Fenced
  <2>2. n = 1
    BY <2>1
  <2>3. /\ At(d, c, k).op = "record" /\ At(d, s, 1).op = "wait"
        /\ At(d, c, k).event = At(d, s, 1).event /\ At(d, c, k).upto <= At(d, s, 1).upto
    BY <2>1, <2>2 DEF Covers
  <2>4. At(d, s, 1) \in Syncs
    BY <2>3, Positions DEF Free, Commands, Works, WorkOps
  <2>5. At(d, s, 1).upto \in Nat /\ f[At(d, s, 1).event] >= At(d, s, 1).upto
    BY <2>3, <2>4 DEF Syncs, Free
  <2> QED BY <2>3, <2>5, RecordFacts
<1>2. "compute" \in Streams /\ \A c \in 1..Size(d, "compute") : c \in Nat
  BY Positions DEF Streams
<1> QED BY <1>1, <1>2 DEF Before

\* When a command that may run is taken, the records and waits between the
\* others stay: a wait at the head is taken only with its record through.
LEMMA FencedPops ==
  ASSUME NEW d \in Devices, NEW f \in [Events -> Nat], Numbered(d, f),
         NEW s \in Streams, Free(d, f, s), NEW p \in Streams, NEW t \in Streams,
         NEW i \in Nat, NEW j \in Nat, 1 <= i,
         Fenced(d, p, i + Shift(s, p), t, j + Shift(s, t))
  PROVE  Fenced(Popped(d, s), p, i, t, j)
<1> DEFINE y == Popped(d, s)
<1>1. /\ \A q \in Streams : Size(y, q) \in Nat /\ Size(d, q) = Size(y, q) + Shift(s, q)
      /\ \A q \in Streams : \A l \in 1..Size(y, q) : At(y, q, l) = At(d, q, l + Shift(s, q))
  BY PopShifts DEF Free
<1> HIDE DEF y
<1>2. PICK k \in 1..Size(d, p), n \in 1..Size(d, t) :
        i + Shift(s, p) <= k /\ n <= j + Shift(s, t) /\ Covers(At(d, p, k), At(d, t, n))
  BY DEF Fenced
<1>3. ~(t = s /\ n = 1)
  <2>1. ASSUME t = s, n = 1 PROVE FALSE
    <3>1. Fenced(d, p, k, s, 1)
      BY <1>2, <2>1 DEF Fenced
    <3> QED BY <3>1, FreeIsFirst
  <2> QED BY <2>1
<1>4. k - Shift(s, p) \in 1..Size(y, p) /\ i <= k - Shift(s, p)
  BY <1>1, <1>2 DEF Shift
<1>5. n - Shift(s, t) \in 1..Size(y, t) /\ n - Shift(s, t) <= j
  BY <1>1, <1>2, <1>3 DEF Shift
<1>6. At(y, p, k - Shift(s, p)) = At(d, p, k) /\ At(y, t, n - Shift(s, t)) = At(d, t, n)
  BY <1>1, <1>2, <1>4, <1>5 DEF Shift
<1>7. Fenced(y, p, i, t, j)
  BY <1>2, <1>4, <1>5, <1>6 DEF Fenced
<1> QED BY <1>7 DEF y

\* So the order of the commands that are left stays.
LEMMA BeforePops ==
  ASSUME NEW d \in Devices, NEW f \in [Events -> Nat], Numbered(d, f),
         NEW s \in Streams, Free(d, f, s), NEW p \in Streams, NEW t \in Streams,
         NEW i \in Nat, NEW j \in Nat, 1 <= i,
         Before(d, p, i + Shift(s, p), t, j + Shift(s, t))
  PROVE  Before(Popped(d, s), p, i, t, j)
<1> DEFINE y == Popped(d, s)
<1>1. CASE p = t /\ i + Shift(s, p) < j + Shift(s, t)
  BY <1>1 DEF Before, Shift
<1>2. CASE Fenced(d, p, i + Shift(s, p), t, j + Shift(s, t))
  BY <1>2, FencedPops DEF Before
<1>3. ASSUME NEW c \in 1..Size(d, "compute"),
             Fenced(d, p, i + Shift(s, p), "compute", c),
             Fenced(d, "compute", c, t, j + Shift(s, t))
      PROVE  Before(y, p, i, t, j)
  <2>0. "compute" \in Streams /\ i + Shift(s, p) \in Nat
    BY DEF Streams, Shift
  <2>1. /\ Size(y, "compute") \in Nat /\ Size(d, "compute") = Size(y, "compute") + Shift(s, "compute")
    BY <2>0, PopShifts DEF Free
  <2>2. ~(s = "compute" /\ c = 1)
    BY <1>3, <2>0, FreeIsFirst
  <2> DEFINE l == c - Shift(s, "compute")
  <2>3. l \in 1..Size(y, "compute") /\ l \in Nat /\ 1 <= l /\ c = l + Shift(s, "compute")
    BY <2>1, <2>2 DEF Shift
  <2> HIDE DEF l, y
  <2>4. Fenced(Popped(d, s), p, i, "compute", l)
    BY <1>3, <2>0, <2>3, FencedPops
  <2>5. Fenced(Popped(d, s), "compute", l, t, j)
    BY <1>3, <2>0, <2>3, FencedPops
  <2> QED BY <2>3, <2>4, <2>5 DEF Before, y
<1> QED BY <1>1, <1>2, <1>3 DEF Before

\* The records left are numbered behind the one the event has seen now.
LEMMA PopNumbered ==
  ASSUME NEW d \in Devices, NEW f \in [Events -> Nat], Numbered(d, f),
         NEW s \in Streams, Free(d, f, s)
  PROVE  Passed(d, f, s) \in [Events -> Nat] /\ Numbered(Popped(d, s), Passed(d, f, s))
<1> DEFINE y == Popped(d, s)
           g == Passed(d, f, s)
           w == At(d, s, 1)
<1>1. /\ y.recorded = d.recorded
      /\ \A q \in Streams : Size(y, q) \in Nat /\ Size(d, q) = Size(y, q) + Shift(s, q)
      /\ \A q \in Streams : \A l \in 1..Size(y, q) :
           At(y, q, l) = At(d, q, l + Shift(s, q)) /\ l + Shift(s, q) \in 1..Size(d, q)
  BY PopShifts DEF Free
<1>2. /\ w.op = "record" => /\ w.event \in Events /\ w.upto \in Nat /\ HomeOf(w.event) = s
                            /\ w.upto <= d.recorded[w.event]
      /\ 1 \in 1..Size(d, s)
  BY RecordFacts DEF Free
<1>3. g \in [Events -> Nat]
  BY <1>2 DEF Passed
<1>4. \A e \in Events : g[e] = IF w.op = "record" /\ e = w.event THEN w.upto ELSE f[e]
  BY <1>2 DEF Passed
<1> HIDE DEF y, g
<1>5. \A e \in Events : g[e] <= y.recorded[e]
  BY <1>1, <1>2, <1>4 DEF Numbered
<1>6. ASSUME NEW p \in Streams, NEW i \in 1..Size(y, p), At(y, p, i).op = "record"
      PROVE  /\ HomeOf(At(y, p, i).event) = p /\ g[At(y, p, i).event] < At(y, p, i).upto
             /\ At(y, p, i).upto <= y.recorded[At(y, p, i).event]
  <2> DEFINE k == i + Shift(s, p)
             r == At(d, p, k)
  <2>1. k \in 1..Size(d, p) /\ At(y, p, i) = r /\ r.op = "record"
    BY <1>1, <1>6
  <2>2. /\ r.event \in Events /\ HomeOf(r.event) = p /\ f[r.event] < r.upto
        /\ r.upto <= d.recorded[r.event]
    BY <2>1, RecordFacts
  <2>3. CASE w.op = "record" /\ r.event = w.event
    <3>1. p = s /\ k = i + 1
      BY <1>2, <2>2, <2>3 DEF Shift
    <3>2. 1 \in 1..Size(d, p) /\ 1 < k
      BY <1>2, <3>1
    <3>3. w.upto < r.upto
      BY <2>1, <2>3, <3>1, <3>2 DEF Numbered
    <3> QED BY <1>1, <1>4, <2>1, <2>2, <2>3, <3>3
  <2>4. CASE ~(w.op = "record" /\ r.event = w.event)
    BY <1>1, <1>4, <2>1, <2>2, <2>4
  <2> QED BY <2>3, <2>4
<1>7. ASSUME NEW p \in Streams, NEW i \in 1..Size(y, p), NEW j \in 1..Size(y, p), i < j,
             At(y, p, i).op = "record", At(y, p, j).op = "record",
             At(y, p, i).event = At(y, p, j).event
      PROVE  At(y, p, i).upto < At(y, p, j).upto
  <2>1. /\ At(y, p, i) = At(d, p, i + Shift(s, p)) /\ i + Shift(s, p) \in 1..Size(d, p)
        /\ At(y, p, j) = At(d, p, j + Shift(s, p)) /\ j + Shift(s, p) \in 1..Size(d, p)
        /\ i + Shift(s, p) < j + Shift(s, p)
    BY <1>1, <1>7 DEF Shift
  <2> QED BY <1>7, <2>1 DEF Numbered
<1>8. Numbered(y, g)
  BY <1>5, <1>6, <1>7 DEF Numbered
<1> QED BY <1>3, <1>8 DEF y, g

\* The buffers after the first command of s.
Left(u, d, m, s, x) ==
  \A b \in Buffers : x[b] = IF b \in Puts(u, At(d, s, 1)) THEN Leaves(At(d, s, 1), b) ELSE m[b]

\* What a command is to find stays what it finds once the command before it has
\* run and left its buffers as it should.
LEMMA SeesPops ==
  ASSUME NEW u, NEW d \in Devices, NEW f \in [Events -> Nat], Numbered(d, f),
         NEW s \in Streams, Free(d, f, s), NEW m, NEW x, Left(u, d, m, s, x),
         NEW t \in Streams, NEW j \in Nat, 1 <= j, NEW b \in Buffers, NEW v,
         Sees(u, d, m, t, j + Shift(s, t), b, v)
  PROVE  Sees(u, Popped(d, s), x, t, j, b, v)
<1> DEFINE y == Popped(d, s)
           w == At(d, s, 1)
           n == j + Shift(s, t)
<1>1. /\ \A q \in Streams : Size(y, q) \in Nat /\ Size(d, q) = Size(y, q) + Shift(s, q)
      /\ \A q \in Streams : \A l \in 1..Size(y, q) :
           At(y, q, l) = At(d, q, l + Shift(s, q)) /\ l + Shift(s, q) \in 1..Size(d, q)
      /\ 1 \in 1..Size(d, s)
  BY PopShifts DEF Free
<1>2. n \in Nat /\ 1 <= n
  BY DEF Shift
<1> HIDE DEF y
<1>3. ASSUME NEW p \in Streams, NEW i \in 1..Size(y, p),
             Before(d, t, n, p, i + Shift(s, p))
      PROVE  Before(y, t, j, p, i)
  BY <1>1, <1>3, BeforePops DEF y
<1>4. CASE /\ m[b] = v
           /\ \A p \in Streams : \A i \in 1..Size(d, p) :
                b \in Puts(u, At(d, p, i)) => Before(d, t, n, p, i)
  <2>1. b \notin Puts(u, w)
    BY <1>1, <1>2, <1>4, FreeIsFirst
  <2>2. x[b] = v
    BY <1>4, <2>1 DEF Left
  <2>3. \A p \in Streams : \A i \in 1..Size(y, p) :
          b \in Puts(u, At(y, p, i)) => Before(y, t, j, p, i)
    BY <1>1, <1>3, <1>4
  <2>4. Sees(u, y, x, t, j, b, v)
    BY <2>2, <2>3 DEF Sees
  <2> QED BY <2>4 DEF y
<1>5. ASSUME NEW p \in Streams, NEW i \in 1..Size(d, p),
             b \in Puts(u, At(d, p, i)), Leaves(At(d, p, i), b) = v, Before(d, p, i, t, n),
             \A q \in Streams : \A k \in 1..Size(d, q) :
               b \in Puts(u, At(d, q, k)) =>
                 (q = p /\ k = i) \/ Before(d, q, k, p, i) \/ Before(d, t, n, q, k)
      PROVE  Sees(u, y, x, t, j, b, v)
  <2>1. CASE p = s /\ i = 1
    <3>1. x[b] = v
      BY <1>5, <2>1 DEF Left
    <3>2. ASSUME NEW q \in Streams, NEW k \in 1..Size(y, q), b \in Puts(u, At(y, q, k))
          PROVE  Before(y, t, j, q, k)
      <4>1. /\ k + Shift(s, q) \in 1..Size(d, q) /\ At(y, q, k) = At(d, q, k + Shift(s, q))
            /\ k + Shift(s, q) \in Nat /\ 1 <= k + Shift(s, q)
        BY <1>1 DEF Shift
      <4>2. ~(q = p /\ k + Shift(s, q) = i)
        BY <1>1, <2>1 DEF Shift
      <4>3. ~Before(d, q, k + Shift(s, q), p, i)
        BY <2>1, <4>1, FreeIsFirst
      <4>4. Before(d, t, n, q, k + Shift(s, q))
        BY <1>5, <3>2, <4>1, <4>2, <4>3
      <4> QED BY <1>3, <4>4
    <3> QED BY <3>1, <3>2 DEF Sees
  <2>2. CASE ~(p = s /\ i = 1)
    <3> DEFINE l == i - Shift(s, p)
    <3>1. l \in 1..Size(y, p) /\ l + Shift(s, p) = i /\ l \in Nat /\ 1 <= l
      BY <1>1, <2>2 DEF Shift
    <3> HIDE DEF l
    <3>2. At(y, p, l) = At(d, p, i)
      BY <1>1, <3>1
    <3>3. Before(y, p, l, t, j)
      BY <1>5, <3>1, BeforePops DEF y
    <3>4. ASSUME NEW q \in Streams, NEW k \in 1..Size(y, q), b \in Puts(u, At(y, q, k))
          PROVE  (q = p /\ k = l) \/ Before(y, q, k, p, l) \/ Before(y, t, j, q, k)
      <4>1. /\ k + Shift(s, q) \in 1..Size(d, q) /\ At(y, q, k) = At(d, q, k + Shift(s, q))
            /\ k \in Nat /\ 1 <= k
        BY <1>1
      <4>2. CASE q = p /\ k + Shift(s, q) = i
        BY <3>1, <4>1, <4>2 DEF Shift
      <4>3. CASE Before(d, q, k + Shift(s, q), p, i)
        BY <3>1, <4>1, <4>3, BeforePops DEF y
      <4>4. CASE Before(d, t, n, q, k + Shift(s, q))
        BY <1>3, <4>4
      <4> QED BY <1>5, <3>4, <4>1, <4>2, <4>3, <4>4
    <3> QED BY <1>5, <3>1, <3>2, <3>3, <3>4 DEF Sees
  <2> QED BY <2>1, <2>2
<1> QED BY <1>4, <1>5 DEF Sees, y

\* What a command that may run reads is what it needs.
LEMMA FreeReads ==
  ASSUME NEW u, NEW d, NEW f, NEW m, Sound(u, d, f, m), NEW s \in Streams, Free(d, f, s),
         NEW b \in Expects(u, At(d, s, 1))
  PROVE  m[b] = Needs(At(d, s, 1), b)
<1>1. Sees(u, d, m, s, 1, b, Needs(At(d, s, 1), b))
  BY DEF Sound, AllSee, Free
<1>2. \A p \in Streams : \A i \in 1..Size(d, p) : ~Before(d, p, i, s, 1)
  <2>1. \A p \in Streams : Size(d, p) \in Nat
    BY Positions DEF Sound
  <2> QED BY <2>1, FreeIsFirst DEF Sound
<1> QED BY <1>1, <1>2 DEF Sees

\* Commands of two streams that may both run do not clash.
LEMMA FreeTogether ==
  ASSUME NEW u, NEW d, NEW f, NEW m, Sound(u, d, f, m), NEW s \in Streams, NEW t \in Streams,
         s # t, Free(d, f, s), Free(d, f, t)
  PROVE  ~Clash(u, At(d, s, 1), At(d, t, 1))
<1>1. \A p \in Streams, q \in Streams : Free(d, f, p) => ~Before(d, q, 1, p, 1)
  BY FreeIsFirst DEF Sound
<1> QED BY <1>1 DEF Sound, Ordered, Free

\* The buffers are named.
LEMMA BuffersOf ==
  ASSUME NEW u, NEW d \in Devices, NEW s \in Streams, NEW i \in 1..Size(d, s)
  PROVE  Expects(u, At(d, s, i)) \subseteq Buffers /\ Puts(u, At(d, s, i)) \subseteq Buffers
<1> DEFINE w == At(d, s, i)
<1>1. w \in Commands
  BY Positions
<1> HIDE DEF w
<1>2. CASE w.op \in {"record", "wait"}
  BY <1>2, SyncsTouchNothing DEF w
<1>3. CASE w \in Works
  <2>1. w.layer \in Nat /\ w.group \in Nat /\ w.group \in 0..(Groups - 1)
    BY <1>3, Sizes DEF Works
  <2>2. Half(w.layer) \in {0, 1} /\ SetIn(u, w.group) \in {0, 1}
    BY <2>1, Halves DEF SetIn
  <2>3. Writes(u, w) \subseteq Buffers
    BY <2>1, <2>2 DEF Writes, Buffers, ThePlan, BothSets
  <2>4. Reads(u, w) \subseteq Buffers
    BY <2>1, <2>2 DEF Reads, Buffers, ThePlan, BothSets
  <2>5. Puts(u, w) \subseteq Buffers
    BY <2>1, <2>3 DEF Puts, Buffers
  <2>6. Expects(u, w) \subseteq Buffers
    BY <2>1, <2>4 DEF Expects, Buffers, ThePlan
  <2> QED BY <2>5, <2>6 DEF w
<1> QED BY <1>1, <1>2, <1>3 DEF Commands, Syncs

\* A command that may run and leaves what it should keeps the queues sound.
LEMMA PopSound ==
  ASSUME NEW u, NEW d, NEW f, NEW m, Sound(u, d, f, m), NEW s \in Streams, Free(d, f, s),
         NEW x, Left(u, d, m, s, x)
  PROVE  Sound(u, Popped(d, s), Passed(d, f, s), x)
<1> DEFINE y == Popped(d, s)
<1>0. d \in Devices /\ f \in [Events -> Nat] /\ Numbered(d, f)
  BY DEF Sound
<1>1. /\ y \in Devices
      /\ \A q \in Streams : Size(y, q) \in Nat /\ Size(d, q) = Size(y, q) + Shift(s, q)
      /\ \A q \in Streams : \A l \in 1..Size(y, q) :
           At(y, q, l) = At(d, q, l + Shift(s, q)) /\ l + Shift(s, q) \in 1..Size(d, q)
  BY <1>0, PopShifts DEF Free
<1>2. Passed(d, f, s) \in [Events -> Nat] /\ Numbered(y, Passed(d, f, s))
  BY <1>0, PopNumbered
<1> HIDE DEF y
<1>3. ASSUME NEW p \in Streams, NEW t \in Streams, NEW i \in 1..Size(y, p), NEW j \in 1..Size(y, t),
             p # t, Clash(u, At(y, p, i), At(y, t, j))
      PROVE  Before(y, p, i, t, j) \/ Before(y, t, j, p, i)
  <2>1. /\ i + Shift(s, p) \in 1..Size(d, p) /\ At(y, p, i) = At(d, p, i + Shift(s, p))
        /\ j + Shift(s, t) \in 1..Size(d, t) /\ At(y, t, j) = At(d, t, j + Shift(s, t))
        /\ i \in Nat /\ 1 <= i /\ j \in Nat /\ 1 <= j
    BY <1>1
  <2>2. \/ Before(d, p, i + Shift(s, p), t, j + Shift(s, t))
        \/ Before(d, t, j + Shift(s, t), p, i + Shift(s, p))
    BY <1>3, <2>1 DEF Sound, Ordered
  <2> QED BY <1>0, <2>1, <2>2, BeforePops DEF y
<1>4. Ordered(u, y)
  BY <1>3 DEF Ordered
<1>5. ASSUME NEW t \in Streams, NEW j \in 1..Size(y, t), NEW b \in Expects(u, At(y, t, j))
      PROVE  Sees(u, y, x, t, j, b, Needs(At(y, t, j), b))
  <2>1. /\ j + Shift(s, t) \in 1..Size(d, t) /\ At(y, t, j) = At(d, t, j + Shift(s, t))
        /\ j \in Nat /\ 1 <= j
    BY <1>1
  <2>2. b \in Buffers
    BY <1>1, BuffersOf
  <2>3. Sees(u, d, m, t, j + Shift(s, t), b, Needs(At(y, t, j), b))
    BY <1>5, <2>1 DEF Sound, AllSee
  <2> QED BY <1>0, <2>1, <2>2, <2>3, SeesPops DEF y
<1>6. AllSee(u, y, x)
  BY <1>5 DEF AllSee
<1>7. Sound(u, y, Passed(d, f, s), x)
  BY <1>1, <1>2, <1>4, <1>6 DEF Sound
<1> QED BY <1>7 DEF y

----------------------------------------------------------------------------
(* What the host counts on, one command later.                               *)

\* Whatever follows the first position stays behind it.
LEMMA MarkedGrows ==
  ASSUME NEW d, NEW y, Grows(d, y), NEW s \in Streams, NEW i \in Nat, 1 <= i, NEW e,
         Marked(d, s, i, e)
  PROVE  Marked(y, s, i, e)
<1>1. PICK k \in i..Size(d, s) : At(d, s, k).op = "record" /\ At(d, s, k).event = e
  BY DEF Marked
<1>2. Size(d, s) \in Nat /\ Size(y, s) \in Nat /\ Size(d, s) <= Size(y, s)
  BY Positions DEF Grows
<1>3. k \in i..Size(y, s) /\ At(y, s, k) = At(d, s, k)
  BY <1>1, <1>2 DEF Grows
<1> QED BY <1>1, <1>3 DEF Marked

\* What a stream waits for already it still waits for after more calls.
LEMMA BehindGrows ==
  ASSUME NEW d, NEW y, Grows(d, y), NEW s \in Streams, NEW t \in Streams, NEW i \in Nat
  PROVE  /\ Behind(d, s, i, t) => Behind(y, s, i, t)
         /\ Before(d, s, i, t, NextPos(d, t)) => Before(y, s, i, t, NextPos(y, t))
<1>1. NextPos(d, t) \in Nat /\ NextPos(y, t) \in Nat /\ NextPos(d, t) <= NextPos(y, t)
  BY Positions DEF Grows
<1> QED BY <1>1, FencedGrows, BeforeGrows DEF Behind

\* One call keeps what the host knows of the queues, unless its own command is of
\* the kind that fact is about.
LEMMA CallKeeps ==
  ASSUME NEW u, NEW d \in Devices, NEW c \in Commands
  PROVE  LET y == Called(d, c)
         IN  /\ AllGrouped(u, d) /\ Grouped(u, c, c.on) => AllGrouped(u, y)
             /\ AllStaged(d) /\ Staged(c, c.on) => AllStaged(y)
             /\ FillsMarked(d) /\ ~(Staging(c) /\ c.on = "stage") => FillsMarked(y)
             /\ GemmsMarked(d) /\ c.op # "gemm" => GemmsMarked(y)
             /\ CopiesMarked(d) /\ c.op # "copy" => CopiesMarked(y)
             /\ PlansBehind(d) /\ c.op # "plan" => PlansBehind(y)
             /\ ColdBehind(d) /\ c.op # "stage_cold" => ColdBehind(y)
             /\ \A H : FillsBehind(d, H) /\ ~(Staging(c) /\ c.on = "stage" /\ Half(c.group) \in H)
                         => FillsBehind(y, H)
             /\ \A n : CopiesBehind(d, n) /\ ~(c.op = "copy" /\ c.layer < n) => CopiesBehind(y, n)
             /\ \A n : CopiesFirst(d, n) /\ ~(c.op = "copy" /\ c.layer < n) => CopiesFirst(y, n)
             /\ \A n : CopiesBelow(d, n) /\ (c.op = "copy" => c.layer < n) => CopiesBelow(y, n)
<1> DEFINE y == Called(d, c)
           q == Queued(d, c)
<1>1. /\ y \in Devices /\ Grows(d, y)
      /\ \A s \in Streams : s # c.on => Size(y, s) = Size(d, s)
      /\ Size(y, c.on) = Size(d, c.on) + 1
      /\ At(y, c.on, Size(y, c.on)) = q
  BY CallAppends, CallGrows
<1>2. /\ q.op = c.op
      /\ c.op \notin {"record", "wait"} => q = c
  BY QueuedIs
<1> HIDE DEF y, q
<1>3. /\ \A s \in Streams : Size(d, s) \in Nat /\ Size(y, s) \in Nat
      /\ \A s \in Streams : \A i \in 1..Size(y, s) :
           \/ i \in 1..Size(d, s) /\ i \in Nat /\ At(y, s, i) = At(d, s, i)
           \/ s = c.on /\ At(y, s, i) = q
  <2>1. \A s \in Streams : Size(d, s) \in Nat /\ Size(y, s) \in Nat
    BY <1>1, Positions
  <2> QED BY <1>1, <2>1 DEF Grows
<1>4. {"compute", "stage", "dma", "fork"} \subseteq Streams
  BY DEF Streams
<1>5. AllGrouped(u, d) /\ Grouped(u, c, c.on) => AllGrouped(u, y)
  BY <1>2, <1>3 DEF AllGrouped, Grouped
<1>6. AllStaged(d) /\ Staged(c, c.on) => AllStaged(y)
  BY <1>2, <1>3 DEF AllStaged, Staged
<1>7. FillsMarked(d) /\ ~(Staging(c) /\ c.on = "stage") => FillsMarked(y)
  BY <1>1, <1>2, <1>3, <1>4, MarkedGrows DEF FillsMarked, Staging
<1>8. GemmsMarked(d) /\ c.op # "gemm" => GemmsMarked(y)
  BY <1>1, <1>2, <1>3, <1>4, MarkedGrows DEF GemmsMarked
<1>9. CopiesMarked(d) /\ c.op # "copy" => CopiesMarked(y)
  BY <1>1, <1>2, <1>3, <1>4, MarkedGrows DEF CopiesMarked
<1>10. PlansBehind(d) /\ c.op # "plan" => PlansBehind(y)
  BY <1>1, <1>2, <1>3, <1>4, BehindGrows DEF PlansBehind
<1>11. ColdBehind(d) /\ c.op # "stage_cold" => ColdBehind(y)
  BY <1>1, <1>2, <1>3, <1>4, BehindGrows DEF ColdBehind
<1>12. ASSUME NEW H, FillsBehind(d, H), ~(Staging(c) /\ c.on = "stage" /\ Half(c.group) \in H)
       PROVE  FillsBehind(y, H)
  BY <1>1, <1>2, <1>3, <1>4, <1>12, BehindGrows DEF FillsBehind, Staging
<1>13. ASSUME NEW n, CopiesBehind(d, n), ~(c.op = "copy" /\ c.layer < n)
       PROVE  CopiesBehind(y, n)
  BY <1>1, <1>2, <1>3, <1>4, <1>13, BehindGrows DEF CopiesBehind
<1>14. ASSUME NEW n, CopiesFirst(d, n), ~(c.op = "copy" /\ c.layer < n)
       PROVE  CopiesFirst(y, n)
  BY <1>1, <1>2, <1>3, <1>4, <1>14, BehindGrows DEF CopiesFirst
<1>15. ASSUME NEW n, CopiesBelow(d, n), c.op = "copy" => c.layer < n
       PROVE  CopiesBelow(y, n)
  BY <1>2, <1>3, <1>4, <1>15 DEF CopiesBelow
<1> QED BY <1>5, <1>6, <1>7, <1>8, <1>9, <1>10, <1>11, <1>12, <1>13, <1>14, <1>15 DEF y

\* A wait covers what the event's record follows.
LEMMA WaitCovers ==
  ASSUME NEW d \in Devices, NEW f \in [Events -> Nat], Numbered(d, f),
         NEW c \in Syncs, c.op = "wait", NEW s \in Streams, NEW i \in Nat, 1 <= i,
         Marked(d, s, i, c.event)
  PROVE  Behind(Called(d, c), s, i, c.on)
<1> DEFINE y == Called(d, c)
           t == c.on
           n == Size(d, t) + 1
<1>0. c \in Commands /\ t \in Streams /\ c.event \in Events
  BY DEF Commands, Syncs
<1>1. /\ y \in Devices /\ Grows(d, y)
      /\ Size(y, t) = n
      /\ At(y, t, n) = Queued(d, c)
  BY <1>0, CallAppends, CallGrows
<1>2. /\ Queued(d, c).op = "wait" /\ Queued(d, c).event = c.event
      /\ Queued(d, c).upto = d.recorded[c.event]
  BY <1>0, QueuedIs DEF Counted
<1> HIDE DEF y
<1>3. PICK k \in i..Size(d, s) : At(d, s, k).op = "record" /\ At(d, s, k).event = c.event
  BY DEF Marked
<1>4. /\ Size(d, s) \in Nat /\ Size(d, t) \in Nat /\ Size(y, s) \in Nat /\ Size(d, s) <= Size(y, s)
      /\ NextPos(y, t) = n + 1
  BY <1>0, <1>1, Positions DEF Grows
<1>5. k \in 1..Size(d, s) /\ k \in 1..Size(y, s) /\ i <= k /\ n \in 1..Size(y, t) /\ n <= n + 1
  BY <1>1, <1>3, <1>4
<1>6. At(y, s, k) = At(d, s, k)
  BY <1>1, <1>5 DEF Grows
<1>7. At(d, s, k).upto <= d.recorded[c.event]
  BY <1>3, <1>5, RecordFacts
<1>8. Covers(At(y, s, k), At(y, t, n))
  BY <1>1, <1>2, <1>3, <1>6, <1>7 DEF Covers
<1>9. Behind(y, s, i, t)
  BY <1>4, <1>5, <1>8 DEF Behind, Fenced
<1> QED BY <1>9 DEF y

\* A record marks all that its stream was given before.
LEMMA RecordMarks ==
  ASSUME NEW d \in Devices, NEW c \in Syncs, c.op = "record"
  PROVE  LET y == Called(d, c)
         IN  /\ Size(y, c.on) \in Nat /\ Size(y, c.on) = Size(d, c.on) + 1
             /\ \A i \in 1..Size(y, c.on) : Marked(y, c.on, i, c.event)
<1> DEFINE y == Called(d, c)
           t == c.on
<1>0. c \in Commands /\ t \in Streams
  BY DEF Commands, Syncs
<1>1. /\ Size(y, t) = Size(d, t) + 1
      /\ At(y, t, Size(y, t)) = Queued(d, c)
  BY <1>0, CallAppends
<1>2. /\ Queued(d, c).op = "record" /\ Queued(d, c).event = c.event
  BY <1>0, QueuedIs
<1>3. Size(d, t) \in Nat
  BY <1>0, Positions
<1> HIDE DEF y
<1>4. ASSUME NEW i \in 1..Size(y, t)
      PROVE  Marked(y, t, i, c.event)
  <2>1. Size(y, t) \in i..Size(y, t)
    BY <1>1, <1>3
  <2> QED BY <1>1, <1>2, <2>1 DEF Marked
<1> QED BY <1>1, <1>3, <1>4 DEF y

\* What the compute stream waits for is before all that is called behind a hand
\* over from it.
LEMMA ThroughCompute ==
  ASSUME NEW d, NEW y, Grows(d, y), NEW s \in Streams, NEW t \in Streams, NEW i \in Nat,
         Behind(d, s, i, "compute"),
         \A c \in 1..Size(d, "compute") : Behind(y, "compute", c, t)
  PROVE  Before(y, s, i, t, NextPos(y, t))
<1> DEFINE c == Size(d, "compute")
<1>1. PICK k \in 1..Size(d, s), n \in 1..c : i <= k /\ Covers(At(d, s, k), At(d, "compute", n))
  BY DEF Behind, Fenced
<1>2. "compute" \in Streams /\ c \in Nat /\ Size(y, "compute") \in Nat /\ c <= Size(y, "compute")
  BY Positions DEF Grows, Streams
<1>3. c \in 1..c /\ c \in 1..Size(y, "compute") /\ n <= c
  BY <1>1, <1>2
<1>4. Fenced(d, s, i, "compute", c)
  BY <1>1, <1>3 DEF Fenced
<1>5. Fenced(y, s, i, "compute", c)
  BY <1>2, <1>4, FencedGrows
<1>6. Fenced(y, "compute", c, t, NextPos(y, t))
  BY <1>3 DEF Behind
<1> QED BY <1>3, <1>5, <1>6 DEF Before

\* A stream finds what another would when the commands that change the buffer
\* are before whatever it is given next.
LEMMA FindsToo ==
  ASSUME NEW u, NEW d \in Devices, NEW m, NEW s \in Streams, NEW t \in Streams, NEW b, NEW v,
         Finds(u, d, m, s, b, v),
         \A p \in Streams : \A i \in 1..Size(d, p) :
           b \in Puts(u, At(d, p, i)) => Before(d, p, i, t, NextPos(d, t))
  PROVE  Finds(u, d, m, t, b, v)
<1>1. \A p \in Streams : \A i \in 1..Size(d, p) : ~Before(d, s, NextPos(d, s), p, i)
  BY EndIsLast
<1> QED BY <1>1 DEF Finds, Sees

\* A hand over: all of s is before what t is given next.
LEMMA HandOverCovers ==
  ASSUME NEW d \in Devices, NEW f \in [Events -> Nat], Numbered(d, f),
         NEW name, NEW s \in Streams, NEW t \in Streams,
         <<name, 0>> \in Events, HomeOf(<<name, 0>>) = s
  PROVE  LET y == HandOver(d, name, s, t)
         IN  /\ y \in Devices /\ Grows(d, y)
             /\ \A i \in 1..Size(d, s) : Behind(y, s, i, t)
<1> DEFINE a == Called(d, Record(s, name, 0))
           y == Called(a, Wait(t, name, 0))
<1>1. Record(s, name, 0) \in Syncs /\ Wait(t, name, 0) \in Syncs
  BY DEF Record, Wait, Syncs
<1>2. /\ Record(s, name, 0).on = s /\ Record(s, name, 0).event = <<name, 0>>
      /\ Record(s, name, 0).op = "record"
      /\ Wait(t, name, 0).on = t /\ Wait(t, name, 0).event = <<name, 0>> /\ Wait(t, name, 0).op = "wait"
  BY DEF Record, Wait
<1>3. Record(s, name, 0) \in Commands /\ Wait(t, name, 0) \in Commands
  BY <1>1 DEF Commands
<1>4. a \in Devices /\ Grows(d, a)
  BY <1>3, CallAppends, CallGrows
<1>5. Numbered(a, f)
  BY <1>2, <1>3, CallNumbered
<1>6. \A i \in 1..Size(a, s) : Marked(a, s, i, <<name, 0>>)
  BY <1>1, <1>2, RecordMarks
<1> HIDE DEF a
<1>7. y \in Devices /\ Grows(a, y)
  BY <1>3, <1>4, CallAppends, CallGrows
<1>8. Size(d, s) \in Nat /\ Size(a, s) \in Nat /\ Size(d, s) <= Size(a, s)
  BY <1>4, Positions DEF Grows
<1>9. ASSUME NEW i \in 1..Size(d, s)
      PROVE  Behind(y, s, i, t)
  <2>1. i \in 1..Size(a, s) /\ i \in Nat /\ 1 <= i
    BY <1>8
  <2>2. Marked(a, s, i, Wait(t, name, 0).event)
    BY <1>2, <1>6, <2>1
  <2> QED BY <1>1, <1>2, <1>4, <1>5, <2>1, <2>2, WaitCovers
<1>10. Grows(d, y)
  <2>1. \A p \in Streams : Size(d, p) \in Nat /\ Size(a, p) \in Nat /\ Size(y, p) \in Nat
    BY <1>4, <1>7, Positions
  <2>2. ASSUME NEW p \in Streams
        PROVE  /\ Size(d, p) <= Size(y, p)
               /\ \A i \in 1..Size(d, p) : At(y, p, i) = At(d, p, i)
    BY <1>4, <1>7, <2>1 DEF Grows
  <2> QED BY <1>4, <1>7, <2>2 DEF Grows
<1> QED BY <1>7, <1>9, <1>10 DEF HandOver, a

----------------------------------------------------------------------------
(* A stream's step.                                                          *)

\* The record behind a command is still behind it when a head is taken.
LEMMA MarkedPops ==
  ASSUME NEW d \in Devices, NEW s \in Streams, 1 \in 1..Size(d, s), NEW p \in Streams,
         NEW i \in Nat, 1 <= i, NEW e, Marked(d, p, i + Shift(s, p), e)
  PROVE  Marked(Popped(d, s), p, i, e)
<1> DEFINE y == Popped(d, s)
<1>1. /\ Size(y, p) \in Nat /\ Size(d, p) = Size(y, p) + Shift(s, p)
      /\ \A l \in 1..Size(y, p) : At(y, p, l) = At(d, p, l + Shift(s, p))
  BY PopShifts
<1> HIDE DEF y
<1>2. PICK k \in (i + Shift(s, p))..Size(d, p) : At(d, p, k).op = "record" /\ At(d, p, k).event = e
  BY DEF Marked
<1> DEFINE l == k - Shift(s, p)
<1>3. l \in i..Size(y, p) /\ l \in 1..Size(y, p) /\ l + Shift(s, p) = k
  BY <1>1, <1>2 DEF Shift
<1> HIDE DEF l
<1>4. At(y, p, l) = At(d, p, k)
  BY <1>1, <1>3
<1>5. Marked(y, p, i, e)
  BY <1>2, <1>3, <1>4 DEF Marked
<1> QED BY <1>5 DEF y

\* What a stream waits for stays so when a head is taken.
LEMMA BehindPops ==
  ASSUME NEW d \in Devices, NEW f \in [Events -> Nat], Numbered(d, f),
         NEW s \in Streams, Free(d, f, s), NEW p \in Streams, NEW t \in Streams,
         NEW i \in Nat, 1 <= i
  PROVE  LET y == Popped(d, s)
         IN  /\ Behind(d, p, i + Shift(s, p), t) => Behind(y, p, i, t)
             /\ Before(d, p, i + Shift(s, p), t, NextPos(d, t)) => Before(y, p, i, t, NextPos(y, t))
<1> DEFINE y == Popped(d, s)
<1>1. NextPos(d, t) = NextPos(y, t) + Shift(s, t) /\ NextPos(y, t) \in Nat
  BY PopShifts DEF Free
<1>2. Behind(d, p, i + Shift(s, p), t) => Behind(y, p, i, t)
  BY <1>1, FencedPops DEF Behind
<1>3. Before(d, p, i + Shift(s, p), t, NextPos(d, t)) => Before(y, p, i, t, NextPos(y, t))
  BY <1>1, BeforePops
<1> QED BY <1>2, <1>3

\* What the next command on a stream would find stays when a head is run.
LEMMA FindsPops ==
  ASSUME NEW u, NEW d \in Devices, NEW f \in [Events -> Nat], Numbered(d, f),
         NEW s \in Streams, Free(d, f, s), NEW m, NEW x, Left(u, d, m, s, x),
         NEW t \in Streams, NEW b \in Buffers, NEW v, Finds(u, d, m, t, b, v)
  PROVE  Finds(u, Popped(d, s), x, t, b, v)
<1> DEFINE y == Popped(d, s)
           n == NextPos(y, t)
<1>1. NextPos(d, t) = n + Shift(s, t) /\ n \in Nat /\ 1 <= n
  BY PopShifts DEF Free
<1> HIDE DEF n
<1>2. Sees(u, d, m, t, n + Shift(s, t), b, v)
  BY <1>1 DEF Finds
<1>3. Sees(u, Popped(d, s), x, t, n, b, v)
  BY <1>1, <1>2, SeesPops
<1> QED BY <1>3 DEF Finds, n

\* Running a head keeps each fact the host knows of the queues.
LEMMA PopKeeps ==
  ASSUME NEW u, NEW d \in Devices, NEW f \in [Events -> Nat], Numbered(d, f),
         NEW s \in Streams, Free(d, f, s)
  PROVE  LET y == Popped(d, s)
         IN  /\ AllGrouped(u, d) => AllGrouped(u, y)
             /\ AllStaged(d) => AllStaged(y)
             /\ FillsMarked(d) => FillsMarked(y)
             /\ GemmsMarked(d) => GemmsMarked(y)
             /\ CopiesMarked(d) => CopiesMarked(y)
             /\ PlansBehind(d) => PlansBehind(y)
             /\ ColdBehind(d) => ColdBehind(y)
             /\ \A H : FillsBehind(d, H) => FillsBehind(y, H)
             /\ \A n : CopiesBehind(d, n) => CopiesBehind(y, n)
             /\ \A n : CopiesFirst(d, n) => CopiesFirst(y, n)
             /\ \A n : CopiesBelow(d, n) => CopiesBelow(y, n)
<1> DEFINE y == Popped(d, s)
<1>1. \A p \in Streams : \A i \in 1..Size(y, p) :
           /\ At(y, p, i) = At(d, p, i + Shift(s, p))
           /\ i + Shift(s, p) \in 1..Size(d, p)
           /\ i \in Nat /\ 1 <= i
  BY PopShifts DEF Free
<1>2. \A p, t \in Streams : \A i \in 1..Size(y, p) :
        /\ Behind(d, p, i + Shift(s, p), t) => Behind(y, p, i, t)
        /\ Before(d, p, i + Shift(s, p), t, NextPos(d, t)) => Before(y, p, i, t, NextPos(y, t))
  BY <1>1, BehindPops
<1>3. \A p \in Streams : \A i \in 1..Size(y, p) : \A e :
        Marked(d, p, i + Shift(s, p), e) => Marked(y, p, i, e)
  BY <1>1, MarkedPops DEF Free
<1> HIDE DEF y
<1>4. {"compute", "stage", "dma", "fork"} \subseteq Streams
  BY DEF Streams
<1>5. AllGrouped(u, d) => AllGrouped(u, y)
  BY <1>1 DEF AllGrouped
<1>6. AllStaged(d) => AllStaged(y)
  BY <1>1 DEF AllStaged
<1>7. FillsMarked(d) => FillsMarked(y)
  BY <1>1, <1>3, <1>4 DEF FillsMarked
<1>8. GemmsMarked(d) => GemmsMarked(y)
  BY <1>1, <1>3, <1>4 DEF GemmsMarked
<1>9. CopiesMarked(d) => CopiesMarked(y)
  BY <1>1, <1>3, <1>4 DEF CopiesMarked
<1>10. PlansBehind(d) => PlansBehind(y)
  BY <1>1, <1>2, <1>4 DEF PlansBehind
<1>11. ColdBehind(d) => ColdBehind(y)
  BY <1>1, <1>2, <1>4 DEF ColdBehind
<1>12. \A H : FillsBehind(d, H) => FillsBehind(y, H)
  BY <1>1, <1>2, <1>4 DEF FillsBehind
<1>13. \A n : CopiesBehind(d, n) => CopiesBehind(y, n)
  BY <1>1, <1>2, <1>4 DEF CopiesBehind
<1>14. \A n : CopiesFirst(d, n) => CopiesFirst(y, n)
  BY <1>1, <1>2, <1>4 DEF CopiesFirst
<1>15. \A n : CopiesBelow(d, n) => CopiesBelow(y, n)
  BY <1>1, <1>4 DEF CopiesBelow
<1> QED BY <1>5, <1>6, <1>7, <1>8, <1>9, <1>10, <1>11, <1>12, <1>13, <1>14, <1>15 DEF y

\* The buffers the host's knowledge is about.
LEMMA KnownBuffers ==
  /\ ThePlanBuffer \in Buffers
  /\ \A n \in Nat : <<"ring", Half(n)>> \in Buffers
  /\ \A u : \A g \in 0..(Groups - 1) : <<"set", SetIn(u, g)>> \in Buffers /\ <<"eptr", g>> \in Buffers
<1>1. \A n \in Nat : Half(n) \in {0, 1}
  BY Halves
<1>2. \A u : \A g \in 0..(Groups - 1) : SetIn(u, g) \in {0, 1}
  BY <1>1, Sizes DEF SetIn
<1> QED BY <1>1, <1>2 DEF Buffers, ThePlan, ThePlanBuffer

\* Running a head keeps what the host counts on (gen.rs reads no stream's
\* progress, but for the waits of the read back and of the chunk's end).
LEMMA PopKnows ==
  ASSUME NEW u, NEW d, NEW f, NEW m, Sound(u, d, f, m), NEW s \in Streams, Free(d, f, s),
         NEW x, Left(u, d, m, s, x), NEW h, HostKnows(u, d, m, h)
  PROVE  HostKnows(u, Popped(d, s), x, h)
<1> DEFINE y == Popped(d, s)
<1>0. d \in Devices /\ f \in [Events -> Nat] /\ Numbered(d, f)
  BY DEF Sound
<1>1. /\ AllGrouped(u, d) => AllGrouped(u, y)
      /\ AllStaged(d) => AllStaged(y)
      /\ FillsMarked(d) => FillsMarked(y)
      /\ GemmsMarked(d) => GemmsMarked(y)
      /\ CopiesMarked(d) => CopiesMarked(y)
      /\ PlansBehind(d) => PlansBehind(y)
      /\ ColdBehind(d) => ColdBehind(y)
      /\ \A H : FillsBehind(d, H) => FillsBehind(y, H)
      /\ \A n : CopiesBehind(d, n) => CopiesBehind(y, n)
      /\ \A n : CopiesFirst(d, n) => CopiesFirst(y, n)
      /\ \A n : CopiesBelow(d, n) => CopiesBelow(y, n)
  BY <1>0, PopKeeps
<1>2. \A t \in Streams : \A b \in Buffers : \A v : Finds(u, d, m, t, b, v) => Finds(u, y, x, t, b, v)
  BY <1>0, FindsPops
<1> HIDE DEF y
<1>3. h \in Hosts /\ h.layer \in Nat /\ h.layer + 1 \in Nat /\ h.group \in Nat
  BY Sizes DEF HostKnows, Hosts
<1>4. {"compute", "stage", "dma", "fork"} \subseteq Streams
  BY DEF Streams
<1>5. \A t \in {"compute", "stage", "dma"} : \A l \in Nat : RingHas(u, d, m, t, l) => RingHas(u, y, x, t, l)
  BY <1>2, <1>4, KnownBuffers DEF RingHas
<1>6. \A t \in {"compute", "stage"} :
        Finds(u, d, m, t, ThePlanBuffer, OwnPlan(h)) => Finds(u, y, x, t, ThePlanBuffer, OwnPlan(h))
  BY <1>2, <1>4, KnownBuffers
<1>7. Grouping(u, d) => Grouping(u, y)
  BY <1>1 DEF Grouping
<1>8. AtChunk(d) => AtChunk(y)
  BY <1>1 DEF AtChunk
<1>9. AtLayer(u, d, m, h) => AtLayer(u, y, x, h)
  BY <1>1, <1>3, <1>5 DEF AtLayer
<1>10. Planned(u, d, m, h) => Planned(u, y, x, h)
  BY <1>1, <1>3, <1>5, <1>6 DEF Planned
<1>11. AtGroups(u, d, m, h) => AtGroups(u, y, x, h)
  <2>1. Ahead(h) => h.group \in 0..(Groups - 1)
    BY <1>3, Sizes DEF Ahead, Hosts
  <2>2. Ahead(h) /\ SetHas(u, d, m, "stage", h, h.group) => SetHas(u, y, x, "stage", h, h.group)
    BY <1>2, <1>4, <2>1, KnownBuffers DEF SetHas
  <2> QED BY <1>1, <2>2 DEF AtGroups
<1>12. HostKnows(u, y, x, h)
  BY <1>1, <1>7, <1>8, <1>9, <1>10, <1>11 DEF HostKnows
<1> QED BY <1>12 DEF y

----------------------------------------------------------------------------
(* Types of the buffers, and the buffers after a command.                    *)

Contents(p, r, s, e) ==
  /\ p \in Plans
  /\ r \in [{0, 1} -> -1..(Layers - 1)]
  /\ s \in [{0, 1} -> [plan : Plans, group : 0..(Groups - 1), from : -1..(Layers - 1)]]
  /\ e \in [0..(Groups - 1) -> Plans]

\* The buffers by name.
LEMMA MemoryOf ==
  ASSUME NEW p, NEW r, NEW s, NEW e
  PROVE  LET m == Memory(p, r, s, e)
         IN  /\ m[<<"plan", 0>>] = p
             /\ \A i \in {0, 1} : m[<<"ring", i>>] = r[i] /\ m[<<"set", i>>] = s[i]
             /\ \A g \in 0..(Groups - 1) : m[<<"eptr", g>>] = e[g]
<1> DEFINE m == Memory(p, r, s, e)
<1>1. \A b \in Buffers : m[b] = CASE b[1] = "plan" -> p
                                  [] b[1] = "ring" -> r[b[2]]
                                  [] b[1] = "set"  -> s[b[2]]
                                  [] b[1] = "eptr" -> e[b[2]]
  BY DEF Memory
<1> HIDE DEF m
<1>2. <<"plan", 0>> \in Buffers
  BY DEF Buffers, ThePlan
<1>3. \A i \in {0, 1} : <<"ring", i>> \in Buffers /\ <<"set", i>> \in Buffers
  BY DEF Buffers
<1>4. \A g \in 0..(Groups - 1) : <<"eptr", g>> \in Buffers
  BY DEF Buffers
<1>5. m[<<"plan", 0>>] = p
  BY <1>1, <1>2
<1>6. \A i \in {0, 1} : m[<<"ring", i>>] = r[i] /\ m[<<"set", i>>] = s[i]
  BY <1>1, <1>3
<1>7. ASSUME NEW g \in 0..(Groups - 1)
      PROVE  m[<<"eptr", g>>] = e[g]
  <2>1. <<"eptr", g>>[1] = "eptr" /\ <<"eptr", g>>[2] = g
    OBVIOUS
  <2> QED BY <1>1, <1>4, <2>1
<1> QED BY <1>5, <1>6, <1>7 DEF m

\* Two memories that agree on what is not put, and hold what is.
LEMMA LeftWhen ==
  ASSUME NEW u, NEW d, NEW m, NEW s, NEW x,
         LET w == At(d, s, 1)
         IN  /\ x[<<"plan", 0>>] = IF <<"plan", 0>> \in Puts(u, w) THEN Leaves(w, <<"plan", 0>>)
                                   ELSE m[<<"plan", 0>>]
             /\ \A n \in {"ring", "set"} : \A i \in {0, 1} :
                  x[<<n, i>>] = IF <<n, i>> \in Puts(u, w) THEN Leaves(w, <<n, i>>) ELSE m[<<n, i>>]
             /\ \A g \in 0..(Groups - 1) :
                  x[<<"eptr", g>>] = IF <<"eptr", g>> \in Puts(u, w) THEN Leaves(w, <<"eptr", g>>)
                                     ELSE m[<<"eptr", g>>]
  PROVE  Left(u, d, m, s, x)
  BY DEF Left, Buffers, ThePlan

\* What a command that may run does to the buffers is what it leaves in them.
LEMMA RunLeaves ==
  ASSUME Sound(build, driver, fired, Content), build \in AllBuilds,
         Contents(plan, ring, slots, eptr),
         NEW s \in Streams, Free(driver, fired, s), Run(s), At(driver, s, 1) = Head(Queue(s))
  PROVE  Left(build, driver, Content, s, Content') /\ Contents(plan, ring, slots, eptr)'
<1> DEFINE w == At(driver, s, 1)
           m == Content
           x == Memory(plan', ring', slots', eptr')
<1>1. /\ plan' = IF w.op = "plan" THEN PlanOf(w.chunk, w.layer) ELSE plan
      /\ ring' = IF w.op = "copy" THEN [ring EXCEPT ![Half(w.layer)] = w.layer] ELSE ring
      /\ w.op = "stage" => StageKernel(w)
      /\ w.op = "memcpy" => CopyGroup(w)
      /\ w.op = "stage_cold" => StageCold(w)
      /\ w.op \notin {"stage", "memcpy", "stage_cold"} => slots' = slots /\ eptr' = eptr
  BY DEF Run
<1>2. w \in Commands /\ \A b \in Expects(build, w) : m[b] = Needs(w, b)
  BY Positions, FreeReads DEF Sound, Free
<1>3. /\ m[<<"plan", 0>>] = plan
      /\ \A i \in {0, 1} : m[<<"ring", i>>] = ring[i] /\ m[<<"set", i>>] = slots[i]
      /\ \A g \in 0..(Groups - 1) : m[<<"eptr", g>>] = eptr[g]
  BY MemoryOf DEF Content
<1>4. /\ x[<<"plan", 0>>] = plan'
      /\ \A i \in {0, 1} : x[<<"ring", i>>] = ring'[i] /\ x[<<"set", i>>] = slots'[i]
      /\ \A g \in 0..(Groups - 1) : x[<<"eptr", g>>] = eptr'[g]
  BY MemoryOf
<1>5. Content' = x
  BY DEF Content, Memory
<1> HIDE DEF w, m, x
<1> USE DEF Contents
<1>6. SUFFICES Left(build, driver, m, s, x) /\ Contents(plan', ring', slots', eptr')
  BY <1>5 DEF m
<1>7. ASSUME /\ x[<<"plan", 0>>] = IF <<"plan", 0>> \in Puts(build, w)
                                   THEN Leaves(w, <<"plan", 0>>) ELSE m[<<"plan", 0>>]
             /\ \A i \in {0, 1} :
                  /\ x[<<"ring", i>>] = IF <<"ring", i>> \in Puts(build, w)
                                        THEN Leaves(w, <<"ring", i>>) ELSE m[<<"ring", i>>]
                  /\ x[<<"set", i>>] = IF <<"set", i>> \in Puts(build, w)
                                       THEN Leaves(w, <<"set", i>>) ELSE m[<<"set", i>>]
             /\ \A g \in 0..(Groups - 1) :
                  x[<<"eptr", g>>] = IF <<"eptr", g>> \in Puts(build, w)
                                     THEN Leaves(w, <<"eptr", g>>) ELSE m[<<"eptr", g>>]
      PROVE  Left(build, driver, m, s, x)
  BY <1>7, LeftWhen DEF w
<1>8. CASE w.op \in {"record", "wait"}
  <2>1. Puts(build, w) = {}
    BY <1>8, SyncsTouchNothing
  <2>2. plan' = plan /\ ring' = ring /\ slots' = slots /\ eptr' = eptr
    BY <1>1, <1>8
  <2> QED BY <1>3, <1>4, <1>7, <2>1, <2>2
<1>9. ASSUME w \in Works
      PROVE  /\ w.op \in WorkOps /\ w.layer \in 0..(Layers - 1) /\ w.layer \in Nat
             /\ w.group \in 0..(Groups - 1) /\ w.group \in Nat
             /\ w.tiles \in Plans /\ Own(w) \in Plans
             /\ Half(w.layer) \in {0, 1} /\ SetIn(build, w.group) \in {0, 1}
             /\ SetOf(w.group) = SetIn(build, w.group)
  <2>1. /\ w.op \in WorkOps /\ w.layer \in 0..(Layers - 1) /\ w.layer \in Nat /\ w.chunk \in 0..(Chunks - 1)
        /\ w.group \in 0..(Groups - 1) /\ w.group \in Nat /\ w.tiles \in Plans
    BY <1>9, Sizes DEF Works
  <2>2. Half(w.layer) \in {0, 1} /\ Half(w.group) \in {0, 1}
    BY <2>1, Halves
  <2>3. Own(w) \in Plans
    <3>1. w.chunk \in -1..(Chunks - 1) /\ w.layer \in -1..(Layers - 1)
      BY <2>1, Sizes
    <3> QED BY <3>1 DEF Own, PlanOf, Plans
  <2> QED BY <2>1, <2>2, <2>3 DEF SetIn, SetOf, SideStream
<1>10. CASE w.op = "plan"
  <2>1. w \in Works
    BY <1>2, <1>10 DEF Commands, Syncs
  <2>2. plan' = Own(w) /\ ring' = ring /\ slots' = slots /\ eptr' = eptr
    BY <1>1, <1>10 DEF Own
  <2>3. Puts(build, w) = {<<"plan", 0>>} /\ Leaves(w, <<"plan", 0>>) = Own(w)
    BY <1>10 DEF Puts, Writes, ThePlan, Leaves
  <2> QED BY <1>3, <1>4, <1>7, <1>9, <2>1, <2>2, <2>3
<1>11. CASE w.op = "copy"
  <2>1. w \in Works
    BY <1>2, <1>11 DEF Commands, Syncs
  <2>2. plan' = plan /\ ring' = [ring EXCEPT ![Half(w.layer)] = w.layer] /\ slots' = slots /\ eptr' = eptr
    BY <1>1, <1>11
  <2>3. Puts(build, w) = {<<"ring", Half(w.layer)>>} /\ \A b : Leaves(w, b) = w.layer
    BY <1>11 DEF Puts, Writes, Leaves
  <2> QED BY <1>3, <1>4, <1>7, <1>9, <2>1, <2>2, <2>3
<1>12. CASE w.op = "memcpy"
  <2>1. w \in Works
    BY <1>2, <1>12 DEF Commands, Syncs
  <2> DEFINE e == Experts(w.tiles, w.group, w.layer)
             j == SetIn(build, w.group)
  <2>2. plan' = plan /\ ring' = ring /\ slots' = [slots EXCEPT ![j] = e] /\ eptr' = eptr
    BY <1>1, <1>9, <1>12, <2>1 DEF CopyGroup
  <2>3. Puts(build, w) = {<<"set", j>>} /\ \A b : Leaves(w, b) = e
    BY <1>12 DEF Puts, Writes, Leaves
  <2>4. e \in [plan : Plans, group : 0..(Groups - 1), from : -1..(Layers - 1)]
    BY <1>9, <2>1, Sizes DEF Experts
  <2>5. j \in {0, 1}
    BY <1>9, <2>1
  <2> HIDE DEF e, j
  <2> QED BY <1>3, <1>4, <1>7, <2>2, <2>3, <2>4, <2>5
<1>13. CASE w.op = "stage_cold"
  <2>1. w \in Works
    BY <1>2, <1>13 DEF Commands, Syncs
  <2> DEFINE e == Experts(Own(w), 0, w.layer)
  <2>2. plan' = plan /\ ring' = ring /\ slots' = [i \in {0, 1} |-> e] /\ eptr' = eptr
    BY <1>1, <1>13 DEF StageCold, Own
  <2>3. Puts(build, w) = {<<"set", 0>>, <<"set", 1>>} /\ \A b : Leaves(w, b) = e
    BY <1>13 DEF Puts, Writes, Leaves, BothSets
  <2>4. e \in [plan : Plans, group : 0..(Groups - 1), from : -1..(Layers - 1)]
    BY <1>9, <2>1, Sizes DEF Experts
  <2> HIDE DEF e
  <2> QED BY <1>3, <1>4, <1>7, <2>2, <2>3, <2>4
<1>14. CASE w.op = "stage"
  <2>1. w \in Works
    BY <1>2, <1>14 DEF Commands, Syncs
  <2> DEFINE e == Experts(Own(w), w.group, w.layer)
             j == SetIn(build, w.group)
             g == w.group
  <2>2. plan = Own(w)
    <3>1. <<"plan", 0>> \in Expects(build, w) /\ Needs(w, <<"plan", 0>>) = Own(w)
      BY <1>14 DEF Expects, Reads, ThePlan, Needs
    <3> QED BY <1>2, <1>3, <3>1
  <2>3. ASSUME build.async # 2, build.ring
        PROVE  ring[Half(w.layer)] = w.layer
    <3>1. /\ <<"ring", Half(w.layer)>> \in Expects(build, w)
          /\ Needs(w, <<"ring", Half(w.layer)>>) = w.layer
      BY <1>14, <2>3 DEF Expects, Reads, ThePlan, Needs
    <3> QED BY <1>2, <1>3, <1>9, <2>1, <3>1
  <2>4. /\ plan' = plan /\ ring' = ring /\ eptr' = [eptr EXCEPT ![g] = Own(w)]
        /\ build.async = 2 => slots' = slots
        /\ build.async # 2 => slots' = [slots EXCEPT ![j] = e]
    <3>1. eptr' = [eptr EXCEPT ![g] = Own(w)] /\ plan' = plan /\ ring' = ring
      BY <1>1, <1>14, <2>2 DEF StageKernel
    <3>2. build.async = 2 => slots' = slots
      BY <1>1, <1>14 DEF StageKernel
    <3>3. ASSUME build.async # 2
          PROVE  slots' = [slots EXCEPT ![j] = e]
      <4>1. slots' = [slots EXCEPT ![j] = Experts(plan, g, IF build.ring THEN ring[Half(w.layer)] ELSE w.layer)]
        BY <1>1, <1>9, <1>14, <2>1, <3>3 DEF StageKernel
      <4>2. (IF build.ring THEN ring[Half(w.layer)] ELSE w.layer) = w.layer
        BY <2>3, <3>3
      <4> QED BY <2>2, <4>1, <4>2
    <3> QED BY <3>1, <3>2, <3>3
  <2>5. /\ build.async = 2 => Puts(build, w) = {<<"eptr", g>>}
        /\ build.async # 2 => Puts(build, w) = {<<"eptr", g>>, <<"set", j>>}
        /\ Leaves(w, <<"eptr", g>>) = Own(w)
        /\ \A i : Leaves(w, <<"set", i>>) = e
    BY <1>14 DEF Puts, Writes, Leaves
  <2>6. e \in [plan : Plans, group : 0..(Groups - 1), from : -1..(Layers - 1)]
    BY <1>9, <2>1, Sizes DEF Experts
  <2>7. j \in {0, 1} /\ g \in 0..(Groups - 1) /\ Own(w) \in Plans
    BY <1>9, <2>1
  <2> HIDE DEF e, j, g
  <2>8. CASE build.async = 2
    BY <1>3, <1>4, <1>7, <2>4, <2>5, <2>7, <2>8
  <2>9. CASE build.async # 2
    BY <1>3, <1>4, <1>7, <2>4, <2>5, <2>6, <2>7, <2>9
  <2> QED BY <2>8, <2>9
<1>15. CASE w.op \in {"gemm", "gemv"}
  <2>1. Puts(build, w) = {}
    BY <1>15 DEF Puts, Writes
  <2>2. plan' = plan /\ ring' = ring /\ slots' = slots /\ eptr' = eptr
    BY <1>1, <1>15
  <2> QED BY <1>3, <1>4, <1>7, <2>1, <2>2
<1> QED BY <1>2, <1>8, <1>9, <1>10, <1>11, <1>12, <1>13, <1>14, <1>15 DEF Commands, Syncs, WorkOps

\* A command run by a stream keeps the invariant.
LEMMA StreamStep ==
  ASSUME RingInv, NEW s \in Streams, Run(s)
  PROVE  RingInv'
<1>1. /\ build \in Builds /\ build \in AllBuilds /\ Contents(plan, ring, slots, eptr)
      /\ Sound(build, driver, fired, Content) /\ HostKnows(build, driver, Content, host)
      /\ driver \in Devices
  BY Sizes DEF RingInv, Contents, Sound
<1>2. driver.queue[s] \in Seq(Commands) /\ driver.queue[s] # << >>
  BY <1>1 DEF Run, Runnable, Queue, Devices
<1>3. 1 \in 1..Size(driver, s) /\ At(driver, s, 1) = Head(Queue(s))
  <2>1. Len(driver.queue[s]) \in Nat /\ Len(driver.queue[s]) # 0
    BY <1>2, EmptySeq, LenProperties
  <2>2. Head(driver.queue[s]) = driver.queue[s][1]
    BY <1>2
  <2> QED BY <2>1, <2>2 DEF Size, At, Queue
<1>4. Free(driver, fired, s)
  BY <1>3 DEF Run, Runnable, Free
<1>5. /\ driver' = Popped(driver, s) /\ fired' = Passed(driver, fired, s)
      /\ build' = build /\ host' = host
  <2>1. driver' = [driver EXCEPT !.queue[s] = Tail(@)]
    BY DEF Run
  <2>2. driver = [queue |-> driver.queue, recorded |-> driver.recorded]
    BY <1>1 DEF Devices
  <2>3. driver' = Popped(driver, s)
    BY <2>1, <2>2 DEF Popped
  <2> QED BY <1>3, <2>3 DEF Run, Passed
<1>6. Left(build, driver, Content, s, Content') /\ Contents(plan, ring, slots, eptr)'
  BY <1>1, <1>3, <1>4, RunLeaves
<1>7. Sound(build', driver', fired', Content')
  BY <1>1, <1>4, <1>5, <1>6, PopSound
<1>8. HostKnows(build', driver', Content', host')
  BY <1>1, <1>4, <1>5, <1>6, PopKnows
<1> QED BY <1>1, <1>5, <1>6, <1>7, <1>8 DEF RingInv, Contents

----------------------------------------------------------------------------
(* Commands that touch no buffer.                                            *)

\* y is d with records and waits behind it: all that was counted on still holds.
Carries(u, m, d, y) ==
  /\ Grows(d, y)
  /\ \A s \in Streams : \A i \in 1..Size(y, s) :
       i <= Size(d, s) \/ At(y, s, i).op \in {"record", "wait"}
  /\ AllGrouped(u, d) => AllGrouped(u, y)
  /\ AllStaged(d) => AllStaged(y)
  /\ FillsMarked(d) => FillsMarked(y)
  /\ GemmsMarked(d) => GemmsMarked(y)
  /\ CopiesMarked(d) => CopiesMarked(y)
  /\ PlansBehind(d) => PlansBehind(y)
  /\ ColdBehind(d) => ColdBehind(y)
  /\ \A H : FillsBehind(d, H) => FillsBehind(y, H)
  /\ \A n : CopiesBehind(d, n) => CopiesBehind(y, n)
  /\ \A n : CopiesFirst(d, n) => CopiesFirst(y, n)
  /\ \A n : CopiesBelow(d, n) => CopiesBelow(y, n)
  /\ \A t \in Streams : \A b, v : Finds(u, d, m, t, b, v) => Finds(u, y, m, t, b, v)

\* A record or a wait keeps the queues sound, and carries over what was known.
LEMMA SyncCarries ==
  ASSUME NEW u, NEW d, NEW f, NEW m, Sound(u, d, f, m),
         NEW c \in Syncs, c.op = "record" => HomeOf(c.event) = c.on
  PROVE  Sound(u, Called(d, c), f, m) /\ Carries(u, m, d, Called(d, c))
<1> DEFINE y == Called(d, c)
<1>0. d \in Devices /\ c \in Commands /\ c.op \in {"record", "wait"} /\ c.on \in Streams
  BY DEF Sound, Commands, Syncs
<1>1. Sound(u, y, f, m)
  BY SyncFits, CallSound
<1>2. /\ Grows(d, y)
      /\ \A s \in Streams : s # c.on => Size(y, s) = Size(d, s)
      /\ Size(y, c.on) = Size(d, c.on) + 1
      /\ At(y, c.on, Size(y, c.on)) = Queued(d, c)
  BY <1>0, CallAppends, CallGrows
<1>3. Queued(d, c).op \in {"record", "wait"}
  BY <1>0, QueuedIs
<1>4. /\ Grouped(u, c, c.on) /\ Staged(c, c.on) /\ ~Staging(c)
      /\ c.op \notin {"gemm", "copy", "plan", "stage_cold"}
  BY <1>0 DEF Grouped, Staged, Staging
<1>5. /\ AllGrouped(u, d) => AllGrouped(u, y)
      /\ AllStaged(d) => AllStaged(y)
      /\ FillsMarked(d) => FillsMarked(y)
      /\ GemmsMarked(d) => GemmsMarked(y)
      /\ CopiesMarked(d) => CopiesMarked(y)
      /\ PlansBehind(d) => PlansBehind(y)
      /\ ColdBehind(d) => ColdBehind(y)
      /\ \A H : FillsBehind(d, H) => FillsBehind(y, H)
      /\ \A n : CopiesBehind(d, n) => CopiesBehind(y, n)
      /\ \A n : CopiesFirst(d, n) => CopiesFirst(y, n)
      /\ \A n : CopiesBelow(d, n) => CopiesBelow(y, n)
  BY <1>0, <1>4, CallKeeps
<1>6. Puts(u, c) = {}
  BY <1>0, SyncsTouchNothing
<1>7. \A t \in Streams : \A b, v : Finds(u, d, m, t, b, v) => Finds(u, y, m, t, b, v)
  BY <1>0, <1>6, FindsCall
<1> HIDE DEF y
<1>8. \A s \in Streams : \A i \in 1..Size(y, s) :
        i <= Size(d, s) \/ At(y, s, i).op \in {"record", "wait"}
  <2>1. \A s \in Streams : Size(d, s) \in Nat
    BY <1>0, Positions
  <2> QED BY <1>0, <1>2, <1>3, <2>1
<1>9. Carries(u, m, d, y)
  BY <1>2, <1>5, <1>7, <1>8 DEF Carries
<1> QED BY <1>1, <1>9 DEF y

\* Carrying over composes.
LEMMA CarriesOn ==
  ASSUME NEW u, NEW m, NEW d, NEW x, NEW y, Carries(u, m, d, x), Carries(u, m, x, y)
  PROVE  Carries(u, m, d, y)
<1>1. /\ d \in Devices /\ x \in Devices /\ y \in Devices
      /\ \A s \in Streams : Size(d, s) \in Nat /\ Size(x, s) \in Nat /\ Size(y, s) \in Nat
  BY Positions DEF Carries, Grows
<1>2. Grows(d, y)
  <2>1. ASSUME NEW s \in Streams
        PROVE  Size(d, s) <= Size(y, s) /\ \A i \in 1..Size(d, s) : At(y, s, i) = At(d, s, i)
    BY <1>1 DEF Carries, Grows
  <2> QED BY <1>1, <2>1 DEF Grows
<1>3. ASSUME NEW s \in Streams, NEW i \in 1..Size(y, s)
      PROVE  i <= Size(d, s) \/ At(y, s, i).op \in {"record", "wait"}
  <2>1. CASE i <= Size(x, s)
    <3>1. i \in 1..Size(x, s) /\ At(y, s, i) = At(x, s, i)
      BY <1>1, <2>1 DEF Carries, Grows
    <3> QED BY <3>1 DEF Carries
  <2> QED BY <2>1 DEF Carries
<1> QED BY <1>2, <1>3 DEF Carries

\* No call carries over everything.
LEMMA CarriesAll ==
  ASSUME NEW u, NEW m, NEW d \in Devices
  PROVE  Carries(u, m, d, d)
<1>1. \A s \in Streams : Size(d, s) \in Nat
  BY Positions
<1> QED BY <1>1 DEF Carries, Grows

\* The events, the streams, and the commands of the host.
LEMMA EventsOf ==
  \A i \in {0, 1} :
     /\ <<"plan", i>> \in Events /\ HomeOf(<<"plan", i>>) = "compute"
     /\ <<"filled", i>> \in Events /\ HomeOf(<<"filled", i>>) = "stage"
     /\ <<"done", i>> \in Events /\ HomeOf(<<"done", i>>) = "compute"
     /\ <<"ring_filled", i>> \in Events /\ HomeOf(<<"ring_filled", i>>) = "dma"
     /\ <<"ring_done", i>> \in Events /\ HomeOf(<<"ring_done", i>>) = "compute"
     /\ <<"go", i>> \in Events /\ HomeOf(<<"go", i>>) = "compute"
     /\ <<"joined", i>> \in Events /\ HomeOf(<<"joined", i>>) = "fork"
  BY DEF Events, EventNames, HomeOf

\* The four streams of the prefill (gen.rs, Engine::moe_run).
LEMMA StreamsOf == {"compute", "stage", "dma", "fork"} \subseteq Streams
  BY DEF Streams

\* Records and waits are commands.
LEMMA SyncOf ==
  ASSUME NEW s \in Streams, NEW name, NEW i, <<name, i>> \in Events
  PROVE  /\ Record(s, name, i) \in Syncs /\ Record(s, name, i) \in Commands
         /\ Record(s, name, i).op = "record"
         /\ Record(s, name, i).on = s /\ Record(s, name, i).event = <<name, i>>
         /\ Wait(s, name, i) \in Syncs /\ Wait(s, name, i) \in Commands /\ Wait(s, name, i).op = "wait"
         /\ Wait(s, name, i).on = s /\ Wait(s, name, i).event = <<name, i>>
  BY DEF Record, Wait, Syncs, Commands

\* A hand-over keeps the queues sound, and puts all of the first stream behind
\* whatever the second is given next.
LEMMA HandOverCarries ==
  ASSUME NEW u, NEW d, NEW f, NEW m, Sound(u, d, f, m),
         NEW name, NEW s \in Streams, NEW t \in Streams,
         <<name, 0>> \in Events, HomeOf(<<name, 0>>) = s
  PROVE  LET y == HandOver(d, name, s, t)
         IN  Sound(u, y, f, m) /\ Carries(u, m, d, y) /\ \A i \in 1..Size(d, s) : Behind(y, s, i, t)
<1> DEFINE a == Called(d, Record(s, name, 0))
           y == Called(a, Wait(t, name, 0))
<1>1. Sound(u, a, f, m) /\ Carries(u, m, d, a)
  BY SyncOf, SyncCarries
<1>2. Sound(u, y, f, m) /\ Carries(u, m, a, y)
  <2> HIDE DEF a
  <2>1. Wait(t, name, 0) \in Syncs /\ Wait(t, name, 0).op # "record"
    BY SyncOf
  <2> QED BY <1>1, <2>1, SyncCarries
<1>3. Carries(u, m, d, y)
  BY <1>1, <1>2, CarriesOn
<1>4. \A i \in 1..Size(d, s) : Behind(HandOver(d, name, s, t), s, i, t)
  BY HandOverCovers DEF Sound
<1> QED BY <1>2, <1>3, <1>4 DEF HandOver

----------------------------------------------------------------------------
(* Commands that touch buffers.                                              *)

\* A command of the chunk and layer the host is at.
LEMMA WorkOf ==
  ASSUME host \in Hosts, host.chunk < Chunks, NEW s \in Streams, NEW kind \in WorkOps,
         NEW l \in 0..(Layers - 1), NEW g \in 0..(Groups - 1)
  PROVE  LET c == Work(s, kind, l, g)
         IN  /\ c \in Works /\ c \in Commands
             /\ c.op = kind /\ c.on = s /\ c.layer = l /\ c.group = g /\ c.tiles = host.tiles
             /\ Own(c) = PlanOf(host.chunk, l)
<1> DEFINE c == Work(s, kind, l, g)
<1>1. host.chunk \in 0..(Chunks - 1) /\ host.tiles \in Plans
  BY Sizes DEF Hosts
<1>2. c = [op |-> kind, on |-> s, chunk |-> host.chunk, layer |-> l, group |-> g, tiles |-> host.tiles]
  BY DEF Work
<1> HIDE DEF c
<1>3. c \in Works
  BY <1>1, <1>2 DEF Works
<1>4. c \in Commands
  BY <1>3 DEF Commands
<1>5. c.op = kind /\ c.on = s /\ c.layer = l /\ c.group = g /\ c.tiles = host.tiles /\ c.chunk = host.chunk
  BY <1>2
<1> QED BY <1>3, <1>4, <1>5 DEF c, Own

\* The kinds of commands each kind may not run with.
LEMMA ClashOf ==
  ASSUME NEW u, NEW v, NEW c, Clash(u, v, c)
  PROVE  /\ c.op = "plan" => v.op \in {"plan", "stage", "gemm"}
         /\ c.op = "copy" => v.op \in {"copy", "stage"}
         /\ c.op = "stage" =>
              \/ v.op \in {"plan", "stage", "memcpy", "gemv", "stage_cold"}
              \/ v.op = "copy" /\ Half(v.layer) = Half(c.layer)
              \/ v.op = "gemm" /\ (v.group = c.group \/ SetIn(u, v.group) = SetIn(u, c.group))
         /\ c.op = "memcpy" =>
              \/ v.op \in {"stage", "memcpy", "gemv", "stage_cold"}
              \/ v.op = "gemm" /\ SetIn(u, v.group) = SetIn(u, c.group)
         /\ c.op = "gemm" =>
              \/ v.op \in {"plan", "stage_cold"}
              \/ v.op \in {"stage", "memcpy"}
                 /\ (v.group = c.group \/ SetIn(u, v.group) = SetIn(u, c.group))
         /\ c.op = "gemv" => v.op \in {"stage", "memcpy", "stage_cold"}
         /\ c.op = "stage_cold" => v.op \in {"stage", "memcpy", "gemm", "gemv", "stage_cold"}
<1>1. PICK b : \/ b \in Writes(u, v) /\ (b \in Reads(u, c) \/ b \in Writes(u, c))
               \/ b \in Writes(u, c) /\ b \in Reads(u, v)
  BY DEF Clash
<1>2. CASE c.op = "plan"
  BY <1>1, <1>2 DEF Reads, Writes, ThePlan, BothSets
<1>3. CASE c.op = "copy"
  BY <1>1, <1>3 DEF Reads, Writes, ThePlan, BothSets
<1>4. CASE c.op = "stage"
  BY <1>1, <1>4 DEF Reads, Writes, ThePlan, BothSets
<1>5. CASE c.op = "memcpy"
  BY <1>1, <1>5 DEF Reads, Writes, ThePlan, BothSets
<1>6. CASE c.op = "gemm"
  BY <1>1, <1>6 DEF Reads, Writes, ThePlan, BothSets
<1>7. CASE c.op = "gemv"
  BY <1>1, <1>7 DEF Reads, Writes, ThePlan, BothSets
<1>8. CASE c.op = "stage_cold"
  BY <1>1, <1>8 DEF Reads, Writes, ThePlan, BothSets
<1> QED BY <1>2, <1>3, <1>4, <1>5, <1>6, <1>7, <1>8

\* The kinds of commands that change each buffer.
LEMMA PutsOf ==
  ASSUME NEW u, NEW v
  PROVE  /\ ThePlanBuffer \in Puts(u, v) => v.op = "plan"
         /\ \A k : <<"ring", k>> \in Puts(u, v) => v.op = "copy" /\ Half(v.layer) = k
         /\ \A k : <<"set", k>> \in Puts(u, v) =>
              \/ v.op \in {"stage", "memcpy"} /\ SetIn(u, v.group) = k
              \/ v.op = "stage_cold"
         /\ \A g : <<"eptr", g>> \in Puts(u, v) => v.op = "stage" /\ v.group = g
  BY DEF Puts, Writes, ThePlan, ThePlanBuffer, BothSets

\* On the staging stream, a set is a half.
LEMMA SetIsHalf ==
  ASSUME NEW u, u.async >= 1, NEW a, NEW b, a = b \/ SetIn(u, a) = SetIn(u, b)
  PROVE  Half(a) = Half(b)
  BY DEF SetIn

----------------------------------------------------------------------------
(* The start of a chunk.                                                     *)

\* The rest of a host's step: the buffers are as they were.
LEMMA HostStepGoal ==
  ASSUME RingInv, UNCHANGED <<build, fired, plan, ring, slots, eptr>>,
         Sound(build, driver', fired, Content), HostKnows(build, driver', Content, host')
  PROVE  RingInv'
<1>1. Content' = Content
  BY DEF Content, Memory
<1> QED BY <1>1 DEF RingInv

\* Only records and waits are queued.
Idle(d) == \A s \in Streams : \A i \in 1..Size(d, s) : At(d, s, i).op \in {"record", "wait"}

\* With every queue empty there is nothing to wait for.
LEMMA IdleKnows ==
  ASSUME NEW u, NEW d, Idle(d)
  PROVE  /\ AllGrouped(u, d) /\ AllStaged(d)
         /\ FillsMarked(d) /\ GemmsMarked(d) /\ CopiesMarked(d)
         /\ ColdBehind(d)
         /\ \A H : FillsBehind(d, H)
         /\ \A n : CopiesBehind(d, n) /\ CopiesBelow(d, n)
<1>1. AllGrouped(u, d) /\ AllStaged(d)
  BY DEF Idle, AllGrouped, AllStaged, Grouped, Staged
<1>2. FillsMarked(d) /\ \A H : FillsBehind(d, H)
  BY StreamsOf DEF Idle, FillsMarked, FillsBehind, Staging
<1>3. GemmsMarked(d) /\ CopiesMarked(d) /\ ColdBehind(d)
  BY StreamsOf DEF Idle, GemmsMarked, CopiesMarked, ColdBehind
<1>4. \A n : CopiesBehind(d, n) /\ CopiesBelow(d, n)
  BY StreamsOf DEF Idle, CopiesBehind, CopiesBelow
<1> QED BY <1>1, <1>2, <1>3, <1>4

\* Between two chunks an idle compute stream means idle streams.
LEMMA Drained ==
  ASSUME RingInv, host.at = "chunk", driver.queue["compute"] = << >>
  PROVE  Idle(driver)
<1>0. /\ driver \in Devices /\ host \in Hosts
      /\ HostKnows(build, driver, Content, host)
      /\ "compute" \in Streams
  BY StreamsOf DEF RingInv, Sound, HostKnows
<1>1. Size(driver, "compute") = 0
  BY DEF Size
<1>2. \A s \in Streams : \A i : ~Behind(driver, s, i, "compute")
  BY <1>1 DEF Behind, Fenced
<1>3. SUFFICES ASSUME NEW s \in Streams, NEW i \in 1..Size(driver, s),
                      At(driver, s, i).op \notin {"record", "wait"}
               PROVE  FALSE
  BY DEF Idle
<1> DEFINE w == At(driver, s, i)
<1>4. s # "compute"
  BY <1>1
<1>5. w \in Works /\ w.layer \in Nat /\ w.layer < Layers /\ w.group \in Nat
  BY <1>0, <1>3, Positions, Sizes DEF Commands, Syncs, Works
<1>6. CASE host.kind = "grouped"
  <2>1. Grouped(build, w, s) /\ FillsBehind(driver, {0, 1}) /\ CopiesBehind(driver, Layers)
    BY <1>0, <1>6 DEF HostKnows, Grouping, AllGrouped, AtChunk
  <2>2. \/ w.op \in {"stage", "memcpy"} /\ s = "stage"
        \/ w.op = "copy" /\ s = "dma"
    BY <1>3, <1>4, <2>1 DEF Grouped
  <2>3. Half(w.group) \in {0, 1}
    BY <1>5, Halves
  <2> QED BY <1>2, <1>5, <2>1, <2>2, <2>3, StreamsOf DEF FillsBehind, CopiesBehind, Staging
<1>7. CASE host.kind = "staged"
  <2>1. Staged(w, s) /\ ColdBehind(driver)
    BY <1>0, <1>7 DEF HostKnows, AllStaged
  <2>2. w.op = "stage_cold" /\ s = "fork"
    BY <1>3, <1>4, <2>1 DEF Staged
  <2> QED BY <1>2, <2>1, <2>2, StreamsOf DEF ColdBehind
<1> QED BY <1>0, <1>6, <1>7 DEF Hosts

\* pf_issue queues the copy of a slab behind whatever uses its half of the ring.
LEMMA PfIssueCalls ==
  ASSUME host \in Hosts, host.chunk < Chunks,
         NEW u, u.ring, NEW d, NEW f, NEW m, Sound(u, d, f, m), NEW l \in 0..(Layers - 1),
         AllGrouped(u, d), CopiesMarked(d),
         LET free == Called(d, Wait("dma", "ring_done", Half(l)))
         IN  \A s \in Streams : \A i \in 1..Size(d, s) :
               At(d, s, i).op = "stage" => Before(free, s, i, "dma", NextPos(free, "dma"))
  PROVE  LET y == PfIssue(d, l)
         IN  /\ Sound(u, y, f, m) /\ AllGrouped(u, y) /\ CopiesMarked(y)
             /\ FillsMarked(d) => FillsMarked(y)
             /\ GemmsMarked(d) => GemmsMarked(y)
             /\ \A H : FillsBehind(d, H) => FillsBehind(y, H)
             /\ \A n : CopiesBehind(d, n) /\ ~(l < n) => CopiesBehind(y, n)
             /\ \A n : CopiesBelow(d, n) /\ l < n => CopiesBelow(y, n)
             /\ RingHas(u, y, m, "dma", l)
             /\ \A k : Half(k) # Half(l) /\ RingHas(u, d, m, "dma", k) => RingHas(u, y, m, "dma", k)
             /\ (\A s \in Streams : \A i \in 1..Size(d, s) : At(d, s, i).op # "stage")
                  => \A s \in Streams : \A i \in 1..Size(y, s) : At(y, s, i).op # "stage"
<1> DEFINE w == Wait("dma", "ring_done", Half(l))
           c == Work("dma", "copy", l, 0)
           r == Record("dma", "ring_filled", Half(l))
           a == Called(d, w)
           b == Called(a, c)
           y == Called(b, r)
<1>0. l \in Nat /\ Half(l) \in {0, 1} /\ "dma" \in Streams /\ 0 \in 0..(Groups - 1)
  BY Sizes, Halves, StreamsOf
<1>1. /\ w \in Syncs /\ w.op = "wait" /\ w.on = "dma"
      /\ r \in Syncs /\ r.op = "record" /\ r.on = "dma" /\ r.event = <<"ring_filled", Half(l)>>
      /\ HomeOf(r.event) = "dma"
  <2>1. /\ <<"ring_done", Half(l)>> \in Events /\ <<"ring_filled", Half(l)>> \in Events
        /\ HomeOf(<<"ring_filled", Half(l)>>) = "dma"
    BY <1>0, EventsOf
  <2> QED BY <1>0, <2>1, SyncOf
<1>2. /\ c \in Commands /\ c.op = "copy" /\ c.on = "dma" /\ c.layer = l
  BY <1>0, WorkOf DEF WorkOps
<1> HIDE DEF w, c, r
<1>3. Sound(u, a, f, m) /\ Carries(u, m, d, a)
  BY <1>1, SyncCarries
<1>3a. AllGrouped(u, a) /\ CopiesMarked(a) /\ a \in Devices /\ Grows(d, a)
  BY <1>3 DEF Carries, Sound
<1>3b. \A s \in Streams : \A i \in 1..Size(a, s) : At(a, s, i).op = "stage" =>
          i \in 1..Size(d, s) /\ At(d, s, i).op = "stage"
  <2>1. \A s \in Streams : Size(d, s) \in Nat
    BY Positions DEF Sound
  <2> QED BY <1>3, <2>1 DEF Carries, Grows
<1>3c. \A s \in Streams : \A i \in 1..Size(a, s) :
          At(a, s, i).op = "stage" => Before(a, s, i, "dma", NextPos(a, "dma"))
  BY <1>3b DEF w
<1> HIDE DEF a
<1>4. Fits(u, a, m, c)
  <2>1. Expects(u, c) = {}
    BY <1>2 DEF Expects, Reads
  <2>2. ASSUME NEW s \in Streams, NEW i \in 1..Size(a, s), s # "dma", Clash(u, At(a, s, i), c)
        PROVE  Before(a, s, i, "dma", NextPos(a, "dma"))
    <3>1. At(a, s, i).op \in {"copy", "stage"}
      BY <1>2, <2>2, ClashOf
    <3>2. At(a, s, i).op # "copy"
      BY <1>3a, <2>2 DEF AllGrouped, Grouped
    <3> QED BY <1>3c, <3>1, <3>2
  <2> QED BY <1>2, <2>1, <2>2 DEF Fits
<1>5. Sound(u, b, f, m)
  BY <1>3, <1>4, CallSound
<1>6. /\ AllGrouped(u, b)
      /\ FillsMarked(a) => FillsMarked(b)
      /\ GemmsMarked(a) => GemmsMarked(b)
      /\ \A H : FillsBehind(a, H) => FillsBehind(b, H)
      /\ \A n : CopiesBehind(a, n) /\ ~(l < n) => CopiesBehind(b, n)
      /\ \A n : CopiesBelow(a, n) /\ l < n => CopiesBelow(b, n)
  <2>1. Grouped(u, c, c.on) /\ ~Staging(c) /\ c.op # "gemm"
    BY <1>2 DEF Grouped, Staging
  <2> QED BY <1>2, <1>3a, <2>1, CallKeeps
<1>7. /\ Puts(u, c) = {<<"ring", Half(l)>>} /\ Leaves(c, <<"ring", Half(l)>>) = l
  BY <1>2 DEF Puts, Writes, Leaves
<1>8. RingHas(u, b, m, "dma", l)
  <2>1. Finds(u, b, m, c.on, <<"ring", Half(l)>>, Leaves(c, <<"ring", Half(l)>>))
    BY <1>3a, <1>4, <1>7, FindsCalled
  <2> QED BY <1>2, <1>7, <2>1 DEF RingHas
<1>9. ASSUME NEW k, Half(k) # Half(l), RingHas(u, a, m, "dma", k)
      PROVE  RingHas(u, b, m, "dma", k)
  <2>1. <<"ring", Half(k)>> \notin Puts(u, c)
    BY <1>7, <1>9
  <2> QED BY <1>0, <1>2, <1>3a, <1>9, <2>1, FindsCall DEF RingHas
<1>10. /\ Grows(a, b) /\ b \in Devices
       /\ \A s \in Streams : s # "dma" => Size(b, s) = Size(a, s)
       /\ Size(b, "dma") = Size(a, "dma") + 1
       /\ At(b, "dma", Size(b, "dma")).op = "copy" /\ At(b, "dma", Size(b, "dma")).layer = l
       /\ \A s \in Streams : Size(a, s) \in Nat
  <2>1. /\ Grows(a, b) /\ b \in Devices
        /\ \A s \in Streams : s # c.on => Size(b, s) = Size(a, s)
        /\ Size(b, c.on) = Size(a, c.on) + 1
        /\ At(b, c.on, Size(b, c.on)) = Queued(a, c)
    BY <1>2, <1>3a, CallAppends, CallGrows
  <2>2. Queued(a, c) = c
    BY <1>2, QueuedIs
  <2>3. \A s \in Streams : Size(a, s) \in Nat
    BY <1>3a, Positions
  <2> QED BY <1>2, <2>1, <2>2, <2>3
<1> HIDE DEF b
<1>11. Sound(u, y, f, m) /\ Carries(u, m, b, y)
  BY <1>1, <1>5, SyncCarries
<1>12. \A i \in 1..Size(y, "dma") : Marked(y, "dma", i, <<"ring_filled", Half(l)>>)
  BY <1>1, <1>10, RecordMarks
<1> HIDE DEF y
<1>13. CopiesMarked(y)
  <2> SUFFICES ASSUME NEW i \in 1..Size(y, "dma"), At(y, "dma", i).op = "copy"
               PROVE  Marked(y, "dma", i, <<"ring_filled", Half(At(y, "dma", i).layer)>>)
    BY DEF CopiesMarked
  <2>1. i \in 1..Size(b, "dma") /\ At(y, "dma", i) = At(b, "dma", i) /\ Grows(b, y)
    BY <1>0, <1>10, <1>11 DEF Carries, Grows
  <2>2. CASE i = Size(b, "dma")
    BY <1>10, <1>12, <2>1, <2>2
  <2>3. CASE i # Size(b, "dma")
    <3>1. i \in 1..Size(a, "dma") /\ At(a, "dma", i) = At(y, "dma", i) /\ i \in Nat /\ 1 <= i
      BY <1>0, <1>10, <2>1, <2>3 DEF Grows
    <3>2. Marked(a, "dma", i, <<"ring_filled", Half(At(y, "dma", i).layer)>>)
      BY <1>3a, <3>1 DEF CopiesMarked
    <3>3. Marked(b, "dma", i, <<"ring_filled", Half(At(y, "dma", i).layer)>>)
      BY <1>0, <1>10, <3>1, <3>2, MarkedGrows
    <3> QED BY <1>0, <2>1, <3>1, <3>3, MarkedGrows
  <2> QED BY <2>2, <2>3
<1>14. ASSUME \A s \in Streams : \A i \in 1..Size(d, s) : At(d, s, i).op # "stage"
       PROVE  \A s \in Streams : \A i \in 1..Size(y, s) : At(y, s, i).op # "stage"
  <2> SUFFICES ASSUME NEW s \in Streams, NEW i \in 1..Size(y, s), At(y, s, i).op = "stage"
               PROVE  FALSE
    OBVIOUS
  <2>0. Size(b, s) \in Nat
    BY <1>10, Positions
  <2>1. i \in 1..Size(b, s) /\ At(b, s, i).op = "stage"
    BY <1>11, <2>0 DEF Carries, Grows
  <2>2. i \in 1..Size(a, s) /\ At(a, s, i).op = "stage"
    BY <1>10, <2>1 DEF Grows
  <2> QED BY <1>3b, <1>14, <2>2
<1>15. /\ AllGrouped(u, y)
       /\ FillsMarked(d) => FillsMarked(y)
       /\ GemmsMarked(d) => GemmsMarked(y)
       /\ \A H : FillsBehind(d, H) => FillsBehind(y, H)
       /\ \A n : CopiesBehind(d, n) /\ ~(l < n) => CopiesBehind(y, n)
       /\ \A n : CopiesBelow(d, n) /\ l < n => CopiesBelow(y, n)
  BY <1>3, <1>6, <1>11 DEF Carries
<1>16. /\ RingHas(u, y, m, "dma", l)
       /\ \A k : Half(k) # Half(l) /\ RingHas(u, d, m, "dma", k) => RingHas(u, y, m, "dma", k)
  BY <1>0, <1>3, <1>8, <1>9, <1>11 DEF Carries, RingHas
<1>17. y = PfIssue(d, l)
  BY DEF y, b, a, w, c, r, PfIssue
<1> QED BY <1>11, <1>13, <1>14, <1>15, <1>16, <1>17

\* The start of a chunk (its first two slabs issued) keeps the invariant.
LEMMA StartChunkStep ==
  ASSUME RingInv, NEW kind \in {"grouped", "staged"}, StartChunk(kind)
  PROVE  RingInv'
<1>0. /\ host \in Hosts /\ Sound(build, driver, fired, Content) /\ build \in Builds
      /\ 0 \in 0..(Layers - 1) /\ 1 \in 0..(Layers - 1) /\ host.chunk < Chunks
  BY Sizes DEF RingInv, HostKnows, StartChunk
<1>1. Idle(driver)
  BY Drained DEF StartChunk
<1>2. /\ host' = [host EXCEPT !.at = "layer", !.kind = kind, !.layer = 0]
      /\ host' \in Hosts /\ host'.at = "layer" /\ host'.kind = kind /\ host'.layer = 0
      /\ host'.chunk < Chunks
  BY <1>0 DEF StartChunk, Hosts
<1>3. UNCHANGED <<build, fired, plan, ring, slots, eptr>>
  BY DEF StartChunk
<1>4. CASE kind = "staged"
  <2>1. driver' = driver
    BY <1>4 DEF StartChunk
  <2>2. HostKnows(build, driver', Content, host')
    BY <1>1, <1>2, <1>4, <2>1, IdleKnows DEF HostKnows
  <2> QED BY <1>0, <1>3, <2>1, <2>2, HostStepGoal
<1>5. CASE kind = "grouped" /\ ~build.ring
  <2>1. driver' = driver
    BY <1>5 DEF StartChunk
  <2>2. HostKnows(build, driver', Content, host')
    BY <1>1, <1>2, <1>5, <2>1, IdleKnows DEF HostKnows, Grouping, AtLayer
  <2> QED BY <1>0, <1>3, <2>1, <2>2, HostStepGoal
<1>6. CASE kind = "grouped" /\ build.ring
  <2> DEFINE a == PfIssue(driver, 0)
             y == PfIssue(a, 1)
  <2>1. driver' = y
    BY <1>6 DEF StartChunk
  <2>2. /\ AllGrouped(build, driver) /\ CopiesMarked(driver) /\ FillsMarked(driver) /\ GemmsMarked(driver)
        /\ FillsBehind(driver, {0, 1}) /\ CopiesBehind(driver, 0) /\ CopiesBelow(driver, 2)
        /\ \A s \in Streams : \A i \in 1..Size(driver, s) : At(driver, s, i).op # "stage"
    BY <1>1, IdleKnows DEF Idle
  <2>3. /\ Sound(build, a, fired, Content) /\ AllGrouped(build, a) /\ CopiesMarked(a)
        /\ FillsMarked(a) /\ GemmsMarked(a) /\ FillsBehind(a, {0, 1})
        /\ CopiesBehind(a, 0) /\ CopiesBelow(a, 2)
        /\ RingHas(build, a, Content, "dma", 0)
        /\ \A s \in Streams : \A i \in 1..Size(a, s) : At(a, s, i).op # "stage"
    BY <1>0, <1>6, <2>2, PfIssueCalls
  <2> HIDE DEF a
  <2>4. Half(0) # Half(1)
    BY DEF Half
  <2>5. /\ Sound(build, y, fired, Content) /\ AllGrouped(build, y) /\ CopiesMarked(y)
        /\ FillsMarked(y) /\ GemmsMarked(y) /\ FillsBehind(y, {0, 1})
        /\ CopiesBehind(y, 0) /\ CopiesBelow(y, 2)
        /\ RingHas(build, y, Content, "dma", 0) /\ RingHas(build, y, Content, "dma", 1)
    BY <1>0, <1>6, <2>3, <2>4, PfIssueCalls
  <2> HIDE DEF y
  <2>6. Grouping(build, y) /\ AtLayer(build, y, Content, host')
    BY <1>2, <2>5 DEF Grouping, AtLayer
  <2>7. HostKnows(build, driver', Content, host')
    BY <1>2, <1>6, <2>1, <2>6 DEF HostKnows
  <2> QED BY <1>0, <1>3, <2>1, <2>5, <2>7, HostStepGoal
<1> QED BY <1>4, <1>5, <1>6

----------------------------------------------------------------------------
(* The plan of a layer.                                                      *)

\* A position of the grown queues that holds work is one of the old.
LEMMA WorkIsOld ==
  ASSUME NEW u, NEW m, NEW d, NEW y, Carries(u, m, d, y), NEW s \in Streams, NEW i \in 1..Size(y, s),
         At(y, s, i).op \notin {"record", "wait"}
  PROVE  i \in 1..Size(d, s) /\ i \in Nat /\ 1 <= i /\ At(y, s, i) = At(d, s, i)
<1>1. Size(d, s) \in Nat /\ Size(y, s) \in Nat
  BY Positions DEF Carries, Grows
<1> QED BY <1>1 DEF Carries, Grows

\* Who waits for the ring's half finds the slab: what would change it is before.
LEMMA RingToo ==
  ASSUME NEW u, NEW d \in Devices, NEW m, AllGrouped(u, d), NEW l \in Nat,
         CopiesBelow(d, l + 2), NEW s \in Streams, NEW t \in Streams, RingHas(u, d, m, s, l),
         \A i \in 1..Size(d, "dma") :
            At(d, "dma", i).op = "copy" /\ At(d, "dma", i).layer < l + 1
              => Before(d, "dma", i, t, NextPos(d, t))
  PROVE  RingHas(u, d, m, t, l)
<1>1. ASSUME NEW p \in Streams, NEW i \in 1..Size(d, p), <<"ring", Half(l)>> \in Puts(u, At(d, p, i))
      PROVE  Before(d, p, i, t, NextPos(d, t))
  <2> DEFINE w == At(d, p, i)
  <2>1. w.op = "copy" /\ Half(w.layer) = Half(l)
    BY <1>1, PutsOf
  <2>2. p = "dma"
    BY <2>1 DEF AllGrouped, Grouped
  <2>3. w.layer \in Nat
    BY <2>1, Positions, Sizes DEF Commands, Syncs, Works
  <2>4. w.layer < l + 2
    BY <2>1, <2>2 DEF CopiesBelow
  <2>5. w.layer < l + 1
    BY <2>1, <2>3, <2>4, HalfOfNext
  <2> QED BY <2>1, <2>2, <2>5
<1> QED BY <1>1, FindsToo DEF RingHas

\* The layer waits for its half of the ring.
LEMMA SlabCalls ==
  ASSUME NEW u, NEW d, NEW f, NEW m, Sound(u, d, f, m), Grouping(u, d),
         NEW l \in 0..(Layers - 1), FillsBehind(d, {0, 1}),
         CopiesBehind(d, l), CopiesBelow(d, l + 2),
         u.ring => RingHas(u, d, m, "dma", l),
         u.ring /\ l + 1 < Layers => RingHas(u, d, m, "dma", l + 1)
  PROVE  LET y == CalledIf(u.ring, d, Wait("compute", "ring_filled", Half(l)))
         IN  /\ Sound(u, y, f, m) /\ Grouping(u, y) /\ FillsBehind(y, {0, 1})
             /\ CopiesBehind(y, l + 1) /\ CopiesBelow(y, l + 2)
             /\ u.ring => RingHas(u, y, m, "compute", l)
             /\ u.ring /\ l + 1 < Layers => RingHas(u, y, m, "dma", l + 1)
<1>0. l \in Nat /\ Half(l) \in {0, 1} /\ {"compute", "dma"} \subseteq Streams
  BY Sizes, Halves, StreamsOf
<1>1. CASE ~u.ring
  <2>1. \A i \in 1..Size(d, "dma") : At(d, "dma", i).op # "copy"
    BY <1>0, <1>1 DEF Grouping, AllGrouped, Grouped
  <2>2. CopiesBehind(d, l + 1)
    BY <2>1 DEF CopiesBehind
  <2>3. CalledIf(u.ring, d, Wait("compute", "ring_filled", Half(l))) = d
    BY <1>1 DEF CalledIf
  <2> QED BY <1>1, <2>2, <2>3
<1>2. CASE u.ring
  <2> DEFINE c == Wait("compute", "ring_filled", Half(l))
             y == Called(d, c)
  <2>0. <<"ring_filled", Half(l)>> \in Events
    BY <1>0, EventsOf
  <2>1. /\ c \in Syncs /\ c.op = "wait" /\ c.on = "compute" /\ c.event = <<"ring_filled", Half(l)>>
    BY <1>0, <2>0, SyncOf
  <2> HIDE DEF c
  <2>2. Sound(u, y, f, m) /\ Carries(u, m, d, y)
    BY <2>1, SyncCarries
  <2>3. /\ Grouping(u, y) /\ FillsBehind(y, {0, 1})
        /\ CopiesBehind(y, l) /\ CopiesBelow(y, l + 2)
        /\ RingHas(u, y, m, "dma", l)
        /\ l + 1 < Layers => RingHas(u, y, m, "dma", l + 1)
    BY <1>0, <1>2, <2>2 DEF Grouping, Carries, RingHas
  <2>4. ASSUME NEW i \in 1..Size(d, "dma"), At(d, "dma", i).op = "copy", At(d, "dma", i).layer = l
        PROVE  Behind(y, "dma", i, "compute")
    <3>1. i \in Nat /\ 1 <= i
      BY <1>0, Positions DEF Sound
    <3>2. Marked(d, "dma", i, c.event)
      BY <2>1, <2>4 DEF Grouping, CopiesMarked
    <3>3. Behind(y, "dma", i, c.on)
      BY <1>0, <2>1, <3>1, <3>2, WaitCovers DEF Sound
    <3> QED BY <2>1, <3>3
  <2> HIDE DEF y
  <2>5. CopiesBehind(y, l + 1)
    <3> SUFFICES ASSUME NEW i \in 1..Size(y, "dma"), At(y, "dma", i).op = "copy", At(y, "dma", i).layer < l + 1
                 PROVE  Behind(y, "dma", i, "compute")
      BY DEF CopiesBehind
    <3>1. i \in 1..Size(d, "dma") /\ At(y, "dma", i) = At(d, "dma", i)
      BY <1>0, <2>2, WorkIsOld
    <3>2. At(y, "dma", i).layer \in Nat
      <4>1. At(y, "dma", i) \in Commands
        BY <1>0, <2>2, Positions DEF Sound
      <4> QED BY <4>1, Sizes DEF Commands, Syncs, Works
    <3>3. CASE At(y, "dma", i).layer = l
      BY <2>4, <3>1, <3>3
    <3>4. CASE At(y, "dma", i).layer < l
      BY <2>3, <3>4 DEF CopiesBehind
    <3> QED BY <1>0, <3>2, <3>3, <3>4
  <2>6. \A i \in 1..Size(y, "dma") :
            At(y, "dma", i).op = "copy" /\ At(y, "dma", i).layer < l + 1
              => Before(y, "dma", i, "compute", NextPos(y, "compute"))
    BY <2>5 DEF CopiesBehind, Behind, Before
  <2>7. RingHas(u, y, m, "compute", l)
    BY <1>0, <2>2, <2>3, <2>6, RingToo DEF Sound, Grouping
  <2>8. CalledIf(u.ring, d, Wait("compute", "ring_filled", Half(l))) = y
    BY <1>2 DEF CalledIf, y, c
  <2> QED BY <2>2, <2>3, <2>5, <2>7, <2>8
<1> QED BY <1>1, <1>2

\* The plan, and the staging stream behind it.
LEMMA PlanTilesCalls ==
  ASSUME host \in Hosts, host.chunk < Chunks, build \in AllBuilds,
         NEW d, NEW f, NEW m, Sound(build, d, f, m), Grouping(build, d),
         FillsBehind(d, {0, 1}), CopiesBehind(d, host.layer + 1), CopiesBelow(d, host.layer + 2),
         build.ring => RingHas(build, d, m, "compute", host.layer),
         build.ring /\ host.layer + 1 < Layers => RingHas(build, d, m, "dma", host.layer + 1)
  PROVE  LET y == PlanTiles(d)
         IN  /\ Sound(build, y, f, m) /\ Grouping(build, y) /\ FillsBehind(y, {0, 1})
             /\ Planned(build, y, m, host)
<1> DEFINE l == host.layer
           c == Work("compute", "plan", l, 0)
           b == Called(d, c)
           y == HandOver(b, "plan", "compute", "stage")
<1>0. /\ l \in 0..(Layers - 1) /\ l \in Nat /\ 0 \in 0..(Groups - 1)
      /\ {"compute", "stage", "dma"} \subseteq Streams
  BY Sizes, StreamsOf DEF Hosts
<1>1. c \in Commands /\ c.op = "plan" /\ c.on = "compute" /\ Own(c) = OwnPlan(host)
  BY <1>0, WorkOf DEF WorkOps, OwnPlan
<1> HIDE DEF c
<1>2. Fits(build, d, m, c)
  <2>1. Expects(build, c) = {}
    BY <1>1 DEF Expects, Reads
  <2>2. ASSUME NEW s \in Streams, NEW i \in 1..Size(d, s), s # "compute", Clash(build, At(d, s, i), c)
        PROVE  Before(d, s, i, "compute", NextPos(d, "compute"))
    <3>1. At(d, s, i).op \in {"plan", "stage", "gemm"}
      BY <1>1, <2>2, ClashOf
    <3>2. At(d, s, i).op = "stage" /\ s = "stage"
      BY <2>2, <3>1 DEF Grouping, AllGrouped, Grouped
    <3>3. Half(At(d, s, i).group) \in {0, 1}
      <4>1. At(d, s, i) \in Commands
        BY Positions DEF Sound
      <4> QED BY <3>2, <4>1, Sizes, Halves DEF Commands, Syncs, Works
    <3>4. Behind(d, s, i, "compute")
      BY <3>2, <3>3 DEF FillsBehind, Staging
    <3> QED BY <3>4 DEF Behind, Before
  <2> QED BY <1>1, <2>1, <2>2 DEF Fits
<1>3. Sound(build, b, f, m)
  BY <1>2, CallSound
<1>4. Grouping(build, b) /\ FillsBehind(b, {0, 1}) /\ CopiesBehind(b, l + 1) /\ CopiesBelow(b, l + 2)
  <2>1. Grouped(build, c, c.on) /\ ~Staging(c) /\ c.op \notin {"gemm", "copy"}
    BY <1>1 DEF Grouped, Staging
  <2> QED BY <1>1, <2>1, CallKeeps DEF Sound, Grouping
<1>5. Puts(build, c) = {ThePlanBuffer} /\ Leaves(c, ThePlanBuffer) = OwnPlan(host)
  BY <1>1 DEF Puts, Writes, ThePlan, ThePlanBuffer, Leaves
<1>6. Finds(build, b, m, "compute", ThePlanBuffer, OwnPlan(host))
  BY <1>1, <1>2, <1>5, FindsCalled DEF Sound
<1>7. /\ build.ring => RingHas(build, b, m, "compute", l)
      /\ build.ring /\ l + 1 < Layers => RingHas(build, b, m, "dma", l + 1)
  <2>1. \A k : <<"ring", k>> \notin Puts(build, c)
    BY <1>5 DEF ThePlanBuffer
  <2> QED BY <1>0, <1>1, <2>1, FindsCall DEF RingHas, Sound
<1> HIDE DEF b
<1>8. CASE ~SideStream
  <2>1. PlanTiles(d) = b
    BY <1>8 DEF PlanTiles, b, c
  <2>2. ~(build.async >= 1)
    BY <1>8 DEF SideStream
  <2> QED BY <1>3, <1>4, <1>6, <1>7, <2>1, <2>2 DEF Planned
<1>9. CASE SideStream
  <2>1. PlanTiles(d) = y
    BY <1>9 DEF PlanTiles, b, c
  <2>2. /\ Sound(build, y, f, m) /\ Carries(build, m, b, y)
        /\ \A i \in 1..Size(b, "compute") : Behind(y, "compute", i, "stage")
    <3>1. <<"plan", 0>> \in Events /\ HomeOf(<<"plan", 0>>) = "compute"
      BY EventsOf
    <3> QED BY <1>0, <1>3, <3>1, HandOverCarries
  <2> HIDE DEF y
  <2>3. /\ Grouping(build, y) /\ FillsBehind(y, {0, 1}) /\ CopiesBehind(y, l + 1) /\ CopiesBelow(y, l + 2)
        /\ Finds(build, y, m, "compute", ThePlanBuffer, OwnPlan(host))
        /\ build.ring => RingHas(build, y, m, "compute", l)
        /\ build.ring /\ l + 1 < Layers => RingHas(build, y, m, "dma", l + 1)
    <3>1. Grouping(build, y) /\ FillsBehind(y, {0, 1}) /\ CopiesBehind(y, l + 1) /\ CopiesBelow(y, l + 2)
      BY <1>4, <2>2 DEF Grouping, Carries
    <3>2. \A t \in Streams : \A x, v : Finds(build, b, m, t, x, v) => Finds(build, y, m, t, x, v)
      BY <2>2 DEF Carries
    <3> QED BY <1>0, <1>6, <1>7, <3>1, <3>2 DEF RingHas
  <2>4. PlansBehind(y)
    <3> SUFFICES ASSUME NEW i \in 1..Size(y, "compute"), At(y, "compute", i).op = "plan"
                 PROVE  Behind(y, "compute", i, "stage")
      BY DEF PlansBehind
    <3> QED BY <1>0, <2>2, WorkIsOld
  <2>5. CopiesFirst(y, l + 1)
    <3> SUFFICES ASSUME NEW i \in 1..Size(y, "dma"), At(y, "dma", i).op = "copy",
                        At(y, "dma", i).layer < l + 1
                 PROVE  Before(y, "dma", i, "stage", NextPos(y, "stage"))
      BY DEF CopiesFirst
    <3>1. i \in 1..Size(b, "dma") /\ i \in Nat /\ At(y, "dma", i) = At(b, "dma", i)
      BY <1>0, <2>2, WorkIsOld
    <3>2. Behind(b, "dma", i, "compute")
      BY <1>4, <3>1 DEF CopiesBehind
    <3> QED BY <1>0, <2>2, <3>1, <3>2, ThroughCompute DEF Carries
  <2>6. Finds(build, y, m, "stage", ThePlanBuffer, OwnPlan(host))
    <3>1. ASSUME NEW p \in Streams, NEW i \in 1..Size(y, p), ThePlanBuffer \in Puts(build, At(y, p, i))
          PROVE  Before(y, p, i, "stage", NextPos(y, "stage"))
      <4>1. At(y, p, i).op = "plan"
        BY <3>1, PutsOf
      <4>2. p = "compute"
        BY <2>3, <4>1 DEF Grouping, AllGrouped, Grouped
      <4> QED BY <2>4, <4>1, <4>2 DEF PlansBehind, Behind, Before
    <3> QED BY <1>0, <2>2, <2>3, <3>1, FindsToo DEF Sound
  <2>7. build.ring => RingHas(build, y, m, "stage", l)
    <3>1. \A i \in 1..Size(y, "dma") :
            At(y, "dma", i).op = "copy" /\ At(y, "dma", i).layer < l + 1
              => Before(y, "dma", i, "stage", NextPos(y, "stage"))
      BY <2>5 DEF CopiesFirst
    <3> QED BY <1>0, <2>2, <2>3, <3>1, RingToo DEF Sound, Grouping
  <2> QED BY <2>1, <2>2, <2>3, <2>4, <2>5, <2>6, <2>7 DEF Planned
<1> QED BY <1>8, <1>9

\* The plan of a layer keeps the invariant.
LEMMA PlanLayerStep ==
  ASSUME RingInv, PlanLayer
  PROVE  RingInv'
<1>0. /\ host \in Hosts /\ host.layer \in 0..(Layers - 1) /\ host.chunk < Chunks
      /\ host.kind = "grouped" /\ host.at = "layer"
      /\ Sound(build, driver, fired, Content) /\ build \in Builds /\ build \in AllBuilds
      /\ Grouping(build, driver) /\ AtLayer(build, driver, Content, host)
  BY Sizes DEF RingInv, HostKnows, PlanLayer, Hosts
<1> DEFINE a == CalledIf(build.ring, driver, Wait("compute", "ring_filled", Half(host.layer)))
           y == PlanTiles(a)
<1>1. /\ Sound(build, a, fired, Content) /\ Grouping(build, a) /\ FillsBehind(a, {0, 1})
      /\ CopiesBehind(a, host.layer + 1) /\ CopiesBelow(a, host.layer + 2)
      /\ build.ring => RingHas(build, a, Content, "compute", host.layer)
      /\ build.ring /\ host.layer + 1 < Layers => RingHas(build, a, Content, "dma", host.layer + 1)
  BY <1>0, SlabCalls DEF AtLayer
<1>2. driver' = y
  <2>1. RingLive <=> build.ring
    BY <1>0 DEF RingLive
  <2> QED BY <2>1 DEF PlanLayer, CalledIf
<1> HIDE DEF a
<1>3. /\ Sound(build, y, fired, Content) /\ Grouping(build, y) /\ FillsBehind(y, {0, 1})
      /\ Planned(build, y, Content, host)
  BY <1>0, <1>1, PlanTilesCalls
<1> HIDE DEF y
<1>4. /\ host' = [host EXCEPT !.at = IF CopyEngine THEN "read_back" ELSE "groups",
                              !.group = 0, !.groups = Groups]
      /\ UNCHANGED <<build, fired, plan, ring, slots, eptr>>
  BY DEF PlanLayer
<1>5. /\ host' \in Hosts /\ host'.layer = host.layer /\ host'.chunk = host.chunk
      /\ host'.kind = "grouped" /\ host'.group = 0 /\ host'.groups = Groups
      /\ host'.at = IF CopyEngine THEN "read_back" ELSE "groups"
  <2> DEFINE w == IF CopyEngine THEN "read_back" ELSE "groups"
  <2>1. /\ host' = [host EXCEPT !.at = w, !.group = 0, !.groups = Groups]
        /\ w \in {"chunk", "layer", "read_back", "groups"} /\ 0 \in 0..Groups /\ Groups \in 0..Groups
    BY <1>4, Sizes
  <2> HIDE DEF w
  <2>2. host' \in Hosts
    BY <1>0, <2>1 DEF Hosts
  <2>3. /\ host'.layer = host.layer /\ host'.chunk = host.chunk /\ host'.kind = host.kind
        /\ host'.group = 0 /\ host'.groups = Groups /\ host'.at = w
    BY <1>0, <2>1 DEF Hosts
  <2> QED BY <1>0, <2>2, <2>3 DEF w
<1>6. Planned(build, y, Content, host')
  BY <1>3, <1>5 DEF Planned, OwnPlan
<1>7. ~CopyEngine => AtGroups(build, y, Content, host')
  BY <1>3, <1>5 DEF AtGroups, Ahead, CopyEngine
<1>8. HostKnows(build, y, Content, host')
  BY <1>0, <1>3, <1>5, <1>6, <1>7, Sizes DEF HostKnows, CopyEngine
<1> QED BY <1>2, <1>3, <1>4, <1>8, HostStepGoal

\* Reading the plan back, and the number of groups it has, keeps the invariant.
LEMMA ReadBackStep ==
  ASSUME RingInv, NEW n \in 1..Groups, ReadBack(n)
  PROVE  RingInv'
<1>0. /\ host \in Hosts /\ host.at = "read_back" /\ host.kind = "grouped" /\ host.group = 0
      /\ host.chunk < Chunks /\ plan \in Plans
      /\ Sound(build, driver, fired, Content)
      /\ Grouping(build, driver) /\ Planned(build, driver, Content, host)
      /\ FillsBehind(driver, {0, 1}) /\ "compute" \in Streams
  BY StreamsOf DEF RingInv, HostKnows, ReadBack
<1>1. plan = OwnPlan(host)
  <2>1. Size(driver, "compute") = 0
    BY DEF ReadBack, Size
  <2>2. \A p \in Streams : \A i \in 1..Size(driver, p) : ThePlanBuffer \notin Puts(build, At(driver, p, i))
    <3> SUFFICES ASSUME NEW p \in Streams, NEW i \in 1..Size(driver, p),
                        ThePlanBuffer \in Puts(build, At(driver, p, i))
                 PROVE  FALSE
      OBVIOUS
    <3>1. At(driver, p, i).op = "plan"
      BY PutsOf
    <3>2. p = "compute"
      BY <1>0, <3>1 DEF Grouping, AllGrouped, Grouped
    <3> QED BY <2>1, <3>2
  <2>3. Content[ThePlanBuffer] = OwnPlan(host)
    BY <1>0, <2>2 DEF Planned, Finds, Sees
  <2> QED BY <2>3, MemoryOf DEF Content, ThePlanBuffer
<1>2. /\ driver' = driver /\ UNCHANGED <<build, fired, plan, ring, slots, eptr>>
      /\ host' = [host EXCEPT !.at = "groups", !.groups = n, !.tiles = plan]
  BY DEF ReadBack
<1>3. /\ host' \in Hosts /\ host'.at = "groups" /\ host'.layer = host.layer /\ host'.chunk = host.chunk
      /\ host'.kind = "grouped" /\ host'.group = 0 /\ host'.groups = n /\ host'.tiles = plan
  <2>1. n \in 0..Groups
    BY Sizes
  <2>2. host' \in Hosts
    BY <1>0, <1>2, <2>1 DEF Hosts
  <2>3. /\ host'.layer = host.layer /\ host'.chunk = host.chunk /\ host'.kind = host.kind
        /\ host'.group = host.group /\ host'.groups = n /\ host'.at = "groups" /\ host'.tiles = plan
    BY <1>0, <1>2 DEF Hosts
  <2> QED BY <1>0, <2>2, <2>3
<1>4. Planned(build, driver, Content, host') /\ OwnPlan(host') = OwnPlan(host)
  BY <1>0, <1>3 DEF Planned, OwnPlan
<1>5. AtGroups(build, driver, Content, host')
  BY <1>0, <1>1, <1>3, <1>4 DEF AtGroups, Ahead
<1>6. HostKnows(build, driver, Content, host')
  BY <1>0, <1>3, <1>4, <1>5, Sizes DEF HostKnows
<1> QED BY <1>0, <1>2, <1>6, HostStepGoal

----------------------------------------------------------------------------
(* The staging of a group.                                                   *)

\* The stream that fills the slot sets.
FillerOf(u) == IF u.async >= 1 THEN "stage" ELSE "compute"

\* While the commands of group k are queued: the set's last GEMMs are before
\* them, and the other half's copies are marked.
Filling(u, d, m, h, k) ==
  /\ AllGrouped(u, d) /\ CopiesMarked(d) /\ Planned(u, d, m, h)
  /\ u.async >= 1 =>
       /\ GemmsMarked(d)
       /\ \A i \in 1..Size(d, "compute") :
            At(d, "compute", i).op = "gemm" /\ Half(At(d, "compute", i).group) = Half(k)
              => Before(d, "compute", i, "stage", NextPos(d, "stage"))
       /\ \A i \in 1..Size(d, "stage") :
            Staging(At(d, "stage", i)) /\ Half(At(d, "stage", i).group) # Half(k)
              => Marked(d, "stage", i, <<"filled", Half(At(d, "stage", i).group)>>)

\* Neither a plan nor a copy: what is planned stays.
LEMMA PlannedKept ==
  ASSUME NEW u, NEW d \in Devices, NEW m, NEW c \in Commands, c.op \notin {"plan", "copy"},
         NEW h, Planned(u, d, m, h)
  PROVE  Planned(u, Called(d, c), m, h)
<1> DEFINE y == Called(d, c)
<1>1. /\ PlansBehind(d) => PlansBehind(y)
      /\ \A n : CopiesBehind(d, n) => CopiesBehind(y, n)
      /\ \A n : CopiesFirst(d, n) => CopiesFirst(y, n)
      /\ \A n : CopiesBelow(d, n) => CopiesBelow(y, n)
  BY CallKeeps
<1>2. ThePlanBuffer \notin Puts(u, c) /\ \A k : <<"ring", k>> \notin Puts(u, c)
  BY PutsOf
<1>3. \A t \in Streams : \A b, v : Finds(u, d, m, t, b, v) /\ b \notin Puts(u, c) => Finds(u, y, m, t, b, v)
  BY FindsCall
<1> HIDE DEF y
<1>4. \A t \in {"compute", "stage", "dma"} : \A l : RingHas(u, d, m, t, l) => RingHas(u, y, m, t, l)
  BY <1>2, <1>3, StreamsOf DEF RingHas
<1>5. \A t \in {"compute", "stage"} :
        Finds(u, d, m, t, ThePlanBuffer, OwnPlan(h)) => Finds(u, y, m, t, ThePlanBuffer, OwnPlan(h))
  BY <1>2, <1>3, StreamsOf
<1>6. Planned(u, y, m, h)
  BY <1>1, <1>4, <1>5 DEF Planned
<1> QED BY <1>6 DEF y

\* What a planned layer relies on is carried over by records and waits.
LEMMA PlannedCarries ==
  ASSUME NEW u, NEW d, NEW y, NEW m, Carries(u, m, d, y), NEW h
  PROVE  /\ Planned(u, d, m, h) => Planned(u, y, m, h)
         /\ Grouping(u, d) => Grouping(u, y)
         /\ \A t \in Streams : \A g : SetHas(u, d, m, t, h, g) => SetHas(u, y, m, t, h, g)
<1>1. /\ PlansBehind(d) => PlansBehind(y)
      /\ \A n : CopiesBehind(d, n) => CopiesBehind(y, n)
      /\ \A n : CopiesFirst(d, n) => CopiesFirst(y, n)
      /\ \A n : CopiesBelow(d, n) => CopiesBelow(y, n)
      /\ \A t \in Streams : \A b, v : Finds(u, d, m, t, b, v) => Finds(u, y, m, t, b, v)
  BY DEF Carries
<1>4. \A t \in {"compute", "stage", "dma"} : \A l : RingHas(u, d, m, t, l) => RingHas(u, y, m, t, l)
  BY <1>1, StreamsOf DEF RingHas
<1>5. \A t \in {"compute", "stage"} :
        Finds(u, d, m, t, ThePlanBuffer, OwnPlan(h)) => Finds(u, y, m, t, ThePlanBuffer, OwnPlan(h))
  BY <1>1, StreamsOf
<1>6. Planned(u, d, m, h) => Planned(u, y, m, h)
  BY <1>1, <1>4, <1>5 DEF Planned
<1>7. Grouping(u, d) => Grouping(u, y)
  BY DEF Grouping, Carries
<1>8. \A t \in Streams : \A g : SetHas(u, d, m, t, h, g) => SetHas(u, y, m, t, h, g)
  BY <1>1 DEF SetHas
<1> QED BY <1>6, <1>7, <1>8

\* One command of a group's staging: what it reads is there, and what it
\* overwrites is no longer read.
LEMMA StagingCall ==
  ASSUME host \in Hosts, host.chunk < Chunks, NEW u \in AllBuilds,
         NEW d, NEW f, NEW m, Sound(u, d, f, m), NEW k \in 0..(Groups - 1),
         Filling(u, d, m, host, k), NEW kind \in {"stage", "memcpy"}, kind = "memcpy" => u.async = 2
  PROVE  LET c == Work(FillerOf(u), kind, host.layer, k)
             y == Called(d, c)
         IN  /\ Sound(u, y, f, m) /\ Filling(u, y, m, host, k)
             /\ \A b, v : Finds(u, d, m, FillerOf(u), b, v) /\ b \notin Puts(u, c)
                            => Finds(u, y, m, FillerOf(u), b, v)
             /\ \A b : b \in Puts(u, c) => Finds(u, y, m, FillerOf(u), b, Leaves(c, b))
             /\ \A H : FillsBehind(d, H) /\ (u.async >= 1 => Half(k) \notin H) => FillsBehind(y, H)
<1> DEFINE s == FillerOf(u)
           l == host.layer
           c == Work(s, kind, l, k)
           y == Called(d, c)
<1>0. /\ l \in 0..(Layers - 1) /\ l \in Nat /\ k \in Nat
      /\ {"compute", "stage", "dma"} \subseteq Streams /\ s \in Streams
      /\ d \in Devices /\ u.async \in 0..2
  BY Sizes, StreamsOf DEF Hosts, FillerOf, Sound, AllBuilds
<1>1. /\ c \in Commands /\ c.op = kind /\ c.on = s /\ c.layer = l /\ c.group = k
      /\ Own(c) = OwnPlan(host)
  BY <1>0, WorkOf DEF WorkOps, OwnPlan
<1> HIDE DEF c
<1>2. /\ u.async >= 1 => s = "stage"
      /\ ~(u.async >= 1) => s = "compute" /\ c.op = "stage"
  BY <1>0, <1>1 DEF FillerOf
<1> HIDE DEF s
<1>2a. AllGrouped(u, d) /\ Planned(u, d, m, host)
  BY DEF Filling
<1>3. ASSUME NEW p \in Streams, NEW i \in 1..Size(d, p), p # s, Clash(u, At(d, p, i), c)
      PROVE  Before(d, p, i, s, NextPos(d, s))
  <2> DEFINE w == At(d, p, i)
  <2>1. /\ w \in Commands /\ Grouped(u, w, p)
    BY <1>0, <1>2a, Positions DEF AllGrouped
  <2>2. \/ w.op \in {"plan", "stage", "memcpy", "gemv", "stage_cold"}
        \/ w.op = "copy" /\ Half(w.layer) = Half(l)
        \/ w.op = "gemm" /\ (w.group = k \/ SetIn(u, w.group) = SetIn(u, k))
    BY <1>1, <1>3, ClashOf
  <2>3. w.op \notin {"stage", "memcpy", "gemv", "stage_cold"}
    BY <1>2, <1>3, <2>1 DEF Grouped
  <2>4. CASE w.op = "plan"
    <3>1. p = "compute" /\ u.async >= 1
      BY <1>2, <1>3, <2>1, <2>4 DEF Grouped
    <3> QED BY <1>2, <1>2a, <2>4, <3>1 DEF Planned, PlansBehind, Behind, Before
  <2>5. CASE w.op = "gemm"
    <3>1. p = "compute" /\ u.async >= 1
      BY <1>2, <1>3, <2>1, <2>5 DEF Grouped
    <3>2. Half(w.group) = Half(k)
      BY <2>2, <2>5, <3>1, SetIsHalf
    <3> QED BY <1>2, <2>5, <3>1, <3>2 DEF Filling
  <2>6. CASE w.op = "copy" /\ Half(w.layer) = Half(l)
    <3>1. p = "dma"
      BY <2>1, <2>6 DEF Grouped
    <3>2. w.layer \in Nat
      BY <2>1, <2>6, Sizes DEF Commands, Syncs, Works
    <3>3. w.layer < l + 2
      BY <1>2a, <2>6, <3>1 DEF Planned, CopiesBelow
    <3>4. w.layer < l + 1
      BY <1>0, <2>6, <3>2, <3>3, HalfOfNext
    <3>5. CASE u.async >= 1
      BY <1>2, <1>2a, <2>6, <3>1, <3>4, <3>5 DEF Planned, CopiesFirst
    <3>6. CASE ~(u.async >= 1)
      <4>1. Behind(d, p, i, "compute")
        BY <1>2a, <2>6, <3>1, <3>4 DEF Planned, CopiesBehind
      <4> QED BY <1>2, <3>6, <4>1 DEF Behind, Before
    <3> QED BY <3>5, <3>6
  <2> QED BY <2>2, <2>3, <2>4, <2>5, <2>6
<1>4. ASSUME NEW b \in Expects(u, c)
      PROVE  b \notin Puts(u, c) /\ Finds(u, d, m, s, b, Needs(c, b))
  <2>1. c.op = "stage"
    BY <1>1, <1>4 DEF Expects, Reads
  <2>2. Finds(u, d, m, s, ThePlanBuffer, OwnPlan(host))
    BY <1>2, <1>2a DEF Planned
  <2>3. u.ring => RingHas(u, d, m, s, l)
    BY <1>2, <1>2a DEF Planned
  <2>4. CASE b = ThePlanBuffer
    <3>1. Needs(c, b) = OwnPlan(host)
      BY <1>1, <2>4 DEF Needs, ThePlanBuffer
    <3>2. b \notin Puts(u, c)
      BY <2>1, <2>4 DEF Puts, Writes, ThePlanBuffer
    <3> QED BY <2>2, <2>4, <3>1, <3>2
  <2>5. CASE b = <<"ring", Half(l)>> /\ u.ring
    <3>1. Needs(c, b) = l
      BY <1>1, <2>5 DEF Needs
    <3>2. b \notin Puts(u, c)
      BY <2>1, <2>5 DEF Puts, Writes
    <3> QED BY <2>3, <2>5, <3>1, <3>2 DEF RingHas
  <2>6. b = ThePlanBuffer \/ (b = <<"ring", Half(l)>> /\ u.ring)
    BY <1>1, <1>4, <2>1 DEF Expects, Reads, ThePlan, ThePlanBuffer
  <2> QED BY <2>4, <2>5, <2>6
<1>5. Fits(u, d, m, c)
  BY <1>1, <1>3, <1>4 DEF Fits
<1>6. Sound(u, y, f, m)
  BY <1>5, CallSound
<1>7. /\ AllGrouped(u, y) /\ CopiesMarked(y) /\ Planned(u, y, m, host)
      /\ u.async >= 1 => GemmsMarked(y)
      /\ \A H : FillsBehind(d, H) /\ (u.async >= 1 => Half(k) \notin H) => FillsBehind(y, H)
  <2>1. Grouped(u, c, s)
    BY <1>0, <1>1, <1>2 DEF Grouped
  <2>2. \A H : (u.async >= 1 => Half(k) \notin H) => ~(Staging(c) /\ c.on = "stage" /\ Half(c.group) \in H)
    BY <1>1, <1>2
  <2>3. Planned(u, y, m, host)
    BY <1>0, <1>1, <1>2a, PlannedKept
  <2>4. AllGrouped(u, y) /\ CopiesMarked(y) /\ (u.async >= 1 => GemmsMarked(y))
    BY <1>0, <1>1, <2>1, CallKeeps DEF Filling
  <2>5. \A H : FillsBehind(d, H) /\ (u.async >= 1 => Half(k) \notin H) => FillsBehind(y, H)
    BY <1>0, <1>1, <2>2, CallKeeps
  <2> QED BY <2>3, <2>4, <2>5
<1>8. /\ \A b, v : Finds(u, d, m, s, b, v) /\ b \notin Puts(u, c) => Finds(u, y, m, s, b, v)
      /\ \A b : b \in Puts(u, c) => Finds(u, y, m, s, b, Leaves(c, b))
  BY <1>0, <1>1, <1>5, FindsCall, FindsCalled
<1>9. /\ Grows(d, y)
      /\ \A p \in Streams : p # s => Size(y, p) = Size(d, p)
      /\ Size(y, s) = Size(d, s) + 1
      /\ At(y, s, Size(y, s)) = c
      /\ \A p \in Streams : Size(d, p) \in Nat
  <2>1. /\ Grows(d, y)
        /\ \A p \in Streams : p # c.on => Size(y, p) = Size(d, p)
        /\ Size(y, c.on) = Size(d, c.on) + 1
        /\ At(y, c.on, Size(y, c.on)) = Queued(d, c)
    BY <1>0, <1>1, CallAppends, CallGrows
  <2>2. Queued(d, c) = c
    BY <1>1, QueuedIs
  <2>3. \A p \in Streams : Size(d, p) \in Nat
    BY <1>0, Positions
  <2> QED BY <1>1, <2>1, <2>2, <2>3
<1> HIDE DEF y
<1>10. ASSUME u.async >= 1, NEW i \in 1..Size(y, "compute"),
              At(y, "compute", i).op = "gemm", Half(At(y, "compute", i).group) = Half(k)
       PROVE  Before(y, "compute", i, "stage", NextPos(y, "stage"))
  <2>1. i \in 1..Size(d, "compute") /\ i \in Nat /\ At(y, "compute", i) = At(d, "compute", i)
    BY <1>0, <1>2, <1>9, <1>10 DEF Grows
  <2>2. Before(d, "compute", i, "stage", NextPos(d, "stage"))
    BY <1>10, <2>1 DEF Filling
  <2> QED BY <1>0, <1>9, <2>1, <2>2, BehindGrows
<1>11. ASSUME u.async >= 1, NEW i \in 1..Size(y, "stage"),
              Staging(At(y, "stage", i)), Half(At(y, "stage", i).group) # Half(k)
       PROVE  Marked(y, "stage", i, <<"filled", Half(At(y, "stage", i).group)>>)
  <2>1. i # Size(y, "stage")
    BY <1>1, <1>2, <1>9, <1>11
  <2>2. i \in 1..Size(d, "stage") /\ i \in Nat /\ 1 <= i /\ At(y, "stage", i) = At(d, "stage", i)
    BY <1>0, <1>2, <1>9, <1>11, <2>1 DEF Grows
  <2>3. Marked(d, "stage", i, <<"filled", Half(At(y, "stage", i).group)>>)
    BY <1>11, <2>2 DEF Filling
  <2> QED BY <1>0, <1>9, <2>2, <2>3, MarkedGrows
<1>12. Filling(u, y, m, host, k)
  BY <1>7, <1>10, <1>11 DEF Filling
<1> QED BY <1>6, <1>7, <1>8, <1>12 DEF y, c, s

\* The commands of a group: the stream finds its experts and its pointers.
LEMMA FillSetCalls ==
  ASSUME host \in Hosts, host.chunk < Chunks, build \in AllBuilds,
         CopyEngine => host.tiles = OwnPlan(host),
         NEW d, NEW f, NEW m, Sound(build, d, f, m), NEW k \in 0..(Groups - 1),
         Filling(build, d, m, host, k)
  PROVE  LET y == FillSet(d, k)
             s == FillerOf(build)
         IN  /\ Sound(build, y, f, m) /\ Grouping(build, y) /\ Planned(build, y, m, host)
             /\ SetHas(build, y, m, s, host, k)
             /\ \A H : FillsBehind(d, H) /\ (build.async >= 1 => Half(k) \notin H) => FillsBehind(y, H)
             /\ \A g \in Nat : build.async >= 1 /\ Half(g) # Half(k) /\ SetHas(build, d, m, s, host, g)
                                 => SetHas(build, y, m, s, host, g)
<1> DEFINE u == build
           s == FillerOf(u)
           l == host.layer
           e == Experts(OwnPlan(host), k, l)
           w == Work(s, "memcpy", l, k)
           c == Work(s, "stage", l, k)
           r == Record(s, "filled", Half(k))
           a == CalledIf(CopyEngine, d, w)
           b == Called(a, c)
           y == CalledIf(SideStream, b, r)
<1>0. /\ l \in 0..(Layers - 1) /\ k \in Nat /\ Half(k) \in {0, 1}
      /\ s \in Streams /\ u.async \in 0..2 /\ "stage" \in Streams
      /\ (SideStream <=> u.async >= 1) /\ (CopyEngine <=> u.async = 2 /\ u.tier = "exact")
      /\ u.tier \in {"exact", "low_bit"}
  BY Sizes, Halves, StreamsOf DEF Hosts, FillerOf, AllBuilds, SideStream, CopyEngine
<1>1. /\ c.op = "stage" /\ c.group = k /\ Own(c) = OwnPlan(host) /\ c.layer = l
      /\ w.op = "memcpy" /\ w.group = k /\ w.layer = l /\ w.tiles = host.tiles
  BY <1>0, WorkOf DEF WorkOps, OwnPlan
<1>2. y = FillSet(d, k)
  <2>1. s = IF SideStream THEN "stage" ELSE "compute"
    BY DEF FillerOf, SideStream
  <2> QED BY <2>1 DEF FillSet
<1> HIDE DEF c, w
<1>3. /\ Puts(u, w) = {<<"set", SetIn(u, k)>>}
      /\ CopyEngine => Leaves(w, <<"set", SetIn(u, k)>>) = e
      /\ u.async = 2 => Puts(u, c) = {<<"eptr", k>>}
      /\ u.async # 2 => Puts(u, c) = {<<"eptr", k>>, <<"set", SetIn(u, k)>>}
      /\ Leaves(c, <<"eptr", k>>) = OwnPlan(host)
      /\ Leaves(c, <<"set", SetIn(u, k)>>) = e
  <2>1. Puts(u, w) = {<<"set", SetIn(u, k)>>} /\ (CopyEngine => Leaves(w, <<"set", SetIn(u, k)>>) = e)
    BY <1>1 DEF Puts, Writes, Leaves
  <2>2. /\ u.async = 2 => Puts(u, c) = {<<"eptr", k>>}
        /\ u.async # 2 => Puts(u, c) = {<<"eptr", k>>, <<"set", SetIn(u, k)>>}
    BY <1>1 DEF Puts, Writes
  <2>3. Leaves(c, <<"eptr", k>>) = OwnPlan(host) /\ Leaves(c, <<"set", SetIn(u, k)>>) = e
    BY <1>1 DEF Leaves
  <2> QED BY <2>1, <2>2, <2>3
<1> HIDE DEF e
<1>4. /\ Sound(u, a, f, m) /\ Filling(u, a, m, host, k)
      /\ \A x, v : Finds(u, d, m, s, x, v) /\ x # <<"set", SetIn(u, k)>> => Finds(u, a, m, s, x, v)
      /\ CopyEngine => Finds(u, a, m, s, <<"set", SetIn(u, k)>>, e)
      /\ \A H : FillsBehind(d, H) /\ (u.async >= 1 => Half(k) \notin H) => FillsBehind(a, H)
  <2>1. CASE ~CopyEngine
    BY <2>1 DEF CalledIf
  <2>2. CASE CopyEngine
    <3>1. a = Called(d, w)
      BY <2>2 DEF CalledIf
    <3>2. u.async = 2
      BY <1>0, <2>2
    <3>3. /\ Sound(u, Called(d, w), f, m) /\ Filling(u, Called(d, w), m, host, k)
          /\ \A x, v : Finds(u, d, m, s, x, v) /\ x \notin Puts(u, w) => Finds(u, Called(d, w), m, s, x, v)
          /\ \A x : x \in Puts(u, w) => Finds(u, Called(d, w), m, s, x, Leaves(w, x))
          /\ \A H : FillsBehind(d, H) /\ (u.async >= 1 => Half(k) \notin H) => FillsBehind(Called(d, w), H)
      BY <3>2, StagingCall DEF w
    <3> HIDE DEF a
    <3> QED BY <1>3, <2>2, <3>1, <3>3
  <2> QED BY <2>1, <2>2
<1> HIDE DEF a
<1>5. /\ Sound(u, b, f, m) /\ Filling(u, b, m, host, k)
      /\ \A x, v : Finds(u, a, m, s, x, v) /\ x \notin Puts(u, c) => Finds(u, b, m, s, x, v)
      /\ \A x : x \in Puts(u, c) => Finds(u, b, m, s, x, Leaves(c, x))
      /\ \A H : FillsBehind(a, H) /\ (u.async >= 1 => Half(k) \notin H) => FillsBehind(b, H)
  BY <1>4, StagingCall DEF c
<1> HIDE DEF b
<1>6. SetHas(u, b, m, s, host, k)
  <2>1. Finds(u, b, m, s, <<"eptr", k>>, OwnPlan(host))
    BY <1>3, <1>5
  <2>2. ASSUME Fills(u)
        PROVE  Finds(u, b, m, s, <<"set", SetIn(u, k)>>, e)
    <3>1. CASE u.async # 2
      BY <1>3, <1>5, <3>1
    <3>2. CASE u.async = 2
      <4>1. CopyEngine
        BY <1>0, <2>2, <3>2 DEF Fills
      <4>2. <<"set", SetIn(u, k)>> \notin Puts(u, c)
        BY <1>3, <3>2
      <4> QED BY <1>4, <1>5, <4>1, <4>2
    <3> QED BY <3>1, <3>2
  <2> QED BY <2>1, <2>2 DEF SetHas, e
<1>7. ASSUME NEW g \in Nat, u.async >= 1, Half(g) # Half(k), SetHas(u, d, m, s, host, g)
      PROVE  SetHas(u, b, m, s, host, g)
  <2>1. SetIn(u, g) # SetIn(u, k) /\ g # k
    BY <1>7 DEF SetIn
  <2>2. \A x, v : Finds(u, d, m, s, x, v) /\ x \notin {<<"eptr", k>>, <<"set", SetIn(u, k)>>}
                    => Finds(u, b, m, s, x, v)
    BY <1>3, <1>4, <1>5
  <2>3. <<"set", SetIn(u, g)>> \notin {<<"eptr", k>>, <<"set", SetIn(u, k)>>}
    BY <2>1
  <2>4. <<"eptr", g>> \notin {<<"eptr", k>>, <<"set", SetIn(u, k)>>}
    BY <2>1
  <2> QED BY <1>7, <2>2, <2>3, <2>4 DEF SetHas
<1>8. CASE ~SideStream
  <2>1. y = b /\ ~(u.async >= 1)
    BY <1>0, <1>8 DEF CalledIf
  <2>2. Grouping(u, b)
    BY <1>5, <2>1 DEF Grouping, Filling
  <2> QED BY <1>2, <1>4, <1>5, <1>6, <2>1, <2>2 DEF Filling
<1>9. CASE SideStream
  <2>0. y = Called(b, r) /\ u.async >= 1 /\ s = "stage"
    BY <1>0, <1>9 DEF CalledIf, FillerOf
  <2>1. /\ r \in Syncs /\ r.op = "record" /\ r.on = "stage" /\ r.event = <<"filled", Half(k)>>
        /\ HomeOf(r.event) = "stage"
    <3>1. <<"filled", Half(k)>> \in Events /\ HomeOf(<<"filled", Half(k)>>) = "stage"
      BY <1>0, EventsOf
    <3> QED BY <1>0, <2>0, <3>1, SyncOf
  <2> HIDE DEF r
  <2>2. Sound(u, y, f, m) /\ Carries(u, m, b, y)
    BY <1>5, <2>0, <2>1, SyncCarries
  <2>3. \A i \in 1..Size(y, "stage") : Marked(y, "stage", i, <<"filled", Half(k)>>)
    BY <1>5, <2>0, <2>1, RecordMarks DEF Sound
  <2> HIDE DEF y
  <2>4. FillsMarked(y)
    <3> SUFFICES ASSUME NEW i \in 1..Size(y, "stage"), Staging(At(y, "stage", i))
                 PROVE  Marked(y, "stage", i, <<"filled", Half(At(y, "stage", i).group)>>)
      BY DEF FillsMarked
    <3>1. CASE Half(At(y, "stage", i).group) = Half(k)
      BY <2>3, <3>1
    <3>2. CASE Half(At(y, "stage", i).group) # Half(k)
      <4>1. i \in 1..Size(b, "stage") /\ i \in Nat /\ 1 <= i /\ At(y, "stage", i) = At(b, "stage", i)
        BY <1>0, <2>2, WorkIsOld DEF Staging
      <4>2. Marked(b, "stage", i, <<"filled", Half(At(y, "stage", i).group)>>)
        BY <1>5, <2>0, <3>2, <4>1 DEF Filling
      <4> QED BY <1>0, <2>2, <4>1, <4>2, MarkedGrows DEF Carries
    <3> QED BY <3>1, <3>2
  <2>5. Grouping(u, y) /\ Planned(u, y, m, host)
    <3>1. Planned(u, y, m, host)
      BY <1>5, <2>2, PlannedCarries DEF Filling
    <3>2. AllGrouped(u, y) /\ CopiesMarked(y) /\ GemmsMarked(y)
      BY <1>5, <2>0, <2>2 DEF Filling, Carries
    <3> QED BY <2>4, <3>1, <3>2 DEF Grouping
  <2>6. \A g : SetHas(u, b, m, s, host, g) => SetHas(u, y, m, s, host, g)
    BY <1>0, <2>2, PlannedCarries
  <2>7. \A H : FillsBehind(b, H) => FillsBehind(y, H)
    BY <2>2 DEF Carries
  <2> QED BY <1>2, <1>4, <1>5, <1>6, <1>7, <2>2, <2>5, <2>6, <2>7
<1> QED BY <1>8, <1>9

\* stage_group: the wait for the set's last GEMMs, then the group's commands.
LEMMA StageGroupCalls ==
  ASSUME host \in Hosts, host.chunk < Chunks, build \in AllBuilds,
         CopyEngine => host.tiles = OwnPlan(host),
         NEW d, NEW f, NEW m, Sound(build, d, f, m), NEW k \in 0..(Groups - 1),
         Grouping(build, d), Planned(build, d, m, host)
  PROVE  LET y == StageGroup(d, k)
             s == FillerOf(build)
         IN  /\ Sound(build, y, f, m) /\ Grouping(build, y) /\ Planned(build, y, m, host)
             /\ SetHas(build, y, m, s, host, k)
             /\ \A H : FillsBehind(d, H) /\ (build.async >= 1 => Half(k) \notin H) => FillsBehind(y, H)
             /\ \A g \in Nat : build.async >= 1 /\ Half(g) # Half(k) /\ SetHas(build, d, m, s, host, g)
                                 => SetHas(build, y, m, s, host, g)
<1> DEFINE u == build
           c == Wait("stage", "done", Half(k))
           a == CalledIf(SideStream, d, c)
<1>0. /\ k \in Nat /\ Half(k) \in {0, 1} /\ {"compute", "stage"} \subseteq Streams
      /\ (SideStream <=> u.async >= 1) /\ FillerOf(u) \in Streams
  BY Sizes, Halves, StreamsOf DEF SideStream, FillerOf
<1>1. StageGroup(d, k) = FillSet(a, k)
  BY DEF StageGroup
<1>2. CASE ~SideStream
  <2>1. a = d
    BY <1>2 DEF CalledIf
  <2>2. Filling(u, d, m, host, k)
    BY <1>0, <1>2 DEF Filling, Grouping
  <2> QED BY <1>1, <2>1, <2>2, FillSetCalls
<1>3. CASE SideStream
  <2>1. a = Called(d, c)
    BY <1>3 DEF CalledIf
  <2>2. c \in Syncs /\ c.op = "wait" /\ c.on = "stage" /\ c.event = <<"done", Half(k)>>
    <3>1. <<"done", Half(k)>> \in Events
      BY <1>0, EventsOf
    <3> QED BY <1>0, <3>1, SyncOf
  <2> HIDE DEF c
  <2>3. Sound(u, a, f, m) /\ Carries(u, m, d, a)
    BY <2>1, <2>2, SyncCarries
  <2>4. \A i \in Nat : 1 <= i /\ Marked(d, "compute", i, <<"done", Half(k)>>) => Behind(a, "compute", i, "stage")
    BY <1>0, <2>1, <2>2, WaitCovers DEF Sound
  <2> HIDE DEF a
  <2>5. ASSUME NEW i \in 1..Size(a, "compute"), At(a, "compute", i).op = "gemm",
               Half(At(a, "compute", i).group) = Half(k)
        PROVE  Before(a, "compute", i, "stage", NextPos(a, "stage"))
    <3>1. i \in 1..Size(d, "compute") /\ i \in Nat /\ 1 <= i /\ At(a, "compute", i) = At(d, "compute", i)
      BY <1>0, <2>3, <2>5, WorkIsOld
    <3>2. Marked(d, "compute", i, <<"done", Half(k)>>)
      BY <1>0, <1>3, <2>5, <3>1 DEF Grouping, GemmsMarked
    <3> QED BY <2>4, <3>1, <3>2 DEF Behind, Before
  <2>6. Grouping(u, a) /\ Planned(u, a, m, host)
    BY <2>3, PlannedCarries
  <2>7. Filling(u, a, m, host, k)
    BY <1>0, <1>3, <2>5, <2>6 DEF Filling, Grouping, FillsMarked
  <2>8. \A g : SetHas(u, d, m, FillerOf(u), host, g) => SetHas(u, a, m, FillerOf(u), host, g)
    BY <1>0, <2>3, PlannedCarries
  <2>9. \A H : FillsBehind(d, H) => FillsBehind(a, H)
    BY <2>3 DEF Carries
  <2>10. /\ Sound(u, FillSet(a, k), f, m) /\ Grouping(u, FillSet(a, k)) /\ Planned(u, FillSet(a, k), m, host)
         /\ SetHas(u, FillSet(a, k), m, FillerOf(u), host, k)
         /\ \A H : FillsBehind(a, H) /\ (u.async >= 1 => Half(k) \notin H) => FillsBehind(FillSet(a, k), H)
         /\ \A g \in Nat : u.async >= 1 /\ Half(g) # Half(k) /\ SetHas(u, a, m, FillerOf(u), host, g)
                             => SetHas(u, FillSet(a, k), m, FillerOf(u), host, g)
    BY <2>3, <2>7, FillSetCalls
  <2> QED BY <1>1, <2>8, <2>9, <2>10 DEF a
<1> QED BY <1>2, <1>3

----------------------------------------------------------------------------
(* A group's multiplication.                                                 *)

\* The compute stream's next GEMMs may read group g: its copies are all behind
\* what the stream waits for.
LEMMA GemmFits ==
  ASSUME host \in Hosts, host.chunk < Chunks, NEW u \in AllBuilds,
         NEW d, NEW f, NEW m, Sound(u, d, f, m), AllGrouped(u, d), Planned(u, d, m, host),
         NEW g \in 0..(Groups - 1), u.async >= 1 => FillsBehind(d, {Half(g)}),
         SetHas(u, d, m, FillerOf(u), host, g)
  PROVE  Fits(u, d, m, Work("compute", "gemm", host.layer, g))
<1> DEFINE l == host.layer
           c == Work("compute", "gemm", l, g)
           s == FillerOf(u)
           e == Experts(OwnPlan(host), g, l)
<1>0. /\ l \in 0..(Layers - 1) /\ g \in Nat
      /\ {"compute", "stage"} \subseteq Streams /\ s \in Streams
      /\ d \in Devices /\ u.async \in 0..2
  BY Sizes, StreamsOf DEF Hosts, FillerOf, Sound, AllBuilds
<1>1. /\ c \in Commands /\ c.op = "gemm" /\ c.on = "compute" /\ c.layer = l /\ c.group = g
      /\ Own(c) = OwnPlan(host)
  BY <1>0, WorkOf DEF WorkOps, OwnPlan
<1> HIDE DEF c
<1>2. ASSUME NEW p \in Streams, NEW i \in 1..Size(d, p),
             At(d, p, i).op \in {"stage", "memcpy"},
             At(d, p, i).group = g \/ SetIn(u, At(d, p, i).group) = SetIn(u, g)
      PROVE  Before(d, p, i, "compute", NextPos(d, "compute"))
  <2> DEFINE w == At(d, p, i)
  <2>1. Grouped(u, w, p)
    BY DEF AllGrouped
  <2>2. CASE p = "compute"
    <3>1. NextPos(d, "compute") = Size(d, "compute") + 1 /\ Size(d, "compute") \in Nat
      BY <1>0, Positions
    <3> QED BY <2>2, <3>1 DEF Before
  <2>3. CASE p # "compute"
    <3>1. p = "stage" /\ u.async >= 1
      BY <1>0, <1>2, <2>1, <2>3 DEF Grouped
    <3>2. Half(w.group) = Half(g)
      BY <1>2, <3>1, SetIsHalf
    <3>3. Behind(d, "stage", i, "compute")
      BY <1>2, <3>1, <3>2 DEF FillsBehind, Staging
    <3> QED BY <3>1, <3>3 DEF Behind, Before
  <2> QED BY <2>2, <2>3
<1>3. ASSUME NEW p \in Streams, NEW i \in 1..Size(d, p), p # "compute", Clash(u, At(d, p, i), c)
      PROVE  Before(d, p, i, "compute", NextPos(d, "compute"))
  <2> DEFINE w == At(d, p, i)
  <2>1. Grouped(u, w, p)
    BY DEF AllGrouped
  <2>2. \/ w.op \in {"plan", "stage_cold"}
        \/ /\ w.op \in {"stage", "memcpy"}
           /\ w.group = g \/ SetIn(u, w.group) = SetIn(u, g)
    BY <1>1, <1>3, ClashOf
  <2>3. w.op \notin {"plan", "stage_cold"}
    BY <1>3, <2>1 DEF Grouped
  <2> QED BY <1>2, <2>2, <2>3
<1>4. Fills(u) => Finds(u, d, m, "compute", <<"set", SetIn(u, g)>>, e)
  <2>1. ASSUME NEW p \in Streams, NEW i \in 1..Size(d, p), <<"set", SetIn(u, g)>> \in Puts(u, At(d, p, i))
        PROVE  Before(d, p, i, "compute", NextPos(d, "compute"))
    <3> DEFINE w == At(d, p, i)
    <3>1. (w.op \in {"stage", "memcpy"} /\ SetIn(u, w.group) = SetIn(u, g)) \/ w.op = "stage_cold"
      BY <2>1, PutsOf
    <3>2. w.op # "stage_cold"
      BY DEF AllGrouped, Grouped
    <3> QED BY <1>2, <3>1, <3>2
  <2>2. Fills(u) => Finds(u, d, m, s, <<"set", SetIn(u, g)>>, e)
    BY DEF SetHas
  <2> HIDE DEF e, s
  <2> QED BY <1>0, <2>1, <2>2, FindsToo
<1>5. Finds(u, d, m, "compute", <<"eptr", g>>, OwnPlan(host))
  <2>1. ASSUME NEW p \in Streams, NEW i \in 1..Size(d, p), <<"eptr", g>> \in Puts(u, At(d, p, i))
        PROVE  Before(d, p, i, "compute", NextPos(d, "compute"))
    <3>1. At(d, p, i).op = "stage" /\ At(d, p, i).group = g
      BY <2>1, PutsOf
    <3> QED BY <1>2, <3>1
  <2>2. Finds(u, d, m, s, <<"eptr", g>>, OwnPlan(host))
    BY DEF SetHas
  <2> HIDE DEF s
  <2> QED BY <1>0, <2>1, <2>2, FindsToo
<1>6. Finds(u, d, m, "compute", ThePlanBuffer, OwnPlan(host))
  BY DEF Planned
<1>7. ASSUME NEW b \in Expects(u, c)
      PROVE  b \notin Puts(u, c) /\ Finds(u, d, m, "compute", b, Needs(c, b))
  <2>1. Puts(u, c) = {}
    BY <1>1 DEF Puts, Writes
  <2>2. \/ b = ThePlanBuffer
        \/ b = <<"eptr", g>>
        \/ b = <<"set", SetIn(u, g)>> /\ Fills(u)
    BY <1>1, <1>7 DEF Expects, Reads, ThePlan, ThePlanBuffer
  <2>3. /\ Needs(c, ThePlanBuffer) = OwnPlan(host)
        /\ Needs(c, <<"eptr", g>>) = OwnPlan(host)
        /\ Needs(c, <<"set", SetIn(u, g)>>) = e
    BY <1>1 DEF Needs, ThePlanBuffer
  <2> HIDE DEF e
  <2> QED BY <1>4, <1>5, <1>6, <2>1, <2>2, <2>3
<1>8. Fits(u, d, m, c)
  BY <1>1, <1>3, <1>7 DEF Fits
<1> QED BY <1>8 DEF c

\* The GEMMs of group g, and on a side stream the event behind them.
LEMMA GemmCalls ==
  ASSUME host \in Hosts, host.chunk < Chunks, build \in AllBuilds,
         NEW d, NEW f, NEW m, Sound(build, d, f, m), Grouping(build, d), Planned(build, d, m, host),
         NEW g \in 0..(Groups - 1), build.async >= 1 => FillsBehind(d, {Half(g)}),
         SetHas(build, d, m, FillerOf(build), host, g)
  PROVE  LET b == Called(d, Work("compute", "gemm", host.layer, g))
             y == CalledIf(SideStream, b, Record("compute", "done", Half(g)))
         IN  /\ Sound(build, y, f, m) /\ Grouping(build, y) /\ Planned(build, y, m, host)
             /\ \A H : FillsBehind(d, H) => FillsBehind(y, H)
             /\ \A t \in Streams : \A k : SetHas(build, d, m, t, host, k) => SetHas(build, y, m, t, host, k)
<1> DEFINE u == build
           c == Work("compute", "gemm", host.layer, g)
           r == Record("compute", "done", Half(g))
           b == Called(d, c)
           y == CalledIf(SideStream, b, r)
<1>0. /\ host.layer \in 0..(Layers - 1) /\ g \in Nat /\ Half(g) \in {0, 1}
      /\ "compute" \in Streams /\ d \in Devices /\ (SideStream <=> u.async >= 1)
  BY Sizes, Halves, StreamsOf DEF Hosts, Sound, SideStream
<1>1. c \in Commands /\ c.op = "gemm" /\ c.on = "compute" /\ c.group = g
  BY <1>0, WorkOf DEF WorkOps
<1>2. Fits(u, d, m, c)
  BY GemmFits DEF Grouping
<1> HIDE DEF c
<1>3. Sound(u, b, f, m)
  BY <1>2, CallSound
<1>4. Planned(u, b, m, host)
  BY <1>0, <1>1, PlannedKept
<1>5. /\ AllGrouped(u, b) /\ CopiesMarked(b)
      /\ u.async >= 1 => FillsMarked(b)
      /\ \A H : FillsBehind(d, H) => FillsBehind(b, H)
  <2>1. Grouped(u, c, c.on) /\ ~Staging(c)
    BY <1>1 DEF Grouped, Staging
  <2> QED BY <1>0, <1>1, <2>1, CallKeeps DEF Grouping
<1>6. \A t \in Streams : \A k : SetHas(u, d, m, t, host, k) => SetHas(u, b, m, t, host, k)
  <2>1. Puts(u, c) = {}
    BY <1>1 DEF Puts, Writes
  <2> QED BY <1>0, <1>1, <2>1, FindsCall DEF SetHas
<1>7. /\ Grows(d, b)
      /\ Size(b, "compute") = Size(d, "compute") + 1
      /\ At(b, "compute", Size(b, "compute")) = c
      /\ Size(d, "compute") \in Nat
  <2>1. /\ Grows(d, b)
        /\ Size(b, c.on) = Size(d, c.on) + 1
        /\ At(b, c.on, Size(b, c.on)) = Queued(d, c)
    BY <1>0, <1>1, CallAppends, CallGrows
  <2>2. Queued(d, c) = c
    BY <1>1, QueuedIs
  <2>3. Size(d, "compute") \in Nat
    BY <1>0, Positions
  <2> QED BY <1>1, <2>1, <2>2, <2>3
<1> HIDE DEF b
<1>8. CASE ~SideStream
  <2>1. y = b
    BY <1>8 DEF CalledIf
  <2>2. Grouping(u, b)
    BY <1>0, <1>5, <1>8 DEF Grouping
  <2> QED BY <1>3, <1>4, <1>5, <1>6, <2>1, <2>2 DEF b, c
<1>9. CASE SideStream
  <2>1. y = Called(b, r)
    BY <1>9 DEF CalledIf
  <2>2. /\ r \in Syncs /\ r.op = "record" /\ r.on = "compute" /\ r.event = <<"done", Half(g)>>
        /\ HomeOf(r.event) = "compute"
    <3>1. <<"done", Half(g)>> \in Events /\ HomeOf(<<"done", Half(g)>>) = "compute"
      BY <1>0, EventsOf
    <3> QED BY <1>0, <3>1, SyncOf
  <2> HIDE DEF r
  <2>3. Sound(u, y, f, m) /\ Carries(u, m, b, y)
    BY <1>3, <2>1, <2>2, SyncCarries
  <2>4. \A i \in 1..Size(y, "compute") : Marked(y, "compute", i, <<"done", Half(g)>>)
    BY <1>3, <2>1, <2>2, RecordMarks DEF Sound
  <2> HIDE DEF y
  <2>5. GemmsMarked(y)
    <3> SUFFICES ASSUME NEW i \in 1..Size(y, "compute"), At(y, "compute", i).op = "gemm"
                 PROVE  Marked(y, "compute", i, <<"done", Half(At(y, "compute", i).group)>>)
      BY DEF GemmsMarked
    <3>1. i \in 1..Size(b, "compute") /\ i \in Nat /\ 1 <= i /\ At(y, "compute", i) = At(b, "compute", i)
      BY <1>0, <2>3, WorkIsOld
    <3>2. CASE i = Size(b, "compute")
      BY <1>1, <1>7, <2>4, <3>1, <3>2
    <3>3. CASE i # Size(b, "compute")
      <4>1. i \in 1..Size(d, "compute") /\ At(y, "compute", i) = At(d, "compute", i)
        BY <1>0, <1>7, <3>1, <3>3 DEF Grows
      <4>2. Marked(d, "compute", i, <<"done", Half(At(y, "compute", i).group)>>)
        BY <1>0, <1>9, <4>1 DEF Grouping, GemmsMarked
      <4>3. Marked(b, "compute", i, <<"done", Half(At(y, "compute", i).group)>>)
        BY <1>0, <1>7, <3>1, <4>2, MarkedGrows
      <4> QED BY <1>0, <2>3, <3>1, <4>3, MarkedGrows DEF Carries
    <3> QED BY <3>2, <3>3
  <2>6. Grouping(u, y)
    BY <1>0, <1>5, <1>9, <2>3, <2>5 DEF Grouping, Carries
  <2>7. Planned(u, y, m, host)
    BY <1>4, <2>3, PlannedCarries
  <2>8. \A H : FillsBehind(b, H) => FillsBehind(y, H)
    BY <2>3 DEF Carries
  <2>9. \A t \in Streams : \A k : SetHas(u, b, m, t, host, k) => SetHas(u, y, m, t, host, k)
    BY <2>3, PlannedCarries
  <2> QED BY <1>5, <1>6, <2>3, <2>6, <2>7, <2>8, <2>9 DEF y, b, c, r
<1> QED BY <1>8, <1>9

\* The compute stream waits for a half: the copies of its groups are behind it.
LEMMA FilledCalls ==
  ASSUME NEW u, u.async >= 1, NEW d, NEW f, NEW m, Sound(u, d, f, m), Grouping(u, d), NEW k \in {0, 1}
  PROVE  LET y == Called(d, Wait("compute", "filled", k))
         IN  /\ Sound(u, y, f, m) /\ Carries(u, m, d, y)
             /\ FillsBehind(y, {k})
             /\ \A H : FillsBehind(d, H) => FillsBehind(y, H \cup {k})
<1> DEFINE c == Wait("compute", "filled", k)
           y == Called(d, c)
<1>0. {"compute", "stage"} \subseteq Streams
  BY StreamsOf
<1>1. c \in Syncs /\ c.op = "wait" /\ c.on = "compute" /\ c.event = <<"filled", k>>
  <2>1. <<"filled", k>> \in Events
    BY EventsOf
  <2> QED BY <1>0, <2>1, SyncOf
<1> HIDE DEF c
<1>2. Sound(u, y, f, m) /\ Carries(u, m, d, y)
  BY <1>1, SyncCarries
<1>3. \A i \in Nat : 1 <= i /\ Marked(d, "stage", i, <<"filled", k>>) => Behind(y, "stage", i, "compute")
  BY <1>0, <1>1, WaitCovers DEF Sound
<1> HIDE DEF y
<1>4. ASSUME NEW i \in 1..Size(y, "stage"), Staging(At(y, "stage", i)), Half(At(y, "stage", i).group) = k
      PROVE  Behind(y, "stage", i, "compute")
  <2>1. i \in 1..Size(d, "stage") /\ i \in Nat /\ 1 <= i /\ At(y, "stage", i) = At(d, "stage", i)
    BY <1>0, <1>2, <1>4, WorkIsOld DEF Staging
  <2>2. Marked(d, "stage", i, <<"filled", k>>)
    BY <1>4, <2>1 DEF Grouping, FillsMarked
  <2> QED BY <1>3, <2>1, <2>2
<1>5. FillsBehind(y, {k})
  BY <1>4 DEF FillsBehind
<1>6. ASSUME NEW H, FillsBehind(d, H)
      PROVE  FillsBehind(y, H \cup {k})
  <2>1. FillsBehind(y, H)
    BY <1>2, <1>6 DEF Carries
  <2> QED BY <1>4, <2>1 DEF FillsBehind
<1> QED BY <1>2, <1>5, <1>6 DEF y, c

\* Without a staging stream nothing is staged there.
LEMMA NothingAside ==
  ASSUME NEW u \in AllBuilds, ~(u.async >= 1), NEW d, AllGrouped(u, d), NEW H
  PROVE  FillsBehind(d, H)
<1>1. \A i \in 1..Size(d, "stage") : ~Staging(At(d, "stage", i))
  BY StreamsOf DEF AllGrouped, Grouped, Staging, AllBuilds
<1> QED BY <1>1 DEF FillsBehind

\* One turn of the group loop, which stages the next group and queues this one's
\* GEMMs, keeps the invariant.
LEMMA GroupGemmsStep ==
  ASSUME RingInv, GroupGemms
  PROVE  RingInv'
<1> DEFINE u == build
           m == Content
           g == host.group
           own == StageGroupIf(~SideStream \/ g = 0, driver, g)
           ahead == StageGroupIf(SideStream /\ g + 1 < host.groups, own, g + 1)
           filled == CalledIf(SideStream, ahead, Wait("compute", "filled", Half(g)))
           done == Called(filled, Work("compute", "gemm", host.layer, g))
           y == CalledIf(SideStream, done, Record("compute", "done", Half(g)))
           B == {0, 1} \ {Half(g)}
           C == {0, 1} \ {Half(g + 1)}
<1>0. /\ host \in Hosts /\ host.at = "groups" /\ host.kind = "grouped" /\ host.chunk < Chunks
      /\ g < host.groups /\ host.groups \in 0..Groups /\ g \in 0..(Groups - 1) /\ g \in Nat
      /\ Half(g) \in {0, 1} /\ Half(g + 1) \in {0, 1} /\ Half(g + 1) # Half(g)
      /\ Sound(u, driver, fired, m) /\ u \in AllBuilds
      /\ Grouping(u, driver) /\ Planned(u, driver, m, host) /\ AtGroups(u, driver, m, host)
      /\ (SideStream <=> u.async >= 1)
  <2>1. /\ host \in Hosts /\ host.at = "groups" /\ host.kind = "grouped" /\ host.chunk < Chunks
        /\ g < host.groups
        /\ Sound(u, driver, fired, m) /\ u \in AllBuilds
        /\ Grouping(u, driver) /\ Planned(u, driver, m, host) /\ AtGroups(u, driver, m, host)
    BY Sizes DEF RingInv, HostKnows, GroupGemms
  <2>2. host.groups \in 0..Groups /\ g \in 0..(Groups - 1) /\ g \in Nat
    BY <2>1, Sizes DEF Hosts
  <2>3. Half(g) \in {0, 1} /\ Half(g + 1) \in {0, 1} /\ Half(g + 1) # Half(g)
    <3>1. g + 1 \in Nat
      BY <2>2
    <3> QED BY <2>2, <3>1, Halves
  <2> QED BY <2>1, <2>2, <2>3 DEF SideStream
<1>1. CopyEngine => host.tiles = OwnPlan(host)
  BY <1>0 DEF AtGroups, CopyEngine
<1>2. driver' = y
  BY DEF GroupGemms
<1>3. /\ Sound(u, own, fired, m) /\ Grouping(u, own) /\ Planned(u, own, m, host)
      /\ SetHas(u, own, m, FillerOf(u), host, g)
      /\ u.async >= 1 => FillsBehind(own, B)
  <2>1. CASE ~SideStream \/ g = 0
    <3>1. own = StageGroup(driver, g)
      BY <2>1 DEF StageGroupIf
    <3>2. u.async >= 1 => FillsBehind(driver, B)
      <4>1. u.async >= 1 => ~Ahead(host)
        BY <1>0, <2>1 DEF Ahead
      <4>2. u.async >= 1 => FillsBehind(driver, {0, 1})
        BY <1>0, <4>1 DEF AtGroups
      <4> QED BY <4>2 DEF FillsBehind
    <3>3. Half(g) \notin B
      OBVIOUS
    <3> HIDE DEF own, B
    <3> QED BY <1>0, <1>1, <3>1, <3>2, <3>3, StageGroupCalls
  <2>2. CASE ~(~SideStream \/ g = 0)
    <3>1. own = driver
      BY <2>2 DEF StageGroupIf
    <3>2. Ahead(host) /\ u.async >= 1 /\ FillerOf(u) = "stage"
      BY <1>0, <2>2 DEF Ahead, FillerOf
    <3>3. SetHas(u, driver, m, "stage", host, g) /\ FillsBehind(driver, B)
      BY <1>0, <3>2 DEF AtGroups
    <3> QED BY <1>0, <3>1, <3>2, <3>3
  <2> QED BY <2>1, <2>2
<1> HIDE DEF own
<1>4. /\ Sound(u, ahead, fired, m) /\ Grouping(u, ahead) /\ Planned(u, ahead, m, host)
      /\ SetHas(u, ahead, m, FillerOf(u), host, g)
      /\ SideStream /\ g + 1 < host.groups => SetHas(u, ahead, m, "stage", host, g + 1)
      /\ u.async >= 1 /\ ~(g + 1 < host.groups) => FillsBehind(ahead, B)
  <2>1. CASE ~(SideStream /\ g + 1 < host.groups)
    <3>1. ahead = own
      BY <2>1 DEF StageGroupIf
    <3> QED BY <1>3, <2>1, <3>1
  <2>2. CASE SideStream /\ g + 1 < host.groups
    <3>1. ahead = StageGroup(own, g + 1)
      BY <2>2 DEF StageGroupIf
    <3>2. g + 1 \in 0..(Groups - 1) /\ u.async >= 1 /\ FillerOf(u) = "stage"
      BY <1>0, <2>2, Sizes DEF FillerOf
    <3> HIDE DEF ahead, B
    <3> QED BY <1>0, <1>1, <1>3, <2>2, <3>1, <3>2, StageGroupCalls
  <2> QED BY <2>1, <2>2
<1> HIDE DEF ahead
<1>5. /\ Sound(u, filled, fired, m) /\ Grouping(u, filled) /\ Planned(u, filled, m, host)
      /\ SetHas(u, filled, m, FillerOf(u), host, g)
      /\ SideStream /\ g + 1 < host.groups => SetHas(u, filled, m, "stage", host, g + 1)
      /\ u.async >= 1 => FillsBehind(filled, {Half(g)})
      /\ FillsBehind(filled, IF g + 1 < host.groups THEN C ELSE {0, 1})
  <2>1. CASE ~SideStream
    <3>1. filled = ahead
      BY <2>1 DEF CalledIf
    <3>2. \A H : FillsBehind(ahead, H)
      BY <1>0, <1>4, <2>1, NothingAside DEF Grouping
    <3> QED BY <1>0, <1>4, <2>1, <3>1, <3>2
  <2>2. CASE SideStream
    <3>1. filled = Called(ahead, Wait("compute", "filled", Half(g)))
      BY <2>2 DEF CalledIf
    <3>2. /\ Sound(u, filled, fired, m) /\ Carries(u, m, ahead, filled)
          /\ FillsBehind(filled, {Half(g)})
          /\ \A H : FillsBehind(ahead, H) => FillsBehind(filled, H \cup {Half(g)})
      BY <1>0, <1>4, <2>2, <3>1, FilledCalls
    <3> HIDE DEF filled
    <3>3. Grouping(u, filled) /\ Planned(u, filled, m, host)
      BY <1>4, <3>2, PlannedCarries
    <3>4. \A k : SetHas(u, ahead, m, "stage", host, k) => SetHas(u, filled, m, "stage", host, k)
      BY <3>2, PlannedCarries, StreamsOf
    <3>5. FillerOf(u) = "stage"
      BY <1>0, <2>2 DEF FillerOf
    <3>6. C = {Half(g)}
      BY <1>0
    <3>7. B \cup {Half(g)} = {0, 1}
      BY <1>0
    <3>8. ~(g + 1 < host.groups) => FillsBehind(filled, {0, 1})
      <4> HIDE DEF B
      <4> QED BY <1>0, <1>4, <2>2, <3>2, <3>7
    <3> HIDE DEF B, C
    <3> QED BY <1>4, <2>2, <3>2, <3>3, <3>4, <3>5, <3>6, <3>8
  <2> QED BY <2>1, <2>2
<1> HIDE DEF filled
<1>6. /\ Sound(u, y, fired, m) /\ Grouping(u, y) /\ Planned(u, y, m, host)
      /\ SideStream /\ g + 1 < host.groups => SetHas(u, y, m, "stage", host, g + 1)
      /\ FillsBehind(y, IF g + 1 < host.groups THEN C ELSE {0, 1})
  <2>1. /\ Sound(u, y, fired, m) /\ Grouping(u, y) /\ Planned(u, y, m, host)
        /\ \A H : FillsBehind(filled, H) => FillsBehind(y, H)
        /\ \A t \in Streams : \A k : SetHas(u, filled, m, t, host, k) => SetHas(u, y, m, t, host, k)
    BY <1>0, <1>5, GemmCalls
  <2> HIDE DEF y, C
  <2> QED BY <1>5, <2>1, StreamsOf
<1> HIDE DEF y
<1>7. /\ host' = [host EXCEPT !.group = g + 1]
      /\ UNCHANGED <<build, fired, plan, ring, slots, eptr>>
  BY DEF GroupGemms
<1>8. /\ host' \in Hosts /\ host'.at = "groups" /\ host'.layer = host.layer /\ host'.chunk = host.chunk
      /\ host'.kind = "grouped" /\ host'.group = g + 1 /\ host'.groups = host.groups
      /\ host'.tiles = host.tiles
  <2>1. g + 1 \in 0..Groups
    BY <1>0, Sizes
  <2>2. host' \in Hosts
    BY <1>0, <1>7, <2>1 DEF Hosts
  <2>3. /\ host'.layer = host.layer /\ host'.chunk = host.chunk /\ host'.kind = host.kind
        /\ host'.group = g + 1 /\ host'.groups = host.groups /\ host'.at = host.at
        /\ host'.tiles = host.tiles
    BY <1>0, <1>7 DEF Hosts
  <2> QED BY <1>0, <2>2, <2>3
<1>9. Planned(u, y, m, host') /\ OwnPlan(host') = OwnPlan(host)
  BY <1>6, <1>8 DEF Planned, OwnPlan
<1>10. Ahead(host') <=> g + 1 < host.groups
  BY <1>0, <1>8 DEF Ahead
<1>11. AtGroups(u, y, m, host')
  <2>1. FillsBehind(y, IF Ahead(host') THEN {0, 1} \ {Half(host'.group)} ELSE {0, 1})
    BY <1>6, <1>8, <1>10
  <2>2. u.async >= 1 /\ Ahead(host') => SetHas(u, y, m, "stage", host', host'.group)
    BY <1>0, <1>6, <1>8, <1>9, <1>10 DEF SetHas
  <2>3. u.async = 2 /\ u.tier = "exact" => host'.tiles = OwnPlan(host')
    BY <1>1, <1>8, <1>9 DEF CopyEngine
  <2> QED BY <2>1, <2>2, <2>3 DEF AtGroups
<1>12. HostKnows(u, y, m, host')
  <2>1. host'.group <= host'.groups
    BY <1>0, <1>8
  <2> QED BY <1>0, <1>6, <1>8, <1>9, <1>11, <2>1 DEF HostKnows
<1> QED BY <1>2, <1>6, <1>7, <1>12, HostStepGoal

----------------------------------------------------------------------------
(* The end of a layer, and a decode-sized chunk's layer.                     *)

\* All the compute stream was given, and all it waits for, is before what the
\* DMA stream is given behind the layer's event: no half is overwritten early.
LEMMA ReleasedHalf ==
  ASSUME NEW u \in AllBuilds, NEW d, NEW f, NEW m, Sound(u, d, f, m), AllGrouped(u, d),
         FillsBehind(d, {0, 1}), NEW k \in {0, 1}
  PROVE  LET a == Called(d, Record("compute", "ring_done", k))
             y == Called(a, Wait("dma", "ring_done", k))
         IN  \A s \in Streams : \A i \in 1..Size(a, s) :
               At(a, s, i).op = "stage" => Before(y, s, i, "dma", NextPos(y, "dma"))
<1> DEFINE r == Record("compute", "ring_done", k)
           w == Wait("dma", "ring_done", k)
           a == Called(d, r)
           y == Called(a, w)
<1>0. {"compute", "stage", "dma"} \subseteq Streams
  BY StreamsOf
<1>1. /\ r \in Syncs /\ r.op = "record" /\ r.on = "compute" /\ r.event = <<"ring_done", k>>
      /\ HomeOf(r.event) = "compute"
      /\ w \in Syncs /\ w.op = "wait" /\ w.on = "dma" /\ w.event = <<"ring_done", k>>
  <2>1. <<"ring_done", k>> \in Events /\ HomeOf(<<"ring_done", k>>) = "compute"
    BY EventsOf
  <2> QED BY <1>0, <2>1, SyncOf
<1> HIDE DEF r, w
<1>2. Sound(u, a, f, m) /\ Carries(u, m, d, a)
  BY <1>1, SyncCarries
<1>3. \A i \in 1..Size(a, "compute") : Marked(a, "compute", i, <<"ring_done", k>>)
  BY <1>1, RecordMarks DEF Sound
<1> HIDE DEF a
<1>4. Sound(u, y, f, m) /\ Carries(u, m, a, y)
  BY <1>1, <1>2, SyncCarries
<1>5. \A i \in 1..Size(a, "compute") : Behind(y, "compute", i, "dma")
  <2> SUFFICES ASSUME NEW i \in 1..Size(a, "compute")
               PROVE  Behind(y, "compute", i, "dma")
    OBVIOUS
  <2>1. i \in Nat /\ 1 <= i
    BY <1>0, <1>2, Positions DEF Sound
  <2>2. Marked(a, "compute", i, w.event)
    BY <1>1, <1>3
  <2>3. Behind(y, "compute", i, w.on)
    BY <1>0, <1>1, <1>2, <2>1, <2>2, WaitCovers DEF Sound
  <2> QED BY <1>1, <2>3
<1> HIDE DEF y
<1>6. ASSUME NEW s \in Streams, NEW i \in 1..Size(a, s), At(a, s, i).op = "stage"
      PROVE  Before(y, s, i, "dma", NextPos(y, "dma"))
  <2>1. AllGrouped(u, a) /\ FillsBehind(a, {0, 1})
    BY <1>2 DEF Carries
  <2>2. s \in {"compute", "stage"}
    BY <1>6, <2>1 DEF AllGrouped, Grouped
  <2>3. CASE s = "compute"
    BY <1>5, <2>3 DEF Behind, Before
  <2>4. CASE s = "stage"
    <3>1. Half(At(a, "stage", i).group) \in {0, 1} /\ i \in Nat
      <4>1. At(a, "stage", i) \in Commands /\ i \in Nat
        BY <1>0, <1>2, <2>4, Positions DEF Sound
      <4> QED BY <1>6, <2>4, <4>1, Sizes, Halves DEF Commands, Syncs, Works
    <3>2. Behind(a, "stage", i, "compute")
      BY <1>6, <2>1, <2>4, <3>1 DEF FillsBehind, Staging
    <3> QED BY <1>0, <1>4, <1>5, <2>4, <3>1, <3>2, ThroughCompute DEF Carries
  <2> QED BY <2>2, <2>3, <2>4
<1> QED BY <1>6 DEF y, a, r, w

\* The next layer, or the next chunk.
LEMMA NextLayerIs ==
  ASSUME host \in Hosts, host.chunk < Chunks
  PROVE  LET h == NextLayer(host)
         IN  /\ h \in Hosts /\ h.kind = host.kind
             /\ host.layer + 1 < Layers => h.at = "layer" /\ h.layer = host.layer + 1 /\ h.chunk = host.chunk
             /\ ~(host.layer + 1 < Layers) => h.at = "chunk"
<1>1. host.layer \in 0..(Layers - 1) /\ host.chunk \in 0..Chunks /\ host.layer \in Nat /\ host.chunk \in Nat
  BY Sizes DEF Hosts
<1>2. CASE host.layer + 1 < Layers
  <2>1. NextLayer(host) = [host EXCEPT !.at = "layer", !.layer = host.layer + 1]
    BY <1>2 DEF NextLayer
  <2>2. host.layer + 1 \in 0..(Layers - 1)
    BY <1>1, <1>2, Sizes
  <2> QED BY <1>2, <2>1, <2>2 DEF Hosts
<1>3. CASE ~(host.layer + 1 < Layers)
  <2>1. NextLayer(host) = [host EXCEPT !.at = "chunk", !.chunk = host.chunk + 1]
    BY <1>3 DEF NextLayer
  <2>2. host.chunk + 1 \in 0..Chunks
    BY <1>1, Sizes
  <2> QED BY <1>3, <2>1, <2>2 DEF Hosts
<1> QED BY <1>2, <1>3

\* The end of a layer, which releases its half of the ring and issues the slab
\* after the next, keeps the invariant.
LEMMA LayerDoneStep ==
  ASSUME RingInv, LayerDone
  PROVE  RingInv'
<1> DEFINE u == build
           m == Content
           l == host.layer
           a == Called(driver, Record("compute", "ring_done", Half(l)))
           h == NextLayer(host)
<1>0. /\ host \in Hosts /\ host.kind = "grouped" /\ host.chunk < Chunks
      /\ Sound(u, driver, fired, m) /\ u \in AllBuilds
      /\ Grouping(u, driver) /\ Planned(u, driver, m, host) /\ FillsBehind(driver, {0, 1})
  <2>1. /\ host \in Hosts /\ host.kind = "grouped" /\ host.chunk < Chunks /\ host.group = host.groups
        /\ Sound(u, driver, fired, m) /\ u \in AllBuilds
        /\ Grouping(u, driver) /\ Planned(u, driver, m, host) /\ AtGroups(u, driver, m, host)
    BY Sizes DEF RingInv, HostKnows, LayerDone
  <2>2. ~Ahead(host)
    BY <2>1 DEF Ahead, Hosts
  <2> QED BY <2>1, <2>2 DEF AtGroups
<1>1. /\ l \in 0..(Layers - 1) /\ l \in Nat /\ Half(l) \in {0, 1} /\ Half(l + 1) # Half(l)
      /\ Half(l + 2) = Half(l) /\ l + 1 \in Nat /\ l + 2 \in Nat
      /\ "compute" \in Streams /\ "dma" \in Streams
  <2>1. l \in 0..(Layers - 1) /\ l \in Nat
    BY <1>0, Sizes DEF Hosts
  <2> QED BY <2>1, Halves, StreamsOf
<1>2. /\ UNCHANGED <<build, fired, plan, ring, slots, eptr>>
      /\ host' = h
      /\ RingLive <=> u.ring
  BY <1>0 DEF LayerDone, RingLive
<1>3. /\ h \in Hosts /\ h.kind = "grouped"
      /\ l + 1 < Layers => h.at = "layer" /\ h.layer = l + 1 /\ h.chunk < Chunks
      /\ ~(l + 1 < Layers) => h.at = "chunk"
  BY <1>0, NextLayerIs
<1> HIDE DEF h
<1>4. ASSUME NEW y, Sound(u, y, fired, m), Grouping(u, y), FillsBehind(y, {0, 1}),
             CopiesBehind(y, l + 1), CopiesBelow(y, l + 3),
             u.ring /\ l + 1 < Layers => RingHas(u, y, m, "dma", l + 1),
             u.ring /\ l + 2 < Layers => RingHas(u, y, m, "dma", l + 2)
      PROVE  HostKnows(u, y, m, h)
  <2>1. CASE l + 1 < Layers
    <3>1. (l + 1) + 1 = l + 2 /\ (l + 1) + 2 = l + 3
      BY <1>1
    <3>2. AtLayer(u, y, m, h)
      BY <1>3, <1>4, <2>1, <3>1 DEF AtLayer
    <3> QED BY <1>3, <1>4, <2>1, <3>2 DEF HostKnows
  <2>2. CASE ~(l + 1 < Layers)
    <3>1. l + 1 = Layers
      BY <1>1, <2>2, Sizes
    <3>2. AtChunk(y)
      BY <1>4, <3>1 DEF AtChunk
    <3> QED BY <1>3, <1>4, <2>2, <3>2 DEF HostKnows
  <2> QED BY <2>1, <2>2
<1>5. \A y \in Devices : CopiesBelow(y, l + 2) => CopiesBelow(y, l + 3)
  <2> SUFFICES ASSUME NEW y \in Devices, CopiesBelow(y, l + 2), NEW i \in 1..Size(y, "dma"), At(y, "dma", i).op = "copy"
               PROVE  At(y, "dma", i).layer < l + 3
    BY DEF CopiesBelow
  <2>1. At(y, "dma", i).layer < l + 2
    BY DEF CopiesBelow
  <2>2. At(y, "dma", i).layer \in Nat
    <3>1. At(y, "dma", i) \in Commands
      BY <1>1, Positions
    <3> QED BY <3>1, Sizes DEF Commands, Syncs, Works
  <2> QED BY <1>1, <2>1, <2>2
<1>6. CASE ~u.ring
  <2>1. driver' = driver
    BY <1>2, <1>6 DEF LayerDone, CalledIf
  <2>2. HostKnows(u, driver, m, h)
    BY <1>0, <1>4, <1>5, <1>6 DEF Planned, Sound
  <2> QED BY <1>0, <1>2, <2>1, <2>2, HostStepGoal
<1>7. CASE u.ring
  <2>1. driver' = IF l + 2 < Layers THEN PfIssue(a, l + 2) ELSE a
    BY <1>2, <1>7 DEF LayerDone, CalledIf
  <2>2. Sound(u, a, fired, m) /\ Carries(u, m, driver, a)
    <3>1. <<"ring_done", Half(l)>> \in Events /\ HomeOf(<<"ring_done", Half(l)>>) = "compute"
      BY <1>1, EventsOf
    <3> QED BY <1>0, <1>1, <3>1, SyncOf, SyncCarries
  <2>3. LET free == Called(a, Wait("dma", "ring_done", Half(l)))
        IN  \A s \in Streams : \A i \in 1..Size(a, s) :
              At(a, s, i).op = "stage" => Before(free, s, i, "dma", NextPos(free, "dma"))
    BY <1>0, <1>1, ReleasedHalf DEF Grouping
  <2> HIDE DEF a
  <2>4. /\ Grouping(u, a) /\ FillsBehind(a, {0, 1}) /\ CopiesBehind(a, l + 1) /\ CopiesBelow(a, l + 2)
        /\ l + 1 < Layers => RingHas(u, a, m, "dma", l + 1)
    BY <1>0, <1>1, <1>7, <2>2 DEF Planned, Carries, RingHas, Grouping
  <2>5. CASE ~(l + 2 < Layers)
    <3>1. driver' = a
      BY <2>1, <2>5
    <3>2. HostKnows(u, a, m, h)
      BY <1>4, <1>5, <2>2, <2>4, <2>5 DEF Sound
    <3> QED BY <1>2, <2>2, <3>1, <3>2, HostStepGoal
  <2>6. CASE l + 2 < Layers
    <3> DEFINE y == PfIssue(a, l + 2)
    <3>1. driver' = y
      BY <2>1, <2>6
    <3>2. l + 2 \in 0..(Layers - 1) /\ ~(l + 2 < l + 1) /\ l + 2 < l + 3 /\ Half(l + 1) # Half(l + 2)
      BY <1>1, <2>6, Sizes
    <3>3. /\ Sound(u, y, fired, m) /\ AllGrouped(u, y) /\ CopiesMarked(y)
          /\ FillsMarked(a) => FillsMarked(y)
          /\ GemmsMarked(a) => GemmsMarked(y)
          /\ \A H : FillsBehind(a, H) => FillsBehind(y, H)
          /\ \A n : CopiesBehind(a, n) /\ ~(l + 2 < n) => CopiesBehind(y, n)
          /\ \A n : CopiesBelow(a, n) /\ l + 2 < n => CopiesBelow(y, n)
          /\ RingHas(u, y, m, "dma", l + 2)
          /\ \A k : Half(k) # Half(l + 2) /\ RingHas(u, a, m, "dma", k) => RingHas(u, y, m, "dma", k)
      BY <1>0, <1>1, <1>7, <2>2, <2>3, <2>4, <3>2, PfIssueCalls DEF Grouping
    <3> HIDE DEF y
    <3>4. Grouping(u, y) /\ FillsBehind(y, {0, 1})
      BY <2>4, <3>3 DEF Grouping
    <3>5. CopiesBehind(y, l + 1) /\ CopiesBelow(y, l + 3)
      BY <1>5, <2>2, <2>4, <3>2, <3>3 DEF Sound
    <3>6. l + 1 < Layers => RingHas(u, y, m, "dma", l + 1)
      BY <2>4, <3>2, <3>3
    <3>7. HostKnows(u, y, m, h)
      BY <1>4, <3>3, <3>4, <3>5, <3>6
    <3> QED BY <1>2, <3>1, <3>3, <3>7, HostStepGoal
  <2> QED BY <2>5, <2>6
<1> QED BY <1>6, <1>7

\* A layer of a staged (small) chunk keeps the invariant.
LEMMA StagedLayerStep ==
  ASSUME RingInv, StagedLayer
  PROVE  RingInv'
<1> DEFINE u == build
           m == Content
           l == host.layer
           e == Experts(OwnPlan(host), 0, l)
           a == HandOver(driver, "go", "compute", "fork")
           v == Work("fork", "stage_cold", l, 0)
           b == Called(a, v)
           c == HandOver(b, "joined", "fork", "compute")
           w == Work("compute", "gemv", l, 0)
           y == Called(c, w)
           h == NextLayer(host)
<1>0. /\ host \in Hosts /\ host.kind = "staged" /\ host.chunk < Chunks
      /\ Sound(u, driver, fired, m)
      /\ AllStaged(driver) /\ ColdBehind(driver)
      /\ l \in 0..(Layers - 1) /\ 0 \in 0..(Groups - 1)
      /\ {"compute", "fork"} \subseteq Streams
  BY Sizes, StreamsOf DEF RingInv, HostKnows, StagedLayer, Hosts
<1>1. /\ UNCHANGED <<build, fired, plan, ring, slots, eptr>>
      /\ host' = h /\ driver' = y
  BY DEF StagedLayer
<1>2. /\ h \in Hosts /\ h.kind = "staged" /\ (h.at # "chunk" => h.chunk < Chunks)
      /\ h.at \in {"chunk", "layer"}
  BY <1>0, NextLayerIs
<1> HIDE DEF h
<1>3. /\ v \in Commands /\ v.op = "stage_cold" /\ v.on = "fork" /\ v.layer = l /\ Own(v) = OwnPlan(host)
      /\ w \in Commands /\ w.op = "gemv" /\ w.on = "compute" /\ w.layer = l /\ Own(w) = OwnPlan(host)
  BY <1>0, WorkOf DEF WorkOps, OwnPlan
<1>4. /\ Puts(u, v) = {<<"set", 0>>, <<"set", 1>>} /\ \A x : Leaves(v, x) = e
      /\ Expects(u, v) = {}
      /\ Expects(u, w) = {<<"set", 0>>, <<"set", 1>>} /\ Puts(u, w) = {}
      /\ \A i \in {0, 1} : Needs(w, <<"set", i>>) = e
  <2>1. Puts(u, v) = {<<"set", 0>>, <<"set", 1>>} /\ \A x : Leaves(v, x) = e
    BY <1>3 DEF Puts, Writes, BothSets, Leaves
  <2>2. Expects(u, v) = {} /\ Puts(u, w) = {}
    BY <1>3 DEF Expects, Reads, Puts, Writes
  <2>3. Expects(u, w) = {<<"set", 0>>, <<"set", 1>>}
    BY <1>3 DEF Expects, Reads, BothSets
  <2>4. \A i \in {0, 1} : Needs(w, <<"set", i>>) = e
    BY <1>3 DEF Needs
  <2> QED BY <2>1, <2>2, <2>3, <2>4
<1> HIDE DEF v, w, e
<1>5. /\ Sound(u, a, fired, m) /\ Carries(u, m, driver, a)
      /\ \A i \in 1..Size(driver, "compute") : Behind(a, "compute", i, "fork")
  <2>1. <<"go", 0>> \in Events /\ HomeOf(<<"go", 0>>) = "compute"
    BY EventsOf
  <2> QED BY <1>0, <2>1, HandOverCarries
<1> HIDE DEF a
<1>6. AllStaged(a) /\ ColdBehind(a) /\ a \in Devices
  BY <1>0, <1>5 DEF Carries, Sound
<1>7. Fits(u, a, m, v)
  <2>1. ASSUME NEW s \in Streams, NEW i \in 1..Size(a, s), s # "fork", Clash(u, At(a, s, i), v)
        PROVE  Before(a, s, i, "fork", NextPos(a, "fork"))
    <3>1. At(a, s, i).op \in {"stage", "memcpy", "gemm", "gemv", "stage_cold"}
      BY <1>3, <2>1, ClashOf
    <3>2. At(a, s, i).op = "gemv" /\ s = "compute"
      BY <1>6, <2>1, <3>1 DEF AllStaged, Staged
    <3>3. i \in 1..Size(driver, "compute")
      BY <1>0, <1>5, <3>2, WorkIsOld
    <3> QED BY <1>5, <3>2, <3>3 DEF Behind, Before
  <2> QED BY <1>3, <1>4, <2>1 DEF Fits
<1>8. Sound(u, b, fired, m)
  BY <1>5, <1>7, CallSound
<1>9. AllStaged(b)
  <2>1. Staged(v, v.on)
    BY <1>3 DEF Staged
  <2> QED BY <1>3, <1>6, <2>1, CallKeeps
<1>10. \A i \in {0, 1} : Finds(u, b, m, "fork", <<"set", i>>, e)
  BY <1>3, <1>4, <1>6, <1>7, FindsCalled
<1> HIDE DEF b
<1>11. /\ Sound(u, c, fired, m) /\ Carries(u, m, b, c)
       /\ \A i \in 1..Size(b, "fork") : Behind(c, "fork", i, "compute")
  <2>1. <<"joined", 0>> \in Events /\ HomeOf(<<"joined", 0>>) = "fork"
    BY EventsOf
  <2> QED BY <1>0, <1>8, <2>1, HandOverCarries
<1> HIDE DEF c
<1>12. AllStaged(c) /\ c \in Devices
  BY <1>9, <1>11 DEF Carries, Sound
<1>13. ColdBehind(c)
  <2> SUFFICES ASSUME NEW i \in 1..Size(c, "fork"), At(c, "fork", i).op = "stage_cold"
               PROVE  Behind(c, "fork", i, "compute")
    BY DEF ColdBehind
  <2>1. i \in 1..Size(b, "fork")
    BY <1>0, <1>11, WorkIsOld
  <2> QED BY <1>11, <2>1
<1>14. ASSUME NEW s \in Streams, NEW i \in 1..Size(c, s),
              At(c, s, i).op \in {"stage", "memcpy", "stage_cold"}
       PROVE  Before(c, s, i, "compute", NextPos(c, "compute"))
  <2>1. At(c, s, i).op = "stage_cold" /\ s = "fork"
    BY <1>12, <1>14 DEF AllStaged, Staged
  <2> QED BY <1>13, <2>1 DEF ColdBehind, Behind, Before
<1>15. \A i \in {0, 1} : Finds(u, c, m, "compute", <<"set", i>>, e)
  <2> SUFFICES ASSUME NEW i \in {0, 1}
               PROVE  Finds(u, c, m, "compute", <<"set", i>>, e)
    OBVIOUS
  <2>1. Finds(u, c, m, "fork", <<"set", i>>, e)
    BY <1>0, <1>10, <1>11 DEF Carries
  <2>2. ASSUME NEW s \in Streams, NEW k \in 1..Size(c, s), <<"set", i>> \in Puts(u, At(c, s, k))
        PROVE  Before(c, s, k, "compute", NextPos(c, "compute"))
    BY <1>14, <2>2, PutsOf
  <2> QED BY <1>0, <1>12, <2>1, <2>2, FindsToo
<1>16. Fits(u, c, m, w)
  <2>1. ASSUME NEW s \in Streams, NEW i \in 1..Size(c, s), s # "compute", Clash(u, At(c, s, i), w)
        PROVE  Before(c, s, i, "compute", NextPos(c, "compute"))
    BY <1>3, <1>14, <2>1, ClashOf
  <2>2. \A x \in Expects(u, w) : x \notin Puts(u, w) /\ Finds(u, c, m, "compute", x, Needs(w, x))
    BY <1>4, <1>15
  <2> QED BY <1>3, <2>1, <2>2 DEF Fits
<1>17. Sound(u, y, fired, m)
  BY <1>11, <1>16, CallSound
<1>18. AllStaged(y) /\ ColdBehind(y)
  <2>1. Staged(w, w.on) /\ w.op # "stage_cold"
    BY <1>3 DEF Staged
  <2> QED BY <1>3, <1>12, <1>13, <2>1, CallKeeps
<1> HIDE DEF y
<1>19. HostKnows(u, y, m, h)
  BY <1>2, <1>18 DEF HostKnows
<1> QED BY <1>1, <1>17, <1>19, HostStepGoal

----------------------------------------------------------------------------
(* The theorems.                                                             *)

\* At the start nothing is queued.
LEMMA RingInit ==
  ASSUME Init
  PROVE  RingInv
<1>1. /\ build \in Builds
      /\ host = [at |-> "chunk", chunk |-> 0, kind |-> "grouped", layer |-> 0,
                 group |-> 0, groups |-> 0, tiles |-> NoPlan]
      /\ driver = [queue |-> [s \in Streams |-> << >>], recorded |-> [e \in Events |-> 0]]
      /\ fired = [e \in Events |-> 0]
      /\ plan = NoPlan
      /\ ring = [i \in {0, 1} |-> -1]
      /\ slots = [i \in {0, 1} |-> Experts(NoPlan, 0, -1)]
      /\ eptr = [g \in 0..(Groups - 1) |-> NoPlan]
  BY DEF Init
<1>2. -1 \in -1..(Layers - 1) /\ -1 \in -1..(Chunks - 1) /\ 0 \in 0..(Groups - 1)
      /\ 0 \in 0..(Layers - 1) /\ 0 \in 0..Groups /\ 0 \in 0..Chunks
  BY Sizes
<1>3. NoPlan \in Plans
  BY <1>2 DEF NoPlan, Plans
<1>4. host \in Hosts /\ host.at = "chunk" /\ host.kind = "grouped"
  BY <1>1, <1>2, <1>3 DEF Hosts
<1>5. Experts(NoPlan, 0, -1) \in [plan : Plans, group : 0..(Groups - 1), from : -1..(Layers - 1)]
  BY <1>2, <1>3 DEF Experts
<1>6. driver \in Devices /\ fired \in [Events -> Nat]
  BY <1>1, EmptySeq DEF Devices
<1>7. \A s \in Streams : Size(driver, s) = 0
  BY <1>1, EmptySeq DEF Size
<1>8. \A s \in Streams : \A i \in 1..Size(driver, s) : FALSE
  BY <1>7
<1>9. Idle(driver)
  BY <1>8 DEF Idle
<1>10. Sound(build, driver, fired, Content)
  <2>1. Numbered(driver, fired)
    BY <1>1, <1>8 DEF Numbered
  <2>2. Ordered(build, driver) /\ AllSee(build, driver, Content)
    BY <1>8 DEF Ordered, AllSee
  <2> QED BY <1>6, <2>1, <2>2 DEF Sound
<1>11. HostKnows(build, driver, Content, host)
  BY <1>4, <1>9, IdleKnows DEF HostKnows, Grouping, AtChunk
<1>12. /\ plan \in Plans
       /\ ring \in [{0, 1} -> -1..(Layers - 1)]
       /\ slots \in [{0, 1} -> [plan : Plans, group : 0..(Groups - 1), from : -1..(Layers - 1)]]
       /\ eptr \in [0..(Groups - 1) -> Plans]
  BY <1>1, <1>2, <1>3, <1>5
<1> QED BY <1>1, <1>10, <1>11, <1>12 DEF RingInv

\* Every step, of the host or of a stream, keeps the invariant.
LEMMA RingNext ==
  ASSUME RingInv, [Next]_vars
  PROVE  RingInv'
<1>1. CASE \E kind \in {"grouped", "staged"} : StartChunk(kind)
  BY <1>1, StartChunkStep
<1>2. CASE PlanLayer
  BY <1>2, PlanLayerStep
<1>3. CASE \E n \in 1..Groups : ReadBack(n)
  BY <1>3, ReadBackStep
<1>4. CASE GroupGemms
  BY <1>4, GroupGemmsStep
<1>5. CASE LayerDone
  BY <1>5, LayerDoneStep
<1>6. CASE StagedLayer
  BY <1>6, StagedLayerStep
<1>7. CASE \E s \in Streams : Run(s)
  BY <1>7, StreamStep
<1>8. CASE UNCHANGED vars
  <2>1. Content' = Content
    BY <1>8 DEF vars, Content, Memory
  <2> QED BY <1>8, <2>1 DEF vars, RingInv
<1> QED BY <1>1, <1>2, <1>3, <1>4, <1>5, <1>6, <1>7, <1>8 DEF Next, HostStep

\* In every state of every environment any two queued commands that may not run
\* together are ordered by the events, and every queued command finds what it
\* needs where the commands before it leave it.
THEOREM RingInvariance == Spec => []RingInv
<1>1. Init => RingInv
  BY RingInit
<1>2. RingInv /\ [Next]_vars => RingInv'
  BY RingNext
<1> QED BY <1>1, <1>2, PTL DEF Spec

\* The first command of a stream.
LEMMA HeadIsFirst ==
  ASSUME RingInv, NEW s \in Streams, Queue(s) # << >>
  PROVE  /\ 1 \in 1..Size(driver, s) /\ At(driver, s, 1) = Head(Queue(s))
         /\ At(driver, s, 1) \in Commands
         /\ Runnable(s) => Free(driver, fired, s)
         /\ At(driver, s, 1).op # "wait" => Free(driver, fired, s)
<1>1. driver \in Devices
  BY DEF RingInv, Sound
<1>2. driver.queue[s] \in Seq(Commands) /\ driver.queue[s] # << >>
  BY <1>1 DEF Queue, Devices
<1>3. Len(driver.queue[s]) \in Nat /\ Len(driver.queue[s]) # 0
  BY <1>2, EmptySeq, LenProperties
<1>4. Head(driver.queue[s]) = driver.queue[s][1]
  BY <1>2
<1>5. 1 \in 1..Size(driver, s) /\ At(driver, s, 1) = Head(Queue(s))
  BY <1>3, <1>4 DEF Size, At, Queue
<1> QED BY <1>1, <1>5, Positions DEF Runnable, Free

\* The buffers of the properties are those of the argument.
LEMMA SetsOf ==
  ASSUME NEW w
  PROVE  ReadSet(w) = Reads(build, w) /\ WriteSet(w) = Writes(build, w)
<1>1. SetOf(w.group) = SetIn(build, w.group)
  BY DEF SetOf, SetIn, SideStream
<1>2. ReadSet(w) = Reads(build, w)
  BY <1>1 DEF ReadSet, Reads, InRing
<1>3. WriteSet(w) = Writes(build, w)
  BY <1>1 DEF WriteSet, Writes
<1> QED BY <1>2, <1>3

\* Of two commands that may run now none writes what the other touches: the events
\* order every two that clash.
LEMMA NoCollision ==
  ASSUME RingInv
  PROVE  BuffersSound
<1>1. TypeOK
  <2>1. host \in Hosts /\ build \in Builds /\ Numbered(driver, fired) /\ driver \in Devices
        /\ fired \in [Events -> Nat]
    BY DEF RingInv, HostKnows, Sound
  <2>2. \A e \in Events : fired[e] \in 0..driver.recorded[e]
    <3> SUFFICES ASSUME NEW e \in Events
                 PROVE  fired[e] \in 0..driver.recorded[e]
      OBVIOUS
    <3>1. fired[e] \in Nat /\ driver.recorded[e] \in Nat
      BY <2>1 DEF Devices
    <3>2. fired[e] <= driver.recorded[e]
      BY <2>1 DEF Numbered
    <3> QED BY <3>1, <3>2
  <2> QED BY <2>1, <2>2 DEF TypeOK, Hosts, RingInv
<1>2. NeverTogether
  <2> SUFFICES ASSUME NEW s \in Streams, NEW t \in Streams, s # t, Runnable(s), Runnable(t)
               PROVE  WriteSet(Head(Queue(s))) \cap
                        (ReadSet(Head(Queue(t))) \cup WriteSet(Head(Queue(t)))) = {}
    BY DEF NeverTogether
  <2> DEFINE v == At(driver, s, 1)
             w == At(driver, t, 1)
  <2>1. /\ v = Head(Queue(s)) /\ Free(driver, fired, s)
        /\ w = Head(Queue(t)) /\ Free(driver, fired, t)
    BY HeadIsFirst DEF Runnable
  <2>2. ~Clash(build, v, w)
    BY <2>1, FreeTogether DEF RingInv
  <2> HIDE DEF v, w
  <2>3. Writes(build, v) \cap (Reads(build, w) \cup Writes(build, w)) = {}
    BY <2>2 DEF Clash
  <2> QED BY <2>1, <2>3, SetsOf
<1> QED BY <1>1, <1>2 DEF BuffersSound

\* Of any number of layers, groups and chunks, in every environment and at any
\* pace of the four streams: no kernel's source is rewritten under it, and no two
\* copies fill one slot set together.
THEOREM BuffersCorrect == Spec => []BuffersSound
<1>1. RingInv => BuffersSound
  BY NoCollision
<1> QED BY <1>1, RingInvariance, PTL

\* The buffers of the multiplication that may run hold what its layer needs.
LEMMA GemmsFindTheirs ==
  ASSUME RingInv, Fills(build)
  PROVE  GemmsReadTheirs
<1> SUFFICES ASSUME Queue("compute") # << >>
             PROVE  LET w == Head(Queue("compute"))
                        own == PlanOf(w.chunk, w.layer)
                    IN  /\ w.op = "gemm" =>
                             /\ plan = own
                             /\ eptr[w.group] = own
                             /\ slots[SetOf(w.group)] = Experts(own, w.group, w.layer)
                        /\ w.op = "gemv" =>
                             \A i \in {0, 1} : slots[i] = Experts(own, 0, w.layer)
  BY DEF GemmsReadTheirs
<1> DEFINE w == At(driver, "compute", 1)
<1>1. /\ w = Head(Queue("compute")) /\ w \in Commands
      /\ w.op # "wait" => Free(driver, fired, "compute")
  BY HeadIsFirst, StreamsOf
<1>2. w.op # "wait" => \A b \in Expects(build, w) : Content[b] = Needs(w, b)
  BY <1>1, FreeReads, StreamsOf DEF RingInv
<1>3. /\ Content[<<"plan", 0>>] = plan
      /\ \A i \in {0, 1} : Content[<<"set", i>>] = slots[i]
      /\ \A g \in 0..(Groups - 1) : Content[<<"eptr", g>>] = eptr[g]
  BY MemoryOf DEF Content
<1> HIDE DEF w
<1>4. ASSUME w.op = "gemm"
      PROVE  /\ plan = Own(w)
             /\ eptr[w.group] = Own(w)
             /\ slots[SetOf(w.group)] = Experts(Own(w), w.group, w.layer)
  <2>1. w.group \in 0..(Groups - 1) /\ w.group \in Nat
    BY <1>1, <1>4, Sizes DEF Commands, Syncs, Works
  <2>2. SetOf(w.group) = SetIn(build, w.group) /\ SetIn(build, w.group) \in {0, 1}
    BY <2>1, Halves DEF SetOf, SetIn, SideStream
  <2>3. Expects(build, w) = {<<"plan", 0>>, <<"set", SetIn(build, w.group)>>, <<"eptr", w.group>>}
    BY <1>4 DEF Expects, Reads, ThePlan
  <2>4. /\ Content[<<"plan", 0>>] = Needs(w, <<"plan", 0>>)
        /\ Content[<<"set", SetIn(build, w.group)>>] = Needs(w, <<"set", SetIn(build, w.group)>>)
        /\ Content[<<"eptr", w.group>>] = Needs(w, <<"eptr", w.group>>)
    BY <1>2, <1>4, <2>3
  <2>5. /\ Needs(w, <<"plan", 0>>) = Own(w) /\ Needs(w, <<"eptr", w.group>>) = Own(w)
        /\ \A i : Needs(w, <<"set", i>>) = Experts(Own(w), w.group, w.layer)
    BY <1>4 DEF Needs
  <2> QED BY <1>3, <2>1, <2>2, <2>4, <2>5
<1>5. ASSUME w.op = "gemv", NEW i \in {0, 1}
      PROVE  slots[i] = Experts(Own(w), 0, w.layer)
  <2>1. <<"set", i>> \in Expects(build, w)
    BY <1>5 DEF Expects, Reads, BothSets
  <2>2. Needs(w, <<"set", i>>) = Experts(Own(w), 0, w.layer)
    BY <1>5 DEF Needs
  <2> QED BY <1>2, <1>3, <1>5, <2>1, <2>2
<1> QED BY <1>1, <1>4, <1>5 DEF Own

\* The environment is that of the start, and CROW_PF_ASYNC=2 with the low-bit tier
\* is the one in which nobody copies experts into the slot sets.  Without it, of
\* any number of layers, groups and chunks and at any pace of the streams, every
\* routed multiplication reads the experts of its own chunk, layer and group.
THEOREM GemmsCorrect ==
  ASSUME \A b \in Builds : ~(b.async = 2 /\ b.tier = "low_bit")
  PROVE  Spec => []GemmsReadTheirs
<1>1. RingInv => GemmsReadTheirs
  <2>1. RingInv => Fills(build)
    BY DEF RingInv, Fills
  <2> QED BY <2>1, GemmsFindTheirs
<1> QED BY <1>1, RingInvariance, PTL
=============================================================================
