-------------------------- MODULE Controller_proofs --------------------------
(* Why a controlled row never starves and why its answer is the head's on    *)
(* the ids held (Controller: NeverStarved, RowsSound, AnswersExact), proved  *)
(* for every number of layers, calls and failures, every ring and every size *)
(* of the launch queue above the host's lead.                                *)
(*                                                                           *)
(* RowInv: while no job failed, the reply word is the device's request or    *)
(* the one before it, and every layer queued behind the device's is one      *)
(* Ctl::pace let through: so the stream holds at most CTL_AHEAD layers and   *)
(* no launch of the host ever blocks.                                        *)
(*                                                                           *)
(* DataInv: the order of the stream's launches around a row's head gives the *)
(* ids the recurrent state has seen at any moment, and the numbers of the    *)
(* requests give whose table, copies, landing and CPU row the device's next  *)
(* step reads: so a state built while no job failed is that of its ids.      *)
EXTENDS Controller, FiniteSetTheorems, SequenceTheorems, TLAPS

StreamOps == [op : {"start"}, arg : Tokens \cup {None}] \cup [op : {"layer"}, arg : LayerIds]
               \cup [op : {"head", "backup"}, arg : {0}]
JobType   == [seq : Nat \ {0}, left : Nat \ {0}]
CallType  == [layer : Nat, rid : Nat, q : Nat]
CtlType   == [queued : Nat, handed : Nat, cancel : BOOLEAN, poisoned : BOOLEAN, base : Nat]
WordsType == [reply : Nat, err : Nat, flag : Nat]
State     == [toks : Seq(Tokens), ok : BOOLEAN]
Phases    == {"publish", "wait", "pre", "experts", "late", "lane"}

\* What every variable holds: the host's, the device's, the threads'.
HostShape ==
  /\ mode \in Modes /\ mode \in [early : BOOLEAN, la : BOOLEAN, lane : BOOLEAN]
  /\ calls \in 0 .. MaxCalls /\ faults \in 0 .. MaxFaults
  /\ pc \in {"idle", "row", "pace", "launch", "head", "sync", "wait", "drop", "drain", "fail"}
  /\ call \in [kind : {"decode", "settle", "reset"}, tok : Tokens]
  /\ laid \in 0 .. Layers /\ second \in BOOLEAN /\ hist \in Seq(Tokens)
  /\ last \in Tokens \cup {None} /\ ahead \in Tokens \cup {None}
  /\ ctl \in CtlType
DeviceShape ==
  /\ words \in WordsType
  /\ ring \in [0 .. RingSize - 1 -> [seq : Nat, layer : Nat]]
  /\ entry \in [0 .. RingSize - 1 -> [seq : Nat, late : BOOLEAN]]
  /\ stream \in Seq(StreamOps) /\ phase \in {"publish"} \cup Range(Steps) /\ ctr \in Nat
  /\ kda \in State /\ bak \in State /\ next \in Tokens /\ marked \in BOOLEAN
ThreadShape ==
  /\ jobs \in Seq(JobType) /\ cphase \in {"next", "read", "reply", "failed"} /\ results \in Seq(BOOLEAN)
  /\ tab \in [LayerIds -> Nat] /\ moved \in Nat /\ flying \in SUBSET Nat /\ stg \in Seq(CallType)
  /\ lane \in Seq([q : Nat, rid : Nat]) /\ laneRow \in Nat /\ xrow \in Nat
Shape == HostShape /\ DeviceShape /\ ThreadShape

\* Jobs and results of the rows under way, by where the host is.
Rows(p, two, row) ==
  CASE p \in {"pace", "launch"} -> IF two THEN 2 ELSE 1
    [] p \in {"head", "sync", "drop"} -> 1
    [] p = "wait" -> 2
    [] p = "idle" -> IF row THEN 1 ELSE 0
    [] OTHER -> 0
RowsInv ==
  /\ pc # "drain" => Len(jobs) + Len(results) = Rows(pc, second, ahead # None)
  /\ pc = "drain" => ctl.poisoned /\ Len(jobs) + Len(results) <= 2
  /\ pc \notin {"idle", "drain", "fail"} => ~ctl.poisoned
  /\ ahead # None => pc = "idle" /\ ~ctl.poisoned
  /\ second => mode.la
  /\ pc = "wait" => second
  /\ pc = "sync" => ~mode.la
  /\ pc \in {"idle", "row", "sync", "drop"} => ~second

\* The layers handed to the thread are queued, but for those of the row in hand.
LaidInv ==
  /\ pc \in {"pace", "launch"} => laid < Layers /\ ctl.queued + Layers = ctl.handed + laid
  /\ pc \notin {"pace", "launch"} => ctl.queued <= ctl.handed
  /\ pc \notin {"pace", "launch"} /\ ~ctl.poisoned => ctl.queued = ctl.handed

\* The stream's layers are those queued and not run.
QueueInv ==
  /\ ctl.queued + (IF phase = "publish" THEN 0 ELSE 1) = ctr + LayersQueued
  /\ phase # "publish" => stream # <<>> /\ Top.op = "layer" /\ ctr # 0
  /\ \A i \in DOMAIN ring : ring[i].seq <= ctr
  /\ LayersQueued <= QueueCap

\* The requests behind the thread: a job's next one follows them.
Behind == IF jobs = <<>> THEN ctl.handed ELSE jobs[1].seq - 1

JobsInv ==
  /\ \A i \in DOMAIN jobs :
       jobs[i].seq + jobs[i].left = IF i = Len(jobs) THEN ctl.handed + 1 ELSE jobs[i + 1].seq
  /\ cphase # "next" => jobs # <<>>
  /\ cphase \in {"read", "reply"} => Job.seq <= ctr

\* A serial call whose reply the stager stream has still to write.
Owed == {i \in DOMAIN stg : stg[i].q # 0 /\ stg[i].rid > ctl.base}
StagerInv == \A i \in DOMAIN stg : stg[i].rid <= ctl.base + ctl.handed

Sound == ~JobFailed /\ words.err = 0

\* While no job failed: the device is at most one request past the reply word,
\* and the host at most Ahead layers.
PaceInv ==
  Sound =>
    /\ words.reply <= ctr /\ ctr <= words.reply + 1
    /\ phase # "wait" => words.reply = ctr
    /\ words.reply <= Behind /\ Behind <= ctr
    /\ \A i \in Owed : stg[i].q = Behind /\ Behind = words.reply + 1
    /\ \A i, j \in Owed : i = j
    /\ pc = "launch" => ctl.queued + 1 <= words.reply + Ahead

RowInv == Shape /\ RowsInv /\ LaidInv /\ QueueInv /\ JobsInv /\ StagerInv /\ PaceInv

-----------------------------------------------------------------------------
(* The layers of a stream.                                                   *)

LayersAt(s) == {i \in DOMAIN s : s[i].op = "layer"}

(* There are finitely many of them. *)
LEMMA LayersFinite ==
  ASSUME NEW s \in Seq(StreamOps)
  PROVE  IsFiniteSet(LayersAt(s)) /\ Cardinality(LayersAt(s)) \in Nat
<1>1. Len(s) \in Nat /\ DOMAIN s = 1 .. Len(s)
  OBVIOUS
<1>2. IsFiniteSet(1 .. Len(s))
  BY <1>1, FS_Interval
<1>3. LayersAt(s) \subseteq 1 .. Len(s)
  BY <1>1 DEF LayersAt
<1>4. IsFiniteSet(LayersAt(s))
  BY <1>2, <1>3, FS_Subset
<1> QED BY <1>4, FS_CardinalityType

(* A launch behind the others. *)
LEMMA LayersAppend ==
  ASSUME NEW s \in Seq(StreamOps), NEW x \in StreamOps
  PROVE  /\ Append(s, x) \in Seq(StreamOps)
         /\ Cardinality(LayersAt(Append(s, x)))
              = Cardinality(LayersAt(s)) + (IF x.op = "layer" THEN 1 ELSE 0)
<1>1. IsFiniteSet(LayersAt(s)) /\ Cardinality(LayersAt(s)) \in Nat
  BY LayersFinite
<1>2. CASE x.op = "layer"
  <2>1. LayersAt(Append(s, x)) = LayersAt(s) \cup {Len(s) + 1}
    BY <1>2 DEF LayersAt
  <2>2. Len(s) + 1 \notin LayersAt(s)
    BY DEF LayersAt
  <2>3. Cardinality(LayersAt(s) \cup {Len(s) + 1}) = Cardinality(LayersAt(s)) + 1
    BY <1>1, <2>2, FS_AddElement
  <2> QED BY <1>2, <2>1, <2>3
<1>3. CASE x.op # "layer"
  <2>1. LayersAt(Append(s, x)) = LayersAt(s)
    BY <1>3 DEF LayersAt
  <2> QED BY <1>1, <1>3, <2>1
<1> QED BY <1>2, <1>3

(* The first one done. *)
LEMMA LayersTail ==
  ASSUME NEW s \in Seq(StreamOps), s # <<>>
  PROVE  /\ Tail(s) \in Seq(StreamOps) /\ Head(s) \in StreamOps
         /\ Cardinality(LayersAt(s))
              = Cardinality(LayersAt(Tail(s))) + (IF Head(s).op = "layer" THEN 1 ELSE 0)
<1> DEFINE T == LayersAt(Tail(s))
           S == {i + 1 : i \in T}
           back == [i \in T |-> i + 1]
<1>0. Tail(s) \in Seq(StreamOps)
  OBVIOUS
<1>1. IsFiniteSet(T) /\ Cardinality(T) \in Nat
  BY <1>0, LayersFinite
<1>2. T \subseteq Nat \ {0} /\ \A i \in 1 .. Len(s) - 1 : Tail(s)[i] = s[i + 1] /\ Len(Tail(s)) = Len(s) - 1
  BY DEF LayersAt
<1>3. back \in Bijection(T, S)
  <2>1. \A i, j \in T : i + 1 = j + 1 => i = j
    BY <1>2
  <2> HIDE DEF T
  <2> QED BY <2>1 DEF Bijection, Injection, Surjection, IsInjective
<1>4. Cardinality(S) = Cardinality(T) /\ IsFiniteSet(S)
  <2> HIDE DEF T, S, back
  <2>1. ExistsBijection(T, S)
    BY <1>3 DEF ExistsBijection
  <2> QED BY <1>1, <2>1, FS_Bijection
<1>5. CASE Head(s).op = "layer"
  <2>1. LayersAt(s) = S \cup {1}
    <3>1. ASSUME NEW i \in LayersAt(s), i # 1 PROVE i \in S
      <4>1. i - 1 \in T /\ i = (i - 1) + 1
        BY <3>1 DEF LayersAt
      <4> QED BY <4>1
    <3>2. S \subseteq LayersAt(s)
      BY DEF LayersAt
    <3>3. 1 \in LayersAt(s)
      BY <1>5 DEF LayersAt
    <3> QED BY <3>1, <3>2, <3>3
  <2>2. 1 \notin S
    BY <1>2
  <2>3. Cardinality(S \cup {1}) = Cardinality(S) + 1
    <3> HIDE DEF S
    <3> QED BY <1>4, <2>2, FS_AddElement
  <2> QED BY <1>4, <1>5, <2>1, <2>3
<1>6. CASE Head(s).op # "layer"
  <2>1. LayersAt(s) = S
    <3>1. ASSUME NEW i \in LayersAt(s) PROVE i \in S
      <4>1. i - 1 \in T /\ i = (i - 1) + 1
        BY <3>1, <1>6 DEF LayersAt
      <4> QED BY <4>1
    <3>2. S \subseteq LayersAt(s)
      BY DEF LayersAt
    <3> QED BY <3>1, <3>2
  <2> QED BY <1>1, <1>4, <1>6, <2>1
<1> QED BY <1>5, <1>6

(* The steps of a layer behind its publish, of every setting: the first is     *)
(* glm5_ctl_wait, and none comes back to it.                                   *)
LEMMA LayerSteps ==
  ASSUME mode \in [early : BOOLEAN, la : BOOLEAN, lane : BOOLEAN],
         NEW p \in Range(Steps)
  PROVE  /\ p \in Phases \ {"publish"} /\ AfterStep(p) \in {"publish"} \cup Range(Steps)
         /\ AfterStep(p) # "wait"
<1> DEFINE Rest == {"pre", "experts", "late", "lane"}
<1>0. /\ <<"pre", "experts", "late">> \in Seq(Rest) /\ <<"experts">> \in Seq(Rest)
      /\ <<"lane">> \in Seq(Rest) /\ <<>> \in Seq(Rest)
  OBVIOUS
<1> HIDE DEF Rest
<1>1. PICK b \in Seq(Rest) : b = IF mode.early THEN <<"pre", "experts", "late">> ELSE <<"experts">>
  BY <1>0, Zenon
<1>2. PICK c \in Seq(Rest) : c = IF mode.lane THEN <<"lane">> ELSE <<>>
  BY <1>0, Zenon
<1> USE DEF Rest
<1>3. PICK s : s = Steps /\ s = <<"wait">> \o b \o c
  BY <1>1, <1>2 DEF Steps
<1>a. PICK a : a = <<"wait">> \o b
  OBVIOUS
<1>b. a \in Seq(Phases) /\ Len(a) = 1 + Len(b) /\ a[1] = "wait" /\ \A j \in 2 .. Len(a) : a[j] = b[j - 1]
  BY <1>a DEF Phases
<1>c. s \in Seq(Phases) /\ Len(s) = Len(a) + Len(c)
      /\ \A j \in 1 .. Len(s) : s[j] = IF j <= Len(a) THEN a[j] ELSE c[j - Len(a)]
  BY <1>a, <1>b, <1>3 DEF Phases
<1>d. /\ DOMAIN s = 1 .. Len(s) /\ Len(s) \in Nat
      /\ \A j \in DOMAIN s : s[j] \in Phases \ {"publish"} /\ (s[j] = "wait" => j = 1)
  <2>1. DOMAIN s = 1 .. Len(s) /\ Len(s) \in Nat
    BY <1>c
  <2>2. ASSUME NEW j \in 1 .. Len(s), j # 1 PROVE s[j] \in Rest
    <3>1. CASE j <= Len(a)
      <4>1. s[j] = b[j - 1] /\ j - 1 \in DOMAIN b
        BY <1>b, <1>c, <2>2, <3>1
      <4> QED BY <4>1
    <3>2. CASE ~(j <= Len(a))
      <4>1. s[j] = c[j - Len(a)] /\ j - Len(a) \in DOMAIN c
        BY <1>b, <1>c, <2>2, <3>2
      <4> QED BY <4>1
    <3> QED BY <3>1, <3>2
  <2>3. 1 \in 1 .. Len(s) => s[1] = "wait"
    BY <1>b, <1>c
  <2> QED BY <2>1, <2>2, <2>3 DEF Phases
<1>4. PICK j \in DOMAIN s : s[j] = p
  BY <1>3 DEF Range
<1>5. PICK i : i = CHOOSE k \in DOMAIN s : s[k] = p
  OBVIOUS
<1>6. i \in DOMAIN s /\ s[i] = p
  BY <1>4, <1>5
<1>7. AfterStep(p) = IF i = Len(s) THEN "publish" ELSE s[i + 1]
  BY <1>3, <1>5 DEF AfterStep
<1>8. i # Len(s) => i + 1 \in DOMAIN s /\ i + 1 # 1
  BY <1>d, <1>6
<1> HIDE DEF Rest
<1> QED BY <1>3, <1>d, <1>6, <1>7, <1>8 DEF Range

-----------------------------------------------------------------------------
(* What a step leaves alone.                                                 *)

(* The stream, the ring and the count of queued layers unmoved. *)
LEMMA QueueKept ==
  ASSUME QueueInv, UNCHANGED <<stream, phase, ctr, ring>>, ctl'.queued = ctl.queued
  PROVE  QueueInv'
BY DEF QueueInv, LayersQueued, Top

(* The jobs unmoved; the device may have gone on. *)
LEMMA JobsKept ==
  ASSUME JobsInv, ThreadShape, DeviceShape, UNCHANGED <<jobs, cphase>>, ctl'.handed = ctl.handed, ctr' \in Nat, ctr <= ctr'
  PROVE  JobsInv'
<1>1. \A i \in DOMAIN jobs' :
        jobs'[i].seq + jobs'[i].left = IF i = Len(jobs') THEN ctl'.handed + 1 ELSE jobs'[i + 1].seq
  BY DEF JobsInv
<1>2. ASSUME cphase' # "next" PROVE jobs' # <<>> /\ jobs' \in Seq(JobType) /\ Head(jobs').seq \in Nat
  <2>1. jobs # <<>> /\ jobs \in Seq(JobType)
    BY <1>2 DEF JobsInv, ThreadShape
  <2>2. Head(jobs) \in JobType
    BY <2>1
  <2> QED BY <2>1, <2>2 DEF JobType
<1>3. ASSUME cphase' \in {"read", "reply"} PROVE Head(jobs').seq <= ctr'
  BY <1>2, <1>3 DEF JobsInv, Job, DeviceShape
<1> QED BY <1>1, <1>2, <1>3 DEF JobsInv, Job

(* Words, device, thread and stager unmoved; the host launches no further. *)
LEMMA PaceKept ==
  ASSUME PaceInv, UNCHANGED <<ctr, phase, stg, jobs>>, Sound' => Sound, words'.reply = words.reply,
         ctl'.handed = ctl.handed, ctl'.base = ctl.base,
         pc' = "launch" => pc = "launch" /\ ctl'.queued = ctl.queued
  PROVE  PaceInv'
<1>1. Behind' = Behind /\ Owed' = Owed
  BY DEF Behind, Owed
<1> QED BY <1>1, Zenon DEF PaceInv

(* The host's variables unmoved. *)
LEMMA HostKept ==
  ASSUME HostShape, UNCHANGED <<mode, calls, faults, pc, call, laid, second, hist, last, ahead, ctl>>
  PROVE  HostShape'
BY DEF HostShape

(* The device's variables unmoved. *)
LEMMA DeviceKept ==
  ASSUME DeviceShape, UNCHANGED <<mode, words, ring, entry, stream, phase, ctr, kda, bak, next, marked>>
  PROVE  DeviceShape'
<1>1. Steps' = Steps
  BY DEF Steps
<1> QED BY <1>1, Zenon DEF DeviceShape

(* The variables of the thread, the stager and the lane unmoved. *)
LEMMA ThreadKept ==
  ASSUME ThreadShape, UNCHANGED <<jobs, cphase, results, tab, moved, flying, stg, lane, laneRow, xrow>>
  PROVE  ThreadShape'
BY Zenon DEF ThreadShape

-----------------------------------------------------------------------------
(* The host.                                                                 *)

(* The first controller: nothing queued, nothing handed over. *)
LEMMA InitInv == Init => RowInv
<1> SUFFICES ASSUME Init PROVE RowInv
  OBVIOUS
<1>1. mode \in [early : BOOLEAN, la : BOOLEAN, lane : BOOLEAN] /\ Layers \in Nat /\ MaxCalls \in Nat
      /\ MaxFaults \in Nat /\ QueueCap \in Nat
  BY ControllerAssumption DEF Init
<1>2. Shape
  <2>1. HostShape
    <3>1. call \in [kind : {"decode", "settle", "reset"}, tok : Tokens]
      BY DEF Init, NoCall, Tokens
    <3>2. ctl \in CtlType
      BY DEF Init, CtlType
    <3>3. calls \in 0 .. MaxCalls /\ faults \in 0 .. MaxFaults /\ laid \in 0 .. Layers /\ hist \in Seq(Tokens)
      BY <1>1 DEF Init
    <3>4. mode \in Modes /\ pc = "idle" /\ second = FALSE /\ last = None /\ ahead = None
      BY DEF Init
    <3> QED BY <1>1, <3>1, <3>2, <3>3, <3>4, Zenon DEF HostShape
  <2>2. DeviceShape
    <3>1. kda \in State /\ bak \in State /\ next \in Tokens /\ marked \in BOOLEAN
      <4>1. Fresh \in State /\ 0 \in Tokens
        BY DEF Fresh, State, Tokens
      <4> QED BY <4>1, Zenon DEF Init
    <3>2. /\ words \in WordsType
          /\ ring \in [0 .. RingSize - 1 -> [seq : Nat, layer : Nat]]
          /\ entry \in [0 .. RingSize - 1 -> [seq : Nat, late : BOOLEAN]]
          /\ stream \in Seq(StreamOps) /\ phase = "publish" /\ ctr \in Nat
      BY DEF Init, WordsType
    <3> QED BY <3>1, <3>2, Zenon DEF DeviceShape
  <2>3. ThreadShape
    BY <1>1 DEF Init, ThreadShape, LayerIds
  <2> QED BY <2>1, <2>2, <2>3 DEF Shape
<1>3. RowsInv /\ LaidInv /\ JobsInv /\ StagerInv
  BY DEF Init, RowsInv, Rows, LaidInv, JobsInv, StagerInv
<1>4. LayersQueued = 0
  <2>1. {i \in DOMAIN stream : stream[i].op = "layer"} = {}
    BY DEF Init
  <2> QED BY <2>1, FS_EmptySet DEF LayersQueued
<1>5. QueueInv
  BY <1>1, <1>4 DEF Init, QueueInv
<1>6. PaceInv
  BY DEF Init, PaceInv, Behind, Owed
<1> QED BY <1>2, <1>3, <1>5, <1>6 DEF RowInv

(* reset: the row's state goes, the words and the ring stay. *)
LEMMA FailInv == ASSUME RowInv, Fail PROVE RowInv'
<1> USE DEF RowInv, Shape
<1>1. /\ pc = "fail" /\ pc' = "idle" /\ call' = NoCall /\ laid' = 0 /\ second' = FALSE
      /\ hist' = <<>> /\ last' = None /\ ahead' = None /\ kda' = Fresh
      /\ UNCHANGED <<mode, calls, faults, ctl, words, ring, entry, stream, phase, ctr, bak, next, marked,
                     jobs, cphase, results, tab, moved, flying, stg, lane, laneRow, xrow>>
  BY DEF Fail, Returns, jobVars, storeVars, laneVars
<1>2. HostShape'
  <2>1. call' \in [kind : {"decode", "settle", "reset"}, tok : Tokens]
    BY <1>1 DEF NoCall, Tokens
  <2>2. laid' \in 0 .. Layers
    BY <1>1, ControllerAssumption
  <2>3. <<>> \in Seq(Tokens)
    OBVIOUS
  <2> QED BY <1>1, <2>1, <2>2, <2>3, Zenon DEF HostShape
<1>3. DeviceShape'
  BY <1>1 DEF DeviceShape, Fresh, State, Steps
<1>4. ThreadShape'
  BY <1>1, ThreadKept
<1>5. RowsInv' /\ LaidInv' /\ StagerInv'
  BY <1>1 DEF RowsInv, Rows, LaidInv, StagerInv
<1>6. QueueInv' /\ JobsInv'
  BY <1>1, QueueKept, JobsKept DEF DeviceShape
<1>7. PaceInv'
  BY <1>1, PaceKept DEF Sound, JobFailed
<1> QED BY <1>2, <1>3, <1>4, <1>5, <1>6, <1>7

(* A call begins: it takes the row ahead over, drops it, or needs a row of its own. *)
LEMMA CallInv ==
  ASSUME RowInv, NEW kind \in {"decode", "settle", "reset"}, NEW t \in Tokens, Call(kind, t)
  PROVE  RowInv'
<1> USE DEF RowInv, Shape
<1>1. /\ pc = "idle" /\ calls < MaxCalls /\ calls' = calls + 1
      /\ call' = [kind |-> kind, tok |-> t] /\ ahead' = None /\ second' = FALSE
      /\ pc' = IF kind = "decode" /\ ctl.poisoned THEN "fail"
               ELSE IF kind = "decode" /\ ahead = t THEN "head"
               ELSE IF ahead # None THEN "drop"
               ELSE IF kind = "decode" THEN "row" ELSE "fail"
      /\ UNCHANGED <<mode, laid, hist, last, faults, ctl, words, ring, entry, stream, phase, ctr, kda, bak,
                     next, marked, jobs, cphase, results, tab, moved, flying, stg, lane, laneRow, xrow>>
  BY DEF Call, devVars, jobVars, storeVars, laneVars
<1>a. /\ pc' = "fail" => ahead = None
      /\ pc' = "head" => ahead # None
      /\ pc' = "drop" => ahead # None
      /\ pc' = "row" => ahead = None /\ ~ctl.poisoned
      /\ pc' \in {"fail", "head", "drop", "row"}
      /\ t # None
  <2>1. t # None /\ (kind = "settle" => ahead # None)
    BY DEF Call, Tokens, None
  <2>2. ahead # None => ~ctl.poisoned
    BY DEF RowsInv
  <2>3. ahead \in Nat /\ t \in Nat
    BY DEF HostShape, Tokens, None
  <2>4. CASE kind = "decode" /\ ctl.poisoned
    BY <1>1, <2>1, <2>2, <2>4
  <2>5. CASE kind = "decode" /\ ~ctl.poisoned /\ ahead = t
    BY <1>1, <2>1, <2>5
  <2>6. CASE ~(kind = "decode" /\ ctl.poisoned) /\ ~(kind = "decode" /\ ahead = t) /\ ahead # None
    BY <1>1, <2>1, <2>6
  <2>7. CASE kind = "decode" /\ ~ctl.poisoned /\ ahead # t /\ ahead = None
    BY <1>1, <2>1, <2>7
  <2>8. CASE kind # "decode" /\ ahead = None
    BY <1>1, <2>1, <2>8
  <2> QED BY <2>4, <2>5, <2>6, <2>7, <2>8
<1>2. HostShape'
  <2>1. call' \in [kind : {"decode", "settle", "reset"}, tok : Tokens]
    BY <1>1
  <2>2. calls' \in 0 .. MaxCalls
    BY <1>1, ControllerAssumption DEF HostShape
  <2>3. second' \in BOOLEAN /\ ahead' \in Tokens \cup {None}
        /\ pc' \in {"idle", "row", "pace", "launch", "head", "sync", "wait", "drop", "drain", "fail"}
    BY <1>1, <1>a
  <2> QED BY <1>1, <2>1, <2>2, <2>3, Zenon DEF HostShape
<1>3. DeviceShape'
  BY <1>1, DeviceKept
<1>4. ThreadShape'
  BY <1>1, ThreadKept
<1>5. RowsInv'
  BY <1>1, <1>a DEF RowsInv, Rows
<1>6. LaidInv' /\ StagerInv'
  BY <1>1, <1>a DEF LaidInv, StagerInv
<1>7. QueueInv' /\ JobsInv'
  BY <1>1, QueueKept, JobsKept DEF DeviceShape
<1>8. PaceInv'
  BY <1>1, <1>a, PaceKept DEF Sound, JobFailed
<1> QED BY <1>2, <1>3, <1>4, <1>5, <1>6, <1>7, <1>8

(* The first of a sequence, and the rest. *)
LEMMA HeadTail ==
  ASSUME NEW S, NEW s \in Seq(S), s # <<>>
  PROVE  /\ Head(s) \in S /\ Tail(s) \in Seq(S) /\ Len(s) \in Nat \ {0} /\ Len(Tail(s)) = Len(s) - 1
         /\ Head(s) = s[1] /\ DOMAIN s = 1 .. Len(s) /\ DOMAIN Tail(s) = 1 .. Len(s) - 1
         /\ \A i \in 1 .. Len(s) - 1 : Tail(s)[i] = s[i + 1]
         /\ \A i \in 1 .. Len(s) : i # 1 => i - 1 \in 1 .. Len(s) - 1 /\ Tail(s)[i - 1] = s[i]
OBVIOUS

(* A request's number names a slot of the ring. *)
LEMMA SlotOfRing == \A n \in Nat : n % RingSize \in 0 .. RingSize - 1
<1>1. RingSize \in Nat \ {0}
  BY ControllerAssumption
<1>2. ASSUME NEW n \in Nat, NEW m \in Nat \ {0} PROVE n % m \in 0 .. m - 1
  OBVIOUS
<1> QED BY <1>1, <1>2

(* One off the second of two counts. *)
LEMMA OneLess == \A a, b \in Nat : b # 0 => a + (b - 1) = a + b - 1 /\ a + b >= 1
OBVIOUS

(* A job's result taken off. *)
LEMMA ResultTaken ==
  ASSUME ThreadShape, results # <<>>, results' = Tail(results), UNCHANGED <<jobs, words>>,
         ctl'.poisoned = (ctl.poisoned \/ ~(Head(results) /\ words.err = 0))
  PROVE  /\ Head(results) \in BOOLEAN /\ Tail(results) \in Seq(BOOLEAN)
         /\ Len(jobs') + Len(results') = Len(jobs) + Len(results) - 1 /\ Len(jobs) + Len(results) >= 1
         /\ Sound' => Sound /\ Head(results)
<1>1. results \in Seq(BOOLEAN) /\ jobs \in Seq(JobType)
  BY DEF ThreadShape
<1>a. /\ Head(results) \in BOOLEAN /\ Tail(results) \in Seq(BOOLEAN)
      /\ Len(results) \in Nat \ {0} /\ Len(Tail(results)) = Len(results) - 1
      /\ Head(results) = results[1] /\ DOMAIN results = 1 .. Len(results) /\ DOMAIN Tail(results) = 1 .. Len(results) - 1
      /\ \A i \in 1 .. Len(results) : i # 1 => i - 1 \in 1 .. Len(results) - 1 /\ Tail(results)[i - 1] = results[i]
  BY <1>1, HeadTail, Zenon
<1>2. /\ Head(results) \in BOOLEAN /\ Tail(results) \in Seq(BOOLEAN)
      /\ Len(jobs') + Len(results') = Len(jobs) + Len(results) - 1 /\ Len(jobs) + Len(results) >= 1
  <2>1. jobs' = jobs /\ results' = Tail(results) /\ Len(jobs) \in Nat
    BY <1>1, LenProperties
  <2>2. Len(jobs') = Len(jobs) /\ Len(results') = Len(results) - 1
    BY <1>a, <2>1, Zenon
  <2>3. \A a, b \in Nat : b # 0 => a + (b - 1) = a + b - 1 /\ a + b >= 1
    BY OneLess
  <2> QED BY <1>a, <2>1, <2>2, <2>3, Zenon
<1>3. ASSUME Sound' PROVE Sound /\ Head(results)
  <2>1. ~ctl'.poisoned /\ FALSE \notin Range(results') /\ words.err = 0
    BY <1>3 DEF Sound, JobFailed
  <2>2. ~ctl.poisoned /\ Head(results) = TRUE
    BY <1>2, <2>1
  <2>3. ASSUME NEW i \in DOMAIN results PROVE results[i] # FALSE
    <3>1. CASE i = 1
      BY <1>a, <2>2, <3>1, Zenon
    <3>2. CASE i # 1
      <4>1. i - 1 \in DOMAIN Tail(results) /\ Tail(results)[i - 1] = results[i]
        BY <1>a, <3>2, Zenon
      <4>2. results[i] \in Range(results')
        BY <4>1, Zenon DEF Range
      <4> QED BY <2>1, <4>2, Zenon
    <3> QED BY <3>1, <3>2, Zenon
  <2> QED BY <2>1, <2>2, <2>3 DEF Sound, JobFailed, Range
<1> QED BY <1>2, <1>3

(* What an assignment to some fields of Ctl leaves: a result that poisons or not. *)
LEMMA CtlPoison ==
  ASSUME NEW c \in CtlType, NEW a \in BOOLEAN, NEW d, d = [c EXCEPT !.poisoned = a]
  PROVE  /\ d \in CtlType /\ d.poisoned = a
         /\ d.queued = c.queued /\ d.handed = c.handed /\ d.base = c.base
BY DEF CtlType

(* A row given up. *)
LEMMA CtlCancel ==
  ASSUME NEW c \in CtlType, NEW d, d = [c EXCEPT !.cancel = TRUE, !.poisoned = TRUE]
  PROVE  /\ d \in CtlType /\ d.poisoned = TRUE
         /\ d.queued = c.queued /\ d.handed = c.handed /\ d.base = c.base
BY DEF CtlType

(* A job more. *)
LEMMA CtlHand ==
  ASSUME ctl \in CtlType, NEW k \in Nat, ctl' = [ctl EXCEPT !.handed = k, !.cancel = FALSE]
  PROVE  /\ ctl' \in CtlType /\ ctl'.handed = k
         /\ ctl'.queued = ctl.queued /\ ctl'.poisoned = ctl.poisoned /\ ctl'.base = ctl.base
BY DEF CtlType

(* A layer more. *)
LEMMA CtlQueue ==
  ASSUME ctl \in CtlType, NEW k \in Nat, ctl' = [ctl EXCEPT !.queued = k]
  PROVE  /\ ctl' \in CtlType /\ ctl'.queued = k
         /\ ctl'.handed = ctl.handed /\ ctl'.poisoned = ctl.poisoned /\ ctl'.base = ctl.base
BY DEF CtlType

(* drop_ahead: the result of the row ahead is taken, and nothing else is under way. *)
LEMMA DropAheadInv == ASSUME RowInv, DropAhead PROVE RowInv'
<1> USE DEF RowInv, Shape
<1>0. /\ pc = "drop" /\ results # <<>> /\ results' = Tail(results) /\ kda' = bak
      /\ ctl' = [ctl EXCEPT !.poisoned = ctl.poisoned \/ ~(Head(results) /\ words.err = 0)]
      /\ \/ call.kind = "settle" /\ pc' = "idle" /\ call' = NoCall /\ laid' = 0 /\ second' = FALSE
         \/ /\ pc' = IF call.kind = "decode" /\ Head(results) /\ words.err = 0 THEN "row" ELSE "fail"
            /\ UNCHANGED <<call, laid, second>>
      /\ UNCHANGED <<mode, calls, hist, last, ahead, faults, words, ring, entry, stream, phase, ctr, bak,
                     next, marked, jobs, cphase, tab, moved, flying, stg, lane, laneRow, xrow>>
  BY DEF DropAhead, Returns, storeVars, laneVars
<1>1. ctl \in CtlType /\ Head(results) \in BOOLEAN
  BY <1>0, HeadTail DEF HostShape, ThreadShape
<1>2. PICK a \in BOOLEAN : a = (ctl.poisoned \/ ~(Head(results) /\ words.err = 0))
  BY Zenon
<1>3. /\ ctl' \in CtlType /\ ctl'.queued = ctl.queued /\ ctl'.handed = ctl.handed /\ ctl'.base = ctl.base
  <2>1. ctl' = [ctl EXCEPT !.poisoned = a]
    BY <1>0, <1>2, Zenon
  <2> QED BY <1>1, <2>1, CtlPoison, Zenon
<1>b. ctl'.poisoned = (ctl.poisoned \/ ~(Head(results) /\ words.err = 0))
  <2>1. ctl' = [ctl EXCEPT !.poisoned = a]
    BY <1>0, <1>2, Zenon
  <2>2. ctl'.poisoned = a
    BY <1>1, <2>1, CtlPoison, Zenon
  <2> QED BY <1>2, <2>2, Zenon
<1>4. Len(jobs') + Len(results') = Len(jobs) + Len(results) - 1
  BY <1>0, <1>b, ResultTaken, Zenon
<1>c. Tail(results) \in Seq(BOOLEAN) /\ (Sound' => Sound /\ Head(results))
  BY <1>0, <1>b, ResultTaken, Zenon
<1>d. pc = "drop"
  BY <1>0
<1>5. Len(jobs) + Len(results) = 1 /\ ahead = None /\ ~ctl.poisoned /\ ~second
  BY <1>d DEF RowsInv, Rows
<1>6. Len(jobs') + Len(results') = 0
  BY <1>4, <1>5
<1>a. pc' \in {"idle", "row", "fail"} /\ second' = second /\ (pc' = "row" => ~ctl'.poisoned)
  <2>1. second = FALSE
    BY <1>5, Zenon DEF HostShape
  <2>2. CASE call.kind = "settle" /\ pc' = "idle" /\ second' = FALSE
    BY <2>1, <2>2
  <2>3. CASE pc' = (IF call.kind = "decode" /\ Head(results) /\ words.err = 0 THEN "row" ELSE "fail") /\ second' = second
    BY <1>b, <1>5, <2>3, Zenon
  <2> QED BY <1>0, <2>2, <2>3, Zenon
<1>7. HostShape'
  <2>1. NoCall \in [kind : {"decode", "settle", "reset"}, tok : Tokens] /\ 0 \in 0 .. Layers
    BY ControllerAssumption DEF NoCall, Tokens
  <2> QED BY <1>0, <1>3, <1>a, <2>1, Zenon DEF HostShape
<1>8. DeviceShape'
  <2>1. Steps' = Steps
    BY <1>0 DEF Steps
  <2> QED BY <1>0, <2>1, Zenon DEF DeviceShape
<1>9. ThreadShape'
  BY <1>0, <1>c, Zenon DEF ThreadShape
<1>10. RowsInv'
  <2>1. ahead' = None
    BY <1>0, <1>5
  <2>2. Rows(pc', second', ahead' # None) = 0
    BY <1>a, <2>1 DEF Rows
  <2> QED BY <1>5, <1>6, <1>a, <2>1, <2>2 DEF RowsInv
<1>11. LaidInv'
  <2>1. ctl.queued = ctl.handed
    BY <1>d, <1>5 DEF LaidInv
  <2> QED BY <1>3, <1>a, <2>1 DEF LaidInv, CtlType
<1>12. StagerInv'
  BY <1>0, <1>3 DEF StagerInv
<1>e. UNCHANGED <<stream, phase, ctr, ring, jobs, cphase>> /\ ctr \in Nat
  BY <1>0, Zenon DEF DeviceShape
<1>13. QueueInv' /\ JobsInv'
  BY <1>e, <1>3, QueueKept, JobsKept
<1>14. PaceInv'
  BY <1>0, <1>3, <1>c, <1>a, PaceKept, Zenon
<1> QED BY <1>7, <1>8, <1>9, <1>10, <1>11, <1>12, <1>13, <1>14

(* enqueue_ctl's job, behind those there are. *)
LEMMA JobHanded ==
  ASSUME RowInv, Handed, UNCHANGED <<cphase, ctr, stg>>
  PROVE  /\ ctl' \in CtlType /\ ctl'.handed = ctl.handed + Layers /\ ctl'.queued = ctl.queued
         /\ ctl'.poisoned = ctl.poisoned /\ ctl'.base = ctl.base
         /\ words' \in WordsType /\ words'.reply = words.reply /\ words'.err = words.err
         /\ jobs' \in Seq(JobType) /\ Len(jobs') = Len(jobs) + 1 /\ Behind' = Behind
         /\ JobsInv' /\ StagerInv' /\ Owed' = Owed
         /\ laid' = 0 /\ pc' = "pace"
<1> DEFINE job == [seq |-> ctl.handed + 1, left |-> Layers]
<1>1. /\ words' = IF ctl.handed = 0 THEN [words EXCEPT !.flag = 0] ELSE words
      /\ ctl' = [ctl EXCEPT !.handed = ctl.handed + Layers, !.cancel = FALSE]
      /\ jobs' = Append(jobs, job) /\ laid' = 0 /\ pc' = "pace"
  BY DEF Handed
<1>2. ctl \in CtlType /\ ctl.handed \in Nat /\ Layers \in Nat \ {0} /\ ctl.base \in Nat
  BY ControllerAssumption DEF RowInv, Shape, HostShape, CtlType
<1>3. /\ ctl' \in CtlType /\ ctl'.handed = ctl.handed + Layers /\ ctl'.queued = ctl.queued
      /\ ctl'.poisoned = ctl.poisoned /\ ctl'.base = ctl.base
  <2>1. PICK k \in Nat : k = ctl.handed + Layers
    BY <1>2
  <2>2. ctl' = [ctl EXCEPT !.handed = k, !.cancel = FALSE]
    BY <1>1, <2>1, Zenon
  <2>3. /\ ctl' \in CtlType /\ ctl'.handed = k /\ ctl'.queued = ctl.queued
        /\ ctl'.poisoned = ctl.poisoned /\ ctl'.base = ctl.base
    BY <1>2, <2>1, <2>2, CtlHand, Zenon
  <2> QED BY <2>1, <2>3, Zenon
<1>4. words' \in WordsType /\ words'.reply = words.reply /\ words'.err = words.err
  <2>1. words \in WordsType
    BY DEF RowInv, Shape, DeviceShape
  <2> QED BY <1>1, <2>1 DEF WordsType
<1>5. job \in JobType /\ job.seq = ctl.handed + 1 /\ job.left = Layers
  BY <1>2 DEF JobType
<1> HIDE DEF job
<1>6. /\ jobs \in Seq(JobType) /\ jobs' \in Seq(JobType) /\ Len(jobs') = Len(jobs) + 1 /\ Len(jobs) \in Nat
      /\ \A i \in 1 .. Len(jobs) : jobs'[i] = jobs[i]
      /\ jobs'[Len(jobs) + 1] = job /\ jobs' # <<>>
  <2>1. jobs \in Seq(JobType)
    BY DEF RowInv, Shape, ThreadShape
  <2> QED BY <1>1, <1>5, <2>1
<1>7. Behind' = Behind
  <2>1. CASE jobs = <<>>
    <3>1. Len(jobs) = 0 /\ jobs'[1] = job
      BY <1>6, <2>1
    <3> QED BY <1>2, <1>5, <1>6, <2>1, <3>1 DEF Behind
  <2>2. CASE jobs # <<>>
    <3>1. jobs'[1] = jobs[1]
      BY <1>6, <2>2
    <3> QED BY <1>6, <2>2, <3>1 DEF Behind
  <2> QED BY <2>1, <2>2
<1>8. JobsInv'
  <2>1. ASSUME NEW i \in DOMAIN jobs'
        PROVE  jobs'[i].seq + jobs'[i].left = IF i = Len(jobs') THEN ctl'.handed + 1 ELSE jobs'[i + 1].seq
    <3>1. CASE i = Len(jobs) + 1
      <4>1. jobs'[i] = job /\ i = Len(jobs')
        BY <1>6, <3>1
      <4>2. job.seq + job.left = ctl'.handed + 1
        BY <1>2, <1>3, <1>5
      <4> QED BY <4>1, <4>2
    <3>2. CASE i # Len(jobs) + 1
      <4>1. i \in DOMAIN jobs /\ jobs'[i] = jobs[i] /\ i # Len(jobs')
        BY <1>6, <3>2
      <4>2. jobs[i].seq + jobs[i].left = IF i = Len(jobs) THEN ctl.handed + 1 ELSE jobs[i + 1].seq
        BY <4>1 DEF RowInv, JobsInv
      <4>3. i # Len(jobs) => jobs'[i + 1] = jobs[i + 1]
        BY <1>6, <4>1
      <4> QED BY <1>5, <1>6, <4>1, <4>2, <4>3
    <3> QED BY <3>1, <3>2
  <2>2. ASSUME cphase' \in {"read", "reply"} PROVE Head(jobs').seq <= ctr'
    <3>1. jobs # <<>> /\ Head(jobs).seq <= ctr
      BY <2>2 DEF RowInv, JobsInv, Job
    <3>2. Head(jobs') = Head(jobs)
      BY <1>6, <3>1
    <3> QED BY <3>1, <3>2
  <2> QED BY <1>6, <2>1, <2>2 DEF JobsInv, Job
<1>9. StagerInv' /\ Owed' = Owed
  <2>1. Owed' = Owed
    BY <1>3 DEF Owed
  <2>2. ASSUME NEW i \in DOMAIN stg PROVE stg[i].rid <= ctl'.base + ctl'.handed
    <3>1. stg[i].rid \in Nat
      <4>1. stg \in Seq(CallType)
        BY DEF RowInv, Shape, ThreadShape
      <4>2. stg[i] \in CallType
        BY <4>1
      <4> QED BY <4>2 DEF CallType
    <3>2. stg[i].rid <= ctl.base + ctl.handed
      BY DEF RowInv, StagerInv
    <3> QED BY <1>2, <1>3, <3>1, <3>2
  <2> QED BY <2>1, <2>2 DEF StagerInv
<1> QED BY <1>1, <1>3, <1>4, <1>6, <1>7, <1>8, <1>9

(* The reply word still right behind the device, whatever the host has queued. *)
LEMMA PaceMoved ==
  ASSUME PaceInv, UNCHANGED <<ctr, phase, stg>>, Behind' = Behind, Owed' = Owed, Sound' => Sound,
         words'.reply = words.reply,
         pc' = "launch" => ctl'.queued + 1 <= words.reply + Ahead
  PROVE  PaceInv'
BY Zenon DEF PaceInv

(* The stream's layers counted after launches behind the others. *)
LEMMA QueueGrows ==
  ASSUME Shape, QueueInv, UNCHANGED <<phase, ctr, ring>>, stream' \in Seq(StreamOps),
         stream # <<>> => stream' # <<>> /\ Head(stream') = Head(stream),
         ctl'.queued \in Nat, ctl'.queued >= ctl.queued,
         Cardinality(LayersAt(stream')) = Cardinality(LayersAt(stream)) + (ctl'.queued - ctl.queued),
         ctl'.queued # ctl.queued => Cardinality(LayersAt(stream')) <= QueueCap
  PROVE  QueueInv'
<1>1. ctl.queued \in Nat /\ ctr \in Nat
  BY DEF Shape, HostShape, DeviceShape, CtlType
<1>2. LayersQueued = Cardinality(LayersAt(stream)) /\ LayersQueued' = Cardinality(LayersAt(stream'))
  BY DEF LayersQueued, LayersAt
<1>3. Cardinality(LayersAt(stream)) \in Nat
  BY LayersFinite DEF Shape, DeviceShape
<1>4. ctl'.queued + (IF phase' = "publish" THEN 0 ELSE 1) = ctr' + LayersQueued'
  BY <1>1, <1>2, <1>3 DEF QueueInv
<1>5. phase' # "publish" => stream' # <<>> /\ Head(stream').op = "layer" /\ ctr' # 0
  BY DEF QueueInv, Top
<1>6. LayersQueued' <= QueueCap
  BY <1>1, <1>2, <1>3 DEF QueueInv
<1> QED BY <1>4, <1>5, <1>6 DEF QueueInv, Top

(* enqueue_ctl of a row that does not run ahead. *)
LEMMA StartRowInv == ASSUME RowInv, StartRow PROVE RowInv'
<1> DEFINE op == [op |-> "start", arg |-> call.tok]
<1>0. /\ pc = "row" /\ Handed /\ stream' = Append(stream, op)
      /\ UNCHANGED <<mode, calls, call, second, hist, last, ahead, faults, ring, entry, phase, ctr, kda, bak,
                     next, marked, cphase, results, tab, moved, flying, stg, lane, laneRow, xrow>>
  BY DEF StartRow, devVars, storeVars, laneVars
<1>1. op \in StreamOps /\ op.op = "start"
  BY DEF StreamOps, RowInv, Shape, HostShape
<1> HIDE DEF op
<1>2. /\ ctl' \in CtlType /\ ctl'.handed = ctl.handed + Layers /\ ctl'.queued = ctl.queued
      /\ ctl'.poisoned = ctl.poisoned /\ ctl'.base = ctl.base
  BY <1>0, JobHanded
<1>a. /\ words' \in WordsType /\ words'.reply = words.reply /\ words'.err = words.err
      /\ jobs' \in Seq(JobType) /\ Len(jobs') = Len(jobs) + 1 /\ Behind' = Behind
      /\ laid' = 0 /\ pc' = "pace"
  BY <1>0, JobHanded
<1>b. JobsInv' /\ StagerInv' /\ Owed' = Owed
  BY <1>0, JobHanded
<1>c. HostShape /\ DeviceShape /\ ThreadShape /\ RowsInv /\ LaidInv /\ QueueInv /\ PaceInv /\ Shape
  BY DEF RowInv, Shape
<1>3. /\ stream \in Seq(StreamOps) /\ stream' \in Seq(StreamOps)
      /\ Cardinality(LayersAt(stream')) = Cardinality(LayersAt(stream))
  <2>1. stream \in Seq(StreamOps)
    BY <1>c DEF DeviceShape
  <2>2. Cardinality(LayersAt(stream)) \in Nat
    BY <2>1, LayersFinite
  <2> QED BY <1>0, <1>1, <2>1, <2>2, LayersAppend
<1>4. HostShape'
  <2>1. laid' \in 0 .. Layers
    BY <1>a, ControllerAssumption
  <2>2. pc' \in {"idle", "row", "pace", "launch", "head", "sync", "wait", "drop", "drain", "fail"}
    BY <1>a
  <2> QED BY <1>0, <1>2, <1>c, <2>1, <2>2, Zenon DEF HostShape
<1>5. DeviceShape'
  <2>1. Steps' = Steps
    BY <1>0 DEF Steps
  <2> QED BY <1>0, <1>3, <1>a, <1>c, <2>1, Zenon DEF DeviceShape
<1>6. ThreadShape'
  BY <1>0, <1>a, <1>c, Zenon DEF ThreadShape
<1>7. RowsInv'
  <2>1. Len(jobs) + Len(results) = 0 /\ ~second /\ ~ctl.poisoned /\ ahead = None
    BY <1>0, <1>c DEF RowsInv, Rows
  <2>2. Len(jobs) \in Nat /\ Len(results') = Len(results) /\ Len(results) \in Nat
    BY <1>0, <1>c, LenProperties DEF ThreadShape
  <2>3. Len(jobs') + Len(results') = 1
    BY <1>a, <2>1, <2>2
  <2> QED BY <1>0, <1>2, <1>a, <2>1, <2>3 DEF RowsInv, Rows
<1>8. LaidInv'
  <2>1. ctl.queued = ctl.handed
    BY <1>0, <1>c DEF LaidInv, RowsInv
  <2> QED BY <1>2, <1>a, <1>c, <2>1, ControllerAssumption DEF LaidInv, HostShape, CtlType
<1>9. QueueInv'
  <2>1. stream # <<>> => stream' # <<>> /\ Head(stream') = Head(stream)
    BY <1>0, <1>1, <1>3
  <2>2. ctl'.queued \in Nat /\ ctl'.queued = ctl.queued
    BY <1>2, <1>c DEF HostShape, CtlType
  <2>3. Cardinality(LayersAt(stream)) \in Nat
    BY <1>3, LayersFinite
  <2>4. /\ ctl'.queued >= ctl.queued
        /\ Cardinality(LayersAt(stream')) = Cardinality(LayersAt(stream)) + (ctl'.queued - ctl.queued)
    BY <1>3, <2>2, <2>3
  <2> QED BY <1>0, <1>3, <1>c, <2>1, <2>2, <2>4, QueueGrows
<1>10. PaceInv'
  <2>1. Sound' => Sound
    BY <1>0, <1>2, <1>a DEF Sound, JobFailed
  <2> QED BY <1>0, <1>a, <1>b, <1>c, <2>1, PaceMoved
<1> QED BY <1>4, <1>5, <1>6, <1>7, <1>8, <1>9, <1>10, <1>b DEF RowInv, Shape

(* Ctl::pace lets the next layer through. *)
LEMMA PaceStepInv == ASSUME RowInv, Pace PROVE RowInv'
<1> USE DEF RowInv, Shape
<1>1. /\ pc = "pace" /\ pc' = "launch" /\ words.reply + Ahead >= ctl.queued + 1
      /\ UNCHANGED <<mode, calls, call, laid, second, hist, last, ahead, faults, ctl, words, ring, entry,
                     stream, phase, ctr, kda, bak, next, marked, jobs, cphase, results, tab, moved, flying,
                     stg, lane, laneRow, xrow>>
  BY DEF Pace, Paced, devVars, jobVars, storeVars, laneVars
<1>2. HostShape'
  BY <1>1 DEF HostShape
<1>3. DeviceShape' /\ ThreadShape'
  BY <1>1, DeviceKept, ThreadKept
<1>4. RowsInv' /\ LaidInv' /\ StagerInv'
  BY <1>1 DEF RowsInv, Rows, LaidInv, StagerInv
<1>5. QueueInv' /\ JobsInv'
  BY <1>1, QueueKept, JobsKept DEF DeviceShape
<1>6. PaceInv'
  <2>1. Behind' = Behind /\ Owed' = Owed /\ (Sound' => Sound)
    BY <1>1 DEF Behind, Owed, Sound, JobFailed
  <2>2. ctl.queued \in Nat /\ words.reply \in Nat /\ Ahead \in Nat
    BY ControllerAssumption DEF HostShape, DeviceShape, CtlType, WordsType
  <2>3. ctl'.queued + 1 <= words.reply + Ahead /\ words'.reply = words.reply
    BY <1>1, <2>2
  <2> QED BY <1>1, <2>1, <2>3, PaceMoved
<1> QED BY <1>2, <1>3, <1>4, <1>5, <1>6

(* layers_ctl failed. *)
LEMMA PaceFailsInv == ASSUME RowInv, PaceFails PROVE RowInv'
<1> USE DEF RowInv, Shape
<1>1. /\ pc \in {"pace", "launch"} /\ pc' = "drain" /\ ctl' = [ctl EXCEPT !.cancel = TRUE, !.poisoned = TRUE]
      /\ UNCHANGED <<mode, calls, call, laid, second, hist, last, ahead, words, ring, entry, stream, phase,
                     ctr, kda, bak, next, marked, jobs, cphase, results, tab, moved, flying, stg, lane,
                     laneRow, xrow>>
  BY DEF PaceFails, EnqueueFails, devVars, jobVars, storeVars, laneVars
<1>2. faults' \in 0 .. MaxFaults
  BY ControllerAssumption DEF PaceFails, Fault, HostShape
<1>3. /\ ctl' \in CtlType /\ ctl'.poisoned = TRUE
      /\ ctl'.queued = ctl.queued /\ ctl'.handed = ctl.handed /\ ctl'.base = ctl.base
  BY <1>1, CtlCancel DEF HostShape
<1>4. HostShape'
  <2>1. pc' \in {"idle", "row", "pace", "launch", "head", "sync", "wait", "drop", "drain", "fail"}
    BY <1>1
  <2> QED BY <1>1, <1>2, <1>3, <2>1, Zenon DEF HostShape
<1>5. DeviceShape' /\ ThreadShape'
  BY <1>1, DeviceKept, ThreadKept
<1>6. RowsInv'
  <2>1. Len(jobs) + Len(results) <= 2 /\ ahead = None
    BY <1>1 DEF RowsInv, Rows
  <2> QED BY <1>1, <1>3, <2>1 DEF RowsInv
<1>7. LaidInv' /\ StagerInv'
  <2>1. laid < Layers /\ ctl.queued + Layers = ctl.handed + laid
    BY <1>1 DEF LaidInv
  <2>2. ctl.queued <= ctl.handed
    BY <2>1, ControllerAssumption DEF HostShape, CtlType
  <2>3. StagerInv'
    BY <1>1, <1>3 DEF StagerInv
  <2> QED BY <1>1, <1>3, <2>2, <2>3 DEF LaidInv
<1>8. QueueInv' /\ JobsInv'
  BY <1>1, <1>3, QueueKept, JobsKept DEF DeviceShape
<1>9. PaceInv'
  BY <1>3 DEF PaceInv, Sound, JobFailed
<1> QED BY <1>4, <1>5, <1>6, <1>7, <1>8, <1>9

(* One layer's launches, on a stream with room. *)
LEMMA LaunchInv == ASSUME RowInv, Launch PROVE RowInv'
<1> DEFINE op == [op |-> "layer", arg |-> laid + 1]
<1>0. /\ pc = "launch" /\ ~HostInDriver /\ stream' = Append(stream, op)
      /\ ctl' = [ctl EXCEPT !.queued = ctl.queued + 1] /\ laid' = laid + 1
      /\ pc' = IF laid + 1 < Layers THEN "pace" ELSE IF second THEN "wait" ELSE "head"
      /\ UNCHANGED <<mode, calls, call, second, hist, last, ahead, faults, words, ring, entry, phase, ctr,
                     kda, bak, next, marked, jobs, cphase, results, tab, moved, flying, stg, lane, laneRow,
                     xrow>>
  BY DEF Launch, devVars, jobVars, storeVars, laneVars
<1>c. HostShape /\ DeviceShape /\ ThreadShape /\ RowsInv /\ LaidInv /\ QueueInv /\ JobsInv /\ StagerInv
      /\ PaceInv /\ Shape
  BY DEF RowInv, Shape
<1>n. /\ ctl \in CtlType /\ ctl.queued \in Nat /\ ctl.handed \in Nat /\ laid \in Nat /\ Layers \in Nat \ {0}
      /\ QueueCap \in Nat
  BY <1>c, ControllerAssumption DEF HostShape, CtlType
<1>l. laid < Layers /\ ctl.queued + Layers = ctl.handed + laid
  BY <1>0, <1>c DEF LaidInv
<1>1. op \in StreamOps /\ op.op = "layer"
  BY <1>n, <1>l DEF StreamOps, LayerIds
<1> HIDE DEF op
<1>2. /\ ctl' \in CtlType /\ ctl'.queued = ctl.queued + 1
      /\ ctl'.handed = ctl.handed /\ ctl'.poisoned = ctl.poisoned /\ ctl'.base = ctl.base
  <2>1. PICK k : k = ctl.queued + 1
    OBVIOUS
  <2>2. k \in Nat
    BY <1>n, <2>1
  <2>3. ctl' = [ctl EXCEPT !.queued = k]
    BY <1>0, <2>1, Zenon
  <2>4. ctl' \in CtlType /\ ctl'.queued = k
        /\ ctl'.handed = ctl.handed /\ ctl'.poisoned = ctl.poisoned /\ ctl'.base = ctl.base
    BY <1>n, <2>2, <2>3, CtlQueue, Zenon
  <2> QED BY <2>1, <2>4, Zenon
<1>3. /\ stream \in Seq(StreamOps) /\ stream' \in Seq(StreamOps)
      /\ Cardinality(LayersAt(stream')) = Cardinality(LayersAt(stream)) + 1
      /\ Cardinality(LayersAt(stream)) \in Nat
  <2>1. stream \in Seq(StreamOps)
    BY <1>c DEF DeviceShape
  <2>2. Cardinality(LayersAt(stream)) \in Nat
    BY <2>1, LayersFinite
  <2> QED BY <1>0, <1>1, <2>1, <2>2, LayersAppend
<1>4. HostShape'
  <2>1. laid' \in 0 .. Layers
    BY <1>0, <1>n, <1>l
  <2>2. pc' \in {"idle", "row", "pace", "launch", "head", "sync", "wait", "drop", "drain", "fail"}
    BY <1>0
  <2> QED BY <1>0, <1>2, <1>c, <2>1, <2>2, Zenon DEF HostShape
<1>5. DeviceShape'
  <2>1. Steps' = Steps
    BY <1>0 DEF Steps
  <2> QED BY <1>0, <1>3, <1>c, <2>1, Zenon DEF DeviceShape
<1>6. ThreadShape'
  BY <1>0, <1>c, ThreadKept
<1>7. RowsInv'
  <2>1. Len(jobs) + Len(results) = IF second THEN 2 ELSE 1
    BY <1>0, <1>c DEF RowsInv, Rows
  <2>2. ~ctl.poisoned /\ ahead = None /\ (second => mode.la)
    BY <1>0, <1>c DEF RowsInv
  <2>3. jobs' = jobs /\ results' = results
    BY <1>0
  <2>4. Rows(pc', second', ahead' # None) = IF second THEN 2 ELSE 1
    BY <1>0 DEF Rows
  <2> QED BY <1>0, <1>2, <2>1, <2>2, <2>3, <2>4 DEF RowsInv
<1>8. LaidInv' /\ StagerInv'
  <2>1. pc' = "pace" \/ (pc' \in {"wait", "head"} /\ laid + 1 = Layers)
    BY <1>0, <1>n, <1>l
  <2>2. pc' = "pace" => laid + 1 < Layers
    BY <1>0
  <2>3. StagerInv'
    BY <1>0, <1>2, <1>c DEF StagerInv
  <2>4. laid' = laid + 1 /\ ctl'.queued + Layers = ctl'.handed + laid'
    <3>1. laid' = laid + 1
      BY <1>0, Zenon
    <3>2. ctl'.queued = ctl.queued + 1 /\ ctl'.handed = ctl.handed
      BY <1>2, Zenon
    <3> QED BY <1>n, <1>l, <3>1, <3>2
  <2>5. CASE pc' = "pace"
    BY <2>2, <2>3, <2>4, <2>5 DEF LaidInv
  <2>6. CASE pc' \in {"wait", "head"} /\ laid + 1 = Layers
    <3>1. ctl'.queued = ctl'.handed /\ ctl'.queued <= ctl'.handed
      BY <1>2, <1>n, <2>4, <2>6
    <3> QED BY <2>3, <2>6, <3>1 DEF LaidInv
  <2> QED BY <2>1, <2>5, <2>6
<1>9. QueueInv'
  <2>1. stream # <<>> => stream' # <<>> /\ Head(stream') = Head(stream)
    BY <1>0, <1>1, <1>3
  <2>2. ctl'.queued \in Nat /\ ctl'.queued >= ctl.queued
        /\ Cardinality(LayersAt(stream')) = Cardinality(LayersAt(stream)) + (ctl'.queued - ctl.queued)
    BY <1>2, <1>3, <1>n
  <2>3. Cardinality(LayersAt(stream)) < QueueCap
    BY <1>0, <1>3, <1>n DEF HostInDriver, LayersQueued, LayersAt
  <2>4. Cardinality(LayersAt(stream')) <= QueueCap
    BY <1>3, <1>n, <2>3
  <2> QED BY <1>0, <1>3, <1>c, <2>1, <2>2, <2>4, QueueGrows
<1>10. JobsInv'
  BY <1>0, <1>2, <1>c, JobsKept DEF DeviceShape
<1>11. PaceInv'
  <2>1. Behind' = Behind /\ Owed' = Owed /\ (Sound' => Sound)
    BY <1>0, <1>2 DEF Behind, Owed, Sound, JobFailed
  <2>2. pc' # "launch"
    BY <1>0
  <2> QED BY <1>0, <1>c, <2>1, <2>2, PaceMoved
<1> QED BY <1>4, <1>5, <1>6, <1>7, <1>8, <1>9, <1>10, <1>11 DEF RowInv, Shape

(* Launches other than a layer's, behind the others. *)
LEMMA LayersJoin ==
  ASSUME NEW s \in Seq(StreamOps), NEW x \in Seq(StreamOps), \A i \in DOMAIN x : x[i].op # "layer"
  PROVE  /\ s \o x \in Seq(StreamOps)
         /\ Cardinality(LayersAt(s \o x)) = Cardinality(LayersAt(s))
         /\ s # <<>> => s \o x # <<>> /\ Head(s \o x) = Head(s)
<1>1. LayersAt(s \o x) = LayersAt(s)
  BY DEF LayersAt
<1> QED BY <1>1

(* The head behind its row; with the lookahead the row ahead behind both. *)
LEMMA HeadRowInv == ASSUME RowInv, HeadRow PROVE RowInv'
<1>0. /\ pc = "head" /\ marked' = FALSE
      /\ UNCHANGED <<mode, calls, call, hist, last, ahead, faults, ring, entry, phase, ctr, kda, bak, next,
                     cphase, results, tab, moved, flying, stg, lane, laneRow, xrow>>
  BY DEF HeadRow, storeVars, laneVars
<1>c. HostShape /\ DeviceShape /\ ThreadShape /\ RowsInv /\ LaidInv /\ QueueInv /\ JobsInv /\ StagerInv
      /\ PaceInv /\ Shape
  BY DEF RowInv, Shape
<1>n. ctl \in CtlType /\ ctl.queued \in Nat /\ Layers \in Nat \ {0}
  BY <1>c, ControllerAssumption DEF HostShape, CtlType
<1>r. /\ Len(jobs) + Len(results) = 1 /\ ~ctl.poisoned /\ ahead = None /\ (second => mode.la)
      /\ ctl.queued = ctl.handed
  BY <1>0, <1>c DEF RowsInv, Rows, LaidInv
<1>s. stream \in Seq(StreamOps) /\ Cardinality(LayersAt(stream)) \in Nat
  BY <1>c, LayersFinite DEF DeviceShape
<1>1. CASE mode.la
  <2> DEFINE ops == <<[op |-> "head", arg |-> 0], [op |-> "backup", arg |-> 0], [op |-> "start", arg |-> None]>>
  <2>0. Handed /\ second' = TRUE /\ stream' = stream \o ops
    BY <1>1 DEF HeadRow
  <2>1. ops \in Seq(StreamOps) /\ \A i \in DOMAIN ops : ops[i].op # "layer"
    BY DEF StreamOps
  <2> HIDE DEF ops
  <2>2. /\ ctl' \in CtlType /\ ctl'.handed = ctl.handed + Layers /\ ctl'.queued = ctl.queued
        /\ ctl'.poisoned = ctl.poisoned /\ ctl'.base = ctl.base
    BY <1>0, <2>0, JobHanded
  <2>a. /\ words' \in WordsType /\ words'.reply = words.reply /\ words'.err = words.err
        /\ jobs' \in Seq(JobType) /\ Len(jobs') = Len(jobs) + 1 /\ Behind' = Behind
        /\ laid' = 0 /\ pc' = "pace"
    BY <1>0, <2>0, JobHanded
  <2>b. JobsInv' /\ StagerInv' /\ Owed' = Owed
    BY <1>0, <2>0, JobHanded
  <2>3. /\ stream' \in Seq(StreamOps) /\ Cardinality(LayersAt(stream')) = Cardinality(LayersAt(stream))
        /\ stream # <<>> => stream' # <<>> /\ Head(stream') = Head(stream)
    BY <1>s, <2>0, <2>1, LayersJoin
  <2>4. HostShape'
    <3>1. laid' \in 0 .. Layers
      BY <2>a, <1>n
    <3>2. pc' \in {"idle", "row", "pace", "launch", "head", "sync", "wait", "drop", "drain", "fail"}
      BY <2>a
    <3>3. second' \in BOOLEAN
      BY <2>0
    <3> QED BY <1>0, <2>2, <1>c, <3>1, <3>2, <3>3, Zenon DEF HostShape
  <2>5. DeviceShape'
    <3>1. Steps' = Steps /\ marked' \in BOOLEAN
      BY <1>0 DEF Steps
    <3> QED BY <1>0, <2>3, <2>a, <1>c, <3>1, Zenon DEF DeviceShape
  <2>6. ThreadShape'
    BY <1>0, <2>a, <1>c, Zenon DEF ThreadShape
  <2>7. RowsInv'
    <3>2. Len(jobs) \in Nat /\ Len(results') = Len(results) /\ Len(results) \in Nat
      BY <1>0, <1>c, LenProperties DEF ThreadShape
    <3>3. Len(jobs') + Len(results') = 2
      BY <1>r, <2>a, <3>2
    <3> QED BY <1>0, <1>1, <1>r, <2>0, <2>2, <2>a, <3>3 DEF RowsInv, Rows
  <2>8. LaidInv'
    BY <1>r, <1>n, <2>2, <2>a DEF LaidInv
  <2>9. QueueInv'
    <3>1. /\ ctl'.queued \in Nat /\ ctl'.queued >= ctl.queued /\ ctl'.queued = ctl.queued
          /\ Cardinality(LayersAt(stream')) = Cardinality(LayersAt(stream)) + (ctl'.queued - ctl.queued)
      BY <1>n, <1>s, <2>2, <2>3
    <3> QED BY <1>0, <1>c, <2>3, <3>1, QueueGrows
  <2>10. PaceInv'
    <3>1. Sound' => Sound
      BY <1>0, <2>2, <2>a DEF Sound, JobFailed
    <3> QED BY <1>0, <2>a, <2>b, <1>c, <3>1, PaceMoved
  <2> QED BY <2>4, <2>5, <2>6, <2>7, <2>8, <2>9, <2>10, <2>b DEF RowInv, Shape
<1>2. CASE ~mode.la
  <2> DEFINE op == [op |-> "head", arg |-> 0]
  <2>0. stream' = Append(stream, op) /\ pc' = "sync" /\ UNCHANGED <<ctl, words, jobs, laid, second>>
    BY <1>2 DEF HeadRow
  <2>1. op \in StreamOps /\ op.op # "layer"
    BY DEF StreamOps
  <2> HIDE DEF op
  <2>3. /\ stream' \in Seq(StreamOps) /\ Cardinality(LayersAt(stream')) = Cardinality(LayersAt(stream))
        /\ stream # <<>> => stream' # <<>> /\ Head(stream') = Head(stream)
    BY <1>s, <2>0, <2>1, LayersAppend
  <2>4. HostShape'
    <3>2. pc' \in {"idle", "row", "pace", "launch", "head", "sync", "wait", "drop", "drain", "fail"}
      BY <2>0
    <3> QED BY <1>0, <2>0, <1>c, <3>2, Zenon DEF HostShape
  <2>5. DeviceShape'
    <3>1. Steps' = Steps /\ marked' \in BOOLEAN
      BY <1>0 DEF Steps
    <3> QED BY <1>0, <2>0, <2>3, <1>c, <3>1, Zenon DEF DeviceShape
  <2>6. ThreadShape'
    BY <1>0, <2>0, <1>c, ThreadKept
  <2>7. RowsInv'
    <3>1. jobs' = jobs /\ results' = results
      BY <1>0, <2>0
    <3> QED BY <1>0, <1>2, <1>r, <2>0, <3>1 DEF RowsInv, Rows
  <2>8. LaidInv' /\ StagerInv'
    <3>1. StagerInv'
      BY <1>0, <1>c, <2>0 DEF StagerInv
    <3> QED BY <1>r, <1>n, <2>0, <3>1 DEF LaidInv
  <2>9. QueueInv'
    <3>1. /\ ctl'.queued \in Nat /\ ctl'.queued >= ctl.queued /\ ctl'.queued = ctl.queued
          /\ Cardinality(LayersAt(stream')) = Cardinality(LayersAt(stream)) + (ctl'.queued - ctl.queued)
      BY <1>n, <1>s, <2>0, <2>3
    <3> QED BY <1>0, <1>c, <2>3, <3>1, QueueGrows
  <2>10. JobsInv'
    BY <1>0, <2>0, <1>c, JobsKept DEF DeviceShape
  <2>11. PaceInv'
    <3>1. Behind' = Behind /\ Owed' = Owed /\ (Sound' => Sound)
      BY <1>0, <2>0 DEF Behind, Owed, Sound, JobFailed
    <3> QED BY <1>0, <2>0, <1>c, <3>1, PaceMoved
  <2> QED BY <2>4, <2>5, <2>6, <2>7, <2>8, <2>9, <2>10, <2>11 DEF RowInv, Shape
<1> QED BY <1>1, <1>2

(* The row's result is taken: the call returns, or gives the row up. *)
LEMMA JoinedInv == ASSUME RowInv, Joined PROVE RowInv'
<1> DEFINE ok == Head(results) /\ words.err = 0
<1>0. /\ pc \in {"sync", "wait"} /\ results # <<>> /\ results' = Tail(results)
      /\ ctl' = [ctl EXCEPT !.poisoned = ctl.poisoned \/ ~ok]
      /\ \/ /\ ok /\ pc' = "idle" /\ call' = NoCall /\ laid' = 0 /\ second' = FALSE
            /\ hist' = Append(hist, call.tok) /\ last' = next /\ ahead' = IF mode.la THEN next ELSE None
         \/ /\ ~ok /\ pc' = (IF mode.la THEN "drain" ELSE "fail")
            /\ UNCHANGED <<hist, last, ahead, call, laid, second>>
      /\ UNCHANGED <<mode, calls, faults, words, ring, entry, stream, phase, ctr, kda, bak, next, marked,
                     jobs, cphase, tab, moved, flying, stg, lane, laneRow, xrow>>
  BY DEF Joined, Returns, devVars, storeVars, laneVars
<1>c. HostShape /\ DeviceShape /\ ThreadShape /\ RowsInv /\ LaidInv /\ QueueInv /\ JobsInv /\ StagerInv
      /\ PaceInv /\ Shape
  BY DEF RowInv, Shape
<1>1. ctl \in CtlType
  BY <1>c DEF HostShape
<1>2. PICK a \in BOOLEAN : a = (ctl.poisoned \/ ~ok)
  BY Zenon
<1>3. ctl' \in CtlType /\ ctl'.queued = ctl.queued /\ ctl'.handed = ctl.handed /\ ctl'.base = ctl.base
  <2>1. ctl' = [ctl EXCEPT !.poisoned = a]
    BY <1>0, <1>2, Zenon
  <2> QED BY <1>1, <2>1, CtlPoison, Zenon
<1>b. ctl'.poisoned = (ctl.poisoned \/ ~ok)
  <2>1. ctl' = [ctl EXCEPT !.poisoned = a]
    BY <1>0, <1>2, Zenon
  <2>2. ctl'.poisoned = a
    BY <1>1, <2>1, CtlPoison, Zenon
  <2> QED BY <1>2, <2>2, Zenon
<1>4. Len(jobs') + Len(results') = Len(jobs) + Len(results) - 1
  BY <1>0, <1>b, <1>c, ResultTaken, Zenon
<1>d. Tail(results) \in Seq(BOOLEAN) /\ (Sound' => Sound)
  BY <1>0, <1>b, <1>c, ResultTaken, Zenon
<1>e. pc \in {"sync", "wait"}
  BY <1>0
<1>5. /\ Len(jobs) + Len(results) = (IF mode.la THEN 2 ELSE 1) /\ ahead = None
      /\ pc = "sync" <=> ~mode.la
  BY <1>e, <1>c DEF RowsInv, Rows
<1>p. ~ctl.poisoned
  BY <1>e, <1>c DEF RowsInv
<1>6. Len(jobs') + Len(results') = IF mode.la THEN 1 ELSE 0
  BY <1>4, <1>5
<1>7. \/ ~ctl'.poisoned /\ pc' = "idle" /\ second' = FALSE /\ ahead' = (IF mode.la THEN next ELSE None)
      \/ ctl'.poisoned /\ pc' = (IF mode.la THEN "drain" ELSE "fail") /\ ahead' = ahead /\ second' = second
  BY <1>0, <1>b, <1>p, Zenon
<1>8. next \in Tokens /\ next # None /\ mode' = mode
  <2>1. next \in Tokens /\ mode' = mode
    BY <1>0, <1>c, Zenon DEF DeviceShape
  <2> QED BY <2>1 DEF Tokens, None
<1>9. HostShape'
  <2>1. NoCall \in [kind : {"decode", "settle", "reset"}, tok : Tokens] /\ 0 \in 0 .. Layers
    BY ControllerAssumption DEF NoCall, Tokens
  <2>2. call.tok \in Tokens /\ hist \in Seq(Tokens)
    BY <1>c DEF HostShape
  <2>3. Append(hist, call.tok) \in Seq(Tokens)
    BY <2>2
  <2>4. laid' \in 0 .. Layers /\ call' \in [kind : {"decode", "settle", "reset"}, tok : Tokens]
        /\ hist' \in Seq(Tokens) /\ second' \in BOOLEAN
    BY <1>0, <1>c, <2>1, <2>3, Zenon DEF HostShape
  <2>5. last' \in Tokens \cup {None} /\ ahead' \in Tokens \cup {None}
    BY <1>0, <1>c, <1>8, Zenon DEF HostShape
  <2>6. pc' \in {"idle", "row", "pace", "launch", "head", "sync", "wait", "drop", "drain", "fail"}
    BY <1>7
  <2> QED BY <1>0, <1>3, <1>c, <2>4, <2>5, <2>6, Zenon DEF HostShape
<1>10. DeviceShape'
  <2>1. Steps' = Steps
    BY <1>0 DEF Steps
  <2> QED BY <1>0, <2>1, <1>c, Zenon DEF DeviceShape
<1>11. ThreadShape'
  BY <1>0, <1>c, <1>d, Zenon DEF ThreadShape
<1>12. RowsInv'
  <2>1. CASE ~ctl'.poisoned /\ pc' = "idle" /\ second' = FALSE /\ ahead' = (IF mode.la THEN next ELSE None)
    <3>1. ahead' # None <=> mode.la
      BY <1>8, <2>1
    <3>2. Rows(pc', second', ahead' # None) = IF mode.la THEN 1 ELSE 0
      BY <2>1, <3>1 DEF Rows
    <3> QED BY <1>6, <2>1, <3>2 DEF RowsInv
  <2>2. CASE ctl'.poisoned /\ pc' = (IF mode.la THEN "drain" ELSE "fail") /\ ahead' = ahead /\ second' = second
    <3>1. pc' = "fail" => Rows(pc', second', ahead' # None) = 0 /\ ~mode.la
      BY <2>2 DEF Rows
    <3>2. (second => mode.la) /\ ahead' = None
      BY <1>5, <1>c, <2>2 DEF RowsInv
    <3> QED BY <1>6, <1>8, <2>2, <3>1, <3>2 DEF RowsInv
  <2> QED BY <1>7, <2>1, <2>2
<1>13. LaidInv'
  <2>1. ctl.queued = ctl.handed
    BY <1>e, <1>c, <1>p DEF LaidInv
  <2>2. pc' \in {"idle", "drain", "fail"}
    BY <1>7
  <2> QED BY <1>1, <1>3, <2>1, <2>2 DEF LaidInv, CtlType
<1>14. StagerInv'
  <2>1. stg' = stg
    BY <1>0
  <2> QED BY <2>1, <1>3, <1>c DEF StagerInv
<1>f. UNCHANGED <<stream, phase, ctr, ring, jobs, cphase>> /\ ctr \in Nat
  BY <1>0, <1>c, Zenon DEF DeviceShape
<1>15. QueueInv' /\ JobsInv'
  BY <1>f, <1>c, <1>3, QueueKept, JobsKept
<1>16. PaceInv'
  <2>1. pc' # "launch"
    BY <1>7
  <2> QED BY <1>0, <1>3, <1>c, <1>d, <2>1, PaceKept, Zenon
<1> QED BY <1>9, <1>10, <1>11, <1>12, <1>13, <1>14, <1>15, <1>16 DEF RowInv, Shape

(* drain_ctl: no job, no result left. *)
LEMMA DrainInv == ASSUME RowInv, Drain PROVE RowInv'
<1> USE DEF RowInv, Shape
<1>1. /\ pc = "drain" /\ jobs = <<>> /\ results' = <<>> /\ pc' = "fail"
      /\ UNCHANGED <<mode, calls, call, laid, second, hist, last, ahead, faults, ctl, words, ring, entry,
                     stream, phase, ctr, kda, bak, next, marked, jobs, cphase, tab, moved, flying,
                     stg, lane, laneRow, xrow>>
  BY DEF Drain, devVars, storeVars, laneVars
<1>2. HostShape'
  BY <1>1 DEF HostShape
<1>3. DeviceShape' /\ ThreadShape'
  <2>1. results' \in Seq(BOOLEAN)
    BY <1>1
  <2> QED BY <1>1, <2>1, DeviceKept, Zenon DEF ThreadShape
<1>p. ctl.poisoned /\ ahead = None
  BY <1>1 DEF RowsInv
<1>4. RowsInv'
  <2>1. Len(jobs') + Len(results') = 0
    BY <1>1
  <2> QED BY <1>1, <1>p, <2>1 DEF RowsInv, Rows
<1>5. LaidInv' /\ StagerInv'
  BY <1>1, <1>p DEF LaidInv, StagerInv
<1>6. QueueInv' /\ JobsInv'
  BY <1>1, QueueKept, JobsKept DEF DeviceShape
<1>7. PaceInv'
  BY <1>1, <1>p DEF PaceInv, Sound, JobFailed
<1> QED BY <1>2, <1>3, <1>4, <1>5, <1>6, <1>7

(* set_switches: a ring and words of its own, above every request so far. *)
LEMMA NewSwitchesInv == ASSUME RowInv, NewSwitches PROVE RowInv'
<1> USE DEF RowInv, Shape
<1>0. /\ pc = "idle" /\ ctl.poisoned /\ ahead = None /\ stream = <<>> /\ jobs = <<>>
      /\ ctl' = [queued |-> 0, handed |-> 0, cancel |-> FALSE, poisoned |-> FALSE, base |-> ctl.base + ctl.handed]
      /\ words' = [words EXCEPT !.reply = 0, !.err = 0]
      /\ ring' = [i \in 0 .. RingSize - 1 |-> [seq |-> 0, layer |-> 0]]
      /\ entry' = [i \in 0 .. RingSize - 1 |-> [seq |-> 0, late |-> FALSE]]
      /\ ctr' = 0
      /\ UNCHANGED <<mode, calls, pc, call, laid, second, hist, last, ahead, faults, stream, phase, kda, bak,
                     next, marked, jobs, cphase, results, tab, moved, flying, stg, lane, laneRow, xrow>>
  BY DEF NewSwitches, hostVars, jobVars, storeVars, laneVars
<1>1. ctl.base \in Nat /\ ctl.handed \in Nat
  BY DEF HostShape, CtlType
<1>2. ctl' \in CtlType /\ ctl'.queued = 0 /\ ctl'.handed = 0 /\ ctl'.poisoned = FALSE
      /\ ctl'.base = ctl.base + ctl.handed
  BY <1>0, <1>1 DEF CtlType
<1>3. words' \in WordsType /\ words'.reply = 0 /\ words'.err = 0
  BY <1>0 DEF DeviceShape, WordsType
<1>4. HostShape'
  BY <1>0, <1>2, Zenon DEF HostShape
<1>5. DeviceShape'
  <2>1. Steps' = Steps
    BY <1>0 DEF Steps
  <2>2. /\ ring' \in [0 .. RingSize - 1 -> [seq : Nat, layer : Nat]]
        /\ entry' \in [0 .. RingSize - 1 -> [seq : Nat, late : BOOLEAN]]
        /\ ctr' \in Nat
    BY <1>0
  <2> QED BY <1>0, <1>3, <2>1, <2>2, Zenon DEF DeviceShape
<1>6. ThreadShape'
  BY <1>0, ThreadKept
<1>7. RowsInv'
  <2>1. Len(jobs) + Len(results) = 0 /\ ~second
    BY <1>0 DEF RowsInv, Rows
  <2> QED BY <1>0, <1>2, <2>1 DEF RowsInv, Rows
<1>8. LaidInv'
  BY <1>0, <1>2 DEF LaidInv
<1>9. QueueInv'
  <2>1. phase' = "publish" /\ stream' = <<>> /\ ctr' = 0
    BY <1>0 DEF QueueInv
  <2>2. LayersQueued' = 0
    <3>1. {i \in DOMAIN stream' : stream'[i].op = "layer"} = {}
      BY <2>1
    <3> QED BY <3>1, FS_EmptySet DEF LayersQueued
  <2>3. \A i \in DOMAIN ring' : ring'[i].seq = 0
    BY <1>0
  <2> QED BY <1>2, <2>1, <2>2, <2>3, ControllerAssumption DEF QueueInv
<1>10. JobsInv'
  <2>1. cphase' = "next" /\ jobs' = <<>>
    BY <1>0 DEF JobsInv
  <2> QED BY <2>1 DEF JobsInv
<1>11. StagerInv' /\ Owed' = {}
  <2>1. stg' = stg /\ \A i \in DOMAIN stg : stg[i].rid <= ctl.base + ctl.handed /\ stg[i].rid \in Nat
    <3>1. ASSUME NEW i \in DOMAIN stg PROVE stg[i].rid \in Nat
      <4>1. stg \in Seq(CallType)
        BY DEF ThreadShape
      <4>2. stg[i] \in CallType
        BY <4>1
      <4> QED BY <4>2 DEF CallType
    <3> QED BY <1>0, <3>1 DEF StagerInv
  <2>2. ctl'.base + ctl'.handed = ctl.base + ctl.handed
    BY <1>1, <1>2
  <2>3. StagerInv'
    BY <2>1, <2>2 DEF StagerInv
  <2>4. Owed' = {}
    BY <1>1, <1>2, <2>1 DEF Owed
  <2> QED BY <2>3, <2>4
<1>12. PaceInv'
  <2>1. Behind' = 0 /\ words'.reply = 0 /\ ctr' = 0 /\ pc' = "idle"
    BY <1>0, <1>2, <1>3 DEF Behind
  <2> QED BY <1>11, <2>1 DEF PaceInv
<1> QED BY <1>4, <1>5, <1>6, <1>7, <1>8, <1>9, <1>10, <1>11, <1>12

-----------------------------------------------------------------------------
(* The device.                                                               *)

(* A layer begins with its wait. *)
LEMMA WaitsFirst == "wait" \in Range(Steps)
<1> DEFINE Rest == {"pre", "experts", "late", "lane"}
           All  == {"wait"} \cup Rest
<1>0. /\ <<"pre", "experts", "late">> \in Seq(Rest) /\ <<"experts">> \in Seq(Rest)
      /\ <<"lane">> \in Seq(Rest) /\ <<>> \in Seq(Rest)
  OBVIOUS
<1> HIDE DEF Rest
<1>1. PICK b \in Seq(Rest) : b = IF mode.early THEN <<"pre", "experts", "late">> ELSE <<"experts">>
  BY <1>0, Zenon
<1>2. PICK c \in Seq(Rest) : c = IF mode.lane THEN <<"lane">> ELSE <<>>
  BY <1>0, Zenon
<1>3. PICK s : s = Steps /\ s = <<"wait">> \o b \o c
  BY <1>1, <1>2 DEF Steps
<1>4. PICK a : a = <<"wait">> \o b
  OBVIOUS
<1>5. a \in Seq(All) /\ Len(a) = 1 + Len(b) /\ a[1] = "wait"
  BY <1>4
<1>6. 1 \in DOMAIN s /\ s[1] = a[1]
  BY <1>3, <1>4, <1>5
<1> QED BY <1>3, <1>5, <1>6 DEF Range

(* The requests behind the thread, counted. *)
LEMMA BehindCounts == ASSUME Shape PROVE Behind \in Nat
<1>1. ctl.handed \in Nat
  BY DEF Shape, HostShape, CtlType
<1>2. ASSUME jobs # <<>> PROVE jobs[1].seq \in Nat \ {0}
  <2>1. jobs \in Seq(JobType)
    BY DEF Shape, ThreadShape
  <2>2. jobs[1] \in JobType
    BY <1>2, <2>1
  <2> QED BY <2>2 DEF JobType
<1> QED BY <1>1, <1>2 DEF Behind

(* A step of the device leaves the host alone, but for a fault it may use up. *)
LEMMA HostFaultKept ==
  ASSUME HostShape, UNCHANGED <<mode, calls, pc, call, laid, second, hist, last, ahead, ctl>>,
         faults' \in 0 .. MaxFaults
  PROVE  HostShape'
BY Zenon DEF HostShape

(* glm5_ctl_publish. *)
LEMMA PublishInv == ASSUME RowInv, Publish PROVE RowInv'
<1> USE DEF RowInv, Shape
<1> DEFINE s == (ctr + 1) % RingSize
<1>0. /\ stream # <<>> /\ Head(stream).op = "layer" /\ phase = "publish" /\ ctr' = ctr + 1 /\ phase' = "wait"
      /\ ring' = [ring EXCEPT ![s] = [seq |-> ctr + 1, layer |-> Head(stream).arg]]
      /\ xrow' = IF mode.lane THEN Rid(ctr + 1) ELSE xrow
      /\ UNCHANGED <<mode, calls, pc, call, laid, second, hist, last, ahead, faults, ctl, words, entry, stream,
                     kda, bak, next, marked, jobs, cphase, results, tab, moved, flying, stg, lane, laneRow>>
  BY DEF Publish, Top, Slot, hostVars, jobVars, storeVars
<1>1. /\ ctr \in Nat /\ stream \in Seq(StreamOps) /\ ring \in [0 .. RingSize - 1 -> [seq : Nat, layer : Nat]]
      /\ ctl \in CtlType /\ xrow \in Nat /\ words.reply \in Nat
  BY DEF HostShape, DeviceShape, ThreadShape, WordsType
<1>2. Head(stream).arg \in Nat /\ Layers \in Nat
  <2>1. Head(stream) \in StreamOps
    BY <1>0, <1>1
  <2> QED BY <1>0, <2>1, ControllerAssumption DEF StreamOps, LayerIds
<1>3. ring' \in [0 .. RingSize - 1 -> [seq : Nat, layer : Nat]]
  <2>1. [seq |-> ctr + 1, layer |-> Head(stream).arg] \in [seq : Nat, layer : Nat]
    BY <1>1, <1>2
  <2> QED BY <1>0, <1>1, <2>1
<1>4. \A i \in DOMAIN ring' : ring'[i].seq <= ctr'
  <2>1. ASSUME NEW i \in 0 .. RingSize - 1 PROVE ring'[i].seq <= ctr + 1
    <3>1. ring[i].seq <= ctr /\ ring[i].seq \in Nat
      <4>1. ring[i] \in [seq : Nat, layer : Nat] /\ i \in DOMAIN ring
        BY <1>1
      <4> QED BY <4>1 DEF QueueInv
    <3>2. CASE i = s
      BY <1>0, <1>1, <3>2
    <3>3. CASE i # s
      BY <1>0, <1>1, <3>1, <3>3
    <3> QED BY <3>2, <3>3
  <2> QED BY <1>0, <1>3, <2>1
<1>5. xrow' \in Nat
  BY <1>0, <1>1 DEF Rid, CtlType
<1>6. HostShape'
  BY <1>0, HostKept
<1>7. DeviceShape'
  <2>1. Steps' = Steps
    BY <1>0 DEF Steps
  <2>2. phase' \in Range(Steps) /\ ctr' \in Nat
    BY <1>0, <1>1, WaitsFirst
  <2> QED BY <1>0, <1>3, <2>1, <2>2, Zenon DEF DeviceShape
<1>8. ThreadShape'
  BY <1>0, <1>5, Zenon DEF ThreadShape
<1>9. RowsInv' /\ LaidInv' /\ StagerInv'
  BY <1>0 DEF RowsInv, LaidInv, StagerInv
<1>10. QueueInv'
  <2>1. LayersQueued' = LayersQueued /\ LayersQueued \in Nat
    BY <1>0, <1>1, LayersFinite DEF LayersQueued, LayersAt
  <2>2. ctl.queued = ctr + LayersQueued /\ LayersQueued <= QueueCap /\ ctl.queued \in Nat
    BY <1>0, <1>1 DEF QueueInv, CtlType
  <2>3. ctl'.queued + 1 = ctr' + LayersQueued'
    BY <1>0, <1>1, <2>1, <2>2
  <2> QED BY <1>0, <1>1, <1>4, <2>1, <2>2, <2>3 DEF QueueInv, Top
<1>11. JobsInv'
  <2>1. ctr' \in Nat /\ ctr <= ctr'
    BY <1>0, <1>1
  <2> QED BY <1>0, <2>1, JobsKept
<1>12. PaceInv'
  <2> SUFFICES ASSUME Sound' PROVE PaceInv'
    BY DEF PaceInv
  <2>1. Sound /\ Behind' = Behind /\ Owed' = Owed
    BY <1>0 DEF Sound, JobFailed, Behind, Owed
  <2>2. words.reply = ctr /\ words.reply <= Behind /\ Behind <= ctr
    BY <1>0, <2>1 DEF PaceInv
  <2>3. /\ words'.reply <= ctr' /\ ctr' <= words'.reply + 1 /\ words'.reply <= Behind' /\ Behind' <= ctr'
    <3>1. Behind = ctr
      BY <1>1, <2>2, BehindCounts
    <3> QED BY <1>0, <1>1, <2>1, <2>2, <3>1
  <2>4. \A i \in Owed' : stg'[i].q = Behind' /\ Behind' = words'.reply + 1
    BY <1>0, <2>1 DEF PaceInv
  <2>5. \A i, j \in Owed' : i = j
    BY <2>1 DEF PaceInv
  <2>6. pc' = "launch" => ctl'.queued + 1 <= words'.reply + Ahead
    BY <1>0, <2>1 DEF PaceInv
  <2> QED BY <1>0, <2>3, <2>4, <2>5, <2>6 DEF PaceInv
<1> QED BY <1>6, <1>7, <1>8, <1>9, <1>10, <1>11, <1>12

(* What an assignment to one field leaves of the state: a step that is exact or not. *)
LEMMA StateOk ==
  ASSUME NEW k \in State, NEW a \in BOOLEAN, NEW d, d = [k EXCEPT !.ok = a]
  PROVE  d \in State
BY DEF State

(* An id more. *)
LEMMA StateToks ==
  ASSUME NEW k \in State, NEW a \in Seq(Tokens), NEW d, d = [k EXCEPT !.toks = a]
  PROVE  d \in State
BY DEF State

(* The error word set. *)
LEMMA WordsErr ==
  ASSUME NEW w \in WordsType, NEW a \in Nat, NEW d, d = [w EXCEPT !.err = a]
  PROVE  d \in WordsType /\ d.reply = w.reply /\ d.err = a
BY DEF WordsType

(* A step of a layer behind its publish; the last one ends the layer. *)
LEMMA LayerStepInv == ASSUME RowInv, LayerStep PROVE RowInv'
<1> USE DEF RowInv, Shape
<1> DEFINE giveUp == [words EXCEPT !.err = IF words.err = 0 THEN ctr ELSE words.err]
<1>0. /\ stream # <<>> /\ Head(stream).op = "layer" /\ phase # "publish"
      /\ \/ ~DeviceWaits /\ words' = words /\ faults' = faults
         \/ DeviceWaits /\ (Fault \/ faults' = faults) /\ words' = giveUp
      /\ kda' = [kda EXCEPT !.ok = kda.ok /\ Exact]
      /\ phase' = AfterStep(phase)
      /\ stream' = IF phase' = "publish" THEN Tail(stream) ELSE stream
      /\ UNCHANGED <<mode, calls, pc, call, laid, second, hist, last, ahead, ctl, ring, entry, ctr, bak, next,
                     marked, jobs, cphase, results, tab, moved, flying, stg, lane, laneRow, xrow>>
  BY DEF LayerStep, Top, hostVars, jobVars, storeVars, laneVars
<1>1. /\ ctr \in Nat /\ stream \in Seq(StreamOps) /\ ctl \in CtlType /\ words \in WordsType /\ kda \in State
      /\ phase \in Range(Steps) /\ mode \in [early : BOOLEAN, la : BOOLEAN, lane : BOOLEAN]
      /\ phase # "publish"
  BY <1>0, Zenon DEF HostShape, DeviceShape
<1>2. faults' \in 0 .. MaxFaults
  <2>1. faults \in 0 .. MaxFaults /\ (faults' = faults \/ (faults < MaxFaults /\ faults' = faults + 1))
    BY <1>0, Zenon DEF HostShape, Fault
  <2> QED BY <2>1, ControllerAssumption
<1>3. phase' \in {"publish"} \cup Range(Steps) /\ phase' # "wait"
  BY <1>0, <1>1, LayerSteps, Zenon
<1>4. kda' \in State
  <2>1. PICK a \in BOOLEAN : a = (kda.ok /\ Exact)
    BY Zenon
  <2>2. kda' = [kda EXCEPT !.ok = a]
    BY <1>0, <2>1, Zenon
  <2> QED BY <1>1, <2>2, StateOk
<1>5. /\ words' \in WordsType /\ words'.reply = words.reply
      /\ \/ ~DeviceWaits /\ words' = words
         \/ words'.err # 0
  <2>1. CASE ~DeviceWaits /\ words' = words
    BY <1>1, <2>1, Zenon
  <2>2. CASE words' = giveUp
    <3>1. PICK e : e = IF words.err = 0 THEN ctr ELSE words.err
      OBVIOUS
    <3>2. ctr # 0
      BY <1>1 DEF QueueInv
    <3>3. e \in Nat /\ e # 0
      BY <1>1, <3>1, <3>2 DEF WordsType
    <3>4. words' = [words EXCEPT !.err = e]
      BY <2>2, <3>1, Zenon
    <3> QED BY <1>1, <3>3, <3>4, WordsErr
  <2> QED BY <1>0, <2>1, <2>2, Zenon
<1>6. /\ stream' \in Seq(StreamOps)
      /\ Cardinality(LayersAt(stream)) \in Nat /\ Cardinality(LayersAt(stream')) \in Nat
      /\ Cardinality(LayersAt(stream)) = Cardinality(LayersAt(stream')) + (IF phase' = "publish" THEN 1 ELSE 0)
  <2>0. stream # <<>> /\ Head(stream).op = "layer" /\ stream' = IF phase' = "publish" THEN Tail(stream) ELSE stream
    BY <1>0, Zenon
  <2>1. /\ Tail(stream) \in Seq(StreamOps)
        /\ Cardinality(LayersAt(stream)) = Cardinality(LayersAt(Tail(stream))) + 1
    BY <1>1, <2>0, LayersTail
  <2>2. Cardinality(LayersAt(stream)) \in Nat /\ Cardinality(LayersAt(Tail(stream))) \in Nat
    BY <1>1, <2>1, LayersFinite
  <2>3. CASE phase' = "publish"
    BY <2>0, <2>1, <2>2, <2>3
  <2>4. CASE phase' # "publish"
    BY <2>0, <1>1, <2>2, <2>4
  <2> QED BY <2>3, <2>4
<1>7. HostShape'
  BY <1>0, <1>2, HostFaultKept, Zenon
<1>8. DeviceShape'
  <2>1. Steps' = Steps
    BY <1>0 DEF Steps
  <2> QED BY <1>0, <1>3, <1>4, <1>5, <1>6, <2>1, Zenon DEF DeviceShape
<1>9. ThreadShape'
  BY <1>0, ThreadKept, Zenon
<1>k. UNCHANGED <<pc, second, ahead, ctl, mode, jobs, cphase, results, stg, laid, ctr, ring>>
  BY <1>0, Zenon
<1>10. RowsInv' /\ LaidInv' /\ StagerInv'
  BY <1>k DEF RowsInv, LaidInv, StagerInv
<1>11. QueueInv'
  <2>1. LayersQueued = Cardinality(LayersAt(stream)) /\ LayersQueued' = Cardinality(LayersAt(stream'))
    BY DEF LayersQueued, LayersAt
  <2>2. ctl.queued + 1 = ctr + LayersQueued /\ LayersQueued <= QueueCap /\ ctl.queued \in Nat /\ ctr # 0
    BY <1>1 DEF QueueInv, CtlType
  <2>3. ctl'.queued + (IF phase' = "publish" THEN 0 ELSE 1) = ctr' + LayersQueued'
    BY <1>k, <1>1, <1>6, <2>1, <2>2
  <2>4. LayersQueued' <= QueueCap
    BY <1>6, <2>1, <2>2, ControllerAssumption
  <2>5. phase' # "publish" => stream' # <<>> /\ Head(stream').op = "layer" /\ ctr' # 0
    BY <1>0, <2>2, Zenon
  <2>6. \A i \in DOMAIN ring' : ring'[i].seq <= ctr'
    BY <1>k DEF QueueInv
  <2> QED BY <2>3, <2>4, <2>5, <2>6 DEF QueueInv, Top
<1>12. JobsInv'
  BY <1>k, <1>1, JobsKept
<1>13. PaceInv'
  <2> SUFFICES ASSUME Sound' PROVE PaceInv'
    BY DEF PaceInv
  <2>1. ~DeviceWaits /\ words' = words
    BY <1>5 DEF Sound
  <2>2. Sound /\ Behind' = Behind /\ Owed' = Owed
    BY <1>k, <2>1 DEF Sound, JobFailed, Behind, Owed
  <2>3. words.reply = ctr
    <3>1. CASE phase = "wait"
      <4>1. ~(words.reply < ctr)
        BY <2>1, <3>1 DEF DeviceWaits
      <4>2. words.reply <= ctr /\ words.reply \in Nat
        BY <1>1, <2>2 DEF PaceInv, WordsType
      <4> QED BY <1>1, <4>1, <4>2
    <3>2. CASE phase # "wait"
      BY <2>2, <3>2 DEF PaceInv
    <3> QED BY <3>1, <3>2
  <2> QED BY <1>k, <2>1, <2>2, <2>3 DEF PaceInv
<1> QED BY <1>7, <1>8, <1>9, <1>10, <1>11, <1>12, <1>13

(* The head's id. *)
LEMMA GreedyToken == ASSUME NEW t \in Seq(Tokens) PROVE Greedy(t) \in Tokens
<1> DEFINE ones == {i \in DOMAIN t : t[i] = 1}
<1>1. Len(t) \in Nat /\ DOMAIN t = 1 .. Len(t)
  OBVIOUS
<1>2. ones \subseteq 1 .. Len(t) /\ IsFiniteSet(1 .. Len(t))
  BY <1>1, FS_Interval
<1>3. IsFiniteSet(ones)
  BY <1>2, FS_Subset
<1>4. Cardinality(ones) \in Nat
  BY <1>3, FS_CardinalityType
<1> HIDE DEF ones
<1>5. (Len(t) + Cardinality(ones)) % 2 \in {0, 1}
  BY <1>1, <1>4
<1> QED BY <1>5 DEF Greedy, Tokens, ones

(* A row's input, the state's backup, the head. *)
LEMMA OtherLaunchInv == ASSUME RowInv, OtherLaunch PROVE RowInv'
<1> USE DEF RowInv, Shape
<1>0. /\ stream # <<>> /\ Head(stream).op # "layer" /\ stream' = Tail(stream)
      /\ UNCHANGED <<mode, calls, pc, call, laid, second, hist, last, ahead, faults, ctl, words, ring, entry,
                     phase, ctr, jobs, cphase, results, tab, moved, flying, stg, lane, laneRow, xrow>>
  BY DEF OtherLaunch, Top, hostVars, jobVars, storeVars, laneVars
<1>1. stream \in Seq(StreamOps) /\ kda \in State /\ bak \in State /\ next \in Tokens /\ marked \in BOOLEAN
  BY DEF DeviceShape
<1>2. Head(stream) \in StreamOps
  BY <1>0, <1>1
<1>3. /\ stream' \in Seq(StreamOps) /\ Cardinality(LayersAt(stream')) = Cardinality(LayersAt(stream))
  <2>1. Tail(stream) \in Seq(StreamOps)
        /\ Cardinality(LayersAt(stream)) = Cardinality(LayersAt(Tail(stream))) + 0
    BY <1>0, <1>1, LayersTail
  <2>2. Cardinality(LayersAt(Tail(stream))) \in Nat
    BY <2>1, LayersFinite
  <2> QED BY <1>0, <2>1, <2>2
<1>4. kda' \in State /\ bak' \in State /\ next' \in Tokens /\ marked' \in BOOLEAN
  <2>1. CASE Head(stream).op = "start"
    <3>1. PICK t : t = IF Head(stream).arg = None THEN next ELSE Head(stream).arg
      OBVIOUS
    <3>2. t \in Tokens
      <4>1. Head(stream).arg \in Tokens \cup {None}
        BY <1>2, <2>1 DEF StreamOps
      <4> QED BY <1>1, <3>1, <4>1, Zenon
    <3>3. Top.op = "start"
      BY <2>1 DEF Top
    <3>4. kda' = [kda EXCEPT !.toks = Append(kda.toks, t)] /\ UNCHANGED <<bak, next, marked>>
      BY <3>1, <3>3 DEF OtherLaunch, Top
    <3>5. kda.toks \in Seq(Tokens)
      BY <1>1 DEF State
    <3>6. Append(kda.toks, t) \in Seq(Tokens)
      BY <3>2, <3>5
    <3>7. kda' \in State
      BY <1>1, <3>4, <3>6, StateToks, Zenon
    <3> QED BY <1>1, <3>4, <3>7, Zenon
  <2>2. CASE Head(stream).op = "backup"
    <3>1. Top.op = "backup"
      BY <2>2 DEF Top
    <3>2. bak' = kda /\ UNCHANGED <<kda, next, marked>>
      BY <3>1 DEF OtherLaunch
    <3> QED BY <1>1, <3>2, Zenon
  <2>3. CASE Head(stream).op = "head"
    <3>1. Top.op = "head"
      BY <2>3 DEF Top
    <3>2. next' \in (IF kda.ok THEN {Greedy(kda.toks)} ELSE Tokens) /\ marked' = TRUE /\ UNCHANGED <<kda, bak>>
      BY <3>1 DEF OtherLaunch
    <3>3. Greedy(kda.toks) \in Tokens
      BY <1>1, GreedyToken DEF State
    <3>4. next' \in Tokens
      BY <3>2, <3>3, Zenon
    <3> QED BY <1>1, <3>2, <3>4, Zenon
  <2>4. Head(stream).op \in {"start", "backup", "head"}
    BY <1>0, <1>2 DEF StreamOps
  <2> QED BY <2>1, <2>2, <2>3, <2>4
<1>5. phase = "publish"
  BY <1>0 DEF QueueInv, Top
<1>6. HostShape'
  BY <1>0, HostKept
<1>7. DeviceShape'
  <2>1. Steps' = Steps
    BY <1>0 DEF Steps
  <2> QED BY <1>0, <1>3, <1>4, <2>1, Zenon DEF DeviceShape
<1>8. ThreadShape'
  BY <1>0, ThreadKept
<1>9. RowsInv' /\ LaidInv' /\ StagerInv'
  BY <1>0 DEF RowsInv, LaidInv, StagerInv
<1>10. QueueInv'
  <2>1. LayersQueued' = LayersQueued
    BY <1>3 DEF LayersQueued, LayersAt
  <2> QED BY <1>0, <1>5, <2>1 DEF QueueInv
<1>11. JobsInv'
  BY <1>0, JobsKept DEF DeviceShape
<1>12. PaceInv'
  BY <1>0, PaceKept DEF Sound, JobFailed
<1> QED BY <1>6, <1>7, <1>8, <1>9, <1>10, <1>11, <1>12

-----------------------------------------------------------------------------
(* The controller thread.                                                    *)

(* The device is past no layer the host has not queued, nor the host past one  *)
(* it has not handed over.                                                     *)
LEMMA DeviceBehindHost ==
  ASSUME RowInv
  PROVE  /\ ctr \in Nat /\ ctl.queued \in Nat /\ ctl.handed \in Nat /\ ctl.base \in Nat
         /\ ctr <= ctl.queued /\ ctl.queued <= ctl.handed
<1> USE DEF RowInv, Shape
<1>1. ctr \in Nat /\ ctl.queued \in Nat /\ ctl.handed \in Nat /\ ctl.base \in Nat /\ stream \in Seq(StreamOps)
  BY DEF HostShape, DeviceShape, CtlType
<1>2. LayersQueued = Cardinality(LayersAt(stream)) /\ LayersQueued \in Nat
  BY <1>1, LayersFinite DEF LayersQueued, LayersAt
<1>3. ctr <= ctl.queued
  <2>1. CASE phase = "publish"
    BY <1>1, <1>2, <2>1 DEF QueueInv
  <2>2. CASE phase # "publish"
    <3>1. stream # <<>> /\ Head(stream).op = "layer"
      BY <2>2 DEF QueueInv, Top
    <3>2. /\ Cardinality(LayersAt(stream)) = Cardinality(LayersAt(Tail(stream))) + 1
          /\ Tail(stream) \in Seq(StreamOps)
      BY <1>1, <3>1, LayersTail
    <3>3. Cardinality(LayersAt(Tail(stream))) \in Nat
      BY <3>2, LayersFinite
    <3> QED BY <1>1, <1>2, <2>2, <3>2, <3>3 DEF QueueInv
  <2> QED BY <2>1, <2>2
<1>4. ctl.queued <= ctl.handed
  <2>1. CASE pc \in {"pace", "launch"}
    BY <1>1, <2>1, ControllerAssumption DEF LaidInv, HostShape
  <2>2. CASE pc \notin {"pace", "launch"}
    BY <2>2 DEF LaidInv
  <2> QED BY <2>1, <2>2
<1> QED BY <1>1, <1>3, <1>4

(* The job in hand. *)
LEMMA JobInHand ==
  ASSUME RowInv, jobs # <<>>
  PROVE  /\ jobs \in Seq(JobType) /\ Job \in JobType /\ Job = jobs[1] /\ Job.seq \in Nat \ {0} /\ Job.left \in Nat \ {0}
         /\ Behind = Job.seq - 1 /\ Len(jobs) \in Nat \ {0}
         /\ Tail(jobs) \in Seq(JobType) /\ Len(Tail(jobs)) = Len(jobs) - 1
<1>1. jobs \in Seq(JobType)
  BY DEF RowInv, Shape, ThreadShape
<1>2. /\ Job \in JobType /\ Job = jobs[1] /\ Len(jobs) \in Nat \ {0}
      /\ Tail(jobs) \in Seq(JobType) /\ Len(Tail(jobs)) = Len(jobs) - 1
  BY <1>1 DEF Job
<1>3. Job.seq \in Nat \ {0} /\ Job.left \in Nat \ {0}
  BY <1>2 DEF JobType
<1> QED BY <1>1, <1>2, <1>3 DEF Behind

(* A row's jobs done with. *)
LEMMA JobDropped ==
  ASSUME RowInv, jobs # <<>>, jobs' = Tail(jobs), cphase' = "next", ctl'.handed = ctl.handed
  PROVE  /\ JobsInv'
         /\ Behind' = Job.seq + Job.left - 1
<1>1. /\ jobs \in Seq(JobType) /\ Job = jobs[1] /\ Job.seq \in Nat /\ Job.left \in Nat /\ Len(jobs) \in Nat \ {0}
      /\ jobs' \in Seq(JobType) /\ Len(jobs') = Len(jobs) - 1
  BY JobInHand
<1>2. \A i \in 1 .. Len(jobs) - 1 : jobs'[i] = jobs[i + 1] /\ i + 1 \in DOMAIN jobs
  BY <1>1
<1>3. DOMAIN jobs' = 1 .. Len(jobs) - 1 /\ DOMAIN jobs = 1 .. Len(jobs)
  BY <1>1
<1>4. \A i \in DOMAIN jobs :
        jobs[i].seq + jobs[i].left = IF i = Len(jobs) THEN ctl.handed + 1 ELSE jobs[i + 1].seq
  BY DEF RowInv, JobsInv
<1>5. ASSUME NEW i \in DOMAIN jobs'
      PROVE  jobs'[i].seq + jobs'[i].left = IF i = Len(jobs') THEN ctl'.handed + 1 ELSE jobs'[i + 1].seq
  <2>1. i \in 1 .. Len(jobs) - 1 /\ i \in Nat
    BY <1>1, <1>3
  <2>2. jobs'[i] = jobs[i + 1] /\ i + 1 \in DOMAIN jobs
    BY <1>2, <2>1
  <2>3. jobs[i + 1].seq + jobs[i + 1].left = IF i + 1 = Len(jobs) THEN ctl.handed + 1 ELSE jobs[i + 1 + 1].seq
    BY <1>4, <2>2
  <2>4. CASE i = Len(jobs')
    BY <1>1, <2>1, <2>2, <2>3, <2>4
  <2>5. CASE i # Len(jobs')
    <3>1. jobs'[i + 1] = jobs[i + 1 + 1] /\ i + 1 # Len(jobs)
      BY <1>1, <1>2, <2>1, <2>5
    <3> QED BY <2>2, <2>3, <2>5, <3>1
  <2> QED BY <2>4, <2>5
<1>6. jobs[1].seq + jobs[1].left = IF 1 = Len(jobs) THEN ctl.handed + 1 ELSE jobs[1 + 1].seq
  BY <1>1, <1>3, <1>4
<1>7. Behind' = Job.seq + Job.left - 1
  <2>1. CASE Len(jobs) = 1
    <3>1. jobs' = <<>>
      BY <1>1, <2>1
    <3>2. ctl.handed \in Nat
      BY DeviceBehindHost
    <3>3. Behind' = ctl.handed
      BY <3>1 DEF Behind
    <3>4. Job.seq + Job.left = ctl.handed + 1
      BY <1>1, <1>6, <2>1, Zenon
    <3> QED BY <1>1, <3>2, <3>3, <3>4
  <2>2. CASE Len(jobs) # 1
    <3>1. jobs' # <<>> /\ jobs'[1] = jobs[1 + 1]
      <4>1. Len(jobs') # 0 /\ 1 \in 1 .. Len(jobs) - 1
        BY <1>1, <2>2
      <4>2. jobs'[1] = jobs[1 + 1]
        BY <1>2, <4>1, Zenon
      <4> QED BY <4>1, <4>2
    <3>2. jobs'[1].seq = Job.seq + Job.left
      BY <1>1, <1>6, <2>2, <3>1
    <3> QED BY <1>1, <3>1, <3>2 DEF Behind
  <2> QED BY <2>1, <2>2
<1> QED BY <1>5, <1>7 DEF JobsInv

(* One more at the end of a sequence. *)
LEMMA OneAppended ==
  ASSUME NEW S, NEW s \in Seq(S), NEW a \in S, NEW t, t = Append(s, a)
  PROVE  /\ t \in Seq(S) /\ Len(t) = Len(s) + 1 /\ DOMAIN s = 1 .. Len(s) /\ DOMAIN t = 1 .. Len(s) + 1
         /\ \A i \in 1 .. Len(s) : t[i] = s[i]
         /\ t[Len(s) + 1] = a
OBVIOUS

(* A result added: what was false stays. *)
LEMMA ResultAdded ==
  ASSUME NEW s \in Seq(BOOLEAN), NEW a \in BOOLEAN, NEW t, t = Append(s, a)
  PROVE  /\ t \in Seq(BOOLEAN) /\ Len(t) = Len(s) + 1 /\ a \in Range(t)
         /\ FALSE \in Range(s) => FALSE \in Range(t)
<1>1. t \in Seq(BOOLEAN) /\ Len(t) = Len(s) + 1 /\ (\A i \in 1 .. Len(s) : t[i] = s[i]) /\ t[Len(s) + 1] = a
  <2> DEFINE B == BOOLEAN
  <2>1. s \in Seq(B) /\ a \in B
    OBVIOUS
  <2> HIDE DEF B
  <2>2. t \in Seq(B) /\ Len(t) = Len(s) + 1 /\ (\A i \in 1 .. Len(s) : t[i] = s[i]) /\ t[Len(s) + 1] = a
    BY <2>1, OneAppended
  <2> QED BY <2>2 DEF B
<1>2. \A i \in 1 .. Len(s) : t[i] = s[i]
  BY <1>1, Zenon
<1>3. t[Len(s) + 1] = a
  BY <1>1, Zenon
<1>4. Len(s) \in Nat /\ DOMAIN s = 1 .. Len(s) /\ DOMAIN t = 1 .. Len(s) + 1
  BY <1>1, LenProperties, Zenon
<1>5. 1 .. Len(s) \subseteq 1 .. Len(s) + 1 /\ Len(s) + 1 \in 1 .. Len(s) + 1
  BY <1>4
<1>6. a \in Range(t)
  BY <1>3, <1>4, <1>5, Zenon DEF Range
<1>7. ASSUME FALSE \in Range(s) PROVE FALSE \in Range(t)
  <2>1. PICK i \in DOMAIN s : s[i] = FALSE
    BY <1>7, Zenon DEF Range
  <2>2. i \in DOMAIN t /\ t[i] = FALSE
    BY <1>2, <1>4, <1>5, <2>1, Zenon
  <2> QED BY <2>2, Zenon DEF Range
<1> QED BY <1>1, <1>6, <1>7, Zenon

(* RingReader's request answered: the next one, or the job's result. *)
LEMMA AnsweredInv ==
  ASSUME RowInv, jobs # <<>>, Answered, ctl'.handed = ctl.handed
  PROVE  /\ jobs' \in Seq(JobType) /\ results' \in Seq(BOOLEAN) /\ cphase' = "next"
         /\ Len(jobs') + Len(results') = Len(jobs) + Len(results)
         /\ Behind' = Job.seq /\ JobsInv'
         /\ FALSE \in Range(results) => FALSE \in Range(results')
<1>1. /\ jobs \in Seq(JobType) /\ Job = jobs[1] /\ Job.seq \in Nat /\ Job.left \in Nat \ {0} /\ Len(jobs) \in Nat \ {0}
      /\ Tail(jobs) \in Seq(JobType) /\ Len(Tail(jobs)) = Len(jobs) - 1
  BY JobInHand
<1>2. results \in Seq(BOOLEAN) /\ Len(results) \in Nat
  BY LenProperties DEF RowInv, Shape, ThreadShape
<1>3. CASE Job.left > 1
  <2> DEFINE j == [seq |-> Job.seq + 1, left |-> Job.left - 1]
  <2>0. jobs' = <<j>> \o Tail(jobs) /\ results' = results /\ cphase' = "next"
    BY <1>3 DEF Answered
  <2>1. j \in JobType /\ j.seq = Job.seq + 1 /\ j.left = Job.left - 1
    BY <1>1, <1>3 DEF JobType
  <2> HIDE DEF j
  <2>2. /\ jobs' \in Seq(JobType) /\ Len(jobs') = Len(jobs) /\ jobs' # <<>> /\ jobs'[1] = j
        /\ \A i \in 2 .. Len(jobs) : jobs'[i] = jobs[i]
    BY <1>1, <2>0, <2>1
  <2>3. Behind' = Job.seq
    BY <1>1, <2>1, <2>2 DEF Behind
  <2>4. ASSUME NEW i \in DOMAIN jobs'
        PROVE  jobs'[i].seq + jobs'[i].left = IF i = Len(jobs') THEN ctl'.handed + 1 ELSE jobs'[i + 1].seq
    <3>1. i \in DOMAIN jobs /\ i \in 1 .. Len(jobs)
      BY <1>1, <2>2
    <3>2. jobs[i].seq + jobs[i].left = IF i = Len(jobs) THEN ctl.handed + 1 ELSE jobs[i + 1].seq
      BY <3>1 DEF RowInv, JobsInv
    <3>3. jobs'[i].seq + jobs'[i].left = jobs[i].seq + jobs[i].left
      <4>1. CASE i = 1
        BY <1>1, <2>1, <2>2, <4>1
      <4>2. CASE i # 1
        BY <1>1, <2>2, <3>1, <4>2
      <4> QED BY <4>1, <4>2
    <3>4. i # Len(jobs) => jobs'[i + 1] = jobs[i + 1]
      BY <1>1, <2>2, <3>1
    <3> QED BY <2>2, <3>2, <3>3, <3>4
  <2>5. JobsInv'
    BY <2>0, <2>4 DEF JobsInv
  <2>6. Len(jobs') + Len(results') = Len(jobs) + Len(results)
    <3>1. Len(results') = Len(results)
      BY <2>0, Zenon
    <3> QED BY <2>2, <3>1
  <2>7. results' \in Seq(BOOLEAN) /\ (FALSE \in Range(results) => FALSE \in Range(results'))
    BY <1>2, <2>0, Zenon
  <2> QED BY <2>0, <2>2, <2>3, <2>5, <2>6, <2>7, Zenon
<1>4. CASE ~(Job.left > 1)
  <2>0. jobs' = Tail(jobs) /\ results' = Append(results, TRUE) /\ cphase' = "next"
    BY <1>4 DEF Answered
  <2>1. Job.left = 1
    BY <1>1, <1>4
  <2>2. JobsInv' /\ Behind' = Job.seq + Job.left - 1
    BY <2>0, JobDropped, Zenon
  <2>3. Behind' = Job.seq
    BY <1>1, <2>1, <2>2
  <2>4. /\ results' \in Seq(BOOLEAN) /\ Len(results') = Len(results) + 1
        /\ FALSE \in Range(results) => FALSE \in Range(results')
    BY <1>2, <2>0, ResultAdded, Zenon
  <2>5. Len(jobs') + Len(results') = Len(jobs) + Len(results)
    <3>1. Len(jobs') = Len(jobs) - 1 /\ Len(results') = Len(results) + 1
      BY <1>1, <2>0, <2>4, Zenon
    <3>2. Len(jobs) \in Nat /\ Len(results) \in Nat
      BY <1>1, <1>2, Zenon
    <3> QED BY <3>1, <3>2
  <2>6. jobs' \in Seq(JobType)
    BY <1>1, <2>0, Zenon
  <2> QED BY <2>0, <2>2, <2>3, <2>4, <2>5, <2>6, Zenon
<1> QED BY <1>3, <1>4

(* The request being answered is the one behind the reply word, and no serial  *)
(* answer is under way.                                                        *)
LEMMA AnswerNext ==
  ASSUME RowInv, jobs # <<>>, Sound, cphase \in {"read", "reply"}
  PROVE  /\ Job.seq = words.reply + 1 /\ Job.seq = ctr /\ words.reply \in Nat /\ Owed = {}
<1>1. Job.seq \in Nat /\ Behind = Job.seq - 1 /\ ctr \in Nat
  BY JobInHand, DeviceBehindHost
<1>2. words.reply \in Nat
  BY DEF RowInv, Shape, DeviceShape, WordsType
<1>3. Job.seq <= ctr /\ ctr <= words.reply + 1 /\ words.reply <= Behind
  BY DEF RowInv, JobsInv, PaceInv
<1>4. Job.seq = words.reply + 1 /\ Job.seq = ctr /\ Behind = words.reply
  BY <1>1, <1>2, <1>3
<1>5. \A i \in Owed : Behind = words.reply + 1
  BY DEF RowInv, PaceInv
<1>6. Owed = {}
  BY <1>2, <1>4, <1>5
<1> QED BY <1>2, <1>4, <1>6

(* RingReader::next: a request is taken only if the device published it. *)
LEMMA SeeRequestInv == ASSUME RowInv, SeeRequest PROVE RowInv'
<1> USE DEF RowInv, Shape
<1>0. /\ jobs # <<>> /\ cphase = "next" /\ ring[Job.seq % RingSize].seq = Job.seq /\ cphase' = "read"
      /\ UNCHANGED <<mode, calls, pc, call, laid, second, hist, last, ahead, faults, ctl, words, ring, entry,
                     stream, phase, ctr, kda, bak, next, marked, jobs, results, tab, moved, flying, stg, lane,
                     laneRow, xrow>>
  BY DEF SeeRequest, Expected, Slot, hostVars, devVars, storeVars, laneVars
<1>1. Job.seq \in Nat
  BY <1>0, JobInHand
<1>2. Job.seq <= ctr
  <2>1. Job.seq % RingSize \in DOMAIN ring
    <3>1. Job.seq % RingSize \in 0 .. RingSize - 1
      BY <1>1, SlotOfRing, Zenon
    <3>2. DOMAIN ring = 0 .. RingSize - 1
      BY DEF DeviceShape
    <3> QED BY <3>1, <3>2, Zenon
  <2> QED BY <1>0, <2>1 DEF QueueInv
<1>3. HostShape' /\ DeviceShape'
  BY <1>0, HostKept, DeviceKept
<1>4. ThreadShape'
  <2>1. cphase' \in {"next", "read", "reply", "failed"}
    BY <1>0
  <2> QED BY <1>0, <2>1, Zenon DEF ThreadShape
<1>5. RowsInv' /\ LaidInv' /\ StagerInv'
  BY <1>0 DEF RowsInv, LaidInv, StagerInv
<1>6. QueueInv'
  BY <1>0, QueueKept
<1>7. JobsInv'
  BY <1>0, <1>2 DEF JobsInv, Job
<1>8. PaceInv'
  BY <1>0, PaceKept DEF Sound, JobFailed
<1> QED BY <1>3, <1>4, <1>5, <1>6, <1>7, <1>8

(* The job gives up: its row was abandoned, its time is up, a read failed. *)
LEMMA JobFails ==
  ASSUME RowInv, jobs # <<>>, cphase' = "failed", faults' = faults \/ Fault,
         UNCHANGED <<mode, calls, pc, call, laid, second, hist, last, ahead, ctl, words, ring, entry,
                     stream, phase, ctr, kda, bak, next, marked, jobs, results, tab, moved, flying, stg, lane,
                     laneRow, xrow>>
  PROVE  RowInv'
<1> USE DEF RowInv, Shape
<1>1. faults' \in 0 .. MaxFaults
  BY ControllerAssumption DEF Fault, HostShape
<1>2. HostShape' /\ DeviceShape'
  BY <1>1, HostFaultKept, DeviceKept
<1>3. ThreadShape'
  <2>1. cphase' \in {"next", "read", "reply", "failed"}
    OBVIOUS
  <2> QED BY <2>1, Zenon DEF ThreadShape
<1>4. RowsInv' /\ LaidInv' /\ StagerInv'
  BY DEF RowsInv, LaidInv, StagerInv
<1>5. QueueInv'
  BY QueueKept
<1>6. JobsInv'
  BY DEF JobsInv
<1>7. PaceInv'
  BY PaceKept DEF Sound, JobFailed
<1> QED BY <1>2, <1>3, <1>4, <1>5, <1>6, <1>7

(* RingReader::next gives up. *)
LEMMA RequestLostInv == ASSUME RowInv, RequestLost PROVE RowInv'
BY JobFails DEF RequestLost, hostVars, devVars, storeVars, laneVars

(* A read of the request's experts failed. *)
LEMMA ServeFailsInv == ASSUME RowInv, ServeFails PROVE RowInv'
<1>1. jobs # <<>>
  BY DEF ServeFails, RowInv, JobsInv
<1> QED BY <1>1, JobFails DEF ServeFails, hostVars, devVars, storeVars, laneVars

(* The rows counted, a job's end only a result for a job. *)
LEMMA RowsKept ==
  ASSUME RowsInv, UNCHANGED <<mode, pc, second, ahead, ctl>>,
         Len(jobs') + Len(results') = Len(jobs) + Len(results)
  PROVE  RowsInv'
BY DEF RowsInv

(* A lane's job of a request. *)
LEMMA LaneShape ==
  ASSUME RowInv, jobs # <<>>, ToLane
  PROVE  lane' \in Seq([q : Nat, rid : Nat])
<1>1. Job.seq \in Nat /\ Rid(Job.seq) \in Nat /\ lane \in Seq([q : Nat, rid : Nat])
  <2>1. Job.seq \in Nat /\ ctl.base \in Nat
    BY JobInHand, DeviceBehindHost
  <2>2. Rid(Job.seq) \in Nat
    BY <2>1 DEF Rid
  <2>3. lane \in Seq([q : Nat, rid : Nat])
    BY DEF RowInv, Shape, ThreadShape
  <2> QED BY <2>1, <2>2, <2>3
<1>2. PICK j : j = [q |-> Job.seq, rid |-> Rid(Job.seq)]
  OBVIOUS
<1>3. j \in [q : Nat, rid : Nat]
  BY <1>1, <1>2
<1>4. Append(lane, j) \in Seq([q : Nat, rid : Nat])
  BY <1>1, <1>3
<1> QED BY <1>1, <1>2, <1>4, Zenon DEF ToLane

\* The serial calls among a stream's, of the controller with base b.
OwedAt(s, b) == {i \in DOMAIN s : s[i].q # 0 /\ s[i].rid > b}

(* The stager's calls, one more behind them. *)
LEMMA OwedAppend ==
  ASSUME NEW s \in Seq(CallType), NEW c \in CallType, NEW b \in Nat
  PROVE  /\ Append(s, c) \in Seq(CallType) /\ Append(s, c)[Len(s) + 1] = c
         /\ (c.q # 0 /\ c.rid > b) => OwedAt(Append(s, c), b) = OwedAt(s, b) \cup {Len(s) + 1}
         /\ ~(c.q # 0 /\ c.rid > b) => OwedAt(Append(s, c), b) = OwedAt(s, b)
         /\ \A i \in DOMAIN Append(s, c) : (i \in DOMAIN s /\ Append(s, c)[i] = s[i]) \/ Append(s, c)[i] = c
<1>0. PICK t : t = Append(s, c)
  OBVIOUS
<1>1. /\ t \in Seq(CallType) /\ Len(t) = Len(s) + 1 /\ t[Len(s) + 1] = c
      /\ \A i \in 1 .. Len(s) : t[i] = s[i]
      /\ DOMAIN t = 1 .. Len(s) + 1 /\ DOMAIN s = 1 .. Len(s) /\ Len(s) \in Nat
  BY <1>0
<1>2. \A i \in DOMAIN t : (i \in DOMAIN s /\ t[i] = s[i]) \/ (i = Len(s) + 1 /\ t[i] = c)
  BY <1>1
<1>3. \A i \in DOMAIN s : i \in DOMAIN t /\ i # Len(s) + 1 /\ t[i] = s[i]
  BY <1>1
<1>4. Len(s) + 1 \in DOMAIN t
  BY <1>1
<1>5. ASSUME c.q # 0 /\ c.rid > b PROVE OwedAt(t, b) = OwedAt(s, b) \cup {Len(s) + 1}
  BY <1>1, <1>2, <1>3, <1>4, <1>5, Zenon DEF OwedAt
<1>6. ASSUME ~(c.q # 0 /\ c.rid > b) PROVE OwedAt(t, b) = OwedAt(s, b)
  BY <1>1, <1>2, <1>3, <1>6, Zenon DEF OwedAt
<1> QED BY <1>0, <1>1, <1>2, <1>5, <1>6, Zenon

(* table_reply_early (or the serial order), up to its answer. *)
LEMMA ServeInv == ASSUME RowInv, NEW serial \in BOOLEAN, Serve(serial) PROVE RowInv'
<1> USE DEF RowInv, Shape
<1> DEFINE s == Job.seq % RingSize
           r == Rid(Job.seq)
           c == [layer |-> ring[s].layer, rid |-> r, q |-> IF serial THEN Job.seq ELSE 0]
<1>0. /\ jobs # <<>> /\ cphase = "read" /\ flying' = flying \cup {r}
      /\ tab' = (IF mode.early THEN [tab EXCEPT ![ring[s].layer] = r] ELSE tab)
      /\ entry' = (IF mode.early THEN [entry EXCEPT ![s] = [seq |-> Job.seq, late |-> ~serial]] ELSE entry)
      /\ stg' = Append(stg, c)
      /\ IF serial THEN Answered /\ ToLane
                   ELSE cphase' = "reply" /\ UNCHANGED <<jobs, results, lane>>
      /\ UNCHANGED <<mode, calls, pc, call, laid, second, hist, last, ahead, faults, ctl, words, ring,
                     stream, phase, ctr, kda, bak, next, marked, moved, laneRow, xrow>>
  BY DEF Serve, Slot, hostVars, devVars
<1>1. /\ ctr \in Nat /\ ctl.queued \in Nat /\ ctl.handed \in Nat /\ ctl.base \in Nat
      /\ ctr <= ctl.queued /\ ctl.queued <= ctl.handed
  BY DeviceBehindHost
<1>2. jobs # <<>> /\ cphase = "read"
  BY <1>0
<1>3. Job.seq \in Nat \ {0} /\ Job.left \in Nat \ {0} /\ Behind = Job.seq - 1
  BY <1>2, JobInHand
<1>4. Job.seq <= ctr /\ r \in Nat /\ r <= ctl.base + ctl.handed /\ r > ctl.base
  <2>1. Job.seq <= ctr
    BY <1>2 DEF JobsInv
  <2> QED BY <1>1, <1>3, <2>1 DEF Rid
<1>5. s \in 0 .. RingSize - 1
  <2>1. Job.seq \in Nat
    BY <1>3
  <2> QED BY <2>1, SlotOfRing, Zenon
<1>6. ring[s].layer \in Nat
  <2>1. ring[s] \in [seq : Nat, layer : Nat]
    BY <1>5 DEF DeviceShape
  <2> QED BY <2>1
<1>7. c \in CallType /\ c.rid = r /\ c.q = (IF serial THEN Job.seq ELSE 0)
  <2>1. c.rid = r /\ c.q = (IF serial THEN Job.seq ELSE 0) /\ c.layer = ring[s].layer
    BY Zenon
  <2>2. (IF serial THEN Job.seq ELSE 0) \in Nat
    BY <1>3
  <2> QED BY <1>4, <1>6, <2>1, <2>2 DEF CallType
<1>k. UNCHANGED <<mode, calls, pc, call, laid, second, hist, last, ahead, faults, ctl, words, ring,
                  stream, phase, ctr, kda, bak, next, marked, moved, laneRow, xrow>>
  BY <1>0, Zenon
<1> HIDE DEF c
<1>8. /\ stg' \in Seq(CallType) /\ stg'[Len(stg) + 1] = c
      /\ Owed' = Owed \cup (IF serial THEN {Len(stg) + 1} ELSE {})
      /\ \A i \in DOMAIN stg' : (i \in DOMAIN stg /\ stg'[i] = stg[i]) \/ stg'[i] = c
  <2>1. stg \in Seq(CallType) /\ stg' = Append(stg, c)
    BY <1>0, Zenon DEF ThreadShape
  <2>2. c.q # 0 /\ c.rid > ctl.base <=> serial
    BY <1>3, <1>4, <1>7
  <2>3. ctl' = ctl
    BY <1>k
  <2>4. c \in CallType /\ ctl.base \in Nat
    BY <1>1, <1>7, Zenon
  <2>5. /\ Append(stg, c) \in Seq(CallType) /\ Append(stg, c)[Len(stg) + 1] = c
        /\ (c.q # 0 /\ c.rid > ctl.base) => OwedAt(Append(stg, c), ctl.base) = OwedAt(stg, ctl.base) \cup {Len(stg) + 1}
        /\ ~(c.q # 0 /\ c.rid > ctl.base) => OwedAt(Append(stg, c), ctl.base) = OwedAt(stg, ctl.base)
        /\ \A i \in DOMAIN Append(stg, c) :
             (i \in DOMAIN stg /\ Append(stg, c)[i] = stg[i]) \/ Append(stg, c)[i] = c
    BY <2>1, <2>4, OwedAppend, Zenon
  <2>6. OwedAt(stg, ctl.base) = Owed /\ OwedAt(stg', ctl.base) = Owed'
    BY <2>3 DEF Owed, OwedAt
  <2>7. CASE serial
    BY <2>1, <2>2, <2>5, <2>6, <2>7, Zenon
  <2>8. CASE ~serial
    BY <2>1, <2>2, <2>5, <2>6, <2>8
  <2> QED BY <2>7, <2>8
<1>9. HostShape'
  BY <1>k, HostKept
<1>10. DeviceShape'
  <2>1. Steps' = Steps
    BY <1>k DEF Steps
  <2>2. entry' \in [0 .. RingSize - 1 -> [seq : Nat, late : BOOLEAN]]
    <3>1. entry \in [0 .. RingSize - 1 -> [seq : Nat, late : BOOLEAN]]
      BY DEF DeviceShape
    <3>2. PICK e : e = [seq |-> Job.seq, late |-> ~serial]
      OBVIOUS
    <3>3. e \in [seq : Nat, late : BOOLEAN]
      BY <1>3, <3>2
    <3>4. entry' = (IF mode.early THEN [entry EXCEPT ![s] = e] ELSE entry)
      BY <1>0, <3>2, Zenon
    <3> QED BY <3>1, <3>3, <3>4
  <2> QED BY <1>k, <2>1, <2>2, Zenon DEF DeviceShape
<1>11. flying' \in SUBSET Nat /\ tab' \in [LayerIds -> Nat]
  <2>1. flying' \in SUBSET Nat
    BY <1>0, <1>4 DEF ThreadShape
  <2>2. tab \in [LayerIds -> Nat] /\ tab' = (IF mode.early THEN [tab EXCEPT ![ring[s].layer] = r] ELSE tab)
    BY <1>0, Zenon DEF ThreadShape
  <2>3. tab' \in [LayerIds -> Nat]
    BY <1>4, <2>2
  <2> QED BY <2>1, <2>3
<1>12. StagerInv'
  <2>1. ASSUME NEW i \in DOMAIN stg' PROVE stg'[i].rid <= ctl.base + ctl.handed
    BY <1>4, <1>7, <1>8, <2>1 DEF StagerInv
  <2> QED BY <1>k, <2>1 DEF StagerInv
<1>13. LaidInv' /\ QueueInv'
  BY <1>k, QueueKept DEF LaidInv
<1>14. CASE serial
  <2>1. Answered /\ ToLane
    BY <1>0, <1>14, Zenon
  <2>2. ctl'.handed = ctl.handed
    BY <1>k
  <2>3. /\ jobs' \in Seq(JobType) /\ results' \in Seq(BOOLEAN) /\ cphase' = "next"
        /\ Len(jobs') + Len(results') = Len(jobs) + Len(results)
        /\ Behind' = Job.seq /\ JobsInv'
        /\ FALSE \in Range(results) => FALSE \in Range(results')
    BY <1>2, <2>1, <2>2, AnsweredInv, Zenon
  <2>4. ThreadShape'
    <3>1. lane' \in Seq([q : Nat, rid : Nat])
      BY <1>2, <2>1, LaneShape
    <3>2. cphase' \in {"next", "read", "reply", "failed"}
      BY <2>3
    <3> QED BY <1>k, <1>8, <1>11, <2>3, <3>1, <3>2, Zenon DEF ThreadShape
  <2>5. RowsInv'
    BY <1>k, <2>3, RowsKept, Zenon
  <2>6. PaceInv'
    <3> SUFFICES ASSUME Sound' PROVE PaceInv'
      BY DEF PaceInv
    <3>1. Sound
      <4>1. ~ctl.poisoned /\ words.err = 0 /\ FALSE \notin Range(results')
        BY <1>k DEF Sound, JobFailed
      <4> QED BY <2>3, <4>1, Zenon DEF Sound, JobFailed
    <3>2. Job.seq = words.reply + 1 /\ Job.seq = ctr /\ words.reply \in Nat /\ Owed = {}
      BY <1>2, <3>1, AnswerNext
    <3>3. Behind' = words.reply + 1 /\ Behind' = ctr /\ Owed' = {Len(stg) + 1}
      BY <1>8, <1>14, <2>3, <3>2, Zenon
    <3>4. \A i \in Owed' : stg'[i].q = Behind'
      BY <1>7, <1>8, <1>14, <2>3, <3>3
    <3>5. words'.reply = words.reply /\ ctr' = ctr /\ phase' = phase
      BY <1>k
    <3>6. /\ words.reply <= ctr /\ ctr <= words.reply + 1 /\ (phase # "wait" => words.reply = ctr)
          /\ (pc = "launch" => ctl.queued + 1 <= words.reply + Ahead)
      BY <3>1 DEF PaceInv
    <3>7. words.reply <= Behind' /\ Behind' <= ctr
      BY <1>1, <3>2, <3>3
    <3>8. pc' = "launch" => ctl'.queued + 1 <= words'.reply + Ahead
      BY <1>k, <3>6
    <3> QED BY <3>3, <3>4, <3>5, <3>6, <3>7, <3>8 DEF PaceInv
  <2> QED BY <1>9, <1>10, <1>12, <1>13, <2>3, <2>4, <2>5, <2>6
<1>15. CASE ~serial
  <2>1. cphase' = "reply" /\ UNCHANGED <<jobs, results, lane>>
    BY <1>0, <1>15, Zenon
  <2>2. Owed' = Owed /\ Behind' = Behind
    BY <1>k, <1>8, <1>15, <2>1 DEF Behind
  <2>4. ThreadShape'
    <3>2. cphase' \in {"next", "read", "reply", "failed"}
      BY <2>1
    <3> QED BY <1>k, <1>8, <1>11, <2>1, <3>2, Zenon DEF ThreadShape
  <2>5. RowsInv'
    BY <1>k, <2>1 DEF RowsInv
  <2>6. JobsInv'
    <3>1. Job' = Job /\ ctr' = ctr /\ ctl' = ctl /\ jobs' = jobs
      BY <1>k, <2>1 DEF Job
    <3> QED BY <1>2, <1>4, <3>1 DEF JobsInv
  <2>7. PaceInv'
    <3> SUFFICES ASSUME Sound' PROVE PaceInv'
      BY DEF PaceInv
    <3>1. Sound
      BY <1>k, <2>1 DEF Sound, JobFailed
    <3>2. Owed = {}
      BY <1>2, <3>1, AnswerNext
    <3> QED BY <1>k, <2>2, <3>1, <3>2 DEF PaceInv
  <2> QED BY <1>9, <1>10, <1>12, <1>13, <2>4, <2>5, <2>6, <2>7
<1> QED BY <1>14, <1>15

(* EarlyReply::reply. *)
LEMMA ReplyEarlyInv == ASSUME RowInv, ReplyEarly PROVE RowInv'
<1> USE DEF RowInv, Shape
<1>0. /\ cphase = "reply" /\ Answered /\ ToLane
      /\ words' = [words EXCEPT !.reply = IF words.reply < Job.seq THEN Job.seq ELSE words.reply]
      /\ UNCHANGED <<mode, calls, pc, call, laid, second, hist, last, ahead, faults, ctl, ring, entry,
                     stream, phase, ctr, kda, bak, next, marked, tab, moved, flying, stg, laneRow, xrow>>
  BY DEF ReplyEarly, hostVars, devVars, storeVars
<1>1. jobs # <<>> /\ cphase = "reply"
  BY <1>0 DEF JobsInv
<1>2. Job.seq \in Nat \ {0}
  BY <1>1, JobInHand
<1>3. /\ words' \in WordsType /\ words'.err = words.err
      /\ words'.reply = IF words.reply < Job.seq THEN Job.seq ELSE words.reply
  <2>1. words \in WordsType
    BY DEF DeviceShape
  <2> QED BY <1>0, <1>2, <2>1 DEF WordsType
<1>k. UNCHANGED <<mode, calls, pc, call, laid, second, hist, last, ahead, faults, ctl, ring, entry,
                  stream, phase, ctr, kda, bak, next, marked, tab, moved, flying, stg, laneRow, xrow>>
  BY <1>0, Zenon
<1>4. /\ jobs' \in Seq(JobType) /\ results' \in Seq(BOOLEAN) /\ cphase' = "next"
      /\ Len(jobs') + Len(results') = Len(jobs) + Len(results)
      /\ Behind' = Job.seq /\ JobsInv'
      /\ FALSE \in Range(results) => FALSE \in Range(results')
  <2>1. ctl'.handed = ctl.handed
    BY <1>k
  <2> QED BY <1>0, <1>1, <2>1, AnsweredInv, Zenon
<1>5. HostShape'
  BY <1>k, HostKept
<1>6. DeviceShape'
  <2>1. Steps' = Steps
    BY <1>k DEF Steps
  <2> QED BY <1>k, <1>3, <2>1, Zenon DEF DeviceShape
<1>7. ThreadShape'
  <2>1. lane' \in Seq([q : Nat, rid : Nat])
    BY <1>0, <1>1, LaneShape
  <2>2. cphase' \in {"next", "read", "reply", "failed"}
    BY <1>4
  <2> QED BY <1>k, <1>4, <2>1, <2>2, Zenon DEF ThreadShape
<1>8. RowsInv'
  BY <1>k, <1>4, RowsKept, Zenon
<1>9. LaidInv' /\ StagerInv' /\ QueueInv'
  BY <1>k, QueueKept DEF LaidInv, StagerInv
<1>10. PaceInv'
  <2> SUFFICES ASSUME Sound' PROVE PaceInv'
    BY DEF PaceInv
  <2>1. Sound
    <3>1. ~ctl.poisoned /\ words.err = 0 /\ FALSE \notin Range(results')
      BY <1>k, <1>3 DEF Sound, JobFailed
    <3> QED BY <1>4, <3>1, Zenon DEF Sound, JobFailed
  <2>2. Job.seq = words.reply + 1 /\ Job.seq = ctr /\ words.reply \in Nat /\ Owed = {}
    BY <1>1, <2>1, AnswerNext
  <2>3. words'.reply = ctr /\ ctr = words.reply + 1 /\ Behind' = ctr /\ ctr \in Nat
    BY <1>2, <1>3, <1>4, <2>2
  <2>4. Owed' = {} /\ ctr' = ctr
    BY <1>k, <2>2 DEF Owed
  <2>5. pc' = "launch" => ctl'.queued + 1 <= words'.reply + Ahead
    <3>1. pc = "launch" => ctl.queued + 1 <= words.reply + Ahead
      BY <2>1 DEF PaceInv
    <3>2. ctl.queued \in Nat /\ Ahead \in Nat
      BY DeviceBehindHost, ControllerAssumption
    <3> QED BY <1>k, <2>2, <2>3, <3>1, <3>2
  <2> QED BY <2>3, <2>4, <2>5 DEF PaceInv
<1> QED BY <1>4, <1>5, <1>6, <1>7, <1>8, <1>9, <1>10

(* stager_idle and release_all behind a failed request. *)
LEMMA ReleaseAllInv == ASSUME RowInv, ReleaseAll PROVE RowInv'
<1> USE DEF RowInv, Shape
<1>0. /\ cphase = "failed" /\ words' = [words EXCEPT !.reply = Released, !.flag = Released]
      /\ cphase' = "next" /\ jobs' = Tail(jobs) /\ results' = Append(results, FALSE)
      /\ UNCHANGED <<mode, calls, pc, call, laid, second, hist, last, ahead, faults, ctl, ring, entry,
                     stream, phase, ctr, kda, bak, next, marked, tab, moved, flying, stg, lane, laneRow, xrow>>
  BY DEF ReleaseAll, hostVars, devVars, storeVars, laneVars
<1>1. jobs # <<>>
  BY <1>0 DEF JobsInv
<1>2. Tail(jobs) \in Seq(JobType) /\ Len(Tail(jobs)) = Len(jobs) - 1 /\ Len(jobs) \in Nat \ {0}
  BY <1>1, JobInHand
<1>3. words' \in WordsType
  <2>1. Released \in Nat
    BY ControllerAssumption DEF Released
  <2> QED BY <1>0, <2>1 DEF DeviceShape, WordsType
<1>k. UNCHANGED <<mode, calls, pc, call, laid, second, hist, last, ahead, faults, ctl, ring, entry,
                  stream, phase, ctr, kda, bak, next, marked, tab, moved, flying, stg, lane, laneRow, xrow>>
  BY <1>0, Zenon
<1>4. results' \in Seq(BOOLEAN) /\ Len(results') = Len(results) + 1 /\ FALSE \in Range(results')
  <2>1. results \in Seq(BOOLEAN) /\ FALSE \in BOOLEAN
    BY Zenon DEF ThreadShape
  <2> QED BY <1>0, <2>1, ResultAdded, Zenon
<1>5. HostShape'
  BY <1>k, HostKept
<1>6. DeviceShape'
  <2>1. Steps' = Steps
    BY <1>k DEF Steps
  <2> QED BY <1>k, <1>3, <2>1, Zenon DEF DeviceShape
<1>7. ThreadShape'
  <2>1. cphase' \in {"next", "read", "reply", "failed"} /\ jobs' \in Seq(JobType)
    BY <1>0, <1>2
  <2> QED BY <1>k, <1>4, <2>1, Zenon DEF ThreadShape
<1>8. RowsInv'
  <2>1. Len(jobs') = Len(jobs) - 1 /\ Len(results') = Len(results) + 1
    BY <1>0, <1>2, <1>4, Zenon
  <2>2. Len(results) \in Nat
    BY LenProperties DEF ThreadShape
  <2>3. Len(jobs') + Len(results') = Len(jobs) + Len(results)
    BY <1>2, <2>1, <2>2
  <2> QED BY <1>k, <2>3, RowsKept, Zenon
<1>9. LaidInv' /\ StagerInv' /\ QueueInv'
  BY <1>k, QueueKept DEF LaidInv, StagerInv
<1>10. JobsInv'
  <2>1. ctl'.handed = ctl.handed
    BY <1>k
  <2> QED BY <1>0, <1>1, <2>1, JobDropped, Zenon
<1>11. PaceInv'
  BY <1>4, Zenon DEF PaceInv, Sound, JobFailed
<1> QED BY <1>5, <1>6, <1>7, <1>8, <1>9, <1>10, <1>11

-----------------------------------------------------------------------------
(* The stager stream, the reads, the CPU lane.                               *)

(* A call off the front of the stager's. *)
LEMMA OwedTail ==
  ASSUME NEW s \in Seq(CallType), s # <<>>, NEW b \in Nat
  PROVE  /\ Tail(s) \in Seq(CallType) /\ Head(s) \in CallType /\ Head(s) = s[1]
         /\ \A i \in DOMAIN Tail(s) : i + 1 \in DOMAIN s /\ Tail(s)[i] = s[i + 1]
         /\ \A i \in OwedAt(Tail(s), b) : i + 1 \in OwedAt(s, b) /\ i \in Nat \ {0}
         /\ 1 \in OwedAt(s, b) <=> Head(s).q # 0 /\ Head(s).rid > b
<1>1. /\ Tail(s) \in Seq(CallType) /\ Head(s) \in CallType /\ Head(s) = s[1]
      /\ \A i \in DOMAIN Tail(s) : i + 1 \in DOMAIN s /\ Tail(s)[i] = s[i + 1] /\ i \in Nat \ {0}
      /\ 1 \in DOMAIN s
  OBVIOUS
<1> QED BY <1>1, Zenon DEF OwedAt

(* A call's copies; its reply, into the words of its own controller. *)
LEMMA StagerStepInv == ASSUME RowInv, StagerStep PROVE RowInv'
<1> USE DEF RowInv, Shape
<1> DEFINE c == Head(stg)
<1>0. /\ stg # <<>> /\ moved' = c.rid /\ stg' = Tail(stg)
      /\ tab' = (IF mode.early THEN tab ELSE [tab EXCEPT ![c.layer] = c.rid])
      /\ words' = (IF c.q # 0 /\ c.rid > ctl.base THEN [words EXCEPT !.reply = c.q] ELSE words)
      /\ UNCHANGED <<mode, calls, pc, call, laid, second, hist, last, ahead, faults, ctl, ring, entry,
                     stream, phase, ctr, kda, bak, next, marked, jobs, cphase, results, flying, lane, laneRow,
                     xrow>>
  BY DEF StagerStep, hostVars, devVars, jobVars, laneVars
<1>k. UNCHANGED <<mode, calls, pc, call, laid, second, hist, last, ahead, faults, ctl, ring, entry,
                  stream, phase, ctr, kda, bak, next, marked, jobs, cphase, results, flying, lane, laneRow,
                  xrow>>
  BY <1>0, Zenon
<1>1. stg \in Seq(CallType) /\ stg # <<>> /\ words \in WordsType /\ ctl.base \in Nat /\ tab \in [LayerIds -> Nat]
  BY <1>0, DeviceBehindHost DEF DeviceShape, ThreadShape
<1>2. /\ stg' \in Seq(CallType) /\ c \in CallType /\ c = stg[1]
      /\ \A i \in DOMAIN stg' : i + 1 \in DOMAIN stg /\ stg'[i] = stg[i + 1]
      /\ \A i \in OwedAt(stg', ctl.base) : i + 1 \in OwedAt(stg, ctl.base) /\ i \in Nat \ {0}
      /\ 1 \in OwedAt(stg, ctl.base) <=> c.q # 0 /\ c.rid > ctl.base
  <2>1. stg' = Tail(stg) /\ c = Head(stg)
    BY <1>0, Zenon
  <2>2. /\ Tail(stg) \in Seq(CallType) /\ Head(stg) \in CallType /\ Head(stg) = stg[1]
        /\ \A i \in DOMAIN Tail(stg) : i + 1 \in DOMAIN stg /\ Tail(stg)[i] = stg[i + 1]
        /\ \A i \in OwedAt(Tail(stg), ctl.base) : i + 1 \in OwedAt(stg, ctl.base) /\ i \in Nat \ {0}
        /\ 1 \in OwedAt(stg, ctl.base) <=> Head(stg).q # 0 /\ Head(stg).rid > ctl.base
    BY <1>1, OwedTail, Zenon
  <2> HIDE DEF c
  <2> QED BY <2>1, <2>2, Zenon
<1>3. c.q \in Nat /\ c.rid \in Nat
  BY <1>2 DEF CallType
<1>4. OwedAt(stg', ctl.base) = Owed' /\ OwedAt(stg, ctl.base) = Owed
  BY <1>k DEF Owed, OwedAt
<1> HIDE DEF c
<1>5. /\ words' \in WordsType /\ words'.err = words.err
      /\ words'.reply = IF c.q # 0 /\ c.rid > ctl.base THEN c.q ELSE words.reply
  BY <1>0, <1>1, <1>3 DEF WordsType
<1>6. HostShape'
  BY <1>k, HostKept
<1>7. DeviceShape'
  <2>1. Steps' = Steps
    BY <1>k DEF Steps
  <2> QED BY <1>k, <1>5, <2>1, Zenon DEF DeviceShape
<1>8. ThreadShape'
  <2>1. moved' \in Nat
    BY <1>0, <1>3, Zenon
  <2>2. tab' \in [LayerIds -> Nat]
    BY <1>0, <1>1, <1>3
  <2> QED BY <1>k, <1>2, <2>1, <2>2, Zenon DEF ThreadShape
<1>9. RowsInv' /\ LaidInv' /\ QueueInv'
  BY <1>k, QueueKept DEF RowsInv, LaidInv
<1>10. StagerInv'
  BY <1>k, <1>2 DEF StagerInv
<1>11. JobsInv'
  BY <1>k, JobsKept DEF DeviceShape
<1>12. PaceInv'
  <2> SUFFICES ASSUME Sound' PROVE PaceInv'
    BY DEF PaceInv
  <2>1. Sound /\ Behind' = Behind
    BY <1>k, <1>5 DEF Sound, JobFailed, Behind
  <2>n. words.reply \in Nat /\ ctr \in Nat /\ Behind \in Nat /\ ctl.queued \in Nat /\ Ahead \in Nat
    BY <1>1, DeviceBehindHost, BehindCounts, ControllerAssumption DEF WordsType
  <2>2. /\ words.reply <= ctr /\ ctr <= words.reply + 1 /\ words.reply <= Behind /\ Behind <= ctr
        /\ phase # "wait" => words.reply = ctr
        /\ \A i \in Owed : stg[i].q = Behind /\ Behind = words.reply + 1
        /\ \A i, j \in Owed : i = j
        /\ pc = "launch" => ctl.queued + 1 <= words.reply + Ahead
    BY <2>1 DEF PaceInv
  <2>3. CASE c.q # 0 /\ c.rid > ctl.base
    <3>1. 1 \in Owed
      BY <1>2, <1>4, <2>3
    <3>2. c.q = Behind /\ Behind = words.reply + 1
      BY <1>2, <2>2, <3>1
    <3>3. words'.reply = ctr /\ Behind = ctr /\ ctr = words.reply + 1
      BY <1>5, <2>n, <2>2, <2>3, <3>2
    <3>4. Owed' = {}
      <4>1. ASSUME NEW i \in Owed' PROVE FALSE
        <5>1. i + 1 \in Owed /\ i \in Nat \ {0}
          BY <1>2, <1>4
        <5>2. i + 1 = 1
          BY <2>2, <3>1, <5>1
        <5> QED BY <5>1, <5>2
      <4> QED BY <4>1
    <3>5. pc' = "launch" => ctl'.queued + 1 <= words'.reply + Ahead
      BY <1>k, <2>n, <2>2, <3>3
    <3>6. /\ words'.reply <= ctr' /\ ctr' <= words'.reply + 1 /\ words'.reply <= Behind' /\ Behind' <= ctr'
          /\ words'.reply = ctr'
      BY <1>k, <2>1, <2>n, <3>3
    <3> QED BY <3>4, <3>5, <3>6 DEF PaceInv
  <2>4. CASE ~(c.q # 0 /\ c.rid > ctl.base)
    <3>1. words'.reply = words.reply
      BY <1>5, <2>4
    <3>2. ASSUME NEW i \in Owed' PROVE i + 1 \in Owed /\ i \in Nat /\ stg'[i].q = Behind /\ Behind = words.reply + 1
      <4>1. i + 1 \in Owed /\ i \in Nat
        BY <1>2, <1>4
      <4>2. stg'[i] = stg[i + 1]
        BY <1>2 DEF Owed
      <4> QED BY <2>2, <4>1, <4>2
    <3>3. \A i, j \in Owed' : i = j
      <4>1. ASSUME NEW i \in Owed', NEW j \in Owed' PROVE i = j
        <5>1. i + 1 = j + 1 /\ i \in Nat /\ j \in Nat
          BY <2>2, <3>2
        <5> QED BY <5>1
      <4> QED BY <4>1
    <3> QED BY <1>k, <2>1, <2>2, <3>1, <3>2, <3>3 DEF PaceInv
  <2> QED BY <2>3, <2>4
<1> QED BY <1>6, <1>7, <1>8, <1>9, <1>10, <1>11, <1>12

(* A read lands. *)
LEMMA LandInv == ASSUME RowInv, NEW r, Land(r) PROVE RowInv'
<1> USE DEF RowInv, Shape
<1>0. /\ flying' = flying \ {r}
      /\ UNCHANGED <<mode, calls, pc, call, laid, second, hist, last, ahead, faults, ctl, words, ring, entry,
                     stream, phase, ctr, kda, bak, next, marked, jobs, cphase, results, tab, moved, stg, lane,
                     laneRow, xrow>>
  BY DEF Land, hostVars, devVars, jobVars, laneVars
<1>1. HostShape' /\ DeviceShape'
  BY <1>0, HostKept, DeviceKept
<1>2. ThreadShape'
  <2>1. flying' \in SUBSET Nat
    BY <1>0 DEF ThreadShape
  <2> QED BY <1>0, <2>1, Zenon DEF ThreadShape
<1>3. RowsInv' /\ LaidInv' /\ StagerInv' /\ QueueInv'
  BY <1>0, QueueKept DEF RowsInv, LaidInv, StagerInv
<1>4. JobsInv' /\ PaceInv'
  <2>1. JobsInv'
    BY <1>0, JobsKept DEF DeviceShape
  <2>2. PaceInv'
    BY <1>0, PaceKept DEF Sound, JobFailed
  <2> QED BY <2>1, <2>2
<1> QED BY <1>1, <1>2, <1>3, <1>4

(* LaneCtx::run: the flag is no word Ctl::pace looks at. *)
LEMMA LaneRunInv == ASSUME RowInv, LaneRun PROVE RowInv'
<1> USE DEF RowInv, Shape
<1> DEFINE j == Head(lane)
<1>0. /\ lane # <<>> /\ lane' = Tail(lane)
      /\ \/ /\ laneRow' = IF xrow = j.rid THEN j.rid ELSE 0
            /\ words' = [words EXCEPT !.flag = IF words.flag < j.q THEN j.q ELSE words.flag]
         \/ UNCHANGED <<laneRow, words>>
      /\ UNCHANGED <<mode, calls, pc, call, laid, second, hist, last, ahead, faults, ctl, ring, entry,
                     stream, phase, ctr, kda, bak, next, marked, jobs, cphase, results, tab, moved, flying, stg,
                     xrow>>
  BY DEF LaneRun, hostVars, devVars, jobVars, storeVars
<1>k. UNCHANGED <<mode, calls, pc, call, laid, second, hist, last, ahead, faults, ctl, ring, entry,
                  stream, phase, ctr, kda, bak, next, marked, jobs, cphase, results, tab, moved, flying, stg,
                  xrow>>
  BY <1>0, Zenon
<1>1. lane \in Seq([q : Nat, rid : Nat]) /\ laneRow \in Nat /\ words \in WordsType
  BY Zenon DEF DeviceShape, ThreadShape
<1>2. j \in [q : Nat, rid : Nat] /\ lane' \in Seq([q : Nat, rid : Nat])
  <2>1. lane # <<>> /\ lane' = Tail(lane)
    BY <1>0
  <2> QED BY <1>1, <2>1, HeadTail, Zenon
<1>3. j.q \in Nat /\ j.rid \in Nat
  BY <1>2
<1> HIDE DEF j
<1>4. laneRow' \in Nat
  BY <1>0, <1>1, <1>3
<1>5. words' \in WordsType /\ words'.err = words.err /\ words'.reply = words.reply
  BY <1>0, <1>1, <1>3 DEF WordsType
<1>6. HostShape'
  BY <1>k, HostKept
<1>7. DeviceShape'
  <2>1. Steps' = Steps
    BY <1>k DEF Steps
  <2> QED BY <1>k, <1>5, <2>1, Zenon DEF DeviceShape
<1>8. ThreadShape'
  BY <1>k, <1>2, <1>4, Zenon DEF ThreadShape
<1>9. RowsInv' /\ LaidInv' /\ StagerInv' /\ QueueInv'
  BY <1>k, QueueKept DEF RowsInv, LaidInv, StagerInv
<1>10. JobsInv' /\ PaceInv'
  <2>1. JobsInv'
    BY <1>k, JobsKept DEF DeviceShape
  <2>2. PaceInv'
    BY <1>k, <1>5, PaceKept DEF Sound, JobFailed
  <2> QED BY <2>1, <2>2
<1> QED BY <1>6, <1>7, <1>8, <1>9, <1>10

(* Nothing moves. *)
LEMMA StutterInv == ASSUME RowInv, UNCHANGED vars PROVE RowInv'
<1> USE DEF RowInv, Shape
<1>0. UNCHANGED <<mode, calls, pc, call, laid, second, hist, last, ahead, faults, ctl, words, ring, entry,
                  stream, phase, ctr, kda, bak, next, marked, jobs, cphase, results, tab, moved, flying, stg,
                  lane, laneRow, xrow>>
  BY DEF vars, hostVars, devVars, jobVars, storeVars, laneVars
<1>1. HostShape' /\ DeviceShape' /\ ThreadShape'
  BY <1>0, HostKept, DeviceKept, ThreadKept
<1>2. RowsInv' /\ LaidInv' /\ StagerInv' /\ QueueInv'
  BY <1>0, QueueKept DEF RowsInv, LaidInv, StagerInv
<1>3. JobsInv' /\ PaceInv'
  <2>1. JobsInv'
    BY <1>0, JobsKept DEF DeviceShape
  <2>2. PaceInv'
    BY <1>0, PaceKept DEF Sound, JobFailed
  <2> QED BY <2>1, <2>2
<1> QED BY <1>1, <1>2, <1>3

-----------------------------------------------------------------------------
(* What holds.                                                               *)

(* Every step of the controlled rows preserves the invariant. *)
LEMMA StepInv == RowInv /\ [Next]_vars => RowInv'
<1> SUFFICES ASSUME RowInv, [Next]_vars PROVE RowInv'
  OBVIOUS
<1>1. ASSUME NEW kind \in {"decode", "settle", "reset"}, NEW t \in Tokens, Call(kind, t) PROVE RowInv'
  BY <1>1, CallInv
<1>2. CASE NewSwitches
  BY <1>2, NewSwitchesInv
<1>3. CASE Host
  BY <1>3, FailInv, DropAheadInv, StartRowInv, PaceStepInv, PaceFailsInv, LaunchInv, HeadRowInv, JoinedInv, DrainInv
  DEF Host
<1>4. CASE Device
  BY <1>4, PublishInv, LayerStepInv, OtherLaunchInv DEF Device
<1>5. CASE Controls
  BY <1>5, SeeRequestInv, RequestLostInv, ServeInv, ReplyEarlyInv, ServeFailsInv, ReleaseAllInv DEF Controls
<1>6. CASE StagerStep \/ LaneRun
  BY <1>6, StagerStepInv, LaneRunInv
<1>7. ASSUME NEW r \in flying, Land(r) PROVE RowInv'
  BY <1>7, LandInv
<1>8. CASE UNCHANGED vars
  BY <1>8, StutterInv
<1> QED BY <1>1, <1>2, <1>3, <1>4, <1>5, <1>6, <1>7, <1>8 DEF Next

(* The host, the device and the threads agree on what is queued, published,    *)
(* answered and owed, in every reachable state.                                *)
THEOREM Invariance == Spec => []RowInv
<1>1. RowInv /\ [Next]_vars => RowInv'
  BY StepInv
<1> QED BY InitInv, <1>1, PTL DEF Spec

(* While no job has failed, a launch of the host never finds the queue full,   *)
(* so the host, the device and the controller never wait for one another.      *)
LEMMA RowStarvesNobody == RowInv => NeverStarved
<1> SUFFICES ASSUME RowInv, Sound, HostInDriver PROVE FALSE
  BY DEF NeverStarved, Starved, Sound
<1>1. /\ ctr \in Nat /\ ctl.queued \in Nat /\ Ahead \in Nat /\ QueueCap \in Nat /\ Ahead < QueueCap
      /\ words.reply \in Nat
  BY DeviceBehindHost, ControllerAssumption DEF RowInv, Shape, DeviceShape, WordsType
<1>2. LayersQueued \in Nat
  BY LayersFinite DEF LayersQueued, LayersAt, RowInv, Shape, DeviceShape
<1>3. ctl.queued + 1 <= words.reply + Ahead /\ words.reply <= ctr
  BY DEF RowInv, PaceInv, HostInDriver
<1>4. LayersQueued <= ctl.queued + 1 - ctr
  BY <1>1, <1>2 DEF RowInv, QueueInv
<1>5. LayersQueued >= QueueCap
  BY DEF HostInDriver
<1> QED BY <1>1, <1>2, <1>3, <1>4, <1>5

(* A controlled row never starves, whatever fails behind it. *)
THEOREM NobodyStarves == Spec => []NeverStarved
BY Invariance, RowStarvesNobody, PTL

-----------------------------------------------------------------------------
(* What the answers rest on: the order of the stream's launches, the ids the *)
(* recurrent state has seen, and whose copies, tables and CPU rows there are. *)

Active == pc \notin {"drain", "fail"}
TopIs(o) == stream # <<>> /\ stream[1].op = o
Heads == {i \in DOMAIN stream : stream[i].op = "head"}
\* Layers launched of the row ahead, once it is handed over.
AheadLaid == IF pc = "wait" THEN Layers ELSE laid

\* A row's input comes first or behind the backup of the row before; the backup
\* behind that row's head.
Ordered(s, la) ==
  /\ \A i \in DOMAIN s : s[i].op = "start" => i = 1 \/ (s[i].arg = None /\ s[i - 1].op = "backup")
  /\ \A i \in DOMAIN s : s[i].op = "backup" =>
       /\ i = 1 \/ s[i - 1].op = "head"
       /\ i + 1 \in DOMAIN s /\ s[i + 1].op = "start" /\ s[i + 1].arg = None
  /\ \A i \in DOMAIN s : s[i].op = "head" =>
       IF la THEN i + 1 \in DOMAIN s /\ s[i + 1].op = "backup" ELSE i = Len(s)

\* The stream, by where the host is.
StreamInv ==
  /\ Ordered(stream, mode.la)
  /\ \A g, h \in Heads : g = h
  /\ pc = "row" \/ (pc = "idle" /\ ahead = None) => stream = <<>>
  /\ Active /\ ~second /\ pc # "sync" => Heads = {}
  /\ Active /\ (second \/ pc = "sync") => (marked <=> Heads = {})
  /\ Active /\ second => \A h \in Heads :
       /\ Len(stream) = h + 2 + AheadLaid
       /\ \A i \in DOMAIN stream : i > h + 2 => stream[i].op = "layer"
  /\ pc = "head" => ~second

\* The row ahead's job neither fails nor ends before the row's head has run.
HandInv ==
  /\ ctl.cancel => ctl.poisoned
  /\ \A i \in DOMAIN jobs : jobs[i].left <= Layers
  /\ second /\ ~marked /\ Active /\ results # <<>> /\ results[1] => cphase = "next" /\ Len(results) = 1

\* The ids the state has seen when the row in hand has run; the state to go back to.
Cur == IF TopIs("start") THEN Append(kda.toks, IF stream[1].arg = None THEN next ELSE stream[1].arg)
       ELSE IF TopIs("backup") THEN Append(kda.toks, next) ELSE kda.toks
Base == IF TopIs("backup") THEN kda ELSE bak
Held == Append(hist, call.tok)
Exactly(h) == [toks |-> h, ok |-> TRUE]
\* The row in hand has not failed; the row ahead may have.
Acc == ~ctl.poisoned /\ words.err = 0 /\ (results # <<>> => results[1])

TokInv ==
  /\ last # None => last = Greedy(hist)
  /\ pc = "row" \/ (pc = "idle" /\ ahead = None) => kda = Exactly(hist)
  /\ pc \in {"pace", "launch"} /\ ~second => Cur = Held
  /\ pc \in {"head", "sync"} => Cur = Held
  /\ second /\ Active /\ ~marked => Cur = Held
  /\ pc = "sync" /\ marked /\ Acc => next = Greedy(Held)
  /\ second /\ Active /\ marked =>
       /\ Cur = Append(Held, next) /\ Base.toks = Held
       /\ Acc => Base.ok /\ next = Greedy(Held)
  /\ ahead # None => Cur = Append(hist, next) /\ next = ahead /\ ahead = last
  /\ ahead # None \/ pc = "drop" => Base = Exactly(hist)
  /\ Active /\ pc # "drop" /\ Sound => kda.ok

\* Requests the thread has served or dropped.
Served == Behind + (IF cphase = "reply" THEN 1 ELSE 0)

StoreInv ==
  /\ moved <= ctl.base + Served
  /\ \A r \in flying : r <= ctl.base + Served
  /\ \A i \in DOMAIN stg : stg[i].rid <= ctl.base + Served /\ moved < stg[i].rid
  /\ \A i, j \in DOMAIN stg : i < j => stg[i].rid < stg[j].rid
  /\ \A i \in Owed : stg[i].rid = Rid(stg[i].q)
  /\ cphase = "reply" => mode.early /\ entry[Slot(Job.seq)] = [seq |-> Job.seq, late |-> TRUE]
  /\ phase # "publish" => ring[Slot(ctr)] = [seq |-> ctr, layer |-> Top.arg] /\ (mode.lane => xrow = Q)

Copied == moved >= Q \/ \E i \in DOMAIN stg : stg[i].rid = Q

\* While no job failed: what the device's step reads once it may.
AnsInv ==
  Sound /\ phase # "publish" =>
    /\ \A i \in Owed : stg[i].layer = Top.arg
    /\ mode.early /\ Served >= ctr => Mine /\ tab[Top.arg] = Q /\ Copied
    /\ words.reply >= ctr =>
         IF mode.early THEN entry[Slot(ctr)].late \/ (Q \notin flying /\ moved >= Q)
                       ELSE tab[Top.arg] = Q /\ moved >= Q
    /\ phase = "experts" /\ mode.early /\ Named => moved >= Q

LaneInv ==
  Sound /\ ctl.handed > 0 /\ mode.lane =>
    /\ words.flag <= Behind
    /\ phase = "publish" => lane = <<>>
    /\ phase # "publish" =>
         IF words.flag = ctr THEN lane = <<>> /\ laneRow = Q
         ELSE lane = IF Behind >= ctr THEN <<[q |-> ctr, rid |-> Q]>> ELSE <<>>

DataInv == StreamInv /\ HandInv /\ TokInv /\ StoreInv /\ AnsInv /\ LaneInv

-----------------------------------------------------------------------------
(* The order of a stream's launches.                                         *)

(* The first one done. *)
LEMMA OrderedTail ==
  ASSUME NEW s \in Seq(StreamOps), s # <<>>, NEW la \in BOOLEAN, Ordered(s, la)
  PROVE  Ordered(Tail(s), la)
<1> DEFINE t == Tail(s)
<1>1. /\ Len(s) \in Nat \ {0} /\ Len(t) = Len(s) - 1
      /\ DOMAIN s = 1 .. Len(s) /\ DOMAIN t = 1 .. Len(s) - 1 /\ \A i \in 1 .. Len(s) - 1 : t[i] = s[i + 1]
  BY HeadTail
<1> HIDE DEF t
<1>2. \A i \in DOMAIN t : i + 1 \in DOMAIN s /\ i + 1 # 1 /\ t[i] = s[i + 1] /\ (i # 1 => t[i - 1] = s[i])
  BY <1>1
<1>3. \A i \in DOMAIN t : t[i].op = "start" => i = 1 \/ (t[i].arg = None /\ t[i - 1].op = "backup")
  <2> SUFFICES ASSUME NEW i \in DOMAIN t, t[i].op = "start", i # 1 PROVE t[i].arg = None /\ t[i - 1].op = "backup"
    OBVIOUS
  <2>1. i \in Int /\ (i + 1) - 1 = i
    BY <1>1
  <2>2. s[i + 1].arg = None /\ s[(i + 1) - 1].op = "backup"
    BY <1>2 DEF Ordered
  <2> QED BY <1>2, <2>1, <2>2
<1>4. \A i \in DOMAIN t : t[i].op = "backup" =>
        /\ i = 1 \/ t[i - 1].op = "head"
        /\ i + 1 \in DOMAIN t /\ t[i + 1].op = "start" /\ t[i + 1].arg = None
  <2> SUFFICES ASSUME NEW i \in DOMAIN t, t[i].op = "backup"
               PROVE  /\ i = 1 \/ t[i - 1].op = "head"
                      /\ i + 1 \in DOMAIN t /\ t[i + 1].op = "start" /\ t[i + 1].arg = None
    OBVIOUS
  <2>1. i \in Int /\ (i + 1) - 1 = i
    BY <1>1
  <2>2. /\ s[(i + 1) - 1].op = "head"
        /\ (i + 1) + 1 \in DOMAIN s /\ s[(i + 1) + 1].op = "start" /\ s[(i + 1) + 1].arg = None
    BY <1>2 DEF Ordered
  <2>3. i + 1 \in DOMAIN t
    BY <1>1, <2>2
  <2> QED BY <1>2, <2>1, <2>2, <2>3
<1>5. \A i \in DOMAIN t : t[i].op = "head" =>
        IF la THEN i + 1 \in DOMAIN t /\ t[i + 1].op = "backup" ELSE i = Len(t)
  <2> SUFFICES ASSUME NEW i \in DOMAIN t, t[i].op = "head"
               PROVE  IF la THEN i + 1 \in DOMAIN t /\ t[i + 1].op = "backup" ELSE i = Len(t)
    OBVIOUS
  <2>1. IF la THEN (i + 1) + 1 \in DOMAIN s /\ s[(i + 1) + 1].op = "backup" ELSE i + 1 = Len(s)
    BY <1>2 DEF Ordered
  <2>2. CASE la
    <3>1. i + 1 \in DOMAIN t
      BY <1>1, <2>1, <2>2
    <3> QED BY <1>2, <2>1, <2>2, <3>1
  <2>3. CASE ~la
    BY <1>1, <2>1, <2>3
  <2> QED BY <2>2, <2>3
<1> QED BY <1>3, <1>4, <1>5 DEF Ordered, t

(* One more at the end, neither an input nor a backup. *)
LEMMA OrderedAppend ==
  ASSUME NEW s \in Seq(StreamOps), NEW x \in StreamOps, NEW la \in BOOLEAN, Ordered(s, la),
         x.op \in {"layer", "head"}, x.op = "head" => ~la,
         la \/ \A i \in DOMAIN s : s[i].op # "head"
  PROVE  Ordered(Append(s, x), la)
<1> DEFINE t == Append(s, x)
<1>1. /\ Len(s) \in Nat /\ Len(t) = Len(s) + 1 /\ DOMAIN s = 1 .. Len(s) /\ DOMAIN t = 1 .. Len(s) + 1
      /\ t[Len(s) + 1] = x /\ \A i \in 1 .. Len(s) : t[i] = s[i]
  OBVIOUS
<1> HIDE DEF t
<1>2. \A i \in DOMAIN t : \/ i \in DOMAIN s /\ t[i] = s[i] /\ (i # 1 => i - 1 \in DOMAIN s /\ t[i - 1] = s[i - 1])
                          \/ i = Len(t) /\ t[i] = x
  BY <1>1
<1>3. \A i \in DOMAIN s : i + 1 \in DOMAIN s => i + 1 \in DOMAIN t /\ t[i + 1] = s[i + 1]
  BY <1>1
<1>4. \A i \in DOMAIN t : t[i].op = "start" => i = 1 \/ (t[i].arg = None /\ t[i - 1].op = "backup")
  BY <1>2, SMTT(30) DEF Ordered
<1>5. \A i \in DOMAIN t : t[i].op = "backup" =>
        /\ i = 1 \/ t[i - 1].op = "head"
        /\ i + 1 \in DOMAIN t /\ t[i + 1].op = "start" /\ t[i + 1].arg = None
  <2> SUFFICES ASSUME NEW i \in DOMAIN t, t[i].op = "backup"
               PROVE  /\ i = 1 \/ t[i - 1].op = "head"
                      /\ i + 1 \in DOMAIN t /\ t[i + 1].op = "start" /\ t[i + 1].arg = None
    OBVIOUS
  <2>1. i \in DOMAIN s /\ s[i].op = "backup" /\ (i # 1 => t[i - 1] = s[i - 1])
    BY <1>2
  <2>2. i + 1 \in DOMAIN s /\ s[i + 1].op = "start" /\ s[i + 1].arg = None /\ (i # 1 => s[i - 1].op = "head")
    BY <2>1 DEF Ordered
  <2> QED BY <1>3, <2>1, <2>2, Zenon
<1>6. \A i \in DOMAIN t : t[i].op = "head" =>
        IF la THEN i + 1 \in DOMAIN t /\ t[i + 1].op = "backup" ELSE i = Len(t)
  <2> SUFFICES ASSUME NEW i \in DOMAIN t, t[i].op = "head"
               PROVE  IF la THEN i + 1 \in DOMAIN t /\ t[i + 1].op = "backup" ELSE i = Len(t)
    OBVIOUS
  <2>1. CASE i = Len(t) /\ t[i] = x
    BY <2>1
  <2>2. CASE i \in DOMAIN s /\ t[i] = s[i]
    <3>1. la
      BY <2>2
    <3>2. i + 1 \in DOMAIN s /\ s[i + 1].op = "backup"
      BY <2>2, <3>1 DEF Ordered
    <3>3. i + 1 \in DOMAIN t /\ t[i + 1] = s[i + 1]
      BY <1>3, <2>2, <3>2, Zenon
    <3> QED BY <3>1, <3>2, <3>3
  <2> QED BY <1>2, <2>1, <2>2
<1> QED BY <1>4, <1>5, <1>6 DEF Ordered, t

\* The launches behind a row with the lookahead.
RowAhead == <<[op |-> "head", arg |-> 0], [op |-> "backup", arg |-> 0], [op |-> "start", arg |-> None]>>

(* Where they come to stand. *)
LEMMA AheadJoined ==
  ASSUME NEW s \in Seq(StreamOps), NEW t, t = s \o RowAhead
  PROVE  /\ Len(s) \in Nat /\ Len(t) = Len(s) + 3 /\ DOMAIN s = 1 .. Len(s) /\ DOMAIN t = 1 .. Len(s) + 3
         /\ \A i \in 1 .. Len(s) : t[i] = s[i]
         /\ t[Len(s) + 1].op = "head" /\ t[Len(s) + 2].op = "backup"
         /\ t[Len(s) + 3].op = "start" /\ t[Len(s) + 3].arg = None
<1>1. RowAhead \in Seq(StreamOps) /\ Len(RowAhead) = 3
  BY DEF RowAhead, StreamOps
<1>2. /\ RowAhead[1].op = "head" /\ RowAhead[2].op = "backup" /\ RowAhead[3].op = "start" /\ RowAhead[3].arg = None
  BY DEF RowAhead
<1>0. PICK r \in Seq(StreamOps) : r = RowAhead /\ Len(r) = 3
  BY <1>1
<1>5. t = s \o r
  BY <1>0, Zenon
<1>6. /\ Len(s) \in Nat /\ Len(t) = Len(s) + Len(r) /\ DOMAIN s = 1 .. Len(s) /\ DOMAIN t = 1 .. Len(s) + Len(r)
      /\ \A i \in 1 .. Len(s) + Len(r) : t[i] = IF i <= Len(s) THEN s[i] ELSE r[i - Len(s)]
  BY <1>5
<1>3. /\ Len(s) \in Nat /\ Len(t) = Len(s) + 3 /\ DOMAIN s = 1 .. Len(s) /\ DOMAIN t = 1 .. Len(s) + 3
      /\ \A i \in 1 .. Len(s) + 3 : t[i] = IF i <= Len(s) THEN s[i] ELSE RowAhead[i - Len(s)]
  BY <1>0, <1>6
<1>4. t[Len(s) + 1] = RowAhead[1] /\ t[Len(s) + 2] = RowAhead[2] /\ t[Len(s) + 3] = RowAhead[3]
  BY <1>3
<1> QED BY <1>2, <1>3, <1>4

(* The row ahead launched behind a row: its backup behind the head, its input behind that. *)
LEMMA OrderedAhead ==
  ASSUME NEW s \in Seq(StreamOps), NEW la \in BOOLEAN, la, Ordered(s, la), NEW t, t = s \o RowAhead
  PROVE  Ordered(t, la)
<1>1. /\ Len(s) \in Nat /\ Len(t) = Len(s) + 3 /\ DOMAIN s = 1 .. Len(s) /\ DOMAIN t = 1 .. Len(s) + 3
      /\ \A i \in 1 .. Len(s) : t[i] = s[i]
      /\ t[Len(s) + 1].op = "head" /\ t[Len(s) + 2].op = "backup"
      /\ t[Len(s) + 3].op = "start" /\ t[Len(s) + 3].arg = None
  BY AheadJoined
<1>2. \A i \in DOMAIN t : \/ i \in DOMAIN s /\ t[i] = s[i] /\ (i # 1 => i - 1 \in DOMAIN s /\ t[i - 1] = s[i - 1])
                          \/ i = Len(s) + 1 \/ i = Len(s) + 2 \/ i = Len(s) + 3
  BY <1>1
<1>3. \A i \in DOMAIN s : i + 1 \in DOMAIN s => i + 1 \in DOMAIN t /\ t[i + 1] = s[i + 1]
  BY <1>1
<1>4. (Len(s) + 2) - 1 = Len(s) + 1 /\ (Len(s) + 3) - 1 = Len(s) + 2 /\ (Len(s) + 2) + 1 = Len(s) + 3
      /\ (Len(s) + 1) + 1 = Len(s) + 2 /\ Len(s) + 2 \in DOMAIN t /\ Len(s) + 3 \in DOMAIN t
  BY <1>1
<1>5. \A i \in DOMAIN t : t[i].op = "start" => i = 1 \/ (t[i].arg = None /\ t[i - 1].op = "backup")
  BY <1>1, <1>2, <1>4, SMTT(30) DEF Ordered
<1>6. \A i \in DOMAIN t : t[i].op = "backup" =>
        /\ i = 1 \/ t[i - 1].op = "head"
        /\ i + 1 \in DOMAIN t /\ t[i + 1].op = "start" /\ t[i + 1].arg = None
  <2> SUFFICES ASSUME NEW i \in DOMAIN t, t[i].op = "backup"
               PROVE  /\ i = 1 \/ t[i - 1].op = "head"
                      /\ i + 1 \in DOMAIN t /\ t[i + 1].op = "start" /\ t[i + 1].arg = None
    OBVIOUS
  <2>1. CASE i \in DOMAIN s /\ t[i] = s[i] /\ (i # 1 => t[i - 1] = s[i - 1])
    <3>1. i + 1 \in DOMAIN s /\ s[i + 1].op = "start" /\ s[i + 1].arg = None /\ (i # 1 => s[i - 1].op = "head")
      BY <2>1 DEF Ordered
    <3> QED BY <1>3, <2>1, <3>1, Zenon
  <2>2. CASE i = Len(s) + 2
    BY <1>1, <1>4, <2>2, Zenon
  <2>3. i # Len(s) + 1 /\ i # Len(s) + 3
    BY <1>1, Zenon
  <2> QED BY <1>2, <2>1, <2>2, <2>3
<1>7. \A i \in DOMAIN t : t[i].op = "head" =>
        IF la THEN i + 1 \in DOMAIN t /\ t[i + 1].op = "backup" ELSE i = Len(t)
  <2> SUFFICES ASSUME NEW i \in DOMAIN t, t[i].op = "head" PROVE i + 1 \in DOMAIN t /\ t[i + 1].op = "backup"
    OBVIOUS
  <2>1. CASE i \in DOMAIN s /\ t[i] = s[i] /\ (i # 1 => t[i - 1] = s[i - 1])
    <3>1. i + 1 \in DOMAIN s /\ s[i + 1].op = "backup"
      BY <2>1 DEF Ordered
    <3>2. i + 1 \in DOMAIN t /\ t[i + 1] = s[i + 1]
      BY <1>3, <2>1, <3>1, Zenon
    <3> QED BY <3>1, <3>2
  <2>2. CASE i = Len(s) + 1
    BY <1>1, <1>4, <2>2, Zenon
  <2>3. i # Len(s) + 2 /\ i # Len(s) + 3
    BY <1>1, Zenon
  <2> QED BY <1>2, <2>1, <2>2, <2>3
<1> QED BY <1>5, <1>6, <1>7 DEF Ordered

(* What follows the first launch. *)
LEMMA SecondLaunch ==
  ASSUME NEW s \in Seq(StreamOps), s # <<>>, NEW la \in BOOLEAN, Ordered(s, la)
  PROVE  /\ s[1].op \in {"start", "layer"} => (2 \in DOMAIN s => s[2].op \notin {"start", "backup"})
         /\ s[1].op = "backup" => 2 \in DOMAIN s /\ s[2].op = "start" /\ s[2].arg = None
         /\ s[1].op = "head" => IF la THEN 2 \in DOMAIN s /\ s[2].op = "backup" ELSE Len(s) = 1
<1>1. 1 \in DOMAIN s /\ 2 - 1 = 1 /\ 1 + 1 = 2 /\ 2 # 1
  BY HeadTail
<1>a. 2 \in DOMAIN s /\ s[2].op = "start" => s[2 - 1].op = "backup"
  BY <1>1, Zenon DEF Ordered
<1>b. 2 \in DOMAIN s /\ s[2].op = "backup" => s[2 - 1].op = "head"
  BY <1>1, Zenon DEF Ordered
<1>2. s[1].op \in {"start", "layer"} /\ 2 \in DOMAIN s => s[2].op \notin {"start", "backup"}
  BY <1>1, <1>a, <1>b
<1>3. s[1].op = "backup" => 2 \in DOMAIN s /\ s[2].op = "start" /\ s[2].arg = None
  BY <1>1 DEF Ordered
<1>4. s[1].op = "head" => IF la THEN 2 \in DOMAIN s /\ s[2].op = "backup" ELSE Len(s) = 1
  <2>1. s[1].op = "head" => IF la THEN 1 + 1 \in DOMAIN s /\ s[1 + 1].op = "backup" ELSE 1 = Len(s)
    BY <1>1, Zenon DEF Ordered
  <2> QED BY <1>1, <2>1
<1> QED BY <1>2, <1>3, <1>4

-----------------------------------------------------------------------------
(* The stream's shape, launch by launch.                                     *)

(* What the stream and the run's switches hold. *)
LEMMA StreamTyped ==
  ASSUME RowInv
  PROVE  /\ stream \in Seq(StreamOps) /\ Len(stream) \in Nat /\ DOMAIN stream = 1 .. Len(stream)
         /\ mode.la \in BOOLEAN /\ mode.lane \in BOOLEAN /\ mode.early \in BOOLEAN
         /\ marked \in BOOLEAN /\ second \in BOOLEAN /\ laid \in Nat
<1>1. stream \in Seq(StreamOps) /\ marked \in BOOLEAN /\ second \in BOOLEAN /\ laid \in 0 .. Layers
      /\ mode \in [early : BOOLEAN, la : BOOLEAN, lane : BOOLEAN]
  BY DEF RowInv, Shape, DeviceShape, HostShape
<1> QED BY <1>1

(* A launch done: the heads behind it move up by one. *)
LEMMA HeadsPopped ==
  ASSUME RowInv, StreamInv, stream # <<>>, stream' = Tail(stream)
  PROVE  /\ Len(stream') = Len(stream) - 1 /\ DOMAIN stream' = 1 .. Len(stream) - 1
         /\ \A i \in 1 .. Len(stream) - 1 : stream'[i] = stream[i + 1]
         /\ \A h \in Heads' : h + 1 \in Heads /\ h \in Nat \ {0}
         /\ Top.op = "head" => Heads' = {} /\ Heads # {}
         /\ Top.op # "head" => (Heads = {} <=> Heads' = {})
         /\ Top = stream[1] /\ Top \in StreamOps
<1>1. /\ Len(stream) \in Nat \ {0} /\ Len(stream') = Len(stream) - 1
      /\ DOMAIN stream = 1 .. Len(stream) /\ DOMAIN stream' = 1 .. Len(stream) - 1
      /\ \A i \in 1 .. Len(stream) - 1 : stream'[i] = stream[i + 1]
      /\ Top = stream[1] /\ Top \in StreamOps
  BY StreamTyped, HeadTail, Zenon DEF Top
<1>2. \A h \in Heads' : h + 1 \in Heads /\ h \in Nat \ {0}
  BY <1>1 DEF Heads
<1>3. ASSUME Top.op = "head" PROVE Heads' = {} /\ Heads # {}
  <2>1. 1 \in Heads
    BY <1>1, <1>3 DEF Heads
  <2>2. \A h \in Heads' : h + 1 = 1
    BY <1>2, <2>1 DEF StreamInv
  <2> QED BY <1>2, <2>1, <2>2
<1>4. ASSUME Top.op # "head", Heads # {} PROVE Heads' # {}
  <2>1. PICK h \in Heads : h \in DOMAIN stream /\ stream[h].op = "head"
    BY <1>4 DEF Heads
  <2>2. h # 1 /\ h \in Nat
    BY <1>1, <1>4, <2>1
  <2>3. h - 1 \in DOMAIN stream' /\ stream'[h - 1] = stream[h]
    BY <1>1, <2>1, <2>2
  <2> QED BY <2>1, <2>3 DEF Heads
<1>5. Heads = {} => Heads' = {}
  BY <1>2
<1> QED BY <1>1, <1>2, <1>3, <1>4, <1>5

(* A launch done. *)
LEMMA StreamPopped ==
  ASSUME RowInv, StreamInv, stream # <<>>, stream' = Tail(stream), UNCHANGED <<mode, pc, laid, second, ahead>>,
         marked' = IF Top.op = "head" THEN TRUE ELSE marked
  PROVE  StreamInv'
<1>1. stream \in Seq(StreamOps) /\ mode.la \in BOOLEAN /\ Len(stream) \in Nat /\ marked \in BOOLEAN /\ laid \in Nat
  BY StreamTyped
<1>2. /\ Len(stream') = Len(stream) - 1 /\ DOMAIN stream' = 1 .. Len(stream) - 1
      /\ \A i \in 1 .. Len(stream) - 1 : stream'[i] = stream[i + 1]
      /\ \A h \in Heads' : h + 1 \in Heads /\ h \in Nat \ {0}
      /\ Top.op = "head" => Heads' = {} /\ Heads # {}
      /\ Top.op # "head" => (Heads = {} <=> Heads' = {})
  BY HeadsPopped
<1>3. Ordered(stream', mode.la)
  BY <1>1, OrderedTail, Zenon DEF StreamInv
<1>4. \A g, h \in Heads' : g = h
  <2> SUFFICES ASSUME NEW g \in Heads', NEW h \in Heads' PROVE g = h
    OBVIOUS
  <2>1. g + 1 = h + 1
    BY <1>2 DEF StreamInv
  <2> QED BY <1>2, <2>1
<1>5. ~(pc = "row" \/ (pc = "idle" /\ ahead = None))
  BY DEF StreamInv
<1>6. Active' = Active /\ AheadLaid' = AheadLaid
  BY DEF Active, AheadLaid
<1>7. Active /\ ~second /\ pc # "sync" => Heads' = {}
  BY <1>2 DEF StreamInv
<1>8. Active /\ (second \/ pc = "sync") => (marked' <=> Heads' = {})
  <2>1. CASE Top.op = "head"
    BY <1>2, <2>1
  <2>2. CASE Top.op # "head"
    BY <1>2, <2>2 DEF StreamInv
  <2> QED BY <2>1, <2>2
<1>9. ASSUME Active, second, NEW h \in Heads'
      PROVE  /\ Len(stream') = h + 2 + AheadLaid
             /\ \A i \in DOMAIN stream' : i > h + 2 => stream'[i].op = "layer"
  <2>1. h + 1 \in Heads /\ h \in Nat
    BY <1>2
  <2>2. Len(stream) = (h + 1) + 2 + AheadLaid /\ \A i \in DOMAIN stream : i > (h + 1) + 2 => stream[i].op = "layer"
    BY <1>9, <2>1 DEF StreamInv
  <2>3. AheadLaid \in Nat
    BY <1>1, ControllerAssumption DEF AheadLaid
  <2>4. Len(stream') = h + 2 + AheadLaid
    BY <1>1, <1>2, <2>1, <2>2, <2>3
  <2>5. ASSUME NEW i \in DOMAIN stream', i > h + 2 PROVE stream'[i].op = "layer"
    <3>1. i + 1 \in 1 .. Len(stream) /\ i + 1 > (h + 1) + 2 /\ stream'[i] = stream[i + 1]
      BY <1>1, <1>2, <2>1, <2>5
    <3> QED BY <2>2, <3>1, StreamTyped
  <2> QED BY <2>4, <2>5
<1>10. pc = "head" => ~second
  BY DEF StreamInv
<1> QED BY <1>3, <1>4, <1>5, <1>6, <1>7, <1>8, <1>9, <1>10 DEF StreamInv

(* Nothing launched or done. *)
LEMMA StreamKept ==
  ASSUME StreamInv, UNCHANGED <<stream, mode, pc, laid, second, ahead, marked>>
  PROVE  StreamInv'
BY DEF StreamInv, Heads, Active, AheadLaid

(* No job ended or begun, and the head not taken back. *)
LEMMA HandKept ==
  ASSUME HandInv, UNCHANGED <<pc, second, jobs, results, cphase, ctl>>, marked => marked'
  PROVE  HandInv'
BY DEF HandInv, Active

(* A layer behind the others. *)
LEMMA StreamLaunch ==
  ASSUME RowInv, StreamInv, NEW x \in StreamOps, x.op = "layer", stream' = Append(stream, x),
         pc = "launch", laid < Layers, laid' = laid + 1,
         pc' = IF laid + 1 < Layers THEN "pace" ELSE IF second THEN "wait" ELSE "head",
         UNCHANGED <<mode, second, ahead, marked>>
  PROVE  StreamInv'
<1>1. stream \in Seq(StreamOps) /\ mode.la \in BOOLEAN /\ Len(stream) \in Nat /\ laid \in Nat /\ second \in BOOLEAN
      /\ Layers \in Nat
  BY StreamTyped, ControllerAssumption
<1>2. /\ Len(stream') = Len(stream) + 1 /\ DOMAIN stream = 1 .. Len(stream) /\ DOMAIN stream' = 1 .. Len(stream) + 1
      /\ \A i \in 1 .. Len(stream) : stream'[i] = stream[i]
      /\ stream'[Len(stream) + 1] = x
  BY <1>1
<1>3. Heads' = Heads
  <2>1. \A i \in DOMAIN stream' : (i \in DOMAIN stream /\ stream'[i] = stream[i]) \/ stream'[i] = x
    BY <1>2
  <2>2. \A i \in DOMAIN stream : i \in DOMAIN stream' /\ stream'[i] = stream[i]
    BY <1>2
  <2> QED BY <2>1, <2>2 DEF Heads
<1>4. Active /\ Active' /\ pc' \in {"pace", "wait", "head"} /\ (pc' = "head" => ~second) /\ (pc' = "wait" => second)
  BY DEF Active
<1>5. Ordered(stream', mode.la)
  <2>1. mode.la \/ \A i \in DOMAIN stream : stream[i].op # "head"
    <3>1. second => mode.la
      BY DEF RowInv, RowsInv
    <3>2. ~second => Heads = {}
      BY <1>4 DEF StreamInv
    <3> QED BY <3>1, <3>2 DEF Heads
  <2>2. Ordered(stream, mode.la) /\ x.op \in {"layer", "head"} /\ (x.op = "head" => ~mode.la)
    BY DEF StreamInv
  <2> QED BY <1>1, <2>1, <2>2, OrderedAppend, Zenon
<1>6. ASSUME second, NEW h \in Heads
      PROVE  /\ Len(stream') = h + 2 + AheadLaid'
             /\ \A i \in DOMAIN stream' : i > h + 2 => stream'[i].op = "layer"
  <2>1. Len(stream) = h + 2 + laid /\ \A i \in DOMAIN stream : i > h + 2 => stream[i].op = "layer"
    BY <1>4, <1>6 DEF StreamInv, AheadLaid
  <2>2. h \in Nat
    BY <1>2 DEF Heads
  <2>3. AheadLaid' = laid + 1
    BY <1>1, <1>4 DEF AheadLaid
  <2>4. Len(stream') = h + 2 + AheadLaid'
    BY <1>1, <1>2, <2>1, <2>2, <2>3
  <2>5. \A i \in DOMAIN stream' : (i \in DOMAIN stream /\ stream'[i] = stream[i]) \/ stream'[i] = x
    BY <1>2
  <2> QED BY <2>1, <2>4, <2>5
<1>7. (second => (marked <=> Heads = {})) /\ (~second => Heads = {}) /\ \A g, h \in Heads : g = h
  BY <1>4 DEF StreamInv
<1> QED BY <1>3, <1>4, <1>5, <1>6, <1>7 DEF StreamInv

(* A call, a row or a result: the stream as it is. *)
LEMMA StreamHost ==
  ASSUME StreamInv, UNCHANGED <<stream, mode, marked>>,
         pc' = "row" \/ (pc' = "idle" /\ ahead' = None) => stream = <<>>,
         pc' = "head" => ~second',
         Active' => \/ Heads = {} /\ ~second' /\ pc' # "sync"
                    \/ Active /\ second' = second /\ AheadLaid' = AheadLaid /\ pc # "sync" /\ pc' # "sync"
  PROVE  StreamInv'
<1>1. Heads' = Heads
  BY DEF Heads
<1>2. /\ Ordered(stream', mode'.la)
      /\ \A g, h \in Heads' : g = h
      /\ pc' = "row" \/ (pc' = "idle" /\ ahead' = None) => stream' = <<>>
      /\ pc' = "head" => ~second'
  BY <1>1, Zenon DEF StreamInv
<1>3. CASE Heads = {} /\ ~second' /\ pc' # "sync"
  BY <1>1, <1>2, <1>3 DEF StreamInv
<1>4. CASE ~Active'
  BY <1>1, <1>2, <1>4 DEF StreamInv
<1>5. CASE Active /\ second' = second /\ AheadLaid' = AheadLaid /\ pc # "sync" /\ pc' # "sync"
  <2>1. (~second' => Heads' = {}) /\ (second' => (marked' <=> Heads' = {}))
    BY <1>1, <1>5 DEF StreamInv
  <2>2. second' => \A h \in Heads' :
          /\ Len(stream') = h + 2 + AheadLaid'
          /\ \A i \in DOMAIN stream' : i > h + 2 => stream'[i].op = "layer"
    BY <1>1, <1>5 DEF StreamInv
  <2> QED BY <1>2, <1>5, <2>1, <2>2 DEF StreamInv
<1> QED BY <1>3, <1>4, <1>5

(* The first launch of a row. *)
LEMMA StreamStarted ==
  ASSUME RowInv, StreamInv, pc = "row", pc' = "pace", NEW x \in StreamOps, x.op = "start",
         stream' = Append(stream, x), UNCHANGED <<mode, second>>
  PROVE  StreamInv'
<1>1. stream = <<>> /\ ~second
  BY DEF StreamInv, RowInv, RowsInv
<1>2. Len(stream') = 1 /\ DOMAIN stream' = {1} /\ stream'[1] = x
  BY <1>1
<1>3. Heads' = {}
  BY <1>2 DEF Heads
<1>4. Ordered(stream', mode'.la)
  BY <1>2 DEF Ordered
<1> QED BY <1>1, <1>3, <1>4 DEF StreamInv

(* The head behind its row, and what follows it with the lookahead. *)
LEMMA StreamHead == ASSUME RowInv, StreamInv, HeadRow PROVE StreamInv'
<1>0. pc = "head" /\ marked' = FALSE /\ UNCHANGED <<mode, ahead>>
  BY DEF HeadRow
<1>1. /\ stream \in Seq(StreamOps) /\ Len(stream) \in Nat /\ DOMAIN stream = 1 .. Len(stream)
      /\ mode.la \in BOOLEAN
  BY StreamTyped
<1>2. Heads = {} /\ ~second /\ Ordered(stream, mode.la)
  BY <1>0 DEF StreamInv, Active
<1>3. \A i \in 1 .. Len(stream) : stream[i].op # "head"
  BY <1>1, <1>2 DEF Heads
<1>4. CASE mode.la
  <2>1. second' = TRUE /\ pc' = "pace" /\ laid' = 0 /\ stream' = stream \o RowAhead
    BY <1>4 DEF HeadRow, Handed, RowAhead
  <2>2. /\ Len(stream') = Len(stream) + 3 /\ DOMAIN stream' = 1 .. Len(stream) + 3
        /\ \A i \in 1 .. Len(stream) : stream'[i] = stream[i]
        /\ stream'[Len(stream) + 1].op = "head" /\ stream'[Len(stream) + 2].op = "backup"
        /\ stream'[Len(stream) + 3].op = "start"
    BY <1>1, <2>1, AheadJoined, Zenon
  <2>3. Heads' = {Len(stream) + 1}
    <3>1. \A i \in DOMAIN stream' : \/ i \in 1 .. Len(stream) /\ stream'[i] = stream[i]
                                    \/ i = Len(stream) + 1 \/ i = Len(stream) + 2 \/ i = Len(stream) + 3
      BY <1>1, <2>2
    <3>2. ASSUME NEW i \in Heads' PROVE i = Len(stream) + 1
      <4>1. i \in DOMAIN stream' /\ stream'[i].op = "head"
        BY DEF Heads
      <4> QED BY <1>3, <2>2, <3>1, <4>1
    <3>3. Len(stream) + 1 \in DOMAIN stream'
      BY <1>1, <2>2
    <3> QED BY <2>2, <3>2, <3>3 DEF Heads
  <2>4. Ordered(stream', mode'.la)
    BY <1>0, <1>1, <1>2, <1>4, <2>1, OrderedAhead, Zenon
  <2>5. Len(stream') = (Len(stream) + 1) + 2 + AheadLaid'
    BY <1>1, <2>1, <2>2 DEF AheadLaid
  <2>6. \A i \in DOMAIN stream' : ~(i > (Len(stream) + 1) + 2)
    BY <1>1, <2>2
  <2> QED BY <1>0, <2>1, <2>3, <2>4, <2>5, <2>6 DEF StreamInv
<1>5. CASE ~mode.la
  <2> DEFINE x == [op |-> "head", arg |-> 0]
  <2>1. stream' = Append(stream, x) /\ pc' = "sync" /\ second' = second
    BY <1>5 DEF HeadRow
  <2>2. x \in StreamOps /\ x.op = "head"
    BY DEF StreamOps
  <2> HIDE DEF x
  <2>3. /\ Len(stream') = Len(stream) + 1 /\ DOMAIN stream' = 1 .. Len(stream) + 1
        /\ \A i \in 1 .. Len(stream) : stream'[i] = stream[i]
        /\ stream'[Len(stream) + 1] = x
    BY <1>1, <2>1, <2>2
  <2>4. Heads' = {Len(stream) + 1}
    <3>1. \A i \in DOMAIN stream' : (i \in 1 .. Len(stream) /\ stream'[i] = stream[i]) \/ i = Len(stream) + 1
      BY <1>1, <2>3
    <3>2. Len(stream) + 1 \in DOMAIN stream'
      BY <1>1, <2>3
    <3> QED BY <1>3, <2>2, <2>3, <3>1, <3>2 DEF Heads
  <2>5. Ordered(stream', mode'.la)
    <3>1. \A i \in DOMAIN stream : stream[i].op # "head"
      BY <1>1, <1>3
    <3> QED BY <1>0, <1>1, <1>2, <1>5, <2>1, <2>2, <3>1, OrderedAppend
  <2> QED BY <1>0, <1>2, <2>1, <2>4, <2>5 DEF StreamInv
<1> QED BY <1>4, <1>5

\* A call of the engine begins, or a step of one under way.
HostStep == (\E kind \in {"decode", "settle", "reset"}, t \in Tokens : Call(kind, t)) \/ NewSwitches \/ Host

(* The host keeps the order of the stream's launches. *)
LEMMA HostStream == ASSUME RowInv, StreamInv, HostStep PROVE StreamInv'
<1>r. RowsInv
  BY DEF RowInv
<1>1. ASSUME Fail PROVE StreamInv'
  <2>1. pc' = "idle" /\ second' = FALSE /\ stream = <<>> /\ UNCHANGED <<stream, mode, marked>>
    BY <1>1 DEF Fail, Returns
  <2>2. Heads = {}
    BY <2>1 DEF Heads
  <2> QED BY <2>1, <2>2, StreamHost
<1>2. ASSUME DropAhead PROVE StreamInv'
  <2>1. pc = "drop" /\ pc' \in {"idle", "row", "fail"} /\ stream = <<>> /\ UNCHANGED <<stream, mode, marked>>
        /\ (second' = FALSE \/ second' = second)
    BY <1>2 DEF DropAhead, Returns
  <2>2. Heads = {} /\ ~second'
    BY <1>r, <2>1 DEF Heads, RowsInv
  <2> QED BY <2>1, <2>2, StreamHost
<1>3. ASSUME StartRow PROVE StreamInv'
  <2> DEFINE x == [op |-> "start", arg |-> call.tok]
  <2>1. x \in StreamOps /\ x.op = "start"
    BY DEF StreamOps, RowInv, Shape, HostShape
  <2>2. pc = "row" /\ pc' = "pace" /\ stream' = Append(stream, x) /\ UNCHANGED <<mode, second>>
    BY <1>3 DEF StartRow, Handed
  <2> HIDE DEF x
  <2> QED BY <2>1, <2>2, StreamStarted
<1>4. ASSUME Pace PROVE StreamInv'
  <2>1. pc = "pace" /\ pc' = "launch" /\ UNCHANGED <<stream, mode, marked, second, laid>>
    BY <1>4 DEF Pace, devVars
  <2> QED BY <2>1, StreamHost DEF AheadLaid, Active
<1>5. ASSUME PaceFails PROVE StreamInv'
  <2>1. pc' = "drain" /\ UNCHANGED <<stream, mode, marked>>
    BY <1>5 DEF PaceFails, EnqueueFails, devVars
  <2> QED BY <2>1, StreamHost DEF Active
<1>6. ASSUME Launch PROVE StreamInv'
  <2> DEFINE x == [op |-> "layer", arg |-> laid + 1]
  <2>1. /\ pc = "launch" /\ laid' = laid + 1 /\ stream' = Append(stream, x)
        /\ pc' = IF laid + 1 < Layers THEN "pace" ELSE IF second THEN "wait" ELSE "head"
        /\ UNCHANGED <<mode, second, ahead, marked>>
    BY <1>6 DEF Launch, devVars
  <2>2. laid < Layers /\ laid \in 0 .. Layers
    BY <2>1 DEF RowInv, LaidInv, Shape, HostShape
  <2>3. x \in StreamOps /\ x.op = "layer"
    BY <2>2, ControllerAssumption DEF StreamOps, LayerIds
  <2> HIDE DEF x
  <2> QED BY <2>1, <2>2, <2>3, StreamLaunch
<1>7. ASSUME HeadRow PROVE StreamInv'
  BY <1>7, StreamHead
<1>8. ASSUME Joined PROVE StreamInv'
  <2>1. /\ (pc = "sync" /\ stream = <<>>) \/ (pc = "wait" /\ marked)
        /\ \/ pc' = "idle" /\ second' = FALSE /\ ahead' = (IF mode.la THEN next ELSE None)
           \/ pc' \in {"drain", "fail"}
        /\ UNCHANGED <<stream, mode, marked>>
    <3>1. (pc = "sync" /\ stream = <<>>) \/ (pc = "wait" /\ marked)
      BY <1>8 DEF Joined
    <3>2. UNCHANGED <<stream, mode, marked>>
      BY <1>8 DEF Joined, devVars
    <3>3. CASE Head(results) /\ words.err = 0
      BY <1>8, <3>1, <3>2, <3>3, Zenon DEF Joined, Returns
    <3>4. CASE ~(Head(results) /\ words.err = 0)
      <4>1. pc' = IF mode.la THEN "drain" ELSE "fail"
        BY <1>8, <3>4, Zenon DEF Joined
      <4> QED BY <3>1, <3>2, <4>1
    <3> QED BY <3>3, <3>4
  <2>2. next # None
    BY DEF RowInv, Shape, DeviceShape, Tokens, None
  <2>3. pc = "wait" => second /\ mode.la
    BY <1>r DEF RowsInv
  <2>4. Heads = {}
    <3>1. CASE stream = <<>>
      BY <3>1 DEF Heads
    <3>2. CASE pc = "wait" /\ marked
      BY <2>3, <3>2 DEF StreamInv, Active
    <3> QED BY <2>1, <3>1, <3>2
  <2> QED BY <2>1, <2>2, <2>3, <2>4, StreamHost DEF Active
<1>9. ASSUME Drain PROVE StreamInv'
  <2>1. pc' = "fail" /\ UNCHANGED <<stream, mode, marked>>
    BY <1>9 DEF Drain, devVars
  <2> QED BY <2>1, StreamHost DEF Active
<1>10. ASSUME NewSwitches PROVE StreamInv'
  BY <1>10, StreamKept DEF NewSwitches, hostVars
<1>11. ASSUME NEW kind \in {"decode", "settle", "reset"}, NEW t \in Tokens, Call(kind, t) PROVE StreamInv'
  <2>1. /\ pc = "idle" /\ second' = FALSE /\ ahead' = None /\ UNCHANGED <<stream, mode, marked>>
        /\ pc' \in {"fail", "head", "drop", "row"}
        /\ pc' = "row" => ahead = None
    BY <1>11 DEF Call, devVars
  <2>2. Heads = {}
    BY <1>r, <2>1 DEF StreamInv, Active, RowsInv
  <2>3. pc' = "row" => stream = <<>>
    BY <2>1 DEF StreamInv
  <2> QED BY <2>1, <2>2, <2>3, StreamHost
<1> QED BY <1>1, <1>2, <1>3, <1>4, <1>5, <1>6, <1>7, <1>8, <1>9, <1>10, <1>11 DEF HostStep, Host

(* So does the device. *)
LEMMA DeviceStream == ASSUME RowInv, StreamInv, Device PROVE StreamInv'
<1>1. ASSUME Publish PROVE StreamInv'
  BY <1>1, StreamKept DEF Publish, hostVars
<1>2. ASSUME LayerStep PROVE StreamInv'
  <2>1. /\ stream # <<>> /\ Top.op = "layer" /\ stream' \in {stream, Tail(stream)}
        /\ UNCHANGED <<mode, pc, laid, second, ahead, marked>>
    BY <1>2 DEF LayerStep, hostVars
  <2> QED BY <2>1, StreamKept, StreamPopped
<1>3. ASSUME OtherLaunch PROVE StreamInv'
  <2>1. /\ stream # <<>> /\ Top.op # "layer" /\ stream' = Tail(stream)
        /\ UNCHANGED <<mode, pc, laid, second, ahead>>
    BY <1>3 DEF OtherLaunch, hostVars
  <2>2. Top.op \in {"start", "layer", "head", "backup"}
    <3>1. Top \in StreamOps
      BY <2>1, HeadTail, StreamTyped DEF Top
    <3> QED BY <3>1 DEF StreamOps
  <2>3. marked' = IF Top.op = "head" THEN TRUE ELSE marked
    <3>1. CASE Top.op = "start"
      BY <1>3, <3>1 DEF OtherLaunch
    <3>2. CASE Top.op = "backup"
      BY <1>3, <3>2 DEF OtherLaunch
    <3>3. CASE Top.op = "head"
      BY <1>3, <3>3 DEF OtherLaunch
    <3> QED BY <2>1, <2>2, <3>1, <3>2, <3>3
  <2> QED BY <2>1, <2>3, StreamPopped
<1> QED BY <1>1, <1>2, <1>3 DEF Device

\* The threads and the stager stream.
ThreadStep == Controls \/ StagerStep \/ LaneRun \/ \E r \in flying : Land(r)

(* What they leave to the host and the device. *)
LEMMA ThreadLeaves ==
  ASSUME ThreadStep
  PROVE  UNCHANGED <<mode, calls, pc, call, laid, second, hist, last, ahead, ctl, ring, stream, phase, ctr,
                     kda, bak, next, marked, xrow>>
<1> USE DEF hostVars, devVars, laneVars
<1>1. ASSUME SeeRequest PROVE UNCHANGED <<hostVars, ctl, ring, stream, devVars, xrow>>
  BY <1>1 DEF SeeRequest
<1>2. ASSUME RequestLost PROVE UNCHANGED <<hostVars, ctl, ring, stream, devVars, xrow>>
  BY <1>2 DEF RequestLost
<1>3. ASSUME NEW s \in BOOLEAN, Serve(s) PROVE UNCHANGED <<hostVars, ctl, ring, stream, devVars, xrow>>
  BY <1>3 DEF Serve
<1>4. ASSUME ReplyEarly PROVE UNCHANGED <<hostVars, ctl, ring, stream, devVars, xrow>>
  BY <1>4 DEF ReplyEarly
<1>5. ASSUME ServeFails PROVE UNCHANGED <<hostVars, ctl, ring, stream, devVars, xrow>>
  BY <1>5 DEF ServeFails
<1>6. ASSUME ReleaseAll PROVE UNCHANGED <<hostVars, ctl, ring, stream, devVars, xrow>>
  BY <1>6 DEF ReleaseAll
<1>7. ASSUME StagerStep PROVE UNCHANGED <<hostVars, ctl, ring, stream, devVars, xrow>>
  BY <1>7 DEF StagerStep
<1>8. ASSUME LaneRun PROVE UNCHANGED <<hostVars, ctl, ring, stream, devVars, xrow>>
  BY <1>8 DEF LaneRun
<1>9. ASSUME NEW r \in flying, Land(r) PROVE UNCHANGED <<hostVars, ctl, ring, stream, devVars, xrow>>
  BY <1>9 DEF Land
<1> QED BY <1>1, <1>2, <1>3, <1>4, <1>5, <1>6, <1>7, <1>8, <1>9 DEF ThreadStep, Controls

(* The threads leave the stream alone. *)
LEMMA ThreadStream == ASSUME StreamInv, ThreadStep PROVE StreamInv'
BY ThreadLeaves, StreamKept

-----------------------------------------------------------------------------
(* The row ahead's job.                                                      *)

(* The first of the results stays the first. *)
LEMMA ResultFirst ==
  ASSUME NEW s \in Seq(BOOLEAN), NEW a \in BOOLEAN, NEW t, t = Append(s, a)
  PROVE  /\ t \in Seq(BOOLEAN) /\ t # <<>> /\ Len(t) = Len(s) + 1
         /\ s # <<>> => t[1] = s[1]
         /\ s = <<>> => t[1] = a /\ Len(t) = 1
<1> DEFINE B == BOOLEAN
<1>1. s \in Seq(B) /\ a \in B
  OBVIOUS
<1> HIDE DEF B
<1>2. t \in Seq(B) /\ t # <<>> /\ Len(t) = Len(s) + 1
  BY <1>1
<1>3. s # <<>> => t[1] = s[1]
  BY <1>1
<1>4. s = <<>> => t[1] = a /\ Len(t) = 1
  BY <1>1
<1> QED BY <1>2, <1>3, <1>4 DEF B

(* The places from one to another. *)
LEMMA SpanCount ==
  ASSUME NEW a \in Nat, NEW b \in Nat, NEW n \in Nat, b + 1 = a + n
  PROVE  IsFiniteSet(a .. b) /\ Cardinality(a .. b) = n
<1>1. IsFiniteSet(a .. b) /\ Cardinality(a .. b) = IF a > b THEN 0 ELSE b - a + 1
  BY FS_Interval
<1> QED BY <1>1

(* Layers of the row ahead follow the head that has not run: its requests are    *)
(* not published.                                                                *)
LEMMA AheadWaits ==
  ASSUME RowInv, StreamInv, Active, second, ~marked
  PROVE  ctr + Layers <= ctl.handed /\ stream # <<>> /\ pc \in {"pace", "launch", "wait"} /\ ~ctl.poisoned
<1>1. /\ stream \in Seq(StreamOps) /\ DOMAIN stream = 1 .. Len(stream) /\ Len(stream) \in Nat /\ laid \in Nat
      /\ Layers \in Nat
  BY StreamTyped, ControllerAssumption
<1>2. pc \in {"pace", "launch", "wait"} /\ ~ctl.poisoned
  <2>0. second => pc # "head"
    BY DEF StreamInv
  <2>1. pc \notin {"head", "idle", "row", "sync", "drop", "drain", "fail"}
    BY <2>0 DEF RowInv, RowsInv, Active
  <2> QED BY <2>1 DEF RowInv, Shape, HostShape, RowsInv
<1>3. PICK h \in Heads : /\ h \in DOMAIN stream /\ stream[h].op = "head"
                         /\ Len(stream) = h + 2 + AheadLaid
                         /\ \A i \in DOMAIN stream : i > h + 2 => stream[i].op = "layer"
  <2>1. Heads # {} /\ \A h \in Heads :
          /\ Len(stream) = h + 2 + AheadLaid
          /\ \A i \in DOMAIN stream : i > h + 2 => stream[i].op = "layer"
    BY DEF StreamInv
  <2> QED BY <2>1 DEF Heads
<1>4. AheadLaid \in Nat /\ h \in Nat \ {0} /\ h + 3 \in Int
  BY <1>1, <1>3 DEF AheadLaid
<1> DEFINE I == (h + 3) .. Len(stream)
<1>5. IsFiniteSet(I) /\ Cardinality(I) = AheadLaid
  <2>0. Len(stream) = h + 2 + AheadLaid
    BY <1>3
  <2>1. Len(stream) + 1 = (h + 3) + AheadLaid /\ h + 3 \in Nat
    BY <1>1, <1>4, <2>0
  <2> QED BY <1>1, <1>4, <2>1, SpanCount, Zenon
<1>6. I \subseteq LayersAt(stream) /\ 1 \notin I
  BY <1>1, <1>3, <1>4 DEF LayersAt
<1>7. IsFiniteSet(LayersAt(stream)) /\ LayersQueued = Cardinality(LayersAt(stream)) /\ LayersQueued \in Nat
  BY <1>1, LayersFinite DEF LayersQueued, LayersAt
<1>8. LayersQueued >= AheadLaid + (IF phase = "publish" THEN 0 ELSE 1)
  <2> HIDE DEF I
  <2>1. CASE phase = "publish"
    <3>1. Cardinality(I) <= Cardinality(LayersAt(stream))
      BY <1>6, <1>7, FS_Subset
    <3> QED BY <1>4, <1>5, <1>7, <2>1, <3>1
  <2>2. CASE phase # "publish"
    <3>1. 1 \in LayersAt(stream)
      <4>1. stream # <<>> /\ Head(stream).op = "layer"
        BY <2>2 DEF RowInv, QueueInv, Top
      <4> QED BY <1>1, <4>1 DEF LayersAt
    <3>2. Cardinality(I \cup {1}) = Cardinality(I) + 1 /\ IsFiniteSet(I \cup {1})
      BY <1>5, <1>6, FS_AddElement
    <3>3. I \cup {1} \subseteq LayersAt(stream)
      BY <1>6, <3>1
    <3>4. Cardinality(I \cup {1}) <= Cardinality(LayersAt(stream))
      BY <1>7, <3>3, FS_Subset
    <3> QED BY <1>4, <1>5, <1>7, <2>2, <3>2, <3>4
  <2> QED BY <2>1, <2>2
<1>9. ctr \in Nat /\ ctl.queued \in Nat /\ ctl.handed \in Nat
  BY DeviceBehindHost
<1>10. ctr + AheadLaid <= ctl.queued
  BY <1>4, <1>7, <1>8, <1>9 DEF RowInv, QueueInv
<1>11. ctl.queued + Layers = ctl.handed + AheadLaid
  <2>1. CASE pc \in {"pace", "launch"}
    BY <2>1 DEF RowInv, LaidInv, AheadLaid
  <2>2. CASE pc = "wait"
    <3>1. AheadLaid = Layers /\ ctl.queued = ctl.handed
      BY <1>2, <2>2 DEF RowInv, LaidInv, AheadLaid
    <3> QED BY <1>1, <1>9, <3>1
  <2> QED BY <1>2, <2>1, <2>2
<1>12. stream # <<>>
  BY <1>1, <1>3
<1> QED BY <1>1, <1>2, <1>4, <1>9, <1>10, <1>11, <1>12

(* The row ahead's job before the head has run: alone, and at no request yet. *)
LEMMA SecondJob ==
  ASSUME RowInv, StreamInv, HandInv, Active, second, ~marked, results # <<>>, jobs # <<>>
  PROVE  ctr < Job.seq /\ Len(jobs) = 1 /\ Len(results) = 1
<1>1. ctr + Layers <= ctl.handed /\ pc \in {"pace", "launch", "wait"}
  BY AheadWaits
<1>2. Len(jobs) + Len(results) = 2
  BY <1>1 DEF RowInv, RowsInv, Rows
<1>3. results \in Seq(BOOLEAN) /\ jobs \in Seq(JobType) /\ Job = jobs[1] /\ Job.seq \in Nat /\ Job.left \in Nat
      /\ Len(jobs) \in Nat \ {0}
  BY JobInHand DEF RowInv, Shape, ThreadShape
<1>4. Len(results) \in Nat \ {0}
  <2>1. results \in Seq(BOOLEAN)
    BY <1>3
  <2> QED BY <2>1, HeadTail, Zenon
<1>5. Len(jobs) = 1 /\ Len(results) = 1
  <2>1. Len(jobs) \in Nat \ {0}
    BY <1>3
  <2>2. \A a, b \in Nat \ {0} : a + b = 2 => a = 1 /\ b = 1
    OBVIOUS
  <2> QED BY <1>2, <1>4, <2>1, <2>2, Zenon
<1>6. 1 \in DOMAIN jobs
  BY <1>3
<1>7. Job.seq + Job.left = ctl.handed + 1 /\ Job.left <= Layers
  BY <1>3, <1>5, <1>6 DEF RowInv, JobsInv, HandInv
<1>8. ctr \in Nat /\ ctl.handed \in Nat /\ Layers \in Nat
  BY DeviceBehindHost, ControllerAssumption
<1> QED BY <1>1, <1>3, <1>5, <1>7, <1>8

(* A step of the host that leaves the row ahead's job alone. *)
LEMMA HandHost ==
  ASSUME HandInv, UNCHANGED <<jobs, cphase>>, ctl'.cancel => ctl'.poisoned,
         second' /\ ~marked' /\ Active' => second /\ ~marked /\ Active /\ results' = results
  PROVE  HandInv'
<1>1. \A i \in DOMAIN jobs' : jobs'[i].left <= Layers
  BY DEF HandInv
<1>2. second' /\ ~marked' /\ Active' /\ results' # <<>> /\ results'[1] => cphase' = "next" /\ Len(results') = 1
  BY DEF HandInv
<1> QED BY <1>1, <1>2 DEF HandInv

(* enqueue_ctl: a job of a row's layers, and a job that waits for its turn. *)
LEMMA HandedHand ==
  ASSUME RowInv, HandInv, Handed, UNCHANGED <<cphase, results>>, Len(jobs) + Len(results) <= 1
  PROVE  HandInv'
<1>1. ctl' = [ctl EXCEPT !.handed = ctl.handed + Layers, !.cancel = FALSE]
      /\ jobs' = Append(jobs, [seq |-> ctl.handed + 1, left |-> Layers])
  BY DEF Handed
<1>2. ctl \in CtlType /\ jobs \in Seq(JobType) /\ Layers \in Nat \ {0} /\ ctl.handed \in Nat
  BY DeviceBehindHost, ControllerAssumption DEF RowInv, Shape, HostShape, ThreadShape
<1>3. ctl'.cancel => ctl'.poisoned
  BY <1>1, <1>2 DEF CtlType
<1>4. \A i \in DOMAIN jobs' : jobs'[i].left <= Layers
  <2> DEFINE j == [seq |-> ctl.handed + 1, left |-> Layers]
  <2>1. j \in JobType /\ j.left <= Layers
    BY <1>2 DEF JobType
  <2> HIDE DEF j
  <2>2. jobs' = Append(jobs, j)
    BY <1>1 DEF j
  <2>3. \A i \in DOMAIN jobs' : (i \in DOMAIN jobs /\ jobs'[i] = jobs[i]) \/ jobs'[i] = j
    BY <1>2, <2>1, <2>2
  <2> QED BY <2>1, <2>3 DEF HandInv
<1>5. ASSUME results # <<>> PROVE cphase = "next" /\ Len(results) = 1
  <2>1. results \in Seq(BOOLEAN)
    BY DEF RowInv, Shape, ThreadShape
  <2>2. Len(results) \in Nat \ {0} /\ Len(jobs) \in Nat
    BY <1>2, <1>5, <2>1, HeadTail, LenProperties, Zenon
  <2>3. \A a \in Nat, b \in Nat \ {0} : a + b <= 1 => a = 0 /\ b = 1
    OBVIOUS
  <2>4. Len(jobs) = 0 /\ Len(results) = 1
    BY <2>2, <2>3, Zenon
  <2>5. jobs = <<>>
    BY <1>2, <2>4
  <2> QED BY <2>4, <2>5 DEF RowInv, JobsInv
<1>6. results' # <<>> /\ results'[1] => cphase' = "next" /\ Len(results') = 1
  BY <1>5, Zenon
<1> QED BY <1>3, <1>4, <1>6 DEF HandInv

(* The host hands over a row's job and gives it up; nothing else ends one. *)
LEMMA HostHand == ASSUME RowInv, StreamInv, HandInv, HostStep PROVE HandInv'
<1>r. RowsInv /\ ctl \in CtlType /\ (ctl.cancel => ctl.poisoned)
  BY DEF RowInv, Shape, HostShape, HandInv
<1>1. ASSUME Fail PROVE HandInv'
  <2>1. second' = FALSE /\ UNCHANGED <<jobs, cphase, ctl>>
    BY <1>1 DEF Fail, Returns, jobVars
  <2> QED BY <1>r, <2>1, HandHost
<1>2. ASSUME DropAhead PROVE HandInv'
  <2>1. pc = "drop" /\ (second' = FALSE \/ second' = second) /\ UNCHANGED <<jobs, cphase>>
    BY <1>2 DEF DropAhead, Returns
  <2>2. ~second'
    BY <1>r, <2>1 DEF RowsInv
  <2>3. PICK a \in BOOLEAN : ctl' = [ctl EXCEPT !.poisoned = a] /\ (ctl.poisoned => a)
    <3>1. ctl' = [ctl EXCEPT !.poisoned = ctl.poisoned \/ ~(Head(results) /\ words.err = 0)]
      BY <1>2 DEF DropAhead
    <3>2. (ctl.poisoned \/ ~(Head(results) /\ words.err = 0)) \in BOOLEAN
      BY Zenon
    <3> QED BY <3>1, <3>2, Zenon
  <2>4. ctl'.cancel => ctl'.poisoned
    BY <1>r, <2>3 DEF CtlType
  <2> QED BY <2>1, <2>2, <2>4, HandHost
<1>3. ASSUME StartRow PROVE HandInv'
  <2>1. pc = "row" /\ Handed /\ UNCHANGED <<cphase, results>>
    BY <1>3 DEF StartRow
  <2>2. Len(jobs) + Len(results) = 0
    BY <1>r, <2>1 DEF RowsInv, Rows
  <2>3. Len(jobs) + Len(results) <= 1
    BY <2>2
  <2> QED BY <2>1, <2>3, HandedHand
<1>4. ASSUME Pace PROVE HandInv'
  <2>1. UNCHANGED <<jobs, cphase, results, second, marked, ctl>> /\ pc = "pace"
    BY <1>4 DEF Pace, jobVars, devVars
  <2> QED BY <1>r, <2>1, HandHost DEF Active
<1>5. ASSUME PaceFails PROVE HandInv'
  <2>1. /\ pc' = "drain" /\ UNCHANGED <<jobs, cphase>>
        /\ ctl' = [ctl EXCEPT !.cancel = TRUE, !.poisoned = TRUE]
    BY <1>5 DEF PaceFails, EnqueueFails, jobVars
  <2>2. ctl'.cancel => ctl'.poisoned
    BY <1>r, <2>1 DEF CtlType
  <2> QED BY <2>1, <2>2, HandHost DEF Active
<1>6. ASSUME Launch PROVE HandInv'
  <2>1. /\ pc = "launch" /\ UNCHANGED <<jobs, cphase, results, second, marked>>
        /\ ctl' = [ctl EXCEPT !.queued = ctl.queued + 1]
    BY <1>6 DEF Launch, jobVars, devVars
  <2>2. ctl'.cancel => ctl'.poisoned
    BY <1>r, <2>1 DEF CtlType
  <2> QED BY <2>1, <2>2, HandHost DEF Active
<1>7. ASSUME HeadRow PROVE HandInv'
  <2>1. pc = "head" /\ UNCHANGED <<cphase, results>>
    BY <1>7 DEF HeadRow
  <2>2. CASE mode.la
    <3>1. Handed
      BY <1>7, <2>2 DEF HeadRow
    <3>2. Len(jobs) + Len(results) = 1
      BY <1>r, <2>1 DEF RowsInv, Rows
    <3>3. Len(jobs) + Len(results) <= 1
      BY <3>2
    <3> QED BY <2>1, <3>1, <3>3, HandedHand
  <2>3. CASE ~mode.la
    <3>1. UNCHANGED <<ctl, jobs, second>>
      BY <1>7, <2>3 DEF HeadRow
    <3>2. ~second
      BY <2>1 DEF StreamInv
    <3> QED BY <1>r, <2>1, <3>1, <3>2, HandHost
  <2> QED BY <2>2, <2>3
<1>8. ASSUME Joined PROVE HandInv'
  <2>1. UNCHANGED <<jobs, cphase>>
    BY <1>8 DEF Joined
  <2>2. second' = FALSE \/ ~Active'
    <3>1. CASE Head(results) /\ words.err = 0
      BY <1>8, <3>1, Zenon DEF Joined, Returns
    <3>2. CASE ~(Head(results) /\ words.err = 0)
      <4>1. pc' = IF mode.la THEN "drain" ELSE "fail"
        BY <1>8, <3>2, Zenon DEF Joined
      <4> QED BY <4>1 DEF Active
    <3> QED BY <3>1, <3>2
  <2>3. PICK a \in BOOLEAN : ctl' = [ctl EXCEPT !.poisoned = a] /\ (ctl.poisoned => a)
    <3>1. ctl' = [ctl EXCEPT !.poisoned = ctl.poisoned \/ ~(Head(results) /\ words.err = 0)]
      BY <1>8 DEF Joined
    <3>2. (ctl.poisoned \/ ~(Head(results) /\ words.err = 0)) \in BOOLEAN
      BY Zenon
    <3> QED BY <3>1, <3>2, Zenon
  <2>4. ctl'.cancel => ctl'.poisoned
    BY <1>r, <2>3 DEF CtlType
  <2> QED BY <2>1, <2>2, <2>4, HandHost
<1>9. ASSUME Drain PROVE HandInv'
  <2>1. UNCHANGED <<jobs, cphase, ctl>> /\ pc' = "fail"
    BY <1>9 DEF Drain
  <2> QED BY <1>r, <2>1, HandHost DEF Active
<1>10. ASSUME NewSwitches PROVE HandInv'
  <2>1. UNCHANGED <<jobs, cphase, results, pc, second>> /\ ctl'.cancel = FALSE /\ pc = "idle"
    BY <1>10 DEF NewSwitches, jobVars, hostVars
  <2>2. ~second
    BY <1>r, <2>1 DEF RowsInv
  <2> QED BY <2>1, <2>2, HandHost
<1>11. ASSUME NEW kind \in {"decode", "settle", "reset"}, NEW t \in Tokens, Call(kind, t) PROVE HandInv'
  <2>1. second' = FALSE /\ UNCHANGED <<jobs, cphase, ctl>>
    BY <1>11 DEF Call, jobVars
  <2> QED BY <1>r, <2>1, HandHost
<1> QED BY <1>1, <1>2, <1>3, <1>4, <1>5, <1>6, <1>7, <1>8, <1>9, <1>10, <1>11 DEF HostStep, Host

(* A launch done can only be the head. *)
LEMMA DeviceHand == ASSUME RowInv, HandInv, Device PROVE HandInv'
<1>1. ASSUME Publish PROVE HandInv'
  BY <1>1, HandKept DEF Publish, hostVars, jobVars
<1>2. ASSUME LayerStep PROVE HandInv'
  BY <1>2, HandKept DEF LayerStep, hostVars, jobVars
<1>3. ASSUME OtherLaunch PROVE HandInv'
  <2>1. UNCHANGED <<pc, second, jobs, results, cphase, ctl>> /\ stream # <<>> /\ Top.op # "layer"
    BY <1>3 DEF OtherLaunch, hostVars, jobVars
  <2>2. Top.op \in {"start", "layer", "head", "backup"}
    <3>1. Top \in StreamOps
      BY <2>1, HeadTail, StreamTyped DEF Top
    <3> QED BY <3>1 DEF StreamOps
  <2>3. marked => marked'
    <3>1. CASE Top.op = "start"
      BY <1>3, <3>1 DEF OtherLaunch
    <3>2. CASE Top.op = "backup"
      BY <1>3, <3>2 DEF OtherLaunch
    <3>3. CASE Top.op = "head"
      BY <1>3, <3>3 DEF OtherLaunch
    <3> QED BY <2>1, <2>2, <3>1, <3>2, <3>3
  <2> QED BY <2>1, <2>3, HandKept
<1> QED BY <1>1, <1>2, <1>3 DEF Device

(* The thread past its request: no job of a row ahead has ended before. *)
LEMMA HandThread ==
  ASSUME RowInv, HandInv, UNCHANGED <<pc, second, marked, ctl>>, cphase # "next", NEW a \in BOOLEAN,
         \/ results' = results
         \/ results' = Append(results, a) /\ (a => cphase' = "next"),
         \A i \in DOMAIN jobs' : jobs'[i].left <= Layers
  PROVE  HandInv'
<1>1. second /\ ~marked /\ Active => results = <<>> \/ ~results[1]
  BY DEF HandInv
<1>2. results \in Seq(BOOLEAN)
  BY DEF RowInv, Shape, ThreadShape
<1>3. Active' = Active
  BY DEF Active
<1>4. CASE results' = results
  BY <1>1, <1>3, <1>4 DEF HandInv
<1>5. CASE results' = Append(results, a) /\ (a => cphase' = "next")
  <2>1. /\ results # <<>> => results'[1] = results[1]
        /\ results = <<>> => results'[1] = a /\ Len(results') = 1
    BY <1>2, <1>5, ResultFirst, Zenon
  <2>2. second' /\ ~marked' /\ Active' /\ results' # <<>> /\ results'[1] => cphase' = "next" /\ Len(results') = 1
    BY <1>1, <1>3, <1>5, <2>1, Zenon
  <2>3. ctl'.cancel => ctl'.poisoned
    BY DEF HandInv
  <2> QED BY <2>2, <2>3 DEF HandInv
<1> QED BY <1>4, <1>5

(* An answer takes a layer off the job in hand, or ends it. *)
LEMMA AnsweredHand ==
  ASSUME RowInv, HandInv, jobs # <<>>, Answered, UNCHANGED <<pc, second, marked, ctl>>, cphase # "next"
  PROVE  HandInv'
<1>1. /\ jobs \in Seq(JobType) /\ Job = jobs[1] /\ Job.left \in Nat \ {0} /\ Len(jobs) \in Nat \ {0}
      /\ Tail(jobs) \in Seq(JobType) /\ Len(Tail(jobs)) = Len(jobs) - 1
  BY JobInHand
<1>2. Job.left <= Layers /\ Layers \in Nat
  <2>1. 1 \in DOMAIN jobs
    BY <1>1
  <2> QED BY <1>1, <2>1, ControllerAssumption DEF HandInv
<1>t. \A i \in DOMAIN Tail(jobs) : i + 1 \in DOMAIN jobs /\ Tail(jobs)[i] = jobs[i + 1]
  BY <1>1
<1>3. \A i \in DOMAIN jobs' : jobs'[i].left <= Layers
  <2>1. CASE Job.left > 1
    <3> DEFINE j == [seq |-> Job.seq + 1, left |-> Job.left - 1]
    <3>1. j \in [seq : {Job.seq + 1}, left : Nat] /\ j.left <= Layers
      BY <1>1, <1>2, <2>1
    <3>2. jobs' = <<j>> \o Tail(jobs)
      BY <2>1 DEF Answered
    <3> HIDE DEF j
    <3>3. ASSUME NEW i \in DOMAIN jobs' PROVE jobs'[i] = j \/ \E k \in DOMAIN jobs : jobs'[i] = jobs[k]
      <4>1. DOMAIN jobs' = 1 .. Len(jobs) /\ jobs'[1] = j /\ \A n \in 2 .. Len(jobs) : jobs'[n] = jobs[n]
        BY <1>1, <3>2
      <4> QED BY <1>1, <4>1
    <3> QED BY <3>1, <3>3 DEF HandInv
  <2>2. CASE ~(Job.left > 1)
    <3>1. jobs' = Tail(jobs)
      BY <2>2 DEF Answered
    <3> QED BY <1>t, <3>1 DEF HandInv
  <2> QED BY <2>1, <2>2
<1>4. /\ results' = results \/ results' = Append(results, TRUE)
      /\ cphase' = "next"
  BY DEF Answered
<1> QED BY <1>3, <1>4, HandThread

(* The thread ends the row ahead's job only behind the row's head. *)
LEMMA ThreadHand == ASSUME RowInv, StreamInv, HandInv, ThreadStep PROVE HandInv'
<1>0. UNCHANGED <<pc, second, marked, ctl>>
  BY ThreadLeaves
<1>j. \A i \in DOMAIN jobs : jobs[i].left <= Layers
  BY DEF HandInv
<1>1. ASSUME SeeRequest PROVE HandInv'
  <2>1. jobs # <<>> /\ ring[Slot(Job.seq)].seq = Job.seq /\ UNCHANGED <<jobs, results>>
    BY <1>1 DEF SeeRequest, Expected
  <2>2. Job.seq <= ctr
    <3>1. Job.seq \in Nat
      BY <2>1, JobInHand
    <3>2. Slot(Job.seq) \in DOMAIN ring
      BY <3>1, SlotOfRing, Zenon DEF RowInv, Shape, DeviceShape, Slot
    <3> QED BY <2>1, <3>2 DEF RowInv, QueueInv
  <2>3. ~(second /\ ~marked /\ Active /\ results # <<>>)
    <3>1. ctr \in Nat /\ Job.seq \in Nat
      BY <2>1, JobInHand, DeviceBehindHost
    <3>2. ~(ctr < Job.seq)
      BY <2>2, <3>1
    <3> QED BY <2>1, <3>2, SecondJob
  <2>4. ~(second' /\ ~marked' /\ Active' /\ results' # <<>>)
    BY <1>0, <2>1, <2>3 DEF Active
  <2> QED BY <1>0, <1>j, <2>1, <2>4 DEF HandInv
<1>2. ASSUME RequestLost PROVE HandInv'
  <2>1. /\ jobs # <<>> /\ UNCHANGED <<jobs, results>>
        /\ ctl.cancel \/ ctr >= Job.seq \/ stream = <<>>
    BY <1>2 DEF RequestLost
  <2>2. ~(second /\ ~marked /\ Active /\ results # <<>>)
    <3> SUFFICES ASSUME second, ~marked, Active, results # <<>> PROVE FALSE
      OBVIOUS
    <3>1. stream # <<>> /\ ~ctl.poisoned
      BY AheadWaits
    <3>2. ctr < Job.seq /\ ctr \in Nat /\ Job.seq \in Nat
      BY <2>1, SecondJob, DeviceBehindHost, JobInHand
    <3>3. ~(ctr >= Job.seq)
      BY <3>2
    <3> QED BY <2>1, <3>1, <3>3 DEF HandInv
  <2>4. ~(second' /\ ~marked' /\ Active' /\ results' # <<>>)
    BY <1>0, <2>1, <2>2 DEF Active
  <2> QED BY <1>0, <1>j, <2>1, <2>4 DEF HandInv
<1>3. ASSUME NEW serial \in BOOLEAN, Serve(serial) PROVE HandInv'
  <2>1. jobs # <<>> /\ cphase = "read"
    BY <1>3 DEF Serve
  <2>2. CASE serial
    BY <1>0, <1>3, <2>1, <2>2, AnsweredHand DEF Serve
  <2>3. CASE ~serial
    <3>1. UNCHANGED <<jobs, results>>
      BY <1>3, <2>3 DEF Serve
    <3> QED BY <1>0, <1>j, <2>1, <3>1, HandThread
  <2> QED BY <2>2, <2>3
<1>4. ASSUME ReplyEarly PROVE HandInv'
  <2>1. cphase = "reply" /\ Answered
    BY <1>4 DEF ReplyEarly
  <2>2. jobs # <<>>
    BY <2>1 DEF RowInv, JobsInv
  <2> QED BY <1>0, <2>1, <2>2, AnsweredHand
<1>5. ASSUME ServeFails PROVE HandInv'
  <2>1. cphase = "read" /\ UNCHANGED <<jobs, results>>
    BY <1>5 DEF ServeFails
  <2> QED BY <1>0, <1>j, <2>1, HandThread
<1>6. ASSUME ReleaseAll PROVE HandInv'
  <2>1. cphase = "failed" /\ jobs' = Tail(jobs) /\ results' = Append(results, FALSE)
    BY <1>6 DEF ReleaseAll
  <2>2. jobs # <<>>
    BY <2>1 DEF RowInv, JobsInv
  <2>3. \A i \in DOMAIN Tail(jobs) : i + 1 \in DOMAIN jobs /\ Tail(jobs)[i] = jobs[i + 1]
    <3>1. jobs \in Seq(JobType)
      BY DEF RowInv, Shape, ThreadShape
    <3> QED BY <2>2, <3>1
  <2>4. \A i \in DOMAIN jobs' : jobs'[i].left <= Layers
    BY <1>j, <2>1, <2>3
  <2> QED BY <1>0, <2>1, <2>4, HandThread
<1>7. ASSUME StagerStep PROVE HandInv'
  BY <1>0, <1>7, HandKept DEF StagerStep, jobVars
<1>8. ASSUME LaneRun PROVE HandInv'
  BY <1>0, <1>8, HandKept DEF LaneRun, jobVars
<1>9. ASSUME NEW r \in flying, Land(r) PROVE HandInv'
  BY <1>0, <1>9, HandKept DEF Land, jobVars
<1> QED BY <1>1, <1>2, <1>3, <1>4, <1>5, <1>6, <1>7, <1>8, <1>9 DEF ThreadStep, Controls

-----------------------------------------------------------------------------
(* The ids the recurrent state has seen.                                     *)

(* Nothing of the host's or of the state changes, and nothing heals. *)
LEMMA TokKept ==
  ASSUME TokInv, UNCHANGED <<pc, call, second, hist, last, ahead, marked, next, kda, bak, stream>>,
         Sound' => Sound, Acc' => Acc
  PROVE  TokInv'
<1>1. Cur' = Cur /\ Base' = Base /\ Held' = Held /\ Active' = Active
  BY DEF Cur, Base, Held, Active, TopIs
<1> QED BY <1>1 DEF TokInv, Exactly

(* A launch behind the others is not the first, unless it is the only one. *)
LEMMA CurKept ==
  ASSUME RowInv, NEW x \in Seq(StreamOps), x # <<>>, x[1].op \in {"layer", "head"}, stream' = stream \o x,
         UNCHANGED <<kda, bak, next>>
  PROVE  Cur' = Cur /\ Base' = Base
<1>1. stream \in Seq(StreamOps)
  BY StreamTyped
<1>2. CASE stream = <<>>
  <2>1. stream' = x
    BY <1>2
  <2> QED BY <1>2, <2>1 DEF Cur, Base, TopIs
<1>3. CASE stream # <<>>
  <2>1. stream' # <<>> /\ stream'[1] = stream[1]
    BY <1>1, <1>3
  <2> QED BY <1>3, <2>1 DEF Cur, Base, TopIs
<1> QED BY <1>2, <1>3

(* The same of one launch. *)
LEMMA CurAppended ==
  ASSUME RowInv, NEW x \in StreamOps, x.op \in {"layer", "head"}, stream' = Append(stream, x),
         UNCHANGED <<kda, bak, next>>
  PROVE  Cur' = Cur /\ Base' = Base
<1>1. stream \in Seq(StreamOps)
  BY StreamTyped
<1>2. <<x>> \in Seq(StreamOps) /\ <<x>> # <<>> /\ <<x>>[1] = x /\ stream' = stream \o <<x>>
  BY <1>1
<1> QED BY <1>2, CurKept, Zenon

(* A state is its ids and whether they are right. *)
LEMMA StateWhole == ASSUME NEW s \in State, NEW h, s.toks = h, s.ok PROVE s = Exactly(h)
<1>1. s.ok = TRUE
  BY DEF State
<1> QED BY <1>1 DEF State, Exactly

(* The ids and ids' answers the host keeps. *)
LEMMA TokTyped ==
  ASSUME RowInv
  PROVE  /\ kda \in State /\ bak \in State /\ hist \in Seq(Tokens) /\ next \in Tokens /\ next # None
         /\ (ahead # None => pc = "idle") /\ (pc \in {"idle", "row", "sync", "drop"} => ~second)
BY DEF RowInv, Shape, HostShape, DeviceShape, RowsInv, Tokens, None

(* reset: no id is held. *)
LEMMA FailTok == ASSUME RowInv, Fail PROVE TokInv'
<1>1. /\ stream' = <<>> /\ pc' = "idle" /\ second' = FALSE /\ hist' = <<>> /\ last' = None /\ ahead' = None
      /\ kda' = Fresh
  BY DEF Fail, Returns
<1>2. kda' = Exactly(hist') /\ kda'.ok
  BY <1>1 DEF Exactly, Fresh
<1> QED BY <1>1, <1>2 DEF TokInv, Exactly

(* A call begins: on the row ahead if its id is the one, else from the state held. *)
LEMMA CallTok ==
  ASSUME RowInv, StreamInv, TokInv, NEW kind \in {"decode", "settle", "reset"}, NEW t \in Tokens, Call(kind, t)
  PROVE  TokInv'
<1>1. /\ pc = "idle" /\ call' = [kind |-> kind, tok |-> t] /\ ahead' = None /\ second' = FALSE
      /\ pc' = IF kind = "decode" /\ ctl.poisoned THEN "fail"
               ELSE IF kind = "decode" /\ ahead = t THEN "head"
               ELSE IF ahead # None THEN "drop"
               ELSE IF kind = "decode" THEN "row" ELSE "fail"
      /\ UNCHANGED <<hist, last, ctl, words, stream, kda, bak, next, marked, results>>
  BY DEF Call, devVars, jobVars
<1>2. Cur' = Cur /\ Base' = Base /\ (Sound' <=> Sound) /\ Held' = Append(hist, t)
  BY <1>1 DEF Cur, Base, TopIs, Sound, JobFailed, Held
<1>3. t # None
  BY DEF Tokens, None
<1>4. last' # None => last' = Greedy(hist')
  BY <1>1 DEF TokInv
<1>5. Sound => kda.ok
  BY <1>1 DEF TokInv, Active
<1>6. CASE pc' = "fail"
  BY <1>1, <1>4, <1>6 DEF TokInv, Active
<1>7. CASE pc' = "head"
  <2>1. ahead = t
    BY <1>1, <1>7
  <2>2. Cur' = Held'
    BY <1>2, <1>3, <2>1 DEF TokInv
  <2> QED BY <1>1, <1>2, <1>4, <1>5, <1>7, <2>2 DEF TokInv
<1>8. CASE pc' = "drop"
  <2>1. ahead # None
    BY <1>1, <1>8
  <2>2. Base' = Exactly(hist')
    BY <1>1, <1>2, <2>1 DEF TokInv, Exactly
  <2> QED BY <1>1, <1>4, <1>8, <2>2 DEF TokInv, Exactly
<1>9. CASE pc' = "row"
  <2>1. ahead = None
    BY <1>1, <1>9
  <2>2. kda' = Exactly(hist')
    BY <1>1, <2>1 DEF TokInv, Exactly
  <2>3. kda'.ok
    BY <2>2 DEF Exactly
  <2> QED BY <1>1, <1>4, <1>9, <2>2, <2>3 DEF TokInv, Exactly
<1> QED BY <1>1, <1>6, <1>7, <1>8, <1>9

(* drop_ahead: the state of the ids held comes back. *)
LEMMA DropAheadTok == ASSUME RowInv, TokInv, DropAhead PROVE TokInv'
<1>1. /\ pc = "drop" /\ stream = <<>> /\ kda' = bak /\ pc' \in {"idle", "row", "fail"}
      /\ (second' = FALSE \/ second' = second) /\ UNCHANGED <<hist, last, ahead, stream>>
  BY DEF DropAhead, Returns
<1>2. bak = Exactly(hist)
  BY <1>1 DEF TokInv, Base, TopIs
<1>3. kda' = Exactly(hist') /\ kda'.ok
  BY <1>1, <1>2 DEF Exactly
<1>4. ahead = None /\ ~second'
  BY <1>1, TokTyped
<1>5. last' # None => last' = Greedy(hist')
  BY <1>1 DEF TokInv
<1> QED BY <1>1, <1>3, <1>4, <1>5 DEF TokInv, Exactly

(* A row's input is its call's id. *)
LEMMA StartRowTok == ASSUME RowInv, StreamInv, TokInv, StartRow PROVE TokInv'
<1> DEFINE x == [op |-> "start", arg |-> call.tok]
<1>1. /\ pc = "row" /\ pc' = "pace" /\ stream' = Append(stream, x)
      /\ UNCHANGED <<call, hist, last, ahead, second, kda, bak, next, marked>>
  BY DEF StartRow, Handed, devVars
<1>2. stream = <<>> /\ kda = Exactly(hist) /\ ~second /\ ahead = None
  BY <1>1, TokTyped DEF StreamInv, TokInv
<1>3. stream' # <<>> /\ stream'[1] = x /\ x.op = "start" /\ x.arg = call.tok /\ call.tok # None
  <2>1. call.tok # None
    BY DEF RowInv, Shape, HostShape, Tokens, None
  <2> QED BY <1>1, <1>2, <2>1
<1>4. Cur' = Held'
  <2>1. Cur' = Append(kda.toks, call.tok)
    BY <1>1, <1>3 DEF Cur, TopIs
  <2> QED BY <1>1, <1>2, <2>1 DEF Held, Exactly
<1>5. kda'.ok
  BY <1>1, <1>2 DEF Exactly
<1>6. last' # None => last' = Greedy(hist')
  BY <1>1 DEF TokInv
<1> QED BY <1>1, <1>2, <1>4, <1>5, <1>6 DEF TokInv

(* A row given up: what counts is what the next call finds. *)
LEMMA GivenUpTok ==
  ASSUME RowInv, TokInv, pc # "idle", pc' \in {"drain", "fail"}, UNCHANGED <<hist, last, ahead>>
  PROVE  TokInv'
<1>1. ahead' = None
  BY TokTyped
<1> QED BY <1>1 DEF TokInv, Active

(* One layer's launches. *)
LEMMA LaunchTok == ASSUME RowInv, TokInv, Launch PROVE TokInv'
<1> DEFINE x == [op |-> "layer", arg |-> laid + 1]
<1>1. /\ pc = "launch" /\ stream' = Append(stream, x)
      /\ pc' = IF laid + 1 < Layers THEN "pace" ELSE IF second THEN "wait" ELSE "head"
      /\ UNCHANGED <<call, second, hist, last, ahead, marked, next, kda, bak, words, results>>
      /\ ctl' = [ctl EXCEPT !.queued = ctl.queued + 1]
  BY DEF Launch, devVars, jobVars
<1>2. laid < Layers /\ laid \in 0 .. Layers
  BY <1>1 DEF RowInv, LaidInv, Shape, HostShape
<1>3. x \in StreamOps /\ x.op = "layer"
  BY <1>2, ControllerAssumption DEF StreamOps, LayerIds
<1> HIDE DEF x
<1>4. Cur' = Cur /\ Base' = Base /\ Held' = Held
  BY <1>1, <1>3, CurAppended DEF Held
<1>5. ctl'.poisoned = ctl.poisoned
  BY <1>1 DEF RowInv, Shape, HostShape, CtlType
<1>6. (Sound' => Sound) /\ (Acc' => Acc)
  BY <1>1, <1>5 DEF Sound, JobFailed, Acc
<1>7. pc' \in {"pace", "wait", "head"} /\ (pc' = "head" => ~second) /\ ahead = None /\ (pc' = "wait" => second)
  BY <1>1, TokTyped
<1>8. ~second => Cur = Held
  BY <1>1 DEF TokInv
<1>9. second /\ ~marked => Cur = Held
  BY <1>1 DEF TokInv, Active
<1>10. second /\ marked => Cur = Append(Held, next) /\ Base.toks = Held /\ (Acc => Base.ok /\ next = Greedy(Held))
  BY <1>1 DEF TokInv, Active
<1>11. (Sound => kda.ok) /\ (last # None => last = Greedy(hist))
  BY <1>1 DEF TokInv, Active
<1> QED BY <1>1, <1>4, <1>6, <1>7, <1>8, <1>9, <1>10, <1>11 DEF TokInv

(* The next layer is let through. *)
LEMMA PaceTok == ASSUME RowInv, TokInv, Pace PROVE TokInv'
<1>1. /\ pc = "pace" /\ pc' = "launch"
      /\ UNCHANGED <<call, second, hist, last, ahead, marked, next, kda, bak, stream, words, results, ctl>>
  BY DEF Pace, devVars, jobVars
<1>2. Cur' = Cur /\ Base' = Base /\ Held' = Held /\ (Sound' => Sound) /\ (Acc' => Acc)
  BY <1>1 DEF Cur, Base, TopIs, Held, Sound, JobFailed, Acc
<1>3. ahead = None /\ (~second => Cur = Held)
  BY <1>1, TokTyped DEF TokInv
<1>4. second /\ ~marked => Cur = Held
  BY <1>1 DEF TokInv, Active
<1>5. second /\ marked => Cur = Append(Held, next) /\ Base.toks = Held /\ (Acc => Base.ok /\ next = Greedy(Held))
  BY <1>1 DEF TokInv, Active
<1>6. (Sound => kda.ok) /\ (last # None => last = Greedy(hist))
  BY <1>1 DEF TokInv, Active
<1> QED BY <1>1, <1>2, <1>3, <1>4, <1>5, <1>6 DEF TokInv

(* The head, and the row ahead behind it. *)
LEMMA HeadRowTok == ASSUME RowInv, StreamInv, TokInv, HeadRow PROVE TokInv'
<1>1. /\ pc = "head" /\ marked' = FALSE
      /\ UNCHANGED <<call, hist, last, ahead, next, kda, bak, results>>
  BY DEF HeadRow
<1>2. Cur = Held /\ Held' = Held /\ ahead = None /\ ~second /\ (Sound => kda.ok) /\ (last # None => last = Greedy(hist))
  BY <1>1, TokTyped DEF TokInv, Held, Active, StreamInv
<1>3. CASE mode.la
  <2>1. Handed /\ second' = TRUE /\ stream' = stream \o RowAhead
    BY <1>3 DEF HeadRow, RowAhead
  <2>2. RowAhead \in Seq(StreamOps) /\ RowAhead # <<>> /\ RowAhead[1].op \in {"layer", "head"}
    BY DEF RowAhead, StreamOps
  <2>3. Cur' = Cur
    <3>1. PICK r \in Seq(StreamOps) : r = RowAhead /\ r # <<>> /\ r[1].op \in {"layer", "head"}
      BY <2>2, Zenon
    <3>2. stream' = stream \o r
      BY <2>1, <3>1, Zenon
    <3> QED BY <1>1, <3>1, <3>2, CurKept, Zenon
  <2>4. pc' = "pace"
    BY <2>1 DEF Handed
  <2>5. Sound' => Sound
    <3>1. words \in WordsType /\ ctl \in CtlType
      BY DEF RowInv, Shape, DeviceShape, HostShape
    <3>2. words'.err = words.err /\ ctl'.poisoned = ctl.poisoned
      BY <2>1, <3>1 DEF Handed, WordsType, CtlType
    <3> QED BY <1>1, <3>2 DEF Sound, JobFailed
  <2> QED BY <1>1, <1>2, <2>1, <2>3, <2>4, <2>5 DEF TokInv
<1>4. CASE ~mode.la
  <2> DEFINE x == [op |-> "head", arg |-> 0]
  <2>1. stream' = Append(stream, x) /\ pc' = "sync" /\ UNCHANGED <<ctl, words, second>>
    BY <1>4 DEF HeadRow
  <2>2. x \in StreamOps /\ x.op = "head"
    BY DEF StreamOps
  <2> HIDE DEF x
  <2>3. Cur' = Cur
    BY <1>1, <2>1, <2>2, CurAppended
  <2>4. Sound' => Sound
    BY <1>1, <2>1 DEF Sound, JobFailed
  <2> QED BY <1>1, <1>2, <2>1, <2>3, <2>4 DEF TokInv
<1> QED BY <1>3, <1>4

(* The row's result: the id read back is the head's on the ids held. *)
LEMMA JoinedTok == ASSUME RowInv, StreamInv, TokInv, Joined PROVE TokInv'
<1> DEFINE ok == Head(results) /\ words.err = 0
<1>1. /\ (pc = "sync" /\ stream = <<>>) \/ (pc = "wait" /\ marked)
      /\ results # <<>> /\ results' = Tail(results)
      /\ ctl' = [ctl EXCEPT !.poisoned = ctl.poisoned \/ ~ok]
      /\ UNCHANGED <<mode, words, stream, kda, bak, next, marked, jobs>>
  BY DEF Joined, devVars
<1>2. ~ok => pc' \in {"drain", "fail"} /\ UNCHANGED <<hist, last, ahead>>
  <2>1. ~ok => pc' = (IF mode.la THEN "drain" ELSE "fail") /\ UNCHANGED <<hist, last, ahead>>
    BY Zenon DEF Joined
  <2> QED BY <2>1
<1>3. ok => /\ pc' = "idle" /\ second' = FALSE /\ hist' = Append(hist, call.tok) /\ last' = next
            /\ ahead' = IF mode.la THEN next ELSE None
  BY Zenon DEF Joined, Returns
<1>4. CASE ~ok
  BY <1>1, <1>2, <1>4, GivenUpTok
<1>5. CASE ok
  <2>0. results \in Seq(BOOLEAN)
    BY DEF RowInv, Shape, ThreadShape
  <2>r. results \in Seq(BOOLEAN) /\ Head(results) = results[1]
    BY <1>1, <2>0, HeadTail, Zenon
  <2>1. Acc
    <3>1. ~ctl.poisoned
      BY <1>1 DEF RowInv, RowsInv
    <3> QED BY <1>5, <2>r, <3>1 DEF Acc
  <2>2. Sound' => Sound
    <3>1. ctl'.poisoned = (ctl.poisoned \/ ~ok)
      <4>1. ctl \in CtlType
        BY Zenon DEF RowInv, Shape, HostShape
      <4>2. PICK a \in BOOLEAN : a = (ctl.poisoned \/ ~ok)
        BY Zenon
      <4>3. ctl' = [ctl EXCEPT !.poisoned = a]
        BY <1>1, <4>2, Zenon
      <4>4. ctl'.poisoned = a
        BY <4>1, <4>3, CtlPoison, Zenon
      <4> QED BY <4>2, <4>4, Zenon
    <3> QED BY <1>1, <3>1, ResultTaken, Zenon DEF RowInv, Shape
  <2>3. hist' = Held
    BY <1>3, <1>5 DEF Held
  <2>4. Active /\ (Sound => kda.ok) /\ kda \in State /\ bak \in State /\ next # None
    BY <1>1, TokTyped DEF Active, TokInv
  <2>5. CASE pc = "sync"
    <3>1. stream = <<>> /\ marked /\ ~mode.la /\ ~second
      <4>1. stream = <<>> /\ ~mode.la /\ ~second
        BY <1>1, <2>5 DEF RowInv, RowsInv
      <4>2. Heads = {}
        BY <4>1 DEF Heads
      <4> QED BY <2>4, <2>5, <4>1, <4>2 DEF StreamInv
    <3>2. next = Greedy(Held) /\ kda.toks = Held
      BY <2>1, <2>5, <3>1 DEF TokInv, Cur, TopIs
    <3>3. Sound
      <4>1. Len(jobs) + Len(results) = 1
        BY <2>5 DEF RowInv, RowsInv, Rows
      <4>2. Len(results) \in Nat \ {0} /\ Len(jobs) \in Nat /\ DOMAIN results = 1 .. Len(results)
        <5>1. jobs \in Seq(JobType)
          BY DEF RowInv, Shape, ThreadShape
        <5> QED BY <1>1, <2>r, <5>1, HeadTail, LenProperties, Zenon
      <4>3. \A a \in Nat, b \in Nat \ {0} : a + b = 1 => b = 1
        OBVIOUS
      <4>4. Len(results) = 1
        BY <4>1, <4>2, <4>3, Zenon
      <4>5. DOMAIN results = {1}
        BY <4>2, <4>4
      <4>6. FALSE \notin Range(results)
        BY <1>5, <2>r, <4>5, Zenon DEF Range
      <4> QED BY <2>1, <4>6 DEF Sound, JobFailed, Acc
    <3>4. kda = Exactly(Held)
      BY <2>4, <3>2, <3>3, StateWhole
    <3>5. ahead' = None /\ pc' = "idle" /\ second' = FALSE /\ last' = next
      BY <1>3, <1>5, <3>1
    <3>6. kda' = Exactly(hist') /\ kda'.ok
      BY <1>1, <2>3, <3>4 DEF Exactly
    <3>7. last' # None => last' = Greedy(hist')
      BY <2>3, <3>2, <3>5
    <3> QED BY <3>5, <3>6, <3>7 DEF TokInv, Exactly
  <2>6. CASE pc = "wait"
    <3>1. marked /\ mode.la /\ second
      BY <1>1, <2>6 DEF RowInv, RowsInv
    <3>2. Cur = Append(Held, next) /\ Base.toks = Held /\ Base.ok /\ next = Greedy(Held)
      BY <2>1, <2>4, <3>1 DEF TokInv
    <3>3. Base \in State
      BY <2>4 DEF Base
    <3>4. Base = Exactly(Held)
      BY <3>2, <3>3, StateWhole
    <3>5. Cur' = Cur /\ Base' = Base
      BY <1>1 DEF Cur, Base, TopIs
    <3>6. ahead' = next /\ pc' = "idle" /\ second' = FALSE /\ last' = next
      BY <1>3, <1>5, <3>1
    <3>7. Base' = Exactly(hist') /\ Cur' = Append(hist', next') /\ ahead' = last' /\ next' = ahead'
      BY <1>1, <2>3, <3>2, <3>4, <3>5, <3>6 DEF Exactly
    <3>8. (Sound' => kda'.ok) /\ (last' # None => last' = Greedy(hist')) /\ ahead' # None
      BY <1>1, <2>2, <2>3, <2>4, <3>2, <3>6
    <3> QED BY <3>6, <3>7, <3>8 DEF TokInv, Exactly
  <2> QED BY <1>1, <2>5, <2>6
<1> QED BY <1>4, <1>5

(* Other switches: nothing runs, and the state is that of the ids held. *)
LEMMA NewSwitchesTok == ASSUME RowInv, TokInv, NewSwitches PROVE TokInv'
<1>1. /\ pc = "idle" /\ ahead = None /\ stream = <<>>
      /\ UNCHANGED <<pc, call, second, hist, last, ahead, marked, next, kda, bak, stream>>
  BY DEF NewSwitches, hostVars
<1>2. kda' = Exactly(hist') /\ kda'.ok /\ ~second' /\ (last' # None => last' = Greedy(hist'))
  BY <1>1, TokTyped DEF TokInv, Exactly
<1> QED BY <1>1, <1>2 DEF TokInv, Exactly

(* The host's part. *)
LEMMA HostTok == ASSUME RowInv, StreamInv, TokInv, HostStep PROVE TokInv'
<1>1. ASSUME PaceFails PROVE TokInv'
  <2>1. pc # "idle" /\ pc' = "drain" /\ UNCHANGED <<hist, last, ahead>>
    BY <1>1 DEF PaceFails, EnqueueFails
  <2> QED BY <2>1, GivenUpTok
<1>2. ASSUME Drain PROVE TokInv'
  <2>1. pc # "idle" /\ pc' = "fail" /\ UNCHANGED <<hist, last, ahead>>
    BY <1>2 DEF Drain
  <2> QED BY <2>1, GivenUpTok
<1> QED BY <1>1, <1>2, FailTok, CallTok, DropAheadTok, StartRowTok, LaunchTok, PaceTok, HeadRowTok, JoinedTok,
           NewSwitchesTok DEF HostStep, Host

(* One launch of a layer done, or a step of it: the ids are the same. *)
LEMMA LayerStepTok ==
  ASSUME RowInv, StreamInv, TokInv, LayerStep, Sound' => Exact
  PROVE  TokInv'
<1>1. /\ stream # <<>> /\ Top.op = "layer" /\ kda' = [kda EXCEPT !.ok = kda.ok /\ Exact]
      /\ stream' = stream \/ stream' = Tail(stream)
      /\ UNCHANGED <<pc, call, second, hist, last, ahead, ctl, bak, next, marked, results>>
      /\ words' = words \/ words' = [words EXCEPT !.err = IF words.err = 0 THEN ctr ELSE words.err]
  BY DEF LayerStep, hostVars, jobVars
<1>2. stream \in Seq(StreamOps) /\ Top = stream[1] /\ kda \in State /\ words \in WordsType /\ ctr \in Nat
  BY <1>1, StreamTyped DEF Top, RowInv, Shape, DeviceShape
<1>3. kda'.toks = kda.toks /\ kda'.ok = (kda.ok /\ Exact)
  <2>1. PICK e \in BOOLEAN : e = (kda.ok /\ Exact)
    BY Zenon
  <2>2. kda' = [kda EXCEPT !.ok = e]
    BY <1>1, <2>1, Zenon
  <2>3. kda'.toks = kda.toks /\ kda'.ok = e
    BY <1>2, <2>2 DEF State
  <2> QED BY <2>1, <2>3, Zenon
<1>4. (Sound' => Sound) /\ (Acc' => Acc)
  <2>1. words'.err = 0 => words.err = 0
    BY <1>1, <1>2 DEF WordsType
  <2> QED BY <1>1, <2>1 DEF Sound, JobFailed, Acc
<1>5. stream' # <<>> => stream'[1].op \notin {"start", "backup"}
  <2>1. CASE stream' = stream
    BY <1>1, <1>2, <2>1
  <2>2. CASE stream' = Tail(stream)
    <3>1. stream' # <<>> => 2 \in DOMAIN stream /\ stream'[1] = stream[2]
      BY <1>1, <1>2, <2>2
    <3>2. 2 \in DOMAIN stream => stream[2].op \notin {"start", "backup"}
      BY <1>1, <1>2, SecondLaunch, StreamTyped DEF StreamInv
    <3> QED BY <3>1, <3>2
  <2> QED BY <1>1, <2>1, <2>2
<1>6. Cur = kda.toks /\ Cur' = kda'.toks /\ Base = bak /\ Base' = bak'
  BY <1>1, <1>2, <1>5 DEF Cur, Base, TopIs
<1>7. Cur' = Cur /\ Base' = Base /\ Held' = Held /\ Active' = Active
  BY <1>1, <1>3, <1>6 DEF Held, Active
<1>8. ~(pc = "row" \/ (pc = "idle" /\ ahead = None))
  BY <1>1 DEF StreamInv
<1>9. Active' /\ pc' # "drop" /\ Sound' => kda'.ok
  BY <1>1, <1>3, <1>4, <1>7 DEF TokInv
<1> QED BY <1>1, <1>4, <1>7, <1>8, <1>9 DEF TokInv, Exactly

(* Behind the first comes the second. *)
LEMMA SecondFirst ==
  ASSUME NEW S, NEW s \in Seq(S), 2 \in DOMAIN s
  PROVE  Tail(s) # <<>> /\ Tail(s)[1] = s[2]
OBVIOUS

(* A row's input, the state's backup, the head. *)
LEMMA OtherLaunchTok == ASSUME RowInv, StreamInv, HandInv, TokInv, OtherLaunch PROVE TokInv'
<1>1. /\ stream # <<>> /\ Top.op # "layer" /\ stream' = Tail(stream)
      /\ UNCHANGED <<mode, pc, call, second, hist, last, ahead, ctl, words, results, jobs>>
  BY DEF OtherLaunch, hostVars, jobVars
<1>2. /\ stream \in Seq(StreamOps) /\ Top = stream[1] /\ Top \in StreamOps /\ kda \in State
      /\ stream' # <<>> => 2 \in DOMAIN stream /\ stream'[1] = stream[2]
  <2>1. stream \in Seq(StreamOps)
    BY StreamTyped
  <2>2. stream' # <<>> => 2 \in DOMAIN stream /\ stream'[1] = stream[2]
    BY <1>1, <2>1
  <2> QED BY <1>1, <2>1, <2>2, HeadTail, Zenon DEF Top, RowInv, Shape, DeviceShape
<1>3. /\ Top.op \in {"start", "layer"} => (2 \in DOMAIN stream => stream[2].op \notin {"start", "backup"})
      /\ Top.op = "backup" => 2 \in DOMAIN stream /\ stream[2].op = "start" /\ stream[2].arg = None
      /\ Top.op = "head" => IF mode.la THEN 2 \in DOMAIN stream /\ stream[2].op = "backup" ELSE Len(stream) = 1
  BY <1>1, <1>2, SecondLaunch, StreamTyped DEF StreamInv
<1>4. (Sound' <=> Sound) /\ (Acc' <=> Acc) /\ Held' = Held /\ Active' = Active
  BY <1>1 DEF Sound, JobFailed, Acc, Held, Active
<1>5. ~(pc = "row" \/ (pc = "idle" /\ ahead = None))
  BY <1>1 DEF StreamInv
<1>6. CASE Top.op = "start"
  <2> DEFINE id == IF Top.arg = None THEN next ELSE Top.arg
  <2>1. kda' = [kda EXCEPT !.toks = Append(kda.toks, id)] /\ UNCHANGED <<bak, next, marked>>
    BY <1>6 DEF OtherLaunch
  <2>2. kda'.toks = Append(kda.toks, id) /\ kda'.ok = kda.ok
    BY <1>2, <2>1 DEF State
  <2>3. stream' # <<>> => stream'[1].op \notin {"start", "backup"}
    BY <1>2, <1>3, <1>6
  <2>4. Cur = Append(kda.toks, id) /\ Cur' = kda'.toks /\ Base = bak /\ Base' = bak'
    BY <1>1, <1>2, <1>6, <2>3 DEF Cur, Base, TopIs
  <2>5. Cur' = Cur /\ Base' = Base
    BY <2>1, <2>2, <2>4
  <2> HIDE DEF id
  <2> QED BY <1>1, <1>4, <1>5, <2>1, <2>2, <2>5 DEF TokInv, Exactly
<1>7. CASE Top.op = "backup"
  <2>1. bak' = kda /\ UNCHANGED <<kda, next, marked>>
    BY <1>7 DEF OtherLaunch
  <2>2. stream' # <<>> /\ stream'[1].op = "start" /\ stream'[1].arg = None
    <3>1. 2 \in DOMAIN stream /\ Tail(stream) # <<>> /\ Tail(stream)[1] = stream[2]
      BY <1>2, <1>3, <1>7, SecondFirst
    <3> QED BY <1>1, <1>3, <1>7, <3>1
  <2>3. Cur = Append(kda.toks, next) /\ Cur' = Append(kda.toks, next) /\ Base = kda /\ Base' = bak'
    BY <1>1, <1>2, <1>7, <2>1, <2>2 DEF Cur, Base, TopIs
  <2> QED BY <1>1, <1>4, <1>5, <2>1, <2>3 DEF TokInv, Exactly
<1>8. CASE Top.op = "head"
  <2>1. /\ next' \in (IF kda.ok THEN {Greedy(kda.toks)} ELSE Tokens)
        /\ marked' = TRUE /\ UNCHANGED <<kda, bak>>
    BY <1>8 DEF OtherLaunch
  <2>2. kda.ok => next' = Greedy(kda.toks)
    BY <2>1
  <2>3. 1 \in Heads
    BY <1>1, <1>2, <1>8, StreamTyped DEF Heads
  <2>4. Active => (second \/ pc = "sync") /\ ~marked
    BY <2>3 DEF StreamInv
  <2>5. last # None => last = Greedy(hist)
    BY DEF TokInv
  <2>6. CASE ~Active
    <3>1. pc \in {"drain", "fail"} /\ ahead = None
      BY <2>6, TokTyped DEF Active
    <3> QED BY <1>1, <1>4, <2>5, <2>6, <3>1 DEF TokInv
  <2>7. CASE Active
    <3>1. Cur = kda.toks /\ Cur = Held /\ (Sound => kda.ok)
      <4>1. Cur = Held
        BY <2>4, <2>7 DEF TokInv
      <4>2. Cur = kda.toks
        BY <1>1, <1>2, <1>8 DEF Cur, TopIs
      <4>3. pc # "drop"
        BY <2>4, <2>7, TokTyped, Zenon
      <4> QED BY <2>7, <4>1, <4>2, <4>3 DEF TokInv
    <3>2. Acc => Sound
      <4> SUFFICES ASSUME Acc, FALSE \in Range(results) PROVE FALSE
        BY DEF Acc, Sound, JobFailed
      <4>0. results \in Seq(BOOLEAN)
        BY DEF RowInv, Shape, ThreadShape
      <4>1. results # <<>>
        <5>1. PICK i \in DOMAIN results : results[i] = FALSE
          BY Zenon DEF Range
        <5> QED BY <5>1
      <4>2. Len(results) = 1
        <5>1. CASE second
          BY <2>4, <2>7, <4>1, <5>1 DEF HandInv, Acc
        <5>2. CASE pc = "sync"
          <6>1. Len(jobs) + Len(results) = 1
            BY <5>2 DEF RowInv, RowsInv, Rows
          <6>2. Len(results) \in Nat \ {0} /\ Len(jobs) \in Nat
            <7>1. jobs \in Seq(JobType)
              BY DEF RowInv, Shape, ThreadShape
            <7> QED BY <4>0, <4>1, <7>1, HeadTail, LenProperties, Zenon
          <6>3. \A a \in Nat, b \in Nat \ {0} : a + b = 1 => b = 1
            OBVIOUS
          <6> QED BY <6>1, <6>2, <6>3, Zenon
        <5> QED BY <2>4, <2>7, <5>1, <5>2
      <4>3. DOMAIN results = 1 .. Len(results)
        BY <4>0, LenProperties, Zenon
      <4>4. DOMAIN results = {1}
        BY <4>2, <4>3
      <4> QED BY <4>1, <4>4, Zenon DEF Range, Acc
    <3>3. Acc => kda.ok /\ next' = Greedy(Held)
      BY <2>2, <3>1, <3>2
    <3>4. ahead = None
      <4>1. pc = "idle" => ~second /\ pc # "sync"
        BY TokTyped, Zenon
      <4> QED BY <2>4, <2>7, <4>1, TokTyped, Zenon
    <3>5. CASE second
      <4>1. pc \notin {"idle", "row", "head", "sync", "drop"} /\ mode.la
        <5>1. pc # "head"
          BY <3>5 DEF StreamInv
        <5> QED BY <3>5, <5>1 DEF RowInv, RowsInv
      <4>2. stream' # <<>> /\ stream'[1].op = "backup"
        <5>1. 2 \in DOMAIN stream /\ Tail(stream) # <<>> /\ Tail(stream)[1] = stream[2]
          BY <1>2, <1>3, <1>8, <4>1, SecondFirst
        <5> QED BY <1>1, <1>3, <1>8, <4>1, <5>1
      <4>3. Cur' = Append(Held', next') /\ Base' = kda
        BY <1>4, <2>1, <3>1, <4>2 DEF Cur, Base, TopIs
      <4>4. Base'.toks = Held' /\ (Acc' => Base'.ok /\ next' = Greedy(Held'))
        BY <1>4, <3>1, <3>3, <4>3
      <4> QED BY <1>1, <1>4, <2>1, <2>5, <3>1, <3>4, <3>5, <4>1, <4>3, <4>4 DEF TokInv
    <3>6. CASE pc = "sync"
      <4>1. ~second /\ ~mode.la
        BY <3>6 DEF RowInv, RowsInv
      <4>2. stream' = <<>>
        BY <1>1, <1>2, <1>3, <1>8, <4>1
      <4>3. Cur' = Held'
        BY <1>4, <2>1, <3>1, <4>2 DEF Cur, TopIs
      <4> QED BY <1>1, <1>4, <2>1, <2>5, <3>1, <3>3, <3>4, <3>6, <4>1, <4>3 DEF TokInv
    <3> QED BY <2>4, <2>7, <3>5, <3>6
  <2> QED BY <2>6, <2>7
<1>9. Top.op \in {"start", "layer", "head", "backup"}
  BY <1>2 DEF StreamOps
<1> QED BY <1>1, <1>6, <1>7, <1>8, <1>9

(* A layer's request published. *)
LEMMA PublishTok == ASSUME TokInv, Publish PROVE TokInv'
<1>1. UNCHANGED <<pc, call, second, hist, last, ahead, marked, next, kda, bak, stream, ctl, words, results>>
  BY DEF Publish, hostVars, jobVars
<1>2. (Sound' => Sound) /\ (Acc' => Acc)
  BY <1>1 DEF Sound, JobFailed, Acc
<1> QED BY <1>1, <1>2, TokKept

(* The threads heal nothing. *)
LEMMA ThreadHeals ==
  ASSUME RowInv, ThreadStep
  PROVE  (Sound' => Sound) /\ (Acc' => Acc)
<1>1. ctl' = ctl
  BY ThreadLeaves
<1>2. words \in WordsType /\ results \in Seq(BOOLEAN)
  BY DEF RowInv, Shape, DeviceShape, ThreadShape
<1>3. words'.err = words.err
  <2>1. ASSUME NEW s \in BOOLEAN, Serve(s) PROVE words' = words
    BY <2>1 DEF Serve
  <2>2. ASSUME SeeRequest \/ RequestLost \/ ServeFails \/ \E r \in flying : Land(r) PROVE words' = words
    BY <2>2 DEF SeeRequest, RequestLost, ServeFails, Land
  <2>3. ASSUME ReplyEarly \/ ReleaseAll PROVE words'.err = words.err
    BY <1>2, <2>3 DEF ReplyEarly, ReleaseAll, WordsType
  <2>4. ASSUME StagerStep PROVE words'.err = words.err
    <3>1. words' = words \/ words' = [words EXCEPT !.reply = Head(stg).q]
      BY <2>4 DEF StagerStep
    <3> QED BY <1>2, <3>1 DEF WordsType
  <2>5. ASSUME LaneRun PROVE words'.err = words.err
    <3>1. words' = words \/ words' = [words EXCEPT !.flag = IF words.flag < Head(lane).q THEN Head(lane).q ELSE words.flag]
      BY <2>5 DEF LaneRun
    <3> QED BY <1>2, <3>1 DEF WordsType
  <2> QED BY <2>1, <2>2, <2>3, <2>4, <2>5 DEF ThreadStep, Controls
<1>4. results' = results \/ \E a \in BOOLEAN : results' = Append(results, a)
  <2>1. ASSUME NEW s \in BOOLEAN, Serve(s) PROVE results' = results \/ results' = Append(results, TRUE)
    BY <2>1 DEF Serve, Answered
  <2>2. ASSUME SeeRequest \/ RequestLost \/ ServeFails \/ LaneRun \/ StagerStep \/ \E r \in flying : Land(r)
        PROVE results' = results
    BY <2>2 DEF SeeRequest, RequestLost, ServeFails, Land, LaneRun, StagerStep, jobVars
  <2>3. ASSUME ReplyEarly PROVE results' = results \/ results' = Append(results, TRUE)
    BY <2>3 DEF ReplyEarly, Answered
  <2>4. ASSUME ReleaseAll PROVE results' = Append(results, FALSE)
    BY <2>4 DEF ReleaseAll
  <2> QED BY <2>1, <2>2, <2>3, <2>4 DEF ThreadStep, Controls
<1>5. CASE results' = results
  BY <1>1, <1>3, <1>5 DEF Sound, JobFailed, Acc
<1>6. ASSUME NEW a \in BOOLEAN, results' = Append(results, a) PROVE (Sound' => Sound) /\ (Acc' => Acc)
  <2>1. FALSE \in Range(results) => FALSE \in Range(results')
    BY <1>2, <1>6, ResultAdded, Zenon
  <2>2. results' # <<>> /\ (results # <<>> => results'[1] = results[1])
    BY <1>2, <1>6, ResultFirst, Zenon
  <2> QED BY <1>1, <1>3, <2>1, <2>2 DEF Sound, JobFailed, Acc
<1> QED BY <1>4, <1>5, <1>6

(* No thread changes an id. *)
LEMMA ThreadTok == ASSUME RowInv, TokInv, ThreadStep PROVE TokInv'
BY ThreadLeaves, ThreadHeals, TokKept

-----------------------------------------------------------------------------
(* Copies, tables, landings and CPU rows: the host's part.                   *)

(* The numbers the requests are told by. *)
LEMMA StoreTyped ==
  ASSUME RowInv
  PROVE  /\ ctr \in Nat /\ ctl.base \in Nat /\ ctl.handed \in Nat /\ Behind \in Nat /\ Served \in Nat /\ Q = ctl.base + ctr
         /\ Q \in Nat /\ moved \in Nat /\ words \in WordsType /\ words.reply \in Nat /\ words.err \in Nat /\ words.flag \in Nat
         /\ stg \in Seq(CallType) /\ mode \in [early : BOOLEAN, la : BOOLEAN, lane : BOOLEAN]
         /\ (cphase # "next" => jobs # <<>>)
<1>1. ctr \in Nat /\ ctl.base \in Nat /\ ctl.handed \in Nat /\ Behind \in Nat
  BY DeviceBehindHost, BehindCounts DEF RowInv
<1>2. words \in WordsType /\ words.reply \in Nat /\ words.err \in Nat /\ words.flag \in Nat
  BY DEF RowInv, Shape, DeviceShape, WordsType
<1>3. moved \in Nat /\ stg \in Seq(CallType) /\ mode \in [early : BOOLEAN, la : BOOLEAN, lane : BOOLEAN]
  BY DEF RowInv, Shape, HostShape, ThreadShape
<1>4. Served \in Nat
  BY <1>1 DEF Served
<1>5. cphase # "next" => jobs # <<>>
  BY DEF RowInv, JobsInv
<1> QED BY <1>1, <1>2, <1>3, <1>4, <1>5 DEF Q, Rid

(* A call of the stager. *)
LEMMA CallOf ==
  ASSUME RowInv, NEW i \in DOMAIN stg
  PROVE  stg[i].rid \in Nat /\ stg[i].q \in Nat /\ stg[i].layer \in Nat
<1>1. stg \in Seq(CallType)
  BY StoreTyped
<1>2. stg[i] \in CallType
  BY <1>1
<1> QED BY <1>2 DEF CallType

(* While no job failed, the thread is at the device's request or has just served it. *)
LEMMA BehindDevice ==
  ASSUME RowInv, Sound
  PROVE  /\ words.reply <= Behind /\ Behind <= ctr /\ ctr <= words.reply + 1
         /\ phase # "wait" => words.reply = ctr /\ Behind = ctr
         /\ \A i \in Owed : stg[i].q = Behind /\ Behind = words.reply + 1
<1>1. /\ words.reply <= Behind /\ Behind <= ctr /\ ctr <= words.reply + 1
      /\ phase # "wait" => words.reply = ctr
      /\ \A i \in Owed : stg[i].q = Behind /\ Behind = words.reply + 1
  BY DEF RowInv, PaceInv
<1> QED BY <1>1, StoreTyped

(* Nothing of a request moved: the host queues, waits or takes a result. *)
LEMMA StoreStill ==
  ASSUME StoreInv, UNCHANGED <<mode, ring, entry, phase, ctr, tab, moved, flying, stg, lane, laneRow, xrow>>,
         cphase' = cphase \/ (cphase # "reply" /\ cphase' # "reply"),
         ctl'.base = ctl.base, Behind' = Behind,
         cphase = "reply" => Job' = Job, phase # "publish" => Top' = Top
  PROVE  StoreInv' /\ Served' = Served /\ Owed' = Owed /\ Q' = Q /\ Mine' = Mine /\ Named' = Named
<1>1. Served' = Served /\ Owed' = Owed /\ Q' = Q /\ Mine' = Mine /\ Named' = Named
  BY DEF Served, Owed, Q, Rid, Mine, Named, Slot
<1>3. /\ moved' <= ctl'.base + Served' /\ \A r \in flying' : r <= ctl'.base + Served'
      /\ \A i \in DOMAIN stg' : stg'[i].rid <= ctl'.base + Served' /\ moved' < stg'[i].rid
      /\ \A i, j \in DOMAIN stg' : i < j => stg'[i].rid < stg'[j].rid
  BY <1>1, Zenon DEF StoreInv
<1>4. \A i \in Owed' : stg'[i].rid = ctl'.base + stg'[i].q
  BY <1>1, Zenon DEF StoreInv, Rid
<1>5. cphase' = "reply" => mode'.early /\ entry'[Slot(Job'.seq)] = [seq |-> Job'.seq, late |-> TRUE]
  BY DEF StoreInv
<1>6. phase' # "publish" => ring'[Slot(ctr')] = [seq |-> ctr', layer |-> Top'.arg] /\ (mode'.lane => xrow' = Q')
  BY <1>1 DEF StoreInv
<1> QED BY <1>1, <1>3, <1>4, <1>5, <1>6 DEF StoreInv, Rid, Slot

(* What a step of the device will read stays, too. *)
LEMMA AnsStill ==
  ASSUME RowInv, StoreInv, AnsInv, LaneInv,
         UNCHANGED <<mode, ring, entry, phase, ctr, tab, moved, flying, stg, lane, laneRow, xrow>>,
         cphase' = cphase \/ (cphase # "reply" /\ cphase' # "reply"),
         ctl'.base = ctl.base, Behind' = Behind,
         cphase = "reply" => Job' = Job, phase # "publish" => Top' = Top,
         Sound' => Sound, words'.reply = words.reply,
         \/ words'.flag = words.flag /\ (ctl'.handed > 0 => ctl.handed > 0)
         \/ ctl.handed = 0 /\ lane = <<>> /\ words'.flag = 0
  PROVE  StoreInv' /\ AnsInv' /\ LaneInv'
<1>1. StoreInv' /\ Served' = Served /\ Owed' = Owed /\ Q' = Q /\ Mine' = Mine /\ Named' = Named
  BY StoreStill
<1>2. AnsInv'
  <2> SUFFICES ASSUME Sound', phase' # "publish"
               PROVE  /\ \A i \in Owed' : stg'[i].layer = Top'.arg
                      /\ mode'.early /\ Served' >= ctr' => Mine' /\ tab'[Top'.arg] = Q' /\ Copied'
                      /\ words'.reply >= ctr' =>
                           IF mode'.early THEN entry'[Slot(ctr)'].late \/ (Q' \notin flying' /\ moved' >= Q')
                                          ELSE tab'[Top'.arg] = Q' /\ moved' >= Q'
                      /\ phase' = "experts" /\ mode'.early /\ Named' => moved' >= Q'
    BY DEF AnsInv
  <2>1. Copied' = Copied /\ Slot(ctr)' = Slot(ctr) /\ Top' = Top
    BY <1>1 DEF Copied, Slot
  <2> QED BY <1>1, <2>1 DEF AnsInv
<1>3. LaneInv'
  <2>1. CASE words'.flag = words.flag /\ (ctl'.handed > 0 => ctl.handed > 0)
    BY <1>1, <2>1 DEF LaneInv
  <2>2. CASE ctl.handed = 0 /\ lane = <<>> /\ words'.flag = 0
    <3>1. ctr = 0 /\ Behind \in Nat
      BY <2>2, DeviceBehindHost, StoreTyped
    <3>2. phase = "publish"
      BY <3>1 DEF RowInv, QueueInv
    <3> QED BY <2>2, <3>1, <3>2 DEF LaneInv
  <2> QED BY <2>1, <2>2
<1> QED BY <1>1, <1>2, <1>3

(* The host at a step that hands nothing over. *)
LEMMA HostQuiet ==
  ASSUME RowInv, StoreInv, AnsInv, LaneInv,
         UNCHANGED <<mode, words, ring, entry, phase, ctr, jobs, cphase, tab, moved, flying, stg, lane, laneRow, xrow>>,
         ctl'.base = ctl.base, ctl'.handed = ctl.handed,
         phase # "publish" => Top' = Top, Sound' => Sound
  PROVE  StoreInv' /\ AnsInv' /\ LaneInv'
<1>1. Behind' = Behind /\ (cphase = "reply" => Job' = Job)
  BY DEF Behind, Job
<1> QED BY <1>1, AnsStill

(* A job handed over: the one in hand is the same. *)
LEMMA HandedStore ==
  ASSUME RowInv, StoreInv, AnsInv, LaneInv, Handed,
         UNCHANGED <<mode, ring, entry, phase, ctr, cphase, results, tab, moved, flying, stg, lane, laneRow, xrow>>,
         phase # "publish" => Top' = Top
  PROVE  StoreInv' /\ AnsInv' /\ LaneInv'
<1>1. /\ ctl'.base = ctl.base /\ ctl'.poisoned = ctl.poisoned /\ Behind' = Behind
      /\ words'.reply = words.reply /\ words'.err = words.err
  BY JobHanded
<1>2. Sound' => Sound
  BY <1>1 DEF Sound, JobFailed
<1>3. cphase = "reply" => Job' = Job
  <2> SUFFICES ASSUME cphase = "reply" PROVE Job' = Job
    OBVIOUS
  <2>1. jobs # <<>> /\ jobs \in Seq(JobType) /\ Job = jobs[1]
    BY StoreTyped, JobInHand
  <2>2. PICK j : jobs' = Append(jobs, j)
    BY DEF Handed
  <2>3. jobs' # <<>> /\ jobs'[1] = jobs[1] /\ Head(jobs') = jobs'[1]
    BY <2>1, <2>2
  <2> QED BY <2>1, <2>3 DEF Job
<1>4. \/ words'.flag = words.flag /\ (ctl'.handed > 0 => ctl.handed > 0)
      \/ ctl.handed = 0 /\ lane = <<>> /\ words'.flag = 0
  <2>1. words \in WordsType /\ ctl.handed \in Nat
    BY StoreTyped
  <2>2. CASE ctl.handed = 0
    <3>1. lane = <<>> /\ words' = [words EXCEPT !.flag = 0]
      BY <2>2 DEF Handed
    <3> QED BY <2>1, <2>2, <3>1 DEF WordsType
  <2>3. CASE ctl.handed # 0
    BY <2>1, <2>3 DEF Handed
  <2> QED BY <2>2, <2>3
<1> QED BY <1>1, <1>2, <1>3, <1>4, AnsStill

(* set_switches: the requests of the new controller come behind the old one's. *)
LEMMA NewSwitchesStore == ASSUME RowInv, StoreInv, NewSwitches PROVE StoreInv' /\ AnsInv' /\ LaneInv'
<1>1. /\ stream = <<>> /\ jobs = <<>> /\ ctl'.handed = 0 /\ ctl'.base = ctl.base + ctl.handed
      /\ UNCHANGED <<mode, phase, jobs, cphase, tab, moved, flying, stg, lane, laneRow, xrow>>
  BY DEF NewSwitches, hostVars, jobVars, storeVars, laneVars
<1>2. phase = "publish" /\ cphase = "next"
  BY <1>1 DEF RowInv, QueueInv, JobsInv
<1>3. Served = ctl.handed /\ Served' = 0 /\ ctl'.base + Served' = ctl.base + Served
  BY <1>1, <1>2, StoreTyped DEF Served, Behind
<1>4. \A i \in DOMAIN stg : stg[i].rid <= ctl.base + ctl.handed /\ stg[i].rid \in Nat
  BY CallOf DEF RowInv, StagerInv
<1>5. Owed' = {}
  BY <1>1, <1>4, StoreTyped DEF Owed
<1>6. /\ moved' <= ctl'.base + Served' /\ \A r \in flying' : r <= ctl'.base + Served'
      /\ \A i \in DOMAIN stg' : stg'[i].rid <= ctl'.base + Served' /\ moved' < stg'[i].rid
      /\ \A i, j \in DOMAIN stg' : i < j => stg'[i].rid < stg'[j].rid
  BY <1>1, <1>3, Zenon DEF StoreInv
<1> QED BY <1>1, <1>2, <1>5, <1>6 DEF StoreInv, AnsInv, LaneInv

(* The first launch is the same with more behind it. *)
LEMMA TopKept ==
  ASSUME RowInv, NEW x \in Seq(StreamOps), stream' = stream \o x, phase # "publish"
  PROVE  Top' = Top
<1>1. stream \in Seq(StreamOps) /\ stream # <<>>
  BY StreamTyped DEF RowInv, QueueInv
<1>2. stream' # <<>> /\ stream'[1] = stream[1] /\ Head(stream') = stream'[1] /\ Head(stream) = stream[1]
  BY <1>1
<1> QED BY <1>2 DEF Top

(* The same of one launch. *)
LEMMA TopAppended ==
  ASSUME RowInv, NEW x \in StreamOps, stream' = Append(stream, x), phase # "publish"
  PROVE  Top' = Top
<1>1. stream \in Seq(StreamOps)
  BY StreamTyped
<1>2. <<x>> \in Seq(StreamOps) /\ stream' = stream \o <<x>>
  BY <1>1
<1> QED BY <1>2, TopKept, Zenon

(* The host's part. *)
LEMMA HostStore ==
  ASSUME RowInv, StoreInv, AnsInv, LaneInv, HostStep
  PROVE  StoreInv' /\ AnsInv' /\ LaneInv'
<1> DEFINE Goal == StoreInv' /\ AnsInv' /\ LaneInv'
           Quiet == UNCHANGED <<mode, words, ring, entry, phase, ctr, jobs, cphase, tab, moved, flying, stg, lane,
                                laneRow, xrow>>
<1> HIDE DEF Goal
<1>q. ASSUME Quiet, ctl'.base = ctl.base, ctl'.handed = ctl.handed, phase # "publish" => Top' = Top,
             Sound' => Sound
      PROVE  Goal
  BY <1>q, HostQuiet DEF Goal
<1> USE DEF hostVars, devVars, jobVars, storeVars, laneVars
<1>t. ctl \in CtlType /\ words \in WordsType /\ results \in Seq(BOOLEAN)
  BY DEF RowInv, Shape, HostShape, DeviceShape, ThreadShape
<1>1. ASSUME Fail PROVE Goal
  BY <1>1, <1>q DEF Fail, Top, Sound, JobFailed
<1>2. ASSUME NEW kind, NEW t, Call(kind, t) PROVE Goal
  BY <1>2, <1>q DEF Call, Top, Sound, JobFailed
<1>3. ASSUME DropAhead \/ Joined PROVE Goal
  <2>1. PICK a \in BOOLEAN : ctl' = [ctl EXCEPT !.poisoned = a] /\ a = (ctl.poisoned \/ ~(Head(results) /\ words.err = 0))
    <3>1. PICK a \in BOOLEAN : a = (ctl.poisoned \/ ~(Head(results) /\ words.err = 0))
      BY Zenon
    <3>2. ctl' = [ctl EXCEPT !.poisoned = ctl.poisoned \/ ~(Head(results) /\ words.err = 0)]
      BY <1>3 DEF DropAhead, Joined
    <3> QED BY <3>1, <3>2, Zenon
  <2>2. ctl'.base = ctl.base /\ ctl'.handed = ctl.handed /\ ctl'.poisoned = a
    <3>1. ctl \in CtlType /\ a \in BOOLEAN /\ ctl' = [ctl EXCEPT !.poisoned = a]
      BY <1>t, <2>1, Zenon
    <3> QED BY <3>1, CtlPoison, Zenon
  <2>3. results # <<>> /\ results' = Tail(results) /\ Quiet /\ stream' = stream
    <3>1. CASE DropAhead
      BY <3>1 DEF DropAhead
    <3>2. CASE Joined
      BY <3>2 DEF Joined
    <3> QED BY <1>3, <3>1, <3>2, Zenon
  <2>4. Sound' => Sound
    <3>1. ctl'.poisoned = (ctl.poisoned \/ ~(Head(results) /\ words.err = 0))
      BY <2>1, <2>2, Zenon
    <3>2. ThreadShape
      BY DEF RowInv, Shape
    <3> QED BY <2>3, <3>1, <3>2, ResultTaken, Zenon
  <2> QED BY <1>q, <2>2, <2>3, <2>4 DEF Top
<1>4. ASSUME StartRow PROVE Goal
  <2>1. /\ Handed /\ stream' = Append(stream, [op |-> "start", arg |-> call.tok])
        /\ UNCHANGED <<mode, ring, entry, phase, ctr, cphase, results, tab, moved, flying, stg, lane, laneRow, xrow>>
    BY <1>4 DEF StartRow
  <2>2. [op |-> "start", arg |-> call.tok] \in StreamOps
    BY DEF StreamOps, RowInv, Shape, HostShape
  <2>3. phase # "publish" => Top' = Top
    BY <2>1, <2>2, TopAppended
  <2> QED BY <2>1, <2>3, HandedStore DEF Goal
<1>5. ASSUME Pace PROVE Goal
  BY <1>5, <1>q DEF Pace, Top, Sound, JobFailed
<1>6. ASSUME PaceFails PROVE Goal
  <2>1. ctl' = [ctl EXCEPT !.cancel = TRUE, !.poisoned = TRUE] /\ Quiet /\ stream' = stream
    BY <1>6 DEF PaceFails, EnqueueFails
  <2>2. ctl'.base = ctl.base /\ ctl'.handed = ctl.handed /\ ctl'.poisoned = TRUE
    BY <1>t, <2>1, CtlCancel
  <2>3. ~Sound'
    BY <2>2 DEF Sound, JobFailed
  <2> QED BY <1>q, <2>1, <2>2, <2>3 DEF Top
<1>7. ASSUME Launch PROVE Goal
  <2>1. /\ stream' = Append(stream, [op |-> "layer", arg |-> laid + 1]) /\ ctl' = [ctl EXCEPT !.queued = ctl.queued + 1]
        /\ Quiet /\ results' = results /\ pc = "launch"
    BY <1>7 DEF Launch
  <2>2. ctl'.base = ctl.base /\ ctl'.handed = ctl.handed /\ ctl'.poisoned = ctl.poisoned
    BY <1>t, <2>1 DEF CtlType
  <2>3. [op |-> "layer", arg |-> laid + 1] \in StreamOps
    <3>1. laid + 1 \in LayerIds
      BY <2>1, ControllerAssumption DEF RowInv, Shape, HostShape, LaidInv, LayerIds
    <3> QED BY <3>1 DEF StreamOps
  <2>4. phase # "publish" => Top' = Top
    BY <2>1, <2>3, TopAppended
  <2> QED BY <1>q, <2>1, <2>2, <2>4 DEF Sound, JobFailed
<1>8. ASSUME HeadRow PROVE Goal
  <2>1. UNCHANGED <<mode, ring, entry, phase, ctr, cphase, results, tab, moved, flying, stg, lane, laneRow, xrow>>
    BY <1>8 DEF HeadRow
  <2>2. CASE mode.la
    <3>1. Handed /\ stream' = stream \o RowAhead
      BY <1>8, <2>2 DEF HeadRow, RowAhead
    <3>2. RowAhead \in Seq(StreamOps)
      BY DEF RowAhead, StreamOps
    <3>3. phase # "publish" => Top' = Top
      BY <3>1, <3>2, TopKept, Zenon
    <3> QED BY <2>1, <3>1, <3>3, HandedStore DEF Goal
  <2>3. CASE ~mode.la
    <3>1. stream' = Append(stream, [op |-> "head", arg |-> 0]) /\ UNCHANGED <<ctl, words, jobs>>
      BY <1>8, <2>3 DEF HeadRow
    <3>2. [op |-> "head", arg |-> 0] \in StreamOps
      BY DEF StreamOps
    <3>3. phase # "publish" => Top' = Top
      BY <3>1, <3>2, TopAppended
    <3> QED BY <1>q, <2>1, <3>1, <3>3 DEF Sound, JobFailed
  <2> QED BY <2>2, <2>3
<1>9. ASSUME Drain PROVE Goal
  <2>1. pc = "drain" /\ Quiet /\ ctl' = ctl /\ stream' = stream
    BY <1>9 DEF Drain
  <2>2. ~Sound'
    BY <2>1 DEF Sound, JobFailed, RowInv, RowsInv
  <2> QED BY <1>q, <2>1, <2>2 DEF Top
<1>10. ASSUME NewSwitches PROVE Goal
  BY <1>10, NewSwitchesStore DEF Goal
<1>11. Goal
  BY <1>1, <1>2, <1>3, <1>4, <1>5, <1>6, <1>7, <1>8, <1>9, <1>10, Zenon DEF HostStep, Host
<1> QED BY <1>11 DEF Goal

-----------------------------------------------------------------------------
(* The threads' part.                                                        *)

(* The layer the device is at. *)
LEMMA TopLayer ==
  ASSUME RowInv, phase # "publish"
  PROVE  stream # <<>> /\ Top \in StreamOps /\ Top.op = "layer" /\ Top.arg \in LayerIds
<1>1. stream # <<>> /\ Top.op = "layer" /\ stream \in Seq(StreamOps)
  BY StreamTyped DEF RowInv, QueueInv
<1>2. Top \in StreamOps
  BY <1>1 DEF Top
<1> QED BY <1>1, <1>2 DEF StreamOps

(* A request seen, or a job given up: nothing moved. *)
LEMMA ThreadQuiet ==
  ASSUME RowInv, StoreInv, AnsInv, LaneInv, SeeRequest \/ RequestLost \/ ServeFails
  PROVE  StoreInv' /\ AnsInv' /\ LaneInv'
<1>1. /\ UNCHANGED <<mode, ctl, words, ring, entry, stream, phase, ctr, jobs, results, tab, moved, flying, stg,
                     lane, laneRow, xrow>>
      /\ cphase # "reply" /\ cphase' # "reply"
  <2> USE DEF hostVars, devVars, storeVars, laneVars
  <2>1. CASE SeeRequest
    BY <2>1 DEF SeeRequest
  <2>2. CASE RequestLost
    BY <2>2 DEF RequestLost
  <2>3. CASE ServeFails
    BY <2>3 DEF ServeFails
  <2> QED BY <2>1, <2>2, <2>3
<1>2. Behind' = Behind /\ Top' = Top /\ (Sound' => Sound)
  BY <1>1 DEF Behind, Top, Sound, JobFailed
<1> QED BY <1>1, <1>2, AnsStill

(* A record landed. *)
LEMMA LandStore ==
  ASSUME RowInv, StoreInv, AnsInv, LaneInv, NEW r, Land(r)
  PROVE  StoreInv' /\ AnsInv' /\ LaneInv'
<1>1. /\ flying' \subseteq flying
      /\ UNCHANGED <<mode, ctl, words, ring, entry, stream, phase, ctr, jobs, cphase, results, tab, moved, stg,
                     lane, laneRow, xrow>>
  BY DEF Land, hostVars, devVars, jobVars, laneVars
<1>2. /\ Served' = Served /\ Behind' = Behind /\ Owed' = Owed /\ Q' = Q /\ Mine' = Mine /\ Named' = Named
      /\ Copied' = Copied /\ Top' = Top /\ Job' = Job /\ Sound' = Sound
  BY <1>1 DEF Served, Behind, Owed, Q, Rid, Mine, Named, Slot, Copied, Top, Job, Sound, JobFailed
<1>3. StoreInv'
  BY <1>1, <1>2 DEF StoreInv, Rid, Slot
<1>4. AnsInv'
  BY <1>1, <1>2 DEF AnsInv, Slot
<1>5. LaneInv'
  BY <1>1, <1>2 DEF LaneInv
<1> QED BY <1>3, <1>4, <1>5

(* ReleaseAll: a job has failed. *)
LEMMA ReleaseAllStore ==
  ASSUME RowInv, StoreInv, ReleaseAll
  PROVE  StoreInv' /\ AnsInv' /\ LaneInv'
<1>1. /\ cphase = "failed" /\ cphase' = "next" /\ stg = <<>> /\ jobs' = Tail(jobs) /\ results' = Append(results, FALSE)
      /\ UNCHANGED <<mode, ctl, ring, entry, stream, phase, ctr, tab, moved, flying, stg, lane, laneRow, xrow>>
  BY DEF ReleaseAll, hostVars, devVars, storeVars, laneVars
<1>2. jobs # <<>> /\ ctl.base \in Nat
  BY <1>1, StoreTyped
<1>3. Behind' = Job.seq + Job.left - 1
  BY <1>1, <1>2, JobDropped
<1>4. Behind = Job.seq - 1 /\ Job.seq \in Nat \ {0} /\ Job.left \in Nat \ {0}
  BY <1>2, JobInHand
<1>5. Served = Behind /\ Served' = Behind' /\ Served \in Nat /\ Served' \in Nat /\ Served <= Served'
  BY <1>1, <1>3, <1>4 DEF Served
<1>6. ~Sound'
  <2>1. results \in Seq(BOOLEAN)
    BY DEF RowInv, Shape, ThreadShape
  <2>2. FALSE \in Range(results')
    BY <1>1, <2>1, ResultAdded, Zenon
  <2> QED BY <2>2 DEF Sound, JobFailed
<1>7. moved' <= ctl'.base + Served' /\ \A r \in flying' : r <= ctl'.base + Served'
  <2>1. moved \in Nat /\ flying \in SUBSET Nat
    BY DEF RowInv, Shape, ThreadShape
  <2>2. moved <= ctl.base + Served /\ \A r \in flying : r <= ctl.base + Served
    BY DEF StoreInv
  <2> QED BY <1>1, <1>2, <1>5, <2>1, <2>2
<1>8. DOMAIN stg' = {} /\ Owed' = {} /\ Q' = Q /\ Top' = Top
  BY <1>1 DEF Owed, Q, Rid, Top
<1>9. StoreInv'
  BY <1>1, <1>7, <1>8 DEF StoreInv, Slot
<1> QED BY <1>6, <1>9 DEF AnsInv, LaneInv

(* One off the front of the stager's calls. *)
LEMMA CallsTail ==
  ASSUME NEW s \in Seq(CallType), s # <<>>
  PROVE  /\ Head(s) = s[1] /\ 1 \in DOMAIN s
         /\ \A i \in DOMAIN Tail(s) : i + 1 \in DOMAIN s /\ i \in Nat \ {0} /\ Tail(s)[i] = s[i + 1]
         /\ \A i \in DOMAIN s : i # 1 => i - 1 \in DOMAIN Tail(s) /\ Tail(s)[i - 1] = s[i]
<1>1. /\ Len(s) \in Nat \ {0} /\ Head(s) = s[1] /\ DOMAIN s = 1 .. Len(s) /\ DOMAIN Tail(s) = 1 .. Len(s) - 1
      /\ \A i \in 1 .. Len(s) - 1 : Tail(s)[i] = s[i + 1]
      /\ \A i \in 1 .. Len(s) : i # 1 => i - 1 \in 1 .. Len(s) - 1 /\ Tail(s)[i - 1] = s[i]
  BY HeadTail
<1>2. \A i \in 1 .. Len(s) - 1 : i + 1 \in 1 .. Len(s) /\ i \in Nat \ {0}
  BY <1>1
<1>3. 1 \in 1 .. Len(s)
  BY <1>1
<1> QED BY <1>1, <1>2, <1>3, Zenon

(* A call's copies, of a late or serial answer its table and reply: the calls *)
(* behind it are of later requests.                                           *)
LEMMA StagerStepStore ==
  ASSUME RowInv, StoreInv, AnsInv, LaneInv, StagerStep
  PROVE  StoreInv' /\ AnsInv' /\ LaneInv'
<1> DEFINE c == stg[1]
<1>1. /\ stg # <<>> /\ stg' = Tail(stg) /\ moved' = Head(stg).rid /\ (Head(stg).q # 0 => Head(stg).rid \notin flying)
      /\ tab' = (IF mode.early THEN tab ELSE [tab EXCEPT ![Head(stg).layer] = Head(stg).rid])
      /\ words' = (IF Head(stg).q # 0 /\ Head(stg).rid > ctl.base THEN [words EXCEPT !.reply = Head(stg).q] ELSE words)
      /\ UNCHANGED <<mode, ctl, ring, entry, stream, phase, ctr, jobs, cphase, results, flying, lane, laneRow, xrow>>
  BY DEF StagerStep, hostVars, devVars, jobVars, laneVars
<1>2. /\ Head(stg) = c /\ 1 \in DOMAIN stg
      /\ \A i \in DOMAIN stg' : i + 1 \in DOMAIN stg /\ i \in Nat \ {0} /\ stg'[i] = stg[i + 1]
      /\ \A i \in DOMAIN stg : i # 1 => i - 1 \in DOMAIN stg' /\ stg'[i - 1] = stg[i]
  BY <1>1, StoreTyped, CallsTail
<1>3. c.rid \in Nat /\ c.q \in Nat /\ c.layer \in Nat /\ moved' = c.rid /\ moved < c.rid /\ c.rid <= ctl.base + Served
  BY <1>1, <1>2, CallOf DEF StoreInv
<1>4. /\ Served' = Served /\ Behind' = Behind /\ Q' = Q /\ Mine' = Mine /\ Named' = Named
      /\ Top' = Top /\ Job' = Job
  BY <1>1 DEF Served, Behind, Q, Rid, Mine, Named, Slot, Top, Job
<1>s. Sound' => Sound
  BY ThreadHeals DEF ThreadStep
<1>5. \A i \in Owed' : i + 1 \in Owed /\ stg'[i] = stg[i + 1]
  BY <1>1, <1>2 DEF Owed
<1>6. StoreInv'
  <2>1. moved' <= ctl'.base + Served' /\ \A r \in flying' : r <= ctl'.base + Served'
    BY <1>1, <1>3, <1>4 DEF StoreInv
  <2>2. ASSUME NEW i \in DOMAIN stg' PROVE stg'[i].rid <= ctl'.base + Served' /\ moved' < stg'[i].rid
    <3>1. i + 1 \in DOMAIN stg /\ 1 < i + 1 /\ stg'[i] = stg[i + 1]
      BY <1>2
    <3> QED BY <1>1, <1>2, <1>3, <1>4, <3>1 DEF StoreInv
  <2>3. ASSUME NEW i \in DOMAIN stg', NEW j \in DOMAIN stg', i < j PROVE stg'[i].rid < stg'[j].rid
    <3>1. i + 1 \in DOMAIN stg /\ j + 1 \in DOMAIN stg /\ i + 1 < j + 1 /\ stg'[i] = stg[i + 1] /\ stg'[j] = stg[j + 1]
      BY <1>2, <2>3
    <3> QED BY <3>1 DEF StoreInv
  <2>4. \A i \in Owed' : stg'[i].rid = ctl'.base + stg'[i].q
    <3>1. \A i \in Owed : stg[i].rid = ctl.base + stg[i].q
      BY DEF StoreInv, Rid
    <3> QED BY <1>1, <1>5, <3>1, Zenon
  <2>5. cphase' = "reply" => mode'.early /\ entry'[Slot(Job'.seq)] = [seq |-> Job'.seq, late |-> TRUE]
    BY <1>1, <1>4 DEF StoreInv
  <2>6. phase' # "publish" => ring'[Slot(ctr')] = [seq |-> ctr', layer |-> Top'.arg] /\ (mode'.lane => xrow' = Q')
    BY <1>1, <1>4 DEF StoreInv
  <2> QED BY <2>1, <2>2, <2>3, <2>4, <2>5, <2>6 DEF StoreInv, Rid, Slot
<1>7. words'.err = words.err /\ words'.flag = words.flag
      /\ (words'.reply = words.reply \/ (1 \in Owed /\ words'.reply = c.q))
  <2>1. words \in WordsType
    BY StoreTyped
  <2>2. CASE c.q # 0 /\ c.rid > ctl.base
    <3>1. words' = [words EXCEPT !.reply = c.q] /\ 1 \in Owed
      BY <1>1, <1>2, <2>2 DEF Owed
    <3> QED BY <2>1, <3>1 DEF WordsType
  <2>3. CASE ~(c.q # 0 /\ c.rid > ctl.base)
    BY <1>1, <1>2, <2>3
  <2> QED BY <2>2, <2>3
<1>8. AnsInv'
  <2> SUFFICES ASSUME Sound', phase' # "publish"
               PROVE  /\ \A i \in Owed' : stg'[i].layer = Top'.arg
                      /\ mode'.early /\ Served' >= ctr' => Mine' /\ tab'[Top'.arg] = Q' /\ Copied'
                      /\ words'.reply >= ctr' =>
                           IF mode'.early THEN entry'[Slot(ctr)'].late \/ (Q' \notin flying' /\ moved' >= Q')
                                          ELSE tab'[Top'.arg] = Q' /\ moved' >= Q'
                      /\ phase' = "experts" /\ mode'.early /\ Named' => moved' >= Q'
    BY DEF AnsInv
  <2>0. Sound /\ phase # "publish" /\ Slot(ctr)' = Slot(ctr)
    BY <1>1, <1>s DEF Slot
  <2>n. moved \in Nat /\ moved' \in Nat /\ Q \in Nat /\ ctl.base \in Nat /\ ctr \in Nat /\ words.reply \in Nat /\ moved <= moved'
        /\ Q = ctl.base + ctr /\ Served \in Nat /\ Behind \in Nat
    BY <1>3, StoreTyped
  <2>a. /\ \A i \in Owed : stg[i].layer = Top.arg
        /\ mode.early /\ Served >= ctr => Mine /\ tab[Top.arg] = Q /\ Copied
        /\ words.reply >= ctr =>
             IF mode.early THEN entry[Slot(ctr)].late \/ (Q \notin flying /\ moved >= Q)
                           ELSE tab[Top.arg] = Q /\ moved >= Q
        /\ phase = "experts" /\ mode.early /\ Named => moved >= Q
    BY <2>0 DEF AnsInv
  <2>1. \A i \in Owed' : stg'[i].layer = Top'.arg
    BY <1>4, <1>5, <2>a
  <2>2. Copied => Copied'
    <3>1. CASE moved >= Q
      BY <1>4, <2>n, <3>1 DEF Copied
    <3>2. ASSUME NEW i \in DOMAIN stg, stg[i].rid = Q PROVE Copied'
      <4>1. CASE i = 1
        BY <1>3, <1>4, <2>n, <3>2, <4>1 DEF Copied
      <4>2. CASE i # 1
        BY <1>2, <1>4, <3>2, <4>2, Zenon DEF Copied
      <4> QED BY <4>1, <4>2
    <3> QED BY <3>1, <3>2 DEF Copied
  <2>3. mode'.early /\ Served' >= ctr' => Mine' /\ tab'[Top'.arg] = Q' /\ Copied'
    BY <1>1, <1>4, <2>2, <2>a
  <2>4. phase' = "experts" /\ mode'.early /\ Named' => moved' >= Q'
    BY <1>1, <1>4, <2>n, <2>a
  <2>5. words'.reply >= ctr' =>
          IF mode'.early THEN entry'[Slot(ctr)'].late \/ (Q' \notin flying' /\ moved' >= Q')
                         ELSE tab'[Top'.arg] = Q' /\ moved' >= Q'
    <3>1. CASE 1 \in Owed /\ words'.reply = c.q
      <4>1. c.q = ctr /\ c.rid = Q /\ c.layer = Top.arg /\ c.q # 0
        <5>1. c.q = Behind /\ Behind = words.reply + 1 /\ Behind <= ctr /\ ctr <= words.reply + 1
          BY <2>0, <3>1, BehindDevice
        <5>2. c.rid = ctl.base + c.q /\ c.layer = Top.arg /\ c.q # 0
          BY <2>a, <3>1 DEF StoreInv, Rid, Owed
        <5> QED BY <2>n, <5>1, <5>2
      <4>2. Q \notin flying /\ moved' = Q
        BY <1>1, <1>2, <1>3, <4>1
      <4>3. ~mode.early => tab'[Top.arg] = Q
        <5>1. tab \in [LayerIds -> Nat]
          BY DEF RowInv, Shape, ThreadShape
        <5>2. Top.arg \in LayerIds
          BY <2>0, TopLayer
        <5> QED BY <1>1, <1>2, <4>1, <5>1, <5>2
      <4> QED BY <1>1, <1>4, <2>n, <4>2, <4>3
    <3>2. CASE words'.reply = words.reply /\ words.reply >= ctr
      <4>1. CASE mode.early
        BY <1>1, <1>4, <2>0, <2>a, <2>n, <3>2, <4>1
      <4>2. CASE ~mode.early
        <5>1. moved >= Q
          BY <2>a, <3>2, <4>2
        <5>2. Behind <= ctr
          BY <2>0, BehindDevice
        <5>3. Served = Behind
          BY <2>n, <4>2 DEF Served, StoreInv
        <5> QED BY <1>3, <2>n, <5>1, <5>2, <5>3
      <4> QED BY <4>1, <4>2
    <3>3. CASE words'.reply = words.reply /\ ~(words.reply >= ctr)
      BY <1>1, <3>3
    <3> QED BY <1>7, <3>1, <3>2, <3>3
  <2> QED BY <2>1, <2>3, <2>4, <2>5
<1>9. LaneInv'
  BY <1>1, <1>4, <1>7, <1>s DEF LaneInv
<1> QED BY <1>6, <1>8, <1>9

(* The thread at a request while no job failed: the device waits for its answer. *)
LEMMA ThreadAtWait ==
  ASSUME RowInv, Sound, cphase \in {"read", "reply"}
  PROVE  /\ Job.seq = ctr /\ ctr = words.reply + 1 /\ Behind = ctr - 1 /\ phase = "wait" /\ Owed = {} /\ ctr \in Nat
<1>1. jobs # <<>>
  BY StoreTyped
<1>2. Job.seq = words.reply + 1 /\ Job.seq = ctr /\ words.reply \in Nat /\ Owed = {} /\ Behind = Job.seq - 1
  BY <1>1, AnswerNext, JobInHand
<1>3. phase # "wait" => words.reply = ctr
  BY BehindDevice
<1> QED BY <1>2, <1>3

(* The lane's job of the request answered, and of no other. *)
LEMMA LaneGiven ==
  ASSUME RowInv, LaneInv, Sound, cphase \in {"read", "reply"}, ToLane, Behind' = ctr, words'.flag = words.flag,
         UNCHANGED <<mode, phase, ctr, ctl, laneRow>>
  PROVE  LaneInv'
<1> SUFFICES ASSUME ctl.handed > 0, mode.lane
             PROVE  words'.flag <= Behind' /\ phase' # "publish" /\ words'.flag # ctr'
                    /\ Behind' >= ctr' /\ lane' = <<[q |-> ctr', rid |-> Q']>>
  BY DEF LaneInv
<1>1. Job.seq = ctr /\ Behind = ctr - 1 /\ phase = "wait" /\ ctr \in Nat /\ words.flag \in Nat
  BY ThreadAtWait, StoreTyped
<1>2. words.flag <= Behind /\ (words.flag # ctr => lane = <<>>)
  <2>1. words.flag <= Behind /\ (words.flag # ctr => lane = IF Behind >= ctr THEN <<[q |-> ctr, rid |-> Q]>> ELSE <<>>)
    BY <1>1 DEF LaneInv
  <2>2. ~(Behind >= ctr)
    BY <1>1
  <2> QED BY <2>1, <2>2
<1>3. words.flag # ctr /\ lane = <<>> /\ words.flag <= ctr
  BY <1>1, <1>2
<1>4. lane' = <<[q |-> ctr, rid |-> Q]>>
  <2>1. lane' = Append(lane, [q |-> Job.seq, rid |-> Rid(Job.seq)])
    BY DEF ToLane
  <2>2. Append(<<>>, [q |-> ctr, rid |-> Q]) = <<[q |-> ctr, rid |-> Q]>>
    OBVIOUS
  <2> QED BY <1>1, <1>3, <2>1, <2>2 DEF Q
<1>5. Q' = Q
  BY DEF Q, Rid
<1> QED BY <1>1, <1>3, <1>4, <1>5

(* EarlyReply::reply: what the word answers is in place. *)
LEMMA ReplyEarlyStore ==
  ASSUME RowInv, StoreInv, AnsInv, LaneInv, ReplyEarly
  PROVE  StoreInv' /\ AnsInv' /\ LaneInv'
<1>1. /\ cphase = "reply" /\ Answered /\ ToLane
      /\ words' = [words EXCEPT !.reply = IF words.reply < Job.seq THEN Job.seq ELSE words.reply]
      /\ UNCHANGED <<mode, ctl, ring, entry, stream, phase, ctr, tab, moved, flying, stg, laneRow, xrow>>
  BY DEF ReplyEarly, hostVars, devVars, storeVars
<1>2. jobs # <<>> /\ words \in WordsType /\ ctr \in Nat
  BY <1>1, StoreTyped
<1>3. Behind' = Job.seq /\ cphase' = "next"
  BY <1>1, <1>2, AnsweredInv
<1>4. Behind = Job.seq - 1 /\ Job.seq \in Nat \ {0}
  BY <1>2, JobInHand
<1>5. Served = Job.seq /\ Served' = Served
  BY <1>1, <1>3, <1>4 DEF Served
<1>6. words'.flag = words.flag /\ words'.err = words.err
      /\ words'.reply = IF words.reply < Job.seq THEN Job.seq ELSE words.reply
  BY <1>1, <1>2 DEF WordsType
<1>7. Q' = Q /\ Mine' = Mine /\ Named' = Named /\ Owed' = Owed /\ Top' = Top /\ Copied' = Copied /\ Slot(ctr)' = Slot(ctr)
  BY <1>1 DEF Q, Rid, Mine, Named, Slot, Owed, Top, Copied
<1>s. Sound' => Sound
  BY ThreadHeals DEF ThreadStep, Controls
<1>8. StoreInv'
  BY <1>1, <1>3, <1>5, <1>7 DEF StoreInv, Rid, Slot
<1>9. AnsInv'
  <2> SUFFICES ASSUME Sound', phase' # "publish"
               PROVE  /\ \A i \in Owed' : stg'[i].layer = Top'.arg
                      /\ mode'.early /\ Served' >= ctr' => Mine' /\ tab'[Top'.arg] = Q' /\ Copied'
                      /\ words'.reply >= ctr' =>
                           IF mode'.early THEN entry'[Slot(ctr)'].late \/ (Q' \notin flying' /\ moved' >= Q')
                                          ELSE tab'[Top'.arg] = Q' /\ moved' >= Q'
                      /\ phase' = "experts" /\ mode'.early /\ Named' => moved' >= Q'
    BY DEF AnsInv, Slot
  <2>1. Sound /\ Job.seq = ctr /\ phase = "wait" /\ Owed = {}
    BY <1>1, <1>s, ThreadAtWait
  <2>2. mode.early /\ entry[Slot(ctr)].late
    BY <1>1, <2>1 DEF StoreInv
  <2>3. mode'.early /\ Served' >= ctr' => Mine' /\ tab'[Top'.arg] = Q' /\ Copied'
    BY <1>1, <1>5, <1>7, <2>1 DEF AnsInv
  <2> QED BY <1>1, <1>7, <2>1, <2>2, <2>3
<1>10. LaneInv'
  <2>1. CASE Sound'
    <3>1. Sound /\ Behind' = ctr
      BY <1>1, <1>3, <1>s, <2>1, ThreadAtWait
    <3> QED BY <1>1, <1>6, <3>1, LaneGiven
  <2>2. CASE ~Sound'
    BY <2>2 DEF LaneInv
  <2> QED BY <2>1, <2>2
<1> QED BY <1>8, <1>9, <1>10

(* The CPU lane's thread: the row of the request the device stands at. *)
LEMMA LaneRunStore ==
  ASSUME RowInv, StoreInv, AnsInv, LaneInv, LaneRun
  PROVE  StoreInv' /\ AnsInv' /\ LaneInv'
<1> DEFINE j == Head(lane)
<1>1. /\ lane # <<>> /\ lane' = Tail(lane)
      /\ \/ /\ laneRow' = (IF xrow = j.rid THEN j.rid ELSE 0)
            /\ words' = [words EXCEPT !.flag = IF words.flag < j.q THEN j.q ELSE words.flag]
         \/ (ctr > j.q \/ phase = "publish") /\ UNCHANGED <<laneRow, words>>
      /\ UNCHANGED <<mode, ctl, ring, entry, stream, phase, ctr, jobs, cphase, results, tab, moved, flying, stg, xrow>>
  BY DEF LaneRun, hostVars, devVars, jobVars, storeVars
<1>2. words'.reply = words.reply /\ words'.err = words.err
  <2>1. words \in WordsType
    BY StoreTyped
  <2> QED BY <1>1, <2>1 DEF WordsType
<1>3. /\ Served' = Served /\ Behind' = Behind /\ Owed' = Owed /\ Q' = Q /\ Mine' = Mine /\ Named' = Named
      /\ Copied' = Copied /\ Top' = Top /\ Job' = Job /\ (Sound' => Sound)
  BY <1>1, <1>2 DEF Served, Behind, Owed, Q, Rid, Mine, Named, Slot, Copied, Top, Job, Sound, JobFailed
<1>4. StoreInv'
  BY <1>1, <1>3 DEF StoreInv, Rid, Slot
<1>5. AnsInv'
  BY <1>1, <1>2, <1>3 DEF AnsInv, Slot
<1>6. LaneInv'
  <2> SUFFICES ASSUME Sound', ctl.handed > 0, mode.lane
               PROVE  words'.flag <= Behind' /\ phase' # "publish" /\ words'.flag = ctr' /\ lane' = <<>> /\ laneRow' = Q'
    BY <1>1 DEF LaneInv
  <2>1. Sound /\ phase # "publish" /\ words.flag # ctr
    BY <1>1, <1>3 DEF LaneInv
  <2>2. lane = <<[q |-> ctr, rid |-> Q]>> /\ Behind >= ctr /\ words.flag <= Behind
    BY <1>1, <2>1 DEF LaneInv
  <2>3. Behind = ctr /\ ctr \in Nat /\ words.flag \in Nat /\ words \in WordsType
    BY <2>1, <2>2, BehindDevice, StoreTyped
  <2>4. j.q = ctr /\ j.rid = Q /\ lane' = <<>>
    BY <1>1, <2>2
  <2>5. xrow = Q
    BY <2>1 DEF StoreInv
  <2>6. laneRow' = Q /\ words' = [words EXCEPT !.flag = ctr]
    BY <1>1, <2>1, <2>2, <2>3, <2>4, <2>5
  <2>7. words'.flag = ctr
    BY <2>3, <2>6 DEF WordsType
  <2> QED BY <1>1, <1>3, <2>1, <2>3, <2>4, <2>6, <2>7
<1> QED BY <1>4, <1>5, <1>6

(* One call behind the stager's others. *)
LEMMA CallsAppend ==
  ASSUME NEW s \in Seq(CallType), NEW c, NEW t, t = Append(s, c)
  PROVE  /\ DOMAIN s = 1 .. Len(s) /\ Len(s) \in Nat /\ Len(s) + 1 \in DOMAIN t /\ t[Len(s) + 1] = c
         /\ \A i \in DOMAIN t : \/ i \in DOMAIN s /\ t[i] = s[i]
                                \/ i = Len(s) + 1 /\ t[i] = c
         /\ \A i \in DOMAIN t, j \in DOMAIN t : i < j => i \in DOMAIN s /\ t[i] = s[i]
OBVIOUS

(* table_reply_early, or the serial order: the request's table, its late entry *)
(* and its copies before the answer, its lane's job behind it.                 *)
LEMMA ServeStore ==
  ASSUME RowInv, StoreInv, AnsInv, LaneInv, NEW serial \in BOOLEAN, mode.early \/ serial, Serve(serial)
  PROVE  StoreInv' /\ AnsInv' /\ LaneInv'
<1> DEFINE s == Slot(Job.seq)
           l == ring[s].layer
           r == Rid(Job.seq)
           c == [layer |-> l, rid |-> r, q |-> IF serial THEN Job.seq ELSE 0]
<1>1. /\ jobs # <<>> /\ cphase = "read" /\ flying' = flying \cup {r}
      /\ tab' = (IF mode.early THEN [tab EXCEPT ![l] = r] ELSE tab)
      /\ entry' = (IF mode.early THEN [entry EXCEPT ![s] = [seq |-> Job.seq, late |-> ~serial]] ELSE entry)
      /\ stg' = Append(stg, c)
      /\ serial => Answered /\ ToLane
      /\ ~serial => cphase' = "reply" /\ UNCHANGED <<jobs, results, lane>>
      /\ UNCHANGED <<mode, ctl, words, ring, stream, phase, ctr, moved, laneRow, xrow>>
  BY DEF Serve, hostVars, devVars
<1>2. /\ Job.seq \in Nat \ {0} /\ Behind = Job.seq - 1 /\ ctr \in Nat /\ ctl.base \in Nat /\ moved \in Nat
      /\ stg \in Seq(CallType) /\ Q = ctl.base + ctr
  BY <1>1, JobInHand, StoreTyped
<1>3. /\ Served = Behind /\ r = ctl.base + Job.seq /\ r = ctl.base + Served + 1 /\ Served \in Nat
      /\ c.rid = r /\ c.layer = l /\ c.q = IF serial THEN Job.seq ELSE 0
  <2>1. Served = Behind
    BY <1>1, <1>2 DEF Served
  <2>2. r = ctl.base + Job.seq
    BY DEF Rid
  <2> HIDE DEF r, l
  <2>3. c.rid = r /\ c.layer = l /\ c.q = IF serial THEN Job.seq ELSE 0
    OBVIOUS
  <2> HIDE DEF c
  <2>4. Job.seq \in Nat \ {0} /\ ctl.base \in Nat /\ Behind = Job.seq - 1
    BY <1>2
  <2>5. r = ctl.base + Served + 1 /\ Served \in Nat
    BY <2>1, <2>2, <2>4
  <2> QED BY <2>1, <2>2, <2>3, <2>5, Zenon
<1>4. Served' = Job.seq /\ (serial => cphase' = "next" /\ Behind' = Job.seq)
  <2>1. CASE serial
    <3>1. Behind' = Job.seq /\ cphase' = "next"
      BY <1>1, <2>1, AnsweredInv
    <3> QED BY <1>2, <3>1 DEF Served
  <2>2. CASE ~serial
    <3>1. Behind' = Behind /\ cphase' = "reply"
      BY <1>1, <2>2 DEF Behind
    <3> QED BY <1>2, <2>2, <3>1 DEF Served
  <2> QED BY <2>1, <2>2
<1>5. Q' = Q /\ Top' = Top /\ Slot(ctr)' = Slot(ctr)
  BY <1>1 DEF Q, Rid, Top, Slot
<1>s. Sound' => Sound
  <2>1. ThreadStep
    BY DEF ThreadStep, Controls
  <2> QED BY <2>1, ThreadHeals
<1>6. /\ DOMAIN stg = 1 .. Len(stg) /\ Len(stg) \in Nat /\ Len(stg) + 1 \in DOMAIN stg' /\ stg'[Len(stg) + 1] = c
      /\ \A i \in DOMAIN stg' : \/ i \in DOMAIN stg /\ stg'[i] = stg[i]
                                \/ i = Len(stg) + 1 /\ stg'[i] = c
      /\ \A i \in DOMAIN stg', j \in DOMAIN stg' : i < j => i \in DOMAIN stg /\ stg'[i] = stg[i]
  BY <1>1, <1>2, CallsAppend
<1>e. mode.early => entry'[s] = [seq |-> Job.seq, late |-> ~serial]
  <2>1. s \in DOMAIN entry
    <3>1. s \in 0 .. RingSize - 1
      BY <1>2, SlotOfRing, Zenon DEF Slot
    <3> QED BY <3>1 DEF RowInv, Shape, DeviceShape
  <2> HIDE DEF s
  <2> QED BY <1>1, <2>1
<1> HIDE DEF c, r, l, s
<1>7. StoreInv'
  <2>o. /\ moved <= ctl.base + Served /\ (\A q \in flying : q <= ctl.base + Served)
        /\ \A i \in DOMAIN stg : stg[i].rid <= ctl.base + Served /\ moved < stg[i].rid
        /\ \A i \in DOMAIN stg, k \in DOMAIN stg : i < k => stg[i].rid < stg[k].rid
    BY DEF StoreInv
  <2>n. ctl'.base + Served' = r /\ moved' = moved /\ r \in Nat /\ moved < r /\ c.rid = r
        /\ \A n \in Nat : n <= ctl.base + Served => n < r
    <3>1. ctl'.base = ctl.base /\ moved' = moved /\ Served' = Job.seq
      BY <1>1, <1>4
    <3>2. r = ctl.base + Job.seq /\ r = ctl.base + Served + 1 /\ c.rid = r /\ Served \in Nat
      BY <1>3
    <3>3. moved <= ctl.base + Served
      BY <2>o
    <3>4. Job.seq \in Nat /\ ctl.base \in Nat /\ moved \in Nat
      BY <1>2
    <3>5. ctl'.base + Served' = r
      BY <3>1, <3>2
    <3>6. r \in Nat /\ moved < r /\ \A n \in Nat : n <= ctl.base + Served => n < r
      BY <3>2, <3>3, <3>4
    <3> QED BY <3>1, <3>2, <3>5, <3>6
  <2>1. moved' <= ctl'.base + Served'
    <3>1. moved \in Nat
      BY <1>2
    <3> QED BY <2>n, <3>1
  <2>2. \A q \in flying' : q <= ctl'.base + Served'
    <3>1. flying \in SUBSET Nat /\ flying' = flying \cup {r}
      BY <1>1 DEF RowInv, Shape, ThreadShape
    <3> QED BY <2>n, <2>o, <3>1
  <2>3. ASSUME NEW i \in DOMAIN stg' PROVE stg'[i].rid <= ctl'.base + Served' /\ moved' < stg'[i].rid
    <3>1. CASE i \in DOMAIN stg /\ stg'[i] = stg[i]
      <4>1. stg[i].rid \in Nat /\ stg[i].rid <= ctl.base + Served /\ moved < stg[i].rid
        BY <2>o, <3>1, CallOf
      <4> QED BY <2>n, <3>1, <4>1
    <3>2. CASE stg'[i] = c
      BY <2>n, <3>2
    <3> QED BY <1>6, <3>1, <3>2
  <2>4. ASSUME NEW i \in DOMAIN stg', NEW k \in DOMAIN stg', i < k PROVE stg'[i].rid < stg'[k].rid
    <3>1. i \in DOMAIN stg /\ stg'[i] = stg[i] /\ stg[i].rid \in Nat
      BY <1>6, <2>4, CallOf
    <3>2. CASE k \in DOMAIN stg /\ stg'[k] = stg[k]
      BY <2>4, <2>o, <3>1, <3>2
    <3>3. CASE stg'[k] = c
      <4>1. stg[i].rid <= ctl.base + Served
        BY <2>o, <3>1
      <4> QED BY <2>n, <3>1, <3>3, <4>1
    <3> QED BY <1>6, <3>2, <3>3
  <2>5. ASSUME NEW i \in Owed' PROVE stg'[i].rid = ctl'.base + stg'[i].q
    <3>1. i \in DOMAIN stg' /\ stg'[i].q # 0 /\ stg'[i].rid > ctl.base
      BY <1>1 DEF Owed
    <3>2. CASE i \in DOMAIN stg /\ stg'[i] = stg[i]
      BY <1>1, <3>1, <3>2 DEF StoreInv, Owed, Rid
    <3>3. CASE stg'[i] = c
      BY <1>1, <1>3, <3>1, <3>3
    <3> QED BY <1>6, <3>1, <3>2, <3>3
  <2>6. cphase' = "reply" => mode'.early /\ entry'[Slot(Job'.seq)] = [seq |-> Job'.seq, late |-> TRUE]
    <3> SUFFICES ASSUME cphase' = "reply" PROVE mode'.early /\ entry'[Slot(Job'.seq)] = [seq |-> Job'.seq, late |-> TRUE]
      OBVIOUS
    <3>1. ~serial /\ mode.early /\ Job' = Job
      BY <1>1, <1>4 DEF Job
    <3> QED BY <1>1, <1>e, <3>1 DEF s
  <2>7. phase' # "publish" => ring'[Slot(ctr')] = [seq |-> ctr', layer |-> Top'.arg] /\ (mode'.lane => xrow' = Q')
    BY <1>1, <1>5 DEF StoreInv
  <2> QED BY <2>1, <2>2, <2>3, <2>4, <2>5, <2>6, <2>7 DEF StoreInv, Rid, Slot
<1>8. AnsInv'
  <2> SUFFICES ASSUME Sound', phase' # "publish"
               PROVE  /\ \A i \in Owed' : stg'[i].layer = Top'.arg
                      /\ mode'.early => Mine' /\ tab'[Top'.arg] = Q' /\ Copied'
                      /\ ~(words'.reply >= ctr') /\ phase' # "experts"
    BY DEF AnsInv, Slot
  <2>1. Sound /\ Job.seq = ctr /\ ctr = words.reply + 1 /\ phase = "wait" /\ Owed = {} /\ ctr \in Nat /\ words.reply \in Nat
    BY <1>1, <1>s, ThreadAtWait, StoreTyped
  <2>2. r = Q /\ l = Top.arg /\ Top.arg \in LayerIds
    <3>1. ring[Slot(ctr)].layer = Top.arg
      BY <2>1 DEF StoreInv
    <3>2. Top.arg \in LayerIds
      BY <2>1, TopLayer
    <3> QED BY <1>2, <1>3, <2>1, <3>1, <3>2 DEF l, s
  <2>3. ASSUME NEW i \in Owed' PROVE stg'[i].layer = Top'.arg
    <3>1. i \in DOMAIN stg' /\ stg'[i].q # 0 /\ stg'[i].rid > ctl.base
      BY <1>1 DEF Owed
    <3>2. ~(i \in DOMAIN stg /\ stg'[i] = stg[i])
      BY <2>1, <3>1 DEF Owed
    <3> QED BY <1>3, <1>5, <1>6, <2>2, <3>1, <3>2
  <2>4. mode'.early => Mine' /\ tab'[Top'.arg] = Q' /\ Copied'
    <3> SUFFICES ASSUME mode.early PROVE Mine' /\ tab'[Top'.arg] = Q' /\ Copied'
      BY <1>1
    <3>1. Mine'
      BY <1>1, <1>e, <2>1 DEF Mine, s, Slot
    <3>2. tab'[Top.arg] = Q
      <4>1. tab \in [LayerIds -> Nat]
        BY DEF RowInv, Shape, ThreadShape
      <4> QED BY <1>1, <2>2, <4>1
    <3>3. Copied'
      BY <1>3, <1>5, <1>6, <2>2 DEF Copied
    <3> QED BY <1>5, <3>1, <3>2, <3>3
  <2>5. ~(words'.reply >= ctr') /\ phase' # "experts"
    BY <1>1, <2>1
  <2> QED BY <2>3, <2>4, <2>5
<1>9. LaneInv'
  <2>1. CASE Sound' /\ serial
    <3>1. Sound /\ Behind' = ctr /\ ToLane
      BY <1>1, <1>4, <1>s, <2>1, ThreadAtWait
    <3> QED BY <1>1, <3>1, LaneGiven
  <2>2. CASE ~Sound'
    BY <2>2 DEF LaneInv
  <2>3. CASE ~serial /\ Sound'
    <3>1. Behind' = Behind
      BY <1>1, <2>3 DEF Behind
    <3> QED BY <1>1, <1>5, <1>s, <2>3, <3>1 DEF LaneInv
  <2> QED BY <2>1, <2>2, <2>3
<1> QED BY <1>7, <1>8, <1>9

(* The threads' part. *)
LEMMA ThreadStore ==
  ASSUME RowInv, StoreInv, AnsInv, LaneInv, ThreadStep
  PROVE  StoreInv' /\ AnsInv' /\ LaneInv'
<1>1. ASSUME NEW serial \in BOOLEAN, mode.early \/ serial, Serve(serial) PROVE StoreInv' /\ AnsInv' /\ LaneInv'
  BY <1>1, ServeStore
<1>2. ASSUME NEW r \in flying, Land(r) PROVE StoreInv' /\ AnsInv' /\ LaneInv'
  BY <1>2, LandStore
<1> QED BY <1>1, <1>2, ThreadQuiet, ReplyEarlyStore, ReleaseAllStore, StagerStepStore, LaneRunStore, Zenon
           DEF ThreadStep, Controls

-----------------------------------------------------------------------------
(* The device's part.                                                        *)

(* The step behind a step, in a layer's order without repetition. *)
LEMMA StepOf ==
  ASSUME NEW s, s = Steps, NEW i \in DOMAIN s, \A j, k \in DOMAIN s : s[j] = s[k] => j = k
  PROVE  AfterStep(s[i]) = IF i = Len(s) THEN "publish" ELSE s[i + 1]
<1>1. PICK m : m = CHOOSE j \in DOMAIN s : s[j] = s[i]
  OBVIOUS
<1>2. m \in DOMAIN s /\ s[m] = s[i]
  BY <1>1
<1>3. m = i
  BY <1>2
<1>4. AfterStep(s[i]) = IF m = Len(s) THEN "publish" ELSE s[m + 1]
  BY <1>1 DEF AfterStep
<1> QED BY <1>3, <1>4

(* A layer's steps: the wait, the experts, the lane. *)
LEMMA StepsJoined ==
  ASSUME NEW S, "wait" \in S, NEW b \in Seq(S), NEW c \in Seq(S), NEW s, s = <<"wait">> \o b \o c
  PROVE  /\ Len(b) \in Nat /\ Len(c) \in Nat /\ Len(s) = 1 + Len(b) + Len(c) /\ DOMAIN s = 1 .. 1 + Len(b) + Len(c)
         /\ s[1] = "wait"
         /\ \A i \in 2 .. 1 + Len(b) : s[i] = b[i - 1]
         /\ \A i \in 2 + Len(b) .. 1 + Len(b) + Len(c) : s[i] = c[i - (1 + Len(b))]
<1>1. PICK a : a = <<"wait">> \o b
  OBVIOUS
<1>2. a \in Seq(S) /\ Len(a) = 1 + Len(b) /\ a[1] = "wait" /\ (\A i \in 2 .. Len(a) : a[i] = b[i - 1]) /\ Len(b) \in Nat
  BY <1>1
<1>3. /\ Len(s) = Len(a) + Len(c) /\ DOMAIN s = 1 .. Len(a) + Len(c) /\ Len(c) \in Nat
      /\ \A i \in 1 .. Len(a) + Len(c) : s[i] = IF i <= Len(a) THEN a[i] ELSE c[i - Len(a)]
  BY <1>1, <1>2
<1> QED BY <1>2, <1>3

(* Which step comes behind which, by the setting of the run. *)
LEMMA StepOrder ==
  ASSUME mode \in [early : BOOLEAN, la : BOOLEAN, lane : BOOLEAN], NEW p \in Range(Steps)
  PROVE  /\ p = "lane" => mode.lane
         /\ p \in {"pre", "late"} => mode.early
         /\ mode.lane /\ AfterStep(p) = "publish" => p = "lane"
         /\ mode.early /\ AfterStep(p) = "experts" => p = "pre"
<1> DEFINE Goal == /\ p = "lane" => mode.lane
                   /\ p \in {"pre", "late"} => mode.early
                   /\ mode.lane /\ AfterStep(p) = "publish" => p = "lane"
                   /\ mode.early /\ AfterStep(p) = "experts" => p = "pre"
<1>0. /\ <<"pre", "experts", "late">> \in Seq(Phases) /\ <<"experts">> \in Seq(Phases)
      /\ <<"lane">> \in Seq(Phases) /\ <<>> \in Seq(Phases) /\ "wait" \in Phases
  BY DEF Phases
<1>b. PICK b \in Seq(Phases) : b = IF mode.early THEN <<"pre", "experts", "late">> ELSE <<"experts">>
  BY <1>0, Zenon
<1>c. PICK c \in Seq(Phases) : c = IF mode.lane THEN <<"lane">> ELSE <<>>
  BY <1>0, Zenon
<1>s. PICK s : s = Steps /\ s = <<"wait">> \o b \o c
  BY <1>b, <1>c DEF Steps
<1>e. mode.early => Len(b) = 3 /\ b[1] = "pre" /\ b[2] = "experts" /\ b[3] = "late"
  BY <1>b
<1>f. ~mode.early => Len(b) = 1 /\ b[1] = "experts"
  BY <1>b
<1>l. mode.lane => Len(c) = 1 /\ c[1] = "lane"
  BY <1>c
<1>m. ~mode.lane => Len(c) = 0
  BY <1>c
<1>j. /\ Len(s) = 1 + Len(b) + Len(c) /\ DOMAIN s = 1 .. 1 + Len(b) + Len(c) /\ s[1] = "wait"
      /\ \A i \in 2 .. 1 + Len(b) : s[i] = b[i - 1]
      /\ \A i \in 2 + Len(b) .. 1 + Len(b) + Len(c) : s[i] = c[i - (1 + Len(b))]
  <2>1. s = <<"wait">> \o b \o c /\ b \in Seq(Phases) /\ c \in Seq(Phases) /\ "wait" \in Phases
    BY <1>0, <1>s, Zenon
  <2> QED BY <2>1, StepsJoined
<1>1. CASE mode.early /\ mode.lane
  <2>1. Len(b) = 3 /\ b[1] = "pre" /\ b[2] = "experts" /\ b[3] = "late" /\ Len(c) = 1 /\ c[1] = "lane"
    BY <1>1, <1>e, <1>l
  <2>3. /\ DOMAIN s = 1 .. 5 /\ Len(s) = 5 /\ s[1] = "wait" /\ s[2] = "pre" /\ s[3] = "experts" /\ s[4] = "late"
        /\ s[5] = "lane"
    BY <1>j, <2>1, SMTT(20)
  <2>4. \A j, k \in DOMAIN s : s[j] = s[k] => j = k
    BY <2>3
  <2>5. PICK i \in DOMAIN s : p = s[i]
    BY <1>s DEF Range
  <2>6. AfterStep(p) = IF i = Len(s) THEN "publish" ELSE s[i + 1]
    BY <1>s, <2>4, <2>5, StepOf
  <2>7. i \in {1, 2, 3, 4, 5}
    BY <2>3, <2>5
  <2> QED BY <1>1, <2>3, <2>5, <2>6, <2>7
<1>2. CASE mode.early /\ ~mode.lane
  <2>1. Len(b) = 3 /\ b[1] = "pre" /\ b[2] = "experts" /\ b[3] = "late" /\ Len(c) = 0
    BY <1>2, <1>e, <1>m
  <2>3. DOMAIN s = 1 .. 4 /\ Len(s) = 4 /\ s[1] = "wait" /\ s[2] = "pre" /\ s[3] = "experts" /\ s[4] = "late"
    BY <1>j, <2>1, SMTT(20)
  <2>4. \A j, k \in DOMAIN s : s[j] = s[k] => j = k
    BY <2>3
  <2>5. PICK i \in DOMAIN s : p = s[i]
    BY <1>s DEF Range
  <2>6. AfterStep(p) = IF i = Len(s) THEN "publish" ELSE s[i + 1]
    BY <1>s, <2>4, <2>5, StepOf
  <2>7. i \in {1, 2, 3, 4}
    BY <2>3, <2>5
  <2> QED BY <1>2, <2>3, <2>5, <2>6, <2>7
<1>3. CASE ~mode.early /\ mode.lane
  <2>1. Len(b) = 1 /\ b[1] = "experts" /\ Len(c) = 1 /\ c[1] = "lane"
    BY <1>3, <1>f, <1>l
  <2>3. DOMAIN s = 1 .. 3 /\ Len(s) = 3 /\ s[1] = "wait" /\ s[2] = "experts" /\ s[3] = "lane"
    BY <1>j, <2>1, SMTT(20)
  <2>4. \A j, k \in DOMAIN s : s[j] = s[k] => j = k
    BY <2>3
  <2>5. PICK i \in DOMAIN s : p = s[i]
    BY <1>s DEF Range
  <2>6. AfterStep(p) = IF i = Len(s) THEN "publish" ELSE s[i + 1]
    BY <1>s, <2>4, <2>5, StepOf
  <2>7. i \in {1, 2, 3}
    BY <2>3, <2>5
  <2> QED BY <1>3, <2>3, <2>5, <2>6, <2>7
<1>4. CASE ~mode.early /\ ~mode.lane
  <2>0. Len(b) = 1 /\ b[1] = "experts" /\ Len(c) = 0
    BY <1>4, <1>f, <1>m
  <2>1. DOMAIN s = 1 .. 2 /\ s[1] = "wait" /\ s[2] = "experts"
    <3>1. DOMAIN s = 1 .. 2 /\ s[1] = "wait"
      BY <1>j, <2>0, SMTT(20)
    <3>2. \A i \in 2 .. 2 : s[i] = b[i - 1]
      BY <1>j, <2>0, SMTT(20)
    <3>3. s[2] = b[2 - 1] /\ 2 - 1 = 1
      BY <3>2
    <3>4. s[2] = "experts"
      BY <2>0, <3>3, Zenon
    <3> QED BY <3>1, <3>4, Zenon
  <2>2. p \in {"wait", "experts"}
    <3>1. PICK i \in DOMAIN s : p = s[i]
      BY <1>s DEF Range
    <3>2. i = 1 \/ i = 2
      BY <2>1, <3>1
    <3> QED BY <2>1, <3>1, <3>2
  <2> QED BY <1>4, <2>2
<1> QED BY <1>1, <1>2, <1>3, <1>4

(* glm5_ctl_publish: a request nothing has answered yet. *)
LEMMA PublishStore ==
  ASSUME RowInv, StoreInv, AnsInv, LaneInv, Publish
  PROVE  StoreInv' /\ AnsInv' /\ LaneInv'
<1>1. /\ stream # <<>> /\ phase = "publish" /\ ctr' = ctr + 1 /\ phase' = "wait"
      /\ ring' = [ring EXCEPT ![Slot(ctr + 1)] = [seq |-> ctr + 1, layer |-> Top.arg]]
      /\ xrow' = (IF mode.lane THEN Rid(ctr + 1) ELSE xrow)
      /\ UNCHANGED <<mode, ctl, words, entry, stream, jobs, cphase, results, tab, moved, flying, stg, lane, laneRow>>
  BY DEF Publish, hostVars, jobVars, storeVars
<1>2. /\ Served' = Served /\ Behind' = Behind /\ Owed' = Owed /\ Top' = Top /\ Job' = Job /\ Sound' = Sound
      /\ ctr \in Nat /\ ctl.base \in Nat /\ words.reply \in Nat /\ words.flag \in Nat
  <2>1. ctr \in Nat /\ ctl.base \in Nat /\ words.reply \in Nat /\ words.flag \in Nat
    BY StoreTyped
  <2> QED BY <1>1, <2>1 DEF Served, Behind, Owed, Top, Job, Sound, JobFailed
<1>3. ring'[Slot(ctr + 1)] = [seq |-> ctr + 1, layer |-> Top.arg]
  <2>1. PICK n : n = Slot(ctr + 1)
    OBVIOUS
  <2>2. n \in DOMAIN ring
    <3>0. ctr + 1 \in Nat
      BY <1>2
    <3>1. n \in 0 .. RingSize - 1
      BY <2>1, <3>0, SlotOfRing, Zenon DEF Slot
    <3> QED BY <3>1 DEF RowInv, Shape, DeviceShape
  <2> QED BY <1>1, <2>1, <2>2
<1>4. StoreInv'
  <2>1. phase' # "publish" => ring'[Slot(ctr')] = [seq |-> ctr', layer |-> Top'.arg] /\ (mode'.lane => xrow' = Q')
    BY <1>1, <1>2, <1>3 DEF Q, Rid
  <2> QED BY <1>1, <1>2, <2>1 DEF StoreInv, Rid, Slot
<1>5. ASSUME Sound PROVE words.reply = ctr /\ Behind = ctr /\ Owed = {} /\ Served = ctr
  <2>1. words.reply = ctr /\ Behind = ctr /\ \A i \in Owed : Behind = words.reply + 1
    BY <1>1, <1>5, BehindDevice
  <2>2. cphase # "reply"
    BY <1>1, <1>5, ThreadAtWait
  <2> QED BY <1>2, <2>1, <2>2 DEF Served
<1>6. AnsInv'
  <2> SUFFICES ASSUME Sound'
               PROVE  Owed' = {} /\ ~(Served' >= ctr') /\ ~(words'.reply >= ctr') /\ phase' # "experts"
    BY DEF AnsInv
  <2> QED BY <1>1, <1>2, <1>5
<1>7. LaneInv'
  <2> SUFFICES ASSUME Sound', ctl.handed > 0, mode.lane
               PROVE  words'.flag <= Behind' /\ phase' # "publish" /\ words'.flag # ctr' /\ ~(Behind' >= ctr') /\ lane' = <<>>
    BY <1>1 DEF LaneInv
  <2> QED BY <1>1, <1>2, <1>5 DEF LaneInv
<1> QED BY <1>4, <1>6, <1>7

(* The device's own input, the backup, the head. *)
LEMMA OtherLaunchStore ==
  ASSUME RowInv, StoreInv, AnsInv, LaneInv, OtherLaunch
  PROVE  StoreInv' /\ AnsInv' /\ LaneInv'
<1>1. /\ stream # <<>> /\ Top.op # "layer"
      /\ UNCHANGED <<mode, ctl, words, ring, entry, phase, ctr, jobs, cphase, results, tab, moved, flying, stg,
                     lane, laneRow, xrow>>
  BY DEF OtherLaunch, hostVars, jobVars, storeVars, laneVars
<1>2. phase = "publish"
  BY <1>1 DEF RowInv, QueueInv
<1> QED BY <1>1, <1>2, HostQuiet DEF Sound, JobFailed

(* What a step of a layer reads is its request's, while no job failed. *)
LEMMA StepExact ==
  ASSUME RowInv, StoreInv, AnsInv, LaneInv, Sound, phase # "publish", ~DeviceWaits
  PROVE  Exact
<1>1. /\ ctr \in Nat /\ moved \in Nat /\ Q \in Nat /\ words.reply \in Nat /\ words.flag \in Nat /\ Behind \in Nat /\ Served >= Behind
      /\ mode \in [early : BOOLEAN, la : BOOLEAN, lane : BOOLEAN] /\ phase \in Range(Steps)
  BY StoreTyped DEF Served, RowInv, Shape, DeviceShape
<1>2. phase # "wait" => words.reply = ctr /\ Behind = ctr /\ Served >= ctr
  BY <1>1, BehindDevice
<1>3. CASE phase = "experts"
  <2>1. mode.early => tab[Top.arg] = Q
    BY <1>2, <1>3 DEF AnsInv
  <2>2. mode.early /\ Named => moved >= Q
    BY <1>3 DEF AnsInv
  <2>3. ~mode.early => tab[Top.arg] = Q /\ moved >= Q
    BY <1>1, <1>2, <1>3 DEF AnsInv
  <2> QED BY <1>1, <1>3, <2>1, <2>2, <2>3 DEF Exact
<1>4. CASE phase = "late"
  <2>1. mode.early
    BY <1>1, <1>4, StepOrder
  <2>2. Mine
    BY <1>2, <1>4, <2>1 DEF AnsInv
  <2>3. entry[Slot(ctr)].late \/ Q \notin flying
    BY <1>1, <1>2, <1>4, <2>1 DEF AnsInv
  <2>4. Named => Q \notin flying
    BY <1>4 DEF DeviceWaits
  <2> QED BY <1>4, <2>2, <2>3, <2>4 DEF Exact, Named
<1>5. CASE phase = "lane"
  <2>1. mode.lane /\ words.flag >= ctr
    BY <1>1, <1>5, StepOrder DEF DeviceWaits
  <2>2. ctl.handed > 0
    <3>1. ctr # 0
      BY <1>5 DEF RowInv, QueueInv
    <3> QED BY <1>1, <3>1, DeviceBehindHost
  <2>3. words.flag <= Behind /\ (words.flag = ctr => laneRow = Q)
    BY <1>5, <2>1, <2>2 DEF LaneInv
  <2> QED BY <1>1, <1>2, <1>5, <2>1, <2>3 DEF Exact
<1>6. CASE phase \notin {"experts", "late", "lane"}
  BY <1>6 DEF Exact
<1> QED BY <1>3, <1>4, <1>5, <1>6

(* glm5_ctl_wait, glm5_ctl_pre, the experts, glm5_ctl_late, glm5_lane_add: one *)
(* that gives up leaves the error word.                                        *)
LEMMA LayerStepStore ==
  ASSUME RowInv, StoreInv, AnsInv, LaneInv, LayerStep
  PROVE  StoreInv' /\ AnsInv' /\ LaneInv' /\ (Sound' => Exact)
<1>1. /\ stream # <<>> /\ Top.op = "layer" /\ phase # "publish" /\ phase' = AfterStep(phase)
      /\ stream' = (IF phase' = "publish" THEN Tail(stream) ELSE stream)
      /\ \/ ~DeviceWaits /\ words' = words
         \/ DeviceWaits /\ words' = [words EXCEPT !.err = IF words.err = 0 THEN ctr ELSE words.err]
      /\ UNCHANGED <<mode, ctl, ring, entry, ctr, jobs, cphase, results, tab, moved, flying, stg, lane, laneRow, xrow>>
  BY DEF LayerStep, hostVars, jobVars, storeVars, laneVars
<1>2. /\ words'.reply = words.reply /\ words'.flag = words.flag
      /\ words'.err = 0 => words' = words /\ ~DeviceWaits
  <2>1. words \in WordsType /\ ctr \in Nat
    BY StoreTyped
  <2>2. ctr # 0
    BY <1>1 DEF RowInv, QueueInv
  <2> QED BY <1>1, <2>1, <2>2 DEF WordsType
<1>3. /\ Served' = Served /\ Behind' = Behind /\ Owed' = Owed /\ Job' = Job /\ Q' = Q /\ Mine' = Mine /\ Named' = Named
      /\ Copied' = Copied /\ Slot(ctr)' = Slot(ctr) /\ (phase' # "publish" => Top' = Top)
  BY <1>1 DEF Served, Behind, Owed, Job, Q, Rid, Mine, Named, Slot, Copied, Top
<1>4. Sound' => Sound /\ words' = words /\ ~DeviceWaits
  BY <1>1, <1>2 DEF Sound, JobFailed
<1>5. StoreInv'
  BY <1>1, <1>3 DEF StoreInv, Rid, Slot
<1>m. mode \in [early : BOOLEAN, la : BOOLEAN, lane : BOOLEAN] /\ phase \in Range(Steps)
  BY <1>1, StoreTyped DEF RowInv, Shape, DeviceShape
<1>6. AnsInv'
  <2> SUFFICES ASSUME Sound', phase' # "publish"
               PROVE  /\ \A i \in Owed' : stg'[i].layer = Top'.arg
                      /\ mode'.early /\ Served' >= ctr' => Mine' /\ tab'[Top'.arg] = Q' /\ Copied'
                      /\ words'.reply >= ctr' =>
                           IF mode'.early THEN entry'[Slot(ctr)'].late \/ (Q' \notin flying' /\ moved' >= Q')
                                          ELSE tab'[Top'.arg] = Q' /\ moved' >= Q'
                      /\ phase' = "experts" /\ mode'.early /\ Named' => moved' >= Q'
    BY DEF AnsInv
  <2>1. Sound /\ ~DeviceWaits
    BY <1>4
  <2>2. phase' = "experts" /\ mode.early /\ Named => moved >= Q
    <3>1. phase' = "experts" /\ mode.early => phase = "pre"
      BY <1>1, <1>m, StepOrder
    <3>2. moved \in Nat /\ Q \in Nat
      BY StoreTyped
    <3> QED BY <2>1, <3>1, <3>2 DEF DeviceWaits
  <2>3. /\ \A i \in Owed : stg[i].layer = Top.arg
        /\ mode.early /\ Served >= ctr => Mine /\ tab[Top.arg] = Q /\ Copied
        /\ words.reply >= ctr =>
             IF mode.early THEN entry[Slot(ctr)].late \/ (Q \notin flying /\ moved >= Q)
                           ELSE tab[Top.arg] = Q /\ moved >= Q
    BY <1>1, <2>1 DEF AnsInv
  <2> QED BY <1>1, <1>2, <1>3, <2>2, <2>3
<1>7. LaneInv'
  <2> SUFFICES ASSUME Sound', ctl.handed > 0, mode.lane
               PROVE  /\ words'.flag <= Behind'
                      /\ phase' = "publish" => lane' = <<>>
                      /\ phase' # "publish" =>
                           IF words'.flag = ctr' THEN lane' = <<>> /\ laneRow' = Q'
                           ELSE lane' = IF Behind' >= ctr' THEN <<[q |-> ctr', rid |-> Q']>> ELSE <<>>
    BY <1>1 DEF LaneInv
  <2>1. Sound /\ ~DeviceWaits
    BY <1>4
  <2>2. /\ words.flag <= Behind
        /\ IF words.flag = ctr THEN lane = <<>> /\ laneRow = Q
           ELSE lane = IF Behind >= ctr THEN <<[q |-> ctr, rid |-> Q]>> ELSE <<>>
    BY <1>1, <2>1 DEF LaneInv
  <2>3. phase' = "publish" => lane = <<>>
    <3> SUFFICES ASSUME phase' = "publish" PROVE lane = <<>>
      OBVIOUS
    <3>1. phase = "lane"
      BY <1>1, <1>m, StepOrder
    <3>2. words.flag \in Nat /\ ctr \in Nat /\ Behind \in Nat /\ ~(words.flag < ctr)
      BY <2>1, <3>1, StoreTyped DEF DeviceWaits
    <3>3. Behind <= ctr
      BY <2>1, BehindDevice
    <3> QED BY <2>2, <3>2, <3>3
  <2> QED BY <1>1, <1>2, <1>3, <2>2, <2>3
<1>8. Sound' => Exact
  BY <1>1, <1>4, StepExact
<1> QED BY <1>5, <1>6, <1>7, <1>8

-----------------------------------------------------------------------------
(* The whole of it.                                                          *)

(* One step. *)
LEMMA StepData == RowInv /\ DataInv /\ [Next]_vars => DataInv'
<1> SUFFICES ASSUME RowInv, DataInv, [Next]_vars PROVE DataInv'
  OBVIOUS
<1> USE DEF DataInv
<1>1. ASSUME HostStep PROVE DataInv'
  BY <1>1, HostStream, HostHand, HostTok, HostStore
<1>2. ASSUME Device PROVE DataInv'
  <2>1. StreamInv' /\ HandInv'
    BY <1>2, DeviceStream, DeviceHand
  <2>2. TokInv' /\ StoreInv' /\ AnsInv' /\ LaneInv'
    BY <1>2, PublishTok, LayerStepTok, OtherLaunchTok, PublishStore, LayerStepStore, OtherLaunchStore DEF Device
  <2> QED BY <2>1, <2>2
<1>3. ASSUME ThreadStep PROVE DataInv'
  BY <1>3, ThreadStream, ThreadHand, ThreadTok, ThreadStore
<1>4. ASSUME UNCHANGED vars PROVE DataInv'
  <2>1. UNCHANGED <<mode, calls, faults, pc, call, laid, second, hist, last, ahead, ctl, words, ring, entry, stream,
                    phase, ctr, kda, bak, next, marked, jobs, cphase, results, tab, moved, flying, stg, lane, laneRow,
                    xrow>>
    BY <1>4 DEF vars, hostVars, devVars, jobVars, storeVars, laneVars
  <2>2. Sound' = Sound /\ Acc' = Acc /\ Top' = Top
    BY <2>1 DEF Sound, JobFailed, Acc, Top
  <2>3. StreamInv' /\ TokInv'
    BY <2>1, <2>2, StreamKept, TokKept
  <2>4. StoreInv' /\ AnsInv' /\ LaneInv'
    BY <2>1, <2>2, HostQuiet
  <2>5. HandInv'
    BY <2>1 DEF HandInv, Active
  <2> QED BY <2>3, <2>4, <2>5
<1> QED BY <1>1, <1>2, <1>3, <1>4 DEF Next, HostStep, ThreadStep

(* The first state. *)
LEMMA InitData == Init => DataInv
<1> SUFFICES ASSUME Init PROVE DataInv
  OBVIOUS
<1>1. /\ pc = "idle" /\ second = FALSE /\ hist = <<>> /\ last = None /\ ahead = None /\ stream = <<>> /\ phase = "publish"
      /\ ctr = 0 /\ kda = Fresh /\ bak = Fresh /\ jobs = <<>> /\ cphase = "next" /\ results = <<>> /\ moved = 0 /\ flying = {}
      /\ stg = <<>> /\ lane = <<>> /\ ctl.handed = 0 /\ ctl.base = 0 /\ ctl.cancel = FALSE
  BY DEF Init
<1>2. DOMAIN stream = {} /\ DOMAIN stg = {} /\ DOMAIN jobs = {}
  BY <1>1
<1>3. StreamInv
  BY <1>1, <1>2 DEF StreamInv, Ordered, Heads, Active
<1>4. HandInv
  BY <1>1, <1>2 DEF HandInv
<1>5. TokInv
  BY <1>1 DEF TokInv, Exactly, Fresh
<1>6. Served = 0 /\ Owed = {}
  BY <1>1, <1>2 DEF Served, Behind, Owed
<1>7. StoreInv
  BY <1>1, <1>2, <1>6 DEF StoreInv
<1>8. AnsInv /\ LaneInv
  BY <1>1 DEF AnsInv, LaneInv
<1> QED BY <1>3, <1>4, <1>5, <1>7, <1>8 DEF DataInv

(* Every reachable state: the order of the launches, the ids the state has seen, *)
(* whose copies, tables and CPU rows the device will read.                       *)
THEOREM DataInvariance == Spec => [](RowInv /\ DataInv)
<1>1. Init => RowInv /\ DataInv
  BY InitInv, InitData
<1>2. RowInv /\ DataInv /\ [Next]_vars => (RowInv /\ DataInv)'
  BY StepInv, StepData
<1> QED BY <1>1, <1>2, PTL DEF Spec

(* The jobs and results of the rows under way, counted. *)
LEMMA RowsCounted ==
  ASSUME RowInv
  PROVE  /\ jobs \in Seq(JobType) /\ Len(jobs) \in Nat /\ Len(results) \in Nat /\ Len(jobs) + Len(results) <= 2
         /\ pc = "idle" => Len(jobs) + Len(results) = IF ahead # None THEN 1 ELSE 0
<1>1. jobs \in Seq(JobType) /\ Len(jobs) \in Nat /\ Len(results) \in Nat
  BY LenProperties DEF RowInv, Shape, ThreadShape
<1>2. pc # "drain" => Len(jobs) + Len(results) = Rows(pc, second, ahead # None)
  BY DEF RowInv, RowsInv
<1>3. pc = "drain" => Len(jobs) + Len(results) <= 2
  BY DEF RowInv, RowsInv
<1>4. Rows(pc, second, ahead # None) \in {0, 1, 2}
  BY DEF Rows
<1>5. pc = "idle" => Rows(pc, second, ahead # None) = IF ahead # None THEN 1 ELSE 0
  BY DEF Rows
<1> QED BY <1>1, <1>2, <1>3, <1>4, <1>5

(* No job and no result, if there is none to count. *)
LEMMA NoneLeft ==
  ASSUME RowInv
  PROVE  /\ Len(jobs) + Len(results) = 0 => jobs = <<>> /\ results = <<>>
         /\ Len(jobs) + Len(results) = 1 => jobs # <<>> \/ results # <<>>
<1>1. jobs \in Seq(JobType) /\ results \in Seq(BOOLEAN) /\ Len(jobs) \in Nat /\ Len(results) \in Nat
  BY RowsCounted DEF RowInv, Shape, ThreadShape
<1>2. (Len(jobs) = 0 <=> jobs = <<>>) /\ (Len(results) = 0 <=> results = <<>>)
  BY <1>1, EmptySeq, Zenon
<1>3. \A a, b \in Nat : (a + b = 0 => a = 0 /\ b = 0) /\ (a + b = 1 => a # 0 \/ b # 0)
  OBVIOUS
<1> QED BY <1>1, <1>2, <1>3, Zenon

(* Between calls (AnswersExact): joined() of glm5_tiers.rs hands out the head's id on the ids  *)
(* held, and the state is theirs, or its backup is while the row ahead runs.                    *)
THEOREM AnswersCorrect == Spec => []AnswersExact
<1>1. RowInv /\ DataInv => AnswersExact
  <2> SUFFICES ASSUME RowInv, DataInv, pc = "idle"
               PROVE  /\ last # None => last = Greedy(hist)
                      /\ ahead # None => ahead = last
                      /\ IF ahead = None THEN kda = [toks |-> hist, ok |-> TRUE]
                                         ELSE jobs # <<>> \/ results # <<>>
    BY DEF AnswersExact
  <2>1. /\ last # None => last = Greedy(hist)
        /\ ahead # None => ahead = last
        /\ ahead = None => kda = [toks |-> hist, ok |-> TRUE]
    BY DEF DataInv, TokInv, Exactly
  <2>2. ahead # None => Len(jobs) + Len(results) = 1
    BY RowsCounted
  <2>3. ahead # None => jobs # <<>> \/ results # <<>>
    BY <2>2, NoneLeft, Zenon
  <2> QED BY <2>1, <2>3
<1> QED BY <1>1, DataInvariance, PTL

(* What drop_ahead and the next row find (RowsSound): no job or result of a dropped or failed  *)
(* call, a launch queue within its bound, and the backup of the ids held.                       *)
THEOREM RowsCorrect == Spec => []RowsSound
<1>1. RowInv /\ DataInv => TypeOK
  <2> SUFFICES ASSUME RowInv PROVE TypeOK
    OBVIOUS
  <2>1. HostShape /\ DeviceShape /\ ThreadShape /\ LayersQueued <= QueueCap
    BY DEF RowInv, Shape, QueueInv
  <2>2. /\ mode \in Modes /\ calls \in 0 .. MaxCalls /\ faults \in 0 .. MaxFaults /\ laid \in 0 .. Layers /\ second \in BOOLEAN
        /\ pc \in {"idle", "row", "pace", "launch", "head", "sync", "wait", "drop", "drain", "fail"}
        /\ call \in [kind : {"decode", "settle", "reset"}, tok : Tokens]
        /\ hist \in Seq(Tokens) /\ {last, ahead} \subseteq Tokens \cup {None}
    BY <2>1 DEF HostShape
  <2>3. /\ phase \in {"publish"} \cup Range(Steps)
        /\ kda \in [toks : Seq(Tokens), ok : BOOLEAN] /\ bak \in [toks : Seq(Tokens), ok : BOOLEAN]
    BY <2>1 DEF DeviceShape, State
  <2>4. /\ cphase \in {"next", "read", "reply", "failed"} /\ tab \in [LayerIds -> Nat] /\ moved \in Nat /\ flying \subseteq Nat
    BY <2>1 DEF ThreadShape
  <2>5. Len(jobs) + Len(results) <= 2 /\ (pc = "idle" /\ ahead = None => jobs = <<>> /\ results = <<>>)
    <3>1. Len(jobs) + Len(results) <= 2 /\ (pc = "idle" /\ ahead = None => Len(jobs) + Len(results) = 0)
      BY RowsCounted
    <3> QED BY <3>1, NoneLeft, Zenon
  <2>6. ctl.queued <= ctl.handed /\ ctr <= ctl.queued
    BY DeviceBehindHost
  <2> QED BY <2>1, <2>2, <2>3, <2>4, <2>5, <2>6, Zenon DEF TypeOK
<1>2. RowInv /\ DataInv => DropRestores
  <2> SUFFICES ASSUME DataInv, pc = "drop", stream = <<>> PROVE bak = [toks |-> hist, ok |-> TRUE]
    BY DEF DropRestores
  <2>1. Base = bak
    BY DEF Base, TopIs
  <2> QED BY <2>1 DEF DataInv, TokInv, Exactly
<1>3. RowInv /\ DataInv => RowsSound
  BY <1>1, <1>2 DEF RowsSound
<1> QED BY <1>3, DataInvariance, PTL
=============================================================================
