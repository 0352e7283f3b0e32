----------------------------- MODULE Controller -----------------------------
(* Controlled decode rows (glm5_flags.rs: Ctl, RingReader, EarlyReply,       *)
(* DevLane, Worker; glm5_tiers.rs: ctl_job, enqueue_ctl, row_ctl, decode_la  *)
(* and finish_staged).  The host queues a whole row of MoE layers; on each   *)
(* layer the device publishes a request, the controller thread serves it,    *)
(* the device waits for the answer.  With the lookahead the next row is      *)
(* queued on the device's own id before the host has read that id.           *)
EXTENDS Integers, Sequences, SequencesExt

CONSTANTS
  Modes,      \* early reply, lookahead, CPU lane: the settings a run may have
  Layers,     \* MoE layers of a row
  RingSize,   \* CTL_RING, the entries of the request ring and the late ring
  Ahead,      \* CTL_AHEAD
  QueueCap,   \* layers of launches the stream holds before cuLaunchKernel blocks
  MaxCalls,   \* calls of the engine
  MaxFaults   \* failures and timeouts a behaviour may have

ASSUME ControllerAssumption ==
  /\ Modes \subseteq [early : BOOLEAN, la : BOOLEAN, lane : BOOLEAN]
  /\ Layers \in Nat \ {0} /\ RingSize \in Nat \ {0} /\ MaxCalls \in Nat /\ MaxFaults \in Nat
  /\ Ahead \in Nat \ {0} /\ QueueCap \in Nat /\ Ahead < QueueCap /\ Ahead < RingSize

VARIABLES
  mode,                                    \* the setting of this run
  calls, faults,
  pc, call, laid, second,                  \* host: step, call, layers queued, of the row ahead
  hist, last, ahead,                       \* ids held, id returned, id of the row ahead
  ctl,                                     \* Ctl: queued, handed, cancel, poisoned, base
  words,                                   \* mapped words: reply, err, lane flag
  ring, entry,                             \* request ring, late ring
  stream, phase, ctr,                      \* compute stream, its layer's phase, publish counter
  kda, bak, next, marked,                  \* recurrent state, its backup, head's id, it is read back
  jobs, cphase, results,                   \* controller thread
  tab, moved, flying, stg,                 \* tables, copies done, records not landed, stager stream
  lane, laneRow, xrow                      \* CPU lane: jobs, its summed row, its input row

hostVars  == <<mode, calls, pc, call, laid, second, hist, last, ahead>>
devVars   == <<phase, ctr, kda, bak, next, marked>>
jobVars   == <<jobs, cphase, results>>
storeVars == <<tab, moved, flying, stg>>
laneVars  == <<lane, laneRow, xrow>>
vars == <<hostVars, faults, ctl, words, ring, entry, stream, devVars, jobVars, storeVars, laneVars>>

Tokens == {0, 1}
None   == 2
\* u64::MAX in the reply word or the lane flag: above every request, of which a
\* call hands over two rows at most.
Released == 2 * Layers * MaxCalls + 1
LayerIds == 1 .. Layers

\* Requests of all controllers of a run: the base of the one in force, then its number.
Rid(q) == ctl.base + q

\* The head's id on the sequence of ids fed so far.
Greedy(toks) == (Len(toks) + Cardinality({i \in DOMAIN toks : toks[i] = 1})) % 2

Fresh == [toks |-> <<>>, ok |-> TRUE]
NoCall == [kind |-> "reset", tok |-> 0]
\* Back to the caller.
Returns == pc' = "idle" /\ call' = NoCall /\ laid' = 0 /\ second' = FALSE
Fault == faults < MaxFaults /\ faults' = faults + 1

LayersQueued == Cardinality({i \in DOMAIN stream : stream[i].op = "layer"})
\* The host sits in a launch on a full queue: every other driver call waits for it.
HostInDriver == pc = "launch" /\ LayersQueued >= QueueCap

-----------------------------------------------------------------------------
(* Host: one call of the engine at a time.                                   *)

\* zero_state behind a drained stream: the history and the row ahead go.
Fail ==
  /\ pc = "fail" /\ stream = <<>>
  /\ Returns /\ hist' = <<>> /\ last' = None /\ ahead' = None /\ kda' = Fresh
  /\ UNCHANGED <<mode, calls, faults, ctl, words, ring, entry, stream, phase,
                 ctr, bak, next, marked, jobVars, storeVars, laneVars>>

\* decode on t; settle_ahead of a snapshot; reset.
Call(kind, t) ==
  /\ pc = "idle" /\ calls < MaxCalls /\ calls' = calls + 1
  /\ kind = "settle" => ahead # None
  /\ kind # "decode" => t = 0
  /\ call' = [kind |-> kind, tok |-> t]
  /\ pc' = IF kind = "decode" /\ ctl.poisoned THEN "fail"
           ELSE IF kind = "decode" /\ ahead = t THEN "head"
           ELSE IF ahead # None THEN "drop"
           ELSE IF kind = "decode" THEN "row" ELSE "fail"
  /\ ahead' = None
  /\ second' = FALSE
  /\ UNCHANGED <<mode, laid, hist, last, faults, ctl, words, ring, entry, stream, devVars,
                 jobVars, storeVars, laneVars>>

\* drop_ahead: the row runs out, its job's result, the state of its start back.
DropAhead ==
  /\ pc = "drop" /\ stream = <<>> /\ results # <<>>
  /\ LET ok == Head(results) /\ words.err = 0
     IN /\ IF call.kind = "settle"
             THEN Returns
             ELSE /\ pc' = (IF call.kind = "decode" /\ ok THEN "row" ELSE "fail")
                  /\ UNCHANGED <<call, laid, second>>
        /\ ctl' = [ctl EXCEPT !.poisoned = @ \/ ~ok]
  /\ kda' = bak /\ results' = Tail(results)
  /\ UNCHANGED <<mode, calls, hist, last, ahead, faults, words, ring, entry,
                 stream, phase, ctr, bak, next, marked, jobs, cphase, storeVars, laneVars>>

\* enqueue_ctl: a fresh controller's lane flag, the reader, the job to the thread.
Handed ==
  /\ ctl.handed = 0 => lane = <<>>
  /\ words' = IF ctl.handed = 0 THEN [words EXCEPT !.flag = 0] ELSE words
  /\ ctl' = [ctl EXCEPT !.handed = @ + Layers, !.cancel = FALSE]
  /\ jobs' = Append(jobs, [seq |-> ctl.handed + 1, left |-> Layers])
  /\ laid' = 0 /\ pc' = "pace"

StartRow ==
  /\ pc = "row" /\ Handed
  /\ stream' = Append(stream, [op |-> "start", arg |-> call.tok])
  /\ UNCHANGED <<mode, calls, call, second, hist, last, ahead, faults, ring, entry, devVars,
                 cphase, results, storeVars, laneVars>>

\* Wrong: the jobs are not told.
EnqueueFailsQuietly ==
  /\ ctl' = [ctl EXCEPT !.poisoned = TRUE]
  /\ pc' = "drain"
  /\ UNCHANGED <<mode, calls, call, laid, second, hist, last, ahead, words, ring, entry, stream,
                 devVars, jobVars, storeVars, laneVars>>

\* layers_ctl failed: the jobs stop waiting, the stream drains.
EnqueueFails ==
  /\ ctl' = [ctl EXCEPT !.cancel = TRUE, !.poisoned = TRUE]
  /\ pc' = "drain"
  /\ UNCHANGED <<mode, calls, call, laid, second, hist, last, ahead, words, ring, entry, stream,
                 devVars, jobVars, storeVars, laneVars>>

\* Wrong: the row goes into the stream whole.
PacedNever == TRUE

\* Ctl::pace: at most Ahead layers behind a request not answered yet.
Paced == words.reply + Ahead >= ctl.queued + 1

Pace ==
  /\ pc = "pace" /\ Paced /\ pc' = "launch"
  /\ UNCHANGED <<mode, calls, call, laid, second, hist, last, ahead, faults, ctl, words, ring,
                 entry, stream, devVars, jobVars, storeVars, laneVars>>

\* A device wait gave up (the error word), 30 s passed, or a launch failed.
PaceFails ==
  /\ \/ pc = "pace" /\ ~Paced /\ words.err # 0 /\ UNCHANGED faults
     \/ pc = "pace" /\ ~Paced /\ Fault
     \/ pc = "launch" /\ ~HostInDriver /\ Fault
  /\ EnqueueFails

\* One layer's launches; behind a row's last layer its head, or (of the row
\* ahead) the wait for this row's id.
Launch ==
  /\ pc = "launch" /\ ~HostInDriver
  /\ stream' = Append(stream, [op |-> "layer", arg |-> laid + 1])
  /\ ctl' = [ctl EXCEPT !.queued = @ + 1]
  /\ laid' = laid + 1
  /\ pc' = IF laid + 1 < Layers THEN "pace" ELSE IF second THEN "wait" ELSE "head"
  /\ UNCHANGED <<mode, calls, call, second, hist, last, ahead, faults, words, ring, entry, devVars,
                 jobVars, storeVars, laneVars>>

\* Wrong: the backup is queued behind the next row's input.
HeadRowBacksUpLate ==
  /\ pc = "head" /\ marked' = FALSE
  /\ IF mode.la
       THEN /\ Handed /\ second' = TRUE
            /\ stream' = stream \o <<[op |-> "head", arg |-> 0], [op |-> "start", arg |-> None],
                                     [op |-> "backup", arg |-> 0]>>
       ELSE /\ stream' = Append(stream, [op |-> "head", arg |-> 0])
            /\ pc' = "sync"
            /\ UNCHANGED <<ctl, words, jobs, laid, second>>
  /\ UNCHANGED <<mode, calls, call, hist, last, ahead, faults, ring, entry, phase, ctr, kda, bak,
                 next, cphase, results, storeVars, laneVars>>

\* The head and its readback; with the lookahead the state's backup, the device's
\* id gathered, and the next row's job.
HeadRow ==
  /\ pc = "head" /\ marked' = FALSE
  /\ IF mode.la
       THEN /\ Handed /\ second' = TRUE
            /\ stream' = stream \o <<[op |-> "head", arg |-> 0], [op |-> "backup", arg |-> 0],
                                     [op |-> "start", arg |-> None]>>
       ELSE /\ stream' = Append(stream, [op |-> "head", arg |-> 0])
            /\ pc' = "sync"
            /\ UNCHANGED <<ctl, words, jobs, laid, second>>
  /\ UNCHANGED <<mode, calls, call, hist, last, ahead, faults, ring, entry, phase, ctr, kda, bak,
                 next, cphase, results, storeVars, laneVars>>

\* Wrong: the device's error word is not looked at.
JoinedUnchecked ==
  /\ \/ pc = "sync" /\ stream = <<>>
     \/ pc = "wait" /\ marked
  /\ results # <<>>
  /\ LET ok == Head(results)
     IN /\ ctl' = [ctl EXCEPT !.poisoned = @ \/ ~ok]
        /\ IF ok THEN /\ Returns /\ hist' = Append(hist, call.tok) /\ last' = next
                      /\ ahead' = IF mode.la THEN next ELSE None
                 ELSE /\ pc' = (IF mode.la THEN "drain" ELSE "fail")
                      /\ UNCHANGED <<hist, last, ahead, call, laid, second>>
  /\ results' = Tail(results)
  /\ UNCHANGED <<mode, calls, faults, words, ring, entry, stream, devVars,
                 jobs, cphase, storeVars, laneVars>>

\* ctl_result of this row's job, once its id is back (or the stream drained).
Joined ==
  /\ \/ pc = "sync" /\ stream = <<>>
     \/ pc = "wait" /\ marked
  /\ results # <<>>
  /\ LET ok == Head(results) /\ words.err = 0
     IN /\ ctl' = [ctl EXCEPT !.poisoned = @ \/ ~ok]
        /\ IF ok THEN /\ Returns /\ hist' = Append(hist, call.tok) /\ last' = next
                      /\ ahead' = IF mode.la THEN next ELSE None
                 ELSE /\ pc' = (IF mode.la THEN "drain" ELSE "fail")
                      /\ UNCHANGED <<hist, last, ahead, call, laid, second>>
  /\ results' = Tail(results)
  /\ UNCHANGED <<mode, calls, faults, words, ring, entry, stream, devVars,
                 jobs, cphase, storeVars, laneVars>>

\* drain_ctl: the stream, then every pending job's result dropped.
Drain ==
  /\ pc = "drain" /\ stream = <<>> /\ jobs = <<>>
  /\ results' = <<>> /\ pc' = "fail"
  /\ UNCHANGED <<mode, calls, call, laid, second, hist, last, ahead, faults, ctl, words, ring,
                 entry, stream, devVars, jobs, cphase, storeVars, laneVars>>

\* set_switches after a failure: another ring, other words, a counter from 0.
NewSwitches ==
  /\ pc = "idle" /\ ctl.poisoned /\ ahead = None /\ stream = <<>> /\ jobs = <<>>
  /\ ctl' = [queued |-> 0, handed |-> 0, cancel |-> FALSE, poisoned |-> FALSE, base |-> ctl.base + ctl.handed]
  /\ words' = [words EXCEPT !.reply = 0, !.err = 0]
  /\ ring' = [i \in 0 .. RingSize - 1 |-> [seq |-> 0, layer |-> 0]]
  /\ entry' = [i \in 0 .. RingSize - 1 |-> [seq |-> 0, late |-> FALSE]]
  /\ ctr' = 0
  /\ UNCHANGED <<hostVars, faults, stream, phase, kda, bak, next, marked, jobVars, storeVars,
                 laneVars>>

Host == \/ Fail \/ DropAhead \/ StartRow \/ Pace \/ PaceFails \/ Launch \/ HeadRow
        \/ Joined \/ Drain

-----------------------------------------------------------------------------
(* The compute stream, in order.  A layer publishes its request, waits for   *)
(* the answer, runs the experts (early: those in place behind the moves      *)
(* word, then the late one behind its landing), adds the CPU lane's row.     *)

Top == Head(stream)
Q   == Rid(ctr)
Slot(q) == q % RingSize

\* Steps of a layer behind its publish.
Steps == <<"wait">> \o (IF mode.early THEN <<"pre", "experts", "late">> ELSE <<"experts">>)
                    \o (IF mode.lane THEN <<"lane">> ELSE <<>>)
AfterStep(p) == LET i == CHOOSE j \in DOMAIN Steps : Steps[j] = p
                IN IF i = Len(Steps) THEN "publish" ELSE Steps[i + 1]

\* The late entry is this request's and names a late expert.
Mine  == entry[Slot(ctr)].seq = ctr
Named == Mine /\ entry[Slot(ctr)].late

DeviceWaits == CASE phase = "wait" -> words.reply < ctr
                 [] phase = "pre"  -> Named /\ moved < Q
                 [] phase = "late" -> Named /\ Q \in flying
                 [] phase = "lane" -> words.flag < ctr
                 [] OTHER          -> FALSE

\* Behind a failed job the answers of the next one may lower the released word.
JobFailed == ctl.poisoned \/ FALSE \in Range(results)

\* What the step reads is what the controller and the lane made for this request.
Exact == CASE phase = "experts" -> tab[Top.arg] = Q /\ moved >= (IF mode.early /\ ~Named THEN 0 ELSE Q)
           [] phase = "late"    -> Mine /\ Q \notin flying
           [] phase = "lane"    -> laneRow = Q
           [] OTHER             -> TRUE

\* The device waits for the controller, the controller's next driver call for
\* the host's launch, the launch for the device.
Starved == HostInDriver /\ DeviceWaits /\ cphase \in {"read", "failed"}

\* glm5_ctl_publish; the lane's input row goes to the host before it.
Publish ==
  /\ stream # <<>> /\ Top.op = "layer" /\ phase = "publish"
  /\ ctr' = ctr + 1 /\ phase' = "wait"
  /\ ring' = [ring EXCEPT ![Slot(ctr + 1)] = [seq |-> ctr + 1, layer |-> Top.arg]]
  /\ xrow' = IF mode.lane THEN Rid(ctr + 1) ELSE xrow
  /\ UNCHANGED <<hostVars, faults, ctl, words, entry, stream, kda, bak, next, marked, jobVars,
                 storeVars, lane, laneRow>>

\* glm5_ctl_wait, glm5_ctl_pre, the experts, glm5_ctl_late, glm5_lane_add: a wait
\* ends when its word is up, or after one second with the number in the error word.
LayerStep ==
  /\ stream # <<>> /\ Top.op = "layer" /\ phase # "publish"
  /\ \/ ~DeviceWaits /\ UNCHANGED <<words, faults>>
     \/ /\ DeviceWaits /\ (Fault \/ (JobFailed /\ UNCHANGED faults))
        /\ words' = [words EXCEPT !.err = IF @ = 0 THEN ctr ELSE @]
  /\ kda' = [kda EXCEPT !.ok = @ /\ Exact]
  /\ phase' = AfterStep(phase)
  /\ stream' = IF phase' = "publish" THEN Tail(stream) ELSE stream
  /\ UNCHANGED <<hostVars, ctl, ring, entry, ctr, bak, next, marked, jobVars, storeVars, laneVars>>

\* A row's input (an id, or the device's own), the state's backup, the head.
OtherLaunch ==
  /\ stream # <<>> /\ Top.op # "layer" /\ stream' = Tail(stream)
  /\ CASE Top.op = "start"  -> /\ kda' = [kda EXCEPT !.toks = Append(@, IF Top.arg = None THEN next ELSE Top.arg)]
                               /\ UNCHANGED <<bak, next, marked>>
       [] Top.op = "backup" -> /\ bak' = kda
                               /\ UNCHANGED <<kda, next, marked>>
       [] Top.op = "head"   -> /\ next' \in (IF kda.ok THEN {Greedy(kda.toks)} ELSE Tokens)
                               /\ marked' = TRUE
                               /\ UNCHANGED <<kda, bak>>
  /\ UNCHANGED <<hostVars, faults, ctl, words, ring, entry, phase, ctr, jobVars, storeVars, laneVars>>

Device == Publish \/ LayerStep \/ OtherLaunch

-----------------------------------------------------------------------------
(* The controller thread: ctl_job over the rows' jobs, in order.             *)

Job == Head(jobs)
Expected == ring[Slot(Job.seq)].seq = Job.seq

\* RingReader::next.
SeeRequest ==
  /\ jobs # <<>> /\ cphase = "next" /\ Expected /\ cphase' = "read"
  /\ UNCHANGED <<hostVars, faults, ctl, words, ring, entry, stream, devVars, jobs, results,
                 storeVars, laneVars>>

\* The row was abandoned, or 30 s passed: the entry was overwritten, or the device
\* stands with nothing queued (each of its own waits ends after one second).
RequestLost ==
  /\ jobs # <<>> /\ cphase = "next" /\ ~Expected /\ cphase' = "failed"
  /\ \/ (ctl.cancel \/ ctr >= Job.seq) /\ UNCHANGED faults
     \/ stream = <<>> /\ Fault
  /\ UNCHANGED <<hostVars, ctl, words, ring, entry, stream, devVars, jobs, results, storeVars, laneVars>>

\* The request answered: the next one, or the job's result.
Answered ==
  /\ cphase' = "next"
  /\ IF Job.left > 1
       THEN /\ jobs' = <<[seq |-> Job.seq + 1, left |-> Job.left - 1]>> \o Tail(jobs)
            /\ UNCHANGED results
       ELSE jobs' = Tail(jobs) /\ results' = Append(results, TRUE)

\* DevLane::submit.
ToLane == lane' = IF mode.lane THEN Append(lane, [q |-> Job.seq, rid |-> Rid(Job.seq)]) ELSE lane

\* table_reply_early up to the answer: reads and copies issued, the table row
\* (early: where the device reads it) and the late entry written; a call that
\* keeps the former order, and every call of the late reply, is answered by the
\* stager stream.
Serve(serial) ==
  /\ jobs # <<>> /\ cphase = "read" /\ ~HostInDriver
  /\ LET s == Slot(Job.seq)
         l == ring[s].layer
         r == Rid(Job.seq)
     IN /\ flying' = flying \cup {r}
        /\ tab' = IF mode.early THEN [tab EXCEPT ![l] = r] ELSE tab
        /\ entry' = IF mode.early THEN [entry EXCEPT ![s] = [seq |-> Job.seq, late |-> ~serial]] ELSE entry
        /\ stg' = Append(stg, [layer |-> l, rid |-> r, q |-> IF serial THEN Job.seq ELSE 0])
  /\ IF serial THEN Answered /\ ToLane
               ELSE cphase' = "reply" /\ UNCHANGED <<jobs, results, lane>>
  /\ UNCHANGED <<hostVars, faults, ctl, words, ring, stream, devVars, moved, laneRow, xrow>>

\* EarlyReply::reply: a host store, never lower; then the lane's job.
ReplyEarly ==
  /\ cphase = "reply"
  /\ words' = [words EXCEPT !.reply = IF @ < Job.seq THEN Job.seq ELSE @]
  /\ Answered /\ ToLane
  /\ UNCHANGED <<hostVars, faults, ctl, ring, entry, stream, devVars, storeVars, laneRow, xrow>>

\* A read reported its failure, or the plan refused.
ServeFails ==
  /\ cphase = "read" /\ Fault /\ cphase' = "failed"
  /\ UNCHANGED <<hostVars, ctl, words, ring, entry, stream, devVars, jobs, results, storeVars, laneVars>>

\* stager_idle, release_all, dev_lane_release: the device runs its row out.
ReleaseAll ==
  /\ cphase = "failed" /\ ~HostInDriver /\ stg = <<>>
  /\ words' = [words EXCEPT !.reply = Released, !.flag = Released]
  /\ cphase' = "next" /\ jobs' = Tail(jobs) /\ results' = Append(results, FALSE)
  /\ UNCHANGED <<hostVars, faults, ctl, ring, entry, stream, devVars, storeVars, laneVars>>

Controls == SeeRequest \/ RequestLost \/ (\E serial \in BOOLEAN : (mode.early \/ serial) /\ Serve(serial))
            \/ ReplyEarly \/ ServeFails \/ ReleaseAll

-----------------------------------------------------------------------------
(* The stager stream, the NVMe reads and the CPU lane's thread.              *)

\* A call's copies; of a late or serial answer also its landing, its table, the
\* reply (into the words of its own controller, since freed or not).
StagerStep ==
  /\ stg # <<>>
  /\ LET c == Head(stg)
     IN /\ c.q # 0 => c.rid \notin flying
        /\ moved' = c.rid
        /\ tab' = IF mode.early THEN tab ELSE [tab EXCEPT ![c.layer] = c.rid]
        /\ words' = IF c.q # 0 /\ c.rid > ctl.base THEN [words EXCEPT !.reply = c.q] ELSE words
  /\ stg' = Tail(stg)
  /\ UNCHANGED <<hostVars, faults, ctl, ring, entry, stream, devVars, jobVars, flying, laneVars>>

\* A record's reader is done (NvmeSource has the reader itself).
Land(r) ==
  /\ flying' = flying \ {r}
  /\ UNCHANGED <<hostVars, faults, ctl, words, ring, entry, stream, devVars, jobVars, tab, moved, stg,
                 laneVars>>

\* LaneCtx::run: the job's records landed, the input row read, the flag raised
\* (never lowered); a record that does not land in 30 s leaves the flag, the
\* device's one second for this request long past.
LaneRun ==
  /\ lane # <<>> /\ lane' = Tail(lane)
  /\ LET j == Head(lane)
     IN \/ /\ j.rid \notin flying
           /\ laneRow' = IF xrow = j.rid THEN j.rid ELSE 0
           /\ words' = [words EXCEPT !.flag = IF @ < j.q THEN j.q ELSE @]
        \/ j.rid \in flying /\ (ctr > j.q \/ phase = "publish") /\ UNCHANGED <<laneRow, words>>
  /\ UNCHANGED <<hostVars, faults, ctl, ring, entry, stream, devVars, jobVars, storeVars, xrow>>

Init ==
  /\ mode \in Modes
  /\ calls = 0 /\ faults = 0 /\ pc = "idle" /\ call = NoCall
  /\ laid = 0 /\ second = FALSE /\ hist = <<>> /\ last = None /\ ahead = None
  /\ ctl = [queued |-> 0, handed |-> 0, cancel |-> FALSE, poisoned |-> FALSE, base |-> 0]
  /\ words = [reply |-> 0, err |-> 0, flag |-> 0]
  /\ ring = [i \in 0 .. RingSize - 1 |-> [seq |-> 0, layer |-> 0]]
  /\ entry = [i \in 0 .. RingSize - 1 |-> [seq |-> 0, late |-> FALSE]]
  /\ stream = <<>> /\ phase = "publish" /\ ctr = 0
  /\ kda = Fresh /\ bak = Fresh /\ next = 0 /\ marked = FALSE
  /\ jobs = <<>> /\ cphase = "next" /\ results = <<>>
  /\ tab = [l \in LayerIds |-> 0] /\ moved = 0 /\ flying = {} /\ stg = <<>>
  /\ lane = <<>> /\ laneRow = 0 /\ xrow = 0

Next ==
  \/ \E kind \in {"decode", "settle", "reset"}, t \in Tokens : Call(kind, t)
  \/ NewSwitches \/ Host \/ Device \/ Controls \/ StagerStep \/ LaneRun
  \/ \E r \in flying : Land(r)

Spec == Init /\ [][Next]_vars

\* Threads, streams and reads go on by themselves; nothing has to fail.
Unhurt(A) == A /\ UNCHANGED faults
FairSpec == Spec /\ WF_vars(Unhurt(Host)) /\ WF_vars(Unhurt(Device)) /\ WF_vars(Unhurt(Controls))
                 /\ WF_vars(StagerStep) /\ WF_vars(LaneRun)
                 /\ \A r \in 1 .. Layers * 2 * MaxCalls : WF_vars(r \in flying /\ Land(r))

-----------------------------------------------------------------------------
TypeOK ==
  /\ mode \in Modes
  /\ calls \in 0 .. MaxCalls /\ faults \in 0 .. MaxFaults /\ laid \in 0 .. Layers /\ second \in BOOLEAN
  /\ pc \in {"idle", "row", "pace", "launch", "head", "sync", "wait", "drop", "drain", "fail"}
  /\ call \in [kind : {"decode", "settle", "reset"}, tok : Tokens]
  /\ hist \in Seq(Tokens) /\ {last, ahead} \subseteq Tokens \cup {None}
  /\ ctl.queued <= ctl.handed /\ ctr <= ctl.queued
  /\ LayersQueued <= QueueCap
  /\ phase \in {"publish"} \cup Range(Steps) /\ cphase \in {"next", "read", "reply", "failed"}
  /\ Len(jobs) + Len(results) <= 2 /\ (pc = "idle" /\ ahead = None => jobs = <<>> /\ results = <<>>)
  /\ kda \in [toks : Seq(Tokens), ok : BOOLEAN] /\ bak \in [toks : Seq(Tokens), ok : BOOLEAN]
  /\ tab \in [LayerIds -> Nat] /\ moved \in Nat /\ flying \subseteq Nat

\* Between calls the id handed out is the head's on the ids held, and the
\* recurrent state is theirs alone: of the row running ahead, its backup is.  No
\* table, copy, landing or CPU row of another request reached an answer that was
\* accepted, whatever timed out, failed or was dropped on the way.
AnswersExact ==
  pc = "idle" =>
    /\ last # None => last = Greedy(hist)
    /\ ahead # None => ahead = last
    /\ IF ahead = None THEN kda = [toks |-> hist, ok |-> TRUE]
                       ELSE jobs # <<>> \/ results # <<>>

\* The state that comes back when the row ahead is dropped is that of the ids held.
DropRestores ==
  pc = "drop" /\ stream = <<>> => bak = [toks |-> hist, ok |-> TRUE]

\* What the host keeps between rows: no job or result of a dropped or failed call is
\* left to the next one (TypeOK), and the backup is the state to go back to.
RowsSound == TypeOK /\ DropRestores

\* While no job has failed, the device's wait, the controller's driver call and
\* the host's launch never wait for one another (the launch queue that filled in
\* the first controlled row of GLM-5.3-Flash, glm5_flags.rs 1956).
NeverStarved == Starved => JobFailed \/ words.err # 0

\* Every call comes back, and until a job has failed no wait of the device or the
\* host has to be given up for it.
CallsReturn == pc # "idle" ~> pc = "idle"

=============================================================================
