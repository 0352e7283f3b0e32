----------------------------- MODULE NvmeSource -----------------------------
(* Reading expert records from the container (nvme_source.rs: NvmeSource,    *)
(* ReaderShared, Pool, Ticket, raise_landed).  A fetch is a few records; a   *)
(* reader takes its share of a fetch as one batch, the piece pool cuts every *)
(* record into pieces any worker may read.  Flags, counts and tickets tell   *)
(* the GPU and the host when a record's buffer is theirs again.              *)
EXTENDS Integers, Sequences, FiniteSets, SequencesExt

CONSTANTS
  Threads,   \* readers, or workers of the pool
  Fetches,   \* fetches of a run
  MaxRecs,   \* most records of a fetch
  Pieces,    \* pieces of a record
  Kinds,     \* backends: "fifo", "demand_first", "pool"
  Lanes,     \* lo_max: workers that may read Prefetch pieces at once
  Faults     \* reads that may fail

ASSUME NvmeAssumption ==
  /\ Threads \in Nat \ {0} /\ Fetches \in Nat /\ MaxRecs \in Nat \ {0}
  /\ Pieces \in Nat \ {0} /\ Faults \in Nat
  /\ Kinds \subseteq {"fifo", "demand_first", "pool"}
  /\ Lanes \subseteq 1 .. Threads

VARIABLES
  kind, loMax,
  queue,      \* per reader (the pool: of worker 0) the hi and lo queue
  closed,     \* the source is being dropped
  worker,     \* what each thread does
  fetch,      \* per fetch: how many records it asked for
  dropped,    \* records whose read was cancelled
  bytes,      \* pieces whose read ended
  counted,    \* pieces taken off their record's left
  bad,        \* records a read of which failed
  flag,       \* records whose landed flag is raised
  reported,   \* records in their fetch's report
  inFlight    \* IoCount.in_flight

vars == <<kind, loMax, queue, closed, worker, fetch, dropped, bytes, counted, bad, flag, reported, inFlight>>

Workers == 0 .. Threads - 1
Ids     == 1 .. Fetches
Recs    == 1 .. MaxRecs
Parts   == 1 .. Pieces
Pool    == kind = "pool"

QueueOf(w) == IF Pool THEN 0 ELSE w

RecordsOf(f) == {<<f, r>> : r \in 1 .. fetch[f]}

\* What a queue holds at the positions in at, in the queue's order.
Picked(s, at) ==
  LET nth(k) == CHOOSE i \in at : Cardinality({j \in at : j < i}) = k - 1
  IN [k \in 1 .. Cardinality(at) |-> s[nth(k)]]

\* A queued unit: a batch (part 0) of records of a fetch, or one piece.
PiecesOf(t) == {<<rec, p>> : rec \in t.recs, p \in IF t.part = 0 THEN Parts ELSE {t.part}}

Range2(s) == {s[i] : i \in DOMAIN s}
Queued    == UNION {Range2(queue[w].hi) \cup Range2(queue[w].lo) : w \in Workers}
Reading   == {worker[w].task : w \in {x \in Workers : worker[x].at = "read"}}
LowReading == {w \in Workers : worker[w].at = "read" /\ worker[w].low}

NoTask == [recs |-> {}, part |-> 0]
Idle   == [at |-> "idle", task |-> NoTask, low |-> FALSE]

\* Threads in cv.wait on the queue of w.
Waiters(q) == {w \in Workers : worker[w].at = "wait" /\ QueueOf(w) = q}
Woken(ws)  == [w \in Workers |-> IF w \in ws THEN Idle ELSE worker[w]]

-----------------------------------------------------------------------------
(* fetch_with, Pool::submit.                                                 *)

Load(w) == Len(queue[w].hi) + Len(queue[w].lo) + (IF worker[w].at \in {"read", "finish"} THEN 1 ELSE 0)

\* The readers a fetch is dealt to: from 0 on, or the least loaded first.
Order == IF kind = "demand_first"
           THEN SetToSortSeq(Workers, LAMBDA a, b : Load(a) < Load(b) \/ (Load(a) = Load(b) /\ a < b))
           ELSE SetToSortSeq(Workers, LAMBDA a, b : a < b)

\* Records k with k = i (mod shares) are the i-th reader's batch.
Shares(n) == IF n < Threads THEN n ELSE Threads
Batch(f, n, i) == [recs |-> {<<f, r>> : r \in {x \in 1 .. n : (x - 1) % Shares(n) = i}}, part |-> 0]

PoolPieces(f, n) ==
  [i \in 1 .. n * Pieces |-> [recs |-> {<<f, ((i - 1) \div Pieces) + 1>>}, part |-> ((i - 1) % Pieces) + 1]]

\* Behind the lo or the hi queue of a queue pair.
Behind(q, ts, lo) == IF lo THEN [q EXCEPT !.lo = @ \o ts] ELSE [q EXCEPT !.hi = @ \o ts]

Submit(f, n, prefetch) ==
  /\ ~closed /\ fetch[f] = 0 /\ (\A g \in 1 .. f - 1 : fetch[g] # 0)
  /\ fetch' = [fetch EXCEPT ![f] = n]
  /\ inFlight' = inFlight + n
  /\ LET lo == prefetch /\ kind # "fifo"
         to == [w \in Workers |-> IF \E i \in 1 .. Shares(n) : Order[i] = w
                                    THEN CHOOSE i \in 1 .. Shares(n) : Order[i] = w
                                    ELSE 0]
     IN IF Pool
          THEN /\ queue' = [queue EXCEPT ![0] = Behind(@, PoolPieces(f, n), lo)]
               /\ worker' = Woken(Waiters(0))
          ELSE /\ queue' = [w \in Workers |-> IF to[w] = 0 THEN queue[w]
                              ELSE Behind(queue[w], <<Batch(f, n, to[w] - 1)>>, lo)]
               /\ worker' = Woken({w \in Workers : to[w] # 0 /\ worker[w].at = "wait"})
  /\ UNCHANGED <<kind, loMax, closed, dropped, bytes, counted, bad, flag, reported>>

\* promote: the record is needed now, its queued Prefetch work moves up: its
\* pieces in the pool, else a batch that is that record's alone.
Promote(rec) ==
  /\ kind # "fifo"
  /\ LET lo(w)   == DOMAIN queue[w].lo
         mine(w) == {i \in lo(w) : queue[w].lo[i].recs = {rec}}
     IN /\ \E w \in Workers : mine(w) # {}
        /\ queue' = [w \in Workers |-> [hi |-> queue[w].hi \o Picked(queue[w].lo, mine(w)),
                                        lo |-> Picked(queue[w].lo, lo(w) \ mine(w))]]
        /\ worker' = IF Pool THEN Woken(Waiters(0)) ELSE worker
  /\ UNCHANGED <<kind, loMax, closed, fetch, dropped, bytes, counted, bad, flag, reported, inFlight>>

\* Wrong: also what a reader has started.
CancellableStarted == Queued \cup Reading

Cancellable == Queued

\* cancel: a batch of this record alone, not started, leaves its queue; the batch
\* reports to its ticket, the flag stays down.  The pool cancels nothing.
Cancel(rec) ==
  /\ ~Pool
  /\ \E t \in Cancellable :
       /\ t.recs = {rec}
       /\ LET without(s) == Picked(s, {i \in DOMAIN s : s[i] # t})
          IN queue' = [w \in Workers |-> [hi |-> without(queue[w].hi), lo |-> without(queue[w].lo)]]
  /\ dropped' = dropped \cup {rec} /\ reported' = reported \cup {rec}
  /\ inFlight' = inFlight - 1
  /\ UNCHANGED <<kind, loMax, closed, worker, fetch, bytes, counted, bad, flag>>

\* Drop: closed, everyone woken; the threads are joined.
Close ==
  /\ ~closed /\ closed' = TRUE
  /\ worker' = Woken({w \in Workers : worker[w].at = "wait"})
  /\ UNCHANGED <<kind, loMax, queue, fetch, dropped, bytes, counted, bad, flag, reported, inFlight>>

-----------------------------------------------------------------------------
(* ReaderShared::next, pool_worker.                                          *)

\* May a worker take Prefetch work now?
LowFree == Pool => Cardinality(LowReading) < loMax

\* The queue the next unit comes from.
NextFrom(q) == IF q.hi # <<>> THEN "hi" ELSE IF q.lo # <<>> /\ LowFree THEN "lo" ELSE "none"

\* One pass of the loop under the lock: a unit, or leave, or wait.
Take(w) ==
  LET q == queue[QueueOf(w)]
      to(at, t, low) == worker' = [worker EXCEPT ![w] = [at |-> at, task |-> t, low |-> low]]
  IN
  /\ worker[w].at = "idle"
  /\ CASE NextFrom(q) = "hi" -> /\ to("read", Head(q.hi), FALSE)
                                /\ queue' = [queue EXCEPT ![QueueOf(w)].hi = Tail(@)]
       [] NextFrom(q) = "lo" -> /\ to("read", Head(q.lo), TRUE)
                                /\ queue' = [queue EXCEPT ![QueueOf(w)].lo = Tail(@)]
       [] OTHER -> /\ to(IF closed /\ q.lo = <<>> THEN "gone" ELSE "wait", NoTask, FALSE)
                   /\ UNCHANGED queue
  /\ UNCHANGED <<kind, loMax, closed, fetch, dropped, bytes, counted, bad, flag, reported, inFlight>>

\* After the read: of a Prefetch piece the lane is free, and with more of them
\* queued one waiting worker is woken.
AfterRead(w) ==
  LET next == [worker EXCEPT ![w].at = "finish", ![w].low = FALSE] IN
  IF Pool /\ worker[w].low /\ queue[0].lo # <<>> /\ Waiters(0) # {}
    THEN \E x \in Waiters(0) : worker' = [next EXCEPT ![x] = Idle]
    ELSE worker' = next

\* The bytes are in, or the read failed: Reader::run, read_piece.
Read(w) ==
  /\ worker[w].at = "read"
  /\ bytes' = bytes \cup PiecesOf(worker[w].task)
  /\ \/ UNCHANGED bad
     \/ /\ Cardinality(bad) < Faults
        /\ \E rec \in worker[w].task.recs : bad' = bad \cup {rec}
  /\ AfterRead(w)
  /\ UNCHANGED <<kind, loMax, queue, closed, fetch, dropped, counted, flag, reported, inFlight>>

\* Wrong: the first piece of a record raises its flag.
LastPieceAny(rec, c) == TRUE

\* The piece is the record's last.
LastPiece(rec, c) == \A p \in Parts : <<rec, p>> \in c

\* Wrong: a failed read leaves its piece among the record's pieces left.
CountedGood(t) == counted \cup {b \in PiecesOf(t) : b[1] \notin bad}

Counted(t) == counted \cup PiecesOf(t)

\* raise_landed, also after a failure; the records are in flight no more.  In the
\* pool only for the record whose last piece this was.
Finish(w) ==
  LET t == worker[w].task
      c == Counted(t)
      landing == {rec \in t.recs : LastPiece(rec, c)}
  IN
  /\ worker[w].at = "finish"
  /\ counted' = c
  /\ flag' = flag \cup landing
  /\ inFlight' = inFlight - Cardinality(landing)
  /\ worker' = [worker EXCEPT ![w] = IF landing = {} THEN Idle ELSE [@ EXCEPT !.at = "report"]]
  /\ UNCHANGED <<kind, loMax, queue, closed, fetch, dropped, bytes, bad, reported>>

\* The fetch's report, with the reply once it was the last of the fetch.
Report(w) ==
  /\ worker[w].at = "report"
  /\ reported' = reported \cup worker[w].task.recs
  /\ worker' = [worker EXCEPT ![w] = Idle]
  /\ UNCHANGED <<kind, loMax, queue, closed, fetch, dropped, bytes, counted, bad, flag, inFlight>>

-----------------------------------------------------------------------------
Init ==
  /\ kind \in Kinds /\ loMax \in IF kind = "pool" THEN Lanes ELSE {Threads}
  /\ queue = [w \in Workers |-> [hi |-> <<>>, lo |-> <<>>]]
  /\ closed = FALSE /\ worker = [w \in Workers |-> Idle]
  /\ fetch = [f \in Ids |-> 0]
  /\ dropped = {} /\ bytes = {} /\ counted = {} /\ bad = {} /\ flag = {} /\ reported = {} /\ inFlight = 0

WorkerStep(w) == Take(w) \/ Read(w) \/ Finish(w) \/ Report(w)

Next ==
  \/ \E f \in Ids, n \in Recs, prefetch \in BOOLEAN : Submit(f, n, prefetch)
  \/ \E rec \in Ids \X Recs : Promote(rec) \/ Cancel(rec)
  \/ Close
  \/ \E w \in Workers : WorkerStep(w)

Spec == Init /\ [][Next]_vars

\* Every thread goes on while it may; nothing makes the caller fetch or close.
FairSpec == Spec /\ \A w \in Workers : WF_vars(WorkerStep(w))

-----------------------------------------------------------------------------
(* Properties.                                                               *)

Asked(f) == fetch[f] # 0
Done(f)  == Asked(f) /\ RecordsOf(f) \subseteq reported

\* Units are whole, threads are where a thread can be, and the records in flight
\* are exactly those asked for, not raised and not cancelled.
TypeOK ==
  /\ kind \in Kinds /\ loMax \in 1 .. Threads
  /\ \A w \in Workers : worker[w].at \in {"idle", "read", "finish", "report", "wait", "gone"}
  /\ \A t \in Queued \cup Reading : t.recs # {} /\ t.part \in 0 .. Pieces
  /\ inFlight = Cardinality((UNION {RecordsOf(f) : f \in Ids}) \ (flag \cup dropped))

\* A raised flag means every byte of the record's reads has ended: the stream that
\* waits on it copies a whole record.
FlagAfterBytes == \A rec \in flag : \A p \in Parts : <<rec, p>> \in bytes

\* A ticket that is done gives the buffers back: nothing of its fetch is queued or
\* being read, the flag of every record is up but of those cancelled, and nothing of
\* these was ever read.
TicketGivesBack ==
  \A f \in Ids : Done(f) =>
    /\ \A t \in Queued \cup Reading : t.recs \cap RecordsOf(f) = {}
    /\ RecordsOf(f) \ dropped \subseteq flag
    /\ \A rec \in RecordsOf(f) \cap dropped : rec \notin flag /\ \A b \in bytes : b[1] # rec

\* What a caller may rely on when it waits on a ticket and uses its buffers again.
TicketsSound == TypeOK /\ TicketGivesBack

\* Every fetch's ticket is done some day, also one outstanding when the source is
\* dropped, also when reads fail: no wakeup it needs is lost.
TicketsDone == \A f \in Ids : Asked(f) ~> Done(f)

\* nvme_source.rs, Drop for Pool: "the workers drain both queues before they
\* leave", and Drop joins them: once the source closes every thread leaves.  False
\* of the pool with Threads = 3, Lanes = {1}, Pieces = 2 (README, finding 6).
WorkersLeave == closed ~> (\A w \in Workers : worker[w].at = "gone")
=============================================================================
