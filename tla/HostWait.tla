------------------------------ MODULE HostWait ------------------------------
(* The decode watchdog of serve (#227).  The decoding thread opens and closes *)
(* a row, other threads open and close host waits, and the watchdog thread    *)
(* reads all of it once a second - with no lock: single relaxed loads and     *)
(* stores on static atomics.  Each action is one such access.                 *)
(*                                                                            *)
(* Accesses interleave in program order, which is what the x86-64 build does  *)
(* (the writers only store, or use a read-modify-write, and the reader only   *)
(* loads).  The ten kinds of wait have a slot each and share nothing, so one  *)
(* kind is modelled, with all the threads that can be in it at once.  The     *)
(* snapshot loads a slot once: what it shows is what SlotIsLive says of it.   *)
EXTENDS Integers, Sequences

CONSTANTS
  Threads,    \* the threads that may wait in this kind
  Limit,      \* CROW_GLM_WATCHDOG_S
  MaxTime,    \* bound: the clock stops here
  MaxRows     \* bound: decode rows of one behaviour

ASSUME HostWaitAssumption ==
  /\ Limit \in Nat \ {0} /\ MaxTime \in Nat /\ MaxRows \in Nat

VARIABLES
  clock,
  row,      \* the decoding thread, and ROW_SEQ, ROW_SINCE, ROW_POS
  slot,     \* the kind's Slot: since (0 is closed) and what it tells of the wait
  wait,     \* each waiting thread: where it stands, and its Open guard's stamp
  snap,     \* the watchdog thread's snapshot in the making
  logged,   \* Watch::logged
  log,      \* the events logged
  begun     \* history: the start of every row, read by no action

vars == <<clock, row, slot, wait, snap, logged, log, begun>>

\* ns since the epoch, + 1.
NowNs == clock + 1

None == [seq |-> 0, pos |-> 0, since |-> 0]

Stamps == 0 .. MaxTime + 1
RowSnaps == [seq : 0..MaxRows, pos : 0..MaxRows, since : Stamps]

\* The types; an open row or wait never looks closed.
TypeOK ==
  /\ clock \in 0..MaxTime
  /\ row \in [at : {"idle", "pos", "seq", "stamp", "open"}, t : Stamps,
              seq : 0..MaxRows, since : Stamps, pos : 0..MaxRows]
  /\ row.since # 0 <=> row.at = "open"
  /\ slot.since \in Stamps /\ slot.about \in Threads \cup {"nothing"}
  /\ wait \in [Threads -> [at : {"out", "stamped", "told", "open"}, t : Stamps]]
  /\ snap.at \in {"rest", "now", "seq", "since", "pos", "read"}
  /\ snap.row \in RowSnaps /\ logged \in RowSnaps
  /\ log \in Seq([event : {"stall", "ended"}, row : RowSnaps])
  /\ begun \in [0..MaxRows -> Stamps]

Init ==
  /\ clock = 0
  /\ row = [at |-> "idle", t |-> 0, seq |-> 0, since |-> 0, pos |-> 0]
  /\ slot = [since |-> 0, about |-> "nothing"]
  /\ wait = [w \in Threads |-> [at |-> "out", t |-> 0]]
  /\ snap = [at |-> "rest", now |-> 0, again |-> 0, row |-> None]
  /\ logged = None /\ log = <<>>
  /\ begun = [r \in 0..MaxRows |-> 0]

----------------------------------------------------------------------------
(* The decoding thread: hostwait::row and the drop of its guard.  Row r is at *)
(* position r.                                                                *)

\* A mutant: the row is numbered after it is stamped open.
RowBeginsUnnumbered ==
  /\ \/ /\ row.at = "idle" /\ row.seq < MaxRows
        /\ row' = [row EXCEPT !.at = "pos", !.pos = row.seq + 1] /\ UNCHANGED begun
     \/ /\ row.at = "pos"
        /\ row' = [row EXCEPT !.at = "stamp", !.t = NowNs] /\ UNCHANGED begun
     \/ /\ row.at = "stamp"
        /\ row' = [row EXCEPT !.at = "seq", !.since = row.t]
        /\ begun' = [begun EXCEPT ![row.seq + 1] = row.t]
     \/ /\ row.at = "seq"
        /\ row' = [row EXCEPT !.at = "open", !.seq = @ + 1] /\ UNCHANGED begun
  /\ UNCHANGED <<clock, slot, wait, snap, logged, log>>

RowBegins ==
  /\ \/ /\ row.at = "idle" /\ row.seq < MaxRows
        /\ row' = [row EXCEPT !.at = "pos", !.pos = row.seq + 1] /\ UNCHANGED begun
     \/ /\ row.at = "pos"
        /\ row' = [row EXCEPT !.at = "seq", !.seq = @ + 1] /\ UNCHANGED begun
     \/ /\ row.at = "seq"
        /\ row' = [row EXCEPT !.at = "stamp", !.t = NowNs] /\ UNCHANGED begun
     \/ /\ row.at = "stamp"
        /\ row' = [row EXCEPT !.at = "open", !.since = row.t]
        /\ begun' = [begun EXCEPT ![row.seq] = row.t]
  /\ UNCHANGED <<clock, slot, wait, snap, logged, log>>

RowEnds ==
  /\ row.at = "open"
  /\ row' = [row EXCEPT !.at = "idle", !.since = 0]
  /\ UNCHANGED <<clock, slot, wait, snap, logged, log, begun>>

----------------------------------------------------------------------------
(* A waiting thread: hostwait::open and the drop of its guard.                *)

WaitStamped(w) ==
  /\ wait[w].at = "out"
  /\ wait' = [wait EXCEPT ![w] = [at |-> "stamped", t |-> NowNs]]
  /\ UNCHANGED slot

\* The layer and n stores.
WaitTold(w) ==
  /\ wait[w].at = "stamped"
  /\ wait' = [wait EXCEPT ![w].at = "told"]
  /\ slot' = [slot EXCEPT !.about = w]

\* A mutant: the guard keeps a stamp of its own, not the stored one.
WaitOpensRestamped(w) ==
  /\ wait[w].at = "told"
  /\ wait' = [wait EXCEPT ![w] = [at |-> "open", t |-> NowNs]]
  /\ slot' = [slot EXCEPT !.since = wait[w].t]

WaitOpens(w) ==
  /\ wait[w].at = "told"
  /\ wait' = [wait EXCEPT ![w].at = "open"]
  /\ slot' = [slot EXCEPT !.since = wait[w].t]

\* The guard clears the slot while it still holds it.
WaitEnds(w) ==
  /\ wait[w].at = "open"
  /\ wait' = [wait EXCEPT ![w] = [at |-> "out", t |-> 0]]
  /\ slot' = [slot EXCEPT !.since = IF @ = wait[w].t THEN 0 ELSE @]

Waits ==
  /\ \E w \in Threads : WaitStamped(w) \/ WaitTold(w) \/ WaitOpens(w) \/ WaitEnds(w)
  /\ UNCHANGED <<clock, row, snap, logged, log, begun>>

----------------------------------------------------------------------------
(* The watchdog thread: snapshot, load by load, then Watch::check.  The loads *)
(* of the wait slots are left out (they decide nothing).                      *)

Snapshot ==
  /\ \/ /\ snap.at = "rest"
        /\ snap' = [snap EXCEPT !.at = "now", !.now = NowNs]
     \/ /\ snap.at = "now"
        /\ snap' = [snap EXCEPT !.at = "seq", !.row.seq = row.seq]
     \/ /\ snap.at = "seq"
        /\ snap' = [snap EXCEPT !.at = "since", !.row.since = row.since]
     \/ /\ snap.at = "since"
        /\ snap' = [snap EXCEPT !.at = "pos", !.row.pos = row.pos]
     \/ /\ snap.at = "pos"
        /\ snap' = [snap EXCEPT !.at = "read", !.again = row.seq]
  /\ UNCHANGED <<clock, row, slot, wait, logged, log, begun>>

\* A row that changed while it was read reads as none.
SeenRow ==
  IF snap.row.since = 0 \/ snap.again # snap.row.seq THEN None ELSE snap.row

Report(event, r) == log' = Append(log, [event |-> event, row |-> r])

\* A mutant: the ended row is not forgotten.
CheckKeepsLogged ==
  IF logged # None
    THEN /\ IF SeenRow.seq # logged.seq /\ log[Len(log)].event = "stall"
              THEN Report("ended", logged) ELSE UNCHANGED log
         /\ UNCHANGED logged
    ELSE IF SeenRow # None /\ snap.now - SeenRow.since >= Limit
      THEN Report("stall", SeenRow) /\ logged' = SeenRow
      ELSE UNCHANGED <<logged, log>>

Check ==
  IF logged # None
    THEN IF SeenRow.seq # logged.seq
      THEN Report("ended", logged) /\ logged' = None
      ELSE UNCHANGED <<logged, log>>
    ELSE IF SeenRow # None /\ snap.now - SeenRow.since >= Limit
      THEN Report("stall", SeenRow) /\ logged' = SeenRow
      ELSE UNCHANGED <<logged, log>>

Watch ==
  /\ snap.at = "read"
  /\ Check
  /\ snap' = [at |-> "rest", now |-> 0, again |-> 0, row |-> None]
  /\ UNCHANGED <<clock, row, slot, wait, begun>>

----------------------------------------------------------------------------

Tick ==
  /\ clock < MaxTime
  /\ clock' = clock + 1
  /\ UNCHANGED <<row, slot, wait, snap, logged, log, begun>>

Next == RowBegins \/ RowEnds \/ Waits \/ Snapshot \/ Watch \/ Tick

Spec == Init /\ [][Next]_vars

\* Time passes and the watchdog thread keeps looking.  The decoding thread and
\* the waits may hang: that is what the watchdog is for.
FairSpec == Spec /\ WF_vars(Tick) /\ WF_vars(Snapshot \/ Watch)

----------------------------------------------------------------------------

(* "A wait may be missed, never shown after it ended" (hostwait.rs): a slot   *)
(* that is not closed names a wait some thread is in right now, however the   *)
(* threads of one kind overtake each other between their stores.              *)
SlotIsLive ==
  slot.since # 0 => \E w \in Threads : wait[w].at = "open" /\ wait[w].t = slot.since

(* What a reader without a lock may rely on: an open row or wait never looks  *)
(* closed (TypeOK), and a wait that is over never looks open.                 *)
StampsSound == TypeOK /\ SlotIsLive

(* What the watchdog reports is true although it reads piecemeal: a stall     *)
(* names a row by its number and the start of just that row, at least the     *)
(* limit ago, and an end is only reported of a row that is over.              *)
Logs(event) ==
  Len(log') > Len(log) /\ log'[Len(log')].event = event
Last == log'[Len(log')].row

ReportsTrue ==
  [][/\ Logs("stall") => /\ Last.since = begun[Last.seq]
                         /\ NowNs - Last.since >= Limit
     /\ Logs("ended") => row.since # Last.since]_vars

(* One line per stalled row, and one for its end: stalls and ends alternate,  *)
(* and no row is reported twice (the_watch_fires_once_per_stalled_row...).    *)
ReportedOnce ==
  \A i, j \in 1..Len(log) :
    /\ log[i].event = (IF i % 2 = 1 THEN "stall" ELSE "ended")
    /\ i # j /\ log[i].event = log[j].event => log[i].row.seq # log[j].row.seq

(* The log tells the truth and tells it once.                                 *)
ReportsSound == ReportsTrue /\ []ReportedOnce

(* A row that hangs is reported, whatever rows were reported before it.  (The *)
(* clock stops at its bound: rows that start too late to reach the limit are  *)
(* left out.)                                                                 *)
HangReported ==
  \A r \in 1..MaxRows :
    <>[](row.at = "open" /\ row.seq = r /\ row.since + Limit <= MaxTime + 1)
      => <>(\E i \in 1..Len(log) : log[i].event = "stall" /\ log[i].row.seq = r)

=============================================================================
