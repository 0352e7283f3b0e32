-------------------------- MODULE HostWait_proofs --------------------------
(* What the watchdog may believe of loads and stores that no lock orders: for *)
(* every number of threads and rows, every limit and every length of time.    *)
EXTENDS HostWait, TLAPS

(* The type of every variable; a row's stamp shows whether it is open.         *)
RowOK == /\ row \in [at : {"idle", "pos", "seq", "stamp", "open"}, t : Stamps,
                     seq : 0..MaxRows, since : Stamps, pos : 0..MaxRows]
         /\ row.since # 0 <=> row.at = "open"
SlotOK == slot \in [since : Stamps, about : Threads \cup {"nothing"}]
WaitOK == wait \in [Threads -> [at : {"out", "stamped", "told", "open"}, t : Stamps]]
SnapOK == snap \in [at : {"rest", "now", "seq", "since", "pos", "read"}, now : Stamps,
                    again : 0..MaxRows, row : RowSnaps]
LogOK == logged \in RowSnaps /\ log \in Seq([event : {"stall", "ended"}, row : RowSnaps])
BegunOK == begun \in [0..MaxRows -> Stamps]

Typed == clock \in 0..MaxTime /\ RowOK /\ SlotOK /\ WaitOK /\ SnapOK /\ LogOK /\ BegunOK

RowInv ==
  /\ row.at = "pos" => row.seq < MaxRows
  /\ row.at \in {"seq", "stamp", "open"} => row.seq >= 1
  /\ row.at = "stamp" => row.t \in 1..NowNs
  /\ row.at = "open" => row.since \in 1..NowNs /\ row.since = begun[row.seq]

(* A row is past its stamp: the start of row r is not written any more.        *)
Begun(r) == row.seq = r => row.at \in {"open", "idle", "pos"}

(* Whatever row follows r is stamped at t or later.                            *)
LaterFrom(r, t) ==
  row.seq > r => /\ row.at = "stamp" => row.t >= t
                 /\ row.at = "open" => row.since >= t

(* What has been read so far is one row's: no row began in between.            *)
Intact ==
  /\ snap.row.since # 0
  /\ \/ snap.at \in {"since", "pos"} /\ snap.row.seq = row.seq
     \/ snap.at = "read" /\ snap.again = snap.row.seq

SnapInv ==
  /\ snap.at # "rest" => snap.now <= NowNs
  /\ snap.at \in {"seq", "since", "pos", "read"} => snap.row.seq <= row.seq
  /\ Intact => /\ snap.row.seq >= 1
               /\ snap.row.since = begun[snap.row.seq]
               /\ Begun(snap.row.seq)
               /\ LaterFrom(snap.row.seq, snap.now)
               /\ logged = None => \A i \in 1..Len(log) : log[i].row.seq < snap.row.seq

(* While the logged row is open, every snapshot under way sees it.             *)
SeesLogged ==
  row.seq = logged.seq /\ row.at = "open" =>
    /\ snap.at \in {"seq", "since", "pos", "read"} => snap.row.seq = logged.seq
    /\ snap.at \in {"since", "pos", "read"} => snap.row.since # 0
    /\ snap.at = "read" => snap.again = logged.seq

LoggedInv ==
  logged # None =>
    /\ logged.seq \in 1..row.seq
    /\ logged.since >= 1 /\ logged.since < NowNs
    /\ logged.since = begun[logged.seq]
    /\ Begun(logged.seq)
    /\ LaterFrom(logged.seq, logged.since + 1)
    /\ SeesLogged

(* A row that is over and stays so.                                            *)
Over(r) == row.seq > r \/ (row.seq = r /\ row.at \in {"idle", "pos"})

LogInv ==
  /\ (logged = None) <=> (Len(log) % 2 = 0)
  /\ logged # None => log[Len(log)].row = logged
  /\ \A i \in 1..Len(log) : log[i].event = (IF i % 2 = 1 THEN "stall" ELSE "ended")
  /\ \A i, j \in 1..Len(log) :
       i < j /\ log[i].event = log[j].event => log[i].row.seq < log[j].row.seq
  /\ \A i \in 1..Len(log) :
       IF logged = None THEN Over(log[i].row.seq)
                        ELSE i < Len(log) => log[i].row.seq < logged.seq

IInv == Typed /\ SlotIsLive /\ RowInv /\ SnapInv /\ LoggedInv /\ LogInv
----------------------------------------------------------------------------
(* The invariant holds when serve starts: nothing is open, nothing is logged. *)
LEMMA InitInv == Init => IInv
<1> SUFFICES ASSUME Init PROVE IInv
  OBVIOUS
<1> USE HostWaitAssumption DEF Init
<1>0. None \in RowSnaps /\ 0 \in Stamps
  BY DEF RowSnaps, None, Stamps
<1>1. RowOK /\ SlotOK /\ WaitOK /\ BegunOK
  BY <1>0 DEF RowOK, SlotOK, WaitOK, BegunOK
<1>2. SnapOK /\ LogOK /\ clock \in 0..MaxTime
  BY <1>0 DEF SnapOK, LogOK
<1>3. SlotIsLive /\ RowInv /\ SnapInv
  BY DEF SlotIsLive, RowInv, SnapInv, Intact
<1>4. LoggedInv /\ LogInv
  BY DEF LoggedInv, LogInv
<1>5. QED
  BY <1>1, <1>2, <1>3, <1>4 DEF IInv, Typed

(* The decoding thread keeps its row typed, and stamps it from the clock.      *)
LEMMA RowStep ==
  ASSUME Typed, RowInv, [Next]_vars
  PROVE  RowOK' /\ BegunOK' /\ RowInv' /\ clock' \in 0..MaxTime /\ NowNs' \in Nat /\ NowNs' >= NowNs
<1> USE HostWaitAssumption DEF Typed, RowOK, BegunOK, RowInv, Stamps, NowNs
<1>1. CASE RowBegins
  <2>0. clock' = clock
    BY <1>1 DEF RowBegins
  <2>a. clock' \in 0..MaxTime /\ NowNs' \in Nat /\ NowNs' >= NowNs
    BY <2>0
  <2>1. CASE row.at = "idle" /\ row.seq < MaxRows
    <3>1. row' = [at |-> "pos", t |-> row.t, seq |-> row.seq, since |-> row.since, pos |-> row.seq + 1]
      BY <1>1, <2>1 DEF RowBegins
    <3>2. begun' = begun
      BY <1>1, <2>1 DEF RowBegins
    <3>3. RowOK' /\ BegunOK'
      BY <2>1, <3>1, <3>2
    <3>4. RowInv'
      BY <2>1, <3>1, <3>2
    <3>5. QED
      BY <2>a, <3>3, <3>4
  <2>2. CASE row.at = "pos"
    <3>1. row' = [at |-> "seq", t |-> row.t, seq |-> row.seq + 1, since |-> row.since, pos |-> row.pos]
      BY <1>1, <2>2 DEF RowBegins
    <3>2. begun' = begun
      BY <1>1, <2>2 DEF RowBegins
    <3>3. RowOK' /\ BegunOK'
      BY <2>2, <3>1, <3>2
    <3>4. RowInv'
      BY <2>2, <3>1, <3>2
    <3>5. QED
      BY <2>a, <3>3, <3>4
  <2>3. CASE row.at = "seq"
    <3>1. row' = [at |-> "stamp", t |-> NowNs, seq |-> row.seq, since |-> row.since, pos |-> row.pos]
      BY <1>1, <2>3 DEF RowBegins
    <3>2. begun' = begun
      BY <1>1, <2>3 DEF RowBegins
    <3>3. RowOK' /\ BegunOK'
      BY <2>3, <3>1, <3>2
    <3>4. RowInv'
      BY <2>0, <2>3, <3>1, <3>2
    <3>5. QED
      BY <2>a, <3>3, <3>4
  <2>4. CASE row.at = "stamp"
    <3>1. row' = [at |-> "open", t |-> row.t, seq |-> row.seq, since |-> row.t, pos |-> row.pos]
      BY <1>1, <2>4 DEF RowBegins
    <3>2. begun' = [begun EXCEPT ![row.seq] = row.t]
      BY <1>1, <2>4 DEF RowBegins
    <3>3. RowOK' /\ BegunOK'
      BY <2>4, <3>1, <3>2
    <3>4. RowInv'
      BY <2>0, <2>4, <3>1, <3>2
    <3>5. QED
      BY <2>a, <3>3, <3>4
  <2>5. QED
    BY <1>1, <2>1, <2>2, <2>3, <2>4 DEF RowBegins
<1>2. CASE RowEnds
  <2>1. row' = [at |-> "idle", t |-> row.t, seq |-> row.seq, since |-> 0, pos |-> row.pos]
    BY <1>2 DEF RowEnds
  <2>2. begun' = begun /\ clock' = clock
    BY <1>2 DEF RowEnds
  <2>3. QED
    BY <2>1, <2>2
<1>3. CASE Tick
  BY <1>3 DEF Tick
<1>4. CASE UNCHANGED <<clock, row, begun>>
  BY <1>4
<1>5. QED
  BY <1>1, <1>2, <1>3, <1>4 DEF Next, Waits, Snapshot, Watch, vars

(* Time is a number and never goes back.                                       *)
LEMMA ClockStep ==
  ASSUME Typed, RowInv, [Next]_vars
  PROVE  /\ clock + 1 \in Stamps /\ 0 \in Stamps
         /\ NowNs \in Nat /\ NowNs' \in Nat /\ NowNs' >= NowNs
<1>1. clock \in 0..MaxTime
  BY DEF Typed
<1>2. MaxTime \in Nat
  BY HostWaitAssumption
<1>3. clock + 1 \in Stamps /\ 0 \in Stamps
  BY <1>1, <1>2 DEF Stamps
<1>4. NowNs \in Nat
  BY <1>1, <1>2 DEF NowNs
<1>5. QED
  BY <1>1, <1>3, <1>4, RowStep

(* A slot's stamp is that of a wait still open: a guard that clears it held    *)
(* it, and a thread between its stores holds none.                             *)
LEMMA WaitStep ==
  ASSUME Typed, SlotIsLive, [Next]_vars
  PROVE  SlotOK' /\ WaitOK' /\ SlotIsLive'
<1> USE HostWaitAssumption DEF Typed, SlotOK, WaitOK, Stamps, NowNs
<1>1. ASSUME NEW w \in Threads,
             WaitStamped(w) \/ WaitTold(w) \/ WaitOpens(w) \/ WaitEnds(w)
      PROVE  SlotOK' /\ WaitOK' /\ SlotIsLive'
  <2>0. wait[w] \in [at : {"out", "stamped", "told", "open"}, t : Stamps] /\ clock + 1 \in Stamps
    OBVIOUS
  <2>1. CASE WaitStamped(w)
    <3>1. wait' = [wait EXCEPT ![w] = [at |-> "stamped", t |-> NowNs]] /\ slot' = slot
      BY <2>1 DEF WaitStamped
    <3>2. WaitOK' /\ SlotOK'
      BY <3>1
    <3>3. \A x \in Threads : wait[x].at = "open" => wait'[x] = wait[x]
      BY <2>1, <3>1 DEF WaitStamped
    <3>4. QED
      BY <3>1, <3>2, <3>3 DEF SlotIsLive
  <2>2. CASE WaitTold(w)
    <3>0. [wait[w] EXCEPT !.at = "told"] = [at |-> "told", t |-> wait[w].t]
      BY <2>0
    <3>1. wait' = [wait EXCEPT ![w] = [at |-> "told", t |-> wait[w].t]]
      BY <2>2, <3>0 DEF WaitTold
    <3>2. slot' = [since |-> slot.since, about |-> w]
      BY <2>2 DEF WaitTold
    <3>3. WaitOK' /\ SlotOK'
      BY <2>0, <3>1, <3>2
    <3>4. \A x \in Threads : wait[x].at = "open" => wait'[x] = wait[x]
      BY <2>2, <3>1 DEF WaitTold
    <3>5. QED
      BY <3>2, <3>3, <3>4 DEF SlotIsLive
  <2>3. CASE WaitOpens(w)
    <3>0. [wait[w] EXCEPT !.at = "open"] = [at |-> "open", t |-> wait[w].t]
      BY <2>0
    <3>1. wait' = [wait EXCEPT ![w] = [at |-> "open", t |-> wait[w].t]]
      BY <2>3, <3>0 DEF WaitOpens
    <3>2. slot' = [since |-> wait[w].t, about |-> slot.about]
      BY <2>3 DEF WaitOpens
    <3>3. WaitOK' /\ SlotOK'
      BY <2>0, <3>1, <3>2
    <3>4. wait'[w].at = "open" /\ wait'[w].t = slot'.since
      BY <3>1, <3>2
    <3>5. QED
      BY <3>3, <3>4 DEF SlotIsLive
  <2>4. CASE WaitEnds(w)
    <3>1. wait' = [wait EXCEPT ![w] = [at |-> "out", t |-> 0]]
      BY <2>4 DEF WaitEnds
    <3>2. slot' = [since |-> IF slot.since = wait[w].t THEN 0 ELSE slot.since,
                   about |-> slot.about]
      BY <2>4 DEF WaitEnds
    <3>3. WaitOK' /\ SlotOK'
      BY <2>0, <3>1, <3>2
    <3>4. ASSUME slot'.since # 0
          PROVE  \E x \in Threads : wait'[x].at = "open" /\ wait'[x].t = slot'.since
      <4>1. slot.since # 0 /\ slot'.since = slot.since /\ slot.since # wait[w].t
        BY <3>2, <3>4
      <4>2. PICK x \in Threads : wait[x].at = "open" /\ wait[x].t = slot.since
        BY <4>1 DEF SlotIsLive
      <4>3. x # w /\ wait'[x] = wait[x]
        BY <3>1, <4>1, <4>2
      <4>4. QED
        BY <4>1, <4>2, <4>3
    <3>5. QED
      BY <3>3, <3>4 DEF SlotIsLive
  <2>5. QED
    BY <1>1, <2>1, <2>2, <2>3, <2>4
<1>2. CASE UNCHANGED <<slot, wait>>
  BY <1>2 DEF SlotIsLive
<1>3. QED
  BY <1>1, <1>2 DEF Next, RowBegins, RowEnds, Waits, Snapshot, Watch, Tick, vars

(* The snapshot: what it has read of one row is that row's.                    *)
LEMMA SnapStep ==
  ASSUME Typed, RowInv, SnapInv, LogInv, [Next]_vars
  PROVE  SnapOK' /\ SnapInv'
<1> USE HostWaitAssumption DEF Typed, RowOK, SnapOK, BegunOK, RowSnaps
<1>0. /\ clock + 1 \in Stamps /\ 0 \in Stamps
      /\ NowNs \in Nat /\ NowNs' \in Nat /\ NowNs' >= NowNs
  BY ClockStep
<1>1. CASE RowBegins
  <2>0. UNCHANGED <<clock, snap, logged, log>>
    BY <1>1 DEF RowBegins
  <2>1. CASE row.at \in {"idle", "seq"}
    <3>1. /\ row'.seq = row.seq /\ begun' = begun
          /\ row'.at = IF row.at = "idle" THEN "pos" ELSE "stamp"
          /\ row'.at = "stamp" => row'.t = NowNs
      BY <1>1, <2>1 DEF RowBegins
    <3>2. QED
      BY <1>0, <2>0, <2>1, <3>1 DEF SnapInv, Intact, Begun, LaterFrom, NowNs
  <2>2. CASE row.at = "pos"
    <3>1. row'.seq = row.seq + 1 /\ row'.at = "seq" /\ begun' = begun
      BY <1>1, <2>2 DEF RowBegins
    <3>2. QED
      BY <2>0, <2>2, <3>1 DEF SnapInv, Intact, Begun, LaterFrom, NowNs
  <2>3. CASE row.at = "stamp"
    <3>1. /\ row'.seq = row.seq /\ row'.at = "open" /\ row'.since = row.t
          /\ begun' = [begun EXCEPT ![row.seq] = row.t]
      BY <1>1, <2>3 DEF RowBegins
    <3>2. QED
      BY <2>0, <2>3, <3>1 DEF SnapInv, Intact, Begun, LaterFrom, NowNs
  <2>4. QED
    BY <1>1, <2>1, <2>2, <2>3 DEF RowBegins
<1>2. CASE RowEnds
  <2>1. row.at = "open" /\ row'.seq = row.seq /\ row'.at = "idle"
    BY <1>2 DEF RowEnds
  <2>2. UNCHANGED <<clock, snap, logged, log, begun>>
    BY <1>2 DEF RowEnds
  <2>3. QED
    BY <2>1, <2>2 DEF SnapInv, Intact, Begun, LaterFrom, NowNs
<1>3. CASE Snapshot
  <2>0. UNCHANGED <<clock, row, logged, log, begun>>
    BY <1>3 DEF Snapshot
  <2>1. CASE snap.at = "rest"
    <3>1. snap' = [at |-> "now", now |-> NowNs, again |-> snap.again, row |-> snap.row]
      BY <1>3, <2>1 DEF Snapshot
    <3>2. QED
      BY <1>0, <2>0, <3>1 DEF SnapInv, Intact, NowNs
  <2>2. CASE snap.at = "now"
    <3>1. snap' = [at |-> "seq", now |-> snap.now, again |-> snap.again,
                   row |-> [seq |-> row.seq, pos |-> snap.row.pos, since |-> snap.row.since]]
      BY <1>3, <2>2 DEF Snapshot
    <3>2. QED
      BY <2>0, <2>2, <3>1 DEF SnapInv, Intact, NowNs
  <2>3. CASE snap.at = "seq"
    <3>1. snap' = [at |-> "since", now |-> snap.now, again |-> snap.again,
                   row |-> [seq |-> snap.row.seq, pos |-> snap.row.pos, since |-> row.since]]
      BY <1>3, <2>3, ZenonT(30) DEF Snapshot
    <3>2. SnapOK'
      BY <3>1
    <3>3. ASSUME Intact'
          PROVE  /\ row.at = "open" /\ snap'.row.seq = row.seq
                 /\ snap'.row.since = row.since
      BY <2>0, <2>3, <3>1, <3>3 DEF Intact
    <3>4. logged = None => \A i \in 1..Len(log) : log[i].row.seq < row.seq \/ row.at # "open"
      BY DEF LogInv, Over, LogOK
    <3>5. QED
      BY <2>0, <2>3, <3>1, <3>2, <3>3, <3>4 DEF SnapInv, RowInv, Begun, LaterFrom, NowNs
  <2>4. CASE snap.at = "since"
    <3>0. snap' = [snap EXCEPT !.at = "pos", !.row.pos = row.pos]
      BY <1>3, <2>4 DEF Snapshot
    <3>1. snap' = [at |-> "pos", now |-> snap.now, again |-> snap.again,
                   row |-> [seq |-> snap.row.seq, pos |-> row.pos, since |-> snap.row.since]]
      BY <3>0
    <3>2. SnapOK' /\ snap'.row.seq = snap.row.seq /\ snap'.row.since = snap.row.since
      BY <3>1
    <3>4. Intact' <=> Intact
      BY <2>0, <2>4, <3>1, <3>2 DEF Intact
    <3>3. QED
      BY <2>0, <2>4, <3>1, <3>2, <3>4 DEF SnapInv, Begun, LaterFrom, NowNs
  <2>5. CASE snap.at = "pos"
    <3>1. snap' = [at |-> "read", now |-> snap.now, again |-> row.seq, row |-> snap.row]
      BY <1>3, <2>5 DEF Snapshot
    <3>2. QED
      BY <2>0, <2>5, <3>1 DEF SnapInv, Intact, Begun, LaterFrom, NowNs
  <2>6. QED
    BY <1>3, <2>1, <2>2, <2>3, <2>4, <2>5 DEF Snapshot
<1>4. CASE Watch
  <2>1. snap' = [at |-> "rest", now |-> 0, again |-> 0, row |-> None]
    BY <1>4 DEF Watch
  <2>2. SnapOK'
    BY <1>0, <2>1 DEF None
  <2>3. QED
    BY <2>1, <2>2 DEF SnapInv, Intact
<1>5. CASE UNCHANGED <<row, snap, logged, log, begun>>
  <2>1. Intact' <=> Intact
    BY <1>5 DEF Intact
  <2>2. snap.now \in Nat
    BY DEF Stamps
  <2>3. SnapOK' /\ (snap'.at # "rest" => snap'.now <= NowNs')
    BY <1>0, <1>5, <2>2 DEF SnapInv
  <2>4. QED
    BY <1>5, <2>1, <2>3 DEF SnapInv, Begun, LaterFrom
<1>6. QED
  BY <1>1, <1>2, <1>3, <1>4, <1>5 DEF Next, Waits, Tick, vars

(* What Check takes for a row is one row, begun and whole.                     *)
LEMMA SeenRowTrue ==
  ASSUME Typed, SnapInv, snap.at = "read"
  PROVE  /\ None \in RowSnaps /\ SeenRow \in RowSnaps
         /\ SeenRow # None =>
              /\ Intact /\ SeenRow = snap.row
              /\ SeenRow.seq \in 1..row.seq /\ SeenRow.since >= 1
              /\ SeenRow.since = begun[SeenRow.seq]
              /\ Begun(SeenRow.seq) /\ LaterFrom(SeenRow.seq, snap.now)
              /\ logged = None => \A i \in 1..Len(log) : log[i].row.seq < SeenRow.seq
<1> USE HostWaitAssumption DEF Typed, SnapOK, RowSnaps, Stamps
<1>1. None \in RowSnaps
  BY DEF None
<1>2. SeenRow \in RowSnaps
  BY <1>1 DEF SeenRow
<1>3. ASSUME SeenRow # None
      PROVE  Intact /\ SeenRow = snap.row /\ SeenRow.since >= 1
  <2>1. snap.row.since # 0 /\ snap.again = snap.row.seq /\ SeenRow = snap.row
    BY <1>3 DEF SeenRow
  <2>2. snap.row.since \in Nat
    OBVIOUS
  <2>3. QED
    BY <2>1, <2>2 DEF Intact
<1>4. snap.row.seq \in Nat /\ row.seq \in Nat
  BY DEF RowOK
<1>5. QED
  BY <1>1, <1>2, <1>3, <1>4 DEF SnapInv

(* The logged row: begun, older than every row after it, and seen while open.  *)
LEMMA LoggedStep ==
  ASSUME Typed, RowInv, SnapInv, LoggedInv, [Next]_vars
  PROVE  LoggedInv'
<1>0. /\ NowNs \in Nat /\ NowNs' \in Nat /\ NowNs' >= NowNs
  BY ClockStep
<1>a. row.seq \in Nat /\ logged.seq \in Nat /\ logged.since \in Nat
  BY DEF Typed, RowOK, LogOK, RowSnaps, Stamps
<1> USE DEF LoggedInv
<1>1. CASE RowBegins
  <2>0. UNCHANGED <<clock, snap, logged, log>> /\ NowNs' = NowNs
    BY <1>1 DEF RowBegins, NowNs
  <2>1. CASE row.at \in {"idle", "seq"}
    <3>1. /\ row'.seq = row.seq /\ begun' = begun
          /\ row'.at = IF row.at = "idle" THEN "pos" ELSE "stamp"
          /\ row'.at = "stamp" => row'.t = NowNs
      BY <1>1, <2>1 DEF RowBegins, Typed, RowOK
    <3>2. QED
      BY <1>0, <1>a, <2>0, <2>1, <3>1 DEF Begun, LaterFrom, SeesLogged
  <2>2. CASE row.at = "pos"
    <3>1. row'.seq = row.seq + 1 /\ row'.at = "seq" /\ begun' = begun
      BY <1>1, <2>2 DEF RowBegins, Typed, RowOK
    <3>2. QED
      BY <1>a, <2>0, <2>2, <3>1 DEF Begun, LaterFrom, SeesLogged
  <2>3. CASE row.at = "stamp"
    <3>1. /\ row'.seq = row.seq /\ row'.at = "open" /\ row'.since = row.t
          /\ begun' = [begun EXCEPT ![row.seq] = row.t]
      BY <1>1, <2>3 DEF RowBegins, Typed, RowOK
    <3>2. logged # None => logged.seq # row.seq
      BY <2>3 DEF Begun
    <3>3. logged # None => begun'[logged.seq] = begun[logged.seq]
      BY <3>1, <3>2 DEF Typed, BegunOK, LogOK, RowSnaps
    <3>4. QED
      BY <1>a, <2>0, <2>3, <3>1, <3>2, <3>3 DEF Begun, LaterFrom, SeesLogged
  <2>4. QED
    BY <1>1, <2>1, <2>2, <2>3 DEF RowBegins
<1>2. CASE RowEnds
  <2>1. row.at = "open" /\ row'.seq = row.seq /\ row'.at = "idle"
    BY <1>2 DEF RowEnds, Typed, RowOK
  <2>2. UNCHANGED <<snap, logged, log, begun>> /\ NowNs' = NowNs
    BY <1>2 DEF RowEnds, NowNs
  <2>3. QED
    BY <2>1, <2>2 DEF Begun, LaterFrom, SeesLogged
<1>3. CASE Snapshot
  <2>0. UNCHANGED <<row, logged, log, begun>> /\ NowNs' = NowNs
    BY <1>3 DEF Snapshot, NowNs
  <2>1. /\ snap'.at \in {"seq", "since", "pos", "read"} =>
             \/ snap.at \in {"seq", "since", "pos"} /\ snap'.row.seq = snap.row.seq
             \/ snap'.row.seq = row.seq
        /\ snap'.at \in {"since", "pos", "read"} =>
             \/ snap.at \in {"since", "pos"} /\ snap'.row.since = snap.row.since
             \/ snap'.row.since = row.since
        /\ snap'.at = "read" => snap'.again = row.seq
    <3> USE DEF Typed, SnapOK, RowSnaps
    <3>1. CASE snap.at = "rest"
      BY <1>3, <3>1 DEF Snapshot
    <3>2. CASE snap.at = "now"
      <4>1. snap' = [snap EXCEPT !.at = "seq", !.row.seq = row.seq]
        BY <1>3, <3>2 DEF Snapshot
      <4>2. QED
        BY <3>2, <4>1
    <3>3. CASE snap.at = "seq"
      <4>1. snap' = [snap EXCEPT !.at = "since", !.row.since = row.since]
        BY <1>3, <3>3 DEF Snapshot
      <4>2. QED
        BY <3>3, <4>1
    <3>4. CASE snap.at = "since"
      <4>1. snap' = [snap EXCEPT !.at = "pos", !.row.pos = row.pos]
        BY <1>3, <3>4 DEF Snapshot
      <4>2. QED
        BY <3>4, <4>1
    <3>5. CASE snap.at = "pos"
      BY <1>3, <3>5 DEF Snapshot
    <3>6. QED
      BY <1>3, <3>1, <3>2, <3>3, <3>4, <3>5 DEF Snapshot
  <2>2. SeesLogged /\ logged # None => SeesLogged'
    BY <2>0, <2>1 DEF SeesLogged, Typed, RowOK
  <2>3. QED
    BY <2>0, <2>2 DEF Begun, LaterFrom
<1>4. CASE Watch
  <2>0. snap.at = "read" /\ snap'.at = "rest" /\ UNCHANGED <<row, begun>> /\ NowNs' = NowNs
    BY <1>4 DEF Watch, NowNs
  <2>1. CASE UNCHANGED logged
    BY <2>0, <2>1 DEF Begun, LaterFrom, SeesLogged
  <2>2. CASE logged' = None
    BY <2>2
  <2>3. CASE logged' = SeenRow /\ SeenRow # None /\ snap.now - SeenRow.since >= Limit
    <3>1. /\ SeenRow.seq \in 1..row.seq /\ SeenRow.since >= 1
          /\ SeenRow.since = begun[SeenRow.seq]
          /\ Begun(SeenRow.seq) /\ LaterFrom(SeenRow.seq, snap.now)
      BY <2>0, <2>3, SeenRowTrue
    <3>2. /\ snap.now <= NowNs /\ snap.now \in Nat /\ SeenRow.since \in Nat
          /\ row.t \in Nat /\ row.since \in Nat
      BY <2>0, SeenRowTrue DEF SnapInv, Typed, SnapOK, RowOK, RowSnaps, Stamps
    <3>3. snap.now >= SeenRow.since + 1
      BY <2>3, <3>2, HostWaitAssumption
    <3>4. LaterFrom(SeenRow.seq, SeenRow.since + 1)
      BY <3>1, <3>2, <3>3 DEF LaterFrom
    <3>5. QED
      BY <1>0, <2>0, <2>3, <3>1, <3>2, <3>3, <3>4 DEF Begun, LaterFrom, SeesLogged
  <2>4. QED
    BY <1>4, <2>1, <2>2, <2>3 DEF Watch, Check
<1>5. CASE UNCHANGED <<row, snap, logged, begun>>
  BY <1>0, <1>a, <1>5 DEF Begun, LaterFrom, SeesLogged
<1>6. QED
  BY <1>1, <1>2, <1>3, <1>4, <1>5 DEF Next, Waits, Tick, vars

(* A check appends at most one line: the stall of a row seen whole, or the end *)
(* of the logged one.                                                          *)
LEMMA CheckCases ==
  ASSUME Typed, Watch
  PROVE  \/ log' = log /\ logged' = logged
         \/ /\ logged = None /\ SeenRow # None /\ snap.now - SeenRow.since >= Limit
            /\ log' = Append(log, [event |-> "stall", row |-> SeenRow]) /\ logged' = SeenRow
         \/ /\ logged # None /\ SeenRow.seq # logged.seq
            /\ log' = Append(log, [event |-> "ended", row |-> logged]) /\ logged' = None
  BY DEF Watch, Check, Report

(* A row that is over stays over.                                              *)
LEMMA OverStays ==
  ASSUME Typed, RowInv, [Next]_vars, NEW r \in Nat, Over(r)
  PROVE  Over(r)'
<1>0. row.seq \in Nat
  BY DEF Typed, RowOK
<1>1. CASE RowBegins
  <2>1. CASE row.at = "pos"
    <3>1. row'.seq = row.seq + 1
      BY <1>1, <2>1 DEF RowBegins, Typed, RowOK
    <3>2. QED
      BY <1>0, <3>1 DEF Over
  <2>2. CASE row.at # "pos"
    <3>1. row'.seq = row.seq /\ (row.at = "idle" => row'.at = "pos")
      BY <1>1, <2>2 DEF RowBegins, Typed, RowOK
    <3>2. QED
      BY <1>0, <2>2, <3>1 DEF Over
  <2>3. QED
    BY <2>1, <2>2
<1>2. CASE RowEnds
  <2>1. row'.seq = row.seq /\ row'.at = "idle"
    BY <1>2 DEF RowEnds, Typed, RowOK
  <2>2. QED
    BY <2>1 DEF Over
<1>3. CASE UNCHANGED row
  BY <1>3 DEF Over
<1>4. QED
  BY <1>1, <1>2, <1>3 DEF Next, Waits, Snapshot, Watch, Tick, vars

(* A logged row whose end is reported is over: had it still been open, the     *)
(* snapshot would have shown it.                                               *)
LEMMA EndedIsOver ==
  ASSUME Typed, SnapInv, LoggedInv, snap.at = "read", logged # None, SeenRow.seq # logged.seq
  PROVE  Over(logged.seq)
<1>1. row.seq \in Nat /\ logged.seq \in Nat /\ logged.seq <= row.seq
  BY DEF LoggedInv, Typed, RowOK, LogOK, RowSnaps
<1>2. ~(row.seq = logged.seq /\ row.at = "open")
  <2>1. SUFFICES ASSUME row.seq = logged.seq, row.at = "open"
                 PROVE  FALSE
    OBVIOUS
  <2>2. snap.row.seq = logged.seq /\ snap.row.since # 0 /\ snap.again = logged.seq
    BY <2>1 DEF LoggedInv, SeesLogged
  <2>3. SeenRow = snap.row
    BY <2>2 DEF SeenRow
  <2>4. QED
    BY <2>2, <2>3
<1>3. QED
  BY <1>1, <1>2 DEF LoggedInv, Begun, Over

(* What a sequence is after an Append.                                         *)
LEMMA Appended ==
  ASSUME NEW S, NEW s \in Seq(S), NEW e \in S
  PROVE  /\ Append(s, e) \in Seq(S) /\ Len(Append(s, e)) = Len(s) + 1
         /\ Append(s, e)[Len(s) + 1] = e
         /\ \A i \in 1..Len(s) : Append(s, e)[i] = s[i]
  OBVIOUS

(* Odd follows even.                                                           *)
LEMMA Parity ==
  ASSUME NEW n \in Nat
  PROVE  /\ n % 2 = 0 => (n + 1) % 2 = 1
         /\ n % 2 # 0 => (n + 1) % 2 = 0
  OBVIOUS

(* The rows the log names are numbered.                                        *)
LEMMA LogTyped ==
  ASSUME LogOK
  PROVE  /\ log \in Seq([event : {"stall", "ended"}, row : RowSnaps])
         /\ Len(log) \in Nat /\ logged.seq \in Nat
         /\ \A i \in 1..Len(log) : log[i].row \in RowSnaps /\ log[i].row.seq \in Nat
<1>1. log \in Seq([event : {"stall", "ended"}, row : RowSnaps]) /\ logged \in RowSnaps
  BY DEF LogOK
<1>2. \A r \in RowSnaps : r.seq \in Nat
  BY HostWaitAssumption DEF RowSnaps
<1>3. \A i \in 1..Len(log) : log[i].row \in RowSnaps
  <2>1. ASSUME NEW S, log \in Seq(S)
        PROVE  \A i \in 1..Len(log) : log[i] \in S
    BY <2>1
  <2>2. \A i \in 1..Len(log) : log[i] \in [event : {"stall", "ended"}, row : RowSnaps]
    BY <1>1, <2>1
  <2>3. QED
    BY <2>2
<1>4. QED
  BY <1>1, <1>2, <1>3

(* Stalls and ends alternate, and the rows they name only grow.                *)
LEMMA LogStep ==
  ASSUME Typed, RowInv, SnapInv, LoggedInv, LogInv, [Next]_vars
  PROVE  LogOK' /\ LogInv'
<1>0. /\ log \in Seq([event : {"stall", "ended"}, row : RowSnaps]) /\ logged \in RowSnaps
      /\ Len(log) \in Nat /\ logged.seq \in Nat
      /\ \A i \in 1..Len(log) : log[i].row.seq \in Nat
  BY LogTyped DEF Typed, LogOK
<1>1. CASE log' = log /\ logged' = logged
  <2>1. \A i \in 1..Len(log) : Over(log[i].row.seq) => Over(log[i].row.seq)'
    <3>1. TAKE i \in 1..Len(log)
    <3>2. DEFINE r == log[i].row.seq
    <3>3. r \in Nat /\ r' = r
      BY <1>0, <1>1
    <3>4. ASSUME Over(r)
          PROVE  row'.seq > r \/ (row'.seq = r /\ row'.at \in {"idle", "pos"})
      <4> HIDE DEF r
      <4> QED
        BY <3>3, <3>4, OverStays DEF Over
    <3>5. QED
      BY <1>1, <3>4 DEF Over
  <2>2. QED
    BY <1>0, <1>1, <2>1 DEF LogOK, LogInv
<1>2. CASE Watch /\ ~(log' = log /\ logged' = logged)
  <2>0. snap.at = "read" /\ row' = row
    BY <1>2 DEF Watch
  <2>1. CASE /\ logged = None /\ SeenRow # None
             /\ log' = Append(log, [event |-> "stall", row |-> SeenRow]) /\ logged' = SeenRow
    <3> DEFINE e == [event |-> "stall", row |-> SeenRow]
    <3>1. SeenRow \in RowSnaps /\ \A i \in 1..Len(log) : log[i].row.seq < SeenRow.seq
      BY <2>0, <2>1, SeenRowTrue
    <3>2. e \in [event : {"stall", "ended"}, row : RowSnaps]
      BY <3>1
    <3>3. e.event = "stall" /\ e.row = SeenRow /\ log' = Append(log, e)
      BY <2>1
    <3> HIDE DEF e
    <3>4. /\ log' \in Seq([event : {"stall", "ended"}, row : RowSnaps])
          /\ Len(log') = Len(log) + 1 /\ log'[Len(log) + 1] = e
          /\ \A i \in 1..Len(log) : log'[i] = log[i]
      BY <1>0, <3>2, <3>3, Appended
    <3>5. LogOK'
      BY <2>1, <3>1, <3>4 DEF LogOK
    <3>6. Len(log) % 2 = 0 /\ (Len(log) + 1) % 2 = 1
      BY <1>0, <2>1, Parity DEF LogInv
    <3>7. \A i \in 1..Len(log) + 1 : i \in 1..Len(log) \/ i = Len(log) + 1
      BY <1>0
    <3>8. \A i \in 1..Len(log') : log'[i].event = (IF i % 2 = 1 THEN "stall" ELSE "ended")
      BY <3>3, <3>4, <3>6, <3>7 DEF LogInv
    <3>9. \A i, j \in 1..Len(log') :
            i < j /\ log'[i].event = log'[j].event => log'[i].row.seq < log'[j].row.seq
      BY <1>0, <3>1, <3>3, <3>4, <3>7 DEF LogInv
    <3>10. \A i \in 1..Len(log') : i < Len(log') => log'[i].row.seq < SeenRow.seq
      BY <1>0, <3>1, <3>4, <3>7
    <3>11. logged' = SeenRow /\ logged' # None /\ log'[Len(log')].row = logged' /\ Len(log') % 2 = 1
      BY <2>1, <3>3, <3>4, <3>6
    <3>12. QED
      BY <3>5, <3>8, <3>9, <3>10, <3>11 DEF LogInv, None
  <2>2. CASE /\ logged # None /\ SeenRow.seq # logged.seq
             /\ log' = Append(log, [event |-> "ended", row |-> logged]) /\ logged' = None
    <3> DEFINE e == [event |-> "ended", row |-> logged]
    <3>1. Over(logged.seq) /\ None \in RowSnaps
      BY <2>0, <2>2, EndedIsOver, SeenRowTrue
    <3>2. e \in [event : {"stall", "ended"}, row : RowSnaps]
      BY <1>0
    <3>3. e.event = "ended" /\ e.row = logged /\ log' = Append(log, e)
      BY <2>2
    <3> HIDE DEF e
    <3>4. /\ log' \in Seq([event : {"stall", "ended"}, row : RowSnaps])
          /\ Len(log') = Len(log) + 1 /\ log'[Len(log) + 1] = e
          /\ \A i \in 1..Len(log) : log'[i] = log[i]
      BY <1>0, <3>2, <3>3, Appended
    <3>5. LogOK'
      BY <2>2, <3>1, <3>4 DEF LogOK
    <3>6. Len(log) % 2 # 0 /\ (Len(log) + 1) % 2 = 0
      BY <1>0, <2>2, Parity DEF LogInv
    <3>7. \A i \in 1..Len(log) + 1 : i \in 1..Len(log) \/ i = Len(log) + 1
      BY <1>0
    <3>8. \A i \in 1..Len(log') : log'[i].event = (IF i % 2 = 1 THEN "stall" ELSE "ended")
      BY <3>3, <3>4, <3>6, <3>7 DEF LogInv
    <3>a. Len(log) \in 1..Len(log) /\ log[Len(log)].event = "stall" /\ log[Len(log)].row = logged
      <4>1. Len(log) % 2 = 1 /\ Len(log) >= 1
        BY <1>0, <3>6
      <4>2. QED
        BY <1>0, <2>2, <4>1 DEF LogInv
    <3>b. \A i \in 1..Len(log) : i < Len(log) => log[i].row.seq < logged.seq
      BY <2>2 DEF LogInv
    <3>9. \A i, j \in 1..Len(log') :
            i < j /\ log'[i].event = log'[j].event => log'[i].row.seq < log'[j].row.seq
      <4>1. \A i, j \in 1..Len(log) :
              i < j /\ log[i].event = log[j].event => log[i].row.seq < log[j].row.seq
        BY DEF LogInv
      <4>2. \A i \in 1..Len(log) : log[i].event = "ended" => log[i].row.seq < logged.seq
        BY <1>0, <3>a, <3>b
      <4>3. QED
        BY <1>0, <4>1, <4>2, <3>3, <3>4, <3>7
    <3>10. \A i \in 1..Len(log') : Over(log[i].row.seq)'
      <4>1. \A i \in 1..Len(log) : log[i].row.seq <= logged.seq
        BY <1>0, <3>a, <3>b
      <4>2. \A s \in Nat : s <= logged.seq => row.seq > s \/ (row.seq = s /\ row.at \in {"idle", "pos"})
        <5>1. row.seq \in Nat
          BY HostWaitAssumption DEF Typed, RowOK
        <5>2. QED
          BY <1>0, <3>1, <5>1 DEF Over
      <4>3. \A i \in 1..Len(log') : log'[i].row.seq \in Nat /\ log'[i].row.seq <= logged.seq
        BY <1>0, <3>3, <3>4, <3>7, <4>1
      <4>4. QED
        BY <2>0, <4>2, <4>3 DEF Over
    <3>11. QED
      BY <2>2, <3>4, <3>5, <3>6, <3>8, <3>9, <3>10 DEF LogInv, None
  <2>3. QED
    BY <1>2, <2>1, <2>2, CheckCases
<1>3. QED
  BY <1>1, <1>2 DEF Next, RowBegins, RowEnds, Waits, Snapshot, Tick, vars

(* The invariant is inductive.                                                 *)
LEMMA InvStep == IInv /\ [Next]_vars => IInv'
<1> SUFFICES ASSUME IInv, [Next]_vars PROVE IInv'
  OBVIOUS
<1>1. RowOK' /\ BegunOK' /\ RowInv' /\ clock' \in 0..MaxTime
  BY RowStep DEF IInv
<1>2. SlotOK' /\ WaitOK' /\ SlotIsLive'
  BY WaitStep DEF IInv
<1>3. SnapOK' /\ SnapInv'
  BY SnapStep DEF IInv
<1>4. LoggedInv'
  BY LoggedStep DEF IInv
<1>5. LogOK' /\ LogInv'
  BY LogStep DEF IInv
<1>6. QED
  BY <1>1, <1>2, <1>3, <1>4, <1>5 DEF IInv, Typed

(* What the writers, the slots, the snapshot and the watchdog know of each      *)
(* other's stamps holds between any two atomic accesses.                        *)
THEOREM Invariance == Spec => []IInv
  BY InitInv, InvStep, PTL DEF Spec

(* No reader is misled by a stamp: an open row or wait never looks closed,     *)
(* and a wait that is over never looks open.                                   *)
LEMMA TypedIsTypeOK == Typed => TypeOK
<1> SUFFICES ASSUME Typed PROVE TypeOK
  OBVIOUS
<1>1. clock \in 0..MaxTime
  BY DEF Typed
<1>2. RowOK /\ BegunOK /\ WaitOK /\ LogOK
  BY DEF Typed
<1>3. slot.since \in Stamps /\ slot.about \in Threads \cup {"nothing"}
  BY DEF Typed, SlotOK
<1>4. snap.at \in {"rest", "now", "seq", "since", "pos", "read"} /\ snap.row \in RowSnaps
  BY DEF Typed, SnapOK
<1>5. QED
  BY <1>1, <1>2, <1>3, <1>4 DEF TypeOK, RowOK, BegunOK, WaitOK, LogOK

(* StampsSound, whatever the threads, the limit and the bounds.                *)
THEOREM StampsCorrect == Spec => []StampsSound
<1>1. IInv => StampsSound
  BY TypedIsTypeOK DEF IInv, StampsSound
<1>2. QED
  BY <1>1, Invariance, PTL

(* The last line of a log that grew.                                           *)
LEMMA LastLogged ==
  ASSUME LogOK, NEW e \in [event : {"stall", "ended"}, row : RowSnaps], log' = Append(log, e)
  PROVE  log'[Len(log')] = e
<1>1. log \in Seq([event : {"stall", "ended"}, row : RowSnaps]) /\ Len(log) \in Nat
  BY DEF LogOK
<1>2. QED
  BY <1>1, Appended

(* A step that logs a stall logs it of one row, with the start of that row,    *)
(* the limit or more ago; one that logs an end logs it of a row not open.      *)
LEMMA ReportIsTrue ==
  ASSUME IInv, [Next]_vars
  PROVE  /\ Logs("stall") => /\ Last.since = begun[Last.seq]
                             /\ NowNs - Last.since >= Limit
         /\ Logs("ended") => row.since # Last.since
<1>0. Typed /\ LogOK /\ SnapInv /\ LoggedInv /\ RowInv
  BY DEF IInv, Typed
<1>1. CASE log' = log
  BY <1>0, <1>1, LogTyped DEF Logs
<1>2. CASE Watch /\ log' # log
  <2>0. snap.at = "read"
    BY <1>2 DEF Watch
  <2>1. CASE /\ SeenRow # None /\ snap.now - SeenRow.since >= Limit
             /\ log' = Append(log, [event |-> "stall", row |-> SeenRow])
    <3>1. SeenRow \in RowSnaps /\ SeenRow.since = begun[SeenRow.seq]
      BY <1>0, <2>0, <2>1, SeenRowTrue
    <3>2. log'[Len(log')] = [event |-> "stall", row |-> SeenRow]
      BY <1>0, <2>1, <3>1, LastLogged
    <3>3. SeenRow.since \in Nat /\ snap.now \in Nat /\ NowNs \in Nat /\ snap.now <= NowNs
      BY <1>0, <2>0, <3>1, ClockStep, HostWaitAssumption DEF SnapInv, Typed, SnapOK, RowSnaps, Stamps
    <3>4. NowNs - SeenRow.since >= Limit
      BY <2>1, <3>3, HostWaitAssumption
    <3>5. QED
      BY <3>1, <3>2, <3>4 DEF Logs, Last
  <2>2. CASE /\ logged # None /\ SeenRow.seq # logged.seq
             /\ log' = Append(log, [event |-> "ended", row |-> logged])
    <3>1. log'[Len(log')] = [event |-> "ended", row |-> logged]
      BY <1>0, <2>2, LastLogged DEF LogOK
    <3>2. Over(logged.seq)
      BY <1>0, <2>0, <2>2, EndedIsOver
    <3>3. row.since # logged.since
      <4>1. logged.since >= 1 /\ logged.since \in Nat /\ LaterFrom(logged.seq, logged.since + 1)
        BY <1>0, <2>2, HostWaitAssumption DEF LoggedInv, LogOK, RowSnaps, Stamps
      <4>2. row.since \in Nat /\ (row.since # 0 => row.at = "open")
        BY <1>0, HostWaitAssumption DEF Typed, RowOK, Stamps
      <4>3. row.at = "open" => row.since >= logged.since + 1
        BY <3>2, <4>1 DEF Over, LaterFrom
      <4>4. QED
        BY <4>1, <4>2, <4>3
    <3>4. QED
      BY <3>1, <3>3 DEF Logs, Last
  <2>3. QED
    BY <1>0, <1>2, <2>1, <2>2, CheckCases
<1>3. QED
  BY <1>1, <1>2 DEF Next, RowBegins, RowEnds, Waits, Snapshot, Tick, vars

(* One line per stalled row and one for its end.                               *)
LEMMA LoggedOnce == IInv => ReportedOnce
<1> SUFFICES ASSUME IInv, NEW i \in 1..Len(log), NEW j \in 1..Len(log)
             PROVE  /\ log[i].event = (IF i % 2 = 1 THEN "stall" ELSE "ended")
                    /\ i # j /\ log[i].event = log[j].event => log[i].row.seq # log[j].row.seq
  BY DEF ReportedOnce
<1>1. LogOK /\ LogInv
  BY DEF IInv, Typed
<1>2. Len(log) \in Nat /\ log[i].row.seq \in Nat /\ log[j].row.seq \in Nat
  BY <1>1, LogTyped
<1>3. i < j \/ j < i \/ i = j
  BY <1>2
<1>4. QED
  BY <1>1, <1>2, <1>3 DEF LogInv

(* ReportsSound: the log tells the truth, once, although the watchdog reads    *)
(* piecemeal what other threads are writing.                                   *)
THEOREM ReportsCorrect == Spec => ReportsSound
<1>1. Spec => []ReportedOnce
  BY Invariance, LoggedOnce, PTL
<1>2. IInv /\ [Next]_vars =>
        [/\ Logs("stall") => /\ Last.since = begun[Last.seq]
                             /\ NowNs - Last.since >= Limit
         /\ Logs("ended") => row.since # Last.since]_vars
  BY ReportIsTrue
<1>3. Spec => ReportsTrue
  BY <1>2, Invariance, PTL DEF Spec, ReportsTrue
<1>4. QED
  BY <1>1, <1>3 DEF ReportsSound

============================================================================
