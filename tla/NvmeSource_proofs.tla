-------------------------- MODULE NvmeSource_proofs --------------------------
(* What NvmeSource promises about a record's bytes and a fetch's buffers,    *)
(* proved for every number of threads, fetches, records and pieces.          *)
(*                                                                           *)
(* A unit of work is in one place: at one position of one queue, or with one *)
(* thread.  SourceInv says so piece by piece: no two places share a piece,   *)
(* a piece on its way is neither read nor counted, and a flag is up exactly  *)
(* when every piece of its record was counted.  A queue is only ever         *)
(* extended, shortened at its head, or split with the order kept (Picked),   *)
(* so the first part of the module is about those three operations.          *)
EXTENDS NvmeSource, FiniteSetTheorems, FunctionTheorems, SequenceTheorems, NaturalsInduction, WellFoundedInduction, TLAPS

AllRecs == Ids \X Recs
Units   == [recs : SUBSET AllRecs, part : 0 .. Pieces]

WorkerType == [at : {"idle", "read", "finish", "report", "wait", "gone"},
               task : Units, low : BOOLEAN]
FetchType  == 0 .. MaxRecs
QueueType  == [hi : Seq(Units), lo : Seq(Units)]

\* What every variable holds.
Shape ==
  /\ kind \in Kinds /\ loMax \in 1 .. Threads
  /\ queue \in [Workers -> QueueType]
  /\ closed \in BOOLEAN
  /\ worker \in [Workers -> WorkerType]
  /\ fetch \in [Ids -> FetchType]
  /\ bytes \in SUBSET (AllRecs \X Parts) /\ counted \in SUBSET (AllRecs \X Parts)
  /\ dropped \in SUBSET AllRecs
  /\ bad \in SUBSET AllRecs /\ flag \in SUBSET AllRecs /\ reported \in SUBSET AllRecs
  /\ inFlight \in Int

\* Two units share no piece; so do the units of a queue, and those of two queues.
Disjoint(t, u) == PiecesOf(t) \cap PiecesOf(u) = {}
Distinct(s)    == \A i, j \in DOMAIN s : i # j => Disjoint(s[i], s[j])
Between(s, u)  == \A i \in DOMAIN s, j \in DOMAIN u : Disjoint(s[i], u[j])

Lane(w, lo) == IF lo THEN queue[w].lo ELSE queue[w].hi

\* A unit is of one fetch that was asked for, and of no cancelled record.
GoodUnit(t) ==
  /\ t.recs # {}
  /\ t.recs \cap dropped = {} /\ \E f \in Ids : t.recs \subseteq RecordsOf(f)
  /\ IF Pool THEN t.part \in Parts /\ (\E rec \in AllRecs : t.recs = {rec}) ELSE t.part = 0

Unread(t)    == PiecesOf(t) \cap bytes = {}
Uncounted(t) == PiecesOf(t) \cap counted = {}
Busy(w)      == worker[w].at \in {"read", "finish"}

\* No piece is queued twice.
LanesApart ==
  /\ \A w \in Workers, lo \in BOOLEAN : Distinct(Lane(w, lo))
  /\ \A w, x \in Workers, lo, lx \in BOOLEAN :
       w # x \/ lo # lx => Between(Lane(w, lo), Lane(x, lx))

\* A queued unit is whole, and nothing of it is read or counted.
UnitsWhole ==
  \A w \in Workers, lo \in BOOLEAN : \A i \in DOMAIN Lane(w, lo) :
    GoodUnit(Lane(w, lo)[i]) /\ Unread(Lane(w, lo)[i]) /\ Uncounted(Lane(w, lo)[i])

\* So is a unit a thread has, whose pieces are no other's.
WorkersInv ==
  /\ \A w \in Workers : Busy(w) =>
       /\ GoodUnit(worker[w].task) /\ Uncounted(worker[w].task)
       /\ \A x \in Workers, lo \in BOOLEAN : \A i \in DOMAIN Lane(x, lo) :
            Disjoint(worker[w].task, Lane(x, lo)[i])
       /\ \A x \in Workers : Busy(x) /\ x # w => Disjoint(worker[w].task, worker[x].task)
       /\ worker[w].at = "read" => Unread(worker[w].task)
       /\ worker[w].at = "finish" => PiecesOf(worker[w].task) \subseteq bytes
  /\ \A w \in Workers : worker[w].at = "report" => worker[w].task.recs \subseteq flag

\* What the flags, counts and reports say of the pieces.
FlagsInv ==
  /\ counted \subseteq bytes
  /\ \A rec \in AllRecs : rec \in flag <=> \A p \in Parts : <<rec, p>> \in counted
  /\ \A b \in bytes : b[1] \notin dropped /\ \E f \in Ids : b[1] \in RecordsOf(f)
  /\ reported \subseteq flag \cup dropped
  /\ \A rec \in dropped : \E f \in Ids : rec \in RecordsOf(f)

InFlight  == (UNION {RecordsOf(f) : f \in Ids}) \ (flag \cup dropped)
CountInv  == inFlight = Cardinality(InFlight)
SourceInv == Shape /\ LanesApart /\ UnitsWhole /\ WorkersInv /\ FlagsInv /\ CountInv

-----------------------------------------------------------------------------
(* Positions.                                                                *)

(* A set of numbers with a member has a least one. *)
LEMMA LeastOf ==
  ASSUME NEW S \in SUBSET Nat, S # {}
  PROVE  \E x \in S : \A y \in S : x <= y
<1> DEFINE R == {p \in Nat \X Nat : p[1] < p[2]}
<1>1. IsWellFoundedOn(R, Nat)
  BY NatLessThanWellFounded DEF OpToRel
<1>2. PICK x \in S : \A y \in S : <<y, x>> \notin R
  <2> HIDE DEF R
  <2> QED BY <1>1, WFMin
<1>3. ASSUME NEW y \in S PROVE x <= y
  <2>1. <<y, x>> \in Nat \X Nat /\ <<y, x>>[1] = y /\ <<y, x>>[2] = x
    OBVIOUS
  <2>2. ~(y < x)
    BY <1>2, <2>1, Zenon DEF R
  <2> QED BY <2>2
<1> QED BY <1>3

Below(at, i) == {j \in at : j < i}
Nth(at, k)   == CHOOSE i \in at : Cardinality(Below(at, i)) = k - 1

(* A finite set of positions has a first, a second, ..., a last one. *)
LEMMA NthExists ==
  ASSUME NEW at \in SUBSET Nat, IsFiniteSet(at), NEW k \in 1 .. Cardinality(at)
  PROVE  \E i \in at : Cardinality(Below(at, i)) = k - 1
<1> DEFINE N == Cardinality(at)
           Has(n) == \E i \in at : Cardinality(Below(at, i)) = n - 1
           missing == {n \in 1 .. N : ~Has(n)}
<1>1. N \in Nat
  BY FS_CardinalityType
<1>2. SUFFICES ASSUME missing # {} PROVE FALSE
  OBVIOUS
<1>3. PICK m \in missing : \A n \in missing : m <= n
  <2>1. missing \in SUBSET Nat
    BY <1>1
  <2> HIDE DEF missing
  <2> QED BY <1>2, <2>1, LeastOf
<1>4. m \in 1 .. N /\ ~Has(m)
  OBVIOUS
<1>5. CASE m = 1
  <2>1. at # {}
    BY <1>4, <1>1, FS_EmptySet
  <2>2. PICK i \in at : \A j \in at : i <= j
    BY <2>1, LeastOf
  <2>3. Below(at, i) = {}
    <3>1. \A j \in at : i \in Nat /\ j \in Nat /\ i <= j
      BY <2>2
    <3>2. \A j \in at : ~(j < i)
      BY <3>1
    <3> QED BY <3>2, Zenon DEF Below
  <2> QED BY <2>3, <1>4, <1>5, FS_EmptySet
<1>6. CASE m # 1
  <2>1. m - 1 \in 1 .. N /\ ~(m <= m - 1)
    BY <1>1, <1>4, <1>6
  <2>2. Has(m - 1)
    <3>1. m - 1 \notin missing
      <4> HIDE DEF missing
      <4> QED BY <1>3, <2>1
    <3> QED BY <2>1, <3>1
  <2>3. PICK i \in at : Cardinality(Below(at, i)) = m - 1 - 1
    BY <2>2
  <2> DEFINE above == {j \in at : i < j}
  <2>4. IsFiniteSet(Below(at, i)) /\ i \notin Below(at, i)
    <3>1. i \in Nat
      OBVIOUS
    <3>2. i \notin Below(at, i)
      BY <3>1 DEF Below
    <3>3. Below(at, i) \subseteq at
      BY DEF Below
    <3> QED BY <3>2, <3>3, FS_Subset
  <2>5. Cardinality(Below(at, i) \cup {i}) = m - 1
    <3>1. Cardinality(Below(at, i) \cup {i}) = Cardinality(Below(at, i)) + 1
      BY <2>4, FS_AddElement
    <3>2. m \in Int
      BY <1>1, <1>4
    <3> HIDE DEF missing
    <3> QED BY <2>3, <3>1, <3>2
  <2>i. \A j \in at : j \in Nat
    OBVIOUS
  <2>6. above # {}
    <3> SUFFICES ASSUME above = {} PROVE FALSE
      OBVIOUS
    <3>1. \A j \in at : ~(i < j)
      OBVIOUS
    <3>2. \A j \in at : j < i \/ j = i
      BY <2>i, <3>1
    <3>3. at = Below(at, i) \cup {i}
      BY <3>2, Zenon DEF Below
    <3>4. N = m - 1
      BY <2>5, <3>3
    <3>5. m \in 1 .. N
      BY <1>4
    <3> HIDE DEF N, missing, above
    <3> QED BY <1>1, <3>4, <3>5
  <2>7. PICK j \in above : \A l \in above : j <= l
    <3>1. above \in SUBSET Nat
      OBVIOUS
    <3> HIDE DEF above
    <3> QED BY <2>6, <3>1, LeastOf
  <2>8. Below(at, j) = Below(at, i) \cup {i}
    <3>1. j \in at /\ i < j /\ i \in Nat /\ j \in Nat
      BY <2>i
    <3>2. \A l \in at : i < l => j <= l
      BY <2>7
    <3>3. \A l \in at : l < j <=> l < i \/ l = i
      BY <2>i, <3>1, <3>2
    <3> QED BY <3>3, Zenon DEF Below
  <2> QED BY <1>4, <2>5, <2>7, <2>8
<1> QED BY <1>5, <1>6

(* What Picked takes from a sequence it takes from different positions, all of *)
(* them among the ones it was given.                                          *)
LEMMA PickedFrom ==
  ASSUME NEW S, NEW s \in Seq(S), NEW at \in SUBSET DOMAIN s
  PROVE  /\ Picked(s, at) \in Seq(S)
         /\ \A k \in DOMAIN Picked(s, at) : Nth(at, k) \in at /\ Picked(s, at)[k] = s[Nth(at, k)]
         /\ \A k, l \in DOMAIN Picked(s, at) : k # l => Nth(at, k) # Nth(at, l)
<1>1. at \in SUBSET Nat /\ IsFiniteSet(at) /\ Cardinality(at) \in Nat
  <2>1. DOMAIN s = 1 .. Len(s) /\ Len(s) \in Nat
    OBVIOUS
  <2>2. IsFiniteSet(1 .. Len(s))
    BY <2>1, FS_Interval
  <2>3. IsFiniteSet(at)
    BY <2>1, <2>2, FS_Subset
  <2> QED BY <2>1, <2>3, FS_CardinalityType
<1>2. Picked(s, at) = [k \in 1 .. Cardinality(at) |-> s[Nth(at, k)]]
  BY DEF Picked, Nth, Below
<1>3. ASSUME NEW k \in 1 .. Cardinality(at)
      PROVE  Nth(at, k) \in at /\ Cardinality(Below(at, Nth(at, k))) = k - 1
  <2>1. \E i \in at : Cardinality(Below(at, i)) = k - 1
    BY <1>1, NthExists
  <2> QED BY <2>1 DEF Nth
<1>4. ASSUME NEW k \in 1 .. Cardinality(at), NEW l \in 1 .. Cardinality(at), k # l
      PROVE  Nth(at, k) # Nth(at, l)
  BY <1>3, <1>4
<1>5. ASSUME NEW k \in 1 .. Cardinality(at) PROVE s[Nth(at, k)] \in S
  <2>1. Nth(at, k) \in DOMAIN s
    BY <1>3
  <2> QED BY <2>1
<1> HIDE DEF Nth
<1> QED BY <1>1, <1>2, <1>3, <1>4, <1>5

-----------------------------------------------------------------------------
(* Queues of units.                                                          *)

(* A split of a queue keeps its units apart, and takes nothing else. *)
LEMMA PickedUnits ==
  ASSUME NEW s \in Seq(Units), NEW at \in SUBSET DOMAIN s
  PROVE  /\ Picked(s, at) \in Seq(Units)
         /\ \A k \in DOMAIN Picked(s, at) : \E i \in at : Picked(s, at)[k] = s[i]
         /\ Distinct(s) => Distinct(Picked(s, at))
<1>1. /\ Picked(s, at) \in Seq(Units)
      /\ \A k \in DOMAIN Picked(s, at) : Nth(at, k) \in at /\ Picked(s, at)[k] = s[Nth(at, k)]
      /\ \A k, l \in DOMAIN Picked(s, at) : k # l => Nth(at, k) # Nth(at, l)
  BY PickedFrom
<1>2. ASSUME Distinct(s), NEW k \in DOMAIN Picked(s, at), NEW l \in DOMAIN Picked(s, at), k # l
      PROVE  Disjoint(Picked(s, at)[k], Picked(s, at)[l])
  <2>1. Nth(at, k) \in DOMAIN s /\ Nth(at, l) \in DOMAIN s /\ Nth(at, k) # Nth(at, l)
    BY <1>1, <1>2
  <2>2. Disjoint(s[Nth(at, k)], s[Nth(at, l)])
    BY <1>2, <2>1, Zenon DEF Distinct
  <2> QED BY <1>1, <2>2, Zenon
<1> QED BY <1>1, <1>2, Zenon DEF Distinct

(* What two queues hold, one behind the other. *)
LEMMA JoinedUnits ==
  ASSUME NEW s \in Seq(Units), NEW u \in Seq(Units)
  PROVE  /\ s \o u \in Seq(Units)
         /\ \A k \in DOMAIN (s \o u) : \/ \E i \in DOMAIN s : (s \o u)[k] = s[i]
                                       \/ \E i \in DOMAIN u : (s \o u)[k] = u[i]
         /\ Distinct(s) /\ Distinct(u) /\ Between(s, u) => Distinct(s \o u)
<1>1. /\ s \o u \in Seq(Units) /\ Len(s) \in Nat /\ Len(u) \in Nat
      /\ DOMAIN (s \o u) = 1 .. Len(s) + Len(u) /\ DOMAIN s = 1 .. Len(s) /\ DOMAIN u = 1 .. Len(u)
  OBVIOUS
<1>2. ASSUME NEW k \in DOMAIN (s \o u)
      PROVE  \/ k \in DOMAIN s /\ (s \o u)[k] = s[k]
             \/ k - Len(s) \in DOMAIN u /\ (s \o u)[k] = u[k - Len(s)] /\ k \notin DOMAIN s
  BY <1>1
<1>3. ASSUME Distinct(s), Distinct(u), Between(s, u),
             NEW k \in DOMAIN (s \o u), NEW l \in DOMAIN (s \o u), k # l
      PROVE  Disjoint((s \o u)[k], (s \o u)[l])
  <2>0. \A t, v : Disjoint(t, v) => Disjoint(v, t)
    BY DEF Disjoint
  <2>1. CASE k \in DOMAIN s /\ l \in DOMAIN s
    BY <1>2, <1>3, <2>1, Zenon DEF Distinct
  <2>2. CASE k \in DOMAIN s /\ l \notin DOMAIN s
    BY <1>2, <1>3, <2>2, Zenon DEF Between
  <2>3. CASE k \notin DOMAIN s /\ l \in DOMAIN s
    BY <1>2, <1>3, <2>0, <2>3, Zenon DEF Between
  <2>4. CASE k \notin DOMAIN s /\ l \notin DOMAIN s
    <3>1. k - Len(s) # l - Len(s)
      BY <1>1, <1>3
    <3> QED BY <1>2, <1>3, <2>4, <3>1, Zenon DEF Distinct
  <2> QED BY <2>1, <2>2, <2>3, <2>4
<1>4. Distinct(s) /\ Distinct(u) /\ Between(s, u) => Distinct(s \o u)
  BY <1>3, Zenon DEF Distinct
<1> QED BY <1>1, <1>2, <1>4, Zenon

(* A queue without its head. *)
LEMMA TailUnits ==
  ASSUME NEW s \in Seq(Units), s # <<>>
  PROVE  /\ Tail(s) \in Seq(Units) /\ 1 \in DOMAIN s /\ Head(s) = s[1] /\ Head(s) \in Units
         /\ \A k \in DOMAIN Tail(s) : k + 1 \in DOMAIN s /\ Tail(s)[k] = s[k + 1] /\ k + 1 # 1
         /\ Distinct(s) => Distinct(Tail(s)) /\ \A k \in DOMAIN Tail(s) : Disjoint(Head(s), Tail(s)[k])
<1>1. /\ Tail(s) \in Seq(Units) /\ 1 \in DOMAIN s /\ Head(s) = s[1] /\ Head(s) \in Units
      /\ \A k \in DOMAIN Tail(s) : k \in Nat /\ k + 1 \in DOMAIN s /\ Tail(s)[k] = s[k + 1] /\ k + 1 # 1
  OBVIOUS
<1>2. \A k, l \in DOMAIN Tail(s) : k # l => k + 1 # l + 1
  BY <1>1
<1>3. ASSUME Distinct(s) PROVE Distinct(Tail(s))
  <2> SUFFICES ASSUME NEW k \in DOMAIN Tail(s), NEW l \in DOMAIN Tail(s), k # l
               PROVE  Disjoint(Tail(s)[k], Tail(s)[l])
    BY Zenon DEF Distinct
  <2>1. k + 1 \in DOMAIN s /\ l + 1 \in DOMAIN s /\ k + 1 # l + 1
    BY <1>1, <1>2, Zenon
  <2>2. Disjoint(s[k + 1], s[l + 1])
    BY <1>3, <2>1, Zenon DEF Distinct
  <2> QED BY <1>1, <2>2, Zenon
<1>4. ASSUME Distinct(s), NEW k \in DOMAIN Tail(s) PROVE Disjoint(Head(s), Tail(s)[k])
  <2>1. Disjoint(s[1], s[k + 1])
    BY <1>1, <1>4, Zenon DEF Distinct
  <2> QED BY <1>1, <2>1, Zenon
<1> QED BY <1>1, <1>3, <1>4, Zenon

(* The pieces of a unit are pieces of its records, and each record has one. *)
LEMMA UnitPieces ==
  ASSUME NEW t \in Units
  PROVE  /\ PiecesOf(t) \subseteq AllRecs \X Parts
         /\ \A b \in PiecesOf(t) : b[1] \in t.recs
         /\ \A rec \in t.recs : \E p \in Parts : <<rec, p>> \in PiecesOf(t)
<1>1. /\ t.recs \in SUBSET AllRecs /\ t.part \in 0 .. Pieces
      /\ 1 \in Parts /\ (t.part # 0 => t.part \in Parts)
  BY NvmeAssumption DEF Units, Parts
<1> QED BY <1>1 DEF PiecesOf

-----------------------------------------------------------------------------
(* Steps that leave every unit where a thread or a queue had it.             *)

\* Every queue's units were in that queue before; every queue's units were queued
\* with the same thread before.
FromOwn ==
  \A w \in Workers, lo \in BOOLEAN : \A i \in DOMAIN Lane(w, lo)' :
    \E j \in DOMAIN Lane(w, lo) : Lane(w, lo)'[i] = Lane(w, lo)[j]
FromQueues ==
  \A w \in Workers, lo \in BOOLEAN : \A i \in DOMAIN Lane(w, lo)' :
    \E from \in BOOLEAN : \E j \in DOMAIN Lane(w, from) : Lane(w, lo)'[i] = Lane(w, from)[j]

\* A thread goes on with what it has, or has nothing.
SameTasks ==
  \A w \in Workers : worker'[w] = worker[w] \/ worker'[w].at \notin {"read", "finish", "report"}

(* Queues that only lose units stay apart. *)
LEMMA OwnApart ==
  ASSUME LanesApart, FromOwn, \A w \in Workers, lo \in BOOLEAN : Distinct(Lane(w, lo)')
  PROVE  LanesApart'
<1>1. ASSUME NEW w \in Workers, NEW x \in Workers, NEW lo \in BOOLEAN, NEW lx \in BOOLEAN,
             w # x \/ lo # lx, NEW i \in DOMAIN Lane(w, lo)', NEW k \in DOMAIN Lane(x, lx)'
      PROVE  Disjoint(Lane(w, lo)'[i], Lane(x, lx)'[k])
  <2>1. PICK j \in DOMAIN Lane(w, lo) : Lane(w, lo)'[i] = Lane(w, lo)[j]
    BY Zenon DEF FromOwn
  <2>2. PICK l \in DOMAIN Lane(x, lx) : Lane(x, lx)'[k] = Lane(x, lx)[l]
    BY Zenon DEF FromOwn
  <2>3. Between(Lane(w, lo), Lane(x, lx))
    BY <1>1, Zenon DEF LanesApart
  <2>4. Disjoint(Lane(w, lo)[j], Lane(x, lx)[l])
    BY <2>3, Zenon DEF Between
  <2> QED BY <2>1, <2>2, <2>4
<1>2. \A w, x \in Workers, lo, lx \in BOOLEAN :
        w # x \/ lo # lx => Between(Lane(w, lo)', Lane(x, lx)')
  BY <1>1, Zenon DEF Between
<1> QED BY <1>2, Zenon DEF LanesApart

(* Units that were queued before are as whole as they were. *)
LEMMA WholeStay ==
  ASSUME UnitsWhole, FromQueues, UNCHANGED <<kind, fetch, dropped, bytes, counted>>
  PROVE  UnitsWhole'
<1> SUFFICES ASSUME NEW w \in Workers, NEW lo \in BOOLEAN, NEW i \in DOMAIN Lane(w, lo)'
             PROVE  /\ GoodUnit(Lane(w, lo)[i])' /\ Unread(Lane(w, lo)[i])' /\ Uncounted(Lane(w, lo)[i])'
  BY Zenon DEF UnitsWhole
<1>0. PICK from \in BOOLEAN : \E j \in DOMAIN Lane(w, from) : Lane(w, lo)'[i] = Lane(w, from)[j]
  BY Zenon DEF FromQueues
<1>1. PICK j \in DOMAIN Lane(w, from) : Lane(w, lo)'[i] = Lane(w, from)[j]
  BY <1>0
<1> DEFINE t == Lane(w, from)[j]
<1>2. GoodUnit(t) /\ Unread(t) /\ Uncounted(t)
  BY <1>1, Zenon DEF UnitsWhole
<1>3. Lane(w, lo)'[i] = t
  BY <1>1
<1> HIDE DEF t
<1> QED BY <1>2, <1>3 DEF GoodUnit, Unread, Uncounted, Pool, RecordsOf, Ids, AllRecs, Recs, Parts, PiecesOf

(* A thread that keeps its unit keeps it to itself. *)
LEMMA WorkersStay ==
  ASSUME WorkersInv, FromQueues, SameTasks, UNCHANGED <<kind, fetch, dropped, bytes, counted, flag>>
  PROVE  WorkersInv'
<1>1. ASSUME NEW w \in Workers, worker'[w].at \in {"read", "finish", "report"}
      PROVE  worker'[w] = worker[w]
  BY <1>1, Zenon DEF SameTasks
<1>0. kind' = kind /\ fetch' = fetch /\ dropped' = dropped /\ bytes' = bytes /\ counted' = counted /\ flag' = flag
  OBVIOUS
<1>a. ASSUME NEW t PROVE GoodUnit(t)' <=> GoodUnit(t)
  BY <1>0, Zenon DEF GoodUnit, Pool, RecordsOf, Ids, AllRecs, Recs, Parts
<1>b. ASSUME NEW t PROVE (Unread(t)' <=> Unread(t)) /\ (Uncounted(t)' <=> Uncounted(t))
  BY <1>0 DEF Unread, Uncounted, PiecesOf, Parts
<1>2. \A t : (GoodUnit(t)' <=> GoodUnit(t)) /\ (Unread(t)' <=> Unread(t)) /\ (Uncounted(t)' <=> Uncounted(t))
  BY <1>a, <1>b, Zenon
<1>3. \A t, u : Disjoint(t, u)' <=> Disjoint(t, u)
  BY DEF Disjoint, PiecesOf, Parts
<1>4. ASSUME NEW w \in Workers, Busy(w)'
      PROVE  /\ GoodUnit(worker[w].task)' /\ Uncounted(worker[w].task)'
             /\ \A x \in Workers, lo \in BOOLEAN : \A i \in DOMAIN Lane(x, lo)' :
                  Disjoint(worker[w].task, Lane(x, lo)[i])'
             /\ \A x \in Workers : Busy(x)' /\ x # w => Disjoint(worker[w].task, worker[x].task)'
             /\ worker'[w].at = "read" => Unread(worker[w].task)'
             /\ worker'[w].at = "finish" => PiecesOf(worker[w].task)' \subseteq bytes'
  <2>1. worker'[w] = worker[w] /\ Busy(w)
    BY <1>1, <1>4, Zenon DEF Busy
  <2> DEFINE t == worker[w].task
  <2>2. /\ GoodUnit(t) /\ Uncounted(t)
        /\ \A x \in Workers, lo \in BOOLEAN : \A i \in DOMAIN Lane(x, lo) : Disjoint(t, Lane(x, lo)[i])
        /\ \A x \in Workers : Busy(x) /\ x # w => Disjoint(t, worker[x].task)
        /\ worker[w].at = "read" => Unread(t)
        /\ worker[w].at = "finish" => PiecesOf(t) \subseteq bytes
    BY <2>1, Zenon DEF WorkersInv
  <2>3. ASSUME NEW x \in Workers, NEW lo \in BOOLEAN, NEW i \in DOMAIN Lane(x, lo)'
        PROVE  Disjoint(t, Lane(x, lo)'[i])
    <3>1. PICK from \in BOOLEAN : \E j \in DOMAIN Lane(x, from) : Lane(x, lo)'[i] = Lane(x, from)[j]
      BY Zenon DEF FromQueues
    <3>2. PICK j \in DOMAIN Lane(x, from) : Lane(x, lo)'[i] = Lane(x, from)[j]
      BY <3>1
    <3> QED BY <2>2, <3>2, Zenon
  <2>4. ASSUME NEW x \in Workers, Busy(x)', x # w PROVE Disjoint(t, worker'[x].task)
    <3>1. worker'[x] = worker[x] /\ Busy(x)
      BY <1>1, <2>4, Zenon DEF Busy
    <3> QED BY <2>2, <2>4, <3>1, Zenon
  <2>5. t' = t
    BY <2>1
  <2>6. PiecesOf(t)' = PiecesOf(t)
    BY <2>5 DEF PiecesOf, Parts
  <2> HIDE DEF t
  <2>7. /\ GoodUnit(t)' /\ Uncounted(t)'
        /\ \A x \in Workers, lo \in BOOLEAN : \A i \in DOMAIN Lane(x, lo)' :
                  Disjoint(t, Lane(x, lo)[i])'
        /\ \A x \in Workers : Busy(x)' /\ x # w => Disjoint(t, worker[x].task)'
        /\ worker'[w].at = "read" => Unread(t)'
        /\ worker'[w].at = "finish" => PiecesOf(t)' \subseteq bytes'
    BY <1>2, <1>3, <2>1, <2>2, <2>3, <2>4, <2>5, <2>6, Zenon
  <2> QED BY <2>7, Zenon DEF t
<1>5. ASSUME NEW w \in Workers, worker'[w].at = "report" PROVE worker'[w].task.recs \subseteq flag'
  <2>1. worker'[w] = worker[w]
    BY <1>1, <1>5
  <2> QED BY <1>5, <2>1, Zenon DEF WorkersInv
<1> QED BY <1>4, <1>5, Zenon DEF WorkersInv

(* A record is in flight if it was asked for, not raised and not cancelled. *)
LEMMA InFlightIs ==
  /\ \A rec : rec \in InFlight <=> (\E f \in Ids : rec \in RecordsOf(f)) /\ rec \notin flag \cup dropped
  /\ \A rec : rec \in InFlight' <=> (\E f \in Ids : rec \in RecordsOf(f)') /\ rec \notin (flag \cup dropped)'
<1>1. ASSUME NEW rec
      PROVE  rec \in InFlight <=> (\E f \in Ids : rec \in RecordsOf(f)) /\ rec \notin flag \cup dropped
  BY DEF InFlight
<1>2. ASSUME NEW rec
      PROVE  rec \in InFlight' <=> (\E f \in Ids : rec \in RecordsOf(f)') /\ rec \notin (flag \cup dropped)'
  BY DEF InFlight, Ids
<1> QED BY <1>1, <1>2

(* The initial state. *)
LEMMA InitInv == Init => SourceInv
<1> SUFFICES ASSUME Init PROVE SourceInv
  OBVIOUS
<1> USE NvmeAssumption
<1>1. Shape
  <2>1. NoTask \in Units /\ Idle \in WorkerType
    BY DEF NoTask, Idle, Units, WorkerType
  <2>2. kind \in Kinds /\ loMax \in 1 .. Threads
    BY DEF Init
  <2>3. queue \in [Workers -> QueueType]
    BY DEF Init, QueueType
  <2>4. fetch \in [Ids -> FetchType]
    BY DEF Init, FetchType
  <2>5. worker \in [Workers -> WorkerType]
    BY <2>1 DEF Init
  <2>6. closed \in BOOLEAN /\ dropped = {} /\ bytes = {} /\ counted = {} /\ bad = {} /\ flag = {} /\ reported = {}
        /\ inFlight = 0
    BY DEF Init
  <2> QED BY <2>2, <2>3, <2>4, <2>5, <2>6 DEF Shape
<1>2. \A w \in Workers, lo \in BOOLEAN : DOMAIN Lane(w, lo) = {}
  <2> SUFFICES ASSUME NEW w \in Workers, NEW lo \in BOOLEAN PROVE DOMAIN Lane(w, lo) = {}
    OBVIOUS
  <2>1. Lane(w, lo) = <<>>
    BY DEF Init, Lane
  <2> QED BY <2>1
<1>3. LanesApart /\ UnitsWhole
  BY <1>2, Zenon DEF LanesApart, UnitsWhole, Distinct, Between
<1>4. WorkersInv
  BY DEF Init, WorkersInv, Idle, Busy
<1>5. FlagsInv
  BY DEF Init, FlagsInv, Parts
<1>6. CountInv
  <2>1. InFlight = {}
    <3>1. \A f \in Ids : RecordsOf(f) = {}
      BY DEF Init, RecordsOf
    <3> QED BY <3>1, InFlightIs
  <2> QED BY <2>1, FS_EmptySet DEF Init, CountInv
<1> QED BY <1>1, <1>3, <1>4, <1>5, <1>6 DEF SourceInv

-----------------------------------------------------------------------------
(* Each action.                                                              *)

(* Whom a broadcast or a submit wakes. *)
LEMMA WokenThreads ==
  ASSUME Shape, NEW ws, ws \subseteq {w \in Workers : worker[w].at = "wait"}
  PROVE  /\ Woken(ws) \in [Workers -> WorkerType]
         /\ worker' = Woken(ws) => SameTasks
<1>1. Idle \in WorkerType /\ Idle.at = "idle"
  BY NvmeAssumption DEF Idle, NoTask, Units, WorkerType
<1>2. Woken(ws) = [w \in Workers |-> IF w \in ws THEN Idle ELSE worker[w]]
  BY DEF Woken
<1>3. \A w \in Workers : worker[w] \in WorkerType
  BY DEF Shape
<1>4. Woken(ws) \in [Workers -> WorkerType]
  BY <1>1, <1>2, <1>3
<1>5. ASSUME worker' = Woken(ws) PROVE SameTasks
  <2> SUFFICES ASSUME NEW w \in Workers
               PROVE worker'[w] = worker[w] \/ worker'[w].at \notin {"read", "finish", "report"}
    BY Zenon DEF SameTasks
  <2>1. worker'[w] = IF w \in ws THEN Idle ELSE worker[w]
    BY <1>2, <1>5
  <2> QED BY <1>1, <2>1
<1> QED BY <1>4, <1>5

(* Queues nobody touches. *)
LEMMA QueuesKept ==
  ASSUME LanesApart, queue' = queue
  PROVE  FromOwn /\ FromQueues /\ LanesApart'
<1>1. \A w, lo : Lane(w, lo)' = Lane(w, lo)
  BY DEF Lane
<1>2. FromOwn /\ FromQueues
  BY <1>1, Zenon DEF FromOwn, FromQueues
<1>3. LanesApart'
  BY <1>1, Zenon DEF LanesApart
<1> QED BY <1>2, <1>3

(* The source closes: every thread that waits is woken. *)
LEMMA CloseInv == SourceInv /\ Close => SourceInv'
<1> SUFFICES ASSUME SourceInv, Close PROVE SourceInv'
  OBVIOUS
<1> USE DEF SourceInv
<1>1. /\ UNCHANGED <<kind, loMax, queue, fetch, dropped, bytes, counted, bad, flag, reported, inFlight>>
      /\ closed' = TRUE /\ worker' = Woken({w \in Workers : worker[w].at = "wait"})
  BY DEF Close
<1>2. worker' \in [Workers -> WorkerType] /\ SameTasks
  BY <1>1, WokenThreads, Zenon
<1>3. FromQueues /\ LanesApart'
  BY <1>1, QueuesKept
<1>4. Shape'
  BY <1>1, <1>2 DEF Shape, Workers, Units, AllRecs, Ids, Recs, Parts, WorkerType, FetchType, QueueType
<1>5. UnitsWhole' /\ WorkersInv'
  BY <1>1, <1>2, <1>3, WholeStay, WorkersStay
<1>6. FlagsInv'
  BY <1>1 DEF FlagsInv, RecordsOf, Ids, AllRecs, Recs, Parts, Asked
<1>7. CountInv'
  BY <1>1 DEF CountInv, InFlight, RecordsOf, Ids, Asked
<1> QED BY <1>3, <1>4, <1>5, <1>6, <1>7

(* A thread reports records whose flags it raised. *)
LEMMA ReportInv == ASSUME SourceInv, NEW w \in Workers, Report(w) PROVE SourceInv'
<1> USE DEF SourceInv
<1>1. /\ UNCHANGED <<kind, loMax, queue, closed, fetch, dropped, bytes, counted, bad, flag, inFlight>>
      /\ reported' = reported \cup worker[w].task.recs
      /\ worker' = [worker EXCEPT ![w] = Idle] /\ worker[w].at = "report"
  BY DEF Report
<1>2. worker[w].task \in Units /\ worker[w].task.recs \in SUBSET AllRecs
  BY DEF Shape, WorkerType, Units
<1>3. worker' \in [Workers -> WorkerType] /\ SameTasks
  <2>1. Idle \in WorkerType /\ Idle.at = "idle"
    BY NvmeAssumption DEF Idle, NoTask, Units, WorkerType
  <2>2. worker \in [Workers -> WorkerType]
    BY DEF Shape
  <2>3. worker' \in [Workers -> WorkerType]
    BY <1>1, <2>1, <2>2
  <2>4. \A x \in Workers : worker'[x] = IF x = w THEN Idle ELSE worker[x]
    BY <1>1, <2>2
  <2> QED BY <2>1, <2>3, <2>4 DEF SameTasks
<1>4. FromQueues /\ LanesApart'
  BY <1>1, QueuesKept
<1>5. Shape'
  BY <1>1, <1>2, <1>3 DEF Shape, Workers, Units, AllRecs, Ids, Recs, Parts, WorkerType, FetchType, QueueType
<1>6. UnitsWhole' /\ WorkersInv'
  BY <1>1, <1>3, <1>4, WholeStay, WorkersStay
<1>7. FlagsInv'
  <2>1. worker[w].task.recs \subseteq flag
    BY <1>1 DEF WorkersInv
  <2>2. \A f : RecordsOf(f)' = RecordsOf(f) /\ fetch'[f] = fetch[f]
    BY <1>1 DEF RecordsOf
  <2>3. reported' \subseteq flag' \cup dropped'
    BY <1>1, <2>1 DEF FlagsInv
  <2> QED BY <1>1, <2>2, <2>3 DEF FlagsInv, Ids, AllRecs, Recs, Parts, Asked
<1>8. CountInv'
  BY <1>1 DEF CountInv, InFlight, RecordsOf, Ids, Asked
<1> QED BY <1>4, <1>5, <1>6, <1>7, <1>8

(* What a thread does after its read: it has its unit still, and may wake one *)
(* that waits.                                                                *)
LEMMA AfterReadThreads ==
  ASSUME Shape, NEW w \in Workers, worker[w].at = "read", AfterRead(w)
  PROVE  /\ worker' \in [Workers -> WorkerType]
         /\ worker'[w].at = "finish" /\ worker'[w].task = worker[w].task
         /\ \A x \in Workers \ {w} : worker'[x] = worker[x] \/ worker'[x].at = "idle"
<1> DEFINE next == [worker EXCEPT ![w].at = "finish", ![w].low = FALSE]
<1>1. worker \in [Workers -> WorkerType] /\ Idle \in WorkerType /\ Idle.at = "idle"
  BY NvmeAssumption DEF Shape, Idle, NoTask, Units, WorkerType
<1>2. next = [worker EXCEPT ![w] = [worker[w] EXCEPT !.at = "finish", !.low = FALSE]]
  BY <1>1 DEF WorkerType
<1> DEFINE done == [worker[w] EXCEPT !.at = "finish", !.low = FALSE]
<1>3. done \in WorkerType /\ done.at = "finish" /\ done.task = worker[w].task
  <2>1. worker[w] \in WorkerType
    BY <1>1
  <2> QED BY <2>1 DEF WorkerType
<1> HIDE DEF done
<1>4. next = [worker EXCEPT ![w] = done]
  BY <1>2 DEF done
<1> HIDE DEF next
<1>5. next \in [Workers -> WorkerType] /\ \A x \in Workers : next[x] = IF x = w THEN done ELSE worker[x]
  BY <1>1, <1>3, <1>4
<1>6. \/ worker' = next
      \/ \E x \in Waiters(0) : worker' = [next EXCEPT ![x] = Idle]
  BY Zenon DEF AfterRead, next
<1>7. CASE worker' = next
  BY <1>3, <1>5, <1>7
<1>8. CASE \E x \in Waiters(0) : worker' = [next EXCEPT ![x] = Idle]
  <2>1. PICK x \in Waiters(0) : worker' = [next EXCEPT ![x] = Idle]
    BY <1>8
  <2>2. x \in Workers /\ x # w
    BY DEF Waiters
  <2> QED BY <1>1, <1>3, <1>5, <2>1, <2>2
<1> QED BY <1>6, <1>7, <1>8

(* A read ends: the pieces of its unit are in, and they are no other unit's. *)
LEMMA ReadInv == ASSUME SourceInv, NEW w \in Workers, Read(w) PROVE SourceInv'
<1> USE DEF SourceInv
<1> DEFINE t == worker[w].task
<1>1. /\ worker[w].at = "read" /\ bytes' = bytes \cup PiecesOf(t) /\ AfterRead(w)
      /\ UNCHANGED <<kind, loMax, queue, closed, fetch, dropped, counted, flag, reported, inFlight>>
      /\ bad' = bad \/ \E rec \in t.recs : bad' = bad \cup {rec}
  BY DEF Read
<1>2. /\ worker' \in [Workers -> WorkerType]
      /\ worker'[w].at = "finish" /\ worker'[w].task = t
      /\ \A x \in Workers \ {w} : worker'[x] = worker[x] \/ worker'[x].at = "idle"
  BY <1>1, AfterReadThreads
<1>3. t \in Units /\ t.recs \in SUBSET AllRecs /\ PiecesOf(t) \subseteq AllRecs \X Parts
  <2>1. t \in Units
    BY DEF Shape, WorkerType
  <2> HIDE DEF t
  <2> QED BY <2>1, UnitPieces DEF Units
<1>4. /\ GoodUnit(t) /\ Uncounted(t)
      /\ \A x \in Workers, lo \in BOOLEAN : \A i \in DOMAIN Lane(x, lo) : Disjoint(t, Lane(x, lo)[i])
      /\ \A x \in Workers : Busy(x) /\ x # w => Disjoint(t, worker[x].task)
  BY <1>1, Zenon DEF WorkersInv, Busy
<1>t. t' = t
  BY <1>2
<1> HIDE DEF t
<1>5. LanesApart'
  BY <1>1, QueuesKept
<1>6. Shape'
  <2>1. bytes' \in SUBSET (AllRecs \X Parts) /\ bad' \in SUBSET AllRecs
    BY <1>1, <1>3 DEF Shape
  <2> QED BY <1>1, <1>2, <2>1 DEF Shape, Workers, Units, AllRecs, Ids, Recs, Parts, WorkerType, FetchType, QueueType
<1>7. ASSUME NEW u PROVE /\ GoodUnit(u)' <=> GoodUnit(u)
                         /\ Uncounted(u)' <=> Uncounted(u)
                         /\ Unread(u) /\ Disjoint(t, u) => Unread(u)'
                         /\ PiecesOf(u)' = PiecesOf(u)
                         /\ PiecesOf(u) \subseteq bytes => PiecesOf(u) \subseteq bytes'
  <2>1. PiecesOf(u)' = PiecesOf(u)
    BY DEF PiecesOf, Parts
  <2>2. GoodUnit(u)' <=> GoodUnit(u)
    BY <1>1, Zenon DEF GoodUnit, Pool, RecordsOf, Ids, AllRecs, Recs, Parts
  <2>3. Unread(u) /\ Disjoint(t, u) => Unread(u)'
    BY <1>1, <2>1 DEF Unread, Disjoint
  <2> QED BY <1>1, <2>1, <2>2, <2>3 DEF Uncounted
<1>8. \A x, lo : Lane(x, lo)' = Lane(x, lo)
  BY <1>1 DEF Lane
<1>9. UnitsWhole'
  BY <1>4, <1>7, <1>8, Zenon DEF UnitsWhole
<1>10. WorkersInv'
  <2>0. \A u, v : Disjoint(u, v) => Disjoint(v, u)
    BY DEF Disjoint
  <2>a. \A u, v : Disjoint(u, v)' <=> Disjoint(u, v)
    BY DEF Disjoint, PiecesOf, Parts
  <2>1. ASSUME NEW x \in Workers, Busy(x)', x # w
        PROVE worker'[x] = worker[x] /\ Busy(x)
    BY <1>2, <2>1 DEF Busy
  <2>2. Busy(w)
    BY <1>1 DEF Busy
  <2>3. ASSUME NEW x \in Workers, Busy(x)'
        PROVE  /\ GoodUnit(worker[x].task)' /\ Uncounted(worker[x].task)'
               /\ \A y \in Workers, lo \in BOOLEAN : \A i \in DOMAIN Lane(y, lo)' :
                    Disjoint(worker[x].task, Lane(y, lo)[i])'
               /\ \A y \in Workers : Busy(y)' /\ y # x => Disjoint(worker[x].task, worker[y].task)'
               /\ worker'[x].at = "read" => Unread(worker[x].task)'
               /\ worker'[x].at = "finish" => PiecesOf(worker[x].task)' \subseteq bytes'
    <3>1. CASE x = w
      <4>1. PiecesOf(t) \subseteq bytes'
        BY <1>1
      <4>2. \A y \in Workers : Busy(y)' /\ y # x => Disjoint(t, worker'[y].task)
        BY <1>4, <2>1, <3>1, Zenon
      <4>3. /\ worker'[x].task = t' /\ worker'[x].at # "read" /\ GoodUnit(t)' /\ Uncounted(t)'
            /\ PiecesOf(t)' \subseteq bytes'
        BY <1>2, <1>4, <1>7, <1>t, <3>1, <4>1, Zenon
      <4>4. GoodUnit(worker[x].task)' /\ Uncounted(worker[x].task)' /\ PiecesOf(worker[x].task)' \subseteq bytes'
        BY <3>1, <4>3, Zenon DEF t
      <4> QED BY <1>4, <1>8, <1>t, <2>a, <4>2, <4>3, <4>4, Zenon
    <3>2. CASE x # w
      <4> DEFINE u == worker[x].task
      <4>1. worker'[x] = worker[x] /\ Busy(x)
        BY <2>1, <2>3, <3>2
      <4>2. /\ GoodUnit(u) /\ Uncounted(u) /\ Disjoint(u, t)
            /\ \A y \in Workers, lo \in BOOLEAN : \A i \in DOMAIN Lane(y, lo) : Disjoint(u, Lane(y, lo)[i])
            /\ \A y \in Workers : Busy(y) /\ y # x => Disjoint(u, worker[y].task)
            /\ worker[x].at = "read" => Unread(u)
            /\ worker[x].at = "finish" => PiecesOf(u) \subseteq bytes
        BY <2>2, <3>2, <4>1, Zenon DEF WorkersInv, t
      <4>3. \A y \in Workers : Busy(y)' /\ y # x => Disjoint(u, worker'[y].task)
        BY <1>2, <2>1, <4>2, Zenon
      <4>4. Disjoint(t, u)
        BY <2>0, <4>2, Zenon
      <4>5. /\ GoodUnit(u)' /\ Uncounted(u)' /\ (Unread(u) => Unread(u)')
            /\ PiecesOf(u)' = PiecesOf(u) /\ (PiecesOf(u) \subseteq bytes => PiecesOf(u) \subseteq bytes')
        <5>1. u' = u
          BY <4>1
        <5> QED BY <1>7, <4>2, <4>4, <5>1, Zenon
      <4>6. u' = worker'[x].task /\ u' = u
        BY <4>1
      <4> HIDE DEF u
      <4> QED BY <1>8, <2>a, <4>1, <4>2, <4>3, <4>5, <4>6, Zenon
    <3> QED BY <3>1, <3>2
  <2>4. ASSUME NEW x \in Workers, worker'[x].at = "report" PROVE worker'[x].task.recs \subseteq flag'
    <3>1. worker'[x] = worker[x]
      BY <1>2, <2>4
    <3> QED BY <1>1, <2>4, <3>1, Zenon DEF WorkersInv
  <2> QED BY <2>3, <2>4, Zenon DEF WorkersInv
<1>11. FlagsInv'
  <2>1. \A f : RecordsOf(f)' = RecordsOf(f) /\ fetch'[f] = fetch[f]
    BY <1>1 DEF RecordsOf
  <2>2. ASSUME NEW b \in PiecesOf(t) PROVE b[1] \notin dropped /\ \E f \in Ids : b[1] \in RecordsOf(f)
    <3>1. b[1] \in t.recs
      BY <1>3, UnitPieces
    <3> QED BY <1>4, <3>1 DEF GoodUnit
  <2>3. ASSUME NEW b \in bytes' PROVE b[1] \notin dropped' /\ \E f \in Ids : b[1] \in RecordsOf(f)'
    BY <1>1, <2>1, <2>2 DEF FlagsInv
  <2>4. counted' \subseteq bytes'
    BY <1>1 DEF FlagsInv
  <2> QED BY <1>1, <2>1, <2>3, <2>4 DEF FlagsInv, Ids, AllRecs, Recs, Parts, Asked
<1>12. CountInv'
  BY <1>1 DEF CountInv, InFlight, RecordsOf, Ids, Asked
<1> QED BY <1>5, <1>6, <1>9, <1>10, <1>11, <1>12

(* A thread takes the head of a queue: the unit moves from the queue to it. *)
LEMMA UnitTaken ==
  ASSUME SourceInv, NEW w \in Workers, NEW q \in Workers, NEW lo \in BOOLEAN,
         worker[w].at = "idle", Lane(q, lo) # <<>>,
         queue' \in [Workers -> QueueType], Lane(q, lo)' = Tail(Lane(q, lo)),
         \A x \in Workers, lx \in BOOLEAN : x # q \/ lx # lo => Lane(x, lx)' = Lane(x, lx),
         worker' = [worker EXCEPT ![w] = [at |-> "read", task |-> Head(Lane(q, lo)), low |-> lo]],
         UNCHANGED <<kind, loMax, closed, fetch, dropped, bytes, counted, bad, flag, reported, inFlight>>
  PROVE  SourceInv'
<1> USE DEF SourceInv
<1> DEFINE s == Lane(q, lo)
           t == Head(s)
<1>1. s \in Seq(Units) /\ s # <<>>
  BY DEF Shape, QueueType, Lane
<1>2. Distinct(s)
  BY Zenon DEF LanesApart
<1>3. /\ t \in Units /\ 1 \in DOMAIN s /\ t = s[1] /\ Distinct(Tail(s))
      /\ \A k \in DOMAIN Tail(s) : k + 1 \in DOMAIN s /\ Tail(s)[k] = s[k + 1]
      /\ \A k \in DOMAIN Tail(s) : Disjoint(t, Tail(s)[k])
  <2> HIDE DEF s
  <2> QED BY <1>1, <1>2, TailUnits, Zenon
<1>4. GoodUnit(t) /\ Unread(t) /\ Uncounted(t)
  BY <1>3, Zenon DEF UnitsWhole
<1>5. FromOwn
  <2> SUFFICES ASSUME NEW x \in Workers, NEW lx \in BOOLEAN, NEW i \in DOMAIN Lane(x, lx)'
               PROVE  \E j \in DOMAIN Lane(x, lx) : Lane(x, lx)'[i] = Lane(x, lx)[j]
    BY Zenon DEF FromOwn
  <2>1. CASE x = q /\ lx = lo
    <3>1. DOMAIN Lane(x, lx)' = DOMAIN Tail(s) /\ Lane(x, lx)'[i] = Tail(s)[i] /\ Lane(x, lx) = s
      BY <2>1
    <3> HIDE DEF s
    <3> QED BY <1>3, <3>1, Zenon
  <2>2. CASE x # q \/ lx # lo
    <3>1. Lane(x, lx)' = Lane(x, lx)
      BY <2>2
    <3> QED BY <3>1
  <2> QED BY <2>1, <2>2
<1>6. FromQueues
  BY <1>5, Zenon DEF FromOwn, FromQueues
<1>7. LanesApart'
  <2>1. ASSUME NEW x \in Workers, NEW lx \in BOOLEAN PROVE Distinct(Lane(x, lx)')
    <3>1. CASE x = q /\ lx = lo
      <4>1. Lane(x, lx)' = Tail(s)
        BY <3>1
      <4> QED BY <1>3, <4>1
    <3>2. CASE x # q \/ lx # lo
      <4>1. Lane(x, lx)' = Lane(x, lx)
        BY <3>2
      <4> QED BY <4>1, Zenon DEF LanesApart
    <3> QED BY <3>1, <3>2
  <2> QED BY <1>5, <2>1, OwnApart
<1>8. UnitsWhole'
  BY <1>6, WholeStay
<1> DEFINE new == [at |-> "read", task |-> t, low |-> lo]
<1>9. worker' = [worker EXCEPT ![w] = new] /\ new \in WorkerType
  BY <1>3 DEF WorkerType
<1>10. worker' \in [Workers -> WorkerType] /\ worker'[w].at = "read" /\ worker'[w].task = t
       /\ \A x \in Workers \ {w} : worker'[x] = worker[x]
  <2>1. worker \in [Workers -> WorkerType] /\ new.at = "read" /\ new.task = t
    BY DEF Shape
  <2> HIDE DEF new
  <2> QED BY <1>9, <2>1
<1> HIDE DEF t, s, new
<1>11. Shape'
  BY <1>10 DEF Shape, Workers, Units, AllRecs, Ids, Recs, Parts, WorkerType, FetchType, QueueType
<1>12. ASSUME NEW x \in Workers, NEW lx \in BOOLEAN, NEW i \in DOMAIN Lane(x, lx)'
       PROVE  Disjoint(t, Lane(x, lx)'[i])
  <2>1. CASE x = q /\ lx = lo
    <3>1. Lane(x, lx)' = Tail(s)
      BY <2>1 DEF s
    <3> QED BY <1>3, <3>1
  <2>2. CASE x # q \/ lx # lo
    <3>1. Lane(x, lx)' = Lane(x, lx) /\ Between(Lane(q, lo), Lane(x, lx))
      BY <2>2, Zenon DEF LanesApart
    <3> QED BY <1>3, <3>1, Zenon DEF Between, s
  <2> QED BY <2>1, <2>2
<1>13. \A u, v : Disjoint(u, v) => Disjoint(v, u)
  BY DEF Disjoint
<1>14. ASSUME NEW x \in Workers, Busy(x) PROVE Disjoint(t, worker[x].task) /\ x # w
  <2>1. Disjoint(worker[x].task, s[1])
    BY <1>3, <1>14, Zenon DEF WorkersInv, s
  <2> QED BY <1>3, <1>13, <1>14, <2>1 DEF Busy
<1>15. WorkersInv'
  <2>0. kind' = kind /\ fetch' = fetch /\ dropped' = dropped /\ bytes' = bytes /\ counted' = counted /\ flag' = flag
    OBVIOUS
  <2>a. \A u, v : Disjoint(u, v)' <=> Disjoint(u, v)
    BY DEF Disjoint, PiecesOf, Parts
  <2>b. ASSUME NEW u PROVE /\ GoodUnit(u)' <=> GoodUnit(u)
                           /\ Uncounted(u)' <=> Uncounted(u)
                           /\ Unread(u)' <=> Unread(u)
                           /\ PiecesOf(u)' = PiecesOf(u)
    <3>1. GoodUnit(u)' <=> GoodUnit(u)
      BY <2>0, Zenon DEF GoodUnit, Pool, RecordsOf, Ids, AllRecs, Recs, Parts
    <3>2. PiecesOf(u)' = PiecesOf(u)
      BY DEF PiecesOf, Parts
    <3> QED BY <2>0, <3>1, <3>2 DEF Uncounted, Unread
  <2>1. ASSUME NEW x \in Workers, Busy(x)', x # w PROVE worker'[x] = worker[x] /\ Busy(x)
    BY <1>10, <2>1 DEF Busy
  <2>2. ASSUME NEW x \in Workers, Busy(x)'
        PROVE  LET u == worker'[x].task IN
               /\ GoodUnit(u) /\ Uncounted(u)
               /\ \A y \in Workers, ly \in BOOLEAN : \A i \in DOMAIN Lane(y, ly)' : Disjoint(u, Lane(y, ly)'[i])
               /\ \A y \in Workers : Busy(y)' /\ y # x => Disjoint(u, worker'[y].task)
               /\ worker'[x].at = "read" => Unread(u)
               /\ worker'[x].at = "finish" => PiecesOf(u) \subseteq bytes
    <3>1. CASE x = w
      <4>1. \A y \in Workers : Busy(y)' /\ y # x => Disjoint(t, worker'[y].task)
        BY <1>14, <2>1, <3>1, Zenon
      <4>2. worker'[x].at = "read" /\ worker'[x].at # "finish" /\ worker'[x].task = t
        BY <1>10, <3>1
      <4> QED BY <1>4, <1>12, <4>1, <4>2, Zenon
    <3>2. CASE x # w
      <4> DEFINE u == worker[x].task
      <4>1. worker'[x] = worker[x] /\ Busy(x)
        BY <2>1, <2>2, <3>2
      <4>2. /\ GoodUnit(u) /\ Uncounted(u)
            /\ \A y \in Workers, ly \in BOOLEAN : \A i \in DOMAIN Lane(y, ly) : Disjoint(u, Lane(y, ly)[i])
            /\ \A y \in Workers : Busy(y) /\ y # x => Disjoint(u, worker[y].task)
            /\ worker[x].at = "read" => Unread(u)
            /\ worker[x].at = "finish" => PiecesOf(u) \subseteq bytes
        BY <4>1, Zenon DEF WorkersInv
      <4>3. Disjoint(u, t)
        BY <1>13, <1>14, <4>1, Zenon
      <4>4. \A y \in Workers : Busy(y)' /\ y # x => Disjoint(u, worker'[y].task)
        BY <1>10, <2>1, <4>2, <4>3, Zenon
      <4>5. ASSUME NEW y \in Workers, NEW ly \in BOOLEAN, NEW i \in DOMAIN Lane(y, ly)'
            PROVE  Disjoint(u, Lane(y, ly)'[i])
        <5>1. PICK j \in DOMAIN Lane(y, ly) : Lane(y, ly)'[i] = Lane(y, ly)[j]
          BY <1>5, Zenon DEF FromOwn
        <5> QED BY <4>2, <5>1, Zenon
      <4>6. worker'[x].task = u
        BY <4>1
      <4> HIDE DEF u
      <4> QED BY <4>1, <4>2, <4>4, <4>5, <4>6, Zenon
    <3> QED BY <3>1, <3>2
  <2>3. ASSUME NEW x \in Workers, worker'[x].at = "report" PROVE worker'[x].task.recs \subseteq flag'
    <3>1. worker'[x] = worker[x]
      BY <1>10, <2>3
    <3> QED BY <2>0, <2>3, <3>1, Zenon DEF WorkersInv
  <2>4. ASSUME NEW x \in Workers, Busy(x)'
        PROVE  /\ GoodUnit(worker[x].task)' /\ Uncounted(worker[x].task)'
               /\ \A y \in Workers, ly \in BOOLEAN : \A i \in DOMAIN Lane(y, ly)' :
                    Disjoint(worker[x].task, Lane(y, ly)[i])'
               /\ \A y \in Workers : Busy(y)' /\ y # x => Disjoint(worker[x].task, worker[y].task)'
               /\ worker'[x].at = "read" => Unread(worker[x].task)'
               /\ worker'[x].at = "finish" => PiecesOf(worker[x].task)' \subseteq bytes'
    BY <2>0, <2>a, <2>b, <2>2, <2>4, Zenon
  <2> QED BY <2>3, <2>4, Zenon DEF WorkersInv
<1>16. FlagsInv'
  BY DEF FlagsInv, RecordsOf, Ids, AllRecs, Recs, Parts, Asked
<1>17. CountInv'
  BY DEF CountInv, InFlight, RecordsOf, Ids, Asked
<1> QED BY <1>7, <1>8, <1>11, <1>15, <1>16, <1>17

(* A pass of a thread's loop under the lock: it takes a unit, leaves or waits. *)
LEMMA TakeInv == ASSUME SourceInv, NEW w \in Workers, Take(w) PROVE SourceInv'
<1> USE DEF SourceInv
<1>0. PICK q \in Workers : q = QueueOf(w)
  BY NvmeAssumption DEF QueueOf, Workers
<1> DEFINE none == [at |-> IF closed /\ queue[q].lo = <<>> THEN "gone" ELSE "wait",
                    task |-> NoTask, low |-> FALSE]
<1>1. q \in Workers /\ queue \in [Workers -> QueueType] /\ worker \in [Workers -> WorkerType]
  BY DEF Shape
<1>2. /\ worker[w].at = "idle"
      /\ UNCHANGED <<kind, loMax, closed, fetch, dropped, bytes, counted, bad, flag, reported, inFlight>>
      /\ \/ /\ NextFrom(queue[q]) = "hi"
            /\ worker' = [worker EXCEPT ![w] = [at |-> "read", task |-> Head(queue[q].hi), low |-> FALSE]]
            /\ queue' = [queue EXCEPT ![q].hi = Tail(@)]
         \/ /\ NextFrom(queue[q]) = "lo"
            /\ worker' = [worker EXCEPT ![w] = [at |-> "read", task |-> Head(queue[q].lo), low |-> TRUE]]
            /\ queue' = [queue EXCEPT ![q].lo = Tail(@)]
         \/ worker' = [worker EXCEPT ![w] = none] /\ queue' = queue
  BY <1>0, Zenon DEF Take
<1>3. queue[q] \in QueueType /\ queue[q].hi \in Seq(Units) /\ queue[q].lo \in Seq(Units)
  BY <1>1 DEF QueueType
<1>4. /\ NextFrom(queue[q]) = "hi" => queue[q].hi # <<>>
      /\ NextFrom(queue[q]) = "lo" => queue[q].lo # <<>>
  BY DEF NextFrom
<1> HIDE DEF none
<1>5. CASE /\ NextFrom(queue[q]) = "hi"
           /\ worker' = [worker EXCEPT ![w] = [at |-> "read", task |-> Head(queue[q].hi), low |-> FALSE]]
           /\ queue' = [queue EXCEPT ![q].hi = Tail(@)]
  <2> DEFINE qq == [queue[q] EXCEPT !.hi = Tail(queue[q].hi)]
  <2>1. Tail(queue[q].hi) \in Seq(Units)
    BY <1>3, <1>4, <1>5, TailUnits
  <2>2. qq \in QueueType /\ qq.hi = Tail(queue[q].hi) /\ qq.lo = queue[q].lo
    BY <1>3, <2>1 DEF QueueType
  <2>3. queue' = [queue EXCEPT ![q] = qq]
    BY <1>5
  <2> HIDE DEF qq
  <2>4. queue' \in [Workers -> QueueType] /\ \A x \in Workers : queue'[x] = IF x = q THEN qq ELSE queue[x]
    BY <1>1, <2>2, <2>3
  <2>a. /\ Lane(q, FALSE) = queue[q].hi /\ Lane(q, FALSE)' = queue'[q].hi
        /\ \A x \in Workers, lx \in BOOLEAN :
             /\ Lane(x, lx)' = IF lx THEN queue'[x].lo ELSE queue'[x].hi
             /\ Lane(x, lx) = IF lx THEN queue[x].lo ELSE queue[x].hi
    BY DEF Lane
  <2>b. Lane(q, FALSE)' = Tail(Lane(q, FALSE)) /\ Lane(q, FALSE) # <<>>
    BY <1>1, <1>4, <1>5, <2>2, <2>4, <2>a
  <2>c. ASSUME NEW x \in Workers, NEW lx \in BOOLEAN, x # q \/ lx # FALSE PROVE Lane(x, lx)' = Lane(x, lx)
    <3>1. CASE x # q
      BY <2>4, <2>a, <3>1
    <3>2. CASE x = q
      <4>1. lx = TRUE
        BY <2>c, <3>2
      <4> QED BY <1>1, <2>2, <2>4, <2>a, <3>2, <4>1
    <3> QED BY <3>1, <3>2
  <2>6. worker' = [worker EXCEPT ![w] = [at |-> "read", task |-> Head(Lane(q, FALSE)), low |-> FALSE]]
    BY <1>5, <2>a
  <2>7. FALSE \in BOOLEAN
    OBVIOUS
  <2> HIDE DEF SourceInv
  <2> QED BY <1>1, <1>2, <2>4, <2>b, <2>c, <2>6, <2>7, UnitTaken, Zenon
<1>6. CASE /\ NextFrom(queue[q]) = "lo"
           /\ worker' = [worker EXCEPT ![w] = [at |-> "read", task |-> Head(queue[q].lo), low |-> TRUE]]
           /\ queue' = [queue EXCEPT ![q].lo = Tail(@)]
  <2> DEFINE qq == [queue[q] EXCEPT !.lo = Tail(queue[q].lo)]
  <2>1. Tail(queue[q].lo) \in Seq(Units)
    BY <1>3, <1>4, <1>6, TailUnits
  <2>2. qq \in QueueType /\ qq.lo = Tail(queue[q].lo) /\ qq.hi = queue[q].hi
    BY <1>3, <2>1 DEF QueueType
  <2>3. queue' = [queue EXCEPT ![q] = qq]
    BY <1>6
  <2> HIDE DEF qq
  <2>4. queue' \in [Workers -> QueueType] /\ \A x \in Workers : queue'[x] = IF x = q THEN qq ELSE queue[x]
    BY <1>1, <2>2, <2>3
  <2>a. /\ Lane(q, TRUE) = queue[q].lo /\ Lane(q, TRUE)' = queue'[q].lo
        /\ \A x \in Workers, lx \in BOOLEAN :
             /\ Lane(x, lx)' = IF lx THEN queue'[x].lo ELSE queue'[x].hi
             /\ Lane(x, lx) = IF lx THEN queue[x].lo ELSE queue[x].hi
    BY DEF Lane
  <2>b. Lane(q, TRUE)' = Tail(Lane(q, TRUE)) /\ Lane(q, TRUE) # <<>>
    BY <1>1, <1>4, <1>6, <2>2, <2>4, <2>a
  <2>c. ASSUME NEW x \in Workers, NEW lx \in BOOLEAN, x # q \/ lx # TRUE PROVE Lane(x, lx)' = Lane(x, lx)
    <3>1. CASE x # q
      BY <2>4, <2>a, <3>1
    <3>2. CASE x = q
      <4>1. lx = FALSE
        BY <2>c, <3>2
      <4> QED BY <1>1, <2>2, <2>4, <2>a, <3>2, <4>1
    <3> QED BY <3>1, <3>2
  <2>6. worker' = [worker EXCEPT ![w] = [at |-> "read", task |-> Head(Lane(q, TRUE)), low |-> TRUE]]
    BY <1>6, <2>a
  <2>7. TRUE \in BOOLEAN
    OBVIOUS
  <2> HIDE DEF SourceInv
  <2> QED BY <1>1, <1>2, <2>4, <2>b, <2>c, <2>6, <2>7, UnitTaken, Zenon
<1>7. CASE worker' = [worker EXCEPT ![w] = none] /\ queue' = queue
  <2>1. none \in WorkerType /\ none.at \notin {"read", "finish", "report"}
    BY NvmeAssumption DEF none, NoTask, Units, WorkerType
  <2>2. worker' \in [Workers -> WorkerType] /\ SameTasks
    BY <1>1, <1>7, <2>1 DEF SameTasks
  <2>3. FromQueues /\ LanesApart'
    BY <1>7, QueuesKept
  <2>4. Shape'
    BY <1>2, <1>7, <2>2 DEF Shape, Workers, Units, AllRecs, Ids, Recs, Parts, WorkerType, FetchType, QueueType
  <2>5. UnitsWhole' /\ WorkersInv'
    BY <1>2, <2>2, <2>3, WholeStay, WorkersStay
  <2>6. FlagsInv' /\ CountInv'
    BY <1>2 DEF FlagsInv, RecordsOf, Ids, AllRecs, Recs, Parts, Asked, CountInv, InFlight
  <2> QED BY <2>3, <2>4, <2>5, <2>6
<1> QED BY <1>2, <1>5, <1>6, <1>7

(* The records in flight are finitely many. *)
LEMMA InFlightFinite ==
  ASSUME Shape
  PROVE  IsFiniteSet(InFlight) /\ InFlight \subseteq AllRecs
<1>1. IsFiniteSet(Ids) /\ IsFiniteSet(Recs)
  BY NvmeAssumption, FS_Interval DEF Ids, Recs
<1>2. IsFiniteSet(AllRecs)
  BY <1>1, FS_Product DEF AllRecs
<1>3. \A f \in Ids : RecordsOf(f) \subseteq AllRecs
  BY NvmeAssumption DEF RecordsOf, AllRecs, Shape, FetchType, Recs
<1>4. InFlight \subseteq AllRecs
  BY <1>3 DEF InFlight
<1> QED BY <1>2, <1>4, FS_Subset

(* A unit's pieces are counted: the flags of the records it was the last of. *)
LEMMA FinishInv == ASSUME SourceInv, NEW w \in Workers, Finish(w) PROVE SourceInv'
<1> USE DEF SourceInv
<1>0. PICK t : t = worker[w].task
  OBVIOUS
<1>1. PICK landing : landing = {rec \in t.recs : LastPiece(rec, Counted(t))}
  OBVIOUS
<1>2. /\ worker[w].at = "finish" /\ counted' = counted \cup PiecesOf(t)
      /\ flag' = flag \cup landing /\ inFlight' = inFlight - Cardinality(landing)
      /\ worker' = [worker EXCEPT ![w] = IF landing = {} THEN Idle ELSE [worker[w] EXCEPT !.at = "report"]]
      /\ UNCHANGED <<kind, loMax, queue, closed, fetch, dropped, bytes, bad, reported>>
  BY <1>0, <1>1 DEF Finish, Counted
<1>3. t \in Units /\ t.recs \in SUBSET AllRecs /\ PiecesOf(t) \subseteq AllRecs \X Parts
  <2>1. t \in Units
    BY <1>0 DEF Shape, WorkerType
  <2> QED BY <2>1, UnitPieces DEF Units
<1>4. /\ GoodUnit(t) /\ Uncounted(t) /\ PiecesOf(t) \subseteq bytes
      /\ \A x \in Workers, lo \in BOOLEAN : \A i \in DOMAIN Lane(x, lo) : Disjoint(t, Lane(x, lo)[i])
      /\ \A x \in Workers : Busy(x) /\ x # w => Disjoint(t, worker[x].task)
  BY <1>0, <1>2, Zenon DEF WorkersInv, Busy
<1>5. \A rec : rec \in landing <=> rec \in t.recs /\ \A p \in Parts : <<rec, p>> \in counted'
  BY <1>1, <1>2 DEF LastPiece, Counted
<1>6. landing # {} => landing = t.recs
  <2>1. CASE Pool
    <3>1. PICK rec \in AllRecs : t.recs = {rec}
      BY <1>4, <2>1 DEF GoodUnit
    <3> QED BY <1>1, <3>1
  <2>2. CASE ~Pool
    <3>1. t.part = 0
      BY <1>4, <2>2 DEF GoodUnit
    <3>2. \A rec \in t.recs, p \in Parts : <<rec, p>> \in PiecesOf(t)
      BY <3>1 DEF PiecesOf
    <3> QED BY <1>2, <1>5, <3>2
  <2> QED BY <2>1, <2>2
<1>7. /\ worker' \in [Workers -> WorkerType] /\ worker'[w].at \notin {"read", "finish"}
      /\ worker'[w].at = "report" => worker'[w].task.recs = landing
      /\ \A x \in Workers \ {w} : worker'[x] = worker[x]
  <2> DEFINE new == IF landing = {} THEN Idle ELSE [worker[w] EXCEPT !.at = "report"]
  <2>1. worker \in [Workers -> WorkerType] /\ worker[w] \in WorkerType
    BY DEF Shape
  <2>2. Idle \in WorkerType /\ Idle.at = "idle"
    BY NvmeAssumption DEF Idle, NoTask, Units, WorkerType
  <2> DEFINE r == [worker[w] EXCEPT !.at = "report"]
  <2>3. r \in WorkerType /\ r.at = "report" /\ r.task = t
    BY <1>0, <2>1 DEF WorkerType
  <2> HIDE DEF r
  <2>4. new = IF landing = {} THEN Idle ELSE r
    BY DEF r
  <2> HIDE DEF new
  <2>5. new \in WorkerType /\ new.at \notin {"read", "finish"} /\ (new.at = "report" => new.task.recs = landing)
    BY <1>6, <2>2, <2>3, <2>4
  <2>6. worker' = [worker EXCEPT ![w] = new]
    BY <1>2 DEF new
  <2> QED BY <2>1, <2>5, <2>6
<1>8. landing \subseteq t.recs
  BY <1>1
<1>9. LanesApart'
  BY <1>2, QueuesKept
<1>10. Shape'
  <2>1. /\ counted' \in SUBSET (AllRecs \X Parts) /\ flag' \in SUBSET AllRecs
    BY <1>2, <1>3, <1>8 DEF Shape
  <2>2. IsFiniteSet(AllRecs)
    <3>1. IsFiniteSet(Ids) /\ IsFiniteSet(Recs)
      BY NvmeAssumption, FS_Interval DEF Ids, Recs
    <3> QED BY <3>1, FS_Product DEF AllRecs
  <2>3. landing \subseteq AllRecs
    BY <1>3, <1>8
  <2>4. Cardinality(landing) \in Nat
    BY <2>2, <2>3, FS_Subset, FS_CardinalityType
  <2>5. inFlight' \in Int
    BY <1>2, <2>4 DEF Shape
  <2> QED BY <1>2, <1>7, <2>1, <2>5 DEF Shape, Workers, Units, AllRecs, Ids, Recs, Parts, WorkerType, FetchType, QueueType
<1>11. ASSUME NEW u PROVE /\ GoodUnit(u)' <=> GoodUnit(u)
                          /\ Unread(u)' <=> Unread(u)
                          /\ Uncounted(u) /\ Disjoint(t, u) => Uncounted(u)'
                          /\ PiecesOf(u)' = PiecesOf(u)
  <2>1. PiecesOf(u)' = PiecesOf(u)
    BY DEF PiecesOf, Parts
  <2>2. GoodUnit(u)' <=> GoodUnit(u)
    BY <1>2, Zenon DEF GoodUnit, Pool, RecordsOf, Ids, AllRecs, Recs, Parts
  <2>3. Uncounted(u) /\ Disjoint(t, u) => Uncounted(u)'
    BY <1>2, <2>1 DEF Uncounted, Disjoint
  <2> QED BY <1>2, <2>1, <2>2, <2>3 DEF Unread
<1>12. \A x, lo : Lane(x, lo)' = Lane(x, lo)
  BY <1>2 DEF Lane
<1>13. UnitsWhole'
  BY <1>4, <1>11, <1>12, Zenon DEF UnitsWhole
<1>14. WorkersInv'
  <2>a. \A u, v : Disjoint(u, v)' <=> Disjoint(u, v)
    BY DEF Disjoint, PiecesOf, Parts
  <2>1. ASSUME NEW x \in Workers, Busy(x)' PROVE worker'[x] = worker[x] /\ Busy(x) /\ x # w
    BY <1>7, <2>1 DEF Busy
  <2>2. ASSUME NEW x \in Workers, Busy(x)'
        PROVE  /\ GoodUnit(worker[x].task)' /\ Uncounted(worker[x].task)'
               /\ \A y \in Workers, lo \in BOOLEAN : \A i \in DOMAIN Lane(y, lo)' :
                    Disjoint(worker[x].task, Lane(y, lo)[i])'
               /\ \A y \in Workers : Busy(y)' /\ y # x => Disjoint(worker[x].task, worker[y].task)'
               /\ worker'[x].at = "read" => Unread(worker[x].task)'
               /\ worker'[x].at = "finish" => PiecesOf(worker[x].task)' \subseteq bytes'
    <3>0. PICK u : u = worker[x].task
      OBVIOUS
    <3>1. worker'[x] = worker[x] /\ Busy(x) /\ x # w /\ worker'[x].task = u
      BY <2>1, <2>2, <3>0
    <3>2. /\ GoodUnit(u) /\ Uncounted(u) /\ Disjoint(t, u)
          /\ \A y \in Workers, lo \in BOOLEAN : \A i \in DOMAIN Lane(y, lo) : Disjoint(u, Lane(y, lo)[i])
          /\ \A y \in Workers : Busy(y) /\ y # x => Disjoint(u, worker[y].task)
          /\ worker[x].at = "read" => Unread(u)
          /\ worker[x].at = "finish" => PiecesOf(u) \subseteq bytes
      BY <1>4, <3>0, <3>1, Zenon DEF WorkersInv
    <3>3. \A y \in Workers : Busy(y)' /\ y # x => Disjoint(u, worker'[y].task)
      BY <2>1, <3>2, Zenon
    <3>4. GoodUnit(u)' /\ Uncounted(u)' /\ (Unread(u) => Unread(u)') /\ PiecesOf(u)' = PiecesOf(u)
      BY <1>11, <3>2, Zenon
    <3>5. bytes' = bytes
      BY <1>2
    <3> QED BY <1>12, <2>a, <3>1, <3>2, <3>3, <3>4, <3>5, Zenon
  <2>3. ASSUME NEW x \in Workers, worker'[x].at = "report" PROVE worker'[x].task.recs \subseteq flag'
    <3>1. CASE x = w
      BY <1>2, <1>7, <2>3, <3>1
    <3>2. CASE x # w
      BY <1>2, <1>7, <2>3, <3>2 DEF WorkersInv
    <3> QED BY <3>1, <3>2
  <2> QED BY <2>2, <2>3, Zenon DEF WorkersInv
<1>15. ASSUME NEW rec \in AllRecs PROVE rec \in flag' <=> \A p \in Parts : <<rec, p>> \in counted'
  <2>1. CASE rec \in t.recs
    <3>1. rec \in flag => \A p \in Parts : <<rec, p>> \in counted'
      BY <1>2 DEF FlagsInv
    <3> QED BY <1>2, <1>5, <2>1, <3>1
  <2>2. CASE rec \notin t.recs
    <3>1. \A p \in Parts : <<rec, p>> \notin PiecesOf(t)
      BY <2>2 DEF PiecesOf
    <3>2. \A p \in Parts : <<rec, p>> \in counted' <=> <<rec, p>> \in counted
      BY <1>2, <3>1
    <3>3. rec \in flag' <=> rec \in flag
      BY <1>2, <1>8, <2>2
    <3> QED BY <3>2, <3>3 DEF FlagsInv
  <2> QED BY <2>1, <2>2
<1>16. FlagsInv'
  <2>1. \A f : RecordsOf(f)' = RecordsOf(f) /\ fetch'[f] = fetch[f]
    BY <1>2 DEF RecordsOf
  <2>2. counted' \subseteq bytes'
    BY <1>2, <1>4 DEF FlagsInv
  <2>3. ASSUME NEW b \in bytes' PROVE b[1] \notin dropped' /\ \E f \in Ids : b[1] \in RecordsOf(f)'
    BY <1>2, <2>1, Zenon DEF FlagsInv
  <2>4. reported' \subseteq flag' \cup dropped'
    BY <1>2 DEF FlagsInv
  <2>5. \A rec \in dropped' : \E f \in Ids : rec \in RecordsOf(f)'
    BY <1>2, <2>1, Zenon DEF FlagsInv
  <2> QED BY <1>15, <2>2, <2>3, <2>4, <2>5, Zenon DEF FlagsInv, Ids, AllRecs, Recs, Parts
<1>17. CountInv'
  <2>1. InFlight' = InFlight \ landing
    <3>1. \A f : RecordsOf(f)' = RecordsOf(f)
      BY <1>2 DEF RecordsOf
    <3>2. dropped' = dropped /\ flag' = flag \cup landing
      BY <1>2
    <3>3. \A rec : rec \in InFlight' <=> rec \in InFlight /\ rec \notin landing
      BY <3>1, <3>2, InFlightIs
    <3> QED BY <3>3
  <2>2. landing \subseteq InFlight
    <3>1. t.recs \cap dropped = {} /\ \E f \in Ids : t.recs \subseteq RecordsOf(f)
      BY <1>4, Zenon DEF GoodUnit
    <3>2. \A rec \in t.recs : rec \notin flag
      <4> SUFFICES ASSUME NEW rec \in t.recs, rec \in flag PROVE FALSE
        OBVIOUS
      <4>1. rec \in AllRecs /\ \E p \in Parts : <<rec, p>> \in PiecesOf(t)
        BY <1>3, UnitPieces
      <4> QED BY <1>4, <4>1 DEF FlagsInv, Uncounted
    <3>3. \A rec \in t.recs : rec \in InFlight
      BY <3>1, <3>2, InFlightIs
    <3> QED BY <1>8, <3>3
  <2>3. Cardinality(InFlight \ landing) = Cardinality(InFlight) - Cardinality(landing)
    <3>1. InFlight \cap landing = landing
      BY <2>2
    <3> QED BY <3>1, InFlightFinite, FS_Difference
  <2> QED BY <1>2, <2>1, <2>3 DEF CountInv
<1> QED BY <1>9, <1>10, <1>13, <1>14, <1>16, <1>17

(* What is queued is at a position of a lane. *)
LEMMA QueuedAt ==
  ASSUME NEW t \in Queued
  PROVE  \E w \in Workers, lo \in BOOLEAN : \E i \in DOMAIN Lane(w, lo) : t = Lane(w, lo)[i]
<1>1. PICK w \in Workers : t \in Range2(queue[w].hi) \/ t \in Range2(queue[w].lo)
  BY DEF Queued
<1>2. CASE t \in Range2(queue[w].hi)
  <2>1. Lane(w, FALSE) = queue[w].hi
    BY DEF Lane
  <2>2. \E i \in DOMAIN Lane(w, FALSE) : t = Lane(w, FALSE)[i]
    BY <1>2, <2>1 DEF Range2
  <2> QED BY <2>2
<1>3. CASE t \in Range2(queue[w].lo)
  <2>1. Lane(w, TRUE) = queue[w].lo
    BY DEF Lane
  <2>2. \E i \in DOMAIN Lane(w, TRUE) : t = Lane(w, TRUE)[i]
    BY <1>3, <2>1 DEF Range2
  <2> QED BY <2>2
<1> QED BY <1>1, <1>2, <1>3

(* A cancelled record's batch leaves its queue, and no other unit was of it. *)
LEMMA CancelInv == ASSUME SourceInv, NEW rec0 \in Ids \X Recs, Cancel(rec0) PROVE SourceInv'
<1> USE DEF SourceInv
<1>0. /\ ~Pool /\ dropped' = dropped \cup {rec0}
      /\ reported' = reported \cup {rec0} /\ inFlight' = inFlight - 1
      /\ UNCHANGED <<kind, loMax, closed, worker, fetch, bytes, counted, bad, flag>>
  BY DEF Cancel
<1>1. PICK t \in Queued :
        /\ t.recs = {rec0}
        /\ queue' = [w \in Workers |->
             [hi |-> Picked(queue[w].hi, {i \in DOMAIN queue[w].hi : queue[w].hi[i] # t}),
              lo |-> Picked(queue[w].lo, {i \in DOMAIN queue[w].lo : queue[w].lo[i] # t})]]
  BY DEF Cancel, Cancellable
<1>2. PICK w0 \in Workers, lo0 \in BOOLEAN : \E i \in DOMAIN Lane(w0, lo0) : t = Lane(w0, lo0)[i]
  BY QueuedAt
<1>3. PICK i0 \in DOMAIN Lane(w0, lo0) : t = Lane(w0, lo0)[i0]
  BY <1>2
<1> DEFINE at(w, lo) == {i \in DOMAIN Lane(w, lo) : Lane(w, lo)[i] # t}
<1>4. rec0 \in AllRecs
  BY DEF AllRecs
<1>5. \A w \in Workers, lo \in BOOLEAN : Lane(w, lo) \in Seq(Units)
  BY DEF Shape, QueueType, Lane
<1>6. \A w \in Workers, lo \in BOOLEAN : Lane(w, lo)' = Picked(Lane(w, lo), at(w, lo))
  <2> SUFFICES ASSUME NEW w \in Workers, NEW lo \in BOOLEAN
               PROVE  Lane(w, lo)' = Picked(Lane(w, lo), at(w, lo))
    OBVIOUS
  <2>1. /\ queue'[w].hi = Picked(queue[w].hi, {i \in DOMAIN queue[w].hi : queue[w].hi[i] # t})
        /\ queue'[w].lo = Picked(queue[w].lo, {i \in DOMAIN queue[w].lo : queue[w].lo[i] # t})
    BY <1>1
  <2>2. CASE lo
    BY <2>1, <2>2 DEF Lane
  <2>3. CASE ~lo
    BY <2>1, <2>3 DEF Lane
  <2> QED BY <2>2, <2>3
<1>7. ASSUME NEW w \in Workers, NEW lo \in BOOLEAN
      PROVE  /\ Lane(w, lo)' \in Seq(Units)
             /\ \A k \in DOMAIN Lane(w, lo)' : \E i \in at(w, lo) : Lane(w, lo)'[k] = Lane(w, lo)[i]
             /\ Distinct(Lane(w, lo)')
  <2>1. at(w, lo) \in SUBSET DOMAIN Lane(w, lo) /\ Distinct(Lane(w, lo))
    BY DEF LanesApart
  <2> HIDE DEF at
  <2> QED BY <1>5, <1>6, <2>1, PickedUnits
<1>8. ASSUME NEW w \in Workers, NEW lo \in BOOLEAN, NEW k \in DOMAIN Lane(w, lo)'
      PROVE  \E i \in DOMAIN Lane(w, lo) : Lane(w, lo)'[k] = Lane(w, lo)[i] /\ Lane(w, lo)[i] # t
  BY <1>7
<1>9. FromOwn
  BY <1>8, Zenon DEF FromOwn
<1>10. LanesApart'
  BY <1>7, <1>9, OwnApart
<1>11. GoodUnit(t) /\ Unread(t) /\ Uncounted(t) /\ t \in Units
  BY <1>3, <1>5 DEF UnitsWhole
<1>12. \A p \in Parts : <<rec0, p>> \in PiecesOf(t)
  BY <1>0, <1>1, <1>4, <1>11 DEF GoodUnit, PiecesOf
<1>13. ASSUME NEW u \in Units, Disjoint(t, u) PROVE rec0 \notin u.recs
  <2> SUFFICES ASSUME rec0 \in u.recs PROVE FALSE
    OBVIOUS
  <2>1. \E p \in Parts : <<rec0, p>> \in PiecesOf(u)
    BY UnitPieces
  <2> QED BY <1>12, <1>13, <2>1 DEF Disjoint
<1>15. \A g \in Ids : RecordsOf(g)' = RecordsOf(g)
  BY <1>0 DEF RecordsOf
<1>16. ASSUME NEW u \in Units, GoodUnit(u), rec0 \notin u.recs PROVE GoodUnit(u)'
  <2>1. u.recs \cap dropped' = {}
    BY <1>0, <1>16 DEF GoodUnit
  <2>2. \E g \in Ids : u.recs \subseteq RecordsOf(g)'
    BY <1>15, <1>16, Zenon DEF GoodUnit
  <2>4. u.recs # {} /\ IF Pool THEN u.part \in Parts /\ (\E rec \in AllRecs : u.recs = {rec}) ELSE u.part = 0
    BY <1>16, Zenon DEF GoodUnit
  <2>5. Pool' <=> Pool
    BY <1>0 DEF Pool
  <2> QED BY <2>1, <2>2, <2>4, <2>5, Zenon DEF GoodUnit, Ids, AllRecs, Recs, Parts
<1>17. Shape'
  <2>1. queue' \in [Workers -> QueueType]
    <3>1. ASSUME NEW w \in Workers PROVE queue'[w] \in QueueType
      <4>1. Lane(w, TRUE)' \in Seq(Units) /\ Lane(w, FALSE)' \in Seq(Units)
        BY <1>7
      <4>2. Lane(w, TRUE)' = queue'[w].lo /\ Lane(w, FALSE)' = queue'[w].hi
        BY DEF Lane
      <4>3. queue'[w] = [hi |-> queue'[w].hi, lo |-> queue'[w].lo]
        BY <1>1
      <4> QED BY <4>1, <4>2, <4>3 DEF QueueType
    <3>2. queue' = [w \in Workers |-> queue'[w]]
      BY <1>1
    <3> QED BY <3>1, <3>2
  <2>2. reported' \in SUBSET AllRecs /\ dropped' \in SUBSET AllRecs /\ inFlight' \in Int
    BY <1>0, <1>4 DEF Shape
  <2> QED BY <1>0, <2>1, <2>2 DEF Shape, Workers, Units, AllRecs, Ids, Recs, Parts, WorkerType, FetchType, QueueType
<1>18. UnitsWhole'
  <2> SUFFICES ASSUME NEW w \in Workers, NEW lo \in BOOLEAN, NEW k \in DOMAIN Lane(w, lo)'
               PROVE  GoodUnit(Lane(w, lo)[k])' /\ Unread(Lane(w, lo)[k])' /\ Uncounted(Lane(w, lo)[k])'
    BY Zenon DEF UnitsWhole
  <2>0. PICK u : u = Lane(w, lo)'[k]
    OBVIOUS
  <2>1. PICK i \in DOMAIN Lane(w, lo) : u = Lane(w, lo)[i] /\ Lane(w, lo)[i] # t
    BY <1>8, <2>0
  <2>2. u \in Units /\ GoodUnit(u) /\ Unread(u) /\ Uncounted(u)
    BY <1>5, <2>1 DEF UnitsWhole
  <2>3. Disjoint(t, u)
    <3>1. CASE w = w0 /\ lo = lo0
      <4>1. i # i0
        BY <1>3, <2>1, <3>1
      <4>2. Distinct(Lane(w, lo))
        BY Zenon DEF LanesApart
      <4> QED BY <1>3, <2>1, <3>1, <4>1, <4>2, Zenon DEF Distinct
    <3>2. CASE w0 # w \/ lo0 # lo
      <4>1. Between(Lane(w0, lo0), Lane(w, lo))
        BY <3>2, Zenon DEF LanesApart
      <4> QED BY <1>3, <2>1, <4>1, Zenon DEF Between
    <3> QED BY <3>1, <3>2
  <2>4. GoodUnit(u)'
    BY <1>13, <1>16, <2>2, <2>3
  <2>5. Unread(u)' /\ Uncounted(u)'
    BY <1>0, <2>2 DEF Unread, Uncounted, PiecesOf, Parts
  <2>6. u' = u
    OBVIOUS
  <2> QED BY <2>0, <2>4, <2>5, Zenon
<1>19. WorkersInv'
  <2>a. \A u, v : Disjoint(u, v)' <=> Disjoint(u, v)
    BY DEF Disjoint, PiecesOf, Parts
  <2>1. ASSUME NEW x \in Workers, Busy(x)'
        PROVE  /\ GoodUnit(worker[x].task)' /\ Uncounted(worker[x].task)'
               /\ \A y \in Workers, lo \in BOOLEAN : \A i \in DOMAIN Lane(y, lo)' :
                    Disjoint(worker[x].task, Lane(y, lo)[i])'
               /\ \A y \in Workers : Busy(y)' /\ y # x => Disjoint(worker[x].task, worker[y].task)'
               /\ worker'[x].at = "read" => Unread(worker[x].task)'
               /\ worker'[x].at = "finish" => PiecesOf(worker[x].task)' \subseteq bytes'
    <3>0. PICK u : u = worker[x].task
      OBVIOUS
    <3>1. worker'[x].task = u /\ Busy(x) /\ worker' = worker /\ u \in Units
      BY <1>0, <2>1, <3>0 DEF Busy, Shape, WorkerType
    <3>2. /\ GoodUnit(u) /\ Uncounted(u)
          /\ \A y \in Workers, lo \in BOOLEAN : \A i \in DOMAIN Lane(y, lo) : Disjoint(u, Lane(y, lo)[i])
          /\ \A y \in Workers : Busy(y) /\ y # x => Disjoint(u, worker[y].task)
          /\ worker[x].at = "read" => Unread(u)
          /\ worker[x].at = "finish" => PiecesOf(u) \subseteq bytes
      BY <3>0, <3>1, Zenon DEF WorkersInv
    <3>3. Disjoint(t, u)
      <4>1. Disjoint(u, t)
        BY <1>3, <3>2, Zenon
      <4> QED BY <4>1 DEF Disjoint
    <3>4. GoodUnit(u)'
      BY <1>13, <1>16, <3>1, <3>2, <3>3
    <3>5. Uncounted(u)' /\ (Unread(u) => Unread(u)') /\ PiecesOf(u)' = PiecesOf(u) /\ bytes' = bytes
      BY <1>0, <3>2 DEF Unread, Uncounted, PiecesOf, Parts
    <3>6. ASSUME NEW y \in Workers, NEW lo \in BOOLEAN, NEW i \in DOMAIN Lane(y, lo)'
          PROVE  Disjoint(u, Lane(y, lo)'[i])
      <4>1. PICK j \in DOMAIN Lane(y, lo) : Lane(y, lo)'[i] = Lane(y, lo)[j]
        BY <1>8, Zenon
      <4> QED BY <3>2, <4>1, Zenon
    <3>7. \A y \in Workers : Busy(y)' <=> Busy(y)
      BY <1>0 DEF Busy
    <3> QED BY <2>a, <3>1, <3>2, <3>4, <3>5, <3>6, <3>7, Zenon
  <2>2. ASSUME NEW x \in Workers, worker'[x].at = "report" PROVE worker'[x].task.recs \subseteq flag'
    BY <1>0, <2>2 DEF WorkersInv
  <2> QED BY <2>1, <2>2, Zenon DEF WorkersInv
<1>20. FlagsInv'
  <2>1. counted' \subseteq bytes' /\ \A rec \in AllRecs : rec \in flag' <=> \A p \in Parts : <<rec, p>> \in counted'
    BY <1>0 DEF FlagsInv
  <2>2. ASSUME NEW b \in bytes' PROVE b[1] \notin dropped' /\ \E g \in Ids : b[1] \in RecordsOf(g)'
    <3>1. b[1] \notin dropped /\ \E g \in Ids : b[1] \in RecordsOf(g)
      BY <1>0, Zenon DEF FlagsInv
    <3>2. b \in AllRecs \X Parts
      BY <1>0 DEF Shape
    <3>3. b = <<b[1], b[2]>> /\ b[2] \in Parts
      BY <3>2
    <3>4. b[1] # rec0
      <4> SUFFICES ASSUME b[1] = rec0 PROVE FALSE
        OBVIOUS
      <4>1. <<rec0, b[2]>> \in PiecesOf(t) /\ b = <<rec0, b[2]>>
        BY <1>12, <3>3
      <4> QED BY <1>0, <1>11, <4>1 DEF Unread
    <3> QED BY <1>0, <1>15, <3>1, <3>4
  <2>3. reported' \subseteq flag' \cup dropped'
    BY <1>0 DEF FlagsInv
  <2>4. ASSUME NEW rec \in dropped' PROVE \E g \in Ids : rec \in RecordsOf(g)'
    <3>1. CASE rec \in dropped
      BY <1>15, <3>1, Zenon DEF FlagsInv
    <3>2. CASE rec = rec0
      <4>1. \E g \in Ids : t.recs \subseteq RecordsOf(g)
        BY <1>11, Zenon DEF GoodUnit
      <4> QED BY <1>1, <1>15, <3>2, <4>1
    <3> QED BY <1>0, <3>1, <3>2
  <2> QED BY <2>1, <2>2, <2>3, <2>4, Zenon DEF FlagsInv, Ids, AllRecs, Recs, Parts
<1>21. CountInv'
  <2>1. rec0 \notin dropped /\ \E g \in Ids : rec0 \in RecordsOf(g)
    <3>1. t.recs \cap dropped = {} /\ \E g \in Ids : t.recs \subseteq RecordsOf(g)
      BY <1>11, Zenon DEF GoodUnit
    <3> QED BY <1>1, <3>1
  <2>2. rec0 \notin flag
    <3>1. 1 \in Parts
      BY NvmeAssumption DEF Parts
    <3>2. <<rec0, 1>> \notin counted
      BY <1>11, <1>12, <3>1 DEF Uncounted
    <3> QED BY <1>4, <3>1, <3>2 DEF FlagsInv
  <2>3. InFlight' = InFlight \ {rec0}
    <3>1. \A rec : rec \in InFlight' <=> rec \in InFlight /\ rec # rec0
      BY <1>0, <1>15, InFlightIs
    <3> QED BY <3>1
  <2>4. rec0 \in InFlight
    BY <2>1, <2>2, InFlightIs
  <2>5. Cardinality(InFlight \ {rec0}) = Cardinality(InFlight) - 1
    BY <2>4, InFlightFinite, FS_RemoveElement
  <2> QED BY <1>0, <2>3, <2>5 DEF CountInv
<1> QED BY <1>10, <1>17, <1>18, <1>19, <1>20, <1>21

(* A promoted record's units move from the low to the high queue of their *)
(* thread, and stay apart from every other.                               *)
LEMMA PromoteInv == ASSUME SourceInv, NEW rec0 \in Ids \X Recs, Promote(rec0) PROVE SourceInv'
<1> USE DEF SourceInv
<1> DEFINE lows(w) == DOMAIN queue[w].lo
           mine(w) == {i \in lows(w) : queue[w].lo[i].recs = {rec0}}
           up(w)   == Picked(queue[w].lo, mine(w))
           rest(w) == Picked(queue[w].lo, lows(w) \ mine(w))
<1>1. /\ queue' = [w \in Workers |-> [hi |-> queue[w].hi \o up(w), lo |-> rest(w)]]
      /\ worker' = Woken(Waiters(0)) \/ worker' = worker
      /\ UNCHANGED <<kind, loMax, closed, fetch, dropped, bytes, counted, bad, flag, reported, inFlight>>
  BY DEF Promote
<1>2. ASSUME NEW w \in Workers
      PROVE  queue[w].hi \in Seq(Units) /\ queue[w].lo \in Seq(Units)
  BY DEF Shape, QueueType
<1>3. ASSUME NEW w \in Workers
      PROVE  /\ up(w) \in Seq(Units) /\ rest(w) \in Seq(Units)
             /\ \A k \in DOMAIN up(w) : \E i \in mine(w) : up(w)[k] = queue[w].lo[i]
             /\ \A k \in DOMAIN rest(w) : \E i \in lows(w) \ mine(w) : rest(w)[k] = queue[w].lo[i]
             /\ Distinct(up(w)) /\ Distinct(rest(w))
  <2>1. Distinct(queue[w].lo)
    <3>1. Distinct(Lane(w, TRUE)) /\ Lane(w, TRUE) = queue[w].lo
      BY DEF LanesApart, Lane
    <3> QED BY <3>1
  <2>2. mine(w) \in SUBSET lows(w) /\ lows(w) \ mine(w) \in SUBSET lows(w)
    OBVIOUS
  <2> HIDE DEF mine
  <2> QED BY <1>2, <2>1, <2>2, PickedUnits
<1> HIDE DEF up, rest
<1>4. ASSUME NEW w \in Workers
      PROVE  /\ Between(queue[w].hi, queue[w].lo) /\ Distinct(queue[w].hi) /\ Distinct(queue[w].lo)
             /\ Lane(w, TRUE) = queue[w].lo /\ Lane(w, FALSE) = queue[w].hi
             /\ Lane(w, TRUE)' = rest(w) /\ Lane(w, FALSE)' = queue[w].hi \o up(w)
  <2>1. Lane(w, TRUE) = queue[w].lo /\ Lane(w, FALSE) = queue[w].hi
    BY DEF Lane
  <2>2. Lane(w, TRUE)' = rest(w) /\ Lane(w, FALSE)' = queue[w].hi \o up(w)
    BY <1>1 DEF Lane
  <2>3. Between(Lane(w, FALSE), Lane(w, TRUE)) /\ Distinct(Lane(w, FALSE)) /\ Distinct(Lane(w, TRUE))
    BY DEF LanesApart
  <2> QED BY <2>1, <2>2, <2>3
<1>5. ASSUME NEW w \in Workers
      PROVE  /\ queue[w].hi \o up(w) \in Seq(Units) /\ Distinct(queue[w].hi \o up(w))
             /\ \A k \in DOMAIN (queue[w].hi \o up(w)) :
                  \/ \E i \in DOMAIN queue[w].hi : (queue[w].hi \o up(w))[k] = queue[w].hi[i]
                  \/ \E i \in mine(w) : (queue[w].hi \o up(w))[k] = queue[w].lo[i]
  <2>1. Between(queue[w].hi, up(w))
    <3> SUFFICES ASSUME NEW i \in DOMAIN queue[w].hi, NEW k \in DOMAIN up(w)
                 PROVE  Disjoint(queue[w].hi[i], up(w)[k])
      BY Zenon DEF Between
    <3>1. PICK j \in mine(w) : up(w)[k] = queue[w].lo[j]
      BY <1>3, Zenon
    <3>2. j \in lows(w)
      OBVIOUS
    <3> QED BY <1>4, <3>1, <3>2, Zenon DEF Between
  <2>2. \A k \in DOMAIN (queue[w].hi \o up(w)) :
          \/ \E i \in DOMAIN queue[w].hi : (queue[w].hi \o up(w))[k] = queue[w].hi[i]
          \/ \E i \in DOMAIN up(w) : (queue[w].hi \o up(w))[k] = up(w)[i]
    <3>1. PICK s \in Seq(Units), u \in Seq(Units) : s = queue[w].hi /\ u = up(w)
      BY <1>2, <1>3
    <3>2. \A k \in DOMAIN (s \o u) : \/ \E i \in DOMAIN s : (s \o u)[k] = s[i]
                                     \/ \E i \in DOMAIN u : (s \o u)[k] = u[i]
      BY JoinedUnits
    <3> QED BY <3>1, <3>2
  <2>3. queue[w].hi \o up(w) \in Seq(Units) /\ Distinct(queue[w].hi \o up(w))
    BY <1>2, <1>3, <1>4, <2>1, JoinedUnits, Zenon
  <2>4. \A k \in DOMAIN up(w) : \E i \in mine(w) : up(w)[k] = queue[w].lo[i]
    BY <1>3
  <2> HIDE DEF mine
  <2>5. ASSUME NEW k \in DOMAIN (queue[w].hi \o up(w))
        PROVE  \/ \E i \in DOMAIN queue[w].hi : (queue[w].hi \o up(w))[k] = queue[w].hi[i]
               \/ \E i \in mine(w) : (queue[w].hi \o up(w))[k] = queue[w].lo[i]
    <3>1. CASE \E i \in DOMAIN queue[w].hi : (queue[w].hi \o up(w))[k] = queue[w].hi[i]
      BY <3>1
    <3>2. CASE \E i \in DOMAIN up(w) : (queue[w].hi \o up(w))[k] = up(w)[i]
      <4>1. PICK j \in DOMAIN up(w) : (queue[w].hi \o up(w))[k] = up(w)[j]
        BY <3>2
      <4>2. PICK i \in mine(w) : up(w)[j] = queue[w].lo[i]
        BY <2>4, <4>1
      <4>3. (queue[w].hi \o up(w))[k] = queue[w].lo[i]
        BY <4>1, <4>2, Zenon
      <4> QED BY <4>3, Zenon
    <3> QED BY <2>2, <3>1, <3>2, Zenon
  <2> QED BY <2>3, <2>5, Zenon
<1>6. FromQueues
  <2> SUFFICES ASSUME NEW w \in Workers, NEW lo \in BOOLEAN, NEW i \in DOMAIN Lane(w, lo)'
               PROVE  \E from \in BOOLEAN : \E j \in DOMAIN Lane(w, from) : Lane(w, lo)'[i] = Lane(w, from)[j]
    BY Zenon DEF FromQueues
  <2>1. CASE lo = TRUE
    <3>0. Lane(w, lo)' = rest(w)
      BY <1>4, <2>1
    <3>1. \E j \in lows(w) : Lane(w, lo)'[i] = queue[w].lo[j]
      BY <1>3, <3>0
    <3>2. \E j \in DOMAIN Lane(w, TRUE) : Lane(w, lo)'[i] = Lane(w, TRUE)[j]
      BY <1>4, <3>1
    <3> QED BY <3>2
  <2>2. CASE lo = FALSE
    <3>0. Lane(w, lo)' = queue[w].hi \o up(w)
      BY <1>4, <2>2
    <3>1. \/ \E j \in DOMAIN queue[w].hi : Lane(w, lo)'[i] = queue[w].hi[j]
          \/ \E j \in lows(w) : Lane(w, lo)'[i] = queue[w].lo[j]
      <4>1. i \in DOMAIN (queue[w].hi \o up(w))
        BY <3>0, Zenon
      <4>2. \/ \E j \in DOMAIN queue[w].hi : (queue[w].hi \o up(w))[i] = queue[w].hi[j]
            \/ \E j \in mine(w) : (queue[w].hi \o up(w))[i] = queue[w].lo[j]
        BY <1>5, <4>1, Zenon
      <4>3. mine(w) \subseteq lows(w)
        OBVIOUS
      <4> HIDE DEF mine
      <4> QED BY <3>0, <4>2, <4>3, Zenon
    <3>2. \/ \E j \in DOMAIN Lane(w, FALSE) : Lane(w, lo)'[i] = Lane(w, FALSE)[j]
          \/ \E j \in DOMAIN Lane(w, TRUE) : Lane(w, lo)'[i] = Lane(w, TRUE)[j]
      BY <1>4, <3>1
    <3> QED BY <3>2
  <2> QED BY <2>1, <2>2
<1>7. LanesApart'
  <2>1. ASSUME NEW w \in Workers, NEW lo \in BOOLEAN PROVE Distinct(Lane(w, lo)')
    <3>1. CASE lo = TRUE
      BY <1>3, <1>4, <3>1
    <3>2. CASE lo = FALSE
      BY <1>4, <1>5, <3>2
    <3> QED BY <3>1, <3>2
  <2>2. ASSUME NEW w \in Workers, NEW x \in Workers, w # x, NEW lo \in BOOLEAN, NEW lx \in BOOLEAN
        PROVE  Between(Lane(w, lo)', Lane(x, lx)')
    <3> SUFFICES ASSUME NEW i \in DOMAIN Lane(w, lo)', NEW k \in DOMAIN Lane(x, lx)'
                 PROVE  Disjoint(Lane(w, lo)'[i], Lane(x, lx)'[k])
      BY Zenon DEF Between
    <3>1. PICK fw \in BOOLEAN : \E j \in DOMAIN Lane(w, fw) : Lane(w, lo)'[i] = Lane(w, fw)[j]
      BY <1>6, Zenon DEF FromQueues
    <3>2. PICK fx \in BOOLEAN : \E j \in DOMAIN Lane(x, fx) : Lane(x, lx)'[k] = Lane(x, fx)[j]
      BY <1>6, Zenon DEF FromQueues
    <3>3. Between(Lane(w, fw), Lane(x, fx))
      BY <2>2, Zenon DEF LanesApart
    <3> QED BY <3>1, <3>2, <3>3, Zenon DEF Between
  <2>3. ASSUME NEW w \in Workers
        PROVE  Between(queue[w].hi \o up(w), rest(w)) /\ Between(rest(w), queue[w].hi \o up(w))
    <3>1. ASSUME NEW i \in DOMAIN (queue[w].hi \o up(w)), NEW k \in DOMAIN rest(w)
          PROVE  Disjoint((queue[w].hi \o up(w))[i], rest(w)[k])
      <4>1. PICK l \in lows(w) : l \notin mine(w) /\ rest(w)[k] = queue[w].lo[l]
        BY <1>3
      <4>2. CASE \E j \in DOMAIN queue[w].hi : (queue[w].hi \o up(w))[i] = queue[w].hi[j]
        BY <1>4, <4>1, <4>2, Zenon DEF Between
      <4>3. CASE \E j \in mine(w) : (queue[w].hi \o up(w))[i] = queue[w].lo[j]
        <5>1. PICK j \in lows(w) : j \in mine(w) /\ (queue[w].hi \o up(w))[i] = queue[w].lo[j]
          BY <4>3
        <5>2. j # l
          BY <4>1, <5>1
        <5> QED BY <1>4, <4>1, <5>1, <5>2, Zenon DEF Distinct
      <4> QED BY <1>5, <4>2, <4>3
    <3>2. \A u, v : Disjoint(u, v) => Disjoint(v, u)
      BY DEF Disjoint
    <3> QED BY <3>1, <3>2, Zenon DEF Between
  <2>4. ASSUME NEW w \in Workers, NEW x \in Workers, NEW lo \in BOOLEAN, NEW lx \in BOOLEAN, w # x \/ lo # lx
        PROVE  Between(Lane(w, lo)', Lane(x, lx)')
    <3>1. CASE w # x
      BY <2>2, <3>1
    <3>2. CASE w = x /\ lo = TRUE /\ lx = FALSE
      BY <1>4, <2>3, <3>2
    <3>3. CASE w = x /\ lo = FALSE /\ lx = TRUE
      BY <1>4, <2>3, <3>3
    <3> QED BY <2>4, <3>1, <3>2, <3>3
  <2> QED BY <2>1, <2>4, Zenon DEF LanesApart
<1>8. worker' \in [Workers -> WorkerType] /\ SameTasks
  <2>1. CASE worker' = Woken(Waiters(0))
    BY <2>1, WokenThreads DEF Waiters
  <2>2. CASE worker' = worker
    BY <2>2 DEF SameTasks, Shape
  <2> QED BY <1>1, <2>1, <2>2
<1>9. Shape'
  <2>1. queue' \in [Workers -> QueueType]
    <3>1. \A w \in Workers : [hi |-> queue[w].hi \o up(w), lo |-> rest(w)] \in QueueType
      BY <1>3, <1>5 DEF QueueType
    <3> QED BY <1>1, <3>1
  <2> QED BY <1>1, <1>8, <2>1 DEF Shape, Workers, Units, AllRecs, Ids, Recs, Parts, WorkerType, FetchType, QueueType
<1>10. UnitsWhole' /\ WorkersInv'
  BY <1>1, <1>6, <1>8, WholeStay, WorkersStay
<1>11. FlagsInv' /\ CountInv'
  BY <1>1 DEF FlagsInv, RecordsOf, Ids, AllRecs, Recs, Parts, Asked, CountInv, InFlight
<1> QED BY <1>7, <1>9, <1>10, <1>11

RecordsUpTo(f, n) == {<<f, r>> : r \in 1 .. n}

(* A fetch of n records has n records. *)
LEMMA RecordCount ==
  ASSUME NEW f, NEW n \in Nat
  PROVE  IsFiniteSet(RecordsUpTo(f, n)) /\ Cardinality(RecordsUpTo(f, n)) = n
<1> DEFINE S == {<<f, r>> : r \in 1 .. n}
           F == [r \in 1 .. n |-> <<f, r>>]
<1>1. F \in [1 .. n -> S] /\ \A a, b \in 1 .. n : F[a] = F[b] => a = b
  OBVIOUS
<1>2. \A t \in S : \E r \in 1 .. n : F[r] = t
  OBVIOUS
<1>3. F \in Bijection(1 .. n, S)
  <2> HIDE DEF F, S
  <2> QED BY <1>1, <1>2, Fun_IsBij
<1>4. IsFiniteSet(1 .. n) /\ Cardinality(1 .. n) = n
  BY FS_Interval
<1>5. ExistsBijection(1 .. n, S)
  BY <1>3 DEF ExistsBijection
<1> HIDE DEF S
<1>6. RecordsUpTo(f, n) = S
  BY DEF S, RecordsUpTo
<1> QED BY <1>4, <1>5, <1>6, FS_Bijection

\* The units add(w) of fetch f, of n records, go behind what is queued with w.
NewUnits(f, n, low, add) ==
  /\ fetch[f] = 0 /\ fetch' \in [Ids -> FetchType]
  /\ fetch'[f] = n /\ \A g \in Ids \ {f} : fetch'[g] = fetch[g]
  /\ \A w \in Workers : Distinct(add[w])
  /\ \A w, x \in Workers : w # x => Between(add[w], add[x])
  /\ \A w \in Workers : \A i \in DOMAIN add[w] :
       GoodUnit(add[w][i])' /\ add[w][i].recs \subseteq RecordsOf(f)'
  /\ \A w \in Workers, lx \in BOOLEAN :
       Lane(w, lx)' = IF lx = low THEN Lane(w, lx) \o add[w] ELSE Lane(w, lx)
  /\ inFlight' = inFlight + n

(* New units of a fetch go behind what is queued.  They are of records nothing *)
(* was known of, so they share no piece with any unit there is.                *)
LEMMA UnitsAdded ==
  ASSUME SourceInv, NEW f \in Ids, NEW n \in Recs, NEW low \in BOOLEAN, NEW add \in [Workers -> Seq(Units)],
         NewUnits(f, n, low, add), queue' \in [Workers -> QueueType], worker' \in [Workers -> WorkerType], SameTasks,
         UNCHANGED <<kind, loMax, closed, dropped, bytes, counted, bad, flag, reported>>
  PROVE  SourceInv'
<1>0. /\ fetch[f] = 0 /\ fetch' \in [Ids -> FetchType]
      /\ fetch'[f] = n /\ \A g \in Ids \ {f} : fetch'[g] = fetch[g]
      /\ \A w \in Workers : Distinct(add[w])
      /\ \A w, x \in Workers : w # x => Between(add[w], add[x])
      /\ \A w \in Workers : \A i \in DOMAIN add[w] :
           GoodUnit(add[w][i])' /\ add[w][i].recs \subseteq RecordsOf(f)'
      /\ \A w \in Workers, lx \in BOOLEAN :
           Lane(w, lx)' = IF lx = low THEN Lane(w, lx) \o add[w] ELSE Lane(w, lx)
      /\ inFlight' = inFlight + n
  BY Zenon DEF NewUnits
<1> USE <1>0
<1> USE DEF SourceInv
<1> HIDE DEF SameTasks
<1>1. /\ \A g \in Ids \ {f} : RecordsOf(g)' = RecordsOf(g)
      /\ RecordsOf(f) = {} /\ RecordsOf(f)' = {<<f, r>> : r \in 1 .. n}
      /\ RecordsOf(f)' \subseteq AllRecs
      /\ \A g \in Ids : \A rec \in RecordsOf(g) : rec[1] = g
      /\ \A rec \in RecordsOf(f)' : rec[1] = f
  BY NvmeAssumption DEF RecordsOf, AllRecs, Recs
<1>2. \A g \in Ids : RecordsOf(g) \subseteq RecordsOf(g)'
  BY <1>1
<1>3. ASSUME NEW u \in Units, GoodUnit(u)
      PROVE  GoodUnit(u)' /\ \A rec \in u.recs : rec[1] # f
  <2>1. PICK g \in Ids : u.recs \subseteq RecordsOf(g)
    BY <1>3, Zenon DEF GoodUnit
  <2>2. u.recs # {} /\ IF Pool THEN u.part \in Parts /\ (\E rec \in AllRecs : u.recs = {rec}) ELSE u.part = 0
    BY <1>3, Zenon DEF GoodUnit
  <2>3. g # f
    BY <1>1, <2>1, <2>2
  <2>4. u.recs \subseteq RecordsOf(g)' /\ u.recs \cap dropped' = {}
    BY <1>1, <1>3, <2>1, <2>3 DEF GoodUnit
  <2>5. GoodUnit(u)'
    BY <2>2, <2>4, Zenon DEF GoodUnit, Pool, Ids, AllRecs, Recs, Parts
  <2> QED BY <1>1, <2>1, <2>3, <2>5
<1>4. ASSUME NEW u \in Units, GoodUnit(u), NEW v \in Units, v.recs \subseteq RecordsOf(f)'
      PROVE  Disjoint(u, v) /\ Disjoint(v, u)
  <2> SUFFICES ASSUME NEW b \in PiecesOf(u), b \in PiecesOf(v) PROVE FALSE
    BY DEF Disjoint
  <2>1. b[1] \in u.recs /\ b[1] \in v.recs
    BY UnitPieces
  <2> QED BY <1>1, <1>3, <1>4, <2>1
<1>5. ASSUME NEW rec \in AllRecs, NEW p, <<rec, p>> \in bytes PROVE rec[1] # f
  <2>1. PICK g \in Ids : rec \in RecordsOf(g)
    <3>1. \E g \in Ids : <<rec, p>>[1] \in RecordsOf(g)
      BY <1>5, Zenon DEF FlagsInv
    <3> QED BY <3>1
  <2> QED BY <1>1, <2>1
<1>6. ASSUME NEW v \in Units, v.recs \subseteq RecordsOf(f)' PROVE Unread(v)' /\ Uncounted(v)'
  <2> SUFFICES ASSUME NEW b \in PiecesOf(v), b \in bytes PROVE FALSE
    BY DEF Unread, Uncounted, FlagsInv, PiecesOf, Parts
  <2>1. b[1] \in v.recs /\ b \in AllRecs \X Parts
    BY UnitPieces
  <2>2. b = <<b[1], b[2]>> /\ b[1] \in AllRecs
    BY <2>1
  <2>3. b[1][1] # f
    BY <1>5, <2>2
  <2> QED BY <1>1, <1>6, <2>1, <2>3
<1>7. ASSUME NEW w \in Workers, NEW lx \in BOOLEAN
      PROVE  Lane(w, lx) \in Seq(Units) /\ add[w] \in Seq(Units)
  BY DEF Shape, QueueType, Lane
<1>8. ASSUME NEW w \in Workers, NEW lx \in BOOLEAN, NEW i \in DOMAIN Lane(w, lx)
      PROVE  Lane(w, lx)[i] \in Units /\ GoodUnit(Lane(w, lx)[i]) /\ Unread(Lane(w, lx)[i]) /\ Uncounted(Lane(w, lx)[i])
  BY <1>7 DEF UnitsWhole
<1>9. ASSUME NEW w \in Workers, NEW i \in DOMAIN add[w]
      PROVE  add[w][i] \in Units /\ GoodUnit(add[w][i])' /\ add[w][i].recs \subseteq RecordsOf(f)'
  BY <1>7
<1>10. ASSUME NEW w \in Workers, NEW x \in Workers, NEW lx \in BOOLEAN
       PROVE  Between(Lane(w, lx), add[x]) /\ Between(add[x], Lane(w, lx))
  BY <1>4, <1>8, <1>9 DEF Between
<1>11. ASSUME NEW w \in Workers, NEW lx \in BOOLEAN, NEW i \in DOMAIN Lane(w, lx)'
       PROVE  \/ \E j \in DOMAIN Lane(w, lx) : Lane(w, lx)'[i] = Lane(w, lx)[j]
              \/ lx = low /\ \E j \in DOMAIN add[w] : Lane(w, lx)'[i] = add[w][j]
  <2>1. CASE lx # low
    <3>1. Lane(w, lx)' = Lane(w, lx)
      BY <2>1
    <3>2. i \in DOMAIN Lane(w, lx) /\ Lane(w, lx)'[i] = Lane(w, lx)[i]
      BY <3>1, Zenon
    <3> QED BY <3>2, Zenon
  <2>2. CASE lx = low
    <3>0. Lane(w, lx)' = Lane(w, lx) \o add[w]
      BY <2>2
    <3>1. PICK s \in Seq(Units), u \in Seq(Units) : s = Lane(w, lx) /\ u = add[w]
      BY <1>7
    <3>2. \A k \in DOMAIN (s \o u) : \/ \E j \in DOMAIN s : (s \o u)[k] = s[j]
                                     \/ \E j \in DOMAIN u : (s \o u)[k] = u[j]
      BY JoinedUnits
    <3>3. Lane(w, lx)' = s \o u
      BY <3>0, <3>1
    <3>4. i \in DOMAIN (s \o u)
      BY <3>3, Zenon
    <3>5. \/ \E j \in DOMAIN s : (s \o u)[i] = s[j]
          \/ \E j \in DOMAIN u : (s \o u)[i] = u[j]
      BY <3>2, <3>4
    <3> QED BY <2>2, <3>1, <3>3, <3>5, Zenon
  <2> QED BY <2>1, <2>2
<1>12. LanesApart'
  <2>1. ASSUME NEW w \in Workers, NEW lx \in BOOLEAN PROVE Distinct(Lane(w, lx)')
    <3>0. Distinct(Lane(w, lx))
      BY DEF LanesApart
    <3>1. CASE lx # low
      <4>1. Lane(w, lx)' = Lane(w, lx)
        BY <3>1
      <4> QED BY <3>0, <4>1
    <3>2. CASE lx = low
      <4>0. Lane(w, lx)' = Lane(w, lx) \o add[w]
        BY <3>2
      <4>1. PICK s \in Seq(Units), u \in Seq(Units) : s = Lane(w, lx) /\ u = add[w]
        BY <1>7
      <4>2. Distinct(s) /\ Distinct(u) /\ Between(s, u)
        BY <1>10, <3>0, <4>1
      <4>3. Distinct(s \o u)
        BY <4>2, JoinedUnits
      <4> QED BY <4>0, <4>1, <4>3
    <3> QED BY <3>1, <3>2
  <2>2. ASSUME NEW w \in Workers, NEW x \in Workers, NEW lw \in BOOLEAN, NEW lx \in BOOLEAN, w # x \/ lw # lx,
               NEW i \in DOMAIN Lane(w, lw)', NEW k \in DOMAIN Lane(x, lx)'
        PROVE  Disjoint(Lane(w, lw)'[i], Lane(x, lx)'[k])
    <3>1. Between(Lane(w, lw), Lane(x, lx)) /\ Between(Lane(w, lw), add[x]) /\ Between(add[w], Lane(x, lx))
      BY <1>10, <2>2 DEF LanesApart
    <3>2. CASE (\E j \in DOMAIN Lane(w, lw) : Lane(w, lw)'[i] = Lane(w, lw)[j])
               /\ \E j \in DOMAIN Lane(x, lx) : Lane(x, lx)'[k] = Lane(x, lx)[j]
      BY <3>1, <3>2, Zenon DEF Between
    <3>3. CASE (\E j \in DOMAIN Lane(w, lw) : Lane(w, lw)'[i] = Lane(w, lw)[j])
               /\ \E j \in DOMAIN add[x] : Lane(x, lx)'[k] = add[x][j]
      BY <3>1, <3>3, Zenon DEF Between
    <3>4. CASE (\E j \in DOMAIN add[w] : Lane(w, lw)'[i] = add[w][j])
               /\ \E j \in DOMAIN Lane(x, lx) : Lane(x, lx)'[k] = Lane(x, lx)[j]
      BY <3>1, <3>4, Zenon DEF Between
    <3>5. CASE (lw = low /\ \E j \in DOMAIN add[w] : Lane(w, lw)'[i] = add[w][j])
               /\ lx = low /\ \E j \in DOMAIN add[x] : Lane(x, lx)'[k] = add[x][j]
      <4>1. w # x
        BY <2>2, <3>5
      <4>2. Between(add[w], add[x])
        BY <4>1
      <4> QED BY <3>5, <4>2, Zenon DEF Between
    <3> QED BY <1>11, <3>2, <3>3, <3>4, <3>5, Zenon
  <2>3. \A w, x \in Workers, lw, lx \in BOOLEAN : w # x \/ lw # lx => Between(Lane(w, lw)', Lane(x, lx)')
    BY <2>2, Zenon DEF Between
  <2> QED BY <2>1, <2>3, Zenon DEF LanesApart
<1>13. UnitsWhole'
  <2> SUFFICES ASSUME NEW w \in Workers, NEW lx \in BOOLEAN, NEW i \in DOMAIN Lane(w, lx)'
               PROVE  GoodUnit(Lane(w, lx)[i])' /\ Unread(Lane(w, lx)[i])' /\ Uncounted(Lane(w, lx)[i])'
    BY Zenon DEF UnitsWhole
  <2>0. PICK u : u = Lane(w, lx)'[i]
    OBVIOUS
  <2>1. CASE \E j \in DOMAIN Lane(w, lx) : u = Lane(w, lx)[j]
    <3>1. u \in Units /\ GoodUnit(u) /\ Unread(u) /\ Uncounted(u)
      BY <1>8, <2>1
    <3>2. GoodUnit(u)'
      BY <1>3, <3>1
    <3>3. Unread(u)' /\ Uncounted(u)'
      BY <3>1 DEF Unread, Uncounted, PiecesOf, Parts
    <3> QED BY <2>0, <3>2, <3>3, Zenon
  <2>2. CASE \E j \in DOMAIN add[w] : u = add[w][j]
    <3>1. PICK j \in DOMAIN add[w] : u = add[w][j]
      BY <2>2
    <3>2. u \in Units /\ u.recs \subseteq RecordsOf(f)'
      BY <1>9, <3>1
    <3>3. GoodUnit(u)'
      BY <1>9, <3>1, Zenon
    <3>4. Unread(u)' /\ Uncounted(u)'
      BY <1>6, <3>2
    <3> QED BY <2>0, <3>3, <3>4, Zenon
  <2> QED BY <1>11, <2>0, <2>1, <2>2, Zenon
<1>14. WorkersInv'
  <2>a. \A u, v : Disjoint(u, v)' <=> Disjoint(u, v)
    BY DEF Disjoint, PiecesOf, Parts
  <2>1. ASSUME NEW x \in Workers, worker'[x].at \in {"read", "finish", "report"} PROVE worker'[x] = worker[x]
    BY <2>1, Zenon DEF SameTasks
  <2>2. ASSUME NEW x \in Workers, Busy(x)' PROVE worker'[x] = worker[x] /\ Busy(x)
    BY <2>1, <2>2 DEF Busy
  <2>3. ASSUME NEW x \in Workers, Busy(x)'
        PROVE  /\ GoodUnit(worker[x].task)' /\ Uncounted(worker[x].task)'
               /\ \A y \in Workers, lo \in BOOLEAN : \A i \in DOMAIN Lane(y, lo)' :
                    Disjoint(worker[x].task, Lane(y, lo)[i])'
               /\ \A y \in Workers : Busy(y)' /\ y # x => Disjoint(worker[x].task, worker[y].task)'
               /\ worker'[x].at = "read" => Unread(worker[x].task)'
               /\ worker'[x].at = "finish" => PiecesOf(worker[x].task)' \subseteq bytes'
    <3>0. PICK u : u = worker[x].task
      OBVIOUS
    <3>1. worker'[x] = worker[x] /\ Busy(x) /\ worker'[x].task = u /\ u \in Units
      BY <2>2, <2>3, <3>0 DEF Shape, WorkerType
    <3>2. /\ GoodUnit(u) /\ Uncounted(u)
          /\ \A y \in Workers, lo \in BOOLEAN : \A i \in DOMAIN Lane(y, lo) : Disjoint(u, Lane(y, lo)[i])
          /\ \A y \in Workers : Busy(y) /\ y # x => Disjoint(u, worker[y].task)
          /\ worker[x].at = "read" => Unread(u)
          /\ worker[x].at = "finish" => PiecesOf(u) \subseteq bytes
      BY <3>0, <3>1, Zenon DEF WorkersInv
    <3>3. GoodUnit(u)'
      BY <1>3, <3>1, <3>2
    <3>4. Uncounted(u)' /\ (Unread(u) => Unread(u)') /\ PiecesOf(u)' = PiecesOf(u) /\ bytes' = bytes
      BY <3>2 DEF Unread, Uncounted, PiecesOf, Parts
    <3>5. ASSUME NEW y \in Workers, NEW lo \in BOOLEAN, NEW i \in DOMAIN Lane(y, lo)'
          PROVE  Disjoint(u, Lane(y, lo)'[i])
      <4>1. CASE \E j \in DOMAIN Lane(y, lo) : Lane(y, lo)'[i] = Lane(y, lo)[j]
        BY <3>2, <4>1, Zenon
      <4>2. CASE \E j \in DOMAIN add[y] : Lane(y, lo)'[i] = add[y][j]
        <5>1. PICK j \in DOMAIN add[y] : Lane(y, lo)'[i] = add[y][j]
          BY <4>2
        <5>2. Disjoint(u, add[y][j])
          BY <1>4, <1>9, <3>1, <3>2
        <5> QED BY <5>1, <5>2
      <4> QED BY <1>11, <4>1, <4>2, Zenon
    <3>6. \A y \in Workers : Busy(y)' /\ y # x => Disjoint(u, worker'[y].task)
      BY <2>2, <3>2, Zenon
    <3> QED BY <2>a, <3>1, <3>2, <3>3, <3>4, <3>5, <3>6, Zenon
  <2>4. ASSUME NEW x \in Workers, worker'[x].at = "report" PROVE worker'[x].task.recs \subseteq flag'
    <3>1. worker'[x] = worker[x]
      BY <2>1, <2>4
    <3> QED BY <2>4, <3>1 DEF WorkersInv
  <2> QED BY <2>3, <2>4, Zenon DEF WorkersInv
<1>15. FlagsInv'
  <2>1. counted' \subseteq bytes' /\ \A rec \in AllRecs : rec \in flag' <=> \A p \in Parts : <<rec, p>> \in counted'
    BY DEF FlagsInv
  <2>2. ASSUME NEW b \in bytes' PROVE b[1] \notin dropped' /\ \E g \in Ids : b[1] \in RecordsOf(g)'
    <3>1. b[1] \notin dropped /\ \E g \in Ids : b[1] \in RecordsOf(g)
      BY Zenon DEF FlagsInv
    <3> QED BY <1>2, <3>1
  <2>3. reported' \subseteq flag' \cup dropped'
    BY DEF FlagsInv
  <2>4. ASSUME NEW rec \in dropped' PROVE \E g \in Ids : rec \in RecordsOf(g)'
    <3>1. \E g \in Ids : rec \in RecordsOf(g)
      BY <2>4, Zenon DEF FlagsInv
    <3> QED BY <1>2, <3>1
  <2> QED BY <2>1, <2>2, <2>3, <2>4, Zenon DEF FlagsInv, Ids, AllRecs, Recs, Parts
<1>16. CountInv'
  <2>1. ASSUME NEW rec \in RecordsOf(f)' PROVE rec \notin flag /\ rec \notin dropped /\ rec \notin InFlight
    <3>1. rec \notin flag
      <4> SUFFICES ASSUME rec \in flag PROVE FALSE
        OBVIOUS
      <4>1. 1 \in Parts /\ rec \in AllRecs
        BY <1>1, NvmeAssumption DEF Parts
      <4>2. <<rec, 1>> \in bytes
        BY <4>1 DEF FlagsInv
      <4> QED BY <1>1, <1>5, <4>1, <4>2
    <3>2. rec \notin InFlight
      BY <1>1 DEF InFlight
    <3>3. rec \notin dropped
      <4> SUFFICES ASSUME rec \in dropped PROVE FALSE
        OBVIOUS
      <4>1. \E g \in Ids : rec \in RecordsOf(g)
        BY Zenon DEF FlagsInv
      <4> QED BY <1>1, <4>1
    <3> QED BY <3>1, <3>2, <3>3
  <2>2. InFlight' = InFlight \cup RecordsOf(f)'
    <3>1. ASSUME NEW rec
          PROVE  (\E g \in Ids : rec \in RecordsOf(g)')
                   <=> (\E g \in Ids : rec \in RecordsOf(g)) \/ rec \in RecordsOf(f)'
      BY <1>1
    <3>2. \A rec : rec \in InFlight' <=> rec \in InFlight \/ rec \in RecordsOf(f)'
      BY <2>1, <3>1, InFlightIs
    <3> QED BY <3>2
  <2>3. IsFiniteSet(RecordsOf(f)') /\ Cardinality(RecordsOf(f)') = n
    <3>1. n \in Nat
      BY NvmeAssumption DEF Recs
    <3>2. IsFiniteSet(RecordsUpTo(f, n)) /\ Cardinality(RecordsUpTo(f, n)) = n
      BY <3>1, RecordCount
    <3>3. RecordsOf(f)' = RecordsUpTo(f, n)
      BY <1>1 DEF RecordsUpTo
    <3> QED BY <3>2, <3>3
  <2>4. InFlight \cap RecordsOf(f)' = {}
    BY <2>1
  <2>5. Cardinality(InFlight \cup RecordsOf(f)') = Cardinality(InFlight) + n
    <3>1. IsFiniteSet(InFlight) /\ Cardinality({}) = 0
      BY InFlightFinite, FS_EmptySet
    <3>2. Cardinality(InFlight \cup RecordsOf(f)')
            = Cardinality(InFlight) + Cardinality(RecordsOf(f)') - Cardinality(InFlight \cap RecordsOf(f)')
      <4>1. PICK R : R = RecordsOf(f)'
        OBVIOUS
      <4>2. IsFiniteSet(R)
        BY <2>3, <4>1
      <4>3. Cardinality(InFlight \cup R) = Cardinality(InFlight) + Cardinality(R) - Cardinality(InFlight \cap R)
        BY <3>1, <4>2, FS_Union
      <4> QED BY <4>1, <4>3, Zenon
    <3>3. Cardinality(InFlight) \in Nat /\ n \in Nat
      BY <3>1, FS_CardinalityType, NvmeAssumption DEF Recs
    <3>4. Cardinality(InFlight \cap RecordsOf(f)') = 0
      BY <2>4, <3>1, Zenon
    <3> QED BY <2>3, <3>2, <3>3, <3>4
  <2> QED BY <2>2, <2>5 DEF CountInv
<1>17. Shape'
  <2>1. inFlight' \in Int
    BY NvmeAssumption DEF Shape, Recs
  <2> QED BY <2>1 DEF Shape, Workers, Units, AllRecs, Ids, Recs, Parts, WorkerType, FetchType, QueueType
<1> QED BY <1>12, <1>13, <1>14, <1>15, <1>16, <1>17

\* A unit is cut from the first n records of fetch f.
CutFrom(u, f, n) ==
  u \in Units /\ u.recs # {} /\ u.recs \subseteq RecordsUpTo(f, n)

(* The pool's pieces of a fetch: of one record each, and no piece twice. *)
LEMMA PoolUnits ==
  ASSUME NEW f \in Ids, NEW n \in Recs
  PROVE  /\ PoolPieces(f, n) \in Seq(Units) /\ Distinct(PoolPieces(f, n))
         /\ \A i \in DOMAIN PoolPieces(f, n) :
              LET u == PoolPieces(f, n)[i] IN
              CutFrom(u, f, n) /\ u.part \in Parts /\ (\E rec \in AllRecs : u.recs = {rec})
<1> DEFINE s == PoolPieces(f, n)
           q(i) == (i - 1) \div Pieces
           r(i) == (i - 1) % Pieces
<1>1. Pieces \in Nat \ {0} /\ n \in Nat \ {0} /\ n * Pieces \in Nat
  BY NvmeAssumption DEF Recs
<1>2. s = [i \in 1 .. n * Pieces |-> [recs |-> {<<f, q(i) + 1>>}, part |-> r(i) + 1]]
  BY DEF PoolPieces
<1>3. ASSUME NEW i \in 1 .. n * Pieces
      PROVE  q(i) + 1 \in 1 .. n /\ r(i) + 1 \in Parts
  <2>1. i - 1 \in Nat /\ i - 1 < n * Pieces
    BY <1>1
  <2>2. q(i) \in Nat /\ q(i) < n
    BY <1>1, <2>1
  <2>3. r(i) \in 0 .. Pieces - 1
    BY <1>1, <2>1
  <2> HIDE DEF q, r
  <2> QED BY <1>1, <2>2, <2>3 DEF Parts
<1>4. ASSUME NEW i \in 1 .. n * Pieces, NEW j \in 1 .. n * Pieces, q(i) + 1 = q(j) + 1, r(i) + 1 = r(j) + 1
      PROVE  i = j
  <2>1. i - 1 \in Nat /\ j - 1 \in Nat
    BY <1>1
  <2>2. q(i) \in Int /\ q(j) \in Int /\ r(i) \in Int /\ r(j) \in Int
    BY <1>1, <2>1
  <2>3. q(i) = q(j) /\ r(i) = r(j)
    <3> HIDE DEF q, r
    <3> QED BY <1>4, <2>2
  <2>4. i - 1 = j - 1
    BY <1>1, <2>1, <2>3
  <2> QED BY <1>1, <2>4
<1> HIDE DEF q, r
<1>5. ASSUME NEW i \in 1 .. n * Pieces
      PROVE  /\ s[i] = [recs |-> {<<f, q(i) + 1>>}, part |-> r(i) + 1]
             /\ CutFrom(s[i], f, n) /\ s[i].part \in Parts /\ <<f, q(i) + 1>> \in AllRecs
             /\ PiecesOf(s[i]) = {<< <<f, q(i) + 1>>, r(i) + 1>>}
             /\ s[i] \in Units /\ s[i].recs = {<<f, q(i) + 1>>}
  <2>1. s[i] = [recs |-> {<<f, q(i) + 1>>}, part |-> r(i) + 1]
    BY <1>2
  <2>2. <<f, q(i) + 1>> \in AllRecs /\ <<f, q(i) + 1>> \in RecordsUpTo(f, n)
    <3>1. q(i) + 1 \in 1 .. n
      BY <1>3
    <3>2. q(i) + 1 \in Recs
      BY <3>1, NvmeAssumption DEF Recs
    <3> QED BY <3>1, <3>2 DEF AllRecs, RecordsUpTo
  <2>3. r(i) + 1 \in Parts /\ r(i) + 1 # 0 /\ r(i) + 1 \in 0 .. Pieces
    BY <1>1, <1>3 DEF Parts
  <2>4. s[i].recs = {<<f, q(i) + 1>>} /\ s[i].part = r(i) + 1
    BY <2>1
  <2>5. s[i] \in Units
    BY <2>1, <2>2, <2>3 DEF Units
  <2>6. PiecesOf(s[i]) = {<< <<f, q(i) + 1>>, r(i) + 1>>}
    BY <2>3, <2>4 DEF PiecesOf
  <2> HIDE DEF s
  <2> QED BY <2>1, <2>2, <2>3, <2>4, <2>5, <2>6 DEF CutFrom
<1> HIDE DEF s
<1>6. s \in Seq(Units) /\ DOMAIN s = 1 .. n * Pieces
  <2>1. PICK N \in Nat : N = n * Pieces
    BY <1>1
  <2>2. DOMAIN s = 1 .. N /\ s = [i \in 1 .. N |-> s[i]]
    BY <1>2, <2>1
  <2>3. \A i \in 1 .. N : s[i] \in Units
    BY <1>5, <2>1
  <2> QED BY <2>1, <2>2, <2>3
<1>7. Distinct(s)
  <2> SUFFICES ASSUME NEW i \in DOMAIN s, NEW j \in DOMAIN s, i # j PROVE Disjoint(s[i], s[j])
    BY Zenon DEF Distinct
  <2>1. q(i) + 1 # q(j) + 1 \/ r(i) + 1 # r(j) + 1
    BY <1>4, <1>6
  <2>2. << <<f, q(i) + 1>>, r(i) + 1>> # << <<f, q(j) + 1>>, r(j) + 1>>
    BY <2>1
  <2>3. PICK a, b : a = << <<f, q(i) + 1>>, r(i) + 1>> /\ b = << <<f, q(j) + 1>>, r(j) + 1>>
    OBVIOUS
  <2>4. PiecesOf(s[i]) = {a} /\ PiecesOf(s[j]) = {b} /\ a # b
    BY <1>5, <1>6, <2>2, <2>3
  <2>5. {a} \cap {b} = {}
    BY <2>4
  <2> QED BY <2>4, <2>5, Zenon DEF Disjoint
<1>8. ASSUME NEW i \in DOMAIN s
      PROVE  CutFrom(s[i], f, n) /\ s[i].part \in Parts /\ (\E rec \in AllRecs : s[i].recs = {rec})
  BY <1>5, <1>6
<1> QED BY <1>6, <1>7, <1>8 DEF s

(* A reader's batch of a fetch, and that of another reader. *)
LEMMA BatchUnits ==
  ASSUME NEW f \in Ids, NEW n \in Recs
  PROVE  /\ Shares(n) \in Nat \ {0}
         /\ \A i \in 0 .. Shares(n) - 1 : CutFrom(Batch(f, n, i), f, n) /\ Batch(f, n, i).part = 0
         /\ \A i, j \in 0 .. Shares(n) - 1 : i # j => Disjoint(Batch(f, n, i), Batch(f, n, j))
<1>1. n \in Nat \ {0} /\ Threads \in Nat \ {0}
  BY NvmeAssumption DEF Recs
<1>2. Shares(n) \in Nat \ {0} /\ Shares(n) <= n
  BY <1>1 DEF Shares
<1> DEFINE mine(i) == {x \in 1 .. n : (x - 1) % Shares(n) = i}
<1>3. \A i : Batch(f, n, i) = [recs |-> {<<f, r>> : r \in mine(i)}, part |-> 0]
  BY DEF Batch
<1>4. \A i : mine(i) \subseteq 1 .. n
  OBVIOUS
<1>5. ASSUME NEW i \in 0 .. Shares(n) - 1 PROVE i + 1 \in mine(i)
  <2>1. i \in Nat /\ i < Shares(n) /\ i + 1 \in 1 .. n /\ (i + 1) - 1 = i
    BY <1>1, <1>2
  <2>2. i % Shares(n) = i
    BY <1>2, <2>1
  <2> QED BY <2>1, <2>2
<1>6. \A i, j : i # j => mine(i) \cap mine(j) = {}
  OBVIOUS
<1> HIDE DEF mine
<1>7. ASSUME NEW i \in 0 .. Shares(n) - 1
      PROVE  /\ CutFrom(Batch(f, n, i), f, n) /\ Batch(f, n, i).part = 0
             /\ Batch(f, n, i).recs = {<<f, r>> : r \in mine(i)} /\ Batch(f, n, i) \in Units
  <2>1. {<<f, r>> : r \in mine(i)} # {}
    BY <1>5
  <2>2. {<<f, r>> : r \in mine(i)} \in SUBSET AllRecs
    <3>1. 1 .. n \subseteq Recs
      BY NvmeAssumption DEF Recs
    <3>2. mine(i) \subseteq Recs
      BY <1>4, <3>1
    <3> QED BY <3>2 DEF AllRecs
  <2>3. {<<f, r>> : r \in mine(i)} \subseteq RecordsUpTo(f, n)
    BY <1>4 DEF RecordsUpTo
  <2>4. Batch(f, n, i) \in Units
    BY <1>3, <2>2, NvmeAssumption DEF Units
  <2> QED BY <1>3, <2>1, <2>3, <2>4 DEF CutFrom
<1>8. ASSUME NEW i \in 0 .. Shares(n) - 1, NEW j \in 0 .. Shares(n) - 1, i # j
      PROVE  Disjoint(Batch(f, n, i), Batch(f, n, j))
  <2> SUFFICES ASSUME NEW b \in PiecesOf(Batch(f, n, i)), b \in PiecesOf(Batch(f, n, j)) PROVE FALSE
    BY DEF Disjoint
  <2>1. b[1] \in Batch(f, n, i).recs /\ b[1] \in Batch(f, n, j).recs
    BY <1>7, UnitPieces
  <2>2. PICK r \in mine(i) : b[1] = <<f, r>>
    BY <1>7, <2>1
  <2>3. PICK x \in mine(j) : b[1] = <<f, x>>
    BY <1>7, <2>1
  <2>4. r = x
    BY <2>2, <2>3
  <2> QED BY <1>6, <1>8, <2>4
<1> QED BY <1>2, <1>7, <1>8

(* A fetch is dealt: to the queue of the pool, or to readers, one batch each. *)
LEMMA SubmitInv ==
  ASSUME SourceInv, NEW f \in Ids, NEW n \in Recs, NEW prefetch \in BOOLEAN, Submit(f, n, prefetch)
  PROVE  SourceInv'
<1> USE DEF SourceInv
<1>1. /\ fetch[f] = 0 /\ fetch' = [fetch EXCEPT ![f] = n]
      /\ inFlight' = inFlight + n
      /\ UNCHANGED <<kind, loMax, closed, dropped, bytes, counted, bad, flag, reported>>
  BY DEF Submit
<1>2. PICK low \in BOOLEAN : low = (prefetch /\ kind # "fifo")
  OBVIOUS
<1>3. PICK to : to = [w \in Workers |-> IF \E i \in 1 .. Shares(n) : Order[i] = w
                                          THEN CHOOSE i \in 1 .. Shares(n) : Order[i] = w
                                          ELSE 0]
  OBVIOUS
<1>4. \/ /\ Pool /\ queue' = [queue EXCEPT ![0] = Behind(queue[0], PoolPieces(f, n), low)]
         /\ worker' = Woken(Waiters(0))
      \/ /\ ~Pool
         /\ queue' = [w \in Workers |-> IF to[w] = 0 THEN queue[w]
                                        ELSE Behind(queue[w], <<Batch(f, n, to[w] - 1)>>, low)]
         /\ worker' = Woken({w \in Workers : to[w] # 0 /\ worker[w].at = "wait"})
  BY <1>2, <1>3 DEF Submit
<1>5. /\ fetch' \in [Ids -> FetchType] /\ fetch'[f] = n
      /\ \A g \in Ids \ {f} : fetch'[g] = fetch[g]
  BY <1>1, NvmeAssumption DEF Shape, FetchType, Recs
<1>6. worker' \in [Workers -> WorkerType] /\ SameTasks
  <2>1. CASE worker' = Woken(Waiters(0))
    BY <2>1, WokenThreads DEF Waiters
  <2>2. CASE worker' = Woken({w \in Workers : to[w] # 0 /\ worker[w].at = "wait"})
    BY <2>2, WokenThreads
  <2> QED BY <1>4, <2>1, <2>2
<1>7. RecordsOf(f)' = RecordsUpTo(f, n)
  BY <1>5 DEF RecordsOf, RecordsUpTo
<1>8. ASSUME NEW u, CutFrom(u, f, n),
             IF Pool THEN u.part \in Parts /\ (\E rec \in AllRecs : u.recs = {rec}) ELSE u.part = 0
      PROVE  GoodUnit(u)' /\ u.recs \subseteq RecordsOf(f)'
  <2>1. u.recs # {} /\ u.recs \subseteq RecordsOf(f)'
    BY <1>7, <1>8 DEF CutFrom
  <2>2. Pool' <=> Pool
    BY <1>1 DEF Pool
  <2>3. ASSUME NEW rec \in dropped, rec \in RecordsOf(f)' PROVE FALSE
    <3>1. PICK g \in Ids : rec \in RecordsOf(g)
      BY <2>3, Zenon DEF FlagsInv
    <3>2. rec[1] = g /\ rec[1] = f /\ RecordsOf(f) = {}
      BY <1>1, <1>7, <2>3, <3>1 DEF RecordsOf, RecordsUpTo
    <3> QED BY <3>1, <3>2
  <2>4. u.recs \cap dropped' = {}
    BY <1>1, <2>1, <2>3
  <2> QED BY <1>8, <2>1, <2>2, <2>4, Zenon DEF GoodUnit, Ids, AllRecs, Recs, Parts
<1>9. ASSUME NEW q \in QueueType, NEW ts \in Seq(Units)
      PROVE  /\ Behind(q, ts, low) \in QueueType
             /\ Behind(q, ts, low).lo = IF low THEN q.lo \o ts ELSE q.lo
             /\ Behind(q, ts, low).hi = IF low THEN q.hi ELSE q.hi \o ts
  <2>1. q.lo \in Seq(Units) /\ q.hi \in Seq(Units)
    BY DEF QueueType
  <2>2. q.lo \o ts \in Seq(Units) /\ q.hi \o ts \in Seq(Units)
    BY <2>1
  <2>3. CASE low = TRUE
    <3>1. Behind(q, ts, low) = [q EXCEPT !.lo = q.lo \o ts]
      BY <2>3 DEF Behind
    <3>2. Behind(q, ts, low) \in QueueType /\ Behind(q, ts, low).lo = q.lo \o ts /\ Behind(q, ts, low).hi = q.hi
      BY <2>2, <3>1 DEF QueueType
    <3> QED BY <2>3, <3>2
  <2>4. CASE low = FALSE
    <3>1. Behind(q, ts, low) = [q EXCEPT !.hi = q.hi \o ts]
      BY <2>4 DEF Behind
    <3>2. Behind(q, ts, low) \in QueueType /\ Behind(q, ts, low).lo = q.lo /\ Behind(q, ts, low).hi = q.hi \o ts
      BY <2>2, <3>1 DEF QueueType
    <3> QED BY <2>4, <3>2
  <2> QED BY <2>3, <2>4
<1>10. queue \in [Workers -> QueueType] /\ 0 \in Workers
  BY NvmeAssumption DEF Shape, Workers
<1>11. ASSUME NEW q \in QueueType PROVE q.lo \o <<>> = q.lo /\ q.hi \o <<>> = q.hi
  <2>1. q.lo \in Seq(Units) /\ q.hi \in Seq(Units)
    BY DEF QueueType
  <2> QED BY <2>1
<1>12. ASSUME NEW add \in [Workers -> Seq(Units)],
              \A w \in Workers : queue'[w] = Behind(queue[w], add[w], low) \/ (add[w] = <<>> /\ queue'[w] = queue[w]),
              NEW w \in Workers, NEW lx \in BOOLEAN
       PROVE  Lane(w, lx)' = IF lx = low THEN Lane(w, lx) \o add[w] ELSE Lane(w, lx)
  <2>1. queue[w] \in QueueType /\ add[w] \in Seq(Units)
    BY <1>10, <1>12
  <2>2. /\ queue'[w].lo = IF low THEN queue[w].lo \o add[w] ELSE queue[w].lo
        /\ queue'[w].hi = IF low THEN queue[w].hi ELSE queue[w].hi \o add[w]
    <3>1. CASE queue'[w] = Behind(queue[w], add[w], low)
      BY <1>9, <2>1, <3>1
    <3>2. CASE add[w] = <<>> /\ queue'[w] = queue[w]
      BY <1>11, <2>1, <3>2
    <3> QED BY <1>12, <3>1, <3>2
  <2>3. CASE lx = TRUE
    BY <2>2, <2>3 DEF Lane
  <2>4. CASE lx = FALSE
    BY <2>2, <2>4 DEF Lane
  <2> QED BY <2>3, <2>4
<1>13. Distinct(<<>>) /\ \A s : Between(<<>>, s) /\ Between(s, <<>>)
  BY DEF Distinct, Between
<1>14. CASE /\ Pool /\ queue' = [queue EXCEPT ![0] = Behind(queue[0], PoolPieces(f, n), low)]
  <2>0. PICK add : add = [w \in Workers |-> IF w = 0 THEN PoolPieces(f, n) ELSE <<>>]
    OBVIOUS
  <2>1. /\ PoolPieces(f, n) \in Seq(Units) /\ Distinct(PoolPieces(f, n))
        /\ \A i \in DOMAIN PoolPieces(f, n) :
             GoodUnit(PoolPieces(f, n)[i])' /\ PoolPieces(f, n)[i].recs \subseteq RecordsOf(f)'
    <3>1. \A i \in DOMAIN PoolPieces(f, n) :
              LET u == PoolPieces(f, n)[i] IN
              CutFrom(u, f, n) /\ u.part \in Parts /\ (\E rec \in AllRecs : u.recs = {rec})
      BY PoolUnits
    <3>2. ASSUME NEW i \in DOMAIN PoolPieces(f, n)
          PROVE GoodUnit(PoolPieces(f, n)[i])' /\ PoolPieces(f, n)[i].recs \subseteq RecordsOf(f)'
      <4>1. PICK u : u = PoolPieces(f, n)[i]
        OBVIOUS
      <4>2. GoodUnit(u)' /\ u.recs \subseteq RecordsOf(f)'
        BY <1>8, <1>14, <3>1, <4>1
      <4>3. PoolPieces(f, n)' = PoolPieces(f, n)
        BY DEF PoolPieces
      <4> QED BY <4>1, <4>2, <4>3, Zenon
    <3> QED BY <3>2, PoolUnits
  <2>2. add \in [Workers -> Seq(Units)]
    BY <2>0, <2>1
  <2>3. \A w \in Workers : add[w] = IF w = 0 THEN PoolPieces(f, n) ELSE <<>>
    BY <2>0
  <2>4. \A w \in Workers : queue'[w] = Behind(queue[w], add[w], low) \/ (add[w] = <<>> /\ queue'[w] = queue[w])
    BY <1>10, <1>14, <2>3
  <2>5. queue' \in [Workers -> QueueType]
    BY <1>9, <1>10, <1>14, <2>1
  <2>6. \A w \in Workers : Distinct(add[w])
    BY <1>13, <2>1, <2>3
  <2>7. \A w, x \in Workers : w # x => Between(add[w], add[x])
    BY <1>13, <2>3
  <2>8. \A w \in Workers : \A i \in DOMAIN add[w] : GoodUnit(add[w][i])' /\ add[w][i].recs \subseteq RecordsOf(f)'
    BY <2>1, <2>3
  <2>9. \A w \in Workers, lx \in BOOLEAN : Lane(w, lx)' = IF lx = low THEN Lane(w, lx) \o add[w] ELSE Lane(w, lx)
    BY <1>12, <2>2, <2>4
  <2>10. NewUnits(f, n, low, add)
    BY <1>1, <1>5, <2>6, <2>7, <2>8, <2>9, Zenon DEF NewUnits
  <2> HIDE DEF SourceInv
  <2> QED BY <1>1, <1>6, <2>2, <2>5, <2>10, UnitsAdded
<1>15. CASE /\ ~Pool
            /\ queue' = [w \in Workers |-> IF to[w] = 0 THEN queue[w]
                                        ELSE Behind(queue[w], <<Batch(f, n, to[w] - 1)>>, low)]
  <2>0. PICK add : add = [w \in Workers |-> IF to[w] = 0 THEN <<>> ELSE <<Batch(f, n, to[w] - 1)>>]
    OBVIOUS
  <2>1. ASSUME NEW w \in Workers, to[w] # 0
        PROVE  to[w] - 1 \in 0 .. Shares(n) - 1 /\ Order[to[w]] = w
    <3>1. \E i \in 1 .. Shares(n) : Order[i] = w
      BY <1>3, <2>1
    <3>2. to[w] = CHOOSE i \in 1 .. Shares(n) : Order[i] = w
      BY <1>3, <2>1
    <3>3. to[w] \in 1 .. Shares(n) /\ Order[to[w]] = w
      BY <3>1, <3>2
    <3>4. Shares(n) \in Nat
      BY BatchUnits
    <3> QED BY <3>3, <3>4
  <2>2. ASSUME NEW w \in Workers, NEW x \in Workers, to[w] # 0, to[x] # 0, w # x
        PROVE  to[w] - 1 # to[x] - 1
    <3>1. to[w] # to[x]
      BY <2>1, <2>2
    <3>2. Shares(n) \in Nat /\ to[w] - 1 \in Int /\ to[x] - 1 \in Int
      BY <2>1, <2>2, BatchUnits
    <3>3. to[w] \in 1 .. Shares(n) /\ to[x] \in 1 .. Shares(n)
      BY <1>3, <2>2
    <3> QED BY <3>1, <3>2, <3>3
  <2>3. ASSUME NEW w \in Workers
        PROVE  add[w] = IF to[w] = 0 THEN <<>> ELSE <<Batch(f, n, to[w] - 1)>>
    BY <2>0
  <2>4. ASSUME NEW w \in Workers, to[w] # 0
        PROVE  LET u == Batch(f, n, to[w] - 1) IN u \in Units /\ GoodUnit(u)' /\ u.recs \subseteq RecordsOf(f)'
    <3>1. PICK u : u = Batch(f, n, to[w] - 1)
      OBVIOUS
    <3>2. CutFrom(u, f, n) /\ u.part = 0
      BY <2>1, <2>4, <3>1, BatchUnits
    <3>3. GoodUnit(u)' /\ u.recs \subseteq RecordsOf(f)'
      BY <1>8, <1>15, <3>2
    <3>4. \A k : Batch(f, n, k)' = Batch(f, n, k)
      BY DEF Batch, Shares
    <3> QED BY <3>1, <3>2, <3>3, <3>4, Zenon DEF CutFrom
  <2>5. add \in [Workers -> Seq(Units)]
    <3>1. ASSUME NEW w \in Workers PROVE add[w] \in Seq(Units)
      <4>1. CASE to[w] = 0
        <5>1. add[w] = <<>>
          BY <2>3, <4>1
        <5> QED BY <5>1
      <4>2. CASE to[w] # 0
        <5>1. PICK u \in Units : u = Batch(f, n, to[w] - 1)
          BY <2>4, <4>2
        <5>2. add[w] = <<u>>
          BY <2>3, <4>2, <5>1
        <5> QED BY <5>2
      <4> QED BY <4>1, <4>2
    <3> QED BY <2>0, <3>1
  <2>6. \A w \in Workers : queue'[w] = Behind(queue[w], add[w], low) \/ (add[w] = <<>> /\ queue'[w] = queue[w])
    <3> SUFFICES ASSUME NEW w \in Workers
                 PROVE  queue'[w] = Behind(queue[w], add[w], low) \/ (add[w] = <<>> /\ queue'[w] = queue[w])
      OBVIOUS
    <3>1. queue'[w] = IF to[w] = 0 THEN queue[w] ELSE Behind(queue[w], <<Batch(f, n, to[w] - 1)>>, low)
      BY <1>15
    <3>2. CASE to[w] = 0
      BY <2>3, <3>1, <3>2
    <3>3. CASE to[w] # 0
      <4>1. add[w] = <<Batch(f, n, to[w] - 1)>>
        BY <2>3, <3>3
      <4>2. queue'[w] = Behind(queue[w], <<Batch(f, n, to[w] - 1)>>, low)
        BY <3>1, <3>3
      <4> QED BY <4>1, <4>2
    <3> QED BY <3>2, <3>3
  <2>7. queue' \in [Workers -> QueueType]
    <3>1. ASSUME NEW w \in Workers PROVE queue'[w] \in QueueType
      BY <1>9, <1>10, <2>5, <2>6
    <3>2. queue' = [w \in Workers |-> queue'[w]]
      BY <1>15
    <3> QED BY <3>1, <3>2
  <2>8. ASSUME NEW w \in Workers, NEW i \in DOMAIN add[w]
        PROVE  to[w] # 0 /\ add[w][i] = Batch(f, n, to[w] - 1) /\ i = 1
    <3>0. DOMAIN <<>> = {}
      OBVIOUS
    <3>1. to[w] # 0
      BY <2>3, <2>8, <3>0, Zenon
    <3>2. add[w] = <<Batch(f, n, to[w] - 1)>>
      BY <2>3, <3>1
    <3> QED BY <2>8, <3>1, <3>2
  <2>9. \A w \in Workers : Distinct(add[w])
    <3>1. \A w \in Workers : \A i, j \in DOMAIN add[w] : i = 1 /\ j = 1
      BY <2>8
    <3>2. \A w \in Workers : \A i, j \in DOMAIN add[w] : i # j => Disjoint(add[w][i], add[w][j])
      BY <3>1
    <3> QED BY <3>2, Zenon DEF Distinct
  <2>10. \A w, x \in Workers : w # x => Between(add[w], add[x])
    <3> SUFFICES ASSUME NEW w \in Workers, NEW x \in Workers, w # x,
                        NEW i \in DOMAIN add[w], NEW j \in DOMAIN add[x]
                 PROVE  Disjoint(add[w][i], add[x][j])
      BY Zenon DEF Between
    <3>1. to[w] # 0 /\ to[x] # 0 /\ add[w][i] = Batch(f, n, to[w] - 1) /\ add[x][j] = Batch(f, n, to[x] - 1)
      BY <2>8
    <3>2. Disjoint(Batch(f, n, to[w] - 1), Batch(f, n, to[x] - 1))
      BY <2>1, <2>2, <3>1, BatchUnits
    <3> QED BY <3>1, <3>2
  <2>11. \A w \in Workers : \A i \in DOMAIN add[w] : GoodUnit(add[w][i])' /\ add[w][i].recs \subseteq RecordsOf(f)'
    BY <2>4, <2>8
  <2>12. \A w \in Workers, lx \in BOOLEAN : Lane(w, lx)' = IF lx = low THEN Lane(w, lx) \o add[w] ELSE Lane(w, lx)
    BY <1>12, <2>5, <2>6
  <2>13. NewUnits(f, n, low, add)
    BY <1>1, <1>5, <2>9, <2>10, <2>11, <2>12, Zenon DEF NewUnits
  <2> HIDE DEF SourceInv
  <2> QED BY <1>1, <1>6, <2>5, <2>7, <2>13, UnitsAdded
<1> QED BY <1>4, <1>14, <1>15

(* Every action keeps the invariant; a step that changes nothing does too. *)
LEMMA StepInv == SourceInv /\ [Next]_vars => SourceInv'
<1> SUFFICES ASSUME SourceInv, [Next]_vars PROVE SourceInv'
  OBVIOUS
<1>1. CASE Next
  <2>1. ASSUME NEW f \in Ids, NEW n \in Recs, NEW prefetch \in BOOLEAN, Submit(f, n, prefetch) PROVE SourceInv'
    BY <2>1, SubmitInv
  <2>2. ASSUME NEW rec \in Ids \X Recs, Promote(rec) PROVE SourceInv'
    BY <2>2, PromoteInv
  <2>3. ASSUME NEW rec \in Ids \X Recs, Cancel(rec) PROVE SourceInv'
    BY <2>3, CancelInv
  <2>4. CASE Close
    BY <2>4, CloseInv
  <2>5. ASSUME NEW w \in Workers, WorkerStep(w) PROVE SourceInv'
    <3>1. CASE Take(w)
      BY <3>1, TakeInv
    <3>2. CASE Read(w)
      BY <3>2, ReadInv
    <3>3. CASE Finish(w)
      BY <3>3, FinishInv
    <3>4. CASE Report(w)
      BY <3>4, ReportInv
    <3> QED BY <2>5, <3>1, <3>2, <3>3, <3>4 DEF WorkerStep
  <2> QED BY <1>1, <2>1, <2>2, <2>3, <2>4, <2>5 DEF Next
<1>2. CASE UNCHANGED vars
  <2>1. UNCHANGED <<kind, loMax, queue, closed, worker, fetch, dropped, bytes, counted, bad, flag, reported, inFlight>>
    BY <1>2 DEF vars
  <2>2. Shape'
    BY <2>1 DEF SourceInv, Shape
  <2>a. LanesApart'
    BY <2>1 DEF SourceInv, LanesApart, Lane, Pool, Between, Distinct, Disjoint, PiecesOf
  <2>b. UnitsWhole'
    BY <2>1 DEF SourceInv, UnitsWhole, Lane, GoodUnit, Unread, Uncounted, RecordsOf, Pool, PiecesOf
  <2>3. WorkersInv'
    BY <2>1 DEF SourceInv, WorkersInv, Lane, Busy, GoodUnit, Unread, Uncounted, RecordsOf, Pool, Disjoint, PiecesOf
  <2>4. FlagsInv' /\ CountInv'
    BY <2>1 DEF SourceInv, FlagsInv, CountInv, InFlight, RecordsOf, Asked
  <2> QED BY <2>2, <2>a, <2>b, <2>3, <2>4 DEF SourceInv
<1> QED BY <1>1, <1>2

(* At every moment no piece is in two places, and a flag is up exactly when    *)
(* every piece of its record was counted.                                      *)
THEOREM Invariance == Spec => []SourceInv
<1>1. Init => SourceInv
  BY InitInv
<1>2. SourceInv /\ [Next]_vars => SourceInv'
  BY StepInv
<1> QED BY <1>1, <1>2, PTL DEF Spec

-----------------------------------------------------------------------------
(* What the stream and the caller rely on.                                   *)

(* A raised landed flag means that every read of the record's pieces ended:    *)
(* raise_landed comes after the last piece (nvme_source.rs).                   *)
THEOREM FlagsFollowBytes == Spec => []FlagAfterBytes
<1>1. SourceInv => FlagAfterBytes
  BY DEF SourceInv, Shape, FlagsInv, FlagAfterBytes
<1> QED BY <1>1, Invariance, PTL

(* A queued unit sits at a position of a lane. *)
LEMMA QueuedLane ==
  ASSUME SourceInv, NEW t \in Queued
  PROVE  \E w \in Workers, lo \in BOOLEAN : \E i \in DOMAIN Lane(w, lo) : t = Lane(w, lo)[i]
<1>1. PICK w \in Workers : t \in Range2(queue[w].hi) \cup Range2(queue[w].lo)
  BY DEF Queued
<1>2. CASE t \in Range2(queue[w].hi)
  <2>1. Lane(w, FALSE) = queue[w].hi /\ \E i \in DOMAIN queue[w].hi : t = queue[w].hi[i]
    BY <1>2 DEF Lane, Range2
  <2> QED BY <2>1, Zenon
<1>3. CASE t \in Range2(queue[w].lo)
  <2>1. Lane(w, TRUE) = queue[w].lo /\ \E i \in DOMAIN queue[w].lo : t = queue[w].lo[i]
    BY <1>3 DEF Lane, Range2
  <2> QED BY <2>1, Zenon
<1> QED BY <1>1, <1>2, <1>3

(* A unit on its way, queued or being read, is whole and uncounted. *)
LEMMA OnItsWay ==
  ASSUME SourceInv, NEW t \in Queued \cup Reading
  PROVE  t \in Units /\ GoodUnit(t) /\ Uncounted(t)
<1>1. CASE t \in Queued
  <2>1. PICK w \in Workers, lo \in BOOLEAN : \E i \in DOMAIN Lane(w, lo) : t = Lane(w, lo)[i]
    BY <1>1, QueuedLane
  <2>2. PICK i \in DOMAIN Lane(w, lo) : t = Lane(w, lo)[i]
    BY <2>1
  <2>3. GoodUnit(t) /\ Uncounted(t)
    BY <2>2, Zenon DEF SourceInv, UnitsWhole
  <2>4. Lane(w, lo) \in Seq(Units)
    BY DEF SourceInv, Shape, QueueType, Lane
  <2> QED BY <2>2, <2>3, <2>4
<1>2. CASE t \in Reading
  <2>1. PICK w \in Workers : worker[w].at = "read" /\ t = worker[w].task
    BY <1>2 DEF Reading
  <2>2. Busy(w) /\ worker[w] \in WorkerType
    BY <2>1 DEF Busy, SourceInv, Shape
  <2> QED BY <2>1, <2>2 DEF SourceInv, WorkersInv, WorkerType
<1> QED BY <1>1, <1>2

(* What a caller may rely on when it waits on a ticket and uses its buffers    *)
(* again: Ticket::wait, and cancel's bookkeeping of a fetch taken back.        *)
THEOREM TicketsCorrect == Spec => []TicketsSound
<1>1. ASSUME SourceInv PROVE TicketsSound
  <2>1. TypeOK
    <3>1. \A w \in Workers : worker[w].at \in {"idle", "read", "finish", "report", "wait", "gone"}
      BY <1>1 DEF SourceInv, Shape, WorkerType
    <3>2. \A t \in Queued \cup Reading : t.recs # {} /\ t.part \in 0 .. Pieces
      BY <1>1, OnItsWay DEF GoodUnit, Units
    <3>3. kind \in Kinds /\ loMax \in 1 .. Threads
      BY <1>1 DEF SourceInv, Shape
    <3>4. inFlight = Cardinality((UNION {RecordsOf(f) : f \in Ids}) \ (flag \cup dropped))
      BY <1>1 DEF SourceInv, CountInv, InFlight
    <3> QED BY <3>1, <3>2, <3>3, <3>4 DEF TypeOK
  <2>2. ASSUME NEW f \in Ids, Done(f)
        PROVE  /\ \A t \in Queued \cup Reading : t.recs \cap RecordsOf(f) = {}
               /\ RecordsOf(f) \ dropped \subseteq flag
               /\ \A rec \in RecordsOf(f) \cap dropped : rec \notin flag /\ \A b \in bytes : b[1] # rec
    <3>1. RecordsOf(f) \subseteq AllRecs
      BY <1>1, NvmeAssumption DEF SourceInv, Shape, FetchType, RecordsOf, AllRecs, Recs
    <3>2. RecordsOf(f) \ dropped \subseteq flag
      BY <1>1, <2>2 DEF SourceInv, FlagsInv, Done
    <3>3. \A rec \in dropped, b \in bytes : b[1] # rec
      BY <1>1 DEF SourceInv, FlagsInv
    <3>4. 1 \in Parts
      BY NvmeAssumption DEF Parts
    <3>5. \A rec \in RecordsOf(f) \cap dropped : rec \notin flag
      <4> SUFFICES ASSUME NEW rec \in RecordsOf(f), rec \in dropped, rec \in flag PROVE FALSE
        OBVIOUS
      <4>1. <<rec, 1>> \in bytes
        BY <1>1, <3>1, <3>4 DEF SourceInv, FlagsInv
      <4> QED BY <3>3, <4>1
    <3>7. ASSUME NEW t \in Queued \cup Reading, NEW rec \in t.recs, rec \in RecordsOf(f) PROVE FALSE
      <4>1. t \in Units /\ GoodUnit(t) /\ Uncounted(t)
        BY <1>1, OnItsWay
      <4>2. rec \notin dropped
        BY <3>7, <4>1 DEF GoodUnit
      <4>3. rec \in flag
        BY <3>2, <3>7, <4>2
      <4>4. PICK p \in Parts : <<rec, p>> \in PiecesOf(t)
        BY <3>4, <3>7, <4>1 DEF PiecesOf, Units, Parts
      <4>5. <<rec, p>> \in counted
        BY <1>1, <3>1, <3>7, <4>3, <4>4 DEF SourceInv, FlagsInv
      <4> QED BY <4>1, <4>4, <4>5 DEF Uncounted
    <3> QED BY <3>2, <3>3, <3>5, <3>7
  <2> QED BY <2>1, <2>2 DEF TicketsSound, TicketGivesBack
<1> QED BY <1>1, Invariance, PTL

=============================================================================
