---------------------------- MODULE Lend_proofs ----------------------------
(* The parking of engine requests protects the lent memory, for every set of *)
(* regions, every ttl and every number of requests.                          *)
EXTENDS Lend, TLAPS, NaturalsInduction, WellFoundedInduction

(* What makes EngineMemoryReady inductive: memory is away only while the     *)
(* gate (a record, so that an EXCEPT keeps its other fields) is lent, and no *)
(* engine request is inside the loop while it is.                            *)
LendInv ==
  /\ DOMAIN gate = {"lent", "ttl", "retry"}
  /\ ~gate.lent => mapped = Regions /\ exact = Weights
  /\ loop = "serve" => ~gate.lent
  /\ running # 0 => loop = "serve"

(* The invariant holds at boot: nothing is lent. *)
LEMMA LendInvInit == Init => LendInv
  BY DEF Init, LendInv, Idle

(* A return leaves memory away only behind a lent gate. *)
LEMMA ReturnKeepsGate ==
  ASSUME LendInv, VramReturn
  PROVE  /\ DOMAIN gate' = {"lent", "ttl", "retry"}
         /\ ~gate'.lent => mapped' = Regions /\ exact' = Weights
<1>1. CASE ~gate.lent /\ UNCHANGED <<gate, memory>>
  BY <1>1 DEF LendInv, memory
<1>2. CASE gate.lent /\ Remapped
  BY <1>2 DEF Remapped, Idle
<1>3. CASE gate.lent /\ Refused
  <2>1. gate' = [gate EXCEPT !.retry = Retry]
    BY <1>3 DEF Refused
  <2>2. DOMAIN gate' = DOMAIN gate /\ gate'.lent = gate.lent
    BY <2>1 DEF LendInv
  <2>3. QED
    BY <1>3, <2>2 DEF LendInv
<1>4. QED
  BY <1>1, <1>2, <1>3 DEF VramReturn

(* Every step of the loop, of the clients and of the clock preserves it. *)
LEMMA LendInvStep ==
  ASSUME LendInv, [Next]_vars
  PROVE  LendInv'
<1> USE DEF LendInv
<1>1. CASE ReturnDue
  <2>1. /\ DOMAIN gate' = {"lent", "ttl", "retry"}
        /\ ~gate'.lent => mapped' = Regions /\ exact' = Weights
    BY <1>1, ReturnKeepsGate DEF ReturnDue
  <2>2. QED
    BY <1>1, <2>1 DEF ReturnDue
<1>2. CASE NothingDue
  BY <1>2 DEF NothingDue, memory
<1>3. CASE WaitOver
  BY <1>3 DEF WaitOver, memory
<1>4. CASE ServeDone
  BY <1>4 DEF ServeDone, memory
<1>5. CASE DrainParked
  BY <1>5 DEF DrainParked, AdmitsEngine, memory
<1>6. CASE AcceptEngine
  BY <1>6 DEF AcceptEngine, AdmitsEngine, memory
<1>7. CASE AcceptOther
  <2>1. /\ DOMAIN gate' = {"lent", "ttl", "retry"}
        /\ ~gate'.lent => mapped' = Regions /\ exact' = Weights
    <3>1. CASE \E target \in Targets, ttl \in Ttls : VramLend(target, ttl)
      BY <3>1 DEF VramLend, memory
    <3>2. CASE VramReturn
      BY <3>2, ReturnKeepsGate
    <3>3. CASE UNCHANGED <<gate, memory>>
      BY <3>3 DEF memory
    <3>4. QED
      BY <1>7, <3>1, <3>2, <3>3 DEF AcceptOther
  <2>2. QED
    BY <1>7, <2>1 DEF AcceptOther
<1>8. CASE Shutdown
  BY <1>8 DEF Shutdown, memory
<1>9. CASE Second
  <2>1. PICK ttl, retry : gate' = [gate EXCEPT !.ttl = ttl, !.retry = retry]
    BY <1>9, Zenon DEF Second
  <2>2. DOMAIN gate' = DOMAIN gate /\ gate'.lent = gate.lent
    BY <2>1
  <2>3. QED
    BY <1>9, <2>2 DEF Second, memory
<1>10. CASE OthersHold
  BY <1>10 DEF OthersHold, memory
<1>11. CASE UNCHANGED vars
  BY <1>11 DEF vars
<1>12. QED
  BY <1>1, <1>2, <1>3, <1>4, <1>5, <1>6, <1>7, <1>8, <1>9, <1>10, <1>11
  DEF Next, Serve

(* An engine request only ever runs on mapped memory and uploaded weights:   *)
(* the SAFETY argument of vram_lend in bin/serve.rs.                         *)
THEOREM MemoryReady == Spec => []EngineMemoryReady
<1>1. LendInv => EngineMemoryReady
  BY DEF LendInv, EngineMemoryReady
<1>2. LendInv /\ [Next]_vars => LendInv'
  BY LendInvStep
<1>3. QED
  BY LendInvInit, <1>1, <1>2, PTL DEF Spec

----------------------------------------------------------------------------
(* Some region is lent whenever a target is asked for. *)

(* A set of numbers has a least one. *)
LEMMA LeastOf ==
  ASSUME NEW S \in SUBSET Nat, S # {}
  PROVE  \E x \in S : \A y \in S : x <= y
<1> DEFINE R == {p \in Nat \X Nat : p[1] < p[2]}
<1>1. IsWellFoundedOn(R, Nat)
  BY NatLessThanWellFounded DEF OpToRel
<1>2. PICK x \in S : \A y \in S : <<y, x>> \notin R
  <2> HIDE DEF R
  <2> QED BY <1>1, WFMin
<1>3. ASSUME NEW y \in S PROVE x <= y
  <2>1. <<y, x>> \in Nat \X Nat /\ <<y, x>>[1] = y /\ <<y, x>>[2] = x
    OBVIOUS
  <2>2. ~(y < x)
    BY <1>2, <2>1, Zenon DEF R
  <2>3. QED
    BY <2>2
<1>4. QED
  BY <1>3

(* No bytes are in no regions. *)
LEMMA BytesOfNone == Bytes({}) = 0
<1> DEFINE Fold(f, s) == IF s = {} THEN 0
                         ELSE LET x == CHOOSE x \in s : TRUE IN Sizes[x] + f[s \ {x}]
           zero == [s \in SUBSET {} |-> 0]
           fold == CHOOSE f : f = [s \in SUBSET {} |-> Fold(f, s)]
<1>1. zero = [s \in SUBSET {} |-> Fold(zero, s)]
  <2>1. \A s \in SUBSET {} : s = {}
    OBVIOUS
  <2>2. \A s \in SUBSET {} : Fold(zero, s) = 0
    BY <2>1
  <2>3. QED
    BY <2>2, Zenon
<1>2. fold = [s \in SUBSET {} |-> Fold(fold, s)]
  <2> HIDE DEF zero, Fold
  <2>1. \E f : f = [s \in SUBSET {} |-> Fold(f, s)]
    BY <1>1
  <2>2. QED
    BY <2>1, Zenon
<1>3. fold[{}] = 0
  <2> HIDE DEF fold
  <2>1. {} \in SUBSET {}
    OBVIOUS
  <2>2. fold[{}] = Fold(fold, {})
    BY <1>2, <2>1, Zenon
  <2>3. QED
    BY <2>2
<1>4. Bytes({}) = fold[{}]
  BY Zenon DEF Bytes, MapThenSumSet, MapThenFoldSet
<1>5. QED
  BY <1>3, <1>4

(* Among the first n regions one comes first in the order of release. *)
LEMMA LargestOfFirst ==
  ASSUME NEW n \in Regions
  PROVE  \E r \in 1..n : \A s \in 1..n : ~LargerFirst(s, r)
<1>0. Regions = 1..Len(Sizes) /\ Len(Sizes) \in Nat /\ \A r \in Regions : Sizes[r] \in Nat
  BY LendAssumption DEF Regions
<1> DEFINE Has(m) == \E r \in 1..m : \A s \in 1..m : ~LargerFirst(s, r)
           bad == {m \in Regions : ~Has(m)}
<1>1. SUFFICES bad = {}
  OBVIOUS
<1>2. SUFFICES ASSUME bad # {}
               PROVE  FALSE
  OBVIOUS
<1>3. PICK m \in bad : \A k \in bad : m <= k
  <2>1. bad \in SUBSET Nat
    BY <1>0
  <2>2. QED
    BY <1>2, <2>1, LeastOf
<1>4. m \in 1..Len(Sizes) /\ ~Has(m)
  BY <1>0
<1>5. CASE m = 1
  <2>1. Sizes[1] \in Nat /\ 1..m = {1}
    BY <1>0, <1>4, <1>5
  <2>2. ~LargerFirst(1, 1)
    BY <2>1 DEF LargerFirst
  <2>3. Has(m)
    BY <2>1, <2>2
  <2>4. QED
    BY <1>4, <2>3
<1>6. CASE m # 1
  <2>0. m - 1 \in Regions /\ ~(m <= m - 1)
    BY <1>0, <1>4, <1>6
  <2>a. m - 1 \notin bad
    <3> HIDE DEF bad
    <3> QED BY <1>3, <2>0
  <2>1. m - 1 \in Regions /\ Has(m - 1)
    BY <2>0, <2>a
  <2>2. PICK r \in 1..(m - 1) : \A s \in 1..(m - 1) : ~LargerFirst(s, r)
    BY <2>1
  <2>3. r \in Regions /\ m \in Regions /\ r < m
    BY <1>0, <1>4, <2>2
  <2>4. CASE Sizes[m] > Sizes[r]
    <3>1. ASSUME NEW s \in 1..m
          PROVE  ~LargerFirst(s, m)
      <4>0. s \in 1..Len(Sizes)
        BY <1>0, <1>4
      <4>1. s \in Regions /\ Sizes[s] \in Nat /\ Sizes[m] \in Nat /\ Sizes[r] \in Nat
        BY <1>0, <2>3, <4>0
      <4>2. CASE s = m
        BY <4>1, <4>2 DEF LargerFirst
      <4>3. CASE s # m
        <5>1. ~LargerFirst(s, r)
          BY <1>4, <2>2, <4>3
        <5>2. QED
          BY <2>4, <4>1, <5>1 DEF LargerFirst
      <4>4. QED
        BY <4>2, <4>3
    <3>2. QED
      BY <1>4, <3>1
  <2>5. CASE ~(Sizes[m] > Sizes[r])
    <3>1. ~LargerFirst(m, r)
      BY <1>0, <2>3, <2>5 DEF LargerFirst
    <3>2. \A s \in 1..m : s = m \/ s \in 1..(m - 1)
      BY <1>0, <1>4
    <3>3. r \in 1..m
      BY <1>4, <2>2
    <3>4. QED
      BY <1>4, <2>2, <3>1, <3>2, <3>3
  <2>6. QED
    BY <2>4, <2>5
<1>7. QED
  BY <1>5, <1>6

(* With everything mapped, a lend of any target takes memory away. *)
LEMMA LendTakes ==
  ASSUME mapped = Regions, NEW target \in Targets
  PROVE  mapped \ Released(target) # Regions
<1>1. Len(Sizes) \in Regions /\ Regions = 1..Len(Sizes)
  BY LendAssumption DEF Regions
<1>2. PICK r \in Regions : \A s \in Regions : ~LargerFirst(s, r)
  BY <1>1, LargestOfFirst
<1>3. {s \in mapped : LargerFirst(s, r)} = {}
  BY <1>2
<1>4. target > 0
  BY LendAssumption
<1>5. r \in Released(target)
  BY <1>3, <1>4, BytesOfNone DEF Released
<1>6. QED
  BY <1>5

----------------------------------------------------------------------------
(* The gate stands for the memory. *)

(* The type of each variable. *)
GateOK == gate \in [lent : BOOLEAN, ttl : TimesLeft, retry : 0..NoRetry]
MemoryOK == mapped \subseteq Regions /\ exact \subseteq Weights
QueueOK ==
  /\ arrived \in 0..MaxRequests /\ running \in 0..arrived /\ parked \in Seq(1..arrived)

(* While the memory is all there no request waits, but in the loop's drain. *)
WaitsForMemory == loop \in {"top", "accept"} /\ ~gate.lent => parked = <<>>

(* Requests wait in the order they came. *)
InOrder == \A i, j \in 1..Len(parked) : i < j => parked[i] < parked[j]

GateInv ==
  /\ LendInv
  /\ loop \in {"top", "accept", "drain", "serve", "stopped"} /\ held \in BOOLEAN
  /\ GateOK /\ MemoryOK /\ QueueOK
  /\ GateKnowsMemory
  /\ WaitsForMemory /\ InOrder

(* At boot nothing is lent and nobody waits. *)
LEMMA GateInvInit == Init => GateInv
<1> SUFFICES ASSUME Init PROVE GateInv
  OBVIOUS
<1>1. GateOK
  BY DEF Init, Idle, GateOK, TimesLeft, NoRetry, Retry
<1>2. MemoryOK /\ QueueOK
  BY LendAssumption DEF Init, MemoryOK, QueueOK
<1>3. GateKnowsMemory /\ WaitsForMemory /\ InOrder
  BY DEF Init, Idle, GateKnowsMemory, WaitsForMemory, InOrder
<1>4. QED
  BY <1>1, <1>2, <1>3, LendInvInit DEF Init, GateInv

(* The clock counts down and stops at zero. *)
LEMMA CountsDown ==
  ASSUME NEW n \in Nat
  PROVE  Max({n - 1, 0}) = IF n = 0 THEN 0 ELSE n - 1
  BY DEF Max

(* The gate, and what it says of the memory, after a return. *)
LEMMA ReturnKeepsBooks ==
  ASSUME GateInv, VramReturn
  PROVE  GateOK' /\ MemoryOK' /\ GateKnowsMemory'
<1> USE DEF GateInv, GateOK, MemoryOK, GateKnowsMemory
<1>1. CASE ~gate.lent /\ UNCHANGED <<gate, memory>>
  BY <1>1 DEF memory
<1>2. CASE gate.lent /\ Remapped
  BY <1>2, LendAssumption DEF Remapped, Idle, TimesLeft, NoRetry, Retry
<1>3. CASE gate.lent /\ Refused
  <2>1. gate' = [lent |-> TRUE, ttl |-> gate.ttl, retry |-> Retry]
    BY <1>3 DEF Refused
  <2>2. PICK first \in Regions \ mapped :
               mapped' = mapped \cup {r \in Regions \ mapped : r < first}
    BY <1>3 DEF Refused
  <2>3. ~(first < first)
    BY LendAssumption DEF Regions
  <2>4. first \notin mapped' /\ mapped' \subseteq Regions /\ exact' = exact
    BY <1>3, <2>2, <2>3 DEF Refused
  <2>5. GateOK'
    BY <2>1 DEF NoRetry, Retry
  <2>6. QED
    BY <2>1, <2>4, <2>5
<1>4. QED
  BY <1>1, <1>2, <1>3 DEF VramReturn

(* The same after a lend: something is away, and the gate says so. *)
LEMMA LendKeepsBooks ==
  ASSUME GateInv, NEW target \in Targets, NEW ttl \in Ttls, VramLend(target, ttl)
  PROVE  GateOK' /\ MemoryOK' /\ GateKnowsMemory'
<1> USE DEF GateInv, GateOK, MemoryOK, GateKnowsMemory
<1>1. CASE gate.lent /\ UNCHANGED <<gate, memory>>
  BY <1>1 DEF memory
<1>2. CASE ~gate.lent /\ ~(gate.lent /\ UNCHANGED <<gate, memory>>)
  <2>1. /\ mapped' = mapped \ Released(target) /\ exact' = exact \ Released(target)
        /\ gate' = [lent |-> TRUE, ttl |-> ttl, retry |-> NoRetry]
    BY <1>2 DEF VramLend
  <2>2. mapped' # Regions
    BY <1>2, <2>1, LendTakes
  <2>3. ttl \in TimesLeft /\ NoRetry \in 0..NoRetry
    <3>1. ttl \in 0..ttl
      BY LendAssumption
    <3>2. QED
      BY <3>1 DEF TimesLeft, NoRetry, Retry
  <2>4. QED
    BY <2>1, <2>2, <2>3
<1>3. QED
  BY <1>1, <1>2 DEF VramLend

(* A second passes and the times stay times. *)
LEMMA SecondKeepsBooks ==
  ASSUME GateInv, Second
  PROVE  GateOK' /\ gate'.lent = gate.lent
<1>1. gate \in [lent : BOOLEAN, ttl : TimesLeft, retry : 0..NoRetry]
  BY DEF GateInv, GateOK
<1>2. gate.ttl \in Nat /\ gate.retry \in Nat /\ gate.retry \in 0..NoRetry /\ gate.ttl \in TimesLeft
  BY <1>1, LendAssumption DEF TimesLeft
<1> DEFINE t == Max({gate.ttl - 1, 0})
           r == IF gate.retry = NoRetry THEN gate.retry ELSE Max({gate.retry - 1, 0})
<1>3. gate' = [gate EXCEPT !.ttl = t, !.retry = r]
  BY DEF Second
<1>4. t \in TimesLeft
  <2>1. t = IF gate.ttl = 0 THEN 0 ELSE gate.ttl - 1
    BY <1>2, CountsDown
  <2>2. CASE gate.ttl = 0
    BY <2>1, <2>2 DEF TimesLeft
  <2>3. CASE gate.ttl # 0
    <3>1. PICK u \in Ttls : gate.ttl \in 0..u
      BY <1>2, <2>3 DEF TimesLeft
    <3>2. t \in 0..u
      <4> HIDE DEF t
      <4> QED BY <1>2, <2>1, <2>3, <3>1, LendAssumption
    <3>3. QED
      BY <3>2 DEF TimesLeft
  <2>4. QED
    BY <2>2, <2>3
<1>5. r \in 0..NoRetry
  <2>1. r = IF gate.retry \in {0, NoRetry} THEN gate.retry ELSE gate.retry - 1
    BY <1>2, CountsDown DEF NoRetry, Retry
  <2>2. QED
    <3> HIDE DEF r
    <3> QED BY <1>2, <2>1 DEF NoRetry, Retry
<1> HIDE DEF t, r
<1>6. gate' = [lent |-> gate.lent, ttl |-> t, retry |-> r]
  BY <1>1, <1>3
<1>7. QED
  BY <1>1, <1>4, <1>5, <1>6 DEF GateOK

(* A request that has to wait goes to the end of the queue. *)
LEMMA ParkedLast ==
  ASSUME NEW n \in Nat, NEW q \in Seq(1..n),
         \A i, j \in 1..Len(q) : i < j => q[i] < q[j]
  PROVE  /\ Append(q, n + 1) \in Seq(1..(n + 1))
         /\ \A i, j \in 1..Len(Append(q, n + 1)) :
              i < j => Append(q, n + 1)[i] < Append(q, n + 1)[j]
<1> DEFINE a == Append(q, n + 1)
<1>1. q \in Seq(1..(n + 1)) /\ n + 1 \in 1..(n + 1)
  <2>1. 1..n \subseteq 1..(n + 1) /\ n + 1 \in 1..(n + 1)
    OBVIOUS
  <2>2. ASSUME NEW S, NEW T, S \subseteq T, NEW s \in Seq(S)
        PROVE  s \in Seq(T)
    BY <2>2
  <2>3. QED
    BY <2>1, <2>2
<1>2. /\ a \in Seq(1..(n + 1)) /\ Len(a) = Len(q) + 1 /\ Len(q) \in Nat
      /\ a[Len(q) + 1] = n + 1 /\ \A i \in 1..Len(q) : a[i] = q[i] /\ q[i] \in 1..n
  <2>1. ASSUME NEW S, NEW s \in Seq(S), NEW e \in S
        PROVE  /\ Append(s, e) \in Seq(S) /\ Len(Append(s, e)) = Len(s) + 1
               /\ Append(s, e)[Len(s) + 1] = e
               /\ \A i \in 1..Len(s) : Append(s, e)[i] = s[i]
    OBVIOUS
  <2>2. \A i \in 1..Len(q) : q[i] \in 1..n
    OBVIOUS
  <2>3. QED
    BY <1>1, <2>1, <2>2
<1> HIDE DEF a
<1>3. \A i \in 1..Len(a) : i \in 1..Len(q) \/ i = Len(q) + 1
  BY <1>2
<1>4. ASSUME NEW i \in 1..Len(a), NEW j \in 1..Len(a), i < j
      PROVE  a[i] < a[j]
  <2>1. i \in 1..Len(q)
    BY <1>2, <1>4
  <2>2. CASE j \in 1..Len(q)
    BY <1>2, <1>4, <2>1, <2>2
  <2>3. CASE j = Len(q) + 1
    <3>1. a[i] \in 1..n /\ a[j] = n + 1
      BY <1>2, <2>1, <2>3
    <3>2. QED
      BY <3>1
  <2>4. QED
    BY <1>3, <2>2, <2>3
<1>5. QED
  BY <1>2, <1>4 DEF a

(* The oldest request leaves from the front. *)
LEMMA OldestFirst ==
  ASSUME NEW n \in Nat, NEW q \in Seq(1..n), q # <<>>,
         \A i, j \in 1..Len(q) : i < j => q[i] < q[j]
  PROVE  /\ Head(q) \in 1..n /\ Tail(q) \in Seq(1..n)
         /\ \A i \in 1..Len(q) : q[i] >= Head(q)
         /\ \A i, j \in 1..Len(Tail(q)) : i < j => Tail(q)[i] < Tail(q)[j]
<1>1. /\ Len(q) \in Nat /\ Len(q) >= 1 /\ Head(q) = q[1]
      /\ Tail(q) \in Seq(1..n) /\ Len(Tail(q)) = Len(q) - 1
      /\ \A i \in 1..Len(Tail(q)) : Tail(q)[i] = q[i + 1]
  OBVIOUS
<1>2. \A i \in 1..Len(q) : q[i] \in 1..n
  OBVIOUS
<1>3. \A i \in 1..Len(q) : q[i] >= q[1]
  BY <1>1, <1>2
<1>4. ASSUME NEW i \in 1..Len(Tail(q)), NEW j \in 1..Len(Tail(q)), i < j
      PROVE  Tail(q)[i] < Tail(q)[j]
  <2>1. i + 1 \in 1..Len(q) /\ j + 1 \in 1..Len(q) /\ i + 1 < j + 1
    BY <1>1, <1>4
  <2>2. QED
    BY <1>1, <2>1
<1>5. QED
  BY <1>1, <1>2, <1>3, <1>4


(* Every step of the loop, of the clients, of the clock and of the card        *)
(* preserves the invariant, and starts no request before an older one.         *)
LEMMA GateInvStep ==
  ASSUME GateInv, [Next]_vars
  PROVE  /\ GateInv'
         /\ running' \notin {0, running} => \A i \in 1..Len(parked) : parked[i] >= running'
<1>0. LendInv'
  BY LendInvStep DEF GateInv
<1>a. /\ arrived \in 0..MaxRequests /\ arrived \in Nat /\ MaxRequests \in Nat
      /\ parked \in Seq(1..arrived) /\ running \in 0..arrived
  BY LendAssumption DEF GateInv, QueueOK
<1> USE DEF GateInv
<1>1. CASE ReturnDue
  <2>1. GateOK' /\ MemoryOK' /\ GateKnowsMemory'
    BY <1>1, ReturnKeepsBooks DEF ReturnDue
  <2>2. QED
    BY <1>0, <1>1, <2>1 DEF ReturnDue, QueueOK, WaitsForMemory, InOrder
<1>2. CASE NothingDue
  BY <1>0, <1>2 DEF NothingDue, memory, GateOK, MemoryOK, GateKnowsMemory, QueueOK, WaitsForMemory, InOrder
<1>3. CASE WaitOver
  BY <1>0, <1>3 DEF WaitOver, memory, GateOK, MemoryOK, GateKnowsMemory, QueueOK, WaitsForMemory, InOrder
<1>4. CASE ServeDone
  <2>1. QueueOK'
    BY <1>a, <1>4 DEF ServeDone, QueueOK
  <2>2. QED
    BY <1>0, <1>4, <2>1 DEF ServeDone, memory, GateOK, MemoryOK, GateKnowsMemory, WaitsForMemory, InOrder
<1>5. CASE DrainParked
  <2>0. /\ UNCHANGED <<gate, mapped, exact, arrived, held>>
        /\ GateOK' /\ MemoryOK' /\ GateKnowsMemory'
    BY <1>5 DEF DrainParked, memory, GateOK, MemoryOK, GateKnowsMemory
  <2>1. CASE parked # <<>> /\ running' = Head(parked) /\ parked' = Tail(parked) /\ loop' = "serve"
    <3>1. /\ Head(parked) \in 1..arrived /\ Tail(parked) \in Seq(1..arrived)
          /\ \A i \in 1..Len(parked) : parked[i] >= Head(parked)
          /\ \A i, j \in 1..Len(Tail(parked)) : i < j => Tail(parked)[i] < Tail(parked)[j]
      BY <1>a, <2>1, OldestFirst DEF InOrder
    <3>2. QueueOK'
      BY <1>a, <2>0, <2>1, <3>1 DEF QueueOK
    <3>3. InOrder'
      BY <2>1, <3>1 DEF InOrder
    <3>4. QED
      BY <1>0, <2>0, <2>1, <3>1, <3>2, <3>3 DEF WaitsForMemory
  <2>2. CASE /\ parked = <<>> \/ ~AdmitsEngine
             /\ loop' = "top" /\ UNCHANGED <<parked, running>>
    BY <1>0, <2>0, <2>2 DEF AdmitsEngine, QueueOK, WaitsForMemory, InOrder
  <2>3. QED
    BY <1>5, <2>1, <2>2 DEF DrainParked
<1>6. CASE AcceptEngine
  <2>0. /\ UNCHANGED <<gate, mapped, exact, held>>
        /\ GateOK' /\ MemoryOK' /\ GateKnowsMemory'
    BY <1>6 DEF AcceptEngine, memory, GateOK, MemoryOK, GateKnowsMemory
  <2>1. arrived < MaxRequests /\ arrived' = arrived + 1 /\ loop = "accept"
    BY <1>6 DEF AcceptEngine
  <2>2. arrived' \in 0..MaxRequests
    BY <1>a, <2>1
  <2>3. CASE ~gate.lent /\ loop' = "serve" /\ running' = arrived' /\ UNCHANGED parked
    <3>1. parked = <<>>
      BY <2>1, <2>3 DEF WaitsForMemory
    <3>2. QueueOK'
      BY <1>a, <2>1, <2>2, <2>3, <3>1 DEF QueueOK
    <3>3. QED
      BY <1>0, <2>0, <2>3, <3>1, <3>2 DEF WaitsForMemory, InOrder
  <2>4. CASE gate.lent /\ loop' = "drain" /\ parked' = Append(parked, arrived') /\ UNCHANGED running
    <3>1. /\ Append(parked, arrived + 1) \in Seq(1..(arrived + 1))
          /\ \A i, j \in 1..Len(Append(parked, arrived + 1)) :
               i < j => Append(parked, arrived + 1)[i] < Append(parked, arrived + 1)[j]
      BY <1>a, ParkedLast DEF InOrder
    <3>2. running' \in 0..(arrived + 1)
      BY <1>a, <2>4
    <3>3. QueueOK'
      BY <2>1, <2>2, <2>4, <3>1, <3>2 DEF QueueOK
    <3>4. InOrder'
      BY <2>1, <2>4, <3>1 DEF InOrder
    <3>5. QED
      BY <1>0, <2>0, <2>4, <3>3, <3>4 DEF WaitsForMemory
  <2>5. QED
    BY <1>6, <2>3, <2>4 DEF AcceptEngine, AdmitsEngine
<1>7. CASE AcceptOther
  <2>1. GateOK' /\ MemoryOK' /\ GateKnowsMemory'
    <3>1. CASE \E target \in Targets, ttl \in Ttls : VramLend(target, ttl)
      BY <3>1, LendKeepsBooks
    <3>2. CASE VramReturn
      BY <3>2, ReturnKeepsBooks
    <3>3. CASE UNCHANGED <<gate, memory>>
      BY <3>3 DEF memory, GateOK, MemoryOK, GateKnowsMemory
    <3>4. QED
      BY <1>7, <3>1, <3>2, <3>3 DEF AcceptOther
  <2>2. QED
    BY <1>0, <1>7, <2>1 DEF AcceptOther, QueueOK, WaitsForMemory, InOrder
<1>8. CASE Shutdown
  <2>1. QueueOK' /\ InOrder' /\ WaitsForMemory'
    BY <1>a, <1>8 DEF Shutdown, QueueOK, InOrder, WaitsForMemory
  <2>2. QED
    BY <1>0, <1>8, <2>1 DEF Shutdown, memory, GateOK, MemoryOK, GateKnowsMemory
<1>9. CASE Second
  <2>1. GateOK' /\ gate'.lent = gate.lent
    BY <1>9, SecondKeepsBooks
  <2>2. QED
    BY <1>0, <1>9, <2>1 DEF Second, memory, MemoryOK, GateKnowsMemory, QueueOK, WaitsForMemory, InOrder
<1>10. CASE OthersHold
  BY <1>0, <1>10 DEF OthersHold, memory, GateOK, MemoryOK, GateKnowsMemory, QueueOK, WaitsForMemory, InOrder
<1>11. CASE UNCHANGED vars
  BY <1>0, <1>11 DEF vars, GateOK, MemoryOK, GateKnowsMemory, QueueOK, WaitsForMemory, InOrder
<1>12. QED
  BY <1>1, <1>2, <1>3, <1>4, <1>5, <1>6, <1>7, <1>8, <1>9, <1>10, <1>11
  DEF Next, Serve

(* The invariant of the gate and the queue. *)
LEMMA GateInvariance == Spec => []GateInv
<1>1. GateInv /\ [Next]_vars => GateInv'
  BY GateInvStep
<1>2. QED
  BY GateInvInit, <1>1, PTL DEF Spec

(* The gate is lent exactly while memory is away - refused and half-finished *)
(* returns included - and its times stay times, whatever regions, ttls and   *)
(* targets there are.                                                        *)
THEOREM GateCorrect == Spec => []GateSound
<1>1. GateInv => TypeOK
  <2>1. GateInv => GateOK /\ MemoryOK /\ QueueOK /\ held \in BOOLEAN
                     /\ loop \in {"top", "accept", "drain", "serve", "stopped"}
    BY DEF GateInv
  <2>2. QED
    BY <2>1 DEF TypeOK, GateOK, MemoryOK, QueueOK
<1>2. GateInv => GateSound
  BY <1>1 DEF GateInv, GateSound
<1>3. QED
  BY GateInvariance, <1>2, PTL

(* First come, first served, whoever brings the memory back. *)
THEOREM InOrderOfArrival == Spec => NobodyOvertakes
<1>1. GateInv /\ [Next]_vars =>
        [running' \notin {0, running} =>
           \A i \in 1..Len(parked) : parked[i] >= running']_vars
  BY GateInvStep
<1>2. QED
  BY GateInvariance, <1>1, PTL DEF Spec, NobodyOvertakes

=============================================================================
