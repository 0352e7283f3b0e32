--------------------------- MODULE Trickle_proofs ---------------------------
(* What the trickle guarantees for every number of experts, hot slots and    *)
(* spare slots, for every plan, and however the two streams run.             *)
EXTENDS Trickle, FiniteSetTheorems, SequenceTheorems, FunctionTheorems, TLAPS

----------------------------------------------------------------------------
(* The books: the host's state between two calls.                            *)

Residencies == [sets  : [HotSlots -> Experts \cup {None}],
                cold  : [Experts -> PinnedSlots \cup {None}],
                spare : Seq(HotSlots)]
Trickles    == [inA : Seq(Swaps), inB : Seq(Swaps), pend : Batches \cup {None},
                sideGen : Gens, commitGen : Gens, mtp : Modes]
Queues      == [compute : Seq(Ops), side : Seq(Ops)]
Books       == [res : Residencies, tr : Trickles, queue : Queues]

\* The swaps whose evicted expert is on its way back: issued, or parked.
Back(t) == IF t.pend = None THEN t.inB ELSE t.pend.toB

\* Every expert has one home, and a pinned slot nobody is in has one swap
\* that comes back to it.
Homes(sets, cold, back) ==
  /\ \A s, t \in HotSlots : sets[s] # None /\ sets[s] = sets[t] => s = t
  /\ \A e \in Experts : cold[e] = None <=> \E s \in HotSlots : sets[s] = e
  /\ \A e, f \in Experts : cold[e] # None /\ cold[e] = cold[f] => e = f
  /\ \A i \in DOMAIN back : /\ sets[back[i].slot] = back[i].evict
                            /\ \A e \in Experts : cold[e] # back[i].cs
  /\ \A i, j \in DOMAIN back : i # j => back[i].slot # back[j].slot /\ back[i].cs # back[j].cs
  /\ \A c \in PinnedSlots : \/ \E e \in Experts : cold[e] = c
                            \/ \E i \in DOMAIN back : back[i].cs = c

\* Phase A in flight: the incoming expert is still cold, the slot it is copied
\* to empty, and the slot it will empty occupied and of no other swap.
Incoming(sets, cold, in, back) ==
  /\ \A i \in DOMAIN in : /\ sets[in[i].slot] = in[i].evict
                          /\ cold[in[i].new] = in[i].cs
                          /\ sets[in[i].spare] = None
  /\ \A i, j \in DOMAIN in : i # j => /\ in[i].slot # in[j].slot
                                      /\ in[i].new # in[j].new
                                      /\ in[i].spare # in[j].spare
  /\ \A i \in DOMAIN in, j \in DOMAIN back : in[i].slot # back[j].slot

\* The empty hot slots: free, or the target of a phase A.  A swap takes one
\* spare slot out of the list from its issue to its return.
Free(sets, spare, in, back) ==
  /\ \A i, j \in DOMAIN spare : spare[i] = spare[j] => i = j
  /\ \A i \in DOMAIN spare : sets[spare[i]] = None
  /\ \A i \in DOMAIN in, j \in DOMAIN spare : in[i].spare # spare[j]
  /\ \A s \in HotSlots : sets[s] = None =>
       \/ \E i \in DOMAIN spare : spare[i] = s
       \/ \E i \in DOMAIN in : in[i].spare = s
  /\ Len(spare) + Len(in) + Len(back) = Spares

\* A plan that can be issued.
Planned(sets, cold, spare, back, news) ==
  /\ Len(news) <= Len(spare)
  /\ \A i \in DOMAIN news : /\ cold[news[i].new] # None
                            /\ sets[news[i].slot] # None
  /\ \A i, j \in DOMAIN news : i # j => news[i].slot # news[j].slot /\ news[i].new # news[j].new
  /\ \A i \in DOMAIN news, j \in DOMAIN back : news[i].slot # back[j].slot

\* A batch is parked only when nothing is in flight, and it is not empty.
Parked(x) ==
  x.tr.pend # None =>
    /\ x.tr.inA = <<>> /\ x.tr.inB = <<>>
    /\ Planned(x.res.sets, x.res.cold, x.res.spare, x.tr.pend.toB, x.tr.pend.newA)

Kept(x) ==
  /\ x \in Books
  /\ Homes(x.res.sets, x.res.cold, Back(x.tr))
  /\ Incoming(x.res.sets, x.res.cold, x.tr.inA, Back(x.tr))
  /\ Free(x.res.sets, x.res.spare, x.tr.inA, Back(x.tr))
  /\ Parked(x)

HostOK ==
  /\ host \in {"idle", "prefill", "step", "launched", "between", "draining", "failed"}
  /\ host = "draining" => tr.inA = <<>> /\ tr.inB = <<>> /\ tr.pend = None

BooksInv == Kept(Now) /\ HostOK

----------------------------------------------------------------------------
(* Constants, and what a sequence given by a function on 1 .. n is.          *)

\* What the assumptions say of the constants.
LEMMA Constants ==
  /\ HotN \in Nat \ {0} /\ Spares \in Nat \ {0}
  /\ Cardinality(Experts) \in Nat /\ HotN <= Cardinality(Experts)
  /\ HotSlots \subseteq Nat /\ PinnedSlots \subseteq Nat
  /\ None \notin Experts /\ None \notin HotSlots /\ None \notin PinnedSlots /\ None \notin Batches
<1>1. Cardinality(Experts) \in Nat
  BY TrickleAssumption, FS_CardinalityType
<1> QED BY <1>1, TrickleAssumption, NoBatchAssumption DEF HotSlots, PinnedSlots

\* A function on 1 .. n is a sequence of length n.
LEMMA FunctionSeq ==
  ASSUME NEW S, NEW n \in Nat, NEW f \in [1 .. n -> S]
  PROVE  f \in Seq(S) /\ Len(f) = n
<1>1. f \in Seq(S)
  BY SeqDef
<1>2. Len(f) \in Nat /\ DOMAIN f = 1 .. Len(f)
  BY <1>1, LenProperties
<1>3. 1 .. n = 1 .. Len(f)
  BY <1>2
<1> QED BY <1>1, <1>2, <1>3

\* An expert's entry in the table the books describe.
LEMMA TableOf ==
  ASSUME NEW r \in Residencies, NEW back, Homes(r.sets, r.cold, back)
  PROVE  /\ FillTable(r) \in Tables
         /\ \A e \in Experts, s \in HotSlots : r.sets[s] = e => FillTable(r)[e] = Hot(s)
         /\ \A e \in Experts : r.cold[e] # None => FillTable(r)[e] = Pinned(r.cold[e])
<1> DEFINE T == FillTable(r)
<1>1. /\ \A s, t \in HotSlots : r.sets[s] # None /\ r.sets[s] = r.sets[t] => s = t
      /\ \A e \in Experts : r.cold[e] = None <=> \E s \in HotSlots : r.sets[s] = e
  BY DEF Homes
<1>2. \A e \in Experts : e \in Resident(r) <=> \E s \in HotSlots : r.sets[s] = e
  BY Constants DEF Resident
<1>3. ASSUME NEW e \in Experts, NEW s \in HotSlots, r.sets[s] = e
      PROVE  T[e] = Hot(s)
  <2>1. SlotHolding(r, e) \in HotSlots /\ r.sets[SlotHolding(r, e)] = e
    BY <1>3 DEF SlotHolding
  <2>2. SlotHolding(r, e) = s
    BY <1>1, <1>3, <2>1, Constants
  <2> QED BY <1>2, <1>3, <2>2 DEF FillTable
<1>4. ASSUME NEW e \in Experts, r.cold[e] # None
      PROVE  T[e] = Pinned(r.cold[e]) /\ r.cold[e] \in PinnedSlots
  BY <1>1, <1>2, <1>4 DEF FillTable, Residencies
<1>5. ASSUME NEW e \in Experts
      PROVE  T[e] \in Places
  <2>1. CASE r.cold[e] = None
    BY <1>1, <1>3, <2>1 DEF Places
  <2>2. CASE r.cold[e] # None
    BY <1>4, <2>2 DEF Places
  <2> QED BY <2>1, <2>2
<1>6. T \in Tables
  <2>1. T = [e \in Experts |-> T[e]]
    BY DEF FillTable
  <2> QED BY <1>5, <2>1 DEF Tables
<1> QED BY <1>3, <1>4, <1>6

----------------------------------------------------------------------------
(* Issuing the parked batch.                                                 *)

\* The swaps a parked plan becomes, and the spare list without their slots.
New(x)       == Started(x.res, x.tr.pend.newA)
SparesOf(x)  == SubSeq(x.res.spare, 1, Len(x.res.spare) - Len(New(x)))
NextGen(g)   == (g + 1) % 4
IssueOps(x)  == <<WaitFor("commit", x.tr.commitGen)>> \o CopiesB(x.tr.pend.toB)
                  \o CopiesA(New(x)) \o <<Record("side", NextGen(x.tr.sideGen))>>

\* The new swaps, one by one.
LEMMA StartedSwaps ==
  ASSUME NEW x, Kept(x), x.tr.pend # None
  PROVE  /\ New(x) \in Seq(Swaps) /\ Len(New(x)) = Len(x.tr.pend.newA)
         /\ Len(New(x)) \in Nat /\ Len(New(x)) <= Len(x.res.spare)
         /\ DOMAIN New(x) = 1 .. Len(New(x)) /\ DOMAIN x.tr.pend.newA = 1 .. Len(New(x))
         /\ \A i \in 1 .. Len(New(x)) :
              /\ New(x)[i] \in Swaps
              /\ New(x)[i].slot = x.tr.pend.newA[i].slot /\ New(x)[i].new = x.tr.pend.newA[i].new
              /\ x.res.sets[New(x)[i].slot] = New(x)[i].evict
              /\ x.res.cold[New(x)[i].new] = New(x)[i].cs
              /\ Len(x.res.spare) + 1 - i \in DOMAIN x.res.spare
              /\ New(x)[i].spare = x.res.spare[Len(x.res.spare) + 1 - i]
<1> DEFINE news == x.tr.pend.newA
           r    == x.res
           n    == Len(news)
<1>1. x.tr.pend \in Batches /\ r \in Residencies
  BY DEF Kept, Books, Trickles
<1>2. news \in Seq([slot : HotSlots, new : Experts])
  BY <1>1 DEF Batches
<1>3. /\ n \in Nat /\ DOMAIN news = 1 .. n
      /\ \A i \in 1 .. n : news[i] \in [slot : HotSlots, new : Experts]
  BY <1>2, LenProperties, ElementOfSeq
<1>4. /\ r.sets \in [HotSlots -> Experts \cup {None}] /\ r.cold \in [Experts -> PinnedSlots \cup {None}]
      /\ r.spare \in Seq(HotSlots)
  BY <1>1 DEF Residencies
<1>5. /\ Len(r.spare) \in Nat /\ DOMAIN r.spare = 1 .. Len(r.spare)
      /\ \A i \in 1 .. Len(r.spare) : r.spare[i] \in HotSlots
  BY <1>4, LenProperties, ElementOfSeq
<1>6. /\ n <= Len(r.spare)
      /\ \A i \in 1 .. n : r.cold[news[i].new] # None /\ r.sets[news[i].slot] # None
  BY <1>3 DEF Kept, Parked, Planned
<1> DEFINE swap(i) == [slot  |-> news[i].slot, evict |-> r.sets[news[i].slot],
                       new   |-> news[i].new,  cs    |-> r.cold[news[i].new],
                       spare |-> r.spare[Len(r.spare) + 1 - i]]
<1>7. ASSUME NEW i \in 1 .. n
      PROVE  swap(i) \in Swaps /\ Len(r.spare) + 1 - i \in DOMAIN r.spare
  <2>1. Len(r.spare) + 1 - i \in 1 .. Len(r.spare)
    BY <1>3, <1>5, <1>6, SMTT(20)
  <2> QED BY <1>3, <1>4, <1>5, <1>6, <2>1 DEF Swaps
<1>8. New(x) = [i \in 1 .. n |-> swap(i)]
  BY DEF New, Started
<1> HIDE DEF news, r, n, swap
<1>9. New(x) \in [1 .. n -> Swaps]
  BY <1>7, <1>8
<1>10. New(x) \in Seq(Swaps) /\ Len(New(x)) = n
  BY <1>3, <1>9, FunctionSeq, Zenon
<1>11. ASSUME NEW i \in 1 .. n
       PROVE  /\ New(x)[i] = swap(i) /\ New(x)[i] \in Swaps
              /\ New(x)[i].slot = news[i].slot /\ New(x)[i].evict = r.sets[news[i].slot]
              /\ New(x)[i].new = news[i].new /\ New(x)[i].cs = r.cold[news[i].new]
              /\ New(x)[i].spare = r.spare[Len(r.spare) + 1 - i]
  BY <1>7, <1>8 DEF swap
<1>12. DOMAIN New(x) = 1 .. n
  BY <1>9
<1> QED BY <1>3, <1>6, <1>7, <1>10, <1>11, <1>12 DEF news, r, n

\* The copies of a batch are operations the side stream can hold.
LEMMA CopiesTyped ==
  ASSUME NEW swaps \in Seq(Swaps)
  PROVE  /\ CopiesA(swaps) \in Seq(Ops) /\ CopiesB(swaps) \in Seq(Ops)
         /\ Len(CopiesA(swaps)) = Len(swaps) /\ Len(CopiesB(swaps)) = Len(swaps)
         /\ Len(swaps) \in Nat /\ DOMAIN swaps = 1 .. Len(swaps)
         /\ \A i \in 1 .. Len(swaps) :
              /\ swaps[i] \in Swaps
              /\ CopiesA(swaps)[i] = CopyA(swaps[i]) /\ CopiesB(swaps)[i] = CopyB(swaps[i])
<1>1. /\ Len(swaps) \in Nat /\ DOMAIN swaps = 1 .. Len(swaps)
      /\ \A i \in 1 .. Len(swaps) : swaps[i] \in Swaps
  BY LenProperties, ElementOfSeq
<1>2. ASSUME NEW p \in Swaps
      PROVE  CopyA(p) \in Ops /\ CopyB(p) \in Ops
  <2>1. /\ Hot(p.spare) \in Places /\ Pinned(p.cs) \in Places /\ Hot(p.slot) \in Places
    BY DEF Swaps, Places
  <2> QED BY <2>1 DEF CopyA, CopyB, CopyTo, Ops
<1>3. CopiesA(swaps) \in [1 .. Len(swaps) -> Ops] /\ CopiesB(swaps) \in [1 .. Len(swaps) -> Ops]
  BY <1>1, <1>2 DEF CopiesA, CopiesB
<1>4. /\ CopiesA(swaps) \in Seq(Ops) /\ CopiesB(swaps) \in Seq(Ops)
      /\ Len(CopiesA(swaps)) = Len(swaps) /\ Len(CopiesB(swaps)) = Len(swaps)
  BY <1>1, <1>3, FunctionSeq, Zenon
<1> QED BY <1>1, <1>4 DEF CopiesA, CopiesB

\* Issue, field by field.
LEMMA IssueFields ==
  ASSUME NEW x, Kept(x), x.tr.pend # None
  PROVE  LET y == Issue(x) IN
         /\ y \in Books
         /\ y.res.sets = x.res.sets /\ y.res.cold = x.res.cold /\ y.res.spare = SparesOf(x)
         /\ y.tr.pend = None /\ y.tr.inB = x.tr.pend.toB /\ y.tr.inA = New(x)
         /\ y.tr.sideGen = NextGen(x.tr.sideGen) /\ y.tr.commitGen = x.tr.commitGen
         /\ y.tr.mtp = x.tr.mtp
         /\ y.queue.compute = x.queue.compute /\ y.queue.side = x.queue.side \o IssueOps(x)
         /\ IssueOps(x) \in Seq(Ops)
         /\ SparesOf(x) \in Seq(HotSlots) /\ Len(SparesOf(x)) = Len(x.res.spare) - Len(New(x))
         /\ \A i \in 1 .. Len(SparesOf(x)) : SparesOf(x)[i] = x.res.spare[i]
<1> DEFINE y == Issue(x)
           b == x.tr.pend
           new == New(x)
           g   == NextGen(x.tr.sideGen)
           w   == <<WaitFor("commit", x.tr.commitGen)>>
           cb  == CopiesB(b.toB)
           ca  == CopiesA(new)
           rec == <<Record("side", g)>>
<1>1. /\ x \in Books /\ x.res \in Residencies /\ x.tr \in Trickles /\ x.queue \in Queues
      /\ b \in Batches /\ b.toB \in Seq(Swaps)
  BY DEF Kept, Books, Trickles, Batches
<1>2. x.tr.inA = <<>> /\ x.tr.inB = <<>>
  BY DEF Kept, Parked
<1>3. /\ new \in Seq(Swaps) /\ Len(new) \in Nat /\ Len(new) <= Len(x.res.spare)
  BY StartedSwaps
<1>4. /\ SparesOf(x) \in Seq(HotSlots) /\ Len(SparesOf(x)) = Len(x.res.spare) - Len(new)
      /\ \A i \in 1 .. Len(SparesOf(x)) : SparesOf(x)[i] = x.res.spare[i]
  <2>1. x.res.spare \in Seq(HotSlots) /\ Len(x.res.spare) \in Nat
    BY <1>1, LenProperties DEF Residencies
  <2>2. \A i \in 1 .. Len(x.res.spare) - Len(new) : x.res.spare[i] \in HotSlots
    BY <1>3, <2>1, ElementOfSeq
  <2> QED BY <1>3, <2>1, <2>2, SubSeqProperties DEF SparesOf
<1>5. g \in Gens
  BY <1>1 DEF Trickles, Gens, NextGen
<1>6. w \in Seq(Ops) /\ cb \in Seq(Ops) /\ ca \in Seq(Ops) /\ rec \in Seq(Ops)
  <2>1. WaitFor("commit", x.tr.commitGen) \in Ops /\ Record("side", g) \in Ops
    BY <1>1, <1>5 DEF WaitFor, Record, Ops, Trickles
  <2>2. cb \in Seq(Ops) /\ ca \in Seq(Ops)
    BY <1>1, <1>3, CopiesTyped
  <2> QED BY <2>1, <2>2
<1>7. /\ IssueOps(x) = ((w \o cb) \o ca) \o rec
      /\ y = [res   |-> [x.res EXCEPT !.spare = SparesOf(x)],
              tr    |-> [x.tr EXCEPT !.pend = None, !.inB = b.toB, !.inA = x.tr.inA \o new, !.sideGen = g],
              queue |-> [x.queue EXCEPT !.side = (((x.queue.side \o w) \o cb) \o ca) \o rec]]
  BY DEF Issue, IssueOps, New, SparesOf, NextGen
<1> HIDE DEF new, w, cb, ca, rec, g
<1>8. w \o cb \in Seq(Ops) /\ (w \o cb) \o ca \in Seq(Ops) /\ IssueOps(x) \in Seq(Ops)
  BY <1>6, <1>7, ConcatProperties
<1>9. (((x.queue.side \o w) \o cb) \o ca) \o rec = x.queue.side \o IssueOps(x)
  <2> DEFINE q == x.queue.side
  <2>1. q \in Seq(Ops)
    BY <1>1 DEF Queues
  <2> HIDE DEF q
  <2> DEFINE wb  == w \o cb
             wba == wb \o ca
  <2>2. wb \in Seq(Ops)
    BY <1>6
  <2>3. (q \o w) \o cb = q \o wb
    BY <1>6, <2>1
  <2> HIDE DEF wb
  <2>4. wba \in Seq(Ops)
    BY <1>6, <2>2
  <2>5. (q \o wb) \o ca = q \o wba
    BY <1>6, <2>1, <2>2, SMTT(20)
  <2> HIDE DEF wba
  <2>6. (q \o wba) \o rec = q \o (wba \o rec)
    BY <1>6, <2>1, <2>4
  <2> QED BY <1>7, <2>3, <2>5, <2>6 DEF q, wb, wba
<1>10. x.tr.inA \o new = new
  BY <1>2, <1>3, ConcatEmptySeq
<1>11. x.queue.side \o IssueOps(x) \in Seq(Ops)
  BY <1>1, <1>8, ConcatProperties DEF Queues
<1>12. /\ y.res = [x.res EXCEPT !.spare = SparesOf(x)]
       /\ y.tr = [x.tr EXCEPT !.pend = None, !.inB = b.toB, !.inA = new, !.sideGen = g]
       /\ y.queue = [x.queue EXCEPT !.side = x.queue.side \o IssueOps(x)]
       /\ y = [res |-> y.res, tr |-> y.tr, queue |-> y.queue]
  BY <1>7, <1>9, <1>10
<1> HIDE DEF y, b
<1>13. y.res \in Residencies /\ y.res.sets = x.res.sets /\ y.res.cold = x.res.cold /\ y.res.spare = SparesOf(x)
  BY <1>1, <1>4, <1>12 DEF Residencies
<1>14. /\ y.tr \in Trickles /\ y.tr.pend = None /\ y.tr.inB = b.toB /\ y.tr.inA = new
       /\ y.tr.sideGen = g /\ y.tr.commitGen = x.tr.commitGen /\ y.tr.mtp = x.tr.mtp
  BY <1>1, <1>3, <1>5, <1>12 DEF Trickles
<1>15. /\ y.queue \in Queues /\ y.queue.compute = x.queue.compute
       /\ y.queue.side = x.queue.side \o IssueOps(x)
  BY <1>1, <1>11, <1>12 DEF Queues
<1>16. y \in Books
  BY <1>12, <1>13, <1>14, <1>15 DEF Books
<1> QED BY <1>4, <1>8, <1>13, <1>14, <1>15, <1>16 DEF y, b, g, new

\* With no phase A in flight every empty slot is in the list.
LEMMA FreeOfNone ==
  ASSUME NEW sets, NEW spare, NEW back, Free(sets, spare, <<>>, back), Len(back) \in Nat, Len(spare) \in Nat
  PROVE  /\ \A i, j \in DOMAIN spare : spare[i] = spare[j] => i = j
         /\ \A i \in DOMAIN spare : sets[spare[i]] = None
         /\ \A s \in HotSlots : sets[s] = None => \E i \in DOMAIN spare : spare[i] = s
         /\ Len(spare) + Len(back) = Spares
BY DEF Free

\* Issuing keeps the books: what was planned can be started, in spare slots
\* the list gives up from its end.
LEMMA IssueKept ==
  ASSUME NEW x, Kept(x)
  PROVE  Kept(Issue(x)) /\ Issue(x).tr.pend = None
<1>1. CASE x.tr.pend = None
  BY <1>1 DEF Issue
<1>2. CASE x.tr.pend # None
  <2> DEFINE y    == Issue(x)
             sets == x.res.sets
             cold == x.res.cold
             spare == x.res.spare
             new  == New(x)
             back == x.tr.pend.toB
             n    == Len(spare)
             left == SparesOf(x)
  <2>1. /\ y \in Books /\ y.res.sets = sets /\ y.res.cold = cold /\ y.res.spare = left
        /\ y.tr.pend = None /\ y.tr.inB = back /\ y.tr.inA = new
        /\ left \in Seq(HotSlots) /\ Len(left) = n - Len(new) /\ \A i \in 1 .. Len(left) : left[i] = spare[i]
    BY <1>2, IssueFields
  <2>2. /\ Len(new) \in Nat /\ Len(new) <= n /\ DOMAIN new = 1 .. Len(new)
        /\ \A i \in 1 .. Len(new) :
             /\ new[i].slot = x.tr.pend.newA[i].slot /\ new[i].new = x.tr.pend.newA[i].new
             /\ sets[new[i].slot] = new[i].evict /\ cold[new[i].new] = new[i].cs
             /\ n + 1 - i \in DOMAIN spare /\ new[i].spare = spare[n + 1 - i]
        /\ DOMAIN x.tr.pend.newA = 1 .. Len(new)
    BY <1>2, StartedSwaps
  <2>3. /\ Back(x.tr) = back /\ x.tr.inA = <<>> /\ Planned(sets, cold, spare, back, x.tr.pend.newA)
        /\ Homes(sets, cold, back) /\ Free(sets, spare, <<>>, back)
    BY <1>2 DEF Back, Kept, Parked
  <2>4. /\ spare \in Seq(HotSlots) /\ n \in Nat /\ DOMAIN spare = 1 .. n
        /\ left \in Seq(HotSlots) /\ Len(left) \in Nat /\ DOMAIN left = 1 .. Len(left)
    <3>1. x \in Books
      BY DEF Kept
    <3> QED BY <2>1, <3>1, LenProperties DEF Books, Residencies
  <2>5. /\ \A i, j \in 1 .. n : spare[i] = spare[j] => i = j
        /\ \A i \in 1 .. n : sets[spare[i]] = None
        /\ \A s \in HotSlots : sets[s] = None => \E i \in 1 .. n : spare[i] = s
        /\ n + Len(back) = Spares
    <3>1. Len(back) \in Nat
      <4>1. back \in Seq(Swaps)
        BY <1>2 DEF Kept, Books, Trickles, Batches
      <4> QED BY <4>1, LenProperties
    <3> HIDE DEF sets, spare, back
    <3>2. /\ \A i, j \in DOMAIN spare : spare[i] = spare[j] => i = j
          /\ \A i \in DOMAIN spare : sets[spare[i]] = None
          /\ \A s \in HotSlots : sets[s] = None => \E i \in DOMAIN spare : spare[i] = s
          /\ n + Len(back) = Spares
      BY <2>3, <2>4, <3>1, FreeOfNone DEF n
    <3> QED BY <2>4, <3>2
  <2>p. /\ \A i, j \in 1 .. Len(new) : i # j => new[i].slot # new[j].slot /\ new[i].new # new[j].new
        /\ \A i \in 1 .. Len(new), j \in DOMAIN back : new[i].slot # back[j].slot
    <3> DEFINE news == x.tr.pend.newA
    <3>1. /\ \A i, j \in DOMAIN news : i # j => news[i].slot # news[j].slot /\ news[i].new # news[j].new
          /\ \A i \in DOMAIN news, j \in DOMAIN back : news[i].slot # back[j].slot
      BY <2>3 DEF Planned
    <3>2. /\ DOMAIN news = 1 .. Len(new)
          /\ \A i \in 1 .. Len(new) : new[i].slot = news[i].slot /\ new[i].new = news[i].new
      BY <2>2
    <3> HIDE DEF news, new, back
    <3> QED BY <3>1, <3>2
  <2> HIDE DEF y, sets, cold, spare, new, back, left, n
  <2>6. Back(y.tr) = back
    BY <2>1 DEF Back
  <2>7. Homes(sets, cold, back)
    BY <2>3
  <2>8. Incoming(sets, cold, new, back)
    <3>1. ASSUME NEW i \in 1 .. Len(new)
          PROVE  /\ sets[new[i].slot] = new[i].evict /\ cold[new[i].new] = new[i].cs
                 /\ sets[new[i].spare] = None
      BY <2>2, <2>4, <2>5
    <3>2. ASSUME NEW i \in 1 .. Len(new), NEW j \in 1 .. Len(new), i # j
          PROVE  new[i].slot # new[j].slot /\ new[i].new # new[j].new /\ new[i].spare # new[j].spare
      <4>1. new[i].slot # new[j].slot /\ new[i].new # new[j].new
        BY <2>p, <3>2
      <4>2. n + 1 - i # n + 1 - j
        BY <2>4, <3>2
      <4>3. new[i].spare # new[j].spare
        BY <2>2, <2>4, <2>5, <4>2
      <4> QED BY <4>1, <4>3
    <3>3. \A i \in 1 .. Len(new), j \in DOMAIN back : new[i].slot # back[j].slot
      BY <2>p
    <3> QED BY <2>1, <2>2, <3>1, <3>2, <3>3 DEF Incoming
  <2>9. Free(sets, left, new, back)
    <3>1. \A i \in 1 .. Len(left) : i \in 1 .. n /\ left[i] = spare[i]
      BY <2>1, <2>2, <2>4
    <3>2. \A i, j \in 1 .. Len(left) : left[i] = left[j] => i = j
      BY <2>5, <3>1
    <3>3. \A i \in 1 .. Len(left) : sets[left[i]] = None
      BY <2>5, <3>1
    <3>4. ASSUME NEW i \in 1 .. Len(new), NEW j \in 1 .. Len(left)
          PROVE  new[i].spare # left[j]
      <4>1. n + 1 - i \in 1 .. n /\ n + 1 - i # j
        BY <2>1, <2>2, <2>4
      <4> QED BY <2>2, <2>5, <3>1, <4>1
    <3>5. ASSUME NEW s \in HotSlots, sets[s] = None
          PROVE  (\E i \in 1 .. Len(left) : left[i] = s) \/ (\E i \in 1 .. Len(new) : new[i].spare = s)
      <4>1. PICK k \in 1 .. n : spare[k] = s
        BY <2>5, <3>5
      <4>2. CASE k <= Len(left)
        <5>1. k \in 1 .. Len(left)
          BY <2>4, <4>2
        <5> QED BY <3>1, <4>1, <5>1
      <4>3. CASE ~(k <= Len(left))
        <5>1. n + 1 - k \in 1 .. Len(new) /\ n + 1 - (n + 1 - k) = k
          BY <2>1, <2>2, <2>4, <4>3
        <5> QED BY <2>2, <4>1, <5>1
      <4> QED BY <4>2, <4>3
    <3>6. Len(left) + Len(new) + Len(back) = Spares
      BY <2>1, <2>2, <2>4, <2>5
    <3>7. DOMAIN left = 1 .. Len(left) /\ DOMAIN new = 1 .. Len(new)
      BY <2>2, <2>4
    <3> QED BY <3>2, <3>3, <3>4, <3>5, <3>6, <3>7 DEF Free
  <2>10. Parked(y)
    BY <2>1 DEF Parked
  <2>11. Kept(y) /\ y.tr.pend = None
    BY <2>1, <2>6, <2>7, <2>8, <2>9, <2>10 DEF Kept
  <2> QED BY <2>11 DEF y
<1> QED BY <1>1, <1>2

----------------------------------------------------------------------------
(* Landing: commit B of what returns, commit A of what came in.              *)

\* A list of swaps, entry by entry and field by field.
LEMMA SwapSeq ==
  ASSUME NEW q \in Seq(Swaps)
  PROVE  /\ Len(q) \in Nat /\ DOMAIN q = 1 .. Len(q)
         /\ \A i \in DOMAIN q : /\ q[i] \in Swaps /\ q[i].slot \in HotSlots /\ q[i].evict \in Experts
                                /\ q[i].new \in Experts /\ q[i].cs \in PinnedSlots
                                /\ q[i].spare \in HotSlots
<1>1. Len(q) \in Nat /\ DOMAIN q = 1 .. Len(q) /\ \A i \in DOMAIN q : q[i] \in Swaps
  BY LenProperties, ElementOfSeq
<1> QED BY <1>1 DEF Swaps

\* Commit B, entry by entry.
LEMMA CommitBEntries ==
  ASSUME NEW r \in Residencies, NEW back \in Seq(Swaps), Homes(r.sets, r.cold, back)
  PROVE  LET c == CommitB(r, back) IN
         /\ c \in Residencies
         /\ \A i \in DOMAIN back : /\ c.sets[back[i].slot] = None
                                   /\ c.cold[back[i].evict] = back[i].cs
         /\ \A s \in HotSlots : (\A i \in DOMAIN back : back[i].slot # s) => c.sets[s] = r.sets[s]
         /\ \A e \in Experts : (\A i \in DOMAIN back : back[i].evict # e) => c.cold[e] = r.cold[e]
         /\ Len(c.spare) = Len(r.spare) + Len(back)
         /\ \A i \in 1 .. Len(r.spare) : c.spare[i] = r.spare[i]
         /\ \A i \in 1 .. Len(back) : c.spare[Len(r.spare) + i] = back[i].slot
<1> DEFINE c == CommitB(r, back)
           slots == [i \in 1 .. Len(back) |-> back[i].slot]
<1>1. /\ Len(back) \in Nat /\ DOMAIN back = 1 .. Len(back) /\ \A i \in DOMAIN back : back[i] \in Swaps
      /\ ToSet(back) = {back[i] : i \in DOMAIN back}
  BY LenProperties, ElementOfSeq DEF ToSet
<1>2. /\ r.sets \in [HotSlots -> Experts \cup {None}] /\ r.cold \in [Experts -> PinnedSlots \cup {None}]
      /\ r.spare \in Seq(HotSlots) /\ Len(r.spare) \in Nat
  BY LenProperties DEF Residencies
<1>3. slots \in Seq(HotSlots) /\ Len(slots) = Len(back)
  <2>1. slots \in [1 .. Len(back) -> HotSlots]
    BY <1>1 DEF Swaps
  <2> QED BY <1>1, <2>1, FunctionSeq, ZenonT(30)
<1>4. c = [sets  |-> [s \in HotSlots |-> IF \E p \in ToSet(back) : p.slot = s THEN None ELSE r.sets[s]],
           cold  |-> [e \in Experts |-> IF \E p \in ToSet(back) : p.evict = e
                                          THEN (CHOOSE p \in ToSet(back) : p.evict = e).cs
                                          ELSE r.cold[e]],
           spare |-> r.spare \o slots]
  BY DEF CommitB
<1> HIDE DEF c, slots
<1>5. c.spare = r.spare \o slots /\ c.spare \in Seq(HotSlots)
  BY <1>2, <1>3, <1>4
<1>6. ASSUME NEW s \in HotSlots
      PROVE  c.sets[s] = IF \E i \in DOMAIN back : back[i].slot = s THEN None ELSE r.sets[s]
  BY <1>1, <1>4
<1>7. ASSUME NEW e \in Experts, \A i \in DOMAIN back : back[i].evict # e
      PROVE  c.cold[e] = r.cold[e]
  BY <1>1, <1>4, <1>7
<1>8. ASSUME NEW i \in DOMAIN back
      PROVE  c.cold[back[i].evict] = back[i].cs /\ back[i].evict \in Experts /\ back[i].slot \in HotSlots
  <2> DEFINE e == back[i].evict
             p == CHOOSE q \in ToSet(back) : q.evict = e
  <2>1. e \in Experts /\ back[i].slot \in HotSlots
    BY <1>1 DEF Swaps
  <2>2. back[i] \in ToSet(back) /\ back[i].evict = e
    BY <1>1
  <2>3. p \in ToSet(back) /\ p.evict = e
    BY <2>2
  <2>4. c.cold[e] = p.cs
    BY <1>4, <2>1, <2>2
  <2> HIDE DEF p, e
  <2>5. PICK j \in DOMAIN back : p = back[j]
    BY <1>1, <2>3
  <2>6. i = j
    <3>1. r.sets[back[i].slot] = e /\ r.sets[back[j].slot] = e
      BY <2>3, <2>5 DEF Homes, e
    <3>2. back[i].slot \in HotSlots /\ back[j].slot \in HotSlots /\ e # None
      BY <1>1, <2>1, <2>5, Constants DEF Swaps
    <3>3. back[i].slot = back[j].slot
      BY <3>1, <3>2 DEF Homes
    <3> QED BY <2>5, <3>3 DEF Homes
  <2> QED BY <2>1, <2>4, <2>5, <2>6 DEF e
<1>9. c.sets \in [HotSlots -> Experts \cup {None}]
  BY <1>2, <1>4
<1>10. c.cold \in [Experts -> PinnedSlots \cup {None}]
  <2>1. ASSUME NEW e \in Experts
        PROVE  c.cold[e] \in PinnedSlots \cup {None}
    <3>1. CASE \E i \in DOMAIN back : back[i].evict = e
      BY <1>1, <1>8, <3>1 DEF Swaps
    <3>2. CASE \A i \in DOMAIN back : back[i].evict # e
      BY <1>2, <1>7, <3>2
    <3> QED BY <3>1, <3>2
  <2>2. c.cold = [e \in Experts |-> c.cold[e]]
    BY <1>4
  <2> QED BY <2>1, <2>2
<1>11. c = [sets |-> c.sets, cold |-> c.cold, spare |-> c.spare]
  BY <1>4
<1>12. c \in Residencies
  BY <1>5, <1>9, <1>10, <1>11 DEF Residencies
<1>13. /\ Len(c.spare) = Len(r.spare) + Len(back)
       /\ \A i \in 1 .. Len(r.spare) : c.spare[i] = r.spare[i]
       /\ \A i \in 1 .. Len(back) : c.spare[Len(r.spare) + i] = back[i].slot
  BY <1>1, <1>2, <1>3, <1>5 DEF slots
<1>14. ASSUME NEW i \in DOMAIN back
       PROVE  c.sets[back[i].slot] = None
  BY <1>6, <1>8
<1> QED BY <1>6, <1>7, <1>8, <1>12, <1>13, <1>14 DEF c

\* Commit B brings every returning expert home: nothing is on its way back.
LEMMA CommitBKept ==
  ASSUME NEW r \in Residencies, NEW back \in Seq(Swaps), NEW in \in Seq(Swaps),
         Homes(r.sets, r.cold, back), Incoming(r.sets, r.cold, in, back), Free(r.sets, r.spare, in, back)
  PROVE  LET c == CommitB(r, back) IN
         Homes(c.sets, c.cold, <<>>) /\ Incoming(c.sets, c.cold, in, <<>>) /\ Free(c.sets, c.spare, in, <<>>)
<1> DEFINE c == CommitB(r, back)
           returns(e) == \E i \in DOMAIN back : back[i].evict = e
<1>1. /\ c \in Residencies
      /\ \A i \in DOMAIN back : c.sets[back[i].slot] = None /\ c.cold[back[i].evict] = back[i].cs
      /\ \A s \in HotSlots : (\A i \in DOMAIN back : back[i].slot # s) => c.sets[s] = r.sets[s]
      /\ \A e \in Experts : (\A i \in DOMAIN back : back[i].evict # e) => c.cold[e] = r.cold[e]
      /\ Len(c.spare) = Len(r.spare) + Len(back)
      /\ \A i \in 1 .. Len(r.spare) : c.spare[i] = r.spare[i]
      /\ \A i \in 1 .. Len(back) : c.spare[Len(r.spare) + i] = back[i].slot
  BY CommitBEntries
<1> HIDE DEF c
<1>2. /\ Len(back) \in Nat /\ DOMAIN back = 1 .. Len(back)
      /\ \A i \in DOMAIN back : /\ back[i].slot \in HotSlots /\ back[i].evict \in Experts
                                /\ back[i].cs \in PinnedSlots
      /\ Len(in) \in Nat /\ DOMAIN in = 1 .. Len(in)
      /\ \A i \in DOMAIN in : /\ in[i].slot \in HotSlots /\ in[i].new \in Experts
                              /\ in[i].spare \in HotSlots /\ in[i].cs \in PinnedSlots
  BY SwapSeq
<1>0. None \notin Experts /\ None \notin PinnedSlots
  BY Constants
<1>3. /\ r.sets \in [HotSlots -> Experts \cup {None}] /\ r.cold \in [Experts -> PinnedSlots \cup {None}]
      /\ Len(r.spare) \in Nat /\ DOMAIN r.spare = 1 .. Len(r.spare)
      /\ Len(c.spare) \in Nat /\ DOMAIN c.spare = 1 .. Len(c.spare)
  BY <1>1, LenProperties DEF Residencies
<1>4. /\ \A s, t \in HotSlots : r.sets[s] # None /\ r.sets[s] = r.sets[t] => s = t
      /\ \A e \in Experts : r.cold[e] = None <=> \E s \in HotSlots : r.sets[s] = e
      /\ \A e, f \in Experts : r.cold[e] # None /\ r.cold[e] = r.cold[f] => e = f
      /\ \A i \in DOMAIN back : r.sets[back[i].slot] = back[i].evict
      /\ \A i \in DOMAIN back : \A e \in Experts : r.cold[e] # back[i].cs
      /\ \A i, j \in DOMAIN back : i # j => back[i].slot # back[j].slot /\ back[i].cs # back[j].cs
      /\ \A k \in PinnedSlots : (\E e \in Experts : r.cold[e] = k) \/ \E i \in DOMAIN back : back[i].cs = k
  BY DEF Homes
<1>5. ASSUME NEW i \in DOMAIN back
      PROVE  r.cold[back[i].evict] = None /\ back[i].evict # None
  <2>1. /\ back[i].evict \in Experts /\ back[i].slot \in HotSlots
        /\ r.sets[back[i].slot] = back[i].evict
    BY <1>2, <1>4
  <2> QED BY <1>0, <1>4, <2>1
<1>6. \A s \in HotSlots : c.sets[s] = None \/ c.sets[s] = r.sets[s]
  BY <1>1
<1>7. \A s \in HotSlots : c.sets[s] # r.sets[s] => \E i \in DOMAIN back : back[i].slot = s
  BY <1>1
<1>8. Homes(c.sets, c.cold, <<>>)
  <2>1. \A s, t \in HotSlots : c.sets[s] # None /\ c.sets[s] = c.sets[t] => s = t
    BY <1>4, <1>6
  <2>2. ASSUME NEW e \in Experts
        PROVE  c.cold[e] = None <=> \E s \in HotSlots : c.sets[s] = e
    <3>1. CASE returns(e)
      <4>1. PICK i \in DOMAIN back : back[i].evict = e
        BY <3>1
      <4>2. c.cold[e] # None
        BY <1>1, <1>2, <4>1, Constants
      <4>3. ASSUME NEW s \in HotSlots, c.sets[s] = e
            PROVE  FALSE
        <5>1. r.sets[s] = e /\ r.sets[back[i].slot] = e
          BY <1>4, <1>6, <4>1, <4>3, Constants
        <5>2. back[i].slot \in HotSlots /\ e # None
          BY <1>0, <1>2
        <5>3. s = back[i].slot
          BY <1>4, <5>1, <5>2
        <5> QED BY <1>1, <4>3, <5>2, <5>3
      <4> QED BY <4>2, <4>3
    <3>2. CASE ~returns(e)
      <4>1. c.cold[e] = r.cold[e]
        BY <1>1, <3>2
      <4>2. ASSUME NEW s \in HotSlots
            PROVE  c.sets[s] = e <=> r.sets[s] = e
        <5>1. CASE \E i \in DOMAIN back : back[i].slot = s
          <6>1. c.sets[s] = None /\ r.sets[s] # e
            BY <1>1, <1>4, <3>2, <5>1
          <6> QED BY <6>1, Constants
        <5>2. CASE \A i \in DOMAIN back : back[i].slot # s
          BY <1>1, <5>2
        <5> QED BY <5>1, <5>2
      <4> QED BY <1>4, <4>1, <4>2
    <3> QED BY <3>1, <3>2
  <2>3. ASSUME NEW e \in Experts, NEW f \in Experts, c.cold[e] # None, c.cold[e] = c.cold[f]
        PROVE  e = f
    <3>1. CASE returns(e) /\ returns(f)
      BY <1>1, <1>4, <2>3, <3>1
    <3>2. CASE returns(e) /\ ~returns(f)
      BY <1>1, <1>4, <2>3, <3>2
    <3>3. CASE ~returns(e) /\ returns(f)
      BY <1>1, <1>4, <2>3, <3>3
    <3>4. CASE ~returns(e) /\ ~returns(f)
      BY <1>1, <1>4, <2>3, <3>4, SMTT(20)
    <3> QED BY <3>1, <3>2, <3>3, <3>4
  <2>4. ASSUME NEW k \in PinnedSlots
        PROVE  \E e \in Experts : c.cold[e] = k
    <3>1. CASE \E e \in Experts : r.cold[e] = k
      <4>1. PICK e \in Experts : r.cold[e] = k
        BY <3>1
      <4>2. ~returns(e)
        BY <1>5, <4>1, Constants
      <4> QED BY <1>1, <4>1, <4>2
    <3>2. CASE \E i \in DOMAIN back : back[i].cs = k
      BY <1>1, <1>2, <3>2, SMTT(20)
    <3> QED BY <1>4, <3>1, <3>2
  <2> QED BY <2>1, <2>2, <2>3, <2>4 DEF Homes
<1>9. Incoming(c.sets, c.cold, in, <<>>)
  <2>1. ASSUME NEW i \in DOMAIN in
        PROVE  /\ c.sets[in[i].slot] = in[i].evict /\ c.cold[in[i].new] = in[i].cs
               /\ c.sets[in[i].spare] = None
    <3>1. /\ r.sets[in[i].slot] = in[i].evict /\ r.cold[in[i].new] = in[i].cs
          /\ r.sets[in[i].spare] = None /\ \A j \in DOMAIN back : in[i].slot # back[j].slot
      BY DEF Incoming
    <3>2. \A j \in DOMAIN back : back[j].evict # in[i].new
      BY <1>2, <1>5, <3>1, Constants
    <3> QED BY <1>1, <1>2, <1>6, <3>1, <3>2
  <2>2. \A i, j \in DOMAIN in : i # j => /\ in[i].slot # in[j].slot /\ in[i].new # in[j].new
                                         /\ in[i].spare # in[j].spare
    BY DEF Incoming
  <2> QED BY <2>1, <2>2 DEF Incoming
<1>10. Free(c.sets, c.spare, in, <<>>)
  <2> DEFINE n == Len(r.spare)
  <2>1. /\ \A i, j \in 1 .. n : r.spare[i] = r.spare[j] => i = j
        /\ \A i \in 1 .. n : r.sets[r.spare[i]] = None
        /\ \A i \in DOMAIN in, j \in 1 .. n : in[i].spare # r.spare[j]
        /\ \A s \in HotSlots : r.sets[s] = None => \/ \E i \in 1 .. n : r.spare[i] = s
                                                   \/ \E i \in DOMAIN in : in[i].spare = s
        /\ n + Len(in) + Len(back) = Spares
    BY <1>3 DEF Free
  <2>2. ASSUME NEW i \in DOMAIN c.spare
        PROVE  \/ i \in 1 .. n /\ c.spare[i] = r.spare[i]
               \/ i - n \in DOMAIN back /\ c.spare[i] = back[i - n].slot
    <3>1. i \in 1 .. n \/ (i - n \in 1 .. Len(back) /\ i = n + (i - n))
      BY <1>1, <1>2, <1>3
    <3> QED BY <1>1, <1>2, <3>1
  <2>0. r.spare \in Seq(HotSlots) /\ \A i \in 1 .. n : r.spare[i] \in HotSlots
    BY ElementOfSeq DEF Residencies
  <2> HIDE DEF n
  <2>3. ASSUME NEW i \in DOMAIN c.spare
        PROVE  c.sets[c.spare[i]] = None
    <3>1. CASE i \in 1 .. n /\ c.spare[i] = r.spare[i]
      <4>1. r.sets[c.spare[i]] = None /\ c.spare[i] \in HotSlots
        BY <2>0, <2>1, <3>1
      <4> QED BY <1>6, <4>1
    <3>2. CASE i - n \in DOMAIN back /\ c.spare[i] = back[i - n].slot
      BY <1>1, <3>2
    <3> QED BY <2>2, <3>1, <3>2
  <2>4. ASSUME NEW i \in DOMAIN c.spare, NEW j \in DOMAIN c.spare, c.spare[i] = c.spare[j]
        PROVE  i = j
    <3>0. i \in Nat /\ j \in Nat /\ n \in Nat
      BY <1>3 DEF n
    <3>1. CASE i \in 1 .. n /\ c.spare[i] = r.spare[i]
      <4>1. r.sets[c.spare[j]] = None
        BY <2>1, <2>4, <3>1
      <4>2. ~(j - n \in DOMAIN back /\ c.spare[j] = back[j - n].slot)
        BY <1>4, <1>5, <4>1
      <4> QED BY <2>1, <2>2, <2>4, <3>1, <4>2
    <3>2. CASE i - n \in DOMAIN back /\ c.spare[i] = back[i - n].slot
      <4>1. r.sets[c.spare[j]] # None
        BY <1>4, <1>5, <2>4, <3>2
      <4>2. ~(j \in 1 .. n /\ c.spare[j] = r.spare[j])
        BY <2>1, <4>1
      <4>3. j - n \in DOMAIN back /\ c.spare[j] = back[j - n].slot
        BY <2>2, <4>2
      <4>4. back[i - n].slot = back[j - n].slot
        BY <2>4, <3>2, <4>3
      <4>5. i - n = j - n
        <5> DEFINE k == i - n
                   l == j - n
        <5>1. k \in DOMAIN back /\ l \in DOMAIN back /\ back[k].slot = back[l].slot
          BY <3>2, <4>3, <4>4
        <5> HIDE DEF k, l
        <5>2. k = l
          BY <1>4, <5>1
        <5> QED BY <5>2 DEF k, l
      <4> QED BY <3>0, <4>5
    <3> QED BY <2>2, <3>1, <3>2
  <2>5. ASSUME NEW i \in DOMAIN in, NEW j \in DOMAIN c.spare
        PROVE  in[i].spare # c.spare[j]
    <3>1. CASE j \in 1 .. n /\ c.spare[j] = r.spare[j]
      BY <2>1, <3>1
    <3>2. CASE j - n \in DOMAIN back /\ c.spare[j] = back[j - n].slot
      <4>1. r.sets[in[i].spare] = None
        BY DEF Incoming
      <4> QED BY <1>4, <1>5, <3>2, <4>1
    <3> QED BY <2>2, <3>1, <3>2
  <2>6. ASSUME NEW s \in HotSlots, c.sets[s] = None
        PROVE  (\E i \in DOMAIN c.spare : c.spare[i] = s) \/ (\E i \in DOMAIN in : in[i].spare = s)
    <3>1. CASE r.sets[s] = None
      <4>1. \A i \in 1 .. n : i \in DOMAIN c.spare /\ c.spare[i] = r.spare[i]
        BY <1>1, <1>2, <1>3 DEF n
      <4> QED BY <2>1, <3>1, <4>1
    <3>2. CASE r.sets[s] # None
      <4>1. PICK i \in DOMAIN back : back[i].slot = s
        BY <1>7, <2>6, <3>2
      <4>2. n + i \in DOMAIN c.spare /\ c.spare[n + i] = s
        BY <1>1, <1>2, <1>3, <4>1, SMTT(20) DEF n
      <4> QED BY <4>2
    <3> QED BY <3>1, <3>2
  <2>7. Len(c.spare) + Len(in) + Len(<<>>) = Spares
    BY <1>1, <1>2, <1>3, <2>1 DEF n
  <2> QED BY <2>3, <2>4, <2>5, <2>6, <2>7 DEF Free
<1> QED BY <1>8, <1>9, <1>10 DEF c

\* Commit A, entry by entry.
LEMMA CommitAEntries ==
  ASSUME NEW r \in Residencies, NEW in \in Seq(Swaps), NEW back, Incoming(r.sets, r.cold, in, back)
  PROVE  LET c == CommitA(r, in) IN
         /\ c \in Residencies /\ c.spare = r.spare
         /\ \A i \in DOMAIN in : c.sets[in[i].spare] = in[i].new /\ c.cold[in[i].new] = None
         /\ \A s \in HotSlots : (\A i \in DOMAIN in : in[i].spare # s) => c.sets[s] = r.sets[s]
         /\ \A e \in Experts : (\A i \in DOMAIN in : in[i].new # e) => c.cold[e] = r.cold[e]
<1> DEFINE c == CommitA(r, in)
<1>1. /\ Len(in) \in Nat /\ DOMAIN in = 1 .. Len(in)
      /\ \A i \in DOMAIN in : in[i].new \in Experts /\ in[i].spare \in HotSlots
      /\ ToSet(in) = {in[i] : i \in DOMAIN in}
  BY SwapSeq DEF ToSet
<1>2. /\ r.sets \in [HotSlots -> Experts \cup {None}] /\ r.cold \in [Experts -> PinnedSlots \cup {None}]
      /\ r.spare \in Seq(HotSlots)
  BY DEF Residencies
<1>3. c = [sets  |-> [s \in HotSlots |-> IF \E p \in ToSet(in) : p.spare = s
                                           THEN (CHOOSE p \in ToSet(in) : p.spare = s).new
                                           ELSE r.sets[s]],
           cold  |-> [e \in Experts |-> IF \E p \in ToSet(in) : p.new = e THEN None ELSE r.cold[e]],
           spare |-> r.spare]
  BY DEF CommitA
<1> HIDE DEF c
<1>4. ASSUME NEW s \in HotSlots, \A i \in DOMAIN in : in[i].spare # s
      PROVE  c.sets[s] = r.sets[s]
  BY <1>1, <1>3, <1>4
<1>5. ASSUME NEW e \in Experts
      PROVE  c.cold[e] = IF \E i \in DOMAIN in : in[i].new = e THEN None ELSE r.cold[e]
  BY <1>1, <1>3
<1>6. ASSUME NEW i \in DOMAIN in
      PROVE  c.sets[in[i].spare] = in[i].new
  <2> DEFINE s == in[i].spare
             p == CHOOSE q \in ToSet(in) : q.spare = s
  <2>1. in[i] \in ToSet(in) /\ in[i].spare = s /\ s \in HotSlots
    BY <1>1
  <2>2. p \in ToSet(in) /\ p.spare = s
    BY <2>1
  <2>3. c.sets[s] = p.new
    BY <1>3, <2>1
  <2> HIDE DEF p, s
  <2>4. PICK j \in DOMAIN in : p = in[j]
    BY <1>1, <2>2
  <2>5. \A k, l \in DOMAIN in : k # l => in[k].spare # in[l].spare
    BY DEF Incoming
  <2>6. i = j
    BY <2>1, <2>2, <2>4, <2>5
  <2> QED BY <2>3, <2>4, <2>6 DEF s
<1>7. c.sets \in [HotSlots -> Experts \cup {None}]
  <2>1. ASSUME NEW s \in HotSlots
        PROVE  c.sets[s] \in Experts \cup {None}
    <3>1. CASE \E i \in DOMAIN in : in[i].spare = s
      BY <1>1, <1>6, <3>1
    <3>2. CASE \A i \in DOMAIN in : in[i].spare # s
      BY <1>2, <1>4, <3>2
    <3> QED BY <3>1, <3>2
  <2>2. c.sets = [s \in HotSlots |-> c.sets[s]]
    BY <1>3
  <2> QED BY <2>1, <2>2
<1>8. c.cold \in [Experts -> PinnedSlots \cup {None}] /\ c.spare = r.spare
  BY <1>2, <1>3
<1>9. c = [sets |-> c.sets, cold |-> c.cold, spare |-> c.spare]
  BY <1>3
<1>10. c \in Residencies
  BY <1>2, <1>7, <1>8, <1>9 DEF Residencies
<1>11. \A i \in DOMAIN in : c.cold[in[i].new] = None
  BY <1>1, <1>5
<1> QED BY <1>4, <1>5, <1>6, <1>8, <1>10, <1>11 DEF c

\* Commit A makes every incoming expert resident, and the expert it replaces
\* one that is on its way back.
LEMMA CommitAKept ==
  ASSUME NEW r \in Residencies, NEW in \in Seq(Swaps),
         Homes(r.sets, r.cold, <<>>), Incoming(r.sets, r.cold, in, <<>>), Free(r.sets, r.spare, in, <<>>)
  PROVE  LET c == CommitA(r, in) IN Homes(c.sets, c.cold, in) /\ Free(c.sets, c.spare, <<>>, in)
<1> DEFINE c == CommitA(r, in)
           comes(e) == \E i \in DOMAIN in : in[i].new = e
           taken(s) == \E i \in DOMAIN in : in[i].spare = s
<1>1. /\ c \in Residencies /\ c.spare = r.spare
      /\ \A i \in DOMAIN in : c.sets[in[i].spare] = in[i].new /\ c.cold[in[i].new] = None
      /\ \A s \in HotSlots : (\A i \in DOMAIN in : in[i].spare # s) => c.sets[s] = r.sets[s]
      /\ \A e \in Experts : (\A i \in DOMAIN in : in[i].new # e) => c.cold[e] = r.cold[e]
  BY CommitAEntries
<1> HIDE DEF c
<1>2. /\ Len(in) \in Nat /\ DOMAIN in = 1 .. Len(in)
      /\ \A i \in DOMAIN in : /\ in[i].slot \in HotSlots /\ in[i].new \in Experts /\ in[i].evict \in Experts
                              /\ in[i].spare \in HotSlots /\ in[i].cs \in PinnedSlots
  BY SwapSeq
<1>0. None \notin Experts /\ None \notin PinnedSlots
  BY Constants
<1>3. /\ r.sets \in [HotSlots -> Experts \cup {None}] /\ r.cold \in [Experts -> PinnedSlots \cup {None}]
      /\ r.spare \in Seq(HotSlots) /\ Len(r.spare) \in Nat /\ DOMAIN r.spare = 1 .. Len(r.spare)
      /\ \A i \in DOMAIN r.spare : r.spare[i] \in HotSlots
  BY LenProperties, ElementOfSeq DEF Residencies
<1>4. /\ \A s, t \in HotSlots : r.sets[s] # None /\ r.sets[s] = r.sets[t] => s = t
      /\ \A e \in Experts : r.cold[e] = None <=> \E s \in HotSlots : r.sets[s] = e
      /\ \A e, f \in Experts : r.cold[e] # None /\ r.cold[e] = r.cold[f] => e = f
      /\ \A k \in PinnedSlots : \E e \in Experts : r.cold[e] = k
  BY DEF Homes
<1>5. /\ \A i \in DOMAIN in : /\ r.sets[in[i].slot] = in[i].evict /\ r.cold[in[i].new] = in[i].cs
                              /\ r.sets[in[i].spare] = None
      /\ \A i, j \in DOMAIN in : i # j => /\ in[i].slot # in[j].slot /\ in[i].new # in[j].new
                                          /\ in[i].spare # in[j].spare
  BY DEF Incoming
<1>6. ASSUME NEW i \in DOMAIN in, NEW s \in HotSlots
      PROVE  r.sets[s] # in[i].new
  BY <1>0, <1>2, <1>4, <1>5
<1>7. ASSUME NEW i \in DOMAIN in
      PROVE  c.sets[in[i].slot] = in[i].evict
  <2>1. \A j \in DOMAIN in : in[j].spare # in[i].slot
    BY <1>0, <1>2, <1>5
  <2> QED BY <1>1, <1>2, <1>5, <2>1
<1>8. Homes(c.sets, c.cold, in)
  <2>1. ASSUME NEW s \in HotSlots, NEW t \in HotSlots, c.sets[s] # None, c.sets[s] = c.sets[t]
        PROVE  s = t
    <3>1. CASE taken(s) /\ taken(t)
      BY <1>1, <1>5, <2>1, <3>1
    <3>2. CASE taken(s) /\ ~taken(t)
      BY <1>1, <1>6, <2>1, <3>2
    <3>3. CASE ~taken(s) /\ taken(t)
      BY <1>1, <1>6, <2>1, <3>3
    <3>4. CASE ~taken(s) /\ ~taken(t)
      BY <1>1, <1>4, <2>1, <3>4
    <3> QED BY <3>1, <3>2, <3>3, <3>4
  <2>2. ASSUME NEW e \in Experts
        PROVE  c.cold[e] = None <=> \E s \in HotSlots : c.sets[s] = e
    <3>1. CASE comes(e)
      BY <1>1, <1>2, <3>1
    <3>2. CASE ~comes(e)
      <4>1. c.cold[e] = r.cold[e]
        BY <1>1, <3>2
      <4>2. ASSUME NEW s \in HotSlots
            PROVE  c.sets[s] = e <=> r.sets[s] = e
        <5>1. CASE taken(s)
          <6>1. c.sets[s] # e /\ r.sets[s] = None
            BY <1>1, <1>5, <3>2, <5>1
          <6> QED BY <1>0, <6>1
        <5>2. CASE ~taken(s)
          BY <1>1, <5>2
        <5> QED BY <5>1, <5>2
      <4> QED BY <1>4, <4>1, <4>2
    <3> QED BY <3>1, <3>2
  <2>3. \A e \in Experts : c.cold[e] = None \/ c.cold[e] = r.cold[e]
    BY <1>1
  <2>4. \A e, f \in Experts : c.cold[e] # None /\ c.cold[e] = c.cold[f] => e = f
    BY <1>4, <2>3
  <2>5. ASSUME NEW i \in DOMAIN in, NEW e \in Experts
        PROVE  c.cold[e] # in[i].cs
    <3>1. CASE e = in[i].new
      BY <1>0, <1>1, <1>2, <3>1
    <3>2. CASE e # in[i].new
      <4>1. r.cold[e] # in[i].cs
        BY <1>0, <1>2, <1>4, <1>5, <3>2
      <4> QED BY <1>0, <1>2, <2>3, <4>1
    <3> QED BY <3>1, <3>2
  <2>6. ASSUME NEW i \in DOMAIN in, NEW j \in DOMAIN in, i # j
        PROVE  in[i].slot # in[j].slot /\ in[i].cs # in[j].cs
    <3>1. in[i].slot # in[j].slot /\ in[i].new # in[j].new
      BY <1>5, <2>6
    <3>2. r.cold[in[i].new] = in[i].cs /\ r.cold[in[j].new] = in[j].cs /\ in[i].cs # None
      BY <1>0, <1>2, <1>5
    <3>3. in[i].new \in Experts /\ in[j].new \in Experts
      BY <1>2
    <3> QED BY <1>4, <3>1, <3>2, <3>3
  <2>7. ASSUME NEW k \in PinnedSlots
        PROVE  (\E e \in Experts : c.cold[e] = k) \/ (\E i \in DOMAIN in : in[i].cs = k)
    <3>1. PICK e \in Experts : r.cold[e] = k
      BY <1>4
    <3>2. CASE comes(e)
      BY <1>5, <3>1, <3>2
    <3>3. CASE ~comes(e)
      BY <1>1, <3>1, <3>3
    <3> QED BY <3>2, <3>3
  <2> QED BY <1>7, <2>1, <2>2, <2>4, <2>5, <2>6, <2>7 DEF Homes
<1>9. Free(c.sets, c.spare, <<>>, in)
  <2>1. /\ \A i, j \in DOMAIN r.spare : r.spare[i] = r.spare[j] => i = j
        /\ \A i \in DOMAIN r.spare : r.sets[r.spare[i]] = None
        /\ \A i \in DOMAIN in, j \in DOMAIN r.spare : in[i].spare # r.spare[j]
        /\ \A s \in HotSlots : r.sets[s] = None => \/ \E i \in DOMAIN r.spare : r.spare[i] = s
                                                   \/ \E i \in DOMAIN in : in[i].spare = s
        /\ Len(r.spare) + Len(in) + Len(<<>>) = Spares
    BY DEF Free
  <2>2. \A i \in DOMAIN r.spare : c.sets[r.spare[i]] = None
    BY <1>1, <1>3, <2>1
  <2>3. ASSUME NEW s \in HotSlots, c.sets[s] = None
        PROVE  \E i \in DOMAIN r.spare : r.spare[i] = s
    <3>1. ~taken(s)
      BY <1>0, <1>1, <1>2, <2>3
    <3>2. r.sets[s] = None
      BY <1>1, <2>3, <3>1
    <3> QED BY <2>1, <3>1, <3>2
  <2>4. Len(r.spare) + Len(<<>>) + Len(in) = Spares
    BY <1>2, <1>3, <2>1
  <2> QED BY <1>1, <2>1, <2>2, <2>3, <2>4 DEF Free
<1> QED BY <1>8, <1>9 DEF c

\* What landing does to the books of the residency.
LandedRes(x) == CommitA(CommitB(x.res, x.tr.inB), x.tr.inA)
LandOps(x)   == <<WaitFor("side", x.tr.sideGen), Flip(FillTable(LandedRes(x)))>>

\* Both commits of a landing, entry by entry.
LEMMA LandedEntries ==
  ASSUME NEW x, Kept(x), x.tr.pend = None
  PROVE  LET c == LandedRes(x) IN
         /\ c \in Residencies /\ Homes(c.sets, c.cold, x.tr.inA) /\ Free(c.sets, c.spare, <<>>, x.tr.inA)
         /\ \A i \in DOMAIN x.tr.inA : /\ c.sets[x.tr.inA[i].spare] = x.tr.inA[i].new
                                       /\ c.cold[x.tr.inA[i].new] = None
         /\ \A i \in DOMAIN x.tr.inB : c.cold[x.tr.inB[i].evict] = x.tr.inB[i].cs
         /\ \A s \in HotSlots : c.sets[s] \in {None, x.res.sets[s]} \/ \E i \in DOMAIN x.tr.inA : x.tr.inA[i].spare = s
         /\ \A e \in Experts : \/ c.cold[e] \in {None, x.res.cold[e]}
                               \/ \E i \in DOMAIN x.tr.inB : x.tr.inB[i].evict = e
         /\ \A e \in Experts : /\ \A i \in DOMAIN x.tr.inA : x.tr.inA[i].new # e
                               /\ x.res.cold[e] # None
                               => c.cold[e] # None
<1> DEFINE r == x.res
           in == x.tr.inA
           back == x.tr.inB
           b == CommitB(r, back)
           c == CommitA(b, in)
<1>1. /\ r \in Residencies /\ in \in Seq(Swaps) /\ back \in Seq(Swaps)
      /\ Homes(r.sets, r.cold, back) /\ Incoming(r.sets, r.cold, in, back) /\ Free(r.sets, r.spare, in, back)
  BY DEF Kept, Books, Trickles, Back
<1> HIDE DEF r, in, back
<1>2. /\ b \in Residencies
      /\ \A i \in DOMAIN back : b.sets[back[i].slot] = None /\ b.cold[back[i].evict] = back[i].cs
      /\ \A s \in HotSlots : (\A i \in DOMAIN back : back[i].slot # s) => b.sets[s] = r.sets[s]
      /\ \A e \in Experts : (\A i \in DOMAIN back : back[i].evict # e) => b.cold[e] = r.cold[e]
  BY <1>1, CommitBEntries
<1>3. Homes(b.sets, b.cold, <<>>) /\ Incoming(b.sets, b.cold, in, <<>>) /\ Free(b.sets, b.spare, in, <<>>)
  BY <1>1, CommitBKept
<1> HIDE DEF b
<1>4. /\ c \in Residencies
      /\ \A i \in DOMAIN in : c.sets[in[i].spare] = in[i].new /\ c.cold[in[i].new] = None
      /\ \A s \in HotSlots : (\A i \in DOMAIN in : in[i].spare # s) => c.sets[s] = b.sets[s]
      /\ \A e \in Experts : (\A i \in DOMAIN in : in[i].new # e) => c.cold[e] = b.cold[e]
  BY <1>1, <1>2, <1>3, CommitAEntries
<1>5. Homes(c.sets, c.cold, in) /\ Free(c.sets, c.spare, <<>>, in)
  BY <1>1, <1>2, <1>3, CommitAKept
<1> HIDE DEF c
<1>6. ASSUME NEW i \in DOMAIN back
      PROVE  c.cold[back[i].evict] = back[i].cs
  <2>1. /\ back[i].evict \in Experts /\ back[i].slot \in HotSlots /\ back[i].evict # None
        /\ \A j \in DOMAIN in : in[j].new \in Experts /\ in[j].cs # None
    BY <1>1, SwapSeq, Constants
  <2>2. r.sets[back[i].slot] = back[i].evict
    BY <1>1 DEF Homes
  <2>3. r.cold[back[i].evict] = None
    BY <1>1, <2>1, <2>2 DEF Homes
  <2>4. \A j \in DOMAIN in : r.cold[in[j].new] = in[j].cs
    BY <1>1 DEF Incoming
  <2>5. \A j \in DOMAIN in : in[j].new # back[i].evict
    BY <2>1, <2>3, <2>4
  <2> QED BY <1>2, <1>4, <2>1, <2>5
<1>7. ASSUME NEW s \in HotSlots, \A i \in DOMAIN in : in[i].spare # s
      PROVE  c.sets[s] \in {None, r.sets[s]}
  <2>1. c.sets[s] = b.sets[s]
    BY <1>4, <1>7
  <2>2. b.sets[s] = None \/ b.sets[s] = r.sets[s]
    BY <1>2
  <2> QED BY <2>1, <2>2
<1>8. ASSUME NEW e \in Experts, \A i \in DOMAIN back : back[i].evict # e
      PROVE  c.cold[e] \in {None, r.cold[e]}
  <2>1. b.cold[e] = r.cold[e]
    BY <1>2, <1>8
  <2>2. c.cold[e] = None \/ c.cold[e] = b.cold[e]
    BY <1>4
  <2> QED BY <2>1, <2>2
<1>10. ASSUME NEW e \in Experts, \A i \in DOMAIN in : in[i].new # e, r.cold[e] # None
       PROVE  c.cold[e] # None
  <2>1. c.cold[e] = b.cold[e]
    BY <1>4, <1>10
  <2>2. CASE \E i \in DOMAIN back : back[i].evict = e
    <3>1. \A i \in DOMAIN back : back[i].cs # None
      BY <1>1, SwapSeq, Constants
    <3> QED BY <1>2, <2>1, <2>2, <3>1
  <2>3. CASE \A i \in DOMAIN back : back[i].evict # e
    BY <1>2, <1>10, <2>1, <2>3
  <2> QED BY <2>2, <2>3
<1>9. LandedRes(x) = c
  BY DEF LandedRes, c, b, r, in, back
<1> QED BY <1>4, <1>5, <1>6, <1>7, <1>8, <1>9, <1>10 DEF r, in, back

\* Between landing and parking: the swaps of phase A that just landed are on
\* their way back, and in no list yet.
Loose(y, back) ==
  /\ y \in Books /\ back \in Seq(Swaps)
  /\ y.tr.inA = <<>> /\ y.tr.inB = <<>> /\ y.tr.pend = None
  /\ Homes(y.res.sets, y.res.cold, back) /\ Free(y.res.sets, y.res.spare, <<>>, back)

\* LandSwaps, field by field.
LEMMA LandFields ==
  ASSUME NEW x, Kept(x), x.tr.pend = None
  PROVE  LET y == LandSwaps(x) IN
         /\ Loose(y, x.tr.inA)
         /\ y.tr.sideGen = x.tr.sideGen /\ y.tr.commitGen = x.tr.commitGen /\ y.tr.mtp = x.tr.mtp
         /\ y.queue.side = x.queue.side
         /\ \/ x.tr.inA = <<>> /\ x.tr.inB = <<>> /\ y = x
            \/ y.res = LandedRes(x) /\ y.queue.compute = x.queue.compute \o LandOps(x)
         /\ Len(LandOps(x)) = 2 /\ LandOps(x) \in Seq(Ops)
<1> DEFINE y == LandSwaps(x)
           r == LandedRes(x)
<1>1. /\ x \in Books /\ x.tr \in Trickles /\ x.queue \in Queues /\ x.res \in Residencies
      /\ x.tr.inA \in Seq(Swaps)
      /\ Homes(x.res.sets, x.res.cold, x.tr.inB) /\ Free(x.res.sets, x.res.spare, x.tr.inA, x.tr.inB)
  BY DEF Kept, Books, Trickles, Back
<1>2. r \in Residencies /\ Homes(r.sets, r.cold, x.tr.inA) /\ Free(r.sets, r.spare, <<>>, x.tr.inA)
  BY LandedEntries
<1>3. LandOps(x) \in Seq(Ops) /\ Len(LandOps(x)) = 2
  <2>1. WaitFor("side", x.tr.sideGen) \in Ops
    BY <1>1 DEF WaitFor, Ops, Trickles
  <2>2. FillTable(r) \in Tables
    BY <1>2, TableOf
  <2>3. Flip(FillTable(r)) \in Ops
    BY <2>2 DEF Flip, Ops
  <2> QED BY <2>1, <2>3 DEF LandOps
<1>4. CASE x.tr.inA = <<>> /\ x.tr.inB = <<>>
  <2>1. y = x
    BY <1>4 DEF LandSwaps
  <2> QED BY <1>1, <1>3, <1>4, <2>1 DEF Loose
<1>5. CASE ~(x.tr.inA = <<>> /\ x.tr.inB = <<>>)
  <2>1. y = [res   |-> r, tr |-> [x.tr EXCEPT !.inA = <<>>, !.inB = <<>>],
             queue |-> [x.queue EXCEPT !.compute = x.queue.compute \o LandOps(x)]]
    BY <1>5 DEF LandSwaps, LandedRes, LandOps
  <2> HIDE DEF r, y
  <2>2. /\ y.tr \in Trickles /\ y.tr.inA = <<>> /\ y.tr.inB = <<>> /\ y.tr.pend = None
        /\ y.tr.sideGen = x.tr.sideGen /\ y.tr.commitGen = x.tr.commitGen /\ y.tr.mtp = x.tr.mtp
    <3> DEFINE t == x.tr
               u == y.tr
    <3>1. u = [t EXCEPT !.inA = <<>>, !.inB = <<>>] /\ <<>> \in Seq(Swaps)
      BY <2>1
    <3>2. t \in Trickles /\ t.pend = None
      BY <1>1
    <3> HIDE DEF t, u
    <3>3. /\ u \in Trickles /\ u.inA = <<>> /\ u.inB = <<>> /\ u.pend = None
          /\ u.sideGen = t.sideGen /\ u.commitGen = t.commitGen /\ u.mtp = t.mtp
      BY <3>1, <3>2 DEF Trickles
    <3> QED BY <3>3 DEF t, u
  <2>3. x.queue.compute \o LandOps(x) \in Seq(Ops)
    BY <1>1, <1>3, ConcatProperties DEF Queues
  <2>4. /\ y.queue \in Queues /\ y.queue.compute = x.queue.compute \o LandOps(x)
        /\ y.queue.side = x.queue.side
    BY <1>1, <2>1, <2>3 DEF Queues
  <2>5. y.res = r /\ y \in Books
    BY <1>2, <2>1, <2>2, <2>4 DEF Books
  <2> QED BY <1>1, <1>2, <1>3, <2>2, <2>4, <2>5 DEF Loose, r, y
<1> QED BY <1>4, <1>5

----------------------------------------------------------------------------
(* Parking a plan.                                                           *)

\* The state with the batch parked, before it is issued (or not).
Batched(y, toB, news) ==
  [res   |-> y.res,
   tr    |-> [y.tr EXCEPT !.pend = [toB |-> toB, newA |-> news], !.commitGen = NextGen(y.tr.commitGen)],
   queue |-> [y.queue EXCEPT !.compute = Append(y.queue.compute, Record("commit", NextGen(y.tr.commitGen)))]]

\* Park as its three cases.
LEMMA ParkIs ==
  ASSUME NEW y, NEW toB, NEW news
  PROVE  Park(y, toB, news) = IF toB = <<>> /\ news = <<>> THEN y
                              ELSE IF Defer THEN Batched(y, toB, news) ELSE Issue(Batched(y, toB, news))
BY DEF Park, Batched, NextGen

\* z is y with a plan that can be issued parked in it.
Parks(z, y, toB, news) ==
  /\ Loose(y, toB) /\ z = Batched(y, toB, news)
  /\ news \in Seq([slot : HotSlots, new : Experts])
  /\ Planned(y.res.sets, y.res.cold, y.res.spare, toB, news)

\* A parked plan, field by field.
LEMMA BatchedFields ==
  ASSUME NEW z, NEW y, NEW toB, NEW news, Parks(z, y, toB, news)
  PROVE  /\ z \in Books /\ z.res = y.res
         /\ z.tr.pend # None /\ z.tr.pend.toB = toB /\ z.tr.pend.newA = news
         /\ z.tr.inA = <<>> /\ z.tr.inB = <<>> /\ z.tr.mtp = y.tr.mtp
<1> DEFINE b == [toB |-> toB, newA |-> news]
           g == NextGen(y.tr.commitGen)
           rec == Record("commit", g)
<1>1. /\ y \in Books /\ y.tr \in Trickles /\ y.queue \in Queues /\ y.res \in Residencies
      /\ y.tr.inA = <<>> /\ y.tr.inB = <<>> /\ toB \in Seq(Swaps)
      /\ news \in Seq([slot : HotSlots, new : Experts]) /\ z = Batched(y, toB, news)
  BY DEF Parks, Loose, Books
<1>2. b \in Batches /\ b.toB = toB /\ b.newA = news
  BY <1>1 DEF Batches
<1>3. b # None
  BY <1>2, Constants
<1>4. g \in Gens
  BY <1>1 DEF Trickles, Gens, NextGen
<1>5. rec \in Ops
  BY <1>4 DEF Record, Ops
<1>7. /\ z.res = y.res /\ z = [res |-> z.res, tr |-> z.tr, queue |-> z.queue]
      /\ z.tr = [y.tr EXCEPT !.pend = b, !.commitGen = g]
      /\ z.queue = [y.queue EXCEPT !.compute = Append(y.queue.compute, rec)]
  BY <1>1 DEF Batched
<1> HIDE DEF b, g, rec
<1>8. Append(y.queue.compute, rec) \in Seq(Ops)
  BY <1>1, <1>5 DEF Queues
<1>9. /\ z.queue \in Queues /\ z.queue.side = y.queue.side
      /\ z.queue.compute = Append(y.queue.compute, rec)
  BY <1>1, <1>7, <1>8 DEF Queues
<1>10. /\ z.tr \in Trickles /\ z.tr.pend = b /\ z.tr.commitGen = g /\ z.tr.inA = <<>> /\ z.tr.inB = <<>>
       /\ z.tr.sideGen = y.tr.sideGen /\ z.tr.mtp = y.tr.mtp
  BY <1>1, <1>2, <1>4, <1>7 DEF Trickles
<1>11. z \in Books
  BY <1>1, <1>7, <1>9, <1>10 DEF Books
<1> QED BY <1>2, <1>3, <1>7, <1>10, <1>11 DEF b, g, rec

\* What parking a plan adds to the compute stream.
LEMMA BatchedQueue ==
  ASSUME NEW z, NEW y, NEW toB, NEW news, Parks(z, y, toB, news)
  PROVE  /\ z.tr.sideGen = y.tr.sideGen /\ z.tr.commitGen = NextGen(y.tr.commitGen)
         /\ z.queue.side = y.queue.side
         /\ z.queue.compute = Append(y.queue.compute, Record("commit", NextGen(y.tr.commitGen)))
         /\ Record("commit", NextGen(y.tr.commitGen)) \in Ops
<1>1. y.tr \in Trickles /\ y.queue \in Queues
  BY DEF Parks, Loose, Books
<1>2. NextGen(y.tr.commitGen) \in Gens
  BY <1>1 DEF Trickles, Gens, NextGen
<1> QED BY <1>1, <1>2 DEF Parks, Batched, Record, Ops, Trickles, Queues

\* Parking a plan that can be issued keeps the books.
LEMMA BatchedKept ==
  ASSUME NEW z, NEW y, NEW toB, NEW news, Parks(z, y, toB, news)
  PROVE  Kept(z)
<1>1. /\ z \in Books /\ z.res = y.res /\ z.tr.pend # None
      /\ z.tr.pend.toB = toB /\ z.tr.pend.newA = news /\ z.tr.inA = <<>> /\ z.tr.inB = <<>>
  BY BatchedFields
<1>0. Loose(y, toB) /\ Planned(y.res.sets, y.res.cold, y.res.spare, toB, news)
  BY DEF Parks
<1>2. Back(z.tr) = toB
  BY <1>1 DEF Back
<1>3. Homes(z.res.sets, z.res.cold, toB) /\ Free(z.res.sets, z.res.spare, <<>>, toB)
  BY <1>0, <1>1 DEF Loose
<1>4. Incoming(z.res.sets, z.res.cold, <<>>, toB)
  BY DEF Incoming
<1>5. Parked(z)
  BY <1>0, <1>1 DEF Parked
<1> QED BY <1>1, <1>2, <1>3, <1>4, <1>5 DEF Kept

\* Whatever plan_swaps returns can be issued.
LEMMA PlansPlanned ==
  ASSUME NEW y, NEW toB, Loose(y, toB), NEW news \in Plans(y.res, toB)
  PROVE  /\ news \in Seq([slot : HotSlots, new : Experts])
         /\ Planned(y.res.sets, y.res.cold, y.res.spare, toB, news)
<1> DEFINE r == y.res
<1>1. /\ r \in Residencies /\ toB \in Seq(Swaps) /\ Homes(r.sets, r.cold, toB) /\ r.spare \in Seq(HotSlots)
      /\ Len(r.spare) \in Nat
  BY LenProperties DEF Loose, Books, Residencies
<1>2. PICK k \in 0 .. Len(r.spare) :
        /\ news \in [1 .. k -> [slot : Evictable(r, toB), new : Experts \ Resident(r)]]
        /\ \A i, j \in 1 .. k : i # j => news[i].slot # news[j].slot /\ news[i].new # news[j].new
  BY DEF Plans
<1>3. DOMAIN news = 1 .. k /\ k \in Nat /\ k <= Len(r.spare)
  BY <1>1, <1>2
<1>4. ASSUME NEW i \in 1 .. k
      PROVE  /\ news[i] \in [slot : HotSlots, new : Experts]
             /\ r.sets[news[i].slot] # None /\ r.cold[news[i].new] # None
             /\ \A j \in DOMAIN toB : news[i].slot # toB[j].slot
  <2>1. /\ news[i] \in [slot : Evictable(r, toB), new : Experts \ Resident(r)]
        /\ news[i].slot \in Evictable(r, toB) /\ news[i].new \in Experts /\ news[i].new \notin Resident(r)
    BY <1>2
  <2>2. /\ news[i].slot \in HotSlots /\ r.sets[news[i].slot] # None
        /\ \A p \in ToSet(toB) : news[i].slot # p.slot
    BY <2>1 DEF Evictable
  <2>3. \A j \in DOMAIN toB : toB[j] \in ToSet(toB)
    BY DEF ToSet
  <2>4. \A s \in HotSlots : r.sets[s] # news[i].new
    BY <2>1, Constants DEF Resident
  <2>5. r.cold[news[i].new] # None
    BY <1>1, <2>1, <2>4 DEF Homes
  <2> QED BY <2>1, <2>2, <2>3, <2>5
<1>5. news \in [1 .. k -> [slot : HotSlots, new : Experts]]
  BY <1>2, <1>4
<1>6. news \in Seq([slot : HotSlots, new : Experts]) /\ Len(news) = k
  BY <1>3, <1>5, FunctionSeq, Zenon
<1> QED BY <1>2, <1>3, <1>4, <1>6 DEF Planned

----------------------------------------------------------------------------
(* A tick, and a drain, as the steps they are made of.                       *)

\* The expert a swap in flight or parked evicts.
Evicted(x, e) == \/ \E i \in DOMAIN x.tr.inA : x.tr.inA[i].evict = e
                 \/ \E i \in DOMAIN Back(x.tr) : Back(x.tr)[i].evict = e

\* y forgets no swap of x: what it does not evict any more is cold again.
Returns(x, y) == \A e \in Experts : Evicted(x, e) => Evicted(y, e) \/ y.res.cold[e] # None

\* Issuing forgets no swap and moves no expert.
LEMMA IssueReturns ==
  ASSUME NEW x, Kept(x)
  PROVE  /\ \A e \in Experts : Evicted(x, e) => Evicted(Issue(x), e)
         /\ Returns(x, Issue(x)) /\ \A e \in Experts : Issue(x).res.cold[e] = x.res.cold[e]
<1>1. CASE x.tr.pend = None
  BY <1>1 DEF Issue, Returns
<1>2. CASE x.tr.pend # None
  <2> DEFINE y == Issue(x)
  <2>1. /\ y.res.cold = x.res.cold /\ y.tr.pend = None /\ y.tr.inB = x.tr.pend.toB
    BY <1>2, IssueFields
  <2>2. x.tr.inA = <<>>
    BY <1>2 DEF Kept, Parked
  <2> HIDE DEF y
  <2>3. Back(y.tr) = Back(x.tr)
    BY <1>2, <2>1 DEF Back
  <2>4. \A e \in Experts : Evicted(x, e) => Evicted(y, e)
    BY <2>2, <2>3 DEF Evicted
  <2> QED BY <2>1, <2>4 DEF Returns, y
<1> QED BY <1>1, <1>2

\* A batch that starts nothing leaves nothing in phase A.
LEMMA IssueStartsNone ==
  ASSUME NEW x, Kept(x), x.tr.pend = None => x.tr.inA = <<>>, x.tr.pend # None => x.tr.pend.newA = <<>>
  PROVE  Issue(x).tr.inA = <<>>
<1>1. CASE x.tr.pend = None
  BY <1>1 DEF Issue
<1>2. CASE x.tr.pend # None
  <2>1. Issue(x).tr.inA = New(x)
    BY <1>2, IssueFields
  <2>2. New(x) \in Seq(Swaps) /\ Len(New(x)) = Len(x.tr.pend.newA)
    BY <1>2, StartedSwaps
  <2>3. Len(New(x)) = 0
    BY <1>2, <2>2
  <2> QED BY <2>1, <2>2, <2>3, EmptySeq
<1> QED BY <1>1, <1>2

\* x, with nothing parked, after the commits of a tick that plans news.
Ticks(x, y, news) ==
  /\ Kept(x) /\ x.tr.pend = None
  /\ y = Park(LandSwaps(x), x.tr.inA, news)
  /\ news \in Seq([slot : HotSlots, new : Experts])
  /\ Planned(LandSwaps(x).res.sets, LandSwaps(x).res.cold, LandSwaps(x).res.spare, x.tr.inA, news)

\* A tick keeps the books and forgets no swap, whether the copies go out
\* at once or stay parked.
LEMMA TickKept ==
  ASSUME NEW x, NEW y, NEW news, Ticks(x, y, news)
  PROVE  /\ Kept(y) /\ Kept(Issue(y))
         /\ Returns(x, y) /\ Returns(x, Issue(y))
         /\ \A e \in Experts : /\ \A i \in DOMAIN x.tr.inA : x.tr.inA[i].new # e
                               /\ x.res.cold[e] # None
                               => Issue(y).res.cold[e] # None
         /\ Issue(y).tr.pend = None /\ (news = <<>> => Issue(y).tr.inA = <<>>)
<1> DEFINE l == LandSwaps(x)
           in == x.tr.inA
           z == Batched(l, in, news)
<1>1. /\ Kept(x) /\ x.tr.pend = None /\ Loose(l, in) /\ y = Park(l, in, news)
      /\ news \in Seq([slot : HotSlots, new : Experts])
      /\ Planned(l.res.sets, l.res.cold, l.res.spare, in, news)
  BY LandFields DEF Ticks
<1>2. /\ \A e \in Experts : (\E i \in DOMAIN x.tr.inB : x.tr.inB[i].evict = e) => l.res.cold[e] # None
      /\ \A e \in Experts : (\A i \in DOMAIN in : in[i].new # e) /\ x.res.cold[e] # None => l.res.cold[e] # None
  <2>1. \/ in = <<>> /\ x.tr.inB = <<>> /\ l = x
        \/ l.res = LandedRes(x)
    BY <1>1, LandFields
  <2>2. CASE in = <<>> /\ x.tr.inB = <<>> /\ l = x
    BY <2>2
  <2>3. CASE l.res = LandedRes(x)
    <3>1. \A i \in DOMAIN x.tr.inB : x.tr.inB[i].cs # None
      <4>1. x.tr.inB \in Seq(Swaps)
        BY <1>1 DEF Kept, Books, Trickles
      <4> QED BY <4>1, SwapSeq, Constants
    <3>2. /\ \A i \in DOMAIN x.tr.inB : LandedRes(x).cold[x.tr.inB[i].evict] = x.tr.inB[i].cs
          /\ \A e \in Experts : /\ \A i \in DOMAIN in : in[i].new # e
                                /\ x.res.cold[e] # None
                                => LandedRes(x).cold[e] # None
      BY <1>1, LandedEntries
    <3> QED BY <2>3, <3>1, <3>2
  <2> QED BY <2>1, <2>2, <2>3
<1> HIDE DEF l, in, z
<1>3. \/ y = l /\ in = <<>> /\ news = <<>>
      \/ y \in {z, Issue(z)}
  BY <1>1, ParkIs DEF z
<1>4. CASE y = l /\ in = <<>> /\ news = <<>>
  <2>1. Kept(l) /\ l.tr.pend = None /\ l.tr.inA = <<>>
    BY <1>1, <1>4 DEF Loose, Kept, Incoming, Parked, Back
  <2>2. Issue(y) = y
    BY <1>4, <2>1 DEF Issue
  <2>3. Returns(x, y)
    <3>1. \A e \in Experts : Evicted(x, e) => \E i \in DOMAIN x.tr.inB : x.tr.inB[i].evict = e
      BY <1>1, <1>4 DEF Evicted, Back, in
    <3> QED BY <1>2, <1>4, <3>1 DEF Returns
  <2> QED BY <1>2, <1>4, <2>1, <2>2, <2>3 DEF in
<1>5. CASE y \in {z, Issue(z)}
  <2>1. Parks(z, l, in, news)
    BY <1>1 DEF Parks, z
  <2>2. /\ z.res = l.res /\ z.tr.pend # None /\ z.tr.pend.toB = in /\ z.tr.pend.newA = news
        /\ z.tr.inA = <<>> /\ z.tr.inB = <<>>
    BY <2>1, BatchedFields
  <2>3. Kept(z)
    BY <2>1, BatchedKept
  <2>4. Kept(Issue(z)) /\ Issue(z).tr.pend = None
    BY <2>3, IssueKept
  <2>5. Issue(Issue(z)) = Issue(z)
    BY <2>4 DEF Issue
  <2>6. Returns(z, Issue(z)) /\ \A e \in Experts : Issue(z).res.cold[e] = l.res.cold[e]
    BY <2>2, <2>3, IssueReturns
  <2>7. ASSUME NEW e \in Experts, Evicted(x, e)
        PROVE  Evicted(z, e) \/ l.res.cold[e] # None
    <3>1. (\E i \in DOMAIN in : in[i].evict = e) \/ (\E i \in DOMAIN x.tr.inB : x.tr.inB[i].evict = e)
      BY <1>1, <2>7 DEF Evicted, Back, in
    <3>2. Back(z.tr) = in
      BY <2>2 DEF Back
    <3> QED BY <1>2, <3>1, <3>2 DEF Evicted
  <2>8. Returns(x, z) /\ Returns(x, Issue(z))
    BY <2>2, <2>6, <2>7 DEF Returns
  <2>9. news = <<>> => Issue(z).tr.inA = <<>>
    BY <2>2, <2>3, IssueStartsNone
  <2> QED BY <1>2, <1>5, <2>3, <2>4, <2>5, <2>6, <2>8, <2>9 DEF in
<1> QED BY <1>3, <1>4, <1>5

\* Nothing in flight, nothing parked.
Settled(x) == x.tr.inA = <<>> /\ x.tr.inB = <<>> /\ x.tr.pend = None

\* A quiet tick is a tick that plans nothing.
LEMMA QuietTicks ==
  ASSUME NEW x, Kept(x), x.tr.pend = None
  PROVE  Ticks(x, QuietTick(x), <<>>)
<1>1. Issue(x) = x
  BY DEF Issue
<1>2. QuietTick(x) = Park(LandSwaps(x), x.tr.inA, <<>>)
  BY <1>1 DEF QuietTick
<1> DEFINE l == LandSwaps(x)
<1>3. Loose(l, x.tr.inA)
  BY LandFields
<1> HIDE DEF l
<1>4. Len(l.res.spare) \in Nat
  BY <1>3, LenProperties DEF Loose, Books, Residencies
<1>5. Planned(l.res.sets, l.res.cold, l.res.spare, x.tr.inA, <<>>)
  BY <1>4 DEF Planned
<1> QED BY <1>2, <1>5 DEF Ticks, l

\* Two quiet ticks settle the layer, and every swap that was in flight is back.
LEMMA DrainKept ==
  ASSUME NEW x, Kept(x)
  PROVE  /\ Kept(Drain(x)) /\ Returns(x, Drain(x))
         /\ \/ Issue(x).tr.inA = <<>> /\ Issue(x).tr.inB = <<>> /\ Drain(x) = Issue(x)
            \/ ~(Issue(x).tr.inA = <<>> /\ Issue(x).tr.inB = <<>>) /\ Settled(Drain(x))
<1> DEFINE y == Issue(x)
           q == QuietTick(y)
           z == Issue(q)
           w == QuietTick(z)
<1>1. Kept(y) /\ y.tr.pend = None /\ Returns(x, y)
  BY IssueKept, IssueReturns
<1>2. CASE y.tr.inA = <<>> /\ y.tr.inB = <<>>
  BY <1>1, <1>2 DEF Drain
<1>3. CASE ~(y.tr.inA = <<>> /\ y.tr.inB = <<>>)
  <2>1. Drain(x) = Issue(w)
    BY <1>3 DEF Drain
  <2> HIDE DEF y
  <2>2. Ticks(y, q, <<>>)
    BY <1>1, QuietTicks
  <2> HIDE DEF q
  <2>3. Kept(z) /\ Returns(y, z) /\ z.tr.pend = None /\ z.tr.inA = <<>>
    BY <2>2, TickKept
  <2> HIDE DEF z
  <2>4. Ticks(z, w, <<>>)
    BY <2>3, QuietTicks
  <2>5. w = Park(LandSwaps(z), <<>>, <<>>)
    BY <2>3, <2>4 DEF Ticks
  <2>6. w = LandSwaps(z)
    BY <2>5, ParkIs
  <2>7. Settled(w)
    <3>1. Loose(LandSwaps(z), z.tr.inA)
      BY <2>3, LandFields
    <3> QED BY <2>6, <3>1 DEF Loose, Settled
  <2> HIDE DEF w
  <2>8. Issue(w) = w
    BY <2>7 DEF Issue, Settled
  <2>9. /\ Kept(w) /\ Returns(z, w)
        /\ \A e \in Experts : z.res.cold[e] # None => w.res.cold[e] # None
    BY <2>3, <2>4, <2>8, TickKept
  <2>10. \A e \in Experts : Evicted(y, e) => Evicted(w, e) \/ w.res.cold[e] # None
    BY <2>3, <2>9 DEF Returns
  <2>11. \A e \in Experts : ~Evicted(w, e)
    BY <2>7 DEF Evicted, Settled, Back
  <2>12. Returns(x, w)
    <3>1. \A e \in Experts : Evicted(x, e) => Evicted(y, e)
      BY IssueReturns DEF y
    <3> QED BY <2>10, <3>1 DEF Returns
  <2> QED BY <1>3, <2>1, <2>7, <2>8, <2>9, <2>12 DEF y
<1> QED BY <1>2, <1>3

----------------------------------------------------------------------------
(* The streams: what the device may do with the work it has been given.     *)

Gpus    == [table : Tables, slab : [Places -> Experts \cup {None}], copying : BOOLEAN]
Devices == Gpus \X Seq(Ops) \X Seq(Ops)

\* A wait is ready when the record it names is in no queue; other work always is.
Ready(op, c, s) ==
  op.op = "wait" => LET recorder == IF op.ev = "side" THEN s ELSE c
                    IN \A i \in 1 .. Len(recorder) : recorder[i] # Record(op.ev, op.gen)

After(g, op)  == IF op.op = "flip" THEN [g EXCEPT !.table = op.table] ELSE g
Opened(g, op) == [g EXCEPT !.copying = TRUE, !.slab[op.to] = None]
Copied(g, op) == [g EXCEPT !.copying = FALSE, !.slab[op.to] = g.slab[op.from]]

\* A set of devices (what they hold, the two queues) no step of a stream leaves.
Closed(D) ==
  \A g \in Gpus, c \in Seq(Ops), s \in Seq(Ops) : <<g, c, s>> \in D =>
    /\ c # <<>> /\ Ready(Head(c), c, s) => <<After(g, Head(c)), Tail(c), s>> \in D
    /\ s # <<>> /\ Head(s).op # "copy" /\ Ready(Head(s), c, s) => <<g, c, Tail(s)>> \in D
    /\ s # <<>> /\ Head(s).op = "copy" /\ ~g.copying => <<Opened(g, Head(s)), c, s>> \in D
    /\ s # <<>> /\ Head(s).op = "copy" /\ g.copying => <<Copied(g, Head(s)), c, Tail(s)>> \in D

Exact(g) == \A e \in Experts : g.table[e] \in Places /\ g.slab[g.table[e]] = e
Quiet(c) == \A i \in 1 .. Len(c) : c[i] = Pass

\* The device when all that was issued is done: the table of the books, and
\* the bytes of every swap in flight where its next commit will look for them.
Landed(g, x) ==
  /\ g.table = FillTable(x.res) /\ ~g.copying
  /\ \A i \in DOMAIN x.tr.inA : g.slab[Hot(x.tr.inA[i].spare)] = x.tr.inA[i].new
  /\ \A i \in DOMAIN x.tr.inB : g.slab[Pinned(x.tr.inB[i].cs)] = x.tr.inB[i].evict

\* What the host relies on in every device state there may be from here on: an
\* exact table; the side stream's last work is the record the next landing
\* waits for; once the record a parked batch will wait for has executed, nothing
\* but passes is queued; and when both streams are through, the copies landed.
Future(D, x) ==
  /\ D \subseteq Devices /\ Closed(D)
  /\ \A g \in Gpus, c \in Seq(Ops), s \in Seq(Ops) : <<g, c, s>> \in D =>
       /\ Exact(g)
       /\ s # <<>> => s[Len(s)] = Record("side", x.tr.sideGen)
       /\ x.tr.pend # None => \/ Quiet(c)
                              \/ \E i \in 1 .. Len(c) : c[i] = Record("commit", x.tr.commitGen)
       /\ s = <<>> /\ Quiet(c) => Landed(g, x)

FutureInv == \E D : Future(D, Now) /\ <<gpu, queue.compute, queue.side>> \in D

----------------------------------------------------------------------------
(* Work added behind the compute stream's queue.                             *)

\* The devices of D with op behind their compute queues.
Behind(D, op) == {d \in Devices : \E c \in Seq(Ops) : d[2] = Append(c, op) /\ <<d[1], c, d[3]>> \in D}

\* Membership in Behind, for a device written as a triple.
LEMMA InBehind ==
  ASSUME NEW D, D \subseteq Devices, NEW op \in Ops, NEW g, NEW c, NEW s
  PROVE  <<g, c, s>> \in Behind(D, op) <=> /\ g \in Gpus /\ c \in Seq(Ops) /\ s \in Seq(Ops)
                                           /\ \E q \in Seq(Ops) : c = Append(q, op) /\ <<g, q, s>> \in D
BY DEF Behind, Devices

\* A device of D with op appended is behind D.
LEMMA GoesBehind ==
  ASSUME NEW D, D \subseteq Devices, NEW op \in Ops, NEW g, NEW q, NEW s, <<g, q, s>> \in D
  PROVE  <<g, Append(q, op), s>> \in Behind(D, op)
<1>1. g \in Gpus /\ q \in Seq(Ops) /\ s \in Seq(Ops)
  BY DEF Devices
<1>2. Append(q, op) \in Seq(Ops)
  BY <1>1
<1> QED BY <1>1, <1>2, InBehind

\* What is ready with more behind the compute queue is ready without it.
LEMMA ReadyShrinks ==
  ASSUME NEW q \in Seq(Ops), NEW op \in Ops, NEW s \in Seq(Ops), NEW o, Ready(o, Append(q, op), s)
  PROVE  Ready(o, q, s)
<1>1. Len(Append(q, op)) = Len(q) + 1 /\ Len(q) \in Nat /\ \A i \in 1 .. Len(q) : Append(q, op)[i] = q[i]
  BY AppendProperties, LenProperties
<1> QED BY <1>1 DEF Ready

\* A set that no step leaves stays one when work is put behind every device in
\* it, if it also has the devices that have done that work.
LEMMA BehindClosed ==
  ASSUME NEW D, NEW E, NEW op \in Ops, D \subseteq Devices, E \subseteq Devices, Closed(D), Closed(E),
         \A g \in Gpus, s \in Seq(Ops) :
           <<g, <<>>, s>> \in D /\ Ready(op, <<op>>, s) => <<After(g, op), <<>>, s>> \in E
  PROVE  Behind(D, op) \cup E \subseteq Devices /\ Closed(Behind(D, op) \cup E)
<1> DEFINE U == Behind(D, op) \cup E
<1>1. U \subseteq Devices
  BY DEF Behind
<1>2. ASSUME NEW g \in Gpus, NEW c \in Seq(Ops), NEW s \in Seq(Ops), <<g, c, s>> \in Behind(D, op)
      PROVE  /\ c # <<>> /\ Ready(Head(c), c, s) => <<After(g, Head(c)), Tail(c), s>> \in U
             /\ s # <<>> /\ Head(s).op # "copy" /\ Ready(Head(s), c, s) => <<g, c, Tail(s)>> \in U
             /\ s # <<>> /\ Head(s).op = "copy" /\ ~g.copying => <<Opened(g, Head(s)), c, s>> \in U
             /\ s # <<>> /\ Head(s).op = "copy" /\ g.copying => <<Copied(g, Head(s)), c, Tail(s)>> \in U
  <2>1. PICK q \in Seq(Ops) : c = Append(q, op) /\ <<g, q, s>> \in D
    BY <1>2, InBehind
  <2>2. \A h, r, t : <<h, r, t>> \in D => h \in Gpus /\ r \in Seq(Ops) /\ t \in Seq(Ops)
    BY DEF Devices
  <2>3. \A h, t : <<h, q, t>> \in D => <<h, c, t>> \in U
    <3>1. ASSUME NEW h, NEW t, <<h, q, t>> \in D
          PROVE  <<h, c, t>> \in Behind(D, op)
      BY <2>1, <2>2, <3>1, InBehind
    <3> QED BY <3>1
  <2>4. /\ s # <<>> /\ Head(s).op # "copy" /\ Ready(Head(s), q, s) => <<g, q, Tail(s)>> \in D
        /\ s # <<>> /\ Head(s).op = "copy" /\ ~g.copying => <<Opened(g, Head(s)), q, s>> \in D
        /\ s # <<>> /\ Head(s).op = "copy" /\ g.copying => <<Copied(g, Head(s)), q, Tail(s)>> \in D
        /\ q # <<>> /\ Ready(Head(q), q, s) => <<After(g, Head(q)), Tail(q), s>> \in D
    BY <2>1 DEF Closed
  <2>5. Ready(Head(s), c, s) => Ready(Head(s), q, s)
    BY <2>1, ReadyShrinks
  <2>6. ASSUME c # <<>>, Ready(Head(c), c, s)
        PROVE  <<After(g, Head(c)), Tail(c), s>> \in U
    <3>1. CASE q = <<>>
      <4>1. c = <<op>> /\ Head(c) = op /\ Tail(c) = <<>>
        BY <2>1, <3>1
      <4> QED BY <2>1, <2>6, <3>1, <4>1
    <3>2. CASE q # <<>>
      <4>1. Head(c) = Head(q) /\ Tail(c) = Append(Tail(q), op) /\ Tail(q) \in Seq(Ops)
        BY <2>1, <3>2, HeadTailAppend, HeadTailProperties
      <4>2. Ready(Head(q), q, s)
        BY <2>1, <2>6, <4>1, ReadyShrinks
      <4>3. <<After(g, Head(q)), Tail(q), s>> \in D
        BY <2>4, <3>2, <4>2
      <4>4. Tail(c) \in Seq(Ops)
        BY <4>1
      <4> QED BY <2>2, <4>1, <4>3, <4>4, InBehind, ZenonT(30)
    <3> QED BY <3>1, <3>2
  <2> QED BY <2>3, <2>4, <2>5, <2>6
<1>3. ASSUME NEW g \in Gpus, NEW c \in Seq(Ops), NEW s \in Seq(Ops), <<g, c, s>> \in E
      PROVE  /\ c # <<>> /\ Ready(Head(c), c, s) => <<After(g, Head(c)), Tail(c), s>> \in U
             /\ s # <<>> /\ Head(s).op # "copy" /\ Ready(Head(s), c, s) => <<g, c, Tail(s)>> \in U
             /\ s # <<>> /\ Head(s).op = "copy" /\ ~g.copying => <<Opened(g, Head(s)), c, s>> \in U
             /\ s # <<>> /\ Head(s).op = "copy" /\ g.copying => <<Copied(g, Head(s)), c, Tail(s)>> \in U
  BY <1>3 DEF Closed
<1>4. Closed(U)
  BY <1>2, <1>3 DEF Closed
<1> QED BY <1>1, <1>4

\* Whatever the streams do with the work of x, the work of y keeps the promise
\* that is made about them after x.
Leads(x, y) ==
  \A D : Future(D, x) =>
    \E E : /\ Future(E, y)
           /\ \A g : <<g, x.queue.compute, x.queue.side>> \in D
                     => <<g, y.queue.compute, y.queue.side>> \in E

\* One call after another.
LEMMA LeadsOn ==
  ASSUME NEW x, NEW y, NEW z, Leads(x, y), Leads(y, z)
  PROVE  Leads(x, z)
BY DEF Leads

\* A call that does nothing.
LEMMA LeadsNowhere ==
  ASSUME NEW x
  PROVE  Leads(x, x)
BY DEF Leads

\* The devices of D whose compute stream is through.
Through(D) == {d \in D : d[2] = <<>>}

\* The devices whose compute stream is through are closed, and stay where
\* they are over an operation that is no flip.
LEMMA ThroughClosed ==
  ASSUME NEW D, NEW op, op.op # "flip", D \subseteq Devices, Closed(D)
  PROVE  /\ Through(D) \subseteq Devices /\ Closed(Through(D))
         /\ \A g \in Gpus, s \in Seq(Ops) : <<g, <<>>, s>> \in D => <<After(g, op), <<>>, s>> \in Through(D)
<1>1. \A g, c, s : <<g, c, s>> \in Through(D) <=> c = <<>> /\ <<g, c, s>> \in D
  BY DEF Through
<1>2. Through(D) \subseteq Devices
  BY DEF Through
<1>3. \A g \in Gpus, s \in Seq(Ops) : <<g, <<>>, s>> \in D => <<After(g, op), <<>>, s>> \in Through(D)
  BY <1>1 DEF After
<1>4. Closed(Through(D))
  BY <1>1 DEF Closed
<1> QED BY <1>2, <1>3, <1>4

\* An operation behind the compute queue that is no copy, wait or flip.
LEMMA QuietBehind ==
  ASSUME NEW q \in Seq(Ops), NEW op \in Ops
  PROVE  /\ \A i \in 1 .. Len(q) : Append(q, op)[i] = q[i] /\ i \in 1 .. Len(Append(q, op))
         /\ Append(q, op)[Len(Append(q, op))] = op /\ Len(Append(q, op)) \in 1 .. Len(Append(q, op))
         /\ Append(q, op) # <<>> /\ Append(q, op) \in Seq(Ops)
         /\ Quiet(Append(q, op)) <=> Quiet(q) /\ op = Pass
<1>1. /\ Len(Append(q, op)) = Len(q) + 1 /\ Len(q) \in Nat /\ \A i \in 1 .. Len(q) : Append(q, op)[i] = q[i]
      /\ Append(q, op)[Len(q) + 1] = op /\ Append(q, op) \in Seq(Ops)
  BY AppendProperties, LenProperties
<1>2. Append(q, op) # <<>>
  BY <1>1
<1> QED BY <1>1, <1>2 DEF Quiet

\* A token pass behind everything else.
LEMMA LaunchLeads ==
  ASSUME NEW x, x \in Books
  PROVE  /\ Launch(x) \in Books /\ Launch(x).res = x.res /\ Launch(x).tr = x.tr
         /\ Leads(x, Launch(x))
<1> DEFINE y == Launch(x)
<1>1. Pass \in Ops /\ Pass.op # "flip"
  BY DEF Pass, Ops
<1>2. /\ y \in Books /\ y.res = x.res /\ y.tr = x.tr
      /\ y.queue.compute = Append(x.queue.compute, Pass) /\ y.queue.side = x.queue.side
      /\ x.queue.compute \in Seq(Ops) /\ x.queue.side \in Seq(Ops)
  <2> DEFINE q == x.queue.compute
  <2>1. q \in Seq(Ops) /\ x.queue.side \in Seq(Ops)
    BY DEF Books, Queues
  <2>2. Append(q, Pass) \in Seq(Ops)
    BY <1>1, <2>1
  <2>3. y = [x EXCEPT !.queue = [x.queue EXCEPT !.compute = Append(q, Pass)]]
    BY DEF Launch
  <2> HIDE DEF y
  <2>4. y.res = x.res /\ y.tr = x.tr /\ y.queue = [x.queue EXCEPT !.compute = Append(q, Pass)]
    BY <2>3 DEF Books
  <2>5. y = [res |-> y.res, tr |-> y.tr, queue |-> y.queue]
    BY <2>3 DEF Books
  <2>6. y.queue \in Queues /\ y.queue.compute = Append(q, Pass) /\ y.queue.side = x.queue.side
    BY <2>2, <2>4 DEF Queues, Books
  <2> QED BY <2>1, <2>4, <2>5, <2>6 DEF Books
<1> HIDE DEF y
<1>3. ASSUME NEW D, Future(D, x)
      PROVE  \E E : /\ Future(E, y)
                    /\ \A g : <<g, x.queue.compute, x.queue.side>> \in D
                              => <<g, y.queue.compute, y.queue.side>> \in E
  <2> DEFINE E == Behind(D, Pass) \cup Through(D)
  <2>1. D \subseteq Devices /\ Closed(D)
    BY <1>3 DEF Future
  <2>2. E \subseteq Devices /\ Closed(E)
    <3>1. /\ Through(D) \subseteq Devices /\ Closed(Through(D))
          /\ \A g \in Gpus, s \in Seq(Ops) : <<g, <<>>, s>> \in D => <<After(g, Pass), <<>>, s>> \in Through(D)
      BY <1>1, <2>1, ThroughClosed
    <3> QED BY <1>1, <2>1, <3>1, BehindClosed
  <2>3. ASSUME NEW g \in Gpus, NEW c \in Seq(Ops), NEW s \in Seq(Ops), <<g, c, s>> \in E
        PROVE  /\ Exact(g)
               /\ s # <<>> => s[Len(s)] = Record("side", x.tr.sideGen)
               /\ x.tr.pend # None => \/ Quiet(c)
                                      \/ \E i \in 1 .. Len(c) : c[i] = Record("commit", x.tr.commitGen)
               /\ s = <<>> /\ Quiet(c) => Landed(g, x)
    <3>1. CASE <<g, c, s>> \in D
      BY <1>3, <3>1 DEF Future
    <3>2. CASE <<g, c, s>> \in Behind(D, Pass)
      <4>1. PICK q \in Seq(Ops) : c = Append(q, Pass) /\ <<g, q, s>> \in D
        BY <1>1, <2>1, <3>2, InBehind
      <4>2. /\ Exact(g)
            /\ s # <<>> => s[Len(s)] = Record("side", x.tr.sideGen)
            /\ x.tr.pend # None => \/ Quiet(q)
                                   \/ \E i \in 1 .. Len(q) : q[i] = Record("commit", x.tr.commitGen)
            /\ s = <<>> /\ Quiet(q) => Landed(g, x)
        BY <1>3, <4>1 DEF Future
      <4>3. /\ \A i \in 1 .. Len(q) : c[i] = q[i] /\ i \in 1 .. Len(c)
            /\ Quiet(c) <=> Quiet(q)
        BY <1>1, <4>1, QuietBehind
      <4> QED BY <4>2, <4>3
    <3> QED BY <2>3, <3>1, <3>2 DEF Through
  <2>4. ASSUME NEW g, <<g, x.queue.compute, x.queue.side>> \in D
        PROVE  <<g, y.queue.compute, y.queue.side>> \in E
    <3>1. <<g, Append(x.queue.compute, Pass), x.queue.side>> \in Behind(D, Pass)
      BY <1>1, <2>1, <2>4, GoesBehind
    <3> QED BY <1>2, <3>1
  <2> HIDE DEF E
  <2>5. Future(E, y)
    <3>1. \A g : Landed(g, y) = Landed(g, x)
      BY <1>2 DEF Landed
    <3> QED BY <1>2, <2>2, <2>3, <3>1 DEF Future
  <2> QED BY <2>4, <2>5
<1> QED BY <1>2, <1>3 DEF Leads, y

\* Parking a batch: the record its copies will wait for goes behind the flip.
LEMMA ParkLeads ==
  ASSUME NEW z, NEW y, NEW toB, NEW news, Parks(z, y, toB, news)
  PROVE  Leads(y, z)
<1> DEFINE op == Record("commit", NextGen(y.tr.commitGen))
<1>1. op \in Ops /\ op # Pass /\ op.op # "flip"
  <2>1. op \in Ops
    BY BatchedQueue
  <2> QED BY <2>1 DEF Record, Pass
<1>2. /\ z.res = y.res /\ z.tr.inA = y.tr.inA /\ z.tr.inB = y.tr.inB
      /\ z.tr.sideGen = y.tr.sideGen /\ op = Record("commit", z.tr.commitGen)
      /\ z.queue.compute = Append(y.queue.compute, op) /\ z.queue.side = y.queue.side
  <2>1. y.tr.inA = <<>> /\ y.tr.inB = <<>>
    BY DEF Parks, Loose
  <2> QED BY <2>1, BatchedFields, BatchedQueue
<1> HIDE DEF op
<1>3. ASSUME NEW D, Future(D, y)
      PROVE  \E E : /\ Future(E, z)
                    /\ \A g : <<g, y.queue.compute, y.queue.side>> \in D
                              => <<g, z.queue.compute, z.queue.side>> \in E
  <2> DEFINE E == Behind(D, op) \cup Through(D)
  <2>1. D \subseteq Devices /\ Closed(D)
    BY <1>3 DEF Future
  <2>2. E \subseteq Devices /\ Closed(E)
    <3>1. /\ Through(D) \subseteq Devices /\ Closed(Through(D))
          /\ \A g \in Gpus, s \in Seq(Ops) : <<g, <<>>, s>> \in D => <<After(g, op), <<>>, s>> \in Through(D)
      BY <1>1, <2>1, ThroughClosed
    <3> QED BY <1>1, <2>1, <3>1, BehindClosed
  <2>3. ASSUME NEW g \in Gpus, NEW c \in Seq(Ops), NEW s \in Seq(Ops), <<g, c, s>> \in E
        PROVE  /\ Exact(g)
               /\ s # <<>> => s[Len(s)] = Record("side", y.tr.sideGen)
               /\ Quiet(c) \/ \E i \in 1 .. Len(c) : c[i] = op
               /\ s = <<>> /\ Quiet(c) => Landed(g, y)
    <3>1. CASE <<g, c, s>> \in Through(D)
      <4>1. c = <<>> /\ <<g, c, s>> \in D
        BY <3>1 DEF Through
      <4>2. Quiet(c)
        BY <4>1 DEF Quiet
      <4> QED BY <1>3, <4>1, <4>2 DEF Future
    <3>2. CASE <<g, c, s>> \in Behind(D, op)
      <4>1. PICK q \in Seq(Ops) : c = Append(q, op) /\ <<g, q, s>> \in D
        BY <1>1, <2>1, <3>2, InBehind
      <4>2. Exact(g) /\ (s # <<>> => s[Len(s)] = Record("side", y.tr.sideGen))
        BY <1>3, <4>1 DEF Future
      <4>3. c[Len(c)] = op /\ Len(c) \in 1 .. Len(c) /\ ~Quiet(c)
        BY <1>1, <4>1, QuietBehind
      <4> QED BY <4>2, <4>3
    <3> QED BY <2>3, <3>1, <3>2
  <2>4. ASSUME NEW g, <<g, y.queue.compute, y.queue.side>> \in D
        PROVE  <<g, z.queue.compute, z.queue.side>> \in E
    <3>1. <<g, Append(y.queue.compute, op), y.queue.side>> \in Behind(D, op)
      BY <1>1, <2>1, <2>4, GoesBehind
    <3> QED BY <1>2, <3>1
  <2> HIDE DEF E
  <2>5. Future(E, z)
    <3>1. \A g : Landed(g, z) = Landed(g, y)
      BY <1>2 DEF Landed
    <3> QED BY <1>2, <2>2, <2>3, <3>1 DEF Future
  <2> QED BY <2>4, <2>5
<1> QED BY <1>3 DEF Leads

\* A device without work is one no step leaves.
LEMMA IdleClosed ==
  ASSUME NEW E, E \subseteq Devices, \A g, c, s : <<g, c, s>> \in E => c = <<>> /\ s = <<>>
  PROVE  Closed(E)
BY DEF Closed

\* An exact table stays exact when it is flipped to the books of the landing,
\* once the copies have landed.
LEMMA LandExact ==
  ASSUME NEW x, Kept(x), x.tr.pend = None, NEW g \in Gpus, Exact(g), Landed(g, x)
  PROVE  LET h == [g EXCEPT !.table = FillTable(LandedRes(x))]
         IN h \in Gpus /\ Exact(h) /\ h.table = FillTable(LandedRes(x)) /\ ~h.copying
<1> DEFINE c == LandedRes(x)
           T == FillTable(c)
           h == [g EXCEPT !.table = T]
<1>1. /\ c \in Residencies /\ Homes(c.sets, c.cold, x.tr.inA)
      /\ \A i \in DOMAIN x.tr.inA : c.sets[x.tr.inA[i].spare] = x.tr.inA[i].new
      /\ \A i \in DOMAIN x.tr.inB : c.cold[x.tr.inB[i].evict] = x.tr.inB[i].cs
      /\ \A s \in HotSlots : c.sets[s] \in {None, x.res.sets[s]} \/ \E i \in DOMAIN x.tr.inA : x.tr.inA[i].spare = s
      /\ \A e \in Experts : \/ c.cold[e] \in {None, x.res.cold[e]}
                            \/ \E i \in DOMAIN x.tr.inB : x.tr.inB[i].evict = e
  BY LandedEntries
<1> HIDE DEF c
<1>2. /\ T \in Tables
      /\ \A e \in Experts, s \in HotSlots : c.sets[s] = e => T[e] = Hot(s)
      /\ \A e \in Experts : c.cold[e] # None => T[e] = Pinned(c.cold[e])
  BY <1>1, TableOf
<1>3. /\ x.res \in Residencies /\ Homes(x.res.sets, x.res.cold, Back(x.tr))
  BY DEF Kept, Books
<1>4. /\ \A e \in Experts, s \in HotSlots : x.res.sets[s] = e => g.table[e] = Hot(s)
      /\ \A e \in Experts : x.res.cold[e] # None => g.table[e] = Pinned(x.res.cold[e])
  BY <1>3, TableOf DEF Landed
<1> HIDE DEF T
<1>5. /\ h \in Gpus /\ h.table = T /\ h.slab = g.slab /\ h.copying = g.copying
  BY <1>2 DEF Gpus
<1>6. \A e \in Experts : g.slab[g.table[e]] = e
  BY DEF Exact
<1>7. /\ \A i \in DOMAIN x.tr.inA : g.slab[Hot(x.tr.inA[i].spare)] = x.tr.inA[i].new
      /\ \A i \in DOMAIN x.tr.inB : g.slab[Pinned(x.tr.inB[i].cs)] = x.tr.inB[i].evict
  BY DEF Landed
<1>8. ASSUME NEW e \in Experts
      PROVE  g.slab[T[e]] = e
  <2>1. CASE c.cold[e] = None
    <3>1. PICK s \in HotSlots : c.sets[s] = e
      BY <1>1, <2>1 DEF Homes
    <3>2. T[e] = Hot(s)
      BY <1>2, <3>1
    <3>3. CASE x.res.sets[s] = e
      BY <1>4, <1>6, <3>2, <3>3
    <3>4. CASE \E i \in DOMAIN x.tr.inA : x.tr.inA[i].spare = s
      BY <1>1, <1>7, <3>1, <3>2, <3>4
    <3> QED BY <1>1, <3>1, <3>3, <3>4, Constants
  <2>2. CASE c.cold[e] # None
    <3>1. T[e] = Pinned(c.cold[e])
      BY <1>2, <2>2
    <3>2. CASE c.cold[e] = x.res.cold[e]
      BY <1>4, <1>6, <2>2, <3>1, <3>2
    <3>3. CASE \E i \in DOMAIN x.tr.inB : x.tr.inB[i].evict = e
      BY <1>1, <1>7, <3>1, <3>3
    <3> QED BY <1>1, <2>2, <3>2, <3>3
  <2> QED BY <2>1, <2>2
<1>9. \A e \in Experts : T[e] \in Places
  BY <1>2 DEF Tables
<1> QED BY <1>5, <1>8, <1>9 DEF Exact, Landed, T, c

\* Landing: a wait that only a side stream without copies lets through, then
\* the flip.
LEMMA LandLeads ==
  ASSUME NEW x, Kept(x), x.tr.pend = None
  PROVE  Leads(x, LandSwaps(x))
<1> DEFINE y == LandSwaps(x)
           V == WaitFor("side", x.tr.sideGen)
           T == FillTable(LandedRes(x))
           F == Flip(T)
           G(g) == [g EXCEPT !.table = T]
<1>1. /\ Loose(y, x.tr.inA) /\ y.tr.sideGen = x.tr.sideGen /\ y.queue.side = x.queue.side
      /\ \/ y = x
         \/ y.res = LandedRes(x) /\ y.queue.compute = x.queue.compute \o LandOps(x)
      /\ LandOps(x) \in Seq(Ops) /\ LandOps(x) = <<V, F>>
      /\ x.queue.compute \in Seq(Ops)
  <2>1. x.queue.compute \in Seq(Ops)
    BY DEF Kept, Books, Queues
  <2> QED BY <2>1, LandFields DEF LandOps
<1>2. V \in Ops /\ F \in Ops /\ V.op = "wait" /\ V.ev = "side" /\ V.gen = x.tr.sideGen /\ F.op = "flip" /\ F.table = T
  <2>1. LandOps(x)[1] \in Ops /\ LandOps(x)[2] \in Ops
    <3>1. Len(LandOps(x)) = 2
      BY LandFields
    <3> QED BY <1>1, <3>1, ElementOfSeq
  <2> QED BY <1>1, <2>1 DEF WaitFor, Flip
<1>3. y.tr.inA = <<>> /\ y.tr.inB = <<>> /\ y.tr.pend = None
  BY <1>1 DEF Loose
<1>4. y = x \/ /\ y.res = LandedRes(x)
               /\ y.queue.compute = Append(Append(x.queue.compute, V), F)
  <2> DEFINE q == x.queue.compute
  <2>1. q \in Seq(Ops)
    BY <1>1
  <2> HIDE DEF V, F, q
  <2>2. q \o <<V, F>> = Append(Append(q, V), F)
    BY <1>2, <2>1
  <2> QED BY <1>1, <2>2 DEF q
<1>5. ASSUME NEW g \in Gpus, Exact(g), Landed(g, x)
      PROVE  G(g) \in Gpus /\ Exact(G(g)) /\ G(g).table = T /\ ~G(g).copying
  BY <1>5, LandExact
<1> HIDE DEF y, V, F, T
<1>6. CASE y = x
  BY <1>6, LeadsNowhere DEF y
<1>7. CASE /\ y.res = LandedRes(x)
           /\ y.queue.compute = Append(Append(x.queue.compute, V), F)
  <2>1. ASSUME NEW D, Future(D, x)
        PROVE  \E E : /\ Future(E, y)
                      /\ \A g : <<g, x.queue.compute, x.queue.side>> \in D
                                => <<g, y.queue.compute, y.queue.side>> \in E
    <3> DEFINE I  == {d \in D : d[2] = <<>> /\ d[3] = <<>>}
               M  == Behind(D, V) \cup I
               L  == {d \in Devices : d[2] = <<>> /\ d[3] = <<>>
                                      /\ \E g : <<g, <<>>, <<>>>> \in D /\ d[1] = G(g)}
               E  == Behind(M, F) \cup L
    <3>1. /\ D \subseteq Devices /\ Closed(D)
          /\ \A g, c, s : <<g, c, s>> \in D => g \in Gpus /\ c \in Seq(Ops) /\ s \in Seq(Ops)
      BY <2>1 DEF Future, Devices
    <3>2. /\ \A g, c, s : <<g, c, s>> \in I <=> c = <<>> /\ s = <<>> /\ <<g, c, s>> \in D
          /\ I \subseteq Devices /\ Closed(I)
      <4>1. /\ \A g, c, s : <<g, c, s>> \in I <=> c = <<>> /\ s = <<>> /\ <<g, c, s>> \in D
            /\ I \subseteq Devices
        BY <3>1
      <4> HIDE DEF I
      <4> QED BY <4>1, IdleClosed
    <3>3. \A g \in Gpus, s \in Seq(Ops) :
            <<g, <<>>, s>> \in D /\ Ready(V, <<V>>, s) => <<After(g, V), <<>>, s>> \in I
      <4> SUFFICES ASSUME NEW g \in Gpus, NEW s \in Seq(Ops), <<g, <<>>, s>> \in D, Ready(V, <<V>>, s)
                   PROVE  <<After(g, V), <<>>, s>> \in I
        OBVIOUS
      <4>1. After(g, V) = g
        BY <1>2 DEF After
      <4>2. s # <<>> => s[Len(s)] = Record("side", x.tr.sideGen)
        BY <2>1, <3>1 DEF Future
      <4>3. \A i \in 1 .. Len(s) : s[i] # Record("side", x.tr.sideGen)
        BY <1>2 DEF Ready
      <4>4. s # <<>> => Len(s) \in 1 .. Len(s)
        BY EmptySeq, LenProperties
      <4>5. s = <<>>
        BY <4>2, <4>3, <4>4
      <4> QED BY <3>2, <4>1, <4>5
    <3> HIDE DEF I
    <3>4. M \subseteq Devices /\ Closed(M)
      BY <1>2, <3>1, <3>2, <3>3, BehindClosed
    <3>5. \A g, c, s : <<g, c, s>> \in M =>
            /\ \E q \in Seq(Ops) : <<g, q, s>> \in D
            /\ c = <<>> => s = <<>> /\ <<g, <<>>, <<>>>> \in D
      <4> SUFFICES ASSUME NEW g, NEW c, NEW s, <<g, c, s>> \in M
                   PROVE  /\ \E q \in Seq(Ops) : <<g, q, s>> \in D
                          /\ c = <<>> => s = <<>> /\ <<g, <<>>, <<>>>> \in D
        OBVIOUS
      <4>1. CASE <<g, c, s>> \in Behind(D, V)
        <5>1. PICK q \in Seq(Ops) : c = Append(q, V) /\ <<g, q, s>> \in D
          BY <1>2, <3>1, <4>1, InBehind
        <5>2. c # <<>>
          BY <1>2, <5>1, QuietBehind
        <5> QED BY <5>1, <5>2
      <4>2. CASE <<g, c, s>> \in I
        BY <3>1, <3>2, <4>2
      <4> QED BY <4>1, <4>2
    <3>6. \A g : <<g, <<>>, <<>>>> \in D => /\ Exact(g) /\ Landed(g, x) /\ g \in Gpus
      <4>1. Quiet(<<>>)
        BY DEF Quiet
      <4> QED BY <2>1, <3>1, <4>1 DEF Future
    <3>7. L \subseteq Devices /\ Closed(L)
      <4>1. L \subseteq Devices /\ \A g, c, s : <<g, c, s>> \in L => c = <<>> /\ s = <<>>
        OBVIOUS
      <4> HIDE DEF L
      <4> QED BY <4>1, IdleClosed
    <3>8. \A h : <<h, <<>>, <<>>>> \in L <=> h \in Gpus /\ \E g : <<g, <<>>, <<>>>> \in D /\ h = G(g)
      <4>1. \A h : <<h, <<>>, <<>>>> \in Devices <=> h \in Gpus
        <5>1. <<>> \in Seq(Ops)
          OBVIOUS
        <5> QED BY <5>1 DEF Devices
      <4> HIDE DEF G
      <4>2. \A h : <<h, <<>>, <<>>>> \in L <=> /\ <<h, <<>>, <<>>>> \in Devices
                                             /\ \E g : <<g, <<>>, <<>>>> \in D /\ h = G(g)
        OBVIOUS
      <4> QED BY <4>1, <4>2
    <3>9. \A g \in Gpus, s \in Seq(Ops) :
            <<g, <<>>, s>> \in M /\ Ready(F, <<F>>, s) => <<After(g, F), <<>>, s>> \in L
      <4> SUFFICES ASSUME NEW g \in Gpus, NEW s \in Seq(Ops), <<g, <<>>, s>> \in M
                   PROVE  <<After(g, F), <<>>, s>> \in L
        OBVIOUS
      <4>1. s = <<>> /\ <<g, <<>>, <<>>>> \in D
        BY <3>5
      <4>2. After(g, F) = G(g)
        BY <1>2 DEF After
      <4>3. G(g) \in Gpus
        BY <1>5, <3>6, <4>1
      <4> QED BY <3>8, <4>1, <4>2, <4>3
    <3>10. \A g, c, s : <<g, c, s>> \in L => c = <<>> /\ s = <<>>
      OBVIOUS
    <3> HIDE DEF M, L
    <3>11. E \subseteq Devices /\ Closed(E)
      BY <1>2, <3>4, <3>7, <3>9, BehindClosed
    <3>12. ASSUME NEW g \in Gpus, NEW c \in Seq(Ops), NEW s \in Seq(Ops), <<g, c, s>> \in E
           PROVE  /\ Exact(g)
                  /\ s # <<>> => s[Len(s)] = Record("side", x.tr.sideGen)
                  /\ s = <<>> /\ Quiet(c) => g.table = T /\ ~g.copying
      <4>1. CASE <<g, c, s>> \in Behind(M, F)
        <5>1. PICK q \in Seq(Ops) : c = Append(q, F) /\ <<g, q, s>> \in M
          BY <1>2, <3>4, <4>1, InBehind
        <5>2. PICK p \in Seq(Ops) : <<g, p, s>> \in D
          BY <3>5, <5>1
        <5>3. Exact(g) /\ (s # <<>> => s[Len(s)] = Record("side", x.tr.sideGen))
          BY <2>1, <5>2 DEF Future
        <5>4. F # Pass
          BY <1>2 DEF Pass
        <5>5. ~Quiet(c)
          BY <1>2, <5>1, <5>4, QuietBehind
        <5> QED BY <5>3, <5>5
      <4>2. CASE <<g, c, s>> \in L
        <5>1. c = <<>> /\ s = <<>>
          BY <3>10, <4>2
        <5>2. PICK h : <<h, <<>>, <<>>>> \in D /\ g = G(h)
          BY <3>8, <4>2, <5>1
        <5>3. Exact(g) /\ g.table = T /\ ~g.copying
          BY <1>5, <3>6, <5>2
        <5> QED BY <5>1, <5>3
      <4> QED BY <3>12, <4>1, <4>2
    <3>13. ASSUME NEW g, <<g, x.queue.compute, x.queue.side>> \in D
           PROVE  <<g, y.queue.compute, y.queue.side>> \in E
      <4>1. <<g, Append(x.queue.compute, V), x.queue.side>> \in M
        BY <1>2, <3>1, <3>13, GoesBehind DEF M
      <4>2. <<g, Append(Append(x.queue.compute, V), F), x.queue.side>> \in Behind(M, F)
        BY <1>2, <3>4, <4>1, GoesBehind
      <4> QED BY <1>1, <1>7, <4>2
    <3> HIDE DEF E
    <3>14. Future(E, y)
      <4>1. ASSUME NEW g, g.table = T, ~g.copying
            PROVE  Landed(g, y)
        BY <1>3, <1>7, <4>1 DEF Landed, T
      <4> QED BY <1>1, <1>3, <3>11, <3>12, <4>1 DEF Future
    <3> QED BY <3>13, <3>14
  <2> QED BY <2>1 DEF Leads, y
<1> QED BY <1>4, <1>6, <1>7

----------------------------------------------------------------------------
(* Work added behind the side stream's queue: a wait, then copies.           *)

\* The devices of D with ops behind their side queues.
Beside(D, ops) ==
  {d \in Devices : \E s \in Seq(Ops) : d[3] = s \o ops /\ <<d[1], d[2], s>> \in D}

\* Membership in Beside, for a device written as a triple.
LEMMA InBeside ==
  ASSUME NEW D, D \subseteq Devices, NEW ops \in Seq(Ops), NEW g, NEW c, NEW s
  PROVE  <<g, c, s>> \in Beside(D, ops) <=> /\ g \in Gpus /\ c \in Seq(Ops) /\ s \in Seq(Ops)
                                            /\ \E q \in Seq(Ops) : s = q \o ops /\ <<g, c, q>> \in D
BY DEF Beside, Devices

\* A device of D with ops appended to its side queue is beside D.
LEMMA GoesBeside ==
  ASSUME NEW D, D \subseteq Devices, NEW ops \in Seq(Ops), NEW g, NEW c, NEW q, <<g, c, q>> \in D
  PROVE  <<g, c, q \o ops>> \in Beside(D, ops)
<1>1. g \in Gpus /\ c \in Seq(Ops) /\ q \in Seq(Ops)
  BY DEF Devices
<1>2. q \o ops \in Seq(Ops)
  BY <1>1, ConcatProperties
<1> QED BY <1>1, <1>2, InBeside

\* The first, the last and the remaining operations of q with ops behind it.
LEMMA ConcatIs ==
  ASSUME NEW q \in Seq(Ops), NEW ops \in Seq(Ops), ops # <<>>
  PROVE  /\ q \o ops \in Seq(Ops) /\ q \o ops # <<>>
         /\ \A i \in 1 .. Len(q) : (q \o ops)[i] = q[i] /\ i \in 1 .. Len(q \o ops)
         /\ (q \o ops)[Len(q \o ops)] = ops[Len(ops)]
         /\ q = <<>> => q \o ops = ops
         /\ q # <<>> => Head(q \o ops) = Head(q) /\ Tail(q \o ops) = Tail(q) \o ops /\ Tail(q) \in Seq(Ops)
<1>1. /\ Len(q) \in Nat /\ Len(ops) \in Nat /\ Len(ops) > 0
  BY LenProperties, EmptySeq
<1>2. /\ q \o ops \in Seq(Ops) /\ Len(q \o ops) = Len(q) + Len(ops)
      /\ \A i \in 1 .. Len(q) + Len(ops) : (q \o ops)[i] = IF i <= Len(q) THEN q[i] ELSE ops[i - Len(q)]
  BY ConcatProperties
<1>3. q \o ops # <<>>
  BY <1>1, <1>2, EmptySeq
<1>4. (q \o ops)[Len(q \o ops)] = ops[Len(ops)]
  <2>1. (Len(q) + Len(ops)) - Len(q) = Len(ops) /\ Len(q) + Len(ops) \in 1 .. Len(q) + Len(ops)
        /\ ~(Len(q) + Len(ops) <= Len(q))
    BY <1>1
  <2> QED BY <1>2, <2>1
<1>5. q = <<>> => q \o ops = ops
  BY ConcatEmptySeq
<1>6. ASSUME q # <<>>
      PROVE  Head(q \o ops) = Head(q) /\ Tail(q \o ops) = Tail(q) \o ops /\ Tail(q) \in Seq(Ops)
  <2>1. Len(q) > 0
    BY <1>1, <1>6, EmptySeq
  <2>2. Tail(q) \in Seq(Ops) /\ Len(Tail(q)) = Len(q) - 1 /\ \A i \in 1 .. Len(q) - 1 : Tail(q)[i] = q[i + 1]
    BY <1>6, HeadTailProperties
  <2>3. /\ Tail(q \o ops) \in Seq(Ops) /\ Len(Tail(q \o ops)) = Len(q) + Len(ops) - 1
        /\ \A i \in 1 .. Len(q) + Len(ops) - 1 : Tail(q \o ops)[i] = (q \o ops)[i + 1]
    BY <1>2, <1>3, HeadTailProperties
  <2>4. Head(q \o ops) = (q \o ops)[1] /\ Head(q) = q[1]
    OBVIOUS
  <2>5. (q \o ops)[1] = q[1]
    BY <1>1, <1>2, <2>1
  <2>6. Tail(q \o ops) = Tail(q) \o ops
    <3>1. /\ Tail(q) \o ops \in Seq(Ops) /\ Len(Tail(q) \o ops) = Len(q) - 1 + Len(ops)
          /\ \A i \in 1 .. Len(q) - 1 + Len(ops) :
               (Tail(q) \o ops)[i] = IF i <= Len(q) - 1 THEN Tail(q)[i] ELSE ops[i - (Len(q) - 1)]
      BY <2>2, ConcatProperties
    <3>2. ASSUME NEW i \in 1 .. Len(q) - 1 + Len(ops)
          PROVE  Tail(q \o ops)[i] = (Tail(q) \o ops)[i]
      <4>1. Tail(q \o ops)[i] = (q \o ops)[i + 1] /\ i + 1 \in 1 .. Len(q) + Len(ops)
        BY <1>1, <2>3, <3>2
      <4>2. CASE i <= Len(q) - 1
        BY <1>1, <1>2, <2>2, <3>1, <4>1, <4>2
      <4>3. CASE ~(i <= Len(q) - 1)
        <5>1. (i + 1) - Len(q) = i - (Len(q) - 1) /\ ~(i + 1 <= Len(q))
          BY <1>1, <4>3
        <5> QED BY <1>2, <3>1, <4>1, <4>3, <5>1
      <4> QED BY <4>2, <4>3
    <3>3. Len(Tail(q \o ops)) = Len(Tail(q) \o ops)
      BY <1>1, <2>3, <3>1
    <3> QED BY <1>1, <2>3, <3>1, <3>2, <3>3, SeqEqual
  <2> QED BY <2>2, <2>4, <2>5, <2>6
<1>7. \A i \in 1 .. Len(q) : (q \o ops)[i] = q[i] /\ i \in 1 .. Len(q \o ops)
  BY <1>1, <1>2
<1> QED BY <1>2, <1>3, <1>4, <1>5, <1>6, <1>7

\* What is ready with more behind the side queue is ready without it.
LEMMA BesideReady ==
  ASSUME NEW q \in Seq(Ops), NEW ops \in Seq(Ops), ops # <<>>, NEW c \in Seq(Ops), NEW o, Ready(o, c, q \o ops)
  PROVE  Ready(o, c, q)
BY ConcatIs DEF Ready

\* A set that no step leaves stays one when a wait and more is put beside every
\* device in it, if it also has the devices that are past that wait.
LEMMA BesideClosed ==
  ASSUME NEW D, NEW E, NEW ops \in Seq(Ops), ops # <<>>, Head(ops).op = "wait",
         D \subseteq Devices, E \subseteq Devices, Closed(D), Closed(E),
         \A g \in Gpus, c \in Seq(Ops) :
           <<g, c, <<>>>> \in D /\ Ready(Head(ops), c, ops) => <<g, c, Tail(ops)>> \in E
  PROVE  Beside(D, ops) \cup E \subseteq Devices /\ Closed(Beside(D, ops) \cup E)
<1> DEFINE U == Beside(D, ops) \cup E
<1>1. U \subseteq Devices
  BY DEF Beside
<1>2. ASSUME NEW g \in Gpus, NEW c \in Seq(Ops), NEW s \in Seq(Ops), <<g, c, s>> \in Beside(D, ops)
      PROVE  /\ c # <<>> /\ Ready(Head(c), c, s) => <<After(g, Head(c)), Tail(c), s>> \in U
             /\ s # <<>> /\ Head(s).op # "copy" /\ Ready(Head(s), c, s) => <<g, c, Tail(s)>> \in U
             /\ s # <<>> /\ Head(s).op = "copy" /\ ~g.copying => <<Opened(g, Head(s)), c, s>> \in U
             /\ s # <<>> /\ Head(s).op = "copy" /\ g.copying => <<Copied(g, Head(s)), c, Tail(s)>> \in U
  <2>1. PICK q \in Seq(Ops) : s = q \o ops /\ <<g, c, q>> \in D
    BY <1>2, InBeside
  <2>2. \A h, r, t : <<h, r, t>> \in D => <<h, r, t \o ops>> \in U
    BY GoesBeside
  <2>3. /\ c # <<>> /\ Ready(Head(c), c, q) => <<After(g, Head(c)), Tail(c), q>> \in D
        /\ q # <<>> /\ Head(q).op # "copy" /\ Ready(Head(q), c, q) => <<g, c, Tail(q)>> \in D
        /\ q # <<>> /\ Head(q).op = "copy" /\ ~g.copying => <<Opened(g, Head(q)), c, q>> \in D
        /\ q # <<>> /\ Head(q).op = "copy" /\ g.copying => <<Copied(g, Head(q)), c, Tail(q)>> \in D
    BY <2>1 DEF Closed
  <2>4. /\ Ready(Head(c), c, s) => Ready(Head(c), c, q)
        /\ Ready(Head(s), c, s) => Ready(Head(s), c, q)
    BY <2>1, BesideReady
  <2>5. CASE q = <<>>
    <3>1. s = ops
      BY <2>1, <2>5, ConcatIs
    <3>2. \A h, r : <<h, r, <<>>>> \in D => <<h, r, s>> \in U
      BY <2>1, <2>2, <2>5
    <3> HIDE DEF U
    <3>3. c # <<>> /\ Ready(Head(c), c, s) => <<After(g, Head(c)), Tail(c), s>> \in U
      BY <2>3, <2>4, <2>5, <3>2
    <3>4. Ready(Head(s), c, s) => <<g, c, Tail(s)>> \in U
      BY <2>1, <2>5, <3>1 DEF U
    <3>5. Head(s).op # "copy"
      BY <3>1
    <3> QED BY <3>3, <3>4, <3>5
  <2>6. CASE q # <<>>
    <3>1. Head(s) = Head(q) /\ Tail(s) = Tail(q) \o ops
      BY <2>1, <2>6, ConcatIs
    <3> HIDE DEF U
    <3>2. c # <<>> /\ Ready(Head(c), c, s) => <<After(g, Head(c)), Tail(c), s>> \in U
      BY <2>1, <2>2, <2>3, <2>4
    <3>3. s # <<>> /\ Head(s).op # "copy" /\ Ready(Head(s), c, s) => <<g, c, Tail(s)>> \in U
      BY <2>2, <2>3, <2>4, <2>6, <3>1
    <3>4. s # <<>> /\ Head(s).op = "copy" /\ ~g.copying => <<Opened(g, Head(s)), c, s>> \in U
      BY <2>1, <2>2, <2>3, <2>6, <3>1
    <3>5. s # <<>> /\ Head(s).op = "copy" /\ g.copying => <<Copied(g, Head(s)), c, Tail(s)>> \in U
      BY <2>2, <2>3, <2>6, <3>1
    <3> QED BY <3>2, <3>3, <3>4, <3>5
  <2> QED BY <2>5, <2>6
<1>3. ASSUME NEW g \in Gpus, NEW c \in Seq(Ops), NEW s \in Seq(Ops), <<g, c, s>> \in E
      PROVE  /\ c # <<>> /\ Ready(Head(c), c, s) => <<After(g, Head(c)), Tail(c), s>> \in U
             /\ s # <<>> /\ Head(s).op # "copy" /\ Ready(Head(s), c, s) => <<g, c, Tail(s)>> \in U
             /\ s # <<>> /\ Head(s).op = "copy" /\ ~g.copying => <<Opened(g, Head(s)), c, s>> \in U
             /\ s # <<>> /\ Head(s).op = "copy" /\ g.copying => <<Copied(g, Head(s)), c, Tail(s)>> \in U
  BY <1>3 DEF Closed
<1>4. Closed(U)
  BY <1>2, <1>3 DEF Closed
<1> QED BY <1>1, <1>4

----------------------------------------------------------------------------
(* What the side stream does with a batch.                                   *)

\* Copies of experts m out of slots the table T names into slots it does not,
\* no two into one.
Jobs(K, T, m) ==
  /\ T \in Tables
  /\ \A i \in 1 .. Len(K) : /\ K[i].op = "copy" /\ K[i].to \in Places
                            /\ m[i] \in Experts /\ K[i].from = T[m[i]]
                            /\ \A e \in Experts : T[e] # K[i].to
  /\ \A i, j \in 1 .. Len(K) : i # j => K[i].to # K[j].to

\* Somewhere in those copies, with the record R behind them: what is done of
\* them is where it belongs, and the table is as exact as it was.
Works(g, c, s, K, R, T, m) ==
  /\ Quiet(c) /\ g.table = T /\ Exact(g)
  /\ Len(s) <= Len(K) + 1
  /\ \A i \in 1 .. Len(s) : s[i] = Append(K, R)[(Len(K) + 1 - Len(s)) + i]
  /\ \A i \in 1 .. Len(K) : i <= Len(K) + 1 - Len(s) => g.slab[K[i].to] = m[i]
  /\ g.copying => Len(s) >= 2

Working(K, R, T, m) == {d \in Devices : Works(d[1], d[2], d[3], K, R, T, m)}

\* Membership in Working, for a device written as a triple.
LEMMA InWorking ==
  ASSUME NEW K, NEW R, NEW T, NEW m, NEW g, NEW c, NEW s
  PROVE  <<g, c, s>> \in Working(K, R, T, m) <=> /\ g \in Gpus /\ c \in Seq(Ops) /\ s \in Seq(Ops)
                                                 /\ Works(g, c, s, K, R, T, m)
BY DEF Working, Devices

\* Ending a pass of a queue of passes changes nothing but the queue.
LEMMA QuietPops ==
  ASSUME NEW c \in Seq(Ops), c # <<>>, Quiet(c)
  PROVE  Head(c) = Pass /\ Tail(c) \in Seq(Ops) /\ Quiet(Tail(c)) /\ \A g : After(g, Head(c)) = g
<1>1. Len(c) \in Nat /\ Len(c) > 0
  BY LenProperties, EmptySeq
<1>2. Tail(c) \in Seq(Ops) /\ Len(Tail(c)) = Len(c) - 1 /\ \A i \in 1 .. Len(c) - 1 : Tail(c)[i] = c[i + 1]
  BY HeadTailProperties
<1>3. Head(c) = c[1] /\ 1 \in 1 .. Len(c)
  BY <1>1
<1>4. Head(c) = Pass
  BY <1>3 DEF Quiet
<1>5. Quiet(Tail(c))
  BY <1>1, <1>2 DEF Quiet
<1> QED BY <1>2, <1>4, <1>5 DEF After, Pass

\* No step of a stream leaves the copies of a batch before they are done,
\* and none of them disturbs the table or a copy that is done.
LEMMA WorkingClosed ==
  ASSUME NEW K \in Seq(Ops), NEW R \in Ops, R.op = "record", NEW T, NEW m, Jobs(K, T, m)
  PROVE  Working(K, R, T, m) \subseteq Devices /\ Closed(Working(K, R, T, m))
<1> DEFINE E == Working(K, R, T, m)
           n == Len(K)
<1>1. E \subseteq Devices
  BY DEF Working
<1>2. /\ n \in Nat /\ \A i \in 1 .. n : Append(K, R)[i] = K[i]
      /\ Append(K, R)[n + 1] = R
  BY AppendProperties, LenProperties
<1>3. ASSUME NEW g \in Gpus, NEW c \in Seq(Ops), NEW s \in Seq(Ops), <<g, c, s>> \in E
      PROVE  /\ c # <<>> /\ Ready(Head(c), c, s) => <<After(g, Head(c)), Tail(c), s>> \in E
             /\ s # <<>> /\ Head(s).op # "copy" /\ Ready(Head(s), c, s) => <<g, c, Tail(s)>> \in E
             /\ s # <<>> /\ Head(s).op = "copy" /\ ~g.copying => <<Opened(g, Head(s)), c, s>> \in E
             /\ s # <<>> /\ Head(s).op = "copy" /\ g.copying => <<Copied(g, Head(s)), c, Tail(s)>> \in E
  <2>1. Works(g, c, s, K, R, T, m)
    BY <1>3, InWorking
  <2>2. /\ Quiet(c) /\ g.table = T /\ Exact(g) /\ Len(s) <= n + 1
        /\ \A i \in 1 .. Len(s) : s[i] = Append(K, R)[(n + 1 - Len(s)) + i]
        /\ \A i \in 1 .. n : i <= n + 1 - Len(s) => g.slab[K[i].to] = m[i]
        /\ g.copying => Len(s) >= 2
    BY <2>1 DEF Works
  <2>3. ASSUME c # <<>>
        PROVE  <<After(g, Head(c)), Tail(c), s>> \in E
    <3>1. Tail(c) \in Seq(Ops) /\ Quiet(Tail(c)) /\ After(g, Head(c)) = g
      BY <2>2, <2>3, QuietPops
    <3>2. Works(g, Tail(c), s, K, R, T, m)
      BY <2>1, <3>1 DEF Works
    <3> QED BY <3>1, <3>2, InWorking
  <2>4. CASE s # <<>>
    <3> DEFINE l == Len(s)
               k == n + 2 - l
               p == Head(s)
    <3>1. /\ l \in 1 .. n + 1 /\ k \in 1 .. n + 1
      BY <1>2, <2>2, <2>4, LenProperties, EmptySeq
    <3>2. /\ Tail(s) \in Seq(Ops) /\ Len(Tail(s)) = l - 1
          /\ \A i \in 1 .. l - 1 : Tail(s)[i] = s[i + 1]
          /\ p = s[1]
      BY <2>4, HeadTailProperties
    <3>3. p = Append(K, R)[k]
      <4>1. (n + 1 - l) + 1 = k /\ 1 \in 1 .. l
        BY <1>2, <3>1
      <4> QED BY <2>2, <3>2, <4>1
    <3>4. \A i \in 1 .. Len(Tail(s)) : Tail(s)[i] = Append(K, R)[(n + 1 - Len(Tail(s))) + i]
      <4> SUFFICES ASSUME NEW i \in 1 .. l - 1
                   PROVE  Tail(s)[i] = Append(K, R)[(n + 1 - (l - 1)) + i]
        BY <3>2
      <4>1. i + 1 \in 1 .. l /\ (n + 1 - l) + (i + 1) = (n + 1 - (l - 1)) + i
        BY <1>2, <3>1
      <4> QED BY <2>2, <3>2, <4>1
    <3>5. p.op = "copy" => k \in 1 .. n /\ p = K[k] /\ l >= 2
      <4>1. k = n + 1 => p.op = "record"
        BY <1>2, <3>3
      <4>2. k # n + 1 => k \in 1 .. n /\ l >= 2
        BY <1>2, <3>1
      <4> QED BY <1>2, <3>3, <4>1, <4>2
    <3>6. p.op # "copy" => l = 1 /\ k = n + 1
      <4>1. k \in 1 .. n => p.op = "copy"
        BY <1>2, <3>3 DEF Jobs
      <4>2. k \notin 1 .. n => k = n + 1 /\ l = 1
        <5>1. n \in Nat
          BY <1>2
        <5> HIDE DEF n, l
        <5> QED BY <3>1, <5>1
      <4> QED BY <4>1, <4>2
    <3> HIDE DEF l, k, p
    <3>7. ASSUME p.op # "copy"
          PROVE  <<g, c, Tail(s)>> \in E
      <4>1. Len(s) = 1 /\ Len(Tail(s)) = 0
        <5>1. l = 1
          BY <3>6, <3>7
        <5>2. Len(Tail(s)) = l - 1
          BY <3>2
        <5> QED BY <5>1, <5>2 DEF l
      <4>2. ~g.copying
        <5>1. g.copying => Len(s) >= 2
          BY <2>2
        <5> QED BY <4>1, <5>1
      <4>3. \A i \in 1 .. n : g.slab[K[i].to] = m[i]
        <5>1. \A i \in 1 .. n : i <= n + 1 - Len(s) => g.slab[K[i].to] = m[i]
          BY <2>2
        <5>2. \A i \in 1 .. n : i <= n + 1 - 1
          <6>1. n \in Nat
            BY <1>2
          <6> HIDE DEF n
          <6> QED BY <6>1
        <5> QED BY <4>1, <5>1, <5>2
      <4>4. 0 <= n + 1
        BY <1>2
      <4>5. Works(g, c, Tail(s), K, R, T, m)
        BY <2>2, <3>4, <4>1, <4>2, <4>3, <4>4 DEF Works
      <4> QED BY <3>2, <4>5, InWorking
    <3>8. ASSUME p.op = "copy"
          PROVE  /\ p.to \in Places /\ p.from \in Places /\ g.slab[p.from] = m[k] /\ m[k] \in Experts
                 /\ \A e \in Experts : T[e] # p.to
                 /\ \A i \in 1 .. n : i # k => K[i].to # p.to
      <4>1. k \in 1 .. n /\ p = K[k]
        BY <3>5, <3>8
      <4>2. /\ p.to \in Places /\ m[k] \in Experts /\ p.from = T[m[k]]
            /\ \A e \in Experts : T[e] # p.to
            /\ \A i \in 1 .. n : i # k => K[i].to # p.to
        BY <4>1 DEF Jobs
      <4>3. g.slab[T[m[k]]] = m[k] /\ T[m[k]] \in Places
        BY <2>2, <4>2 DEF Exact
      <4> QED BY <4>2, <4>3
    <3>9. g.slab \in [Places -> Experts \cup {None}]
      BY DEF Gpus
    <3>10. ASSUME p.op = "copy", ~g.copying
           PROVE  <<Opened(g, p), c, s>> \in E
      <4> DEFINE h == Opened(g, p)
      <4>1. /\ h \in Gpus /\ h.table = T
            /\ \A q \in Places : q # p.to => h.slab[q] = g.slab[q]
        BY <2>2, <3>8, <3>9, <3>10 DEF Opened, Gpus
      <4> HIDE DEF h
      <4>2. Exact(h)
        BY <2>2, <3>8, <3>10, <4>1 DEF Exact
      <4>3. ASSUME NEW i \in 1 .. n, i <= n + 1 - l
            PROVE  h.slab[K[i].to] = m[i]
        <5>1. i # k
          BY <1>2, <3>1, <4>3 DEF k, l
        <5>2. K[i].to # p.to /\ K[i].to \in Places
          BY <3>8, <3>10, <5>1 DEF Jobs
        <5> QED BY <2>2, <4>1, <4>3, <5>2 DEF l
      <4>4. Works(h, c, s, K, R, T, m)
        BY <2>2, <3>5, <3>10, <4>1, <4>2, <4>3 DEF Works, l
      <4> QED BY <4>1, <4>4, InWorking DEF h
    <3>11. ASSUME p.op = "copy", g.copying
           PROVE  <<Copied(g, p), c, Tail(s)>> \in E
      <4> DEFINE h == Copied(g, p)
      <4>1. /\ h \in Gpus /\ h.table = T /\ ~h.copying /\ h.slab[p.to] = m[k]
            /\ \A q \in Places : q # p.to => h.slab[q] = g.slab[q]
        BY <2>2, <3>8, <3>9, <3>11 DEF Copied, Gpus
      <4> HIDE DEF h
      <4>2. Exact(h)
        BY <2>2, <3>8, <3>11, <4>1 DEF Exact
      <4>3. ASSUME NEW i \in 1 .. n, i <= n + 1 - (l - 1)
            PROVE  h.slab[K[i].to] = m[i]
        <5>1. CASE i = k
          BY <3>5, <3>11, <4>1, <5>1
        <5>2. CASE i # k
          <6>1. i <= n + 1 - l
            BY <1>2, <3>1, <4>3, <5>2, SMTT(20) DEF k, l
          <6>2. K[i].to # p.to /\ K[i].to \in Places
            BY <3>8, <3>11, <5>2 DEF Jobs
          <6> QED BY <2>2, <4>1, <6>1, <6>2 DEF l
        <5> QED BY <5>1, <5>2
      <4>4. Works(h, c, Tail(s), K, R, T, m)
        <5>1. Len(Tail(s)) = l - 1 /\ l - 1 <= n + 1
          BY <1>2, <3>1, <3>2 DEF l
        <5> QED BY <2>2, <3>4, <4>1, <4>2, <4>3, <5>1 DEF Works
      <4> QED BY <3>2, <4>1, <4>4, InWorking DEF h
    <3> QED BY <2>3, <3>7, <3>10, <3>11 DEF p
  <2> QED BY <2>3, <2>4
<1>4. Closed(E)
  BY <1>3 DEF Closed
<1> QED BY <1>1, <1>4

\* The copies of the parked batch, and the expert each one moves.
Batch(x) == CopiesB(x.tr.pend.toB) \o CopiesA(New(x))
Moved(x) == [i \in 1 .. Len(Batch(x)) |->
               IF i <= Len(x.tr.pend.toB) THEN x.tr.pend.toB[i].evict
               ELSE New(x)[i - Len(x.tr.pend.toB)].new]

\* The copies of a batch are jobs for the table they are issued under.
LEMMA BatchJobs ==
  ASSUME NEW x, Kept(x), x.tr.pend # None
  PROVE  /\ Batch(x) \in Seq(Ops) /\ Jobs(Batch(x), FillTable(x.res), Moved(x))
         /\ \A i \in DOMAIN x.tr.pend.toB :
              \E j \in 1 .. Len(Batch(x)) : /\ Batch(x)[j].to = Pinned(x.tr.pend.toB[i].cs)
                                            /\ Moved(x)[j] = x.tr.pend.toB[i].evict
         /\ \A i \in DOMAIN New(x) :
              \E j \in 1 .. Len(Batch(x)) : /\ Batch(x)[j].to = Hot(New(x)[i].spare)
                                            /\ Moved(x)[j] = New(x)[i].new
<1> DEFINE back == x.tr.pend.toB
           new  == New(x)
           nb   == Len(back)
           nn   == Len(new)
           K    == Batch(x)
           T    == FillTable(x.res)
           m    == Moved(x)
           sets == x.res.sets
           cold == x.res.cold
<1>1. /\ Kept(Issue(x)) /\ Issue(x).res.sets = sets /\ Issue(x).res.cold = cold
      /\ Issue(x).tr.pend = None /\ Issue(x).tr.inB = back /\ Issue(x).tr.inA = new
  BY IssueKept, IssueFields
<1>2. Back(Issue(x).tr) = back /\ back \in Seq(Swaps) /\ new \in Seq(Swaps)
  BY <1>1 DEF Back, Kept, Books, Trickles
<1>3. Homes(sets, cold, back) /\ Incoming(sets, cold, new, back)
  BY <1>1, <1>2 DEF Kept
<1>4. x.res \in Residencies
  BY DEF Kept, Books
<1>5. /\ T \in Tables
      /\ \A e \in Experts, s \in HotSlots : sets[s] = e => T[e] = Hot(s)
      /\ \A e \in Experts : cold[e] # None => T[e] = Pinned(cold[e])
  BY <1>3, <1>4, TableOf
<1>6. /\ nb \in Nat /\ nn \in Nat /\ DOMAIN back = 1 .. nb /\ DOMAIN new = 1 .. nn
      /\ \A i \in 1 .. nb : /\ back[i].slot \in HotSlots /\ back[i].evict \in Experts /\ back[i].cs \in PinnedSlots
      /\ \A i \in 1 .. nn : /\ new[i].new \in Experts /\ new[i].cs \in PinnedSlots /\ new[i].spare \in HotSlots
  BY <1>2, SwapSeq
<1>7. /\ CopiesB(back) \in Seq(Ops) /\ CopiesA(new) \in Seq(Ops)
      /\ Len(CopiesB(back)) = nb /\ Len(CopiesA(new)) = nn
      /\ \A i \in 1 .. nb : CopiesB(back)[i] = CopyB(back[i])
      /\ \A i \in 1 .. nn : CopiesA(new)[i] = CopyA(new[i])
  BY <1>2, CopiesTyped
<1>8. /\ K \in Seq(Ops) /\ Len(K) = nb + nn
      /\ \A i \in 1 .. nb + nn : K[i] = IF i <= nb THEN CopyB(back[i]) ELSE CopyA(new[i - nb])
  <2> DEFINE cb == CopiesB(back)
             ca == CopiesA(new)
  <2>1. K = cb \o ca
    BY DEF Batch
  <2> HIDE DEF cb, ca, K, nb, nn
  <2>2. /\ K \in Seq(Ops) /\ Len(K) = nb + nn
        /\ \A i \in 1 .. nb + nn : K[i] = IF i <= nb THEN cb[i] ELSE ca[i - nb]
    BY <1>7, <2>1, ConcatProperties DEF cb, ca
  <2>3. ASSUME NEW i \in 1 .. nb + nn
        PROVE  K[i] = IF i <= nb THEN CopyB(back[i]) ELSE CopyA(new[i - nb])
    <3>1. CASE i <= nb
      <4>1. i \in 1 .. nb
        BY <1>6, <3>1
      <4> QED BY <1>7, <2>2, <3>1, <4>1 DEF cb
    <3>2. CASE ~(i <= nb)
      <4>1. i - nb \in 1 .. nn
        BY <1>6, <3>2
      <4> QED BY <1>7, <2>2, <3>2, <4>1 DEF ca
    <3> QED BY <3>1, <3>2
  <2> QED BY <2>2, <2>3
<1>9. \A i \in 1 .. nb + nn : m[i] = IF i <= nb THEN back[i].evict ELSE new[i - nb].new
  BY <1>8 DEF Moved
<1> HIDE DEF back, new, nb, nn, K, T, m, sets, cold
\* The two kinds of copies.
<1>10. ASSUME NEW i \in 1 .. nb
       PROVE  /\ i \in 1 .. nb + nn /\ m[i] = back[i].evict
              /\ K[i].op = "copy" /\ K[i].to = Pinned(back[i].cs) /\ K[i].from = Hot(back[i].slot)
  <2>1. i \in 1 .. nb + nn /\ i <= nb
    BY <1>6
  <2>2. K[i] = CopyB(back[i]) /\ m[i] = back[i].evict
    BY <1>8, <1>9, <2>1
  <2> QED BY <2>1, <2>2 DEF CopyB, CopyTo
<1>11. ASSUME NEW i \in 1 .. nn
       PROVE  /\ nb + i \in 1 .. nb + nn /\ m[nb + i] = new[i].new
              /\ K[nb + i].op = "copy" /\ K[nb + i].to = Hot(new[i].spare) /\ K[nb + i].from = Pinned(new[i].cs)
  <2>1. nb + i \in 1 .. nb + nn /\ ~(nb + i <= nb) /\ (nb + i) - nb = i
    BY <1>6
  <2>2. K[nb + i] = CopyA(new[i]) /\ m[nb + i] = new[i].new
    BY <1>8, <1>9, <2>1
  <2> QED BY <2>1, <2>2 DEF CopyA, CopyTo
<1>12. ASSUME NEW j \in 1 .. nb + nn
       PROVE  \/ j \in 1 .. nb
              \/ \E i \in 1 .. nn : j = nb + i
  <2>1. j \in 1 .. nb \/ (j - nb \in 1 .. nn /\ j = nb + (j - nb))
    BY <1>6
  <2> QED BY <2>1
<1>13. ASSUME NEW i \in 1 .. nb
       PROVE  /\ Pinned(back[i].cs) \in Places /\ Hot(back[i].slot) = T[back[i].evict]
              /\ \A e \in Experts : T[e] # Pinned(back[i].cs)
  <2>1. sets[back[i].slot] = back[i].evict /\ \A e \in Experts : cold[e] # back[i].cs
    BY <1>3, <1>6 DEF Homes
  <2>2. ASSUME NEW e \in Experts
        PROVE  T[e] # Pinned(back[i].cs)
    <3>1. CASE cold[e] = None
      <4>1. PICK s \in HotSlots : sets[s] = e
        BY <1>3, <3>1 DEF Homes
      <4> QED BY <1>5, <4>1 DEF Hot, Pinned
    <3>2. CASE cold[e] # None
      BY <1>5, <2>1, <3>2 DEF Pinned
    <3> QED BY <3>1, <3>2
  <2>3. Pinned(back[i].cs) \in Places
    BY <1>6 DEF Places
  <2> QED BY <1>5, <1>6, <2>1, <2>2, <2>3
<1>14. ASSUME NEW i \in 1 .. nn
       PROVE  /\ Hot(new[i].spare) \in Places /\ Pinned(new[i].cs) = T[new[i].new]
              /\ \A e \in Experts : T[e] # Hot(new[i].spare)
  <2>1. cold[new[i].new] = new[i].cs /\ sets[new[i].spare] = None
    BY <1>3, <1>6 DEF Incoming
  <2>2. ASSUME NEW e \in Experts
        PROVE  T[e] # Hot(new[i].spare)
    <3>1. CASE cold[e] = None
      <4>1. PICK s \in HotSlots : sets[s] = e
        BY <1>3, <3>1 DEF Homes
      <4>2. s # new[i].spare
        BY <2>1, <4>1, Constants
      <4> QED BY <1>5, <4>1, <4>2 DEF Hot
    <3>2. CASE cold[e] # None
      BY <1>5, <3>2 DEF Hot, Pinned
    <3> QED BY <3>1, <3>2
  <2>3. Hot(new[i].spare) \in Places
    BY <1>6 DEF Places
  <2>4. new[i].cs # None
    BY <1>6, Constants
  <2> QED BY <1>5, <1>6, <2>1, <2>2, <2>3, <2>4
<1>15. ASSUME NEW j \in 1 .. nb + nn
       PROVE  /\ K[j].op = "copy" /\ K[j].to \in Places /\ m[j] \in Experts /\ K[j].from = T[m[j]]
              /\ \A e \in Experts : T[e] # K[j].to
  <2>1. CASE j \in 1 .. nb
    BY <1>6, <1>10, <1>13, <2>1
  <2>2. ASSUME NEW i \in 1 .. nn, j = nb + i
        PROVE  /\ K[j].op = "copy" /\ K[j].to \in Places /\ m[j] \in Experts /\ K[j].from = T[m[j]]
               /\ \A e \in Experts : T[e] # K[j].to
    BY <1>6, <1>11, <1>14, <2>2
  <2> QED BY <1>12, <2>1, <2>2
<1>16. ASSUME NEW i \in 1 .. nb + nn, NEW j \in 1 .. nb + nn, i # j
       PROVE  K[i].to # K[j].to
  <2>1. \A a, b \in 1 .. nb : a # b => back[a].cs # back[b].cs
    BY <1>3, <1>6 DEF Homes
  <2>2. \A a, b \in 1 .. nn : a # b => new[a].spare # new[b].spare
    BY <1>3, <1>6 DEF Incoming
  <2>3. \A a \in 1 .. nb : K[a].to = Pinned(back[a].cs)
    BY <1>10
  <2>4. \A a \in 1 .. nn : K[nb + a].to = Hot(new[a].spare)
    BY <1>11
  <2>5. CASE i \in 1 .. nb /\ j \in 1 .. nb
    BY <1>16, <2>1, <2>3, <2>5 DEF Pinned
  <2>6. CASE i \in 1 .. nb /\ \E b \in 1 .. nn : j = nb + b
    BY <2>3, <2>4, <2>6 DEF Pinned, Hot
  <2>7. CASE j \in 1 .. nb /\ \E a \in 1 .. nn : i = nb + a
    BY <2>3, <2>4, <2>7 DEF Pinned, Hot
  <2>8. ASSUME NEW a \in 1 .. nn, NEW b \in 1 .. nn, i = nb + a, j = nb + b
        PROVE  K[i].to # K[j].to
    <3>1. a # b
      BY <1>16, <2>8
    <3> QED BY <2>2, <2>4, <2>8, <3>1 DEF Hot
  <2> QED BY <1>12, <2>5, <2>6, <2>7, <2>8
<1>17. Jobs(K, T, m)
  BY <1>5, <1>8, <1>15, <1>16 DEF Jobs
<1>18. /\ \A i \in DOMAIN back : \E j \in 1 .. Len(K) : K[j].to = Pinned(back[i].cs) /\ m[j] = back[i].evict
       /\ \A i \in DOMAIN new : \E j \in 1 .. Len(K) : K[j].to = Hot(new[i].spare) /\ m[j] = new[i].new
  BY <1>6, <1>8, <1>10, <1>11
<1> QED BY <1>8, <1>17, <1>18 DEF back, new, K, T, m

\* A batch as the side stream sees it: the wait, the copies, the record.
LEMMA IssueOpsAre ==
  ASSUME NEW x, Kept(x), x.tr.pend # None
  PROVE  LET W == WaitFor("commit", x.tr.commitGen)
             R == Record("side", NextGen(x.tr.sideGen))
         IN /\ W \in Ops /\ R \in Ops /\ R.op = "record"
            /\ IssueOps(x) \in Seq(Ops) /\ IssueOps(x) # <<>>
            /\ Head(IssueOps(x)) = W /\ Tail(IssueOps(x)) = Append(Batch(x), R)
            /\ IssueOps(x)[Len(IssueOps(x))] = R
<1> DEFINE W == WaitFor("commit", x.tr.commitGen)
           R == Record("side", NextGen(x.tr.sideGen))
           cb == CopiesB(x.tr.pend.toB)
           ca == CopiesA(New(x))
           K  == Batch(x)
           O  == IssueOps(x)
<1>1. x.tr \in Trickles /\ x.tr.pend.toB \in Seq(Swaps)
  BY DEF Kept, Books, Trickles, Batches
<1>2. W \in Ops /\ R \in Ops /\ R.op = "record"
  BY <1>1 DEF WaitFor, Record, Ops, Trickles, Gens, NextGen
<1>3. New(x) \in Seq(Swaps)
  BY StartedSwaps
<1>4. cb \in Seq(Ops) /\ ca \in Seq(Ops) /\ K \in Seq(Ops)
  BY <1>1, <1>3, CopiesTyped, BatchJobs
<1>5. O = ((<<W>> \o cb) \o ca) \o <<R>> /\ K = cb \o ca
  BY DEF IssueOps, Batch
<1> HIDE DEF W, R, cb, ca, K, O
<1>6. (<<W>> \o cb) \o ca = <<W>> \o K
  <2> DEFINE w == <<W>>
  <2>1. w \in Seq(Ops)
    BY <1>2
  <2> HIDE DEF w
  <2>2. (w \o cb) \o ca = w \o (cb \o ca)
    BY <1>4, <2>1
  <2> QED BY <1>5, <2>2 DEF w
<1>7. (<<W>> \o K) \o <<R>> = <<W>> \o Append(K, R)
  <2> DEFINE w == <<W>>
             r == <<R>>
  <2>1. w \in Seq(Ops) /\ r \in Seq(Ops)
    BY <1>2
  <2>2. K \o r = Append(K, R)
    BY <1>2, <1>4
  <2> HIDE DEF w, r
  <2>3. (w \o K) \o r = w \o (K \o r)
    BY <1>4, <2>1
  <2> QED BY <2>2, <2>3 DEF w, r
<1>8. O = <<W>> \o Append(K, R)
  BY <1>5, <1>6, <1>7
<1> DEFINE q == Append(K, R)
<1>9. q \in Seq(Ops) /\ q # <<>> /\ q[Len(q)] = R
  BY <1>2, <1>4, QuietBehind
<1> HIDE DEF q
<1>10. <<W>> \in Seq(Ops) /\ <<W>> # <<>>
  BY <1>2
<1>11. /\ O \in Seq(Ops) /\ O # <<>> /\ O[Len(O)] = R
       /\ Head(O) = Head(<<W>>) /\ Tail(O) = Tail(<<W>>) \o q
  BY <1>8, <1>9, <1>10, ConcatIs DEF q
<1>12. Head(<<W>>) = W /\ Tail(<<W>>) = <<>>
  OBVIOUS
<1>13. <<>> \o q = q
  BY <1>9, ConcatEmptySeq
<1> QED BY <1>2, <1>11, <1>12, <1>13 DEF W, R, K, O, q

\* Issuing: behind the wait for the flip the copies run into slots no table
\* entry names, and the record the next landing waits for is behind them.
LEMMA IssueLeads ==
  ASSUME NEW x, Kept(x)
  PROVE  Leads(x, Issue(x))
<1>1. CASE x.tr.pend = None
  BY <1>1, LeadsNowhere DEF Issue
<1>2. CASE x.tr.pend # None
  <2> DEFINE y == Issue(x)
             W == WaitFor("commit", x.tr.commitGen)
             R == Record("side", NextGen(x.tr.sideGen))
             K == Batch(x)
             T == FillTable(x.res)
             m == Moved(x)
             O == IssueOps(x)
             J == Working(K, R, T, m)
  <2>1. /\ y.res.sets = x.res.sets /\ y.res.cold = x.res.cold
        /\ y.tr.pend = None /\ y.tr.inB = x.tr.pend.toB /\ y.tr.inA = New(x)
        /\ y.tr.sideGen = NextGen(x.tr.sideGen)
        /\ y.queue.compute = x.queue.compute /\ y.queue.side = x.queue.side \o O
    BY <1>2, IssueFields
  <2>2. FillTable(y.res) = T
    BY <2>1 DEF FillTable, Resident, SlotHolding
  <2>3. /\ R \in Ops /\ R.op = "record" /\ O \in Seq(Ops) /\ O # <<>>
        /\ Head(O) = W /\ Tail(O) = Append(K, R) /\ O[Len(O)] = R
    BY <1>2, IssueOpsAre
  <2>4. /\ K \in Seq(Ops) /\ Jobs(K, T, m)
        /\ \A i \in DOMAIN y.tr.inB :
             \E j \in 1 .. Len(K) : K[j].to = Pinned(y.tr.inB[i].cs) /\ m[j] = y.tr.inB[i].evict
        /\ \A i \in DOMAIN y.tr.inA :
             \E j \in 1 .. Len(K) : K[j].to = Hot(y.tr.inA[i].spare) /\ m[j] = y.tr.inA[i].new
    BY <1>2, <2>1, BatchJobs
  <2>5. W.op = "wait" /\ W.ev = "commit" /\ W.gen = x.tr.commitGen
    BY DEF WaitFor
  <2>6. x.tr.inA = <<>> /\ x.tr.inB = <<>>
    BY <1>2 DEF Kept, Parked
  <2>7. R = Record("side", y.tr.sideGen)
    BY <2>1
  <2>8. /\ Append(K, R) \in Seq(Ops) /\ Len(Append(K, R)) = Len(K) + 1 /\ Len(K) \in Nat
        /\ Append(K, R)[Len(K) + 1] = R
    BY <2>3, <2>4, AppendProperties, LenProperties
  <2> HIDE DEF y, W, R, K, T, m, O
  <2>9. ASSUME NEW D, Future(D, x)
        PROVE  \E E : /\ Future(E, y)
                      /\ \A g : <<g, x.queue.compute, x.queue.side>> \in D
                                => <<g, y.queue.compute, y.queue.side>> \in E
    <3> DEFINE E == Beside(D, O) \cup J
    <3>1. /\ D \subseteq Devices /\ Closed(D)
          /\ \A g, c, s : <<g, c, s>> \in D => g \in Gpus /\ c \in Seq(Ops) /\ s \in Seq(Ops)
      BY <2>9 DEF Future, Devices
    <3>2. J \subseteq Devices /\ Closed(J)
      BY <2>3, <2>4, WorkingClosed
    <3>3. ASSUME NEW g \in Gpus, NEW c \in Seq(Ops), <<g, c, <<>>>> \in D, Ready(W, c, O)
          PROVE  <<g, c, Append(K, R)>> \in J
      <4>1. <<>> \in Seq(Ops)
        OBVIOUS
      <4>2. /\ Exact(g)
            /\ Quiet(c) \/ \E i \in 1 .. Len(c) : c[i] = Record("commit", x.tr.commitGen)
            /\ Quiet(c) => Landed(g, x)
        BY <1>2, <2>9, <3>3, <4>1 DEF Future
      <4>3. \A i \in 1 .. Len(c) : c[i] # Record("commit", x.tr.commitGen)
        BY <2>5, <3>3 DEF Ready
      <4>4. Quiet(c) /\ g.table = T /\ ~g.copying
        BY <4>2, <4>3 DEF Landed, T
      <4> DEFINE s == Append(K, R)
                 n == Len(K)
      <4>5. /\ Len(s) <= n + 1
            /\ \A i \in 1 .. Len(s) : (n + 1 - Len(s)) + i = i
            /\ \A i \in 1 .. n : ~(i <= n + 1 - Len(s))
        BY <2>8
      <4> HIDE DEF n, s
      <4>6. /\ \A i \in 1 .. Len(s) : s[i] = s[(n + 1 - Len(s)) + i]
        BY <4>5
      <4>7. Works(g, c, s, K, R, T, m)
        BY <4>2, <4>4, <4>5, <4>6 DEF Works, s, n
      <4> QED BY <2>8, <4>7, InWorking DEF s
    <3>4. /\ \A g, c, s : <<g, c, s>> \in J => Works(g, c, s, K, R, T, m)
      BY InWorking
    <3> HIDE DEF J
    <3>5. E \subseteq Devices /\ Closed(E)
      BY <2>3, <2>5, <3>1, <3>2, <3>3, BesideClosed
    <3>6. ASSUME NEW g \in Gpus, NEW c \in Seq(Ops), NEW s \in Seq(Ops), <<g, c, s>> \in E
          PROVE  /\ Exact(g)
                 /\ s # <<>> => s[Len(s)] = R
                 /\ s = <<>> => Landed(g, y)
      <4>1. CASE <<g, c, s>> \in Beside(D, O)
        <5>1. PICK q \in Seq(Ops) : s = q \o O /\ <<g, c, q>> \in D
          BY <2>3, <3>1, <4>1, InBeside
        <5>2. Exact(g)
          BY <2>9, <5>1 DEF Future
        <5>3. s # <<>> /\ s[Len(s)] = R
          BY <2>3, <5>1, ConcatIs
        <5> QED BY <5>2, <5>3
      <4>2. CASE <<g, c, s>> \in J
        <5>1. Works(g, c, s, K, R, T, m)
          BY <3>4, <4>2
        <5>2. /\ Exact(g) /\ g.table = T
              /\ Len(s) <= Len(K) + 1
              /\ \A i \in 1 .. Len(s) : s[i] = Append(K, R)[(Len(K) + 1 - Len(s)) + i]
              /\ \A i \in 1 .. Len(K) : i <= Len(K) + 1 - Len(s) => g.slab[K[i].to] = m[i]
              /\ g.copying => Len(s) >= 2
          BY <5>1 DEF Works
        <5>3. ASSUME s # <<>>
              PROVE  s[Len(s)] = R
          <6>1. Len(s) \in 1 .. Len(s) /\ (Len(K) + 1 - Len(s)) + Len(s) = Len(K) + 1
            BY <2>8, <5>3, LenProperties, EmptySeq
          <6> QED BY <2>8, <5>2, <6>1
        <5>4. ASSUME s = <<>>
              PROVE  Landed(g, y)
          <6>1. Len(s) = 0
            BY <5>4
          <6>2. ~g.copying
            BY <5>2, <6>1
          <6>3. \A i \in 1 .. Len(K) : g.slab[K[i].to] = m[i]
            <7>1. \A i \in 1 .. Len(K) : i <= Len(K) + 1 - 0
              BY <2>8
            <7> QED BY <5>2, <6>1, <7>1
          <6> QED BY <2>2, <2>4, <5>2, <6>2, <6>3 DEF Landed
        <5> QED BY <5>2, <5>3, <5>4
      <4> QED BY <3>6, <4>1, <4>2
    <3>7. ASSUME NEW g, <<g, x.queue.compute, x.queue.side>> \in D
          PROVE  <<g, y.queue.compute, y.queue.side>> \in E
      <4>1. <<g, x.queue.compute, x.queue.side \o O>> \in Beside(D, O)
        BY <2>3, <3>1, <3>7, GoesBeside
      <4> QED BY <2>1, <4>1
    <3> HIDE DEF E
    <3>8. Future(E, y)
      BY <2>1, <2>7, <3>5, <3>6 DEF Future
    <3> QED BY <3>7, <3>8
  <2> QED BY <2>9 DEF Leads, y
<1> QED BY <1>1, <1>2

----------------------------------------------------------------------------
(* The calls of the serve thread.                                            *)

\* A tick keeps the promise about the streams.
LEMMA TickLeads ==
  ASSUME NEW x, NEW y, NEW news, Ticks(x, y, news)
  PROVE  Leads(x, y) /\ Leads(x, Issue(y))
<1> DEFINE l == LandSwaps(x)
           in == x.tr.inA
           z == Batched(l, in, news)
<1>1. /\ Kept(x) /\ x.tr.pend = None /\ Loose(l, in) /\ y = Park(l, in, news)
      /\ news \in Seq([slot : HotSlots, new : Experts])
      /\ Planned(l.res.sets, l.res.cold, l.res.spare, in, news)
  BY LandFields DEF Ticks
<1>2. Leads(x, l)
  BY <1>1, LandLeads
<1>3. Kept(y)
  BY TickKept
<1> HIDE DEF l, in, z
<1>4. \/ y = l
      \/ y \in {z, Issue(z)}
  BY <1>1, ParkIs DEF z
<1>5. Parks(z, l, in, news)
  BY <1>1 DEF Parks, z
<1>6. Kept(z) /\ Leads(l, z)
  BY <1>5, BatchedKept, ParkLeads
<1>7. Leads(z, Issue(z)) /\ Leads(y, Issue(y))
  BY <1>3, <1>6, IssueLeads
<1>8. Leads(x, y)
  BY <1>2, <1>4, <1>6, <1>7, LeadsOn
<1> QED BY <1>7, <1>8, LeadsOn

\* So does a drain, two quiet ticks and three issues in one call.
LEMMA DrainLeads ==
  ASSUME NEW x, Kept(x)
  PROVE  Leads(x, Drain(x))
<1> DEFINE y == Issue(x)
           q == QuietTick(y)
           z == Issue(q)
           w == QuietTick(z)
<1>1. Kept(y) /\ y.tr.pend = None /\ Leads(x, y)
  BY IssueKept, IssueLeads
<1>2. CASE y.tr.inA = <<>> /\ y.tr.inB = <<>>
  BY <1>1, <1>2 DEF Drain
<1>3. CASE ~(y.tr.inA = <<>> /\ y.tr.inB = <<>>)
  <2>1. Drain(x) = Issue(w)
    BY <1>3 DEF Drain
  <2> HIDE DEF y
  <2>2. Ticks(y, q, <<>>)
    BY <1>1, QuietTicks
  <2> HIDE DEF q
  <2>3. Kept(z) /\ z.tr.pend = None /\ Leads(y, z)
    BY <2>2, TickKept, TickLeads
  <2> HIDE DEF z
  <2>4. Ticks(z, w, <<>>)
    BY <2>3, QuietTicks
  <2> HIDE DEF w
  <2>5. Leads(z, Issue(w))
    BY <2>4, TickLeads
  <2> QED BY <1>1, <2>1, <2>3, <2>5, LeadsOn
<1> QED BY <1>2, <1>3

\* A launch touches the compute queue only.
LEMMA LaunchKept ==
  ASSUME NEW x, Kept(x)
  PROVE  Kept(Launch(x)) /\ Returns(x, Launch(x))
<1>1. Launch(x) \in Books /\ Launch(x).res = x.res /\ Launch(x).tr = x.tr
  BY LaunchLeads DEF Kept
<1>2. Kept(Launch(x))
  BY <1>1 DEF Kept, Parked
<1>3. Returns(x, Launch(x))
  BY <1>1 DEF Returns, Evicted
<1> QED BY <1>2, <1>3

\* What a step of the host does to the books and to the streams.
Moves(x, y) == Kept(x) /\ Kept(y) /\ Returns(x, y) /\ Leads(x, y)

\* Every call of the serve thread moves the books from one kept state to
\* another, forgets no swap and keeps the promise about the streams.
LEMMA HostMoves ==
  ASSUME BooksInv, HostStep
  PROVE  /\ HostOK' /\ UNCHANGED gpu
         /\ \/ UNCHANGED <<res, tr, queue>>
            \/ \E y : Moves(Now, y) /\ Becomes(y)
<1>1. Kept(Now)
  BY DEF BooksInv
<1>2. HostOK
  BY DEF BooksInv
<1>3. ASSUME Prefill
      PROVE  /\ host' = "prefill" /\ UNCHANGED gpu
             /\ \E y : Moves(Now, y) /\ Becomes(y)
  <2>1. Moves(Now, Launch(Now))
    <3>1. Now \in Books
      BY <1>1 DEF Kept
    <3> HIDE DEF Now
    <3> QED BY <1>1, <3>1, LaunchKept, LaunchLeads DEF Moves
  <2>2. Becomes(Launch(Now)) /\ host' = "prefill" /\ UNCHANGED gpu
    BY <1>3 DEF Prefill
  <2> QED BY <2>1, <2>2
<1>4. ASSUME DecodeStep
      PROVE  /\ host' = "launched" /\ UNCHANGED gpu
             /\ \E y : Moves(Now, y) /\ Becomes(y)
  <2> DEFINE n == Now
             l == Launch(n)
  <2>1. Kept(n) /\ n \in Books
    BY <1>1 DEF Kept
  <2> HIDE DEF n
  <2>2. Kept(l) /\ Returns(n, l) /\ Leads(n, l) /\ l.res = n.res /\ l.tr = n.tr
    BY <2>1, LaunchKept, LaunchLeads
  <2>3. \A e \in Experts : Evicted(n, e) => Evicted(l, e)
    BY <2>2 DEF Evicted
  <2> HIDE DEF l
  <2>4. Kept(Issue(l)) /\ Returns(l, Issue(l)) /\ Leads(l, Issue(l))
    BY <2>2, IssueKept, IssueReturns, IssueLeads
  <2>5. Returns(n, Issue(l)) /\ Leads(n, Issue(l))
    BY <2>2, <2>3, <2>4, LeadsOn DEF Returns
  <2>6. Moves(n, Issue(l))
    BY <2>1, <2>4, <2>5 DEF Moves
  <2>7. Becomes(Issue(l)) /\ host' = "launched" /\ UNCHANGED gpu
    BY <1>4 DEF DecodeStep, l, n
  <2> QED BY <2>6, <2>7 DEF n
<1>5. ASSUME SpecStep
      PROVE  /\ host' = "launched" /\ UNCHANGED gpu
             /\ \/ UNCHANGED <<res, tr, queue>>
                \/ \E y : Moves(Now, y) /\ Becomes(y)
  <2>1. Moves(Now, Launch(Now))
    <3>1. Now \in Books
      BY <1>1 DEF Kept
    <3> HIDE DEF Now
    <3> QED BY <1>1, <3>1, LaunchKept, LaunchLeads DEF Moves
  <2>2. Becomes(Now) => UNCHANGED <<res, tr, queue>>
    BY DEF Becomes, Now
  <2>3. (Becomes(Launch(Now)) \/ Becomes(Now)) /\ host' = "launched" /\ UNCHANGED gpu
    BY <1>5 DEF SpecStep
  <2> QED BY <2>1, <2>2, <2>3
<1>6. ASSUME Tick
      PROVE  /\ host' = "step" /\ UNCHANGED gpu
             /\ \E y : Moves(Now, y) /\ Becomes(y)
  <2> DEFINE n == Now
             x == Issue(n)
             l == LandSwaps(x)
  <2>1. /\ host' = "step" /\ UNCHANGED gpu
        /\ \E news \in Plans(l.res, x.tr.inA) : Becomes(Park(l, x.tr.inA, news))
    BY <1>6 DEF Tick
  <2>2. Kept(n)
    BY <1>1
  <2> HIDE DEF n
  <2>3. /\ Kept(x) /\ x.tr.pend = None /\ Leads(n, x)
        /\ \A e \in Experts : Evicted(n, e) => Evicted(x, e)
    BY <2>2, IssueKept, IssueLeads, IssueReturns
  <2> HIDE DEF x
  <2>4. Loose(l, x.tr.inA)
    BY <2>3, LandFields
  <2>5. PICK news \in Plans(l.res, x.tr.inA) : Becomes(Park(l, x.tr.inA, news))
    BY <2>1
  <2>6. /\ news \in Seq([slot : HotSlots, new : Experts])
        /\ Planned(l.res.sets, l.res.cold, l.res.spare, x.tr.inA, news)
    BY <2>4, PlansPlanned
  <2> DEFINE y == Park(l, x.tr.inA, news)
  <2>7. Ticks(x, y, news)
    BY <2>3, <2>6 DEF Ticks
  <2> HIDE DEF y
  <2>8. Kept(y) /\ Returns(x, y) /\ Leads(x, y)
    BY <2>7, TickKept, TickLeads
  <2>9. Leads(n, y) /\ Returns(n, y)
    BY <2>3, <2>8, LeadsOn DEF Returns
  <2>10. Moves(n, y)
    BY <2>2, <2>8, <2>9 DEF Moves
  <2> QED BY <2>1, <2>5, <2>10 DEF y, n
<1>7. ASSUME EndRequest
      PROVE  /\ HostOK' /\ UNCHANGED gpu
             /\ \E y : Moves(Now, y) /\ Becomes(y)
  <2> DEFINE n == Now
             d == Drain(n)
             y == Issue(n)
  <2>1. /\ Becomes(d) /\ UNCHANGED gpu
        /\ host' = IF y.tr.inA = <<>> /\ y.tr.inB = <<>> THEN "idle" ELSE "draining"
    BY <1>7 DEF EndRequest
  <2>2. Kept(n)
    BY <1>1
  <2> HIDE DEF n
  <2>3. /\ Kept(d) /\ Returns(n, d) /\ Leads(n, d)
        /\ ~(y.tr.inA = <<>> /\ y.tr.inB = <<>>) => Settled(d)
    BY <2>2, DrainKept, DrainLeads
  <2>4. Moves(n, d)
    BY <2>2, <2>3 DEF Moves
  <2> HIDE DEF d, y
  <2>5. HostOK'
    <3>1. tr' = d.tr
      BY <2>1 DEF Becomes
    <3> QED BY <2>1, <2>3, <3>1 DEF HostOK, Settled
  <2> QED BY <2>1, <2>4, <2>5 DEF n
<1>8. ASSUME PrefillDone \/ StepDone \/ Drained \/ AllocFail \/ ResetDone
      PROVE  host' \in {"step", "between", "idle", "failed"} /\ UNCHANGED <<gpu, res, tr, queue>>
  BY <1>8 DEF PrefillDone, StepDone, Drained, AllocFail, ResetDone
<1>9. host' \in {"idle", "prefill", "step", "launched", "between", "failed"} => HostOK'
  BY DEF HostOK
<1> QED BY <1>3, <1>4, <1>5, <1>6, <1>7, <1>8, <1>9 DEF HostStep

----------------------------------------------------------------------------
(* The start, and the steps of the streams.                                  *)

\* What a boot leaves behind: kept books, an exact table, empty streams.
LEMMA InitKept ==
  ASSUME Init
  PROVE  /\ BooksInv /\ gpu \in Gpus /\ Exact(gpu) /\ gpu.table = FillTable(res) /\ ~gpu.copying
         /\ queue = [compute |-> <<>>, side |-> <<>>]
         /\ tr.inA = <<>> /\ tr.inB = <<>> /\ tr.pend = None
<1> DEFINE N == Cardinality(Experts)
<1>1. PICK order \in [1 .. N -> Experts] :
        /\ \A i, j \in DOMAIN order : order[i] = order[j] => i = j
        /\ res = [sets  |-> [s \in HotSlots |-> IF s < HotN THEN order[s + 1] ELSE None],
                  cold  |-> [e \in Experts |->
                               IF \E c \in PinnedSlots : order[HotN + c + 1] = e
                                 THEN CHOOSE c \in PinnedSlots : order[HotN + c + 1] = e
                                 ELSE None],
                  spare |-> [i \in 1 .. Spares |-> HotN + i - 1]]
        /\ gpu = [table   |-> FillTable(res),
                  slab    |-> [p \in Places |->
                                 IF p[1] = "pinned" THEN order[HotN + p[2] + 1]
                                 ELSE IF p[2] < HotN THEN order[p[2] + 1] ELSE None],
                  copying |-> FALSE]
  BY DEF Init
<1>2. PICK m \in Modes :
        tr = [inA |-> <<>>, inB |-> <<>>, pend |-> None, sideGen |-> 0, commitGen |-> 0, mtp |-> m]
  BY DEF Init
<1>3. host = "idle" /\ queue = [compute |-> <<>>, side |-> <<>>]
  BY DEF Init
<1>4. /\ N \in Nat /\ HotN \in Nat \ {0} /\ Spares \in Nat \ {0} /\ HotN <= N /\ None \notin Experts
  BY Constants
<1>5. \A i, j \in 1 .. N : order[i] = order[j] => i = j
  BY <1>1
<1>6. \A e \in Experts : \E i \in 1 .. N : order[i] = e
  <2>1. order \in Injection(1 .. N, Experts)
    BY <1>5, Fun_IsInj
  <2>2. IsFiniteSet(Experts) /\ Cardinality(1 .. N) = N
    <3>1. Cardinality(1 .. N) = IF 1 > N THEN 0 ELSE N - 1 + 1
      BY <1>4, FS_Interval
    <3>2. N = IF 1 > N THEN 0 ELSE N - 1 + 1
      BY <1>4
    <3> QED BY <3>1, <3>2, TrickleAssumption
  <2>3. order \in Surjection(1 .. N, Experts)
    BY <2>1, <2>2, FS_Injection
  <2> HIDE DEF N
  <2>4. \A e \in Experts : \E i \in 1 .. N : order[i] = e
    BY <2>3 DEF Surjection
  <2> QED BY <2>4
<1> HIDE DEF N
<1>7. /\ \A s \in HotSlots : s \in Nat /\ (s < HotN => s + 1 \in 1 .. N)
      /\ \A c \in PinnedSlots : c \in Nat /\ HotN + c + 1 \in 1 .. N
      /\ \A s \in 0 .. HotN - 1 : s \in HotSlots
      /\ \A i \in 1 .. N : i - 1 \in 0 .. HotN - 1 \/ i - HotN - 1 \in PinnedSlots
  BY <1>4 DEF HotSlots, PinnedSlots, N
<1> DEFINE sets == res.sets
           cold == res.cold
           spare == res.spare
<1>8. /\ \A s \in HotSlots : sets[s] = IF s < HotN THEN order[s + 1] ELSE None
      /\ sets \in [HotSlots -> Experts \cup {None}]
  <2>1. sets = [s \in HotSlots |-> IF s < HotN THEN order[s + 1] ELSE None]
    BY <1>1
  <2> HIDE DEF sets
  <2> QED BY <1>7, <2>1
<1>9. /\ \A e \in Experts : \/ cold[e] \in PinnedSlots /\ order[HotN + cold[e] + 1] = e
                            \/ cold[e] = None /\ \A c \in PinnedSlots : order[HotN + c + 1] # e
      /\ cold \in [Experts -> PinnedSlots \cup {None}]
  <2>1. cold = [e \in Experts |->
                  IF \E c \in PinnedSlots : order[HotN + c + 1] = e
                    THEN CHOOSE c \in PinnedSlots : order[HotN + c + 1] = e
                    ELSE None]
    BY <1>1
  <2> HIDE DEF cold
  <2>2. \A e \in Experts : \/ cold[e] \in PinnedSlots /\ order[HotN + cold[e] + 1] = e
                           \/ cold[e] = None /\ \A c \in PinnedSlots : order[HotN + c + 1] # e
    BY <2>1
  <2> QED BY <2>1, <2>2
<1>10. /\ spare \in Seq(HotSlots) /\ Len(spare) = Spares /\ DOMAIN spare = 1 .. Spares
       /\ \A i \in 1 .. Spares : spare[i] = HotN + i - 1
  <2>1. spare = [i \in 1 .. Spares |-> HotN + i - 1]
    BY <1>1
  <2> HIDE DEF spare
  <2>2. \A i \in 1 .. Spares : HotN + i - 1 \in HotSlots
    BY <1>4 DEF HotSlots
  <2>3. spare \in [1 .. Spares -> HotSlots]
    BY <2>1, <2>2
  <2>4. spare \in Seq(HotSlots) /\ Len(spare) = Spares
    BY <1>4, <2>3, FunctionSeq
  <2> QED BY <2>1, <2>4
<1>11. res = [sets |-> sets, cold |-> cold, spare |-> spare]
  BY <1>1
<1> DEFINE slab == gpu.slab
<1>12. /\ gpu.table = FillTable(res) /\ gpu.copying = FALSE
       /\ gpu = [table |-> gpu.table, slab |-> slab, copying |-> gpu.copying]
       /\ slab = [p \in Places |->
                    IF p[1] = "pinned" THEN order[HotN + p[2] + 1]
                    ELSE IF p[2] < HotN THEN order[p[2] + 1] ELSE None]
  BY <1>1
<1>13. /\ \A s \in HotSlots : slab[Hot(s)] = sets[s]
       /\ \A c \in PinnedSlots : slab[Pinned(c)] = order[HotN + c + 1]
       /\ slab \in [Places -> Experts \cup {None}]
  <2> HIDE DEF slab, sets
  <2>1. \A s \in HotSlots : slab[Hot(s)] = sets[s] /\ Hot(s) \in Places
    <3> SUFFICES ASSUME NEW s \in HotSlots
                 PROVE  slab[Hot(s)] = sets[s] /\ Hot(s) \in Places
      OBVIOUS
    <3>1. Hot(s) \in Places /\ Hot(s)[1] = "hot" /\ Hot(s)[2] = s
      BY DEF Places, Hot
    <3> QED BY <1>8, <1>12, <3>1
  <2>2. \A c \in PinnedSlots : slab[Pinned(c)] = order[HotN + c + 1] /\ Pinned(c) \in Places
    <3> SUFFICES ASSUME NEW c \in PinnedSlots
                 PROVE  slab[Pinned(c)] = order[HotN + c + 1] /\ Pinned(c) \in Places
      OBVIOUS
    <3>1. Pinned(c) \in Places /\ Pinned(c)[1] = "pinned" /\ Pinned(c)[2] = c
      BY DEF Places, Pinned
    <3> QED BY <1>12, <3>1
  <2>3. \A p \in Places : slab[p] \in Experts \cup {None}
    <3> SUFFICES ASSUME NEW p \in Places
                 PROVE  slab[p] \in Experts \cup {None}
      OBVIOUS
    <3>1. CASE \E s \in HotSlots : p = Hot(s)
      BY <1>8, <2>1, <3>1
    <3>2. CASE \E c \in PinnedSlots : p = Pinned(c)
      BY <1>7, <2>2, <3>2
    <3> QED BY <3>1, <3>2 DEF Places
  <2> QED BY <1>12, <2>1, <2>2, <2>3
<1> HIDE DEF sets, cold, spare, slab
<1>14. None \notin PinnedSlots
  BY Constants
<1>15. ASSUME NEW e \in Experts
       PROVE  cold[e] = None <=> \E s \in HotSlots : sets[s] = e
  <2>1. PICK i \in 1 .. N : order[i] = e
    BY <1>6
  <2>2. ASSUME cold[e] = None
        PROVE  \E s \in HotSlots : sets[s] = e
    <3>1. \A c \in PinnedSlots : order[HotN + c + 1] # e
      BY <1>9, <1>14, <2>2
    <3>2. i - HotN - 1 \notin PinnedSlots
      <4>1. HotN + (i - HotN - 1) + 1 = i
        BY <1>4
      <4> QED BY <2>1, <3>1, <4>1
    <3>3. i - 1 \in HotSlots /\ i - 1 < HotN /\ (i - 1) + 1 = i
      BY <1>4, <1>7, <3>2
    <3> QED BY <1>8, <2>1, <3>3
  <2>3. ASSUME NEW s \in HotSlots, sets[s] = e, cold[e] # None
        PROVE  FALSE
    <3>1. s < HotN /\ order[s + 1] = e
      BY <1>4, <1>8, <2>3
    <3>2. cold[e] \in PinnedSlots /\ order[HotN + cold[e] + 1] = e
      BY <1>9, <2>3
    <3>3. s + 1 = HotN + cold[e] + 1
      BY <1>5, <1>7, <3>1, <3>2
    <3> QED BY <1>4, <1>7, <3>1, <3>2, <3>3
  <2> QED BY <2>2, <2>3
<1>16. Homes(sets, cold, <<>>)
  <2>1. ASSUME NEW s \in HotSlots, NEW t \in HotSlots, sets[s] # None, sets[s] = sets[t]
        PROVE  s = t
    <3>1. s < HotN /\ t < HotN /\ order[s + 1] = order[t + 1]
      BY <1>8, <2>1
    <3> QED BY <1>5, <1>7, <3>1
  <2>2. ASSUME NEW e \in Experts, NEW f \in Experts, cold[e] # None, cold[e] = cold[f]
        PROVE  e = f
    BY <1>9, <2>2
  <2>3. ASSUME NEW c \in PinnedSlots
        PROVE  \E e \in Experts : cold[e] = c
    <3> DEFINE e == order[HotN + c + 1]
    <3>1. e \in Experts
      BY <1>7
    <3>2. cold[e] \in PinnedSlots /\ order[HotN + cold[e] + 1] = e
      BY <1>9, <3>1
    <3>3. HotN + cold[e] + 1 = HotN + c + 1
      BY <1>5, <1>7, <3>2
    <3>4. cold[e] = c
      BY <1>4, <1>7, <3>2, <3>3
    <3> QED BY <3>1, <3>4
  <2> QED BY <1>15, <2>1, <2>2, <2>3 DEF Homes
<1>17. Free(sets, spare, <<>>, <<>>)
  <2>1. \A i, j \in 1 .. Spares : spare[i] = spare[j] => i = j
    BY <1>4, <1>10
  <2>2. \A i \in 1 .. Spares : spare[i] \in HotSlots /\ ~(spare[i] < HotN)
    BY <1>4, <1>10 DEF HotSlots
  <2>3. ASSUME NEW s \in HotSlots, sets[s] = None
        PROVE  \E i \in 1 .. Spares : spare[i] = s
    <3>1. ~(s < HotN)
      BY <1>4, <1>7, <1>8, <2>3
    <3>2. s - HotN + 1 \in 1 .. Spares /\ HotN + (s - HotN + 1) - 1 = s
      BY <1>4, <3>1 DEF HotSlots
    <3> QED BY <1>10, <3>2
  <2>4. Len(spare) + Len(<<>>) + Len(<<>>) = Spares
    BY <1>4, <1>10
  <2>5. \A i \in 1 .. Spares : sets[spare[i]] = None
    BY <1>8, <2>2
  <2>6. DOMAIN <<>> = {}
    OBVIOUS
  <2> QED BY <1>10, <2>1, <2>3, <2>4, <2>5, <2>6 DEF Free
<1>18. tr \in Trickles /\ tr.inA = <<>> /\ tr.inB = <<>> /\ tr.pend = None
  BY <1>2 DEF Trickles, Gens
<1>19. queue \in Queues
  BY <1>3 DEF Queues
<1>20. res \in Residencies /\ res.sets = sets /\ res.cold = cold /\ res.spare = spare
  BY <1>8, <1>9, <1>10, <1>11 DEF Residencies
<1>21. Kept(Now)
  <2>1. Now.res = res /\ Now.tr = tr /\ Now.queue = queue /\ Now \in Books
    BY <1>18, <1>19, <1>20 DEF Now, Books
  <2>2. Back(tr) = <<>>
    BY <1>18 DEF Back
  <2> HIDE DEF Now
  <2> QED BY <1>16, <1>17, <1>18, <1>20, <2>1, <2>2 DEF Kept, Incoming, Parked
<1>22. /\ FillTable(res) \in Tables
       /\ \A e \in Experts, s \in HotSlots : sets[s] = e => FillTable(res)[e] = Hot(s)
       /\ \A e \in Experts : cold[e] # None => FillTable(res)[e] = Pinned(cold[e])
  BY <1>16, <1>20, TableOf
<1>23. Exact(gpu)
  <2> SUFFICES ASSUME NEW e \in Experts
               PROVE  FillTable(res)[e] \in Places /\ slab[FillTable(res)[e]] = e
    BY <1>12 DEF Exact
  <2>1. CASE cold[e] = None
    <3>1. PICK s \in HotSlots : sets[s] = e
      BY <1>15, <2>1
    <3> QED BY <1>13, <1>22, <3>1 DEF Tables
  <2>2. CASE cold[e] # None
    BY <1>9, <1>13, <1>22, <2>2 DEF Tables
  <2> QED BY <2>1, <2>2
<1>24. gpu \in Gpus
  <2> DEFINE T == gpu.table
  <2>1. T \in Tables /\ slab \in [Places -> Experts \cup {None}] /\ gpu.copying \in BOOLEAN
    BY <1>12, <1>13, <1>22
  <2>2. gpu = [table |-> T, slab |-> slab, copying |-> gpu.copying]
    BY <1>12
  <2> HIDE DEF T
  <2> QED BY <2>1, <2>2 DEF Gpus
<1>25. HostOK
  BY <1>3 DEF HostOK
<1> QED BY <1>3, <1>12, <1>18, <1>21, <1>23, <1>24, <1>25 DEF BooksInv

\* At the start nothing is queued: the promise is kept by the one device there is.
LEMMA InitFuture ==
  ASSUME Init
  PROVE  FutureInv
<1> DEFINE D == {<<gpu, <<>>, <<>>>>}
<1>1. /\ gpu \in Gpus /\ Exact(gpu) /\ gpu.table = FillTable(res) /\ ~gpu.copying
      /\ queue.compute = <<>> /\ queue.side = <<>>
      /\ tr.inA = <<>> /\ tr.inB = <<>> /\ tr.pend = None
  BY InitKept
<1>2. \A g, c, s : <<g, c, s>> \in D <=> g = gpu /\ c = <<>> /\ s = <<>>
  OBVIOUS
<1>3. D \subseteq Devices
  <2>1. <<>> \in Seq(Ops)
    OBVIOUS
  <2>2. <<gpu, <<>>, <<>>>> \in Devices
    BY <1>1, <2>1 DEF Devices
  <2> QED BY <2>2
<1> HIDE DEF D
<1>4. Closed(D)
  BY <1>2, <1>3, IdleClosed
<1>5. Now.res = res /\ Now.tr = tr
  BY DEF Now
<1>6. Landed(gpu, Now)
  BY <1>1, <1>5 DEF Landed
<1>7. Future(D, Now)
  BY <1>1, <1>2, <1>3, <1>4, <1>5, <1>6 DEF Future
<1> QED BY <1>1, <1>2, <1>7 DEF FutureInv

\* The books do not depend on how far the streams have come.
LEMMA KeptQueue ==
  ASSUME NEW x, NEW y, Kept(x), y \in Books, y.res = x.res, y.tr = x.tr
  PROVE  Kept(y)
BY DEF Kept, Parked

\* A step of a stream stays within the devices the promise is about.
LEMMA GpuSteps ==
  ASSUME BooksInv, FutureInv, GpuStep
  PROVE  BooksInv' /\ FutureInv'
<1>1. PICK D : Future(D, Now) /\ <<gpu, queue.compute, queue.side>> \in D
  BY DEF FutureInv
<1> DEFINE c == queue.compute
           s == queue.side
<1>2. D \subseteq Devices /\ Closed(D) /\ gpu \in Gpus /\ c \in Seq(Ops) /\ s \in Seq(Ops)
  BY <1>1 DEF Future, Devices
<1>3. queue \in Queues /\ res \in Residencies /\ tr \in Trickles
  BY DEF BooksInv, Kept, Books, Now
<1>4. UNCHANGED <<host, res, tr>> /\ (ComputeStep \/ SideStep)
  BY DEF GpuStep
<1>5. /\ c # <<>> /\ Ready(Head(c), c, s) => <<After(gpu, Head(c)), Tail(c), s>> \in D
      /\ s # <<>> /\ Head(s).op # "copy" /\ Ready(Head(s), c, s) => <<gpu, c, Tail(s)>> \in D
      /\ s # <<>> /\ Head(s).op = "copy" /\ ~gpu.copying => <<Opened(gpu, Head(s)), c, s>> \in D
      /\ s # <<>> /\ Head(s).op = "copy" /\ gpu.copying => <<Copied(gpu, Head(s)), c, Tail(s)>> \in D
  BY <1>1, <1>2 DEF Closed
<1>6. /\ PopCompute => queue'.compute = Tail(c) /\ queue'.side = s
      /\ PopSide => queue'.compute = c /\ queue'.side = Tail(s)
  BY <1>3 DEF PopCompute, PopSide, Queues
<1>7. \A w : Reached(w) => Ready(w, c, s)
  BY DEF Reached, Ready
<1>8. <<gpu', queue'.compute, queue'.side>> \in D
  <2>1. CASE ComputeWait
    BY <1>5, <1>6, <1>7, <2>1 DEF ComputeWait, ComputeHead, After
  <2>2. CASE ComputeRecord
    BY <1>5, <1>6, <2>2 DEF ComputeRecord, ComputeHead, After, Ready
  <2>3. CASE ComputeFlip
    BY <1>5, <1>6, <2>3 DEF ComputeFlip, ComputeHead, After, Ready
  <2>4. CASE PassEnd
    BY <1>5, <1>6, <2>4 DEF PassEnd, ComputeHead, After, Ready
  <2>5. CASE SideWait
    BY <1>5, <1>6, <1>7, <2>5 DEF SideWait, SideHead
  <2>6. CASE SideRecord
    BY <1>5, <1>6, <2>6 DEF SideRecord, SideHead, Ready
  <2>7. CASE CopyStart
    BY <1>5, <2>7 DEF CopyStart, SideHead, Opened
  <2>8. CASE CopyEnd
    BY <1>5, <1>6, <2>8 DEF CopyEnd, SideHead, Copied
  <2> QED BY <1>4, <2>1, <2>2, <2>3, <2>4, <2>5, <2>6, <2>7, <2>8 DEF ComputeStep, SideStep
<1>9. queue' \in Queues
  <2>1. queue'.compute \in Seq(Ops) /\ queue'.side \in Seq(Ops)
    BY <1>2, <1>8 DEF Devices
  <2>2. queue' = [compute |-> queue'.compute, side |-> queue'.side]
    BY <1>3, <1>4 DEF ComputeStep, SideStep, ComputeWait, ComputeRecord, ComputeFlip, PassEnd,
                      SideWait, SideRecord, CopyStart, CopyEnd, PopCompute, PopSide, Queues
  <2> QED BY <2>1, <2>2 DEF Queues
<1>10. /\ Now'.res = res /\ Now'.tr = tr /\ Now'.queue = queue' /\ Now' \in Books
       /\ Now.res = res /\ Now.tr = tr
  BY <1>3, <1>4, <1>9 DEF Now, Books
<1>11. Kept(Now')
  <2>1. Kept(Now)
    BY DEF BooksInv
  <2> HIDE DEF Now
  <2> QED BY <1>10, <2>1, KeptQueue
<1>12. Future(D, Now')
  BY <1>1, <1>10 DEF Future, Landed
<1>13. HostOK'
  BY <1>4 DEF BooksInv, HostOK
<1> QED BY <1>8, <1>11, <1>12, <1>13 DEF BooksInv, FutureInv

----------------------------------------------------------------------------
(* The invariant.                                                            *)

IInv == BooksInv /\ FutureInv

\* The state the host becomes is the next state of its books.
LEMMA BecomesNow ==
  ASSUME NEW y, y \in Books, Becomes(y)
  PROVE  Now' = y
BY DEF Becomes, Now, Books

\* The steps of the serve thread keep the invariant.
LEMMA HostSteps ==
  ASSUME IInv, HostStep
  PROVE  IInv'
<1>1. BooksInv /\ FutureInv
  BY DEF IInv
<1>2. PICK D : Future(D, Now) /\ <<gpu, queue.compute, queue.side>> \in D
  BY <1>1 DEF FutureInv
<1>3. /\ HostOK' /\ gpu' = gpu
      /\ \/ UNCHANGED <<res, tr, queue>>
         \/ \E y : Moves(Now, y) /\ Becomes(y)
  BY <1>1, HostMoves
<1>4. CASE UNCHANGED <<res, tr, queue>>
  <2>1. Now' = Now
    BY <1>4 DEF Now
  <2>2. Kept(Now)'
    BY <1>1, <2>1 DEF BooksInv
  <2>3. FutureInv'
    BY <1>2, <1>3, <1>4, <2>1 DEF FutureInv
  <2> QED BY <1>3, <2>2, <2>3 DEF IInv, BooksInv
<1>5. CASE \E y : Moves(Now, y) /\ Becomes(y)
  <2>1. PICK y : Moves(Now, y) /\ Becomes(y)
    BY <1>5
  <2>2. Kept(y) /\ Leads(Now, y) /\ y \in Books
    BY <2>1 DEF Moves, Kept
  <2>3. Now' = y /\ queue' = y.queue
    BY <2>1, <2>2, BecomesNow DEF Becomes
  <2>4. Now.queue = queue
    BY DEF Now
  <2>5. PICK E : Future(E, y) /\ <<gpu, y.queue.compute, y.queue.side>> \in E
    BY <1>2, <2>2, <2>4 DEF Leads
  <2>6. FutureInv'
    BY <1>3, <2>3, <2>5 DEF FutureInv
  <2>7. Kept(Now)'
    BY <2>2, <2>3
  <2> QED BY <1>3, <2>6, <2>7 DEF IInv, BooksInv
<1> QED BY <1>3, <1>4, <1>5

\* The books are kept and the promise about the streams holds, always.
THEOREM Invariance == Spec => []IInv
<1>1. Init => IInv
  BY InitKept, InitFuture DEF IInv
<1>2. IInv /\ [Next]_vars => IInv'
  <2> SUFFICES ASSUME IInv, [Next]_vars
               PROVE  IInv'
    OBVIOUS
  <2>1. CASE HostStep
    BY <2>1, HostSteps
  <2>2. CASE GpuStep
    BY <2>2, GpuSteps DEF IInv
  <2>3. CASE UNCHANGED vars
    <3>1. Now' = Now /\ HostOK' = HostOK
      BY <2>3 DEF vars, Now, HostOK
    <3> QED BY <2>3, <3>1 DEF IInv, BooksInv, FutureInv, vars
  <2> QED BY <2>1, <2>2, <2>3 DEF Next
<1> QED BY <1>1, <1>2, PTL DEF Spec

----------------------------------------------------------------------------
(* What the invariant says of the books.                                     *)

\* The invariant types every variable and bounds the spare list.
LEMMA Typing ==
  ASSUME IInv
  PROVE  TypeOK
<1>1. PICK D : Future(D, Now) /\ <<gpu, queue.compute, queue.side>> \in D
  BY DEF IInv, FutureInv
<1>2. gpu \in Gpus
  BY <1>1 DEF Future, Devices
<1>3. /\ res \in Residencies /\ tr \in Trickles /\ queue \in Queues
      /\ Free(res.sets, res.spare, tr.inA, Back(tr)) /\ HostOK
  BY DEF IInv, BooksInv, Kept, Books, Now
<1>4. Len(res.spare) <= Spares
  <2>1. res.spare \in Seq(HotSlots) /\ tr.inA \in Seq(Swaps) /\ Back(tr) \in Seq(Swaps)
    BY <1>3 DEF Residencies, Trickles, Batches, Back
  <2>2. Len(res.spare) \in Nat /\ Len(tr.inA) \in Nat /\ Len(Back(tr)) \in Nat
    BY <2>1, LenProperties
  <2>3. Len(res.spare) + Len(tr.inA) + Len(Back(tr)) = Spares
    BY <1>3 DEF Free
  <2>4. Spares \in Nat
    BY Constants
  <2>5. \A a, b, c \in Nat : a + b + c = Spares => a <= Spares
    BY <2>4
  <2> QED BY <2>2, <2>3, <2>5
<1> QED BY <1>2, <1>3, <1>4 DEF TypeOK, HostOK, Residencies, Trickles, Queues, Gpus

\* Returning is the list of the swaps that come back.
LEMMA ReturningIsBack ==
  ASSUME Kept(Now)
  PROVE  Returning = Back(tr) /\ Back(tr) \in Seq(Swaps)
<1>1. tr \in Trickles /\ (tr.pend # None => tr.inB = <<>>)
  BY DEF Kept, Books, Parked, Now
<1>2. CASE tr.pend = None
  BY <1>1, <1>2, ConcatEmptySeq DEF Returning, Back, Trickles
<1>3. CASE tr.pend # None
  <2>1. tr.pend.toB \in Seq(Swaps) /\ tr.inB = <<>>
    BY <1>1, <1>3 DEF Trickles, Batches
  <2> QED BY <1>3, <2>1, ConcatEmptySeq DEF Returning, Back
<1> QED BY <1>2, <1>3

\* Two sets of at most one element, one of them empty and one not.
LEMMA OneOfTwo ==
  ASSUME NEW A, NEW B, \A a, b \in A : a = b, \A a, b \in B : a = b,
         A = {} \/ B = {}, A # {} \/ B # {}
  PROVE  Cardinality(A) + Cardinality(B) = 1
<1>1. ASSUME NEW S, S # {}, \A a, b \in S : a = b
      PROVE  Cardinality(S) = 1
  <2>1. PICK a \in S : S = {a}
    BY <1>1
  <2> QED BY <2>1, FS_Singleton
<1>2. Cardinality({}) = 0
  BY FS_EmptySet
<1>3. CASE A = {}
  <2>1. Cardinality(B) = 1
    BY <1>1, <1>3
  <2> QED BY <1>2, <1>3, <2>1
<1>4. CASE B = {}
  <2>1. Cardinality(A) = 1
    BY <1>1, <1>4
  <2> QED BY <1>2, <1>4, <2>1
<1> QED BY <1>3, <1>4

\* The invariant gives every expert one home and makes every parked plan
\* executable.
LEMMA Homed ==
  ASSUME Kept(Now)
  PROVE  OneHome /\ PlanExecutable
<1> DEFINE back == Back(tr)
<1>1. Homes(res.sets, res.cold, back) /\ Parked(Now) /\ Returning = back /\ res \in Residencies /\ tr \in Trickles
  BY ReturningIsBack DEF Kept, Now, Books
<1>2. back \in Seq(Swaps)
  BY ReturningIsBack
<1>3. DOMAIN back = 1 .. Len(back) /\ \A i \in DOMAIN back : back[i].cs \in PinnedSlots
  BY <1>2, SwapSeq
<1> HIDE DEF back
<1>4. \A s, t \in HotSlots : res.sets[s] # None /\ res.sets[s] = res.sets[t] => s = t
  BY <1>1 DEF Homes
<1>5. \A e \in Experts : (e \in Resident(res)) = (res.cold[e] = None)
  <2>1. \A e \in Experts : res.cold[e] = None <=> \E s \in HotSlots : res.sets[s] = e
    BY <1>1 DEF Homes
  <2>2. \A e \in Experts : e \in Resident(res) <=> \E s \in HotSlots : res.sets[s] = e
    BY Constants DEF Resident
  <2>3. \A e \in Experts : /\ (e \in Resident(res)) \in BOOLEAN
                           /\ (e \in Resident(res)) <=> (res.cold[e] = None)
    BY <2>1, <2>2
  <2> QED BY <2>3
<1>6. ASSUME NEW c \in PinnedSlots
      PROVE  Cardinality(IsColdAt(c)) + Cardinality({i \in DOMAIN Returning : Returning[i].cs = c}) = 1
  <2> DEFINE A == IsColdAt(c)
             B == {i \in DOMAIN Returning : Returning[i].cs = c}
  <2>1. \A e : e \in A <=> e \in Experts /\ res.cold[e] = c
    BY DEF IsColdAt
  <2>2. \A i : i \in B <=> i \in DOMAIN back /\ back[i].cs = c
    BY <1>1
  <2>3. c # None
    BY Constants
  <2>4. /\ \A e, f \in Experts : res.cold[e] # None /\ res.cold[e] = res.cold[f] => e = f
        /\ \A i \in DOMAIN back : \A e \in Experts : res.cold[e] # back[i].cs
        /\ \A i, j \in DOMAIN back : i # j => back[i].cs # back[j].cs
        /\ (\E e \in Experts : res.cold[e] = c) \/ (\E i \in DOMAIN back : back[i].cs = c)
    BY <1>1 DEF Homes
  <2> HIDE DEF A, B
  <2>5. \A a, b \in A : a = b
    BY <2>1, <2>3, <2>4
  <2>6. \A a, b \in B : a = b
    BY <2>2, <2>4
  <2>7. A = {} \/ B = {}
    BY <2>1, <2>2, <2>4
  <2>8. A # {} \/ B # {}
    BY <2>1, <2>2, <2>4
  <2>9. Cardinality(A) + Cardinality(B) = 1
    BY <2>5, <2>6, <2>7, <2>8, OneOfTwo
  <2> QED BY <2>9 DEF A, B
<1>7. PlanExecutable
  <2>1. tr.pend # None => Planned(res.sets, res.cold, res.spare, tr.pend.toB, tr.pend.newA)
    BY <1>1 DEF Parked, Now
  <2> QED BY <2>1 DEF PlanExecutable, Planned
<1> QED BY <1>4, <1>5, <1>6, <1>7 DEF OneHome

\* The host's books are sound at every moment: one home per expert, one swap
\* back for every pinned slot nobody is in, every parked plan executable.
THEOREM BooksCorrect == Spec => []BooksSound
<1>1. IInv => BooksSound
  BY Typing, Homed DEF IInv, BooksInv, BooksSound
<1> QED BY <1>1, Invariance, PTL

\* The device table names, for every expert and at every moment, a slot that
\* holds that expert's bytes, however the streams run.
THEOREM TableCorrect == Spec => []TableExact
<1>1. IInv => TableExact
  <2> SUFFICES ASSUME IInv
               PROVE  TableExact
    OBVIOUS
  <2>1. PICK D : Future(D, Now) /\ <<gpu, queue.compute, queue.side>> \in D
    BY DEF IInv, FutureInv
  <2>2. gpu \in Gpus /\ queue.compute \in Seq(Ops) /\ queue.side \in Seq(Ops)
    BY <2>1 DEF Future, Devices
  <2>3. Exact(gpu)
    BY <2>1, <2>2 DEF Future
  <2> QED BY <2>3 DEF Exact, TableExact
<1> QED BY <1>1, Invariance, PTL

\* A set that is counted without repetition by an injective list.
LEMMA Counted ==
  ASSUME NEW n \in Nat, NEW S, NEW f \in [1 .. n -> S],
         \A i, j \in 1 .. n : f[i] = f[j] => i = j, \A x \in S : \E i \in 1 .. n : f[i] = x
  PROVE  IsFiniteSet(S) /\ Cardinality(S) = n
<1>1. f \in Injection(1 .. n, S) /\ f \in Surjection(1 .. n, S)
  BY Fun_IsInj, Fun_IsSurj
<1>2. IsFiniteSet(1 .. n) /\ Cardinality(1 .. n) = n
  <2>1. IsFiniteSet(1 .. n) /\ Cardinality(1 .. n) = IF 1 > n THEN 0 ELSE n - 1 + 1
    BY FS_Interval
  <2>2. n = IF 1 > n THEN 0 ELSE n - 1 + 1
    OBVIOUS
  <2> QED BY <2>1, <2>2
<1>3. /\ IsFiniteSet(S)
      /\ Cardinality(S) = Cardinality(1 .. n) <=> f \in Injection(1 .. n, S)
  BY <1>1, <1>2, FS_Surjection
<1> QED BY <1>1, <1>2, <1>3

\* With nothing in flight the layer has its residents and its spare slots.
LEMMA SettledIsFull ==
  ASSUME NEW r \in Residencies, Homes(r.sets, r.cold, <<>>), Free(r.sets, r.spare, <<>>, <<>>)
  PROVE  Len(r.spare) = Spares /\ Cardinality(Resident(r)) = HotN
<1> DEFINE Empty == {s \in HotSlots : r.sets[s] = None}
           Full  == HotSlots \ Empty
<1>1. /\ HotN \in Nat \ {0} /\ Spares \in Nat \ {0} /\ None \notin Experts
  BY Constants
<1>2. /\ r.spare \in Seq(HotSlots) /\ Len(r.spare) \in Nat /\ DOMAIN r.spare = 1 .. Len(r.spare)
      /\ \A i \in DOMAIN r.spare : r.spare[i] \in HotSlots
      /\ r.sets \in [HotSlots -> Experts \cup {None}]
  <2>1. r.spare \in Seq(HotSlots)
    BY DEF Residencies
  <2>2. Len(r.spare) \in Nat /\ DOMAIN r.spare = 1 .. Len(r.spare)
    BY <2>1, LenProperties
  <2>3. \A i \in 1 .. Len(r.spare) : r.spare[i] \in HotSlots
    BY <2>1, ElementOfSeq
  <2> QED BY <2>1, <2>2, <2>3 DEF Residencies
<1>3. /\ \A i, j \in DOMAIN r.spare : r.spare[i] = r.spare[j] => i = j
      /\ \A i \in DOMAIN r.spare : r.sets[r.spare[i]] = None
      /\ \A s \in HotSlots : r.sets[s] = None => \E i \in DOMAIN r.spare : r.spare[i] = s
      /\ Len(r.spare) + Len(<<>>) = Spares
  <2>1. Len(<<>>) \in Nat
    OBVIOUS
  <2> QED BY <1>2, <2>1, FreeOfNone
<1>4. Len(r.spare) = Spares
  <2>1. Len(<<>>) = 0
    OBVIOUS
  <2> QED BY <1>2, <1>3, <2>1
<1>5. IsFiniteSet(Empty) /\ Cardinality(Empty) = Spares
  <2> DEFINE f == [i \in 1 .. Spares |-> r.spare[i]]
  <2>1. DOMAIN r.spare = 1 .. Spares
    BY <1>2, <1>4
  <2>2. f \in [1 .. Spares -> Empty]
    BY <1>2, <1>3, <2>1
  <2>3. \A i, j \in 1 .. Spares : f[i] = f[j] => i = j
    BY <1>3, <2>1
  <2>4. \A x \in Empty : \E i \in 1 .. Spares : f[i] = x
    BY <1>3, <2>1
  <2> HIDE DEF f, Empty
  <2> QED BY <1>1, <2>2, <2>3, <2>4, Counted
<1>6. IsFiniteSet(HotSlots) /\ Cardinality(HotSlots) = HotN + Spares
  <2>1. 0 \in Int /\ HotN + Spares - 1 \in Int
    BY <1>1
  <2>2. /\ IsFiniteSet(0 .. HotN + Spares - 1)
        /\ Cardinality(0 .. HotN + Spares - 1) =
             IF 0 > HotN + Spares - 1 THEN 0 ELSE (HotN + Spares - 1) - 0 + 1
    BY <2>1, FS_Interval
  <2>3. (IF 0 > HotN + Spares - 1 THEN 0 ELSE (HotN + Spares - 1) - 0 + 1) = HotN + Spares
    BY <1>1
  <2> QED BY <2>2, <2>3 DEF HotSlots
<1>7. IsFiniteSet(Full) /\ Cardinality(Full) = HotN
  <2>1. HotSlots \cap Empty = Empty
    OBVIOUS
  <2> HIDE DEF Empty
  <2>2. IsFiniteSet(Full) /\ Cardinality(Full) = Cardinality(HotSlots) - Cardinality(HotSlots \cap Empty)
    BY <1>6, FS_Difference
  <2>3. (HotN + Spares) - Spares = HotN
    BY <1>1
  <2> QED BY <1>5, <1>6, <2>1, <2>2, <2>3
<1>8. Cardinality(Resident(r)) = HotN
  <2> DEFINE f == [s \in Full |-> r.sets[s]]
  <2>1. /\ f \in [Full -> Resident(r)]
        /\ \A x \in Resident(r) : \E s \in Full : f[s] = x
    BY DEF Resident
  <2>2. \A s, t \in Full : f[s] = f[t] => s = t
    BY DEF Homes
  <2> HIDE DEF f, Full
  <2>3. f \in Injection(Full, Resident(r)) /\ f \in Surjection(Full, Resident(r))
    BY <2>1, <2>2, Fun_IsInj, Fun_IsSurj
  <2>4. Cardinality(Resident(r)) = Cardinality(Full)
    BY <1>7, <2>3, FS_Surjection
  <2> QED BY <1>7, <2>4
<1> QED BY <1>4, <1>8

\* Two quiet ticks settle the layer: while the request waits for both streams
\* nothing is in flight, HotN experts are resident and every spare slot is free.
THEOREM DrainCorrect == Spec => []DrainSettles
<1>1. IInv => DrainSettles
  <2> SUFFICES ASSUME IInv, host = "draining"
               PROVE  /\ tr.inA = <<>> /\ tr.inB = <<>> /\ tr.pend = None
                      /\ Cardinality(Resident(res)) = HotN
                      /\ Len(res.spare) = Spares
    BY DEF DrainSettles
  <2>1. tr.inA = <<>> /\ tr.inB = <<>> /\ tr.pend = None
    BY DEF IInv, BooksInv, HostOK
  <2>2. Back(tr) = <<>>
    BY <2>1 DEF Back
  <2>3. /\ res \in Residencies /\ Homes(res.sets, res.cold, Back(tr))
        /\ Free(res.sets, res.spare, tr.inA, Back(tr))
    BY DEF IInv, BooksInv, Kept, Books, Now
  <2>4. Len(res.spare) = Spares /\ Cardinality(Resident(res)) = HotN
    BY <2>1, <2>2, <2>3, SettledIsFull
  <2> QED BY <2>1, <2>4
<1> QED BY <1>1, Invariance, PTL

\* Evicting, by the lists a swap can be in.
LEMMA InEither ==
  ASSUME NEW p \in Seq(Swaps), NEW q \in Seq(Swaps), NEW e
  PROVE  (\E w \in ToSet(p \o q) : w.evict = e)
         <=> (\E i \in DOMAIN p : p[i].evict = e) \/ (\E i \in DOMAIN q : q[i].evict = e)
<1>1. /\ Len(p) \in Nat /\ Len(q) \in Nat /\ DOMAIN p = 1 .. Len(p) /\ DOMAIN q = 1 .. Len(q)
  BY LenProperties
<1>2. /\ p \o q \in Seq(Swaps) /\ Len(p \o q) = Len(p) + Len(q)
      /\ \A i \in 1 .. Len(p) + Len(q) : (p \o q)[i] = IF i <= Len(p) THEN p[i] ELSE q[i - Len(p)]
  BY ConcatProperties
<1>3. DOMAIN (p \o q) = 1 .. Len(p) + Len(q)
  BY <1>2, LenProperties
<1> DEFINE c == p \o q
<1>4. ASSUME NEW i \in DOMAIN p
      PROVE  c[i] = p[i] /\ i \in DOMAIN c
  <2>1. i \in 1 .. Len(p) + Len(q) /\ i <= Len(p)
    BY <1>1
  <2> QED BY <1>2, <1>3, <2>1
<1>5. ASSUME NEW i \in DOMAIN q
      PROVE  c[Len(p) + i] = q[i] /\ Len(p) + i \in DOMAIN c
  <2>1. Len(p) + i \in 1 .. Len(p) + Len(q) /\ ~(Len(p) + i <= Len(p)) /\ (Len(p) + i) - Len(p) = i
    BY <1>1
  <2> QED BY <1>2, <1>3, <2>1
<1>6. ASSUME NEW k \in DOMAIN c
      PROVE  (\E i \in DOMAIN p : c[k] = p[i]) \/ (\E i \in DOMAIN q : c[k] = q[i])
  <2>1. CASE k <= Len(p)
    <3>1. k \in DOMAIN p /\ k \in 1 .. Len(p) + Len(q)
      BY <1>1, <1>3, <2>1
    <3> QED BY <1>2, <2>1, <3>1
  <2>2. CASE ~(k <= Len(p))
    <3>1. k - Len(p) \in DOMAIN q /\ k \in 1 .. Len(p) + Len(q)
      BY <1>1, <1>3, <2>2
    <3> QED BY <1>2, <2>2, <3>1
  <2> QED BY <2>1, <2>2
<1>7. \A w : w \in ToSet(c) <=> \E k \in DOMAIN c : w = c[k]
  BY DEF ToSet
<1> HIDE DEF c
<1>8. (\E w \in ToSet(c) : w.evict = e)
      <=> (\E i \in DOMAIN p : p[i].evict = e) \/ (\E i \in DOMAIN q : q[i].evict = e)
  <2>1. ASSUME \E w \in ToSet(c) : w.evict = e
        PROVE  (\E i \in DOMAIN p : p[i].evict = e) \/ (\E i \in DOMAIN q : q[i].evict = e)
    <3>1. PICK k \in DOMAIN c : c[k].evict = e
      BY <1>7, <2>1
    <3> QED BY <1>6, <3>1
  <2>2. ASSUME NEW i \in DOMAIN p, p[i].evict = e
        PROVE  \E w \in ToSet(c) : w.evict = e
    BY <1>4, <1>7, <2>2
  <2>3. ASSUME NEW i \in DOMAIN q, q[i].evict = e
        PROVE  \E w \in ToSet(c) : w.evict = e
    BY <1>5, <1>7, <2>3
  <2> QED BY <2>1, <2>2, <2>3
<1> QED BY <1>8 DEF c

\* The same for the three lists of the books.
LEMMA EvictingIn ==
  ASSUME NEW x, Kept(x), NEW e
  PROVE  (\E p \in ToSet(x.tr.inA \o (x.tr.inB \o (IF x.tr.pend = None THEN <<>> ELSE x.tr.pend.toB))) :
            p.evict = e)
         <=> Evicted(x, e)
<1> DEFINE p == x.tr.inA
           q == x.tr.inB \o (IF x.tr.pend = None THEN <<>> ELSE x.tr.pend.toB)
<1>1. x.tr \in Trickles /\ (x.tr.pend # None => x.tr.inB = <<>>)
  BY DEF Kept, Books, Parked
<1>2. q = Back(x.tr) /\ q \in Seq(Swaps)
  <2>1. CASE x.tr.pend = None
    BY <1>1, <2>1, ConcatEmptySeq DEF Back, Trickles
  <2>2. CASE x.tr.pend # None
    <3>1. x.tr.pend.toB \in Seq(Swaps) /\ x.tr.inB = <<>>
      BY <1>1, <2>2 DEF Trickles, Batches
    <3> QED BY <2>2, <3>1, ConcatEmptySeq DEF Back
  <2> QED BY <2>1, <2>2
<1>3. p \in Seq(Swaps)
  BY <1>1 DEF Trickles
<1> HIDE DEF p, q
<1>4. (\E w \in ToSet(p \o q) : w.evict = e)
      <=> (\E i \in DOMAIN p : p[i].evict = e) \/ (\E i \in DOMAIN q : q[i].evict = e)
  BY <1>2, <1>3, InEither
<1> QED BY <1>2, <1>4 DEF Evicted, p, q

\* A swap in flight leaves the books only in the step that makes the expert it
\* evicts cold again.
THEOREM SwapsCorrect == Spec => SwapsReturn
<1>1. IInv /\ IInv' /\ [Next]_vars
      => [\A e \in Experts : Evicting(e) /\ ~Evicting(e)' => res'.cold[e] # None]_vars
  <2> SUFFICES ASSUME IInv, IInv', Next
               PROVE  \A e \in Experts : Evicting(e) /\ ~Evicting(e)' => res'.cold[e] # None
    OBVIOUS
  <2>1. \A e : Evicting(e) <=> Evicted(Now, e)
    <3>1. Kept(Now) /\ Now.tr = tr
      BY DEF IInv, BooksInv, Now
    <3> DEFINE n == Now
    <3> HIDE DEF n
    <3>2. \A e : (\E p \in ToSet(n.tr.inA \o (n.tr.inB \o (IF n.tr.pend = None THEN <<>> ELSE n.tr.pend.toB))) :
                    p.evict = e) <=> Evicted(n, e)
      BY <3>1, EvictingIn DEF n
    <3> QED BY <3>1, <3>2 DEF Evicting, Returning, n
  <2>3. CASE UNCHANGED tr
    <3>1. \A e : Evicting(e)' <=> Evicting(e)
      BY <2>3 DEF Evicting, Returning
    <3> QED BY <3>1
  <2>4. ASSUME HostStep, ~UNCHANGED tr
        PROVE  \A e \in Experts : Evicting(e) /\ ~Evicting(e)' => res'.cold[e] # None
    <3>1. PICK y : Moves(Now, y) /\ Becomes(y)
      BY <2>4, HostMoves DEF IInv
    <3>2. y \in Books /\ Returns(Now, y)
      BY <3>1 DEF Moves, Kept
    <3>3. Now' = y /\ y.res = res'
      BY <3>1, <3>2, BecomesNow DEF Becomes
    <3>4. \A e : (\E p \in ToSet(y.tr.inA \o (y.tr.inB \o (IF y.tr.pend = None THEN <<>> ELSE y.tr.pend.toB))) :
                    p.evict = e) <=> Evicted(y, e)
      BY <3>1, EvictingIn DEF Moves
    <3>5. y.tr = tr'
      BY <3>1 DEF Becomes
    <3>6. \A e : Evicting(e)' <=> Evicted(y, e)
      BY <3>4, <3>5 DEF Evicting, Returning
    <3> QED BY <2>1, <3>2, <3>3, <3>6 DEF Returns
  <2>5. GpuStep => UNCHANGED tr
    BY DEF GpuStep
  <2> QED BY <2>3, <2>4, <2>5 DEF Next
<1> QED BY <1>1, Invariance, PTL DEF Spec, SwapsReturn

=============================================================================
