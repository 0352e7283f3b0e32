------------------------ MODULE GlobalArena_proofs -------------------------
(* The books of the arena stay consistent, and every call's moves are moves  *)
(* serve_global can execute, for every number of layers, experts and slots,  *)
(* every policy and every elastic chunk.                                     *)
EXTENDS GlobalArena, SequenceTheorems, WellFoundedInduction, TLAPS

-----------------------------------------------------------------------------
(* Least elements, and sequences that list a set.                            *)

\* A non-empty set of naturals has a least member (Least is defined by CHOOSE).
LEMMA MinNat ==
  ASSUME NEW S \in SUBSET Nat, S # {}
  PROVE  \E x \in S : \A y \in S : x <= y
<1> DEFINE R == {ss \in Nat \X Nat : ss[1] < ss[2]}
<1>1. IsWellFoundedOn(R, Nat)
  BY NatLessThanWellFounded DEF OpToRel
<1>2. PICK x \in S : \A y \in S : ~(<<y, x>> \in R)
  <2> HIDE DEF R
  <2> QED BY <1>1, WFMin
<1>3. \A y \in S : x <= y
  <2> TAKE y \in S
  <2>1. y \in Nat /\ x \in Nat OBVIOUS
  <2>2. ~(<<y, x>> \in R) BY <1>2
  <2>3. <<y, x>> \in R <=> y < x
    <3> <<y, x>> \in Nat \X Nat BY <2>1
    <3> <<y, x>>[1] = y /\ <<y, x>>[2] = x OBVIOUS
    <3> QED BY Zenon DEF R
  <2> QED BY <2>1, <2>2, <2>3
<1> QED BY <1>3

\* The least of a non-empty set of numbers is one of them.
LEMMA LeastIn ==
  ASSUME NEW S \in SUBSET Nat, S # {}
  PROVE  Least(S) \in S
BY MinNat DEF Least

\* The largest index of a set of indices of a sequence of length n.
LEMMA LastOfIn ==
  ASSUME NEW n \in Nat, NEW S \in SUBSET (1 .. n), S # {}
  PROVE  LastOf(S) \in S
<1> DEFINE D == {n - i : i \in S}
<1>1. D \in SUBSET Nat /\ D # {}
  <2>1. \A i \in S : n - i \in Nat
    OBVIOUS
  <2> QED BY <2>1
<1>2. PICK d \in D : \A e \in D : d <= e
  <2> HIDE DEF D
  <2> QED BY <1>1, MinNat
<1>3. PICK i \in S : d = n - i
  BY <1>2
<1>4. \A j \in S : j <= i
  <2> TAKE j \in S
  <2>1. n - j \in D OBVIOUS
  <2>2. n - i <= n - j BY <1>2, <1>3, <2>1
  <2> QED BY <2>2
<1> QED BY <1>4 DEF LastOf

\* What removing, appending and prepending do to the set a sequence lists.
LEMMA ListsRemoveAt ==
  ASSUME NEW T, NEW s \in Seq(T), NEW S, Lists(s, S), NEW i \in DOMAIN s
  PROVE  /\ RemoveAt(s, i) \in Seq(T)
         /\ Lists(RemoveAt(s, i), S \ {s[i]})
<1> DEFINE n == Len(s)
           r == RemoveAt(s, i)
<1>1. n \in Nat /\ i \in 1 .. n /\ DOMAIN s = 1 .. n
  OBVIOUS
<1>2. /\ SubSeq(s, 1, i - 1) \in Seq(T) /\ Len(SubSeq(s, 1, i - 1)) = i - 1
      /\ \A j \in 1 .. i - 1 : SubSeq(s, 1, i - 1)[j] = s[j]
  BY <1>1, SubSeqProperties
<1>3. /\ SubSeq(s, i + 1, n) \in Seq(T) /\ Len(SubSeq(s, i + 1, n)) = n - i
      /\ \A j \in 1 .. n - i : SubSeq(s, i + 1, n)[j] = s[i + j]
  BY <1>1, SubSeqProperties
<1>4. /\ r \in Seq(T) /\ Len(r) = n - 1
      /\ \A j \in 1 .. n - 1 : r[j] = IF j < i THEN s[j] ELSE s[j + 1]
  <2> DEFINE a == SubSeq(s, 1, i - 1)
             b == SubSeq(s, i + 1, n)
  <2>1. r = a \o b
    BY DEF RemoveAt
  <2> HIDE DEF a, b, r
  <2>2. /\ a \in Seq(T) /\ Len(a) = i - 1 /\ \A j \in 1 .. i - 1 : a[j] = s[j]
        /\ b \in Seq(T) /\ Len(b) = n - i /\ \A j \in 1 .. n - i : b[j] = s[i + j]
    BY <1>2, <1>3 DEF a, b
  <2>3. /\ r \in Seq(T) /\ Len(r) = n - 1
        /\ \A j \in 1 .. n - 1 : r[j] = IF j <= i - 1 THEN a[j] ELSE b[j - (i - 1)]
    <3>1. /\ r \in Seq(T) /\ Len(r) = Len(a) + Len(b)
          /\ \A j \in 1 .. Len(a) + Len(b) :
               r[j] = IF j <= Len(a) THEN a[j] ELSE b[j - Len(a)]
      BY <2>1, <2>2, ConcatProperties
    <3>2. Len(a) + Len(b) = n - 1 /\ Len(a) = i - 1
      BY <1>1, <2>2
    <3> QED BY <3>1, <3>2
  <2>4. ASSUME NEW j \in 1 .. n - 1 PROVE r[j] = IF j < i THEN s[j] ELSE s[j + 1]
    <3>1. CASE j < i
      <4>1. j \in 1 .. i - 1 /\ j <= i - 1
        BY <1>1, <3>1
      <4>2. r[j] = a[j]
        BY <2>3, <4>1
      <4> QED BY <2>2, <3>1, <4>1, <4>2
    <3>2. CASE ~(j < i)
      <4> DEFINE m == j - (i - 1)
      <4>1. m \in 1 .. n - i /\ i + m = j + 1 /\ ~(j <= i - 1)
        BY <1>1, <3>2
      <4>2. r[j] = b[m]
        BY <2>3, <4>1
      <4>3. b[m] = s[i + m]
        <5> HIDE DEF m
        <5> QED BY <2>2, <4>1
      <4> QED BY <3>2, <4>1, <4>2, <4>3
    <3> QED BY <3>1, <3>2
  <2> QED BY <2>3, <2>4
<1>5. DOMAIN r = 1 .. n - 1
  BY <1>4
<1> HIDE DEF r
<1>6. \A j \in DOMAIN r : r[j] \in S \ {s[i]}
  BY <1>1, <1>4, <1>5 DEF Lists
<1>7. \A x \in S \ {s[i]} : \E j \in DOMAIN r : r[j] = x
  <2> TAKE x \in S \ {s[i]}
  <2>1. PICK j \in DOMAIN s : s[j] = x
    BY DEF Lists
  <2>2. CASE j < i
    BY <1>1, <1>4, <1>5, <2>1, <2>2
  <2>3. CASE j > i
    <3>1. j - 1 \in DOMAIN r /\ ~(j - 1 < i) /\ (j - 1) + 1 = j
      BY <1>1, <1>5, <2>1, <2>3
    <3> QED BY <1>4, <1>5, <2>1, <3>1
  <2> QED BY <1>1, <2>1, <2>2, <2>3
<1>8. ASSUME NEW j \in DOMAIN r, NEW k \in DOMAIN r, r[j] = r[k] PROVE j = k
  <2> DEFINE at(m) == IF m < i THEN m ELSE m + 1
  <2>1. /\ at(j) \in DOMAIN s /\ s[at(j)] = r[j]
        /\ at(k) \in DOMAIN s /\ s[at(k)] = r[k]
    BY <1>1, <1>4, <1>5
  <2>2. at(j) = at(k)
    BY <1>8, <2>1 DEF Lists
  <2> QED BY <1>1, <1>5, <2>2
<1> QED BY <1>4, <1>6, <1>7, <1>8 DEF Lists, r

\* Removing the place of an entry from a list without repetition.
LEMMA ListsRemove ==
  ASSUME NEW T, NEW s \in Seq(T), NEW S, Lists(s, S), NEW x \in S
  PROVE  /\ RemoveAt(s, IndexOf(s, x)) \in Seq(T)
         /\ Lists(RemoveAt(s, IndexOf(s, x)), S \ {x})
<1>1. IndexOf(s, x) \in DOMAIN s /\ s[IndexOf(s, x)] = x
  BY DEF IndexOf, Lists
<1> QED BY <1>1, ListsRemoveAt

\* Appending an entry the list does not have.
LEMMA ListsAppend ==
  ASSUME NEW T, NEW s \in Seq(T), NEW S, Lists(s, S), NEW x \in T, x \notin S
  PROVE  /\ Append(s, x) \in Seq(T)
         /\ Lists(Append(s, x), S \cup {x})
<1> DEFINE n == Len(s)
           r == Append(s, x)
<1>1. n \in Nat /\ DOMAIN s = 1 .. n
  OBVIOUS
<1>2. r \in Seq(T) /\ Len(r) = n + 1 /\ r[n + 1] = x /\ \A j \in 1 .. n : r[j] = s[j]
  BY <1>1, AppendProperties
<1>3. DOMAIN r = 1 .. n + 1
  BY <1>2
<1> HIDE DEF r
<1>4. \A j \in DOMAIN r : r[j] \in S \cup {x}
  BY <1>1, <1>2, <1>3 DEF Lists
<1>5. \A y \in S \cup {x} : \E j \in DOMAIN r : r[j] = y
  BY <1>1, <1>2, <1>3 DEF Lists
<1>6. \A j, k \in DOMAIN r : r[j] = r[k] => j = k
  BY <1>1, <1>2, <1>3 DEF Lists
<1> QED BY <1>2, <1>4, <1>5, <1>6 DEF Lists, r

\* Putting an entry the list does not have in front.
LEMMA ListsCons ==
  ASSUME NEW T, NEW s \in Seq(T), NEW S, Lists(s, S), NEW x \in T, x \notin S
  PROVE  /\ Cons(x, s) \in Seq(T)
         /\ Lists(Cons(x, s), S \cup {x})
<1> DEFINE n == Len(s)
           r == Cons(x, s)
<1>1. n \in Nat /\ DOMAIN s = 1 .. n
  OBVIOUS
<1>2. r \in Seq(T) /\ Len(r) = n + 1 /\ r[1] = x /\ \A j \in 2 .. n + 1 : r[j] = s[j - 1]
  BY <1>1, ConcatProperties DEF Cons
<1>3. DOMAIN r = 1 .. n + 1
  BY <1>2
<1> HIDE DEF r
<1>4. \A j \in DOMAIN r : r[j] \in S \cup {x}
  BY <1>1, <1>2, <1>3 DEF Lists
<1>5. \A y \in S \cup {x} : \E j \in DOMAIN r : r[j] = y
  <2> TAKE y \in S \cup {x}
  <2>1. CASE y = x
    BY <1>1, <1>2, <1>3, <2>1
  <2>2. CASE y # x
    <3>1. PICK j \in DOMAIN s : s[j] = y
      BY <2>2 DEF Lists
    <3>2. j + 1 \in 2 .. n + 1 /\ (j + 1) - 1 = j
      BY <1>1, <3>1
    <3> QED BY <1>2, <1>3, <3>1, <3>2
  <2> QED BY <2>1, <2>2
<1>6. ASSUME NEW j \in DOMAIN r, NEW k \in DOMAIN r, r[j] = r[k] PROVE j = k
  <2>1. \A m \in DOMAIN r : m # 1 => m - 1 \in DOMAIN s /\ r[m] = s[m - 1] /\ r[m] # x
    <3> TAKE m \in DOMAIN r
    <3> HAVE m # 1
    <3>1. m \in 2 .. n + 1 /\ m - 1 \in DOMAIN s
      BY <1>1, <1>3
    <3> QED BY <1>2, <3>1 DEF Lists
  <2>2. CASE j = 1 \/ k = 1
    BY <1>2, <1>6, <2>1, <2>2
  <2>3. CASE j # 1 /\ k # 1
    <3>1. j - 1 = k - 1
      BY <1>6, <2>1, <2>3 DEF Lists
    <3> QED BY <1>1, <1>3, <3>1
  <2> QED BY <2>2, <2>3
<1> QED BY <1>2, <1>4, <1>5, <1>6 DEF Lists, r

\* Popping the free list's end.
LEMMA ListsFront ==
  ASSUME NEW T, NEW s \in Seq(T), NEW S, Lists(s, S), s # <<>>
  PROVE  /\ Last(s) \in S /\ Front(s) \in Seq(T)
         /\ Lists(Front(s), S \ {Last(s)})
<1> DEFINE n == Len(s)
           r == Front(s)
<1>1. n \in Nat \ {0} /\ DOMAIN s = 1 .. n /\ Last(s) = s[n]
  BY EmptySeq DEF Last
<1>2. r \in Seq(T) /\ Len(r) = n - 1 /\ \A j \in 1 .. n - 1 : r[j] = s[j]
  BY <1>1, SubSeqProperties DEF Front
<1>3. DOMAIN r = 1 .. n - 1
  BY <1>1, <1>2
<1> HIDE DEF r
<1>4. \A j \in DOMAIN r : r[j] \in S \ {s[n]}
  BY <1>1, <1>2, <1>3 DEF Lists
<1>5. \A y \in S \ {s[n]} : \E j \in DOMAIN r : r[j] = y
  BY <1>1, <1>2, <1>3 DEF Lists
<1>6. \A j, k \in DOMAIN r : r[j] = r[k] => j = k
  BY <1>1, <1>2, <1>3 DEF Lists
<1> QED BY <1>1, <1>2, <1>4, <1>5, <1>6 DEF Lists, r

-----------------------------------------------------------------------------
(* Places and pinned books.                                                  *)

\* The three kinds of place are apart, and a place names its slot.
LEMMA PlaceFacts ==
  /\ None \notin Keys /\ Keys \subseteq Nat
  /\ \A q \in Rams : /\ Ram(q) \in Places /\ InRam(Ram(q)) /\ ~InVram(Ram(q))
                     /\ Ram(q).slot = q /\ Ram(q) # Nvme
  /\ \A v \in Vrams : /\ Vram(v) \in Places /\ InVram(Vram(v)) /\ ~InRam(Vram(v))
                      /\ Vram(v).slot = v /\ Vram(v) # Nvme
  /\ Nvme \in Places /\ ~InRam(Nvme) /\ ~InVram(Nvme)
  /\ \A p \in Places : /\ InRam(p) => p.slot \in Rams /\ p = Ram(p.slot)
                       /\ InVram(p) => p.slot \in Vrams /\ p = Vram(p.slot)
                       /\ InRam(p) \/ InVram(p) \/ p = Nvme
<1>1. None \notin Keys /\ Keys \subseteq Nat
  BY DEF Keys, None
<1>2. \A q \in Rams : /\ Ram(q) \in Places /\ InRam(Ram(q)) /\ ~InVram(Ram(q))
                      /\ Ram(q).slot = q /\ Ram(q) # Nvme
  BY DEF Rams, Places, Ram, Nvme, InRam, InVram
<1>3. \A v \in Vrams : /\ Vram(v) \in Places /\ InVram(Vram(v)) /\ ~InRam(Vram(v))
                      /\ Vram(v).slot = v /\ Vram(v) # Nvme
  BY DEF Vrams, Places, Vram, Nvme, InRam, InVram
<1>4. Nvme \in Places /\ ~InRam(Nvme) /\ ~InVram(Nvme)
  BY DEF Places, Nvme, InRam, InVram
<1>5. ASSUME NEW p \in Places
      PROVE  /\ InRam(p) => p.slot \in Rams /\ p = Ram(p.slot)
             /\ InVram(p) => p.slot \in Vrams /\ p = Vram(p.slot)
             /\ InRam(p) \/ InVram(p) \/ p = Nvme
  <2>1. CASE \E v \in Vrams : p = Vram(v)
    BY <1>3, <2>1
  <2>2. CASE \E q \in Rams : p = Ram(q)
    BY <1>2, <2>2
  <2>3. CASE p = Nvme
    BY <1>4, <2>3
  <2> QED BY <2>1, <2>2, <2>3 DEF Places
<1> QED BY <1>1, <1>2, <1>3, <1>4, <1>5

\* The pinned books agree, but for slots X that nobody holds and no list names
\* (between ram_evict or a pop of the free list and the slot's new owner).
BookOK(b, X) ==
  /\ b \in [place : [Keys -> Places], ram : RamType]
  /\ \A q \in Rams : b.ram.own[q] # None => b.place[b.ram.own[q]] = Ram(q)
  /\ \A k \in Keys, q \in Rams : b.place[k] = Ram(q) => b.ram.own[q] = k
  /\ X \subseteq Rams \ Holders(b.ram)
  /\ Lists(b.ram.lru, Holders(b.ram))
  /\ Lists(b.ram.free, (Rams \ Holders(b.ram)) \ X)
  /\ b.ram.flight \cup b.ram.guess \subseteq Holders(b.ram)

\* ram_evict leaves the slot to the caller.
LEMMA EvictOK ==
  ASSUME NEW b, BookOK(b, {}), NEW q \in Rams, q \in Holders(b.ram), q \notin b.ram.flight
  PROVE  /\ BookOK(Evict(b, q), {q})
         /\ b.ram.own[q] \in Keys /\ b.place[b.ram.own[q]] = Ram(q)
         /\ Evict(b, q).place = [b.place EXCEPT ![b.ram.own[q]] = Nvme]
         /\ Evict(b, q).ram.own = [b.ram.own EXCEPT ![q] = None]
         /\ Evict(b, q).ram.flight = b.ram.flight
<1> DEFINE k == b.ram.own[q]
           e == Evict(b, q)
           H == Holders(b.ram)
<1>1. k \in Keys /\ b.place[k] = Ram(q)
  BY PlaceFacts DEF BookOK, RamType, Holders
<1>2. /\ RemoveAt(b.ram.lru, IndexOf(b.ram.lru, q)) \in Seq(Rams)
      /\ Lists(RemoveAt(b.ram.lru, IndexOf(b.ram.lru, q)), H \ {q})
  BY ListsRemove DEF BookOK, RamType, Holders
<1>3. /\ e.place = [b.place EXCEPT ![k] = Nvme]
      /\ e.ram = [b.ram EXCEPT !.lru = RemoveAt(@, IndexOf(@, q)), !.own[q] = None, !.guess = @ \ {q}]
  BY DEF Evict, Unlink
<1>4. /\ e.ram.own = [b.ram.own EXCEPT ![q] = None] /\ e.ram.free = b.ram.free
      /\ e.ram.lru = RemoveAt(b.ram.lru, IndexOf(b.ram.lru, q))
      /\ e.ram.flight = b.ram.flight /\ e.ram.guess = b.ram.guess \ {q}
      /\ e.ram.freed = b.ram.freed
  BY <1>3 DEF BookOK, RamType
<1>5. e \in [place : [Keys -> Places], ram : RamType]
  <2>1. e = [place |-> [b.place EXCEPT ![k] = Nvme],
             ram |-> [b.ram EXCEPT !.lru = RemoveAt(@, IndexOf(@, q)), !.own[q] = None, !.guess = @ \ {q}]]
    BY DEF Evict, Unlink
  <2>2. [b.place EXCEPT ![k] = Nvme] \in [Keys -> Places]
    BY PlaceFacts DEF BookOK
  <2>3. [b.ram EXCEPT !.lru = RemoveAt(@, IndexOf(@, q)), !.own[q] = None, !.guess = @ \ {q}] \in RamType
    BY <1>2 DEF BookOK, RamType
  <2> QED BY <2>1, <2>2, <2>3
<1>6. Holders(e.ram) = H \ {q}
  BY <1>4 DEF BookOK, RamType, Holders
<1> HIDE DEF e
<1>7. \A p \in Rams : e.ram.own[p] # None => e.place[e.ram.own[p]] = Ram(p)
  <2> TAKE p \in Rams
  <2> HAVE e.ram.own[p] # None
  <2>1. p # q /\ e.ram.own[p] = b.ram.own[p]
    BY <1>4 DEF BookOK, RamType
  <2>2. b.ram.own[p] \in Keys /\ b.place[b.ram.own[p]] = Ram(p) /\ b.ram.own[p] # k
    BY <1>1, <2>1, PlaceFacts DEF BookOK, RamType
  <2> QED BY <1>3, <2>1, <2>2 DEF BookOK
<1>8. \A j \in Keys, p \in Rams : e.place[j] = Ram(p) => e.ram.own[p] = j
  <2> TAKE j \in Keys, p \in Rams
  <2> HAVE e.place[j] = Ram(p)
  <2>1. j # k /\ b.place[j] = Ram(p)
    BY <1>1, <1>3, PlaceFacts DEF BookOK
  <2>2. b.ram.own[p] = j /\ p # q
    BY <2>1 DEF BookOK
  <2> QED BY <1>4, <2>2 DEF BookOK, RamType
<1>9. (Rams \ (H \ {q})) \ {q} = (Rams \ H) \ {}
  OBVIOUS
<1> QED BY <1>1, <1>2, <1>3, <1>4, <1>5, <1>6, <1>7, <1>8, <1>9 DEF BookOK, e

\* A slot taken off the free list, its new owner still to come.
LEMMA PopOK ==
  ASSUME NEW b, BookOK(b, {}), NEW q \in Rams \ Holders(b.ram), NEW f \in Seq(Rams),
         Lists(f, (Rams \ Holders(b.ram)) \ {q})
  PROVE  /\ BookOK([b EXCEPT !.ram.free = f], {q})
         /\ [b EXCEPT !.ram.free = f].place = b.place
         /\ [b EXCEPT !.ram.free = f].ram.own = b.ram.own
         /\ [b EXCEPT !.ram.free = f].ram.flight = b.ram.flight
<1> DEFINE c == [b EXCEPT !.ram.free = f]
<1>0. c = [b EXCEPT !.ram.free = f]
  OBVIOUS
<1> HIDE DEF c
<1>1. /\ c.place = b.place /\ c.ram = [b.ram EXCEPT !.free = f]
      /\ c = [place |-> c.place, ram |-> c.ram]
  BY <1>0 DEF BookOK
<1>2. /\ c.ram.own = b.ram.own /\ c.ram.lru = b.ram.lru /\ c.ram.free = f
      /\ c.ram.flight = b.ram.flight /\ c.ram.guess = b.ram.guess
  BY <1>1 DEF BookOK, RamType
<1>3. c.ram \in RamType
  BY <1>1 DEF BookOK, RamType
<1>4. Holders(c.ram) = Holders(b.ram)
  BY <1>2 DEF Holders
<1>5. c \in [place : [Keys -> Places], ram : RamType]
  BY <1>1, <1>3 DEF BookOK
<1>6. /\ Lists(c.ram.lru, Holders(c.ram)) /\ Lists(c.ram.free, (Rams \ Holders(c.ram)) \ {q})
      /\ {q} \subseteq Rams \ Holders(c.ram)
      /\ c.ram.flight \cup c.ram.guess \subseteq Holders(c.ram)
  BY <1>2, <1>4 DEF BookOK
<1>7. /\ \A p \in Rams : c.ram.own[p] # None => c.place[c.ram.own[p]] = Ram(p)
      /\ \A j \in Keys, p \in Rams : c.place[j] = Ram(p) => c.ram.own[p] = j
  BY <1>1, <1>2 DEF BookOK
<1>8. BookOK(c, {q})
  BY <1>5, <1>6, <1>7 DEF BookOK
<1> QED BY <1>1, <1>2, <1>8 DEF c

\* A key outside the pinned tier put into the slot nobody holds.
LEMMA PutOK ==
  ASSUME NEW b, NEW q \in Rams, BookOK(b, {q}), NEW k \in Keys, ~InRam(b.place[k]),
         NEW e, e \in [place : [Keys -> Places], ram : RamType],
         e.place = [b.place EXCEPT ![k] = Ram(q)],
         e.ram.own = [b.ram.own EXCEPT ![q] = k],
         Lists(e.ram.lru, Holders(b.ram) \cup {q}), e.ram.free = b.ram.free,
         e.ram.flight \cup e.ram.guess \subseteq b.ram.flight \cup b.ram.guess \cup {q}
  PROVE  BookOK(e, {})
<1> DEFINE H == Holders(b.ram)
<1>1. q \notin H /\ b.ram.own[q] = None
  BY DEF BookOK, Holders
<1>6. Holders(e.ram) = H \cup {q}
  BY PlaceFacts DEF BookOK, RamType, Holders
<1>7. \A p \in Rams : e.ram.own[p] # None => e.place[e.ram.own[p]] = Ram(p)
  <2> TAKE p \in Rams
  <2> HAVE e.ram.own[p] # None
  <2>1. CASE p = q
    BY <2>1 DEF BookOK, RamType
  <2>2. CASE p # q
    <3>1. e.ram.own[p] = b.ram.own[p]
      BY <2>2 DEF BookOK, RamType
    <3>2. b.ram.own[p] \in Keys /\ b.place[b.ram.own[p]] = Ram(p) /\ b.ram.own[p] # k
      BY <3>1, PlaceFacts DEF BookOK, RamType
    <3> QED BY <3>1, <3>2 DEF BookOK
  <2> QED BY <2>1, <2>2
<1>8. \A j \in Keys, p \in Rams : e.place[j] = Ram(p) => e.ram.own[p] = j
  <2> TAKE j \in Keys, p \in Rams
  <2> HAVE e.place[j] = Ram(p)
  <2>1. CASE j = k
    <3>1. Ram(p) = Ram(q) /\ p = q
      BY <2>1, PlaceFacts DEF BookOK
    <3> QED BY <2>1, <3>1 DEF BookOK, RamType
  <2>2. CASE j # k
    <3>1. b.place[j] = Ram(p) /\ b.ram.own[p] = j
      BY <2>2 DEF BookOK
    <3>2. p # q
      BY <1>1, <3>1, PlaceFacts
    <3> QED BY <3>1, <3>2 DEF BookOK, RamType
  <2> QED BY <2>1, <2>2
<1>9. (Rams \ (H \cup {q})) \ {} = (Rams \ H) \ {q}
  OBVIOUS
<1>10. {} \subseteq Rams \ Holders(e.ram)
  OBVIOUS
<1>11. e.ram.flight \cup e.ram.guess \subseteq Holders(e.ram)
  BY <1>6 DEF BookOK
<1>12. Lists(e.ram.lru, Holders(e.ram)) /\ Lists(e.ram.free, (Rams \ Holders(e.ram)) \ {})
  BY <1>6, <1>9 DEF BookOK
<1> QED BY <1>7, <1>8, <1>10, <1>11, <1>12 DEF BookOK

\* As the most recent one: ram_insert.
LEMMA EnterOK ==
  ASSUME NEW b, NEW q \in Rams, BookOK(b, {q}), NEW k \in Keys, ~InRam(b.place[k])
  PROVE  /\ BookOK(Enter(b, k, q), {})
         /\ Enter(b, k, q).place = [b.place EXCEPT ![k] = Ram(q)]
         /\ Enter(b, k, q).ram.own = [b.ram.own EXCEPT ![q] = k]
         /\ Enter(b, k, q).ram.flight = b.ram.flight
<1> DEFINE e == Enter(b, k, q)
<1>1. Append(b.ram.lru, q) \in Seq(Rams) /\ Lists(Append(b.ram.lru, q), Holders(b.ram) \cup {q})
  BY ListsAppend DEF BookOK, RamType
<1>2. /\ e.place = [b.place EXCEPT ![k] = Ram(q)]
      /\ e.ram = [b.ram EXCEPT !.own[q] = k, !.lru = Append(@, q)]
      /\ e = [place |-> e.place, ram |-> e.ram]
  BY DEF Enter
<1>3. /\ e.ram.own = [b.ram.own EXCEPT ![q] = k] /\ e.ram.free = b.ram.free
      /\ e.ram.lru = Append(b.ram.lru, q)
      /\ e.ram.flight = b.ram.flight /\ e.ram.guess = b.ram.guess
  BY <1>2 DEF BookOK, RamType
<1>4. e \in [place : [Keys -> Places], ram : RamType]
  <2>1. [b.place EXCEPT ![k] = Ram(q)] \in [Keys -> Places]
    BY PlaceFacts DEF BookOK
  <2>2. [b.ram EXCEPT !.own[q] = k, !.lru = Append(@, q)] \in RamType
    BY <1>1 DEF BookOK, RamType
  <2> QED BY <1>2, <2>1, <2>2
<1> HIDE DEF e
<1>5. BookOK(e, {})
  <2>1. /\ Lists(e.ram.lru, Holders(b.ram) \cup {q})
        /\ e.ram.flight \cup e.ram.guess \subseteq b.ram.flight \cup b.ram.guess \cup {q}
    BY <1>1, <1>3
  <2>2. e.place = [b.place EXCEPT ![k] = Ram(q)]
    BY <1>2
  <2> QED BY <1>3, <1>4, <2>1, <2>2, PutOK
<1> QED BY <1>2, <1>3, <1>5 DEF e

\* At the old end with its read in flight: prefetch_admit.
Guessed(b, k, q) ==
  [place |-> [b.place EXCEPT ![k] = Ram(q)],
   ram   |-> [b.ram EXCEPT !.own[q] = k, !.lru = Cons(q, @),
                           !.flight = @ \cup {q}, !.guess = @ \cup {q}]]

\* A slot taken for a guess belongs to it, in flight and at the front.
LEMMA GuessOK ==
  ASSUME NEW b, NEW q \in Rams, BookOK(b, {q}), NEW k \in Keys, ~InRam(b.place[k])
  PROVE  /\ BookOK(Guessed(b, k, q), {})
         /\ Guessed(b, k, q).ram.own = [b.ram.own EXCEPT ![q] = k]
         /\ Guessed(b, k, q).ram.flight = b.ram.flight \cup {q}
<1> DEFINE e == Guessed(b, k, q)
<1>1. Cons(q, b.ram.lru) \in Seq(Rams) /\ Lists(Cons(q, b.ram.lru), Holders(b.ram) \cup {q})
  BY ListsCons DEF BookOK, RamType
<1>2. /\ e.place = [b.place EXCEPT ![k] = Ram(q)]
      /\ e.ram = [b.ram EXCEPT !.own[q] = k, !.lru = Cons(q, @),
                               !.flight = @ \cup {q}, !.guess = @ \cup {q}]
      /\ e = [place |-> e.place, ram |-> e.ram]
  BY DEF Guessed
<1> HIDE DEF e
<1>3. /\ e.ram.own = [b.ram.own EXCEPT ![q] = k] /\ e.ram.free = b.ram.free
      /\ e.ram.lru = Cons(q, b.ram.lru)
      /\ e.ram.flight = b.ram.flight \cup {q} /\ e.ram.guess = b.ram.guess \cup {q}
  BY <1>2 DEF BookOK, RamType
<1>4. e \in [place : [Keys -> Places], ram : RamType]
  <2>1. [b.place EXCEPT ![k] = Ram(q)] \in [Keys -> Places]
    BY PlaceFacts DEF BookOK
  <2>2. [b.ram EXCEPT !.own[q] = k, !.lru = Cons(q, @),
                      !.flight = @ \cup {q}, !.guess = @ \cup {q}] \in RamType
    BY <1>1 DEF BookOK, RamType
  <2> QED BY <1>2, <2>1, <2>2
<1>5. BookOK(e, {})
  <2>1. /\ Lists(e.ram.lru, Holders(b.ram) \cup {q})
        /\ e.ram.flight \cup e.ram.guess \subseteq b.ram.flight \cup b.ram.guess \cup {q}
    BY <1>1, <1>3
  <2>2. e.place = [b.place EXCEPT ![k] = Ram(q)]
    BY <1>2
  <2> QED BY <1>3, <1>4, <2>1, <2>2, PutOK
<1> QED BY <1>3, <1>5 DEF e

\* What ram_insert and demote may do to the places besides moving k: an expert
\* not routed in the call leaves the pinned tier; nothing in flight is touched.
Settles(b, o, k, routed) ==
  /\ o.place[k] = Nvme \/ InRam(o.place[k])
  /\ \A j \in Keys \ {k} : \/ o.place[j] = b.place[j]
                           \/ InRam(b.place[j]) /\ j \notin routed /\ o.place[j] = Nvme
  /\ o.ram.flight = b.ram.flight
  /\ \A q \in b.ram.flight : o.ram.own[q] = b.ram.own[q]

\* A pinned victim is held, not in flight and not of a routed expert.
LEMMA VictimsTakeable ==
  ASSUME NEW r, NEW routed, NEW q \in RamVictims(r, routed)
  PROVE  q \in Rams /\ q \in Holders(r) /\ q \notin r.flight /\ r.own[q] \notin routed
BY DEF RamVictims, Takeable, Holders

\* Every outcome of demoting an expert leaves sound books.
LEMMA DemoteOK ==
  ASSUME NEW b, BookOK(b, {}), NEW k \in Keys, b.place[k] = Nvme,
         NEW routed, NEW o \in Demote(b, k, routed)
  PROVE  BookOK(o, {}) /\ Settles(b, o, k, routed)
<1>1. CASE o = b
  <2>1. BookOK(o, {})
    BY <1>1
  <2>2. Settles(b, o, k, routed)
    BY <1>1 DEF Settles
  <2> QED BY <2>1, <2>2
<1>2. CASE b.ram.free # <<>> /\ o = Enter([b EXCEPT !.ram.free = Front(@)], k, Last(b.ram.free))
  <2> DEFINE q == Last(b.ram.free)
             c == [b EXCEPT !.ram.free = Front(@)]
  <2>1. /\ q \in Rams \ Holders(b.ram) /\ Front(b.ram.free) \in Seq(Rams)
        /\ Lists(Front(b.ram.free), (Rams \ Holders(b.ram)) \ {q})
    <3>1. b.ram.free \in Seq(Rams) /\ Lists(b.ram.free, (Rams \ Holders(b.ram)) \ {})
      BY DEF BookOK, RamType
    <3>2. (Rams \ Holders(b.ram)) \ {} = Rams \ Holders(b.ram)
      OBVIOUS
    <3> QED BY <1>2, <3>1, <3>2, ListsFront
  <2>2. /\ BookOK(c, {q}) /\ c.place = b.place
        /\ c.ram.own = b.ram.own /\ c.ram.flight = b.ram.flight
    <3> HIDE DEF q
    <3>1. c = [b EXCEPT !.ram.free = Front(b.ram.free)]
      BY DEF BookOK, RamType
    <3> DEFINE f == Front(b.ram.free)
    <3>2. q \in Rams \ Holders(b.ram) /\ f \in Seq(Rams) /\ Lists(f, (Rams \ Holders(b.ram)) \ {q})
      BY <2>1
    <3> HIDE DEF c, f
    <3>3. /\ BookOK([b EXCEPT !.ram.free = f], {q})
          /\ [b EXCEPT !.ram.free = f].place = b.place
          /\ [b EXCEPT !.ram.free = f].ram.own = b.ram.own
          /\ [b EXCEPT !.ram.free = f].ram.flight = b.ram.flight
      BY <3>2, PopOK
    <3>4. c = [b EXCEPT !.ram.free = f]
      BY <3>1 DEF f
    <3> QED BY <3>3, <3>4, Zenon
  <2> HIDE DEF c
  <2>7. o = Enter(c, k, q) /\ ~InRam(c.place[k])
    BY <1>2, <2>2, PlaceFacts DEF c
  <2>8. /\ BookOK(o, {}) /\ o.place = [b.place EXCEPT ![k] = Ram(q)]
        /\ o.ram.own = [b.ram.own EXCEPT ![q] = k] /\ o.ram.flight = b.ram.flight
    <3>1. q \in Rams
      BY <2>1
    <3> HIDE DEF q
    <3>2. /\ BookOK(Enter(c, k, q), {})
          /\ Enter(c, k, q).place = [c.place EXCEPT ![k] = Ram(q)]
          /\ Enter(c, k, q).ram.own = [c.ram.own EXCEPT ![q] = k]
          /\ Enter(c, k, q).ram.flight = c.ram.flight
      BY <2>2, <2>7, <3>1, EnterOK
    <3> QED BY <2>2, <2>7, <3>2
  <2>9. q \in Rams /\ q \notin b.ram.flight
    BY <2>1 DEF BookOK
  <2> HIDE DEF q
  <2>10. Settles(b, o, k, routed)
    <3>1. InRam(o.place[k])
      BY <2>8, <2>9, PlaceFacts DEF BookOK
    <3>2. \A j \in Keys \ {k} : o.place[j] = b.place[j]
      BY <2>8 DEF BookOK
    <3>3. \A p \in b.ram.flight : o.ram.own[p] = b.ram.own[p]
      BY <2>8, <2>9 DEF BookOK, RamType
    <3> QED BY <2>8, <3>1, <3>2, <3>3 DEF Settles
  <2> QED BY <2>8, <2>10
<1>3. ASSUME NEW q \in RamVictims(b.ram, routed), o = Enter(Evict(b, q), k, q)
      PROVE  BookOK(o, {}) /\ Settles(b, o, k, routed)
  <2>1. q \in Rams /\ q \in Holders(b.ram) /\ q \notin b.ram.flight /\ b.ram.own[q] \notin routed
    BY <1>3, VictimsTakeable
  <2> DEFINE x == b.ram.own[q]
             c == Evict(b, q)
  <2>2. /\ BookOK(c, {q}) /\ x \in Keys /\ b.place[x] = Ram(q)
        /\ c.place = [b.place EXCEPT ![x] = Nvme] /\ c.ram.own = [b.ram.own EXCEPT ![q] = None]
        /\ c.ram.flight = b.ram.flight
    BY <2>1, EvictOK
  <2>3. x # k /\ ~InRam(c.place[k])
    BY <2>1, <2>2, PlaceFacts DEF BookOK
  <2> HIDE DEF c
  <2>4. /\ BookOK(o, {}) /\ o.place = [c.place EXCEPT ![k] = Ram(q)]
        /\ o.ram.own = [c.ram.own EXCEPT ![q] = k] /\ o.ram.flight = b.ram.flight
    <3>1. o = Enter(c, k, q)
      BY <1>3 DEF c
    <3>0. q \in Rams /\ BookOK(c, {q}) /\ ~InRam(c.place[k])
      BY <2>1, <2>2, <2>3
    <3>2. /\ BookOK(Enter(c, k, q), {})
          /\ Enter(c, k, q).place = [c.place EXCEPT ![k] = Ram(q)]
          /\ Enter(c, k, q).ram.own = [c.ram.own EXCEPT ![q] = k]
          /\ Enter(c, k, q).ram.flight = c.ram.flight
      BY ONLY <3>0, k \in Keys, EnterOK
    <3> QED BY <2>2, <3>1, <3>2
  <2>5. InRam(o.place[k])
    BY <2>1, <2>2, <2>4, PlaceFacts DEF BookOK
  <2>6. ASSUME NEW j \in Keys \ {k}
        PROVE  \/ o.place[j] = b.place[j]
               \/ InRam(b.place[j]) /\ j \notin routed /\ o.place[j] = Nvme
    BY <2>1, <2>2, <2>4, PlaceFacts DEF BookOK
  <2>7. \A p \in b.ram.flight : o.ram.own[p] = b.ram.own[p]
    BY <2>1, <2>2, <2>4 DEF BookOK, RamType
  <2> QED BY <2>4, <2>5, <2>6, <2>7 DEF Settles
<1>4. \/ o = b
      \/ b.ram.free # <<>> /\ o = Enter([b EXCEPT !.ram.free = Front(@)], k, Last(b.ram.free))
      \/ \E q \in RamVictims(b.ram, routed) : o = Enter(Evict(b, q), k, q)
  BY DEF Demote, RamInsert
<1> QED BY <1>1, <1>2, <1>3, <1>4

\* So does inserting one, which demotes it the same way.
LEMMA RamInsertOK ==
  ASSUME NEW b, BookOK(b, {}), NEW k \in Keys, b.place[k] = Nvme,
         NEW routed, NEW o \in RamInsert(b, k, routed)
  PROVE  BookOK(o, {}) /\ Settles(b, o, k, routed)
BY DemoteOK DEF Demote

\* A pinned expert's slot given up for a place outside the pinned tier: by its
\* admission into VRAM (Release), or because its guessed read was taken back.
LEMMA LeaveOK ==
  ASSUME NEW b, BookOK(b, {}), NEW k \in Keys, NEW q \in Rams, b.place[k] = Ram(q),
         NEW p \in Places, ~InRam(p), NEW c,
         c \in [place : [Keys -> Places], ram : RamType],
         c.place = [b.place EXCEPT ![k] = p],
         c.ram.own = [b.ram.own EXCEPT ![q] = None],
         c.ram.lru = RemoveAt(b.ram.lru, IndexOf(b.ram.lru, q)),
         c.ram.free = Append(b.ram.free, q),
         c.ram.flight \subseteq b.ram.flight, q \notin c.ram.flight,
         c.ram.guess = b.ram.guess \ {q}
  PROVE  BookOK(c, {})
<1> DEFINE H == Holders(b.ram)
<1>1. b.ram.own[q] = k /\ q \in H
  BY PlaceFacts DEF BookOK, Holders
<1>2. Lists(RemoveAt(b.ram.lru, IndexOf(b.ram.lru, q)), H \ {q})
  BY <1>1, ListsRemove DEF BookOK, RamType
<1>3. Lists(Append(b.ram.free, q), (Rams \ H) \cup {q})
  <2>1. b.ram.free \in Seq(Rams) /\ Lists(b.ram.free, (Rams \ H) \ {}) /\ (Rams \ H) \ {} = Rams \ H
    BY DEF BookOK, RamType
  <2> QED BY <1>1, <2>1, ListsAppend
<1>4. Holders(c.ram) = H \ {q}
  BY DEF BookOK, RamType, Holders
<1>5. (Rams \ (H \ {q})) \ {} = (Rams \ H) \cup {q}
  BY <1>1
<1>6. ASSUME NEW r \in Rams, c.ram.own[r] # None
      PROVE  c.place[c.ram.own[r]] = Ram(r)
  <2>1. r # q /\ c.ram.own[r] = b.ram.own[r]
    BY <1>6 DEF BookOK, RamType
  <2>2. b.ram.own[r] \in Keys /\ b.place[b.ram.own[r]] = Ram(r)
    BY <1>6, <2>1 DEF BookOK, RamType
  <2>3. b.ram.own[r] # k
    BY <1>1, <2>1, <2>2, PlaceFacts
  <2> QED BY <2>1, <2>2, <2>3 DEF BookOK
<1>7. ASSUME NEW j \in Keys, NEW r \in Rams, c.place[j] = Ram(r)
      PROVE  c.ram.own[r] = j
  <2>1. j # k /\ b.place[j] = Ram(r)
    BY <1>7, PlaceFacts DEF BookOK
  <2>2. b.ram.own[r] = j /\ r # q
    BY <1>1, <2>1 DEF BookOK
  <2> QED BY <2>2 DEF BookOK, RamType
<1>8. c.ram.flight \cup c.ram.guess \subseteq Holders(c.ram)
  BY <1>4 DEF BookOK
<1> QED BY <1>2, <1>3, <1>4, <1>5, <1>6, <1>7, <1>8 DEF BookOK

\* A pinned slot given back goes to the free list.
LEMMA ReleaseOK ==
  ASSUME NEW b, BookOK(b, {}), NEW k \in Keys, NEW q \in Rams, b.place[k] = Ram(q),
         q \notin b.ram.flight, NEW p \in Places, ~InRam(p)
  PROVE  /\ BookOK([place |-> [b.place EXCEPT ![k] = p], ram |-> Release(b.ram, q)], {})
         /\ Release(b.ram, q).own = [b.ram.own EXCEPT ![q] = None]
         /\ Release(b.ram, q).flight = b.ram.flight
<1> DEFINE r == Release(b.ram, q)
           c == [place |-> [b.place EXCEPT ![k] = p], ram |-> r]
<1>1. r = [b.ram EXCEPT !.lru = RemoveAt(@, IndexOf(@, q)), !.own[q] = None, !.free = Append(@, q),
                        !.freed = @ \cup {q}, !.guess = @ \ {q}]
  BY DEF Release, Unlink
<1>2. /\ RemoveAt(b.ram.lru, IndexOf(b.ram.lru, q)) \in Seq(Rams)
      /\ Append(b.ram.free, q) \in Seq(Rams)
  <2>1. b.ram.own[q] = k /\ q \in Holders(b.ram)
    BY PlaceFacts DEF BookOK, Holders
  <2> QED BY <2>1, ListsRemove, AppendProperties DEF BookOK, RamType
<1>3. /\ r \in RamType /\ r.own = [b.ram.own EXCEPT ![q] = None]
      /\ r.lru = RemoveAt(b.ram.lru, IndexOf(b.ram.lru, q)) /\ r.free = Append(b.ram.free, q)
      /\ r.flight = b.ram.flight /\ r.guess = b.ram.guess \ {q}
  <2> HIDE DEF r
  <2> QED BY <1>1, <1>2, PlaceFacts, ZenonT(30) DEF BookOK, RamType
<1> HIDE DEF r
<1>4. c \in [place : [Keys -> Places], ram : RamType]
  BY <1>3 DEF BookOK
<1>5. c.place = [b.place EXCEPT ![k] = p] /\ c.ram = r
  OBVIOUS
<1> HIDE DEF c
<1>6. BookOK(c, {})
  <2>1. /\ c.ram.own = [b.ram.own EXCEPT ![q] = None]
        /\ c.ram.lru = RemoveAt(b.ram.lru, IndexOf(b.ram.lru, q))
        /\ c.ram.free = Append(b.ram.free, q)
        /\ c.ram.flight \subseteq b.ram.flight /\ q \notin c.ram.flight
        /\ c.ram.guess = b.ram.guess \ {q}
    BY <1>3, <1>5
  <2> QED BY <1>4, <1>5, <2>1, LeaveOK, SMTT(20)
<1> QED BY <1>3, <1>6 DEF c, r

\* ram_touch changes the order only.
LEMMA TouchOK ==
  ASSUME NEW b, BookOK(b, {}), NEW q \in Holders(b.ram)
  PROVE  /\ BookOK([place |-> b.place, ram |-> Touch(b.ram, q)], {})
         /\ Touch(b.ram, q).own = b.ram.own
         /\ Touch(b.ram, q).flight = b.ram.flight
<1> DEFINE r == Touch(b.ram, q)
           c == [place |-> b.place, ram |-> r]
           less == RemoveAt(b.ram.lru, IndexOf(b.ram.lru, q))
           H == Holders(b.ram)
<1>0. q \in Rams
  BY DEF Holders
<1>1. less \in Seq(Rams) /\ Lists(less, H \ {q})
  BY ListsRemove DEF BookOK, RamType
<1>2. Append(less, q) \in Seq(Rams) /\ Lists(Append(less, q), H)
  <2> HIDE DEF less, H
  <2>1. Append(less, q) \in Seq(Rams) /\ Lists(Append(less, q), (H \ {q}) \cup {q})
    BY <1>0, <1>1, ListsAppend
  <2>2. (H \ {q}) \cup {q} = H
    BY DEF H
  <2> QED BY <2>1, <2>2
<1>3. r = [b.ram EXCEPT !.lru = Append(less, q)]
  BY DEF Touch
<1> HIDE DEF r, less
<1>4. /\ r \in RamType /\ r.own = b.ram.own /\ r.lru = Append(less, q) /\ r.free = b.ram.free
      /\ r.flight = b.ram.flight /\ r.guess = b.ram.guess
  BY <1>2, <1>3 DEF BookOK, RamType
<1>5. Holders(r) = H
  BY <1>4 DEF Holders
<1>6. c \in [place : [Keys -> Places], ram : RamType] /\ c.place = b.place /\ c.ram = r
  BY <1>4 DEF BookOK
<1> HIDE DEF c
<1>7. BookOK(c, {})
  <2>1. /\ \A p \in Rams : c.ram.own[p] # None => c.place[c.ram.own[p]] = Ram(p)
        /\ \A j \in Keys, p \in Rams : c.place[j] = Ram(p) => c.ram.own[p] = j
    BY <1>4, <1>6 DEF BookOK
  <2>2. /\ Lists(c.ram.lru, Holders(c.ram))
        /\ Lists(c.ram.free, (Rams \ Holders(c.ram)) \ {})
        /\ c.ram.flight \cup c.ram.guess \subseteq Holders(c.ram)
        /\ {} \subseteq Rams \ Holders(c.ram)
    BY <1>2, <1>4, <1>5, <1>6 DEF BookOK
  <2> QED BY <1>6, <2>1, <2>2 DEF BookOK
<1> QED BY <1>4, <1>7 DEF c, r

\* A key that is not pinned moves outside the pinned tier: its books stay.
LEMMA OutsideOK ==
  ASSUME NEW b, BookOK(b, {}), NEW k \in Keys, ~InRam(b.place[k]), NEW p \in Places, ~InRam(p)
  PROVE  BookOK([place |-> [b.place EXCEPT ![k] = p], ram |-> b.ram], {})
<1> DEFINE c == [place |-> [b.place EXCEPT ![k] = p], ram |-> b.ram]
<1>1. /\ c.place = [b.place EXCEPT ![k] = p] /\ c.ram = b.ram
      /\ c \in [place : [Keys -> Places], ram : RamType]
  BY DEF BookOK
<1> HIDE DEF c
<1>2. ASSUME NEW q \in Rams, c.ram.own[q] # None PROVE c.place[c.ram.own[q]] = Ram(q)
  <2>1. b.ram.own[q] \in Keys /\ b.place[b.ram.own[q]] = Ram(q)
    BY <1>1, <1>2 DEF BookOK, RamType
  <2>2. b.ram.own[q] # k
    BY <2>1, PlaceFacts
  <2> QED BY <1>1, <2>1, <2>2 DEF BookOK
<1>3. ASSUME NEW j \in Keys, NEW q \in Rams, c.place[j] = Ram(q) PROVE c.ram.own[q] = j
  BY <1>1, <1>3, PlaceFacts DEF BookOK
<1>4. BookOK(c, {})
  BY <1>1, <1>2, <1>3 DEF BookOK
<1> QED BY <1>4 DEF c

-----------------------------------------------------------------------------
(* The inductive invariant.                                                  *)

\* Experts being written out of a disabled chunk: still placed in its slots.
Gone == IF call.at = "out" THEN call.todo ELSE {}

VramSide ==
  /\ \A s \in Vrams : vram.own[s] # None => place[vram.own[s]] = Vram(s)
  /\ \A k \in Keys, s \in Vrams : place[k] = Vram(s) => vram.own[s] = k \/ k \in Gone
  /\ \A s \in vram.off : vram.own[s] = None

\* What the loops of a call still have to do, and the experts it keeps.
Loops ==
  /\ call.at \in {"admit", "land"} => call.todo \subseteq {k \in call.ids : ~InVram(call.before[k])}
  /\ call.at \in {"admit", "fill"} => \A k \in call.todo : ~InVram(place[k])
  /\ call.at = "fill" => ram.flight = {}
  /\ call.at = "admit" => \A k \in call.ids : InVram(place[k]) => place[k].slot \in vram.pin
  /\ call.at = "out" => \A k \in call.todo : InVram(place[k]) /\ \A s \in Vrams : vram.own[s] # k

Deciding == call.at \notin {"idle", "trim"}

\* The bytes lie where the books put them before the call, until Serve.
Bytes ==
  /\ ~Deciding => /\ \A s \in Vrams : vram.own[s] \in {None, mem.v[s]}
                  /\ \A q \in Rams \ ram.flight : ram.own[q] \in {None, mem.r[q]}
  /\ Deciding => \A k \in Keys :
       /\ \A s \in Vrams : call.before[k] = Vram(s) => mem.v[s] = k
       /\ \A q \in Rams \ ram.flight : call.before[k] = Ram(q) => mem.r[q] = k
       /\ \A q \in ram.flight : call.before[k] = Ram(q) <=> ram.own[q] = k
  /\ \A q \in ram.flight : (\E d \in mem.late : d[1] = q) \/ mem.r[q] = ram.own[q]

Types == policy \in Policies /\ vram \in VramType /\ call \in CallType /\ mem \in MemType

Inv == /\ Types /\ BookOK(Books, {}) /\ VramSide /\ Loops
       /\ MovesServable /\ LateReadsKeepSlot /\ Bytes

\* The parts of sound books, by the variables they are kept in.
LEMMA BooksFacts ==
  ASSUME BookOK(Books, {})
  PROVE  /\ place \in [Keys -> Places] /\ ram \in RamType
         /\ \A q \in Rams : ram.own[q] # None => place[ram.own[q]] = Ram(q)
         /\ \A k \in Keys, q \in Rams : place[k] = Ram(q) => ram.own[q] = k
         /\ Lists(ram.lru, Holders(ram)) /\ Lists(ram.free, Rams \ Holders(ram))
         /\ ram.flight \cup ram.guess \subseteq Holders(ram)
         /\ ram.flight \subseteq Rams
<1>1. Books.place = place /\ Books.ram = ram
  BY DEF Books
<1>2. (Rams \ Holders(ram)) \ {} = Rams \ Holders(ram)
  OBVIOUS
<1>3. place \in [Keys -> Places] /\ ram \in RamType
  BY <1>1 DEF BookOK, Books
<1> QED BY <1>1, <1>2, <1>3 DEF BookOK, RamType

\* The invariant gives every property of the model's runs.
LEMMA InvImplies ==
  ASSUME Inv
  PROVE  TypeOK /\ Consistent /\ MovesServable /\ BytesFollow /\ LateReadsKeepSlot
<1>1. TypeOK
  BY BooksFacts DEF Inv, Types, TypeOK
<1>2. OwnersAgree
  BY BooksFacts DEF Inv, VramSide, OwnersAgree, Gone
<1>3. ListsAgree
  BY BooksFacts DEF Inv, ListsAgree
<1>4. Consistent
  BY <1>2, <1>3 DEF Inv, VramSide, Consistent
<1>5. BytesFollow
  BY DEF Inv, Bytes, Deciding, BytesFollow, Idle
<1> QED BY <1>1, <1>4, <1>5 DEF Inv

\* The empty books, of a boot and of a reset.
LEMMA EmptyOK == BookOK([place |-> NoPlaces, ram |-> EmptyRam], {})
<1> DEFINE pl == NoPlaces
           r  == EmptyRam
           b  == [place |-> pl, ram |-> r]
<1>1. pl \in [Keys -> Places] /\ \A k \in Keys : pl[k] = Nvme
  BY PlaceFacts DEF NoPlaces
<1>2. /\ r.own = [q \in Rams |-> None] /\ r.lru = <<>> /\ r.flight = {} /\ r.guess = {}
      /\ r.free = [i \in 1 .. RSlots |-> RSlots - i] /\ r.freed = {}
      /\ r = [own |-> r.own, lru |-> r.lru, free |-> r.free,
              flight |-> r.flight, guess |-> r.guess, freed |-> r.freed]
  BY DEF EmptyRam
<1> HIDE DEF pl, r
<1>3. Holders(r) = {}
  BY <1>2 DEF Holders
<1>4. r.free \in Seq(Rams) /\ Lists(r.free, Rams)
  <2>1. \A i \in 1 .. RSlots : RSlots - i \in Rams
    BY ArenaAssumption DEF Rams
  <2>2. RSlots \in Nat
    BY ArenaAssumption
  <2>3. r.free \in Seq(Rams)
    BY <1>2, <2>1, <2>2
  <2>4. DOMAIN r.free = 1 .. RSlots /\ \A i \in 1 .. RSlots : r.free[i] = RSlots - i
    BY <1>2
  <2>5. \A x \in Rams : RSlots - x \in 1 .. RSlots /\ RSlots - (RSlots - x) = x
    BY <2>2 DEF Rams
  <2>6. \A x \in Rams : \E i \in DOMAIN r.free : r.free[i] = x
    BY <2>4, <2>5
  <2>7. \A i, j \in 1 .. RSlots : RSlots - i = RSlots - j => i = j
    BY <2>2
  <2> QED BY <2>1, <2>3, <2>4, <2>6, <2>7 DEF Lists
<1>5. r \in RamType
  <2>1. <<>> \in Seq(Rams) OBVIOUS
  <2>2. r.own \in [Rams -> Keys \cup {None}]
    BY <1>2
  <2> QED BY <1>2, <1>4, <2>1, <2>2 DEF RamType
<1>6. b.place = pl /\ b.ram = r /\ b \in [place : [Keys -> Places], ram : RamType]
  BY <1>1, <1>5
<1> HIDE DEF b
<1>7. /\ \A q \in Rams : b.ram.own[q] = None
      /\ \A k \in Keys, q \in Rams : b.place[k] # Ram(q)
  BY <1>1, <1>2, <1>6, PlaceFacts
<1>8. Lists(b.ram.lru, Holders(b.ram)) /\ Lists(b.ram.free, (Rams \ Holders(b.ram)) \ {})
  <2>1. Lists(r.lru, {})
    BY <1>2 DEF Lists
  <2>2. (Rams \ {}) \ {} = Rams
    OBVIOUS
  <2> QED BY <1>3, <1>4, <1>6, <2>1, <2>2
<1>9. b.ram.flight \cup b.ram.guess \subseteq Holders(b.ram)
  BY <1>2, <1>6
<1>10. BookOK(b, {})
  BY <1>6, <1>7, <1>8, <1>9 DEF BookOK
<1> QED BY <1>10 DEF b, pl, r

\* A boot starts with sound books.
LEMMA InitInv ==
  ASSUME Init
  PROVE  Inv
<1>1. place \in [Keys -> Places] /\ \A k \in Keys : place[k] = Nvme
  BY PlaceFacts DEF Init, NoPlaces
<1>2. ram.own = [q \in Rams |-> None] /\ ram.flight = {}
  BY DEF Init, EmptyRam
<1>5. BookOK(Books, {})
  BY EmptyOK DEF Init, Books
<1>6. Types
  <2>1. vram \in VramType
    BY DEF Init, EmptyVram, VramType
  <2>2. call \in CallType
    BY PlaceFacts DEF Init, NoCall, CallType, NoPlaces
  <2>3. mem \in MemType
    BY DEF Init, MemType
  <2> QED BY <2>1, <2>2, <2>3 DEF Types, Init
<1>7. call.at = "idle" /\ vram.own = [s \in Vrams |-> None] /\ vram.off = {} /\ mem.late = {}
  BY DEF Init, NoCall, EmptyVram
<1>8. VramSide /\ Loops /\ MovesServable /\ LateReadsKeepSlot
  BY <1>1, <1>7, PlaceFacts DEF VramSide, Loops, MovesServable, LateReadsKeepSlot
<1>9. Bytes
  BY <1>2, <1>7 DEF Bytes, Deciding
<1> QED BY <1>5, <1>6, <1>8, <1>9 DEF Inv

-----------------------------------------------------------------------------
(* The steps.                                                                *)

\* The next state of the books is the outcome a step picks.
LEMMA BooksPrime ==
  ASSUME NEW o, BookOK(o, {}), place' = o.place, ram' = o.ram
  PROVE  BookOK(Books, {})' /\ Books' = o
<1>1. o = [place |-> o.place, ram |-> o.ram]
  BY DEF BookOK
<1>2. Books' = o
  BY <1>1 DEF Books
<1> QED BY <1>2 DEF BookOK

\* A step inside a call that leaves the bytes, the places before the call and
\* every slot in flight alone.
LEMMA KeepBytes ==
  ASSUME Inv, Deciding, Deciding', mem' = mem, call'.before = call.before,
         ram'.flight = ram.flight, \A q \in ram.flight : ram'.own[q] = ram.own[q]
  PROVE  LateReadsKeepSlot' /\ Bytes'
<1>1. ram.flight \subseteq Rams
  BY BooksFacts DEF Inv
<1>2. LateReadsKeepSlot'
  BY DEF Inv, LateReadsKeepSlot
<1>3. Bytes'
  BY <1>1 DEF Inv, Bytes
<1> QED BY <1>2, <1>3

\* A step that leaves books and bytes alone.
LEMMA KeepBooks ==
  ASSUME Inv, UNCHANGED <<place, ram>>
  PROVE  BookOK(Books, {})' /\ Books' = Books
<1>1. Books' = Books
  BY DEF Books
<1> QED BY <1>1 DEF Inv, BookOK

\* Each action keeps the invariant.  The start of a call harvests reads.
LEMMA BeginCallInv ==
  ASSUME Inv, NEW l \in Nat, NEW ids \in SUBSET Keys, NEW admit \in BOOLEAN, BeginCall(l, ids, admit)
  PROVE  Inv'
<1>1. /\ call.at = "idle" /\ UNCHANGED <<policy, place, vram, mem>>
      /\ call' = [at |-> "trim", layer |-> l, ids |-> ids, admit |-> admit, todo |-> {}, before |-> NoPlaces]
      /\ ram' = [ram EXCEPT !.flight = @ \cap {d[1] : d \in mem.late}]
  BY DEF BeginCall, Idle, Harvested
<1>2. /\ ram'.own = ram.own /\ ram'.lru = ram.lru /\ ram'.free = ram.free /\ ram'.guess = ram.guess
      /\ ram'.flight = ram.flight \cap {d[1] : d \in mem.late} /\ ram' \in RamType
  BY <1>1, BooksFacts DEF Inv, RamType
<1>3. BookOK(Books, {})'
  <2>1. Holders(ram') = Holders(ram)
    BY <1>2 DEF Holders
  <2>2. Books' = [place |-> place, ram |-> ram']
    BY <1>1 DEF Books
  <2>3. BookOK([place |-> place, ram |-> ram'], {})
    BY <1>2, <2>1, BooksFacts DEF Inv, BookOK
  <2> QED BY <2>2, <2>3 DEF BookOK
<1>4. Types'
  BY <1>1, PlaceFacts DEF Inv, Types, CallType, NoPlaces
<1>5. VramSide' /\ Loops' /\ MovesServable'
  BY <1>1 DEF Inv, VramSide, Gone, Loops, MovesServable
<1>6. LateReadsKeepSlot'
  BY <1>1, <1>2 DEF Inv, LateReadsKeepSlot
<1>7. Bytes'
  <2>1. ~Deciding /\ ~Deciding'
    BY <1>1 DEF Deciding
  <2>2. \A q \in Rams \ ram'.flight : ram'.own[q] \in {None, mem'.r[q]}
    <3> TAKE q \in Rams \ ram'.flight
    <3>1. CASE q \notin ram.flight
      BY <1>1, <1>2, <2>1, <3>1 DEF Inv, Bytes
    <3>2. CASE q \in ram.flight
      <4>1. ~ \E d \in mem.late : d[1] = q
        BY <1>2, <3>2
      <4> QED BY <1>1, <1>2, <3>2, <4>1 DEF Inv, Bytes
    <3> QED BY <3>1, <3>2
  <2>3. \A q \in ram'.flight : (\E d \in mem'.late : d[1] = q) \/ mem'.r[q] = ram'.own[q]
    BY <1>1, <1>2 DEF Inv, Bytes
  <2>4. \A s \in Vrams : vram'.own[s] \in {None, mem'.v[s]}
    BY <1>1, <2>1 DEF Inv, Bytes
  <2> QED BY <2>1, <2>2, <2>3, <2>4 DEF Bytes
<1> QED BY <1>3, <1>4, <1>5, <1>6, <1>7 DEF Inv

\* A guessed read the call does not want is taken back.
LEMMA DropGuessInv ==
  ASSUME Inv, NEW k \in Keys, DropGuess(k)
  PROVE  Inv'
<1> DEFINE q == place[k].slot
<1>1. /\ call.at = "trim" /\ UNCHANGED <<policy, vram, call>>
      /\ InRam(place[k]) /\ q \in ram.flight
      /\ mem' = [mem EXCEPT !.late = @ \ {<<q, k>>}]
      /\ place' = [place EXCEPT ![k] = Nvme]
      /\ ram' = [ram EXCEPT !.lru = RemoveAt(@, IndexOf(@, q)), !.own[q] = None, !.free = Append(@, q),
                            !.flight = @ \ {q}, !.guess = @ \ {q}]
  BY DEF DropGuess, Unlink
<1>2. q \in Rams /\ place[k] = Ram(q) /\ ram.own[q] = k
  BY <1>1, PlaceFacts, BooksFacts DEF Inv
<1> HIDE DEF q
<1>3. /\ ram'.own = [ram.own EXCEPT ![q] = None]
      /\ ram'.lru = RemoveAt(ram.lru, IndexOf(ram.lru, q)) /\ ram'.free = Append(ram.free, q)
      /\ ram'.flight = ram.flight \ {q} /\ ram'.guess = ram.guess \ {q} /\ ram' \in RamType
  <2>1. /\ RemoveAt(ram.lru, IndexOf(ram.lru, q)) \in Seq(Rams) /\ Append(ram.free, q) \in Seq(Rams)
    <3>1. q \in Holders(ram) /\ ram.lru \in Seq(Rams) /\ ram.free \in Seq(Rams)
      BY <1>2, BooksFacts, PlaceFacts DEF Inv, Holders, RamType
    <3> QED BY <1>2, <3>1, ListsRemove, AppendProperties, BooksFacts DEF Inv
  <2> QED BY <1>1, <1>2, <2>1, BooksFacts, PlaceFacts DEF Inv, RamType
<1>4. BookOK(Books, {})'
  <2> DEFINE c == [place |-> place', ram |-> ram']
  <2>1. c.place = place' /\ c.ram = ram' /\ c \in [place : [Keys -> Places], ram : RamType]
    BY <1>1, <1>3, PlaceFacts, BooksFacts DEF Inv
  <2>2. Books.place = place /\ Books.ram = ram /\ Books' = c
    BY DEF Books
  <2> HIDE DEF c
  <2>3. /\ c.place = [Books.place EXCEPT ![k] = Nvme]
        /\ c.ram.own = [Books.ram.own EXCEPT ![q] = None]
        /\ c.ram.lru = RemoveAt(Books.ram.lru, IndexOf(Books.ram.lru, q))
        /\ c.ram.free = Append(Books.ram.free, q)
        /\ c.ram.flight \subseteq Books.ram.flight /\ q \notin c.ram.flight
        /\ c.ram.guess = Books.ram.guess \ {q}
    BY <1>1, <1>3, <2>1, <2>2
  <2>4. BookOK(Books, {}) /\ Books.place[k] = Ram(q) /\ Nvme \in Places /\ ~InRam(Nvme)
    BY <1>2, <2>2, PlaceFacts DEF Inv
  <2>5. BookOK(c, {})
    BY <1>2, <2>1, <2>3, <2>4, LeaveOK, SMTT(60)
  <2> QED BY <2>2, <2>5 DEF BookOK
<1>5. Types'
  BY <1>1 DEF Inv, Types, MemType
<1>6. VramSide'
  <2>1. \A s \in Vrams : place[k] # Vram(s)
    BY <1>2, PlaceFacts
  <2>2. \A j \in Keys, s \in Vrams : place'[j] = Vram(s) <=> place[j] = Vram(s)
    BY <1>1, <2>1, BooksFacts, PlaceFacts DEF Inv
  <2>3. \A s \in Vrams : vram.own[s] # None => vram.own[s] \in Keys
    BY DEF Inv, Types, VramType
  <2> QED BY <1>1, <2>2, <2>3 DEF Inv, VramSide, Gone
<1>7. Loops' /\ MovesServable'
  BY <1>1 DEF Loops, MovesServable
<1>8. LateReadsKeepSlot'
  <2>1. mem'.late = mem.late \ {<<q, k>>}
    BY <1>1 DEF Inv, Types, MemType
  <2>2. ASSUME NEW d \in mem'.late PROVE ram'.own[d[1]] = d[2] /\ d[1] \in ram'.flight
    <3>1. d \in Rams \X Keys /\ d # <<q, k>> /\ ram.own[d[1]] = d[2] /\ d[1] \in ram.flight
      BY <2>1 DEF Inv, Types, MemType, LateReadsKeepSlot
    <3>2. d[1] # q
      BY <1>2, <3>1
    <3> QED BY <1>3, <3>1, <3>2, BooksFacts DEF Inv, RamType
  <2> QED BY <2>2 DEF LateReadsKeepSlot
<1>9. Bytes'
  <2>1. ~Deciding /\ ~Deciding'
    BY <1>1 DEF Deciding
  <2>2. mem'.late = mem.late \ {<<q, k>>} /\ mem'.r = mem.r /\ mem'.v = mem.v
    BY <1>1 DEF Inv, Types, MemType
  <2>3. \A p \in Rams : p # q => ram'.own[p] = ram.own[p]
    BY <1>3, BooksFacts DEF Inv, RamType
  <2>4. \A p \in Rams \ ram'.flight : ram'.own[p] \in {None, mem'.r[p]}
    <3> TAKE p \in Rams \ ram'.flight
    <3>1. CASE p = q
      BY <1>2, <1>3, <3>1, BooksFacts DEF Inv, RamType
    <3>2. CASE p # q
      BY <1>3, <2>1, <2>2, <2>3, <3>2 DEF Inv, Bytes
    <3> QED BY <3>1, <3>2
  <2>5. ASSUME NEW p \in ram'.flight PROVE (\E d \in mem'.late : d[1] = p) \/ mem'.r[p] = ram'.own[p]
    <3>1. p \in ram.flight /\ p # q /\ p \in Rams
      BY <1>3, BooksFacts DEF Inv
    <3>2. CASE \E d \in mem.late : d[1] = p
      <4>1. PICK d \in mem.late : d[1] = p
        BY <3>2
      <4>2. d \in mem'.late
        BY <2>2, <3>1, <4>1
      <4> QED BY <4>1, <4>2
    <3>3. CASE mem.r[p] = ram.own[p]
      BY <2>2, <2>3, <3>1, <3>3
    <3> QED BY <3>1, <3>2, <3>3 DEF Inv, Bytes
  <2>6. \A s \in Vrams : vram'.own[s] \in {None, mem'.v[s]}
    BY <1>1, <2>1, <2>2 DEF Inv, Bytes
  <2> QED BY <2>1, <2>4, <2>5, <2>6 DEF Bytes
<1> QED BY <1>4, <1>5, <1>6, <1>7, <1>8, <1>9 DEF Inv

\* The hits are pinned for the call.
LEMMA RouteInv ==
  ASSUME Inv, Route
  PROVE  Inv'
<1> DEFINE hits == {place[k].slot : k \in {x \in call.ids : InVram(place[x])}}
           held == {place[k].slot : k \in {x \in call.ids : InRam(place[x])}}
           at   == IF call.admit /\ VSlots > 0 THEN "admit" ELSE "land"
           todo == {k \in call.ids : ~InVram(place[k])}
<1>1. /\ call.at = "trim" /\ UNCHANGED <<policy, place, mem>>
      /\ vram' = [vram EXCEPT !.ref = @ \cup hits, !.pin = hits]
      /\ ram' = [ram EXCEPT !.guess = @ \ held, !.freed = {}]
      /\ call' = [call EXCEPT !.at = at, !.todo = todo, !.before = place]
  BY DEF Route
<1>2. hits \subseteq Vrams /\ \A k \in call.ids : InVram(place[k]) => place[k].slot \in hits
  <2>1. \A k \in call.ids : InVram(place[k]) => place[k].slot \in Vrams
    BY BooksFacts, PlaceFacts DEF Inv, Types, CallType
  <2> QED BY <2>1
<1>3. todo \subseteq Keys /\ todo = {k \in call.ids : ~InVram(place[k])}
  BY DEF Inv, Types, CallType
<1>4. at \in {"admit", "land"}
  OBVIOUS
<1> HIDE DEF hits, held, at, todo
<1>5. /\ vram'.own = vram.own /\ vram'.off = vram.off /\ vram'.pin = hits /\ vram' \in VramType
      /\ call'.at = at /\ call'.todo = todo /\ call'.ids = call.ids /\ call'.before = place
      /\ call' \in CallType
  BY <1>1, <1>2, <1>3, <1>4, BooksFacts DEF Inv, Types, VramType, CallType
<1>6. /\ ram'.own = ram.own /\ ram'.lru = ram.lru /\ ram'.free = ram.free
      /\ ram'.guess = ram.guess \ held /\ ram'.flight = ram.flight /\ ram' \in RamType
  BY <1>1, BooksFacts DEF Inv, RamType
<1>7. BookOK(Books, {})'
  <2>1. Holders(ram') = Holders(ram)
    BY <1>6 DEF Holders
  <2>2. Books' = [place |-> place, ram |-> ram']
    BY <1>1 DEF Books
  <2>3. BookOK([place |-> place, ram |-> ram'], {})
    BY <1>6, <2>1, BooksFacts DEF Inv, BookOK
  <2> QED BY <2>2, <2>3 DEF BookOK
<1>8. Types'
  BY <1>1, <1>5 DEF Inv, Types
<1>9. VramSide'
  BY <1>1, <1>4, <1>5 DEF Inv, VramSide, Gone
<1>10. Loops'
  BY <1>1, <1>2, <1>3, <1>4, <1>5 DEF Loops
<1>11. MovesServable'
  <2>1. ServableMoves(call'.before, place', call'.ids)
    BY <1>1, <1>5 DEF ServableMoves, MayMove
  <2> QED BY <1>4, <1>5, <2>1 DEF MovesServable
<1>12. LateReadsKeepSlot'
  BY <1>1, <1>6 DEF Inv, LateReadsKeepSlot
<1>13. Bytes'
  <2>1. ~Deciding /\ Deciding'
    BY <1>1, <1>4, <1>5 DEF Deciding
  <2>2. ASSUME NEW k \in Keys
        PROVE  /\ \A s \in Vrams : call'.before[k] = Vram(s) => mem'.v[s] = k
               /\ \A q \in Rams \ ram'.flight : call'.before[k] = Ram(q) => mem'.r[q] = k
               /\ \A q \in ram'.flight : call'.before[k] = Ram(q) <=> ram'.own[q] = k
    <3>1. ASSUME NEW s \in Vrams, place[k] = Vram(s) PROVE mem.v[s] = k
      <4>1. vram.own[s] = k
        BY <1>1, <3>1 DEF Inv, VramSide, Gone
      <4> QED BY <2>1, <4>1, PlaceFacts DEF Inv, Bytes
    <3>2. ASSUME NEW q \in Rams \ ram.flight, place[k] = Ram(q) PROVE mem.r[q] = k
      <4>1. ram.own[q] = k
        BY <3>2, BooksFacts DEF Inv
      <4> QED BY <2>1, <4>1, PlaceFacts DEF Inv, Bytes
    <3>3. \A q \in ram.flight : place[k] = Ram(q) <=> ram.own[q] = k
      BY BooksFacts, PlaceFacts DEF Inv
    <3> QED BY <1>1, <1>5, <1>6, <3>1, <3>2, <3>3
  <2>3. \A q \in ram'.flight : (\E d \in mem'.late : d[1] = q) \/ mem'.r[q] = ram'.own[q]
    BY <1>1, <1>6 DEF Inv, Bytes
  <2> QED BY <2>1, <2>2, <2>3 DEF Bytes
<1> QED BY <1>7, <1>8, <1>9, <1>10, <1>11, <1>12, <1>13 DEF Inv

\* CLOCK finds a slot that is neither pinned nor disabled.
LEMMA ClockStopOK ==
  ASSUME Types, Unpinned # {}
  PROVE  ClockStop \in Unpinned /\ Passed(ClockStop) \in SUBSET Vrams /\ Beyond(ClockStop) \in Nat
<1> DEFINE clear == {s \in Unpinned : s \notin vram.ref}
           from  == IF clear # {} THEN clear ELSE Unpinned
           steps == {Ahead(s) : s \in from}
<1>0. ClockStop = CHOOSE s \in from : \A t \in from : Ahead(s) <= Ahead(t)
  BY DEF ClockStop
<1>1. from # {} /\ from \subseteq Unpinned /\ Unpinned \subseteq Vrams
  BY DEF Unpinned
<1> HIDE DEF from
<1>2. \A s \in from : Ahead(s) \in Int /\ Ahead(s) + vram.hand \in Nat
  BY <1>1, ArenaAssumption DEF Ahead, Types, VramType, Vrams
<1> DEFINE lifted == {Ahead(s) + vram.hand : s \in from}
<1>3. lifted \in SUBSET Nat /\ lifted # {}
  BY <1>1, <1>2
<1>4. PICK m \in lifted : \A n \in lifted : m <= n
  <2> HIDE DEF lifted
  <2> QED BY <1>3, MinNat
<1>5. PICK s \in from : m = Ahead(s) + vram.hand
  BY <1>4
<1>6. \A t \in from : Ahead(s) <= Ahead(t)
  <2> TAKE t \in from
  <2>1. Ahead(s) + vram.hand <= Ahead(t) + vram.hand
    BY <1>4, <1>5
  <2>2. vram.hand \in Nat /\ Ahead(s) \in Int /\ Ahead(t) \in Int
    BY <1>2 DEF Types, VramType
  <2> QED BY <2>1, <2>2
<1>7. ClockStop \in Unpinned
  BY <1>0, <1>1, <1>6
<1>8. Passed(ClockStop) \in SUBSET Vrams
  BY DEF Passed, Types, VramType
<1>9. Beyond(ClockStop) \in Nat
  BY <1>1, <1>7, ArenaAssumption DEF Beyond, Vrams
<1> QED BY <1>7, <1>8, <1>9

\* The slots the frequency policy offers are unpinned.
LEMMA FreqSlotsOK ==
  ASSUME Types
  PROVE  FreqSlots \subseteq Unpinned
<1>1. Unpinned \subseteq Vrams /\ Vrams \subseteq Nat
  BY DEF Unpinned, Vrams
<1>2. CASE {s \in Unpinned : vram.own[s] = None} # {}
  <2>1. Least({s \in Unpinned : vram.own[s] = None}) \in {s \in Unpinned : vram.own[s] = None}
    BY <1>1, <1>2, LeastIn
  <2> QED BY <1>2, <2>1 DEF FreqSlots
<1>3. CASE {s \in Unpinned : vram.own[s] = None} = {}
  BY <1>3 DEF FreqSlots
<1> QED BY <1>2, <1>3

\* An expert admitted: its slot, the slot's victim, and what demoting it moves.
LEMMA AdmittedInv ==
  ASSUME Inv, call.at = "admit", NEW k \in call.todo, ~StaysOut(k),
         NEW s \in Unpinned, NEW refs \in SUBSET Vrams, NEW hand \in Nat,
         Admitted(k, s, refs, hand),
         call' = [call EXCEPT !.todo = @ \ {k}], UNCHANGED <<policy, mem>>
  PROVE  Inv'
<1> DEFINE v   == vram.own[s]
           b   == [place |-> [place EXCEPT ![k] = Vram(s)],
                   ram   |-> IF InRam(place[k]) THEN Release(ram, place[k].slot) ELSE ram]
           out == [b EXCEPT !.place[v] = Nvme]
<1>1. /\ vram' = [vram EXCEPT !.own[s] = k, !.ref = refs \cup {s}, !.pin = @ \cup {s}, !.hand = hand]
      /\ \E o \in IF v = None THEN {b} ELSE Demote(out, v, call.ids) : place' = o.place /\ ram' = o.ram
  BY DEF Admitted
<1>2. /\ s \in Vrams /\ s \notin vram.pin /\ s \notin vram.off /\ v \in Keys \cup {None}
      /\ k \in Keys /\ k \in call.ids /\ ~InVram(place[k]) /\ ~InVram(call.before[k])
      /\ Vram(s) \in Places /\ ~InRam(Vram(s)) /\ InVram(Vram(s))
  BY PlaceFacts DEF Unpinned, Inv, Types, CallType, VramType, Loops
<1>3. /\ BookOK(b, {}) /\ b.place = [place EXCEPT ![k] = Vram(s)]
      /\ b.ram.flight = ram.flight /\ \A q \in ram.flight : b.ram.own[q] = ram.own[q]
  <2>1. Books.place = place /\ Books.ram = ram /\ BookOK(Books, {})
    BY DEF Books, Inv
  <2>2. CASE InRam(place[k])
    <3> DEFINE q == place[k].slot
    <3>1. q \in Rams /\ place[k] = Ram(q) /\ q \notin ram.flight
      BY <1>2, <2>2, BooksFacts, PlaceFacts DEF Inv, StaysOut
    <3> HIDE DEF q
    <3>2. b = [place |-> [place EXCEPT ![k] = Vram(s)], ram |-> Release(ram, q)]
      BY <2>2 DEF q
    <3>3. /\ BookOK([place |-> [place EXCEPT ![k] = Vram(s)], ram |-> Release(ram, q)], {})
          /\ Release(ram, q).own = [ram.own EXCEPT ![q] = None]
          /\ Release(ram, q).flight = ram.flight
      BY <1>2, <2>1, <3>1, ReleaseOK
    <3> HIDE DEF b
    <3>4. BookOK(b, {}) /\ b.place = [place EXCEPT ![k] = Vram(s)] /\ b.ram = Release(ram, q)
      BY <3>2, <3>3
    <3>5. \A p \in ram.flight : b.ram.own[p] = ram.own[p]
      BY <3>1, <3>3, <3>4, BooksFacts DEF Inv, RamType
    <3> QED BY <3>3, <3>4, <3>5
  <2>3. CASE ~InRam(place[k])
    <3>1. b = [place |-> [place EXCEPT ![k] = Vram(s)], ram |-> ram]
      BY <2>3
    <3>2. BookOK([place |-> [place EXCEPT ![k] = Vram(s)], ram |-> ram], {})
      BY <1>2, <2>1, <2>3, OutsideOK
    <3> HIDE DEF b
    <3> QED BY <3>1, <3>2
  <2> QED BY <2>2, <2>3
<1> HIDE DEF b
<1>4. ASSUME v # None
      PROVE  /\ v \in Keys /\ v # k /\ place[v] = Vram(s) /\ v \notin call.ids
             /\ BookOK(out, {}) /\ out.place = [b.place EXCEPT ![v] = Nvme] /\ out.ram = b.ram
  <2>1. v \in Keys /\ place[v] = Vram(s)
    BY <1>2, <1>4 DEF Inv, VramSide
  <2>2. v # k /\ v \notin call.ids
    BY <1>2, <2>1, PlaceFacts DEF Inv, Loops
  <2>3. out = [place |-> [b.place EXCEPT ![v] = Nvme], ram |-> b.ram]
    BY <1>3 DEF BookOK
  <2>4. b.place[v] = Vram(s)
    BY <1>2, <1>3, <2>1, <2>2, BooksFacts DEF Inv
  <2> HIDE DEF out
  <2>5. BookOK([place |-> [b.place EXCEPT ![v] = Nvme], ram |-> b.ram], {})
    <3>1. BookOK(b, {}) /\ v \in Keys /\ ~InRam(b.place[v]) /\ Nvme \in Places /\ ~InRam(Nvme)
      BY <1>2, <1>3, <2>1, <2>4, PlaceFacts
    <3> HIDE DEF v
    <3> QED BY <3>1, OutsideOK
  <2> QED BY <2>1, <2>2, <2>3, <2>5
<1> HIDE DEF out
<1>5. PICK o : /\ place' = o.place /\ ram' = o.ram
               /\ IF v = None THEN o = b ELSE o \in Demote(out, v, call.ids)
  BY <1>1
<1>6. /\ BookOK(o, {}) /\ o.ram.flight = ram.flight
      /\ \A q \in ram.flight : o.ram.own[q] = ram.own[q]
      /\ o.place[k] = Vram(s)
      /\ v # None => o.place[v] = Nvme \/ InRam(o.place[v])
      /\ \A j \in Keys \ {k, v} : \/ o.place[j] = place[j]
                                  \/ InRam(place[j]) /\ j \notin call.ids /\ o.place[j] = Nvme
  <2>0. place \in [Keys -> Places]
    BY BooksFacts DEF Inv
  <2>1. CASE v = None
    BY <1>2, <1>3, <1>5, <2>0, <2>1
  <2>2. CASE v # None
    <3>1. out.place[v] = Nvme
      BY <1>3, <1>4, <2>0, <2>2
    <3>2. BookOK(o, {}) /\ Settles(out, o, v, call.ids)
      BY <1>4, <1>5, <2>2, <3>1, DemoteOK
    <3>3. \A j \in Keys \ {k, v} : out.place[j] = place[j]
      BY <1>3, <1>4, <2>0, <2>2
    <3>4. out.place[k] = Vram(s)
      BY <1>2, <1>3, <1>4, <2>0, <2>2
    <3>5. out.ram.flight = ram.flight /\ \A q \in ram.flight : out.ram.own[q] = ram.own[q]
      BY <1>3, <1>4, <2>2
    <3>6. o.place[k] = Vram(s)
      BY <1>2, <1>4, <2>2, <3>2, <3>4 DEF Settles
    <3> QED BY <3>2, <3>3, <3>5, <3>6 DEF Settles
  <2> QED BY <2>1, <2>2
<1>7. /\ vram'.own = [vram.own EXCEPT ![s] = k] /\ vram'.pin = vram.pin \cup {s}
      /\ vram'.off = vram.off /\ vram' \in VramType
  BY <1>1, <1>2 DEF Inv, Types, VramType
<1>8. /\ call'.at = "admit" /\ call'.todo = call.todo \ {k} /\ call'.ids = call.ids
      /\ call'.before = call.before /\ call' \in CallType
  BY DEF Inv, Types, CallType
<1>9. BookOK(Books, {})'
  BY <1>5, <1>6, BooksPrime
<1>10. Types'
  BY <1>7, <1>8 DEF Inv, Types
<1>11. \A j \in Keys, t \in Vrams : place'[j] = Vram(t) => (j = k /\ t = s) \/ (j # k /\ j # v /\ place[j] = Vram(t))
  BY <1>2, <1>4, <1>5, <1>6, PlaceFacts
<1>12. VramSide'
  <2>1. ASSUME NEW t \in Vrams, vram'.own[t] # None PROVE place'[vram'.own[t]] = Vram(t)
    <3>1. CASE t = s
      BY <1>2, <1>5, <1>6, <1>7, <3>1 DEF Inv, Types, VramType
    <3>2. CASE t # s
      <4> DEFINE j == vram.own[t]
      <4>1. vram'.own[t] = j /\ j \in Keys /\ place[j] = Vram(t)
        BY <1>7, <2>1, <3>2 DEF Inv, Types, VramType, VramSide
      <4>2. j # k /\ j # v
        BY <1>2, <1>4, <3>2, <4>1, PlaceFacts
      <4>3. place'[j] = place[j]
        BY <1>5, <1>6, <4>1, <4>2, PlaceFacts
      <4> QED BY <4>1, <4>3
    <3> QED BY <3>1, <3>2
  <2>2. ASSUME NEW j \in Keys, NEW t \in Vrams, place'[j] = Vram(t) PROVE vram'.own[t] = j
    <3>1. CASE j = k /\ t = s
      BY <1>7, <3>1 DEF Inv, Types, VramType
    <3>2. CASE j # k /\ j # v /\ place[j] = Vram(t)
      <4>1. vram.own[t] = j
        BY <3>2 DEF Inv, VramSide, Gone
      <4> QED BY <1>7, <3>2, <4>1 DEF Inv, Types, VramType
    <3> QED BY <1>11, <2>2, <3>1, <3>2
  <2>3. \A t \in vram'.off : vram'.own[t] = None
    BY <1>2, <1>7 DEF Inv, Types, VramType, VramSide
  <2> QED BY <2>1, <2>2, <2>3 DEF VramSide
<1>13. Loops'
  <2>1. ASSUME NEW j \in call.todo \ {k} PROVE ~InVram(place'[j])
    <3>1. j \in Keys /\ ~InVram(place[j])
      BY DEF Inv, Types, CallType, Loops
    <3> QED BY <1>2, <1>4, <1>5, <1>6, <3>1, PlaceFacts
  <2>2. ASSUME NEW j \in call.ids, InVram(place'[j]) PROVE place'[j].slot \in vram.pin \cup {s}
    <3>1. CASE j = k
      BY <1>2, <1>5, <1>6, <3>1, PlaceFacts
    <3>2. CASE j # k
      <4>1. j \in Keys /\ j # v
        BY <1>4, PlaceFacts DEF Inv, Types, CallType
      <4>2. place'[j] = place[j]
        BY <1>5, <1>6, <3>2, <4>1
      <4> QED BY <2>2, <4>2 DEF Inv, Loops
    <3> QED BY <3>1, <3>2
  <2> QED BY <1>7, <1>8, <2>1, <2>2 DEF Inv, Loops
<1>14. MovesServable'
  <2>1. ASSUME NEW j \in Keys PROVE MayMove(j \in call.ids, call.before[j], place'[j])
    <3>0. MayMove(j \in call.ids, call.before[j], place[j])
      BY DEF Inv, MovesServable, ServableMoves
    <3>1. CASE j = k
      BY <1>2, <1>5, <1>6, <3>1 DEF MayMove
    <3>2. CASE j = v
      <4>1. v # None
        BY <3>2, PlaceFacts
      <4>2. v \notin call.ids /\ InVram(place[v]) /\ ~InVram(place'[v])
        BY <1>2, <1>4, <1>5, <1>6, <4>1 DEF InVram, InRam, Nvme
      <4>3. call.before[v] = place[v]
        BY <3>0, <3>2, <4>2, PlaceFacts DEF MayMove
      <4> QED BY <3>2, <4>2, <4>3 DEF MayMove
    <3>3. CASE j # k /\ j # v
      BY <1>5, <1>6, <3>0, <3>3, PlaceFacts DEF MayMove
    <3> QED BY <3>1, <3>2, <3>3
  <2> QED BY <1>8, <2>1 DEF MovesServable, ServableMoves
<1>15. LateReadsKeepSlot' /\ Bytes'
  BY <1>5, <1>6, <1>8, KeepBytes DEF Deciding
<1> QED BY <1>9, <1>10, <1>12, <1>13, <1>14, <1>15 DEF Inv

\* One turn of the admission loop.
LEMMA AdmitNextInv ==
  ASSUME Inv, AdmitNext
  PROVE  Inv'
<1> DEFINE k == Least(call.todo)
           next == [call EXCEPT !.todo = @ \ {k}]
<1>1. call.at = "admit" /\ call.todo # {} /\ UNCHANGED <<policy, mem>>
  BY DEF AdmitNext
<1>2. k \in call.todo /\ call.todo \subseteq Keys
  BY <1>1, PlaceFacts, LeastIn DEF Inv, Types, CallType
<1>3. ASSUME UNCHANGED <<place, vram, ram>>, NEW T \in SUBSET call.todo, call' = [call EXCEPT !.todo = T]
      PROVE  Inv'
  <2>1. /\ call'.at = "admit" /\ call'.todo = T /\ call'.ids = call.ids
        /\ call'.before = call.before /\ call' \in CallType
    BY <1>1, <1>2, <1>3 DEF Inv, Types, CallType
  <2>2. BookOK(Books, {})'
    BY <1>3, KeepBooks
  <2>3. Types' /\ VramSide' /\ Loops' /\ MovesServable'
    BY <1>1, <1>3, <2>1 DEF Inv, Types, VramSide, Gone, Loops, MovesServable
  <2>4. LateReadsKeepSlot' /\ Bytes'
    BY <1>1, <1>3, <2>1, KeepBytes DEF Deciding
  <2> QED BY <2>2, <2>3, <2>4 DEF Inv
<1>4. CASE call' = next /\ UNCHANGED <<place, vram, ram>>
  <2>1. call.todo \ {k} \in SUBSET call.todo /\ call' = [call EXCEPT !.todo = call.todo \ {k}]
    BY <1>4 DEF Inv, Types, CallType
  <2> HIDE DEF k, next
  <2> QED BY <1>3, <1>4, <2>1
<1>5. CASE call' = [call EXCEPT !.todo = {}] /\ UNCHANGED <<place, vram, ram>>
  BY <1>3, <1>5
<1>6. CASE /\ ~StaysOut(k) /\ Unpinned # {}
           /\ Admitted(k, ClockStop, Passed(ClockStop), Beyond(ClockStop)) /\ call' = next
  <2> HIDE DEF k
  <2>1. /\ ClockStop \in Unpinned /\ Passed(ClockStop) \in SUBSET Vrams /\ Beyond(ClockStop) \in Nat
    BY <1>6, ClockStopOK DEF Inv
  <2> QED BY <1>1, <1>2, <1>6, <2>1, AdmittedInv
<1>7. CASE ~StaysOut(k) /\ (\E s \in FreqSlots : Admitted(k, s, vram.ref, vram.hand)) /\ call' = next
  <2> HIDE DEF k
  <2>1. PICK s \in FreqSlots : Admitted(k, s, vram.ref, vram.hand)
    BY <1>7
  <2>2. s \in Unpinned /\ vram.ref \in SUBSET Vrams /\ vram.hand \in Nat
    BY FreqSlotsOK DEF Inv, Types, VramType
  <2> QED BY <1>1, <1>2, <1>7, <2>1, <2>2, AdmittedInv
<1> QED
  BY <1>4, <1>5, <1>6, <1>7 DEF AdmitNext

\* The end of the admission loop.
LEMMA AdmitDoneInv ==
  ASSUME Inv, AdmitDone
  PROVE  Inv'
<1>1. /\ call.at = "admit" /\ UNCHANGED <<policy, place, vram, ram, mem>>
      /\ call' = [call EXCEPT !.at = "land", !.todo = Misses]
  BY DEF AdmitDone
<1>2. Misses \subseteq call.ids /\ \A k \in Misses : ~InVram(call.before[k])
  BY DEF Misses
<1>3. /\ call'.at = "land" /\ call'.todo = Misses /\ call'.ids = call.ids
      /\ call'.before = call.before /\ call' \in CallType
  BY <1>1, <1>2 DEF Inv, Types, CallType
<1>4. BookOK(Books, {})'
  BY <1>1, KeepBooks
<1>5. Types' /\ VramSide' /\ Loops' /\ MovesServable'
  BY <1>1, <1>2, <1>3 DEF Inv, Types, VramSide, Gone, Loops, MovesServable
<1>6. LateReadsKeepSlot' /\ Bytes'
  BY <1>1, <1>3, KeepBytes DEF Deciding
<1> QED BY <1>4, <1>5, <1>6 DEF Inv

\* A key from the NVMe into the pinned tier inside a call, or left out of it.
LEMMA LandedPlaces ==
  ASSUME Inv, NEW k \in Keys, NEW b, BookOK(b, {}), b.place[k] = Nvme,
         \A j \in Keys \ {k} : b.place[j] = place[j],
         NEW routed, NEW o \in Demote(b, k, routed), place' = o.place
  PROVE  /\ place'[k] = Nvme \/ InRam(place'[k])
         /\ ~InVram(place'[k])
         /\ \A j \in Keys \ {k} : \/ place'[j] = place[j]
                                  \/ InRam(place[j]) /\ j \notin routed /\ place'[j] = Nvme
         /\ \A j \in Keys \ {k}, s \in Vrams : place'[j] = Vram(s) <=> place[j] = Vram(s)
<1>1. Settles(b, o, k, routed)
  BY DemoteOK
<1>2. place'[k] = Nvme \/ InRam(place'[k])
  BY <1>1 DEF Settles
<1>3. ~InVram(place'[k])
  BY <1>2 DEF InVram, InRam, Nvme
<1>4. \A j \in Keys \ {k} : \/ place'[j] = place[j]
                            \/ InRam(place[j]) /\ j \notin routed /\ place'[j] = Nvme
  BY <1>1 DEF Settles
<1>5. \A j \in Keys \ {k}, s \in Vrams : place'[j] = Vram(s) <=> place[j] = Vram(s)
  BY <1>4, PlaceFacts
<1> QED BY <1>2, <1>3, <1>4, <1>5

\* One turn of the landing loop.
LEMMA LandNextInv ==
  ASSUME Inv, LandNext
  PROVE  Inv'
<1> DEFINE k == Least(call.todo)
<1>1. /\ call.at = "land" /\ call.todo # {} /\ UNCHANGED <<policy, vram, mem>>
      /\ call' = [call EXCEPT !.todo = @ \ {k}]
  BY DEF LandNext
<1>2. k \in call.todo /\ k \in Keys /\ k \in call.ids /\ ~InVram(call.before[k])
  BY <1>1, PlaceFacts, LeastIn DEF Inv, Types, CallType, Loops
<1>3. \/ UNCHANGED <<place, ram>>
      \/ InRam(place[k]) /\ ram' = Touch(ram, place[k].slot) /\ UNCHANGED place
      \/ /\ place[k] = Nvme
         /\ \E o \in Demote(Books, k, call.ids) : place' = o.place /\ ram' = o.ram
  BY DEF LandNext, Demote
<1> HIDE DEF k
<1>4. /\ call'.at = "land" /\ call'.todo = call.todo \ {k} /\ call'.ids = call.ids
      /\ call'.before = call.before /\ call' \in CallType
  BY <1>1 DEF Inv, Types, CallType
<1>5. Types' /\ Loops'
  BY <1>1, <1>4 DEF Inv, Types, Loops
<1>6. Deciding /\ Deciding'
  BY <1>1, <1>4 DEF Deciding
<1>7. CASE UNCHANGED <<place, ram>>
  <2>1. BookOK(Books, {})'
    BY <1>7, KeepBooks
  <2>2. VramSide' /\ MovesServable'
    BY <1>1, <1>4, <1>7 DEF Inv, VramSide, Gone, MovesServable
  <2>3. LateReadsKeepSlot' /\ Bytes'
    BY <1>1, <1>4, <1>6, <1>7, KeepBytes
  <2> QED BY <1>5, <2>1, <2>2, <2>3 DEF Inv
<1>8. CASE InRam(place[k]) /\ ram' = Touch(ram, place[k].slot) /\ UNCHANGED place
  <2> DEFINE q == place[k].slot
             o == [place |-> place, ram |-> Touch(ram, q)]
  <2>1. q \in Holders(ram)
    BY <1>2, <1>8, BooksFacts, PlaceFacts DEF Inv, Holders
  <2>2. BookOK(Books, {}) /\ Books.place = place /\ Books.ram = ram
    BY DEF Inv, Books
  <2> HIDE DEF q
  <2>3. BookOK(o, {}) /\ Touch(ram, q).own = ram.own /\ Touch(ram, q).flight = ram.flight
    BY <2>1, <2>2, TouchOK
  <2>4. place' = o.place /\ ram' = o.ram
    BY <1>8 DEF q
  <2> HIDE DEF o
  <2>5. BookOK(Books, {})'
    BY <2>3, <2>4, BooksPrime
  <2>6. VramSide' /\ MovesServable'
    BY <1>1, <1>4, <1>8 DEF Inv, VramSide, Gone, MovesServable
  <2>7. ram'.flight = ram.flight /\ ram'.own = ram.own
    BY <2>3, <2>4 DEF o
  <2>8. LateReadsKeepSlot' /\ Bytes'
    BY <1>1, <1>4, <1>6, <2>7, KeepBytes
  <2> QED BY <1>5, <2>5, <2>6, <2>8 DEF Inv
<1>9. ASSUME place[k] = Nvme, NEW o \in Demote(Books, k, call.ids), place' = o.place, ram' = o.ram
      PROVE  Inv'
  <2>1. BookOK(Books, {}) /\ Books.place = place /\ Books.ram = ram
    BY DEF Inv, Books
  <2>2. BookOK(o, {}) /\ Settles(Books, o, k, call.ids)
    BY <1>2, <1>9, <2>1, DemoteOK
  <2>3. BookOK(Books, {})'
    BY <1>9, <2>2, BooksPrime
  <2>4. /\ place'[k] = Nvme \/ InRam(place'[k])
        /\ ~InVram(place'[k])
        /\ \A j \in Keys \ {k} : \/ place'[j] = place[j]
                                 \/ InRam(place[j]) /\ j \notin call.ids /\ place'[j] = Nvme
        /\ \A j \in Keys \ {k}, s \in Vrams : place'[j] = Vram(s) <=> place[j] = Vram(s)
    BY <1>2, <1>9, <2>1, LandedPlaces
  <2>5. \A j \in Keys, s \in Vrams : place'[j] = Vram(s) <=> place[j] = Vram(s)
    BY <1>9, <2>4, PlaceFacts
  <2>6. VramSide'
    <3>1. \A s \in Vrams : vram.own[s] # None => vram.own[s] \in Keys
      BY DEF Inv, Types, VramType
    <3> QED BY <1>1, <1>4, <2>5, <3>1 DEF Inv, VramSide, Gone
  <2>7. MovesServable'
    <3>1. ASSUME NEW j \in Keys PROVE MayMove(j \in call.ids, call.before[j], place'[j])
      <4>0. MayMove(j \in call.ids, call.before[j], place[j])
        BY <1>1 DEF Inv, MovesServable, ServableMoves
      <4>1. CASE j = k
        <5>1. call.before[k] = Nvme
          BY <1>2, <1>9, <4>0, <4>1, PlaceFacts DEF MayMove
        <5> QED BY <1>2, <2>4, <4>1, <5>1 DEF MayMove
      <4>2. CASE j # k
        BY <2>4, <4>0, <4>2, PlaceFacts DEF MayMove
      <4> QED BY <4>1, <4>2
    <3> QED BY <1>4, <3>1 DEF MovesServable, ServableMoves
  <2>8. LateReadsKeepSlot' /\ Bytes'
    BY <1>1, <1>4, <1>6, <1>9, <2>1, <2>2, KeepBytes DEF Settles
  <2> QED BY <1>5, <2>3, <2>6, <2>7, <2>8 DEF Inv
<1> QED BY <1>3, <1>7, <1>8, <1>9

\* One expert of a disabled chunk is written out.
LEMMA OutNextInv ==
  ASSUME Inv, OutNext
  PROVE  Inv'
<1>1. call.at = "out" /\ UNCHANGED <<policy, vram, mem>>
  BY DEF OutNext
<1>2. PICK k \in call.todo :
        /\ \E o \in Demote([Books EXCEPT !.place[k] = Nvme], k, {}) : place' = o.place /\ ram' = o.ram
        /\ call' = [call EXCEPT !.todo = @ \ {k}]
  BY DEF OutNext
<1> DEFINE b == [Books EXCEPT !.place[k] = Nvme]
<1>3. PICK o \in Demote(b, k, {}) : place' = o.place /\ ram' = o.ram
  BY <1>2
<1>4. /\ k \in Keys /\ InVram(place[k]) /\ ~InRam(place[k]) /\ \A s \in Vrams : vram.own[s] # k
  BY <1>1 DEF Inv, Types, CallType, Loops, InVram, InRam
<1>5. /\ call'.at = "out" /\ call'.todo = call.todo \ {k} /\ call'.ids = call.ids
      /\ call'.before = call.before /\ call' \in CallType
  BY <1>1, <1>2 DEF Inv, Types, CallType
<1>6. b = [place |-> [place EXCEPT ![k] = Nvme], ram |-> ram]
  BY DEF Books
<1> HIDE DEF b
<1>7. /\ BookOK(b, {}) /\ b.place = [place EXCEPT ![k] = Nvme] /\ b.ram = ram
      /\ b.place[k] = Nvme /\ \A j \in Keys \ {k} : b.place[j] = place[j]
  <2>1. /\ BookOK(Books, {}) /\ Books.place = place /\ Books.ram = ram
        /\ Nvme \in Places /\ ~InRam(Nvme)
    BY PlaceFacts DEF Inv, Books
  <2>2. BookOK([place |-> [place EXCEPT ![k] = Nvme], ram |-> ram], {})
    BY <1>4, <2>1, OutsideOK
  <2> QED BY <1>4, <1>6, <2>2, BooksFacts DEF Inv
<1>8. BookOK(o, {}) /\ Settles(b, o, k, {})
  BY <1>3, <1>4, <1>7, DemoteOK
<1>9. BookOK(Books, {})'
  BY <1>3, <1>8, BooksPrime
<1>10. /\ ~InVram(place'[k])
       /\ \A j \in Keys \ {k} : place'[j] = place[j] \/ (InRam(place[j]) /\ place'[j] = Nvme)
       /\ \A j \in Keys \ {k}, s \in Vrams : place'[j] = Vram(s) <=> place[j] = Vram(s)
  BY <1>3, <1>4, <1>7, LandedPlaces
<1>11. Types'
  BY <1>1, <1>5 DEF Inv, Types
<1>12. VramSide'
  <2>1. \A s \in Vrams : vram.own[s] # None => vram.own[s] \in Keys \ {k} /\ place[vram.own[s]] = Vram(s)
    BY <1>4 DEF Inv, Types, VramType, VramSide
  <2>2. \A s \in Vrams : vram'.own[s] # None => place'[vram'.own[s]] = Vram(s)
    BY <1>1, <1>10, <2>1
  <2>3. ASSUME NEW j \in Keys, NEW s \in Vrams, place'[j] = Vram(s) PROVE vram'.own[s] = j \/ j \in call.todo \ {k}
    <3>1. j # k
      BY <1>10, <2>3, PlaceFacts
    <3>2. place[j] = Vram(s)
      BY <1>10, <2>3, <3>1
    <3> QED BY <1>1, <3>1, <3>2 DEF Inv, VramSide, Gone
  <2> QED BY <1>1, <1>5, <2>2, <2>3 DEF Inv, VramSide, Gone
<1>13. Loops'
  <2>1. ASSUME NEW j \in call.todo \ {k} PROVE InVram(place'[j])
    <3>1. j \in Keys /\ InVram(place[j])
      BY <1>1 DEF Inv, Types, CallType, Loops
    <3> QED BY <1>10, <3>1 DEF InVram, InRam
  <2> QED BY <1>1, <1>5, <2>1 DEF Inv, Loops
<1>14. MovesServable'
  <2>1. ASSUME NEW j \in Keys PROVE MayMove(j \in {}, call.before[j], place'[j])
    <3>0. MayMove(j \in {}, call.before[j], place[j])
      BY <1>1 DEF Inv, MovesServable, ServableMoves
    <3>1. CASE j = k
      <4>1. call.before[k] = place[k]
        BY <1>4, <3>0, <3>1, PlaceFacts DEF MayMove
      <4> QED BY <1>4, <1>10, <3>1, <4>1 DEF MayMove
    <3>2. CASE j # k
      BY <1>10, <3>0, <3>2, PlaceFacts DEF MayMove
    <3> QED BY <3>1, <3>2
  <2> QED BY <1>5, <2>1 DEF MovesServable, ServableMoves
<1>15. LateReadsKeepSlot' /\ Bytes'
  BY <1>1, <1>3, <1>5, <1>7, <1>8, KeepBytes DEF Settles, Deciding
<1> QED BY <1>9, <1>11, <1>12, <1>13, <1>14, <1>15 DEF Inv

\* An elastic chunk is disabled.
LEMMA DisableInv ==
  ASSUME Inv, NEW c \in Chunks, Disable(c)
  PROVE  Inv'
<1> DEFINE own  == [s \in Vrams |-> IF s \in c THEN None ELSE vram.own[s]]
           todo == {k \in Keys : InVram(place[k]) /\ place[k].slot \in c}
<1>1. /\ call.at = "idle" /\ UNCHANGED <<policy, place, mem>>
      /\ vram' = [vram EXCEPT !.own = own, !.ref = @ \ c, !.off = @ \cup c]
      /\ ram' = [ram EXCEPT !.freed = {}]
      /\ call' = [call EXCEPT !.at = "out", !.ids = {}, !.before = place, !.todo = todo]
  BY DEF Disable, Idle
<1>2. c \subseteq Vrams
  BY GlobalArenaAssumption
<1>3. own \in [Vrams -> Keys \cup {None}]
  BY DEF Inv, Types, VramType
<1>4. /\ \A s \in Vrams : own[s] = IF s \in c THEN None ELSE vram.own[s]
      /\ todo \subseteq Keys /\ \A k \in todo : InVram(place[k]) /\ place[k].slot \in c
      /\ \A k \in Keys : InVram(place[k]) /\ place[k].slot \in c => k \in todo
  OBVIOUS
<1> HIDE DEF own, todo
<1>5. /\ vram'.own = own /\ vram'.off = vram.off \cup c /\ vram' \in VramType
      /\ call'.at = "out" /\ call'.todo = todo /\ call'.ids = {} /\ call'.before = place
      /\ call' \in CallType
  BY <1>1, <1>2, <1>3, <1>4, BooksFacts DEF Inv, Types, VramType, CallType
<1>6. /\ ram'.own = ram.own /\ ram'.lru = ram.lru /\ ram'.free = ram.free
      /\ ram'.guess = ram.guess /\ ram'.flight = ram.flight /\ ram' \in RamType
  BY <1>1, BooksFacts DEF Inv, RamType
<1>7. BookOK(Books, {})'
  <2>1. Holders(ram') = Holders(ram)
    BY <1>6 DEF Holders
  <2>2. Books' = [place |-> place, ram |-> ram']
    BY <1>1 DEF Books
  <2>3. BookOK([place |-> place, ram |-> ram'], {})
    BY <1>6, <2>1, BooksFacts DEF Inv, BookOK
  <2> QED BY <2>2, <2>3 DEF BookOK
<1>8. Types'
  BY <1>1, <1>5 DEF Inv, Types
<1>9. VramSide'
  <2>1. \A s \in Vrams : own[s] # None => place[own[s]] = Vram(s)
    BY <1>4 DEF Inv, VramSide
  <2>2. ASSUME NEW k \in Keys, NEW s \in Vrams, place[k] = Vram(s) PROVE own[s] = k \/ k \in todo
    <3>1. vram.own[s] = k
      BY <1>1, <2>2 DEF Inv, VramSide, Gone
    <3>2. InVram(place[k]) /\ place[k].slot = s
      BY <2>2, PlaceFacts
    <3> QED BY <1>4, <3>1, <3>2
  <2>3. \A s \in vram.off \cup c : own[s] = None
    BY <1>2, <1>4 DEF Inv, Types, VramType, VramSide
  <2> QED BY <1>1, <1>5, <2>1, <2>2, <2>3 DEF VramSide, Gone
<1>10. Loops'
  <2>1. ASSUME NEW k \in todo, NEW s \in Vrams PROVE own[s] # k
    <3>1. k \in Keys /\ place[k].slot \in Vrams /\ place[k] = Vram(place[k].slot) /\ place[k].slot \in c
      BY <1>4, BooksFacts, PlaceFacts DEF Inv
    <3>2. SUFFICES ASSUME own[s] = k PROVE FALSE
      OBVIOUS
    <3>3. s \notin c /\ vram.own[s] = k
      BY <1>4, <3>1, <3>2, PlaceFacts
    <3>4. place[k] = Vram(s)
      BY <3>1, <3>3, PlaceFacts DEF Inv, VramSide
    <3> QED BY <3>1, <3>3, <3>4, PlaceFacts
  <2> QED BY <1>1, <1>4, <1>5, <2>1 DEF Loops
<1>11. MovesServable'
  <2>1. ServableMoves(place, place, {})
    BY DEF ServableMoves, MayMove
  <2> QED BY <1>1, <1>5, <2>1 DEF MovesServable, ServableMoves
<1>12. LateReadsKeepSlot'
  BY <1>1, <1>6 DEF Inv, LateReadsKeepSlot
<1>13. Bytes'
  <2>1. ~Deciding /\ Deciding'
    BY <1>1, <1>5 DEF Deciding
  <2>2. ASSUME NEW k \in Keys
        PROVE  /\ \A s \in Vrams : place[k] = Vram(s) => mem.v[s] = k
               /\ \A q \in Rams \ ram.flight : place[k] = Ram(q) => mem.r[q] = k
               /\ \A q \in ram.flight : place[k] = Ram(q) <=> ram.own[q] = k
    <3>1. ASSUME NEW s \in Vrams, place[k] = Vram(s) PROVE mem.v[s] = k
      <4>1. vram.own[s] = k
        BY <1>1, <3>1 DEF Inv, VramSide, Gone
      <4> QED BY <2>1, <4>1, PlaceFacts DEF Inv, Bytes
    <3>2. ASSUME NEW q \in Rams \ ram.flight, place[k] = Ram(q) PROVE mem.r[q] = k
      <4>1. ram.own[q] = k
        BY <3>2, BooksFacts DEF Inv
      <4> QED BY <2>1, <4>1, PlaceFacts DEF Inv, Bytes
    <3>3. \A q \in ram.flight : place[k] = Ram(q) <=> ram.own[q] = k
      BY BooksFacts, PlaceFacts DEF Inv
    <3> QED BY <3>1, <3>2, <3>3
  <2>3. \A q \in ram'.flight : (\E d \in mem'.late : d[1] = q) \/ mem'.r[q] = ram'.own[q]
    BY <1>1, <1>6 DEF Inv, Bytes
  <2> QED BY <1>1, <1>5, <1>6, <2>1, <2>2, <2>3 DEF Bytes
<1> QED BY <1>7, <1>8, <1>9, <1>10, <1>11, <1>12, <1>13 DEF Inv

\* Steps of an idle stager that touch neither owners, places nor bytes.
LEMMA IdleKeeps ==
  ASSUME Inv, call.at = "idle", call'.at = "idle", UNCHANGED <<policy, place, ram, mem>>,
         vram' \in VramType, call' \in CallType, vram'.own = vram.own, vram'.off \subseteq vram.off
  PROVE  Inv'
<1>1. BookOK(Books, {})'
  BY KeepBooks
<1>2. Types' /\ VramSide' /\ Loops' /\ MovesServable' /\ LateReadsKeepSlot'
  BY DEF Inv, Types, VramSide, Gone, Loops, MovesServable, LateReadsKeepSlot
<1>3. Bytes'
  BY DEF Inv, Bytes, Deciding
<1> QED BY <1>1, <1>2, <1>3 DEF Inv

\* An elastic chunk comes back.
LEMMA EnableInv ==
  ASSUME Inv, NEW c \in Chunks, Enable(c)
  PROVE  Inv'
<1>1. c \subseteq Vrams
  BY GlobalArenaAssumption
<1>2. /\ vram' \in VramType /\ vram'.own = vram.own /\ vram'.off \subseteq vram.off
  BY <1>1 DEF Enable, Inv, Types, VramType
<1> QED BY <1>2, IdleKeeps DEF Enable, Idle, Inv, Types

\* The end of a refill.
LEMMA RefillEndInv ==
  ASSUME Inv, RefillEnd
  PROVE  Inv'
<1>1. vram' \in VramType /\ vram'.own = vram.own /\ vram'.off = vram.off
  BY DEF RefillEnd, Inv, Types, VramType
<1> QED BY <1>1, IdleKeeps DEF RefillEnd, Idle, Inv, Types

\* A prompt call that only sets reference bits.
LEMMA MarkInv ==
  ASSUME Inv, NEW l \in Nat, NEW ids \in SUBSET Keys, Mark(l, ids)
  PROVE  Inv'
<1> DEFINE hits == {place[k].slot : k \in {x \in ids : InVram(place[x])}}
<1>1. hits \subseteq Vrams
  BY BooksFacts, PlaceFacts DEF Inv
<1>2. vram' = [vram EXCEPT !.ref = @ \cup hits] /\ call' = [call EXCEPT !.layer = l]
  BY DEF Mark
<1> HIDE DEF hits
<1>3. /\ vram' \in VramType /\ vram'.own = vram.own /\ vram'.off = vram.off
      /\ call' \in CallType /\ call'.at = call.at
  BY <1>1, <1>2 DEF Inv, Types, VramType, CallType
<1> QED BY <1>3, IdleKeeps DEF Mark, Idle

\* A refill starts on a layer.
LEMMA BeginFillInv ==
  ASSUME Inv, NEW l \in Nat, NEW ids \in SUBSET Keys, BeginFill(l, ids)
  PROVE  Inv'
<1>1. /\ call.at = "idle" /\ mem.late = {} /\ UNCHANGED <<policy, place, vram, mem>>
      /\ \A k \in ids : ~InVram(place[k])
      /\ ram' = [ram EXCEPT !.flight = {}, !.freed = {}]
      /\ call' = [call EXCEPT !.at = "fill", !.layer = l, !.ids = {}, !.todo = ids, !.before = place]
  BY DEF BeginFill, Idle
<1>2. /\ ram'.own = ram.own /\ ram'.lru = ram.lru /\ ram'.free = ram.free
      /\ ram'.guess = ram.guess /\ ram'.flight = {} /\ ram' \in RamType
  BY <1>1, BooksFacts DEF Inv, RamType
<1>3. /\ call'.at = "fill" /\ call'.todo = ids /\ call'.ids = {} /\ call'.before = place
      /\ call' \in CallType
  BY <1>1, BooksFacts DEF Inv, Types, CallType
<1>4. BookOK(Books, {})'
  <2>1. Holders(ram') = Holders(ram)
    BY <1>2 DEF Holders
  <2>2. Books' = [place |-> place, ram |-> ram']
    BY <1>1 DEF Books
  <2>3. BookOK([place |-> place, ram |-> ram'], {})
    BY <1>2, <2>1, BooksFacts DEF Inv, BookOK
  <2> QED BY <2>2, <2>3 DEF BookOK
<1>5. Types' /\ VramSide' /\ Loops' /\ MovesServable' /\ LateReadsKeepSlot'
  BY <1>1, <1>3 DEF Inv, Types, VramSide, Gone, Loops, MovesServable, LateReadsKeepSlot
<1>6. Bytes'
  <2>1. ~Deciding /\ Deciding'
    BY <1>1, <1>3 DEF Deciding
  <2>2. \A q \in Rams : ram.own[q] \in {None, mem.r[q]}
    BY <1>1, <2>1 DEF Inv, Bytes
  <2>3. ASSUME NEW k \in Keys, NEW q \in Rams, place[k] = Ram(q) PROVE mem.r[q] = k
    <3>1. ram.own[q] = k
      BY <2>3, BooksFacts DEF Inv
    <3> QED BY <2>2, <3>1, PlaceFacts
  <2>4. ASSUME NEW k \in Keys, NEW s \in Vrams, place[k] = Vram(s) PROVE mem.v[s] = k
    <3>1. vram.own[s] = k
      BY <1>1, <2>4 DEF Inv, VramSide, Gone
    <3> QED BY <2>1, <3>1, PlaceFacts DEF Inv, Bytes
  <2> QED BY <1>1, <1>2, <1>3, <2>1, <2>3, <2>4 DEF Bytes
<1> QED BY <1>4, <1>5, <1>6 DEF Inv

\* One expert of a fill.
LEMMA FillNextInv ==
  ASSUME Inv, FillNext
  PROVE  Inv'
<1> DEFINE k == Least(call.todo)
           s == Least(Room)
           r == IF InRam(place[k]) THEN Release(ram, place[k].slot) ELSE ram
           o == [place |-> [place EXCEPT ![k] = Vram(s)], ram |-> r]
<1>1. /\ call.at = "fill" /\ call.todo # {} /\ Room # {} /\ UNCHANGED <<policy, mem>>
      /\ vram' = [vram EXCEPT !.own[s] = k, !.ref = @ \cup {s}, !.pin = @ \cup {s},
                              !.fresh = {t \in @ : t > s}]
      /\ place' = [place EXCEPT ![k] = Vram(s)] /\ ram' = r
      /\ call' = [call EXCEPT !.todo = @ \ {k}]
  BY DEF FillNext
<1>2. k \in call.todo /\ k \in Keys /\ ~InVram(place[k])
  BY <1>1, PlaceFacts, LeastIn DEF Inv, Types, CallType, Loops
<1>3. s \in Vrams /\ vram.own[s] = None /\ s \notin vram.off
  <2>1. Room \in SUBSET Nat
    BY DEF Room, Inv, Types, VramType, Vrams
  <2>2. s \in Room
    BY <1>1, <2>1, LeastIn
  <2> QED BY <2>2 DEF Room, Inv, Types, VramType
<1> HIDE DEF k, s
<1>4. Vram(s) \in Places /\ ~InRam(Vram(s)) /\ InVram(Vram(s))
  BY <1>3, PlaceFacts
<1>5. BookOK(o, {}) /\ r.flight = ram.flight /\ \A q \in ram.flight : r.own[q] = ram.own[q]
  <2>1. Books.place = place /\ Books.ram = ram /\ BookOK(Books, {})
    BY DEF Books, Inv
  <2>2. CASE InRam(place[k])
    <3> DEFINE q == place[k].slot
    <3>1. q \in Rams /\ place[k] = Ram(q) /\ ram.own[q] = k
      BY <1>2, <2>2, BooksFacts, PlaceFacts DEF Inv
    <3>2. q \notin ram.flight
      BY <1>1 DEF Inv, Loops
    <3> HIDE DEF q
    <3>3. r = Release(ram, q)
      BY <2>2 DEF q
    <3>4. /\ BookOK([place |-> [place EXCEPT ![k] = Vram(s)], ram |-> Release(ram, q)], {})
          /\ Release(ram, q).own = [ram.own EXCEPT ![q] = None]
          /\ Release(ram, q).flight = ram.flight
      BY <1>2, <1>4, <2>1, <3>1, <3>2, ReleaseOK, SMTT(60)
    <3> HIDE DEF r
    <3>5. \A p \in ram.flight : r.own[p] = ram.own[p]
      BY <3>2, <3>3, <3>4, BooksFacts DEF Inv, RamType
    <3> QED BY <3>3, <3>4, <3>5
  <2>3. CASE ~InRam(place[k])
    <3>1. BookOK([place |-> [place EXCEPT ![k] = Vram(s)], ram |-> ram], {})
      BY <1>2, <1>4, <2>1, <2>3, OutsideOK
    <3> QED BY <2>3, <3>1
  <2> QED BY <2>2, <2>3
<1>6. place' = o.place /\ ram' = o.ram /\ o.place[k] = Vram(s)
      /\ \A j \in Keys \ {k} : o.place[j] = place[j]
  BY <1>1, <1>2, BooksFacts DEF Inv
<1> HIDE DEF o, r
<1>7. BookOK(Books, {})'
  BY <1>5, <1>6, BooksPrime
<1>8. /\ vram'.own = [vram.own EXCEPT ![s] = k] /\ vram'.off = vram.off /\ vram' \in VramType
      /\ call'.at = "fill" /\ call'.todo = call.todo \ {k} /\ call'.before = call.before
      /\ call' \in CallType
  BY <1>1, <1>2, <1>3 DEF Inv, Types, VramType, CallType
<1>9. Types'
  BY <1>1, <1>8 DEF Inv, Types
<1>10. VramSide'
  <2>1. ASSUME NEW t \in Vrams, vram'.own[t] # None PROVE place'[vram'.own[t]] = Vram(t)
    <3>1. CASE t = s
      BY <1>3, <1>6, <1>8, <3>1 DEF Inv, Types, VramType
    <3>2. CASE t # s
      <4>1. vram'.own[t] = vram.own[t] /\ vram.own[t] \in Keys /\ place[vram.own[t]] = Vram(t)
        BY <1>8, <2>1, <3>2 DEF Inv, Types, VramType, VramSide
      <4>2. vram.own[t] # k
        BY <1>2, <4>1, PlaceFacts
      <4> QED BY <1>6, <4>1, <4>2
    <3> QED BY <3>1, <3>2
  <2>2. ASSUME NEW j \in Keys, NEW t \in Vrams, place'[j] = Vram(t) PROVE vram'.own[t] = j
    <3>1. CASE j = k
      <4>1. t = s
        BY <1>3, <1>6, <2>2, <3>1, PlaceFacts
      <4> QED BY <1>3, <1>8, <3>1, <4>1 DEF Inv, Types, VramType
    <3>2. CASE j # k
      <4>1. place[j] = Vram(t) /\ vram.own[t] = j
        BY <1>1, <1>6, <2>2, <3>2 DEF Inv, VramSide, Gone
      <4>2. t # s
        BY <1>3, <4>1, PlaceFacts
      <4> QED BY <1>8, <4>1, <4>2 DEF Inv, Types, VramType
    <3> QED BY <3>1, <3>2
  <2>3. \A t \in vram'.off : vram'.own[t] = None
    BY <1>3, <1>8 DEF Inv, Types, VramType, VramSide
  <2> QED BY <2>1, <2>2, <2>3 DEF VramSide
<1>11. Loops'
  <2>1. \A j \in call.todo \ {k} : ~InVram(place'[j])
    BY <1>1, <1>6 DEF Inv, Types, CallType, Loops
  <2>2. ram'.flight = {}
    BY <1>1, <1>5, <1>6 DEF Inv, Loops, o
  <2> QED BY <1>8, <2>1, <2>2 DEF Loops
<1>12. MovesServable'
  <2>1. call.before[k] = place[k]
    BY <1>1, <1>2 DEF Inv, MovesServable
  <2>2. ASSUME NEW j \in Keys
        PROVE  place'[j] = call.before[j] \/ (InVram(place'[j]) /\ ~InVram(call.before[j]))
    <3>1. CASE j = k
      BY <1>2, <1>4, <1>6, <2>1, <3>1
    <3>2. CASE j # k
      BY <1>1, <1>6, <3>2 DEF Inv, MovesServable
    <3> QED BY <3>1, <3>2
  <2> QED BY <1>8, <2>2 DEF MovesServable
<1>13. LateReadsKeepSlot' /\ Bytes'
  <2>1. ram'.flight = ram.flight /\ \A q \in ram.flight : ram'.own[q] = ram.own[q]
    BY <1>5, <1>6 DEF o
  <2> QED BY <1>1, <1>8, <2>1, KeepBytes DEF Deciding
<1> QED BY <1>7, <1>9, <1>10, <1>11, <1>12, <1>13 DEF Inv

\* A call is served: every move is staged and the call ends.
LEMMA ServeInv ==
  ASSUME Inv, Serve
  PROVE  Inv'
<1>1. /\ call.at \in {"land", "out", "fill"} /\ call.todo = {} /\ UNCHANGED <<policy, place, ram>>
      /\ mem' = [mem EXCEPT !.r = RamAfter, !.v = VramAfter]
      /\ call' = [call EXCEPT !.at = "idle", !.admit = FALSE, !.before = NoPlaces]
      /\ vram' = [vram EXCEPT !.pin = {}]
  BY DEF Serve
<1>2. /\ place \in [Keys -> Places] /\ call.before \in [Keys -> Places] /\ ram.flight \subseteq Rams
      /\ \A k \in Keys, q \in Rams : place[k] = Ram(q) <=> ram.own[q] = k
      /\ \A k \in Keys, s \in Vrams : place[k] = Vram(s) <=> vram.own[s] = k
      /\ \A q \in Rams : ram.own[q] \in Keys \cup {None}
      /\ \A s \in Vrams : vram.own[s] \in Keys \cup {None}
  <2>1. place \in [Keys -> Places] /\ call.before \in [Keys -> Places] /\ ram.flight \subseteq Rams
    BY BooksFacts DEF Inv, Types, CallType
  <2>2. /\ \A q \in Rams : ram.own[q] \in Keys \cup {None}
        /\ \A s \in Vrams : vram.own[s] \in Keys \cup {None}
    BY BooksFacts DEF Inv, Types, VramType, RamType
  <2>3. \A k \in Keys, q \in Rams : place[k] = Ram(q) <=> ram.own[q] = k
    BY BooksFacts, PlaceFacts DEF Inv
  <2>4. \A k \in Keys, s \in Vrams : place[k] = Vram(s) <=> vram.own[s] = k
    BY <1>1, PlaceFacts DEF Inv, VramSide, Gone
  <2> QED BY <2>1, <2>2, <2>3, <2>4
<1>3. Deciding /\ \A k \in Keys :
        /\ \A s \in Vrams : call.before[k] = Vram(s) => mem.v[s] = k
        /\ \A q \in Rams \ ram.flight : call.before[k] = Ram(q) => mem.r[q] = k
        /\ \A q \in ram.flight : call.before[k] = Ram(q) <=> ram.own[q] = k
  BY <1>1 DEF Inv, Bytes, Deciding
\* Who is moved, and what is staged for it.
<1>4. ASSUME NEW k \in Moved PROVE k \in Keys /\ Staged(k) = k
  <2>1. k \in Keys /\ place[k] # call.before[k]
    BY DEF Moved
  <2>2. CASE InVram(call.before[k])
    <3>1. /\ call.before[k].slot \in Vrams /\ call.before[k] = Vram(call.before[k].slot)
          /\ ~InRam(call.before[k])
      BY <1>2, <2>1, <2>2, PlaceFacts
    <3>2. Staged(k) = mem.v[call.before[k].slot]
      BY <2>2, <3>1 DEF Staged
    <3> QED BY <1>3, <2>1, <3>1, <3>2
  <2>3. CASE InRam(call.before[k])
    <3> DEFINE q == call.before[k].slot
    <3>1. q \in Rams /\ call.before[k] = Ram(q) /\ ~InVram(call.before[k])
      BY <1>2, <2>1, <2>3, PlaceFacts
    <3>2. Staged(k) = mem.r[q]
      BY <2>3, <3>1 DEF Staged
    <3> HIDE DEF q
    <3>3. q \notin ram.flight
      <4>1. q \in ram.flight => place[k] = Ram(q)
        BY <1>2, <1>3, <2>1, <3>1
      <4> QED BY <2>1, <3>1, <4>1
    <3> QED BY <1>3, <2>1, <3>1, <3>2, <3>3
  <2>4. CASE ~InVram(call.before[k]) /\ ~InRam(call.before[k])
    BY <2>1, <2>4 DEF Staged
  <2> QED BY <2>2, <2>3, <2>4
<1>5. ASSUME NEW k \in Keys, NEW p \in Places, place[k] = p, \A j \in Keys : place[j] = p => j = k
      PROVE  IF At(p) = {} THEN call.before[k] = p ELSE Staged(The(At(p))) = k
  <2>1. CASE At(p) = {}
    <3>1. k \notin Moved
      BY <1>5, <2>1 DEF At
    <3> QED BY <1>5, <2>1, <3>1 DEF Moved
  <2>2. CASE At(p) # {}
    <3>1. The(At(p)) \in At(p)
      BY <2>2 DEF The
    <3>2. The(At(p)) \in Moved /\ The(At(p)) = k
      BY <1>5, <3>1 DEF At, Moved
    <3> QED BY <1>4, <2>2, <3>2
  <2> QED BY <2>1, <2>2
<1>6. ASSUME NEW s \in Vrams, vram.own[s] # None PROVE VramAfter[s] = vram.own[s]
  <2> DEFINE k == vram.own[s]
  <2>1. k \in Keys /\ place[k] = Vram(s) /\ Vram(s) \in Places /\ \A j \in Keys : place[j] = Vram(s) => j = k
    BY <1>2, <1>6, PlaceFacts, ZenonT(30)
  <2>2. VramAfter[s] = IF At(Vram(s)) = {} THEN mem.v[s] ELSE Staged(The(At(Vram(s))))
    BY <1>6 DEF VramAfter
  <2> HIDE DEF k
  <2>3. IF At(Vram(s)) = {} THEN call.before[k] = Vram(s) ELSE Staged(The(At(Vram(s)))) = k
    BY <1>5, <2>1
  <2>4. VramAfter[s] = k
    BY <1>3, <2>1, <2>2, <2>3
  <2> QED BY <2>4 DEF k
<1>7. ASSUME NEW q \in Rams \ ram.flight, ram.own[q] # None PROVE RamAfter[q] = ram.own[q]
  <2> DEFINE k == ram.own[q]
  <2>1. k \in Keys /\ place[k] = Ram(q) /\ Ram(q) \in Places /\ \A j \in Keys : place[j] = Ram(q) => j = k
    BY <1>2, <1>7, PlaceFacts
  <2>2. RamAfter[q] = IF At(Ram(q)) = {} THEN mem.r[q] ELSE Staged(The(At(Ram(q))))
    BY <1>7 DEF RamAfter
  <2> HIDE DEF k
  <2>3. IF At(Ram(q)) = {} THEN call.before[k] = Ram(q) ELSE Staged(The(At(Ram(q)))) = k
    BY <1>5, <2>1
  <2>4. RamAfter[q] = k
    BY <1>3, <2>1, <2>2, <2>3
  <2> QED BY <2>4 DEF k
<1>8. ASSUME NEW q \in ram.flight PROVE RamAfter[q] = mem.r[q]
  <2> DEFINE k == ram.own[q]
  <2>1. q \in Rams /\ k # None
    BY <1>2, BooksFacts DEF Inv, Holders
  <2>2. k \in Keys /\ call.before[k] = Ram(q) /\ place[k] = Ram(q) /\ \A j \in Keys : place[j] = Ram(q) => j = k
    BY <1>2, <1>3, <2>1
  <2>3. At(Ram(q)) = {}
    BY <2>2 DEF At, Moved
  <2> QED BY <2>1, <2>3 DEF RamAfter
<1>9. /\ VramAfter \in [Vrams -> Keys \cup {None}] /\ RamAfter \in [Rams -> Keys \cup {None}]
  <2>1. ASSUME NEW s \in Vrams PROVE VramAfter[s] \in Keys \cup {None}
    <3>1. CASE vram.own[s] = None
      BY <3>1 DEF VramAfter
    <3>2. CASE vram.own[s] # None
      BY <1>2, <1>6, <3>2
    <3> QED BY <3>1, <3>2
  <2>2. ASSUME NEW q \in Rams PROVE RamAfter[q] \in Keys \cup {None}
    <3>1. CASE ram.own[q] = None
      BY <3>1 DEF RamAfter
    <3>2. CASE q \in ram.flight
      BY <1>8, <3>2 DEF Inv, Types, MemType
    <3>3. CASE q \notin ram.flight /\ ram.own[q] # None
      BY <1>2, <1>7, <3>3
    <3> QED BY <3>1, <3>2, <3>3
  <2>3. /\ VramAfter = [s \in Vrams |-> VramAfter[s]] /\ RamAfter = [q \in Rams |-> RamAfter[q]]
    BY Zenon DEF VramAfter, RamAfter
  <2> HIDE DEF VramAfter, RamAfter
  <2> QED BY <2>1, <2>2, <2>3
<1>10. /\ mem'.r = RamAfter /\ mem'.v = VramAfter /\ mem'.late = mem.late /\ mem' \in MemType
       /\ call'.at = "idle" /\ call' \in CallType
       /\ vram'.own = vram.own /\ vram'.off = vram.off /\ vram' \in VramType
  <2>1. /\ mem'.r = RamAfter /\ mem'.v = VramAfter /\ mem'.late = mem.late /\ mem' \in MemType
    BY <1>1, <1>9 DEF Inv, Types, MemType
  <2>2. NoPlaces \in [Keys -> Places]
    BY PlaceFacts DEF NoPlaces
  <2>3. /\ call'.at = "idle" /\ call' \in CallType
        /\ vram'.own = vram.own /\ vram'.off = vram.off /\ vram' \in VramType
    BY <1>1, <2>2 DEF Inv, Types, CallType, VramType
  <2> QED BY <2>1, <2>3
<1>11. BookOK(Books, {})'
  BY <1>1, KeepBooks
<1>12. Types' /\ Loops' /\ MovesServable'
  BY <1>1, <1>10 DEF Inv, Types, Loops, MovesServable
<1>13. VramSide'
  BY <1>1, <1>2, <1>10 DEF Inv, VramSide
<1>14. LateReadsKeepSlot'
  BY <1>1, <1>10 DEF Inv, LateReadsKeepSlot
<1>15. Bytes'
  <2>1. ~Deciding'
    BY <1>10 DEF Deciding
  <2>2. \A s \in Vrams : vram'.own[s] \in {None, mem'.v[s]}
    BY <1>6, <1>10
  <2>3. \A q \in Rams \ ram'.flight : ram'.own[q] \in {None, mem'.r[q]}
    BY <1>1, <1>7, <1>10
  <2>4. \A q \in ram'.flight : (\E d \in mem'.late : d[1] = q) \/ mem'.r[q] = ram'.own[q]
    BY <1>1, <1>8, <1>10 DEF Inv, Bytes
  <2> QED BY <2>1, <2>2, <2>3, <2>4 DEF Bytes
<1> QED BY <1>11, <1>12, <1>13, <1>14, <1>15 DEF Inv

\* A guessed read submitted: books b with the slot q taken for it.
LEMMA GuessIntoInv ==
  ASSUME Inv, call.at = "idle", NEW k \in Keys, place[k] = Nvme,
         NEW q \in Rams, q \notin ram.flight, NEW b, BookOK(b, {q}), GuessInto(b, k, q),
         b.ram.flight = ram.flight, \A p \in Rams : b.ram.own[p] # None => b.ram.own[p] = ram.own[p],
         b.place[k] = Nvme,
         \A j \in Keys : b.place[j] = place[j] \/ (InRam(place[j]) /\ b.place[j] = Nvme),
         \A p \in ram.flight : b.ram.own[p] = ram.own[p],
         UNCHANGED <<policy, vram, call>>
  PROVE  Inv'
<1> DEFINE e == Guessed(b, k, q)
<1>1. /\ place' = e.place /\ ram' = e.ram
      /\ mem' = [mem EXCEPT !.late = @ \cup {<<q, k>>}]
  BY DEF GuessInto, Guessed
<1>2. ~InRam(b.place[k])
  BY PlaceFacts
<1>3. e.place = [b.place EXCEPT ![k] = Ram(q)] /\ b.place \in [Keys -> Places]
  BY DEF BookOK, Guessed
<1>5. /\ BookOK(e, {}) /\ e.ram.own = [b.ram.own EXCEPT ![q] = k]
      /\ e.ram.flight = b.ram.flight \cup {q}
  BY <1>2, GuessOK
<1> HIDE DEF e
<1>6. BookOK(Books, {})'
  BY <1>1, <1>5, BooksPrime
<1>7. /\ ram'.flight = ram.flight \cup {q}
      /\ ram'.own[q] = k /\ \A p \in Rams \ {q} : ram'.own[p] = b.ram.own[p]
  BY <1>1, <1>5 DEF BookOK, RamType
<1>8. mem'.late = mem.late \cup {<<q, k>>} /\ mem'.r = mem.r /\ mem'.v = mem.v /\ mem' \in MemType
  BY <1>1 DEF Inv, Types, MemType
<1>9. Types'
  BY <1>8 DEF Inv, Types
<1>10. \A j \in Keys, s \in Vrams : place'[j] = Vram(s) <=> place[j] = Vram(s)
  BY <1>1, <1>3, PlaceFacts
<1>11. VramSide' /\ Loops' /\ MovesServable'
  <2>1. \A s \in Vrams : vram.own[s] # None => vram.own[s] \in Keys
    BY DEF Inv, Types, VramType
  <2> QED BY <1>10, <2>1 DEF Inv, VramSide, Gone, Loops, MovesServable
<1>12. ram.flight \subseteq Rams /\ mem.late \subseteq Rams \X Keys
  BY BooksFacts DEF Inv, Types, MemType
<1>13. \A p \in ram.flight : p # q /\ ram'.own[p] = ram.own[p]
  BY <1>7, <1>12
<1>14. LateReadsKeepSlot'
  <2>1. ASSUME NEW d \in mem'.late PROVE ram'.own[d[1]] = d[2] /\ d[1] \in ram'.flight
    <3>1. CASE d = <<q, k>>
      BY <1>7, <3>1
    <3>2. CASE d \in mem.late
      BY <1>7, <1>13, <3>2 DEF Inv, LateReadsKeepSlot
    <3> QED BY <1>8, <2>1, <3>1, <3>2
  <2> QED BY <2>1 DEF LateReadsKeepSlot
<1>15. Bytes'
  <2>1. ~Deciding /\ ~Deciding'
    BY DEF Deciding
  <2>2. \A s \in Vrams : vram'.own[s] \in {None, mem'.v[s]}
    BY <1>8, <2>1 DEF Inv, Bytes
  <2>3. ASSUME NEW p \in Rams \ ram'.flight PROVE ram'.own[p] \in {None, mem'.r[p]}
    <3>1. p # q /\ p \notin ram.flight /\ ram'.own[p] = b.ram.own[p]
      BY <1>7
    <3>2. ram.own[p] \in {None, mem.r[p]}
      BY <2>1, <3>1 DEF Inv, Bytes
    <3> QED BY <1>8, <3>1, <3>2
  <2>4. ASSUME NEW p \in ram'.flight
        PROVE  (\E d \in mem'.late : d[1] = p) \/ mem'.r[p] = ram'.own[p]
    <3>1. CASE p = q
      <4>1. <<q, k>> \in mem'.late /\ <<q, k>>[1] = q
        BY <1>8
      <4> QED BY <3>1, <4>1
    <3>2. CASE p \in ram.flight
      BY <1>8, <1>13, <3>2 DEF Inv, Bytes
    <3> QED BY <1>7, <3>1, <3>2
  <2> QED BY <2>1, <2>2, <2>3, <2>4 DEF Bytes
<1> QED BY <1>6, <1>9, <1>11, <1>14, <1>15 DEF Inv

\* A guessed expert of the next layer takes a pinned slot.
LEMMA GuessInv ==
  ASSUME Inv, NEW k \in Keys, Guess(k)
  PROVE  Inv'
<1>1. /\ call.at = "idle" /\ place[k] = Nvme /\ UNCHANGED <<policy, vram, call>>
      /\ BookOK(Books, {}) /\ Books.place = place /\ Books.ram = ram
  BY DEF Guess, Idle, Inv, Books
<1>2. CASE /\ Usable # {}
           /\ GuessInto([Books EXCEPT !.ram.free = RemoveAt(@, LastOf(Usable))], k, ram.free[LastOf(Usable)])
  <2> DEFINE i == LastOf(Usable)
             q == ram.free[i]
             f == RemoveAt(ram.free, i)
             b == [Books EXCEPT !.ram.free = f]
  <2>1. ram.free \in Seq(Rams) /\ Lists(ram.free, Rams \ Holders(ram))
    BY BooksFacts DEF Inv, RamType
  <2>2. i \in DOMAIN ram.free
    <3>1. Usable \in SUBSET (1 .. Len(ram.free)) /\ Len(ram.free) \in Nat /\ DOMAIN ram.free = 1 .. Len(ram.free)
      BY <2>1 DEF Usable
    <3>2. LastOf(Usable) \in Usable
      BY <1>2, <3>1, LastOfIn
    <3> QED BY <3>1, <3>2
  <2>3. f \in Seq(Rams) /\ Lists(f, (Rams \ Holders(ram)) \ {q})
    BY <2>1, <2>2, ListsRemoveAt
  <2>4. q \in Rams \ Holders(ram) /\ q \notin ram.flight
    BY <2>1, <2>2, BooksFacts DEF Inv, Lists
  <2>5. GuessInto(b, k, q)
    <3>1. b = [Books EXCEPT !.ram.free = RemoveAt(@, i)]
      BY <1>1 DEF Books
    <3> QED BY <1>2, <3>1
  <2> HIDE DEF q, f, i
  <2>6. /\ BookOK(b, {q}) /\ b.place = place /\ b.ram.own = ram.own /\ b.ram.flight = ram.flight
    BY <1>1, <2>3, <2>4, PopOK
  <2> HIDE DEF b
  <2> QED BY <1>1, <2>4, <2>5, <2>6, GuessIntoInv
<1>3. ASSUME NEW q \in RamVictims(ram, call.ids), GuessInto(Evict(Books, q), k, q)
      PROVE  Inv'
  <2> DEFINE b == Evict(Books, q)
  <2>1. q \in Rams /\ q \in Holders(ram) /\ q \notin ram.flight
    BY VictimsTakeable
  <2>2. /\ BookOK(b, {q}) /\ ram.own[q] \in Keys /\ place[ram.own[q]] = Ram(q)
        /\ b.place = [place EXCEPT ![ram.own[q]] = Nvme]
        /\ b.ram.own = [ram.own EXCEPT ![q] = None] /\ b.ram.flight = ram.flight
    BY <1>1, <2>1, EvictOK
  <2>3. GuessInto(b, k, q)
    BY <1>3
  <2> HIDE DEF b
  <2>4. ram.own \in [Rams -> Keys \cup {None}] /\ place \in [Keys -> Places] /\ ram.flight \subseteq Rams
    BY BooksFacts DEF Inv, RamType
  <2>5. /\ \A p \in Rams : b.ram.own[p] # None => b.ram.own[p] = ram.own[p]
        /\ \A p \in ram.flight : b.ram.own[p] = ram.own[p]
    BY <2>1, <2>2, <2>4
  <2>6. /\ b.place[k] = Nvme
        /\ \A j \in Keys : b.place[j] = place[j] \/ (InRam(place[j]) /\ b.place[j] = Nvme)
    BY <1>1, <2>1, <2>2, <2>4, PlaceFacts
  <2> QED BY <1>1, <2>1, <2>2, <2>3, <2>5, <2>6, GuessIntoInv
<1> QED BY <1>2, <1>3 DEF Guess

\* A reader brings a guessed record in.
LEMMA ReadLandsInv ==
  ASSUME Inv, ReadLands
  PROVE  Inv'
<1>1. PICK d \in mem.late : mem' = [mem EXCEPT !.r[d[1]] = d[2], !.late = @ \ {d}]
  BY DEF ReadLands
<1>2. UNCHANGED <<policy, place, vram, ram, call>>
  BY DEF ReadLands
<1>3. /\ d \in Rams \X Keys /\ d[1] \in ram.flight /\ ram.own[d[1]] = d[2] /\ ram.flight \subseteq Rams
  BY BooksFacts DEF Inv, Types, MemType, LateReadsKeepSlot
<1>4. /\ mem'.late = mem.late \ {d} /\ mem'.v = mem.v /\ mem' \in MemType
      /\ mem'.r = [mem.r EXCEPT ![d[1]] = d[2]] /\ mem.r \in [Rams -> Keys \cup {None}]
  BY <1>1, <1>3 DEF Inv, Types, MemType
<1>5. BookOK(Books, {})'
  BY <1>2, KeepBooks
<1>6. Types' /\ VramSide' /\ Loops' /\ MovesServable' /\ LateReadsKeepSlot'
  BY <1>2, <1>4 DEF Inv, Types, VramSide, Gone, Loops, MovesServable, LateReadsKeepSlot
<1>7. \A q \in Rams \ ram.flight : mem'.r[q] = mem.r[q]
  BY <1>3, <1>4
<1>8. ASSUME NEW q \in ram.flight
      PROVE  (\E x \in mem'.late : x[1] = q) \/ mem'.r[q] = ram.own[q]
  <2>1. CASE q = d[1]
    BY <1>3, <1>4, <2>1
  <2>2. CASE q # d[1]
    <3>1. mem'.r[q] = mem.r[q]
      BY <1>3, <1>4, <2>2
    <3>2. \A x \in mem.late : x[1] = q => x \in mem'.late
      BY <1>4, <2>2
    <3> QED BY <3>1, <3>2 DEF Inv, Bytes
  <2> QED BY <2>1, <2>2
<1>9. Bytes'
  <2>1. CASE Deciding
    BY <1>2, <1>4, <1>7, <1>8, <2>1 DEF Inv, Bytes, Deciding
  <2>2. CASE ~Deciding
    BY <1>2, <1>4, <1>7, <1>8, <2>2 DEF Inv, Bytes, Deciding
  <2> QED BY <2>1, <2>2
<1> QED BY <1>5, <1>6, <1>9 DEF Inv

\* A reset empties the tiers.
LEMMA ResetInv ==
  ASSUME Inv, Reset
  PROVE  Inv'
<1>1. /\ call.at = "idle" /\ mem.late = {} /\ UNCHANGED <<policy, mem>>
      /\ place' = NoPlaces /\ vram' = EmptyVram(vram.off) /\ ram' = EmptyRam /\ call' = NoCall
  BY DEF Reset, Idle
<1>2. /\ place' \in [Keys -> Places] /\ \A k \in Keys : place'[k] = Nvme
  BY <1>1, PlaceFacts DEF NoPlaces
<1>3. BookOK([place |-> NoPlaces, ram |-> EmptyRam], {})
  BY EmptyOK
<1>4. BookOK(Books, {})'
  BY <1>1, <1>3 DEF BookOK, Books
<1>5. vram' \in VramType /\ vram'.own = [s \in Vrams |-> None] /\ vram'.off = vram.off
  BY <1>1 DEF EmptyVram, VramType, Inv, Types
<1>6. call' \in CallType /\ call'.at = "idle"
  BY <1>1, PlaceFacts DEF NoCall, CallType, NoPlaces
<1>7. Types'
  BY <1>1, <1>5, <1>6 DEF Inv, Types
<1>8. VramSide' /\ Loops' /\ MovesServable' /\ LateReadsKeepSlot'
  <2>1. \A k \in Keys, s \in Vrams : place'[k] # Vram(s)
    BY <1>2, PlaceFacts
  <2>2. \A s \in vram'.off : s \in Vrams
    BY <1>5 DEF Inv, Types, VramType
  <2> QED BY <1>1, <1>5, <1>6, <2>1, <2>2 DEF VramSide, Loops, MovesServable, LateReadsKeepSlot
<1>9. Bytes'
  <2>1. ram'.own = [q \in Rams |-> None] /\ ram'.flight = {}
    BY <1>1 DEF EmptyRam
  <2> QED BY <1>5, <1>6, <2>1 DEF Bytes, Deciding
<1> QED BY <1>4, <1>7, <1>8, <1>9 DEF Inv

\* A step that changes nothing.
LEMMA StutterInv ==
  ASSUME Inv, UNCHANGED vars
  PROVE  Inv'
<1>1. UNCHANGED <<policy, place, vram, ram, call, mem>>
  BY DEF vars
<1>2. BookOK(Books, {})'
  BY <1>1, KeepBooks
<1> QED BY <1>1, <1>2 DEF Inv, Types, VramSide, Gone, Loops, MovesServable, LateReadsKeepSlot, Bytes, Deciding

\* Every step keeps the invariant.
LEMMA NextInv ==
  ASSUME Inv, [Next]_vars
  PROVE  Inv'
<1>1. 0 .. Layers - 1 \subseteq Nat /\ Selections \subseteq SUBSET Keys
  BY DEF Selections
<1>2. CASE \E l \in 0 .. Layers - 1, ids \in Selections, admit \in BOOLEAN : BeginCall(l, ids, admit)
  BY <1>1, <1>2, BeginCallInv
<1>3. CASE \E k \in Keys : DropGuess(k)
  BY <1>3, DropGuessInv
<1>4. CASE Route \/ AdmitNext \/ AdmitDone \/ LandNext
  BY <1>4, RouteInv, AdmitNextInv, AdmitDoneInv, LandNextInv
<1>5. CASE \E c \in Chunks : Disable(c) \/ Enable(c)
  BY <1>5, DisableInv, EnableInv
<1>6. CASE OutNext \/ FillNext \/ RefillEnd
  BY <1>6, OutNextInv, FillNextInv, RefillEndInv
<1>7. CASE \E l \in 0 .. Layers - 1, ids \in SUBSET Keys : BeginFill(l, ids)
  BY <1>1, <1>7, BeginFillInv
<1>8. CASE Serve \/ ReadLands \/ Reset
  BY <1>8, ServeInv, ReadLandsInv, ResetInv
<1>9. CASE \E k \in Keys : Guess(k)
  BY <1>9, GuessInv
<1>10. CASE \E l \in 0 .. Layers - 1, ids \in Selections : Mark(l, ids)
  BY <1>1, <1>10, MarkInv
<1>11. CASE UNCHANGED vars
  BY <1>11, StutterInv
<1> QED BY <1>2, <1>3, <1>4, <1>5, <1>6, <1>7, <1>8, <1>9, <1>10, <1>11 DEF Next

(* The books, the moves decided so far and the bytes agree, at any point of any *)
(* call.                                                                        *)
THEOREM Invariance == Spec => []Inv
<1>1. Init => Inv
  BY InitInv
<1>2. Inv /\ [Next]_vars => Inv'
  BY NextInv
<1> QED BY <1>1, <1>2, PTL DEF Spec

\* Every variable keeps its type, under every policy, on arenas of any size.
THEOREM TypeCorrect == Spec => []TypeOK
<1>1. Inv => TypeOK
  BY InvImplies
<1> QED BY <1>1, Invariance, PTL

\* Owners, places, LRU and free list agree after every step of every call
\* (GlobalArena::check), so no expert is in two slots and no slot is lost.
THEOREM BooksConsistent == Spec => []Consistent
<1>1. Inv => Consistent
  BY InvImplies
<1> QED BY <1>1, Invariance, PTL

\* A call's moves are always moves serve_global, write_back and serve_fill can
\* execute, and no call evicts an expert it selected.
THEOREM CallsServable == Spec => []MovesServable
<1>1. Inv => MovesServable
  BY InvImplies
<1> QED BY <1>1, Invariance, PTL

\* The phases A, B, C of serve_global leave every slot with the bytes of the
\* expert the books name there.
THEOREM BytesFollowBooks == Spec => []BytesFollow
<1>1. Inv => BytesFollow
  BY InvImplies
<1> QED BY <1>1, Invariance, PTL

\* A slot is never taken from under a guessed read that can still write it.
THEOREM LateReadsSafe == Spec => []LateReadsKeepSlot
<1>1. Inv => LateReadsKeepSlot
  BY InvImplies
<1> QED BY <1>1, Invariance, PTL
=============================================================================
