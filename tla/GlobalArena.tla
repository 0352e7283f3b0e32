---------------------------- MODULE GlobalArena ----------------------------
(* The books of the global expert arena (glm5_tiers.rs, GlobalArena): which  *)
(* slot holds which expert, the CLOCK over the VRAM ring, the LRU over the   *)
(* pinned slots, guessed reads in flight, elastic chunks that leave and come *)
(* back.  One call of the code is a run of steps here, one per expert it     *)
(* decides about; the call record says where the run stands.  At its end     *)
(* Serve moves the bytes, in the phases serve_global runs.                   *)
(*                                                                           *)
(* The decayed counts of the frequency tiers are not modelled: where the     *)
(* code compares two counts, either answer is a step.                        *)
EXTENDS ArenaMoves

CONSTANTS
  Picks,      \* most experts one call selects
  Policies,   \* the switches a boot may have: see PolicySet
  Chunks      \* elastic chunks: sets of VRAM slots handed back together

PolicySet == {"clock", "pin_stay", "noadmit", "freq", "unified"}

ASSUME GlobalArenaAssumption ==
  /\ Picks \in Nat \ {0}
  /\ Policies \subseteq PolicySet
  /\ Chunks \subseteq SUBSET Vrams

VARIABLES
  policy,     \* CROW_GLM_ARENA_FREQ, CROW_GLM_TIERS, pin_stay, noadmit
  place,      \* place: key -> where its record lies
  vram,       \* vowner, refb, slots pinned by the call, disabled slots, hand, fresh
  ram,        \* rowner, the LRU oldest first, rfree, rflight, rpf, rfreed
  call,       \* the call being decided and its places before
  mem         \* the bytes in every slot, guessed reads not yet landed

vars == <<policy, place, vram, ram, call, mem>>

Freq == policy \in {"freq", "unified"}

-----------------------------------------------------------------------------
(* The pinned tier.                                                          *)

Least(S) == CHOOSE x \in S : \A y \in S : x <= y

IndexOf(s, x) == CHOOSE i \in DOMAIN s : s[i] = x

\* ram_unlink, then the slot is the caller's.
Unlink(r, q) == [r EXCEPT !.lru = RemoveAt(@, IndexOf(@, q))]

\* Wrong: an admitted expert's slot freed but left on the LRU.
ReleaseLinked(r, q) ==
  [r EXCEPT !.own[q] = None, !.free = Append(@, q),
            !.freed = @ \cup {q}, !.guess = @ \ {q}]

\* The slot of an expert admitted into VRAM: free again, freed by this call.
\* (The code leaves rpf alone in step and clears it in fill; here it was
\* cleared when the call selected the expert.)
Release(r, q) ==
  [Unlink(r, q) EXCEPT !.own[q] = None, !.free = Append(@, q),
                       !.freed = @ \cup {q}, !.guess = @ \ {q}]

\* ram_touch
Touch(r, q) == [r EXCEPT !.lru = Append(RemoveAt(@, IndexOf(@, q)), q)]

Holders(r) == {q \in Rams : r.own[q] # None}

\* Wrong: the routed experts of the call not protected.
TakeableRouted(r, routed) == Holders(r) \ r.flight

\* Wrong: a slot whose read is in flight taken.
TakeableInFlight(r, routed) == {q \in Holders(r) : r.own[q] \notin routed}

\* A slot a victim may be taken from: its expert is not routed in this call and
\* no read is in flight into it.
Takeable(r, routed) == {q \in Holders(r) \ r.flight : r.own[q] \notin routed}

\* ram_victim: the oldest such slot; under the frequency tiers the one of the
\* lowest count.
RamVictims(r, routed) ==
  IF Freq
    THEN Takeable(r, routed)
    ELSE {q \in Takeable(r, routed) :
            \A p \in Takeable(r, routed) : IndexOf(r.lru, q) <= IndexOf(r.lru, p)}

\* ram_evict: the expert of slot q drops to the NVMe.
Evict(b, q) ==
  [place |-> [b.place EXCEPT ![b.ram.own[q]] = Nvme],
   ram   |-> [Unlink(b.ram, q) EXCEPT !.own[q] = None, !.guess = @ \ {q}]]

\* Expert k into the slot q nobody holds, as the most recent.
Enter(b, k, q) ==
  [place |-> [b.place EXCEPT ![k] = Ram(q)],
   ram   |-> [b.ram EXCEPT !.own[q] = k, !.lru = Append(@, q)]]

\* ram_insert: k into a free slot, else into the victim's, else nowhere.
RamInsert(b, k, routed) ==
  IF b.ram.free # <<>>
    THEN {Enter([b EXCEPT !.ram.free = Front(@)], k, Last(b.ram.free))}
    ELSE IF RamVictims(b.ram, routed) = {}
           THEN {b}
           ELSE {Enter(Evict(b, q), k, q) : q \in RamVictims(b.ram, routed)}

\* The pinned tier's admission rule of the unified tiers: with no slot free, a
\* count not above the lowest pinned one stays out.
Refused(b, routed) ==
  policy = "unified" /\ b.ram.free = <<>> /\ RamVictims(b.ram, routed) # {}

\* demote: a VRAM victim is written back, or dropped.
Demote(b, k, routed) ==
  RamInsert(b, k, routed) \cup (IF Refused(b, routed) THEN {b} ELSE {})

Books == [place |-> place, ram |-> ram]

-----------------------------------------------------------------------------
(* The VRAM tier.                                                            *)

\* Steps from the hand to slot s, and where the hand goes from s.
Ahead(s)  == IF s >= vram.hand THEN s - vram.hand ELSE s - vram.hand + VSlots
Beyond(s) == IF s + 1 = VSlots THEN 0 ELSE s + 1

\* Slots CLOCK may stop at: not pinned by this call, not disabled.
Unpinned == Vrams \ (vram.pin \cup vram.off)

\* victim: the first clear slot from the hand on; when every one is set, the
\* first lap clears them all and the second stops at the first.
ClockStop ==
  LET clear == {s \in Unpinned : s \notin vram.ref}
      from  == IF clear # {} THEN clear ELSE Unpinned
  IN  CHOOSE s \in from : \A t \in from : Ahead(s) <= Ahead(t)

\* The reference bits after the hand has passed.
Passed(s) ==
  IF s \in vram.ref
    THEN vram.ref \ Unpinned
    ELSE vram.ref \ {t \in Unpinned : Ahead(t) < Ahead(s)}

\* freq_slot: an empty enabled slot, else the lowest count's when k beats it.
FreqSlots ==
  LET empty == {s \in Unpinned : vram.own[s] = None}
  IN  IF empty # {} THEN {Least(empty)} ELSE Unpinned

\* Expert k into VRAM slot s, its pinned copy freed, the slot's expert demoted.
Admitted(k, s, refs, hand) ==
  LET v == vram.own[s]
      b == [place |-> [place EXCEPT ![k] = Vram(s)],
            ram   |-> IF InRam(place[k]) THEN Release(ram, place[k].slot) ELSE ram]
      out == [b EXCEPT !.place[v] = Nvme]
  IN  /\ vram' = [vram EXCEPT !.own[s] = k, !.ref = refs \cup {s},
                              !.pin = @ \cup {s}, !.hand = hand]
      /\ \E o \in IF v = None THEN {b} ELSE Demote(out, v, call.ids) :
           place' = o.place /\ ram' = o.ram

-----------------------------------------------------------------------------
(* A call of a layer: the stale guesses trimmed, the step, the moves.        *)

Idle == call.at = "idle"

\* harvest: the guessed reads that are done are landed for the books.
Harvested == [ram EXCEPT !.flight = @ \cap {d[1] : d \in mem.late}]

\* A call harvests and enters with the distinct experts it selected; admit is
\* arena_admits (few enough picks, not a prompt call).
BeginCall(l, ids, admit) ==
  /\ Idle /\ ids # {} /\ ids \subseteq KeysOf(l)
  /\ call' = [at |-> "trim", layer |-> l, ids |-> ids, admit |-> admit, todo |-> {}, before |-> NoPlaces]
  /\ ram' = Harvested
  /\ UNCHANGED <<policy, place, vram, mem>>

\* drop_stale_guesses and prefetch_cancel: a guessed read of this layer no
\* reader has started, of an expert the call did not select.
DropGuess(k) ==
  LET q == place[k].slot IN
  /\ call.at = "trim" /\ k \in KeysOf(call.layer) \ call.ids
  /\ InRam(place[k]) /\ q \in ram.flight /\ q \in ram.guess
  /\ <<q, k>> \in mem.late
  /\ mem' = [mem EXCEPT !.late = @ \ {<<q, k>>}]
  /\ place' = [place EXCEPT ![k] = Nvme]
  /\ ram' = [Unlink(ram, q) EXCEPT !.own[q] = None, !.free = Append(@, q),
                                   !.flight = @ \ {q}, !.guess = @ \ {q}]
  /\ UNCHANGED <<policy, vram, call>>

\* step's first loop: the hits get their reference bit and are pinned for the
\* call, the routed experts are protected, a guess the call uses is none.
Route ==
  LET hits   == {place[k].slot : k \in {x \in call.ids : InVram(place[x])}}
      held   == {place[k].slot : k \in {x \in call.ids : InRam(place[x])}}
      misses == {k \in call.ids : ~InVram(place[k])}
  IN /\ call.at = "trim"
     /\ vram' = [vram EXCEPT !.ref = @ \cup hits, !.pin = hits]
     /\ ram' = [ram EXCEPT !.guess = @ \ held, !.freed = {}]
     /\ call' = [call EXCEPT !.at = IF call.admit /\ VSlots > 0 THEN "admit" ELSE "land",
                             !.todo = misses, !.before = place]
     /\ UNCHANGED <<policy, place, mem>>

\* A miss that is not admitted: its read is in flight (the call reads it where
\* it lands), or a switch keeps it where it lies.
StaysOut(k) ==
  \/ InRam(place[k]) /\ place[k].slot \in ram.flight
  \/ policy = "pin_stay" /\ InRam(place[k])
  \/ policy = "noadmit" /\ place[k] = Nvme

Misses == {k \in call.ids : k \notin {x \in call.ids : InVram(call.before[x])}}

\* One turn of the admission loop.
AdmitNext ==
  LET k == Least(call.todo)
      next == [call EXCEPT !.todo = @ \ {k}]
  IN /\ call.at = "admit" /\ call.todo # {}
     /\ \/ /\ StaysOut(k)
           /\ call' = next /\ UNCHANGED <<place, vram, ram>>
        \/ /\ ~StaysOut(k) /\ ~Freq /\ Unpinned # {}
           /\ Admitted(k, ClockStop, Passed(ClockStop), Beyond(ClockStop))
           /\ call' = next
        \/ /\ ~StaysOut(k) /\ ~Freq /\ Unpinned = {}          \* no victim: admission stops
           /\ call' = [call EXCEPT !.todo = {}] /\ UNCHANGED <<place, vram, ram>>
        \/ /\ ~StaysOut(k) /\ Freq
           /\ \E s \in FreqSlots : Admitted(k, s, vram.ref, vram.hand)
           /\ call' = next
        \/ /\ ~StaysOut(k) /\ Freq /\ \A s \in FreqSlots : vram.own[s] # None
           /\ call' = next /\ UNCHANGED <<place, vram, ram>>  \* k does not beat the lowest count
     /\ UNCHANGED <<policy, mem>>

AdmitDone ==
  /\ call.at = "admit" /\ call.todo = {}
  /\ call' = [call EXCEPT !.at = "land", !.todo = Misses]
  /\ UNCHANGED <<policy, place, vram, ram, mem>>

\* One turn of the landing loop: a pinned miss is touched, an NVMe one enters
\* pinned (or is staged, when no slot or no count lets it in).
LandNext ==
  LET k == Least(call.todo) IN
  /\ call.at = "land" /\ call.todo # {}
  /\ call' = [call EXCEPT !.todo = @ \ {k}]
  /\ \/ InVram(place[k]) /\ UNCHANGED <<place, ram>>
     \/ /\ InRam(place[k])
        /\ ram' = Touch(ram, place[k].slot) /\ UNCHANGED place
     \/ /\ place[k] = Nvme
        /\ \E o \in IF call.admit THEN Demote(Books, k, call.ids) ELSE RamInsert(Books, k, call.ids) :
             place' = o.place /\ ram' = o.ram
  /\ UNCHANGED <<policy, vram, mem>>

-----------------------------------------------------------------------------
(* Elastic chunks: handed back before a prompt, brought back after it.       *)

\* disable, the slots: owners out, never a victim from now on.
Disable(c) ==
  /\ Idle /\ c \in Chunks /\ c \cap vram.off = {}
  /\ vram' = [vram EXCEPT !.own = [s \in Vrams |-> IF s \in c THEN None ELSE @[s]],
                          !.ref = @ \ c, !.off = @ \cup c]
  /\ ram' = [ram EXCEPT !.freed = {}]
  /\ call' = [call EXCEPT !.at = "out", !.ids = {}, !.before = place,
                          !.todo = {k \in Keys : InVram(place[k]) /\ place[k].slot \in c}]
  /\ UNCHANGED <<policy, place, mem>>

\* disable, one expert written out (slot order; score order when unified).
OutNext ==
  /\ call.at = "out"
  /\ \E k \in call.todo :
       /\ \E o \in Demote([Books EXCEPT !.place[k] = Nvme], k, {}) : place' = o.place /\ ram' = o.ram
       /\ call' = [call EXCEPT !.todo = @ \ {k}]
  /\ UNCHANGED <<policy, vram, mem>>

\* enable, add_slots: the chunk's slots back, empty.
Enable(c) ==
  /\ Idle /\ c \in Chunks /\ c \subseteq vram.off
  /\ vram' = [vram EXCEPT !.off = @ \ c, !.ref = @ \ c, !.fresh = @ \cup c]
  /\ UNCHANGED <<policy, place, ram, call, mem>>

Room == {s \in vram.fresh : vram.own[s] = None /\ s \notin vram.off}

\* elastic_refill: every guessed read drained, then fill of a layer with
\* experts refill_plan chose (none in VRAM, no more than there is room for: a
\* fill that ran out of slots would stop here, with its todo not empty).
BeginFill(l, ids) ==
  /\ Idle /\ vram.fresh # {} /\ mem.late = {}
  /\ ids # {} /\ ids \subseteq KeysOf(l) /\ Cardinality(ids) <= Cardinality(Room)
  /\ \A k \in ids : ~InVram(place[k])
  /\ ram' = [ram EXCEPT !.flight = {}, !.freed = {}]
  /\ call' = [call EXCEPT !.at = "fill", !.layer = l, !.ids = {}, !.todo = ids, !.before = place]
  /\ UNCHANGED <<policy, place, vram, mem>>

FillNext ==
  LET k == Least(call.todo)
      s == Least(Room)
  IN /\ call.at = "fill" /\ call.todo # {} /\ Room # {}
     /\ vram' = [vram EXCEPT !.own[s] = k, !.ref = @ \cup {s}, !.pin = @ \cup {s},
                             !.fresh = {t \in @ : t > s}]
     /\ place' = [place EXCEPT ![k] = Vram(s)]
     /\ ram' = IF InRam(place[k]) THEN Release(ram, place[k].slot) ELSE ram
     /\ call' = [call EXCEPT !.todo = @ \ {k}]
     /\ UNCHANGED <<policy, mem>>

\* refill_end
RefillEnd ==
  /\ Idle /\ vram.fresh # {}
  /\ vram' = [vram EXCEPT !.fresh = {}]
  /\ UNCHANGED <<policy, place, ram, call, mem>>

-----------------------------------------------------------------------------
(* The moves.                                                                *)

\* The bytes staged for a key before anything is overwritten (phase A).
Staged(k) ==
  LET p == call.before[k]
  IN  CASE InVram(p) -> mem.v[p.slot] [] InRam(p) -> mem.r[p.slot] [] OTHER -> k

Moved == {k \in Keys : place[k] # call.before[k]}
At(p) == {k \in Moved : place[k] = p}
The(S) == CHOOSE x \in S : TRUE

\* serve_global, serve_fill, write_back: phase A stages the entrants, phase B
\* fills pinned slots from the victims' VRAM slots and from the NVMe, phase C
\* puts the entrants into their VRAM slots.  What lies in a slot nobody holds is
\* nobody's (None): a reader of it would be wrong whatever it is.
VramAfter ==
  [s \in Vrams |-> IF vram.own[s] = None THEN None
                   ELSE IF At(Vram(s)) = {} THEN mem.v[s] ELSE Staged(The(At(Vram(s))))]

\* Wrong: the entrants put into VRAM before the victims were copied out of it.
RamAfterEntrants ==
  [q \in Rams |->
     IF ram.own[q] = None THEN None
     ELSE IF At(Ram(q)) = {} THEN mem.r[q]
     ELSE LET p == call.before[The(At(Ram(q)))]
          IN  IF InVram(p) THEN VramAfter[p.slot] ELSE Staged(The(At(Ram(q))))]

RamAfter ==
  [q \in Rams |-> IF ram.own[q] = None THEN None
                  ELSE IF At(Ram(q)) = {} THEN mem.r[q] ELSE Staged(The(At(Ram(q))))]

Serve ==
  /\ call.at \in {"land", "out", "fill"} /\ call.todo = {}
  /\ mem' = [mem EXCEPT !.r = RamAfter, !.v = VramAfter]
  /\ call' = [call EXCEPT !.at = "idle", !.admit = FALSE, !.before = NoPlaces]
  /\ vram' = [vram EXCEPT !.pin = {}]                 \* the pins end with their epoch
  /\ UNCHANGED <<policy, place, ram>>

-----------------------------------------------------------------------------
(* Guessed reads, prompt calls, reset.                                       *)

Usable == {i \in DOMAIN ram.free : ram.free[i] \notin ram.freed}
LastOf(S) == CHOOSE i \in S : \A j \in S : j <= i

\* Expert k into slot q at the old end, its read in flight.
GuessInto(b, k, q) ==
  /\ place' = [b.place EXCEPT ![k] = Ram(q)]
  /\ ram' = [b.ram EXCEPT !.own[q] = k, !.lru = Cons(q, @),
                          !.flight = @ \cup {q}, !.guess = @ \cup {q}]
  /\ mem' = [mem EXCEPT !.late = @ \cup {<<q, k>>}]

\* guess_reads, prefetch_admit: a guessed expert of the next layer, on the NVMe,
\* into a free slot this call did not free (the call's copy still reads it), else
\* into the victim's, at the old end of the LRU.
Guess(k) ==
  /\ Idle /\ k \in KeysOf(call.layer + 1) /\ place[k] = Nvme
  /\ \/ /\ Usable # {}
        /\ GuessInto([Books EXCEPT !.ram.free = RemoveAt(@, LastOf(Usable))], k, ram.free[LastOf(Usable)])
     \/ /\ Usable = {}
        /\ \E q \in RamVictims(ram, call.ids) : GuessInto(Evict(Books, q), k, q)
  /\ UNCHANGED <<policy, vram, call>>

\* A reader brings a guessed record in.
ReadLands ==
  /\ \E d \in mem.late : mem' = [mem EXCEPT !.r[d[1]] = d[2], !.late = @ \ {d}]
  /\ UNCHANGED <<policy, place, vram, ram, call>>

\* mark: a prompt call sets reference bits and moves nothing.
Mark(l, ids) ==
  /\ Idle /\ ids # {} /\ ids \subseteq KeysOf(l)
  /\ vram' = [vram EXCEPT !.ref = @ \cup {place[k].slot : k \in {x \in ids : InVram(place[x])}}]
  /\ call' = [call EXCEPT !.layer = l]
  /\ UNCHANGED <<policy, place, ram, mem>>

\* Wrong: the free list one slot too far.
EmptyRamPast == [own |-> [q \in Rams |-> None], lru |-> <<>>,
                 free |-> [i \in 1 .. RSlots |-> RSlots + 1 - i],
                 flight |-> {}, guess |-> {}, freed |-> {}]
EmptyRam == [own |-> [q \in Rams |-> None], lru |-> <<>>,
             free |-> [i \in 1 .. RSlots |-> RSlots - i],
             flight |-> {}, guess |-> {}, freed |-> {}]
EmptyVram(off) == [own |-> [s \in Vrams |-> None], ref |-> {}, pin |-> {},
                   off |-> off, hand |-> 0, fresh |-> {}]
NoCall == [at |-> "idle", layer |-> 0, ids |-> {}, admit |-> FALSE, todo |-> {},
           before |-> NoPlaces]

\* reset: empty again, the disabled slots stay disabled (the stager drained).
Reset ==
  /\ Idle /\ mem.late = {}
  /\ place' = NoPlaces
  /\ vram' = EmptyVram(vram.off) /\ ram' = EmptyRam /\ call' = NoCall
  /\ UNCHANGED <<policy, mem>>

Init ==
  /\ policy \in Policies
  /\ place = NoPlaces
  /\ vram = EmptyVram({}) /\ ram = EmptyRam /\ call = NoCall
  /\ mem = [v |-> [s \in Vrams |-> None], r |-> [q \in Rams |-> None], late |-> {}]

Selections == {S \in SUBSET Keys : Cardinality(S) <= Picks}

Next ==
  \/ \E l \in 0 .. Layers - 1, ids \in Selections, admit \in BOOLEAN : BeginCall(l, ids, admit)
  \/ \E k \in Keys : DropGuess(k)
  \/ Route \/ AdmitNext \/ AdmitDone \/ LandNext
  \/ \E c \in Chunks : Disable(c) \/ Enable(c)
  \/ OutNext \/ FillNext \/ RefillEnd
  \/ \E l \in 0 .. Layers - 1, ids \in SUBSET Keys : BeginFill(l, ids)
  \/ Serve
  \/ \E k \in Keys : Guess(k)
  \/ ReadLands
  \/ \E l \in 0 .. Layers - 1, ids \in Selections : Mark(l, ids)
  \/ Reset

Spec == Init /\ [][Next]_vars

-----------------------------------------------------------------------------
(* Properties.                                                               *)

\* The sequence s lists the members of S, each once.
Lists(s, S) ==
  /\ \A i \in DOMAIN s : s[i] \in S
  /\ \A x \in S : \E i \in DOMAIN s : s[i] = x
  /\ \A i, j \in DOMAIN s : s[i] = s[j] => i = j

RamType == [own : [Rams -> Keys \cup {None}], lru : Seq(Rams), free : Seq(Rams),
            flight : SUBSET Rams, guess : SUBSET Rams, freed : SUBSET Rams]

VramType == [own : [Vrams -> Keys \cup {None}], ref : SUBSET Vrams, pin : SUBSET Vrams,
             off : SUBSET Vrams, hand : Nat, fresh : SUBSET Vrams]
CallType == [at : {"idle", "trim", "admit", "land", "out", "fill"}, layer : Nat,
             ids : SUBSET Keys, admit : BOOLEAN, todo : SUBSET Keys, before : [Keys -> Places]]
MemType  == [v : [Vrams -> Keys \cup {None}], r : [Rams -> Keys \cup {None}],
             late : SUBSET (Rams \X Keys)]

\* Every variable has its type.
TypeOK ==
  /\ policy \in Policies /\ place \in [Keys -> Places]
  /\ vram \in VramType /\ ram \in RamType /\ call \in CallType /\ mem \in MemType

\* What GlobalArena::check tests, after every step of every call and not only
\* where the tests call it: owners and places agree, so no expert is in two
\* slots; the LRU lists exactly the pinned experts and the free list the other
\* slots; a slot in flight or guessed holds an expert; a disabled slot none.
OwnersAgree ==
  /\ \A s \in Vrams : vram.own[s] # None => place[vram.own[s]] = Vram(s)
  /\ \A q \in Rams : ram.own[q] # None => place[ram.own[q]] = Ram(q)
  /\ \A k \in Keys : /\ \A q \in Rams : place[k] = Ram(q) => ram.own[q] = k
                     /\ \A s \in Vrams : place[k] = Vram(s) =>
                          vram.own[s] = k \/ (call.at = "out" /\ k \in call.todo)

ListsAgree ==
  /\ Lists(ram.lru, Holders(ram))
  /\ Lists(ram.free, Rams \ Holders(ram))
  /\ ram.flight \cup ram.guess \subseteq Holders(ram)

Consistent == OwnersAgree /\ ListsAgree /\ \A s \in vram.off : vram.own[s] = None

\* While a call is decided, what it has moved so far is a move serve_global has
\* a copy for: its errors ("moved between pinned slots", "reads expert of
\* another layer from the NVMe", an entrant that is not in VRAM) never happen,
\* and no expert the call selected is evicted by the call itself.
MovesServable ==
  /\ call.at \in {"admit", "land"} => ServableMoves(call.before, place, call.ids)
  /\ call.at = "out" => ServableMoves(call.before, place, {})
  /\ call.at = "fill" =>
       \A k \in Keys : place[k] = call.before[k] \/ (InVram(place[k]) /\ ~InVram(call.before[k]))

\* Between calls every slot holds the bytes of the expert the books name there
\* (a pinned slot whose guessed read is still marked in flight: once it lands).
BytesFollow ==
  Idle => /\ \A s \in Vrams : vram.own[s] \in {None, mem.v[s]}
          /\ \A q \in Rams \ ram.flight : ram.own[q] \in {None, mem.r[q]}

\* A guessed read that can still write a pinned slot finds it kept for its
\* expert: the slot is neither evicted, admitted nor freed under it.
LateReadsKeepSlot ==
  \A d \in mem.late : ram.own[d[1]] = d[2] /\ d[1] \in ram.flight
=============================================================================
