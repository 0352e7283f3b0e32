------------------------------- MODULE Lend -------------------------------
(* VRAM lending (#117).  While no request runs, a co-resident GPU client may *)
(* borrow the physical memory of the engine's lendable regions; the address  *)
(* ranges stay reserved, so a return maps new, zeroed memory under the same  *)
(* pointers, and the regions that hold MTP weights are uploaded again.  The  *)
(* serve thread is one loop: the automatic return that is due, else one      *)
(* connection, then the engine requests that had to wait.                    *)
(*                                                                           *)
(* Time is counted in seconds that pass at any moment.  What other processes *)
(* hold of the card is one bit: while it is set, the driver may refuse to    *)
(* map any region back.                                                      *)
EXTENDS Integers, Sequences, FiniteSetsExt

CONSTANTS
  Sizes,        \* Sizes[r]: bytes of lendable region r, in allocation order
  Weights,      \* the regions that hold MTP head weights
  Ttls,         \* the ttl_s values a lend may ask for
  Targets,      \* the byte counts a lend may ask for
  MaxRequests   \* bound: engine requests of one behaviour

Regions == DOMAIN Sizes

ASSUME LendAssumption ==
  /\ Sizes \in Seq(Nat \ {0}) /\ Sizes # <<>>
  /\ Weights \subseteq Regions
  /\ Ttls \subseteq Nat \ {0}
  /\ Targets \subseteq Nat \ {0}
  /\ MaxRequests \in Nat

Retry == 1           \* RETRY, in seconds
NoRetry == Retry + 1 \* retry_at is None

VARIABLES
  loop,      \* where the accept loop stands: top, accept, drain, serve, stopped
  gate,      \* LendGate: lent or idle, the seconds to the deadline and to the retry
  mapped,    \* the regions with physical memory under their addresses
  exact,     \* the weight regions that hold their weights
  parked,    \* the engine requests that wait for the return
  arrived,   \* engine requests so far; a request is named by its number
  running,   \* the engine request being served, 0 when none is
  held       \* another process holds memory a return would need

vars == <<loop, gate, mapped, exact, parked, arrived, running, held>>
memory == <<mapped, exact>>

Idle == [lent |-> FALSE, ttl |-> 0, retry |-> NoRetry]

\* What a ttl may have left.
TimesLeft == {0} \cup UNION {0..t : t \in Ttls}

TypeOK ==
  /\ loop \in {"top", "accept", "drain", "serve", "stopped"}
  /\ gate \in [lent : BOOLEAN, ttl : TimesLeft, retry : 0..NoRetry]
  /\ mapped \subseteq Regions /\ exact \subseteq Weights
  /\ arrived \in 0..MaxRequests /\ running \in 0..arrived
  /\ parked \in Seq(1..arrived)
  /\ held \in BOOLEAN

Init ==
  /\ loop = "top" /\ gate = Idle
  /\ mapped = Regions /\ exact = Weights
  /\ parked = <<>> /\ arrived = 0 /\ running = 0
  /\ held \in BOOLEAN

----------------------------------------------------------------------------
(* The gate and the regions. *)

AdmitsEngine == ~gate.lent

\* A mutant: a failed return leaves the deadline in charge and forgets the retry.
DueOnce == gate.lent /\ gate.retry = NoRetry /\ gate.ttl = 0

\* LendGate::due: once a return failed, the retry decides and not the deadline.
Due == gate.lent /\ IF gate.retry # NoRetry THEN gate.retry = 0 ELSE gate.ttl = 0

Bytes(S) == MapThenSumSet(LAMBDA r : Sizes[r], S)

LargerFirst(r, s) == Sizes[r] > Sizes[s] \/ (Sizes[r] = Sizes[s] /\ r < s)

\* lend_release: the mapped regions, largest first, until the target is reached.
Released(target) ==
  {r \in mapped : Bytes({s \in mapped : LargerFirst(s, r)}) < target}

\* A mutant: the weights are not uploaded again.
RemappedUnfilled ==
  /\ mapped' = Regions /\ UNCHANGED exact
  /\ gate' = Idle

\* lend_remap went through: the gate is idle, and mtp_refill uploads the weights.
Remapped ==
  /\ mapped' = Regions /\ exact' = Weights
  /\ gate' = Idle

\* A mutant: a refused return is taken for a return.
RefusedButIdle ==
  /\ held
  /\ \E first \in Regions \ mapped :
       mapped' = mapped \cup {r \in Regions \ mapped : r < first}
  /\ UNCHANGED exact
  /\ gate' = Idle

\* lend_remap was refused at region "first": what was mapped before it stays
\* mapped (zeroed), and the gate stays lent until the retry.
Refused ==
  /\ held
  /\ \E first \in Regions \ mapped :
       mapped' = mapped \cup {r \in Regions \ mapped : r < first}
  /\ UNCHANGED exact
  /\ gate' = [gate EXCEPT !.retry = Retry]

\* vram_return; with nothing lent it answers at once.
VramReturn ==
  \/ ~gate.lent /\ UNCHANGED <<gate, memory>>
  \/ gate.lent /\ (Remapped \/ Refused)

\* vram_lend; 409 while lent.
VramLend(target, ttl) ==
  \/ gate.lent /\ UNCHANGED <<gate, memory>>
  \/ /\ ~gate.lent
     /\ mapped' = mapped \ Released(target)
     /\ exact' = exact \ Released(target)
     /\ gate' = [lent |-> TRUE, ttl |-> ttl, retry |-> NoRetry]

----------------------------------------------------------------------------
(* The accept loop. *)

\* The ttl expired, or a failed return is due again.
ReturnDue ==
  /\ loop = "top" /\ Due
  /\ VramReturn
  /\ loop' = "drain"
  /\ UNCHANGED <<parked, arrived, running, held>>

NothingDue ==
  /\ loop = "top" /\ ~Due
  /\ loop' = "accept"
  /\ UNCHANGED <<gate, memory, parked, arrived, running, held>>

\* While lent, the listener is polled for at most the time left.
WaitOver ==
  /\ loop = "accept" /\ gate.lent
  /\ loop' = "top"
  /\ UNCHANGED <<gate, memory, parked, arrived, running, held>>

\* accept_one, a chat or slot request: parked while lent, else dispatched.
AcceptEngine ==
  /\ loop = "accept" /\ arrived < MaxRequests
  /\ arrived' = arrived + 1
  /\ \/ /\ AdmitsEngine
        /\ loop' = "serve" /\ running' = arrived' /\ UNCHANGED parked
     \/ /\ ~AdmitsEngine
        /\ loop' = "drain" /\ parked' = Append(parked, arrived')
        /\ UNCHANGED running
  /\ UNCHANGED <<gate, memory, held>>

\* accept_one, every other connection (one that cannot be read included).
AcceptOther ==
  /\ loop = "accept"
  /\ \/ \E target \in Targets, ttl \in Ttls : VramLend(target, ttl)
     \/ VramReturn
     \/ UNCHANGED <<gate, memory>>
  /\ loop' = "drain"
  /\ UNCHANGED <<parked, arrived, running, held>>

\* The dispatched engine request ends.
ServeDone ==
  /\ loop = "serve"
  /\ running' = 0 /\ loop' = "drain"
  /\ UNCHANGED <<gate, memory, parked, arrived, held>>

\* A mutant: one parked request per turn of the loop.
DrainOne ==
  /\ loop = "drain"
  /\ \/ /\ parked # <<>> /\ AdmitsEngine /\ running = 0
        /\ running' = Head(parked) /\ parked' = Tail(parked) /\ loop' = "serve"
     \/ loop' = "top" /\ UNCHANGED <<parked, running>>
  /\ UNCHANGED <<gate, memory, arrived, held>>

\* drain_parked: the requests that wait, oldest first, once the gate admits them.
DrainParked ==
  /\ loop = "drain"
  /\ \/ /\ parked # <<>> /\ AdmitsEngine
        /\ running' = Head(parked) /\ parked' = Tail(parked) /\ loop' = "serve"
     \/ /\ parked = <<>> \/ ~AdmitsEngine
        /\ loop' = "top" /\ UNCHANGED <<parked, running>>
  /\ UNCHANGED <<gate, memory, arrived, held>>

\* The watcher shut the listener: parked requests are closed unanswered.
Shutdown ==
  /\ loop = "accept"
  /\ loop' = "stopped" /\ parked' = <<>>
  /\ UNCHANGED <<gate, memory, arrived, running, held>>

----------------------------------------------------------------------------
(* The clock and the other processes on the card. *)

\* A second passes; what is left of the ttl and of the retry stops at zero.
Second ==
  /\ gate.lent
  /\ gate' = [gate EXCEPT !.ttl = Max({@ - 1, 0}),
                          !.retry = IF @ = NoRetry THEN @ ELSE Max({@ - 1, 0})]
  /\ gate' # gate
  /\ UNCHANGED <<loop, memory, parked, arrived, running, held>>

OthersHold ==
  /\ held' = ~held
  /\ UNCHANGED <<loop, gate, memory, parked, arrived, running>>

Serve == ReturnDue \/ NothingDue \/ WaitOver \/ ServeDone \/ DrainParked

Next ==
  \/ Serve \/ AcceptEngine \/ AcceptOther \/ Shutdown
  \/ Second \/ OthersHold

Spec == Init /\ [][Next]_vars

\* The loop keeps running and time passes.  Clients, the shutdown and the other
\* processes on the card owe nothing.
FairSpec == Spec /\ WF_vars(Serve) /\ WF_vars(Second)

----------------------------------------------------------------------------
(* An engine request only ever runs on memory that is there and holds what   *)
(* it held at boot: every region mapped, every MTP weight uploaded again.    *)
(* The lend's SAFETY comment rests on the parking (bin/serve.rs).            *)
EngineMemoryReady ==
  running # 0 => mapped = Regions /\ exact = Weights

(* The gate never loses track of memory that is still away, nor waits for    *)
(* memory that is all back: it is lent exactly while a region is unmapped,   *)
(* refused and half-finished returns included.                               *)
GateKnowsMemory ==
  gate.lent <=> mapped # Regions

(* The gate stands for the memory, and its times stay times, however long a  *)
(* request held the loop past them.                                          *)
GateSound == TypeOK /\ GateKnowsMemory

(* First come, first served: no engine request starts while one that arrived *)
(* before it still waits, whoever brought the memory back (client, deadline  *)
(* or retry).                                                                *)
NobodyOvertakes ==
  [][running' \notin {0, running} =>
       \A i \in 1..Len(parked) : parked[i] >= running']_vars

(* Once other processes leave the card alone, every parked request is served *)
(* - with no client ever returning the memory - unless serve is shut down.   *)
ParkedServed ==
  <>[]~held =>
    \A i \in 1..MaxRequests :
      (\E k \in 1..Len(parked) : parked[k] = i) ~> (running = i \/ loop = "stopped")

=============================================================================
