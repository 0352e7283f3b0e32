---------------------------- MODULE ColdEngine ----------------------------
(***************************************************************************)
(* What the prefix cache promises (docs/architecture.md 7.5, "The cache    *)
(* never changes the output"): a chat engine that holds nothing between    *)
(* requests.  Every request prefills its whole prompt from an empty        *)
(* engine, so what the first draw reads is a function of the prompt alone. *)
(***************************************************************************)
EXTENDS Integers, Sequences

CONSTANTS
  Ids,       \* token ids
  MaxPrompt, \* longest prompt
  Compress   \* KV rows of one pooled QSA block

VARIABLES
  phase,  \* "idle", "prefill", "draw", "decode"
  prompt, \* the prompt of the request in flight
  view    \* what the first draw of the answer reads; NoView at other times

vars == <<phase, prompt, view>>

Start(s, n) == SubSeq(s, 1, n)

\* the KV rows, pooled blocks, recurrent state and logits row that a prefill
\* of p, and nothing else, leaves
FreshView(p) ==
  [rows   |-> [r \in 1 .. Len(p) |-> Start(p, r)],
   blocks |-> [b \in 1 .. Len(p) \div Compress |-> Start(p, b * Compress)],
   rec    |-> p,
   logits |-> p]

NoView == << >>

Init == phase = "idle" /\ prompt = << >> /\ view = NoView

Accept == /\ phase = "idle"
          /\ phase' = "prefill"
          /\ \E n \in 1 .. MaxPrompt : prompt' \in [1 .. n -> Ids]
          /\ view' = NoView

Prefilled == /\ phase = "prefill"
             /\ phase' = "draw"
             /\ view' = FreshView(prompt)
             /\ UNCHANGED prompt

Answer == /\ phase = "draw"
          /\ phase' = "decode"
          /\ view' = NoView
          /\ UNCHANGED prompt

\* the answer is complete, the client is gone, or the request was dropped
Stop == /\ phase # "idle"
        /\ phase' = "idle"
        /\ prompt' = << >>
        /\ view' = NoView

Next == Accept \/ Prefilled \/ Answer \/ Stop

\* the server works on a request until it is answered
Spec == Init /\ [][Next]_vars /\ WF_vars(Prefilled \/ Stop)

=============================================================================
