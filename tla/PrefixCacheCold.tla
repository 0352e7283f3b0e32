-------------------------- MODULE PrefixCacheCold --------------------------
(***************************************************************************)
(* The prefix cache implements an engine without one: PrefixCache refines  *)
(* ColdEngine, and every request ends.                                     *)
(***************************************************************************)
EXTENDS PrefixCache

\* what the first draw reads: the rows and blocks below pos, the recurrent
\* state the first decode step continues, the logits row
DrawView ==
  IF pc = "draw"
  THEN [rows   |-> [r \in 1 .. pos |-> kv[r - 1]],
        blocks |-> [b \in 1 .. done |-> pooled[b - 1]],
        rec    |-> rec,
        logits |-> logits]
  ELSE << >>

Cold == INSTANCE ColdEngine WITH phase <- pc, prompt <- req, view <- DrawView

\* the server's one thread runs the request in flight to its end: no step of
\* it waits for another actor (a gone client is one more way to finish)
Serve ==
  \/ PrefillChunk
  \/ PrefillNothing
  \/ \E id \in Ids : DecodeStep(id)
  \/ /\ Drafts > 0
     /\ \E fed \in Fed, rows \in 1 .. Drafts + 1 : SpecPass(fed, rows)
  \/ Finish

FairSpec == Spec /\ WF_vars(Serve)

\* "The cache never changes the output" (docs/architecture.md 7.5): whatever
\* was held, parked, rolled back or stopped before, the first draw of every
\* request reads exactly what a prefill of its whole prompt would leave, and
\* every accepted request is answered or dropped.
ServesAsCold == Cold!Spec

=============================================================================
