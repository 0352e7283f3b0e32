---------------------------- MODULE MCController ----------------------------
(* Controller for TLC: the early reply alone, with the lookahead, with the   *)
(* CPU lane; the former reply with both.                                     *)
EXTENDS Controller

Settings(early) == [early : {early}, la : BOOLEAN, lane : BOOLEAN]
CheckedModes ==
  {m \in Settings(TRUE) : ~(m.la /\ m.lane)} \cup {m \in Settings(FALSE) : m.la /\ m.lane}

=============================================================================
