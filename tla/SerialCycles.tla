----------------------------- MODULE SerialCycles -----------------------------
(***************************************************************************)
(* What the scheduler's lease and the unique cycle key promise together:   *)
(* one trading cycle at a time, and each observation window at most once,  *)
(* however many workers run by accident and however often they restart.    *)
(***************************************************************************)
CONSTANTS Workers, Windows

VARIABLES
  active,  \* the workers that execute a cycle
  begun    \* the windows whose cycle has begun

vars == <<active, begun>>

Init == active = {} /\ begun = {}

Start(w, window) ==
  /\ active = {} /\ window \notin begun
  /\ active' = {w}
  /\ begun' = begun \union {window}

\* The cycle is over, or its worker is dead.
Stop(w) == active = {w} /\ active' = {} /\ UNCHANGED begun

Next == \E w \in Workers : Stop(w) \/ \E window \in Windows : Start(w, window)

Spec == Init /\ [][Next]_vars
=============================================================================
