------------------------------ MODULE KillSwitch ------------------------------
(***************************************************************************)
(* What the operational kill switch promises: an armed switch stays armed  *)
(* until the clear that the operator asked for, and no entry is made while *)
(* it is armed.                                                            *)
(***************************************************************************)
EXTENDS Naturals

VARIABLES
  armed,     \* the switch
  clearing,  \* the operator has asked for a clear that is not decided yet
  entries    \* entries made so far

vars == <<armed, clearing, entries>>

Init == armed = FALSE /\ clearing = FALSE /\ entries = 0

Arm   == armed' = TRUE /\ UNCHANGED <<clearing, entries>>
Enter == ~armed /\ entries' = entries + 1 /\ UNCHANGED <<armed, clearing>>

Ask    == armed /\ clearing' = TRUE /\ UNCHANGED <<armed, entries>>
Refuse == clearing' = FALSE /\ UNCHANGED <<armed, entries>>
Disarm == clearing /\ armed' = FALSE /\ clearing' = FALSE /\ UNCHANGED entries

Next == Arm \/ Enter \/ Ask \/ Refuse \/ Disarm

Spec == Init /\ [][Next]_vars
=============================================================================
