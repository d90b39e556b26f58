--------------------------- MODULE OperationalState ---------------------------
(***************************************************************************)
(* The operational state of the agent: the append-only system_state rows   *)
(* of which the newest carries the kill switch, and the three programs     *)
(* that append to them.  The scheduler's cycle reads the switch before it  *)
(* submits its entry and writes it back when it completes; the operator    *)
(* arms it (kill-switch on) or clears it behind a guard (kill-switch off). *)
(* Each of them reads and writes in transactions of their own.             *)
(*                                                                         *)
(* What the cycle does to orders is OrderLifecycle's; here reconciliation  *)
(* comes out clean or not, and the guard's comparisons with the broker     *)
(* succeed or not.                                                         *)
(***************************************************************************)
EXTENDS Naturals

CONSTANTS
  MaxCycles,   \* bound: cycles in a behaviour
  MaxCommands  \* bound: operator commands in a behaviour

ASSUME ConstantsAssumption ==
  MaxCycles \in Nat /\ MaxCommands \in Nat

VARIABLES
  turns,     \* whether the operator waits for cycles and commands to end
  row,       \* the newest system_state row
  passport,  \* whether the newest Passport lists incidents
  cycle,     \* the running cycle: where it is and what it has read
  on,        \* the operator's kill-switch on
  clear,     \* the operator's guarded clear
  entries,   \* entries submitted so far
  used,      \* cycles and commands spent
  history    \* what happened since: a failed cycle latched the switch, and no
             \* clear since; a clean cycle completed after the last failure

vars == <<turns, row, passport, cycle, on, clear, entries, used, history>>

Incidents == {"none", "unclean", "exception", "manual", "cleared"}
CyclePcs  == {"idle", "working", "decided", "completed", "failing", "failed"}
ClearPcs  == {"idle", "state", "passport", "compared", "read"}

IdleCycle == [pc |-> "idle", kill |-> FALSE, clean |-> FALSE, entered |-> FALSE]

Init ==
  /\ turns \in BOOLEAN
  /\ row = [kill |-> FALSE, clean |-> TRUE, incident |-> "none"]
  /\ passport = FALSE
  /\ cycle = IdleCycle
  /\ on = [pc |-> "idle", clean |-> FALSE]
  /\ clear = [pc |-> "idle", clean |-> FALSE]
  /\ entries = 0
  /\ used = [cycles |-> 0, commands |-> 0]
  /\ history = [latched |-> FALSE, cleaned |-> TRUE]

\* What each of the three programs writes.
Rows == {r \in [kill : BOOLEAN, clean : BOOLEAN, incident : Incidents] :
           /\ r.incident = "none" => r.clean
           /\ r.incident = "unclean" => ~r.clean
           /\ r.incident = "exception" => r.kill /\ ~r.clean
           /\ r.incident = "manual" => r.kill
           /\ r.incident = "cleared" => ~r.kill}

\* append_system_state.
AppendRow(kill, clean, incident) ==
  row' = [kill |-> kill, clean |-> clean, incident |-> incident]

(***************************************************************************)
(* The cycle.                                                              *)
(***************************************************************************)
OperatorIdle == on.pc = "idle" /\ clear.pc = "idle"

Begin ==
  /\ cycle.pc = "idle" /\ used.cycles < MaxCycles
  /\ turns => OperatorIdle
  /\ cycle' = [IdleCycle EXCEPT !.pc = "working"]
  /\ used' = [used EXCEPT !.cycles = @ + 1]
  /\ UNCHANGED <<row, passport, on, clear, entries, history>>

\* Reconciliation and lifecycle are over, the model has answered: the newest
\* row gives the switch for the risk context and for the row to be written.
ReadSwitch(clean) ==
  /\ cycle.pc = "working"
  /\ cycle' = [cycle EXCEPT !.pc = "decided", !.kill = row.kill, !.clean = clean]
  /\ UNCHANGED <<row, passport, on, clear, entries, used, history>>

\* evaluate_risk approves no entry with the switch on or after an unclean
\* reconciliation; the approved one is submitted to the broker.
PlaceEntry ==
  /\ cycle.pc = "decided" /\ ~cycle.entered
  /\ ~cycle.kill /\ cycle.clean
  /\ cycle' = [cycle EXCEPT !.entered = TRUE]
  /\ entries' = entries + 1
  /\ UNCHANGED <<row, passport, on, clear, used, history>>

\* complete_run stores the Passport ...
Complete ==
  /\ cycle.pc = "decided"
  /\ passport' = ~cycle.clean
  /\ cycle' = [cycle EXCEPT !.pc = "completed"]
  /\ UNCHANGED <<row, on, clear, entries, used, history>>

\* ... and, in a second transaction, the row carries the switch that was read.
CarriedNowhere == FALSE
Carried == cycle.kill
IncidentDropped == "none"
Incident == IF cycle.clean THEN "none" ELSE "unclean"
AppendState ==
  /\ cycle.pc = "completed"
  /\ AppendRow(Carried, cycle.clean, Incident)
  /\ cycle' = IdleCycle
  /\ history' = [history EXCEPT !.cleaned = @ \/ cycle.clean]
  /\ UNCHANGED <<passport, on, clear, entries, used>>

\* An awaited call or a transaction raises.
Raise ==
  /\ cycle.pc \in {"working", "decided", "completed"}
  /\ cycle' = [cycle EXCEPT !.pc = "failing"]
  /\ UNCHANGED <<row, passport, on, clear, entries, used, history>>

\* The Passport of a failed cycle has no operational_state: it lists no incidents.
CompleteFailed ==
  /\ cycle.pc = "failing"
  /\ passport' = FALSE
  /\ cycle' = [cycle EXCEPT !.pc = "failed"]
  /\ UNCHANGED <<row, on, clear, entries, used, history>>

\* The row of a failed cycle: halted, unclean, and the switch on.
LatchedAsRead == cycle.kill
Latched == TRUE
AppendFailure ==
  /\ cycle.pc = "failed"
  /\ AppendRow(Latched, FALSE, "exception")
  /\ cycle' = IdleCycle
  /\ history' = [latched |-> TRUE, cleaned |-> FALSE]
  /\ UNCHANGED <<passport, on, clear, entries, used>>

\* The worker dies between two steps.
Crash ==
  /\ cycle.pc # "idle"
  /\ cycle' = IdleCycle
  /\ UNCHANGED <<row, passport, on, clear, entries, used, history>>

(***************************************************************************)
(* The operator's commands, each a process of its own.                     *)
(***************************************************************************)
MayCommand ==
  /\ used.commands < MaxCommands
  /\ turns => cycle.pc = "idle" /\ OperatorIdle

Spend == used' = [used EXCEPT !.commands = @ + 1]

\* set_kill_switch(active=True) reads the newest row in one transaction ...
OnRead ==
  /\ on.pc = "idle" /\ MayCommand /\ Spend
  /\ on' = [pc |-> "read", clean |-> row.clean]
  /\ UNCHANGED <<row, passport, cycle, clear, entries, history>>

\* ... and appends its own in another.
OnWrite ==
  /\ on.pc = "read"
  /\ AppendRow(TRUE, on.clean, "manual")
  /\ on' = [on EXCEPT !.pc = "idle"]
  /\ UNCHANGED <<passport, cycle, clear, entries, used, history>>

\* _guarded_kill_switch_clear: the newest row is armed, clean and without incident,
ClearableByAnyRow == row.kill
Clearable == row.kill /\ row.clean /\ row.incident = "none"
ClearCheckState ==
  /\ clear.pc = "idle" /\ MayCommand /\ Spend
  /\ Clearable
  /\ clear' = [clear EXCEPT !.pc = "state"]
  /\ UNCHANGED <<row, passport, cycle, on, entries, history>>

\* the newest Passport lists no incident,
ClearCheckPassport ==
  /\ clear.pc = "state"
  /\ ~passport
  /\ clear' = [clear EXCEPT !.pc = "passport"]
  /\ UNCHANGED <<row, passport, cycle, on, entries, used, history>>

\* the broker's account, orders and positions agree with Passport and rows,
ClearCompare ==
  /\ clear.pc = "passport"
  /\ clear' = [clear EXCEPT !.pc = "compared"]
  /\ UNCHANGED <<row, passport, cycle, on, entries, used, history>>

\* then set_kill_switch(active=False), which again reads ...
ClearRead ==
  /\ clear.pc = "compared"
  /\ clear' = [pc |-> "read", clean |-> row.clean]
  /\ UNCHANGED <<row, passport, cycle, on, entries, used, history>>

\* ... and appends.
ClearWrite ==
  /\ clear.pc = "read"
  /\ AppendRow(FALSE, clear.clean, "cleared")
  /\ clear' = [clear EXCEPT !.pc = "idle"]
  /\ history' = [history EXCEPT !.latched = FALSE]
  /\ UNCHANGED <<passport, cycle, on, entries, used>>

\* A check fails, a call raises, or the operator gives up.
CommandEnds ==
  /\ ~OperatorIdle
  /\ on' = [on EXCEPT !.pc = "idle"]
  /\ clear' = [clear EXCEPT !.pc = "idle"]
  /\ UNCHANGED <<row, passport, cycle, entries, used, history>>

CycleNext ==
  \/ Begin \/ (\E clean \in BOOLEAN : ReadSwitch(clean)) \/ PlaceEntry \/ Complete \/ AppendState
  \/ Raise \/ CompleteFailed \/ AppendFailure \/ Crash

OperatorNext ==
  \/ OnRead \/ OnWrite
  \/ ClearCheckState \/ ClearCheckPassport \/ ClearCompare \/ ClearRead \/ ClearWrite
  \/ CommandEnds

\* The cycles are spent: the behaviour ends here.
Done ==
  /\ cycle.pc = "idle" /\ used.cycles = MaxCycles
  /\ OperatorIdle
  /\ UNCHANGED vars

Next ==
  \/ (CycleNext \/ OperatorNext) /\ UNCHANGED turns
  \/ Done

Spec == Init /\ [][Next]_vars

(***************************************************************************)
(* Properties.                                                             *)
(***************************************************************************)
\* Every variable keeps its type.
TypeOK ==
  /\ turns \in BOOLEAN
  /\ row \in Rows
  /\ passport \in BOOLEAN
  /\ cycle \in [pc : CyclePcs, kill : BOOLEAN, clean : BOOLEAN, entered : BOOLEAN]
  /\ on \in [pc : {"idle", "read"}, clean : BOOLEAN]
  /\ clear \in [pc : ClearPcs, clean : BOOLEAN]
  /\ entries \in Nat
  /\ used \in [cycles : 0..MaxCycles, commands : 0..MaxCommands]
  /\ history \in [latched : BOOLEAN, cleaned : BOOLEAN]

\* A cycle that failed closed blocks every later entry until a guarded clear has
\* been written, whatever the operator and the cycles after it do in between
\* (run_cycle's exception handler and the switch carried over by its successors).
LatchBlocksEntries == [][PlaceEntry => ~history.latched]_vars

\* After a cycle failed closed, entries resume only once a later cycle has
\* completed with a clean reconciliation, if the operator takes turns with the
\* cycles: what the guarded clear is there for.
EntryAfterFailureNeedsCleanCycle == [][PlaceEntry /\ turns => history.cleaned]_vars

\* Once armed the switch stays armed until a guarded clear is written: the
\* operator's row is not overwritten by a cycle that read an older one.
SwitchPersists == [][row.kill /\ ~row'.kill => ClearWrite]_vars

\* While the operator takes turns with the cycles, the rows behave like a switch:
\* armed stays armed, whatever the cycles append, until a guarded clear is written,
\* and no entry is made while it is (the switch a cycle carries over in its row).
Switch == INSTANCE KillSwitch WITH
  armed <- turns /\ row.kill,
  clearing <- turns /\ clear.pc # "idle",
  entries <- IF turns THEN entries ELSE 0
ImplementsSwitch == Switch!Spec
=============================================================================
