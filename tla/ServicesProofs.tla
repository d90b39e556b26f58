----------------------------- MODULE ServicesProofs -----------------------------
(***************************************************************************)
(* Proofs about the programs around the trading cycle, each for every      *)
(* value of its constants, and about the module that runs one of them.     *)
(***************************************************************************)
EXTENDS MCServices, Totals, SequenceTheorems

(***************************************************************************)
(* Operational state: what holds however commands and cycles overlap, and  *)
(* what holds while the operator takes turns with the cycles.              *)
(***************************************************************************)

\* A failure stays latched: in the newest row, and in what the cycle read.
Latching ==
  history.latched =>
    /\ row.kill
    /\ cycle.pc \in {"decided", "completed"} => cycle.kill

LatchInv == TypeOK /\ Latching

\* While the operator takes turns with the cycles nothing read is overwritten,
InTurns ==
  /\ cycle.pc # "idle" => OperatorIdle
  /\ on.pc = "idle" \/ clear.pc = "idle"
  /\ cycle.pc \in {"decided", "completed"} => cycle.kill = row.kill
  /\ on.pc = "read" => on.clean = row.clean
  /\ clear.pc # "idle" => row.kill /\ row.clean

\* and until a clean cycle has completed a failure cannot be cleared.
Uncleared == ~history.cleaned => row.kill /\ ~row.clean

TurnInv == TypeOK /\ (turns => InTurns /\ Uncleared)

(***************************************************************************)
(* Operational state: types.                                               *)
(***************************************************************************)
LEMMA StateInitType == Init => TypeOK
<1> SUFFICES ASSUME Init PROVE TypeOK
  OBVIOUS
<1> USE ConstantsAssumption
<1>1. row \in Rows
  BY DEF Init, Rows, Incidents
<1>2. cycle \in [pc : CyclePcs, kill : BOOLEAN, clean : BOOLEAN, entered : BOOLEAN]
  BY DEF Init, IdleCycle, CyclePcs
<1>3. on \in [pc : {"idle", "read"}, clean : BOOLEAN] /\ clear \in [pc : ClearPcs, clean : BOOLEAN]
  BY DEF Init, ClearPcs
<1>4. used \in [cycles : 0..MaxCycles, commands : 0..MaxCommands]
  BY DEF Init
<1>5. turns \in BOOLEAN /\ passport \in BOOLEAN /\ entries \in Nat /\ history \in [latched : BOOLEAN, cleaned : BOOLEAN]
  BY DEF Init
<1>6. QED
  BY <1>1, <1>2, <1>3, <1>4, <1>5 DEF TypeOK

LEMMA StateCycleType == TypeOK /\ CycleNext /\ UNCHANGED turns => TypeOK'
<1> SUFFICES ASSUME TypeOK, CycleNext, UNCHANGED turns PROVE TypeOK'
  OBVIOUS
<1> USE ConstantsAssumption DEF TypeOK, CyclePcs, IdleCycle
<1>1. CASE Begin
  <2>1. cycle' \in [pc : CyclePcs, kill : BOOLEAN, clean : BOOLEAN, entered : BOOLEAN]
    BY <1>1 DEF Begin
  <2>2. used' \in [cycles : 0..MaxCycles, commands : 0..MaxCommands]
    BY <1>1 DEF Begin
  <2>3. QED
    BY <1>1, <2>1, <2>2 DEF Begin
<1>2. ASSUME NEW clean \in BOOLEAN, ReadSwitch(clean) PROVE TypeOK'
  <2>1. row.kill \in BOOLEAN
    BY DEF Rows
  <2>2. cycle' \in [pc : CyclePcs, kill : BOOLEAN, clean : BOOLEAN, entered : BOOLEAN]
    BY <1>2, <2>1 DEF ReadSwitch
  <2>3. QED
    BY <1>2, <2>2 DEF ReadSwitch
<1>3. CASE PlaceEntry
  <2>1. cycle' \in [pc : CyclePcs, kill : BOOLEAN, clean : BOOLEAN, entered : BOOLEAN]
    BY <1>3 DEF PlaceEntry
  <2>2. entries' \in Nat
    BY <1>3 DEF PlaceEntry
  <2>3. QED
    BY <1>3, <2>1, <2>2 DEF PlaceEntry
<1>4. CASE Complete
  <2>1. passport' \in BOOLEAN
    BY <1>4 DEF Complete
  <2>2. cycle' \in [pc : CyclePcs, kill : BOOLEAN, clean : BOOLEAN, entered : BOOLEAN]
    BY <1>4 DEF Complete
  <2>3. QED
    BY <1>4, <2>1, <2>2 DEF Complete
<1>5. CASE AppendState
  <2>1. row' \in Rows
    BY <1>5 DEF AppendState, AppendRow, Rows, Incidents, Incident, Carried
  <2>2. history' \in [latched : BOOLEAN, cleaned : BOOLEAN]
    BY <1>5 DEF AppendState
  <2>3. QED
    BY <1>5, <2>1, <2>2 DEF AppendState
<1>6. CASE Raise \/ CompleteFailed \/ Crash
  <2>1. cycle' \in [pc : CyclePcs, kill : BOOLEAN, clean : BOOLEAN, entered : BOOLEAN]
    <3>1. CASE Raise
      BY <3>1 DEF Raise
    <3>2. CASE CompleteFailed
      BY <3>2 DEF CompleteFailed
    <3>3. CASE Crash
      BY <3>3 DEF Crash
    <3>4. QED
      BY <1>6, <3>1, <3>2, <3>3
  <2>2. passport' \in BOOLEAN
    BY <1>6 DEF Raise, CompleteFailed, Crash
  <2>3. QED
    BY <1>6, <2>1, <2>2 DEF Raise, CompleteFailed, Crash
<1>7. CASE AppendFailure
  <2>1. row' \in Rows
    BY <1>7 DEF AppendFailure, AppendRow, Rows, Incidents, Latched
  <2>2. QED
    BY <1>7, <2>1 DEF AppendFailure
<1>8. QED
  BY <1>1, <1>2, <1>3, <1>4, <1>5, <1>6, <1>7 DEF CycleNext

LEMMA OperatorType == TypeOK /\ OperatorNext /\ UNCHANGED turns => TypeOK'
<1> SUFFICES ASSUME TypeOK, OperatorNext, UNCHANGED turns PROVE TypeOK'
  OBVIOUS
<1> USE ConstantsAssumption DEF TypeOK, ClearPcs
<1>1. row.clean \in BOOLEAN
  BY DEF Rows
<1>2. CASE OnRead \/ ClearCheckState
  BY <1>1, <1>2 DEF OnRead, ClearCheckState, MayCommand, Spend
<1>3. CASE OnWrite
  <2>1. row' \in Rows
    BY <1>3 DEF OnWrite, AppendRow, Rows, Incidents
  <2>2. QED
    BY <1>3, <2>1 DEF OnWrite
<1>4. CASE ClearWrite
  <2>1. row' \in Rows
    BY <1>4 DEF ClearWrite, AppendRow, Rows, Incidents
  <2>2. QED
    BY <1>4, <2>1 DEF ClearWrite
<1>5. CASE ClearCheckPassport \/ ClearCompare \/ ClearRead \/ CommandEnds
  BY <1>1, <1>5 DEF ClearCheckPassport, ClearCompare, ClearRead, CommandEnds
<1>6. QED
  BY <1>2, <1>3, <1>4, <1>5 DEF OperatorNext

LEMMA StateNextType == TypeOK /\ [Next]_vars => TypeOK'
<1>1. TypeOK /\ UNCHANGED vars => TypeOK'
  BY DEF TypeOK, vars
<1>2. QED
  BY <1>1, StateCycleType, OperatorType DEF Next, Done

\* The rows and the programs' locals keep their types; each program's rows say
\* what that program may say.
THEOREM StateTypeCorrect == Spec => []TypeOK
<1>1. QED
  BY StateInitType, StateNextType, PTL DEF Spec

(***************************************************************************)
(* Operational state: the latch of a failed cycle.                         *)
(***************************************************************************)
LEMMA LatchStep == LatchInv /\ [Next]_vars => LatchInv'
<1> SUFFICES ASSUME LatchInv, [Next]_vars PROVE LatchInv'
  OBVIOUS
<1>1. TypeOK'
  BY StateNextType DEF LatchInv
<1>2. Latching'
  <2> USE DEF LatchInv, TypeOK, Latching
  <2>1. CASE Begin \/ Crash
    BY <2>1 DEF Begin, Crash, IdleCycle
  <2>2. ASSUME NEW clean \in BOOLEAN, ReadSwitch(clean) PROVE Latching'
    BY <2>2 DEF ReadSwitch
  <2>3. CASE PlaceEntry \/ Complete \/ Raise \/ CompleteFailed
    BY <2>3 DEF PlaceEntry, Complete, Raise, CompleteFailed
  <2>4. CASE AppendState
    BY <2>4 DEF AppendState, AppendRow, Carried, IdleCycle
  <2>5. CASE AppendFailure
    BY <2>5 DEF AppendFailure, AppendRow, Latched, IdleCycle
  <2>6. CASE OnWrite
    BY <2>6 DEF OnWrite, AppendRow
  <2>7. CASE ClearWrite
    BY <2>7 DEF ClearWrite
  <2>8. CASE OnRead \/ ClearCheckState \/ ClearCheckPassport \/ ClearCompare \/ ClearRead \/ CommandEnds
    BY <2>8 DEF OnRead, ClearCheckState, ClearCheckPassport, ClearCompare, ClearRead, CommandEnds
  <2>9. CASE UNCHANGED vars
    BY <2>9 DEF vars
  <2>10. QED
    BY <2>1, <2>2, <2>3, <2>4, <2>5, <2>6, <2>7, <2>8, <2>9 DEF Next, Done, CycleNext, OperatorNext
<1>3. QED
  BY <1>1, <1>2 DEF LatchInv

\* A failed cycle blocks every entry until a guarded clear is written, however
\* cycles, crashes and the operator's commands overlap.
THEOREM LatchBlocks == Spec => LatchBlocksEntries
<1>1. Init => LatchInv
  BY StateInitType DEF LatchInv, Latching, Init
<1>2. LatchInv /\ [Next]_vars => [PlaceEntry => ~history.latched]_vars
  BY DEF LatchInv, Latching, PlaceEntry
<1>3. QED
  BY <1>1, <1>2, LatchStep, PTL DEF Spec, LatchBlocksEntries

(***************************************************************************)
(* Operational state: the operator takes turns with the cycles.            *)
(***************************************************************************)
LEMMA TurnStep == TurnInv /\ [Next]_vars => TurnInv'
<1> SUFFICES ASSUME TurnInv, [Next]_vars PROVE TurnInv'
  OBVIOUS
<1>1. TypeOK'
  BY StateNextType DEF TurnInv
<1>2. turns' = turns
  BY DEF Next, Done, vars
<1>3. ASSUME turns PROVE InTurns' /\ Uncleared'
  <2>0. InTurns /\ Uncleared
    BY <1>3 DEF TurnInv
  <2>t. TypeOK
    BY DEF TurnInv
  <2> USE <1>3, <2>0, <2>t DEF TypeOK, InTurns, Uncleared, OperatorIdle
  <2>1. CASE Begin
    BY <2>1 DEF Begin, IdleCycle
  <2>2. ASSUME NEW clean \in BOOLEAN, ReadSwitch(clean) PROVE InTurns' /\ Uncleared'
    BY <2>2 DEF ReadSwitch
  <2>3. CASE PlaceEntry \/ Complete \/ Raise \/ CompleteFailed \/ Crash
    BY <2>3 DEF PlaceEntry, Complete, Raise, CompleteFailed, Crash, IdleCycle
  <2>4. CASE AppendState
    BY <2>4 DEF AppendState, AppendRow, Carried, IdleCycle
  <2>5. CASE AppendFailure
    BY <2>5 DEF AppendFailure, AppendRow, Latched, IdleCycle
  <2>6. CASE OnRead
    BY <2>6 DEF OnRead, MayCommand
  <2>7. CASE OnWrite
    BY <2>7 DEF OnWrite, AppendRow
  <2>8. CASE ClearCheckState
    BY <2>8 DEF ClearCheckState, MayCommand, Clearable
  <2>9. CASE ClearCheckPassport \/ ClearCompare \/ ClearRead \/ CommandEnds
    BY <2>9 DEF ClearCheckPassport, ClearCompare, ClearRead, CommandEnds
  <2>10. CASE ClearWrite
    BY <2>10 DEF ClearWrite, AppendRow
  <2>11. CASE UNCHANGED vars
    BY <2>11 DEF vars
  <2>12. QED
    BY <2>1, <2>2, <2>3, <2>4, <2>5, <2>6, <2>7, <2>8, <2>9, <2>10, <2>11
       DEF Next, Done, CycleNext, OperatorNext
<1>4. QED
  BY <1>1, <1>2, <1>3 DEF TurnInv

LEMMA TurnInit == Init => TurnInv
BY StateInitType DEF Init, TurnInv, InTurns, Uncleared, OperatorIdle, IdleCycle

\* While the operator takes turns with the cycles, entries resume after a failed
\* cycle no earlier than a clean one has completed.
THEOREM FailureNeedsCleanCycle == Spec => EntryAfterFailureNeedsCleanCycle
<1>1. TurnInv /\ [Next]_vars => [PlaceEntry /\ turns => history.cleaned]_vars
  BY DEF TurnInv, TypeOK, InTurns, Uncleared, PlaceEntry
<1>2. QED
  BY <1>1, TurnInit, TurnStep, PTL DEF Spec, EntryAfterFailureNeedsCleanCycle

\* ... and the rows implement the switch of module KillSwitch.
THEOREM RowsImplementSwitch == Spec => ImplementsSwitch
<1> USE DEF Switch!Next, Switch!Arm, Switch!Enter, Switch!Ask, Switch!Refuse, Switch!Disarm,
        Switch!vars
<1>1. Init => Switch!Init
  BY DEF Init, Switch!Init
<1>2. TurnInv /\ [Next]_vars => [Switch!Next]_(Switch!vars)
  <2> SUFFICES ASSUME TurnInv, [Next]_vars PROVE [Switch!Next]_(Switch!vars)
    OBVIOUS
  <2>1. turns' = turns
    BY DEF Next, Done, vars
  <2>2. CASE ~turns
    BY <2>1, <2>2
  <2>3. ASSUME turns PROVE [Switch!Next]_(Switch!vars)
    <3>1. InTurns /\ TypeOK
      BY <2>3 DEF TurnInv
    <3> DEFINE stated == clear.pc # "idle"
    <3>2. \/ /\ stated /\ ~row'.kill /\ ~stated' /\ entries' = entries
          \/ /\ row'.kill = row.kill /\ ~stated' /\ entries' = entries
          \/ /\ row.kill /\ row' = row /\ stated' /\ entries' = entries
          \/ /\ row'.kill /\ clear' = clear /\ entries' = entries
          \/ /\ row'.kill = row.kill /\ clear' = clear /\ entries' = entries
          \/ /\ ~row.kill /\ row' = row /\ clear' = clear /\ entries' = entries + 1
      <4> USE <3>1 DEF TypeOK, InTurns, OperatorIdle
      <4>1. CASE PlaceEntry
        BY <4>1 DEF PlaceEntry
      <4>2. CASE AppendState
        BY <4>2 DEF AppendState, AppendRow, Carried
      <4>3. CASE AppendFailure
        BY <4>3 DEF AppendFailure, AppendRow, Latched
      <4>4. CASE OnWrite
        BY <4>4 DEF OnWrite, AppendRow
      <4>5. CASE ClearWrite
        BY <4>5 DEF ClearWrite, AppendRow
      <4>6. CASE Begin \/ (\E clean \in BOOLEAN : ReadSwitch(clean)) \/ Complete \/ Raise
                 \/ CompleteFailed \/ Crash
        BY <4>6 DEF Begin, ReadSwitch, Complete, Raise, CompleteFailed, Crash
      <4>7. CASE OnRead \/ CommandEnds
        BY <4>7 DEF OnRead, CommandEnds
      <4>8. CASE ClearCheckState
        BY <4>8 DEF ClearCheckState, Clearable
      <4>9. CASE ClearCheckPassport \/ ClearCompare \/ ClearRead
        BY <4>9 DEF ClearCheckPassport, ClearCompare, ClearRead
      <4>10. CASE UNCHANGED vars
        BY <4>10 DEF vars
      <4>11. QED
        BY <4>1, <4>2, <4>3, <4>4, <4>5, <4>6, <4>7, <4>8, <4>9, <4>10
           DEF Next, Done, CycleNext, OperatorNext
    <3>3. QED
      BY <2>1, <2>3, <3>2
  <2>4. QED
    BY <2>2, <2>3
<1>3. QED
  BY <1>1, <1>2, TurnInit, TurnStep, PTL DEF Spec, ImplementsSwitch, Switch!Spec

(***************************************************************************)
(* Repricing: every structure that may be opened, every quote its close may*)
(* bring and every rhythm of the cycles.                                   *)
(***************************************************************************)
\* What a working order is; the side of its cash may be anything.
Fields == {"side", "limit", "credit", "attempt", "age", "urgency"}
IsOrder(o) ==
  /\ DOMAIN o = Fields
  /\ o.side \in {"entry", "close"}
  /\ o.limit \in Int /\ o.limit > 0
  /\ o.attempt \in 0 .. MAX_REPRICE_ATTEMPTS
  /\ o.age \in 0 .. SOFT_STALE_AFTER

Shaped ==
  /\ structure \in OpenedStructures
  /\ order = NoOrder \/ IsOrder(order)
  /\ position = "ready" => order = NoOrder

\* How far an entry's limit may be from the price it was approved at, by its
\* attempt: five cents after the first concession, ten more after the second.
Conceded(tries) == IF tries = 0 THEN 0 ELSE IF tries = 1 THEN 5 ELSE 15

EntryOnItsWay ==
  order.side = "entry" =>
    Distance(order.limit, structure.opening) <= Conceded(order.attempt)

PricesInv == RepricingTypeOK /\ Shaped /\ EntryOnItsWay

\* A quote that can be read is the one cash value it holds.
LEMMA CashOfAQuote ==
  ASSUME NEW quote, quote \in Readings, structure \in OpenedStructures, quote # {}
  PROVE  Cash(quote) \in Int
<1>1. structure.quotes \subseteq Int BY RepricingAssumption
<1>2. PICK cash \in structure.quotes : quote = {cash} BY DEF Readings
<1>3. Cash(quote) \in quote BY <1>2 DEF Cash
<1> QED BY <1>1, <1>2, <1>3

LEMMA CloseOrderShape ==
  ASSUME NEW quote \in Readings, structure \in OpenedStructures, Refreshed(quote),
         NEW urgency
  PROVE  IsOrder(CloseOrder(quote, urgency)) /\ CloseOrder(quote, urgency).side = "close"
<1>1. Cash(quote) \in Int /\ Cash(quote) # 0 BY CashOfAQuote DEF Refreshed
<1> DEFINE limit == Distance(Cash(quote), 0)
           credit == Cash(quote) > 0
<1>2. limit \in Int /\ limit > 0 BY <1>1 DEF Distance
<1>3. CloseOrder(quote, urgency) =
        [side |-> "close", limit |-> limit, credit |-> credit,
         attempt |-> 0, age |-> 0, urgency |-> urgency]
  BY DEF CloseOrder
<1> HIDE DEF limit, credit
<1> QED BY <1>2, <1>3 DEF IsOrder, Fields, MAX_REPRICE_ATTEMPTS, SOFT_STALE_AFTER

\* A replacement keeps the shape of an order: no limit falls to zero and no
\* series goes past its last attempt.
LEMMA ReplacementShape ==
  ASSUME Shaped, Working, NEW quote \in Readings, NEW forced \in BOOLEAN,
         NEW interval \in Intervals,
         ~Waits(quote, forced, interval), ~Abandoned(forced)
  PROVE  /\ IsOrder(Replacement(quote, forced))
         /\ Replacement(quote, forced).side = order.side
<1>1. IsOrder(order) BY DEF Shaped, Working, NoOrder
<1>2. order.attempt \in 0 .. 2 /\ order.limit \in Int
  BY <1>1 DEF IsOrder, MAX_REPRICE_ATTEMPTS
<1>3. structure.width \in Nat /\ structure.width > 0 BY RepricingAssumption DEF Shaped
<1>4. CASE Urgent(forced)
  <2>1. Refreshed(quote) BY <1>4 DEF Waits
  <2>2. Cash(quote) \in Int /\ Cash(quote) # 0 BY <2>1, CashOfAQuote DEF Refreshed, Shaped
  <2>3. UrgentConcession \in Nat /\ UrgentConcession > 0
    BY <1>2 DEF UrgentConcession, Least, URGENT_REPRICE_INCREMENT, URGENT_MAX_TOTAL_CONCESSION
  <2>4. UrgentLimit(quote) \in Int /\ UrgentLimit(quote) > 0
    BY <1>3, <2>2, <2>3 DEF UrgentLimit, Most
  <2>5. NextAttempt(forced) \in 0 .. MAX_REPRICE_ATTEMPTS
    BY <1>2, <1>4 DEF NextAttempt, Least, MAX_REPRICE_ATTEMPTS
  <2> DEFINE limit == UrgentLimit(quote)
             credit == Cash(quote) > 0
             tries == NextAttempt(forced)
  <2>6. Replacement(quote, forced) =
          [order EXCEPT !.limit = limit, !.credit = credit, !.attempt = tries, !.age = 0]
    BY <1>4 DEF Replacement
  <2>7. limit \in Int /\ limit > 0 /\ tries \in 0 .. MAX_REPRICE_ATTEMPTS BY <2>4, <2>5
  <2> HIDE DEF limit, credit, tries
  <2>8. DOMAIN Replacement(quote, forced) = Fields BY <1>1, <2>6 DEF IsOrder
  <2>9. /\ Replacement(quote, forced).limit = limit
        /\ Replacement(quote, forced).attempt = tries
        /\ Replacement(quote, forced).age = 0
        /\ Replacement(quote, forced).side = order.side
    BY <1>1, <2>6 DEF IsOrder, Fields
  <2> QED BY <1>1, <2>7, <2>8, <2>9 DEF IsOrder, SOFT_STALE_AFTER
<1>5. CASE ~Urgent(forced)
  <2>1. ~LastAttempt /\ ~(ConcededLimit <= 0) BY <1>5 DEF Abandoned
  <2>2. order.attempt \in 0 .. 1 BY <1>2, <2>1 DEF LastAttempt, MAX_REPRICE_ATTEMPTS
  <2>3. Concession \in Int
    BY <2>2 DEF Concession, Least, REPRICE_INCREMENT, MAX_TOTAL_CONCESSION
  <2>4. ConcededLimit \in Int /\ ConcededLimit > 0
    BY <1>2, <2>1, <2>3 DEF ConcededLimit
  <2> DEFINE limit == ConcededLimit
             tries == order.attempt + 1
  <2>6. Replacement(quote, forced) =
          [order EXCEPT !.limit = limit, !.credit = order.credit,
                        !.attempt = tries, !.age = 0]
    BY <1>5 DEF Replacement, NextAttempt
  <2>7. limit \in Int /\ limit > 0 /\ tries \in 0 .. MAX_REPRICE_ATTEMPTS
    BY <2>2, <2>4 DEF MAX_REPRICE_ATTEMPTS
  <2> HIDE DEF limit, tries
  <2>8. DOMAIN Replacement(quote, forced) = Fields BY <1>1, <2>6 DEF IsOrder
  <2>9. /\ Replacement(quote, forced).limit = limit
        /\ Replacement(quote, forced).attempt = tries
        /\ Replacement(quote, forced).age = 0
        /\ Replacement(quote, forced).side = order.side
    BY <1>1, <2>6 DEF IsOrder, Fields
  <2> QED BY <1>1, <2>7, <2>8, <2>9 DEF IsOrder, SOFT_STALE_AFTER
<1> QED BY <1>4, <1>5

\* Each of an entry's two concessions moves its limit by what the next attempt
\* may be away.
LEMMA EntryConcedes ==
  ASSUME Shaped, EntryOnItsWay, order.side = "entry",
         NEW quote \in Readings, NEW forced \in BOOLEAN, NEW interval \in Intervals,
         ~Waits(quote, forced, interval), ~Abandoned(forced)
  PROVE  Distance(Replacement(quote, forced).limit, structure.opening)
           <= Conceded(Replacement(quote, forced).attempt)
<1>1. IsOrder(order) BY DEF Shaped, NoOrder
<1>2. order.attempt \in 0 .. 2 /\ order.limit \in Int
  BY <1>1 DEF IsOrder, MAX_REPRICE_ATTEMPTS
<1>3. structure.opening \in Nat BY RepricingAssumption DEF Shaped
<1>4. ~Urgent(forced) BY DEF Urgent, Closing
<1>5. order.attempt \in 0 .. 1
  BY <1>2, <1>4 DEF Abandoned, LastAttempt, MAX_REPRICE_ATTEMPTS
<1>6. Replacement(quote, forced) =
        [order EXCEPT !.limit = ConcededLimit, !.credit = order.credit,
                      !.attempt = order.attempt + 1, !.age = 0]
  BY <1>4 DEF Replacement, NextAttempt
<1>7. /\ Replacement(quote, forced).limit = ConcededLimit
      /\ Replacement(quote, forced).attempt = order.attempt + 1
  BY <1>1, <1>6 DEF IsOrder, Fields
<1>8. Concession = IF order.attempt = 0 THEN 5 ELSE 10
  BY <1>5 DEF Concession, Least, REPRICE_INCREMENT, MAX_TOTAL_CONCESSION
<1>9. Distance(order.limit, structure.opening) <= Conceded(order.attempt)
  BY DEF EntryOnItsWay
<1>10. Distance(ConcededLimit, structure.opening) <= Conceded(order.attempt + 1)
  BY <1>2, <1>3, <1>5, <1>8, <1>9 DEF Distance, Conceded, ConcededLimit
<1> QED BY <1>7, <1>10

LEMMA AgeInBounds ==
  ASSUME IsOrder(order), NEW interval \in Intervals
  PROVE  Age(interval) \in 0 .. SOFT_STALE_AFTER
<1>1. interval \in Nat BY RepricingAssumption
<1>2. order.age \in Nat BY DEF IsOrder, SOFT_STALE_AFTER
<1> QED BY <1>1, <1>2 DEF Age, Least, SOFT_STALE_AFTER

LEMMA InitPrices == RepricingInit => PricesInv
<1> SUFFICES ASSUME RepricingInit PROVE PricesInv OBVIOUS
<1>1. order.side = "none" BY DEF RepricingInit, NoOrder
<1>2. lost \in 0 .. MaxLostOrders BY RepricingAssumption DEF RepricingInit
<1> QED
  BY <1>1, <1>2
  DEF RepricingInit, PricesInv, RepricingTypeOK, Shaped, EntryOnItsWay, Working

\* What a step establishes when it leaves the flags what they are allowed to be
\* and the order empty or an order of its shape.
LEMMA NewOrder ==
  ASSUME RepricingTypeOK, structure \in OpenedStructures, structure' = structure,
         position' \in {"none", "new", "held", "closing"},
         hardExit' \in BOOLEAN, overHeld' \in BOOLEAN, lost' \in 0 .. MaxLostOrders,
         \/ order' = NoOrder
         \/ /\ IsOrder(order')
            /\ order'.side = "entry" =>
                 Distance(order'.limit, structure.opening) <= Conceded(order'.attempt)
  PROVE  PricesInv'
<1>1. CASE order' = NoOrder
  <2>1. order'.side = "none" BY <1>1 DEF NoOrder
  <2> QED
    BY <1>1, <2>1 DEF PricesInv, RepricingTypeOK, Shaped, EntryOnItsWay, Working
<1>2. CASE order' # NoOrder
  <2>1. /\ IsOrder(order')
        /\ order'.side = "entry" =>
             Distance(order'.limit, structure.opening) <= Conceded(order'.attempt)
    BY <1>2
  <2>2. /\ order'.limit > 0 /\ order'.attempt \in 0 .. MAX_REPRICE_ATTEMPTS
        /\ order'.age \in 0 .. SOFT_STALE_AFTER
    BY <2>1 DEF IsOrder
  <2> QED
    BY <2>1, <2>2 DEF PricesInv, RepricingTypeOK, Shaped, EntryOnItsWay, Working
<1> QED BY <1>1, <1>2

LEMMA WaitKeepsPrices ==
  ASSUME PricesInv, NEW quote \in Readings, NEW forced \in BOOLEAN,
         NEW interval \in Intervals, Wait(quote, forced, interval)
  PROVE  /\ IsOrder(order') /\ position' = position
         /\ order'.side = order.side /\ order'.limit = order.limit
         /\ order'.attempt = order.attempt
<1>1. IsOrder(order) BY DEF PricesInv, Shaped, Wait, Working, NoOrder
<1>2. Age(interval) \in 0 .. SOFT_STALE_AFTER BY <1>1, AgeInBounds
<1> DEFINE age == Age(interval)
<1>3. order' = [order EXCEPT !.age = age] BY DEF Wait
<1>4. age \in 0 .. SOFT_STALE_AFTER BY <1>2
<1> HIDE DEF age
<1>5. DOMAIN order' = Fields BY <1>1, <1>3 DEF IsOrder
<1>6. /\ order'.side = order.side /\ order'.limit = order.limit
      /\ order'.attempt = order.attempt /\ order'.age = age
  BY <1>1, <1>3 DEF IsOrder, Fields
<1> QED BY <1>1, <1>4, <1>5, <1>6 DEF IsOrder, Wait

LEMMA CycleKeepsPrices ==
  ASSUME PricesInv, NEW quote \in Readings, NEW forced \in BOOLEAN,
         NEW allowed \in BOOLEAN, NEW interval \in Intervals,
         Cycle(quote, forced, allowed, interval)
  PROVE  PricesInv'
<1>1. /\ RepricingTypeOK /\ structure \in OpenedStructures /\ structure' = structure
      /\ hardExit' \in BOOLEAN /\ overHeld' \in BOOLEAN
  BY DEF PricesInv, Shaped, RepricingTypeOK, Cycle
<1>2. Working => IsOrder(order) BY DEF PricesInv, Shaped, Working, NoOrder
<1>3. Working => position \in {"none", "new", "held", "closing"}
  BY DEF PricesInv, RepricingTypeOK, Shaped, Working, NoOrder
<1>4. lost \in 0 .. MaxLostOrders BY DEF PricesInv, RepricingTypeOK
<1>5. CASE Wait(quote, forced, interval)
  <2>1. /\ IsOrder(order') /\ position' = position /\ order'.side = order.side
        /\ order'.limit = order.limit /\ order'.attempt = order.attempt
    BY <1>5, WaitKeepsPrices
  <2>2. position' \in {"none", "new", "held", "closing"} /\ lost' = lost
    BY <1>3, <1>5 DEF Wait
  <2>3. order'.side = "entry" =>
          Distance(order'.limit, structure.opening) <= Conceded(order'.attempt)
    BY <2>1 DEF PricesInv, EntryOnItsWay
  <2> QED BY <1>1, <1>4, <2>1, <2>2, <2>3, NewOrder
<1>6. CASE Cancel(quote, forced, allowed, interval)
  <2>1. Working BY <1>6 DEF Cancel, Working
  <2> QED BY <1>1, <1>3, <1>4, <1>6, <2>1, NewOrder DEF Cancel
<1>7. CASE CancelAndRecover(quote, forced, interval)
  <2>1. Working BY <1>7 DEF CancelAndRecover, Closing, Working
  <2>2. CASE Refreshed(quote)
    <3>1. order' = CloseOrder(quote, "urgent") BY <1>7, <2>2 DEF CancelAndRecover
    <3>2. IsOrder(order') /\ order'.side = "close" BY <1>1, <2>2, <3>1, CloseOrderShape
    <3> QED BY <1>1, <1>3, <1>4, <1>7, <2>1, <3>2, NewOrder DEF CancelAndRecover
  <2>3. CASE ~Refreshed(quote)
    BY <1>1, <1>3, <1>4, <1>7, <2>1, <2>3, NewOrder DEF CancelAndRecover
  <2> QED BY <2>2, <2>3
<1>8. CASE Replace(quote, forced, allowed, interval)
  <2>1. /\ Working /\ ~Waits(quote, forced, interval) /\ ~Abandoned(forced)
        /\ order' = Replacement(quote, forced) /\ position' = position /\ lost' = lost
    BY <1>8 DEF Replace
  <2>2. IsOrder(order') /\ order'.side = order.side
    BY <2>1, ReplacementShape DEF PricesInv
  <2>3. order'.side = "entry" =>
          Distance(order'.limit, structure.opening) <= Conceded(order'.attempt)
    BY <2>1, <2>2, EntryConcedes DEF PricesInv
  <2> QED BY <1>1, <1>3, <1>4, <2>1, <2>2, <2>3, NewOrder
<1>9. CASE LoseReplacement(quote, forced, allowed, interval)
  <2>1. lost' \in 0 .. MaxLostOrders
    BY <1>4, <1>9, RepricingAssumption DEF LoseReplacement
  <2> QED BY <1>1, <1>3, <1>9, <2>1, NewOrder DEF LoseReplacement
<1>10. CASE Establish
  <2>1. order = NoOrder BY <1>10 DEF PricesInv, Shaped, Establish, Working, IsOrder
  <2> QED BY <1>1, <1>4, <1>10, <2>1, NewOrder DEF Establish
<1>11. CASE Hold(quote, forced)
  <2>1. order = NoOrder BY <1>11 DEF PricesInv, Shaped, Hold, Working, IsOrder
  <2> QED BY <1>1, <1>4, <1>11, <2>1, NewOrder DEF Hold
<1>12. CASE Exit(quote, forced)
  <2>1. order' = CloseOrder(quote, ExitUrgency(quote, forced)) BY <1>12 DEF Exit
  <2>2. IsOrder(order') /\ order'.side = "close"
    BY <1>1, <1>12, <2>1, CloseOrderShape DEF Exit
  <2> QED BY <1>1, <1>4, <1>12, <2>2, NewOrder DEF Exit
<1> QED BY <1>5, <1>6, <1>7, <1>8, <1>9, <1>10, <1>11, <1>12 DEF Cycle

LEMMA StepKeepsPrices ==
  PricesInv /\ [RepricingNext]_repricingVars => PricesInv'
<1> SUFFICES ASSUME PricesInv, [RepricingNext]_repricingVars PROVE PricesInv' OBVIOUS
<1>1. /\ RepricingTypeOK /\ structure \in OpenedStructures
      /\ hardExit \in BOOLEAN /\ overHeld \in BOOLEAN /\ lost \in 0 .. MaxLostOrders
  BY DEF PricesInv, Shaped, RepricingTypeOK
<1>2. CASE SubmitEntry
  <2>1. order' = EntryOrder(structure) /\ position' = "none" /\ structure' = structure
    BY <1>2 DEF SubmitEntry
  <2>2. structure.opening \in Nat /\ structure.opening > 0
    BY <1>1, RepricingAssumption
  <2> DEFINE credit == structure.credit
             opening == structure.opening
  <2>3. order' = [side |-> "entry", limit |-> opening, credit |-> credit, attempt |-> 0,
                  age |-> 0, urgency |-> "none"]
    BY <2>1 DEF EntryOrder
  <2>4. opening \in Nat /\ opening > 0 BY <2>2
  <2> HIDE DEF credit, opening
  <2>5. IsOrder(order') /\ order'.limit = opening /\ order'.attempt = 0
    BY <2>3, <2>4 DEF IsOrder, Fields, MAX_REPRICE_ATTEMPTS, SOFT_STALE_AFTER
  <2>6. Distance(opening, opening) = 0 /\ Conceded(0) = 0
    BY <2>4 DEF Distance, Conceded
  <2>7. Distance(order'.limit, structure.opening) <= Conceded(order'.attempt)
    BY <2>5, <2>6 DEF opening
  <2> QED BY <1>1, <1>2, <2>1, <2>5, <2>7, NewOrder DEF SubmitEntry
<1>3. CASE \E quote \in Readings, forced, allowed \in BOOLEAN, interval \in Intervals :
             Cycle(quote, forced, allowed, interval)
  BY <1>3, CycleKeepsPrices
<1>4. CASE FillOrder
  BY <1>1, <1>4, NewOrder DEF FillOrder
<1>5. CASE UNCHANGED repricingVars
  BY <1>5 DEF PricesInv, RepricingTypeOK, Shaped, EntryOnItsWay, Working, repricingVars
<1> QED BY <1>2, <1>3, <1>4, <1>5 DEF RepricingNext, Over

LEMMA PricesInvariant == RepricingSpec => []PricesInv
BY InitPrices, StepKeepsPrices, PTL DEF RepricingSpec

\* The prices, attempts and ages of a structure's orders stay what they are
\* meant to be, closes that turn from credit to debit included.
THEOREM PricesTypeCorrect == RepricingSpec => []RepricingTypeOK
<1>1. PricesInv => RepricingTypeOK BY DEF PricesInv
<1> QED BY <1>1, PricesInvariant, PTL

\* stale_order_action concedes twice on an entry, by 5 and by 10 cents of the
\* limit it replaces: for every structure, quote and rhythm of cycles the entry
\* stays within 15 cents of the approved price.
THEOREM ConcessionsBounded == RepricingSpec => []EntryConcessionsBounded
<1>1. PricesInv => EntryConcessionsBounded
  <2> SUFFICES ASSUME PricesInv, order.side = "entry"
               PROVE  Distance(order.limit, structure.opening) <= 15
    BY DEF EntryConcessionsBounded
  <2>1. IsOrder(order) /\ structure.opening \in Int
    BY RepricingAssumption DEF PricesInv, Shaped, NoOrder
  <2>2. Distance(order.limit, structure.opening) \in Int
    BY <2>1 DEF IsOrder, Distance
  <2>3. Distance(order.limit, structure.opening) <= Conceded(order.attempt)
    BY DEF PricesInv, EntryOnItsWay
  <2> QED BY <2>2, <2>3 DEF Conceded
<1> QED BY <1>1, PricesInvariant, PTL

(***************************************************************************)
(* AssignmentRecovery: every number of commands, shares and reads, and     *)
(* whatever the broker does.                                               *)
(***************************************************************************)
Selling ==
  {"intend", "place", "placed", "poll", "cancel", "repoll", "terminal", "quiet",
   "residual", "final"}
Locations == {"idle", "checking", "ended"} \cup Selling
Answers == {"accepted", "filled", "rejected"}
IntentStatuses ==
  {"none", "recovery_intent_recorded", "accepted", "partially_filled", "filled",
   "canceled", "rejected"}
SaleStatuses ==
  {"none", "accepted", "partially_filled", "pending_cancel", "filled", "canceled",
   "rejected"}

CommandRecords ==
  [pc : Locations, symbol : RECOVERY_POSITIONS, todo : SUBSET {"orders", "positions"},
   polls : 0 .. Polls, answer : {"none"} \cup Answers]

Typed ==
  /\ recovery \in [Commands -> CommandRecords]
  /\ recoveryRun \in {"none", "started", "completed"}
  /\ intent \in [RECOVERY_POSITIONS -> IntentStatuses]
  /\ sale \in [RECOVERY_POSITIONS -> [status : SaleStatuses, filled : 0 .. Shares]]
  /\ broken \in 0 .. MaxBrokenCommands

Sells(c) == recovery[c].pc \in Selling

\* The key of the run lets one command past it.
Alone == \A c, d \in Commands : Sells(c) /\ Sells(d) => c = d

\* What a command has behind it where it stands.
Behind(c) ==
  /\ recovery[c].pc \in {"idle", "checking"} => recovery[c].symbol = "QQQ"
  /\ Sells(c) => recoveryRun # "none"
  /\ Sells(c) /\ recovery[c].symbol = "QQQ" => sale["IWM"].status = "none"
  /\ Sells(c) /\ recovery[c].symbol = "IWM" => sale["QQQ"].filled = Shares
  /\ recovery[c].pc = "place" => intent[recovery[c].symbol] # "none"
  /\ recovery[c].pc = "placed" => recovery[c].answer \in Answers
  /\ recovery[c].pc = "terminal" => sale[recovery[c].symbol].status \in TERMINAL_STATUSES

RecoveryInv ==
  /\ Typed /\ Alone
  /\ \A c \in Commands : Behind(c)
  /\ SaleHasItsIntent
  /\ SecondSaleAfterFirst

LEMMA InitRecovery == RecoveryInit => RecoveryInv
<1> SUFFICES ASSUME RecoveryInit PROVE RecoveryInv OBVIOUS
<1>1. Typed
  BY RecoveryAssumption
  DEF RecoveryInit, Typed, CommandRecords, Locations, RECOVERY_POSITIONS, IntentStatuses,
      SaleStatuses
<1>2. \A c \in Commands : recovery[c].pc = "idle" /\ recovery[c].symbol = "QQQ"
  BY DEF RecoveryInit
<1>3. \A s \in RECOVERY_POSITIONS : sale[s].status = "none" BY DEF RecoveryInit
<1> QED
  BY <1>1, <1>2, <1>3
  DEF RecoveryInv, Alone, Behind, Sells, Selling, SaleHasItsIntent, SecondSaleAfterFirst,
      RECOVERY_POSITIONS

\* A command that takes a step leaves the others where they are.
Moves(c) ==
  /\ recovery' \in [Commands -> CommandRecords]
  /\ \A d \in Commands \ {c} : recovery'[d] = recovery[d]

\* What is to be shown of a step that changes neither the sales nor the intents.
LEMMA OnlyMoves ==
  ASSUME RecoveryInv, NEW c \in Commands, Moves(c),
         UNCHANGED <<intent, sale>>,
         recoveryRun' \in {"none", "started", "completed"},
         recoveryRun # "none" => recoveryRun' # "none",
         broken' \in 0 .. MaxBrokenCommands,
         Sells(c)' => recoveryRun' # "none" /\ (Sells(c) \/ \A d \in Commands : ~Sells(d)),
         Behind(c)'
  PROVE  RecoveryInv'
<1>1. Typed' BY DEF RecoveryInv, Typed, Moves
<1>2. Alone' BY DEF RecoveryInv, Alone, Sells, Moves
<1>3. ASSUME NEW d \in Commands \ {c} PROVE Behind(d)'
  BY <1>3 DEF RecoveryInv, Behind, Sells, Moves
<1>4. SaleHasItsIntent' BY DEF RecoveryInv, SaleHasItsIntent
<1>5. SecondSaleAfterFirst' BY DEF RecoveryInv, SecondSaleAfterFirst, Held
<1> QED BY <1>1, <1>2, <1>3, <1>4, <1>5 DEF RecoveryInv

\* What a selling command does to the sales concerns no other command.
LEMMA OthersBehind ==
  ASSUME RecoveryInv, NEW c \in Commands, Moves(c), Sells(c)
  PROVE  Alone' /\ \A d \in Commands \ {c} : Behind(d)'
<1>1. Alone' BY DEF RecoveryInv, Alone, Sells, Moves
<1>2. ASSUME NEW d \in Commands \ {c} PROVE Behind(d)'
  <2>1. ~Sells(d) /\ recovery'[d] = recovery[d] BY <1>2 DEF RecoveryInv, Alone, Moves
  <2> QED BY <1>2, <2>1 DEF RecoveryInv, Behind, Sells, Selling
<1> QED BY <1>1, <1>2

\* Of a step within a sale that only moves the command on.
LEMMA MovesOn ==
  ASSUME RecoveryInv, NEW c \in Commands, Moves(c), Sells(c),
         UNCHANGED <<intent, sale, recoveryRun, broken>>,
         recovery'[c].symbol = recovery[c].symbol,
         recovery'[c].pc \in (Selling \cup {"ended"}) \ {"place", "placed", "terminal"}
  PROVE  RecoveryInv'
<1>1. Behind(c)'
  <2>1. recoveryRun # "none" BY DEF RecoveryInv, Behind
  <2>2. recovery'[c].pc \notin {"idle", "checking", "place", "placed", "terminal"}
    BY DEF Selling
  <2> QED BY <2>1, <2>2 DEF RecoveryInv, Behind, Sells
<1>2. recoveryRun # "none" BY DEF RecoveryInv, Behind
<1> QED BY <1>1, <1>2, OnlyMoves DEF RecoveryInv, Typed

\* Goto moves a command and nothing else.
LEMMA Went ==
  ASSUME RecoveryInv, NEW c \in Commands, NEW pc \in Locations, Goto(c, pc)
  PROVE  /\ Moves(c)
         /\ recovery'[c].pc = pc /\ recovery'[c].symbol = recovery[c].symbol
         /\ recovery'[c].answer = recovery[c].answer
BY DEF RecoveryInv, Typed, Goto, Moves, CommandRecords

LEMMA GiveKeeps ==
  ASSUME RecoveryInv, NEW c \in Commands, GiveRecovery(c)
  PROVE  RecoveryInv'
<1>1. Moves(c) /\ recovery'[c].pc = "checking" /\ recovery'[c].symbol = recovery[c].symbol
  BY DEF RecoveryInv, Typed, GiveRecovery, Moves, CommandRecords, Locations
<1>2. recovery[c].symbol = "QQQ" BY DEF RecoveryInv, Behind, GiveRecovery, At
<1>3. Behind(c)' /\ ~Sells(c)' BY <1>1, <1>2 DEF Behind, Sells, Selling
<1> QED BY <1>1, <1>3, OnlyMoves DEF GiveRecovery, RecoveryInv, Typed

LEMMA CheckKeeps ==
  ASSUME RecoveryInv, NEW c \in Commands, NEW what \in {"orders", "positions"},
         CheckBroker(c, what)
  PROVE  RecoveryInv'
<1> DEFINE pc == IF CASE what = "orders" -> AnySaleOpen
                      [] what = "positions" -> \E s \in RECOVERY_POSITIONS : Held(s) # Shares
                 THEN "ended" ELSE recovery[c].pc
<1>1. pc \in {"ended", "checking"} BY DEF CheckBroker, At
<1>2. recovery' = [recovery EXCEPT ![c].todo = @ \ {what}, ![c].pc = pc]
  BY DEF CheckBroker
<1> HIDE DEF pc
<1>3. /\ Moves(c) /\ recovery'[c].pc = pc
      /\ recovery'[c].symbol = recovery[c].symbol
  BY <1>1, <1>2 DEF RecoveryInv, Typed, Moves, CommandRecords, Locations
<1>4. recovery[c].symbol = "QQQ" BY DEF RecoveryInv, Behind, CheckBroker, At
<1>5. Behind(c)' /\ ~Sells(c)' BY <1>1, <1>3, <1>4 DEF Behind, Sells, Selling
<1> QED BY <1>3, <1>5, OnlyMoves DEF CheckBroker, RecoveryInv, Typed

\* The first command past the run's key finds no sale placed, and nobody selling.
LEMMA BeginKeeps ==
  ASSUME RecoveryInv, NEW c \in Commands, BeginRecovery(c)
  PROVE  RecoveryInv'
<1>1. recovery[c].symbol = "QQQ" BY DEF RecoveryInv, Behind, BeginRecovery, At
<1>2. CASE recoveryRun = "none"
  <2>1. Moves(c) /\ recovery'[c].pc = "intend" /\ recovery'[c].symbol = "QQQ"
    BY <1>1, <1>2, Went DEF BeginRecovery, Locations, Selling
  <2>2. \A d \in Commands : ~Sells(d) BY <1>2 DEF RecoveryInv, Behind
  <2>3. recoveryRun' = "started" BY <1>2 DEF BeginRecovery
  <2>4. sale'["IWM"].status = "none"
    BY <1>2 DEF RecoveryInv, SaleHasItsIntent, RECOVERY_POSITIONS, BeginRecovery
  <2>5. Behind(c)' BY <2>1, <2>3, <2>4 DEF Behind, Sells
  <2> QED BY <1>2, <2>1, <2>2, <2>3, <2>5, OnlyMoves DEF BeginRecovery, RecoveryInv, Typed
<1>3. CASE recoveryRun # "none"
  <2>1. Moves(c) /\ recovery'[c].pc = "ended"
    BY <1>3, Went DEF BeginRecovery, Locations
  <2>2. Behind(c)' /\ ~Sells(c)' BY <2>1 DEF Behind, Sells, Selling
  <2> QED BY <1>3, <2>1, <2>2, OnlyMoves DEF BeginRecovery, RecoveryInv, Typed
<1> QED BY <1>2, <1>3

LEMMA IntentKeeps ==
  ASSUME RecoveryInv, NEW c \in Commands, PersistIntent(c)
  PROVE  RecoveryInv'
<1> DEFINE s == recovery[c].symbol
<1>1. Sells(c) BY DEF PersistIntent, At, Sells, Selling
<1>2. Moves(c) /\ recovery'[c].pc = "place" /\ recovery'[c].symbol = s
  BY Went DEF PersistIntent, Locations, Selling
<1>3. s \in RECOVERY_POSITIONS BY DEF RecoveryInv, Typed, CommandRecords
<1>4. intent' = [intent EXCEPT ![s] = "recovery_intent_recorded"] BY DEF PersistIntent
<1>5. Typed' BY <1>2, <1>3, <1>4 DEF RecoveryInv, Typed, PersistIntent, Moves, IntentStatuses
<1>6. intent'[s] # "none" /\ \A p \in RECOVERY_POSITIONS : intent[p] # "none" => intent'[p] # "none"
  BY <1>3, <1>4 DEF RecoveryInv, Typed
<1>7. Behind(c)' BY <1>1, <1>2, <1>6 DEF RecoveryInv, Behind, Sells, PersistIntent
<1>8. SaleHasItsIntent' BY <1>6 DEF RecoveryInv, SaleHasItsIntent, PersistIntent
<1>9. SecondSaleAfterFirst' BY DEF RecoveryInv, SecondSaleAfterFirst, Held, PersistIntent
<1> QED BY <1>1, <1>2, <1>5, <1>7, <1>8, <1>9, OthersBehind DEF RecoveryInv

LEMMA PlaceKeeps ==
  ASSUME RecoveryInv, NEW c \in Commands, NEW answer \in Answers, PlaceSale(c, answer)
  PROVE  RecoveryInv'
<1> DEFINE s == recovery[c].symbol
           filled == IF answer = "filled" THEN Shares ELSE 0
<1>1. Sells(c) /\ recoveryRun # "none"
  BY DEF RecoveryInv, Behind, PlaceSale, At, Sells, Selling
<1>2. /\ Moves(c) /\ recovery'[c].pc = "placed" /\ recovery'[c].symbol = s
      /\ recovery'[c].answer = answer
  BY ZenonT(40) DEF RecoveryInv, Typed, PlaceSale, Moves, CommandRecords, Locations, Selling
<1>3. s \in RECOVERY_POSITIONS BY DEF RecoveryInv, Typed, CommandRecords
<1>4. sale' = [sale EXCEPT ![s] = [status |-> answer, filled |-> filled]] BY DEF PlaceSale
<1>5. filled \in 0 .. Shares BY RecoveryAssumption
<1> HIDE DEF filled
<1>6. Typed'
  <2>1. [status |-> answer, filled |-> filled] \in [status : SaleStatuses, filled : 0 .. Shares]
    BY <1>5 DEF Answers, SaleStatuses
  <2> QED BY <1>2, <1>3, <1>4, <2>1 DEF RecoveryInv, Typed, PlaceSale, Moves
<1>7. sale'[s].status = answer /\ \A p \in RECOVERY_POSITIONS \ {s} : sale'[p] = sale[p]
  BY <1>3, <1>4 DEF RecoveryInv, Typed
<1>8. SaleHasItsIntent'
  <2>1. intent[s] # "none" BY DEF RecoveryInv, Behind, PlaceSale, At
  <2> QED BY <1>1, <1>7, <2>1 DEF RecoveryInv, SaleHasItsIntent, PlaceSale
<1>9. CASE s = "QQQ"
  <2>1. sale'["IWM"].status = "none"
    BY <1>1, <1>7, <1>9 DEF RecoveryInv, Behind, RECOVERY_POSITIONS
  <2>2. Behind(c)' BY <1>1, <1>2, <1>9, <2>1 DEF Behind, Sells, PlaceSale
  <2>3. SecondSaleAfterFirst' BY <2>1 DEF SecondSaleAfterFirst
  <2> QED BY <1>1, <1>2, <1>6, <1>8, <2>2, <2>3, OthersBehind DEF RecoveryInv
<1>10. CASE s = "IWM"
  <2>1. sale["QQQ"].filled = Shares /\ sale'["QQQ"] = sale["QQQ"]
    BY <1>1, <1>7, <1>10 DEF RecoveryInv, Behind, RECOVERY_POSITIONS
  <2>2. Behind(c)' BY <1>1, <1>2, <1>10, <2>1 DEF Behind, Sells, PlaceSale
  <2>3. SecondSaleAfterFirst' BY <2>1, RecoveryAssumption DEF SecondSaleAfterFirst, Held
  <2> QED BY <1>1, <1>2, <1>6, <1>8, <2>2, <2>3, OthersBehind DEF RecoveryInv
<1> QED BY <1>3, <1>9, <1>10 DEF RECOVERY_POSITIONS

LEMMA UpdateKeeps ==
  ASSUME RecoveryInv, NEW c \in Commands, Sells(c),
         NEW status \in IntentStatuses \ {"none"}, NEW next \in {"poll", "quiet"},
         UpdateRow(c, status, next), UNCHANGED <<recoveryRun, sale, broken>>
  PROVE  RecoveryInv'
<1> DEFINE s == recovery[c].symbol
<1>1. s \in RECOVERY_POSITIONS BY DEF RecoveryInv, Typed, CommandRecords
<1>2. CASE intent[s] \in UPDATEABLE
  <2>1. intent' = [intent EXCEPT ![s] = status] /\ Goto(c, next)
    BY <1>2 DEF UpdateRow
  <2>2. Moves(c) /\ recovery'[c].pc = next /\ recovery'[c].symbol = s
    BY <2>1, Went DEF Locations, Selling
  <2>3. Typed' BY <1>1, <2>1, <2>2 DEF RecoveryInv, Typed, Moves
  <2>4. \A p \in RECOVERY_POSITIONS : intent[p] # "none" => intent'[p] # "none"
    BY <1>1, <2>1 DEF RecoveryInv, Typed
  <2>5. Behind(c)' BY <2>2 DEF RecoveryInv, Behind, Sells
  <2>6. SaleHasItsIntent' BY <2>4 DEF RecoveryInv, SaleHasItsIntent
  <2>7. SecondSaleAfterFirst' BY DEF RecoveryInv, SecondSaleAfterFirst, Held
  <2> QED BY <2>2, <2>3, <2>5, <2>6, <2>7, OthersBehind DEF RecoveryInv
<1>3. CASE intent[s] \notin UPDATEABLE
  <2>1. Goto(c, "ended") /\ UNCHANGED intent BY <1>3 DEF UpdateRow
  <2>2. Moves(c) /\ recovery'[c].pc = "ended" /\ recovery'[c].symbol = s
    BY <2>1, Went DEF Locations
  <2> QED BY <2>1, <2>2, MovesOn
<1> QED BY <1>2, <1>3

LEMMA PollKeeps ==
  ASSUME RecoveryInv, NEW c \in Commands, NEW phase \in {"poll", "repoll"},
         NEW next \in {"cancel", "ended"}, PollSale(c, phase, next)
  PROVE  RecoveryInv'
<1> DEFINE over == Sale(c).status \in TERMINAL_STATUSES
           polls == IF Sale(c).status \notin TERMINAL_STATUSES /\ recovery[c].polls < Polls
                    THEN recovery[c].polls + 1 ELSE 0
           pc == IF over THEN "terminal" ELSE IF recovery[c].polls < Polls THEN phase ELSE next
<1>1. Sells(c) BY DEF PollSale, At, Sells, Selling
<1>2. recovery' = [recovery EXCEPT ![c].polls = polls, ![c].pc = pc] BY DEF PollSale, At
<1>3. recovery[c].polls \in 0 .. Polls BY DEF RecoveryInv, Typed, CommandRecords
<1>4. polls \in 0 .. Polls BY <1>3, RecoveryAssumption
<1>5. pc \in {"terminal", "poll", "repoll", "cancel", "ended"} /\ (pc = "terminal" => over)
  OBVIOUS
<1> HIDE DEF polls, pc, over
<1>6. /\ Moves(c) /\ recovery'[c].pc = pc
      /\ recovery'[c].symbol = recovery[c].symbol
  BY <1>2, <1>4, <1>5, ZenonT(40) DEF RecoveryInv, Typed, Moves, CommandRecords, Locations, Selling
<1>7. UNCHANGED <<recoveryRun, intent, sale, broken>> BY DEF PollSale
<1>8. CASE pc = "terminal"
  <2>1. sale[recovery[c].symbol].status \in TERMINAL_STATUSES
    BY <1>5, <1>8 DEF over, Sale
  <2>2. Behind(c)' BY <1>1, <1>6, <1>7, <1>8, <2>1 DEF RecoveryInv, Behind, Sells
  <2>3. recoveryRun # "none" BY <1>1 DEF RecoveryInv, Behind
  <2> QED BY <1>1, <1>6, <1>7, <2>2, <2>3, OnlyMoves DEF RecoveryInv, Typed
<1>9. CASE pc # "terminal"
  BY <1>1, <1>5, <1>6, <1>7, <1>9, MovesOn DEF Selling
<1> QED BY <1>8, <1>9

\* What the broker, or a cancel, does to a sale that is open.
LEMMA OpenSaleChanges ==
  ASSUME RecoveryInv, NEW s \in RECOVERY_POSITIONS, sale[s].status \in OPEN,
         NEW r \in [status : SaleStatuses \ {"none"}, filled : 0 .. Shares],
         sale' = [sale EXCEPT ![s] = r], r.filled >= sale[s].filled,
         UNCHANGED <<recoveryRun, intent, broken>>
  PROVE  /\ sale' \in [RECOVERY_POSITIONS -> [status : SaleStatuses, filled : 0 .. Shares]]
         /\ SaleHasItsIntent' /\ SecondSaleAfterFirst'
         /\ sale["IWM"].status = "none" => sale'["IWM"].status = "none"
         /\ sale["QQQ"].filled = Shares => sale'["QQQ"].filled = Shares
         /\ \A p \in RECOVERY_POSITIONS : sale[p].status \in TERMINAL_STATUSES =>
              sale'[p].status \in TERMINAL_STATUSES
<1>1. sale'[s] = r /\ \A p \in RECOVERY_POSITIONS \ {s} : sale'[p] = sale[p]
  BY DEF RecoveryInv, Typed
<1>2. sale' \in [RECOVERY_POSITIONS -> [status : SaleStatuses, filled : 0 .. Shares]]
  BY DEF RecoveryInv, Typed
<1>3. sale[s].status # "none" /\ sale[s].status \notin TERMINAL_STATUSES
  BY DEF OPEN, TERMINAL_STATUSES
<1>4. \A p \in RECOVERY_POSITIONS : sale[p].status = "none" => sale'[p].status = "none"
  BY <1>1, <1>3
<1>5. \A p \in RECOVERY_POSITIONS : sale[p].filled \in 0 .. Shares
  BY DEF RecoveryInv, Typed
<1>6. \A p \in RECOVERY_POSITIONS : sale[p].filled = Shares => sale'[p].filled = Shares
  BY <1>1, <1>5, RecoveryAssumption
<1>7. SaleHasItsIntent' BY <1>1, <1>3 DEF RecoveryInv, SaleHasItsIntent
<1>8. SecondSaleAfterFirst'
  <2> SUFFICES ASSUME sale'["IWM"].status # "none" PROVE Held("QQQ")' = 0
    BY DEF SecondSaleAfterFirst
  <2>1. sale["IWM"].status # "none" BY <1>4 DEF RECOVERY_POSITIONS
  <2>2. sale["QQQ"].filled = Shares
    BY <2>1, <1>5, RecoveryAssumption
    DEF RecoveryInv, SecondSaleAfterFirst, Held, RECOVERY_POSITIONS
  <2> QED BY <2>2, <1>6, RecoveryAssumption DEF Held, RECOVERY_POSITIONS
<1>9. \A p \in RECOVERY_POSITIONS : sale[p].status \in TERMINAL_STATUSES =>
        sale'[p].status \in TERMINAL_STATUSES
  BY <1>1, <1>3
<1> QED BY <1>2, <1>4, <1>6, <1>7, <1>8, <1>9 DEF RECOVERY_POSITIONS

LEMMA BrokerKeeps ==
  ASSUME RecoveryInv, NEW s \in RECOVERY_POSITIONS, sale[s].status \in OPEN,
         NEW r \in [status : SaleStatuses \ {"none"}, filled : 0 .. Shares],
         sale' = [sale EXCEPT ![s] = r], r.filled >= sale[s].filled,
         UNCHANGED <<recovery, recoveryRun, intent, broken>>
  PROVE  RecoveryInv'
<1>1. /\ sale' \in [RECOVERY_POSITIONS -> [status : SaleStatuses, filled : 0 .. Shares]]
      /\ SaleHasItsIntent' /\ SecondSaleAfterFirst'
      /\ sale["IWM"].status = "none" => sale'["IWM"].status = "none"
      /\ sale["QQQ"].filled = Shares => sale'["QQQ"].filled = Shares
      /\ \A p \in RECOVERY_POSITIONS : sale[p].status \in TERMINAL_STATUSES =>
           sale'[p].status \in TERMINAL_STATUSES
  BY OpenSaleChanges
<1>2. Typed' /\ Alone' BY <1>1 DEF RecoveryInv, Typed, Alone, Sells
<1>3. ASSUME NEW c \in Commands PROVE Behind(c)'
  <2>1. recovery[c].symbol \in RECOVERY_POSITIONS BY DEF RecoveryInv, Typed, CommandRecords
  <2> QED BY <1>1, <2>1 DEF RecoveryInv, Behind, Sells
<1> QED BY <1>1, <1>2, <1>3 DEF RecoveryInv

LEMMA CancelKeeps ==
  ASSUME RecoveryInv, NEW c \in Commands, CancelSale(c)
  PROVE  RecoveryInv'
<1> DEFINE s == recovery[c].symbol
           r == [sale[s] EXCEPT !.status = "pending_cancel"]
<1>1. Sells(c) /\ s \in RECOVERY_POSITIONS
  BY DEF RecoveryInv, Typed, CommandRecords, CancelSale, At, Sells, Selling
<1>2. CASE Sale(c).status \in OPEN
  <2>1. /\ sale' = [sale EXCEPT ![s].status = "pending_cancel"]
        /\ Goto(c, "repoll") /\ UNCHANGED <<recoveryRun, intent, broken>>
    BY <1>2 DEF CancelSale
  <2>2. Moves(c) /\ recovery'[c].pc = "repoll" /\ recovery'[c].symbol = s
    BY <2>1, Went DEF Locations, Selling
  <2>3. sale[s] \in [status : SaleStatuses, filled : 0 .. Shares]
    BY <1>1 DEF RecoveryInv, Typed
  <2>4. /\ r \in [status : SaleStatuses \ {"none"}, filled : 0 .. Shares]
        /\ r.filled >= sale[s].filled /\ sale' = [sale EXCEPT ![s] = r]
    BY <1>1, <2>1, <2>3, RecoveryAssumption DEF SaleStatuses, RecoveryInv, Typed
  <2>5. sale[s].status \in OPEN BY <1>2 DEF Sale
  <2> HIDE DEF r
  <2>6. /\ sale' \in [RECOVERY_POSITIONS -> [status : SaleStatuses, filled : 0 .. Shares]]
        /\ SaleHasItsIntent' /\ SecondSaleAfterFirst'
        /\ sale["IWM"].status = "none" => sale'["IWM"].status = "none"
        /\ sale["QQQ"].filled = Shares => sale'["QQQ"].filled = Shares
    BY <1>1, <2>1, <2>4, <2>5, OpenSaleChanges
  <2>7. Typed' BY <2>1, <2>2, <2>6 DEF RecoveryInv, Typed, Moves
  <2>8. Behind(c)' BY <1>1, <2>1, <2>2, <2>6 DEF RecoveryInv, Behind, Sells
  <2> QED BY <1>1, <2>2, <2>6, <2>7, <2>8, OthersBehind DEF RecoveryInv
<1>3. CASE Sale(c).status \notin OPEN
  <2>1. Goto(c, "ended") /\ UNCHANGED <<recoveryRun, intent, sale, broken>>
    BY <1>3 DEF CancelSale
  <2>2. Moves(c) /\ recovery'[c].pc = "ended" /\ recovery'[c].symbol = s
    BY <2>1, Went DEF Locations
  <2> QED BY <1>1, <2>1, <2>2, MovesOn
<1> QED BY <1>2, <1>3

LEMMA QuietKeeps ==
  ASSUME RecoveryInv, NEW c \in Commands, AwaitQuiet(c)
  PROVE  RecoveryInv'
<1>1. Sells(c) BY DEF AwaitQuiet, At, Sells, Selling
<1>2. PICK pc \in {"ended", "residual"} : Goto(c, pc) BY DEF AwaitQuiet
<1>3. Moves(c) /\ recovery'[c].pc = pc /\ recovery'[c].symbol = recovery[c].symbol
  BY <1>2, Went DEF Locations, Selling
<1> QED BY <1>1, <1>3, MovesOn DEF AwaitQuiet, Selling

\* The first symbol's sale filled exactly, so nothing of it is held when the
\* command turns to the second.
LEMMA ResidualKeeps ==
  ASSUME RecoveryInv, NEW c \in Commands, VerifyResidual(c)
  PROVE  RecoveryInv'
<1> DEFINE pc == IF ~SoldExactly(c) THEN "ended"
                 ELSE IF recovery[c].symbol = "QQQ" THEN "intend" ELSE "final"
<1>1. Sells(c) /\ recoveryRun # "none"
  BY DEF RecoveryInv, Behind, VerifyResidual, At, Sells, Selling
<1>2. recovery' = [recovery EXCEPT ![c].symbol = "IWM", ![c].pc = pc]
  BY DEF VerifyResidual
<1>3. recovery[c].symbol \in {"QQQ", "IWM"}
  BY DEF RecoveryInv, Typed, CommandRecords, RECOVERY_POSITIONS
<1>4. /\ pc \in {"ended", "intend", "final"}
      /\ pc = "intend" => SoldExactly(c) /\ recovery[c].symbol = "QQQ"
      /\ pc = "final" => recovery[c].symbol = "IWM"
  BY <1>3
<1> HIDE DEF pc
<1> DEFINE second == "IWM"
<1>5. pc \in Locations /\ second \in RECOVERY_POSITIONS
  BY <1>4 DEF Locations, Selling, RECOVERY_POSITIONS
<1>6. recovery' = [recovery EXCEPT ![c].symbol = second, ![c].pc = pc] BY <1>2
<1> HIDE DEF second
<1>7. Moves(c) /\ recovery'[c].pc = pc /\ recovery'[c].symbol = second
  BY <1>5, <1>6 DEF RecoveryInv, Typed, Moves, CommandRecords
<1>8. Moves(c) /\ recovery'[c].pc = pc /\ recovery'[c].symbol = "IWM"
  BY <1>7 DEF second
<1>9. UNCHANGED <<recoveryRun, intent, sale, broken>> BY DEF VerifyResidual
<1>10. pc \in Selling => sale["QQQ"].filled = Shares
  <2>1. CASE pc = "intend" BY <1>4, <2>1 DEF SoldExactly, Sale
  <2>2. CASE pc = "final" BY <1>1, <1>4, <2>2 DEF RecoveryInv, Behind
  <2> QED BY <1>4, <2>1, <2>2 DEF Selling
<1>11. Behind(c)' BY <1>1, <1>4, <1>8, <1>9, <1>10 DEF Behind, Sells, Selling
<1> QED BY <1>1, <1>8, <1>9, <1>11, OnlyMoves DEF RecoveryInv, Typed

LEMMA CompleteKeeps ==
  ASSUME RecoveryInv, NEW c \in Commands, CompleteRecovery(c)
  PROVE  RecoveryInv'
<1>1. Moves(c) /\ recovery'[c].pc = "ended"
  BY Went DEF CompleteRecovery, Locations
<1>2. Behind(c)' /\ ~Sells(c)' BY <1>1 DEF Behind, Sells, Selling
<1>3. /\ recoveryRun' \in {"none", "started", "completed"}
      /\ recoveryRun # "none" => recoveryRun' # "none"
  BY DEF CompleteRecovery, RecoveryInv, Typed
<1> QED BY <1>1, <1>2, <1>3, OnlyMoves DEF CompleteRecovery, RecoveryInv, Typed

LEMMA BreakKeeps ==
  ASSUME RecoveryInv, NEW c \in Commands, BreakRecovery(c)
  PROVE  RecoveryInv'
<1>1. Moves(c) /\ recovery'[c].pc = "ended" BY Went DEF BreakRecovery, Locations
<1>2. Behind(c)' /\ ~Sells(c)' BY <1>1 DEF Behind, Sells, Selling
<1>3. broken' \in 0 .. MaxBrokenCommands
  BY RecoveryAssumption DEF BreakRecovery, RecoveryInv, Typed
<1> QED BY <1>1, <1>2, <1>3, OnlyMoves DEF BreakRecovery, RecoveryInv, Typed

LEMMA FillKeeps ==
  ASSUME RecoveryInv, NEW s \in RECOVERY_POSITIONS, FillSale(s)
  PROVE  RecoveryInv'
<1> DEFINE status == IF sale[s].filled + 1 = Shares THEN "filled"
                     ELSE IF sale[s].status = "accepted" THEN "partially_filled"
                     ELSE sale[s].status
           filled == sale[s].filled + 1
<1>1. /\ sale[s] \in [status : SaleStatuses, filled : 0 .. Shares]
      /\ sale[s].status \in OPEN /\ sale[s].filled < Shares
  BY DEF RecoveryInv, Typed, FillSale
<1>2. sale' = [sale EXCEPT ![s].filled = filled, ![s].status = status]
  BY <1>1 DEF FillSale, RecoveryInv, Typed
<1>3. filled \in 0 .. Shares /\ filled >= sale[s].filled BY <1>1, RecoveryAssumption
<1>4. status \in SaleStatuses \ {"none"} BY <1>1 DEF OPEN, SaleStatuses
<1> HIDE DEF status, filled
<1> DEFINE r == [sale[s] EXCEPT !.filled = filled, !.status = status]
<1>5. /\ r \in [status : SaleStatuses \ {"none"}, filled : 0 .. Shares]
      /\ r.filled >= sale[s].filled
  BY <1>1, <1>3, <1>4
<1>6. sale' = [sale EXCEPT ![s] = r] BY <1>1, <1>2 DEF RecoveryInv, Typed
<1> HIDE DEF r
<1> QED BY <1>1, <1>5, <1>6, BrokerKeeps DEF FillSale

LEMMA EndKeeps ==
  ASSUME RecoveryInv, NEW s \in RECOVERY_POSITIONS, EndSale(s)
  PROVE  RecoveryInv'
<1> DEFINE r == [sale[s] EXCEPT !.status = "canceled"]
<1>1. sale[s] \in [status : SaleStatuses, filled : 0 .. Shares] /\ sale[s].status \in OPEN
  BY DEF RecoveryInv, Typed, EndSale
<1>2. /\ r \in [status : SaleStatuses \ {"none"}, filled : 0 .. Shares]
      /\ r.filled >= sale[s].filled
  BY <1>1, RecoveryAssumption DEF SaleStatuses
<1>3. sale' = [sale EXCEPT ![s] = r] BY DEF EndSale
<1> HIDE DEF r
<1> QED BY <1>1, <1>2, <1>3, BrokerKeeps DEF EndSale

LEMMA StepKeepsRecovery ==
  RecoveryInv /\ [RecoveryNext]_recoveryVars => RecoveryInv'
<1> SUFFICES ASSUME RecoveryInv, [RecoveryNext]_recoveryVars PROVE RecoveryInv' OBVIOUS
<1>1. ASSUME NEW c \in Commands, RecoveryStep(c) PROVE RecoveryInv'
  <2>1. CASE \E what \in {"orders", "positions"} : CheckBroker(c, what)
    BY <2>1, CheckKeeps
  <2>2. CASE BeginRecovery(c) BY <2>2, BeginKeeps
  <2>3. CASE PersistIntent(c) BY <2>3, IntentKeeps
  <2>4. CASE \E answer \in {"accepted", "filled", "rejected"} : PlaceSale(c, answer)
    BY <2>4, PlaceKeeps DEF Answers
  <2>5. CASE RecordAnswer(c)
    <3>1. /\ Sells(c) /\ recovery[c].answer \in IntentStatuses \ {"none"}
          /\ UpdateRow(c, recovery[c].answer, "poll") /\ UNCHANGED <<recoveryRun, sale, broken>>
      BY <2>5 DEF RecordAnswer, At, Sells, Selling, RecoveryInv, Behind, Answers, IntentStatuses
    <3> QED BY <3>1, UpdateKeeps
  <2>6. CASE PollSale(c, "poll", "cancel") BY <2>6, PollKeeps
  <2>7. CASE CancelSale(c) BY <2>7, CancelKeeps
  <2>8. CASE PollSale(c, "repoll", "ended") BY <2>8, PollKeeps
  <2>9. CASE RecordTerminal(c)
    <3>1. /\ Sells(c) /\ Sale(c).status \in IntentStatuses \ {"none"}
          /\ UpdateRow(c, Sale(c).status, "quiet") /\ UNCHANGED <<recoveryRun, sale, broken>>
      BY <2>9 DEF RecordTerminal, At, Sells, Selling, RecoveryInv, Behind, Sale,
                  TERMINAL_STATUSES, IntentStatuses
    <3> QED BY <3>1, UpdateKeeps
  <2>10. CASE AwaitQuiet(c) BY <2>10, QuietKeeps
  <2>11. CASE VerifyResidual(c) BY <2>11, ResidualKeeps
  <2>12. CASE CompleteRecovery(c) BY <2>12, CompleteKeeps
  <2> QED
    BY <1>1, <2>1, <2>2, <2>3, <2>4, <2>5, <2>6, <2>7, <2>8, <2>9, <2>10, <2>11, <2>12
    DEF RecoveryStep
<1>2. CASE UNCHANGED recoveryVars
  BY <1>2 DEF RecoveryInv, Typed, Alone, Sells, Behind, SaleHasItsIntent,
              SecondSaleAfterFirst, Held, recoveryVars
<1> QED
  BY <1>1, <1>2, GiveKeeps, BreakKeeps, FillKeeps, EndKeeps
  DEF RecoveryNext, RecoveryOver

LEMMA RecoveryInvariant == RecoverySpec => []RecoveryInv
BY InitRecovery, StepKeepsRecovery, PTL DEF RecoverySpec

\* Commands, the run, intents and sales stay what they are meant to be.
THEOREM RecoveryTypeCorrect == RecoverySpec => []RecoveryTypeOK
<1>1. RecoveryInv => RecoveryTypeOK
  BY DEF RecoveryInv, Typed, CommandRecords, RecoveryTypeOK, IntentStatuses, SaleStatuses
<1> QED BY <1>1, RecoveryInvariant, PTL

\* However many commands are given, and wherever they die, a sale the broker
\* may hold has its intent stored under a run that stops a second command.
THEOREM IntentsRecorded == RecoverySpec => []SaleHasItsIntent
<1>1. RecoveryInv => SaleHasItsIntent BY DEF RecoveryInv
<1> QED BY <1>1, RecoveryInvariant, PTL

\* The second position is offered only once the first is gone.
THEOREM SalesInOrder == RecoverySpec => []SecondSaleAfterFirst
<1>1. RecoveryInv => SecondSaleAfterFirst BY DEF RecoveryInv
<1> QED BY <1>1, RecoveryInvariant, PTL

(***************************************************************************)
(* RoundTrip: any number of calls that raise.                              *)
(***************************************************************************)
Places ==
  {"ready", "open", "opening", "close", "closing", "left", "flat", "complete",
   "incident", "latch", "fail", "over"}

\* Orders are counted by the attempts while the command places them.
Counted ==
  /\ trip \in {"ready", "open"} => Len(tripOrders) = 0 /\ attempt = 0
  /\ trip = "opening" => Len(tripOrders) = 1 /\ attempt = 0
  /\ trip = "close" => Len(tripOrders) = 1 + attempt /\ attempt < CLOSE_ATTEMPTS
  /\ trip \in {"closing", "left"} => Len(tripOrders) = 1 + attempt

Opened == Len(tripOrders) >= 1 /\ tripOrders[1] = "filled"

\* A spread can only come from the opening order, once; a command that sells
\* has seen it filled, and one that completes has seen the account flat.
Explained ==
  /\ spreads > 0 => Opened
  /\ trip \in {"close", "closing", "left", "flat", "complete"} => Opened
  /\ trip = "complete" => spreads = 0
  /\ tripRun = "completed" => trip = "over" /\ spreads = 0 /\ Opened
  /\ tripRun = "failed" => trip = "over"
  /\ trip = "fail" \/ tripRun = "failed" => spreads = 0 \/ tripSwitch \/ missed

TripInv == RoundTripTypeOK /\ trip \in Places /\ Counted /\ Explained

LEMMA InitTrip == RoundTripInit => TripInv
<1> SUFFICES ASSUME RoundTripInit PROVE TripInv OBVIOUS
<1>1. tripOrders \in Seq(OrderStatuses) /\ Len(tripOrders) = 0 BY DEF RoundTripInit
<1>2. RoundTripTypeOK
  <2>1. tripFaults \in 0 .. MaxTripFaults BY RoundTripAssumption DEF RoundTripInit
  <2>2. attempt \in 0 .. CLOSE_ATTEMPTS /\ Len(tripOrders) <= 1 + CLOSE_ATTEMPTS
    BY <1>1 DEF RoundTripInit, CLOSE_ATTEMPTS
  <2>3. /\ spreads \in {0, 1} /\ tripRun \in {"none", "started", "completed", "failed"}
        /\ tripSwitch \in BOOLEAN /\ missed \in BOOLEAN
    BY DEF RoundTripInit
  <2> QED BY <1>1, <2>1, <2>2, <2>3 DEF RoundTripTypeOK
<1>3. Counted BY <1>1 DEF RoundTripInit, Counted
<1>4. Explained BY DEF RoundTripInit, Explained
<1> QED BY <1>2, <1>3, <1>4 DEF TripInv, RoundTripInit, Places

\* An order that is placed leaves the earlier ones as they are.
LEMMA PlacedOrder ==
  ASSUME NEW s \in Seq(OrderStatuses)
  PROVE  /\ Append(s, "working") \in Seq(OrderStatuses)
         /\ Len(Append(s, "working")) = Len(s) + 1
         /\ Len(s) >= 1 => Append(s, "working")[1] = s[1]
         /\ Len(s) = 0 => Append(s, "working")[1] = "working"
<1>1. "working" \in OrderStatuses BY DEF OrderStatuses
<1> QED BY <1>1, AppendProperties

LEMMA ChangedOrder ==
  ASSUME NEW s \in Seq(OrderStatuses), NEW i \in DOMAIN s, NEW status \in OrderStatuses
  PROVE  /\ [s EXCEPT ![i] = status] \in Seq(OrderStatuses)
         /\ Len([s EXCEPT ![i] = status]) = Len(s)
         /\ [s EXCEPT ![i] = status][i] = status
         /\ \A j \in DOMAIN s \ {i} : [s EXCEPT ![i] = status][j] = s[j]
BY ExceptSeq

\* A cancel is only asked of an order that has not filled.
LEMMA CanceledOrder ==
  ASSUME tripOrders \in Seq(OrderStatuses), Len(tripOrders) >= 1
  PROVE  /\ CancelRequested \in Seq(OrderStatuses)
         /\ Len(CancelRequested) = Len(tripOrders)
         /\ tripOrders[1] = "filled" => CancelRequested[1] = "filled"
<1> DEFINE n == Len(tripOrders)
           status == IF tripOrders[n] = "working" THEN "canceling" ELSE tripOrders[n]
<1>1. n \in DOMAIN tripOrders /\ 1 \in DOMAIN tripOrders OBVIOUS
<1>2. status \in OrderStatuses BY <1>1 DEF OrderStatuses
<1>3. CancelRequested = [tripOrders EXCEPT ![n] = status] BY DEF CancelRequested
<1>4. tripOrders[n] = "filled" => status = "filled" OBVIOUS
<1> HIDE DEF n, status
<1> QED BY <1>1, <1>2, <1>3, <1>4, ChangedOrder DEF n

\* Steps that leave the orders and the account alone.
LEMMA QuietStep ==
  ASSUME TripInv, UNCHANGED <<attempt, tripOrders, spreads, missed>>,
         trip' \in Places, tripRun' \in {"none", "started", "completed", "failed"},
         tripSwitch' \in BOOLEAN, tripFaults' \in 0 .. MaxTripFaults,
         Counted', Explained'
  PROVE  TripInv'
BY DEF TripInv, RoundTripTypeOK

LEMMA BeginTripKeeps == ASSUME TripInv, BeginTrip PROVE TripInv'
BY DEF TripInv, RoundTripTypeOK, Places, Counted, Explained, Opened, BeginTrip, TakeStep

LEMMA PlaceOpenKeeps == ASSUME TripInv, PlaceOpen PROVE TripInv'
<1>1. tripOrders' \in Seq(OrderStatuses) /\ Len(tripOrders') = 1
  BY DEF PlaceOpen, OrderStatuses
<1>2. spreads = 0 BY DEF TripInv, RoundTripTypeOK, PlaceOpen, TakeStep, Counted, Explained, Opened
<1> QED
  BY <1>1, <1>2 DEF TripInv, RoundTripTypeOK, Places, Counted, Explained, Opened, PlaceOpen,
                    TakeStep, CLOSE_ATTEMPTS

LEMMA LoseAnswerKeeps == ASSUME TripInv, LoseAnswer PROVE TripInv'
<1>1. tripOrders \in Seq(OrderStatuses) BY DEF TripInv, RoundTripTypeOK
<1>2. /\ tripOrders' \in Seq(OrderStatuses) /\ Len(tripOrders') = Len(tripOrders) + 1
      /\ Len(tripOrders) >= 1 => tripOrders'[1] = tripOrders[1]
  BY <1>1, PlacedOrder DEF LoseAnswer
<1>3. Len(tripOrders') <= 1 + CLOSE_ATTEMPTS
  BY <1>2 DEF TripInv, RoundTripTypeOK, Counted, LoseAnswer, CLOSE_ATTEMPTS
<1>4. tripFaults' \in 0 .. MaxTripFaults
  BY RoundTripAssumption DEF TripInv, RoundTripTypeOK, LoseAnswer
<1>5. Opened => Opened' BY <1>1, <1>2 DEF Opened
<1> QED
  BY <1>2, <1>3, <1>4, <1>5
  DEF TripInv, RoundTripTypeOK, Places, Counted, Explained, LoseAnswer

LEMMA OpeningKeeps ==
  ASSUME TripInv, OpenFilled \/ OpenFailed PROVE TripInv'
BY DEF TripInv, RoundTripTypeOK, Places, Counted, Explained, Opened, OpenFilled, OpenFailed,
       TakeStep, Latest, CLOSE_ATTEMPTS

LEMMA TimedOutKeeps ==
  ASSUME TripInv, OpenTimedOut \/ CloseTimedOut PROVE TripInv'
<1>1. tripOrders \in Seq(OrderStatuses) /\ Len(tripOrders) >= 1
  BY DEF TripInv, RoundTripTypeOK, Counted, OpenTimedOut, CloseTimedOut, TakeStep
<1>2. /\ tripOrders' \in Seq(OrderStatuses) /\ Len(tripOrders') = Len(tripOrders)
      /\ Opened => Opened'
  BY <1>1, CanceledOrder DEF OpenTimedOut, CloseTimedOut, Opened
<1> QED
  BY <1>2 DEF TripInv, RoundTripTypeOK, Places, Counted, Explained, OpenTimedOut,
              CloseTimedOut, TakeStep

LEMMA PlaceCloseKeeps == ASSUME TripInv, PlaceClose PROVE TripInv'
<1>1. tripOrders \in Seq(OrderStatuses) BY DEF TripInv, RoundTripTypeOK
<1>2. /\ tripOrders' \in Seq(OrderStatuses) /\ Len(tripOrders') = Len(tripOrders) + 1
      /\ Len(tripOrders) >= 1 => tripOrders'[1] = tripOrders[1]
  BY <1>1, PlacedOrder DEF PlaceClose
<1>3. Opened => Opened' BY <1>1, <1>2 DEF Opened
<1>4. attempt' \in 0 .. CLOSE_ATTEMPTS /\ Len(tripOrders') = 1 + attempt'
  BY <1>2 DEF TripInv, RoundTripTypeOK, Counted, PlaceClose, TakeStep, CLOSE_ATTEMPTS
<1> QED
  BY <1>2, <1>3, <1>4
  DEF TripInv, RoundTripTypeOK, Places, Counted, Explained, PlaceClose, TakeStep,
      CLOSE_ATTEMPTS

LEMMA ClosingKeeps ==
  ASSUME TripInv, CloseFilled \/ CloseFailed \/ \E legs \in {1, 2} : LookAfterClose(legs)
  PROVE  TripInv'
BY DEF TripInv, RoundTripTypeOK, Places, Counted, Explained, Opened, CloseFilled, CloseFailed,
       LookAfterClose, TakeStep, MayRetry, CLOSE_ATTEMPTS

LEMMA EndingKeeps ==
  ASSUME TripInv,
         \/ WaitUntilFlat \/ CompleteTrip \/ LookForResidual \/ SetKillSwitch \/ FailTrip
  PROVE  TripInv'
<1>1. CASE WaitUntilFlat
  BY <1>1 DEF TripInv, RoundTripTypeOK, Places, Counted, Explained, Opened, WaitUntilFlat,
              TakeStep
<1>2. CASE CompleteTrip
  BY <1>2 DEF TripInv, RoundTripTypeOK, Places, Counted, Explained, Opened, CompleteTrip,
              TakeStep
<1>3. CASE LookForResidual
  BY <1>3 DEF TripInv, RoundTripTypeOK, Places, Counted, Explained, Opened, LookForResidual,
              TakeStep
<1>4. CASE SetKillSwitch
  BY <1>4 DEF TripInv, RoundTripTypeOK, Places, Counted, Explained, Opened, SetKillSwitch,
              TakeStep
<1>5. CASE FailTrip
  BY <1>5 DEF TripInv, RoundTripTypeOK, Places, Counted, Explained, Opened, FailTrip,
              TakeStep
<1> QED BY <1>1, <1>2, <1>3, <1>4, <1>5

LEMMA FaultKeeps == ASSUME TripInv, RaiseInTrip \/ CrashTrip PROVE TripInv'
<1>1. tripFaults' \in 0 .. MaxTripFaults
  BY RoundTripAssumption DEF TripInv, RoundTripTypeOK, RaiseInTrip, CrashTrip
<1> QED
  BY <1>1 DEF TripInv, RoundTripTypeOK, Places, Counted, Explained, Opened, RaiseInTrip,
              CrashTrip

\* Only the opening order's fill adds a spread, and it fills once.
LEMMA FillTripKeeps ==
  ASSUME TripInv, NEW i \in DOMAIN tripOrders, FillTripOrder(i) PROVE TripInv'
<1>1. tripOrders \in Seq(OrderStatuses) /\ i \in 1 .. Len(tripOrders)
  BY DEF TripInv, RoundTripTypeOK
<1>2. /\ tripOrders' \in Seq(OrderStatuses) /\ Len(tripOrders') = Len(tripOrders)
      /\ tripOrders'[i] = "filled"
      /\ \A j \in DOMAIN tripOrders \ {i} : tripOrders'[j] = tripOrders[j]
  BY <1>1, ChangedOrder DEF FillTripOrder, OrderStatuses
<1>3. missed' \in BOOLEAN BY DEF FillTripOrder
<1>4. CASE i = 1
  <2>1. ~Opened /\ Opened' BY <1>1, <1>2, <1>4 DEF FillTripOrder, Opened
  <2>2. spreads = 0 /\ spreads' = 1
    BY <1>4, <2>1 DEF TripInv, RoundTripTypeOK, Explained, FillTripOrder
  <2>3. trip \in {"fail", "over"} => missed' BY <1>4 DEF FillTripOrder
  <2> QED
    BY <1>2, <1>3, <2>1, <2>2, <2>3
    DEF TripInv, RoundTripTypeOK, Counted, Explained, FillTripOrder
<1>5. CASE i # 1
  <2>1. spreads' = 0 BY <1>5 DEF TripInv, RoundTripTypeOK, FillTripOrder
  <2>2. Opened => Opened' BY <1>1, <1>2, <1>5 DEF Opened
  <2> QED
    BY <1>2, <1>3, <2>1, <2>2
    DEF TripInv, RoundTripTypeOK, Counted, Explained, FillTripOrder
<1> QED BY <1>4, <1>5

LEMMA EndTripKeeps ==
  ASSUME TripInv, NEW i \in DOMAIN tripOrders, EndTripOrder(i) PROVE TripInv'
<1>1. tripOrders \in Seq(OrderStatuses) /\ i \in 1 .. Len(tripOrders)
  BY DEF TripInv, RoundTripTypeOK
<1>2. /\ tripOrders' \in Seq(OrderStatuses) /\ Len(tripOrders') = Len(tripOrders)
      /\ \A j \in DOMAIN tripOrders \ {i} : tripOrders'[j] = tripOrders[j]
  BY <1>1, ChangedOrder DEF EndTripOrder, OrderStatuses
<1>3. Opened => Opened' BY <1>1, <1>2 DEF EndTripOrder, Opened
<1> QED BY <1>2, <1>3 DEF TripInv, RoundTripTypeOK, Counted, Explained, EndTripOrder

LEMMA StepKeepsTrip == TripInv /\ [RoundTripNext]_tripVars => TripInv'
<1> SUFFICES ASSUME TripInv, [RoundTripNext]_tripVars PROVE TripInv' OBVIOUS
<1>1. CASE TripStep
  BY <1>1, PlaceOpenKeeps, OpeningKeeps, TimedOutKeeps, PlaceCloseKeeps, ClosingKeeps,
     EndingKeeps
  DEF TripStep
<1>2. CASE UNCHANGED tripVars
  BY <1>2 DEF TripInv, RoundTripTypeOK, Counted, Explained, Opened, tripVars
<1> QED
  BY <1>1, <1>2, BeginTripKeeps, LoseAnswerKeeps, FaultKeeps, FillTripKeeps, EndTripKeeps
  DEF RoundTripNext, TripOver

LEMMA TripInvariant == RoundTripSpec => []TripInv
BY InitTrip, StepKeepsTrip, PTL DEF RoundTripSpec

\* At most four orders are ever placed and at most one spread is held.
THEOREM TripTypeCorrect == RoundTripSpec => []RoundTripTypeOK
<1>1. TripInv => RoundTripTypeOK BY DEF TripInv
<1> QED BY <1>1, TripInvariant, PTL

\* The run's row tells what the command left behind, however many calls raise
\* and whatever its canceled orders still do.
THEOREM ExposureTold == RoundTripSpec => []RunTellsExposure
<1>1. TripInv => RunTellsExposure
  BY DEF TripInv, RoundTripTypeOK, Explained, RunTellsExposure
<1> QED BY <1>1, TripInvariant, PTL

(***************************************************************************)
(* WebCache: every endpoint, timeout and set of requests.                  *)
(***************************************************************************)
States == {"none", "queued", "reading", "served", "degraded"}
Ages == 0 .. Oldest

WebTyped ==
  /\ endpoint \in Endpoints
  /\ request \in [Requests -> States]
  /\ queue \in Seq(Requests)
  /\ asked \in [Requests -> Ages]
  /\ DOMAIN cache = {"kept", "age", "data", "ok"} /\ cache.age \in Ages
  /\ reading \in Ages /\ spared \in Ages

\* Who reads holds the lock, and took the time when its read began.
ReaderHolds ==
  \A r \in Requests : request[r] = "reading" => Holder(r) /\ asked[r] <= reading

\* What is cached is no older than it says.
Stamped ==
  /\ cache.kept => cache.age <= spared
  /\ ~cache.kept => endpoint.cacheAge <= spared

CacheInv == WebTyped /\ ReaderHolds /\ Stamped

LEMMA OldestIsAge ==
  ASSUME endpoint \in Endpoints
  PROVE  Oldest \in Nat /\ endpoint.cacheAge \in Nat /\ endpoint.cacheAge <= Oldest
BY WebAssumption DEF Oldest

LEMMA AgesGrow ==
  ASSUME endpoint \in Endpoints, NEW a \in Ages, NEW b \in Ages
  PROVE  Older(a) \in Ages /\ Older(a) >= a /\ (a <= b => Older(a) <= Older(b))
<1>1. Oldest \in Nat BY OldestIsAge
<1> QED BY <1>1 DEF Ages, Older

LEMMA InitCache == WebInit => CacheInv
<1> SUFFICES ASSUME WebInit PROVE CacheInv OBVIOUS
<1>1. Oldest \in Nat /\ endpoint.cacheAge <= Oldest BY OldestIsAge DEF WebInit
<1>2. DOMAIN cache = {"kept", "age", "data", "ok"} /\ cache.age = 0 /\ ~cache.kept
  BY DEF WebInit
<1>3. queue \in Seq(Requests) BY DEF WebInit
<1>4. WebTyped BY <1>1, <1>2, <1>3 DEF WebInit, WebTyped, States, Ages
<1> QED BY <1>1, <1>2, <1>4 DEF WebInit, CacheInv, ReaderHolds, Stamped

\* The lock has one holder.
LEMMA OneHolder ==
  ASSUME NEW r \in Requests, NEW s \in Requests, Holder(r), Holder(s)
  PROVE  r = s
BY DEF Holder

LEMMA AskKeeps == ASSUME CacheInv, NEW r \in Requests, Ask(r) PROVE CacheInv'
<1>1. endpoint' = endpoint /\ cache' = cache /\ reading' = reading /\ spared' = spared
  BY DEF Ask
<1>2. Oldest \in Nat BY OldestIsAge DEF CacheInv, WebTyped
<1> DEFINE answer == IF Fresh THEN Answer ELSE "queued"
<1>3. answer \in States \ {"reading"} BY DEF Answer, States
<1>4. request' = [request EXCEPT ![r] = answer] BY DEF Ask
<1> HIDE DEF answer
<1>5. /\ request' \in [Requests -> States] /\ request'[r] # "reading"
      /\ \A s \in Requests \ {r} : request'[s] = request[s]
  BY <1>3, <1>4 DEF CacheInv, WebTyped
<1>6. /\ queue' \in Seq(Requests)
      /\ queue # <<>> => queue' # <<>> /\ Head(queue') = Head(queue)
  <2>1. queue \in Seq(Requests) BY DEF CacheInv, WebTyped
  <2> QED BY <2>1, AppendProperties, HeadTailAppend DEF Ask
<1>7. asked' = [asked EXCEPT ![r] = 0] BY DEF Ask
<1>8. asked' \in [Requests -> Ages] /\ \A s \in Requests \ {r} : asked'[s] = asked[s]
  BY <1>2, <1>7 DEF CacheInv, WebTyped, Ages
<1>9. WebTyped' BY <1>1, <1>5, <1>6, <1>8 DEF CacheInv, WebTyped, Ages, Oldest
<1>10. ReaderHolds' BY <1>1, <1>5, <1>6, <1>8 DEF CacheInv, ReaderHolds, Holder
<1>11. Stamped' BY <1>1 DEF CacheInv, Stamped
<1> QED BY <1>9, <1>10, <1>11 DEF CacheInv

\* A holder that leaves is the only one that may have been reading.
LEMMA LeaveKeeps ==
  ASSUME CacheInv, NEW r \in Requests, Holder(r), NEW state \in States \ {"reading"},
         request' = [request EXCEPT ![r] = state], queue' = Tail(queue),
         UNCHANGED <<endpoint, asked, reading>>,
         DOMAIN cache' = DOMAIN cache, cache'.age \in Ages, spared' \in Ages, Stamped'
  PROVE  CacheInv'
<1>1. queue' \in Seq(Requests) BY DEF CacheInv, WebTyped, Holder
<1>2. /\ request' \in [Requests -> States]
      /\ \A s \in Requests : request'[s] # "reading"
  <2>1. ASSUME NEW s \in Requests \ {r} PROVE request'[s] # "reading"
    BY OneHolder DEF CacheInv, WebTyped, ReaderHolds
  <2> QED BY <2>1 DEF CacheInv, WebTyped
<1>3. WebTyped' BY <1>1, <1>2 DEF CacheInv, WebTyped, Ages, Oldest
<1> QED BY <1>2, <1>3 DEF CacheInv, ReaderHolds

LEMMA ServeKeeps == ASSUME CacheInv, NEW r \in Requests, ServeUnderLock(r) PROVE CacheInv'
<1>1. Answer \in States \ {"reading"} BY DEF Answer, States
<1>2. Stamped' BY DEF ServeUnderLock, CacheInv, Stamped
<1> QED BY <1>1, <1>2, LeaveKeeps DEF ServeUnderLock, CacheInv, WebTyped

LEMMA StartKeeps == ASSUME CacheInv, NEW r \in Requests, StartRead(r) PROVE CacheInv'
<1>1. Oldest \in Nat BY OldestIsAge DEF CacheInv, WebTyped
<1>2. /\ request' = [request EXCEPT ![r] = "reading"] /\ asked' = [asked EXCEPT ![r] = 0]
      /\ reading' = 0 /\ UNCHANGED <<endpoint, queue, cache, spared>> /\ Holder(r)
  BY DEF StartRead, AskedUnderTheLock
<1>3. WebTyped' BY <1>1, <1>2 DEF CacheInv, WebTyped, Ages, Oldest, States
<1>4. \A s \in Requests \ {r} : request'[s] # "reading"
  <2> TAKE s \in Requests \ {r}
  <2>1. request'[s] = request[s] BY <1>2 DEF CacheInv, WebTyped
  <2> QED BY <1>2, <2>1, OneHolder DEF CacheInv, ReaderHolds
<1>5. asked'[r] <= reading' /\ Holder(r)' BY <1>2 DEF CacheInv, WebTyped, Holder
<1>6. ReaderHolds' BY <1>4, <1>5 DEF ReaderHolds
<1>7. Stamped' BY <1>2 DEF CacheInv, Stamped
<1> QED BY <1>3, <1>6, <1>7 DEF CacheInv

\* What is kept was read after its reader took the time.
LEMMA ReadKeeps ==
  ASSUME CacheInv, NEW r \in Requests, ReadSucceeds(r) \/ ReadFails(r)
  PROVE  CacheInv'
<1>1. request[r] = "reading" /\ Holder(r) /\ asked[r] <= reading
  BY DEF CacheInv, ReaderHolds, ReadSucceeds, ReadFails
<1>2. PICK state \in {"served", "degraded"} : request' = [request EXCEPT ![r] = state]
  BY DEF ReadSucceeds, ReadFails
<1>3. queue' = Tail(queue) /\ UNCHANGED <<endpoint, asked, reading>>
  BY DEF ReadSucceeds, ReadFails
<1>4. asked[r] \in Ages /\ reading \in Ages BY DEF CacheInv, WebTyped
<1>5. CASE \E ok \in BOOLEAN : Keep(r, ok)
  <2>1. PICK ok \in BOOLEAN : Keep(r, ok) BY <1>5
  <2>2. /\ DOMAIN cache' = {"kept", "age", "data", "ok"} /\ cache'.age = asked[r]
        /\ cache'.kept /\ spared' = reading
    BY <2>1 DEF Keep
  <2>3. Stamped' BY <1>1, <2>2 DEF Stamped
  <2>4. DOMAIN cache' = DOMAIN cache BY <2>2 DEF CacheInv, WebTyped
  <2> QED BY <1>1, <1>2, <1>3, <1>4, <2>2, <2>3, <2>4, LeaveKeeps DEF States
<1>6. CASE UNCHANGED <<cache, spared>>
  <2>1. Stamped' BY <1>3, <1>6 DEF CacheInv, Stamped
  <2>2. cache'.age \in Ages /\ spared' \in Ages BY <1>6 DEF CacheInv, WebTyped
  <2> QED BY <1>1, <1>2, <1>3, <1>6, <2>1, <2>2, LeaveKeeps DEF States
<1> QED BY <1>5, <1>6 DEF ReadSucceeds, ReadFails

LEMMA TickKeeps == ASSUME CacheInv, Tick PROVE CacheInv'
<1>1. UNCHANGED <<endpoint, request, queue>> /\ endpoint \in Endpoints
  BY DEF Tick, CacheInv, WebTyped
<1>2. /\ reading \in Ages /\ spared \in Ages /\ cache.age \in Ages
      /\ \A r \in Requests : asked[r] \in Ages
  BY DEF CacheInv, WebTyped
<1>3. reading' = Older(reading) /\ spared' = Older(spared) BY DEF Tick
<1>4. asked' = [r \in Requests |-> Older(asked[r])] BY DEF Tick
<1> DEFINE age == Older(cache.age)
           data == Older(cache.data)
<1>5. cache' = [cache EXCEPT !.age = age, !.data = data] BY DEF Tick
<1>6. age \in Ages /\ (cache.age <= spared => age <= spared')
  BY <1>1, <1>2, <1>3, AgesGrow
<1> HIDE DEF age, data
<1>7. DOMAIN cache' = DOMAIN cache /\ cache'.age = age /\ cache'.kept = cache.kept
  BY <1>5 DEF CacheInv, WebTyped
<1>8. reading' \in Ages /\ spared' \in Ages /\ spared' >= spared
  BY <1>1, <1>2, <1>3, AgesGrow
<1>9. \A r \in Requests : asked'[r] \in Ages /\ (asked[r] <= reading => asked'[r] <= reading')
  BY <1>1, <1>2, <1>3, <1>4, AgesGrow
<1>10. WebTyped'
  <2>1. Ages' = Ages BY <1>1 DEF Ages, Oldest
  <2> QED BY <1>1, <1>4, <1>6, <1>7, <1>8, <1>9, <2>1 DEF CacheInv, WebTyped
<1>11. ReaderHolds' BY <1>1, <1>9 DEF CacheInv, ReaderHolds, Holder
<1>12. Stamped'
  <2>1. endpoint.cacheAge \in Nat BY <1>1, OldestIsAge
  <2>2. spared \in Int /\ spared' \in Int BY <1>1, <1>2, <1>8, OldestIsAge DEF Ages
  <2>3. cache'.kept => cache'.age <= spared' BY <1>6, <1>7 DEF CacheInv, Stamped
  <2>4. ~cache'.kept => endpoint'.cacheAge <= spared'
    BY <1>1, <1>7, <1>8, <2>1, <2>2 DEF CacheInv, Stamped
  <2> QED BY <2>3, <2>4 DEF Stamped
<1> QED BY <1>10, <1>11, <1>12 DEF CacheInv

LEMMA StepKeepsCache == CacheInv /\ [WebNext]_webVars => CacheInv'
<1> SUFFICES ASSUME CacheInv, [WebNext]_webVars PROVE CacheInv' OBVIOUS
<1>1. CASE UNCHANGED webVars
  BY <1>1 DEF CacheInv, WebTyped, ReaderHolds, Stamped, Holder, Ages, Oldest, webVars
<1> QED
  BY <1>1, AskKeeps, ServeKeeps, StartKeeps, ReadKeeps, TickKeeps
  DEF WebNext, WebStep, ReadTimesOut

LEMMA CacheInvariant == WebSpec => []CacheInv
BY InitCache, StepKeepsCache, PTL DEF WebSpec

\* However many requests queue for the lock and however long their reads take,
\* an answer that was kept spares the broker a read for the endpoint's cache age.
THEOREM BrokerIsSpared == WebSpec => BrokerSpared
<1>1. ASSUME CacheInv, NEW r \in Requests, StartRead(r)
      PROVE  spared >= endpoint.cacheAge
  <2>1. /\ endpoint \in Endpoints /\ cache.age \in Ages /\ spared \in Ages
    BY <1>1 DEF CacheInv, WebTyped
  <2>2. /\ endpoint.cacheAge \in Int /\ cache.age \in Int /\ spared \in Int
    BY <2>1, OldestIsAge DEF Ages
  <2> QED BY <1>1, <2>2 DEF StartRead, Fresh, CacheInv, Stamped
<1>2. CacheInv => [\A r \in Requests : StartRead(r) => spared >= endpoint.cacheAge]_webVars
  BY <1>1
<1> QED BY <1>2, CacheInvariant, PTL DEF WebSpec, BrokerSpared

\* The queue holds every waiting request once.
Lined ==
  /\ \A i, j \in 1 .. Len(queue) : queue[i] = queue[j] => i = j
  /\ \A i \in 1 .. Len(queue) : request[queue[i]] \in {"queued", "reading"}

LEMMA LineStep ==
  ASSUME CacheInv, Lined, cache.data \in Ages, [WebNext]_webVars
  PROVE  Lined' /\ cache'.data \in Ages'
<1>0. /\ queue \in Seq(Requests) /\ request \in [Requests -> States] /\ asked \in [Requests -> Ages]
      /\ endpoint \in Endpoints /\ DOMAIN cache = {"kept", "age", "data", "ok"}
      /\ \A i \in 1 .. Len(queue) : queue[i] \in Requests
  BY DEF CacheInv, WebTyped
<1>1. Ages' = Ages /\ 0 \in Ages
  <2>1. endpoint' = endpoint
    BY DEF WebNext, Tick, Ask, WebStep, ServeUnderLock, StartRead, ReadTimesOut, ReadSucceeds,
           ReadFails, webVars
  <2>2. Oldest \in Nat BY <1>0, OldestIsAge
  <2> QED BY <2>1, <2>2 DEF Ages, Oldest
<1>2. ASSUME NEW r \in Requests, Ask(r) PROVE Lined' /\ cache'.data \in Ages
  <2>1. CASE Fresh
    <3>1. queue' = queue /\ request[r] \notin {"queued", "reading"} /\ cache' = cache
          /\ \A s \in Requests \ {r} : request'[s] = request[s]
      BY <1>0, <1>2, <2>1 DEF Ask
    <3>2. \A i \in 1 .. Len(queue) : queue[i] # r BY <3>1 DEF Lined
    <3> QED BY <1>0, <3>1, <3>2 DEF Lined
  <2>2. CASE ~Fresh
    <3>1. /\ queue' = Append(queue, r) /\ request[r] \notin {"queued", "reading"} /\ cache' = cache
          /\ request'[r] = "queued" /\ \A s \in Requests \ {r} : request'[s] = request[s]
      BY <1>0, <1>2, <2>2 DEF Ask
    <3>2. \A i \in 1 .. Len(queue) : queue[i] # r BY <3>1 DEF Lined
    <3>3. /\ Len(queue') = Len(queue) + 1 /\ queue'[Len(queue) + 1] = r
          /\ \A i \in 1 .. Len(queue) : queue'[i] = queue[i]
      BY <1>0, <3>1
    <3> QED BY <1>0, <3>1, <3>2, <3>3 DEF Lined
  <2> QED BY <2>1, <2>2
<1>3. ASSUME NEW r \in Requests, Holder(r), queue' = Tail(queue),
             \A s \in Requests \ {r} : request'[s] = request[s]
      PROVE  Lined'
  <2>1. Len(queue) >= 1 /\ queue[1] = r BY <1>0, <1>3 DEF Holder
  <2>2. Len(queue') = Len(queue) - 1 /\ \A i \in 1 .. Len(queue') : queue'[i] = queue[i + 1]
    BY <1>0, <1>3, <2>1
  <2>3. \A i \in 1 .. Len(queue') : i + 1 \in 1 .. Len(queue) /\ queue[i + 1] # r
    BY <1>0, <2>1, <2>2 DEF Lined
  <2> QED BY <1>0, <1>3, <2>2, <2>3 DEF Lined
<1>4. ASSUME NEW r \in Requests, ServeUnderLock(r) PROVE Lined' /\ cache'.data \in Ages
  <2>1. \A s \in Requests \ {r} : request'[s] = request[s]
    BY <1>0, <1>4 DEF ServeUnderLock
  <2> QED BY <1>3, <1>4, <2>1 DEF ServeUnderLock
<1>5. ASSUME NEW r \in Requests, StartRead(r) PROVE Lined' /\ cache'.data \in Ages
  BY <1>0, <1>5 DEF StartRead, Lined
<1>6. ASSUME NEW r \in Requests, ReadSucceeds(r) \/ ReadFails(r)
      PROVE  Lined' /\ cache'.data \in Ages
  <2>1. Holder(r) BY <1>6 DEF CacheInv, ReaderHolds, ReadSucceeds, ReadFails
  <2>2. \A s \in Requests \ {r} : request'[s] = request[s]
    BY <1>0, <1>6 DEF ReadSucceeds, ReadFails
  <2>3. cache'.data \in Ages BY <1>1, <1>6 DEF ReadSucceeds, ReadFails, Keep
  <2> QED BY <1>3, <1>6, <2>1, <2>2, <2>3 DEF ReadSucceeds, ReadFails
<1>7. CASE Tick
  <2> DEFINE age == Older(cache.age)
             data == Older(cache.data)
  <2>1. cache' = [cache EXCEPT !.age = age, !.data = data] BY <1>7 DEF Tick
  <2>2. data \in Ages BY <1>0, AgesGrow
  <2> HIDE DEF age, data
  <2>3. cache'.data = data BY <1>0, <2>1
  <2> QED BY <1>1, <1>7, <2>2, <2>3 DEF Tick, Lined
<1>8. CASE UNCHANGED webVars
  BY <1>1, <1>8 DEF webVars, Lined
<1> QED BY <1>1, <1>2, <1>4, <1>5, <1>6, <1>7, <1>8 DEF WebNext, WebStep, ReadTimesOut

LEMMA LineType == CacheInv /\ Lined /\ cache.data \in Ages => WebTypeOK
<1> SUFFICES ASSUME CacheInv, Lined, cache.data \in Ages PROVE WebTypeOK
  OBVIOUS
<1>1. queue \in Seq(Requests) /\ IsFiniteSet(Requests) /\ Len(queue) \in Nat
  BY WebAssumption DEF CacheInv, WebTyped
<1> DEFINE places == 1 .. Len(queue)
<1>2. IsFiniteSet(places) /\ Cardinality(places) = Len(queue)
  BY <1>1, FS_Interval
<1>3. queue \in [places -> Requests] BY <1>1
<1>4. Cardinality(Requests) \in Nat BY <1>1, FS_CardinalityType
<1>5. ~(Cardinality(Requests) < Cardinality(places))
  <2> SUFFICES ASSUME Cardinality(Requests) < Cardinality(places) PROVE FALSE
    OBVIOUS
  <2>1. \E i, j \in places : i # j /\ queue[i] = queue[j]
    BY <1>1, <1>2, <1>3, FS_PigeonHole
  <2> QED BY <2>1 DEF Lined
<1>6. Len(queue) <= Cardinality(Requests) BY <1>1, <1>2, <1>4, <1>5
<1> QED BY <1>6 DEF CacheInv, WebTyped, WebTypeOK, Ages

LEMMA InitLine == WebInit => Lined /\ cache.data \in Ages
<1> SUFFICES ASSUME WebInit PROVE Lined /\ cache.data \in Ages OBVIOUS
<1>1. Oldest \in Nat BY OldestIsAge DEF WebInit
<1> QED BY <1>1 DEF WebInit, Lined, Ages

(***************************************************************************)
(* BusinessReporting: every calendar, interval and number of snapshots.    *)
(***************************************************************************)
\* The period of a report built now.
PeriodNow ==
  IF reportTime >= EodSnapshot THEN EodSnapshot
  ELSE IF reportTime < ScoringStart THEN Boundary(0) ELSE Boundary(ScoringStart)

\* Reports recorded, or on their way.
Told == recorded \cup submission.report

Backs(s, r) ==
  /\ Counts(s) /\ s.at = r.from /\ s.at <= r.period
  /\ s.at < ScoringStart <=> r.period <= ScoringStart

\* A report rests on a snapshot that counts, of the side of the scoring's start
\* its period is on; no report is ahead of the period of now.
ReportingInv ==
  /\ reportTime \in Nat /\ reportTime <= LastReport
  /\ snapshots \subseteq [at : 0 .. reportTime, run : {"started", "completed", "failed"}]
  /\ submission.attempt \in 0 .. MAX_ATTEMPTS
  /\ submission.sending <=> submission.report # {}
  /\ \A r \in Told : r.period \in Nat /\ r.from \in Nat /\ r.period <= PeriodNow
  /\ \A r \in Told : \E s \in snapshots : Backs(s, r)
  /\ \A r1, r2 \in Told : r1.period < r2.period => r1.from <= r2.from

\* The boundary of an instant is the last one not after it.
LEMMA BoundaryIsLast ==
  ASSUME reportTime \in Nat, NEW origin \in Nat, origin <= reportTime
  PROVE  /\ Boundary(origin) \in Nat
         /\ origin <= Boundary(origin) /\ Boundary(origin) <= reportTime
<1>1. reportTime - origin \in Nat /\ ReportInterval \in Nat \ {0} BY ReportingAssumption
<1> QED BY <1>1, Quotient DEF Boundary

\* A later instant has no earlier boundary.
LEMMA BoundariesGrow ==
  ASSUME NEW t \in Nat, NEW u \in Nat, NEW origin \in Nat, origin <= t, t <= u,
         NEW n \in Nat \ {0}
  PROVE  origin + ((t - origin) \div n) * n <= origin + ((u - origin) \div n) * n
<1> DEFINE d == t - origin
           e == u - origin
<1>1. d \in Nat /\ e \in Nat /\ d <= e OBVIOUS
<1> HIDE DEF d, e
<1>2. /\ d \div n \in Nat /\ (d \div n) * n \in Nat /\ (d \div n) * n <= d
      /\ e \div n \in Nat /\ (e \div n) * n \in Nat /\ e < (e \div n) * n + n
  BY <1>1, Quotient
<1>3. CASE e \div n < d \div n
  <2>1. (e \div n) * n + n <= (d \div n) * n BY <1>2, <1>3, Multiples
  <2>2. QED BY <1>1, <1>2, <2>1
<1>4. CASE d \div n < e \div n
  <2>1. (d \div n) * n + n <= (e \div n) * n BY <1>2, <1>4, Multiples
  <2>2. QED BY <1>1, <1>2, <2>1 DEF d, e
<1>5. CASE d \div n = e \div n
  BY <1>2, <1>5 DEF d, e
<1> QED BY <1>2, <1>3, <1>4, <1>5

\* The period of now lies within the calendar and never goes back.
LEMMA PeriodType ==
  ASSUME reportTime \in Nat
  PROVE  /\ PeriodNow \in Nat /\ PeriodNow <= reportTime
         /\ reportTime < ScoringStart => PeriodNow < ScoringStart
         /\ reportTime >= ScoringStart => PeriodNow >= ScoringStart
<1>1. 0 \in Nat /\ 0 <= reportTime /\ ScoringStart \in Nat /\ EodSnapshot \in Nat
      /\ ScoringStart < EodSnapshot
  BY ReportingAssumption
<1>2. Boundary(0) \in Nat /\ Boundary(0) <= reportTime BY <1>1, BoundaryIsLast
<1>3. ScoringStart <= reportTime =>
        /\ Boundary(ScoringStart) \in Nat /\ ScoringStart <= Boundary(ScoringStart)
        /\ Boundary(ScoringStart) <= reportTime
  BY <1>1, BoundaryIsLast
<1> QED BY <1>1, <1>2, <1>3 DEF PeriodNow

LEMMA PeriodsGrow ==
  ASSUME reportTime \in Nat, reportTime' = reportTime + 1
  PROVE  PeriodNow <= PeriodNow'
<1> USE ReportingAssumption
<1>1. reportTime' \in Nat /\ reportTime <= reportTime' OBVIOUS
<1>2. PeriodNow <= reportTime /\ PeriodNow \in Nat /\ EodSnapshot \in Nat /\ ScoringStart \in Nat
      /\ ReportInterval \in Nat \ {0} /\ 0 \in Nat /\ 0 <= reportTime
      /\ ScoringStart < EodSnapshot
  BY PeriodType
<1>3. CASE reportTime' >= EodSnapshot
  BY <1>1, <1>2, <1>3, BoundaryIsLast DEF PeriodNow
<1>4. CASE reportTime' < EodSnapshot /\ reportTime' < ScoringStart
  <2>1. Boundary(0) <= Boundary(0)'
    BY <1>1, <1>2, BoundariesGrow DEF Boundary
  <2>2. PeriodNow = Boundary(0) /\ PeriodNow' = Boundary(0)'
    BY <1>1, <1>2, <1>4 DEF PeriodNow
  <2>3. QED BY <2>1, <2>2
<1>5. CASE reportTime' < EodSnapshot /\ reportTime' >= ScoringStart /\ reportTime < ScoringStart
  <2>1. PeriodNow' = Boundary(ScoringStart)' BY <1>5 DEF PeriodNow
  <2>2. Boundary(ScoringStart)' = ScoringStart
          + ((reportTime' - ScoringStart) \div ReportInterval) * ReportInterval
    BY DEF Boundary
  <2>3. reportTime' - ScoringStart \in Nat BY <1>1, <1>2, <1>5
  <2>4. ((reportTime' - ScoringStart) \div ReportInterval) * ReportInterval \in Nat
    BY <1>2, <2>3, Quotient
  <2>5. QED BY <1>2, <1>5, <2>1, <2>2, <2>4
<1>6. CASE reportTime' < EodSnapshot /\ reportTime >= ScoringStart
  <2>1. Boundary(ScoringStart) <= Boundary(ScoringStart)'
    BY <1>1, <1>2, <1>6, BoundariesGrow DEF Boundary
  <2>2. PeriodNow = Boundary(ScoringStart) /\ PeriodNow' = Boundary(ScoringStart)'
    BY <1>1, <1>2, <1>6 DEF PeriodNow
  <2>3. QED BY <2>1, <2>2
<1> QED BY <1>1, <1>2, <1>3, <1>4, <1>5, <1>6

\* A report built now has the period of now and rests on the newest snapshot
\* that counts of its side of the scoring's start.
LEMMA BuiltRests ==
  ASSUME ReportingInv, NEW r \in Built
  PROVE  /\ r.period = PeriodNow /\ r.period \in Nat /\ r.from \in Nat
         /\ \E s \in snapshots : Backs(s, r)
         /\ \A s \in snapshots :
              /\ Counts(s) /\ s.at <= r.period
              /\ s.at < ScoringStart <=> r.period <= ScoringStart
              => s.at <= r.from
<1> USE ReportingAssumption
<1>0. /\ reportTime \in Nat /\ ScoringStart \in Nat /\ EodSnapshot \in Nat
      /\ ScoringStart < EodSnapshot
      /\ \A s \in snapshots : s.at \in 0 .. reportTime
  BY DEF ReportingInv
<1>1. ASSUME NEW times \in SUBSET (0 .. reportTime), NEW period, NEW status,
             r \in Report(times, period, status)
      PROVE  /\ r.period = period /\ r.from = Max(times) /\ times # {}
             /\ Max(times) \in times /\ \A n \in times : n <= Max(times)
  <2>1. times # {} /\ r = [period |-> period, status |-> status, from |-> Max(times)]
    BY <1>1 DEF Report
  <2>2. Max(times) \in times /\ \A n \in times : n <= Max(times)
    BY <1>0, <2>1, MaxIsElement
  <2>3. QED BY <2>1, <2>2
<1>2. \A until : Official(until) \in SUBSET (0 .. reportTime)
                 /\ PreScoring(until) \in SUBSET (0 .. reportTime)
  BY <1>0 DEF Official, PreScoring
<1>3. CASE reportTime >= EodSnapshot
  <2>1. r \in Report(Official(EodSnapshot) \cap {EodSnapshot}, EodSnapshot, "final")
    BY <1>3 DEF Built
  <2>2. Official(EodSnapshot) \cap {EodSnapshot} \in SUBSET (0 .. reportTime) BY <1>2
  <2>3. r.period = EodSnapshot /\ r.from = EodSnapshot /\ EodSnapshot \in Official(EodSnapshot)
    BY <1>1, <2>1, <2>2
  <2>4. PICK s \in snapshots : Counts(s) /\ s.at = EodSnapshot BY <2>3 DEF Official
  <2>5. Backs(s, r) BY <1>0, <2>3, <2>4 DEF Backs
  <2>6. QED BY <1>0, <1>3, <2>3, <2>5 DEF PeriodNow
<1>4. ASSUME NEW period \in Nat, period <= ScoringStart, NEW status,
             r \in Report(PreScoring(period), period, status), period = PeriodNow
      PROVE  /\ r.period = PeriodNow /\ r.period \in Nat /\ r.from \in Nat
             /\ \E s \in snapshots : Backs(s, r)
             /\ \A s \in snapshots :
                  Counts(s) /\ s.at <= r.period /\ s.at < ScoringStart => s.at <= r.from
             /\ r.period <= ScoringStart
  <2>1. r.period = period /\ r.from \in PreScoring(period) /\ \A n \in PreScoring(period) : n <= r.from
    BY <1>1, <1>2, <1>4
  <2>2. PICK s \in snapshots : Counts(s) /\ s.at < ScoringStart /\ s.at <= period /\ s.at = r.from
    BY <2>1 DEF PreScoring
  <2>3. Backs(s, r) /\ r.from \in Nat BY <1>0, <1>4, <2>1, <2>2 DEF Backs
  <2>4. \A z \in snapshots : Counts(z) /\ z.at <= period /\ z.at < ScoringStart
                             => z.at \in PreScoring(period)
    BY DEF PreScoring
  <2>5. QED BY <1>4, <2>1, <2>3, <2>4
<1>5. CASE reportTime < EodSnapshot /\ reportTime < ScoringStart
  <2>1. r \in Report(PreScoring(Boundary(0)), Boundary(0), "estimated") /\ PeriodNow = Boundary(0)
    BY <1>0, <1>5 DEF Built, PeriodNow
  <2>2. Boundary(0) \in Nat /\ Boundary(0) <= ScoringStart
    BY <1>0, <1>5, <2>1, PeriodType
  <2>3. QED BY <1>4, <2>1, <2>2
<1>6. CASE reportTime < EodSnapshot /\ reportTime >= ScoringStart /\ Boundary(ScoringStart) = ScoringStart
  <2>1. r \in Report(PreScoring(ScoringStart), ScoringStart, "estimated") /\ PeriodNow = ScoringStart
    BY <1>0, <1>6 DEF Built, PeriodNow
  <2>2. QED BY <1>0, <1>4, <2>1
<1>7. CASE reportTime < EodSnapshot /\ reportTime >= ScoringStart /\ Boundary(ScoringStart) # ScoringStart
  <2> DEFINE until == Boundary(ScoringStart)
  <2>1. r \in Report(Official(until), until, "estimated") /\ PeriodNow = until
    BY <1>0, <1>7 DEF Built, PeriodNow
  <2>2. until \in Nat /\ until > ScoringStart /\ until <= reportTime
    BY <1>0, <1>7, <2>1, PeriodType
  <2> HIDE DEF until
  <2>3. r.period = until /\ r.from \in Official(until) /\ \A n \in Official(until) : n <= r.from
    BY <1>1, <1>2, <2>1
  <2>4. PICK s \in snapshots : Counts(s) /\ ScoringStart <= s.at /\ s.at <= until /\ s.at = r.from
    BY <2>3 DEF Official
  <2>5. Backs(s, r) /\ r.from \in Nat BY <1>0, <2>2, <2>3, <2>4 DEF Backs
  <2>6. \A z \in snapshots : Counts(z) /\ z.at <= until /\ ~(z.at < ScoringStart)
                             => z.at \in Official(until)
    <3> SUFFICES ASSUME NEW z \in snapshots, Counts(z), z.at <= until, ~(z.at < ScoringStart)
                 PROVE  z.at \in Official(until)
      OBVIOUS
    <3>1. z.at \in 0 .. reportTime BY <1>0
    <3>2. ScoringStart <= z.at /\ z.at <= EodSnapshot BY <1>0, <1>7, <2>2, <3>1
    <3> QED BY <3>2 DEF Official
  <2>7. QED BY <2>1, <2>2, <2>3, <2>5, <2>6
<1> QED BY <1>0, <1>3, <1>5, <1>6, <1>7

\* What is told stays consistent with one more report of now.
LEMMA TellingMore ==
  ASSUME ReportingInv, NEW r1 \in Told \cup Built, NEW r2 \in Told \cup Built
  PROVE  /\ r1.period \in Nat /\ r1.from \in Nat /\ r1.period <= PeriodNow
         /\ \E s \in snapshots : Backs(s, r1)
         /\ r1.period < r2.period => r1.from <= r2.from
<1> USE ReportingAssumption
<1>1. PeriodNow \in Nat BY PeriodType DEF ReportingInv
<1>2. /\ \A r \in Told \cup Built : r.period \in Nat /\ r.from \in Nat /\ r.period <= PeriodNow
      /\ \A r \in Told \cup Built : \E s \in snapshots : Backs(s, r)
  BY <1>1, BuiltRests DEF ReportingInv
<1>3. ASSUME r1.period < r2.period PROVE r1.from <= r2.from
  <2>1. CASE r1 \in Told /\ r2 \in Told BY <1>3, <2>1 DEF ReportingInv
  <2>2. CASE r1 \in Built BY <1>1, <1>2, <1>3, <2>2, BuiltRests
  <2>3. CASE r1 \in Told /\ r2 \in Built
    <3>1. PICK s \in snapshots : Backs(s, r1) BY <1>2
    <3>2. PICK z \in snapshots : Backs(z, r2) BY <1>2
    <3>3. s.at \in Nat /\ z.at \in Nat BY DEF ReportingInv
    <3>4. CASE s.at < ScoringStart <=> r2.period <= ScoringStart
      <4>1. s.at <= r2.period /\ Counts(s) BY <1>2, <1>3, <3>1, <3>3 DEF Backs
      <4>2. s.at <= r2.from BY <2>3, <3>4, <4>1, BuiltRests
      <4>3. QED BY <3>1, <4>2 DEF Backs
    <3>5. CASE s.at < ScoringStart /\ ~(r2.period <= ScoringStart)
      BY <1>2, <3>1, <3>2, <3>3, <3>5 DEF Backs
    <3>6. CASE ~(s.at < ScoringStart) /\ r2.period <= ScoringStart
      BY <1>2, <1>3, <3>1, <3>6 DEF Backs
    <3>7. QED BY <3>4, <3>5, <3>6
  <2>4. QED BY <2>1, <2>2, <2>3
<1> QED BY <1>2, <1>3

\* A step that neither takes snapshots nor time, and tells no more than what is
\* told already and what a report of now says.
LEMMA TellsKeeps ==
  ASSUME ReportingInv, UNCHANGED <<reportTime, snapshots>>, Told' \subseteq Told \cup Built,
         submission'.attempt \in 0 .. MAX_ATTEMPTS,
         submission'.sending <=> submission'.report # {}
  PROVE  ReportingInv'
<1>1. PeriodNow' = PeriodNow BY DEF PeriodNow, Boundary
<1>2. \A s, r : Backs(s, r)' <=> Backs(s, r) BY DEF Backs, Counts
<1>3. \A r \in Told' : r.period \in Nat /\ r.from \in Nat /\ r.period <= PeriodNow'
  BY <1>1, TellingMore
<1>4. \A r \in Told' : \E s \in snapshots' : Backs(s, r)'
  BY <1>2, TellingMore
<1>5. \A r1, r2 \in Told' : r1.period < r2.period => r1.from <= r2.from
  BY TellingMore
<1> QED BY <1>3, <1>4, <1>5 DEF ReportingInv

LEMMA InitReporting == ReportingInit => ReportingInv
BY ReportingAssumption DEF ReportingInit, ReportingInv, Told, NoSubmission, MAX_ATTEMPTS

\* Time passes, runs take their snapshots and end.
LEMMA RunsKeepReports ==
  ASSUME ReportingInv,
         \/ PassTime \/ Snapshot
         \/ \E s \in snapshots, outcome \in {"completed", "failed"} : EndRun(s, outcome)
  PROVE  ReportingInv'
<1> USE ReportingAssumption
<1>0. UNCHANGED <<submission, recorded>> /\ Told' = Told
  BY DEF PassTime, Snapshot, EndRun, Told
<1>1. ASSUME reportTime' \in Nat, reportTime' <= LastReport, PeriodNow <= PeriodNow', PeriodNow \in Nat, PeriodNow' \in Nat,
             snapshots' \subseteq [at : 0 .. reportTime', run : {"started", "completed", "failed"}],
             \A s \in snapshots : Counts(s) => s \in snapshots'
      PROVE  ReportingInv'
  <2>1. \A r \in Told' : r.period \in Nat /\ r.from \in Nat /\ r.period <= PeriodNow'
    BY <1>0, <1>1 DEF ReportingInv
  <2>2. \A r \in Told' : \E s \in snapshots' : Backs(s, r)'
    <3> SUFFICES ASSUME NEW r \in Told PROVE \E s \in snapshots' : Backs(s, r)'
      BY <1>0
    <3>1. PICK s \in snapshots : Backs(s, r) BY DEF ReportingInv
    <3>2. s \in snapshots' BY <1>1, <3>1 DEF Backs
    <3>3. QED BY <3>1, <3>2 DEF Backs, Counts
  <2>3. QED BY <1>0, <1>1, <2>1, <2>2 DEF ReportingInv
<1>2. PeriodNow \in Nat BY PeriodType DEF ReportingInv
<1>3. CASE PassTime
  <2>1. /\ reportTime' = reportTime + 1 /\ reportTime' \in Nat /\ reportTime' <= LastReport
        /\ snapshots' = snapshots
    BY <1>3 DEF PassTime, ReportingInv
  <2>2. PeriodNow <= PeriodNow' BY <2>1, PeriodsGrow DEF ReportingInv
  <2>3. PeriodNow' \in Nat
    <3>1. reportTime \in Nat => PeriodNow \in Nat BY PeriodType
    <3>2. (reportTime \in Nat => PeriodNow \in Nat)' BY PTL, PeriodType
    <3>3. QED BY <2>1, <3>2
  <2>4. snapshots' \subseteq [at : 0 .. reportTime', run : {"started", "completed", "failed"}]
    BY <2>1 DEF ReportingInv
  <2>5. QED BY <1>1, <1>2, <2>1, <2>2, <2>3, <2>4
<1>4. CASE Snapshot
  <2>1. reportTime' = reportTime /\ snapshots' = snapshots \cup {[at |-> reportTime, run |-> "started"]}
    BY <1>4 DEF Snapshot
  <2>2. PeriodNow' = PeriodNow BY <2>1 DEF PeriodNow, Boundary
  <2>3. QED BY <1>1, <1>2, <2>1, <2>2 DEF ReportingInv
<1>5. ASSUME NEW s \in snapshots, NEW outcome \in {"completed", "failed"}, EndRun(s, outcome)
      PROVE  ReportingInv'
  <2>1. /\ s.run = "started" /\ reportTime' = reportTime
        /\ snapshots' = (snapshots \ {s}) \cup {[s EXCEPT !.run = outcome]}
    BY <1>5 DEF EndRun
  <2>2. PeriodNow' = PeriodNow BY <2>1 DEF PeriodNow, Boundary
  <2>3. \A z \in snapshots : Counts(z) => z \in snapshots'
    BY <2>1 DEF Counts
  <2>4. QED BY <1>1, <1>2, <2>1, <2>2, <2>3 DEF ReportingInv
<1> QED BY <1>3, <1>4, <1>5

\* Mission Control polls, the client submits, retries and restarts.
LEMMA TellingKeepsReports ==
  ASSUME ReportingInv, Poll \/ Submit \/ Attempt \/ RestartSubmitter
  PROVE  ReportingInv'
<1>0. submission.sending => Sent \in submission.report
  BY DEF ReportingInv, Sent
<1>1. ASSUME NEW r, Record(r) PROVE recorded' \subseteq recorded \cup {r}
  BY <1>1 DEF Record
<1>2. /\ ~NoSubmission.sending /\ NoSubmission.report = {} /\ NoSubmission.attempt \in 0 .. MAX_ATTEMPTS
  BY DEF NoSubmission, MAX_ATTEMPTS
<1>3. CASE Poll
  <2>1. PICK r \in Built : Record(r) BY <1>3 DEF Poll
  <2>2. recorded' \subseteq recorded \cup Built BY <1>1, <2>1
  <2> QED BY <1>3, <2>2, TellsKeeps DEF Poll, Told, ReportingInv
<1>4. CASE Submit
  <2>1. submission'.report = Built /\ submission'.sending /\ submission'.attempt = 1 /\ Built # {}
    BY <1>4 DEF Submit
  <2> QED BY <1>4, <2>1, TellsKeeps DEF Submit, Told, MAX_ATTEMPTS
<1>5. CASE Answered
  <2>1. submission' = NoSubmission /\ recorded' \subseteq recorded \cup submission.report
    BY <1>0, <1>1, <1>5 DEF Answered, Delivered
  <2> QED BY <1>2, <1>5, <2>1, TellsKeeps DEF Answered, Told
<1>6. CASE Refused
  BY <1>2, <1>6, TellsKeeps DEF Refused, GivenUp, Told
<1>7. ASSUME NEW reached \in BOOLEAN, Unanswered(reached) PROVE ReportingInv'
  <2>1. recorded' \subseteq recorded \cup submission.report
    BY <1>0, <1>1, <1>7 DEF Unanswered
  <2>2. \/ submission' = NoSubmission
        \/ /\ submission' = [submission EXCEPT !.attempt = @ + 1]
           /\ submission.attempt # MAX_ATTEMPTS
    BY <1>7 DEF Unanswered, Retries, GivenUp
  <2>3. CASE submission' = NoSubmission
    BY <1>2, <1>7, <2>1, <2>3, TellsKeeps DEF Unanswered, Told
  <2>4. CASE submission' = [submission EXCEPT !.attempt = @ + 1] /\ submission.attempt # MAX_ATTEMPTS
    <3>1. /\ submission'.report = submission.report /\ submission'.sending = submission.sending
          /\ submission'.attempt \in 0 .. MAX_ATTEMPTS
      BY <2>4 DEF ReportingInv, MAX_ATTEMPTS
    <3> QED BY <1>7, <2>1, <3>1, TellsKeeps DEF Unanswered, Told, ReportingInv
  <2> QED BY <2>2, <2>3, <2>4
<1>8. CASE RestartSubmitter
  BY <1>8, TellsKeeps DEF RestartSubmitter, Told, ReportingInv
<1> QED BY <1>3, <1>4, <1>5, <1>6, <1>7, <1>8 DEF Attempt

LEMMA StepKeepsReports == ReportingInv /\ [ReportingNext]_reportingVars => ReportingInv'
<1> SUFFICES ASSUME ReportingInv, [ReportingNext]_reportingVars PROVE ReportingInv' OBVIOUS
<1>1. CASE UNCHANGED reportingVars
  BY <1>1 DEF reportingVars, ReportingInv, Told, PeriodNow, Boundary, Backs, Counts
<1> QED BY <1>1, RunsKeepReports, TellingKeepsReports DEF ReportingNext, Reported

LEMMA ReportingType == ReportingInv => ReportingTypeOK
<1> SUFFICES ASSUME ReportingInv PROVE ReportingTypeOK OBVIOUS
<1>1. reportTime \in 0 .. LastReport BY ReportingAssumption DEF ReportingInv
<1> QED BY <1>1 DEF ReportingInv, ReportingTypeOK

LEMMA ReportingInvariant == ReportingSpec => []ReportingInv
BY InitReporting, StepKeepsReports, PTL DEF ReportingSpec

\* Of two reports on record the one of the later period rests on no older
\* snapshot, for every calendar and interval, in whatever order runs end and
\* however often a report is lost, sent again or recorded after its successor.
THEOREM ReportsNeverGoBack == ReportingSpec => []SnapshotsNeverGoBack
<1>1. ReportingInv => SnapshotsNeverGoBack
  BY DEF ReportingInv, SnapshotsNeverGoBack, Told
<1> QED BY <1>1, ReportingInvariant, PTL

(***************************************************************************)
(* MCServices: one of the programs runs, the others stay as they are.      *)
(***************************************************************************)
ServicesInv ==
  PricesInv /\ RecoveryInv /\ TripInv /\ ReportingInv /\ CacheInv /\ Lined /\ cache.data \in Ages

\* Whichever program runs, all five keep their types.
THEOREM ServicesTypeCorrect == ServicesSpec => []ServicesTypeOK
<1>1. ServicesInit => ServicesInv
  BY InitPrices, InitRecovery, InitTrip, InitReporting, InitCache, InitLine
     DEF ServicesInit, ServicesInv
<1>2. ServicesInv /\ [ServicesNext]_servicesVars => ServicesInv'
  <2> SUFFICES ASSUME ServicesInv, [ServicesNext]_servicesVars PROVE ServicesInv' OBVIOUS
  <2>1. /\ [RepricingNext]_repricingVars /\ [RecoveryNext]_recoveryVars
        /\ [RoundTripNext]_tripVars /\ [ReportingNext]_reportingVars /\ [WebNext]_webVars
    BY DEF ServicesNext, servicesVars, Switched, Repriced, Recovered, RoundTripped, ReportedOn, Served
  <2>2. PricesInv' BY <2>1, StepKeepsPrices DEF ServicesInv
  <2>3. RecoveryInv' BY <2>1, StepKeepsRecovery DEF ServicesInv
  <2>4. TripInv' BY <2>1, StepKeepsTrip DEF ServicesInv
  <2>5. ReportingInv' BY <2>1, StepKeepsReports DEF ServicesInv
  <2>6. CacheInv' BY <2>1, StepKeepsCache DEF ServicesInv
  <2>7. (Lined /\ cache.data \in Ages)' BY <2>1, LineStep DEF ServicesInv
  <2> QED BY <2>2, <2>3, <2>4, <2>5, <2>6, <2>7 DEF ServicesInv
<1>3. ServicesInv => ServicesTypeOK
  <2>1. RecoveryInv => RecoveryTypeOK
    BY DEF RecoveryInv, Typed, CommandRecords, RecoveryTypeOK, IntentStatuses, SaleStatuses
  <2>2. PricesInv => RepricingTypeOK BY DEF PricesInv
  <2>3. TripInv => RoundTripTypeOK BY DEF TripInv
  <2> QED BY <2>1, <2>2, <2>3, ReportingType, LineType DEF ServicesInv, ServicesTypeOK
<1> QED BY <1>1, <1>2, <1>3, PTL DEF ServicesSpec
===============================================================================
