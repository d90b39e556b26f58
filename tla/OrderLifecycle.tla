---------------------------- MODULE OrderLifecycle ----------------------------
(***************************************************************************)
(* The order and position ledger of the trading agent: one scheduler cycle *)
(* (AgentService.run_cycle with _maintain_order_lifecycle) that reads the  *)
(* broker, ingests fills, reconciles its own order rows, polls, cancels    *)
(* and replaces working orders, closes managed structures and submits at   *)
(* most one entry, against a broker that fills and cancels on its own.     *)
(* Every await of the cycle is a step boundary at which the broker moves.  *)
(*                                                                         *)
(* Data: a candidate is one defined-risk structure with its own option     *)
(* legs (ratio 1), positions are counted in the direction the structure    *)
(* holds them, and prices, quotes and clocks are nondeterministic choices. *)
(***************************************************************************)
EXTENDS Integers, FiniteSets, FiniteSetsExt

CONSTANTS
  Candidates,   \* structures the candidate compiler can propose
  Legs,         \* option legs of a structure
  MaxQty,       \* bound: contracts in one entry
  MaxOrders,    \* bound: orders the broker accepts in a behaviour
  MaxCycles,    \* bound: scheduler cycles in a behaviour
  Faults,       \* what the environment may do beyond filling between cycles
  Windows,      \* the parts of the competition the cycles may run in
  NewestFirst   \* order in which the broker lists fill activities

FaultKinds ==
  {"midcycle",      \* the broker moves while a cycle is running
   "torn_read",     \* orders, positions and activities are read at different times
   "async_cancel",  \* an accepted cancel leaves the order pending_cancel
   "crash",         \* the worker dies between two steps
   "error",         \* an awaited call raises
   "reduction"}     \* assignment or exercise removes contracts of one leg

\* How many structures of one underlying may be held at once is decided by these.
WindowKinds ==
  {"ordinary",      \* before the last day: one
   "final_day",     \* on the last day: a second one
   "final_hour"}    \* from 15:00 to the cutoff: any number

ASSUME ConstantsAssumption ==
  /\ Candidates # {} /\ Legs # {}
  /\ MaxQty \in Nat \ {0}
  /\ MaxOrders \in Nat \ {0}
  /\ MaxCycles \in Nat \ {0}
  /\ Faults \subseteq FaultKinds
  /\ Windows \subseteq WindowKinds /\ Windows # {}
  /\ NewestFirst \in BOOLEAN

VARIABLES
  placed,     \* number of orders the broker has accepted, numbered in that order
  request,    \* what each accepted order asked for
  broker,     \* broker state of each order
  fills,      \* leaves_qty of each fill activity the broker lists for an order
  position,   \* contracts held of every leg of every candidate
  ledger,     \* order rows of the local database
  listed,     \* candidates whose structures have been persisted (their symbols are known)
  latest,     \* newest system_state row: kill switch and whether reconciliation was clean
  run         \* locals of the running cycle

brokerVars == <<broker, fills, position>>
vars == <<placed, request, broker, fills, position, ledger, listed, latest, run>>

Orders == 1..MaxOrders
Placed == 1..placed

OpenAtBroker == {"new", "partially_filled", "pending_cancel"}
Terminal     == {"filled", "canceled"}
Established  == {"filled", "closing", "partially_filled_canceled", "externally_reduced"}
RowStatus    == OpenAtBroker \cup Established \cup {"canceled", "closed", "none"}

Request == [candidate : Candidates, closing : BOOLEAN, parent : 0..MaxOrders,
            quantity : 1..MaxQty, attempt : 0..2, cycle : 1..MaxCycles, root : 0..MaxOrders]

\* allow_new_entries is only ever true while the market is open.
Mode  == [open : BOOLEAN, allow : BOOLEAN, force : BOOLEAN, window : Windows]
Modes == {m \in Mode : m.allow => m.open}

BrokerRecord == [status : OpenAtBroker \cup Terminal, filled : 0..MaxQty]
Row          == [status : RowStatus, remaining : 0..MaxQty]
NoRow        == [status |-> "none", remaining |-> 0]
Flat         == [c \in Candidates |-> [l \in Legs |-> 0]]

Reads == {"orders", "positions", "activities"}
Pcs   == {"idle", "reading", "ingest", "reconcile", "start", "orders", "cancel", "replace",
          "persist", "structures", "persist_close", "mark_closing", "decide", "persist_entry"}

Unused  == CHOOSE r \in Request : TRUE     \* content of a slot no order occupies
Blank   == [status |-> "new", filled |-> 0]
NoSnap  == [open |-> {}, broker |-> [o \in Orders |-> Blank],
            position |-> Flat, fills |-> [o \in Orders |-> {}]]
Snapshot == [open : SUBSET Orders, broker : [Orders -> BrokerRecord],
             position : [Candidates -> [Legs -> Nat]], fills : [Orders -> SUBSET (0..MaxQty)]]
Run == [pc : Pcs, cycle : 0..MaxCycles, mode : Mode,
        seen : SUBSET Reads, snap : Snapshot, clean : BOOLEAN,
        pending : SUBSET Candidates, open : [Candidates -> 0..MaxOrders],
        work : SUBSET Orders, current : 0..MaxOrders, replace : BOOLEAN,
        active : SUBSET Candidates, fresh : SUBSET Candidates]
Closed == [open |-> FALSE, allow |-> FALSE, force |-> FALSE, window |-> CHOOSE w \in Windows : TRUE]
Idle(n) == [pc |-> "idle", cycle |-> n, mode |-> Closed,
            seen |-> {}, snap |-> NoSnap, clean |-> TRUE,
            pending |-> {}, open |-> [c \in Candidates |-> 0], work |-> {},
            current |-> 0, replace |-> FALSE, active |-> {}, fresh |-> {}]

(***************************************************************************)
(* Queries on the local order rows.                                        *)
(***************************************************************************)
HasRow(o)  == ledger[o].status # "none"
IsEntry(o) == ~request[o].closing
Of(o)      == request[o].candidate

\* pending_managed_orders: rows in an open status with something left to fill.
PendingManaged ==
  {o \in Placed : ledger[o].status \in OpenAtBroker /\ ledger[o].remaining >= 1}

\* open_managed_structures: entry rows that hold, or held, a position.
OpenManaged == {o \in Placed : IsEntry(o) /\ ledger[o].status \in Established}

\* deterministic_client_order_id hashes exactly these values.
ClientIdOfAnyCycle(r) == <<r.candidate, r.closing, r.quantity, r.attempt>>
ClientId(r) == <<r.cycle, r.candidate, r.closing, r.quantity, r.attempt>>

\* order_exists looks the client id up among the persisted rows.
OrderExists(r) == \E o \in Placed : HasRow(o) /\ ClientId(request[o]) = ClientId(r)

Quantity(S) == SumFunctionOnSet([o \in Orders |-> request[o].quantity], S)
Positive(n) == IF n > 0 THEN n ELSE 0
Smaller(m, n) == IF m < n THEN m ELSE n

Init ==
  /\ placed = 0
  /\ request = [o \in Orders |-> Unused]
  /\ broker = [o \in Orders |-> Blank]
  /\ fills = [o \in Orders |-> {}]
  /\ position = Flat
  /\ ledger = [o \in Orders |-> NoRow]
  /\ listed = {}
  /\ latest = [kill |-> FALSE, clean |-> TRUE]
  /\ run = Idle(0)

(***************************************************************************)
(* The broker.  It fills, expires and cancels working orders on its own;   *)
(* without the "midcycle" fault it does so only between cycles.            *)
(***************************************************************************)
BrokerMoves == run.pc = "idle" \/ "midcycle" \in Faults

\* k more contracts of order o trade; a closing order cannot open a position.
Fill(o, k) ==
  LET left == request[o].quantity - broker[o].filled IN
  /\ BrokerMoves
  /\ broker[o].status \in OpenAtBroker
  /\ k <= left
  /\ IsEntry(o) \/ \A l \in Legs : k <= position[Of(o)][l]
  /\ broker' = [broker EXCEPT ![o] =
        [filled |-> @.filled + k,
         status |-> IF k = left THEN "filled"
                    ELSE IF @.status = "new" THEN "partially_filled" ELSE @.status]]
  /\ fills' = [fills EXCEPT ![o] = @ \cup {left - k}]
  /\ position' = [position EXCEPT ![Of(o)] =
        [l \in Legs |-> IF IsEntry(o) THEN @[l] + k ELSE @[l] - k]]
  /\ UNCHANGED <<placed, request, ledger, listed, latest, run>>

\* A working order ends without filling: canceled, expired or rejected.
Lapse(o) ==
  /\ BrokerMoves
  /\ broker[o].status \in OpenAtBroker
  /\ broker' = [broker EXCEPT ![o].status = "canceled"]
  /\ UNCHANGED <<placed, request, fills, position, ledger, listed, latest, run>>

\* Assignment or early exercise takes one contract of one leg.
Reduce(c, l) ==
  /\ "reduction" \in Faults
  /\ BrokerMoves
  /\ position[c][l] > 0
  /\ position' = [position EXCEPT ![c][l] = @ - 1]
  /\ UNCHANGED <<placed, request, broker, fills, ledger, listed, latest, run>>

\* The broker accepts a new order (the awaited place_option_order).
Accept(r) ==
  /\ placed < MaxOrders
  /\ placed' = placed + 1
  /\ request' = [request EXCEPT ![placed + 1] = r]
  /\ UNCHANGED <<broker, fills, position>>

\* persist_order: the row of the order accepted last.
PersistRow ==
  ledger' = [ledger EXCEPT ![placed] = [status |-> "new", remaining |-> request[placed].quantity]]

MarkRow(o, s) == ledger' = [ledger EXCEPT ![o].status = s]

(***************************************************************************)
(* Start of the cycle: reads, fill ingestion, reconciliation.              *)
(***************************************************************************)
BeginCycle(m) ==
  /\ run.pc = "idle"
  /\ run.cycle < MaxCycles
  /\ run' = [Idle(run.cycle + 1) EXCEPT !.pc = "reading", !.mode = m]
  /\ UNCHANGED <<placed, request, brokerVars, ledger, listed, latest>>

\* asyncio.gather of three broker calls: one snapshot, or torn ones.
Read(S) ==
  /\ run.pc = "reading"
  /\ S # {} /\ S \cap run.seen = {}
  /\ S = Reads \/ "torn_read" \in Faults
  /\ LET open == {o \in Placed : broker[o].status \in OpenAtBroker}
         old  == run.snap
         new  == [open     |-> IF "orders" \in S THEN open ELSE old.open,
                  broker   |-> IF "orders" \in S
                               THEN [o \in Orders |-> IF o \in open THEN broker[o] ELSE Blank]
                               ELSE old.broker,
                  position |-> IF "positions" \in S THEN position ELSE old.position,
                  fills    |-> IF "activities" \in S THEN fills ELSE old.fills]
     IN run' = [run EXCEPT !.snap = new, !.seen = @ \cup S,
                           !.pc = IF run.seen \cup S = Reads THEN "ingest" ELSE "reading"]
  /\ UNCHANGED <<placed, request, brokerVars, ledger, listed, latest>>

\* leaves_qty of the activity persist_fills processes last for an order: the
\* loop follows the broker's listing and every activity overwrites the row.
LastLeaves(acts) == IF NewestFirst THEN Max(acts) ELSE Min(acts)

\* persist_fills: every listed activity advances the row, stored before or not.
IngestFills ==
  /\ run.pc = "ingest"
  /\ ledger' = [o \in Orders |->
        LET acts == run.snap.fills[o] IN
        IF HasRow(o) /\ acts # {}
        THEN [status    |-> IF LastLeaves(acts) = 0 THEN "filled" ELSE "partially_filled",
              remaining |-> LastLeaves(acts)]
        ELSE ledger[o]]
  /\ run' = [run EXCEPT !.pc = "reconcile"]
  /\ UNCHANGED <<placed, request, brokerVars, listed, latest>>

\* Step 1 of reconcile_broker_state: a known working order takes the broker's
\* status and remaining quantity.
Synced ==
  [o \in Orders |->
     IF o \in run.snap.open /\ HasRow(o)
     THEN [status    |-> run.snap.broker[o].status,
           remaining |-> request[o].quantity - run.snap.broker[o].filled]
     ELSE ledger[o]]

\* Contracts of candidate c the snapshot still holds, leg by leg, once every
\* established row has reserved its own (_reserve_structure_positions).
Unreserved(rows, c) ==
  LET established == {o \in Placed : IsEntry(o) /\ Of(o) = c /\ rows[o].status \in Established}
  IN [l \in Legs |-> Positive(run.snap.position[c][l] - Quantity(established))]

\* Contracts consumed by the pending entry rows of c up to order n, in order of
\* submission (_consume_complete_structure_positions).
Consumed(rows, c) ==
  LET free == Unreserved(rows, c)
      fits(o, used) == /\ IsEntry(o) /\ Of(o) = c /\ rows[o].status \in OpenAtBroker
                       /\ \A l \in Legs : used + request[o].quantity <= free[l]
      used[n \in 0..placed] ==
        IF n = 0 THEN 0
        ELSE IF fits(n, used[n - 1]) THEN used[n - 1] + request[n].quantity ELSE used[n - 1]
  IN used

\* Step 2: a pending entry whose whole position is present is filled.
Normalized(rows) ==
  [o \in Orders |->
     IF /\ o \in Placed /\ IsEntry(o)
        /\ Consumed(rows, Of(o))[o] # Consumed(rows, Of(o))[o - 1]
     THEN [status |-> "filled", remaining |-> 0]
     ELSE rows[o]]

\* Step 3: a closing structure with no leg left at the broker is closed.
Absent(rows) ==
  [o \in Orders |->
     IF /\ o \in Placed /\ IsEntry(o) /\ rows[o].status = "closing"
        /\ \A l \in Legs : run.snap.position[Of(o)][l] = 0
     THEN [rows[o] EXCEPT !.status = "closed"]
     ELSE rows[o]]

UnknownOrders    == {o \in run.snap.open : ~HasRow(o)}
UnknownPositions == {c \in Candidates \ listed : \E l \in Legs : run.snap.position[c][l] > 0}

\* The order rows of candidate c's entries that portfolio_risk_summary counts.
EntriesIn(rows, c, statuses) ==
  {o \in Placed : IsEntry(o) /\ Of(o) = c /\ rows[o].status \in statuses}

\* reconcile_broker_state, then portfolio_risk_summary over the new rows.
Reconcile ==
  LET rows == Absent(Normalized(Synced)) IN
  /\ run.pc = "reconcile"
  /\ ledger' = rows
  /\ run' = [run EXCEPT
       !.pc = "start",
       !.clean = UnknownOrders = {} /\ UnknownPositions = {},
       !.pending = {c \in Candidates : EntriesIn(rows, c, OpenAtBroker) # {}},
       !.open = [c \in Candidates |->
                   Cardinality(EntriesIn(rows, c, Established \cup {"partially_filled"}))]]
  /\ UNCHANGED <<placed, request, brokerVars, listed, latest>>

\* reconcile_filled_closing_parents: the parent of every filled closing row.
FilledCloseParents ==
  {o \in OpenManaged : \E k \in Placed : /\ ~IsEntry(k) /\ ledger[k].status = "filled"
                                         /\ request[k].parent = o}

StartLifecycle ==
  LET closed == [o \in Orders |-> IF o \in FilledCloseParents
                                  THEN [ledger[o] EXCEPT !.status = "closed"] ELSE ledger[o]]
  IN
  /\ run.pc = "start"
  /\ ledger' = closed
  /\ run' = [run EXCEPT !.pc = "orders", !.work = PendingManaged]
  /\ UNCHANGED <<placed, request, brokerVars, listed, latest>>

(***************************************************************************)
(* The working orders, one at a time (the query sorts nothing, so in any   *)
(* order): order_by_id, then settle, wait, cancel or replace.              *)
(***************************************************************************)
Polling(o) == run.pc = "orders" /\ o \in run.work

\* Contracts the open structures other than `parent` account for.
ExpectedAfterClose(parent) ==
  [c \in Candidates |-> Quantity({o \in OpenManaged \ {parent} : Of(o) = c})]

\* A filled close settles its parent only if the broker's quantities and the
\* positions snapshot agree with the parent being gone.
CloseAgrees(o) ==
  /\ broker[o].filled = request[o].quantity
  /\ \A c \in Candidates, l \in Legs :
       run.snap.position[c][l] = ExpectedAfterClose(request[o].parent)[c]

\* mark_managed_structure_closed with the exact parent and quantity.
ParentCloses(o) ==
  LET p == request[o].parent IN
  /\ ledger[p].status \in Established \cup {"closed"}
  /\ request[p].quantity = request[o].quantity

PollEntryTerminal(o) ==
  /\ Polling(o) /\ IsEntry(o)
  /\ broker[o].status \in Terminal
  /\ MarkRow(o, IF broker[o].status = "canceled" /\ broker[o].filled > 0
                THEN "partially_filled_canceled" ELSE broker[o].status)
  /\ run' = [run EXCEPT !.work = @ \ {o},
                        !.fresh = IF broker[o].status = "filled" THEN @ \cup {Of(o)} ELSE @]
  /\ UNCHANGED <<placed, request, brokerVars, listed, latest>>

PollCloseCanceled(o) ==
  /\ Polling(o) /\ ~IsEntry(o)
  /\ broker[o].status = "canceled"
  /\ MarkRow(o, "canceled")
  /\ run' = [run EXCEPT !.work = @ \ {o}]
  /\ UNCHANGED <<placed, request, brokerVars, listed, latest>>

PollCloseFilled(o) ==
  LET p == request[o].parent
      settled == CloseAgrees(o) /\ ParentCloses(o)
  IN
  /\ Polling(o) /\ ~IsEntry(o)
  /\ broker[o].status = "filled"
  /\ ledger' = [ledger EXCEPT ![o].status = "filled",
                              ![p].status = IF settled THEN "closed" ELSE @]
  /\ run' = [run EXCEPT !.work = @ \ {o},
                        !.clean = @ /\ settled,
                        !.active = IF CloseAgrees(o) THEN @ ELSE @ \cup {Of(o)}]
  /\ UNCHANGED <<placed, request, brokerVars, listed, latest>>

\* What stale_order_action may answer for a working order, prices and ages left open.
StaleActions(o, urgent) ==
  LET tries == request[o].attempt IN
  IF urgent THEN {"wait", "cancel_and_replace"}
  ELSE IF tries < 2 THEN {"wait", "cancel", "cancel_and_replace"}
  ELSE IF IsEntry(o) THEN {"wait", "cancel"} ELSE {"wait"}

Urgencies(o) == IF IsEntry(o) THEN {FALSE} ELSE IF run.mode.force THEN {TRUE} ELSE BOOLEAN

PollWait(o) ==
  /\ Polling(o)
  /\ broker[o].status \in OpenAtBroker
  /\ ~IsEntry(o) \/ run.mode.allow
  /\ run' = [run EXCEPT !.work = @ \ {o},
                        !.active = IF IsEntry(o) THEN @ ELSE @ \cup {Of(o)}]
  /\ UNCHANGED <<placed, request, brokerVars, ledger, listed, latest>>

\* replacement_request: the same order for the remaining quantity of its row.
ReplacementInFull(o) ==
  [request[o] EXCEPT !.attempt = Smaller(@ + 1, 2), !.cycle = run.cycle]
Replacement(o) ==
  [request[o] EXCEPT !.quantity = ledger[o].remaining,
                     !.attempt = Smaller(@ + 1, 2),
                     !.cycle = run.cycle]

\* The cancel of o is on its way; replace says whether a successor may follow.
PollCancel(o, action) ==
  /\ Polling(o)
  /\ broker[o].status \in OpenAtBroker
  /\ IF IsEntry(o) /\ ~run.mode.allow
     THEN action = "cancel"
     ELSE \E u \in Urgencies(o) : action \in StaleActions(o, u) \ {"wait"}
  /\ run' = [run EXCEPT !.pc = "cancel", !.current = o, !.work = @ \ {o},
                        !.replace = /\ action = "cancel_and_replace" /\ run.mode.open
                                      /\ (placed < MaxOrders \/ OrderExists(Replacement(o)))]
  /\ UNCHANGED <<placed, request, brokerVars, ledger, listed, latest>>

\* Row status after the worker's own cancel: what had filled stays exposure.
CanceledStatusForgetsFills(o) == "canceled"
CanceledStatus(o) ==
  IF IsEntry(o) /\ ledger[o].status = "partially_filled"
  THEN "partially_filled_canceled" ELSE "canceled"

\* cancel_order returns once the broker took the request; the row is marked
\* canceled at once, from the status it had when the orders were listed.
CancelAccepted ==
  LET o == run.current IN
  /\ run.pc = "cancel"
  /\ broker[o].status \in OpenAtBroker
  /\ broker' = [broker EXCEPT ![o].status =
        IF "async_cancel" \in Faults THEN "pending_cancel" ELSE "canceled"]
  /\ MarkRow(o, CanceledStatus(o))
  /\ run' = [run EXCEPT !.pc = IF run.replace THEN "replace" ELSE "orders"]
  /\ UNCHANGED <<placed, request, fills, position, listed, latest>>

PlaceReplacement ==
  LET r == Replacement(run.current) IN
  /\ run.pc = "replace"
  /\ ~OrderExists(r)
  /\ Accept(r)
  /\ run' = [run EXCEPT !.pc = "persist"]
  /\ UNCHANGED <<ledger, listed, latest>>

\* The successor already exists: the candidate counts as being worked on.
ReplacementExists ==
  /\ run.pc = "replace"
  /\ OrderExists(Replacement(run.current))
  /\ run' = [run EXCEPT !.pc = "orders", !.active = @ \cup {Of(run.current)}]
  /\ UNCHANGED <<placed, request, brokerVars, ledger, listed, latest>>

PersistReplacement ==
  /\ run.pc = "persist"
  /\ PersistRow
  /\ run' = [run EXCEPT !.pc = "orders", !.active = @ \cup {Of(run.current)}]
  /\ UNCHANGED <<placed, request, brokerVars, listed, latest>>

EndOrders ==
  /\ run.pc = "orders" /\ run.work = {}
  /\ run' = [run EXCEPT !.pc = "structures", !.work = OpenManaged]
  /\ UNCHANGED <<placed, request, brokerVars, ledger, listed, latest>>

(***************************************************************************)
(* The managed structures, judged by the positions snapshot.               *)
(***************************************************************************)
JudgingWhileClosing(o) == run.pc = "structures" /\ o \in run.work /\ Of(o) \notin run.fresh
Judging(o) ==
  /\ run.pc = "structures" /\ o \in run.work
  /\ Of(o) \notin run.fresh \cup run.active

Present(o) == {l \in Legs : run.snap.position[Of(o)][l] > 0}

Judged(o) == run' = [run EXCEPT !.work = @ \ {o}]

\* Skipped: its fill is newer than the snapshot, or a close is being worked on.
StructureSkipped(o) ==
  /\ run.pc = "structures" /\ o \in run.work
  /\ Of(o) \in run.fresh \cup run.active
  /\ Judged(o)
  /\ UNCHANGED <<placed, request, brokerVars, ledger, listed, latest>>

StructureFlat(o) ==
  /\ Judging(o) /\ Present(o) = {}
  /\ MarkRow(o, "closed")
  /\ Judged(o)
  /\ UNCHANGED <<placed, request, brokerVars, listed, latest>>

StructureReduced(o) ==
  /\ Judging(o) /\ Present(o) \notin {{}, Legs}
  /\ MarkRow(o, "externally_reduced")
  /\ run' = [run EXCEPT !.work = @ \ {o}, !.clean = FALSE]
  /\ UNCHANGED <<placed, request, brokerVars, listed, latest>>

\* structure_exit_signal is forced for a portfolio exit and for close recovery.
Forced(o) == run.mode.force \/ ledger[o].status = "closing"

StructureHeld(o) ==
  /\ Judging(o) /\ Present(o) = Legs
  /\ ~run.mode.open \/ ~Forced(o)
  /\ Judged(o)
  /\ UNCHANGED <<placed, request, brokerVars, ledger, listed, latest>>

\* Every close is limited by what the snapshot holds of each leg.
CloseRequestForAllHeld(o) ==
  [candidate |-> Of(o), closing |-> TRUE, parent |-> o, root |-> placed + 1,
   quantity |-> Min({run.snap.position[Of(o)][l] : l \in Legs}),
   attempt |-> 0, cycle |-> run.cycle]
CloseRequest(o) ==
  LET held == {run.snap.position[Of(o)][l] : l \in Legs} IN
  [candidate |-> Of(o), closing |-> TRUE, parent |-> o, root |-> placed + 1,
   quantity |-> Smaller(request[o].quantity, Min(held)), attempt |-> 0, cycle |-> run.cycle]

CloseExists(o) ==
  /\ Judging(o) /\ Present(o) = Legs /\ run.mode.open
  /\ OrderExists(CloseRequest(o))
  /\ Judged(o)
  /\ UNCHANGED <<placed, request, brokerVars, ledger, listed, latest>>

\* close_request refuses incomplete quotes: an incident, the structure waits.
CloseWithoutQuotes(o) ==
  /\ Judging(o) /\ Present(o) = Legs /\ run.mode.open
  /\ ~OrderExists(CloseRequest(o))
  /\ run' = [run EXCEPT !.work = @ \ {o}, !.clean = FALSE]
  /\ UNCHANGED <<placed, request, brokerVars, ledger, listed, latest>>

PlaceClose(o) ==
  /\ Judging(o) /\ Present(o) = Legs /\ run.mode.open
  /\ ~OrderExists(CloseRequest(o))
  /\ Accept(CloseRequest(o))
  /\ run' = [run EXCEPT !.pc = "persist_close", !.work = @ \ {o}, !.current = o]
  /\ UNCHANGED <<ledger, listed, latest>>

PersistClose ==
  /\ run.pc = "persist_close"
  /\ PersistRow
  /\ run' = [run EXCEPT !.pc = "mark_closing"]
  /\ UNCHANGED <<placed, request, brokerVars, listed, latest>>

MarkClosing ==
  /\ run.pc = "mark_closing"
  /\ MarkRow(run.current, "closing")
  /\ run' = [run EXCEPT !.pc = "structures"]
  /\ UNCHANGED <<placed, request, brokerVars, listed, latest>>

\* The lifecycle is over; persist_candidates makes every candidate's legs known.
EndStructures ==
  /\ run.pc = "structures" /\ run.work = {}
  /\ run' = [run EXCEPT !.pc = "decide"]
  /\ listed' = Candidates
  /\ UNCHANGED <<placed, request, brokerVars, ledger, latest>>

(***************************************************************************)
(* The entry decision, and the ends of a cycle.                            *)
(***************************************************************************)
EntryRequest(c, q) ==
  [candidate |-> c, closing |-> FALSE, parent |-> 0, root |-> placed + 1,
   quantity |-> q, attempt |-> 0, cycle |-> run.cycle]

\* The rows let candidate c be entered (_portfolio_candidate_exclusions; the risk
\* engine judges the same counts): never while an entry of it is pending, once
\* more on the last day while one is held, and in the last hour, when nothing
\* at all may be pending, whatever is held.
AdmittedOnAnyDay(c) == c \notin run.pending /\ run.open[c] <= 1
AdmittedAnyNumber(c) ==
  /\ c \notin run.pending
  /\ run.mode.window = "ordinary" => run.open[c] = 0
Admitted(c) ==
  /\ c \notin run.pending
  /\ run.mode.window = "final_hour" => run.pending = {}
  /\ \/ run.open[c] = 0
     \/ run.mode.window = "final_day" /\ run.open[c] = 1
     \/ run.mode.window = "final_hour"

\* Auction exclusions and risk gates that depend on this state.
EntryApprovedUnclean(c) == run.mode.allow /\ ~latest.kill /\ Admitted(c)
EntryApproved(c) ==
  /\ run.mode.allow
  /\ run.clean
  /\ ~latest.kill
  /\ Admitted(c)

PlaceEntry(c, q) ==
  /\ run.pc = "decide"
  /\ EntryApproved(c)
  /\ ~OrderExists(EntryRequest(c, q))
  /\ Accept(EntryRequest(c, q))
  /\ run' = [run EXCEPT !.pc = "persist_entry"]
  /\ UNCHANGED <<ledger, listed, latest>>

\* complete_run and append_system_state: the kill switch is carried over.
Complete ==
  /\ latest' = [latest EXCEPT !.clean = run.clean]
  /\ run' = Idle(run.cycle)

PersistEntry ==
  /\ run.pc = "persist_entry"
  /\ PersistRow
  /\ Complete
  /\ UNCHANGED <<placed, request, brokerVars, listed>>

Abstain ==
  /\ run.pc = "decide"
  /\ Complete
  /\ UNCHANGED <<placed, request, brokerVars, ledger, listed>>

\* An awaited call raises (the broker refuses to cancel a finished order, or
\* any call fails): the cycle fails closed and latches the kill switch.
Awaiting == {"reading", "start", "orders", "cancel", "replace", "persist", "structures",
             "persist_close", "decide", "persist_entry"}

FailClosed ==
  /\ \/ run.pc \in Awaiting /\ "error" \in Faults
     \/ run.pc = "cancel" /\ broker[run.current].status \in Terminal
  /\ latest' = [kill |-> TRUE, clean |-> FALSE]
  /\ run' = Idle(run.cycle)
  /\ UNCHANGED <<placed, request, brokerVars, ledger, listed>>

\* The operator's guarded clear, run between cycles (its races with a cycle are
\* the module OperationalState's): only after a clean cycle, and while the rows
\* explain every working order and every contract at the broker.
ClearKillSwitch ==
  /\ run.pc = "idle"
  /\ latest.kill /\ latest.clean
  /\ PendingManaged = {o \in Placed : broker[o].status \in OpenAtBroker}
  /\ \A c \in Candidates, l \in Legs :
       position[c][l] = Quantity({o \in OpenManaged : Of(o) = c})
  /\ latest' = [latest EXCEPT !.kill = FALSE]
  /\ UNCHANGED <<placed, request, brokerVars, ledger, listed, run>>

\* The worker dies; the next cycle starts from the database alone.
Crash ==
  /\ "crash" \in Faults
  /\ run.pc # "idle"
  /\ run' = Idle(run.cycle)
  /\ UNCHANGED <<placed, request, brokerVars, ledger, listed, latest>>

\* Both bounds spent: the behaviour ends here.
Done ==
  /\ run.pc = "idle" /\ run.cycle = MaxCycles
  /\ UNCHANGED vars

BrokerNext ==
  \/ \E o \in Placed : Lapse(o) \/ \E k \in 1..MaxQty : Fill(o, k)
  \/ \E c \in Candidates, l \in Legs : Reduce(c, l)

OrdersNext ==
  \/ \E o \in run.work :
       \/ PollEntryTerminal(o) \/ PollCloseCanceled(o) \/ PollCloseFilled(o) \/ PollWait(o)
       \/ \E a \in {"cancel", "cancel_and_replace"} : PollCancel(o, a)
  \/ CancelAccepted \/ PlaceReplacement \/ ReplacementExists \/ PersistReplacement
  \/ EndOrders

StructuresNext ==
  \/ \E o \in run.work :
       \/ StructureSkipped(o) \/ StructureFlat(o) \/ StructureReduced(o) \/ StructureHeld(o)
       \/ CloseExists(o) \/ CloseWithoutQuotes(o) \/ PlaceClose(o)
  \/ PersistClose \/ MarkClosing \/ EndStructures

CycleNext ==
  \/ \E m \in Modes : BeginCycle(m)
  \/ \E S \in SUBSET Reads : Read(S)
  \/ IngestFills \/ Reconcile \/ StartLifecycle
  \/ OrdersNext
  \/ StructuresNext
  \/ \E c \in Candidates, q \in 1..MaxQty : PlaceEntry(c, q)
  \/ PersistEntry \/ Abstain \/ FailClosed \/ ClearKillSwitch \/ Crash \/ Done

Next == BrokerNext \/ CycleNext

Spec == Init /\ [][Next]_vars

(***************************************************************************)
(* Properties.                                                             *)
(***************************************************************************)
\* Every variable keeps its type.
TypeOK ==
  /\ placed \in 0..MaxOrders
  /\ request \in [Orders -> Request]
  /\ broker \in [Orders -> BrokerRecord]
  /\ fills \in [Orders -> SUBSET (0..MaxQty)]
  /\ position \in [Candidates -> [Legs -> Nat]]
  /\ ledger \in [Orders -> Row]
  /\ listed \subseteq Candidates
  /\ latest \in [kill : BOOLEAN, clean : BOOLEAN]
  /\ run \in Run

\* No two orders at the broker ever carry one client order id, whatever crashes,
\* fails, or moves at the broker in between: the ids hash only the cycle, the
\* candidate, the quantity and the attempt, and order_exists sees only the rows
\* that were persisted (service.py, _maintain_order_lifecycle and run_cycle).
UniqueClientIds ==
  \A o1, o2 \in Placed : ClientId(request[o1]) = ClientId(request[o2]) => o1 = o2

\* No entry is submitted while an order without a row works at the broker: what
\* a crash between place_option_order and persist_order leaves behind blocks
\* entries as long as it can still fill, however torn the cycle's reads were.
NoEntryOverUnknownOrder ==
  [][\A c \in Candidates, q \in 1..MaxQty : PlaceEntry(c, q) =>
       \A o \in Placed : HasRow(o) \/ broker[o].status \in Terminal]_vars

\* While the broker moves only between cycles, takes contracts of all legs alike
\* and no worker dies, every contract held of a candidate belongs to an entry row
\* that still counts as exposure (or to the order being persisted): no row is
\* settled away from under a position, through partial fills, cancellations,
\* replacements, repeated activities and closes.
Exposed(c) ==
  {o \in Placed : /\ IsEntry(o) /\ Of(o) = c
                  /\ ledger[o].status \in OpenAtBroker \cup Established \cup {"none"}}
ExposureIsOwned ==
  run.pc = "idle" => \A c \in Candidates, l \in Legs : position[c][l] <= Quantity(Exposed(c))

\* Cancel and replace never buys more than the risk engine approved: the filled
\* and still working contracts of an entry and its replacements stay within the
\* quantity of the first order of the chain.
Bought(o) == IF broker[o].status \in OpenAtBroker THEN request[o].quantity ELSE broker[o].filled
ChainWithinApproval ==
  \A root \in Placed :
    LET chain == {o \in Placed : request[o].root = root /\ IsEntry(o)}
    IN SumFunctionOnSet([o \in Orders |-> Bought(o)], chain) <= request[root].quantity

\* Before the last day a second entry in a candidate is submitted only once
\* nothing of the first is held or working at the broker, whatever moves while
\* the cycle waits, as long as its reads are of one moment and no order goes
\* without its row.
EntriesOf(c) == {o \in Placed : IsEntry(o) /\ Of(o) = c}
EntryOnlyWhenClear ==
  [][\A c \in Candidates, q \in 1..MaxQty :
       PlaceEntry(c, q) /\ run.mode.window = "ordinary" =>
         /\ \A l \in Legs : position[c][l] = 0
         /\ \A o \in EntriesOf(c) : broker[o].status \in Terminal]_vars

\* The overrides of the last day add to what is held, never to what is still
\* being bought: no entry of the candidate works when another is submitted, and
\* before the last hour what is held of it fits in one earlier entry, under the
\* same conditions.
OverrideAddsToSettled ==
  [][\A c \in Candidates, q \in 1..MaxQty :
       PlaceEntry(c, q) /\ run.mode.window # "ordinary" =>
         /\ \A o \in EntriesOf(c) : broker[o].status \in Terminal
         /\ \/ run.mode.window = "final_hour"
            \/ \A l \in Legs : position[c][l] = 0
            \/ \E o \in EntriesOf(c) :
                 \A l \in Legs : position[c][l] <= request[o].quantity]_vars

\* At most one close of a structure works at the broker: a second one is only
\* submitted once the first is canceled, so nothing is sold twice, as long as
\* cancels take effect at once and every close gets its row.
OneWorkingClose ==
  \A o1, o2 \in Placed :
    /\ ~IsEntry(o1) /\ ~IsEntry(o2) /\ request[o1].parent = request[o2].parent
    /\ {broker[o1].status, broker[o2].status} \subseteq OpenAtBroker
    => o1 = o2

\* A cycle that reaches its entry decision with a clean reconciliation has an
\* owner for every contract its positions snapshot shows: exposure that no row
\* explains makes the cycle unclean, which is what blocks entries (SPEC.md: "Halt
\* new entries on any unexplained mismatch").  The code keeps this only while no
\* worker dies between placing an entry and storing its row: reconciliation asks
\* of a position whether its symbol is known, not whether a row explains it.
Owned(c) == {o \in Placed : IsEntry(o) /\ Of(o) = c /\ ledger[o].status \in OpenAtBroker \cup Established}
UnexplainedExposureUnclean ==
  run.pc = "decide" /\ run.clean =>
    \A c \in Candidates, l \in Legs : run.snap.position[c][l] <= Quantity(Owned(c))

\* Canceled closes and their replacements never sell more than the close asked for.
CloseChainWithinRequest ==
  \A root \in Placed :
    LET chain == {o \in Placed : request[o].root = root /\ ~IsEntry(o)}
    IN SumFunctionOnSet([o \in Orders |-> Bought(o)], chain) <= request[root].quantity
=============================================================================
