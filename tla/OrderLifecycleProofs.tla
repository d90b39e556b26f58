------------------------- MODULE OrderLifecycleProofs -------------------------
(***************************************************************************)
(* Proofs about OrderLifecycle for every number of candidates, legs,       *)
(* contracts, orders and cycles, and for every choice of faults.           *)
(***************************************************************************)
EXTENDS OrderLifecycle, Totals

\* The order submitted last, while its row is still to be written.
InFlightPcs == {"persist", "persist_close", "persist_entry"}
InFlight(o) == run.pc \in InFlightPcs /\ o = placed

\* What the snapshot says of an order stays within what the order asked for.
Bounded ==
  /\ \A o \in Orders : o \notin Placed => broker[o].filled = 0
  /\ \A o \in Placed : broker[o].filled <= request[o].quantity
  /\ run.snap.open \subseteq Placed
  /\ \A o \in run.snap.open : run.snap.broker[o].filled <= request[o].quantity

\* Every order being polled or replaced has something left to fill.
WorkLeft ==
  /\ run.pc # "idle" => run.cycle >= 1
  /\ run.pc = "orders" => \A o \in run.work : o \in Placed /\ ledger[o].remaining >= 1
  /\ run.pc = "structures" => run.work \subseteq Placed
  /\ run.pc \in {"cancel", "replace"} =>
       /\ run.current \in Placed /\ ledger[run.current].remaining >= 1
       /\ \A o \in run.work : o \in Placed /\ ledger[o].remaining >= 1
  /\ run.pc \in {"persist", "persist_close", "persist_entry"} => placed # 0
  /\ run.pc = "persist" =>
       /\ run.current \in Placed
       /\ \A o \in run.work : o \in Placed /\ ledger[o].remaining >= 1
  /\ run.pc \in {"persist_close", "mark_closing"} =>
        run.current \in Placed /\ run.work \subseteq Placed

\* Orders of this cycle have a row, save the one in flight; a worker that died
\* leaves an order without a row, and never runs that cycle again.
Attributed ==
  /\ \A o \in Placed : request[o].cycle <= run.cycle
  /\ run.pc # "idle" =>
       \A o \in Placed : HasRow(o) \/ InFlight(o) \/ request[o].cycle < run.cycle

\* After the orders were listed, every working order without a row is in the
\* listing or in flight; a clean cycle has found none.
Before == {"idle", "reading", "ingest", "reconcile"}
Accounted ==
  /\ run.pc \notin {"idle", "reading"} => "orders" \in run.seen
  /\ run.pc # "idle" /\ "orders" \in run.seen =>
       \A o \in Placed : \/ HasRow(o) \/ InFlight(o)
                         \/ broker[o].status \in Terminal \/ o \in run.snap.open
  /\ run.pc \notin Before /\ run.clean => \A o \in run.snap.open : HasRow(o)

TypeInv == TypeOK /\ Bounded /\ WorkLeft
IInv == TypeInv /\ Attributed /\ Accounted /\ UniqueClientIds

(***************************************************************************)
(* What the shared parts of the actions do.                                *)
(***************************************************************************)
\* The record of an order that was accepted has the fields of its type.
LEMMA RequestFields ==
  ASSUME TypeInv, NEW o \in Placed
  PROVE  /\ o \in Orders /\ Of(o) \in Candidates
         /\ request[o] \in Request
         /\ request[o].quantity \in 1..MaxQty
         /\ request[o].parent \in 0..MaxOrders
         /\ broker[o] \in BrokerRecord /\ ledger[o] \in Row
BY ConstantsAssumption, SMTT(40) DEF TypeInv, TypeOK, Request, Of, Placed, Orders

\* Marking a row keeps every row's type, its remaining quantity and its existence.
LEMMA MarkKeepsRows ==
  ASSUME TypeInv, NEW o, NEW s \in RowStatus, MarkRow(o, s)
  PROVE  /\ ledger' \in [Orders -> Row]
         /\ \A p \in Orders : ledger'[p].remaining = ledger[p].remaining
         /\ s # "none" => \A p \in Orders : HasRow(p) => HasRow(p)'
BY DEF TypeInv, TypeOK, MarkRow, Row, HasRow

\* The broker numbers a new order next and leaves the earlier ones alone.
LEMMA AcceptExtends ==
  ASSUME TypeInv, NEW r \in Request, Accept(r)
  PROVE  /\ placed' \in 0..MaxOrders /\ placed' = placed + 1
         /\ Placed' = Placed \cup {placed + 1} /\ placed + 1 \notin Placed
         /\ placed + 1 \in Orders
         /\ request' \in [Orders -> Request]
         /\ request'[placed + 1] = r
         /\ \A o \in Placed : request'[o] = request[o]
         /\ broker' = broker /\ fills' = fills /\ position' = position
BY ConstantsAssumption DEF TypeInv, TypeOK, Accept, Placed, Orders

\* Accepting an order keeps the bounds on what is filled.
LEMMA AcceptBounded ==
  ASSUME TypeInv, NEW r \in Request, Accept(r), run'.snap = run.snap
  PROVE  Bounded'
<1> USE AcceptExtends
<1>1. broker[placed + 1].filled = 0 /\ r.quantity \in 1..MaxQty
  BY DEF TypeInv, Bounded, Request
<1>2. \A o \in Placed' : broker'[o].filled <= request'[o].quantity
  BY <1>1, ConstantsAssumption DEF TypeInv, Bounded
<1>3. \A o \in run.snap.open : o \in Placed
  BY DEF TypeInv, Bounded
<1>4. QED
  BY <1>1, <1>2, <1>3 DEF TypeInv, Bounded

\* The row of the order accepted last.
LEMMA PersistKeepsRows ==
  ASSUME TypeInv, placed # 0, PersistRow
  PROVE  /\ ledger' \in [Orders -> Row]
         /\ \A p \in Orders : HasRow(p) => HasRow(p)'
         /\ ledger'[placed].status = "new"
         /\ \A p \in Orders : ledger[p].remaining >= 1 => ledger'[p].remaining >= 1
<1>1. placed \in Placed
  BY DEF TypeInv, TypeOK, Placed
<1>2. request[placed].quantity \in 1..MaxQty /\ placed \in Orders
  BY <1>1, RequestFields
<1>3. [status |-> "new", remaining |-> request[placed].quantity] \in Row
  BY <1>2, ConstantsAssumption DEF Row, RowStatus, OpenAtBroker
<1>4. QED
  BY <1>2, <1>3, ConstantsAssumption DEF TypeInv, TypeOK, PersistRow, HasRow

(***************************************************************************)
(* Types.  One lemma per group of actions, one step per action.            *)
(***************************************************************************)
LEMMA IdleType ==
  ASSUME NEW n \in 0..MaxCycles
  PROVE  Idle(n) \in Run /\ NoSnap \in Snapshot /\ NoSnap.open = {} /\ Idle(n).snap = NoSnap
         /\ Idle(n).pc = "idle" /\ Idle(n).cycle = n /\ Idle(n).seen = {} /\ Idle(n).clean = TRUE
<1> USE ConstantsAssumption
<1>1. Flat \in [Candidates -> [Legs -> Nat]]
  BY DEF Flat
<1>2. Blank \in BrokerRecord
  BY DEF Blank, BrokerRecord, OpenAtBroker
<1>3. NoSnap \in Snapshot /\ NoSnap.open = {}
  BY <1>1, <1>2 DEF NoSnap, Snapshot
<1>4. Idle(n) \in Run
  <2>1. Closed \in Mode
    BY DEF Closed, Mode
  <2>2. [c \in Candidates |-> 0] \in [Candidates -> 0..MaxOrders]
    OBVIOUS
  <2>3. QED
    BY <1>3, <2>1, <2>2 DEF Idle, Run, Pcs
<1>5. /\ Idle(n).snap = NoSnap /\ Idle(n).pc = "idle" /\ Idle(n).cycle = n
      /\ Idle(n).seen = {} /\ Idle(n).clean = TRUE
  BY DEF Idle
<1>6. QED
  BY <1>3, <1>4, <1>5

LEMMA InitTypeInv == Init => TypeInv
<1> SUFFICES ASSUME Init PROVE TypeInv
  OBVIOUS
<1> USE ConstantsAssumption
<1>1. Flat \in [Candidates -> [Legs -> Nat]]
  BY DEF Flat
<1>2. Blank \in BrokerRecord
  BY DEF Blank, BrokerRecord, OpenAtBroker
<1>3. Idle(0) \in Run /\ Idle(0).snap.open = {} /\ Idle(0).pc = "idle"
  <2>1. 0 \in 0..MaxCycles
    OBVIOUS
  <2>2. QED
    BY <2>1, IdleType
<1>4. NoRow \in Row
  BY DEF NoRow, Row, RowStatus
<1>5. Placed = {}
  BY DEF Init, Placed
<1>6. Unused \in Request
  <2>1. PICK c \in Candidates : TRUE
    OBVIOUS
  <2>2. [candidate |-> c, closing |-> FALSE, parent |-> 0, quantity |-> 1,
         attempt |-> 0, cycle |-> 1, root |-> 0] \in Request
    BY <2>1 DEF Request
  <2>3. QED
    BY <2>2 DEF Unused
<1>7. TypeOK
  BY <1>1, <1>2, <1>3, <1>4, <1>6 DEF Init, TypeOK
<1>8. Bounded
  BY <1>3, <1>5 DEF Init, Bounded, Blank
<1>9. WorkLeft
  BY <1>3 DEF Init, WorkLeft
<1>10. QED
  BY <1>7, <1>8, <1>9 DEF TypeInv

\* The broker's own moves.
LEMMA BrokerTypeInv == TypeInv /\ BrokerNext => TypeInv'
<1> SUFFICES ASSUME TypeInv, BrokerNext PROVE TypeInv'
  OBVIOUS
<1> USE ConstantsAssumption
<1>0. ASSUME UNCHANGED <<placed, request, ledger, listed, latest, run>>,
             broker' \in [Orders -> BrokerRecord],
             fills' \in [Orders -> SUBSET (0..MaxQty)],
             position' \in [Candidates -> [Legs -> Nat]],
             \A o \in Orders : o \notin Placed => broker'[o].filled = 0,
             \A o \in Placed : broker'[o].filled <= request[o].quantity
      PROVE  TypeInv'
  <2>1. TypeOK'
    BY <1>0 DEF TypeInv, TypeOK
  <2>2. Bounded'
    BY <1>0 DEF TypeInv, Bounded, Placed
  <2>3. WorkLeft'
    BY <1>0 DEF TypeInv, WorkLeft, Placed
  <2>4. QED
    BY <2>1, <2>2, <2>3 DEF TypeInv
<1>1. ASSUME NEW o \in Placed, NEW k \in 1..MaxQty, Fill(o, k) PROVE TypeInv'
  <2> DEFINE left == request[o].quantity - broker[o].filled
  <2>1. /\ o \in Orders /\ Of(o) \in Candidates /\ request[o].quantity \in 1..MaxQty
        /\ broker[o] \in BrokerRecord
    BY RequestFields
  <2>2. left \in 0..MaxQty /\ k <= left /\ broker[o].filled + k \in 0..request[o].quantity
    BY <1>1, <2>1 DEF Fill, BrokerRecord, TypeInv, Bounded
  <2>3. /\ broker' \in [Orders -> BrokerRecord]
        /\ broker'[o].filled = broker[o].filled + k
        /\ \A p \in Orders : p # o => broker'[p] = broker[p]
    BY <1>1, <2>1, <2>2 DEF Fill, BrokerRecord, TypeInv, TypeOK, OpenAtBroker, Terminal
  <2>4. fills' \in [Orders -> SUBSET (0..MaxQty)]
    <3>1. left - k \in 0..MaxQty
      BY <2>2
    <3>2. fills' = [fills EXCEPT ![o] = @ \cup {left - k}]
      BY <1>1 DEF Fill
    <3> HIDE DEF left
    <3>3. QED
      BY <2>1, <3>1, <3>2 DEF TypeInv, TypeOK
  <2>5. position' \in [Candidates -> [Legs -> Nat]]
    <3>1. ASSUME NEW l \in Legs
          PROVE  (IF IsEntry(o) THEN position[Of(o)][l] + k ELSE position[Of(o)][l] - k) \in Nat
      BY <1>1, <2>1 DEF Fill, TypeInv, TypeOK
    <3>2. position' = [position EXCEPT ![Of(o)] =
             [l \in Legs |-> IF IsEntry(o) THEN position[Of(o)][l] + k ELSE position[Of(o)][l] - k]]
      BY <1>1, <2>1 DEF Fill, TypeInv, TypeOK
    <3>3. QED
      BY <2>1, <3>1, <3>2 DEF TypeInv, TypeOK
  <2>6. \A p \in Orders : p \notin Placed => broker'[p].filled = 0
    BY <2>3 DEF TypeInv, Bounded
  <2>7. \A p \in Placed : broker'[p].filled <= request[p].quantity
    BY <2>2, <2>3, RequestFields DEF TypeInv, Bounded
  <2>8. QED
    BY <1>0, <1>1, <2>3, <2>4, <2>5, <2>6, <2>7 DEF Fill
<1>2. ASSUME NEW o \in Placed, Lapse(o) PROVE TypeInv'
  <2>1. /\ broker' \in [Orders -> BrokerRecord]
        /\ \A p \in Orders : broker'[p].filled = broker[p].filled
    BY <1>2, RequestFields DEF Lapse, BrokerRecord, TypeInv, TypeOK, OpenAtBroker, Terminal
  <2>2. \A p \in Orders : p \notin Placed => broker'[p].filled = 0
    BY <2>1 DEF TypeInv, Bounded
  <2>3. \A p \in Placed : broker'[p].filled <= request[p].quantity
    BY <2>1, RequestFields DEF TypeInv, Bounded
  <2>4. QED
    BY <1>0, <1>2, <2>1, <2>2, <2>3 DEF Lapse, TypeInv, TypeOK
<1>3. ASSUME NEW c \in Candidates, NEW l \in Legs, Reduce(c, l) PROVE TypeInv'
  <2>1. position' \in [Candidates -> [Legs -> Nat]]
    BY <1>3 DEF Reduce, TypeInv, TypeOK
  <2>2. QED
    BY <1>0, <1>3, <2>1 DEF Reduce, TypeInv, TypeOK, Bounded
<1>4. QED
  BY <1>1, <1>2, <1>3 DEF BrokerNext

\* A step of the worker that leaves the broker's orders and positions alone.
LEMMA LocalTypeInv ==
  ASSUME TypeInv, UNCHANGED <<placed, request, broker, fills, position>>,
         ledger' \in [Orders -> Row],
         listed' \subseteq Candidates,
         latest' \in [kill : BOOLEAN, clean : BOOLEAN],
         run' \in Run,
         run'.snap = run.snap \/ run'.snap.open = {},
         WorkLeft'
  PROVE  TypeInv'
<1>1. TypeOK'
  BY DEF TypeInv, TypeOK
<1>2. Bounded'
  BY DEF TypeInv, Bounded, Placed
<1>3. QED
  BY <1>1, <1>2 DEF TypeInv

\* What persist_fills reads last of an order is a leaves quantity of its own.
LEMMA LastLeavesType ==
  ASSUME NEW acts \in SUBSET (0..MaxQty), acts # {}
  PROVE  LastLeaves(acts) \in 0..MaxQty
<1>1. acts \in SUBSET Nat /\ MaxQty \in Nat
  BY ConstantsAssumption
<1>2. Max(acts) \in acts /\ Min(acts) \in acts
  BY <1>1, MinIsElement, MaxIsElement
<1>3. QED
  BY <1>2 DEF LastLeaves

LEMMA IngestType ==
  ASSUME TypeInv, IngestFills
  PROVE  ledger' \in [Orders -> Row] /\ \A o \in Orders : HasRow(o) => HasRow(o)'
<1> DEFINE advanced(o) ==
      IF HasRow(o) /\ run.snap.fills[o] # {}
      THEN [status    |-> IF LastLeaves(run.snap.fills[o]) = 0 THEN "filled" ELSE "partially_filled",
            remaining |-> LastLeaves(run.snap.fills[o])]
      ELSE ledger[o]
<1>1. ledger' = [o \in Orders |-> advanced(o)]
  BY DEF IngestFills
<1>2. ASSUME NEW o \in Orders
      PROVE  advanced(o) \in Row /\ (HasRow(o) => advanced(o).status # "none")
  <2>1. run.snap.fills[o] \in SUBSET (0..MaxQty) /\ ledger[o] \in Row
    BY DEF TypeInv, TypeOK, Run, Snapshot
  <2>2. CASE HasRow(o) /\ run.snap.fills[o] # {}
    <3>1. LastLeaves(run.snap.fills[o]) \in 0..MaxQty
      BY <2>1, <2>2, LastLeavesType
    <3>2. QED
      BY <2>2, <3>1 DEF Row, RowStatus, OpenAtBroker, Established
  <2>3. CASE ~(HasRow(o) /\ run.snap.fills[o] # {})
    BY <2>1, <2>3 DEF HasRow
  <2>4. QED
    BY <2>2, <2>3
<1> HIDE DEF advanced
<1>3. QED
  BY <1>1, <1>2 DEF HasRow

\* Reconciliation keeps the rows' types and their existence.
LEMMA ReconcileType ==
  ASSUME TypeInv
  PROVE  LET rows == Absent(Normalized(Synced)) IN
         /\ rows \in [Orders -> Row]
         /\ \A o \in Orders : HasRow(o) => rows[o].status # "none"
<1> USE ConstantsAssumption
<1>1. /\ Synced \in [Orders -> Row]
      /\ \A o \in Orders : HasRow(o) => Synced[o].status # "none"
  <2>1. ASSUME NEW o \in Orders, o \in run.snap.open
        PROVE  [status    |-> run.snap.broker[o].status,
                remaining |-> request[o].quantity - run.snap.broker[o].filled] \in Row
    <3>1. run.snap.broker[o] \in BrokerRecord
      BY DEF TypeInv, TypeOK, Run, Snapshot
    <3>2. o \in Placed /\ run.snap.broker[o].filled <= request[o].quantity
      BY <2>1 DEF TypeInv, Bounded
    <3>3. request[o].quantity - run.snap.broker[o].filled \in 0..MaxQty
      BY <3>1, <3>2, RequestFields DEF BrokerRecord
    <3>4. QED
      BY <3>1, <3>3 DEF Row, RowStatus, BrokerRecord, Terminal, Established
  <2>2. \A o \in Orders : run.snap.broker[o].status \in OpenAtBroker \cup Terminal
    BY DEF TypeInv, TypeOK, Run, Snapshot, BrokerRecord
  <2>3. QED
    BY <2>1, <2>2 DEF Synced, HasRow, TypeInv, TypeOK, OpenAtBroker, Terminal
<1>2. ASSUME NEW rows \in [Orders -> Row]
      PROVE  /\ Normalized(rows) \in [Orders -> Row]
             /\ \A o \in Orders : rows[o].status # "none" => Normalized(rows)[o].status # "none"
  <2>1. [status |-> "filled", remaining |-> 0] \in Row
    BY DEF Row, RowStatus, Established
  <2>2. QED
    BY <2>1 DEF Normalized
<1>3. ASSUME NEW rows \in [Orders -> Row]
      PROVE  /\ Absent(rows) \in [Orders -> Row]
             /\ \A o \in Orders : rows[o].status # "none" => Absent(rows)[o].status # "none"
  <2>1. \A o \in Orders : [rows[o] EXCEPT !.status = "closed"] \in Row
    BY DEF Row, RowStatus
  <2>2. QED
    BY <2>1 DEF Absent, Row
<1>4. QED
  BY <1>1, <1>2, <1>3

\* Reads, fill ingestion, reconciliation and the start of the lifecycle.
LEMMA BeginTypeInv == ASSUME TypeInv, NEW m \in Modes, BeginCycle(m) PROVE TypeInv'
<1>1. run.cycle + 1 \in 0..MaxCycles /\ run.cycle + 1 >= 1
  BY ConstantsAssumption DEF BeginCycle, TypeInv, TypeOK, Run
<1>2. Idle(run.cycle + 1) \in Run /\ Idle(run.cycle + 1).snap.open = {}
  BY <1>1, IdleType
<1>3. /\ run' \in Run /\ run'.snap.open = {} /\ run'.pc = "reading"
      /\ run'.cycle = Idle(run.cycle + 1).cycle
  BY <1>2 DEF BeginCycle, Run, Modes, Pcs
<1>4. WorkLeft'
  BY <1>1, <1>3 DEF WorkLeft, Idle
<1>5. QED
  BY <1>3, <1>4, LocalTypeInv DEF BeginCycle, TypeInv, TypeOK, brokerVars

LEMMA ReadTypeInv == ASSUME TypeInv, NEW S \in SUBSET Reads, Read(S) PROVE TypeInv'
<1> USE ConstantsAssumption
<1> DEFINE open == {o \in Placed : broker[o].status \in OpenAtBroker}
           listing == [o \in Orders |-> IF o \in open THEN broker[o] ELSE Blank]
           new == [open     |-> IF "orders" \in S THEN open ELSE run.snap.open,
                   broker   |-> IF "orders" \in S THEN listing ELSE run.snap.broker,
                   position |-> IF "positions" \in S THEN position ELSE run.snap.position,
                   fills    |-> IF "activities" \in S THEN fills ELSE run.snap.fills]
<1>1. open \subseteq Placed /\ Placed \subseteq Orders
  BY DEF TypeInv, TypeOK, Placed, Orders
<1>2. listing \in [Orders -> BrokerRecord] /\ \A o \in open : listing[o] = broker[o]
  BY <1>1 DEF TypeInv, TypeOK, Blank, BrokerRecord, OpenAtBroker
<1>3. run.snap \in Snapshot
  BY DEF TypeInv, TypeOK, Run
<1>4. /\ new \in Snapshot /\ new.open \subseteq Placed
      /\ \A o \in new.open : new.broker[o].filled <= request[o].quantity
  <2> HIDE DEF open, listing
  <2>1. \A o \in open : o \in Placed /\ broker[o].filled <= request[o].quantity
    BY <1>1 DEF TypeInv, Bounded
  <2>2. open \in SUBSET Orders
    BY <1>1
  <2>3. new \in Snapshot
    BY <1>2, <1>3, <2>2 DEF Snapshot, TypeInv, TypeOK
  <2>4. QED
    BY <1>1, <1>2, <2>1, <2>3 DEF TypeInv, Bounded
<1>5. run' = [run EXCEPT !.snap = new, !.seen = @ \cup S,
                         !.pc = IF run.seen \cup S = Reads THEN "ingest" ELSE "reading"]
  BY DEF Read
<1> HIDE DEF new
<1>6. /\ run' \in Run /\ run'.snap = new /\ run'.pc \in {"ingest", "reading"}
      /\ run'.cycle = run.cycle
  BY <1>4, <1>5 DEF TypeInv, TypeOK, Run, Pcs
<1>7. TypeOK'
  BY <1>6 DEF Read, TypeInv, TypeOK, brokerVars
<1>8. Bounded'
  BY <1>4, <1>6 DEF Read, TypeInv, Bounded, brokerVars, Placed
<1>9. WorkLeft'
  BY <1>6 DEF Read, TypeInv, WorkLeft
<1>10. QED
  BY <1>7, <1>8, <1>9 DEF TypeInv

LEMMA IngestTypeInv == ASSUME TypeInv, IngestFills PROVE TypeInv'
<1>1. run' \in Run /\ run'.snap = run.snap /\ run'.pc = "reconcile" /\ run'.cycle = run.cycle
  BY DEF IngestFills, TypeInv, TypeOK, Run, Pcs
<1>2. WorkLeft'
  BY <1>1 DEF IngestFills, TypeInv, WorkLeft
<1>3. QED
  BY <1>1, <1>2, IngestType, LocalTypeInv DEF IngestFills, TypeInv, TypeOK, brokerVars

\* Any orders accepted are no more than the bound.
LEMMA PlacedCounted ==
  ASSUME TypeInv, NEW T \in SUBSET Placed
  PROVE  IsFiniteSet(T) /\ Cardinality(T) \in 0..MaxOrders
<1>1. placed \in Int /\ placed >= 0 /\ placed <= MaxOrders /\ MaxOrders \in Nat
  BY ConstantsAssumption DEF TypeInv, TypeOK
<1>2. /\ IsFiniteSet(1..placed)
      /\ Cardinality(1..placed) = IF 1 > placed THEN 0 ELSE placed - 1 + 1
  BY <1>1, FS_Interval
<1>3. Cardinality(1..placed) <= MaxOrders
  BY <1>1, <1>2
<1>4. IsFiniteSet(T) /\ Cardinality(T) <= Cardinality(1..placed)
  BY <1>2, FS_Subset DEF Placed
<1>5. Cardinality(T) \in Nat /\ Cardinality(1..placed) \in Nat
  BY <1>2, <1>4, FS_CardinalityType
<1>6. QED
  BY <1>1, <1>3, <1>4, <1>5

LEMMA ReconcileTypeInv == ASSUME TypeInv, Reconcile PROVE TypeInv'
<1> DEFINE rows == Absent(Normalized(Synced))
<1>1. ledger' = rows /\ rows \in [Orders -> Row]
  BY ReconcileType DEF Reconcile
<1>2. \A c \in Candidates : \A S : Cardinality(EntriesIn(rows, c, S)) \in 0..MaxOrders
  <2>1. \A c, S : EntriesIn(rows, c, S) \in SUBSET Placed
    BY DEF EntriesIn
  <2> HIDE DEF rows
  <2>2. QED
    BY <2>1, PlacedCounted
<1>3. run' \in Run /\ run'.snap = run.snap /\ run'.pc = "start" /\ run'.cycle = run.cycle
  <2> DEFINE found == UnknownOrders = {} /\ UnknownPositions = {}
             bought == {c \in Candidates : EntriesIn(rows, c, OpenAtBroker) # {}}
             held == [c \in Candidates |->
                        Cardinality(EntriesIn(rows, c, Established \cup {"partially_filled"}))]
  <2>1. run' = [run EXCEPT !.pc = "start", !.clean = found, !.pending = bought, !.open = held]
    BY DEF Reconcile
  <2>2. /\ found \in BOOLEAN /\ bought \in SUBSET Candidates
        /\ held \in [Candidates -> 0..MaxOrders]
    BY <1>2
  <2> HIDE DEF found, bought, held
  <2>3. QED
    BY <2>1, <2>2 DEF TypeInv, TypeOK, Run, Pcs
<1>4. WorkLeft'
  BY <1>3 DEF Reconcile, TypeInv, WorkLeft
<1>5. QED
  BY <1>1, <1>3, <1>4, LocalTypeInv DEF Reconcile, TypeInv, TypeOK, brokerVars

LEMMA StartTypeInv == ASSUME TypeInv, StartLifecycle PROVE TypeInv'
<1> DEFINE closed == [o \in Orders |-> IF o \in FilledCloseParents
                                       THEN [ledger[o] EXCEPT !.status = "closed"] ELSE ledger[o]]
<1>1. /\ ledger' = closed /\ closed \in [Orders -> Row]
      /\ \A o \in Orders : closed[o].remaining = ledger[o].remaining
  BY DEF StartLifecycle, TypeInv, TypeOK, Row, RowStatus
<1>2. PendingManaged \in SUBSET Orders /\ PendingManaged \subseteq Placed
  BY RequestFields DEF PendingManaged
<1>3. \A o \in PendingManaged : ledger[o].remaining >= 1
  BY DEF PendingManaged
<1>4. /\ run' \in Run /\ run'.snap = run.snap /\ run'.pc = "orders"
      /\ run'.cycle = run.cycle /\ run'.work = PendingManaged
  BY <1>2 DEF StartLifecycle, TypeInv, TypeOK, Run, Pcs
<1> HIDE DEF closed
<1>5. WorkLeft'
  BY <1>1, <1>2, <1>3, <1>4 DEF StartLifecycle, TypeInv, WorkLeft, Placed
<1>6. QED
  BY <1>1, <1>4, <1>5, LocalTypeInv DEF StartLifecycle, TypeInv, TypeOK, brokerVars

\* Polling, canceling and replacing the working orders.
LEMMA PollTypeInv ==
  ASSUME TypeInv, NEW o \in run.work,
         \/ PollEntryTerminal(o) \/ PollCloseCanceled(o) \/ PollCloseFilled(o) \/ PollWait(o)
         \/ \E a \in {"cancel", "cancel_and_replace"} : PollCancel(o, a)
  PROVE  TypeInv'
<1> USE ConstantsAssumption
<1>1. /\ run.pc = "orders" /\ o \in Placed /\ o \in Orders
      /\ \A p \in run.work : p \in Placed /\ ledger[p].remaining >= 1
      /\ run.work \in SUBSET Orders
  BY RequestFields DEF PollEntryTerminal, PollCloseCanceled, PollCloseFilled, PollWait, PollCancel,
     Polling, TypeInv, WorkLeft, TypeOK, Run
<1>2. Of(o) \in Candidates /\ broker[o] \in BrokerRecord
  BY <1>1, RequestFields
<1>3. ASSUME UNCHANGED <<placed, request, broker, fills, position, listed, latest>>,
             ledger' \in [Orders -> Row],
             \A p \in Orders : ledger'[p].remaining = ledger[p].remaining,
             run' \in Run, run'.snap = run.snap, run'.pc = "orders",
             run'.cycle = run.cycle, run'.work = run.work \ {o}
      PROVE  TypeInv'
  <2>1. WorkLeft'
    BY <1>1, <1>3 DEF TypeInv, WorkLeft, Placed, Orders, TypeOK
  <2>2. QED
    BY <1>3, <2>1, LocalTypeInv DEF TypeInv, TypeOK
<1>4. CASE PollEntryTerminal(o)
  <2>1. broker[o].status \in RowStatus /\ "partially_filled_canceled" \in RowStatus
    BY <1>2, <1>4 DEF PollEntryTerminal, Terminal, RowStatus, Established
  <2>2. /\ ledger' \in [Orders -> Row]
        /\ \A p \in Orders : ledger'[p].remaining = ledger[p].remaining
    BY <1>4, <2>1, MarkKeepsRows DEF PollEntryTerminal
  <2>3. run' \in Run /\ run'.snap = run.snap /\ run'.pc = "orders"
        /\ run'.cycle = run.cycle /\ run'.work = run.work \ {o}
    BY <1>1, <1>2, <1>4 DEF PollEntryTerminal, TypeInv, TypeOK, Run
  <2>4. QED
    BY <1>3, <1>4, <2>2, <2>3 DEF PollEntryTerminal, brokerVars
<1>5. CASE PollCloseCanceled(o)
  <2>1. /\ ledger' \in [Orders -> Row]
        /\ \A p \in Orders : ledger'[p].remaining = ledger[p].remaining
    BY <1>5, MarkKeepsRows DEF PollCloseCanceled, RowStatus
  <2>2. run' \in Run /\ run'.snap = run.snap /\ run'.pc = "orders"
        /\ run'.cycle = run.cycle /\ run'.work = run.work \ {o}
    BY <1>1, <1>5 DEF PollCloseCanceled, TypeInv, TypeOK, Run
  <2>3. QED
    BY <1>3, <1>5, <2>1, <2>2 DEF PollCloseCanceled, brokerVars
<1>6. CASE PollCloseFilled(o)
  <2> DEFINE p == request[o].parent
             settled == CloseAgrees(o) /\ ParentCloses(o)
  <2>1. ledger' = [ledger EXCEPT ![o].status = "filled",
                                 ![p].status = IF settled THEN "closed" ELSE @]
    BY <1>6 DEF PollCloseFilled
  <2>2. /\ ledger' \in [Orders -> Row]
        /\ \A q \in Orders : ledger'[q].remaining = ledger[q].remaining
    <3> DEFINE sold == [ledger EXCEPT ![o].status = "filled"]
               gone == IF settled THEN "closed" ELSE ledger[p].status
    <3>1. ledger \in [Orders -> Row] /\ "filled" \in RowStatus /\ "closed" \in RowStatus
      BY DEF TypeInv, TypeOK, RowStatus, Established
    <3> HIDE DEF settled, p
    <3>2. ledger' = [sold EXCEPT ![p].status = gone]
      BY <2>1
    <3>3. sold \in [Orders -> Row] /\ \A q \in Orders : sold[q].remaining = ledger[q].remaining
      BY <3>1 DEF Row
    <3> HIDE DEF sold
    <3>4. CASE p \in Orders
      <4>1. gone \in RowStatus
        BY <3>1, <3>3, <3>4 DEF Row
      <4> HIDE DEF gone
      <4>2. QED
        BY <3>2, <3>3, <4>1 DEF Row
    <3>5. CASE p \notin Orders
      <4>1. ledger' = sold
        BY <3>2, <3>3, <3>5
      <4>2. QED
        BY <3>3, <4>1
    <3>6. QED
      BY <3>4, <3>5
  <2>3. run' = [run EXCEPT !.work = @ \ {o}, !.clean = @ /\ settled,
                           !.active = IF CloseAgrees(o) THEN @ ELSE @ \cup {Of(o)}]
    BY <1>6 DEF PollCloseFilled
  <2>4. (run.clean /\ settled) \in BOOLEAN
    OBVIOUS
  <2>5. run' \in Run /\ run'.snap = run.snap /\ run'.pc = "orders"
        /\ run'.cycle = run.cycle /\ run'.work = run.work \ {o}
    <3> HIDE DEF settled
    <3>1. QED
      BY <1>1, <1>2, <2>3, <2>4 DEF TypeInv, TypeOK, Run
  <2>6. QED
    BY <1>3, <1>6, <2>2, <2>5 DEF PollCloseFilled, brokerVars
<1>7. CASE PollWait(o)
  <2>1. run' \in Run /\ run'.snap = run.snap /\ run'.pc = "orders"
        /\ run'.cycle = run.cycle /\ run'.work = run.work \ {o}
    BY <1>1, <1>2, <1>7 DEF PollWait, TypeInv, TypeOK, Run
  <2>2. QED
    BY <1>3, <1>7, <2>1 DEF PollWait, brokerVars, TypeInv, TypeOK
<1>8. ASSUME NEW a \in {"cancel", "cancel_and_replace"}, PollCancel(o, a) PROVE TypeInv'
  <2> DEFINE follow == /\ a = "cancel_and_replace" /\ run.mode.open
                       /\ (placed < MaxOrders \/ OrderExists(Replacement(o)))
  <2>1. run' = [run EXCEPT !.pc = "cancel", !.current = o, !.work = @ \ {o}, !.replace = follow]
    BY <1>8 DEF PollCancel
  <2>2. follow \in BOOLEAN
    OBVIOUS
  <2>3. /\ run' \in Run /\ run'.snap = run.snap /\ run'.pc = "cancel" /\ run'.current = o
        /\ run'.cycle = run.cycle /\ run'.work = run.work \ {o}
    <3>1. o \in 0..MaxOrders /\ run.work \ {o} \in SUBSET Orders /\ "cancel" \in Pcs
      BY <1>1 DEF Orders, Pcs
    <3> HIDE DEF follow
    <3>2. QED
      BY <2>1, <2>2, <3>1 DEF TypeInv, TypeOK, Run
  <2>4. WorkLeft'
    BY <1>1, <1>8, <2>3 DEF PollCancel, TypeInv, WorkLeft, Placed, brokerVars
  <2>5. QED
    BY <1>8, <2>3, <2>4, LocalTypeInv DEF PollCancel, TypeInv, TypeOK, brokerVars
<1>9. QED
  BY <1>4, <1>5, <1>6, <1>7, <1>8

LEMMA ReplaceTypeInv ==
  ASSUME TypeInv,
         CancelAccepted \/ PlaceReplacement \/ ReplacementExists \/ PersistReplacement \/ EndOrders
  PROVE  TypeInv'
<1> USE ConstantsAssumption
<1> DEFINE o == run.current
<1>1. CASE CancelAccepted
  <2>1. /\ o \in Placed /\ o \in Orders /\ broker[o] \in BrokerRecord
        /\ ledger[o].remaining >= 1
        /\ \A p \in run.work : p \in Placed /\ p \in Orders /\ ledger[p].remaining >= 1
    BY <1>1, RequestFields DEF CancelAccepted, TypeInv, WorkLeft
  <2>2. /\ broker' \in [Orders -> BrokerRecord]
        /\ \A p \in Orders : broker'[p].filled = broker[p].filled
    BY <1>1, <2>1 DEF CancelAccepted, BrokerRecord, TypeInv, TypeOK, OpenAtBroker, Terminal
  <2>3. /\ ledger' \in [Orders -> Row]
        /\ \A p \in Orders : ledger'[p].remaining = ledger[p].remaining
    <3>1. CanceledStatus(o) \in RowStatus
      BY DEF CanceledStatus, RowStatus, Established
    <3>2. QED
      BY <1>1, <3>1, MarkKeepsRows DEF CancelAccepted
  <2>4. /\ run' \in Run /\ run'.snap = run.snap /\ run'.pc \in {"replace", "orders"}
        /\ run'.cycle = run.cycle /\ run'.work = run.work /\ run'.current = run.current
    BY <1>1 DEF CancelAccepted, TypeInv, TypeOK, Run, Pcs
  <2>5. TypeOK'
    BY <1>1, <2>2, <2>3, <2>4 DEF CancelAccepted, TypeInv, TypeOK
  <2>6. Bounded'
    BY <1>1, <2>2, <2>4, RequestFields DEF CancelAccepted, TypeInv, Bounded, Placed
  <2>7. WorkLeft'
    BY <1>1, <2>1, <2>3, <2>4 DEF CancelAccepted, TypeInv, WorkLeft, Placed
  <2>8. QED
    BY <2>5, <2>6, <2>7 DEF TypeInv
<1>2. CASE PlaceReplacement
  <2> DEFINE r == Replacement(o)
  <2>1. /\ o \in Placed /\ run.cycle \in 1..MaxCycles
        /\ \A p \in run.work : p \in Placed /\ ledger[p].remaining >= 1
    BY <1>2 DEF PlaceReplacement, TypeInv, WorkLeft, TypeOK, Run
  <2>2. r \in Request
    <3>1. ledger[o].remaining \in 1..MaxQty
      BY <1>2, RequestFields DEF PlaceReplacement, TypeInv, WorkLeft, Row
    <3>2. request[o] \in Request /\ Smaller(request[o].attempt + 1, 2) \in 0..2
      BY <2>1, RequestFields DEF Smaller, Request
    <3>3. QED
      BY <2>1, <3>1, <3>2 DEF Replacement, Request
  <2>3. Accept(r)
    BY <1>2 DEF PlaceReplacement
  <2> HIDE DEF r
  <2>4. /\ run' \in Run /\ run'.snap = run.snap /\ run'.pc = "persist"
        /\ run'.cycle = run.cycle /\ run'.work = run.work /\ run'.current = run.current
    BY <1>2 DEF PlaceReplacement, TypeInv, TypeOK, Run, Pcs
  <2>5. Bounded'
    BY <2>2, <2>3, <2>4, AcceptBounded
  <2>6. TypeOK'
    BY <1>2, <2>2, <2>3, <2>4, AcceptExtends DEF PlaceReplacement, TypeInv, TypeOK
  <2>7. WorkLeft'
    <3>1. placed' # 0 /\ Placed \subseteq Placed' /\ ledger' = ledger
      BY <1>2, <2>2, <2>3, AcceptExtends DEF PlaceReplacement, TypeInv, TypeOK
    <3>2. QED
      BY <2>1, <2>4, <3>1 DEF WorkLeft
  <2>8. QED
    BY <2>5, <2>6, <2>7 DEF TypeInv
<1>3. CASE ReplacementExists
  <2>1. Of(o) \in Candidates
    BY <1>3, RequestFields DEF ReplacementExists, TypeInv, WorkLeft
  <2>2. /\ run' \in Run /\ run'.snap = run.snap /\ run'.pc = "orders"
        /\ run'.cycle = run.cycle /\ run'.work = run.work
    BY <1>3, <2>1 DEF ReplacementExists, TypeInv, TypeOK, Run, Pcs
  <2>3. WorkLeft'
    BY <1>3, <2>2 DEF ReplacementExists, TypeInv, WorkLeft, Placed
  <2>4. QED
    BY <1>3, <2>2, <2>3, LocalTypeInv DEF ReplacementExists, TypeInv, TypeOK, brokerVars
<1>4. CASE PersistReplacement
  <2>2. placed # 0 /\ (\A p \in run.work : p \in Placed /\ p \in Orders /\ ledger[p].remaining >= 1)
    BY <1>4, RequestFields DEF PersistReplacement, TypeInv, WorkLeft
  <2>3. /\ ledger' \in [Orders -> Row]
        /\ \A p \in Orders : ledger[p].remaining >= 1 => ledger'[p].remaining >= 1
    BY <1>4, <2>2, PersistKeepsRows DEF PersistReplacement
  <2>4. Of(o) \in Candidates
    BY <1>4, RequestFields DEF PersistReplacement, TypeInv, WorkLeft
  <2>5. /\ run' \in Run /\ run'.snap = run.snap /\ run'.pc = "orders"
        /\ run'.cycle = run.cycle /\ run'.work = run.work
    BY <1>4, <2>4 DEF PersistReplacement, TypeInv, TypeOK, Run, Pcs
  <2>6. WorkLeft'
    BY <1>4, <2>2, <2>3, <2>5 DEF PersistReplacement, TypeInv, WorkLeft, Placed
  <2>7. QED
    BY <1>4, <2>3, <2>5, <2>6, LocalTypeInv DEF PersistReplacement, TypeInv, TypeOK, brokerVars
<1>5. CASE EndOrders
  <2>1. OpenManaged \subseteq Placed /\ OpenManaged \in SUBSET Orders
    BY RequestFields DEF OpenManaged
  <2>2. /\ run' \in Run /\ run'.snap = run.snap /\ run'.pc = "structures"
        /\ run'.cycle = run.cycle /\ run'.work = OpenManaged
    BY <1>5, <2>1 DEF EndOrders, TypeInv, TypeOK, Run, Pcs
  <2>3. WorkLeft'
    BY <1>5, <2>1, <2>2 DEF EndOrders, TypeInv, WorkLeft, Placed
  <2>4. QED
    BY <1>5, <2>2, <2>3, LocalTypeInv DEF EndOrders, TypeInv, TypeOK, brokerVars
<1>6. QED
  BY <1>1, <1>2, <1>3, <1>4, <1>5

\* A close sized by the positions snapshot asks for at least one contract and
\* for no more than the structure was opened with.
LEMMA CloseRequestType ==
  ASSUME TypeInv, NEW o \in Placed, Judging(o), Present(o) = Legs, placed < MaxOrders
  PROVE  CloseRequest(o) \in Request
<1> USE ConstantsAssumption
<1> DEFINE held == {run.snap.position[Of(o)][l] : l \in Legs}
<1>1. /\ o \in Orders /\ Of(o) \in Candidates /\ request[o].quantity \in 1..MaxQty
  BY RequestFields
<1>2. held \in SUBSET Nat /\ held # {}
  BY <1>1 DEF TypeInv, TypeOK, Run, Snapshot
<1>3. \A n \in held : n > 0
  BY DEF Present
<1>4. Min(held) \in Nat /\ Min(held) > 0
  <2> HIDE DEF held
  <2>1. QED
    BY <1>2, <1>3, MinIsElement
<1>5. Smaller(request[o].quantity, Min(held)) \in 1..MaxQty
  <2> HIDE DEF held
  <2>1. QED
    BY <1>1, <1>4 DEF Smaller
<1>6. run.cycle \in 1..MaxCycles /\ placed + 1 \in 0..MaxOrders /\ o \in 0..MaxOrders
  BY <1>1 DEF Judging, TypeInv, WorkLeft, TypeOK, Run, Orders
<1>7. CloseRequest(o) = [candidate |-> Of(o), closing |-> TRUE, parent |-> o, root |-> placed + 1,
        quantity |-> Smaller(request[o].quantity, Min(held)), attempt |-> 0, cycle |-> run.cycle]
  BY DEF CloseRequest
<1> HIDE DEF held
<1>8. QED
  BY <1>1, <1>5, <1>6, <1>7 DEF Request

\* Judging the managed structures and closing them.
LEMMA StructureTypeInv ==
  ASSUME TypeInv, NEW o \in run.work,
         \/ StructureSkipped(o) \/ StructureFlat(o) \/ StructureReduced(o) \/ StructureHeld(o)
         \/ CloseExists(o) \/ CloseWithoutQuotes(o) \/ PlaceClose(o)
  PROVE  TypeInv'
<1> USE ConstantsAssumption
<1>1. run.pc = "structures" /\ o \in Placed /\ o \in Orders /\ run.work \subseteq Placed
  BY RequestFields DEF StructureSkipped, StructureFlat, StructureReduced, StructureHeld,
     CloseExists, CloseWithoutQuotes, PlaceClose, Judging, TypeInv, WorkLeft
<1>2. ASSUME UNCHANGED <<placed, request, broker, fills, position, listed, latest>>,
             ledger' \in [Orders -> Row],
             run' = [run EXCEPT !.work = @ \ {o}]
             \/ run' = [run EXCEPT !.work = @ \ {o}, !.clean = FALSE]
      PROVE  TypeInv'
  <2>1. /\ run' \in Run /\ run'.snap = run.snap /\ run'.pc = "structures"
        /\ run'.cycle = run.cycle /\ run'.work = run.work \ {o}
    <3>1. CASE run' = [run EXCEPT !.work = @ \ {o}]
      BY <1>1, <3>1 DEF TypeInv, TypeOK, Run
    <3>2. CASE run' = [run EXCEPT !.work = @ \ {o}, !.clean = FALSE]
      BY <1>1, <3>2 DEF TypeInv, TypeOK, Run
    <3>3. QED
      BY <1>2, <3>1, <3>2
  <2>2. WorkLeft'
    BY <1>1, <1>2, <2>1 DEF TypeInv, WorkLeft, Placed
  <2>3. QED
    BY <1>2, <2>1, <2>2, LocalTypeInv DEF TypeInv, TypeOK
<1>3. CASE StructureSkipped(o)
  BY <1>2, <1>3 DEF StructureSkipped, Judged, TypeInv, TypeOK, brokerVars
<1>4. CASE StructureFlat(o)
  <2>1. ledger' \in [Orders -> Row]
    BY <1>4, MarkKeepsRows DEF StructureFlat, RowStatus
  <2>2. QED
    BY <1>2, <1>4, <2>1 DEF StructureFlat, Judged, brokerVars
<1>5. CASE StructureReduced(o)
  <2>1. ledger' \in [Orders -> Row]
    BY <1>5, MarkKeepsRows DEF StructureReduced, RowStatus, Established
  <2>2. QED
    BY <1>2, <1>5, <2>1 DEF StructureReduced, brokerVars
<1>6. CASE StructureHeld(o)
  BY <1>2, <1>6 DEF StructureHeld, Judged, TypeInv, TypeOK, brokerVars
<1>7. CASE CloseExists(o)
  BY <1>2, <1>7 DEF CloseExists, Judged, TypeInv, TypeOK, brokerVars
<1>8. CASE CloseWithoutQuotes(o)
  BY <1>2, <1>8 DEF CloseWithoutQuotes, TypeInv, TypeOK, brokerVars
<1>9. CASE PlaceClose(o)
  <2> DEFINE r == CloseRequest(o)
  <2>1. r \in Request /\ Accept(r)
    BY <1>1, <1>9, CloseRequestType DEF PlaceClose, Accept
  <2> HIDE DEF r
  <2>2. /\ run' \in Run /\ run'.snap = run.snap /\ run'.pc = "persist_close"
        /\ run'.cycle = run.cycle /\ run'.work = run.work \ {o} /\ run'.current = o
    <3>1. o \in 0..MaxOrders
      BY <1>1 DEF Orders
    <3>2. QED
      BY <1>9, <3>1 DEF PlaceClose, TypeInv, TypeOK, Run, Pcs
  <2>3. Bounded'
    BY <2>1, <2>2, AcceptBounded
  <2>4. TypeOK'
    BY <1>9, <2>1, <2>2, AcceptExtends DEF PlaceClose, TypeInv, TypeOK
  <2>5. WorkLeft'
    <3>1. placed' # 0 /\ Placed \subseteq Placed'
      BY <2>1, AcceptExtends DEF TypeInv, TypeOK
    <3>2. run'.cycle >= 1
      BY <1>1, <2>2 DEF TypeInv, WorkLeft
    <3>3. QED
      BY <1>1, <2>2, <3>1, <3>2 DEF WorkLeft
  <2>6. QED
    BY <2>3, <2>4, <2>5 DEF TypeInv
<1>10. QED
  BY <1>3, <1>4, <1>5, <1>6, <1>7, <1>8, <1>9

LEMMA ClosingTypeInv == ASSUME TypeInv, PersistClose \/ MarkClosing \/ EndStructures PROVE TypeInv'
<1> USE ConstantsAssumption
<1>1. CASE PersistClose
  <2>1. placed # 0 /\ ledger' \in [Orders -> Row]
    BY <1>1, PersistKeepsRows DEF PersistClose, TypeInv, WorkLeft
  <2>2. /\ run' \in Run /\ run'.snap = run.snap /\ run'.pc = "mark_closing"
        /\ run'.cycle = run.cycle /\ run'.work = run.work /\ run'.current = run.current
    BY <1>1 DEF PersistClose, TypeInv, TypeOK, Run, Pcs
  <2>3. WorkLeft'
    BY <1>1, <2>2 DEF PersistClose, TypeInv, WorkLeft, Placed
  <2>4. QED
    BY <1>1, <2>1, <2>2, <2>3, LocalTypeInv DEF PersistClose, TypeInv, TypeOK, brokerVars
<1>2. CASE MarkClosing
  <2>1. ledger' \in [Orders -> Row]
    BY <1>2, MarkKeepsRows DEF MarkClosing, RowStatus, Established
  <2>2. /\ run' \in Run /\ run'.snap = run.snap /\ run'.pc = "structures"
        /\ run'.cycle = run.cycle /\ run'.work = run.work
    BY <1>2 DEF MarkClosing, TypeInv, TypeOK, Run, Pcs
  <2>3. WorkLeft'
    BY <1>2, <2>2 DEF MarkClosing, TypeInv, WorkLeft, Placed
  <2>4. QED
    BY <1>2, <2>1, <2>2, <2>3, LocalTypeInv DEF MarkClosing, TypeInv, TypeOK, brokerVars
<1>3. CASE EndStructures
  <2>1. /\ run' \in Run /\ run'.snap = run.snap /\ run'.pc = "decide" /\ run'.cycle = run.cycle
    BY <1>3 DEF EndStructures, TypeInv, TypeOK, Run, Pcs
  <2>2. WorkLeft'
    BY <1>3, <2>1 DEF EndStructures, TypeInv, WorkLeft
  <2>3. QED
    BY <1>3, <2>1, <2>2, LocalTypeInv DEF EndStructures, TypeInv, TypeOK, brokerVars
<1>4. QED
  BY <1>1, <1>2, <1>3

\* The entry, and every way a cycle ends.
LEMMA EntryTypeInv ==
  ASSUME TypeInv, NEW c \in Candidates, NEW q \in 1..MaxQty, PlaceEntry(c, q) PROVE TypeInv'
<1> USE ConstantsAssumption
<1> DEFINE r == EntryRequest(c, q)
<1>1. run.cycle \in 1..MaxCycles /\ Accept(r) /\ placed + 1 \in 0..MaxOrders
  BY DEF PlaceEntry, Accept, TypeInv, WorkLeft, TypeOK, Run
<1>2. r \in Request
  BY <1>1 DEF EntryRequest, Request
<1> HIDE DEF r
<1>3. /\ run' \in Run /\ run'.snap = run.snap /\ run'.pc = "persist_entry"
      /\ run'.cycle = run.cycle
  BY DEF PlaceEntry, TypeInv, TypeOK, Run, Pcs
<1>4. Bounded'
  BY <1>1, <1>2, <1>3, AcceptBounded
<1>5. TypeOK'
  BY <1>1, <1>2, <1>3, AcceptExtends DEF PlaceEntry, TypeInv, TypeOK
<1>6. WorkLeft'
  <2>1. placed' # 0
    BY <1>1, <1>2, AcceptExtends DEF TypeInv, TypeOK
  <2>2. QED
    BY <1>1, <1>3, <2>1 DEF WorkLeft
<1>7. QED
  BY <1>4, <1>5, <1>6 DEF TypeInv

LEMMA EndTypeInv ==
  ASSUME TypeInv, PersistEntry \/ Abstain \/ FailClosed \/ ClearKillSwitch \/ Crash \/ Done
  PROVE  TypeInv'
<1> USE ConstantsAssumption
<1>1. run.cycle \in 0..MaxCycles /\ run.clean \in BOOLEAN
  BY DEF TypeInv, TypeOK, Run
<1>2. Idle(run.cycle) \in Run /\ Idle(run.cycle).snap.open = {} /\ Idle(run.cycle).pc = "idle"
  BY <1>1, IdleType
<1>3. ASSUME run' = Idle(run.cycle), UNCHANGED <<placed, request, broker, fills, position, listed>>,
             ledger' \in [Orders -> Row], latest' \in [kill : BOOLEAN, clean : BOOLEAN]
      PROVE  TypeInv'
  <2>1. WorkLeft'
    BY <1>2, <1>3 DEF WorkLeft
  <2>2. QED
    BY <1>2, <1>3, <2>1, LocalTypeInv DEF TypeInv, TypeOK
<1>4. CASE PersistEntry
  <2>1. placed # 0 /\ ledger' \in [Orders -> Row]
    BY <1>4, PersistKeepsRows DEF PersistEntry, TypeInv, WorkLeft
  <2>2. QED
    BY <1>1, <1>3, <1>4, <2>1 DEF PersistEntry, Complete, TypeInv, TypeOK, brokerVars
<1>5. CASE Abstain
  BY <1>1, <1>3, <1>5 DEF Abstain, Complete, TypeInv, TypeOK, brokerVars
<1>6. CASE FailClosed
  BY <1>3, <1>6 DEF FailClosed, TypeInv, TypeOK, brokerVars
<1>7. CASE ClearKillSwitch
  BY <1>7, LocalTypeInv DEF ClearKillSwitch, TypeInv, TypeOK, WorkLeft, brokerVars, Placed
<1>8. CASE Crash
  BY <1>3, <1>8 DEF Crash, TypeInv, TypeOK, brokerVars
<1>9. CASE Done
  BY <1>9 DEF Done, vars, TypeInv, TypeOK, Bounded, WorkLeft, Placed
<1>10. QED
  BY <1>4, <1>5, <1>6, <1>7, <1>8, <1>9

LEMMA NextTypeInv == TypeInv /\ [Next]_vars => TypeInv'
<1> SUFFICES ASSUME TypeInv, [Next]_vars PROVE TypeInv'
  OBVIOUS
<1>1. CASE BrokerNext
  BY <1>1, BrokerTypeInv
<1>2. CASE OrdersNext
  BY <1>2, PollTypeInv, ReplaceTypeInv DEF OrdersNext
<1>3. CASE StructuresNext
  BY <1>3, StructureTypeInv, ClosingTypeInv DEF StructuresNext
<1>4. CASE CycleNext
  BY <1>2, <1>3, <1>4, BeginTypeInv, ReadTypeInv, IngestTypeInv, ReconcileTypeInv, StartTypeInv,
     EntryTypeInv, EndTypeInv DEF CycleNext
<1>5. CASE UNCHANGED vars
  BY <1>5 DEF vars, TypeInv, TypeOK, Bounded, WorkLeft, Placed
<1>6. QED
  BY <1>1, <1>4, <1>5 DEF Next

\* Type correctness, for every value of the constants and every choice of faults.
THEOREM TypeCorrect == Spec => []TypeOK
<1>1. Spec => []TypeInv
  BY InitTypeInv, NextTypeInv, PTL DEF Spec
<1>2. TypeInv => TypeOK
  BY DEF TypeInv
<1>3. QED
  BY <1>1, <1>2, PTL

(***************************************************************************)
(* What a step may do to rows, to the orders at the broker and to the      *)
(* locals of the cycle.                                                    *)
(***************************************************************************)
\* No step forgets a row.
LEMMA RowsStay ==
  ASSUME TypeInv, [Next]_vars, NEW o \in Orders, HasRow(o)
  PROVE  HasRow(o)'
<1> USE ConstantsAssumption
<1>1. CASE ledger' = ledger
  BY <1>1 DEF HasRow
<1>2. ASSUME NEW p, NEW s \in RowStatus \ {"none"}, MarkRow(p, s) PROVE HasRow(o)'
  BY <1>2, MarkKeepsRows
<1>3. ASSUME placed # 0, PersistRow PROVE HasRow(o)'
  BY <1>3, PersistKeepsRows
<1>4. CASE IngestFills
  BY <1>4, IngestType
<1>5. CASE Reconcile
  BY <1>5, ReconcileType DEF Reconcile, HasRow
<1>6. CASE StartLifecycle
  BY <1>6 DEF StartLifecycle, TypeInv, TypeOK, Row, HasRow
<1>7. ASSUME NEW p \in run.work, PollEntryTerminal(p) PROVE HasRow(o)'
  <2>1. broker[p].status \in RowStatus \ {"none"} /\ "partially_filled_canceled" \in RowStatus \ {"none"}
    BY <1>7 DEF PollEntryTerminal, Terminal, RowStatus, Established
  <2>2. QED
    BY <1>2, <1>7, <2>1 DEF PollEntryTerminal
<1>8. ASSUME NEW p \in run.work, PollCloseFilled(p) PROVE HasRow(o)'
  BY <1>8 DEF PollCloseFilled, TypeInv, TypeOK, Row, HasRow
<1>9. ASSUME NEW p \in run.work,
             PollCloseCanceled(p) \/ StructureFlat(p) \/ StructureReduced(p)
      PROVE  HasRow(o)'
  BY <1>2, <1>9 DEF PollCloseCanceled, StructureFlat, StructureReduced, RowStatus, Established
<1>10. CASE CancelAccepted
  <2>1. CanceledStatus(run.current) \in RowStatus \ {"none"}
    BY DEF CanceledStatus, RowStatus, Established
  <2>2. QED
    BY <1>2, <1>10, <2>1 DEF CancelAccepted
<1>11. CASE MarkClosing
  BY <1>2, <1>11 DEF MarkClosing, RowStatus, Established
<1>12. CASE PersistReplacement \/ PersistClose \/ PersistEntry
  BY <1>3, <1>12 DEF PersistReplacement, PersistClose, PersistEntry, TypeInv, WorkLeft
<1>13. CASE BrokerNext
  BY <1>1, <1>13 DEF BrokerNext, Fill, Lapse, Reduce
<1>14. CASE OrdersNext
  BY <1>1, <1>7, <1>8, <1>9, <1>10, <1>12, <1>14
     DEF OrdersNext, PollWait, PollCancel, PlaceReplacement, ReplacementExists, EndOrders
<1>15. CASE StructuresNext
  BY <1>1, <1>9, <1>11, <1>12, <1>15
     DEF StructuresNext, StructureSkipped, StructureHeld, CloseExists, CloseWithoutQuotes,
         PlaceClose, EndStructures
<1>16. QED
  BY <1>1, <1>4, <1>5, <1>6, <1>12, <1>13, <1>14, <1>15
     DEF Next, CycleNext, BeginCycle, Read, PlaceEntry, Abstain, FailClosed, ClearKillSwitch,
         Crash, Done, vars

\* A step that submits an order: an id no row has, in the running cycle.
Submits(r) ==
  /\ Accept(r) /\ ~OrderExists(r)
  /\ r \in Request /\ r.cycle = run.cycle
  /\ run.pc \in {"replace", "structures", "decide"} /\ run'.pc \in InFlightPcs
  /\ ledger' = ledger /\ run'.cycle = run.cycle
  /\ run'.snap = run.snap /\ run'.seen = run.seen /\ run'.clean = run.clean

LEMMA SubmissionsAreChecked ==
  ASSUME TypeInv, [Next]_vars
  PROVE  UNCHANGED <<placed, request>> \/ \E r \in Request : Submits(r)
<1> USE ConstantsAssumption
<1>1. CASE PlaceReplacement
  <2>1. run.current \in Placed /\ run.cycle \in 1..MaxCycles
    BY <1>1 DEF PlaceReplacement, TypeInv, WorkLeft, TypeOK, Run
  <2>2. /\ ledger[run.current].remaining \in 1..MaxQty /\ request[run.current] \in Request
        /\ Smaller(request[run.current].attempt + 1, 2) \in 0..2
    BY <1>1, <2>1, RequestFields DEF PlaceReplacement, TypeInv, WorkLeft, Row, Smaller, Request
  <2>3. Replacement(run.current) \in Request /\ Replacement(run.current).cycle = run.cycle
    BY <2>1, <2>2 DEF Replacement, Request
  <2>4. Submits(Replacement(run.current))
    BY <1>1, <2>3 DEF Submits, PlaceReplacement, InFlightPcs, TypeInv, TypeOK, Run
  <2>5. QED
    BY <2>3, <2>4
<1>2. ASSUME NEW o \in run.work, PlaceClose(o) PROVE \E r \in Request : Submits(r)
  <2>1. o \in Placed
    BY <1>2 DEF PlaceClose, Judging, TypeInv, WorkLeft
  <2>2. CloseRequest(o) \in Request /\ CloseRequest(o).cycle = run.cycle
    BY <1>2, <2>1, CloseRequestType DEF PlaceClose, Accept, CloseRequest
  <2>3. Submits(CloseRequest(o))
    BY <1>2, <2>2 DEF Submits, PlaceClose, Judging, InFlightPcs, TypeInv, TypeOK, Run
  <2>4. QED
    BY <2>2, <2>3
<1>3. ASSUME NEW c \in Candidates, NEW q \in 1..MaxQty, PlaceEntry(c, q)
      PROVE  \E r \in Request : Submits(r)
  <2>1. run.cycle \in 1..MaxCycles /\ placed + 1 \in 0..MaxOrders
    BY <1>3 DEF PlaceEntry, Accept, TypeInv, WorkLeft, TypeOK, Run
  <2>2. EntryRequest(c, q) \in Request /\ EntryRequest(c, q).cycle = run.cycle
    BY <2>1 DEF EntryRequest, Request
  <2>3. Submits(EntryRequest(c, q))
    BY <1>3, <2>2 DEF Submits, PlaceEntry, InFlightPcs, TypeInv, TypeOK, Run
  <2>4. QED
    BY <2>2, <2>3
<1>4. CASE BrokerNext
  BY <1>4 DEF BrokerNext, Fill, Lapse, Reduce
<1>5. CASE OrdersNext
  BY <1>1, <1>5 DEF OrdersNext, PollEntryTerminal, PollCloseCanceled, PollCloseFilled, PollWait,
     PollCancel, CancelAccepted, ReplacementExists, PersistReplacement, EndOrders
<1>6. CASE StructuresNext
  BY <1>2, <1>6 DEF StructuresNext, StructureSkipped, StructureFlat, StructureReduced, StructureHeld,
     CloseExists, CloseWithoutQuotes, PersistClose, MarkClosing, EndStructures
<1>7. QED
  BY <1>3, <1>4, <1>5, <1>6
     DEF Next, CycleNext, BeginCycle, Read, IngestFills, Reconcile, StartLifecycle, PersistEntry,
         Abstain, FailClosed, ClearKillSwitch, Crash, Done, vars

\* A submission is followed by nothing but the broker's moves, the end of the
\* cycle, or the row of what was submitted.
LEMMA FlightEnds ==
  ASSUME TypeInv, [Next]_vars, run.pc \in InFlightPcs
  PROVE  \/ run' = run /\ UNCHANGED <<placed, request, ledger>>
         \/ run'.pc = "idle" /\ (FailClosed \/ Crash)
         \/ ledger'[placed].status = "new" /\ placed' = placed
<1> USE ConstantsAssumption DEF InFlightPcs
<1>1. CASE PersistReplacement \/ PersistClose \/ PersistEntry
  BY <1>1, PersistKeepsRows DEF PersistReplacement, PersistClose, PersistEntry, TypeInv, WorkLeft
<1>2. CASE BrokerNext
  BY <1>2 DEF BrokerNext, Fill, Lapse, Reduce
<1>3. run.cycle \in 0..MaxCycles /\ Idle(run.cycle).pc = "idle"
  BY IdleType DEF TypeInv, TypeOK, Run
<1>4. CASE FailClosed \/ Crash
  BY <1>3, <1>4 DEF FailClosed, Crash
<1>5. CASE OrdersNext
  BY <1>1, <1>5 DEF OrdersNext, PollEntryTerminal, PollCloseCanceled, PollCloseFilled, PollWait,
     PollCancel, Polling, CancelAccepted, PlaceReplacement, ReplacementExists, EndOrders
<1>6. CASE StructuresNext
  BY <1>1, <1>6 DEF StructuresNext, StructureSkipped, StructureFlat, StructureReduced, StructureHeld,
     CloseExists, CloseWithoutQuotes, PlaceClose, Judging, MarkClosing, EndStructures
<1>7. QED
  BY <1>1, <1>2, <1>4, <1>5, <1>6
     DEF Next, CycleNext, BeginCycle, Read, IngestFills, Reconcile, StartLifecycle, PlaceEntry,
         Abstain, ClearKillSwitch, Done, vars

\* What the steps on the working orders leave of the cycle's locals.
Onward(pcs) ==
  /\ run.pc \in pcs /\ run'.pc \in pcs \cup {"structures", "decide"}
  /\ run'.snap = run.snap /\ run'.seen = run.seen /\ run'.cycle = run.cycle
  /\ run'.clean => run.clean
OrderPcs     == {"orders", "cancel", "replace", "persist"}
StructurePcs == {"structures", "persist_close", "mark_closing"}

LEMMA OrdersLocals ==
  ASSUME TypeInv, OrdersNext
  PROVE  Onward(OrderPcs)
<1> USE DEF Onward, OrderPcs, TypeInv, TypeOK, Run
<1>1. ASSUME NEW o \in run.work, PollCloseFilled(o) PROVE Onward(OrderPcs)
  <2> DEFINE settled == CloseAgrees(o) /\ ParentCloses(o)
             waiting == IF CloseAgrees(o) THEN run.active ELSE run.active \cup {Of(o)}
  <2>1. run' = [run EXCEPT !.work = @ \ {o}, !.clean = @ /\ settled, !.active = waiting]
    BY <1>1 DEF PollCloseFilled
  <2>2. run.pc = "orders"
    BY <1>1 DEF PollCloseFilled, Polling
  <2>3. run'.clean = (run.clean /\ settled)
    <3> HIDE DEF settled, waiting
    <3>1. QED
      BY <2>1
  <2>4. /\ run'.pc = run.pc /\ run'.snap = run.snap /\ run'.seen = run.seen
        /\ run'.cycle = run.cycle
    <3> HIDE DEF settled, waiting
    <3>1. QED
      BY <2>1
  <2>5. QED
    BY <2>2, <2>3, <2>4
<1>2. ASSUME NEW o \in run.work, PollEntryTerminal(o) PROVE Onward(OrderPcs)
  BY <1>2 DEF PollEntryTerminal, Polling
<1>3. ASSUME NEW o \in run.work, PollCloseCanceled(o) \/ PollWait(o) PROVE Onward(OrderPcs)
  BY <1>3 DEF PollCloseCanceled, PollWait, Polling
<1>4. ASSUME NEW o \in run.work, NEW a, PollCancel(o, a) PROVE Onward(OrderPcs)
  BY <1>4 DEF PollCancel, Polling
<1>5. CASE CancelAccepted \/ PlaceReplacement
  BY <1>5 DEF CancelAccepted, PlaceReplacement
<1>6. CASE ReplacementExists \/ PersistReplacement \/ EndOrders
  BY <1>6 DEF ReplacementExists, PersistReplacement, EndOrders
<1>7. QED
  BY <1>1, <1>2, <1>3, <1>4, <1>5, <1>6 DEF OrdersNext

\* And those on the managed structures.
LEMMA StructuresLocals ==
  ASSUME TypeInv, StructuresNext
  PROVE  Onward(StructurePcs)
<1> USE DEF Onward, StructurePcs, TypeInv, TypeOK, Run
<1>1. ASSUME NEW o \in run.work, StructureSkipped(o) \/ StructureFlat(o) \/ StructureHeld(o)
      PROVE  Onward(StructurePcs)
  BY <1>1 DEF StructureSkipped, StructureFlat, StructureHeld, Judging, Judged
<1>2. ASSUME NEW o \in run.work, StructureReduced(o) \/ CloseWithoutQuotes(o)
      PROVE  Onward(StructurePcs)
  BY <1>2 DEF StructureReduced, CloseWithoutQuotes, Judging
<1>3. ASSUME NEW o \in run.work, CloseExists(o) \/ PlaceClose(o) PROVE Onward(StructurePcs)
  BY <1>3 DEF CloseExists, PlaceClose, Judging, Judged
<1>4. CASE PersistClose \/ MarkClosing \/ EndStructures
  BY <1>4 DEF PersistClose, MarkClosing, EndStructures
<1>5. QED
  BY <1>1, <1>2, <1>3, <1>4 DEF StructuresNext

\* Steps that neither begin a cycle, read the broker nor reconcile keep the
\* snapshot, and a cycle that is unclean stays so.
LEMMA LocalsKept ==
  ASSUME TypeInv, [Next]_vars, run'.pc # "idle",
         ~(\E m \in Modes : BeginCycle(m)), ~(\E S \in SUBSET Reads : Read(S)), ~Reconcile
  PROVE  /\ run'.snap = run.snap /\ run'.seen = run.seen /\ run'.cycle = run.cycle
         /\ run'.clean => run.clean
         /\ run.pc # "idle"
         /\ run.pc = "reading" <=> run'.pc = "reading"
         /\ run.pc \in Before <=> run'.pc \in Before
<1> USE ConstantsAssumption DEF Before
<1>0. run.cycle \in 0..MaxCycles /\ Idle(run.cycle).pc = "idle"
  BY IdleType DEF TypeInv, TypeOK, Run
<1>1. CASE run' = run
  BY <1>1
<1>2. CASE IngestFills \/ StartLifecycle
  BY <1>2, ZenonT(40) DEF IngestFills, StartLifecycle, TypeInv, TypeOK, Run
<1>3. CASE PersistEntry \/ Abstain \/ FailClosed \/ Crash
  BY <1>0, <1>3 DEF PersistEntry, Abstain, Complete, FailClosed, Crash
<1>4. CASE \E c \in Candidates, q \in 1..MaxQty : PlaceEntry(c, q)
  BY <1>4 DEF PlaceEntry, TypeInv, TypeOK, Run
<1>5. CASE OrdersNext
  BY <1>5, OrdersLocals DEF Onward, OrderPcs
<1>6. CASE StructuresNext
  BY <1>6, StructuresLocals DEF Onward, StructurePcs
<1>7. CASE BrokerNext \/ ClearKillSwitch \/ Done
  BY <1>1, <1>7 DEF BrokerNext, Fill, Lapse, Reduce, ClearKillSwitch, Done, vars
<1>8. QED
  BY <1>1, <1>2, <1>3, <1>4, <1>5, <1>6, <1>7 DEF Next, CycleNext, vars

\* What the steps excluded there do to the locals.
LEMMA BeginLocals ==
  ASSUME TypeInv, NEW m \in Modes, BeginCycle(m)
  PROVE  /\ run.pc = "idle" /\ run'.pc = "reading" /\ run'.cycle = run.cycle + 1
         /\ run'.seen = {} /\ UNCHANGED <<placed, request, broker, ledger>>
<1>1. run.cycle + 1 \in 0..MaxCycles
  BY ConstantsAssumption DEF BeginCycle, TypeInv, TypeOK, Run
<1> DEFINE next == Idle(run.cycle + 1)
<1>2. next \in Run /\ next.cycle = run.cycle + 1 /\ next.seen = {}
  BY <1>1, IdleType
<1>3. run' = [next EXCEPT !.pc = "reading", !.mode = m]
  BY DEF BeginCycle
<1>4. run'.pc = "reading" /\ run'.cycle = run.cycle + 1 /\ run'.seen = {}
  <2> HIDE DEF next
  <2>1. QED
    BY <1>2, <1>3 DEF Run
<1>5. QED
  BY <1>4 DEF BeginCycle, brokerVars

LEMMA ReadLocals ==
  ASSUME TypeInv, NEW S \in SUBSET Reads, Read(S)
  PROVE  /\ run.pc = "reading" /\ run'.cycle = run.cycle /\ run'.clean = run.clean
         /\ run'.seen = run.seen \cup S
         /\ run'.pc \in {"reading", "ingest"} /\ (run'.pc = "ingest" => run'.seen = Reads)
         /\ run'.snap.open = IF "orders" \in S
              THEN {o \in Placed : broker[o].status \in OpenAtBroker} ELSE run.snap.open
         /\ UNCHANGED <<placed, request, broker, ledger>>
BY DEF Read, TypeInv, TypeOK, Run, brokerVars

LEMMA ReconcileLocals ==
  ASSUME TypeInv, Reconcile
  PROVE  /\ run.pc = "reconcile" /\ run'.pc = "start" /\ run'.cycle = run.cycle
         /\ run'.seen = run.seen /\ run'.snap = run.snap
         /\ run'.clean => UnknownOrders = {}
         /\ UNCHANGED <<placed, request, broker>>
<1> DEFINE found == UnknownOrders = {} /\ UnknownPositions = {}
           rows == Absent(Normalized(Synced))
           bought == {c \in Candidates : EntriesIn(rows, c, OpenAtBroker) # {}}
           held == [c \in Candidates |->
                      Cardinality(EntriesIn(rows, c, Established \cup {"partially_filled"}))]
<1>1. run' = [run EXCEPT !.pc = "start", !.clean = found, !.pending = bought, !.open = held]
  BY DEF Reconcile
<1>2. run'.clean = found
  <2> HIDE DEF found, bought, held
  <2>1. QED
    BY <1>1 DEF TypeInv, TypeOK, Run
<1>3. /\ run'.pc = "start" /\ run'.cycle = run.cycle /\ run'.seen = run.seen
      /\ run'.snap = run.snap
  <2> HIDE DEF found, bought, held
  <2>1. QED
    BY <1>1 DEF TypeInv, TypeOK, Run
<1>4. QED
  BY <1>2, <1>3 DEF Reconcile, brokerVars

\* A cycle that ends keeps its number.
LEMMA EndKeepsCycle ==
  ASSUME TypeInv, [Next]_vars, run'.pc = "idle"
  PROVE  run'.cycle = run.cycle
<1> USE ConstantsAssumption
<1>1. run.cycle \in 0..MaxCycles /\ Idle(run.cycle).cycle = run.cycle
  BY IdleType DEF TypeInv, TypeOK, Run
<1>2. CASE run' = run
  BY <1>2
<1>3. CASE PersistEntry \/ Abstain \/ FailClosed \/ Crash
  BY <1>1, <1>3 DEF PersistEntry, Abstain, Complete, FailClosed, Crash
<1>4. CASE (\E m \in Modes : BeginCycle(m)) \/ (\E S \in SUBSET Reads : Read(S)) \/ Reconcile
  BY <1>4, BeginLocals, ReadLocals, ReconcileLocals
<1>5. CASE IngestFills \/ StartLifecycle
  BY <1>5 DEF IngestFills, StartLifecycle, TypeInv, TypeOK, Run
<1>6. CASE \E c \in Candidates, q \in 1..MaxQty : PlaceEntry(c, q)
  BY <1>6 DEF PlaceEntry, TypeInv, TypeOK, Run
<1>7. CASE OrdersNext
  BY <1>7, OrdersLocals DEF Onward
<1>8. CASE StructuresNext
  BY <1>8, StructuresLocals DEF Onward
<1>9. CASE BrokerNext \/ ClearKillSwitch \/ Done
  BY <1>2, <1>9 DEF BrokerNext, Fill, Lapse, Reduce, ClearKillSwitch, Done, vars
<1>10. QED
  BY <1>2, <1>3, <1>4, <1>5, <1>6, <1>7, <1>8, <1>9 DEF Next, CycleNext, vars

\* The number of the cycle only moves when the next one begins.
LEMMA CycleAdvances ==
  ASSUME TypeInv, [Next]_vars
  PROVE  \/ run'.cycle = run.cycle /\ (run.pc = "idle" => run'.pc = "idle")
         \/ run.pc = "idle" /\ run'.pc = "reading" /\ run'.cycle = run.cycle + 1
<1>1. CASE run'.pc = "idle"
  BY <1>1, EndKeepsCycle
<1>2. CASE (\E m \in Modes : BeginCycle(m)) \/ (\E S \in SUBSET Reads : Read(S)) \/ Reconcile
  BY <1>2, BeginLocals, ReadLocals, ReconcileLocals
<1>3. QED
  BY <1>1, <1>2, LocalsKept

(***************************************************************************)
(* Client order ids.                                                       *)
(***************************************************************************)
LEMMA AttributedStep ==
  ASSUME TypeInv, Attributed, [Next]_vars
  PROVE  Attributed'
<1> USE ConstantsAssumption
<1>0. \A o \in Placed : o \in Orders /\ request[o].cycle \in Nat
  BY RequestFields DEF Request
<1>1. run.cycle \in Nat /\ run'.cycle >= run.cycle
  BY CycleAdvances DEF TypeInv, TypeOK, Run
<1>2. CASE UNCHANGED <<placed, request>>
  <2>1. \A o \in Placed' : request'[o].cycle <= run'.cycle
    BY <1>0, <1>1, <1>2, NextTypeInv DEF Attributed, Placed, TypeInv, TypeOK, Run
  <2>2. ASSUME run'.pc # "idle", NEW o \in Placed
        PROVE  HasRow(o)' \/ InFlight(o)' \/ request[o].cycle < run'.cycle
    <3>1. CASE run.pc = "idle"
      BY <1>0, <1>1, <2>2, <3>1, CycleAdvances DEF Attributed
    <3>2. CASE run.pc # "idle" /\ HasRow(o)
      BY <1>0, <3>2, RowsStay
    <3>3. CASE run.pc # "idle" /\ request[o].cycle < run.cycle
      BY <1>0, <1>1, <3>3, NextTypeInv DEF TypeInv, TypeOK, Run
    <3>4. CASE run.pc # "idle" /\ InFlight(o)
      BY <1>2, <2>2, <3>4, FlightEnds DEF InFlight, HasRow
    <3>5. QED
      BY <3>1, <3>2, <3>3, <3>4 DEF Attributed
  <2>3. QED
    BY <1>2, <2>1, <2>2 DEF Attributed, Placed
<1>3. ASSUME NEW r \in Request, Submits(r) PROVE Attributed'
  <2>1. /\ placed' = placed + 1 /\ Placed' = Placed \cup {placed + 1}
        /\ request'[placed + 1] = r /\ \A o \in Placed : request'[o] = request[o]
    BY <1>3, AcceptExtends DEF Submits
  <2>2. \A o \in Placed' : request'[o].cycle <= run'.cycle
    BY <1>1, <1>3, <2>1 DEF Submits, Attributed
  <2>3. run.pc # "idle" /\ \A o \in Placed : ~InFlight(o)
    BY <1>3 DEF Submits, InFlight, InFlightPcs
  <2>4. run'.pc \in InFlightPcs /\ placed' = placed + 1
    BY <1>3, <2>1 DEF Submits
  <2>5. \A o \in Placed : HasRow(o)' \/ request'[o].cycle < run'.cycle
    BY <1>3, <2>1, <2>3 DEF Submits, Attributed, HasRow
  <2>6. QED
    BY <2>1, <2>2, <2>4, <2>5 DEF Attributed, InFlight
<1>4. QED
  BY <1>2, <1>3, SubmissionsAreChecked

\* A submission's id is new: in this cycle every earlier order has a row by
\* now, and order_exists finds rows.
LEMMA UniqueStep ==
  ASSUME TypeInv, Attributed, UniqueClientIds, [Next]_vars
  PROVE  UniqueClientIds'
<1>1. CASE UNCHANGED <<placed, request>>
  BY <1>1 DEF UniqueClientIds, ClientId, Placed
<1>2. ASSUME NEW r \in Request, Submits(r) PROVE UniqueClientIds'
  <2>1. /\ Placed' = Placed \cup {placed + 1}
        /\ request'[placed + 1] = r /\ \A o \in Placed : request'[o] = request[o]
    BY <1>2, AcceptExtends DEF Submits
  <2>2. ASSUME NEW o \in Placed, ClientId(request[o]) = ClientId(r) PROVE FALSE
    <3>1. request[o].cycle = run.cycle /\ run.cycle \in Nat
      BY <1>2, <2>2 DEF ClientId, Submits, TypeInv, TypeOK, Run
    <3>2. run.pc # "idle" /\ ~InFlight(o)
      BY <1>2 DEF Submits, InFlight, InFlightPcs
    <3>3. HasRow(o)
      BY <3>1, <3>2 DEF Attributed
    <3>4. QED
      BY <1>2, <2>2, <3>3 DEF Submits, OrderExists
  <2>3. QED
    BY <2>1, <2>2 DEF UniqueClientIds, ClientId
<1>3. QED
  BY <1>1, <1>2, SubmissionsAreChecked

(***************************************************************************)
(* Orders the ledger knows nothing of.                                     *)
(***************************************************************************)
\* An order that ended at the broker never changes again.
LEMMA TerminalStays ==
  ASSUME TypeInv, [Next]_vars, NEW o \in Placed, broker[o].status \in Terminal
  PROVE  broker'[o] = broker[o]
<1>1. broker[o].status \notin OpenAtBroker /\ broker \in [Orders -> BrokerRecord] /\ o \in Orders
  BY RequestFields DEF Terminal, OpenAtBroker, TypeInv, TypeOK
<1>2. ASSUME NEW p \in Placed, NEW k \in 1..MaxQty, Fill(p, k) PROVE broker'[o] = broker[o]
  BY <1>1, <1>2 DEF Fill
<1>3. ASSUME NEW p \in Placed, Lapse(p) PROVE broker'[o] = broker[o]
  BY <1>1, <1>3 DEF Lapse
<1>4. ASSUME CancelAccepted PROVE broker'[o] = broker[o]
  BY <1>1, <1>4 DEF CancelAccepted
<1>5. CASE BrokerNext
  BY <1>2, <1>3, <1>5 DEF BrokerNext, Reduce
<1>6. CASE OrdersNext
  BY <1>4, <1>6 DEF OrdersNext, PollEntryTerminal, PollCloseCanceled, PollCloseFilled, PollWait,
     PollCancel, PlaceReplacement, Accept, ReplacementExists, PersistReplacement, EndOrders, brokerVars
<1>7. CASE StructuresNext
  BY <1>7 DEF StructuresNext, StructureSkipped, StructureFlat, StructureReduced, StructureHeld,
     CloseExists, CloseWithoutQuotes, PlaceClose, Accept, PersistClose, MarkClosing, EndStructures,
     brokerVars
<1>8. QED
  BY <1>5, <1>6, <1>7
     DEF Next, CycleNext, BeginCycle, Read, IngestFills, Reconcile, StartLifecycle, PlaceEntry, Accept,
         PersistEntry, Abstain, FailClosed, ClearKillSwitch, Crash, Done, vars, brokerVars

\* The listing of working orders, taken once per cycle, keeps accounting for
\* every order without a row until the cycle ends.
LEMMA AccountedStep ==
  ASSUME TypeInv, Accounted, [Next]_vars
  PROVE  Accounted'
<1> USE ConstantsAssumption
<1>1. CASE run'.pc = "idle"
  BY <1>1 DEF Accounted, Before
<1>2. ASSUME NEW m \in Modes, BeginCycle(m) PROVE Accounted'
  BY <1>2, BeginLocals DEF Accounted, Before
<1>3. ASSUME NEW S \in SUBSET Reads, Read(S) PROVE Accounted'
  <2>1. /\ run.pc = "reading" /\ run'.seen = run.seen \cup S
        /\ run'.pc \in {"reading", "ingest"} /\ (run'.pc = "ingest" => run'.seen = Reads)
        /\ run'.snap.open = IF "orders" \in S
             THEN {o \in Placed : broker[o].status \in OpenAtBroker} ELSE run.snap.open
        /\ UNCHANGED <<placed, request, broker, ledger>>
    BY <1>3, ReadLocals
  <2>2. \A o \in Placed : broker[o].status \in OpenAtBroker \cup Terminal
    BY RequestFields DEF BrokerRecord
  <2>3. ASSUME "orders" \in run'.seen, NEW o \in Placed
        PROVE  HasRow(o) \/ broker[o].status \in Terminal \/ o \in run'.snap.open
    <3>1. CASE "orders" \in S
      BY <2>1, <2>2, <3>1
    <3>2. CASE "orders" \notin S
      BY <2>1, <2>3, <3>2 DEF Accounted, InFlight, InFlightPcs
    <3>3. QED
      BY <3>1, <3>2
  <2>4. Placed' = Placed /\ \A o : HasRow(o)' <=> HasRow(o)
    BY <2>1 DEF Placed, HasRow
  <2>5. QED
    BY <2>1, <2>3, <2>4 DEF Accounted, Before, Reads
<1>4. CASE Reconcile
  <2>1. /\ run.pc = "reconcile" /\ run'.pc = "start" /\ run'.seen = run.seen /\ run'.snap = run.snap
        /\ run'.clean => UnknownOrders = {}
        /\ UNCHANGED <<placed, request, broker>>
    BY <1>4, ReconcileLocals
  <2>2. Placed' = Placed /\ run.snap.open \subseteq Placed
    BY <2>1 DEF Placed, TypeInv, Bounded
  <2>3. \A o \in Placed : o \in Orders /\ (HasRow(o) => HasRow(o)') /\ ~InFlight(o)
    BY <2>1, RequestFields, RowsStay DEF InFlight, InFlightPcs
  <2>4. run'.clean => \A o \in run.snap.open : HasRow(o)'
    BY <2>1, <2>2, <2>3 DEF UnknownOrders
  <2>5. QED
    BY <2>1, <2>2, <2>3, <2>4 DEF Accounted
<1>5. ASSUME run'.pc # "idle", ~(\E m \in Modes : BeginCycle(m)),
             ~(\E S \in SUBSET Reads : Read(S)), ~Reconcile
      PROVE  Accounted'
  <2>1. /\ run'.snap = run.snap /\ run'.seen = run.seen /\ (run'.clean => run.clean)
        /\ run.pc # "idle"
        /\ run.pc = "reading" <=> run'.pc = "reading"
        /\ run.pc \in Before <=> run'.pc \in Before
    BY <1>5, LocalsKept
  <2>2. \A o \in Placed : o \in Orders /\ (HasRow(o) => HasRow(o)')
    BY RequestFields, RowsStay
  <2>3. run.snap.open \subseteq Placed
    BY DEF TypeInv, Bounded
  <2>4. ASSUME "orders" \in run.seen, NEW o \in Placed
        PROVE  \/ HasRow(o)' \/ InFlight(o)'
               \/ broker'[o].status \in Terminal \/ o \in run.snap.open
    <3>1. CASE HasRow(o)
      BY <2>2, <3>1
    <3>2. CASE broker[o].status \in Terminal
      BY <3>2, TerminalStays
    <3>3. CASE InFlight(o)
      BY <1>5, <3>3, FlightEnds DEF InFlight, HasRow
    <3>4. QED
      BY <2>1, <2>4, <3>1, <3>2, <3>3 DEF Accounted
  <2>5. ASSUME NEW o \in Placed', o \notin Placed PROVE InFlight(o)'
    <3>1. PICK r \in Request : Submits(r)
      BY <2>5, SubmissionsAreChecked DEF Placed
    <3>2. QED
      BY <2>5, <3>1, AcceptExtends DEF Submits, InFlight
  <2>6. QED
    BY <2>1, <2>2, <2>3, <2>4, <2>5 DEF Accounted
<1>6. QED
  BY <1>1, <1>2, <1>3, <1>4, <1>5

(***************************************************************************)
(* The theorems.                                                           *)
(***************************************************************************)
\* IInv is an invariant: it holds at the start and every step keeps it.
THEOREM Inductive == Spec => []IInv
<1>1. Init => IInv
  <2>1. Init => Placed = {} /\ run.pc = "idle" /\ run.seen = {}
    BY DEF Init, Placed, Idle
  <2>2. QED
    BY <2>1, InitTypeInv DEF IInv, Attributed, Accounted, Before, UniqueClientIds
<1>2. IInv /\ [Next]_vars => IInv'
  BY NextTypeInv, AttributedStep, AccountedStep, UniqueStep DEF IInv
<1>3. QED
  BY <1>1, <1>2, PTL DEF Spec

\* No two orders at the broker ever carry one client order id, for every bound
\* and every choice of faults: crashes, errors, torn reads, a broker that moves
\* at any time (the submissions of _maintain_order_lifecycle and run_cycle).
THEOREM ClientIdsUnique == Spec => []UniqueClientIds
<1>1. IInv => UniqueClientIds
  BY DEF IInv
<1>2. QED
  BY <1>1, Inductive, PTL

\* No entry is ever submitted while an order without a row can still fill: what
\* a crash between submitting an order and storing its row leaves behind keeps
\* the cycle unclean, whatever else fails and however torn its reads are.
THEOREM UnknownOrdersBlockEntries == Spec => NoEntryOverUnknownOrder
<1> DEFINE Blocked == \A c \in Candidates, q \in 1..MaxQty : PlaceEntry(c, q) =>
                        \A o \in Placed : HasRow(o) \/ broker[o].status \in Terminal
<1>1. IInv => Blocked
  <2> SUFFICES ASSUME IInv, NEW c \in Candidates, NEW q \in 1..MaxQty,
                      PlaceEntry(c, q), NEW o \in Placed
               PROVE  HasRow(o) \/ broker[o].status \in Terminal
    OBVIOUS
  <2>1. run.pc = "decide" /\ run.clean
    BY DEF PlaceEntry, EntryApproved
  <2>2. ~InFlight(o) /\ "orders" \in run.seen
    BY <2>1 DEF InFlight, InFlightPcs, IInv, Accounted
  <2>3. \A p \in run.snap.open : HasRow(p)
    BY <2>1 DEF IInv, Accounted, Before
  <2>4. QED
    BY <2>1, <2>2, <2>3 DEF IInv, Accounted
<1>2. QED
  BY <1>1, Inductive, PTL DEF NoEntryOverUnknownOrder
=============================================================================
