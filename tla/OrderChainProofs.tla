--------------------------- MODULE OrderChainProofs ---------------------------
(***************************************************************************)
(* Proofs about the chains of orders of OrderLifecycle: an order, what     *)
(* replaces it after a cancel, and the closes of what it bought.  The      *)
(* assumptions say what the environment is taken not to do; the runs show  *)
(* what happens when it does.                                              *)
(***************************************************************************)
EXTENDS OrderLifecycleProofs

Working(o) == broker[o].status \in OpenAtBroker

(***************************************************************************)
(* The locals a step leaves alone, and those it moves.                     *)
(***************************************************************************)
Listing == <<run.snap, run.seen, run.pending, run.open>>

\* The market and the rows' numbers stay, whatever a step does to the statuses.
Quiet == UNCHANGED <<placed, request, broker, fills, position>>
Counted == \A p \in Orders : ledger'[p].remaining = ledger[p].remaining

LEMMA PollSteps ==
  ASSUME TypeInv, NEW o \in run.work,
         PollEntryTerminal(o) \/ PollCloseCanceled(o) \/ PollCloseFilled(o) \/ PollWait(o)
  PROVE  /\ run.pc = "orders" /\ run'.pc = "orders" /\ run'.work = run.work \ {o}
         /\ UNCHANGED Listing /\ run.active \subseteq run'.active
         /\ ~IsEntry(o) /\ Working(o) => Of(o) \in run'.active
         /\ Quiet /\ Counted
<1> USE ConstantsAssumption DEF Polling, Listing, Quiet, Counted, brokerVars
<1>1. run \in Run /\ ledger \in [Orders -> Row]
  BY DEF TypeInv, TypeOK
<1>2. CASE PollEntryTerminal(o)
  <2> DEFINE filled == IF broker[o].status = "filled" THEN run.fresh \cup {Of(o)} ELSE run.fresh
  <2>1. run' = [run EXCEPT !.work = @ \ {o}, !.fresh = filled] /\ IsEntry(o)
    BY <1>2 DEF PollEntryTerminal
  <2>2. broker[o].status \in RowStatus /\ "partially_filled_canceled" \in RowStatus
    BY <1>2 DEF PollEntryTerminal, Terminal, RowStatus, Established
  <2>3. Counted
    BY <1>2, <2>2, MarkKeepsRows DEF PollEntryTerminal
  <2> HIDE DEF filled
  <2>4. QED
    BY <1>1, <1>2, <2>1, <2>3 DEF Run, PollEntryTerminal
<1>3. CASE PollCloseCanceled(o)
  <2>1. Counted /\ ~Working(o)
    BY <1>3, MarkKeepsRows DEF PollCloseCanceled, RowStatus, Working, OpenAtBroker
  <2>2. QED
    BY <1>1, <1>3, <2>1 DEF Run, PollCloseCanceled
<1>4. CASE PollCloseFilled(o)
  <2> DEFINE p == request[o].parent
             settled == CloseAgrees(o) /\ ParentCloses(o)
             waiting == IF CloseAgrees(o) THEN run.active ELSE run.active \cup {Of(o)}
  <2>1. /\ run' = [run EXCEPT !.work = @ \ {o}, !.clean = @ /\ settled, !.active = waiting]
        /\ ledger' = [ledger EXCEPT ![o].status = "filled",
                                    ![p].status = IF settled THEN "closed" ELSE @]
        /\ run.active \subseteq waiting /\ ~Working(o) /\ run.pc = "orders"
        /\ Quiet
    BY <1>4 DEF PollCloseFilled, Working, OpenAtBroker
  <2> HIDE DEF p, settled, waiting, Quiet
  <2>2. Counted
    BY <1>1, <2>1 DEF Row
  <2>3. QED
    BY <1>1, <2>1, <2>2 DEF Run
<1>5. CASE PollWait(o)
  BY <1>1, <1>5 DEF Run, PollWait
<1>6. QED
  BY <1>2, <1>3, <1>4, <1>5

LEMMA CancelSteps ==
  ASSUME TypeInv, NEW o \in run.work, NEW a, PollCancel(o, a)
  PROVE  /\ run.pc = "orders" /\ run'.pc = "cancel" /\ run'.work = run.work \ {o}
         /\ run'.current = o /\ Working(o)
         /\ UNCHANGED Listing /\ run'.active = run.active
         /\ Quiet /\ ledger' = ledger
<1> DEFINE follow == /\ a = "cancel_and_replace" /\ run.mode.open
                     /\ (placed < MaxOrders \/ OrderExists(Replacement(o)))
<1>1. /\ run' = [run EXCEPT !.pc = "cancel", !.current = o, !.work = @ \ {o}, !.replace = follow]
      /\ run.pc = "orders" /\ Working(o) /\ Quiet /\ ledger' = ledger
  BY DEF PollCancel, Polling, Working, Quiet, brokerVars
<1> HIDE DEF follow
<1>2. QED
  BY <1>1 DEF TypeInv, TypeOK, Run, Listing

LEMMA AcceptedSteps ==
  ASSUME TypeInv, CancelAccepted
  PROVE  /\ run.pc = "cancel" /\ run'.pc \in {"orders", "replace"} /\ run'.work = run.work
         /\ run'.current = run.current /\ run.current \in Placed
         /\ UNCHANGED Listing /\ run'.active = run.active
         /\ UNCHANGED <<placed, request, fills, position>> /\ Counted
         /\ \A p \in Orders : broker'[p].filled = broker[p].filled
         /\ \A p \in Orders : p # run.current => broker'[p] = broker[p]
         /\ "async_cancel" \notin Faults => broker'[run.current].status = "canceled"
<1> DEFINE o == run.current
<1>1. o \in Placed /\ o \in Orders /\ broker \in [Orders -> BrokerRecord]
  BY RequestFields DEF CancelAccepted, TypeInv, WorkLeft, TypeOK
<1>2. Counted
  <2>1. CanceledStatus(o) \in RowStatus
    BY DEF CanceledStatus, RowStatus, Established
  <2>2. QED
    BY <2>1, MarkKeepsRows DEF CancelAccepted, Counted
<1>3. /\ \A p \in Orders : broker'[p].filled = broker[p].filled
      /\ \A p \in Orders : p # o => broker'[p] = broker[p]
      /\ "async_cancel" \notin Faults => broker'[o].status = "canceled"
  BY <1>1 DEF CancelAccepted, BrokerRecord
<1>4. QED
  BY <1>1, <1>2, <1>3 DEF CancelAccepted, TypeInv, TypeOK, Run, Listing

LEMMA ReplaceSteps ==
  ASSUME TypeInv, PlaceReplacement
  PROVE  /\ run.pc = "replace" /\ run'.pc = "persist" /\ run'.work = run.work
         /\ run'.current = run.current /\ run.current \in Placed
         /\ UNCHANGED Listing /\ run'.active = run.active
         /\ Replacement(run.current) \in Request /\ Accept(Replacement(run.current))
         /\ ledger' = ledger
<1>1. run.current \in Placed /\ run.cycle \in 1..MaxCycles
  BY ConstantsAssumption DEF PlaceReplacement, TypeInv, WorkLeft, TypeOK, Run
<1>2. /\ ledger[run.current].remaining \in 1..MaxQty /\ request[run.current] \in Request
      /\ Smaller(request[run.current].attempt + 1, 2) \in 0..2
  BY <1>1, ConstantsAssumption, RequestFields
     DEF PlaceReplacement, TypeInv, WorkLeft, Row, Smaller, Request
<1>3. Replacement(run.current) \in Request
  BY <1>1, <1>2 DEF Replacement, Request
<1>4. QED
  BY <1>1, <1>3 DEF PlaceReplacement, TypeInv, TypeOK, Run, Listing

LEMMA SettledSteps ==
  ASSUME TypeInv, ReplacementExists \/ PersistReplacement
  PROVE  /\ run.pc \in {"replace", "persist"} /\ run'.pc = "orders" /\ run'.work = run.work
         /\ run.current \in Placed /\ run'.active = run.active \cup {Of(run.current)}
         /\ UNCHANGED Listing /\ Quiet
         /\ \A p \in Orders : p # placed => ledger'[p] = ledger[p]
         /\ ReplacementExists => run.pc = "replace" /\ ledger' = ledger
         /\ PersistReplacement => run.pc = "persist"
<1>1. run.current \in Placed /\ run \in Run /\ ledger \in [Orders -> Row]
  BY DEF ReplacementExists, PersistReplacement, TypeInv, WorkLeft, TypeOK
<1>2. QED
  BY <1>1 DEF ReplacementExists, PersistReplacement, PersistRow, Run, Listing, Quiet, brokerVars

LEMMA EndOrdersSteps ==
  ASSUME TypeInv, EndOrders
  PROVE  /\ run.pc = "orders" /\ run.work = {} /\ run'.pc = "structures"
         /\ run'.work = OpenManaged /\ UNCHANGED Listing /\ run'.active = run.active
         /\ Quiet /\ ledger' = ledger
BY DEF EndOrders, TypeInv, TypeOK, Run, Listing, Quiet, brokerVars

LEMMA JudgeSteps ==
  ASSUME TypeInv, NEW o \in run.work,
         \/ StructureSkipped(o) \/ StructureFlat(o) \/ StructureReduced(o) \/ StructureHeld(o)
         \/ CloseExists(o) \/ CloseWithoutQuotes(o)
  PROVE  /\ run.pc = "structures" /\ run'.pc = "structures" /\ run'.work = run.work \ {o}
         /\ UNCHANGED Listing /\ run'.active = run.active /\ Quiet
<1> USE DEF Judged, Judging, Listing, Quiet, brokerVars
<1>1. run \in Run
  BY DEF TypeInv, TypeOK
<1>2. CASE StructureSkipped(o) \/ StructureFlat(o) \/ StructureHeld(o) \/ CloseExists(o)
  BY <1>1, <1>2 DEF StructureSkipped, StructureFlat, StructureHeld, CloseExists, Run
<1>3. CASE StructureReduced(o) \/ CloseWithoutQuotes(o)
  BY <1>1, <1>3 DEF StructureReduced, CloseWithoutQuotes, Run
<1>4. QED
  BY <1>2, <1>3

LEMMA CloseSteps ==
  ASSUME TypeInv, NEW o \in run.work, PlaceClose(o)
  PROVE  /\ run.pc = "structures" /\ run'.pc = "persist_close" /\ run'.work = run.work \ {o}
         /\ UNCHANGED Listing /\ run'.active = run.active
         /\ o \in Placed /\ Of(o) \notin run.active
         /\ CloseRequest(o) \in Request /\ Accept(CloseRequest(o)) /\ ledger' = ledger
<1>1. o \in Placed /\ Judging(o)
  BY DEF PlaceClose, Judging, TypeInv, WorkLeft
<1>2. CloseRequest(o) \in Request
  BY <1>1, CloseRequestType DEF PlaceClose, Accept
<1>3. QED
  BY <1>1, <1>2 DEF PlaceClose, Judging, TypeInv, TypeOK, Run, Listing

LEMMA ClosingSteps ==
  ASSUME TypeInv, PersistClose \/ MarkClosing \/ EndStructures
  PROVE  /\ run.pc \in StructurePcs /\ UNCHANGED Listing /\ run'.active = run.active
         /\ run'.work = run.work /\ Quiet
         /\ run'.pc = IF PersistClose THEN "mark_closing" ELSE IF MarkClosing THEN "structures" ELSE "decide"
<1>1. run \in Run
  BY DEF TypeInv, TypeOK
<1>2. CASE PersistClose
  BY <1>1, <1>2 DEF PersistClose, Run, Listing, Quiet, brokerVars, StructurePcs
<1>3. CASE MarkClosing
  BY <1>1, <1>3 DEF PersistClose, MarkClosing, Run, Listing, Quiet, brokerVars, StructurePcs
<1>4. CASE EndStructures
  BY <1>1, <1>4 DEF PersistClose, MarkClosing, EndStructures, Run, Listing, Quiet, brokerVars, StructurePcs
<1>5. QED
  BY <1>2, <1>3, <1>4

LEMMA EntrySteps ==
  ASSUME TypeInv, NEW c \in Candidates, NEW q \in 1..MaxQty, PlaceEntry(c, q)
  PROVE  /\ run.pc = "decide" /\ run'.pc = "persist_entry" /\ UNCHANGED Listing
         /\ EntryRequest(c, q) \in Request /\ Accept(EntryRequest(c, q)) /\ ledger' = ledger
<1>1. run.cycle \in 1..MaxCycles /\ placed + 1 \in 0..MaxOrders
  BY ConstantsAssumption DEF PlaceEntry, Accept, TypeInv, WorkLeft, TypeOK, Run
<1>2. EntryRequest(c, q) \in Request
  BY <1>1, ConstantsAssumption DEF EntryRequest, Request
<1>3. QED
  BY <1>2 DEF PlaceEntry, TypeInv, TypeOK, Run, Listing

LEMMA EndSteps ==
  ASSUME TypeInv, PersistEntry \/ Abstain \/ FailClosed \/ Crash
  PROVE  /\ run.pc # "idle" /\ run'.pc = "idle" /\ Quiet
         /\ ~PersistEntry => ledger' = ledger
<1>1. run.cycle \in 0..MaxCycles /\ Idle(run.cycle).pc = "idle"
  BY IdleType DEF TypeInv, TypeOK, Run
<1>2. QED
  BY <1>1 DEF PersistEntry, Abstain, FailClosed, Crash, Complete, Quiet, brokerVars, Awaiting

LEMMA ListSteps ==
  ASSUME TypeInv, NEW S \in SUBSET Reads, Read(S)
  PROVE  LET open == {o \in Placed : Working(o)} IN
         /\ run'.snap.open = IF "orders" \in S THEN open ELSE run.snap.open
         /\ "orders" \in S => \A o \in open : run'.snap.broker[o] = broker[o]
         /\ "orders" \notin S => run'.snap.broker = run.snap.broker
         /\ run'.snap.fills = IF "activities" \in S THEN fills ELSE run.snap.fills
         /\ Quiet /\ ledger' = ledger
<1> DEFINE open == {o \in Placed : Working(o)}
           listing == [o \in Orders |-> IF o \in open THEN broker[o] ELSE Blank]
           new == [open     |-> IF "orders" \in S THEN open ELSE run.snap.open,
                   broker   |-> IF "orders" \in S THEN listing ELSE run.snap.broker,
                   position |-> IF "positions" \in S THEN position ELSE run.snap.position,
                   fills    |-> IF "activities" \in S THEN fills ELSE run.snap.fills]
<1>1. run' = [run EXCEPT !.snap = new, !.seen = @ \cup S,
                         !.pc = IF run.seen \cup S = Reads THEN "ingest" ELSE "reading"]
  BY DEF Read, Working
<1>2. \A o \in open : o \in Orders /\ listing[o] = broker[o]
  BY RequestFields
<1>3. run'.snap = new
  <2> HIDE DEF new
  <2>1. QED
    BY <1>1 DEF TypeInv, TypeOK, Run
<1>4. Quiet /\ ledger' = ledger
  BY DEF Read, Quiet, brokerVars
<1>5. QED
  BY <1>2, <1>3, <1>4

LEMMA ReconcileSteps ==
  ASSUME TypeInv, Reconcile
  PROVE  /\ run.pc = "reconcile" /\ run'.pc = "start" /\ run'.snap = run.snap /\ Quiet
         /\ ledger' = Absent(Normalized(Synced))
         /\ run'.pending = {c \in Candidates : EntriesIn(ledger', c, OpenAtBroker) # {}}
         /\ run'.open = [c \in Candidates |->
               Cardinality(EntriesIn(ledger', c, Established \cup {"partially_filled"}))]
<1> DEFINE found == UnknownOrders = {} /\ UnknownPositions = {}
           rows == Absent(Normalized(Synced))
           bought == {c \in Candidates : EntriesIn(rows, c, OpenAtBroker) # {}}
           held == [c \in Candidates |->
                      Cardinality(EntriesIn(rows, c, Established \cup {"partially_filled"}))]
<1>1. /\ run' = [run EXCEPT !.pc = "start", !.clean = found, !.pending = bought, !.open = held]
      /\ ledger' = rows /\ run.pc = "reconcile" /\ Quiet
  BY DEF Reconcile, Quiet, brokerVars
<1>2. run'.pending = bought /\ run'.open = held /\ run'.pc = "start" /\ run'.snap = run.snap
  <2> HIDE DEF found, bought, held, rows
  <2>1. QED
    BY <1>1 DEF TypeInv, TypeOK, Run
<1>3. QED
  BY <1>1, <1>2

LEMMA StartSteps ==
  ASSUME TypeInv, StartLifecycle
  PROVE  /\ run.pc = "start" /\ run'.pc = "orders" /\ run'.work = PendingManaged
         /\ UNCHANGED Listing /\ Quiet /\ Counted
<1>1. /\ run.pc = "start" /\ run' = [run EXCEPT !.pc = "orders", !.work = PendingManaged] /\ Quiet
      /\ ledger' = [o \in Orders |-> IF o \in FilledCloseParents
                                     THEN [ledger[o] EXCEPT !.status = "closed"] ELSE ledger[o]]
  BY DEF StartLifecycle, Quiet, brokerVars
<1>2. Counted
  BY <1>1 DEF TypeInv, TypeOK, Row, Counted
<1>3. QED
  BY <1>1, <1>2 DEF TypeInv, TypeOK, Run, Listing

\* The broker's own moves leave the worker alone, and happen between cycles unless
\* it may move at any time.
LEMMA MarketSteps ==
  ASSUME TypeInv, BrokerNext
  PROVE  /\ run' = run /\ ledger' = ledger /\ UNCHANGED <<placed, request>>
         /\ run.pc = "idle" \/ "midcycle" \in Faults
BY DEF BrokerNext, Fill, Lapse, Reduce, BrokerMoves

(***************************************************************************)
(* What the rows say of the broker while it stands still.                  *)
(***************************************************************************)
\* The row counts what the broker has left to fill.
Exact(o) == ledger[o].remaining = request[o].quantity - broker[o].filled

\* The listing is the broker's book; reconciliation copies it to the rows that
\* stay open; and while the working orders are polled their rows are right.
Rooted == \A o \in Placed : request[o].root \in Placed
Listed ==
  run.pc \in {"ingest", "reconcile"} \/ (run.pc = "reading" /\ "orders" \in run.seen) =>
    /\ run.snap.open = {o \in Placed : Working(o)}
    /\ \A o \in run.snap.open : run.snap.broker[o] = broker[o]
Matched ==
  run.pc = "start" =>
    \A o \in Placed : Working(o) /\ ledger[o].status \in OpenAtBroker => Exact(o)
Followed ==
  /\ run.pc \in OrderPcs => \A o \in run.work : Working(o) => Exact(o)
  /\ run.pc = "persist" => placed \notin run.work
  /\ run.pc = "cancel" => Working(run.current) /\ Exact(run.current)
Tracked == Rooted /\ Listed /\ Matched /\ Followed

\* Reconciliation leaves a row that stays open with the listing's numbers.
LEMMA RowsMatch ==
  ASSUME TypeInv, NEW o \in Orders,
         Absent(Normalized(Synced))[o].status \in OpenAtBroker, o \in run.snap.open
  PROVE  Absent(Normalized(Synced))[o].remaining = request[o].quantity - run.snap.broker[o].filled
<1> DEFINE synced == [status    |-> run.snap.broker[o].status,
                      remaining |-> request[o].quantity - run.snap.broker[o].filled]
<1>1. Synced[o] = synced \/ Synced[o].status = "none"
  BY DEF Synced, HasRow
<1> DEFINE normal == Normalized(Synced)[o]
           final == Absent(Normalized(Synced))[o]
<1>2. normal = Synced[o] \/ normal.status = "filled"
  BY DEF Normalized
<1>3. final = normal \/ (final = [normal EXCEPT !.status = "closed"] /\ normal.status = "closing")
  BY DEF Absent
<1>4. Synced \in [Orders -> Row] /\ Normalized(Synced)[o] \in Row
  <2>1. run.snap.open \subseteq Placed /\ run.snap.broker \in [Orders -> BrokerRecord]
    BY DEF TypeInv, TypeOK, Bounded, Run, Snapshot
  <2>2. \A p \in run.snap.open : request[p].quantity - run.snap.broker[p].filled \in 0..MaxQty
    BY <2>1, RequestFields, ConstantsAssumption DEF TypeInv, Bounded, BrokerRecord
  <2>3. Synced \in [Orders -> Row]
    BY <2>1, <2>2 DEF Synced, Row, RowStatus, BrokerRecord, Terminal, Established, TypeInv, TypeOK
  <2>4. [status |-> "filled", remaining |-> 0] \in Row
    BY ConstantsAssumption DEF Row, RowStatus, Established
  <2>5. QED
    BY <2>3, <2>4 DEF Normalized
<1>5. normal \in Row /\ [normal EXCEPT !.status = "closed"].status = "closed"
  BY <1>4 DEF Row
<1>6. synced.remaining = request[o].quantity - run.snap.broker[o].filled
  OBVIOUS
<1>7. final.status \in OpenAtBroker
  OBVIOUS
<1> HIDE DEF normal, final, synced
<1>8. final.remaining = request[o].quantity - run.snap.broker[o].filled
  BY <1>1, <1>2, <1>3, <1>5, <1>6, <1>7 DEF OpenAtBroker
<1>9. QED
  BY <1>8 DEF final

\* An order nobody has accepted yet is not among those worked on.
LEMMA NewOrder ==
  ASSUME TypeInv, NEW r \in Request, Accept(r)
  PROVE  /\ placed' \notin Placed /\ placed' = placed + 1 /\ Placed' = Placed \cup {placed'}
         /\ request'[placed'] = r /\ \A o \in Placed : request'[o] = request[o]
         /\ broker' = broker
         /\ run.pc \in OrderPcs \cup StructurePcs => run.work \subseteq Placed
BY AcceptExtends DEF TypeInv, WorkLeft, OrderPcs, StructurePcs

LEMMA TrackedStep ==
  ASSUME TypeInv, Accounted, Tracked, [Next]_vars, Faults \cap {"midcycle", "async_cancel"} = {}
  PROVE  Tracked'
<1> USE DEF Quiet, Listing
<1>0. \A o \in Placed : o \in Orders
  BY RequestFields
<1>1. CASE run'.pc = "idle" /\ UNCHANGED <<placed, request>>
  BY <1>1 DEF Tracked, Rooted, Listed, Matched, Followed, Placed, OrderPcs
<1>2. CASE BrokerNext
  BY <1>1, <1>2, MarketSteps
<1>3. ASSUME NEW m \in Modes, BeginCycle(m) PROVE Tracked'
  BY <1>3, BeginLocals DEF Tracked, Rooted, Listed, Matched, Followed, Placed, OrderPcs
<1>4. ASSUME NEW S \in SUBSET Reads, Read(S) PROVE Tracked'
  <2>1. /\ run.pc = "reading" /\ run'.seen = run.seen \cup S /\ run'.pc \in {"reading", "ingest"}
        /\ run'.pc = "ingest" => run'.seen = Reads
    BY <1>4, ReadLocals
  <2>2. Listed'
    BY <1>4, <2>1, ListSteps DEF Tracked, Listed, Reads, Placed, Working
  <2>3. QED
    BY <1>4, <2>1, <2>2, ListSteps DEF Tracked, Rooted, Matched, Followed, Placed, OrderPcs
<1>5. CASE IngestFills
  <2>1. run.pc = "ingest" /\ run'.pc = "reconcile" /\ run'.snap = run.snap /\ Quiet
    BY <1>5 DEF IngestFills, TypeInv, TypeOK, Run, brokerVars
  <2>2. QED
    BY <2>1 DEF Tracked, Rooted, Listed, Matched, Followed, Placed, Working, OrderPcs
<1>6. CASE Reconcile
  <2>1. /\ run.pc = "reconcile" /\ run'.pc = "start" /\ run'.snap = run.snap /\ Quiet
        /\ ledger' = Absent(Normalized(Synced))
    BY <1>6, ReconcileSteps
  <2>2. ASSUME NEW o \in Placed, Working(o), ledger'[o].status \in OpenAtBroker
        PROVE  ledger'[o].remaining = request[o].quantity - broker[o].filled
    <3>1. o \in run.snap.open /\ run.snap.broker[o] = broker[o] /\ o \in Orders
      BY <1>0, <2>1, <2>2 DEF Tracked, Listed
    <3>2. QED
      BY <2>1, <2>2, <3>1, RowsMatch
  <2>3. QED
    BY <2>1, <2>2 DEF Tracked, Rooted, Listed, Matched, Followed, Placed, Working, Exact, OrderPcs
<1>7. CASE StartLifecycle
  <2>1. \A o \in PendingManaged : o \in Placed /\ ledger[o].status \in OpenAtBroker
    BY DEF PendingManaged
  <2>2. QED
    BY <1>0, <1>7, <2>1, StartSteps
       DEF Tracked, Rooted, Listed, Matched, Followed, Placed, Working, Exact, Counted, OrderPcs
<1>8. ASSUME NEW o \in run.work,
             PollEntryTerminal(o) \/ PollCloseCanceled(o) \/ PollCloseFilled(o) \/ PollWait(o)
      PROVE  Tracked'
  <2>1. \A p \in run.work : p \in Orders
    BY <1>0, <1>8, PollSteps DEF TypeInv, WorkLeft
  <2>2. QED
    BY <1>8, <2>1, PollSteps
       DEF Tracked, Rooted, Listed, Matched, Followed, Placed, Working, Exact, Counted, OrderPcs
<1>9. ASSUME NEW o \in run.work, NEW a, PollCancel(o, a) PROVE Tracked'
  BY <1>9, CancelSteps
     DEF Tracked, Rooted, Listed, Matched, Followed, Placed, Working, Exact, OrderPcs
<1>10. CASE CancelAccepted
  <2>1. \A p \in run.work : p \in Orders
    BY <1>0, <1>10, AcceptedSteps DEF TypeInv, WorkLeft
  <2>2. ASSUME NEW p \in run.work, Working(p)' PROVE Exact(p)'
    <3>1. p # run.current
      BY <1>10, <2>2, AcceptedSteps DEF Working, OpenAtBroker
    <3>2. Working(p)
      BY <1>10, <2>1, <2>2, <3>1, AcceptedSteps DEF Working
    <3>3. QED
      BY <1>10, <2>1, <3>2, AcceptedSteps DEF Tracked, Followed, Exact, Counted, OrderPcs
  <2>3. QED
    BY <1>10, <2>2, AcceptedSteps DEF Tracked, Rooted, Listed, Matched, Followed, Placed
<1>11. CASE PlaceReplacement
  <2> DEFINE r == Replacement(run.current)
  <2>1. /\ r \in Request /\ Accept(r) /\ run.pc = "replace" /\ run'.pc = "persist"
        /\ run'.work = run.work /\ run.current \in Placed /\ ledger' = ledger
    BY <1>11, ReplaceSteps
  <2>2. r.root \in Placed
    <3>1. request[run.current] \in Request
      BY <2>1, RequestFields
    <3>2. r.root = request[run.current].root
      BY <3>1 DEF Replacement, Request
    <3>3. QED
      BY <2>1, <3>2 DEF Tracked, Rooted
  <2> HIDE DEF r
  <2>3. /\ placed' \notin Placed /\ Placed' = Placed \cup {placed'}
        /\ request'[placed'] = r /\ \A o \in Placed : request'[o] = request[o]
        /\ broker' = broker /\ run.work \subseteq Placed
    BY <2>1, NewOrder DEF OrderPcs
  <2>4. Rooted'
    BY <2>2, <2>3 DEF Tracked, Rooted
  <2>5. \A p \in run.work : Working(p)' => Exact(p)'
    BY <2>1, <2>3 DEF Tracked, Followed, Working, Exact, OrderPcs
  <2>6. QED
    BY <2>1, <2>3, <2>4, <2>5 DEF Tracked, Listed, Matched, Followed
<1>12. CASE ReplacementExists \/ PersistReplacement
  <2>1. /\ run'.pc = "orders" /\ run'.work = run.work /\ Quiet
        /\ run.pc \in {"replace", "persist"}
    BY <1>12, SettledSteps
  <2>2. ASSUME NEW p \in run.work PROVE ledger'[p] = ledger[p]
    <3>1. p \in Orders
      BY <1>0, <2>1 DEF TypeInv, WorkLeft
    <3>2. CASE ReplacementExists
      BY <3>2, SettledSteps
    <3>3. CASE PersistReplacement
      BY <3>1, <3>3, SettledSteps DEF Tracked, Followed
    <3>4. QED
      BY <1>12, <3>2, <3>3
  <2>3. QED
    BY <2>1, <2>2 DEF Tracked, Rooted, Listed, Matched, Followed, Placed, Working, Exact, OrderPcs
<1>13. ASSUME UNCHANGED <<placed, request>>, run'.pc \in {"structures", "persist_close", "mark_closing", "decide"}
       PROVE  Tracked'
  BY <1>13 DEF Tracked, Rooted, Listed, Matched, Followed, Placed, OrderPcs
<1>14. ASSUME NEW r \in Request, Accept(r), r.root = placed + 1,
              run'.pc \in {"persist_close", "persist_entry"}
       PROVE  Tracked'
  <2>1. /\ placed' = placed + 1 /\ Placed' = Placed \cup {placed'}
        /\ request'[placed'] = r /\ \A o \in Placed : request'[o] = request[o]
    BY <1>14, NewOrder
  <2>2. Rooted'
    BY <1>14, <2>1 DEF Tracked, Rooted
  <2>3. QED
    BY <1>14, <2>2 DEF Tracked, Listed, Matched, Followed, OrderPcs
<1>15. CASE OrdersNext
  BY <1>8, <1>9, <1>10, <1>11, <1>12, <1>13, <1>15, EndOrdersSteps DEF OrdersNext
<1>16. CASE StructuresNext
  <2>1. ASSUME NEW o \in run.work, PlaceClose(o) PROVE Tracked'
    BY <1>14, <2>1, CloseSteps DEF CloseRequest
  <2>2. CASE PersistClose \/ MarkClosing \/ EndStructures
    BY <1>13, <2>2, ClosingSteps
  <2>3. QED
    BY <1>13, <1>16, <2>1, <2>2, JudgeSteps DEF StructuresNext
<1>17. ASSUME NEW c \in Candidates, NEW q \in 1..MaxQty, PlaceEntry(c, q) PROVE Tracked'
  BY <1>14, <1>17, EntrySteps DEF EntryRequest
<1>18. CASE PersistEntry \/ Abstain \/ FailClosed \/ Crash
  BY <1>1, <1>18, EndSteps
<1>19. CASE ClearKillSwitch \/ Done \/ UNCHANGED vars
  BY <1>19 DEF ClearKillSwitch, Done, vars, brokerVars, Tracked, Rooted, Listed, Matched, Followed,
     Placed, Working, Exact
<1>20. QED
  BY <1>2, <1>3, <1>4, <1>5, <1>6, <1>7, <1>15, <1>16, <1>17, <1>18, <1>19
     DEF Next, CycleNext

(***************************************************************************)
(* What a chain of entries has bought, and may still buy.                  *)
(***************************************************************************)
Chain(root) == {o \in Placed : request[o].root = root /\ IsEntry(o)}
Total(root) == SumFunctionOnSet([o \in Orders |-> Bought(o)], Chain(root))

\* After the cancel there is room for what the row has left.
Room ==
  run.pc = "replace" /\ IsEntry(run.current) =>
    Total(request[run.current].root) + ledger[run.current].remaining
      <= request[request[run.current].root].quantity

LEMMA BoughtType ==
  ASSUME TypeInv, NEW o \in Placed
  PROVE  /\ o \in Orders /\ Bought(o) \in Nat /\ Bought(o) <= request[o].quantity
         /\ request[o].quantity \in Nat
<1>1. /\ o \in Orders /\ request[o].quantity \in 1..MaxQty /\ broker[o] \in BrokerRecord
      /\ broker[o].filled <= request[o].quantity
  BY RequestFields DEF TypeInv, Bounded
<1>2. broker[o].filled \in Nat
  BY <1>1, ConstantsAssumption DEF BrokerRecord
<1>3. QED
  BY <1>1, <1>2, ConstantsAssumption DEF Bought

LEMMA BoughtTypes ==
  TypeInv => \A o \in Placed :
    /\ o \in Orders /\ Bought(o) \in Nat /\ Bought(o) <= request[o].quantity
    /\ request[o].quantity \in Nat
BY BoughtType

LEMMA BoughtTypesNext ==
  TypeInv' => (\A o \in Placed :
    /\ o \in Orders /\ Bought(o) \in Nat /\ Bought(o) <= request[o].quantity
    /\ request[o].quantity \in Nat)'
BY BoughtTypes, PTL

LEMMA ChainType ==
  ASSUME TypeInv, NEW root
  PROVE  /\ IsFiniteSet(Chain(root)) /\ Chain(root) \subseteq Placed /\ Total(root) \in Int
<1>1. IsFiniteSet(Placed)
  BY FS_Interval DEF Placed, TypeInv, TypeOK
<1>2. Chain(root) \subseteq Placed
  BY DEF Chain
<1>3. IsFiniteSet(Chain(root))
  BY <1>1, <1>2, FS_Subset
<1> DEFINE f == [o \in Orders |-> Bought(o)]
<1>4. \A o \in Chain(root) : f[o] \in Int
  BY <1>2, BoughtType
<1>5. Total(root) = SumFunctionOnSet(f, Chain(root))
  BY DEF Total
<1> HIDE DEF f
<1>6. Total(root) \in Int
  BY <1>3, <1>4, <1>5, SumType
<1>7. QED
  BY <1>2, <1>3, <1>6

LEMMA ChainTypes == TypeInv => \A root \in Placed : Total(root) \in Int
BY ChainType

LEMMA ChainTypesNext == TypeInv' => (\A root \in Placed : Total(root) \in Int)'
BY ChainTypes, PTL

\* While no order is accepted, and nothing more can be bought, no total grows.
LEMMA TotalsShrink ==
  ASSUME TypeInv, TypeInv', UNCHANGED <<placed, request>>,
         \A o \in Placed : Bought(o)' <= Bought(o), NEW root
  PROVE  Total(root)' <= Total(root) /\ Total(root)' \in Int
<1> DEFINE f == [o \in Orders |-> Bought(o)]
           g == [o \in Orders |-> Bought(o)']
<1>1. Chain(root)' = Chain(root)
  BY DEF Chain, Placed, IsEntry
<1>2. /\ Total(root) = SumFunctionOnSet(f, Chain(root))
      /\ Total(root)' = SumFunctionOnSet(g, Chain(root))
  BY <1>1 DEF Total
<1>3. Placed' = Placed
  BY DEF Placed
<1>4. \A o \in Chain(root) : f[o] \in Int /\ g[o] \in Int /\ g[o] <= f[o]
  BY <1>3, ChainType, BoughtType, BoughtTypesNext
<1>5. IsFiniteSet(Chain(root))
  BY ChainType
<1> HIDE DEF f, g
<1>6. SumFunctionOnSet(g, Chain(root)) <= SumFunctionOnSet(f, Chain(root))
  BY <1>4, <1>5, SumMonotone
<1>7. SumFunctionOnSet(g, Chain(root)) \in Int
  BY <1>4, <1>5, SumType
<1>8. QED
  BY <1>2, <1>6, <1>7

\* One order's share shrinks: so does its chain's total, by as much.
LEMMA TotalChanged ==
  ASSUME TypeInv, TypeInv', UNCHANGED <<placed, request>>, NEW o \in Placed, IsEntry(o),
         \A p \in Placed : p # o => Bought(p)' = Bought(p)
  PROVE  Total(request[o].root)' = Total(request[o].root) - Bought(o) + Bought(o)'
<1> DEFINE f == [p \in Orders |-> Bought(p)]
           g == [p \in Orders |-> Bought(p)']
           S == Chain(request[o].root)
<1>1. Chain(request[o].root)' = S
  BY DEF Chain, Placed, IsEntry
<1>2. /\ Total(request[o].root) = SumFunctionOnSet(f, S)
      /\ Total(request[o].root)' = SumFunctionOnSet(g, S)
  BY <1>1 DEF Total
<1>3. Placed' = Placed /\ S \subseteq Placed /\ IsFiniteSet(S)
  BY ChainType DEF Placed
<1>4. \A p \in S : f[p] \in Int /\ g[p] \in Int /\ (p # o => g[p] = f[p])
  BY <1>3, BoughtType, BoughtTypesNext
<1>5. o \in S /\ f[o] = Bought(o) /\ g[o] = Bought(o)'
  BY BoughtType DEF Chain
<1> HIDE DEF f, g, S
<1>6. /\ IsFiniteSet(S) /\ o \in S
      /\ \A p \in S : f[p] \in Int /\ g[p] \in Int
      /\ \A p \in S \ {o} : g[p] = f[p]
  BY <1>3, <1>4, <1>5
<1>7. SumFunctionOnSet(g, S) = SumFunctionOnSet(f, S) - f[o] + g[o]
  BY ONLY <1>6, SumChanged
<1>8. QED
  BY <1>2, <1>5, <1>7

\* A new order joins its own chain and no other.
LEMMA ChainsGrow ==
  ASSUME TypeInv, TypeInv', Rooted, NEW r \in Request, Accept(r), NEW n, n = placed',
         NEW root \in Placed \cup {n}
  PROVE  /\ root \in Placed /\ (r.closing \/ r.root # root) => Total(root)' = Total(root)
         /\ root \in Placed /\ ~r.closing /\ r.root = root =>
              Total(root)' <= Total(root) + r.quantity
         /\ root = n => Total(root)' <= r.quantity
<1> DEFINE f == [p \in Orders |-> Bought(p)]
           g == [p \in Orders |-> Bought(p)']
<1>1. /\ n \notin Placed /\ Placed' = Placed \cup {n} /\ request'[n] = r
      /\ \A p \in Placed : request'[p] = request[p] /\ request[p].root \in Placed
      /\ broker' = broker
  BY NewOrder DEF Rooted
<1>2. /\ \A p \in Placed : Bought(p)' = Bought(p) /\ p \in Orders
      /\ n \in Orders /\ Bought(n)' \in Nat /\ Bought(n)' <= r.quantity /\ r.quantity \in Nat
  <2>1. \A p \in Placed : Bought(p)' = Bought(p) /\ p \in Orders
    BY <1>1, BoughtType DEF Bought
  <2>2. /\ n \in Orders /\ Bought(n)' \in Nat /\ Bought(n)' <= request'[n].quantity
        /\ request'[n].quantity \in Nat
    BY <1>1, BoughtTypesNext
  <2>3. QED
    BY <1>1, <2>1, <2>2
<1>3. Total(root)' = SumFunctionOnSet(g, Chain(root)')
  BY DEF Total
<1>4. CASE root \in Placed
  <2> DEFINE S == Chain(root)
  <2>1. /\ Total(root) = SumFunctionOnSet(f, S) /\ IsFiniteSet(S) /\ S \subseteq Placed
        /\ Total(root) \in Int
    BY ChainType DEF Total
  <2>2. Chain(root)' = IF ~r.closing /\ r.root = root THEN S \cup {n} ELSE S
    BY <1>1 DEF Chain, IsEntry
  <2>3. /\ \A p \in S : f[p] \in Int /\ g[p] = f[p]
        /\ g[n] = Bought(n)' /\ n \notin S
    BY <1>1, <1>2, <2>1, BoughtType
  <2>4. root # n
    BY <1>1, <1>4
  <2> HIDE DEF f, g, S
  <2>5. SumFunctionOnSet(g, S) = SumFunctionOnSet(f, S)
    BY <2>1, <2>3, SumOfEquals
  <2>6. SumFunctionOnSet(g, S \cup {n}) = g[n] + SumFunctionOnSet(g, S)
    <3>1. \A p \in S \cup {n} : g[p] \in Int
      BY <1>2, <2>3
    <3>2. QED
      BY <2>1, <2>3, <3>1, SumWith
  <2>7. CASE ~r.closing /\ r.root = root
    BY <1>2, <1>3, <2>1, <2>2, <2>3, <2>4, <2>5, <2>6, <2>7
  <2>8. CASE r.closing \/ r.root # root
    BY <1>3, <2>1, <2>2, <2>4, <2>5, <2>8
  <2>9. QED
    BY <2>7, <2>8
<1>5. CASE root = n
  <2>1. Chain(root)' \subseteq {n}
    BY <1>1, <1>5 DEF Chain
  <2>2. SumFunctionOnSet(g, {}) = 0
    BY SumOfNone
  <2>3. SumFunctionOnSet(g, {n}) = g[n] + SumFunctionOnSet(g, {})
    <3>1. g[n] \in Int /\ IsFiniteSet({}) /\ n \notin {} /\ {} \cup {n} = {n}
      BY <1>2, FS_EmptySet
    <3> HIDE DEF g
    <3>2. \A p \in {} \cup {n} : g[p] \in Int
      BY <3>1
    <3>3. SumFunctionOnSet(g, {} \cup {n}) = g[n] + SumFunctionOnSet(g, {})
      BY <3>1, <3>2, SumWith
    <3>4. QED
      BY <3>1, <3>3
  <2>4. g[n] = Bought(n)' /\ root \notin Placed
    BY <1>1, <1>2, <1>5
  <2>5. Chain(root)' = {} \/ Chain(root)' = {n}
    BY <2>1
  <2>6. Total(root)' = 0 \/ Total(root)' = g[n]
    <3>1. CASE Chain(root)' = {}
      BY <1>3, <2>2, <3>1
    <3>2. CASE Chain(root)' = {n}
      <4>1. Total(root)' = SumFunctionOnSet(g, {n})
        BY <1>3, <3>2
      <4> HIDE DEF g
      <4>2. QED
        BY <1>2, <2>2, <2>3, <2>4, <4>1
    <3>3. QED
      BY <2>5, <3>1, <3>2
  <2>7. QED
    BY <1>2, <2>4, <2>6
<1>6. QED
  BY <1>1, <1>4, <1>5

(***************************************************************************)
(* The chains stay within what was approved.                               *)
(***************************************************************************)
LEMMA ChainsFit ==
  ChainWithinApproval <=> \A root \in Placed : Total(root) <= request[root].quantity
BY DEF ChainWithinApproval, Total, Chain

LEMMA ChainsFitNext ==
  ChainWithinApproval' <=> (\A root \in Placed : Total(root) <= request[root].quantity)'
BY ChainsFit, PTL

\* What the broker does to a working order can only lower what it may buy.
LEMMA WorkingShrinks ==
  ASSUME TypeInv, TypeInv', UNCHANGED <<placed, request>>,
         \A o \in Placed : broker'[o] = broker[o] \/ Working(o)
  PROVE  \A o \in Placed : Bought(o)' <= Bought(o)
<1>1. Placed' = Placed
  BY DEF Placed
<1>2. ASSUME NEW o \in Placed PROVE Bought(o)' <= Bought(o)
  <2>1. /\ Bought(o) \in Nat /\ Bought(o)' \in Nat
        /\ Bought(o)' <= request'[o].quantity /\ request'[o] = request[o]
    BY <1>1, BoughtTypes, BoughtTypesNext
  <2>2. CASE broker'[o] = broker[o]
    BY <2>1, <2>2 DEF Bought
  <2>3. CASE Working(o)
    BY <2>1, <2>3 DEF Bought, Working
  <2>4. QED
    BY <2>2, <2>3
<1>3. QED
  BY <1>2

LEMMA ChainsKept ==
  ASSUME TypeInv, TypeInv', UNCHANGED <<placed, request>>,
         \A o \in Placed : broker'[o] = broker[o] \/ Working(o), ChainWithinApproval
  PROVE  ChainWithinApproval'
<1>1. Placed' = Placed /\ \A root \in Placed : root \in Orders /\ request[root].quantity \in Nat
  BY BoughtTypes DEF Placed
<1>2. ASSUME NEW root \in Placed PROVE Total(root)' <= request'[root].quantity
  <2>1. Total(root)' <= Total(root) /\ Total(root)' \in Int
    BY WorkingShrinks, TotalsShrink
  <2>2. Total(root) \in Int /\ Total(root) <= request[root].quantity /\ request' = request
    BY ChainType, ChainsFit
  <2>3. QED
    BY <1>1, <2>1, <2>2
<1>3. QED
  BY <1>1, <1>2, ChainsFitNext

LEMMA ChainsExtended ==
  ASSUME TypeInv, TypeInv', Rooted, ChainWithinApproval, NEW r \in Request, Accept(r),
         \/ r.root = placed + 1
         \/ /\ r.root \in Placed
            /\ r.closing \/ Total(r.root) + r.quantity <= request[r.root].quantity
  PROVE  ChainWithinApproval'
<1> SUFFICES ASSUME NEW n, n = placed' PROVE ChainWithinApproval'
  OBVIOUS
<1>1. /\ n \notin Placed /\ n = placed + 1 /\ Placed' = Placed \cup {n}
      /\ request'[n] = r /\ \A o \in Placed : request'[o] = request[o]
  BY NewOrder
<1>2. ASSUME NEW root \in Placed PROVE Total(root)' <= request'[root].quantity
  <2>1. /\ Total(root) \in Int /\ Total(root) <= request[root].quantity
        /\ request'[root].quantity = request[root].quantity
    BY <1>1, ChainType, ChainsFit
  <2>2. CASE r.closing \/ r.root # root
    BY <2>1, <2>2, ChainsGrow
  <2>3. CASE ~r.closing /\ r.root = root
    <3>1. Total(root)' <= Total(root) + r.quantity
      BY <2>3, ChainsGrow
    <3>2. Total(root) + r.quantity <= request[root].quantity
      BY <1>1, <2>3
    <3>3. Total(root)' \in Int /\ r.quantity \in Int /\ request[root].quantity \in Int
      <4>1. Total(root)' \in Int
        BY <1>1, ChainTypesNext
      <4>2. QED
        BY <1>1, <4>1, BoughtTypes, ConstantsAssumption DEF Request
    <3>4. QED
      BY <2>1, <3>1, <3>2, <3>3
  <2>4. QED
    BY <2>2, <2>3
<1>3. Total(n)' <= request'[n].quantity
  BY <1>1, ChainsGrow
<1>4. QED
  BY <1>1, <1>2, <1>3, ChainsFitNext

LEMMA ChainStep ==
  ASSUME TypeInv, TypeInv', Tracked, Room, ChainWithinApproval, [Next]_vars,
         Faults \cap {"midcycle", "async_cancel"} = {}
  PROVE  Room' /\ ChainWithinApproval'
<1> USE DEF Quiet
<1>1. ASSUME run'.pc # "replace" PROVE Room'
  BY <1>1 DEF Room
<1>2. ASSUME UNCHANGED <<placed, request, broker>> PROVE ChainWithinApproval'
  BY <1>2, ChainsKept
<1>3. ASSUME run'.pc # "replace", UNCHANGED <<placed, request, broker>>
      PROVE  Room' /\ ChainWithinApproval'
  BY <1>1, <1>2, <1>3
<1>4. CASE BrokerNext
  <2>1. /\ run' = run /\ ledger' = ledger /\ UNCHANGED <<placed, request>> /\ run.pc = "idle"
    BY <1>4, MarketSteps
  <2>2. \A o \in Placed : broker'[o] = broker[o] \/ Working(o)
    BY <1>4, RequestFields DEF BrokerNext, Fill, Lapse, Reduce, Working, TypeInv, TypeOK
  <2>3. QED
    BY <1>1, <2>1, <2>2, ChainsKept
<1>5. ASSUME NEW m \in Modes, BeginCycle(m) PROVE Room' /\ ChainWithinApproval'
  BY <1>3, <1>5, BeginLocals DEF BeginCycle, brokerVars
<1>6. ASSUME NEW S \in SUBSET Reads, Read(S) PROVE Room' /\ ChainWithinApproval'
  BY <1>3, <1>6, ReadLocals DEF Read, brokerVars
<1>7. CASE IngestFills
  BY <1>3, <1>7 DEF IngestFills, TypeInv, TypeOK, Run, brokerVars
<1>8. CASE Reconcile \/ StartLifecycle
  BY <1>3, <1>8, ReconcileSteps, StartSteps
<1>9. ASSUME NEW o \in run.work,
             PollEntryTerminal(o) \/ PollCloseCanceled(o) \/ PollCloseFilled(o) \/ PollWait(o)
      PROVE  Room' /\ ChainWithinApproval'
  BY <1>3, <1>9, PollSteps
<1>10. ASSUME NEW o \in run.work, NEW a, PollCancel(o, a) PROVE Room' /\ ChainWithinApproval'
  BY <1>3, <1>10, CancelSteps
<1>11. CASE CancelAccepted
  <2> DEFINE o == run.current
  <2>1. /\ run.pc = "cancel" /\ run'.current = o /\ o \in Placed
        /\ UNCHANGED <<placed, request>> /\ Counted
        /\ \A p \in Orders : broker'[p].filled = broker[p].filled
        /\ \A p \in Orders : p # o => broker'[p] = broker[p]
        /\ broker'[o].status = "canceled"
    BY <1>11, AcceptedSteps
  <2>2. Working(o) /\ Exact(o)
    BY <2>1 DEF Tracked, Followed
  <2>3. ChainWithinApproval'
    BY <2>1, <2>2, ChainsKept, RequestFields
  <2>4. ASSUME IsEntry(o) PROVE Total(request[o].root)' + ledger'[o].remaining
                                  <= request[request[o].root].quantity
    <3> DEFINE root == request[o].root
    <3>1. Total(root)' = Total(root) - Bought(o) + Bought(o)'
      BY <2>1, <2>4, TotalChanged, RequestFields DEF Bought
    <3>2. /\ Bought(o) = request[o].quantity /\ Bought(o)' = broker[o].filled
          /\ ledger'[o].remaining = request[o].quantity - broker[o].filled
      BY <2>1, <2>2, RequestFields DEF Bought, Working, Exact, Counted, OpenAtBroker
    <3>3. /\ Total(root) \in Int /\ root \in Placed /\ Total(root) <= request[root].quantity
          /\ request[o].quantity \in Int /\ Bought(o)' \in Int /\ request[root].quantity \in Int
      <4>1. o \in Placed'
        BY <2>1 DEF Placed
      <4>2. QED
        BY <2>1, <4>1, ChainType, ChainsFit, BoughtTypes, BoughtTypesNext DEF Tracked, Rooted
    <3> HIDE DEF root
    <3>4. QED
      BY <3>1, <3>2, <3>3 DEF root
  <2>5. Room'
    BY <2>1, <2>4 DEF Room, IsEntry
  <2>6. QED
    BY <2>3, <2>5
<1>12. CASE PlaceReplacement
  <2> DEFINE o == run.current
             r == Replacement(o)
  <2>1. /\ r \in Request /\ Accept(r) /\ run.pc = "replace" /\ run'.pc = "persist" /\ o \in Placed
    BY <1>12, ReplaceSteps
  <2>2. /\ r.root = request[o].root /\ r.closing = request[o].closing
        /\ r.quantity = ledger[o].remaining
    BY <2>1, RequestFields DEF Replacement, Request
  <2>3. r.root \in Placed
    BY <2>1, <2>2 DEF Tracked, Rooted
  <2>4. ~r.closing => Total(r.root) + r.quantity <= request[r.root].quantity
    BY <2>1, <2>2 DEF Room, IsEntry
  <2> HIDE DEF r
  <2>5. ChainWithinApproval'
    BY <2>1, <2>3, <2>4, ChainsExtended DEF Tracked
  <2>6. QED
    BY <1>1, <2>1, <2>5
<1>13. CASE ReplacementExists \/ PersistReplacement
  BY <1>3, <1>13, SettledSteps
<1>14. ASSUME NEW r \in Request, Accept(r), r.root = placed + 1, run'.pc # "replace"
       PROVE  Room' /\ ChainWithinApproval'
  BY <1>1, <1>14, ChainsExtended DEF Tracked
<1>15. CASE StructuresNext
  <2>1. ASSUME NEW o \in run.work, PlaceClose(o) PROVE Room' /\ ChainWithinApproval'
    BY <1>14, <2>1, CloseSteps DEF CloseRequest
  <2>2. CASE PersistClose \/ MarkClosing \/ EndStructures
    BY <1>3, <2>2, ClosingSteps
  <2>3. QED
    BY <1>3, <1>15, <2>1, <2>2, JudgeSteps DEF StructuresNext
<1>16. ASSUME NEW c \in Candidates, NEW q \in 1..MaxQty, PlaceEntry(c, q)
       PROVE  Room' /\ ChainWithinApproval'
  BY <1>14, <1>16, EntrySteps DEF EntryRequest
<1>17. CASE PersistEntry \/ Abstain \/ FailClosed \/ Crash
  BY <1>3, <1>17, EndSteps
<1>18. CASE ClearKillSwitch \/ Done \/ UNCHANGED vars
  <2>1. UNCHANGED <<placed, request, broker, ledger, run>>
    BY <1>18 DEF ClearKillSwitch, Done, vars, brokerVars
  <2>2. Room'
    <3>1. Total(request[run.current].root)' = Total(request[run.current].root)
      BY <2>1 DEF Total, Chain, Placed, IsEntry, Bought
    <3>2. QED
      BY <2>1, <3>1 DEF Room, IsEntry
  <2>3. QED
    BY <1>2, <2>1, <2>2
<1>19. CASE OrdersNext
  BY <1>3, <1>9, <1>10, <1>11, <1>12, <1>13, <1>19, EndOrdersSteps DEF OrdersNext
<1>20. QED
  BY <1>4, <1>5, <1>6, <1>7, <1>8, <1>15, <1>16, <1>17, <1>18, <1>19 DEF Next, CycleNext

\* Cancel and replace buys no more than the first order of the chain was approved
\* for (ChainWithinApproval: service.py _maintain_order_lifecycle, replacement_request),
\* as long as the broker moves only between cycles and ends an order with the call
\* that cancels it.  Crashes, raised calls, torn reads and assignments do no harm.
THEOREM ChainsWithinApproval ==
  ASSUME Faults \cap {"midcycle", "async_cancel"} = {}
  PROVE  Spec => []ChainWithinApproval
<1>1. Init => Tracked /\ Room /\ ChainWithinApproval
  BY DEF Init, Tracked, Rooted, Listed, Matched, Followed, Room, ChainWithinApproval,
     Placed, Idle, OrderPcs
<1>2. /\ TypeInv /\ Accounted /\ TypeInv' /\ Tracked /\ Room /\ ChainWithinApproval /\ [Next]_vars
      => (Tracked /\ Room /\ ChainWithinApproval)'
  BY TrackedStep, ChainStep
<1>3. QED
  BY <1>1, <1>2, Inductive, PTL DEF Spec, IInv

(***************************************************************************)
(* One close of a structure at a time.                                     *)
(***************************************************************************)
WorkingClose(k) == ~IsEntry(k) /\ Working(k)

\* While no worker dies between a submission and its row, every order has a row
\* or is about to get one; a working order has something left to fill; and a
\* close belongs to an entry of the same candidate.
Recorded   == \A o \in Placed : HasRow(o) \/ InFlight(o)
Unfinished == \A o \in Placed : Working(o) => broker[o].filled < request[o].quantity
Parented   ==
  /\ \A o \in Placed : ~IsEntry(o) => /\ request[o].parent \in Placed
                                      /\ IsEntry(request[o].parent)
                                      /\ Of(request[o].parent) = Of(o)
  /\ run.pc \in StructurePcs => \A o \in run.work : IsEntry(o)
Grounded == Recorded /\ Unfinished /\ Parented

\* A working close is among the rows to poll, is being handled, or its candidate
\* is marked as worked on, which keeps the structure from being judged.
Pending == run.pc = "start" =>
  \A k \in Placed : WorkingClose(k) => ledger[k].status \in OpenAtBroker /\ ledger[k].remaining >= 1
Polled == run.pc \in OrderPcs =>
  \A k \in Placed : WorkingClose(k) =>
    \/ k \in run.work \/ Of(k) \in run.active
    \/ run.pc = "cancel" /\ k = run.current
    \/ run.pc = "persist" /\ k = placed /\ Of(k) = Of(run.current)
Shielded == run.pc \in StructurePcs =>
  \A k \in Placed : WorkingClose(k) => Of(k) \in run.active \/ request[k].parent \notin run.work
Cleared == run.pc = "replace" /\ ~IsEntry(run.current) =>
  \A k \in Placed : WorkingClose(k) => request[k].parent # request[run.current].parent
Tended == Pending /\ Polled /\ Shielded /\ Cleared

LEMMA OneClose ==
  OneWorkingClose <=>
    \A j, k \in Placed :
      WorkingClose(j) /\ WorkingClose(k) /\ request[j].parent = request[k].parent => j = k
<1>1. \A j, k \in Placed :
        {broker[j].status, broker[k].status} \subseteq OpenAtBroker <=> Working(j) /\ Working(k)
  BY DEF Working
<1>2. QED
  BY <1>1 DEF OneWorkingClose, WorkingClose

LEMMA OneCloseNext ==
  OneWorkingClose' <=>
    (\A j, k \in Placed :
      WorkingClose(j) /\ WorkingClose(k) /\ request[j].parent = request[k].parent => j = k)'
BY OneClose, PTL

\* Only the broker and an accepted cancel change what the broker knows of an
\* order, and only of a working one.
LEMMA BrokerMoved ==
  ASSUME TypeInv, [Next]_vars
  PROVE  /\ broker' = broker \/ BrokerNext \/ CancelAccepted
         /\ UNCHANGED <<fills, position>> \/ BrokerNext
         /\ \A o \in Placed : broker'[o] = broker[o] \/ Working(o)
<1>1. ASSUME OrdersNext PROVE (CancelAccepted \/ broker' = broker) /\ UNCHANGED <<fills, position>>
  <2>1. ASSUME NEW o \in run.work,
               PollEntryTerminal(o) \/ PollCloseCanceled(o) \/ PollCloseFilled(o) \/ PollWait(o)
        PROVE  Quiet
    BY <2>1, PollSteps
  <2>2. ASSUME NEW o \in run.work, NEW a, PollCancel(o, a) PROVE Quiet
    BY <2>2, CancelSteps
  <2>3. CASE PlaceReplacement
    BY <2>3 DEF PlaceReplacement, Accept
  <2>4. CASE ReplacementExists \/ PersistReplacement \/ EndOrders
    BY <2>4 DEF ReplacementExists, PersistReplacement, EndOrders, brokerVars
  <2>5. QED
    BY <1>1, <2>1, <2>2, <2>3, <2>4 DEF OrdersNext, CancelAccepted, Quiet
<1>2. ASSUME StructuresNext PROVE UNCHANGED <<broker, fills, position>>
  BY <1>2 DEF StructuresNext, StructureSkipped, StructureFlat, StructureReduced, StructureHeld,
     CloseExists, CloseWithoutQuotes, PlaceClose, Accept, PersistClose, MarkClosing, EndStructures,
     brokerVars
<1>3. /\ broker' = broker \/ BrokerNext \/ CancelAccepted
      /\ UNCHANGED <<fills, position>> \/ BrokerNext
  BY <1>1, <1>2
     DEF Next, CycleNext, BeginCycle, Read, IngestFills, Reconcile, StartLifecycle, PlaceEntry, Accept,
         PersistEntry, Abstain, FailClosed, ClearKillSwitch, Crash, Done, vars, brokerVars
<1>4. ASSUME NEW o \in Placed PROVE broker'[o] = broker[o] \/ Working(o)
  <2>1. broker[o].status \in Terminal \/ Working(o)
    BY RequestFields DEF BrokerRecord, Working
  <2>2. QED
    BY <2>1, TerminalStays
<1>5. QED
  BY <1>3, <1>4

LEMMA RecordedStep ==
  ASSUME TypeInv, Recorded, [Next]_vars, Faults \cap {"crash", "error"} = {}
  PROVE  Recorded'
<1>1. ASSUME NEW o \in Placed PROVE HasRow(o)' \/ InFlight(o)'
  <2>1. CASE HasRow(o)
    BY <2>1, RowsStay, RequestFields
  <2>2. CASE InFlight(o)
    <3>1. ~FailClosed /\ ~Crash
      BY <2>2 DEF FailClosed, Crash, InFlight, InFlightPcs
    <3>2. \/ run' = run /\ UNCHANGED <<placed, request, ledger>>
          \/ ledger'[placed].status # "none" /\ placed' = placed
      BY <2>2, <3>1, FlightEnds DEF InFlight
    <3>3. QED
      BY <2>2, <3>2 DEF InFlight, HasRow
  <2>3. QED
    BY <2>1, <2>2 DEF Recorded
<1>2. ASSUME NEW o \in Placed', o \notin Placed PROVE InFlight(o)'
  <2>1. PICK r \in Request : Submits(r)
    BY <1>2, SubmissionsAreChecked DEF Placed
  <2>2. QED
    BY <1>2, <2>1, AcceptExtends DEF Submits, InFlight
<1>3. QED
  BY <1>1, <1>2 DEF Recorded

LEMMA UnfinishedStep ==
  ASSUME TypeInv, TypeInv', Unfinished, [Next]_vars
  PROVE  Unfinished'
<1>1. ASSUME NEW o \in Placed, request'[o] = request[o], Working(o)'
      PROVE  broker'[o].filled < request'[o].quantity
  <2>0. /\ Working(o) /\ broker[o].filled < request[o].quantity /\ o \in Orders
        /\ broker[o] \in BrokerRecord /\ broker \in [Orders -> BrokerRecord]
    BY <1>1, BrokerMoved, RequestFields DEF Working, Unfinished, TypeInv, TypeOK
  <2>1. CASE broker' = broker
    BY <1>1, <2>0, <2>1
  <2>2. ASSUME NEW p \in Placed, NEW k \in 1..MaxQty, Fill(p, k)
        PROVE  broker'[o].filled < request[o].quantity
    <3>1. CASE p # o
      BY <2>0, <2>2, <3>1 DEF Fill
    <3>2. CASE p = o
      <4> DEFINE left == request[o].quantity - broker[o].filled
      <4>1. /\ k <= left
            /\ broker'[o] = [filled |-> broker[o].filled + k,
                             status |-> IF k = left THEN "filled"
                                        ELSE IF broker[o].status = "new" THEN "partially_filled"
                                        ELSE broker[o].status]
        BY <2>0, <2>2, <3>2 DEF Fill
      <4>2. k # left
        BY <1>1, <4>1 DEF Working, OpenAtBroker
      <4>3. broker'[o].filled = broker[o].filled + k /\ k \in Int
        BY <4>1
      <4>4. /\ broker[o].filled \in Int /\ request[o].quantity \in Int
        BY <2>0, RequestFields, ConstantsAssumption DEF BrokerRecord
      <4>5. QED
        BY <4>1, <4>2, <4>3, <4>4
    <3>3. QED
      BY <3>1, <3>2
  <2>3. ASSUME NEW p \in Placed, Lapse(p) PROVE broker'[o].filled < request[o].quantity
    BY <2>0, <2>3 DEF Lapse, BrokerRecord
  <2>4. CASE CancelAccepted
    BY <2>0, <2>4, AcceptedSteps
  <2>5. CASE BrokerNext
    <3>1. ASSUME NEW c \in Candidates, NEW l \in Legs, Reduce(c, l) PROVE broker' = broker
      BY <3>1 DEF Reduce
    <3>2. QED
      BY <1>1, <2>1, <2>2, <2>3, <2>5, <3>1 DEF BrokerNext
  <2>6. QED
    BY <1>1, <2>1, <2>4, <2>5, BrokerMoved
<1>2. CASE UNCHANGED <<placed, request>>
  BY <1>1, <1>2 DEF Unfinished, Placed
<1>3. ASSUME NEW r \in Request, Submits(r) PROVE Unfinished'
  <2>1. /\ Placed' = Placed \cup {placed + 1} /\ request'[placed + 1] = r
        /\ \A o \in Placed : request'[o] = request[o]
        /\ broker' = broker /\ placed + 1 \notin Placed /\ placed + 1 \in Orders
    BY <1>3, AcceptExtends DEF Submits
  <2>2. broker'[placed + 1].filled = 0 /\ r.quantity >= 1 /\ r.quantity \in Int
    BY <2>1, ConstantsAssumption DEF TypeInv, Bounded, Request
  <2>3. QED
    BY <1>1, <2>1, <2>2 DEF Unfinished
<1>4. QED
  BY <1>2, <1>3, SubmissionsAreChecked

\* A close names an entry of its own candidate, and so does what replaces it.
LEMMA ParentedStep ==
  ASSUME TypeInv, Parented, [Next]_vars
  PROVE  Parented'
<1> USE DEF Quiet
<1>1. ASSUME UNCHANGED <<placed, request>>,
             run'.pc \in StructurePcs => run.pc \in StructurePcs /\ run'.work \subseteq run.work
      PROVE  Parented'
  BY <1>1 DEF Parented, Placed, IsEntry, Of
<1>2. ASSUME NEW r \in Request, Accept(r),
             run'.pc \in StructurePcs => run.pc \in StructurePcs /\ run'.work \subseteq run.work,
             r.closing => /\ r.parent \in Placed /\ IsEntry(r.parent)
                          /\ Of(r.parent) = r.candidate
      PROVE  Parented'
  <2> SUFFICES ASSUME NEW n, n = placed' PROVE Parented'
    OBVIOUS
  <2>1. /\ Placed' = Placed \cup {n} /\ request'[n] = r
        /\ \A o \in Placed : request'[o] = request[o]
    BY <1>2, NewOrder
  <2>2. run.pc \in StructurePcs => run.work \subseteq Placed
    BY <1>2, NewOrder
  <2>3. run'.pc \in StructurePcs => \A o \in run'.work : IsEntry(o)'
    BY <1>2, <2>1, <2>2 DEF Parented, IsEntry
  <2>4. ASSUME NEW o \in Placed, ~IsEntry(o)' 
        PROVE  /\ request'[o].parent \in Placed /\ IsEntry(request[o].parent)'
               /\ Of(request[o].parent)' = Of(o)'
    BY <2>1, <2>4 DEF Parented, IsEntry, Of
  <2>5. r.closing => /\ r.parent \in Placed /\ IsEntry(r.parent)'
                     /\ Of(r.parent)' = Of(n)'
    BY <1>2, <2>1 DEF IsEntry, Of
  <2>6. \A o \in Placed' : ~IsEntry(o)' => /\ request'[o].parent \in Placed'
                                           /\ IsEntry(request[o].parent)'
                                           /\ Of(request[o].parent)' = Of(o)'
    BY <2>1, <2>4, <2>5 DEF IsEntry
  <2>7. QED
    BY <2>3, <2>6 DEF Parented
<1>3. CASE BrokerNext
  BY <1>1, <1>3, MarketSteps
<1>4. ASSUME NEW m \in Modes, BeginCycle(m) PROVE Parented'
  BY <1>1, <1>4, BeginLocals DEF StructurePcs
<1>5. ASSUME NEW S \in SUBSET Reads, Read(S) PROVE Parented'
  BY <1>1, <1>5, ReadLocals DEF StructurePcs
<1>6. CASE IngestFills \/ Reconcile \/ StartLifecycle
  <2>1. CASE IngestFills
    BY <1>1, <2>1 DEF IngestFills, TypeInv, TypeOK, Run, StructurePcs
  <2>2. QED
    BY <1>1, <1>6, <2>1, ReconcileSteps, StartSteps DEF StructurePcs
<1>7. ASSUME NEW o \in run.work,
             PollEntryTerminal(o) \/ PollCloseCanceled(o) \/ PollCloseFilled(o) \/ PollWait(o)
      PROVE  Parented'
  BY <1>1, <1>7, PollSteps DEF StructurePcs
<1>8. ASSUME NEW o \in run.work, NEW a, PollCancel(o, a) PROVE Parented'
  BY <1>1, <1>8, CancelSteps DEF StructurePcs
<1>9. CASE CancelAccepted
  BY <1>1, <1>9, AcceptedSteps DEF StructurePcs
<1>10. CASE PlaceReplacement
  <2> DEFINE o == run.current
             r == Replacement(o)
  <2>1. /\ r \in Request /\ Accept(r) /\ run'.pc = "persist" /\ o \in Placed
    BY <1>10, ReplaceSteps
  <2>2. /\ r.closing = request[o].closing /\ r.parent = request[o].parent
        /\ r.candidate = request[o].candidate
    BY <2>1, RequestFields DEF Replacement, Request
  <2>3. r.closing => r.parent \in Placed /\ IsEntry(r.parent) /\ Of(r.parent) = r.candidate
    BY <2>1, <2>2 DEF Parented, IsEntry, Of
  <2> HIDE DEF r
  <2>4. QED
    BY <1>2, <2>1, <2>3 DEF StructurePcs
<1>11. CASE ReplacementExists \/ PersistReplacement
  BY <1>1, <1>11, SettledSteps DEF StructurePcs
<1>12. CASE EndOrders
  <2>1. UNCHANGED <<placed, request>> /\ run'.work = OpenManaged
    BY <1>12, EndOrdersSteps
  <2>2. QED
    BY <2>1 DEF Parented, Placed, IsEntry, Of, OpenManaged
<1>13. ASSUME NEW o \in run.work, PlaceClose(o) PROVE Parented'
  <2>1. CloseRequest(o) \in Request /\ Accept(CloseRequest(o)) /\ o \in Placed
        /\ run.pc = "structures" /\ run'.work \subseteq run.work
    BY <1>13, CloseSteps
  <2>2. /\ CloseRequest(o).parent = o /\ CloseRequest(o).candidate = Of(o) /\ IsEntry(o)
    BY <2>1 DEF CloseRequest, Parented, StructurePcs
  <2>3. QED
    BY <1>2, <2>1, <2>2 DEF StructurePcs
<1>14. CASE StructuresNext
  <2>1. CASE PersistClose \/ MarkClosing \/ EndStructures
    BY <1>1, <2>1, ClosingSteps DEF StructurePcs
  <2>2. QED
    BY <1>1, <1>13, <1>14, <2>1, JudgeSteps DEF StructuresNext, StructurePcs
<1>15. ASSUME NEW c \in Candidates, NEW q \in 1..MaxQty, PlaceEntry(c, q) PROVE Parented'
  <2>1. /\ EntryRequest(c, q) \in Request /\ Accept(EntryRequest(c, q))
        /\ run'.pc = "persist_entry" /\ ~EntryRequest(c, q).closing
    BY <1>15, EntrySteps DEF EntryRequest
  <2>2. QED
    BY <1>2, <2>1 DEF StructurePcs
<1>16. CASE PersistEntry \/ Abstain \/ FailClosed \/ Crash
  BY <1>1, <1>16, EndSteps DEF StructurePcs
<1>17. CASE ClearKillSwitch \/ Done \/ UNCHANGED vars
  BY <1>1, <1>17 DEF ClearKillSwitch, Done, vars, brokerVars
<1>18. CASE OrdersNext
  BY <1>7, <1>8, <1>9, <1>10, <1>11, <1>12, <1>18 DEF OrdersNext
<1>19. QED
  BY <1>3, <1>4, <1>5, <1>6, <1>14, <1>15, <1>16, <1>17, <1>18 DEF Next, CycleNext

\* A working close keeps its open row through reconciliation.
LEMMA CloseRowsStay ==
  ASSUME TypeInv, Accounted, Tracked, Grounded, Reconcile
  PROVE  Pending'
<1>1. /\ run.pc = "reconcile" /\ Quiet /\ ledger' = Absent(Normalized(Synced))
      /\ Placed' = Placed
  BY ReconcileSteps DEF Quiet, Placed
<1>2. ASSUME NEW k \in Placed, WorkingClose(k)
      PROVE  ledger'[k].status \in OpenAtBroker /\ ledger'[k].remaining >= 1
  <2>1. /\ k \in Orders /\ k \in run.snap.open /\ run.snap.broker[k] = broker[k] /\ HasRow(k)
    BY <1>1, <1>2, RequestFields
       DEF Tracked, Listed, WorkingClose, Grounded, Recorded, InFlight, InFlightPcs
  <2>2. Synced[k] = [status |-> broker[k].status, remaining |-> request[k].quantity - broker[k].filled]
    BY <2>1 DEF Synced
  <2>3. ledger'[k] = Synced[k]
    <3>1. Normalized(Synced)[k] = Synced[k]
      BY <1>2, <2>1 DEF Normalized, WorkingClose
    <3>2. Absent(Normalized(Synced))[k] = Normalized(Synced)[k]
      BY <1>2, <2>1 DEF Absent, WorkingClose
    <3>3. QED
      BY <1>1, <3>1, <3>2
  <2>4. broker[k].filled < request[k].quantity /\ broker[k].status \in OpenAtBroker
    BY <1>2 DEF Grounded, Unfinished, WorkingClose, Working
  <2>5. broker[k].filled \in Int /\ request[k].quantity \in Int
    BY RequestFields, ConstantsAssumption DEF BrokerRecord
  <2>6. QED
    BY <2>2, <2>3, <2>4, <2>5
<1>3. \A k \in Placed' : WorkingClose(k)' =>
        ledger'[k].status \in OpenAtBroker /\ ledger'[k].remaining >= 1
  BY <1>1, <1>2 DEF WorkingClose, Working, IsEntry, Quiet
<1>4. QED
  BY <1>3 DEF Pending

LEMMA CloseKept ==
  ASSUME TypeInv, [Next]_vars, OneWorkingClose, UNCHANGED <<placed, request>>
  PROVE  /\ OneWorkingClose' /\ Placed' = Placed
         /\ \A k \in Placed : /\ WorkingClose(k)' => WorkingClose(k)
                              /\ IsEntry(k)' = IsEntry(k) /\ Of(k)' = Of(k)
<1>1. Placed' = Placed
  BY DEF Placed
<1>2. \A k \in Placed : /\ WorkingClose(k)' => WorkingClose(k)
                        /\ IsEntry(k)' = IsEntry(k) /\ Of(k)' = Of(k)
  BY BrokerMoved DEF WorkingClose, Working, IsEntry, Of
<1>3. \A j, k \in Placed' :
        WorkingClose(j)' /\ WorkingClose(k)' /\ request'[j].parent = request'[k].parent => j = k
  BY <1>1, <1>2, OneClose
<1>4. QED
  BY <1>1, <1>2, <1>3, OneCloseNext

\* A close is only sent when none of its structure works, and it is then watched.
LEMMA ClosesStep ==
  ASSUME TypeInv, Accounted, Tracked, Grounded, Tended, OneWorkingClose, [Next]_vars,
         Faults \cap {"midcycle", "async_cancel", "crash", "error"} = {}
  PROVE  Tended' /\ OneWorkingClose'
<1> USE DEF Quiet
<1> DEFINE Far == {"idle", "reading", "ingest", "reconcile", "decide", "persist_entry"}
<1>1. ASSUME run'.pc \in Far PROVE Tended'
  BY <1>1 DEF Tended, Pending, Polled, Shielded, Cleared, OrderPcs, StructurePcs
<1>2. ASSUME UNCHANGED <<placed, request>>, run'.pc \in Far PROVE Tended' /\ OneWorkingClose'
  BY <1>1, <1>2, CloseKept
<1> HIDE DEF Far
<1>3. CASE BrokerNext
  <2>1. run' = run /\ run.pc = "idle" /\ UNCHANGED <<placed, request>>
    BY <1>3, MarketSteps
  <2>2. QED
    BY <1>2, <2>1 DEF Far
<1>4. ASSUME NEW m \in Modes, BeginCycle(m) PROVE Tended' /\ OneWorkingClose'
  BY <1>2, <1>4, BeginLocals DEF Far
<1>5. ASSUME NEW S \in SUBSET Reads, Read(S) PROVE Tended' /\ OneWorkingClose'
  BY <1>2, <1>5, ReadLocals DEF Far
<1>6. CASE IngestFills
  BY <1>2, <1>6 DEF IngestFills, TypeInv, TypeOK, Run, brokerVars, Far
<1>7. CASE Reconcile
  <2>1. run'.pc = "start" /\ UNCHANGED <<placed, request>>
    BY <1>7, ReconcileSteps
  <2>2. Pending'
    BY <1>7, CloseRowsStay
  <2>3. QED
    BY <2>1, <2>2, CloseKept DEF Tended, Polled, Shielded, Cleared, OrderPcs, StructurePcs
<1>8. CASE StartLifecycle
  <2>1. /\ run.pc = "start" /\ run'.pc = "orders" /\ run'.work = PendingManaged
        /\ UNCHANGED <<placed, request>>
    BY <1>8, StartSteps
  <2>2. \A k \in Placed : WorkingClose(k)' => k \in PendingManaged
    BY <2>1, CloseKept DEF Tended, Pending, PendingManaged
  <2>3. QED
    BY <2>1, <2>2, CloseKept DEF Tended, Pending, Polled, Shielded, Cleared, OrderPcs, StructurePcs
<1>9. ASSUME NEW o \in run.work,
             PollEntryTerminal(o) \/ PollCloseCanceled(o) \/ PollCloseFilled(o) \/ PollWait(o)
      PROVE  Tended' /\ OneWorkingClose'
  <2>1. /\ run.pc = "orders" /\ run'.pc = "orders" /\ run'.work = run.work \ {o}
        /\ run.active \subseteq run'.active
        /\ ~IsEntry(o) /\ Working(o) => Of(o) \in run'.active
        /\ UNCHANGED <<placed, request>>
    BY <1>9, PollSteps
  <2>2. ASSUME NEW k \in Placed, WorkingClose(k)' PROVE k \in run'.work \/ Of(k)' \in run'.active
    BY <2>1, <2>2, CloseKept DEF Tended, Polled, OrderPcs, WorkingClose
  <2>3. QED
    BY <2>1, <2>2, CloseKept DEF Tended, Pending, Polled, Shielded, Cleared, StructurePcs
<1>10. ASSUME NEW o \in run.work, NEW a, PollCancel(o, a) PROVE Tended' /\ OneWorkingClose'
  <2>1. /\ run.pc = "orders" /\ run'.pc = "cancel" /\ run'.work = run.work \ {o}
        /\ run'.current = o /\ run'.active = run.active /\ UNCHANGED <<placed, request>>
    BY <1>10, CancelSteps
  <2>2. ASSUME NEW k \in Placed, WorkingClose(k)'
        PROVE  k \in run'.work \/ Of(k)' \in run'.active \/ k = run'.current
    BY <2>1, <2>2, CloseKept DEF Tended, Polled, OrderPcs
  <2>3. QED
    BY <2>1, <2>2, CloseKept DEF Tended, Pending, Polled, Shielded, Cleared, StructurePcs
<1>11. CASE CancelAccepted
  <2> DEFINE o == run.current
  <2>1. /\ run.pc = "cancel" /\ run'.pc \in {"orders", "replace"} /\ run'.work = run.work
        /\ run'.current = o /\ o \in Placed /\ run'.active = run.active
        /\ UNCHANGED <<placed, request>> /\ broker'[o].status = "canceled"
    BY <1>11, AcceptedSteps
  <2>2. Working(o) /\ ~WorkingClose(o)'
    BY <2>1 DEF Tracked, Followed, WorkingClose, Working, OpenAtBroker
  <2>3. ASSUME NEW k \in Placed, WorkingClose(k)' PROVE k \in run'.work \/ Of(k)' \in run'.active
    BY <2>1, <2>2, <2>3, CloseKept DEF Tended, Polled, OrderPcs
  <2>4. ASSUME ~IsEntry(o), NEW k \in Placed, WorkingClose(k)'
        PROVE  request[k].parent # request[o].parent
    <3>1. k # o /\ WorkingClose(k) /\ WorkingClose(o)
      BY <2>1, <2>2, <2>4, CloseKept DEF WorkingClose
    <3>2. QED
      BY <2>1, <3>1, OneClose
  <2>5. Polled'
    BY <2>1, <2>3, CloseKept DEF Polled
  <2>6. Cleared'
    BY <2>1, <2>4, CloseKept DEF Cleared, IsEntry
  <2>7. QED
    BY <2>1, <2>5, <2>6, CloseKept DEF Tended, Pending, Shielded, StructurePcs
<1>12. CASE PlaceReplacement
  <2> DEFINE o == run.current
             r == Replacement(o)
  <2>1. /\ r \in Request /\ Accept(r) /\ run.pc = "replace" /\ run'.pc = "persist"
        /\ o \in Placed /\ run'.current = o /\ run'.work = run.work /\ run'.active = run.active
    BY <1>12, ReplaceSteps
  <2>2. /\ r.closing = request[o].closing /\ r.parent = request[o].parent
        /\ r.candidate = request[o].candidate
    BY <2>1, RequestFields DEF Replacement, Request
  <2> HIDE DEF r
  <2> SUFFICES ASSUME NEW n, n = placed' PROVE Tended' /\ OneWorkingClose'
    OBVIOUS
  <2>3. /\ n \notin Placed /\ Placed' = Placed \cup {n} /\ request'[n] = r
        /\ \A p \in Placed : request'[p] = request[p]
        /\ broker' = broker
    BY <2>1, NewOrder
  <2>4. /\ \A k \in Placed : WorkingClose(k)' = WorkingClose(k) /\ Of(k)' = Of(k)
        /\ WorkingClose(n)' => ~IsEntry(o)
        /\ Of(n)' = Of(o)
    BY <2>2, <2>3 DEF WorkingClose, Working, IsEntry, Of
  <2>5. Polled'
    BY <2>1, <2>3, <2>4 DEF Tended, Polled, OrderPcs
  <2>6. \A j, k \in Placed' :
          WorkingClose(j)' /\ WorkingClose(k)' /\ request'[j].parent = request'[k].parent => j = k
    <3>1. ASSUME NEW k \in Placed, WorkingClose(k)', WorkingClose(n)'
          PROVE  request'[k].parent # request'[n].parent
      BY <2>1, <2>2, <2>3, <2>4, <3>1 DEF Tended, Cleared
    <3>2. ASSUME NEW j \in Placed, NEW k \in Placed, WorkingClose(j)', WorkingClose(k)',
                 request'[j].parent = request'[k].parent
          PROVE  j = k
      BY <2>3, <2>4, <3>2, OneClose
    <3>3. QED
      BY <2>3, <3>1, <3>2
  <2>7. QED
    BY <2>1, <2>5, <2>6, OneCloseNext DEF Tended, Pending, Shielded, Cleared, StructurePcs
<1>13. CASE ReplacementExists \/ PersistReplacement
  <2>1. /\ run.pc \in {"replace", "persist"} /\ run'.pc = "orders" /\ run'.work = run.work
        /\ run'.active = run.active \cup {Of(run.current)}
        /\ UNCHANGED <<placed, request>>
    BY <1>13, SettledSteps
  <2>2. ASSUME NEW k \in Placed, WorkingClose(k)' PROVE k \in run'.work \/ Of(k)' \in run'.active
    BY <2>1, <2>2, CloseKept DEF Tended, Polled, OrderPcs
  <2>3. QED
    BY <2>1, <2>2, CloseKept DEF Tended, Pending, Polled, Shielded, Cleared, StructurePcs
<1>14. CASE EndOrders
  <2>1. /\ run.pc = "orders" /\ run.work = {} /\ run'.pc = "structures"
        /\ run'.active = run.active /\ UNCHANGED <<placed, request>>
    BY <1>14, EndOrdersSteps
  <2>2. \A k \in Placed : WorkingClose(k)' => Of(k)' \in run'.active
    BY <2>1, CloseKept DEF Tended, Polled, OrderPcs
  <2>3. QED
    BY <2>1, <2>2, CloseKept DEF Tended, Pending, Polled, Shielded, Cleared, OrderPcs
<1>15. ASSUME UNCHANGED <<placed, request>>, run.pc \in StructurePcs,
              run'.pc \in StructurePcs \cup {"decide"},
              run'.active = run.active, run'.work \subseteq run.work
       PROVE  Tended' /\ OneWorkingClose'
  <2>1. run'.pc \in StructurePcs => Shielded'
    BY <1>15, CloseKept DEF Tended, Shielded
  <2>2. QED
    BY <1>15, <2>1, CloseKept DEF Tended, Pending, Polled, Shielded, Cleared, OrderPcs, StructurePcs
<1>16. ASSUME NEW o \in run.work, PlaceClose(o) PROVE Tended' /\ OneWorkingClose'
  <2> DEFINE r == CloseRequest(o)
  <2>1. /\ r \in Request /\ Accept(r) /\ run.pc = "structures" /\ run'.pc = "persist_close"
        /\ run'.work = run.work \ {o} /\ run'.active = run.active
        /\ o \in Placed /\ Of(o) \notin run.active
        /\ r.parent = o /\ r.candidate = Of(o)
    BY <1>16, CloseSteps DEF CloseRequest
  <2> HIDE DEF r
  <2> SUFFICES ASSUME NEW n, n = placed' PROVE Tended' /\ OneWorkingClose'
    OBVIOUS
  <2>2. /\ n \notin Placed /\ Placed' = Placed \cup {n} /\ request'[n] = r
        /\ \A p \in Placed : request'[p] = request[p]
        /\ broker' = broker
    BY <2>1, NewOrder
  <2>3. \A k \in Placed : WorkingClose(k)' = WorkingClose(k) /\ Of(k)' = Of(k)
    BY <2>2 DEF WorkingClose, Working, IsEntry, Of
  <2>4. ASSUME NEW k \in Placed, WorkingClose(k) PROVE request[k].parent # o
    <3>1. Of(k) \in run.active \/ request[k].parent \notin run.work
      BY <2>1, <2>4 DEF Tended, Shielded, StructurePcs
    <3>2. Of(request[k].parent) = Of(k)
      BY <2>4 DEF Grounded, Parented, WorkingClose
    <3>3. QED
      BY <2>1, <3>1, <3>2
  <2>5. Shielded'
    BY <2>1, <2>2, <2>3 DEF Tended, Shielded, StructurePcs
  <2>6. \A j, k \in Placed' :
          WorkingClose(j)' /\ WorkingClose(k)' /\ request'[j].parent = request'[k].parent => j = k
    <3>1. ASSUME NEW k \in Placed, WorkingClose(k)' PROVE request'[k].parent # request'[n].parent
      BY <2>1, <2>2, <2>3, <2>4, <3>1
    <3>2. ASSUME NEW j \in Placed, NEW k \in Placed, WorkingClose(j)', WorkingClose(k)',
                 request'[j].parent = request'[k].parent
          PROVE  j = k
      BY <2>2, <2>3, <3>2, OneClose
    <3>3. QED
      BY <2>2, <3>1, <3>2
  <2>7. QED
    BY <2>1, <2>5, <2>6, OneCloseNext DEF Tended, Pending, Polled, Cleared, OrderPcs
<1>17. CASE StructuresNext
  <2>1. CASE PersistClose \/ MarkClosing \/ EndStructures
    BY <1>15, <2>1, ClosingSteps DEF StructurePcs
  <2>2. ASSUME NEW o \in run.work,
               \/ StructureSkipped(o) \/ StructureFlat(o) \/ StructureReduced(o) \/ StructureHeld(o)
               \/ CloseExists(o) \/ CloseWithoutQuotes(o)
        PROVE  Tended' /\ OneWorkingClose'
    BY <1>15, <2>2, JudgeSteps DEF StructurePcs
  <2>3. QED
    BY <1>16, <1>17, <2>1, <2>2 DEF StructuresNext
<1>18. ASSUME NEW c \in Candidates, NEW q \in 1..MaxQty, PlaceEntry(c, q)
       PROVE  Tended' /\ OneWorkingClose'
  <2> DEFINE r == EntryRequest(c, q)
  <2>1. r \in Request /\ Accept(r) /\ run'.pc = "persist_entry" /\ ~r.closing
    BY <1>18, EntrySteps DEF EntryRequest
  <2> HIDE DEF r
  <2> SUFFICES ASSUME NEW n, n = placed' PROVE Tended' /\ OneWorkingClose'
    OBVIOUS
  <2>2. /\ n \notin Placed /\ Placed' = Placed \cup {n} /\ request'[n] = r
        /\ \A p \in Placed : request'[p] = request[p]
        /\ broker' = broker
    BY <2>1, NewOrder
  <2>3. /\ \A k \in Placed : WorkingClose(k)' = WorkingClose(k)
        /\ ~WorkingClose(n)'
    BY <2>1, <2>2 DEF WorkingClose, Working, IsEntry
  <2>4. \A j, k \in Placed' :
          WorkingClose(j)' /\ WorkingClose(k)' /\ request'[j].parent = request'[k].parent => j = k
    BY <2>2, <2>3, OneClose
  <2>5. QED
    BY <1>1, <2>1, <2>4, OneCloseNext DEF Far
<1>19. CASE PersistEntry \/ Abstain \/ FailClosed \/ Crash
  BY <1>2, <1>19, EndSteps DEF Far
<1>20. CASE ClearKillSwitch \/ Done \/ UNCHANGED vars
  <2>1. UNCHANGED <<placed, request, broker, ledger, run>>
    BY <1>20 DEF ClearKillSwitch, Done, vars, brokerVars
  <2>2. QED
    BY <2>1, CloseKept DEF Tended, Pending, Polled, Shielded, Cleared, WorkingClose, Working,
       IsEntry, Of
<1>21. CASE OrdersNext
  BY <1>9, <1>10, <1>11, <1>12, <1>13, <1>14, <1>21 DEF OrdersNext
<1>22. QED
  BY <1>3, <1>4, <1>5, <1>6, <1>7, <1>8, <1>17, <1>18, <1>19, <1>20, <1>21 DEF Next, CycleNext

\* Nothing is sold twice: at most one close of a structure works at the broker
\* (OneWorkingClose: the active candidates of service.py _maintain_order_lifecycle),
\* as long as the broker moves only between cycles, ends an order with the call that
\* cancels it, and no worker is lost between a submission and its row.  Torn reads and
\* assignments do no harm.
THEOREM ClosesOneAtATime ==
  ASSUME Faults \cap {"midcycle", "async_cancel", "crash", "error"} = {}
  PROVE  Spec => []OneWorkingClose
<1> DEFINE Inv == Tracked /\ Grounded /\ Tended /\ OneWorkingClose
<1>1. Init => Inv
  BY DEF Init, Tracked, Rooted, Listed, Matched, Followed, Grounded, Recorded, Unfinished, Parented,
     Tended, Pending, Polled, Shielded, Cleared, OneWorkingClose, Placed, Idle, OrderPcs, StructurePcs
<1>2. TypeInv /\ Accounted /\ TypeInv' /\ Inv /\ [Next]_vars => Inv'
  BY TrackedStep, RecordedStep, UnfinishedStep, ParentedStep, ClosesStep DEF Grounded
<1>3. QED
  BY <1>1, <1>2, Inductive, PTL DEF Spec, IInv

(***************************************************************************)
(* Entries only where nothing is left of the last one.                     *)
(***************************************************************************)
Spent(o) == broker[o].status \in Terminal /\ broker[o].filled = 0
Owning == OpenAtBroker \cup Established

\* A held contract was bought by an entry, and what traded has an activity.
Sourced ==
  /\ \A c \in Candidates, l \in Legs :
       position[c][l] > 0 => \E o \in Placed : IsEntry(o) /\ Of(o) = c /\ broker[o].filled > 0
  /\ \A o \in Placed : broker[o].filled > 0 => fills[o] # {}
\* An order the listing lacks has ended; if it traded, the cycle read its activities,
\* and its row says so once they are ingested.
Reviewed ==
  run.pc \in {"ingest", "reconcile"} => \A o \in Placed :
    \/ o \in run.snap.open /\ run.snap.broker[o].status \in OpenAtBroker
    \/ /\ o \notin run.snap.open /\ broker[o].status \in Terminal
       /\ broker[o].filled > 0 =>
            /\ run.snap.fills[o] # {}
            /\ run.pc = "reconcile" => ledger[o].status \in {"filled", "partially_filled"}
\* A candidate the cycle counted an entry row of, pending or held.
Busy(c) == c \in run.pending \/ run.open[c] # 0
\* From then on an entry whose candidate is not busy has ended with nothing bought.
Occupied ==
  /\ run.pc \notin Before \cup {"persist_entry"} =>
       \A o \in Placed : IsEntry(o) /\ ~Busy(Of(o)) => Spent(o)
  /\ run.pc = "start" =>
       \A o \in Placed : IsEntry(o) /\ ledger[o].status \in OpenAtBroker => Busy(Of(o))
  /\ run.pc \in OrderPcs => \A o \in run.work : IsEntry(o) => Busy(Of(o))
  /\ run.pc \in {"cancel", "replace", "persist"} /\ IsEntry(run.current) =>
       Busy(Of(run.current))
Explained == Recorded /\ Sourced /\ Reviewed /\ Occupied

LEMMA SourcedStep ==
  ASSUME TypeInv, TypeInv', Sourced, [Next]_vars
  PROVE  Sourced'
<1> DEFINE Traded(o) == broker[o].filled > 0
<1>1. ASSUME UNCHANGED <<placed, request>>,
             \A o \in Placed : Traded(o) => Traded(o)',
             \A c \in Candidates, l \in Legs : position'[c][l] > 0 =>
                \/ position[c][l] > 0
                \/ \E o \in Placed : IsEntry(o) /\ Of(o) = c /\ Traded(o)',
             \A o \in Placed : Traded(o)' => fills'[o] # {}
      PROVE  Sourced'
  BY <1>1 DEF Sourced, Placed, IsEntry, Of
<1>2. /\ broker \in [Orders -> BrokerRecord] /\ fills \in [Orders -> SUBSET (0..MaxQty)]
      /\ position \in [Candidates -> [Legs -> Nat]]
      /\ \A o \in Placed : o \in Orders /\ broker[o].filled \in Nat /\ Of(o) \in Candidates
  BY RequestFields, ConstantsAssumption DEF TypeInv, TypeOK, BrokerRecord
<1>3. ASSUME NEW o \in Placed, NEW k \in 1..MaxQty, Fill(o, k) PROVE Sourced'
  <2> DEFINE left == request[o].quantity - broker[o].filled
             now == IF k = left THEN "filled"
                    ELSE IF broker[o].status = "new" THEN "partially_filled" ELSE broker[o].status
  <2>1. /\ broker' = [broker EXCEPT ![o] = [filled |-> broker[o].filled + k, status |-> now]]
        /\ fills' = [fills EXCEPT ![o] = @ \cup {left - k}]
        /\ position' = [position EXCEPT ![Of(o)] =
              [l \in Legs |-> IF IsEntry(o) THEN @[l] + k ELSE @[l] - k]]
        /\ UNCHANGED <<placed, request>>
    BY <1>3 DEF Fill
  <2>2. k \in Nat /\ k > 0
    BY <1>3, ConstantsAssumption
  <2> HIDE DEF left, now
  <2>3. /\ broker'[o].filled = broker[o].filled + k /\ \A p \in Placed : p # o => broker'[p] = broker[p]
        /\ fills'[o] # {} /\ \A p \in Placed : p # o => fills'[p] = fills[p]
    BY <1>2, <2>1
  <2>4. \A p \in Placed : (Traded(p) => Traded(p)') /\ (Traded(p)' => fills'[p] # {})
    BY <1>2, <2>2, <2>3 DEF Sourced
  <2>5. ASSUME NEW c \in Candidates, NEW l \in Legs, position'[c][l] > 0
        PROVE  \/ position[c][l] > 0
               \/ \E p \in Placed : IsEntry(p) /\ Of(p) = c /\ Traded(p)'
    <3>1. CASE Of(o) # c
      BY <1>2, <2>1, <2>5, <3>1
    <3>2. CASE Of(o) = c /\ IsEntry(o)
      BY <1>2, <2>2, <2>3, <3>2
    <3>3. CASE Of(o) = c /\ ~IsEntry(o)
      <4>1. position'[c][l] = position[c][l] - k /\ position[c][l] \in Nat
        BY <1>2, <2>1, <3>3
      <4>2. QED
        BY <2>2, <2>5, <4>1
    <3>4. QED
      BY <3>1, <3>2, <3>3
  <2>6. QED
    BY <1>1, <2>1, <2>4, <2>5
<1>4. ASSUME NEW o \in Placed, Lapse(o) PROVE Sourced'
  <2>1. \A p \in Placed : broker'[p].filled = broker[p].filled
    BY <1>2, <1>4 DEF Lapse, BrokerRecord
  <2>2. UNCHANGED <<placed, request, fills, position>>
    BY <1>4 DEF Lapse
  <2>3. QED
    BY <2>1, <2>2 DEF Sourced, Placed, IsEntry, Of
<1>5. ASSUME NEW c \in Candidates, NEW l \in Legs, Reduce(c, l) PROVE Sourced'
  <2>1. /\ position' = [position EXCEPT ![c][l] = @ - 1] /\ position[c][l] > 0
        /\ UNCHANGED <<placed, request, broker, fills>>
    BY <1>5 DEF Reduce
  <2>2. \A d \in Candidates, m \in Legs : position'[d][m] > 0 => position[d][m] > 0
    BY <1>2, <2>1
  <2>3. QED
    BY <2>1, <2>2 DEF Sourced, Placed, IsEntry, Of
<1>6. CASE CancelAccepted
  <2>1. /\ \A p \in Placed : broker'[p].filled = broker[p].filled
        /\ UNCHANGED <<placed, request, fills, position>>
    BY <1>2, <1>6, AcceptedSteps
  <2>2. QED
    BY <2>1 DEF Sourced, Placed, IsEntry, Of
<1>7. CASE BrokerNext
  BY <1>3, <1>4, <1>5, <1>7 DEF BrokerNext
<1>8. CASE UNCHANGED <<placed, request, broker, fills, position>>
  BY <1>8 DEF Sourced, Placed, IsEntry, Of
<1>9. ASSUME NEW r \in Request, Submits(r) PROVE Sourced'
  <2>1. /\ Placed' = Placed \cup {placed + 1} /\ broker[placed + 1].filled = 0
        /\ \A o \in Placed : request'[o] = request[o]
        /\ broker' = broker /\ fills' = fills /\ position' = position
    BY <1>9, AcceptExtends DEF Submits, TypeInv, Bounded
  <2>2. \A o \in Placed : IsEntry(o)' = IsEntry(o) /\ Of(o)' = Of(o)
    BY <2>1 DEF IsEntry, Of
  <2>3. \A c \in Candidates, l \in Legs : position'[c][l] > 0 =>
          \E o \in Placed' : IsEntry(o)' /\ Of(o)' = c /\ broker'[o].filled > 0
    BY <2>1, <2>2 DEF Sourced
  <2>4. \A o \in Placed' : broker'[o].filled > 0 => fills'[o] # {}
    BY <2>1 DEF Sourced
  <2>5. QED
    BY <2>3, <2>4 DEF Sourced
<1>10. QED
  BY <1>6, <1>7, <1>8, <1>9, BrokerMoved, SubmissionsAreChecked

LEMMA ReviewedStep ==
  ASSUME TypeInv, Recorded, Sourced, Reviewed, [Next]_vars, "torn_read" \notin Faults
  PROVE  Reviewed'
<1> USE DEF Quiet
<1>1. CASE run'.pc \notin {"ingest", "reconcile"}
  BY <1>1 DEF Reviewed
<1>2. CASE run' = run /\ UNCHANGED <<placed, ledger>>
  <2>1. Placed' = Placed
    BY <1>2 DEF Placed
  <2>2. \A o \in Placed : broker[o].status \in Terminal => broker'[o] = broker[o]
    BY TerminalStays
  <2>3. QED
    BY <1>2, <2>1, <2>2 DEF Reviewed
<1>3. ASSUME NEW S \in SUBSET Reads, Read(S) PROVE Reviewed'
  <2>1. S = Reads
    BY <1>3 DEF Read
  <2>2. /\ run'.snap.open = {o \in Placed : Working(o)}
        /\ \A o \in run'.snap.open : run'.snap.broker[o] = broker[o]
        /\ run'.snap.fills = fills /\ Quiet /\ run'.pc \in {"reading", "ingest"}
    BY <1>3, <2>1, ListSteps, ReadLocals, ZenonT(40) DEF Reads
  <2>3. \A o \in Placed : Working(o) \/ broker[o].status \in Terminal
    BY RequestFields DEF BrokerRecord, Working
  <2>4. Placed' = Placed
    BY <2>2 DEF Placed
  <2>5. QED
    BY <2>2, <2>3, <2>4 DEF Reviewed, Sourced, Working
<1>4. CASE IngestFills
  <2>1. run.pc = "ingest" /\ run'.pc = "reconcile" /\ run'.snap = run.snap /\ Quiet
    BY <1>4 DEF IngestFills, TypeInv, TypeOK, Run, brokerVars
  <2>2. ASSUME NEW o \in Placed, run.snap.fills[o] # {}
        PROVE  ledger'[o].status \in {"filled", "partially_filled"}
    <3>1. o \in Orders /\ HasRow(o)
      BY <2>1, RequestFields DEF Recorded, InFlight, InFlightPcs
    <3>2. QED
      BY <1>4, <2>2, <3>1 DEF IngestFills
  <2>3. Placed' = Placed
    BY <2>1 DEF Placed
  <2>4. QED
    BY <2>1, <2>2, <2>3 DEF Reviewed
<1>5. CASE BrokerNext \/ ClearKillSwitch \/ Done \/ UNCHANGED vars
  BY <1>2, <1>5, MarketSteps DEF ClearKillSwitch, Done, vars, brokerVars
<1>6. ASSUME NEW m \in Modes, BeginCycle(m) PROVE Reviewed'
  BY <1>1, <1>6, BeginLocals
<1>7. CASE Reconcile \/ StartLifecycle
  BY <1>1, <1>7, ReconcileSteps, StartSteps
<1>8. CASE OrdersNext
  BY <1>1, <1>8, OrdersLocals DEF Onward, OrderPcs
<1>9. CASE StructuresNext
  BY <1>1, <1>9, StructuresLocals DEF Onward, StructurePcs
<1>10. ASSUME NEW c \in Candidates, NEW q \in 1..MaxQty, PlaceEntry(c, q) PROVE Reviewed'
  BY <1>1, <1>10, EntrySteps
<1>11. CASE PersistEntry \/ Abstain \/ FailClosed \/ Crash
  BY <1>1, <1>11, EndSteps
<1>12. QED
  BY <1>3, <1>4, <1>5, <1>6, <1>7, <1>8, <1>9, <1>10, <1>11 DEF Next, CycleNext

\* Reconciliation never takes the exposure of an open or filled row away.
LEMMA ExposureStays ==
  ASSUME TypeInv, NEW o \in Orders, Synced[o].status \in OpenAtBroker \cup {"filled"}
  PROVE  Absent(Normalized(Synced))[o].status \in Owning
<1> DEFINE normal == Normalized(Synced)[o]
           final == Absent(Normalized(Synced))[o]
<1>1. normal = Synced[o] \/ normal.status = "filled"
  BY DEF Normalized
<1>2. normal.status # "closing" /\ normal.status \in Owning
  BY <1>1 DEF OpenAtBroker, Owning, Established
<1>3. final = normal \/ normal.status = "closing"
  BY DEF Absent
<1> HIDE DEF normal, final
<1>4. final.status \in Owning
  BY <1>2, <1>3
<1>5. QED
  BY <1>4 DEF final

LEMMA OccupiedAtStart ==
  ASSUME TypeInv, Recorded, Reviewed, Reconcile
  PROVE  Occupied'
<1>1. /\ run.pc = "reconcile" /\ run'.pc = "start" /\ Quiet /\ Placed' = Placed
      /\ ledger' = Absent(Normalized(Synced))
      /\ run'.pending = {c \in Candidates : EntriesIn(ledger', c, OpenAtBroker) # {}}
      /\ run'.open = [c \in Candidates |->
            Cardinality(EntriesIn(ledger', c, Established \cup {"partially_filled"}))]
  BY ReconcileSteps DEF Quiet, Placed
<1>2. ASSUME NEW o \in Placed, IsEntry(o), ledger'[o].status \in Owning PROVE Busy(Of(o))'
  <2> DEFINE c == Of(o)
             held == EntriesIn(ledger', c, Established \cup {"partially_filled"})
  <2>1. c \in Candidates /\ c = Of(o)'
    BY <1>1, RequestFields DEF Quiet, Of
  <2>2. CASE ledger'[o].status \in OpenAtBroker
    <3>1. o \in EntriesIn(ledger', c, OpenAtBroker)
      BY <1>2, <2>2 DEF EntriesIn
    <3>2. QED
      BY <1>1, <2>1, <3>1 DEF Busy
  <2>3. CASE ledger'[o].status \in Established
    <3>1. o \in held /\ held \in SUBSET Placed
      BY <1>2, <2>3 DEF EntriesIn
    <3>2. Cardinality(held) # 0
      BY <3>1, PlacedCounted, FS_EmptySet
    <3>3. run'.open[c] = Cardinality(held)
      BY <1>1, <2>1
    <3>4. QED
      BY <2>1, <3>2, <3>3 DEF Busy
  <2>4. QED
    BY <1>2, <2>2, <2>3 DEF Owning
<1>3. ASSUME NEW o \in Placed, ~Spent(o) PROVE ledger'[o].status \in Owning
  <2>1. o \in Orders /\ HasRow(o) /\ broker[o].filled \in Nat
    BY <1>1, RequestFields, ConstantsAssumption
       DEF Recorded, InFlight, InFlightPcs, BrokerRecord
  <2>2. CASE o \in run.snap.open /\ run.snap.broker[o].status \in OpenAtBroker
    <3>1. Synced[o].status \in OpenAtBroker
      BY <2>1, <2>2 DEF Synced
    <3>2. QED
      BY <1>1, <2>1, <3>1, ExposureStays
  <2>3. CASE o \notin run.snap.open /\ ledger[o].status \in {"filled", "partially_filled"}
    <3>1. Synced[o].status \in OpenAtBroker \cup {"filled"}
      BY <2>1, <2>3 DEF Synced, OpenAtBroker
    <3>2. QED
      BY <1>1, <2>1, <3>1, ExposureStays
  <2>4. QED
    BY <1>1, <1>3, <2>1, <2>2, <2>3 DEF Reviewed, Spent
<1>4. \A o \in Placed : IsEntry(o) /\ ~Busy(Of(o))' => Spent(o)
  BY <1>2, <1>3
<1>5. \A o \in Placed : IsEntry(o) /\ ledger'[o].status \in OpenAtBroker => Busy(Of(o))'
  BY <1>2 DEF Owning
<1>6. QED
  BY <1>1, <1>4, <1>5 DEF Occupied, Spent, IsEntry, Of, OrderPcs, Quiet

LEMMA OccupiedStep ==
  ASSUME TypeInv, Recorded, Reviewed, Occupied, [Next]_vars
  PROVE  Occupied'
<1> USE DEF Quiet, Listing, Busy
<1>1. ASSUME UNCHANGED <<placed, request, run.pending, run.open>>,
             run.pc \notin Before \cup {"persist_entry"}
      PROVE  \A o \in Placed' : IsEntry(o)' /\ ~Busy(Of(o))' => Spent(o)'
  <2>1. \A o \in Placed : Spent(o) => Spent(o)'
    BY TerminalStays DEF Spent
  <2>2. QED
    BY <1>1, <2>1 DEF Occupied, Placed, IsEntry, Of
<1>2. CASE run'.pc \in Before \cup {"persist_entry"}
  BY <1>2 DEF Occupied, Before, OrderPcs
<1>3. CASE /\ run'.pc \in StructurePcs \cup {"decide"} /\ UNCHANGED <<placed, request>>
           /\ UNCHANGED <<run.pending, run.open>> /\ run.pc \in OrderPcs \cup StructurePcs
  BY <1>1, <1>3 DEF Occupied, Before, OrderPcs, StructurePcs
<1>4. CASE run' = run /\ UNCHANGED <<placed, request, ledger>>
  <2>1. CASE run.pc \in Before \cup {"persist_entry"}
    BY <1>2, <1>4, <2>1
  <2>2. CASE run.pc \notin Before \cup {"persist_entry"}
    BY <1>1, <1>4, <2>2 DEF Occupied, Placed, IsEntry, Of
  <2>3. QED
    BY <2>1, <2>2
<1>5. ASSUME NEW r \in Request, Accept(r), UNCHANGED <<run.pending, run.open>>, run'.work \subseteq run.work,
             run'.current = run.current,
             \/ run.pc \in OrderPcs /\ run'.pc = "persist"
             \/ run.pc \in StructurePcs /\ run'.pc \in StructurePcs,
             run'.pc = "persist" => run.pc = "replace",
             ~r.closing => Busy(r.candidate)
      PROVE  Occupied'
  <2> SUFFICES ASSUME NEW n, n = placed' PROVE Occupied'
    OBVIOUS
  <2>1. /\ n \notin Placed /\ Placed' = Placed \cup {n} /\ request'[n] = r
        /\ \A o \in Placed : request'[o] = request[o]
        /\ broker' = broker /\ run.work \subseteq Placed
    BY <1>5, NewOrder
  <2>2. \A o \in Placed : IsEntry(o)' = IsEntry(o) /\ Of(o)' = Of(o) /\ Spent(o)' = Spent(o)
    BY <2>1 DEF IsEntry, Of, Spent
  <2>3. IsEntry(n)' => Busy(Of(n)')
    BY <1>5, <2>1 DEF IsEntry, Of
  <2>4. run.pc \notin Before \cup {"persist_entry"}
    BY <1>5 DEF Before, OrderPcs, StructurePcs
  <2>5. \A o \in Placed' : IsEntry(o)' /\ ~Busy(Of(o))' => Spent(o)'
    BY <1>5, <2>1, <2>2, <2>3, <2>4 DEF Occupied
  <2>6. run.pc \in OrderPcs => \A o \in run'.work : IsEntry(o)' => Busy(Of(o))'
    BY <1>5, <2>1, <2>2 DEF Occupied
  <2>7. run'.pc = "persist" => run.current \in Placed /\ (IsEntry(run.current) => Busy(Of(run.current)))
    BY <1>5 DEF Occupied, TypeInv, WorkLeft
  <2>8. (run.pc = "persist" /\ IsEntry(run.current) => Busy(Of(run.current)))'
    BY <1>5, <2>1, <2>7 DEF IsEntry, Of
  <2>9. QED
    BY <1>5, <2>5, <2>6, <2>8 DEF Occupied, OrderPcs, StructurePcs, Before
<1>6. ASSUME UNCHANGED <<placed, request, run.pending, run.open>>, run.pc \in OrderPcs,
             run'.pc \in OrderPcs, run'.work \subseteq run.work,
             run'.pc \in {"cancel", "replace", "persist"} /\ IsEntry(run'.current) =>
               Busy(Of(run'.current))
      PROVE  Occupied'
  <2>1. run.pc \notin Before \cup {"persist_entry"} /\ run'.pc # "start"
    BY <1>6 DEF Before, OrderPcs
  <2>2. QED
    BY <1>1, <1>6, <2>1 DEF Occupied, IsEntry, Of
<1>7. CASE StartLifecycle
  <2>1. /\ run.pc = "start" /\ run'.pc = "orders" /\ run'.work = PendingManaged
        /\ UNCHANGED <<run.pending, run.open>> /\ UNCHANGED <<placed, request>>
    BY <1>7, StartSteps
  <2>2. \A o \in run'.work : IsEntry(o) => Busy(Of(o))
    BY <2>1 DEF Occupied, PendingManaged
  <2>3. QED
    BY <1>1, <2>1, <2>2 DEF Occupied, Before, IsEntry, Of
<1>8. ASSUME NEW o \in run.work,
             PollEntryTerminal(o) \/ PollCloseCanceled(o) \/ PollCloseFilled(o) \/ PollWait(o)
      PROVE  Occupied'
  BY <1>6, <1>8, PollSteps DEF OrderPcs
<1>9. ASSUME NEW o \in run.work, NEW a, PollCancel(o, a) PROVE Occupied'
  <2>1. IsEntry(o) => Busy(Of(o))
    BY <1>9, CancelSteps DEF Occupied, OrderPcs
  <2>2. QED
    BY <1>6, <1>9, <2>1, CancelSteps DEF OrderPcs
<1>10. CASE CancelAccepted
  BY <1>6, <1>10, AcceptedSteps DEF Occupied, OrderPcs
<1>11. CASE PlaceReplacement
  <2> DEFINE o == run.current
             r == Replacement(o)
  <2>1. /\ r \in Request /\ Accept(r) /\ run.pc = "replace" /\ run'.pc = "persist"
        /\ o \in Placed /\ run'.current = o /\ run'.work = run.work /\ UNCHANGED <<run.pending, run.open>>
    BY <1>11, ReplaceSteps
  <2>2. ~r.closing => Busy(r.candidate)
    BY <2>1, RequestFields DEF Replacement, Request, Occupied, IsEntry, Of
  <2> HIDE DEF r
  <2>3. QED
    BY <1>5, <2>1, <2>2 DEF OrderPcs
<1>12. CASE ReplacementExists \/ PersistReplacement
  BY <1>6, <1>12, SettledSteps DEF OrderPcs
<1>13. ASSUME NEW o \in run.work, PlaceClose(o) PROVE Occupied'
  <2>1. /\ CloseRequest(o) \in Request /\ Accept(CloseRequest(o)) /\ CloseRequest(o).closing
        /\ run.pc = "structures" /\ run'.pc = "persist_close"
        /\ run'.work \subseteq run.work /\ UNCHANGED <<run.pending, run.open>>
    BY <1>13, CloseSteps DEF CloseRequest
  <2> DEFINE r == CloseRequest(o)
  <2> HIDE DEF r
  <2> SUFFICES ASSUME NEW n, n = placed' PROVE Occupied'
    OBVIOUS
  <2>2. /\ Placed' = Placed \cup {n} /\ request'[n] = r
        /\ \A p \in Placed : request'[p] = request[p]
        /\ broker' = broker
    BY <2>1, NewOrder DEF r
  <2>3. \A p \in Placed : IsEntry(p)' = IsEntry(p) /\ Of(p)' = Of(p) /\ Spent(p)' = Spent(p)
    BY <2>2 DEF IsEntry, Of, Spent
  <2>4. ~IsEntry(n)'
    BY <2>1, <2>2 DEF IsEntry, r
  <2>5. QED
    BY <2>1, <2>2, <2>3, <2>4 DEF Occupied, Before, OrderPcs
<1>14. CASE EndOrders
  BY <1>3, <1>14, EndOrdersSteps DEF OrderPcs, StructurePcs
<1>15. CASE StructuresNext
  <2>1. CASE PersistClose \/ MarkClosing \/ EndStructures
    BY <1>3, <2>1, ClosingSteps DEF StructurePcs
  <2>2. ASSUME NEW o \in run.work,
               \/ StructureSkipped(o) \/ StructureFlat(o) \/ StructureReduced(o) \/ StructureHeld(o)
               \/ CloseExists(o) \/ CloseWithoutQuotes(o)
        PROVE  Occupied'
    BY <1>3, <2>2, JudgeSteps DEF StructurePcs
  <2>3. QED
    BY <1>13, <1>15, <2>1, <2>2 DEF StructuresNext
<1>16. CASE OrdersNext
  BY <1>8, <1>9, <1>10, <1>11, <1>12, <1>14, <1>16 DEF OrdersNext
<1>17. CASE Reconcile
  BY <1>17, OccupiedAtStart
<1>18. CASE BrokerNext \/ ClearKillSwitch \/ Done \/ UNCHANGED vars
  BY <1>4, <1>18, MarketSteps DEF ClearKillSwitch, Done, vars, brokerVars
<1>19. ASSUME NEW m \in Modes, BeginCycle(m) PROVE Occupied'
  BY <1>2, <1>19, BeginLocals DEF Before
<1>20. ASSUME NEW S \in SUBSET Reads, Read(S) PROVE Occupied'
  BY <1>2, <1>20, ReadLocals DEF Before
<1>21. CASE IngestFills
  BY <1>2, <1>21 DEF IngestFills, TypeInv, TypeOK, Run, Before
<1>22. ASSUME NEW c \in Candidates, NEW q \in 1..MaxQty, PlaceEntry(c, q) PROVE Occupied'
  BY <1>2, <1>22, EntrySteps
<1>23. CASE PersistEntry \/ Abstain \/ FailClosed \/ Crash
  BY <1>2, <1>23, EndSteps DEF Before
<1>24. QED
  BY <1>7, <1>15, <1>16, <1>17, <1>18, <1>19, <1>20, <1>21, <1>22, <1>23 DEF Next, CycleNext

\* Before the last day a second entry in a candidate is submitted only once nothing of the
\* first is held or works at the broker (EntryOnlyWhenClear: reconcile_broker_state and the
\* exclusion of candidates with exposure in _portfolio_candidate_exclusions), even while
\* the broker moves during the cycle and whatever the overrides of later cycles admit, as
\* long as a cycle reads the broker at one time and no worker is lost between a submission
\* and its row.
THEOREM EntriesOnlyWhenClear ==
  ASSUME Faults \cap {"torn_read", "crash", "error"} = {}
  PROVE  Spec => EntryOnlyWhenClear
<1> DEFINE Clear == \A c \in Candidates, q \in 1..MaxQty :
                      PlaceEntry(c, q) /\ run.mode.window = "ordinary" =>
                        /\ \A l \in Legs : position[c][l] = 0
                        /\ \A o \in EntriesOf(c) : broker[o].status \in Terminal
<1>1. Init => Explained
  BY DEF Init, Explained, Recorded, Sourced, Reviewed, Occupied, Before, Placed, Idle, Flat, OrderPcs
<1>2. TypeInv /\ TypeInv' /\ Explained /\ [Next]_vars => Explained'
  BY RecordedStep, SourcedStep, ReviewedStep, OccupiedStep DEF Explained
<1>3. TypeInv /\ Explained => Clear
  <2> SUFFICES ASSUME TypeInv, Explained, NEW c \in Candidates, NEW q \in 1..MaxQty, PlaceEntry(c, q),
                      run.mode.window = "ordinary"
               PROVE  /\ \A l \in Legs : position[c][l] = 0
                      /\ \A o \in EntriesOf(c) : broker[o].status \in Terminal
    OBVIOUS
  <2>1. run.pc = "decide" /\ ~Busy(c)
    BY DEF PlaceEntry, EntryApproved, Admitted, Busy
  <2>2. \A o \in EntriesOf(c) : Spent(o)
    BY <2>1 DEF Explained, Occupied, Before, EntriesOf
  <2>3. ASSUME NEW l \in Legs PROVE position[c][l] = 0
    <3>1. ~(position[c][l] > 0)
      BY <2>2 DEF Explained, Sourced, Spent, EntriesOf
    <3>2. position[c][l] \in Nat
      BY DEF TypeInv, TypeOK
    <3>3. QED
      BY <3>1, <3>2
  <2>4. QED
    BY <2>2, <2>3 DEF Spent
<1>4. QED
  BY <1>1, <1>2, <1>3, Inductive, PTL DEF Spec, IInv, EntryOnlyWhenClear
=============================================================================
