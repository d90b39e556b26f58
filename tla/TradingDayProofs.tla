--------------------------- MODULE TradingDayProofs ---------------------------
(***************************************************************************)
(* Proofs about TradingDay for every calendar of cycles, every equity the  *)
(* broker may report and every set of candidates.                          *)
(***************************************************************************)
EXTENDS TradingDay, Totals, TLAPS

Active == {"judge", "confirm", "manage", "decide"}
RunFields ==
  {"pc", "at", "closes", "raw", "equity", "clean", "start", "peak", "target", "state",
   "loss", "pending", "open"}

\* The records keep their fields.
Shaped ==
  /\ now \in Nat
  /\ run.pc \in Active \cup {"idle", "complete"}
  /\ run.pc \in Active => DOMAIN run = RunFields
  /\ run.pc # "idle" => run.at = now /\ run.equity \in Int
  /\ marks.peak \in Int
  /\ DOMAIN control = {"day", "status", "last", "envelope"}
  /\ DOMAIN session = {"day", "latched", "cycles"}

\* The control's row is the one of the session, and says what became of it.
Latched ==
  /\ control.day = Day(now) /\ session.day = Day(now)
  /\ run.pc = "confirm" => control.status = "provisional"
  /\ session.latched /\ ~IsFinalDay(now) => control.status = "latched"

\* A cycle that saw the profit target is not in full execution.
Locked ==
  run.pc \in Active /\ run.clean /\ IsFinalDay(now) /\ marks.peak >= ProfitTarget
    => run.state # "full_execution"

DayInv == Shaped /\ Latched /\ Locked

LEMMA Amounts == \A a, b \in Int : Higher(a, b) >= a /\ Higher(a, b) >= b /\ Higher(a, b) \in Int
BY DEF Higher

\* Before the final day its wider loss limit does not apply.
LEMMA NarrowLimit ==
  \A at : ~IsFinalDay(at) => ~(daily_loss_pct_at(at) > daily_loss_pct_at(0))
<1>1. ~IsFinalDay(0)
  BY DEF IsFinalDay, FinalDay, Day, EOD_EQUITY_SNAPSHOT_AT, At, MinutesPerDay
<1> QED BY <1>1 DEF daily_loss_pct_at

LEMMA InitDay == Init => DayInv
<1> SUFFICES ASSUME Init PROVE DayInv OBVIOUS
<1>1. run.pc = "idle" /\ now = 0 BY DEF Init, Idle
<1>2. Day(0) = 0 BY DEF Day, MinutesPerDay
<1>3. /\ DOMAIN control = {"day", "status", "last", "envelope"} /\ control.day = 0
  BY DEF Init
<1>4. DOMAIN session = {"day", "latched", "cycles"} /\ session.day = 0 /\ ~session.latched
  BY DEF Init
<1>5. marks.peak \in Int BY DEF Init
<1> QED BY <1>1, <1>2, <1>3, <1>4, <1>5 DEF DayInv, Shaped, Latched, Locked, Active

LEMMA BeginKeeps ==
  ASSUME DayInv, NEW at \in Instants, NEW equity \in Equities, NEW clean \in BOOLEAN,
         Begin(at, equity, clean)
  PROVE  DayInv'
<1>1. now' = at /\ at \in Nat /\ equity \in Nat /\ marks' = marks
  BY ConstantsAssumption DEF Begin
<1> DEFINE target == ProfitTargetReached(at, clean, PeakEquity(equity))
           state == IF target /\ ExecutionState(at, Exposed) = "full_execution"
                    THEN "close_only" ELSE ExecutionState(at, Exposed)
<1>2. /\ run'.pc = "judge" /\ run'.at = at /\ DOMAIN run' = RunFields
      /\ run'.equity = equity /\ run'.clean = clean /\ run'.state = state
  BY DEF Begin, RunFields
<1>3. /\ DOMAIN control' = {"day", "status", "last", "envelope"} /\ control'.day = Day(at)
      /\ control.day = Day(at) => control'.status = control.status
  BY DEF Begin, DayInv, Shaped
<1>4. /\ DOMAIN session' = {"day", "latched", "cycles"} /\ session'.day = Day(at)
      /\ IF session.day = Day(at) THEN session'.latched = session.latched
         ELSE session'.latched = FALSE
  BY DEF Begin, DayInv, Shaped
<1>5. Shaped' BY <1>1, <1>2, <1>3, <1>4 DEF DayInv, Shaped, Active
<1>6. Latched'
  <2>1. session.day = Day(at) <=> control.day = Day(at) BY DEF DayInv, Latched
  <2>2. session'.latched /\ ~IsFinalDay(at) => control'.status = "latched"
    <3> SUFFICES ASSUME session'.latched, ~IsFinalDay(at) PROVE control'.status = "latched"
      OBVIOUS
    <3>1. session.day = Day(at) /\ session.latched BY <1>4
    <3>2. ~IsFinalDay(now) BY <3>1 DEF DayInv, Latched, IsFinalDay
    <3> QED BY <1>3, <2>1, <3>1, <3>2 DEF DayInv, Latched
  <2> QED BY <1>1, <1>2, <1>3, <1>4, <2>2 DEF Latched
<1>7. Locked'
  <2> SUFFICES ASSUME clean, IsFinalDay(at), marks.peak >= ProfitTarget,
                      state = "full_execution"
               PROVE  FALSE
    BY <1>1, <1>2 DEF Locked, Begin
  <2>1. ~target /\ ExecutionState(at, Exposed) = "full_execution" OBVIOUS
  <2>2. ClockState(at, Exposed) = "full_execution" BY <2>1 DEF ExecutionState
  <2>3. SCORING_STARTS_AT <= at /\ at <= NEW_ENTRY_CUTOFF
    BY <1>1, <2>2
    DEF ClockState, SCORING_STARTS_AT, NEW_ENTRY_CUTOFF, ENDS_AT, At, MinutesPerDay
  <2>4. IsOfficial(at)
    BY <1>1, <2>3
    DEF IsOfficial, scoring_window_state, SCORING_STARTS_AT, NEW_ENTRY_CUTOFF,
        EOD_EQUITY_SNAPSHOT_AT, At, MinutesPerDay
  <2>5. PeakEquity(equity) >= ProfitTarget
    <3>1. Higher(BASELINE_EQUITY, equity) \in Int BY <1>1, Amounts DEF BASELINE_EQUITY
    <3>2. marks.peak \in Int /\ ProfitTarget \in Int BY ConstantsAssumption DEF DayInv, Shaped
    <3>3. PeakEquity(equity) >= marks.peak /\ PeakEquity(equity) \in Int
      BY <3>1, <3>2, Amounts DEF PeakEquity
    <3> QED BY <3>2, <3>3
  <2> QED BY <2>1, <2>4, <2>5 DEF ProfitTargetReached
<1> QED BY <1>5, <1>6, <1>7 DEF DayInv

\* What the daily-loss control's steps have in common.
Judges ==
  /\ UNCHANGED <<now, marks>>
  /\ run'.pc \in Active /\ DOMAIN run' = RunFields /\ run'.at = run.at
  /\ run'.clean = run.clean /\ run'.state = run.state /\ run'.equity \in Int
  /\ DOMAIN control' = DOMAIN control /\ control'.day = control.day

LEMMA JudgesKeeps ==
  ASSUME DayInv, run.pc \in Active, Judges,
         DOMAIN session' = DOMAIN session, session'.day = session.day,
         run'.pc = "confirm" => control'.status = "provisional",
         session'.latched /\ ~IsFinalDay(now) => control'.status = "latched"
  PROVE  DayInv'
<1>1. now' = now /\ marks' = marks BY DEF Judges
<1>2. Shaped' BY <1>1 DEF DayInv, Shaped, Judges, Active
<1>3. Latched' BY <1>1 DEF DayInv, Latched, Judges
<1>4. Locked' BY <1>1 DEF DayInv, Locked, Judges
<1> QED BY <1>2, <1>3, <1>4 DEF DayInv

LEMMA WriteStatus ==
  ASSUME DayInv, NEW status, NEW last, Write(status, last)
  PROVE  DOMAIN control' = DOMAIN control /\ control'.day = control.day
         /\ control'.status = status
BY DEF DayInv, Shaped, Write

LEMMA GotoPc ==
  ASSUME DayInv, run.pc \in Active, NEW pc \in Active, Goto(pc)
  PROVE  /\ run'.pc = pc /\ DOMAIN run' = RunFields /\ run'.at = run.at
         /\ run'.clean = run.clean /\ run'.state = run.state /\ run'.equity \in Int
BY DEF Active, DayInv, Shaped, Goto, RunFields

\* A latch is released only where the final day's wider limit applies.
LEMMA JudgeKeeps == ASSUME DayInv, Judge PROVE DayInv'
<1> DEFINE loss == Fall(run.start, run.raw)
<1>1. run.pc \in Active /\ run'.pc = "manage" BY GotoPc DEF Judge, Active
<1>2. /\ DOMAIN run' = RunFields /\ run'.at = run.at /\ run'.clean = run.clean
      /\ run'.state = run.state /\ run'.equity \in Int
  BY <1>1, GotoPc DEF Judge, Active
<1>3. UNCHANGED <<now, marks, session>> BY DEF Judge
<1>4. run.at = now BY <1>1 DEF DayInv, Shaped, Active
<1>5. /\ DOMAIN control' = DOMAIN control /\ control'.day = control.day
      /\ control.status = "latched" /\ ~IsFinalDay(now) => control'.status = "latched"
  <2>1. CASE Releases /\ Write("clear", loss)
    <3>1. IsFinalDay(now) BY <1>4, <2>1, NarrowLimit DEF Releases
    <3> QED BY <2>1, <3>1, WriteStatus
  <2>2. CASE /\ control.status # "latched"
             /\ Write("provisional", loss) \/ Write("clear", loss)
    BY <2>2, WriteStatus
  <2>3. CASE UNCHANGED control BY <2>3
  <2> QED BY <2>1, <2>2, <2>3 DEF Judge
<1>6. session'.latched /\ ~IsFinalDay(now) => control'.status = "latched"
  BY <1>3, <1>5 DEF DayInv, Latched
<1>7. Judges BY <1>1, <1>2, <1>3, <1>5 DEF Judges, Active
<1> QED BY <1>1, <1>3, <1>6, <1>7, JudgesKeeps

LEMMA SuspectKeeps == ASSUME DayInv, Suspect PROVE DayInv'
<1>1. run.pc \in Active /\ run'.pc = "confirm" BY GotoPc DEF Suspect, Active
<1>2. /\ DOMAIN run' = RunFields /\ run'.at = run.at /\ run'.clean = run.clean
      /\ run'.state = run.state /\ run'.equity \in Int
  BY <1>1, GotoPc DEF Suspect, Active
<1>3. UNCHANGED <<now, marks, session>> BY DEF Suspect
<1>4. /\ DOMAIN control' = DOMAIN control /\ control'.day = control.day
      /\ control'.status = "provisional"
  BY WriteStatus DEF Suspect
<1>5. ~(session'.latched /\ ~IsFinalDay(now))
  BY <1>3 DEF DayInv, Latched, Suspect
<1>6. Judges BY <1>1, <1>2, <1>3, <1>4 DEF Judges, Active
<1> QED BY <1>1, <1>3, <1>4, <1>5, <1>6, JudgesKeeps

\* Before its confirmation a loss is provisional, so nothing was latched yet.
LEMMA ConfirmKeeps ==
  ASSUME DayInv, NEW equity \in Equities, NEW marked \in BOOLEAN, Confirm(equity, marked)
  PROVE  DayInv'
<1> DEFINE loss == Fall(run.start, equity)
           breach == DailyLossReached(equity)
           latching == breach /\ Plausible(loss) /\ marked
           status == IF ~breach THEN "clear"
                     ELSE IF Plausible(loss) /\ marked THEN "latched" ELSE "provisional"
           latched == session.latched \/ latching
           peak == Higher(run.peak, equity)
<1>1. /\ run.pc = "confirm" /\ UNCHANGED <<now, marks>>
      /\ Write(status, loss)
      /\ session' = [session EXCEPT !.latched = latched]
      /\ run' = [run EXCEPT !.pc = "manage", !.equity = equity, !.peak = peak]
  BY DEF Confirm
<1>2. latching => status = "latched" OBVIOUS
<1>3. latched => session.latched \/ latching OBVIOUS
<1>4. equity \in Int BY ConstantsAssumption
<1> HIDE DEF latched, latching, status, loss, peak
<1>5. DOMAIN run = RunFields BY <1>1 DEF DayInv, Shaped, Active
<1>6. /\ run'.pc = "manage" /\ DOMAIN run' = RunFields /\ run'.at = run.at
      /\ run'.equity = equity /\ run'.clean = run.clean /\ run'.state = run.state
  BY <1>1, <1>5 DEF RunFields
<1>7. /\ DOMAIN control' = DOMAIN control /\ control'.day = control.day
      /\ control'.status = status
  BY <1>1, WriteStatus
<1>8. /\ DOMAIN session' = DOMAIN session /\ session'.day = session.day
      /\ session'.latched = latched
  BY <1>1 DEF DayInv, Shaped
<1>9. session'.latched /\ ~IsFinalDay(now) => control'.status = "latched"
  <2> SUFFICES ASSUME session'.latched, ~IsFinalDay(now) PROVE control'.status = "latched"
    OBVIOUS
  <2>1. ~session.latched BY <1>1 DEF DayInv, Latched
  <2>2. latching BY <1>3, <1>8, <2>1
  <2> QED BY <1>2, <1>7, <2>2
<1>10. Judges BY <1>1, <1>4, <1>6, <1>7 DEF Judges, Active
<1> QED BY <1>1, <1>6, <1>8, <1>9, <1>10, JudgesKeeps DEF Active

LEMMA ManageKeeps == ASSUME DayInv, Manage PROVE DayInv'
<1>1. run.pc = "manage" /\ UNCHANGED <<now, control, marks, session>> BY DEF Manage
<1>2. DOMAIN run = RunFields BY <1>1 DEF DayInv, Shaped, Active
<1>3. PICK orderly \in BOOLEAN :
        \E closes : run' = [run EXCEPT !.pc = "decide", !.clean = run.clean /\ orderly,
                                     !.closes = closes]
  BY DEF Manage
<1> DEFINE clean == run.clean /\ orderly
<1>4. PICK closes :
        run' = [run EXCEPT !.pc = "decide", !.clean = clean, !.closes = closes]
  BY <1>3
<1>5. clean => run.clean OBVIOUS
<1> HIDE DEF clean
<1>6. /\ run'.pc = "decide" /\ DOMAIN run' = RunFields /\ run'.at = run.at
      /\ run'.equity = run.equity /\ run'.clean = clean /\ run'.state = run.state
  BY <1>2, <1>4 DEF RunFields
<1>7. Shaped' BY <1>1, <1>6 DEF DayInv, Shaped, Active
<1>8. Latched' BY <1>1, <1>6 DEF DayInv, Latched
<1>9. Locked'
  <2>1. run'.clean => run.clean BY <1>5, <1>6
  <2> QED BY <1>1, <1>6, <2>1 DEF DayInv, Locked, Active
<1> QED BY <1>7, <1>8, <1>9 DEF DayInv

\* The rest of a cycle keeps the control's status.
LEMMA LaterKeeps ==
  ASSUME DayInv, UNCHANGED <<now, session>>,
         run'.pc \in {"idle", "complete"},
         run'.pc = "complete" => run'.at = now /\ run'.equity \in Int,
         marks'.peak \in Int,
         DOMAIN control' = DOMAIN control, control'.day = control.day,
         control'.status = control.status
  PROVE  DayInv'
<1>1. Shaped' BY DEF DayInv, Shaped, Active
<1>2. Latched' BY DEF DayInv, Latched
<1>3. Locked' BY DEF Locked, Active
<1> QED BY <1>1, <1>2, <1>3 DEF DayInv

LEMMA DecideKeeps ==
  ASSUME DayInv,
         \/ \E c \in Candidates, confirmed \in BOOLEAN : Enter(c, confirmed)
         \/ CashWins
  PROVE  DayInv'
<1>1. /\ run.pc = "decide" /\ Decided /\ UNCHANGED <<now, marks, session>>
  BY DEF Enter, CashWins
<1>2. run.at = now /\ run.equity \in Int /\ marks.peak \in Int
  BY <1>1 DEF DayInv, Shaped
<1>3. run'.pc = "complete" /\ run'.at = now /\ run'.equity \in Int
  BY <1>1, <1>2 DEF Decided
<1>4. /\ DOMAIN control' = DOMAIN control /\ control'.day = control.day
      /\ control'.status = control.status
  BY DEF DayInv, Shaped, Enter, CashWins
<1> QED BY <1>1, <1>2, <1>3, <1>4, LaterKeeps

LEMMA EndKeeps ==
  ASSUME DayInv, Complete \/ FailClosed \/ Crash PROVE DayInv'
<1>1. run' = Idle /\ UNCHANGED <<now, control, session>> /\ run.pc # "idle"
  BY DEF Complete, FailClosed, Crash
<1>2. marks'.peak \in Int
  <2>1. CASE Complete
    <3>1. marks.peak \in Int /\ run.equity \in Int BY <1>1 DEF DayInv, Shaped
    <3>2. Higher(marks.peak, run.equity) \in Int BY <3>1, Amounts
    <3> QED BY <2>1, <3>1, <3>2 DEF Complete
  <2>2. CASE FailClosed \/ Crash BY <2>2 DEF FailClosed, Crash, DayInv, Shaped
  <2> QED BY <2>1, <2>2
<1> QED BY <1>1, <1>2, LaterKeeps DEF Idle

LEMMA StepKeepsDay == DayInv /\ [Next]_vars => DayInv'
<1> SUFFICES ASSUME DayInv, [Next]_vars PROVE DayInv' OBVIOUS
<1>1. CASE BrokerMoves \/ ClearKillSwitch \/ UNCHANGED vars
  <2>1. UNCHANGED <<now, run, control, marks, session>>
    BY <1>1 DEF BrokerMoves, ClearKillSwitch, vars
  <2> QED BY <2>1 DEF DayInv, Shaped, Latched, Locked
<1> QED
  BY <1>1, BeginKeeps, JudgeKeeps, SuspectKeeps, ConfirmKeeps, ManageKeeps, DecideKeeps,
     EndKeeps
  DEF Next, Done

LEMMA DayInvariant == Spec => []DayInv
BY InitDay, StepKeepsDay, PTL DEF Spec

\* An entry is one that the engine approved in the context of its cycle.
LEMMA EntryApproved ==
  ASSUME DayInv, [Next]_vars, Entering
  PROVE  /\ run.at = now /\ run.clean /\ run.state = "full_execution"
         /\ IsFinalDay(now) \/ control.status # "latched"
<1>1. run.pc = "decide" /\ award' # award BY DEF Entering
<1>2. run.at = now BY <1>1 DEF DayInv, Shaped
<1>3. PICK c \in Candidates, confirmed \in BOOLEAN : Enter(c, confirmed)
  BY <1>1 DEF Next, vars, BrokerMoves, ClearKillSwitch, Begin, Judge, Suspect, Confirm,
              Manage, CashWins, Complete, FailClosed, Crash, Done
<1> DEFINE x == Context(confirmed)
<1>4. HardGatesPassed(c, x) BY <1>3 DEF Enter, Approved
<1>5. /\ x.state = run.state /\ x.clean = run.clean /\ x.halt = Halted /\ x.now = run.at
  BY DEF Context
<1> HIDE DEF x
<1>6. x.state = "full_execution" /\ x.clean /\ LossAllows(x) BY <1>4 DEF HardGatesPassed
<1>7. IsFinalDay(now) \/ ~Halted BY <1>2, <1>5, <1>6 DEF LossAllows
<1>8. IsFinalDay(now) \/ control.status # "latched" BY <1>2, <1>7 DEF Halted
<1> QED BY <1>2, <1>5, <1>6, <1>8

\* A daily stop that was confirmed once ends the entries of its session, for
\* every calendar of cycles and every course of the equity, through failed and
\* crashed cycles and a kill switch that is cleared; only the final day is exempt.
THEOREM ConfirmedStopEndsSession == Spec => LatchEndsSession
<1>1. DayInv /\ [Next]_vars =>
        [Entering => IsFinalDay(now) \/ ~session.latched]_vars
  BY EntryApproved DEF DayInv, Latched
<1> QED BY <1>1, DayInvariant, PTL DEF Spec, LatchEndsSession

\* The profit target, once marked, keeps the final day without entries.
THEOREM ProfitLocked == Spec => ProfitLockHolds
<1>1. DayInv /\ [Next]_vars =>
        [Entering /\ IsFinalDay(now) => marks.peak < ProfitTarget]_vars
  <2> SUFFICES ASSUME DayInv, [Next]_vars, Entering, IsFinalDay(now)
               PROVE  marks.peak < ProfitTarget
    OBVIOUS
  <2>1. run.clean /\ run.state = "full_execution" /\ run.pc \in Active
    BY EntryApproved DEF Entering, Active
  <2>2. marks.peak \in Int /\ ProfitTarget \in Int BY ConstantsAssumption DEF DayInv, Shaped
  <2> QED BY <2>1, <2>2 DEF DayInv, Locked
<1> QED BY <1>1, DayInvariant, PTL DEF Spec, ProfitLockHolds

(***************************************************************************)
(* The book of rows.  A row's id is its run's number, followed by "again"  *)
(* for each replacement and "close" for each close of an exit; that these  *)
(* ids never collide is what keeps a row from being counted for, or        *)
(* replaced by, another one's.                                             *)
(***************************************************************************)
Elements == Nat \cup {"again", "close"}
Ids == Seq(Elements)

\* A longer id says which one it continues, and how.
LEMMA IdsDiffer ==
  ASSUME NEW a \in Ids, NEW b \in Ids, NEW x, NEW y, Append(a, x) = Append(b, y)
  PROVE  a = b /\ x = y
<1>1. Len(a) + 1 = Len(b) + 1 /\ Len(a) \in Nat /\ Len(b) \in Nat
  BY DEF Ids
<1>2. Append(a, x)[Len(a) + 1] = x /\ Append(b, y)[Len(b) + 1] = y
  BY DEF Ids
<1>3. Len(a) = Len(b) BY <1>1
<1>4. \A i \in 1..Len(a) : a[i] = b[i]
  BY <1>3 DEF Ids
<1>5. a = b
  BY <1>3, <1>4 DEF Ids
<1> QED BY <1>2, <1>3, <1>5

\* The ids the rows of an entry's replacement and of its close are given.
AgainId(a) == Append(a, "again")
CloseId(a) == Append(a, "close")

LEMMA OwnIds ==
  /\ \A a, b \in Ids : AgainId(a) = AgainId(b) => a = b
  /\ \A a, b \in Ids : CloseId(a) = CloseId(b) => a = b
  /\ \A a, b \in Ids : AgainId(a) # CloseId(b)
<1>1. ASSUME NEW a \in Ids, NEW b \in Ids, AgainId(a) = AgainId(b) PROVE a = b
  BY <1>1, IdsDiffer DEF AgainId
<1>2. ASSUME NEW a \in Ids, NEW b \in Ids, CloseId(a) = CloseId(b) PROVE a = b
  BY <1>2, IdsDiffer DEF CloseId
<1>3. ASSUME NEW a \in Ids, NEW b \in Ids PROVE AgainId(a) # CloseId(b)
  <2>1. Len(a) \in Nat /\ Len(b) \in Nat BY DEF Ids
  <2>2. /\ Len(AgainId(a)) = Len(a) + 1 /\ AgainId(a)[Len(a) + 1] = "again"
        /\ Len(CloseId(b)) = Len(b) + 1 /\ CloseId(b)[Len(b) + 1] = "close"
    BY DEF Ids, AgainId, CloseId
  <2> SUFFICES ASSUME AgainId(a) = CloseId(b) PROVE FALSE OBVIOUS
  <2>3. Len(a) = Len(b) BY <2>1, <2>2
  <2> QED BY <2>2, <2>3
<1> QED BY <1>1, <1>2, <1>3

LEMMA FirstIds ==
  ASSUME NEW a \in Ids, Len(a) > 0, NEW x, NEW k
  PROVE  Append(a, x) # <<k>> /\ Len(Append(a, x)) > 0
<1>1. Len(Append(a, x)) = Len(a) + 1 /\ Len(a) \in Nat BY DEF Ids
<1>2. Len(<<k>>) = 1 OBVIOUS
<1>3. Len(Append(a, x)) # Len(<<k>>) BY <1>1, <1>2
<1>4. Append(a, x) # <<k>> BY <1>3
<1> QED BY <1>1, <1>4

LEMMA FirstOwn ==
  ASSUME NEW a \in Ids, Len(a) > 0, NEW k
  PROVE  /\ AgainId(a) # <<k>> /\ Len(AgainId(a)) > 0 /\ AgainId(a) \in Ids
         /\ CloseId(a) # <<k>> /\ Len(CloseId(a)) > 0 /\ CloseId(a) \in Ids
<1>1. AgainId(a) \in Ids /\ CloseId(a) \in Ids BY DEF Ids, Elements, AgainId, CloseId
<1> QED BY <1>1, FirstIds DEF AgainId, CloseId

Account == [risk : Nat, underlying : {c.underlying : c \in Candidates},
            tier : {"earnings", "final_hour", "maverick", "high_conviction", "standard"},
            day : Nat, directional : BOOLEAN]

IsEntry(r) == r.closes = {}

\* An entry's row is the first of its run or replaces one that is not pending.
Originates(R, r) ==
  \/ r.id = <<r.run>>
  \/ \E e \in R : /\ IsEntry(e) /\ e.status \notin PendingStatuses
                  /\ r.id = AgainId(e.id) /\ r.run = e.run

\* A close's row belongs to one entry that is closing or closed.
ClosesOne(R, r) ==
  /\ r.status \in {"new", "filled"}
  /\ \E e \in R : /\ IsEntry(e) /\ e.status \in {"closing", "closed"}
                  /\ r.closes = {e.id} /\ r.id = CloseId(e.id)

RowSet(n) == [id : Ids, run : 0 .. n, closes : SUBSET Ids, status : Statuses]

\* R is a book of rows for n awards.
Booked(R, n) ==
  /\ IsFiniteSet(R) /\ R \subseteq RowSet(n)
  /\ \A r \in R : Len(r.id) > 0
  /\ \A r, s \in R : r.id = s.id => r = s
  /\ \A r \in R : IF IsEntry(r) THEN r.run \in 1 .. n /\ Originates(R, r) ELSE ClosesOne(R, r)
  /\ \A k \in 1 .. n : \E r \in R : IsEntry(r) /\ r.run = k

\* What may become of a row that keeps its id.
Succeeds(r, q, m) ==
  /\ q \in RowSet(m) /\ q.id = r.id /\ q.closes = r.closes
  /\ q.status \in PendingStatuses => r.status \in PendingStatuses
  /\ IF IsEntry(r)
     THEN /\ q.run = r.run
          /\ r.status \in {"closing", "closed"} => q.status \in {"closing", "closed"}
          /\ r.status \in {"closed", "canceled"} => q.status \in {"closed", "canceled"}
     ELSE q.status \in {"new", "filled"}

EntryRow(n) == [id |-> <<n>>, run |-> n, closes |-> {}, status |-> "new"]

\* How the book Q follows from the book R: T says what becomes of R's rows.
Becoming(R, T, Q, n, m) ==
  /\ IsFiniteSet(Q) /\ n \in Nat /\ m \in {n, n + 1}
  /\ \A r \in R : Succeeds(r, T[r], m)
  /\ \A r \in R : IsEntry(r) => T[r] \in Q
  /\ m = n + 1 => EntryRow(m) \in Q
  /\ \A q \in Q :
       \/ \E r \in R : q = T[r]
       \/ \E r \in R : /\ q = CloseRow(r) /\ IsEntry(r) /\ T[r].status = "closing"
                       /\ \A c \in R : c.closes # {r.id}
       \/ \E r \in R : /\ q = ReplacementRow(r) /\ IsEntry(r)
                       /\ r.status \in PendingStatuses /\ T[r].status \notin PendingStatuses
       \/ m = n + 1 /\ q = EntryRow(m)

\* The rows of a close and of a replacement, field by field.
LEMMA NewRows ==
  ASSUME NEW n \in Nat, NEW m \in Nat, n <= m, NEW r \in RowSet(n), Len(r.id) > 0
  PROVE  /\ CloseRow(r) = [id |-> CloseId(r.id), run |-> 0, closes |-> {r.id}, status |-> "new"]
         /\ CloseRow(r) \in RowSet(m) /\ ~IsEntry(CloseRow(r))
         /\ ReplacementRow(r) = [id |-> AgainId(r.id), run |-> r.run,
                                 closes |-> r.closes, status |-> "new"]
         /\ ReplacementRow(r) \in RowSet(m)
         /\ Len(CloseId(r.id)) > 0 /\ Len(AgainId(r.id)) > 0
<1>1. r.id \in Ids /\ r.run \in 0..n /\ r.closes \in SUBSET Ids BY DEF RowSet
<1>2. CloseId(r.id) \in Ids /\ AgainId(r.id) \in Ids
  BY <1>1, FirstOwn
<1>3. Len(CloseId(r.id)) > 0 /\ Len(AgainId(r.id)) > 0
  BY <1>1, FirstOwn
<1>4. CloseRow(r) = [id |-> CloseId(r.id), run |-> 0, closes |-> {r.id}, status |-> "new"]
  BY DEF CloseRow, Unapproved, CloseId
<1>5. "new" \in Statuses BY DEF Statuses, PendingStatuses
<1>6. CloseRow(r) \in RowSet(m) /\ ~IsEntry(CloseRow(r))
  BY <1>1, <1>2, <1>4, <1>5 DEF RowSet, IsEntry
<1>7. ReplacementRow(r) = [id |-> AgainId(r.id), run |-> r.run,
                                 closes |-> r.closes, status |-> "new"]
  <2>1. r = [id |-> r.id, run |-> r.run, closes |-> r.closes, status |-> r.status]
    BY DEF RowSet
  <2>2. DOMAIN r = {"id", "run", "closes", "status"}
    BY DEF RowSet
  <2> DEFINE q == [r EXCEPT !.id = AgainId(r.id), !.status = "new"]
  <2>3. q = [x \in {"id", "run", "closes", "status"} |-> q[x]]
    BY <2>2
  <2>4. q.id = AgainId(r.id) /\ q.status = "new" /\ q.run = r.run /\ q.closes = r.closes
    BY <2>2
  <2>5. q = ReplacementRow(r)
    BY DEF ReplacementRow, AgainId
  <2> HIDE DEF q
  <2>6. q = [id |-> q.id, run |-> q.run, closes |-> q.closes, status |-> q.status]
    BY <2>3
  <2> QED BY <2>4, <2>5, <2>6
<1>8. ReplacementRow(r) \in RowSet(m)
  BY <1>1, <1>2, <1>5, <1>7 DEF RowSet
<1> QED BY <1>3, <1>4, <1>6, <1>7, <1>8

LEMMA FreshRow ==
  ASSUME NEW n \in Nat \ {0}
  PROVE  EntryRow(n) \in RowSet(n) /\ IsEntry(EntryRow(n)) /\ Len(EntryRow(n).id) > 0
         /\ EntryRow(n).id = <<n>> /\ EntryRow(n).run = n /\ EntryRow(n).status = "new"
<1>1. <<n>> \in Ids /\ Len(<<n>>) > 0 BY DEF Ids, Elements
<1>2. "new" \in Statuses BY DEF Statuses, PendingStatuses
<1>3. n \in 0..n /\ {} \in SUBSET Ids OBVIOUS
<1> QED BY <1>1, <1>2, <1>3 DEF EntryRow, RowSet, IsEntry

\* The three ways a row of the new book follows from one of the old one.
Carries(R, T, q) == \E r \in R : q = T[r]
OpensClose(R, T, q) ==
  \E r \in R : /\ q = CloseRow(r) /\ IsEntry(r) /\ T[r].status = "closing"
               /\ \A c \in R : c.closes # {r.id}
Replaces(R, T, q) ==
  \E r \in R : /\ q = ReplacementRow(r) /\ IsEntry(r)
               /\ r.status \in PendingStatuses /\ T[r].status \notin PendingStatuses

\* No two rows of the new book share an id.
LEMMA RowsMatch ==
  ASSUME NEW n, NEW R, Booked(R, n), NEW T, NEW Q, NEW m, Becoming(R, T, Q, n, m)
  PROVE  \A p, q \in Q : p.id = q.id => p = q
<1>0. n \in Nat /\ m \in Nat /\ n <= m BY DEF Becoming
<1>1. \A r \in R : /\ r \in RowSet(n) /\ Len(r.id) > 0 /\ r.id \in Ids /\ r.run \in 0..n
                   /\ T[r].id = r.id /\ T[r].closes = r.closes
  BY DEF Booked, RowSet, Becoming, Succeeds
<1>2. \A r \in R : /\ CloseRow(r).id = CloseId(r.id)
                   /\ ReplacementRow(r).id = AgainId(r.id)
  BY <1>0, <1>1, NewRows
<1>3. \A r, s \in R : r.id = s.id => r = s BY DEF Booked
<1>4. \A r \in R : IF IsEntry(r) THEN r.run \in 1..n /\ Originates(R, r) ELSE ClosesOne(R, r)
  BY DEF Booked
\* The new rows' ids are the ids of none of the old ones.
<1>5. \A r, s \in R : (\A c \in R : c.closes # {r.id}) => s.id # CloseId(r.id)
  <2> SUFFICES ASSUME NEW r \in R, NEW s \in R, \A c \in R : c.closes # {r.id},
                      s.id = CloseId(r.id)
               PROVE  FALSE
    OBVIOUS
  <2>1. CASE IsEntry(s)
    <3>1. s.id # <<s.run>> BY <1>1, FirstOwn
    <3>2. PICK e \in R : s.id = AgainId(e.id) BY <1>4, <2>1, <3>1 DEF Originates
    <3> QED BY <1>1, <3>2, OwnIds
  <2>2. CASE ~IsEntry(s)
    <3>1. PICK e \in R : s.closes = {e.id} /\ s.id = CloseId(e.id)
      BY <1>4, <2>2 DEF ClosesOne
    <3>2. e.id = r.id BY <1>1, <3>1, OwnIds
    <3> QED BY <3>1, <3>2
  <2> QED BY <2>1, <2>2
<1>6. \A r, s \in R : IsEntry(r) /\ r.status \in PendingStatuses => s.id # AgainId(r.id)
  <2> SUFFICES ASSUME NEW r \in R, NEW s \in R, r.status \in PendingStatuses,
                      s.id = AgainId(r.id)
               PROVE  FALSE
    OBVIOUS
  <2>1. CASE IsEntry(s)
    <3>1. s.id # <<s.run>> BY <1>1, FirstOwn
    <3>2. PICK e \in R : s.id = AgainId(e.id) /\ e.status \notin PendingStatuses
      BY <1>4, <2>1, <3>1 DEF Originates
    <3>3. e.id = r.id BY <1>1, <3>2, OwnIds
    <3> QED BY <1>3, <3>2, <3>3
  <2>2. CASE ~IsEntry(s)
    <3>1. PICK e \in R : s.id = CloseId(e.id)
      BY <1>4, <2>2 DEF ClosesOne
    <3> QED BY <1>1, <3>1, OwnIds
  <2> QED BY <2>1, <2>2
<1>7. \A s \in R : s.id # <<n + 1>>
  <2> SUFFICES ASSUME NEW s \in R, s.id = <<n + 1>> PROVE FALSE
    OBVIOUS
  <2>1. \A e \in R : s.id # AgainId(e.id) /\ s.id # CloseId(e.id)
    BY <1>1, FirstOwn
  <2>2. IsEntry(s) /\ s.id = <<s.run>> /\ s.run \in 1..n
    <3>1. ~ClosesOne(R, s) BY <2>1 DEF ClosesOne
    <3>2. IsEntry(s) /\ s.run \in 1..n /\ Originates(R, s) BY <1>4, <3>1
    <3> QED BY <2>1, <3>2 DEF Originates
  <2>3. s.run = n + 1 BY <2>2
  <2> QED BY <1>0, <2>2, <2>3
<1> DEFINE Fresh(q) == m = n + 1 /\ q = EntryRow(m)
<1>8. \A q \in Q : Carries(R, T, q) \/ OpensClose(R, T, q) \/ Replaces(R, T, q) \/ Fresh(q)
  BY DEF Becoming, Carries, OpensClose, Replaces
<1>9. \A q \in Q : Fresh(q) => q.id = <<n + 1>> BY DEF EntryRow
<1> HIDE DEF Fresh
<1>10. \A q \in Q : /\ Carries(R, T, q) => \E r \in R : q = T[r] /\ q.id = r.id
                    /\ OpensClose(R, T, q) =>
                         \E r \in R : /\ q = CloseRow(r) /\ q.id = CloseId(r.id)
                                      /\ \A c \in R : c.closes # {r.id}
                    /\ Replaces(R, T, q) =>
                         \E r \in R : /\ q = ReplacementRow(r) /\ q.id = AgainId(r.id)
                                      /\ IsEntry(r) /\ r.status \in PendingStatuses
  BY <1>1, <1>2 DEF Carries, OpensClose, Replaces
<1> SUFFICES ASSUME NEW p \in Q, NEW q \in Q, p.id = q.id PROVE p = q
  OBVIOUS
<1>11. CASE Carries(R, T, p)
  <2>1. PICK r \in R : p = T[r] /\ p.id = r.id BY <1>10, <1>11
  <2>2. Carries(R, T, q)
    <3>1. ~OpensClose(R, T, q) BY <1>5, <1>10, <2>1
    <3>2. ~Replaces(R, T, q) BY <1>6, <1>10, <2>1
    <3>3. ~Fresh(q) BY <1>7, <1>9, <2>1
    <3> QED BY <1>8, <3>1, <3>2, <3>3
  <2> QED BY <1>3, <1>10, <2>1, <2>2
<1>12. CASE OpensClose(R, T, p)
  <2>1. PICK r \in R : p = CloseRow(r) /\ p.id = CloseId(r.id) /\ \A c \in R : c.closes # {r.id}
    BY <1>10, <1>12
  <2>2. ~Carries(R, T, q) BY <1>5, <1>10, <2>1
  <2>3. ~Replaces(R, T, q) BY <1>1, <1>10, <2>1, OwnIds
  <2>4. ~Fresh(q) BY <1>1, <1>9, <2>1, FirstOwn, ZenonT(40)
  <2>5. PICK s \in R : q = CloseRow(s) /\ q.id = CloseId(s.id)
    BY <1>8, <1>10, <2>2, <2>3, <2>4
  <2>6. r.id = s.id BY <1>1, <2>1, <2>5, OwnIds
  <2> QED BY <1>3, <2>1, <2>5, <2>6
<1>13. CASE Replaces(R, T, p)
  <2>1. PICK r \in R : /\ p = ReplacementRow(r) /\ p.id = AgainId(r.id)
                       /\ IsEntry(r) /\ r.status \in PendingStatuses
    BY <1>10, <1>13
  <2>2. ~Carries(R, T, q) BY <1>6, <1>10, <2>1
  <2>3. ~OpensClose(R, T, q) BY <1>1, <1>10, <2>1, OwnIds
  <2>4. ~Fresh(q) BY <1>1, <1>9, <2>1, FirstOwn
  <2>5. PICK s \in R : q = ReplacementRow(s) /\ q.id = AgainId(s.id)
    BY <1>8, <1>10, <2>2, <2>3, <2>4
  <2>6. r.id = s.id BY <1>1, <2>1, <2>5, OwnIds
  <2> QED BY <1>3, <2>1, <2>5, <2>6
<1>14. CASE Fresh(p)
  <2>1. q.id = <<n + 1>> BY <1>9, <1>14
  <2>2. ~Carries(R, T, q) /\ ~OpensClose(R, T, q) /\ ~Replaces(R, T, q)
    <3>1. ~Carries(R, T, q) BY <1>7, <1>10, <2>1
    <3>2. \A r \in R : AgainId(r.id) # <<n + 1>> /\ CloseId(r.id) # <<n + 1>>
      BY <1>1, FirstOwn
    <3>3. ~OpensClose(R, T, q) BY <1>10, <2>1, <3>2
    <3>4. ~Replaces(R, T, q) BY <1>10, <2>1, <3>2
    <3> QED BY <3>1, <3>3, <3>4
  <2>3. Fresh(q) BY <1>8, <2>2
  <2> QED BY <1>14, <2>3 DEF Fresh
<1> QED BY <1>8, <1>11, <1>12, <1>13, <1>14

LiveOf(R) == {r \in R : IsEntry(r) /\ r.status \notin {"closed", "canceled"}}
RunsOf(R) == {r.run : r \in LiveOf(R)}

\* What follows from a book is a book, in which no old run holds anew.
LEMMA BookKept ==
  ASSUME NEW n, NEW R, Booked(R, n), NEW T, NEW Q, NEW m, Becoming(R, T, Q, n, m)
  PROVE  Booked(Q, m) /\ RunsOf(Q) \subseteq RunsOf(R) \cup ((n + 1) .. m)
<1>0. n \in Nat /\ m \in Nat /\ n <= m BY DEF Becoming
<1>1. \A r \in R : r \in RowSet(n) /\ Len(r.id) > 0 BY DEF Booked
<1>2. \A r \in R : /\ Succeeds(r, T[r], m)
                   /\ IsEntry(T[r]) <=> IsEntry(r)
                   /\ T[r] \in RowSet(m) /\ T[r].id = r.id /\ T[r].closes = r.closes
                   /\ IsEntry(r) => T[r] \in Q
  BY DEF Becoming, Succeeds, IsEntry
<1>3. \A r \in R : /\ CloseRow(r).id = CloseId(r.id) /\ CloseRow(r).closes = {r.id}
                   /\ CloseRow(r).status = "new"
                   /\ CloseRow(r) \in RowSet(m) /\ ~IsEntry(CloseRow(r)) /\ Len(CloseRow(r).id) > 0
                   /\ ReplacementRow(r).id = AgainId(r.id) /\ ReplacementRow(r).run = r.run
                   /\ ReplacementRow(r).closes = r.closes /\ ReplacementRow(r).status = "new"
                   /\ ReplacementRow(r) \in RowSet(m) /\ Len(ReplacementRow(r).id) > 0
  BY <1>0, <1>1, NewRows
<1>4. \A r \in R : IF IsEntry(r) THEN r.run \in 1..n /\ Originates(R, r) ELSE ClosesOne(R, r)
  BY DEF Booked
<1>5. m = n + 1 =>
        /\ EntryRow(m) \in RowSet(m) /\ IsEntry(EntryRow(m)) /\ Len(EntryRow(m).id) > 0
        /\ EntryRow(m).id = <<m>> /\ EntryRow(m).run = m /\ EntryRow(m).status = "new"
        /\ EntryRow(m) \in Q
  BY <1>0, FreshRow DEF Becoming
<1> DEFINE Fresh(q) == m = n + 1 /\ q = EntryRow(m)
<1>6. \A q \in Q : Carries(R, T, q) \/ OpensClose(R, T, q) \/ Replaces(R, T, q) \/ Fresh(q)
  BY DEF Becoming, Carries, OpensClose, Replaces
<1>7. \A q \in Q : q \in RowSet(m) /\ Len(q.id) > 0
  <2> SUFFICES ASSUME NEW q \in Q PROVE q \in RowSet(m) /\ Len(q.id) > 0 OBVIOUS
  <2>1. CASE Carries(R, T, q)  BY <1>1, <1>2, <2>1 DEF Carries
  <2>2. CASE OpensClose(R, T, q) BY <1>3, <2>2 DEF OpensClose
  <2>3. CASE Replaces(R, T, q) BY <1>3, <2>3 DEF Replaces
  <2>4. CASE Fresh(q) BY <1>5, <2>4
  <2> QED BY <1>6, <2>1, <2>2, <2>3, <2>4
\* Every row of the new book has the owner it needs.
<1>8. \A q \in Q : IF IsEntry(q) THEN q.run \in 1..m /\ Originates(Q, q) ELSE ClosesOne(Q, q)
  <2> SUFFICES ASSUME NEW q \in Q
               PROVE  IF IsEntry(q) THEN q.run \in 1..m /\ Originates(Q, q) ELSE ClosesOne(Q, q)
    OBVIOUS
  <2>1. CASE Carries(R, T, q)
    <3>1. PICK r \in R : q = T[r] BY <2>1 DEF Carries
    <3>2. q.id = r.id /\ q.closes = r.closes /\ (IsEntry(q) <=> IsEntry(r)) /\ Succeeds(r, q, m)
      BY <1>2, <3>1
    <3>3. CASE IsEntry(r)
      <4>1. q.run = r.run /\ r.run \in 1..n /\ Originates(R, r) BY <1>4, <3>2, <3>3 DEF Succeeds
      <4>2. CASE r.id = <<r.run>> BY <1>0, <3>2, <3>3, <4>1, <4>2 DEF Originates
      <4>3. CASE \E e \in R : /\ IsEntry(e) /\ e.status \notin PendingStatuses
                              /\ r.id = AgainId(e.id) /\ r.run = e.run
        <5>1. PICK e \in R : /\ IsEntry(e) /\ e.status \notin PendingStatuses
                             /\ r.id = AgainId(e.id) /\ r.run = e.run
          BY <4>3
        <5>2. /\ T[e] \in Q /\ IsEntry(T[e]) /\ T[e].id = e.id /\ T[e].run = e.run
              /\ T[e].status \notin PendingStatuses
          BY <1>2, <5>1 DEF Succeeds
        <5>3. Originates(Q, q) BY <3>2, <4>1, <5>1, <5>2 DEF Originates
        <5> QED BY <1>0, <3>2, <3>3, <4>1, <5>3
      <4> QED BY <4>1, <4>2, <4>3 DEF Originates
    <3>4. CASE ~IsEntry(r)
      <4>1. PICK e \in R : /\ IsEntry(e) /\ e.status \in {"closing", "closed"}
                           /\ r.closes = {e.id} /\ r.id = CloseId(e.id)
        BY <1>4, <3>4 DEF ClosesOne
      <4>2. /\ T[e] \in Q /\ IsEntry(T[e]) /\ T[e].id = e.id
            /\ T[e].status \in {"closing", "closed"}
        BY <1>2, <4>1 DEF Succeeds
      <4>3. q.status \in {"new", "filled"} BY <3>2, <3>4 DEF Succeeds
      <4> QED BY <3>2, <3>4, <4>1, <4>2, <4>3 DEF ClosesOne
    <3> QED BY <3>3, <3>4
  <2>2. CASE OpensClose(R, T, q)
    <3>1. PICK r \in R : q = CloseRow(r) /\ IsEntry(r) /\ T[r].status = "closing"
      BY <2>2 DEF OpensClose
    <3> QED BY <1>2, <1>3, <3>1 DEF ClosesOne
  <2>3. CASE Replaces(R, T, q)
    <3>1. PICK r \in R : /\ q = ReplacementRow(r) /\ IsEntry(r)
                         /\ T[r].status \notin PendingStatuses
      BY <2>3 DEF Replaces
    <3>2. /\ T[r] \in Q /\ IsEntry(T[r]) /\ T[r].id = r.id /\ T[r].run = r.run
          /\ r.run \in 1..n
      BY <1>2, <1>4, <3>1 DEF Succeeds
    <3>3. IsEntry(q) /\ q.run = r.run /\ q.id = AgainId(r.id) BY <1>3, <3>1 DEF IsEntry
    <3> QED BY <1>0, <3>1, <3>2, <3>3 DEF Originates
  <2>4. CASE Fresh(q)
    <3>1. q.run \in 1..m BY <1>0, <1>5, <2>4
    <3> QED BY <1>5, <2>4, <3>1 DEF Originates
  <2> QED BY <1>6, <2>1, <2>2, <2>3, <2>4
<1>9. \A k \in 1..m : \E q \in Q : IsEntry(q) /\ q.run = k
  <2> SUFFICES ASSUME NEW k \in 1..m PROVE \E q \in Q : IsEntry(q) /\ q.run = k OBVIOUS
  <2>1. CASE k \in 1..n
    <3>1. PICK r \in R : IsEntry(r) /\ r.run = k BY <2>1 DEF Booked
    <3>2. T[r] \in Q /\ IsEntry(T[r]) /\ T[r].run = k BY <1>2, <3>1 DEF Succeeds
    <3> QED BY <3>2
  <2>2. CASE k \notin 1..n
    <3>1. m = n + 1 /\ k = m BY <1>0, <2>2 DEF Becoming
    <3> QED BY <1>5, <3>1
  <2> QED BY <2>1, <2>2
<1>10. \A p, q \in Q : p.id = q.id => p = q BY RowsMatch
<1>11. IsFiniteSet(Q) BY DEF Becoming
<1>12. Booked(Q, m) BY <1>7, <1>8, <1>9, <1>10, <1>11 DEF Booked
\* No run comes to hold anything but the new one.
<1>13. \A q \in LiveOf(Q) : q.run \in RunsOf(R) \cup ((n + 1) .. m)
  <2> SUFFICES ASSUME NEW q \in Q, IsEntry(q), q.status \notin {"closed", "canceled"}
               PROVE  q.run \in RunsOf(R) \cup ((n + 1) .. m)
    BY DEF LiveOf
  <2>1. CASE Carries(R, T, q)
    <3>1. PICK r \in R : q = T[r] BY <2>1 DEF Carries
    <3>2. IsEntry(r) /\ q.run = r.run /\ r.status \notin {"closed", "canceled"}
      BY <1>2, <3>1 DEF Succeeds
    <3> QED BY <3>2 DEF RunsOf, LiveOf
  <2>2. CASE OpensClose(R, T, q) BY <1>3, <2>2 DEF OpensClose
  <2>3. CASE Replaces(R, T, q)
    <3>1. PICK r \in R : q = ReplacementRow(r) /\ IsEntry(r) /\ r.status \in PendingStatuses
      BY <2>3 DEF Replaces
    <3>2. q.run = r.run /\ r.status \notin {"closed", "canceled"}
      BY <1>3, <3>1 DEF PendingStatuses
    <3> QED BY <3>1, <3>2 DEF RunsOf, LiveOf
  <2>4. CASE Fresh(q) BY <1>0, <1>5, <2>4
  <2> QED BY <1>6, <2>1, <2>2, <2>3, <2>4
<1>14. RunsOf(Q) \subseteq RunsOf(R) \cup ((n + 1) .. m) BY <1>13 DEF RunsOf
<1> QED BY <1>12, <1>14

(***************************************************************************)
(* What the structures held may lose.                                      *)
(***************************************************************************)
RiskOf(S, a) == SumFunctionOnSet([n \in S |-> a[n].risk], S)

LEMMA HeldIsRisk == HeldLoss = RiskOf(RunsOf(rows), award) /\ Live = LiveOf(rows)
BY DEF HeldLoss, RiskOf, RunsOf, LiveOf, HeldRuns, Live, Entries, IsEntry

\* Fewer runs hold less.
LEMMA RiskOfFewer ==
  ASSUME NEW a, NEW S, IsFiniteSet(S), \A n \in S : a[n].risk \in Nat, NEW R \in SUBSET S
  PROVE  RiskOf(R, a) <= RiskOf(S, a) /\ RiskOf(R, a) \in Nat /\ RiskOf(S, a) \in Nat
<1> DEFINE f == [n \in S |-> a[n].risk]
           g == [n \in R |-> a[n].risk]
<1>1. IsFiniteSet(R) BY FS_Subset
<1>2. \A x \in S : f[x] \in Nat OBVIOUS
<1>3. \A x \in R : f[x] \in Int /\ g[x] = f[x] OBVIOUS
<1>4. {} \in SUBSET R /\ {} \in SUBSET S /\ \A x \in R : f[x] \in Nat OBVIOUS
<1>5. RiskOf(R, a) = SumFunctionOnSet(g, R) /\ RiskOf(S, a) = SumFunctionOnSet(f, S)
  BY DEF RiskOf
<1> HIDE DEF f, g
<1>6. SumFunctionOnSet(f, R) <= SumFunctionOnSet(f, S) BY <1>2, SumOfPart
<1>7. SumFunctionOnSet(g, R) = SumFunctionOnSet(f, R) BY <1>1, <1>3, SumOfEquals
<1>8. SumFunctionOnSet(f, {}) = 0 BY SumOfNone
<1>9. SumFunctionOnSet(f, {}) <= SumFunctionOnSet(f, R) BY ONLY <1>1, <1>4, SumOfPart
<1>10. SumFunctionOnSet(f, R) \in Int /\ SumFunctionOnSet(f, S) \in Int
  BY <1>1, <1>2, <1>3, SumType
<1> QED BY <1>5, <1>6, <1>7, <1>8, <1>9, <1>10

\* An award adds its own risk.
LEMMA RiskOfMore ==
  ASSUME NEW a, NEW b, NEW S, IsFiniteSet(S), NEW x, x \notin S,
         \A n \in S : a[n].risk \in Nat /\ b[n].risk = a[n].risk, b[x].risk \in Nat
  PROVE  RiskOf(S \cup {x}, b) = RiskOf(S, a) + b[x].risk
<1> DEFINE f == [n \in S |-> a[n].risk]
           g == [n \in S \cup {x} |-> b[n].risk]
<1>1. \A y \in S \cup {x} : g[y] \in Int OBVIOUS
<1>2. \A y \in S : f[y] \in Int /\ g[y] = f[y] OBVIOUS
<1>3. g[x] = b[x].risk OBVIOUS
<1>4. /\ RiskOf(S, a) = SumFunctionOnSet(f, S)
      /\ RiskOf(S \cup {x}, b) = SumFunctionOnSet(g, S \cup {x})
  BY DEF RiskOf
<1> HIDE DEF f, g
<1>5. SumFunctionOnSet(g, S \cup {x}) = g[x] + SumFunctionOnSet(g, S) BY <1>1, SumWith
<1>6. SumFunctionOnSet(g, S) = SumFunctionOnSet(f, S) BY <1>2, SumOfEquals
<1>7. SumFunctionOnSet(f, S) \in Int BY <1>2, SumType
<1> QED BY <1>3, <1>4, <1>5, <1>6, <1>7

\* The sum over the open rows covers every run that holds something.
LEMMA OpenRowsCover ==
  ASSUME NEW n \in Nat, Booked(rows, n), \A k \in 1 .. n : award[k].risk \in Nat
  PROVE  HeldLoss <= OpenDefinedLoss /\ OpenDefinedLoss \in Nat
<1> DEFINE open == {r \in rows : r.run # Unapproved /\ r.status \in OpenStatuses}
           live == LiveOf(rows)
           f == [r \in open |-> award[r.run].risk]
           k == [r \in live |-> r.run]
           runs == RunsOf(rows)
           g == [m \in runs |-> award[m].risk]
<1>1. \A r \in rows : r.run \in 0 .. n /\ r.status \in Statuses /\ (IsEntry(r) => r.run \in 1 .. n)
  BY DEF Booked, RowSet
<1>2. live \in SUBSET open
  BY <1>1 DEF LiveOf, Statuses, OpenStatuses, Unapproved
<1>3. IsFiniteSet(open) /\ IsFiniteSet(live)
  <2>1. IsFiniteSet(rows) /\ open \subseteq rows /\ live \subseteq rows BY DEF Booked, LiveOf
  <2> QED BY <2>1, FS_Subset
<1>4. \A r \in open : f[r] \in Nat BY <1>1 DEF Unapproved
<1>5. \A r \in live : f[r] \in Nat /\ g[k[r]] = f[r]
  <2> SUFFICES ASSUME NEW r \in live PROVE f[r] \in Nat /\ g[k[r]] = f[r] OBVIOUS
  <2>1. r \in open /\ k[r] = r.run /\ r.run \in runs BY <1>2 DEF RunsOf
  <2> QED BY <1>4, <2>1
<1>6. runs = {k[r] : r \in live} BY DEF RunsOf
<1>7. OpenDefinedLoss = SumFunctionOnSet(f, open) BY DEF OpenDefinedLoss
<1>8. HeldLoss = SumFunctionOnSet(g, runs) BY HeldIsRisk DEF RiskOf
<1> HIDE DEF f, g, k, open, live, runs
<1>9. SumFunctionOnSet(g, {k[r] : r \in live}) <= SumFunctionOnSet(f, live)
  BY ONLY <1>3, <1>5, SumOfImage
<1>10. SumFunctionOnSet(f, live) <= SumFunctionOnSet(f, open) BY <1>2, <1>3, <1>4, SumOfPart
<1>11. /\ SumFunctionOnSet(f, live) \in Int /\ SumFunctionOnSet(f, open) \in Int
       /\ SumFunctionOnSet(f, {}) = 0
  <2>1. \A r \in open : f[r] \in Int BY <1>4
  <2>2. \A r \in live : f[r] \in Int BY <1>5
  <2> QED BY <1>3, <2>1, <2>2, SumType, SumOfNone
<1>12. SumFunctionOnSet(f, {}) <= SumFunctionOnSet(f, open)
  <2>1. {} \in SUBSET open OBVIOUS
  <2> QED BY <1>3, <1>4, <2>1, SumOfPart
<1>13. SumFunctionOnSet(g, runs) \in Int
  <2>1. IsFiniteSet(runs) BY <1>3, <1>6, FiniteImage
  <2>2. \A m \in runs : g[m] \in Int BY <1>5, <1>6
  <2> QED BY <2>1, <2>2, SumType
<1> QED BY <1>6, <1>7, <1>8, <1>9, <1>10, <1>11, <1>12, <1>13

LEMMA WithRow ==
  ASSUME NEW n, NEW r \in RowSet(n), NEW st \in Statuses
  PROVE  /\ With(r, st) \in RowSet(n)
         /\ With(r, st).id = r.id /\ With(r, st).closes = r.closes
         /\ With(r, st).run = r.run /\ With(r, st).status = st
BY DEF With, RowSet

\* What may become of an entry's row, or of a close's, by its status alone.
LEMMA Successors ==
  ASSUME NEW n, NEW R, Booked(R, n), NEW r \in R
  PROVE  /\ Succeeds(r, r, n)
         /\ ~IsEntry(r) /\ r.status = "new" => Succeeds(r, With(r, "filled"), n)
         /\ IsEntry(r) /\ r.status \notin {"closed", "canceled"} =>
              Succeeds(r, With(r, "closed"), n)
         /\ IsEntry(r) /\ r.status \in HeldStatuses \cup PendingStatuses =>
              Succeeds(r, With(r, "closing"), n)
         /\ IsEntry(r) /\ r.status \in PendingStatuses =>
              \A st \in {"partially_filled", "filled", "partially_filled_canceled", "canceled"} :
                Succeeds(r, With(r, st), n)
<1>1. r \in RowSet(n) /\ r.status \in Statuses BY DEF Booked, RowSet
<1>2. ~IsEntry(r) => r.status \in {"new", "filled"} BY DEF Booked, ClosesOne
<1>3. Succeeds(r, r, n) BY <1>1, <1>2 DEF Succeeds
<1>4. \A st \in Statuses : /\ With(r, st) \in RowSet(n)
         /\ With(r, st).id = r.id /\ With(r, st).closes = r.closes
         /\ With(r, st).run = r.run /\ With(r, st).status = st
  BY <1>1, WithRow
<1>5. {"filled", "closed", "closing", "partially_filled", "partially_filled_canceled", "canceled"}
        \subseteq Statuses
  BY DEF Statuses, PendingStatuses, HeldStatuses
<1>6. ~IsEntry(r) /\ r.status = "new" => Succeeds(r, With(r, "filled"), n)
  BY <1>4, <1>5 DEF Succeeds, PendingStatuses
<1>7. IsEntry(r) /\ r.status \notin {"closed", "canceled"} => Succeeds(r, With(r, "closed"), n)
  BY <1>4, <1>5 DEF Succeeds, PendingStatuses
<1>8. IsEntry(r) /\ r.status \in HeldStatuses \cup PendingStatuses =>
        Succeeds(r, With(r, "closing"), n)
  BY <1>4, <1>5 DEF Succeeds, PendingStatuses, HeldStatuses
<1>9. ASSUME IsEntry(r), r.status \in PendingStatuses,
             NEW st \in {"partially_filled", "filled", "partially_filled_canceled", "canceled"}
      PROVE  Succeeds(r, With(r, st), n)
  <2>1. st \in Statuses BY <1>5
  <2>2. r.status \in {"new", "partially_filled"} BY <1>9 DEF PendingStatuses
  <2> QED BY <1>4, <1>9, <2>1, <2>2 DEF Succeeds
<1> QED BY <1>3, <1>6, <1>7, <1>8, <1>9

\* A row of the book whose status alone changes.
LEMMA OneRowChanges ==
  ASSUME NEW n \in Nat, NEW R, Booked(R, n), NEW r \in R, NEW q, Succeeds(r, q, n)
  PROVE  Booked((R \ {r}) \cup {q}, n)
<1> DEFINE T == [s \in R |-> IF s = r THEN q ELSE s]
           Q == (R \ {r}) \cup {q}
<1>1. \A s \in R : Succeeds(s, T[s], n) BY Successors
<1>2. \A s \in R : T[s] \in Q OBVIOUS
<1>3. \A s \in Q : \E t \in R : s = T[t] OBVIOUS
<1>4. IsFiniteSet(R \ {r}) BY FS_Subset DEF Booked
<1>5. IsFiniteSet(Q) BY <1>4, FS_AddElement
<1> HIDE DEF T, Q
<1>6. Becoming(R, T, Q, n, n) BY <1>1, <1>2, <1>3, <1>5 DEF Becoming
<1> QED BY <1>6, BookKept DEF Q

\* A close's row may go without a trace.
LEMMA OneCloseGoes ==
  ASSUME NEW n \in Nat, NEW R, Booked(R, n), NEW r \in R, ~IsEntry(r)
  PROVE  Booked(R \ {r}, n)
<1> DEFINE T == [s \in R |-> s]
           Q == R \ {r}
<1>1. \A s \in R : Succeeds(s, T[s], n) BY Successors
<1>2. \A s \in R : IsEntry(s) => T[s] \in Q OBVIOUS
<1>3. \A s \in Q : \E t \in R : s = T[t] OBVIOUS
<1>4. IsFiniteSet(Q) BY FS_Subset DEF Booked
<1> HIDE DEF T, Q
<1>5. Becoming(R, T, Q, n, n) BY <1>1, <1>2, <1>3, <1>4 DEF Becoming
<1> QED BY <1>5, BookKept DEF Q

LEMMA BrokerKeepsBook ==
  ASSUME NEW n \in Nat, Booked(rows, n), BrokerMoves
  PROVE  Booked(rows', n)
<1>1. PICK r \in rows : Fill(r) \/ Lapse(r) BY DEF BrokerMoves
<1>2. "new" \in PendingStatuses /\ "partially_filled" \in PendingStatuses BY DEF PendingStatuses
<1>3. CASE Fill(r)
  <2>1. PICK st \in {"partially_filled", "filled"} :
          /\ rows' = (rows \ {r}) \cup {With(r, st)}
          /\ IF IsEntry(r) THEN r.status \in PendingStatuses ELSE r.status = "new" /\ st = "filled"
    BY <1>2, <1>3 DEF Fill, Becomes, IsEntry
  <2>2. Succeeds(r, With(r, st), n) BY <2>1, Successors
  <2> QED BY <2>1, <2>2, OneRowChanges
<1>4. CASE Lapse(r)
  <2>1. CASE IsEntry(r)
    <3>1. /\ rows' = (rows \ {r}) \cup {With(r, CanceledStatus(r))}
          /\ r.status \in PendingStatuses
      BY <1>4, <2>1 DEF Lapse, Becomes, IsEntry
    <3>2. CanceledStatus(r) \in {"partially_filled_canceled", "canceled"} BY DEF CanceledStatus
    <3>3. Succeeds(r, With(r, CanceledStatus(r)), n) BY <2>1, <3>1, <3>2, Successors
    <3> QED BY <3>1, <3>3, OneRowChanges
  <2>2. CASE ~IsEntry(r)
    <3>1. rows' = rows \ {r} BY <1>4, <2>2 DEF Lapse, IsEntry
    <3> QED BY <2>2, <3>1, OneCloseGoes
  <2> QED BY <2>1, <2>2
<1> QED BY <1>1, <1>3, <1>4

\* A structure whose close has filled is settled; nothing else changes.
LEMMA SettledKeepsBook ==
  ASSUME NEW n \in Nat, Booked(rows, n)
  PROVE  /\ Booked(Settled, n) /\ RunsOf(Settled) \subseteq RunsOf(rows)
         /\ \A e \in Closeable(Settled), c \in Settled : c.closes # {e.id}
<1> DEFINE Due(r) == r.closes = {} /\ r.status = "closing" /\ ClosedBy(r)
           T == [r \in rows |-> IF Due(r) THEN With(r, "closed") ELSE r]
<1>1. \A r \in rows : Succeeds(r, T[r], n)
  <2> SUFFICES ASSUME NEW r \in rows PROVE Succeeds(r, T[r], n) OBVIOUS
  <2>1. CASE Due(r)
    <3>1. IsEntry(r) /\ r.status \notin {"closed", "canceled"} BY <2>1 DEF IsEntry
    <3> QED BY <2>1, <3>1, Successors
  <2>2. CASE ~Due(r) BY <2>2, Successors
  <2> QED BY <2>1, <2>2
<1>2. Settled = {T[r] : r \in rows} BY DEF Settled
<1>3. \A r \in rows : Due(r) => T[r].status = "closed"
  <2>1. \A r \in rows : r \in RowSet(n) BY DEF Booked
  <2>2. "closed" \in Statuses BY DEF Statuses
  <2> QED BY <2>1, <2>2, WithRow
<1>4. \A r \in rows : ~Due(r) => T[r] = r OBVIOUS
<1>5. IsFiniteSet(Settled)
  <2>1. IsFiniteSet(rows) BY DEF Booked
  <2> HIDE DEF T
  <2> QED BY <1>2, <2>1, FiniteImage
<1> HIDE DEF T
<1>6. Becoming(rows, T, Settled, n, n) BY <1>1, <1>2, <1>5 DEF Becoming
<1>7. Booked(Settled, n) /\ RunsOf(Settled) \subseteq RunsOf(rows) \cup ((n + 1) .. n)
  BY <1>6, BookKept
<1>8. ASSUME NEW e \in Closeable(Settled), NEW c \in Settled, c.closes = {e.id} PROVE FALSE
  <2>1. e \in Settled /\ IsEntry(e) /\ e.status # "closed"
        /\ ~(c.closes = {e.id} /\ c.status = "new")
    BY DEF Closeable, IsEntry, HeldStatuses
  <2>2. ~IsEntry(c) BY <1>8 DEF IsEntry
  <2>3. PICK o \in Settled : o.status \in {"closing", "closed"} /\ c.closes = {o.id}
        /\ c.status \in {"new", "filled"}
    BY <1>7, <2>2 DEF Booked, ClosesOne
  <2>4. o = e
    <3>1. o.id = e.id BY <1>8, <2>3
    <3> QED BY <1>7, <2>1, <3>1 DEF Booked
  <2>5. e.status = "closing" /\ c.status = "filled" BY <1>8, <2>1, <2>3, <2>4
  <2>6. PICK e0 \in rows, c0 \in rows : e = T[e0] /\ c = T[c0] BY <1>2, <2>1
  <2>7. e = e0 /\ ~Due(e) BY <1>3, <1>4, <2>5, <2>6
  <2>8. c = c0 BY <1>3, <1>4, <2>5, <2>6
  <2>9. ClosedBy(e) BY <1>8, <2>5, <2>6, <2>8 DEF ClosedBy, Closes
  <2> QED BY <2>1, <2>5, <2>7, <2>9 DEF IsEntry
<1> QED BY <1>7, <1>8

\* What a cycle does to a settled book S: it finds entries filled, exits and
\* cancels some of the others, and replaces some of those.
Managed(S, fresh, exits, replaced, canceled) ==
  (S \ (exits \cup canceled \cup fresh))
    \cup {With(r, "filled") : r \in fresh}
    \cup {With(r, "closing") : r \in exits}
    \cup {With(r, CanceledStatus(r)) : r \in Kept(canceled, replaced)}
    \cup {CloseRow(r) : r \in exits}
    \cup Replacements(replaced)

LEMMA ManagedKeepsBook ==
  ASSUME NEW n \in Nat, NEW S, Booked(S, n), NEW fresh, NEW exits, NEW replaced, NEW canceled,
         fresh \subseteq {r \in S : IsEntry(r) /\ r.status \in PendingStatuses},
         canceled \subseteq {r \in S : IsEntry(r) /\ r.status \in PendingStatuses} \ fresh,
         exits \subseteq Closeable(S), replaced \subseteq canceled,
         \A e \in Closeable(S), c \in S : c.closes # {e.id}
  PROVE  /\ Booked(Managed(S, fresh, exits, replaced, canceled), n)
         /\ RunsOf(Managed(S, fresh, exits, replaced, canceled)) \subseteq RunsOf(S)
<1> DEFINE Q == Managed(S, fresh, exits, replaced, canceled)
           Stays(r) == r \in replaced /\ CanceledStatus(r) = "canceled"
           T == [r \in S |->
                  IF r \in fresh THEN With(r, "filled")
                  ELSE IF r \in exits THEN With(r, "closing")
                  ELSE IF r \in canceled /\ ~Stays(r) THEN With(r, CanceledStatus(r)) ELSE r]
<1>1. \A r \in exits : /\ r \in S /\ IsEntry(r) /\ r.status \in HeldStatuses
                       /\ r \notin fresh /\ r \notin canceled
  BY DEF Closeable, IsEntry, HeldStatuses, PendingStatuses
<1>2. \A r \in fresh \cup canceled : r \in S /\ IsEntry(r) /\ r.status \in PendingStatuses
  OBVIOUS
<1>3. \A r \in canceled : r \notin fresh OBVIOUS
<1>4. \A r : CanceledStatus(r) \in {"partially_filled_canceled", "canceled"} BY DEF CanceledStatus
<1>5. /\ \A r \in fresh : T[r] = With(r, "filled")
      /\ \A r \in exits : T[r] = With(r, "closing")
      /\ \A r \in canceled : T[r] = IF Stays(r) THEN r ELSE With(r, CanceledStatus(r))
      /\ \A r \in S : r \notin exits \cup canceled \cup fresh => T[r] = r
  BY <1>1, <1>2, <1>3
<1> HIDE DEF T
<1>6. \A r \in S : Succeeds(r, T[r], n)
  <2> SUFFICES ASSUME NEW r \in S PROVE Succeeds(r, T[r], n) OBVIOUS
  <2>1. CASE r \in fresh BY <1>2, <1>5, <2>1, Successors
  <2>2. CASE r \in exits BY <1>1, <1>5, <2>2, Successors
  <2>3. CASE r \in canceled
    <3>1. CASE Stays(r) BY <1>5, <2>3, <3>1, Successors
    <3>2. CASE ~Stays(r)
      <4>1. IsEntry(r) /\ r.status \in PendingStatuses BY <1>2, <2>3
      <4>2. T[r] = With(r, CanceledStatus(r)) BY <1>5, <2>3, <3>2
      <4>3. Succeeds(r, With(r, CanceledStatus(r)), n) BY <1>4, <4>1, Successors
      <4> QED BY <4>2, <4>3
    <3> QED BY <3>1, <3>2
  <2>4. CASE r \notin exits \cup canceled \cup fresh BY <1>5, <2>4, Successors
  <2> QED BY <2>1, <2>2, <2>3, <2>4
<1>7. \A r \in S : T[r] \in Q
  <2> SUFFICES ASSUME NEW r \in S PROVE T[r] \in Q OBVIOUS
  <2>1. CASE r \in fresh BY <1>5, <2>1 DEF Managed
  <2>2. CASE r \in exits BY <1>5, <2>2 DEF Managed
  <2>3. CASE r \in canceled
    <3>1. CASE Stays(r)
      <4>1. T[r] = r /\ r \in Replacements(replaced) BY <1>5, <2>3, <3>1 DEF Replacements
      <4> QED BY <4>1 DEF Managed
    <3>2. CASE ~Stays(r)
      <4>1. T[r] = With(r, CanceledStatus(r)) /\ r \in Kept(canceled, replaced)
        BY <1>5, <2>3, <3>2 DEF Kept
      <4> QED BY <4>1 DEF Managed
    <3> QED BY <3>1, <3>2
  <2>4. CASE r \notin exits \cup canceled \cup fresh BY <1>5, <2>4 DEF Managed
  <2> QED BY <2>1, <2>2, <2>3, <2>4
<1>8. "closing" \in Statuses /\ "partially_filled_canceled" \in Statuses
  BY DEF Statuses, HeldStatuses
<1>9. \A r \in S : r \in RowSet(n) BY DEF Booked
<1>10. \A q \in Q :
         \/ \E r \in S : q = T[r]
         \/ \E r \in exits : q = CloseRow(r)
         \/ \E r \in replaced : q = ReplacementRow(r) /\ CanceledStatus(r) # "canceled"
  <2> SUFFICES ASSUME NEW q \in Q
               PROVE  \/ \E r \in S : q = T[r]
                      \/ \E r \in exits : q = CloseRow(r)
                      \/ \E r \in replaced : q = ReplacementRow(r) /\ CanceledStatus(r) # "canceled"
    OBVIOUS
  <2>1. CASE q \in S \ (exits \cup canceled \cup fresh) BY <1>5, <2>1
  <2>2. CASE q \in {With(r, "filled") : r \in fresh} BY <1>2, <1>5, <2>2
  <2>3. CASE q \in {With(r, "closing") : r \in exits} BY <1>1, <1>5, <2>3
  <2>4. CASE q \in {With(r, CanceledStatus(r)) : r \in Kept(canceled, replaced)}
    <3>1. PICK r \in canceled : q = With(r, CanceledStatus(r)) /\ ~Stays(r) BY <2>4 DEF Kept
    <3>2. q = T[r] /\ r \in S BY <1>2, <1>5, <3>1
    <3> QED BY <3>2
  <2>5. CASE q \in {CloseRow(r) : r \in exits} BY <2>5
  <2>6. CASE q \in Replacements(replaced)
    <3>1. PICK r \in replaced : q = IF CanceledStatus(r) = "canceled" THEN r ELSE ReplacementRow(r)
      BY <2>6 DEF Replacements
    <3>2. CASE CanceledStatus(r) = "canceled"
      <4>1. r \in S /\ q = T[r] BY <1>2, <1>5, <3>1, <3>2
      <4> QED BY <4>1
    <3>3. CASE CanceledStatus(r) # "canceled" BY <3>1, <3>3
    <3> QED BY <3>2, <3>3
  <2> QED BY <2>1, <2>2, <2>3, <2>4, <2>5, <2>6 DEF Managed
<1>11. IsFiniteSet(Q)
  <2> DEFINE c == [r \in S |-> CloseRow(r)]
             a == [r \in S |-> ReplacementRow(r)]
             A == {T[r] : r \in S}
             B == {c[r] : r \in S}
             C == {a[r] : r \in S}
  <2>1. Q \subseteq (A \cup B) \cup C BY <1>1, <1>2, <1>10
  <2>2. IsFiniteSet(S) BY DEF Booked
  <2> HIDE DEF Q, c, a
  <2>3. IsFiniteSet(A) /\ IsFiniteSet(B) /\ IsFiniteSet(C) BY <2>2, FiniteImage
  <2> HIDE DEF A, B, C
  <2>4. IsFiniteSet((A \cup B) \cup C) BY <2>3, FS_Union
  <2> QED BY <2>1, <2>4, FS_Subset
<1>12. \A r \in exits : T[r].status = "closing" BY <1>1, <1>5, <1>8, <1>9, WithRow
<1>13. \A r \in replaced : CanceledStatus(r) # "canceled" =>
         IsEntry(r) /\ r.status \in PendingStatuses /\ T[r].status \notin PendingStatuses
  <2> SUFFICES ASSUME NEW r \in replaced, CanceledStatus(r) # "canceled"
               PROVE  /\ IsEntry(r) /\ r.status \in PendingStatuses
                      /\ T[r].status \notin PendingStatuses
    OBVIOUS
  <2>1. r \in S /\ IsEntry(r) /\ r.status \in PendingStatuses BY <1>2
  <2>2. T[r] = With(r, "partially_filled_canceled") BY <1>4, <1>5
  <2>3. T[r].status = "partially_filled_canceled" BY <1>8, <1>9, <2>1, <2>2, WithRow
  <2> QED BY <2>1, <2>3 DEF PendingStatuses
<1> HIDE DEF Q
<1>14. Becoming(S, T, Q, n, n)
  <2>1. \A q \in Q :
       \/ \E r \in S : q = T[r]
       \/ \E r \in S : /\ q = CloseRow(r) /\ IsEntry(r) /\ T[r].status = "closing"
                       /\ \A c \in S : c.closes # {r.id}
       \/ \E r \in S : /\ q = ReplacementRow(r) /\ IsEntry(r)
                       /\ r.status \in PendingStatuses /\ T[r].status \notin PendingStatuses
    <3> SUFFICES ASSUME NEW q \in Q, ~ \E r \in S : q = T[r]
                 PROVE  \/ \E r \in S : /\ q = CloseRow(r) /\ IsEntry(r) /\ T[r].status = "closing"
                                        /\ \A c \in S : c.closes # {r.id}
                        \/ \E r \in S : /\ q = ReplacementRow(r) /\ IsEntry(r)
                                        /\ r.status \in PendingStatuses
                                        /\ T[r].status \notin PendingStatuses
      OBVIOUS
    <3>1. CASE \E r \in exits : q = CloseRow(r)
      <4>1. PICK r \in exits : q = CloseRow(r) BY <3>1
      <4>2. r \in S /\ IsEntry(r) /\ T[r].status = "closing" /\ \A c \in S : c.closes # {r.id}
        BY <1>1, <1>12, <4>1
      <4> QED BY <4>1, <4>2
    <3>2. CASE \E r \in replaced : q = ReplacementRow(r) /\ CanceledStatus(r) # "canceled"
      <4>1. PICK r \in replaced : q = ReplacementRow(r) /\ CanceledStatus(r) # "canceled" BY <3>2
      <4>2. r \in S BY <1>2
      <4> QED BY <1>13, <4>1, <4>2
    <3> QED BY <1>10, <3>1, <3>2
  <2>2. n # n + 1 /\ n \in {n, n + 1} OBVIOUS
  <2>3. \A r \in S : IsEntry(r) => T[r] \in Q BY <1>7
  <2> QED BY <1>6, <1>11, <2>1, <2>2, <2>3, Zenon DEF Becoming
<1>15. Booked(Q, n) /\ RunsOf(Q) \subseteq RunsOf(S) \cup ((n + 1) .. n) BY <1>14, BookKept
<1> QED BY <1>15 DEF Q

\* The closes of a run that approves an entry are joined with its award.
LEMMA EntryKeepsBook ==
  ASSUME NEW n \in Nat, Booked(rows, n), NEW ids, \A r \in rows : r.id \in ids => ~IsEntry(r),
         rows' = {IF r.id \in ids THEN [r EXCEPT !.run = n + 1] ELSE r : r \in rows}
                   \cup {[id |-> <<n + 1>>, run |-> n + 1, closes |-> {}, status |-> "new"]}
  PROVE  Booked(rows', n + 1) /\ RunsOf(rows') \subseteq RunsOf(rows) \cup {n + 1}
<1> DEFINE m == n + 1
           T == [r \in rows |-> IF r.id \in ids THEN [r EXCEPT !.run = m] ELSE r]
           Q == {T[r] : r \in rows} \cup {EntryRow(m)}
<1>1. rows' = Q BY DEF EntryRow
<1>2. \A r \in rows : r \in RowSet(n) /\ r \in RowSet(m) BY DEF Booked, RowSet
<1>3. \A r \in rows : Succeeds(r, T[r], m)
  <2> SUFFICES ASSUME NEW r \in rows PROVE Succeeds(r, T[r], m) OBVIOUS
  <2>1. Succeeds(r, r, n) BY Successors
  <2>2. Succeeds(r, r, m) BY <1>2, <2>1 DEF Succeeds
  <2>3. CASE r.id \in ids
    <3>1. ~IsEntry(r) /\ T[r] = [r EXCEPT !.run = m] BY <2>3
    <3>2. m \in 0 .. m OBVIOUS
    <3>3. /\ T[r] \in RowSet(m) /\ T[r].id = r.id /\ T[r].closes = r.closes
          /\ T[r].status = r.status
      BY <1>2, <3>1, <3>2 DEF RowSet
    <3> QED BY <2>2, <3>1, <3>3 DEF Succeeds
  <2>4. CASE r.id \notin ids BY <2>2, <2>4
  <2> QED BY <2>3, <2>4
<1>4. IsFiniteSet(Q)
  <2>1. IsFiniteSet(rows) BY DEF Booked
  <2> HIDE DEF T
  <2>2. IsFiniteSet({T[r] : r \in rows}) BY <2>1, FiniteImage
  <2> QED BY <2>2, FS_AddElement
<1> HIDE DEF T
<1>5. Becoming(rows, T, Q, n, m)
  <2>1. m \in {n, n + 1} /\ m = n + 1 OBVIOUS
  <2>2. EntryRow(m) \in Q /\ \A r \in rows : T[r] \in Q OBVIOUS
  <2>3. \A q \in Q : (\E r \in rows : q = T[r]) \/ q = EntryRow(m) OBVIOUS
  <2> HIDE DEF Q, m
  <2>4. \A q \in Q : (\E r \in rows : q = T[r]) \/ (m = n + 1 /\ q = EntryRow(m))
    BY <2>1, <2>3
  <2>5. n \in Nat OBVIOUS
  <2> QED BY ONLY <1>3, <1>4, <2>1, <2>2, <2>4, <2>5 DEF Becoming
<1>6. Booked(Q, m) /\ RunsOf(Q) \subseteq RunsOf(rows) \cup ((n + 1) .. m)
  <2> HIDE DEF Q, m
  <2> QED BY <1>5, BookKept
<1>7. (n + 1) .. m = {n + 1} OBVIOUS
<1> QED BY <1>1, <1>6, <1>7

(***************************************************************************)
(* What the engine awards.                                                 *)
(***************************************************************************)
LEMMA TierOf ==
  ASSUME NEW c, NEW x
  PROVE  /\ Tier(c, x) \in {"earnings", "final_hour", "maverick", "high_conviction", "standard"}
         /\ Tier(c, x) = "maverick" => MaverickApplies(c, x)
<1>1. FinalHourWindow(x.now) \in BOOLEAN BY DEF FinalHourWindow
<1>2. CASE c.action = "earnings_condor" BY <1>2 DEF Tier
<1>3. CASE c.action # "earnings_condor" /\ FinalHourWindow(x.now) BY <1>3 DEF Tier
<1>4. CASE c.action # "earnings_condor" /\ ~FinalHourWindow(x.now) BY <1>4 DEF Tier
<1> QED BY <1>1, <1>2, <1>3, <1>4

LEMMA Products == \A a, b, n \in Nat : a <= b => a * n <= b * n
OBVIOUS

LEMMA Reordered == \A w, m, q \in Nat : w * (m * q) = q * (w * m)
OBVIOUS

\* An award fits into what the index cluster's share leaves over.
LEMMA AwardFits ==
  ASSUME NEW c \in Candidates, NEW x, Approved(c, x), x.equity \in Int, x.loss \in Nat
  PROVE  /\ AwardedRisk(c, x) \in Nat
         /\ Whole * (x.loss + AwardedRisk(c, x)) <= x.equity * index_cluster_pct_at(x.now)
<1> DEFINE amount == Higher(0, Lower(Budget(c, x), Headroom(x)))
           unit == Whole * c.maxLoss
           size == Quantity(c, x)
           cluster == ClusterRemaining(x)
<1>1. c.maxLoss \in Nat \ {0} /\ c.depth \in Nat /\ Whole = 10000
  BY ConstantsAssumption DEF Whole
<1>2. unit \in Nat \ {0} BY <1>1
<1>3. index_cluster_pct_at(x.now) \in Nat /\ total_defined_loss_pct_at(x.now) \in Nat
  BY DEF index_cluster_pct_at, total_defined_loss_pct_at
<1>4. cluster \in Int /\ TotalRemaining(x) \in Int
  BY <1>1, <1>3 DEF ClusterRemaining, TotalRemaining
<1>5. Headroom(x) \in Int /\ Headroom(x) <= cluster BY <1>4 DEF Headroom, Lower
<1>6. Budget(c, x) \in Int
  <2>1. /\ x.equity * 35 \in Int /\ x.equity * 1200 \in Int /\ x.equity * 600 \in Int
        /\ x.equity * 300 \in Int
    OBVIOUS
  <2>2. Tier(c, x) \in {"earnings", "final_hour", "maverick", "high_conviction", "standard"}
    BY TierOf
  <2> QED BY <1>5, <2>1, <2>2 DEF Budget
<1>7. amount \in Nat /\ (amount > 0 => amount <= cluster)
  BY <1>4, <1>5, <1>6 DEF Higher, Lower
<1>8. BudgetQuantity(c, x) = amount \div unit BY DEF BudgetQuantity
<1> HIDE DEF amount, unit, cluster
<1>9. amount \div unit \in Nat /\ (amount \div unit) * unit <= amount BY <1>2, <1>7, Quotient
<1>10. size \in Nat /\ size >= 1 /\ size <= amount \div unit
  <2>1. size >= 1 BY DEF Approved
  <2>2. size = amount \div unit \/ size = Lower(amount \div unit, c.depth)
    BY <1>8 DEF Quantity
  <2> HIDE DEF size
  <2> QED BY <1>1, <1>9, <2>1, <2>2 DEF Lower
<1> HIDE DEF size
<1>11. size * unit <= (amount \div unit) * unit BY <1>2, <1>9, <1>10, Products
<1>12. size * unit <= amount /\ size * unit \in Nat /\ (amount \div unit) * unit \in Nat
  BY <1>2, <1>7, <1>9, <1>10, <1>11
<1>13. 1 * unit <= size * unit BY <1>2, <1>10, Products
<1>14. size * unit <= cluster
  <2>1. amount > 0 BY <1>2, <1>7, <1>12, <1>13
  <2> QED BY <1>4, <1>7, <1>12, <2>1 DEF cluster
<1>15. AwardedRisk(c, x) = c.maxLoss * size BY DEF AwardedRisk, size
<1>16. Whole * (c.maxLoss * size) = size * unit BY <1>1, <1>10, Reordered DEF unit
<1>17. c.maxLoss * size \in Nat BY <1>1, <1>10
<1>18. Whole * (x.loss + c.maxLoss * size) = Whole * x.loss + size * unit
  <2>1. \A a, b \in Nat : Whole * (a + b) = Whole * a + Whole * b BY <1>1
  <2> QED BY <1>16, <1>17, <2>1
<1>19. cluster = x.equity * index_cluster_pct_at(x.now) - Whole * x.loss
  BY DEF cluster, ClusterRemaining
<1>20. x.equity * index_cluster_pct_at(x.now) \in Int /\ Whole * x.loss \in Int BY <1>1, <1>3
<1> QED BY <1>12, <1>14, <1>15, <1>17, <1>18, <1>19, <1>20

(***************************************************************************)
(* The account of the awards.                                              *)
(***************************************************************************)
Kinds ==
  /\ now \in Instants \cup {0}
  /\ award \in Seq(Account)
  /\ control.status \in {"clear", "provisional", "latched"} /\ control.envelope \in Nat
  /\ marks.first \in Int /\ marks.first <= marks.peak
  /\ switch \in [kill : BOOLEAN, clean : BOOLEAN]
  /\ run.pc # "idle" => run.clean \in BOOLEAN

\* Since the cycle measured the open loss no run has come to hold more.
Measured ==
  /\ run.pc \in Active => run.loss \in Nat /\ HeldLoss <= run.loss
  /\ run.pc = "decide" => \A r \in rows : r.id \in run.closes => ~IsEntry(r)

\* The one-shot is awarded on the final day, to a directional entry, once.
OneShot ==
  /\ \A n \in DOMAIN award : award[n].tier = "maverick" =>
       award[n].day = FinalDay /\ award[n].directional
  /\ \A i, j \in DOMAIN award :
       award[i].tier = "maverick" /\ award[j].tier = "maverick" => i = j

\* The inductive invariant.
BookInv ==
  /\ DayInv /\ Kinds /\ Booked(rows, Len(award))
  /\ Measured /\ OneShot

LEMMA Awards ==
  ASSUME award \in Seq(Account)
  PROVE  /\ Len(award) \in Nat /\ DOMAIN award = 1 .. Len(award)
         /\ \A k \in 1 .. Len(award) : award[k] \in Account /\ award[k].risk \in Nat
<1>1. /\ Len(award) \in Nat /\ DOMAIN award = 1 .. Len(award)
      /\ \A k \in 1 .. Len(award) : award[k] \in Account
  OBVIOUS
<1>2. \A x \in Account : x.risk \in Nat BY DEF Account
<1> QED BY <1>1, <1>2

\* HeldLoss depends on rows and awards alone, and runs that end leave it smaller.
LEMMA HeldLossFalls ==
  ASSUME BookInv, award' = award, RunsOf(rows') \subseteq RunsOf(rows)
  PROVE  HeldLoss' <= HeldLoss /\ HeldLoss \in Nat /\ HeldLoss' \in Nat
<1>1. HeldLoss = RiskOf(RunsOf(rows), award) BY HeldIsRisk
<1>2. HeldLoss' = RiskOf(RunsOf(rows'), award')
  BY DEF HeldLoss, RiskOf, RunsOf, LiveOf, HeldRuns, Live, Entries, IsEntry
<1>3. IsFiniteSet(RunsOf(rows)) /\ \A k \in RunsOf(rows) : award[k].risk \in Nat
  <2>1. IsFiniteSet(LiveOf(rows)) BY FS_Subset DEF LiveOf, BookInv, Booked
  <2> DEFINE k == [r \in LiveOf(rows) |-> r.run]
  <2>2. RunsOf(rows) = {k[r] : r \in LiveOf(rows)} BY DEF RunsOf
  <2> HIDE DEF k
  <2>3. IsFiniteSet(RunsOf(rows)) BY <2>1, <2>2, FiniteImage
  <2>4. \A r \in LiveOf(rows) : r.run \in 1 .. Len(award) BY DEF LiveOf, BookInv, Booked
  <2>5. \A j \in 1 .. Len(award) : award[j].risk \in Nat BY Awards DEF BookInv, Kinds
  <2> QED BY <2>3, <2>4, <2>5 DEF RunsOf
<1>4. RiskOf(RunsOf(rows'), award) <= RiskOf(RunsOf(rows), award)
      /\ RiskOf(RunsOf(rows'), award) \in Nat /\ RiskOf(RunsOf(rows), award) \in Nat
  BY <1>3, RiskOfFewer
<1> QED BY <1>1, <1>2, <1>4

LEMMA InitBook == Init => BookInv
<1> SUFFICES ASSUME Init PROVE BookInv OBVIOUS
<1>1. DayInv BY InitDay
<1>2. /\ now = 0 /\ award = <<>> /\ rows = {} /\ run.pc = "idle"
      /\ control.status = "clear" /\ control.envelope = 0
      /\ marks.first = 0 /\ marks.peak = 0 /\ switch \in [kill : BOOLEAN, clean : BOOLEAN]
  BY DEF Init, Idle
<1>3. Kinds BY <1>2 DEF Kinds
<1>4. Len(award) = 0 /\ DOMAIN award = {} BY <1>2
<1>5. Booked(rows, Len(award)) BY <1>2, <1>4, FS_EmptySet DEF Booked
<1>6. Measured BY <1>2 DEF Measured, Active
<1>7. OneShot BY <1>4 DEF OneShot
<1> QED BY <1>1, <1>3, <1>5, <1>6, <1>7 DEF BookInv

\* A step that leaves the rows and the awards alone.
LEMMA QuietKeeps ==
  ASSUME BookInv, DayInv', UNCHANGED <<rows, award>>,
         now' \in Instants \cup {0},
         control'.status \in {"clear", "provisional", "latched"}, control'.envelope \in Nat,
         marks'.first \in Int, marks'.first <= marks'.peak,
         switch' \in [kill : BOOLEAN, clean : BOOLEAN],
         run'.pc \in Active => run'.loss \in Nat /\ HeldLoss <= run'.loss,
         run'.pc # "idle" => run'.clean \in BOOLEAN,
         run'.pc # "decide"
  PROVE  BookInv'
<1>1. Kinds' BY DEF Kinds, BookInv
<1>2. HeldLoss' = HeldLoss BY DEF HeldLoss, HeldRuns, Live, Entries
<1>3. Measured' BY <1>2 DEF Measured
<1>4. OneShot' BY DEF OneShot, BookInv
<1>5. Booked(rows', Len(award')) BY DEF BookInv
<1>6. Booked(rows, Len(award))' BY <1>5 DEF Booked, RowSet, IsEntry, Originates, ClosesOne
<1> QED BY <1>1, <1>3, <1>4, <1>6 DEF BookInv

LEMMA BrokerKeeps == ASSUME BookInv, DayInv', BrokerMoves PROVE BookInv'
<1>1. run.pc = "idle" /\ UNCHANGED <<now, run, control, marks, award, switch, session>>
  BY DEF BrokerMoves
<1>2. Len(award) \in Nat BY Awards DEF BookInv, Kinds
<1>3. Booked(rows', Len(award')) BY <1>1, <1>2, BrokerKeepsBook DEF BookInv
<1>4. Booked(rows, Len(award))' BY <1>3 DEF Booked, RowSet, IsEntry, Originates, ClosesOne
<1>5. Kinds' /\ OneShot' BY <1>1 DEF BookInv, Kinds, OneShot
<1>6. Measured' BY <1>1 DEF Measured, Active
<1> QED BY <1>4, <1>5, <1>6 DEF BookInv

LEMMA BeginKeepsBook ==
  ASSUME BookInv, DayInv', NEW at \in Instants, NEW equity \in Equities, NEW clean \in BOOLEAN,
         Begin(at, equity, clean)
  PROVE  BookInv'
<1>1. UNCHANGED <<marks, rows, award, switch>> /\ now' = at BY DEF Begin
<1>2. HeldLoss <= OpenDefinedLoss /\ OpenDefinedLoss \in Nat
  <2>1. Len(award) \in Nat /\ \A k \in 1 .. Len(award) : award[k].risk \in Nat
    BY Awards DEF BookInv, Kinds
  <2> QED BY <2>1, OpenRowsCover DEF BookInv
<1>3. run'.pc = "judge" /\ run'.loss = OpenDefinedLoss /\ run'.clean \in BOOLEAN BY DEF Begin
<1>4. /\ control'.status \in {"clear", "provisional", "latched"}
      /\ control'.envelope \in Nat
  <2>1. control.envelope \in Nat /\ control.status \in {"clear", "provisional", "latched"}
        /\ DOMAIN control = {"day", "status", "last", "envelope"}
    BY DEF BookInv, Kinds, DayInv, Shaped
  <2>2. Higher(control.envelope, OpenDefinedLoss) \in Nat BY <1>2, <2>1 DEF Higher
  <2>3. CASE control.day = Day(at)
    <3>1. control' = [control EXCEPT !.envelope = Higher(control.envelope, OpenDefinedLoss)]
      BY <2>3 DEF Begin
    <3> QED BY <2>1, <2>2, <3>1
  <2>4. CASE control.day # Day(at)
    <3>1. control' = [day |-> Day(at), status |-> "clear", last |-> 0, envelope |-> OpenDefinedLoss]
      BY <2>4 DEF Begin
    <3> QED BY <1>2, <3>1
  <2> QED BY <2>3, <2>4
<1>5. /\ marks.first \in Int /\ marks.first <= marks.peak
      /\ switch \in [kill : BOOLEAN, clean : BOOLEAN]
  BY DEF BookInv, Kinds
<1> QED BY <1>1, <1>2, <1>3, <1>4, <1>5, QuietKeeps

\* The daily-loss control's steps keep what the cycle has measured.
LEMMA WriteKinds ==
  ASSUME BookInv, NEW status \in {"clear", "provisional", "latched"}, NEW last,
         Write(status, last)
  PROVE  control'.status = status /\ control'.envelope \in Nat
BY DEF BookInv, Kinds, DayInv, Shaped, Write

LEMMA ControlKeepsBook ==
  ASSUME BookInv, DayInv',
         Judge \/ Suspect \/ \E equity \in Equities, marked \in BOOLEAN : Confirm(equity, marked)
  PROVE  BookInv'
<1>1. UNCHANGED <<now, marks, rows, award, switch>> BY DEF Judge, Suspect, Confirm
<1>2. run.pc \in {"judge", "confirm"} BY DEF Judge, Suspect, Confirm
<1>3. DOMAIN run = RunFields /\ run.loss \in Nat /\ HeldLoss <= run.loss /\ run.clean \in BOOLEAN
  BY <1>2 DEF BookInv, Kinds, DayInv, Shaped, Measured, Active
<1>4. run'.pc \in {"manage", "confirm"} /\ run'.loss = run.loss /\ run'.clean = run.clean
  <2>1. CASE Judge BY <1>3, <2>1 DEF Judge, Goto, RunFields
  <2>2. CASE Suspect BY <1>3, <2>2 DEF Suspect, Goto, RunFields
  <2>3. CASE \E equity \in Equities, marked \in BOOLEAN : Confirm(equity, marked)
    <3>1. PICK equity \in Equities : \E peak :
            run' = [run EXCEPT !.pc = "manage", !.equity = equity, !.peak = peak]
      BY <2>3 DEF Confirm
    <3> QED BY <1>3, <3>1 DEF RunFields
  <2> QED BY <2>1, <2>2, <2>3
<1>5. /\ control.status \in {"clear", "provisional", "latched"} /\ control.envelope \in Nat
  BY DEF BookInv, Kinds
<1>6. control'.status \in {"clear", "provisional", "latched"} /\ control'.envelope \in Nat
  <2>1. \/ \E status \in {"clear", "provisional", "latched"},
              e \in Equities \cup {run.raw} : Write(status, Fall(run.start, e))
        \/ UNCHANGED control
    <3>1. CASE Judge BY <3>1 DEF Judge
    <3>2. CASE Suspect BY <3>2 DEF Suspect
    <3>3. CASE \E equity \in Equities, marked \in BOOLEAN : Confirm(equity, marked)
      <4>1. PICK equity \in Equities, status \in {"clear", "provisional", "latched"} :
              Write(status, Fall(run.start, equity))
        BY <3>3 DEF Confirm
      <4> QED BY <4>1
    <3> QED BY <3>1, <3>2, <3>3
  <2> QED BY <1>5, <2>1, WriteKinds
<1>7. /\ now \in Instants \cup {0}
      /\ marks.first \in Int /\ marks.first <= marks.peak
      /\ switch \in [kill : BOOLEAN, clean : BOOLEAN]
  BY DEF BookInv, Kinds
<1> QED BY <1>1, <1>3, <1>4, <1>6, <1>7, QuietKeeps

LEMMA EndKeepsBook ==
  ASSUME BookInv, DayInv',
         CashWins \/ Complete \/ FailClosed \/ Crash \/ ClearKillSwitch \/ Done \/ UNCHANGED vars
  PROVE  BookInv'
<1>1. UNCHANGED <<now, rows, award, control>>
  BY DEF CashWins, Complete, FailClosed, Crash, ClearKillSwitch, Done, vars
<1>2. /\ now \in Instants \cup {0}
      /\ control.status \in {"clear", "provisional", "latched"} /\ control.envelope \in Nat
      /\ marks.first \in Int /\ marks.peak \in Int /\ marks.first <= marks.peak
      /\ switch \in [kill : BOOLEAN, clean : BOOLEAN]
  BY DEF BookInv, Kinds, DayInv, Shaped
<1>3. CASE UNCHANGED vars
  <2>1. UNCHANGED <<now, run, control, marks, rows, award, switch>> BY <1>3 DEF vars
  <2>2. HeldLoss' = HeldLoss BY <2>1 DEF HeldLoss, HeldRuns, Live, Entries
  <2>3. Kinds' /\ OneShot' BY <2>1 DEF BookInv, Kinds, OneShot
  <2>4. Measured' BY <2>1, <2>2 DEF BookInv, Measured
  <2>5. Booked(rows', Len(award')) BY <2>1 DEF BookInv
  <2>6. Booked(rows, Len(award))' BY <2>5 DEF Booked, RowSet, IsEntry, Originates, ClosesOne
  <2> QED BY <2>3, <2>4, <2>6 DEF BookInv
<1>4. CASE Done BY <1>3, <1>4 DEF Done
<1>5. CASE CashWins
  <2>1. run'.pc = "complete" /\ UNCHANGED <<marks, switch>> /\ run'.clean \in BOOLEAN
    BY <1>5 DEF CashWins, Decided, BookInv, Kinds
  <2> QED BY <1>1, <1>2, <2>1, QuietKeeps DEF Active
<1>6. CASE ClearKillSwitch
  <2>1. run.pc = "idle" /\ run' = run /\ marks' = marks
        /\ switch' \in [kill : BOOLEAN, clean : BOOLEAN]
    BY <1>2, <1>6 DEF ClearKillSwitch
  <2> QED BY <1>1, <1>2, <2>1, QuietKeeps DEF Active
<1>7. CASE FailClosed \/ Crash
  <2>1. run'.pc = "idle" /\ marks' = marks /\ switch' \in [kill : BOOLEAN, clean : BOOLEAN]
    <3>1. CASE FailClosed BY <3>1 DEF FailClosed, Idle
    <3>2. CASE Crash BY <1>2, <3>2 DEF Crash, Idle
    <3> QED BY <1>7, <3>1, <3>2
  <2> QED BY <1>1, <1>2, <2>1, QuietKeeps DEF Active
<1>8. CASE Complete
  <2>1. run'.pc = "idle" BY <1>8 DEF Complete, Idle
  <2>2. marks'.first \in Int /\ marks'.first <= marks'.peak
    <3>1. run.equity \in Int BY <1>8 DEF Complete, BookInv, DayInv, Shaped
    <3>2. Higher(marks.peak, run.equity) >= marks.peak
          /\ Higher(marks.peak, run.equity) >= run.equity
          /\ Higher(marks.peak, run.equity) \in Int
      BY <1>2, <3>1, Amounts
    <3>3. \/ marks' = marks
          \/ /\ marks'.first = marks.first \/ marks'.first = run.equity
             /\ marks'.peak = Higher(marks.peak, run.equity)
      BY <1>8 DEF Complete
    <3> QED BY <1>2, <3>1, <3>2, <3>3
  <2>3. switch' \in [kill : BOOLEAN, clean : BOOLEAN]
    <3>1. run.clean \in BOOLEAN BY <1>8 DEF Complete, BookInv, Kinds
    <3> QED BY <1>2, <1>8, <3>1 DEF Complete
  <2> QED BY <1>1, <1>2, <2>1, <2>2, <2>3, QuietKeeps DEF Active
<1> QED BY <1>3, <1>4, <1>5, <1>6, <1>7, <1>8

\* Exits, cancels and replacements move rows, but no run comes to hold more.
LEMMA ManageKeepsBook == ASSUME BookInv, DayInv', Manage PROVE BookInv'
<1>1. run.pc = "manage" /\ UNCHANGED <<now, control, marks, award, switch, session>> BY DEF Manage
<1> DEFINE Pending == {r \in Settled : r.closes = {} /\ r.status \in PendingStatuses}
<1>2. PICK fresh \in SUBSET Pending, exits \in SUBSET Closeable(Settled),
           replaced \in SUBSET Pending, orderly \in BOOLEAN, canceled \in SUBSET Pending :
        /\ replaced \subseteq Pending \ fresh
        /\ canceled = IF AllowNewEntries THEN replaced ELSE Pending \ fresh
        /\ replaced # {} => AllowNewEntries
        /\ rows' = Managed(Settled, fresh, exits, replaced, canceled)
        /\ run' = [run EXCEPT !.pc = "decide", !.clean = @ /\ orderly,
                              !.closes = {CloseRow(r).id : r \in exits}]
  <2>1. PICK fresh \in SUBSET Pending :
          \E exits \in SUBSET Closeable(Settled), replaced \in SUBSET (Pending \ fresh),
             orderly \in BOOLEAN :
            /\ replaced # {} => AllowNewEntries /\ MarketOpen(run.at)
            /\ rows' = Managed(Settled, fresh, exits, replaced,
                              IF AllowNewEntries THEN replaced ELSE Pending \ fresh)
            /\ run' = [run EXCEPT !.pc = "decide", !.clean = @ /\ orderly,
                                  !.closes = {CloseRow(r).id : r \in exits}]
    BY ZenonT(60) DEF Manage, Managed
  <2> HIDE DEF Pending
  <2>2. PICK exits \in SUBSET Closeable(Settled), replaced \in SUBSET (Pending \ fresh),
             orderly \in BOOLEAN :
            /\ replaced # {} => AllowNewEntries /\ MarketOpen(run.at)
            /\ rows' = Managed(Settled, fresh, exits, replaced,
                              IF AllowNewEntries THEN replaced ELSE Pending \ fresh)
            /\ run' = [run EXCEPT !.pc = "decide", !.clean = @ /\ orderly,
                                  !.closes = {CloseRow(r).id : r \in exits}]
    BY <2>1
  <2> DEFINE canceled == IF AllowNewEntries THEN replaced ELSE Pending \ fresh
  <2>3. canceled \in SUBSET Pending /\ replaced \in SUBSET Pending OBVIOUS
  <2> QED BY <2>2, <2>3
<1> DEFINE n == Len(award)
<1>3. n \in Nat /\ Booked(rows, n) BY Awards DEF BookInv, Kinds
<1>4. /\ Booked(Settled, n) /\ RunsOf(Settled) \subseteq RunsOf(rows)
      /\ \A e \in Closeable(Settled), c \in Settled : c.closes # {e.id}
  BY <1>3, SettledKeepsBook
<1>5. replaced \subseteq canceled /\ canceled \subseteq Pending \ fresh BY <1>2
<1>6. Pending = {r \in Settled : IsEntry(r) /\ r.status \in PendingStatuses} BY DEF IsEntry
<1> HIDE DEF n, Pending
<1>7. Booked(rows', n) /\ RunsOf(rows') \subseteq RunsOf(Settled)
  <2>1. /\ fresh \subseteq {r \in Settled : IsEntry(r) /\ r.status \in PendingStatuses}
        /\ canceled \subseteq {r \in Settled : IsEntry(r) /\ r.status \in PendingStatuses} \ fresh
        /\ exits \subseteq Closeable(Settled)
    BY <1>2, <1>5, <1>6
  <2>2. /\ Booked(Managed(Settled, fresh, exits, replaced, canceled), n)
        /\ RunsOf(Managed(Settled, fresh, exits, replaced, canceled)) \subseteq RunsOf(Settled)
    BY <1>3, <1>4, <1>5, <2>1, ManagedKeepsBook
  <2> QED BY <1>2, <2>2
<1>8. HeldLoss' <= HeldLoss /\ HeldLoss \in Nat /\ HeldLoss' \in Nat
  BY <1>1, <1>4, <1>7, HeldLossFalls
<1>9. DOMAIN run = RunFields /\ run.loss \in Nat /\ HeldLoss <= run.loss /\ run.clean \in BOOLEAN
  BY <1>1 DEF BookInv, Kinds, DayInv, Shaped, Measured, Active
<1>10. /\ run'.pc = "decide" /\ run'.loss = run.loss /\ run'.clean \in BOOLEAN
       /\ run'.closes = {CloseRow(r).id : r \in exits}
  <2> DEFINE clean == run.clean /\ orderly
             closes == {CloseRow(r).id : r \in exits}
  <2>1. run' = [run EXCEPT !.pc = "decide", !.clean = clean, !.closes = closes] BY <1>2
  <2>2. clean \in BOOLEAN BY <1>9
  <2> HIDE DEF clean, closes
  <2>3. /\ run'.pc = "decide" /\ run'.loss = run.loss /\ run'.clean = clean
        /\ run'.closes = closes
    BY <1>9, <2>1 DEF RunFields
  <2> QED BY <2>2, <2>3 DEF closes
\* The rows a cycle's closes are listed by are closes.
<1>11. \A r \in rows' : r.id \in run'.closes => ~IsEntry(r)
  <2> SUFFICES ASSUME NEW r \in rows', r.id \in run'.closes PROVE ~IsEntry(r) OBVIOUS
  <2>1. PICK e \in exits : r.id = CloseRow(e).id BY <1>10
  <2>2. CloseRow(e) \in rows' BY <1>2 DEF Managed
  <2>3. r = CloseRow(e) BY <1>7, <2>1, <2>2 DEF Booked
  <2>4. e \in RowSet(n) /\ Len(e.id) > 0 BY <1>2, <1>4 DEF Booked, Closeable
  <2>5. ~IsEntry(CloseRow(e)) BY <1>3, <2>4, NewRows
  <2> QED BY <2>3, <2>5
<1>12. Measured' BY <1>8, <1>9, <1>10, <1>11 DEF Measured, IsEntry
<1>13. Kinds' /\ OneShot' BY <1>1, <1>10 DEF BookInv, Kinds, OneShot
<1>14. Booked(rows', Len(award')) BY <1>1, <1>7 DEF n
<1>15. Booked(rows, Len(award))' BY <1>14 DEF Booked, RowSet, IsEntry, Originates, ClosesOne
<1> QED BY <1>12, <1>13, <1>15 DEF BookInv

\* What an approved entry adds, and that the one-shot was not taken before.
LEMMA Entered ==
  ASSUME BookInv, NEW c \in Candidates, NEW confirmed \in BOOLEAN, Enter(c, confirmed)
  PROVE  /\ award' = Append(award, award'[Len(award) + 1])
         /\ award'[Len(award) + 1] \in Account
         /\ Whole * (run.loss + award'[Len(award) + 1].risk)
              <= run.equity * (IF IsFinalDay(now) THEN 2400 ELSE 1200)
         /\ award'[Len(award) + 1].tier = "maverick" =>
              /\ award'[Len(award) + 1].day = FinalDay
              /\ award'[Len(award) + 1].directional
              /\ \A i \in DOMAIN award : award[i].tier # "maverick"
         /\ control'.envelope = control.envelope + award'[Len(award) + 1].risk
<1> DEFINE x == Context(confirmed)
           new == [risk |-> AwardedRisk(c, x), underlying |-> c.underlying, tier |-> Tier(c, x),
                   day |-> Day(run.at), directional |-> c.action \in DIRECTIONAL_INDEX_ACTIONS]
           n == Len(award)
<1>1. run.pc = "decide" /\ Approved(c, x) /\ award' = Append(award, new)
      /\ control' = [control EXCEPT !.envelope = @ + AwardedRisk(c, x)]
  BY DEF Enter
<1>2. /\ run.at = now /\ now \in Nat /\ run.equity \in Int /\ run.loss \in Nat
      /\ DOMAIN control = {"day", "status", "last", "envelope"}
  BY <1>1 DEF BookInv, DayInv, Shaped, Measured, Active
<1>3. x.equity = run.equity /\ x.loss = run.loss /\ x.now = run.at /\ x.used = MaverickUsed(run.at)
  BY DEF Context
<1> HIDE DEF x
<1>4. /\ AwardedRisk(c, x) \in Nat
      /\ Whole * (run.loss + AwardedRisk(c, x)) <= run.equity * index_cluster_pct_at(now)
  BY <1>1, <1>2, <1>3, AwardFits
<1>5. new \in Account
  <2>1. Day(run.at) \in Nat BY <1>2 DEF Day, MinutesPerDay
  <2>2. Tier(c, x) \in {"earnings", "final_hour", "maverick", "high_conviction", "standard"}
    BY TierOf
  <2>3. (c.action \in DIRECTIONAL_INDEX_ACTIONS) \in BOOLEAN OBVIOUS
  <2> QED BY <1>4, <2>1, <2>2, <2>3 DEF Account
<1>6. new.risk = AwardedRisk(c, x) /\ new.tier = Tier(c, x) /\ new.day = Day(run.at)
      /\ new.directional = (c.action \in DIRECTIONAL_INDEX_ACTIONS)
  OBVIOUS
<1> HIDE DEF new
<1>7. award'[n + 1] = new
  <2>1. award \in Seq(Account) BY DEF BookInv, Kinds
  <2> QED BY <1>1, <1>5, <2>1
<1>8. new.tier = "maverick" =>
        new.day = FinalDay /\ new.directional /\ \A i \in DOMAIN award : award[i].tier # "maverick"
  <2> SUFFICES ASSUME new.tier = "maverick"
               PROVE  /\ new.day = FinalDay /\ new.directional
                      /\ \A i \in DOMAIN award : award[i].tier # "maverick"
    OBVIOUS
  <2>1. MaverickApplies(c, x) BY <1>6, TierOf
  <2>2. IsFinalDay(run.at) /\ ~MaverickUsed(run.at) /\ c.action \in DIRECTIONAL_INDEX_ACTIONS
    BY <1>3, <2>1 DEF MaverickApplies, StrongDirectional
  <2>3. ASSUME NEW i \in DOMAIN award, award[i].tier = "maverick" PROVE FALSE
    <3>1. award[i].day = FinalDay /\ award[i].directional BY <2>3 DEF BookInv, OneShot
    <3>2. i \in 1 .. Len(award) BY Awards DEF BookInv, Kinds
    <3>3. PICK r \in rows : IsEntry(r) /\ r.run = i BY <3>2 DEF BookInv, Booked
    <3> QED BY <2>2, <3>1, <3>3 DEF MaverickUsed, Entries, IsEntry, IsFinalDay
  <2> QED BY <1>6, <2>2, <2>3 DEF IsFinalDay
<1>9. index_cluster_pct_at(now) = IF IsFinalDay(now) THEN 2400 ELSE 1200
  BY DEF index_cluster_pct_at
<1>10. control'.envelope = control.envelope + AwardedRisk(c, x) BY <1>1, <1>2
<1> QED BY <1>1, <1>4, <1>5, <1>6, <1>7, <1>8, <1>9, <1>10

\* An entry adds its own award to what is held, and no more.
LEMMA EntryHolds ==
  ASSUME BookInv, NEW c \in Candidates, NEW confirmed \in BOOLEAN, Enter(c, confirmed)
  PROVE  /\ Booked(rows, Len(award))'
         /\ HeldLoss \in Nat /\ HeldLoss' \in Nat
         /\ HeldLoss' <= HeldLoss + award'[Len(award) + 1].risk
<1> DEFINE n == Len(award)
           new == award'[n + 1]
<1>1. /\ award' = Append(award, new) /\ new \in Account BY Entered
<1>2. /\ award \in Seq(Account) /\ n \in Nat /\ Booked(rows, n)
      /\ DOMAIN award = 1 .. n /\ \A k \in 1 .. n : award[k].risk \in Nat
  BY Awards DEF BookInv, Kinds
<1> HIDE DEF new
<1>3. Len(award') = n + 1 /\ award'[n + 1] = new /\ \A k \in 1 .. n : award'[k] = award[k]
  BY <1>1, <1>2
<1>4. run.pc = "decide" BY DEF Enter
<1>5. \A r \in rows : r.id \in run.closes => ~IsEntry(r) BY <1>4 DEF BookInv, Measured
<1>6. rows' = {IF r.id \in run.closes THEN [r EXCEPT !.run = n + 1] ELSE r : r \in rows}
                \cup {[id |-> <<n + 1>>, run |-> n + 1, closes |-> {}, status |-> "new"]}
  BY DEF Enter
<1> HIDE DEF n
<1>7. Booked(rows', n + 1) /\ RunsOf(rows') \subseteq RunsOf(rows) \cup {n + 1}
  <2> DEFINE ids == run.closes
  <2>1. \A r \in rows : r.id \in ids => ~IsEntry(r) BY <1>5
  <2>2. rows' = {IF r.id \in ids THEN [r EXCEPT !.run = n + 1] ELSE r : r \in rows}
                  \cup {[id |-> <<n + 1>>, run |-> n + 1, closes |-> {}, status |-> "new"]}
    BY <1>6
  <2> HIDE DEF ids
  <2> QED BY <1>2, <2>1, <2>2, EntryKeepsBook
<1>8. Booked(rows, Len(award))' BY <1>3, <1>7 DEF Booked, RowSet, IsEntry, Originates, ClosesOne
<1>9. HeldLoss = RiskOf(RunsOf(rows), award) /\ HeldLoss' = RiskOf(RunsOf(rows'), award')
  BY HeldIsRisk DEF HeldLoss, RiskOf, RunsOf, LiveOf, HeldRuns, Live, Entries, IsEntry
<1> DEFINE S == RunsOf(rows)
<1>10. IsFiniteSet(S) /\ S \subseteq 1 .. n
  <2>1. IsFiniteSet(LiveOf(rows)) BY <1>2, FS_Subset DEF LiveOf, Booked
  <2> DEFINE k == [r \in LiveOf(rows) |-> r.run]
  <2>2. S = {k[r] : r \in LiveOf(rows)} BY DEF RunsOf
  <2>3. \A r \in LiveOf(rows) : r.run \in 1 .. n BY <1>2 DEF LiveOf, Booked
  <2>4. S \subseteq 1 .. n BY <2>3 DEF RunsOf
  <2> HIDE DEF k, S
  <2> QED BY <2>1, <2>2, <2>4, FiniteImage
<1> DEFINE Q == RunsOf(rows')
<1>11. Q \subseteq S \cup {n + 1} BY <1>7
<1> HIDE DEF S, Q
<1>12. new.risk \in Nat BY <1>1 DEF Account
<1>13. \A k \in S : award[k].risk \in Nat /\ award'[k].risk = award[k].risk
  BY <1>2, <1>3, <1>10
<1>14. n + 1 \notin S BY <1>2, <1>10
<1>15. RiskOf(S \cup {n + 1}, award') = RiskOf(S, award) + new.risk
  <2> DEFINE b == award'
             x == n + 1
  <2>1. \A k \in S : award[k].risk \in Nat /\ b[k].risk = award[k].risk BY <1>13
  <2>2. b[x].risk \in Nat /\ b[x].risk = new.risk BY <1>3, <1>12
  <2>3. x \notin S /\ b[x].risk \in Nat BY <1>14, <2>2
  <2>4. IsFiniteSet(S) BY <1>10
  <2> HIDE DEF b, x
  <2>5. RiskOf(S \cup {x}, b) = RiskOf(S, award) + b[x].risk
    BY ONLY <2>1, <2>3, <2>4, RiskOfMore
  <2> QED BY <2>2, <2>5 DEF b, x
<1>16. RiskOf(Q, award') <= RiskOf(S \cup {n + 1}, award') /\ RiskOf(Q, award') \in Nat
  <2> DEFINE b == award'
             T == S \cup {n + 1}
  <2>1. IsFiniteSet(T) BY <1>10, FS_AddElement
  <2>2. \A k \in T : b[k].risk \in Nat BY <1>3, <1>12, <1>13
  <2>3. Q \in SUBSET T BY <1>11
  <2> HIDE DEF b, T
  <2>4. RiskOf(Q, b) <= RiskOf(T, b) /\ RiskOf(Q, b) \in Nat BY <2>1, <2>2, <2>3, RiskOfFewer
  <2> QED BY <2>4 DEF b, T
<1>17. RiskOf(S, award) \in Nat
  <2>1. \A k \in S : award[k].risk \in Nat BY <1>13
  <2>2. S \in SUBSET S OBVIOUS
  <2> QED BY <1>10, <2>1, <2>2, RiskOfFewer
<1>18. HeldLoss = RiskOf(S, award) /\ HeldLoss' = RiskOf(Q, award') BY <1>9 DEF S, Q
<1> QED BY <1>8, <1>15, <1>16, <1>17, <1>18 DEF new, n

LEMMA EnterKeepsBook ==
  ASSUME BookInv, DayInv', NEW c \in Candidates, NEW confirmed \in BOOLEAN, Enter(c, confirmed)
  PROVE  BookInv'
<1> DEFINE n == Len(award)
           new == award'[n + 1]
<1>1. /\ award' = Append(award, new) /\ new \in Account
      /\ new.tier = "maverick" =>
           /\ new.day = FinalDay /\ new.directional
           /\ \A i \in DOMAIN award : award[i].tier # "maverick"
      /\ control'.envelope = control.envelope + new.risk
  BY Entered
<1>2. /\ award \in Seq(Account) /\ n \in Nat /\ DOMAIN award = 1 .. n BY Awards DEF BookInv, Kinds
<1> HIDE DEF new
<1>3. /\ award' \in Seq(Account) /\ DOMAIN award' = 1 .. (n + 1)
      /\ award'[n + 1] = new /\ \A k \in 1 .. n : award'[k] = award[k]
  BY <1>1, <1>2
<1>4. run.pc = "decide" /\ Decided /\ UNCHANGED <<now, marks, switch>>
      /\ control'.status = control.status
  BY DEF Enter, BookInv, DayInv, Shaped
<1>5. run'.pc = "complete" /\ run'.clean = run.clean BY <1>4 DEF Decided
<1>6. control'.envelope \in Nat
  <2>1. new.risk \in Nat /\ control.envelope \in Nat BY <1>1 DEF Account, BookInv, Kinds
  <2> QED BY <1>1, <2>1
<1>7. Kinds' BY <1>3, <1>4, <1>5, <1>6 DEF BookInv, Kinds
<1> HIDE DEF n
<1>8. OneShot'
  <2>1. \A k \in DOMAIN award' : \/ k \in DOMAIN award /\ award'[k] = award[k]
                                 \/ k = n + 1 /\ award'[k] = new
    BY <1>2, <1>3
  <2>2. \A k \in DOMAIN award' : award'[k].tier = "maverick" =>
          award'[k].day = FinalDay /\ award'[k].directional
    BY <1>1, <2>1 DEF BookInv, OneShot
  <2>3. \A i, j \in DOMAIN award' :
          award'[i].tier = "maverick" /\ award'[j].tier = "maverick" => i = j
    BY <1>1, <2>1 DEF BookInv, OneShot
  <2> QED BY <2>2, <2>3 DEF OneShot
<1>9. Measured' BY <1>5 DEF Measured, Active
<1>10. Booked(rows, Len(award))' BY EntryHolds
<1> QED BY <1>7, <1>8, <1>9, <1>10 DEF BookInv

LEMMA StepKeepsBook == BookInv /\ [Next]_vars => BookInv'
<1> SUFFICES ASSUME BookInv, [Next]_vars PROVE BookInv' OBVIOUS
<1>1. DayInv' BY StepKeepsDay DEF BookInv
<1>2. CASE BrokerMoves BY <1>1, <1>2, BrokerKeeps
<1>3. CASE \E at \in Instants, equity \in Equities, clean \in BOOLEAN : Begin(at, equity, clean)
  BY <1>1, <1>3, BeginKeepsBook
<1>4. CASE Judge \/ Suspect \/ \E equity \in Equities, marked \in BOOLEAN : Confirm(equity, marked)
  BY <1>1, <1>4, ControlKeepsBook
<1>5. CASE Manage BY <1>1, <1>5, ManageKeepsBook
<1>6. CASE \E c \in Candidates, confirmed \in BOOLEAN : Enter(c, confirmed)
  BY <1>1, <1>6, EnterKeepsBook
<1>7. CASE CashWins \/ Complete \/ ClearKillSwitch \/ FailClosed \/ Crash \/ UNCHANGED vars
  BY <1>1, <1>7, EndKeepsBook
<1> QED BY <1>2, <1>3, <1>4, <1>5, <1>6, <1>7 DEF Next, Done

LEMMA BookInvariant == Spec => []BookInv
BY InitBook, StepKeepsBook, PTL DEF Spec

(***************************************************************************)
(* The theorems about the book of rows.                                    *)
(***************************************************************************)
\* The record of the account keeps its shape, and no two rows share an id.
THEOREM TypeCorrect == Spec => []TypeOK
<1>1. BookInv => TypeOK
  <2> SUFFICES ASSUME BookInv PROVE TypeOK OBVIOUS
  <2>1. run.pc \in {"idle", "judge", "confirm", "manage", "decide", "complete"}
    BY DEF BookInv, DayInv, Shaped, Active
  <2>2. control.day = Day(now) BY DEF BookInv, DayInv, Latched
  <2>3. control.envelope >= 0 BY DEF BookInv, Kinds
  <2>4. /\ \A r \in rows : r.run \in 0 .. Len(award) /\ r.status \in Statuses
        /\ \A r, s \in rows : r.id = s.id => r = s
    BY DEF BookInv, Booked, RowSet
  <2> QED BY <2>1, <2>2, <2>3, <2>4 DEF TypeOK, BookInv, Kinds
<1> QED BY <1>1, BookInvariant, PTL

\* The double-sized tier is awarded at most once, even when its entry was
\* canceled, failed closed or crashed away before it was filled.
THEOREM MaverickOnce == Spec => []OneMaverick
<1>1. BookInv => OneMaverick
  <2> SUFFICES ASSUME BookInv PROVE OneMaverick OBVIOUS
  <2> DEFINE S == {n \in DOMAIN award : award[n].tier = "maverick"}
  <2>1. \A i, j \in S : i = j BY DEF BookInv, OneShot
  <2>2. CASE S = {}
    <3>1. Cardinality(S) = 0 BY <2>2, FS_EmptySet
    <3> QED BY <3>1 DEF OneMaverick
  <2>3. CASE S # {}
    <3>1. PICK i \in S : S = {i} BY <2>1, <2>3
    <3>2. Cardinality(S) = 1 BY <3>1, FS_Singleton
    <3> QED BY <3>2 DEF OneMaverick
  <2> QED BY <2>2, <2>3
<1> QED BY <1>1, BookInvariant, PTL

\* After every entry all structures held together may lose no more than the
\* index cluster's share of the equity the cycle worked with.
THEOREM EntriesWithinCaps == Spec => EntryWithinCaps
<1>1. BookInv /\ [Next]_vars =>
        [Entering =>
           Whole * HeldLoss' <= run.equity * (IF IsFinalDay(now) THEN 2400 ELSE 1200)]_vars
  <2> SUFFICES ASSUME BookInv, [Next]_vars, Entering
               PROVE  Whole * HeldLoss' <= run.equity * (IF IsFinalDay(now) THEN 2400 ELSE 1200)
    OBVIOUS
  <2>1. run.pc = "decide" /\ award' # award BY DEF Entering
  <2>2. PICK c \in Candidates, confirmed \in BOOLEAN : Enter(c, confirmed)
    BY <2>1 DEF Next, vars, BrokerMoves, ClearKillSwitch, Begin, Judge, Suspect, Confirm,
                Manage, CashWins, Complete, FailClosed, Crash, Done
  <2> DEFINE risk == award'[Len(award) + 1].risk
             share == run.equity * (IF IsFinalDay(now) THEN 2400 ELSE 1200)
  <2>3. Whole * (run.loss + risk) <= share /\ risk \in Nat BY <2>2, Entered DEF Account
  <2>4. HeldLoss \in Nat /\ HeldLoss' \in Nat /\ HeldLoss' <= HeldLoss + risk
    BY <2>2, EntryHolds
  <2>5. run.loss \in Nat /\ HeldLoss <= run.loss BY <2>1 DEF BookInv, Measured, Active
  <2>6. share \in Int BY <2>1 DEF BookInv, DayInv, Shaped
  <2> HIDE DEF risk, share
  <2>7. HeldLoss' <= run.loss + risk /\ run.loss + risk \in Nat BY <2>3, <2>4, <2>5
  <2>8. Whole * HeldLoss' <= Whole * (run.loss + risk)
    <3>1. \A a, b \in Nat : a <= b => Whole * a <= Whole * b BY DEF Whole
    <3> QED BY <2>4, <2>7, <3>1
  <2>9. Whole * HeldLoss' \in Int /\ Whole * (run.loss + risk) \in Int
    BY <2>4, <2>7 DEF Whole
  <2>10. Whole * HeldLoss' <= share BY <2>3, <2>6, <2>8, <2>9
  <2> QED BY <2>10 DEF share
<1> QED BY <1>1, BookInvariant, PTL DEF Spec, EntryWithinCaps
===============================================================================
