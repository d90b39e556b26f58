------------------------------ MODULE TradingDay ------------------------------
(***************************************************************************)
(* The scheduler's cycles as the account sees them: the baseline and peak  *)
(* a cycle derives from earlier marks, the persistent daily-loss control,  *)
(* the exits and cancels it orders, the entry the risk engine approves and *)
(* the rows that count as open defined loss afterwards.  Cycles take turns *)
(* and an entry's row is stored with the order, which SchedulerLease and   *)
(* OrderLifecycle are about.                                               *)
(***************************************************************************)
EXTENDS RiskEngine, Sequences, FiniteSets, FiniteSetsExt

CONSTANTS
  Instants,    \* bound: the instants at which cycles may begin
  Equities,    \* the account equities the broker may report
  Candidates,  \* what the auction may select
  MaxCycles,   \* bound: cycles in a behaviour
  MaxEntries,  \* bound: approved entries in a behaviour
  ProfitTarget \* FINAL_DAY_PROFIT_TARGET_EQUITY

\* A structure loses something, in whole units of the account's currency, and
\* a quote's displayed size is a count.
ASSUME ConstantsAssumption ==
  /\ Instants \subseteq Nat /\ Equities \subseteq Nat \ {0}
  /\ {MaxCycles, MaxEntries, ProfitTarget} \subseteq Nat
  /\ \A c \in Candidates : c.maxLoss \in Nat \ {0} /\ c.depth \in Nat

VARIABLES
  now,      \* the instant of the latest cycle
  run,      \* the cycle in progress: its step and what it has read
  control,  \* the row of daily_loss_controls of the latest session
  marks,    \* completed clean regular-session marks: the latest session's
            \* first one and the highest of all
  rows,     \* broker_orders
  award,    \* what each run that approved an entry awarded, in their order
  switch,   \* the latest system state
  session   \* the day of the latest cycle, whether it ever latched, and the
            \* cycles so far

vars == <<now, run, control, marks, rows, award, switch, session>>

Unapproved == 0  \* stands for every run that approved no entry
Idle == [pc |-> "idle"]

Init ==
  /\ now = 0
  /\ run = Idle
  /\ control = [day |-> 0, status |-> "clear", last |-> 0, envelope |-> 0]
  /\ marks = [day |-> 0, first |-> 0, peak |-> 0]
  /\ rows = {}
  /\ award = <<>>
  /\ switch = [kill |-> FALSE, clean |-> TRUE]
  /\ session = [day |-> 0, latched |-> FALSE, cycles |-> 0]

(***************************************************************************)
(* The rows of broker_orders.  A row belongs to the run that approved the  *)
(* entry, replacements included, or to the run that submitted a close; the *)
(* open defined loss joins decisions and rows on the run alone.            *)
(***************************************************************************)
Entries == {r \in rows : r.closes = {}}
Closes == {r \in rows : r.closes # {}}

PendingStatuses == {"new", "partially_filled"}
HeldStatuses == {"partially_filled", "partially_filled_canceled", "filled", "closing"}

OpenStatusesUnlessClosing == (PendingStatuses \cup HeldStatuses) \ {"closing"}
OpenStatuses == PendingStatuses \cup HeldStatuses

OpenDefinedLoss ==
  LET open == {r \in rows : r.run # Unapproved /\ r.status \in OpenStatuses}
  IN SumFunctionOnSet([r \in open |-> award[r.run].risk], open)

Underlying(r) == award[r.run].underlying
PendingUnderlyings == {Underlying(r) : r \in {e \in Entries : e.status \in PendingStatuses}}
Underlyings == {c.underlying : c \in Candidates}
OpenCounts ==
  [u \in Underlyings |->
    Cardinality({r \in Entries : Underlying(r) = u /\ r.status \in HeldStatuses})]

\* maverick_entry_used: every directional entry of the final day carries the
\* take-profit multiple the one-shot is recognised by.
MaverickUsedWhileOpen(at) ==
  \E r \in Entries : r.status \in OpenStatuses /\ award[r.run].day = Day(at) /\ IsFinalDay(at)
MaverickUsed(at) ==
  \E r \in Entries : award[r.run].day = Day(at) /\ IsFinalDay(at) /\ award[r.run].directional

With(r, status) == [r EXCEPT !.status = status]
Becomes(r, status) == rows' = (rows \ {r}) \cup {With(r, status)}

(***************************************************************************)
(* The broker, between cycles: what the next cycle's listing will say.     *)
(***************************************************************************)
Fill(r) ==
  \/ /\ r.closes = {} /\ r.status = "new"
     /\ \E status \in {"partially_filled", "filled"} : Becomes(r, status)
  \/ r.closes = {} /\ r.status = "partially_filled" /\ Becomes(r, "filled")
  \/ r.closes # {} /\ r.status = "new" /\ Becomes(r, "filled")

CanceledStatus(r) ==
  IF r.closes = {} /\ r.status = "partially_filled" THEN "partially_filled_canceled" ELSE "canceled"

\* A close that ends without a fill leaves no trace that is ever read.
Lapse(r) ==
  /\ r.status \in PendingStatuses
  /\ IF r.closes = {} THEN Becomes(r, CanceledStatus(r)) ELSE rows' = rows \ {r}

BrokerMoves ==
  /\ run.pc = "idle"
  /\ \E r \in rows : Fill(r) \/ Lapse(r)
  /\ UNCHANGED <<now, run, control, marks, award, switch, session>>

\* The guarded clear of the kill switch, after a clean cycle.
ClearKillSwitch ==
  /\ run.pc = "idle" /\ switch.kill /\ switch.clean
  /\ switch' = [switch EXCEPT !.kill = FALSE]
  /\ UNCHANGED <<now, run, control, marks, rows, award, session>>

(***************************************************************************)
(* A cycle begins: the account, the baselines and the control's row.       *)
(***************************************************************************)
\* portfolio_risk_summary: the session's first clean mark, once there is one.
StartOfDay(equity, at) ==
  IF marks.day = Day(at) THEN marks.first ELSE Higher(BASELINE_EQUITY, equity)

PeakOfTheMoment(equity) == Higher(BASELINE_EQUITY, equity)
PeakEquity(equity) == Higher(Higher(BASELINE_EQUITY, equity), marks.peak)

ProfitTargetReached(at, clean, peak) ==
  IsOfficial(at) /\ clean /\ IsFinalDay(at) /\ peak >= ProfitTarget

Exposed == \E r \in rows : r.status \in OpenStatuses

Begin(at, equity, clean) ==
  /\ run.pc = "idle" /\ session.cycles < MaxCycles
  /\ at > now
  /\ now' = at
  /\ LET peak == PeakEquity(equity)
         target == ProfitTargetReached(at, clean, peak)
         state == ExecutionState(at, Exposed)
     IN run' = [pc |-> "judge", at |-> at, closes |-> {},
                raw |-> equity, equity |-> equity, clean |-> clean,
                start |-> StartOfDay(equity, at), peak |-> peak, target |-> target,
                state |-> IF target /\ state = "full_execution" THEN "close_only" ELSE state,
                loss |-> OpenDefinedLoss, pending |-> PendingUnderlyings, open |-> OpenCounts]
  /\ control' =
       IF control.day = Day(at)
       THEN [control EXCEPT !.envelope = Higher(control.envelope, OpenDefinedLoss)]
       ELSE [day |-> Day(at), status |-> "clear", last |-> 0, envelope |-> OpenDefinedLoss]
  /\ session' =
       IF session.day = Day(at) THEN [session EXCEPT !.cycles = @ + 1]
       ELSE [day |-> Day(at), latched |-> FALSE, cycles |-> session.cycles + 1]
  /\ UNCHANGED <<marks, rows, award, switch>>

(***************************************************************************)
(* The daily-loss control.                                                 *)
(***************************************************************************)
DailyLossReached(equity) == Breached(run.start, equity, daily_loss_pct_at(run.at))

\* The final day's wider limit releases a latch earned under the narrow one.
ReleasesOnAnyDay ==
  control.status = "latched" /\ ~DailyLossReached(run.raw)
Releases ==
  /\ control.status = "latched" /\ daily_loss_pct_at(run.at) > daily_loss_pct_at(0)
  /\ Whole * control.last < run.start * daily_loss_pct_at(run.at)
  /\ ~DailyLossReached(run.raw)

Write(status, last) == control' = [control EXCEPT !.status = status, !.last = last]

Goto(pc) == run' = [run EXCEPT !.pc = pc]

\* No breach, or one that needs no second look.
Judge ==
  /\ run.pc = "judge"
  /\ Goto("manage")
  /\ LET loss == Fall(run.start, run.raw)
     IN \/ Releases /\ Write("clear", loss)
        \/ /\ control.status # "latched" /\ DailyLossReached(run.raw) /\ ~run.clean
           /\ Write("provisional", loss)
        \/ /\ control.status # "latched" /\ ~DailyLossReached(run.raw)
           /\ Write("clear", loss)
        \/ control.status = "latched" /\ ~Releases /\ UNCHANGED control
  /\ UNCHANGED <<now, marks, rows, award, switch, session>>

\* A breach of a clean book is stored and looked at again fifteen seconds later.
Suspect ==
  /\ run.pc = "judge"
  /\ control.status # "latched" /\ DailyLossReached(run.raw) /\ run.clean
  /\ Write("provisional", Fall(run.start, run.raw))
  /\ Goto("confirm")
  /\ UNCHANGED <<now, marks, rows, award, switch, session>>

\* loss_is_plausible: within a quarter, or 250 dollars, of the defined loss.
Plausible(loss) ==
  \/ ~ \E r \in Entries : r.status \in HeldStatuses
  \/ loss <= control.envelope + Higher(250, control.envelope \div 4)

\* validate_managed_book_marks passes a flat book; of another it depends on
\* the quotes.
Confirm(equity, marked) ==
  /\ run.pc = "confirm"
  /\ (~ \E r \in Entries : r.status \in HeldStatuses) => marked
  /\ LET loss == Fall(run.start, equity)
         credible == Plausible(loss) /\ marked
     IN /\ Write(IF ~DailyLossReached(equity) THEN "clear"
                 ELSE IF credible THEN "latched" ELSE "provisional", loss)
        /\ session' = [session EXCEPT !.latched = @ \/ (DailyLossReached(equity) /\ credible)]
  /\ run' = [run EXCEPT !.pc = "manage", !.equity = equity,
                        !.peak = Higher(run.peak, equity)]
  /\ UNCHANGED <<now, marks, rows, award, switch>>

(***************************************************************************)
(* The checkpoint and the lifecycle of orders and structures.              *)
(***************************************************************************)
SafetyEquity == Lower(run.raw, run.equity)

ForcedExit ==
  \/ run.target
  \/ ~run.clean /\ DailyLossReached(run.raw)
  \/ /\ ~IsFinalDay(run.at)
     /\ \/ Breached(run.peak, SafetyEquity, COMPETITION_DRAWDOWN_PCT)
        \/ control.status = "latched"

AllowNewEntries ==
  run.state = "full_execution" /\ (control.status = "clear" \/ IsFinalDay(run.at))

\* A structure whose close has filled is closed first.
ClosedBy(r) == \E c \in Closes : c.closes = {r.id} /\ c.status = "filled"
Settled == {IF r.closes = {} /\ r.status = "closing" /\ ClosedBy(r)
            THEN With(r, "closed") ELSE r : r \in rows}

Closeable(S) ==
  {r \in S : /\ r.closes = {} /\ r.status \in HeldStatuses \ {"partially_filled"}
             /\ ~ \E c \in S : c.closes = {r.id} /\ c.status = "new"}

Recovering(S) == {r \in Closeable(S) : r.status = "closing"}

CloseRow(r) ==
  [id |-> Append(r.id, "close"), run |-> Unapproved, closes |-> {r.id}, status |-> "new"]
ReplacementUnderTheSameId(r) == [r EXCEPT !.status = "new"]
ReplacementRow(r) == [r EXCEPT !.id = Append(@, "again"), !.status = "new"]

\* A row canceled without a fill is represented by its replacement, if it has one.
Kept(canceled, replaced) ==
  {r \in canceled : r \notin replaced \/ CanceledStatus(r) # "canceled"}
Replacements(replaced) ==
  {IF CanceledStatus(r) = "canceled" THEN r ELSE ReplacementRow(r) : r \in replaced}

\* A working entry may turn out filled here, after the cycle's baselines were
\* read; it is then left alone until the next cycle.  An exit that cannot be
\* quoted stays open and makes the cycle unclean.
Manage ==
  /\ run.pc = "manage"
  /\ \E fresh \in SUBSET {r \in Settled : r.closes = {} /\ r.status \in PendingStatuses} :
     LET pending == {r \in Settled : r.closes = {} /\ r.status \in PendingStatuses} \ fresh
         exitable == Closeable(Settled)
     IN \E exits \in SUBSET exitable, replaced \in SUBSET pending, orderly \in BOOLEAN :
          LET canceled == IF AllowNewEntries THEN replaced ELSE pending
          IN /\ ~MarketOpen(run.at) => exits = {}
             /\ MarketOpen(run.at) /\ orderly =>
                  IF ForcedExit \/ ForceFlatten(run.at) THEN exits = exitable
                  ELSE Recovering(Settled) \subseteq exits
             /\ replaced # {} => AllowNewEntries /\ MarketOpen(run.at)
             /\ rows' = (Settled \ (exits \cup canceled \cup fresh))
                          \cup {With(r, "filled") : r \in fresh}
                          \cup {With(r, "closing") : r \in exits}
                          \cup {With(r, CanceledStatus(r)) : r \in Kept(canceled, replaced)}
                          \cup {CloseRow(r) : r \in exits}
                          \cup Replacements(replaced)
             /\ run' = [run EXCEPT !.pc = "decide", !.clean = @ /\ orderly,
                                   !.closes = {CloseRow(r).id : r \in exits}]
  /\ UNCHANGED <<now, control, marks, award, switch, session>>

(***************************************************************************)
(* The entry.                                                              *)
(***************************************************************************)
Halted == control.status \in {"provisional", "latched"} /\ ~IsFinalDay(run.at)

Context(confirmed) ==
  [now |-> run.at, state |-> run.state, kill |-> switch.kill, clean |-> run.clean,
   equity |-> run.equity, start |-> run.start, peak |-> run.peak, halt |-> Halted,
   loss |-> run.loss, pending |-> run.pending, open |-> run.open,
   confirmed |-> confirmed, used |-> MaverickUsed(run.at)]

\* What the end of the cycle still needs of it.
Decided == run' = [pc |-> "complete", at |-> run.at, equity |-> run.equity, clean |-> run.clean]

\* The closes of a run that approves an entry are joined with its award, too.
Enter(c, confirmed) ==
  /\ run.pc = "decide" /\ Len(award) < MaxEntries
  /\ LET x == Context(confirmed)
         n == Len(award) + 1
     IN /\ Approved(c, x)
        /\ award' = Append(award,
             [risk |-> AwardedRisk(c, x), underlying |-> c.underlying, tier |-> Tier(c, x),
              day |-> Day(run.at), directional |-> c.action \in DIRECTIONAL_INDEX_ACTIONS])
        /\ rows' = {IF r.id \in run.closes THEN [r EXCEPT !.run = n] ELSE r : r \in rows}
                     \cup {[id |-> <<n>>, run |-> n, closes |-> {}, status |-> "new"]}
        /\ control' = [control EXCEPT !.envelope = @ + AwardedRisk(c, x)]
  /\ Decided
  /\ UNCHANGED <<now, marks, switch, session>>

\* The model abstains, nothing is left to select, or the engine refuses it.
CashWins ==
  /\ run.pc = "decide"
  /\ Decided
  /\ UNCHANGED <<now, control, marks, rows, award, switch, session>>

(***************************************************************************)
(* The end of a cycle.                                                     *)
(***************************************************************************)
Complete ==
  /\ run.pc = "complete"
  /\ marks' =
       IF ~(IsRegularMark(run.at) /\ run.clean) THEN marks
       ELSE [day |-> Day(run.at),
             first |-> IF marks.day = Day(run.at) THEN marks.first ELSE run.equity,
             peak |-> Higher(marks.peak, run.equity)]
  /\ switch' = [switch EXCEPT !.clean = run.clean]
  /\ run' = Idle
  /\ UNCHANGED <<now, control, rows, award, session>>

\* A call raises: the run fails closed and its mark never counts.
FailClosed ==
  /\ run.pc # "idle"
  /\ switch' = [kill |-> TRUE, clean |-> FALSE]
  /\ run' = Idle
  /\ UNCHANGED <<now, control, marks, rows, award, session>>

\* The process dies and leaves the run unfinished.
Crash ==
  /\ run.pc # "idle"
  /\ run' = Idle
  /\ UNCHANGED <<now, control, marks, rows, award, switch, session>>

Done ==
  /\ run.pc = "idle"
  /\ session.cycles = MaxCycles \/ \A at \in Instants : at <= now
  /\ UNCHANGED vars

Next ==
  \/ BrokerMoves
  \/ ClearKillSwitch
  \/ \E at \in Instants, equity \in Equities, clean \in BOOLEAN : Begin(at, equity, clean)
  \/ Judge
  \/ Suspect
  \/ \E equity \in Equities, marked \in BOOLEAN : Confirm(equity, marked)
  \/ Manage
  \/ \E c \in Candidates, confirmed \in BOOLEAN : Enter(c, confirmed)
  \/ CashWins
  \/ Complete
  \/ FailClosed
  \/ Crash
  \/ Done

Spec == Init /\ [][Next]_vars

(***************************************************************************)
(* Properties.                                                             *)
(***************************************************************************)
Statuses == PendingStatuses \cup HeldStatuses \cup {"closed", "canceled"}

TypeOK ==
  /\ now \in Instants \cup {0}
  /\ run.pc \in {"idle", "judge", "confirm", "manage", "decide", "complete"}
  /\ control.status \in {"clear", "provisional", "latched"} /\ control.day = Day(now)
  /\ control.envelope >= 0 /\ marks.first <= marks.peak
  /\ \A r \in rows : r.run \in 0 .. Len(award) /\ r.status \in Statuses
  /\ \A r, s \in rows : r.id = s.id => r = s
  /\ switch \in [kill : BOOLEAN, clean : BOOLEAN]

Entering == run.pc = "decide" /\ award' # award
Live == {r \in Entries : r.status \notin {"closed", "canceled"}}
HeldRuns == {r.run : r \in Live}
HeldLoss == SumFunctionOnSet([n \in HeldRuns |-> award[n].risk], HeldRuns)

\* After an entry all structures held together may lose no more than the index
\* cluster's share of the equity the cycle worked with, whichever tiers the
\* entries were sized by and whatever their orders went through since.
EntryWithinCaps ==
  [][Entering => Whole * HeldLoss' <= run.equity * (IF IsFinalDay(now) THEN 2400 ELSE 1200)]_vars

\* A daily stop confirmed once ends the session's entries: no recovery, failed
\* cycle, crash or cleared kill switch reopens it before the final day does.
LatchEndsSession ==
  [][Entering => IsFinalDay(now) \/ ~session.latched]_vars

\* Once a clean mark at the profit target has been completed on or before the
\* final day, the final day takes no further entry however far equity falls.
ProfitLockHolds ==
  [][Entering /\ IsFinalDay(now) => marks.peak < ProfitTarget]_vars

\* The double-sized tier is a one-shot, whatever became of its order.
OneMaverick == Cardinality({n \in DOMAIN award : award[n].tier = "maverick"}) <= 1

\* ARCHITECTURE.md: the control's "immutable baseline is the first clean
\* regular-session equity", so a session latches only once it has such a mark.
LatchNeedsSessionMark ==
  [][~session.latched /\ session'.latched /\ ~IsFinalDay(now) => marks.day = Day(now)]_vars
===============================================================================
