# Money Machine: TLA+ specifications and proofs

TLA+ models of the Money Machine trading agent (`src/src/money_machine/`), the
TLC configurations that check them and the TLAPS proofs about them. Paths below
are relative to the repository root `src/`; `service.py`, `repository.py` and so
on are files of `src/money_machine/`.

## 1. The system

A scheduler process wakes every five minutes (every minute in the last hour of
the competition), takes a database lease and runs one **cycle**
(`AgentService.run_cycle`). A cycle reads the broker through MCP calls, stores
what it saw, repairs its own order ledger, works and closes what it holds, asks
a model for at most one new structure, judges it by deterministic risk rules,
submits it, and appends a row of operational state. Everything it knows of the
past it reads from the database; everything else happens at the broker, which
fills, cancels and assigns on its own, at any of the awaits of a cycle. Beside
the scheduler there are a command line (kill switch, guarded clear, assignment
recovery, development round trip), a reporting process and a read-only web page.

| Part | Code | State it keeps | Operations | Interacts with |
|---|---|---|---|---|
| Order and position ledger | `service.py` 101-165, 401-430, 592-616, 720-1045; `repository.py` 461-942, 1323-1454; `execution.py` | order rows (status, remaining quantity), persisted structures, the cycle's snapshot, what is pending and how many structures are open of each underlying | ingest fills, reconcile, poll, cancel, replace, judge structures, close, enter, fail closed | broker (await per call), risk engine, operational state |
| Operational state | `repository.py` 944-965, 1477-1560; `service.py` 536-560, 651-718; `cli.py` 132-145, 191-260 | append-only `system_state` rows, run rows with Passports | carry the kill switch over, latch it on failure, operator on, guarded clear | cycle, command line, round trip, web |
| Scheduler and lease | `scheduler.py`; `service.py` 1048-1053; `repository.py` 104-126, 1456-1475 | lease row, unique cycle keys | acquire or renew the lease, begin a run, sleep to the next bucket | wall clock, other worker processes |
| Repricing policy | `execution.py` 144-404 | limit price and attempt of an order (in its row) | wait, cancel, replace with a concession, exit signal | order ledger |
| Daily-loss control | `service.py` 220-348; `repository.py` 172-244; `domain/daily_loss.py` | one control row per day (clear, provisional, latched; confirmations; envelope) | suspect, confirm, latch, release, widen the envelope | account reads (two per cycle, 15 s apart), entry gate, portfolio exit |
| Risk engine | `domain/risk.py` | none | 20 gates and the quantity | operational state, ledger summary, clock |
| Competition clock | `domain/clock.py` | none | execution state at a time | all of the above |
| Candidate compiler | `domain/candidates.py`, `domain/options.py`, `domain/events.py` | none | defined-risk structures from option chains | risk engine, model |
| Directional confirmation and rotation | `service.py` 1056-1500; `repository.py` 268-380, 479-516, 1562-1592 | earlier observations, stops and entries | confirm a signal over two cycles, cool down after a stop, rotate the playbook | candidate exclusions |
| Model provider | `model_provider.py` | none | one decision, one retry, otherwise abstain | auction |
| Assignment recovery | `assignment_recovery.py`; `repository.py` 570-645 | an intent row per recovery, its order row | intent, submit, poll, confirm flat | broker, operator, kill switch |
| Development round trip | `development_acceptance.py` | a run, two orders | open, wait, close with retries, latch on residue | broker, kill switch |
| Business reporting | `business_reporting.py`, `mission_control_business.py` | the last report id delivered, in memory | build, send with retries, suppress duplicates | web service outside |
| Web and caches | `web.py`, `overnight.py` | account and overnight caches with locks | serve, refresh when stale, health | database, broker |
| Safety, settings, adapters, schemas, models, migrations, templates | the remaining files | configuration | identity checks, transport, I/O | - |

### What is hard about it

* **Interleavings.** Every `await` of a cycle is a point at which the broker
  moves; positions read at the start of a cycle judge structures minutes later.
  The operator's commands and a second worker run beside the cycle on the same
  database, in several transactions each.
* **Failure.** The process can die between an accepted order and its row. Any
  call can raise, which ends the cycle in a fail-closed state.
* **Repetition.** Fill activities are listed again in every cycle; a cycle key
  can come up twice; orders are canceled and resubmitted.
* **Time.** Leases run out under a slow cycle; a cycle begins before a cutoff
  and submits after it.

### What makes each part correct

* *Ledger*: every contract held is owned by a row that counts as exposure; no
  order id is used twice; replacing never buys or sells more than was asked; at
  most one close of a structure works; an order the ledger does not know blocks
  entries.
* *Operational state*: once armed the switch stays armed until a guarded clear;
  after a failed cycle no entry is made before a clean one and a clear.
* *Scheduler*: a bucket is executed once; cycles do not overlap; a restarted
  worker gets going again.
* *Repricing*: an entry is never bought much worse than the price its risk was
  awarded for, its order settles, and from the hard exit on a close concedes
  everything.
* *Daily loss*: a stop confirmed once ends the session's entries, through
  failures, crashes and cleared switches.
* *Risk*: all structures held together never pass the cap an entry was admitted
  under, whatever their orders went through. *Signals*: an entry was seen twice,
  twice since its last stop, and is not the setup that led nowhere.
* *Assignment recovery, round trip, reporting*: no step is done twice, none is
  forgotten after a failure, a command comes to an end. *Caches*: one refresh at
  a time, and every request is answered.

## 2. Modules

| Module | What it is |
|---|---|
| `OrderLifecycle` | the ledger: one worker's cycle against a broker that moves on its own |
| `OrderLifecycleProofs` | its types, client ids and unknown orders, under every choice of faults |
| `OrderChainProofs` | chains of orders: within what was approved, one close at a time, entries only when clear |
| `OrderOwnerProofs` | every contract held has an owner, before the last day |
| `MCOrderLifecycle` | its TLC instances |
| `OperationalState` | the kill switch between cycle, operator and guarded clear |
| `KillSwitch` | the switch that `OperationalState` implements while commands and cycles take turns |
| `SchedulerLease` | workers, the database lease and the run keys over time; checked as it stands |
| `SerialCycles` | one cycle at a time, each window at most once: what `SchedulerLease` implements |
| `SchedulerLeaseProofs` | its theorems, the refinement included |
| `CompetitionClock` | instants, windows and execution states, as operators |
| `RiskEngine` | the gates, tiers, caps and quantities of `evaluate_risk`, as operators over `CompetitionClock` |
| `TradingDay` | cycles as the account sees them: baselines, the daily-loss control, the defined loss of stored rows, and entries that `RiskEngine` approves |
| `TradingDayProofs` | its theorems |
| `MCTradingDay` | its TLC instances |
| `Auction` | cycles as the signals see them: observations, stops, resets, the rotation of setups, and what may be selected |
| `AuctionProofs` | its theorems |
| `MCAuction` | its TLC instance |
| `Repricing` | limits, attempts and urgency of one structure's orders from entry to last close |
| `AssignmentRecovery` | the guarded command that sells two assigned positions |
| `RoundTrip` | the development round trip |
| `BusinessReporting` | the report built from snapshots, polled or submitted |
| `WebCache` | cache, lock and timeout of the two endpoints that read the broker |
| `MCServices` | one TLC instance of `OperationalState` and of the five programs above |
| `ServicesProofs` | theorems on those six (a refinement included) and on the module that runs one of them |
| `Totals` | lemmas the proofs share: least and greatest elements, division, sums over finite sets |

Each component is seen by the module whose question it decides. `OrderLifecycle`
is about orders, quantities and ownership and leaves prices and risk out;
`Repricing` is about the prices and leaves the races out; `TradingDay` is about
money and `Auction` about signals, both over many cycles, and in both an entry's
row appears with its order, because what happens between the two is
`OrderLifecycle`'s. What overlapping cycles do is `SchedulerLease`'s.

### OrderLifecycle

State and code: `placed`, `request`, `broker`, `fills`, `position` are the
broker's side (orders accepted, what each asked for, its status and filled
quantity, the `leaves_qty` of its activities, contracts held per leg);
`ledger` is the `broker_orders` table (status and remaining quantity), `listed`
the structures whose symbols the database knows, `latest` the newest
`system_state` row, and `run` the locals of the running cycle. `run.pc` moves
through the awaits of `run_cycle` and `_maintain_order_lifecycle`:

    idle -> reading -> ingest -> reconcile -> start -> orders <-> cancel/replace/persist
         -> structures <-> persist_close/mark_closing -> decide -> persist_entry -> idle

A step ends where the code awaits the broker or commits a transaction, so that
the broker's own steps (`Fill`, `Lapse`, `Reduce`) and a `Crash` fit between any
two of them. An awaited submission and the `persist_order` after it are two
steps. `PlaceEntry`, `PlaceClose` and `PlaceReplacement` are the three places
that submit orders.

What is abstracted: prices, quotes and ages (`StaleActions` lists what
`stale_order_action` may answer for an attempt and an urgency), the market clock
and the competition clock (`Modes`: market open, entries allowed, forced close),
the exit signal, the choice of the candidate. A candidate is one shape of
structure of one underlying, with its own legs, ratio 1; it may be entered, and
held, several times, and candidates share neither legs nor underlyings. The broker accepts
what is submitted (a rejection is the "error" fault). The twelve open statuses
are three: new, partially filled, pending cancel. Rows without a parent from an
older version of the program (`service.py` 826) and the flat-target incident are
left out. The guarded clear runs between cycles here; its races belong to the
module on operational state.

`Admitted` is the rule on held underlyings (`service.py` 1226-1259, `domain/risk.py`
195-203 and 285-300, SPEC.md 373-379) over the two counts `portfolio_risk_summary`
takes once per cycle: `run.pending` (an entry row in an open status) and `run.open`
(rows that hold, or may hold, a position; a partly filled row is in both). Close
rows are in neither, as their candidate id ends in ":close" and joins no candidate.
A pending underlying is never entered. An open one is not before the last day, once
more on the last day while exactly one structure of it is open, and in the final
hour whatever is open, as long as nothing at all is pending. `Windows` says in which
of the three the cycles run; a cycle draws its window freely from that set, so a
behaviour may go back from the final hour to an ordinary day, which the calendar
never does: a run with several windows has more behaviours than the program, none
less. Candidates outside the index universe, which no override admits, are the
ordinary window's.

`Faults` chooses the environment: "midcycle" (the broker moves while a cycle
runs), "torn_read" (orders, positions and activities seen at different times),
"async_cancel" (an accepted cancel stays pending), "crash", "error",
"reduction" (assignment). `NewestFirst` is the order of the activity listing.

Bounds: `MaxQty`, `MaxOrders`, `MaxCycles`. Two contracts are what a partial
fill needs; five orders give an entry, its replacement, a close and its
replacement, or two structures held at once with a close of each and a replacement
both closes ask for; three or four cycles let each be listed, polled, settled and listed again. `MaxOrders` bounds the broker: once it is spent the worker submits nothing
more. `order_race` has one leg, since with two the three windows outgrow a run; what a
leg left behind does to entries before the last day is proved for every number of legs
(`EntriesOnlyWhenClear`) and, of several structures in the last day, not checked.
`Done` is the end of a behaviour whose cycles are spent; anything else that
stops is a deadlock, which every run checks.

Seen in the model beyond the runs below: with fills landing during the cycle an
entry chain can buy more than approved as well (the same stale quantity as
`order_overclose`); two entry rows of one chain can each ask for a close limited
by the same snapshot; `OneWorkingClose` fails when a worker dies between
submitting a close and storing its row (the id of a close hashes the cycle key,
`service.py` 1031, and `order_exists` sees rows only), and when a cancel stays
pending at the broker; with two legs, a close that was limited by a reduced leg
settles its parent (`repository.py` 914) and leaves the other leg to no row, so
that `ExposureIsOwned` and `UnexplainedExposureUnclean` fail; activities read
earlier than the positions, with the broker moving during the cycle, let a
candidate be entered beside what it holds before the last day, too.

### OperationalState

`row` is the newest of the append-only `system_state` rows, `passport` whether
the newest Passport lists incidents, `cycle`, `on` and `clear` the locals of the
three programs: a cycle (`service.py` 536 reads the switch, 614 submits, 651 and
652 store Passport and row, 705 and 708 do so after an exception), the command
`kill-switch on` (also issued by the development round trip) and the guarded
`kill-switch off` (`cli.py` 199-260). Every read and every transaction is a step
of its own; a cycle may raise at each of them and its worker may die. `history`
is not state of the program: it records what the two action properties speak
about. What reconciliation finds and whether the broker agrees with the Passport
are choices.

`turns` is chosen once: when it holds, the operator waits for cycles and
commands to end. Then the rows implement `KillSwitch` (armed <- `row.kill`,
clearing <- a guarded clear is under way): armed stays armed, whatever rows the
cycles append, until the clear the operator asked for, and no entry is made
meanwhile. When it does not, they do not: a row is written over one that was never
read (the violation of section 3 and one of section 4). Both directions of a
command are affected, a clear given during a cycle is undone by the row the cycle
appends. What survives every overlap is the latch: a failed cycle blocks
entries until a guarded clear. Seen in the model but without a document to hold
it against: a worker that dies between storing the failed Passport and the
latching row leaves the switch as it was.

Bounds: `MaxCycles`, `MaxCommands`; four of each is a failed cycle, a clean one
that carries the latch, a clear and an entry, with one of each to spare.
`Done` is the end of a behaviour that has spent its cycles.

### SchedulerLease

`time` counts whole minutes, because the loop floors its clock to them before it
compares anything (a lease of 90 seconds outlasts one whole minute, one of 360
six). `worker` is each process (program counter, the minute it sampled or will
wake at, whether its last Passport showed the broker flat, what its portfolio
read showed), `lease` the row of `scheduler_leases`, `begun` the unique
`agent_runs.cycle_key`. `ReadLease` and `WriteLease` are the two statements of
`acquire_scheduler_lease`; the first row ever is inserted, and a second insert
ends its process. A process that dies (`Leave`: a crash, a signal, `--once`)
leaves a lease that nobody can renew, since a restart draws a new owner id;
owner `NoOne` stands for that. `Wake` may fire in the minute before the one it
was set for. `entries` counts entries for one underlying that stay pending,
`attended` is a history variable.

`Tick` waits for whoever has something to do this minute, and for a cycle that
has reached its `Deadline`: the minute its successor is due in, plus `Overrun`.
The code has no such deadline (no call of a cycle is bounded), so `Overrun` = 0
is a condition on the environment, and so is `Racing` = FALSE (no two
acquisitions interleave); the theorems name both, and TLC refutes each when
dropped. With `Overrun` = 1 a second worker takes the lease of a cycle still at
work and an underlying is entered twice; with `Racing` two workers read one free
lease, the loser of the run key stays its owner, renews it in the next window
and runs beside the winner's cycle (`repository.py` 1460 updates the row without
a condition or a lock). The schedule is shortened (`FinalStart`, `Flatten`, `Eod` a few minutes
apart instead of fifty) with every change of the interval inside `Horizon`;
entries are capped by `MaxEntries`. A behaviour ends (`Done`) at `Horizon` only: a
clock that waits for a worker that cannot move would be a deadlock.

### CompetitionClock, RiskEngine and TradingDay

`CompetitionClock` (`domain/clock.py`, `service.py` 351-366) is operators over
instants: an instant is a whole minute of New York time counted from the midnight
before day 1, so that `Day` and `WallTime` are a quotient and a remainder. The
code's UTC constants are converted once; seconds are cut off, which is what every
comparison in the program does first or cannot tell apart at these bounds.

`RiskEngine` (`domain/risk.py`) is operators over the clock: the gates of
`evaluate_risk` as conjuncts of `HardGatesPassed`, its tiers, budgets, caps and
the quantity. Amounts are whole dollars and percentages basis points, so that
every limit is an exact product (`Whole` = 10000), as the code's `Decimal`
arithmetic is. A candidate is what the gates read of it: gates about freshness,
liquidity, events and structure are one field, `sound`, because each of them is
only a conjunct of the veto and says nothing of what other cycles did.

`TradingDay` composes the two with the account. `Begin` is `service.py` 118-235 and
`portfolio_risk_summary`: `marks` is what its queries over equity snapshots return
(the session's first clean mark, the peak of all), `OpenDefinedLoss` its join of
decisions and order rows on the run id, for which `rows` keeps each row's run, its
parent and a status. `Judge`, `Suspect` and `Confirm` are
`_confirm_daily_loss_suspicion` with the wait of fifteen seconds between two
account reads, `control` the row of `daily_loss_controls`. `Manage` is
`_maintain_order_lifecycle` reduced to what it does to rows: it cancels, replaces
and exits, all of it when an exit is forced. `Enter` is `evaluate_risk` with the
context `service.py` 536-590 builds, and stores the row. A cycle may raise
(`FailClosed`) or die (`Crash`) before each of these.

Any equity may be read at any time, second reads included, so a loss appears,
grows or vanishes between suspicion and confirmation. Fills, cancels and lapses
fall between cycles or, as the `fresh` fills of `Manage`, in the middle of one.
Out of the model: quantities (one order is one structure, filled or partly), quotes
(`orderly` says whether every exit could be priced), earnings condors (the auction
never offers one under the production configuration).

Bounds (`TradingDay.cfg`): two instants of Wednesday and four of Thursday (before
the open, morning, noon, the final hour), so that a session changes, the wider
limits of the final day begin and the final hour is reached; equities of 88 000,
98 000 and 112 000 dollars, which breach 11 % and 12 %, breach nothing, and set a
peak and the profit target; three cycles (a mark, a latch and an entry) and two
entries (one sized beside the other).

### Auction

One underlying, seen through what earlier cycles stored: `history` is
`agent_runs` with their observations, `passport` the latest Passport, `stops` the
close rows whose reason is the debit stop, `structures` what is pending, held or
being closed. `Confirmed`, `LockedOut`, `MaverickSignal` are
`apply_directional_confirmation`, the lockout and the reset of `service.py`
1376-1530; `FlatStart`, `Progressed`, `RotationDue` the strategy rotation of
1056-1250; `Offered` the exclusions in their order, `Selectable` whatever a provider
may answer. `Begin`, `Lifecycle`, `Enter`/`Refuse` and `Complete` are the parts of a
cycle that read or write any of it. A failed cycle leaves a run without a
selection and a Passport without a strategy, a crashed one leaves nothing that is
read.

Trends are multiples of the directional threshold; the row of a stop is stored up
to a minute after the cycle began (`Delays`), because the stop's time is compared
with the times of observations. The condor is built and offered to nobody: a
production cycle excludes it (`service.py` 1326).

Bounds (`Auction.cfg`): five instants on both sides of 15:00 of the final day,
54 minutes apart, which lets 45 flat minutes pass and confirms in windows of five
minutes and of one; trends from -1 to 2; five runs, two entries, one fault.

### Repricing

One structure from its entry to its last close (`execution.py` 144-404,
`service.py` 763-842 and 868-1000). `order` is the working order (limit, side of
the cash, attempt, age, urgency), `position` the structure's status. A cycle is
one action: `Stale`, `Moved`, `Refreshed`, `UrgentLimit` and the two `Waits` are
the branches of `stale_order_action`, `ExitUrgency` is `structure_exit_signal`
followed by `close_request`. Amounts are cents; a quote is the set of what the
close would bring, empty when a leg has no price, so that a reading may miss, be
zero, or turn a close from a credit into a debit.

A canceled order may fill no more here: what its late fill does is in
`OrderLifecycle`. A replacement may be lost after its cancel (`LoseReplacement`).

A close at its last attempt rests when the cap (one cent of credit, the width in
debit) is less than `REPRICE_INCREMENT` from its limit (`execution.py` 192-201): a
credit quoted at 23 cents goes to 13 and 3 and stays there. `AtCap`, which
`HardExitConcedesAll` promises, is therefore the interval of five cents at the cap.
The promise is for as long as readable cycles keep coming: three replacements take
three cycles that are 90 seconds apart. On the last day the cycles come every minute
and there is time for them between the flatten and the close; after the hard exit of
an ordinary day, at 15:50, cycles come every five minutes and the session ends with
the first or second of them. The close is then a day order that lapses, and the series
starts again in the next session (`Recovering` in `TradingDay`).

### AssignmentRecovery and RoundTrip

`AssignmentRecovery` (`assignment_recovery.py`, `repository.py` 570-645) is two
commands that may run at once. Every awaited call and every transaction is a step;
`intent` is the row stored before an order goes out, `recoveryRun` the run whose
unique key lets the command happen once. The reads before the run are gathered, so
their answers come in either order. Breaking a command covers a raised call and a
dead process: neither cleans up.

`RoundTrip` (`development_acceptance.py`) keeps the broker's orders as a sequence
(the opening one and up to three closes), because an order that timed out is asked
to be canceled and never looked at again: it may fill while later ones work. The
spread is one contract; `legs` says whether one or both of its legs are seen by the
look after a close.

### BusinessReporting

`business_reporting.py` 42-240 builds the report of the last whole interval,
`mission_control_business.py` polls or submits it. A snapshot's run may end at any
later time, in any order, failed or never. Mission Control, which is outside the
repository, records a name once, as its duplicate answer (`status_code == 409`)
says. Reports are taken by their period, status and the time of the snapshot they
rest on.

### WebCache

`web.py` 201-267 (the endpoints of the account and of the overnight estimate): the asyncio lock as a queue, the
cached answer with the age of its stamp, the age of the read under way. A behaviour
is about one endpoint: `Account` (cached for less than its timeout, failures not
kept) or `Overnight` (cached for longer, failures kept).

### MCServices

The six programs share no state, so one run checks them: a behaviour chooses a
program and stays in it, and `ServicesSpec` restates the fairness of each for the
program that runs (`OperationalState` needs none). Bounds (`Services.cfg`): four
cycles and four commands on the operational state, overlapping or in turns; a debit spread and a condor with cash
values that reach every branch of the exit signal, and two (23 cents of credit, 478
of debit under wings of 500) whose concessions end short of the cap; cycles one or five minutes
apart; one lost replacement; two commands, two shares, one poll before and after
the cancel, two broken commands; one call of the round trip raises; two snapshots
and reporting times 0 to 7 with scoring from 2 to 7 and an interval of 2 (a
boundary before, at and after the start, and the last one); three requests.

## 3. Runs

| Run | Instance | Shows |
|---|---|---|
| `order_serial` | 1 candidate, 1 leg, qty 2, 5 orders, 4 cycles, every one in the final hour, reductions between cycles | exposure owned, chain within approval, one working close, unexplained exposure is unclean |
| `order_race` | 1 candidate, 1 leg, qty 2, 3 orders, 3 cycles, all three windows, broker moves at every await, pending cancels, reductions | before the last day a candidate is entered again only when clear; the overrides add to what is settled, never to an entry at work |
| `order_faults` | 2 candidates, 2 legs, qty 1, 3 orders, 3 cycles, in the final hour, all faults | unique ids, an unknown order blocks the entries of both candidates |
| `order_unexplained` | 1 candidate, qty 1, 2 orders, 3 cycles, crashes | **violated**: a crash between an accepted entry and `persist_order` leaves exposure that no row explains, and a later cycle is clean with it |
| `order_overclose` | qty 2, fills during the cycle | **violated**: a replaced close sells more than it asked for |
| `opstate_lost_on` | 2 cycles, 2 commands | **violated**: a completing cycle turns an armed switch off |
| `lease_serial` | 2 workers, 15 minutes across both changes of interval | one cycle at a time, one entry per underlying, implements `SerialCycles` |
| `lease_race_keys` | 14 minutes, acquisitions interleave, cycles overrun by a minute, deaths and restarts at any step | two workers never execute one window; the loop goes on within ten minutes, within two in the one-minute schedule |
| `trading_day` | Wednesday and Thursday, 3 equities, 3 cycles, 2 entries, failures and crashes | entries stay within the cluster cap; a latched stop ends the session; the profit lock holds; the one-shot tier is used once |
| `day_stale_baseline` | the same | **violated**: a session latches before it has a clean mark of its own |
| `auction` | 5 instants around 15:00, 5 runs, 2 entries, 1 fault | an entry was seen twice in a row, twice since its last stop; a reversal is earned; what led nowhere for 45 minutes is not entered again |
| `services` | six programs, section 2 | a failed cycle blocks entries until a guarded clear is written; in turns, the rows implement `KillSwitch` and entries resume only after a clean cycle; concessions are bounded, entries settle, a hard exit concedes all it can while readable cycles come; commands end and account for what they did; reports never go back; the broker is spared and every request answered |

Only `services` assumes fairness, and of each program only what its own loop
provides. `Repricing`: WF of `ReadableCycle`, that is, cycles keep coming, and a
market that stays open shows a net price for every leg now and then; without the
second half nothing is owed, as the code waits for a readable quote
(`execution.py` 300), and how many cycles a session still has is not bounded
(section 2). `AssignmentRecovery` and `RoundTrip`: WF of the command's own
steps, which are bounded loops with their own timeouts; the broker's fills and
cancels have none, so that the commands are shown to end although it may never
answer. `WebCache`: WF of the clock and of what the event loop has ready
(`asyncio.timeout`), none of the broker's answers. `BusinessReporting` states no
liveness. In the other runs nothing has to happen by itself: the scheduler decides
when a cycle comes, and that it does is `NeverUnattended`, which bounds the time
instead of leaving it to fairness and rests on `Tick` waiting for a process whose
timer has fired.

The hazards without a property in `PROJECT.json` carry a note; most of them are
departures of the next section, where the property does not hold.

## 4. Departures

What the code does otherwise than a document says, or than one would expect, met
while modelling. Four are runs of section 3; the rest were reproduced in a model (the
first group) or read in the code (the others) and are not checked.

Runs: `order_unexplained` (`repository.py` 1357: positions are looked up among the
symbols of all rows, SPEC.md 491 wants them explained), `order_overclose`,
`opstate_lost_on`, `day_stale_baseline`.

Reproduced in a model:

* A fill activity listed again reopens a row that was closed (`repository.py` 681;
  SPEC.md 464): the position it stood for is held no more, and the row keeps its
  candidate blocked.
* The guarded clear checks the latest run once, then awaits the broker, and writes
  over the row of a cycle that failed meanwhile (`cli.py` 247; 213).
* The lease is not renewed during a cycle (`scheduler.py` 47; README.md 152): a cycle
  that outlasts it runs beside its successor.
* A stopped direction is entered again without a neutral or opposite observation
  once two fresh ones confirm it (`service.py` 1511-1522; docs/ARCHITECTURE.md 82-83,
  SPEC.md 391-393). A test endorses the code, and `ReentryFreshlyConfirmed` states
  what it does.
* While a soft close rests, the 0.65 stop of its structure is not looked at
  (`execution.py` 313, `service.py` 856; SPEC.md 396-398).
* The limit of 10 cents on the total concession bounds each step: two steps add up
  to 15 (`EntryConcessionsBounded`).
* The first two attempts of an urgent close may bid above the width of the wings, and
  the cap of the third then makes the series less marketable (SPEC.md 474).
* The profit lock of the final day is lost when the cycle that first marks the target
  fails: only completed clean marks count (`ProfitLockHolds` says so).
* A flat book can measure a defined loss: the rows of a run's closes are joined with
  the decision of an entry the same run approved (`repository.py` 1043).
* A worker that dies after an asynchronous cancel was accepted and before it took
  effect lets its successor enter the candidate a second time
  (`EntryOnlyWhenClear` is checked without crashes for that reason).
* A failed cycle forgets the last setup; the rotation then excludes nothing
  (`Unbroken` in `SetupRotates`). A stop whose row is lost leaves no lockout.
* In the round trip the opening order may fill after the last look at the account,
  with no switch armed (`development_acceptance.py` 113; `missed`), and a close may be
  placed while its predecessor's cancel is pending.
* If the broker answers a recovery sale with "filled" at once, the row is terminal
  when the poll is to be stored: the command ends with an error, its run stays
  started and cannot be repeated.
* A business report of one name can change its content between polls; Mission
  Control keeps the first. The final report exists only if a run's minute is exactly
  20:00 UTC. Before scoring a snapshot counts if its run completed, in scoring a failed
  run's counts, too.
* While the broker is out, every queued account request waits for a read of its own.

Read in the code: `final_hour_entry_already_used` is computed (`service.py` 561) and
read by no gate; the final day's release of a latch is nearly out of reach; a
provisional halt is enforced twice; a condor whose credit reaches its width raises
out of `build_candidates` (`candidates.py` 144); the documents disagree on the entry
cutoffs (SPEC.md 160-165, 717 and README.md 168 against SPEC.md 413-418).

## 5. Proofs

Eight modules hold the theorems: `Totals` the shared lemmas, `OrderLifecycleProofs`,
`OrderChainProofs` and `OrderOwnerProofs` (each extending the one before) the ledger,
`SchedulerLeaseProofs`, `TradingDayProofs`, `AuctionProofs`, and `ServicesProofs` the
programs that `MCServices` puts into one run. Every theorem holds for every value of
its module's constants; the only assumptions are the named ones of the modules
(`ConstantsAssumption` and its like, which TLC evaluates in the runs) and, where a
theorem says so, a condition on the environment. Every property of a passing run has a
theorem, liveness and `OverrideAddsToSettled` apart. The invariants below were checked by TLC, on the instances
of the runs or smaller ones, before they were proved.

### The ledger

| Theorem | States | Environment |
|---|---|---|
| `TypeCorrect`, `Inductive` | `TypeOK`, `IInv` | any faults |
| `ClientIdsUnique` | `UniqueClientIds` | any faults |
| `UnknownOrdersBlockEntries` | `NoEntryOverUnknownOrder` | any faults |
| `ChainsWithinApproval` | `ChainWithinApproval` | no fills during a cycle, no pending cancels |
| `ClosesOneAtATime` | `OneWorkingClose` | the same, and no crash or exception |
| `EntriesOnlyWhenClear` | `EntryOnlyWhenClear` | no torn reads, no crash or exception; any windows |
| `ExposureOwned` | `ExposureIsOwned` | before the last day; reductions only, and those only of single legs |
| `UnexplainedIsUnclean` | `UnexplainedExposureUnclean` | the same |

The conditions are where the properties fail otherwise (section 2, `OrderLifecycle`;
section 4): a fill between the poll and the cancel makes the stored remaining quantity
stale, a worker that dies, or a call that raises, between a submission and its row
leaves an order no row tells of. `OrderOwnerProofs` assumes more than TLC's instances
ask for (section 7): above all it leaves out the last day, on which several structures
of a candidate are held at once. `order_serial` checks the same two properties in the
final hour, whose rule admits whatever the others admit when there is one candidate;
for more structures than its bounds reach, nothing is proved there. The first group has no condition, which is why the ids and the gate
on unknown orders are what the design may rest on.

*Without conditions.* `TypeOK` is not inductive: that a replacement's quantity is at
least one needs `WorkLeft` (every order being worked on has something left), and that
what `Synced` computes is a quantity needs `Bounded` (nothing fills beyond its request,
in the book and in the snapshot). Uniqueness of ids needs `Attributed`: within a cycle
every order of that cycle has a row, save the one in flight, because the worker submits
one order at a time and a worker that dies never runs its cycle again; so
`order_exists`, which sees rows only, sees every order whose id could collide. That
unknown orders block entries needs `Accounted`: once the working orders have been
listed, an order without a row is terminal, in the listing or in flight, and a clean
cycle found none in the listing.

*Chains.* `Tracked` says that the rows being worked on carry the broker's numbers, as
long as nothing trades in between (`Matched`, `Followed`), and that a replacement
belongs to the chain it continues (`Rooted`). `Room` then bounds the total of a chain
between a cancel and its replacement; it is a sum over orders, and `Totals` supplies
its arithmetic. One close at a time rests on `Grounded` (each order has a row once its
submission is over, and a close a parent that is an entry) and `Tended`: a working close
is in the rows to poll, is being handled, or marks its candidate, which keeps the
structure from being judged again. Entries need `Explained`: what is held was bought by
an order with activities (`Sourced`), an order that the listing lacks has ended and its
activities were read (`Reviewed`), and from reconciliation on an entry whose candidate
is neither pending nor open in the counts (`Busy`) has ended with nothing bought
(`Occupied`). Before the last day `Admitted` asks for a candidate that is not `Busy`.

*Ownership.* `OwnerInv` adds what the market may do to what the rows say. `Market`: one
structure of a candidate is held at a time, so only the last chain of its entries ever
fills, and its first filled entry
(`First`) bounds what is held, still to be bought and sold (`Fits`), and a close of
that entry takes all that is held (`SellsOut`). `Traceable`: statuses and activities
tell the fills apart (`Traced`, `Settled`, `Marked`), the snapshot is the broker's
picture while the cycle lasts (`Pictured`, `Resting`), and the rows judged are in
force (`Judgable`). `Kept`: from reconciliation on, the first filled entry of a
candidate counts as exposure or nothing is held (`Anchored`), and a working entry has
an open row (`Watched`). `Covered` is the form this takes between cycles, and both
properties follow from it. Reconciliation takes pending entries for filled while the
positions last, which the model counts with a recursive function over the orders
(`Consumed`); that one exists, satisfies its equation and grows is proved by induction
on the orders (`ConsumedIs` and the lemmas after it).

### Operational state and the other services

`LatchBlocks` rests on `Latching` (the latch is in the newest row and in what a cycle
past its read has read). `FailureNeedsCleanCycle` and the refinement `RowsImplementSwitch`
rest on `InTurns`: what a program has read is still what the newest row says, because
they exclude each other while `turns` holds; `Uncleared` adds that the row of a failure
stays armed and unclean until a clean cycle completes.

* `ConcessionsBounded`: a working order has a shape (`IsOrder`) and an entry's limit is
  as far from its approved price as its attempt allows (`EntryOnItsWay`: 0, 5, 15
  cents), because no concession is made past the second.
* `IntentsRecorded`, `SalesInOrder`: at most one command gets past the run's key
  (`Alone`), and each place in it has its past behind it (`Behind`): a stored intent
  before the sale, an unsold second position while the first is sold, nothing of the
  first held afterwards.
* `ExposureTold`: a spread can only come from the opening order, which fills once
  (`Explained`); the count of orders (`Counted`) identifies that order.
* `BrokerIsSpared`: one request holds the lock, and what is cached is no older than its
  stamp (`Stamped`).
* `ReportsNeverGoBack`: a report that was told rests on a stored snapshot on the same side
  of the scoring's start as its period (`Backs`), no report is ahead of the current period,
  and of two told the later does not rest on the older snapshot. A run may end after its
  snapshot served, so the last conjunct has to be carried along.
* `ServicesTypeCorrect` joins the type invariants for the program that runs.

### Scheduler and lease

`TypeCorrect`, `WindowsDistinct` (every running cycle has its key among the runs) and
`AlwaysAttended` hold without conditions, `CyclesExclude`, `EntriesOnce` and
`WorkersImplementSerialCycles` for `Overrun` = 0 and `Racing` = FALSE. The invariant of
the latter is `Inv`: who may begin or runs a cycle owns a lease that outlasts the
current minute (`Owned`), so that everybody else finds it held, and between the halves
of an acquisition nobody else acquires or holds (`Alone`). Mutual exclusion is then the
uniqueness of the row's owner. `AlwaysAttended` (`NeverUnattended`: the loop goes on in
time, whatever dies) needs `Timely` and `Reached`, bounds on the clock by what each
process and the lease still have to do: somebody is about to acquire, or the minute at
which somebody will is not past.

### Trading day

`DayInv` carries `ConfirmedStopEndsSession` and `ProfitLocked`: the control's row belongs
to the session and stays latched while the narrow limit applies (`Latched`), and a cycle
that saw the target is not in full execution (`Locked`). `BookInv` adds the rows. `Booked`
says that ids never collide, that an award keeps an entry row, that a replacement's row
comes after one that is no longer pending (`Originates`) and a close's belongs to one
entry (`ClosesOne`); every replacement, exit and fill keeps that, because each row's
successor has an id of its own. `OneShot`, with a surviving row for the award to be found by, gives `MaverickOnce`.
`EntriesWithinCaps` combines `Measured` (nothing held is missing from the loss the
cycle measured) with the engine's arithmetic: what a tier awards fits what the caps leave
(`AwardFits`), and the sum over live awards grows by the new one only (`RiskOfMore`).

### Auction

`AuctionInv` relates the run in progress to the history: `Past` (no observation is later
than now), `Ledger` (structures and stops), `FlatStreak` and `LastSetup` (what the Passport
says of the streak of flat cycles and of the last setup is what the history shows).
`EntriesSeenTwice`, `ReentryConfirmed`, `ReversalsEarned` and `SetupsRotate` follow for the
step that enters; the searches in sequences that the model makes are of extrema of sets of
indices, for which `Totals` has the lemmas.

### Model-checked only

`OverrideAddsToSettled`: that no entry works beside another rests, when several structures
are held, on how reconciliation shares positions among their rows, for which there is no
invariant yet. The liveness properties of `services`: `EntrySettles`, `HardExitConcedesAll`, `CommandsEnd`
and `RequestAnswered`. Fairness and ENABLED are beyond the prover. The induction theorems of
the library, which take an operator as a parameter, are out of its reach too; the inductions
here are over membership in a set instead (`Totals`: sums over the subsets of a finite set,
least elements of sets of naturals). The runs that expect a violation are TLC's, of course.

## 6. Not modelled

* Candidate geometry (`domain/candidates.py`, `domain/options.py`, `domain/events.py`):
  strikes, prices and the defined loss of a structure are pure functions of a chain;
  `Auction` has which structures a trend offers, `TradingDay` the loss of one as data.
* The model call (`model_provider.py`) keeps no state between cycles: its retry and its
  fallback are the choice `Selectable` of `Auction`.
* Pages, charts, feeds and the overnight estimate (`web.py`, `overnight.py`): read-only
  views of what the other modules write; of the endpoints that call the broker the
  cache is modelled.
* Adapters (`adapters/`), settings, safety checks, acceptance report: transport, parsing
  and stateless checks. A failing one is an exception, which every module has.
* Tables, migrations and templates: declarations. The constraints that matter (unique
  keys, the lease's primary key) are in the modules that rest on them.
* The earnings condors of `domain/events.py` are never offered under the production
  configuration; their tier is in `RiskEngine`, unreached.

## 7. Plan

Done: the ledger, operational state, lease, repricing, daily loss, risk, clock,
auction, recovery, round trip, reporting and caches, with the runs and theorems above.
Left, in this order:

1. Weaker conditions for the theorems on ownership: the windows of the last day, with
   a bound on what is held that shares it among the structures of a candidate; and on one leg with four orders and four
   cycles TLC refutes neither property under torn_read, and not `ExposureIsOwned` under
   error; their invariant is not proved there.
2. Composition: the lease's overlapping cycles over one ledger.
3. Candidate geometry as operators checked over small chains, with the theorem that a
   structure's defined loss is positive.
