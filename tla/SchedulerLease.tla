---------------------------- MODULE SchedulerLease ----------------------------
(***************************************************************************)
(* The scheduler's workers, the database lease they take before a cycle    *)
(* and the unique cycle key under which a cycle begins.  Time passes in    *)
(* minutes, which is what the loop floors its clock to.  Of a cycle only   *)
(* its start, the portfolio it reads there, the entry it may submit later  *)
(* and its end are kept.                                                   *)
(***************************************************************************)
EXTENDS Naturals

CONSTANTS
  Workers,     \* scheduler processes
  NoOne,       \* the owner of a lease nobody alive can renew
  FinalStart,  \* FINAL_HOUR_RECOVERY_STARTS_AT, in minutes from the start
  Flatten,     \* FORCED_FLATTEN_STARTS_AT
  Eod,         \* EOD_EQUITY_SNAPSHOT_AT
  Horizon,     \* bound: the last minute of a behaviour
  Overrun,     \* bound: minutes a cycle may run past the minute its successor is due in
  MaxEntries,  \* bound: entries in a behaviour
  Racing       \* whether the two halves of a lease's acquisition interleave

ASSUME ConstantsAssumption ==
  /\ NoOne \notin Workers
  /\ {FinalStart, Flatten, Eod, Horizon, Overrun, MaxEntries} \subseteq Nat
  /\ FinalStart <= Flatten /\ Flatten <= Eod
  /\ Racing \in BOOLEAN

VARIABLES
  time,     \* the current minute
  worker,   \* each process: where it is, the minute it read last or wakes at,
            \* whether it has seen the broker flat, and whether the portfolio
            \* its cycle read held the entry
  lease,    \* the row of scheduler_leases: stored or not, its owner and expiry
  begun,    \* the cycle keys of agent_runs
  entries,  \* entries submitted for one underlying
  attended  \* the last minute with a cycle running, a process lost, or none up

vars == <<time, worker, lease, begun, entries, attended>>

Pcs == {"down", "asleep", "acquire", "insert", "update", "begin", "reading", "trading"}

Dead == [pc |-> "down", at |-> 0, flat |-> FALSE, seen |-> FALSE]

Init ==
  /\ time = 0
  /\ worker = [w \in Workers |-> Dead]
  /\ lease = [stored |-> FALSE, owner |-> NoOne, expires |-> 0]
  /\ begun = {}
  /\ entries = 0
  /\ attended = 0

(***************************************************************************)
(* Clocks: how often the loop turns, how long its lease lasts, and which   *)
(* window a cycle belongs to.                                              *)
(***************************************************************************)
FinalWindow(now) == FinalStart <= now /\ now <= Eod

\* scheduler_interval_seconds
Interval(now, flat) ==
  IF FinalWindow(now) \/ (now >= Flatten /\ ~flat) THEN 1 ELSE 5

\* scheduler_lease_ttl_seconds: 90 seconds outlast one whole minute.
LeaseOfOneInterval(now, flat) == Interval(now, flat)
LeaseMinutes(now, flat) == IF Interval(now, flat) = 1 THEN 2 ELSE 6

\* _cycle_key
WindowEnd(now) == now - (now % 5) + 5
Window(now) == IF FinalWindow(now) \/ now >= Flatten THEN now ELSE now - (now % 5)

\* The loop sleeps to the next multiple of the interval: seconds into the last
\* minute of the final window the window is over.
NextWake(now, flat) ==
  LET interval == IF now = Eod /\ flat THEN 5 ELSE Interval(now, flat)
  IN now - (now % interval) + interval

(***************************************************************************)
(* The loop of run_scheduler.                                              *)
(***************************************************************************)
Goto(w, pc) == worker' = [worker EXCEPT ![w].pc = pc]

Sleep(w, flat) ==
  worker' = [worker EXCEPT ![w] =
    [pc |-> "asleep", at |-> NextWake(time, flat), flat |-> flat, seen |-> FALSE]]

Die(w) == worker' = [worker EXCEPT ![w] = Dead]

\* A process starts under an owner id of its own.
Start(w) ==
  /\ worker[w].pc = "down"
  /\ worker' = [worker EXCEPT ![w] =
       [pc |-> "asleep", at |-> time, flat |-> FALSE, seen |-> FALSE]]
  /\ UNCHANGED <<time, lease, begun, entries, attended>>

\* The timer fires, perhaps an instant before the minute it was set for.
Wake(w) ==
  /\ worker[w].pc = "asleep" /\ time \in {worker[w].at, worker[w].at - 1}
  /\ worker' = [worker EXCEPT ![w].pc = "acquire", ![w].at = time]
  /\ UNCHANGED <<time, lease, begun, entries, attended>>

HeldIgnoringExpiry(w) == lease.stored /\ lease.owner # w
Held(w) == lease.stored /\ lease.owner # w /\ lease.expires > worker[w].at

Acquiring(w) == worker[w].pc \in {"insert", "update"}

\* acquire_scheduler_lease finds the lease held by a live owner ...
Denied(w) ==
  /\ worker[w].pc = "acquire" /\ Held(w)
  /\ Sleep(w, worker[w].flat)
  /\ UNCHANGED <<time, lease, begun, entries, attended>>

\* ... or finds no row, or one it may take.
ReadLease(w) ==
  /\ worker[w].pc = "acquire" /\ ~Held(w)
  /\ Racing \/ \A other \in Workers : ~Acquiring(other)
  /\ Goto(w, IF lease.stored THEN "update" ELSE "insert")
  /\ UNCHANGED <<time, lease, begun, entries, attended>>

\* The row it read is updated without looking at it again; a second insert
\* fails on the primary key and ends the process.
WriteLease(w) ==
  /\ Acquiring(w) /\ (worker[w].pc = "insert" => ~lease.stored)
  /\ lease' = [stored |-> TRUE, owner |-> w,
               expires |-> worker[w].at + LeaseMinutes(worker[w].at, worker[w].flat)]
  /\ Goto(w, "begin")
  /\ UNCHANGED <<time, begun, entries, attended>>

InsertFails(w) ==
  /\ worker[w].pc = "insert" /\ lease.stored
  /\ Die(w)
  /\ attended' = time
  /\ UNCHANGED <<time, lease, begun, entries>>

\* begin_run: the key is unique, so one of two inserts succeeds ...
NewRunAlways(key) == TRUE
NewRun(key) == key \notin begun
BeginRun(w) ==
  /\ worker[w].pc = "begin" /\ NewRun(Window(worker[w].at))
  /\ begun' = begun \union {Window(worker[w].at)}
  /\ Goto(w, "reading")
  /\ attended' = time
  /\ UNCHANGED <<time, lease, entries>>

\* ... and the other's cycle is suppressed; it may find the Passport of the first.
SuppressDuplicate(w) ==
  /\ worker[w].pc = "begin" /\ ~NewRun(Window(worker[w].at))
  /\ \E flat \in BOOLEAN : Sleep(w, flat)
  /\ UNCHANGED <<time, lease, begun, entries, attended>>

(***************************************************************************)
(* The cycle.                                                              *)
(***************************************************************************)
Cycling(w) == worker[w].pc \in {"reading", "trading"}

\* The last minute in which the cycle of w may still run: the one its successor
\* is due in, or later.
Deadline(w) == worker[w].at + Interval(worker[w].at, worker[w].flat) + Overrun

\* portfolio_risk_summary: the underlyings with a pending entry, read once.
ReadPortfolio(w) ==
  /\ worker[w].pc = "reading"
  /\ worker' = [worker EXCEPT ![w].pc = "trading", ![w].seen = entries > 0]
  /\ UNCHANGED <<time, lease, begun, entries, attended>>

\* evaluate_risk blocks an underlying that was pending then; an entry made here
\* stays pending.
SubmitEntry(w) ==
  /\ worker[w].pc = "trading" /\ ~worker[w].seen /\ entries < MaxEntries
  /\ entries' = entries + 1
  /\ worker' = [worker EXCEPT ![w].seen = TRUE]
  /\ UNCHANGED <<time, lease, begun, attended>>

\* The Passport says whether the broker was flat; a failed cycle ends the same way.
EndCycle(w) ==
  /\ Cycling(w)
  /\ \E flat \in BOOLEAN : Sleep(w, flat)
  /\ UNCHANGED <<time, lease, begun, entries, attended>>

\* The process is stopped or dies; nothing releases the lease, and nobody will
\* ever have its owner id again.
Leave(w) ==
  /\ worker[w].pc # "down"
  /\ Die(w)
  /\ lease' = [lease EXCEPT !.owner = IF @ = w THEN NoOne ELSE @]
  /\ attended' = time
  /\ UNCHANGED <<time, begun, entries>>

\* Minutes pass while workers sleep or a cycle runs.
MayWait(w) ==
  \/ worker[w].pc = "down"
  \/ (worker[w].pc = "asleep" /\ worker[w].at > time)
  \/ (Cycling(w) /\ Deadline(w) > time)
Unattended ==
  /\ \A w \in Workers : ~Cycling(w)
  /\ \E w \in Workers : worker[w].pc = "asleep"

Tick ==
  /\ time < Horizon
  /\ \A w \in Workers : MayWait(w)
  /\ time' = time + 1
  /\ attended' = IF Unattended THEN attended ELSE time + 1
  /\ UNCHANGED <<worker, lease, begun, entries>>

Step(w) ==
  \/ Start(w) \/ Wake(w) \/ Denied(w) \/ ReadLease(w) \/ WriteLease(w) \/ InsertFails(w)
  \/ BeginRun(w) \/ SuppressDuplicate(w) \/ ReadPortfolio(w) \/ SubmitEntry(w)
  \/ EndCycle(w) \/ Leave(w)

\* The bound on time is reached: the behaviour ends here.
Done ==
  /\ time = Horizon
  /\ UNCHANGED vars

Next == Tick \/ Done \/ \E w \in Workers : Step(w)

Spec == Init /\ [][Next]_vars

(***************************************************************************)
(* Properties.                                                             *)
(***************************************************************************)
\* Every variable keeps its type.
TypeOK ==
  /\ time \in 0..Horizon
  /\ worker \in [Workers -> [pc : Pcs, at : Nat, flat : BOOLEAN, seen : BOOLEAN]]
  /\ lease \in [stored : BOOLEAN, owner : Workers \union {NoOne}, expires : Nat]
  /\ begun \subseteq 0..Horizon
  /\ entries \in 0..MaxEntries
  /\ attended \in 0..Horizon

\* No two workers execute cycles at the same time: what the lease is for.
OneCycleAtATime == \A v, w \in Workers : Cycling(v) /\ Cycling(w) => v = w

\* No underlying is entered twice by workers that each read the portfolio before
\* the other's entry (pending_underlyings in portfolio_risk_summary).
OneEntry == entries <= 1

\* No two workers ever execute the same window, whatever the lease does: what the
\* unique cycle key is for.
DistinctWindows ==
  \A v, w \in Workers :
    Cycling(v) /\ Cycling(w) /\ v # w => Window(worker[v].at) # Window(worker[w].at)

\* While a process is up and none is lost, no more than ten minutes pass without
\* a cycle, and once the one-minute leases have replaced the last six-minute one,
\* no more than two until the end of the day: a dead worker's lease runs out.
NeverUnattended ==
  time - attended <= IF time >= FinalStart + 7 /\ time <= Eod THEN 2 ELSE 10

\* The workers, the lease and the run keys implement one cycle at a time and one
\* cycle per window.
Serial == INSTANCE SerialCycles WITH
  Windows <- 0..Horizon, active <- {w \in Workers : Cycling(w)}, begun <- begun
ImplementsSerialCycles == Serial!Spec
=============================================================================
