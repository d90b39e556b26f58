------------------------- MODULE SchedulerLeaseProofs -------------------------
(***************************************************************************)
(* Proofs about SchedulerLease for every set of workers and every schedule *)
(* of the final day.  The types are correct whatever happens.  While no    *)
(* two acquisitions interleave and every cycle ends by the minute its      *)
(* successor is due in, one cycle runs at a time, and the workers          *)
(* implement SerialCycles.  That nobody waits for long is proved without   *)
(* either condition.                                                       *)
(***************************************************************************)
EXTENDS SchedulerLease, TLAPS

Worker == [pc : Pcs, at : Nat, flat : BOOLEAN, seen : BOOLEAN]

\* What a process that reads the lease, or goes on under it, has read is the time.
Current ==
  \A w \in Workers :
    worker[w].pc \in {"acquire", "insert", "update", "begin"} => worker[w].at = time

\* Who may begin a cycle, or runs one, owns a lease that outlasts it.
Holding(w) == worker[w].pc = "begin" \/ Cycling(w)
Owned ==
  \A w \in Workers : Holding(w) =>
    /\ lease.stored /\ lease.owner = w
    /\ lease.expires = worker[w].at + LeaseMinutes(worker[w].at, worker[w].flat)
    /\ time <= worker[w].at + Interval(worker[w].at, worker[w].flat)

\* Between the halves of an acquisition nobody else acquires or holds.
Alone ==
  \A v, w \in Workers : Acquiring(w) /\ v # w => ~Acquiring(v) /\ ~Holding(v)

Inv == TypeOK /\ Current /\ Owned /\ Alone

(***************************************************************************)
(* Clocks.                                                                 *)
(***************************************************************************)
LEMMA Intervals ==
  ASSUME NEW now \in Nat, NEW flat \in BOOLEAN
  PROVE /\ Interval(now, flat) \in {1, 5}
        /\ LeaseMinutes(now, flat) = Interval(now, flat) + 1
        /\ NextWake(now, flat) \in Nat
        /\ Window(now) \in 0..now
<1>1. Interval(now, flat) \in {1, 5}
  BY DEF Interval
<1>2. now - (now % 5) \in 0..now
  OBVIOUS
<1>3. now - (now % 1) \in 0..now
  OBVIOUS
<1>4. LeaseMinutes(now, flat) = Interval(now, flat) + 1
  BY <1>1 DEF LeaseMinutes
<1>5. NextWake(now, flat) \in Nat
  <2> DEFINE interval == IF now = Eod /\ flat THEN 5 ELSE Interval(now, flat)
  <2>1. NextWake(now, flat) = now - (now % interval) + interval
    BY DEF NextWake
  <2>2. CASE interval = 5
    BY <1>2, <2>1, <2>2
  <2>3. CASE interval = 1
    BY <1>3, <2>1, <2>3
  <2>4. QED
    BY <1>1, <2>2, <2>3
<1>6. Window(now) \in 0..now
  BY <1>2 DEF Window
<1>7. QED
  BY <1>1, <1>4, <1>5, <1>6

(***************************************************************************)
(* Moving one process.                                                     *)
(***************************************************************************)
LEMMA MoveTo ==
  ASSUME worker \in [Workers -> Worker], NEW w \in Workers, NEW r \in Worker,
         worker' = [worker EXCEPT ![w] = r]
  PROVE /\ worker' \in [Workers -> Worker]
        /\ worker'[w] = r
        /\ \A v \in Workers : v # w => worker'[v] = worker[v]
  OBVIOUS

LEMMA GotoMoves ==
  ASSUME worker \in [Workers -> Worker], NEW w \in Workers, NEW pc \in Pcs, Goto(w, pc)
  PROVE /\ worker' \in [Workers -> Worker]
        /\ worker'[w].pc = pc
        /\ worker'[w].at = worker[w].at /\ worker'[w].flat = worker[w].flat
        /\ \A v \in Workers : v # w => worker'[v] = worker[v]
<1> DEFINE r == [worker[w] EXCEPT !.pc = pc]
<1>1. worker[w] \in Worker
  OBVIOUS
<1>2. r \in Worker /\ r.pc = pc /\ r.at = worker[w].at /\ r.flat = worker[w].flat
  BY <1>1 DEF Worker
<1>3. worker' = [worker EXCEPT ![w] = r]
  BY DEF Goto
<1> HIDE DEF r
<1>4. QED
  BY <1>2, <1>3, MoveTo

LEMMA SleepMoves ==
  ASSUME worker \in [Workers -> Worker], time \in Nat, NEW w \in Workers,
         NEW flat \in BOOLEAN, Sleep(w, flat)
  PROVE /\ worker' \in [Workers -> Worker]
        /\ worker'[w].pc = "asleep" /\ worker'[w].at = NextWake(time, flat)
        /\ \A v \in Workers : v # w => worker'[v] = worker[v]
<1> DEFINE r == [pc |-> "asleep", at |-> NextWake(time, flat), flat |-> flat, seen |-> FALSE]
<1>1. NextWake(time, flat) \in Nat
  BY Intervals
<1>2. r \in Worker /\ r.pc = "asleep" /\ r.at = NextWake(time, flat)
  BY <1>1 DEF Worker, Pcs
<1>3. worker' = [worker EXCEPT ![w] = r]
  BY DEF Sleep
<1> HIDE DEF r
<1>4. QED
  BY <1>2, <1>3, MoveTo

LEMMA DieMoves ==
  ASSUME worker \in [Workers -> Worker], NEW w \in Workers, Die(w)
  PROVE /\ worker' \in [Workers -> Worker]
        /\ worker'[w].pc = "down"
        /\ \A v \in Workers : v # w => worker'[v] = worker[v]
<1>1. Dead \in Worker /\ Dead.pc = "down"
  BY DEF Dead, Worker, Pcs
<1>2. QED
  BY <1>1, MoveTo DEF Die

LEMMA Typed ==
  ASSUME TypeOK
  PROVE /\ worker \in [Workers -> Worker] /\ time \in Nat /\ entries \in Nat
        /\ lease.stored \in BOOLEAN /\ lease.owner \in Workers \union {NoOne}
        /\ lease.expires \in Nat
        /\ \A w \in Workers :
             /\ worker[w] \in Worker
             /\ worker[w].pc \in Pcs /\ worker[w].at \in Nat
             /\ worker[w].flat \in BOOLEAN /\ worker[w].seen \in BOOLEAN
BY ConstantsAssumption DEF TypeOK, Worker

(***************************************************************************)
(* Types, step by step.                                                    *)
(***************************************************************************)
LEMMA InitType == Init => TypeOK
<1> SUFFICES ASSUME Init PROVE TypeOK
  OBVIOUS
<1> USE ConstantsAssumption
<1>1. Dead \in [pc : Pcs, at : Nat, flat : BOOLEAN, seen : BOOLEAN]
  BY DEF Dead, Pcs
<1>2. worker \in [Workers -> [pc : Pcs, at : Nat, flat : BOOLEAN, seen : BOOLEAN]]
  BY <1>1 DEF Init
<1>3. lease \in [stored : BOOLEAN, owner : Workers \union {NoOne}, expires : Nat]
  BY DEF Init
<1>4. QED
  BY <1>2, <1>3 DEF Init, TypeOK

\* The step ends, or has not begun, anything under the lease.
Releasing(w) ==
  \/ Start(w) \/ Denied(w) \/ InsertFails(w) \/ SuppressDuplicate(w) \/ EndCycle(w) \/ Leave(w)

\* Such a step leaves the process idle and the lease of anybody else alone.
LEMMA ReleasingMoves ==
  ASSUME TypeOK, NEW w \in Workers, Releasing(w)
  PROVE /\ worker' \in [Workers -> Worker]
        /\ worker'[w].pc \in {"asleep", "down"}
        /\ \A v \in Workers : v # w => worker'[v] = worker[v]
        /\ lease' \in [stored : BOOLEAN, owner : Workers \union {NoOne}, expires : Nat]
        /\ lease.owner # w => lease' = lease
        /\ time' = time /\ begun' = begun /\ entries' = entries
        /\ attended' \in {attended, time}
<1>1. CASE Start(w)
  <2> DEFINE r == [pc |-> "asleep", at |-> time, flat |-> FALSE, seen |-> FALSE]
  <2>1. r \in Worker /\ r.pc = "asleep"
    BY Typed DEF Pcs, Worker
  <2>2. worker' = [worker EXCEPT ![w] = r]
    BY <1>1 DEF Start
  <2> HIDE DEF r
  <2>3. QED
    BY <1>1, <2>1, <2>2, MoveTo, Typed DEF Start, TypeOK
<1>2. CASE Denied(w)
  BY <1>2, Typed, SleepMoves DEF Denied, TypeOK
<1>3. CASE InsertFails(w)
  BY <1>3, Typed, DieMoves DEF InsertFails, TypeOK
<1>4. CASE SuppressDuplicate(w) \/ EndCycle(w)
  <2>1. PICK flat \in BOOLEAN : Sleep(w, flat)
    BY <1>4 DEF SuppressDuplicate, EndCycle
  <2>2. QED
    BY <1>4, <2>1, Typed, SleepMoves DEF SuppressDuplicate, EndCycle, TypeOK
<1>5. CASE Leave(w)
  <2>1. lease' \in [stored : BOOLEAN, owner : Workers \union {NoOne}, expires : Nat]
    BY <1>5 DEF Leave, TypeOK
  <2>2. lease.owner # w => lease' = lease
    BY <1>5 DEF Leave, TypeOK
  <2>3. QED
    BY <1>5, <2>1, <2>2, Typed, DieMoves DEF Leave
<1>6. QED
  BY <1>1, <1>2, <1>3, <1>4, <1>5 DEF Releasing

LEMMA WakeMoves ==
  ASSUME TypeOK, NEW w \in Workers, Wake(w)
  PROVE /\ worker' \in [Workers -> Worker]
        /\ worker'[w].pc = "acquire" /\ worker'[w].at = time
        /\ \A v \in Workers : v # w => worker'[v] = worker[v]
<1> DEFINE r == [worker[w] EXCEPT !.pc = "acquire", !.at = time]
<1>1. r \in Worker /\ r.pc = "acquire" /\ r.at = time
  BY Typed DEF Worker, Pcs
<1>2. worker' = [worker EXCEPT ![w] = r]
  BY DEF Wake
<1> HIDE DEF r
<1>3. QED
  BY <1>1, <1>2, MoveTo, Typed

\* The cycle's own reads and writes.
LEMMA TradingMoves ==
  ASSUME TypeOK, NEW w \in Workers, ReadPortfolio(w) \/ SubmitEntry(w)
  PROVE /\ worker' \in [Workers -> Worker]
        /\ worker'[w].pc = "trading" /\ Cycling(w)
        /\ worker'[w].at = worker[w].at /\ worker'[w].flat = worker[w].flat
        /\ \A v \in Workers : v # w => worker'[v] = worker[v]
        /\ entries' \in 0..MaxEntries
        /\ UNCHANGED <<time, lease, begun, attended>>
<1> USE DEF Worker, Pcs
<1>1. CASE ReadPortfolio(w)
  <2> DEFINE seen == entries > 0
             r == [worker[w] EXCEPT !.pc = "trading", !.seen = seen]
  <2>1. seen \in BOOLEAN
    BY Typed
  <2>2. worker' = [worker EXCEPT ![w] = r]
    BY <1>1 DEF ReadPortfolio
  <2> HIDE DEF seen
  <2>3. r \in Worker /\ r.pc = "trading" /\ r.at = worker[w].at /\ r.flat = worker[w].flat
    BY <2>1, Typed
  <2> HIDE DEF r
  <2>4. QED
    BY <1>1, <2>2, <2>3, MoveTo, Typed DEF ReadPortfolio, Cycling, TypeOK
<1>2. CASE SubmitEntry(w)
  <2> DEFINE r == [worker[w] EXCEPT !.seen = TRUE]
  <2>1. r \in Worker /\ r.pc = "trading" /\ r.at = worker[w].at /\ r.flat = worker[w].flat
    BY <1>2, Typed DEF SubmitEntry
  <2>2. worker' = [worker EXCEPT ![w] = r]
    BY <1>2 DEF SubmitEntry
  <2>3. entries' \in 0..MaxEntries
    BY <1>2, Typed, ConstantsAssumption DEF SubmitEntry
  <2> HIDE DEF r
  <2>4. QED
    BY <1>2, <2>1, <2>2, <2>3, MoveTo, Typed DEF SubmitEntry, Cycling
<1>3. QED
  BY <1>1, <1>2

LEMMA TickMoves ==
  ASSUME TypeOK, Tick
  PROVE /\ time' = time + 1 /\ time' \in 0..Horizon /\ attended' \in 0..Horizon
        /\ \A w \in Workers :
             /\ worker[w].pc \notin {"acquire", "insert", "update", "begin"}
             /\ Cycling(w) => Deadline(w) > time
        /\ worker' = worker /\ lease' = lease /\ begun' = begun /\ entries' = entries
<1>1. time' = time + 1 /\ time' \in 0..Horizon /\ attended' \in 0..Horizon
  BY ConstantsAssumption DEF Tick, TypeOK
<1>2. \A w \in Workers :
        /\ worker[w].pc \notin {"acquire", "insert", "update", "begin"}
        /\ Cycling(w) => Deadline(w) > time
  BY DEF Tick, MayWait, Cycling
<1>3. worker' = worker /\ lease' = lease /\ begun' = begun /\ entries' = entries
  BY DEF Tick
<1>4. QED
  BY <1>1, <1>2, <1>3

LEMMA StepType ==
  ASSUME TypeOK, Current, NEW w \in Workers, Step(w)
  PROVE TypeOK' /\ Current'
<1> USE DEF Current
<1>1. CASE Releasing(w)
  <2>1. worker' \in [Workers -> Worker] /\ attended' \in 0..Horizon
    BY <1>1, ReleasingMoves DEF TypeOK
  <2>2. TypeOK'
    BY <1>1, <2>1, ReleasingMoves DEF TypeOK, Worker
  <2>3. QED
    BY <1>1, <2>2, ReleasingMoves
<1>2. CASE Wake(w)
  <2>1. TypeOK'
    BY <1>2, WakeMoves DEF Wake, TypeOK, Worker
  <2>2. QED
    BY <1>2, <2>1, WakeMoves DEF Wake
<1>3. CASE ReadLease(w)
  <2>1. PICK pc \in {"insert", "update"} : Goto(w, pc)
    BY <1>3 DEF ReadLease
  <2>2. /\ worker' \in [Workers -> Worker] /\ worker'[w].at = worker[w].at
        /\ \A v \in Workers : v # w => worker'[v] = worker[v]
    BY <2>1, Typed, GotoMoves DEF Pcs
  <2>3. TypeOK'
    BY <1>3, <2>2 DEF ReadLease, TypeOK, Worker
  <2>4. QED
    BY <1>3, <2>2, <2>3 DEF ReadLease
<1>4. CASE WriteLease(w)
  <2>1. /\ worker' \in [Workers -> Worker] /\ worker'[w].at = worker[w].at
        /\ \A v \in Workers : v # w => worker'[v] = worker[v]
    BY <1>4, Typed, GotoMoves DEF Pcs, WriteLease
  <2>2. worker[w].at + LeaseMinutes(worker[w].at, worker[w].flat) \in Nat
    <3>1. worker[w].at \in Nat /\ worker[w].flat \in BOOLEAN
      BY Typed
    <3>2. LeaseMinutes(worker[w].at, worker[w].flat) \in {2, 6}
      BY DEF LeaseMinutes
    <3>3. QED
      BY <3>1, <3>2
  <2>3. lease' \in [stored : BOOLEAN, owner : Workers \union {NoOne}, expires : Nat]
    BY <1>4, <2>2 DEF WriteLease
  <2>4. TypeOK'
    BY <1>4, <2>1, <2>3 DEF WriteLease, TypeOK, Worker
  <2>5. QED
    BY <1>4, <2>1, <2>4 DEF WriteLease, Acquiring
<1>5. CASE BeginRun(w)
  <2>1. /\ worker' \in [Workers -> Worker] /\ worker'[w].pc = "reading"
        /\ \A v \in Workers : v # w => worker'[v] = worker[v]
    BY <1>5, Typed, GotoMoves DEF Pcs, BeginRun
  <2>2. Window(worker[w].at) \in 0..Horizon
    BY <1>5, Typed, Intervals, ConstantsAssumption DEF BeginRun, TypeOK
  <2>3. TypeOK'
    BY <1>5, <2>1, <2>2 DEF BeginRun, TypeOK, Worker
  <2>4. QED
    BY <1>5, <2>1, <2>3 DEF BeginRun
<1>6. CASE ReadPortfolio(w) \/ SubmitEntry(w)
  <2>1. TypeOK'
    BY <1>6, TradingMoves DEF TypeOK, Worker
  <2>2. QED
    BY <1>6, <2>1, TradingMoves
<1> HIDE DEF Current
<1>7. QED
  BY <1>1, <1>2, <1>3, <1>4, <1>5, <1>6 DEF Step, Releasing

LEMMA NextType == TypeOK /\ Current /\ [Next]_vars => TypeOK' /\ Current'
<1> SUFFICES ASSUME TypeOK, Current, [Next]_vars PROVE TypeOK' /\ Current'
  OBVIOUS
<1>1. CASE Tick
  BY <1>1, TickMoves DEF TypeOK, Current
<1>2. CASE UNCHANGED vars
  BY <1>2 DEF TypeOK, Current, vars
<1>3. QED
  BY <1>1, <1>2, StepType DEF Next, Done

LEMMA InitCurrent == Init => Current
BY DEF Init, Current, Dead

\* The clock, the processes, the lease and the run keys keep their types, and no
\* cycle begins for a window that is still to come.
THEOREM TypeCorrect == Spec => []TypeOK
<1>1. Init => TypeOK /\ Current
  BY InitType, InitCurrent
<1>2. QED
  BY <1>1, NextType, PTL DEF Spec

(***************************************************************************)
(* One owner.                                                              *)
(***************************************************************************)
\* Who holds the lease outlasts the current minute, so that nobody else may
\* take it, and no two processes hold it.
LEMMA HoldersExclude ==
  ASSUME Inv, NEW v \in Workers, Holding(v)
  PROVE /\ lease.stored /\ lease.owner = v /\ lease.expires > time
        /\ \A w \in Workers : Holding(w) => w = v
        /\ \A w \in Workers : worker[w].pc = "acquire" /\ w # v => Held(w)
<1>1. lease.stored /\ lease.owner = v /\ lease.expires > time
  <2>1. TypeOK /\ worker[v].at \in Nat /\ worker[v].flat \in BOOLEAN /\ time \in Nat
    BY Typed DEF Inv
  <2>2. /\ Interval(worker[v].at, worker[v].flat) \in {1, 5}
        /\ LeaseMinutes(worker[v].at, worker[v].flat) = Interval(worker[v].at, worker[v].flat) + 1
    BY <2>1, Intervals
  <2>3. /\ lease.stored /\ lease.owner = v
        /\ lease.expires = worker[v].at + LeaseMinutes(worker[v].at, worker[v].flat)
        /\ time <= worker[v].at + Interval(worker[v].at, worker[v].flat)
    BY DEF Inv, Owned
  <2>4. QED
    BY <2>1, <2>2, <2>3
<1>2. QED
  BY <1>1 DEF Inv, Owned, Current, Held

LEMMA InitOwned == Init => Owned /\ Alone
BY DEF Init, Owned, Alone, Dead, Holding, Cycling, Acquiring

LEMMA StepOwned ==
  ASSUME Inv, Overrun = 0, Racing = FALSE, NEW w \in Workers, Step(w)
  PROVE Owned' /\ Alone'
<1> USE DEF Holding, Cycling, Acquiring
<1>0. TypeOK /\ Current /\ Owned /\ Alone
  BY DEF Inv
<1>1. CASE Releasing(w)
  <2>1. /\ worker'[w].pc \in {"asleep", "down"} /\ time' = time
        /\ \A v \in Workers : v # w => worker'[v] = worker[v]
        /\ lease.owner # w => lease' = lease
    BY <1>0, <1>1, ReleasingMoves
  <2>2. Owned'
    BY <1>0, <2>1 DEF Owned
  <2>3. Alone'
    BY <1>0, <2>1 DEF Alone
  <2>4. QED
    BY <2>2, <2>3
<1>2. CASE Wake(w)
  <2>1. /\ worker'[w].pc = "acquire" /\ time' = time /\ lease' = lease
        /\ \A v \in Workers : v # w => worker'[v] = worker[v]
    BY <1>0, <1>2, WakeMoves DEF Wake
  <2>2. QED
    BY <1>0, <2>1 DEF Owned, Alone
<1>3. CASE ReadLease(w)
  <2>1. PICK pc \in {"insert", "update"} : Goto(w, pc)
    BY <1>3 DEF ReadLease
  <2>2. /\ worker'[w].pc \in {"insert", "update"} /\ time' = time /\ lease' = lease
        /\ \A v \in Workers : v # w => worker'[v] = worker[v]
    BY <1>0, <1>3, <2>1, Typed, GotoMoves DEF Pcs, ReadLease
  <2>3. \A v \in Workers : v # w => ~Acquiring(v) /\ ~Holding(v)
    <3>1. \A v \in Workers : ~Acquiring(v)
      BY <1>3 DEF ReadLease
    <3>2. \A v \in Workers : v # w => ~Holding(v)
      BY <1>3, HoldersExclude DEF ReadLease
    <3>3. QED
      BY <3>1, <3>2
  <2>4. Owned'
    BY <1>0, <2>2 DEF Owned
  <2>5. Alone'
    BY <2>2, <2>3 DEF Alone
  <2>6. QED
    BY <2>4, <2>5
<1>4. CASE WriteLease(w)
  <2>1. /\ worker'[w].pc = "begin" /\ time' = time
        /\ worker'[w].at = worker[w].at /\ worker'[w].flat = worker[w].flat
        /\ \A v \in Workers : v # w => worker'[v] = worker[v]
    BY <1>0, <1>4, Typed, GotoMoves DEF Pcs, WriteLease
  <2>2. \A v \in Workers : v # w => ~Acquiring(v) /\ ~Holding(v)
    BY <1>0, <1>4 DEF Alone, WriteLease
  <2>3. worker[w].at = time
    BY <1>0, <1>4 DEF Current, WriteLease
  <2>4. time' <= worker'[w].at + Interval(worker'[w].at, worker'[w].flat)
    BY <1>0, <2>1, <2>3, Typed, Intervals
  <2>5. lease' = [stored |-> TRUE, owner |-> w,
                  expires |-> worker'[w].at + LeaseMinutes(worker'[w].at, worker'[w].flat)]
    BY <1>4, <2>1 DEF WriteLease
  <2>6. Owned'
    BY <2>1, <2>2, <2>4, <2>5 DEF Owned
  <2>7. Alone'
    BY <2>1, <2>2 DEF Alone
  <2>8. QED
    BY <2>6, <2>7
<1>5. CASE BeginRun(w)
  <2>1. /\ worker'[w].pc = "reading" /\ worker[w].pc = "begin" /\ time' = time /\ lease' = lease
        /\ worker'[w].at = worker[w].at /\ worker'[w].flat = worker[w].flat
        /\ \A v \in Workers : v # w => worker'[v] = worker[v]
    BY <1>0, <1>5, Typed, GotoMoves DEF Pcs, BeginRun
  <2>2. Owned'
    BY <1>0, <2>1 DEF Owned
  <2>3. Alone'
    BY <1>0, <2>1 DEF Alone
  <2>4. QED
    BY <2>2, <2>3
<1>6. CASE ReadPortfolio(w) \/ SubmitEntry(w)
  <2>1. /\ worker'[w].pc = "trading" /\ Cycling(w) /\ time' = time /\ lease' = lease
        /\ worker'[w].at = worker[w].at /\ worker'[w].flat = worker[w].flat
        /\ \A v \in Workers : v # w => worker'[v] = worker[v]
    BY <1>0, <1>6, TradingMoves
  <2>2. Owned'
    BY <1>0, <2>1 DEF Owned
  <2>3. Alone'
    BY <1>0, <2>1 DEF Alone
  <2>4. QED
    BY <2>2, <2>3
<1> HIDE DEF Holding, Cycling, Acquiring
<1>7. QED
  BY <1>1, <1>2, <1>3, <1>4, <1>5, <1>6 DEF Step, Releasing

LEMMA TickOwned ==
  ASSUME Inv, Overrun = 0, Tick
  PROVE Owned' /\ Alone'
<1>1. TypeOK /\ Current /\ Owned /\ Alone
  BY DEF Inv
<1>2. /\ time' = time + 1 /\ UNCHANGED <<worker, lease>>
      /\ \A w \in Workers :
           /\ worker[w].pc \notin {"acquire", "insert", "update", "begin"}
           /\ Cycling(w) => Deadline(w) > time
  BY <1>1, TickMoves
<1>3. ASSUME NEW w \in Workers, Holding(w)'
      PROVE /\ Holding(w)
            /\ time' <= worker[w].at + Interval(worker[w].at, worker[w].flat)
  <2>1. Cycling(w) /\ Deadline(w) > time
    BY <1>2, <1>3 DEF Holding, Cycling
  <2>2. /\ worker[w].at \in Nat /\ time \in Nat
        /\ Interval(worker[w].at, worker[w].flat) \in {1, 5}
    BY <1>1, Typed, Intervals
  <2>3. time < worker[w].at + Interval(worker[w].at, worker[w].flat)
    BY <2>1, <2>2 DEF Deadline
  <2>4. QED
    BY <1>2, <2>1, <2>2, <2>3 DEF Holding
<1>4. Owned'
  BY <1>1, <1>2, <1>3 DEF Owned
<1>5. Alone'
  BY <1>1, <1>2 DEF Alone, Acquiring, Holding, Cycling
<1>6. QED
  BY <1>4, <1>5

LEMMA NextOwned == Overrun = 0 /\ Racing = FALSE /\ Inv /\ [Next]_vars => Inv'
<1> SUFFICES ASSUME Overrun = 0, Racing = FALSE, Inv, [Next]_vars PROVE Inv'
  OBVIOUS
<1>1. TypeOK' /\ Current'
  BY NextType DEF Inv
<1>2. Owned' /\ Alone'
  <2>1. CASE UNCHANGED vars
    BY <2>1 DEF Inv, Owned, Alone, Holding, Cycling, Acquiring, vars
  <2>2. QED
    BY <2>1, StepOwned, TickOwned DEF Next, Done
<1>3. QED
  BY <1>1, <1>2 DEF Inv

LEMMA InitInv == Init => Inv
BY InitType, InitCurrent, InitOwned DEF Inv

\* No two workers execute cycles at the same time, for any number of workers,
\* crashes, restarts and early timers, while acquisitions do not interleave and
\* no cycle runs past the minute its successor is due in.
THEOREM CyclesExclude ==
  ASSUME Overrun = 0, Racing = FALSE
  PROVE Spec => []OneCycleAtATime
<1>1. Inv => OneCycleAtATime
  BY HoldersExclude DEF OneCycleAtATime, Holding
<1>2. Init /\ [][Next]_vars => []Inv
  BY InitInv, NextOwned, PTL
<1>3. QED
  BY <1>1, <1>2, PTL DEF Spec

\* A cycle that has not seen an entry is right: nobody else could make one.
Unentered ==
  /\ entries <= 1
  /\ \A w \in Workers : worker[w].pc = "trading" /\ ~worker[w].seen => entries = 0

LEMMA StepUnentered ==
  ASSUME Inv, Unentered, NEW w \in Workers, Step(w)
  PROVE Unentered'
<1>0. TypeOK /\ entries \in Nat
  BY Typed DEF Inv
<1>1. CASE ReadPortfolio(w)
  <2>1. /\ entries' = entries
        /\ \A v \in Workers : v # w => worker'[v] = worker[v]
    BY <1>0, <1>1, TradingMoves DEF ReadPortfolio
  <2>2. ~worker'[w].seen => entries = 0
    BY <1>0, <1>1, Typed DEF ReadPortfolio, Worker
  <2>3. QED
    BY <2>1, <2>2 DEF Unentered
<1>2. CASE SubmitEntry(w)
  <2>1. /\ entries = 0 /\ entries' = entries + 1
        /\ Cycling(w) /\ worker'[w].seen
        /\ \A v \in Workers : v # w => worker'[v] = worker[v]
    BY <1>0, <1>2, Typed, TradingMoves DEF SubmitEntry, Unentered, Worker
  <2>2. \A v \in Workers : v # w => ~Cycling(v)
    BY <2>1, HoldersExclude DEF Holding
  <2>3. QED
    BY <2>1, <2>2 DEF Unentered, Cycling
<1>3. CASE Releasing(w)
  BY <1>0, <1>3, ReleasingMoves DEF Unentered
<1>4. CASE Wake(w)
  BY <1>0, <1>4, WakeMoves DEF Wake, Unentered
<1>5. CASE ReadLease(w)
  <2>1. PICK pc \in {"insert", "update"} : Goto(w, pc)
    BY <1>5 DEF ReadLease
  <2>2. QED
    BY <1>0, <1>5, <2>1, Typed, GotoMoves DEF Pcs, ReadLease, Unentered
<1>6. CASE WriteLease(w)
  BY <1>0, <1>6, Typed, GotoMoves DEF Pcs, WriteLease, Unentered
<1>7. CASE BeginRun(w)
  BY <1>0, <1>7, Typed, GotoMoves DEF Pcs, BeginRun, Unentered
<1>8. QED
  BY <1>1, <1>2, <1>3, <1>4, <1>5, <1>6, <1>7 DEF Step, Releasing

LEMMA NextUnentered == Inv /\ Unentered /\ [Next]_vars => Unentered'
<1>1. Tick \/ UNCHANGED vars => UNCHANGED <<worker, entries>>
  BY DEF Tick, vars
<1>2. QED
  BY <1>1, StepUnentered DEF Next, Done, Unentered

\* No underlying is entered twice on an older view of the portfolio, under the
\* same two conditions.
THEOREM EntriesOnce ==
  ASSUME Overrun = 0, Racing = FALSE
  PROVE Spec => []OneEntry
<1>1. Init => Unentered
  BY DEF Init, Unentered, Dead
<1>2. Unentered => OneEntry
  BY DEF Unentered, OneEntry
<1>3. Init /\ [][Next]_vars => []Inv
  BY InitInv, NextOwned, PTL
<1>4. QED
  BY <1>1, <1>2, <1>3, NextUnentered, PTL DEF Spec

(***************************************************************************)
(* The run key alone.                                                      *)
(***************************************************************************)
\* Every running cycle has its key among the runs, and no other has it.
Keyed ==
  /\ \A w \in Workers : Cycling(w) => Window(worker[w].at) \in begun
  /\ DistinctWindows

KInv == TypeOK /\ Current /\ Keyed

LEMMA StepKeyed ==
  ASSUME KInv, NEW w \in Workers, Step(w)
  PROVE Keyed'
<1>0. TypeOK /\ Keyed
  BY DEF KInv
<1>1. CASE BeginRun(w)
  <2>1. /\ worker'[w].pc = "reading" /\ worker'[w].at = worker[w].at
        /\ \A v \in Workers : v # w => worker'[v] = worker[v]
    BY <1>0, <1>1, Typed, GotoMoves DEF Pcs, BeginRun
  <2>2. Window(worker[w].at) \notin begun /\ begun' = begun \union {Window(worker[w].at)}
    BY <1>1 DEF BeginRun, NewRun
  <2>3. Window(worker'[w].at) = Window(worker[w].at)
    BY <2>1
  <2>4. \A v \in Workers : v # w /\ Cycling(v)' =>
          /\ Window(worker'[v].at) \in begun
          /\ Window(worker'[v].at) # Window(worker'[w].at)
    BY <1>0, <2>1, <2>2, <2>3 DEF Keyed, Cycling
  <2>5. \A v \in Workers : Cycling(v)' => Window(worker'[v].at) \in begun'
    BY <2>2, <2>3, <2>4
  <2>6. \A u, v \in Workers :
          u # w /\ v # w /\ Cycling(u)' /\ Cycling(v)' /\ u # v =>
            Window(worker'[u].at) # Window(worker'[v].at)
    BY <1>0, <2>1 DEF Keyed, DistinctWindows, Cycling
  <2>7. QED
    BY <2>4, <2>5, <2>6 DEF Keyed, DistinctWindows, Window, FinalWindow
<1>2. CASE Releasing(w)
  <2>1. /\ ~Cycling(w)' /\ begun' = begun
        /\ \A v \in Workers : v # w => worker'[v] = worker[v]
    BY <1>0, <1>2, ReleasingMoves DEF Cycling
  <2>2. QED
    BY <1>0, <2>1 DEF Keyed, DistinctWindows, Cycling, Window, FinalWindow
<1>3. ASSUME /\ begun' = begun
             /\ Cycling(w)' => Cycling(w) /\ worker'[w].at = worker[w].at
             /\ \A v \in Workers : v # w => worker'[v] = worker[v]
      PROVE Keyed'
  BY <1>0, <1>3 DEF Keyed, DistinctWindows, Cycling, Window, FinalWindow
<1>4. CASE Wake(w)
  BY <1>0, <1>3, <1>4, WakeMoves DEF Wake, Cycling
<1>5. CASE ReadLease(w)
  <2>1. PICK pc \in {"insert", "update"} : Goto(w, pc)
    BY <1>5 DEF ReadLease
  <2>2. QED
    BY <1>0, <1>3, <1>5, <2>1, Typed, GotoMoves DEF Pcs, ReadLease, Cycling
<1>6. CASE WriteLease(w)
  BY <1>0, <1>3, <1>6, Typed, GotoMoves DEF Pcs, WriteLease, Cycling
<1>7. CASE ReadPortfolio(w) \/ SubmitEntry(w)
  BY <1>0, <1>3, <1>7, TradingMoves
<1>8. QED
  BY <1>1, <1>2, <1>4, <1>5, <1>6, <1>7 DEF Step, Releasing

LEMMA NextKeyed == KInv /\ [Next]_vars => KInv'
<1>1. Tick \/ UNCHANGED vars => UNCHANGED <<worker, begun>>
  BY DEF Tick, vars
<1>2. KInv /\ (Tick \/ UNCHANGED vars) => Keyed'
  BY <1>1 DEF KInv, Keyed, DistinctWindows, Cycling, Window, FinalWindow
<1>3. QED
  BY <1>2, StepKeyed, NextType DEF KInv, Next, Done

\* No two workers ever execute one window, whether or not acquisitions interleave
\* and however long cycles run.
THEOREM WindowsDistinct == Spec => []DistinctWindows
<1>1. Init => KInv
  BY InitType, InitCurrent DEF Init, KInv, Keyed, DistinctWindows, Cycling, Dead
<1>2. KInv => DistinctWindows
  BY DEF KInv, Keyed
<1>3. QED
  BY <1>1, <1>2, NextKeyed, PTL DEF Spec

(***************************************************************************)
(* Refinement.                                                             *)
(***************************************************************************)
Running == {w \in Workers : Cycling(w)}

LEMMA StepSerial ==
  ASSUME Inv, NEW w \in Workers, Step(w)
  PROVE \/ Serial!Stop(w)
        \/ \E window \in 0..Horizon : Serial!Start(w, window)
        \/ UNCHANGED Serial!vars
<1>0. TypeOK
  BY DEF Inv
<1>1. CASE Releasing(w)
  <2>1. /\ ~Cycling(w)' /\ begun' = begun
        /\ \A v \in Workers : v # w => (Cycling(v)' <=> Cycling(v))
    BY <1>0, <1>1, ReleasingMoves DEF Cycling
  <2>2. CASE Cycling(w)
    <3>1. Running = {w} /\ Running' = {}
      BY <2>1, <2>2, HoldersExclude DEF Running, Holding
    <3>2. QED
      BY <2>1, <3>1 DEF Serial!Stop, Running
  <2>3. CASE ~Cycling(w)
    <3>1. Running' = Running
      BY <2>1, <2>3 DEF Running
    <3>2. QED
      BY <2>1, <3>1 DEF Serial!vars, Running
  <2>4. QED
    BY <2>2, <2>3
<1>2. CASE BeginRun(w)
  <2>1. /\ worker'[w].pc = "reading" /\ worker[w].pc = "begin"
        /\ \A v \in Workers : v # w => worker'[v] = worker[v]
    BY <1>0, <1>2, Typed, GotoMoves DEF Pcs, BeginRun
  <2>2. \A v \in Workers : ~Cycling(v)
    BY <2>1, HoldersExclude DEF Holding, Cycling
  <2>3. Running = {} /\ Running' = {w}
    BY <2>1, <2>2 DEF Running, Cycling
  <2>4. /\ Window(worker[w].at) \in 0..Horizon /\ Window(worker[w].at) \notin begun
        /\ begun' = begun \union {Window(worker[w].at)}
    <3>1. worker[w].at = time /\ time \in 0..Horizon /\ time \in Nat
      BY <2>1, Typed DEF Inv, Current, TypeOK
    <3>2. Window(worker[w].at) \in 0..Horizon
      BY <3>1, Intervals, ConstantsAssumption
    <3>3. QED
      BY <1>2, <3>2 DEF BeginRun, NewRun
  <2>5. QED
    BY <2>3, <2>4 DEF Serial!Start, Running
<1>3. CASE Wake(w) \/ ReadLease(w) \/ WriteLease(w) \/ ReadPortfolio(w) \/ SubmitEntry(w)
  <2>1. /\ Cycling(w)' <=> Cycling(w)
        /\ \A v \in Workers : v # w => worker'[v] = worker[v]
        /\ begun' = begun
    <3>1. CASE Wake(w)
      BY <1>0, <3>1, WakeMoves DEF Wake, Cycling
    <3>2. CASE ReadLease(w)
      <4>1. PICK pc \in {"insert", "update"} : Goto(w, pc)
        BY <3>2 DEF ReadLease
      <4>2. QED
        BY <1>0, <3>2, <4>1, Typed, GotoMoves DEF Pcs, ReadLease, Cycling
    <3>3. CASE WriteLease(w)
      BY <1>0, <3>3, Typed, GotoMoves DEF Pcs, WriteLease, Cycling, Acquiring
    <3>4. CASE ReadPortfolio(w) \/ SubmitEntry(w)
      BY <1>0, <3>4, TradingMoves DEF Cycling
    <3>5. QED
      BY <1>3, <3>1, <3>2, <3>3, <3>4
  <2>2. Running' = Running
    BY <2>1 DEF Running, Cycling
  <2>3. QED
    BY <2>1, <2>2 DEF Serial!vars, Running
<1>4. QED
  BY <1>1, <1>2, <1>3 DEF Step, Releasing

LEMMA NextSerial == Inv /\ [Next]_vars => [Serial!Next]_(Serial!vars)
<1> SUFFICES ASSUME Inv, [Next]_vars PROVE Serial!Next \/ UNCHANGED Serial!vars
  OBVIOUS
<1>1. CASE Tick \/ UNCHANGED vars
  BY <1>1 DEF Tick, vars, Serial!vars, Cycling
<1>2. CASE \E w \in Workers : Step(w)
  BY <1>2, StepSerial DEF Serial!Next
<1>3. QED
  BY <1>1, <1>2 DEF Next, Done

LEMMA InitSerial == Init => Serial!Init
BY DEF Init, Serial!Init, Cycling, Dead

\* The workers, the lease and the run keys implement one cycle at a time and each
\* window at most once: the two mechanisms of README and run_scheduler together.
THEOREM WorkersImplementSerialCycles ==
  ASSUME Overrun = 0, Racing = FALSE
  PROVE Spec => ImplementsSerialCycles
<1>1. Init /\ [][Next]_vars => []Inv
  BY InitInv, NextOwned, PTL
<1>2. QED
  BY <1>1, InitSerial, NextSerial, PTL DEF Spec, ImplementsSerialCycles, Serial!Spec

(***************************************************************************)
(* Nobody waits for long.                                                  *)
(***************************************************************************)
\* In the final hour, until its last minute, everybody turns every minute.
InFinal == FinalStart <= time /\ time < Eod

\* Who may begin a cycle now will: nobody has begun this window.
Fresh == \E w \in Workers : worker[w].pc = "begin" /\ Window(time) \notin begun

\* By this minute the lease is over and everybody has woken.
Soon(limit) ==
  /\ lease.expires <= limit
  /\ \A w \in Workers : worker[w].pc = "asleep" => worker[w].at <= limit

\* A cycle is attended to the minute, keys are of windows attended, and no lease
\* or timer lasts longer than one that is taken or set now.
Timely ==
  /\ attended <= time /\ begun \subseteq 0..attended
  /\ \A w \in Workers : Cycling(w) => attended = time
  /\ lease.expires <= time + 6
  /\ \A w \in Workers : worker[w].pc = "asleep" => worker[w].at <= time + 5
  /\ InFinal =>
       /\ lease.expires <= time + 2 \/ lease.expires <= FinalStart + 5
       /\ \A w \in Workers : worker[w].pc = "asleep" =>
            worker[w].at <= time + 1 \/ worker[w].at <= FinalStart + 4

\* The end of the window after the one last attended, and the last minute a lease
\* taken before the final hour, or a minute's lease taken then, may reach.
Limit(minute) == minute - (minute % 5) + 10
FinalLimit(minute) == IF minute + 2 >= FinalStart + 5 THEN minute + 2 ELSE FinalStart + 5

\* Before those minutes a cycle begins.
Reached ==
  /\ time <= Limit(attended) /\ (Fresh \/ Soon(Limit(attended)))
  /\ FinalStart <= time /\ time <= Eod => time <= FinalLimit(attended)
  /\ InFinal => Fresh \/ Soon(FinalLimit(attended))

WaitInv == TypeOK /\ Current /\ Timely /\ Reached

LEMMA Minutes ==
  /\ FinalStart \in Nat /\ Flatten \in Nat /\ Eod \in Nat /\ Horizon \in Nat
  /\ FinalStart <= Flatten /\ Flatten <= Eod
  /\ TypeOK => time \in Nat /\ attended \in Nat
BY ConstantsAssumption DEF TypeOK

LEMMA Limits ==
  ASSUME NEW minute \in Nat
  PROVE /\ Limit(minute) \in Nat /\ Limit(minute) % 5 = 0
        /\ minute + 6 <= Limit(minute) /\ Limit(minute) <= minute + 10
        /\ FinalLimit(minute) \in Nat
        /\ minute + 2 <= FinalLimit(minute) /\ FinalStart + 5 <= FinalLimit(minute)
        /\ FinalLimit(minute) \in {minute + 2, FinalStart + 5}
BY Minutes DEF Limit, FinalLimit

\* The next timer: soon, by the next multiple of five, and in the final hour in a
\* minute.
LEMMA Wakes ==
  ASSUME NEW now \in Nat, NEW flat \in BOOLEAN
  PROVE /\ NextWake(now, flat) \in (now + 1)..(now + 5)
        /\ NextWake(now, flat) <= now - (now % 5) + 5
        /\ FinalStart <= now /\ now < Eod => NextWake(now, flat) = now + 1
<1> DEFINE interval == IF now = Eod /\ flat THEN 5 ELSE Interval(now, flat)
<1>1. NextWake(now, flat) = now - (now % interval) + interval
  BY DEF NextWake
<1>2. CASE interval = 5
  <2>1. ~(FinalStart <= now /\ now < Eod)
    BY <1>2, Minutes DEF Interval, FinalWindow
  <2> HIDE DEF interval
  <2>2. QED
    BY <1>1, <1>2, <2>1
<1>3. CASE interval = 1
  <2> HIDE DEF interval
  <2>1. now % 1 = 0 /\ now % 5 \in 0..4 /\ now - (now % 5) + 5 >= now + 1
    OBVIOUS
  <2>2. QED
    BY <1>1, <1>3, <2>1
<1>4. interval \in {1, 5}
  BY Intervals
<1>5. QED
  BY <1>2, <1>3, <1>4

\* A minute that a cycle, a loss or an idle pool has just attended.
LEMMA Renewed == TypeOK /\ Timely /\ attended = time => Reached
<1> SUFFICES ASSUME TypeOK, Timely, attended = time PROVE Reached
  OBVIOUS
<1>1. /\ time \in Nat /\ attended \in Nat /\ lease.expires \in Nat
      /\ \A w \in Workers : worker[w].at \in Nat
  BY Typed, Minutes
<1>2. /\ Limit(attended) \in Nat /\ attended + 6 <= Limit(attended)
      /\ FinalLimit(attended) \in Nat /\ FinalStart \in Nat
      /\ attended + 2 <= FinalLimit(attended) /\ FinalStart + 5 <= FinalLimit(attended)
  BY <1>1, Limits, Minutes
<1>3. Soon(Limit(attended)) /\ time <= Limit(attended)
  BY <1>1, <1>2 DEF Timely, Soon
<1>4. ASSUME InFinal PROVE Soon(FinalLimit(attended))
  <2>1. lease.expires <= FinalLimit(attended)
    BY <1>1, <1>2, <1>4 DEF Timely
  <2>2. ASSUME NEW w \in Workers, worker[w].pc = "asleep"
        PROVE worker[w].at <= FinalLimit(attended)
    <3>1. worker[w].at <= time + 1 \/ worker[w].at <= FinalStart + 4
      BY <1>4, <2>2 DEF Timely
    <3>2. QED
      BY <1>1, <1>2, <3>1
  <2>3. QED
    BY <2>1, <2>2 DEF Soon
<1>5. FinalStart <= time /\ time <= Eod => time <= FinalLimit(attended)
  BY <1>1, <1>2
<1>6. QED
  BY <1>3, <1>4, <1>5 DEF Reached

LEMMA RenewedNext == (TypeOK /\ Timely /\ attended = time)' => Reached'
BY Renewed, PTL

\* A window that has begun has been attended.
LEMMA BegunBefore ==
  ASSUME TypeOK, Timely, Window(time) \in begun
  PROVE time + 6 <= Limit(attended) /\ (InFinal => time = attended)
<1>1. Window(time) \in 0..attended /\ time \in Nat /\ attended \in Nat /\ attended <= time
  BY Minutes DEF Timely
<1>2. CASE FinalWindow(time) \/ time >= Flatten
  <2>1. time = attended
    BY <1>1, <1>2 DEF Window
  <2>2. QED
    BY <1>1, <2>1, Limits
<1>3. CASE ~(FinalWindow(time) \/ time >= Flatten)
  <2>1. time - (time % 5) <= attended
    BY <1>1, <1>3 DEF Window
  <2>2. time + 6 <= Limit(attended)
    BY <1>1, <2>1 DEF Limit
  <2>3. ~InFinal
    BY <1>3, <1>1, Minutes DEF InFinal, FinalWindow
  <2>4. QED
    BY <2>2, <2>3
<1>4. QED
  BY <1>2, <1>3

\* What one step of a process does to the wait: it attends the minute, or it takes
\* a lease and goes on, or it sleeps for a reason.
Attends(w) ==
  /\ attended' = time /\ begun' \in {begun, begun \union {Window(time)}}
  /\ lease'.expires = lease.expires /\ worker'[w].pc # "asleep"

Excused == Window(time) \in begun \/ attended = time \/ time < lease.expires

Proceeds(w) ==
  /\ attended' = attended /\ begun' = begun
  /\ worker[w].pc = "begin" => Window(time) \in begun
  /\ Cycling(w)' => Cycling(w)
  /\ \/ lease'.expires = lease.expires
     \/ worker'[w].pc = "begin" /\ \E flat \in BOOLEAN : lease'.expires = time + LeaseMinutes(time, flat)
  /\ worker'[w].pc = "asleep" =>
       \/ worker'[w].at = time
       \/ Excused /\ \E flat \in BOOLEAN : worker'[w].at = NextWake(time, flat)

Paced(w) ==
  /\ time' = time
  /\ \A v \in Workers : v # w => worker'[v] = worker[v]
  /\ Attends(w) \/ Proceeds(w)

LEMMA StepPaced ==
  ASSUME TypeOK, Current, Timely, NEW w \in Workers, Step(w)
  PROVE Paced(w)
<1>0. \A v \in Workers : Cycling(v) <=> worker[v].pc \in {"reading", "trading"}
  BY DEF Cycling
<1>1. CASE Start(w)
  <2> DEFINE r == [pc |-> "asleep", at |-> time, flat |-> FALSE, seen |-> FALSE]
  <2>1. r \in Worker /\ r.pc = "asleep" /\ r.at = time
    BY Typed DEF Pcs, Worker
  <2>2. worker' = [worker EXCEPT ![w] = r]
    BY <1>1 DEF Start
  <2> HIDE DEF r
  <2>3. QED
    BY <1>1, <2>1, <2>2, MoveTo, Typed DEF Start, Cycling, Proceeds, Paced
<1>2. CASE Wake(w)
  BY <1>2, WakeMoves DEF Wake, Cycling, Proceeds, Paced
<1>3. CASE Denied(w)
  <2>1. Excused
    BY <1>3 DEF Denied, Held, Current, Excused
  <2>2. /\ worker'[w].pc = "asleep" /\ worker'[w].at = NextWake(time, worker[w].flat)
        /\ \A v \in Workers : v # w => worker'[v] = worker[v]
        /\ worker[w].flat \in BOOLEAN
    BY <1>3, Typed, SleepMoves DEF Denied
  <2>3. QED
    BY <1>3, <2>1, <2>2 DEF Denied, Cycling, Proceeds, Paced
<1>4. CASE ReadLease(w)
  <2>1. PICK pc \in {"insert", "update"} : Goto(w, pc)
    BY <1>4 DEF ReadLease
  <2>2. /\ worker'[w].pc \in {"insert", "update"}
        /\ \A v \in Workers : v # w => worker'[v] = worker[v]
    BY <2>1, Typed, GotoMoves DEF Pcs
  <2>3. QED
    BY <1>4, <2>2 DEF ReadLease, Cycling, Proceeds, Paced
<1>5. CASE WriteLease(w)
  <2>1. /\ worker'[w].pc = "begin" /\ worker[w].flat \in BOOLEAN
        /\ \A v \in Workers : v # w => worker'[v] = worker[v]
    BY <1>5, Typed, GotoMoves DEF Pcs, WriteLease
  <2>2. worker[w].pc \in {"insert", "update"} /\ worker[w].at = time
    BY <1>5 DEF WriteLease, Acquiring, Current
  <2>3. lease'.expires = time + LeaseMinutes(time, worker[w].flat)
    BY <1>5, <2>2 DEF WriteLease
  <2>4. QED
    BY <1>5, <2>1, <2>2, <2>3 DEF WriteLease, Cycling, Proceeds, Paced
<1>6. CASE InsertFails(w) \/ Leave(w)
  <2>1. /\ worker'[w].pc = "down"
        /\ \A v \in Workers : v # w => worker'[v] = worker[v]
    BY <1>6, Typed, DieMoves DEF InsertFails, Leave
  <2>2. lease'.expires = lease.expires
    BY <1>6 DEF InsertFails, Leave, TypeOK
  <2>3. QED
    BY <1>6, <2>1, <2>2 DEF InsertFails, Leave, Attends, Paced
<1>7. CASE BeginRun(w)
  <2>1. /\ worker'[w].pc = "reading"
        /\ \A v \in Workers : v # w => worker'[v] = worker[v]
    BY <1>7, Typed, GotoMoves DEF Pcs, BeginRun
  <2>2. worker[w].at = time
    BY <1>7 DEF BeginRun, Current
  <2>3. QED
    BY <1>7, <2>1, <2>2 DEF BeginRun, Attends, Paced
<1>8. CASE SuppressDuplicate(w) \/ EndCycle(w)
  <2>1. PICK flat \in BOOLEAN : Sleep(w, flat)
    BY <1>8 DEF SuppressDuplicate, EndCycle
  <2>2. /\ worker'[w].pc = "asleep" /\ worker'[w].at = NextWake(time, flat)
        /\ \A v \in Workers : v # w => worker'[v] = worker[v]
    BY <2>1, Typed, SleepMoves
  <2>3. worker[w].pc = "begin" => Window(time) \in begun
    BY <1>0, <1>8 DEF SuppressDuplicate, EndCycle, Current, NewRun
  <2>4. Excused
    <3>1. CASE SuppressDuplicate(w)
      BY <2>3, <3>1 DEF SuppressDuplicate, Excused
    <3>2. CASE EndCycle(w)
      BY <3>2 DEF EndCycle, Timely, Excused
    <3>3. QED
      BY <1>8, <3>1, <3>2
  <2>5. UNCHANGED <<time, lease, begun, attended>>
    BY <1>8 DEF SuppressDuplicate, EndCycle
  <2>6. QED
    BY <2>2, <2>3, <2>4, <2>5 DEF Cycling, Proceeds, Paced
<1>9. CASE ReadPortfolio(w) \/ SubmitEntry(w)
  BY <1>0, <1>9, TradingMoves DEF Proceeds, Paced
<1>10. QED
  BY <1>1, <1>2, <1>3, <1>4, <1>5, <1>6, <1>7, <1>8, <1>9 DEF Step

LEMMA PacedTimely ==
  ASSUME TypeOK, TypeOK', Timely, NEW w \in Workers, Paced(w)
  PROVE Timely'
<1>1. /\ time \in Nat /\ attended \in Nat /\ attended' \in Nat /\ attended <= time
      /\ attended' \in {attended, time} /\ attended' <= time
      /\ FinalStart \in Nat /\ Eod \in Nat
  BY Minutes DEF Timely, Paced, Attends, Proceeds
<1>2. /\ time' = time /\ (InFinal' <=> InFinal)
      /\ \A v \in Workers : v # w => worker'[v] = worker[v]
  BY DEF Paced, InFinal
<1>3. begun' \subseteq 0..attended'
  <2>1. CASE Attends(w)
    <3>1. Window(time) \in 0..time
      BY <1>1, Intervals
    <3>2. begun \subseteq 0..time
      BY <1>1 DEF Timely
    <3>3. QED
      BY <2>1, <3>1, <3>2 DEF Attends
  <2>2. CASE Proceeds(w)
    BY <2>2 DEF Timely, Proceeds
  <2>3. QED
    BY <2>1, <2>2 DEF Paced
<1>4. \A v \in Workers : Cycling(v)' => attended' = time
  BY <1>1, <1>2 DEF Timely, Paced, Attends, Proceeds, Cycling
<1>5. /\ lease'.expires <= time + 6
      /\ InFinal => lease'.expires <= time + 2 \/ lease'.expires <= FinalStart + 5
  <2>1. CASE lease'.expires = lease.expires
    BY <1>1, <2>1 DEF Timely
  <2>2. ASSUME NEW flat \in BOOLEAN, lease'.expires = time + LeaseMinutes(time, flat)
        PROVE lease'.expires <= time + 6 /\ (InFinal => lease'.expires <= time + 2)
    <3>1. LeaseMinutes(time, flat) \in {2, 6} /\ (InFinal => LeaseMinutes(time, flat) = 2)
      BY <1>1 DEF LeaseMinutes, Interval, InFinal, FinalWindow
    <3>2. QED
      BY <1>1, <2>2, <3>1
  <2>3. QED
    BY <2>1, <2>2 DEF Paced, Attends, Proceeds
<1>6. ASSUME NEW v \in Workers, worker'[v].pc = "asleep"
      PROVE /\ worker'[v].at <= time + 5
            /\ InFinal => worker'[v].at <= time + 1 \/ worker'[v].at <= FinalStart + 4
  <2>1. CASE v # w
    BY <1>2, <1>6, <2>1 DEF Timely
  <2>2. CASE v = w /\ worker'[w].at = time
    BY <1>1, <2>2
  <2>3. ASSUME v = w, NEW flat \in BOOLEAN, worker'[w].at = NextWake(time, flat)
        PROVE worker'[w].at <= time + 5 /\ (InFinal => worker'[w].at <= time + 1)
    <3>1. /\ NextWake(time, flat) \in (time + 1)..(time + 5)
          /\ InFinal => NextWake(time, flat) = time + 1
      BY <1>1, Wakes DEF InFinal
    <3>2. QED
      BY <1>1, <2>3, <3>1
  <2>4. QED
    BY <1>6, <2>1, <2>2, <2>3 DEF Paced, Attends, Proceeds
<1>7. QED
  BY <1>1, <1>2, <1>3, <1>4, <1>5, <1>6 DEF Timely

\* While nobody will begin the window, what a step adds to the wait is short.
LEMMA PacedSoon ==
  ASSUME TypeOK, Timely, Reached, NEW w \in Workers, Proceeds(w), time' = time,
         \A v \in Workers : v # w => worker'[v] = worker[v],
         NEW limit \in Nat, Soon(limit), time <= limit,
         \/ limit = Limit(attended)
         \/ InFinal /\ limit = FinalLimit(attended)
  PROVE Fresh' \/ Soon(limit)'
<1>1. /\ time \in Nat /\ attended \in Nat /\ FinalStart \in Nat /\ Eod \in Nat
      /\ lease.expires \in Nat /\ lease.expires <= limit
  BY Minutes, Typed DEF Soon
<1>2. attended + 6 <= Limit(attended) /\ attended + 2 <= FinalLimit(attended)
  BY <1>1, Limits
<1>3. CASE Window(time) \in begun
  <2>1. time + 6 <= limit \/ (InFinal /\ time + 2 <= limit)
    <3>1. time + 6 <= Limit(attended) /\ (InFinal => time = attended)
      BY <1>3, BegunBefore
    <3>2. QED
      BY <1>1, <1>2, <3>1
  <2>2. lease'.expires <= limit
    <3>1. ASSUME NEW flat \in BOOLEAN, lease'.expires = time + LeaseMinutes(time, flat)
          PROVE lease'.expires <= limit
      <4>1. LeaseMinutes(time, flat) \in {2, 6} /\ (InFinal => LeaseMinutes(time, flat) = 2)
        BY <1>1 DEF LeaseMinutes, Interval, InFinal, FinalWindow
      <4>2. QED
        BY <1>1, <2>1, <3>1, <4>1
    <3>2. QED
      BY <1>1, <3>1 DEF Proceeds
  <2>3. ASSUME NEW v \in Workers, worker'[v].pc = "asleep"
        PROVE worker'[v].at <= limit
    <3>1. CASE v # w
      BY <2>3, <3>1 DEF Soon
    <3>2. ASSUME v = w, NEW flat \in BOOLEAN, worker'[w].at = NextWake(time, flat)
          PROVE worker'[w].at <= limit
      <4>1. /\ NextWake(time, flat) \in (time + 1)..(time + 5)
            /\ InFinal => NextWake(time, flat) = time + 1
        BY <1>1, Wakes DEF InFinal
      <4>2. QED
        BY <1>1, <2>1, <3>2, <4>1
    <3>3. QED
      BY <2>3, <3>1, <3>2 DEF Proceeds
  <2>4. QED
    BY <2>2, <2>3 DEF Soon
<1>4. CASE Window(time) \notin begun
  <2>1. worker'[w].pc = "begin" => Fresh'
    <3>1. begun' = begun /\ Window(time)' = Window(time)
      BY DEF Proceeds, Window, FinalWindow
    <3>2. QED
      BY <1>4, <3>1 DEF Fresh
  <2>2. CASE worker'[w].pc # "begin"
    <3>1. lease'.expires = lease.expires
      BY <2>2 DEF Proceeds
    <3>2. ASSUME NEW v \in Workers, worker'[v].pc = "asleep"
          PROVE worker'[v].at <= limit
      <4>1. CASE v # w
        BY <3>2, <4>1 DEF Soon
      <4>2. ASSUME v = w, Excused, NEW flat \in BOOLEAN, worker'[w].at = NextWake(time, flat)
            PROVE worker'[w].at <= limit
        <5>1. /\ NextWake(time, flat) \in (time + 1)..(time + 5)
              /\ NextWake(time, flat) <= time - (time % 5) + 5
              /\ InFinal => NextWake(time, flat) = time + 1
          BY <1>1, Wakes DEF InFinal
        <5>2. CASE attended = time
          <6>1. time + 5 <= limit \/ (InFinal /\ time + 1 <= limit)
            BY <1>1, <1>2, <5>2
          <6>2. QED
            BY <1>1, <4>2, <5>1, <6>1
        <5>3. CASE time < limit /\ limit = Limit(attended)
          <6>1. limit % 5 = 0
            BY <1>1, <5>3, Limits
          <6>2. time - (time % 5) + 5 <= limit
            BY <1>1, <5>3, <6>1
          <6>3. QED
            BY <1>1, <4>2, <5>1, <6>2
        <5>4. CASE time < limit /\ InFinal
          BY <1>1, <4>2, <5>1, <5>4
        <5>5. time < lease.expires => time < limit
          BY <1>1
        <5>6. QED
          BY <1>4, <4>2, <5>2, <5>3, <5>4, <5>5 DEF Excused
      <4>3. CASE v = w /\ worker'[w].at = time
        BY <4>3
      <4>4. QED
        BY <3>2, <4>1, <4>2, <4>3 DEF Proceeds
    <3>3. QED
      BY <1>1, <3>1, <3>2 DEF Soon
  <2>3. QED
    BY <2>1, <2>2
<1>5. QED
  BY <1>3, <1>4

LEMMA PacedReached ==
  ASSUME TypeOK, TypeOK', Timely, Timely', Reached, NEW w \in Workers, Paced(w)
  PROVE Reached'
<1>1. CASE Attends(w)
  <2>1. attended' = time'
    BY <1>1 DEF Attends, Paced
  <2>2. QED
    BY <2>1, RenewedNext
<1>2. CASE Proceeds(w)
  <2>1. /\ attended' = attended /\ begun' = begun /\ time' = time
        /\ \A v \in Workers : v # w => worker'[v] = worker[v]
        /\ time \in Nat /\ attended \in Nat
    BY <1>2, Minutes DEF Proceeds, Paced
  <2>2. /\ Limit(attended)' = Limit(attended) /\ FinalLimit(attended)' = FinalLimit(attended)
        /\ InFinal' <=> InFinal
        /\ Limit(attended) \in Nat /\ FinalLimit(attended) \in Nat
    BY <2>1, Limits DEF Limit, FinalLimit, InFinal
  <2>3. Fresh => Fresh'
    <3>1. Window(time)' = Window(time)
      BY <2>1 DEF Window, FinalWindow
    <3>2. QED
      BY <1>2, <2>1, <3>1 DEF Fresh, Proceeds
  <2>4. Soon(Limit(attended)) => Fresh' \/ Soon(Limit(attended))'
    <3> DEFINE limit == Limit(attended)
    <3>1. limit \in Nat /\ time <= limit /\ limit' = limit
      BY <2>2 DEF Reached
    <3>2. limit = Limit(attended)
      OBVIOUS
    <3> HIDE DEF limit
    <3>3. Soon(limit) => Fresh' \/ Soon(limit)'
      BY <1>2, <2>1, <3>1, <3>2, PacedSoon
    <3>4. QED
      BY <2>2, <3>1, <3>2, <3>3 DEF Soon
  <2>5. InFinal /\ Soon(FinalLimit(attended)) => Fresh' \/ Soon(FinalLimit(attended))'
    <3> DEFINE limit == FinalLimit(attended)
    <3>1. limit \in Nat /\ (InFinal => time <= limit) /\ limit' = limit
      BY <2>2, Minutes DEF Reached, InFinal
    <3>2. limit = FinalLimit(attended)
      OBVIOUS
    <3> HIDE DEF limit
    <3>3. InFinal /\ Soon(limit) => Fresh' \/ Soon(limit)'
      BY <1>2, <2>1, <3>1, <3>2, PacedSoon
    <3>4. QED
      BY <2>2, <3>1, <3>2, <3>3 DEF Soon
  <2>6. QED
    BY <2>1, <2>2, <2>3, <2>4, <2>5 DEF Reached
<1>3. QED
  BY <1>1, <1>2 DEF Paced

LEMMA TickReached ==
  ASSUME TypeOK, Timely, Reached, Tick, TypeOK'
  PROVE Timely' /\ Reached'
<1>1. /\ time \in Nat /\ attended \in Nat /\ attended' \in Nat /\ time' = time + 1
      /\ FinalStart \in Nat /\ Eod \in Nat /\ lease.expires \in Nat
      /\ UNCHANGED <<worker, lease, begun>>
      /\ \A w \in Workers : worker[w].pc # "begin" /\ worker[w].at \in Nat
  BY TickMoves, Minutes, Typed
<1>2. \A w \in Workers : worker[w].pc = "asleep" => worker[w].at > time
  BY DEF Tick, MayWait, Cycling
<1>3. ~Fresh
  BY <1>1 DEF Fresh
<1>4. CASE Unattended
  <2>1. attended' = attended /\ \A w \in Workers : ~Cycling(w)
    BY <1>4 DEF Tick, Unattended
  <2>2. PICK w \in Workers : worker[w].pc = "asleep"
    BY <1>4 DEF Unattended
  <2>3. Limit(attended) \in Nat /\ FinalLimit(attended) \in Nat
    BY <1>1, Limits
  <2>4. Timely'
    <3>1. /\ attended' <= time' /\ begun' \subseteq 0..attended' /\ lease'.expires <= time' + 6
          /\ \A v \in Workers : Cycling(v)' => attended' = time'
          /\ \A v \in Workers : worker'[v].pc = "asleep" => worker'[v].at <= time' + 5
      BY <1>1, <2>1 DEF Timely, Cycling
    <3>2. ASSUME InFinal'
          PROVE /\ lease.expires <= time + 3 \/ lease.expires <= FinalStart + 5
                /\ \A v \in Workers : worker[v].pc = "asleep" =>
                     worker[v].at <= time + 2 \/ worker[v].at <= FinalStart + 4
      BY <1>1, <3>2 DEF Timely, InFinal
    <3>3. QED
      BY <1>1, <3>1, <3>2 DEF Timely
  <2>5. Soon(Limit(attended))' /\ time' <= Limit(attended)'
    BY <1>1, <1>2, <1>3, <2>1, <2>2, <2>3 DEF Reached, Soon, Limit
  <2>6. /\ FinalStart <= time' /\ time' <= Eod => time' <= FinalLimit(attended)'
        /\ InFinal' => Soon(FinalLimit(attended))'
    <3>1. CASE InFinal
      BY <1>1, <1>2, <1>3, <2>1, <2>2, <2>3, <3>1 DEF Reached, Soon, InFinal, FinalLimit
    <3>2. CASE time + 1 = FinalStart
      <4>1. FinalStart + 5 <= FinalLimit(attended)
        BY <1>1, Limits
      <4>2. lease.expires <= FinalStart + 5
        BY <1>1, <3>2 DEF Timely
      <4>3. \A v \in Workers : worker[v].pc = "asleep" => worker[v].at <= FinalStart + 4
        BY <1>1, <3>2 DEF Timely
      <4>4. Soon(FinalLimit(attended))
        BY <1>1, <2>3, <4>1, <4>2, <4>3 DEF Soon
      <4>5. QED
        BY <1>1, <2>1, <2>3, <3>2, <4>1, <4>4 DEF Soon, FinalLimit
    <3>3. CASE ~InFinal /\ time + 1 # FinalStart
      BY <1>1, <3>3 DEF InFinal
    <3>4. QED
      BY <3>1, <3>2, <3>3
  <2>7. QED
    BY <2>4, <2>5, <2>6 DEF Reached
<1>5. CASE ~Unattended
  <2>1. attended' = time'
    BY <1>1, <1>5 DEF Tick
  <2>2. Timely'
    <3>1. /\ attended' <= time' /\ begun' \subseteq 0..attended' /\ lease'.expires <= time' + 6
          /\ \A v \in Workers : worker'[v].pc = "asleep" => worker'[v].at <= time' + 5
      BY <1>1, <2>1 DEF Timely
    <3>2. ASSUME InFinal'
          PROVE /\ lease.expires <= time + 3 \/ lease.expires <= FinalStart + 5
                /\ \A v \in Workers : worker[v].pc = "asleep" =>
                     worker[v].at <= time + 2 \/ worker[v].at <= FinalStart + 4
      BY <1>1, <3>2 DEF Timely, InFinal
    <3>3. QED
      BY <1>1, <2>1, <3>1, <3>2 DEF Timely
  <2>3. QED
    BY <2>1, <2>2, RenewedNext
<1>6. QED
  BY <1>4, <1>5

LEMMA NextReached == WaitInv /\ [Next]_vars => WaitInv'
<1> SUFFICES ASSUME WaitInv, [Next]_vars PROVE WaitInv'
  OBVIOUS
<1>1. TypeOK' /\ Current'
  BY NextType DEF WaitInv
<1>2. CASE UNCHANGED vars
  <2>1. /\ Fresh' <=> Fresh
        /\ Soon(Limit(attended))' <=> Soon(Limit(attended))
        /\ Soon(FinalLimit(attended))' <=> Soon(FinalLimit(attended))
    BY <1>2 DEF vars, Fresh, Soon, Limit, FinalLimit, Window, FinalWindow
  <2>2. Timely' /\ Reached'
    BY <1>2, <2>1 DEF WaitInv, Timely, Reached, InFinal, Limit, FinalLimit, Cycling, vars
  <2>3. QED
    BY <1>1, <2>2 DEF WaitInv
<1>3. CASE Tick
  BY <1>1, <1>3, TickReached DEF WaitInv
<1>4. ASSUME NEW w \in Workers, Step(w) PROVE WaitInv'
  <2>1. Paced(w)
    BY <1>4, StepPaced DEF WaitInv
  <2>2. Timely'
    BY <1>1, <2>1, PacedTimely DEF WaitInv
  <2>3. Reached'
    BY <1>1, <2>1, <2>2, PacedReached DEF WaitInv
  <2>4. QED
    BY <1>1, <2>2, <2>3 DEF WaitInv
<1>5. QED
  BY <1>2, <1>3, <1>4 DEF Next, Done

LEMMA InitReached == Init => WaitInv
<1> SUFFICES ASSUME Init PROVE WaitInv
  OBVIOUS
<1>1. TypeOK /\ Current /\ attended = time
  BY InitType, InitCurrent DEF Init
<1>2. Timely
  BY DEF Init, Timely, Dead, Cycling
<1>3. QED
  BY <1>1, <1>2, Renewed DEF WaitInv

\* While a process is up and none is lost, ten minutes never pass without a cycle,
\* and in the final hour, once the last long lease is over, two never do: for any
\* number of workers, racing acquisitions, cycles of any length, crashes and
\* restarts, a dead owner's lease runs out and somebody wakes to take it.
THEOREM AlwaysAttended == Spec => []NeverUnattended
<1>1. WaitInv => NeverUnattended
  <2> SUFFICES ASSUME WaitInv PROVE NeverUnattended
    OBVIOUS
  <2>1. /\ time \in Nat /\ attended \in Nat /\ FinalStart \in Nat /\ attended <= time
        /\ time <= Limit(attended)
        /\ FinalStart <= time /\ time <= Eod => time <= FinalLimit(attended)
    BY Minutes DEF WaitInv, Timely, Reached
  <2>2. Limit(attended) \in Nat /\ Limit(attended) <= attended + 10
    BY <2>1, Limits
  <2>3. time - attended <= 10
    BY <2>1, <2>2
  <2>4. time >= FinalStart + 7 /\ time <= Eod => time - attended <= 2
    BY <2>1, Minutes DEF FinalLimit
  <2>5. QED
    BY <2>3, <2>4 DEF NeverUnattended
<1>2. QED
  BY <1>1, InitReached, NextReached, PTL DEF Spec
=============================================================================
