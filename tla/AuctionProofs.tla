----------------------------- MODULE AuctionProofs -----------------------------
(***************************************************************************)
(* Proofs about Auction for every calendar of cycles, every course of the  *)
(* trend and every number of faults and entries.                           *)
(***************************************************************************)
EXTENDS Auction, Totals

Actions == {Calls, Puts}
Selections == {Cash, Calls, Puts}
RunFields == {"pc", "at", "trend", "frozen", "full", "flat", "pending", "open", "submitted"}

\* The cycle in progress.
InCycle ==
  /\ now \in Instants \cup {0}
  /\ run.pc \in {"idle", "lifecycle", "select", "end"}
  /\ run.pc # "idle" =>
       run.at = now /\ now \in Nat \ {0} /\ run.trend \in Trends /\ run.flat \in BOOLEAN
  /\ run.pc \in {"lifecycle", "select"} => DOMAIN run = RunFields
  /\ run.pc = "end" => run.selected \in Selections /\ run.entered \in BOOLEAN

Observation ==
  [at : Nat \ {0}, trend : Trends, completed : BOOLEAN, flat : BOOLEAN,
   selected : Selections, entered : BOOLEAN]

\* What the runs that ended have stored.
Past ==
  /\ history \in Seq(Observation)
  /\ \A i \in DOMAIN history : history[i].at <= now

\* The structures and the stops.
Ledger ==
  /\ structures \subseteq
       [action : Actions, opened : Nat, status : {"pending", "held", "closing", "stopping"}]
  /\ stops \subseteq [action : Actions, at : Nat]
  /\ \E latest \in Nat : \A s \in stops : s.at <= latest

\* The passport says since when the completed runs at the end of the history
\* were flat and did not enter.
Quiet(i) == \A j \in i .. Len(history) :
  history[j].completed /\ history[j].flat /\ ~history[j].entered
FlatStreak ==
  /\ passport.since \in {0} \cup {history[i].at : i \in DOMAIN history}
  /\ \A i \in DOMAIN history :
       Quiet(i) => passport.since # 0 /\ passport.since <= history[i].at

\* The passport remembers the last selection unless a run failed since.
Latest(i) ==
  /\ history[i].selected # Cash
  /\ \A j \in (i + 1) .. Len(history) : history[j].selected = Cash
LastSetup ==
  /\ passport.setup \in Selections
  /\ \A i \in DOMAIN history : Latest(i) /\ Unbroken(i) => passport.setup = history[i].selected

\* The inductive invariant.
AuctionInv == InCycle /\ Past /\ Ledger /\ FlatStreak /\ LastSetup

LEMMA PastRuns ==
  ASSUME Past
  PROVE  /\ Len(history) \in Nat /\ DOMAIN history = 1 .. Len(history)
         /\ \A i \in DOMAIN history : history[i] \in Observation
         /\ \A i \in DOMAIN history :
              /\ history[i].at \in Nat \ {0} /\ history[i].trend \in Trends
              /\ history[i].completed \in BOOLEAN /\ history[i].selected \in Selections
<1>1. /\ Len(history) \in Nat /\ DOMAIN history = 1 .. Len(history)
      /\ \A i \in DOMAIN history : history[i] \in Observation
  BY DEF Past
<1> QED BY <1>1 DEF Observation

\* The last completed run and the first of a streak are runs.
LEMMA PriorIsCompleted ==
  ASSUME Past, HasPrior
  PROVE  Max(Completed) \in Completed /\ Prior.at \in Nat \ {0} /\ Prior.trend \in Trends
<1>1. Completed \in SUBSET (0 .. Len(history)) BY PastRuns DEF Completed
<1>2. Max(Completed) \in Completed BY <1>1, PastRuns, MaxIsElement DEF HasPrior
<1> QED BY <1>2, PastRuns DEF Prior, Completed

LEMMA StreakHasStart ==
  ASSUME Past, Streak # {}
  PROVE  Min(Streak) \in DOMAIN history
<1>1. Streak \in SUBSET Nat BY PastRuns DEF Streak, Completed
<1>2. Min(Streak) \in Streak BY <1>1, MinIsElement
<1> QED BY <1>2 DEF Streak, Completed

\* A latest stop is one of the day's and no earlier than any other.
LEMMA LatestStopIsLatest ==
  ASSUME Ledger, NEW action, StopsToday(action) # {}
  PROVE  /\ LatestStop(action) \in StopsToday(action)
         /\ \A s \in StopsToday(action) : s.at <= LatestStop(action).at
<1> DEFINE S == StopsToday(action)
           Times == {s.at : s \in S}
<1>1. PICK latest \in Nat : \A s \in stops : s.at <= latest BY DEF Ledger
<1>2. Times \in SUBSET (0 .. latest) /\ Times # {}
  BY <1>1 DEF Ledger, StopsToday
<1> HIDE DEF Times
<1>3. Max(Times) \in Times /\ \A t \in Times : t <= Max(Times) BY <1>2, MaxIsElement
<1>4. \E s \in S : \A other \in S : other.at <= s.at BY <1>3 DEF Times
<1> QED BY <1>4 DEF LatestStop

\* A reset is a completed run after the stop that does not confirm it.
LEMMA ResetIsAfterStop ==
  ASSUME Past, NEW stop, stop.at \in Nat, Resets(stop) # {}
  PROVE  \E i \in Completed :
           /\ history[i].at = ResetAt(stop) /\ history[i].at > stop.at
           /\ ~Strong(history[i].trend) \/ ActionOf(history[i].trend) # stop.action
<1>1. Resets(stop) \in SUBSET Nat BY PastRuns DEF Resets, Completed
<1>2. ResetAt(stop) \in Resets(stop) BY <1>1, MinIsElement DEF ResetAt
<1> QED BY <1>2 DEF Resets

LEMMA InitAuction == Init => AuctionInv
<1> SUFFICES ASSUME Init PROVE AuctionInv OBVIOUS
<1>1. now = 0 /\ run.pc = "idle" /\ history = <<>> /\ structures = {} /\ stops = {}
  BY DEF Init, Idle
<1>2. passport.since = 0 /\ passport.setup \in Selections BY DEF Init, NoStrategy, Selections
<1>3. InCycle BY <1>1 DEF InCycle
<1>4. Past BY <1>1 DEF Past
<1>5. Ledger BY <1>1 DEF Ledger
<1>6. DOMAIN history = {} BY <1>1
<1>7. FlatStreak /\ LastSetup BY <1>2, <1>6 DEF FlatStreak, LastSetup
<1> QED BY <1>3, <1>4, <1>5, <1>7 DEF AuctionInv

\* A step that ends no run keeps what the runs and the passport say.
LEMMA RunsKept ==
  ASSUME AuctionInv, UNCHANGED <<history, passport>>, now' >= now, now' \in Nat
  PROVE  Past' /\ FlatStreak' /\ LastSetup'
<1>1. now \in Nat BY AuctionAssumption DEF AuctionInv, InCycle
<1>2. Past' BY <1>1, PastRuns DEF AuctionInv, Past
<1>3. FlatStreak' BY DEF AuctionInv, FlatStreak, Quiet
<1>4. LastSetup' BY DEF AuctionInv, LastSetup, Latest, Unbroken
<1> QED BY <1>2, <1>3, <1>4

LEMMA BrokerKeepsAuction == ASSUME AuctionInv, BrokerMoves PROVE AuctionInv'
<1>1. UNCHANGED <<now, run, history, passport, stops>> BY DEF BrokerMoves
<1>2. now \in Nat BY AuctionAssumption DEF AuctionInv, InCycle
<1>3. Ledger'
  <2>1. PICK s \in structures :
          \/ structures' = structures \ {s}
          \/ structures' = (structures \ {s}) \cup {[s EXCEPT !.status = "held"]}
    BY DEF BrokerMoves
  <2> QED BY <1>1, <2>1 DEF AuctionInv, Ledger
<1>4. InCycle' BY <1>1 DEF AuctionInv, InCycle
<1> QED BY <1>1, <1>2, <1>3, <1>4, RunsKept DEF AuctionInv

LEMMA BeginKeepsAuction ==
  ASSUME AuctionInv, NEW at \in Instants, NEW trend \in Trends, NEW frozen \in BOOLEAN,
         Begin(at, trend, frozen)
  PROVE  AuctionInv'
<1>1. /\ now' = at /\ at > now /\ at \in Nat /\ now \in Nat
      /\ UNCHANGED <<history, passport, structures, stops>>
  BY AuctionAssumption DEF Begin, AuctionInv, InCycle
<1>2. /\ run'.pc = "lifecycle" /\ run'.at = at /\ run'.trend = trend /\ run'.flat \in BOOLEAN
      /\ DOMAIN run' = RunFields
  BY DEF Begin, RunFields
<1>3. InCycle' BY <1>1, <1>2 DEF InCycle
<1>4. Ledger' BY <1>1 DEF AuctionInv, Ledger
<1> QED BY <1>1, <1>3, <1>4, RunsKept DEF AuctionInv

LEMMA LifecycleKeepsAuction == ASSUME AuctionInv, Lifecycle PROVE AuctionInv'
<1>1. run.pc = "lifecycle" /\ UNCHANGED <<now, history, passport>> BY DEF Lifecycle
<1>2. run.at = now /\ now \in Nat /\ DOMAIN run = RunFields
  BY <1>1 DEF AuctionInv, InCycle
<1>3. PICK canceled \in SUBSET {s \in structures : s.status = "pending"},
           closed \in SUBSET {s \in structures : s.status = "held"},
           stopped \in SUBSET {s \in structures : s.status \in {"held", "stopping"}},
           delay \in Delays :
        /\ closed \cap stopped = {}
        /\ stopped = {} => delay = 0
        /\ structures' = (structures \ (canceled \cup closed \cup stopped))
             \cup {[s EXCEPT !.status = "closing"] : s \in closed}
             \cup {[s EXCEPT !.status = "stopping"] : s \in stopped}
        /\ stops' = stops \cup {[action |-> s.action, at |-> run.at + delay] : s \in stopped}
        /\ run' = [run EXCEPT !.pc = "select", !.submitted = closed \cup stopped # {}]
  BY ZenonT(60) DEF Lifecycle
<1>4. InCycle'
  <2> DEFINE submitted == closed \cup stopped # {}
  <2>1. run' = [run EXCEPT !.pc = "select", !.submitted = submitted] BY <1>3
  <2> HIDE DEF submitted
  <2>2. /\ run'.pc = "select" /\ run'.at = run.at /\ run'.trend = run.trend
        /\ run'.flat = run.flat /\ DOMAIN run' = RunFields
    BY <1>2, <2>1 DEF RunFields
  <2> QED BY <1>1, <2>2 DEF AuctionInv, InCycle
<1>5. Ledger'
  <2>1. structures' \subseteq
          [action : Actions, opened : Nat, status : {"pending", "held", "closing", "stopping"}]
    BY <1>3 DEF AuctionInv, Ledger
  <2>2. run.at + delay \in Nat BY <1>2, AuctionAssumption
  <2>3. stops' \subseteq [action : Actions, at : Nat]
    <3>1. \A s \in stopped : s.action \in Actions BY DEF AuctionInv, Ledger
    <3> QED BY <1>3, <2>2, <3>1 DEF AuctionInv, Ledger
  <2>4. \E latest \in Nat : \A s \in stops' : s.at <= latest
    <3>1. PICK latest \in Nat : \A s \in stops : s.at <= latest BY DEF AuctionInv, Ledger
    <3>2. \A s \in stops' : s \in stops \/ s.at = run.at + delay BY <1>3
    <3>3. \A s \in stops' : s.at <= latest + (run.at + delay)
      <4>1. \A s \in stops : s.at \in Nat BY DEF AuctionInv, Ledger
      <4> QED BY <2>2, <3>1, <3>2, <4>1
    <3>4. latest + (run.at + delay) \in Nat BY <2>2
    <3> QED BY <3>3, <3>4
  <2> QED BY <2>1, <2>3, <2>4 DEF Ledger
<1> QED BY <1>1, <1>2, <1>4, <1>5, RunsKept DEF AuctionInv

LEMMA SelectKeepsAuction ==
  ASSUME AuctionInv, NEW action \in Selections, NEW gain \in BOOLEAN,
         Refuse(action, gain) \/ (action \in Actions /\ Enter(action, gain))
  PROVE  AuctionInv'
<1>1. run.pc = "select" /\ UNCHANGED <<now, history, passport, stops>> BY DEF Enter, Refuse
<1>2. \E entered \in BOOLEAN : Selected(action, gain, entered) BY DEF Enter, Refuse
<1>3. /\ run.at = now /\ now \in Nat \ {0} /\ run.trend \in Trends /\ run.flat \in BOOLEAN
  BY <1>1 DEF AuctionInv, InCycle
<1>4. /\ run'.pc = "end" /\ run'.at = run.at /\ run'.trend = run.trend /\ run'.flat = run.flat
      /\ run'.selected = action /\ run'.entered \in BOOLEAN
  BY <1>2 DEF Selected
<1>5. InCycle' BY <1>1, <1>3, <1>4 DEF AuctionInv, InCycle
<1>6. Ledger'
  <2>1. \/ structures' = structures
        \/ /\ action \in Actions
           /\ structures' =
                structures \cup {[action |-> action, opened |-> run.at, status |-> "pending"]}
    BY DEF Enter, Refuse
  <2> QED BY <1>1, <1>3, <2>1 DEF AuctionInv, Ledger
<1> QED BY <1>1, <1>3, <1>5, <1>6, RunsKept DEF AuctionInv

\* Where the streak of a run that ends flat and without an entry starts.
LEMMA FlatStartIsPast ==
  ASSUME AuctionInv, run.pc = "end"
  PROVE  /\ FlatStart \in {run.at} \cup {history[i].at : i \in DOMAIN history}
         /\ FlatStart \in Nat \ {0} /\ FlatStart <= run.at
         /\ passport.since # 0 => FlatStart = passport.since
<1>1. run.at = now /\ now \in Nat \ {0} BY DEF AuctionInv, InCycle
<1>2. \A i \in DOMAIN history : history[i].at \in Nat \ {0} /\ history[i].at <= now
  BY PastRuns DEF AuctionInv, Past
<1>3. CASE passport.since # 0
  <2>1. FlatStart = passport.since BY <1>3 DEF FlatStart
  <2>2. PICK i \in DOMAIN history : passport.since = history[i].at
    BY <1>3 DEF AuctionInv, FlatStreak
  <2> QED BY <1>1, <1>2, <2>1, <2>2
<1>4. CASE passport.since = 0 /\ Streak # {}
  <2>1. FlatStart = history[Min(Streak)].at BY <1>4 DEF FlatStart, FlatSince
  <2>2. Min(Streak) \in DOMAIN history BY <1>4, StreakHasStart DEF AuctionInv
  <2> QED BY <1>1, <1>2, <1>4, <2>1, <2>2
<1>5. CASE passport.since = 0 /\ Streak = {} BY <1>1, <1>5 DEF FlatStart
<1> QED BY <1>3, <1>4, <1>5

\* A run that ends is the last of the history.
LEMMA OneMoreRun ==
  ASSUME AuctionInv, NEW r \in Observation, r.at <= now, history' = Append(history, r), now' = now
  PROVE  /\ Past'
         /\ Len(history') = Len(history) + 1 /\ DOMAIN history' = 1 .. (Len(history) + 1)
         /\ history'[Len(history) + 1] = r
         /\ \A i \in DOMAIN history : i \in DOMAIN history' /\ history'[i] = history[i]
         /\ \A i \in DOMAIN history' : i \in DOMAIN history \/ i = Len(history) + 1
<1>1. /\ history \in Seq(Observation) /\ Len(history) \in Nat
      /\ DOMAIN history = 1 .. Len(history)
  BY PastRuns DEF AuctionInv, Past
<1>2. /\ Len(history') = Len(history) + 1 /\ DOMAIN history' = 1 .. (Len(history) + 1)
      /\ history'[Len(history) + 1] = r /\ history' \in Seq(Observation)
      /\ \A i \in DOMAIN history : history'[i] = history[i]
  BY <1>1
<1>3. /\ \A i \in DOMAIN history : i \in DOMAIN history'
      /\ \A i \in DOMAIN history' : i \in DOMAIN history \/ i = Len(history) + 1
  BY <1>1, <1>2
<1>4. \A i \in DOMAIN history' : history'[i].at <= now BY <1>2, <1>3 DEF AuctionInv, Past
<1>5. Past' BY <1>2, <1>4 DEF Past
<1> QED BY <1>2, <1>3, <1>5

LEMMA CompleteKeepsAuction == ASSUME AuctionInv, Complete PROVE AuctionInv'
<1> DEFINE r == Ended(TRUE)
           n == Len(history)
<1>1. /\ run.pc = "end" /\ run' = Idle /\ UNCHANGED <<now, structures, stops>>
      /\ history' = Append(history, r) /\ passport' = Passport
  BY DEF Complete
<1>2. /\ run.at = now /\ now \in Nat \ {0} /\ run.trend \in Trends /\ run.flat \in BOOLEAN
      /\ run.selected \in Selections /\ run.entered \in BOOLEAN
  BY <1>1 DEF AuctionInv, InCycle
<1>3. /\ r \in Observation /\ r.at = now /\ r.completed /\ r.flat = run.flat
      /\ r.selected = run.selected /\ r.entered = run.entered
  BY <1>2 DEF Ended, Observation
<1> HIDE DEF r
<1>4. n \in Nat /\ DOMAIN history = 1 .. n BY PastRuns DEF AuctionInv
<1>5. /\ Past' /\ Len(history') = n + 1 /\ DOMAIN history' = 1 .. (n + 1)
      /\ history'[n + 1] = r
      /\ \A i \in DOMAIN history : i \in DOMAIN history' /\ history'[i] = history[i]
      /\ \A i \in DOMAIN history' : i \in DOMAIN history \/ i = n + 1
  BY <1>1, <1>2, <1>3, OneMoreRun
<1> HIDE DEF n
<1>6. InCycle' BY <1>1 DEF AuctionInv, InCycle, Idle
<1>7. Ledger' BY <1>1 DEF AuctionInv, Ledger
<1>8. /\ passport'.since = IF run.flat /\ ~run.entered THEN FlatStart ELSE 0
      /\ passport'.setup = IF run.selected = Cash THEN passport.setup ELSE run.selected
  BY <1>1 DEF Passport, SetupAfter
\* A run of the old history ends the new one quietly if it did the old one and
\* the new run is quiet, too.
<1>9. \A i \in DOMAIN history' : \A j \in DOMAIN history' : j >= i => j \in i .. Len(history')
  BY <1>4, <1>5
<1>10. \A i \in DOMAIN history : \A j \in i .. n :
         j \in DOMAIN history /\ j \in i .. Len(history') /\ history'[j] = history[j]
  BY <1>4, <1>5
<1>11. \A i \in DOMAIN history' : n + 1 \in i .. Len(history')
  BY <1>4, <1>5
<1>12. FlatStreak'
  <2>1. /\ FlatStart \in {now} \cup {history[i].at : i \in DOMAIN history}
        /\ FlatStart \in Nat \ {0} /\ FlatStart <= now
        /\ passport.since # 0 => FlatStart = passport.since
    BY <1>1, <1>2, FlatStartIsPast
  <2>2. passport'.since \in {0} \cup {history'[i].at : i \in DOMAIN history'}
    <3>1. now = history'[n + 1].at /\ n + 1 \in DOMAIN history' BY <1>3, <1>4, <1>5
    <3> QED BY <1>5, <1>8, <2>1, <3>1
  <2>3. ASSUME NEW i \in DOMAIN history', Quiet(i)'
        PROVE  passport'.since # 0 /\ passport'.since <= history'[i].at
    <3>1. run.flat /\ ~run.entered BY <1>3, <1>5, <1>11, <2>3 DEF Quiet
    <3>2. passport'.since = FlatStart BY <1>8, <3>1
    <3>3. CASE i = n + 1 BY <1>3, <1>5, <2>1, <3>2, <3>3
    <3>4. CASE i \in DOMAIN history
      <4>1. Quiet(i) BY <1>10, <2>3, <3>4 DEF Quiet, n
      <4>2. passport.since # 0 /\ passport.since <= history[i].at
        BY <3>4, <4>1 DEF AuctionInv, FlatStreak
      <4> QED BY <1>5, <2>1, <3>2, <3>4, <4>2
    <3> QED BY <1>5, <3>3, <3>4
  <2> QED BY <2>2, <2>3 DEF FlatStreak
<1>13. LastSetup'
  <2>1. passport'.setup \in Selections BY <1>2, <1>8 DEF AuctionInv, LastSetup
  <2>2. ASSUME NEW i \in DOMAIN history', Latest(i)', Unbroken(i)'
        PROVE  passport'.setup = history'[i].selected
    <3>1. CASE i = n + 1 BY <1>3, <1>5, <1>8, <2>2, <3>1 DEF Latest
    <3>2. CASE i \in DOMAIN history
      <4>1. n + 1 \in (i + 1) .. Len(history') BY <1>4, <1>5, <3>2
      <4>2. run.selected = Cash BY <1>3, <1>5, <2>2, <4>1 DEF Latest
      <4>3. \A j \in (i + 1) .. n : j \in (i + 1) .. Len(history') /\ history'[j] = history[j]
        BY <1>4, <1>5, <3>2
      <4>4. Latest(i) BY <1>5, <2>2, <3>2, <4>3 DEF Latest, n
      <4>5. Unbroken(i) BY <1>10, <2>2, <3>2 DEF Unbroken, n
      <4> QED BY <1>5, <1>8, <3>2, <4>2, <4>4, <4>5 DEF AuctionInv, LastSetup
    <3> QED BY <1>5, <3>1, <3>2
  <2> QED BY <2>1, <2>2 DEF LastSetup
<1> QED BY <1>5, <1>6, <1>7, <1>12, <1>13 DEF AuctionInv

\* A failed run breaks the streak and the memory of the last selection.
LEMMA FailKeepsAuction == ASSUME AuctionInv, FailClosed PROVE AuctionInv'
<1> DEFINE r == Ended(FALSE)
           n == Len(history)
<1>1. /\ run.pc # "idle" /\ run' = Idle /\ UNCHANGED <<now, structures, stops>>
      /\ history' = Append(history, r) /\ passport' = NoStrategy
  BY DEF FailClosed
<1>2. /\ run.at = now /\ now \in Nat \ {0} /\ run.trend \in Trends /\ run.flat \in BOOLEAN
  BY <1>1 DEF AuctionInv, InCycle
<1>3. r \in Observation /\ r.at = now /\ ~r.completed
  BY <1>2 DEF Ended, Observation, Selections
<1> HIDE DEF r
<1>4. n \in Nat /\ DOMAIN history = 1 .. n BY PastRuns DEF AuctionInv
<1>5. /\ Past' /\ Len(history') = n + 1 /\ DOMAIN history' = 1 .. (n + 1)
      /\ history'[n + 1] = r
  BY <1>1, <1>2, <1>3, OneMoreRun
<1> HIDE DEF n
<1>6. \A i \in DOMAIN history' : n + 1 \in i .. Len(history') BY <1>4, <1>5
<1>7. \A i \in DOMAIN history' : ~Quiet(i)' /\ ~Unbroken(i)'
  BY <1>3, <1>5, <1>6 DEF Quiet, Unbroken
<1>8. passport'.since = 0 /\ passport'.setup \in Selections BY <1>1 DEF NoStrategy, Selections
<1>9. FlatStreak' /\ LastSetup' BY <1>7, <1>8 DEF FlatStreak, LastSetup
<1>10. InCycle' BY <1>1 DEF AuctionInv, InCycle, Idle
<1>11. Ledger' BY <1>1 DEF AuctionInv, Ledger
<1> QED BY <1>5, <1>9, <1>10, <1>11 DEF AuctionInv

LEMMA CrashKeepsAuction ==
  ASSUME AuctionInv, Crash \/ Done \/ UNCHANGED auctionVars PROVE AuctionInv'
<1>1. /\ UNCHANGED <<now, history, passport, structures, stops>>
      /\ run' = run \/ run'.pc = "idle"
  BY DEF Crash, Done, auctionVars, Idle
<1>2. now \in Nat BY AuctionAssumption DEF AuctionInv, InCycle
<1>3. InCycle' BY <1>1 DEF AuctionInv, InCycle
<1>4. Ledger' BY <1>1 DEF AuctionInv, Ledger
<1> QED BY <1>1, <1>2, <1>3, <1>4, RunsKept DEF AuctionInv

LEMMA StepKeepsAuction == AuctionInv /\ [Next]_auctionVars => AuctionInv'
<1> SUFFICES ASSUME AuctionInv, [Next]_auctionVars PROVE AuctionInv' OBVIOUS
<1>1. CASE BrokerMoves BY <1>1, BrokerKeepsAuction
<1>2. CASE \E at \in Instants, trend \in Trends, frozen \in BOOLEAN : Begin(at, trend, frozen)
  BY <1>2, BeginKeepsAuction
<1>3. CASE Lifecycle BY <1>3, LifecycleKeepsAuction
<1>4. CASE \/ \E action \in {Calls, Puts}, gain \in BOOLEAN : Enter(action, gain)
           \/ \E action \in {Cash, Calls, Puts}, gain \in BOOLEAN : Refuse(action, gain)
  BY <1>4, SelectKeepsAuction DEF Selections, Actions
<1>5. CASE Complete BY <1>5, CompleteKeepsAuction
<1>6. CASE FailClosed BY <1>6, FailKeepsAuction
<1>7. CASE Crash \/ Done \/ UNCHANGED auctionVars BY <1>7, CrashKeepsAuction
<1> QED BY <1>1, <1>2, <1>3, <1>4, <1>5, <1>6, <1>7 DEF Next

LEMMA AuctionInvariant == Spec => []AuctionInv
BY InitAuction, StepKeepsAuction, PTL DEF Spec

(***************************************************************************)
(* What the auction offered to the run that enters.                        *)
(***************************************************************************)
LEMMA EntryOffered ==
  ASSUME AuctionInv, [Next]_auctionVars, Entering
  PROVE  /\ Confirmed /\ ~LockedOut(Entry)
         /\ run.at \in Nat \ {0}
         /\ \E gain \in BOOLEAN :
              /\ RotationDue(gain) => Entry # passport.setup
              /\ run'.best = Progressed(gain)
<1>1. run.pc = "select" /\ structures' # structures BY DEF Entering
<1>2. PICK action \in {Calls, Puts}, gain \in BOOLEAN : Enter(action, gain)
  BY <1>1 DEF Next, auctionVars, BrokerMoves, Begin, Lifecycle, Refuse, Complete, FailClosed,
              Crash, Done
<1>3. action \in Offered(gain) BY <1>2 DEF Enter, Selectable, Calls, Puts, Cash
<1>4. action = Entry
  <2>1. action \in Built /\ action # Condor BY <1>3 DEF Offered
  <2> QED BY <2>1 DEF Built, Entry
<1>5. Confirmed /\ ~LockedOut(action) /\ (RotationDue(gain) => action # passport.setup)
  BY <1>3 DEF Offered
<1>6. run'.best = Progressed(gain) BY <1>2 DEF Enter, Selected
<1>7. run.at \in Nat \ {0} BY <1>1 DEF AuctionInv, InCycle
<1> QED BY <1>4, <1>5, <1>6, <1>7

\* Windows of five minutes that are one or two apart hold instants that are
\* less than a quarter of an hour apart.
LEMMA WindowsApart ==
  ASSUME NEW a \in Nat, NEW b \in Nat, GapAllowed(a, b)
  PROVE  a - b \in 1 .. (IF FinalWindow(a) THEN 2 ELSE 14)
<1>1. a % 5 \in 0 .. 4 /\ b % 5 \in 0 .. 4 OBVIOUS
<1>2. CASE FinalWindow(a)
  <2>1. FinalWindow(a) = TRUE BY <1>2
  <2> QED BY <1>2, <2>1 DEF GapAllowed, Bucket
<1>3. CASE ~FinalWindow(a)
  <2>1. FinalWindow(a) \in BOOLEAN BY DEF FinalWindow
  <2>2. (a - (a % 5)) - (b - (b % 5)) \in 5 .. 10
    BY <1>3, <2>1 DEF GapAllowed, Bucket
  <2> QED BY <1>1, <1>3, <2>2
<1> QED BY <1>2, <1>3

\* Every direction is call or put, and the opposite of the opposite is itself.
LEMMA Directions ==
  /\ \A t : ActionOf(t) \in Actions
  /\ \A a \in Actions : Opposite(a) \in Actions
  /\ \A a, b \in Actions : a # Opposite(b) => a = b
BY DEF ActionOf, Actions, Opposite, Calls, Puts

(***************************************************************************)
(* The theorems.                                                           *)
(***************************************************************************)
\* What the scheduler's cycles store keeps its shape; the passport's streak
\* starts with a stored run.
THEOREM AuctionTypeCorrect == Spec => []TypeOK
<1>1. AuctionInv => TypeOK
  <2> SUFFICES ASSUME AuctionInv PROVE TypeOK OBVIOUS
  <2>1. \A i \in DOMAIN history : history[i].trend \in Trends
    BY PastRuns DEF AuctionInv
  <2>2. /\ \A s \in structures : s.status \in {"pending", "held", "closing", "stopping"}
        /\ \A s \in stops : s.action \in {Calls, Puts}
    BY DEF AuctionInv, Ledger, Actions
  <2> QED BY <2>1, <2>2 DEF TypeOK, AuctionInv, InCycle, FlatStreak, LastSetup, Selections
<1> QED BY <1>1, AuctionInvariant, PTL

\* No entry on a direction that the last completed run did not see in a window
\* close before, however many runs failed or crashed in between.
THEOREM EntriesSeenTwice == Spec => SeenTwice
<1>1. AuctionInv /\ [Next]_auctionVars =>
        [Entering =>
           /\ HasPrior /\ Strong(Prior.trend) /\ ActionOf(Prior.trend) = Entry
           /\ run.at - Prior.at \in 1 .. (IF FinalWindow(run.at) THEN 2 ELSE 14)]_auctionVars
  <2> SUFFICES ASSUME AuctionInv, [Next]_auctionVars, Entering
               PROVE  /\ HasPrior /\ Strong(Prior.trend) /\ ActionOf(Prior.trend) = Entry
                      /\ run.at - Prior.at \in 1 .. (IF FinalWindow(run.at) THEN 2 ELSE 14)
    OBVIOUS
  <2>1. Confirmed /\ run.at \in Nat BY EntryOffered
  <2>2. /\ HasPrior /\ Strong(Prior.trend) /\ ActionOf(Prior.trend) = ActionOf(run.trend)
        /\ GapAllowed(run.at, Prior.at)
    BY <2>1 DEF Confirmed
  <2>3. Prior.at \in Nat BY <2>2, PriorIsCompleted DEF AuctionInv
  <2> QED BY <2>1, <2>2, <2>3, WindowsApart DEF Entry
<1> QED BY <1>1, AuctionInvariant, PTL DEF Spec, SeenTwice

\* A re-entry after a stop rests on a run that began after every stop of its
\* direction that day.
THEOREM ReentryConfirmed == Spec => ReentryFreshlyConfirmed
<1>1. AuctionInv /\ [Next]_auctionVars =>
        [Entering => \A s \in StopsToday(Entry) : HasPrior /\ Prior.at > s.at]_auctionVars
  <2> SUFFICES ASSUME AuctionInv, [Next]_auctionVars, Entering, NEW s \in StopsToday(Entry)
               PROVE  HasPrior /\ Prior.at > s.at
    OBVIOUS
  <2> DEFINE stop == LatestStop(Entry)
  <2>1. ~LockedOut(Entry) BY EntryOffered
  <2>2. stop \in StopsToday(Entry) /\ s.at <= stop.at
    BY LatestStopIsLatest DEF AuctionInv
  <2>3. stop.at \in Nat /\ s.at \in Nat BY <2>2 DEF StopsToday, AuctionInv, Ledger
  <2>4. FreshAfter(stop) \/ ResetBeforePrior(stop) BY <2>1 DEF LockedOut
  <2> HIDE DEF stop
  <2>5. HasPrior BY <2>4 DEF FreshAfter, ResetBeforePrior
  <2>6. Prior.at \in Nat BY <2>5, PriorIsCompleted DEF AuctionInv
  <2>7. CASE FreshAfter(stop) BY <2>2, <2>3, <2>5, <2>6, <2>7 DEF FreshAfter
  <2>8. CASE ResetBeforePrior(stop)
    <3>1. ResetAt(stop) <= Prior.at /\ Resets(stop) # {} BY <2>8 DEF ResetBeforePrior
    <3>2. PICK i \in Completed : history[i].at = ResetAt(stop) /\ history[i].at > stop.at
      BY <2>3, <3>1, ResetIsAfterStop DEF AuctionInv
    <3>3. history[i].at \in Nat BY PastRuns DEF AuctionInv, Completed
    <3> QED BY <2>2, <2>3, <2>5, <2>6, <3>1, <3>2, <3>3
  <2> QED BY <2>4, <2>7, <2>8
<1> QED BY <1>1, AuctionInvariant, PTL DEF Spec, ReentryFreshlyConfirmed

\* A reversal that is not an acceleration rests on a completed run after an
\* opposite stop that no longer saw the stopped direction.
THEOREM ReversalsEarned == Spec => ReversalIsEarned
<1>1. AuctionInv /\ [Next]_auctionVars =>
        [Entering /\ MaverickSignal(Entry) /\ ~Accelerated =>
           \E i \in Completed : \E s \in StopsToday(Opposite(Entry)) :
             /\ history[i].at > s.at
             /\ ~Strong(history[i].trend) \/ ActionOf(history[i].trend) = Entry]_auctionVars
  <2> SUFFICES ASSUME AuctionInv, [Next]_auctionVars, Entering, MaverickSignal(Entry),
                      ~Accelerated
               PROVE  \E i \in Completed : \E s \in StopsToday(Opposite(Entry)) :
                        /\ history[i].at > s.at
                        /\ ~Strong(history[i].trend) \/ ActionOf(history[i].trend) = Entry
    OBVIOUS
  <2> DEFINE stop == LatestStop(Opposite(Entry))
  <2>1. StopsToday(Opposite(Entry)) # {} /\ ResetBeforePrior(stop)
    BY DEF MaverickSignal, Reversal
  <2>2. stop \in StopsToday(Opposite(Entry)) BY <2>1, LatestStopIsLatest DEF AuctionInv
  <2>3. stop.at \in Nat /\ stop.action = Opposite(Entry)
    BY <2>2 DEF StopsToday, AuctionInv, Ledger
  <2>4. Resets(stop) # {} BY <2>1 DEF ResetBeforePrior
  <2> HIDE DEF stop
  <2>5. PICK i \in Completed :
          /\ history[i].at > stop.at
          /\ ~Strong(history[i].trend) \/ ActionOf(history[i].trend) # stop.action
    BY <2>3, <2>4, ResetIsAfterStop DEF AuctionInv
  <2>6. ActionOf(history[i].trend) # Opposite(Entry) => ActionOf(history[i].trend) = Entry
    BY Directions DEF Entry
  <2> QED BY <2>2, <2>3, <2>5, <2>6
<1> QED BY <1>1, AuctionInvariant, PTL DEF Spec, ReversalIsEarned

\* A setup that led nowhere for 45 minutes, flat or open, is not entered again
\* unless a run that failed made the passport forget it.
THEOREM SetupsRotate == Spec => SetupRotates
<1> DEFINE flatFor45 == run.flat /\ \E i \in DOMAIN history :
             /\ run.at - history[i].at >= 45 /\ Day(history[i].at) = Day(run.at)
             /\ \A j \in i .. Len(history) :
                  history[j].completed /\ history[j].flat /\ ~history[j].entered
           openFor45 == \E s \in Managed : run.at - s.opened >= 45 /\ s.opened \notin run'.best
<1>1. AuctionInv /\ [Next]_auctionVars =>
        [Entering /\ (\E i \in DOMAIN history : history[i].selected # Cash) =>
           ((flatFor45 \/ openFor45) /\ Unbroken(LastSelection)
              => Entry # history[LastSelection].selected)]_auctionVars
  <2> SUFFICES ASSUME AuctionInv, [Next]_auctionVars, Entering,
                      \E i \in DOMAIN history : history[i].selected # Cash,
                      flatFor45 \/ openFor45, Unbroken(LastSelection)
               PROVE  Entry # history[LastSelection].selected
    OBVIOUS
  <2>1. PICK gain \in BOOLEAN : /\ RotationDue(gain) => Entry # passport.setup
                                /\ run'.best = Progressed(gain)
    BY EntryOffered
  <2>2. run.at \in Nat \ {0} BY EntryOffered
  \* The last selection is the one the passport remembers.
  <2>3. LastSelection \in DOMAIN history /\ Latest(LastSelection)
    <3> DEFINE S == {i \in DOMAIN history : history[i].selected # Cash}
    <3>1. /\ DOMAIN history = 1 .. Len(history) /\ Len(history) \in Nat
          /\ \A i \in DOMAIN history : history[i].selected \in Selections
      BY PastRuns DEF AuctionInv
    <3>2. S \in SUBSET (0 .. Len(history)) /\ S # {} BY <3>1
    <3>3. Max(S) \in S /\ \A i \in S : i <= Max(S)
      <4> HIDE DEF S
      <4> QED BY <3>1, <3>2, MaxIsElement
    <3> DEFINE m == Max(S)
    <3>4. m \in DOMAIN history /\ history[m].selected # Cash BY <3>3
    <3> HIDE DEF m
    <3>5. \A j \in (m + 1) .. Len(history) : history[j].selected = Cash
      <4> SUFFICES ASSUME NEW j \in (m + 1) .. Len(history), history[j].selected # Cash
                   PROVE  FALSE
        OBVIOUS
      <4>1. j \in DOMAIN history /\ j > m BY <3>1, <3>4
      <4>2. j \in S BY <4>1
      <4>3. j <= m BY <3>3, <4>2 DEF m
      <4> QED BY <3>1, <3>4, <4>1, <4>3
    <3>6. \E i \in DOMAIN history : Latest(i) BY <3>4, <3>5 DEF Latest
    <3> QED BY <3>6 DEF LastSelection, Latest
  <2>4. passport.setup = history[LastSelection].selected
    BY <2>3 DEF AuctionInv, LastSetup
  <2>5. CASE flatFor45
    <3>1. PICK i \in DOMAIN history : run.at - history[i].at >= 45 /\ Quiet(i)
      BY <2>5 DEF Quiet
    <3>2. passport.since # 0 /\ passport.since <= history[i].at
      BY <3>1 DEF AuctionInv, FlatStreak
    <3>3. FlatStart = passport.since BY <3>2 DEF FlatStart
    <3>4. /\ \A k \in DOMAIN history : history[k].at \in Nat
          /\ passport.since \in {0} \cup {history[k].at : k \in DOMAIN history}
      BY PastRuns DEF AuctionInv, FlatStreak
    <3>5. run.at - FlatStart >= 45 BY <2>2, <3>1, <3>2, <3>3, <3>4
    <3>6. FlatDue BY <2>5, <3>5 DEF FlatDue
    <3> QED BY <2>1, <2>4, <3>6 DEF RotationDue
  <2>6. CASE openFor45
    <3>1. Unproductive(gain) BY <2>1, <2>6 DEF Unproductive
    <3> QED BY <2>1, <2>4, <3>1 DEF RotationDue
  <2> QED BY <2>5, <2>6
<1> QED BY <1>1, AuctionInvariant, PTL DEF Spec, SetupRotates
===============================================================================
