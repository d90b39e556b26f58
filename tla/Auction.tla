-------------------------------- MODULE Auction --------------------------------
(***************************************************************************)
(* What a production cycle may select: the candidates of one underlying,   *)
(* the exclusions derived from what earlier cycles stored (observations,   *)
(* passports, stop rows) and the model's choice among the rest.  A stored  *)
(* run that failed leaves a passport without a strategy and an observation *)
(* nobody reads; one that crashed leaves neither.                          *)
(***************************************************************************)
EXTENDS CompetitionClock, Integers, Sequences, FiniteSets, FiniteSetsExt

CONSTANTS
  Instants,   \* bound: the instants at which cycles may begin
  Trends,     \* trend_return_pct, in units of the directional threshold
  Delays,     \* minutes from a cycle's start to the row of a stop it orders
  MaxCycles,  \* bound: runs that end with a status
  MaxFaults,  \* bound: failed and crashed cycles
  MaxEntries  \* bound: entries, the last of which ends a behaviour

ASSUME AuctionAssumption ==
  /\ Instants \subseteq Nat /\ Delays \subseteq Nat /\ Trends \subseteq Int
  /\ {MaxCycles, MaxFaults, MaxEntries} \subseteq Nat

VARIABLES
  now,        \* the instant of the latest cycle
  run,        \* the cycle in progress
  history,    \* the runs that ended with a status, in their order
  passport,   \* latest_passport
  structures, \* the underlying's structures: pending, held or being closed
  stops,      \* the stored closes whose reason is debit_stop_loss
  count       \* the faults and the entries so far

auctionVars == <<now, run, history, passport, structures, stops, count>>

Cash == "abstain"
Calls == "call_debit_spread"
Puts == "put_debit_spread"
Condor == "index_condor"

Idle == [pc |-> "idle"]

\* A passport without a strategy: the first one's predecessor, or a failed one.
NoStrategy ==
  [setup |-> Cash, since |-> 0, best |-> {}, due |-> FALSE, submitted |-> FALSE,
   chosen |-> Cash, trend |-> 0]

Init ==
  /\ now = 0
  /\ run = Idle
  /\ history = <<>>
  /\ passport = NoStrategy
  /\ structures = {}
  /\ stops = {}
  /\ count = [faults |-> 0, entries |-> 0]

(***************************************************************************)
(* Observations.                                                           *)
(***************************************************************************)
Strong(trend) == trend >= 1 \/ trend <= -1
Size(trend) == IF trend >= 0 THEN trend ELSE -trend
ActionOf(trend) == IF trend > 0 THEN Calls ELSE Puts
Opposite(action) == IF action = Calls THEN Puts ELSE Calls

CompletedOrFailed == DOMAIN history
Completed == {i \in DOMAIN history : history[i].completed}

HasPrior == Completed # {}
Prior == history[Max(Completed)]

FinalWindow(at) == FINAL_HOUR_RECOVERY_STARTS_AT <= at /\ at <= EOD_EQUITY_SNAPSHOT_AT
Bucket(at, oneMinute) == IF oneMinute THEN at ELSE at - (at % 5)
GapAllowed(at, before) ==
  LET gap == Bucket(at, FinalWindow(at)) - Bucket(before, FinalWindow(at))
  IN gap \in (IF FinalWindow(at) THEN 1 .. 2 ELSE 5 .. 10)

ConfirmedWithAnyRun ==
  /\ CompletedOrFailed # {}
  /\ LET prior == history[Max(CompletedOrFailed)]
     IN /\ Strong(run.trend) /\ GapAllowed(run.at, prior.at)
        /\ Strong(prior.trend) /\ ActionOf(prior.trend) = ActionOf(run.trend)
Confirmed ==
  /\ HasPrior
  /\ Strong(run.trend) /\ GapAllowed(run.at, Prior.at)
  /\ Strong(Prior.trend) /\ ActionOf(Prior.trend) = ActionOf(run.trend)

(***************************************************************************)
(* Stops and the resets that follow them.                                  *)
(***************************************************************************)
StopsToday(action) == {s \in stops : s.action = action /\ Day(s.at) = Day(run.at)}
LatestStop(action) ==
  CHOOSE s \in StopsToday(action) : \A other \in StopsToday(action) : other.at <= s.at

\* A completed observation after the stop that is neutral or contradicts it.
ResetsUnlessOpposite(stop) ==
  {history[i].at : i \in {k \in Completed :
     history[k].at > stop.at /\ ~Strong(history[k].trend)}}
Resets(stop) ==
  {history[i].at : i \in {k \in Completed :
     /\ history[k].at > stop.at
     /\ ~Strong(history[k].trend) \/ ActionOf(history[k].trend) # stop.action}}
ResetAt(stop) == Min(Resets(stop))
ResetBeforePrior(stop) ==
  HasPrior /\ Resets(stop) # {} /\ ResetAt(stop) <= Prior.at

FreshAfterAnyStop(stop) == Confirmed
FreshAfter(stop) == HasPrior /\ Prior.at > stop.at /\ Confirmed

LockedOut(action) ==
  /\ StopsToday(action) # {}
  /\ ~FreshAfter(LatestStop(action)) /\ ~ResetBeforePrior(LatestStop(action))

Accelerated == HasPrior /\ Size(run.trend) - Size(Prior.trend) >= 1
ReversalOnceStopped(action) == StopsToday(Opposite(action)) # {}
Reversal(action) ==
  /\ StopsToday(Opposite(action)) # {}
  /\ ResetBeforePrior(LatestStop(Opposite(action)))
MaverickSignal(action) == Confirmed /\ (Accelerated \/ Reversal(action))

(***************************************************************************)
(* The strategy rotation.                                                  *)
(***************************************************************************)
\* flat_no_entry_since: today's unbroken streak of completed flat runs.
Streak ==
  {i \in Completed : \A j \in Completed : j >= i =>
     /\ Day(history[j].at) = Day(run.at)
     /\ history[j].flat /\ ~history[j].entered}
FlatSince == history[Min(Streak)].at

FlatStartWhenDue ==
  IF passport.since # 0 THEN passport.since
  ELSE IF Streak # {} THEN FlatSince ELSE run.at - 45
FlatStart ==
  IF passport.since # 0 THEN passport.since
  ELSE IF Streak # {} THEN FlatSince ELSE run.at
FlatDue == run.flat /\ run.at - FlatStart >= 45

Managed == {s \in structures : s.status # "pending"}
Progressed(gain) == {s.opened : s \in {m \in Managed : gain \/ m.opened \in passport.best}}
Unproductive(gain) ==
  \E s \in Managed : run.at - s.opened >= 45 /\ s.opened \notin Progressed(gain)

RotationDue(gain) == FlatDue \/ passport.due \/ Unproductive(gain)

(***************************************************************************)
(* The candidates a cycle builds and those it offers.                      *)
(***************************************************************************)
Built == {Condor} \cup (IF Strong(run.trend) THEN {ActionOf(run.trend)} ELSE {})

\* _portfolio_candidate_exclusions, on what was read when the cycle began.
UnderlyingTaken ==
  \/ run.pending
  \/ run.open > 0 /\ ~(IsFinalDay(run.at) /\ run.open = 1) /\ ~FinalHourWindow(run.at)

RepeatsSnapshot(action) ==
  passport.submitted /\ passport.chosen = action /\ run.frozen

Offered(gain) ==
  {action \in Built :
     /\ ~UnderlyingTaken
     /\ action # Condor /\ Confirmed /\ ~LockedOut(action)
     /\ RotationDue(gain) => action # passport.setup
     /\ ~RepeatsSnapshot(action)}

\* Whichever provider decides: its first valid choice, that of its retry, the
\* first candidate, or cash when the provider fails.
Selectable(offered) == offered \cup {Cash}

(***************************************************************************)
(* Between cycles.                                                         *)
(***************************************************************************)
BrokerMoves ==
  /\ run.pc = "idle"
  /\ \E s \in structures :
       \/ structures' = structures \ {s}
       \/ /\ s.status = "pending"
          /\ structures' = (structures \ {s}) \cup {[s EXCEPT !.status = "held"]}
  /\ UNCHANGED <<now, run, history, passport, stops, count>>

(***************************************************************************)
(* A cycle.                                                                *)
(***************************************************************************)
Begin(at, trend, frozen) ==
  /\ run.pc = "idle" /\ Len(history) < MaxCycles /\ count.entries < MaxEntries
  /\ at > now
  /\ frozen => passport.submitted /\ trend = passport.trend
  /\ now' = at
  /\ LET full == ExecutionState(at, structures # {}) = "full_execution"
     IN run' = [pc |-> "lifecycle", at |-> at, trend |-> trend, frozen |-> frozen,
                full |-> full, flat |-> full /\ structures = {},
                pending |-> \E s \in structures : s.status = "pending",
                open |-> Cardinality(Managed), submitted |-> FALSE]
  /\ UNCHANGED <<history, passport, structures, stops, count>>

\* The lifecycle closes structures, the stopped ones with a row that says so,
\* renews closes that did not fill and cancels pending entries.
Lifecycle ==
  /\ run.pc = "lifecycle"
  /\ \E canceled \in SUBSET {s \in structures : s.status = "pending"} :
     \E closed \in SUBSET {s \in structures : s.status = "held"} :
     \E stopped \in SUBSET {s \in structures : s.status \in {"held", "stopping"}} :
     \E delay \in Delays :
       /\ closed \cap stopped = {}
       /\ stopped = {} => delay = 0
       /\ structures' = (structures \ (canceled \cup closed \cup stopped))
            \cup {[s EXCEPT !.status = "closing"] : s \in closed}
            \cup {[s EXCEPT !.status = "stopping"] : s \in stopped}
       /\ stops' = stops \cup {[action |-> s.action, at |-> run.at + delay] : s \in stopped}
       /\ run' = [run EXCEPT !.pc = "select", !.submitted = closed \cup stopped # {}]
  /\ UNCHANGED <<now, history, passport, count>>

Selected(action, gain, entered) ==
  run' = [pc |-> "end", at |-> run.at, trend |-> run.trend, flat |-> run.flat,
          submitted |-> run.submitted \/ entered, selected |-> action, entered |-> entered,
          due |-> Unproductive(gain), best |-> Progressed(gain)]

\* The engine approves the choice and the entry is placed and stored.
Enter(action, gain) ==
  /\ run.pc = "select" /\ run.full /\ (gain => Managed # {})
  /\ action \in Selectable(Offered(gain)) \ {Cash}
  /\ structures' = structures \cup {[action |-> action, opened |-> run.at, status |-> "pending"]}
  /\ Selected(action, gain, TRUE)
  /\ count' = [count EXCEPT !.entries = @ + 1]
  /\ UNCHANGED <<now, history, passport, stops>>

\* Cash wins, or the engine refuses the choice.
Refuse(action, gain) ==
  /\ run.pc = "select" /\ (gain => Managed # {})
  /\ action \in Selectable(Offered(gain))
  /\ Selected(action, gain, FALSE)
  /\ UNCHANGED <<now, history, passport, structures, stops, count>>

Ended(completed) ==
  [at |-> run.at, trend |-> run.trend, completed |-> completed, flat |-> run.flat,
   selected |-> IF completed THEN run.selected ELSE Cash,
   entered |-> completed /\ run.entered]

SetupForgotten == run.selected
SetupAfter == IF run.selected = Cash THEN passport.setup ELSE run.selected

Passport ==
  [setup |-> SetupAfter,
   since |-> IF run.flat /\ ~run.entered THEN FlatStart ELSE 0,
   best |-> run.best, due |-> run.due, submitted |-> run.submitted,
   chosen |-> run.selected, trend |-> run.trend]

Complete ==
  /\ run.pc = "end"
  /\ history' = Append(history, Ended(TRUE))
  /\ passport' = Passport
  /\ run' = Idle
  /\ UNCHANGED <<now, structures, stops, count>>

FailClosed ==
  /\ run.pc # "idle" /\ count.faults < MaxFaults
  /\ history' = Append(history, Ended(FALSE))
  /\ passport' = NoStrategy
  /\ run' = Idle
  /\ count' = [count EXCEPT !.faults = @ + 1]
  /\ UNCHANGED <<now, structures, stops>>

Crash ==
  /\ run.pc # "idle" /\ count.faults < MaxFaults
  /\ run' = Idle
  /\ count' = [count EXCEPT !.faults = @ + 1]
  /\ UNCHANGED <<now, history, passport, structures, stops>>

Done ==
  /\ run.pc = "idle" /\ structures = {}
  /\ Len(history) = MaxCycles \/ count.entries = MaxEntries \/ \A at \in Instants : at <= now
  /\ UNCHANGED auctionVars

Next ==
  \/ BrokerMoves
  \/ \E at \in Instants, trend \in Trends, frozen \in BOOLEAN : Begin(at, trend, frozen)
  \/ Lifecycle
  \/ \E action \in {Calls, Puts}, gain \in BOOLEAN : Enter(action, gain)
  \/ \E action \in {Cash, Calls, Puts}, gain \in BOOLEAN : Refuse(action, gain)
  \/ Complete
  \/ FailClosed
  \/ Crash
  \/ Done

Spec == Init /\ [][Next]_auctionVars

(***************************************************************************)
(* Properties.                                                             *)
(***************************************************************************)
TypeOK ==
  /\ now \in Instants \cup {0}
  /\ run.pc \in {"idle", "lifecycle", "select", "end"}
  /\ \A i \in DOMAIN history : history[i].trend \in Trends
  /\ passport.setup \in {Cash, Calls, Puts}
  /\ passport.since \in {0} \cup {history[i].at : i \in DOMAIN history}
  /\ \A s \in structures : s.status \in {"pending", "held", "closing", "stopping"}
  /\ \A s \in stops : s.action \in {Calls, Puts}

Entering == run.pc = "select" /\ structures' # structures
Entry == ActionOf(run.trend)

\* An entry has been seen twice: the last run that completed saw its direction
\* in another window and less than a quarter of an hour before, two minutes in
\* the final window.  No failed or crashed cycle stands in for that run.
SeenTwice ==
  [][Entering =>
       /\ HasPrior /\ Strong(Prior.trend) /\ ActionOf(Prior.trend) = Entry
       /\ run.at - Prior.at \in 1 .. (IF FinalWindow(run.at) THEN 2 ELSE 14)]_auctionVars

\* After a stop of its direction a re-entry needs two completed observations
\* of that direction, both begun after the stop was stored, whatever the
\* failures, crashes and renewed closes in between.
ReentryFreshlyConfirmed ==
  [][Entering => \A s \in StopsToday(Entry) : HasPrior /\ Prior.at > s.at]_auctionVars

\* A reversal counts toward the one-shot tier only once a completed
\* observation after the opposite stop has contradicted or neutralised it.
ReversalIsEarned ==
  [][Entering /\ MaverickSignal(Entry) /\ ~Accelerated =>
       \E i \in Completed : \E s \in StopsToday(Opposite(Entry)) :
         /\ history[i].at > s.at
         /\ ~Strong(history[i].trend) \/ ActionOf(history[i].trend) = Entry]_auctionVars

LastSelection ==
  CHOOSE i \in DOMAIN history :
    /\ history[i].selected # Cash
    /\ \A j \in (i + 1) .. Len(history) : history[j].selected = Cash
Unbroken(i) == \A j \in i .. Len(history) : history[j].completed

\* What was selected last, by a run followed by no failed one, is not entered
\* once the account has been flat without an entry for 45 minutes, nor while a
\* structure has been open that long without progress.
SetupRotates ==
  [][Entering /\ (\E i \in DOMAIN history : history[i].selected # Cash) =>
       LET flatFor45 == run.flat /\ \E i \in DOMAIN history :
             /\ run.at - history[i].at >= 45 /\ Day(history[i].at) = Day(run.at)
             /\ \A j \in i .. Len(history) :
                  history[j].completed /\ history[j].flat /\ ~history[j].entered
           openFor45 == \E s \in Managed : run.at - s.opened >= 45 /\ s.opened \notin run'.best
       IN (flatFor45 \/ openFor45) /\ Unbroken(LastSelection)
            => Entry # history[LastSelection].selected]_auctionVars
===============================================================================
