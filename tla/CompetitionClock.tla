--------------------------- MODULE CompetitionClock ---------------------------
(***************************************************************************)
(* The fixed calendar of the competition.  An instant is a whole minute of *)
(* New York time, counted from midnight of Sunday, August 30: day 1 is     *)
(* Monday, the scoring days are 1 to 4 and the competition ends on day 5.  *)
(***************************************************************************)
EXTENDS Naturals

MinutesPerDay == 1440

\* An instant from a day and a wall-clock time.
At(day, hour, minute) == day * MinutesPerDay + hour * 60 + minute

Day(at) == at \div MinutesPerDay
WallTime(at) == at % MinutesPerDay

SCORING_STARTS_AT == At(1, 9, 30)
FINAL_HOUR_RECOVERY_STARTS_AT == At(4, 15, 0)
NEW_ENTRY_CUTOFF == At(4, 15, 45)
FORCED_FLATTEN_STARTS_AT == At(4, 15, 50)
FLAT_TARGET_AT == At(4, 15, 57)
EOD_EQUITY_SNAPSHOT_AT == At(4, 16, 0)
ENDS_AT == At(5, 9, 30)
BASELINE_EQUITY == 100000

FinalDay == Day(EOD_EQUITY_SNAPSHOT_AT)
IsFinalDay(at) == Day(at) = FinalDay

Weekday(at) == Day(at) % 7 \in 1 .. 5

scoring_window_state(at) ==
  CASE at < SCORING_STARTS_AT -> "pre_scoring"
    [] SCORING_STARTS_AT <= at /\ at < EOD_EQUITY_SNAPSHOT_AT -> "scoring"
    [] at = EOD_EQUITY_SNAPSHOT_AT -> "eod_measurement"
    [] at > EOD_EQUITY_SNAPSHOT_AT -> "post_scoring"

IsOfficial(at) == scoring_window_state(at) \in {"scoring", "eod_measurement"}

market_session_phase(at) ==
  CASE ~Weekday(at) -> "overnight"
    [] Weekday(at) /\ WallTime(at) \in 570 .. 959 -> "market_hours"
    [] Weekday(at) /\ WallTime(at) \in (240 .. 569) \cup (960 .. 1199) -> "extended_hours"
    [] Weekday(at) /\ WallTime(at) \in (0 .. 239) \cup (1200 .. 1439) -> "overnight"

\* is_regular_market_performance_observation: a mark that may set a baseline.
IsRegularMark(at) == IsOfficial(at) /\ market_session_phase(at) = "market_hours"

\* competition_entry_window_open: the final day's last minute belongs to it.
EntryWindowOpen(at) ==
  /\ Weekday(at)
  /\ WallTime(at) >= 9 * 60 + 45
  /\ IF IsFinalDay(at) THEN WallTime(at) <= 15 * 60 + 45 ELSE WallTime(at) < 15 * 60 + 20

\* competition_clock
ClockState(at, exposed) ==
  CASE at < SCORING_STARTS_AT -> "observe_only"
    [] SCORING_STARTS_AT <= at /\ at <= NEW_ENTRY_CUTOFF -> "full_execution"
    [] NEW_ENTRY_CUTOFF < at /\ at < ENDS_AT -> "close_only"
    [] at >= ENDS_AT -> IF exposed THEN "close_only_until_flat" ELSE "disabled"

ForceFlatten(at) == at >= FORCED_FLATTEN_STARTS_AT

\* The regular session, which is when the broker's market clock is open.
MarketOpen(at) == market_session_phase(at) = "market_hours"

\* The execution state a production cycle works under.
ExecutionState(at, exposed) ==
  IF ClockState(at, exposed) = "full_execution" /\ ~(MarketOpen(at) /\ EntryWindowOpen(at))
  THEN "observe_only" ELSE ClockState(at, exposed)

FinalHourWindow(at) == FINAL_HOUR_RECOVERY_STARTS_AT <= at /\ at <= NEW_ENTRY_CUTOFF
===============================================================================
