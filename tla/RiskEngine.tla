------------------------------ MODULE RiskEngine ------------------------------
(***************************************************************************)
(* The deterministic veto between the model's selection and the broker:    *)
(* which candidates evaluate_risk approves and how many contracts of one.  *)
(* Amounts are dollars and percentages are basis points, so a limit is the *)
(* product of the two and is compared with 10000 times an amount.          *)
(*                                                                         *)
(* A candidate is a record                                                 *)
(*   action, underlying, maxLoss   its structure                           *)
(*   sound    fresh, liquid, no event ahead and of defined risk            *)
(*   agrees   the model and the deterministic direction stand behind it    *)
(*   strong   it meets the high-conviction thresholds of its action        *)
(*   depth    contracts its displayed quotes can fill                      *)
(*   hold     the minutes it may be held                                   *)
(*   deadline the instant it must be closed before                         *)
(* and a context x is what the cycle knows of the account and its orders.  *)
(***************************************************************************)
EXTENDS CompetitionClock, Integers

Whole == 10000

INDEX_UNDERLYINGS == {"SPY", "QQQ", "IWM"}
DIRECTIONAL_INDEX_ACTIONS == {"call_debit_spread", "put_debit_spread"}
INDEX_ACTIONS == DIRECTIONAL_INDEX_ACTIONS \cup {"index_condor"}

daily_loss_pct_at(at) == IF IsFinalDay(at) THEN 1100 ELSE 600
index_cluster_pct_at(at) == IF IsFinalDay(at) THEN 2400 ELSE 1200
total_defined_loss_pct_at(at) == IF IsFinalDay(at) THEN 2400 ELSE 1500
COMPETITION_DRAWDOWN_PCT == 1200

Lower(a, b) == IF a <= b THEN a ELSE b
Higher(a, b) == IF a >= b THEN a ELSE b

\* max(0, from - to): how far an equity has fallen.
Fall(from, to) == Higher(0, from - to)

\* A fall that has reached a share of where it began.
Breached(from, to, share) == Whole * Fall(from, to) >= from * share

(***************************************************************************)
(* entry_holding_policy: an entry needs room before the daily hard exit,   *)
(* the forced flatten and the candidate's own deadline.                    *)
(***************************************************************************)
HoldingBoundary(c, at) ==
  Lower(c.deadline, Lower(At(Day(at), 15, 50), FORCED_FLATTEN_STARTS_AT))

MinimumWindow(at) == IF FinalHourWindow(at) THEN 5 ELSE 30

HoldingAccepted(c, at) ==
  c.hold > 0 /\ Lower(c.hold, Fall(HoldingBoundary(c, at), at)) >= MinimumWindow(at)

(***************************************************************************)
(* The gates.                                                              *)
(***************************************************************************)
IndexStrategy(c) == c.action \in INDEX_ACTIONS /\ c.underlying \in INDEX_UNDERLYINGS
StrongDirectional(c) ==
  c.strong /\ c.action \in DIRECTIONAL_INDEX_ACTIONS /\ c.underlying \in INDEX_UNDERLYINGS

\* The final day waives the daily stop and the drawdown for new entries.
LossAllows(x) ==
  \/ IsFinalDay(x.now)
  \/ /\ ~Breached(x.start, x.equity, daily_loss_pct_at(x.now))
     /\ ~x.halt
     /\ ~Breached(x.peak, x.equity, COMPETITION_DRAWDOWN_PCT)

\* One structure per underlying; the final day admits one more of an index,
\* the final hour any number of them.
UnderlyingAllows(c, x) ==
  \/ x.open[c.underlying] = 0
  \/ /\ IsFinalDay(x.now) /\ c.underlying \in INDEX_UNDERLYINGS
     /\ x.open[c.underlying] = 1
  \/ FinalHourWindow(x.now) /\ StrongDirectional(c)

FinalHourAllows(c, x) ==
  FinalHourWindow(x.now) => StrongDirectional(c) /\ x.pending = {}

ClusterRemaining(x) == x.equity * index_cluster_pct_at(x.now) - Whole * x.loss
TotalRemaining(x) == x.equity * total_defined_loss_pct_at(x.now) - Whole * x.loss

HardGatesPassed(c, x) ==
  /\ x.state = "full_execution" /\ ~x.kill /\ x.clean
  /\ c.sound
  /\ c.action \in DIRECTIONAL_INDEX_ACTIONS => c.agrees
  /\ LossAllows(x)
  /\ FinalHourAllows(c, x)
  /\ HoldingAccepted(c, x.now)
  /\ c.underlying \notin x.pending
  /\ UnderlyingAllows(c, x)
  /\ ClusterRemaining(x) > 0 /\ TotalRemaining(x) > 0

(***************************************************************************)
(* The tier of an approved candidate and the risk it may take.             *)
(***************************************************************************)
Headroom(x) == Lower(ClusterRemaining(x), TotalRemaining(x))

MaverickApplies(c, x) ==
  StrongDirectional(c) /\ IsFinalDay(x.now) /\ x.confirmed /\ ~x.used /\ x.loss = 0

Tier(c, x) ==
  CASE c.action = "earnings_condor" -> "earnings"
    [] c.action # "earnings_condor" /\ FinalHourWindow(x.now) -> "final_hour"
    [] c.action # "earnings_condor" /\ ~FinalHourWindow(x.now) ->
         IF MaverickApplies(c, x) THEN "maverick"
         ELSE IF c.strong /\ IndexStrategy(c) THEN "high_conviction" ELSE "standard"

Budget(c, x) ==
  LET tier == Tier(c, x)
  IN CASE tier = "earnings" -> x.equity * 35
       [] tier = "final_hour" -> Headroom(x)
       [] tier = "maverick" -> x.equity * 1200
       [] tier = "high_conviction" -> x.equity * 600
       [] tier = "standard" -> x.equity * 300

BudgetQuantity(c, x) ==
  Higher(0, Lower(Budget(c, x), Headroom(x))) \div (Whole * c.maxLoss)

Quantity(c, x) ==
  IF Tier(c, x) = "final_hour" THEN Lower(BudgetQuantity(c, x), c.depth)
  ELSE BudgetQuantity(c, x)

Approved(c, x) == HardGatesPassed(c, x) /\ Quantity(c, x) >= 1
AwardedRisk(c, x) == c.maxLoss * Quantity(c, x)
===============================================================================
