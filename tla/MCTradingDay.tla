----------------------------- MODULE MCTradingDay -----------------------------
(***************************************************************************)
(* A small instance of TradingDay: Wednesday and Thursday with a standard  *)
(* and a high-conviction candidate.                                        *)
(***************************************************************************)
EXTENDS TradingDay

\* Wednesday morning and afternoon; Thursday before the open, in the morning,
\* and around noon, and in the final hour.
TwoDays ==
  {At(3, 10, 0), At(3, 11, 0), At(4, 8, 0), At(4, 11, 0), At(4, 13, 0), At(4, 15, 5)}

Plain(underlying) ==
  [action |-> "call_debit_spread", underlying |-> underlying, maxLoss |-> 900,
   sound |-> TRUE, agrees |-> TRUE, strong |-> FALSE, depth |-> 100,
   hold |-> 45, deadline |-> ENDS_AT]
Strong(underlying) == [Plain(underlying) EXCEPT !.strong = TRUE]

Selectable == {Plain("QQQ"), Strong("QQQ")}
===============================================================================
