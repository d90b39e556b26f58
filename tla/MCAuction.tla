------------------------------- MODULE MCAuction -------------------------------
(***************************************************************************)
(* A small instance of Auction: the afternoon of the final day, on both    *)
(* sides of the change to one-minute cycles at 15:00.                      *)
(***************************************************************************)
EXTENDS Auction

Afternoon ==
  {At(4, 14, 6), At(4, 14, 15), At(4, 15, 0), At(4, 15, 1), At(4, 15, 2)}

\* Bearish, neutral, bullish and twice as bullish.
Swings == {-1, 0, 1, 2}
===============================================================================
