------------------------------- MODULE Repricing -------------------------------
(***************************************************************************)
(* The prices of one structure's orders: the entry with its concessions,   *)
(* the exits its quotes, its holding time and the portfolio call for, and  *)
(* the soft or urgent series of closes that follows.  One cycle is one     *)
(* action, quantities and duplicates are OrderLifecycle's.  Prices are     *)
(* cents, ages are minutes.  A quote is the cash the close would bring, in *)
(* a set that is empty when a leg's quote is missing.  The cycles are      *)
(* those of one session, with the market open.                             *)
(***************************************************************************)
EXTENDS Integers

CONSTANTS
  OpenedStructures, \* records [credit, opening, width, target, quotes]: what may be
                    \* opened, with (bound) the cash its close may bring
  Intervals,        \* bound: the minutes from one cycle to the next
  MaxLostOrders     \* bound: replacements that fail after their cancel

ASSUME RepricingAssumption ==
  /\ Intervals \subseteq Nat \ {0} /\ MaxLostOrders \in Nat
  /\ \A s \in OpenedStructures :
       /\ s.credit \in BOOLEAN /\ {s.opening, s.width} \subseteq Nat \ {0}
       /\ s.target \in Nat /\ s.quotes \subseteq Int

VARIABLES
  structure, \* what is opened
  position,  \* "ready" before the entry, then "none", "new", "held" or "closing"
  order,     \* the working order
  hardExit,  \* the daily hard exit or the forced flatten has been reached
  overHeld,  \* the maximum holding time is over
  lost       \* replacements lost so far

repricingVars == <<structure, position, order, hardExit, overHeld, lost>>

STALE_AFTER == 2 \* the first whole minute that is not under 90 seconds
SOFT_STALE_AFTER == 15
MAX_REPRICE_ATTEMPTS == 2
REPRICE_INCREMENT == 5
MAX_TOTAL_CONCESSION == 10
URGENT_REPRICE_INCREMENT == 10
URGENT_MAX_TOTAL_CONCESSION == 30

Least(a, b) == IF a <= b THEN a ELSE b
Most(a, b) == IF a >= b THEN a ELSE b
Distance(a, b) == IF a >= b THEN a - b ELSE b - a
Cash(quote) == CHOOSE cash \in quote : TRUE

NoOrder == [side |-> "none"]
Working == order.side # "none"
Closing == order.side = "close"

EntryOrder(s) ==
  [side |-> "entry", limit |-> s.opening, credit |-> s.credit, attempt |-> 0,
   age |-> 0, urgency |-> "none"]

RepricingInit ==
  /\ structure \in OpenedStructures
  /\ position = "ready"
  /\ order = NoOrder
  /\ hardExit = FALSE /\ overHeld = FALSE
  /\ lost = 0

SubmitEntry ==
  /\ position = "ready"
  /\ order' = EntryOrder(structure)
  /\ position' = "none"
  /\ UNCHANGED <<structure, hardExit, overHeld, lost>>

(***************************************************************************)
(* stale_order_action.                                                     *)
(***************************************************************************)
UrgentAsSubmitted(forced) == Closing /\ (order.urgency = "urgent" \/ forced)
Urgent(forced) == Closing /\ (order.urgency = "urgent" \/ forced \/ hardExit')
Soft(forced) == Closing /\ ~Urgent(forced)

Age(interval) == Least(order.age + interval, SOFT_STALE_AFTER)
Stale(forced, interval) ==
  Age(interval) >= (IF Soft(forced) THEN SOFT_STALE_AFTER ELSE STALE_AFTER)

\* closing_quote_materially_changed
Moved(quote) ==
  quote # {} /\ Distance(Distance(Cash(quote), 0), order.limit) >= REPRICE_INCREMENT

\* refreshed_close_terms: a price for every leg and a net price that is not zero.
Refreshed(quote) == quote # {} /\ Cash(quote) # 0

PastTheLastAttempt == order.attempt > MAX_REPRICE_ATTEMPTS
LastAttempt == order.attempt >= MAX_REPRICE_ATTEMPTS

UrgentConcession ==
  Least(URGENT_REPRICE_INCREMENT * (order.attempt + 1), URGENT_MAX_TOTAL_CONCESSION)

\* At the last attempt the limit is the worst that still makes sense: one cent
\* of credit, the width of the wings in debit.
UrgentLimit(quote) ==
  IF Cash(quote) > 0
  THEN IF LastAttempt THEN 1 ELSE Most(1, Cash(quote) - UrgentConcession)
  ELSE IF LastAttempt THEN structure.width ELSE UrgentConcession - Cash(quote)

RestsAtCap(quote) ==
  /\ Refreshed(quote) /\ LastAttempt /\ order.credit = (Cash(quote) > 0)
  /\ Distance(UrgentLimit(quote), order.limit) < REPRICE_INCREMENT

Concession == Least(REPRICE_INCREMENT * (order.attempt + 1), MAX_TOTAL_CONCESSION)
ConcededLimit == IF order.credit THEN order.limit - Concession ELSE order.limit + Concession

WaitsWhenExhausted(quote, forced, interval) ==
  \/ ~Stale(forced, interval)
  \/ Soft(forced) /\ ~Moved(quote)
  \/ ~Urgent(forced) /\ LastAttempt
  \/ Urgent(forced) /\ (~Refreshed(quote) \/ RestsAtCap(quote))

Waits(quote, forced, interval) ==
  \/ ~Stale(forced, interval)
  \/ Soft(forced) /\ (~Moved(quote) \/ LastAttempt)
  \/ Urgent(forced) /\ (~Refreshed(quote) \/ RestsAtCap(quote))

Abandoned(forced) == ~Urgent(forced) /\ (LastAttempt \/ ConcededLimit <= 0)

AttemptUnchanged(forced) == order.attempt
NextAttempt(forced) ==
  IF Urgent(forced) THEN Least(order.attempt + 1, MAX_REPRICE_ATTEMPTS) ELSE order.attempt + 1

Replacement(quote, forced) ==
  [order EXCEPT !.limit = IF Urgent(forced) THEN UrgentLimit(quote) ELSE ConcededLimit,
                !.credit = IF Urgent(forced) THEN Cash(quote) > 0 ELSE order.credit,
                !.attempt = NextAttempt(forced), !.age = 0]

(***************************************************************************)
(* structure_exit_signal and close_request.                                *)
(***************************************************************************)
CloseDebit(quote) == Most(0, -Cash(quote))
CloseCredit(quote) == Most(0, Cash(quote))

ProfitTaken(quote) ==
  IF structure.credit THEN 2 * CloseDebit(quote) <= structure.opening
  ELSE 100 * CloseCredit(quote) >= structure.opening * structure.target
StopReached(quote) ==
  IF structure.credit THEN CloseDebit(quote) >= 2 * structure.opening
  ELSE 100 * CloseCredit(quote) <= 65 * structure.opening

ExitUrgency(quote, forced) ==
  IF forced \/ hardExit' \/ position = "closing" THEN "urgent"
  ELSE IF overHeld' THEN "soft"
  ELSE IF quote = {} THEN "none"
  ELSE IF ProfitTaken(quote) THEN "soft"
  ELSE IF StopReached(quote) THEN "urgent" ELSE "none"

CloseOrder(quote, urgency) ==
  [side |-> "close", limit |-> Distance(Cash(quote), 0), credit |-> Cash(quote) > 0,
   attempt |-> 0, age |-> 0, urgency |-> urgency]

(***************************************************************************)
(* A cycle finds an order or a structure without one.                      *)
(***************************************************************************)
Wait(quote, forced, interval) ==
  /\ Working /\ Waits(quote, forced, interval)
  /\ order' = [order EXCEPT !.age = Age(interval)]
  /\ UNCHANGED <<position, lost>>

\* At the cutoff, or after its last concession, an entry is only canceled.
Cancel(quote, forced, allowed, interval) ==
  /\ order.side = "entry"
  /\ \/ ~allowed
     \/ ~Waits(quote, forced, interval) /\ Abandoned(forced)
  /\ order' = NoOrder
  /\ UNCHANGED <<position, lost>>

\* A soft close with nothing left to concede is canceled, and the same cycle
\* finds its structure closing without an order.
CancelAndRecover(quote, forced, interval) ==
  /\ Closing
  /\ ~Waits(quote, forced, interval) /\ Abandoned(forced)
  /\ order' = IF Refreshed(quote) THEN CloseOrder(quote, "urgent") ELSE NoOrder
  /\ UNCHANGED <<position, lost>>

Replace(quote, forced, allowed, interval) ==
  /\ Working /\ (Closing \/ allowed)
  /\ ~Waits(quote, forced, interval) /\ ~Abandoned(forced)
  /\ order' = Replacement(quote, forced)
  /\ UNCHANGED <<position, lost>>

\* The cancel is accepted and the replacement is not.
LoseReplacement(quote, forced, allowed, interval) ==
  /\ Working /\ (Closing \/ allowed) /\ lost < MaxLostOrders
  /\ ~Waits(quote, forced, interval) /\ ~Abandoned(forced)
  /\ order' = NoOrder
  /\ lost' = lost + 1
  /\ UNCHANGED position

\* A structure whose entry has just been found filled is left for the next cycle.
Establish ==
  /\ ~Working /\ position = "new"
  /\ position' = "held"
  /\ UNCHANGED <<order, lost>>

Hold(quote, forced) ==
  /\ ~Working /\ position \in {"held", "closing"}
  /\ ExitUrgency(quote, forced) = "none" \/ ~Refreshed(quote)
  /\ UNCHANGED <<position, order, lost>>

Exit(quote, forced) ==
  /\ ~Working /\ position \in {"held", "closing"}
  /\ ExitUrgency(quote, forced) # "none" /\ Refreshed(quote)
  /\ order' = CloseOrder(quote, ExitUrgency(quote, forced))
  /\ position' = "closing"
  /\ UNCHANGED lost

\* The boundaries of a session, once reached, stay behind its cycles.
Cycle(quote, forced, allowed, interval) ==
  /\ Working \/ position \in {"new", "held", "closing"}
  /\ hardExit' \in {hardExit, TRUE} /\ overHeld' \in {overHeld, TRUE}
  /\ allowed => ~hardExit'
  /\ \/ Wait(quote, forced, interval) /\ (Closing \/ allowed)
     \/ Cancel(quote, forced, allowed, interval)
     \/ CancelAndRecover(quote, forced, interval)
     \/ Replace(quote, forced, allowed, interval)
     \/ LoseReplacement(quote, forced, allowed, interval)
     \/ Establish
     \/ Hold(quote, forced)
     \/ Exit(quote, forced)
  /\ UNCHANGED structure

\* The broker fills the working order; one that is canceled may fill no more.
FillOrder ==
  /\ Working
  /\ order' = NoOrder
  /\ position' = IF Closing THEN "none" ELSE "new"
  /\ UNCHANGED <<structure, hardExit, overHeld, lost>>

Over == ~Working /\ position = "none" /\ UNCHANGED repricingVars

Readings == {{}} \cup {{cash} : cash \in structure.quotes}

RepricingNext ==
  \/ SubmitEntry
  \/ \E quote \in Readings, forced, allowed \in BOOLEAN, interval \in Intervals :
       Cycle(quote, forced, allowed, interval)
  \/ FillOrder
  \/ Over

\* Cycles keep coming and, while the market is open, some of them see a net
\* price for every leg; no portfolio exit and no early cutoff helps them.
ReadableCycle ==
  \E cash \in structure.quotes \ {0}, interval \in Intervals :
    Cycle({cash}, FALSE, ~hardExit, interval)

RepricingFairness == WF_repricingVars(ReadableCycle)

RepricingSpec == RepricingInit /\ [][RepricingNext]_repricingVars /\ RepricingFairness

(***************************************************************************)
(* Properties.                                                             *)
(***************************************************************************)
RepricingTypeOK ==
  /\ position \in {"ready", "none", "new", "held", "closing"}
  /\ hardExit \in BOOLEAN /\ overHeld \in BOOLEAN /\ lost \in 0 .. MaxLostOrders
  /\ Working => order.limit > 0 /\ order.attempt \in 0 .. MAX_REPRICE_ATTEMPTS
                /\ order.age \in 0 .. SOFT_STALE_AFTER

\* An entry is bought at most 15 cents worse than the price its risk was
\* awarded for: the concessions add up, each on the limit it replaces.
EntryConcessionsBounded ==
  order.side = "entry" => Distance(order.limit, structure.opening) <= 15

\* An entry order does not work forever: it fills or is canceled for good
\* after two concessions, whatever the quotes do.
EntrySettles == (order.side = "entry") ~> ~(order.side = "entry")

\* Nothing is left that would be worth a replacement: the limit lies less than
\* one increment from one cent of credit, or from the width in debit.
AtCap ==
  Closing /\ Distance(order.limit, IF order.credit THEN 1 ELSE structure.width) < REPRICE_INCREMENT

\* From the hard exit on a structure is closed, or its close comes within an
\* increment of the worst price that makes sense, through soft series, lost
\* replacements, incomplete quotes and closes that turn from credit to debit,
\* as long as cycles that see a net price keep coming (a hard exit ten minutes
\* before the close of an ordinary day may leave too few of them).
HardExitConcedesAll ==
  (hardExit /\ position # "none") ~> (position = "none" \/ AtCap)
===============================================================================
