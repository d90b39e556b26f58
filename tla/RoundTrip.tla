------------------------------- MODULE RoundTrip -------------------------------
(***************************************************************************)
(* The development round trip: one spread is bought, sold again in up to   *)
(* three attempts and the account checked flat, and whatever goes wrong is *)
(* recorded after a look at what is left.  An order that has not filled in *)
(* its time is asked to be canceled and not looked at again, so it may     *)
(* still fill.  Every call may raise and the process may die.              *)
(***************************************************************************)
EXTENDS Naturals, Sequences

CONSTANT MaxTripFaults \* bound: calls that raise

ASSUME RoundTripAssumption == MaxTripFaults \in Nat

VARIABLES
  trip,       \* where the command is
  attempt,    \* close orders placed
  tripOrders, \* the broker's orders: the opening one, then the closes
  spreads,    \* spreads the account holds
  tripRun,    \* the run's row: "none", "started", "completed", "failed"
  tripSwitch, \* the kill switch
  missed,     \* the opening order filled after the look at what was left
  tripFaults  \* calls that raised so far

tripVars == <<trip, attempt, tripOrders, spreads, tripRun, tripSwitch, missed, tripFaults>>

CLOSE_ATTEMPTS == 3
OrderStatuses == {"working", "canceling", "filled", "canceled"}

RoundTripInit ==
  /\ trip = "ready" /\ attempt = 0 /\ tripOrders = <<>> /\ spreads = 0
  /\ tripRun = "none" /\ tripSwitch = FALSE /\ missed = FALSE /\ tripFaults = 0

Latest == tripOrders[Len(tripOrders)]

TakeStep(from, to) == trip = from /\ trip' = to

\* The checks and the run; a flat account with no orders.
BeginTrip ==
  /\ TakeStep("ready", "open")
  /\ tripRun' = "started"
  /\ UNCHANGED <<attempt, tripOrders, spreads, tripSwitch, missed, tripFaults>>

PlaceOpen ==
  /\ TakeStep("open", "opening")
  /\ tripOrders' = <<"working">>
  /\ UNCHANGED <<attempt, spreads, tripRun, tripSwitch, missed, tripFaults>>

\* The broker accepts an order and its answer is lost.
LoseAnswer ==
  /\ trip \in {"open", "close"} /\ tripFaults < MaxTripFaults
  /\ trip' = "incident"
  /\ tripOrders' = Append(tripOrders, "working")
  /\ tripFaults' = tripFaults + 1
  /\ UNCHANGED <<attempt, spreads, tripRun, tripSwitch, missed>>

(***************************************************************************)
(* _wait_for_fill                                                          *)
(***************************************************************************)
OpenFilled ==
  /\ TakeStep("opening", "close") /\ Latest = "filled"
  /\ UNCHANGED <<attempt, tripOrders, spreads, tripRun, tripSwitch, missed, tripFaults>>

OpenFailed ==
  /\ TakeStep("opening", "incident") /\ Latest = "canceled"
  /\ UNCHANGED <<attempt, tripOrders, spreads, tripRun, tripSwitch, missed, tripFaults>>

\* Time is up: a cancel is asked for, which raises when the order is over.
CancelRequested ==
  [tripOrders EXCEPT ![Len(tripOrders)] = IF @ = "working" THEN "canceling" ELSE @]

OpenTimedOut ==
  /\ TakeStep("opening", "incident")
  /\ tripOrders' = CancelRequested
  /\ UNCHANGED <<attempt, spreads, tripRun, tripSwitch, missed, tripFaults>>

(***************************************************************************)
(* _close_with_retries                                                     *)
(***************************************************************************)
PlaceClose ==
  /\ TakeStep("close", "closing")
  /\ tripOrders' = Append(tripOrders, "working")
  /\ attempt' = attempt + 1
  /\ UNCHANGED <<spreads, tripRun, tripSwitch, missed, tripFaults>>

CloseFilled ==
  /\ TakeStep("closing", "flat") /\ Latest = "filled"
  /\ UNCHANGED <<attempt, tripOrders, spreads, tripRun, tripSwitch, missed, tripFaults>>

CloseFailed ==
  /\ TakeStep("closing", "left") /\ Latest = "canceled"
  /\ UNCHANGED <<attempt, tripOrders, spreads, tripRun, tripSwitch, missed, tripFaults>>

CloseAwaitsItsCancel ==
  /\ trip = "closing" /\ Latest = "working"
  /\ tripOrders' = CancelRequested
  /\ UNCHANGED <<trip, attempt, spreads, tripRun, tripSwitch, missed, tripFaults>>

CloseTimedOut ==
  /\ TakeStep("closing", IF Latest = "working" THEN "left" ELSE "incident")
  /\ tripOrders' = CancelRequested
  /\ UNCHANGED <<attempt, spreads, tripRun, tripSwitch, missed, tripFaults>>

\* Nothing left counts as filled; a spread with one leg left is not retried.
MayRetry == attempt < CLOSE_ATTEMPTS

LookAfterClose(legs) ==
  /\ trip = "left" /\ legs \in {1, 2}
  /\ trip' = IF spreads = 0 THEN "flat" ELSE IF legs = 2 /\ MayRetry THEN "close" ELSE "incident"
  /\ UNCHANGED <<attempt, tripOrders, spreads, tripRun, tripSwitch, missed, tripFaults>>

(***************************************************************************)
(* The end: flat and completed, or a look at what is left, the switch, and *)
(* the failure.                                                            *)
(***************************************************************************)
WaitUntilFlat ==
  /\ TakeStep("flat", IF spreads = 0 THEN "complete" ELSE "incident")
  /\ UNCHANGED <<attempt, tripOrders, spreads, tripRun, tripSwitch, missed, tripFaults>>

CompleteTrip ==
  /\ TakeStep("complete", "over")
  /\ tripRun' = "completed"
  /\ UNCHANGED <<attempt, tripOrders, spreads, tripSwitch, missed, tripFaults>>

LookForResidual ==
  /\ TakeStep("incident", IF spreads = 0 THEN "fail" ELSE "latch")
  /\ UNCHANGED <<attempt, tripOrders, spreads, tripRun, tripSwitch, missed, tripFaults>>

LatchAfterRecording ==
  /\ TakeStep("latch", "fail")
  /\ UNCHANGED <<attempt, tripOrders, spreads, tripRun, tripSwitch, missed, tripFaults>>

SetKillSwitch ==
  /\ TakeStep("latch", "fail")
  /\ tripSwitch' = TRUE
  /\ UNCHANGED <<attempt, tripOrders, spreads, tripRun, missed, tripFaults>>

FailTrip ==
  /\ TakeStep("fail", "over")
  /\ tripRun' = "failed"
  /\ UNCHANGED <<attempt, tripOrders, spreads, tripSwitch, missed, tripFaults>>

\* A call raises: into the handler, or out of it.
RaiseInTrip ==
  /\ trip \notin {"ready", "over"} /\ tripFaults < MaxTripFaults
  /\ trip' = IF trip \in {"incident", "latch", "fail"} THEN "over" ELSE "incident"
  /\ tripFaults' = tripFaults + 1
  /\ UNCHANGED <<attempt, tripOrders, spreads, tripRun, tripSwitch, missed>>

CrashTrip ==
  /\ trip \notin {"ready", "over"} /\ tripFaults < MaxTripFaults
  /\ trip' = "over"
  /\ tripFaults' = tripFaults + 1
  /\ UNCHANGED <<attempt, tripOrders, spreads, tripRun, tripSwitch, missed>>

(***************************************************************************)
(* The broker.  A close sells what is held and no more.                    *)
(***************************************************************************)
FillTripOrder(i) ==
  /\ tripOrders[i] \in {"working", "canceling"}
  /\ (i = 1 \/ spreads > 0)
  /\ tripOrders' = [tripOrders EXCEPT ![i] = "filled"]
  /\ spreads' = IF i = 1 THEN spreads + 1 ELSE spreads - 1
  /\ missed' = (missed \/ (i = 1 /\ trip \in {"fail", "over"}))
  /\ UNCHANGED <<trip, attempt, tripRun, tripSwitch, tripFaults>>

EndTripOrder(i) ==
  /\ tripOrders[i] \in {"working", "canceling"}
  /\ tripOrders' = [tripOrders EXCEPT ![i] = "canceled"]
  /\ UNCHANGED <<trip, attempt, spreads, tripRun, tripSwitch, missed, tripFaults>>

TripStep ==
  \/ PlaceOpen \/ OpenFilled \/ OpenFailed \/ OpenTimedOut
  \/ PlaceClose \/ CloseFilled \/ CloseFailed \/ CloseTimedOut
  \/ \E legs \in {1, 2} : LookAfterClose(legs)
  \/ WaitUntilFlat \/ CompleteTrip
  \/ LookForResidual \/ SetKillSwitch \/ FailTrip

TripOver == trip = "over" /\ UNCHANGED tripVars

RoundTripNext ==
  \/ BeginTrip \/ TripStep
  \/ LoseAnswer \/ RaiseInTrip \/ CrashTrip
  \/ \E i \in DOMAIN tripOrders : FillTripOrder(i) \/ EndTripOrder(i)
  \/ TripOver

\* The command goes on; the broker owes neither a fill nor a cancel.
RoundTripFairness == WF_tripVars(TripStep)

RoundTripSpec == RoundTripInit /\ [][RoundTripNext]_tripVars /\ RoundTripFairness

(***************************************************************************)
(* Properties.                                                             *)
(***************************************************************************)
RoundTripTypeOK ==
  /\ attempt \in 0 .. CLOSE_ATTEMPTS
  /\ tripOrders \in Seq(OrderStatuses) /\ Len(tripOrders) <= 1 + CLOSE_ATTEMPTS
  /\ spreads \in {0, 1}
  /\ tripRun \in {"none", "started", "completed", "failed"}
  /\ tripSwitch \in BOOLEAN /\ missed \in BOOLEAN /\ tripFaults \in 0 .. MaxTripFaults

\* The row of a run that has ended tells what is held: nothing, at its end and
\* later, if it completed, although closes asked to be canceled may still
\* work; a spread only under the kill switch if it failed, unless the opening
\* order filled after the last look at the account.
RunTellsExposure ==
  spreads > 0 => /\ tripRun # "completed"
                 /\ tripRun = "failed" => tripSwitch \/ missed

\* The command ends with a broker that neither fills nor cancels anything.
RoundTripEnds == (trip = "open") ~> (trip = "over")
===============================================================================
