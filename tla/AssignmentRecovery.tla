-------------------------- MODULE AssignmentRecovery --------------------------
(***************************************************************************)
(* The guarded command that sells two assigned stock positions: what it    *)
(* checks first, the run whose key lets it happen once, and per symbol the *)
(* intent it stores, the sale it places, the wait for its end, the cancel  *)
(* and the residual it verifies.  Commands may be given more than once and *)
(* at once.  Every call may raise and the process may die: the command     *)
(* then ends where it stands and its run stays started.                    *)
(***************************************************************************)
EXTENDS Naturals

CONSTANTS
  Commands,         \* processes in which an operator gives the command
  Shares,           \* the quantity of each assigned position
  Polls,            \* bound: reads of an order before its cancel, and after it
  MaxBrokenCommands \* bound: commands that a call or a crash ends

ASSUME RecoveryAssumption ==
  Shares \in Nat \ {0} /\ Polls \in Nat /\ MaxBrokenCommands \in Nat

VARIABLES
  recovery,    \* each command: where it is, the symbol it sells, what it has
               \* still to check, the reads made and the status it was answered
  recoveryRun, \* the run with the command's key: "none", "started", "completed"
  intent,      \* the stored row of each symbol's sale: its status
  sale,        \* the broker's order for each symbol: its status and fills
  broken       \* commands broken so far

recoveryVars == <<recovery, recoveryRun, intent, sale, broken>>

RECOVERY_POSITIONS == {"QQQ", "IWM"}
TERMINAL_STATUSES == {"filled", "canceled", "rejected"}
UPDATEABLE == {"recovery_intent_recorded", "accepted", "partially_filled"}
OPEN == {"accepted", "partially_filled", "pending_cancel"}

AnySaleOpen == \E s \in RECOVERY_POSITIONS : sale[s].status \in OPEN
Held(s) == Shares - sale[s].filled

RecoveryInit ==
  /\ recovery = [c \in Commands |-> [pc |-> "idle", symbol |-> "QQQ", todo |-> {},
                                     polls |-> 0, answer |-> "none"]]
  /\ recoveryRun = "none"
  /\ intent = [s \in RECOVERY_POSITIONS |-> "none"]
  /\ sale = [s \in RECOVERY_POSITIONS |-> [status |-> "none", filled |-> 0]]
  /\ broken = 0

At(c, pc) == recovery[c].pc = pc
Goto(c, pc) == recovery' = [recovery EXCEPT ![c].pc = pc]
Sale(c) == sale[recovery[c].symbol]

(***************************************************************************)
(* _recover, up to its run.                                                *)
(***************************************************************************)
GiveRecovery(c) ==
  /\ At(c, "idle")
  /\ recovery' = [recovery EXCEPT ![c].pc = "checking", ![c].todo = {"orders", "positions"}]
  /\ UNCHANGED <<recoveryRun, intent, sale, broken>>

\* The broker is read by calls that run together.
CheckBroker(c, what) ==
  /\ At(c, "checking") /\ what \in recovery[c].todo
  /\ recovery' =
       [recovery EXCEPT
          ![c].todo = @ \ {what},
          ![c].pc = IF CASE what = "orders" -> AnySaleOpen
                         [] what = "positions" ->
                              \E s \in RECOVERY_POSITIONS : Held(s) # Shares
                    THEN "ended" ELSE @]
  /\ UNCHANGED <<recoveryRun, intent, sale, broken>>

BeginRecovery(c) ==
  /\ At(c, "checking") /\ recovery[c].todo = {}
  /\ Goto(c, IF recoveryRun = "none" THEN "intend" ELSE "ended")
  /\ recoveryRun' = IF recoveryRun = "none" THEN "started" ELSE recoveryRun
  /\ UNCHANGED <<intent, sale, broken>>

(***************************************************************************)
(* One symbol.                                                             *)
(***************************************************************************)
IntentAfterTheAnswer(c) ==
  /\ At(c, "intend")
  /\ Goto(c, "place")
  /\ UNCHANGED <<recoveryRun, intent, sale, broken>>

PersistIntent(c) ==
  /\ At(c, "intend")
  /\ intent' = [intent EXCEPT ![recovery[c].symbol] = "recovery_intent_recorded"]
  /\ Goto(c, "place")
  /\ UNCHANGED <<recoveryRun, sale, broken>>

\* The broker may answer with an order that is over already.
PlaceSale(c, answer) ==
  /\ At(c, "place")
  /\ sale' = [sale EXCEPT ![recovery[c].symbol] =
                [status |-> answer, filled |-> IF answer = "filled" THEN Shares ELSE 0]]
  /\ recovery' = [recovery EXCEPT ![c].pc = "placed", ![c].answer = answer]
  /\ UNCHANGED <<recoveryRun, intent, broken>>

\* update_assignment_recovery_order: a row that is terminal is not touched again.
UpdateRow(c, status, next) ==
  IF intent[recovery[c].symbol] \in UPDATEABLE
  THEN /\ intent' = [intent EXCEPT ![recovery[c].symbol] = status]
       /\ Goto(c, next)
  ELSE Goto(c, "ended") /\ UNCHANGED intent

RecordAnswer(c) ==
  /\ At(c, "placed")
  /\ UpdateRow(c, recovery[c].answer, "poll")
  /\ UNCHANGED <<recoveryRun, sale, broken>>

\* _terminal_order: reads until the order is over, a cancel, and as many again.
PollSale(c, phase, next) ==
  /\ At(c, phase)
  /\ recovery' =
       [recovery EXCEPT
          ![c].polls = IF Sale(c).status \notin TERMINAL_STATUSES /\ @ < Polls
                       THEN @ + 1 ELSE 0,
          ![c].pc = IF Sale(c).status \in TERMINAL_STATUSES THEN "terminal"
                    ELSE IF recovery[c].polls < Polls THEN @ ELSE next]
  /\ UNCHANGED <<recoveryRun, intent, sale, broken>>

\* A cancel comes too late for an order that is over.
CancelSale(c) ==
  /\ At(c, "cancel")
  /\ IF Sale(c).status \in OPEN
     THEN /\ sale' = [sale EXCEPT ![recovery[c].symbol].status = "pending_cancel"]
          /\ Goto(c, "repoll")
     ELSE Goto(c, "ended") /\ UNCHANGED sale
  /\ UNCHANGED <<recoveryRun, intent, broken>>

RecordTerminal(c) ==
  /\ At(c, "terminal")
  /\ UpdateRow(c, Sale(c).status, "quiet")
  /\ UNCHANGED <<recoveryRun, sale, broken>>

\* _wait_for_no_open_orders
AwaitQuiet(c) ==
  /\ At(c, "quiet")
  /\ Goto(c, IF AnySaleOpen THEN "ended" ELSE "residual")
  /\ UNCHANGED <<recoveryRun, intent, sale, broken>>

SaleIsOver(c) == Sale(c).status \in TERMINAL_STATUSES

\* It filled exactly, and what it leaves is what the next symbol sells.
SoldExactly(c) ==
  /\ Sale(c).status = "filled" /\ Sale(c).filled = Shares
  /\ \A s \in RECOVERY_POSITIONS :
       Held(s) = IF recovery[c].symbol = "QQQ" /\ s = "IWM" THEN Shares ELSE 0

VerifyResidual(c) ==
  /\ At(c, "residual")
  /\ recovery' =
       [recovery EXCEPT
          ![c].symbol = "IWM",
          ![c].pc = IF ~SoldExactly(c) THEN "ended"
                    ELSE IF recovery[c].symbol = "QQQ" THEN "intend" ELSE "final"]
  /\ UNCHANGED <<recoveryRun, intent, sale, broken>>

CompleteRecovery(c) ==
  /\ At(c, "final")
  /\ recoveryRun' =
       IF AnySaleOpen \/ (\E s \in RECOVERY_POSITIONS : Held(s) # 0)
       THEN recoveryRun ELSE "completed"
  /\ Goto(c, "ended")
  /\ UNCHANGED <<intent, sale, broken>>

RecoveryStep(c) ==
  \/ \E what \in {"orders", "positions"} : CheckBroker(c, what)
  \/ BeginRecovery(c)
  \/ PersistIntent(c)
  \/ \E answer \in {"accepted", "filled", "rejected"} : PlaceSale(c, answer)
  \/ RecordAnswer(c)
  \/ PollSale(c, "poll", "cancel")
  \/ CancelSale(c)
  \/ PollSale(c, "repoll", "ended")
  \/ RecordTerminal(c)
  \/ AwaitQuiet(c)
  \/ VerifyResidual(c)
  \/ CompleteRecovery(c)

BreakRecovery(c) ==
  /\ recovery[c].pc \notin {"idle", "ended"} /\ broken < MaxBrokenCommands
  /\ broken' = broken + 1
  /\ Goto(c, "ended")
  /\ UNCHANGED <<recoveryRun, intent, sale>>

(***************************************************************************)
(* The broker fills share by share, takes a cancel, or ends an order.      *)
(***************************************************************************)
FillSale(s) ==
  /\ sale[s].status \in OPEN /\ sale[s].filled < Shares
  /\ sale' = [sale EXCEPT
                ![s].filled = @ + 1,
                ![s].status = IF sale[s].filled + 1 = Shares THEN "filled"
                              ELSE IF @ = "accepted" THEN "partially_filled" ELSE @]
  /\ UNCHANGED <<recovery, recoveryRun, intent, broken>>

EndSale(s) ==
  /\ sale[s].status \in OPEN
  /\ sale' = [sale EXCEPT ![s].status = "canceled"]
  /\ UNCHANGED <<recovery, recoveryRun, intent, broken>>

RecoveryOver ==
  (\A c \in Commands : At(c, "ended")) /\ UNCHANGED recoveryVars

RecoveryNext ==
  \/ \E c \in Commands : GiveRecovery(c) \/ RecoveryStep(c) \/ BreakRecovery(c)
  \/ \E s \in RECOVERY_POSITIONS : FillSale(s) \/ EndSale(s)
  \/ RecoveryOver

\* A command that runs takes its next step; the broker owes nothing.
RecoveryFairness == \A c \in Commands : WF_recoveryVars(RecoveryStep(c))

RecoverySpec == RecoveryInit /\ [][RecoveryNext]_recoveryVars /\ RecoveryFairness

(***************************************************************************)
(* Properties.                                                             *)
(***************************************************************************)
RecoveryTypeOK ==
  /\ \A c \in Commands :
       /\ recovery[c].symbol \in RECOVERY_POSITIONS
       /\ recovery[c].polls \in 0 .. Polls
       /\ recovery[c].todo \subseteq {"orders", "positions"}
  /\ recoveryRun \in {"none", "started", "completed"}
  /\ \A s \in RECOVERY_POSITIONS :
       /\ intent[s] \in {"none", "recovery_intent_recorded", "accepted",
                        "partially_filled", "filled", "canceled", "rejected"}
       /\ sale[s].status \in {"none", "accepted", "partially_filled", "pending_cancel",
                             "filled", "canceled", "rejected"}
       /\ sale[s].filled \in 0 .. Shares
  /\ broken \in 0 .. MaxBrokenCommands

\* Whenever the command dies, a sale the broker may hold has its intent stored
\* under a run that keeps the command from being given again.
SaleHasItsIntent ==
  \A s \in RECOVERY_POSITIONS :
    sale[s].status # "none" => intent[s] # "none" /\ recoveryRun # "none"

\* The second position is not offered while a share of the first one is left,
\* whoever gave the command and however the first sale ended.
SecondSaleAfterFirst == sale["IWM"].status # "none" => Held("QQQ") = 0

\* A command comes to an end although the broker may never fill, cancel or
\* end its orders.
RecoveryEnds == \A c \in Commands : At(c, "checking") ~> At(c, "ended")
===============================================================================
