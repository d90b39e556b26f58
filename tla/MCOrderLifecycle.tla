--------------------------- MODULE MCOrderLifecycle ---------------------------
(***************************************************************************)
(* TLC instances of OrderLifecycle: one or two candidates, one or two      *)
(* legs, and the environments the runs put around the worker.              *)
(***************************************************************************)
EXTENDS OrderLifecycle

CONSTANTS c1, c2, l1, l2

OneCandidate  == {c1}
TwoCandidates == {c1, c2}
OneLeg        == {l1}
TwoLegs       == {l1, l2}

Serial     == {}                            \* the broker moves only between cycles
Reductions == {"reduction"}                 \* ... and assignment takes contracts
Midcycle   == {"midcycle"}                  \* the broker moves at every await
Races      == {"midcycle", "async_cancel", "reduction"}
                                            \* ... and cancels take their time
Crashes    == {"crash"}                     \* the worker dies and restarts
AllFaults  == FaultKinds

BeforeTheLastDay == {"ordinary"}
LastHour         == {"final_hour"}          \* admits what the others do of one candidate
AllWindows       == WindowKinds
=============================================================================
