------------------------------- MODULE MCServices -------------------------------
(***************************************************************************)
(* Small instances of the programs whose state the order ledger does not   *)
(* share: the kill switch and its operator, the prices of a structure's    *)
(* orders, the two guarded commands, the business report and the           *)
(* dashboard's broker reads.  They share none with each other either, so a *)
(* behaviour is one of a single program, and the others stay at an initial *)
(* state.                                                                  *)
(***************************************************************************)
EXTENDS OperationalState, Repricing, AssignmentRecovery, RoundTrip, BusinessReporting, WebCache

VARIABLE program \* the one that runs

servicesVars ==
  <<program, vars, repricingVars, recoveryVars, tripVars, reportingVars, webVars>>

\* A profit, a hold, stops whose concessions end at the cap and short of it (at
\* three cents), no net price.
DebitSpread ==
  [credit |-> FALSE, opening |-> 200, width |-> 500, target |-> 135,
   quotes |-> {300, 210, 23, 5, 0}]

\* Profits, one of them for a credit, a hold, a stop, a quote whose concessions
\* end two cents short of the wings, a quote wider than the wings.
Condor ==
  [credit |-> TRUE, opening |-> 100, width |-> 500, target |-> 0,
   quotes |-> {5, -40, -120, -210, -478, -520}]
BothKinds == {DebitSpread, Condor}

\* /api/account outlasts its cached answers in a read, /api/overnight-estimate does not.
Account == [cacheAge |-> 1, keepsFailures |-> FALSE]
Overnight == [cacheAge |-> 3, keepsFailures |-> TRUE]
BothEndpoints == {Account, Overnight}

ServicesInit ==
  /\ program \in {"switch", "repricing", "recovery", "roundtrip", "reporting", "web"}
  /\ Init /\ RepricingInit /\ RecoveryInit /\ RoundTripInit /\ ReportingInit /\ WebInit
  /\ program # "repricing" => structure = Condor
  /\ program # "web" => endpoint = Account
  /\ program # "switch" => turns

Switched(A) ==
  /\ program = "switch" /\ A
  /\ UNCHANGED <<program, repricingVars, recoveryVars, tripVars, reportingVars, webVars>>
Repriced(A) ==
  /\ program = "repricing" /\ A
  /\ UNCHANGED <<program, vars, recoveryVars, tripVars, reportingVars, webVars>>
Recovered(A) ==
  /\ program = "recovery" /\ A
  /\ UNCHANGED <<program, vars, repricingVars, tripVars, reportingVars, webVars>>
RoundTripped(A) ==
  /\ program = "roundtrip" /\ A
  /\ UNCHANGED <<program, vars, repricingVars, recoveryVars, reportingVars, webVars>>
ReportedOn(A) ==
  /\ program = "reporting" /\ A
  /\ UNCHANGED <<program, vars, repricingVars, recoveryVars, tripVars, webVars>>
Served(A) ==
  /\ program = "web" /\ A
  /\ UNCHANGED <<program, vars, repricingVars, recoveryVars, tripVars, reportingVars>>

ServicesNext ==
  \/ Switched(Next)
  \/ Repriced(RepricingNext)
  \/ Recovered(RecoveryNext)
  \/ RoundTripped(RoundTripNext)
  \/ ReportedOn(ReportingNext)
  \/ Served(WebNext)

\* The fairness of each program, for the one that runs.
ServicesSpec ==
  /\ ServicesInit /\ [][ServicesNext]_servicesVars
  /\ WF_servicesVars(Repriced(ReadableCycle))
  /\ \A c \in Commands : WF_servicesVars(Recovered(RecoveryStep(c)))
  /\ WF_servicesVars(RoundTripped(TripStep))
  /\ WF_servicesVars(Served(Tick))
  /\ \A r \in Requests : WF_servicesVars(Served(WebStep(r)))

\* A guarded command comes to an end, whatever the broker does with its orders.
CommandsEnd == RecoveryEnds /\ RoundTripEnds

ServicesTypeOK ==
  RepricingTypeOK /\ RecoveryTypeOK /\ RoundTripTypeOK /\ ReportingTypeOK /\ WebTypeOK
===============================================================================
