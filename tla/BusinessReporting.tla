--------------------------- MODULE BusinessReporting ---------------------------
(***************************************************************************)
(* The business report of the last whole interval, built from the equity   *)
(* snapshots of the runs that have ended, polled by Mission Control or     *)
(* submitted to it with retries.  A run's snapshot is stored when it reads *)
(* the account and counts once its passport is: runs end in any order, and *)
(* some never do.  A report is named after its boundary and its status;    *)
(* Mission Control records a name once.  Times are steps of a cycle, and   *)
(* of a snapshot only its time is kept.                                    *)
(***************************************************************************)
EXTENDS Naturals, FiniteSetsExt

CONSTANTS
  ScoringStart,   \* SCORING_STARTS_AT, from the start of the hackathon
  EodSnapshot,    \* EOD_EQUITY_SNAPSHOT_AT
  ReportInterval, \* mission_control_reporting_interval_minutes
  LastReport,     \* bound: the last time reported at
  MaxSnapshots    \* bound: snapshots taken

ASSUME ReportingAssumption ==
  /\ {ScoringStart, EodSnapshot, LastReport, MaxSnapshots} \subseteq Nat
  /\ ReportInterval \in Nat \ {0}
  /\ 0 < ScoringStart /\ ScoringStart < EodSnapshot

VARIABLES
  reportTime, \* now
  snapshots,  \* each snapshot's time, and how its run ended: "started" if it has not
  submission, \* the client: sending or not, its report, its attempts
  delivered,  \* the names of the reports it took for delivered
  recorded    \* the reports Mission Control has recorded

reportingVars == <<reportTime, snapshots, submission, delivered, recorded>>

MAX_ATTEMPTS == 3

NoSubmission == [sending |-> FALSE, report |-> {}, attempt |-> 0]

ReportingInit ==
  /\ reportTime = 0
  /\ snapshots = {}
  /\ submission = NoSubmission
  /\ delivered = {} /\ recorded = {}

(***************************************************************************)
(* The runs that take the snapshots: at most one begins in a step.         *)
(***************************************************************************)
PassTime ==
  /\ reportTime < LastReport
  /\ reportTime' = reportTime + 1
  /\ UNCHANGED <<snapshots, submission, delivered, recorded>>

Snapshot ==
  /\ \A s \in snapshots : s.at # reportTime
  /\ Cardinality(snapshots) < MaxSnapshots
  /\ snapshots' = snapshots \cup {[at |-> reportTime, run |-> "started"]}
  /\ UNCHANGED <<reportTime, submission, delivered, recorded>>

EndRun(s, outcome) ==
  /\ s.run = "started"
  /\ snapshots' = (snapshots \ {s}) \cup {[s EXCEPT !.run = outcome]}
  /\ UNCHANGED <<reportTime, submission, delivered, recorded>>

(***************************************************************************)
(* BusinessReportBuilder.build                                             *)
(***************************************************************************)
\* The account's fingerprint is in the passport, so an official snapshot counts
\* when its run has ended, however; an earlier one when its run has completed.
CountsUnlessFailed(s) == s.run # "failed"
Counts(s) == s.run = "completed" \/ (s.run = "failed" /\ s.at >= ScoringStart)

Official(until) ==
  {s.at : s \in {t \in snapshots : Counts(t) /\ ScoringStart <= t.at /\ t.at <= EodSnapshot
                                   /\ t.at <= until}}
PreScoring(until) ==
  {s.at : s \in {t \in snapshots : Counts(t) /\ t.at < ScoringStart /\ t.at <= until}}

Boundary(origin) == origin + ((reportTime - origin) \div ReportInterval) * ReportInterval

Report(times, period, status) ==
  IF times = {} THEN {} ELSE {[period |-> period, status |-> status, from |-> Max(times)]}

\* No report before the first whole interval; the last one before scoring is
\* repeated until the first of scoring is over.
Built ==
  IF reportTime >= EodSnapshot
  THEN Report(Official(EodSnapshot) \cap {EodSnapshot}, EodSnapshot, "final")
  ELSE IF reportTime < ScoringStart
  THEN IF Boundary(0) = 0 THEN {} ELSE Report(PreScoring(Boundary(0)), Boundary(0), "estimated")
  ELSE IF Boundary(ScoringStart) = ScoringStart
  THEN Report(PreScoring(ScoringStart), ScoringStart, "estimated")
  ELSE Report(Official(Boundary(ScoringStart)), Boundary(ScoringStart), "estimated")

(***************************************************************************)
(* Mission Control polls, or is submitted to.                              *)
(***************************************************************************)
Name(r) == <<r.period, r.status>>
Names == {Name(r) : r \in recorded}
Record(r) == recorded' = IF Name(r) \in Names THEN recorded ELSE recorded \cup {r}

Poll ==
  /\ \E r \in Built : Record(r)
  /\ UNCHANGED <<reportTime, snapshots, submission, delivered>>

\* report_if_due: a report that was delivered last is not due again.
Submit ==
  /\ ~submission.sending
  /\ \E r \in Built : Name(r) \notin delivered
  /\ submission' = [sending |-> TRUE, report |-> Built, attempt |-> 1]
  /\ UNCHANGED <<reportTime, snapshots, delivered, recorded>>

Sent == CHOOSE r \in submission.report : TRUE

Delivered ==
  /\ submission' = NoSubmission
  /\ delivered' = {Name(Sent)}

GivenUp == submission' = NoSubmission /\ UNCHANGED delivered

\* It is recorded, or known already, and the client is told.
Answered ==
  /\ submission.sending
  /\ Record(Sent)
  /\ Delivered
  /\ UNCHANGED <<reportTime, snapshots>>

\* A timeout, an overload or a server error, before or after the recording.
Retries ==
  IF submission.attempt = MAX_ATTEMPTS THEN GivenUp
  ELSE submission' = [submission EXCEPT !.attempt = @ + 1] /\ UNCHANGED delivered

Unanswered(reached) ==
  /\ submission.sending
  /\ IF reached THEN Record(Sent) ELSE UNCHANGED recorded
  /\ Retries
  /\ UNCHANGED <<reportTime, snapshots>>

Refused ==
  /\ submission.sending
  /\ GivenUp
  /\ UNCHANGED <<reportTime, snapshots, recorded>>

\* A new process of the submitter remembers nothing.
RestartSubmitter ==
  /\ delivered # {} /\ ~submission.sending
  /\ delivered' = {}
  /\ UNCHANGED <<reportTime, snapshots, submission, recorded>>

Attempt == Answered \/ Refused \/ \E reached \in BOOLEAN : Unanswered(reached)

Reported == reportTime = LastReport /\ UNCHANGED reportingVars

ReportingNext ==
  \/ PassTime \/ Snapshot
  \/ \E s \in snapshots, outcome \in {"completed", "failed"} : EndRun(s, outcome)
  \/ Poll \/ Submit \/ Attempt \/ RestartSubmitter
  \/ Reported

ReportingSpec == ReportingInit /\ [][ReportingNext]_reportingVars

(***************************************************************************)
(* Properties.                                                             *)
(***************************************************************************)
ReportingTypeOK ==
  /\ reportTime \in 0 .. LastReport
  /\ submission.attempt \in 0 .. MAX_ATTEMPTS
  /\ \A s \in snapshots : s.at \in 0 .. reportTime /\ s.run \in {"started", "completed", "failed"}

\* What is on record never goes back in time: of two reports the one of the
\* later period rests on no older snapshot, although runs end out of order and
\* a submission may be recorded after its successor.
SnapshotsNeverGoBack ==
  \A r1, r2 \in recorded : r1.period < r2.period => r1.from <= r2.from
===============================================================================
