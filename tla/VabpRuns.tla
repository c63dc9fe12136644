------------------------------ MODULE VabpRuns ------------------------------
(***************************************************************************)
(* VABP test runs and their trust certificates (app/api/routers/vabp.py    *)
(* over the tables of app/db/models.py:607-653).                           *)
(*                                                                         *)
(* A run is committed and answered first and executed afterwards, by a     *)
(* background task; its results and its completion are one commit.  A      *)
(* report of a run, and the check for an existing certificate, are         *)
(* statements of their own, so that commits of others fit in between.      *)
(***************************************************************************)
EXTENDS Naturals, FiniteSets

CONSTANTS
    Run,
    Certificate,        \* ids of TrustCertificate rows
    CertificateRequest, \* POST /vabp/runs/{run_id}/certificate
    ReportRequest,      \* GET /vabp/runs/{run_id}
    None                \* a column never written, no row

ASSUME NoneAssumption == None \notin Run /\ None \notin Certificate /\ None \notin Nat

Test == {"tls", "identity", "zero_trust", "openapi", "instrumentation"}

VARIABLES
    runs,         \* VabpRun rows
    results,      \* VabpTestResult rows
    certificates, \* TrustCertificate rows
    execution,    \* the background task of each run
    issue, report \* the requests in flight

tables == <<runs, results, certificates>>
vars == <<runs, results, certificates, execution, issue, report>>

\* "good" stands for a target_id that names BYOS or CAPPO.
RunRow == [state : {"absent", "running", "completed"}, good : BOOLEAN,
           total_score : {None} \cup Nat]

Result == [run : Run, test : Test, passed : BOOLEAN, awarded : Nat]

TrustCertificate == [id : Certificate, run : Run, score : Nat, passed_threshold : BOOLEAN]

IssueLocal == [at : {"idle", "checking", "issuing", "answered", "refused", "failed"},
               run : Run \cup {None}, score : {None} \cup Nat,
               answer : Certificate \cup {None}]

ReportLocal == [at : {"idle", "reading", "answered"}, run : Run \cup {None},
                state : {"absent", "running", "completed"}, total_score : {None} \cup Nat,
                results : SUBSET Result]

TypeOK ==
    /\ runs \in [Run -> RunRow]
    /\ results \subseteq Result
    /\ certificates \subseteq TrustCertificate
    /\ execution \in [Run -> {"off", "testing", "committing", "ended", "died"}]
    /\ issue \in [CertificateRequest -> IssueLocal]
    /\ report \in [ReportRequest -> ReportLocal]

Init ==
    /\ runs = [r \in Run |-> [state |-> "absent", good |-> FALSE, total_score |-> None]]
    /\ results = {}
    /\ certificates = {}
    /\ execution = [r \in Run |-> "off"]
    /\ issue = [q \in CertificateRequest |->
                  [at |-> "idle", run |-> None, score |-> None, answer |-> None]]
    /\ report = [q \in ReportRequest |->
                   [at |-> "idle", run |-> None, state |-> "absent", total_score |-> None,
                    results |-> {}]]

-----------------------------------------------------------------------------
(* The synthetic tests *)

MaxScore(test) ==
    CASE test = "tls" -> 100
      [] test \in {"identity", "zero_trust"} -> 200
      [] test \in {"openapi", "instrumentation"} -> 250

Passes(test, good) == test \in {"identity", "zero_trust"} => good

Awarded(test, good) == IF Passes(test, good) THEN MaxScore(test) ELSE 0

TotalScore(good) ==
    Awarded("tls", good) + Awarded("identity", good) + Awarded("zero_trust", good)
    + Awarded("openapi", good) + Awarded("instrumentation", good)

ResultOf(r, test) ==
    [run |-> r, test |-> test, passed |-> Passes(test, runs[r].good),
     awarded |-> Awarded(test, runs[r].good)]

-----------------------------------------------------------------------------
(* Starting and executing a run *)

\* Committed and answered as running; the task starts after the answer.
StartRun(r, good) ==
    /\ runs[r].state = "absent"
    /\ runs' = [runs EXCEPT ![r].state = "running", ![r].good = good]
    /\ execution' = [execution EXCEPT ![r] = "testing"]
    /\ UNCHANGED <<results, certificates, issue, report>>

\* The tests are evaluated, their rows added and the run loaded.
ExecuteTests(r) ==
    /\ execution[r] = "testing"
    /\ execution' = [execution EXCEPT ![r] = "committing"]
    /\ UNCHANGED <<tables, issue, report>>

\* Mutated form: the run is completed first, its results follow later.
CommitRunAlone(r) ==
    /\ execution[r] = "committing"
    /\ results' = IF runs[r].state = "completed"
                  THEN results \cup {ResultOf(r, test) : test \in Test}
                  ELSE results
    /\ execution' = [execution EXCEPT ![r] = IF runs[r].state = "completed" THEN "ended" ELSE @]
    /\ runs' = [runs EXCEPT ![r].state = "completed",
                            ![r].total_score = TotalScore(runs[r].good)]
    /\ UNCHANGED <<certificates, issue, report>>

CommitResults(r) ==
    /\ execution[r] = "committing"
    /\ results' = results \cup {ResultOf(r, test) : test \in Test}
    /\ runs' = [runs EXCEPT ![r].state = "completed",
                            ![r].total_score = TotalScore(runs[r].good)]
    /\ execution' = [execution EXCEPT ![r] = "ended"]
    /\ UNCHANGED <<certificates, issue, report>>

ExecutionStep(r) == ExecuteTests(r) \/ CommitResults(r)

\* An error or a stop of the service rolls the task back, and nothing runs it again.
ExecutionDies(r) ==
    /\ execution[r] \in {"testing", "committing"}
    /\ execution' = [execution EXCEPT ![r] = "died"]
    /\ UNCHANGED <<tables, issue, report>>

-----------------------------------------------------------------------------
(* Reports *)

ReadRun(q, r) ==
    /\ report[q].at = "idle"
    /\ runs[r].state # "absent"
    /\ report' = [report EXCEPT ![q] =
                    [at |-> "reading", run |-> r, state |-> runs[r].state,
                     total_score |-> runs[r].total_score, results |-> {}]]
    /\ UNCHANGED <<tables, execution, issue>>

ReadResults(q) ==
    /\ report[q].at = "reading"
    /\ report' = [report EXCEPT ![q].at = "answered",
                    ![q].results = {t \in results : t.run = report[q].run}]
    /\ UNCHANGED <<tables, execution, issue>>

-----------------------------------------------------------------------------
(* Certificates *)

\* A run that is not completed is refused with 400.
LoadRun(q, r) ==
    /\ issue[q].at = "idle"
    /\ runs[r].state # "absent"
    /\ issue' = [issue EXCEPT ![q].run = r, ![q].score = runs[r].total_score,
                   ![q].at = IF runs[r].state = "completed" THEN "checking" ELSE "refused"]
    /\ UNCHANGED <<tables, execution, report>>

CertificatesOf(r) == {c \in certificates : c.run = r}

NotIssuedYet(q) ==
    /\ issue[q].at = "checking"
    /\ CertificatesOf(issue[q].run) = {}
    /\ issue' = [issue EXCEPT ![q].at = "issuing"]
    /\ UNCHANGED <<tables, execution, report>>

\* The one there is, is the answer; with several the query itself raises an error.
FindIssued(q) ==
    /\ issue[q].at = "checking"
    /\ \/ \E c \in CertificatesOf(issue[q].run) :
            /\ CertificatesOf(issue[q].run) = {c}
            /\ issue' = [issue EXCEPT ![q].at = "answered", ![q].answer = c.id]
       \/ /\ \E c, d \in CertificatesOf(issue[q].run) : c # d
          /\ issue' = [issue EXCEPT ![q].at = "failed"]
    /\ UNCHANGED <<tables, execution, report>>

\* Mutated form: every completed run passes.
AtCompletion(score) == score # None

\* The threshold is 750 of 1000.
PassesThreshold(score) == score # None /\ score >= 750

Issue(q) ==
    /\ issue[q].at = "issuing"
    /\ \E id \in Certificate :
         /\ \A c \in certificates : c.id # id
         /\ certificates' = certificates \cup
              {[id |-> id, run |-> issue[q].run, score |-> issue[q].score,
                passed_threshold |-> PassesThreshold(issue[q].score)]}
         /\ issue' = [issue EXCEPT ![q].at = "answered", ![q].answer = id]
    /\ UNCHANGED <<runs, results, execution, report>>

IssueDies(q) ==
    /\ issue[q].at \in {"checking", "issuing"}
    /\ issue' = [issue EXCEPT ![q].at = "failed"]
    /\ UNCHANGED <<tables, execution, report>>

-----------------------------------------------------------------------------

Next ==
    \/ \E r \in Run : (\E good \in BOOLEAN : StartRun(r, good)) \/ ExecutionStep(r)
                      \/ ExecutionDies(r)
    \/ \E q \in ReportRequest : (\E r \in Run : ReadRun(q, r)) \/ ReadResults(q)
    \/ \E q \in CertificateRequest :
         (\E r \in Run : LoadRun(q, r)) \/ NotIssuedYet(q) \/ FindIssued(q) \/ Issue(q)
         \/ IssueDies(q)

Spec == Init /\ [][Next]_vars

-----------------------------------------------------------------------------
(* What a run's report and certificate say is what was tested *)

\* A report that calls a run completed carries the result of every test, and its
\* total is theirs, although the run and the results are read one after the other
\* while the run may be committing.
CompletedReportHasResults ==
    \A q \in ReportRequest :
      report[q].at = "answered" /\ report[q].state = "completed" =>
        /\ \A test \in Test : \E t \in report[q].results : t.test = test
        /\ report[q].total_score = 1000 <=> \A t \in report[q].results : t.passed

\* A certificate rests on a completed run with all its results stored, bears that
\* run's score, and claims the threshold exactly when every test passed: no failed
\* test can be made up for by the others.
CertificateHonest ==
    \A c \in certificates :
      LET tested == {t \in results : t.run = c.run}
      IN  /\ runs[c.run].state = "completed" /\ c.score = runs[c.run].total_score
          /\ \A test \in Test : \E t \in tested : t.test = test
          /\ c.passed_threshold <=> \A t \in tested : t.passed

=============================================================================
