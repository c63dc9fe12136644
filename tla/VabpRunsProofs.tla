--------------------------- MODULE VabpRunsProofs ---------------------------
(***************************************************************************)
(* Proofs about VabpRuns for any number of runs, reports and certificates: *)
(* what a report or a certificate says of a run is what its stored results *)
(* say.                                                                    *)
(***************************************************************************)
EXTENDS VabpRuns, TLAPS

-----------------------------------------------------------------------------
(* Scores *)

LEMMA TotalOfGood == TotalScore(TRUE) = 1000
BY DEF TotalScore, Awarded, Passes, MaxScore

LEMMA TotalOfBad == TotalScore(FALSE) = 600
BY DEF TotalScore, Awarded, Passes, MaxScore

\* Only a target that passes every test gets all points, and only it reaches 750.
LEMMA TotalTells ==
    ASSUME NEW good \in BOOLEAN
    PROVE  /\ TotalScore(good) \in Nat
           /\ TotalScore(good) = 1000 <=> good
           /\ TotalScore(good) >= 750 <=> good
<1>1. CASE good = TRUE
  <2>1. TotalScore(good) = 1000
    BY <1>1, TotalOfGood
  <2> QED  BY <1>1, <2>1
<1>2. CASE good = FALSE
  <2>1. TotalScore(good) = 600
    BY <1>2, TotalOfBad
  <2> QED  BY <1>2, <2>1
<1> QED  BY <1>1, <1>2

LEMMA PassesTells ==
    ASSUME NEW good \in BOOLEAN
    PROVE  good <=> \A test \in Test : Passes(test, good)
BY DEF Test, Passes

LEMMA ResultType ==
    ASSUME NEW r \in Run, NEW test \in Test, runs[r].good \in BOOLEAN
    PROVE  ResultOf(r, test) \in Result
<1>1. MaxScore(test) \in Nat
  BY DEF Test, MaxScore
<1>2. Awarded(test, runs[r].good) \in Nat /\ Passes(test, runs[r].good) \in BOOLEAN
  BY <1>1 DEF Awarded, Passes
<1> QED  BY <1>2 DEF ResultOf, Result

-----------------------------------------------------------------------------
(* The inductive invariant *)

\* The results of r among the rows are exactly those of its tests.
Tested(r, rows) ==
    /\ \A test \in Test : \E t \in rows : t.run = r /\ t.test = test
    /\ \A t \in rows : t.run = r => t.passed = Passes(t.test, runs[r].good)

\* The total score r has when it is completed.
Completed(r) == runs[r].state = "completed" /\ runs[r].total_score = TotalScore(runs[r].good)

RunsTested ==
    /\ \A r \in Run : runs[r].state = "completed" => Completed(r) /\ Tested(r, results)
    /\ \A t \in results : runs[t.run].state = "completed"

ReportsTrue ==
    \A q \in ReportRequest : LET p == report[q]
                             IN  p.at # "idle" /\ p.state = "completed" =>
                                   /\ p.run \in Run /\ Completed(p.run)
                                   /\ p.total_score = runs[p.run].total_score
                                   /\ p.at = "answered" =>
                                        /\ Tested(p.run, p.results)
                                        /\ \A t \in p.results : t.run = p.run

IssuesTrue ==
    \A q \in CertificateRequest :
      issue[q].at \in {"checking", "issuing"} =>
        /\ issue[q].run \in Run /\ Completed(issue[q].run)
        /\ issue[q].score = runs[issue[q].run].total_score

CertificatesTrue ==
    \A c \in certificates :
      /\ Completed(c.run) /\ c.score = runs[c.run].total_score
      /\ c.passed_threshold = PassesThreshold(c.score)

IndInv == TypeOK /\ RunsTested /\ ReportsTrue /\ IssuesTrue /\ CertificatesTrue

LEMMA InitIndInv == Init => IndInv
BY DEF Init, IndInv, TypeOK, RunRow, IssueLocal, ReportLocal, RunsTested, ReportsTrue,
       IssuesTrue, CertificatesTrue

\* What is said of completed runs stays true while no completed run changes.
LEMMA CompletedKept ==
    ASSUME IndInv, \A r \in Run : runs[r].state = "completed" => runs'[r] = runs[r],
           UNCHANGED <<certificates, issue, report>>
    PROVE  ReportsTrue' /\ IssuesTrue' /\ CertificatesTrue'
<1>1. \A r \in Run : Completed(r) => Completed(r)' /\ runs'[r] = runs[r]
  BY DEF Completed
<1>2. ReportsTrue'
  BY <1>1 DEF IndInv, ReportsTrue, Tested
<1>3. IssuesTrue'
  BY <1>1 DEF IndInv, IssuesTrue
<1>4. \A c \in certificates : c.run \in Run
  BY DEF IndInv, TypeOK, TrustCertificate
<1>5. CertificatesTrue'
  BY <1>1, <1>4 DEF IndInv, CertificatesTrue
<1> QED  BY <1>2, <1>3, <1>5

LEMMA StartIndInv ==
    ASSUME IndInv, NEW r \in Run, NEW good \in BOOLEAN, StartRun(r, good) PROVE IndInv'
<1>1. TypeOK'
  BY DEF IndInv, TypeOK, StartRun, RunRow
<1>2. \A s \in Run : runs'[s] = runs[s] \/ (s = r /\ runs'[s].state = "running")
  BY DEF IndInv, TypeOK, StartRun, RunRow
<1>3. \A s \in Run : runs[s].state = "completed" => runs'[s] = runs[s]
  BY DEF IndInv, TypeOK, StartRun, RunRow
<1>4. \A t \in results : t.run \in Run
  BY DEF IndInv, TypeOK, Result
<1>5. RunsTested'
  <2>1. results' = results
    BY DEF StartRun
  <2>2. ASSUME NEW s \in Run, runs'[s].state = "completed"
        PROVE  Completed(s)' /\ Tested(s, results)'
    <3>1. runs'[s] = runs[s]
      BY <2>2, <1>2
    <3> QED  BY <2>1, <2>2, <3>1 DEF IndInv, RunsTested, Completed, Tested
  <2>3. \A t \in results : runs'[t.run].state = "completed"
    BY <1>3, <1>4 DEF IndInv, RunsTested
  <2> QED  BY <2>1, <2>2, <2>3 DEF RunsTested
<1>6. UNCHANGED <<certificates, issue, report>>
  BY DEF StartRun
<1> QED  BY <1>1, <1>3, <1>5, <1>6, CompletedKept DEF IndInv

LEMMA CommitIndInv ==
    ASSUME IndInv, NEW r \in Run, CommitResults(r) PROVE IndInv'
<1>1. runs[r].good \in BOOLEAN /\ TotalScore(runs[r].good) \in Nat
  BY TotalTells DEF IndInv, TypeOK, RunRow
<1>2. TypeOK'
  <2>1. results' \subseteq Result
    BY <1>1, ResultType DEF IndInv, TypeOK, CommitResults
  <2>2. runs' \in [Run -> RunRow]
    BY <1>1 DEF IndInv, TypeOK, CommitResults, RunRow
  <2> QED  BY <2>1, <2>2 DEF IndInv, TypeOK, CommitResults
<1>3. \A s \in Run \ {r} : runs'[s] = runs[s]
  BY DEF IndInv, TypeOK, CommitResults
<1>4. /\ runs'[r].state = "completed" /\ runs'[r].good = runs[r].good
      /\ runs'[r].total_score = TotalScore(runs[r].good)
  BY DEF IndInv, TypeOK, CommitResults, RunRow
<1>5. runs[r].state = "completed" => runs'[r] = runs[r]
  BY <1>4, <1>2 DEF IndInv, TypeOK, RunRow, RunsTested, Completed
<1>6. \A t \in results : t.run \in Run
  BY DEF IndInv, TypeOK, Result
<1>7. RunsTested'
  <2>1. ASSUME NEW s \in Run, runs'[s].state = "completed"
        PROVE  Completed(s)' /\ Tested(s, results)'
    <3>1. CASE s = r
      <4>1. Completed(s)'
        BY <3>1, <1>4 DEF Completed
      <4>2. \A test \in Test : ResultOf(r, test) \in results' /\ ResultOf(r, test).run = r
                               /\ ResultOf(r, test).test = test
        BY DEF CommitResults, ResultOf
      <4>3. ASSUME NEW t \in results', t.run = r
            PROVE  t.passed = Passes(t.test, runs'[r].good)
        <5>1. CASE t \in results
          BY <4>3, <5>1, <1>4 DEF IndInv, RunsTested, Tested
        <5>2. CASE \E test \in Test : t = ResultOf(r, test)
          BY <5>2, <1>4 DEF ResultOf
        <5> QED  BY <5>1, <5>2 DEF CommitResults
      <4> QED  BY <3>1, <4>1, <4>2, <4>3 DEF Tested
    <3>2. CASE s # r
      <4>1. runs'[s] = runs[s] /\ runs[s].state = "completed"
        BY <2>1, <3>2, <1>3
      <4>2. Completed(s) /\ Tested(s, results)
        BY <4>1 DEF IndInv, RunsTested
      <4>3. \A t \in results' : t.run = s => t \in results
        BY <3>2 DEF CommitResults, ResultOf
      <4>4. results \subseteq results'
        BY DEF CommitResults
      <4> QED  BY <4>1, <4>2, <4>3, <4>4 DEF Completed, Tested
    <3> QED  BY <3>1, <3>2
  <2>2. ASSUME NEW t \in results' PROVE runs'[t.run].state = "completed"
    <3>1. CASE t \in results
      BY <3>1, <1>3, <1>4, <1>6 DEF IndInv, RunsTested
    <3>2. CASE t.run = r
      BY <3>2, <1>4
    <3> QED  BY <3>1, <3>2 DEF CommitResults, ResultOf
  <2> QED  BY <2>1, <2>2 DEF RunsTested
<1>8. UNCHANGED <<certificates, issue, report>>
  BY DEF CommitResults
<1> QED  BY <1>2, <1>3, <1>5, <1>7, <1>8, CompletedKept DEF IndInv

\* Steps that leave the runs and their results alone.
LEMMA TasksIndInv ==
    ASSUME IndInv, NEW r \in Run, ExecuteTests(r) \/ ExecutionDies(r) PROVE IndInv'
<1>1. TypeOK'
  BY DEF IndInv, TypeOK, ExecuteTests, ExecutionDies, tables
<1>2. UNCHANGED <<runs, results, certificates, issue, report>>
  BY DEF ExecuteTests, ExecutionDies, tables
<1> QED  BY <1>1, <1>2, CompletedKept DEF IndInv, RunsTested, Completed, Tested

LEMMA ReportIndInv ==
    ASSUME IndInv, NEW q \in ReportRequest, (\E r \in Run : ReadRun(q, r)) \/ ReadResults(q)
    PROVE  IndInv'
<1>1. UNCHANGED <<runs, results, certificates, execution, issue>>
  BY DEF ReadRun, ReadResults, tables
<1>2. TypeOK'
  <2>1. ASSUME NEW r \in Run, ReadRun(q, r) PROVE report' \in [ReportRequest -> ReportLocal]
    <3>1. runs[r].state \in {"absent", "running", "completed"}
          /\ runs[r].total_score \in {None} \cup Nat
      BY DEF IndInv, TypeOK, RunRow
    <3> QED  BY <2>1, <3>1 DEF IndInv, TypeOK, ReadRun, ReportLocal
  <2>2. ASSUME ReadResults(q) PROVE report' \in [ReportRequest -> ReportLocal]
    BY <2>2 DEF IndInv, TypeOK, ReadResults, ReportLocal
  <2> QED  BY <1>1, <2>1, <2>2 DEF IndInv, TypeOK
<1>3. RunsTested' /\ IssuesTrue' /\ CertificatesTrue'
  BY <1>1 DEF IndInv, RunsTested, IssuesTrue, CertificatesTrue, Completed, Tested
<1>4. ReportsTrue'
  <2> SUFFICES ASSUME NEW p \in ReportRequest, report'[p].at # "idle",
                      report'[p].state = "completed"
               PROVE  /\ report'[p].run \in Run /\ Completed(report'[p].run)
                      /\ report'[p].total_score = runs[report'[p].run].total_score
                      /\ report'[p].at = "answered" =>
                           /\ Tested(report'[p].run, report'[p].results)
                           /\ \A t \in report'[p].results : t.run = report'[p].run
    BY <1>1 DEF ReportsTrue, Completed, Tested
  <2>1. CASE p # q
    <3>1. report'[p] = report[p]
      BY <2>1 DEF ReadRun, ReadResults, IndInv, TypeOK
    <3> QED  BY <3>1 DEF IndInv, ReportsTrue
  <2>2. ASSUME p = q, NEW r \in Run, ReadRun(q, r)
        PROVE  /\ report'[p].run = r /\ report'[p].total_score = runs[r].total_score
               /\ report'[p].at = "reading" /\ Completed(r)
    BY <2>2 DEF ReadRun, IndInv, TypeOK, RunsTested
  <2>3. CASE p = q /\ ReadResults(q)
    <3> DEFINE s == report[q].run
    <3>1. /\ report[q].at = "reading" /\ report'[q].run = s
          /\ report'[q].state = report[q].state /\ report'[q].total_score = report[q].total_score
          /\ report'[q].results = {t \in results : t.run = s}
      BY <2>3 DEF ReadResults, IndInv, TypeOK, ReportLocal
    <3>2. s \in Run /\ Completed(s) /\ report[q].total_score = runs[s].total_score
      BY <2>3, <3>1 DEF IndInv, ReportsTrue
    <3>3. Tested(s, results)
      BY <3>2 DEF IndInv, RunsTested, Completed
    <3>4. Tested(s, {t \in results : t.run = s})
      BY <3>3 DEF Tested
    <3> QED  BY <2>3, <3>1, <3>2, <3>4
  <2> QED  BY <2>1, <2>2, <2>3
<1> QED  BY <1>2, <1>3, <1>4 DEF IndInv

LEMMA LoadIndInv ==
    ASSUME IndInv, NEW q \in CertificateRequest,
           (\E r \in Run : LoadRun(q, r)) \/ NotIssuedYet(q) \/ FindIssued(q) \/ IssueDies(q)
    PROVE  IndInv'
<1>1. UNCHANGED <<runs, results, certificates, execution, report>>
  BY DEF LoadRun, NotIssuedYet, FindIssued, IssueDies, tables
<1>2. TypeOK'
  <2>1. \A c \in certificates : c.id \in Certificate
    BY DEF IndInv, TypeOK, TrustCertificate
  <2>2. issue' \in [CertificateRequest -> IssueLocal]
    <3>1. CASE \E r \in Run : LoadRun(q, r)
      <4>1. PICK r \in Run : LoadRun(q, r)
        BY <3>1
      <4>2. runs[r].total_score \in {None} \cup Nat
        BY DEF IndInv, TypeOK, RunRow
      <4>3. issue \in [CertificateRequest -> IssueLocal]
        BY DEF IndInv, TypeOK
      <4>4. PICK at \in {"checking", "refused"} :
              issue' = [issue EXCEPT ![q].at = at, ![q].run = r,
                                     ![q].score = runs[r].total_score]
        BY <4>1, <4>3 DEF LoadRun, IssueLocal
      <4> QED  BY <4>2, <4>3, <4>4 DEF IssueLocal
    <3>2. CASE NotIssuedYet(q) \/ IssueDies(q)
      BY <3>2 DEF IndInv, TypeOK, NotIssuedYet, IssueDies, IssueLocal
    <3>3. CASE FindIssued(q)
      BY <3>3, <2>1 DEF IndInv, TypeOK, FindIssued, CertificatesOf, IssueLocal
    <3> QED  BY <3>1, <3>2, <3>3
  <2> QED  BY <1>1, <2>2 DEF IndInv, TypeOK
<1>3. RunsTested' /\ ReportsTrue' /\ CertificatesTrue'
  BY <1>1 DEF IndInv, RunsTested, ReportsTrue, CertificatesTrue, Completed, Tested
<1>4. IssuesTrue'
  <2> SUFFICES ASSUME NEW p \in CertificateRequest, issue'[p].at \in {"checking", "issuing"}
               PROVE  /\ issue'[p].run \in Run /\ Completed(issue'[p].run)
                      /\ issue'[p].score = runs[issue'[p].run].total_score
    BY <1>1 DEF IssuesTrue, Completed
  <2>1. CASE p # q
    <3>1. issue'[p] = issue[p]
      BY <2>1 DEF LoadRun, NotIssuedYet, FindIssued, IssueDies, IndInv, TypeOK
    <3> QED  BY <3>1 DEF IndInv, IssuesTrue
  <2>2. CASE p = q /\ \E r \in Run : LoadRun(q, r)
    <3>1. PICK r \in Run : LoadRun(q, r)
      BY <2>2
    <3>2. /\ issue'[q].run = r /\ issue'[q].score = runs[r].total_score
          /\ runs[r].state = "completed"
      <4>1. CASE runs[r].state = "completed"
        BY <2>2, <3>1, <4>1 DEF LoadRun, IndInv, TypeOK, IssueLocal
      <4>2. CASE runs[r].state # "completed"
        BY <2>2, <3>1, <4>2 DEF LoadRun, IndInv, TypeOK, IssueLocal
      <4> QED  BY <4>1, <4>2
    <3> QED  BY <2>2, <3>2 DEF IndInv, RunsTested
  <2>3. CASE p = q /\ (NotIssuedYet(q) \/ FindIssued(q) \/ IssueDies(q))
    BY <2>3 DEF NotIssuedYet, FindIssued, IssueDies, IndInv, TypeOK, IssuesTrue, IssueLocal
  <2> QED  BY <2>1, <2>2, <2>3
<1> QED  BY <1>2, <1>3, <1>4 DEF IndInv

LEMMA IssueIndInv ==
    ASSUME IndInv, NEW q \in CertificateRequest, Issue(q) PROVE IndInv'
<1>1. PICK id \in Certificate :
        /\ certificates' = certificates \cup
             {[id |-> id, run |-> issue[q].run, score |-> issue[q].score,
               passed_threshold |-> PassesThreshold(issue[q].score)]}
        /\ issue' = [issue EXCEPT ![q].at = "answered", ![q].answer = id]
  BY DEF Issue
<1>2. UNCHANGED <<runs, results, execution, report>>
  BY DEF Issue
<1>3. /\ issue[q].run \in Run /\ Completed(issue[q].run)
      /\ issue[q].score = runs[issue[q].run].total_score
  BY DEF Issue, IndInv, IssuesTrue
<1>4. issue[q].score \in Nat /\ PassesThreshold(issue[q].score) \in BOOLEAN
  BY <1>3, TotalTells DEF Completed, IndInv, TypeOK, RunRow, PassesThreshold
<1>5. TypeOK'
  <2>1. certificates' \subseteq TrustCertificate
    BY <1>1, <1>3, <1>4 DEF IndInv, TypeOK, TrustCertificate
  <2>2. issue' \in [CertificateRequest -> IssueLocal]
    BY <1>1 DEF IndInv, TypeOK, IssueLocal
  <2> QED  BY <1>2, <2>1, <2>2 DEF IndInv, TypeOK
<1>6. RunsTested' /\ ReportsTrue'
  BY <1>2 DEF IndInv, RunsTested, ReportsTrue, Completed, Tested
<1>7. IssuesTrue'
  BY <1>1, <1>2 DEF IndInv, TypeOK, IssuesTrue, Completed, IssueLocal
<1>8. CertificatesTrue'
  BY <1>1, <1>2, <1>3 DEF IndInv, CertificatesTrue, Completed
<1> QED  BY <1>5, <1>6, <1>7, <1>8 DEF IndInv

LEMMA NextIndInv == IndInv /\ [Next]_vars => IndInv'
<1> SUFFICES ASSUME IndInv, [Next]_vars PROVE IndInv'
  OBVIOUS
<1>1. CASE UNCHANGED vars
  BY <1>1 DEF IndInv, TypeOK, RunsTested, ReportsTrue, IssuesTrue, CertificatesTrue,
              Completed, Tested, vars
<1> QED
  BY <1>1, StartIndInv, CommitIndInv, TasksIndInv, ReportIndInv, LoadIndInv, IssueIndInv
  DEF Next, ExecutionStep

\* In every reachable state all parts of the invariant hold.
LEMMA SpecIndInv == Spec => []IndInv
BY InitIndInv, NextIndInv, PTL DEF Spec

-----------------------------------------------------------------------------
(* The theorems *)

\* Every variable keeps its type.
THEOREM TypeCorrect == Spec => []TypeOK
<1>1. IndInv => TypeOK
  BY DEF IndInv
<1> QED  BY <1>1, SpecIndInv, PTL

\* However reports interleave with executions: a completed report is complete.
THEOREM ReportsComplete == Spec => []CompletedReportHasResults
<1>1. IndInv => CompletedReportHasResults
  <2> SUFFICES ASSUME IndInv, NEW q \in ReportRequest, report[q].at = "answered",
                      report[q].state = "completed"
               PROVE  /\ \A test \in Test : \E t \in report[q].results : t.test = test
                      /\ report[q].total_score = 1000 <=> \A t \in report[q].results : t.passed
    BY DEF CompletedReportHasResults
  <2> DEFINE r == report[q].run
  <2>1. /\ r \in Run /\ report[q].total_score = TotalScore(runs[r].good)
        /\ Tested(r, report[q].results) /\ \A t \in report[q].results : t.run = r
    BY DEF IndInv, ReportsTrue, Completed
  <2>2. runs[r].good \in BOOLEAN /\ \A t \in report[q].results : t.test \in Test
    BY <2>1 DEF IndInv, TypeOK, RunRow, ReportLocal, Result
  <2>3. runs[r].good <=> \A t \in report[q].results : t.passed
    BY <2>1, <2>2, PassesTells DEF Tested
  <2> QED  BY <2>1, <2>2, <2>3, TotalTells DEF Tested
<1> QED  BY <1>1, SpecIndInv, PTL

\* However many requests race for it: a certificate says what was tested.
THEOREM CertificatesHonest == Spec => []CertificateHonest
<1>1. IndInv => CertificateHonest
  <2> SUFFICES ASSUME IndInv, NEW c \in certificates
               PROVE  /\ runs[c.run].state = "completed" /\ c.score = runs[c.run].total_score
                      /\ \A test \in Test :
                           \E t \in {u \in results : u.run = c.run} : t.test = test
                      /\ c.passed_threshold <=>
                           \A t \in {u \in results : u.run = c.run} : t.passed
    BY DEF CertificateHonest
  <2>1. c.run \in Run /\ runs[c.run].good \in BOOLEAN
    BY DEF IndInv, TypeOK, TrustCertificate, RunRow
  <2>2. /\ runs[c.run].state = "completed" /\ c.score = runs[c.run].total_score
        /\ c.score = TotalScore(runs[c.run].good)
        /\ c.passed_threshold = PassesThreshold(c.score)
    BY DEF IndInv, CertificatesTrue, Completed
  <2>3. Tested(c.run, results)
    BY <2>1, <2>2 DEF IndInv, RunsTested
  <2>4. c.score \in Nat /\ (c.score >= 750 <=> runs[c.run].good)
    BY <2>1, <2>2, TotalTells
  <2>5. c.passed_threshold <=> runs[c.run].good
    BY <2>2, <2>4, NoneAssumption DEF PassesThreshold
  <2>6. \A t \in results : t.test \in Test
    BY DEF IndInv, TypeOK, Result
  <2>7. runs[c.run].good <=> \A t \in {u \in results : u.run = c.run} : t.passed
    BY <2>1, <2>3, <2>6, PassesTells DEF Tested
  <2> QED  BY <2>2, <2>3, <2>5, <2>7 DEF Tested
<1> QED  BY <1>1, SpecIndInv, PTL

=============================================================================
