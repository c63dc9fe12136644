\* Two runs, one reported while they execute, and three requests for certificates.
CONSTANTS
    Run = {r1, r2}
    Certificate = {k1, k2, k3}
    CertificateRequest = {q1, q2, q3}
    ReportRequest = {p1}
    None = None
SPECIFICATION Spec
INVARIANTS CompletedReportHasResults CertificateHonest
CHECK_DEADLOCK FALSE
