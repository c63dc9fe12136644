\* Two fund requests of one bond.
SPECIFICATION Spec
CONSTANTS
    Bond = {b1}
    Challenge = {c1}
    FundRequest = {f1, f2}
    ChallengeRequest = {q1}
    ResolveRequest = {s1}
    Evaluation = {}
    None = None
PROPERTY FundsOnlyDraft
CHECK_DEADLOCK FALSE
