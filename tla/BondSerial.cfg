\* One request at a time, over two bonds.
SPECIFICATION SerialSpec
CONSTANTS
    Bond = {b1, b2}
    Challenge = {c1, c2}
    FundRequest = {f1, f2}
    ChallengeRequest = {q1}
    ResolveRequest = {s1, s2}
    Evaluation = {e1}
    None = None
SYMMETRY Symmetry
PROPERTY ImplementsAtomicBonds
CHECK_DEADLOCK FALSE
