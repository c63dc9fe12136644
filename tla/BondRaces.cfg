\* Two funds, two resolvers, one challenge request and one evaluation of a bond.
SPECIFICATION Spec
CONSTANTS
    Bond = {b1}
    Challenge = {c1, c2}
    FundRequest = {f1, f2}
    ChallengeRequest = {q1}
    ResolveRequest = {s1, s2}
    Evaluation = {e1}
    None = None
SYMMETRY Symmetry
INVARIANTS
    FundedBondHasReceipt
    UserResolutionHasReceipt
    SlashOnlyThroughCappo
    SettledBondHasResolution
    ClosedIffResolved
    BreachHasOpenChallenge
CHECK_DEADLOCK FALSE
