\* Two companies claim one API: both polled, one verified by hand, a status read.
CONSTANTS
    Claim = {c1, c2}
    Api = {a1}
    Verification = {v1}
    StatusRequest = {s1}
    MaxAttempts = 2
    None = None
SPECIFICATION FairSpec
INVARIANT VerifiedApiRegistered
PROPERTIES VerifiedUntilExpiry ImplementsClaimRegistry WorkersEnd
CHECK_DEADLOCK FALSE
