\* A claim whose owner publishes the record, at any time, and leaves the rest to the
\* polling task, which has two attempts for the 360 of the code.
CONSTANTS
    Claim = {c1}
    Api = {a1}
    Verification = {}
    StatusRequest = {}
    MaxAttempts = 2
    None = None
SPECIFICATION FairSpec
PROPERTY PublishedIsVerified
CHECK_DEADLOCK FALSE
