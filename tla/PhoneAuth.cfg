SPECIFICATION Spec
CONSTANTS
    Threads = {t1, t2}
    Phones = {p1}
    Codes = {c1, c2}
    None = None
    MaxAttempt <- MCMaxAttempt
INVARIANTS AttemptsBounded VerifiedByCode CodeOrVerified
PROPERTY TryTomorrow
CHECK_DEADLOCK FALSE
