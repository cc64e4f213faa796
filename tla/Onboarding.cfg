SPECIFICATION OnboardingSpec
CONSTANTS
    Transactions = {t1, t2}
    a1 = a1
    Accounts = {a1}
    Registrations = {r1, r2}
    Applicant <- MCApplicant
    MaxStores = 2
SYMMETRY Symmetry
INVARIANTS OneStoreEach StoresHaveOwners
CHECK_DEADLOCK FALSE
