SPECIFICATION Spec
CONSTANTS
    Mailbox = {m1, m2, m3}
    GoogleUser = {g1, g2}
    Request = {q1, q2}
    MaxAccounts = 2
    MaxLinks = 2
    MaxSignIns = 3
    Environments <- MCEnvironments
SYMMETRY AnyOrder
INVARIANTS OneAccount VerifiedTrue LastLinkWorks GoogleReturns
CHECK_DEADLOCK FALSE
