SPECIFICATION Spec
CONSTANTS
    Browser = {b1, b2}
    Request = {q1, q2}
    Link = {l1}
    MaxTokens = 3
    MaxEpoch = 1
    Environments <- Calm
SYMMETRY AnyOrder
INVARIANTS LogoutRevokes
CHECK_DEADLOCK FALSE
