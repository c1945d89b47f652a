SPECIFICATION Spec
CONSTANTS
    Browser = {b1, b2}
    Request = {q1, q2}
    Link = {l1}
    MaxTokens = 3
    MaxEpoch = 2
    Environments <- Each
SYMMETRY AnyOrder
INVARIANTS SingleUse StaysLoggedIn ChangeEndsSessions
CHECK_DEADLOCK FALSE
