SPECIFICATION GateSpec
CONSTANTS
    Caller = {u}
    Command = {c1, c2}
    Action <- Sent
    Limit = 2
    Window = 1
    MaxNow = 3
    GateEnvironments <- Each
SYMMETRY AnyOrder
INVARIANTS ViewersOnlyAsk SlidingBudget NoRefusalWithoutCause
PROPERTIES RoleInForce
