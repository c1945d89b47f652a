SPECIFICATION Spec
CONSTANTS
    s1 = s1
    s2 = s2
    c1 = c1
    c2 = c2
    c3 = c3
    Server = {s1, s2}
    Container = {c1, c2, c3}
    ServerOf <- MCServerOf
    Mine = s1
    MaxSteps = 2
    Environments <- MCEnvironments
INVARIANTS ViewTrue ProcessEnds ModalTrue
CHECK_DEADLOCK FALSE
