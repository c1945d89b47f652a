SPECIFICATION Spec
CONSTANTS
    s1 = s1
    s2 = s2
    i1 = i1
    i2 = i2
    y1 = y1
    y2 = y2
    Server = {s1, s2}
    Mine = s1
    Item = {i1, i2}
    Yaml = {y1, y2}
    DefaultCompose = y1
    MaxSteps = 2
    Environments <- MCEnvironments
SYMMETRY Symmetry
INVARIANTS ListTrue MarksEnd StacksTrue OpHonest
CHECK_DEADLOCK FALSE
