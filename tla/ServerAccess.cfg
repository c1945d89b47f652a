SPECIFICATION Spec
CONSTANTS
    free = free
    pro = pro
    r1 = r1
    r2 = r2
    Server = {s1, s2}
    User = {free, pro}
    Request = {r1, r2}
    Lesser = {"viewer"}
    NoUser = NoUser
    NoServer = NoServer
    MaxServers <- PlanServers
    MaxMembers <- PlanMembers
    Environments <- Each
SYMMETRY Symmetry
INVARIANTS KeepsAnOwner WholeServers
PROPERTIES WithinPlan
