SPECIFICATION Spec
CONSTANTS
    owner = owner
    guest = guest
    t1 = t1
    t2 = t2
    t3 = t3
    User = {owner, guest}
    Tab = {t1, t2, t3}
    UserOf <- TabsOf
    MaxSent = 2
    Environments <- Each
SYMMETRY SameUser
INVARIANTS OnceInOrder SteadyServed ChangeTakesEffect
