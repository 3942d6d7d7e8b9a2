SPECIFICATION Spec
CONSTANTS
    alice = alice
    bob = bob
    a1 = a1
    a2 = a2
    a3 = a3
    b1 = b1
    b2 = b2
    c1 = c1
    c2 = c2
    None = None
    Users = {alice, bob}
    Cards = {a1, a2, a3, b1, b2}
    Owner <- MCOwner
    Calls = {c1, c2}
    Caller <- BothAlices
INVARIANT KeepsACard
CHECK_DEADLOCK FALSE
