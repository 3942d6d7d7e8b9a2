SPECIFICATION Spec
CONSTANTS
    alice = alice
    bob = bob
    None = None
    Users = {alice, bob}
    Notices = {n1}
    To <- MCTo
    Streams = {s1, s2}
    Replicas = {r1, r2}
    Calls = {c1}
    CommandLimit = 2
SYMMETRY Symmetry
INVARIANTS
    TypeOK
    SubscriptionsFollowStreams
    CurrentTabsMissNothing
PROPERTIES
    FeedIsKept
