SPECIFICATION Spec
CONSTANTS
    alice = alice
    bob = bob
    aliceCard = aliceCard
    bobCard = bobCard
    None = None
    Users = {alice, bob}
    Cards = {aliceCard, bobCard}
    Owner <- MCOwner
    Calls = {c1, c2}
    Messages = {}
    LongMessages = {}
    NoticeLimit = 0
PROPERTY OnlyPendingIsAnswered
