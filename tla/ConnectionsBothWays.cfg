SPECIFICATION Spec
CONSTANTS
    alice = alice
    bob = bob
    aliceCard = aliceCard
    bobCard = bobCard
    None = None
    Users = {alice, bob}
    Cards = {aliceCard, bobCard}
    Owner <- MCOwner
    Calls = {c1}
    Messages = {}
    LongMessages = {}
    NoticeLimit = 0
INVARIANT OneConnectionPerCardPair
