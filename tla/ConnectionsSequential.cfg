SPECIFICATION FairSpec
CONSTANTS
    alice = alice
    bob = bob
    aliceCard = aliceCard
    bobCard = bobCard
    None = None
    Users = {alice, bob}
    Cards = {aliceCard, bobCard}
    Owner <- MCOwner
    Calls = {c1}
    Messages = {hello}
    LongMessages = {}
    NoticeLimit = 1
INVARIANTS
    AcceptedNoticeIsTrue
    ArchivedMessageIsTheRequests
PROPERTIES
    RequestsFollowLifecycle
    CallsReturn
