SPECIFICATION PartsSpec
CONSTANTS
    Users = {alice, bob}
    Groups = {i1, i2, i7}
    GroupOwner <- MCGroupOwner
    Scraps = {i3, i4}
    ScrapOwner <- MCScrapOwner
    Cards = {i5, i6}
    Names = {m1, m2}
    Calls = {c1, c2}
    alice = alice
    bob = bob
    i1 = i1
    i2 = i2
    i3 = i3
    i4 = i4
    i5 = i5
    i6 = i6
    i7 = i7
    i8 = i8
    i9 = i9
    i10 = i10
    i11 = i11
    i12 = i12
    None = None
SYMMETRY Symmetry
INVARIANTS
    PartsTypeOK
    ScrapsStayHome
    KeepsACard
    WithdrawnIsHidden
    PositionsAreDistinct
    PositionsAreDense
    ReferencesResolve
    SkillsKeepAJobType
    ApprovalsOpenOneSession
    ServiceGoesOn
    AnsweredImagesAreComplete
PROPERTIES
    IsAScrapbook
    OnlyOwnersEdit
    CardsAreShelved
    ReturnedStatesAreGone
CHECK_DEADLOCK FALSE
