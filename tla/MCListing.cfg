SPECIFICATION Spec
CONSTANTS
    File = {f, g}
    NTiers = 2
    MaxCookie = 3
    Rooms = {2, 3}
    Length <- MCLength
    MaxMoves = 1
    MaxCount = 2
    Sub = Sub
    None = None
INVARIANTS
    TypeOK
    NothingMissing
    ListedOnce
PROPERTY ListingEnds
