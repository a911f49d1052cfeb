SPECIFICATION Spec
CONSTANTS
    File = {f, g}
    NTiers = 2
    MaxCookie = 3
    Rooms = {2, 3}
    Length <- MCLength
    MaxMoves = 0
    MaxCount = 2
    Sub = Sub
    None = None
INVARIANT WholeListing
