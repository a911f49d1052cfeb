SPECIFICATION Spec
CONSTANTS
    h1 = h1
    h2 = h2
    Handle <- NoHandle
    Visible <- MCVisible
    Movable <- FileAndTemporary
    Name <- MCName
    Hide <- MCHide
    Conflict <- MCConflict
    NTiers = 2
    Absent = Absent
    Partial = Partial
    MaxWrites = 0
    MaxCrashes = 1
    MaxLeaks = 0
    MaxCopies = 1
INVARIANTS
    OnlyCopyIsWhole
PROPERTY Relocates
VIEW LiveView
