SPECIFICATION Spec
CONSTANTS
    h1 = h1
    h2 = h2
    Handle <- TwoHandles
    Visible <- MCVisible
    Movable <- FileOnly
    Name <- MCName
    Hide <- MCHide
    Conflict <- MCConflict
    NTiers = 2
    Absent = Absent
    Partial = Partial
    MaxWrites = 1
    MaxCrashes = 0
    MaxLeaks = 0
    MaxCopies = 1
INVARIANTS
    TypeOK
    OpenFileStays
    DataSurvives
    Findable
    NothingClobbered
SYMMETRY HandleSymmetry
VIEW LiveView
