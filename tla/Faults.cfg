SPECIFICATION Spec
CONSTANTS
    h1 = h1
    h2 = h2
    Handle <- OneHandle
    Visible <- MCVisible
    Movable <- FileOnly
    Name <- MCName
    Hide <- MCHide
    Conflict <- MCConflict
    NTiers = 2
    Absent = Absent
    Partial = Partial
    MaxWrites = 1
    MaxCrashes = 1
    MaxLeaks = 1
    MaxCopies = 1
INVARIANTS
    OpenCountExact
    DataSurvives
    NoPartialFile
PROPERTY Relocates
VIEW LiveView
