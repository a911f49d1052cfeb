SPECIFICATION Spec
CONSTANTS
    Dir = {d, e}
    Base = {"a"}
    NTiers = 2
    Absent = Absent
    MaxFiles = 2
    MaxRequests = 2
    MaxMoves = 1
    OldFiles = 1
INVARIANTS
    TypeOK
    NoGhost
    Findable
    AttributesKept
    
    DirsAgree
    TemporaryStays
SYMMETRY Directories
