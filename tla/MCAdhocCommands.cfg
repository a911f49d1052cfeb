SPECIFICATION Spec
CONSTANTS
    Client = {c}
    Base = {p, q}
    Foreign = Foreign
    NTiers = 2
    Absent = Absent
    Strict = FALSE
    MaxRequests = 1
    MaxMoves = 2
INVARIANTS
    TypeOK
    PinsHold
    ConflictsListed
    AnswersTrue
SYMMETRY Interchangeable
