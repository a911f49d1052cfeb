SPECIFICATION Spec
CONSTANTS
    File = {f, g}
    Handle = {h1, h2}
    Fd = {3, 4}
    NTiers = 2
    Quota <- OddQuota
    MaxSize = 1
    MaxCalls = 2
    MaxMoves = 2
    W = 8
    BlockSize <- TwoBytes
    Absent = Absent
INVARIANTS
    TypeOK
    UsageOwed
    HandlesTracked
    FreeSpaceRight
SYMMETRY FilesAndHandles
