SPECIFICATION Spec
CONSTANTS
    f1 = f1
    f2 = f2
    f3 = f3
    File <- ThreeFiles
    NTiers = 2
    MaxSize = 2
    MaxQuota = 3
    MaxHeat = 2
INVARIANTS
    TypeOK
    NoPriorityInversion
    QuotaKeptUnpinned
    UsageExact
    
SYMMETRY FileSymmetry
VIEW LiveView
