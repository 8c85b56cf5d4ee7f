SPECIFICATION Spec
CONSTANTS
    Ids <- MCIds
    Labels <- MCLabels
    Passwords <- MCPasswords
    Spellings <- MCSpellings
    Origins <- MCOrigins
    Normalized <- MCNormalized
    NoOrigin = NoOrigin
    None = None
    Tabs = {t1, t2}
    Pages = {"a"}
    Pool <- PoolMoved
    Imports <- AnyImport
    MaxClaims = 2
    MaxPosted = 1
INVARIANTS LockEmptiesSlot
PROPERTIES FilledFromOpenVault ImplementsFillProtocol
SYMMETRY TabSymmetry
