SPECIFICATION Spec
CONSTANTS
    Ids = {"x", "y"}
    Labels = {"l"}
    Passwords = {"p", "q", Empty}
    Spellings <- MCSpellings
    Origins = {"a"}
    Normalized <- MCNormalized
    NoOrigin = NoOrigin
    None = None
    Empty = Empty
    Phones = {m}
    Sessions = {s1, s2}
    Vaults <- EditedVaults
INVARIANTS ImportedIsStored FileLoads
PROPERTIES FailsClosed
SYMMETRY PairingSymmetry
