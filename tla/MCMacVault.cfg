SPECIFICATION Spec
CONSTANTS
    Ids = {x, y}
    Labels = {"l"}
    Passwords = {"p", Empty}
    Spellings <- MCSpellings
    Origins = {"a"}
    Normalized <- MCNormalized
    NoOrigin = NoOrigin
    None = None
    Empty = Empty
    Typed = {"p"}
    Batches <- NoImports
    UserOps <- EditOps
    MaxPrompts = 2
INVARIANTS TypeOK LockForgets NoLostUpdate SessionServesStore
SYMMETRY IdSymmetry
