SPECIFICATION Spec
CONSTANTS
    Ids = {"w"}
    Labels = {"l"}
    Passwords = {"p", "q", Empty}
    Spellings <- MCSpellings
    Origins = {"a"}
    Normalized <- MCNormalized
    NoOrigin = NoOrigin
    None = None
    Empty = Empty
    Typed = {"q"}
    Batches <- OneImport
    UserOps <- AllOps
    MaxPrompts = 1
INVARIANTS ServedWasSaved
