SPECIFICATION Spec
CONSTANTS
    Ids = {"x", "y", "w"}
    Labels = {"l"}
    Passwords = {"p", Empty}
    Spellings <- MCSpellings
    Origins = {"a"}
    Normalized <- MCNormalized
    NoOrigin = NoOrigin
    None = None
    Empty = Empty
    Typed = {"p"}
    Batches <- OneImport
    UserOps <- SaveOps
    MaxPrompts = 1
PROPERTIES ImportsKeepLogins
