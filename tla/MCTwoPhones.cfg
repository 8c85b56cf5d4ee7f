SPECIFICATION FairSpec
CONSTANTS
    Ids = {"x", "y"}
    Labels = {"l"}
    Passwords = {"p", "q", Empty}
    Spellings <- MCSpellings
    Origins = {"a"}
    Normalized <- MCNormalized
    NoOrigin = NoOrigin
    None = None
    Empty = Empty
    Phones = {m1, m2}
    Sessions = {s}
    Vaults <- OneVault
INVARIANTS OneHandoffPerSession
PROPERTIES ImplementsHandoffProtocol AttemptEnds
