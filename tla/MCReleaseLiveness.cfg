SPECIFICATION FairSpec
CONSTANTS
    Ids <- MCIds
    Labels <- MCLabels
    Passwords <- MCPasswords
    Spellings <- MCSpellings
    Origins <- MCOrigins
    Normalized <- MCNormalized
    NoOrigin = NoOrigin
    None = None
    Tabs = {t1}
    Pages = {"a"}
    Pool <- PoolOfTwo
    Imports <- NoImport
    MaxClaims = 2
    MaxPosted = 1
PROPERTIES ApprovedWasShown FillEnds ViewCatchesUp
