SPECIFICATION Spec
CONSTANTS
    pa = pa
    pb = pb
    x = x
    o1 = o1
    o2 = o2
    Ids = {x}
    Passphrases = {pa, pb}
    Lists <- MCLists
    SiteOf <- MCSiteOf
    Ops = {o1, o2}
    UsesOf <- MCUsesOf
    MaxUnderWay = 2
    None = None
INVARIANTS TypeOK BridgeFollowsPage PassphraseIsVerified LockedPageForgets EditsKeepPasswords
PROPERTY LockedBridgeStaysEmpty
