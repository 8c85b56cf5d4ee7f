SPECIFICATION Spec
CONSTANTS
    alice = alice
    pa = pa
    pb = pb
    r1 = r1
    r2 = r2
    Accounts = {alice}
    Passphrases = {pa, pb}
    Logins = {x, y}
    VaultOf <- MCVaultOf
    SealOf <- MCSealOf
    OfPage = {x, y}
    m1 = m1
    m2 = m2
    Companions = {m1, m2}
    IdOf <- MCIdOf
    Requests = {r1, r2}
    UsesOf <- MCUsesOf
    None = None
INVARIANTS PassphraseIsVerified LockedPopupForgets SignInSettles FillsAgree
SYMMETRY Symmetry
