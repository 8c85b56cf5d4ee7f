SPECIFICATION Spec
CONSTANTS
    tab = tab
    client = client
    profile1 = profile1
    profile2 = profile2
    r1 = r1
    r2 = r2
    r3 = r3
    Tabs = {tab}
    Others = {client}
    Profiles = {profile1, profile2}
    ProfileOf <- MCProfileOf
    Requests = {r1, r2, r3}
    ClientOf <- MCClientOf
    Items = {x, y}
    MaxNamed = 1
    None = None
INVARIANTS AnswerHonoursRequest ItemsAreOwn NeverStuck
PROPERTIES OwnersKept DeletionWins
SYMMETRY SyncSymmetry
