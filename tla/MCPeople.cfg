SPECIFICATION PeopleSpec
CONSTANTS
    u1 = u1
    u2 = u2
    u3 = u3
    p1 = p1
    p2 = p2
    o1 = o1
    i1 = i1
    i2 = i2
    t1 = t1
    t2 = t2
    s1 = s1
    s2 = s2
    k1 = k1
    k2 = k2
    q1 = q1
    q2 = q2
    Users = {u1, u2, u3}
    Superadmins = {}
    Orgs = {o1}
    Rows = {1, 2, 3}
    Invites = {i1, i2}
    Requests = {q1, q2}
    Asked = {"owner", "admin", "guest"}
    Expiry = 1
    MaxTime = 1
    Persons = {p1, p2}
    Holders = {p1}
    Subs = {s1, s2}
    Tokens = {t1, t2}
    Lifetime = 1
    KeyIds = {k1, k2}
    MaxSecrets = 2
    MaxKeysPerHour = 2
    Window = 2
    DomainOf <- Mails
    Domains <- AtAndAbove
    Tasks = {q1, q2}
    LastTick = 2
    LastTime = 3
    OrgIds = {o1}
    None = None
SYMMETRY Symmetric
CONSTRAINT Followed
INVARIANTS
    PeopleTypeOK
    OwnersHold
    AccountsHold
    KeysHold
PROPERTIES
    OwnersDecide
    OnlyOneself
CHECK_DEADLOCK FALSE
