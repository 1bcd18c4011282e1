SPECIFICATION Spec
CONSTANTS
    i1 = i1
    i2 = i2
    i3 = i3
    m1 = m1
    m2 = m2
    None = None
    Ids = {i1, i2, i3}
    Models = {m1, m2}
    Catalogue = {m1}
    Single = {m1}
    Lines <- AllLines
    Hosts <- SomeHosts
    Longest = 4
    MaxLines = 3
INVARIANTS
    TypeOK
    VerdictIsRight
    StoredAreNeeded
CHECK_DEADLOCK FALSE
