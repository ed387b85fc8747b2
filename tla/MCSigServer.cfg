SPECIFICATION FairSpec
CONSTANTS
    Conn = {c1, c2, c3}
    Name = {n1, n2}
    Id = {i1, i2}
    Slow = {c1}
    None = None
INVARIANTS SessionHasBackend RegistryLive Isolation
PROPERTIES FrontendsStay BrokenLeaves
CHECK_DEADLOCK FALSE
