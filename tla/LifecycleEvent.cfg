SPECIFICATION Spec
CONSTANTS
    None = None
    Platforms = {kvm}
    Threads = {t1, t2}
    Domains = {d1, d2}
    MaxSubs = 2
    MaxDrift = 1
    MaxChanges = 3
    Faults = {"prefix", "connect", "register", "newThread", "list", "xml", "deliver"}
SYMMETRY Alike
INVARIANTS TypeOK SlotServed KnownGuests
CHECK_DEADLOCK FALSE
