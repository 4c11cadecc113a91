SPECIFICATION FairSpec
CONSTANTS
  None = None
  Empty = Empty
  Damaged = Damaged
  Clients = {c1, c2}
  Inodes = {i1, i2, i3}
  Keys = {reqstate, weight}
  Uuids = {u1, u2}
  MaxRedefs = 1
  MaxDeletes = 1
  Faults = {"open", "save", "crash"}
INVARIANTS TypeOK NoInheritance
PROPERTY ImplementsStore OpsFinish
