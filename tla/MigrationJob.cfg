SPECIFICATION FairSpec
CONSTANTS
  Jobs = {j1}
  Hosts = {local, remote}
  Local = local
  Types = {"other", "live", "resume", "restart"}
  None = None
  MaxTries = 2
  MaxOps = 2
  Faults = {"inst", "thread", "connect", "xml", "migrate", "shutdown", "info", "undefine", "define", "create"}
INVARIANTS TypeOK FlagCleared
PROPERTIES ThreadEnds ImplementsJob
CHECK_DEADLOCK FALSE
