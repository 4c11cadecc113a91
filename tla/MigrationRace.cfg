SPECIFICATION Spec
CONSTANTS
  Jobs = {j1, j2}
  Hosts = {local, remote1, remote2}
  Local = local
  Types = {"other", "live", "restart"}
  None = None
  MaxTries = 1
  MaxOps = 1
  Faults = {"store", "migrate", "undefine", "define"}
INVARIANTS RunsOnce DefinitionKept SuccessMeansThere
CHECK_DEADLOCK FALSE
