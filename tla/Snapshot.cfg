SPECIFICATION FairSpec
CONSTANTS
  Jobs = {j1, j2}
  Calls = {c1}
  States = {"enabled", "disabled", "paused", "reboot", "reset"}
  MaxLives = 2
  Faults = {"thread", "inst", "connect", "save", "restore", "unlink", "xml", "define", "state"}
INVARIANTS TypeOK MemoryKept ResetDefines
PROPERTIES ComesBack ImplementsJob
CHECK_DEADLOCK FALSE
