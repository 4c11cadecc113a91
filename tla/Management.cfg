SPECIFICATION Spec
CONSTANTS
    Calls = {c1, c2}
    Uuids = {u1, u2}
    Disks = {"disk"}
    Nets = {}
    Controllers = {}
    Cold = {"console"}
    None = None
    MaxBatch = 2
    MaxOps = 2
    Faults = {"connect", "rasd", "info", "live", "define", "result", "record",
              "kill", "lookup", "undefine"}
INVARIANTS TypeOK AloneApplies DestroyedIsGone
SYMMETRY Symmetric
CHECK_DEADLOCK FALSE
