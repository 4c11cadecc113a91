SPECIFICATION Spec
CONSTANTS
    Calls = {c1, c2}
    Names = {n1, n2}
    Singles = {"memory"}
    Vols = {v1}
    MaxInit = 1
    MaxOps = 3
    Faults = {"connect", "list", "describe", "start", "undefine", "volume", "path"}
INVARIANTS TypeOK NoLeftover DeletedIsGone SteadyIsListed
SYMMETRY Symmetric
CHECK_DEADLOCK FALSE
