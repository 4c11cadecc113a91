SPECIFICATION Spec
CONSTANTS
    Calls = {c1, c2}
    Names = {f1, f2, f3}
    Devs = {d1, d2}
    Rules <- MCRules
    NoName = none
    MaxOps = 2
    MaxOutside = 1
    Faults = {"list", "define", "domain"}
INVARIANT AnswerComplete
PROPERTY ChangeIsExact
SYMMETRY Symmetric
CHECK_DEADLOCK FALSE
