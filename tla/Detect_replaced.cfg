\* A capture replaces another of the same identity.
SPECIFICATION Spec
CONSTANTS
    Runs = {r1}
    Files <- MCSameIdentity
    Installed <- MCInstalled
    Movable = {}
    Mixed = FALSE
    Broken = {"torn", "bad"}
    NoPageTable = {"c"}
    MaxRuns = 2
    MaxChanges = 1
INVARIANTS
    RunIsFresh
CHECK_DEADLOCK FALSE
