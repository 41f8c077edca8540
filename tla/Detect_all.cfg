\* Runs of two processes over captures that come and go, each with its own identity.
SPECIFICATION Spec
CONSTANTS
    Runs = {r1, r2}
    Files <- MCFiles
    Installed <- MCInstalled
    Movable = {}
    Mixed = FALSE
    Broken = {"torn", "bad"}
    NoPageTable = {"c"}
    MaxRuns = 3
    MaxChanges = 2
INVARIANTS
    RunIsFresh
    KnownIsNotSearched
CHECK_DEADLOCK FALSE
