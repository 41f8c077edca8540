\* One process after another, one of them interrupted.
SPECIFICATION Spec
CONSTANTS
    Runs = {r1, r2}
    Blocks = 2
    Worlds <- CrashWorlds
    MaxStarts <- MCMaxStarts
SYMMETRY Symmetry
INVARIANTS
    FetchedOnceIsGood
CHECK_DEADLOCK FALSE
