\* Processes at once with crashes and refusals, and processes that take turns.
SPECIFICATION Spec
CONSTANTS
    Runs = {r1, r2, r3}
    Blocks = 2
    Worlds <- MCWorlds
    MaxStarts <- MCMaxStarts
SYMMETRY Symmetry
INVARIANTS
    WorkIsDoneOnce
    UndisturbedIsGood
CHECK_DEADLOCK FALSE
