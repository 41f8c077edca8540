\* Two runs that take turns; symbol files change between calls.
SPECIFICATION TurnsSpec
SYMMETRY Symmetry
CONSTANTS
    Processes = {r1, r2}
    Files = {f1, f2}
    Versions = {v1, v2, bare}
    Plain = {bare}
    Shows <- MCShows
    MaxRestarts = 2
    MaxChanges = 1
    MaxFailures = 1
    Unknown = Unknown
    Garbage = Garbage
INVARIANTS
    AnswersAreTrue
    AnswersAreKept
