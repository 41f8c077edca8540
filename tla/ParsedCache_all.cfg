\* Two runs that share the cache, killed and cleared at any point, while nobody replaces a symbol file.
SPECIFICATION LiveSpec
CONSTANTS
    large = large
    tiny = tiny
    bad = bad
    v1 = v1
    v2 = v2
    v3 = v3
    v4 = v4
    Runs = {r1, r2}
    Sources = {large, bad}
    Versions = {v1, v4}
    Small = {}
    Broken = {v4}
    Keys <- MCKeys
    Key <- MCKey
    Inodes = {i1, i2, i3}
    Sources0 <- MCSources0
    MaxChanges = 0
    None = None

INVARIANTS
    TypeOK
    LoadIsCurrent
    EntriesMatchTheirNames
PROPERTIES
    LoadEnds
