\* One run, the symbol file is replaced while it is being parsed.
SPECIFICATION Spec
CONSTANTS
    large = large
    tiny = tiny
    bad = bad
    v1 = v1
    v2 = v2
    v3 = v3
    v4 = v4
    Runs = {r1}
    Sources = {large}
    Versions = {v1, v2}
    Small = {}
    Broken = {}
    Keys <- MCKeys
    Key <- MCKey
    Inodes = {i1, i2, i3}
    Sources0 <- MCSources0
    MaxChanges = 1
    None = None
INVARIANTS
    ChangedFileMisses
