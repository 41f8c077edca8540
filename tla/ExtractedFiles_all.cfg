\* Processes at once and in turns, each of which may end at any moment.
SPECIFICATION ExtractSpec
CONSTANTS
    Dumps <- MCDumps
    ProcessOf <- MCProcessOf
    Asked <- MCAsked
    Pieces = 2
    Regimes <- MCRegimes
    Existing <- MCExisting
INVARIANTS
    TypeOK
    DoneIsKeptInTurns
    OthersAreKept
CHECK_DEADLOCK FALSE
