SPECIFICATION Spec
CONSTANTS
    Plugins <- AllPlugins
    Hiding <- MCHiding
    Dropping <- MCDropping
    Many = 2
INVARIANTS DamageIsLocal RowsAreKept
CHECK_DEADLOCK FALSE
