SPECIFICATION FairSpec
CONSTANTS
    Table <- MCTable
    Calls = {c1}
    MaxVersion = 2
    MaxEvents = 2
INVARIANTS EmptyOnlyInReload MapsAgree
PROPERTIES NeverBack EventuallyFresh
CHECK_DEADLOCK FALSE
