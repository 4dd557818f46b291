\* Two datagrams that may overtake each other; the staleness limit is as short as it can be.
SPECIFICATION Spec
CONSTANTS
    StaleAfter = 1
    ClearHold = 2
    BlockConfirm = 1
    MaxDelay = 1
    MaxInFlight = 2
INVARIANTS
    ClearIsRecent
PROPERTIES
    OpensAfterHold
