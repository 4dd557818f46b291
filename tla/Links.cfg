\* The relay: one loss, two restarts, any reordering and duplication.  The bridge: one
\* application thread, a heartbeat and its successor.
SPECIFICATION LinksSpec
CONSTANTS
    Watchdog = 2
    MaxSends = 3
    MaxLosses = 1
    MaxRestarts = 2
    MaxRefusals = 0
    Callers = {c1}
    Beats = {b1, b2}
    NoThread = NoThread
    MaxCalls = 3
    MaxFaults = 1
INVARIANTS
    RelayInv
    AdapterInv
PROPERTIES
    LinkKeepsBeating
\* Calls and datagrams are bounded, and the adapter closes.
CHECK_DEADLOCK FALSE
