SPECIFICATION Spec
CONSTANTS
    Clients = {a, b, c}
    Partners = {p}
    Readers = {r}
    EventLoop = EventLoop
    Threads = {t1, t2}
    Limit = 2
    WindowSeconds = 2
    TicksPerSecond = 2
    MaxKeys = 2
    Writers = {w1, w2}
    RowIds = {1, 2}
    ListedIds = {1, 2, 3, 4}
    PageSize = 1
    MaxRequests = 5
    MaxExports = 3
    MaxTime = 5
    Start = Start
INVARIANTS BudgetHolds WalkIsExact MissedOnesHaveDoubles
PROPERTIES RetryAfterIsEnough
SYMMETRY Symmetry
CHECK_DEADLOCK FALSE
