SPECIFICATION Spec
CONSTANTS
    Start = 3
    MaxTime = 6
    Slot = {s1, s2}
    Level = {1, 2}
    Default = 1
    ALERT_COOLDOWN_MS = 3
    THRESHOLD_CACHE_MS = 2
    MaxReceived = 3
    MaxConfigured = 1
    Window = 2
    Retentions = {1, 2}
    MaxEvents = 6
    Environments <- Each
SYMMETRY AnySlot
INVARIANTS FiresApart Announced HistoryTells UptimeTrue
CHECK_DEADLOCK FALSE
