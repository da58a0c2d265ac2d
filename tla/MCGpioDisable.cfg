SPECIFICATION IoeSpec
CONSTANTS
    t1 = t1
    t2 = t2
    p1 = p1
    p2 = p2
    Threads = {t1, t2}
    NoThread = NoThread
    Pins = {p1, p2}
    NoPin = NoPin
    Slots = 2
    SharePins = FALSE
    Preemptive = FALSE
INVARIANTS
    DisabledIsMasked
