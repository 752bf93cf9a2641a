SPECIFICATION Spec
CONSTANTS
    Subs = {s1, s2}
    MaxEvents = 1
    FilterCap = 2
INVARIANTS
    NothingClosedTwice
    EventsAtMostOnce
    FilterIsListening
PROPERTIES
    CallsReturn
    GoroutinesEnd
CHECK_DEADLOCK FALSE
