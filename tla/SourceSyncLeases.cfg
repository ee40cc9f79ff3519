\* Two dispatcher runs on two sources, one fault.
SPECIFICATION Spec
CONSTANTS
    w1 = w1
    w2 = w2
    None = None
    Schedules <- TwoSchedules
    Slots = {0}
    FirstSlot = 0
    Day = 3
    Workers = {w1, w2}
    Lease = 2
    MaxLease = 3
    MaxRuntime = 2
    Limit = 2
    Delays <- OneDelay
    Heavy = {}
    MaxOverdue = 1
    MaxSaves = 0
    MaxFaults = 1
SYMMETRY WorkerSymmetry
INVARIANTS TypeOK OneRunAtATime
PROPERTY StaleSyncHarmless
