\* A source that takes jobs down beside one whose settings change.
SPECIFICATION FairSpec
CONSTANTS
    w1 = w1
    w2 = w2
    None = None
    Schedules <- TwoSchedules
    Slots = {0, 1}
    FirstSlot = 0
    Day = 3
    Workers = {w1, w2}
    Lease = 2
    MaxLease = 3
    MaxRuntime = 2
    Limit = 1
    Delays <- OneDelay
    Heavy <- HeavySchedules
    MaxOverdue = 1
    MaxSaves = 1
    MaxFaults = 0
INVARIANTS OnSchedule
PROPERTY EventuallyRun
