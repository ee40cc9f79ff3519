\* Due slots are materialized and period runs end.
SPECIFICATION FairSpec
CONSTANTS
    w1 = w1
    w2 = w2
    weekly = weekly
    monthly = monthly
    None = None
    Off = Off
    Freqs <- OneFreq
    Step <- OneStep
    RunTime = 1
    Available = 0
    Start = 2
    Workers = {w1}
    MaxRetries = 1
    MaterializeLimit = 1
    MaxTime = 5
    MaxSaves = 2
    MaxFaults = 1
PROPERTIES EventuallyMaterialized EventuallyFinished
