\* A schedule with a history saved twice, for two frequencies, under dispatcher runs.
SPECIFICATION Spec
CONSTANTS
    w1 = w1
    w2 = w2
    weekly = weekly
    monthly = monthly
    None = None
    Off = Off
    Freqs <- TwoFreqs
    Step <- TwoSteps
    RunTime = 1
    Available = 0
    Start = 2
    Workers = {w1, w2}
    MaxRetries = 1
    MaterializeLimit = 2
    MaxTime = 5
    MaxSaves = 2
    MaxFaults = 1
SYMMETRY WorkerSymmetry
INVARIANTS TypeOK NoSlotLost SucceededHasReport LaterPeriodsWait
PROPERTIES NextRunForward StaleRunHarmless
