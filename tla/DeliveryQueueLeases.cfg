\* Two workers on two messages of one sequence: leases, heartbeats, fencing, order, a
\* scan limit of one, a Retry-After hint, and the end.
SPECIFICATION FairSpec
CONSTANTS
    w1 = w1
    w2 = w2
    seqA = seqA
    None = None
    NoSequence = NoSequence
    Workers = {w1, w2}
    Msgs <- PairMsgs
    Sequence <- PairSequence
    Writers = 1
    Lease = 2
    MaxLease = 3
    MaxAttempts = 2
    RetryDelays <- Delays
    RetryAfterDelays <- RetryAfter
    ScanLimit = 1
    MaxFaults = 1
    MaxRequeues = 1
INVARIANTS TypeOK LeaseCapped SucceededWasAccepted ExclusiveUnlessFault
PROPERTIES StaleWorkerHarmless EventuallySettled ImplementsOrderedDelivery
