\* An actor that comes back, two faults.
SPECIFICATION FairSpec
CONSTANTS
    a1 = a1
    a2 = a2
    r1 = r1
    Actors = {a1}
    Reports = {r1}
    MaxFollows <- FollowsTwice
    MaxFaults = 2
CHECK_DEADLOCK FALSE
INVARIANTS TypeOK FollowsAgreeInOrder AcceptedByPeer
PROPERTIES UndoneForGood EventuallyAnswered EventuallySaved
