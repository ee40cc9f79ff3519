\* Two dispatcher runs against each other, with a fault, and the end.
SPECIFICATION FairSpec
CONSTANTS
    f1 = f1
    f2 = f2
    r1 = r1
    r2 = r2
    inbox1 = inbox1
    inbox2 = inbox2
    None = None
    Followers <- OneFollower
    Inbox <- PersonalInbox
    Runs = {r1, r2}
    MaxAttempts = 2
    MaxTime = 2
    MaxFaults = 1
INVARIANT TypeOK
PROPERTIES StaleRunHarmless EventuallySettled
