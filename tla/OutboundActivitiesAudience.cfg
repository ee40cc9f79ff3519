\* Two followers of both actors behind one inbox, around two publications.
SPECIFICATION Spec
CONSTANTS
    f1 = f1
    f2 = f2
    r1 = r1
    r2 = r2
    inbox1 = inbox1
    inbox2 = inbox2
    None = None
    Followers <- TwoFollowers
    Inbox <- SharedInbox
    Runs = {r1}
    MaxAttempts = 1
    MaxTime = 5
    MaxFaults = 0
INVARIANTS NoLateFollower AudienceReached
PROPERTY SettledIsFinal
