SPECIFICATION Spec
SYMMETRY Alike
CONSTANTS
    Slot = {s1, s2}
    Window = 1
    Horizon = 3
    Gap = 2
    MaxSamples = 2
    MaxTime = 4
    ReplayTime = 1
    MaxJobs = 1
    None = None
INVARIANTS RecentCovers RateFounded OwnActionShown
PROPERTY NeverOlder
CHECK_DEADLOCK FALSE
