SPECIFICATION Spec
CONSTANTS
    Feeds = {f1, f2}
    Prices = {1, 2, 3}
    MaxTime = 1
    MaxAge = 0
    Anchor = 2
    Low = 2
    High = 3
    MaxHistory = 2
    MaxTicks = 2
    NoPrice = NoPrice
SYMMETRY FeedSymmetry
INVARIANTS MedianIsHonest HistoryIsRecent
CHECK_DEADLOCK FALSE
