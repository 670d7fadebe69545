\* One start, no failure: does the interval job fire?
SPECIFICATION Spec
CONSTANTS
    even = even
    sunday = sunday
    noon = noon
    every = every
    docs = docs
    all = all
    hook = hook
    open = open
    Expression <- MCExpression
    Seconds <- MCSeconds
    Watches <- MCWatches
    Debounce <- MCDebounce
    Rank <- MCRank
    Token <- MCToken
    Keys = {"a", "b"}
    Tokens = {"t1"}
    NoToken = "no"
    Calendar <- MCCalendar
    MinuteLen = 3
    Poll = 1
    MaxLate = 1
    Uptime = 1
    MaxTime = 7
    MaxStarts = 1
    MaxFaults = 0
    MaxFiles = 0
    MaxHooks = 0
INVARIANTS
    IntervalFires
CHECK_DEADLOCK FALSE
