\* A minute is three polls; the daemon is started up to twice.
SPECIFICATION Spec
CONSTANTS
    even = even
    sunday = sunday
    noon = noon
    every = every
    docs = docs
    all = all
    hook = hook
    open = open
    Expression <- MCExpression
    Seconds <- MCSeconds
    Watches <- MCWatches
    Debounce <- MCDebounce
    Rank <- MCRank
    Token <- MCToken
    Keys = {"a", "b"}
    Tokens = {"t1"}
    NoToken = "no"
    Calendar <- MCCalendar
    MinuteLen = 3
    Poll = 1
    MaxLate = 1
    Uptime = 1
    MaxTime = 7
    MaxStarts = 2
    MaxFaults = 1
    MaxFiles = 2
    MaxHooks = 1
INVARIANTS
    TypeOK
    CronOncePerMinute
PROPERTIES
    FileChangesServed
CHECK_DEADLOCK FALSE
