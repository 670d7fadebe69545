\* Python 3.10: an idle wait is not caught.
SPECIFICATION FairSpec
CONSTANTS
    daemon = daemon
    shell = shell
    retried = retried
    plain = plain
    disabled = disabled
    unknown = unknown
    Engines = {daemon}
    Daemons = {daemon}
    Workers = {w1, w2}
    Jobs = {plain}
    Registered = {plain}
    Enabled = {plain}
    Threaded = {}
    Timed = {}
    MaxAttempts <- MCMaxAttempts
    PollLimit = 2
    CatchesIdleTimeout = FALSE
    MaxExternal = 1
    MaxOutages = 0
    MaxFaults = 0
PROPERTIES
    ClaimedSettles
CHECK_DEADLOCK FALSE
