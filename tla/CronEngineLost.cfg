\* A daemon that is restarted once.
SPECIFICATION FairSpec
CONSTANTS
    daemon = daemon
    shell = shell
    retried = retried
    plain = plain
    disabled = disabled
    unknown = unknown
    Engines = {daemon}
    Daemons = {daemon}
    Workers = {w1}
    Jobs = {plain}
    Registered = {plain}
    Enabled = {plain}
    Threaded = {}
    Timed = {}
    MaxAttempts <- MCMaxAttempts
    PollLimit = 2
    CatchesIdleTimeout = TRUE
    MaxExternal = 1
    MaxOutages = 1
    MaxFaults = 0
PROPERTIES
    QueuedSettles
