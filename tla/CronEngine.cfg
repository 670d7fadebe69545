\* One daemon and one run_once process, two workers, one outage, no write failure.
SPECIFICATION FairSpec
CONSTANTS
    daemon = daemon
    shell = shell
    retried = retried
    plain = plain
    disabled = disabled
    unknown = unknown
    Engines = {daemon, shell}
    Daemons = {daemon}
    Workers = {w1, w2}
    Jobs = {retried, plain, disabled, unknown}
    Registered = {retried, plain, disabled}
    Enabled = {retried, plain}
    Threaded = {retried}
    Timed = {retried}
    MaxAttempts <- MCMaxAttempts
    PollLimit = 1
    CatchesIdleTimeout = TRUE
    MaxExternal = 2
    MaxOutages = 1
    MaxFaults = 0
INVARIANTS
    TypeOK
    ClaimedOnce
    NoOverlap
    QueuedIsHeld
PROPERTIES
    ClaimedSettles
