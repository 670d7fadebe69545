\* A job whose plain function outlives max_runtime.
SPECIFICATION Spec
CONSTANTS
    daemon = daemon
    shell = shell
    retried = retried
    plain = plain
    disabled = disabled
    unknown = unknown
    Engines = {daemon}
    Daemons = {daemon}
    Workers = {w1}
    Jobs = {retried}
    Registered = {retried}
    Enabled = {retried}
    Threaded = {retried}
    Timed = {retried}
    MaxAttempts <- MCMaxAttempts
    PollLimit = 2
    CatchesIdleTimeout = TRUE
    MaxExternal = 2
    MaxOutages = 0
    MaxFaults = 0
INVARIANTS
    NoHandlerOverlap
