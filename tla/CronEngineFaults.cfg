\* As CronEngine.cfg, with one database write that raises.
SPECIFICATION Spec
CONSTANTS
    daemon = daemon
    shell = shell
    retried = retried
    plain = plain
    disabled = disabled
    unknown = unknown
    Engines = {daemon, shell}
    Daemons = {daemon}
    Workers = {w1, w2}
    Jobs = {retried, plain, disabled, unknown}
    Registered = {retried, plain, disabled}
    Enabled = {retried, plain}
    Threaded = {retried}
    Timed = {retried}
    MaxAttempts <- MCMaxAttempts
    PollLimit = 1
    CatchesIdleTimeout = TRUE
    MaxExternal = 2
    MaxOutages = 1
    MaxFaults = 1
INVARIANTS
    RunsAgree
    OneAttemptAtATime
    DeadLetterIsExhausted
PROPERTIES
    RefinesLifecycle
