SPECIFICATION Spec
CONSTANTS
    p1 = p1
    p2 = p2
    backup = backup
    digest = digest
    file = file
    NoFile = NoFile
    Procs <- MCProcs
    Jobs <- MCJobs
    Rank <- MCRank
    Given <- MCGiven
    Home <- MCHome
    DeploymentFile <- MCDeploymentFile
    Serves = TRUE
    MaxStarts = 2
    MaxEdits = 1
    MaxFaults = 1
SYMMETRY Symmetry
INVARIANTS
    TypeOK
    RowTellsTruth
    RegistrationTakesEffect
CHECK_DEADLOCK FALSE
