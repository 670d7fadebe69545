SPECIFICATION Spec
CONSTANTS
    c1 = c1
    c2 = c2
    order = order
    note = note
    tag = tag
    main = main
    notes = notes
    Nobody = Nobody
    NoKey = NoKey
    Clients <- MCClients
    Keys <- MCKeys
    Versioned <- MCVersioned
    Url <- MCUrl
    Managers <- MCManagers
    Existing <- MCVersioned
    GivenVersions = {2}
    LookupByKey = FALSE
    MaxWrites <- MCMaxWrites
    MaxBlocks = 2
    MaxEffort = 4
    MaxFaults = 1
SYMMETRY Symmetry
CHECK_DEADLOCK FALSE
INVARIANT NoLostUpdate
