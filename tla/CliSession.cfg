SPECIFICATION SessionSpec
CONSTANTS
    main = main
    plugin = plugin
    adds = adds
    removes = removes
    groups = groups
    rivals = rivals
    Registries <- MCRegistries
    Modules <- MCModules
    Functions <- MCFunctions
    Params <- MCParams
    Body <- MCBody
    MaxJobs = 4
    Lines <- MCLines
    Answers <- MCAnswers
    Numbers <- MCNumbers
    ContextFlags <- MCContextFlags
    ContextKind <- MCContextKind
SYMMETRY Symmetry
INVARIANTS
    TypeOK
    PrintedFlagsWork
    ConsentGiven
    SaysWhatWasTyped
PROPERTY ResolutionIsStable
