SPECIFICATION Spec
CONSTANTS
    t1 = t1
    t2 = t2
    t3 = t3
    p1 = p1
    p2 = p2
    user = user
    twin = twin
    other = other
    Threads <- MCThreads
    Processes <- MCProcesses
    Home <- MCHome
    Models <- MCModels
    Columns <- MCColumns
    TableName <- MCTableName
    AutoCreate <- MCAutoCreate
    Imported = user
    Names <- MCNames
    OldIds = 1
    Old <- MCOld
    MaxOps = 3
    MaxFaults = 2
SYMMETRY Symmetry
CHECK_DEADLOCK FALSE
INVARIANTS
    TypeOK
    DisposedIsMarked
    OwnColumns
    LedgerIsExact
    InMetadata
PROPERTY RenameIsAtomic
