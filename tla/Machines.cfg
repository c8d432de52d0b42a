CONSTANTS
    SrcFiles = {1, 2, 3}
    Symbols <- MCSymbols
    BareName <- MCBareName
    Texts <- MCTexts
    Absent = "absent"
    DefsOf <- MCDefs
    RefsOf <- MCRefs
    Manifests <- MCManifests
    FirstFiles <- MCFirst
    Returns = FALSE
    MaxEdits = 2
    MaxStamp = 2
    MaxTrouble = 1
    MaxDerivation = 2
    SizeOf <- MCSizes
    MaxActions = 3
    MaxBytes = 4
    MaxRetries = 2
    Sizes <- PipeSizes
    Heavy <- PipeHeavy
    Hands = {"hand1", "hand2"}
    Bound = 1
    MaxBatch = 2
    Parallel = 2
    Capacities <- PipeCapacities
    FirstCapacity <- Roomy
    MaxChanges = 1
    WatchFiles = {1, 2}
    MaxTouches = 2
    MaxWoes = 1
    file1 = file1
    file2 = file2
    t1 = t1
    t2 = t2
    t3 = t3
    NoText = NoText
    NoHash = NoHash
    NoRow = NoRow
    LocalFiles = {file1, file2}
    FileTexts = {t1, t2}
    Text <- Twice
    Versions = {1, 2}
    Failing = {"open", "abandon", "redo", "scan", "begin", "session",
               "write", "finalize", "commit", "publish", "gc"}
    MaxStamps = 2
    MaxFullBuilds = 4
    MaxFailures = 2
    Repos = {"a", "b", "c"}
    QualNames = {"n1", "n2"}
    Offers <- MCOffers
    FirstOffers <- MCFirstOffers
    FirstProjects <- MCFirstProjects
    LaterProjects <- MCLater
    DeclaredSets <- MCDeclared
    MaxEvents = 2
    MaxStages = 2
SPECIFICATION MachinesSpec
INVARIANTS LocalGraphRight NoActionLost PermitsSafe CommittedOnce ChangesTracked ReadersSeeWhole UnchangedTrue BindingsTrue
PROPERTIES PartsEnd 
CHECK_DEADLOCK FALSE
