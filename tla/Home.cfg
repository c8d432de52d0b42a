CONSTANTS
    Trees <- TreesMC
    FirstTrees <- FirstMC
    RuleSets <- RulesMC
    ExcludedNames = {"modules"}
    SecretNames = {"secret"}
    CodeNames = {"a.rs", "c.rs", "d.rs", "e.rs", "l.rs", "x.rs"}
    Releases <- MCReleases
    FirstVersion = 1
    ModelFiles = {"model"}
    MaxCommands = 4
    MaxMishaps = 2
    Terminals = {"c1", "c2"}
    Checkers = {"k1", "k2"}
    LastRelease = 2
    MaxTicks = 2
    MaxPasses = 2
    MaxRestores = 2
    MaxFaults = 1
    Pids = {1, 2, 3}
    Shells = {"sh1", "sh2"}
    MaxOrders = 3
    MaxHarms = 1
    ReportedSources = {1, 2}
    Owners = {"cli", "ui", "daemon"}
    MaxInRun = 1
    MaxKept = 0
    MaxRuns = 2
    MaxDeaths = 1
    Hosted = {"s1", "s2"}
    Contended = {"s1"}
    Reads = 1
    MaxWork = 4
    MaxSlips = 1
    Entities <- MCEntities
    EntityLinks <- MCEntityLinks
    Graphs <- MCGraphs
    Asks <- MCAsks
    TextHits <- MCTextHits
    VectorItems <- MCVectorItems
    CallTypes = {1}
    ReferenceTypes = {1, 2}
    DefaultDepth = 1
    DefaultLimit = 5
    LowMax = 2
    MediumMax = 4
    Contents <- MCContents
    Queries <- MCQueries
    Edges <- MCEdges
    EdgeReads <- MCEdgeReads
    MaxRead = 4
    PageSize = 2
    BaseBuilds = {1, 2}
    GraphGens = {1, 2}
    Shelves <- MCShelves
    Questions <- MCQuestions
    Settings <- MCSettings
    StopWords = {"the", "of"}
    LongWords = {"order", "policy", "billing"}
    IdentWords = {"Ab7"}
    WordStarts <- MCWordStarts
    MaxGroups = 2
    PerFile = 2
    LexicalBudget = 2
    SemanticBudget = 2
    FusionBudget = 2
    Inquiries <- MCInquiries
    Switches <- MCSwitches
    Calls <- MCCallsOf
    MinFetch = 5
    PrintWords = 2
    MaxWindows = 3
    Papers = {"code", "doc"}
    FileContents <- StoreContents
    FileMay <- StoreHolds
    Firsts <- StoreFirsts
    Defines <- StoreDefines
    Sections <- StoreSections
    Refers <- StoreRefers
    Spells <- StoreMentions
    WindowSize = 2
    MaxDrafts = 2
    MaxModels = 2
    MaxWrites = 2
    MaxFailedPasses = 1
    CodeFiles = {"order.js", "$.js"}
    DocFiles = {"guide", "help"}
    FileNames <- MCNamesOf
    PathOf <- MCPathOf
    LinkContents <- MCLinkContents
    FirstContents <- MCFirst
    Marks = {" ", ".", "$", "/"}
    GenericNames <- MCGenericNames
    LinkRefs <- MCLinkRefs
    MaxLinks = 2
    MaxEdits = 2
    MaxLinkCommands = 1
SPECIFICATION HomeSpec
INVARIANTS ScanRight InstallRight   StatusRight ReadingRight  StoreRight LinkingRight LifeRight 
CHECK_DEADLOCK FALSE
