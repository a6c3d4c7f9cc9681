SPECIFICATION Spec
CONSTANTS
    Specs <- MCSpecs
    TestDirs <- MCTestDirs
    PathOrder <- MCPathOrder
    MarkerLines = {"assert"}
    NamedIn <- MCNamedIn
    MaxRelated = 2
    Nearby = 1
    NoLanguage = NoLanguage
    ImportOf <- MCImportOf
    Family <- MCFamily
    OpaqueLines = {"cfg"}
    Braces <- MCBraces
    Declares <- MCDeclares
    Attached <- MCAttached
    Exported = {"pubfn"}
    BlankLines = {""}
    ScreenLines = 3
    LocateLines = 2
    MaxIndexedLines = 6
    MaxEvidenceLines = 3
    UntrackedChunkLines = 4
    Tree <- MCTree
    History <- MCHistory
    Unborn = Unborn
    Ignored <- MCIgnored
    Similar <- MCSimilar
    Unified = 1
    NotRegular <- MCNotRegular
    BinaryTexts = {}
    Garbled <- MCGarbled
    Nothing = Nothing
    Written <- MCWritten
    Scopes <- MCScopes
    Excluded <- MCExcluded
    DocExtensions = {"md"}
    Manifests = {}
    MaxFiles = 4
    MaxFileLines = 7
    MaxTotalLines = 24
    Worlds <- MCWorlds
    Modes = {"live", "since", "pinned", "scan"}
    Auxiliary = {TRUE, FALSE}
    Stores <- MCStores
    CommitLimits <- MCCommitLimits
    MovePaths <- MCMovePaths
    MaxMoves <- MCMaxMoves
CHECK_DEADLOCK FALSE
INVARIANTS ChangesAreExact CandidatesFit CleanIsExact TextsAreTheirOwn EvidenceComplete
