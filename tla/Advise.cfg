SPECIFICATION Spec
CONSTANTS
    Specs <- MCSpecs
    TestDirs = {}
    PathOrder <- MCPathOrder
    MarkerLines = {}
    NamedIn <- MCNamedIn
    MaxRelated = 2
    Nearby = 1
    NoLanguage = NoLanguage
    ImportOf <- MCNone
    Family <- MCNone
    OpaqueLines = {}
    Braces <- MCBraces
    Declares <- MCDeclares
    Attached <- MCAttached
    Exported = {}
    BlankLines = {""}
    ScreenLines = 3
    LocateLines = 2
    MaxIndexedLines = 6
    MaxEvidenceLines = 3
    UntrackedChunkLines = 4
    Tree <- MCTree
    History <- MCHistory
    Unborn = Unborn
    Ignored = {}
    Similar <- MCSimilar
    Unified = 1
    NotRegular = {}
    BinaryTexts = {}
    Garbled = {}
    Nothing = Nothing
    Written = {}
    Scopes <- MCScopes
    Excluded = {}
    DocExtensions = {"md"}
    Manifests <- MCManifests
    MaxFiles = 6
    MaxFileLines = 7
    MaxTotalLines = 40
    FormatOf <- MCFormatOf
    Unsupported <- MCUnsupported
    EntryOf <- MCEntryOf
    InventoryOf <- MCInventoryOf
    SettingOf <- MCSettingOf
    Broken = {"broken"}
    Quoted = {"quoted"}
    MaxDependencies = 4
    MaxNesting = 1
    Semver <- MCSemver
    ExactVersions = {"1.0.0", "2.0.0", "0.9.0"}
    HeadingOf <- MCHeadingOf
    NotesWords = {"changelog"}
    NotesWindow = 2
    Breaking = {"removed x"}
    Markdown = {"md"}
    CargoFiles <- MCCargoFiles
    Fence <- MCFence
    Closing = {"close"}
    CallOf <- MCCallOf
    LinkOf <- MCLinkOf
    Wild = {"wild"}
    Local <- MCLocal
    DeclOf <- MCDeclOf
    Unread = {"wide"}
    CfgLines = {"cfg"}
    CrateCfg = {"crate cfg"}
    ReExports = {"pub use"}
    Unclear = Unclear
    Worlds <- MCWorlds
    Wishes <- MCWishes
    Masked <- MCMasked
    Findings <- MCFindings
INVARIANTS UpgradesReconcile DriftIsProven
CHECK_DEADLOCK FALSE
