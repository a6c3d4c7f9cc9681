------------------------------ MODULE Upgrades ------------------------------
(***************************************************************************)
(* review/upgrades.rs: what changed between two texts of a manifest or a   *)
(* lockfile.  A difference that cannot be read is unknown, and two         *)
(* versions are an upgrade only when nothing else can be meant.            *)
(*                                                                         *)
(* A line that declares a dependency is EntryOf[line]: its key within the  *)
(* inventory, the package's name, the version and the configuration.  Of   *)
(* Cargo.lock the key is <<name, source, version>>; of an npm lockfile it  *)
(* is the path of installed packages, however the file is laid out.        *)
(* Entries the parsers pass over (workspace packages, links) are no        *)
(* entries here.                                                           *)
(***************************************************************************)
EXTENDS Evidence

CONSTANTS FormatOf,        \* <<name, ext>> of the manifests read -> their format
          Unsupported,     \* <<name, ext>> of those that are not
          EntryOf,         \* line -> [format, key, name, version, config]
          InventoryOf,     \* line -> the format whose inventory it is part of
          SettingOf,       \* line -> [format, field]: patch, overrides, workspaces...
          Broken,          \* lines that make the text invalid
          Quoted,          \* lines that open a multiline string
          MaxDependencies,
          MaxNesting,      \* dependencies of dependencies in an old npm lockfile
          Semver,          \* version -> <<major, minor, patch>>, of those that have one
          ExactVersions,   \* the versions with three plain parts
          HeadingOf,       \* line -> [level, versions, names]
          NotesWords,      \* changelog, changes, release
          NotesWindow,     \* lines read below a heading (12)
          Breaking         \* lines that say so and do not deny it

Kind(p) == <<p.name, p.ext>>
Formatted(p) == Kind(p) \in DOMAIN FormatOf

---------------------------------------------------------------------------
\* parse: key -> [name, version, config, line], or Nothing.  A repeated key
\* is an error in TOML; in JSON the last one counts, and has no line.
EntriesAt(format, text) ==
    {i \in DOMAIN text : text[i] \in DOMAIN EntryOf /\ EntryOf[text[i]].format = format}
AtKey(format, text, key) == {i \in EntriesAt(format, text) : EntryOf[text[i]].key = key}

\* A lockfile without its inventory is an error.  npm's old one is read only
\* where the new one is not.
Present(text) == {InventoryOf[l] : l \in ToSet(text) \cap DOMAIN InventoryOf}
Layout(format, text) ==
    IF format = "npmLock" /\ format \notin Present(text) THEN "npmLockV1" ELSE format

LineOf(format, text, key) ==
    IF \/ format # "cargoLock" /\ Cardinality(AtKey(format, text, key)) > 1
       \/ format = "cargoManifest" /\ ToSet(text) \cap Quoted # {}
    THEN 0 ELSE Max(AtKey(format, text, key))

ParseAs(format, text) ==
    LET keys == {EntryOf[text[i]].key : i \in EntriesAt(format, text)}
        repeated == \E k \in keys : Cardinality(AtKey(format, text, k)) > 1
    IN IF \/ ToSet(text) \cap Broken # {}
          \/ Cardinality(keys) > MaxDependencies
          \/ format = "cargoManifest" /\ repeated
          \/ format \in {"cargoLock", "npmLockV1"} /\ format \notin Present(text)
          \/ format = "npmLockV1" /\ \E k \in keys : Len(k) > MaxNesting + 2
       THEN Nothing
       ELSE [k \in keys |->
               LET entry == EntryOf[text[Max(AtKey(format, text, k))]] IN
               [name |-> entry.name, version |-> entry.version, config |-> entry.config,
                line |-> LineOf(format, text, k)]]

\* A blank text, or none, declares nothing.
Parse(format, text) ==
    IF ToSet(text) \subseteq BlankLines THEN [k \in {} |-> Nothing]
    ELSE ParseAs(Layout(format, text), text)

---------------------------------------------------------------------------
\* pair_cargo_versions: one version gone and one come of the same package
\* and source are a pair; more are left as removals and additions.
\* Mutant: a package of another source is taken for the same.
IdentityByName(key) == <<key[1], "">>

Identity(key) == <<key[1], key[2]>>
Gone(before, after) == DOMAIN before \ DOMAIN after
OfIdentity(keys, id) == {k \in keys : Identity(k) = id}

Pairs(before, after) ==
    {id \in {Identity(k) : k \in Gone(before, after)} :
        /\ Cardinality(OfIdentity(Gone(before, after), id)) = 1
        /\ Cardinality(OfIdentity(Gone(after, before), id)) = 1}

Ambiguous(before, after) ==
    \E id \in {Identity(k) : k \in Gone(before, after)} \ Pairs(before, after) :
        OfIdentity(Gone(after, before), id) # {}

\* One inventory, with the paired versions of `other` under a common key.
Rekeyed(inventory, other, pairs) ==
    LET paired == {k \in Gone(inventory, other) : Identity(k) \in pairs}
        Key1(id) == CHOOSE k \in paired : Identity(k) = id
    IN [k \in DOMAIN inventory \ paired |-> inventory[k]]
         @@ [k \in {Append(id, "upgrade") : id \in pairs} |-> inventory[Key1(Identity(k))]]

---------------------------------------------------------------------------
\* record
Lexicographic(a, b) ==
    \E i \in 1..3 : a[i] < b[i] /\ \A j \in 1..(i - 1) : a[j] = b[j]

VersionRisk(old, new) ==
    IF {old, new} \subseteq DOMAIN Semver
    THEN LET a == Semver[old]
             b == Semver[new]
         IN CASE Lexicographic(b, a) -> "downgrade"
              [] a[1] # b[1] -> "majorChange"
              [] a[1] = 0 /\ a[1] = b[1] /\ (a[2] # b[2] \/ (a[2] = 0 /\ a[3] # b[3])) -> "preOneChange"
              [] OTHER -> "semverCompatibleSignal"
    ELSE "unknown"

Risk(old, new) ==
    CASE new = Nothing -> "removal"
      [] old = Nothing -> "newDependency"
      [] old # Nothing /\ new # Nothing /\ old.version = new.version
           /\ old.config # new.config -> "unknown"
      [] OTHER -> VersionRisk(old.version, new.version)

\* A version that is none is never shown.
Display(version) == IF version \in DOMAIN Semver THEN version ELSE "unresolved"

\* release_notes: the headings that name the package, or whose file does,
\* and this version, with what follows them up to the next heading.
IsNotes(p) == ToSet(p.name) \cap NotesWords # {}
NamesFile(p, name) == name \in ToSet(p.dir) \/ IsPrefix(Append(name, "-"), p.name)
Below(text, i) ==
    {j \in (i + 1)..(i + NotesWindow) :
        /\ j <= Len(text) /\ text[j] \notin BlankLines
        /\ \A k \in (i + 1)..j : text[k] \in DOMAIN HeadingOf =>
             HeadingOf[text[k]].level > HeadingOf[text[i]].level}

ReleaseNotes(name, version, files) ==
    UNION {LET p == file[1]
               text == file[2]
               headings == {i \in DOMAIN text :
                   /\ text[i] \in DOMAIN HeadingOf
                   /\ version \in HeadingOf[text[i]].versions
                   /\ NamesFile(p, name) \/ name \in HeadingOf[text[i]].names}
           IN {text[j] : j \in headings \cup UNION {Below(text, i) : i \in headings}} :
             file \in {f \in files : IsNotes(f[1])}}

Record(c, key, old, new, files) ==
    LET dep == IF new = Nothing THEN old ELSE new
        notes == IF new # Nothing /\ new.version \in ExactVersions
                 THEN ReleaseNotes(dep.name, new.version, files) ELSE {}
    IN [path |-> c.path, key |-> key, name |-> dep.name,
        kind |-> IF old = Nothing THEN "added" ELSE IF new = Nothing THEN "removed" ELSE "changed",
        risk |-> IF notes \cap Breaking # {} THEN "changelogBreakingSignal" ELSE Risk(old, new),
        oldVersion |-> IF old = Nothing THEN Nothing ELSE Display(old.version),
        newVersion |-> IF new = Nothing THEN Nothing ELSE Display(new.version),
        oldLine |-> IF old = Nothing THEN 0 ELSE old.line,
        line |-> IF new = Nothing THEN 0 ELSE new.line,
        told |-> {why \in {"notes", "line", "version"} :
                    CASE why = "notes" -> new # Nothing \/ notes # {}
                      [] why = "line" -> (old # Nothing /\ old.line = 0) \/ (new # Nothing /\ new.line = 0)
                      [] why = "version" -> \/ Risk(old, new) = "unknown"
                                            \/ new # Nothing /\ new.version \notin DOMAIN Semver}]

---------------------------------------------------------------------------
\* assess, of one changed path
Settings(format, field, text) ==
    SelectSeq(text, LAMBDA l : l \in DOMAIN SettingOf /\ SettingOf[l].format = format
                                 /\ SettingOf[l].field = field)
Fields(format) == {SettingOf[l].field : l \in {m \in DOMAIN SettingOf : SettingOf[m].format = format}}

Inventories(c) ==
    LET format == FormatOf[Kind(c.path)]
    IN <<Parse(format, c.base), Parse(format, IF c.content = Nothing THEN <<>> ELSE c.content)>>

\* Another package under the same key is not an upgrade of the first.
Compare(c, before, after, files) ==
    UNION {LET old == IF k \in DOMAIN before THEN before[k] ELSE Nothing
               new == IF k \in DOMAIN after THEN after[k] ELSE Nothing
               same == old # Nothing /\ new # Nothing /\ old.name = new.name
           IN CASE same /\ old.version = new.version /\ old.config = new.config -> {}
                [] old # Nothing /\ new # Nothing /\ ~same ->
                     {Record(c, k, old, Nothing, files), Record(c, k, Nothing, new, files)}
                [] OTHER -> {Record(c, k, old, new, files)} :
             k \in DOMAIN before \cup DOMAIN after}

Assess(c, files) ==
    LET pair == Inventories(c)
        lock == FormatOf[Kind(c.path)] = "cargoLock"
        pairs == IF lock THEN Pairs(pair[1], pair[2]) ELSE {}
        before == IF lock THEN Rekeyed(pair[1], pair[2], pairs) ELSE pair[1]
        after == IF lock THEN Rekeyed(pair[2], pair[1], pairs) ELSE pair[2]
        unset == {f \in Fields(FormatOf[Kind(c.path)]) :
                    Settings(FormatOf[Kind(c.path)], f, c.base)
                      # Settings(FormatOf[Kind(c.path)], f, IF c.content = Nothing THEN <<>> ELSE c.content)}
        changes == Compare(c, before, after, files)
    IN IF ~Formatted(c.path)
       THEN [changes |-> {},
             unknowns |-> IF Kind(c.path) \in Unsupported THEN {<<c.path, "unsupported">>} ELSE {}]
       ELSE IF Nothing \in {pair[1], pair[2]}
       THEN [changes |-> {}, unknowns |-> {<<c.path, "unparsed">>}]
       ELSE [changes |-> changes,
             unknowns |-> (IF lock /\ Ambiguous(pair[1], pair[2]) THEN {<<c.path, "ambiguous">>} ELSE {})
                \cup {<<c.path, f>> : f \in unset}
                \cup UNION {{<<c.path, d.key, why>> : why \in d.told} : d \in changes}]

UpgradeSummary(changes, files) ==
    [changes |-> UNION {Assess(c, files).changes : c \in changes},
     unknowns |-> UNION {Assess(c, files).unknowns : c \in changes}]

\* What deserves a finding; a removed declaration has no current line.
UpgradeFindings(summary) ==
    {[file |-> d.path, line |-> d.line, mechanism |-> "dependencyUpgrade",
      evidence |-> <<d.key, d.kind, d.oldLine, d.line>>] :
        d \in {e \in summary.changes :
                 e.risk \in {"removal", "majorChange", "preOneChange", "downgrade",
                             "changelogBreakingSignal"}}}
=============================================================================
