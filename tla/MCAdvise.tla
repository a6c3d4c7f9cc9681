------------------------------ MODULE MCAdvise ------------------------------
\* Two families of checkouts: manifests that differ in every small way, and
\* two sources with the document that calls them.
EXTENDS Advise

Path(dir, name, ext) == [dir |-> dir, name |-> name, ext |-> ext]
Lock == Path(<<>>, <<"Cargo">>, "lock")
Toml == Path(<<>>, <<"Cargo">>, "toml")
Pkg == Path(<<>>, <<"package">>, "json")
NpmLock == Path(<<>>, <<"package", "lock">>, "json")
Req == Path(<<>>, <<"requirements">>, "txt")
Log == Path(<<>>, <<"changelog">>, "md")
Guide == Path(<<>>, <<"guide">>, "md")
A == Path(<<<<"src">>>>, <<"a">>, "rs")
B == Path(<<<<"src">>>>, <<"b">>, "rs")
MCPathOrder == <<Lock, Toml, Log, Guide, NpmLock, Pkg, Req, A, B>>
MCScopes == <<ToSet(MCPathOrder)>>
MCSpecs == [rust |-> [extensions |-> {"rs"}, testDirs |-> {}, testNames |-> {}]]
MCManifests == {Kind(p) : p \in {Lock, Toml, NpmLock, Pkg, Req}}
MCNone == [x \in {} |-> x]
MCDeclares == [rust |-> {}, other |-> {}]
MCCargoFiles == {Kind(Lock), Kind(Toml)}
MCWishes == {{"upgrades"}, {"docs"}, {"upgrades", "docs"}}

---------------------------------------------------------------------------
MCFormatOf == (Kind(Lock) :> "cargoLock") @@ (Kind(Toml) :> "cargoManifest") @@ (Kind(Pkg) :> "npmManifest")
                 @@ (Kind(NpmLock) :> "npmLock")
MCUnsupported == {Kind(Req)}
Dep(format, key, name, version, config) ==
    [format |-> format, key |-> key, name |-> <<name>>, version |-> version, config |-> config]
MCEntryOf == [
    x1 |-> Dep("cargoLock", <<"x", "s", "1.0.0">>, "x", "1.0.0", ""),
    x2 |-> Dep("cargoLock", <<"x", "s", "2.0.0">>, "x", "2.0.0", ""),
    x3 |-> Dep("cargoLock", <<"x", "s", "0.9.0">>, "x", "0.9.0", ""),
    xt |-> Dep("cargoLock", <<"x", "t", "1.0.0">>, "x", "1.0.0", ""),
    y1 |-> Dep("cargoLock", <<"y", "s", "1.0.0">>, "y", "1.0.0", ""),
    t1 |-> Dep("cargoManifest", <<"dependencies", "x">>, "x", "1.0.0", ""),
    t2 |-> Dep("cargoManifest", <<"dependencies", "x">>, "x", "2.0.0", "features"),
    ty |-> Dep("cargoManifest", <<"dependencies", "x">>, "y", "1.0.0", ""),
    tg |-> Dep("cargoManifest", <<"dependencies", "z">>, "z", "git with password", ""),
    th |-> Dep("cargoManifest", <<"dependencies", "z">>, "z", "git with token", ""),
    tm |-> Dep("cargoManifest", <<"dependencies", "z">>, "z", "git masked", ""),
    n1 |-> Dep("npmLock", <<"lock", "x">>, "x", "1.0.0", ""),
    n2 |-> Dep("npmLock", <<"lock", "x">>, "x", "2.0.0", ""),
    nn |-> Dep("npmLock", <<"lock", "y", "x">>, "x", "0.9.0", ""),
    v1 |-> Dep("npmLockV1", <<"lock", "x">>, "x", "1.0.0", ""),
    vn |-> Dep("npmLockV1", <<"lock", "y", "x">>, "x", "0.9.0", ""),
    vd |-> Dep("npmLockV1", <<"lock", "y", "x", "z">>, "z", "1.0.0", ""),
    p1 |-> Dep("npmManifest", <<"dependencies", "x">>, "x", "1.0.0", ""),
    p2 |-> Dep("npmManifest", <<"dependencies", "x">>, "x", "2.0.0", ""),
    pd |-> Dep("npmManifest", <<"devDependencies", "x">>, "x", "1.0.0", ""),
    pa |-> Dep("npmManifest", <<"dependencies", "x">>, "y", "workspace", "")]
MCInventoryOf == [packages |-> "npmLock", deps |-> "npmLockV1", local |-> "cargoLock"]
                   @@ [l \in {"x1", "x2", "x3", "xt", "y1"} |-> "cargoLock"]
MCSettingOf == [patch |-> [format |-> "cargoManifest", field |-> "patch"],
                overrides |-> [format |-> "npmManifest", field |-> "overrides"]]
MCSemver == [v \in {"1.0.0", "2.0.0", "0.9.0"} |->
    CASE v = "1.0.0" -> <<1, 0, 0>> [] v = "2.0.0" -> <<2, 0, 0>> [] OTHER -> <<0, 9, 0>>]
MCHeadingOf == [headX2 |-> [level |-> 2, versions |-> {"2.0.0"}, names |-> {<<"x">>}],
                headY |-> [level |-> 2, versions |-> {"1.0.0"}, names |-> {<<"y">>}]]
MCMasked == [tg |-> "tm", th |-> "tm"]

LockTexts == {<<"version 3">>, <<"local">>} \cup {SelectSeq(<<"x1", "x2", "x3", "xt", "y1">>, LAMBDA l : l \in S) :
                S \in SUBSET {"x1", "x2", "x3", "xt", "y1"}}
Lines2(lines) == {<<>>} \cup {<<l>> : l \in lines} \cup {<<l, m>> : l \in lines, m \in lines}
TomlTexts == {<<"t1", "broken">>} \cup Lines2({"t1", "t2", "ty", "tg", "th", "patch"})
PkgTexts == Lines2({"p1", "p2", "pd", "pa"})
NpmLockTexts == {
    <<"">>, <<"version 3">>, <<"broken", "packages", "n1">>,
    <<"packages">>, <<"packages", "n1">>, <<"packages", "n2">>, <<"packages", "n1", "nn">>,
    <<"packages", "n2", "nn", "deps", "v1">>, <<"deps", "v1">>, <<"deps", "v1", "vn">>,
    <<"deps", "v1", "vn", "vd">>}
LogText == <<"headX2", "", "removed x", "headY", "words">>

---------------------------------------------------------------------------
MCFence == [fence |-> "rust", close |-> "other", shell |-> "other"]
MCCallOf == [callF |-> [name |-> "f", qualified |-> FALSE, paths |-> {}, arity |-> 1],
             callAG |-> [name |-> "g", qualified |-> TRUE, paths |-> {A}, arity |-> 0],
             callG |-> [name |-> "g", qualified |-> FALSE, paths |-> {}, arity |-> Unclear],
             callOtherF |-> [name |-> "f", qualified |-> TRUE, paths |-> {}, arity |-> 1]]
MCLinkOf == [linkA |-> A, linkB |-> B]
MCLocal == [letF |-> {"f"}]
MCDeclOf == [f0 |-> [name |-> "f", arity |-> 0], f1 |-> [name |-> "f", arity |-> 1],
             fq |-> [name |-> "f", arity |-> Unclear], g0 |-> [name |-> "g", arity |-> 0]]
MCNamedIn == [f0 |-> {"f"}, f1 |-> {"f"}, fq |-> {"f"}, g0 |-> {"g"}, privateF |-> {"f"}, useG |-> {"g"}]
MCBraces == [mod |-> 1, end |-> -1]
MCAttached == [rust |-> {"attr"}, other |-> {}]

Guides == {<<"linkA", "fence", "callF", "callAG", "close">>,
           <<"linkA", "linkB", "fence", "callF", "close", "shell", "close">>,
           <<"linkA", "fence", "letF", "callOtherF", "close">>,
           <<"fence", "letF", "callF", "callG", "close", "linkA">>,
           <<"fence", "callF">>}
SourceTexts == {<<"f0", "g0">>, <<"f1">>, <<"privateF", "useG">>, <<"cfg", "attr", "f1", "g0">>,
                <<"mod", "f0", "end", "g0">>, <<"x", "pub use">>, <<"fq", "wide">>, <<"x">>, <<"x", "g0">>}
MCSimilar == {<<t, u>> : t \in SourceTexts, u \in {<<"x", "g0">>, <<"mod", "f0", "end", "g0">>}}

\* A commit is named by its tree.
ManifestTrees ==
    {(Lock :> t) @@ (Log :> LogText) : t \in LockTexts}
      \cup {(Toml :> t) @@ (Log :> LogText) : t \in TomlTexts}
      \cup {(Pkg :> t) @@ (Req :> <<"r">>) : t \in PkgTexts}
      \cup {(Pkg :> <<"p1">>) @@ (Req :> <<"q">>)}
      \cup {(NpmLock :> t) @@ (Log :> LogText) : t \in NpmLockTexts}
BaseSources == {(A :> t) @@ (Guide :> g) : t \in SourceTexts, g \in Guides}
Sources == {(A :> t) @@ (B :> u) : t \in SourceTexts, u \in {<<"f0", "g0">>, <<"f1">>, <<"x", "g0">>}}
             \cup {(p :> t) : p \in {A, B}, t \in SourceTexts}
MCTree == [t \in ManifestTrees \cup BaseSources |-> t]
MCHistory == [t \in DOMAIN MCTree |-> {t}]

World(commit, tracked, work) ==
    [head |-> commit, ref |-> commit, tracked |-> tracked,
     work |-> [p \in DOMAIN work |-> [ino |-> Rank(p), text |-> work[p]]]]

\* Edited manifests, one that went, and sources that moved, staged or not.
MCWorlds ==
    UNION {{World(t, DOMAIN t, u) : u \in {v \in ManifestTrees : DOMAIN v = DOMAIN t}}
             \cup {World(t, DOMAIN t, Without(t, Lock))} : t \in ManifestTrees}
      \cup {World(t, tracked, (Guide :> t[Guide]) @@ u) :
               t \in BaseSources, u \in Sources, tracked \in {{A, Guide}, {B, Guide}}}
MCFindings == {<<"finding">>}
=============================================================================
