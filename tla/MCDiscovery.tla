---------------------------- MODULE MCDiscovery ----------------------------
\* A Rust and a TypeScript file that import each other's neighbours, a test, a
\* document; three commits on two branches.
EXTENDS Discovery

A == [dir |-> <<<<"src">>>>, name |-> <<"a">>, ext |-> "rs"]
B == [dir |-> <<<<"src">>>>, name |-> <<"b">>, ext |-> "rs"]
C == [dir |-> <<<<"src">>>>, name |-> <<"c">>, ext |-> "ts"]
T == [dir |-> <<<<"tests">>>>, name |-> <<"a", "_test">>, ext |-> "rs"]
M == [dir |-> <<>>, name |-> <<"readme">>, ext |-> "md"]
V == [dir |-> <<<<"src">>>>, name |-> <<"v">>, ext |-> "rs"]
MCPathOrder == <<M, A, B, C, V, T>>
MCExcluded == {V}
MCIgnored == {M}

MCSpecs == [
    rust |-> [extensions |-> {"rs"}, testDirs |-> {},
              testNames |-> {[kind |-> "suffix", word |-> "_test"]}],
    typescript |-> [extensions |-> {"ts"}, testDirs |-> {<<"spec">>},
              testNames |-> {[kind |-> "contains", word |-> ".spec."]}]]
MCTestDirs == {<<"tests">>}
MCFamily == [rust |-> "rust", typescript |-> "js"]
MCImportOf == [
    useB |-> [family |-> "rust", anchor |-> "crate", up |-> 0, target |-> <<<<"b">>, <<"Item">>>>],
    modA |-> [family |-> "rust", anchor |-> "mod", up |-> 0, target |-> <<<<"a">>>>],
    importA |-> [family |-> "js", anchor |-> "relative", up |-> 0, target |-> <<<<"a">>>>]]
MCNamedIn == [useB |-> {<<"b">>}, modA |-> {<<"a">>}]
MCBraces == [fn |-> 1, end |-> -1]
MCDeclares == [rust |-> {"fn", "pubfn"}, other |-> {"const", "pubfn"}]
MCAttached == [rust |-> {"doc"}, other |-> {"deco"}]

\* Texts
One == <<"useB", "x", "fn", "y", "end">>
OneChanged == <<"useB", "z", "fn", "y", "doc", "end", "pubfn">>
Two == <<"modA", "doc", "pubfn", "y">>
TwoChanged == <<"modA", "doc", "pubfn", "">>
Test == <<"useB", "assert">>
Doc == <<"words">>
Link == <<"link">>
Garbage == <<"garbage">>
MCNotRegular == {Link}
MCGarbled == {Garbage}
MCWritten == {TwoChanged, Garbage}
MCMovePaths == {B, C}
MCSimilar == {<<Two, Two>>, <<Two, TwoChanged>>, <<TwoChanged, Two>>, <<One, One>>, <<Test, Test>>}

MCTree == [
    c1 |-> (A :> One) @@ (B :> Two),
    c2 |-> (A :> OneChanged) @@ (B :> Two) @@ (T :> Test) @@ (M :> Doc),
    c3 |-> (A :> One) @@ (C :> TwoChanged)]
MCHistory == [c1 |-> {"c1"}, c2 |-> {"c1", "c2"}, c3 |-> {"c1", "c3"}]

File(p, text) == [ino |-> Rank(p), text |-> text]
Checkout(tree) == [p \in DOMAIN tree |-> File(p, tree[p])]
World(head, ref, tracked, tree) ==
    [head |-> head, ref |-> ref, tracked |-> tracked, work |-> Checkout(tree)]

MCWorlds == {
    World("c2", "c3", {A, B, T, M}, MCTree["c2"]),
    World("c3", "c2", {A, C}, MCTree["c3"]),
    World("c2", "c1", {A, C, T, M},
          (A :> <<"x", "useB", "pubfn", "y", "end", "", "">>) @@ (B :> Two) @@ (C :> Two) @@ (M :> Doc)),
    World("c1", "c3", {B}, (A :> One) @@ (B :> TwoChanged) @@ (C :> Link) @@ (M :> Doc) @@ (T :> Test)),
    World("c2", "c1", {A, B, C, M}, (A :> OneChanged) @@ (B :> Two) @@ (C :> Test) @@ (M :> Doc)),
    World(Unborn, "c1", {A}, (A :> One) @@ (B :> OneChanged) @@ (V :> Two))}

Src == {A, B, C, V}
MCScopes == <<Src, Src \cup {T, M}>>
MCCommitLimits == [files |-> 3, lines |-> 7, total |-> 13]
MCMaxMoves == [live |-> 1, since |-> 1, pinned |-> 1, scan |-> 2]

MCStores == {<<>>,
    WriteBack((C :> One) @@ (B :> OneChanged), <<>>),
    [k \in {Key(A, One)} |-> [Extract(A, One) EXCEPT !.screen = <<>>, !.imports = {}]]
      @@ [k \in {Key(B, Two)} |-> Extract(A, One)]}
=============================================================================
