------------------------------ MODULE Imports ------------------------------
(***************************************************************************)
(* adapters/imports.rs: the neighbours of a file.  The graph of the review *)
(* context resolves an import by the suffix of a module path; the          *)
(* architecture map takes only a unique exact path from a line outside     *)
(* every block, and gives a file up when it cannot read it.                *)
(***************************************************************************)
EXTENDS Paths, Integers

CONSTANTS ImportOf,     \* line -> [family, anchor, target]: a use, mod or relative import
          Family,       \* language -> "rust" or "js", for those with an extractor
          OpaqueLines,  \* block comments, raw strings, cfg: the map gives the file up
          Braces        \* line -> opened minus closed, for the lines with any

FamilyOf(p) == IF LanguageOf(p) \in DOMAIN Family THEN Family[LanguageOf(p)] ELSE "none"

ImportsIn(p, text) ==
    {i \in DOMAIN text : text[i] \in DOMAIN ImportOf /\ ImportOf[text[i]].family = FamilyOf(p)}

\* extract_imports
ExtractImports(p, text) == {ImportOf[text[i]].target : i \in ImportsIn(p, text)}

---------------------------------------------------------------------------
\* Resolver
ModuleLeaf == {<<"mod">>, <<"index">>}
DropLeaf(segments) ==
    IF segments # <<>> /\ Last(segments) \in ModuleLeaf THEN Front(segments) ELSE segments
NormalizePath(p) == DropLeaf(Append(p.dir, p.name))

SuffixMatches(files, target) ==
    {f \in files : NormalizePath(f) # <<>> /\ IsSuffix(target, NormalizePath(f))}

\* Under the importer's directory first, then deeper, then by path.
Better(a, b, importer) ==
    LET dir == Len(importer) - 1
        Relative(f) == dir > 0 /\ Len(NormalizePath(f)) > dir
                         /\ SubSeq(NormalizePath(f), 1, dir) = SubSeq(importer, 1, dir)
        depthA == Len(NormalizePath(a))
        depthB == Len(NormalizePath(b))
    IN \/ Relative(a) /\ ~Relative(b)
       \/ /\ Relative(a) = Relative(b)
          /\ depthA > depthB \/ (depthA = depthB /\ Rank(a) < Rank(b))

\* The file a target names, as a set of at most one.
Resolve(files, target, from) ==
    LET cand == DropLeaf(target)
        exact == IF cand = <<>> THEN {} ELSE SuffixMatches(files, cand)
        matches == IF exact = {} /\ FamilyOf(from) = "rust" /\ Len(cand) > 1
                   THEN SuffixMatches(files, Front(cand)) ELSE exact
    IN {f \in matches : \A g \in matches \ {f} : Better(f, g, NormalizePath(from))}

---------------------------------------------------------------------------
\* StrictResolver and strict_edges
MatchingPaths(files, stem, family) ==
    {f \in files :
        /\ FamilyOf(f) = family
        /\ Append(f.dir, f.name) \in
             {stem, Append(stem, IF family = "rust" THEN <<"mod">> ELSE <<"index">>)}}

Parent(path) == IF path = <<>> THEN <<>> ELSE Front(path)
ModuleParent(p) ==
    IF p.name \in {<<"main">>, <<"lib">>, <<"mod">>} THEN p.dir ELSE Append(p.dir, p.name)

\* Where a declaration looks, from the directory its anchor names; a crate's
\* directory is the last one called src, and some anchors are given up.
AnchorDirs(p, import) ==
    CASE import.anchor = "crate" ->
           {SubSeq(p.dir, 1, i) : i \in {j \in DOMAIN p.dir :
               p.dir[j] = <<"src">> /\ <<"src">> \notin ToSet(SubSeq(p.dir, j + 1, Len(p.dir)))}}
      [] import.anchor = "super" -> {Parent(ModuleParent(p))}
      [] import.anchor = "superSuper" -> {}
      [] import.anchor = "relative" ->
           IF import.up > Len(p.dir) THEN {} ELSE {SubSeq(p.dir, 1, Len(p.dir) - import.up)}
      [] OTHER -> {ModuleParent(p)}

Depth(text, n) ==
    MapThenSumSet(LAMBDA i : Braces[text[i]], {j \in 1..n : text[j] \in DOMAIN Braces})

\* Braces that never close, or close too much, disprove the scopes counted.
Readable(p, text) ==
    /\ FamilyOf(p) \in {"rust", "js"}
    /\ ToSet(text) \cap OpaqueLines = {}
    /\ \A n \in DOMAIN text : Depth(text, n) >= 0
    /\ Depth(text, Len(text)) = 0

Unique(matches, p) == IF Cardinality(matches) = 1 THEN matches \ {p} ELSE {}

StrictTargets(files, p, import) ==
    UNION {LET stem == dir \o import.target
               exact == MatchingPaths(files, stem, FamilyOf(p))
               item == import.anchor # "mod" /\ FamilyOf(p) = "rust" /\ exact = {}
           IN Unique(IF item THEN MatchingPaths(files, Parent(stem), "rust") ELSE exact, p) :
             dir \in AnchorDirs(p, import)}

\* texts: path -> lines
StrictEdges(texts, p) ==
    IF ~Readable(p, texts[p]) THEN {}
    ELSE UNION {{<<p, to, i>> : to \in StrictTargets(DOMAIN texts, p, ImportOf[texts[p][i]])} :
                  i \in {j \in ImportsIn(p, texts[p]) : Depth(texts[p], j - 1) = 0}}

---------------------------------------------------------------------------
\* ImportGraph: candidates are what each file says it imports.
GraphOf(texts, candidates) ==
    LET links == UNION {{<<p, to>> : to \in UNION {Resolve(DOMAIN texts, t, p) : t \in candidates[p]}} :
                          p \in DOMAIN texts}
    IN [neighbors |-> [p \in DOMAIN texts |->
            {q \in DOMAIN texts \ {p} : <<p, q>> \in links \/ <<q, p>> \in links}],
        edges |-> UNION {StrictEdges(texts, p) : p \in DOMAIN texts}]
=============================================================================
