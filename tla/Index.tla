------------------------------- MODULE Index -------------------------------
(***************************************************************************)
(* The regions of a file (review/regions.rs) and the index built before a  *)
(* review (review/index.rs): what a blob alone determines is kept between  *)
(* runs in a directory of entries (adapters/index_store.rs), what the tree *)
(* determines is resolved afresh.  An entry on disk may be missing,        *)
(* malformed, or an earlier run's.                                         *)
(***************************************************************************)
EXTENDS Imports

CONSTANTS Declares,       \* "rust" / "other" -> the lines that start a declaration
          Attached,       \* "rust" / "other" -> the lines that belong to the next one
          Exported,       \* declarations whose signature is kept
          BlankLines,
          ScreenLines,    \* the two region sizes kept in an entry (160, 80)
          LocateLines,
          MaxIndexedLines \* 2,000,000 characters, in lines

Syntax(p) == IF IsRust(p) THEN "rust" ELSE "other"

---------------------------------------------------------------------------
\* regions.rs.  A region is [start, size]: its first line, from 1, and its lines.
Chunks(first, last, max) ==
    [k \in 1..((last - first + max) \div max) |->
        LET start == first + (k - 1) * max
        IN [start |-> start, size |-> IF last - start + 1 < max THEN last - start + 1 ELSE max]]

\* Back across the attributes and docs just above a declaration.
Boundary(text, start, syntax) ==
    CHOOSE b \in 1..start :
        /\ \A i \in b..(start - 1) : text[i] \in Attached[syntax]
        /\ b = 1 \/ text[b - 1] \notin Attached[syntax]

NotBlank(text, first, last) == \E i \in first..last : text[i] \notin BlankLines

FunctionRegions(text, syntax, max) ==
    LET raw == Sorted({i \in DOMAIN text : text[i] \in Declares[syntax]}, LAMBDA a, b : a < b)
        starts == [k \in DOMAIN raw |-> Boundary(text, raw[k], syntax)]
        End(k) == IF k = Len(starts) THEN Len(text) ELSE starts[k + 1] - 1
        preamble == IF NotBlank(text, 1, starts[1] - 1) THEN Chunks(1, starts[1] - 1, max) ELSE <<>>
    IN IF raw = <<>> THEN Chunks(1, Len(text), max)
       ELSE preamble \o FlattenSeq([k \in DOMAIN starts |-> Chunks(starts[k], End(k), max)])

\* materialize_regions gives the spans of an entry up unless they tile the text.
Tiles(text, spans, max) ==
    LET Before(k) == IF k = 1 THEN 0 ELSE spans[k - 1].start + spans[k - 1].size - 1
    IN /\ spans # <<>>
       /\ \A k \in DOMAIN spans :
            /\ spans[k].size \in 1..max
            /\ spans[k].start > Before(k)
            /\ ~NotBlank(text, Before(k) + 1, spans[k].start - 1)
       /\ Before(Len(spans) + 1) = Len(text)

Signatures(text, syntax) ==
    SelectSeq(text, LAMBDA l : l \in Declares[syntax] /\ l \in Exported)

---------------------------------------------------------------------------
\* RepoIndex::build
\* Language affects extraction: the same bytes under another extension are
\* another entry.
Key(p, text) == <<text, IsRust(p), LanguageOf(p)>>
Extract(p, text) ==
    [blob |-> text,
     screen |-> FunctionRegions(text, Syntax(p), ScreenLines),
     locate |-> FunctionRegions(text, Syntax(p), LocateLines),
     imports |-> ExtractImports(p, text),
     signatures |-> Signatures(text, Syntax(p))]

\* An entry is trusted when its blob is this text and its regions tile it.
Valid(entry, text) ==
    /\ entry.blob = text
    /\ Tiles(text, entry.screen, ScreenLines)
    /\ Tiles(text, entry.locate, LocateLines)

\* As Cached, with no look at what the entry is of.
CachedUnread(p, text, store) ==
    IF Key(p, text) \in DOMAIN store THEN store[Key(p, text)] ELSE Extract(p, text)

\* store: a partial function from keys to entries, malformed ones left out.
Cached(p, text, store) ==
    IF Key(p, text) \in DOMAIN store /\ Valid(store[Key(p, text)], text)
    THEN store[Key(p, text)] ELSE Extract(p, text)

Indexed(texts) == {p \in DOMAIN texts : Len(texts[p]) <= MaxIndexedLines}

\* Two paths with one key write the same entry, or read the first one's.
WriteBack(texts, store) ==
    LET keys == {Key(p, texts[p]) : p \in Indexed(texts)}
        First(k) == CHOOSE p \in Indexed(texts) :
            /\ Key(p, texts[p]) = k
            /\ \A q \in Indexed(texts) : Key(q, texts[q]) = k => Rank(p) <= Rank(q)
    IN [k \in keys \cup DOMAIN store |->
          IF k \in keys THEN Cached(First(k), texts[First(k)], store) ELSE store[k]]

\* What is in the store once this run has built its index, and the index.
\* Sources give the graph; tests are matched to every source.
Build(texts, store) ==
    LET kept == WriteBack(texts, store)
        entries == [p \in Indexed(texts) |-> kept[Key(p, texts[p])]]
        sources == [p \in {q \in DOMAIN texts : ~IsTest(q)} |-> texts[p]]
        tests == {p \in DOMAIN texts : IsTest(p)}
        Candidates(p) == IF p \in DOMAIN entries THEN entries[p].imports
                         ELSE ExtractImports(p, texts[p])
        graph == GraphOf(sources, [p \in DOMAIN sources |-> Candidates(p)])
    IN [entries |-> entries,
        graph |-> graph,
        changedTests |-> <<>>,
        tests |-> [p \in DOMAIN sources |->
            LET related == RankedTests(p, tests)
            IN [i \in DOMAIN related |-> <<related[i], Snippet(texts[related[i]], p.name)>>]]]
=============================================================================
