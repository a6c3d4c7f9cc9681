------------------------------- MODULE Paths -------------------------------
(***************************************************************************)
(* What a path says of a file (domain/language.rs, review/context.rs): its *)
(* language, whether it is reviewed or is test context, and which tests    *)
(* are related to it.  A path is [dir, name, ext]; a name is the sequence  *)
(* of its words, so that "store_test" is <<"store", "_test">>.             *)
(***************************************************************************)
EXTENDS Lists

CONSTANTS Specs,       \* SPECS: language -> [extensions, testDirs, testNames]
          TestDirs,    \* TEST_DIRS
          PathOrder,   \* every path, in the order of their strings
          MarkerLines, \* lines with a test marker, or an assert
          NamedIn,     \* line -> the names it mentions
          MaxRelated,  \* MAX_RELATED_TESTS
          Nearby,      \* lines kept around a marker (2)
          NoLanguage

PathsAssumption == PathOrder \in Seq(ToSet(PathOrder)) /\ IsInjective(PathOrder)
ASSUME PathsAssumption

Rank(p) == CHOOSE i \in DOMAIN PathOrder : PathOrder[i] = p
SortPaths(paths) == Sorted(paths, LAMBDA p, q : Rank(p) < Rank(q))

---------------------------------------------------------------------------
\* language.rs
LanguageOf(p) ==
    IF \E l \in DOMAIN Specs : p.ext \in Specs[l].extensions
    THEN CHOOSE l \in DOMAIN Specs : p.ext \in Specs[l].extensions
    ELSE NoLanguage

IsSource(p) == LanguageOf(p) # NoLanguage
IsRust(p) == p.ext = "rs"

IsTestName(l, name) ==
    \E c \in Specs[l].testNames :
        \/ c.kind = "prefix" /\ Head(name) = c.word
        \/ c.kind = "suffix" /\ Last(name) = c.word
        \/ c.kind = "contains" /\ c.word \in ToSet(name)

\* Only the file's own language contributes directories of its own.
IsTest(p) ==
    LET l == LanguageOf(p)
        dirs == TestDirs \cup (IF l = NoLanguage THEN {} ELSE Specs[l].testDirs)
    IN \/ \E d \in ToSet(p.dir) : d \in dirs
       \/ l # NoLanguage /\ IsTestName(l, p.name)

---------------------------------------------------------------------------
\* context.rs: the tests that go with a file
Within(part, whole) == \E i \in 0..Len(whole) : IsPrefix(part, SubSeq(whole, i + 1, Len(whole)))

Mentions(test, source) ==
    Within(source.name, test.name) \/ \E d \in ToSet(test.dir) : Within(source.name, d)

Relatedness(source, test) ==
    (IF Mentions(test, source) THEN 2 ELSE 0)
      + (IF source.dir # <<>> /\ IsPrefix(source.dir, test.dir) THEN 1 ELSE 0)

RankedTests(source, tests) ==
    LET related == {t \in tests : Relatedness(source, t) > 0}
        Before(a, b) == Relatedness(source, a) > Relatedness(source, b)
    IN Take(StableSort(SortPaths(related), Before), MaxRelated)

\* A related test never arrives empty.
Snippet(text, stem) ==
    LET marked == {i \in DOMAIN text : text[i] \in MarkerLines
                    \/ (text[i] \in DOMAIN NamedIn /\ stem \in NamedIn[text[i]])}
        kept == {i \in DOMAIN text : \E m \in marked : i + Nearby >= m /\ m + Nearby >= i}
    IN IF kept = {} THEN text
       ELSE [k \in 1..Cardinality(kept) |->
                text[CHOOSE i \in kept : Cardinality({j \in kept : j <= i}) = k]]
=============================================================================
