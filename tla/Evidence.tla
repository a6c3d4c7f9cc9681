------------------------------ MODULE Evidence ------------------------------
(***************************************************************************)
(* repository_evidence (adapters/git.rs): the bounded inventory that the   *)
(* upgrade and documentation checks read.  Whatever it leaves out must be  *)
(* among its unknowns.  A size is a number of lines.                       *)
(***************************************************************************)
EXTENDS GitWorld

CONSTANTS Scopes,           \* the scopes of the review, each a set of paths
          Excluded,         \* paths that --exclude matches
          DocExtensions, Manifests,   \* what evidence_path knows besides sources
          MaxFiles, MaxFileLines, MaxTotalLines

EvidencePath(p) == IsSource(p) \/ p.ext \in DocExtensions \/ <<p.name, p.ext>> \in Manifests

\* What the listing commands say of one scope: status, renames and paths.
Status(old, new) ==
    LET renames == Renames(old, new)
        from == {renames[p] : p \in DOMAIN renames}
    IN [renames |-> renames,
        deleted |-> Deleted(old, new) \ from,
        added |-> Added(old, new) \ DOMAIN renames,
        modified |-> Modified(old, new)]

Changed(l) == l.deleted \cup l.added \cup l.modified \cup DOMAIN l.renames
OldPath(l, p) == IF p \in DOMAIN l.renames THEN l.renames[p] ELSE p
ListedPaths(l, untracked, tracked) == SortPaths(tracked \cup untracked \cup Changed(l))

Size(text) == IF text = Nothing THEN 0 ELSE Len(text)
Unusable(text) ==
    text \in {Nothing} \cup BinaryTexts \cup Garbled \/ Size(text) > MaxFileLines

---------------------------------------------------------------------------
\* The evidence so far; full when the file count has ended a scope.
Empty == [files |-> {}, changes |-> {}, unknowns |-> {}, seen |-> {}, total |-> 0, full |-> FALSE]

Refuse(e, why) == [e EXCEPT !.unknowns = @ \cup {why}]
Meet(e, p) == [e EXCEPT !.seen = @ \cup {p}]

\* What is left out without a look at it, in the order of the code.
PassedOver(e, p) ==
    \/ ~EvidencePath(p) \/ p \in e.seen \cup Excluded
    \/ Cardinality(Meet(e, p).seen) > MaxFiles

PassOver(l, e, p) ==
    LET lost == p \in DOMAIN l.renames /\ EvidencePath(l.renames[p])
    IN CASE ~EvidencePath(p) -> IF lost THEN Refuse(e, "renamed away") ELSE e
         [] EvidencePath(p) /\ p \in e.seen -> e
         [] EvidencePath(p) /\ p \in Excluded \ e.seen -> Refuse(Meet(e, p), "exclusions")
         [] OTHER -> [Refuse(Meet(e, p), "file count") EXCEPT !.full = TRUE]

\* As Retain, but what is over the total budget goes without a word.
RetainSilently(e, l, untracked, p, content, previous) ==
    LET told == p \in Changed(l) \/ (p \in untracked /\ content # Nothing)
        cost == Len(previous) + Size(content) * (IF told THEN 2 ELSE 1)
    IN IF e.total + cost > MaxTotalLines THEN e
       ELSE [e EXCEPT
               !.total = @ + cost,
               !.files = @ \cup (IF content = Nothing THEN {} ELSE {<<p, content>>}),
               !.changes = @ \cup (IF told THEN {[path |-> p, old |-> OldPath(l, p),
                                                 base |-> previous, content |-> content]}
                                           ELSE {})]

\* Changed current text is held twice: in the inventory and the comparison.
Retain(e, l, untracked, p, content, previous) ==
    LET told == p \in Changed(l) \/ (p \in untracked /\ content # Nothing)
        cost == Len(previous) + Size(content) * (IF told THEN 2 ELSE 1)
    IN IF e.total + cost > MaxTotalLines THEN Refuse(e, "total")
       ELSE [e EXCEPT
               !.total = @ + cost,
               !.files = @ \cup (IF content = Nothing THEN {} ELSE {<<p, content>>}),
               !.changes = @ \cup (IF told THEN {[path |-> p, old |-> OldPath(l, p),
                                                 base |-> previous, content |-> content]}
                                           ELSE {})]

---------------------------------------------------------------------------
\* All of it in a checkout that holds still.
Visit(world, old, l, untracked, e, p) ==
    LET content == IF p \in l.deleted \/ p \notin DOMAIN world.work THEN Nothing
                   ELSE world.work[p].text
        from == OldPath(l, p)
        there == p \in Changed(l) /\ from \in DOMAIN old
        met == Meet(e, p)
    IN CASE e.full -> e
         [] ~e.full /\ PassedOver(e, p) -> PassOver(l, e, p)
         [] OTHER ->
              IF p \notin l.deleted /\ (Unusable(content) \/ content \in NotRegular)
              THEN Refuse(met, "unreadable")
              ELSE IF from \in Excluded THEN Refuse(met, "previous path excluded")
              ELSE IF IF there THEN Unusable(old[from]) ELSE p \in Changed(l) \ l.added
              THEN Refuse(met, "base unusable")
              ELSE Retain(met, l, untracked, p, content, IF there THEN old[from] ELSE <<>>)

Collect(world, base, others, scope) ==
    LET old == TreeOf(base)
        l == Status(InScope(old, scope), InScope(NewTree(world, Nothing), scope))
        untracked == IF others THEN Untracked(world) \cap scope ELSE {}
    IN FoldLeft(LAMBDA acc, p : Visit(world, old, l, untracked, acc, p), Empty,
                ListedPaths(l, untracked, world.tracked \cap scope))
=============================================================================
