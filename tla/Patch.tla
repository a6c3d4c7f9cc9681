------------------------------- MODULE Patch -------------------------------
(***************************************************************************)
(* Unified diffs as the review reads them (domain/patch.rs) and the        *)
(* evidence candidates it cuts them into (candidate_hunks).  A hunk is     *)
(* [oldStart, oldLen, newStart, newLen, body]: a zero-length range names   *)
(* the line before it, and the body is a sequence of [op, text] with op    *)
(* "+", "-" or " ".  The no-newline markers of Git are left out.           *)
(***************************************************************************)
EXTENDS Index

CONSTANTS MaxEvidenceLines,     \* MAX_EVIDENCE_LINES
          UntrackedChunkLines   \* UNTRACKED_CHUNK_LINES

OldSide(body) == SelectSeq(body, LAMBDA l : l.op # "+")
NewSide(body) == SelectSeq(body, LAMBDA l : l.op # "-")
Texts(lines) == [i \in DOMAIN lines |-> lines[i].text]

ParseHunks(patch) == [i \in DOMAIN patch |-> [id |-> i, hunk |-> patch[i]]]

\* The new-file line of the first addition, past the leading context.
FirstAddedLine(h) ==
    LET added == {i \in DOMAIN h.body : h.body[i].op = "+"}
    IN IF added = {} THEN h.newStart
       ELSE h.newStart + Len(SelectSeq(SubSeq(h.body, 1, Min(added) - 1), LAMBDA l : l.op = " "))

---------------------------------------------------------------------------
\* split_hunk.  The first line a range names, if it named one.
First(start, len) == IF len = 0 THEN start + 1 ELSE start
Start(first, len) == IF len = 0 THEN first - 1 ELSE first

\* As PieceStarts, but the removed lines stay with the piece before.
PieceStartsAtKept(h, cuts) ==
    LET kept == {i \in DOMAIN h.body : h.body[i].op # "-"}
        Above(i) == {j \in kept : j < i}
        NewLine(i) == First(h.newStart, h.newLen) + Cardinality(Above(i))
    IN {1} \cup {i \in kept : Above(i) # {} /\ NewLine(i) \in cuts}

\* A piece begins at a cut that has a kept line before it, and takes the
\* removed lines just above the cut along.
PieceStarts(h, cuts) ==
    LET kept == {i \in DOMAIN h.body : h.body[i].op # "-"}
        Above(i) == {j \in kept : j < i}
        NewLine(i) == First(h.newStart, h.newLen) + Cardinality(Above(i))
    IN {1} \cup {Max(Above(i)) + 1 : i \in {j \in kept : Above(j) # {} /\ NewLine(j) \in cuts}}

\* As Piece, but lines removed ahead of it count for its new range too.
PieceByBody(h, from, to) ==
    LET ahead == SubSeq(h.body, 1, from - 1)
        body == SubSeq(h.body, from, to)
        oldLen == Len(OldSide(body))
        newLen == Len(NewSide(body))
    IN [oldStart |-> Start(First(h.oldStart, h.oldLen) + Len(OldSide(ahead)), oldLen),
        oldLen |-> oldLen,
        newStart |-> Start(First(h.newStart, h.newLen) + Len(ahead), newLen),
        newLen |-> newLen,
        body |-> body]

Piece(h, from, to) ==
    LET ahead == SubSeq(h.body, 1, from - 1)
        body == SubSeq(h.body, from, to)
        oldLen == Len(OldSide(body))
        newLen == Len(NewSide(body))
    IN [oldStart |-> Start(First(h.oldStart, h.oldLen) + Len(OldSide(ahead)), oldLen),
        oldLen |-> oldLen,
        newStart |-> Start(First(h.newStart, h.newLen) + Len(NewSide(ahead)), newLen),
        newLen |-> newLen,
        body |-> body]

SplitHunk(h, cuts) ==
    LET starts == Sorted(PieceStarts(h, cuts), LAMBDA a, b : a < b)
        End(k) == IF k = Len(starts) THEN Len(h.body) ELSE starts[k + 1] - 1
    IN IF Len(starts) = 1 THEN <<h>> ELSE [k \in DOMAIN starts |-> Piece(h, starts[k], End(k))]

\* Large hunks are cut where the declarations of their new side begin.
CandidateHunks(p, patch) ==
    LET Cuts(h) ==
            LET regions == FunctionRegions(Texts(NewSide(h.body)), Syntax(p), MaxEvidenceLines)
            IN {h.newStart + regions[k].start - 1 : k \in DOMAIN regions \ {1}}
        Pieces(h) == IF Len(NewSide(h.body)) <= MaxEvidenceLines THEN <<h>> ELSE SplitHunk(h, Cuts(h))
    IN ParseHunks(FlattenSeq([i \in DOMAIN patch |-> Pieces(patch[i])]))

---------------------------------------------------------------------------
\* base_line: inside a hunk the same offset of its old range, clamped to it;
\* between hunks shifted by what the hunks before it added or removed.
BaseLine(patch, line) ==
    LET Ahead(h) == IF h.newLen = 0 THEN line <= h.newStart ELSE line < h.newStart
        Inside(h) == line < h.newStart + h.newLen
        stop == {i \in DOMAIN patch : Ahead(patch[i]) \/ Inside(patch[i])}
        last == IF stop = {} THEN Len(patch) ELSE Min(stop) - 1
        shift == IF last = 0 THEN 0
                 ELSE (First(patch[last].oldStart, patch[last].oldLen) + patch[last].oldLen)
                    - (First(patch[last].newStart, patch[last].newLen) + patch[last].newLen)
        shifted == IF line + shift < 1 THEN 1 ELSE line + shift
    IN IF stop = {} THEN shifted
       ELSE LET h == patch[Min(stop)]
                offset == h.oldStart + line - h.newStart
            IN CASE Ahead(h) -> shifted
                 [] ~Ahead(h) /\ h.oldLen = 0 -> IF h.oldStart < 1 THEN 1 ELSE h.oldStart
                 [] OTHER -> IF offset < h.oldStart + h.oldLen - 1 THEN offset
                             ELSE h.oldStart + h.oldLen - 1

\* patch_for_new_file
PatchForNewFile(text) ==
    LET chunks == Chunks(1, Len(text), UntrackedChunkLines)
    IN [k \in DOMAIN chunks |->
          [oldStart |-> 0, oldLen |-> 0, newStart |-> chunks[k].start, newLen |-> chunks[k].size,
           body |-> [i \in 1..chunks[k].size |->
                       [op |-> "+", text |-> text[chunks[k].start + i - 1]]]]]
=============================================================================
