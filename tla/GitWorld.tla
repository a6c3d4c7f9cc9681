------------------------------ MODULE GitWorld ------------------------------
(***************************************************************************)
(* The checkout that Git and the file system show to a review, and the     *)
(* developer, or the CI job, who goes on working in it.  None of it is     *)
(* code under src/: it is what adapters/git.rs uses of the git commands    *)
(* and of the file system.                                                 *)
(*                                                                         *)
(* world.head and world.ref are the commits of HEAD and of the --base      *)
(* branch; world.tracked the paths in the index; world.work the files, as  *)
(* path -> [ino, text].                                                    *)
(***************************************************************************)
EXTENDS Patch

CONSTANTS Tree,         \* commit -> (path -> text)
          History,      \* commit -> its ancestors, itself included
          Unborn,       \* HEAD of a repository without a commit
          Ignored,      \* paths that .gitignore names
          Similar,      \* pairs of texts that -M takes for a rename
          Unified,      \* --unified=3
          NotRegular,   \* what a symbolic link or a special file reads as
          BinaryTexts,  \* with a NUL
          Garbled,      \* not valid UTF-8
          Nothing

Commits == DOMAIN Tree
TreeOf(c) == IF c = Unborn THEN <<>> ELSE Tree[c]

\* What a checkout is: no two of its paths are one file.
IsCheckout(w) ==
    /\ w = [head |-> w.head, ref |-> w.ref, tracked |-> w.tracked, work |-> w.work]
    /\ w.head \in Commits \cup {Unborn}
    /\ w.tracked \cup DOMAIN w.work \subseteq ToSet(PathOrder)
    /\ w.work = [p \in DOMAIN w.work |-> [ino |-> w.work[p].ino, text |-> w.work[p].text]]
    /\ \A p \in DOMAIN w.work : w.work[p].ino \in Nat
    /\ \A p, q \in DOMAIN w.work : w.work[p].ino = w.work[q].ino => p = q

MergeBase(a, b) ==
    IF a = Unborn \/ b = Unborn \/ History[a] \cap History[b] = {} THEN Nothing
    ELSE CHOOSE c \in History[a] \cap History[b] : History[a] \cap History[b] \subseteq History[c]

---------------------------------------------------------------------------
\* A commit, or the tracked files as they are now: what git diff compares.
WorkTexts(world, paths) == [p \in paths \cap DOMAIN world.work |-> world.work[p].text]
\* As NewTree, of the checkout even when a commit is named.
NewTreeLive(world, head) == WorkTexts(world, world.tracked)
NewTree(world, head) == IF head = Nothing THEN WorkTexts(world, world.tracked) ELSE Tree[head]

InScope(tree, scope) == [p \in DOMAIN tree \cap scope |-> tree[p]]

Deleted(old, new) == DOMAIN old \ DOMAIN new
Added(old, new) == DOMAIN new \ DOMAIN old
Modified(old, new) == {p \in DOMAIN old \cap DOMAIN new : old[p] # new[p]}

\* -M: each added path from one deleted path that resembles it.
Pairable(old, new) ==
    {pair \in Added(old, new) \X Deleted(old, new) : <<old[pair[2]], new[pair[1]]>> \in Similar}

Renames(old, new) ==
    LET pairs == Pairable(old, new)
        to == {pair[1] : pair \in pairs}
        Origin(p) == CHOOSE q \in Deleted(old, new) :
            /\ <<p, q>> \in pairs
            /\ \A r \in Deleted(old, new) : <<p, r>> \in pairs => Rank(q) <= Rank(r)
    IN [p \in {q \in to : \A r \in to \ {q} : Origin(r) = Origin(q) => Rank(q) < Rank(r)} |-> Origin(p)]

Untracked(world) == DOMAIN world.work \ (world.tracked \cup Ignored)

\* status --porcelain prints nothing
Clean(world) ==
    /\ Untracked(world) = {}
    /\ world.tracked = DOMAIN TreeOf(world.head)
    /\ WorkTexts(world, world.tracked) = TreeOf(world.head)

---------------------------------------------------------------------------
\* The hunks of one file: a longest common subsequence, with context.
Aligned(old, new) ==
    LET same == {pair \in (DOMAIN old) \X (DOMAIN new) : old[pair[1]] = new[pair[2]]}
        Monotone(m) == \A a, b \in m : a # b => a[1] # b[1] /\ (a[1] < b[1] <=> a[2] < b[2])
        common == {m \in SUBSET same : Monotone(m)}
    IN CHOOSE m \in common : \A n \in common : Cardinality(n) <= Cardinality(m)

Script(old, new) ==
    LET m == Aligned(old, new)
        Seg(k, i) == Cardinality({pair \in m : pair[k] < i})
        removed == {[seg |-> Seg(1, i), kind |-> 0, at |-> i, op |-> "-", text |-> old[i]] :
                      i \in {j \in DOMAIN old : \A pair \in m : pair[1] # j}}
        added == {[seg |-> Seg(2, i), kind |-> 1, at |-> i, op |-> "+", text |-> new[i]] :
                      i \in {j \in DOMAIN new : \A pair \in m : pair[2] # j}}
        kept == {[seg |-> Seg(1, pair[1]), kind |-> 2, at |-> 0, op |-> " ", text |-> old[pair[1]]] :
                      pair \in m}
        Before(a, b) == \/ a.seg < b.seg
                        \/ a.seg = b.seg /\ a.kind < b.kind
                        \/ a.seg = b.seg /\ a.kind = b.kind /\ a.at < b.at
        sorted == Sorted(removed \cup added \cup kept, Before)
    IN [i \in DOMAIN sorted |-> [op |-> sorted[i].op, text |-> sorted[i].text]]

Hunks(old, new) ==
    LET script == Script(old, new)
        shown == {i \in DOMAIN script : \E j \in DOMAIN script :
                    script[j].op # " " /\ i + Unified >= j /\ j + Unified >= i}
        from == Sorted({i \in shown : i - 1 \notin shown}, LAMBDA a, b : a < b)
        To(i) == CHOOSE j \in shown : i <= j /\ i..j \subseteq shown /\ j + 1 \notin shown
        whole == [oldStart |-> Start(1, Len(old)), oldLen |-> Len(old),
                  newStart |-> Start(1, Len(new)), newLen |-> Len(new), body |-> script]
    IN IF {old, new} \cap BinaryTexts # {} THEN <<>>
       ELSE [k \in DOMAIN from |-> Piece(whole, from[k], To(from[k]))]

---------------------------------------------------------------------------
\* What may happen in the checkout.  A new file has a new inode.
CONSTANTS Written      \* the texts a developer writes

Without(work, p) == [q \in DOMAIN work \ {p} |-> work[q]]
Put(work, p, file) == [q \in DOMAIN work \cup {p} |-> IF q = p THEN file ELSE work[q]]
Fresh(world) == Max({0} \cup {world.work[p].ino : p \in DOMAIN world.work}) + 1

Edits(world) ==
    {[world EXCEPT !.work[p].text = t] : p \in DOMAIN world.work, t \in Written}
Saves(world, paths) ==
    {[world EXCEPT !.work = Put(@, p, [ino |-> Fresh(world), text |-> t])] :
        p \in paths, t \in Written}
Deletes(world) ==
    {[world EXCEPT !.work = Without(@, p)] : p \in DOMAIN world.work}
Moves(world, paths) ==
    {[world EXCEPT !.work = Put(Without(@, p), to, @[p])] :
        p \in DOMAIN world.work, to \in paths}
\* Two directories exchanged under the review's feet.
Swaps(world) ==
    {[world EXCEPT !.work[pair[1]] = world.work[pair[2]], !.work[pair[2]] = world.work[pair[1]]] :
        pair \in {q \in (DOMAIN world.work) \X (DOMAIN world.work) : Rank(q[1]) < Rank(q[2])}}
Adds(world) ==
    {[world EXCEPT !.tracked = @ \cup {p}] : p \in DOMAIN world.work}
Unstages(world) ==
    {[world EXCEPT !.tracked = @ \ {p}] : p \in world.tracked}
CommitsMade(world) ==
    {[world EXCEPT !.head = c] :
        c \in {d \in Commits : /\ world.head = Unborn \/ world.head \in History[d]
                               /\ Tree[d] = WorkTexts(world, world.tracked)}}
\* git checkout refuses to overwrite local changes; it replaces what differs.
Checkouts(world) ==
    {[world EXCEPT !.head = c,
                   !.tracked = DOMAIN Tree[c],
                   !.work = [p \in (DOMAIN world.work \ world.tracked) \cup DOMAIN Tree[c] |->
                      IF p \in DOMAIN Tree[c] /\ (p \notin world.tracked \/ world.work[p].text # Tree[c][p])
                      THEN [ino |-> Fresh(world) + Rank(p), text |-> Tree[c][p]]
                      ELSE world.work[p]]] :
        c \in {d \in Commits : world.head # Unborn /\ Clean([world EXCEPT !.work =
                                [p \in DOMAIN world.work \ Untracked(world) |-> world.work[p]]])
                             /\ Untracked(world) \cap DOMAIN Tree[d] = {}}}
RefMoves(world) == {[world EXCEPT !.ref = c] : c \in Commits}
=============================================================================
