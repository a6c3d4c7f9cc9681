----------------------------- MODULE Discovery -----------------------------
(***************************************************************************)
(* How a review comes by its inputs: `momus review` and `momus scan` from  *)
(* the pinning of their identity to the report's claims about it           *)
(* (cli/mod.rs), with the discovery and the pre-pass of both strategies    *)
(* (review/changes.rs, review/codebase.rs, adapters/git.rs).               *)
(*                                                                         *)
(* Every git command and every system call reads the checkout as it is at  *)
(* that moment, and the developer works on in between.                     *)
(***************************************************************************)
EXTENDS Evidence

CONSTANTS Worlds,      \* the checkouts a review may start in
          Modes,       \* of "live", "since" (--base), "pinned" (--committed-only), "scan"
          Auxiliary,   \* BOOLEAN values: --upgrade-triage or --docs-drift
          Stores,      \* what earlier runs left in the index directory
          CommitLimits,   \* [files, lines, total] of a commit that is read whole
          MovePaths,   \* where the developer makes files
          MaxMoves     \* bound on the developer's moves, for every mode

\* An entry of the index that passes for a text's is what the text gives: it
\* may be missing, cut short or another text's, but nobody forges one.
StoreHonest(s) ==
    \A k \in DOMAIN s, p \in ToSet(PathOrder) :
        Key(p, k[1]) = k /\ Valid(s[k], k[1]) => s[k] = Extract(p, k[1])

DiscoveryAssumption ==
    /\ Modes \subseteq {"live", "since", "pinned", "scan"} /\ Auxiliary \subseteq BOOLEAN
    /\ Scopes \in Seq(SUBSET ToSet(PathOrder)) /\ Scopes # <<>>
    /\ MovePaths \subseteq ToSet(PathOrder)
    /\ \A c \in Commits : DOMAIN Tree[c] \subseteq ToSet(PathOrder)
    /\ Unborn \notin Commits /\ Nothing \notin Commits \cup {Unborn}
    /\ \A w \in Worlds : IsCheckout(w)
    /\ \A s \in Stores : StoreHonest(s)
ASSUME DiscoveryAssumption

VARIABLES world, moves,
          mode, auxiliary,
          pc,
          scope,       \* index in Scopes of the scope being listed
          pinned,      \* committed_head
          recorded,    \* reviewed_base
          actual,      \* actual_head, read with HEAD
          clean,       \* clean_before
          still,       \* clean whenever that was asked again
          git,         \* what the commands of this scope have said
          todo,        \* the paths of this scope still to read
          handle,      \* the file being read, or Nothing
          files,       \* the files discovered: <<path, patch, base, text>>
          context,     \* the repository files of the pre-pass: path -> text
          evidence,    \* repository_evidence, with its head
          index, store,
          report,      \* what the report says of its source, or Nothing
          past,        \* history: the checkouts there have been
          bases        \* history: the base each scope resolved

readings == <<git, todo, handle>>
identity == <<pinned, recorded, actual, clean, still>>
inputs == <<files, context, index, store, bases>>
results == <<inputs, evidence, report>>
vars == <<world, moves, mode, auxiliary, pc, scope, identity, readings, results, past>>

Start0 == [head |-> Nothing, scope |-> 1, base |-> Nothing, status |-> Status(<<>>, <<>>),
           untracked |-> {}, todo |-> <<>>, file |-> Nothing, found |-> Empty]

Init ==
    /\ world \in Worlds /\ moves = 0
    /\ mode \in Modes /\ auxiliary \in Auxiliary
    /\ auxiliary => mode \notin {"pinned", "scan"}
    /\ pc = IF auxiliary THEN "evidence head" ELSE "pin"
    /\ scope = 1
    /\ pinned = Nothing /\ recorded = Nothing /\ actual = Nothing /\ clean = FALSE /\ still = FALSE
    /\ git = <<>> /\ todo = <<>> /\ handle = Nothing
    /\ files = <<>> /\ context = <<>> /\ evidence = Start0
    /\ index = Nothing /\ store \in Stores
    /\ report = Nothing /\ past = {world} /\ bases = <<>>

Goto(next) == pc' = next
Fail == Goto("failed") /\ UNCHANGED <<scope, identity, readings, results>>
Reads == UNCHANGED <<world, moves, mode, auxiliary, past>>

\* What is read from an open file is the inode's, wherever that went; and
\* whether the path still names it.
TextOf(file) ==
    LET at == {p \in DOMAIN world.work : world.work[p].ino = file.ino}
    IN IF at = {} THEN file.text ELSE world.work[CHOOSE p \in at : TRUE].text
IsStill(p, file) ==
    /\ p \in DOMAIN world.work
    /\ world.work[p].ino = file.ino
    /\ Len(world.work[p].text) = file.size

---------------------------------------------------------------------------
\* repository_evidence comes first: scope by scope, what Git lists, and then
\* every path listed, with a command or a read for each step of it.  Without
\* --base each command resolves HEAD anew.
Base == IF mode = "live" THEN world.head ELSE MergeBase(world.ref, world.head)

Gathering == {"evidence head", "evidence base", "evidence status", "evidence others",
              "evidence tracked", "evidence path", "evidence text", "evidence recheck",
              "evidence size", "evidence show"}
Gathers(place) == pc = place /\ Reads /\ UNCHANGED <<scope, identity, readings, inputs, report>>
GiveUp == Goto("failed") /\ UNCHANGED evidence

EvidenceScope == Scopes[evidence.scope]
EvidenceBaseTree == TreeOf(IF mode = "live" THEN world.head ELSE evidence.base)

EvidenceHead ==
    /\ Gathers("evidence head")
    /\ IF world.head = Unborn \/ (evidence.head # Nothing /\ evidence.head # world.head)
       THEN GiveUp
       ELSE evidence' = [evidence EXCEPT !.head = world.head] /\ Goto("evidence base")

EvidenceBase ==
    /\ Gathers("evidence base")
    /\ IF Base = Nothing THEN GiveUp
       ELSE /\ evidence' = [evidence EXCEPT !.base = IF mode = "live" THEN Nothing ELSE Base]
            /\ Goto("evidence status")

EvidenceStatus ==
    /\ Gathers("evidence status")
    /\ evidence' = [evidence EXCEPT !.status =
            Status(InScope(EvidenceBaseTree, EvidenceScope), InScope(NewTree(world, Nothing), EvidenceScope))]
    /\ Goto(IF mode = "live" THEN "evidence others" ELSE "evidence tracked")

EvidenceOthers ==
    /\ Gathers("evidence others")
    /\ evidence' = [evidence EXCEPT !.untracked = Untracked(world) \cap EvidenceScope]
    /\ Goto("evidence tracked")

EvidenceTracked ==
    /\ Gathers("evidence tracked")
    /\ evidence' = [evidence EXCEPT !.todo =
            ListedPaths(evidence.status, evidence.untracked, world.tracked \cap EvidenceScope)]
    /\ Goto("evidence path")

\* The path at hand: what was found of it goes into the evidence, and the
\* next one comes.
Entry == Head(evidence.todo)
AtEntry == evidence.todo # <<>> /\ ~PassedOver(evidence.found, Entry)
EntryDeleted == Entry \in evidence.status.deleted
EntryText == IF evidence.file = Nothing THEN Nothing ELSE evidence.file.text
Noted(found) ==
    /\ evidence' = [evidence EXCEPT !.found = found, !.file = Nothing,
                                    !.todo = IF found.full THEN <<>> ELSE Tail(@)]
    /\ Goto("evidence path")
Refused(why) == Noted(Refuse(Meet(evidence.found, Entry), why))
Retained(previous) ==
    Noted(Retain(Meet(evidence.found, Entry), evidence.status, evidence.untracked,
                 Entry, EntryText, previous))

EvidencePass ==
    /\ Gathers("evidence path")
    /\ evidence.todo # <<>> /\ PassedOver(evidence.found, Entry)
    /\ Noted(PassOver(evidence.status, evidence.found, Entry))

\* As EvidenceOpen, passing over a path that is gone.
EvidenceOpenSkips ==
    /\ Gathers("evidence path") /\ AtEntry /\ ~EntryDeleted
    /\ IF Entry \notin DOMAIN world.work THEN Noted(Meet(evidence.found, Entry))
       ELSE IF world.work[Entry].text \in NotRegular \/ Size(world.work[Entry].text) > MaxFileLines
       THEN Refused("unreadable")
       ELSE evidence' = [evidence EXCEPT !.file = world.work[Entry]] /\ Goto("evidence text")

EvidenceOpen ==
    /\ Gathers("evidence path") /\ AtEntry /\ ~EntryDeleted
    /\ IF \/ Entry \notin DOMAIN world.work
          \/ world.work[Entry].text \in NotRegular \/ Size(world.work[Entry].text) > MaxFileLines
       THEN Refused("unreadable")
       ELSE evidence' = [evidence EXCEPT !.file = world.work[Entry]] /\ Goto("evidence text")

EvidenceText ==
    /\ Gathers("evidence text")
    /\ IF Entry \notin DOMAIN world.work THEN Refused("unreadable")
       ELSE /\ evidence' = [evidence EXCEPT !.file =
                    [ino |-> @.ino, size |-> Len(@.text), text |-> TextOf(@)]]
            /\ Goto("evidence recheck")

EvidenceRecheck ==
    /\ Gathers("evidence recheck")
    /\ IF Unusable(EntryText) \/ ~IsStill(Entry, evidence.file) THEN Refused("unreadable")
       ELSE IF Entry \notin Changed(evidence.status) THEN Retained(<<>>)
       ELSE IF OldPath(evidence.status, Entry) \in Excluded THEN Refused("previous path excluded")
       ELSE UNCHANGED evidence /\ Goto("evidence size")

\* cat-file -s of the previous path; an addition need not have one.
EvidenceSize ==
    /\ \/ Gathers("evidence size")
       \/ Gathers("evidence path") /\ AtEntry /\ EntryDeleted
    /\ LET from == OldPath(evidence.status, Entry)
           there == from \in DOMAIN EvidenceBaseTree
       IN IF there /\ Size(EvidenceBaseTree[from]) <= MaxFileLines
          THEN UNCHANGED evidence /\ Goto("evidence show")
          ELSE IF ~there /\ Entry \in evidence.status.added THEN Retained(<<>>)
          ELSE Refused("base unusable")

EvidenceShow ==
    /\ Gathers("evidence show")
    /\ LET from == OldPath(evidence.status, Entry)
       IN IF \/ from \notin DOMAIN EvidenceBaseTree
             \/ EvidenceBaseTree[from] \in BinaryTexts \cup Garbled
          THEN Refused("base unusable")
          ELSE Retained(EvidenceBaseTree[from])

EvidenceScopeDone ==
    /\ Gathers("evidence path") /\ evidence.todo = <<>>
    /\ LET last == evidence.scope = Len(Scopes)
       IN /\ evidence' = [Start0 EXCEPT !.head = evidence.head,
                                        !.scope = IF last THEN 1 ELSE evidence.scope + 1,
                                        !.found = [evidence.found EXCEPT !.full = FALSE]]
          /\ Goto(IF last THEN "pin" ELSE "evidence head")

---------------------------------------------------------------------------
\* cli: the identity of the review
Pin ==
    /\ pc = "pin" /\ Reads
    /\ IF mode = "pinned" /\ world.head = Unborn THEN Fail
       ELSE /\ pinned' = IF mode = "pinned" THEN world.head ELSE Nothing
            /\ Goto("record base")
            /\ UNCHANGED <<scope, recorded, actual, clean, still, readings, results>>

RecordBase ==
    /\ pc = "record base" /\ Reads
    /\ IF mode \in {"since", "pinned"} /\ Base = Nothing THEN Fail
       ELSE /\ recorded' = IF mode \in {"since", "pinned"} THEN Base ELSE Nothing
            /\ Goto("identify")
            /\ UNCHANGED <<scope, pinned, actual, clean, still, readings, results>>

\* run_mode
Identify ==
    /\ pc = "identify" /\ Reads
    /\ actual' = IF world.head = Unborn THEN Nothing ELSE world.head
    /\ Goto("clean before")
    /\ UNCHANGED <<scope, pinned, recorded, clean, still, readings, results>>

ReviewedHead == IF pinned # Nothing THEN pinned ELSE actual

CleanBefore ==
    /\ pc = "clean before" /\ Reads
    /\ clean' = (ReviewedHead # Nothing /\ actual = ReviewedHead /\ Clean(world))
    /\ still' = clean'
    /\ Goto(IF mode = "scan" THEN "list repository" ELSE "resolve base")
    /\ UNCHANGED <<scope, pinned, recorded, actual, readings, results>>

---------------------------------------------------------------------------
\* changed_files_in_scope.  A live review says HEAD to every command, and
\* each resolves it anew; an unborn one names the empty tree.
Here == Scopes[scope]
OldTree == InScope(TreeOf(IF git.symbolic THEN world.head ELSE git.base), Here)
NewFiles == InScope(NewTree(world, pinned), Here)

Lists == Reads /\ UNCHANGED <<scope, identity, todo, handle, results>>

ResolveBase ==
    /\ pc = "resolve base" /\ Reads
    /\ LET base == IF mode = "live" THEN world.head
                   ELSE MergeBase(world.ref, IF mode = "pinned" THEN pinned ELSE world.head)
       IN IF base = Nothing THEN Fail
          ELSE /\ git' = [base |-> base, symbolic |-> mode = "live" /\ base # Unborn,
                          renamed |-> <<>>, tracked |-> {}, untracked |-> {}, added |-> {}]
               /\ bases' = Append(bases, base)
               /\ Goto("list renames")
               /\ UNCHANGED <<scope, identity, todo, handle, files, context, evidence, index, store, report>>

ListRenames ==
    /\ pc = "list renames" /\ Lists
    /\ git' = [git EXCEPT !.renamed = Renames(OldTree, NewFiles)]
    /\ Goto("list tracked")

ListTracked ==
    /\ pc = "list tracked" /\ Lists
    /\ git' = [git EXCEPT !.tracked = Added(OldTree, NewFiles) \cup Modified(OldTree, NewFiles)]
    /\ Goto("list untracked")

\* As ListUntracked, with build leftovers in a review of a branch.
ListUntrackedAlways ==
    /\ pc = "list untracked" /\ Lists
    /\ git' = [git EXCEPT !.untracked = Untracked(world) \cap Here]
    /\ Goto("list additions")

ListUntracked ==
    /\ pc = "list untracked" /\ Lists
    /\ git' = [git EXCEPT !.untracked = IF mode = "live" THEN Untracked(world) \cap Here ELSE {}]
    /\ Goto("list additions")

Subjects(paths) == {p \in paths : IsSource(p) /\ p \notin Excluded}

ListAdditions ==
    /\ pc = "list additions" /\ Reads
    /\ git' = [git EXCEPT !.added = Added(OldTree, NewFiles) \ DOMAIN Renames(OldTree, NewFiles)]
    /\ todo' = SortPaths(Subjects(git.tracked))
                 \o SortPaths(Subjects(git.untracked \ git.tracked))
    /\ Goto("next file")
    /\ UNCHANGED <<scope, identity, handle, results>>

---------------------------------------------------------------------------
\* The files of a scope, one after the other.
Path == Head(todo)
Discovered == {files[i].path : i \in DOMAIN files}
AddFile(p, patch, base, text) ==
    /\ files' = IF p \in Discovered THEN files
                ELSE Append(files, [path |-> p, patch |-> patch, base |-> base, text |-> text])
    /\ todo' = Tail(todo)
    /\ handle' = Nothing
    /\ UNCHANGED <<scope, identity, git, context, evidence, index, store, bases, report>>

\* trim_end takes the blank context lines that end a patch.
TrimEnd(patch) ==
    IF patch = <<>> THEN patch
    ELSE LET body == Last(patch).body
             Blank(l) == l.op = " " /\ l.text \in BlankLines
             kept == {i \in DOMAIN body : ~Blank(body[i])}
         IN [patch EXCEPT ![Len(patch)].body = SubSeq(body, 1, Max(kept))]

\* A rename is paired again from its two paths; without it, both are shown.
BasePath == IF Path \in DOMAIN git.renamed THEN git.renamed[Path] ELSE Path
TextAt(tree, p) == IF p \in DOMAIN tree THEN tree[p] ELSE <<>>

DiffTracked ==
    /\ pc = "next file" /\ todo # <<>> /\ Path \notin git.untracked /\ Reads
    /\ LET old == InScope(OldTree, {Path, BasePath})
           new == InScope(NewFiles, {Path, BasePath})
           renames == Renames(old, new)
           from == IF Path \in DOMAIN renames THEN renames[Path] ELSE Path
           others == IF from = BasePath THEN <<>> ELSE <<BasePath>>
           patch == Hunks(TextAt(old, from), TextAt(new, Path))
                      \o FlattenSeq([i \in DOMAIN others |->
                            Hunks(TextAt(old, others[i]), TextAt(new, others[i]))])
       IN IF {TextAt(old, from), TextAt(new, Path)} \cap Garbled # {} THEN Fail
          ELSE /\ handle' = [patch |-> TrimEnd(patch), text |-> TextAt(new, Path)]
               /\ Goto("show base")
               /\ UNCHANGED <<scope, identity, git, todo, results>>

ShowBase ==
    /\ pc = "show base" /\ Reads
    /\ LET new == git.base = Unborn \/ Path \in git.added
           base == IF new THEN <<>> ELSE TextAt(OldTree, BasePath)
       IN IF (~new /\ BasePath \notin DOMAIN OldTree) \/ base \in BinaryTexts \cup Garbled THEN Fail
          ELSE AddFile(Path, handle.patch, base, handle.text) /\ Goto("next file")

NextScope(list, done) ==
    /\ todo = <<>> /\ Reads
    /\ scope' = IF scope = Len(Scopes) THEN 1 ELSE scope + 1
    /\ Goto(IF scope = Len(Scopes) THEN done ELSE list)
    /\ UNCHANGED <<identity, readings, results>>

ScopeDone == pc = "next file" /\ NextScope("resolve base", "list repository")

---------------------------------------------------------------------------
\* read_repo_file: open, read, and make sure that it is the file of the path.
IsSubject == pc \in {"next file", "read", "recheck"}

Open ==
    /\ pc \in {"next file", "next source"} /\ todo # <<>> /\ Reads
    /\ pc = "next file" => Path \in git.untracked
    /\ LET there == Path \in DOMAIN world.work /\ world.work[Path].text \notin NotRegular
       IN /\ handle' = IF there THEN world.work[Path] ELSE Nothing
          /\ todo' = IF there THEN todo ELSE Tail(todo)
          /\ Goto(IF ~there THEN pc ELSE IF IsSubject THEN "read" ELSE "read source")
    /\ UNCHANGED <<scope, identity, git, results>>

ReadText ==
    /\ pc \in {"read", "read source"} /\ Reads
    /\ LET there == Path \in DOMAIN world.work
       IN /\ handle' = IF there THEN [ino |-> handle.ino, size |-> Len(handle.text), text |-> TextOf(handle)]
                       ELSE Nothing
          /\ todo' = IF there THEN todo ELSE Tail(todo)
          /\ Goto(CASE there /\ IsSubject -> "recheck"
                    [] there /\ ~IsSubject -> "recheck source"
                    [] ~there /\ IsSubject -> "next file"
                    [] OTHER -> "next source")
    /\ UNCHANGED <<scope, identity, git, results>>

\* assert_same_file
SameFileBySize == Path \in DOMAIN world.work /\ Len(world.work[Path].text) = handle.size
SameFile == IsStill(Path, handle)

Recheck ==
    /\ pc = "recheck" /\ Reads
    /\ IF ~SameFile \/ handle.text \in Garbled THEN Fail
       ELSE /\ AddFile(Path, PatchForNewFile(handle.text), <<>>, handle.text)
            /\ Goto("next file")

---------------------------------------------------------------------------
\* The repository files: subjects of a scan, context of a review.  A review
\* goes on without context; a pinned one reads it from the commit, or fails.
Committed == [p \in Subjects(DOMAIN Tree[pinned] \cap UNION ToSet(Scopes)) |-> Tree[pinned][p]]

TooMuch ==
    \/ Cardinality(DOMAIN Committed) > CommitLimits.files
    \/ \E p \in DOMAIN Committed : Len(Committed[p]) > CommitLimits.lines
    \/ MapThenSumSet(LAMBDA p : Len(Committed[p]), DOMAIN Committed) > CommitLimits.total

ReadCommitted ==
    /\ pc = "list repository" /\ mode = "pinned" /\ Reads
    /\ IF \/ \E p \in DOMAIN Committed : Committed[p] \in NotRegular \cup BinaryTexts \cup Garbled
          \/ TooMuch
       THEN Fail
       ELSE /\ context' = Committed
            /\ Goto("index")
            /\ UNCHANGED <<scope, identity, readings, files, evidence, index, store, bases, report>>

ListRepository ==
    /\ pc = "list repository" /\ mode # "pinned" /\ Reads
    /\ todo' = SortPaths(Subjects((world.tracked \cup Untracked(world)) \cap Here))
    /\ Goto("next source")
    /\ UNCHANGED <<scope, identity, git, handle, results>>

RecheckSource ==
    /\ pc = "recheck source" /\ Reads
    /\ CASE SameFile /\ handle.text \notin Garbled ->
              /\ context' = IF Path \in DOMAIN context THEN context ELSE Put(context, Path, handle.text)
              /\ todo' = Tail(todo) /\ handle' = Nothing
              /\ Goto("next source")
              /\ UNCHANGED <<scope, identity, git, files, evidence, index, store, bases, report>>
         [] ~(SameFile /\ handle.text \notin Garbled) /\ mode = "scan" -> Fail
         [] OTHER ->
              /\ context' = <<>> /\ todo' = <<>> /\ handle' = Nothing
              /\ scope' = 1 /\ Goto("index")
              /\ UNCHANGED <<identity, git, files, evidence, index, store, bases, report>>

RepositoryRead == pc = "next source" /\ NextScope("list repository", "index")

\* Tests among the changed files go with the others as context.
ChangedTests ==
    LET tests == {p \in Discovered : IsTest(p)}
    IN [p \in Discovered \ tests |-> RankedTests(p, tests)]

BuildIndex ==
    /\ pc = "index" /\ Reads
    /\ index' = [Build(context, store) EXCEPT !.changedTests = ChangedTests]
    /\ store' = WriteBack(context, store)
    /\ Goto("status after")
    /\ UNCHANGED <<scope, identity, readings, files, context, evidence, bases, report>>

---------------------------------------------------------------------------
\* run_mode: what the report may say of its source, scope by scope; a review
\* that was not clean when it began is not checked again.
StatusAfter ==
    /\ pc = "status after" /\ Reads
    /\ still' = (still /\ Clean(world))
    /\ Goto(IF still' THEN "head after" ELSE "report")
    /\ UNCHANGED <<scope, pinned, recorded, actual, clean, readings, results>>

\* As HeadAfter, without reading HEAD again.
HeadAfterUnread ==
    /\ pc = "head after" /\ Reads
    /\ scope' = IF scope = Len(Scopes) THEN 1 ELSE scope + 1
    /\ Goto(IF scope < Len(Scopes) THEN "status after" ELSE "report")
    /\ UNCHANGED <<identity, readings, results>>

HeadAfter ==
    /\ pc = "head after" /\ Reads
    /\ still' = (world.head = ReviewedHead)
    /\ scope' = IF scope = Len(Scopes) THEN 1 ELSE scope + 1
    /\ Goto(IF still' /\ scope < Len(Scopes) THEN "status after" ELSE "report")
    /\ UNCHANGED <<pinned, recorded, actual, clean, readings, results>>

\* With auxiliary::attach: evidence of another head takes the claims back.
Claims(sameHead, unknowns) ==
    [head |-> ReviewedHead, base |-> recorded,
     clean |-> still /\ sameHead,
     committed |-> pinned # Nothing /\ sameHead,
     partial |-> (clean /\ ~still) \/ ~sameHead \/ unknowns # {}]

Report ==
    /\ pc = "report" /\ Reads
    /\ report' = IF auxiliary
                 THEN Claims(ReviewedHead = evidence.head, evidence.found.unknowns)
                 ELSE Claims(TRUE, {})
    /\ Goto("done")
    /\ UNCHANGED <<scope, identity, readings, inputs, evidence>>

---------------------------------------------------------------------------
\* The developer
Steps == Edits(world) \cup Saves(world, MovePaths) \cup Deletes(world) \cup Moves(world, MovePaths)
           \cup Swaps(world) \cup Adds(world) \cup Unstages(world) \cup CommitsMade(world)
           \cup Checkouts(world) \cup RefMoves(world)

Develop ==
    /\ moves < MaxMoves[mode] /\ pc \notin {"done", "failed"}
    /\ world' \in Steps \ {world}
    /\ moves' = moves + 1
    /\ past' = past \cup {world'}
    /\ UNCHANGED <<mode, auxiliary, pc, scope, identity, readings, results>>

Evidences ==
    \/ EvidenceHead \/ EvidenceBase \/ EvidenceStatus \/ EvidenceOthers \/ EvidenceTracked
    \/ EvidencePass \/ EvidenceOpen \/ EvidenceText \/ EvidenceRecheck
    \/ EvidenceSize \/ EvidenceShow \/ EvidenceScopeDone
Identifies == Pin \/ RecordBase \/ Identify \/ CleanBefore
Listings == ResolveBase \/ ListRenames \/ ListTracked \/ ListUntracked \/ ListAdditions
Subjecting == DiffTracked \/ ShowBase \/ ScopeDone \/ Open \/ ReadText \/ Recheck
Prepass == ReadCommitted \/ ListRepository \/ RecheckSource \/ RepositoryRead \/ BuildIndex
Closing == StatusAfter \/ HeadAfter \/ Report

Next == Evidences \/ Identifies \/ Listings \/ Subjecting \/ Prepass \/ Closing \/ Develop

Spec == Init /\ [][Next]_vars

---------------------------------------------------------------------------
\* What there is to find in scope k: the source paths whose text in `new`
\* is not the one at the base, and the untracked source files.
Due(k, new, others) ==
    LET old == InScope(TreeOf(bases[k]), Scopes[k])
        now == InScope(new, Scopes[k])
    IN Subjects(Added(old, now) \cup Modified(old, now) \cup (others \cap Scopes[k]))

\* Its text, and its base: the text it had, under the name it had.
Faithful(f, k, new, untracked) ==
    LET old == InScope(TreeOf(bases[k]), Scopes[k])
        renames == Renames(old, InScope(new, Scopes[k]))
    IN IF f.path \in DOMAIN untracked
       THEN f.text = untracked[f.path] /\ f.base = <<>>
       ELSE /\ f.text = new[f.path]
            /\ f.base = TextAt(old, IF f.path \in DOMAIN renames THEN renames[f.path] ELSE f.path)

\* The files are those of the first scope each is due in, once.
Exact(new, untracked) ==
    LET others == DOMAIN untracked
        In(p) == {k \in DOMAIN Scopes : p \in Due(k, new, others)}
    IN /\ Discovered = UNION {Due(k, new, others) : k \in DOMAIN Scopes}
       /\ Len(files) = Cardinality(Discovered)
       /\ \A i \in DOMAIN files : Faithful(files[i], Min(In(files[i].path)), new, untracked)

Found == pc \in {"index", "status after", "head after", "report", "done"} /\ mode # "scan"

UntrackedTexts ==
    [p \in {q \in Untracked(world) : world.work[q].text \notin NotRegular} |-> world.work[p].text]

\* A committed-only review reads exactly what the pinned commit changed since
\* the base it resolved, and the files of that commit, whatever happens to
\* the checkout, the index and the branches meanwhile (changed_files_at,
\* repository_files_at).
PinnedIsExact ==
    (Found /\ mode = "pinned") => Exact(Tree[pinned], <<>>) /\ context = Committed

\* In a checkout that holds still the other modes find every changed source
\* file once, with the text it had under its old name (changed_files,
\* changed_files_since).
QuietIsExact ==
    (Found /\ moves = 0 /\ mode # "pinned") =>
        Exact(NewTree(world, Nothing), IF mode = "live" THEN UntrackedTexts ELSE <<>>)

\* The files under review are the changed ones, in every mode that lists them.
ChangesAreExact == PinnedIsExact /\ QuietIsExact

\* A hunk names the lines of the base and of the text that it holds.
Slice(text, first, lines) == SubSeq(text, first, first + Len(lines) - 1) = Texts(lines)
Fits(h, base, text) ==
    /\ Slice(base, First(h.oldStart, h.oldLen), OldSide(h.body))
    /\ Slice(text, First(h.newStart, h.newLen), NewSide(h.body))
    /\ h.oldLen >= Len(OldSide(h.body)) /\ h.newLen >= Len(NewSide(h.body))

Additions(hunks) == MapThenSumSet(LAMBDA i :
    Len(SelectSeq(hunks[i].body, LAMBDA l : l.op = "+")), DOMAIN hunks)

\* The candidates a finding may be anchored to hold every added line of the
\* patch once, at the lines of base and text their headers name; a replaced
\* line stays with its replacement, and a line between hunks is found in the
\* base where base_line says (candidate_hunks, split_hunk, first_added_line,
\* base_line).
CandidatesFit ==
    (pc = "status after" /\ mode # "scan" /\ (moves = 0 \/ mode = "pinned")) =>
        \A i \in DOMAIN files :
            LET f == files[i]
                candidates == CandidateHunks(f.path, f.patch)
                hunks == [k \in DOMAIN candidates |-> candidates[k].hunk]
                InHunk(n) == \E k \in DOMAIN hunks :
                    n \in hunks[k].newStart..(hunks[k].newStart + hunks[k].newLen - 1)
            IN f.text \notin BinaryTexts =>
                 /\ \A k \in DOMAIN hunks :
                      /\ Fits(hunks[k], f.base, f.text)
                      /\ Additions(<<hunks[k]>>) > 0 => InHunk(FirstAddedLine(hunks[k]))
                 /\ Additions(hunks) = Additions(f.patch)
                 /\ \A k \in DOMAIN hunks \ {1} :
                      ~(/\ Last(hunks[k - 1].body).op = "-" /\ Head(hunks[k].body).op = "+"
                        /\ hunks[k].newStart = First(hunks[k - 1].newStart, hunks[k - 1].newLen)
                                                 + hunks[k - 1].newLen)
                 /\ \A n \in DOMAIN f.text : ~InHunk(n) => f.base[BaseLine(f.patch, n)] = f.text[n]

\* What a scan has to review of a commit: links are passed over.
RegularFiles(tree) ==
    [p \in {q \in Subjects(DOMAIN tree \cap UNION ToSet(Scopes)) : tree[q] \notin NotRegular} |-> tree[p]]

\* A report that calls its source clean is the review of the commit it names:
\* one step of the developer, at any moment, either leaves what was read as
\* it is at that commit or costs the report the claim (run_mode).
CleanIsExact ==
    (report # Nothing /\ report.clean /\ moves <= 1) =>
        IF mode = "scan"
        THEN context = RegularFiles(Tree[report.head])
        ELSE Exact(Tree[report.head], <<>>)

\* What is read for a path was the text of that path at some moment, even
\* when directories are exchanged between the open and the read, unless the
\* developer exchanges them back as well and writes in between
\* (read_repo_file_limit, assert_same_file).
ReadsAreItsOwn ==
    (mode # "pinned" /\ moves <= 3) =>
        /\ \A p \in DOMAIN context : \E w \in past : p \in DOMAIN w.work /\ w.work[p].text = context[p]
        /\ \A i \in DOMAIN files :
             (files[i].base = <<>> /\ files[i].text # <<>> /\ mode = "live") =>
                 \E w \in past : /\ files[i].path \in DOMAIN w.work
                                 /\ w.work[files[i].path].text = files[i].text

\* Whatever earlier runs left in the index directory, the index is the one a
\* first run would build: no stale language, path or test (RepoIndex::build).
IndexIsFresh ==
    index # Nothing => index = [Build(context, <<>>) EXCEPT !.changedTests = ChangedTests]

\* Every text is its path's own, and so is what the index says of it.
TextsAreTheirOwn == ReadsAreItsOwn /\ IndexIsFresh

\* The evidence, once it is collected.
Collected == auxiliary /\ pc \notin Gathering \cup {"failed"}
Told == evidence.found
Tells(p) == (\E f \in Told.files : f[1] = p) \/ \E c \in Told.changes : p \in {c.path, c.old}

\* Paths that repository_evidence is about, and those Git knew all along.
Evident == {p \in UNION ToSet(Scopes) : EvidencePath(p)}
KnownThroughout(p) ==
    \/ \A w \in past : p \in w.tracked
    \/ mode = "live" /\ \A w \in past : p \in Untracked(w)

\* Nothing that bears on p has moved.
Untouched(p) ==
    \A w \in past :
        /\ w.head = world.head /\ w.ref = world.ref
        /\ p \in w.tracked <=> p \in world.tracked
        /\ p \in DOMAIN w.work <=> p \in DOMAIN world.work
        /\ p \in DOMAIN w.work => w.work[p].text = world.work[p].text

\* What p was at the base, and what it is; one that left the index is gone.
BaseOf(p) == IF p \in DOMAIN TreeOf(Base) THEN TreeOf(Base)[p] ELSE Nothing
TextNow(p) ==
    IF \/ p \in world.tracked \cap DOMAIN world.work
       \/ mode = "live" /\ p \in Untracked(world) /\ BaseOf(p) = Nothing
    THEN world.work[p].text ELSE Nothing

\* A rename whose new path an earlier scope told, as an addition.
RenamedAcross(p) ==
    \E c \in Told.changes : \E k \in DOMAIN Scopes :
        <<BaseOf(p), c.content>> \in Similar /\ c.path \in Scopes[k] /\ p \notin Scopes[k]

\* Evidence without an unknown has left nothing out, although nothing makes
\* it a snapshot (git.rs:681-686).  A path that Git knew all along is told,
\* even if its file goes away between the listing and the read.  A path that
\* nothing happened to is told as it is, with what it was, whatever happened
\* around it, and is not told as changed if it is not; but for a file that
\* moved out of a wider scope into one that was listed before.  No text is
\* made up or another path's (repository_evidence).
EvidenceComplete ==
    (Collected /\ Told.unknowns = {}) =>
        /\ \A p \in Evident : KnownThroughout(p) => Tells(p)
        /\ \A p \in Evident : Untouched(p) =>
             /\ TextNow(p) # Nothing => <<p, TextNow(p)>> \in Told.files
             /\ TextNow(p) # BaseOf(p) =>
                  \/ \E c \in Told.changes : /\ c.path = p /\ c.content = TextNow(p)
                                              /\ c.base = TextAt(TreeOf(Base), c.old)
                  \/ TextNow(p) = Nothing /\ (RenamedAcross(p) \/ \E c \in Told.changes : c.old = p)
             /\ TextNow(p) = BaseOf(p) => \A c \in Told.changes : c.path # p
        /\ \A f \in Told.files : \E w \in past :
             f[1] \in DOMAIN w.work /\ w.work[f[1]].text = f[2]
        /\ \A c \in Told.changes : c.base # <<>> => \E w \in past :
             \E b \in {w.head, MergeBase(w.ref, w.head)} \ {Nothing} :
                 c.base = TextAt(TreeOf(b), c.old)
=============================================================================
