------------------------------- MODULE Publish -------------------------------
(***************************************************************************)
(* momus github-review: review/publish.rs publish, with the planning of    *)
(* domain/github_review.rs and the requests of adapters/github.rs.         *)
(*                                                                         *)
(* A run publishes the report of the head that triggered it: it reads the  *)
(* diff and the bot's earlier comments, posts one review with the new      *)
(* findings and creates or edits one summary comment.  It may be killed at *)
(* any point (a cancelled workflow, a timed out runner), and a request may *)
(* be applied although its answer is lost.  Meanwhile the head moves.      *)
(*                                                                         *)
(* A finding stands for its fingerprint, path and line; what GitHub holds  *)
(* are lists of comments, in the order it lists them.                      *)
(***************************************************************************)
EXTENDS Naturals, Sequences, FiniteSets

CONSTANTS Runs,         \* the workflow runs, each publishing once
          Heads,        \* 1..n: the commits the pull request's head moves through
          Findings,
          Report,       \* each head's findings in fix-first order, duplicates included
          Commentable,  \* the findings whose line is in each head's diff
          Near,         \* <<f, g>>: same file and topic, within REPOST_LINE_WINDOW
          MaxInline,    \* --max-comments
          ListMax,      \* SUMMARY_LIST_MAX
          Room,         \* list entries that SUMMARY_BODY_MAX leaves room for, at each head
          Codebase,     \* the report is of a scan, not of a diff
          Serial,       \* a concurrency group: a run starts only when no other runs
          MaxForeign    \* bound: comments others post with the bot's markers in them

ASSUME PublishAssumption ==
    /\ IsFiniteSet(Runs) /\ IsFiniteSet(Findings) /\ Near \subseteq Findings \X Findings
    /\ IsFiniteSet(Heads) /\ Heads # {} /\ Heads = 1..Cardinality(Heads)
    /\ Report \in [Heads -> Seq(Findings)]
    /\ Commentable \in [Heads -> SUBSET Findings]
    /\ MaxInline \in Nat /\ ListMax \in Nat /\ MaxForeign \in Nat
    /\ Room \in [Heads -> Nat]
    /\ Codebase \in BOOLEAN /\ Serial \in BOOLEAN

VARIABLES head,       \* the pull request's head
          comments,   \* GitHub: review comments, [finding, bot]
          summaries,  \* GitHub: comments that begin with the summary marker, [body, bot]
          pc,         \* where each run is
          at,         \* the head the run was triggered for
          diff,       \* pull_files: the findings whose line can be commented
          inline,     \* Plan.inline: positions in the report
          listed,     \* Plan.summary_only: position and reason
          already,    \* Plan.already_posted
          rejected,   \* review_rejected
          target      \* position of the summary to edit, 0 to create one

github == <<head, comments, summaries>>
plan == <<inline, listed, already, rejected>>
vars == <<head, comments, summaries, pc, at, diff, inline, listed, already, rejected, target>>

Over == {"done", "failed"}
Active(r) == pc[r] \notin Over \cup {"new"}
Goto(r, place) == pc' = [pc EXCEPT ![r] = place]
RangeOf(s) == {s[i] : i \in DOMAIN s}

\* posted_fingerprints and posted_topics, over the bot's comments only.
Posted == {c.finding : c \in {d \in RangeOf(comments) : d.bot}}

-----------------------------------------------------------------------------
(* plan: which findings go inline, and why the others do not.              *)

\* Mutant: a finding reported twice is planned twice.
FreshTwice(report) == {i \in DOMAIN report : report[i] \notin Posted}

Fresh(report) == {i \in DOMAIN report :
    report[i] \notin Posted /\ \A j \in 1..(i - 1) : report[j] # report[i]}

HasNear(f) == \E g \in Posted : <<f, g>> \in Near

\* Mutant: the diff is not consulted.
FitsAnywhere(report, lines) == {i \in Fresh(report) : ~Codebase /\ ~HasNear(report[i])}

Fits(report, lines) == {i \in Fresh(report) :
    ~Codebase /\ ~HasNear(report[i]) /\ report[i] \in lines}

\* Mutant: one comment over the cap.
InlineOneMore(report, lines) == {i \in Fits(report, lines) :
    Cardinality({j \in Fits(report, lines) : j < i}) <= MaxInline}

Inline(report, lines) == {i \in Fits(report, lines) :
    Cardinality({j \in Fits(report, lines) : j < i}) < MaxInline}

Reason(f, lines) ==
    IF Codebase THEN "NotADiffReview"
    ELSE IF HasNear(f) THEN "NearPosted"
    ELSE IF f \notin lines THEN "OutsideDiff" ELSE "OverCap"

Listed(report, lines) ==
    {<<i, Reason(report[i], lines)>> : i \in Fresh(report) \ Inline(report, lines)}

\* The order of summary_only: demoted findings come behind the others.
Before(r, e) ==
    {d \in listed[r] : \/ d[2] # "Rejected" /\ e[2] = "Rejected"
                       \/ (d[2] = "Rejected" <=> e[2] = "Rejected") /\ d[1] < e[1]}

\* bounded_summary leaves out, and counts, the lines there is no room for.
Fitting(r, entries) == {e \in entries : Cardinality(Before(r, e)) < Room[at[r]]}

\* summary_body: totals, the first ListMax listed findings and how many more.
Body(r) ==
    LET first == {e \in listed[r] : Cardinality(Before(r, e)) < ListMax}
        fits == Fitting(r, first)
        rest == listed[r] \ first
        moreFits == ListMax < Room[at[r]] IN
    [head    |-> at[r],
     inline  |-> Cardinality(inline[r]) + already[r],
     listed  |-> {<<Report[at[r]][e[1]], e[2]>> : e \in fits},
     more    |-> IF moreFits THEN Cardinality(rest) ELSE 0,
     omitted |-> Cardinality(first \ fits) + (IF rest # {} /\ ~moreFits THEN 1 ELSE 0)]

-----------------------------------------------------------------------------
Init ==
    /\ head = 1
    /\ comments = <<>> /\ summaries = <<>>
    /\ pc = [r \in Runs |-> "new"]
    /\ at = [r \in Runs |-> 1]
    /\ diff = [r \in Runs |-> {}]
    /\ inline = [r \in Runs |-> {}] /\ listed = [r \in Runs |-> {}]
    /\ already = [r \in Runs |-> 0] /\ rejected = [r \in Runs |-> FALSE]
    /\ target = [r \in Runs |-> 0]

\* An event, or a re-run by hand, starts a run for the head of that moment.
Begin(r) ==
    /\ pc[r] = "new"
    /\ Serial => \A q \in Runs : ~Active(q)
    /\ at' = [at EXCEPT ![r] = head]
    /\ Goto(r, "files")
    /\ UNCHANGED <<github, diff, plan, target>>

\* pull_files describes the pull request as it is now.
PullFiles(r) ==
    /\ pc[r] = "files"
    /\ diff' = [diff EXCEPT ![r] = Commentable[head]]
    /\ Goto(r, "comments")
    /\ UNCHANGED <<github, at, plan, target>>

\* review_comments, then the plan; a plan with nothing inline posts no review.
MakePlan(r) ==
    /\ pc[r] = "comments"
    /\ LET report == Report[at[r]] IN
         /\ inline' = [inline EXCEPT ![r] = Inline(report, diff[r])]
         /\ listed' = [listed EXCEPT ![r] = Listed(report, diff[r])]
         /\ already' = [already EXCEPT ![r] = Cardinality(DOMAIN report \ Fresh(report))]
         /\ Goto(r, IF Inline(report, diff[r]) = {} THEN "summary" ELSE "review")
    /\ UNCHANGED <<github, at, diff, rejected, target>>

InOrder(S) == CHOOSE s \in [1..Cardinality(S) -> S] :
    \A i, j \in 1..Cardinality(S) : i < j => s[i] < s[j]

\* GitHub creates the whole review or, if an anchor cannot be resolved, none of
\* it; for a commit that is no longer the head either can happen.
CreateReview(r) ==
    /\ pc[r] = "review"
    /\ LET report == Report[at[r]]
           order == InOrder(inline[r]) IN
         \/ /\ at[r] = head => \A i \in inline[r] : report[i] \in Commentable[head]
            /\ comments' = comments \o
                 [k \in DOMAIN order |-> [finding |-> report[order[k]], bot |-> TRUE]]
            /\ Goto(r, "posted")
         \/ /\ at[r] = head => \E i \in inline[r] : report[i] \notin Commentable[head]
            /\ Goto(r, "unresolved")
            /\ UNCHANGED comments
    /\ UNCHANGED <<head, summaries, at, diff, plan, target>>

ReviewPosted(r) ==
    /\ pc[r] = "posted"
    /\ Goto(r, "summary")
    /\ UNCHANGED <<github, at, diff, plan, target>>

\* Mutant: a rejected review's findings stay where they were.
DemoteNothing(r) ==
    /\ pc[r] = "unresolved"
    /\ rejected' = [rejected EXCEPT ![r] = TRUE]
    /\ inline' = [inline EXCEPT ![r] = {}]
    /\ Goto(r, "summary")
    /\ UNCHANGED <<github, at, diff, listed, already, target>>

\* A 422 for an anchor: demote_inline moves the findings to the summary.
DemoteInline(r) ==
    /\ pc[r] = "unresolved"
    /\ rejected' = [rejected EXCEPT ![r] = TRUE]
    /\ listed' = [listed EXCEPT ![r] = @ \cup (inline[r] \X {"Rejected"})]
    /\ inline' = [inline EXCEPT ![r] = {}]
    /\ Goto(r, "summary")
    /\ UNCHANGED <<github, at, diff, already, target>>

Ours == {k \in DOMAIN summaries : summaries[k].bot}

\* Mutant: the summary is always a new comment.
FindSummaryNever(r) ==
    /\ pc[r] = "summary"
    /\ target' = [target EXCEPT ![r] = 0]
    /\ Goto(r, "write")
    /\ UNCHANGED <<github, at, diff, plan>>

\* issue_comments: the bot's first summary, if there is one.
FindSummary(r) ==
    /\ pc[r] = "summary"
    /\ LET first == IF Ours = {} THEN 0 ELSE CHOOSE k \in Ours : \A j \in Ours : k <= j IN
         /\ target' = [target EXCEPT ![r] = first]
         /\ Goto(r, IF first # 0 /\ summaries[first].body = Body(r) THEN "done" ELSE "write")
    /\ UNCHANGED <<github, at, diff, plan>>

WriteSummary(r) ==
    /\ pc[r] = "write"
    /\ summaries' = IF target[r] = 0
                      THEN Append(summaries, [body |-> Body(r), bot |-> TRUE])
                      ELSE [summaries EXCEPT ![target[r]].body = Body(r)]
    /\ Goto(r, "written")
    /\ UNCHANGED <<head, comments, at, diff, plan, target>>

SummaryWritten(r) ==
    /\ pc[r] = "written"
    /\ Goto(r, "done")
    /\ UNCHANGED <<github, at, diff, plan, target>>

\* Any request fails, is never answered, or the run is killed: publish returns
\* an error, if anything, and what GitHub applied stays.
Fail(r) ==
    /\ Active(r)
    /\ Goto(r, "failed")
    /\ UNCHANGED <<github, at, diff, plan, target>>

\* The author pushes a commit.
Push ==
    /\ head + 1 \in Heads
    /\ head' = head + 1
    /\ UNCHANGED <<comments, summaries, pc, at, diff, plan, target>>

Foreign(list) == {k \in DOMAIN list : ~list[k].bot}

\* Somebody quotes a marker of the bot's in a comment of their own.
ForeignComment ==
    /\ Cardinality(Foreign(comments)) + Cardinality(Foreign(summaries)) < MaxForeign
    /\ \/ /\ \E f \in Findings : comments' = Append(comments, [finding |-> f, bot |-> FALSE])
          /\ UNCHANGED summaries
       \/ /\ summaries' = Append(summaries, [body |-> "quoted", bot |-> FALSE])
          /\ UNCHANGED comments
    /\ UNCHANGED <<head, pc, at, diff, plan, target>>

Next ==
    \/ Push \/ ForeignComment
    \/ \E r \in Runs :
         \/ Begin(r) \/ PullFiles(r) \/ MakePlan(r) \/ CreateReview(r) \/ ReviewPosted(r)
         \/ DemoteInline(r) \/ FindSummary(r) \/ WriteSummary(r) \/ SummaryWritten(r)
         \/ Fail(r)

Spec == Init /\ [][Next]_vars

-----------------------------------------------------------------------------
Positions == UNION {DOMAIN Report[h] : h \in Heads}
Reasons == {"NotADiffReview", "NearPosted", "OutsideDiff", "OverCap", "Rejected"}

TypeOK ==
    /\ head \in Heads
    /\ \A c \in RangeOf(comments) : c.finding \in Findings /\ c.bot \in BOOLEAN
    /\ \A s \in RangeOf(summaries) : s.bot => s.body.head \in Heads /\ {s.body.more, s.body.omitted} \subseteq Nat
    /\ pc \in [Runs -> Over \cup {"new", "files", "comments", "review", "posted",
                                  "unresolved", "summary", "write", "written"}]
    /\ at \in [Runs -> Heads]
    /\ diff \in [Runs -> SUBSET Findings]
    /\ \A r \in Runs : inline[r] \subseteq Positions /\ Cardinality(inline[r]) <= MaxInline
    /\ \A r \in Runs : listed[r] \subseteq Positions \X Reasons
    /\ already \in [Runs -> Nat]
    /\ rejected \in [Runs -> BOOLEAN]
    /\ \A r \in Runs : target[r] \in 0..Len(summaries)

ByBot(f) == {k \in DOMAIN comments : comments[k].bot /\ comments[k].finding = f}

(* README.md:236, "Re-runs never repeat a comment": however runs fail and  *)
(* are repeated, the bot comments on a finding at most once.               *)
PostedOnce == \A f \in Findings : Cardinality(ByBot(f)) <= 1

(* There is one sticky summary, found again by every later run.            *)
OneSummary == Cardinality(Ours) <= 1

(* However runs fail and are repeated, the bot says a thing once.           *)
SaidOnce == TypeOK /\ PostedOnce /\ OneSummary

\* What a reader of the pull request is told about a finding of r's report.
Shown(r, f) ==
    \/ ByBot(f) # {}
    \/ \E k \in Ours : summaries[k].body.head = at[r]
         /\ \/ \E e \in summaries[k].body.listed : e[1] = f
            \/ summaries[k].body.more + summaries[k].body.omitted > 0

(* A run that succeeds has lost no finding, whatever earlier runs managed  *)
(* to post, the head did meanwhile and others quoted: each one is a        *)
(* comment of the bot's, or in its summary, or counted there as omitted.   *)
NothingLost ==
    [][\A r \in Runs : pc[r] # "done" /\ pc'[r] = "done" =>
         \A f \in RangeOf(Report[at[r]]) : Shown(r, f)']_vars

(* GitHub rejects a review's anchors only when the head moved on: the diff *)
(* just read is why no finding costs the others their comments.            *)
RejectedOnlyWhenMoved == \A r \in Runs : rejected[r] => at[r] # head

=============================================================================
