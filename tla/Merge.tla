------------------------------- MODULE Merge -------------------------------
(***************************************************************************)
(* `momus scan --shard i/N` and `momus merge`: a checkout is scanned in N   *)
(* parts, perhaps by different people on different days, and the partial   *)
(* reports are offered to review/shard_merge.rs merge_reports in any       *)
(* combination, on a checkout that may have changed since.                 *)
(*                                                                         *)
(* A scan keeps the contents discovery read, so an edit while it runs is   *)
(* an edit after it.  Scans name their model by version (the merge asks    *)
(* for a pinned one); Client has what an alias adds.                       *)
(***************************************************************************)
EXTENDS Naturals, Sequences, FiniteSets, FiniteSetsExt

CONSTANTS Paths,        \* files that may exist, numbered in the order of their names
          Contents,     \* what a file may hold
          Start,        \* the checkout the first scan finds
          Models,       \* System One versions, with their server
          Counts,       \* the N of --shard i/N that scans are started with
          Hash,         \* path -> the first eight bytes of its SHA-256
          MaxProfiles,  \* MAX_PROFILES
          MaxScans,     \* bound on the scans kept
          MaxEdits,     \* bound on the edits of the checkout
          NoShard, NoReport

MaxCount == 256

ASSUME MergeAssumption ==
    /\ IsFiniteSet(Paths) /\ Paths \subseteq Nat /\ Hash \in [Paths -> Nat] /\ DOMAIN Start \subseteq Paths
    /\ Counts \subseteq 1..MaxCount
    /\ MaxProfiles \in Nat /\ MaxScans \in Nat /\ MaxEdits \in Nat

VARIABLES checkout,  \* the discovered files and their contents
          edits,
          saved,     \* the partial and whole reports saved so far
          merged,    \* the report of the last merge that was not refused
          refused    \* the reason the last merge was refused, or "no"

vars == <<checkout, edits, saved, merged, refused>>

---------------------------------------------------------------------------
\* Shards and the inventory they are of.

\* Mutant: the membership forgets that indices start at 1.
ContainsFromZero(shard, path) == Hash[path] % shard.count = shard.index

Contains(shard, path) == (Hash[path] % shard.count) + 1 = shard.index

ValidShard(shard) ==
    shard.count > 0 /\ shard.count <= MaxCount /\ shard.index > 0 /\ shard.index <= shard.count

\* The key is of the contents, not of the commit alone.
InventoryKey(files) == files

---------------------------------------------------------------------------
\* A scan.  What becomes of each file it owns:
\*   dismissed  by tier 0          failed    its screen, recorded as skipped
\*   deferred   by the budget      low, high screened; high has a finding
\*   unlocated  screened high, but its follow-up was lost
Outcomes == {"dismissed", "failed", "deferred", "low", "high", "unlocated"}

Screened(outcome) == {f \in DOMAIN outcome : outcome[f] \in {"low", "high", "unlocated"}}
With(outcome, results) == {f \in DOMAIN outcome : outcome[f] \in results}

Rows(outcome, model) ==
    [f \in Screened(outcome) |->
        [by |-> model, of |-> checkout[f], p |-> IF outcome[f] = "low" THEN 1 ELSE 2]]

\* The candidates for a profile: the MAX_PROFILES most suspect rows, ties in
\* discovery order, which priorities and the budget may permute.
Candidates(rows, chosen) ==
    /\ chosen \subseteq DOMAIN rows
    /\ Cardinality(chosen) = Min({MaxProfiles, Cardinality(DOMAIN rows)})
    /\ \A f \in chosen, g \in DOMAIN rows \ chosen : rows[f].p >= rows[g].p

\* run_review with a shard: the report it saves, if its screen kept anything.
PartialReport(shard, model, refine, tiered, outcome, chosen, lost) ==
    [shard |-> [index |-> shard.index, count |-> shard.count, key |-> InventoryKey(checkout),
                expected |-> DOMAIN checkout, refine |-> refine, model |-> model],
     matrix |-> Rows(outcome, model),
     screened |-> IF tiered THEN Cardinality(DOMAIN outcome) ELSE 0,
     dismissed |-> With(outcome, {"dismissed"}),
     skipped |-> ({"screen"} \X With(outcome, {"failed", "deferred"}))
                   \cup ({"locate"} \X With(outcome, {"unlocated"}))
                   \cup ({"profile"} \X lost),
     findings |-> With(outcome, {"high"}),
     profiles |-> chosen \ lost,
     deferred |-> Cardinality(With(outcome, {"deferred"}))]

ScreenFailed(outcome) ==
    LET screened == {f \in DOMAIN outcome : outcome[f] # "dismissed"} IN
    /\ screened # {}
    /\ \A f \in screened : outcome[f] = "failed"

Scan(shard, model, refine, tiered) ==
    LET owned == {f \in DOMAIN checkout : Contains(shard, f)} IN
    /\ ValidShard(shard)
    /\ Cardinality(saved) < MaxScans
    /\ \E outcome \in [owned -> Outcomes] :
         /\ With(outcome, {"dismissed"}) # {} => tiered
         /\ ~ScreenFailed(outcome)
         /\ \E chosen \in SUBSET Screened(outcome) : \E lost \in SUBSET chosen :
              /\ Candidates(Rows(outcome, model), chosen)
              /\ saved' = saved \cup
                   {PartialReport(shard, model, refine, tiered, outcome, chosen, lost)}
    /\ UNCHANGED <<checkout, edits, merged, refused>>

\* A review that was not sharded is saved next to them.
ScanWhole(model) ==
    /\ Cardinality(saved) < MaxScans
    /\ saved' = saved \cup
         {[PartialReport([index |-> 1, count |-> 1], model, FALSE, FALSE,
                         [f \in DOMAIN checkout |-> "low"], {}, {}) EXCEPT !.shard = NoShard]}
    /\ UNCHANGED <<checkout, edits, merged, refused>>

Edit ==
    /\ edits < MaxEdits
    /\ edits' = edits + 1
    /\ \E f \in Paths :
         \/ \E c \in Contents :
              checkout' = [g \in DOMAIN checkout \cup {f} |-> IF g = f THEN c ELSE checkout[g]]
         \/ f \in DOMAIN checkout /\ checkout' = [g \in DOMAIN checkout \ {f} |-> checkout[g]]
    /\ UNCHANGED <<saved, merged, refused>>

---------------------------------------------------------------------------
\* merge_reports.

\* A shard that asked for nothing has not settled which model it is of.
Asked(part) == DOMAIN part.matrix # {} \/ part.screened > 0

\* Mutant: every shard is compared with the first report alone.
ModelOfFirst(parts) == parts[1].shard.model

ModelOf(parts) ==
    LET asked == {i \in DOMAIN parts : parts[i].shard # NoShard /\ Asked(parts[i])} IN
    IF asked = {} THEN parts[1].shard.model ELSE parts[Min(asked)].shard.model

Validate(parts) ==
    LET first == parts[1].shard IN
    /\ parts # <<>> /\ first # NoShard
    /\ first.count \in 1..MaxCount /\ Len(parts) = first.count
    /\ \A i \in DOMAIN parts :
         LET m == parts[i].shard IN
         /\ m # NoShard
         /\ m.count = first.count /\ m.index \in 1..first.count
         /\ \A j \in 1..(i - 1) : parts[j].shard.index # m.index
         /\ m.key = first.key /\ m.refine = first.refine /\ m.expected = first.expected
         /\ Asked(parts[i]) => m.model = ModelOf(parts)

\* What part i brings must be of its shard, of the inventory, and new.
Assigned(parts, i, path) ==
    Contains(parts[i].shard, path) /\ path \in parts[1].shard.expected

Judged(part) == DOMAIN part.matrix \cup part.dismissed
JudgedBefore(parts, i) == UNION {Judged(parts[j]) : j \in 1..(i - 1)}

FitsShard(parts, i) ==
    LET part == parts[i] IN
    /\ \A f \in Judged(part) : Assigned(parts, i, f) /\ f \notin JudgedBefore(parts, i)
    /\ DOMAIN part.matrix \cap part.dismissed = {}
    /\ \A s \in part.skipped : s[1] = "screen" => Assigned(parts, i, s[2])
    /\ \A f \in part.findings :
         Contains(part.shard, f) /\ f \in JudgedBefore(parts, i) \cup Judged(part)

OfAll(parts, Field(_)) == UNION {Field(parts[i]) : i \in DOMAIN parts}

\* Mutant: the profiles of the parts are only concatenated.
MostSuspectUncut(candidates, matrix) == candidates

\* The profiles of every part, most suspect first and then by path, cut again.
MostSuspect(candidates, matrix) ==
    {f \in candidates :
        Cardinality({g \in candidates :
            \/ matrix[g].p > matrix[f].p
            \/ matrix[g].p = matrix[f].p /\ g < f}) < MaxProfiles}

Combine(parts) ==
    LET matrix == [f \in OfAll(parts, LAMBDA p : DOMAIN p.matrix) |->
            parts[CHOOSE i \in DOMAIN parts : f \in DOMAIN parts[i].matrix].matrix[f]]
        dismissed == OfAll(parts, LAMBDA p : p.dismissed)
        skipped == OfAll(parts, LAMBDA p : p.skipped)
        deferred == MapThenSumSet(LAMBDA i : parts[i].deferred, DOMAIN parts)
    IN [matrix |-> matrix, dismissed |-> dismissed, skipped |-> skipped, deferred |-> deferred,
        findings |-> OfAll(parts, LAMBDA p : p.findings),
        profiles |-> MostSuspect(OfAll(parts, LAMBDA p : p.profiles), matrix),
        partial |-> skipped # {} \/ deferred > 0 \/ dismissed # {}]

Omits(parts) ==
    \E f \in parts[1].shard.expected :
        /\ \A i \in DOMAIN parts : f \notin Judged(parts[i])
        /\ <<"screen", f>> \notin OfAll(parts, LAMBDA p : p.skipped)

Refusal(parts, model) ==
    CASE ~Validate(parts) -> "incompatible"
      [] InventoryKey(checkout) # parts[1].shard.key -> "checkout"
      [] (\E i \in DOMAIN parts : Asked(parts[i])) /\ model # ModelOf(parts) -> "model"
      [] \E i \in DOMAIN parts : ~FitsShard(parts, i) -> "assignment"
      [] Omits(parts) -> "omitted"
      [] OTHER -> "no"

MergeReports(parts, model) ==
    /\ refused' = Refusal(parts, model)
    /\ merged' = IF refused' = "no" THEN Combine(parts) ELSE merged
    /\ UNCHANGED <<checkout, edits, saved>>

---------------------------------------------------------------------------
Init ==
    /\ checkout = Start /\ edits = 0 /\ saved = {} /\ merged = NoReport /\ refused = "no"

Next ==
    \/ Edit
    \/ \E model \in Models :
         \/ \E n \in Counts : \E i \in 1..n : \E refine, tiered \in BOOLEAN :
              Scan([index |-> i, count |-> n], model, refine, tiered)
         \/ ScanWhole(model)
         \/ \E n \in Counts : \E parts \in [1..n -> saved] : MergeReports(parts, model)

Spec == Init /\ [][Next]_vars

---------------------------------------------------------------------------
\* A merge that is accepted is one review of the checkout as it is now: every
\* file judged once, on its present contents and by one model, or recorded as
\* dismissed or failed; profiles are the global top; and the report reads
\* complete only when nothing was left out (shard_merge.rs:13-199).
Whole == INSTANCE WholeReview WITH report <- merged

MergesOneReview == Whole!Spec

\* The converse: one scan of every shard of the present checkout, with one
\* configuration and one model among the shards that asked anything, is always
\* accepted by a merge with that model (shard_merge.rs:203-255).
OneScanEach(parts, model) ==
    /\ \A i \in DOMAIN parts : parts[i].shard # NoShard
    /\ {parts[i].shard.index : i \in DOMAIN parts} = DOMAIN parts
    /\ \A i \in DOMAIN parts :
         /\ parts[i].shard.count = Len(parts)
         /\ parts[i].shard.key = checkout
         /\ parts[i].shard.refine = parts[1].shard.refine
         /\ Asked(parts[i]) => parts[i].shard.model = model

CompleteSetMerges ==
    \A n \in Counts, model \in Models : \A parts \in [1..n -> saved] :
        OneScanEach(parts, model) => Refusal(parts, model) = "no"
=============================================================================
