------------------------------- MODULE Advise -------------------------------
(***************************************************************************)
(* review/auxiliary.rs: what --upgrade-triage and --docs-drift add to a    *)
(* finished review.  The evidence is collected before the review           *)
(* (Discovery has what may happen meanwhile); here it is redacted,         *)
(* compared, and its advisories appended behind the review's findings.     *)
(***************************************************************************)
EXTENDS Upgrades, DocsDrift

CONSTANTS Worlds,      \* the checkouts: head, ref, tracked and work as in GitWorld
          Wishes,      \* sets of the two checks asked for
          Masked,      \* line with a credential -> the line redacted
          Findings     \* the lists of findings the review may have ended with

VARIABLES pc, world,
          based,       \* --base was given
          wishes,
          reviewed,    \* reviewed_head, or Nothing
          evidence,    \* RepositoryEvidence
          upgrades, docs,       \* the summaries, or Nothing
          report       \* [partial, clean, findings, advisories, suppressed]

vars == <<pc, world, based, wishes, reviewed, evidence, upgrades, docs, report>>

Base == IF based THEN MergeBase(world.ref, world.head) ELSE world.head
\* One scope suffices here.
Gathered == Collect(world, Base, ~based, Scopes[1])

Init ==
    /\ world \in Worlds /\ based \in BOOLEAN /\ wishes \in Wishes
    /\ reviewed \in {world.head, Nothing}
    /\ pc = "collect"
    /\ evidence = Empty /\ upgrades = Nothing /\ docs = Nothing
    /\ \E f \in Findings :
         report = [partial |-> FALSE, clean |-> TRUE, findings |-> f,
                   advisories |-> {}, suppressed |-> 0]

CollectEvidence ==
    /\ pc = "collect" /\ pc' = "identify"
    /\ evidence' = Gathered
    /\ UNCHANGED <<world, based, wishes, reviewed, upgrades, docs, report>>

\* The evidence must be of the head that was reviewed.
Identify ==
    /\ pc = "identify" /\ pc' = "redact"
    /\ \/ reviewed = world.head /\ UNCHANGED <<evidence, report>>
       \/ /\ reviewed # world.head
          /\ evidence' = [evidence EXCEPT !.unknowns = @ \cup {"identity"}]
          /\ report' = [report EXCEPT !.partial = TRUE, !.clean = FALSE]
    /\ UNCHANGED <<world, based, wishes, reviewed, upgrades, docs>>

RedactText(text) ==
    IF text = Nothing THEN Nothing
    ELSE [i \in DOMAIN text |-> IF text[i] \in DOMAIN Masked THEN Masked[text[i]] ELSE text[i]]
Secret(text) == text # Nothing /\ ToSet(text) \cap DOMAIN Masked # {}

RedactedFiles(e) == {<<f[1], RedactText(f[2])>> : f \in e.files}
RedactedChanges(e) ==
    {[c EXCEPT !.base = RedactText(@), !.content = RedactText(@)] : c \in e.changes}
HasSecrets(e) ==
    \/ \E f \in e.files : Secret(f[2])
    \/ \E c \in e.changes : Secret(c.base) \/ Secret(c.content)

\* As RedactEvidence, saying nothing of it.
RedactEvidenceSilently ==
    /\ pc = "redact" /\ pc' = "upgrades"
    /\ evidence' = [evidence EXCEPT !.files = RedactedFiles(evidence),
                                    !.changes = RedactedChanges(evidence)]
    /\ UNCHANGED <<world, based, wishes, reviewed, upgrades, docs, report>>
RedactEvidence ==
    /\ pc = "redact" /\ pc' = "upgrades"
    /\ evidence' = [evidence EXCEPT
            !.files = RedactedFiles(evidence),
            !.changes = RedactedChanges(evidence),
            !.unknowns = @ \cup (IF HasSecrets(evidence) THEN {"redacted"} ELSE {})]
    /\ UNCHANGED <<world, based, wishes, reviewed, upgrades, docs, report>>

WithUnknowns(summary) ==
    [summary EXCEPT !.unknowns = @ \cup {<<Nothing, u>> : u \in evidence.unknowns}]

TriageUpgrades ==
    /\ pc = "upgrades" /\ pc' = "docs"
    /\ \/ /\ "upgrades" \in wishes
          /\ upgrades' = WithUnknowns(UpgradeSummary(evidence.changes, evidence.files))
          /\ report' = [report EXCEPT !.partial = @ \/ upgrades'.unknowns # {}]
       \/ "upgrades" \notin wishes /\ UNCHANGED <<upgrades, report>>
    /\ UNCHANGED <<world, based, wishes, reviewed, evidence, docs>>

CheckDocs ==
    /\ pc = "docs" /\ pc' = "append"
    /\ \/ /\ "docs" \in wishes
          /\ docs' = WithUnknowns(DocsSummary(evidence.changes, evidence.files))
          /\ report' = [report EXCEPT !.partial = @ \/ docs'.unknowns # {}]
       \/ "docs" \notin wishes /\ UNCHANGED <<docs, report>>
    /\ UNCHANGED <<world, based, wishes, reviewed, evidence, upgrades>>

\* fingerprint: line numbers are part of the evidence of an advisory.
Fingerprint(f) == <<f.file, f.mechanism, f.evidence>>
Advisories ==
    (IF upgrades = Nothing THEN {} ELSE UpgradeFindings(upgrades))
      \cup (IF docs = Nothing THEN {} ELSE DocsFindings(docs))

\* They follow the review's own findings, whose order stays.
AppendAdvisories ==
    /\ pc = "append" /\ pc' = "done"
    /\ \E hidden \in {{}} \cup {{Fingerprint(f)} : f \in Advisories} :
         LET shown == {f \in Advisories : Fingerprint(f) \notin hidden}
         IN report' = [report EXCEPT
                !.advisories = shown,
                !.suppressed = @ + Cardinality(Advisories \ shown)]
    /\ UNCHANGED <<world, based, wishes, reviewed, evidence, upgrades, docs>>

Next ==
    \/ CollectEvidence \/ Identify \/ RedactEvidence
    \/ TriageUpgrades \/ CheckDocs \/ AppendAdvisories

Spec == Init /\ [][Next]_vars

---------------------------------------------------------------------------
\* What was there to compare, before any of it was redacted.
Original == Gathered.changes

\* How often a package is in an inventory, at a version as it is shown.
Times(inventory, name, version) ==
    Cardinality({k \in DOMAIN inventory : /\ inventory[k].name = name
                                          /\ Display(inventory[k].version) = version})
Same(a, b) == a.name = b.name /\ a.version = b.version /\ a.config = b.config

\* The changes told of a path turn the one inventory into the other.
Reconciles(told, before, after) ==
    LET removed(n, v) == Cardinality({d \in told : d.name = n /\ d.oldVersion = v})
        added(n, v) == Cardinality({d \in told : d.name = n /\ d.newVersion = v})
        deps == {before[k] : k \in DOMAIN before} \cup {after[k] : k \in DOMAIN after}
        kept == {k \in DOMAIN before \cap DOMAIN after : Same(before[k], after[k])}
    IN /\ \A d \in deps : LET v == Display(d.version) IN
            Times(before, d.name, v) + added(d.name, v) = Times(after, d.name, v) + removed(d.name, v)
       /\ Cardinality({d \in told : d.oldVersion # Nothing}) = Cardinality(DOMAIN before \ kept)
       /\ Cardinality({d \in told : d.newVersion # Nothing}) = Cardinality(DOMAIN after \ kept)

\* Two entries are told as one package at two versions only when they are the
\* same entry, or the only ones of their package and source that went and came.
Unmistakable(d, before, after) ==
    LET Package(k) == SubSeq(k, 1, 2)
        went == {k \in DOMAIN before \ DOMAIN after : Package(k) = Package(d.key)}
        came == {k \in DOMAIN after \ DOMAIN before : Package(k) = Package(d.key)}
    IN \/ /\ d.key \in DOMAIN before \cap DOMAIN after
          /\ before[d.key].name = after[d.key].name
       \/ Cardinality(went) = 1 /\ Cardinality(came) = 1

\* No difference between two manifests is lost or made up: unless the triage
\* says that it could not read them, the upgrades, removals and additions it
\* tells are what turns the one inventory into the other, however versions of
\* one package, renamed packages and redacted credentials mix; and it tells an
\* upgrade only where nothing else can be meant (upgrades.rs:489-490).
UpgradesReconcile ==
    (pc = "done" /\ upgrades # Nothing) =>
        \A c \in Original :
            \/ ~Formatted(c.path) /\ (Kind(c.path) \in Unsupported =>
                                        <<c.path, "unsupported">> \in upgrades.unknowns)
            \/ {<<c.path, "unparsed">>, <<Nothing, "redacted">>} \cap upgrades.unknowns # {}
            \/ LET told == {d \in upgrades.changes : d.path = c.path}
                   before == Inventories(c)[1]
                   after == Inventories(c)[2]
               IN /\ Formatted(c.path) /\ Reconciles(told, before, after)
                  /\ \A d \in told : d.kind = "changed" => Unmistakable(d, before, after)

Reused == {c.old : c \in {d \in evidence.changes : d.old # d.path}}

\* A call is called drift only on evidence: its one interface is there to see
\* with another number of arguments, or no Rust source in the evidence names
\* it any more (docs_drift.rs:3-7).  Except for a new file at a path that a
\* rename left: a change listed later takes it out of the inventory.
DriftIsProven ==
    (pc = "done" /\ docs # Nothing) =>
        \A c \in {d \in docs.checks : d.status = "drift"} :
            \/ \E f \in evidence.files :
                 /\ f[1] = c.source.path /\ c.source.line \in DOMAIN f[2]
                 /\ f[2][c.source.line] \in DOMAIN DeclOf
                 /\ DeclOf[f[2][c.source.line]].name = c.symbol
                 /\ DeclOf[f[2][c.source.line]].arity \notin {Unclear, c.arity}
            \/ \A f \in evidence.files :
                 IsRust(f[1]) /\ f[1] \notin Reused => c.symbol \notin Names(f[2])
=============================================================================
