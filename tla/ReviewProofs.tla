---------------------------- MODULE ReviewProofs ----------------------------
(***************************************************************************)
(* The report of a review accounts for every file and is not called whole  *)
(* when it is not, and neither a budget nor an outage costs too much, for  *)
(* any number of files, any breaker and any limits.                        *)
(***************************************************************************)
EXTENDS Review, FiniteSetTheorems, TLAPS

(* Before the screen nothing is recorded but what tier 0 dismissed.        *)
Before ==
    stage \in {"tier", "screen"} =>
        /\ files \cup dismissed = owned /\ files \cap dismissed = {}
        /\ matrix = {} /\ signals = {} /\ followed = {} /\ located = {}
        /\ skipped = {} /\ unclear = {}
        /\ stage = "tier" \/ ~Tiered => dismissed = {} /\ ~deferred /\ sent = 0
        /\ stage = "screen" /\ Tiered => files # {}
        /\ stage = "tier" => Tiered

Unscreened == {f \in owned : <<"screen", f>> \in skipped}

(* After it every owned file has one place, and what was followed up and   *)
(* not located is among the skipped.                                       *)
After ==
    stage \in {"profile", "locate", "finish", "report"} =>
        /\ matrix \cup dismissed \cup Unscreened = owned
        /\ matrix \cap dismissed = {} /\ matrix \cap Unscreened = {}
        /\ dismissed \cap Unscreened = {}
        /\ \A s \in followed : s \in located \/ <<"locate", s>> \in skipped

(* A stage that only failed does not hand over to the next one.            *)
Recovered ==
    stage \in {"profile", "locate", "finish"} /\ ~Tiered => ~failing

OwnsAll == ~Sharded => owned = Discovered

IInv == /\ ReportAccounts /\ TroubleContained
        /\ Before /\ After /\ Recovered /\ OwnsAll

---------------------------------------------------------------------------
(* One stage, whatever its items are.                                      *)
LEMMA StageHeard ==
    ASSUME NEW items, IsFiniteSet(items), NEW outcome \in [items -> Results],
           NEW probe \in SUBSET items,
           Cardinality(probe) = Smaller(Breaker, Cardinality(items))
    PROVE  /\ Kept(items, outcome, probe) \subseteq Heard(items, outcome, probe)
           /\ Heard(items, outcome, probe) \subseteq items
           /\ Cardinality(Heard(items, outcome, probe)) \in Nat
           /\ ~Tripped(outcome, probe) => Heard(items, outcome, probe) = items
           /\ Tripped(outcome, probe) =>
                \E i \in Heard(items, outcome, probe) : outcome[i] = "failed"
           /\ (\A i \in Heard(items, outcome, probe) : outcome[i] = "failed") =>
                Cardinality(Heard(items, outcome, probe)) <= Breaker
  <1> DEFINE heard == Heard(items, outcome, probe)
  <1>1. Breaker \in Nat \ {0}
    BY ReviewAssumption
  <1>2. heard \subseteq items /\ Kept(items, outcome, probe) \subseteq heard
    BY DEF Heard, Kept
  <1>3. /\ IsFiniteSet(heard) /\ Cardinality(heard) \in Nat
        /\ Cardinality(items) \in Nat /\ Cardinality(heard) <= Cardinality(items)
    BY <1>2, FS_Subset, FS_CardinalityType
  <1>4. Tripped(outcome, probe) => \E i \in heard : outcome[i] = "failed"
    <2> SUFFICES ASSUME Tripped(outcome, probe)
                 PROVE  \E i \in heard : outcome[i] = "failed"
      OBVIOUS
    <2>1. heard = probe /\ Cardinality(probe) = Breaker
      BY DEF Heard, Tripped
    <2>2. probe # {}
      BY <1>1, <2>1, FS_EmptySet
    <2> QED BY <2>1, <2>2 DEF Tripped
  <1>5. ASSUME \A i \in heard : outcome[i] = "failed"
        PROVE  Cardinality(heard) <= Breaker
    <2>1. CASE Cardinality(items) <= Breaker
      BY <1>1, <1>3, <2>1
    <2>2. CASE ~(Cardinality(items) <= Breaker)
      <3>1. Cardinality(probe) = Breaker
        BY <1>1, <1>3, <2>2 DEF Smaller
      <3>2. probe \subseteq heard
        BY DEF Heard
      <3>3. Tripped(outcome, probe)
        BY <1>5, <3>1, <3>2 DEF Tripped
      <3> QED BY <1>1, <3>1, <3>3 DEF Heard
    <2> QED BY <2>1, <2>2
  <1>6. ~Tripped(outcome, probe) => heard = items
    BY DEF Heard
  <1> QED BY <1>2, <1>3, <1>4, <1>5, <1>6

(* The items of the stages are finitely many.                              *)
LEMMA FiniteItems ==
    ASSUME TypeOK
    PROVE  IsFiniteSet(files) /\ IsFiniteSet(matrix) /\ IsFiniteSet(signals)
  <1>1. /\ files \subseteq Discovered /\ matrix \subseteq Discovered
        /\ signals \subseteq Discovered \X Dimensions
    BY DEF TypeOK
  <1>2. IsFiniteSet(Discovered) /\ IsFiniteSet(Discovered \X Dimensions)
    BY ReviewAssumption, FS_Product
  <1> QED BY <1>1, <1>2, FS_Subset

LEMMA InitHolds == Init => IInv
  <1> SUFFICES ASSUME Init PROVE IInv
    OBVIOUS
  <1>1. OwnsAll /\ Before /\ After /\ Recovered
    BY DEF Init, OwnsAll, Before, After, Recovered
  <1>2. NotPartialIsComplete /\ EveryFileAccounted /\ TroubleContained
    BY ReviewAssumption DEF Init, NotPartialIsComplete, EveryFileAccounted, Reported,
       TroubleContained, BudgetNeverFatal, SystemicFailureAborts
  <1>3. TypeOK
    <2>1. Cardinality({}) = 0 /\ MaxFollowUps \in Nat
      BY FS_EmptySet, ReviewAssumption
    <2>2. /\ owned \subseteq Discovered
          /\ {files, dismissed, matrix, unclear} \subseteq SUBSET owned
          /\ {deferred, partial, failing, failed} \subseteq BOOLEAN
      BY DEF Init
    <2>3. /\ options \in Options /\ sent \in Nat
          /\ stage \in {"tier", "screen", "profile", "locate", "finish", "report", "error"}
      BY DEF Init
    <2>4. /\ located \subseteq followed /\ followed \subseteq signals
          /\ signals \subseteq matrix \X Dimensions /\ Cardinality(followed) <= MaxFollowUps
          /\ skipped \subseteq {"screen", "profile", "locate", "testPlan"} \X Items
      BY <2>1 DEF Init
    <2> QED BY <2>2, <2>3, <2>4 DEF TypeOK
  <1> QED BY <1>1, <1>2, <1>3 DEF IInv, ReportAccounts

---------------------------------------------------------------------------
LEMMA EmptyHolds == ASSUME IInv, Empty PROVE IInv'
  <1>1. TypeOK /\ Before /\ OwnsAll
    BY DEF IInv, ReportAccounts
  <1>2. UNCHANGED <<options, owned, files, dismissed, matrix, signals, followed, located,
                    skipped, deferred, unclear, sent, failing, failed>>
    BY DEF Empty, fixed
  <1>3. stage' \in {"report", "error"} /\ partial' = Sharded
    BY DEF Empty
  <1>4. /\ owned = {} /\ matrix = {} /\ dismissed = {} /\ skipped = {}
        /\ located = {} /\ followed = {} /\ signals = {} /\ unclear = {}
        /\ ~deferred /\ sent = 0
    BY <1>1 DEF Empty, Before
  <1>5. TypeOK'
    BY <1>1, <1>2, <1>3 DEF TypeOK, Sharded
  <1>6. NotPartialIsComplete'
    BY <1>1, <1>2, <1>3, <1>4 DEF NotPartialIsComplete, OwnsAll, Sharded
  <1>7. EveryFileAccounted' /\ After'
    BY <1>2, <1>4 DEF EveryFileAccounted, After, Unscreened
  <1>8. TroubleContained'
    BY <1>2, <1>4, ReviewAssumption DEF TroubleContained, BudgetNeverFatal, SystemicFailureAborts
  <1>9. Before' /\ Recovered' /\ OwnsAll'
    BY <1>1, <1>2, <1>3 DEF Before, Recovered, OwnsAll, Sharded
  <1> QED BY <1>5, <1>6, <1>7, <1>8, <1>9 DEF IInv, ReportAccounts

LEMMA TierZeroHolds == ASSUME IInv, TierZero PROVE IInv'
  <1>1. TypeOK /\ Before /\ OwnsAll
    BY DEF IInv, ReportAccounts
  <1>2. UNCHANGED <<options, owned, matrix, signals, followed, located, skipped, unclear>>
    BY DEF TierZero, fixed
  <1>3. /\ files = owned /\ files # {} /\ matrix = {} /\ skipped = {}
        /\ located = {} /\ followed = {} /\ signals = {} /\ unclear = {}
    BY <1>1 DEF TierZero, Before
  <1>4. /\ dismissed' \subseteq files /\ files' = files \ dismissed'
        /\ stage' = IF files' = {} THEN "report" ELSE "screen"
        /\ partial' = (files' = {})
        /\ deferred' \in BOOLEAN /\ failing' \in BOOLEAN /\ failed' \in BOOLEAN
    BY DEF TierZero
  <1>5. sent' \in Nat
    <2>1. PICK asked \in SUBSET files : sent' = Cardinality(asked)
      BY DEF TierZero
    <2>2. IsFiniteSet(asked)
      BY <1>1, FiniteItems, FS_Subset
    <2> QED BY <2>1, <2>2, FS_CardinalityType
  <1>6. TypeOK'
    BY <1>1, <1>2, <1>3, <1>4, <1>5 DEF TypeOK
  <1>7. EveryFileAccounted' /\ NotPartialIsComplete' /\ After'
    BY <1>2, <1>3, <1>4
       DEF EveryFileAccounted, NotPartialIsComplete, Reported, After, Unscreened
  <1>8. Tiered /\ TroubleContained'
    <2>1. Tiered
      BY <1>1 DEF TierZero, Before
    <2> QED BY <1>2, <1>4, <2>1
            DEF TroubleContained, BudgetNeverFatal, SystemicFailureAborts, Tiered
  <1>9. Before' /\ Recovered' /\ OwnsAll'
    BY <1>1, <1>2, <1>3, <1>4, <1>8 DEF Before, Recovered, OwnsAll, Sharded, Tiered
  <1> QED BY <1>6, <1>7, <1>8, <1>9 DEF IInv, ReportAccounts

---------------------------------------------------------------------------
(* What run_stage adds, for stages whose items are files or signals.       *)
LEMMA RunStageAdds ==
    ASSUME TypeOK, NEW name \in {"screen", "profile", "locate"},
           NEW items, IsFiniteSet(items), items \subseteq Items,
           NEW outcome \in [items -> Results], NEW probe \in SUBSET items,
           RunStage(name, items, outcome, probe)
    PROVE  /\ skipped' \subseteq {"screen", "profile", "locate", "testPlan"} \X Items
           /\ skipped' = skipped \cup
                ({name} \X (Heard(items, outcome, probe) \ Kept(items, outcome, probe)))
           /\ {deferred', failing', failed'} \subseteq BOOLEAN /\ sent' \in Nat
           /\ failed => failed'
           /\ failing' => failing /\ \A i \in Heard(items, outcome, probe) : outcome[i] = "failed"
           /\ Tripped(outcome, probe) => failed'
  <1> DEFINE heard == Heard(items, outcome, probe)
             lost == heard \ Kept(items, outcome, probe)
  <1>1. /\ Kept(items, outcome, probe) \subseteq heard /\ heard \subseteq items
        /\ Cardinality(heard) \in Nat
        /\ Tripped(outcome, probe) => \E i \in heard : outcome[i] = "failed"
    BY StageHeard DEF RunStage
  <1>2. /\ skipped' = skipped \cup ({name} \X lost)
        /\ deferred' = (deferred \/ \E i \in heard : outcome[i] = "deferred")
        /\ sent' = sent + Cardinality(heard)
        /\ failing' = (failing /\ \A i \in heard : outcome[i] = "failed")
        /\ failed' = (failed \/ \E i \in heard : outcome[i] = "failed")
    BY DEF RunStage
  <1>3. sent' \in Nat
    BY <1>1, <1>2 DEF TypeOK
  <1>4. {deferred', failing', failed'} \subseteq BOOLEAN
    BY <1>2 DEF TypeOK
  <1>5. skipped' \subseteq {"screen", "profile", "locate", "testPlan"} \X Items
    <2>1. lost \subseteq Items
      BY <1>1
    <2> HIDE DEF lost
    <2> QED BY <1>2, <2>1 DEF TypeOK
  <1> QED BY <1>1, <1>2, <1>3, <1>4, <1>5

LEMMA ScreenHolds == ASSUME IInv, Screen PROVE IInv'
  <1>1. TypeOK /\ Before /\ OwnsAll
    BY DEF IInv, ReportAccounts
  <1>2. UNCHANGED <<options, owned, files, dismissed, followed, located, unclear, partial>>
    BY DEF Screen, fixed
  <1>3. /\ files \cup dismissed = owned /\ files \cap dismissed = {}
        /\ skipped = {} /\ followed = {} /\ located = {} /\ unclear = {}
        /\ ~Tiered => dismissed = {} /\ ~deferred /\ sent = 0
        /\ files # {}
    BY <1>1 DEF Screen, Before
  <1>4. PICK outcome \in [files -> Results], probe \in SUBSET files :
          /\ RunStage("screen", files, outcome, probe)
          /\ matrix' = Kept(files, outcome, probe)
          /\ \/ /\ Tripped(outcome, probe) \/ (matrix' = {} /\ ~deferred')
                /\ stage' = "error"
                /\ signals' = {}
             \/ /\ ~Tripped(outcome, probe) /\ (matrix' # {} \/ deferred')
                /\ stage' = "profile"
                /\ signals' \in SUBSET (matrix' \X Dimensions)
    BY DEF Screen
  <1> DEFINE heard == Heard(files, outcome, probe)
             kept == Kept(files, outcome, probe)
  <1>5. /\ skipped' \subseteq {"screen", "profile", "locate", "testPlan"} \X Items
        /\ skipped' = {"screen"} \X (heard \ kept)
        /\ {deferred', failing', failed'} \subseteq BOOLEAN /\ sent' \in Nat
        /\ failing' => \A i \in heard : outcome[i] = "failed"
        /\ Tripped(outcome, probe) => failed'
    <2>1. IsFiniteSet(files) /\ files \subseteq Items
      BY <1>1, FiniteItems DEF Items, TypeOK
    <2> QED BY <1>1, <1>3, <1>4, <2>1, RunStageAdds
  <1>6. /\ kept \subseteq heard /\ heard \subseteq files
        /\ kept = {i \in heard : outcome[i] = "ok"}
        /\ ~Tripped(outcome, probe) => heard = files
        /\ (\A i \in heard : outcome[i] = "failed") => Cardinality(heard) <= Breaker
    BY <1>1, <1>4, FiniteItems, StageHeard DEF RunStage, Kept
  <1>7. deferred' = (deferred \/ \E i \in heard : outcome[i] = "deferred")
    BY <1>4 DEF RunStage
  <1> HIDE DEF heard, kept
  <1>8. TypeOK'
    <2>1. matrix' \subseteq owned /\ signals' \subseteq matrix' \X Dimensions
      BY <1>3, <1>4, <1>6 DEF kept
    <2>2. followed' = {} /\ located' = {}
      BY <1>2, <1>3
    <2> QED BY <1>1, <1>2, <1>4, <1>5, <2>1, <2>2 DEF TypeOK
  <1>9. After'
    <2> SUFFICES ASSUME stage' = "profile"
                 PROVE  After'
      BY <1>4 DEF After
    <2>1. heard = files
      BY <1>4, <1>6
    <2>2. Unscreened' = files \ matrix'
      BY <1>2, <1>3, <1>4, <1>5, <2>1 DEF Unscreened, kept
    <2>3. matrix' \subseteq files
      BY <1>4, <1>6 DEF kept
    <2> QED BY <1>2, <1>3, <2>2, <2>3 DEF After
  <1>10. BudgetNeverFatal'
    <2> SUFFICES ASSUME stage' = "error" PROVE failed'
      BY DEF BudgetNeverFatal
    <2>1. CASE Tripped(outcome, probe)
      BY <1>5, <2>1
    <2>2. CASE ~Tripped(outcome, probe)
      <3>1. heard = files /\ kept = {} /\ ~deferred'
        BY <1>4, <1>6, <2>2 DEF kept
      <3>2. \E i \in heard : outcome[i] = "failed"
        BY <1>3, <1>6, <1>7, <3>1 DEF Results
      <3> QED BY <1>4, <3>2 DEF RunStage, heard
    <2> QED BY <2>1, <2>2
  <1>11. SystemicFailureAborts' /\ Recovered'
    <2> SUFFICES ASSUME ~Tiered', failing'
                 PROVE  sent' <= Breaker /\ stage' = "error"
      BY <1>4 DEF SystemicFailureAborts, Recovered, Tiered
    <2>1. ~Tiered
      BY <1>2 DEF Tiered
    <2>2. \A i \in heard : outcome[i] = "failed"
      BY <1>5
    <2>3. sent' = sent + Cardinality(heard) /\ sent = 0
      BY <1>3, <1>4, <2>1 DEF RunStage, heard
    <2>4. Cardinality(heard) \in Nat
      BY <1>1, <1>4, FiniteItems, StageHeard DEF RunStage, heard
    <2>5. kept = {} /\ ~deferred'
      BY <1>3, <1>6, <1>7, <2>1, <2>2
    <2> QED BY <1>4, <1>6, <2>2, <2>3, <2>4, <2>5 DEF kept
  <1>12. Before' /\ OwnsAll' /\ NotPartialIsComplete' /\ EveryFileAccounted'
    BY <1>1, <1>2, <1>4 DEF Before, OwnsAll, Sharded, NotPartialIsComplete,
       EveryFileAccounted, Reported
  <1> QED BY <1>8, <1>9, <1>10, <1>11, <1>12 DEF IInv, ReportAccounts, TroubleContained

---------------------------------------------------------------------------
(* Past the screen: nothing that a later stage adds to the skipped makes   *)
(* a file unscreened, and files keep their places.                         *)
LEMMA SkippedLater ==
    ASSUME NEW name, name # "screen", NEW lost,
           skipped' = skipped \cup ({name} \X lost), UNCHANGED owned
    PROVE  Unscreened' = Unscreened /\ skipped \subseteq skipped'
  BY DEF Unscreened

LEMMA ProfileHolds == ASSUME IInv, Profile PROVE IInv'
  <1>1. TypeOK /\ After /\ Recovered /\ OwnsAll /\ stage = "profile"
    BY DEF IInv, ReportAccounts, Profile
  <1>2. /\ stage' = "locate"
        /\ UNCHANGED <<options, owned, files, dismissed, matrix, signals, followed, located,
                       unclear, partial>>
    BY DEF Profile, fixed
  <1>3. PICK top \in SUBSET matrix :
          \E outcome \in [top -> Results], probe \in SUBSET top :
             RunStage("profile", top, outcome, probe)
    BY DEF Profile
  <1>3a. PICK outcome \in [top -> Results], probe \in SUBSET top :
          RunStage("profile", top, outcome, probe)
    BY <1>3
  <1>4. IsFiniteSet(top) /\ top \subseteq Items
    BY <1>1, FiniteItems, FS_Subset DEF Items, TypeOK
  <1>5. /\ skipped' \subseteq {"screen", "profile", "locate", "testPlan"} \X Items
        /\ skipped' = skipped \cup
             ({"profile"} \X (Heard(top, outcome, probe) \ Kept(top, outcome, probe)))
        /\ {deferred', failing', failed'} \subseteq BOOLEAN /\ sent' \in Nat
        /\ failing' => failing
    BY <1>1, <1>3a, <1>4, RunStageAdds
  <1>6. TypeOK'
    BY <1>1, <1>2, <1>5 DEF TypeOK
  <1>7. After'
    BY <1>1, <1>2, <1>5, SkippedLater DEF After
  <1>8. Recovered' /\ OwnsAll' /\ Before'
    BY <1>1, <1>2, <1>5 DEF Recovered, OwnsAll, Before, Tiered, Sharded
  <1>9. SystemicFailureAborts' /\ BudgetNeverFatal'
    BY <1>1, <1>2, <1>5 DEF SystemicFailureAborts, BudgetNeverFatal, Recovered, Tiered
  <1>10. NotPartialIsComplete' /\ EveryFileAccounted'
    BY <1>2 DEF NotPartialIsComplete, EveryFileAccounted, Reported
  <1> QED BY <1>6, <1>7, <1>8, <1>9, <1>10 DEF IInv, ReportAccounts, TroubleContained

LEMMA LocateHolds == ASSUME IInv, Locate PROVE IInv'
  <1>1. TypeOK /\ After /\ Recovered /\ OwnsAll /\ stage = "locate"
    BY DEF IInv, ReportAccounts, Locate
  <1>2. UNCHANGED <<options, owned, files, dismissed, matrix, signals, unclear, partial>>
    BY DEF Locate, fixed
  <1>3a. PICK chosen \in SUBSET signals :
          /\ Cardinality(chosen) = Smaller(MaxFollowUps, Cardinality(signals))
          /\ followed' = chosen
          /\ \E outcome \in [chosen -> Results], probe \in SUBSET chosen :
               /\ RunStage("locate", chosen, outcome, probe)
               /\ located' = Kept(chosen, outcome, probe)
               /\ stage' = IF Tripped(outcome, probe) THEN "error" ELSE "finish"
    BY DEF Locate
  <1>3. PICK outcome \in [chosen -> Results], probe \in SUBSET chosen :
          /\ RunStage("locate", chosen, outcome, probe)
          /\ located' = Kept(chosen, outcome, probe)
          /\ stage' = IF Tripped(outcome, probe) THEN "error" ELSE "finish"
    BY <1>3a
  <1>4. IsFiniteSet(chosen) /\ chosen \subseteq Items
    BY <1>1, FiniteItems, FS_Subset DEF Items, TypeOK
  <1> DEFINE heard == Heard(chosen, outcome, probe)
             kept == Kept(chosen, outcome, probe)
  <1>5. /\ skipped' \subseteq {"screen", "profile", "locate", "testPlan"} \X Items
        /\ skipped' = skipped \cup ({"locate"} \X (heard \ kept))
        /\ {deferred', failing', failed'} \subseteq BOOLEAN /\ sent' \in Nat
        /\ failing' => failing
        /\ Tripped(outcome, probe) => failed'
    BY <1>1, <1>3, <1>4, RunStageAdds
  <1>6. kept \subseteq chosen /\ (~Tripped(outcome, probe) => heard = chosen)
    BY <1>3, <1>4, StageHeard DEF RunStage
  <1> HIDE DEF heard, kept
  <1>7. TypeOK'
    <2>1. Cardinality(followed') <= MaxFollowUps
      <3>1. Cardinality(signals) \in Nat /\ MaxFollowUps \in Nat
        BY <1>1, FiniteItems, FS_CardinalityType, ReviewAssumption
      <3> QED BY <1>3a, <3>1 DEF Smaller
    <2>2. located' \subseteq followed'
      BY <1>3, <1>3a, <1>6 DEF kept
    <2> QED BY <1>1, <1>2, <1>3, <1>3a, <1>5, <2>1, <2>2 DEF TypeOK
  <1>8. After'
    <2> SUFFICES ASSUME stage' = "finish" PROVE After'
      BY <1>3 DEF After
    <2>1. Unscreened' = Unscreened
      BY <1>2, <1>5, SkippedLater
    <2>2. \A s \in followed' : s \in located' \/ <<"locate", s>> \in skipped'
      BY <1>3, <1>3a, <1>5, <1>6 DEF kept
    <2> QED BY <1>1, <1>2, <2>1, <2>2 DEF After
  <1>9. Recovered' /\ OwnsAll' /\ Before'
    BY <1>1, <1>2, <1>3, <1>3a, <1>5 DEF Recovered, OwnsAll, Before, Tiered, Sharded
  <1>10. SystemicFailureAborts' /\ BudgetNeverFatal'
    BY <1>1, <1>2, <1>3, <1>3a, <1>5 DEF SystemicFailureAborts, BudgetNeverFatal, Recovered, Tiered
  <1>11. NotPartialIsComplete' /\ EveryFileAccounted'
    BY <1>3 DEF NotPartialIsComplete, EveryFileAccounted, Reported
  <1> QED BY <1>7, <1>8, <1>9, <1>10, <1>11 DEF IInv, ReportAccounts, TroubleContained

LEMMA FinishHolds == ASSUME IInv, Finish PROVE IInv'
  <1>1. TypeOK /\ After /\ Recovered /\ OwnsAll /\ stage = "finish"
    BY DEF IInv, ReportAccounts, Finish
  <1>2. /\ stage' = "report" /\ partial' = Incomplete
        /\ UNCHANGED <<options, owned, files, dismissed, matrix, signals, followed, located,
                       sent, failing, failed>>
    BY DEF Finish, fixed
  <1>3. PICK planless \in SUBSET located : skipped' = skipped \cup ({"testPlan"} \X planless)
    BY DEF Finish
  <1>4. /\ unclear' \subseteq files /\ deferred' \in BOOLEAN
    BY <1>1 DEF Finish, TypeOK
  <1>5. TypeOK'
    <2>1. planless \subseteq Items
      BY <1>1 DEF TypeOK, Items
    <2>2. skipped' \subseteq {"screen", "profile", "locate", "testPlan"} \X Items
      BY <1>1, <1>3, <2>1 DEF TypeOK
    <2>3. partial' \in BOOLEAN
      BY <1>2, <1>4 DEF Incomplete, Sharded
    <2>4. unclear' \subseteq owned'
      BY <1>1, <1>2, <1>4 DEF TypeOK
    <2> QED BY <1>1, <1>2, <1>4, <2>2, <2>3, <2>4 DEF TypeOK
  <1>6. After'
    BY <1>1, <1>2, <1>3, SkippedLater DEF After
  <1>7. EveryFileAccounted'
    BY <1>2, <1>6 DEF EveryFileAccounted, After, Unscreened
  <1>8. NotPartialIsComplete'
    <2> SUFFICES ASSUME ~Incomplete
                 PROVE  /\ matrix' = Discovered /\ located' = signals'
                        /\ unclear' = {} /\ ~deferred'
      BY <1>2 DEF NotPartialIsComplete
    <2>1. /\ ~Sharded /\ unclear' = {} /\ followed = signals /\ ~deferred'
          /\ skipped' = {} /\ dismissed = {}
      BY DEF Incomplete
    <2>2. skipped = {}
      BY <1>3, <2>1
    <2>3. located = signals
      BY <1>1, <2>1, <2>2 DEF After, TypeOK
    <2>4. matrix = owned
      BY <1>1, <2>1, <2>2 DEF After, Unscreened
    <2> QED BY <1>1, <1>2, <2>1, <2>3, <2>4 DEF OwnsAll
  <1>9. Recovered' /\ OwnsAll' /\ Before'
    BY <1>1, <1>2 DEF Recovered, OwnsAll, Before, Sharded
  <1>10. SystemicFailureAborts' /\ BudgetNeverFatal'
    BY <1>1, <1>2 DEF SystemicFailureAborts, BudgetNeverFatal, Recovered, Tiered
  <1> QED BY <1>5, <1>6, <1>7, <1>8, <1>9, <1>10 DEF IInv, ReportAccounts, TroubleContained

---------------------------------------------------------------------------
LEMMA NextHolds == IInv /\ [Next]_vars => IInv'
  <1> SUFFICES ASSUME IInv, [Next]_vars PROVE IInv'
    OBVIOUS
  <1>1. CASE UNCHANGED vars
    BY <1>1 DEF vars, IInv, ReportAccounts, TypeOK, NotPartialIsComplete, EveryFileAccounted,
       Reported, TroubleContained, BudgetNeverFatal, SystemicFailureAborts, Before, After,
       Unscreened, Recovered, OwnsAll, Sharded, Tiered
  <1> QED
    BY <1>1, EmptyHolds, TierZeroHolds, ScreenHolds, ProfileHolds, LocateHolds, FinishHolds
       DEF Next

(* The invariant of the funnel.                                            *)
THEOREM Invariance == Spec => []IInv
  BY InitHolds, NextHolds, PTL DEF Spec

(* However many files there are and whatever each request comes to, the    *)
(* report accounts for every owned file once, and one that is not marked   *)
(* partial is the whole review (run_review).                               *)
THEOREM ReportNeverHides == Spec => []ReportAccounts
  <1>1. IInv => ReportAccounts
    BY DEF IInv
  <1> QED BY <1>1, Invariance, PTL

(* For any breaker and any limits: a nonempty run in which no request      *)
(* failed reports, and one in which all fail sends no more than Breaker    *)
(* requests after tier 0 (run_review, CIRCUIT_BREAKER).                    *)
THEOREM TroubleStaysSmall == Spec => []TroubleContained
  <1>1. IInv => TroubleContained
    BY DEF IInv
  <1> QED BY <1>1, Invariance, PTL
=============================================================================
