----------------------------- MODULE MergeProofs ----------------------------
(***************************************************************************)
(* A merge of partial reports is one review of the present checkout, and a *)
(* complete set of them is accepted, for any files, shards and models.     *)
(***************************************************************************)
EXTENDS Merge, FiniteSetTheorems, FunctionTheorems, TLAPS

---------------------------------------------------------------------------
(* The first K of a finite set in a strict total order.                    *)
Orders(R, S) ==
    /\ \A x \in S : <<x, x>> \notin R
    /\ \A x, y, z \in S : <<x, y>> \in R /\ <<y, z>> \in R => <<x, z>> \in R
    /\ \A x, y \in S : x = y \/ <<x, y>> \in R \/ <<y, x>> \in R

Rank(S, R, x) == Cardinality({y \in S : <<y, x>> \in R})

Lesser(m, n) == IF m < n THEN m ELSE n

LEMMA RankGrows ==
    ASSUME NEW S, IsFiniteSet(S), NEW R, Orders(R, S)
    PROVE  /\ Cardinality(S) \in Nat
           /\ \A x \in S : Rank(S, R, x) \in Nat /\ Rank(S, R, x) < Cardinality(S)
           /\ \A x, y \in S : <<x, y>> \in R => Rank(S, R, x) < Rank(S, R, y)
  <1>1. ASSUME NEW T \in SUBSET S, NEW U \in SUBSET T, NEW x \in T, x \notin U
        PROVE  /\ Cardinality(U) \in Nat /\ Cardinality(T) \in Nat
               /\ Cardinality(U) < Cardinality(T)
    <2>1. IsFiniteSet(T)
      BY FS_Subset
    <2>2. /\ IsFiniteSet(U) /\ Cardinality(U) <= Cardinality(T)
          /\ Cardinality(T) = Cardinality(U) => T = U
      BY <2>1, FS_Subset
    <2> QED BY <1>1, <2>1, <2>2, FS_CardinalityType
  <1>2. ASSUME NEW x \in S
        PROVE  Rank(S, R, x) \in Nat /\ Rank(S, R, x) < Cardinality(S)
    <2>1. x \notin {y \in S : <<y, x>> \in R}
      BY DEF Orders
    <2> QED BY <1>1, <2>1 DEF Rank
  <1>3. ASSUME NEW x \in S, NEW y \in S, <<x, y>> \in R
        PROVE  Rank(S, R, x) < Rank(S, R, y)
    <2>1. /\ {z \in S : <<z, x>> \in R} \subseteq {z \in S : <<z, y>> \in R}
          /\ x \in {z \in S : <<z, y>> \in R} /\ x \notin {z \in S : <<z, x>> \in R}
      BY <1>3 DEF Orders
    <2> QED BY <1>1, <2>1 DEF Rank
  <1> QED BY <1>2, <1>3, FS_CardinalityType

LEMMA RankBijects ==
    ASSUME NEW S, IsFiniteSet(S), NEW R, Orders(R, S)
    PROVE  /\ \A x, y \in S : Rank(S, R, x) = Rank(S, R, y) => x = y
           /\ \A n \in Nat : n < Cardinality(S) => \E x \in S : Rank(S, R, x) = n
  <1> DEFINE T == 0..(Cardinality(S) - 1)
             rank == [x \in S |-> Rank(S, R, x)]
  <1>1. /\ Cardinality(S) \in Nat
        /\ \A x \in S : Rank(S, R, x) \in Nat /\ Rank(S, R, x) < Cardinality(S)
        /\ \A x, y \in S : <<x, y>> \in R => Rank(S, R, x) < Rank(S, R, y)
    BY RankGrows
  <1>2. IsFiniteSet(T) /\ Cardinality(T) = Cardinality(S)
    <2>1. 0 \in Int /\ Cardinality(S) - 1 \in Int
      BY <1>1
    <2>2. IsFiniteSet(T) /\ Cardinality(T) = IF 0 > Cardinality(S) - 1 THEN 0
                                             ELSE Cardinality(S) - 1 - 0 + 1
      BY <2>1, FS_Interval
    <2> QED BY <1>1, <2>2
  <1>3. ASSUME NEW x \in S, NEW y \in S, Rank(S, R, x) = Rank(S, R, y)
        PROVE  x = y
    <2>1. <<x, y>> \notin R /\ <<y, x>> \notin R
      BY <1>1, <1>3
    <2> QED BY <2>1 DEF Orders
  <1>4. rank \in [S -> T] /\ \A x \in S : rank[x] = Rank(S, R, x)
    BY <1>1
  <1> HIDE DEF rank, T
  <1>5. rank \in Injection(S, T)
    BY <1>3, <1>4 DEF Injection, IsInjective
  <1>6. rank \in Surjection(S, T)
    BY <1>2, <1>5, FS_Injection
  <1>7. ASSUME NEW n \in Nat, n < Cardinality(S)
        PROVE  \E x \in S : Rank(S, R, x) = n
    <2>1. n \in T
      BY <1>1, <1>7 DEF T
    <2> QED BY <1>4, <1>6, <2>1 DEF Surjection
  <1> QED BY <1>3, <1>7

LEMMA FirstFew ==
    ASSUME NEW S, IsFiniteSet(S), NEW R, Orders(R, S), NEW K \in Nat,
           NEW T, T = {x \in S : Rank(S, R, x) < K}
    PROVE  /\ Cardinality(T) = Lesser(K, Cardinality(S))
           /\ \A x \in T, y \in S \ T : <<x, y>> \in R
  <1> DEFINE n == Lesser(K, Cardinality(S))
             rank == [x \in T |-> Rank(S, R, x)]
  <1>1. /\ Cardinality(S) \in Nat
        /\ \A x \in S : Rank(S, R, x) \in Nat /\ Rank(S, R, x) < Cardinality(S)
        /\ \A x, y \in S : <<x, y>> \in R => Rank(S, R, x) < Rank(S, R, y)
    BY RankGrows
  <1>2. n \in Nat /\ \A m \in Nat : m < n <=> m < K /\ m < Cardinality(S)
    BY <1>1 DEF Lesser
  <1> HIDE DEF n
  <1>3. IsFiniteSet(0..(n - 1)) /\ Cardinality(0..(n - 1)) = n
    <2>1. 0 \in Int /\ n - 1 \in Int
      BY <1>2
    <2>2. /\ IsFiniteSet(0..(n - 1))
          /\ Cardinality(0..(n - 1)) = IF 0 > n - 1 THEN 0 ELSE n - 1 - 0 + 1
      BY <2>1, FS_Interval
    <2> QED BY <1>2, <2>2
  <1>4. T \subseteq S /\ \A x \in T : Rank(S, R, x) \in 0..(n - 1)
    BY <1>1, <1>2
  <1>5. rank \in [T -> 0..(n - 1)] /\ \A x \in T : rank[x] = Rank(S, R, x)
    BY <1>4
  <1> HIDE DEF rank
  <1>6. rank \in Injection(T, 0..(n - 1))
    BY <1>4, <1>5, RankBijects DEF Injection, IsInjective
  <1>7. \A m \in 0..(n - 1) : \E x \in T : rank[x] = m
    <2> SUFFICES ASSUME NEW m \in 0..(n - 1) PROVE \E x \in T : rank[x] = m
      OBVIOUS
    <2>1. m \in Nat /\ m < K /\ m < Cardinality(S)
      BY <1>2
    <2>2. PICK x \in S : Rank(S, R, x) = m
      BY <2>1, RankBijects
    <2> QED BY <1>5, <2>1, <2>2
  <1>8. rank \in Surjection(T, 0..(n - 1))
    BY <1>5, <1>7 DEF Surjection
  <1>9. Cardinality(T) = n
    BY <1>3, <1>6, <1>8, FS_Injection
  <1>10. ASSUME NEW x \in T, NEW y \in S \ T
         PROVE  <<x, y>> \in R
    <2>1. Rank(S, R, x) < K /\ ~(Rank(S, R, y) < K) /\ x \in S /\ x # y
      OBVIOUS
    <2>2. ~(Rank(S, R, y) < Rank(S, R, x))
      BY <1>1, <2>1
    <2>3. <<y, x>> \notin R
      BY <1>1, <2>1, <2>2
    <2> QED BY <2>1, <2>3 DEF Orders
  <1> QED BY <1>9, <1>10 DEF n

(* What the merge keeps of the candidates for a profile.                   *)
LEMMA MostSuspectFacts ==
    ASSUME NEW C \in SUBSET Nat, IsFiniteSet(C), NEW matrix, \A f \in C : matrix[f].p \in Nat
    PROVE  /\ MostSuspect(C, matrix) \subseteq C
           /\ Cardinality(MostSuspect(C, matrix)) = Lesser(MaxProfiles, Cardinality(C))
           /\ \A f \in MostSuspect(C, matrix), g \in C \ MostSuspect(C, matrix) :
                matrix[f].p >= matrix[g].p
  <1> DEFINE R == {e \in C \X C : \/ matrix[e[1]].p > matrix[e[2]].p
                                  \/ matrix[e[1]].p = matrix[e[2]].p /\ e[1] < e[2]}
             T == {f \in C : Rank(C, R, f) < MaxProfiles}
  <1>1. \A f, g \in C : <<g, f>> \in R <=> \/ matrix[g].p > matrix[f].p
                                           \/ matrix[g].p = matrix[f].p /\ g < f
    OBVIOUS
  <1>2. \A f \in C : {g \in C : <<g, f>> \in R} =
                     {g \in C : \/ matrix[g].p > matrix[f].p
                                \/ matrix[g].p = matrix[f].p /\ g < f}
    BY <1>1
  <1>3. MostSuspect(C, matrix) = T
    BY <1>2 DEF MostSuspect, Rank
  <1> HIDE DEF R
  <1>4. Orders(R, C)
    <2>1. \A f \in C : f \in Nat
      OBVIOUS
    <2>2. \A x, y, z \in C : <<x, y>> \in R /\ <<y, z>> \in R => <<x, z>> \in R
      BY <1>1, <2>1
    <2>3. ASSUME NEW x \in C, NEW y \in C
          PROVE  x = y \/ <<x, y>> \in R \/ <<y, x>> \in R
      <3>1. x \in Nat /\ y \in Nat /\ matrix[x].p \in Nat /\ matrix[y].p \in Nat
        BY <2>1
      <3>2. \/ matrix[x].p > matrix[y].p \/ matrix[y].p > matrix[x].p
            \/ matrix[x].p = matrix[y].p /\ (x = y \/ x < y \/ y < x)
        BY <3>1
      <3> QED BY <1>1, <3>2
    <2>4. \A x \in C : <<x, x>> \notin R
      BY <1>1, <2>1
    <2> QED BY <2>2, <2>3, <2>4 DEF Orders
  <1> HIDE DEF T
  <1>5. MaxProfiles \in Nat /\ T \subseteq C
    BY MergeAssumption DEF T
  <1>6. /\ Cardinality(T) = Lesser(MaxProfiles, Cardinality(C))
        /\ \A x \in T, y \in C \ T : <<x, y>> \in R
    BY <1>4, <1>5, FirstFew DEF T
  <1>7. \A x \in T, y \in C \ T : matrix[x].p >= matrix[y].p
    <2> SUFFICES ASSUME NEW x \in T, NEW y \in C \ T PROVE matrix[x].p >= matrix[y].p
      OBVIOUS
    <2>1. <<x, y>> \in R /\ x \in C /\ y \in C
      BY <1>5, <1>6
    <2>2. matrix[x].p > matrix[y].p \/ matrix[x].p = matrix[y].p
      BY <1>1, <2>1
    <2>3. matrix[x].p \in Nat /\ matrix[y].p \in Nat
      BY <2>1
    <2> QED BY <2>2, <2>3
  <1> QED BY <1>3, <1>5, <1>6, <1>7

(* The most suspect of all are among the most suspect of each.             *)
IsTop(S, M, matrix) ==
    /\ S \subseteq M
    /\ Cardinality(S) = Lesser(MaxProfiles, Cardinality(M))
    /\ \A f \in S, g \in M \ S : matrix[f].p >= matrix[g].p

LEMMA TopOfTops ==
    ASSUME NEW M \in SUBSET Nat, IsFiniteSet(M), NEW matrix, \A f \in M : matrix[f].p \in Nat,
           NEW I, NEW D, NEW C,
           \A i \in I : D[i] \subseteq M /\ IsTop(C[i], D[i], matrix),
           \A f \in M : \E i \in I : f \in D[i],
           NEW U, \A f : f \in U <=> \E i \in I : f \in C[i]
    PROVE  IsTop(MostSuspect(U, matrix), M, matrix)
  <1> DEFINE S == MostSuspect(U, matrix)
  <1>0. /\ \A i \in I : C[i] \subseteq D[i] /\ D[i] \subseteq M
        /\ \A i \in I : Cardinality(C[i]) = Lesser(MaxProfiles, Cardinality(D[i]))
        /\ \A i \in I : \A f \in C[i], g \in D[i] \ C[i] : matrix[f].p >= matrix[g].p
    BY DEF IsTop
  <1>1. U \subseteq M /\ \A i \in I : C[i] \subseteq U
    BY <1>0
  <1> HIDE DEF S
  <1>2. U \in SUBSET Nat /\ IsFiniteSet(U) /\ Cardinality(U) <= Cardinality(M)
    BY <1>1, FS_Subset
  <1>3. /\ S \subseteq U /\ Cardinality(S) = Lesser(MaxProfiles, Cardinality(U))
        /\ \A f \in S, g \in U \ S : matrix[f].p >= matrix[g].p
    <2>1. \A f \in U : matrix[f].p \in Nat
      BY <1>1
    <2> QED BY <1>2, <2>1, MostSuspectFacts DEF S
  <1>4. IsFiniteSet(S) /\ \A i \in I : IsFiniteSet(D[i]) /\ IsFiniteSet(C[i])
    BY <1>0, <1>1, <1>2, <1>3, FS_Subset
  <1>5. /\ Cardinality(M) \in Nat /\ Cardinality(U) \in Nat /\ Cardinality(S) \in Nat
        /\ MaxProfiles \in Nat
        /\ \A i \in I : Cardinality(C[i]) \in Nat /\ Cardinality(D[i]) \in Nat
    BY <1>2, <1>4, FS_CardinalityType, MergeAssumption
  <1>6. ASSUME NEW i \in I, C[i] # D[i]
        PROVE  Cardinality(C[i]) = MaxProfiles /\ MaxProfiles <= Cardinality(U)
    <2>1. Cardinality(C[i]) # Cardinality(D[i])
      BY <1>0, <1>4, <1>6, FS_Subset
    <2>2. Cardinality(C[i]) = MaxProfiles
      BY <1>0, <1>5, <2>1 DEF Lesser
    <2>3. Cardinality(C[i]) <= Cardinality(U)
      BY <1>1, <1>2, FS_Subset
    <2> QED BY <2>2, <2>3
  <1>7. Cardinality(S) = Lesser(MaxProfiles, Cardinality(M))
    <2>1. CASE \A i \in I : C[i] = D[i]
      <3>1. U = M
        BY <1>1, <2>1
      <3> QED BY <1>3, <3>1
    <2>2. ASSUME NEW i \in I, C[i] # D[i]
          PROVE  Cardinality(S) = Lesser(MaxProfiles, Cardinality(M))
      BY <1>2, <1>3, <1>5, <1>6, <2>2 DEF Lesser
    <2> QED BY <2>1, <2>2
  <1>8. ASSUME NEW f \in S, NEW g \in M \ S
        PROVE  matrix[f].p >= matrix[g].p
    <2>1. PICK i \in I : g \in D[i]
      OBVIOUS
    <2>2. CASE g \in C[i]
      BY <1>1, <1>3, <2>2
    <2>3. CASE g \notin C[i] /\ f \in C[i]
      BY <1>0, <2>1, <2>3
    <2>4. CASE g \notin C[i] /\ f \notin C[i]
      <3>1. Cardinality(C[i]) = MaxProfiles /\ Cardinality(S) = MaxProfiles
        BY <1>3, <1>5, <1>6, <2>1, <2>4 DEF Lesser
      <3>2. ~(C[i] \subseteq S)
        BY <1>4, <2>4, <3>1, FS_Subset
      <3>3. PICK c \in C[i] : c \notin S
        BY <3>2
      <3>4. matrix[f].p >= matrix[c].p /\ matrix[c].p >= matrix[g].p
        BY <1>0, <1>1, <1>3, <2>1, <2>4, <3>3
      <3>5. matrix[f].p \in Nat /\ matrix[c].p \in Nat /\ matrix[g].p \in Nat
        BY <1>1, <1>3, <3>3
      <3> QED BY <3>4, <3>5
    <2> QED BY <2>2, <2>3, <2>4
  <1>9. IsTop(S, M, matrix)
    BY <1>1, <1>3, <1>7, <1>8 DEF IsTop
  <1> QED BY <1>9 DEF S

---------------------------------------------------------------------------
(* What a scan saves: each file of its shard is in one place, the verdicts *)
(* are of its model and its inventory, and the profiles are its top.       *)
Owned(shard) == {f \in shard.expected : Contains(shard, f)}
LostScreens(part) == {s[2] : s \in {t \in part.skipped : t[1] = "screen"}}

PartOK(part) ==
    /\ part.shard.expected = DOMAIN part.shard.key /\ part.shard.expected \subseteq Paths
    /\ DOMAIN part.matrix \cup part.dismissed \cup LostScreens(part) = Owned(part.shard)
    /\ DOMAIN part.matrix \cap part.dismissed = {}
    /\ LostScreens(part) \cap Judged(part) = {}
    /\ \A f \in DOMAIN part.matrix :
         /\ part.matrix[f].by = part.shard.model /\ part.matrix[f].of = part.shard.key[f]
         /\ part.matrix[f].p \in Nat
    /\ part.skipped \subseteq {"screen", "locate", "profile"} \X Paths
    /\ part.findings \subseteq DOMAIN part.matrix
    /\ part.profiles \subseteq DOMAIN part.matrix
    /\ (\A s \in part.skipped : s[1] # "profile") => Candidates(part.matrix, part.profiles)

SavedOK ==
    /\ DOMAIN checkout \subseteq Paths
    /\ \A part \in saved : part.shard # NoShard => PartOK(part)

LEMMA ScanSaves ==
    ASSUME NEW shard, NEW model, NEW refine, NEW tiered, DOMAIN checkout \subseteq Paths,
           NEW outcome \in [{f \in DOMAIN checkout : Contains(shard, f)} -> Outcomes],
           NEW chosen \in SUBSET Screened(outcome), NEW lost \in SUBSET chosen,
           Candidates(Rows(outcome, model), chosen)
    PROVE  PartOK(PartialReport(shard, model, refine, tiered, outcome, chosen, lost))
  <1> DEFINE part == PartialReport(shard, model, refine, tiered, outcome, chosen, lost)
             owned == {f \in DOMAIN checkout : Contains(shard, f)}
  <1>1. /\ part.shard.index = shard.index /\ part.shard.count = shard.count
        /\ part.shard.key = checkout /\ part.shard.expected = DOMAIN checkout
        /\ part.shard.model = model
        /\ part.matrix = Rows(outcome, model)
        /\ part.dismissed = With(outcome, {"dismissed"})
        /\ part.findings = With(outcome, {"high"})
        /\ part.profiles = chosen \ lost
        /\ part.skipped = ({"screen"} \X With(outcome, {"failed", "deferred"}))
                            \cup ({"locate"} \X With(outcome, {"unlocated"}))
                            \cup ({"profile"} \X lost)
    BY DEF PartialReport, InventoryKey
  <1> HIDE DEF part
  <1>2. Owned(part.shard) = owned
    BY <1>1 DEF Owned, Contains
  <1>3. /\ DOMAIN part.matrix = With(outcome, {"low", "high", "unlocated"})
        /\ \A f \in DOMAIN part.matrix :
             /\ part.matrix[f].by = model /\ part.matrix[f].of = checkout[f]
             /\ part.matrix[f].p \in Nat
    BY <1>1 DEF Rows, Screened, With
  <1>4. LostScreens(part) = With(outcome, {"failed", "deferred"})
    <2> DEFINE W == With(outcome, {"failed", "deferred"})
    <2> HIDE DEF W
    <2>1. \A t : t \in part.skipped /\ t[1] = "screen" <=> t \in {"screen"} \X W
      BY <1>1 DEF W
    <2>2. \A f \in W : <<"screen", f>> \in {"screen"} \X W /\ <<"screen", f>>[2] = f
      OBVIOUS
    <2>3. \A t \in {"screen"} \X W : t[2] \in W
      OBVIOUS
    <2>4. W \subseteq LostScreens(part)
      BY <2>1, <2>2 DEF LostScreens
    <2>5. LostScreens(part) \subseteq W
      BY <2>1, <2>3 DEF LostScreens
    <2> QED BY <2>4, <2>5 DEF W
  <1>5. DOMAIN outcome = owned /\ \A f \in owned : outcome[f] \in Outcomes
    OBVIOUS
  <1>6. /\ DOMAIN part.matrix \cup part.dismissed \cup LostScreens(part) = owned
        /\ DOMAIN part.matrix \cap part.dismissed = {}
        /\ LostScreens(part) \cap Judged(part) = {}
        /\ part.findings \subseteq DOMAIN part.matrix
    BY <1>1, <1>3, <1>4, <1>5 DEF With, Outcomes, Judged
  <1>7. part.profiles \subseteq DOMAIN part.matrix
    BY <1>1, <1>3 DEF Screened, With
  <1>9. part.skipped \subseteq {"screen", "locate", "profile"} \X Paths
    <2>1. /\ With(outcome, {"failed", "deferred"}) \subseteq Paths
          /\ With(outcome, {"unlocated"}) \subseteq Paths
          /\ lost \subseteq Paths
      BY <1>5 DEF With, Screened
    <2> QED BY <1>1, <2>1
  <1>8. ASSUME \A s \in part.skipped : s[1] # "profile"
        PROVE  Candidates(part.matrix, part.profiles)
    <2>1. \A f \in lost : <<"profile", f>> \in part.skipped
      BY <1>1
    <2>2. lost = {}
      BY <1>8, <2>1
    <2> QED BY <1>1, <2>2
  <1> QED BY <1>1, <1>2, <1>3, <1>6, <1>7, <1>8, <1>9 DEF PartOK, part

LEMMA Saves == SavedOK /\ [Next]_vars => SavedOK'
  <1> SUFFICES ASSUME SavedOK, [Next]_vars PROVE SavedOK'
    OBVIOUS
  <1>1. CASE Edit
    <2>1. DOMAIN checkout' \subseteq Paths
      <3>1. PICK f \in Paths :
               \/ \E c \in Contents :
                    checkout' = [g \in DOMAIN checkout \cup {f} |-> IF g = f THEN c ELSE checkout[g]]
               \/ checkout' = [g \in DOMAIN checkout \ {f} |-> checkout[g]]
        BY <1>1 DEF Edit
      <3> QED BY <3>1 DEF SavedOK
    <2> QED BY <1>1, <2>1 DEF Edit, SavedOK, PartOK, Owned, Contains, LostScreens, Judged, Candidates
  <1>2. ASSUME NEW model \in Models, NEW n \in Counts, NEW i \in 1..n,
               NEW refine \in BOOLEAN, NEW tiered \in BOOLEAN,
               Scan([index |-> i, count |-> n], model, refine, tiered)
        PROVE  SavedOK'
    <2> DEFINE shard == [index |-> i, count |-> n]
               owned == {f \in DOMAIN checkout : Contains(shard, f)}
    <2> HIDE DEF shard
    <2>1. PICK outcome \in [owned -> Outcomes] :
            \E chosen \in SUBSET Screened(outcome) : \E lost \in SUBSET chosen :
              /\ Candidates(Rows(outcome, model), chosen)
              /\ saved' = saved \cup
                   {PartialReport(shard, model, refine, tiered, outcome, chosen, lost)}
      BY <1>2 DEF Scan, shard
    <2>2. PICK chosen \in SUBSET Screened(outcome) : \E lost \in SUBSET chosen :
              /\ Candidates(Rows(outcome, model), chosen)
              /\ saved' = saved \cup
                   {PartialReport(shard, model, refine, tiered, outcome, chosen, lost)}
      BY <2>1
    <2>3. PICK lost \in SUBSET chosen :
              /\ Candidates(Rows(outcome, model), chosen)
              /\ saved' = saved \cup
                   {PartialReport(shard, model, refine, tiered, outcome, chosen, lost)}
      BY <2>2
    <2>4. PartOK(PartialReport(shard, model, refine, tiered, outcome, chosen, lost))
      BY <2>3, ScanSaves DEF SavedOK
    <2>5. UNCHANGED checkout
      BY <1>2 DEF Scan
    <2> QED BY <2>3, <2>4, <2>5 DEF SavedOK
  <1>3. ASSUME NEW model \in Models, ScanWhole(model)
        PROVE  SavedOK'
    <2> DEFINE part == PartialReport([index |-> 1, count |-> 1], model, FALSE, FALSE,
                         [f \in DOMAIN checkout |-> "low"], {}, {})
    <2>1. saved' = saved \cup {[part EXCEPT !.shard = NoShard]} /\ UNCHANGED checkout
      BY <1>3 DEF ScanWhole
    <2>2. [part EXCEPT !.shard = NoShard].shard = NoShard
      BY DEF PartialReport
    <2> HIDE DEF part
    <2> QED BY <2>1, <2>2 DEF SavedOK
  <1>4. ASSUME NEW parts, NEW model, MergeReports(parts, model)
        PROVE  SavedOK'
    BY <1>4 DEF MergeReports, SavedOK
  <1>5. CASE UNCHANGED vars
    BY <1>5 DEF vars, SavedOK
  <1> QED BY <1>1, <1>2, <1>3, <1>4, <1>5 DEF Next

---------------------------------------------------------------------------
(* What an accepted merge knows of its parts.                              *)
Fits(parts, n) ==
    /\ DOMAIN parts = 1..n
    /\ \A i \in 1..n : /\ PartOK(parts[i])
                       /\ parts[i].shard.key = checkout
                       /\ parts[i].shard.expected = DOMAIN checkout
    /\ \A i, j \in 1..n : Owned(parts[i].shard) \cap Owned(parts[j].shard) # {} => i = j

LEMMA Accepted ==
    ASSUME SavedOK, NEW n \in Counts, NEW parts \in [1..n -> saved], NEW model,
           Refusal(parts, model) = "no"
    PROVE  /\ Fits(parts, n)
           /\ \A i, j \in 1..n : Asked(parts[i]) /\ Asked(parts[j]) =>
                parts[i].shard.model = parts[j].shard.model
           /\ \A f \in DOMAIN checkout : \E i \in 1..n :
                f \in Judged(parts[i]) \/ f \in LostScreens(parts[i])
  <1>1. /\ Validate(parts) /\ checkout = parts[1].shard.key /\ ~Omits(parts)
    BY DEF Refusal, InventoryKey
  <1>2. n \in Nat /\ 1 \in 1..n /\ DOMAIN parts = 1..n
    BY MergeAssumption DEF MaxCount
  <1>3. \A i \in 1..n :
          /\ parts[i].shard # NoShard /\ parts[i].shard.count = parts[1].shard.count
          /\ parts[i].shard.key = parts[1].shard.key
          /\ parts[i].shard.expected = parts[1].shard.expected
          /\ Asked(parts[i]) => parts[i].shard.model = ModelOf(parts)
          /\ \A j \in 1..(i - 1) : parts[j].shard.index # parts[i].shard.index
    BY <1>1, <1>2 DEF Validate
  <1>4. \A i \in 1..n : PartOK(parts[i])
    BY <1>3 DEF SavedOK
  <1>5. parts[1].shard.expected = DOMAIN checkout
    BY <1>1, <1>2, <1>4 DEF PartOK
  <1>6. ASSUME NEW i \in 1..n, NEW j \in 1..n,
               NEW f \in Owned(parts[i].shard) \cap Owned(parts[j].shard)
        PROVE  i = j
    <2>1. parts[i].shard.index = parts[j].shard.index
      BY <1>3, <1>6 DEF Owned, Contains
    <2>2. j \notin 1..(i - 1) /\ i \notin 1..(j - 1)
      BY <1>3, <2>1
    <2> QED BY <1>2, <2>2
  <1>7. Fits(parts, n)
    BY <1>1, <1>2, <1>3, <1>4, <1>5, <1>6 DEF Fits
  <1>8. ASSUME NEW f \in DOMAIN checkout
        PROVE  \E i \in 1..n : f \in Judged(parts[i]) \/ f \in LostScreens(parts[i])
    <2>1. \/ \E i \in 1..n : f \in Judged(parts[i])
          \/ \E i \in 1..n : <<"screen", f>> \in parts[i].skipped
      BY <1>1, <1>2, <1>5 DEF Omits, OfAll
    <2>2. ASSUME NEW i \in 1..n, <<"screen", f>> \in parts[i].skipped
          PROVE  f \in LostScreens(parts[i])
      BY <2>2 DEF LostScreens
    <2> QED BY <2>1, <2>2
  <1> QED BY <1>3, <1>7, <1>8

(* The fields of a merged report.                                          *)
Union(parts, n, r) ==
    /\ DOMAIN r.matrix = UNION {DOMAIN parts[i].matrix : i \in 1..n}
    /\ \A i \in 1..n : \A f \in DOMAIN parts[i].matrix : r.matrix[f] = parts[i].matrix[f]
    /\ r.dismissed = UNION {parts[i].dismissed : i \in 1..n}
    /\ r.skipped = UNION {parts[i].skipped : i \in 1..n}
    /\ r.findings = UNION {parts[i].findings : i \in 1..n}
    /\ r.profiles = MostSuspect(UNION {parts[i].profiles : i \in 1..n}, r.matrix)
    /\ r.partial <=> (r.dismissed # {} \/ r.skipped # {} \/ r.deferred > 0)

LEMMA Combined ==
    ASSUME NEW parts, NEW n, Fits(parts, n), NEW r, r = Combine(parts)
    PROVE  Union(parts, n, r)
  <1>1. DOMAIN parts = 1..n
    BY DEF Fits
  <1>2. r.matrix = [f \in UNION {DOMAIN parts[i].matrix : i \in DOMAIN parts} |->
                      parts[CHOOSE i \in DOMAIN parts : f \in DOMAIN parts[i].matrix].matrix[f]]
    BY DEF Combine, OfAll
  <1>3. /\ r.dismissed = UNION {parts[i].dismissed : i \in DOMAIN parts}
        /\ r.skipped = UNION {parts[i].skipped : i \in DOMAIN parts}
        /\ r.findings = UNION {parts[i].findings : i \in DOMAIN parts}
    BY DEF Combine, OfAll
  <1>4. r.profiles = MostSuspect(UNION {parts[i].profiles : i \in DOMAIN parts}, r.matrix)
    BY DEF Combine, OfAll
  <1>5. r.partial <=> (r.dismissed # {} \/ r.skipped # {} \/ r.deferred > 0)
    BY DEF Combine, OfAll
  <1>6. ASSUME NEW i \in 1..n, NEW f \in DOMAIN parts[i].matrix
        PROVE  r.matrix[f] = parts[i].matrix[f]
    <2>1. \A j \in 1..n : f \in DOMAIN parts[j].matrix => j = i
      BY DEF Fits, PartOK
    <2>2. (CHOOSE j \in 1..n : f \in DOMAIN parts[j].matrix) = i
      BY <2>1
    <2> QED BY <1>1, <1>2, <2>2
  <1> QED BY <1>1, <1>2, <1>3, <1>4, <1>5, <1>6 DEF Union

LEMMA LesserIsMin ==
    ASSUME NEW m \in Nat, NEW n \in Nat
    PROVE  Min({m, n}) = Lesser(m, n)
  <1>1. Lesser(m, n) \in {m, n} /\ \A x \in {m, n} : Lesser(m, n) <= x
    BY DEF Lesser
  <1>2. \A x \in {m, n} : (\A y \in {m, n} : x <= y) => x = Lesser(m, n)
    BY DEF Lesser
  <1> QED BY <1>1, <1>2 DEF Min

(* The abstract specification counts as this one does.                     *)
LEMMA SameCardinality == \A S : Whole!Cardinality(S) = Cardinality(S)
  BY DEF Cardinality, Whole!Cardinality

LEMMA AcceptedIsReview ==
    ASSUME SavedOK, NEW n \in Counts, NEW parts \in [1..n -> saved], NEW model,
           Refusal(parts, model) = "no", NEW r, r = Combine(parts)
    PROVE  Whole!IsReviewOf(r, checkout)
  <1>1. /\ Fits(parts, n)
        /\ \A i, j \in 1..n : Asked(parts[i]) /\ Asked(parts[j]) =>
             parts[i].shard.model = parts[j].shard.model
        /\ \A f \in DOMAIN checkout : \E i \in 1..n :
             f \in Judged(parts[i]) \/ f \in LostScreens(parts[i])
    BY Accepted
  <1>2. /\ DOMAIN r.matrix = UNION {DOMAIN parts[i].matrix : i \in 1..n}
        /\ \A i \in 1..n : \A f \in DOMAIN parts[i].matrix : r.matrix[f] = parts[i].matrix[f]
        /\ r.dismissed = UNION {parts[i].dismissed : i \in 1..n}
        /\ r.skipped = UNION {parts[i].skipped : i \in 1..n}
        /\ r.findings = UNION {parts[i].findings : i \in 1..n}
        /\ r.profiles = MostSuspect(UNION {parts[i].profiles : i \in 1..n}, r.matrix)
        /\ r.partial <=> (r.dismissed # {} \/ r.skipped # {} \/ r.deferred > 0)
    <2>1. Union(parts, n, r)
      BY <1>1, Combined
    <2> QED BY ONLY <2>1 DEF Union
  <1>3. \A i \in 1..n : /\ PartOK(parts[i]) /\ parts[i].shard.key = checkout
                        /\ parts[i].shard.expected = DOMAIN checkout
    BY <1>1 DEF Fits
  <1>4. \A i \in 1..n : /\ DOMAIN parts[i].matrix \subseteq Owned(parts[i].shard)
                        /\ parts[i].dismissed \subseteq Owned(parts[i].shard)
                        /\ LostScreens(parts[i]) \subseteq Owned(parts[i].shard)
                        /\ Owned(parts[i].shard) \subseteq DOMAIN checkout
    BY <1>3 DEF PartOK, Owned
  <1>5. ASSUME NEW f
        PROVE  f \in Whole!FailedScreens(r) <=> \E i \in 1..n : f \in LostScreens(parts[i])
    <2>1. ASSUME f \in Whole!FailedScreens(r)
          PROVE  \E i \in 1..n : f \in LostScreens(parts[i])
      <3>1. PICK s \in r.skipped : s[1] = "screen" /\ s[2] = f
        BY <2>1 DEF Whole!FailedScreens
      <3>2. PICK i \in 1..n : s \in parts[i].skipped
        BY <1>2
      <3> QED BY <3>1, <3>2 DEF LostScreens
    <2>2. ASSUME NEW i \in 1..n, f \in LostScreens(parts[i])
          PROVE  f \in Whole!FailedScreens(r)
      <3>1. PICK s \in parts[i].skipped : s[1] = "screen" /\ s[2] = f
        BY <2>2 DEF LostScreens
      <3>2. s \in r.skipped
        BY <1>2
      <3> QED BY <3>1, <3>2 DEF Whole!FailedScreens
    <2> QED BY <2>1, <2>2
  <1>6. /\ \A f : f \in DOMAIN r.matrix <=> \E i \in 1..n : f \in DOMAIN parts[i].matrix
        /\ \A f : f \in r.dismissed <=> \E i \in 1..n : f \in parts[i].dismissed
    BY <1>2
  <1>7. Whole!Accounted(r, DOMAIN checkout)
    <2>1. ASSUME NEW f
          PROVE  f \in DOMAIN r.matrix \cup r.dismissed \cup Whole!FailedScreens(r)
                   <=> f \in DOMAIN checkout
      BY <1>1, <1>4, <1>5, <1>6 DEF Judged
    <2>2. ASSUME NEW f, NEW i \in 1..n, NEW j \in 1..n,
                 f \in Owned(parts[i].shard), f \in Owned(parts[j].shard)
          PROVE  i = j
      BY <1>1, <2>2 DEF Fits
    <2>3. \A i \in 1..n : /\ DOMAIN parts[i].matrix \cap parts[i].dismissed = {}
                          /\ LostScreens(parts[i]) \cap (DOMAIN parts[i].matrix \cup parts[i].dismissed) = {}
      BY <1>3 DEF PartOK, Judged
    <2>4. ASSUME NEW f \in DOMAIN r.matrix, f \in r.dismissed \/ f \in Whole!FailedScreens(r)
          PROVE  FALSE
      <3>1. PICK i \in 1..n : f \in DOMAIN parts[i].matrix
        BY <1>6
      <3>2. PICK j \in 1..n : f \in parts[j].dismissed \/ f \in LostScreens(parts[j])
        BY <1>5, <1>6, <2>4
      <3>3. i = j
        BY <1>4, <2>2, <3>1, <3>2
      <3> QED BY <2>3, <3>1, <3>2, <3>3
    <2>5. ASSUME NEW f \in r.dismissed, f \in Whole!FailedScreens(r)
          PROVE  FALSE
      <3>1. PICK i \in 1..n : f \in parts[i].dismissed
        BY <1>6
      <3>2. PICK j \in 1..n : f \in LostScreens(parts[j])
        BY <1>5, <2>5
      <3>3. i = j
        BY <1>4, <2>2, <3>1, <3>2
      <3> QED BY <2>3, <3>1, <3>2, <3>3
    <2> QED BY <2>1, <2>4, <2>5 DEF Whole!Accounted
  <1>8. Whole!OneReview(r, checkout)
    <2> SUFFICES ASSUME NEW f \in DOMAIN r.matrix, NEW g \in DOMAIN r.matrix
                 PROVE  r.matrix[f].by = r.matrix[g].by /\ r.matrix[f].of = checkout[f]
      BY DEF Whole!OneReview
    <2>1. PICK i \in 1..n : f \in DOMAIN parts[i].matrix
      BY <1>6
    <2>2. PICK j \in 1..n : g \in DOMAIN parts[j].matrix
      BY <1>6
    <2>3. Asked(parts[i]) /\ Asked(parts[j])
      BY <2>1, <2>2 DEF Asked
    <2>4. /\ r.matrix[f].by = parts[i].shard.model /\ r.matrix[f].of = checkout[f]
          /\ r.matrix[g].by = parts[j].shard.model
      BY <1>2, <1>3, <2>1, <2>2 DEF PartOK
    <2> QED BY <1>1, <2>3, <2>4
  <1>9. \A i \in 1..n : /\ parts[i].profiles \subseteq DOMAIN parts[i].matrix
                        /\ parts[i].findings \subseteq DOMAIN parts[i].matrix
    BY <1>3 DEF PartOK
  <1>10. /\ DOMAIN r.matrix \in SUBSET Nat /\ IsFiniteSet(DOMAIN r.matrix)
         /\ \A f \in DOMAIN r.matrix : r.matrix[f].p \in Nat
    <2>1. DOMAIN r.matrix \subseteq Paths
      BY <1>4, <1>6 DEF SavedOK
    <2>2. \A f \in DOMAIN r.matrix : r.matrix[f].p \in Nat
      BY <1>2, <1>3, <1>6 DEF PartOK
    <2> QED BY <2>1, <2>2, MergeAssumption, FS_Subset
  <1>11. r.profiles \subseteq DOMAIN r.matrix /\ r.findings \subseteq DOMAIN r.matrix
    <2> DEFINE union == UNION {parts[i].profiles : i \in 1..n}
    <2>1. union \subseteq DOMAIN r.matrix /\ r.findings \subseteq DOMAIN r.matrix
      BY <1>2, <1>6, <1>9
    <2>2. MostSuspect(union, r.matrix) \subseteq union
      BY DEF MostSuspect
    <2> HIDE DEF union
    <2>3. r.profiles = MostSuspect(union, r.matrix)
      BY <1>2 DEF union
    <2> QED BY <2>1, <2>2, <2>3
  <1>12. Whole!TopProfiled(r)
    <2> SUFFICES ASSUME ~Whole!Lost(r, "profile")
                 PROVE  /\ Cardinality(r.profiles) = Lesser(MaxProfiles, Cardinality(DOMAIN r.matrix))
                        /\ \A f \in r.profiles, g \in DOMAIN r.matrix \ r.profiles :
                             r.matrix[f].p >= r.matrix[g].p
      <3>1. Lesser(MaxProfiles, Cardinality(DOMAIN r.matrix)) =
              IF MaxProfiles < Cardinality(DOMAIN r.matrix)
              THEN MaxProfiles ELSE Cardinality(DOMAIN r.matrix)
        BY DEF Lesser
      <3> QED BY <3>1, SameCardinality DEF Whole!TopProfiled
    <2> DEFINE D == [i \in 1..n |-> DOMAIN parts[i].matrix]
               C == [i \in 1..n |-> parts[i].profiles]
    <2>1. \A i \in 1..n : Candidates(parts[i].matrix, parts[i].profiles)
      <3>1. \A i \in 1..n : \A s \in parts[i].skipped : s[1] # "profile"
        BY <1>2 DEF Whole!Lost
      <3> QED BY <1>3, <3>1 DEF PartOK
    <2>2. \A i \in 1..n : C[i] \subseteq D[i] /\ D[i] \subseteq DOMAIN r.matrix
      BY <1>6, <1>9
    <2>3. \A f \in DOMAIN r.matrix : \E i \in 1..n : f \in D[i]
      BY <1>6
    <2>4. ASSUME NEW i \in 1..n
          PROVE  Cardinality(C[i]) = Lesser(MaxProfiles, Cardinality(D[i]))
      <3>1. IsFiniteSet(D[i])
        BY <1>10, <2>2, FS_Subset
      <3>2. Cardinality(D[i]) \in Nat /\ MaxProfiles \in Nat
        BY <3>1, FS_CardinalityType, MergeAssumption
      <3>3. Cardinality(C[i]) = Min({MaxProfiles, Cardinality(D[i])})
        BY <2>1 DEF Candidates
      <3> QED BY <3>2, <3>3, LesserIsMin
    <2>5. \A i \in 1..n : \A f \in C[i], g \in D[i] \ C[i] : r.matrix[f].p >= r.matrix[g].p
      <3> SUFFICES ASSUME NEW i \in 1..n, NEW f \in C[i], NEW g \in D[i] \ C[i]
                   PROVE  r.matrix[f].p >= r.matrix[g].p
        OBVIOUS
      <3>1. parts[i].matrix[f].p >= parts[i].matrix[g].p
        BY <2>1 DEF Candidates
      <3>2. r.matrix[f] = parts[i].matrix[f] /\ r.matrix[g] = parts[i].matrix[g]
        BY <1>2, <2>2
      <3> QED BY <3>1, <3>2
    <2>6. \A i \in 1..n : D[i] \subseteq DOMAIN r.matrix /\ IsTop(C[i], D[i], r.matrix)
      BY <2>2, <2>4, <2>5 DEF IsTop
    <2>7. IsTop(r.profiles, DOMAIN r.matrix, r.matrix)
      <3> DEFINE M == DOMAIN r.matrix
                 matrix == r.matrix
                 I == 1..n
                 U == UNION {parts[i].profiles : i \in 1..n}
      <3>1. /\ M \in SUBSET Nat /\ IsFiniteSet(M) /\ \A f \in M : matrix[f].p \in Nat
            /\ \A i \in I : D[i] \subseteq M /\ IsTop(C[i], D[i], matrix)
            /\ \A f \in M : \E i \in I : f \in D[i]
        BY <1>10, <2>3, <2>6
      <3>2. \A f : f \in U <=> \E i \in I : f \in C[i]
        BY DEF C
      <3> HIDE DEF M, matrix, I, U, C, D
      <3>3. IsTop(MostSuspect(U, matrix), M, matrix)
        BY <3>1, <3>2, TopOfTops
      <3> QED BY <1>2, <3>3 DEF M, matrix, U
    <2> QED BY <2>7 DEF IsTop
  <1> QED BY <1>2, <1>7, <1>8, <1>11, <1>12 DEF Whole!IsReviewOf

(* shard_merge.rs merge_reports: a merge that is not refused is one review  *)
(* of the checkout as it is now, by one model, each file judged once or     *)
(* recorded as left out, profiled from the top and marked partial unless    *)
(* nothing was left out.                                                    *)
THEOREM MergeIsOneReview == Spec => MergesOneReview
  <1>1. Init => SavedOK /\ Whole!Init
    BY MergeAssumption DEF Init, SavedOK, Whole!Init
  <1>2. SavedOK /\ [Next]_vars => [Whole!Next]_<<checkout, merged>>
    <2> SUFFICES ASSUME SavedOK, [Next]_vars PROVE Whole!Next \/ UNCHANGED <<checkout, merged>>
      OBVIOUS
    <2>1. ASSUME NEW n \in Counts, NEW parts \in [1..n -> saved], NEW model, MergeReports(parts, model)
          PROVE  Whole!Next
      <3>1. CASE Refusal(parts, model) = "no"
        <4>1. merged' = Combine(parts) /\ UNCHANGED checkout
          BY <2>1, <3>1 DEF MergeReports
        <4>2. Whole!IsReviewOf(merged', checkout)
          BY <3>1, <4>1, AcceptedIsReview
        <4> QED BY <4>1, <4>2 DEF Whole!Next, Whole!Review
      <3>2. CASE Refusal(parts, model) # "no"
        BY <2>1, <3>2 DEF MergeReports, Whole!Next, Whole!Edit
      <3> QED BY <3>1, <3>2
    <2>2. CASE UNCHANGED merged
      BY <2>2 DEF Whole!Next, Whole!Edit
    <2>3. UNCHANGED merged \/ \E model \in Models, n \in Counts : \E parts \in [1..n -> saved] :
                                MergeReports(parts, model)
      BY DEF Next, Edit, Scan, ScanWhole, vars
    <2> QED BY <2>1, <2>2, <2>3
  <1> QED BY <1>1, <1>2, Saves, PTL DEF Spec, MergesOneReview, Whole!Spec

---------------------------------------------------------------------------
LEMMA LeastExists ==
    ASSUME NEW S \in SUBSET Nat, IsFiniteSet(S), S # {}
    PROVE  Min(S) \in S
  <1> DEFINE R == {e \in S \X S : e[1] < e[2]}
  <1>1. \A x, y \in S : <<x, y>> \in R <=> x < y
    OBVIOUS
  <1>2. \A x \in S : x \in Nat
    OBVIOUS
  <1> HIDE DEF R
  <1>3. Orders(R, S)
    BY <1>1, <1>2 DEF Orders
  <1>4. Cardinality(S) \in Nat /\ Cardinality(S) # 0
    BY FS_CardinalityType, FS_EmptySet
  <1>5. PICK m \in S : Rank(S, R, m) = 0
    BY <1>3, <1>4, RankBijects
  <1>6. {y \in S : <<y, m>> \in R} = {}
    <2>1. IsFiniteSet({y \in S : <<y, m>> \in R})
      BY FS_Subset
    <2> QED BY <1>5, <2>1, FS_EmptySet DEF Rank
  <1>7. \A y \in S : m <= y
    <2>1. \A y \in S : ~(y < m)
      BY <1>1, <1>6
    <2> QED BY <1>2, <2>1
  <1> QED BY <1>7 DEF Min

LEMMA OneEach ==
    ASSUME NEW n \in Nat, NEW parts \in [1..n -> saved],
           {parts[i].shard.index : i \in 1..n} = 1..n
    PROVE  \A i, j \in 1..n : parts[i].shard.index = parts[j].shard.index => i = j
  <1> DEFINE index == [i \in 1..n |-> parts[i].shard.index]
  <1>1. index \in [1..n -> 1..n] /\ \A i \in 1..n : index[i] = parts[i].shard.index
    OBVIOUS
  <1>2. \A k \in 1..n : \E i \in 1..n : index[i] = k
    OBVIOUS
  <1> HIDE DEF index
  <1>3. index \in Surjection(1..n, 1..n)
    BY <1>1, <1>2 DEF Surjection
  <1>4. IsFiniteSet(1..n)
    BY FS_Interval
  <1>5. index \in Injection(1..n, 1..n)
    BY <1>3, <1>4, FS_Surjection
  <1> QED BY <1>1, <1>5 DEF Injection, IsInjective

LEMMA CompleteIsAccepted ==
    ASSUME SavedOK, NEW n \in Counts, NEW model, NEW parts \in [1..n -> saved],
           OneScanEach(parts, model)
    PROVE  Refusal(parts, model) = "no"
  <1>0. n \in 1..MaxCount /\ Len(parts) = n
    BY MergeAssumption DEF MaxCount
  <1>1. n \in Nat /\ 1 \in 1..n /\ DOMAIN parts = 1..n
    BY MergeAssumption DEF MaxCount
  <1>2. \A i \in 1..n : /\ parts[i].shard # NoShard /\ parts[i].shard.count = n
                        /\ parts[i].shard.key = checkout
                        /\ parts[i].shard.refine = parts[1].shard.refine
                        /\ Asked(parts[i]) => parts[i].shard.model = model
    BY <1>0, <1>1 DEF OneScanEach
  <1>3. \A i \in 1..n : PartOK(parts[i]) /\ parts[i].shard.expected = DOMAIN checkout
    <2>1. \A i \in 1..n : PartOK(parts[i])
      BY <1>2 DEF SavedOK
    <2> QED BY <1>2, <2>1 DEF PartOK
  <1>4. {parts[i].shard.index : i \in 1..n} = 1..n
    BY <1>1 DEF OneScanEach
  <1>5. \A i, j \in 1..n : parts[i].shard.index = parts[j].shard.index => i = j
    BY <1>1, <1>4, OneEach
  <1>6. ASSUME NEW i \in 1..n, Asked(parts[i])
        PROVE  ModelOf(parts) = model
    <2> DEFINE asked == {j \in DOMAIN parts : parts[j].shard # NoShard /\ Asked(parts[j])}
    <2>1. asked \subseteq 1..n /\ i \in asked
      BY <1>1, <1>2, <1>6
    <2>2. IsFiniteSet(1..n) /\ 1..n \subseteq Nat
      BY <1>1, FS_Interval
    <2>3. Min(asked) \in asked
      BY <2>1, <2>2, FS_Subset, LeastExists
    <2> QED BY <1>1, <1>2, <2>1, <2>3 DEF ModelOf
  <1>7. Validate(parts)
    <2>1. \A i \in 1..n : /\ parts[i].shard.index \in 1..n
                          /\ \A j \in 1..(i - 1) : parts[j].shard.index # parts[i].shard.index
      <3>1. \A i \in 1..n : \A j \in 1..(i - 1) : j \in 1..n /\ j # i
        BY <1>1
      <3> QED BY <1>4, <1>5, <3>1
    <2>2. parts # <<>>
      BY <1>1
    <2> QED BY <1>0, <1>1, <1>2, <1>3, <1>6, <2>1, <2>2 DEF Validate
  <1>8. \A i \in 1..n : /\ Judged(parts[i]) \subseteq Owned(parts[i].shard)
                        /\ LostScreens(parts[i]) \subseteq Owned(parts[i].shard)
                        /\ Owned(parts[i].shard) = {f \in DOMAIN checkout : Contains(parts[i].shard, f)}
    BY <1>3 DEF PartOK, Judged, Owned
  <1>9. ASSUME NEW i \in 1..n
        PROVE  FitsShard(parts, i)
    <2>1. \A f \in Owned(parts[i].shard) : Assigned(parts, i, f)
      BY <1>1, <1>3, <1>8 DEF Assigned
    <2>2. ASSUME NEW f \in Judged(parts[i]), f \in JudgedBefore(parts, i)
          PROVE  FALSE
      <3>1. PICK j \in 1..(i - 1) : f \in Judged(parts[j])
        BY <2>2 DEF JudgedBefore
      <3>2. j \in 1..n /\ j # i
        BY <1>1
      <3>3. Contains(parts[i].shard, f) /\ Contains(parts[j].shard, f)
        BY <1>8, <3>1, <3>2
      <3>4. parts[i].shard.index = parts[j].shard.index
        BY <1>2, <3>2, <3>3 DEF Contains
      <3> QED BY <1>5, <3>2, <3>4
    <2>3. ASSUME NEW s \in parts[i].skipped, s[1] = "screen"
          PROVE  Assigned(parts, i, s[2])
      <3>1. s[2] \in LostScreens(parts[i])
        BY <2>3 DEF LostScreens
      <3> QED BY <1>8, <2>1, <3>1
    <2>4. /\ DOMAIN parts[i].matrix \cap parts[i].dismissed = {}
          /\ parts[i].findings \subseteq Judged(parts[i])
      BY <1>3 DEF PartOK, Judged
    <2>5. \A f \in Judged(parts[i]) : Contains(parts[i].shard, f) /\ Assigned(parts, i, f)
      BY <1>8, <2>1
    <2> QED BY <2>2, <2>3, <2>4, <2>5 DEF FitsShard
  <1>10. ASSUME NEW f \in DOMAIN checkout
         PROVE  \E i \in 1..n : f \in Judged(parts[i]) \/ <<"screen", f>> \in parts[i].skipped
    <2>1. Hash[f] \in Nat
      BY MergeAssumption DEF SavedOK
    <2>2. (Hash[f] % n) + 1 \in 1..n
      BY <1>1, <2>1
    <2>3. PICK i \in 1..n : parts[i].shard.index = (Hash[f] % n) + 1
      BY <1>4, <2>2
    <2>4. f \in Owned(parts[i].shard)
      BY <1>2, <1>8, <2>3 DEF Contains
    <2>5. f \in Judged(parts[i]) \/ f \in LostScreens(parts[i])
      BY <1>3, <2>4 DEF PartOK, Judged
    <2>6. ASSUME f \in LostScreens(parts[i])
          PROVE  <<"screen", f>> \in parts[i].skipped
      <3>1. PICK s \in parts[i].skipped : s[1] = "screen" /\ s[2] = f
        BY <2>6 DEF LostScreens
      <3>2. s \in {"screen", "locate", "profile"} \X Paths
        BY <1>3 DEF PartOK
      <3>3. s = <<s[1], s[2]>>
        BY <3>2
      <3> QED BY <3>1, <3>3
    <2> QED BY <2>5, <2>6
  <1>11. ~Omits(parts)
    BY <1>1, <1>3, <1>10 DEF Omits, OfAll
  <1>12. InventoryKey(checkout) = parts[1].shard.key
    BY <1>1, <1>2 DEF InventoryKey
  <1> QED BY <1>1, <1>6, <1>7, <1>9, <1>11, <1>12 DEF Refusal

(* One scan of every shard of the present checkout, with one configuration  *)
(* and one model among the shards that asked anything, is accepted by       *)
(* merge_reports, whichever files failed, were deferred or dismissed.       *)
THEOREM CompleteSetIsAccepted == Spec => []CompleteSetMerges
  <1>1. Init => SavedOK
    BY MergeAssumption DEF Init, SavedOK
  <1>2. SavedOK => CompleteSetMerges
    BY CompleteIsAccepted DEF CompleteSetMerges
  <1> QED BY <1>1, <1>2, Saves, PTL DEF Spec
=============================================================================
