---------------------------- MODULE PublishProofs ---------------------------
(***************************************************************************)
(* The bot says a thing once, loses no finding and has its anchors         *)
(* rejected only when the head moved, for any number of runs, commits and  *)
(* findings and any limits.                                                *)
(***************************************************************************)
EXTENDS Publish, FiniteSetTheorems, FunctionTheorems, SequenceTheorems, TLAPS

---------------------------------------------------------------------------
(* Finite sets of numbers, counted from below.                             *)
Rank(S, x) == Cardinality({y \in S : y < x})

LEMMA IsInjection ==
    ASSUME NEW S, NEW T, NEW f \in [S -> T], \A a, b \in S : f[a] = f[b] => a = b
    PROVE  f \in Injection(S, T)
  BY DEF Injection, IsInjective

LEMMA RankGrows ==
    ASSUME NEW S \in SUBSET Nat, IsFiniteSet(S)
    PROVE  /\ Cardinality(S) \in Nat
           /\ \A x \in S : Rank(S, x) \in Nat /\ Rank(S, x) < Cardinality(S)
           /\ \A x, y \in S : x < y => Rank(S, x) < Rank(S, y)
  <1>1. Cardinality(S) \in Nat
    BY FS_CardinalityType
  <1>2. ASSUME NEW T \in SUBSET S, NEW U \in SUBSET T, NEW x \in T, x \notin U
        PROVE  /\ Cardinality(U) \in Nat /\ Cardinality(T) \in Nat
               /\ Cardinality(U) < Cardinality(T)
    <2>1. IsFiniteSet(T)
      BY FS_Subset
    <2>2. /\ IsFiniteSet(U) /\ Cardinality(U) <= Cardinality(T)
          /\ Cardinality(T) = Cardinality(U) => T = U
      BY <2>1, FS_Subset
    <2> QED BY <1>2, <2>1, <2>2, FS_CardinalityType
  <1>3. ASSUME NEW x \in S
        PROVE  Rank(S, x) \in Nat /\ Rank(S, x) < Cardinality(S)
    <2>1. x \notin {y \in S : y < x}
      OBVIOUS
    <2> QED BY <1>2, <2>1 DEF Rank
  <1>4. ASSUME NEW x \in S, NEW y \in S, x < y
        PROVE  Rank(S, x) < Rank(S, y)
    <2>1. \A z \in S : z \in Nat
      OBVIOUS
    <2>2. /\ {z \in S : z < x} \subseteq {z \in S : z < y}
          /\ x \in {z \in S : z < y} /\ x \notin {z \in S : z < x}
      <3>1. \A z \in S : z < x => z < y
        BY <1>4, <2>1
      <3>2. x \in Nat /\ ~(x < x)
        BY <2>1
      <3> QED BY <1>4, <3>1, <3>2
    <2> QED BY <1>2, <2>2 DEF Rank
  <1> QED BY <1>1, <1>3, <1>4

(* Every rank below the size is taken.                                     *)
LEMMA RanksTaken ==
    ASSUME NEW S \in SUBSET Nat, IsFiniteSet(S), NEW n \in Nat, n < Cardinality(S)
    PROVE  \E x \in S : Rank(S, x) = n
  <1> DEFINE T == 0..(Cardinality(S) - 1)
             rank == [x \in S |-> Rank(S, x)]
  <1>1. /\ Cardinality(S) \in Nat
        /\ \A x \in S : Rank(S, x) \in T
        /\ \A x, y \in S : x < y => Rank(S, x) < Rank(S, y)
    BY RankGrows
  <1>2. IsFiniteSet(T) /\ Cardinality(T) = Cardinality(S)
    <2>1. 0 \in Int /\ Cardinality(S) - 1 \in Int
      BY <1>1
    <2>2. IsFiniteSet(T) /\ Cardinality(T) = IF 0 > Cardinality(S) - 1 THEN 0
                                             ELSE Cardinality(S) - 1 - 0 + 1
      BY <2>1, FS_Interval
    <2> QED BY <1>1, <2>2
  <1>3. rank \in Injection(S, T)
    <2>1. rank \in [S -> T] /\ \A x \in S : rank[x] = Rank(S, x)
      BY <1>1
    <2>2. ASSUME NEW a \in S, NEW b \in S, rank[a] = rank[b]
          PROVE  a = b
      <3>1. Rank(S, a) = Rank(S, b) /\ Rank(S, a) \in Nat /\ a \in Nat /\ b \in Nat
        BY <1>1, <2>1, <2>2
      <3>2. a < b => Rank(S, a) < Rank(S, b)
        BY <1>1
      <3>3. b < a => Rank(S, b) < Rank(S, a)
        BY <1>1
      <3> QED BY <3>1, <3>2, <3>3
    <2> HIDE DEF rank
    <2> QED BY <2>1, <2>2, IsInjection
  <1> HIDE DEF T
  <1>4. rank \in Surjection(S, T)
    BY <1>2, <1>3, FS_Injection
  <1> QED
    <2>1. n \in T
      BY <1>1 DEF T
    <2> QED BY <1>4, <2>1 DEF Surjection

LEMMA LeastExists ==
    ASSUME NEW S \in SUBSET Nat, IsFiniteSet(S), S # {}
    PROVE  \E m \in S : \A x \in S : m <= x
  <1>1. Cardinality(S) \in Nat /\ Cardinality(S) # 0
    BY FS_CardinalityType, FS_EmptySet
  <1>2. PICK m \in S : Rank(S, m) = 0
    BY <1>1, RanksTaken
  <1>3. {y \in S : y < m} = {}
    <2>1. IsFiniteSet({y \in S : y < m})
      BY FS_Subset
    <2> QED BY <1>2, <2>1, FS_EmptySet DEF Rank
  <1> QED BY <1>3

LEMMA OrderExists ==
    ASSUME NEW S \in SUBSET Nat, IsFiniteSet(S)
    PROVE  \E s \in [1..Cardinality(S) -> S] :
             \A i, j \in 1..Cardinality(S) : i < j => s[i] < s[j]
  <1> DEFINE s == [k \in 1..Cardinality(S) |-> CHOOSE x \in S : Rank(S, x) = k - 1]
  <1>1. Cardinality(S) \in Nat
    BY FS_CardinalityType
  <1>2. \A k \in 1..Cardinality(S) : s[k] \in S /\ Rank(S, s[k]) = k - 1
    <2> SUFFICES ASSUME NEW k \in 1..Cardinality(S)
                 PROVE  \E x \in S : Rank(S, x) = k - 1
      OBVIOUS
    <2>1. k - 1 \in Nat /\ k - 1 < Cardinality(S)
      BY <1>1
    <2> QED BY <2>1, RanksTaken
  <1> HIDE DEF s
  <1>3. ASSUME NEW i \in 1..Cardinality(S), NEW j \in 1..Cardinality(S), i < j
        PROVE  s[i] < s[j]
    <2>1. s[j] < s[i] => Rank(S, s[j]) < Rank(S, s[i])
      BY <1>2, RankGrows
    <2>2. s[i] \in Nat /\ s[j] \in Nat
      BY <1>2
    <2>3. s[i] # s[j]
      <3>1. Rank(S, s[i]) # Rank(S, s[j])
        BY <1>1, <1>2, <1>3
      <3> QED BY <3>1
    <2> QED BY <1>1, <1>2, <1>3, <2>1, <2>2, <2>3
  <1>4. s \in [1..Cardinality(S) -> S]
    BY <1>2 DEF s
  <1> QED BY <1>3, <1>4

(* The first n of a set are at most n.                                     *)
LEMMA FirstFew ==
    ASSUME NEW S \in SUBSET Nat, IsFiniteSet(S), NEW n \in Nat
    PROVE  Cardinality({x \in S : Rank(S, x) < n}) <= n
  <1> DEFINE T == {x \in S : Rank(S, x) < n}
             rank == [x \in T |-> Rank(S, x)]
  <1>1. /\ \A x \in S : Rank(S, x) \in Nat
        /\ \A x, y \in S : x < y => Rank(S, x) < Rank(S, y)
    BY RankGrows
  <1>2. IsFiniteSet(0..(n - 1)) /\ Cardinality(0..(n - 1)) = n
    BY FS_Interval
  <1>3. rank \in Injection(T, 0..(n - 1))
    <2>1. rank \in [T -> 0..(n - 1)] /\ \A x \in T : rank[x] = Rank(S, x)
      <3>1. \A x \in T : Rank(S, x) \in 0..(n - 1)
        BY <1>1
      <3> HIDE DEF T
      <3> QED BY <3>1
    <2>2. ASSUME NEW a \in T, NEW b \in T, rank[a] = rank[b]
          PROVE  a = b
      <3>1. Rank(S, a) = Rank(S, b) /\ Rank(S, a) \in Nat /\ a \in Nat /\ b \in Nat
        BY <1>1, <2>1, <2>2
      <3>2. a < b => Rank(S, a) < Rank(S, b)
        BY <1>1
      <3>3. b < a => Rank(S, b) < Rank(S, a)
        BY <1>1
      <3> QED BY <3>1, <3>2, <3>3
    <2> HIDE DEF rank, T
    <2> QED BY <2>1, <2>2, IsInjection
  <1> HIDE DEF T, rank
  <1>4. Cardinality(T) <= n
    BY <1>2, <1>3, FS_Injection
  <1> QED BY <1>4 DEF T

---------------------------------------------------------------------------
Comment == [finding : Findings, bot : BOOLEAN]
Bodies == [head : Heads, inline : Nat, listed : SUBSET (Findings \X Reasons),
           more : Nat, omitted : Nat]
Summary == [body : Bodies \cup {"quoted"}, bot : BOOLEAN]

\* The finding at a position of the report that r publishes.
At(r, i) == Report[at[r]][i]
Named(r, f) == \E e \in listed[r] : At(r, e[1]) = f

Typed ==
    /\ head \in Heads
    /\ comments \in Seq(Comment)
    /\ summaries \in Seq(Summary)
    /\ \A k \in DOMAIN summaries : summaries[k].bot => summaries[k].body \in Bodies
    /\ pc \in [Runs -> Over \cup {"new", "files", "comments", "review", "posted",
                                  "unresolved", "summary", "write", "written"}]
    /\ at \in [Runs -> Heads]
    /\ diff \in [Runs -> SUBSET Findings]
    /\ inline \in [Runs -> SUBSET Positions]
    /\ listed \in [Runs -> SUBSET (Positions \X Reasons)]
    /\ already \in [Runs -> Nat]
    /\ rejected \in [Runs -> BOOLEAN]
    /\ target \in [Runs -> Nat]
    /\ \A r \in Runs : target[r] <= Len(summaries)
    /\ \A r \in Runs : Cardinality(inline[r]) <= MaxInline
    /\ \A r \in Runs : inline[r] \subseteq DOMAIN Report[at[r]]
    /\ \A r \in Runs : \A e \in listed[r] : e[1] \in DOMAIN Report[at[r]]
    /\ \A r \in Runs : pc[r] = "new" => inline[r] = {} /\ listed[r] = {} /\ ~rejected[r]

(* The diff that was read while the trigger was still the head describes   *)
(* the trigger; the plan's anchors are in it.                              *)
MovedAt(r) ==
    /\ at[r] <= head
    /\ pc[r] \in {"comments", "review"} /\ at[r] = head => diff[r] = Commentable[head]
    /\ pc[r] = "review" => \A i \in inline[r] : At(r, i) \in diff[r]
    /\ pc[r] = "unresolved" \/ rejected[r] => at[r] # head

Moved == \A r \in Runs : MovedAt(r)

(* One run at a time; what its plan found fresh stays fresh until it       *)
(* posts, and the summary it found stays the only one until it writes.     *)
Alone == \A p, q \in Runs : Active(p) /\ Active(q) => p = q

CommentsDiffer ==
    \A k, l \in DOMAIN comments :
      comments[k].bot /\ comments[l].bot /\ comments[k].finding = comments[l].finding => k = l

OneOurs == \A k, l \in Ours : k = l

FreshAt(r) ==
    /\ pc[r] = "review" =>
         /\ \A i \in inline[r] : At(r, i) \notin Posted
         /\ \A i, j \in inline[r] : At(r, i) = At(r, j) => i = j
    /\ pc[r] = "write" => IF target[r] = 0 THEN Ours = {} ELSE target[r] \in Ours

Once == Alone /\ CommentsDiffer /\ OneOurs /\ \A r \in Runs : FreshAt(r)

(* From the plan on, every finding of the report has a place.              *)
KeptAt(r) ==
    /\ pc[r] \in {"review", "unresolved"} => \A p \in DOMAIN Report[at[r]] :
         \/ At(r, p) \in Posted
         \/ Named(r, At(r, p))
         \/ \E i \in inline[r] : At(r, i) = At(r, p)
    /\ pc[r] \in {"posted", "summary", "write", "written"} =>
         \A p \in DOMAIN Report[at[r]] : At(r, p) \in Posted \/ Named(r, At(r, p))
    /\ pc[r] = "written" => \E k \in Ours : summaries[k].body = Body(r)

Kept == \A r \in Runs : KeptAt(r)

---------------------------------------------------------------------------
(* Reports, plans and bodies.                                              *)
LEMMA ReportFacts ==
    /\ 1 \in Heads /\ Heads \subseteq Nat /\ MaxInline \in Nat
    /\ \A h \in Heads : /\ Report[h] \in Seq(Findings) /\ IsFiniteSet(DOMAIN Report[h])
                        /\ DOMAIN Report[h] \subseteq Nat \ {0}
                        /\ DOMAIN Report[h] \subseteq Positions
                        /\ \A i \in DOMAIN Report[h] : Report[h][i] \in Findings
    /\ IsFiniteSet(Positions)
  <1>1. /\ IsFiniteSet(Heads) /\ Heads # {} /\ Heads = 1..Cardinality(Heads)
        /\ Report \in [Heads -> Seq(Findings)] /\ MaxInline \in Nat
    BY PublishAssumption
  <1>2. Cardinality(Heads) \in Nat
    BY <1>1, FS_CardinalityType
  <1>3. ASSUME NEW h \in Heads
        PROVE  /\ Report[h] \in Seq(Findings) /\ DOMAIN Report[h] = 1..Len(Report[h])
               /\ Len(Report[h]) \in Nat /\ IsFiniteSet(DOMAIN Report[h])
               /\ \A i \in DOMAIN Report[h] : Report[h][i] \in Findings
    <2>1. Report[h] \in Seq(Findings)
      BY <1>1
    <2>2. Len(Report[h]) \in Nat /\ DOMAIN Report[h] = 1..Len(Report[h])
      BY <2>1, LenProperties
    <2>3. IsFiniteSet(1..Len(Report[h]))
      BY <2>2, FS_Interval
    <2> QED BY <2>1, <2>2, <2>3, ElementOfSeq
  <1>4. IsFiniteSet(Positions)
    <2> DEFINE domains == {DOMAIN Report[h] : h \in Heads}
               domain == [h \in Heads |-> DOMAIN Report[h]]
    <2>1. domain \in Surjection(Heads, domains)
      BY DEF Surjection
    <2>2. IsFiniteSet(domains)
      BY <1>1, <2>1, FS_Surjection
    <2>3. \A T \in domains : IsFiniteSet(T)
      BY <1>3
    <2> QED BY <2>2, <2>3, FS_UNION DEF Positions
  <1>5. \A h \in Heads : DOMAIN Report[h] \subseteq Positions
    BY DEF Positions
  <1>6. \A h \in Heads : DOMAIN Report[h] \subseteq Nat \ {0}
    BY <1>3
  <1> QED BY <1>1, <1>2, <1>3, <1>4, <1>5, <1>6

LEMMA PlanFacts ==
    ASSUME NEW h \in Heads, NEW lines
    PROVE  /\ Fresh(Report[h]) \subseteq DOMAIN Report[h]
           /\ Inline(Report[h], lines) \subseteq Fits(Report[h], lines)
           /\ Fits(Report[h], lines) \subseteq Fresh(Report[h])
           /\ Cardinality(Inline(Report[h], lines)) <= MaxInline
           /\ Listed(Report[h], lines) \subseteq Fresh(Report[h]) \X Reasons
           /\ Cardinality(DOMAIN Report[h] \ Fresh(Report[h])) \in Nat
  <1> DEFINE report == Report[h]
             fits == Fits(report, lines)
  <1>1. IsFiniteSet(DOMAIN report) /\ DOMAIN report \subseteq Nat /\ MaxInline \in Nat
    BY ReportFacts
  <1>2. Fresh(report) \subseteq DOMAIN report /\ fits \subseteq Fresh(report)
    BY DEF Fresh, Fits
  <1>3. IsFiniteSet(fits) /\ fits \in SUBSET Nat
    BY <1>1, <1>2, FS_Subset
  <1>4. Inline(report, lines) = {i \in fits : Rank(fits, i) < MaxInline}
    BY DEF Inline, Rank
  <1>5. Cardinality(Inline(report, lines)) <= MaxInline
    BY <1>1, <1>3, <1>4, FirstFew
  <1>6. \A f : Reason(f, lines) \in Reasons
    BY DEF Reason, Reasons
  <1>7. Listed(report, lines) \subseteq Fresh(report) \X Reasons
    BY <1>6 DEF Listed
  <1>8. Cardinality(DOMAIN report \ Fresh(report)) \in Nat
    BY <1>1, FS_Difference, FS_CardinalityType
  <1> QED BY <1>2, <1>4, <1>5, <1>7, <1>8

(* Whatever is not fresh at its first mention is in a comment already.     *)
LEMMA FreshOrPosted ==
    ASSUME NEW h \in Heads, NEW p \in DOMAIN Report[h], Report[h][p] \notin Posted
    PROVE  \E i \in Fresh(Report[h]) : Report[h][i] = Report[h][p]
  <1> DEFINE same == {i \in DOMAIN Report[h] : Report[h][i] = Report[h][p]}
  <1>1. IsFiniteSet(DOMAIN Report[h]) /\ DOMAIN Report[h] \subseteq Nat \ {0}
    BY ReportFacts
  <1>2. same \in SUBSET Nat /\ IsFiniteSet(same) /\ same # {}
    BY <1>1, FS_Subset
  <1>3. PICK m \in same : \A i \in same : m <= i
    BY <1>2, LeastExists
  <1>4. DOMAIN Report[h] = 1..Len(Report[h]) /\ Len(Report[h]) \in Nat
    BY ReportFacts, LenProperties
  <1>5. \A j \in 1..(m - 1) : Report[h][j] # Report[h][m]
    BY <1>3, <1>4
  <1> QED BY <1>3, <1>5 DEF Fresh

LEMMA OrderFacts ==
    ASSUME NEW S \in SUBSET Nat, IsFiniteSet(S)
    PROVE  /\ Cardinality(S) \in Nat
           /\ InOrder(S) \in [1..Cardinality(S) -> S]
           /\ \A i, j \in 1..Cardinality(S) : InOrder(S)[i] = InOrder(S)[j] => i = j
           /\ \A x \in S : \E i \in 1..Cardinality(S) : InOrder(S)[i] = x
  <1> DEFINE D == 1..Cardinality(S)
  <1>1. Cardinality(S) \in Nat
    BY FS_CardinalityType
  <1>2. InOrder(S) \in [D -> S] /\ \A i, j \in D : i < j => InOrder(S)[i] < InOrder(S)[j]
    BY OrderExists DEF InOrder
  <1>3. ASSUME NEW i \in D, NEW j \in D, InOrder(S)[i] = InOrder(S)[j]
        PROVE  i = j
    <2>1. i \in Nat /\ j \in Nat /\ InOrder(S)[i] \in Nat
      <3>1. InOrder(S)[i] \in S
        BY <1>2
      <3>2. \A x \in S : x \in Nat
        OBVIOUS
      <3>3. \A k \in D : k \in Nat
        BY <1>1
      <3> QED BY <3>1, <3>2, <3>3
    <2>2. ~(i < j) /\ ~(j < i)
      BY <1>2, <1>3, <2>1
    <2> QED BY <2>1, <2>2
  <1>4. InOrder(S) \in Injection(D, S)
    BY <1>2, <1>3, IsInjection
  <1>5. Cardinality(D) = Cardinality(S)
    BY <1>1, FS_Interval
  <1>6. InOrder(S) \in Surjection(D, S)
    BY <1>4, <1>5, FS_Injection
  <1> QED BY <1>1, <1>2, <1>3, <1>6 DEF Surjection

(* A body names every listed finding or counts it.                         *)
LEMMA BodyFacts ==
    ASSUME Typed, NEW r \in Runs
    PROVE  /\ Body(r) \in Bodies /\ Body(r).head = at[r]
           /\ \A f : Named(r, f) => \/ \E e \in Body(r).listed : e[1] = f
                                    \/ Body(r).more + Body(r).omitted > 0
  <1> DEFINE first == {e \in listed[r] : Cardinality(Before(r, e)) < ListMax}
             fits == Fitting(r, first)
             rest == listed[r] \ first
             cut == first \ fits
             moreFits == ListMax < Room[at[r]]
             more == IF moreFits THEN Cardinality(rest) ELSE 0
             omitted == Cardinality(cut) + (IF rest # {} /\ ~moreFits THEN 1 ELSE 0)
             shown == {<<Report[at[r]][e[1]], e[2]>> : e \in fits}
  <1>1. /\ at[r] \in Heads /\ inline[r] \subseteq Positions /\ already[r] \in Nat
        /\ listed[r] \subseteq Positions \X Reasons
        /\ \A e \in listed[r] : e[1] \in DOMAIN Report[at[r]]
    BY DEF Typed
  <1>2. IsFiniteSet(Positions) /\ IsFiniteSet(Reasons)
    <2> DEFINE two == {"NotADiffReview"} \cup {"NearPosted"}
               three == two \cup {"OutsideDiff"}
               four == three \cup {"OverCap"}
    <2>1. IsFiniteSet({"NotADiffReview"})
      BY FS_Singleton
    <2>2. IsFiniteSet(two)
      BY <2>1, FS_AddElement
    <2>3. IsFiniteSet(three)
      BY <2>2, FS_AddElement
    <2>4. IsFiniteSet(four)
      BY <2>3, FS_AddElement
    <2>5. IsFiniteSet(four \cup {"Rejected"})
      BY <2>4, FS_AddElement
    <2>6. Reasons = four \cup {"Rejected"}
      BY DEF Reasons
    <2> QED BY <2>5, <2>6, ReportFacts
  <1>3. IsFiniteSet(listed[r]) /\ IsFiniteSet(inline[r])
    BY <1>1, <1>2, FS_Product, FS_Subset
  <1>4. /\ IsFiniteSet(rest) /\ Cardinality(rest) \in Nat
        /\ IsFiniteSet(cut) /\ Cardinality(cut) \in Nat
        /\ Cardinality(inline[r]) \in Nat
    <2>1. rest \subseteq listed[r] /\ cut \subseteq listed[r]
      OBVIOUS
    <2> HIDE DEF rest, cut
    <2> QED BY <1>3, <2>1, FS_Subset, FS_CardinalityType
  <1>5. Body(r) = [head |-> at[r], inline |-> Cardinality(inline[r]) + already[r],
                   listed |-> shown, more |-> more, omitted |-> omitted]
    BY DEF Body
  <1>11. fits \subseteq first
    BY DEF Fitting
  <1>10. more \in Nat /\ omitted \in Nat
    <2> HIDE DEF rest, cut, moreFits
    <2> QED BY <1>4
  <1>6. shown \subseteq Findings \X Reasons
    <2>1. \A e \in listed[r] : Report[at[r]][e[1]] \in Findings /\ e[2] \in Reasons
      BY <1>1, ReportFacts
    <2>2. \A e \in fits : <<Report[at[r]][e[1]], e[2]>> \in Findings \X Reasons
      BY <1>11, <2>1
    <2> HIDE DEF fits
    <2> QED BY <2>2
  <1>7. Body(r) \in Bodies
    <2> HIDE DEF shown, more, omitted
    <2> QED BY <1>1, <1>4, <1>5, <1>6, <1>10 DEF Bodies
  <1>8. ASSUME NEW f, Named(r, f)
        PROVE  (\E e \in Body(r).listed : e[1] = f) \/ Body(r).more + Body(r).omitted > 0
    <2> DEFINE told == Body(r).more + Body(r).omitted
    <2>0. told = more + omitted
      <3> HIDE DEF shown, more, omitted
      <3> QED BY <1>5
    <2>1. PICK e \in listed[r] : Report[at[r]][e[1]] = f
      BY <1>8 DEF Named, At
    <2>2. CASE e \in fits
      <3>1. <<f, e[2]>> \in shown
        BY <2>1, <2>2
      <3>2. Body(r).listed = shown
        BY <1>5
      <3> HIDE DEF shown
      <3> QED BY <3>1, <3>2
    <2>3. CASE e \in rest
      <3>1. Cardinality(rest) # 0 /\ rest # {}
        BY <1>4, <2>3, FS_EmptySet
      <3>2. CASE moreFits
        <4> HIDE DEF rest, cut, moreFits
        <4> QED BY <1>4, <2>0, <3>1, <3>2
      <3>3. CASE ~moreFits
        <4> HIDE DEF rest, cut, moreFits
        <4> QED BY <1>4, <2>0, <3>1, <3>3
      <3> QED BY <3>2, <3>3
    <2>4. CASE e \in cut
      <3>1. Cardinality(cut) # 0
        BY <1>4, <2>4, FS_EmptySet
      <3> HIDE DEF rest, cut, moreFits
      <3> QED BY <1>4, <2>0, <3>1
    <2>5. e \in fits \/ e \in rest \/ e \in cut
      BY <2>1
    <2> QED BY <2>2, <2>3, <2>4, <2>5
  <1>9. Body(r).head = at[r]
    BY <1>5
  <1> QED BY <1>7, <1>8, <1>9

---------------------------------------------------------------------------
(* What each step leaves typed.                                            *)
LEMMA InitTyped == Init => Typed
  <1> SUFFICES ASSUME Init PROVE Typed
    OBVIOUS
  <1>1. 1 \in Heads /\ MaxInline \in Nat /\ Cardinality({}) = 0
    BY ReportFacts, FS_EmptySet
  <1>2. comments \in Seq(Comment) /\ summaries \in Seq(Summary) /\ Len(summaries) = 0
        /\ DOMAIN summaries = {}
    BY DEF Init
  <1>3. /\ at \in [Runs -> Heads] /\ diff \in [Runs -> SUBSET Findings]
        /\ inline \in [Runs -> SUBSET Positions]
        /\ listed \in [Runs -> SUBSET (Positions \X Reasons)]
        /\ already \in [Runs -> Nat] /\ rejected \in [Runs -> BOOLEAN]
        /\ target \in [Runs -> Nat]
    BY <1>1 DEF Init
  <1> QED BY <1>1, <1>2, <1>3 DEF Init, Typed, Over

LEMMA PlanTyped == ASSUME Typed, NEW r \in Runs, MakePlan(r) PROVE Typed'
  <1> DEFINE report == Report[at[r]]
  <1>1. at[r] \in Heads /\ pc[r] = "comments"
    BY DEF Typed, MakePlan
  <1>2. /\ inline' = [inline EXCEPT ![r] = Inline(report, diff[r])]
        /\ listed' = [listed EXCEPT ![r] = Listed(report, diff[r])]
        /\ already' = [already EXCEPT ![r] = Cardinality(DOMAIN report \ Fresh(report))]
        /\ UNCHANGED <<head, comments, summaries, at, diff, rejected, target>>
    BY DEF MakePlan, github
  <1>3. \/ pc' = [pc EXCEPT ![r] = "summary"]
        \/ pc' = [pc EXCEPT ![r] = "review"]
    BY DEF MakePlan, Goto
  <1>4. /\ Inline(report, diff[r]) \subseteq DOMAIN report
        /\ Cardinality(Inline(report, diff[r])) <= MaxInline
        /\ Listed(report, diff[r]) \subseteq (DOMAIN report) \X Reasons
        /\ Cardinality(DOMAIN report \ Fresh(report)) \in Nat
        /\ DOMAIN report \subseteq Positions
    <2>1. /\ Fresh(report) \subseteq DOMAIN report
          /\ Inline(report, diff[r]) \subseteq Fits(report, diff[r])
          /\ Fits(report, diff[r]) \subseteq Fresh(report)
          /\ Cardinality(Inline(report, diff[r])) <= MaxInline
          /\ Listed(report, diff[r]) \subseteq Fresh(report) \X Reasons
          /\ Cardinality(DOMAIN report \ Fresh(report)) \in Nat
      BY ONLY <1>1, PlanFacts
    <2>2. DOMAIN report \subseteq Positions
      BY <1>1, ReportFacts
    <2> HIDE DEF report
    <2> QED BY <2>1, <2>2
  <1> HIDE DEF report
  <1>5. /\ inline' \in [Runs -> SUBSET Positions] /\ already' \in [Runs -> Nat]
        /\ listed' \in [Runs -> SUBSET (Positions \X Reasons)]
    <2>1. /\ Inline(report, diff[r]) \in SUBSET Positions
          /\ Listed(report, diff[r]) \in SUBSET (Positions \X Reasons)
      BY <1>4
    <2> QED BY <1>2, <1>4, <2>1 DEF Typed
  <1>6. \A q \in Runs : /\ inline'[q] \subseteq DOMAIN Report[at[q]]
                        /\ Cardinality(inline'[q]) <= MaxInline
                        /\ \A e \in listed'[q] : e[1] \in DOMAIN Report[at[q]]
    <2>1. \A q \in Runs \ {r} : inline'[q] = inline[q] /\ listed'[q] = listed[q]
      BY <1>2 DEF Typed
    <2>2. inline'[r] = Inline(report, diff[r]) /\ listed'[r] = Listed(report, diff[r])
      BY <1>2 DEF Typed
    <2>3. \A e \in Listed(report, diff[r]) : e[1] \in DOMAIN report
      BY <1>4
    <2>4. /\ inline'[r] \subseteq DOMAIN report /\ Cardinality(inline'[r]) <= MaxInline
          /\ \A e \in listed'[r] : e[1] \in DOMAIN report
      BY <1>4, <2>2, <2>3
    <2> QED BY <2>1, <2>4 DEF Typed, report
  <1>7. /\ pc' \in [Runs -> Over \cup {"new", "files", "comments", "review", "posted",
                                       "unresolved", "summary", "write", "written"}]
        /\ \A q \in Runs : pc'[q] = "new" =>
             inline'[q] = {} /\ listed'[q] = {} /\ ~rejected'[q]
    BY <1>1, <1>2, <1>3 DEF Typed
  <1> QED BY <1>2, <1>5, <1>6, <1>7 DEF Typed

(* What a created review adds to the list.                                 *)
Created(r) == [k \in DOMAIN InOrder(inline[r]) |->
                  [finding |-> Report[at[r]][InOrder(inline[r])[k]], bot |-> TRUE]]

LEMMA ReviewFacts ==
    ASSUME Typed, NEW r \in Runs, comments' = comments \o Created(r)
    PROVE  /\ Len(comments) \in Nat /\ Cardinality(inline[r]) \in Nat
           /\ comments' \in Seq(Comment)
           /\ DOMAIN comments = 1..Len(comments)
           /\ DOMAIN comments' = 1..(Len(comments) + Cardinality(inline[r]))
           /\ \A k \in 1..Len(comments) : comments'[k] = comments[k]
           /\ \A k \in DOMAIN comments' \ DOMAIN comments :
                /\ k - Len(comments) \in 1..Cardinality(inline[r])
                /\ comments'[k].bot
                /\ comments'[k].finding = At(r, InOrder(inline[r])[k - Len(comments)])
           /\ \A i \in inline[r] : \E k \in DOMAIN comments' :
                comments'[k].bot /\ comments'[k].finding = At(r, i)
  <1> DEFINE n == Cardinality(inline[r])
             order == InOrder(inline[r])
  <1>1. /\ inline[r] \subseteq DOMAIN Report[at[r]] /\ at[r] \in Heads
        /\ comments \in Seq(Comment)
    BY DEF Typed
  <1>2. inline[r] \in SUBSET Nat /\ IsFiniteSet(inline[r])
    BY <1>1, ReportFacts, FS_Subset
  <1>3. n \in Nat /\ order \in [1..n -> inline[r]] /\ \A i \in inline[r] : \E k \in 1..n : order[k] = i
    BY <1>2, OrderFacts
  <1> HIDE DEF order, n
  <1>4. \A k \in 1..n : order[k] \in inline[r] /\ Report[at[r]][order[k]] \in Findings
    BY <1>1, <1>3, ReportFacts
  <1>5. Created(r) = [k \in 1..n |-> [finding |-> At(r, order[k]), bot |-> TRUE]]
    BY <1>3 DEF Created, At, order
  <1>6. Created(r) \in Seq(Comment) /\ Len(Created(r)) = n
    <2>1. \A k \in 1..n : [finding |-> At(r, order[k]), bot |-> TRUE] \in Comment
      BY <1>4 DEF Comment, At
    <2>2. Created(r) \in [1..n -> Comment]
      BY <1>5, <2>1
    <2> QED BY <1>3, <2>2
  <1>7. /\ comments' \in Seq(Comment) /\ Len(comments') = Len(comments) + n
        /\ \A k \in 1..(Len(comments) + n) :
             comments'[k] = IF k <= Len(comments) THEN comments[k]
                            ELSE Created(r)[k - Len(comments)]
    BY <1>1, <1>6, ConcatProperties
  <1>8. /\ Len(comments) \in Nat /\ DOMAIN comments = 1..Len(comments)
        /\ DOMAIN comments' = 1..(Len(comments) + n)
    BY <1>1, <1>7, LenProperties
  <1>9. \A k \in 1..Len(comments) : comments'[k] = comments[k]
    BY <1>3, <1>7, <1>8
  <1>10. \A k \in DOMAIN comments' \ DOMAIN comments :
           /\ k - Len(comments) \in 1..n
           /\ comments'[k].bot /\ comments'[k].finding = At(r, order[k - Len(comments)])
    <2> SUFFICES ASSUME NEW k \in DOMAIN comments' \ DOMAIN comments
                 PROVE  /\ k - Len(comments) \in 1..n
                        /\ comments'[k].bot
                        /\ comments'[k].finding = At(r, order[k - Len(comments)])
      OBVIOUS
    <2>1. k - Len(comments) \in 1..n /\ comments'[k] = Created(r)[k - Len(comments)]
      BY <1>3, <1>7, <1>8
    <2>2. \A l \in 1..n : Created(r)[l] = [finding |-> At(r, order[l]), bot |-> TRUE]
      BY <1>5
    <2>3. comments'[k] = [finding |-> At(r, order[k - Len(comments)]), bot |-> TRUE]
      BY <2>1, <2>2
    <2> QED BY <2>1, <2>3
  <1>11. ASSUME NEW i \in inline[r]
         PROVE  \E k \in DOMAIN comments' : comments'[k].bot /\ comments'[k].finding = At(r, i)
    <2>1. PICK k \in 1..n : order[k] = i
      BY <1>3
    <2>2. /\ k + Len(comments) \in DOMAIN comments' \ DOMAIN comments
          /\ k + Len(comments) - Len(comments) = k
      BY <1>3, <1>8
    <2>3. /\ comments'[k + Len(comments)].bot
          /\ comments'[k + Len(comments)].finding = At(r, order[k])
      <3>1. /\ comments'[k + Len(comments)].bot
            /\ comments'[k + Len(comments)].finding =
                 At(r, order[k + Len(comments) - Len(comments)])
        BY <1>10, <2>2
      <3> QED BY <2>2, <3>1
    <2>4. At(r, order[k]) = At(r, i)
      BY <2>1
    <2>5. k + Len(comments) \in DOMAIN comments'
      BY <2>2
    <2> QED BY <2>3, <2>4, <2>5
  <1> QED BY <1>3, <1>7, <1>8, <1>9, <1>10, <1>11 DEF n, order

(* The bot's first summary.                                                *)
First == IF Ours = {} THEN 0 ELSE CHOOSE k \in Ours : \A j \in Ours : k <= j

LEMMA FirstFacts ==
    ASSUME Typed
    PROVE  /\ Len(summaries) \in Nat /\ DOMAIN summaries = 1..Len(summaries)
           /\ Ours \subseteq 1..Len(summaries)
           /\ First \in 0..Len(summaries)
           /\ IF First = 0 THEN Ours = {} ELSE First \in Ours
  <1>1. Len(summaries) \in Nat /\ DOMAIN summaries = 1..Len(summaries)
    BY LenProperties DEF Typed
  <1>2. Ours \subseteq 1..Len(summaries)
    BY <1>1 DEF Ours
  <1>3. Ours \in SUBSET Nat /\ IsFiniteSet(Ours)
    <2>1. 1 \in Int /\ Len(summaries) \in Int
      BY <1>1
    <2>2. IsFiniteSet(1..Len(summaries))
      BY <2>1, FS_Interval
    <2>3. 1..Len(summaries) \subseteq Nat
      BY <1>1
    <2> QED BY <1>2, <2>2, <2>3, FS_Subset
  <1>4. Ours # {} => First \in Ours
    <2>1. Ours # {} => \E m \in Ours : \A x \in Ours : m <= x
      BY <1>3, LeastExists
    <2> QED BY <2>1 DEF First
  <1>5. Ours = {} => First = 0
    BY DEF First
  <1>6. 1..Len(summaries) \subseteq 0..Len(summaries) /\ 0 \notin 1..Len(summaries)
        /\ 0 \in 0..Len(summaries)
    BY <1>1
  <1> HIDE DEF First, Ours
  <1>7. First \in 0..Len(summaries) /\ IF First = 0 THEN Ours = {} ELSE First \in Ours
    BY <1>2, <1>4, <1>5, <1>6
  <1> QED BY <1>1, <1>2, <1>7

(* What a written summary leaves on GitHub.                                *)
LEMMA WriteFacts ==
    ASSUME Typed, NEW r \in Runs, WriteSummary(r)
    PROVE  /\ summaries' \in Seq(Summary)
           /\ Len(summaries) \in Nat /\ DOMAIN summaries = 1..Len(summaries)
           /\ Len(summaries') = IF target[r] = 0 THEN Len(summaries) + 1 ELSE Len(summaries)
           /\ DOMAIN summaries' = 1..Len(summaries')
           /\ \A k \in DOMAIN summaries :
                /\ summaries'[k].bot = summaries[k].bot
                /\ summaries'[k].body = IF k = target[r] THEN Body(r) ELSE summaries[k].body
           /\ target[r] = 0 => /\ summaries'[Len(summaries) + 1].bot
                               /\ summaries'[Len(summaries) + 1].body = Body(r)
  <1>1. /\ summaries \in Seq(Summary) /\ target[r] \in Nat /\ target[r] <= Len(summaries)
        /\ Body(r) \in Bodies
    BY BodyFacts DEF Typed
  <1>2. /\ Len(summaries) \in Nat /\ DOMAIN summaries = 1..Len(summaries)
        /\ \A k \in DOMAIN summaries : summaries[k] \in Summary
    BY <1>1, LenProperties, ElementOfSeq
  <1>3. CASE target[r] = 0
    <2> DEFINE new == [body |-> Body(r), bot |-> TRUE]
    <2>1. new \in Summary /\ new.bot /\ new.body = Body(r)
      BY <1>1 DEF Summary
    <2>2. summaries' = Append(summaries, new)
      BY <1>3 DEF WriteSummary
    <2> HIDE DEF new
    <2>3. /\ summaries' \in Seq(Summary) /\ Len(summaries') = Len(summaries) + 1
          /\ \A k \in 1..Len(summaries) : summaries'[k] = summaries[k]
          /\ summaries'[Len(summaries) + 1] = new
      BY <1>1, <2>1, <2>2, AppendProperties
    <2>4. DOMAIN summaries' = 1..Len(summaries')
      BY <2>3, LenProperties
    <2>5. \A k \in DOMAIN summaries : k # target[r]
      BY <1>2, <1>3
    <2> QED BY <1>2, <1>3, <2>1, <2>3, <2>4, <2>5
  <1>4. CASE target[r] # 0
    <2>1. target[r] \in 1..Len(summaries)
      BY <1>1, <1>2, <1>4
    <2>2. summaries' = [summaries EXCEPT ![target[r]].body = Body(r)]
      BY <1>4 DEF WriteSummary
    <2>3. \A k \in 1..Len(summaries) :
            /\ summaries'[k] = IF k = target[r] THEN [summaries[k] EXCEPT !.body = Body(r)]
                                               ELSE summaries[k]
            /\ summaries'[k] \in Summary
            /\ summaries'[k].bot = summaries[k].bot
            /\ summaries'[k].body = IF k = target[r] THEN Body(r) ELSE summaries[k].body
      BY <1>1, <1>2, <2>1, <2>2 DEF Summary
    <2>4. DOMAIN summaries' = 1..Len(summaries)
      BY <1>2, <2>2
    <2>5. summaries' \in [1..Len(summaries) -> Summary]
      BY <1>1, <1>2, <2>2, <2>3, <2>4
    <2>6. summaries' \in Seq(Summary) /\ Len(summaries') = Len(summaries)
      BY <1>2, <2>5
    <2> QED BY <1>2, <1>4, <2>3, <2>4, <2>6
  <1> QED BY <1>3, <1>4

Places == Over \cup {"new", "files", "comments", "review", "posted",
                     "unresolved", "summary", "write", "written"}

(* A run that has begun goes anywhere but back to the start.               *)
LEMMA Goes ==
    ASSUME Typed, NEW r \in Runs, NEW place \in Places \ {"new"}, Goto(r, place)
    PROVE  /\ pc' \in [Runs -> Places] /\ pc'[r] = place
           /\ \A q \in Runs : pc'[q] = "new" => pc[q] = "new" /\ q # r
           /\ \A q \in Runs \ {r} : pc'[q] = pc[q]
  <1>1. pc \in [Runs -> Places] /\ pc' = [pc EXCEPT ![r] = place] /\ place # "new"
    BY DEF Typed, Places, Goto
  <1> QED BY <1>1

LEMMA CreateTyped == ASSUME Typed, NEW r \in Runs, CreateReview(r) PROVE Typed'
  <1>1. /\ UNCHANGED <<head, summaries, at, diff, inline, listed, already, rejected, target>>
        /\ Goto(r, "posted") \/ Goto(r, "unresolved")
        /\ comments' = comments \o Created(r) \/ comments' = comments
    BY DEF CreateReview, plan, Created
  <1>2. comments' \in Seq(Comment)
    BY <1>1, ReviewFacts DEF Typed
  <1>3. "posted" \in Places \ {"new"} /\ "unresolved" \in Places \ {"new"}
    BY DEF Places
  <1>4. /\ pc' \in [Runs -> Places]
        /\ \A q \in Runs : pc'[q] = "new" => pc[q] = "new"
    BY <1>1, <1>3, Goes
  <1> QED BY <1>1, <1>2, <1>4 DEF Typed, Places

LEMMA DemoteTyped == ASSUME Typed, NEW r \in Runs, DemoteInline(r) PROVE Typed'
  <1> DEFINE demoted == inline[r] \X {"Rejected"}
  <1>1. /\ UNCHANGED <<head, comments, summaries, at, diff, already, target>>
        /\ rejected' = [rejected EXCEPT ![r] = TRUE]
        /\ listed' = [listed EXCEPT ![r] = listed[r] \cup demoted]
        /\ inline' = [inline EXCEPT ![r] = {}]
        /\ Goto(r, "summary")
    BY DEF DemoteInline, github
  <1>2. "summary" \in Places \ {"new"}
    BY DEF Places
  <1>3. /\ pc' \in [Runs -> Places]
        /\ \A q \in Runs : pc'[q] = "new" => pc[q] = "new" /\ q # r
    BY <1>1, <1>2, Goes
  <1>4. /\ inline[r] \subseteq Positions /\ inline[r] \subseteq DOMAIN Report[at[r]]
        /\ listed[r] \subseteq Positions \X Reasons
        /\ \A e \in listed[r] : e[1] \in DOMAIN Report[at[r]]
    BY DEF Typed
  <1>5. demoted \subseteq Positions \X Reasons
    BY <1>4 DEF Reasons
  <1>6. \A e \in demoted : e[1] \in DOMAIN Report[at[r]]
    BY <1>4
  <1> HIDE DEF demoted
  <1>7. listed' \in [Runs -> SUBSET (Positions \X Reasons)]
    <2>1. listed[r] \cup demoted \in SUBSET (Positions \X Reasons)
      BY <1>4, <1>5
    <2> QED BY <1>1, <2>1 DEF Typed
  <1>8. \A q \in Runs : \A e \in listed'[q] : e[1] \in DOMAIN Report[at[q]]
    BY <1>1, <1>4, <1>6 DEF Typed
  <1>9. /\ inline' \in [Runs -> SUBSET Positions] /\ rejected' \in [Runs -> BOOLEAN]
        /\ \A q \in Runs : /\ inline'[q] \subseteq DOMAIN Report[at[q]]
                           /\ Cardinality(inline'[q]) <= MaxInline
    <2>1. Cardinality({}) = 0 /\ 0 <= MaxInline
      BY FS_EmptySet, ReportFacts
    <2> QED BY <1>1, <2>1 DEF Typed
  <1>10. \A q \in Runs : pc'[q] = "new" => inline'[q] = {} /\ listed'[q] = {} /\ ~rejected'[q]
    BY <1>1, <1>3 DEF Typed
  <1> QED BY <1>1, <1>3, <1>7, <1>8, <1>9, <1>10 DEF Typed, Places

LEMMA FindTyped == ASSUME Typed, NEW r \in Runs, FindSummary(r) PROVE Typed'
  <1>1. /\ UNCHANGED <<head, comments, summaries, at, diff, inline, listed, already, rejected>>
        /\ target' = [target EXCEPT ![r] = First]
        /\ Goto(r, "done") \/ Goto(r, "write")
    BY DEF FindSummary, First, github, plan
  <1>2. "done" \in Places \ {"new"} /\ "write" \in Places \ {"new"}
    BY DEF Places, Over
  <1>3. /\ pc' \in [Runs -> Places]
        /\ \A q \in Runs : pc'[q] = "new" => pc[q] = "new"
    BY <1>1, <1>2, Goes
  <1>4. First \in Nat /\ First <= Len(summaries)
    BY FirstFacts
  <1>5. /\ target' \in [Runs -> Nat]
        /\ \A q \in Runs : target'[q] <= Len(summaries)
    BY <1>1, <1>4 DEF Typed
  <1> QED BY <1>1, <1>3, <1>5 DEF Typed, Places

LEMMA WriteTyped == ASSUME Typed, NEW r \in Runs, WriteSummary(r) PROVE Typed'
  <1>1. /\ UNCHANGED <<head, comments, at, diff, inline, listed, already, rejected, target>>
        /\ Goto(r, "written") /\ "written" \in Places \ {"new"}
    BY DEF WriteSummary, plan, Places
  <1>2. /\ pc' \in [Runs -> Places]
        /\ \A q \in Runs : pc'[q] = "new" => pc[q] = "new"
    BY <1>1, Goes
  <1>3. summaries' \in Seq(Summary)
    BY WriteFacts
  <1>4. \A k \in DOMAIN summaries' : summaries'[k].bot => summaries'[k].body \in Bodies
    <2>1. \A k \in DOMAIN summaries : summaries'[k].bot => summaries'[k].body \in Bodies
      <3>1. Body(r) \in Bodies
        BY BodyFacts
      <3>2. \A k \in DOMAIN summaries : summaries[k].bot => summaries[k].body \in Bodies
        BY DEF Typed
      <3>3. \A k \in DOMAIN summaries :
              /\ summaries'[k].bot = summaries[k].bot
              /\ summaries'[k].body = IF k = target[r] THEN Body(r) ELSE summaries[k].body
        BY WriteFacts
      <3> QED BY <3>1, <3>2, <3>3
    <2>2. \A k \in DOMAIN summaries' \ DOMAIN summaries :
            summaries'[k].body = Body(r)
      <3>1. \A k \in DOMAIN summaries' \ DOMAIN summaries :
              target[r] = 0 /\ k = Len(summaries) + 1
        BY WriteFacts
      <3> QED BY <3>1, WriteFacts
    <2> QED BY <2>1, <2>2, BodyFacts
  <1>5. \A q \in Runs : target[q] <= Len(summaries')
    BY WriteFacts DEF Typed
  <1> QED BY <1>1, <1>2, <1>3, <1>4, <1>5 DEF Typed, Places

(* What a quoted marker adds.                                              *)
LEMMA Appended ==
    ASSUME NEW T, NEW s \in Seq(T), NEW x \in T
    PROVE  /\ Append(s, x) \in Seq(T) /\ Len(s) \in Nat /\ Len(Append(s, x)) = Len(s) + 1
           /\ DOMAIN s \subseteq DOMAIN Append(s, x)
           /\ \A k \in DOMAIN s : Append(s, x)[k] = s[k]
           /\ \A k \in DOMAIN Append(s, x) \ DOMAIN s : Append(s, x)[k] = x
  <1>1. /\ Append(s, x) \in Seq(T) /\ Len(Append(s, x)) = Len(s) + 1
        /\ \A k \in 1..Len(s) : Append(s, x)[k] = s[k]
        /\ Append(s, x)[Len(s) + 1] = x
    BY AppendProperties
  <1>2. Len(s) \in Nat /\ DOMAIN s = 1..Len(s) /\ DOMAIN Append(s, x) = 1..(Len(s) + 1)
    BY <1>1, LenProperties
  <1> DEFINE t == Append(s, x)
  <1> HIDE DEF t
  <1>3. \A k \in 1..(Len(s) + 1) : k \notin 1..Len(s) => k = Len(s) + 1
    BY <1>2
  <1>4. 1..Len(s) \subseteq 1..(Len(s) + 1)
    BY <1>2
  <1> QED BY <1>1, <1>2, <1>3, <1>4

LEMMA ForeignFacts ==
    ASSUME Typed, ForeignComment
    PROVE  /\ comments' \in Seq(Comment) /\ summaries' \in Seq(Summary)
           /\ Len(summaries) \in Nat /\ Len(summaries') \in Nat /\ Len(summaries) <= Len(summaries')
           /\ DOMAIN comments \subseteq DOMAIN comments'
           /\ DOMAIN summaries \subseteq DOMAIN summaries'
           /\ \A k \in DOMAIN comments : comments'[k] = comments[k]
           /\ \A k \in DOMAIN summaries : summaries'[k] = summaries[k]
           /\ \A k \in DOMAIN comments' \ DOMAIN comments : ~comments'[k].bot
           /\ \A k \in DOMAIN summaries' \ DOMAIN summaries : ~summaries'[k].bot
  <1>1. /\ comments \in Seq(Comment)
        /\ summaries \in Seq(Summary) /\ Len(summaries) \in Nat
    BY LenProperties DEF Typed
  <1>2. ASSUME NEW f \in Findings, comments' = Append(comments, [finding |-> f, bot |-> FALSE])
        PROVE  /\ comments' \in Seq(Comment) /\ DOMAIN comments \subseteq DOMAIN comments'
               /\ \A k \in DOMAIN comments : comments'[k] = comments[k]
               /\ \A k \in DOMAIN comments' \ DOMAIN comments : ~comments'[k].bot
    <2> DEFINE new == [finding |-> f, bot |-> FALSE]
    <2>1. new \in Comment /\ ~new.bot
      BY DEF Comment
    <2> HIDE DEF new
    <2>2. comments' = Append(comments, new)
      BY <1>2 DEF new
    <2> QED BY <1>1, <2>1, <2>2, Appended
  <1>3. ASSUME summaries' = Append(summaries, [body |-> "quoted", bot |-> FALSE])
        PROVE  /\ summaries' \in Seq(Summary) /\ Len(summaries') = Len(summaries) + 1
               /\ DOMAIN summaries \subseteq DOMAIN summaries'
               /\ \A k \in DOMAIN summaries : summaries'[k] = summaries[k]
               /\ \A k \in DOMAIN summaries' \ DOMAIN summaries : ~summaries'[k].bot
    <2> DEFINE new == [body |-> "quoted", bot |-> FALSE]
    <2>1. new \in Summary /\ ~new.bot
      BY DEF Summary
    <2> HIDE DEF new
    <2>2. summaries' = Append(summaries, new)
      BY <1>3 DEF new
    <2> QED BY <1>1, <2>1, <2>2, Appended
  <1>4. CASE UNCHANGED summaries
    <2>1. PICK f \in Findings : comments' = Append(comments, [finding |-> f, bot |-> FALSE])
                                 \/ UNCHANGED comments
      BY <1>4 DEF ForeignComment
    <2>2. CASE UNCHANGED comments
      BY <1>1, <1>4, <2>2
    <2>3. CASE comments' = Append(comments, [finding |-> f, bot |-> FALSE])
      <3>1. /\ comments' \in Seq(Comment) /\ DOMAIN comments \subseteq DOMAIN comments'
            /\ \A k \in DOMAIN comments : comments'[k] = comments[k]
            /\ \A k \in DOMAIN comments' \ DOMAIN comments : ~comments'[k].bot
        BY <1>2, <2>3
      <3>2. \A k \in DOMAIN summaries : summaries'[k] = summaries[k]
        BY <1>4
      <3> QED BY <1>1, <1>4, <3>1, <3>2
    <2> QED BY <2>1, <2>2, <2>3
  <1>5. CASE UNCHANGED comments
    <2>1. CASE UNCHANGED summaries
      BY <1>1, <1>5, <2>1
    <2>2. CASE summaries' = Append(summaries, [body |-> "quoted", bot |-> FALSE])
      BY <1>1, <1>3, <1>5, <2>2
    <2> QED BY <2>1, <2>2 DEF ForeignComment
  <1> QED BY <1>4, <1>5 DEF ForeignComment

LEMMA NextTyped == Typed /\ [Next]_vars => Typed'
  <1> SUFFICES ASSUME Typed, [Next]_vars PROVE Typed'
    OBVIOUS
  <1>1. CASE Push
    BY <1>1 DEF Push, Typed, plan
  <1>2. CASE ForeignComment
    <2>1. UNCHANGED <<head, pc, at, diff, inline, listed, already, rejected, target>>
      BY <1>2 DEF ForeignComment, plan
    <2>2. \A k \in DOMAIN summaries' : summaries'[k].bot => summaries'[k].body \in Bodies
      BY <1>2, ForeignFacts DEF Typed
    <2>3. \A q \in Runs : target[q] <= Len(summaries')
      BY <1>2, ForeignFacts DEF Typed
    <2> QED BY <1>2, <2>1, <2>2, <2>3, ForeignFacts DEF Typed
  <1>3. ASSUME NEW r \in Runs, Begin(r)
        PROVE  Typed'
    <2>1. /\ pc[r] = "new" /\ at' = [at EXCEPT ![r] = head]
          /\ Goto(r, "files") /\ "files" \in Places \ {"new"}
          /\ UNCHANGED <<head, comments, summaries, diff, inline, listed, already, rejected, target>>
      BY <1>3 DEF Begin, github, plan, Places
    <2>2. /\ pc' \in [Runs -> Places]
          /\ \A q \in Runs : pc'[q] = "new" => pc[q] = "new"
      BY <2>1, Goes
    <2>3. inline[r] = {} /\ listed[r] = {} /\ head \in Heads
      BY <2>1 DEF Typed
    <2> QED BY <2>1, <2>2, <2>3 DEF Typed, Places
  <1>4. ASSUME NEW r \in Runs, PullFiles(r)
        PROVE  Typed'
    <2>1. /\ diff' = [diff EXCEPT ![r] = Commentable[head]]
          /\ Goto(r, "comments") /\ "comments" \in Places \ {"new"}
          /\ UNCHANGED <<head, comments, summaries, at, inline, listed, already, rejected, target>>
      BY <1>4 DEF PullFiles, github, plan, Places
    <2>2. /\ pc' \in [Runs -> Places]
          /\ \A q \in Runs : pc'[q] = "new" => pc[q] = "new"
      BY <2>1, Goes
    <2>3. Commentable[head] \in SUBSET Findings
      BY PublishAssumption DEF Typed
    <2> QED BY <2>1, <2>2, <2>3 DEF Typed, Places
  <1>5. ASSUME NEW r \in Runs, ReviewPosted(r) \/ SummaryWritten(r) \/ Fail(r)
        PROVE  Typed'
    <2>1. /\ Goto(r, "summary") \/ Goto(r, "done") \/ Goto(r, "failed")
          /\ {"summary", "done", "failed"} \subseteq Places \ {"new"}
          /\ UNCHANGED <<head, comments, summaries, at, diff, inline, listed, already, rejected, target>>
      BY <1>5 DEF ReviewPosted, SummaryWritten, Fail, github, plan, Places, Over
    <2>2. /\ pc' \in [Runs -> Places]
          /\ \A q \in Runs : pc'[q] = "new" => pc[q] = "new"
      BY <2>1, Goes
    <2> QED BY <2>1, <2>2 DEF Typed, Places
  <1>6. CASE UNCHANGED vars
    BY <1>6 DEF vars, Typed
  <1> QED BY <1>1, <1>2, <1>3, <1>4, <1>5, <1>6, PlanTyped, CreateTyped, DemoteTyped,
             FindTyped, WriteTyped DEF Next

LEMMA TypedOK == Typed => TypeOK
  <1> SUFFICES ASSUME Typed PROVE TypeOK
    OBVIOUS
  <1>1. \A c \in RangeOf(comments) : c.finding \in Findings /\ c.bot \in BOOLEAN
    <2>1. \A k \in DOMAIN comments : comments[k] \in Comment
      BY ElementOfSeq, LenProperties DEF Typed
    <2> QED BY <2>1 DEF RangeOf, Comment
  <1>3. \A r \in Runs : target[r] \in 0..Len(summaries)
    <2>1. Len(summaries) \in Nat
      BY LenProperties DEF Typed
    <2> QED BY <2>1 DEF Typed
  <1>2. ASSUME NEW s \in RangeOf(summaries), s.bot
        PROVE  s.body.head \in Heads /\ {s.body.more, s.body.omitted} \subseteq Nat
    <2>1. PICK k \in DOMAIN summaries : s = summaries[k]
      BY DEF RangeOf
    <2>2. s.body \in Bodies
      BY <1>2, <2>1 DEF Typed
    <2> QED BY <2>2 DEF Bodies
  <1> QED BY <1>1, <1>2, <1>3 DEF Typed, TypeOK

---------------------------------------------------------------------------
(* A step is the author's, somebody else's or a run's.                     *)
Step(r) ==
    \/ Begin(r) \/ PullFiles(r) \/ MakePlan(r) \/ CreateReview(r) \/ ReviewPosted(r)
    \/ DemoteInline(r) \/ FindSummary(r) \/ WriteSummary(r) \/ SummaryWritten(r)
    \/ Fail(r)

Still(q) ==
    /\ pc'[q] = pc[q] /\ at'[q] = at[q] /\ diff'[q] = diff[q] /\ inline'[q] = inline[q]
    /\ listed'[q] = listed[q] /\ already'[q] = already[q] /\ rejected'[q] = rejected[q]
    /\ target'[q] = target[q]

(* A run's step leaves the head and the other runs alone.                  *)
LEMMA OthersStay ==
    ASSUME Typed, NEW r \in Runs, Step(r)
    PROVE  /\ head' = head
           /\ \A q \in Runs \ {r} : Still(q)
  <1> USE DEF Still, Goto, github, plan
  <1>1. CASE Begin(r)
    BY <1>1 DEF Begin, Typed
  <1>2. CASE PullFiles(r)
    BY <1>2 DEF PullFiles, Typed
  <1>3. CASE MakePlan(r)
    BY <1>3 DEF MakePlan, Typed
  <1>4. CASE CreateReview(r)
    BY <1>4 DEF CreateReview, Typed
  <1>5. CASE ReviewPosted(r) \/ SummaryWritten(r) \/ Fail(r)
    BY <1>5 DEF ReviewPosted, SummaryWritten, Fail, Typed
  <1>6. CASE DemoteInline(r)
    BY <1>6 DEF DemoteInline, Typed
  <1>7. CASE FindSummary(r)
    BY <1>7 DEF FindSummary, Typed
  <1>8. CASE WriteSummary(r)
    BY <1>8 DEF WriteSummary, Typed
  <1> QED BY <1>1, <1>2, <1>3, <1>4, <1>5, <1>6, <1>7, <1>8 DEF Step

LEMMA NextMoved == Typed /\ Moved /\ [Next]_vars => Moved'
  <1> SUFFICES ASSUME Typed, Moved, [Next]_vars, NEW q \in Runs
               PROVE  MovedAt(q)'
    BY DEF Moved
  <1>1. MovedAt(q) /\ head \in Nat /\ at[q] \in Nat /\ at[q] \in Heads
    BY ReportFacts DEF Moved, Typed
  <1>2. CASE Push
    <2>1. head' = head + 1 /\ UNCHANGED <<pc, at, diff, inline, rejected>>
      BY <1>2 DEF Push, plan
    <2>2. at[q] # head'
      BY <1>1, <2>1 DEF MovedAt
    <2> QED BY <1>1, <2>1, <2>2 DEF MovedAt, At
  <1>3. CASE ForeignComment \/ UNCHANGED vars
    BY <1>1, <1>3 DEF ForeignComment, vars, plan, MovedAt, At
  <1>4. ASSUME NEW r \in Runs, Step(r), q # r
        PROVE  MovedAt(q)'
    <2>1. Still(q) /\ head' = head
      BY <1>4, OthersStay
    <2> QED BY <1>1, <2>1 DEF Still, MovedAt, At
  <1>5. CASE Begin(q)
    <2>1. pc'[q] = "files" /\ at'[q] = head /\ head' = head /\ ~rejected'[q]
      BY <1>5 DEF Begin, Goto, plan, github, Typed
    <2> QED BY <1>1, <2>1 DEF MovedAt
  <1>6. CASE PullFiles(q)
    <2>1. /\ pc'[q] = "comments" /\ diff'[q] = Commentable[head]
          /\ UNCHANGED <<head, at, rejected>>
      BY <1>6 DEF PullFiles, Goto, plan, github, Typed
    <2> QED BY <1>1, <2>1 DEF MovedAt
  <1>7. CASE MakePlan(q)
    <2>1. /\ pc[q] = "comments" /\ pc'[q] \in {"review", "summary"}
          /\ inline'[q] = Inline(Report[at[q]], diff[q])
          /\ UNCHANGED <<head, at, diff, rejected>>
      BY <1>7 DEF MakePlan, Goto, github, Typed
    <2>2. \A i \in Inline(Report[at[q]], diff[q]) : At(q, i) \in diff[q]
      BY DEF Inline, Fits, At
    <2> QED BY <1>1, <2>1, <2>2 DEF MovedAt, At
  <1>8. CASE CreateReview(q)
    <2>1. /\ pc[q] = "review" /\ pc'[q] \in {"posted", "unresolved"}
          /\ UNCHANGED <<head, at, diff, inline, rejected>>
          /\ pc'[q] = "unresolved" /\ at[q] = head =>
               \E i \in inline[q] : At(q, i) \notin Commentable[head]
      BY <1>8 DEF CreateReview, Goto, plan, Typed, At
    <2> QED BY <1>1, <2>1 DEF MovedAt
  <1>9. CASE DemoteInline(q)
    <2>1. /\ pc[q] = "unresolved" /\ pc'[q] = "summary"
          /\ UNCHANGED <<head, at, diff>>
      BY <1>9 DEF DemoteInline, Goto, github, Typed
    <2> QED BY <1>1, <2>1 DEF MovedAt
  <1>10. CASE ReviewPosted(q) \/ SummaryWritten(q) \/ Fail(q) \/ FindSummary(q) \/ WriteSummary(q)
    <2>1. /\ pc'[q] \in {"summary", "done", "failed", "write", "written"}
          /\ UNCHANGED <<head, at, diff, inline, rejected>>
      BY <1>10 DEF ReviewPosted, SummaryWritten, Fail, FindSummary, WriteSummary, Goto,
                  github, plan, Typed
    <2> QED BY <1>1, <2>1 DEF MovedAt
  <1>11. \/ Push \/ ForeignComment \/ UNCHANGED vars
         \/ \E r \in Runs : Step(r)
    BY DEF Next, Step
  <1> QED BY <1>2, <1>3, <1>4, <1>5, <1>6, <1>7, <1>8, <1>9, <1>10, <1>11 DEF Step

(* GitHub rejects a review's anchors only when the head moved on            *)
(* (publish.rs publish): for any runs, pushes and findings, a review that   *)
(* was rejected was of a commit that is no longer the head.                 *)
THEOREM MovedInvariance == Spec => [](Typed /\ Moved)
  <1>1. Init => Moved
    <2> SUFFICES ASSUME Init, NEW r \in Runs PROVE MovedAt(r)
      BY DEF Moved
    <2> QED BY DEF Init, MovedAt
  <1> QED BY <1>1, InitTyped, NextTyped, NextMoved, PTL DEF Spec

THEOREM RejectedIsMoved == Spec => []RejectedOnlyWhenMoved
  <1>1. Typed /\ Moved => RejectedOnlyWhenMoved
    BY DEF Moved, MovedAt, RejectedOnlyWhenMoved
  <1> QED BY <1>1, MovedInvariance, PTL

---------------------------------------------------------------------------
(* What the bot has said, now and after a step.                            *)
LEMMA InPosted ==
    /\ \A f : f \in Posted <=> \E k \in DOMAIN comments : comments[k].bot /\ comments[k].finding = f
    /\ \A f : f \in Posted' <=> \E k \in DOMAIN comments' : comments'[k].bot /\ comments'[k].finding = f
    /\ \A k : k \in Ours <=> k \in DOMAIN summaries /\ summaries[k].bot
    /\ \A k : k \in Ours' <=> k \in DOMAIN summaries' /\ summaries'[k].bot
  BY DEF Posted, RangeOf, Ours

(* A quote says nothing in the bot's name.                                 *)
LEMMA ForeignSays ==
    ASSUME Typed, ForeignComment
    PROVE  /\ \A f : f \in Posted' <=> f \in Posted
           /\ \A k : k \in Ours' <=> k \in Ours
           /\ \A k \in Ours : summaries'[k] = summaries[k]
           /\ CommentsDiffer => CommentsDiffer'
  <1>1. /\ DOMAIN comments \subseteq DOMAIN comments'
        /\ DOMAIN summaries \subseteq DOMAIN summaries'
        /\ \A k \in DOMAIN comments : comments'[k] = comments[k]
        /\ \A k \in DOMAIN summaries : summaries'[k] = summaries[k]
        /\ \A k \in DOMAIN comments' : comments'[k].bot => k \in DOMAIN comments
        /\ \A k \in DOMAIN summaries' : summaries'[k].bot => k \in DOMAIN summaries
    BY ForeignFacts
  <1>2. CommentsDiffer => CommentsDiffer'
    BY <1>1 DEF CommentsDiffer
  <1>3. \A k : k \in Ours' <=> k \in Ours
    BY <1>1, InPosted
  <1>4. \A f : f \in Posted' <=> f \in Posted
    BY <1>1, InPosted
  <1> QED BY <1>1, <1>2, <1>3, <1>4, InPosted

(* A review says what was planned, once.                                   *)
LEMMA ReviewSays ==
    ASSUME Typed, NEW r \in Runs, comments' = comments \o Created(r)
    PROVE  /\ \A f : f \in Posted' <=> f \in Posted \/ \E i \in inline[r] : At(r, i) = f
           /\ /\ CommentsDiffer
              /\ \A i \in inline[r] : At(r, i) \notin Posted
              /\ \A i, j \in inline[r] : At(r, i) = At(r, j) => i = j
              => CommentsDiffer'
  <1> DEFINE n == Cardinality(inline[r])
             order == InOrder(inline[r])
             m == Len(comments)
  <1>1. inline[r] \in SUBSET Nat /\ IsFiniteSet(inline[r])
    BY ReportFacts, FS_Subset DEF Typed
  <1>2. /\ n \in Nat /\ m \in Nat /\ \A k \in 1..n : order[k] \in inline[r]
        /\ \A k, l \in 1..n : order[k] = order[l] => k = l
    BY <1>1, OrderFacts, ReviewFacts
  <1>3. /\ DOMAIN comments = 1..m /\ DOMAIN comments' = 1..(m + n)
        /\ \A k \in 1..m : comments'[k] = comments[k]
        /\ \A k \in DOMAIN comments' \ DOMAIN comments :
             /\ k - m \in 1..n /\ comments'[k].bot
             /\ comments'[k].finding = At(r, order[k - m])
        /\ \A i \in inline[r] : \E k \in DOMAIN comments' :
             comments'[k].bot /\ comments'[k].finding = At(r, i)
    BY ReviewFacts
  <1> HIDE DEF n, order, m
  <1>4. DOMAIN comments \subseteq DOMAIN comments'
    BY <1>2, <1>3
  <1>5. \A f : f \in Posted' <=> f \in Posted \/ \E i \in inline[r] : At(r, i) = f
    <2>1. ASSUME NEW f, f \in Posted' PROVE f \in Posted \/ \E i \in inline[r] : At(r, i) = f
      <3>1. PICK k \in DOMAIN comments' : comments'[k].bot /\ comments'[k].finding = f
        BY <2>1, InPosted
      <3>2. CASE k \in DOMAIN comments
        BY <1>3, <3>1, <3>2, InPosted
      <3>3. CASE k \notin DOMAIN comments
        <4>1. k - m \in 1..n /\ f = At(r, order[k - m])
          BY <1>3, <3>1, <3>3
        <4> QED BY <1>2, <4>1
      <3> QED BY <3>2, <3>3
    <2>2. ASSUME NEW f, f \in Posted PROVE f \in Posted'
      <3>1. PICK k \in DOMAIN comments : comments[k].bot /\ comments[k].finding = f
        BY <2>2, InPosted
      <3> QED BY <1>3, <1>4, <3>1, InPosted
    <2>3. ASSUME NEW i \in inline[r] PROVE At(r, i) \in Posted'
      BY <1>3, InPosted
    <2> QED BY <2>1, <2>2, <2>3
  <1>6. ASSUME CommentsDiffer,
               \A i \in inline[r] : At(r, i) \notin Posted,
               \A i, j \in inline[r] : At(r, i) = At(r, j) => i = j,
               NEW k \in DOMAIN comments', NEW l \in DOMAIN comments',
               comments'[k].bot, comments'[l].bot, comments'[k].finding = comments'[l].finding
        PROVE  k = l
    <2>1. CASE k \in DOMAIN comments /\ l \in DOMAIN comments
      <3>1. comments'[k] = comments[k] /\ comments'[l] = comments[l]
        BY <1>3, <2>1
      <3> QED BY <1>6, <2>1, <3>1 DEF CommentsDiffer
    <2>2. ASSUME NEW x \in DOMAIN comments, NEW y \in DOMAIN comments' \ DOMAIN comments,
                 comments'[x].bot, comments'[x].finding = comments'[y].finding
          PROVE  FALSE
      <3>1. comments'[x] = comments[x]
        BY <1>3
      <3>2. comments'[x].finding \in Posted
        BY <2>2, <3>1, InPosted
      <3>3. y - m \in 1..n /\ comments'[y].finding = At(r, order[y - m])
        BY <1>3
      <3>4. order[y - m] \in inline[r]
        BY <1>2, <3>3
      <3>5. At(r, order[y - m]) \notin Posted
        BY <1>6, <3>4
      <3> QED BY <2>2, <3>2, <3>3, <3>5
    <2>3. CASE k \notin DOMAIN comments /\ l \notin DOMAIN comments
      <3>0. /\ k \in DOMAIN comments' \ DOMAIN comments
            /\ l \in DOMAIN comments' \ DOMAIN comments
        BY <1>6, <2>3
      <3>1. k - m \in 1..n /\ l - m \in 1..n /\ At(r, order[k - m]) = At(r, order[l - m])
        <4>1. k - m \in 1..n /\ comments'[k].finding = At(r, order[k - m])
          BY <1>3, <3>0
        <4>2. l - m \in 1..n /\ comments'[l].finding = At(r, order[l - m])
          BY <1>3, <3>0
        <4> QED BY <1>6, <4>1, <4>2
      <3>2. k - m = l - m
        BY <1>2, <1>6, <3>1
      <3> QED BY <1>2, <1>3, <3>2
    <2> QED BY <1>6, <2>1, <2>2, <2>3
  <1>7. /\ CommentsDiffer
        /\ \A i \in inline[r] : At(r, i) \notin Posted
        /\ \A i, j \in inline[r] : At(r, i) = At(r, j) => i = j
        => CommentsDiffer'
    BY <1>6 DEF CommentsDiffer
  <1> QED BY <1>5, <1>7

(* A written summary is the bot's.                                         *)
LEMMA SummarySays ==
    ASSUME Typed, NEW r \in Runs, WriteSummary(r), OneOurs, FreshAt(r)
    PROVE  /\ OneOurs'
           /\ \E k \in Ours' : summaries'[k].body = Body(r)
  <1>1. /\ pc[r] = "write" /\ target[r] \in Nat
        /\ IF target[r] = 0 THEN Ours = {} ELSE target[r] \in Ours
    BY DEF WriteSummary, FreshAt, Typed
  <1>2. CASE target[r] = 0
    <2>1. \A k \in Ours' : k = Len(summaries) + 1
      BY <1>1, <1>2, WriteFacts, InPosted
    <2>2. Len(summaries) + 1 \in Ours'
      BY <1>2, WriteFacts, InPosted
    <2> QED BY <1>2, <2>1, <2>2, WriteFacts DEF OneOurs
  <1>3. CASE target[r] # 0
    <2>1. DOMAIN summaries' = DOMAIN summaries
      BY <1>3, WriteFacts
    <2>2. \A k : k \in Ours' <=> k \in Ours
      BY <2>1, WriteFacts, InPosted
    <2>3. target[r] \in Ours' /\ summaries'[target[r]].body = Body(r)
      BY <1>1, <1>3, <2>2, WriteFacts, InPosted
    <2> QED BY <2>2, <2>3 DEF OneOurs
  <1> QED BY <1>2, <1>3

---------------------------------------------------------------------------
(* In a concurrency group a step is that of the only run.                  *)
LEMMA ActsAlone ==
    ASSUME Serial, Typed, Alone, NEW r \in Runs, Step(r)
    PROVE  /\ \A q \in Runs \ {r} : ~Active(q) /\ ~Active(q)'
           /\ Alone'
  <1>1. Begin(r) \/ Active(r)
    BY DEF Step, Active, Over, PullFiles, MakePlan, CreateReview, ReviewPosted, DemoteInline,
           FindSummary, WriteSummary, SummaryWritten, Fail
  <1>2. \A q \in Runs \ {r} : ~Active(q)
    BY <1>1 DEF Begin, Alone
  <1>3. \A q \in Runs \ {r} : pc'[q] = pc[q]
    BY OthersStay DEF Still
  <1>4. \A q \in Runs \ {r} : ~Active(q)'
    BY <1>2, <1>3 DEF Active
  <1> QED BY <1>2, <1>4 DEF Alone

LEMMA NextOnce == ASSUME Serial PROVE Typed /\ Once /\ [Next]_vars => Once'
  <1> SUFFICES ASSUME Typed, Once, [Next]_vars PROVE Once'
    OBVIOUS
  <1>1. Alone /\ CommentsDiffer /\ OneOurs /\ \A r \in Runs : FreshAt(r)
    BY DEF Once
  <1>2. CASE ForeignComment
    <2>1. UNCHANGED <<pc, at, inline, target>>
      BY <1>2 DEF ForeignComment, plan
    <2>2. CommentsDiffer' /\ OneOurs' /\ \A r \in Runs : FreshAt(r)'
      BY <1>1, <1>2, <2>1, ForeignSays DEF OneOurs, FreshAt, At
    <2>3. Alone'
      BY <1>1, <2>1 DEF Alone, Active
    <2> QED BY <2>2, <2>3 DEF Once
  <1>3. CASE Push \/ UNCHANGED vars
    <2>1. UNCHANGED <<comments, summaries, pc, at, inline, target>>
      BY <1>3 DEF Push, vars, plan
    <2> QED BY <1>1, <2>1 DEF Once, Alone, Active, CommentsDiffer, OneOurs, Ours, FreshAt, At, Posted
  <1>4. ASSUME NEW r \in Runs, Step(r)
        PROVE  Once'
    <2>1. Alone' /\ \A q \in Runs \ {r} : pc'[q] \in Over \cup {"new"}
      BY <1>1, <1>4, ActsAlone DEF Active
    <2>2. \A q \in Runs \ {r} : FreshAt(q)'
      BY <2>1 DEF FreshAt, Over
    <2>3. CASE CreateReview(r)
      <3>1. /\ pc[r] = "review" /\ pc'[r] \in {"posted", "unresolved"}
            /\ UNCHANGED summaries
            /\ comments' = comments \o Created(r) \/ comments' = comments
        BY <2>3 DEF CreateReview, Goto, Created, Typed
      <3>2. CommentsDiffer'
        <4>1. CASE comments' = comments
          BY <1>1, <4>1 DEF CommentsDiffer
        <4>2. CASE comments' = comments \o Created(r)
          BY <1>1, <3>1, <4>2, ReviewSays DEF FreshAt
        <4> QED BY <3>1, <4>1, <4>2
      <3>3. FreshAt(r)' /\ OneOurs'
        BY <1>1, <3>1 DEF FreshAt, OneOurs, Ours
      <3> QED BY <2>1, <2>2, <3>2, <3>3 DEF Once
    <2>4. CASE WriteSummary(r)
      <3>1. pc'[r] = "written" /\ UNCHANGED comments
        BY <2>4 DEF WriteSummary, Goto, Typed
      <3>2. CommentsDiffer' /\ OneOurs' /\ FreshAt(r)'
        BY <1>1, <2>4, <3>1, SummarySays DEF CommentsDiffer, FreshAt
      <3> QED BY <2>1, <2>2, <3>2 DEF Once
    <2>5. CASE MakePlan(r)
      <3>1. /\ pc'[r] \in {"review", "summary"} /\ inline'[r] = Inline(Report[at[r]], diff[r])
            /\ UNCHANGED <<comments, summaries, at>>
        BY <2>5 DEF MakePlan, Goto, github, Typed
      <3>2. /\ Inline(Report[at[r]], diff[r]) \subseteq Fresh(Report[at[r]])
            /\ DOMAIN Report[at[r]] \subseteq Nat \ {0}
        BY PlanFacts, ReportFacts DEF Typed
      <3>3. /\ \A i \in Fresh(Report[at[r]]) : At(r, i) \notin Posted /\ i \in Nat \ {0}
            /\ \A i \in Fresh(Report[at[r]]) : \A j \in 1..(i - 1) : At(r, j) # At(r, i)
        BY <3>2 DEF Fresh, At
      <3>4. ASSUME NEW i \in Fresh(Report[at[r]]), NEW j \in Fresh(Report[at[r]]), At(r, i) = At(r, j)
            PROVE  i = j
        <4>1. i \in Nat \ {0} /\ j \in Nat \ {0} /\ i \notin 1..(j - 1) /\ j \notin 1..(i - 1)
          BY <3>3, <3>4
        <4> QED BY <4>1
      <3>5. FreshAt(r)'
        <4>1. \A i \in inline'[r] : At(r, i)' = At(r, i) /\ i \in Fresh(Report[at[r]])
          BY <3>1, <3>2 DEF At
        <4>2. Posted' = Posted
          BY <3>1 DEF Posted
        <4> QED BY <3>1, <3>3, <3>4, <4>1, <4>2 DEF FreshAt
      <3> QED BY <1>1, <2>1, <2>2, <3>1, <3>5 DEF Once, CommentsDiffer, OneOurs, Ours
    <2>6. CASE FindSummary(r)
      <3>1. /\ pc'[r] \in {"write", "done"} /\ target'[r] = First
            /\ UNCHANGED <<comments, summaries>>
        BY <2>6 DEF FindSummary, Goto, github, Typed, First
      <3>2. FreshAt(r)'
        BY <3>1, FirstFacts DEF FreshAt, Ours
      <3> QED BY <1>1, <2>1, <2>2, <3>1, <3>2 DEF Once, CommentsDiffer, OneOurs, Ours
    <2>7. CASE Begin(r) \/ PullFiles(r) \/ ReviewPosted(r) \/ DemoteInline(r)
               \/ SummaryWritten(r) \/ Fail(r)
      <3>1. /\ pc'[r] \in {"files", "comments", "summary", "done", "failed"}
            /\ UNCHANGED <<comments, summaries>>
        BY <2>7 DEF Begin, PullFiles, ReviewPosted, DemoteInline, SummaryWritten, Fail, Goto,
                    github, Typed
      <3>2. FreshAt(r)'
        BY <3>1 DEF FreshAt
      <3> QED BY <1>1, <2>1, <2>2, <3>1, <3>2 DEF Once, CommentsDiffer, OneOurs, Ours
    <2> QED BY <1>4, <2>3, <2>4, <2>5, <2>6, <2>7 DEF Step
  <1>5. ForeignComment \/ Push \/ UNCHANGED vars \/ \E r \in Runs : Step(r)
    BY DEF Next, Step
  <1> QED BY <1>2, <1>3, <1>4, <1>5

LEMMA NextKept == ASSUME Serial PROVE Typed /\ Once /\ Kept /\ [Next]_vars => Kept'
  <1> SUFFICES ASSUME Typed, Once, Kept, [Next]_vars, NEW r \in Runs
               PROVE  KeptAt(r)'
    BY DEF Kept
  <1>1. KeptAt(r) /\ Alone /\ OneOurs /\ FreshAt(r) /\ at[r] \in Heads
    BY DEF Kept, Once, Typed
  <1>2. CASE ForeignComment
    <2>1. UNCHANGED <<pc, at, inline, listed, already>>
      BY <1>2 DEF ForeignComment, plan
    <2>2. Body(r)' = Body(r) /\ \A f : Named(r, f)' <=> Named(r, f)
      BY <2>1 DEF Body, Fitting, Before, Named, At
    <2>3. (\E k \in Ours : summaries[k].body = Body(r)) => \E k \in Ours' : summaries'[k].body = Body(r)
      BY <1>2, ForeignSays
    <2>4. \A f : f \in Posted' <=> f \in Posted
      BY <1>2, ForeignSays
    <2> QED BY <1>1, <2>1, <2>2, <2>3, <2>4 DEF KeptAt, At
  <1>3. CASE Push \/ UNCHANGED vars
    <2>1. UNCHANGED <<comments, summaries, pc, at, inline, listed, already>>
      BY <1>3 DEF Push, vars, plan
    <2>2. /\ Body(r)' = Body(r) /\ \A f : Named(r, f)' <=> Named(r, f)
          /\ Posted' = Posted /\ Ours' = Ours
      BY <2>1 DEF Body, Fitting, Before, Named, At, Posted, Ours
    <2> QED BY <1>1, <2>1, <2>2 DEF KeptAt, At
  <1>4. ASSUME NEW q \in Runs, Step(q), q # r
        PROVE  KeptAt(r)'
    BY <1>1, <1>4, ActsAlone DEF KeptAt, Active, Over
  <1>5. CASE MakePlan(r)
    <2> DEFINE report == Report[at[r]]
    <2>1. /\ pc'[r] = IF Inline(report, diff[r]) = {} THEN "summary" ELSE "review"
          /\ inline'[r] = Inline(report, diff[r]) /\ listed'[r] = Listed(report, diff[r])
          /\ UNCHANGED <<comments, at>>
      BY <1>5 DEF MakePlan, Goto, github, Typed
    <2>2. \A i \in Fresh(report) \ Inline(report, diff[r]) : Named(r, At(r, i))'
      <3>1. \A i \in Fresh(report) \ Inline(report, diff[r]) :
              <<i, Reason(report[i], diff[r])>> \in listed'[r]
        BY <2>1 DEF Listed
      <3> QED BY <2>1, <3>1 DEF Named, At
    <2>3. ASSUME NEW p \in DOMAIN report
          PROVE  \/ At(r, p) \in Posted
                 \/ Named(r, At(r, p))'
                 \/ \E i \in Inline(report, diff[r]) : At(r, i) = At(r, p)
      <3>1. At(r, p) \notin Posted => \E i \in Fresh(report) : At(r, i) = At(r, p)
        BY <1>1, FreshOrPosted DEF At
      <3>2. ASSUME NEW i \in Fresh(report) \ Inline(report, diff[r]), At(r, i) = At(r, p)
            PROVE  Named(r, At(r, p))'
        <4>1. At(r, i)' = At(r, p)'
          BY <2>1, <3>2 DEF At
        <4> QED BY <2>2, <4>1
      <3> QED BY <3>1, <3>2
    <2>4. Posted' = Posted /\ \A p : At(r, p)' = At(r, p)
      BY <2>1 DEF Posted, At
    <2> HIDE DEF report
    <2> QED BY <2>1, <2>3, <2>4 DEF KeptAt, report
  <1>6. CASE CreateReview(r)
    <2>1. /\ pc[r] = "review" /\ UNCHANGED <<at, listed, inline>>
          /\ \/ pc'[r] = "posted" /\ comments' = comments \o Created(r)
             \/ pc'[r] = "unresolved" /\ comments' = comments
      BY <1>6 DEF CreateReview, Goto, Created, plan, Typed
    <2>2. \A p : At(r, p)' = At(r, p) /\ (Named(r, At(r, p))' <=> Named(r, At(r, p)))
      BY <2>1 DEF At, Named
    <2>3. CASE pc'[r] = "posted"
      <3>1. \A f : f \in Posted' <=> f \in Posted \/ \E i \in inline[r] : At(r, i) = f
        BY <2>1, <2>3, ReviewSays
      <3> QED BY <1>1, <2>1, <2>2, <2>3, <3>1 DEF KeptAt
    <2>4. CASE pc'[r] = "unresolved"
      <3>1. Posted' = Posted
        BY <2>1, <2>4 DEF Posted
      <3> QED BY <1>1, <2>1, <2>2, <2>4, <3>1 DEF KeptAt
    <2> QED BY <2>1, <2>3, <2>4
  <1>7. CASE DemoteInline(r)
    <2>1. /\ pc[r] = "unresolved" /\ pc'[r] = "summary" /\ UNCHANGED <<comments, at>>
          /\ listed'[r] = listed[r] \cup (inline[r] \X {"Rejected"})
      BY <1>7 DEF DemoteInline, Goto, github, Typed
    <2>2. \A f : Named(r, f) => Named(r, f)'
      BY <2>1 DEF Named, At
    <2>3. \A i \in inline[r] : Named(r, At(r, i))'
      <3>1. \A i \in inline[r] : <<i, "Rejected">> \in listed'[r]
        BY <2>1
      <3> QED BY <2>1, <3>1 DEF Named, At
    <2>4. Posted' = Posted /\ \A p : At(r, p)' = At(r, p)
      BY <2>1 DEF Posted, At
    <2> QED BY <1>1, <2>1, <2>2, <2>3, <2>4 DEF KeptAt
  <1>8. CASE ReviewPosted(r) \/ FindSummary(r)
    <2>1. /\ pc[r] \in {"posted", "summary"} /\ pc'[r] \in {"summary", "write", "done"}
          /\ UNCHANGED <<comments, at, listed>>
      BY <1>8 DEF ReviewPosted, FindSummary, Goto, github, plan, Typed
    <2>2. /\ \A p : At(r, p)' = At(r, p) /\ (Named(r, At(r, p))' <=> Named(r, At(r, p)))
          /\ Posted' = Posted
      BY <2>1 DEF At, Named, Posted
    <2> QED BY <1>1, <2>1, <2>2 DEF KeptAt
  <1>9. CASE WriteSummary(r)
    <2>1. /\ pc[r] = "write" /\ pc'[r] = "written"
          /\ UNCHANGED <<comments, at, listed, inline, already>>
      BY <1>9 DEF WriteSummary, Goto, plan, Typed
    <2>2. /\ \A p : At(r, p)' = At(r, p) /\ (Named(r, At(r, p))' <=> Named(r, At(r, p)))
          /\ Posted' = Posted /\ Body(r)' = Body(r)
      BY <2>1 DEF At, Named, Posted, Body, Fitting, Before
    <2>3. \E k \in Ours' : summaries'[k].body = Body(r)
      BY <1>1, <1>9, SummarySays
    <2> QED BY <1>1, <2>1, <2>2, <2>3 DEF KeptAt
  <1>10. CASE Begin(r) \/ PullFiles(r) \/ SummaryWritten(r) \/ Fail(r)
    <2>1. pc'[r] \in {"files", "comments", "done", "failed"}
      BY <1>10 DEF Begin, PullFiles, SummaryWritten, Fail, Goto, Typed
    <2> QED BY <2>1 DEF KeptAt
  <1>11. ForeignComment \/ Push \/ UNCHANGED vars \/ \E q \in Runs : Step(q)
    BY DEF Next, Step
  <1> QED BY <1>2, <1>3, <1>4, <1>5, <1>6, <1>7, <1>8, <1>9, <1>10, <1>11 DEF Step

---------------------------------------------------------------------------
LEMMA InitOnce == Init => Once /\ Kept
  <1> SUFFICES ASSUME Init PROVE Once /\ Kept
    OBVIOUS
  <1>1. /\ \A r \in Runs : pc[r] = "new"
        /\ DOMAIN comments = {} /\ DOMAIN summaries = {}
    BY DEF Init
  <1>2. \A r \in Runs : FreshAt(r) /\ KeptAt(r)
    BY <1>1 DEF FreshAt, KeptAt
  <1> QED BY <1>1, <1>2 DEF Once, Kept, Alone, Active, CommentsDiffer, OneOurs, Ours

THEOREM OnceInvariance == ASSUME Serial PROVE Spec => [](Typed /\ Once /\ Kept)
  <1>1. Init => Typed /\ Once /\ Kept
    BY InitTyped, InitOnce
  <1>2. Typed /\ Once /\ Kept /\ [Next]_vars => (Typed /\ Once /\ Kept)'
    BY NextTyped, NextOnce, NextKept
  <1> QED BY <1>1, <1>2, PTL DEF Spec

(* A set all of whose elements are the same has at most one.               *)
LEMMA AtMostOne ==
    ASSUME NEW S, \A k, l \in S : k = l
    PROVE  Cardinality(S) <= 1
  <1>1. CASE S = {}
    BY <1>1, FS_EmptySet
  <1>2. ASSUME NEW k \in S
        PROVE  Cardinality(S) <= 1
    <2>1. S = {k}
      BY <1>2
    <2> QED BY <2>1, FS_Singleton
  <1> QED BY <1>1, <1>2

(* README.md "Re-runs never repeat a comment" (publish.rs publish): however *)
(* runs of a concurrency group fail and are repeated, the bot comments on a *)
(* finding at most once and has at most one summary.                        *)
THEOREM SaysOnce == ASSUME Serial PROVE Spec => []SaidOnce
  <1>1. Typed /\ Once => SaidOnce
    <2> SUFFICES ASSUME Typed, Once PROVE SaidOnce
      OBVIOUS
    <2>1. \A f \in Findings : \A k, l \in ByBot(f) : k = l
      BY DEF Once, CommentsDiffer, ByBot
    <2>2. \A k, l \in Ours : k = l
      BY DEF Once, OneOurs
    <2> QED BY <2>1, <2>2, AtMostOne, TypedOK DEF SaidOnce, PostedOnce, OneSummary
  <1> QED BY <1>1, OnceInvariance, PTL

(* A run that succeeds has lost no finding (publish.rs publish and          *)
(* demote_inline, domain/github_review.rs plan and summary_body): each one  *)
(* is a comment of the bot's, or in its summary, or counted there.          *)
THEOREM LosesNothing == ASSUME Serial PROVE Spec => NothingLost
  <1> DEFINE Told == \A r \in Runs : pc[r] # "done" /\ pc'[r] = "done" =>
                       \A f \in RangeOf(Report[at[r]]) : Shown(r, f)'
  <1>1. Typed /\ Once /\ Kept /\ [Next]_vars => [Told]_vars
    <2> SUFFICES ASSUME Typed, Kept, Next, NEW r \in Runs, pc[r] # "done", pc'[r] = "done",
                        NEW f \in RangeOf(Report[at[r]])
                 PROVE  Shown(r, f)'
      OBVIOUS
    <2>1. SummaryWritten(r) \/ (FindSummary(r) /\ First # 0 /\ summaries[First].body = Body(r))
      <3>1. pc' # pc /\ ~Push /\ ~ForeignComment
        BY DEF Push, ForeignComment
      <3>2. PICK q \in Runs : Step(q)
        BY <3>1 DEF Next, Step
      <3>3. q = r
        BY <3>2, OthersStay DEF Still
      <3> QED BY <3>2, <3>3 DEF Step, Begin, PullFiles, MakePlan, CreateReview, ReviewPosted,
                 DemoteInline, FindSummary, WriteSummary, SummaryWritten, Fail, Goto, First, Typed
    <2>2. /\ pc[r] \in {"summary", "written"}
          /\ UNCHANGED <<comments, summaries, at>>
      BY <2>1 DEF SummaryWritten, FindSummary, github
    <2>3. \E k \in Ours : summaries[k].body = Body(r)
      BY <2>1, FirstFacts DEF SummaryWritten, Kept, KeptAt
    <2>4. f \in Posted \/ Named(r, f)
      BY <2>2 DEF Kept, KeptAt, RangeOf, At
    <2>5. f \in Posted => ByBot(f) # {}
      BY InPosted DEF ByBot
    <2>6. Named(r, f) => \E k \in Ours : /\ summaries[k].body.head = at[r]
                                         /\ \/ \E e \in summaries[k].body.listed : e[1] = f
                                            \/ summaries[k].body.more + summaries[k].body.omitted > 0
      BY <2>3, BodyFacts
    <2>7. Shown(r, f)
      BY <2>4, <2>5, <2>6 DEF Shown
    <2> QED BY <2>2, <2>7 DEF Shown, ByBot, Ours
  <1>2. NothingLost <=> [][Told]_vars
    BY PTL DEF NothingLost
  <1> QED BY <1>1, <1>2, OnceInvariance, PTL DEF Spec
=============================================================================
