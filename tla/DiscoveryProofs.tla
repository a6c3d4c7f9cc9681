--------------------------- MODULE DiscoveryProofs ---------------------------
(***************************************************************************)
(* What a review reads and what its report says of it, for every checkout, *)
(* every repository and every index directory.                             *)
(*                                                                         *)
(* Shape is where a review is and what it has by then.  Read is what the   *)
(* texts it has read were, and OwnTexts that none is another path's.       *)
(* FoundSoFar is what it has filed while it is steady: while what it is to *)
(* report holds still, or was moved once and is again as it was found;     *)
(* ExactChanges follows.  Scanned and Held say the same of a scan, and     *)
(* Claimed what a later move costs, from which CleanClaims follows.        *)
(***************************************************************************)
EXTENDS Discovery, FiniteSetTheorems, FunctionTheorems, SequenceTheorems, TLAPS

Known == ToSet(PathOrder)

\* Whatever is in a sequence, appending keeps it one.
LEMMA AppendAny ==
    ASSUME NEW s, s \in Seq(ToSet(s)), NEW e
    PROVE  /\ Append(s, e) \in Seq(ToSet(Append(s, e)))
           /\ Len(s) \in Nat /\ DOMAIN s = 1..Len(s)
           /\ Len(Append(s, e)) = Len(s) + 1
           /\ DOMAIN Append(s, e) = 1..(Len(s) + 1)
           /\ \A i \in DOMAIN s : Append(s, e)[i] = s[i]
           /\ Append(s, e)[Len(s) + 1] = e
           /\ ToSet(Append(s, e)) = ToSet(s) \cup {e}
  <1> DEFINE S == ToSet(s) \cup {e}
  <1>1. s \in Seq(S) /\ e \in S
    <2>1. Len(s) \in Nat /\ s \in [1..Len(s) -> ToSet(s)]
      BY LenProperties
    <2> QED BY <2>1
  <1>2. /\ Len(s) \in Nat /\ DOMAIN s = 1..Len(s)
        /\ Append(s, e) \in Seq(S)
        /\ Len(Append(s, e)) = Len(s) + 1
        /\ DOMAIN Append(s, e) = 1..(Len(s) + 1)
        /\ \A i \in 1..Len(s) : Append(s, e)[i] = s[i]
        /\ Append(s, e)[Len(s) + 1] = e
    BY <1>1, AppendProperties, LenProperties
  <1>3. ToSet(Append(s, e)) = S
    BY <1>2 DEF ToSet
  <1> QED BY <1>2, <1>3

\* A path has one place in the order of paths.
LEMMA RankFacts ==
    /\ IsFiniteSet(Known)
    /\ \A p \in Known : Rank(p) \in DOMAIN PathOrder /\ PathOrder[Rank(p)] = p
    /\ \A p, q \in Known : Rank(p) = Rank(q) => p = q
    /\ \A p \in Known : Rank(p) \in Nat
  <1>1. /\ PathOrder \in Seq(Known) /\ Len(PathOrder) \in Nat /\ DOMAIN PathOrder = 1..Len(PathOrder)
        /\ IsInjective(PathOrder)
    BY PathsAssumption, LenProperties DEF PathsAssumption, Known
  <1>2. \A p \in Known : Rank(p) \in DOMAIN PathOrder /\ PathOrder[Rank(p)] = p
    BY DEF Known, ToSet, Rank
  <1>3. IsFiniteSet(Known)
    <2>1. IsFiniteSet(1..Len(PathOrder))
      BY <1>1, FS_Interval
    <2>2. PathOrder \in Surjection(1..Len(PathOrder), Known)
      BY <1>1 DEF Surjection, Known, ToSet
    <2> QED BY <2>1, <2>2, FS_Surjection
  <1> QED BY <1>1, <1>2, <1>3

(* How many of S come before a path: it numbers S from 0.                  *)
Ahead(S, p) == {q \in S : Rank(q) < Rank(p)}

LEMMA PlacesDistinct ==
    ASSUME NEW S \in SUBSET Known
    PROVE  /\ IsFiniteSet(S) /\ Cardinality(S) \in Nat
           /\ \A p \in S : Cardinality(Ahead(S, p)) \in 0..(Cardinality(S) - 1)
           /\ \A p, q \in S : Cardinality(Ahead(S, p)) = Cardinality(Ahead(S, q)) => p = q
  <1>1. IsFiniteSet(S) /\ Cardinality(S) \in Nat
    BY RankFacts, FS_Subset, FS_CardinalityType
  <1>2. ASSUME NEW T \in SUBSET S, NEW U \in SUBSET T, NEW x \in T, x \notin U
        PROVE  /\ Cardinality(U) \in Nat /\ Cardinality(T) \in Nat
               /\ Cardinality(U) < Cardinality(T)
    <2>1. IsFiniteSet(T)
      BY <1>1, FS_Subset
    <2>2. /\ IsFiniteSet(U) /\ Cardinality(U) <= Cardinality(T)
          /\ Cardinality(T) = Cardinality(U) => T = U
      BY <2>1, FS_Subset
    <2> QED BY <1>2, <2>1, <2>2, FS_CardinalityType
  <1>3. \A p \in S : Rank(p) \in Nat
    BY RankFacts
  <1>4. ASSUME NEW p \in S
        PROVE  Cardinality(Ahead(S, p)) \in 0..(Cardinality(S) - 1)
    <2>1. Ahead(S, p) \subseteq S /\ p \notin Ahead(S, p)
      BY <1>3 DEF Ahead
    <2> QED BY <1>1, <1>2, <2>1
  <1>5. ASSUME NEW p \in S, NEW q \in S, Rank(p) < Rank(q)
        PROVE  Cardinality(Ahead(S, p)) < Cardinality(Ahead(S, q))
    <2>1. /\ Ahead(S, p) \subseteq Ahead(S, q) /\ Ahead(S, q) \subseteq S
          /\ p \in Ahead(S, q) /\ p \notin Ahead(S, p)
      BY <1>3, <1>5 DEF Ahead
    <2> QED BY <1>2, <2>1
  <1>6. ASSUME NEW p \in S, NEW q \in S, Cardinality(Ahead(S, p)) = Cardinality(Ahead(S, q))
        PROVE  p = q
    <2>1. Rank(p) \in Nat /\ Rank(q) \in Nat
      BY <1>3
    <2>2. ~(Rank(p) < Rank(q)) /\ ~(Rank(q) < Rank(p))
      BY <1>4, <1>5, <1>6
    <2>3. Rank(p) = Rank(q)
      BY <2>1, <2>2
    <2> QED BY <2>3, RankFacts
  <1> QED BY <1>1, <1>4, <1>6

(* The list of a set of paths has them all.                                *)
LEMMA SortPathsFacts ==
    ASSUME NEW S \in SUBSET Known
    PROVE  SortPaths(S) \in Seq(Known) /\ ToSet(SortPaths(S)) = S
  <1> DEFINE n == Cardinality(S)
             place == [p \in S |-> Cardinality(Ahead(S, p)) + 1]
             At(k) == CHOOSE p \in S : Cardinality(Ahead(S, p)) = k - 1
  <1>1. IsFiniteSet(S) /\ n \in Nat
    BY PlacesDistinct
  <1>2. SortPaths(S) = [k \in 1..n |-> At(k)]
    BY DEF SortPaths, Sorted, Ahead
  <1>3. place \in [S -> 1..n] /\ \A p \in S : place[p] = Cardinality(Ahead(S, p)) + 1
    <2>1. \A p \in S : Cardinality(Ahead(S, p)) + 1 \in 1..n
      BY <1>1, PlacesDistinct
    <2> QED BY <2>1
  <1>4. \A p \in S : Cardinality(Ahead(S, p)) \in Nat
    BY <1>1, PlacesDistinct
  <1> HIDE DEF place
  <1>5. place \in Injection(S, 1..n)
    BY <1>3, <1>4, PlacesDistinct DEF Injection, IsInjective
  <1>6. IsFiniteSet(1..n) /\ Cardinality(1..n) = n
    <2>1. 1 \in Int /\ n \in Int
      BY <1>1
    <2>2. /\ IsFiniteSet(1..n)
          /\ Cardinality(1..n) = IF 1 > n THEN 0 ELSE n - 1 + 1
      BY <2>1, FS_Interval
    <2> QED BY <1>1, <2>2
  <1>7. place \in Surjection(S, 1..n)
    BY <1>1, <1>5, <1>6, FS_Injection
  <1>8. ASSUME NEW k \in 1..n
        PROVE  At(k) \in S /\ place[At(k)] = k
    <2>1. PICK p \in S : place[p] = k
      BY <1>7 DEF Surjection
    <2>2. Cardinality(Ahead(S, p)) = k - 1
      BY <1>3, <1>4, <2>1
    <2>3. At(k) \in S /\ Cardinality(Ahead(S, At(k))) = k - 1
      BY <2>2
    <2> HIDE DEF At
    <2>4. place[At(k)] = k - 1 + 1
      BY <1>3, <2>3
    <2> QED BY <2>3, <2>4
  <1> HIDE DEF At
  <1>9. ASSUME NEW p \in S PROVE \E k \in 1..n : At(k) = p
    <2>1. place[p] \in 1..n
      BY <1>3
    <2>2. At(place[p]) \in S /\ place[At(place[p])] = place[p]
      BY <1>8, <2>1
    <2>3. At(place[p]) = p
      BY <1>5, <2>2 DEF Injection, IsInjective
    <2> QED BY <2>1, <2>3
  <1>10. SortPaths(S) \in Seq(S)
    BY <1>1, <1>2, <1>8
  <1>11. SortPaths(S) \in Seq(Known)
    <2>1. SortPaths(S) \in [1..n -> Known]
      BY <1>2, <1>8
    <2> QED BY <1>1, <2>1
  <1>12. ToSet(SortPaths(S)) = S
    BY <1>2, <1>8, <1>9 DEF ToSet
  <1> QED BY <1>11, <1>12

---------------------------------------------------------------------------
(* What the developer does to a checkout leaves it one.                    *)

\* A finite set of numbers has a last one.
LEMMA LastOfFinite ==
    ASSUME NEW S \in SUBSET Nat, IsFiniteSet(S), S # {}
    PROVE  Max(S) \in S /\ \A y \in S : Max(S) >= y
  <1> DEFINE Lastless(T) == T # {} /\ \A x \in T : \E y \in T : ~(x >= y)
             sizes == {Cardinality(T) : T \in {U \in SUBSET S : Lastless(U)}}
  <1>1. ASSUME Lastless(S) PROVE FALSE
    <2>1. \A T \in SUBSET S : IsFiniteSet(T) /\ Cardinality(T) \in Nat
      BY FS_Subset, FS_CardinalityType
    <2>2. sizes \subseteq Nat /\ sizes # {}
      BY <1>1, <2>1
    <2>3. PICK n \in sizes : \A m \in sizes : <<m, n>> \notin OpToRel(<, Nat)
      <3> HIDE DEF sizes
      <3> QED BY <2>2, NatLessThanWellFounded, WFMin, Zenon
    <2>4. PICK T \in SUBSET S : Lastless(T) /\ n = Cardinality(T)
      BY <2>3
    <2>5. PICK x \in T : TRUE
      BY <2>4
    <2>6. /\ IsFiniteSet(T \ {x}) /\ Cardinality(T \ {x}) = Cardinality(T) - 1
          /\ Cardinality(T) \in Nat /\ Cardinality(T \ {x}) \in Nat
      BY <2>1, FS_RemoveElement
    <2>7. ASSUME Lastless(T \ {x}) PROVE FALSE
      <3>1. Cardinality(T \ {x}) \in sizes
        BY <2>7
      <3>2. <<Cardinality(T \ {x}), n>> \notin OpToRel(<, Nat)
        BY <2>3, <3>1
      <3> QED BY <2>4, <2>6, <3>2 DEF OpToRel
    <2>8. PICK y \in T : ~(x >= y)
      BY <2>4
    <2>9. x \in Nat /\ y \in Nat /\ y # x /\ y \in T \ {x}
      BY <2>8
    <2>10. PICK m \in T \ {x} : \A z \in T \ {x} : m >= z
      BY <2>7, <2>9
    <2>11. \A z \in T : m >= z
      BY <2>8, <2>9, <2>10
    <2> QED BY <2>4, <2>10, <2>11
  <1>2. \E x \in S : \A y \in S : x >= y
    BY <1>1
  <1> QED BY <1>2 DEF Max

LEMMA FreshInode ==
    ASSUME NEW w, IsCheckout(w)
    PROVE  Fresh(w) \in Nat /\ \A p \in DOMAIN w.work : w.work[p].ino < Fresh(w)
  <1> DEFINE inodes == {w.work[p].ino : p \in DOMAIN w.work}
             at == [p \in DOMAIN w.work |-> w.work[p].ino]
  <1>1. DOMAIN w.work \subseteq Known /\ \A p \in DOMAIN w.work : w.work[p].ino \in Nat
    BY DEF IsCheckout, Known
  <1>2. IsFiniteSet(DOMAIN w.work)
    BY <1>1, RankFacts, FS_Subset
  <1>3. IsFiniteSet(inodes)
    <2>1. at \in Surjection(DOMAIN w.work, inodes)
      BY DEF Surjection
    <2> QED BY <1>2, <2>1, FS_Surjection
  <1>4. IsFiniteSet({0} \cup inodes) /\ {0} \cup inodes \subseteq Nat
    BY <1>1, <1>3, FS_AddElement
  <1>5. Max({0} \cup inodes) \in {0} \cup inodes /\ \A y \in {0} \cup inodes : Max({0} \cup inodes) >= y
    <2> HIDE DEF inodes
    <2> QED BY <1>4, LastOfFinite
  <1>6. Max({0} \cup inodes) \in Nat /\ \A p \in DOMAIN w.work : Max({0} \cup inodes) >= w.work[p].ino
    BY <1>1, <1>5
  <1> HIDE DEF inodes
  <1>7. Fresh(w) = Max({0} \cup inodes) + 1
    BY DEF Fresh, inodes
  <1> QED BY <1>1, <1>6, <1>7

\* Where the files of w2 come from: each is one that was there, perhaps under
\* another path, or a new one, or the one of its path written to.
ComesFrom(w, w2) ==
    \A q \in DOMAIN w2.work :
        \/ \E p \in DOMAIN w.work : w2.work[q] = w.work[p]
        \/ \A p \in DOMAIN w.work : w.work[p].ino # w2.work[q].ino
        \/ q \in DOMAIN w.work /\ w2.work[q].ino = w.work[q].ino

IsFile(r) == r = [ino |-> r.ino, text |-> r.text]

Parts(w) ==
    /\ w = [head |-> w.head, ref |-> w.ref, tracked |-> w.tracked, work |-> w.work]
    /\ w.head \in Commits \cup {Unborn} /\ w.tracked \in SUBSET Known
    /\ DOMAIN w.work \subseteq Known
    /\ w.work = [q \in DOMAIN w.work |-> w.work[q]]
    /\ \A q \in DOMAIN w.work : IsFile(w.work[q]) /\ w.work[q].ino \in Nat
    /\ \A q, s \in DOMAIN w.work : w.work[q].ino = w.work[s].ino => q = s

\* A checkout, part by part.
LEMMA CheckoutFacts == ASSUME NEW w, IsCheckout(w) PROVE Parts(w)
  <1> DEFINE f == w.work
  <1>1. f = [p \in DOMAIN f |-> [ino |-> f[p].ino, text |-> f[p].text]]
    BY DEF IsCheckout
  <1> HIDE DEF f
  <1>2. \A q \in DOMAIN f : f[q] = [ino |-> f[q].ino, text |-> f[q].text]
    BY <1>1
  <1>3. \A q \in DOMAIN f : IsFile(f[q])
    BY <1>2 DEF IsFile
  <1>4. f = [q \in DOMAIN f |-> f[q]]
    BY <1>1
  <1> QED BY <1>3, <1>4 DEF IsCheckout, Known, f, Parts

LEMMA CheckoutOf ==
    ASSUME NEW h \in Commits \cup {Unborn}, NEW r, NEW t \in SUBSET Known, NEW f,
           DOMAIN f \subseteq Known,
           f = [p \in DOMAIN f |-> f[p]],
           \A p \in DOMAIN f : IsFile(f[p]) /\ f[p].ino \in Nat,
           \A p, q \in DOMAIN f : f[p].ino = f[q].ino => p = q
    PROVE  IsCheckout([head |-> h, ref |-> r, tracked |-> t, work |-> f])
  <1>1. f = [p \in DOMAIN f |-> [ino |-> f[p].ino, text |-> f[p].text]]
    BY DEF IsFile
  <1> QED BY <1>1 DEF IsCheckout, Known

\* A step that only touches the files.
LEMMA NewWork ==
    ASSUME NEW w, IsCheckout(w), NEW f, DOMAIN f \subseteq Known,
           f = [p \in DOMAIN f |-> f[p]],
           \A p \in DOMAIN f : IsFile(f[p]) /\ f[p].ino \in Nat,
           \A p, q \in DOMAIN f : f[p].ino = f[q].ino => p = q
    PROVE  IsCheckout([w EXCEPT !.work = f]) /\ [w EXCEPT !.work = f].work = f
  <1>1. [w EXCEPT !.work = f] = [head |-> w.head, ref |-> w.ref, tracked |-> w.tracked, work |-> f]
    BY DEF IsCheckout
  <1>2. w.head \in Commits \cup {Unborn} /\ w.tracked \in SUBSET Known
    BY DEF IsCheckout, Known
  <1> QED BY <1>1, <1>2, CheckoutOf

\* The steps of the developer, one kind at a time.
LEMMA EditSteps ==
    ASSUME NEW w, IsCheckout(w), NEW w2 \in Edits(w)
    PROVE  IsCheckout(w2) /\ ComesFrom(w, w2)
  <1>0. Parts(w)
    BY CheckoutFacts
  <1>1. PICK p \in DOMAIN w.work, t \in Written : w2 = [w EXCEPT !.work[p].text = t]
    BY DEF Edits
  <1> DEFINE f == [w.work EXCEPT ![p].text = t]
             file == [w.work[p] EXCEPT !.text = t]
  <1>2. w2 = [w EXCEPT !.work = f]
    BY <1>1
  <1>3. f = [w.work EXCEPT ![p] = file]
    OBVIOUS
  <1> HIDE DEF f
  <1>4. IsFile(file) /\ file.ino = w.work[p].ino
    <2> DEFINE r == w.work[p]
    <2>1. r = [ino |-> r.ino, text |-> r.text]
      BY <1>0 DEF Parts, IsFile
    <2> HIDE DEF r
    <2>2. [r EXCEPT !.text = t] = [ino |-> r.ino, text |-> t]
      BY <2>1
    <2>3. file = [ino |-> r.ino, text |-> t]
      BY <2>2 DEF r
    <2> HIDE DEF file
    <2>4. file.ino = r.ino /\ file.text = t
      BY <2>3
    <2> QED BY <2>3, <2>4 DEF IsFile, r
  <1> HIDE DEF file
  <1>5. /\ DOMAIN f = DOMAIN w.work /\ f[p] = file
        /\ \A q \in DOMAIN w.work \ {p} : f[q] = w.work[q]
        /\ f = [q \in DOMAIN f |-> f[q]]
    BY <1>0, <1>3 DEF Parts
  <1>6. /\ \A q \in DOMAIN f : IsFile(f[q]) /\ f[q].ino \in Nat /\ f[q].ino = w.work[q].ino
        /\ \A q, s \in DOMAIN f : f[q].ino = f[s].ino => q = s
        /\ DOMAIN f \subseteq Known
    BY <1>0, <1>4, <1>5 DEF Parts
  <1>7. IsCheckout(w2) /\ w2.work = f
    BY <1>2, <1>5, <1>6, NewWork
  <1> QED BY <1>5, <1>6, <1>7 DEF ComesFrom

LEMMA SaveSteps ==
    ASSUME NEW w, IsCheckout(w), NEW w2 \in Saves(w, MovePaths)
    PROVE  IsCheckout(w2) /\ ComesFrom(w, w2)
  <1>0. Parts(w)
    BY CheckoutFacts
  <1>1. PICK p \in MovePaths, t \in Written :
          w2 = [w EXCEPT !.work = Put(@, p, [ino |-> Fresh(w), text |-> t])]
    BY DEF Saves
  <1> DEFINE file == [ino |-> Fresh(w), text |-> t]
             f == Put(w.work, p, file)
  <1>2. w2 = [w EXCEPT !.work = f]
    BY <1>1
  <1>3. p \in Known
    BY DiscoveryAssumption DEF DiscoveryAssumption, Known
  <1>4. /\ Fresh(w) \in Nat
        /\ \A q \in DOMAIN w.work : w.work[q].ino \in Nat /\ w.work[q].ino # Fresh(w)
    BY <1>0, FreshInode DEF Parts
  <1>5. IsFile(file) /\ file.ino = Fresh(w)
    BY DEF IsFile
  <1> HIDE DEF file
  <1>6. /\ DOMAIN f = DOMAIN w.work \cup {p} /\ f[p] = file
        /\ \A q \in DOMAIN f \ {p} : q \in DOMAIN w.work /\ f[q] = w.work[q]
        /\ f = [q \in DOMAIN f |-> f[q]]
    BY DEF Put
  <1> HIDE DEF f
  <1>7. /\ \A q \in DOMAIN f : IsFile(f[q]) /\ f[q].ino \in Nat
        /\ DOMAIN f \subseteq Known
    BY <1>0, <1>3, <1>4, <1>5, <1>6 DEF Parts
  <1>8. \A q, s \in DOMAIN f : f[q].ino = f[s].ino => q = s
    BY <1>0, <1>4, <1>5, <1>6 DEF Parts
  <1>9. IsCheckout(w2) /\ w2.work = f
    BY <1>2, <1>6, <1>7, <1>8, NewWork
  <1> QED BY <1>4, <1>5, <1>6, <1>9 DEF ComesFrom

\* Files that are only removed, or known under another path.
LEMMA Rearranged ==
    ASSUME NEW w, IsCheckout(w), NEW f, NEW from,
           DOMAIN f \subseteq Known, f = [q \in DOMAIN f |-> f[q]],
           \A q \in DOMAIN f : from[q] \in DOMAIN w.work /\ f[q] = w.work[from[q]],
           \A q, s \in DOMAIN f : from[q] = from[s] => q = s
    PROVE  IsCheckout([w EXCEPT !.work = f]) /\ ComesFrom(w, [w EXCEPT !.work = f])
  <1>0. Parts(w)
    BY CheckoutFacts
  <1>1. \A q \in DOMAIN f : IsFile(f[q]) /\ f[q].ino \in Nat
    BY <1>0 DEF Parts
  <1>2. \A q, s \in DOMAIN f : f[q].ino = f[s].ino => q = s
    <2> SUFFICES ASSUME NEW q \in DOMAIN f, NEW s \in DOMAIN f, f[q].ino = f[s].ino PROVE q = s
      OBVIOUS
    <2>1. from[q] = from[s]
      BY <1>0 DEF Parts
    <2> QED BY <2>1
  <1>3. IsCheckout([w EXCEPT !.work = f]) /\ [w EXCEPT !.work = f].work = f
    BY <1>1, <1>2, NewWork
  <1> QED BY <1>3 DEF ComesFrom

LEMMA DeleteSteps ==
    ASSUME NEW w, IsCheckout(w), NEW w2 \in Deletes(w)
    PROVE  IsCheckout(w2) /\ ComesFrom(w, w2)
  <1>0. Parts(w)
    BY CheckoutFacts
  <1>1. PICK p \in DOMAIN w.work :
          w2 = [w EXCEPT !.work = Without(w.work, p)]
    BY DEF Deletes
  <1> DEFINE f == Without(w.work, p)
             from == [q \in DOMAIN f |-> q]
  <1>2. /\ DOMAIN f \subseteq Known /\ f = [q \in DOMAIN f |-> f[q]]
        /\ \A q \in DOMAIN f : from[q] \in DOMAIN w.work /\ f[q] = w.work[from[q]]
        /\ \A q, s \in DOMAIN f : from[q] = from[s] => q = s
    BY <1>0 DEF Parts, Without
  <1> HIDE DEF f, from
  <1>3. IsCheckout([w EXCEPT !.work = f]) /\ ComesFrom(w, [w EXCEPT !.work = f])
    BY <1>2, Rearranged
  <1> QED BY <1>1, <1>3 DEF f

LEMMA MoveSteps ==
    ASSUME NEW w, IsCheckout(w), NEW w2 \in Moves(w, MovePaths)
    PROVE  IsCheckout(w2) /\ ComesFrom(w, w2)
  <1>0. Parts(w)
    BY CheckoutFacts
  <1>1. PICK p \in DOMAIN w.work, to \in MovePaths :
          w2 = [w EXCEPT !.work = Put(Without(w.work, p), to, w.work[p])]
    BY DEF Moves
  <1> DEFINE f == Put(Without(w.work, p), to, w.work[p])
             from == [q \in DOMAIN f |-> IF q = to THEN p ELSE q]
  <1>2. /\ f = [q \in DOMAIN f |-> f[q]] /\ DOMAIN f = (DOMAIN w.work \ {p}) \cup {to}
        /\ \A q \in DOMAIN f : from[q] \in DOMAIN w.work /\ f[q] = w.work[from[q]]
        /\ \A q, s \in DOMAIN f : from[q] = from[s] => q = s
    BY DEF Put, Without
  <1>3. to \in Known
    BY DiscoveryAssumption DEF DiscoveryAssumption, Known
  <1> HIDE DEF f, from
  <1>4. DOMAIN f \subseteq Known
    BY <1>0, <1>2, <1>3 DEF Parts
  <1>5. IsCheckout([w EXCEPT !.work = f]) /\ ComesFrom(w, [w EXCEPT !.work = f])
    BY <1>2, <1>4, Rearranged
  <1> QED BY <1>1, <1>5 DEF f

LEMMA SwapSteps ==
    ASSUME NEW w, IsCheckout(w), NEW w2 \in Swaps(w)
    PROVE  IsCheckout(w2) /\ ComesFrom(w, w2)
  <1>0. Parts(w)
    BY CheckoutFacts
  <1>1. PICK a \in DOMAIN w.work, b \in DOMAIN w.work :
          /\ Rank(a) < Rank(b)
          /\ w2 = [w EXCEPT !.work[a] = w.work[b], !.work[b] = w.work[a]]
    BY DEF Swaps
  <1> DEFINE f == [w.work EXCEPT ![a] = w.work[b], ![b] = w.work[a]]
             from == [q \in DOMAIN f |-> IF q = b THEN a ELSE IF q = a THEN b ELSE q]
  <1>2. w2 = [w EXCEPT !.work = [w.work EXCEPT ![a] = w.work[b], ![b] = w.work[a]]]
    BY <1>0, <1>1 DEF Parts
  <1>3. a # b
    BY <1>0, <1>1, RankFacts DEF Parts
  <1>4. /\ DOMAIN f = DOMAIN w.work /\ f = [q \in DOMAIN f |-> f[q]]
        /\ \A q \in DOMAIN f : from[q] \in DOMAIN w.work /\ f[q] = w.work[from[q]]
        /\ \A q, s \in DOMAIN f : from[q] = from[s] => q = s
    BY <1>0, <1>3 DEF Parts
  <1> HIDE DEF f, from
  <1>5. DOMAIN f \subseteq Known
    BY <1>0, <1>4 DEF Parts
  <1>6. IsCheckout([w EXCEPT !.work = f]) /\ ComesFrom(w, [w EXCEPT !.work = f])
    BY <1>4, <1>5, Rearranged
  <1> QED BY <1>2, <1>6 DEF f

\* The steps that leave the files alone.
LEMMA OtherSteps ==
    ASSUME NEW w, IsCheckout(w),
           NEW w2 \in Adds(w) \cup Unstages(w) \cup CommitsMade(w) \cup RefMoves(w)
    PROVE  IsCheckout(w2) /\ ComesFrom(w, w2)
  <1>1. w = [head |-> w.head, ref |-> w.ref, tracked |-> w.tracked, work |-> w.work]
    BY DEF IsCheckout
  <1>2. /\ w2 = [head |-> w2.head, ref |-> w2.ref, tracked |-> w2.tracked, work |-> w.work]
        /\ w2.head \in {w.head} \cup Commits
        /\ w2.tracked \subseteq w.tracked \cup DOMAIN w.work
    <2>1. CASE w2 \in Adds(w)
      BY <1>1, <2>1 DEF Adds
    <2>2. CASE w2 \in Unstages(w)
      BY <1>1, <2>2 DEF Unstages
    <2>3. CASE w2 \in CommitsMade(w)
      BY <1>1, <2>3 DEF CommitsMade
    <2>4. CASE w2 \in RefMoves(w)
      BY <1>1, <2>4 DEF RefMoves
    <2> QED BY <2>1, <2>2, <2>3, <2>4
  <1>3. w2.work = w.work
    BY <1>2
  <1> QED BY <1>2, <1>3 DEF IsCheckout, ComesFrom

LEMMA CheckoutSteps ==
    ASSUME NEW w, IsCheckout(w), NEW w2 \in Checkouts(w)
    PROVE  IsCheckout(w2) /\ ComesFrom(w, w2)
  <1>0. Parts(w)
    BY CheckoutFacts
  <1> DEFINE f(c) == [p \in (DOMAIN w.work \ w.tracked) \cup DOMAIN Tree[c] |->
                        IF p \in DOMAIN Tree[c] /\ (p \notin w.tracked \/ w.work[p].text # Tree[c][p])
                        THEN [ino |-> Fresh(w) + Rank(p), text |-> Tree[c][p]]
                        ELSE w.work[p]]
  <1>1. PICK c \in Commits :
          /\ w.head # Unborn
          /\ Clean([w EXCEPT !.work = [p \in DOMAIN w.work \ Untracked(w) |-> w.work[p]]])
          /\ w2 = [w EXCEPT !.head = c, !.tracked = DOMAIN Tree[c], !.work = f(c)]
    BY DEF Checkouts
  <1>2. w = [head |-> w.head, ref |-> w.ref, tracked |-> w.tracked, work |-> w.work]
    BY <1>0 DEF Parts
  <1>3. w2 = [head |-> c, ref |-> w.ref, tracked |-> DOMAIN Tree[c], work |-> f(c)]
    BY <1>1, <1>2
  <1>4. DOMAIN Tree[c] \subseteq Known
    BY DiscoveryAssumption DEF DiscoveryAssumption, Known
  \* what is tracked is there, since the checkout shows no change
  <1>5. w.tracked \subseteq DOMAIN w.work
    <2> DEFINE kept == [p \in DOMAIN w.work \ Untracked(w) |-> w.work[p]]
               v == [w EXCEPT !.work = kept]
    <2>1. v.tracked = w.tracked /\ v.head = w.head /\ v.work = kept
      BY <1>2
    <2>2. WorkTexts(v, v.tracked) = TreeOf(v.head) /\ v.tracked = DOMAIN TreeOf(v.head)
      BY <1>1 DEF Clean
    <2>3. DOMAIN WorkTexts(v, v.tracked) = v.tracked \cap DOMAIN v.work
      BY DEF WorkTexts
    <2>4. v.tracked \subseteq DOMAIN v.work
      BY <2>2, <2>3
    <2>5. DOMAIN v.work \subseteq DOMAIN w.work
      BY <2>1
    <2> QED BY <2>1, <2>4, <2>5
  <1> DEFINE g == f(c)
             New(p) == p \in DOMAIN Tree[c] /\ (p \notin w.tracked \/ w.work[p].text # Tree[c][p])
  <1>6. /\ DOMAIN g = (DOMAIN w.work \ w.tracked) \cup DOMAIN Tree[c]
        /\ \A p \in DOMAIN g : New(p) => g[p] = [ino |-> Fresh(w) + Rank(p), text |-> Tree[c][p]]
        /\ \A p \in DOMAIN g : ~New(p) => p \in DOMAIN w.work /\ g[p] = w.work[p]
        /\ g = [p \in DOMAIN g |-> g[p]]
    BY <1>5
  <1> HIDE DEF f, New
  <1>7. /\ Fresh(w) \in Nat /\ \A p \in DOMAIN w.work : w.work[p].ino < Fresh(w)
    BY FreshInode
  <1>8. \A p \in Known : Rank(p) \in Nat
    BY RankFacts
  <1>9. DOMAIN g \subseteq Known
    BY <1>0, <1>4, <1>6 DEF Parts
  <1>10. ASSUME NEW p \in DOMAIN g, New(p)
         PROVE  /\ IsFile(g[p]) /\ g[p].ino = Fresh(w) + Rank(p) /\ Rank(p) \in Nat
                /\ g[p].ino \in Nat /\ \A q \in DOMAIN w.work : w.work[q].ino < g[p].ino
    <2> DEFINE r == [ino |-> Fresh(w) + Rank(p), text |-> Tree[c][p]]
    <2>1. g[p] = r
      BY <1>6, <1>10
    <2>2. IsFile(r) /\ r.ino = Fresh(w) + Rank(p)
      BY DEF IsFile
    <2> HIDE DEF r, g
    <2>3. Rank(p) \in Nat
      BY <1>8, <1>9
    <2>4. \A q \in DOMAIN w.work : w.work[q].ino \in Nat
      BY <1>0 DEF Parts
    <2> QED BY <1>7, <2>1, <2>2, <2>3, <2>4
  <1> HIDE DEF g
  <1>11. ASSUME NEW p \in DOMAIN g, ~New(p)
         PROVE  IsFile(g[p]) /\ g[p].ino \in Nat /\ p \in DOMAIN w.work /\ g[p] = w.work[p]
    BY <1>0, <1>6, <1>11 DEF Parts
  <1>15. ASSUME NEW p \in DOMAIN g, NEW q \in DOMAIN g, g[p].ino = g[q].ino
         PROVE  p = q
    <2>1. CASE New(p) /\ New(q)
      <3>1. Rank(p) = Rank(q)
        BY <1>7, <1>10, <1>15, <2>1
      <3> QED BY <1>9, <3>1, RankFacts
    <2>2. CASE ~New(p) /\ ~New(q)
      BY <1>0, <1>11, <1>15, <2>2 DEF Parts
    <2>3. CASE New(p) /\ ~New(q)
      BY <1>10, <1>11, <1>15, <2>3
    <2>4. CASE ~New(p) /\ New(q)
      BY <1>10, <1>11, <1>15, <2>4
    <2> QED BY <2>1, <2>2, <2>3, <2>4
  <1>12. IsCheckout(w2)
    <2>1. \A p \in DOMAIN g : IsFile(g[p]) /\ g[p].ino \in Nat
      BY <1>10, <1>11
    <2>2. DOMAIN Tree[c] \in SUBSET Known /\ w2 = [head |-> c, ref |-> w.ref, tracked |-> DOMAIN Tree[c], work |-> g]
      BY <1>3, <1>4 DEF g
    <2> QED BY <1>6, <1>9, <1>15, <2>1, <2>2, CheckoutOf
  <1>13. w2.work = g
    BY <1>3 DEF g
  <1>14. \A p \in DOMAIN g : New(p) => \A q \in DOMAIN w.work : w.work[q].ino # g[p].ino
    <2>1. \A q \in DOMAIN w.work : w.work[q].ino \in Nat
      BY <1>0 DEF Parts
    <2> QED BY <1>10, <2>1
  <1>16. \A q \in DOMAIN w2.work :
          \/ \E p \in DOMAIN w.work : w2.work[q] = w.work[p]
          \/ \A p \in DOMAIN w.work : w.work[p].ino # w2.work[q].ino
    BY <1>11, <1>13, <1>14
  <1> QED BY <1>12, <1>16 DEF ComesFrom

\* Whatever the developer does, a file is one that was there, or new, or written to
\* where it is.
LEMMA StepsOfCheckouts ==
    ASSUME IsCheckout(world), NEW w2 \in Steps
    PROVE  IsCheckout(w2) /\ ComesFrom(world, w2)
  BY EditSteps, SaveSteps, DeleteSteps, MoveSteps, SwapSteps, OtherSteps, CheckoutSteps DEF Steps

---------------------------------------------------------------------------
(* Where a review is, and what it has by then.                             *)
Early == Gathering \cup {"pin", "record base", "identify", "clean before"}
Comparing == {"list renames", "list tracked", "list untracked", "list additions"}
Filing == {"next file", "show base", "read", "recheck"}
Sourcing == {"next source", "read source", "recheck source"}
Closed == {"status after", "head after", "report", "done"}
Late == {"list repository", "index"} \cup Sourcing \cup Closed
Unpinned == Gathering \cup {"pin"}
Anonymous == Unpinned \cup {"record base", "identify"}

Types ==
    /\ mode \in {"live", "since", "pinned", "scan"} /\ moves \in Nat
    /\ pc \in Early \cup {"resolve base", "failed"} \cup Comparing \cup Filing \cup Late
    /\ IsCheckout(world) /\ world \in past
    /\ scope \in 1..Len(Scopes)
    /\ bases \in Seq(ToSet(bases))
    /\ todo \in Seq(Known)
    /\ pc \notin Closed \cup {"failed"} => store \in Stores

\* A path is filed once.
FiledOnce ==
    /\ files \in Seq(ToSet(files))
    /\ \A i, j \in DOMAIN files : files[i].path = files[j].path => i = j

Pinning ==
    /\ mode # "pinned" => pinned = Nothing
    /\ (mode = "pinned" /\ pc \in Unpinned) => pinned = Nothing
    /\ (mode = "pinned" /\ pc \notin Unpinned \cup {"failed"}) => pinned \in Commits
    /\ mode = "scan" => pc \notin Comparing \cup Filing \cup {"resolve base"}
    /\ mode = "pinned" => pc \notin Sourcing

Places ==
    /\ pc \in Early => scope = 1 /\ bases = <<>> /\ clean = FALSE
    /\ (pc \in Early \/ mode = "scan") => files = <<>>
    /\ pc \in Early \cup Comparing \cup Filing \cup {"resolve base"} => context = <<>>
    /\ pc = "resolve base" => Len(bases) = scope - 1
    /\ pc \in Comparing \cup Filing => Len(bases) = scope
    /\ (pc \in Late /\ mode # "scan") => Len(bases) = Len(Scopes)
    /\ pc \in {"show base", "read", "recheck", "read source", "recheck source"} => todo # <<>>
    /\ pc \notin Closed \cup {"failed"} => index = Nothing
    /\ report # Nothing => pc = "done"

Commands ==
    /\ pc \in Comparing \cup Filing =>
         /\ git = [base |-> git.base, symbolic |-> git.symbolic, renamed |-> git.renamed,
                   tracked |-> git.tracked, untracked |-> git.untracked, added |-> git.added]
         /\ git.base = bases[scope] /\ git.symbolic = (mode = "live" /\ git.base # Unborn)
    /\ pc \in {"list untracked", "list additions"} \cup Filing => git.tracked \subseteq Known
    /\ pc \in {"list additions"} \cup Filing => git.untracked \subseteq Known

\* While nothing moves, the head is the one that was read; and a review that
\* found it clean finds it so.
Identified ==
    /\ (moves = 0 /\ pc \notin Anonymous \cup {"failed"}) =>
         actual = IF world.head = Unborn THEN Nothing ELSE world.head
    /\ clean => actual = ReviewedHead /\ ReviewedHead # Nothing
    /\ (moves = 0 /\ clean /\ pc # "failed") => Clean(world) /\ world.head = ReviewedHead
    /\ still => clean
    /\ pc = "head after" => still

Shape == Types /\ FiledOnce /\ Pinning /\ Places /\ Commands /\ Identified

\* What a scope has and the new side of a comparison are known paths.
LEMMA KnownPaths ==
    ASSUME Types, Pinning, pc \notin Unpinned \cup {"failed"}
    PROVE  /\ DOMAIN NewFiles \subseteq Known /\ Here \subseteq Known
           /\ world.tracked \subseteq Known /\ Untracked(world) \subseteq Known
  <1>1. Parts(world)
    BY CheckoutFacts DEF Types
  <1>2. DOMAIN NewTree(world, pinned) \subseteq Known
    <2>1. CASE pinned = Nothing
      BY <1>1, <2>1 DEF NewTree, WorkTexts, Parts
    <2>2. CASE pinned # Nothing
      <3>1. pinned \in Commits
        BY <2>2 DEF Pinning
      <3> QED BY <2>2, <3>1, DiscoveryAssumption DEF DiscoveryAssumption, NewTree, Known
    <2> QED BY <2>1, <2>2
  <1>3. Here \subseteq Known
    <2>1. Scopes \in Seq(SUBSET Known)
      BY DiscoveryAssumption DEF DiscoveryAssumption, Known
    <2>2. scope \in 1..Len(Scopes)
      BY DEF Types
    <2>3. Scopes[scope] \in SUBSET Known
      BY <2>1, <2>2, ElementOfSeq
    <2> QED BY <2>3 DEF Here
  <1>4. Untracked(world) \subseteq Known /\ world.tracked \subseteq Known
    BY <1>1 DEF Untracked, Parts
  <1>5. DOMAIN NewFiles \subseteq DOMAIN NewTree(world, pinned)
    BY DEF NewFiles, InScope
  <1> QED BY <1>2, <1>3, <1>4, <1>5

LEMMA InitShape == Init => Shape
  <1> SUFFICES ASSUME Init PROVE Shape
    OBVIOUS
  <1>1. Types
    <2>1. /\ world \in Worlds /\ mode \in Modes /\ auxiliary \in Auxiliary /\ moves = 0 /\ scope = 1
          /\ pc = (IF auxiliary THEN "evidence head" ELSE "pin")
          /\ bases = <<>> /\ todo = <<>> /\ store \in Stores /\ past = {world}
      BY DEF Init
    <2>2. Len(Scopes) \in Nat /\ 1 <= Len(Scopes)
      <3>1. Scopes \in Seq(SUBSET ToSet(PathOrder)) /\ Scopes # <<>>
        BY DiscoveryAssumption DEF DiscoveryAssumption
      <3> QED BY <3>1, EmptySeq, LenProperties
    <2>3. IsCheckout(world) /\ mode \in {"live", "since", "pinned", "scan"}
      BY <2>1, DiscoveryAssumption DEF DiscoveryAssumption
    <2>4. \A S : <<>> \in Seq(S)
      BY EmptySeq
    <2>5. bases \in Seq(ToSet(bases)) /\ todo \in Seq(Known)
      BY <2>1, <2>4
    <2>6. pc \in Early
      BY <2>1 DEF Early, Gathering
    <2>7. 1 \in 1..Len(Scopes)
      BY <2>2
    <2>8. moves \in Nat /\ world \in past /\ store \in Stores
      BY <2>1
    <2> QED BY <2>1, <2>3, <2>5, <2>6, <2>7, <2>8 DEF Types
  <1>2. FiledOnce
    <2>1. files = <<>>
      BY DEF Init
    <2> QED BY <2>1 DEF FiledOnce
  <1>3. Pinning /\ Commands
    BY DEF Init, Pinning, Commands, Early, Gathering, Unpinned, Comparing, Filing, Sourcing
  <1>4. Places
    BY DEF Init, Places, Early, Gathering, Comparing, Filing, Sourcing, Late, Closed
  <1>5. Identified
    BY DEF Init, Identified, Anonymous, Unpinned, Gathering
  <1> QED BY <1>1, <1>2, <1>3, <1>4, <1>5 DEF Shape

---------------------------------------------------------------------------
(* Every step keeps the shape, part by part.                               *)
LEMMA ScopesCount == Len(Scopes) \in Nat /\ Len(Scopes) > 0 /\ DOMAIN Scopes = 1..Len(Scopes)
  <1>1. Scopes \in Seq(SUBSET ToSet(PathOrder)) /\ Scopes # <<>>
    BY DiscoveryAssumption DEF DiscoveryAssumption
  <1> QED BY <1>1, EmptySeq, LenProperties

\* Numbers, said apart so that no leaf does arithmetic among many facts.
LEMMA OneMore == ASSUME NEW n \in Nat, NEW m, m = n + 1 PROVE m - 1 = n
  OBVIOUS

LEMMA OneLess == ASSUME NEW n \in Nat, NEW m, m = n - 1 PROVE m + 1 = n
  OBVIOUS

LEMMA OneFurther ==
    ASSUME NEW n \in Nat, n > 0, NEW m \in 1..n
    PROVE  1 \in 1..n /\ (m # n => m + 1 \in 1..n)
  OBVIOUS

LEMMA ScopeCount ==
    ASSUME Types
    PROVE  /\ scope \in Nat /\ scope >= 1 /\ scope <= Len(Scopes)
           /\ Len(bases) \in Nat /\ \A b : Len(Append(bases, b)) = Len(bases) + 1
  <1>1. scope \in 1..Len(Scopes) /\ bases \in Seq(ToSet(bases))
    BY DEF Types
  <1>2. scope \in Nat /\ scope >= 1 /\ scope <= Len(Scopes)
    BY <1>1, ScopesCount
  <1>3. Len(bases) \in Nat
    BY <1>1, LenProperties
  <1>4. ASSUME NEW b PROVE Len(Append(bases, b)) = Len(bases) + 1
    BY <1>1, AppendAny
  <1> QED BY <1>2, <1>3, <1>4

\* Collecting the evidence touches nothing but the evidence.
Gathered ==
    /\ pc \in Gathering /\ pc' \in Gathering \cup {"pin", "failed"} /\ Reads
    /\ UNCHANGED <<scope, identity, readings, inputs, report>>

LEMMA EvidenceSteps == ASSUME Evidences PROVE Gathered
  <1> USE DEF Gathered, Gathers, Gathering, GiveUp, Goto, Reads
  <1>1. ASSUME NEW f, Noted(f) PROVE pc' = "evidence path"
    BY <1>1 DEF Noted
  <1>2. ASSUME NEW why, Refused(why) PROVE pc' = "evidence path"
    BY <1>1, <1>2 DEF Refused
  <1>3. ASSUME NEW text, Retained(text) PROVE pc' = "evidence path"
    BY <1>1, <1>3 DEF Retained
  <1>4. CASE EvidenceHead
    BY <1>4 DEF EvidenceHead
  <1>5. CASE EvidenceBase
    BY <1>5 DEF EvidenceBase
  <1>6. CASE EvidenceStatus
    BY <1>6 DEF EvidenceStatus
  <1>7. CASE EvidenceOthers
    BY <1>7 DEF EvidenceOthers
  <1>8. CASE EvidenceTracked
    BY <1>8 DEF EvidenceTracked
  <1>9. CASE EvidencePass
    BY <1>9, <1>1 DEF EvidencePass
  <1>10. CASE EvidenceOpen
    BY <1>10, <1>2 DEF EvidenceOpen
  <1>11. CASE EvidenceText
    BY <1>11, <1>2 DEF EvidenceText
  <1>12. CASE EvidenceRecheck
    BY <1>12, <1>2, <1>3 DEF EvidenceRecheck
  <1>13. CASE EvidenceSize
    BY <1>13, <1>2, <1>3 DEF EvidenceSize
  <1>14. CASE EvidenceShow
    BY <1>14, <1>2, <1>3 DEF EvidenceShow
  <1>15. CASE EvidenceScopeDone
    BY <1>15 DEF EvidenceScopeDone
  <1> QED
    BY <1>4, <1>5, <1>6, <1>7, <1>8, <1>9, <1>10, <1>11, <1>12, <1>13, <1>14, <1>15 DEF Evidences

LEMMA PinningStays == ASSUME Shape, [Next]_vars PROVE Pinning'
  <1> USE DEF Shape, Pinning, Types, Reads, Goto, Fail, identity, readings, inputs, results, Early, Gathering, Comparing, Filing, Sourcing, Closed, Late, Unpinned, Anonymous
  <1>0. world.head \in Commits \cup {Unborn}
    BY CheckoutFacts DEF Parts
  <1>1. CASE Evidences
    BY <1>1, EvidenceSteps DEF Gathered, Gathering
  <1>4. CASE Pin
    BY <1>4, <1>0 DEF Pin
  <1>5. CASE RecordBase
    BY <1>5 DEF RecordBase
  <1>6. CASE Identify
    BY <1>6 DEF Identify
  <1>7. CASE CleanBefore
    BY <1>7 DEF CleanBefore
  <1>8. CASE ResolveBase
    BY <1>8 DEF ResolveBase
  <1>9. CASE ListRenames
    BY <1>9 DEF ListRenames, Lists
  <1>10. CASE ListTracked
    BY <1>10 DEF ListTracked, Lists
  <1>11. CASE ListUntracked
    BY <1>11 DEF ListUntracked, Lists
  <1>12. CASE ListAdditions
    BY <1>12 DEF ListAdditions
  <1>13. CASE DiffTracked
    BY <1>13 DEF DiffTracked
  <1>14. CASE ShowBase
    BY <1>14 DEF ShowBase, AddFile
  <1>15. CASE ScopeDone
    BY <1>15 DEF ScopeDone, NextScope
  <1>16. CASE Open
    BY <1>16 DEF Open, IsSubject
  <1>17. CASE ReadText
    BY <1>17 DEF ReadText, IsSubject
  <1>18. CASE Recheck
    BY <1>18 DEF Recheck, AddFile
  <1>19. CASE ReadCommitted
    BY <1>19 DEF ReadCommitted
  <1>20. CASE ListRepository
    BY <1>20 DEF ListRepository
  <1>21. CASE RecheckSource
    BY <1>21 DEF RecheckSource
  <1>22. CASE RepositoryRead
    BY <1>22 DEF RepositoryRead, NextScope
  <1>23. CASE BuildIndex
    BY <1>23 DEF BuildIndex
  <1>24. CASE StatusAfter
    BY <1>24 DEF StatusAfter
  <1>25. CASE HeadAfter
    BY <1>25 DEF HeadAfter
  <1>26. CASE Report
    BY <1>26 DEF Report
  <1>27. CASE Develop
    BY <1>27 DEF Develop, vars
  <1>28. CASE UNCHANGED vars
    BY <1>28 DEF vars
  <1> QED
    BY <1>1, <1>4, <1>5, <1>6, <1>7, <1>8, <1>9, <1>10, <1>11, <1>12, <1>13, <1>14, <1>15, <1>16, <1>17, <1>18, <1>19, <1>20, <1>21, <1>22, <1>23, <1>24, <1>25, <1>26, <1>27, <1>28
    DEF Next, Identifies, Listings, Subjecting, Prepass, Closing

\* The steps that begin and end a scope.
LEMMA FirstScope == Types /\ Places /\ CleanBefore => Places'
  <1> SUFFICES ASSUME Types, Places, CleanBefore PROVE Places'
    OBVIOUS
  <1>1. Len(<<>>) = 0
    BY EmptySeq
  <1>2. pc = "clean before" /\ pc' \in {"list repository", "resolve base"} /\ (mode = "scan" <=> pc' = "list repository")
    BY DEF CleanBefore, Goto
  <1>3. scope' = scope /\ bases' = bases /\ files' = files /\ context' = context /\ index' = index /\ report' = report /\ todo' = todo /\ mode' = mode
    BY DEF CleanBefore, Reads, readings, results, inputs
  <1>4. bases = <<>> /\ scope = 1 /\ files = <<>> /\ context = <<>> /\ index = Nothing /\ report = Nothing
    BY <1>2 DEF Places, Early, Gathering, Comparing, Filing, Sourcing, Closed, Late
  <1>5. scope = 1 => scope - 1 = 0
    OBVIOUS
  <1>11. pc' \in Early => scope' = 1 /\ bases' = <<>> /\ clean' = FALSE
    BY <1>1, <1>2, <1>3, <1>4 DEF Early, Gathering, Comparing, Filing, Closed, Late, Sourcing
  <1>12. (pc' \in Early \/ mode' = "scan") => files' = <<>>
    BY <1>1, <1>2, <1>3, <1>4 DEF Early, Gathering, Comparing, Filing, Closed, Late, Sourcing
  <1>13. pc' \in Early \cup Comparing \cup Filing \cup {"resolve base"} => context' = <<>>
    BY <1>1, <1>2, <1>3, <1>4 DEF Early, Gathering, Comparing, Filing, Closed, Late, Sourcing
  <1>14. pc' = "resolve base" => Len(bases') = scope' - 1
    <2>1. Len(bases') = 0
      BY <1>1, <1>3, <1>4
    <2>2. scope' - 1 = 0
      BY <1>3, <1>4, <1>5
    <2> QED BY <2>1, <2>2
  <1>15. pc' \in Comparing \cup Filing => Len(bases') = scope'
    BY <1>1, <1>2, <1>3, <1>4 DEF Early, Gathering, Comparing, Filing, Closed, Late, Sourcing
  <1>16. (pc' \in Late /\ mode' # "scan") => Len(bases') = Len(Scopes)
    BY <1>1, <1>2, <1>3, <1>4 DEF Early, Gathering, Comparing, Filing, Closed, Late, Sourcing
  <1>17. pc' \in {"show base", "read", "recheck", "read source", "recheck source"} => todo' # <<>>
    BY <1>1, <1>2, <1>3, <1>4 DEF Early, Gathering, Comparing, Filing, Closed, Late, Sourcing
  <1>18. pc' \notin Closed \cup {"failed"} => index' = Nothing
    BY <1>1, <1>2, <1>3, <1>4 DEF Early, Gathering, Comparing, Filing, Closed, Late, Sourcing
  <1>19. report' # Nothing => pc' = "done"
    BY <1>1, <1>2, <1>3, <1>4 DEF Early, Gathering, Comparing, Filing, Closed, Late, Sourcing
  <1> QED
    BY <1>11, <1>12, <1>13, <1>14, <1>15, <1>16, <1>17, <1>18, <1>19 DEF Places

LEMMA NewScope == Types /\ Places /\ ResolveBase => Places'
  <1> SUFFICES ASSUME Types, Places, ResolveBase PROVE Places'
    OBVIOUS
  <1>1. pc = "resolve base" /\ Len(bases) = scope - 1 /\ scope \in Nat
    BY ScopeCount DEF ResolveBase, Places
  <1>2. \/ pc' = "failed" /\ UNCHANGED bases
        \/ pc' = "list renames" /\ Len(bases') = Len(bases) + 1
    BY ScopeCount DEF ResolveBase, Goto, Fail, results, inputs
  <1>3. scope' = scope /\ files' = files /\ context' = context /\ index' = index /\ report' = report /\ todo' = todo /\ mode' = mode
    BY DEF ResolveBase, Reads, Fail, readings, results, inputs
  <1>4. context = <<>> /\ index = Nothing /\ report = Nothing
    BY <1>1 DEF Places, Early, Gathering, Comparing, Filing, Sourcing, Closed, Late
  <1>5. mode = "scan" => files = <<>>
    BY DEF Places
  <1>11. pc' \in Early => scope' = 1 /\ bases' = <<>> /\ clean' = FALSE
    BY <1>1, <1>2, <1>3, <1>4, <1>5 DEF Early, Gathering, Comparing, Filing, Closed, Late, Sourcing
  <1>12. (pc' \in Early \/ mode' = "scan") => files' = <<>>
    BY <1>1, <1>2, <1>3, <1>4, <1>5 DEF Early, Gathering, Comparing, Filing, Closed, Late, Sourcing
  <1>13. pc' \in Early \cup Comparing \cup Filing \cup {"resolve base"} => context' = <<>>
    BY <1>1, <1>2, <1>3, <1>4, <1>5 DEF Early, Gathering, Comparing, Filing, Closed, Late, Sourcing
  <1>14. pc' = "resolve base" => Len(bases') = scope' - 1
    BY <1>1, <1>2, <1>3, <1>4, <1>5 DEF Early, Gathering, Comparing, Filing, Closed, Late, Sourcing
  <1>15. pc' \in Comparing \cup Filing => Len(bases') = scope'
    <2>1. pc' = "failed" \/ Len(bases') = Len(bases) + 1
      BY <1>2
    <2>2. Len(bases) + 1 = scope
      <3>1. scope - 1 + 1 = scope
        <4>1. scope \in Nat
          BY <1>1
        <4> QED BY <4>1
      <3> QED BY <1>1, <3>1
    <2>3. pc' = "failed" \/ Len(bases') = scope'
      BY <2>1, <2>2, <1>3
    <2> QED BY <2>3 DEF Comparing, Filing
  <1>16. (pc' \in Late /\ mode' # "scan") => Len(bases') = Len(Scopes)
    BY <1>1, <1>2, <1>3, <1>4, <1>5 DEF Early, Gathering, Comparing, Filing, Closed, Late, Sourcing
  <1>17. pc' \in {"show base", "read", "recheck", "read source", "recheck source"} => todo' # <<>>
    BY <1>1, <1>2, <1>3, <1>4, <1>5 DEF Early, Gathering, Comparing, Filing, Closed, Late, Sourcing
  <1>18. pc' \notin Closed \cup {"failed"} => index' = Nothing
    BY <1>1, <1>2, <1>3, <1>4, <1>5 DEF Early, Gathering, Comparing, Filing, Closed, Late, Sourcing
  <1>19. report' # Nothing => pc' = "done"
    BY <1>1, <1>2, <1>3, <1>4, <1>5 DEF Early, Gathering, Comparing, Filing, Closed, Late, Sourcing
  <1> QED
    BY <1>11, <1>12, <1>13, <1>14, <1>15, <1>16, <1>17, <1>18, <1>19 DEF Places

LEMMA EndScope == Types /\ Places /\ ScopeDone => Places'
  <1> SUFFICES ASSUME Types, Places, ScopeDone PROVE Places'
    OBVIOUS
  <1>1. pc = "next file" /\ Len(bases) = scope
    BY DEF ScopeDone, Places, Filing
  <1>2. \/ scope = Len(Scopes) /\ scope' = 1 /\ pc' = "list repository"
        \/ scope # Len(Scopes) /\ scope' = scope + 1 /\ pc' = "resolve base"
    BY DEF ScopeDone, NextScope, Goto
  <1>3. bases' = bases /\ files' = files /\ context' = context /\ index' = index /\ report' = report /\ todo' = todo /\ mode' = mode
    BY DEF ScopeDone, NextScope, Reads, readings, results, inputs
  <1>4. context = <<>> /\ index = Nothing /\ report = Nothing
    BY <1>1 DEF Places, Early, Gathering, Comparing, Filing, Sourcing, Closed, Late
  <1>5. mode = "scan" => files = <<>>
    BY DEF Places
  <1>6. scope \in Nat
    BY ScopeCount
  <1>11. pc' \in Early => scope' = 1 /\ bases' = <<>> /\ clean' = FALSE
    BY <1>1, <1>2, <1>3, <1>4, <1>5, <1>6 DEF Early, Gathering, Comparing, Filing, Closed, Late, Sourcing
  <1>12. (pc' \in Early \/ mode' = "scan") => files' = <<>>
    BY <1>1, <1>2, <1>3, <1>4, <1>5, <1>6 DEF Early, Gathering, Comparing, Filing, Closed, Late, Sourcing
  <1>13. pc' \in Early \cup Comparing \cup Filing \cup {"resolve base"} => context' = <<>>
    BY <1>1, <1>2, <1>3, <1>4, <1>5, <1>6 DEF Early, Gathering, Comparing, Filing, Closed, Late, Sourcing
  <1>14. pc' = "resolve base" => Len(bases') = scope' - 1
    <2>1. pc' = "resolve base" => scope' = scope + 1
      BY <1>2
    <2>3. Len(bases') = scope
      BY <1>1, <1>3
    <2>4. ASSUME pc' = "resolve base" PROVE scope' - 1 = scope
      <3>1. scope' = scope + 1
        BY <2>1, <2>4
      <3> QED BY <3>1, <1>6, OneMore
    <2> QED BY <2>3, <2>4
  <1>15. pc' \in Comparing \cup Filing => Len(bases') = scope'
    BY <1>1, <1>2, <1>3, <1>4, <1>5, <1>6 DEF Early, Gathering, Comparing, Filing, Closed, Late, Sourcing
  <1>16. (pc' \in Late /\ mode' # "scan") => Len(bases') = Len(Scopes)
    BY <1>1, <1>2, <1>3, <1>4, <1>5, <1>6 DEF Early, Gathering, Comparing, Filing, Closed, Late, Sourcing
  <1>17. pc' \in {"show base", "read", "recheck", "read source", "recheck source"} => todo' # <<>>
    BY <1>1, <1>2, <1>3, <1>4, <1>5, <1>6 DEF Early, Gathering, Comparing, Filing, Closed, Late, Sourcing
  <1>18. pc' \notin Closed \cup {"failed"} => index' = Nothing
    BY <1>1, <1>2, <1>3, <1>4, <1>5, <1>6 DEF Early, Gathering, Comparing, Filing, Closed, Late, Sourcing
  <1>19. report' # Nothing => pc' = "done"
    BY <1>1, <1>2, <1>3, <1>4, <1>5, <1>6 DEF Early, Gathering, Comparing, Filing, Closed, Late, Sourcing
  <1> QED
    BY <1>11, <1>12, <1>13, <1>14, <1>15, <1>16, <1>17, <1>18, <1>19 DEF Places

LEMMA PlacesStays == ASSUME Shape, [Next]_vars PROVE Places'
  <1> USE DEF Shape, Places, Types, Pinning, Reads, Goto, Fail, identity, readings, inputs, results, Early, Gathering, Comparing, Filing, Sourcing, Closed, Late, Unpinned, Anonymous
  <1>1. CASE Evidences
    BY <1>1, EvidenceSteps DEF Gathered, Gathering
  <1>4. CASE Pin
    BY <1>4 DEF Pin
  <1>5. CASE RecordBase
    BY <1>5 DEF RecordBase
  <1>6. CASE Identify
    BY <1>6 DEF Identify
  <1>7. CASE CleanBefore
    BY <1>7, FirstScope
  <1>8. CASE ResolveBase
    BY <1>8, NewScope
  <1>9. CASE ListRenames
    BY <1>9 DEF ListRenames, Lists
  <1>10. CASE ListTracked
    BY <1>10 DEF ListTracked, Lists
  <1>11. CASE ListUntracked
    BY <1>11 DEF ListUntracked, Lists
  <1>12. CASE ListAdditions
    BY <1>12 DEF ListAdditions
  <1>13. CASE DiffTracked
    BY <1>13 DEF DiffTracked
  <1>14. CASE ShowBase
    BY <1>14 DEF ShowBase, AddFile
  <1>15. CASE ScopeDone
    BY <1>15, EndScope
  <1>16. CASE Open
    BY <1>16 DEF Open, IsSubject
  <1>17. CASE ReadText
    BY <1>17 DEF ReadText, IsSubject
  <1>18. CASE Recheck
    BY <1>18 DEF Recheck, AddFile
  <1>19. CASE ReadCommitted
    BY <1>19 DEF ReadCommitted
  <1>20. CASE ListRepository
    BY <1>20 DEF ListRepository
  <1>21. CASE RecheckSource
    BY <1>21 DEF RecheckSource
  <1>22. CASE RepositoryRead
    BY <1>22 DEF RepositoryRead, NextScope
  <1>23. CASE BuildIndex
    BY <1>23 DEF BuildIndex
  <1>24. CASE StatusAfter
    BY <1>24 DEF StatusAfter
  <1>25. CASE HeadAfter
    BY <1>25 DEF HeadAfter
  <1>26. CASE Report
    BY <1>26 DEF Report
  <1>27. CASE Develop
    BY <1>27 DEF Develop, vars
  <1>28. CASE UNCHANGED vars
    <2>1. UNCHANGED <<mode, pc, scope, clean, todo, files, context, index, report, bases>>
      BY <1>28 DEF vars
    <2>2. Places
      OBVIOUS
    <2> HIDE DEF Shape, Types, Pinning, Early, Gathering, Comparing, Filing, Sourcing, Closed, Late, Unpinned, Anonymous
    <2> QED BY <2>1, <2>2
  <1> QED
    BY <1>1, <1>4, <1>5, <1>6, <1>7, <1>8, <1>9, <1>10, <1>11, <1>12, <1>13, <1>14, <1>15, <1>16, <1>17, <1>18, <1>19, <1>20, <1>21, <1>22, <1>23, <1>24, <1>25, <1>26, <1>27, <1>28
    DEF Next, Identifies, Listings, Subjecting, Prepass, Closing

---------------------------------------------------------------------------
\* The checkout changes by the developer alone.
LEMMA OnlyDevelop ==
    ASSUME [Next]_vars
    PROVE  \/ Develop
           \/ UNCHANGED <<world, moves, mode, auxiliary, past>>
  <1> USE DEF Reads, Goto, Fail, identity, readings, inputs, results
  <1>1. CASE Evidences
    BY <1>1, EvidenceSteps DEF Gathered, Gathering
  <1>4. CASE Pin
    BY <1>4 DEF Pin
  <1>5. CASE RecordBase
    BY <1>5 DEF RecordBase
  <1>6. CASE Identify
    BY <1>6 DEF Identify
  <1>7. CASE CleanBefore
    BY <1>7 DEF CleanBefore
  <1>8. CASE ResolveBase
    BY <1>8 DEF ResolveBase
  <1>9. CASE ListRenames
    BY <1>9 DEF ListRenames, Lists
  <1>10. CASE ListTracked
    BY <1>10 DEF ListTracked, Lists
  <1>11. CASE ListUntracked
    BY <1>11 DEF ListUntracked, Lists
  <1>12. CASE ListAdditions
    BY <1>12 DEF ListAdditions
  <1>13. CASE DiffTracked
    BY <1>13 DEF DiffTracked
  <1>14. CASE ShowBase
    BY <1>14 DEF ShowBase, AddFile
  <1>15. CASE ScopeDone
    BY <1>15 DEF ScopeDone, NextScope
  <1>16. CASE Open
    BY <1>16 DEF Open, IsSubject
  <1>17. CASE ReadText
    BY <1>17 DEF ReadText, IsSubject
  <1>18. CASE Recheck
    BY <1>18 DEF Recheck, AddFile
  <1>19. CASE ReadCommitted
    BY <1>19 DEF ReadCommitted
  <1>20. CASE ListRepository
    BY <1>20 DEF ListRepository
  <1>21. CASE RecheckSource
    BY <1>21 DEF RecheckSource
  <1>22. CASE RepositoryRead
    BY <1>22 DEF RepositoryRead, NextScope
  <1>23. CASE BuildIndex
    BY <1>23 DEF BuildIndex
  <1>24. CASE StatusAfter
    BY <1>24 DEF StatusAfter
  <1>25. CASE HeadAfter
    BY <1>25 DEF HeadAfter
  <1>26. CASE Report
    BY <1>26 DEF Report
  <1>27. CASE Develop
    BY <1>27
  <1>28. CASE UNCHANGED vars
    BY <1>28 DEF vars
  <1> QED
    BY <1>1, <1>4, <1>5, <1>6, <1>7, <1>8, <1>9, <1>10, <1>11, <1>12, <1>13, <1>14, <1>15, <1>16, <1>17, <1>18, <1>19, <1>20, <1>21, <1>22, <1>23, <1>24, <1>25, <1>26, <1>27, <1>28
    DEF Next, Identifies, Listings, Subjecting, Prepass, Closing

LEMMA CheckoutStays ==
    ASSUME Shape, [Next]_vars
    PROVE  /\ IsCheckout(world') /\ world' \in past' /\ moves' \in Nat
           /\ mode' = mode /\ auxiliary' = auxiliary
           /\ world' = world \/ ComesFrom(world, world')
  <1>1. IsCheckout(world) /\ world \in past /\ moves \in Nat
    BY DEF Shape, Types
  <1>2. CASE Develop
    <2>1. world' \in Steps /\ moves' = moves + 1 /\ past' = past \cup {world'} /\ mode' = mode /\ auxiliary' = auxiliary
      BY <1>2 DEF Develop
    <2>2. IsCheckout(world') /\ ComesFrom(world, world')
      BY <1>1, <2>1, StepsOfCheckouts
    <2> QED BY <1>1, <2>1, <2>2
  <1>3. CASE UNCHANGED <<world, moves, mode, auxiliary, past>>
    BY <1>1, <1>3
  <1> QED BY <1>2, <1>3, OnlyDevelop

\* The parts of Types, one by one.
LEMMA ControlStays ==
    ASSUME Shape, [Next]_vars
    PROVE  pc' \in Early \cup {"resolve base", "failed"} \cup Comparing \cup Filing \cup Late
  <1> USE DEF Shape, Types, Reads, Goto, Fail, identity, readings, inputs, results, Early, Gathering, Comparing, Filing, Sourcing, Closed, Late, Unpinned, Anonymous
  <1>1. CASE Evidences
    BY <1>1, EvidenceSteps DEF Gathered, Gathering
  <1>4. CASE Pin
    BY <1>4 DEF Pin
  <1>5. CASE RecordBase
    BY <1>5 DEF RecordBase
  <1>6. CASE Identify
    BY <1>6 DEF Identify
  <1>7. CASE CleanBefore
    BY <1>7 DEF CleanBefore
  <1>8. CASE ResolveBase
    BY <1>8 DEF ResolveBase
  <1>9. CASE ListRenames
    BY <1>9 DEF ListRenames, Lists
  <1>10. CASE ListTracked
    BY <1>10 DEF ListTracked, Lists
  <1>11. CASE ListUntracked
    BY <1>11 DEF ListUntracked, Lists
  <1>12. CASE ListAdditions
    BY <1>12 DEF ListAdditions
  <1>13. CASE DiffTracked
    BY <1>13 DEF DiffTracked
  <1>14. CASE ShowBase
    BY <1>14 DEF ShowBase, AddFile
  <1>15. CASE ScopeDone
    BY <1>15 DEF ScopeDone, NextScope
  <1>16. CASE Open
    BY <1>16 DEF Open, IsSubject
  <1>17. CASE ReadText
    BY <1>17 DEF ReadText, IsSubject
  <1>18. CASE Recheck
    BY <1>18 DEF Recheck, AddFile
  <1>19. CASE ReadCommitted
    BY <1>19 DEF ReadCommitted
  <1>20. CASE ListRepository
    BY <1>20 DEF ListRepository
  <1>21. CASE RecheckSource
    BY <1>21 DEF RecheckSource
  <1>22. CASE RepositoryRead
    BY <1>22 DEF RepositoryRead, NextScope
  <1>23. CASE BuildIndex
    BY <1>23 DEF BuildIndex
  <1>24. CASE StatusAfter
    BY <1>24 DEF StatusAfter
  <1>25. CASE HeadAfter
    BY <1>25 DEF HeadAfter
  <1>26. CASE Report
    BY <1>26 DEF Report
  <1>27. CASE Develop
    BY <1>27 DEF Develop, vars
  <1>28. CASE UNCHANGED vars
    BY <1>28 DEF vars
  <1> QED
    BY <1>1, <1>4, <1>5, <1>6, <1>7, <1>8, <1>9, <1>10, <1>11, <1>12, <1>13, <1>14, <1>15, <1>16, <1>17, <1>18, <1>19, <1>20, <1>21, <1>22, <1>23, <1>24, <1>25, <1>26, <1>27, <1>28
    DEF Next, Identifies, Listings, Subjecting, Prepass, Closing

LEMMA ScopeStays ==
    ASSUME Shape, [Next]_vars
    PROVE  scope' \in 1..Len(Scopes)
  <1> USE DEF Shape, Types, Reads, Goto, Fail, identity, readings, inputs, results
  <1>0. /\ scope \in 1..Len(Scopes) /\ 1 \in 1..Len(Scopes)
        /\ scope # Len(Scopes) => scope + 1 \in 1..Len(Scopes)
    <2>1. scope \in 1..Len(Scopes)
      BY DEF Shape, Types
    <2> QED BY <2>1, ScopesCount, OneFurther
  <1>1. CASE Evidences
    BY <1>1, <1>0, EvidenceSteps DEF Gathered, Gathering
  <1>4. CASE Pin
    BY <1>4, <1>0 DEF Pin
  <1>5. CASE RecordBase
    BY <1>5, <1>0 DEF RecordBase
  <1>6. CASE Identify
    BY <1>6, <1>0 DEF Identify
  <1>7. CASE CleanBefore
    BY <1>7, <1>0 DEF CleanBefore
  <1>8. CASE ResolveBase
    BY <1>8, <1>0 DEF ResolveBase
  <1>9. CASE ListRenames
    BY <1>9, <1>0 DEF ListRenames, Lists
  <1>10. CASE ListTracked
    BY <1>10, <1>0 DEF ListTracked, Lists
  <1>11. CASE ListUntracked
    BY <1>11, <1>0 DEF ListUntracked, Lists
  <1>12. CASE ListAdditions
    BY <1>12, <1>0 DEF ListAdditions
  <1>13. CASE DiffTracked
    BY <1>13, <1>0 DEF DiffTracked
  <1>14. CASE ShowBase
    BY <1>14, <1>0 DEF ShowBase, AddFile
  <1>15. CASE ScopeDone
    BY <1>15, <1>0 DEF ScopeDone, NextScope
  <1>16. CASE Open
    BY <1>16, <1>0 DEF Open, IsSubject
  <1>17. CASE ReadText
    BY <1>17, <1>0 DEF ReadText, IsSubject
  <1>18. CASE Recheck
    BY <1>18, <1>0 DEF Recheck, AddFile
  <1>19. CASE ReadCommitted
    BY <1>19, <1>0 DEF ReadCommitted
  <1>20. CASE ListRepository
    BY <1>20, <1>0 DEF ListRepository
  <1>21. CASE RecheckSource
    BY <1>21, <1>0 DEF RecheckSource
  <1>22. CASE RepositoryRead
    BY <1>22, <1>0 DEF RepositoryRead, NextScope
  <1>23. CASE BuildIndex
    BY <1>23, <1>0 DEF BuildIndex
  <1>24. CASE StatusAfter
    BY <1>24, <1>0 DEF StatusAfter
  <1>25. CASE HeadAfter
    BY <1>25, <1>0 DEF HeadAfter
  <1>26. CASE Report
    BY <1>26, <1>0 DEF Report
  <1>27. CASE Develop
    BY <1>27, <1>0 DEF Develop, vars
  <1>28. CASE UNCHANGED vars
    BY <1>28, <1>0 DEF vars
  <1> QED
    BY <1>1, <1>4, <1>5, <1>6, <1>7, <1>8, <1>9, <1>10, <1>11, <1>12, <1>13, <1>14, <1>15, <1>16, <1>17, <1>18, <1>19, <1>20, <1>21, <1>22, <1>23, <1>24, <1>25, <1>26, <1>27, <1>28
    DEF Next, Identifies, Listings, Subjecting, Prepass, Closing

LEMMA BasesStay ==
    ASSUME Shape, [Next]_vars
    PROVE  bases' \in Seq(ToSet(bases'))
  <1> USE DEF Reads, Goto, Fail, identity, readings, inputs, results
  <1>0. bases \in Seq(ToSet(bases)) /\ \A b : Append(bases, b) \in Seq(ToSet(Append(bases, b)))
    <2>1. bases \in Seq(ToSet(bases))
      BY DEF Shape, Types
    <2> QED BY <2>1, AppendAny
  <1>1. CASE Evidences
    BY <1>1, <1>0, EvidenceSteps DEF Gathered, Gathering
  <1>4. CASE Pin
    BY <1>4, <1>0 DEF Pin
  <1>5. CASE RecordBase
    BY <1>5, <1>0 DEF RecordBase
  <1>6. CASE Identify
    BY <1>6, <1>0 DEF Identify
  <1>7. CASE CleanBefore
    BY <1>7, <1>0 DEF CleanBefore
  <1>8. CASE ResolveBase
    BY <1>8, <1>0 DEF ResolveBase
  <1>9. CASE ListRenames
    BY <1>9, <1>0 DEF ListRenames, Lists
  <1>10. CASE ListTracked
    BY <1>10, <1>0 DEF ListTracked, Lists
  <1>11. CASE ListUntracked
    BY <1>11, <1>0 DEF ListUntracked, Lists
  <1>12. CASE ListAdditions
    BY <1>12, <1>0 DEF ListAdditions
  <1>13. CASE DiffTracked
    BY <1>13, <1>0 DEF DiffTracked
  <1>14. CASE ShowBase
    BY <1>14, <1>0 DEF ShowBase, AddFile
  <1>15. CASE ScopeDone
    BY <1>15, <1>0 DEF ScopeDone, NextScope
  <1>16. CASE Open
    BY <1>16, <1>0 DEF Open, IsSubject
  <1>17. CASE ReadText
    BY <1>17, <1>0 DEF ReadText, IsSubject
  <1>18. CASE Recheck
    BY <1>18, <1>0 DEF Recheck, AddFile
  <1>19. CASE ReadCommitted
    BY <1>19, <1>0 DEF ReadCommitted
  <1>20. CASE ListRepository
    BY <1>20, <1>0 DEF ListRepository
  <1>21. CASE RecheckSource
    BY <1>21, <1>0 DEF RecheckSource
  <1>22. CASE RepositoryRead
    BY <1>22, <1>0 DEF RepositoryRead, NextScope
  <1>23. CASE BuildIndex
    BY <1>23, <1>0 DEF BuildIndex
  <1>24. CASE StatusAfter
    BY <1>24, <1>0 DEF StatusAfter
  <1>25. CASE HeadAfter
    BY <1>25, <1>0 DEF HeadAfter
  <1>26. CASE Report
    BY <1>26, <1>0 DEF Report
  <1>27. CASE Develop
    BY <1>27, <1>0 DEF Develop, vars
  <1>28. CASE UNCHANGED vars
    BY <1>28, <1>0 DEF vars
  <1> QED
    BY <1>1, <1>4, <1>5, <1>6, <1>7, <1>8, <1>9, <1>10, <1>11, <1>12, <1>13, <1>14, <1>15, <1>16, <1>17, <1>18, <1>19, <1>20, <1>21, <1>22, <1>23, <1>24, <1>25, <1>26, <1>27, <1>28
    DEF Next, Identifies, Listings, Subjecting, Prepass, Closing

LEMMA TodoStays ==
    ASSUME Shape, [Next]_vars
    PROVE  todo' \in Seq(Known)
  <1> USE DEF Reads, Goto, Fail, identity, readings, inputs, results
  <1>0. /\ todo \in Seq(Known)
        /\ <<>> \in Seq(Known)
        /\ todo # <<>> => Tail(todo) \in Seq(Known)
    <2>1. todo \in Seq(Known)
      BY DEF Shape, Types
    <2> QED BY <2>1, EmptySeq, HeadTailProperties
  <1>90. pc \in {"show base", "read", "recheck", "read source", "recheck source"} => todo # <<>>
    BY DEF Shape, Places
  <1>1. CASE Evidences
    BY <1>1, <1>0, EvidenceSteps DEF Gathered, Gathering
  <1>4. CASE Pin
    BY <1>4, <1>0 DEF Pin
  <1>5. CASE RecordBase
    BY <1>5, <1>0 DEF RecordBase
  <1>6. CASE Identify
    BY <1>6, <1>0 DEF Identify
  <1>7. CASE CleanBefore
    BY <1>7, <1>0 DEF CleanBefore
  <1>8. CASE ResolveBase
    BY <1>8, <1>0 DEF ResolveBase
  <1>9. CASE ListRenames
    BY <1>9, <1>0 DEF ListRenames, Lists
  <1>10. CASE ListTracked
    BY <1>10, <1>0 DEF ListTracked, Lists
  <1>11. CASE ListUntracked
    BY <1>11, <1>0 DEF ListUntracked, Lists
  <1>12. CASE ListAdditions
    <2>1. Subjects(git.tracked) \in SUBSET Known /\ Subjects(git.untracked \ git.tracked) \in SUBSET Known
      BY <1>12 DEF ListAdditions, Shape, Commands, Subjects
    <2>2. todo' = SortPaths(Subjects(git.tracked)) \o SortPaths(Subjects(git.untracked \ git.tracked))
      BY <1>12 DEF ListAdditions
    <2>3. SortPaths(Subjects(git.tracked)) \in Seq(Known) /\ SortPaths(Subjects(git.untracked \ git.tracked)) \in Seq(Known)
      BY <2>1, SortPathsFacts
    <2> QED BY <2>2, <2>3, ConcatProperties
  <1>13. CASE DiffTracked
    BY <1>13, <1>0 DEF DiffTracked
  <1>14. CASE ShowBase
    BY <1>14, <1>0, <1>90 DEF ShowBase, AddFile
  <1>15. CASE ScopeDone
    BY <1>15, <1>0 DEF ScopeDone, NextScope
  <1>16. CASE Open
    BY <1>16, <1>0 DEF Open, IsSubject
  <1>17. CASE ReadText
    BY <1>17, <1>0, <1>90 DEF ReadText, IsSubject
  <1>18. CASE Recheck
    BY <1>18, <1>0, <1>90 DEF Recheck, AddFile
  <1>19. CASE ReadCommitted
    BY <1>19, <1>0 DEF ReadCommitted
  <1>20. CASE ListRepository
    <2>1. Here \subseteq Known
      BY <1>20, KnownPaths DEF ListRepository, Shape, Unpinned, Gathering
    <2>2. Subjects((world.tracked \cup Untracked(world)) \cap Here) \in SUBSET Known
      BY <2>1 DEF Subjects
    <2>3. todo' = SortPaths(Subjects((world.tracked \cup Untracked(world)) \cap Here))
      BY <1>20 DEF ListRepository
    <2> QED BY <2>2, <2>3, SortPathsFacts
  <1>21. CASE RecheckSource
    BY <1>21, <1>0, <1>90 DEF RecheckSource
  <1>22. CASE RepositoryRead
    BY <1>22, <1>0 DEF RepositoryRead, NextScope
  <1>23. CASE BuildIndex
    BY <1>23, <1>0 DEF BuildIndex
  <1>24. CASE StatusAfter
    BY <1>24, <1>0 DEF StatusAfter
  <1>25. CASE HeadAfter
    BY <1>25, <1>0 DEF HeadAfter
  <1>26. CASE Report
    BY <1>26, <1>0 DEF Report
  <1>27. CASE Develop
    BY <1>27, <1>0 DEF Develop, vars
  <1>28. CASE UNCHANGED vars
    BY <1>28, <1>0 DEF vars
  <1> QED
    BY <1>1, <1>4, <1>5, <1>6, <1>7, <1>8, <1>9, <1>10, <1>11, <1>12, <1>13, <1>14, <1>15, <1>16, <1>17, <1>18, <1>19, <1>20, <1>21, <1>22, <1>23, <1>24, <1>25, <1>26, <1>27, <1>28
    DEF Next, Identifies, Listings, Subjecting, Prepass, Closing

LEMMA StoreStays ==
    ASSUME Shape, [Next]_vars
    PROVE  pc' \notin Closed \cup {"failed"} => store' \in Stores
  <1> USE DEF Shape, Types, Reads, Goto, Fail, identity, readings, inputs, results, Early, Gathering, Comparing, Filing, Sourcing, Closed, Late, Unpinned, Anonymous
  <1>1. CASE Evidences
    BY <1>1, EvidenceSteps DEF Gathered, Gathering
  <1>4. CASE Pin
    BY <1>4 DEF Pin
  <1>5. CASE RecordBase
    BY <1>5 DEF RecordBase
  <1>6. CASE Identify
    BY <1>6 DEF Identify
  <1>7. CASE CleanBefore
    BY <1>7 DEF CleanBefore
  <1>8. CASE ResolveBase
    BY <1>8 DEF ResolveBase
  <1>9. CASE ListRenames
    BY <1>9 DEF ListRenames, Lists
  <1>10. CASE ListTracked
    BY <1>10 DEF ListTracked, Lists
  <1>11. CASE ListUntracked
    BY <1>11 DEF ListUntracked, Lists
  <1>12. CASE ListAdditions
    BY <1>12 DEF ListAdditions
  <1>13. CASE DiffTracked
    BY <1>13 DEF DiffTracked
  <1>14. CASE ShowBase
    BY <1>14 DEF ShowBase, AddFile
  <1>15. CASE ScopeDone
    BY <1>15 DEF ScopeDone, NextScope
  <1>16. CASE Open
    BY <1>16 DEF Open, IsSubject
  <1>17. CASE ReadText
    BY <1>17 DEF ReadText, IsSubject
  <1>18. CASE Recheck
    BY <1>18 DEF Recheck, AddFile
  <1>19. CASE ReadCommitted
    BY <1>19 DEF ReadCommitted
  <1>20. CASE ListRepository
    BY <1>20 DEF ListRepository
  <1>21. CASE RecheckSource
    BY <1>21 DEF RecheckSource
  <1>22. CASE RepositoryRead
    BY <1>22 DEF RepositoryRead, NextScope
  <1>23. CASE BuildIndex
    BY <1>23 DEF BuildIndex
  <1>24. CASE StatusAfter
    BY <1>24 DEF StatusAfter
  <1>25. CASE HeadAfter
    BY <1>25 DEF HeadAfter
  <1>26. CASE Report
    BY <1>26 DEF Report
  <1>27. CASE Develop
    BY <1>27 DEF Develop, vars
  <1>28. CASE UNCHANGED vars
    BY <1>28 DEF vars
  <1> QED
    BY <1>1, <1>4, <1>5, <1>6, <1>7, <1>8, <1>9, <1>10, <1>11, <1>12, <1>13, <1>14, <1>15, <1>16, <1>17, <1>18, <1>19, <1>20, <1>21, <1>22, <1>23, <1>24, <1>25, <1>26, <1>27, <1>28
    DEF Next, Identifies, Listings, Subjecting, Prepass, Closing

LEMMA OneLater == ASSUME NEW n \in Nat, NEW m, m = n + 1 PROVE m \in Nat /\ m # 0 /\ m > n
  OBVIOUS

LEMMA TypesStay == ASSUME Shape, [Next]_vars PROVE Types'
  <1>1. mode \in {"live", "since", "pinned", "scan"}
    BY DEF Shape, Types
  <1> QED
    BY <1>1, CheckoutStays, ControlStays, ScopeStays, BasesStay, TodoStays, StoreStays DEF Types

LEMMA AddFileOnce ==
    ASSUME FiledOnce, NEW p, NEW patch, NEW base, NEW text, AddFile(p, patch, base, text)
    PROVE  FiledOnce'
  <1>1. CASE p \in Discovered
    BY <1>1 DEF AddFile, FiledOnce
  <1>2. CASE p \notin Discovered
    <2> DEFINE e == [path |-> p, patch |-> patch, base |-> base, text |-> text]
    <2>1. files' = Append(files, e)
      BY <1>2 DEF AddFile
    <2>2. files \in Seq(ToSet(files)) /\ e.path = p
      BY DEF FiledOnce
    <2> HIDE DEF e
    <2>3. /\ files' \in Seq(ToSet(files')) /\ Len(files) \in Nat
          /\ DOMAIN files = 1..Len(files) /\ DOMAIN files' = 1..(Len(files) + 1)
      BY <2>1, <2>2, AppendAny
    <2>4. (\A i \in 1..Len(files) : files'[i] = files[i]) /\ files'[Len(files) + 1] = e
      <3>1. files \in Seq(ToSet(files) \cup {e})
        BY <2>2, <2>3, SeqDef, ElementOfSeq
      <3> QED BY <2>1, <3>1, AppendProperties
    <2>5. \A i \in 1..Len(files) : files[i].path # e.path
      BY <1>2, <2>2, <2>3 DEF Discovered
    <2>6. ASSUME NEW i \in DOMAIN files', NEW j \in DOMAIN files', files'[i].path = files'[j].path
          PROVE  i = j
      <3>1. i \in 1..Len(files) \/ i = Len(files) + 1
        BY <2>3
      <3>2. j \in 1..Len(files) \/ j = Len(files) + 1
        BY <2>3
      <3>3. CASE i \in 1..Len(files) /\ j \in 1..Len(files)
        BY <2>6, <3>3, <2>4, <2>3 DEF FiledOnce
      <3> QED BY <3>1, <3>2, <3>3, <2>4, <2>5, <2>6
    <2> QED BY <2>3, <2>6 DEF FiledOnce
  <1> QED BY <1>1, <1>2

LEMMA FiledOnceStays == ASSUME Shape, [Next]_vars PROVE FiledOnce'
  <1> USE DEF FiledOnce, Reads, Goto, Fail, identity, readings, inputs, results
  <1>0. FiledOnce
    BY DEF Shape
  <1>1. CASE Evidences
    BY <1>1, <1>0, EvidenceSteps DEF Gathered, Gathering
  <1>4. CASE Pin
    BY <1>4, <1>0 DEF Pin
  <1>5. CASE RecordBase
    BY <1>5, <1>0 DEF RecordBase
  <1>6. CASE Identify
    BY <1>6, <1>0 DEF Identify
  <1>7. CASE CleanBefore
    BY <1>7, <1>0 DEF CleanBefore
  <1>8. CASE ResolveBase
    BY <1>8, <1>0 DEF ResolveBase
  <1>9. CASE ListRenames
    BY <1>9, <1>0 DEF ListRenames, Lists
  <1>10. CASE ListTracked
    BY <1>10, <1>0 DEF ListTracked, Lists
  <1>11. CASE ListUntracked
    BY <1>11, <1>0 DEF ListUntracked, Lists
  <1>12. CASE ListAdditions
    BY <1>12, <1>0 DEF ListAdditions
  <1>13. CASE DiffTracked
    BY <1>13, <1>0 DEF DiffTracked
  <1>14. CASE ShowBase
    BY <1>14, <1>0, AddFileOnce DEF ShowBase
  <1>15. CASE ScopeDone
    BY <1>15, <1>0 DEF ScopeDone, NextScope
  <1>16. CASE Open
    BY <1>16, <1>0 DEF Open, IsSubject
  <1>17. CASE ReadText
    BY <1>17, <1>0 DEF ReadText, IsSubject
  <1>18. CASE Recheck
    BY <1>18, <1>0, AddFileOnce DEF Recheck
  <1>19. CASE ReadCommitted
    BY <1>19, <1>0 DEF ReadCommitted
  <1>20. CASE ListRepository
    BY <1>20, <1>0 DEF ListRepository
  <1>21. CASE RecheckSource
    BY <1>21, <1>0 DEF RecheckSource
  <1>22. CASE RepositoryRead
    BY <1>22, <1>0 DEF RepositoryRead, NextScope
  <1>23. CASE BuildIndex
    BY <1>23, <1>0 DEF BuildIndex
  <1>24. CASE StatusAfter
    BY <1>24, <1>0 DEF StatusAfter
  <1>25. CASE HeadAfter
    BY <1>25, <1>0 DEF HeadAfter
  <1>26. CASE Report
    BY <1>26, <1>0 DEF Report
  <1>27. CASE Develop
    BY <1>27, <1>0 DEF Develop, vars
  <1>28. CASE UNCHANGED vars
    BY <1>28, <1>0 DEF vars
  <1> QED
    BY <1>1, <1>4, <1>5, <1>6, <1>7, <1>8, <1>9, <1>10, <1>11, <1>12, <1>13, <1>14, <1>15, <1>16, <1>17, <1>18, <1>19, <1>20, <1>21, <1>22, <1>23, <1>24, <1>25, <1>26, <1>27, <1>28
    DEF Next, Identifies, Listings, Subjecting, Prepass, Closing

\* The steps that keep what a command has said.
LEMMA ResolvedBase == Shape /\ ResolveBase => Commands'
  <1> SUFFICES ASSUME Shape, ResolveBase PROVE Commands'
    OBVIOUS
  <1>1. CASE pc' = "failed"
    BY <1>1 DEF Commands, Comparing, Filing
  <1>2. CASE pc' # "failed"
    <2> DEFINE b == IF mode = "live" THEN world.head
                    ELSE MergeBase(world.ref, IF mode = "pinned" THEN pinned ELSE world.head)
    <2>1. /\ git' = [base |-> b, symbolic |-> mode = "live" /\ b # Unborn, renamed |-> <<>>,
                     tracked |-> {}, untracked |-> {}, added |-> {}]
          /\ bases' = Append(bases, b) /\ pc' = "list renames" /\ scope' = scope /\ mode' = mode
      BY <1>2 DEF ResolveBase, Fail, Goto, Reads
    <2> HIDE DEF b
    <2>2. scope \in Nat /\ scope >= 1 /\ bases \in Seq(ToSet(bases)) /\ Len(bases) = scope - 1
      BY ScopeCount DEF Shape, Types, Places, ResolveBase
    <2>3. Append(bases, b)[Len(bases) + 1] = b
      <3>1. bases \in Seq(ToSet(bases) \cup {b})
        BY <2>2, SeqDef, ElementOfSeq, AppendAny
      <3> QED BY <3>1, AppendProperties
    <2>4. Len(bases) + 1 = scope
      BY <2>2, OneLess
    <2>5. bases'[scope'] = b
      BY <2>1, <2>3, <2>4
    <2> QED BY <2>1, <2>5 DEF Commands, Comparing, Filing
  <1> QED BY <1>1, <1>2

LEMMA TrackedPaths == Shape /\ ListTracked => Commands'
  <1> SUFFICES ASSUME Shape, ListTracked PROVE Commands'
    OBVIOUS
  <1>1. pc = "list tracked" /\ pc' = "list untracked" /\ scope' = scope /\ bases' = bases /\ mode' = mode
    BY DEF ListTracked, Lists, Goto, Reads, results, inputs
  <1>2. git' = [git EXCEPT !.tracked = Added(OldTree, NewFiles) \cup Modified(OldTree, NewFiles)]
    BY DEF ListTracked
  <1>3. Added(OldTree, NewFiles) \cup Modified(OldTree, NewFiles) \subseteq Known
    BY <1>1, KnownPaths DEF Shape, Unpinned, Gathering, Added, Modified
  <1> QED BY <1>1, <1>2, <1>3 DEF Shape, Commands, Comparing, Filing

LEMMA UntrackedPaths == Shape /\ ListUntracked => Commands'
  <1> SUFFICES ASSUME Shape, ListUntracked PROVE Commands'
    OBVIOUS
  <1>1. pc = "list untracked" /\ pc' = "list additions" /\ scope' = scope /\ bases' = bases /\ mode' = mode
    BY DEF ListUntracked, Lists, Goto, Reads, results, inputs
  <1>2. git' = [git EXCEPT !.untracked = IF mode = "live" THEN Untracked(world) \cap Here ELSE {}]
    BY DEF ListUntracked
  <1>3. Untracked(world) \cap Here \subseteq Known
    BY <1>1, KnownPaths DEF Shape, Unpinned, Gathering
  <1> QED BY <1>1, <1>2, <1>3 DEF Shape, Commands, Comparing, Filing

LEMMA CommandsStay == ASSUME Shape, [Next]_vars PROVE Commands'
  <1> USE DEF Shape, Commands, Reads, Goto, Fail, identity, readings, inputs, results, Early, Gathering, Comparing, Filing, Sourcing, Closed, Late, Unpinned, Anonymous
  <1>1. CASE Evidences
    BY <1>1, EvidenceSteps DEF Gathered, Gathering
  <1>4. CASE Pin
    BY <1>4 DEF Pin
  <1>5. CASE RecordBase
    BY <1>5 DEF RecordBase
  <1>6. CASE Identify
    BY <1>6 DEF Identify
  <1>7. CASE CleanBefore
    BY <1>7 DEF CleanBefore
  <1>8. CASE ResolveBase
    BY <1>8, ResolvedBase
  <1>9. CASE ListRenames
    BY <1>9 DEF ListRenames, Lists
  <1>10. CASE ListTracked
    BY <1>10, TrackedPaths
  <1>11. CASE ListUntracked
    BY <1>11, UntrackedPaths
  <1>12. CASE ListAdditions
    BY <1>12 DEF ListAdditions
  <1>13. CASE DiffTracked
    BY <1>13 DEF DiffTracked
  <1>14. CASE ShowBase
    BY <1>14 DEF ShowBase, AddFile
  <1>15. CASE ScopeDone
    BY <1>15 DEF ScopeDone, NextScope
  <1>16. CASE Open
    BY <1>16 DEF Open, IsSubject
  <1>17. CASE ReadText
    BY <1>17 DEF ReadText, IsSubject
  <1>18. CASE Recheck
    BY <1>18 DEF Recheck, AddFile
  <1>19. CASE ReadCommitted
    BY <1>19 DEF ReadCommitted
  <1>20. CASE ListRepository
    BY <1>20 DEF ListRepository
  <1>21. CASE RecheckSource
    BY <1>21 DEF RecheckSource
  <1>22. CASE RepositoryRead
    BY <1>22 DEF RepositoryRead, NextScope
  <1>23. CASE BuildIndex
    BY <1>23 DEF BuildIndex
  <1>24. CASE StatusAfter
    BY <1>24 DEF StatusAfter
  <1>25. CASE HeadAfter
    BY <1>25 DEF HeadAfter
  <1>26. CASE Report
    BY <1>26 DEF Report
  <1>27. CASE Develop
    BY <1>27 DEF Develop, vars
  <1>28. CASE UNCHANGED vars
    BY <1>28 DEF vars
  <1> QED
    BY <1>1, <1>4, <1>5, <1>6, <1>7, <1>8, <1>9, <1>10, <1>11, <1>12, <1>13, <1>14, <1>15, <1>16, <1>17, <1>18, <1>19, <1>20, <1>21, <1>22, <1>23, <1>24, <1>25, <1>26, <1>27, <1>28
    DEF Next, Identifies, Listings, Subjecting, Prepass, Closing

LEMMA IdentifiedStays == ASSUME Shape, [Next]_vars PROVE Identified'
  <1> USE DEF Shape, Types, Places, Identified, ReviewedHead, Reads, Goto, Fail, identity, readings, inputs, results, Early, Gathering, Comparing, Filing, Sourcing, Closed, Late, Unpinned, Anonymous
  <1>1. CASE Evidences
    <2>1. pc \in Early /\ pc' \in Anonymous \cup {"failed"} /\ pc' # "head after"
      BY <1>1, EvidenceSteps DEF Gathered
    <2>2. clean' = clean /\ still' = still /\ clean = FALSE
      BY <1>1, <2>1, EvidenceSteps DEF Gathered
    <2>3. ~still
      BY <2>2
    <2> HIDE DEF Shape, Types, Places, Early, Gathering, Comparing, Filing, Sourcing, Closed, Late, Unpinned, Anonymous
    <2> QED BY <2>1, <2>2, <2>3 DEF Identified
  <1>4. CASE Pin
    BY <1>4 DEF Pin
  <1>5. CASE RecordBase
    BY <1>5 DEF RecordBase
  <1>6. CASE Identify
    BY <1>6 DEF Identify
  <1>7. CASE CleanBefore
    BY <1>7 DEF CleanBefore
  <1>8. CASE ResolveBase
    BY <1>8 DEF ResolveBase
  <1>9. CASE ListRenames
    BY <1>9 DEF ListRenames, Lists
  <1>10. CASE ListTracked
    BY <1>10 DEF ListTracked, Lists
  <1>11. CASE ListUntracked
    BY <1>11 DEF ListUntracked, Lists
  <1>12. CASE ListAdditions
    BY <1>12 DEF ListAdditions
  <1>13. CASE DiffTracked
    BY <1>13 DEF DiffTracked
  <1>14. CASE ShowBase
    BY <1>14 DEF ShowBase, AddFile
  <1>15. CASE ScopeDone
    BY <1>15 DEF ScopeDone, NextScope
  <1>16. CASE Open
    BY <1>16 DEF Open, IsSubject
  <1>17. CASE ReadText
    BY <1>17 DEF ReadText, IsSubject
  <1>18. CASE Recheck
    BY <1>18 DEF Recheck, AddFile
  <1>19. CASE ReadCommitted
    BY <1>19 DEF ReadCommitted
  <1>20. CASE ListRepository
    BY <1>20 DEF ListRepository
  <1>21. CASE RecheckSource
    BY <1>21 DEF RecheckSource
  <1>22. CASE RepositoryRead
    BY <1>22 DEF RepositoryRead, NextScope
  <1>23. CASE BuildIndex
    BY <1>23 DEF BuildIndex
  <1>24. CASE StatusAfter
    BY <1>24 DEF StatusAfter
  <1>25. CASE HeadAfter
    BY <1>25 DEF HeadAfter
  <1>26. CASE Report
    BY <1>26 DEF Report
  <1>27. CASE Develop
    <2>1. moves' # 0
      <3>1. moves \in Nat /\ moves' = moves + 1
        BY <1>27 DEF Develop
      <3> QED BY <3>1, OneLater
    <2> QED BY <1>27, <2>1 DEF Develop
  <1>28. CASE UNCHANGED vars
    BY <1>28 DEF vars
  <1> QED
    BY <1>1, <1>4, <1>5, <1>6, <1>7, <1>8, <1>9, <1>10, <1>11, <1>12, <1>13, <1>14, <1>15, <1>16, <1>17, <1>18, <1>19, <1>20, <1>21, <1>22, <1>23, <1>24, <1>25, <1>26, <1>27, <1>28
    DEF Next, Identifies, Listings, Subjecting, Prepass, Closing

\* Shape is inductive: nothing else is needed to know where a review is.
LEMMA ShapeInvariant == Spec => []Shape
  <1>1. Shape /\ [Next]_vars => Shape'
    BY TypesStay, FiledOnceStays, PinningStays, PlacesStays, CommandsStay, IdentifiedStays DEF Shape
  <1> QED BY <1>1, InitShape, PTL DEF Spec

---------------------------------------------------------------------------
(* What was read for a path.                                               *)
Was(p, t) == \E w \in past : p \in DOMAIN w.work /\ w.work[p].text = t
Ours(q) == q \in DOMAIN world.work /\ world.work[q].ino = handle.ino

Kept ==
    (mode # "pinned" /\ moves <= 3) =>
        /\ \A p \in DOMAIN context : Was(p, context[p])
        /\ mode = "live" => \A i \in DOMAIN files :
              (files[i].base = <<>> /\ files[i].text # <<>>) => Was(files[i].path, files[i].text)

Shown ==
    (pc = "show base" /\ mode = "live" /\ handle.text # <<>>) => Was(Path, handle.text)

\* One move can bring the file elsewhere, but as it was; it takes another to
\* write to it there.
Opened ==
    pc \in {"read", "read source"} =>
        /\ Was(Path, handle.text)
        /\ moves = 0 => Ours(Path)
        /\ moves <= 1 => \A q : Ours(q) => q = Path \/ (moves = 1 /\ Was(Path, world.work[q].text))

\* A text that was never this path's is that of a file elsewhere, which can
\* only come here as it is, and then the text is this path's.
Compared ==
    (pc \in {"recheck", "recheck source"} /\ moves <= 3) =>
        \/ Was(Path, handle.text)
        \/ /\ moves >= 2
           /\ \A q : Ours(q) => q # Path /\ (moves = 2 => world.work[q].text = handle.text)
           /\ moves = 2 => \E q : Ours(q)

Read == Kept /\ Shown /\ Opened /\ Compared

\* The steps that read.
LEMMA TextsChange ==
    ASSUME [Next]_vars
    PROVE  UNCHANGED <<context, files>> \/ ShowBase \/ Recheck \/ ReadCommitted \/ RecheckSource
  <1> USE DEF Reads, Goto, Fail, identity, readings, inputs, results
  <1>1. CASE Evidences
    BY <1>1, EvidenceSteps DEF Gathered, Gathering
  <1>4. CASE Pin
    BY <1>4 DEF Pin
  <1>5. CASE RecordBase
    BY <1>5 DEF RecordBase
  <1>6. CASE Identify
    BY <1>6 DEF Identify
  <1>7. CASE CleanBefore
    BY <1>7 DEF CleanBefore
  <1>8. CASE ResolveBase
    BY <1>8 DEF ResolveBase
  <1>9. CASE ListRenames
    BY <1>9 DEF ListRenames, Lists
  <1>10. CASE ListTracked
    BY <1>10 DEF ListTracked, Lists
  <1>11. CASE ListUntracked
    BY <1>11 DEF ListUntracked, Lists
  <1>12. CASE ListAdditions
    BY <1>12 DEF ListAdditions
  <1>13. CASE DiffTracked
    BY <1>13 DEF DiffTracked
  <1>14. CASE ShowBase
    BY <1>14
  <1>15. CASE ScopeDone
    BY <1>15 DEF ScopeDone, NextScope
  <1>16. CASE Open
    BY <1>16 DEF Open, IsSubject
  <1>17. CASE ReadText
    BY <1>17 DEF ReadText, IsSubject
  <1>18. CASE Recheck
    BY <1>18
  <1>19. CASE ReadCommitted
    BY <1>19
  <1>20. CASE ListRepository
    BY <1>20 DEF ListRepository
  <1>21. CASE RecheckSource
    BY <1>21
  <1>22. CASE RepositoryRead
    BY <1>22 DEF RepositoryRead, NextScope
  <1>23. CASE BuildIndex
    BY <1>23 DEF BuildIndex
  <1>24. CASE StatusAfter
    BY <1>24 DEF StatusAfter
  <1>25. CASE HeadAfter
    BY <1>25 DEF HeadAfter
  <1>26. CASE Report
    BY <1>26 DEF Report
  <1>27. CASE Develop
    BY <1>27 DEF Develop, vars
  <1>28. CASE UNCHANGED vars
    BY <1>28 DEF vars
  <1> QED
    BY <1>1, <1>4, <1>5, <1>6, <1>7, <1>8, <1>9, <1>10, <1>11, <1>12, <1>13, <1>14, <1>15, <1>16, <1>17, <1>18, <1>19, <1>20, <1>21, <1>22, <1>23, <1>24, <1>25, <1>26, <1>27, <1>28
    DEF Next, Identifies, Listings, Subjecting, Prepass, Closing

LEMMA ComesTo ==
    ASSUME [Next]_vars
    PROVE  /\ pc' \in {"read", "read source"} => Open \/ Develop \/ UNCHANGED vars
           /\ pc' \in {"recheck", "recheck source"} => ReadText \/ Develop \/ UNCHANGED vars
           /\ pc' = "show base" => DiffTracked \/ Develop \/ UNCHANGED vars
  <1> USE DEF Reads, Goto, Fail, identity, readings, inputs, results
  <1>1. CASE Evidences
    BY <1>1, EvidenceSteps DEF Gathered, Gathering
  <1>4. CASE Pin
    BY <1>4 DEF Pin
  <1>5. CASE RecordBase
    BY <1>5 DEF RecordBase
  <1>6. CASE Identify
    BY <1>6 DEF Identify
  <1>7. CASE CleanBefore
    BY <1>7 DEF CleanBefore
  <1>8. CASE ResolveBase
    BY <1>8 DEF ResolveBase
  <1>9. CASE ListRenames
    BY <1>9 DEF ListRenames, Lists
  <1>10. CASE ListTracked
    BY <1>10 DEF ListTracked, Lists
  <1>11. CASE ListUntracked
    BY <1>11 DEF ListUntracked, Lists
  <1>12. CASE ListAdditions
    BY <1>12 DEF ListAdditions
  <1>13. CASE DiffTracked
    BY <1>13 DEF DiffTracked
  <1>14. CASE ShowBase
    BY <1>14 DEF ShowBase, AddFile
  <1>15. CASE ScopeDone
    BY <1>15 DEF ScopeDone, NextScope
  <1>16. CASE Open
    BY <1>16 DEF Open, IsSubject
  <1>17. CASE ReadText
    BY <1>17 DEF ReadText, IsSubject
  <1>18. CASE Recheck
    BY <1>18 DEF Recheck, AddFile
  <1>19. CASE ReadCommitted
    BY <1>19 DEF ReadCommitted
  <1>20. CASE ListRepository
    BY <1>20 DEF ListRepository
  <1>21. CASE RecheckSource
    BY <1>21 DEF RecheckSource
  <1>22. CASE RepositoryRead
    BY <1>22 DEF RepositoryRead, NextScope
  <1>23. CASE BuildIndex
    BY <1>23 DEF BuildIndex
  <1>24. CASE StatusAfter
    BY <1>24 DEF StatusAfter
  <1>25. CASE HeadAfter
    BY <1>25 DEF HeadAfter
  <1>26. CASE Report
    BY <1>26 DEF Report
  <1>27. CASE Develop
    BY <1>27
  <1>28. CASE UNCHANGED vars
    BY <1>28
  <1> QED
    BY <1>1, <1>4, <1>5, <1>6, <1>7, <1>8, <1>9, <1>10, <1>11, <1>12, <1>13, <1>14, <1>15, <1>16, <1>17, <1>18, <1>19, <1>20, <1>21, <1>22, <1>23, <1>24, <1>25, <1>26, <1>27, <1>28
    DEF Next, Identifies, Listings, Subjecting, Prepass, Closing

LEMMA MovesGrow ==
    ASSUME Shape, [Next]_vars
    PROVE  /\ past \subseteq past' /\ mode' = mode /\ moves' \in Nat
           /\ moves' <= 3 => moves <= 3
           /\ \A p, t : Was(p, t) => Was(p, t)'
  <1>1. moves \in Nat
    BY DEF Shape, Types
  <1>2. CASE Develop
    <2>1. past \subseteq past' /\ mode' = mode /\ moves' = moves + 1
      BY <1>2 DEF Develop
    <2>2. moves' <= 3 => moves <= 3
      BY <1>1, <2>1
    <2> QED BY <2>1, <2>2, CheckoutStays DEF Was
  <1>3. CASE UNCHANGED <<world, moves, mode, auxiliary, past>>
    BY <1>1, <1>3 DEF Was
  <1> QED BY <1>2, <1>3, OnlyDevelop

\* One path at most leads to the open file.
LEMMA OneIsOurs ==
    ASSUME Shape, NEW p, NEW q, Ours(p), Ours(q)
    PROVE  p = q
  <1>1. Parts(world)
    BY CheckoutFacts DEF Shape, Types
  <1> QED BY <1>1 DEF Parts, Ours

\* A file that has moved is as it was.
LEMMA MovedAsItWas ==
    ASSUME Shape, Develop, NEW q, Ours(q)', \E p : Ours(p)
    PROVE  Ours(q) \/ \E p : Ours(p) /\ world'.work[q].text = world.work[p].text
  <1>1. world' \in Steps /\ handle' = handle
    BY DEF Develop, readings
  <1>2. ComesFrom(world, world')
    BY <1>1, StepsOfCheckouts DEF Shape, Types
  <1>3. q \in DOMAIN world'.work /\ world'.work[q].ino = handle.ino
    BY <1>1 DEF Ours
  <1>4. CASE \E p \in DOMAIN world.work : world'.work[q] = world.work[p]
    BY <1>3, <1>4 DEF Ours
  <1>5. CASE \A p \in DOMAIN world.work : world.work[p].ino # world'.work[q].ino
    BY <1>3, <1>5 DEF Ours
  <1>6. CASE q \in DOMAIN world.work /\ world'.work[q].ino = world.work[q].ino
    BY <1>3, <1>6 DEF Ours
  <1> QED BY <1>2, <1>3, <1>4, <1>5, <1>6 DEF ComesFrom

LEMMA StillInHand == ASSUME UNCHANGED vars PROVE Kept' <=> Kept
  BY DEF vars, Kept, Was, inputs, results

LEMMA DiffedText ==
    ASSUME DiffTracked, ~Fail
    PROVE  handle'.text = TextAt(InScope(NewFiles, {Path, BasePath}), Path)
  <1>1. \E x : handle' = [patch |-> x, text |-> TextAt(InScope(NewFiles, {Path, BasePath}), Path)]
    BY Zenon DEF DiffTracked
  <1> QED BY <1>1

LEMMA ShownStays == ASSUME Shape, Read, [Next]_vars PROVE Shown'
  <1> SUFFICES ASSUME pc' = "show base", mode' = "live", handle'.text # <<>>
               PROVE  Was(Path, handle.text)'
    BY DEF Shown
  <1>1. CASE DiffTracked
    <2> DEFINE new == InScope(NewFiles, {Path, BasePath})
    <2>0. ~Fail
      BY DEF Fail, Goto
    <2>7. todo' = todo /\ past' = past /\ mode' = mode
      BY <1>1, <2>0 DEF DiffTracked, Reads
    <2>1. handle'.text = TextAt(new, Path)
      BY <1>1, <2>0, DiffedText
    <2>2. Path \in DOMAIN new /\ handle'.text = new[Path]
      BY <2>1 DEF TextAt
    <2>3. Path \in DOMAIN NewFiles /\ handle'.text = NewFiles[Path]
      BY <2>2 DEF InScope
    <2>4. pinned = Nothing
      BY <2>7 DEF Shape, Pinning
    <2>5. Path \in DOMAIN world.work /\ handle'.text = world.work[Path].text
      BY <2>3, <2>4 DEF NewFiles, NewTree, InScope, WorkTexts
    <2>6. world \in past
      BY DEF Shape, Types
    <2> QED BY <2>7, <2>5, <2>6 DEF Was, Path
  <1>2. CASE Develop
    <2>1. pc' = pc /\ handle' = handle /\ todo' = todo /\ mode' = mode
      BY <1>2 DEF Develop, readings
    <2>2. Was(Path, handle.text)
      BY <2>1 DEF Read, Shown
    <2>3. Was(Path, handle.text)'
      BY <2>1, <2>2, MovesGrow DEF Path, Was
    <2> QED BY <2>3
  <1>3. CASE UNCHANGED vars
    BY <1>3 DEF vars, readings, Read, Shown, Was, Path
  <1> QED BY <1>1, <1>2, <1>3, ComesTo

LEMMA MoveNumbers ==
    \A n \in Nat : /\ n + 1 <= 1 => n = 0 /\ n + 1 = 1
                   /\ (n + 1 <= 3 /\ n >= 2) => n = 2 /\ n + 1 = 3 /\ n + 1 >= 2 /\ n + 1 # 2
                   /\ n = 0 => n <= 1 /\ n # 1
                   /\ ~(n <= 1) => n >= 2
  OBVIOUS

LEMMA MoveCounts ==
    ASSUME Shape
    PROVE  /\ moves = 0 => moves <= 1 /\ moves # 1
           /\ ~(moves <= 1) => moves >= 2
           /\ Develop => /\ moves' <= 1 => moves = 0 /\ moves' = 1
                         /\ (moves' <= 3 /\ moves >= 2) => moves = 2 /\ moves' = 3 /\ moves' >= 2 /\ moves' # 2
  <1>1. moves \in Nat /\ (Develop => moves' = moves + 1)
    BY DEF Shape, Types, Develop
  <1> QED BY <1>1, MoveNumbers

LEMMA OpenedStays == ASSUME Shape, Read, [Next]_vars PROVE Opened'
  <1> SUFFICES ASSUME pc' \in {"read", "read source"}
               PROVE  /\ Was(Path, handle.text)'
                      /\ moves' = 0 => Ours(Path)'
                      /\ moves' <= 1 => \A q : Ours(q)' =>
                            q = Path' \/ (moves' = 1 /\ Was(Path, world.work[q].text)')
    BY Zenon DEF Opened
  <1>0. moves \in Nat /\ world \in past /\ world' \in past'
    BY CheckoutStays DEF Shape, Types
  <1>1. CASE Open
    <2>1. pc \in {"next file", "next source"}
      BY <1>1 DEF Open
    <2>2. Path \in DOMAIN world.work /\ handle' = world.work[Path] /\ todo' = todo
      BY <1>1, <2>1 DEF Open, Goto
    <2>3. world' = world /\ past' = past
      BY <1>1 DEF Open, Reads
    <2>4. Ours(Path)' /\ Was(Path, handle.text)' /\ Path' = Path
      BY <2>2, <2>3, <1>0 DEF Ours, Was, Path
    <2>5. Parts(world)
      BY CheckoutFacts DEF Shape, Types
    <2>6. ASSUME NEW q, Ours(q)' PROVE q = Path
      BY <2>2, <2>3, <2>5, <2>6 DEF Ours, Parts
    <2> QED BY <2>4, <2>6
  <1>2. CASE Develop
    <2>1. /\ pc' = pc /\ handle' = handle /\ todo' = todo /\ moves' = moves + 1
          /\ past' = past \cup {world'}
      BY <1>2 DEF Develop, readings
    <2>2. Opened /\ pc \in {"read", "read source"}
      BY <2>1 DEF Read
    <2>3. Was(Path, handle.text)' /\ Path' = Path
      BY <2>1, <2>2 DEF Opened, Was, Path
    <2>4. moves' # 0
      BY <1>0, <2>1, OneLater
    <2>5. ASSUME moves' <= 1, NEW q, Ours(q)'
          PROVE  q = Path' \/ (moves' = 1 /\ Was(Path, world.work[q].text)')
      <3>1. moves = 0 /\ moves' = 1
        BY <1>2, <2>5, MoveCounts
      <3>2. Ours(Path) /\ \A s : Ours(s) => s = Path
        <4>1. Opened /\ moves = 0 /\ moves <= 1
          BY <2>2, <3>1, MoveCounts
        <4>2. moves # 1
          BY <3>1, MoveCounts
        <4>3. Ours(Path)
          BY <4>1, <2>2 DEF Opened
        <4>4. ASSUME NEW s, Ours(s) PROVE s = Path
          BY <4>1, <4>2, <4>4, <2>2 DEF Opened
        <4> QED BY <4>3, <4>4
      <3>3. Ours(q) \/ \E p : Ours(p) /\ world'.work[q].text = world.work[p].text
        BY <1>2, <2>5, <3>2, MovedAsItWas
      <3>4. CASE Ours(q)
        BY <3>2, <3>4, <2>3
      <3>5. CASE \E p : Ours(p) /\ world'.work[q].text = world.work[p].text
        <4>1. world'.work[q].text = world.work[Path].text /\ Path \in DOMAIN world.work
          BY <3>2, <3>5 DEF Ours
        <4>2. Was(Path, world'.work[q].text)
          BY <4>1, <1>0 DEF Was
        <4>3. Was(Path, world.work[q].text)'
          BY <4>2, <2>1 DEF Was, Path
        <4> QED BY <3>1, <4>3
      <3> QED BY <3>3, <3>4, <3>5
    <2> QED BY <2>3, <2>4, <2>5
  <1>3. CASE UNCHANGED vars
    <2>1. /\ pc' = pc /\ handle' = handle /\ todo' = todo /\ moves' = moves /\ past' = past
          /\ world' = world
      BY <1>3 DEF vars, readings
    <2>2. Opened
      BY DEF Read
    <2> QED BY <2>1, <2>2 DEF Opened, Was, Ours, Path
  <1> QED BY <1>1, <1>2, <1>3, ComesTo

\* What is read of the open file: its text where it is, if it is anywhere.
LEMMA TextRead ==
    ASSUME Shape, NEW f, handle = f
    PROVE  \/ TextOf(f) = f.text /\ \A q : ~Ours(q)
           \/ \E p : Ours(p) /\ TextOf(f) = world.work[p].text
  <1> DEFINE at == {p \in DOMAIN world.work : world.work[p].ino = f.ino}
  <1>1. CASE at = {}
    BY <1>1 DEF TextOf, Ours
  <1>2. CASE at # {}
    <2>1. (CHOOSE p \in at : TRUE) \in at
      BY <1>2
    <2>2. TextOf(f) = world.work[CHOOSE p \in at : TRUE].text
      BY <1>2 DEF TextOf
    <2> QED BY <2>1, <2>2 DEF Ours
  <1> QED BY <1>1, <1>2

LEMMA ComparedStays == ASSUME Shape, Read, [Next]_vars PROVE Compared'
  <1> SUFFICES ASSUME pc' \in {"recheck", "recheck source"}, moves' <= 3, ~Was(Path, handle.text)'
               PROVE  /\ moves' >= 2
                      /\ \A q : Ours(q)' => q # Path' /\ (moves' = 2 => world'.work[q].text = handle'.text)
                      /\ moves' = 2 => \E q : Ours(q)'
    BY Zenon DEF Compared
  <1>0. moves \in Nat /\ world \in past /\ world' \in past'
    BY CheckoutStays DEF Shape, Types
  <1>1. CASE ReadText
    <2>1. pc \in {"read", "read source"}
      BY <1>1 DEF ReadText
    <2>2. /\ Path \in DOMAIN world.work /\ todo' = todo
          /\ handle' = [ino |-> handle.ino, size |-> Len(handle.text), text |-> TextOf(handle)]
      <3>1. ~(Path \notin DOMAIN world.work)
        <4> SUFFICES ASSUME Path \notin DOMAIN world.work PROVE FALSE
          OBVIOUS
        <4> QED BY <1>1 DEF ReadText, Goto
      <3> QED BY <1>1, <3>1 DEF ReadText
    <2>3. world' = world /\ past' = past /\ moves' = moves
      BY <1>1 DEF ReadText, Reads
    <2>4. handle'.ino = handle.ino /\ handle'.text = TextOf(handle) /\ Path' = Path
      BY <2>2 DEF Path
    <2>5. Opened
      BY DEF Read
    <2>6. ~Was(Path, TextOf(handle))
      BY <2>3, <2>4 DEF Was, Path
    <2>7. PICK p : Ours(p) /\ TextOf(handle) = world.work[p].text
      BY <2>6, <2>5, <2>1, TextRead DEF Opened
    <2>8. p # Path
      BY <2>6, <2>7, <1>0 DEF Was, Ours
    <2>9. ~(moves <= 1)
      <3> SUFFICES ASSUME moves <= 1 PROVE FALSE
        OBVIOUS
      <3>1. p = Path \/ (moves = 1 /\ Was(Path, world.work[p].text))
        BY <2>1, <2>5, <2>7 DEF Opened
      <3> QED BY <3>1, <2>6, <2>7, <2>8
    <2>10. \A q : Ours(q) => q = p
      BY <2>7, OneIsOurs
    <2>11. \A q : Ours(q)' <=> Ours(q)
      BY <2>3, <2>4 DEF Ours
    <2>12. moves' >= 2
      BY <2>9, <2>3, MoveCounts
    <2>13. ASSUME NEW q, Ours(q)'
           PROVE  q # Path' /\ world'.work[q].text = handle'.text
      <3>1. q = p
        BY <2>10, <2>11, <2>13
      <3> QED BY <3>1, <2>3, <2>4, <2>7, <2>8
    <2>14. Ours(p)'
      BY <2>7, <2>11
    <2>15. \A q : Ours(q)' => q # Path' /\ (moves' = 2 => world'.work[q].text = handle'.text)
      BY <2>13
    <2>16. \E q : Ours(q)'
      BY <2>14
    <2> QED BY <2>12, <2>15, <2>16
  <1>2. CASE Develop
    <2>1. /\ pc' = pc /\ handle' = handle /\ todo' = todo /\ moves' = moves + 1
          /\ past' = past \cup {world'}
      BY <1>2 DEF Develop, readings
    <2>2. ~Was(Path, handle.text) /\ Path' = Path
      BY <2>1 DEF Was, Path
    <2>3. moves <= 3
      BY MovesGrow
    <2>4. /\ moves >= 2
          /\ \A q : Ours(q) => q # Path /\ (moves = 2 => world.work[q].text = handle.text)
          /\ moves = 2 => \E q : Ours(q)
      BY <2>1, <2>2, <2>3 DEF Read, Compared
    <2>5. moves = 2 /\ moves' >= 2 /\ moves' # 2
      BY <1>2, <2>4, MoveCounts
    <2>6. ASSUME NEW q, Ours(q)' PROVE q # Path
      <3>1. Ours(q) \/ \E p : Ours(p) /\ world'.work[q].text = world.work[p].text
        BY <1>2, <2>6, <2>4, <2>5, MovedAsItWas
      <3>2. CASE Ours(q)
        BY <3>2, <2>4
      <3>3. CASE \E p : Ours(p) /\ world'.work[q].text = world.work[p].text
        <4>1. world'.work[q].text = handle.text /\ q \in DOMAIN world'.work
          BY <3>3, <2>4, <2>5, <2>6 DEF Ours
        <4>2. q # Path'
          BY <4>1, <2>1, <1>0 DEF Was
        <4> QED BY <4>2, <2>2
      <3> QED BY <3>1, <3>2, <3>3
    <2> QED BY <2>2, <2>5, <2>6
  <1>3. CASE UNCHANGED vars
    <2>1. /\ pc' = pc /\ handle' = handle /\ todo' = todo /\ moves' = moves /\ past' = past
          /\ world' = world
      BY <1>3 DEF vars, readings
    <2>2. Compared
      BY DEF Read
    <2> QED BY <2>1, <2>2 DEF Compared, Was, Ours, Path
  <1> QED BY <1>1, <1>2, <1>3, ComesTo

\* What adding a file adds.
LEMMA AddedFile ==
    ASSUME FiledOnce, NEW p, NEW patch, NEW base, NEW text, AddFile(p, patch, base, text)
    PROVE  /\ \A i \in DOMAIN files' :
                \/ i \in DOMAIN files /\ files'[i] = files[i]
                \/ /\ files'[i].path = p /\ files'[i].base = base /\ files'[i].text = text
                   /\ p \notin Discovered
           /\ \A i \in DOMAIN files : i \in DOMAIN files' /\ files'[i] = files[i]
           /\ Discovered' = Discovered \cup {p}
  <1>1. CASE p \in Discovered
    <2>1. files' = files
      BY <1>1 DEF AddFile
    <2> QED BY <1>1, <2>1 DEF Discovered
  <1>2. CASE p \notin Discovered
    <2> DEFINE e == [path |-> p, patch |-> patch, base |-> base, text |-> text]
    <2>1. files' = Append(files, e)
      BY <1>2 DEF AddFile
    <2>2. files \in Seq(ToSet(files)) /\ e.path = p /\ e.base = base /\ e.text = text
      BY DEF FiledOnce
    <2> HIDE DEF e
    <2>3. /\ files' \in Seq(ToSet(files')) /\ Len(files) \in Nat
          /\ DOMAIN files = 1..Len(files) /\ DOMAIN files' = 1..(Len(files) + 1)
      BY <2>1, <2>2, AppendAny
    <2>4. (\A i \in 1..Len(files) : files'[i] = files[i]) /\ files'[Len(files) + 1] = e
      <3>1. files \in Seq(ToSet(files) \cup {e})
        BY <2>2, <2>3, SeqDef, ElementOfSeq
      <3> QED BY <2>1, <3>1, AppendProperties
    <2>5. \A i \in DOMAIN files' : i \in DOMAIN files \/ i = Len(files) + 1
      BY <2>3
    <2>6. \A i \in DOMAIN files : i \in DOMAIN files' /\ files'[i] = files[i]
      BY <2>3, <2>4
    <2>7. Len(files) + 1 \in DOMAIN files'
      BY <2>3
    <2>8. Discovered' = Discovered \cup {p}
      <3>1. Discovered' \subseteq Discovered \cup {p}
        BY <2>2, <2>4, <2>5, <2>6 DEF Discovered
      <3>2. Discovered \cup {p} \subseteq Discovered'
        BY <2>2, <2>4, <2>6, <2>7 DEF Discovered
      <3> QED BY <3>1, <3>2
    <2> QED BY <1>2, <2>2, <2>4, <2>5, <2>6, <2>8
  <1> QED BY <1>1, <1>2

\* A file that is still that of the path, and was read from it.
LEMMA WasOurs ==
    ASSUME Shape, Read, pc \in {"recheck", "recheck source"}, moves <= 3, SameFile
    PROVE  Was(Path, handle.text)
  <1>1. Ours(Path)
    BY DEF SameFile, IsStill, Ours
  <1> QED BY <1>1 DEF Read, Compared

SeenIn(S, p, t) == \E w \in S : p \in DOMAIN w.work /\ w.work[p].text = t

LEMMA StillSeen == ASSUME NEW S, NEW T, S \subseteq T, NEW p, NEW t, SeenIn(S, p, t) PROVE SeenIn(T, p, t)
  BY DEF SeenIn

LEMMA KeptStays == ASSUME Shape, Read, [Next]_vars PROVE Kept'
  <1> SUFFICES ASSUME mode # "pinned", moves <= 3, mode' = mode, moves' <= 3
               PROVE  /\ \A p \in DOMAIN context' : SeenIn(past', p, context'[p])
                      /\ mode = "live" => \A i \in DOMAIN files' :
                            (files'[i].base = <<>> /\ files'[i].text # <<>>)
                              => SeenIn(past', files'[i].path, files'[i].text)
    BY MovesGrow DEF Kept, Was, SeenIn
  <1>0. /\ \A p \in DOMAIN context : SeenIn(past, p, context[p])
        /\ mode = "live" => \A i \in DOMAIN files :
              (files[i].base = <<>> /\ files[i].text # <<>>) => SeenIn(past, files[i].path, files[i].text)
    BY DEF Read, Kept, Was, SeenIn
  <1>1. past \subseteq past'
    BY MovesGrow
  <1>2. /\ \A p, t : Was(p, t) => SeenIn(past', p, t)
        /\ \A p, t : SeenIn(past, p, t) => SeenIn(past', p, t)
    BY <1>1, StillSeen DEF Was, SeenIn
  <1>3. ASSUME UNCHANGED context
        PROVE  \A p \in DOMAIN context' : SeenIn(past', p, context'[p])
    BY <1>0, <1>2, <1>3
  <1>4. ASSUME UNCHANGED files
        PROVE  mode = "live" => \A i \in DOMAIN files' :
                 (files'[i].base = <<>> /\ files'[i].text # <<>>) => SeenIn(past', files'[i].path, files'[i].text)
    BY <1>0, <1>2, <1>4
  <1>5. ASSUME NEW patch, NEW base, NEW text, AddFile(Path, patch, base, text),
               mode = "live" /\ text # <<>> => Was(Path, text)
        PROVE  mode = "live" => \A i \in DOMAIN files' :
                 (files'[i].base = <<>> /\ files'[i].text # <<>>) => SeenIn(past', files'[i].path, files'[i].text)
    <2>1. \A i \in DOMAIN files' :
             \/ i \in DOMAIN files /\ files'[i] = files[i]
             \/ files'[i].path = Path /\ files'[i].text = text
      BY <1>5, AddedFile DEF Shape
    <2> QED BY <2>1, <1>5, <1>0, <1>2
  <1>6. CASE ShowBase
    <2>1. pc = "show base"
      BY <1>6 DEF ShowBase
    <2>2. mode = "live" /\ handle.text # <<>> => Was(Path, handle.text)
      BY <2>1 DEF Read, Shown
    <2>3. context' = context
      BY <1>6 DEF ShowBase, Fail, AddFile, results, inputs
    <2>4. CASE Fail
      BY <2>3, <2>4, <1>3, <1>4 DEF Fail, results, inputs
    <2>5. CASE ~Fail
      <3>1. \E base : AddFile(Path, handle.patch, base, handle.text)
        BY <2>5, <1>6 DEF ShowBase
      <3> QED BY <3>1, <2>2, <2>3, <1>3, <1>5
    <2> QED BY <2>4, <2>5
  <1>7. CASE Recheck
    <2>1. pc = "recheck"
      BY <1>7 DEF Recheck
    <2>2. context' = context
      BY <1>7 DEF Recheck, Fail, AddFile, results, inputs
    <2>3. CASE Fail
      BY <2>2, <2>3, <1>3, <1>4 DEF Fail, results, inputs
    <2>4. CASE ~Fail
      <3>1. SameFile /\ AddFile(Path, PatchForNewFile(handle.text), <<>>, handle.text)
        BY <2>4, <1>7 DEF Recheck
      <3>2. Was(Path, handle.text)
        BY <2>1, <3>1, WasOurs
      <3> QED BY <3>1, <3>2, <2>2, <1>3, <1>5
    <2> QED BY <2>3, <2>4
  <1>8. CASE ReadCommitted
    BY <1>8 DEF ReadCommitted
  <1>9. CASE RecheckSource
    <2>1. pc = "recheck source" /\ files' = files
      BY <1>9 DEF RecheckSource, Fail, results, inputs
    <2>2. CASE context' = context
      BY <2>1, <2>2, <1>3, <1>4
    <2>3. CASE context' = <<>>
      <3>1. DOMAIN context' = {}
        BY <2>3
      <3> QED BY <3>1, <2>1, <1>4
    <2>4. CASE SameFile /\ context' = Put(context, Path, handle.text)
      <3>1. Was(Path, handle.text)
        BY <2>1, <2>4, WasOurs
      <3>2. \A p \in DOMAIN context' :
              (p = Path /\ context'[p] = handle.text) \/ (p \in DOMAIN context /\ context'[p] = context[p])
        BY <2>4 DEF Put
      <3>3. \A p \in DOMAIN context' : SeenIn(past', p, context'[p])
        BY <3>1, <3>2, <1>0, <1>2
      <3> QED BY <3>3, <2>1, <1>4
    <2> QED BY <1>9, <2>2, <2>3, <2>4 DEF RecheckSource, Fail, results, inputs
  <1> QED BY <1>3, <1>4, <1>6, <1>7, <1>8, <1>9, TextsChange

\* Read is inductive under Shape.
LEMMA ReadInvariant == Spec => []Read
  <1>1. Init => Read
    <2> SUFFICES ASSUME Init PROVE Read
      OBVIOUS
    <2>1. DOMAIN context = {} /\ DOMAIN files = {} /\ pc \in {"evidence head", "pin"}
      <3>1. context = <<>> /\ files = <<>> /\ pc = IF auxiliary THEN "evidence head" ELSE "pin"
        BY DEF Init
      <3>2. DOMAIN <<>> = {}
        OBVIOUS
      <3> QED BY <3>1, <3>2
    <2> QED BY <2>1 DEF Read, Kept, Shown, Opened, Compared
  <1>2. Shape /\ Read /\ [Next]_vars => Read'
    BY KeptStays, ShownStays, OpenedStays, ComparedStays DEF Read
  <1> QED BY <1>1, <1>2, ShapeInvariant, PTL DEF Spec

LEMMA LeastRank ==
    ASSUME NEW S \in SUBSET Known, S # {}
    PROVE  \E p \in S : \A q \in S : Rank(p) <= Rank(q)
  <1> DEFINE R == {Rank(p) : p \in S}
  <1>1. R \subseteq Nat /\ R # {}
    BY RankFacts
  <1> HIDE DEF R
  <1>2. PICK n \in R : \A m \in R : <<m, n>> \notin OpToRel(<, Nat)
    BY <1>1, NatLessThanWellFounded, WFMin
  <1>3. \A m \in R : n <= m
    <2> SUFFICES ASSUME NEW m \in R PROVE n <= m
      OBVIOUS
    <2>1. n \in Nat /\ m \in Nat
      BY <1>1, <1>2
    <2>2. ~(m < n)
      BY <1>2, <2>1 DEF OpToRel
    <2> QED BY <2>1, <2>2
  <1> QED BY <1>2, <1>3 DEF R

\* Whatever the store holds, an honest entry says what the text gives.
LEMMA CachedIsExtracted ==
    ASSUME NEW s, StoreHonest(s), NEW p \in Known, NEW t
    PROVE  Cached(p, t, s) = Extract(p, t)
  <1>1. Key(p, t)[1] = t
    BY DEF Key
  <1>2. CASE Key(p, t) \in DOMAIN s /\ Valid(s[Key(p, t)], t)
    <2> DEFINE k == Key(p, t)
    <2>1. k \in DOMAIN s /\ k[1] = t /\ Key(p, k[1]) = k /\ Valid(s[k], k[1])
      BY <1>1, <1>2
    <2>2. p \in ToSet(PathOrder)
      BY DEF Known
    <2> HIDE DEF k
    <2>3. s[k] = Extract(p, k[1])
      BY <2>1, <2>2 DEF StoreHonest
    <2>4. s[k] = Extract(p, t)
      BY <2>1, <2>3
    <2>5. Cached(p, t, s) = s[k]
      BY <1>2 DEF Cached, k
    <2> QED BY <2>4, <2>5
  <1>3. CASE ~(Key(p, t) \in DOMAIN s /\ Valid(s[Key(p, t)], t))
    BY <1>3 DEF Cached
  <1> QED BY <1>2, <1>3

LEMMA NoStore == StoreHonest(<<>>)
  <1>1. DOMAIN <<>> = {}
    OBVIOUS
  <1> QED BY <1>1 DEF StoreHonest

\* What is kept under a key of these texts does not depend on the store.
LEMMA KeptIsExtracted ==
    ASSUME NEW texts, DOMAIN texts \subseteq Known, NEW s, StoreHonest(s), NEW p \in Indexed(texts)
    PROVE  WriteBack(texts, s)[Key(p, texts[p])] = WriteBack(texts, <<>>)[Key(p, texts[p])]
  <1> DEFINE keys == {Key(q, texts[q]) : q \in Indexed(texts)}
             k == Key(p, texts[p])
             Leads(q) == /\ Key(q, texts[q]) = k
                         /\ \A r \in Indexed(texts) : Key(r, texts[r]) = k => Rank(q) <= Rank(r)
             F == CHOOSE q \in Indexed(texts) : Leads(q)
  <1>1. Indexed(texts) \subseteq Known /\ k \in keys
    BY DEF Indexed
  <1>2. \E q \in Indexed(texts) : Leads(q)
    <2> DEFINE S == {q \in Indexed(texts) : Key(q, texts[q]) = k}
    <2>1. S \in SUBSET Known /\ p \in S
      BY <1>1
    <2>2. PICK q \in S : \A r \in S : Rank(q) <= Rank(r)
      BY <2>1, LeastRank
    <2> QED BY <2>2
  <1>3. F \in Known
    BY <1>1, <1>2
  <1>4. \A z : WriteBack(texts, z)[k] = Cached(F, texts[F], z)
    BY <1>1 DEF WriteBack
  <1> HIDE DEF F, k
  <1>5. Cached(F, texts[F], s) = Cached(F, texts[F], <<>>)
    BY <1>3, NoStore, CachedIsExtracted
  <1> QED BY <1>4, <1>5 DEF k

\* Building over an honest store is building over none.
LEMMA BuildIsFresh ==
    ASSUME NEW texts, DOMAIN texts \subseteq Known, NEW s, StoreHonest(s)
    PROVE  Build(texts, s) = Build(texts, <<>>)
  <1>1. [p \in Indexed(texts) |-> WriteBack(texts, s)[Key(p, texts[p])]]
          = [p \in Indexed(texts) |-> WriteBack(texts, <<>>)[Key(p, texts[p])]]
    BY KeptIsExtracted
  <1> QED BY <1>1, Zenon DEF Build

(* The index, and the paths it is built from.                              *)
KnownContext == DOMAIN context \subseteq Known

LEMMA KnownContextStays == ASSUME Shape, KnownContext, [Next]_vars PROVE KnownContext'
  <1> USE DEF KnownContext, Reads, Goto, Fail, identity, readings, inputs, results
  <1>1. CASE Evidences
    BY <1>1, EvidenceSteps DEF Gathered, Gathering
  <1>4. CASE Pin
    BY <1>4 DEF Pin
  <1>5. CASE RecordBase
    BY <1>5 DEF RecordBase
  <1>6. CASE Identify
    BY <1>6 DEF Identify
  <1>7. CASE CleanBefore
    BY <1>7 DEF CleanBefore
  <1>8. CASE ResolveBase
    BY <1>8 DEF ResolveBase
  <1>9. CASE ListRenames
    BY <1>9 DEF ListRenames, Lists
  <1>10. CASE ListTracked
    BY <1>10 DEF ListTracked, Lists
  <1>11. CASE ListUntracked
    BY <1>11 DEF ListUntracked, Lists
  <1>12. CASE ListAdditions
    BY <1>12 DEF ListAdditions
  <1>13. CASE DiffTracked
    BY <1>13 DEF DiffTracked
  <1>14. CASE ShowBase
    BY <1>14 DEF ShowBase, AddFile
  <1>15. CASE ScopeDone
    BY <1>15 DEF ScopeDone, NextScope
  <1>16. CASE Open
    BY <1>16 DEF Open, IsSubject
  <1>17. CASE ReadText
    BY <1>17 DEF ReadText, IsSubject
  <1>18. CASE Recheck
    BY <1>18 DEF Recheck, AddFile
  <1>19. CASE ReadCommitted
    <2>1. pinned \in Commits \/ pc' = "failed"
      BY <1>19 DEF ReadCommitted, Shape, Pinning, Unpinned, Gathering
    <2>2. pc' = "failed" => context' = context
      BY <1>19 DEF ReadCommitted
    <2>3. pc' # "failed" => context' = Committed
      BY <1>19 DEF ReadCommitted
    <2>4. pinned \in Commits => DOMAIN Committed \subseteq Known
      BY DiscoveryAssumption DEF DiscoveryAssumption, Committed, Subjects, Known
    <2> QED BY <2>1, <2>2, <2>3, <2>4
  <1>20. CASE ListRepository
    BY <1>20 DEF ListRepository
  <1>21. CASE RecheckSource
    <2>1. pc = "recheck source" /\ todo # <<>> /\ todo \in Seq(Known)
      BY <1>21 DEF RecheckSource, Shape, Types, Places
    <2>2. Path \in Known
      BY <2>1, HeadTailProperties DEF Path
    <2>3. DOMAIN <<>> \subseteq Known
      OBVIOUS
    <2>4. \/ context' = context \/ context' = <<>> \/ context' = Put(context, Path, handle.text)
      BY <1>21 DEF RecheckSource
    <2>5. DOMAIN Put(context, Path, handle.text) \subseteq Known
      BY <2>2 DEF Put
    <2> QED BY <2>3, <2>4, <2>5
  <1>22. CASE RepositoryRead
    BY <1>22 DEF RepositoryRead, NextScope
  <1>23. CASE BuildIndex
    BY <1>23 DEF BuildIndex
  <1>24. CASE StatusAfter
    BY <1>24 DEF StatusAfter
  <1>25. CASE HeadAfter
    BY <1>25 DEF HeadAfter
  <1>26. CASE Report
    BY <1>26 DEF Report
  <1>27. CASE Develop
    BY <1>27 DEF Develop, vars
  <1>28. CASE UNCHANGED vars
    BY <1>28 DEF vars
  <1> QED
    BY <1>1, <1>4, <1>5, <1>6, <1>7, <1>8, <1>9, <1>10, <1>11, <1>12, <1>13, <1>14, <1>15, <1>16, <1>17, <1>18, <1>19, <1>20, <1>21, <1>22, <1>23, <1>24, <1>25, <1>26, <1>27, <1>28
    DEF Next, Identifies, Listings, Subjecting, Prepass, Closing

LEMMA IndexBuilt ==
    ASSUME Shape, [Next]_vars
    PROVE  BuildIndex \/ index' = index
  <1> USE DEF Shape, Types, Reads, Goto, Fail, identity, readings, inputs, results
  <1>1. CASE Evidences
    BY <1>1, EvidenceSteps DEF Gathered, Gathering
  <1>4. CASE Pin
    BY <1>4 DEF Pin
  <1>5. CASE RecordBase
    BY <1>5 DEF RecordBase
  <1>6. CASE Identify
    BY <1>6 DEF Identify
  <1>7. CASE CleanBefore
    BY <1>7 DEF CleanBefore
  <1>8. CASE ResolveBase
    BY <1>8 DEF ResolveBase
  <1>9. CASE ListRenames
    BY <1>9 DEF ListRenames, Lists
  <1>10. CASE ListTracked
    BY <1>10 DEF ListTracked, Lists
  <1>11. CASE ListUntracked
    BY <1>11 DEF ListUntracked, Lists
  <1>12. CASE ListAdditions
    BY <1>12 DEF ListAdditions
  <1>13. CASE DiffTracked
    BY <1>13 DEF DiffTracked
  <1>14. CASE ShowBase
    BY <1>14 DEF ShowBase, AddFile
  <1>15. CASE ScopeDone
    BY <1>15 DEF ScopeDone, NextScope
  <1>16. CASE Open
    BY <1>16 DEF Open, IsSubject
  <1>17. CASE ReadText
    BY <1>17 DEF ReadText, IsSubject
  <1>18. CASE Recheck
    BY <1>18 DEF Recheck, AddFile
  <1>19. CASE ReadCommitted
    BY <1>19 DEF ReadCommitted
  <1>20. CASE ListRepository
    BY <1>20 DEF ListRepository
  <1>21. CASE RecheckSource
    BY <1>21 DEF RecheckSource
  <1>22. CASE RepositoryRead
    BY <1>22 DEF RepositoryRead, NextScope
  <1>23. CASE BuildIndex
    BY <1>23
  <1>24. CASE StatusAfter
    BY <1>24 DEF StatusAfter
  <1>25. CASE HeadAfter
    BY <1>25 DEF HeadAfter
  <1>26. CASE Report
    BY <1>26 DEF Report
  <1>27. CASE Develop
    BY <1>27 DEF Develop, vars
  <1>28. CASE UNCHANGED vars
    BY <1>28 DEF vars
  <1> QED
    BY <1>1, <1>4, <1>5, <1>6, <1>7, <1>8, <1>9, <1>10, <1>11, <1>12, <1>13, <1>14, <1>15, <1>16, <1>17, <1>18, <1>19, <1>20, <1>21, <1>22, <1>23, <1>24, <1>25, <1>26, <1>27, <1>28
    DEF Next, Identifies, Listings, Subjecting, Prepass, Closing

LEMMA IndexedTexts ==
    ASSUME pc \in Closed \cup {"failed"}, [Next]_vars
    PROVE  UNCHANGED <<context, files>>
  <1> USE DEF Closed, Reads, Goto, Fail, identity, readings, inputs, results
  <1>1. CASE Evidences
    BY <1>1, EvidenceSteps DEF Gathered, Gathering
  <1>4. CASE Pin
    BY <1>4 DEF Pin
  <1>5. CASE RecordBase
    BY <1>5 DEF RecordBase
  <1>6. CASE Identify
    BY <1>6 DEF Identify
  <1>7. CASE CleanBefore
    BY <1>7 DEF CleanBefore
  <1>8. CASE ResolveBase
    BY <1>8 DEF ResolveBase
  <1>9. CASE ListRenames
    BY <1>9 DEF ListRenames, Lists
  <1>10. CASE ListTracked
    BY <1>10 DEF ListTracked, Lists
  <1>11. CASE ListUntracked
    BY <1>11 DEF ListUntracked, Lists
  <1>12. CASE ListAdditions
    BY <1>12 DEF ListAdditions
  <1>13. CASE DiffTracked
    BY <1>13 DEF DiffTracked
  <1>14. CASE ShowBase
    BY <1>14 DEF ShowBase, AddFile
  <1>15. CASE ScopeDone
    BY <1>15 DEF ScopeDone, NextScope
  <1>16. CASE Open
    BY <1>16 DEF Open, IsSubject
  <1>17. CASE ReadText
    BY <1>17 DEF ReadText, IsSubject
  <1>18. CASE Recheck
    BY <1>18 DEF Recheck, AddFile
  <1>19. CASE ReadCommitted
    BY <1>19 DEF ReadCommitted
  <1>20. CASE ListRepository
    BY <1>20 DEF ListRepository
  <1>21. CASE RecheckSource
    BY <1>21 DEF RecheckSource
  <1>22. CASE RepositoryRead
    BY <1>22 DEF RepositoryRead, NextScope
  <1>23. CASE BuildIndex
    BY <1>23 DEF BuildIndex
  <1>24. CASE StatusAfter
    BY <1>24 DEF StatusAfter
  <1>25. CASE HeadAfter
    BY <1>25 DEF HeadAfter
  <1>26. CASE Report
    BY <1>26 DEF Report
  <1>27. CASE Develop
    BY <1>27 DEF Develop, vars
  <1>28. CASE UNCHANGED vars
    BY <1>28 DEF vars
  <1> QED
    BY <1>1, <1>4, <1>5, <1>6, <1>7, <1>8, <1>9, <1>10, <1>11, <1>12, <1>13, <1>14, <1>15, <1>16, <1>17, <1>18, <1>19, <1>20, <1>21, <1>22, <1>23, <1>24, <1>25, <1>26, <1>27, <1>28
    DEF Next, Identifies, Listings, Subjecting, Prepass, Closing

LEMMA IndexIsFreshStays ==
    ASSUME Shape, KnownContext, IndexIsFresh, [Next]_vars
    PROVE  IndexIsFresh'
  <1>1. CASE BuildIndex
    <2>1. store \in Stores
      BY <1>1 DEF BuildIndex, Shape, Types, Closed
    <2>2. Build(context, store) = Build(context, <<>>)
      BY <2>1, BuildIsFresh, DiscoveryAssumption DEF KnownContext, DiscoveryAssumption
    <2>3. index' = [Build(context, store) EXCEPT !.changedTests = ChangedTests]
      BY <1>1 DEF BuildIndex
    <2>4. context' = context /\ files' = files
      BY <1>1 DEF BuildIndex
    <2>5. ChangedTests' = ChangedTests
      BY <2>4 DEF ChangedTests, Discovered
    <2> QED BY <2>2, <2>3, <2>4, <2>5 DEF IndexIsFresh
  <1>2. CASE index' = index /\ index # Nothing
    <2>1. pc \in Closed \cup {"failed"}
      BY <1>2 DEF Shape, Places
    <2>2. context' = context /\ files' = files
      BY <2>1, IndexedTexts
    <2>5. ChangedTests' = ChangedTests
      BY <2>2 DEF ChangedTests, Discovered
    <2> QED BY <1>2, <2>2, <2>5 DEF IndexIsFresh
  <1>3. CASE index' = index /\ index = Nothing
    BY <1>3 DEF IndexIsFresh
  <1> QED BY <1>1, <1>2, <1>3, IndexBuilt

\* The index is that of an empty store, and is not touched once it is built.
LEMMA IndexInvariant == Spec => [](KnownContext /\ IndexIsFresh)
  <1>1. Init => KnownContext /\ IndexIsFresh
    <2> SUFFICES ASSUME Init PROVE KnownContext /\ IndexIsFresh
      OBVIOUS
    <2>1. context = <<>> /\ index = Nothing
      BY DEF Init
    <2>2. DOMAIN <<>> \subseteq Known
      OBVIOUS
    <2> QED BY <2>1, <2>2 DEF KnownContext, IndexIsFresh
  <1>2. Shape /\ KnownContext /\ IndexIsFresh /\ [Next]_vars => KnownContext' /\ IndexIsFresh'
    BY KnownContextStays, IndexIsFreshStays
  <1> QED BY <1>1, <1>2, ShapeInvariant, PTL DEF Spec

(* Whatever the checkout, and whoever moves files in it up to three times, the*)
(* text read for a path was that path's at some moment; and whatever honest*)
(* entries the index directory holds, the index built over them is the one a*)
(* first run builds (read_repo_file_limit, assert_same_file, RepoIndex::build).*)
THEOREM OwnTexts == Spec => []TextsAreTheirOwn
  <1>1. Read => ReadsAreItsOwn
    BY DEF Read, Kept, Was, ReadsAreItsOwn
  <1>2. Read /\ IndexIsFresh => TextsAreTheirOwn
    BY <1>1 DEF TextsAreTheirOwn
  <1> QED BY <1>2, ReadInvariant, IndexInvariant, PTL

---------------------------------------------------------------------------
(* What a review of changes has found, while it is looking at what it is   *)
(* to report: a pinned commit, a checkout that does not move, or one that  *)
(* was moved once and is again as clean, and at the same commit, as it was *)
(* found.                                                                  *)
Holds == Clean(world) /\ world.head = ReviewedHead
Steady == mode = "pinned" \/ moves = 0 \/ (moves = 1 /\ clean /\ Holds)

Source == NewTree(world, pinned)
Loose == IF mode = "live" THEN UntrackedTexts ELSE <<>>
OldAt(k) == InScope(TreeOf(bases[k]), Scopes[k])
NewAt(k) == InScope(Source, Scopes[k])

\* What is due in scope k, and what is filed rightly for it, given its base.
Wanted(k, base, source, loose) ==
    LET old == InScope(TreeOf(base), Scopes[k])
        now == InScope(source, Scopes[k])
    IN Subjects(Added(old, now) \cup Modified(old, now) \cup (DOMAIN loose \cap Scopes[k]))

Right(f, k, base, source, loose) ==
    LET old == InScope(TreeOf(base), Scopes[k])
        renames == Renames(old, InScope(source, Scopes[k]))
    IN IF f.path \in DOMAIN loose
       THEN f.text = loose[f.path] /\ f.base = <<>>
       ELSE /\ f.text = source[f.path]
            /\ f.base = TextAt(old, IF f.path \in DOMAIN renames THEN renames[f.path] ELSE f.path)

FiledRight(f, places, source, loose) ==
    \E k \in DOMAIN places :
        /\ f.path \in Wanted(k, places[k], source, loose)
        /\ \A j \in 1..(k - 1) : f.path \notin Wanted(j, places[j], source, loose)
        /\ Right(f, k, places[k], source, loose)

Listed ==
    (Steady /\ pc \in Comparing \cup Filing) =>
        /\ mode = "live" => git.base = world.head
        /\ pc \notin {"list renames"} => git.renamed = Renames(OldAt(scope), NewAt(scope))
        /\ pc \notin {"list renames", "list tracked"} =>
             git.tracked = Added(OldAt(scope), NewAt(scope)) \cup Modified(OldAt(scope), NewAt(scope))
        /\ pc \notin {"list renames", "list tracked", "list untracked"} =>
             git.untracked = IF mode = "live" THEN Untracked(world) \cap Here ELSE {}
        /\ pc \in Filing =>
             /\ git.added = Added(OldAt(scope), NewAt(scope)) \ DOMAIN git.renamed
             /\ ToSet(todo) \subseteq Subjects(git.tracked \cup git.untracked)

InHand ==
    Steady =>
        /\ pc = "show base" => Path \notin git.untracked /\ handle.text = TextAt(NewAt(scope), Path)
        /\ pc \in {"read", "recheck"} =>
             /\ Path \in git.untracked /\ Path \in DOMAIN world.work
             /\ handle.ino = world.work[Path].ino /\ handle.text = world.work[Path].text
             /\ handle.text \notin NotRegular

Filed ==
    (Steady /\ mode # "scan" /\ pc \in {"resolve base"} \cup Comparing \cup Filing \cup Late) =>
        /\ \A k \in 1..Len(Scopes) : (k < scope \/ pc \in Late) => Wanted(k, bases[k], Source, Loose) \subseteq Discovered
        /\ pc \in Filing => Wanted(scope, bases[scope], Source, Loose) \subseteq Discovered \cup ToSet(todo)
        /\ \A i \in DOMAIN files : FiledRight(files[i], bases, Source, Loose)

PinnedContext == (mode = "pinned" /\ pc \in {"index"} \cup Closed) => context = Committed

FoundSoFar == Listed /\ InHand /\ Filed /\ PinnedContext

LEMMA FirstMove == ASSUME NEW n \in Nat, NEW m, m = n + 1, m = 1 PROVE n = 0
  OBVIOUS

\* A move that leaves the review steady leaves what it reads as it was.
LEMMA SteadyMove ==
    ASSUME Shape, Develop, Steady', pc \notin Unpinned
    PROVE  /\ Steady /\ Source' = Source
           /\ mode # "pinned" =>
                /\ clean /\ Holds /\ Holds' /\ moves = 0 /\ world'.head = world.head
                /\ Untracked(world) = {} /\ Untracked(world') = {}
  <1>0. mode' = mode /\ clean' = clean /\ pinned' = pinned /\ actual' = actual
    BY DEF Develop, identity
  <1>3. pc # "failed"
    BY DEF Develop
  <1>1. CASE mode = "pinned" /\ pinned # Nothing
    BY <1>0, <1>1 DEF Steady, Source, NewTree
  <1>2. CASE mode # "pinned"
    <2>1. moves' = 1 /\ clean' /\ Holds'
      <3>1. moves' # 0
        <4>1. moves \in Nat /\ moves' = moves + 1
          BY DEF Develop, Shape, Types
        <4> QED BY <4>1, OneLater
      <3> QED BY <1>0, <1>2, <3>1 DEF Steady
    <2>2. moves = 0
      <3>1. moves \in Nat /\ moves' = moves + 1
        BY DEF Develop, Shape, Types
      <3> QED BY <2>1, <3>1, FirstMove
    <2>3. Clean(world) /\ world.head = ReviewedHead
      BY <1>0, <1>3, <2>1, <2>2 DEF Shape, Identified
    <2>4. Clean(world') /\ world'.head = ReviewedHead
      BY <1>0, <2>1 DEF Holds, ReviewedHead
    <2>5. pinned = Nothing
      BY <1>2 DEF Shape, Pinning
    <2>6. Source = TreeOf(world.head) /\ Source' = TreeOf(world'.head)
      BY <1>0, <2>3, <2>4, <2>5 DEF Source, NewTree, Clean
    <2>7. Untracked(world) = {} /\ Untracked(world') = {}
      BY <2>3, <2>4 DEF Clean
    <2> QED BY <1>0, <2>1, <2>2, <2>3, <2>4, <2>6, <2>7 DEF Steady, Holds
  <1>4. mode = "pinned" => pinned # Nothing
    BY <1>3, DiscoveryAssumption DEF Shape, Pinning, DiscoveryAssumption
  <1> QED BY <1>1, <1>2, <1>4

Rests == UNCHANGED <<pc, scope, git, todo, handle, files, bases, context, index, report>>

\* The identity is settled before anything is read.
LEMMA IdentityStays ==
    ASSUME pc \notin Early, [Next]_vars
    PROVE  UNCHANGED <<pinned, recorded, actual, clean>>
  <1> USE DEF Early, Gathering, Reads, Goto, Fail, identity, readings, inputs, results
  <1>1. CASE Evidences
    BY <1>1, EvidenceSteps DEF Gathered, Gathering
  <1>4. CASE Pin
    BY <1>4 DEF Pin
  <1>5. CASE RecordBase
    BY <1>5 DEF RecordBase
  <1>6. CASE Identify
    BY <1>6 DEF Identify
  <1>7. CASE CleanBefore
    BY <1>7 DEF CleanBefore
  <1>8. CASE ResolveBase
    BY <1>8 DEF ResolveBase
  <1>9. CASE ListRenames
    BY <1>9 DEF ListRenames, Lists
  <1>10. CASE ListTracked
    BY <1>10 DEF ListTracked, Lists
  <1>11. CASE ListUntracked
    BY <1>11 DEF ListUntracked, Lists
  <1>12. CASE ListAdditions
    BY <1>12 DEF ListAdditions
  <1>13. CASE DiffTracked
    BY <1>13 DEF DiffTracked
  <1>14. CASE ShowBase
    BY <1>14 DEF ShowBase, AddFile
  <1>15. CASE ScopeDone
    BY <1>15 DEF ScopeDone, NextScope
  <1>16. CASE Open
    BY <1>16 DEF Open, IsSubject
  <1>17. CASE ReadText
    BY <1>17 DEF ReadText, IsSubject
  <1>18. CASE Recheck
    BY <1>18 DEF Recheck, AddFile
  <1>19. CASE ReadCommitted
    BY <1>19 DEF ReadCommitted
  <1>20. CASE ListRepository
    BY <1>20 DEF ListRepository
  <1>21. CASE RecheckSource
    BY <1>21 DEF RecheckSource
  <1>22. CASE RepositoryRead
    BY <1>22 DEF RepositoryRead, NextScope
  <1>23. CASE BuildIndex
    BY <1>23 DEF BuildIndex
  <1>24. CASE StatusAfter
    BY <1>24 DEF StatusAfter
  <1>25. CASE HeadAfter
    BY <1>25 DEF HeadAfter
  <1>26. CASE Report
    BY <1>26 DEF Report
  <1>27. CASE Develop
    BY <1>27 DEF Develop, vars
  <1>28. CASE UNCHANGED vars
    BY <1>28 DEF vars
  <1> QED
    BY <1>1, <1>4, <1>5, <1>6, <1>7, <1>8, <1>9, <1>10, <1>11, <1>12, <1>13, <1>14, <1>15, <1>16, <1>17, <1>18, <1>19, <1>20, <1>21, <1>22, <1>23, <1>24, <1>25, <1>26, <1>27, <1>28
    DEF Next, Identifies, Listings, Subjecting, Prepass, Closing

LEMMA WhileFiling ==
    ASSUME pc' \in Comparing \cup Filing, [Next]_vars
    PROVE  \/ ResolveBase \/ ListRenames \/ ListTracked \/ ListUntracked \/ ListAdditions
           \/ /\ pc \in Filing /\ pc' \in Filing /\ git' = git /\ scope' = scope /\ bases' = bases
              /\ todo' = todo \/ todo' = Tail(todo)
           \/ Rests
  <1> USE DEF Comparing, Filing, Reads, Goto, Fail, identity, readings, inputs, results
  <1>1. CASE Evidences
    BY <1>1, EvidenceSteps DEF Gathered, Gathering
  <1>4. CASE Pin
    BY <1>4 DEF Pin
  <1>5. CASE RecordBase
    BY <1>5 DEF RecordBase
  <1>6. CASE Identify
    BY <1>6 DEF Identify
  <1>7. CASE CleanBefore
    BY <1>7 DEF CleanBefore
  <1>8. CASE ResolveBase
    BY <1>8
  <1>9. CASE ListRenames
    BY <1>9
  <1>10. CASE ListTracked
    BY <1>10
  <1>11. CASE ListUntracked
    BY <1>11
  <1>12. CASE ListAdditions
    BY <1>12
  <1>13. CASE DiffTracked
    BY <1>13 DEF DiffTracked
  <1>14. CASE ShowBase
    BY <1>14 DEF ShowBase, AddFile
  <1>15. CASE ScopeDone
    BY <1>15 DEF ScopeDone, NextScope
  <1>16. CASE Open
    BY <1>16 DEF Open, IsSubject
  <1>17. CASE ReadText
    BY <1>17 DEF ReadText, IsSubject
  <1>18. CASE Recheck
    BY <1>18 DEF Recheck, AddFile
  <1>19. CASE ReadCommitted
    BY <1>19 DEF ReadCommitted
  <1>20. CASE ListRepository
    BY <1>20 DEF ListRepository
  <1>21. CASE RecheckSource
    BY <1>21 DEF RecheckSource
  <1>22. CASE RepositoryRead
    BY <1>22 DEF RepositoryRead, NextScope
  <1>23. CASE BuildIndex
    BY <1>23 DEF BuildIndex
  <1>24. CASE StatusAfter
    BY <1>24 DEF StatusAfter
  <1>25. CASE HeadAfter
    BY <1>25 DEF HeadAfter
  <1>26. CASE Report
    BY <1>26 DEF Report
  <1>27. CASE Develop
    BY <1>27 DEF Develop, Rests, readings, results, inputs
  <1>28. CASE UNCHANGED vars
    BY <1>28 DEF vars, Rests, readings, results, inputs
  <1> QED
    BY <1>1, <1>4, <1>5, <1>6, <1>7, <1>8, <1>9, <1>10, <1>11, <1>12, <1>13, <1>14, <1>15, <1>16, <1>17, <1>18, <1>19, <1>20, <1>21, <1>22, <1>23, <1>24, <1>25, <1>26, <1>27, <1>28
    DEF Next, Identifies, Listings, Subjecting, Prepass, Closing

LEMMA EmptyFunctions ==
    ASSUME NEW S, NEW T, S = {}, T = {}, NEW f(_), NEW g(_)
    PROVE  [p \in S |-> f(p)] = [p \in T |-> g(p)]
  OBVIOUS

\* A step to a steady state comes from one, and what is reviewed is the same in both.
LEMMA SteadyBefore ==
    ASSUME Shape, [Next]_vars, Steady', pc \notin Early
    PROVE  /\ Steady /\ Source' = Source /\ Loose' = Loose /\ mode' = mode /\ pinned' = pinned
           /\ mode # "pinned" => world'.head = world.head /\ Untracked(world') = Untracked(world)
  <1>1. mode' = mode /\ UNCHANGED <<pinned, actual, clean>>
    BY IdentityStays, CheckoutStays
  <1>2. CASE Develop
    <2>1. pc \notin Unpinned
      BY DEF Early, Gathering, Unpinned
    <2>2. /\ Steady /\ Source' = Source
          /\ mode # "pinned" =>
               world'.head = world.head /\ Untracked(world) = {} /\ Untracked(world') = {}
      BY <1>2, <2>1, SteadyMove
    <2>3. ASSUME mode = "live" PROVE UntrackedTexts' = UntrackedTexts
      <3>1. Untracked(world) = {} /\ Untracked(world') = {}
        BY <2>2, <2>3
      <3>2. /\ {q \in Untracked(world) : world.work[q].text \notin NotRegular} = {}
            /\ {q \in Untracked(world') : world'.work[q].text \notin NotRegular} = {}
        BY <3>1
      <3> QED BY <3>2, EmptyFunctions DEF UntrackedTexts
    <2>4. Loose' = Loose
      BY <1>1, <2>3 DEF Loose
    <2> QED BY <1>1, <2>2, <2>4
  <1>3. CASE world' = world /\ moves' = moves
    BY <1>1, <1>3 DEF Steady, Holds, ReviewedHead, Source, Loose, UntrackedTexts
  <1> QED BY <1>2, <1>3, OnlyDevelop

LEMMA TailPaths ==
    ASSUME todo \in Seq(Known), todo # <<>>
    PROVE  /\ Path \in Known /\ Path \in ToSet(todo) /\ ToSet(Tail(todo)) \subseteq ToSet(todo)
           /\ ToSet(todo) = {Path} \cup ToSet(Tail(todo))
  <1>1. /\ Head(todo) \in Known /\ Tail(todo) \in Seq(Known) /\ Len(Tail(todo)) = Len(todo) - 1
        /\ \A i \in 1..Len(Tail(todo)) : Tail(todo)[i] = todo[i + 1]
    BY HeadTailProperties
  <1>2. Len(todo) \in Nat /\ Len(todo) > 0 /\ DOMAIN todo = 1..Len(todo)
    BY EmptySeq, LenProperties
  <1>3. DOMAIN Tail(todo) = 1..(Len(todo) - 1)
    BY <1>1, <1>2, LenProperties
  <1>4. 1 \in DOMAIN todo /\ Head(todo) = todo[1]
    BY <1>2
  <1>5. \A i \in DOMAIN Tail(todo) : i + 1 \in DOMAIN todo /\ Tail(todo)[i] = todo[i + 1]
    BY <1>1, <1>2, <1>3
  <1>6. \A i \in DOMAIN todo : i = 1 \/ (i - 1 \in DOMAIN Tail(todo) /\ Tail(todo)[i - 1] = todo[i])
    <2> SUFFICES ASSUME NEW i \in DOMAIN todo, i # 1
                 PROVE  i - 1 \in DOMAIN Tail(todo) /\ Tail(todo)[i - 1] = todo[i]
      OBVIOUS
    <2>1. i - 1 \in 1..(Len(todo) - 1) /\ (i - 1) + 1 = i
      BY <1>2
    <2> QED BY <1>5, <1>3, <2>1
  <1>7. ToSet(Tail(todo)) \subseteq ToSet(todo) /\ Head(todo) \in ToSet(todo)
    BY <1>4, <1>5 DEF ToSet
  <1>8. ToSet(todo) \subseteq {Head(todo)} \cup ToSet(Tail(todo))
    BY <1>4, <1>6 DEF ToSet
  <1> QED BY <1>1, <1>7, <1>8 DEF Path

LEMMA JoinedPaths ==
    ASSUME NEW s \in Seq(Known), NEW t \in Seq(Known)
    PROVE  ToSet(s \o t) = ToSet(s) \cup ToSet(t)
  <1>1. /\ Len(s) \in Nat /\ Len(t) \in Nat /\ DOMAIN s = 1..Len(s) /\ DOMAIN t = 1..Len(t)
        /\ DOMAIN (s \o t) = 1..(Len(s) + Len(t))
    BY LenProperties, ConcatProperties
  <1>2. \A i \in 1..(Len(s) + Len(t)) : (s \o t)[i] = IF i <= Len(s) THEN s[i] ELSE t[i - Len(s)]
    BY ConcatProperties
  <1>3. ToSet(s \o t) \subseteq ToSet(s) \cup ToSet(t)
    <2> SUFFICES ASSUME NEW i \in DOMAIN (s \o t) PROVE (s \o t)[i] \in ToSet(s) \cup ToSet(t)
      BY DEF ToSet
    <2>1. CASE i <= Len(s)
      <3>1. i \in DOMAIN s /\ (s \o t)[i] = s[i]
        BY <1>1, <1>2, <2>1
      <3> QED BY <3>1 DEF ToSet
    <2>2. CASE ~(i <= Len(s))
      <3>1. i - Len(s) \in DOMAIN t /\ (s \o t)[i] = t[i - Len(s)]
        BY <1>1, <1>2, <2>2
      <3> QED BY <3>1 DEF ToSet
    <2> QED BY <2>1, <2>2
  <1>4. ToSet(s) \subseteq ToSet(s \o t)
    <2> SUFFICES ASSUME NEW i \in DOMAIN s PROVE s[i] \in ToSet(s \o t)
      BY DEF ToSet
    <2>1. i \in DOMAIN (s \o t) /\ (s \o t)[i] = s[i]
      BY <1>1, <1>2
    <2> QED BY <2>1 DEF ToSet
  <1>5. ToSet(t) \subseteq ToSet(s \o t)
    <2> SUFFICES ASSUME NEW i \in DOMAIN t PROVE t[i] \in ToSet(s \o t)
      BY DEF ToSet
    <2>1. /\ Len(s) + i \in DOMAIN (s \o t) /\ ~(Len(s) + i <= Len(s)) /\ (Len(s) + i) - Len(s) = i
      BY <1>1
    <2>2. (s \o t)[Len(s) + i] = t[i]
      BY <1>1, <1>2, <2>1
    <2> QED BY <2>1, <2>2 DEF ToSet
  <1> QED BY <1>3, <1>4, <1>5

\* The commands of a scope all compare the tree of its base.
LEMMA OneBase ==
    ASSUME Shape, Listed, Steady, pc \in Comparing \cup Filing
    PROVE  OldTree = OldAt(scope) /\ NewFiles = NewAt(scope) /\ TreeOf(git.base) = TreeOf(bases[scope])
  <1>1. /\ git.base = bases[scope] /\ git.symbolic = (mode = "live" /\ git.base # Unborn)
        /\ mode = "live" => git.base = world.head
    BY DEF Shape, Commands, Listed
  <1>2. (IF git.symbolic THEN world.head ELSE git.base) = bases[scope]
    BY <1>1
  <1> QED BY <1>1, <1>2 DEF OldTree, OldAt, NewFiles, NewAt, Source, Here

LEMMA ScopeOfFiling ==
    ASSUME Shape, [Next]_vars, Steady', UNCHANGED <<scope, bases>>, pc \notin Early
    PROVE  /\ OldAt(scope)' = OldAt(scope) /\ NewAt(scope)' = NewAt(scope) /\ Here' = Here
  <1>1. Source' = Source /\ Loose' = Loose
    BY SteadyBefore
  <1> QED BY <1>1 DEF OldAt, NewAt, Here

LEMMA EmptyTail == ASSUME todo = <<>> PROVE ToSet(Tail(todo)) \subseteq ToSet(todo)
  <1>1. Tail(<<>>) = <<>>
    OBVIOUS
  <1> QED BY <1>1

LEMMA TodoPaths ==
    ASSUME Shape, pc = "list additions"
    PROVE  ToSet(SortPaths(Subjects(git.tracked)) \o SortPaths(Subjects(git.untracked \ git.tracked)))
             = Subjects(git.tracked) \cup Subjects(git.untracked \ git.tracked)
  <1>1. Subjects(git.tracked) \in SUBSET Known /\ Subjects(git.untracked \ git.tracked) \in SUBSET Known
    BY DEF Shape, Commands, Subjects
  <1>2. /\ SortPaths(Subjects(git.tracked)) \in Seq(Known)
        /\ ToSet(SortPaths(Subjects(git.tracked))) = Subjects(git.tracked)
    BY <1>1, SortPathsFacts
  <1>3. /\ SortPaths(Subjects(git.untracked \ git.tracked)) \in Seq(Known)
        /\ ToSet(SortPaths(Subjects(git.untracked \ git.tracked))) = Subjects(git.untracked \ git.tracked)
    BY <1>1, SortPathsFacts
  <1> QED BY <1>2, <1>3, JoinedPaths

\* What the commands of a scope have said is of one and the same source.
LEMMA ListedStays == ASSUME Shape, Listed, [Next]_vars PROVE Listed'
  <1> SUFFICES ASSUME Steady', pc' \in Comparing \cup Filing PROVE Listed'
    BY DEF Listed
  <1>0. pc \notin Early
    BY WhileFiling DEF Early, Gathering, Comparing, Filing, ResolveBase, ListRenames, ListTracked, ListUntracked, ListAdditions, Rests
  <1>1. /\ Steady /\ Source' = Source /\ Loose' = Loose /\ mode' = mode
        /\ mode # "pinned" => world'.head = world.head /\ Untracked(world') = Untracked(world)
    BY <1>0, SteadyBefore
  <1>2. ASSUME UNCHANGED <<scope, bases>>
        PROVE  /\ OldAt(scope)' = OldAt(scope) /\ NewAt(scope)' = NewAt(scope) /\ Here' = Here
    BY <1>0, <1>2, ScopeOfFiling
  <1>3. CASE ResolveBase
    <2>1. pc' = "list renames"
      BY <1>3 DEF ResolveBase, Fail, Goto, Comparing, Filing
    <2>2. ASSUME mode = "live" PROVE git'.base = world.head
      <3>1. ~Fail
        BY <2>1 DEF Fail, Goto
      <3>2. git' = [base |-> world.head, symbolic |-> mode = "live" /\ world.head # Unborn, renamed |-> <<>>,
                    tracked |-> {}, untracked |-> {}, added |-> {}]
        BY <1>3, <2>2, <3>1 DEF ResolveBase
      <3> QED BY <3>2
    <2>3. mode' = "live" => git'.base = world'.head
      BY <1>1, <2>2
    <2> QED BY <2>1, <2>3 DEF Listed, Comparing, Filing
  <1>4. CASE ListRenames
    <2>1. /\ pc = "list renames" /\ pc' = "list tracked" /\ scope' = scope /\ bases' = bases
          /\ git' = [git EXCEPT !.renamed = Renames(OldTree, NewFiles)]
      BY <1>4 DEF ListRenames, Lists, Goto, results, inputs
    <2>2. pc \in Comparing
      BY <2>1 DEF Comparing
    <2>3. git'.base = git.base /\ git'.renamed = Renames(OldTree, NewFiles)
      BY <2>1, <2>2 DEF Shape, Commands
    <2>4. mode' = "live" => git'.base = world'.head
      BY <2>2, <2>3, <1>1 DEF Listed
    <2>5. git'.renamed = Renames(OldAt(scope), NewAt(scope))'
      BY <1>1, <1>2, <2>1, <2>2, <2>3, OneBase
    <2> QED BY <2>1, <2>4, <2>5 DEF Listed, Filing
  <1>5. CASE ListTracked
    <2>1. /\ pc = "list tracked" /\ pc' = "list untracked" /\ scope' = scope /\ bases' = bases
          /\ git' = [git EXCEPT !.tracked = Added(OldTree, NewFiles) \cup Modified(OldTree, NewFiles)]
      BY <1>5 DEF ListTracked, Lists, Goto, results, inputs
    <2>2. pc \in Comparing /\ pc \notin {"list renames"}
      BY <2>1 DEF Comparing
    <2>3. /\ git'.base = git.base /\ git'.renamed = git.renamed
          /\ git'.tracked = Added(OldTree, NewFiles) \cup Modified(OldTree, NewFiles)
      BY <2>1, <2>2 DEF Shape, Commands
    <2>4. (mode' = "live" => git'.base = world'.head) /\ git.renamed = Renames(OldAt(scope), NewAt(scope))
      BY <2>2, <2>3, <1>1 DEF Listed
    <2>5. git'.renamed = Renames(OldAt(scope), NewAt(scope))'
      BY <1>2, <2>1, <2>3, <2>4
    <2>6. git'.tracked = (Added(OldAt(scope), NewAt(scope)) \cup Modified(OldAt(scope), NewAt(scope)))'
      BY <1>1, <1>2, <2>1, <2>2, <2>3, OneBase
    <2> QED BY <2>1, <2>4, <2>5, <2>6 DEF Listed, Filing
  <1>6. CASE ListUntracked
    <2>1. /\ pc = "list untracked" /\ pc' = "list additions" /\ scope' = scope /\ bases' = bases
          /\ git' = [git EXCEPT !.untracked = IF mode = "live" THEN Untracked(world) \cap Here ELSE {}]
      BY <1>6 DEF ListUntracked, Lists, Goto, results, inputs
    <2>2. pc \in Comparing /\ pc \notin {"list renames", "list tracked"} /\ pc \notin {"list renames"}
      BY <2>1 DEF Comparing
    <2>3. /\ git'.base = git.base /\ git'.renamed = git.renamed /\ git'.tracked = git.tracked
          /\ git'.untracked = IF mode = "live" THEN Untracked(world) \cap Here ELSE {}
      BY <2>1, <2>2 DEF Shape, Commands
    <2>4. /\ mode' = "live" => git'.base = world'.head
          /\ git.renamed = Renames(OldAt(scope), NewAt(scope))
          /\ git.tracked = Added(OldAt(scope), NewAt(scope)) \cup Modified(OldAt(scope), NewAt(scope))
      BY <2>2, <2>3, <1>1 DEF Listed
    <2>5. git'.renamed = Renames(OldAt(scope), NewAt(scope))'
      BY <1>2, <2>1, <2>3, <2>4
    <2>6. git'.tracked = (Added(OldAt(scope), NewAt(scope)) \cup Modified(OldAt(scope), NewAt(scope)))'
      BY <1>2, <2>1, <2>3, <2>4
    <2>7. git'.untracked = IF mode' = "live" THEN Untracked(world') \cap Here' ELSE {}
      BY <1>1, <1>2, <2>1, <2>3
    <2> QED BY <2>1, <2>4, <2>5, <2>6, <2>7 DEF Listed, Filing
  <1>7. CASE ListAdditions
    <2>1. /\ pc = "list additions" /\ pc' = "next file" /\ scope' = scope /\ bases' = bases
          /\ git' = [git EXCEPT !.added = Added(OldTree, NewFiles) \ DOMAIN Renames(OldTree, NewFiles)]
          /\ todo' = SortPaths(Subjects(git.tracked)) \o SortPaths(Subjects(git.untracked \ git.tracked))
      BY <1>7 DEF ListAdditions, Goto, results, inputs
    <2>2. /\ pc \in Comparing
          /\ pc \notin {"list renames", "list tracked", "list untracked"} /\ pc \notin {"list renames", "list tracked"}
          /\ pc \notin {"list renames"}
      BY <2>1 DEF Comparing
    <2>3. /\ git'.base = git.base /\ git'.renamed = git.renamed /\ git'.tracked = git.tracked
          /\ git'.untracked = git.untracked
          /\ git'.added = Added(OldTree, NewFiles) \ DOMAIN Renames(OldTree, NewFiles)
      BY <2>1, <2>2 DEF Shape, Commands
    <2>4. /\ mode' = "live" => git'.base = world'.head
          /\ git.renamed = Renames(OldAt(scope), NewAt(scope))
          /\ git.tracked = Added(OldAt(scope), NewAt(scope)) \cup Modified(OldAt(scope), NewAt(scope))
          /\ git.untracked = IF mode = "live" THEN Untracked(world) \cap Here ELSE {}
      BY <2>2, <2>3, <1>1 DEF Listed
    <2>5. git'.renamed = Renames(OldAt(scope), NewAt(scope))'
      BY <1>2, <2>1, <2>3, <2>4
    <2>6. git'.tracked = (Added(OldAt(scope), NewAt(scope)) \cup Modified(OldAt(scope), NewAt(scope)))'
      BY <1>2, <2>1, <2>3, <2>4
    <2>7. git'.untracked = IF mode' = "live" THEN Untracked(world') \cap Here' ELSE {}
      BY <1>1, <1>2, <2>1, <2>3, <2>4
    <2>8. git'.added = Added(OldAt(scope), NewAt(scope))' \ DOMAIN git'.renamed
      BY <1>1, <1>2, <2>1, <2>2, <2>3, <2>4, OneBase
    <2>9. ToSet(todo') = Subjects(git.tracked) \cup Subjects(git.untracked \ git.tracked)
      BY <2>1, TodoPaths DEF Shape
    <2>10. ToSet(todo') \subseteq Subjects(git'.tracked \cup git'.untracked)
      BY <2>3, <2>9 DEF Subjects
    <2> QED BY <2>4, <2>5, <2>6, <2>7, <2>8, <2>10 DEF Listed
  <1>8. CASE /\ pc \in Filing /\ pc' \in Filing /\ git' = git /\ scope' = scope /\ bases' = bases
             /\ todo' = todo \/ todo' = Tail(todo)
    <2>1. /\ mode = "live" => git.base = world.head
          /\ git.renamed = Renames(OldAt(scope), NewAt(scope))
          /\ git.tracked = Added(OldAt(scope), NewAt(scope)) \cup Modified(OldAt(scope), NewAt(scope))
          /\ git.untracked = IF mode = "live" THEN Untracked(world) \cap Here ELSE {}
          /\ git.added = Added(OldAt(scope), NewAt(scope)) \ DOMAIN git.renamed
          /\ ToSet(todo) \subseteq Subjects(git.tracked \cup git.untracked)
      BY <1>1, <1>8 DEF Listed, Filing
    <2>2. ToSet(todo') \subseteq ToSet(todo)
      <3>1. CASE todo' = todo
        BY <3>1
      <3>2. CASE todo' = Tail(todo) /\ todo # <<>>
        BY <3>2, TailPaths DEF Shape, Types
      <3>3. CASE todo' = Tail(todo) /\ todo = <<>>
        BY <3>3, EmptyTail
      <3> QED BY <1>8, <3>1, <3>2, <3>3
    <2>3. OldAt(scope)' = OldAt(scope) /\ NewAt(scope)' = NewAt(scope) /\ Here' = Here
      BY <1>2, <1>8
    <2>4. ToSet(todo') \subseteq Subjects(git'.tracked \cup git'.untracked)
      BY <1>8, <2>1, <2>2
    <2>5. Renames(OldAt(scope), NewAt(scope))' = Renames(OldAt(scope), NewAt(scope))
      BY <2>3
    <2> QED BY <1>1, <1>8, <2>1, <2>3, <2>4, <2>5 DEF Listed
  <1>9. CASE Rests
    <2>1. /\ pc' = pc /\ git' = git /\ scope' = scope /\ bases' = bases /\ todo' = todo
      BY <1>9 DEF Rests
    <2>2. OldAt(scope)' = OldAt(scope) /\ NewAt(scope)' = NewAt(scope) /\ Here' = Here
      BY <1>2, <2>1
    <2>5. Renames(OldAt(scope), NewAt(scope))' = Renames(OldAt(scope), NewAt(scope))
      BY <2>2
    <2>6. pc \in Comparing \cup Filing
      BY <2>1
    <2> QED BY <1>1, <2>1, <2>2, <2>5, <2>6 DEF Listed
  <1> QED BY <1>3, <1>4, <1>5, <1>6, <1>7, <1>8, <1>9, WhileFiling

LEMMA UntrackedInHand ==
    ASSUME Shape, Listed, Steady, pc \in Filing, Path \in git.untracked
    PROVE  mode = "live" /\ Path \in Untracked(world) /\ Path \in Here /\ pinned = Nothing
  <1>1. git.untracked = IF mode = "live" THEN Untracked(world) \cap Here ELSE {}
    BY DEF Listed, Filing
  <1>2. mode = "live" /\ Path \in Untracked(world) /\ Path \in Here
    BY <1>1
  <1> QED BY <1>2 DEF Shape, Pinning

\* So is what is read for the file in hand.
LEMMA InHandStays == ASSUME Shape, Listed, InHand, [Next]_vars PROVE InHand'
  <1>1. ASSUME Steady', pc' = "show base"
        PROVE  Path' \notin git'.untracked /\ handle'.text = TextAt(NewAt(scope), Path)'
    <2>0. pc \notin Early
      BY <1>1, ComesTo DEF Early, Gathering, DiffTracked, Develop, vars
    <2>1. Steady /\ Source' = Source
      BY <1>1, <2>0, SteadyBefore
    <2>2. CASE DiffTracked
      <3>1. ~Fail
        BY <1>1 DEF Fail, Goto
      <3>2. pc = "next file" /\ Path \notin git.untracked /\ git' = git /\ todo' = todo /\ scope' = scope
        BY <2>2, <3>1 DEF DiffTracked
      <3>3. bases' = bases
        BY <2>2, <3>1 DEF DiffTracked, results, inputs
      <3>4. handle'.text = TextAt(InScope(NewFiles, {Path, BasePath}), Path)
        BY <2>2, <3>1, DiffedText
      <3>5. NewFiles = NewAt(scope)
        BY <2>1, <3>2, OneBase DEF Filing
      <3>6. TextAt(InScope(NewFiles, {Path, BasePath}), Path) = TextAt(NewAt(scope), Path)
        BY <3>5 DEF TextAt, InScope
      <3>7. NewAt(scope)' = NewAt(scope) /\ Path' = Path
        BY <1>1, <2>0, <3>2, <3>3, ScopeOfFiling DEF Path
      <3> QED BY <3>2, <3>4, <3>6, <3>7
    <2>3. CASE pc' = pc /\ UNCHANGED <<git, todo, handle, scope, bases>>
      <3>1. NewAt(scope)' = NewAt(scope) /\ Path' = Path
        BY <1>1, <2>0, <2>3, ScopeOfFiling DEF Path
      <3> QED BY <1>1, <2>1, <2>3, <3>1 DEF InHand
    <2>4. Develop \/ UNCHANGED vars => pc' = pc /\ UNCHANGED <<git, todo, handle, scope, bases>>
      BY DEF Develop, vars, readings, results, inputs
    <2> QED BY <1>1, <2>2, <2>3, <2>4, ComesTo
  <1>2. ASSUME Steady', pc' \in {"read", "recheck"}
        PROVE  /\ Path' \in git'.untracked /\ Path' \in DOMAIN world'.work
               /\ handle'.ino = world'.work[Path'].ino /\ handle'.text = world'.work[Path'].text
               /\ handle'.text \notin NotRegular
    <2>0. pc \notin Early
      BY <1>2, ComesTo DEF Early, Gathering, Open, ReadText, Develop, vars, Goto, IsSubject
    <2>1. Steady
      BY <1>2, <2>0, SteadyBefore
    <2>2. CASE Open /\ pc' = "read"
      <3>1. pc = "next file" /\ Path \in git.untracked
        BY <2>2 DEF Open, Goto, IsSubject
      <3>2. /\ Path \in DOMAIN world.work /\ world.work[Path].text \notin NotRegular
            /\ handle' = world.work[Path] /\ todo' = todo
        BY <2>2, <3>1 DEF Open, Goto
      <3>3. git' = git /\ world' = world
        BY <2>2 DEF Open, Reads
      <3> QED BY <3>1, <3>2, <3>3 DEF Path
    <2>3. CASE ReadText /\ pc' = "recheck"
      <3>1. pc = "read"
        BY <2>3 DEF ReadText, Goto, IsSubject
      <3>2. /\ Path \in git.untracked /\ Path \in DOMAIN world.work
            /\ handle.ino = world.work[Path].ino /\ handle.text = world.work[Path].text
            /\ handle.text \notin NotRegular
        BY <2>1, <3>1 DEF InHand
      <3>3. /\ handle' = [ino |-> handle.ino, size |-> Len(handle.text), text |-> TextOf(handle)]
            /\ todo' = todo
        BY <2>3, <3>2 DEF ReadText
      <3>4. git' = git /\ world' = world
        BY <2>3 DEF ReadText, Reads
      <3>5. Ours(Path)
        BY <3>2 DEF Ours
      <3>6. TextOf(handle) = world.work[Path].text
        BY <3>2, <3>5, TextRead, OneIsOurs
      <3>7. handle'.ino = handle.ino /\ handle'.text = handle.text /\ Path' = Path
        BY <3>2, <3>3, <3>6 DEF Path
      <3> QED BY <3>2, <3>4, <3>7
    <2>4. CASE Develop
      <3>1. pc' = pc
        BY <2>4 DEF Develop
      <3>2. Path \in git.untracked
        BY <1>2, <2>1, <3>1 DEF InHand
      <3>3. mode = "live" /\ Path \in Untracked(world)
        BY <1>2, <2>1, <3>1, <3>2, UntrackedInHand DEF Filing
      <3>4. Untracked(world) = {}
        BY <1>2, <2>4, <3>1, <3>3, SteadyMove DEF Unpinned, Gathering
      <3> QED BY <3>3, <3>4
    <2>5. CASE UNCHANGED vars
      <3>1. pc' = pc /\ UNCHANGED <<git, todo, handle, world>>
        BY <2>5 DEF vars, readings
      <3>2. Path' = Path
        BY <3>1 DEF Path
      <3> QED BY <1>2, <2>1, <3>1, <3>2 DEF InHand
    <2>6. Open => pc' # "recheck"
      BY DEF Open, Goto
    <2>7. ReadText => pc' # "read"
      BY DEF ReadText, Goto, IsSubject
    <2> QED BY <1>2, <2>2, <2>3, <2>4, <2>5, <2>6, <2>7, ComesTo
  <1> QED BY <1>1, <1>2 DEF InHand

LEMMA ContextIndexed ==
    ASSUME pc' \in {"index"} \cup Closed, pc \notin Sourcing, [Next]_vars
    PROVE  pc \notin Early /\ (ReadCommitted \/ (context' = context /\ pc \in {"index"} \cup Closed))
  <1> USE DEF Early, Gathering, Closed, Sourcing, Reads, Goto, Fail, identity, readings, inputs, results
  <1>1. CASE Evidences
    BY <1>1, EvidenceSteps DEF Gathered, Gathering
  <1>4. CASE Pin
    BY <1>4 DEF Pin
  <1>5. CASE RecordBase
    BY <1>5 DEF RecordBase
  <1>6. CASE Identify
    BY <1>6 DEF Identify
  <1>7. CASE CleanBefore
    BY <1>7 DEF CleanBefore
  <1>8. CASE ResolveBase
    BY <1>8 DEF ResolveBase
  <1>9. CASE ListRenames
    BY <1>9 DEF ListRenames, Lists
  <1>10. CASE ListTracked
    BY <1>10 DEF ListTracked, Lists
  <1>11. CASE ListUntracked
    BY <1>11 DEF ListUntracked, Lists
  <1>12. CASE ListAdditions
    BY <1>12 DEF ListAdditions
  <1>13. CASE DiffTracked
    BY <1>13 DEF DiffTracked
  <1>14. CASE ShowBase
    BY <1>14 DEF ShowBase, AddFile
  <1>15. CASE ScopeDone
    BY <1>15 DEF ScopeDone, NextScope
  <1>16. CASE Open
    BY <1>16 DEF Open, IsSubject
  <1>17. CASE ReadText
    BY <1>17 DEF ReadText, IsSubject
  <1>18. CASE Recheck
    BY <1>18 DEF Recheck, AddFile
  <1>19. CASE ReadCommitted
    BY <1>19 DEF ReadCommitted
  <1>20. CASE ListRepository
    BY <1>20 DEF ListRepository
  <1>21. CASE RecheckSource
    BY <1>21 DEF RecheckSource
  <1>22. CASE RepositoryRead
    BY <1>22 DEF RepositoryRead, NextScope
  <1>23. CASE BuildIndex
    BY <1>23 DEF BuildIndex
  <1>24. CASE StatusAfter
    BY <1>24 DEF StatusAfter
  <1>25. CASE HeadAfter
    BY <1>25 DEF HeadAfter
  <1>26. CASE Report
    BY <1>26 DEF Report
  <1>27. CASE Develop
    BY <1>27 DEF Develop, vars
  <1>28. CASE UNCHANGED vars
    BY <1>28 DEF vars
  <1> QED
    BY <1>1, <1>4, <1>5, <1>6, <1>7, <1>8, <1>9, <1>10, <1>11, <1>12, <1>13, <1>14, <1>15, <1>16, <1>17, <1>18, <1>19, <1>20, <1>21, <1>22, <1>23, <1>24, <1>25, <1>26, <1>27, <1>28
    DEF Next, Identifies, Listings, Subjecting, Prepass, Closing

LEMMA PinnedContextStays ==
    ASSUME Shape, PinnedContext, [Next]_vars
    PROVE  PinnedContext'
  <1> SUFFICES ASSUME mode' = "pinned", pc' \in {"index"} \cup Closed PROVE context' = Committed'
    BY DEF PinnedContext
  <1>0. mode = "pinned" /\ pc \notin Sourcing
    BY CheckoutStays DEF Shape, Pinning
  <1>1. pc \notin Early /\ (ReadCommitted \/ (context' = context /\ pc \in {"index"} \cup Closed))
    BY <1>0, ContextIndexed
  <1>2. pinned' = pinned
    BY <1>1, IdentityStays
  <1>3. Committed' = Committed
    BY <1>2 DEF Committed
  <1>4. CASE ReadCommitted
    <2>1. ~Fail
      BY DEF Fail, Goto, Closed
    <2>2. context' = Committed
      BY <1>4, <2>1 DEF ReadCommitted
    <2> QED BY <2>2, <1>3
  <1> QED BY <1>0, <1>1, <1>3, <1>4 DEF PinnedContext

LEMMA EmptyDomain == DOMAIN <<>> = {}
  OBVIOUS

Resolving == {"resolve base"} \cup Comparing \cup Filing \cup Late

LEMMA WhileListing ==
    ASSUME pc' \in Resolving, [Next]_vars
    PROVE  \/ CleanBefore \/ ResolveBase \/ ListAdditions \/ ShowBase \/ Recheck \/ ScopeDone \/ Open \/ ReadText
           \/ /\ pc \in Resolving /\ UNCHANGED <<bases, files>> /\ (pc' \in Late <=> pc \in Late)
              /\ pc \notin Late => scope' = scope
              /\ pc' \in Filing => pc \in Filing /\ todo' = todo
  <1> USE DEF Resolving, Early, Gathering, Comparing, Filing, Sourcing, Closed, Late, Reads, Goto, Fail, identity, readings, inputs, results
  <1>1. CASE Evidences
    BY <1>1, EvidenceSteps DEF Gathered, Gathering
  <1>4. CASE Pin
    BY <1>4 DEF Pin
  <1>5. CASE RecordBase
    BY <1>5 DEF RecordBase
  <1>6. CASE Identify
    BY <1>6 DEF Identify
  <1>7. CASE CleanBefore
    BY <1>7
  <1>8. CASE ResolveBase
    BY <1>8
  <1>9. CASE ListRenames
    BY <1>9 DEF ListRenames, Lists
  <1>10. CASE ListTracked
    BY <1>10 DEF ListTracked, Lists
  <1>11. CASE ListUntracked
    BY <1>11 DEF ListUntracked, Lists
  <1>12. CASE ListAdditions
    BY <1>12
  <1>13. CASE DiffTracked
    BY <1>13 DEF DiffTracked
  <1>14. CASE ShowBase
    BY <1>14
  <1>15. CASE ScopeDone
    BY <1>15
  <1>16. CASE Open
    BY <1>16
  <1>17. CASE ReadText
    BY <1>17
  <1>18. CASE Recheck
    BY <1>18
  <1>19. CASE ReadCommitted
    BY <1>19 DEF ReadCommitted
  <1>20. CASE ListRepository
    BY <1>20 DEF ListRepository
  <1>21. CASE RecheckSource
    BY <1>21 DEF RecheckSource
  <1>22. CASE RepositoryRead
    BY <1>22 DEF RepositoryRead, NextScope
  <1>23. CASE BuildIndex
    BY <1>23 DEF BuildIndex
  <1>24. CASE StatusAfter
    BY <1>24 DEF StatusAfter
  <1>25. CASE HeadAfter
    BY <1>25 DEF HeadAfter
  <1>26. CASE Report
    BY <1>26 DEF Report
  <1>27. CASE Develop
    BY <1>27 DEF Develop, vars
  <1>28. CASE UNCHANGED vars
    BY <1>28 DEF vars
  <1> QED
    BY <1>1, <1>4, <1>5, <1>6, <1>7, <1>8, <1>9, <1>10, <1>11, <1>12, <1>13, <1>14, <1>15, <1>16, <1>17, <1>18, <1>19, <1>20, <1>21, <1>22, <1>23, <1>24, <1>25, <1>26, <1>27, <1>28
    DEF Next, Identifies, Listings, Subjecting, Prepass, Closing

\* What is filed stays so when a base is added.
LEMMA StillRight ==
    ASSUME NEW f, NEW places, NEW more, NEW source, NEW loose,
           NEW n \in Nat, DOMAIN places = 1..n,
           \A k \in DOMAIN places : k \in DOMAIN more /\ more[k] = places[k],
           FiledRight(f, places, source, loose)
    PROVE  FiledRight(f, more, source, loose)
  <1>1. PICK k \in DOMAIN places :
            /\ f.path \in Wanted(k, places[k], source, loose)
            /\ \A j \in 1..(k - 1) : f.path \notin Wanted(j, places[j], source, loose)
            /\ Right(f, k, places[k], source, loose)
    BY DEF FiledRight
  <1>2. \A j \in 1..(k - 1) : j \in DOMAIN places
    OBVIOUS
  <1>3. k \in DOMAIN more /\ more[k] = places[k] /\ \A j \in 1..(k - 1) : more[j] = places[j]
    BY <1>2
  <1> QED BY <1>1, <1>3 DEF FiledRight

\* The bases of the scopes that are done, and of this one.
LEMMA BasesSoFar ==
    ASSUME Shape
    PROVE  /\ Len(bases) \in Nat /\ DOMAIN bases = 1..Len(bases)
           /\ \A b : /\ DOMAIN Append(bases, b) = 1..(Len(bases) + 1)
                     /\ \A k \in DOMAIN bases : k \in DOMAIN Append(bases, b) /\ Append(bases, b)[k] = bases[k]
  <1>1. bases \in Seq(ToSet(bases))
    BY DEF Shape, Types
  <1>2. Len(bases) \in Nat /\ DOMAIN bases = 1..Len(bases)
    BY <1>1, LenProperties
  <1>3. ASSUME NEW b
        PROVE  /\ DOMAIN Append(bases, b) = 1..(Len(bases) + 1)
               /\ \A k \in DOMAIN bases : k \in DOMAIN Append(bases, b) /\ Append(bases, b)[k] = bases[k]
    <2>1. DOMAIN Append(bases, b) = 1..(Len(bases) + 1)
      BY <1>1, AppendAny
    <2>2. bases \in Seq(ToSet(bases) \cup {b})
      BY <1>1, <1>2, SeqDef, ElementOfSeq
    <2>3. \A k \in 1..Len(bases) : Append(bases, b)[k] = bases[k]
      BY <2>2, AppendProperties
    <2>4. \A k \in 1..Len(bases) : k \in 1..(Len(bases) + 1)
      BY <1>2
    <2> QED BY <1>2, <2>1, <2>3, <2>4
  <1> QED BY <1>2, <1>3

\* A path of the list is one the scope has to show.
LEMMA TodoWanted ==
    ASSUME Shape, Listed, InHand, Steady, pc \in {"show base", "recheck"}
    PROVE  Path \in Wanted(scope, bases[scope], Source, Loose)
  <1>0. pc \in Filing
    BY DEF Filing
  <1>1. /\ git.tracked = Added(OldAt(scope), NewAt(scope)) \cup Modified(OldAt(scope), NewAt(scope))
        /\ ToSet(todo) \subseteq Subjects(git.tracked \cup git.untracked)
    BY <1>0 DEF Listed, Filing
  <1>2. Path \in ToSet(todo)
    BY <1>0, TailPaths DEF Shape, Types, Places
  <1>3. CASE pc = "show base"
    <2>1. Path \notin git.untracked
      BY <1>3 DEF InHand
    <2>2. Path \in Subjects(git.tracked)
      BY <1>1, <1>2, <2>1 DEF Subjects
    <2> QED BY <1>1, <2>2 DEF Wanted, Subjects, OldAt, NewAt
  <1>4. CASE pc = "recheck"
    <2>1. /\ Path \in git.untracked /\ Path \in DOMAIN world.work
          /\ world.work[Path].text \notin NotRegular
      BY <1>4 DEF InHand
    <2>2. mode = "live" /\ Path \in Untracked(world) /\ Path \in Here
      BY <1>0, <2>1, UntrackedInHand
    <2>3. Path \in DOMAIN Loose \cap Scopes[scope]
      BY <2>1, <2>2 DEF Loose, UntrackedTexts, Here
    <2>4. IsSource(Path) /\ Path \notin Excluded
      BY <1>1, <1>2 DEF Subjects
    <2> QED BY <2>3, <2>4 DEF Wanted, Subjects
  <1> QED BY <1>3, <1>4

\* What is added for a path, as a changed file and as a new one, is right.
LEMMA ChangedIsRight ==
    ASSUME Shape, Listed, InHand, Steady, pc = "show base",
           NEW f, f.path = Path, f.text = handle.text,
           f.base = IF git.base = Unborn \/ Path \in git.added THEN <<>> ELSE TextAt(OldTree, BasePath)
    PROVE  Right(f, scope, bases[scope], Source, Loose)
  <1>0. pc \in Filing
    BY DEF Filing
  <1>1. /\ git.renamed = Renames(OldAt(scope), NewAt(scope))
        /\ git.tracked = Added(OldAt(scope), NewAt(scope)) \cup Modified(OldAt(scope), NewAt(scope))
        /\ git.untracked = IF mode = "live" THEN Untracked(world) \cap Here ELSE {}
        /\ git.added = Added(OldAt(scope), NewAt(scope)) \ DOMAIN git.renamed
        /\ ToSet(todo) \subseteq Subjects(git.tracked \cup git.untracked)
    BY <1>0 DEF Listed, Filing
  <1>2. Path \in ToSet(todo)
    BY <1>0, TailPaths DEF Shape, Types, Places
  <1>3. Path \notin git.untracked /\ handle.text = TextAt(NewAt(scope), Path)
    BY DEF InHand
  <1>4. Path \in git.tracked
    BY <1>1, <1>2, <1>3 DEF Subjects
  <1>5. Path \in DOMAIN NewAt(scope)
    BY <1>1, <1>4 DEF Added, Modified
  <1>6. Path \in Here /\ handle.text = Source[Path]
    BY <1>3, <1>5 DEF NewAt, InScope, TextAt, Here
  <1>7. Path \notin DOMAIN Loose
    <2>1. CASE mode = "live"
      <3>1. Path \notin Untracked(world)
        BY <1>1, <1>3, <1>6, <2>1
      <3> QED BY <2>1, <3>1 DEF Loose, UntrackedTexts
    <2>2. CASE mode # "live"
      <3>1. DOMAIN <<>> = {}
        BY EmptyDomain
      <3> QED BY <2>2, <3>1 DEF Loose
    <2> QED BY <2>1, <2>2
  <1>8. OldTree = OldAt(scope) /\ git.base = bases[scope]
    BY <1>0, OneBase DEF Shape, Commands
  <1>9. BasePath = IF Path \in DOMAIN git.renamed THEN git.renamed[Path] ELSE Path
    BY DEF BasePath
  <1>10. f.base = TextAt(OldAt(scope), BasePath)
    <2>1. CASE git.base = Unborn
      <3>1. DOMAIN <<>> = {}
        BY EmptyDomain
      <3>2. DOMAIN OldAt(scope) = {}
        BY <2>1, <1>8, <3>1 DEF OldAt, InScope, TreeOf
      <3> QED BY <2>1, <3>2 DEF TextAt
    <2>2. CASE Path \in git.added
      <3>1. Path \notin DOMAIN git.renamed /\ Path \notin DOMAIN OldAt(scope)
        BY <2>2, <1>1 DEF Added
      <3> QED BY <2>2, <3>1, <1>9 DEF TextAt
    <2>3. CASE ~(git.base = Unborn \/ Path \in git.added)
      BY <2>3, <1>8
    <2> QED BY <2>1, <2>2, <2>3
  <1>11. f.base = TextAt(OldAt(scope), IF f.path \in DOMAIN Renames(OldAt(scope), NewAt(scope))
                                       THEN Renames(OldAt(scope), NewAt(scope))[f.path] ELSE f.path)
    BY <1>1, <1>9, <1>10
  <1> QED BY <1>6, <1>7, <1>11 DEF Right, OldAt, NewAt

LEMMA NewIsRight ==
    ASSUME Shape, Listed, InHand, Steady, pc = "recheck",
           NEW f, f.path = Path, f.text = handle.text, f.base = <<>>
    PROVE  Right(f, scope, bases[scope], Source, Loose)
  <1>1. /\ Path \in git.untracked /\ Path \in DOMAIN world.work
        /\ handle.text = world.work[Path].text /\ world.work[Path].text \notin NotRegular
    BY DEF InHand
  <1>2. mode = "live" /\ Path \in Untracked(world)
    BY <1>1, UntrackedInHand DEF Filing
  <1>3. Path \in DOMAIN Loose /\ Loose[Path] = handle.text
    BY <1>1, <1>2 DEF Loose, UntrackedTexts
  <1> QED BY <1>3 DEF Right

LEMMA UpToHere ==
    ASSUME NEW n \in Nat, NEW m \in Nat, n <= m, NEW k \in 1..m
    PROVE  /\ k < n + 1 => k < n \/ k = n
           /\ n = m => k < n \/ k = n
           /\ k < n => k \in 1..n /\ k \in 1..(n - 1) /\ k # n
           /\ \A j \in 1..(n - 1) : j \in 1..m /\ j < n
  OBVIOUS

\* A listed file that is gone, or no regular one, was not wanted: nothing has moved,
\* so the listing only named what the checkout does not read.
LEMMA GoneIsNotWanted ==
    ASSUME Shape, Listed, Steady, pc \in Filing, Path \in git.untracked,
           ~(Path \in DOMAIN world.work /\ world.work[Path].text \notin NotRegular)
    PROVE  Path \notin Wanted(scope, bases[scope], Source, Loose)
  <1>1. mode = "live" /\ Path \in Untracked(world) /\ pinned = Nothing
    BY UntrackedInHand
  <1>2. Path \notin DOMAIN Loose
    BY <1>1 DEF Loose, UntrackedTexts, Untracked
  <1>3. Path \notin DOMAIN Source
    BY <1>1 DEF Source, NewTree, WorkTexts, Untracked
  <1> QED BY <1>2, <1>3 DEF Wanted, Subjects, Added, Modified, InScope

LEMMA AllListed ==
    ASSUME Shape, Listed, Steady, pc = "list additions"
    PROVE  Wanted(scope, bases[scope], Source, Loose)
             \subseteq Subjects(git.tracked) \cup Subjects(git.untracked \ git.tracked)
  <1>1. /\ git.tracked = Added(OldAt(scope), NewAt(scope)) \cup Modified(OldAt(scope), NewAt(scope))
        /\ git.untracked = IF mode = "live" THEN Untracked(world) \cap Here ELSE {}
    BY DEF Listed, Comparing
  <1>2. DOMAIN Loose \cap Scopes[scope] \subseteq git.untracked
    <2>1. CASE mode = "live"
      BY <1>1, <2>1 DEF Loose, UntrackedTexts, Here
    <2>2. CASE mode # "live"
      BY <2>2, EmptyDomain DEF Loose
    <2> QED BY <2>1, <2>2
  <1> QED BY <1>1, <1>2 DEF Wanted, OldAt, NewAt, Subjects

\* So is what is filed: all that the finished scopes want, and nothing that is not.
LEMMA FiledStays == ASSUME Shape, Listed, InHand, Filed, [Next]_vars PROVE Filed'
  <1> DEFINE W(k) == Wanted(k, bases[k], Source, Loose)
             Scope1 == \A k \in 1..Len(Scopes) : (k < scope' \/ pc' \in Late) => Wanted(k, bases'[k], Source, Loose) \subseteq Discovered'
             Scope2 == pc' \in Filing => Wanted(scope', bases'[scope'], Source, Loose) \subseteq Discovered' \cup ToSet(todo')
             Scope3 == \A i \in DOMAIN files' : FiledRight(files'[i], bases', Source, Loose)
  <1> SUFFICES ASSUME Steady', mode' # "scan", pc' \in Resolving PROVE Filed'
    BY DEF Filed, Resolving
  <1>0. mode' = mode
    BY CheckoutStays
  <1>1. CASE CleanBefore
    <2>1. pc \in Early /\ pc' = "resolve base" /\ scope' = scope /\ files' = files
      BY <1>0, <1>1 DEF CleanBefore, Goto, Early, Gathering, readings, results, inputs
    <2>2. scope' = 1 /\ files' = <<>>
      BY <2>1 DEF Shape, Places
    <2>3. pc' \notin Late /\ pc' \notin Filing
      BY <2>1 DEF Late, Sourcing, Closed, Filing
    <2>4. \A k \in 1..Len(Scopes) : ~(k < 1)
      BY ScopesCount
    <2>5. DOMAIN files' = {}
      BY <2>2, EmptyDomain
    <2> QED BY <2>2, <2>3, <2>4, <2>5 DEF Filed
  <1>2. ASSUME ~CleanBefore PROVE Filed'
    <2>0. pc \in Resolving /\ pc \notin Early
      BY <1>2, WhileListing DEF Resolving, Early, Gathering, Comparing, Filing, Late, Sourcing, Closed, ResolveBase, ListAdditions, ShowBase, Recheck, ScopeDone, Open, ReadText
    <2>1. Steady /\ Source' = Source /\ Loose' = Loose
      BY <2>0, SteadyBefore
    <2>2. SUFFICES Scope1 /\ Scope2 /\ Scope3
      BY <2>1 DEF Filed
    <2>3. /\ \A k \in 1..Len(Scopes) : (k < scope \/ pc \in Late) => W(k) \subseteq Discovered
          /\ pc \in Filing => W(scope) \subseteq Discovered \cup ToSet(todo)
          /\ \A i \in DOMAIN files : FiledRight(files[i], bases, Source, Loose)
      BY <1>0, <2>0, <2>1 DEF Filed, Resolving
    <2>4. scope \in Nat /\ scope >= 1 /\ scope <= Len(Scopes) /\ Len(Scopes) \in Nat /\ scope \in 1..Len(Scopes)
      BY ScopeCount, ScopesCount DEF Shape, Types
    <2>5. ASSUME UNCHANGED <<bases, files>>, pc' \in Late <=> pc \in Late, pc \notin Late => scope' = scope,
                 pc' \in Filing => pc \in Filing /\ (todo' = todo \/ W(scope) \subseteq Discovered \cup ToSet(todo'))
          PROVE  Scope1 /\ Scope2 /\ Scope3
      <3>1. Discovered' = Discovered
        BY <2>5 DEF Discovered
      <3>2. Scope1
        BY <2>3, <2>5, <3>1
      <3>3. pc' \in Filing => scope' = scope
        BY <2>5 DEF Filing, Late, Sourcing, Closed
      <3>4. Scope2
        BY <2>3, <2>5, <3>1, <3>3
      <3>5. Scope3
        BY <2>3, <2>5
      <3> QED BY <3>2, <3>4, <3>5
    <2>6. CASE ResolveBase
      <3>1. ~Fail
        BY DEF Fail, Goto, Resolving, Comparing, Filing, Late, Sourcing, Closed
      <3>2. /\ pc = "resolve base" /\ pc' = "list renames" /\ scope' = scope /\ files' = files
            /\ \E b : bases' = Append(bases, b)
        BY <2>6, <3>1 DEF ResolveBase, Goto
      <3>3. /\ Len(bases) \in Nat /\ DOMAIN bases = 1..Len(bases) /\ Len(bases) = scope - 1
            /\ \A k \in DOMAIN bases : k \in DOMAIN bases' /\ bases'[k] = bases[k]
        BY <3>2, BasesSoFar DEF Shape, Places
      <3>4. Discovered' = Discovered
        BY <3>2 DEF Discovered
      <3>5. pc' \notin Late /\ pc' \notin Filing
        BY <3>2 DEF Late, Sourcing, Closed, Filing
      <3>6. \A k \in 1..Len(Scopes) : k < scope => k \in DOMAIN bases
        BY <2>4, <3>3, UpToHere
      <3>7. Scope1
        BY <2>3, <3>2, <3>3, <3>4, <3>5, <3>6
      <3>8. Scope3
        BY <2>3, <3>2, <3>3, StillRight
      <3> QED BY <3>5, <3>7, <3>8
    <2>7. CASE ListAdditions
      <3>1. /\ pc = "list additions" /\ pc' = "next file" /\ scope' = scope /\ bases' = bases /\ files' = files
            /\ todo' = SortPaths(Subjects(git.tracked)) \o SortPaths(Subjects(git.untracked \ git.tracked))
        BY <2>7 DEF ListAdditions, Goto, results, inputs
      <3>2. ToSet(todo') = Subjects(git.tracked) \cup Subjects(git.untracked \ git.tracked)
        BY <3>1, TodoPaths
      <3>3. W(scope) \subseteq ToSet(todo')
        BY <2>1, <3>1, <3>2, AllListed
      <3>4. Discovered' = Discovered
        BY <3>1 DEF Discovered
      <3>5. pc' \notin Late /\ pc \notin Late
        BY <3>1 DEF Late, Sourcing, Closed
      <3>6. Scope1
        BY <2>3, <3>1, <3>4, <3>5
      <3> QED BY <2>3, <3>1, <3>3, <3>6
    <2>8. ASSUME NEW patch, NEW base, NEW text, AddFile(Path, patch, base, text),
                 pc \in {"show base", "recheck"}, pc' = "next file",
                 \A f : (f.path = Path /\ f.text = text /\ f.base = base) => Right(f, scope, bases[scope], Source, Loose)
          PROVE  Scope1 /\ Scope2 /\ Scope3
      <3>1. /\ \A i \in DOMAIN files' :
                  \/ i \in DOMAIN files /\ files'[i] = files[i]
                  \/ /\ files'[i].path = Path /\ files'[i].base = base /\ files'[i].text = text
                     /\ Path \notin Discovered
            /\ Discovered' = Discovered \cup {Path}
        BY <2>8, AddedFile DEF Shape
      <3>2. scope' = scope /\ bases' = bases /\ todo' = Tail(todo)
        BY <2>8 DEF AddFile
      <3>3. pc \in Filing /\ pc \notin Late /\ pc' \notin Late /\ pc' \in Filing
        BY <2>8 DEF Filing, Late, Sourcing, Closed
      <3>4. todo # <<>> /\ todo \in Seq(Known) /\ Len(bases) = scope
        BY <2>8, <3>3 DEF Shape, Types, Places
      <3>5. ToSet(todo) = {Path} \cup ToSet(Tail(todo))
        BY <3>4, TailPaths
      <3>6. Scope1
        BY <2>3, <3>1, <3>2, <3>3
      <3>7. Scope2
        BY <2>3, <3>1, <3>2, <3>3, <3>5
      <3>8. scope \in DOMAIN bases
        BY <2>4, <3>4, BasesSoFar
      <3>9. Path \in W(scope)
        BY <2>1, <2>8, TodoWanted
      <3>10. \A j \in 1..(scope - 1) : j \in 1..Len(Scopes) /\ j < scope
        BY <2>4, UpToHere
      <3>11. Path \notin Discovered => \A j \in 1..(scope - 1) : Path \notin W(j)
        BY <2>3, <3>10
      <3>12. ASSUME NEW i \in DOMAIN files' PROVE FiledRight(files'[i], bases', Source, Loose)
        <4>1. CASE i \in DOMAIN files /\ files'[i] = files[i]
          BY <2>3, <3>2, <4>1
        <4>2. CASE /\ files'[i].path = Path /\ files'[i].base = base /\ files'[i].text = text
                   /\ Path \notin Discovered
          <5>1. Right(files'[i], scope, bases[scope], Source, Loose)
            BY <2>8, <4>2
          <5> QED BY <4>2, <5>1, <3>2, <3>8, <3>9, <3>11 DEF FiledRight
        <4> QED BY <3>1, <4>1, <4>2
      <3> QED BY <3>6, <3>7, <3>12
    <2>9. CASE ShowBase
      <3>1. ~Fail
        BY DEF Fail, Goto, Resolving, Comparing, Filing, Late, Sourcing, Closed
      <3> DEFINE base == IF git.base = Unborn \/ Path \in git.added THEN <<>> ELSE TextAt(OldTree, BasePath)
      <3>2. pc = "show base" /\ pc' = "next file" /\ AddFile(Path, handle.patch, base, handle.text)
        BY <2>9, <3>1 DEF ShowBase, Goto
      <3>3. \A f : (f.path = Path /\ f.text = handle.text /\ f.base = base)
                       => Right(f, scope, bases[scope], Source, Loose)
        BY <2>1, <3>2, ChangedIsRight
      <3> HIDE DEF base
      <3> QED BY <2>8, <3>2, <3>3
    <2>10. CASE Recheck
      <3>1. ~Fail
        BY DEF Fail, Goto, Resolving, Comparing, Filing, Late, Sourcing, Closed
      <3>2. /\ pc = "recheck" /\ pc' = "next file"
            /\ AddFile(Path, PatchForNewFile(handle.text), <<>>, handle.text)
        BY <2>10, <3>1 DEF Recheck, Goto
      <3>3. \A f : (f.path = Path /\ f.text = handle.text /\ f.base = <<>>)
                       => Right(f, scope, bases[scope], Source, Loose)
        BY <2>1, <3>2, NewIsRight
      <3> QED BY <2>8, <3>2, <3>3
    <2>11. CASE ScopeDone
      <3>1. /\ pc = "next file" /\ todo = <<>> /\ bases' = bases /\ files' = files
            /\ \/ scope = Len(Scopes) /\ pc' = "list repository"
               \/ scope' = scope + 1 /\ pc' = "resolve base"
        BY <2>11 DEF ScopeDone, NextScope, Goto, results, inputs
      <3>2. W(scope) \subseteq Discovered
        BY <2>3, <3>1, EmptyDomain DEF Filing, ToSet
      <3>3. Discovered' = Discovered
        BY <3>1 DEF Discovered
      <3>4. pc' \notin Filing
        BY <3>1 DEF Filing
      <3>5. ASSUME NEW k \in 1..Len(Scopes), k < scope' \/ pc' \in Late PROVE W(k) \subseteq Discovered
        <4>1. k < scope \/ k = scope
          <5>1. CASE scope = Len(Scopes)
            BY <2>4, <5>1, UpToHere
          <5>2. CASE scope' = scope + 1 /\ pc' = "resolve base"
            <6>1. pc' \notin Late
              BY <5>2 DEF Late, Sourcing, Closed
            <6>2. k < scope + 1
              BY <3>5, <5>2, <6>1
            <6> QED BY <2>4, <6>2, UpToHere
          <5> QED BY <3>1, <5>1, <5>2
        <4> QED BY <2>3, <3>2, <4>1
      <3> QED BY <2>3, <3>1, <3>3, <3>4, <3>5
    <2>12. CASE Open
      <3>1. UNCHANGED <<bases, files, scope>> /\ pc \in {"next file", "next source"} /\ todo # <<>>
        BY <2>12 DEF Open, results, inputs
      <3>2. CASE pc = "next source"
        <4>1. pc' \in {"next source", "read source"}
          BY <2>12, <3>2 DEF Open, Goto, IsSubject
        <4> QED BY <2>5, <3>1, <3>2, <4>1 DEF Late, Sourcing, Closed, Filing
      <3>3. CASE pc = "next file"
        <4>1. pc' \in {"next file", "read"} /\ Path \in git.untracked
          BY <2>12, <3>3 DEF Open, Goto, IsSubject
        <4>2. pc \in Filing /\ pc \notin Late /\ pc' \notin Late
          BY <3>3, <4>1 DEF Late, Sourcing, Closed, Filing
        <4>3. todo' = todo \/ W(scope) \subseteq Discovered \cup ToSet(todo')
          <5>1. CASE Path \in DOMAIN world.work /\ world.work[Path].text \notin NotRegular
            BY <2>12, <5>1 DEF Open
          <5>2. CASE ~(Path \in DOMAIN world.work /\ world.work[Path].text \notin NotRegular)
            <6>1. todo' = Tail(todo)
              BY <2>12, <5>2 DEF Open
            <6>2. ToSet(todo) = {Path} \cup ToSet(Tail(todo))
              BY <3>1, TailPaths DEF Shape, Types
            <6>3. Path \notin W(scope)
              BY <2>1, <4>1, <4>2, <5>2, GoneIsNotWanted
            <6> QED BY <2>3, <4>2, <6>1, <6>2, <6>3
          <5> QED BY <5>1, <5>2
        <4> QED BY <2>5, <3>1, <4>2, <4>3
      <3> QED BY <3>1, <3>2, <3>3
    <2>13. CASE ReadText
      <3>1. UNCHANGED <<bases, files, scope>> /\ pc \in {"read", "read source"}
        BY <2>13 DEF ReadText, results, inputs
      <3>2. CASE pc = "read source"
        <4>1. pc' \in {"next source", "recheck source"}
          BY <2>13, <3>2 DEF ReadText, Goto, IsSubject
        <4> QED BY <2>5, <3>1, <3>2, <4>1 DEF Late, Sourcing, Closed, Filing
      <3>3. CASE pc = "read"
        <4>1. Path \in DOMAIN world.work
          BY <2>1, <3>3 DEF InHand
        <4>2. todo' = todo /\ pc' = "recheck"
          BY <2>13, <3>3, <4>1 DEF ReadText, Goto, IsSubject
        <4> QED BY <2>5, <3>1, <3>3, <4>2 DEF Late, Sourcing, Closed, Filing
      <3> QED BY <3>1, <3>2, <3>3
    <2> QED BY <1>2, <2>5, <2>6, <2>7, <2>9, <2>10, <2>11, <2>12, <2>13, WhileListing
  <1> QED BY <1>1, <1>2

\* FoundSoFar is inductive under Shape.
LEMMA FoundInvariant == Spec => []FoundSoFar
  <1>1. Init => FoundSoFar
    <2> SUFFICES ASSUME Init PROVE FoundSoFar
      OBVIOUS
    <2>1. pc \in {"evidence head", "pin"}
      BY DEF Init
    <2> QED BY <2>1 DEF FoundSoFar, Listed, InHand, Filed, PinnedContext, Comparing, Filing, Late, Sourcing, Closed
  <1>2. Shape /\ FoundSoFar /\ [Next]_vars => FoundSoFar'
    BY ListedStays, InHandStays, FiledStays, PinnedContextStays DEF FoundSoFar
  <1> QED BY <1>1, <1>2, ShapeInvariant, PTL DEF Spec

LEMMA Interval == \A n \in Nat : IsFiniteSet(1..n) /\ Cardinality(1..n) = n
  <1> SUFFICES ASSUME NEW n \in Nat PROVE IsFiniteSet(1..n) /\ Cardinality(1..n) = n
    OBVIOUS
  <1>1. IsFiniteSet(1..n) /\ Cardinality(1..n) = IF 1 > n THEN 0 ELSE n - 1 + 1
    BY FS_Interval
  <1> QED BY <1>1

LEMMA NoneBetween == \A m, n \in Nat : m <= n /\ n <= m => m = n
  OBVIOUS

\* As many files as paths.
LEMMA FilesCount == ASSUME FiledOnce PROVE Len(files) = Cardinality(Discovered)
  <1> DEFINE g == [i \in 1..Len(files) |-> files[i].path]
  <1>1. Len(files) \in Nat /\ DOMAIN files = 1..Len(files)
    BY LenProperties DEF FiledOnce
  <1>2. Discovered = {files[i].path : i \in 1..Len(files)}
    BY <1>1 DEF Discovered
  <1>3. g \in Bijection(1..Len(files), Discovered)
    <2>1. g \in [1..Len(files) -> Discovered]
      BY <1>2
    <2>2. \A i, j \in 1..Len(files) : g[i] = g[j] => i = j
      BY <1>1 DEF FiledOnce
    <2>3. \A p \in Discovered : \E i \in 1..Len(files) : g[i] = p
      BY <1>2
    <2> HIDE DEF g
    <2> QED BY <2>1, <2>2, <2>3 DEF Bijection, Injection, Surjection, IsInjective
  <1>4. IsFiniteSet(1..Len(files)) /\ Cardinality(1..Len(files)) = Len(files)
    BY <1>1, Interval
  <1>5. ExistsBijection(1..Len(files), Discovered)
    BY <1>3 DEF ExistsBijection
  <1> QED BY <1>4, <1>5, FS_Bijection

LEMMA LeastOf ==
    ASSUME NEW S, NEW k \in S, S \subseteq Nat, \A j \in S : k <= j
    PROVE  Min(S) = k
  <1>1. Min(S) \in S /\ \A y \in S : Min(S) <= y
    BY DEF Min
  <1>2. Min(S) \in Nat /\ k \in Nat /\ Min(S) <= k /\ k <= Min(S)
    BY <1>1
  <1> QED BY <1>2, NoneBetween

LEMMA NotBefore == ASSUME NEW n \in Nat, NEW j \in 1..n, NEW k \in 1..n, ~(j \in 1..(k - 1)) PROVE k <= j
  OBVIOUS

\* When the scopes are done, what is filed is exactly what has changed.
LEMMA FiledIsExact ==
    ASSUME Shape, Filed, Steady, mode # "scan", pc \in {"index"} \cup Closed
    PROVE  Exact(Source, Loose)
  <1> DEFINE others == DOMAIN Loose
             DueIn(p) == {k \in DOMAIN Scopes : p \in Due(k, Source, others)}
  <1>1. Len(Scopes) \in Nat /\ DOMAIN Scopes = 1..Len(Scopes)
    BY ScopesCount
  <1>2. Len(bases) = Len(Scopes) /\ DOMAIN bases = DOMAIN Scopes
    <2>1. Len(bases) = Len(Scopes)
      BY DEF Shape, Places, Late
    <2> QED BY <1>1, <2>1, BasesSoFar
  <1>3. /\ \A k \in 1..Len(Scopes) : Wanted(k, bases[k], Source, Loose) \subseteq Discovered
        /\ \A i \in DOMAIN files : FiledRight(files[i], bases, Source, Loose)
    BY DEF Filed, Late
  <1>4. \A k : Due(k, Source, others) = Wanted(k, bases[k], Source, Loose)
    BY DEF Due, Wanted
  <1>5. \A k, f : Faithful(f, k, Source, Loose) = Right(f, k, bases[k], Source, Loose)
    BY DEF Faithful, Right
  <1>6. Discovered = UNION {Due(k, Source, others) : k \in DOMAIN Scopes}
    <2>1. \A k \in DOMAIN Scopes : Due(k, Source, others) \subseteq Discovered
      BY <1>1, <1>3, <1>4
    <2>2. ASSUME NEW p \in Discovered PROVE \E k \in DOMAIN Scopes : p \in Due(k, Source, others)
      <3>1. PICK i \in DOMAIN files : p = files[i].path
        BY DEF Discovered
      <3>2. FiledRight(files[i], bases, Source, Loose)
        BY <1>3
      <3>3. PICK k \in DOMAIN bases : p \in Wanted(k, bases[k], Source, Loose)
        BY <3>1, <3>2 DEF FiledRight
      <3> QED BY <1>2, <1>4, <3>3
    <2> HIDE DEF others
    <2> QED BY <2>1, <2>2
  <1>7. ASSUME NEW i \in DOMAIN files
        PROVE  Faithful(files[i], Min(DueIn(files[i].path)), Source, Loose)
    <2> DEFINE f == files[i]
    <2>1. FiledRight(f, bases, Source, Loose)
      BY <1>3
    <2> HIDE DEF f
    <2>2. PICK k \in DOMAIN bases :
             /\ f.path \in Wanted(k, bases[k], Source, Loose)
             /\ \A j \in 1..(k - 1) : f.path \notin Wanted(j, bases[j], Source, Loose)
             /\ Right(f, k, bases[k], Source, Loose)
      BY <2>1 DEF FiledRight
    <2>3. k \in DueIn(f.path)
      BY <1>2, <1>4, <2>2
    <2>4. ASSUME NEW j \in DueIn(f.path) PROVE k <= j
      <3>1. j \in 1..Len(Scopes) /\ k \in 1..Len(Scopes) /\ f.path \in Wanted(j, bases[j], Source, Loose)
        BY <1>1, <1>2, <1>4, <2>2, <2>4
      <3>2. ~(j \in 1..(k - 1))
        BY <2>2, <3>1
      <3> QED BY <1>1, <3>1, <3>2, NotBefore
    <2>5. DueIn(f.path) \subseteq Nat
      BY <1>1
    <2>6. Min(DueIn(f.path)) = k
      <3> HIDE DEF DueIn
      <3> QED BY <2>3, <2>4, <2>5, LeastOf
    <2>7. Faithful(f, k, Source, Loose)
      BY <1>5, <2>2
    <2> QED BY <2>6, <2>7 DEF f
  <1>8. Len(files) = Cardinality(Discovered)
    BY FilesCount DEF Shape
  <1> QED BY <1>6, <1>7, <1>8 DEF Exact

(* For every history, scopes and developer: a committed-only review files  *)
(* exactly what the pinned commit changed since its base, with the files of*)
(* that commit as context; and in a checkout that holds still the other modes*)
(* file every changed source file once, under the first scope it is due in,*)
(* with the text it had under its old name (changed_files_in_scope).       *)
THEOREM ExactChanges == Spec => []ChangesAreExact
  <1>1. Shape /\ FoundSoFar => PinnedIsExact
    <2> SUFFICES ASSUME Shape, FoundSoFar, Found, mode = "pinned"
                 PROVE  Exact(Tree[pinned], <<>>) /\ context = Committed
      BY DEF PinnedIsExact
    <2>1. pc \in {"index"} \cup Closed /\ mode # "scan"
      BY DEF Found, Closed
    <2>2. Steady
      BY DEF Steady
    <2>3. pinned \in Commits
      BY <2>1 DEF Shape, Pinning, Unpinned, Gathering, Closed
    <2>4. Source = Tree[pinned] /\ Loose = <<>>
      BY <2>3, DiscoveryAssumption DEF Source, Loose, NewTree, DiscoveryAssumption
    <2>5. Exact(Source, Loose)
      BY <2>1, <2>2, FiledIsExact DEF FoundSoFar
    <2> QED BY <2>1, <2>4, <2>5 DEF FoundSoFar, PinnedContext
  <1>2. Shape /\ FoundSoFar => QuietIsExact
    <2> SUFFICES ASSUME Shape, FoundSoFar, Found, moves = 0, mode # "pinned"
                 PROVE  Exact(NewTree(world, Nothing), IF mode = "live" THEN UntrackedTexts ELSE <<>>)
      BY DEF QuietIsExact
    <2>1. pc \in {"index"} \cup Closed /\ mode # "scan"
      BY DEF Found, Closed
    <2>2. Steady
      BY DEF Steady
    <2>3. Source = NewTree(world, Nothing)
      BY DEF Source, Shape, Pinning
    <2>4. Exact(Source, Loose)
      BY <2>1, <2>2, FiledIsExact DEF FoundSoFar
    <2> QED BY <2>3, <2>4 DEF Loose
  <1> QED BY <1>1, <1>2, ShapeInvariant, FoundInvariant, PTL DEF ChangesAreExact

---------------------------------------------------------------------------
(* What a scan has read, while the commit it is to report holds.           *)
Named == actual \in Commits \cup {Nothing}

Reviewed == Tree[ReviewedHead]
Firm == mode = "scan" /\ clean /\ Steady
SourcesOf(tree, S) == {p \in Subjects(DOMAIN tree \cap S) : tree[p] \notin NotRegular}

\* Nothing but files of the commit, and all those of the scopes that are done.
FromCommit ==
    /\ context = [p \in DOMAIN context |-> context[p]]
    /\ \A p \in DOMAIN context :
         p \in SourcesOf(Reviewed, UNION ToSet(Scopes)) /\ context[p] = Reviewed[p]
SoFar ==
    /\ pc \in {"list repository"} \cup Sourcing =>
         \A k \in 1..(scope - 1) : SourcesOf(Reviewed, Scopes[k]) \subseteq DOMAIN context
    /\ pc \in Sourcing =>
         /\ SourcesOf(Reviewed, Scopes[scope]) \subseteq DOMAIN context \cup ToSet(todo)
         /\ ToSet(todo) \subseteq Subjects(DOMAIN Reviewed \cap Scopes[scope])
    /\ pc \in {"index"} \cup Closed =>
         \A k \in 1..Len(Scopes) : SourcesOf(Reviewed, Scopes[k]) \subseteq DOMAIN context
Scanned == (Firm /\ pc \in Late) => FromCommit /\ SoFar

\* The open file has the text of the commit, wherever a move took it.
Held ==
    Firm =>
        /\ pc \in {"read source", "recheck source"} =>
             handle.text = Reviewed[Path] /\ handle.text \notin NotRegular
        /\ pc = "read source" =>
             /\ moves = 0 => Ours(Path)
             /\ \A q : Ours(q) => world.work[q].text = Reviewed[Path]

LEMMA NamedStays == ASSUME Shape, Named, [Next]_vars PROVE Named'
  <1> USE DEF Named, Reads, Goto, Fail, identity, readings, inputs, results
  <1>0. world.head \in Commits \cup {Unborn}
    BY CheckoutFacts DEF Shape, Types, Parts
  <1>1. CASE Evidences
    BY <1>1, EvidenceSteps DEF Gathered, Gathering
  <1>4. CASE Pin
    BY <1>4 DEF Pin
  <1>5. CASE RecordBase
    BY <1>5 DEF RecordBase
  <1>6. CASE Identify
    BY <1>6, <1>0 DEF Identify
  <1>7. CASE CleanBefore
    BY <1>7 DEF CleanBefore
  <1>8. CASE ResolveBase
    BY <1>8 DEF ResolveBase
  <1>9. CASE ListRenames
    BY <1>9 DEF ListRenames, Lists
  <1>10. CASE ListTracked
    BY <1>10 DEF ListTracked, Lists
  <1>11. CASE ListUntracked
    BY <1>11 DEF ListUntracked, Lists
  <1>12. CASE ListAdditions
    BY <1>12 DEF ListAdditions
  <1>13. CASE DiffTracked
    BY <1>13 DEF DiffTracked
  <1>14. CASE ShowBase
    BY <1>14 DEF ShowBase, AddFile
  <1>15. CASE ScopeDone
    BY <1>15 DEF ScopeDone, NextScope
  <1>16. CASE Open
    BY <1>16 DEF Open, IsSubject
  <1>17. CASE ReadText
    BY <1>17 DEF ReadText, IsSubject
  <1>18. CASE Recheck
    BY <1>18 DEF Recheck, AddFile
  <1>19. CASE ReadCommitted
    BY <1>19 DEF ReadCommitted
  <1>20. CASE ListRepository
    BY <1>20 DEF ListRepository
  <1>21. CASE RecheckSource
    BY <1>21 DEF RecheckSource
  <1>22. CASE RepositoryRead
    BY <1>22 DEF RepositoryRead, NextScope
  <1>23. CASE BuildIndex
    BY <1>23 DEF BuildIndex
  <1>24. CASE StatusAfter
    BY <1>24 DEF StatusAfter
  <1>25. CASE HeadAfter
    BY <1>25 DEF HeadAfter
  <1>26. CASE Report
    BY <1>26 DEF Report
  <1>27. CASE Develop
    BY <1>27 DEF Develop, vars
  <1>28. CASE UNCHANGED vars
    BY <1>28 DEF vars
  <1> QED
    BY <1>1, <1>4, <1>5, <1>6, <1>7, <1>8, <1>9, <1>10, <1>11, <1>12, <1>13, <1>14, <1>15, <1>16, <1>17, <1>18, <1>19, <1>20, <1>21, <1>22, <1>23, <1>24, <1>25, <1>26, <1>27, <1>28
    DEF Next, Identifies, Listings, Subjecting, Prepass, Closing

\* What a clean checkout has is its commit.
LEMMA CleanWorldHas ==
    ASSUME NEW w, Clean(w), w.head \in Commits
    PROVE  /\ w.tracked = DOMAIN Tree[w.head] /\ Untracked(w) = {}
           /\ \A p \in DOMAIN Tree[w.head] : p \in DOMAIN w.work /\ w.work[p].text = Tree[w.head][p]
  <1>1. TreeOf(w.head) = Tree[w.head]
    BY DiscoveryAssumption DEF TreeOf, DiscoveryAssumption
  <1>2. WorkTexts(w, w.tracked) = Tree[w.head] /\ w.tracked = DOMAIN Tree[w.head] /\ Untracked(w) = {}
    BY <1>1 DEF Clean
  <1>3. \A p \in DOMAIN WorkTexts(w, w.tracked) :
           p \in DOMAIN w.work /\ WorkTexts(w, w.tracked)[p] = w.work[p].text
    BY DEF WorkTexts
  <1> QED BY <1>2, <1>3

\* A clean review of a steady checkout has before it the commit it is to report.
LEMMA HoldsHas ==
    ASSUME Shape, Named, clean, Steady, mode # "pinned", pc # "failed"
    PROVE  /\ Holds /\ ReviewedHead \in Commits /\ world.tracked = DOMAIN Reviewed /\ Untracked(world) = {}
           /\ Source = Reviewed
           /\ \A p \in DOMAIN Reviewed : p \in DOMAIN world.work /\ world.work[p].text = Reviewed[p]
  <1>1. Holds
    BY DEF Steady, Holds, Shape, Identified
  <1>2. ReviewedHead = actual /\ ReviewedHead # Nothing /\ pinned = Nothing
    BY DEF Shape, Identified, Pinning
  <1>3. ReviewedHead \in Commits /\ world.head = ReviewedHead /\ Clean(world)
    BY <1>1, <1>2 DEF Named, Holds
  <1>4. /\ world.tracked = DOMAIN Reviewed /\ Untracked(world) = {}
        /\ \A p \in DOMAIN Reviewed : p \in DOMAIN world.work /\ world.work[p].text = Reviewed[p]
    BY <1>3, CleanWorldHas DEF Reviewed
  <1>5. Source = Reviewed
    <2>1. TreeOf(world.head) = Tree[world.head]
      BY <1>3, DiscoveryAssumption DEF TreeOf, DiscoveryAssumption
    <2> QED BY <1>2, <1>3, <2>1 DEF Source, NewTree, Clean, Reviewed
  <1> QED BY <1>1, <1>3, <1>4, <1>5

LEMMA FirmBefore ==
    ASSUME Shape, [Next]_vars, Firm', pc \notin Early
    PROVE  Firm /\ Reviewed' = Reviewed /\ ReviewedHead' = ReviewedHead
  <1>1. UNCHANGED <<pinned, actual, clean>>
    BY IdentityStays
  <1>2. Steady /\ mode' = mode
    BY SteadyBefore DEF Firm
  <1> QED BY <1>1, <1>2 DEF Firm, Reviewed, ReviewedHead

\* The file that a scan has open.
LEMMA HeldStays == ASSUME Shape, Named, Held, Scanned, [Next]_vars PROVE Held'
  <1> SUFFICES ASSUME Firm', pc' \in {"read source", "recheck source"}
               PROVE  /\ handle'.text = Reviewed'[Path'] /\ handle'.text \notin NotRegular
                      /\ pc' = "read source" =>
                           /\ moves' = 0 => Ours(Path)'
                           /\ \A q : Ours(q)' => world'.work[q].text = Reviewed'[Path']
    BY Zenon DEF Held
  <1>0. pc \in Sourcing /\ pc \notin Early /\ pc # "failed" /\ (pc = "next source" \/ pc = pc' \/ pc = "read source")
    BY ComesTo DEF Sourcing, Early, Gathering, Open, ReadText, Develop, vars, Goto, IsSubject
  <1>1. Firm /\ Reviewed' = Reviewed
    BY <1>0, FirmBefore
  <1>2. /\ Holds /\ world.tracked = DOMAIN Reviewed
        /\ \A p \in DOMAIN Reviewed : p \in DOMAIN world.work /\ world.work[p].text = Reviewed[p]
    BY <1>0, <1>1, HoldsHas DEF Firm
  <1>3. todo # <<>> => Path \in DOMAIN Reviewed
    <2>1. ToSet(todo) \subseteq DOMAIN Reviewed
      BY <1>0, <1>1 DEF Scanned, SoFar, Late, Subjects
    <2>2. todo # <<>> => Path \in ToSet(todo)
      BY TailPaths DEF Shape, Types
    <2> QED BY <2>1, <2>2
  <1>4. CASE Open
    <2>1. todo # <<>> /\ pc' = "read source"
      BY <1>4 DEF Open, Goto
    <2>2. /\ world.work[Path].text \notin NotRegular /\ handle' = world.work[Path] /\ todo' = todo
      BY <1>0, <1>4 DEF Open, Goto, Sourcing
    <2>3. world' = world
      BY <1>4 DEF Open, Reads
    <2>4. Path' = Path /\ Path \in DOMAIN world.work /\ world.work[Path].text = Reviewed[Path]
      BY <1>2, <1>3, <2>1, <2>2 DEF Path
    <2>5. Ours(Path)'
      BY <2>2, <2>3, <2>4 DEF Ours
    <2>6. Parts(world)
      BY CheckoutFacts DEF Shape, Types
    <2>7. ASSUME NEW q, Ours(q)' PROVE world'.work[q].text = Reviewed'[Path']
      <3>1. q = Path
        BY <2>2, <2>3, <2>4, <2>6, <2>7 DEF Ours, Parts
      <3> QED BY <1>1, <2>3, <2>4, <3>1
    <2> QED BY <1>1, <2>2, <2>4, <2>5, <2>7
  <1>5. CASE ReadText
    <2>1. pc = "read source" /\ pc' # "read source"
      BY <1>0, <1>5 DEF ReadText, Goto, IsSubject
    <2>2. todo # <<>> /\ Path \in DOMAIN world.work
      BY <1>2, <1>3, <2>1 DEF Shape, Places
    <2>3. handle' = [ino |-> handle.ino, size |-> Len(handle.text), text |-> TextOf(handle)] /\ todo' = todo
      BY <1>5, <2>2 DEF ReadText
    <2>4. /\ handle.text = Reviewed[Path] /\ handle.text \notin NotRegular
          /\ \A q : Ours(q) => world.work[q].text = Reviewed[Path]
      BY <1>1, <2>1 DEF Held
    <2>5. TextOf(handle) = Reviewed[Path]
      BY <2>4, TextRead
    <2>6. handle'.text = Reviewed[Path] /\ Path' = Path
      BY <2>3, <2>5 DEF Path
    <2> QED BY <1>1, <2>1, <2>4, <2>6
  <1>6. CASE Develop
    <2>1. pc' = pc /\ handle' = handle /\ todo' = todo /\ todo # <<>>
      BY <1>6 DEF Develop, readings, Shape, Places
    <2>2. Path' = Path /\ Path \in DOMAIN Reviewed
      BY <1>3, <2>1 DEF Path
    <2>3. /\ handle.text = Reviewed[Path] /\ handle.text \notin NotRegular
          /\ pc = "read source" =>
               /\ moves = 0 => Ours(Path)
               /\ \A q : Ours(q) => world.work[q].text = Reviewed[Path]
      BY <1>1, <2>1 DEF Held
    <2>4. moves = 0 /\ Holds' /\ mode # "pinned" /\ mode' = mode
      BY <1>0, <1>1, <1>6, SteadyMove, CheckoutStays DEF Firm, Sourcing, Unpinned, Gathering
    <2>5. moves' # 0
      <3>1. moves \in Nat /\ moves' = moves + 1
        BY <1>6 DEF Develop, Shape, Types
      <3> QED BY <3>1, OneLater
    <2>6. world'.head \in Commits /\ Clean(world') /\ Reviewed = Tree[world'.head]
      <3>1. ReviewedHead \in Commits /\ ReviewedHead' = ReviewedHead
        BY <1>0, <1>1, HoldsHas, FirmBefore DEF Firm
      <3> QED BY <2>4, <3>1 DEF Holds, Reviewed
    <2>7. world'.work[Path].text = Reviewed[Path]
      BY <2>2, <2>6, CleanWorldHas
    <2>8. ASSUME pc = "read source", NEW q, Ours(q)' PROVE world'.work[q].text = Reviewed[Path]
      <3>1. Ours(Path) /\ \A p : Ours(p) => world.work[p].text = Reviewed[Path]
        BY <2>3, <2>4, <2>8
      <3>2. Ours(q) \/ \E p : Ours(p) /\ world'.work[q].text = world.work[p].text
        BY <1>6, <2>8, <3>1, MovedAsItWas
      <3>3. CASE Ours(q)
        BY <2>7, <3>1, <3>3, OneIsOurs
      <3> QED BY <3>1, <3>2, <3>3
    <2> QED BY <1>1, <2>1, <2>2, <2>3, <2>5, <2>8
  <1>7. CASE UNCHANGED vars
    <2>1. pc' = pc /\ UNCHANGED <<handle, todo, world, moves>>
      BY <1>7 DEF vars, readings
    <2>2. Path' = Path
      BY <2>1 DEF Path
    <2>3. \A q : Ours(q)' <=> Ours(q)
      BY <2>1 DEF Ours
    <2>4. Ours(Path)' <=> Ours(Path)
      BY <2>1, <2>2 DEF Ours
    <2> QED BY <1>1, <2>1, <2>2, <2>3, <2>4 DEF Held
  <1> QED BY <1>4, <1>5, <1>6, <1>7, ComesTo

LEMMA WhileScanning ==
    ASSUME Pinning, mode = "scan", pc' \in Late, [Next]_vars
    PROVE  \/ CleanBefore \/ ListRepository \/ Open \/ ReadText \/ RecheckSource \/ RepositoryRead
           \/ /\ pc \in Late /\ context' = context
              /\ pc' \in {"list repository"} \cup Sourcing => pc' = pc /\ UNCHANGED <<scope, todo>>
              /\ pc' \in {"index"} \cup Closed => pc \in {"index"} \cup Closed
  <1> USE DEF Pinning, Early, Gathering, Comparing, Filing, Sourcing, Closed, Late, Reads, Goto, Fail, identity, readings, inputs, results
  <1>1. CASE Evidences
    BY <1>1, EvidenceSteps DEF Gathered, Gathering
  <1>4. CASE Pin
    BY <1>4 DEF Pin
  <1>5. CASE RecordBase
    BY <1>5 DEF RecordBase
  <1>6. CASE Identify
    BY <1>6 DEF Identify
  <1>7. CASE CleanBefore
    BY <1>7
  <1>8. CASE ResolveBase
    BY <1>8 DEF ResolveBase
  <1>9. CASE ListRenames
    BY <1>9 DEF ListRenames, Lists
  <1>10. CASE ListTracked
    BY <1>10 DEF ListTracked, Lists
  <1>11. CASE ListUntracked
    BY <1>11 DEF ListUntracked, Lists
  <1>12. CASE ListAdditions
    BY <1>12 DEF ListAdditions
  <1>13. CASE DiffTracked
    BY <1>13 DEF DiffTracked
  <1>14. CASE ShowBase
    BY <1>14 DEF ShowBase, AddFile
  <1>15. CASE ScopeDone
    BY <1>15 DEF ScopeDone, NextScope
  <1>16. CASE Open
    BY <1>16
  <1>17. CASE ReadText
    BY <1>17
  <1>18. CASE Recheck
    BY <1>18 DEF Recheck, AddFile
  <1>19. CASE ReadCommitted
    BY <1>19 DEF ReadCommitted
  <1>20. CASE ListRepository
    BY <1>20
  <1>21. CASE RecheckSource
    BY <1>21
  <1>22. CASE RepositoryRead
    BY <1>22
  <1>23. CASE BuildIndex
    BY <1>23 DEF BuildIndex
  <1>24. CASE StatusAfter
    BY <1>24 DEF StatusAfter
  <1>25. CASE HeadAfter
    BY <1>25 DEF HeadAfter
  <1>26. CASE Report
    BY <1>26 DEF Report
  <1>27. CASE Develop
    BY <1>27 DEF Develop, vars
  <1>28. CASE UNCHANGED vars
    BY <1>28 DEF vars
  <1> QED
    BY <1>1, <1>4, <1>5, <1>6, <1>7, <1>8, <1>9, <1>10, <1>11, <1>12, <1>13, <1>14, <1>15, <1>16, <1>17, <1>18, <1>19, <1>20, <1>21, <1>22, <1>23, <1>24, <1>25, <1>26, <1>27, <1>28
    DEF Next, Identifies, Listings, Subjecting, Prepass, Closing

LEMMA EmptyFunction == <<>> = [p \in DOMAIN <<>> |-> <<>>[p]]
  OBVIOUS

LEMMA BeforeNext ==
    ASSUME NEW n \in Nat, NEW m, m = n + 1, NEW k \in 1..(m - 1)
    PROVE  k = n \/ k \in 1..(n - 1)
  OBVIOUS

LEMMA NoneBefore == ASSUME NEW n, n = 1 PROVE \A k \in 1..(n - 1) : FALSE
  OBVIOUS

\* The files that a scan has read.
LEMMA ScannedStays == ASSUME Shape, Named, Held, Scanned, [Next]_vars PROVE Scanned'
  <1> SUFFICES ASSUME Firm', pc' \in Late PROVE FromCommit' /\ SoFar'
    BY Zenon DEF Scanned
  <1>0. mode = "scan" /\ mode' = mode
    BY CheckoutStays DEF Firm
  <1>1. CASE CleanBefore
    <2>1. pc' = "list repository" /\ context' = <<>> /\ scope' = 1
      BY <1>0, <1>1 DEF CleanBefore, Goto, results, inputs, Shape, Places, Early, Gathering
    <2>2. DOMAIN context' = {} /\ context' = [p \in DOMAIN context' |-> context'[p]]
      BY <2>1, EmptyDomain, EmptyFunction
    <2>3. FromCommit'
      BY <2>2 DEF FromCommit
    <2>4. \A k \in 1..(scope' - 1) : FALSE
      BY <2>1, NoneBefore
    <2> QED BY <2>1, <2>3, <2>4 DEF SoFar, Sourcing, Closed
  <1>2. CASE pc \in Late
    <2>1. Firm /\ Reviewed' = Reviewed /\ pc \notin Early /\ pc # "failed"
      BY <1>2, FirmBefore DEF Late, Early, Gathering, Sourcing, Closed
    <2>2. FromCommit /\ SoFar
      BY <1>2, <2>1 DEF Scanned
    <2>3. /\ world.tracked = DOMAIN Reviewed /\ Untracked(world) = {}
          /\ \A p \in DOMAIN Reviewed : p \in DOMAIN world.work /\ world.work[p].text = Reviewed[p]
      BY <1>0, <2>1, HoldsHas DEF Firm
    <2>4. Len(Scopes) \in Nat /\ scope \in Nat /\ scope >= 1 /\ scope <= Len(Scopes) /\ DOMAIN Scopes = 1..Len(Scopes)
      BY ScopesCount, ScopeCount DEF Shape
    <2>5. /\ pc \in Sourcing /\ todo # <<>> =>
               /\ Path \in Subjects(DOMAIN Reviewed \cap Scopes[scope])
               /\ Path \in DOMAIN world.work /\ world.work[Path].text = Reviewed[Path]
          /\ todo # <<>> =>
               ToSet(Tail(todo)) \subseteq ToSet(todo) /\ ToSet(todo) = {Path} \cup ToSet(Tail(todo))
      <3>1. todo # <<>> => /\ Path \in ToSet(todo) /\ ToSet(Tail(todo)) \subseteq ToSet(todo)
                           /\ ToSet(todo) = {Path} \cup ToSet(Tail(todo))
        BY TailPaths DEF Shape, Types
      <3>2. pc \in Sourcing => ToSet(todo) \subseteq Subjects(DOMAIN Reviewed \cap Scopes[scope])
        BY <2>2 DEF SoFar
      <3> QED BY <2>3, <3>1, <3>2 DEF Subjects
    \* The list goes on past a path that is no file to read.
    <2>6. ASSUME UNCHANGED <<scope, context>>, pc \in Sourcing, pc' \in Sourcing,
                 todo' = todo \/ (todo' = Tail(todo) /\ Path \notin SourcesOf(Reviewed, Scopes[scope]) /\ todo # <<>>)
          PROVE  FromCommit' /\ SoFar'
      <3>1. FromCommit'
        BY <2>1, <2>2, <2>6 DEF FromCommit
      <3>2. /\ SourcesOf(Reviewed, Scopes[scope]) \subseteq DOMAIN context \cup ToSet(todo')
            /\ ToSet(todo') \subseteq Subjects(DOMAIN Reviewed \cap Scopes[scope])
        BY <2>2, <2>5, <2>6 DEF SoFar
      <3>3. \A k \in 1..(scope - 1) : SourcesOf(Reviewed, Scopes[k]) \subseteq DOMAIN context
        BY <2>2, <2>6 DEF SoFar
      <3>4. pc' \notin {"index"} \cup Closed
        BY <2>6 DEF Sourcing, Closed
      <3> QED BY <2>1, <2>6, <3>1, <3>2, <3>3, <3>4 DEF SoFar
    <2>7. CASE ListRepository
      <3>1. /\ pc = "list repository" /\ pc' = "next source" /\ UNCHANGED <<scope, context>>
            /\ todo' = SortPaths(Subjects((world.tracked \cup Untracked(world)) \cap Here))
        BY <2>7 DEF ListRepository, Goto, results, inputs
      <3>2. Subjects(DOMAIN Reviewed \cap Scopes[scope]) \in SUBSET Known
        <4>1. world.tracked \subseteq Known
          BY <2>7, KnownPaths DEF Shape, ListRepository, Unpinned, Gathering
        <4> QED BY <2>3, <4>1 DEF Subjects
      <3>3. ToSet(todo') = Subjects(DOMAIN Reviewed \cap Scopes[scope])
        BY <2>3, <3>1, <3>2, SortPathsFacts DEF Here
      <3>4. FromCommit'
        BY <2>1, <2>2, <3>1 DEF FromCommit
      <3>5. SourcesOf(Reviewed, Scopes[scope]) \subseteq ToSet(todo')
        BY <3>3 DEF SourcesOf
      <3>6. \A k \in 1..(scope - 1) : SourcesOf(Reviewed, Scopes[k]) \subseteq DOMAIN context
        BY <2>2, <3>1 DEF SoFar
      <3> QED BY <2>1, <3>1, <3>3, <3>4, <3>5, <3>6 DEF SoFar, Sourcing, Closed
    <2>8. CASE Open
      <3>1. /\ pc = "next source" /\ todo # <<>> /\ UNCHANGED <<scope, context>> /\ pc' \in Sourcing
            /\ \/ todo' = todo
               \/ todo' = Tail(todo) /\ ~(Path \in DOMAIN world.work /\ world.work[Path].text \notin NotRegular)
        BY <1>2, <2>8 DEF Open, Goto, IsSubject, results, inputs, Late, Sourcing, Closed
      <3>2. todo' = Tail(todo) => todo' = todo \/ Path \notin SourcesOf(Reviewed, Scopes[scope])
        BY <2>5, <3>1 DEF SourcesOf, Sourcing
      <3> QED BY <2>6, <3>1, <3>2 DEF Sourcing
    <2>9. CASE ReadText
      <3>1. pc = "read source" /\ todo # <<>> /\ UNCHANGED <<scope, context>>
        BY <1>2, <2>9 DEF ReadText, results, inputs, Late, Sourcing, Closed, Shape, Places
      <3>2. Path \in DOMAIN world.work
        BY <2>5, <3>1 DEF Sourcing
      <3>3. todo' = todo /\ pc' = "recheck source"
        BY <2>9, <3>1, <3>2 DEF ReadText, Goto, IsSubject
      <3> QED BY <2>6, <3>1, <3>3 DEF Sourcing
    <2>10. CASE RecheckSource
      <3>1. /\ pc = "recheck source" /\ pc' = "next source" /\ todo # <<>> /\ scope' = scope /\ todo' = Tail(todo)
            /\ context' = IF Path \in DOMAIN context THEN context ELSE Put(context, Path, handle.text)
        BY <1>0, <1>2, <2>10 DEF RecheckSource, Goto, Fail, Late, Sourcing, Closed, Shape, Places
      <3>2. handle.text = Reviewed[Path] /\ handle.text \notin NotRegular
        BY <2>1, <3>1 DEF Held
      <3>3. Path \in SourcesOf(Reviewed, Scopes[scope]) /\ Path \in SourcesOf(Reviewed, UNION ToSet(Scopes))
        <4>1. Scopes[scope] \in ToSet(Scopes)
          BY <2>4 DEF ToSet
        <4>2. Path \in Subjects(DOMAIN Reviewed \cap Scopes[scope])
          BY <2>5, <3>1 DEF Sourcing
        <4> QED BY <3>2, <4>1, <4>2 DEF SourcesOf, Subjects
      <3>4. /\ DOMAIN context' = DOMAIN context \cup {Path}
            /\ context' = [p \in DOMAIN context' |-> context'[p]]
            /\ \A p \in DOMAIN context' : context'[p] = IF p \in DOMAIN context THEN context[p] ELSE handle.text
        <4>1. CASE Path \in DOMAIN context
          BY <2>2, <3>1, <4>1 DEF FromCommit
        <4>2. CASE Path \notin DOMAIN context
          <5>1. context' = [q \in DOMAIN context \cup {Path} |-> IF q = Path THEN handle.text ELSE context[q]]
            BY <3>1, <4>2 DEF Put
          <5> QED BY <4>2, <5>1
        <4> QED BY <4>1, <4>2
      <3>5. FromCommit'
        BY <2>1, <2>2, <3>2, <3>3, <3>4 DEF FromCommit
      <3>6. \A k \in 1..(scope' - 1) : SourcesOf(Reviewed, Scopes[k]) \subseteq DOMAIN context'
        BY <2>2, <3>1, <3>4 DEF SoFar, Sourcing
      <3>7. /\ SourcesOf(Reviewed, Scopes[scope]) \subseteq DOMAIN context' \cup ToSet(todo')
            /\ ToSet(todo') \subseteq Subjects(DOMAIN Reviewed \cap Scopes[scope])
        BY <2>2, <2>5, <3>1, <3>4 DEF SoFar, Sourcing
      <3> QED BY <2>1, <3>1, <3>5, <3>6, <3>7 DEF SoFar, Sourcing, Closed
    <2>11. CASE RepositoryRead
      <3>1. /\ pc = "next source" /\ todo = <<>> /\ context' = context
            /\ scope' = IF scope = Len(Scopes) THEN 1 ELSE scope + 1
            /\ pc' = IF scope = Len(Scopes) THEN "index" ELSE "list repository"
        BY <2>11 DEF RepositoryRead, NextScope, Goto, results, inputs
      <3>2. FromCommit'
        BY <2>1, <2>2, <3>1 DEF FromCommit
      <3>3. ToSet(todo) = {}
        BY <3>1, EmptyDomain DEF ToSet
      <3>4. /\ SourcesOf(Reviewed, Scopes[scope]) \subseteq DOMAIN context
            /\ \A k \in 1..(scope - 1) : SourcesOf(Reviewed, Scopes[k]) \subseteq DOMAIN context
        BY <2>2, <3>1, <3>3 DEF SoFar, Sourcing
      <3>5. CASE scope = Len(Scopes)
        <4>1. \A k \in 1..Len(Scopes) : k = scope \/ k \in 1..(scope - 1)
          BY <2>4, <3>5, UpToHere
        <4> QED BY <2>1, <3>1, <3>2, <3>4, <3>5, <4>1 DEF SoFar, Sourcing
      <3>6. CASE scope # Len(Scopes)
        <4>1. \A k \in 1..(scope' - 1) : k = scope \/ k \in 1..(scope - 1)
          BY <2>4, <3>1, <3>6, BeforeNext
        <4> QED BY <2>1, <3>1, <3>2, <3>4, <3>6, <4>1 DEF SoFar, Sourcing, Closed
      <3> QED BY <3>5, <3>6
    <2>12. CASE /\ context' = context
                /\ pc' \in {"list repository"} \cup Sourcing => pc' = pc /\ UNCHANGED <<scope, todo>>
                /\ pc' \in {"index"} \cup Closed => pc \in {"index"} \cup Closed
      <3>1. FromCommit'
        BY <2>1, <2>2, <2>12 DEF FromCommit
      <3> QED BY <2>1, <2>2, <2>12, <3>1 DEF SoFar
    <2> QED BY <1>0, <1>1, <2>7, <2>8, <2>9, <2>10, <2>11, <2>12, WhileScanning DEF Shape
  <1>3. CASE pc \notin Late
    <2>1. ~(ListRepository \/ RecheckSource \/ RepositoryRead)
      BY <1>3 DEF ListRepository, RecheckSource, RepositoryRead, Late, Sourcing
    <2>2. ~(Open \/ ReadText)
      BY <1>0, <1>3 DEF Open, ReadText, Late, Sourcing, Shape, Pinning, Filing
    <2> QED BY <1>0, <1>1, <1>3, <2>1, <2>2, WhileScanning DEF Shape
  <1> QED BY <1>2, <1>3

---------------------------------------------------------------------------
(* What the report may claim.                                              *)
OfCommit == IF mode = "scan" THEN context = RegularFiles(Reviewed) ELSE Exact(Reviewed, <<>>)
SteadyIsOfCommit ==
    (Steady /\ clean /\ mode # "pinned" /\ pc \in {"index"} \cup Closed) => OfCommit

\* When the scopes are done, a scan has read the regular files of the commit, and
\* no others.
LEMMA ScanIsOfCommit ==
    ASSUME FromCommit, SoFar, pc \in {"index"} \cup Closed
    PROVE  context = RegularFiles(Reviewed)
  <1> DEFINE S == SourcesOf(Reviewed, UNION ToSet(Scopes))
  <1>1. DOMAIN context \subseteq S /\ \A p \in DOMAIN context : context[p] = Reviewed[p]
    BY DEF FromCommit
  <1>2. ASSUME NEW p \in S PROVE p \in DOMAIN context
    <2>1. PICK k \in DOMAIN Scopes : p \in Scopes[k]
      BY <1>2 DEF SourcesOf, Subjects, ToSet
    <2>2. p \in SourcesOf(Reviewed, Scopes[k])
      BY <1>2, <2>1 DEF SourcesOf, Subjects
    <2>3. k \in 1..Len(Scopes)
      BY <2>1, ScopesCount
    <2> QED BY <2>2, <2>3 DEF SoFar
  <1>3. RegularFiles(Reviewed) = [p \in S |-> Reviewed[p]]
    BY DEF RegularFiles, SourcesOf
  <1>4. DOMAIN context = S
    BY <1>1, <1>2
  <1>5. context = [p \in DOMAIN context |-> context[p]]
    BY DEF FromCommit
  <1> HIDE DEF S
  <1> QED BY <1>1, <1>3, <1>4, <1>5

\* Without loose files, none is told apart.
LEMMA ExactAlone ==
    ASSUME NEW tree, NEW loose, DOMAIN loose = {}, Exact(tree, loose)
    PROVE  Exact(tree, <<>>)
  <1>1. \A k : Due(k, tree, DOMAIN loose) = Due(k, tree, DOMAIN <<>>)
    BY EmptyDomain
  <1>2. \A f, k : Faithful(f, k, tree, loose) = Faithful(f, k, tree, <<>>)
    BY EmptyDomain DEF Faithful
  <1> QED BY <1>1, <1>2, EmptyDomain DEF Exact

\* A review that was steady to the end of its reading has read the commit.
LEMMA AtIndex ==
    ASSUME Shape, Named, Filed, Scanned
    PROVE  SteadyIsOfCommit
  <1> SUFFICES ASSUME Steady, clean, mode # "pinned", pc \in {"index"} \cup Closed PROVE OfCommit
    BY DEF SteadyIsOfCommit
  <1>1. Source = Reviewed /\ Untracked(world) = {}
    BY HoldsHas DEF Closed
  <1>2. CASE mode = "scan"
    <2>1. FromCommit /\ SoFar
      BY <1>2 DEF Scanned, Firm, Late
    <2> QED BY <1>2, <2>1, ScanIsOfCommit DEF OfCommit
  <1>3. CASE mode # "scan"
    <2>1. Exact(Source, Loose)
      BY <1>3, FiledIsExact
    <2>2. DOMAIN Loose = {}
      BY <1>1, EmptyDomain DEF Loose, UntrackedTexts
    <2>3. Exact(Reviewed, <<>>)
      BY <1>1, <2>1, <2>2, ExactAlone
    <2> QED BY <1>3, <2>3 DEF OfCommit
  <1> QED BY <1>2, <1>3

LEMMA SteadyInvariant == Spec => []SteadyIsOfCommit
  <1> DEFINE J == Named /\ Held /\ Scanned
  <1>1. Init => J
    <2>1. Init => actual = Nothing /\ clean = FALSE /\ pc \notin Sourcing
      BY DEF Init, Sourcing
    <2> QED BY <2>1 DEF Named, Held, Scanned, Firm, Sourcing
  <1>2. Shape /\ J /\ [Next]_vars => J'
    BY NamedStays, HeldStays, ScannedStays
  <1>3. Spec => []J
    <2> HIDE DEF J
    <2> QED BY <1>1, <1>2, ShapeInvariant, PTL DEF Spec
  <1>4. Shape /\ FoundSoFar /\ J => SteadyIsOfCommit
    BY AtIndex DEF FoundSoFar
  <1> HIDE DEF J
  <1> QED BY <1>3, <1>4, ShapeInvariant, FoundInvariant, PTL

\* Nothing that happens to the checkout later changes what was read.
LEMMA OfCommitStays ==
    ASSUME UNCHANGED <<mode, context, files, bases, pinned, actual>>
    PROVE  OfCommit' <=> OfCommit
  <1>1. Reviewed' = Reviewed /\ Discovered' = Discovered
    BY DEF Reviewed, ReviewedHead, Discovered
  <1>2. \A k, tree, o : Due(k, tree, o)' = Due(k, tree, o)
    BY DEF Due, Subjects
  <1>3. \A f, k, tree, o : Faithful(f, k, tree, o)' = Faithful(f, k, tree, o)
    BY DEF Faithful
  <1> QED BY <1>1, <1>2, <1>3 DEF OfCommit, Exact

\* A move after the reading is told by the status, or by the head; and once
\* the last question is answered, what was read is what the report names.
Claimed ==
    (still /\ moves <= 1 /\ mode # "pinned") =>
        /\ pc \in {"index", "status after"} => OfCommit \/ (moves = 1 /\ ~Holds)
        /\ pc = "head after" => OfCommit \/ (moves = 1 /\ world.head # ReviewedHead)
        /\ pc \in {"report", "done"} => OfCommit
Reported == report # Nothing => report.head = ReviewedHead /\ (report.clean => still)

LEMMA WhileClosing ==
    ASSUME pc \in {"index"} \cup Closed, [Next]_vars
    PROVE  BuildIndex \/ StatusAfter \/ HeadAfter \/ Report \/ Develop \/ UNCHANGED vars
  <1> USE DEF Early, Gathering, Comparing, Filing, Sourcing, Closed, Late, Reads, Goto, Fail, identity, readings, inputs, results
  <1>1. CASE Evidences
    BY <1>1, EvidenceSteps DEF Gathered, Gathering
  <1>4. CASE Pin
    BY <1>4 DEF Pin
  <1>5. CASE RecordBase
    BY <1>5 DEF RecordBase
  <1>6. CASE Identify
    BY <1>6 DEF Identify
  <1>7. CASE CleanBefore
    BY <1>7 DEF CleanBefore
  <1>8. CASE ResolveBase
    BY <1>8 DEF ResolveBase
  <1>9. CASE ListRenames
    BY <1>9 DEF ListRenames, Lists
  <1>10. CASE ListTracked
    BY <1>10 DEF ListTracked, Lists
  <1>11. CASE ListUntracked
    BY <1>11 DEF ListUntracked, Lists
  <1>12. CASE ListAdditions
    BY <1>12 DEF ListAdditions
  <1>13. CASE DiffTracked
    BY <1>13 DEF DiffTracked
  <1>14. CASE ShowBase
    BY <1>14 DEF ShowBase, AddFile
  <1>15. CASE ScopeDone
    BY <1>15 DEF ScopeDone, NextScope
  <1>16. CASE Open
    BY <1>16 DEF Open, IsSubject
  <1>17. CASE ReadText
    BY <1>17 DEF ReadText, IsSubject
  <1>18. CASE Recheck
    BY <1>18 DEF Recheck, AddFile
  <1>19. CASE ReadCommitted
    BY <1>19 DEF ReadCommitted
  <1>20. CASE ListRepository
    BY <1>20 DEF ListRepository
  <1>21. CASE RecheckSource
    BY <1>21 DEF RecheckSource
  <1>22. CASE RepositoryRead
    BY <1>22 DEF RepositoryRead, NextScope
  <1>23. CASE BuildIndex
    BY <1>23
  <1>24. CASE StatusAfter
    BY <1>24
  <1>25. CASE HeadAfter
    BY <1>25
  <1>26. CASE Report
    BY <1>26
  <1>27. CASE Develop
    BY <1>27
  <1>28. CASE UNCHANGED vars
    BY <1>28
  <1> QED
    BY <1>1, <1>4, <1>5, <1>6, <1>7, <1>8, <1>9, <1>10, <1>11, <1>12, <1>13, <1>14, <1>15, <1>16, <1>17, <1>18, <1>19, <1>20, <1>21, <1>22, <1>23, <1>24, <1>25, <1>26, <1>27, <1>28
    DEF Next, Identifies, Listings, Subjecting, Prepass, Closing

LEMMA ComesToIndex ==
    ASSUME pc \notin {"index"} \cup Closed, [Next]_vars
    PROVE  pc' \notin Closed
  <1> USE DEF Early, Gathering, Comparing, Filing, Sourcing, Closed, Late, Reads, Goto, Fail, identity, readings, inputs, results
  <1>1. CASE Evidences
    BY <1>1, EvidenceSteps DEF Gathered, Gathering
  <1>4. CASE Pin
    BY <1>4 DEF Pin
  <1>5. CASE RecordBase
    BY <1>5 DEF RecordBase
  <1>6. CASE Identify
    BY <1>6 DEF Identify
  <1>7. CASE CleanBefore
    BY <1>7 DEF CleanBefore
  <1>8. CASE ResolveBase
    BY <1>8 DEF ResolveBase
  <1>9. CASE ListRenames
    BY <1>9 DEF ListRenames, Lists
  <1>10. CASE ListTracked
    BY <1>10 DEF ListTracked, Lists
  <1>11. CASE ListUntracked
    BY <1>11 DEF ListUntracked, Lists
  <1>12. CASE ListAdditions
    BY <1>12 DEF ListAdditions
  <1>13. CASE DiffTracked
    BY <1>13 DEF DiffTracked
  <1>14. CASE ShowBase
    BY <1>14 DEF ShowBase, AddFile
  <1>15. CASE ScopeDone
    BY <1>15 DEF ScopeDone, NextScope
  <1>16. CASE Open
    BY <1>16 DEF Open, IsSubject
  <1>17. CASE ReadText
    BY <1>17 DEF ReadText, IsSubject
  <1>18. CASE Recheck
    BY <1>18 DEF Recheck, AddFile
  <1>19. CASE ReadCommitted
    BY <1>19 DEF ReadCommitted
  <1>20. CASE ListRepository
    BY <1>20 DEF ListRepository
  <1>21. CASE RecheckSource
    BY <1>21 DEF RecheckSource
  <1>22. CASE RepositoryRead
    BY <1>22 DEF RepositoryRead, NextScope
  <1>23. CASE BuildIndex
    BY <1>23 DEF BuildIndex
  <1>24. CASE StatusAfter
    BY <1>24 DEF StatusAfter
  <1>25. CASE HeadAfter
    BY <1>25 DEF HeadAfter
  <1>26. CASE Report
    BY <1>26 DEF Report
  <1>27. CASE Develop
    BY <1>27 DEF Develop, vars
  <1>28. CASE UNCHANGED vars
    BY <1>28 DEF vars
  <1> QED
    BY <1>1, <1>4, <1>5, <1>6, <1>7, <1>8, <1>9, <1>10, <1>11, <1>12, <1>13, <1>14, <1>15, <1>16, <1>17, <1>18, <1>19, <1>20, <1>21, <1>22, <1>23, <1>24, <1>25, <1>26, <1>27, <1>28
    DEF Next, Identifies, Listings, Subjecting, Prepass, Closing

LEMMA MovesUpTo1 == \A n \in Nat : n <= 1 => n = 0 \/ n = 1
  OBVIOUS

\* The two questions that end a review see the move that spoilt it.
LEMMA ClaimedStays ==
    ASSUME Shape, SteadyIsOfCommit', Shape', Claimed, [Next]_vars
    PROVE  Claimed'
  <1> SUFFICES ASSUME still', moves' <= 1, mode' # "pinned", pc' \in {"index"} \cup Closed
               PROVE  /\ pc' \in {"index", "status after"} => OfCommit' \/ (moves' = 1 /\ ~Holds')
                      /\ pc' = "head after" => OfCommit' \/ (moves' = 1 /\ world'.head # ReviewedHead')
                      /\ pc' \in {"report", "done"} => OfCommit'
    BY Zenon DEF Claimed, Closed
  <1>0. mode' = mode /\ moves \in Nat /\ moves' \in Nat /\ (moves = 0 => moves # 1)
    BY CheckoutStays, MoveCounts DEF Shape, Types
  <1>1. CASE pc \notin {"index"} \cup Closed
    <2>1. pc' = "index"
      BY <1>1, ComesToIndex
    <2>2. clean'
      BY DEF Shape, Identified
    <2>3. moves' = 0 \/ moves' = 1
      BY <1>0, MovesUpTo1
    <2> QED BY <2>1, <2>2, <2>3 DEF SteadyIsOfCommit, Steady
  <1>2. CASE pc \in {"index"} \cup Closed
    <2>0. pc \notin Early
      BY <1>2 DEF Early, Gathering, Closed
    <2>1. UNCHANGED <<pinned, actual, context, files, bases>>
      <3>1. UNCHANGED <<pinned, actual>>
        BY <2>0, IdentityStays
      <3>2. UNCHANGED <<context, files, bases>>
        BY <1>2, WhileClosing DEF BuildIndex, StatusAfter, HeadAfter, Report, Develop, vars, results, inputs
      <3> QED BY <3>1, <3>2
    <2>2. OfCommit' <=> OfCommit
      BY <1>0, <2>1, OfCommitStays
    <2>3. ReviewedHead' = ReviewedHead
      BY <2>1 DEF ReviewedHead
    <2>4. CASE BuildIndex
      <3>1. /\ pc = "index" /\ pc' = "status after" /\ still' = still /\ UNCHANGED <<world, moves>>
        BY <2>4 DEF BuildIndex, Goto, Reads, identity
      <3> QED BY <1>0, <2>2, <2>3, <3>1 DEF Claimed, Holds
    <2>5. CASE StatusAfter
      <3>1. /\ pc = "status after" /\ pc' = "head after" /\ still /\ Clean(world) /\ UNCHANGED <<world, moves>>
        BY <2>5 DEF StatusAfter, Goto, Reads
      <3> QED BY <1>0, <2>2, <2>3, <3>1 DEF Claimed, Holds
    <2>6. CASE HeadAfter
      <3>1. /\ pc = "head after" /\ world.head = ReviewedHead /\ UNCHANGED <<world, moves>>
        BY <2>6 DEF HeadAfter, Goto, Reads
      <3>2. OfCommit
        BY <1>0, <3>1 DEF Claimed, Shape, Identified
      <3>3. pc' # "head after"
        BY <2>6 DEF HeadAfter, Goto
      <3> QED BY <2>2, <3>2, <3>3
    <2>7. CASE Report
      <3>1. /\ pc = "report" /\ pc' = "done" /\ still' = still /\ UNCHANGED <<world, moves>>
        BY <2>7 DEF Report, Goto, Reads, identity
      <3> QED BY <1>0, <2>2, <3>1 DEF Claimed
    <2>8. CASE Develop
      <3>1. pc' = pc /\ still' = still /\ moves = 0 /\ moves <= 1
        BY <2>8, MoveCounts DEF Develop, identity
      <3>2. OfCommit
        BY <1>0, <3>1 DEF Claimed, Closed
      <3> QED BY <2>2, <3>2
    <2>9. CASE UNCHANGED vars
      <3>1. UNCHANGED <<pc, still, world, moves>>
        BY <2>9 DEF vars, identity
      <3> QED BY <1>0, <2>2, <2>3, <3>1 DEF Claimed, Holds
    <2> QED BY <1>2, <2>4, <2>5, <2>6, <2>7, <2>8, <2>9, WhileClosing
  <1> QED BY <1>1, <1>2

LEMMA OnlyReport ==
    ASSUME [Next]_vars
    PROVE  Report \/ report' = report
  <1> USE DEF Reads, Goto, Fail, identity, readings, inputs, results
  <1>1. CASE Evidences
    BY <1>1, EvidenceSteps DEF Gathered, Gathering
  <1>4. CASE Pin
    BY <1>4 DEF Pin
  <1>5. CASE RecordBase
    BY <1>5 DEF RecordBase
  <1>6. CASE Identify
    BY <1>6 DEF Identify
  <1>7. CASE CleanBefore
    BY <1>7 DEF CleanBefore
  <1>8. CASE ResolveBase
    BY <1>8 DEF ResolveBase
  <1>9. CASE ListRenames
    BY <1>9 DEF ListRenames, Lists
  <1>10. CASE ListTracked
    BY <1>10 DEF ListTracked, Lists
  <1>11. CASE ListUntracked
    BY <1>11 DEF ListUntracked, Lists
  <1>12. CASE ListAdditions
    BY <1>12 DEF ListAdditions
  <1>13. CASE DiffTracked
    BY <1>13 DEF DiffTracked
  <1>14. CASE ShowBase
    BY <1>14 DEF ShowBase, AddFile
  <1>15. CASE ScopeDone
    BY <1>15 DEF ScopeDone, NextScope
  <1>16. CASE Open
    BY <1>16 DEF Open, IsSubject
  <1>17. CASE ReadText
    BY <1>17 DEF ReadText, IsSubject
  <1>18. CASE Recheck
    BY <1>18 DEF Recheck, AddFile
  <1>19. CASE ReadCommitted
    BY <1>19 DEF ReadCommitted
  <1>20. CASE ListRepository
    BY <1>20 DEF ListRepository
  <1>21. CASE RecheckSource
    BY <1>21 DEF RecheckSource
  <1>22. CASE RepositoryRead
    BY <1>22 DEF RepositoryRead, NextScope
  <1>23. CASE BuildIndex
    BY <1>23 DEF BuildIndex
  <1>24. CASE StatusAfter
    BY <1>24 DEF StatusAfter
  <1>25. CASE HeadAfter
    BY <1>25 DEF HeadAfter
  <1>26. CASE Report
    BY <1>26
  <1>27. CASE Develop
    BY <1>27 DEF Develop, vars
  <1>28. CASE UNCHANGED vars
    BY <1>28 DEF vars
  <1> QED
    BY <1>1, <1>4, <1>5, <1>6, <1>7, <1>8, <1>9, <1>10, <1>11, <1>12, <1>13, <1>14, <1>15, <1>16, <1>17, <1>18, <1>19, <1>20, <1>21, <1>22, <1>23, <1>24, <1>25, <1>26, <1>27, <1>28
    DEF Next, Identifies, Listings, Subjecting, Prepass, Closing

LEMMA ReportedStays == ASSUME Shape, Reported, [Next]_vars PROVE Reported'
  <1>1. CASE Report
    <2>1. /\ pc = "report" /\ still' = still /\ UNCHANGED <<pinned, actual>>
          /\ \E same, unknowns : report' = Claims(same, unknowns)
      BY <1>1 DEF Report, identity
    <2>2. PICK same, unknowns : report' = Claims(same, unknowns)
      BY <2>1
    <2>3. report'.head = ReviewedHead /\ (report'.clean => still)
      BY <2>2 DEF Claims
    <2>4. ReviewedHead' = ReviewedHead
      BY <2>1 DEF ReviewedHead
    <2> QED BY <2>1, <2>3, <2>4 DEF Reported
  <1>2. CASE report' = report
    <2> SUFFICES ASSUME report # Nothing PROVE report'.head = ReviewedHead' /\ (report'.clean => still')
      BY <1>2 DEF Reported
    <2>1. pc = "done"
      BY DEF Shape, Places
    <2>2. UNCHANGED <<pinned, actual, still>>
      BY <2>1, WhileClosing DEF BuildIndex, StatusAfter, HeadAfter, Report, Develop, vars, identity, Closed
    <2> QED BY <1>2, <2>2 DEF Reported, ReviewedHead
  <1> QED BY <1>1, <1>2, OnlyReport

(* For every commit, scopes and mode, wherever one move of the developer   *)
(* falls among the commands and reads of the review: a report that calls its*)
(* source clean is the review of the commit it names (run_mode).           *)
THEOREM CleanClaims == Spec => []CleanIsExact
  <1> DEFINE K == Claimed /\ Reported
  <1>1. Init => K
    BY DEF Init, Claimed, Reported
  <1>2. Shape /\ Shape' /\ SteadyIsOfCommit' /\ K /\ [Next]_vars => K'
    BY ClaimedStays, ReportedStays
  <1>3. Spec => []K
    <2> HIDE DEF K
    <2> QED BY <1>1, <1>2, ShapeInvariant, SteadyInvariant, PTL DEF Spec
  <1>4. Shape /\ K /\ ChangesAreExact => CleanIsExact
    <2> SUFFICES ASSUME Shape, K, ChangesAreExact, report # Nothing, report.clean, moves <= 1
                 PROVE  IF mode = "scan" THEN context = RegularFiles(Tree[report.head])
                        ELSE Exact(Tree[report.head], <<>>)
      BY DEF CleanIsExact
    <2>1. pc = "done" /\ still /\ report.head = ReviewedHead
      BY DEF Shape, Places, Reported
    <2>2. CASE mode = "pinned"
      <3>1. pinned \in Commits
        BY <2>1, <2>2 DEF Shape, Pinning, Unpinned, Gathering
      <3>2. ReviewedHead = pinned
        BY <3>1, DiscoveryAssumption DEF ReviewedHead, DiscoveryAssumption
      <3>3. Exact(Tree[pinned], <<>>)
        BY <2>1, <2>2 DEF ChangesAreExact, PinnedIsExact, Found
      <3> QED BY <2>1, <2>2, <3>2, <3>3
    <2>3. CASE mode # "pinned"
      <3>1. OfCommit
        BY <2>1, <2>3 DEF Claimed
      <3> QED BY <2>1, <3>1 DEF OfCommit, Reviewed
    <2> QED BY <2>2, <2>3
  <1> HIDE DEF K
  <1> QED BY <1>3, <1>4, ShapeInvariant, ExactChanges, PTL
=============================================================================
