-------------------------- MODULE ReasonCodesProofs --------------------------
(***************************************************************************)
(* Proofs about ReasonCodes: the ranking of the groups, what cold-start    *)
(* features change (nothing), and what more risk changes, for any          *)
(* attributions, any feature vectors and any number of reasons.            *)
(***************************************************************************)
EXTENDS ReasonCodes, FiniteSetTheorems, NaturalsInduction, TLAPS

------------------------------------------------------------------------------
(* Sums.                                                                   *)

\* A set of numbers has a least one.
LEMMA LeastOf ==
    ASSUME NEW T, T \subseteq Nat, T # {}
    PROVE  \E m \in T : \A n \in T : m <= n
  <1>1. PICK less : less = OpToRel(<, Nat)
    OBVIOUS
  <1>2. IsWellFoundedOn(less, Nat)
    BY <1>1, NatLessThanWellFounded
  <1>3. \A x, y \in Nat : x < y => <<x, y>> \in less
    BY <1>1 DEF OpToRel
  <1>4. PICK m \in T : \A n \in T : <<n, m>> \notin less
    BY <1>2, WFMin
  <1>5. ASSUME NEW n \in T
        PROVE  m <= n
    <2>1. m \in Nat /\ n \in Nat
      OBVIOUS
    <2>2. ~ (n < m)
      BY <1>3, <1>4, <2>1
    <2> QED BY <2>1, <2>2
  <1> QED BY <1>5

\* The element that a fold takes next.
Any(s) == CHOOSE x \in s : TRUE

\* What a fold has added up when it comes to each subset of its indices.
Partial(w, sums) ==
    sums = [s \in SUBSET DOMAIN w |->
              IF s = {} THEN 0 ELSE w[Any(s)] + sums[s \ {Any(s)}]]

\* SumFunction is the last of the partial sums, once there are any.
LEMMA SumUnfolds ==
    ASSUME NEW w, NEW sums0, Partial(w, sums0)
    PROVE  \E sums : Partial(w, sums) /\ SumFunction(w) = sums[DOMAIN w]
  <1> DEFINE sums == CHOOSE sums : Partial(w, sums)
  <1>1. Partial(w, sums)
    OBVIOUS
  <1>2. SumFunction(w) = sums[DOMAIN w]
    BY DEF SumFunction, SumFunctionOnSet, FoldFunctionOnSet, MapThenFoldSet, Partial, Any
  <1> QED BY <1>1, <1>2

\* Taking the next element leaves a smaller set.
LEMMA AnyIsTaken ==
    ASSUME NEW D, IsFiniteSet(D), NEW s \in SUBSET D, s # {}
    PROVE  /\ Any(s) \in s
           /\ s \ {Any(s)} \in SUBSET D
           /\ Cardinality(s) \in Nat \ {0}
           /\ Cardinality(s \ {Any(s)}) = Cardinality(s) - 1
  <1>1. Any(s) \in s
    BY DEF Any
  <1>2. IsFiniteSet(s)
    BY FS_Subset
  <1>3. Cardinality(s) \in Nat /\ Cardinality(s) # 0
    BY <1>2, FS_CardinalityType, FS_EmptySet
  <1>4. Cardinality(s \ {Any(s)}) = Cardinality(s) - 1
    BY <1>1, <1>2, FS_RemoveElement
  <1> QED BY <1>1, <1>3, <1>4

\* The subsets of at most n elements, and a fold that has come that far.
Small(D, n) == {s \in SUBSET D : Cardinality(s) <= n}
Upto(w, n, g) ==
    /\ g \in [Small(DOMAIN w, n) -> Int]
    /\ \A s \in Small(DOMAIN w, n) :
          g[s] = IF s = {} THEN 0 ELSE w[Any(s)] + g[s \ {Any(s)}]

\* Folds come as far as any number: a first one they do not reach has one before it.
LEMMA FoldsReachAll ==
    ASSUME NEW D, IsFiniteSet(D), NEW w \in [D -> Int], NEW n \in Nat
    PROVE  \E g : Upto(w, n, g)
  <1> DEFINE Bad == {k \in Nat : ~ \E g : Upto(w, k, g)}
  <1> SUFFICES ASSUME Bad # {} PROVE FALSE
    OBVIOUS
  <1>1. PICK m \in Bad : \A k \in Bad : m <= k
    <2> HIDE DEF Bad
    <2>1. Bad \subseteq Nat
      BY DEF Bad
    <2> QED BY <2>1, LeastOf
  <1>2. m \in Nat /\ \A g : ~ Upto(w, m, g)
    BY <1>1
  <1>3. DOMAIN w = D
    OBVIOUS
  <1>4. CASE m = 0
    <2> DEFINE g == [s \in Small(D, 0) |-> 0]
    <2>1. ASSUME NEW s \in Small(D, 0) PROVE s = {}
      <3>1. s \in SUBSET D /\ Cardinality(s) <= 0
        BY DEF Small
      <3>2. s # {} => Cardinality(s) \in Nat \ {0}
        BY <3>1, AnyIsTaken
      <3> QED BY <3>1, <3>2
    <2>2. Upto(w, 0, g)
      BY <1>3, <2>1 DEF Upto
    <2> QED BY <1>2, <1>4, <2>2
  <1>5. CASE m # 0
    <2>1. m - 1 \in Nat /\ m - 1 \notin Bad
      <3>1. m - 1 \in Nat
        BY <1>2, <1>5
      <3>2. ~ (m <= m - 1)
        BY <1>2
      <3> HIDE DEF Bad
      <3> QED BY <1>1, <3>1, <3>2
    <2>2. PICK g : Upto(w, m - 1, g)
      BY <2>1
    <2> DEFINE next(s) == IF s = {} THEN 0 ELSE w[Any(s)] + g[s \ {Any(s)}]
    <2> DEFINE h == [s \in Small(D, m) |-> next(s)]
    <2>3. \A s \in Small(D, m - 1) : s \in Small(D, m) /\ g[s] = next(s)
      <3>1. ASSUME NEW s \in Small(D, m - 1)
            PROVE  s \in Small(D, m)
        <4>1. s \in SUBSET D /\ Cardinality(s) <= m - 1
          BY DEF Small
        <4>2. Cardinality(s) \in Nat
          BY <4>1, FS_Subset, FS_CardinalityType
        <4> QED BY <1>2, <4>1, <4>2 DEF Small
      <3> QED BY <1>3, <2>2, <3>1 DEF Upto
    <2>4. ASSUME NEW s \in Small(D, m), s # {}
          PROVE  s \ {Any(s)} \in Small(D, m - 1) /\ w[Any(s)] \in Int
      <3>1. s \in SUBSET D /\ Cardinality(s) <= m
        BY DEF Small
      <3>2. /\ Any(s) \in s /\ s \ {Any(s)} \in SUBSET D
            /\ Cardinality(s) \in Nat
            /\ Cardinality(s \ {Any(s)}) = Cardinality(s) - 1
        BY <2>4, <3>1, AnyIsTaken
      <3>3. Cardinality(s) - 1 <= m - 1
        BY <1>2, <3>1, <3>2
      <3> QED BY <3>1, <3>2, <3>3 DEF Small
    <2>5. \A s \in Small(D, m) : h[s] = next(s) /\ next(s) \in Int
      BY <1>3, <2>2, <2>4 DEF Upto
    <2>6. ASSUME NEW s \in Small(D, m)
          PROVE  h[s] = IF s = {} THEN 0 ELSE w[Any(s)] + h[s \ {Any(s)}]
      <3>1. CASE s = {}
        BY <2>5, <3>1
      <3>2. CASE s # {}
        <4> DEFINE t == s \ {Any(s)}
        <4>1. t \in Small(D, m - 1)
          BY <2>4, <3>2
        <4>2. h[t] = g[t]
          <5> HIDE DEF t, h, next
          <5> QED BY <2>3, <2>5, <4>1
        <4> QED BY <2>5, <3>2, <4>2
      <3> QED BY <3>1, <3>2
    <2>7. h \in [Small(D, m) -> Int]
      BY <2>5
    <2>8. Upto(w, m, h)
      <3> HIDE DEF h
      <3> QED BY <1>3, <2>6, <2>7 DEF Upto
    <2> QED BY <1>2, <2>8
  <1> QED BY <1>4, <1>5

\* The partial sums of w over the subsets of its indices D.
SumsOf(D, w, sums) ==
    /\ sums \in [SUBSET D -> Int]
    /\ sums[{}] = 0
    /\ \A s \in SUBSET D : s # {} => sums[s] = w[Any(s)] + sums[s \ {Any(s)}]
    /\ SumFunction(w) = sums[D]

\* A sum over finitely many integers is defined by the partial sums.
LEMMA SumIsPartial ==
    ASSUME NEW D, IsFiniteSet(D), NEW w \in [D -> Int]
    PROVE  \E sums : SumsOf(D, w, sums)
  <1> DEFINE n == Cardinality(D)
  <1>1. n \in Nat
    BY FS_CardinalityType
  <1>2. PICK g : Upto(w, n, g)
    BY <1>1, FoldsReachAll
  <1>3. DOMAIN w = D
    OBVIOUS
  <1>4. Small(D, n) = SUBSET D
    BY FS_Subset DEF Small
  <1>5. g \in [SUBSET D -> Int] /\ Partial(w, g)
    BY <1>2, <1>3, <1>4 DEF Upto, Partial
  <1>6. PICK sums : Partial(w, sums) /\ SumFunction(w) = sums[DOMAIN w]
    BY <1>5, SumUnfolds
  <1>7. /\ sums[{}] = 0
        /\ \A s \in SUBSET D : s # {} => sums[s] = w[Any(s)] + sums[s \ {Any(s)}]
    BY <1>3, <1>6 DEF Partial
  <1>8. DOMAIN sums = SUBSET D
    BY <1>3, <1>6 DEF Partial
  <1> DEFINE Bad == {k \in Nat : \E s \in SUBSET D : Cardinality(s) = k /\ sums[s] \notin Int}
  <1>9. Bad = {}
    <2> SUFFICES ASSUME Bad # {} PROVE FALSE
      OBVIOUS
    <2>1. PICK m \in Bad : \A k \in Bad : m <= k
      <3>1. Bad \subseteq Nat
        OBVIOUS
      <3> HIDE DEF Bad
      <3> QED BY <3>1, LeastOf
    <2>2. PICK s \in SUBSET D : Cardinality(s) = m /\ sums[s] \notin Int
      BY <2>1
    <2>3. s # {}
      <3>1. sums[{}] \in Int
        BY <1>7
      <3> QED BY <2>2, <3>1
    <2>4. /\ Any(s) \in s /\ s \ {Any(s)} \in SUBSET D
          /\ m \in Nat \ {0} /\ Cardinality(s \ {Any(s)}) = m - 1
      BY <2>2, <2>3, AnyIsTaken
    <2>5. sums[s \ {Any(s)}] \notin Int
      <3>1. sums[s] = w[Any(s)] + sums[s \ {Any(s)}]
        BY <1>7, <2>3
      <3>2. w[Any(s)] \in Int
        BY <2>4
      <3> QED BY <2>2, <3>1, <3>2
    <2>6. m - 1 \in Bad
      BY <2>4, <2>5
    <2>7. m <= m - 1
      <3> HIDE DEF Bad
      <3> QED BY <2>1, <2>6
    <2> QED BY <2>4, <2>7
  <1>10. ASSUME NEW s \in SUBSET D PROVE sums[s] \in Int
    <2>1. Cardinality(s) \in Nat
      BY FS_Subset, FS_CardinalityType
    <2> QED BY <1>9, <2>1
  <1>11. sums \in [SUBSET D -> Int]
    <2>1. sums = [s \in SUBSET D |-> sums[s]]
      BY <1>3, <1>6 DEF Partial
    <2> QED BY <1>10, <2>1
  <1> QED BY <1>3, <1>6, <1>7, <1>11 DEF SumsOf

\* A sum of integers is one.
LEMMA SumIsInt ==
    ASSUME NEW D, IsFiniteSet(D), NEW w \in [D -> Int]
    PROVE  SumFunction(w) \in Int
  <1>1. PICK sums : SumsOf(D, w, sums)
    BY SumIsPartial
  <1> QED BY <1>1 DEF SumsOf

\* A sum moves by what one of its terms moves.
LEMMA SumMoves ==
    ASSUME NEW D, IsFiniteSet(D), NEW w \in [D -> Int], NEW u \in [D -> Int], NEW f \in D,
           \A x \in D \ {f} : u[x] = w[x]
    PROVE  SumFunction(u) = SumFunction(w) + (u[f] - w[f])
  <1> DEFINE delta == u[f] - w[f]
  <1>1. delta \in Int
    OBVIOUS
  <1>2. PICK a : SumsOf(D, w, a)
    BY SumIsPartial
  <1>3. PICK b : SumsOf(D, u, b)
    BY SumIsPartial
  <1> DEFINE Moved(s) == b[s] = a[s] + (IF f \in s THEN delta ELSE 0)
  <1> DEFINE Bad == {k \in Nat : \E s \in SUBSET D : Cardinality(s) = k /\ ~ Moved(s)}
  <1>4. Bad = {}
    <2> SUFFICES ASSUME Bad # {} PROVE FALSE
      OBVIOUS
    <2>1. PICK m \in Bad : \A k \in Bad : m <= k
      <3>1. Bad \subseteq Nat
        OBVIOUS
      <3> HIDE DEF Bad
      <3> QED BY <3>1, LeastOf
    <2>2. PICK s \in SUBSET D : Cardinality(s) = m /\ ~ Moved(s)
      BY <2>1
    <2>3. s # {}
      <3>1. a[{}] = 0 /\ b[{}] = 0
        BY <1>2, <1>3 DEF SumsOf
      <3>2. Moved({})
        BY <3>1
      <3> HIDE DEF Moved
      <3> QED BY <2>2, <3>2
    <2> DEFINE x == Any(s)
    <2> DEFINE t == s \ {x}
    <2>4. x \in s /\ t \in SUBSET D /\ m \in Nat \ {0} /\ Cardinality(t) = m - 1
      BY <2>2, <2>3, AnyIsTaken
    <2>5. Moved(t)
      <3>1. m - 1 \in Nat /\ ~ (m <= m - 1)
        BY <2>4
      <3>2. m - 1 \notin Bad
        <4> HIDE DEF Bad
        <4> QED BY <2>1, <3>1
      <3> HIDE DEF t, Moved
      <3> QED BY <2>4, <3>1, <3>2
    <2>6. a[s] = w[x] + a[t] /\ b[s] = u[x] + b[t]
      BY <1>2, <1>3, <2>3 DEF SumsOf
    <2>7. x \in D /\ w[x] \in Int /\ u[x] \in Int /\ a[t] \in Int /\ b[t] \in Int
      BY <1>2, <1>3, <2>4 DEF SumsOf
    <2> HIDE DEF x
    <2>8. CASE x = f
      <3>1. f \notin t /\ f \in s
        BY <2>4, <2>8
      <3>2. b[t] = a[t]
        BY <2>5, <2>7, <3>1
      <3>3. b[s] = a[s] + delta
        BY <2>6, <2>7, <2>8, <3>2
      <3> QED BY <2>2, <3>1, <3>3
    <2>9. CASE x # f
      <3>1. (f \in t) <=> (f \in s)
        BY <2>9
      <3>2. u[x] = w[x]
        BY <2>7, <2>9
      <3> QED BY <1>1, <2>2, <2>5, <2>6, <2>7, <3>1, <3>2
    <2> QED BY <2>8, <2>9
  <1>5. Moved(D)
    <2>1. Cardinality(D) \in Nat
      BY FS_CardinalityType
    <2> QED BY <1>4, <2>1
  <1>6. f \in D /\ SumFunction(w) = a[D] /\ SumFunction(u) = b[D]
    BY <1>2, <1>3 DEF SumsOf
  <1> QED BY <1>5, <1>6

------------------------------------------------------------------------------
(* Rankings.                                                               *)

\* A strict total order of S, as a set of pairs, and the place of each element: one
\* more than there are before it.
Orders(R, S) ==
    /\ \A c \in S : <<c, c>> \notin R
    /\ \A c, d, e \in S : <<c, d>> \in R /\ <<d, e>> \in R => <<c, e>> \in R
    /\ \A c, d \in S : c # d => <<c, d>> \in R \/ <<d, c>> \in R
Before(R, S, c) == {d \in S : <<d, c>> \in R}
Place(R, S, c) == 1 + Cardinality(Before(R, S, c))

\* A place is a number up to the size of the set.
LEMMA PlaceType ==
    ASSUME NEW S, IsFiniteSet(S), NEW R, Orders(R, S), NEW c \in S
    PROVE  /\ IsFiniteSet(Before(R, S, c))
           /\ Cardinality(Before(R, S, c)) \in Nat
           /\ Place(R, S, c) \in 1..Cardinality(S)
  <1>1. Before(R, S, c) \in SUBSET S
    BY DEF Before
  <1>2. c \notin Before(R, S, c)
    BY DEF Before, Orders
  <1>3. /\ IsFiniteSet(Before(R, S, c))
        /\ Cardinality(Before(R, S, c)) <= Cardinality(S)
        /\ Cardinality(Before(R, S, c)) # Cardinality(S)
    BY <1>1, <1>2, FS_Subset
  <1>4. Cardinality(Before(R, S, c)) \in Nat /\ Cardinality(S) \in Nat
    BY <1>3, FS_CardinalityType
  <1> QED BY <1>3, <1>4 DEF Place

\* What is before an element is before all that it precedes.
LEMMA PlaceIsMonotone ==
    ASSUME NEW S, IsFiniteSet(S), NEW R, Orders(R, S), NEW c \in S, NEW d \in S,
           <<c, d>> \in R
    PROVE  Place(R, S, c) < Place(R, S, d)
  <1>1. Before(R, S, c) \in SUBSET Before(R, S, d)
    BY DEF Before, Orders
  <1>2. c \in Before(R, S, d) /\ c \notin Before(R, S, c)
    BY DEF Before, Orders
  <1>3. IsFiniteSet(Before(R, S, d)) /\ Cardinality(Before(R, S, d)) \in Nat
        /\ Cardinality(Before(R, S, c)) \in Nat
    BY PlaceType
  <1>4. /\ Cardinality(Before(R, S, c)) <= Cardinality(Before(R, S, d))
        /\ Cardinality(Before(R, S, c)) # Cardinality(Before(R, S, d))
    BY <1>1, <1>2, <1>3, FS_Subset
  <1> QED BY <1>3, <1>4 DEF Place

\* Different elements have different places, and every place is taken.
LEMMA PlacesAreTaken ==
    ASSUME NEW S, IsFiniteSet(S), NEW R, Orders(R, S)
    PROVE  /\ \A c, d \in S : c # d => Place(R, S, c) # Place(R, S, d)
           /\ \A i \in 1..Cardinality(S) : \E c \in S : Place(R, S, c) = i
  <1>1. ASSUME NEW c \in S, NEW d \in S, c # d
        PROVE  Place(R, S, c) # Place(R, S, d)
    <2>1. Place(R, S, c) \in Nat /\ Place(R, S, d) \in Nat
      BY PlaceType
    <2>2. CASE <<c, d>> \in R
      BY <2>1, <2>2, PlaceIsMonotone
    <2>3. CASE <<d, c>> \in R
      BY <2>1, <2>3, PlaceIsMonotone
    <2> QED BY <1>1, <2>2, <2>3 DEF Orders
  <1> DEFINE n == Cardinality(S)
  <1> DEFINE place == [c \in S |-> Place(R, S, c)]
  <1>2. place \in [S -> 1..n]
    BY PlaceType
  <1>3. place \in Injection(S, 1..n)
    BY <1>1, <1>2 DEF Injection, IsInjective
  <1>4. n \in Nat
    BY FS_CardinalityType
  <1>5. IsFiniteSet(1..n) /\ Cardinality(1..n) = n
    BY <1>4, FS_Interval
  <1>6. place \in Surjection(S, 1..n)
    <2> HIDE DEF place
    <2> QED BY <1>3, <1>5, FS_Injection
  <1>7. \A i \in 1..n : \E c \in S : place[c] = i
    BY <1>6 DEF Surjection
  <1> QED BY <1>1, <1>7

------------------------------------------------------------------------------
(* The groups.                                                             *)

\* The names, for the provers.
LEMMA GroupNames ==
    /\ Groups = {"graph_abuse", "velocity", "return_behavior", "transaction_value",
                 "sequence", "evidence_quality"}
    /\ "evidence_quality" \in Groups /\ "graph_abuse" \in Groups
  BY DEF Groups, GroupFeatures

\* Each group is listed, and no two at one position.
LEMMA ListedOnce ==
    /\ \A g \in Groups : Listed(g) \in 1..6
    /\ \A g, h \in Groups : g # h => Listed(g) # Listed(h)
  <1>1. Len(GroupOrder) = 6
    BY DEF GroupOrder
  <1>2. \A g \in Groups : \E i \in 1..6 : GroupOrder[i] = g
    <2>1. /\ GroupOrder[1] = "graph_abuse" /\ GroupOrder[2] = "velocity"
          /\ GroupOrder[3] = "return_behavior" /\ GroupOrder[4] = "transaction_value"
          /\ GroupOrder[5] = "sequence" /\ GroupOrder[6] = "evidence_quality"
      BY DEF GroupOrder
    <2> QED BY <2>1, GroupNames
  <1>3. \A g \in Groups : Listed(g) \in 1..6 /\ GroupOrder[Listed(g)] = g
    BY <1>1, <1>2 DEF Listed
  <1> QED BY <1>3

\* Their positions are numbers up to six.
LEMMA GroupsAreFinite == IsFiniteSet(Groups)
  <1> DEFINE at == [g \in Groups |-> Listed(g)]
  <1>1. at \in Injection(Groups, 1..6)
    <2>1. at \in [Groups -> 1..6]
      BY ListedOnce
    <2>2. \A g, h \in Groups : at[g] = at[h] => g = h
      BY ListedOnce
    <2> QED BY <2>1, <2>2 DEF Injection, IsInjective
  <1>2. IsFiniteSet(1..6)
    <2>1. 1 \in Int /\ 6 \in Int
      OBVIOUS
    <2>2. ASSUME NEW a \in Int, NEW b \in Int PROVE IsFiniteSet(a..b)
      BY FS_Interval
    <2> QED BY <2>1, <2>2
  <1> HIDE DEF at
  <1> QED BY <1>1, <1>2, FS_Injection

\* The net risk of a group is a number.
LEMMA TotalIsInt ==
    ASSUME NEW s \in [Drivers -> Int], NEW g \in Groups
    PROVE  Total(s, g) \in Int
  <1> DEFINE D == GroupFeatures[g] \cap DOMAIN s
  <1>1. D \subseteq Drivers /\ IsFiniteSet(Drivers)
    BY ReasonAssumption
  <1>2. IsFiniteSet(D)
    BY <1>1, FS_Subset
  <1>3. [f \in D |-> s[f]] \in [D -> Int]
    BY <1>1
  <1>4. SumFunction([f \in D |-> s[f]]) \in Int
    <2> HIDE DEF D
    <2> QED BY <1>2, <1>3, SumIsInt
  <1> QED BY <1>4 DEF Total

\* The groups that outrank others.
Ahead(s) == {p \in Groups \X Groups : Outranks(s, p[1], p[2])}

\* The pairs say what the operator says.
LEMMA AheadIsOutranks ==
    ASSUME NEW s, NEW g \in Groups, NEW h \in Groups
    PROVE  <<g, h>> \in Ahead(s) <=> Outranks(s, g, h)
  BY DEF Ahead

\* Outranking is a strict total order: totals tie, positions in the catalogue do not.
LEMMA OutranksOrders ==
    ASSUME NEW s \in [Drivers -> Int]
    PROVE  Orders(Ahead(s), Groups)
  <1>1. \A g \in Groups : Total(s, g) \in Int /\ Listed(g) \in Int /\ Punitive(g) \in BOOLEAN
    BY TotalIsInt, ListedOnce DEF Punitive
  <1>2. ASSUME NEW g \in Groups PROVE <<g, g>> \notin Ahead(s)
    <2>1. ~ Outranks(s, g, g)
      BY <1>1 DEF Outranks
    <2> QED BY <2>1, AheadIsOutranks
  <1>3. ASSUME NEW g \in Groups, NEW h \in Groups, NEW k \in Groups,
               <<g, h>> \in Ahead(s), <<h, k>> \in Ahead(s)
        PROVE  <<g, k>> \in Ahead(s)
    <2>1. Outranks(s, g, h) /\ Outranks(s, h, k)
      BY <1>3, AheadIsOutranks
    <2>2. Outranks(s, g, k)
      BY <1>1, <2>1 DEF Outranks
    <2> QED BY <2>2, AheadIsOutranks
  <1>4. ASSUME NEW g \in Groups, NEW h \in Groups, g # h
        PROVE  <<g, h>> \in Ahead(s) \/ <<h, g>> \in Ahead(s)
    <2>1. Listed(g) # Listed(h)
      BY <1>4, ListedOnce
    <2>2. Outranks(s, g, h) \/ Outranks(s, h, g)
      BY <1>1, <2>1 DEF Outranks
    <2> QED BY <2>2, AheadIsOutranks
  <1> QED BY <1>2, <1>3, <1>4 DEF Orders

\* A rank is a place in this order.
LEMMA RankIsPlace ==
    ASSUME NEW s, NEW g \in Groups
    PROVE  Ranks(s)[g] = Place(Ahead(s), Groups, g)
  <1>1. {h \in Groups : Outranks(s, h, g)} = Before(Ahead(s), Groups, g)
    BY AheadIsOutranks DEF Before
  <1>2. Ranks(s)[g] = 1 + Cardinality({h \in Groups : Outranks(s, h, g)})
    BY DEF Ranks
  <1> QED BY <1>1, <1>2 DEF Place

\* What RanksFollowRisk says of a record, for any attributions.
LEMMA RanksAreRight ==
    ASSUME NEW s \in [Drivers -> Int]
    PROVE  /\ \A g, h \in Groups : g # h => Ranks(s)[g] # Ranks(s)[h]
           /\ Ranks(s)["evidence_quality"] = Cardinality(Groups)
           /\ \A g \in Groups : Ranks(s)[g] = 1 =>
                 \A h \in Groups : Punitive(h) => Total(s, g) >= Total(s, h)
  <1>1. Orders(Ahead(s), Groups) /\ IsFiniteSet(Groups)
    BY OutranksOrders, GroupsAreFinite
  <1>2. \A g, h \in Groups : g # h => Ranks(s)[g] # Ranks(s)[h]
    <2>1. \A g, h \in Groups : g # h => Place(Ahead(s), Groups, g) # Place(Ahead(s), Groups, h)
      BY <1>1, PlacesAreTaken
    <2> QED BY <2>1, RankIsPlace
  <1>3. Ranks(s)["evidence_quality"] = Cardinality(Groups)
    <2> DEFINE q == "evidence_quality"
    <2>1. q \in Groups
      BY GroupNames
    <2>2. ASSUME NEW g \in Groups, g # q PROVE Outranks(s, g, q)
      BY <2>2 DEF Outranks, Punitive
    <2>3. ~ Outranks(s, q, q)
      BY <1>1, <2>1, AheadIsOutranks DEF Orders
    <2>4. {h \in Groups : Outranks(s, h, q)} = Groups \ {q}
      BY <2>2, <2>3
    <2>5. Cardinality(Groups \ {q}) = Cardinality(Groups) - 1
      BY <1>1, <2>1, FS_RemoveElement
    <2>6. Cardinality(Groups) \in Nat
      BY <1>1, FS_CardinalityType
    <2>7. Ranks(s)[q] = 1 + Cardinality({h \in Groups : Outranks(s, h, q)})
      BY <2>1 DEF Ranks
    <2>8. Ranks(s)[q] = 1 + Cardinality(Groups \ {q})
      BY <2>4, <2>7
    <2> QED BY <2>5, <2>6, <2>8
  <1>4. ASSUME NEW g \in Groups, Ranks(s)[g] = 1, NEW h \in Groups, Punitive(h)
        PROVE  Total(s, g) >= Total(s, h)
    <2>1. Cardinality(Before(Ahead(s), Groups, g)) = 0
      <3>1. Cardinality(Before(Ahead(s), Groups, g)) \in Nat
        BY <1>1, PlaceType
      <3>2. 1 + Cardinality(Before(Ahead(s), Groups, g)) = 1
        BY <1>4, RankIsPlace DEF Place
      <3> QED BY <3>1, <3>2
    <2>2. Before(Ahead(s), Groups, g) = {}
      BY <1>1, <2>1, PlaceType, FS_EmptySet
    <2>3. \A k \in Groups : ~ Outranks(s, k, g)
      BY <2>2, AheadIsOutranks DEF Before
    <2>4. Punitive(g)
      BY <1>4, <2>3 DEF Outranks
    <2>5. ~ (Total(s, h) > Total(s, g))
      BY <1>4, <2>3, <2>4 DEF Outranks, Punitive
    <2>6. Total(s, g) \in Int /\ Total(s, h) \in Int
      BY TotalIsInt
    <2> QED BY <2>5, <2>6
  <1> QED BY <1>2, <1>3, <1>4

------------------------------------------------------------------------------
(* The codes.                                                              *)

\* The names, for the provers.
LEMMA CodeNames ==
    Codes = {"RC_NETWORK_ABUSE", "RC_SHARED_DEVICE_RISK", "RC_HIGH_RETURN_VELOCITY",
             "RC_RAPID_WARDROBING", "RC_EXCESSIVE_REFUND_RATIO",
             "RC_DISPROPORTIONATE_RETURN_LOSS", "RC_CATEGORY_RETURN_ANOMALY",
             "RC_CHRONIC_RETURN_RATE"}
  BY DEF Codes, Catalogue

\* No two codes have one priority.
LEMMA Priorities ==
    /\ \A c \in Codes : Catalogue[c].priority \in 1..8
    /\ \A c, d \in Codes : c # d => Catalogue[c].priority # Catalogue[d].priority
  <1>1. /\ Catalogue["RC_NETWORK_ABUSE"].priority = 1
        /\ Catalogue["RC_SHARED_DEVICE_RISK"].priority = 2
        /\ Catalogue["RC_HIGH_RETURN_VELOCITY"].priority = 3
        /\ Catalogue["RC_RAPID_WARDROBING"].priority = 4
        /\ Catalogue["RC_EXCESSIVE_REFUND_RATIO"].priority = 5
        /\ Catalogue["RC_DISPROPORTIONATE_RETURN_LOSS"].priority = 6
        /\ Catalogue["RC_CATEGORY_RETURN_ANOMALY"].priority = 7
        /\ Catalogue["RC_CHRONIC_RETURN_RATE"].priority = 8
    BY DEF Catalogue, Code
  <1> QED BY <1>1, CodeNames

\* Their priorities are numbers up to eight.
LEMMA CodesAreFinite == IsFiniteSet(Codes)
  <1> DEFINE at == [c \in Codes |-> Catalogue[c].priority]
  <1>1. at \in [Codes -> 1..8] /\ \A c, d \in Codes : at[c] = at[d] => c = d
    BY Priorities
  <1> HIDE DEF at
  <1>2. at \in Injection(Codes, 1..8)
    BY <1>1 DEF Injection, IsInjective
  <1>3. IsFiniteSet(1..8)
    <2>1. 1 \in Int /\ 8 \in Int
      OBVIOUS
    <2>2. ASSUME NEW a \in Int, NEW b \in Int PROVE IsFiniteSet(a..b)
      BY FS_Interval
    <2> QED BY <2>1, <2>2
  <1> QED BY <1>2, <1>3, FS_Injection

\* No code lists a feature of the informational group.
LEMMA CodesListNoQuality ==
    ASSUME NEW c \in Codes
    PROVE  FeaturesOf(c) \cap GroupFeatures.evidence_quality = {}
  <1> USE DEF FeaturesOf, Catalogue, Code, GroupFeatures
  <1>1. CASE c = "RC_NETWORK_ABUSE"
    BY <1>1
  <1>2. CASE c = "RC_SHARED_DEVICE_RISK"
    BY <1>2
  <1>3. CASE c = "RC_HIGH_RETURN_VELOCITY"
    BY <1>3
  <1>4. CASE c = "RC_RAPID_WARDROBING"
    BY <1>4
  <1>5. CASE c = "RC_EXCESSIVE_REFUND_RATIO"
    BY <1>5
  <1>6. CASE c = "RC_DISPROPORTIONATE_RETURN_LOSS"
    BY <1>6
  <1>7. CASE c = "RC_CATEGORY_RETURN_ANOMALY"
    BY <1>7
  <1>8. CASE c = "RC_CHRONIC_RETURN_RATE"
    BY <1>8
  <1> QED BY <1>1, <1>2, <1>3, <1>4, <1>5, <1>6, <1>7, <1>8, CodeNames

\* What ColdStartDecidesNothing says of a record, for any attributions and any vector:
\* sums, triggers, order and choice only look at features that codes list.
LEMMA QualityIsNotRead ==
    ASSUME NEW s, NEW v
    PROVE  LET quality == GroupFeatures.evidence_quality
               t == [f \in DOMAIN s \ quality |-> s[f]]
               w == [f \in DOMAIN v \ quality |-> v[f]]
           IN Reasons(t, w) = Reasons(s, v)
  <1> DEFINE quality == GroupFeatures.evidence_quality
  <1> DEFINE t == [f \in DOMAIN s \ quality |-> s[f]]
  <1> DEFINE w == [f \in DOMAIN v \ quality |-> v[f]]
  <1>1. ASSUME NEW c \in Codes
        PROVE  /\ FeaturesOf(c) \cap DOMAIN t = FeaturesOf(c) \cap DOMAIN s
               /\ FeaturesOf(c) \cap quality = {}
               /\ \A f \in FeaturesOf(c) \cap DOMAIN s : t[f] = s[f]
               /\ \A f \in FeaturesOf(c) : Value(w, f) = Value(v, f)
    <2>1. FeaturesOf(c) \cap quality = {}
      BY CodesListNoQuality
    <2> HIDE DEF quality
    <2>2. FeaturesOf(c) \cap DOMAIN t = FeaturesOf(c) \cap DOMAIN s
      BY <2>1
    <2>3. \A f \in FeaturesOf(c) \cap DOMAIN s : t[f] = s[f]
      BY <2>1
    <2>4. \A f \in FeaturesOf(c) : Value(w, f) = Value(v, f)
      BY <2>1 DEF Value
    <2> QED BY <2>1, <2>2, <2>3, <2>4
  <1> HIDE DEF quality, t, w
  <1>2. ASSUME NEW c \in Codes
        PROVE  Score(t, c) = Score(s, c)
    <2>1. \A f \in FeaturesOf(c) \cap DOMAIN s : Weight(t, f) = Weight(s, f)
      BY <1>1 DEF Weight
    <2>2. [f \in FeaturesOf(c) \cap DOMAIN t |-> Weight(t, f)]
            = [f \in FeaturesOf(c) \cap DOMAIN s |-> Weight(s, f)]
      BY <1>1, <2>1
    <2> QED BY <2>2 DEF Score
  <1>3. ASSUME NEW c \in Codes
        PROVE  Triggers(t, w, c) = Triggers(s, v, c)
    BY <1>1 DEF Triggers
  <1>4. Candidates(t, w) = Candidates(s, v)
    BY <1>2, <1>3 DEF Candidates
  <1>5. \A c, d \in Codes : Precedes(t, c, d) <=> Precedes(s, c, d)
    BY <1>2 DEF Precedes
  <1>6. Places(t, w) = Places(s, v)
    <2>1. Candidates(s, v) \subseteq Codes
      BY DEF Candidates
    <2>2. ASSUME NEW c \in Candidates(s, v)
          PROVE  {d \in Candidates(t, w) : Precedes(t, d, c)}
                   = {d \in Candidates(s, v) : Precedes(s, d, c)}
      BY <1>4, <1>5, <2>1
    <2>3. ASSUME NEW c \in Candidates(s, v)
          PROVE  1 + Cardinality({d \in Candidates(t, w) : Precedes(t, d, c)})
                   = 1 + Cardinality({d \in Candidates(s, v) : Precedes(s, d, c)})
      BY <2>2
    <2> QED BY <1>4, <2>3 DEF Places
  <1>7. Reasons(t, w) = Reasons(s, v)
    BY <1>4, <1>6 DEF Reasons
  <1> QED BY <1>7 DEF quality, t, w

------------------------------------------------------------------------------
(* The scores.                                                             *)

\* What a code has to score.
LEMMA Scored ==
    ASSUME NEW s \in [Drivers -> Int], NEW c
    PROVE  /\ IsFiniteSet(FeaturesOf(c) \cap DOMAIN s)
           /\ [f \in FeaturesOf(c) \cap DOMAIN s |-> Weight(s, f)]
                \in [FeaturesOf(c) \cap DOMAIN s -> Nat]
  <1>1. FeaturesOf(c) \cap DOMAIN s \in SUBSET Drivers /\ IsFiniteSet(Drivers)
    BY ReasonAssumption
  <1>2. IsFiniteSet(FeaturesOf(c) \cap DOMAIN s)
    BY <1>1, FS_Subset
  <1>3. \A f \in Drivers : Weight(s, f) \in Nat
    BY DEF Weight
  <1> QED BY <1>1, <1>2, <1>3

\* The score of a code is a number.
LEMMA ScoreIsInt ==
    ASSUME NEW s \in [Drivers -> Int], NEW c
    PROVE  Score(s, c) \in Int
  <1> DEFINE D == FeaturesOf(c) \cap DOMAIN s
  <1> DEFINE w == [f \in D |-> Weight(s, f)]
  <1>1. IsFiniteSet(D) /\ w \in [D -> Nat]
    BY Scored
  <1>2. Score(s, c) = SumFunction(w)
    BY DEF Score
  <1> HIDE DEF D, w
  <1>3. w \in [D -> Int]
    BY <1>1
  <1> QED BY <1>1, <1>2, <1>3, SumIsInt

\* Who sorts before whom.
Above(s) == {p \in Codes \X Codes : Precedes(s, p[1], p[2])}

\* The pairs say what the operator says.
LEMMA AboveIsPrecedes ==
    ASSUME NEW s, NEW c \in Codes, NEW d \in Codes
    PROVE  <<c, d>> \in Above(s) <=> Precedes(s, c, d)
  BY DEF Above

\* Preceding is a strict total order of any codes: scores tie, priorities do not.
LEMMA PrecedesOrders ==
    ASSUME NEW s \in [Drivers -> Int], NEW C \in SUBSET Codes
    PROVE  Orders(Above(s), C)
  <1>1. \A c \in Codes : Score(s, c) \in Int /\ Catalogue[c].priority \in Int
    BY ScoreIsInt, Priorities
  <1>2. ASSUME NEW c \in C PROVE <<c, c>> \notin Above(s)
    <2>1. ~ Precedes(s, c, c)
      BY <1>1 DEF Precedes
    <2> QED BY <2>1, AboveIsPrecedes
  <1>3. ASSUME NEW c \in C, NEW d \in C, NEW e \in C,
               <<c, d>> \in Above(s), <<d, e>> \in Above(s)
        PROVE  <<c, e>> \in Above(s)
    <2>1. Precedes(s, c, d) /\ Precedes(s, d, e)
      BY <1>3, AboveIsPrecedes
    <2>2. Precedes(s, c, e)
      BY <1>1, <2>1 DEF Precedes
    <2> QED BY <2>2, AboveIsPrecedes
  <1>4. ASSUME NEW c \in C, NEW d \in C, c # d
        PROVE  <<c, d>> \in Above(s) \/ <<d, c>> \in Above(s)
    <2>1. Catalogue[c].priority # Catalogue[d].priority
      BY <1>4, Priorities
    <2>2. Precedes(s, c, d) \/ Precedes(s, d, c)
      BY <1>1, <2>1 DEF Precedes
    <2> QED BY <2>2, AboveIsPrecedes
  <1> QED BY <1>2, <1>3, <1>4 DEF Orders

------------------------------------------------------------------------------
(* What is selected.                                                       *)

\* The place of a candidate, among the candidates.
Rank(s, v, c) == Place(Above(s), Candidates(s, v), c)

\* The places of the candidates are the places of this order.
LEMMA CandidatesAreCodes ==
    ASSUME NEW s \in [Drivers -> Int], NEW v
    PROVE  /\ Candidates(s, v) \in SUBSET Codes
           /\ IsFiniteSet(Candidates(s, v)) /\ Cardinality(Candidates(s, v)) \in Nat
           /\ Orders(Above(s), Candidates(s, v))
           /\ \A c \in Candidates(s, v) : Places(s, v)[c] = Rank(s, v, c)
           /\ \A c \in Candidates(s, v) : Rank(s, v, c) \in 1..Cardinality(Candidates(s, v))
  <1> DEFINE C == Candidates(s, v)
  <1>1. C \in SUBSET Codes
    BY DEF Candidates
  <1>2. IsFiniteSet(C) /\ Cardinality(C) \in Nat
    BY <1>1, CodesAreFinite, FS_Subset, FS_CardinalityType
  <1> HIDE DEF C
  <1>3. Orders(Above(s), C)
    BY <1>1, PrecedesOrders
  <1>4. ASSUME NEW c \in C
        PROVE  Place(Above(s), C, c) = 1 + Cardinality({d \in C : Precedes(s, d, c)})
    <2>1. {d \in C : Precedes(s, d, c)} = Before(Above(s), C, c)
      BY <1>1, AboveIsPrecedes DEF Before
    <2> QED BY <2>1 DEF Place
  <1>5. \A c \in C : Place(Above(s), C, c) \in 1..Cardinality(C)
    BY <1>2, <1>3, PlaceType
  <1> QED BY <1>1, <1>2, <1>3, <1>4, <1>5 DEF C, Places, Rank

\* The reasons are the candidates at the first MaxReasons places.
LEMMA SelectedAreFirst ==
    ASSUME NEW s \in [Drivers -> Int], NEW v
    PROVE  Selected(s, v) = {c \in Candidates(s, v) : Rank(s, v, c) <= MaxReasons}
  <1> DEFINE C == Candidates(s, v)
  <1> DEFINE n == Cardinality(C)
  <1> DEFINE k == IF n < MaxReasons THEN n ELSE MaxReasons
  <1>1. /\ n \in Nat /\ MaxReasons \in Nat /\ IsFiniteSet(C) /\ Orders(Above(s), C)
        /\ \A c \in C : Places(s, v)[c] = Rank(s, v, c) /\ Rank(s, v, c) \in 1..n
    BY CandidatesAreCodes, ReasonAssumption
  <1>2. /\ \A c, d \in C : c # d => Rank(s, v, c) # Rank(s, v, d)
        /\ \A i \in 1..n : \E c \in C : Rank(s, v, c) = i
    <2> HIDE DEF C
    <2>1. /\ \A c, d \in C : c # d => Place(Above(s), C, c) # Place(Above(s), C, d)
          /\ \A i \in 1..n : \E c \in C : Place(Above(s), C, c) = i
      BY <1>1, PlacesAreTaken
    <2> QED BY <2>1 DEF Rank, C
  <1>3. Reasons(s, v) = [i \in 1..k |-> CHOOSE c \in C : Places(s, v)[c] = i]
    BY DEF Reasons
  <1> HIDE DEF C
  <1>4. k \in Nat /\ k <= n /\ k <= MaxReasons /\ (k = n \/ k = MaxReasons)
    BY <1>1
  <1> HIDE DEF n, k
  <1>5. \A i \in 1..k : Reasons(s, v)[i] \in C /\ Rank(s, v, Reasons(s, v)[i]) = i
    <2>1. \A i \in 1..k : i \in 1..n
      BY <1>1, <1>4
    <2>2. ASSUME NEW i \in 1..k
          PROVE  LET c == CHOOSE c \in C : Places(s, v)[c] = i
                 IN  c \in C /\ Rank(s, v, c) = i
      BY <1>1, <1>2, <2>1
    <2> QED BY <1>3, <2>2
  <1>6. DOMAIN Reasons(s, v) = 1..k
    BY <1>3
  <1>7. ASSUME NEW c \in Selected(s, v)
        PROVE  c \in C /\ Rank(s, v, c) <= MaxReasons
    <2>1. PICK i \in 1..k : c = Reasons(s, v)[i]
      BY <1>6 DEF Selected
    <2>2. i <= MaxReasons
      BY <1>1, <1>4
    <2> QED BY <1>5, <2>1, <2>2
  <1>8. ASSUME NEW c \in C, Rank(s, v, c) <= MaxReasons
        PROVE  c \in Selected(s, v)
    <2> DEFINE i == Rank(s, v, c)
    <2>1. i \in 1..k
      BY <1>1, <1>4, <1>8
    <2>2. Reasons(s, v)[i] = c
      BY <1>2, <1>5, <2>1
    <2> QED BY <1>6, <2>1, <2>2 DEF Selected
  <1> QED BY <1>7, <1>8 DEF C

------------------------------------------------------------------------------
(* More risk.                                                              *)

\* Partial sums of numbers that are not negative are not negative.
LEMMA SumIsNat ==
    ASSUME NEW D, IsFiniteSet(D), NEW w \in [D -> Nat]
    PROVE  SumFunction(w) >= 0
  <1>1. PICK a : SumsOf(D, w, a)
    <2>1. w \in [D -> Int]
      OBVIOUS
    <2> QED BY <2>1, SumIsPartial
  <1> DEFINE Bad == {k \in Nat : \E s \in SUBSET D : Cardinality(s) = k /\ a[s] \notin Nat}
  <1>2. Bad = {}
    <2> SUFFICES ASSUME Bad # {} PROVE FALSE
      OBVIOUS
    <2>1. PICK m \in Bad : \A k \in Bad : m <= k
      <3>1. Bad \subseteq Nat
        OBVIOUS
      <3> HIDE DEF Bad
      <3> QED BY <3>1, LeastOf
    <2>2. PICK s \in SUBSET D : Cardinality(s) = m /\ a[s] \notin Nat
      BY <2>1
    <2>3. s # {}
      <3>1. a[{}] \in Nat
        BY <1>1 DEF SumsOf
      <3> QED BY <2>2, <3>1
    <2> DEFINE t == s \ {Any(s)}
    <2>4. Any(s) \in s /\ t \in SUBSET D /\ m \in Nat \ {0} /\ Cardinality(t) = m - 1
      BY <2>2, <2>3, AnyIsTaken
    <2>5. a[s] = w[Any(s)] + a[t]
      BY <1>1, <2>3 DEF SumsOf
    <2>6. w[Any(s)] \in Nat
      BY <2>4
    <2> HIDE DEF t
    <2>7. a[t] \notin Nat
      BY <2>2, <2>5, <2>6
    <2>8. m - 1 \in Bad
      BY <2>4, <2>7
    <2>9. m <= m - 1
      <3> HIDE DEF Bad
      <3> QED BY <2>1, <2>8
    <2> QED BY <2>4, <2>9
  <1>3. a[D] \in Nat
    <2>1. Cardinality(D) \in Nat
      BY FS_CardinalityType
    <2> QED BY <1>2, <2>1
  <1> QED BY <1>1, <1>3 DEF SumsOf

\* One positive term makes such a sum positive.
LEMMA SumIsPositive ==
    ASSUME NEW D, IsFiniteSet(D), NEW w \in [D -> Nat], NEW x \in D, w[x] > 0
    PROVE  SumFunction(w) > 0
  <1> DEFINE u == [w EXCEPT ![x] = 0]
  <1>1. /\ u \in [D -> Nat] /\ u \in [D -> Int] /\ w \in [D -> Int]
        /\ u[x] = 0 /\ \A y \in D \ {x} : w[y] = u[y]
    OBVIOUS
  <1> HIDE DEF u
  <1>2. SumFunction(w) = SumFunction(u) + (w[x] - u[x])
    BY <1>1, SumMoves
  <1>3. SumFunction(u) >= 0 /\ SumFunction(u) \in Int
    BY <1>1, SumIsNat, SumIsInt
  <1>4. w[x] \in Nat
    OBVIOUS
  <1> QED BY <1>1, <1>2, <1>3, <1>4

\* A code with a trigger has a score.
LEMMA TriggerScores ==
    ASSUME NEW s \in [Drivers -> Int], NEW v, NEW c, Triggers(s, v, c) # {}
    PROVE  Score(s, c) > 0
  <1> DEFINE D == FeaturesOf(c) \cap DOMAIN s
  <1> DEFINE w == [f \in D |-> Weight(s, f)]
  <1>1. PICK x \in D : s[x] > 0
    BY DEF Triggers
  <1>2. IsFiniteSet(D) /\ w \in [D -> Nat]
    BY Scored
  <1>3. w[x] > 0
    BY <1>1 DEF Weight
  <1>4. SumFunction(w) > 0
    <2> HIDE DEF D, w
    <2> QED BY <1>1, <1>2, <1>3, SumIsPositive
  <1> QED BY <1>4 DEF Score

\* A larger attribution of f.
Raised(s, f, d) == [s EXCEPT ![f] = @ + d]

\* What it does to weights and scores.
LEMMA ScoresMove ==
    ASSUME NEW s \in [Drivers -> Int], NEW f \in Drivers, NEW d \in Nat, NEW m,
           m = Raised(s, f, d)
    PROVE  /\ m \in [Drivers -> Int]
           /\ Weight(m, f) - Weight(s, f) \in Nat
           /\ \A c : Score(m, c) = Score(s, c) +
                       (IF f \in FeaturesOf(c) THEN Weight(m, f) - Weight(s, f) ELSE 0)
  <1>1. /\ m \in [Drivers -> Int]
        /\ m[f] = s[f] + d
        /\ \A x \in Drivers \ {f} : m[x] = s[x]
    BY DEF Raised
  <1>2. Weight(m, f) - Weight(s, f) \in Nat
    BY <1>1 DEF Weight
  <1>3. ASSUME NEW c
        PROVE  Score(m, c) = Score(s, c) +
                 (IF f \in FeaturesOf(c) THEN Weight(m, f) - Weight(s, f) ELSE 0)
    <2> DEFINE D == FeaturesOf(c) \cap Drivers
    <2> DEFINE w == [x \in D |-> Weight(s, x)]
    <2> DEFINE u == [x \in D |-> Weight(m, x)]
    <2>1. DOMAIN s = Drivers /\ DOMAIN m = Drivers
      BY <1>1
    <2>2. Score(s, c) = SumFunction(w) /\ Score(m, c) = SumFunction(u)
      BY <2>1 DEF Score
    <2>3. /\ IsFiniteSet(D) /\ w \in [D -> Int] /\ u \in [D -> Int]
      <3>1. IsFiniteSet(D) /\ w \in [D -> Nat]
        BY <2>1, Scored
      <3>2. u \in [D -> Nat]
        <4>1. [x \in FeaturesOf(c) \cap DOMAIN m |-> Weight(m, x)]
                \in [FeaturesOf(c) \cap DOMAIN m -> Nat]
          BY <1>1, Scored
        <4> QED BY <2>1, <4>1
      <3> QED BY <3>1, <3>2
    <2>4. \A x \in D \ {f} : u[x] = w[x]
      BY <1>1 DEF Weight
    <2>5. CASE f \in FeaturesOf(c)
      <3>1. f \in D /\ u[f] = Weight(m, f) /\ w[f] = Weight(s, f)
        BY <2>5
      <3> HIDE DEF D, u, w
      <3>2. SumFunction(u) = SumFunction(w) + (u[f] - w[f])
        BY <2>3, <2>4, <3>1, SumMoves
      <3> QED BY <2>2, <2>5, <3>1, <3>2
    <2>6. CASE f \notin FeaturesOf(c)
      <3>1. u = w
        BY <2>4, <2>6
      <3>2. Score(s, c) \in Int
        BY ScoreIsInt
      <3> HIDE DEF D, u, w
      <3> QED BY <2>2, <2>6, <3>1, <3>2
    <2> QED BY <2>5, <2>6
  <1> QED BY <1>1, <1>2, <1>3

\* Who becomes a candidate with a larger attribution of f, and who does not stop.
LEMMA CandidatesMove ==
    ASSUME NEW s \in [Drivers -> Int], NEW v, NEW f \in Drivers, NEW d \in Nat, NEW m,
           m = Raised(s, f, d)
    PROVE  /\ Candidates(s, v) \subseteq Candidates(m, v)
           /\ \A e \in Candidates(m, v) \ Candidates(s, v) :
                 f \in FeaturesOf(e) /\ s[f] <= 0
  <1>1. /\ m \in [Drivers -> Int] /\ DOMAIN m = DOMAIN s
        /\ m[f] = s[f] + d /\ s[f] \in Int
        /\ \A x \in Drivers \ {f} : m[x] = s[x]
    BY DEF Raised
  <1>2. ASSUME NEW c \in Candidates(s, v)
        PROVE  c \in Candidates(m, v)
    <2>1. c \in Codes /\ Punitive(Catalogue[c].group) /\ Triggers(s, v, c) # {}
      BY DEF Candidates
    <2>2. Triggers(s, v, c) \subseteq Triggers(m, v, c)
      BY <1>1 DEF Triggers
    <2>3. Triggers(m, v, c) # {}
      BY <2>1, <2>2
    <2>4. Score(m, c) > 0
      BY <1>1, <2>3, TriggerScores
    <2> QED BY <2>1, <2>3, <2>4 DEF Candidates
  <1>3. ASSUME NEW e \in Candidates(m, v) \ Candidates(s, v),
               ~ (f \in FeaturesOf(e) /\ s[f] <= 0)
        PROVE  FALSE
    <2>1. e \in Codes /\ Punitive(Catalogue[e].group) /\ Triggers(m, v, e) # {}
      BY DEF Candidates
    <2>2. Triggers(m, v, e) \subseteq Triggers(s, v, e)
      BY <1>1, <1>3 DEF Triggers
    <2>3. Triggers(s, v, e) # {}
      BY <2>1, <2>2
    <2>4. Score(s, e) > 0
      BY <2>3, TriggerScores
    <2>5. e \in Candidates(s, v)
      BY <2>1, <2>3, <2>4 DEF Candidates
    <2> QED BY <2>5
  <1> QED BY <1>2, <1>3

\* What MoreRiskKeepsReasons says of a record, for any attributions and any vector: if
\* a selected code that lists f loses its place, MaxReasons others are before it; they
\* gained no more than it did, so they were before it already, unless one of them was
\* no candidate.
LEMMA LargerKeepsReasons ==
    ASSUME NEW s \in [Drivers -> Int], NEW v, NEW f \in Drivers, NEW d \in Nat, NEW m,
           m = Raised(s, f, d),
           NEW c \in Selected(s, v), f \in FeaturesOf(c), c \notin Selected(m, v)
    PROVE  s[f] <= 0 /\ \E e \in Selected(m, v) \ Candidates(s, v) : f \in FeaturesOf(e)
  <1> DEFINE A == Candidates(s, v)
  <1> DEFINE B == Candidates(m, v)
  <1> DEFINE T == Selected(m, v)
  <1> DEFINE delta == Weight(m, f) - Weight(s, f)
  <1>1. /\ m \in [Drivers -> Int] /\ delta \in Nat
        /\ \A e : Score(m, e) = Score(s, e) + (IF f \in FeaturesOf(e) THEN delta ELSE 0)
    BY ScoresMove
  <1>2. /\ A \subseteq B
        /\ \A e \in B \ A : f \in FeaturesOf(e) /\ s[f] <= 0
    BY CandidatesMove
  <1>3. /\ T = {e \in B : Rank(m, v, e) <= MaxReasons}
        /\ Selected(s, v) = {e \in A : Rank(s, v, e) <= MaxReasons}
    BY <1>1, SelectedAreFirst
  <1>4. MaxReasons \in Nat \ {0}
    BY ReasonAssumption
  <1>5. c \in A /\ c \in B /\ Rank(s, v, c) <= MaxReasons /\ ~ (Rank(m, v, c) <= MaxReasons)
    BY <1>2, <1>3
  <1>6. /\ A \in SUBSET Codes /\ IsFiniteSet(A) /\ Cardinality(A) \in Nat
        /\ Orders(Above(s), A)
        /\ Rank(s, v, c) \in 1..Cardinality(A)
    BY <1>5, CandidatesAreCodes
  <1>7. /\ B \in SUBSET Codes /\ IsFiniteSet(B) /\ Cardinality(B) \in Nat
        /\ Orders(Above(m), B)
        /\ \A e \in B : Rank(m, v, e) \in 1..Cardinality(B)
    BY <1>1, CandidatesAreCodes
  <1> SUFFICES ASSUME T \subseteq A PROVE FALSE
    BY <1>2, <1>3
  <1>8. ASSUME NEW e \in T PROVE e \in Before(Above(s), A, c)
    <2>1. e \in A /\ e \in B /\ e \in Codes /\ c \in Codes /\ e # c
      BY <1>3, <1>5, <1>6, <1>2
    <2>2. <<e, c>> \in Above(m)
      <3>1. Rank(m, v, e) \in Nat /\ Rank(m, v, c) \in Nat /\ ~ (Rank(m, v, c) < Rank(m, v, e))
        <4>1. Rank(m, v, e) \in 1..Cardinality(B) /\ Rank(m, v, c) \in 1..Cardinality(B)
          BY <1>5, <1>7, <2>1
        <4>2. Rank(m, v, e) \in Nat /\ Rank(m, v, c) \in Nat
          <5> HIDE DEF B
          <5> QED BY <1>7, <4>1
        <4>3. Rank(m, v, e) <= MaxReasons
          BY <1>3
        <4> QED BY <1>4, <1>5, <4>2, <4>3
      <3>2. ASSUME <<c, e>> \in Above(m) PROVE Rank(m, v, c) < Rank(m, v, e)
        <4> HIDE DEF B
        <4>1. Place(Above(m), B, c) < Place(Above(m), B, e)
          BY <1>5, <1>7, <2>1, <3>2, PlaceIsMonotone
        <4> QED BY <4>1 DEF Rank, B
      <3> HIDE DEF B
      <3> QED BY <1>5, <1>7, <2>1, <3>1, <3>2 DEF Orders
    <2>3. Precedes(m, e, c)
      BY <2>1, <2>2, AboveIsPrecedes
    <2>4. /\ Score(s, e) \in Int /\ Score(s, c) \in Int
          /\ Score(m, c) = Score(s, c) + delta
          /\ Score(m, e) = Score(s, e) + (IF f \in FeaturesOf(e) THEN delta ELSE 0)
      BY <1>1, ScoreIsInt
    <2>5. Precedes(s, e, c)
      <3> HIDE DEF delta
      <3> QED BY <1>1, <2>3, <2>4 DEF Precedes
    <2> QED BY <2>1, <2>5, AboveIsPrecedes DEF Before
  <1>9. MaxReasons <= Cardinality(T)
    <2> DEFINE place == [e \in T |-> Rank(m, v, e)]
    <2>1. \A i \in 1..MaxReasons : i \in 1..Cardinality(B)
      <3>1. Rank(m, v, c) \in 1..Cardinality(B)
        BY <1>5, <1>7
      <3>2. MaxReasons <= Cardinality(B)
        <4> HIDE DEF B
        <4> QED BY <1>4, <1>5, <1>7, <3>1
      <3> HIDE DEF B
      <3> QED BY <1>4, <1>7, <3>2
    <2>2. \A i \in 1..Cardinality(B) : \E e \in B : Rank(m, v, e) = i
      <3> HIDE DEF B
      <3>1. \A i \in 1..Cardinality(B) : \E e \in B : Place(Above(m), B, e) = i
        BY <1>7, PlacesAreTaken
      <3> QED BY <3>1 DEF Rank, B
    <2>3. \A i \in 1..MaxReasons : \E e \in T : Rank(m, v, e) = i
      <3>1. ASSUME NEW i \in 1..MaxReasons
            PROVE  \E e \in T : Rank(m, v, e) = i
        <4>1. PICK e \in B : Rank(m, v, e) = i
          BY <2>1, <2>2
        <4>2. Rank(m, v, e) <= MaxReasons
          BY <1>4, <4>1
        <4> QED BY <1>3, <4>1, <4>2
      <3> QED BY <3>1
    <2>4. \A e \in T : Rank(m, v, e) \in 1..MaxReasons
      <3>1. ASSUME NEW e \in T
            PROVE  Rank(m, v, e) \in 1..MaxReasons
        <4>1. Rank(m, v, e) \in 1..Cardinality(B) /\ Rank(m, v, e) <= MaxReasons
          BY <1>3, <1>7
        <4> HIDE DEF B
        <4> QED BY <1>4, <1>7, <4>1
      <3> QED BY <3>1
    <2>5. place \in Surjection(T, 1..MaxReasons)
      BY <2>3, <2>4 DEF Surjection
    <2>6. IsFiniteSet(T)
      BY <1>3, <1>7, FS_Subset
    <2>7. Cardinality(1..MaxReasons) = MaxReasons
      BY <1>4, FS_Interval
    <2>8. Cardinality(1..MaxReasons) <= Cardinality(T)
      <3> HIDE DEF T, place
      <3> QED BY <2>5, <2>6, FS_Surjection
    <2> QED BY <2>7, <2>8
  <1>10. Cardinality(T) <= Cardinality(Before(Above(s), A, c))
    <2> HIDE DEF A, T
    <2>1. IsFiniteSet(Before(Above(s), A, c))
      BY <1>5, <1>6, PlaceType
    <2>2. T \in SUBSET Before(Above(s), A, c)
      BY <1>8
    <2> QED BY <2>1, <2>2, FS_Subset
  <1>11. Rank(s, v, c) = 1 + Cardinality(Before(Above(s), A, c))
         /\ Cardinality(Before(Above(s), A, c)) \in Nat
    <2>1. Cardinality(Before(Above(s), A, c)) \in Nat
      <3> HIDE DEF A
      <3> QED BY <1>5, <1>6, PlaceType
    <2> QED BY <2>1 DEF Rank, Place
  <1>12. Cardinality(T) \in Nat
    <2>1. IsFiniteSet(T)
      BY <1>3, <1>7, FS_Subset
    <2> QED BY <2>1, FS_CardinalityType
  <1> QED BY <1>4, <1>5, <1>9, <1>10, <1>11, <1>12

------------------------------------------------------------------------------
(* The state.                                                              *)

\* What Explain records.
Recorded ==
    [ranks |-> Ranks(shap),
     reasons |-> [i \in DOMAIN Reasons(shap, vector) |->
                     Evidence(vector, Reasons(shap, vector)[i])],
     confidence |-> Confidence(vector)]

IInv ==
    /\ shap \in [Drivers -> Int]
    /\ record = NotYet \/ record = Recorded

\* The record is the one of the attributions and the vector it was made from.
LEMMA Inductive == Spec => []IInv
  <1>1. Init => IInv
    BY ReasonAssumption DEF Init, IInv
  <1>2. IInv /\ [Next]_vars => IInv'
    <2> SUFFICES ASSUME IInv, [Next]_vars PROVE IInv'
      OBVIOUS
    <2>1. CASE Explain
      <3>1. shap' = shap /\ vector' = vector /\ record' = Recorded
        BY <2>1 DEF Explain, Recorded
      <3>2. Recorded' = Recorded
        BY <3>1 DEF Recorded
      <3> QED BY <3>1, <3>2 DEF IInv
    <2>2. CASE UNCHANGED vars
      <3>1. shap' = shap /\ vector' = vector /\ record' = record
        BY <2>2 DEF vars
      <3>2. Recorded' = Recorded
        BY <3>1 DEF Recorded
      <3> QED BY <3>1, <3>2 DEF IInv
    <2> QED BY <2>1, <2>2 DEF Next
  <1> QED BY <1>1, <1>2, PTL DEF Spec

\* The codes of a record are those that were selected, in their order.
LEMMA CodesOfRecord ==
    ASSUME record = Recorded
    PROVE  /\ [i \in DOMAIN record.reasons |-> record.reasons[i].code] = Reasons(shap, vector)
           /\ Codified = Selected(shap, vector)
           /\ record.ranks = Ranks(shap)
  <1> DEFINE chosen == Reasons(shap, vector)
  <1>1. /\ record.reasons = [i \in DOMAIN chosen |-> Evidence(vector, chosen[i])]
        /\ record.ranks = Ranks(shap)
    BY DEF Recorded
  <1>2. DOMAIN record.reasons = DOMAIN chosen
    BY <1>1
  <1>3. \A i \in DOMAIN chosen : record.reasons[i].code = chosen[i]
    BY <1>1 DEF Evidence
  <1>4. chosen = [i \in DOMAIN chosen |-> chosen[i]]
    BY DEF Reasons
  <1> HIDE DEF chosen
  <1>5. [i \in DOMAIN record.reasons |-> record.reasons[i].code] = chosen
    BY <1>2, <1>3, <1>4
  <1>6. Codified = {chosen[i] : i \in DOMAIN chosen}
    BY <1>2, <1>3 DEF Codified
  <1> QED BY <1>1, <1>5, <1>6 DEF chosen, Selected

\* However the model attributes risk to features that only say how much is known of
\* a customer, and whatever these read, the codes of the record and their order are
\* those of the other features.
THEOREM ColdStartDecidesNothingHolds == Spec => []ColdStartDecidesNothing
  <1>1. IInv => ColdStartDecidesNothing
    <2> SUFFICES ASSUME IInv, record # NotYet PROVE ColdStartDecidesNothing
      BY DEF ColdStartDecidesNothing
    <2>1. [i \in DOMAIN record.reasons |-> record.reasons[i].code] = Reasons(shap, vector)
      BY CodesOfRecord DEF IInv
    <2> DEFINE quality == GroupFeatures.evidence_quality
    <2>2. Reasons([f \in DOMAIN shap \ quality |-> shap[f]],
                  [f \in DOMAIN vector \ quality |-> vector[f]]) = Reasons(shap, vector)
      BY QualityIsNotRead
    <2>3. DOMAIN shap = Drivers
      BY DEF IInv
    <2> QED BY <2>1, <2>2, <2>3 DEF ColdStartDecidesNothing
  <1> QED BY <1>1, Inductive, PTL

\* The ranks are a permutation, the informational group comes last and the first group
\* has the most net risk of the punitive ones, whatever the signs of the totals.
THEOREM RanksFollowRiskHolds == Spec => []RanksFollowRisk
  <1>1. IInv => RanksFollowRisk
    <2> SUFFICES ASSUME IInv, record # NotYet PROVE RanksFollowRisk
      BY DEF RanksFollowRisk
    <2>1. record.ranks = Ranks(shap) /\ shap \in [Drivers -> Int]
      BY CodesOfRecord DEF IInv
    <2> QED BY <2>1, RanksAreRight DEF RanksFollowRisk
  <1> QED BY <1>1, Inductive, PTL

\* Raising one attribution never drops a selected code that lists the feature, except
\* for a code that the feature could not trigger before.
THEOREM MoreRiskKeepsReasonsHolds == Spec => []MoreRiskKeepsReasons
  <1>1. IInv => MoreRiskKeepsReasons
    <2> SUFFICES ASSUME IInv, record # NotYet, NEW f \in Drivers, NEW d \in 1..2,
                        NEW c \in Codified, f \in FeaturesOf(c),
                        c \notin Selected([shap EXCEPT ![f] = @ + d], vector)
                 PROVE  /\ shap[f] <= 0
                        /\ \E e \in Selected([shap EXCEPT ![f] = @ + d], vector)
                                  \ Candidates(shap, vector) : f \in FeaturesOf(e)
      BY DEF MoreRiskKeepsReasons
    <2>1. shap \in [Drivers -> Int] /\ c \in Selected(shap, vector) /\ d \in Nat
      BY CodesOfRecord DEF IInv
    <2>2. c \notin Selected(Raised(shap, f, d), vector)
      BY DEF Raised
    <2>3. /\ shap[f] <= 0
          /\ \E e \in Selected(Raised(shap, f, d), vector)
                    \ Candidates(shap, vector) : f \in FeaturesOf(e)
      BY <2>1, <2>2, LargerKeepsReasons
    <2> QED BY <2>3 DEF Raised
  <1> QED BY <1>1, Inductive, PTL
=============================================================================
