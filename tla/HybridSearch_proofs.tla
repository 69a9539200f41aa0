------------------------- MODULE HybridSearch_proofs -------------------------
(***************************************************************************)
(* Proofs about HybridSearch, for every corpus and every value of the      *)
(* settings, exact or approximate scan: what a chunk found by both legs    *)
(* gains over a chunk found by one.                                        *)
(***************************************************************************)
EXTENDS HybridSearch, FiniteSetTheorems, TLAPS

-----------------------------------------------------------------------------
(* Arithmetic of the fractions.                                            *)

\* Multiplying by a positive number keeps a strict order.
LEMMA TimesPositive ==
  ASSUME NEW x \in Nat, NEW y \in Nat, NEW z \in Nat, x < y, z > 0
  PROVE  z * x < z * y
<1>1. z * (y - x) > 0
  OBVIOUS
<1>2. z * (y - x) = z * y - z * x
  OBVIOUS
<1> QED
  BY <1>1, <1>2

\* 1 / a + 1 / b > 1 / c when a and b are below 2c.
LEMMA SumOfReciprocals ==
  ASSUME NEW a \in Nat, NEW b \in Nat, NEW c \in Nat,
         0 < a, 0 < b, a < c + c, b < c + c
  PROVE  a * b < (a + b) * c
<1>1. a * b < a * (c + c)
  BY TimesPositive
<1>2. b * a < b * (c + c)
  BY TimesPositive
<1>3. a * (c + c) + b * (c + c) = (a + b) * c + (a + b) * c
  OBVIOUS
<1>4. a * b = b * a
  OBVIOUS
<1>5. /\ a * b \in Nat /\ (a + b) * c \in Nat
      /\ a * (c + c) \in Nat /\ b * (c + c) \in Nat
  OBVIOUS
<1> QED
  BY <1>1, <1>2, <1>3, <1>4, <1>5

-----------------------------------------------------------------------------
(* Scores.                                                                 *)

\* A leg's ranks: chunks numbered from 1 to at most fetch_limit.
IsLeg(ranks) ==
  /\ DOMAIN ranks \subseteq Chunks
  /\ \A c \in DOMAIN ranks : ranks[c] \in 1..query.fetchLimit

Both(d, t, c) == c \in DOMAIN d /\ c \in DOMAIN t

\* The settings of a query are positive numbers.
LEMMA QueryTypes ==
  ASSUME query \in Queries
  PROVE  /\ query.fetchLimit \in Nat \ {0} /\ query.rrfK \in Nat \ {0}
         /\ query.limit \in Nat \ {0}
BY SearchAssumption DEF Queries

\* The score of a chunk that both legs found.
LEMMA ScoreOfBoth ==
  ASSUME query \in Queries, NEW d, NEW t, IsLeg(d), IsLeg(t), NEW c, Both(d, t, c)
  PROVE  /\ d[c] \in Nat /\ t[c] \in Nat
         /\ Score(d, t, c) = << (query.rrfK + t[c]) + (query.rrfK + d[c]),
                                (query.rrfK + d[c]) * (query.rrfK + t[c]) >>
<1>1. /\ d[c] \in Nat /\ t[c] \in Nat /\ query.rrfK \in Nat
  BY QueryTypes DEF IsLeg, Both
<1>2. /\ Reciprocal(d, c) = <<1, query.rrfK + d[c]>>
      /\ Reciprocal(t, c) = <<1, query.rrfK + t[c]>>
  BY DEF Both, Reciprocal
<1>3. Score(d, t, c) = << 1 * (query.rrfK + t[c]) + 1 * (query.rrfK + d[c]),
                          (query.rrfK + d[c]) * (query.rrfK + t[c]) >>
  BY <1>2 DEF Score
<1> QED
  BY <1>1, <1>3

\* The score of any other chunk is at most the best of a single leg: it is
\* n / m with n = 0 or n = 1, and m is above rrf_k when n = 1.
LEMMA ScoreOfOne ==
  ASSUME query \in Queries, NEW d, NEW t, IsLeg(d), IsLeg(t), NEW c, ~Both(d, t, c)
  PROVE  \E m \in Nat : /\ m > 0
                        /\ \/ Score(d, t, c) = <<0, m>>
                           \/ Score(d, t, c) = <<1, m>> /\ m >= query.rrfK + 1
<1> DEFINE k == query.rrfK
<1>0. k \in Nat \ {0}
  BY QueryTypes
<1>1. CASE c \in DOMAIN d
  <2>1. c \notin DOMAIN t
    BY <1>1 DEF Both
  <2>2. d[c] \in Nat /\ d[c] >= 1
    BY <1>1, QueryTypes DEF IsLeg
  <2>3. Score(d, t, c) = <<1 * 1 + 0 * (k + d[c]), (k + d[c]) * 1>>
    BY <1>1, <2>1 DEF Score, Reciprocal
  <2> QED
    BY <1>0, <2>2, <2>3
<1>2. CASE c \in DOMAIN t
  <2>1. c \notin DOMAIN d
    BY <1>2 DEF Both
  <2>2. t[c] \in Nat /\ t[c] >= 1
    BY <1>2, QueryTypes DEF IsLeg
  <2>3. Score(d, t, c) = <<0 * (k + t[c]) + 1 * 1, 1 * (k + t[c])>>
    BY <1>2, <2>1 DEF Score, Reciprocal
  <2> QED
    BY <1>0, <2>2, <2>3
<1>3. CASE c \notin DOMAIN d /\ c \notin DOMAIN t
  <2>1. Score(d, t, c) = <<0 * 1 + 0 * 1, 1 * 1>>
    BY <1>3 DEF Score, Reciprocal
  <2> QED
    BY <2>1
<1> QED
  BY <1>1, <1>2, <1>3

\* With fetch_limit at most rrf_k + 1, two legs score more than one.
LEMMA BothBeatOne ==
  ASSUME query \in Queries, query.fetchLimit <= query.rrfK + 1,
         NEW d, NEW t, IsLeg(d), IsLeg(t),
         NEW b, Both(d, t, b), NEW c, ~Both(d, t, c)
  PROVE  Less(Score(d, t, c), Score(d, t, b))
<1> DEFINE k == query.rrfK
           x == k + d[b]
           y == k + t[b]
<1>0. k \in Nat \ {0} /\ query.fetchLimit \in Nat
  BY QueryTypes
<1>1. /\ x \in Nat /\ y \in Nat /\ 0 < x /\ 0 < y
      /\ x <= k + (k + 1) /\ y <= k + (k + 1)
  BY <1>0 DEF IsLeg, Both
<1>2. Score(d, t, b) = <<y + x, x * y>>
  BY ScoreOfBoth
<1>3. PICK m \in Nat : /\ m > 0
                       /\ \/ Score(d, t, c) = <<0, m>>
                          \/ Score(d, t, c) = <<1, m>> /\ m >= k + 1
  BY ScoreOfOne
<1> HIDE DEF x, y
<1>4. CASE Score(d, t, c) = <<0, m>>
  <2>1. 0 * (x * y) = 0 /\ (y + x) * m > 0
    BY <1>1, <1>3, TimesPositive
  <2> QED
    BY <1>2, <1>4, <2>1 DEF Less
<1>5. CASE Score(d, t, c) = <<1, m>> /\ m >= k + 1
  <2>1. x < m + m /\ y < m + m
    BY <1>0, <1>1, <1>5
  <2>2. x * y < (x + y) * m
    BY <1>1, <2>1, SumOfReciprocals
  <2>3. 1 * (x * y) < (y + x) * m
    BY <1>1, <2>2
  <2> QED
    BY <1>2, <1>5, <2>3 DEF Less
<1> QED
  BY <1>3, <1>4, <1>5

\* A chunk of a single leg stays below a bar above 1 / (rrf_k + 1).
LEMMA OneMissesTheBar ==
  ASSUME query \in Queries, Less(<<1, query.rrfK + 1>>, Bar),
         NEW d, NEW t, IsLeg(d), IsLeg(t), NEW c, ~Both(d, t, c)
  PROVE  Less(Score(d, t, c), Bar)
<1> DEFINE k == query.rrfK
<1>0. /\ k \in Nat \ {0} /\ Bar[1] \in Nat /\ Bar[2] \in Nat \ {0}
      /\ Bar = <<Bar[1], Bar[2]>>
  BY QueryTypes, SearchAssumption
<1>1. 1 * Bar[2] < Bar[1] * (k + 1)
  BY DEF Less
<1>2. PICK m \in Nat : /\ m > 0
                       /\ \/ Score(d, t, c) = <<0, m>>
                          \/ Score(d, t, c) = <<1, m>> /\ m >= k + 1
  BY ScoreOfOne
<1>3. Bar[1] > 0
  BY <1>0, <1>1
<1>4. CASE Score(d, t, c) = <<0, m>>
  <2>1. Bar[1] * m > 0 /\ 0 * Bar[2] = 0
    BY <1>0, <1>2, <1>3, TimesPositive
  <2> QED
    BY <1>4, <2>1 DEF Less
<1>5. CASE Score(d, t, c) = <<1, m>> /\ m >= k + 1
  <2>1. Bar[1] * (k + 1) <= Bar[1] * m
    BY <1>0, <1>3, <1>5, TimesPositive
  <2>2. 1 * Bar[2] < Bar[1] * m
    BY <1>0, <1>1, <2>1
  <2> QED
    BY <1>5, <2>2 DEF Less
<1> QED
  BY <1>2, <1>4, <1>5

-----------------------------------------------------------------------------
(* What a statement returns.                                               *)

\* Numbering at most fetch_limit chunks gives a leg.
LEMMA RowNumbersAreLegs ==
  ASSUME query \in Queries, NEW S \in SUBSET Chunks,
         Cardinality(S) <= query.fetchLimit, NEW order, NEW r \in RowNumbers(S, order)
  PROVE  IsLeg(r)
<1>1. Cardinality(S) \in Nat
  BY SearchAssumption, FS_Subset, FS_CardinalityType
<1>2. r \in [S -> 1..Cardinality(S)]
  BY DEF RowNumbers
<1> QED
  BY <1>1, <1>2, QueryTypes DEF IsLeg

\* A leg that is not used is a leg without chunks.
LEMMA NoRanksIsALeg == IsLeg(NoRanks)
BY DEF IsLeg, NoRanks

\* The vector leg.
LEMMA DenseLegIsALeg ==
  ASSUME query \in Queries, NEW r \in DenseLeg
  PROVE  IsLeg(r)
<1>1. PICK S \in KnnSurvivors : r \in RowNumbers(S, NearerById)
  BY DEF DenseLeg
<1>2. S \in SUBSET Chunks /\ Cardinality(S) <= query.fetchLimit
  BY <1>1 DEF KnnSurvivors, TopN
<1> QED
  BY <1>1, <1>2, RowNumbersAreLegs

\* The full-text leg.
LEMMA TextLegIsALeg ==
  ASSUME query \in Queries, NEW r \in TextLeg
  PROVE  IsLeg(r)
<1>1. PICK S \in FullTextTop : r \in RowNumbers(S, MoreRelevant)
  BY DEF TextLeg
<1>2. S \in SUBSET Chunks /\ Cardinality(S) <= query.fetchLimit
  BY <1>1 DEF FullTextTop, TopN, Matches
<1> QED
  BY <1>1, <1>2, RowNumbersAreLegs

SortedHits(h, d, t) ==
  /\ \A i \in DOMAIN h : h[i] \in Fused(d, t)
  /\ \A i, j \in DOMAIN h : i < j => <<h[j], h[i]>> \notin ByScore(d, t)

\* The hits are at most limit chunks that a leg found, in the order of their
\* scores.
LEMMA HitsAreSorted ==
  ASSUME query \in Queries, NEW d, NEW t, IsLeg(d), IsLeg(t), NEW h \in Hits(d, t)
  PROVE  h \in Seq(Chunks) /\ Len(h) <= query.limit /\ SortedHits(h, d, t)
<1>1. PICK S \in TopN(Fused(d, t), query.limit, ByScore(d, t)) : h \in Listings(S, ByScore(d, t))
  BY DEF Hits
<1>2. S \subseteq Fused(d, t) /\ S \subseteq Chunks /\ Cardinality(S) <= query.limit
  BY <1>1 DEF TopN, Fused, IsLeg
<1>3. Cardinality(S) \in Nat
  BY <1>2, SearchAssumption, FS_Subset, FS_CardinalityType
<1>4. /\ h \in [1..Cardinality(S) -> S]
      /\ \A i, j \in 1..Cardinality(S) : i < j => <<h[j], h[i]>> \notin ByScore(d, t)
  BY <1>1 DEF Listings
<1>5. h \in Seq(Chunks) /\ Len(h) = Cardinality(S)
  BY <1>2, <1>3, <1>4
<1> QED
  BY <1>2, <1>4, <1>5 DEF SortedHits

-----------------------------------------------------------------------------
(* The inductive invariant: both legs are legs, and the last answer is      *)
(* sorted by the scores they give.                                         *)

IInv ==
  /\ query \in Queries
  /\ IsLeg(dense) /\ IsLeg(text)
  /\ answers \in Seq(Seq(Chunks))
  /\ \A n \in DOMAIN answers : Len(answers[n]) <= query.limit
  /\ answers # <<>> => SortedHits(Last, dense, text)

\* Before the first search both legs are empty.
LEMMA IInvInit == Init => IInv
BY NoRanksIsALeg DEF Init, IInv

\* A search keeps the invariant.
LEMMA IInvNext == IInv /\ [Next]_vars => IInv'
<1> SUFFICES ASSUME IInv, [Next]_vars PROVE IInv'
  OBVIOUS
<1> USE DEF IInv
<1>1. CASE Search
  <2>1. PICK d \in IF Uses({"hybrid", "dense"}) THEN DenseLeg ELSE {NoRanks},
             t \in IF Uses({"hybrid", "lexical"}) THEN TextLeg ELSE {NoRanks} :
               /\ dense' = d /\ text' = t
               /\ \E h \in Hits(d, t) : answers' = Append(answers, h)
    BY <1>1 DEF Search
  <2>2. PICK h \in Hits(d, t) : answers' = Append(answers, h)
    BY <2>1
  <2>3. query' = query
    BY <1>1 DEF Search
  <2>4. IsLeg(d) /\ IsLeg(t)
    BY <2>1, DenseLegIsALeg, TextLegIsALeg, NoRanksIsALeg
  <2>5. h \in Seq(Chunks) /\ Len(h) <= query.limit /\ SortedHits(h, d, t)
    BY <2>2, <2>4, HitsAreSorted
  <2>6. IsLeg(dense)' /\ IsLeg(text)'
    BY <2>1, <2>3, <2>4 DEF IsLeg
  <2>7. /\ answers' \in Seq(Seq(Chunks))
        /\ \A n \in DOMAIN answers' : Len(answers'[n]) <= query'.limit
    BY <2>2, <2>3, <2>5
  <2>8. Last' = h
    BY <2>2, <2>5 DEF Last
  <2>9. SortedHits(Last, dense, text)'
    BY <2>1, <2>3, <2>5, <2>8
       DEF SortedHits, Fused, ByScore, Score, Reciprocal, Less, Pairs
  <2> QED
    BY <2>3, <2>6, <2>7, <2>9
<1>2. CASE UNCHANGED vars
  <2>1. /\ query' = query /\ dense' = dense /\ text' = text /\ answers' = answers
    BY <1>2 DEF vars
  <2> QED
    BY <2>1 DEF IsLeg, SortedHits, Last, Fused, ByScore, Score, Reciprocal, Less, Pairs
<1> QED
  BY <1>1, <1>2 DEF Next

\* The invariant holds in every reachable state.
THEOREM Invariance == Spec => []IInv
BY IInvInit, IInvNext, PTL DEF Spec

-----------------------------------------------------------------------------
(* The results.                                                            *)

\* Ranks never exceed fetch_limit and no answer is longer than top_k.
THEOREM TypeCorrect == Spec => []TypeOK
<1>1. IInv => TypeOK
  BY DEF IInv, IsLeg, TypeOK
<1> QED
  BY <1>1, Invariance, PTL

\* The consensus of two legs is listed first, for every corpus and every
\* setting with fetch_limit at most rrf_k + 1.
THEOREM ConsensusIsFirst == Spec => []ConsensusFirst
<1>1. IInv => ConsensusFirst
  <2> SUFFICES ASSUME IInv, answers # <<>>, query.fetchLimit <= query.rrfK + 1,
                      NEW i \in DOMAIN Last, NEW j \in DOMAIN Last,
                      InBothLegs(Last[i]), ~InBothLegs(Last[j])
               PROVE  i < j
    BY DEF ConsensusFirst
  <2>1. Less(Score(dense, text, Last[j]), Score(dense, text, Last[i]))
    BY BothBeatOne DEF IInv, InBothLegs, Both
  <2>2. SortedHits(Last, dense, text)
    BY DEF IInv
  <2>3. <<Last[i], Last[j]>> \in Pairs
    BY <2>2 DEF SortedHits, Fused, IInv, IsLeg, Pairs
  <2>4. <<Last[i], Last[j]>> \in ByScore(dense, text)
    BY <2>1, <2>3 DEF ByScore
  <2>5. ~(j < i)
    BY <2>2, <2>4 DEF SortedHits
  <2>6. i # j
    OBVIOUS
  <2>7. i \in Int /\ j \in Int
    <3>1. Last \in Seq(Chunks)
      BY DEF IInv, Last
    <3> QED
      BY <3>1
  <2> QED
    BY <2>5, <2>6, <2>7
<1> QED
  BY <1>1, Invariance, PTL

\* A bar above the best score of a single leg lets only consensus through.
THEOREM TheBarNeedsConsensus == Spec => []BarNeedsConsensus
<1>1. IInv => BarNeedsConsensus
  BY OneMissesTheBar DEF IInv, BarNeedsConsensus, InBothLegs, Both
<1> QED
  BY <1>1, Invariance, PTL

-----------------------------------------------------------------------------
(* What a total order leaves of PostgreSQL's choices.                       *)

Total(R, order) ==
  \A b, c \in R : b # c => <<b, c>> \in order \/ <<c, b>> \in order

Before(c, S, order) == {b \in S \ {c} : <<b, c>> \in order}

\* 1 .. n has n elements.
LEMMA Counted ==
  ASSUME NEW n \in Nat
  PROVE  IsFiniteSet(1 .. n) /\ Cardinality(1 .. n) = n
<1>1. 1 \in Int /\ n \in Int /\ (1 > n => n = 0) /\ n - 1 + 1 = n
  OBVIOUS
<1>2. /\ IsFiniteSet(1 .. n)
      /\ Cardinality(1 .. n) = IF 1 > n THEN 0 ELSE n - 1 + 1
  BY ONLY <1>1, FS_Interval
<1> QED
  BY <1>1, <1>2

\* A totally ordered set has one set of the first n.
LEMMA OneTop ==
  ASSUME NEW R, IsFiniteSet(R), NEW n \in Nat, NEW order, Total(R, order),
         NEW S \in TopN(R, n, order), NEW T \in TopN(R, n, order)
  PROVE  S \subseteq T
<1> SUFFICES ASSUME NEW b \in S, b \notin T PROVE FALSE
  OBVIOUS
<1>1. /\ S \in SUBSET R /\ T \in SUBSET R /\ T # R
      /\ Cardinality(S) <= n /\ Cardinality(T) = n
  BY DEF TopN
<1>2. IsFiniteSet(S) /\ IsFiniteSet(T) /\ Cardinality(S) \in Nat
  BY <1>1, FS_Subset, FS_CardinalityType
<1>3. ~(T \subseteq S)
  <2> SUFFICES ASSUME T \subseteq S PROVE FALSE
    OBVIOUS
  <2>1. Cardinality(T) <= Cardinality(S) /\ (Cardinality(S) = Cardinality(T) => S = T)
    BY <1>2, FS_Subset
  <2> QED
    BY <1>1, <1>2, <2>1
<1>4. PICK c \in T : c \notin S
  BY <1>3
<1>5. <<b, c>> \notin order /\ <<c, b>> \notin order
  BY <1>1, <1>4 DEF TopN
<1> QED
  BY <1>1, <1>4, <1>5 DEF Total

\* The row number of a row counts the rows before it.
LEMMA RowNumberCounts ==
  ASSUME NEW S, IsFiniteSet(S), NEW order, Total(S, order),
         NEW r \in RowNumbers(S, order), NEW c \in S
  PROVE  r[c] = 1 + Cardinality(Before(c, S, order))
<1> DEFINE n == Cardinality(S)
           B == Before(c, S, order)
<1>1. n \in Nat /\ IsFiniteSet(1 .. n) /\ Cardinality(1 .. n) = n
  BY FS_CardinalityType, Counted
<1>2. /\ r \in [S -> 1 .. n]
      /\ \A a, b \in S : a # b => r[a] # r[b] /\ (<<a, b>> \in order => r[a] < r[b])
  BY DEF RowNumbers
<1>3. r \in Injection(S, 1 .. n)
  BY <1>2 DEF Injection, IsInjective
<1> HIDE DEF n
<1>4. r \in Surjection(S, 1 .. n)
  BY <1>1, <1>3, FS_Injection DEF n
<1>5. \A b \in S : b \in B <=> r[b] < r[c]
  <2> SUFFICES ASSUME NEW b \in S PROVE b \in B <=> r[b] < r[c]
    OBVIOUS
  <2>1. r[b] \in Nat /\ r[c] \in Nat
    BY <1>1, <1>2
  <2>2. b # c => <<b, c>> \in order \/ <<c, b>> \in order
    BY DEF Total
  <2> QED
    BY <1>2, <2>1, <2>2 DEF Before
<1>6. r[c] \in Nat /\ r[c] - 1 \in Nat /\ \A i \in 1 .. r[c] - 1 : i \in 1 .. n
  BY <1>1, <1>2
<1> DEFINE g == [b \in B |-> r[b]]
<1>7. g \in Bijection(B, 1 .. r[c] - 1)
  <2>1. B \subseteq S
    BY DEF Before
  <2>2. \A b \in B : r[b] \in 1 .. r[c] - 1
    BY <1>1, <1>2, <1>5, <1>6, <2>1
  <2>3. \A a, b \in B : g[a] = g[b] => a = b
    BY <1>2, <2>1
  <2>4. \A i \in 1 .. r[c] - 1 : \E b \in B : g[b] = i
    <3> SUFFICES ASSUME NEW i \in 1 .. r[c] - 1 PROVE \E b \in B : g[b] = i
      OBVIOUS
    <3>1. PICK b \in S : r[b] = i
      BY <1>4, <1>6 DEF Surjection
    <3>2. b \in B
      BY <1>5, <1>6, <3>1
    <3> QED
      BY <3>1, <3>2
  <2> QED
    BY <2>2, <2>3, <2>4 DEF Bijection, Injection, Surjection, IsInjective
<1>8. IsFiniteSet(B)
  BY FS_Subset DEF Before
<1> HIDE DEF g, B
<1>9. ExistsBijection(B, 1 .. r[c] - 1)
  BY <1>7 DEF ExistsBijection
<1>10. Cardinality(B) = Cardinality(1 .. r[c] - 1)
  BY <1>8, <1>9, FS_Bijection
<1>11. Cardinality(B) = r[c] - 1
  BY <1>6, <1>10, Counted
<1> QED
  BY <1>6, <1>11 DEF B

\* There is one numbering of a totally ordered set.
LEMMA OneNumbering ==
  ASSUME NEW S, IsFiniteSet(S), NEW order, Total(S, order),
         NEW r \in RowNumbers(S, order), NEW q \in RowNumbers(S, order)
  PROVE  r = q
<1>1. r \in [S -> 1 .. Cardinality(S)] /\ q \in [S -> 1 .. Cardinality(S)]
  BY DEF RowNumbers
<1>2. \A c \in S : r[c] = q[c]
  BY RowNumberCounts
<1> QED
  BY <1>1, <1>2

\* The positions of a listing number it.
LEMMA ListingNumbers ==
  ASSUME NEW S, IsFiniteSet(S), NEW order, Total(S, order), NEW h \in Listings(S, order)
  PROVE  \E r \in RowNumbers(S, order) :
           \A i \in 1 .. Cardinality(S) : h[i] \in S /\ r[h[i]] = i
<1> DEFINE n == Cardinality(S)
<1>1. n \in Nat /\ IsFiniteSet(1 .. n) /\ Cardinality(1 .. n) = n
  BY FS_CardinalityType, Counted
<1>2. /\ h \in [1 .. n -> S]
      /\ \A i, j \in 1 .. n : i < j => h[i] # h[j] /\ <<h[j], h[i]>> \notin order
  BY DEF Listings
<1> HIDE DEF n
<1>3. h \in Injection(1 .. n, S)
  <2>1. ASSUME NEW i \in 1 .. n, NEW j \in 1 .. n, h[i] = h[j] PROVE i = j
    <3>1. ~(i < j) /\ ~(j < i)
      BY <1>2, <2>1
    <3> QED
      BY <1>1, <3>1
  <2> QED
    BY <1>2, <2>1 DEF Injection, IsInjective
<1>4. h \in Surjection(1 .. n, S)
  BY <1>1, <1>3, FS_Injection DEF n
<1> DEFINE r == [c \in S |-> CHOOSE i \in 1 .. n : h[i] = c]
<1>5. \A c \in S : r[c] \in 1 .. n /\ h[r[c]] = c
  BY <1>4 DEF Surjection
<1>6. \A i \in 1 .. n : h[i] \in S /\ r[h[i]] = i
  <2> SUFFICES ASSUME NEW i \in 1 .. n PROVE h[i] \in S /\ r[h[i]] = i
    OBVIOUS
  <2>1. h[i] \in S
    BY <1>2
  <2>2. r[h[i]] \in 1 .. n /\ h[r[h[i]]] = h[i]
    BY <1>5, <2>1
  <2> HIDE DEF r
  <2> QED
    BY <1>3, <2>1, <2>2 DEF Injection, IsInjective
<1>7. r \in [S -> 1 .. n]
  BY <1>5
<1> HIDE DEF r
<1>8. ASSUME NEW b \in S, NEW c \in S, b # c
      PROVE  r[b] # r[c] /\ (<<b, c>> \in order => r[b] < r[c])
  <2>1. r[b] \in 1 .. n /\ h[r[b]] = b /\ r[c] \in 1 .. n /\ h[r[c]] = c
    BY <1>5
  <2>2. r[b] # r[c]
    BY <1>8, <2>1
  <2>3. r[c] < r[b] => <<b, c>> \notin order
    BY <1>2, <2>1
  <2> QED
    BY <1>1, <2>1, <2>2, <2>3
<1>9. r \in RowNumbers(S, order)
  BY <1>7, <1>8 DEF RowNumbers, n
<1> QED
  BY <1>6, <1>9 DEF n

\* There is one listing of a totally ordered set.
LEMMA OneListing ==
  ASSUME NEW S, IsFiniteSet(S), NEW order, Total(S, order),
         NEW h \in Listings(S, order), NEW g \in Listings(S, order)
  PROVE  h = g
<1> DEFINE n == Cardinality(S)
<1>1. h \in [1 .. n -> S] /\ g \in [1 .. n -> S]
  BY DEF Listings
<1>2. PICK r \in RowNumbers(S, order) : \A i \in 1 .. n : h[i] \in S /\ r[h[i]] = i
  BY ListingNumbers
<1>3. PICK q \in RowNumbers(S, order) : \A i \in 1 .. n : g[i] \in S /\ q[g[i]] = i
  BY ListingNumbers
<1>4. r = q
  BY OneNumbering
<1>5. \A i \in 1 .. n : h[i] = g[i]
  <2> SUFFICES ASSUME NEW i \in 1 .. n PROVE h[i] = g[i]
    OBVIOUS
  <2>1. r[h[i]] = r[g[i]] /\ h[i] \in S /\ g[i] \in S
    BY <1>2, <1>3, <1>4
  <2>2. \A b, c \in S : b # c => r[b] # r[c]
    BY DEF RowNumbers
  <2> QED
    BY <2>1, <2>2
<1>6. h = [i \in 1 .. n |-> h[i]] /\ g = [i \in 1 .. n |-> g[i]]
  BY <1>1
<1> QED
  BY <1>5, <1>6, Zenon

-----------------------------------------------------------------------------
(* The orders of the statements, and what each search may answer.           *)

DenseRanks == IF Uses({"hybrid", "dense"}) THEN DenseLeg ELSE {NoRanks}
TextRanks == IF Uses({"hybrid", "lexical"}) THEN TextLeg ELSE {NoRanks}

Determined == Uses({"lexical"}) \/ NoTieAtFetchLimit

\* The id tiebreakers make the orders total.
LEMMA TotalOrders ==
  ASSUME query \in Queries
  PROVE  /\ Total(Chunks, NearerById) /\ Total(Chunks, MoreRelevant)
         /\ \A d, t : Total(Chunks, ByScore(d, t))
         /\ \A c \in Chunks : <<c, c>> \notin MoreRelevant
<1>1. \A c \in Chunks : /\ query.distance[c] \in Nat /\ query.relevance[c] \in Nat
                        /\ c \in Nat
  BY SearchAssumption DEF Queries
<1>2. ASSUME NEW b \in Chunks, NEW c \in Chunks, b # c
      PROVE  /\ <<b, c>> \in NearerById \/ <<c, b>> \in NearerById
             /\ <<b, c>> \in MoreRelevant \/ <<c, b>> \in MoreRelevant
  BY <1>1, <1>2 DEF NearerById, Nearer, MoreRelevant, Pairs
<1>3. ASSUME NEW d, NEW t, NEW b \in Chunks, NEW c \in Chunks, b # c
      PROVE  <<b, c>> \in ByScore(d, t) \/ <<c, b>> \in ByScore(d, t)
  <2>1. b < c \/ c < b
    BY <1>1, <1>3
  <2> QED
    BY <2>1 DEF ByScore, Pairs
<1>4. \A c \in Chunks : <<c, c>> \notin MoreRelevant
  BY <1>1 DEF MoreRelevant
<1> QED
  BY <1>2, <1>3, <1>4 DEF Total

\* Chunks are finitely many.
LEMMA FiniteChunks ==
  ASSUME NEW S \in SUBSET Chunks
  PROVE  IsFiniteSet(S) /\ \A order : Total(Chunks, order) => Total(S, order)
BY SearchAssumption, FS_Subset DEF Total

\* The full-text leg keeps the matches that come first, and its ranks are
\* those of the matches.
LEMMA TextRanksCount ==
  ASSUME query \in Queries, NEW t \in TextLeg
  PROVE  \A c \in DOMAIN t : t[c] = RankOfAllMatches(c)
<1>1. PICK S \in FullTextTop : t \in RowNumbers(S, MoreRelevant)
  BY DEF TextLeg
<1>2. /\ S \in SUBSET Matches /\ S \in SUBSET Chunks
      /\ \A b \in Matches \ S, c \in S : <<b, c>> \notin MoreRelevant
  BY <1>1 DEF FullTextTop, TopN, Matches
<1>3. IsFiniteSet(S) /\ Total(S, MoreRelevant)
  BY <1>2, FiniteChunks, TotalOrders
<1>4. DOMAIN t = S
  BY <1>1 DEF RowNumbers
<1>5. ASSUME NEW c \in S PROVE t[c] = RankOfAllMatches(c)
  <2>1. t[c] = 1 + Cardinality(Before(c, S, MoreRelevant))
    BY <1>1, <1>3, RowNumberCounts
  <2>2. Before(c, S, MoreRelevant) = {b \in Matches : <<b, c>> \in MoreRelevant}
    BY <1>2, TotalOrders DEF Before
  <2> QED
    BY <2>1, <2>2 DEF RankOfAllMatches
<1> QED
  BY <1>4, <1>5

\* The full-text leg is determined by the chunks and the question.
LEMMA OneTextLeg ==
  ASSUME query \in Queries, NEW t \in TextRanks, NEW u \in TextRanks
  PROVE  t = u
<1>1. CASE Uses({"hybrid", "lexical"})
  <2>1. PICK S \in FullTextTop : t \in RowNumbers(S, MoreRelevant)
    BY <1>1 DEF TextRanks, TextLeg
  <2>2. PICK T \in FullTextTop : u \in RowNumbers(T, MoreRelevant)
    BY <1>1 DEF TextRanks, TextLeg
  <2>3. Matches \in SUBSET Chunks /\ S \in SUBSET Chunks
    BY <2>1 DEF FullTextTop, TopN, Matches
  <2>4. /\ IsFiniteSet(Matches) /\ Total(Matches, MoreRelevant)
        /\ IsFiniteSet(S) /\ Total(S, MoreRelevant)
    BY <2>3, FiniteChunks, TotalOrders
  <2>5. S = T
    <3>1. query.fetchLimit \in Nat
      BY QueryTypes
    <3>2. /\ S \in TopN(Matches, query.fetchLimit, MoreRelevant)
          /\ T \in TopN(Matches, query.fetchLimit, MoreRelevant)
      BY <2>1, <2>2 DEF FullTextTop
    <3>3. S \subseteq T
      BY <2>4, <3>1, <3>2, OneTop
    <3>4. T \subseteq S
      BY <2>4, <3>1, <3>2, OneTop
    <3> QED
      BY <3>3, <3>4
  <2> QED
    BY <2>1, <2>2, <2>4, <2>5, OneNumbering
<1>2. CASE ~Uses({"hybrid", "lexical"})
  BY <1>2 DEF TextRanks
<1> QED
  BY <1>1, <1>2

\* So is the vector leg, unless the index scan has a choice.
LEMMA OneDenseLeg ==
  ASSUME query \in Queries, Determined, NEW d \in DenseRanks, NEW e \in DenseRanks
  PROVE  d = e
<1>1. CASE Uses({"hybrid", "dense"})
  <2>1. NoTieAtFetchLimit
    BY <1>1 DEF Determined, Uses
  <2>2. PICK S \in KnnSurvivors : d \in RowNumbers(S, NearerById)
    BY <1>1 DEF DenseRanks, DenseLeg
  <2>3. PICK T \in KnnSurvivors : e \in RowNumbers(T, NearerById)
    BY <1>1 DEF DenseRanks, DenseLeg
  <2>4. S = T
    BY <2>1, <2>2, <2>3 DEF NoTieAtFetchLimit
  <2>5. S \in SUBSET Chunks
    BY <2>2 DEF KnnSurvivors, TopN
  <2>6. IsFiniteSet(S) /\ Total(S, NearerById)
    BY <2>5, FiniteChunks, TotalOrders
  <2> QED
    BY <2>2, <2>3, <2>4, <2>6, OneNumbering
<1>2. CASE ~Uses({"hybrid", "dense"})
  BY <1>2 DEF DenseRanks
<1> QED
  BY <1>1, <1>2

\* The legs determine the answer.
LEMMA OneAnswer ==
  ASSUME query \in Queries, NEW d, NEW t, IsLeg(d), IsLeg(t),
         NEW h \in Hits(d, t), NEW g \in Hits(d, t)
  PROVE  h = g
<1> DEFINE order == ByScore(d, t)
           R == Fused(d, t)
<1>1. PICK S \in TopN(R, query.limit, order) : h \in Listings(S, order)
  BY DEF Hits
<1>2. PICK T \in TopN(R, query.limit, order) : g \in Listings(T, order)
  BY DEF Hits
<1>3. R \in SUBSET Chunks /\ S \in SUBSET Chunks
  BY <1>1 DEF TopN, Fused, IsLeg
<1>4. Total(Chunks, order) /\ query.limit \in Nat
  BY TotalOrders, QueryTypes
<1> HIDE DEF order, R
<1>5. IsFiniteSet(R) /\ Total(R, order) /\ IsFiniteSet(S) /\ Total(S, order)
  BY <1>3, <1>4, FiniteChunks
<1>6. S = T
  <2>1. S \subseteq T
    BY <1>1, <1>2, <1>4, <1>5, OneTop
  <2>2. T \subseteq S
    BY <1>1, <1>2, <1>4, <1>5, OneTop
  <2> QED
    BY <2>1, <2>2
<1> QED
  BY <1>1, <1>2, <1>5, <1>6, OneListing

-----------------------------------------------------------------------------
(* The second invariant: the legs are among the statement's, the last       *)
(* answer is theirs, and determined answers are the same.                  *)

Found ==
  /\ text \in TextLeg \cup {NoRanks}
  /\ answers # <<>> =>
       dense \in DenseRanks /\ text \in TextRanks /\ Last \in Hits(dense, text)
  /\ SameQuestionSameAnswer

\* Nothing but the question and the chunks decides what a search may do.
LEMMA SameChoices ==
  ASSUME query' = query
  PROVE  /\ DenseRanks' = DenseRanks /\ TextRanks' = TextRanks /\ TextLeg' = TextLeg
         /\ Determined' = Determined /\ \A d, t : Hits(d, t)' = Hits(d, t)
<1>1. Nearer' = Nearer
  BY DEF Nearer
<1>2. NearerById' = NearerById
  BY <1>1 DEF NearerById
<1>3. KnnSurvivors' = KnnSurvivors
  BY <1>1 DEF KnnSurvivors
<1>4. MoreRelevant' = MoreRelevant /\ Matches' = Matches
  BY DEF MoreRelevant, Matches
<1>5. TextLeg' = TextLeg
  <2>1. FullTextTop' = FullTextTop
    BY <1>4 DEF FullTextTop
  <2> QED
    BY <1>4, <2>1 DEF TextLeg
<1>6. DenseLeg' = DenseLeg
  BY <1>2, <1>3 DEF DenseLeg
<1>7. ASSUME NEW d, NEW t PROVE Hits(d, t)' = Hits(d, t)
  <2>1. ByScore(d, t)' = ByScore(d, t)
    BY DEF ByScore, Score, Reciprocal, Less
  <2>2. Fused(d, t)' = Fused(d, t)
    BY DEF Fused
  <2> QED
    BY <2>1, <2>2 DEF Hits
<1> QED
  BY <1>3, <1>5, <1>6, <1>7 DEF DenseRanks, TextRanks, Determined, Uses, NoTieAtFetchLimit

\* Before the first search nothing was found.
LEMMA FoundInit == Init => Found
BY DEF Init, Found, SameQuestionSameAnswer

\* A search whose answer is determined repeats the last one.
LEMMA FoundNext == IInv /\ Found /\ [Next]_vars => Found'
<1> SUFFICES ASSUME IInv, Found, [Next]_vars PROVE Found'
  OBVIOUS
<1>0. query \in Queries /\ answers \in Seq(Seq(Chunks)) /\ IsLeg(dense) /\ IsLeg(text)
  BY DEF IInv
<1>1. CASE Search
  <2>1. query' = query
    BY <1>1 DEF Search
  <2>2. PICK d \in DenseRanks, t \in TextRanks :
          /\ dense' = d /\ text' = t
          /\ \E h \in Hits(d, t) : answers' = Append(answers, h)
    BY <1>1 DEF Search, DenseRanks, TextRanks
  <2>3. PICK h \in Hits(d, t) : answers' = Append(answers, h)
    BY <2>2
  <2>4. IsLeg(d) /\ IsLeg(t)
    BY <1>0, DenseLegIsALeg, TextLegIsALeg, NoRanksIsALeg DEF DenseRanks, TextRanks
  <2>5. h \in Seq(Chunks)
    BY <1>0, <2>3, <2>4, HitsAreSorted
  <2>6. /\ Len(answers) \in Nat /\ Len(answers') = Len(answers) + 1
        /\ DOMAIN answers = 1 .. Len(answers) /\ DOMAIN answers' = 1 .. Len(answers) + 1
        /\ answers'[Len(answers) + 1] = h
        /\ \A n \in 1 .. Len(answers) : answers'[n] = answers[n]
    BY <1>0, <2>3, <2>5
  <2>7. Last' = h
    BY <2>6 DEF Last
  <2>8. d \in DenseRanks' /\ t \in TextRanks' /\ h \in Hits(d, t)'
    BY <2>1, <2>3, SameChoices
  <2>9. t \in (TextLeg \cup {NoRanks})'
    <3>1. t \in TextLeg \cup {NoRanks}
      BY DEF TextRanks
    <3> QED
      BY <2>1, <3>1, SameChoices DEF NoRanks
  <2>10. SameQuestionSameAnswer'
    <3> SUFFICES ASSUME Determined
                 PROVE  \A m, n \in DOMAIN answers' : answers'[m] = answers'[n]
      BY <2>1, SameChoices DEF SameQuestionSameAnswer, Determined
    <3>1. \A m, n \in DOMAIN answers : answers[m] = answers[n]
      BY DEF Found, SameQuestionSameAnswer, Determined
    <3>2. ASSUME NEW m \in DOMAIN answers PROVE answers[m] = h
      <4>1. answers # <<>> /\ Len(answers) \in DOMAIN answers
        BY <1>0, <2>6, <3>2
      <4>2. dense \in DenseRanks /\ text \in TextRanks /\ Last \in Hits(dense, text)
        BY <4>1 DEF Found
      <4>3. dense = d
        BY <1>0, <4>2, OneDenseLeg
      <4>4. text = t
        BY <1>0, <4>2, OneTextLeg
      <4>5. Last = h
        BY <1>0, <2>3, <2>4, <4>2, <4>3, <4>4, OneAnswer
      <4> QED
        BY <3>1, <4>1, <4>5 DEF Last
    <3>3. \A n \in DOMAIN answers' : answers'[n] = h
      <4> SUFFICES ASSUME NEW n \in DOMAIN answers' PROVE answers'[n] = h
        OBVIOUS
      <4>1. CASE n \in 1 .. Len(answers)
        BY <2>6, <3>2, <4>1
      <4>2. CASE n = Len(answers) + 1
        BY <2>6, <4>2
      <4> QED
        BY <2>6, <4>1, <4>2
    <3> QED
      BY <3>3
  <2> QED
    BY <2>2, <2>7, <2>8, <2>9, <2>10 DEF Found, Hits
<1>2. CASE UNCHANGED vars
  <2>1. query' = query /\ dense' = dense /\ text' = text /\ answers' = answers
    BY <1>2 DEF vars
  <2>2. Last' = Last /\ Hits(dense, text)' = Hits(dense, text)
    <3>1. \A d, t : Hits(d, t)' = Hits(d, t)
      BY <2>1, SameChoices
    <3> QED
      BY <2>1, <3>1 DEF Last, Hits, Fused, ByScore, Score, Reciprocal, Less
  <2> QED
    BY <2>1, <2>2, SameChoices DEF Found, SameQuestionSameAnswer, Determined, NoRanks
<1> QED
  BY <1>1, <1>2 DEF Next

\* Both invariants hold in every reachable state.
THEOREM Provenance == Spec => [](IInv /\ Found)
<1>1. Init => IInv /\ Found
  BY IInvInit, FoundInit
<1>2. IInv /\ Found /\ [Next]_vars => (IInv /\ Found)'
  BY IInvNext, FoundNext
<1> QED
  BY <1>1, <1>2, PTL DEF Spec

\* Bounding the matches before ranking them changes no rank.
THEOREM PrelimitIsHarmless == Spec => []PrelimitKeepsRanks
<1>1. IInv /\ Found => PrelimitKeepsRanks
  <2> SUFFICES ASSUME IInv, Found PROVE PrelimitKeepsRanks
    OBVIOUS
  <2>1. CASE text \in TextLeg
    BY <2>1, TextRanksCount DEF IInv, PrelimitKeepsRanks
  <2>2. CASE text = NoRanks
    BY <2>2 DEF NoRanks, PrelimitKeepsRanks
  <2> QED
    BY <2>1, <2>2 DEF Found
<1> QED
  BY <1>1, Provenance, PTL

\* The id tiebreakers make a search repeatable unless the index scan has a choice.
THEOREM SearchIsRepeatable == Spec => []SameQuestionSameAnswer
<1>1. Found => SameQuestionSameAnswer
  BY DEF Found
<1> QED
  BY <1>1, Provenance, PTL

-----------------------------------------------------------------------------
(* What question answering and the evaluation rely on: the last answer is   *)
(* a list of the best chunks the legs found, best first and each once.      *)

ScoreOf(c) == Score(dense, text, c)

BestFirst ==
  \A i, j \in DOMAIN Last : i < j =>
    Last[i] # Last[j] /\ ~Less(ScoreOf(Last[i]), ScoreOf(Last[j]))

\* Only a full answer leaves a chunk out, and none that beats one it lists.
NothingBetterLeftOut ==
  \A c \in Fused(dense, text) \ {Last[i] : i \in DOMAIN Last} :
    /\ Len(Last) = query.limit
    /\ \A i \in DOMAIN Last : ~Less(ScoreOf(Last[i]), ScoreOf(c))

AnswersWithTheBest == answers # <<>> => BestFirst /\ NothingBetterLeftOut

\* A search answers with the best of what its legs found: the LIMIT cuts off
\* nothing that scores higher than what it keeps, and the order is that of the
\* scores.
THEOREM TheBestAreAnswered == Spec => []AnswersWithTheBest
<1>1. IInv /\ Found => AnswersWithTheBest
  <2> SUFFICES ASSUME IInv, Found, answers # <<>> PROVE BestFirst /\ NothingBetterLeftOut
    BY DEF AnswersWithTheBest
  <2> DEFINE order == ByScore(dense, text)
             R == Fused(dense, text)
  <2>1. query \in Queries /\ IsLeg(dense) /\ IsLeg(text) /\ R \in SUBSET Chunks
    BY DEF IInv, IsLeg, Fused
  <2>2. PICK S \in TopN(R, query.limit, order) : Last \in Listings(S, order)
    BY DEF Found, Hits
  <2>3. /\ S \in SUBSET R /\ S \in SUBSET Chunks
        /\ S # R => Cardinality(S) = query.limit
        /\ \A b \in R \ S, c \in S : <<b, c>> \notin order
    BY <2>1, <2>2 DEF TopN
  <2>4. IsFiniteSet(S) /\ Cardinality(S) \in Nat
    BY <2>3, FiniteChunks, FS_CardinalityType
  <2>5. /\ Last \in [1 .. Cardinality(S) -> S]
        /\ \A i, j \in 1 .. Cardinality(S) :
             i < j => Last[i] # Last[j] /\ <<Last[j], Last[i]>> \notin order
    BY <2>2 DEF Listings
  <2>6. Total(S, order)
    BY <2>1, <2>3, FiniteChunks, TotalOrders
  <2>7. \A b, c \in Chunks : <<b, c>> \notin order => ~Less(ScoreOf(c), ScoreOf(b))
    BY DEF ByScore, ScoreOf, Pairs
  <2> HIDE DEF order, R
  <2>8. BestFirst
    BY <2>3, <2>5, <2>7 DEF BestFirst
  <2>9. ASSUME NEW c \in S PROVE c \in {Last[i] : i \in DOMAIN Last}
    <3>1. PICK r \in RowNumbers(S, order) :
            \A i \in 1 .. Cardinality(S) : Last[i] \in S /\ r[Last[i]] = i
      BY <2>2, <2>4, <2>6, ListingNumbers
    <3>2. r[c] \in 1 .. Cardinality(S)
      BY <3>1 DEF RowNumbers
    <3>3. Last[r[c]] \in S /\ r[Last[r[c]]] = r[c]
      BY <3>1, <3>2
    <3>4. Last[r[c]] = c
      BY <3>1, <3>3 DEF RowNumbers
    <3> QED
      BY <2>5, <3>2, <3>4
  <2>10. Len(Last) = Cardinality(S)
    BY <2>4, <2>5
  <2>11. ASSUME NEW c \in R \ {Last[i] : i \in DOMAIN Last}
         PROVE  /\ Len(Last) = query.limit
                /\ \A i \in DOMAIN Last : ~Less(ScoreOf(Last[i]), ScoreOf(c))
    <3>1. c \notin S /\ c \in Chunks
      BY <2>1, <2>9, <2>11
    <3>2. S # R
      BY <2>11, <3>1
    <3>3. \A i \in DOMAIN Last : Last[i] \in S /\ Last[i] \in Chunks
      BY <2>3, <2>5
    <3> QED
      BY <2>3, <2>7, <2>10, <2>11, <3>1, <3>2, <3>3
  <2>12. NothingBetterLeftOut
    BY <2>11 DEF NothingBetterLeftOut, R
  <2> QED
    BY <2>8, <2>12
<1> QED
  BY <1>1, Provenance, PTL
=============================================================================
