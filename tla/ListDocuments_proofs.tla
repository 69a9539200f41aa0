------------------------- MODULE ListDocuments_proofs -------------------------
(***************************************************************************)
(* A walk through the pages loses no document, and totals are consistent   *)
(* with the pages, for any documents, instants, page size and failures.    *)
(***************************************************************************)
EXTENDS ListDocuments, FiniteSetTheorems, SequenceTheorems, TLAPS

Ahead(d) == {e \in Committed : Newer(e, d)}

\* The rows of the listing before the row of d.
Position(d) == Cardinality(Ahead(d))

Items == {read.items[i] : i \in DOMAIN read.items}

\* A document of the start that is not returned is beyond the client's offset,
\* and the client has not been told that it has everything.
StillToCome ==
  \A d \in atStart \ Returned :
    /\ Position(d) >= offset
    /\ total # Unknown => offset < total

\* What a page read leaves out is beyond the page, and the total read later
\* counts it.
LeftOut ==
  \A d \in (atStart \ Returned) \ Items :
    /\ request \in {2, 3} => Position(d) >= offset + limit
    /\ request = 3 => offset + limit < read.total

\* A page ends within the documents there were when it was read, and the pages
\* of the walk together are no longer than what the client has skipped.
PageWithin ==
  /\ Len(walked) <= offset /\ Len(walked) <= Cardinality(Committed)
  /\ request \in {2, 3} /\ read.items # <<>> =>
       offset + Len(read.items) <= Cardinality(Committed)
  /\ request = 3 => read.total \in Nat

IInv == TypeOK /\ StillToCome /\ LeftOut /\ PageWithin /\ TotalCoversPage

-----------------------------------------------------------------------------
(* The order of a listing.                                                  *)

\* Documents are finitely many, and so are those ahead of one.
LEMMA Finite ==
  ASSUME TypeOK
  PROVE  /\ IsFiniteSet(Committed) /\ Cardinality(Committed) \in Nat
         /\ \A d : IsFiniteSet(Ahead(d)) /\ Position(d) \in Nat
<1>1. IsFiniteSet(Committed)
  BY ListAssumption, FS_Subset DEF TypeOK
<1>2. ASSUME NEW d PROVE IsFiniteSet(Ahead(d))
  BY <1>1, FS_Subset DEF Ahead
<1> QED
  BY <1>1, <1>2, FS_CardinalityType DEF Position

\* A document is not ahead of itself.
LEMMA PositionWithin ==
  ASSUME TypeOK, NEW d \in Committed
  PROVE  Position(d) < Cardinality(Committed)
<1>1. d \notin Ahead(d)
  <2>1. created[d] \in Nat /\ d \in Nat
    BY ListAssumption DEF TypeOK
  <2> QED
    BY <2>1 DEF Ahead, Newer
<1>2. Ahead(d) \subseteq Committed /\ Ahead(d) # Committed
  BY <1>1 DEF Ahead
<1>3. Position(d) <= Cardinality(Committed) /\ Position(d) # Cardinality(Committed)
  BY <1>2, Finite, FS_Subset DEF Position
<1> QED
  BY <1>3, Finite

\* 1 .. n has n elements.
LEMMA Counted ==
  ASSUME NEW n \in Nat
  PROVE  IsFiniteSet(1 .. n) /\ Cardinality(1 .. n) = n
<1>1. 1 \in Int /\ n \in Int /\ (1 > n => n = 0) /\ n - 1 + 1 = n
  OBVIOUS
<1>2. /\ IsFiniteSet(1 .. n)
      /\ Cardinality(1 .. n) = IF 1 > n THEN 0 ELSE n - 1 + 1
  BY ONLY <1>1, FS_Interval
<1> QED
  BY <1>1, <1>2

\* A listing has every document, at its position.
LEMMA ListedAtPosition ==
  ASSUME TypeOK, NEW s \in Listings, NEW d \in Committed
  PROVE  /\ Position(d) + 1 \in 1 .. Cardinality(Committed)
         /\ s[Position(d) + 1] = d
<1> DEFINE n == Cardinality(Committed)
<1>1. n \in Nat /\ IsFiniteSet(1 .. n) /\ Cardinality(1 .. n) = n /\ IsFiniteSet(Committed)
  BY Finite, Counted
<1>2. /\ s \in [1 .. n -> Committed]
      /\ \A i, j \in 1 .. n : i < j => s[i] # s[j] /\ ~Newer(s[j], s[i])
  BY DEF Listings
<1>3. \A e \in Committed : created[e] \in Nat /\ e \in Nat
  BY ListAssumption DEF TypeOK
<1> HIDE DEF n
<1>4. s \in Injection(1 .. n, Committed)
  BY <1>1, <1>2 DEF Injection, IsInjective
<1>5. s \in Surjection(1 .. n, Committed)
  BY <1>1, <1>4, FS_Injection DEF n
<1>6. PICK i \in 1 .. n : s[i] = d
  BY <1>5 DEF Surjection
<1>7. Ahead(d) = {s[j] : j \in 1 .. i - 1}
  <2>1. ASSUME NEW j \in 1 .. i - 1 PROVE s[j] \in Ahead(d)
    <3>1. j \in 1 .. n /\ j < i
      BY <1>1
    <3>2. s[j] \in Committed /\ s[j] # d /\ ~Newer(d, s[j])
      BY <1>2, <1>6, <3>1
    <3> QED
      BY <1>3, <3>2 DEF Ahead, Newer
  <2>2. ASSUME NEW e \in Ahead(d) PROVE \E j \in 1 .. i - 1 : e = s[j]
    <3>1. e \in Committed /\ Newer(e, d)
      BY DEF Ahead
    <3>2. PICK j \in 1 .. n : s[j] = e
      BY <1>5, <3>1 DEF Surjection
    <3>3. ~(i < j)
      BY <1>2, <1>6, <3>1, <3>2
    <3>4. i # j
      BY <1>3, <1>6, <3>1, <3>2 DEF Newer
    <3> QED
      BY <1>1, <3>2, <3>3, <3>4
  <2> QED
    BY <2>1, <2>2
<1>8. Position(d) = i - 1
  <2> DEFINE g == [j \in 1 .. i - 1 |-> s[j]]
  <2>1. g \in Bijection(1 .. i - 1, Ahead(d))
    <3>1. \A j, k \in 1 .. i - 1 : s[j] = s[k] => j = k
      BY <1>1, <1>2
    <3>2. g \in [1 .. i - 1 -> Ahead(d)] /\ \A e \in Ahead(d) : \E j \in 1 .. i - 1 : g[j] = e
      BY <1>7
    <3> QED
      BY <3>1, <3>2 DEF Bijection, Injection, Surjection, IsInjective
  <2>2. i - 1 \in Nat
    BY <1>1
  <2> HIDE DEF g
  <2>3. ExistsBijection(1 .. i - 1, Ahead(d))
    BY <2>1 DEF ExistsBijection
  <2> QED
    BY <2>2, <2>3, Counted, FS_Bijection DEF Position
<1> QED
  BY <1>1, <1>6, <1>8 DEF n

\* Positions are the numbers below the number of documents, so that there are
\* k documents at positions below k.
LEMMA FirstPositions ==
  ASSUME TypeOK, NEW k \in 0 .. Cardinality(Committed)
  PROVE  Cardinality({d \in Committed : Position(d) < k}) = k
<1> DEFINE n == Cardinality(Committed)
           f == [d \in Committed |-> Position(d) + 1]
           P == {d \in Committed : Position(d) < k}
<1>1. n \in Nat /\ IsFiniteSet(1 .. n) /\ Cardinality(1 .. n) = n /\ IsFiniteSet(Committed)
      /\ \A d : Position(d) \in Nat /\ IsFiniteSet(Ahead(d))
  BY Finite, Counted
<1>2. \A e \in Committed : created[e] \in Nat /\ e \in Nat
  BY ListAssumption DEF TypeOK
<1>3. ASSUME NEW d \in Committed, NEW e \in Committed, Newer(e, d)
      PROVE  Position(e) < Position(d)
  <2>1. Ahead(e) \subseteq Ahead(d)
    BY <1>2, <1>3 DEF Ahead, Newer
  <2>2. e \in Ahead(d) /\ e \notin Ahead(e)
    BY <1>2, <1>3 DEF Ahead, Newer
  <2>3. Position(e) <= Position(d) /\ Position(e) # Position(d)
    BY <1>1, <2>1, <2>2, FS_Subset DEF Position
  <2> QED
    BY <1>1, <2>3
<1>4. \A d, e \in Committed : d # e => Position(d) # Position(e)
  <2> SUFFICES ASSUME NEW d \in Committed, NEW e \in Committed, d # e
               PROVE  Position(d) # Position(e)
    OBVIOUS
  <2>1. Newer(e, d) \/ Newer(d, e)
    BY <1>2 DEF Newer
  <2>2. Position(e) < Position(d) \/ Position(d) < Position(e)
    BY <1>3, <2>1
  <2> QED
    BY <1>1, <2>2
<1>5. f \in Injection(Committed, 1 .. n)
  <2>1. \A d \in Committed : Position(d) + 1 \in 1 .. n
    BY <1>1, PositionWithin
  <2>2. \A d, e \in Committed : f[d] = f[e] => d = e
    BY <1>1, <1>4
  <2> QED
    BY <2>1, <2>2 DEF Injection, IsInjective
<1>6. \A i \in 1 .. n : \E d \in Committed : f[d] = i
  <2>1. Cardinality(Committed) = Cardinality(1 .. n) /\ IsFiniteSet(1 .. n)
    BY <1>1
  <2> HIDE DEF f, n
  <2>2. f \in Surjection(Committed, 1 .. n)
    BY ONLY <1>5, <2>1, FS_Injection
  <2> QED
    BY ONLY <2>2 DEF Surjection
<1>7. k \in Nat /\ 1 .. k \subseteq 1 .. n
  BY <1>1
<1> DEFINE g == [d \in P |-> Position(d) + 1]
<1>8. g \in Bijection(P, 1 .. k)
  <2>1. \A d \in P : Position(d) + 1 \in 1 .. k
    BY <1>1, <1>7
  <2>2. \A d, e \in P : g[d] = g[e] => d = e
    BY <1>1, <1>4
  <2>3. \A i \in 1 .. k : \E d \in P : g[d] = i
    <3> SUFFICES ASSUME NEW i \in 1 .. k PROVE \E d \in P : g[d] = i
      OBVIOUS
    <3>1. PICK d \in Committed : Position(d) + 1 = i
      BY <1>6, <1>7
    <3>2. d \in P
      BY <1>1, <1>7, <3>1
    <3> QED
      BY <3>1, <3>2
  <2> QED
    BY <2>1, <2>2, <2>3 DEF Bijection, Injection, Surjection, IsInjective
<1>9. IsFiniteSet(P)
  BY <1>1, FS_Subset
<1> HIDE DEF g, P
<1>10. ExistsBijection(P, 1 .. k)
  BY <1>8 DEF ExistsBijection
<1>11. Cardinality(P) = Cardinality(1 .. k)
  BY <1>9, <1>10, FS_Bijection
<1> QED
  BY <1>7, <1>11, Counted DEF P

\* A page has the documents at the positions from the offset to the limit, and
\* ends within the listing.
LEMMA PageOfListing ==
  ASSUME TypeOK, NEW s \in Listings
  PROVE  /\ Page(s) \in Seq(Committed) /\ Len(Page(s)) <= limit
         /\ Page(s) # <<>> => offset + Len(Page(s)) <= Cardinality(Committed)
         /\ \A d \in Committed :
              offset <= Position(d) /\ Position(d) < offset + limit =>
                \E i \in DOMAIN Page(s) : Page(s)[i] = d
<1> DEFINE n == Cardinality(Committed)
           m == IF offset + limit < n THEN offset + limit ELSE n
<1>1. n \in Nat /\ offset \in Nat /\ limit \in Nat \ {0} /\ m \in Nat /\ m <= n
  BY Finite, ListAssumption DEF TypeOK
<1>2. s \in [1 .. n -> Committed]
  BY DEF Listings
<1>3. s \in Seq(Committed) /\ Len(s) = n
  BY <1>1, <1>2
<1>4. Page(s) = SubSeq(s, offset + 1, m)
  BY <1>3 DEF Page, Rows
<1> HIDE DEF n, m
<1>5. /\ Page(s) \in Seq(Committed)
      /\ Len(Page(s)) = IF offset + 1 <= m THEN m - offset ELSE 0
      /\ \A i \in 1 .. m - offset : Page(s)[i] = s[offset + i]
  BY <1>1, <1>3, <1>4
<1>6. Len(Page(s)) <= limit
  BY <1>1, <1>5 DEF m
<1>7. Page(s) # <<>> => offset + Len(Page(s)) <= n
  BY <1>1, <1>5
<1>8. ASSUME NEW d \in Committed, offset <= Position(d), Position(d) < offset + limit
      PROVE  \E i \in DOMAIN Page(s) : Page(s)[i] = d
  <2>1. Position(d) + 1 \in 1 .. n /\ s[Position(d) + 1] = d /\ Position(d) \in Nat
    BY ListedAtPosition, Finite DEF n
  <2>2. Position(d) + 1 <= m
    BY <1>1, <1>8, <2>1 DEF m
  <2> DEFINE i == Position(d) + 1 - offset
  <2>3. i \in 1 .. m - offset /\ offset + i = Position(d) + 1 /\ offset + 1 <= m
    BY <1>1, <1>8, <2>1, <2>2
  <2> HIDE DEF i
  <2>4. Page(s)[i] = d /\ i \in DOMAIN Page(s)
    BY <1>1, <1>5, <2>1, <2>3
  <2> QED
    BY <2>4
<1> QED
  BY <1>5, <1>6, <1>7, <1>8 DEF n

\* A commit moves no document forward.
LEMMA PositionGrows ==
  ASSUME TypeOK, TypeOK', NEW c \in Documents, Commit(c), NEW d \in Committed
  PROVE  /\ Position(d)' >= Position(d)
         /\ Cardinality(Committed)' >= Cardinality(Committed)
<1>1. PICK at \in Instants :
        created' = [e \in Committed \cup {c} |-> IF e = c THEN at ELSE created[e]]
  BY DEF Commit
<1>2. /\ Committed' = Committed \cup {c} /\ c \notin Committed
      /\ \A e \in Committed : created'[e] = created[e]
  BY <1>1 DEF Commit, Committed
<1>3. Ahead(d) \subseteq Ahead(d)'
  BY <1>2 DEF Ahead, Newer
<1>4. IsFiniteSet(Committed') /\ IsFiniteSet(Ahead(d)')
  <2>1. IsFiniteSet(Committed')
    BY Finite, <1>2, FS_AddElement
  <2>2. Ahead(d)' \subseteq Committed'
    BY DEF Ahead
  <2> QED
    BY <2>1, <2>2, FS_Subset
<1>5. Cardinality(Ahead(d)) <= Cardinality(Ahead(d)')
  BY <1>3, <1>4, FS_Subset
<1>6. Cardinality(Committed) <= Cardinality(Committed')
  BY <1>2, <1>4, FS_Subset
<1>7. /\ Cardinality(Ahead(d)) \in Nat /\ Cardinality(Ahead(d)') \in Nat
      /\ Cardinality(Committed) \in Nat /\ Cardinality(Committed') \in Nat
  BY Finite, <1>4, FS_CardinalityType DEF Position
<1> QED
  BY <1>5, <1>6, <1>7 DEF Position

-----------------------------------------------------------------------------
(* The inductive invariant.                                                 *)

\* Before the first page everything is still to come.
LEMMA InitInv == Init => IInv
<1> SUFFICES ASSUME Init PROVE IInv
  OBVIOUS
<1>1. PICK S \in SUBSET Documents : created \in [S -> Instants]
  BY DEF Init
<1>2. TypeOK
  BY <1>1, ListAssumption DEF Init, TypeOK, Nothing, Unknown, Committed
<1>3. StillToCome
  BY <1>2, Finite DEF Init, StillToCome
<1>4. LeftOut /\ PageWithin /\ TotalCoversPage
  BY <1>2, Finite DEF Init, LeftOut, PageWithin, TotalCoversPage
<1> QED
  BY <1>2, <1>3, <1>4 DEF IInv

\* Each step of the client, the request and the uploads keeps the invariant.
LEMMA NextInv == IInv /\ [Next]_vars => IInv'
<1> SUFFICES ASSUME IInv, [Next]_vars PROVE IInv'
  OBVIOUS
<1> USE DEF IInv
<1>0. /\ limit \in Nat /\ offset \in Nat /\ Cardinality(Committed) \in Nat
      /\ \A d : Position(d) \in Nat
  BY ListAssumption, Finite DEF TypeOK
<1>1. ASSUME NEW c \in Documents, Commit(c) PROVE IInv'
  <2>1. PICK at \in Instants :
          created' = [e \in Committed \cup {c} |-> IF e = c THEN at ELSE created[e]]
    BY <1>1 DEF Commit
  <2>2. /\ request' = request /\ read' = read /\ limit' = limit /\ offset' = offset
        /\ walked' = walked /\ total' = total /\ atStart' = atStart /\ failures' = failures
    BY <1>1 DEF Commit, client
  <2>3. Committed' = Committed \cup {c} /\ \A e \in Committed' : created'[e] \in Instants
    BY <2>1 DEF Committed, TypeOK
  <2>4. TypeOK'
    <3>1. \A t \in Seq(Committed) : t \in Seq(Committed')
      BY <2>3, SeqMonotonic
    <3>2. walked' \in Seq(Committed')
          /\ read' \in [items : Seq(Committed'), total : Nat \cup {Unknown}]
      BY <2>2, <3>1 DEF TypeOK
    <3> QED
      BY <1>1, <2>2, <2>3, <3>2 DEF TypeOK, Unknown
  <2>5. Cardinality(Committed') >= Cardinality(Committed)
        /\ Cardinality(Committed') \in Nat
    <3>1. IsFiniteSet(Committed') /\ Cardinality(Committed') \in Nat
      BY <2>4, <2>3, Finite, FS_AddElement, FS_CardinalityType
    <3> QED
      BY <1>0, <2>3, <3>1, FS_Subset
  <2>6. \A d \in Committed : Position(d)' \in Nat /\ Position(d)' >= Position(d)
    <3> SUFFICES ASSUME NEW d \in Committed
                 PROVE  Position(d)' \in Nat /\ Position(d)' >= Position(d)
      OBVIOUS
    <3>1. Position(d)' >= Position(d)
      BY <1>1, <2>4, PositionGrows
    <3>2. Position(d)' \in Nat
      <4>1. IsFiniteSet(Committed')
        BY <2>3, Finite, FS_AddElement
      <4>2. IsFiniteSet(Ahead(d)')
        BY <4>1, FS_Subset DEF Ahead
      <4> QED
        BY <4>2, FS_CardinalityType DEF Position
    <3> QED
      BY <3>1, <3>2
  <2>7. Returned' = Returned /\ Items' = Items /\ atStart \subseteq Committed
    BY <2>2 DEF Returned, Items, TypeOK
  <2>8. StillToCome'
    BY <1>0, <2>2, <2>6, <2>7 DEF StillToCome, Unknown
  <2>9. LeftOut'
    BY <1>0, <2>2, <2>6, <2>7 DEF LeftOut
  <2>10. PageWithin' /\ TotalCoversPage'
    <3>1. Len(read.items) \in Nat /\ Len(walked) \in Nat
      BY DEF TypeOK
    <3> QED
      BY <1>0, <2>2, <2>5, <3>1 DEF PageWithin, TotalCoversPage
  <2> QED
    BY <2>4, <2>8, <2>9, <2>10
<1>2. CASE Ask
  <2> USE <1>2 DEF Ask, client
  <2>1. TypeOK'
    BY DEF TypeOK, Committed
  <2>2. Returned' = Returned /\ Committed' = Committed /\ \A d : Position(d)' = Position(d)
    BY DEF Returned, Committed, Position, Ahead, Newer
  <2> QED
    BY <2>1, <2>2 DEF StillToCome, LeftOut, PageWithin, TotalCoversPage
<1>3. CASE Execute
  <2> USE <1>3 DEF Execute, client
  <2>1. request \in {1, 2} /\ request' = request + 1
    BY DEF Statements
  <2>2. Returned' = Returned /\ Committed' = Committed /\ \A d : Position(d)' = Position(d)
    BY DEF Returned, Committed, Position, Ahead, Newer
  <2>3. StillToCome'
    BY <2>2 DEF StillToCome
  <2>4. CASE request = 1
    <3>1. PICK s \in Listings : read' = [read EXCEPT !.items = Page(s)]
      BY <2>4 DEF Statements
    <3>2. read'.items = Page(s) /\ read'.total = read.total
      BY <3>1 DEF TypeOK
    <3>3. /\ Page(s) \in Seq(Committed) /\ Len(Page(s)) <= limit
          /\ Page(s) # <<>> => offset + Len(Page(s)) <= Cardinality(Committed)
          /\ \A d \in Committed :
               offset <= Position(d) /\ Position(d) < offset + limit =>
                 \E i \in DOMAIN Page(s) : Page(s)[i] = d
      BY PageOfListing
    <3>4. TypeOK'
      BY <2>1, <2>2, <3>1, <3>2, <3>3 DEF TypeOK
    <3>5. LeftOut'
      <4> SUFFICES ASSUME NEW d \in (atStart \ Returned) \ Items'
                   PROVE  Position(d) >= offset + limit
        BY <2>1, <2>2, <2>4 DEF LeftOut
      <4>1. d \in Committed /\ Position(d) >= offset
        BY DEF TypeOK, StillToCome
      <4>2. ~ \E i \in DOMAIN Page(s) : Page(s)[i] = d
        BY <3>2 DEF Items
      <4> QED
        BY <1>0, <3>3, <4>1, <4>2
    <3>6. PageWithin' /\ TotalCoversPage'
      BY <2>1, <2>2, <2>4, <3>2, <3>3 DEF PageWithin, TotalCoversPage
    <3> QED
      BY <2>3, <3>4, <3>5, <3>6
  <2>5. CASE request = 2
    <3>1. read' = [read EXCEPT !.total = Cardinality(Committed)]
      BY <2>5 DEF Statements
    <3>2. read'.items = read.items /\ read'.total = Cardinality(Committed)
      BY <3>1 DEF TypeOK
    <3>3. TypeOK'
      BY <1>0, <2>1, <2>2, <3>1, <3>2 DEF TypeOK
    <3>4. LeftOut'
      <4> SUFFICES ASSUME NEW d \in (atStart \ Returned) \ Items
                   PROVE  /\ Position(d) >= offset + limit
                          /\ offset + limit < Cardinality(Committed)
        BY <2>1, <2>2, <3>2 DEF LeftOut, Items
      <4>1. d \in Committed /\ Position(d) >= offset + limit
        BY <2>5 DEF TypeOK, LeftOut
      <4> QED
        BY <1>0, <4>1, PositionWithin
    <3>5. PageWithin' /\ TotalCoversPage'
      <4>1. /\ walked' = walked /\ offset' = offset
            /\ read.items # <<>> => offset + Len(read.items) <= Cardinality(Committed)
            /\ Len(walked) <= offset /\ Len(walked) <= Cardinality(Committed)
        BY <2>5 DEF PageWithin
      <4> QED
        BY ONLY <1>0, <2>2, <3>2, <4>1 DEF PageWithin, TotalCoversPage
    <3> QED
      BY <2>3, <3>3, <3>4, <3>5
  <2> QED
    BY <2>1, <2>4, <2>5
<1>4. CASE Respond
  <2> USE <1>4 DEF Respond
  <2>1. Committed' = Committed /\ \A d : Position(d)' = Position(d)
    BY DEF Committed, Position, Ahead, Newer
  <2>2. /\ walked \in Seq(Committed) /\ read.items \in Seq(Committed)
        /\ read.total \in Nat
    BY DEF TypeOK, PageWithin
  <2>3. TypeOK'
    <3>1. walked' \in Seq(Committed)
      BY <2>2, ConcatProperties
    <3> QED
      BY <1>0, <2>1, <2>2, <3>1 DEF TypeOK, Nothing, Unknown
  <2>4. Returned \cup Items \subseteq Returned'
    <3> DEFINE a == Len(walked)
               b == Len(read.items)
    <3>1. a \in Nat /\ b \in Nat /\ DOMAIN walked = 1 .. a /\ DOMAIN read.items = 1 .. b
      BY <2>2, LenProperties
    <3>2. /\ DOMAIN walked' = 1 .. a + b
          /\ \A i \in 1 .. a + b : walked'[i] = IF i <= a THEN walked[i] ELSE read.items[i - a]
      BY <2>2, ConcatProperties, LenProperties
    <3> HIDE DEF a, b
    <3>3. ASSUME NEW i \in 1 .. a PROVE walked[i] \in Returned'
      <4>1. i \in 1 .. a + b /\ walked'[i] = walked[i]
        BY <3>1, <3>2
      <4> QED
        BY <3>2, <4>1 DEF Returned
    <3>4. ASSUME NEW i \in 1 .. b PROVE read.items[i] \in Returned'
      <4>1. a + i \in 1 .. a + b /\ ~(a + i <= a) /\ (a + i) - a = i
        BY <3>1
      <4>2. walked'[a + i] = read.items[i]
        BY <3>2, <4>1
      <4> QED
        BY <3>2, <4>1, <4>2 DEF Returned
    <3> QED
      BY <3>1, <3>3, <3>4 DEF Returned, Items
  <2>5. StillToCome'
    <3> SUFFICES ASSUME NEW d \in atStart \ Returned'
                 PROVE  Position(d) >= offset + limit /\ offset + limit < read.total
      BY <2>1 DEF StillToCome
    <3>1. d \in (atStart \ Returned) \ Items
      BY <2>4
    <3> QED
      BY <3>1 DEF LeftOut
  <2>6. LeftOut' /\ TotalCoversPage'
    BY DEF LeftOut, TotalCoversPage
  <2>7. PageWithin'
    <3>1. /\ Len(walked') = Len(walked) + Len(read.items)
          /\ Len(walked) \in Nat /\ Len(read.items) \in Nat
          /\ read.items = <<>> => Len(read.items) = 0
      BY <2>2, ConcatProperties, LenProperties
    <3> QED
      BY <1>0, <2>1, <3>1 DEF PageWithin, TypeOK
  <2> QED
    BY <2>3, <2>5, <2>6, <2>7
<1>5. CASE Unavailable
  <2> USE <1>5 DEF Unavailable, client
  <2>1. TypeOK'
    BY ListAssumption DEF TypeOK, Committed, Nothing, Unknown
  <2>2. Returned' = Returned /\ Committed' = Committed /\ \A d : Position(d)' = Position(d)
    BY DEF Returned, Committed, Position, Ahead, Newer
  <2> QED
    BY <2>1, <2>2 DEF StillToCome, LeftOut, PageWithin, TotalCoversPage
<1>6. CASE UNCHANGED vars
  <2> USE <1>6 DEF vars, client
  <2>1. Returned' = Returned /\ Committed' = Committed /\ Items' = Items
        /\ \A d : Position(d)' = Position(d)
    BY DEF Returned, Committed, Items, Position, Ahead, Newer
  <2>2. TypeOK'
    BY <2>1 DEF TypeOK
  <2> QED
    BY <2>1, <2>2 DEF StillToCome, LeftOut, PageWithin, TotalCoversPage
<1> QED
  BY <1>1, <1>2, <1>3, <1>4, <1>5, <1>6 DEF Next

\* The invariant holds in every reachable state.
THEOREM Invariance == Spec => []IInv
  BY InitInv, NextInv, PTL DEF Spec

\* Type correctness of the listing: pages are lists of stored documents.
THEOREM TypeCorrect == Spec => []TypeOK
<1>1. IInv => TypeOK
  BY DEF IInv
<1> QED
  BY <1>1, Invariance, PTL

\* A walk that ends has returned all there was when it began.
THEOREM WalkIsComplete == Spec => []NoDocumentIsSkipped
<1>1. IInv => NoDocumentIsSkipped
  <2> SUFFICES ASSUME IInv, WalkIsOver, NEW d \in atStart, d \notin Returned
               PROVE  FALSE
    BY DEF NoDocumentIsSkipped
  <2>1. offset < total /\ offset >= total /\ offset \in Nat /\ total \in Nat
    BY DEF IInv, TypeOK, StillToCome, WalkIsOver
  <2> QED
    BY <2>1
<1> QED
  BY <1>1, Invariance, PTL

\* A walk repeats no more documents than were committed during it.
THEOREM RepeatsAreBounded == Spec => []RepeatsAreCommits
<1>1. IInv => RepeatsAreCommits
  <2> SUFFICES ASSUME IInv PROVE RepeatsAreCommits
    OBVIOUS
  <2> DEFINE n == Cardinality(Committed)
             k == IF offset < n THEN offset ELSE n
             P == {d \in Committed : Position(d) < k}
             New == Committed \ atStart
  <2>1. /\ TypeOK /\ offset \in Nat /\ n \in Nat /\ k \in 0 .. n /\ IsFiniteSet(Committed)
        /\ Len(walked) \in Nat /\ \A d : Position(d) \in Nat
    BY Finite DEF IInv, TypeOK
  <2>2. Len(walked) <= k
    BY <2>1 DEF IInv, PageWithin
  <2>3. Cardinality(P) = k
    BY <2>1, FirstPositions
  <2>4. P \cap atStart \subseteq Returned
    BY <2>1 DEF IInv, StillToCome
  <2>5. Returned \subseteq Committed
    BY DEF IInv, TypeOK, Returned
  <2> HIDE DEF n, k, P, New
  <2>6. /\ IsFiniteSet(P) /\ IsFiniteSet(New) /\ IsFiniteSet(Returned)
        /\ IsFiniteSet(P \cap atStart)
    BY <2>1, <2>5, FS_Subset DEF P, New
  <2>7. /\ Cardinality(P) \in Nat /\ Cardinality(New) \in Nat
        /\ Cardinality(Returned) \in Nat /\ Cardinality(P \cap atStart) \in Nat
    BY <2>6, FS_CardinalityType
  <2>8. Cardinality(P \ atStart) = Cardinality(P) - Cardinality(P \cap atStart)
    BY <2>6, FS_Difference
  <2>9. Cardinality(P \cap atStart) <= Cardinality(Returned)
    BY <2>4, <2>6, FS_Subset
  <2>10. Cardinality(P \ atStart) <= Cardinality(New)
    <3>1. P \ atStart \subseteq New
      BY DEF P, New
    <3> QED
      BY <2>6, <3>1, FS_Subset
  <2> QED
    BY <2>1, <2>2, <2>3, <2>7, <2>8, <2>9, <2>10 DEF RepeatsAreCommits, New
<1> QED
  BY <1>1, Invariance, PTL

\* A total counts at least the documents up to the end of its page.
THEOREM TotalAgreesWithPage == Spec => []TotalCoversPage
<1>1. IInv => TotalCoversPage
  BY DEF IInv
<1> QED
  BY <1>1, Invariance, PTL
=============================================================================
