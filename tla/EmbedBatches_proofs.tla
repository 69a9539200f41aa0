-------------------------- MODULE EmbedBatches_proofs --------------------------
(***************************************************************************)
(* The two promises of embedding, for any number of texts, batch size and   *)
(* number of attempts: vectors stay with their texts, and every call of the *)
(* service has its reason.                                                  *)
(***************************************************************************)
EXTENDS EmbedBatches, FiniteSetTheorems, SequenceTheorems, TLAPS

\* What the service may have answered when the adapter looks at it.
ReplyMatches ==
    pc = "reply" => reply \in Answers \cup [outcome : Transient \cup Permanent, data : {<<>>}]

\* The vectors of all texts before the current batch, in their order.
EmbeddedSoFar ==
    /\ Len(embeddings) = IF start <= texts THEN start ELSE texts
    /\ \A i \in DOMAIN embeddings :
           embeddings[i] = [text |-> i, dimension |-> "configured"]

\* There is a batch at hand from the first call for it on, and none at the end.
BatchAtHand ==
    /\ pc \in {"call", "reply", "failed"} => start < texts
    /\ pc = "call" => attempts < MaxRetries
    /\ pc = "done" => start >= texts

\* k batches are done, at no more than MaxRetries calls each.
CallsMatch ==
    \E k \in Nat :
        /\ start = BatchSize * k
        /\ pc \in {"batch", "done"} => Len(log) <= MaxRetries * k
        /\ pc \in {"call", "reply", "failed"} => Len(log) <= MaxRetries * k + attempts
        /\ k <= (texts + BatchSize - 1) \div BatchSize

Outcomes == {"ok"} \cup Transient \cup Permanent

LogEntries == [start : Nat, outcome : Outcomes]

\* The calls for the batch at hand, and those before it.
Current == IF pc \in {"batch", "done"} THEN 0 ELSE attempts
Earlier == Len(log) - Current

\* The log ends with the calls for the batch at hand, of which only the last
\* may have ended otherwise than in a transient failure, after one that
\* completed the batch before it.
LogEnds ==
    /\ Earlier \in Nat
    /\ \A i \in 1 .. Earlier : log[i].start < start
    /\ \A i \in Earlier + 1 .. Len(log) :
           log[i].start = start /\ (i < Len(log) => log[i].outcome \in Transient)
    /\ Earlier = 0 => start = 0
    /\ Earlier > 0 => log[Earlier].outcome = "ok" /\ log[Earlier].start + BatchSize = start
    /\ pc = "call" /\ attempts > 0 => log[Len(log)].outcome \in Transient
    /\ pc = "reply" => attempts > 0 /\ log[Len(log)].outcome = reply.outcome
    /\ pc = "failed" => attempts > 0 /\
           \/ status = "503" /\ attempts = MaxRetries /\ log[Len(log)].outcome \in Transient
           \/ status = "500" /\ log[Len(log)].outcome \notin Transient

\* Each call follows from the one before, and a batch has at most MaxRetries.
LogFollows ==
    /\ log # <<>> => log[1].start = 0
    /\ \A i \in 1 .. Len(log) - 1 :
           \/ log[i].outcome \in Transient /\ log[i + 1].start = log[i].start
           \/ log[i].outcome = "ok" /\ log[i + 1].start = log[i].start + BatchSize
    /\ \A i \in DOMAIN log : i > MaxRetries => log[i - MaxRetries].start # log[i].start

IInv ==
    /\ TypeOK /\ ReplyMatches /\ EmbeddedSoFar /\ BatchAtHand /\ CallsMatch
    /\ LogEnds /\ LogFollows

-----------------------------------------------------------------------------
(* Lists and counts.                                                        *)

\* 1 .. n has n elements.
LEMMA Counted ==
    ASSUME NEW n \in Nat
    PROVE  IsFiniteSet(1 .. n) /\ Cardinality(1 .. n) = n
  <1>1. 1 \in Int /\ n \in Int /\ (1 > n => n = 0) /\ n - 1 + 1 = n
    OBVIOUS
  <1>2. /\ IsFiniteSet(1 .. n)
        /\ Cardinality(1 .. n) = IF 1 > n THEN 0 ELSE n - 1 + 1
    BY ONLY <1>1, FS_Interval
  <1>. QED
    BY <1>1, <1>2

\* n increasing positions among n are the positions themselves.
LEMMA Increasing ==
    ASSUME NEW n \in Nat, NEW f \in [1 .. n -> 1 .. n],
           \A i, j \in 1 .. n : i < j => f[i] < f[j]
    PROVE  \A i \in 1 .. n : f[i] = i
  <1> SUFFICES ASSUME NEW i \in 1 .. n PROVE f[i] = i
    OBVIOUS
  <1>1. i <= f[i]
    <2> DEFINE g == [k \in 1 .. i |-> f[k]]
    <2>1. g \in Injection(1 .. i, 1 .. f[i])
      <3>1. \A k \in 1 .. i : f[k] \in 1 .. f[i]
        OBVIOUS
      <3>2. \A k, l \in 1 .. i : f[k] = f[l] => k = l
        OBVIOUS
      <3>. QED
        BY <3>1, <3>2 DEF Injection, IsInjective
    <2>2. i \in Nat /\ f[i] \in Nat
      OBVIOUS
    <2>3. Cardinality(1 .. i) <= Cardinality(1 .. f[i])
      <3>1. IsFiniteSet(1 .. f[i])
        BY <2>2, Counted
      <3> HIDE DEF g
      <3>. QED
        BY ONLY <2>1, <3>1, FS_Injection
    <2>. QED
      BY <2>2, <2>3, Counted
  <1>2. f[i] <= i
    <2> DEFINE g == [k \in 1 .. n - i + 1 |-> f[i + k - 1] - f[i] + 1]
    <2>1. g \in Injection(1 .. n - i + 1, 1 .. n - f[i] + 1)
      <3>1. \A k \in 1 .. n - i + 1 : i + k - 1 \in 1 .. n /\ i + k - 1 >= i
        OBVIOUS
      <3>2. \A k \in 1 .. n - i + 1 : f[i + k - 1] \in f[i] .. n
        BY <3>1
      <3>3. \A k \in 1 .. n - i + 1 : f[i + k - 1] - f[i] + 1 \in 1 .. n - f[i] + 1
        BY <3>2
      <3>4. \A k, l \in 1 .. n - i + 1 : k < l => f[i + k - 1] < f[i + l - 1]
        BY <3>1
      <3>5. \A k, l \in 1 .. n - i + 1 : g[k] = g[l] => k = l
        BY <3>2, <3>4
      <3>. QED
        BY <3>3, <3>5 DEF Injection, IsInjective
    <2>2. n - i + 1 \in Nat /\ n - f[i] + 1 \in Nat
      OBVIOUS
    <2>3. Cardinality(1 .. n - i + 1) <= Cardinality(1 .. n - f[i] + 1)
      <3>1. IsFiniteSet(1 .. n - f[i] + 1)
        BY <2>2, Counted
      <3> HIDE DEF g
      <3>. QED
        BY ONLY <2>1, <3>1, FS_Injection
    <2>. QED
      BY <2>2, <2>3, Counted
  <1>. QED
    BY <1>1, <1>2

-----------------------------------------------------------------------------
(* An answer.                                                               *)

\* The batch at hand: the positions after start.
LEMMA BatchIs ==
    ASSUME TypeOK, start < texts
    PROVE  /\ Len(Batch) \in Nat /\ DOMAIN Batch = 1 .. Len(Batch)
           /\ Len(Batch) = IF start + BatchSize <= texts THEN BatchSize ELSE texts - start
           /\ \A i \in 1 .. Len(Batch) : Batch[i] = start + i
  <1> DEFINE m == IF start + BatchSize <= texts THEN BatchSize ELSE texts - start
  <1>1. texts \in Nat /\ start \in Nat /\ BatchSize \in Nat
    BY TextCountsAssumption, BatchSizeAssumption DEF TypeOK
  <1>2. m \in Nat
    BY <1>1
  <1>3. Batch = [i \in 1 .. m |-> start + i]
    BY DEF Batch
  <1> HIDE DEF m
  <1>4. Len(Batch) = m
    BY <1>2, <1>3
  <1>. QED
    BY <1>2, <1>3, <1>4 DEF m

Item(i, odd, dimension) ==
    [index |-> i, text |-> IF i = 0 THEN 0 ELSE Batch[i],
     dimension |-> IF i = odd THEN dimension ELSE "configured"]

\* There is one item for each index answered.
LEMMA OneItemEach ==
    ASSUME NEW A, IsFiniteSet(A), NEW odd, NEW dimension
    PROVE  /\ IsFiniteSet(Items(A, odd, dimension))
           /\ Cardinality(Items(A, odd, dimension)) = Cardinality(A)
  <1> DEFINE f == [i \in A |-> Item(i, odd, dimension)]
             T == Items(A, odd, dimension)
  <1>1. T = {Item(i, odd, dimension) : i \in A}
    BY DEF Items, Item
  <1>2. \A i, j : Item(i, odd, dimension) = Item(j, odd, dimension) => i = j
    BY DEF Item
  <1>3. f \in [A -> T] /\ (\A i, j \in A : f[i] = f[j] => i = j)
        /\ \A x \in T : \E i \in A : f[i] = x
    BY <1>1, <1>2
  <1>4. f \in Bijection(A, T)
    BY <1>3 DEF Bijection, Injection, Surjection, IsInjective
  <1>. QED
    BY <1>4, FS_Bijection DEF ExistsBijection

\* As many items as the batch has texts are the items of the batch.
LEMMA FullAnswer ==
    ASSUME NEW n \in Nat, NEW A, A \subseteq 1 .. n \/ A = 1 .. n \cup {0},
           NEW odd, NEW dimension,
           NEW s \in SetToSeqs(Items(A, odd, dimension)), Len(s) = n
    PROVE  /\ s \in [1 .. n -> Items(1 .. n, odd, dimension)]
           /\ ToSet(s) = Items(1 .. n, odd, dimension)
  <1> DEFINE T == Items(A, odd, dimension)
  <1>1. IsFiniteSet(1 .. n) /\ Cardinality(1 .. n) = n
    BY Counted
  <1>2. IsFiniteSet(A)
    <2>1. CASE A \subseteq 1 .. n
      BY <1>1, <2>1, FS_Subset
    <2>2. CASE A = 1 .. n \cup {0}
      BY <1>1, <2>2, FS_AddElement
    <2>. QED
      BY <2>1, <2>2
  <1>3. IsFiniteSet(T) /\ Cardinality(T) = Cardinality(A) /\ Cardinality(A) \in Nat
    BY <1>2, OneItemEach, FS_CardinalityType
  <1>4. /\ s \in [1 .. Cardinality(T) -> T]
        /\ \A i, j \in 1 .. Cardinality(T) : i # j => s[i] # s[j]
    BY DEF SetToSeqs
  <1>5. Cardinality(T) = n
    BY <1>3, <1>4
  <1>6. A = 1 .. n
    <2>1. CASE A \subseteq 1 .. n
      BY <1>1, <1>3, <1>5, <2>1, FS_Subset
    <2>2. CASE A = 1 .. n \cup {0}
      <3>1. 0 \notin 1 .. n
        OBVIOUS
      <3>2. Cardinality(A) = n + 1
        BY <1>1, <2>2, <3>1, FS_AddElement
      <3>3. n = n + 1
        BY ONLY <1>3, <1>5, <3>2
      <3>. QED
        BY <3>3
    <2>. QED
      BY <2>1, <2>2
  <1> HIDE DEF T
  <1>7. s \in Injection(1 .. n, T)
    BY <1>4, <1>5 DEF Injection, IsInjective
  <1>8. s \in Surjection(1 .. n, T)
    BY <1>1, <1>3, <1>5, <1>7, FS_Injection
  <1>9. ToSet(s) = T
    BY <1>4, <1>5, <1>8 DEF Surjection, ToSet
  <1>. QED
    BY <1>4, <1>5, <1>6, <1>9 DEF T

\* Sorting the items of a batch puts the item of the k-th text at k.
LEMMA SortedItems ==
    ASSUME NEW n \in Nat, NEW odd, NEW dimension, NEW s, DOMAIN s = 1 .. n,
           ToSet(s) = Items(1 .. n, odd, dimension)
    PROVE  /\ DOMAIN SortedByIndex(s) = 1 .. n
           /\ \A k \in 1 .. n : SortedByIndex(s)[k] = Item(k, odd, dimension)
  <1> DEFINE T == Items(1 .. n, odd, dimension)
             Before(x) == {y \in T : y.index < x.index}
  <1>1. T = {Item(i, odd, dimension) : i \in 1 .. n}
    BY DEF Items, Item
  <1>2. \A i : Item(i, odd, dimension).index = i
    BY DEF Item
  <1>3. ASSUME NEW k \in 1 .. n
        PROVE  Cardinality(Before(Item(k, odd, dimension))) = k - 1
    <2>1. Before(Item(k, odd, dimension)) = {Item(i, odd, dimension) : i \in 1 .. k - 1}
      BY <1>1, <1>2
    <2>2. @ = Items(1 .. k - 1, odd, dimension)
      BY DEF Items, Item
    <2>3. k - 1 \in Nat
      OBVIOUS
    <2>4. IsFiniteSet(1 .. k - 1) /\ Cardinality(1 .. k - 1) = k - 1
      BY <2>3, Counted
    <2>. QED
      BY <2>1, <2>2, <2>4, OneItemEach
  <1>4. ASSUME NEW k \in 1 .. n
        PROVE  (CHOOSE x \in T : Cardinality(Before(x)) = k - 1) = Item(k, odd, dimension)
    <2>1. Item(k, odd, dimension) \in T
      BY <1>1
    <2>2. \A x \in T : Cardinality(Before(x)) = k - 1 => x = Item(k, odd, dimension)
      <3> SUFFICES ASSUME NEW i \in 1 .. n,
                          Cardinality(Before(Item(i, odd, dimension))) = k - 1
                   PROVE  i = k
        BY <1>1
      <3>. QED
        BY <1>3
    <2> HIDE DEF T, Before
    <2>. QED
      BY <1>3, <2>1, <2>2
  <1>5. SortedByIndex(s) =
            [k \in 1 .. n |-> CHOOSE x \in T : Cardinality(Before(x)) = k - 1]
    BY DEF SortedByIndex
  <1> HIDE DEF T, Before
  <1>. QED
    BY <1>4, <1>5

\* What is accepted of an answer is one vector for each text of the batch.
LEMMA AcceptedVectors ==
    ASSUME TypeOK, start < texts, reply \in Answers, Acceptable(Vectors(reply.data))
    PROVE  Vectors(reply.data) =
               [k \in 1 .. Len(Batch) |-> [text |-> start + k, dimension |-> "configured"]]
  <1> DEFINE n == Len(Batch)
             v == Vectors(reply.data)
  <1>1. n \in Nat /\ DOMAIN Batch = 1 .. n /\ \A i \in 1 .. n : Batch[i] = start + i
    BY BatchIs
  <1>2. PICK A \in (SUBSET (1 .. n)) \cup {1 .. n \cup {0}},
             odd \in 1 .. n, dimension \in Dimensions :
             /\ reply.data \in SetToSeqs(Items(A, odd, dimension))
             /\ provider = "ollama" => InOrder(reply.data)
    BY <1>1 DEF Answers
  <1>3. PICK ordered : /\ ordered = IF provider = "openai" THEN SortedByIndex(reply.data)
                                                           ELSE reply.data
                       /\ v = [i \in DOMAIN ordered |->
                                 [text |-> ordered[i].text, dimension |-> ordered[i].dimension]]
    BY DEF Vectors
  <1>4. DOMAIN ordered = DOMAIN reply.data
    BY <1>3 DEF SortedByIndex
  <1>5. /\ reply.data \in Seq(Items(A, odd, dimension))
        /\ DOMAIN reply.data = 1 .. Len(reply.data) /\ Len(reply.data) \in Nat
    <2>1. IsFiniteSet(A)
      <3>1. IsFiniteSet(1 .. n)
        BY <1>1, Counted
      <3>2. CASE A \subseteq 1 .. n
        BY <3>1, <3>2, FS_Subset
      <3>3. CASE A = 1 .. n \cup {0}
        BY <3>1, <3>3, FS_AddElement
      <3>. QED
        BY <3>2, <3>3
    <2>2. IsFiniteSet(Items(A, odd, dimension))
      BY ONLY <2>1, OneItemEach
    <2>3. Cardinality(Items(A, odd, dimension)) \in Nat
      BY <2>2, FS_CardinalityType
    <2>. QED
      BY <1>2, <2>3 DEF SetToSeqs
  <1>6. Len(v) = n /\ \A i \in DOMAIN v : v[i].dimension = "configured"
    BY DEF Acceptable
  <1>7. Len(v) = Len(reply.data)
    BY <1>3, <1>4, <1>5
  <1>8. /\ reply.data \in [1 .. n -> Items(1 .. n, odd, dimension)]
        /\ ToSet(reply.data) = Items(1 .. n, odd, dimension)
    <2>1. Len(reply.data) = n /\ (A \subseteq 1 .. n \/ A = 1 .. n \cup {0})
      <3>1. Len(reply.data) = n
        BY ONLY <1>6, <1>7
      <3>2. A \subseteq 1 .. n \/ A = 1 .. n \cup {0}
        BY ONLY A \in (SUBSET (1 .. n)) \cup {1 .. n \cup {0}}
      <3>. QED
        BY ONLY <3>1, <3>2
    <2>2. n \in Nat /\ reply.data \in SetToSeqs(Items(A, odd, dimension))
      BY ONLY <1>1, <1>2
    <2> HIDE DEF n
    <2>. QED
      BY ONLY <2>1, <2>2, FullAnswer
  <1>9. \A k \in 1 .. n : ordered[k] = Item(k, odd, dimension)
    <2>1. CASE provider = "openai"
      BY <1>1, <1>3, <1>8, <2>1, SortedItems
    <2>2. CASE provider = "ollama"
      <3> DEFINE f == [i \in 1 .. n |-> reply.data[i].index]
      <3>1. \A i \in 1 .. n : \E j \in 1 .. n : reply.data[i] = Item(j, odd, dimension)
        BY <1>8 DEF Items, Item
      <3>2. f \in [1 .. n -> 1 .. n]
            /\ \A i \in 1 .. n : reply.data[i] = Item(f[i], odd, dimension)
        <4>1. \A j : Item(j, odd, dimension).index = j
          BY DEF Item
        <4> SUFFICES ASSUME NEW i \in 1 .. n
                     PROVE  f[i] \in 1 .. n /\ reply.data[i] = Item(f[i], odd, dimension)
          OBVIOUS
        <4>2. PICK j \in 1 .. n : reply.data[i] = Item(j, odd, dimension)
          BY <3>1
        <4>. QED
          BY <4>1, <4>2
      <3>3. \A i, j \in 1 .. n : i < j => f[i] < f[j]
        BY <1>2, <1>8, <2>2 DEF InOrder
      <3> HIDE DEF f
      <3>4. \A i \in 1 .. n : f[i] = i
        BY <1>1, <3>2, <3>3, Increasing
      <3>. QED
        BY <1>3, <2>2, <3>2, <3>4
    <2>. QED
      BY <2>1, <2>2 DEF TypeOK
  <1>10. DOMAIN v = 1 .. n
    BY <1>3, <1>4, <1>8
  <1>11. \A k \in 1 .. n : v[k] = [text |-> start + k, dimension |-> "configured"]
    <2> SUFFICES ASSUME NEW k \in 1 .. n
                 PROVE  v[k] = [text |-> start + k, dimension |-> "configured"]
      OBVIOUS
    <2>1. v[k] = [text |-> ordered[k].text, dimension |-> ordered[k].dimension]
      BY <1>3, <1>10
    <2>2. ordered[k].text = start + k
      <3>1. k # 0 /\ Batch[k] = start + k
        BY <1>1
      <3>2. Item(k, odd, dimension).text = Batch[k]
        BY <3>1 DEF Item
      <3>. QED
        BY <1>9, <3>1, <3>2
    <2>3. v[k].dimension = "configured" /\ v[k].dimension = ordered[k].dimension
      BY <1>6, <1>10, <2>1
    <2>. QED
      BY <2>1, <2>2, <2>3
  <1>12. v = [k \in 1 .. n |-> v[k]]
    BY <1>3, <1>10
  <1>. QED
    BY <1>11, <1>12

\* What the service may answer depends on the batch and the adapter only.
LEMMA SameAnswers ==
    ASSUME UNCHANGED <<provider, texts, start>>
    PROVE  Answers' = Answers
  <1>1. Batch' = Batch
    BY DEF Batch
  <1>2. \A A, odd, dimension : Items(A, odd, dimension)' = Items(A, odd, dimension)
    BY <1>1 DEF Items
  <1>3. \A t : InOrder(t)' = InOrder(t)
    BY DEF InOrder
  <1>4. \A r : r \in Answers' <=> r \in Answers
    BY <1>1, <1>2, <1>3 DEF Answers
  <1>. QED
    BY <1>4

-----------------------------------------------------------------------------
(* Counting calls.                                                          *)

\* While texts are left after k batches, one batch more is due.
LEMMA BatchesDue ==
    ASSUME NEW n \in Nat, NEW b \in Nat \ {0}, NEW k \in Nat, b * k < n
    PROVE  k + 1 <= (n + b - 1) \div b
  <1> DEFINE q == (n + b - 1) \div b
  <1>1. /\ n + b - 1 \in Nat /\ q \in Nat /\ b * q \in Int
        /\ n + b - 1 < b * q + b
    OBVIOUS
  <1> HIDE DEF q
  <1>2. b * k \in Nat /\ b * k < b * q
    BY <1>1
  <1>3. CASE q <= k
    <2>1. b * (k - q) >= 0 /\ b * (k - q) = b * k - b * q
      BY <1>1, <1>3
    <2>. QED
      BY <1>1, <1>2, <2>1
  <1>. QED
    BY <1>1, <1>3 DEF q

\* Earlier the first batch no call was made.
LEMMA InitInv == Init => IInv
  <1> SUFFICES ASSUME Init PROVE IInv
    OBVIOUS
  <1> USE DEF Init
  <1>1. texts \in Nat
    BY TextCountsAssumption
  <1>2. TypeOK
    BY MaxRetriesAssumption DEF TypeOK, NoReply
  <1>3. ReplyMatches /\ BatchAtHand
    BY DEF ReplyMatches, BatchAtHand
  <1>4. EmbeddedSoFar
    BY <1>1 DEF EmbeddedSoFar
  <1>5. CallsMatch
    <2>1. (texts + BatchSize - 1) \div BatchSize \in Nat
      BY <1>1, BatchSizeAssumption
    <2>2. start = BatchSize * 0 /\ Len(log) <= MaxRetries * 0
      BY BatchSizeAssumption, MaxRetriesAssumption
    <2>. QED
      BY <2>1, <2>2 DEF CallsMatch
  <1>6. LogEnds /\ LogFollows
    BY <1>1 DEF LogEnds, LogFollows, Current, Earlier
  <1>. QED
    BY <1>2, <1>3, <1>4, <1>5, <1>6 DEF IInv

\* A call adds its entry to the log, and each other step only moves the line
\* between the batch at hand and those before it.
LEMMA NextLog == ASSUME IInv, [Next]_vars PROVE LogEnds' /\ LogFollows'
  <1>0. /\ BatchSize \in Nat \ {0} /\ MaxRetries \in Nat \ {0}
        /\ start \in Nat /\ attempts \in 0 .. MaxRetries
        /\ log \in Seq(LogEntries) /\ Len(log) \in Nat /\ DOMAIN log = 1 .. Len(log)
        /\ \A i \in 1 .. Len(log) : log[i].start \in Nat
    <2>1. log \in Seq(LogEntries)
      BY DEF IInv, TypeOK, LogEntries, Outcomes
    <2>2. \A i \in 1 .. Len(log) : log[i] \in LogEntries
      BY <2>1
    <2>. QED
      BY <2>1, <2>2, BatchSizeAssumption, MaxRetriesAssumption DEF IInv, TypeOK, LogEntries
  <1>1. LogEnds /\ LogFollows /\ BatchAtHand
    BY DEF IInv
  <1>2. ASSUME log' = log PROVE LogFollows'
    BY <1>1, <1>2 DEF LogFollows
  <1>3. CASE NextBatch
    <2>1. /\ pc = "batch" /\ pc' \in {"call", "done"} /\ attempts' = 0 /\ log' = log
          /\ start' = start
      BY <1>3 DEF NextBatch
    <2>2. Current = 0 /\ Current' = 0 /\ Earlier = Len(log) /\ Earlier' = Len(log)
      BY <1>0, <2>1 DEF Current, Earlier
    <2>3. LogEnds'
      BY <1>0, <1>1, <2>1, <2>2 DEF LogEnds
    <2>. QED
      BY <1>2, <2>1, <2>3
  <1>4. CASE Call
    <2> DEFINE n == Len(log)
               e == [start |-> start, outcome |-> reply'.outcome]
    <2>1. /\ pc = "call" /\ pc' = "reply" /\ attempts' = attempts + 1 /\ start' = start
          /\ log' = Append(log, e)
      BY <1>4 DEF Call
    <2>2. reply'.outcome \in Outcomes
      BY <1>4 DEF Call, Answers, Outcomes
    <2>3. e \in LogEntries /\ e.start = start /\ e.outcome = reply'.outcome
      BY <1>0, <2>2 DEF LogEntries
    <2> HIDE DEF e
    <2>4. /\ Len(log') = n + 1 /\ DOMAIN log' = 1 .. n + 1 /\ log'[n + 1] = e
          /\ \A i \in 1 .. n : log'[i] = log[i]
      BY <1>0, <2>1, <2>3
    <2>5. attempts < MaxRetries
      BY <1>1, <2>1 DEF BatchAtHand
    <2>6. Current = attempts /\ Current' = attempts + 1 /\ Earlier' = Earlier
          /\ Earlier = n - attempts /\ Earlier \in Nat
      BY <1>0, <1>1, <2>1, <2>4 DEF Current, Earlier, LogEnds
    <2>7. ASSUME NEW i \in Earlier + 1 .. n
          PROVE  log[i].start = start /\ log[i].outcome \in Transient
      <3>1. log[i].start = start /\ (i < n => log[i].outcome \in Transient)
        BY <1>1, <2>7 DEF LogEnds
      <3>2. attempts > 0
        BY <1>0, <2>6, <2>7
      <3>3. log[n].outcome \in Transient
        BY <1>1, <2>1, <3>2 DEF LogEnds
      <3>4. i = n \/ i < n
        <4>1. Earlier \in Int /\ n \in Int
          BY <1>0, <2>6
        <4>. QED
          BY <2>7, <4>1
      <3>. QED
        BY <3>1, <3>3, <3>4
    <2>8. LogEnds'
      <3>0. Earlier \in Nat /\ n \in Nat /\ Earlier <= n
        BY <1>0, <2>6
      <3>1. ASSUME NEW i \in 1 .. Earlier PROVE log'[i].start < start
        <4>1. i \in 1 .. n
          BY ONLY <3>0, <3>1, i \in 1 .. Earlier
        <4>2. log[i].start < start
          BY <1>1 DEF LogEnds
        <4>. QED
          BY <2>4, <4>1, <4>2
      <3>2. ASSUME NEW i \in Earlier + 1 .. n + 1
            PROVE  log'[i].start = start /\ (i < n + 1 => log'[i].outcome \in Transient)
        <4>1. CASE i = n + 1
          BY <2>3, <2>4, <3>0, <4>1
        <4>2. CASE i # n + 1
          <5>1. i \in 1 .. n /\ i \in Earlier + 1 .. n
            BY ONLY <3>0, <4>2, i \in Earlier + 1 .. n + 1
          <5>. QED
            BY <2>4, <2>7, <5>1
        <4>. QED
          BY <4>1, <4>2
      <3>3. Earlier > 0 => log'[Earlier] = log[Earlier]
        BY <1>0, <2>4, <2>6
      <3>4. /\ Earlier = 0 => start = 0
            /\ Earlier > 0 => log[Earlier].outcome = "ok" /\ log[Earlier].start + BatchSize = start
        BY <1>1 DEF LogEnds
      <3>5. attempts' > 0 /\ log'[Len(log')].outcome = reply'.outcome
        BY <1>0, <2>1, <2>3, <2>4
      <3>6. /\ \A i \in 1 .. Earlier' : log'[i].start < start'
            /\ \A i \in Earlier' + 1 .. Len(log') :
                   log'[i].start = start' /\ (i < Len(log') => log'[i].outcome \in Transient)
            /\ Earlier' = 0 => start' = 0
            /\ Earlier' > 0 =>
                   log'[Earlier'].outcome = "ok" /\ log'[Earlier'].start + BatchSize = start'
        BY <2>1, <2>4, <2>6, <3>1, <3>2, <3>3, <3>4
      <3>. QED
        BY <2>1, <2>6, <3>5, <3>6 DEF LogEnds
    <2>9. LogFollows'
      <3>1. log'[1].start = 0
        <4>1. CASE n = 0
          <5>1. Earlier = 0
            BY <1>0, <2>6, <4>1
          <5>. QED
            BY <1>1, <2>3, <2>4, <4>1, <5>1 DEF LogEnds
        <4>2. CASE n > 0
          <5>1. 1 \in 1 .. n /\ log # <<>>
            BY <1>0, <4>2
          <5>. QED
            BY <1>1, <2>4, <5>1 DEF LogFollows
        <4>. QED
          BY <1>0, <4>1, <4>2
      <3>2. ASSUME NEW i \in 1 .. n
            PROVE  \/ log'[i].outcome \in Transient /\ log'[i + 1].start = log'[i].start
                   \/ log'[i].outcome = "ok" /\ log'[i + 1].start = log'[i].start + BatchSize
        <4>1. CASE i < n
          <5>1. i \in 1 .. n - 1 /\ log'[i] = log[i] /\ log'[i + 1] = log[i + 1]
            BY <1>0, <2>4, <4>1
          <5>. QED
            BY <1>1, <5>1 DEF LogFollows
        <4>2. CASE i = n
          <5>1. CASE attempts > 0
            <6>1. n \in Earlier + 1 .. n
              BY <1>0, <2>6, <4>2, <5>1
            <6>. QED
              BY <1>0, <2>3, <2>4, <2>7, <4>2, <6>1
          <5>2. CASE attempts = 0
            <6>1. Earlier = n
              BY <1>0, <2>6, <5>2
            <6>. QED
              BY <1>0, <1>1, <2>3, <2>4, <4>2, <6>1 DEF LogEnds
          <5>. QED
            BY <1>0, <5>1, <5>2
        <4>3. i < n \/ i = n
          <5>1. n \in Nat /\ i \in 1 .. n
            BY <1>0
          <5> HIDE DEF n
          <5>. QED
            BY ONLY <5>1
        <4>. QED
          BY <4>1, <4>2, <4>3
      <3>3. ASSUME NEW i \in 1 .. n + 1, i > MaxRetries
            PROVE  log'[i - MaxRetries].start # log'[i].start
        <4>1. i - MaxRetries \in 1 .. n
          BY <1>0, <3>3
        <4>2. CASE i <= n
          <5>1. i \in 1 .. n
            BY <1>0, <4>2
          <5>. QED
            BY <1>0, <1>1, <2>4, <3>3, <4>1, <5>1 DEF LogFollows
        <4>3. CASE i = n + 1
          <5>1. i - MaxRetries \in 1 .. Earlier
            BY <1>0, <2>5, <2>6, <4>1, <4>3
          <5>2. log[i - MaxRetries].start < start
            BY <1>1, <5>1 DEF LogEnds
          <5>. QED
            BY <1>0, <2>3, <2>4, <4>1, <4>3, <5>2
        <4>. QED
          BY <1>0, <4>2, <4>3
      <3>. QED
        BY <1>0, <2>4, <3>1, <3>2, <3>3 DEF LogFollows
    <2>. QED
      BY <2>8, <2>9
  <1>5. CASE Retry
    <2>1. /\ pc = "reply" /\ pc' = "call" /\ log' = log /\ start' = start
          /\ attempts' = attempts /\ reply.outcome \in Transient
      BY <1>5 DEF Retry, IsTransient
    <2>2. Current' = Current /\ Earlier' = Earlier
      BY <2>1 DEF Current, Earlier
    <2>3. LogEnds'
      BY <1>0, <1>1, <2>1, <2>2 DEF LogEnds
    <2>. QED
      BY <1>2, <2>1, <2>3
  <1>6. CASE GiveUp \/ FailFast \/ Refuse
    <2>1. /\ pc = "reply" /\ pc' = "failed" /\ log' = log /\ start' = start
          /\ attempts' = attempts
          /\ \/ status' = "503" /\ attempts = MaxRetries /\ reply.outcome \in Transient
             \/ status' = "500" /\ reply.outcome \notin Transient
      BY <1>6 DEF GiveUp, FailFast, Refuse, Fail, IsTransient, Transient
    <2>2. Current' = Current /\ Earlier' = Earlier
      BY <2>1 DEF Current, Earlier
    <2>3. LogEnds'
      BY <1>0, <1>1, <2>1, <2>2 DEF LogEnds
    <2>. QED
      BY <1>2, <2>1, <2>3
  <1>7. CASE Accept
    <2>1. /\ pc = "reply" /\ pc' = "batch" /\ log' = log /\ start' = start + BatchSize
          /\ reply.outcome = "ok"
      BY <1>7 DEF Accept
    <2>2. Earlier = Len(log) - attempts /\ Earlier \in Nat /\ attempts > 0
      BY <1>1, <2>1 DEF Current, Earlier, LogEnds
    <2>3. Earlier' = Len(log) /\ Len(log) > 0
      BY <1>0, <2>1, <2>2 DEF Current, Earlier
    <2>4. log[Len(log)].outcome = "ok"
      BY <1>1, <2>1 DEF LogEnds
    <2>5. Len(log) \in Earlier + 1 .. Len(log)
      BY <1>0, <2>2
    <2>6. log[Len(log)].start = start
      BY <1>1, <2>5 DEF LogEnds
    <2>7. ASSUME NEW i \in 1 .. Len(log) PROVE log[i].start < start + BatchSize
      <3>1. log[i].start <= start
        <4>1. i \in 1 .. Earlier \/ i \in Earlier + 1 .. Len(log)
          BY <1>0, <2>2, <2>7
        <4>. QED
          BY <1>0, <1>1, <4>1 DEF LogEnds
      <3>. QED
        BY <1>0, <3>1
    <2>8. /\ Earlier' \in Nat
          /\ \A i \in 1 .. Earlier' : log'[i].start < start'
          /\ Earlier' + 1 .. Len(log') = {}
          /\ Earlier' # 0
          /\ log'[Earlier'].outcome = "ok" /\ log'[Earlier'].start + BatchSize = start'
      <3>1. Len(log) + 1 .. Len(log) = {}
        BY <1>0
      <3>. QED
        BY <1>0, <2>1, <2>3, <2>4, <2>6, <2>7, <3>1
    <2>9. LogEnds'
      <3>1. pc' = "batch"
        BY <2>1
      <3>. QED
        BY <2>8, <3>1 DEF LogEnds
    <2>. QED
      BY <1>2, <2>1, <2>9
  <1>8. CASE UNCHANGED vars
    BY <1>1, <1>8 DEF vars, LogEnds, LogFollows, Current, Earlier
  <1>. QED
    BY <1>3, <1>4, <1>5, <1>6, <1>7, <1>8 DEF Next

\* Each step of the loop keeps the invariant.
LEMMA NextInv == IInv /\ [Next]_vars => IInv'
  <1> DEFINE Loop == TypeOK /\ ReplyMatches /\ EmbeddedSoFar /\ BatchAtHand /\ CallsMatch
  <1> SUFFICES ASSUME IInv, [Next]_vars PROVE Loop'
    BY NextLog DEF IInv
  <1>0. /\ texts \in Nat /\ BatchSize \in Nat \ {0} /\ MaxRetries \in Nat \ {0}
        /\ start \in Nat /\ Len(log) \in Nat /\ attempts \in Nat
    BY TextCountsAssumption, BatchSizeAssumption, MaxRetriesAssumption DEF IInv, TypeOK
  <1>1. CASE NextBatch
    <2> USE <1>1 DEF NextBatch, IInv
    <2>1. TypeOK'
      BY <1>0 DEF TypeOK
    <2>2. ReplyMatches' /\ BatchAtHand'
      BY <1>0 DEF ReplyMatches, BatchAtHand
    <2>3. EmbeddedSoFar'
      BY DEF EmbeddedSoFar
    <2>4. CallsMatch'
      <3>1. PICK k \in Nat : /\ start = BatchSize * k /\ Len(log) <= MaxRetries * k
                             /\ k <= (texts + BatchSize - 1) \div BatchSize
        BY DEF CallsMatch
      <3>2. MaxRetries * k \in Nat
        BY <1>0
      <3>3. Len(log) <= MaxRetries * k + 0
        BY <1>0, <3>1, <3>2
      <3>. QED
        BY <3>1, <3>3 DEF CallsMatch
    <2>. QED
      BY <2>1, <2>2, <2>3, <2>4
  <1>2. CASE Call
    <2> USE <1>2 DEF Call, IInv
    <2>1. PICK r \in Answers \cup [outcome : Transient \cup Permanent, data : {<<>>}] :
              reply' = r
      OBVIOUS
    <2>2. TypeOK'
      <3>1. r.outcome \in {"ok"} \cup Transient \cup Permanent
        BY DEF Answers
      <3>2. log' \in Seq([start : Nat, outcome : {"ok"} \cup Transient \cup Permanent])
        BY <1>0, <2>1, <3>1 DEF TypeOK
      <3>. QED
        BY <1>0, <2>1, <3>1, <3>2 DEF TypeOK, BatchAtHand
    <2>3. ReplyMatches'
      BY <2>1, SameAnswers DEF ReplyMatches
    <2>4. BatchAtHand' /\ EmbeddedSoFar'
      BY DEF BatchAtHand, EmbeddedSoFar
    <2>5. CallsMatch'
      <3>1. PICK k \in Nat : /\ start = BatchSize * k /\ Len(log) <= MaxRetries * k + attempts
                             /\ k <= (texts + BatchSize - 1) \div BatchSize
        BY DEF CallsMatch
      <3>2. MaxRetries * k \in Nat
        BY <1>0
      <3>3. Len(log') <= MaxRetries * k + (attempts + 1)
        <4>1. Len(log') = Len(log) + 1
          BY DEF TypeOK
        <4>. QED
          BY <1>0, <3>1, <3>2, <4>1
      <3>. QED
        BY <3>1, <3>3 DEF CallsMatch
    <2>. QED
      BY <2>2, <2>3, <2>4, <2>5
  <1>3. CASE Retry
    <2> USE <1>3 DEF Retry, IInv
    <2>1. TypeOK' /\ ReplyMatches' /\ BatchAtHand'
      BY DEF TypeOK, ReplyMatches, BatchAtHand
    <2>2. EmbeddedSoFar' /\ CallsMatch'
      BY DEF EmbeddedSoFar, CallsMatch
    <2>. QED
      BY <2>1, <2>2
  <1>4. ASSUME NEW code \in {"500", "503"}, Fail(code), pc = "reply"
        PROVE  Loop'
    <2> USE <1>4 DEF Fail, IInv
    <2>1. TypeOK' /\ ReplyMatches' /\ BatchAtHand'
      BY DEF TypeOK, ReplyMatches, BatchAtHand
    <2>2. EmbeddedSoFar' /\ CallsMatch'
      BY DEF EmbeddedSoFar, CallsMatch
    <2>. QED
      BY <2>1, <2>2
  <1>5. CASE Accept
    <2> USE <1>5 DEF Accept, IInv
    <2> DEFINE n == Len(Batch)
    <2>1. start < texts
      BY DEF BatchAtHand
    <2>2. reply \in Answers
      BY DEF ReplyMatches, Transient, Permanent
    <2>3. /\ n \in Nat
          /\ n = IF start + BatchSize <= texts THEN BatchSize ELSE texts - start
      BY <2>1, BatchIs
    <2>4. Vectors(reply.data) =
              [k \in 1 .. n |-> [text |-> start + k, dimension |-> "configured"]]
      BY <2>1, <2>2, AcceptedVectors
    <2>5. /\ embeddings \in Seq([text : 1 .. texts, dimension : {"configured"}])
          /\ Len(embeddings) = start
          /\ \A i \in 1 .. start : embeddings[i] = [text |-> i, dimension |-> "configured"]
      BY <1>0, <2>1 DEF TypeOK, EmbeddedSoFar
    <2> HIDE DEF n
    <2>6. /\ Len(embeddings') = start + n
          /\ embeddings' \in Seq([text : 1 .. texts, dimension : {"configured"}])
          /\ \A i \in DOMAIN embeddings' :
                 embeddings'[i] = [text |-> i, dimension |-> "configured"]
      <3> DEFINE w == [k \in 1 .. n |-> [text |-> start + k, dimension |-> "configured"]]
                 E == [text : 1 .. texts, dimension : {"configured"}]
      <3>1. embeddings' = embeddings \o w
        BY <2>4
      <3>2. \A k \in 1 .. n : start + k \in 1 .. texts
        BY <1>0, <2>1, <2>3
      <3>3. w \in Seq(E) /\ Len(w) = n
            /\ \A k \in 1 .. n : w[k] = [text |-> start + k, dimension |-> "configured"]
        <4>1. w \in [1 .. n -> E]
          BY <3>2
        <4>2. \A k \in 1 .. n : w[k] = [text |-> start + k, dimension |-> "configured"]
          OBVIOUS
        <4> HIDE DEF w, E
        <4>3. w \in Seq(E) /\ Len(w) = n
          BY ONLY <2>3, <4>1
        <4>. QED
          BY <4>2, <4>3
      <3> HIDE DEF w, E
      <3>4. embeddings \in Seq(E)
        BY <2>5 DEF E
      <3>5. embeddings' \in Seq(E) /\ Len(embeddings') = start + n
        BY ONLY <2>5, <3>1, <3>3, <3>4, ConcatProperties
      <3>6. \A i \in 1 .. start + n :
                embeddings'[i] = IF i <= start THEN embeddings[i] ELSE w[i - start]
        BY ONLY <1>0, <2>3, <2>5, <3>1, <3>3, <3>4, ConcatProperties
      <3>7. ASSUME NEW i \in 1 .. start + n
            PROVE  embeddings'[i] = [text |-> i, dimension |-> "configured"]
        <4>1. CASE i <= start
          BY <1>0, <2>5, <3>6, <4>1
        <4>2. CASE i > start
          <5>1. i - start \in 1 .. n /\ start + (i - start) = i
            BY <1>0, <2>3, <4>2
          <5>2. embeddings'[i] = w[i - start]
            BY ONLY <1>0, <2>3, <3>6, <4>2, i \in 1 .. start + n
          <5>. QED
            BY <3>3, <5>1, <5>2
        <4>. QED
          BY ONLY <1>0, <2>3, <4>1, <4>2, i \in 1 .. start + n
      <3>8. DOMAIN embeddings' = 1 .. start + n
        BY <3>5
      <3>. QED
        BY <3>5, <3>7, <3>8 DEF E
    <2>7. TypeOK'
      BY <1>0, <2>6 DEF TypeOK
    <2>8. ReplyMatches' /\ BatchAtHand'
      BY DEF ReplyMatches, BatchAtHand
    <2>9. EmbeddedSoFar'
      BY <1>0, <2>1, <2>3, <2>6 DEF EmbeddedSoFar
    <2>10. CallsMatch'
      <3>1. PICK k \in Nat : /\ start = BatchSize * k /\ Len(log) <= MaxRetries * k + attempts
                             /\ k <= (texts + BatchSize - 1) \div BatchSize
        BY DEF CallsMatch
      <3>2. k + 1 <= (texts + BatchSize - 1) \div BatchSize
        BY <1>0, <2>1, <3>1, BatchesDue
      <3>3. /\ BatchSize * (k + 1) = BatchSize * k + BatchSize
            /\ MaxRetries * (k + 1) = MaxRetries * k + MaxRetries
            /\ BatchSize * k \in Nat /\ MaxRetries * k \in Nat
        BY <1>0
      <3>4. attempts <= MaxRetries
        BY <1>0 DEF TypeOK
      <3>5. start' = BatchSize * (k + 1) /\ Len(log') <= MaxRetries * (k + 1)
        BY <1>0, <3>1, <3>3, <3>4
      <3>6. k + 1 \in Nat /\ pc' = "batch" /\ texts' = texts
        OBVIOUS
      <3>. QED
        BY <3>2, <3>5, <3>6 DEF CallsMatch
    <2>. QED
      BY <2>7, <2>8, <2>9, <2>10
  <1>6. CASE UNCHANGED vars
    <2>1. (ReplyMatches /\ TypeOK)'
      BY <1>6, SameAnswers DEF vars, IInv, TypeOK, ReplyMatches
    <2>. QED
      BY <1>6, <2>1 DEF vars, IInv, EmbeddedSoFar, BatchAtHand, CallsMatch
  <1>. QED
    BY <1>1, <1>2, <1>3, <1>4, <1>5, <1>6 DEF Next, GiveUp, FailFast, Refuse

\* The invariant holds in every reachable state.
THEOREM Invariance == Spec => []IInv
  BY InitInv, NextInv, PTL DEF Spec

\* Type correctness: in particular no batch is tried more often than allowed.
THEOREM TypeCorrect == Spec => []TypeOK
  <1>1. IInv => TypeOK
    BY DEF IInv
  <1>. QED
    BY <1>1, Invariance, PTL

\* Whatever the service drops, pads or reorders, vector i is that of chunk i.
THEOREM VectorsStayWithTheirTexts == Spec => []EmbeddingsMatchTexts
  <1>1. IInv => EmbeddingsMatchTexts
    <2> SUFFICES ASSUME IInv PROVE EmbeddingsMatchTexts
      OBVIOUS
    <2>1. texts \in Nat /\ start \in Nat
      BY TextCountsAssumption DEF IInv, TypeOK
    <2>. QED
      BY <2>1 DEF IInv, EmbeddingsMatchTexts, EmbeddedSoFar, BatchAtHand
  <1>. QED
    BY <1>1, Invariance, PTL

\* However the batches fail, the calls of an upload are bounded by its length.
LEMMA CallBudget == IInv => Len(log) <= CallsPerUpload(texts)
  <1> SUFFICES ASSUME IInv PROVE Len(log) <= CallsPerUpload(texts)
    OBVIOUS
  <1> DEFINE q == (texts + BatchSize - 1) \div BatchSize
  <1>1. /\ texts \in Nat /\ BatchSize \in Nat \ {0} /\ MaxRetries \in Nat \ {0}
        /\ Len(log) \in Nat /\ attempts \in 0 .. MaxRetries
    BY TextCountsAssumption, BatchSizeAssumption, MaxRetriesAssumption DEF IInv, TypeOK
  <1>2. q \in Nat
    BY <1>1
  <1>3. PICK k \in Nat :
            /\ start = BatchSize * k /\ k <= q
            /\ pc \in {"batch", "done"} => Len(log) <= MaxRetries * k
            /\ pc \in {"call", "reply", "failed"} => Len(log) <= MaxRetries * k + attempts
    BY DEF IInv, CallsMatch
  <1>4. \E j \in Nat : j <= q /\ Len(log) <= MaxRetries * j
    <2>1. CASE pc \in {"batch", "done"}
      BY <1>3, <2>1
    <2>2. CASE pc \in {"call", "reply", "failed"}
      <3>1. k + 1 <= q
        BY <1>1, <1>3, <2>2, BatchesDue DEF IInv, BatchAtHand
      <3>2. MaxRetries * (k + 1) = MaxRetries * k + MaxRetries /\ MaxRetries * k \in Nat
        BY <1>1
      <3>. QED
        BY <1>1, <1>3, <2>2, <3>1, <3>2
    <2>. QED
      BY <2>1, <2>2 DEF IInv, TypeOK
  <1> HIDE DEF q
  <1>5. PICK j \in Nat : j <= q /\ Len(log) <= MaxRetries * j
    BY <1>4
  <1>6. MaxRetries * j <= MaxRetries * q
    <2>1. MaxRetries * (q - j) >= 0 /\ MaxRetries * (q - j) = MaxRetries * q - MaxRetries * j
      BY <1>1, <1>2, <1>5
    <2>. QED
      BY <1>1, <1>2, <2>1
  <1>7. Len(log) <= MaxRetries * q
    BY <1>1, <1>2, <1>5, <1>6
  <1>. QED
    BY <1>7 DEF q, CallsPerUpload

\* Every call has its reason: retries after transient failures only, as many as
\* allowed and no fewer before an upload is given up, each batch in its turn.
THEOREM CallsAreExplained == Spec => []CallsAreAccountedFor
  <1>1. IInv => CallsAreAccountedFor
    <2> SUFFICES ASSUME IInv PROVE CallsAreAccountedFor
      OBVIOUS
    <2>1. /\ BatchSize \in Nat \ {0} /\ MaxRetries \in Nat \ {0} /\ texts \in Nat
          /\ start \in Nat /\ attempts \in 0 .. MaxRetries
          /\ log \in Seq(LogEntries) /\ Len(log) \in Nat /\ DOMAIN log = 1 .. Len(log)
      BY TextCountsAssumption, BatchSizeAssumption, MaxRetriesAssumption
      DEF IInv, TypeOK, LogEntries, Outcomes
    <2>2. LogEnds /\ LogFollows /\ BatchAtHand
      BY DEF IInv
    <2>3. ASSUME pc = "failed"
          PROVE  \/ /\ status = "503" /\ Len(log) >= MaxRetries
                    /\ \A i \in Len(log) - MaxRetries + 1 .. Len(log) :
                           log[i] \in [start : {start}, outcome : Transient]
                 \/ status = "500" /\ log # <<>> /\ log[Len(log)].outcome \notin Transient
      <3>1. Earlier = Len(log) - attempts /\ Earlier \in Nat /\ attempts > 0
        BY <2>2, <2>3 DEF LogEnds, Current, Earlier
      <3>2. CASE status = "500" /\ log[Len(log)].outcome \notin Transient
        BY <2>1, <3>1, <3>2
      <3>3. CASE status = "503" /\ attempts = MaxRetries /\ log[Len(log)].outcome \in Transient
        <4>1. ASSUME NEW i \in Len(log) - MaxRetries + 1 .. Len(log)
              PROVE  log[i] \in [start : {start}, outcome : Transient]
          <5>1. i \in Earlier + 1 .. Len(log) /\ i \in 1 .. Len(log)
            BY <2>1, <3>1, <3>3
          <5>2. log[i].start = start /\ log[i].outcome \in Transient
            BY <2>1, <2>2, <3>3, <5>1 DEF LogEnds
          <5>3. log[i] \in LogEntries
            BY <2>1, <5>1
          <5>. QED
            BY <5>2, <5>3 DEF LogEntries
        <4>. QED
          BY <2>1, <3>1, <3>3, <4>1
      <3>. QED
        BY <2>2, <2>3, <3>2, <3>3 DEF LogEnds
    <2>4. ASSUME pc = "done"
          PROVE  IF log = <<>> THEN texts = 0
                 ELSE log[Len(log)].outcome = "ok" /\ log[Len(log)].start + BatchSize >= texts
      <3>1. Earlier = Len(log) /\ start >= texts
        BY <2>1, <2>2, <2>4 DEF Current, Earlier, BatchAtHand
      <3>2. CASE log = <<>>
        BY <2>1, <2>2, <3>1, <3>2 DEF LogEnds
      <3>3. CASE log # <<>>
        <4>1. Earlier > 0
          BY <2>1, <3>1, <3>3
        <4>. QED
          BY <2>1, <2>2, <3>1, <3>3, <4>1 DEF LogEnds
      <3>. QED
        BY <3>2, <3>3
    <2>. QED
      BY <2>2, <2>3, <2>4, CallBudget DEF LogFollows, CallsAreAccountedFor
  <1>. QED
    BY <1>1, Invariance, PTL
=============================================================================
