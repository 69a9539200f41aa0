-------------------------- MODULE Sequential_proofs ---------------------------
(***************************************************************************)
(* The two computations nothing else interferes with.                      *)
(*                                                                         *)
(* Chunking, for every text and all parameters: no chunk exceeds the       *)
(* ceiling, every cut of an over-long paragraph leaves less to cut, no      *)
(* character is lost, each chunk starts with the end of the one before and *)
(* adds text of its own, and a call fails only where blanks fill a chunk.  *)
(*                                                                         *)
(* The evaluation command, whatever the dataset, the scores, the baseline  *)
(* and the step that fails: the threshold it finds is the best there is,   *)
(* its ranks count documents, it leaves no container, and it touches the   *)
(* reports of an earlier run only after the gate.                          *)
(***************************************************************************)
EXTENDS ChunkText, EvaluationRun, FiniteSetTheorems, SequenceTheorems, WellFoundedInduction,
        TLAPS

-----------------------------------------------------------------------------
(* Chunking.                                                               *)

\* Inside the loop the parameters are consistent, and only the sliver merge
\* lengthens a chunk beyond max_chars.
IInv ==
    /\ TypeOK
    /\ pc \notin {"start", "value_error"} => ConsistentParameters
    /\ pc = "start" => chunks = <<>> /\ current = <<>>
    /\ pc = "sliver" => /\ \A i \in DOMAIN chunks : Len(chunks[i]) <= max_chars
                       /\ Len(current) <= max_chars
    /\ ChunksAreBounded

-----------------------------------------------------------------------------
(* Strings.                                                                *)

\* The overlap is a suffix no longer than overlap_chars.
LEMMA CarriedLength ==
    ASSUME max_chars \in Int, overlap_chars \in Int, ConsistentParameters, NEW s \in Seq(Int)
    PROVE  Carried(s) \in Seq(Int) /\ Len(Carried(s)) <= overlap_chars
  BY DEF Carried, ConsistentParameters

\* Reading a paragraph leaves paragraphs.
LEMMA HeadTail ==
    ASSUME NEW s \in Seq(Seq(Int)), s # <<>>
    PROVE  Head(s) \in Seq(Int) /\ Tail(s) \in Seq(Seq(Int))
  OBVIOUS

\* A join adds the separator, two characters.
LEMMA JoinLength ==
    ASSUME NEW s \in Seq(Int), NEW t \in Seq(Int)
    PROVE  Join(s, t) \in Seq(Int) /\ Len(Join(s, t)) = Len(s) + 2 + Len(t)
  BY DEF Join

\* The ceiling of a merge: a chunk of at most m, a separator, fewer than f.
LEMMA SliverMergeBound ==
    \A a, b, m, f \in Int : a <= m /\ b < f => a + 2 + b <= m + f + 1
  OBVIOUS

\* A cut: the head has max_chars characters, and what is left is the overlap and the rest.
LEMMA CutLength ==
    ASSUME max_chars \in Int, overlap_chars \in Int, ConsistentParameters,
           NEW s \in Seq(Int), Len(s) > max_chars
    PROVE  LET head == SubSeq(s, 1, max_chars)
               rest == SubSeq(s, max_chars + 1, Len(s))
           IN  /\ head \in Seq(Int) /\ Len(head) = max_chars
               /\ Carried(head) \o rest \in Seq(Int)
               /\ Len(Carried(head) \o rest) < Len(s)
  <1> DEFINE head == SubSeq(s, 1, max_chars)
             rest == SubSeq(s, max_chars + 1, Len(s))
  <1>1. head \in Seq(Int) /\ Len(head) = max_chars
    BY DEF ConsistentParameters
  <1>2. rest \in Seq(Int) /\ Len(rest) = Len(s) - max_chars
    BY DEF ConsistentParameters
  <1>3. Carried(head) \in Seq(Int) /\ Len(Carried(head)) <= overlap_chars
    BY <1>1, CarriedLength
  <1> HIDE DEF head, rest
  <1>4. Carried(head) \o rest \in Seq(Int) /\ Len(Carried(head) \o rest) < Len(s)
    BY <1>2, <1>3 DEF ConsistentParameters
  <1>. QED
    BY <1>1, <1>4 DEF head, rest

-----------------------------------------------------------------------------
(* The invariant.                                                          *)

\* A call starts with no chunk.
LEMMA InitInv == Init => IInv
  BY TextsAssumption, ParametersAssumption
     DEF Init, Stripped, IInv, TypeOK, ChunksAreBounded

\* Every step of the loop preserves the invariant.
LEMMA NextInv == IInv /\ [Next]_vars => IInv'
  <1> SUFFICES ASSUME IInv, [Next]_vars PROVE IInv'
    OBVIOUS
  <1> USE DEF input
  <1>1. CASE Start
    BY <1>1 DEF IInv, TypeOK, Start, ConsistentParameters, ChunksAreBounded
  <1>2. CASE Merge
    <2>1. /\ Head(paragraphs) \in Seq(Int) /\ Tail(paragraphs) \in Seq(Seq(Int))
          /\ current \in Seq(Int)
      BY <1>2, HeadTail DEF IInv, TypeOK, Merge, ReadsParagraph
    <2>2. Candidate \in Seq(Int)
      BY <2>1, JoinLength DEF Candidate
    <2>. QED
      BY <1>2, <2>1, <2>2
         DEF IInv, TypeOK, Merge, ReadsParagraph, ConsistentParameters, ChunksAreBounded
  <1>3. CASE Overflow
    <2>0. /\ Head(paragraphs) \in Seq(Int) /\ Tail(paragraphs) \in Seq(Seq(Int))
          /\ current \in Seq(Int) /\ Carried(current) \in Seq(Int)
      BY <1>3, HeadTail, CarriedLength DEF IInv, TypeOK, Overflow, ReadsParagraph
    <2>1. current' \in Seq(Int)
      BY <1>3, <2>0, JoinLength DEF Overflow
    <2>2. /\ chunks' \in Seq(Seq(Int))
          /\ \A i \in DOMAIN chunks' : Len(chunks'[i]) <= max_chars
      BY <1>3 DEF IInv, TypeOK, Overflow, ReadsParagraph, ChunksAreBounded
    <2>. QED
      BY <1>3, <2>0, <2>1, <2>2
         DEF IInv, TypeOK, Overflow, ReadsParagraph, ConsistentParameters, ChunksAreBounded
  <1>4. CASE HardSplit
    <2>1. current' \in Seq(Int) /\ \E head \in Seq(Int) :
              Len(head) = max_chars /\ chunks' = Append(chunks, head)
      BY <1>4, CutLength DEF IInv, TypeOK, HardSplit
    <2>2. /\ chunks' \in Seq(Seq(Int))
          /\ \A i \in DOMAIN chunks' : Len(chunks'[i]) <= max_chars
      BY <1>4, <2>1 DEF IInv, TypeOK, HardSplit, ChunksAreBounded
    <2>. QED
      BY <1>4, <2>1, <2>2
         DEF IInv, TypeOK, HardSplit, ConsistentParameters, ChunksAreBounded
  <1>5. CASE Flush
    <2>1. /\ chunks' \in Seq(Seq(Int))
          /\ \A i \in DOMAIN chunks' : Len(chunks'[i]) <= max_chars
      BY <1>5 DEF IInv, TypeOK, Flush, ChunksAreBounded
    <2>. QED
      BY <1>5, <2>1
         DEF IInv, TypeOK, Flush, ConsistentParameters, ChunksAreBounded
  <1>6. CASE MergeSliver
    <2> DEFINE n == Len(chunks)
    <2>1. /\ chunks' \in Seq(Seq(Int))
          /\ \A i \in DOMAIN chunks' :
                 \/ Len(chunks'[i]) <= max_chars
                 \/ i = Len(chunks') /\ Len(chunks'[i]) <= max_chars + SliverFloor + 1
      <3>1. CASE ~HasSliver
        BY <1>6, <3>1 DEF IInv, TypeOK, MergeSliver
      <3>2. CASE HasSliver
        <4> DEFINE front == SubSeq(chunks, 1, n - 2)
                   joined == Join(chunks[n - 1], chunks[n])
        <4>1. n \in Nat /\ n >= 2 /\ chunks' = Append(front, joined)
          BY <1>6, <3>2 DEF IInv, TypeOK, MergeSliver, HasSliver
        <4>2. /\ front \in Seq(Seq(Int)) /\ Len(front) = n - 2
              /\ \A i \in 1 .. n - 2 : front[i] = chunks[i]
          <5>1. n - 2 \in Nat /\ \A i \in 1 .. n - 2 : chunks[i] \in Seq(Int)
            BY <4>1 DEF IInv, TypeOK
          <5>2. /\ front \in Seq(Seq(Int))
                /\ Len(front) = IF 1 <= n - 2 THEN n - 2 - 1 + 1 ELSE 0
                /\ \A i \in 1 .. n - 2 - 1 + 1 : front[i] = chunks[1 + i - 1]
            BY <5>1, SubSeqProperties
          <5> HIDE DEF front, n
          <5>. QED
            BY <4>1, <5>1, <5>2
        <4>3. joined \in Seq(Int) /\ Len(joined) <= max_chars + SliverFloor + 1
          <5>1. chunks[n - 1] \in Seq(Int) /\ chunks[n] \in Seq(Int)
            BY <4>1 DEF IInv, TypeOK
          <5>2. Len(chunks[n - 1]) <= max_chars /\ Len(chunks[n]) < SliverFloor
            BY <1>6, <3>2, <4>1 DEF IInv, TypeOK, MergeSliver, HasSliver
          <5>3. SliverFloor \in Int /\ max_chars \in Int
            BY DEF IInv, TypeOK, SliverFloor, SliverFraction
          <5>4. joined \in Seq(Int) /\ Len(joined) = Len(chunks[n - 1]) + 2 + Len(chunks[n])
            BY <5>1, JoinLength
          <5>5. Len(chunks[n - 1]) \in Int /\ Len(chunks[n]) \in Int
            BY <5>1
          <5> HIDE DEF joined
          <5>. QED
            BY <5>2, <5>3, <5>4, <5>5, SliverMergeBound
        <4>4. \A i \in 1 .. n - 2 : Len(front[i]) <= max_chars
          BY <1>6, <4>1, <4>2 DEF IInv, TypeOK, MergeSliver
        <4> HIDE DEF front, joined, n
        <4>5. /\ chunks' \in Seq(Seq(Int)) /\ Len(chunks') = n - 1
              /\ \A i \in 1 .. n - 2 : chunks'[i] = front[i]
              /\ chunks'[n - 1] = joined
          BY <4>1, <4>2, <4>3
        <4>. QED
          BY <4>1, <4>3, <4>4, <4>5
      <3>. QED
        BY <3>1, <3>2
    <2>2. pc = "sliver" /\ pc' = "wrap" /\ UNCHANGED <<input, paragraphs, current>>
      BY <1>6 DEF MergeSliver
    <2>3. SliverFloor' = SliverFloor
      BY <2>2 DEF SliverFloor
    <2>. QED
      BY <2>1, <2>2, <2>3 DEF IInv, TypeOK, ConsistentParameters, ChunksAreBounded
  <1>7. CASE Wrap
    BY <1>7 DEF IInv, TypeOK, Wrap, ConsistentParameters, ChunksAreBounded, SliverFloor
  <1>8. CASE UNCHANGED vars
    BY <1>8 DEF IInv, TypeOK, vars, ConsistentParameters, ChunksAreBounded, SliverFloor
  <1>. QED
    BY <1>1, <1>2, <1>3, <1>4, <1>5, <1>6, <1>7, <1>8 DEF Next

\* The bounds of the loop hold throughout the call.
LEMMA Invariance == Spec => []IInv
  BY InitInv, NextInv, PTL DEF Spec

\* No chunk is longer than max_chars, but for the last, which may gain a
\* separator and a sliver.
THEOREM Ceiling == Spec => []ChunksAreBounded
  <1>1. IInv => ChunksAreBounded
    BY DEF IInv
  <1>. QED
    BY <1>1, Invariance, PTL

\* Why the call ends: every step moves on, reads a paragraph or cuts a rest
\* shorter, the last because overlap_chars < max_chars.
THEOREM Progress == Spec => EveryStepCounts
  <1> DEFINE Counts == \/ Stages[pc'] > Stages[pc]
                       \/ pc' = pc /\ Len(paragraphs') < Len(paragraphs)
                       \/ /\ pc' = pc /\ paragraphs' = paragraphs
                          /\ Len(current') < Len(current)
  <1>1. IInv /\ [Next]_vars => [Counts]_vars
    <2> SUFFICES ASSUME IInv, Next PROVE Counts
      OBVIOUS
    <2>1. /\ paragraphs \in Seq(Seq(Int)) /\ max_chars \in Int /\ overlap_chars \in Int
          /\ current \in Seq(Int)
      BY DEF IInv, TypeOK
    <2>2. CASE Start
      BY <2>2 DEF Start, Stages
    <2>3. CASE Merge \/ Overflow
      <3>1. Len(Tail(paragraphs)) < Len(paragraphs)
        BY <2>1, <2>3 DEF Merge, Overflow, ReadsParagraph
      <3>. QED
        BY <2>3, <3>1 DEF Merge, Overflow
    <2>4. CASE HardSplit
      <3>1. Len(current') < Len(current)
        BY <2>1, <2>4, CutLength DEF IInv, HardSplit
      <3>. QED
        BY <2>4, <3>1 DEF HardSplit
    <2>5. CASE Flush \/ MergeSliver \/ Wrap
      BY <2>5 DEF Flush, MergeSliver, Wrap, Stages
    <2>. QED
      BY <2>2, <2>3, <2>4, <2>5 DEF Next
  <1>. QED
    BY <1>1, Invariance, PTL DEF Spec, EveryStepCounts

-----------------------------------------------------------------------------
(* No text is lost.                                                        *)

Characters(s) == {s[i] : i \in DOMAIN s}
AllCharacters(c) == UNION {Characters(c[j]) : j \in DOMAIN c}

\* What is still to read is the end of the text, and what was read is kept.
Kept ==
    /\ Len(paragraphs) <= Len(text)
    /\ \A i \in 1 .. Len(paragraphs) :
           paragraphs[i] = text[Len(text) - Len(paragraphs) + i]
    /\ \A i \in 1 .. Len(text) - Len(paragraphs) :
           Characters(text[i]) \subseteq Characters(current) \cup AllCharacters(chunks)

\* Putting one string after another has the characters of both.
LEMMA ConcatCharacters ==
    ASSUME NEW s \in Seq(Int), NEW t \in Seq(Int)
    PROVE  Characters(s \o t) = Characters(s) \cup Characters(t)
  <1> DEFINE m == Len(s)
             n == Len(t)
  <1>1. m \in Nat /\ n \in Nat /\ DOMAIN s = 1 .. m /\ DOMAIN t = 1 .. n
    BY LenProperties
  <1>2. /\ DOMAIN (s \o t) = 1 .. m + n
        /\ \A i \in 1 .. m + n : (s \o t)[i] = IF i <= m THEN s[i] ELSE t[i - m]
    BY ConcatProperties, LenProperties
  <1> HIDE DEF m, n
  <1>3. ASSUME NEW i \in 1 .. m PROVE (s \o t)[i] = s[i] /\ i \in 1 .. m + n
    BY <1>1, <1>2
  <1>4. ASSUME NEW i \in 1 .. n PROVE (s \o t)[m + i] = t[i] /\ m + i \in 1 .. m + n
    BY <1>1, <1>2
  <1>5. ASSUME NEW i \in 1 .. m + n, i > m PROVE (s \o t)[i] = t[i - m] /\ i - m \in 1 .. n
    BY <1>1, <1>2, <1>5
  <1>6. ASSUME NEW i \in 1 .. m + n
        PROVE  (s \o t)[i] \in Characters(s) \cup Characters(t)
    <2>1. CASE i <= m
      BY <1>1, <1>3, <2>1 DEF Characters
    <2>2. CASE i > m
      BY <1>1, <1>5, <2>2 DEF Characters
    <2>. QED
      BY <1>1, <2>1, <2>2
  <1>7. \A i \in 1 .. m : s[i] \in Characters(s \o t)
    BY <1>2, <1>3 DEF Characters
  <1>8. \A i \in 1 .. n : t[i] \in Characters(s \o t)
    BY <1>2, <1>4 DEF Characters
  <1>. QED
    BY <1>1, <1>2, <1>6, <1>7, <1>8 DEF Characters

\* A join has the characters of both, and newlines.
LEMMA JoinCharacters ==
    ASSUME NEW s \in Seq(Int), NEW t \in Seq(Int)
    PROVE  Characters(s) \cup Characters(t) \subseteq Characters(Join(s, t))
  <1>1. <<0, 0>> \in Seq(Int) /\ s \o <<0, 0>> \in Seq(Int)
    OBVIOUS
  <1>2. Join(s, t) = (s \o <<0, 0>>) \o t
    BY DEF Join
  <1> DEFINE separator == <<0, 0>>
             front == s \o separator
  <1>3. separator \in Seq(Int) /\ front \in Seq(Int) /\ Join(s, t) = front \o t
    BY <1>1, <1>2
  <1> HIDE DEF separator
  <1>4. Characters(front) = Characters(s) \cup Characters(separator)
    BY <1>3, ConcatCharacters
  <1> HIDE DEF front
  <1>5. Characters(front \o t) = Characters(front) \cup Characters(t)
    BY <1>3, ConcatCharacters
  <1>. QED
    BY <1>3, <1>4, <1>5

\* One chunk more has its characters.
LEMMA AppendCharacters ==
    ASSUME NEW c \in Seq(Seq(Int)), NEW s \in Seq(Int)
    PROVE  AllCharacters(Append(c, s)) = AllCharacters(c) \cup Characters(s)
  <1> DEFINE n == Len(c)
  <1>1. /\ n \in Nat /\ DOMAIN c = 1 .. n /\ DOMAIN Append(c, s) = 1 .. n + 1
        /\ Append(c, s)[n + 1] = s /\ \A i \in 1 .. n : Append(c, s)[i] = c[i]
    BY LenProperties, AppendProperties
  <1>2. 1 .. n + 1 = 1 .. n \cup {n + 1}
    BY <1>1
  <1> HIDE DEF n
  <1>. QED
    BY <1>1, <1>2 DEF AllCharacters

\* A cut has all characters before or after it.
LEMMA CutCharacters ==
    ASSUME max_chars \in Int, overlap_chars \in Int, ConsistentParameters,
           NEW s \in Seq(Int), Len(s) > max_chars
    PROVE  LET head == SubSeq(s, 1, max_chars)
               rest == SubSeq(s, max_chars + 1, Len(s))
           IN  Characters(s) \subseteq Characters(head) \cup Characters(Carried(head) \o rest)
  <1> DEFINE head == SubSeq(s, 1, max_chars)
             rest == SubSeq(s, max_chars + 1, Len(s))
             n == Len(s)
             m == max_chars
  <1>0. n \in Nat /\ m \in Nat /\ m < n /\ DOMAIN s = 1 .. n
    BY LenProperties DEF ConsistentParameters
  <1>1. /\ head \in Seq(Int) /\ DOMAIN head = 1 .. m
        /\ \A i \in 1 .. m : head[i] = s[i]
    BY <1>0
  <1>2. /\ rest \in Seq(Int) /\ DOMAIN rest = 1 .. n - m
        /\ \A i \in 1 .. n - m : rest[i] = s[m + i]
    BY <1>0
  <1>3. Carried(head) \in Seq(Int)
    BY <1>1, CarriedLength
  <1> HIDE DEF head, rest, n, m
  <1>4. Characters(rest) \subseteq Characters(Carried(head) \o rest)
    BY <1>2, <1>3, ConcatCharacters
  <1>5. ASSUME NEW i \in 1 .. n PROVE s[i] \in Characters(head) \cup Characters(rest)
    <2>1. CASE i <= m
      <3>1. i \in 1 .. m /\ s[i] = head[i]
        BY <1>0, <1>1, <2>1
      <3>. QED
        BY <1>1, <3>1 DEF Characters
    <2>2. CASE i > m
      <3>1. i - m \in 1 .. n - m /\ m + (i - m) = i
        BY <1>0, <2>2
      <3>. QED
        BY <1>2, <3>1 DEF Characters
    <2>. QED
      BY <1>0, <2>1, <2>2
  <1>6. Characters(s) \subseteq Characters(head) \cup Characters(rest)
    BY <1>0, <1>5 DEF Characters
  <1>. QED
    BY <1>4, <1>6 DEF head, rest, n, m

\* The sliver merge has the characters of all chunks.
LEMMA MergeCharacters ==
    ASSUME NEW c \in Seq(Seq(Int)), Len(c) >= 2
    PROVE  LET n == Len(c) IN
           AllCharacters(c) \subseteq
               AllCharacters(Append(SubSeq(c, 1, n - 2), Join(c[n - 1], c[n])))
  <1> DEFINE n == Len(c)
             front == SubSeq(c, 1, n - 2)
             joined == Join(c[n - 1], c[n])
  <1>1. n \in Nat /\ n >= 2 /\ DOMAIN c = 1 .. n /\ c[n - 1] \in Seq(Int) /\ c[n] \in Seq(Int)
    BY LenProperties
  <1>2. front \in Seq(Seq(Int)) /\ DOMAIN front = 1 .. n - 2
        /\ \A i \in 1 .. n - 2 : front[i] = c[i]
    <2>1. n - 2 \in Nat /\ \A i \in 1 .. n - 2 : c[i] \in Seq(Int)
      BY <1>1
    <2>2. /\ front \in Seq(Seq(Int))
          /\ Len(front) = IF 1 <= n - 2 THEN n - 2 - 1 + 1 ELSE 0
          /\ \A i \in 1 .. n - 2 - 1 + 1 : front[i] = c[1 + i - 1]
      BY <2>1, SubSeqProperties
    <2> HIDE DEF front, n
    <2>3. Len(front) = n - 2 /\ DOMAIN front = 1 .. Len(front)
      BY <1>1, <2>1, <2>2, LenProperties
    <2>. QED
      BY <1>1, <2>1, <2>2, <2>3
  <1>3. joined \in Seq(Int) /\ Characters(c[n - 1]) \cup Characters(c[n]) \subseteq Characters(joined)
    BY <1>1, JoinLength, JoinCharacters
  <1> HIDE DEF n, front, joined
  <1>4. AllCharacters(Append(front, joined)) = AllCharacters(front) \cup Characters(joined)
    BY <1>2, <1>3, AppendCharacters
  <1>5. ASSUME NEW j \in 1 .. n
        PROVE  Characters(c[j]) \subseteq AllCharacters(front) \cup Characters(joined)
    <2>1. CASE j \in 1 .. n - 2
      BY <1>2, <2>1 DEF AllCharacters
    <2>2. CASE j = n - 1 \/ j = n
      BY <1>3, <2>2
    <2>. QED
      BY <1>1, <2>1, <2>2
  <1>6. AllCharacters(c) \subseteq AllCharacters(front) \cup Characters(joined)
    BY <1>1, <1>5 DEF AllCharacters
  <1>. QED
    BY <1>4, <1>6 DEF n, front, joined

\* Reading a paragraph advances in the text.
LEMMA ReadOn ==
    ASSUME TypeOK, Kept, paragraphs # <<>>, text' = text, paragraphs' = Tail(paragraphs),
           Characters(current) \cup AllCharacters(chunks) \cup Characters(Head(paragraphs))
               \subseteq Characters(current') \cup AllCharacters(chunks')
    PROVE  Kept'
  <1> DEFINE n == Len(text)
             k == Len(paragraphs)
  <1>1. n \in Nat /\ k \in Nat /\ k >= 1 /\ k <= n
    BY LenProperties DEF TypeOK, Kept
  <1>2. /\ Len(paragraphs') = k - 1 /\ Head(paragraphs) = paragraphs[1]
        /\ \A i \in 1 .. k - 1 : paragraphs'[i] = paragraphs[i + 1]
    BY <1>1 DEF TypeOK
  <1>3. /\ \A i \in 1 .. k : paragraphs[i] = text[n - k + i]
        /\ \A i \in 1 .. n - k :
               Characters(text[i]) \subseteq Characters(current) \cup AllCharacters(chunks)
    BY DEF Kept
  <1> HIDE DEF n, k
  <1>4. \A i \in 1 .. k - 1 : paragraphs'[i] = text[n - (k - 1) + i]
    <2> SUFFICES ASSUME NEW i \in 1 .. k - 1 PROVE paragraphs'[i] = text[n - (k - 1) + i]
      OBVIOUS
    <2>1. i + 1 \in 1 .. k /\ n - k + (i + 1) = n - (k - 1) + i
      BY <1>1
    <2>. QED
      BY <1>2, <1>3, <2>1
  <1>5. ASSUME NEW i \in 1 .. n - (k - 1)
        PROVE  Characters(text[i]) \subseteq Characters(current') \cup AllCharacters(chunks')
    <2>1. CASE i \in 1 .. n - k
      BY <1>3, <2>1
    <2>2. CASE i = n - k + 1
      <3>1. text[i] = Head(paragraphs)
        BY <1>1, <1>2, <1>3, <2>2
      <3>. QED
        BY <3>1
    <2>. QED
      BY <1>1, <2>1, <2>2
  <1>. QED
    BY <1>1, <1>2, <1>4, <1>5 DEF Kept, n, k

\* Where no paragraph is read the text is kept by keeping the characters.
LEMMA StayOn ==
    ASSUME Kept, text' = text, paragraphs' = paragraphs,
           Characters(current) \cup AllCharacters(chunks)
               \subseteq Characters(current') \cup AllCharacters(chunks')
    PROVE  Kept'
  BY DEF Kept

\* Every step keeps the text.
LEMMA NextKept == IInv /\ Kept /\ [Next]_vars => Kept'
  <1> SUFFICES ASSUME IInv, Kept, [Next]_vars PROVE Kept'
    OBVIOUS
  <1> USE DEF input
  <1>0. /\ TypeOK /\ current \in Seq(Int) /\ chunks \in Seq(Seq(Int))
        /\ max_chars \in Int /\ overlap_chars \in Int
    BY DEF IInv, TypeOK
  <1>1. CASE Merge
    <2>1. Head(paragraphs) \in Seq(Int) /\ paragraphs # <<>>
      BY <1>0, <1>1, HeadTail DEF TypeOK, Merge, ReadsParagraph
    <2>2. Characters(current) \cup Characters(Head(paragraphs)) \subseteq Characters(Candidate)
      <3>1. CASE current = <<>>
        <4>1. Characters(current) = {}
          BY <3>1 DEF Characters
        <4>. QED
          BY <3>1, <4>1 DEF Candidate
      <3>2. CASE current # <<>>
        BY <1>0, <2>1, <3>2, JoinCharacters DEF Candidate
      <3>. QED
        BY <3>1, <3>2
    <2>3. /\ text' = text /\ paragraphs' = Tail(paragraphs)
          /\ current' = Candidate /\ chunks' = chunks
      BY <1>1 DEF Merge
    <2>. QED
      BY <1>0, <2>1, <2>2, <2>3, ReadOn
  <1>2. CASE Overflow
    <2>1. Head(paragraphs) \in Seq(Int) /\ paragraphs # <<>> /\ Carried(current) \in Seq(Int)
      BY <1>0, <1>2, HeadTail, CarriedLength DEF IInv, TypeOK, Overflow, ReadsParagraph
    <2>2. Characters(Head(paragraphs)) \subseteq Characters(current')
      <3>1. Characters(Head(paragraphs)) \subseteq
                Characters(Join(Carried(current), Head(paragraphs)))
        BY <2>1, JoinCharacters
      <3>. QED
        BY <1>2, <3>1 DEF Overflow
    <2>3. Characters(current) \cup AllCharacters(chunks) \subseteq AllCharacters(chunks')
      <3>1. CASE current = <<>>
        <4>1. Characters(current) = {} /\ chunks' = chunks
          BY <1>2, <3>1 DEF Characters, Overflow
        <4>. QED
          BY <4>1
      <3>2. CASE current # <<>>
        <4>1. chunks' = Append(chunks, current)
          BY <1>2, <3>2 DEF Overflow
        <4>. QED
          BY <1>0, <4>1, AppendCharacters
      <3>. QED
        BY <3>1, <3>2
    <2>4. text' = text /\ paragraphs' = Tail(paragraphs)
      BY <1>2 DEF Overflow
    <2>. QED
      BY <1>0, <2>1, <2>2, <2>3, <2>4, ReadOn
  <1>3. CASE HardSplit
    <2> DEFINE head == SubSeq(current, 1, max_chars)
               rest == SubSeq(current, max_chars + 1, Len(current))
    <2>1. ConsistentParameters /\ Len(current) > max_chars
      BY <1>3 DEF IInv, HardSplit
    <2>2. head \in Seq(Int) /\ chunks' = Append(chunks, head)
          /\ current' = Carried(head) \o rest
      BY <1>0, <1>3, <2>1, CutLength DEF HardSplit
    <2>3. Characters(current) \subseteq Characters(head) \cup Characters(current')
      BY <1>0, <2>1, <2>2, CutCharacters
    <2> HIDE DEF head, rest
    <2>4. AllCharacters(chunks') = AllCharacters(chunks) \cup Characters(head)
      BY <1>0, <2>2, AppendCharacters
    <2>5. text' = text /\ paragraphs' = paragraphs
      BY <1>3 DEF HardSplit
    <2>. QED
      BY <2>3, <2>4, <2>5, StayOn
  <1>4. CASE Flush
    <2>1. AllCharacters(chunks) \subseteq AllCharacters(chunks')
      BY <1>0, <1>4, AppendCharacters DEF Flush
    <2>2. text' = text /\ paragraphs' = paragraphs /\ current' = current
      BY <1>4 DEF Flush
    <2>. QED
      BY <2>1, <2>2, StayOn
  <1>5. CASE MergeSliver
    <2>1. AllCharacters(chunks) \subseteq AllCharacters(chunks')
      <3>1. CASE HasSliver
        BY <1>0, <1>5, <3>1, MergeCharacters DEF MergeSliver, HasSliver
      <3>2. CASE ~HasSliver
        BY <1>5, <3>2 DEF MergeSliver
      <3>. QED
        BY <3>1, <3>2
    <2>2. text' = text /\ paragraphs' = paragraphs /\ current' = current
      BY <1>5 DEF MergeSliver
    <2>. QED
      BY <2>1, <2>2, StayOn
  <1>6. CASE Start \/ Wrap \/ UNCHANGED vars
    <2>1. /\ text' = text /\ paragraphs' = paragraphs
          /\ current' = current /\ chunks' = chunks
      BY <1>6 DEF Start, Wrap, vars
    <2>. QED
      BY <2>1, StayOn
  <1>. QED
    BY <1>1, <1>2, <1>3, <1>4, <1>5, <1>6 DEF Next

\* Nothing was read before the first step.
LEMMA InitKept == Init => Kept
  <1> SUFFICES ASSUME Init PROVE Kept
    OBVIOUS
  <1>1. paragraphs = text /\ Len(text) \in Nat
    BY TextsAssumption, LenProperties DEF Init, Stripped
  <1>. QED
    BY <1>1 DEF Kept

\* Every character read is in a chunk or in the one being built.
THEOREM TextIsKept == Spec => []NothingIsLost
  <1>1. Init => IInv /\ Kept
    BY InitInv, InitKept
  <1>2. IInv /\ Kept /\ [Next]_vars => (IInv /\ Kept)'
    BY NextInv, NextKept
  <1>3. IInv /\ Kept => NothingIsLost
    <2> SUFFICES ASSUME IInv, Kept PROVE NothingIsLost
      OBVIOUS
    <2> DEFINE k == Len(text) - Len(paragraphs)
               read == SubSeq(text, 1, k)
    <2>1. text \in Seq(Seq(Int)) /\ k \in Nat /\ k <= Len(text)
      BY LenProperties DEF IInv, TypeOK, Kept
    <2>2. DOMAIN read = 1 .. k /\ \A i \in 1 .. k : read[i] = text[i]
      BY <2>1
    <2>3. \A i \in DOMAIN read :
              Characters(read[i]) \subseteq Characters(current) \cup AllCharacters(chunks)
      BY <2>2 DEF Kept
    <2>. QED
      BY <2>3 DEF NothingIsLost, AllCharacters, Characters
  <1>. QED
    BY <1>1, <1>2, <1>3, PTL DEF Spec

-----------------------------------------------------------------------------
(* Chunks overlap.                                                         *)

StartsWith(s, t) == Len(t) <= Len(s) /\ \A k \in 1 .. Len(t) : s[k] = t[k]

Linked(c) == \A i \in 1 .. Len(c) - 1 : StartsWith(c[i + 1], Carried(c[i]))

\* Each chunk starts with the end of the one before, and so does the chunk
\* being built.
Stitched ==
    /\ Linked(chunks)
    /\ pc = "paragraphs" /\ chunks # <<>> => StartsWith(current, Carried(chunks[Len(chunks)]))

\* A string starts with the one it continues.
LEMMA StartsWithConcat ==
    ASSUME NEW s \in Seq(Int), NEW t \in Seq(Int)
    PROVE  s \o t \in Seq(Int) /\ StartsWith(s \o t, s)
  <1>1. /\ Len(s) \in Nat /\ Len(t) \in Nat /\ s \o t \in Seq(Int)
        /\ Len(s \o t) = Len(s) + Len(t)
        /\ \A i \in 1 .. Len(s) + Len(t) :
               (s \o t)[i] = IF i <= Len(s) THEN s[i] ELSE t[i - Len(s)]
    BY ConcatProperties, LenProperties
  <1>2. \A k \in 1 .. Len(s) : (s \o t)[k] = s[k]
    BY <1>1
  <1>. QED
    BY <1>1, <1>2 DEF StartsWith

LEMMA StartsWithJoin ==
    ASSUME NEW s \in Seq(Int), NEW t \in Seq(Int)
    PROVE  StartsWith(Join(s, t), s)
  <1> DEFINE rest == <<0, 0>> \o t
  <1>1. rest \in Seq(Int)
    OBVIOUS
  <1>2. Join(s, t) = s \o rest
    BY DEF Join
  <1> HIDE DEF rest
  <1>. QED
    BY <1>1, <1>2, StartsWithConcat

LEMMA StartsWithTransitive ==
    ASSUME NEW r \in Seq(Int), NEW s \in Seq(Int), NEW t \in Seq(Int),
           StartsWith(r, s), StartsWith(s, t)
    PROVE  StartsWith(r, t)
  <1>1. Len(r) \in Nat /\ Len(s) \in Nat /\ Len(t) \in Nat
    BY LenProperties
  <1>. QED
    BY <1>1 DEF StartsWith

\* A chunk that continues the last one keeps the chunks linked.
LEMMA AppendLinked ==
    ASSUME NEW c \in Seq(Seq(Int)), NEW s \in Seq(Int), Linked(c),
           c # <<>> => StartsWith(s, Carried(c[Len(c)]))
    PROVE  /\ Linked(Append(c, s)) /\ Append(c, s) # <<>>
           /\ Append(c, s)[Len(Append(c, s))] = s
  <1> DEFINE n == Len(c)
             a == Append(c, s)
  <1>1. /\ n \in Nat /\ Len(a) = n + 1 /\ a[n + 1] = s /\ a \in Seq(Seq(Int))
        /\ \A i \in 1 .. n : a[i] = c[i]
        /\ n # 0 => c # <<>>
    BY LenProperties, AppendProperties
  <1>2. ASSUME NEW i \in 1 .. Len(a) - 1 PROVE StartsWith(a[i + 1], Carried(a[i]))
    <2>1. i \in 1 .. n /\ a[i] = c[i]
      BY <1>1
    <2>2. CASE i = n
      BY <1>1, <2>1, <2>2
    <2>3. CASE i # n
      <3>1. i + 1 \in 1 .. n /\ i \in 1 .. n - 1
        BY <1>1, <2>1, <2>3
      <3>. QED
        BY <1>1, <2>1, <3>1 DEF Linked
    <2>. QED
      BY <2>2, <2>3
  <1> HIDE DEF a
  <1>3. Len(a) # 0 /\ a[Len(a)] = s
    BY <1>1
  <1>4. a # <<>>
    BY <1>3, EmptySeq
  <1>. QED
    BY <1>2, <1>3, <1>4 DEF Linked, a

\* Every step keeps the chunks stitched together.
LEMMA NextStitched == IInv /\ Stitched /\ [Next]_vars => Stitched'
  <1> SUFFICES ASSUME IInv, Stitched, [Next]_vars PROVE Stitched'
    OBVIOUS
  <1> USE DEF input
  <1>0. /\ TypeOK /\ current \in Seq(Int) /\ chunks \in Seq(Seq(Int))
        /\ max_chars \in Int /\ overlap_chars \in Int
        /\ chunks # <<>> => chunks[Len(chunks)] \in Seq(Int)
    <2>1. chunks # <<>> => Len(chunks) \in 1 .. Len(chunks)
      BY LenProperties, EmptySeq DEF IInv, TypeOK
    <2>. QED
      BY <2>1 DEF IInv, TypeOK
  <1>01. overlap_chars' = overlap_chars /\ \A s : Carried(s)' = Carried(s)
    BY DEF Carried, Next, Start, Merge, Overflow, HardSplit, Flush, MergeSliver, Wrap, vars
  <1>02. \A c : Linked(c)' = Linked(c)
    BY <1>01 DEF Linked, StartsWith
  <1>1. CASE Merge
    <2>1. /\ Head(paragraphs) \in Seq(Int) /\ ConsistentParameters
          /\ pc' = pc /\ pc = "paragraphs" /\ chunks' = chunks /\ current' = Candidate
      BY <1>0, <1>1, HeadTail DEF IInv, TypeOK, Merge, ReadsParagraph
    <2>2. ASSUME chunks # <<>> PROVE StartsWith(Candidate, Carried(chunks[Len(chunks)]))
      <3> DEFINE tail == Carried(chunks[Len(chunks)])
      <3>1. tail \in Seq(Int) /\ StartsWith(current, tail)
        BY <1>0, <2>1, <2>2, CarriedLength DEF Stitched
      <3> HIDE DEF tail
      <3>2. CASE current = <<>>
        <4>1. Len(tail) = 0 /\ Candidate \in Seq(Int)
          BY <2>1, <3>1, <3>2, LenProperties DEF StartsWith, Candidate
        <4>. QED
          BY <4>1, LenProperties DEF StartsWith, tail
      <3>3. CASE current # <<>>
        <4>1. Candidate = Join(current, Head(paragraphs)) /\ Candidate \in Seq(Int)
          BY <1>0, <2>1, <3>3, JoinLength DEF Candidate
        <4>2. StartsWith(Candidate, current)
          BY <1>0, <2>1, <4>1, StartsWithJoin
        <4>. QED
          BY <1>0, <3>1, <4>1, <4>2, StartsWithTransitive DEF tail
      <3>. QED
        BY <3>2, <3>3
    <2>. QED
      BY <1>01, <1>02, <2>1, <2>2 DEF Stitched, StartsWith
  <1>2. CASE Overflow
    <2>1. /\ Head(paragraphs) \in Seq(Int) /\ ConsistentParameters
          /\ pc' = pc /\ pc = "paragraphs" /\ Carried(current) \in Seq(Int)
      BY <1>0, <1>2, HeadTail, CarriedLength DEF IInv, TypeOK, Overflow, ReadsParagraph
    <2>2. CASE current = <<>>
      <3>1. chunks' = chunks /\ current' = Head(paragraphs)
        BY <1>2, <2>2 DEF Overflow
      <3>2. ASSUME chunks # <<>>
            PROVE  StartsWith(Head(paragraphs), Carried(chunks[Len(chunks)]))
        <4> DEFINE tail == Carried(chunks[Len(chunks)])
        <4>1. tail \in Seq(Int) /\ StartsWith(current, tail)
          BY <1>0, <2>1, <3>2, CarriedLength DEF Stitched
        <4> HIDE DEF tail
        <4>2. Len(tail) = 0
          BY <2>2, <4>1, LenProperties DEF StartsWith
        <4>. QED
          BY <2>1, <4>2, LenProperties DEF StartsWith, tail
      <3>. QED
        BY <1>01, <1>02, <2>1, <3>1, <3>2 DEF Stitched, StartsWith
    <2>3. CASE current # <<>>
      <3>1. chunks' = Append(chunks, current)
        BY <1>2, <2>3 DEF Overflow
      <3>2. Linked(chunks') /\ chunks'[Len(chunks')] = current
        BY <1>0, <2>1, <3>1, AppendLinked DEF Stitched
      <3>3. StartsWith(current', Carried(current))
        <4>1. CASE overlap_chars = 0
          <5>1. Len(Carried(current)) = 0 /\ current' = Head(paragraphs)
            BY <1>0, <1>2, <2>1, <4>1, CarriedLength, LenProperties DEF Overflow
          <5>. QED
            BY <2>1, <5>1, LenProperties DEF StartsWith
        <4>2. CASE overlap_chars # 0
          BY <1>2, <2>1, <2>3, <4>2, StartsWithJoin DEF Overflow
        <4>. QED
          BY <4>1, <4>2
      <3>. QED
        BY <1>01, <1>02, <3>2, <3>3 DEF Stitched, StartsWith
    <2>. QED
      BY <2>2, <2>3
  <1>3. CASE HardSplit
    <2> DEFINE head == SubSeq(current, 1, max_chars)
               rest == SubSeq(current, max_chars + 1, Len(current))
               n == Len(current)
    <2>1. /\ ConsistentParameters /\ n > max_chars /\ n \in Nat
          /\ pc' = pc /\ pc = "paragraphs"
      BY <1>0, <1>3, LenProperties DEF IInv, HardSplit
    <2>2. /\ head \in Seq(Int) /\ Len(head) = max_chars /\ rest \in Seq(Int)
          /\ \A i \in 1 .. max_chars : head[i] = current[i]
      BY <1>0, <2>1 DEF ConsistentParameters
    <2>3. chunks' = Append(chunks, head) /\ current' = Carried(head) \o rest
      BY <1>3 DEF HardSplit
    <2> HIDE DEF head, rest, n
    <2>4. ASSUME chunks # <<>> PROVE StartsWith(head, Carried(chunks[Len(chunks)]))
      <3> DEFINE tail == Carried(chunks[Len(chunks)])
      <3>1. tail \in Seq(Int) /\ StartsWith(current, tail) /\ Len(tail) <= overlap_chars
        BY <1>0, <2>1, <2>4, CarriedLength DEF Stitched
      <3> HIDE DEF tail
      <3>2. Len(tail) \in Nat /\ Len(tail) < max_chars
        BY <1>0, <2>1, <3>1, LenProperties DEF ConsistentParameters
      <3>3. ASSUME NEW k \in 1 .. Len(tail) PROVE head[k] = tail[k]
        <4>1. k \in 1 .. max_chars
          BY <1>0, <3>2
        <4>2. current[k] = tail[k]
          BY <3>1 DEF StartsWith
        <4>. QED
          BY <2>2, <4>1, <4>2
      <3>4. Len(tail) <= Len(head)
        BY <1>0, <2>2, <3>2
      <3>5. StartsWith(head, tail)
        BY <3>3, <3>4 DEF StartsWith
      <3>. QED
        BY <3>5 DEF tail
    <2>5. Linked(chunks') /\ chunks'[Len(chunks')] = head
      BY <1>0, <2>2, <2>3, <2>4, AppendLinked DEF Stitched
    <2>6. StartsWith(current', Carried(head))
      BY <1>0, <2>1, <2>2, <2>3, CarriedLength, StartsWithConcat
    <2>. QED
      BY <1>01, <1>02, <2>5, <2>6 DEF Stitched, StartsWith
  <1>4. CASE Flush
    <2>1. pc = "paragraphs" /\ pc' = "sliver"
      BY <1>4 DEF Flush
    <2>2. CASE current = <<>>
      BY <1>02, <1>4, <2>1, <2>2 DEF Flush, Stitched
    <2>3. CASE current # <<>>
      <3>1. chunks' = Append(chunks, current)
        BY <1>4, <2>3 DEF Flush
      <3>2. Linked(chunks')
        BY <1>0, <2>1, <3>1, AppendLinked DEF Stitched
      <3>. QED
        BY <1>02, <2>1, <3>2 DEF Stitched
    <2>. QED
      BY <2>2, <2>3
  <1>5. CASE MergeSliver
    <2>1. pc' = "wrap"
      BY <1>5 DEF MergeSliver
    <2>2. CASE ~HasSliver
      BY <1>02, <1>5, <2>1, <2>2 DEF MergeSliver, Stitched
    <2>3. CASE HasSliver
      <3> DEFINE n == Len(chunks)
                 front == SubSeq(chunks, 1, n - 2)
                 joined == Join(chunks[n - 1], chunks[n])
      <3>1. /\ n \in Nat /\ n >= 2 /\ chunks' = Append(front, joined)
            /\ chunks[n - 1] \in Seq(Int) /\ chunks[n] \in Seq(Int)
        BY <1>0, <1>5, <2>3 DEF MergeSliver, HasSliver
      <3>2. /\ front \in Seq(Seq(Int)) /\ Len(front) = n - 2
            /\ \A i \in 1 .. n - 2 : front[i] = chunks[i]
        <4>1. n - 2 \in Nat /\ \A i \in 1 .. n - 2 : chunks[i] \in Seq(Int)
          BY <1>0, <3>1
        <4>2. /\ front \in Seq(Seq(Int))
              /\ Len(front) = IF 1 <= n - 2 THEN n - 2 - 1 + 1 ELSE 0
              /\ \A i \in 1 .. n - 2 - 1 + 1 : front[i] = chunks[1 + i - 1]
          BY <4>1, SubSeqProperties
        <4> HIDE DEF front, n
        <4>. QED
          BY <3>1, <4>1, <4>2
      <3>3. joined \in Seq(Int) /\ StartsWith(joined, chunks[n - 1])
        BY <3>1, JoinLength, StartsWithJoin
      <3>4. \A i \in 1 .. n - 1 : StartsWith(chunks[i + 1], Carried(chunks[i]))
        BY DEF Stitched, Linked
      <3> HIDE DEF n, front, joined
      <3>5. Linked(front)
        <4> SUFFICES ASSUME NEW i \in 1 .. n - 2 - 1
                     PROVE  StartsWith(front[i + 1], Carried(front[i]))
          BY <3>2 DEF Linked
        <4>1. i \in 1 .. n - 1 /\ i \in 1 .. n - 2 /\ i + 1 \in 1 .. n - 2
          BY <3>1
        <4>. QED
          BY <3>2, <3>4, <4>1
      <3>6. ASSUME front # <<>> PROVE StartsWith(joined, Carried(front[Len(front)]))
        <4>1. n - 2 \in 1 .. n - 2 /\ (n - 2) + 1 = n - 1 /\ n - 2 \in 1 .. n - 1
          BY <3>1, <3>2, <3>6, EmptySeq
        <4> DEFINE tail == Carried(chunks[n - 2])
        <4>2. StartsWith(chunks[n - 1], tail)
          BY <3>4, <4>1
        <4>3. tail \in Seq(Int)
          <5>1. chunks[n - 2] \in Seq(Int)
            BY <1>0, <3>1, <4>1 DEF n
          <5>2. ConsistentParameters
            BY <1>5 DEF IInv, MergeSliver
          <5>. QED
            BY <1>0, <5>1, <5>2, CarriedLength
        <4> HIDE DEF tail
        <4>4. StartsWith(joined, tail)
          BY <3>1, <3>3, <4>2, <4>3, StartsWithTransitive
        <4>. QED
          BY <3>2, <4>1, <4>4 DEF tail
      <3>7. Linked(chunks')
        BY <3>1, <3>2, <3>3, <3>5, <3>6, AppendLinked
      <3>. QED
        BY <1>02, <2>1, <3>7 DEF Stitched
    <2>. QED
      BY <2>2, <2>3
  <1>6. CASE Start
    <2>1. chunks = <<>> /\ chunks' = chunks
      BY <1>6 DEF IInv, Start
    <2>. QED
      BY <1>02, <2>1 DEF Stitched
  <1>7. CASE Wrap \/ UNCHANGED vars
    <2>1. /\ chunks' = chunks /\ current' = current
          /\ pc' = "paragraphs" => pc = "paragraphs"
      BY <1>7 DEF Wrap, vars
    <2>. QED
      BY <1>01, <1>02, <2>1 DEF Stitched, StartsWith
  <1>. QED
    BY <1>1, <1>2, <1>3, <1>4, <1>5, <1>6, <1>7 DEF Next

\* A chunk starts with the end of the one before, on every path of the split.
THEOREM OverlapsEverywhere == Spec => []ChunksOverlap
  <1>1. Init => IInv /\ Stitched
    BY InitInv DEF Init, Stitched, Linked
  <1>2. IInv /\ Stitched /\ [Next]_vars => (IInv /\ Stitched)'
    BY NextInv, NextStitched
  <1>3. IInv /\ Stitched => ChunksOverlap
    <2> SUFFICES ASSUME IInv, Stitched, pc = "done", NEW i \in 1 .. Len(chunks) - 1
                 PROVE  LET tail == Carried(chunks[i])
                        IN  SubSeq(chunks[i + 1], 1, Len(tail)) = tail
      BY DEF ChunksOverlap
    <2> DEFINE tail == Carried(chunks[i])
               next == chunks[i + 1]
    <2>1. chunks[i] \in Seq(Int) /\ next \in Seq(Int)
      BY LenProperties DEF IInv, TypeOK
    <2>2. tail \in Seq(Int) /\ Len(tail) \in Nat
      BY <2>1, CarriedLength, LenProperties DEF IInv, TypeOK
    <2>3. Len(tail) <= Len(next) /\ \A k \in 1 .. Len(tail) : next[k] = tail[k]
      BY DEF Stitched, Linked, StartsWith
    <2> HIDE DEF tail, next
    <2>4. /\ SubSeq(next, 1, Len(tail)) \in Seq(Int)
          /\ Len(SubSeq(next, 1, Len(tail))) = Len(tail)
          /\ \A k \in 1 .. Len(tail) : SubSeq(next, 1, Len(tail))[k] = tail[k]
      BY <2>1, <2>2, <2>3
    <2>5. SubSeq(next, 1, Len(tail)) = tail
      BY <2>2, <2>4, SeqEqual
    <2>. QED
      BY <2>5 DEF tail, next
  <1>. QED
    BY <1>1, <1>2, <1>3, PTL DEF Spec
-----------------------------------------------------------------------------
(* Positions.                                                              *)

\* The overlap is the end of the string.
LEMMA CarriedAt ==
    ASSUME max_chars \in Int, overlap_chars \in Int, ConsistentParameters, NEW s \in Seq(Int)
    PROVE  /\ Carried(s) \in Seq(Int)
           /\ Len(Carried(s)) = IF overlap_chars >= Len(s) THEN Len(s) ELSE overlap_chars
           /\ \A i \in 1 .. Len(Carried(s)) : Carried(s)[i] = s[Len(s) - Len(Carried(s)) + i]
  <1>1. CASE overlap_chars >= Len(s)
    BY <1>1, LenProperties DEF Carried
  <1>2. CASE ~(overlap_chars >= Len(s))
    BY <1>2, LenProperties DEF Carried, ConsistentParameters
  <1>. QED
    BY <1>1, <1>2

\* One string after another.
LEMMA ConcatAt ==
    ASSUME NEW s \in Seq(Int), NEW t \in Seq(Int)
    PROVE  /\ s \o t \in Seq(Int) /\ Len(s \o t) = Len(s) + Len(t)
           /\ \A i \in 1 .. Len(s) : (s \o t)[i] = s[i]
           /\ \A i \in 1 .. Len(t) : (s \o t)[Len(s) + i] = t[i]
  <1>1. /\ Len(s) \in Nat /\ Len(t) \in Nat /\ s \o t \in Seq(Int)
        /\ Len(s \o t) = Len(s) + Len(t)
        /\ \A i \in 1 .. Len(s) + Len(t) :
               (s \o t)[i] = IF i <= Len(s) THEN s[i] ELSE t[i - Len(s)]
    BY ConcatProperties, LenProperties
  <1>2. \A i \in 1 .. Len(s) : (s \o t)[i] = s[i]
    BY <1>1
  <1>3. \A i \in 1 .. Len(t) : (s \o t)[Len(s) + i] = t[i]
    BY <1>1
  <1>. QED
    BY <1>1, <1>2, <1>3

\* A join: the one string, two newlines, the other.
LEMMA JoinAt ==
    ASSUME NEW s \in Seq(Int), NEW t \in Seq(Int)
    PROVE  /\ Join(s, t) \in Seq(Int)
           /\ Len(Join(s, t)) = Len(s) + 2 + Len(t)
           /\ \A i \in 1 .. Len(s) : Join(s, t)[i] = s[i]
           /\ \A i \in Len(s) + 1 .. Len(s) + 2 : Join(s, t)[i] = 0
           /\ \A i \in 1 .. Len(t) : Join(s, t)[Len(s) + 2 + i] = t[i]
  <1> DEFINE separator == <<0, 0>>
             front == s \o separator
             n == Len(s)
  <1>1. n \in Nat /\ Len(t) \in Nat
    BY LenProperties
  <1>2. separator \in Seq(Int) /\ Len(separator) = 2 /\ separator[1] = 0 /\ separator[2] = 0
    OBVIOUS
  <1>3. Join(s, t) = front \o t
    BY DEF Join
  <1> HIDE DEF separator
  <1>4. /\ front \in Seq(Int) /\ Len(front) = n + Len(separator)
        /\ \A i \in 1 .. n : front[i] = s[i]
        /\ \A i \in 1 .. Len(separator) : front[n + i] = separator[i]
    BY <1>2, ConcatAt
  <1> HIDE DEF front
  <1>5. /\ front \o t \in Seq(Int) /\ Len(front \o t) = Len(front) + Len(t)
        /\ \A i \in 1 .. Len(front) : (front \o t)[i] = front[i]
        /\ \A i \in 1 .. Len(t) : (front \o t)[Len(front) + i] = t[i]
    BY <1>4, ConcatAt
  <1> HIDE DEF n
  <1>6. \A i \in 1 .. n : Join(s, t)[i] = s[i]
    BY <1>1, <1>2, <1>3, <1>4, <1>5
  <1>7. \A i \in n + 1 .. n + 2 : Join(s, t)[i] = 0
    <2> SUFFICES ASSUME NEW i \in n + 1 .. n + 2 PROVE Join(s, t)[i] = 0
      OBVIOUS
    <2>1. i - n \in 1 .. Len(separator) /\ n + (i - n) = i /\ i \in 1 .. Len(front)
      BY <1>1, <1>2, <1>4
    <2>2. Join(s, t)[i] = separator[i - n]
      BY <1>3, <1>4, <1>5, <2>1
    <2>3. i - n = 1 \/ i - n = 2
      BY <1>1
    <2>. QED
      BY <1>2, <2>2, <2>3
  <1>8. \A i \in 1 .. Len(t) : Join(s, t)[n + 2 + i] = t[i]
    BY <1>1, <1>2, <1>3, <1>4, <1>5
  <1>9. Join(s, t) \in Seq(Int) /\ Len(Join(s, t)) = n + 2 + Len(t)
    BY <1>1, <1>2, <1>3, <1>4, <1>5
  <1>. QED
    BY <1>6, <1>7, <1>8, <1>9 DEF n

\* A cut: what is left is the string without all but the overlap of its head.
LEMMA CutAt ==
    ASSUME max_chars \in Int, overlap_chars \in Int, ConsistentParameters,
           NEW s \in Seq(Int), Len(s) > max_chars
    PROVE  LET head == SubSeq(s, 1, max_chars)
               rest == SubSeq(s, max_chars + 1, Len(s))
               left == Carried(head) \o rest
               skipped == max_chars - overlap_chars
           IN  /\ head \in Seq(Int) /\ Len(head) = max_chars
               /\ \A i \in 1 .. max_chars : head[i] = s[i]
               /\ left \in Seq(Int) /\ Len(left) = Len(s) - skipped
               /\ \A i \in 1 .. Len(left) : left[i] = s[skipped + i]
  <1> DEFINE head == SubSeq(s, 1, max_chars)
             rest == SubSeq(s, max_chars + 1, Len(s))
             tail == Carried(head)
             left == tail \o rest
             n == Len(s)
             m == max_chars
             o == overlap_chars
  <1>0. n \in Nat /\ m \in Nat /\ o \in Nat /\ m < n /\ o < m
    BY LenProperties DEF ConsistentParameters
  <1>1. /\ head \in Seq(Int) /\ Len(head) = m
        /\ \A i \in 1 .. m : head[i] = s[i]
    BY <1>0
  <1>2. /\ rest \in Seq(Int) /\ Len(rest) = n - m
        /\ \A i \in 1 .. n - m : rest[i] = s[m + i]
    BY <1>0
  <1>3. /\ tail \in Seq(Int) /\ Len(tail) = o
        /\ \A i \in 1 .. o : tail[i] = head[m - o + i]
    <2> HIDE DEF head
    <2>1. /\ Carried(head) \in Seq(Int)
          /\ Len(Carried(head)) = IF overlap_chars >= Len(head) THEN Len(head) ELSE overlap_chars
          /\ \A i \in 1 .. Len(Carried(head)) :
                 Carried(head)[i] = head[Len(head) - Len(Carried(head)) + i]
      BY <1>1, CarriedAt
    <2>. QED
      BY <1>0, <1>1, <2>1
  <1> HIDE DEF head, rest, tail
  <1>4. /\ left \in Seq(Int) /\ Len(left) = o + (n - m)
        /\ \A i \in 1 .. o : left[i] = tail[i]
        /\ \A i \in 1 .. n - m : left[o + i] = rest[i]
    <2>1. /\ left \in Seq(Int) /\ Len(left) = Len(tail) + Len(rest)
          /\ \A i \in 1 .. Len(tail) : left[i] = tail[i]
          /\ \A i \in 1 .. Len(rest) : left[Len(tail) + i] = rest[i]
      BY <1>2, <1>3, ConcatAt
    <2> HIDE DEF left
    <2>. QED
      BY <1>2, <1>3, <2>1
  <1> HIDE DEF left
  <1>5. ASSUME NEW i \in 1 .. o + (n - m) PROVE left[i] = s[(m - o) + i]
    <2>1. CASE i <= o
      <3>1. i \in 1 .. o /\ m - o + i \in 1 .. m
        BY <1>0, <2>1
      <3>. QED
        BY <1>1, <1>3, <1>4, <2>1, <3>1
    <2>2. CASE ~(i <= o)
      <3>1. i - o \in 1 .. n - m /\ m + (i - o) = (m - o) + i
        BY <1>0, <2>2
      <3>2. left[i] = rest[i - o]
        <4>1. o + (i - o) = i
          BY <1>0
        <4>. QED
          BY <1>4, <3>1, <4>1
      <3>3. rest[i - o] = s[m + (i - o)]
        BY <1>2, <3>1
      <3>. QED
        BY <3>1, <3>2, <3>3
    <2>. QED
      BY <2>1, <2>2
  <1>6. Len(left) = n - (m - o)
    BY <1>0, <1>4
  <1>7. \A i \in 1 .. Len(left) : left[i] = s[(m - o) + i]
    BY <1>4, <1>5
  <1>. QED
    BY <1>1, <1>4, <1>6, <1>7 DEF head, rest, tail, left, n, m, o

\* All chunks but the last two.
LEMMA FrontOf ==
    ASSUME NEW c \in Seq(Seq(Int)), Len(c) >= 2
    PROVE  LET front == SubSeq(c, 1, Len(c) - 2) IN
           /\ front \in Seq(Seq(Int)) /\ Len(front) = Len(c) - 2
           /\ \A i \in 1 .. Len(c) - 2 : front[i] = c[i]
  <1> DEFINE n == Len(c)
             front == SubSeq(c, 1, n - 2)
  <1>1. n \in Nat /\ n - 2 \in Nat /\ \A i \in 1 .. n - 2 : c[i] \in Seq(Int)
    BY LenProperties
  <1>2. /\ front \in Seq(Seq(Int))
        /\ Len(front) = IF 1 <= n - 2 THEN n - 2 - 1 + 1 ELSE 0
        /\ \A i \in 1 .. n - 2 - 1 + 1 : front[i] = c[1 + i - 1]
    BY <1>1, SubSeqProperties
  <1> HIDE DEF front, n
  <1>3. /\ front \in Seq(Seq(Int)) /\ Len(front) = n - 2
        /\ \A i \in 1 .. n - 2 : front[i] = c[i]
    BY <1>1, <1>2
  <1>. QED
    BY <1>3 DEF front, n

-----------------------------------------------------------------------------
(* The input.                                                              *)

\* The input is never assigned.
LEMMA InputStays ==
    ASSUME [Next]_vars
    PROVE  text' = text /\ max_chars' = max_chars /\ overlap_chars' = overlap_chars
  BY DEF Next, Start, Merge, Overflow, HardSplit, Flush, MergeSliver, Wrap, input, vars

\* The next paragraph is one of the text, and not one of those read.
LEMMA NextParagraph ==
    ASSUME TypeOK, Kept, Stripped(text), paragraphs # <<>>
    PROVE  LET j == Len(text) - Len(paragraphs) + 1
               p == Head(paragraphs)
           IN  /\ j \in DOMAIN text /\ p = text[j] /\ p \in Seq(Int)
               /\ Len(p) \in Nat /\ Len(p) >= 1 /\ p[1] > 0 /\ p[Len(p)] > 0
               /\ \A i \in 1 .. Len(p) : p[i] # 0
               /\ Len(Tail(paragraphs)) = Len(paragraphs) - 1
  <1> DEFINE j == Len(text) - Len(paragraphs) + 1
             p == Head(paragraphs)
  <1>1. /\ Len(text) \in Nat /\ Len(paragraphs) \in Nat /\ Len(paragraphs) >= 1
        /\ Len(paragraphs) <= Len(text) /\ DOMAIN text = 1 .. Len(text)
        /\ p = paragraphs[1] /\ Len(Tail(paragraphs)) = Len(paragraphs) - 1
    BY EmptySeq, LenProperties DEF TypeOK, Kept
  <1>2. j \in DOMAIN text /\ p = text[j]
    <2>1. 1 \in 1 .. Len(paragraphs) /\ Len(text) - Len(paragraphs) + 1 = j
      BY <1>1
    <2>2. paragraphs[1] = text[Len(text) - Len(paragraphs) + 1]
      BY <2>1 DEF Kept
    <2>. QED
      BY <1>1, <2>2
  <1>3. text[j] \in Seq(Int)
    BY <1>2 DEF TypeOK
  <1> HIDE DEF j, p
  <1>4. Len(p) \in Nat /\ DOMAIN p = 1 .. Len(p)
    BY <1>2, <1>3, LenProperties
  <1>5. p # <<>> /\ p[1] > 0 /\ p[Len(p)] > 0 /\ \A i \in DOMAIN p : p[i] # 0
    BY <1>2 DEF Stripped
  <1>6. Len(p) >= 1
    BY <1>2, <1>3, <1>4, <1>5, EmptySeq
  <1>. QED
    BY <1>1, <1>2, <1>3, <1>4, <1>5, <1>6 DEF j, p

-----------------------------------------------------------------------------
(* Blanks.                                                                 *)

\* Why a chunk may be blank.
Excused == HasLongBlanks \/ (max_chars = 2 /\ overlap_chars = 1)

\* Of the chunk being built, the last character is visible, and as many blanks
\* in a row as a chunk is long are excused; so is a blank chunk.
BlanksMatch ==
    /\ current # <<>> => current[Len(current)] > 0
    /\ pc = "paragraphs" =>
           \A k \in 0 .. Len(current) - max_chars :
               (\A l \in 1 .. max_chars : current[k + l] <= 0) => Excused
    /\ \A i \in DOMAIN chunks : Blank(chunks[i]) => Excused
    /\ pc = "value_error" /\ ConsistentParameters => Excused

\* A string that ends visibly is not blank.
LEMMA NotBlank ==
    ASSUME NEW s \in Seq(Int), s # <<>>, s[Len(s)] > 0
    PROVE  ~Blank(s)
  <1>1. Len(s) \in DOMAIN s /\ s[Len(s)] \in Int
    BY EmptySeq, LenProperties
  <1>. QED
    BY <1>1 DEF Blank

\* One chunk more that is not blank, or excused.
LEMMA AppendBlank ==
    ASSUME NEW s \in Seq(Int), chunks \in Seq(Seq(Int)), Blank(s) => Excused,
           \A i \in DOMAIN chunks : Blank(chunks[i]) => Excused
    PROVE  \A i \in DOMAIN Append(chunks, s) : Blank(Append(chunks, s)[i]) => Excused
  <1> DEFINE n == Len(chunks)
             a == Append(chunks, s)
  <1>1. /\ n \in Nat /\ DOMAIN a = 1 .. n + 1 /\ a[n + 1] = s
        /\ DOMAIN chunks = 1 .. n /\ \A i \in 1 .. n : a[i] = chunks[i]
    BY LenProperties, AppendProperties
  <1> HIDE DEF n, a
  <1>2. ASSUME NEW i \in DOMAIN a, Blank(a[i]) PROVE Excused
    <2>1. CASE i = n + 1
      BY <1>1, <1>2, <2>1
    <2>2. CASE i \in 1 .. n
      BY <1>1, <1>2, <2>2
    <2>. QED
      BY <1>1, <2>1, <2>2
  <1>. QED
    BY <1>2 DEF a

\* The end of what is made of a chunk and a paragraph is the paragraph's.
LEMMA JoinEnds ==
    ASSUME NEW s \in Seq(Int), NEW t \in Seq(Int), Len(t) >= 1, t[Len(t)] > 0
    PROVE  Join(s, t)[Len(Join(s, t))] > 0
  <1>1. Len(s) \in Nat /\ Len(t) \in Nat /\ Len(t) \in 1 .. Len(t)
    BY LenProperties
  <1>2. Len(Join(s, t)) = Len(s) + 2 + Len(t)
    BY JoinAt
  <1>3. Join(s, t)[Len(s) + 2 + Len(t)] = t[Len(t)]
    BY <1>1, JoinAt
  <1>. QED
    BY <1>2, <1>3

\* A join with a string that is not blank is not.
LEMMA JoinBlank ==
    ASSUME NEW s \in Seq(Int), NEW t \in Seq(Int), Blank(Join(s, t))
    PROVE  Blank(s)
  <1> DEFINE m == Len(s)
             n == Len(t)
             z == Join(s, t)
  <1>1. m \in Nat /\ n \in Nat /\ DOMAIN s = 1 .. m
    BY LenProperties
  <1>2. z \in Seq(Int) /\ Len(z) = m + 2 + n /\ \A i \in 1 .. m : z[i] = s[i]
    BY JoinAt
  <1>3. DOMAIN z = 1 .. Len(z) /\ \A i \in DOMAIN z : z[i] <= 0
    BY <1>2, LenProperties DEF Blank
  <1> HIDE DEF m, n, z
  <1>4. ASSUME NEW i \in 1 .. m PROVE s[i] <= 0
    <2>1. i \in DOMAIN z
      BY <1>1, <1>2, <1>3
    <2>. QED
      BY <1>2, <1>3, <2>1
  <1>. QED
    BY <1>1, <1>4 DEF Blank

\* A run of blanks within a paragraph is what the excuse is about.
LEMMA RunInParagraph ==
    ASSUME max_chars \in Int, NEW j \in DOMAIN text, text[j] \in Seq(Int),
           \A i \in 1 .. Len(text[j]) : text[j][i] # 0,
           NEW k \in 0 .. Len(text[j]) - max_chars,
           \A l \in 1 .. max_chars : text[j][k + l] <= 0
    PROVE  Excused
  <1> DEFINE p == text[j]
  <1>1. Len(p) \in Nat /\ DOMAIN p = 1 .. Len(p)
    BY LenProperties
  <1>2. ASSUME NEW l \in 1 .. max_chars PROVE p[k + l] < 0
    <2>1. k + l \in 1 .. Len(p) /\ p[k + l] \in Int
      BY <1>1
    <2>2. p[k + l] # 0 /\ p[k + l] <= 0
      BY <2>1
    <2>. QED
      BY <2>1, <2>2
  <1>. QED
    BY <1>2 DEF Excused, HasLongBlanks

\* After an overlap that ends visibly, a run of blanks is within the paragraph,
\* unless the chunk is as short as the separator.
LEMMA RunInJoin ==
    ASSUME max_chars \in Int, overlap_chars \in Int, ConsistentParameters, overlap_chars # 0,
           NEW c \in Seq(Int), Len(c) >= 1, Len(c) <= overlap_chars, c[Len(c)] > 0,
           NEW j \in DOMAIN text, text[j] \in Seq(Int), Len(text[j]) >= 1, text[j][1] > 0,
           \A i \in 1 .. Len(text[j]) : text[j][i] # 0,
           NEW k \in 0 .. Len(Join(c, text[j])) - max_chars,
           \A l \in 1 .. max_chars : Join(c, text[j])[k + l] <= 0
    PROVE  Excused
  <1> DEFINE p == text[j]
             n == Len(c)
             z == Join(c, p)
  <1>1. /\ n \in Nat /\ n >= 1 /\ Len(p) \in Nat /\ Len(p) >= 1 /\ n < max_chars
        /\ max_chars \in Nat /\ overlap_chars \in Nat /\ overlap_chars >= 1
        /\ overlap_chars < max_chars /\ k \in Nat
    BY LenProperties DEF ConsistentParameters
  <1>2. /\ Len(z) = n + 2 + Len(p)
        /\ \A i \in 1 .. n : z[i] = c[i]
        /\ \A i \in 1 .. Len(p) : z[n + 2 + i] = p[i]
    BY JoinAt
  <1>3. k <= Len(z) - max_chars /\ \A l \in 1 .. max_chars : z[k + l] <= 0
    OBVIOUS
  <1>4. c[n] > 0 /\ p[1] > 0 /\ c[n] \in Int /\ p[1] \in Int
    BY <1>1
  <1>5. p \in Seq(Int) /\ \A i \in 1 .. Len(p) : p[i] # 0
    OBVIOUS
  <1> HIDE DEF z, n, p
  <1>6. CASE k + 1 <= n
    <2>1. n - k \in 1 .. max_chars /\ k + (n - k) = n /\ n \in 1 .. n
      BY <1>1, <1>6
    <2>2. z[n] <= 0 /\ z[n] = c[n]
      BY <1>2, <1>3, <2>1
    <2>. QED
      BY <1>4, <2>2
  <1>7. CASE n <= k /\ k <= n + 2
    <2>1. CASE max_chars >= 3
      <3>1. n + 3 - k \in 1 .. max_chars /\ k + (n + 3 - k) = n + 2 + 1 /\ 1 \in 1 .. Len(p)
        BY <1>1, <1>7, <2>1
      <3>2. z[n + 2 + 1] <= 0 /\ z[n + 2 + 1] = p[1]
        BY <1>2, <1>3, <3>1
      <3>. QED
        BY <1>4, <3>2
    <2>2. CASE max_chars < 3
      <3>1. max_chars = 2 /\ overlap_chars = 1
        BY <1>1, <2>2
      <3>. QED
        BY <3>1 DEF Excused
    <2>. QED
      BY <1>1, <2>1, <2>2
  <1>8. CASE k > n + 2
    <2>1. k - (n + 2) \in 0 .. Len(p) - max_chars
      <3>1. k <= n + 2 + Len(p) - max_chars
        BY <1>1, <1>2, <1>3
      <3> DEFINE m == Len(p)
      <3>2. m \in Nat
        BY <1>1
      <3> HIDE DEF m
      <3>3. k - (n + 2) \in 0 .. m - max_chars
        BY <1>1, <1>8, <3>1, <3>2 DEF m
      <3>. QED
        BY <3>3 DEF m
    <2>2. ASSUME NEW l \in 1 .. max_chars PROVE p[(k - (n + 2)) + l] <= 0
      <3>1. /\ (k - (n + 2)) + l \in 1 .. Len(p)
            /\ n + 2 + ((k - (n + 2)) + l) = k + l
        BY <1>1, <1>2, <1>3, <1>8
      <3>2. z[k + l] = p[(k - (n + 2)) + l]
        BY <1>2, <3>1
      <3>. QED
        BY <1>3, <3>2
    <2>. QED
      BY <1>5, <2>1, <2>2, RunInParagraph DEF p
  <1>. QED
    BY <1>1, <1>6, <1>7, <1>8

\* Every step keeps what is known of blanks.
LEMMA NextBlanks ==
    ASSUME IInv, Kept, Stripped(text), BlanksMatch, [Next]_vars
    PROVE  BlanksMatch'
  <1>0. /\ TypeOK /\ current \in Seq(Int) /\ chunks \in Seq(Seq(Int))
        /\ max_chars \in Int /\ overlap_chars \in Int
        /\ Len(current) \in Nat /\ (current # <<>> => Len(current) >= 1)
    BY EmptySeq, LenProperties DEF IInv, TypeOK
  <1>01. /\ max_chars' = max_chars /\ overlap_chars' = overlap_chars
         /\ Excused' = Excused /\ ConsistentParameters' = ConsistentParameters
    BY InputStays DEF Excused, HasLongBlanks, ConsistentParameters
  <1>02. current # <<>> => ~Blank(current)
    BY <1>0, NotBlank DEF BlanksMatch
  <1>03. \A s : Blank(s)' = Blank(s)
    BY DEF Blank
  <1>1. CASE Merge
    <2> DEFINE p == Head(paragraphs)
    <2>1. /\ pc = "paragraphs" /\ pc' = pc /\ chunks' = chunks /\ current' = Candidate
          /\ Len(Candidate) <= max_chars /\ paragraphs # <<>> /\ ConsistentParameters
      BY <1>1 DEF IInv, Merge, ReadsParagraph
    <2>2. p \in Seq(Int) /\ Len(p) >= 1 /\ p[Len(p)] > 0
      BY <1>0, <2>1, NextParagraph
    <2> HIDE DEF p
    <2>3. Candidate \in Seq(Int) /\ Candidate[Len(Candidate)] > 0
      BY <1>0, <2>2, JoinAt, JoinEnds DEF Candidate, p
    <2>4. ASSUME NEW k \in 0 .. Len(Candidate) - max_chars,
                 \A l \in 1 .. max_chars : Candidate[k + l] <= 0
          PROVE  FALSE
      <3>1. /\ Len(Candidate) \in Nat /\ max_chars \in 1 .. max_chars
            /\ k = 0 /\ k + max_chars = Len(Candidate)
        BY <1>0, <2>1, <2>3, LenProperties DEF ConsistentParameters
      <3>2. Candidate[Len(Candidate)] <= 0
        BY <2>4, <3>1
      <3>3. Candidate[Len(Candidate)] \in Int
        BY <1>0, <2>1, <2>3, <3>1 DEF ConsistentParameters
      <3>. QED
        BY <2>3, <3>2, <3>3
    <2>. QED
      BY <1>01, <1>03, <2>1, <2>3, <2>4 DEF BlanksMatch
  <1>2. CASE Overflow
    <2> DEFINE p == Head(paragraphs)
               j == Len(text) - Len(paragraphs) + 1
               c == Carried(current)
    <2>1. /\ pc = "paragraphs" /\ pc' = pc /\ paragraphs # <<>> /\ ConsistentParameters
          /\ chunks' = IF current = <<>> THEN chunks ELSE Append(chunks, current)
          /\ current' = IF current = <<>> \/ overlap_chars = 0 THEN p ELSE Join(c, p)
      BY <1>2 DEF IInv, Overflow, ReadsParagraph
    <2>2. /\ p \in Seq(Int) /\ Len(p) >= 1 /\ p[1] > 0 /\ p[Len(p)] > 0
          /\ j \in DOMAIN text /\ p = text[j] /\ \A i \in 1 .. Len(p) : p[i] # 0
      BY <1>0, <2>1, NextParagraph
    <2>3. ASSUME current # <<>>, overlap_chars # 0
          PROVE  c \in Seq(Int) /\ Len(c) >= 1 /\ Len(c) <= overlap_chars /\ c[Len(c)] > 0
      <3>1. /\ c \in Seq(Int)
            /\ Len(c) = IF overlap_chars >= Len(current) THEN Len(current) ELSE overlap_chars
            /\ \A i \in 1 .. Len(c) : c[i] = current[Len(current) - Len(c) + i]
        BY <1>0, <2>1, CarriedAt
      <3> HIDE DEF c
      <3>2. Len(c) \in 1 .. Len(c) /\ Len(current) - Len(c) + Len(c) = Len(current)
        BY <1>0, <2>1, <2>3, <3>1 DEF ConsistentParameters
      <3>3. c[Len(c)] = current[Len(current)]
        BY <3>1, <3>2
      <3>. QED
        BY <1>0, <2>1, <2>3, <3>1, <3>2, <3>3 DEF BlanksMatch, ConsistentParameters
    <2> HIDE DEF p, j, c
    <2>4. \A i \in DOMAIN chunks' : Blank(chunks'[i]) => Excused
      BY <1>0, <1>02, <2>1, AppendBlank DEF BlanksMatch
    <2>5. current'[Len(current')] > 0
      BY <2>1, <2>2, <2>3, JoinEnds
    <2>6. ASSUME NEW k \in 0 .. Len(current') - max_chars,
                 \A l \in 1 .. max_chars : current'[k + l] <= 0
          PROVE  Excused
      <3>1. CASE current = <<>> \/ overlap_chars = 0
        BY <1>0, <2>1, <2>2, <2>6, <3>1, RunInParagraph
      <3>2. CASE ~(current = <<>> \/ overlap_chars = 0)
        BY <1>0, <2>1, <2>2, <2>3, <2>6, <3>2, RunInJoin
      <3>. QED
        BY <3>1, <3>2
    <2>. QED
      BY <1>01, <1>03, <2>1, <2>4, <2>5, <2>6 DEF BlanksMatch
  <1>3. CASE HardSplit
    <2> DEFINE head == SubSeq(current, 1, max_chars)
               skipped == max_chars - overlap_chars
    <2>1. /\ pc = "paragraphs" /\ pc' = pc /\ ConsistentParameters
          /\ Len(current) > max_chars /\ chunks' = Append(chunks, head)
          /\ current' = Carried(head) \o SubSeq(current, max_chars + 1, Len(current))
      BY <1>3 DEF IInv, HardSplit
    <2>2. /\ head \in Seq(Int) /\ Len(head) = max_chars
          /\ \A i \in 1 .. max_chars : head[i] = current[i]
          /\ current' \in Seq(Int) /\ Len(current') = Len(current) - skipped
          /\ \A i \in 1 .. Len(current') : current'[i] = current[skipped + i]
      BY <1>0, <2>1, CutAt
    <2> HIDE DEF head
    <2>3. Blank(head) => Excused
      <3> SUFFICES ASSUME Blank(head) PROVE Excused
        OBVIOUS
      <3>1. DOMAIN head = 1 .. max_chars /\ max_chars \in Nat
        BY <2>1, <2>2, LenProperties DEF ConsistentParameters
      <3>2. 0 \in 0 .. Len(current) - max_chars
        BY <1>0, <2>1
      <3>3. ASSUME NEW l \in 1 .. max_chars PROVE current[0 + l] <= 0
        <4>1. head[l] <= 0 /\ 0 + l = l
          BY <3>1 DEF Blank
        <4>. QED
          BY <2>2, <4>1
      <3>. QED
        BY <2>1, <3>2, <3>3 DEF BlanksMatch
    <2>4. \A i \in DOMAIN chunks' : Blank(chunks'[i]) => Excused
      BY <1>0, <2>1, <2>2, <2>3, AppendBlank DEF BlanksMatch
    <2>5. current'[Len(current')] > 0
      <3>1. Len(current') \in 1 .. Len(current') /\ skipped + Len(current') = Len(current)
        BY <1>0, <2>1, <2>2 DEF ConsistentParameters
      <3>2. current # <<>>
        BY <1>0, <2>1, EmptySeq DEF ConsistentParameters
      <3>. QED
        BY <2>2, <3>1, <3>2 DEF BlanksMatch
    <2>6. ASSUME NEW k \in 0 .. Len(current') - max_chars,
                 \A l \in 1 .. max_chars : current'[k + l] <= 0
          PROVE  Excused
      <3>1. skipped + k \in 0 .. Len(current) - max_chars
        BY <1>0, <2>1, <2>2 DEF ConsistentParameters
      <3>2. ASSUME NEW l \in 1 .. max_chars PROVE current[(skipped + k) + l] <= 0
        <4>1. k + l \in 1 .. Len(current') /\ skipped + (k + l) = (skipped + k) + l
          BY <1>0, <2>1, <2>2 DEF ConsistentParameters
        <4>. QED
          BY <2>2, <2>6, <4>1
      <3>. QED
        BY <2>1, <3>1, <3>2 DEF BlanksMatch
    <2>. QED
      BY <1>01, <1>03, <2>1, <2>4, <2>5, <2>6 DEF BlanksMatch
  <1>4. CASE Flush
    <2>1. /\ pc' = "sliver" /\ current' = current
          /\ chunks' = IF current = <<>> THEN chunks ELSE Append(chunks, current)
      BY <1>4 DEF Flush
    <2>2. \A i \in DOMAIN chunks' : Blank(chunks'[i]) => Excused
      BY <1>0, <1>02, <2>1, AppendBlank DEF BlanksMatch
    <2>. QED
      BY <1>01, <1>03, <2>1, <2>2 DEF BlanksMatch
  <1>5. CASE MergeSliver
    <2>1. pc' = "wrap" /\ current' = current
      BY <1>5 DEF MergeSliver
    <2>2. CASE ~HasSliver
      BY <1>01, <1>03, <1>5, <2>1, <2>2 DEF MergeSliver, BlanksMatch
    <2>3. CASE HasSliver
      <3> DEFINE n == Len(chunks)
                 front == SubSeq(chunks, 1, n - 2)
                 joined == Join(chunks[n - 1], chunks[n])
      <3>1. /\ n \in Nat /\ n >= 2 /\ chunks' = Append(front, joined)
            /\ DOMAIN chunks = 1 .. n
            /\ chunks[n - 1] \in Seq(Int) /\ chunks[n] \in Seq(Int)
        BY <1>0, <1>5, <2>3, LenProperties DEF MergeSliver, HasSliver
      <3>2. /\ front \in Seq(Seq(Int)) /\ Len(front) = n - 2
            /\ \A i \in 1 .. n - 2 : front[i] = chunks[i]
        BY <1>0, <3>1, FrontOf
      <3>3. Blank(joined) => Blank(chunks[n - 1])
        BY <3>1, JoinBlank
      <3>4. joined \in Seq(Int)
        BY <3>1, JoinAt
      <3> HIDE DEF n, front, joined
      <3>5. ASSUME NEW i \in DOMAIN chunks', Blank(chunks'[i]) PROVE Excused
        <4>1. /\ DOMAIN chunks' = 1 .. n - 1 /\ chunks'[n - 1] = joined
              /\ \A m \in 1 .. n - 2 : chunks'[m] = chunks[m]
          BY <3>1, <3>2, <3>4, LenProperties, AppendProperties
        <4>2. CASE i = n - 1
          <5>1. n - 1 \in DOMAIN chunks
            BY <3>1
          <5>. QED
            BY <3>3, <3>5, <4>1, <4>2, <5>1 DEF BlanksMatch
        <4>3. CASE i \in 1 .. n - 2
          <5>1. i \in DOMAIN chunks
            BY <3>1, <4>3
          <5>. QED
            BY <3>5, <4>1, <4>3, <5>1 DEF BlanksMatch
        <4>. QED
          BY <3>1, <4>1, <4>2, <4>3
      <3>. QED
        BY <1>01, <1>03, <2>1, <3>5 DEF BlanksMatch
    <2>. QED
      BY <2>2, <2>3
  <1>6. CASE Wrap
    <2>1. /\ current' = current /\ chunks' = chunks /\ pc' # "paragraphs"
          /\ pc' = "value_error" => \E i \in DOMAIN chunks : Blank(chunks[i])
      BY <1>6 DEF Wrap
    <2>. QED
      BY <1>01, <1>03, <2>1 DEF BlanksMatch
  <1>7. CASE Start
    <2>1. /\ current' = <<>> /\ chunks' = chunks
          /\ pc' = "paragraphs" => ConsistentParameters
          /\ pc' = "value_error" => ~ConsistentParameters
      BY <1>7 DEF IInv, Start
    <2>2. pc' = "paragraphs" => 0 .. Len(current') - max_chars = {}
      BY <1>0, <2>1 DEF ConsistentParameters
    <2>. QED
      BY <1>01, <1>03, <2>1, <2>2 DEF BlanksMatch
  <1>8. CASE UNCHANGED vars
    BY <1>01, <1>03, <1>8 DEF vars, BlanksMatch
  <1>. QED
    BY <1>1, <1>2, <1>3, <1>4, <1>5, <1>6, <1>7, <1>8 DEF Next

\* What is known of the text and its blanks holds throughout the call.
LEMMA BlanksInvariance == Spec => [](IInv /\ Kept /\ Stripped(text) /\ BlanksMatch)
  <1>1. Init => IInv /\ Kept /\ Stripped(text) /\ BlanksMatch
    <2> SUFFICES ASSUME Init PROVE Stripped(text) /\ BlanksMatch
      BY InitInv, InitKept
    <2>1. Stripped(text)
      BY TextsAssumption DEF Init
    <2>. QED
      BY <2>1 DEF Init, BlanksMatch
  <1>2. Stripped(text) /\ [Next]_vars => Stripped(text)'
    BY InputStays DEF Stripped
  <1>3. IInv /\ Kept /\ Stripped(text) /\ BlanksMatch /\ [Next]_vars
            => (IInv /\ Kept /\ Stripped(text) /\ BlanksMatch)'
    BY <1>2, NextInv, NextKept, NextBlanks
  <1>. QED
    BY <1>1, <1>3, PTL DEF Spec

\* With consistent parameters only a run of blanks as long as a chunk makes a
\* chunk blank, or a separator that is as long as one.
THEOREM OnlyLongBlanksFail == Spec => []FailsOnlyOnLongBlanks
  <1>1. BlanksMatch => FailsOnlyOnLongBlanks
    BY DEF BlanksMatch, FailsOnlyOnLongBlanks, Excused
  <1>. QED
    BY <1>1, BlanksInvariance, PTL

-----------------------------------------------------------------------------
(* New text.                                                               *)

\* There is room in a chunk for the overlap, a separator and more.
Roomy == overlap_chars + 2 < max_chars

\* Each chunk has text that those before it have not.
Adding(c) ==
    \A i \in DOMAIN c : \E x \in Characters(c[i]) :
        x # 0 /\ \A j \in 1 .. i - 1 : x \notin Characters(c[j])

\* After at most the overlap and a separator, all the text of s is new.
NewAfter(s, c) ==
    \E f \in 0 .. overlap_chars + 2 :
        /\ f < Len(s)
        /\ \A k \in f + 1 .. Len(s) : s[k] = 0 \/ s[k] \notin AllCharacters(c)

\* Nothing but inserted newlines occurs twice.
Distinct(s) == \A k, l \in DOMAIN s : s[k] = s[l] /\ s[k] # 0 => k = l

\* A character is of the first n paragraphs.
IsRead(x, n) == x = 0 \/ \E i \in 1 .. n : x \in Characters(text[i])

\* The chunk being built begins with what is repeated and goes on with new
\* text; an inserted newline is not where it will be cut.
AddsMatch ==
    /\ Adding(chunks)
    /\ pc = "paragraphs" =>
           /\ current = <<>> => chunks = <<>>
           /\ chunks # <<>> => NewAfter(current, chunks)
           /\ Distinct(current)
           /\ Len(current) > max_chars =>
                  \A k \in overlap_chars + 3 .. Len(current) : current[k] # 0
           /\ \A x \in Characters(current) \cup AllCharacters(chunks) :
                  IsRead(x, Len(text) - Len(paragraphs))

\* The characters of a string are those at its positions.
LEMMA CharactersAt ==
    ASSUME NEW s \in Seq(Int)
    PROVE  /\ Len(s) \in Nat /\ DOMAIN s = 1 .. Len(s)
           /\ Characters(s) = {s[i] : i \in 1 .. Len(s)}
  BY LenProperties DEF Characters

\* A chunk that brings new text.
LEMMA AppendAdding ==
    ASSUME NEW c \in Seq(Seq(Int)), NEW s \in Seq(Int), Adding(c),
           NEW x \in Characters(s), x # 0, x \notin AllCharacters(c)
    PROVE  Adding(Append(c, s))
  <1> DEFINE n == Len(c)
             a == Append(c, s)
  <1>1. /\ n \in Nat /\ DOMAIN a = 1 .. n + 1 /\ a[n + 1] = s
        /\ DOMAIN c = 1 .. n /\ \A i \in 1 .. n : a[i] = c[i]
    BY LenProperties, AppendProperties
  <1>2. \A i \in 1 .. n : x \notin Characters(c[i])
    BY <1>1 DEF AllCharacters
  <1> HIDE DEF n, a
  <1>3. ASSUME NEW i \in 1 .. n + 1
        PROVE  \E y \in Characters(a[i]) :
                   y # 0 /\ \A j \in 1 .. i - 1 : y \notin Characters(a[j])
    <2>1. \A j \in 1 .. i - 1 : j \in 1 .. n /\ a[j] = c[j]
      BY <1>1
    <2>2. CASE i = n + 1
      BY <1>1, <1>2, <2>1, <2>2
    <2>3. CASE i # n + 1
      <3>1. i \in 1 .. n /\ a[i] = c[i]
        BY <1>1, <2>3
      <3>2. PICK y \in Characters(c[i]) :
                y # 0 /\ \A j \in 1 .. i - 1 : y \notin Characters(c[j])
        BY <1>1, <3>1 DEF Adding
      <3>. QED
        BY <2>1, <3>1, <3>2
    <2>. QED
      BY <2>2, <2>3
  <1>. QED
    BY <1>1, <1>3 DEF Adding, a

\* The end of the chunk being built is new.
LEMMA EndIsNew ==
    ASSUME current \in Seq(Int), current # <<>>, current[Len(current)] > 0,
           overlap_chars \in Nat, chunks # <<>> => NewAfter(current, chunks)
    PROVE  \E x \in Characters(current) : x # 0 /\ x \notin AllCharacters(chunks)
  <1> DEFINE n == Len(current)
  <1>1. n \in Nat /\ n \in 1 .. n /\ current[n] \in Characters(current) /\ current[n] \in Int
    BY EmptySeq, LenProperties, CharactersAt
  <1>2. CASE chunks = <<>>
    BY <1>1, <1>2 DEF AllCharacters
  <1>3. CASE chunks # <<>>
    <2>1. PICK f \in 0 .. overlap_chars + 2 :
              /\ f < n
              /\ \A k \in f + 1 .. n : current[k] = 0 \/ current[k] \notin AllCharacters(chunks)
      BY <1>3 DEF NewAfter
    <2>2. n \in f + 1 .. n
      BY <1>1, <2>1
    <2>. QED
      BY <1>1, <2>1, <2>2
  <1>. QED
    BY <1>2, <1>3

\* What a paragraph brings was not read before.
LEMMA ParagraphIsNew ==
    ASSUME Stripped(text), NEW j \in DOMAIN text, NEW i \in DOMAIN text[j]
    PROVE  /\ ~IsRead(text[j][i], j - 1)
           /\ IsRead(text[j][i], j)
           /\ \A l \in DOMAIN text[j] : text[j][i] = text[j][l] => i = l
  <1>1. text \in Seq(Seq(Int)) /\ DOMAIN text = 1 .. Len(text) /\ Len(text) \in Nat
    BY LenProperties DEF Stripped
  <1>2. \A p, q \in DOMAIN text : \A k \in DOMAIN text[p], l \in DOMAIN text[q] :
            text[p][k] # 0 /\ (text[p][k] = text[q][l] => p = q /\ k = l)
    BY DEF Stripped
  <1>3. ASSUME NEW q \in 1 .. j - 1, text[j][i] \in Characters(text[q]) PROVE FALSE
    <2>1. q \in DOMAIN text /\ q # j
      BY <1>1
    <2>2. PICK l \in DOMAIN text[q] : text[j][i] = text[q][l]
      BY <1>3 DEF Characters
    <2>. QED
      BY <1>2, <2>1, <2>2
  <1>4. j \in 1 .. j /\ text[j][i] \in Characters(text[j])
    BY <1>1 DEF Characters
  <1>. QED
    BY <1>2, <1>3, <1>4 DEF IsRead

\* A position of a join is in the one string, the separator or the other.
LEMMA JoinCases ==
    ASSUME NEW s \in Seq(Int), NEW t \in Seq(Int), NEW k \in 1 .. Len(Join(s, t))
    PROVE  \/ k \in 1 .. Len(s) /\ Join(s, t)[k] = s[k]
           \/ k \in Len(s) + 1 .. Len(s) + 2 /\ Join(s, t)[k] = 0
           \/ k - (Len(s) + 2) \in 1 .. Len(t) /\ Join(s, t)[k] = t[k - (Len(s) + 2)]
  <1> DEFINE m == Len(s)
             n == Len(t)
             z == Join(s, t)
  <1>1. m \in Nat /\ n \in Nat
    BY LenProperties
  <1>2. /\ Len(z) = m + 2 + n
        /\ \A i \in 1 .. m : z[i] = s[i]
        /\ \A i \in m + 1 .. m + 2 : z[i] = 0
        /\ \A i \in 1 .. n : z[m + 2 + i] = t[i]
    BY JoinAt
  <1>3. k \in 1 .. Len(z)
    OBVIOUS
  <1> HIDE DEF m, n, z
  <1>4. CASE k <= m
    BY <1>1, <1>2, <1>3, <1>4 DEF m, n, z
  <1>5. CASE m < k /\ k <= m + 2
    BY <1>1, <1>2, <1>3, <1>5 DEF m, n, z
  <1>6. CASE m + 2 < k
    <2>1. k - (m + 2) \in 1 .. n /\ m + 2 + (k - (m + 2)) = k
      BY <1>1, <1>2, <1>3, <1>6
    <2>2. z[k] = t[k - (m + 2)]
      BY <1>2, <2>1
    <2>. QED
      BY <2>1, <2>2 DEF m, n, z
  <1>. QED
    BY <1>1, <1>3, <1>4, <1>5, <1>6

\* A paragraph put after what was read.
LEMMA JoinParagraph ==
    ASSUME Stripped(text), NEW j \in DOMAIN text, text[j] \in Seq(Int),
           NEW c \in Seq(Int), Distinct(c), \A x \in Characters(c) : IsRead(x, j - 1)
    PROVE  /\ Distinct(Join(c, text[j]))
           /\ \A x \in Characters(Join(c, text[j])) : IsRead(x, j)
  <1> DEFINE p == text[j]
             z == Join(c, p)
             m == Len(c)
  <1>1. z \in Seq(Int)
    BY JoinAt
  <1>2. /\ m \in Nat /\ DOMAIN c = 1 .. m /\ DOMAIN z = 1 .. Len(z) /\ DOMAIN p = 1 .. Len(p)
        /\ Len(z) \in Nat /\ Len(p) \in Nat
    BY <1>1, LenProperties
  <1>3. \A k \in 1 .. Len(z) :
            \/ k \in 1 .. m /\ z[k] = c[k]
            \/ k \in m + 1 .. m + 2 /\ z[k] = 0
            \/ k - (m + 2) \in 1 .. Len(p) /\ z[k] = p[k - (m + 2)]
    BY JoinCases
  <1>4. \A i \in 1 .. Len(p) : ~IsRead(p[i], j - 1) /\ IsRead(p[i], j)
    BY <1>2, ParagraphIsNew
  <1>5. \A i, l \in 1 .. Len(p) : p[i] = p[l] => i = l
    BY <1>2, ParagraphIsNew
  <1>6. \A i \in 1 .. m : IsRead(c[i], j - 1)
    BY <1>2 DEF Characters
  <1>7. \A x : IsRead(x, j - 1) => IsRead(x, j)
    <2>1. j \in Int /\ \A i \in 1 .. j - 1 : i \in 1 .. j
      BY LenProperties DEF Stripped
    <2>. QED
      BY <2>1 DEF IsRead
  <1> HIDE DEF p, z, m
  <1>8. ASSUME NEW k \in 1 .. Len(z), NEW l \in 1 .. Len(z), z[k] = z[l], z[k] # 0
        PROVE  k = l
    <2>1. CASE k \in 1 .. m /\ z[k] = c[k] /\ l \in 1 .. m /\ z[l] = c[l]
      BY <1>2, <1>8, <2>1 DEF Distinct
    <2>2. CASE /\ k - (m + 2) \in 1 .. Len(p) /\ z[k] = p[k - (m + 2)]
               /\ l - (m + 2) \in 1 .. Len(p) /\ z[l] = p[l - (m + 2)]
      <3>1. k - (m + 2) = l - (m + 2)
        BY <1>5, <1>8, <2>2
      <3>. QED
        BY <1>2, <3>1
    <2>3. CASE /\ k \in 1 .. m /\ z[k] = c[k]
               /\ l - (m + 2) \in 1 .. Len(p) /\ z[l] = p[l - (m + 2)]
      BY <1>4, <1>6, <1>8, <2>3
    <2>4. CASE /\ l \in 1 .. m /\ z[l] = c[l]
               /\ k - (m + 2) \in 1 .. Len(p) /\ z[k] = p[k - (m + 2)]
      BY <1>4, <1>6, <1>8, <2>4
    <2>. QED
      BY <1>3, <1>8, <2>1, <2>2, <2>3, <2>4
  <1>9. ASSUME NEW k \in 1 .. Len(z) PROVE IsRead(z[k], j)
    <2>1. CASE k \in 1 .. m /\ z[k] = c[k]
      BY <1>6, <1>7, <2>1
    <2>2. CASE z[k] = 0
      BY <2>2 DEF IsRead
    <2>3. CASE k - (m + 2) \in 1 .. Len(p) /\ z[k] = p[k - (m + 2)]
      BY <1>4, <2>3
    <2>. QED
      BY <1>3, <2>1, <2>2, <2>3
  <1>10. Distinct(z)
    BY <1>2, <1>8 DEF Distinct
  <1>11. \A x \in Characters(z) : IsRead(x, j)
    BY <1>2, <1>9 DEF Characters
  <1>. QED
    BY <1>10, <1>11 DEF p, z

\* A paragraph that starts a chunk.
LEMMA AloneParagraph ==
    ASSUME Stripped(text), NEW j \in DOMAIN text
    PROVE  Distinct(text[j]) /\ \A x \in Characters(text[j]) : IsRead(x, j)
  BY ParagraphIsNew DEF Distinct, Characters

\* A part of a string.
LEMMA PartIsDistinct ==
    ASSUME NEW s \in Seq(Int), Distinct(s), NEW t \in Seq(Int), NEW d \in Nat,
           d + Len(t) <= Len(s), \A i \in 1 .. Len(t) : t[i] = s[d + i]
    PROVE  Distinct(t) /\ Characters(t) \subseteq Characters(s)
  <1>1. /\ Len(s) \in Nat /\ DOMAIN s = 1 .. Len(s)
        /\ Len(t) \in Nat /\ DOMAIN t = 1 .. Len(t)
    BY LenProperties
  <1>2. \A i \in 1 .. Len(t) : d + i \in 1 .. Len(s)
    BY <1>1
  <1>3. ASSUME NEW k \in 1 .. Len(t), NEW l \in 1 .. Len(t), t[k] = t[l], t[k] # 0 PROVE k = l
    <2>1. d + k = d + l
      BY <1>1, <1>2, <1>3 DEF Distinct
    <2>. QED
      BY <2>1
  <1>4. Distinct(t)
    BY <1>1, <1>3 DEF Distinct
  <1>5. \A i \in 1 .. Len(t) : t[i] \in Characters(s)
    BY <1>1, <1>2 DEF Characters
  <1>. QED
    BY <1>1, <1>4, <1>5 DEF Characters

\* What a step that goes on building a chunk has to show.
LEMMA AddsAgain ==
    ASSUME text' = text, max_chars' = max_chars, overlap_chars' = overlap_chars,
           Adding(chunks'), current' \in Seq(Int), Len(current') >= 1,
           chunks' # <<>> => NewAfter(current', chunks'), Distinct(current'),
           Len(current') > max_chars =>
               \A k \in overlap_chars + 3 .. Len(current') : current'[k] # 0,
           \A x \in Characters(current') \cup AllCharacters(chunks') :
               IsRead(x, Len(text) - Len(paragraphs'))
    PROVE  AddsMatch'
  <1>1. current' # <<>>
    BY EmptySeq
  <1>2. Adding(chunks)'
    BY DEF Adding, Characters
  <1>3. Distinct(current)'
    BY DEF Distinct
  <1>4. (chunks # <<>>)' => NewAfter(current, chunks)'
    BY DEF NewAfter, AllCharacters, Characters
  <1>5. (Len(current) > max_chars)' => \A k \in (overlap_chars + 3 .. Len(current))' : current'[k] # 0
    OBVIOUS
  <1>6. \A x \in (Characters(current) \cup AllCharacters(chunks))' :
            IsRead(x, Len(text) - Len(paragraphs))'
    BY DEF IsRead, AllCharacters, Characters
  <1>. QED
    BY <1>1, <1>2, <1>3, <1>4, <1>5, <1>6, Zenon DEF AddsMatch

\* Reading a paragraph brings new text.
LEMMA MergeAdds ==
    ASSUME IInv, Kept, Stripped(text), BlanksMatch, AddsMatch, Roomy, Merge
    PROVE  AddsMatch'
  <1> DEFINE p == Head(paragraphs)
             n == Len(text) - Len(paragraphs)
             j == n + 1
  <1>1. /\ TypeOK /\ current \in Seq(Int) /\ max_chars \in Int /\ overlap_chars \in Int
        /\ pc = "paragraphs" /\ pc' = pc /\ chunks' = chunks /\ current' = Candidate
        /\ paragraphs' = Tail(paragraphs) /\ text' = text /\ max_chars' = max_chars
        /\ overlap_chars' = overlap_chars /\ Len(Candidate) <= max_chars
        /\ paragraphs # <<>> /\ ConsistentParameters
    BY DEF IInv, TypeOK, Merge, ReadsParagraph, input
  <1>2. /\ j \in DOMAIN text /\ p = text[j] /\ p \in Seq(Int) /\ Len(p) \in Nat
        /\ Len(p) >= 1 /\ DOMAIN p = 1 .. Len(p)
        /\ Len(paragraphs') = Len(paragraphs) - 1
        /\ Len(text) \in Nat /\ Len(paragraphs) \in Nat
    BY <1>1, NextParagraph, LenProperties DEF TypeOK
  <1>3. /\ Adding(chunks) /\ (current = <<>> => chunks = <<>>)
        /\ (chunks # <<>> => NewAfter(current, chunks)) /\ Distinct(current)
        /\ \A x \in Characters(current) \cup AllCharacters(chunks) : IsRead(x, n)
    BY <1>1 DEF AddsMatch
  <1>4. j = Len(text) - Len(paragraphs') /\ j - 1 = n /\ j \in Int
    BY <1>2
  <1> HIDE DEF p, n, j
  <1>5. \A x : IsRead(x, n) => IsRead(x, j)
    <2>1. \A i \in 1 .. n : i \in 1 .. j
      BY <1>4
    <2>. QED
      BY <2>1 DEF IsRead
  <1>6. Candidate \in Seq(Int) /\ Len(Candidate) \in Nat /\ Candidate # <<>>
    <2>1. Candidate \in Seq(Int) /\ Len(Candidate) >= 1
      BY <1>1, <1>2, JoinAt, LenProperties DEF Candidate, p
    <2>. QED
      BY <2>1, LenProperties, EmptySeq
  <1>7. Distinct(Candidate) /\ \A x \in Characters(Candidate) : IsRead(x, j)
    <2>1. CASE current = <<>>
      BY <1>2, <2>1, AloneParagraph DEF Candidate, p
    <2>2. CASE current # <<>>
      BY <1>1, <1>2, <1>3, <1>4, <2>2, JoinParagraph DEF Candidate, p
    <2>. QED
      BY <2>1, <2>2
  <1>8. ASSUME chunks # <<>> PROVE NewAfter(Candidate, chunks)
    <2>1. current # <<>> /\ Candidate = Join(current, p)
      BY <1>3, <1>8 DEF Candidate, p
    <2>2. PICK f \in 0 .. overlap_chars + 2 :
              /\ f < Len(current)
              /\ \A k \in f + 1 .. Len(current) :
                     current[k] = 0 \/ current[k] \notin AllCharacters(chunks)
      BY <1>3, <1>8 DEF NewAfter
    <2>3. Len(current) \in Nat /\ Len(Candidate) = Len(current) + 2 + Len(p)
      BY <1>1, <1>2, <2>1, JoinAt, LenProperties
    <2>4. ASSUME NEW k \in f + 1 .. Len(Candidate)
          PROVE  Candidate[k] = 0 \/ Candidate[k] \notin AllCharacters(chunks)
      <3>1. k \in 1 .. Len(Candidate)
        BY <2>2, <2>3
      <3>2. \/ k \in 1 .. Len(current) /\ Candidate[k] = current[k]
            \/ Candidate[k] = 0
            \/ /\ k - (Len(current) + 2) \in 1 .. Len(p)
               /\ Candidate[k] = p[k - (Len(current) + 2)]
        BY <1>1, <1>2, <2>1, <3>1, JoinCases
      <3>3. CASE k \in 1 .. Len(current) /\ Candidate[k] = current[k]
        BY <2>2, <3>3
      <3>4. CASE /\ k - (Len(current) + 2) \in 1 .. Len(p)
                 /\ Candidate[k] = p[k - (Len(current) + 2)]
        <4>1. ~IsRead(Candidate[k], n)
          BY <1>2, <1>4, <3>4, ParagraphIsNew
        <4>. QED
          BY <1>3, <4>1
      <3>. QED
        BY <3>2, <3>3, <3>4
    <2>5. f \in 0 .. overlap_chars + 2 /\ f < Len(Candidate)
      BY <1>2, <2>2, <2>3
    <2>. QED
      BY <2>4, <2>5 DEF NewAfter
  <1>9. \A x \in Characters(Candidate) \cup AllCharacters(chunks) : IsRead(x, j)
    BY <1>3, <1>5, <1>7
  <1>. QED
    BY <1>1, <1>3, <1>4, <1>6, <1>7, <1>8, <1>9, AddsAgain, LenProperties, EmptySeq

\* So does a paragraph that starts a chunk with the end of the last one.
LEMMA OverflowAdds ==
    ASSUME IInv, Kept, Stripped(text), BlanksMatch, AddsMatch, Roomy, Overflow
    PROVE  AddsMatch'
  <1> DEFINE p == Head(paragraphs)
             n == Len(text) - Len(paragraphs)
             j == n + 1
             c == Carried(current)
  <1>1. /\ TypeOK /\ current \in Seq(Int) /\ max_chars \in Int /\ overlap_chars \in Int
        /\ chunks \in Seq(Seq(Int)) /\ pc = "paragraphs" /\ pc' = pc
        /\ chunks' = IF current = <<>> THEN chunks ELSE Append(chunks, current)
        /\ current' = IF current = <<>> \/ overlap_chars = 0 THEN p ELSE Join(c, p)
        /\ paragraphs' = Tail(paragraphs) /\ text' = text /\ max_chars' = max_chars
        /\ overlap_chars' = overlap_chars
        /\ paragraphs # <<>> /\ ConsistentParameters
    BY DEF IInv, TypeOK, Overflow, ReadsParagraph, input
  <1>2. /\ j \in DOMAIN text /\ p = text[j] /\ p \in Seq(Int) /\ Len(p) \in Nat
        /\ Len(p) >= 1 /\ DOMAIN p = 1 .. Len(p) /\ \A i \in 1 .. Len(p) : p[i] # 0
        /\ Len(paragraphs') = Len(paragraphs) - 1
        /\ Len(text) \in Nat /\ Len(paragraphs) \in Nat
    BY <1>1, NextParagraph, LenProperties DEF TypeOK
  <1>3. /\ Adding(chunks) /\ (current = <<>> => chunks = <<>>)
        /\ (chunks # <<>> => NewAfter(current, chunks)) /\ Distinct(current)
        /\ \A x \in Characters(current) \cup AllCharacters(chunks) : IsRead(x, n)
    BY <1>1 DEF AddsMatch
  <1>4. j = Len(text) - Len(paragraphs') /\ j - 1 = n /\ j \in Int
        /\ overlap_chars \in Nat
    BY <1>1, <1>2 DEF ConsistentParameters
  <1> HIDE DEF p, n, j, c
  <1>5. \A x : IsRead(x, n) => IsRead(x, j)
    <2>1. \A i \in 1 .. n : i \in 1 .. j
      BY <1>4
    <2>. QED
      BY <2>1 DEF IsRead
  <1>6. Adding(chunks')
    <2>1. CASE current = <<>>
      BY <1>1, <1>3, <2>1
    <2>2. CASE current # <<>>
      <3>1. \E x \in Characters(current) : x # 0 /\ x \notin AllCharacters(chunks)
        BY <1>1, <1>3, <1>4, <2>2, EndIsNew DEF BlanksMatch
      <3>. QED
        BY <1>1, <1>3, <2>2, <3>1, AppendAdding
    <2>. QED
      BY <2>1, <2>2
  <1>7. \A x \in AllCharacters(chunks') : IsRead(x, n)
    <2>1. AllCharacters(chunks') \subseteq AllCharacters(chunks) \cup Characters(current)
      BY <1>1, AppendCharacters
    <2>. QED
      BY <1>3, <2>1
  <1>8. \A i \in 1 .. Len(p) : p[i] \notin AllCharacters(chunks')
    BY <1>2, <1>4, <1>7, ParagraphIsNew
  <1>9. CASE current = <<>> \/ overlap_chars = 0
    <2>1. current' = p
      BY <1>1, <1>9
    <2>2. Distinct(p) /\ \A x \in Characters(p) : IsRead(x, j)
      BY <1>2, AloneParagraph
    <2>3. NewAfter(p, chunks')
      <3>1. 0 \in 0 .. overlap_chars + 2 /\ 0 < Len(p)
        BY <1>2, <1>4
      <3>. QED
        BY <1>8, <3>1 DEF NewAfter
    <2>4. \A k \in overlap_chars + 3 .. Len(p) : p[k] # 0
      BY <1>2, <1>4
    <2>. QED
      BY <1>1, <1>2, <1>4, <1>5, <1>6, <1>7, <2>1, <2>2, <2>3, <2>4, AddsAgain
  <1>10. CASE ~(current = <<>> \/ overlap_chars = 0)
    <2>1. current' = Join(c, p)
      BY <1>1, <1>10
    <2>2. /\ c \in Seq(Int) /\ Len(c) \in Nat /\ Len(c) <= overlap_chars
          /\ Len(c) <= Len(current) /\ Len(current) \in Nat
          /\ \A i \in 1 .. Len(c) : c[i] = current[Len(current) - Len(c) + i]
      BY <1>1, CarriedAt, LenProperties DEF c
    <2>3. Distinct(c) /\ Characters(c) \subseteq Characters(current)
      <3>1. Len(current) - Len(c) \in Nat /\ Len(current) - Len(c) + Len(c) <= Len(current)
        BY <2>2
      <3>. QED
        BY <1>1, <1>3, <2>2, <3>1, PartIsDistinct
    <2>4. Distinct(Join(c, p)) /\ \A x \in Characters(Join(c, p)) : IsRead(x, j)
      BY <1>2, <1>3, <1>4, <2>2, <2>3, JoinParagraph
    <2>5. Join(c, p) \in Seq(Int) /\ Len(Join(c, p)) = Len(c) + 2 + Len(p)
      BY <1>2, <2>2, JoinAt
    <2>6. ASSUME NEW k \in Len(c) + 3 .. Len(Join(c, p))
          PROVE  Join(c, p)[k] # 0 /\ Join(c, p)[k] \notin AllCharacters(chunks')
      <3>1. k \in 1 .. Len(Join(c, p)) /\ k \notin 1 .. Len(c) + 2
        BY <2>2, <2>5
      <3>2. k - (Len(c) + 2) \in 1 .. Len(p) /\ Join(c, p)[k] = p[k - (Len(c) + 2)]
        BY <1>2, <2>2, <3>1, JoinCases
      <3>. QED
        BY <1>2, <1>8, <3>2
    <2>7. NewAfter(Join(c, p), chunks')
      <3>1. /\ Len(c) + 2 \in 0 .. overlap_chars + 2 /\ Len(c) + 2 < Len(Join(c, p))
            /\ Len(c) + 2 + 1 = Len(c) + 3
        BY <1>2, <1>4, <2>2, <2>5
      <3>. QED
        BY <2>6, <3>1 DEF NewAfter
    <2>8. \A k \in overlap_chars + 3 .. Len(Join(c, p)) : Join(c, p)[k] # 0
      <3>1. \A k \in overlap_chars + 3 .. Len(Join(c, p)) :
                k \in Len(c) + 3 .. Len(Join(c, p))
        BY <1>4, <2>2
      <3>. QED
        BY <2>6, <3>1
    <2>9. Len(current') >= 1 /\ current' \in Seq(Int)
      BY <1>2, <2>1, <2>2, <2>5
    <2>. QED
      BY <1>1, <1>2, <1>4, <1>5, <1>6, <1>7, <2>1, <2>4, <2>7, <2>8, <2>9, AddsAgain
  <1>. QED
    BY <1>9, <1>10

\* A cut leaves new text behind the repeated overlap.
LEMMA HardSplitAdds ==
    ASSUME IInv, Kept, Stripped(text), BlanksMatch, AddsMatch, Roomy, HardSplit
    PROVE  AddsMatch'
  <1> DEFINE head == SubSeq(current, 1, max_chars)
             skipped == max_chars - overlap_chars
             n == Len(text) - Len(paragraphs)
  <1>1. /\ TypeOK /\ current \in Seq(Int) /\ max_chars \in Int /\ overlap_chars \in Int
        /\ chunks \in Seq(Seq(Int)) /\ pc = "paragraphs" /\ ConsistentParameters
        /\ Len(current) > max_chars /\ chunks' = Append(chunks, head)
        /\ current' = Carried(head) \o SubSeq(current, max_chars + 1, Len(current))
        /\ paragraphs' = paragraphs /\ text' = text /\ max_chars' = max_chars
        /\ overlap_chars' = overlap_chars
    BY DEF IInv, TypeOK, HardSplit, input
  <1>2. /\ head \in Seq(Int) /\ Len(head) = max_chars
        /\ \A i \in 1 .. max_chars : head[i] = current[i]
        /\ current' \in Seq(Int) /\ Len(current') = Len(current) - skipped
        /\ \A i \in 1 .. Len(current') : current'[i] = current[skipped + i]
    BY <1>1, CutAt
  <1>3. /\ Len(current) \in Nat /\ DOMAIN current = 1 .. Len(current)
        /\ DOMAIN head = 1 .. max_chars /\ Len(current') \in Nat
    BY <1>1, <1>2, LenProperties
  <1>4. /\ Adding(chunks) /\ (chunks # <<>> => NewAfter(current, chunks)) /\ Distinct(current)
        /\ \A k \in overlap_chars + 3 .. Len(current) : current[k] # 0
        /\ \A x \in Characters(current) \cup AllCharacters(chunks) : IsRead(x, n)
    BY <1>1 DEF AddsMatch
  <1>5. /\ overlap_chars \in Nat /\ max_chars \in Nat /\ skipped \in Nat /\ skipped >= 1
        /\ overlap_chars + 2 < max_chars /\ skipped + overlap_chars = max_chars
    BY <1>1 DEF ConsistentParameters, Roomy
  <1>51. Len(current') > overlap_chars /\ \A i \in 1 .. max_chars : i \in 1 .. Len(current)
    <2>1. Len(current) > max_chars
      BY <1>1
    <2>2. Len(current') = Len(current) - skipped
      BY <1>2
    <2> HIDE DEF skipped
    <2>. QED
      BY <1>3, <1>5, <2>1, <2>2
  <1> HIDE DEF head, skipped, n
  <1>6. ASSUME NEW k \in max_chars .. Len(current)
        PROVE  current[k] # 0 /\ current[k] \notin AllCharacters(chunks)
    <2>1. k \in overlap_chars + 3 .. Len(current)
      BY <1>3, <1>5
    <2>2. CASE chunks = <<>>
      BY <1>4, <2>1, <2>2 DEF AllCharacters
    <2>3. CASE chunks # <<>>
      <3>1. PICK f \in 0 .. overlap_chars + 2 :
                \A i \in f + 1 .. Len(current) :
                    current[i] = 0 \/ current[i] \notin AllCharacters(chunks)
        BY <1>4, <2>3 DEF NewAfter
      <3>2. k \in f + 1 .. Len(current)
        BY <1>3, <1>5, <3>1
      <3>. QED
        BY <1>4, <2>1, <3>1, <3>2
    <2>. QED
      BY <2>2, <2>3
  <1>7. Characters(head) \subseteq Characters(current)
    <2>1. 0 \in Nat /\ 0 + max_chars <= Len(current)
      BY <1>1, <1>3
    <2>2. \A i \in 1 .. max_chars : head[i] = current[0 + i]
      <3>1. \A i \in 1 .. max_chars : 0 + i = i
        OBVIOUS
      <3>. QED
        BY <1>2, <3>1
    <2>. QED
      BY <1>1, <1>2, <1>4, <2>1, <2>2, PartIsDistinct
  <1>8. Distinct(current') /\ Characters(current') \subseteq Characters(current)
    <2>1. skipped + Len(current') <= Len(current)
      BY <1>2, <1>3, <1>5
    <2>. QED
      BY <1>1, <1>2, <1>4, <1>5, <2>1, PartIsDistinct
  <1>9. AllCharacters(chunks') \subseteq AllCharacters(chunks) \cup Characters(head)
    BY <1>1, <1>2, AppendCharacters
  <1>10. Adding(chunks')
    <2>1. max_chars \in max_chars .. Len(current) /\ max_chars \in 1 .. max_chars
      BY <1>1, <1>3, <1>5
    <2>2. current[max_chars] \in Characters(head)
      BY <1>2, <1>3, <2>1 DEF Characters
    <2>3. current[max_chars] # 0 /\ current[max_chars] \notin AllCharacters(chunks)
      BY <1>6, <2>1
    <2>. QED
      BY <1>1, <1>2, <1>4, <2>2, <2>3, AppendAdding
  <1>11. NewAfter(current', chunks')
    <2>1. overlap_chars \in 0 .. overlap_chars + 2 /\ overlap_chars < Len(current')
      BY <1>5, <1>51
    <2>2. ASSUME NEW k \in overlap_chars + 1 .. Len(current')
          PROVE  current'[k] \notin AllCharacters(chunks')
      <3>1. /\ skipped + k \in max_chars .. Len(current) /\ skipped + k \notin 1 .. max_chars
            /\ k \in 1 .. Len(current') /\ skipped + k \in 1 .. Len(current)
        BY <1>2, <1>3, <1>5
      <3>2. /\ current'[k] = current[skipped + k] /\ current[skipped + k] # 0
            /\ current[skipped + k] \notin AllCharacters(chunks)
        BY <1>2, <1>6, <3>1
      <3>3. ASSUME NEW i \in 1 .. max_chars, head[i] = current[skipped + k] PROVE FALSE
        <4>1. i \in 1 .. Len(current) /\ current[i] = current[skipped + k]
          BY <1>2, <1>51, <3>3
        <4>2. i = skipped + k
          BY <1>3, <1>4, <3>1, <3>2, <4>1 DEF Distinct
        <4>. QED
          BY <3>1, <4>2
      <3>4. current[skipped + k] \notin Characters(head)
        BY <1>3, <3>3 DEF Characters
      <3>. QED
        BY <1>9, <3>2, <3>4
    <2>. QED
      BY <2>1, <2>2 DEF NewAfter
  <1>12. \A k \in overlap_chars + 3 .. Len(current') : current'[k] # 0
    <2>1. ASSUME NEW k \in overlap_chars + 3 .. Len(current') PROVE current'[k] # 0
      <3>1. skipped + k \in overlap_chars + 3 .. Len(current) /\ k \in 1 .. Len(current')
        BY <1>2, <1>3, <1>5
      <3>. QED
        BY <1>2, <1>4, <3>1
    <2>. QED
      BY <2>1
  <1>13. \A x \in Characters(current') \cup AllCharacters(chunks') :
             IsRead(x, Len(text) - Len(paragraphs'))
    BY <1>1, <1>4, <1>7, <1>8, <1>9 DEF n
  <1>14. Len(current') >= 1
    BY <1>3, <1>5, <1>51
  <1>. QED
    BY <1>1, <1>2, <1>8, <1>10, <1>11, <1>12, <1>13, <1>14, AddsAgain

\* The sliver that joins the last chunk but one leaves it its new text.
LEMMA MergeSliverAdds ==
    ASSUME IInv, AddsMatch, MergeSliver
    PROVE  Adding(chunks')
  <1>1. TypeOK /\ chunks \in Seq(Seq(Int)) /\ Adding(chunks)
    BY DEF IInv, TypeOK, AddsMatch
  <1>2. CASE ~HasSliver
    BY <1>1, <1>2 DEF MergeSliver
  <1>3. CASE HasSliver
    <2> DEFINE n == Len(chunks)
               front == SubSeq(chunks, 1, n - 2)
               joined == Join(chunks[n - 1], chunks[n])
    <2>1. /\ n \in Nat /\ n >= 2 /\ chunks' = Append(front, joined)
          /\ DOMAIN chunks = 1 .. n
          /\ chunks[n - 1] \in Seq(Int) /\ chunks[n] \in Seq(Int)
      BY <1>1, <1>3, LenProperties DEF MergeSliver, HasSliver
    <2>2. /\ front \in Seq(Seq(Int)) /\ Len(front) = n - 2
          /\ \A i \in 1 .. n - 2 : front[i] = chunks[i]
      BY <1>1, <2>1, FrontOf
    <2>3. joined \in Seq(Int) /\ Characters(chunks[n - 1]) \subseteq Characters(joined)
      <3>1. joined \in Seq(Int)
        BY <2>1, JoinAt
      <3>2. ASSUME NEW x \in Characters(chunks[n - 1]) PROVE x \in Characters(joined)
        BY <2>1, JoinCharacters
      <3>. QED
        BY <3>1, <3>2
    <2> HIDE DEF n, front, joined
    <2>4. DOMAIN front = 1 .. n - 2
      BY <2>2, LenProperties
    <2>5. Adding(front)
      <3>1. ASSUME NEW i \in 1 .. n - 2
            PROVE  \E x \in Characters(front[i]) :
                       x # 0 /\ \A j \in 1 .. i - 1 : x \notin Characters(front[j])
        <4>1. i \in DOMAIN chunks /\ \A j \in 1 .. i - 1 : j \in 1 .. n - 2
          BY <2>1
        <4>. QED
          BY <1>1, <2>2, <4>1 DEF Adding
      <3>. QED
        BY <2>4, <3>1 DEF Adding
    <2>6. PICK x \in Characters(chunks[n - 1]) :
              x # 0 /\ \A j \in 1 .. n - 2 : x \notin Characters(chunks[j])
      <3>1. n - 1 \in DOMAIN chunks /\ (n - 1) - 1 = n - 2
        BY <2>1
      <3>. QED
        BY <1>1, <3>1 DEF Adding
    <2>7. x \notin AllCharacters(front)
      BY <2>2, <2>4, <2>6 DEF AllCharacters
    <2>. QED
      BY <2>1, <2>2, <2>3, <2>5, <2>6, <2>7, AppendAdding
  <1>. QED
    BY <1>2, <1>3

\* Outside the loop only the chunks matter.
LEMMA AddsAtEnd ==
    ASSUME pc' # "paragraphs", Adding(chunks')
    PROVE  AddsMatch'
  <1>1. Adding(chunks)'
    BY DEF Adding, Characters
  <1>. QED
    BY <1>1 DEF AddsMatch

\* Every step keeps what is known of new text.
LEMMA NextAdds ==
    ASSUME IInv, Kept, Stripped(text), BlanksMatch, AddsMatch, Roomy, [Next]_vars
    PROVE  AddsMatch'
  <1>0. /\ TypeOK /\ current \in Seq(Int) /\ chunks \in Seq(Seq(Int))
        /\ Adding(chunks)
        /\ max_chars' = max_chars /\ overlap_chars' = overlap_chars /\ text' = text
    BY InputStays DEF IInv, TypeOK, AddsMatch
  <1>1. CASE Flush
    <2>1. /\ pc = "paragraphs" /\ pc' # "paragraphs" /\ overlap_chars \in Nat
          /\ chunks' = IF current = <<>> THEN chunks ELSE Append(chunks, current)
      BY <1>0, <1>1 DEF IInv, TypeOK, Flush, ConsistentParameters
    <2>2. Adding(chunks')
      <3>1. CASE current = <<>>
        BY <1>0, <2>1, <3>1
      <3>2. CASE current # <<>>
        <4>1. \E x \in Characters(current) : x # 0 /\ x \notin AllCharacters(chunks)
          BY <1>0, <2>1, <3>2, EndIsNew DEF BlanksMatch, AddsMatch
        <4>. QED
          BY <1>0, <2>1, <3>2, <4>1, AppendAdding
      <3>. QED
        BY <3>1, <3>2
    <2>. QED
      BY <2>1, <2>2, AddsAtEnd
  <1>2. CASE MergeSliver
    <2>1. pc' # "paragraphs" /\ Adding(chunks')
      BY <1>2, MergeSliverAdds DEF MergeSliver
    <2>. QED
      BY <2>1, AddsAtEnd
  <1>3. CASE Wrap
    <2>1. pc' # "paragraphs" /\ chunks' = chunks
      BY <1>3 DEF Wrap
    <2>. QED
      BY <1>0, <2>1, AddsAtEnd
  <1>4. CASE Start
    <2>1. /\ current' = <<>> /\ chunks' = <<>>
          /\ pc' = "paragraphs" => max_chars > 0
      BY <1>4 DEF IInv, Start, ConsistentParameters
    <2>2. Len(current') = 0 /\ DOMAIN current' = {} /\ DOMAIN chunks' = {}
      BY <2>1
    <2>3. Adding(chunks)' /\ Distinct(current)'
      BY <2>2 DEF Adding, Distinct
    <2>4. (Characters(current) \cup AllCharacters(chunks))' = {}
      BY <2>2 DEF Characters, AllCharacters
    <2>5. (pc = "paragraphs" => ~(Len(current) > max_chars))'
      <3>1. max_chars \in Int
        BY <1>0 DEF TypeOK
      <3>. QED
        BY <1>0, <2>1, <2>2, <3>1
    <2>. QED
      BY <2>1, <2>3, <2>4, <2>5, Zenon DEF AddsMatch
  <1>5. CASE UNCHANGED vars
    <2>1. /\ pc' = pc /\ text' = text /\ max_chars' = max_chars /\ chunks' = chunks
          /\ overlap_chars' = overlap_chars /\ paragraphs' = paragraphs /\ current' = current
      BY <1>5 DEF vars
    <2>2. Adding(chunks)'
      <3>1. Adding(chunks')
        BY <1>0, <2>1
      <3>. QED
        BY <3>1 DEF Adding, Characters
    <2>3. CASE pc # "paragraphs"
      BY <2>1, <2>2, <2>3 DEF AddsMatch
    <2>4. CASE pc = "paragraphs"
      <3>1. Distinct(current)'
        BY <2>1, <2>4 DEF AddsMatch, Distinct
      <3>2. (chunks # <<>>)' => NewAfter(current, chunks)'
        BY <2>1, <2>4 DEF AddsMatch, NewAfter, AllCharacters, Characters
      <3>3. (Len(current) > max_chars)' =>
                \A k \in (overlap_chars + 3 .. Len(current))' : current'[k] # 0
        BY <2>1, <2>4 DEF AddsMatch
      <3>4. \A x \in (Characters(current) \cup AllCharacters(chunks))' :
                IsRead(x, Len(text) - Len(paragraphs))'
        BY <2>1, <2>4 DEF AddsMatch, IsRead, AllCharacters, Characters
      <3>. QED
        BY <2>1, <2>2, <2>4, <3>1, <3>2, <3>3, <3>4, Zenon DEF AddsMatch
    <2>. QED
      BY <2>3, <2>4
  <1>. QED
    BY <1>1, <1>2, <1>3, <1>4, <1>5, MergeAdds, OverflowAdds, HardSplitAdds DEF Next

\* The invariant of a call that has room.
LEMMA AddsInvariance == Spec => [](Roomy => AddsMatch)
  <1>1. Init => AddsMatch
    BY DEF Init, AddsMatch, Adding
  <1>2. [Next]_vars /\ Roomy' => Roomy
    BY InputStays DEF Roomy
  <1>3. /\ IInv /\ Kept /\ Stripped(text) /\ BlanksMatch
        /\ (Roomy => AddsMatch) /\ [Next]_vars
        => (Roomy => AddsMatch)'
    BY <1>2, NextAdds
  <1>. QED
    BY <1>1, <1>3, BlanksInvariance, PTL DEF Spec

\* Every chunk of a finished call holds text that no earlier chunk holds.
THEOREM EveryChunkIsNew == Spec => []EveryChunkAddsText
  <1>1. TypeOK /\ (Roomy => AddsMatch) => EveryChunkAddsText
    <2> SUFFICES ASSUME TypeOK, Roomy => AddsMatch, pc = "done", Roomy,
                        NEW i \in DOMAIN chunks
                 PROVE  \E k \in DOMAIN chunks[i] :
                            /\ chunks[i][k] # 0
                            /\ \A j \in 1 .. i - 1 : \A l \in DOMAIN chunks[j] :
                                   chunks[j][l] # chunks[i][k]
      BY DEF EveryChunkAddsText, Roomy
    <2>1. PICK x \in Characters(chunks[i]) :
              x # 0 /\ \A j \in 1 .. i - 1 : x \notin Characters(chunks[j])
      BY DEF AddsMatch, Adding
    <2>2. PICK k \in DOMAIN chunks[i] : chunks[i][k] = x
      BY <2>1 DEF Characters
    <2>3. \A j \in 1 .. i - 1 : \A l \in DOMAIN chunks[j] : chunks[j][l] # x
      BY <2>1 DEF Characters
    <2>. QED
      BY <2>1, <2>2, <2>3
  <1>2. IInv => TypeOK
    BY DEF IInv
  <1>. QED
    BY <1>1, <1>2, BlanksInvariance, AddsInvariance, PTL

-----------------------------------------------------------------------------
(* Numbers and sets.                                                       *)

Less == {p \in Nat \X Nat : p[1] < p[2]}

\* The numbers are well founded.
LEMMA LessWellFounded == IsWellFoundedOn(Less, Nat)
  <1>1. Less = OpToRel(<, Nat)
    BY Zenon DEF Less, OpToRel
  <1>. QED
    BY <1>1, NatLessThanWellFounded, Zenon

\* A set of numbers has a least one.
LEMMA LeastNatural ==
  ASSUME NEW S, S \subseteq Nat, S # {}
  PROVE  \E n \in S : \A m \in S : n <= m
  <1>1. PICK n \in S : \A m \in S : ~(<<m, n>> \in Less)
    BY LessWellFounded, WFMin
  <1>2. ASSUME NEW m \in S PROVE n <= m
    <2>1. m \in Nat /\ n \in Nat /\ ~(<<m, n>> \in Less)
      BY <1>1
    <2>2. ~ (m < n)
      BY <2>1 DEF Less
    <2>. QED
      BY <2>1, <2>2
  <1>. QED
    BY <1>2

\* A finite set of numbers has a greatest one.
LEMMA GreatestNatural ==
  ASSUME NEW S, S \subseteq Nat, S # {}, IsFiniteSet(S)
  PROVE  Max(S) \in S /\ \A y \in S : Max(S) >= y
  <1> DEFINE Above(x) == {y \in S : y > x}
             counts == {Cardinality(Above(x)) : x \in S}
  <1>1. \A x \in S : IsFiniteSet(Above(x)) /\ Cardinality(Above(x)) \in Nat
    <2> TAKE x \in S
    <2>1. Above(x) \in SUBSET S
      OBVIOUS
    <2>. QED
      BY <2>1, FS_Subset, FS_CardinalityType
  <1>2. counts \subseteq Nat /\ counts # {}
    BY <1>1
  <1>3. PICK x \in S : \A y \in S : Cardinality(Above(x)) <= Cardinality(Above(y))
    <2> HIDE DEF Above
    <2>1. PICK n \in counts : \A m \in counts : n <= m
      BY <1>2, LeastNatural
    <2>. QED
      BY <2>1
  <1>4. ASSUME NEW y \in S PROVE x >= y
    <2> SUFFICES ASSUME y > x PROVE FALSE
      OBVIOUS
    <2>1. Above(y) \in SUBSET Above(x) /\ y \in Above(x) /\ y \notin Above(y)
      <3>1. x \in Nat /\ y \in Nat /\ \A z \in S : z \in Nat
        OBVIOUS
      <3>2. ~(y > y) /\ \A z \in S : z > y => z > x
        BY <3>1
      <3>. QED
        BY <3>2
    <2> HIDE DEF Above
    <2>2. Cardinality(Above(y)) <= Cardinality(Above(x))
          /\ Cardinality(Above(x)) # Cardinality(Above(y))
      BY <1>1, <2>1, FS_Subset
    <2>. QED
      BY <1>1, <1>3, <2>2
  <1>. QED
    BY <1>4 DEF Max

\* The least element is the minimum.
LEMMA LeastIsMin ==
  ASSUME NEW S, S \subseteq Nat, NEW x \in S, \A y \in S : x <= y
  PROVE  Min(S) = x
  <1>1. Min(S) \in S /\ \A y \in S : Min(S) <= y
    BY DEF Min
  <1>2. Min(S) \in Nat /\ x \in Nat /\ Min(S) <= x /\ x <= Min(S)
    BY <1>1
  <1>. QED
    BY <1>2

-----------------------------------------------------------------------------
(* Rankings.                                                               *)

\* The places at which a list of hits names a document for the first time.
Firsts(h) == {i \in DOMAIN h : \A j \in 1..(i - 1) : h[j].document # h[i].document}

\* How many of them there are up to a place.
Rank(h, i) == Cardinality(Firsts(h) \cap 1..i)

\* A list of hits is a sequence of hits.
LEMMA HitListSequence ==
  ASSUME NEW h \in HitLists
  PROVE  h \in Seq(Hit) /\ Len(h) \in Nat /\ DOMAIN h = 1..Len(h)
  BY EvaluationAssumption DEF HitLists

\* The documents of a list of hits are its ranking.
LEMMA RankingOf ==
  ASSUME NEW h
  PROVE  UniqueDocuments(h) =
           [n \in 1..Cardinality(Firsts(h)) |->
              h[CHOOSE i \in Firsts(h) : Rank(h, i) = n].document]
  BY Zenon DEF UniqueDocuments, Firsts, Rank

\* There are finitely many first places.
LEMMA FirstsFinite ==
  ASSUME NEW h \in HitLists
  PROVE  /\ IsFiniteSet(Firsts(h)) /\ Cardinality(Firsts(h)) \in Nat
         /\ Firsts(h) \subseteq 1..Len(h)
         /\ \A i \in Nat : IsFiniteSet(Firsts(h) \cap 1..i) /\ Rank(h, i) \in Nat
  <1>1. Firsts(h) \subseteq 1..Len(h) /\ IsFiniteSet(1..Len(h))
    <2>1. DOMAIN h = 1..Len(h) /\ Len(h) \in Int
      BY HitListSequence
    <2>. QED
      BY <2>1, FS_Interval DEF Firsts
  <1>2. IsFiniteSet(Firsts(h))
    BY <1>1, FS_Subset
  <1>. QED
    BY <1>1, <1>2, FS_Intersection, FS_CardinalityType DEF Rank

\* A first place is one more than the first places before it.
LEMMA RankSteps ==
  ASSUME NEW h \in HitLists, NEW i \in Firsts(h)
  PROVE  Rank(h, i) = Rank(h, i - 1) + 1
  <1>1. i \in Nat /\ i - 1 \in Nat
    BY FirstsFinite, HitListSequence
  <1>2. /\ Firsts(h) \cap 1..i = (Firsts(h) \cap 1..(i - 1)) \cup {i}
        /\ i \notin Firsts(h) \cap 1..(i - 1)
    BY <1>1
  <1>3. IsFiniteSet(Firsts(h) \cap 1..(i - 1))
    BY <1>1, FirstsFinite
  <1>. QED
    BY <1>2, <1>3, FS_AddElement DEF Rank

\* Ranks grow.
LEMMA RankGrows ==
  ASSUME NEW h \in HitLists, NEW i \in Firsts(h), NEW j \in Nat, j < i
  PROVE  Rank(h, j) < Rank(h, i)
  <1>1. i \in Nat /\ i - 1 \in Nat /\ j <= i - 1
    BY FirstsFinite, HitListSequence
  <1>2. Firsts(h) \cap 1..j \in SUBSET (Firsts(h) \cap 1..(i - 1))
    BY <1>1
  <1>3. Rank(h, j) <= Rank(h, i - 1)
    BY <1>1, <1>2, FirstsFinite, FS_Subset DEF Rank
  <1>4. Rank(h, i) = Rank(h, i - 1) + 1
    BY RankSteps
  <1>5. Rank(h, j) \in Nat /\ Rank(h, i - 1) \in Nat
    BY <1>1, FirstsFinite
  <1>. QED
    BY <1>3, <1>4, <1>5

\* Every place of the ranking is one of a first place, and of one only.
LEMMA RankNames ==
  ASSUME NEW h \in HitLists
  PROVE  /\ \A i \in Firsts(h) : Rank(h, i) \in 1..Cardinality(Firsts(h))
         /\ \A n \in 1..Cardinality(Firsts(h)) : \E i \in Firsts(h) : Rank(h, i) = n
         /\ \A i, j \in Firsts(h) : Rank(h, i) = Rank(h, j) => i = j
  <1> DEFINE F == Firsts(h)
             K == Cardinality(Firsts(h))
             f == [i \in F |-> Rank(h, i)]
  <1>1. /\ IsFiniteSet(F) /\ K \in Nat /\ F \subseteq Nat
        /\ \A i \in F : i - 1 \in Nat /\ Rank(h, i - 1) \in Nat /\ Rank(h, i) \in Nat
    <2>1. /\ IsFiniteSet(F) /\ K \in Nat /\ F \subseteq 1..Len(h)
          /\ \A i \in Nat : Rank(h, i) \in Nat
      BY FirstsFinite
    <2>2. \A i \in F : i \in Nat /\ i - 1 \in Nat
      <3>1. Len(h) \in Nat /\ \A i \in F : i \in 1..Len(h)
        BY <2>1, HitListSequence
      <3> HIDE DEF F
      <3>. QED
        BY <3>1
    <2>. QED
      BY <2>1, <2>2
  <1>2. ASSUME NEW i \in F PROVE Rank(h, i) \in 1..K
    <2>1. Rank(h, i) >= 1
      BY <1>1, RankSteps
    <2>2. F \cap 1..i \in SUBSET F
      OBVIOUS
    <2>3. Rank(h, i) <= K
      BY <1>1, <2>2, FS_Subset DEF Rank
    <2>. QED
      BY <1>1, <2>1, <2>3
  <1>3. ASSUME NEW i \in F, NEW j \in F, Rank(h, i) = Rank(h, j) PROVE i = j
    <2>1. i \in Nat /\ j \in Nat /\ ~(i < j) /\ ~(j < i)
      BY <1>1, <1>3, RankGrows
    <2>. QED
      BY <2>1
  <1>4. f \in Injection(F, 1..K)
    BY <1>2, <1>3 DEF Injection, IsInjective
  <1>5. IsFiniteSet(1..K) /\ Cardinality(1..K) = Cardinality(F)
    BY <1>1, FS_Interval
  <1>6. f \in Surjection(F, 1..K)
    BY <1>4, <1>5, FS_Injection
  <1>7. \A n \in 1..K : \E i \in F : f[i] = n
    BY <1>6 DEF Surjection
  <1>. QED
    BY <1>2, <1>3, <1>7

\* The ranking lists the document of each first place at its rank.
LEMMA RankingHasFirsts ==
  ASSUME NEW h \in HitLists
  PROVE  LET r == UniqueDocuments(h)
         IN  /\ r \in Seq(Documents) /\ DOMAIN r = 1..Cardinality(Firsts(h))
             /\ \A n \in DOMAIN r : \E i \in Firsts(h) :
                  Rank(h, i) = n /\ r[n] = h[i].document
             /\ \A i \in Firsts(h) : r[Rank(h, i)] = h[i].document
  <1> DEFINE F == Firsts(h)
             K == Cardinality(Firsts(h))
             At(n) == CHOOSE i \in F : Rank(h, i) = n
             r == [n \in 1..K |-> h[At(n)].document]
  <1>1. UniqueDocuments(h) = r
    BY RankingOf, Zenon
  <1>2. ASSUME NEW n \in 1..K PROVE At(n) \in F /\ Rank(h, At(n)) = n
    BY RankNames
  <1>3. ASSUME NEW i \in F PROVE Rank(h, i) \in 1..K /\ At(Rank(h, i)) = i
    <2>1. Rank(h, i) \in 1..K
      BY RankNames
    <2>2. At(Rank(h, i)) \in F /\ Rank(h, At(Rank(h, i))) = Rank(h, i)
      BY <1>2, <2>1
    <2>. QED
      BY <2>1, <2>2, RankNames
  <1> HIDE DEF At
  <1>4. \A i \in F : h[i].document \in Documents
    <2>1. h \in Seq(Hit) /\ \A i \in F : i \in 1..Len(h)
      BY FirstsFinite, HitListSequence
    <2>2. \A i \in F : h[i] \in Hit
      BY <2>1
    <2>. QED
      BY <2>2 DEF Hit
  <1>5. K \in Nat /\ \A n \in 1..K : r[n] \in Documents
    BY <1>2, <1>4, FirstsFinite
  <1>6. r \in Seq(Documents)
    BY <1>5
  <1>7. \A n \in DOMAIN r : \E i \in F : Rank(h, i) = n /\ r[n] = h[i].document
    BY <1>2
  <1>8. \A i \in F : r[Rank(h, i)] = h[i].document
    BY <1>3
  <1>. QED
    BY <1>1, <1>6, <1>7, <1>8

\* The first hit that is of a set of documents is a first place.
LEMMA FirstIsFirst ==
  ASSUME NEW h \in HitLists, NEW R, NEW first \in DOMAIN h, h[first].document \in R,
         \A i \in DOMAIN h : h[i].document \in R => first <= i
  PROVE  first \in Firsts(h)
  <1>1. DOMAIN h = 1..Len(h) /\ Len(h) \in Nat
    BY HitListSequence
  <1>2. ASSUME NEW j \in 1..(first - 1), h[j].document = h[first].document PROVE FALSE
    <2>1. j \in DOMAIN h /\ ~(first <= j)
      BY <1>1
    <2>. QED
      BY <1>2, <2>1
  <1>. QED
    BY <1>2 DEF Firsts

\* The first places up to a place are as many as the documents up to it.
LEMMA RankCounts ==
  ASSUME NEW h \in HitLists, NEW k \in Nat, k <= Len(h)
  PROVE  Rank(h, k) = Cardinality({h[i].document : i \in 1..k})
  <1> DEFINE A == Firsts(h) \cap 1..k
             D == {h[i].document : i \in 1..k}
             f == [i \in A |-> h[i].document]
  <1>1. DOMAIN h = 1..Len(h) /\ Len(h) \in Nat
    BY HitListSequence
  <1>2. IsFiniteSet(A) /\ A \subseteq 1..k
    BY FirstsFinite
  <1>3. ASSUME NEW i \in A, NEW j \in A, h[i].document = h[j].document PROVE i = j
    <2>1. i \in Nat /\ j \in Nat /\ i >= 1 /\ j >= 1
      BY <1>2
    <2>2. ~(j \in 1..(i - 1)) /\ ~(i \in 1..(j - 1))
      BY <1>3 DEF Firsts
    <2>. QED
      BY <2>1, <2>2
  <1>4. ASSUME NEW i \in 1..k PROVE \E j \in A : h[j].document = h[i].document
    <2> DEFINE S == {j \in 1..k : h[j].document = h[i].document}
    <2>1. S \subseteq Nat /\ i \in S
      OBVIOUS
    <2>2. PICK j \in S : \A m \in S : j <= m
      <3> HIDE DEF S
      <3>. QED
        BY <2>1, LeastNatural
    <2>3. ASSUME NEW m \in 1..(j - 1), h[m].document = h[j].document PROVE FALSE
      <3>1. m \in S /\ ~(j <= m)
        BY <2>2, <2>3
      <3>. QED
        BY <2>2, <3>1
    <2>4. j \in Firsts(h)
      BY <1>1, <2>2, <2>3 DEF Firsts
    <2>. QED
      BY <2>2, <2>4
  <1>5. f \in Bijection(A, D)
    <2>1. f \in [A -> D]
      BY <1>2
    <2>2. \A i, j \in A : f[i] = f[j] => i = j
      BY <1>3
    <2>3. \A d \in D : \E i \in A : f[i] = d
      BY <1>4
    <2>. QED
      BY <2>1, <2>2, <2>3 DEF Bijection, Injection, Surjection, IsInjective
  <1>. QED
    BY <1>2, <1>5, FS_Bijection DEF ExistsBijection, Rank

\* What RankCountsDocuments says of one list of hits and its ranking.
LEMMA RankCountsHits ==
  ASSUME NEW h \in HitLists, NEW R
  PROVE  LET r == UniqueDocuments(h)
             found == {i \in DOMAIN h : h[i].document \in R}
             ranked == {n \in DOMAIN r : r[n] \in R}
         IN  IF found = {} THEN ranked = {}
             ELSE \E first \in found :
                    /\ \A i \in found : first <= i
                    /\ ranked # {}
                    /\ Min(ranked) = 1 + Cardinality({h[i].document : i \in 1..(first - 1)})
  <1> DEFINE r == UniqueDocuments(h)
             found == {i \in DOMAIN h : h[i].document \in R}
             ranked == {n \in DOMAIN r : r[n] \in R}
             F == Firsts(h)
  <1>1. /\ DOMAIN h = 1..Len(h) /\ Len(h) \in Nat /\ F \subseteq DOMAIN h
        /\ DOMAIN r = 1..Cardinality(F) /\ Cardinality(F) \in Nat
        /\ \A n \in DOMAIN r : \E i \in F : Rank(h, i) = n /\ r[n] = h[i].document
        /\ \A i \in F : r[Rank(h, i)] = h[i].document
        /\ \A i \in F : Rank(h, i) \in 1..Cardinality(F)
    BY HitListSequence, FirstsFinite, RankNames, RankingHasFirsts
  <1> HIDE DEF r, F
  <1>2. CASE found = {}
    <2>1. ranked = {}
      BY <1>1, <1>2
    <2>. QED
      BY <1>2, <2>1 DEF r
  <1>3. CASE found # {}
    <2>1. found \subseteq Nat
      BY <1>1
    <2>2. PICK first \in found : \A i \in found : first <= i
      <3> HIDE DEF found
      <3>. QED
        BY <1>3, <2>1, LeastNatural
    <2>3. first \in F
      BY <2>2, FirstIsFirst DEF F
    <2>4. Rank(h, first) \in ranked
      BY <1>1, <2>2, <2>3
    <2>5. ranked \subseteq Nat
      BY <1>1
    <2>6. ASSUME NEW n \in ranked PROVE Rank(h, first) <= n
      <3>1. PICK i \in F : Rank(h, i) = n /\ r[n] = h[i].document
        BY <1>1
      <3>2. i \in found /\ first \in Nat /\ i \in Nat
        BY <1>1, <2>2, <3>1
      <3>3. first <= i
        BY <2>2, <3>2
      <3>4. CASE first = i
        BY <2>5, <3>1, <3>4
      <3>5. CASE first # i
        <4>1. first < i
          BY <3>2, <3>3, <3>5
        <4>2. Rank(h, first) < Rank(h, i)
          BY <3>1, <3>2, <4>1, RankGrows DEF F
        <4>. QED
          BY <2>4, <2>5, <3>1, <4>2
      <3>. QED
        BY <3>4, <3>5
    <2>7. Min(ranked) = Rank(h, first)
      <3> HIDE DEF ranked
      <3>. QED
        BY <2>4, <2>5, <2>6, LeastIsMin
    <2>8. first - 1 \in Nat /\ first - 1 <= Len(h)
      BY <1>1, <2>2
    <2>9. /\ Rank(h, first) = Rank(h, first - 1) + 1 /\ Rank(h, first - 1) \in Nat
          /\ Rank(h, first - 1) = Cardinality({h[i].document : i \in 1..(first - 1)})
      BY <2>3, <2>8, RankSteps, RankCounts, FirstsFinite DEF F
    <2>10. Min(ranked) = 1 + Cardinality({h[i].document : i \in 1..(first - 1)})
      BY <2>7, <2>9
    <2>. QED
      BY <1>3, <2>2, <2>4, <2>10 DEF r
  <1>. QED
    BY <1>2, <1>3

-----------------------------------------------------------------------------
(* What the evaluation keeps.                                              *)

\* What is retrieved, and in which stage there is what.
Evaluating ==
  /\ relevant \in [Cases -> SUBSET Documents]
  /\ stage \in {"retrieval", "calibration", "generation"}
  /\ hits \in Seq(HitLists) /\ Len(hits) <= CaseCount
  /\ rankings \in Seq(Seq(Documents)) /\ Len(rankings) = Len(hits)
  /\ \A c \in 1..Len(hits) : rankings[c] = UniqueDocuments(hits[c])
  /\ observed \in Seq([refused : BOOLEAN, cited : SUBSET Documents])
  /\ Len(observed) <= CaseCount
  /\ stage = "retrieval" => best = NoThreshold
  /\ stage # "retrieval" => Len(hits) = CaseCount /\ candidates \subseteq Thresholds
  /\ stage # "generation" => observed = <<>>
  /\ stage = "generation" => candidates = {}

\* The best threshold is the best of those already tried.
BestOfTried ==
  LET tried == Thresholds \ candidates
  IN  IF best = NoThreshold THEN \A t \in tried : FalsePositives(t) # 0
      ELSE /\ best.threshold \in tried /\ best.recall = Recall(best.threshold)
           /\ FalsePositives(best.threshold) = 0
           /\ \A t \in tried : FalsePositives(t) = 0 => Recall(t) <= best.recall

\* A case with no hit at the bar of the workflow was refused.
Refusals ==
  \A c \in DOMAIN observed :
    (\A i \in DOMAIN hits[c] : hits[c][i].score < Bar) => observed[c].refused

EvaluationInv == Evaluating /\ (stage # "retrieval" => BestOfTried) /\ Refusals

\* Every case has its hits once calibration begins.
LEMMA HitsOfCases ==
  ASSUME Evaluating, stage # "retrieval"
  PROVE  /\ DOMAIN hits = Cases
         /\ \A c \in Cases : /\ hits[c] \in HitLists
                             /\ \A i \in DOMAIN hits[c] : hits[c][i].score \in Scores
  <1>1. DOMAIN hits = Cases /\ \A c \in Cases : hits[c] \in HitLists
    BY DEF Evaluating, Cases
  <1>2. ASSUME NEW c \in Cases, NEW i \in DOMAIN hits[c] PROVE hits[c][i].score \in Scores
    <2>1. hits[c] \in Seq(Hit) /\ i \in 1..Len(hits[c])
      BY <1>1, <1>2, HitListSequence
    <2>2. hits[c][i] \in Hit
      BY <2>1
    <2>. QED
      BY <2>2 DEF Hit
  <1>. QED
    BY <1>1, <1>2

\* The scores of some cases are finitely many numbers.
LEMMA ScoresFinite ==
  ASSUME Evaluating, stage # "retrieval", NEW C \in SUBSET Cases
  PROVE  /\ ScoresOf(C) \subseteq Nat /\ IsFiniteSet(ScoresOf(C))
         /\ \A c \in C : \A i \in DOMAIN hits[c] : hits[c][i].score \in ScoresOf(C)
         /\ \A s \in ScoresOf(C) : \E c \in C : \E i \in DOMAIN hits[c] : hits[c][i].score = s
  <1>1. ScoresOf(C) \subseteq Scores
    BY HitsOfCases DEF ScoresOf
  <1>2. ScoresOf(C) \subseteq Nat /\ IsFiniteSet(ScoresOf(C))
    BY <1>1, FS_Subset, EvaluationAssumption
  <1>. QED
    BY <1>2 DEF ScoresOf

\* The thresholds are finitely many numbers, every score among them.
LEMMA ThresholdsFinite ==
  ASSUME Evaluating, stage # "retrieval"
  PROVE  /\ Thresholds \subseteq Nat /\ IsFiniteSet(Thresholds)
         /\ ScoresOf(Cases) \subseteq Thresholds
  <1> DEFINE U == ScoresOf(Cases \ Answerable)
  <1>1. /\ ScoresOf(Cases) \subseteq Nat /\ IsFiniteSet(ScoresOf(Cases))
        /\ U \subseteq Nat /\ IsFiniteSet(U)
    BY ScoresFinite
  <1>2. Thresholds = ScoresOf(Cases) \cup (IF U = {} THEN {} ELSE {Max(U) + 1})
    BY DEF Thresholds
  <1> HIDE DEF U
  <1>3. CASE U = {}
    BY <1>1, <1>2, <1>3
  <1>4. CASE U # {}
    <2>1. Max(U) + 1 \in Nat
      <3>1. Max(U) \in Nat
        BY <1>1, <1>4, GreatestNatural
      <3>. QED
        BY <1>1, <3>1
    <2>2. Thresholds = ScoresOf(Cases) \cup {Max(U) + 1}
      BY <1>2, <1>4
    <2>. QED
      BY <1>1, <2>1, <2>2, FS_AddElement
  <1>. QED
    BY <1>3, <1>4

\* There are finitely many cases.
LEMMA CasesFinite == IsFiniteSet(Cases)
  <1>1. CaseCount \in Int
    BY EvaluationAssumption
  <1>. QED
    BY <1>1, FS_Interval DEF Cases

\* No false positive: no unanswerable case clears the threshold.
LEMMA NoFalsePositive ==
  ASSUME NEW t
  PROVE  FalsePositives(t) = 0 <=> \A c \in Cases \ Answerable : ~Clears(c, t)
  <1> DEFINE S == {c \in Cases \ Answerable : Clears(c, t)}
  <1>1. S \in SUBSET Cases
    OBVIOUS
  <1>2. IsFiniteSet(S)
    BY <1>1, CasesFinite, FS_Subset
  <1>3. Cardinality(S) = 0 <=> S = {}
    BY <1>2, FS_EmptySet
  <1>. QED
    BY <1>3 DEF FalsePositives

\* The recall counts cases.
LEMMA RecallCounts ==
  ASSUME NEW t
  PROVE  Recall(t) \in Nat
  <1> DEFINE S == {c \in Answerable : \E i \in DOMAIN hits[c] :
                     hits[c][i].document \in relevant[c] /\ hits[c][i].score >= t}
  <1>1. S \in SUBSET Cases
    BY DEF Answerable
  <1>2. Cardinality(S) \in Nat
    BY <1>1, CasesFinite, FS_Subset, FS_CardinalityType
  <1>. QED
    BY <1>2 DEF Recall

\* Any threshold lets through what the least score above it does, or nothing.
LEMMA ThresholdsSuffice ==
  ASSUME Evaluating, stage # "retrieval", NEW t \in Nat
  PROVE  \/ Recall(t) = 0
         \/ \E s \in Thresholds : /\ Recall(s) = Recall(t)
                                  /\ FalsePositives(s) = FalsePositives(t)
  <1> DEFINE S == {s \in ScoresOf(Cases) : s >= t}
  <1>1. /\ ScoresOf(Cases) \subseteq Nat
        /\ \A c \in Cases : \A i \in DOMAIN hits[c] :
             hits[c][i].score \in ScoresOf(Cases) /\ hits[c][i].score \in Nat
    <2>1. /\ ScoresOf(Cases) \subseteq Nat
          /\ \A c \in Cases : \A i \in DOMAIN hits[c] : hits[c][i].score \in ScoresOf(Cases)
      BY ScoresFinite
    <2>. QED
      BY <2>1
  <1>2. CASE S = {}
    <2>1. \A c \in Cases : \A i \in DOMAIN hits[c] : ~(hits[c][i].score >= t)
      BY <1>1, <1>2
    <2>2. {c \in Answerable : \E i \in DOMAIN hits[c] :
             hits[c][i].document \in relevant[c] /\ hits[c][i].score >= t} = {}
      BY <2>1 DEF Answerable
    <2>. QED
      BY <2>2, FS_EmptySet DEF Recall
  <1>3. CASE S # {}
    <2>1. S \subseteq Nat
      BY <1>1
    <2>2. PICK s \in S : \A m \in S : s <= m
      <3> HIDE DEF S
      <3>. QED
        BY <1>3, <2>1, LeastNatural
    <2>3. ASSUME NEW c \in Cases, NEW i \in DOMAIN hits[c]
          PROVE  hits[c][i].score >= s <=> hits[c][i].score >= t
      <3> DEFINE v == hits[c][i].score
      <3>1. v \in ScoresOf(Cases) /\ v \in Nat /\ s \in Nat /\ s >= t
        BY <1>1, <2>1, <2>2
      <3>2. v >= t => s <= v
        BY <2>2, <3>1
      <3> HIDE DEF v
      <3>3. v >= s <=> v >= t
        BY <3>1, <3>2
      <3>. QED
        BY <3>3 DEF v
    <2>4. /\ Recall(s) = Recall(t) /\ FalsePositives(s) = FalsePositives(t)
      <3>1. {c \in Answerable : \E i \in DOMAIN hits[c] :
               hits[c][i].document \in relevant[c] /\ hits[c][i].score >= s}
            = {c \in Answerable : \E i \in DOMAIN hits[c] :
                 hits[c][i].document \in relevant[c] /\ hits[c][i].score >= t}
        BY <2>3 DEF Answerable
      <3>2. {c \in Cases \ Answerable : Clears(c, s)} = {c \in Cases \ Answerable : Clears(c, t)}
        BY <2>3 DEF Clears
      <3>. QED
        BY <3>1, <3>2 DEF Recall, FalsePositives
    <2>5. s \in Thresholds
      BY <2>2, ThresholdsFinite
    <2>. QED
      BY <2>4, <2>5
  <1>. QED
    BY <1>2, <1>3

\* When something was retrieved, some threshold keeps every unanswerable case out.
LEMMA SomeThreshold ==
  ASSUME Evaluating, stage # "retrieval", ScoresOf(Cases) # {}
  PROVE  \E t \in Thresholds : FalsePositives(t) = 0
  <1> DEFINE U == ScoresOf(Cases \ Answerable)
  <1>1. /\ U \subseteq Nat /\ IsFiniteSet(U)
        /\ \A c \in Cases \ Answerable : \A i \in DOMAIN hits[c] : hits[c][i].score \in U
    BY ScoresFinite
  <1>2. Thresholds = ScoresOf(Cases) \cup (IF U = {} THEN {} ELSE {Max(U) + 1})
    BY DEF Thresholds
  <1> HIDE DEF U
  <1>3. CASE U = {}
    <2>1. PICK t \in ScoresOf(Cases) : TRUE
      OBVIOUS
    <2>2. \A c \in Cases \ Answerable : ~Clears(c, t)
      BY <1>1, <1>3 DEF Clears
    <2>. QED
      BY <1>2, <2>1, <2>2, NoFalsePositive
  <1>4. CASE U # {}
    <2>1. Max(U) \in Nat /\ \A u \in U : u \in Nat /\ Max(U) >= u
      BY <1>1, <1>4, GreatestNatural
    <2>2. \A u \in U : ~(u >= Max(U) + 1)
      BY <2>1
    <2>3. \A c \in Cases \ Answerable : ~Clears(c, Max(U) + 1)
      BY <1>1, <2>2 DEF Clears
    <2>. QED
      BY <1>2, <1>4, <2>3, NoFalsePositive
  <1>. QED
    BY <1>3, <1>4

\* The best of all tried is the best there is.
LEMMA BestOfAll ==
  ASSUME EvaluationInv
  PROVE  CalibrationIsBest
  <1> SUFFICES ASSUME stage = "generation" PROVE CalibrationIsBest
    BY DEF CalibrationIsBest, Calibrated
  <1>1. Evaluating /\ stage # "retrieval" /\ candidates = {} /\ BestOfTried /\ Refusals
    BY DEF EvaluationInv, Evaluating
  <1>2. CASE best = NoThreshold
    <2>1. \A t \in Thresholds : FalsePositives(t) # 0
      BY <1>1, <1>2 DEF BestOfTried
    <2>. QED
      BY <1>1, <1>2, <2>1, SomeThreshold DEF CalibrationIsBest
  <1>3. CASE best # NoThreshold
    <2>1. /\ best.threshold \in Thresholds /\ best.recall = Recall(best.threshold)
          /\ FalsePositives(best.threshold) = 0
          /\ \A t \in Thresholds : FalsePositives(t) = 0 => Recall(t) <= best.recall
      BY <1>1, <1>3 DEF BestOfTried
    <2>2. best.recall \in Nat /\ best.threshold \in Nat /\ Bar \in Nat
      BY <1>1, <2>1, RecallCounts, ThresholdsFinite, EvaluationAssumption
    <2>3. ASSUME NEW t \in AnyThreshold, FalsePositives(t) = 0 PROVE Recall(t) <= best.recall
      <3>1. t \in Nat
        BY DEF AnyThreshold
      <3>2. CASE Recall(t) = 0
        BY <2>2, <3>2
      <3>3. CASE Recall(t) # 0
        <4>1. PICK s \in Thresholds : /\ Recall(s) = Recall(t)
                                      /\ FalsePositives(s) = FalsePositives(t)
          BY <1>1, <3>1, <3>3, ThresholdsSuffice
        <4>. QED
          BY <2>1, <2>3, <4>1
      <3>. QED
        BY <3>2, <3>3
    <2>4. ASSUME Bar >= best.threshold, NEW c \in DOMAIN observed, c \notin Answerable
          PROVE  observed[c].refused
      <3>1. c \in Cases /\ c \in DOMAIN hits
        BY <1>1, <2>4, HitsOfCases DEF Evaluating, Cases
      <3>2. ~Clears(c, best.threshold)
        BY <2>1, <2>4, <3>1, NoFalsePositive
      <3>3. ASSUME NEW i \in DOMAIN hits[c] PROVE hits[c][i].score < Bar
        <4>1. hits[c][i].score \in Nat
          BY <1>1, <3>1, HitsOfCases, EvaluationAssumption
        <4>2. ~(hits[c][i].score >= best.threshold)
          BY <3>2 DEF Clears
        <4>. QED
          BY <2>2, <2>4, <4>1, <4>2
      <3>. QED
        BY <1>1, <3>3 DEF Refusals
    <2>. QED
      BY <1>3, <2>1, <2>3, <2>4 DEF CalibrationIsBest
  <1>. QED
    BY <1>2, <1>3

\* The rankings list the documents of the hits.
LEMMA RankingsCount ==
  ASSUME Evaluating
  PROVE  RankCountsDocuments
  <1> SUFFICES ASSUME NEW c \in DOMAIN rankings
               PROVE  LET found == {i \in DOMAIN hits[c] : hits[c][i].document \in relevant[c]}
                      IN  IF found = {} THEN FirstRelevant(c, rankings[c]) = 0
                          ELSE \E first \in found :
                                 /\ \A i \in found : first <= i
                                 /\ FirstRelevant(c, rankings[c]) =
                                      1 + Cardinality({hits[c][i].document : i \in 1..(first - 1)})
    BY DEF RankCountsDocuments
  <1>1. rankings[c] = UniqueDocuments(hits[c]) /\ hits[c] \in HitLists
    BY DEF Evaluating
  <1>2. LET r == UniqueDocuments(hits[c])
            found == {i \in DOMAIN hits[c] : hits[c][i].document \in relevant[c]}
            ranked == {n \in DOMAIN r : r[n] \in relevant[c]}
        IN  IF found = {} THEN ranked = {}
            ELSE \E first \in found :
                   /\ \A i \in found : first <= i
                   /\ ranked # {}
                   /\ Min(ranked) = 1 + Cardinality({hits[c][i].document : i \in 1..(first - 1)})
    BY <1>1, RankCountsHits
  <1>. QED
    BY <1>1, <1>2 DEF FirstRelevant

\* Nothing is known at first.
LEMMA EvaluationInitInv == EvaluationInit => EvaluationInv
  <1> SUFFICES ASSUME EvaluationInit PROVE EvaluationInv
    OBVIOUS
  <1>1. Evaluating
    BY EvaluationAssumption DEF EvaluationInit, Evaluating
  <1>. QED
    BY <1>1 DEF EvaluationInit, EvaluationInv, Refusals

\* What the evaluation knows depends on the hits and on what is relevant.
LEMMA SameHits ==
  ASSUME hits' = hits, relevant' = relevant
  PROVE  /\ Thresholds' = Thresholds
         /\ \A t : FalsePositives(t)' = FalsePositives(t) /\ Recall(t)' = Recall(t)
  BY DEF Thresholds, ScoresOf, Answerable, FalsePositives, Clears, Recall

\* A retrieval adds the hits of a case and their ranking.
LEMMA RetrieveKeeps ==
  ASSUME EvaluationInv, Retrieve
  PROVE  EvaluationInv'
  <1>1. /\ stage = "retrieval" /\ stage' = stage /\ Len(hits) < CaseCount
        /\ relevant' = relevant /\ candidates' = candidates /\ best' = best
        /\ observed' = observed /\ Evaluating /\ observed = <<>>
    BY DEF Retrieve, EvaluationInv, Evaluating
  <1>2. PICK h \in HitLists : /\ hits' = Append(hits, h)
                              /\ rankings' = Append(rankings, UniqueDocuments(h))
    BY DEF Retrieve
  <1>3. UniqueDocuments(h) \in Seq(Documents)
    BY RankingHasFirsts
  <1>4. /\ hits \in Seq(HitLists) /\ rankings \in Seq(Seq(Documents))
        /\ Len(hits) \in Nat /\ Len(rankings) = Len(hits) /\ CaseCount \in Nat
        /\ \A c \in 1..Len(hits) : rankings[c] = UniqueDocuments(hits[c])
    BY <1>1, EvaluationAssumption DEF Evaluating
  <1> DEFINE n == Len(hits)
             r == UniqueDocuments(h)
  <1> HIDE DEF r
  <1>5. /\ hits' \in Seq(HitLists) /\ Len(hits') = n + 1
        /\ hits'[n + 1] = h /\ \A c \in 1..n : hits'[c] = hits[c]
    BY <1>2, <1>4
  <1>6. /\ rankings' \in Seq(Seq(Documents)) /\ Len(rankings') = n + 1
        /\ rankings'[n + 1] = r /\ \A c \in 1..n : rankings'[c] = rankings[c]
    BY <1>2, <1>3, <1>4 DEF r
  <1>7. ASSUME NEW c \in 1..Len(hits') PROVE rankings'[c] = UniqueDocuments(hits'[c])
    <2>1. c = n + 1 \/ c \in 1..n
      BY <1>4, <1>5
    <2>. QED
      BY <1>4, <1>5, <1>6, <2>1 DEF r
  <1>8. \A g : UniqueDocuments(g)' = UniqueDocuments(g)
    BY DEF UniqueDocuments
  <1>9. Evaluating'
    BY <1>1, <1>4, <1>5, <1>6, <1>7 DEF Evaluating, NoThreshold, Cases
  <1>10. Refusals'
    BY <1>1 DEF Refusals
  <1>. QED
    BY <1>1, <1>9, <1>10 DEF EvaluationInv

\* Calibration starts with every threshold untried.
LEMMA CalibrateKeeps ==
  ASSUME EvaluationInv, Calibrate
  PROVE  EvaluationInv'
  <1>1. /\ stage = "retrieval" /\ stage' = "calibration" /\ Len(hits) = CaseCount
        /\ relevant' = relevant /\ hits' = hits /\ rankings' = rankings
        /\ candidates' = Thresholds /\ best' = best /\ best = NoThreshold
        /\ observed' = observed /\ Evaluating /\ observed = <<>>
    BY DEF Calibrate, EvaluationInv, Evaluating
  <1>2. Thresholds' = Thresholds
    BY <1>1, SameHits
  <1>3. Evaluating'
    BY <1>1, <1>2 DEF Evaluating
  <1>4. BestOfTried'
    BY <1>1, <1>2 DEF BestOfTried
  <1>5. Refusals'
    BY <1>1 DEF Refusals
  <1>. QED
    BY <1>3, <1>4, <1>5 DEF EvaluationInv

\* A threshold that is considered is tried.
LEMMA ConsiderKeeps ==
  ASSUME EvaluationInv, Consider
  PROVE  EvaluationInv'
  <1> DEFINE t == Max(candidates)
             better == /\ FalsePositives(t) = 0
                       /\ \/ best = NoThreshold
                          \/ Recall(t) > best.recall
                          \/ Recall(t) = best.recall /\ t > best.threshold
  <1>1. /\ stage = "calibration" /\ stage' = stage /\ candidates # {}
        /\ relevant' = relevant /\ hits' = hits /\ rankings' = rankings
        /\ observed' = observed /\ candidates' = candidates \ {t}
        /\ best' = IF better THEN [threshold |-> t, recall |-> Recall(t)] ELSE best
        /\ Evaluating /\ BestOfTried /\ observed = <<>> /\ candidates \subseteq Thresholds
    BY DEF Consider, EvaluationInv, Evaluating
  <1>2. Thresholds \subseteq Nat /\ IsFiniteSet(Thresholds)
    BY <1>1, ThresholdsFinite
  <1>3. t \in candidates /\ t \in Nat
    <2>1. IsFiniteSet(candidates) /\ candidates \subseteq Nat
      BY <1>1, <1>2, FS_Subset
    <2>. QED
      BY <1>1, <2>1, GreatestNatural
  <1> HIDE DEF t
  <1>4. /\ Thresholds' = Thresholds
        /\ \A u : FalsePositives(u)' = FalsePositives(u) /\ Recall(u)' = Recall(u)
    BY <1>1, SameHits
  <1>5. Evaluating'
    BY <1>1, <1>4 DEF Evaluating
  <1>6. Refusals'
    BY <1>1 DEF Refusals
  <1> DEFINE tried == Thresholds \ candidates
             triedNow == tried \cup {t}
  <1>7. Thresholds' \ candidates' = triedNow
    BY <1>1, <1>3, <1>4
  <1>8. /\ best = NoThreshold => \A u \in tried : FalsePositives(u) # 0
        /\ best # NoThreshold =>
             /\ best.threshold \in tried /\ best.recall = Recall(best.threshold)
             /\ FalsePositives(best.threshold) = 0
             /\ \A u \in tried : FalsePositives(u) = 0 => Recall(u) <= best.recall
    BY <1>1 DEF BestOfTried
  <1>9. Recall(t) \in Nat /\ \A u \in tried : Recall(u) \in Nat
    BY RecallCounts
  <1> HIDE DEF tried
  <1>10. IF best' = NoThreshold THEN \A u \in triedNow : FalsePositives(u) # 0
         ELSE /\ best'.threshold \in triedNow /\ best'.recall = Recall(best'.threshold)
              /\ FalsePositives(best'.threshold) = 0
              /\ \A u \in triedNow : FalsePositives(u) = 0 => Recall(u) <= best'.recall
    <2>1. CASE better
      <3>1. best'.threshold = t /\ best'.recall = Recall(t)
        BY <1>1, <2>1
      <3>2. best' # NoThreshold
        <4>1. NoThreshold.threshold = -1 /\ best'.threshold # -1
          BY <1>3, <3>1 DEF NoThreshold
        <4>. QED
          BY <4>1
      <3>3. ASSUME NEW u \in tried, FalsePositives(u) = 0 PROVE Recall(u) <= Recall(t)
        <4>1. best # NoThreshold /\ Recall(u) <= best.recall /\ best.recall \in Nat
          BY <1>8, <1>9, <3>3
        <4>. QED
          BY <1>9, <2>1, <4>1
      <3>. QED
        BY <1>9, <2>1, <3>1, <3>2, <3>3
    <2>2. CASE ~better
      <3>1. best' = best
        BY <1>1, <2>2
      <3>2. CASE best = NoThreshold
        BY <1>8, <2>2, <3>1, <3>2
      <3>3. CASE best # NoThreshold
        <4>1. best.recall \in Nat
          BY <1>8, <1>9, <3>3
        <4>2. FalsePositives(t) = 0 => Recall(t) <= best.recall
          BY <1>9, <2>2, <3>3, <4>1
        <4>. QED
          BY <1>8, <3>1, <3>3, <4>2
      <3>. QED
        BY <3>2, <3>3
    <2>. QED
      BY <2>1, <2>2
  <1>11. BestOfTried'
    BY <1>4, <1>7, <1>10 DEF BestOfTried, NoThreshold
  <1>. QED
    BY <1>5, <1>6, <1>11 DEF EvaluationInv

\* A question is refused when no hit clears the bar.
LEMMA GenerationKeeps ==
  ASSUME EvaluationInv, StartGeneration \/ Ask
  PROVE  EvaluationInv'
  <1>1. /\ stage # "retrieval" /\ stage' = "generation" /\ relevant' = relevant
        /\ hits' = hits /\ rankings' = rankings /\ candidates' = candidates /\ best' = best
        /\ Evaluating /\ BestOfTried /\ Refusals /\ candidates = {}
    BY DEF StartGeneration, Ask, EvaluationInv, Evaluating
  <1>2. /\ Thresholds' = Thresholds
        /\ \A u : FalsePositives(u)' = FalsePositives(u) /\ Recall(u)' = Recall(u)
    BY <1>1, SameHits
  <1>3. BestOfTried'
    BY <1>1, <1>2 DEF BestOfTried, NoThreshold
  <1>4. CASE StartGeneration
    <2>1. observed' = observed
      BY <1>4 DEF StartGeneration
    <2>2. Evaluating'
      BY <1>1, <1>2, <2>1 DEF Evaluating
    <2>3. Refusals'
      BY <1>1, <2>1 DEF Refusals
    <2>. QED
      BY <1>3, <2>2, <2>3 DEF EvaluationInv
  <1>5. CASE Ask
    <2> DEFINE n == Len(observed)
    <2>1. PICK cited \in Citations(n + 1) :
            observed' = Append(observed, [refused |-> cited = {}, cited |-> cited])
      BY <1>5 DEF Ask
    <2>2. /\ observed \in Seq([refused : BOOLEAN, cited : SUBSET Documents])
          /\ n \in Nat /\ n < CaseCount /\ CaseCount \in Nat /\ n + 1 \in Cases
      BY <1>1, <1>5, EvaluationAssumption DEF Evaluating, Ask, Cases
    <2>3. cited \in SUBSET Documents
      <3>1. hits[n + 1] \in HitLists
        BY <1>1, <2>2, HitsOfCases
      <3>2. \A i \in DOMAIN hits[n + 1] : hits[n + 1][i].document \in Documents
        <4>1. hits[n + 1] \in Seq(Hit) /\ DOMAIN hits[n + 1] = 1..Len(hits[n + 1])
          BY <3>1, HitListSequence
        <4>2. \A i \in DOMAIN hits[n + 1] : hits[n + 1][i] \in Hit
          BY <4>1
        <4>. QED
          BY <4>2 DEF Hit
      <3>. QED
        BY <3>2 DEF Citations
    <2>4. (\A i \in DOMAIN hits[n + 1] : hits[n + 1][i].score < Bar) => cited = {}
      <3> SUFFICES ASSUME \A i \in DOMAIN hits[n + 1] : hits[n + 1][i].score < Bar
                   PROVE  cited = {}
        OBVIOUS
      <3>1. ASSUME NEW i \in DOMAIN hits[n + 1] PROVE ~(hits[n + 1][i].score >= Bar)
        <4>1. hits[n + 1][i].score \in Nat /\ Bar \in Nat
          BY <1>1, <2>2, HitsOfCases, EvaluationAssumption
        <4>. QED
          BY <4>1
      <3>2. {i \in DOMAIN hits[n + 1] : hits[n + 1][i].score >= Bar} = {}
        BY <3>1
      <3>3. Citations(n + 1) = {{}}
        BY <3>2 DEF Citations
      <3>. QED
        BY <3>3
    <2> DEFINE entry == [refused |-> cited = {}, cited |-> cited]
    <2>5. entry \in [refused : BOOLEAN, cited : SUBSET Documents] /\ (cited = {} => entry.refused)
      BY <2>3
    <2>6. observed' = Append(observed, entry)
      BY <2>1
    <2> HIDE DEF entry
    <2>7. /\ observed' \in Seq([refused : BOOLEAN, cited : SUBSET Documents])
          /\ Len(observed') = n + 1 /\ DOMAIN observed' = 1..(n + 1)
          /\ observed'[n + 1] = entry /\ \A c \in 1..n : observed'[c] = observed[c]
          /\ DOMAIN observed = 1..n
      BY <2>2, <2>5, <2>6
    <2>8. Evaluating'
      BY <1>1, <1>2, <2>2, <2>7 DEF Evaluating
    <2>9. ASSUME NEW c \in DOMAIN observed', \A i \in DOMAIN hits[c] : hits[c][i].score < Bar
          PROVE  observed'[c].refused
      <3>1. CASE c = n + 1
        BY <2>4, <2>5, <2>7, <2>9, <3>1
      <3>2. CASE c # n + 1
        <4>1. c \in 1..n
          BY <2>2, <2>7, <3>2
        <4>. QED
          BY <1>1, <2>7, <2>9, <4>1 DEF Refusals
      <3>. QED
        BY <3>1, <3>2
    <2>10. Refusals'
      BY <1>1, <2>9 DEF Refusals
    <2>. QED
      BY <1>3, <2>8, <2>10 DEF EvaluationInv
  <1>. QED
    BY <1>4, <1>5

\* What is left when the command forgets the evaluation.
LEMMA ForgetKeeps ==
  ASSUME EvaluationInv, Forget
  PROVE  EvaluationInv'
  <1>1. Evaluating'
    BY EvaluationAssumption DEF EvaluationInv, Evaluating, Forget, NoThreshold
  <1>2. stage' = "retrieval" /\ Refusals'
    BY DEF Forget, Refusals
  <1>. QED
    BY <1>1, <1>2 DEF EvaluationInv

\* Everything else leaves the evaluation alone.
LEMMA UnchangedKeeps ==
  ASSUME EvaluationInv, UNCHANGED evaluationVars
  PROVE  EvaluationInv'
  <1>1. /\ relevant' = relevant /\ stage' = stage /\ hits' = hits /\ rankings' = rankings
        /\ candidates' = candidates /\ best' = best /\ observed' = observed
    BY DEF evaluationVars
  <1>2. /\ Thresholds' = Thresholds
        /\ \A u : FalsePositives(u)' = FalsePositives(u) /\ Recall(u)' = Recall(u)
    BY <1>1, SameHits
  <1>3. Evaluating'
    BY <1>1, <1>2 DEF EvaluationInv, Evaluating
  <1>4. BestOfTried => BestOfTried'
    BY <1>1, <1>2 DEF BestOfTried
  <1>5. Refusals'
    BY <1>1 DEF EvaluationInv, Refusals
  <1>. QED
    BY <1>1, <1>3, <1>4, <1>5 DEF EvaluationInv

\* Every step of the command keeps what the evaluation knows.
LEMMA EvaluationKept ==
  ASSUME EvaluationInv, [RunNext]_allVars
  PROVE  EvaluationInv'
  <1>1. CASE Evaluate
    BY <1>1, RetrieveKeeps, CalibrateKeeps, ConsiderKeeps, GenerationKeeps DEF Evaluate
  <1>2. CASE Evaluated \/ Fail
    BY <1>2, ForgetKeeps DEF Evaluated, Fail
  <1>8. CASE Deterministic
    BY <1>8, ForgetKeeps DEF Deterministic
  <1>3. CASE Live \/ StartContainer \/ Migrate \/ StartEngine
    BY <1>3, UnchangedKeeps DEF Live, StartContainer, Migrate, StartEngine, Starts
  <1>4. CASE StartEmbeddingClient \/ StartLlmClient \/ IngestDocument \/ Ingested
    BY <1>4, UnchangedKeeps DEF StartEmbeddingClient, StartLlmClient, IngestDocument, Ingested,
       Starts
  <1>5. CASE Close \/ Closed \/ CompareBaseline
    BY <1>5, UnchangedKeeps DEF Close, Closed, CompareBaseline
  <1>6. CASE WriteJson \/ WriteMarkdown \/ WriteFails
    BY <1>6, UnchangedKeeps DEF WriteJson, WriteMarkdown, WriteFails
  <1>7. CASE UNCHANGED allVars
    BY <1>7, UnchangedKeeps DEF allVars
  <1>. QED
    BY <1>1, <1>2, <1>3, <1>4, <1>5, <1>6, <1>7, <1>8 DEF RunNext

\* The invariant of the evaluation holds whatever the command does around it.
THEOREM EvaluationInvariance == RunSpec => []EvaluationInv
  <1>1. RunInit => EvaluationInv
    BY EvaluationInitInv DEF RunInit
  <1>. QED
    BY <1>1, EvaluationKept, PTL DEF RunSpec

\* Calibration finds the best threshold there is.
THEOREM TheBestThreshold == RunSpec => []CalibrationIsBest
  BY EvaluationInvariance, BestOfAll, PTL

\* Reciprocal ranks count documents and not chunks.
THEOREM RanksOfDocuments == RunSpec => []RankCountsDocuments
  <1>1. EvaluationInv => RankCountsDocuments
    BY RankingsCount DEF EvaluationInv
  <1>. QED
    BY <1>1, EvaluationInvariance, PTL

\* A ranking lists a document once.
LEMMA RankingIsDistinct ==
  ASSUME NEW h \in HitLists
  PROVE  LET r == UniqueDocuments(h)
         IN  \A n, m \in DOMAIN r : r[n] \in Documents /\ (n # m => r[n] # r[m])
  <1> DEFINE r == UniqueDocuments(h)
  <1>1. /\ r \in Seq(Documents)
        /\ \A n \in DOMAIN r : \E i \in Firsts(h) : Rank(h, i) = n /\ r[n] = h[i].document
    BY RankingHasFirsts
  <1>2. Firsts(h) \subseteq Nat \ {0}
    BY FirstsFinite, HitListSequence
  <1> HIDE DEF r
  <1>3. ASSUME NEW i \in Firsts(h), NEW j \in Firsts(h), h[i].document = h[j].document
        PROVE  i = j
    <2>1. ~(j \in 1..(i - 1)) /\ ~(i \in 1..(j - 1))
      BY <1>3 DEF Firsts
    <2>. QED
      BY <1>2, <2>1
  <1>4. ASSUME NEW n \in DOMAIN r, NEW m \in DOMAIN r, r[n] = r[m] PROVE n = m
    <2>1. PICK i \in Firsts(h) : Rank(h, i) = n /\ r[n] = h[i].document
      BY <1>1
    <2>2. PICK j \in Firsts(h) : Rank(h, j) = m /\ r[m] = h[j].document
      BY <1>1
    <2>3. i = j
      BY <1>3, <1>4, <2>1, <2>2
    <2>. QED
      BY <2>1, <2>2, <2>3
  <1>. QED
    BY <1>1, <1>4 DEF r

\* Every variable of the evaluation keeps its type.
THEOREM EvaluationTypeCorrect == RunSpec => []EvaluationTypeOK
  <1>1. EvaluationInv => EvaluationTypeOK
    <2> SUFFICES ASSUME Evaluating PROVE EvaluationTypeOK
      BY DEF EvaluationInv
    <2>1. DOMAIN hits = 1..Len(hits) /\ DOMAIN rankings = DOMAIN hits
      BY DEF Evaluating
    <2>2. \A c \in DOMAIN rankings : hits[c] \in HitLists /\ rankings[c] = UniqueDocuments(hits[c])
      BY <2>1 DEF Evaluating
    <2>3. \A c \in DOMAIN rankings :
            \A n, m \in DOMAIN rankings[c] :
              rankings[c][n] \in Documents /\ (n # m => rankings[c][n] # rankings[c][m])
      BY <2>2, RankingIsDistinct
    <2>. QED
      BY <2>1, <2>2, <2>3 DEF Evaluating, EvaluationTypeOK
  <1>. QED
    BY <1>1, EvaluationInvariance, PTL

-----------------------------------------------------------------------------
(* What the command leaves behind.                                         *)

Contexts == {"container", "engine", "embedding_client", "llm_client"}

\* What is open is a list, and it is empty before and after the live steps.
Opened ==
  /\ open \in Seq(Contexts)
  /\ step \notin LiveSteps \cup {"close"} => open = <<>>

\* The files hold what an earlier run left until the gate is passed, and then
\* one is written after the other.
Files ==
  /\ files \in [{"json", "md"} -> {"earlier", "this", "cut"}]
  /\ step \notin {"md", "done", "failed"} => files.json = "earlier"
  /\ step \notin {"done", "failed"} => files.md = "earlier"
  /\ step = "md" => files.json = "this"
  /\ step = "done" => files.json = "this" /\ files.md = "this"
  /\ step \in {"gate", "json", "md"} => report # NoReport
  /\ step \in {"json", "md"} => ~Regressed(report, baseline)

CommandInv == RunTypeOK /\ Opened /\ Files /\ ReportsPassedTheGate

\* The dataset has some number of documents.
LEMMA Counted == Cardinality(Documents) \in Nat
  BY FS_CardinalityType, EvaluationAssumption

\* A report of some strategy is not NoReport, which has none.
LEMMA ReportIsMade ==
  /\ DOMAIN NoReport = {}
  /\ \A r : DOMAIN r \in {{"lexical"}, Strategies} => r # NoReport
  <1>1. DOMAIN NoReport = {}
    BY DEF NoReport
  <1>2. "lexical" \in Strategies
    BY DEF Strategies
  <1>. QED
    BY <1>1, <1>2

\* That there is nothing to compare with is one of the baselines.
LEMMA NoBaseline == NoReport \in Baselines
  <1>1. NoReport \in [{} -> [recall : Percents, mrr : Percents]]
    BY DEF NoReport
  <1>. QED
    BY <1>1 DEF Baselines

\* At first nothing is open and the files are of an earlier run.
LEMMA CommandInit == RunInit => CommandInv
  BY Counted, ReportIsMade, NoBaseline DEF RunInit, CommandInv, RunTypeOK, Opened, Files, ReportsPassedTheGate, LiveSteps

\* The context managers of a live run are entered and left in the live steps.
LEMMA OpenedKept ==
  ASSUME CommandInv, [RunNext]_allVars
  PROVE  RunTypeOK' /\ Opened'
  <1> USE Counted, ReportIsMade DEF CommandInv, RunTypeOK, LiveSteps, Opened, Files, Contexts
  <1>1. CASE Deterministic
    BY <1>1 DEF Deterministic
  <1>2. CASE Live
    BY <1>2 DEF Live
  <1>3. CASE StartContainer
    BY <1>3 DEF StartContainer, Starts
  <1>4. CASE Migrate
    BY <1>4 DEF Migrate
  <1>5. CASE StartEngine
    BY <1>5 DEF StartEngine, Starts
  <1>6. CASE StartEmbeddingClient
    BY <1>6 DEF StartEmbeddingClient, Starts
  <1>7. CASE StartLlmClient
    BY <1>7 DEF StartLlmClient, Starts
  <1>8. CASE IngestDocument
    BY <1>8 DEF IngestDocument
  <1>9. CASE Ingested
    BY <1>9 DEF Ingested
  <1>10. CASE Evaluate
    BY <1>10 DEF Evaluate, run
  <1>11. CASE Evaluated
    BY <1>11 DEF Evaluated
  <1>12. CASE Fail
    BY <1>12 DEF Fail
  <1>13. CASE Close
    <2>1. Len(open) - 1 \in Nat /\ Len(open) - 1 <= Len(open)
      BY <1>13 DEF Close
    <2>2. open' \in Seq(Contexts)
      BY <1>13, <2>1 DEF Close
    <2>. QED
      BY <1>13, <2>2 DEF Close
  <1>14. CASE Closed
    BY <1>14 DEF Closed
  <1>15. CASE CompareBaseline
    BY <1>15 DEF CompareBaseline
  <1>16. CASE WriteJson
    BY <1>16 DEF WriteJson
  <1>17. CASE WriteMarkdown
    BY <1>17 DEF WriteMarkdown
  <1>18. CASE WriteFails
    BY <1>18 DEF WriteFails
  <1>19. CASE UNCHANGED allVars
    BY <1>19 DEF allVars, run
  <1>. QED
    BY <1>1, <1>2, <1>3, <1>4, <1>5, <1>6, <1>7, <1>8, <1>9, <1>10, <1>11, <1>12, <1>13,
       <1>14, <1>15, <1>16, <1>17, <1>18, <1>19 DEF RunNext

\* Only a report that passed the gate is written.
LEMMA FilesKept ==
  ASSUME CommandInv, [RunNext]_allVars
  PROVE  Files' /\ ReportsPassedTheGate'
  <1> USE DEF CommandInv, RunTypeOK, LiveSteps, Files, ReportsPassedTheGate
  <1>1. CASE Deterministic
    <2>1. DOMAIN report' = {"lexical"}
      BY <1>1 DEF Deterministic
    <2>2. report' # NoReport
      BY <2>1, ReportIsMade
    <2>. QED
      BY <1>1, <2>2 DEF Deterministic
  <1>2. CASE Live
    BY <1>2 DEF Live
  <1>3. CASE StartContainer \/ StartEngine \/ StartEmbeddingClient \/ StartLlmClient
    BY <1>3 DEF StartContainer, StartEngine, StartEmbeddingClient, StartLlmClient, Starts
  <1>4. CASE Migrate
    BY <1>4 DEF Migrate
  <1>5. CASE IngestDocument \/ Ingested
    BY <1>5 DEF IngestDocument, Ingested
  <1>6. CASE Evaluate
    BY <1>6 DEF Evaluate, run
  <1>7. CASE Evaluated
    BY <1>7 DEF Evaluated
  <1>8. CASE Fail
    BY <1>8 DEF Fail
  <1>9. CASE Close
    BY <1>9 DEF Close
  <1>10. CASE Closed
    BY <1>10 DEF Closed
  <1>11. CASE CompareBaseline
    <2>1. PICK expected \in Baselines :
             /\ baseline' = expected
             /\ step' = IF Regressed(report, expected) THEN "failed" ELSE "json"
      BY <1>11 DEF CompareBaseline
    <2>2. CASE Regressed(report, expected)
      BY <1>11, <2>1, <2>2 DEF CompareBaseline
    <2>3. CASE ~Regressed(report, expected)
      BY <1>11, <2>1, <2>3 DEF CompareBaseline
    <2>. QED
      BY <2>2, <2>3
  <1>12. CASE WriteJson
    BY <1>12 DEF WriteJson
  <1>13. CASE WriteMarkdown
    BY <1>13 DEF WriteMarkdown
  <1>14. CASE WriteFails
    BY <1>14 DEF WriteFails
  <1>15. CASE UNCHANGED allVars
    BY <1>15 DEF allVars, run
  <1>. QED
    BY <1>1, <1>2, <1>3, <1>4, <1>5, <1>6, <1>7, <1>8, <1>9, <1>10, <1>11, <1>12, <1>13,
       <1>14, <1>15 DEF RunNext

\* The invariant holds in every reachable state.
THEOREM CommandInvariance == RunSpec => []CommandInv
  <1>1. CommandInv /\ [RunNext]_allVars => CommandInv'
    BY OpenedKept, FilesKept DEF CommandInv
  <1>. QED
    BY CommandInit, <1>1, PTL DEF RunSpec

\* Every variable of the command keeps its type.
THEOREM TypeCorrect == RunSpec => []RunTypeOK
  <1>1. CommandInv => RunTypeOK
    BY DEF CommandInv
  <1>. QED
    BY <1>1, CommandInvariance, PTL

\* A run that fails before the gate, or regresses in any strategy, touches
\* neither report file; the markdown is touched only after the JSON is whole.
THEOREM OnlyPassedReports == RunSpec => []ReportsPassedTheGate
  <1>1. CommandInv => ReportsPassedTheGate
    BY DEF CommandInv
  <1>. QED
    BY <1>1, CommandInvariance, PTL

\* However the command ends, the container and the clients are closed.
THEOREM EverythingIsClosed == RunSpec => []NothingLeftRunning
  <1>1. CommandInv => NothingLeftRunning
    BY DEF CommandInv, Opened, LiveSteps, NothingLeftRunning
  <1>. QED
    BY <1>1, CommandInvariance, PTL
===============================================================================
