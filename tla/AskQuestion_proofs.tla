-------------------------- MODULE AskQuestion_proofs --------------------------
(***************************************************************************)
(* Theorems about AskQuestion for any questions, chunks, scores, bar, pool *)
(* and retry settings.  IInv adds to the properties what each step of a    *)
(* question knows of its hits, its evidence and its counters.              *)
(***************************************************************************)
EXTENDS AskQuestion, FiniteSetTheorems, SequenceTheorems, TLAPS

Generating == {"run", "request", "reply"}

\* What a question's local state is at each step.
StepsMatch ==
    \A q \in Questions :
        /\ status[q] = "none" <=> pc[q] # "done"
        /\ q \in held => pc[q] \in {"retrieve", "retrieved"}
        /\ pc[q] \notin Generating => calls[q] = 0
        /\ pc[q] \in Generating => evidence[q] # <<>>
        /\ pc[q] \notin Generating \cup {"done"} => evidence[q] = <<>>

\* Evidence is taken from the hits, and sources from the evidence.
EvidenceIsCleared ==
    \A q \in Questions :
        /\ ToSet(hits[q]) \subseteq library
        /\ ToSet(evidence[q]) \subseteq Cleared(q)
        /\ IsInjective(evidence[q])
        /\ ToSet(sources[q]) \subseteq ToSet(evidence[q])
        /\ IsInjective(sources[q])
        /\ status[q] = "200" <=> sources[q] # <<>>
        /\ status[q] = "refusal" => Cleared(q) = {} /\ evidence[q] = <<>>

Budget(n) == n * (1 + OutputRetries)

\* What the finished runs and the current one have cost.
CallsMatch ==
    \A q \in Questions :
        /\ pc[q] \in {"run", "request", "reply"} => calls[q] <= Budget(runs[q])
        /\ pc[q] = "run" => runs[q] < MaxRetries
        /\ pc[q] \in {"request", "reply"} =>
               /\ runs[q] \in 1 .. MaxRetries
               /\ calls[q] <= Budget(runs[q] - 1) + outputs[q]
               /\ outputs[q] <= 1 + OutputRetries
        /\ pc[q] = "request" => outputs[q] <= OutputRetries
        /\ pc[q] \notin Generating => runs[q] = 0

IInv ==
    /\ TypeOK
    /\ IsFiniteSet(library)
    /\ StepsMatch
    /\ EvidenceIsCleared
    /\ CallsMatch

\* Before and after, nothing is kept of the generation.
Forgotten ==
    \A q \in Questions : pc[q] \in {"idle", "done"} =>
        runs[q] = 0 /\ outputs[q] = 0 /\ calls[q] = 0 /\ reply[q] = NoReply

-----------------------------------------------------------------------------
(* Lists.                                                                  *)

\* A list of a finite set's elements has all of them, each once.
LEMMA ListOfSet ==
    ASSUME NEW S, IsFiniteSet(S), NEW t \in SetToSeqs(S)
    PROVE  /\ t \in Seq(S) /\ ToSet(t) \subseteq S /\ IsInjective(t)
           /\ t = <<>> <=> S = {}
  <1>1. Cardinality(S) \in Nat /\ (Cardinality(S) = 0 <=> S = {})
    BY FS_CardinalityType, FS_EmptySet
  <1>2. t \in [1 .. Cardinality(S) -> S] /\ \A i, j \in 1 .. Cardinality(S) : i # j => t[i] # t[j]
    BY DEF SetToSeqs
  <1>3. t \in Seq(S) /\ Len(t) = Cardinality(S) /\ DOMAIN t = 1 .. Cardinality(S)
    BY <1>1, <1>2
  <1>4. t = <<>> <=> Len(t) = 0
    BY <1>3, EmptySeq
  <1>. QED
    BY <1>1, <1>2, <1>3, <1>4 DEF ToSet, IsInjective

\* A sequence without elements is the empty one.
LEMMA NoElements ==
    ASSUME NEW S, NEW s \in Seq(S)
    PROVE  /\ ToSet(s) \subseteq S
           /\ ToSet(s) = {} <=> s = <<>>
  <1>1. s \in [1 .. Len(s) -> S] /\ Len(s) \in Nat
    BY LenProperties
  <1>2. s # <<>> => 1 \in DOMAIN s
    BY <1>1, EmptySeq
  <1>. QED
    BY <1>1, <1>2 DEF ToSet

\* What InOrderOf lists of a finite set is all of it, each element once.
LEMMA OrderedList ==
    ASSUME NEW S, IsFiniteSet(S), NEW s, NEW t \in InOrderOf(s, S)
    PROVE  /\ t \in Seq(S) /\ ToSet(t) \subseteq S /\ IsInjective(t)
           /\ t = <<>> <=> S = {}
  BY ListOfSet DEF InOrderOf

\* A ranking lists some of the chunks stored.
LEMMA RankedChunks ==
    ASSUME IsFiniteSet(library), library \subseteq Chunks, NEW s \in Rankings
    PROVE  s \in Seq(Chunks) /\ ToSet(s) \subseteq library
  <1>1. PICK S \in SUBSET library : s \in SetToSeqs(S)
    BY DEF Rankings
  <1>2. IsFiniteSet(S)
    BY <1>1, FS_Subset
  <1>3. s \in Seq(S) /\ ToSet(s) \subseteq S
    BY <1>1, <1>2, ListOfSet
  <1>. QED
    BY <1>1, <1>3, SeqMonotonic

\* The positions of a list are finitely many.
LEMMA Positions ==
    ASSUME NEW n \in Nat
    PROVE  IsFiniteSet(1 .. n)
  <1>1. 1 \in Int /\ n \in Int
    OBVIOUS
  <1>. QED
    BY ONLY <1>1, FS_Interval

\* The citations of a grounded answer resolve to distinct pieces of evidence.
LEMMA ResolvedCitations ==
    ASSUME TypeOK, NEW q \in Questions, Grounded(q), IsInjective(evidence[q]),
           NEW s \in ResolveSources(q)
    PROVE  /\ s \in Seq(Chunks) /\ s # <<>>
           /\ ToSet(s) \subseteq ToSet(evidence[q]) /\ IsInjective(s)
  <1> DEFINE indices == reply[q].indices
             E == 1 .. Len(evidence[q])
  <1>1. /\ evidence[q] \in Seq(Chunks) /\ Len(evidence[q]) \in Nat
        /\ evidence[q] \in [E -> Chunks]
    BY LenProperties DEF TypeOK
  <1>2. indices \in Seq(Nat) /\ indices # <<>>
    <2>1. reply[q] \in Replies
      BY DEF TypeOK, Grounded, NoReply
    <2>. QED
      BY <2>1, RepliesAssumption DEF Grounded
  <1>3. ToSet(indices) \subseteq E /\ ToSet(indices) # {}
    <2>1. ToSet(indices) # {}
      BY <1>2, NoElements
    <2>. QED
      BY <2>1 DEF Grounded, ToSet
  <1>4. IsFiniteSet(ToSet(indices))
    <2>1. IsFiniteSet(E)
      <3>1. Len(evidence[q]) \in Nat
        BY <1>1
      <3>. QED
        BY ONLY <3>1, Positions
    <2>. QED
      BY <1>3, <2>1, FS_Subset
  <1>5. PICK cited \in InOrderOf(indices, ToSet(indices)) :
            s = [i \in DOMAIN cited |-> evidence[q][cited[i]]]
    BY DEF ResolveSources
  <1>6. /\ cited \in Seq(ToSet(indices)) /\ IsInjective(cited) /\ cited # <<>>
    BY <1>3, <1>4, <1>5, OrderedList
  <1>7. /\ Len(cited) \in Nat \ {0} /\ DOMAIN cited = 1 .. Len(cited)
        /\ \A i \in 1 .. Len(cited) : cited[i] \in E
    BY <1>3, <1>6, LenProperties, EmptySeq
  <1>8. /\ s \in [1 .. Len(cited) -> Chunks]
        /\ \A i \in 1 .. Len(cited) : s[i] = evidence[q][cited[i]]
    BY <1>1, <1>5, <1>7
  <1>9. s \in Seq(Chunks) /\ Len(s) = Len(cited) /\ s # <<>>
    BY <1>7, <1>8
  <1>10. ToSet(s) \subseteq ToSet(evidence[q])
    BY <1>1, <1>7, <1>8 DEF ToSet
  <1>11. IsInjective(s)
    BY <1>1, <1>6, <1>7, <1>8 DEF IsInjective
  <1>. QED
    BY <1>9, <1>10, <1>11

-----------------------------------------------------------------------------
(* Type correctness.  It needs the library to be finite and the hits to come *)
(* from it, so it is proved as a part of the invariant.                      *)

\* What clears the bar is a finite set of chunks.
LEMMA ClearedIsFinite ==
    ASSUME TypeOK, IsFiniteSet(library), NEW q \in Questions, ToSet(hits[q]) \subseteq library
    PROVE  IsFiniteSet(Cleared(q)) /\ Cleared(q) \subseteq Chunks
  BY FS_Subset DEF Cleared, TypeOK

\* The evidence graded is a list of chunks.
LEMMA GradedEvidence ==
    ASSUME TypeOK, IsFiniteSet(library), NEW q \in Questions, ToSet(hits[q]) \subseteq library,
           NEW t \in InOrderOf(hits[q], Cleared(q))
    PROVE  /\ t \in Seq(Chunks) /\ ToSet(t) \subseteq Cleared(q) /\ IsInjective(t)
           /\ t = <<>> <=> Cleared(q) = {}
  BY ClearedIsFinite, OrderedList, SeqMonotonic

\* Every step of a question keeps every variable in its type.
LEMMA NextType ==
    ASSUME TypeOK, IsFiniteSet(library), EvidenceIsCleared, [Next]_vars
    PROVE  TypeOK'
  <1> USE LimitsAssumption
          DEF TypeOK, Steps, Statuses, retrieval, generation
  <1>0. NoReply \in Replies \cup {NoReply} /\ <<>> \in Seq(Chunks)
    OBVIOUS
  <1>1. ASSUME NEW q \in Questions, Receive(q), UNCHANGED library PROVE TypeOK'
    BY <1>0, <1>1 DEF Receive, Goto
  <1>2. ASSUME NEW q \in Questions, Reject(q), UNCHANGED library PROVE TypeOK'
    BY <1>0, <1>2 DEF Reject, Respond, Finish, Forget
  <1>3. ASSUME NEW q \in Questions, EmbedQuestion(q), UNCHANGED library PROVE TypeOK'
    BY <1>0, <1>3 DEF EmbedQuestion, Goto
  <1>4. ASSUME NEW q \in Questions, EmbedQuestionFails(q), UNCHANGED library PROVE TypeOK'
    BY <1>0, <1>4 DEF EmbedQuestionFails, Respond, Finish, Forget
  <1>5. ASSUME NEW q \in Questions, Acquire(q), UNCHANGED library PROVE TypeOK'
    BY <1>0, <1>5 DEF Acquire, WaitsForConnection
  <1>6. ASSUME NEW q \in Questions, AcquireFails(q), UNCHANGED library PROVE TypeOK'
    BY <1>0, <1>6
       DEF AcquireFails, WaitsForConnection, Respond, Finish, Forget, StatusOf, IsDbOutageError
  <1>7. ASSUME NEW q \in Questions, Retrieve(q), UNCHANGED library PROVE TypeOK'
    <2>1. PICK s \in Rankings : hits' = [hits EXCEPT ![q] = s]
      BY <1>7 DEF Retrieve
    <2>2. s \in Seq(Chunks)
      BY RankedChunks
    <2>. QED
      BY <1>7, <2>1, <2>2 DEF Retrieve, Goto
  <1>8. ASSUME NEW q \in Questions, RetrieveFails(q), UNCHANGED library PROVE TypeOK'
    BY <1>0, <1>8 DEF RetrieveFails, Respond, Finish, Forget, StatusOf, IsDbOutageError
  <1>9. ASSUME NEW q \in Questions, CloseScope(q), UNCHANGED library PROVE TypeOK'
    BY <1>0, <1>9 DEF CloseScope, Goto
  <1>10. ASSUME NEW q \in Questions, Grade(q), UNCHANGED library PROVE TypeOK'
    <2>1. PICK t \in InOrderOf(hits[q], Cleared(q)) : evidence' = [evidence EXCEPT ![q] = t]
      BY <1>10 DEF Grade
    <2>2. t \in Seq(Chunks)
      BY GradedEvidence DEF EvidenceIsCleared
    <2>3. evidence' \in [Questions -> Seq(Chunks)]
      BY <2>1, <2>2
    <2>4. CASE Goto(q, "run") /\ UNCHANGED generation
      BY <1>10, <2>3, <2>4 DEF Grade, Goto
    <2>5. CASE Respond(q, "refusal")
      BY <1>0, <1>10, <2>3, <2>5 DEF Grade, Respond, Finish, Forget
    <2>. QED
      BY <1>10, <2>4, <2>5 DEF Grade
  <1>11. ASSUME NEW q \in Questions, StartRun(q), UNCHANGED library PROVE TypeOK'
    BY <1>0, <1>11 DEF StartRun, Goto
  <1>12. ASSUME NEW q \in Questions, Request(q), UNCHANGED library PROVE TypeOK'
    BY <1>0, <1>12 DEF Request, Goto
  <1>13. ASSUME NEW q \in Questions, RetryOutput(q), UNCHANGED library PROVE TypeOK'
    BY <1>0, <1>13 DEF RetryOutput, Goto
  <1>14. ASSUME NEW q \in Questions, OutputExhausted(q), UNCHANGED library PROVE TypeOK'
    BY <1>0, <1>14 DEF OutputExhausted, Respond, Finish, Forget
  <1>15. ASSUME NEW q \in Questions, RetryRun(q), UNCHANGED library PROVE TypeOK'
    BY <1>0, <1>15 DEF RetryRun, Goto
  <1>16. ASSUME NEW q \in Questions, GiveUp(q), UNCHANGED library PROVE TypeOK'
    BY <1>0, <1>16 DEF GiveUp, Respond, Finish, Forget
  <1>17. ASSUME NEW q \in Questions, FailFast(q), UNCHANGED library PROVE TypeOK'
    BY <1>0, <1>17 DEF FailFast, Respond, Finish, Forget
  <1>18. ASSUME NEW q \in Questions, Answer(q), UNCHANGED library PROVE TypeOK'
    <2>1. PICK s \in ResolveSources(q) : sources' = [sources EXCEPT ![q] = s]
      BY <1>18 DEF Answer
    <2>2. s \in Seq(Chunks)
      BY <1>18, ResolvedCitations DEF Answer, EvidenceIsCleared
    <2>. QED
      BY <1>0, <1>18, <2>1, <2>2 DEF Answer, Finish, Forget
  <1>19. ASSUME NEW c \in Chunks, Ingested(c) PROVE TypeOK'
    BY <1>19 DEF Ingested
  <1>20. ASSUME Crash PROVE TypeOK'
    BY <1>0, <1>20 DEF Crash, LoseQuestions, InFlight
  <1>21. CASE UNCHANGED vars
    BY <1>21 DEF vars
  <1>. QED
    BY <1>1, <1>2, <1>3, <1>4, <1>5, <1>6, <1>7, <1>8, <1>9, <1>10, <1>11, <1>12, <1>13,
       <1>14, <1>15, <1>16, <1>17, <1>18, <1>19, <1>20, <1>21
       DEF Next, Ask, Workflow, Failure
-----------------------------------------------------------------------------
(* The inductive invariant.                                                *)

\* Nothing is stored, asked or spent at first.
LEMMA InitInv == Init => IInv
  <1> SUFFICES ASSUME Init PROVE IInv
    OBVIOUS
  <1>1. TypeOK
    BY DEF Init, TypeOK, Steps, Statuses
  <1>2. IsFiniteSet(library) /\ StepsMatch
    BY FS_EmptySet DEF Init, StepsMatch, Generating
  <1>3. EvidenceIsCleared
    BY DEF Init, EvidenceIsCleared, Cleared, ToSet, IsInjective
  <1>4. CallsMatch
    BY DEF Init, CallsMatch, Generating
  <1>. QED
    BY <1>1, <1>2, <1>3, <1>4 DEF IInv

\* A step that touches no list and gives no affirmative answer or refusal.
LEMMA EvidenceKept ==
    ASSUME TypeOK, EvidenceIsCleared, library \subseteq library',
           UNCHANGED <<hits, evidence, sources>>,
           \A q \in Questions :
               \/ status'[q] = status[q]
               \/ status[q] = "none" /\ status'[q] \notin {"200", "refusal"}
    PROVE  EvidenceIsCleared'
  <1> SUFFICES ASSUME NEW q \in Questions
               PROVE  /\ ToSet(hits[q]) \subseteq library'
                      /\ ToSet(evidence[q]) \subseteq Cleared(q)
                      /\ IsInjective(evidence[q])
                      /\ ToSet(sources[q]) \subseteq ToSet(evidence[q])
                      /\ IsInjective(sources[q])
                      /\ status'[q] = "200" <=> sources[q] # <<>>
                      /\ status'[q] = "refusal" => Cleared(q) = {} /\ evidence[q] = <<>>
    BY DEF EvidenceIsCleared, Cleared
  <1>. QED
    BY DEF EvidenceIsCleared

\* A step that leaves each question's counters alone, or ends its generation.
LEMMA CallsKept ==
    ASSUME CallsMatch,
           \A q \in Questions :
               \/ /\ pc'[q] = pc[q] /\ runs'[q] = runs[q]
                  /\ outputs'[q] = outputs[q] /\ calls'[q] = calls[q]
               \/ pc'[q] \notin Generating /\ runs'[q] = 0
    PROVE  CallsMatch'
  BY DEF CallsMatch, Generating, Budget

\* One more run buys 1 + OutputRetries more requests.
LEMMA BudgetGrows ==
    ASSUME NEW n \in Nat
    PROVE  /\ Budget(n) \in Nat
           /\ Budget(n + 1) = Budget(n) + 1 + OutputRetries
           /\ n <= MaxRetries => Budget(n) <= CallBudget
  <1> DEFINE B == 1 + OutputRetries
  <1>1. B \in Nat /\ MaxRetries \in Nat
    BY LimitsAssumption
  <1>2. n * B \in Nat /\ (n + 1) * B = n * B + B
    BY <1>1
  <1>3. n <= MaxRetries => n * B <= MaxRetries * B
    BY <1>1
  <1> HIDE DEF B
  <1>. QED
    BY <1>1, <1>2, <1>3, LimitsAssumption DEF Budget, CallBudget, B

\* Every step preserves the inductive invariant.
LEMMA NextInv == IInv /\ [Next]_vars => IInv'
  <1> SUFFICES ASSUME IInv, [Next]_vars PROVE IInv'
    OBVIOUS
  <1> USE DEF retrieval, generation
  <1>0. TypeOK /\ TypeOK' /\ IsFiniteSet(library) /\ EvidenceIsCleared
    BY NextType DEF IInv
  <1>1. ASSUME NEW q \in Questions, Receive(q), UNCHANGED library PROVE IInv'
    <2>0. IsFiniteSet(library')
      BY <1>0, <1>1
    <2>1. StepsMatch'
      BY <1>0, <1>1 DEF IInv, TypeOK, Receive, Goto, StepsMatch, Generating
    <2>2. EvidenceIsCleared'
      BY <1>0, <1>1, EvidenceKept DEF IInv, TypeOK, Receive, Goto, StepsMatch
    <2>3. CallsMatch'
      BY <1>0, <1>1, CallsKept DEF IInv, TypeOK, Receive, Goto, StepsMatch, CallsMatch, Generating
    <2>. QED
      BY <1>0, <2>0, <2>1, <2>2, <2>3 DEF IInv
  <1>2. ASSUME NEW q \in Questions, Reject(q), UNCHANGED library PROVE IInv'
    <2>0. IsFiniteSet(library')
      BY <1>0, <1>2
    <2>1. StepsMatch'
      BY <1>0, <1>2 DEF IInv, TypeOK, Reject, Respond, Finish, Forget, StepsMatch, Generating
    <2>2. EvidenceIsCleared'
      BY <1>0, <1>2, EvidenceKept DEF IInv, TypeOK, Reject, Respond, Finish, Forget, StepsMatch
    <2>3. CallsMatch'
      BY <1>0, <1>2, CallsKept
         DEF IInv, TypeOK, Reject, Respond, Finish, Forget, StepsMatch, CallsMatch, Generating
    <2>. QED
      BY <1>0, <2>0, <2>1, <2>2, <2>3 DEF IInv
  <1>3. ASSUME NEW q \in Questions, EmbedQuestion(q), UNCHANGED library PROVE IInv'
    <2>0. IsFiniteSet(library')
      BY <1>0, <1>3
    <2>1. StepsMatch'
      BY <1>0, <1>3 DEF IInv, TypeOK, EmbedQuestion, Goto, StepsMatch, Generating
    <2>2. EvidenceIsCleared'
      BY <1>0, <1>3, EvidenceKept DEF IInv, TypeOK, EmbedQuestion, Goto, StepsMatch
    <2>3. CallsMatch'
      BY <1>0, <1>3, CallsKept
         DEF IInv, TypeOK, EmbedQuestion, Goto, StepsMatch, CallsMatch, Generating
    <2>. QED
      BY <1>0, <2>0, <2>1, <2>2, <2>3 DEF IInv
  <1>4. ASSUME NEW q \in Questions, EmbedQuestionFails(q), UNCHANGED library PROVE IInv'
    <2>0. IsFiniteSet(library')
      BY <1>0, <1>4
    <2>1. StepsMatch'
      BY <1>0, <1>4
         DEF IInv, TypeOK, EmbedQuestionFails, Respond, Finish, Forget, StepsMatch, Generating
    <2>2. EvidenceIsCleared'
      BY <1>0, <1>4, EvidenceKept
         DEF IInv, TypeOK, EmbedQuestionFails, Respond, Finish, Forget, StepsMatch
    <2>3. CallsMatch'
      BY <1>0, <1>4, CallsKept
         DEF IInv, TypeOK, EmbedQuestionFails, Respond, Finish, Forget, StepsMatch, CallsMatch, Generating
    <2>. QED
      BY <1>0, <2>0, <2>1, <2>2, <2>3 DEF IInv
  <1>5. ASSUME NEW q \in Questions, Acquire(q), UNCHANGED library PROVE IInv'
    <2>0. IsFiniteSet(library')
      BY <1>0, <1>5
    <2>1. StepsMatch'
      BY <1>0, <1>5 DEF IInv, TypeOK, Acquire, WaitsForConnection, StepsMatch, Generating
    <2>2. EvidenceIsCleared'
      BY <1>0, <1>5, EvidenceKept DEF IInv, TypeOK, Acquire, WaitsForConnection, StepsMatch
    <2>3. CallsMatch'
      BY <1>0, <1>5, CallsKept
         DEF IInv, TypeOK, Acquire, WaitsForConnection, StepsMatch, CallsMatch, Generating
    <2>. QED
      BY <1>0, <2>0, <2>1, <2>2, <2>3 DEF IInv
  <1>6. ASSUME NEW q \in Questions, AcquireFails(q), UNCHANGED library PROVE IInv'
    <2>0. IsFiniteSet(library')
      BY <1>0, <1>6
    <2>1. StepsMatch'
      BY <1>0, <1>6
         DEF IInv, TypeOK, AcquireFails, WaitsForConnection, StatusOf, IsDbOutageError, Respond, Finish, Forget, StepsMatch, Generating
    <2>2. EvidenceIsCleared'
      BY <1>0, <1>6, EvidenceKept
         DEF IInv, TypeOK, AcquireFails, WaitsForConnection, StatusOf, IsDbOutageError, Respond, Finish, Forget, StepsMatch
    <2>3. CallsMatch'
      BY <1>0, <1>6, CallsKept
         DEF IInv, TypeOK, AcquireFails, WaitsForConnection, StatusOf, IsDbOutageError, Respond, Finish, Forget, StepsMatch, CallsMatch, Generating
    <2>. QED
      BY <1>0, <2>0, <2>1, <2>2, <2>3 DEF IInv
  <1>7. ASSUME NEW q \in Questions, Retrieve(q), UNCHANGED library PROVE IInv'
    <2>0. IsFiniteSet(library')
      BY <1>0, <1>7
    <2>1. StepsMatch'
      BY <1>0, <1>7 DEF IInv, TypeOK, Retrieve, Goto, StepsMatch, Generating
    <2>2. EvidenceIsCleared'
      <3>1. PICK s \in Rankings : hits' = [hits EXCEPT ![q] = s]
        BY <1>7 DEF Retrieve
      <3>2. ToSet(s) \subseteq library
        BY <1>0, RankedChunks DEF TypeOK
      <3>3. UNCHANGED <<library, evidence, sources, status>>
        BY <1>7 DEF Retrieve, Goto
      <3>4. evidence[q] = <<>> /\ status[q] = "none"
        BY <1>7 DEF IInv, StepsMatch, Retrieve, Generating
      <3>5. ToSet(evidence[q]) = {}
        BY <3>4 DEF ToSet
      <3> SUFFICES ASSUME NEW p \in Questions
                   PROVE  /\ ToSet(hits'[p]) \subseteq library
                          /\ ToSet(evidence[p]) \subseteq Cleared(p)'
                          /\ status[p] = "refusal" => Cleared(p)' = {}
        BY <1>0, <3>3 DEF EvidenceIsCleared
      <3>6. CASE p = q
        BY <1>0, <3>1, <3>2, <3>4, <3>5, <3>6 DEF TypeOK
      <3>7. CASE p # q
        BY <1>0, <3>1, <3>7 DEF TypeOK, EvidenceIsCleared, Cleared
      <3>. QED
        BY <3>6, <3>7
    <2>3. CallsMatch'
      BY <1>0, <1>7 DEF IInv, TypeOK, Retrieve, Goto, CallsMatch, Generating, Budget
    <2>. QED
      BY <1>0, <2>0, <2>1, <2>2, <2>3 DEF IInv
  <1>8. ASSUME NEW q \in Questions, RetrieveFails(q), UNCHANGED library PROVE IInv'
    <2>0. IsFiniteSet(library')
      BY <1>0, <1>8
    <2>1. StepsMatch'
      BY <1>0, <1>8
         DEF IInv, TypeOK, RetrieveFails, StatusOf, IsDbOutageError, Respond, Finish, Forget, StepsMatch, Generating
    <2>2. EvidenceIsCleared'
      BY <1>0, <1>8, EvidenceKept
         DEF IInv, TypeOK, RetrieveFails, StatusOf, IsDbOutageError, Respond, Finish, Forget, StepsMatch
    <2>3. CallsMatch'
      BY <1>0, <1>8, CallsKept
         DEF IInv, TypeOK, RetrieveFails, StatusOf, IsDbOutageError, Respond, Finish, Forget, StepsMatch, CallsMatch, Generating
    <2>. QED
      BY <1>0, <2>0, <2>1, <2>2, <2>3 DEF IInv
  <1>9. ASSUME NEW q \in Questions, CloseScope(q), UNCHANGED library PROVE IInv'
    <2>0. IsFiniteSet(library')
      BY <1>0, <1>9
    <2>1. StepsMatch'
      BY <1>0, <1>9 DEF IInv, TypeOK, CloseScope, Goto, StepsMatch, Generating
    <2>2. EvidenceIsCleared'
      BY <1>0, <1>9, EvidenceKept DEF IInv, TypeOK, CloseScope, Goto, StepsMatch
    <2>3. CallsMatch'
      BY <1>0, <1>9, CallsKept
         DEF IInv, TypeOK, CloseScope, Goto, StepsMatch, CallsMatch, Generating
    <2>. QED
      BY <1>0, <2>0, <2>1, <2>2, <2>3 DEF IInv
  <1>10. ASSUME NEW q \in Questions, Grade(q), UNCHANGED library PROVE IInv'
    <2>0. IsFiniteSet(library')
      BY <1>0, <1>10
    <2>4. PICK t \in InOrderOf(hits[q], Cleared(q)) : evidence' = [evidence EXCEPT ![q] = t]
      BY <1>10 DEF Grade
    <2>5. /\ t \in Seq(Chunks) /\ ToSet(t) \subseteq Cleared(q) /\ IsInjective(t)
          /\ t = <<>> <=> Cleared(q) = {}
      BY <1>0, GradedEvidence DEF EvidenceIsCleared
    <2>6. evidence'[q] = t /\ \A p \in Questions \ {q} : evidence'[p] = evidence[p]
      BY <1>0, <2>4 DEF TypeOK
    <2>7. UNCHANGED <<library, held, hits, sources>> /\ pc[q] = "grade"
      BY <1>10 DEF Grade, Goto, Respond
    <2>8. \/ Cleared(q) # {} /\ Goto(q, "run") /\ UNCHANGED generation
          \/ Cleared(q) = {} /\ Respond(q, "refusal")
      BY <1>10 DEF Grade
    <2>1. StepsMatch'
      <3>1. CASE Cleared(q) # {} /\ Goto(q, "run") /\ UNCHANGED generation
        BY <1>0, <2>5, <2>6, <2>7, <3>1 DEF IInv, TypeOK, Goto, StepsMatch, Generating
      <3>2. CASE Cleared(q) = {} /\ Respond(q, "refusal")
        BY <1>0, <2>5, <2>6, <2>7, <3>2
           DEF IInv, TypeOK, Respond, Finish, Forget, StepsMatch, Generating
      <3>. QED
        BY <2>8, <3>1, <3>2
    <2>2. EvidenceIsCleared'
      <3>1. sources[q] = <<>> /\ status[q] = "none"
        BY <2>7 DEF IInv, StepsMatch, EvidenceIsCleared
      <3>2. /\ \A p \in Questions \ {q} : status'[p] = status[p]
            /\ status'[q] = "none" \/ (status'[q] = "refusal" /\ Cleared(q) = {})
        <4>1. CASE Cleared(q) # {} /\ Goto(q, "run") /\ UNCHANGED generation
          BY <3>1, <4>1 DEF Goto
        <4>2. CASE Cleared(q) = {} /\ Respond(q, "refusal")
          BY <1>0, <3>1, <4>2 DEF TypeOK, Respond, Finish
        <4>. QED
          BY <2>8, <4>1, <4>2
      <3>3. ToSet(sources[q]) = {}
        BY <3>1 DEF ToSet
      <3> SUFFICES ASSUME NEW p \in Questions
                   PROVE  /\ ToSet(hits[p]) \subseteq library
                          /\ ToSet(evidence'[p]) \subseteq Cleared(p)
                          /\ IsInjective(evidence'[p])
                          /\ ToSet(sources[p]) \subseteq ToSet(evidence'[p])
                          /\ IsInjective(sources[p])
                          /\ status'[p] = "200" <=> sources[p] # <<>>
                          /\ status'[p] = "refusal" => Cleared(p) = {} /\ evidence'[p] = <<>>
        BY <2>7 DEF EvidenceIsCleared, Cleared
      <3>4. CASE p = q
        BY <1>0, <2>5, <2>6, <3>1, <3>2, <3>3, <3>4 DEF EvidenceIsCleared
      <3>5. CASE p # q
        BY <1>0, <2>6, <3>2, <3>5 DEF EvidenceIsCleared
      <3>. QED
        BY <3>4, <3>5
    <2>3. CallsMatch'
      <3>1. calls[q] = 0 /\ runs[q] = 0 /\ Budget(0) = 0
        BY <2>7, LimitsAssumption DEF IInv, StepsMatch, CallsMatch, Generating, Budget
      <3>2. CASE Cleared(q) # {} /\ Goto(q, "run") /\ UNCHANGED generation
        BY <1>0, <2>7, <3>1, <3>2, LimitsAssumption
           DEF IInv, TypeOK, Goto, CallsMatch, Generating
      <3>3. CASE Cleared(q) = {} /\ Respond(q, "refusal")
        BY <1>0, <3>3, CallsKept DEF IInv, TypeOK, Respond, Finish, Forget, Generating
      <3>. QED
        BY <2>8, <3>2, <3>3
    <2>. QED
      BY <1>0, <2>0, <2>1, <2>2, <2>3 DEF IInv
  <1>11. ASSUME NEW q \in Questions, StartRun(q), UNCHANGED library PROVE IInv'
    <2>0. IsFiniteSet(library')
      BY <1>0, <1>11
    <2>1. StepsMatch'
      BY <1>0, <1>11 DEF IInv, TypeOK, StartRun, Goto, StepsMatch, Generating
    <2>2. EvidenceIsCleared'
      BY <1>0, <1>11, EvidenceKept DEF IInv, TypeOK, StartRun, Goto, StepsMatch
    <2>3. CallsMatch'
      <3>1. /\ runs[q] \in Nat /\ outputs[q] \in Nat /\ calls[q] \in Nat
            /\ pc[q] = "run" /\ pc'[q] = "request"
            /\ runs'[q] = runs[q] + 1 /\ outputs'[q] = 0 /\ calls'[q] = calls[q]
        BY <1>0, <1>11 DEF TypeOK, StartRun, Goto
      <3>2. runs[q] \in Nat /\ runs[q] < MaxRetries
        BY <3>1, LimitsAssumption DEF IInv, CallsMatch
      <3>3. /\ Budget(runs[q]) \in Nat
            /\ Budget((runs[q]) + 1) = Budget(runs[q]) + 1 + OutputRetries
        BY <3>2, BudgetGrows
      <3>4. (runs[q]) + 1 = runs'[q] /\ runs'[q] - 1 = runs[q]
        BY <3>1
      <3>5. \A p \in Questions \ {q} :
                /\ pc'[p] = pc[p] /\ runs'[p] = runs[p]
                /\ outputs'[p] = outputs[p] /\ calls'[p] = calls[p]
        BY <1>0, <1>11 DEF TypeOK, StartRun, Goto
      <3> SUFFICES ASSUME NEW p \in Questions
                   PROVE  (CallsMatch!(p))'
        BY DEF CallsMatch
      <3>6. CASE p = q
        BY <3>1, <3>2, <3>3, <3>4, <3>6, LimitsAssumption DEF IInv, CallsMatch, Generating
      <3>7. CASE p # q
        BY <3>5, <3>7 DEF IInv, CallsMatch
      <3>. QED
        BY <3>6, <3>7
    <2>. QED
      BY <1>0, <2>0, <2>1, <2>2, <2>3 DEF IInv
  <1>12. ASSUME NEW q \in Questions, Request(q), UNCHANGED library PROVE IInv'
    <2>0. IsFiniteSet(library')
      BY <1>0, <1>12
    <2>1. StepsMatch'
      BY <1>0, <1>12 DEF IInv, TypeOK, Request, Goto, StepsMatch, Generating
    <2>2. EvidenceIsCleared'
      BY <1>0, <1>12, EvidenceKept DEF IInv, TypeOK, Request, Goto, StepsMatch
    <2>3. CallsMatch'
      <3>1. /\ runs[q] \in Nat /\ outputs[q] \in Nat /\ calls[q] \in Nat
            /\ pc[q] = "request" /\ pc'[q] = "reply"
            /\ runs'[q] = runs[q] /\ outputs'[q] = outputs[q] + 1 /\ calls'[q] = calls[q] + 1
        BY <1>0, <1>12 DEF TypeOK, Request, Goto
      <3>2. runs[q] - 1 \in Nat
        BY <3>1, LimitsAssumption DEF IInv, CallsMatch
      <3>3. /\ Budget(runs[q] - 1) \in Nat
            /\ Budget((runs[q] - 1) + 1) = Budget(runs[q] - 1) + 1 + OutputRetries
        BY <3>2, BudgetGrows
      <3>4. (runs[q] - 1) + 1 = runs'[q] /\ runs'[q] - 1 = runs[q] - 1
        BY <3>1
      <3>5. \A p \in Questions \ {q} :
                /\ pc'[p] = pc[p] /\ runs'[p] = runs[p]
                /\ outputs'[p] = outputs[p] /\ calls'[p] = calls[p]
        BY <1>0, <1>12 DEF TypeOK, Request, Goto
      <3> SUFFICES ASSUME NEW p \in Questions
                   PROVE  (CallsMatch!(p))'
        BY DEF CallsMatch
      <3>6. CASE p = q
        BY <3>1, <3>2, <3>3, <3>4, <3>6, LimitsAssumption DEF IInv, CallsMatch, Generating
      <3>7. CASE p # q
        BY <3>5, <3>7 DEF IInv, CallsMatch
      <3>. QED
        BY <3>6, <3>7
    <2>. QED
      BY <1>0, <2>0, <2>1, <2>2, <2>3 DEF IInv
  <1>13. ASSUME NEW q \in Questions, RetryOutput(q), UNCHANGED library PROVE IInv'
    <2>0. IsFiniteSet(library')
      BY <1>0, <1>13
    <2>1. StepsMatch'
      BY <1>0, <1>13 DEF IInv, TypeOK, RetryOutput, Goto, StepsMatch, Generating
    <2>2. EvidenceIsCleared'
      BY <1>0, <1>13, EvidenceKept DEF IInv, TypeOK, RetryOutput, Goto, StepsMatch
    <2>3. CallsMatch'
      BY <1>0, <1>13, BudgetGrows, LimitsAssumption
         DEF IInv, TypeOK, RetryOutput, Goto, CallsMatch, Generating, InvalidOutput
    <2>. QED
      BY <1>0, <2>0, <2>1, <2>2, <2>3 DEF IInv
  <1>14. ASSUME NEW q \in Questions, OutputExhausted(q), UNCHANGED library PROVE IInv'
    <2>0. IsFiniteSet(library')
      BY <1>0, <1>14
    <2>1. StepsMatch'
      BY <1>0, <1>14
         DEF IInv, TypeOK, OutputExhausted, Respond, Finish, Forget, StepsMatch, Generating
    <2>2. EvidenceIsCleared'
      BY <1>0, <1>14, EvidenceKept
         DEF IInv, TypeOK, OutputExhausted, Respond, Finish, Forget, StepsMatch
    <2>3. CallsMatch'
      BY <1>0, <1>14, CallsKept
         DEF IInv, TypeOK, OutputExhausted, Respond, Finish, Forget, StepsMatch, CallsMatch, Generating
    <2>. QED
      BY <1>0, <2>0, <2>1, <2>2, <2>3 DEF IInv
  <1>15. ASSUME NEW q \in Questions, RetryRun(q), UNCHANGED library PROVE IInv'
    <2>0. IsFiniteSet(library')
      BY <1>0, <1>15
    <2>1. StepsMatch'
      BY <1>0, <1>15 DEF IInv, TypeOK, RetryRun, Goto, StepsMatch, Generating
    <2>2. EvidenceIsCleared'
      BY <1>0, <1>15, EvidenceKept DEF IInv, TypeOK, RetryRun, Goto, StepsMatch
    <2>3. CallsMatch'
      BY <1>0, <1>15, BudgetGrows, LimitsAssumption
         DEF IInv, TypeOK, RetryRun, Goto, CallsMatch, Generating, InvalidOutput
    <2>. QED
      BY <1>0, <2>0, <2>1, <2>2, <2>3 DEF IInv
  <1>16. ASSUME NEW q \in Questions, GiveUp(q), UNCHANGED library PROVE IInv'
    <2>0. IsFiniteSet(library')
      BY <1>0, <1>16
    <2>1. StepsMatch'
      BY <1>0, <1>16 DEF IInv, TypeOK, GiveUp, Respond, Finish, Forget, StepsMatch, Generating
    <2>2. EvidenceIsCleared'
      BY <1>0, <1>16, EvidenceKept DEF IInv, TypeOK, GiveUp, Respond, Finish, Forget, StepsMatch
    <2>3. CallsMatch'
      BY <1>0, <1>16, CallsKept
         DEF IInv, TypeOK, GiveUp, Respond, Finish, Forget, StepsMatch, CallsMatch, Generating
    <2>. QED
      BY <1>0, <2>0, <2>1, <2>2, <2>3 DEF IInv
  <1>17. ASSUME NEW q \in Questions, FailFast(q), UNCHANGED library PROVE IInv'
    <2>0. IsFiniteSet(library')
      BY <1>0, <1>17
    <2>1. StepsMatch'
      BY <1>0, <1>17 DEF IInv, TypeOK, FailFast, Respond, Finish, Forget, StepsMatch, Generating
    <2>2. EvidenceIsCleared'
      BY <1>0, <1>17, EvidenceKept DEF IInv, TypeOK, FailFast, Respond, Finish, Forget, StepsMatch
    <2>3. CallsMatch'
      BY <1>0, <1>17, CallsKept
         DEF IInv, TypeOK, FailFast, Respond, Finish, Forget, StepsMatch, CallsMatch, Generating
    <2>. QED
      BY <1>0, <2>0, <2>1, <2>2, <2>3 DEF IInv
  <1>18. ASSUME NEW q \in Questions, Answer(q), UNCHANGED library PROVE IInv'
    <2>0. IsFiniteSet(library')
      BY <1>0, <1>18
    <2>4. PICK s \in ResolveSources(q) : sources' = [sources EXCEPT ![q] = s]
      BY <1>18 DEF Answer
    <2>5. /\ s # <<>> /\ ToSet(s) \subseteq ToSet(evidence[q]) /\ IsInjective(s)
      BY <1>0, <1>18, ResolvedCitations DEF Answer, EvidenceIsCleared
    <2>1. StepsMatch'
      BY <1>0, <1>18 DEF IInv, TypeOK, Answer, Finish, Forget, StepsMatch, Generating
    <2>2. EvidenceIsCleared'
      <3>1. /\ UNCHANGED <<library, hits, evidence>>
            /\ status' = [status EXCEPT ![q] = "200"]
        BY <1>18 DEF Answer, Finish
      <3> SUFFICES ASSUME NEW p \in Questions
                   PROVE  /\ ToSet(sources'[p]) \subseteq ToSet(evidence[p])
                          /\ IsInjective(sources'[p])
                          /\ status'[p] = "200" <=> sources'[p] # <<>>
                          /\ status'[p] = "refusal" => Cleared(p) = {} /\ evidence[p] = <<>>
        BY <1>0, <3>1 DEF EvidenceIsCleared, Cleared
      <3>2. CASE p = q
        BY <1>0, <2>4, <2>5, <3>1, <3>2 DEF TypeOK
      <3>3. CASE p # q
        BY <1>0, <2>4, <3>1, <3>3 DEF TypeOK, EvidenceIsCleared
      <3>. QED
        BY <3>2, <3>3
    <2>3. CallsMatch'
      BY <1>0, <1>18, CallsKept DEF IInv, TypeOK, Answer, Finish, Forget, Generating
    <2>. QED
      BY <1>0, <2>0, <2>1, <2>2, <2>3 DEF IInv
  <1>19. ASSUME NEW c \in Chunks, Ingested(c) PROVE IInv'
    <2>0. IsFiniteSet(library')
      BY <1>0, <1>19, FS_AddElement DEF Ingested
    <2>1. StepsMatch' /\ CallsMatch'
      BY <1>19 DEF IInv, Ingested, StepsMatch, CallsMatch
    <2>2. EvidenceIsCleared'
      BY <1>0, <1>19, EvidenceKept DEF Ingested
    <2>. QED
      BY <1>0, <2>0, <2>1, <2>2 DEF IInv
  <1>20. ASSUME Crash PROVE IInv'
    <2>0. IsFiniteSet(library')
      BY <1>0, <1>20 DEF Crash
    <2>1. StepsMatch'
      BY <1>0, <1>20 DEF IInv, TypeOK, Crash, LoseQuestions, InFlight, StepsMatch, Generating
    <2>2. EvidenceIsCleared'
      BY <1>0, <1>20, EvidenceKept DEF IInv, Crash, LoseQuestions, InFlight, StepsMatch
    <2>3. CallsMatch'
      BY <1>0, <1>20, CallsKept DEF IInv, Crash, LoseQuestions, InFlight, Generating
    <2>. QED
      BY <1>0, <2>0, <2>1, <2>2, <2>3 DEF IInv
  <1>21. CASE UNCHANGED vars
    BY <1>0, <1>21
       DEF IInv, vars, StepsMatch, EvidenceIsCleared, Cleared, CallsMatch
  <1>. QED
    BY <1>1, <1>2, <1>3, <1>4, <1>5, <1>6, <1>7, <1>8, <1>9, <1>10, <1>11, <1>12, <1>13,
       <1>14, <1>15, <1>16, <1>17, <1>18, <1>19, <1>20, <1>21
       DEF Next, Ask, Workflow, Failure

\* In every state each question's evidence, sources and counters are what its
\* step allows: what the theorems below follow from.
THEOREM Invariance == Spec => []IInv
  BY InitInv, NextInv, PTL DEF Spec

-----------------------------------------------------------------------------
(* What the invariant gives.                                               *)

\* A finished question keeps nothing of its generation.
LEMMA NextForgotten == TypeOK /\ Forgotten /\ [Next]_vars => Forgotten'
  <1> SUFFICES ASSUME TypeOK, Forgotten, [Next]_vars PROVE Forgotten'
    OBVIOUS
  <1> USE DEF TypeOK, Forgotten, Goto, retrieval, generation
  <1>1. ASSUME NEW q \in Questions, Receive(q) \/ EmbedQuestion(q) PROVE Forgotten'
    BY <1>1 DEF Receive, EmbedQuestion
  <1>2. ASSUME NEW q \in Questions, Acquire(q) \/ Retrieve(q) \/ CloseScope(q)
        PROVE  Forgotten'
    BY <1>2 DEF Acquire, Retrieve, CloseScope
  <1>3. ASSUME NEW q \in Questions, StartRun(q) \/ Request(q) \/ RetryOutput(q) \/ RetryRun(q)
        PROVE  Forgotten'
    BY <1>3 DEF StartRun, Request, RetryOutput, RetryRun
  <1>4. ASSUME NEW q \in Questions, NEW code, Finish(q, code) PROVE Forgotten'
    BY <1>4 DEF Finish, Forget
  <1>5. ASSUME NEW q \in Questions,
               Reject(q) \/ EmbedQuestionFails(q) \/ AcquireFails(q) \/ RetrieveFails(q)
        PROVE  Forgotten'
    BY <1>4, <1>5 DEF Reject, EmbedQuestionFails, AcquireFails, RetrieveFails, Respond
  <1>6. ASSUME NEW q \in Questions,
               OutputExhausted(q) \/ GiveUp(q) \/ FailFast(q) \/ Answer(q)
        PROVE  Forgotten'
    BY <1>4, <1>6 DEF OutputExhausted, GiveUp, FailFast, Answer, Respond
  <1>7. ASSUME NEW q \in Questions, Grade(q) PROVE Forgotten'
    <2>1. CASE Goto(q, "run") /\ UNCHANGED generation
      BY <2>1
    <2>. QED
      BY <1>4, <1>7, <2>1 DEF Grade, Respond
  <1>8. ASSUME NEW c \in Chunks, Ingested(c) PROVE Forgotten'
    BY <1>8 DEF Ingested
  <1>9. CASE Crash
    BY <1>9 DEF Crash, LoseQuestions
  <1>10. CASE UNCHANGED vars
    BY <1>10 DEF vars
  <1>. QED
    BY <1>1, <1>2, <1>3, <1>5, <1>6, <1>7, <1>8, <1>9, <1>10 DEF Next, Ask, Workflow, Failure

\* The properties the model checker runs follow from the invariant.
LEMMA InvImplies ==
    IInv => /\ AnswersAreGrounded /\ RefusesOnlyWithoutEvidence
            /\ CallsAreBounded /\ NoConnectionAcrossModelCalls
  <1> SUFFICES ASSUME IInv
               PROVE  /\ AnswersAreGrounded /\ RefusesOnlyWithoutEvidence
                      /\ CallsAreBounded /\ NoConnectionAcrossModelCalls
    OBVIOUS
  <1>1. AnswersAreGrounded
    BY DEF IInv, EvidenceIsCleared, AnswersAreGrounded
  <1>2. RefusesOnlyWithoutEvidence
    <2> SUFFICES ASSUME NEW q \in Questions, calls[q] > 0 PROVE Cleared(q) # {}
      BY DEF IInv, EvidenceIsCleared, RefusesOnlyWithoutEvidence
    <2>1. evidence[q] # <<>> /\ evidence[q] \in Seq(Chunks)
      BY DEF IInv, TypeOK, StepsMatch
    <2>2. ToSet(evidence[q]) # {}
      BY <2>1, NoElements
    <2>. QED
      BY <2>2 DEF IInv, EvidenceIsCleared
  <1>3. CallsAreBounded
    <2> SUFFICES ASSUME NEW q \in Questions PROVE calls[q] <= CallBudget
      BY DEF CallsAreBounded
    <2>1. CASE pc[q] \in Generating
      <3>1. /\ runs[q] \in Nat /\ runs[q] <= MaxRetries
            /\ calls[q] \in Nat /\ calls[q] <= Budget(runs[q])
        BY <2>1, LimitsAssumption DEF IInv, TypeOK, CallsMatch, Generating
      <3>2. Budget(runs[q]) \in Nat /\ Budget(runs[q]) <= CallBudget
        BY <3>1, BudgetGrows
      <3>3. CallBudget \in Nat
        BY LimitsAssumption DEF CallBudget
      <3>. QED
        BY <3>1, <3>2, <3>3
    <2>2. CASE pc[q] \notin Generating
      <3>1. calls[q] = 0
        BY <2>2 DEF IInv, StepsMatch
      <3>. QED
        BY <3>1, BudgetGrows, LimitsAssumption DEF Budget, CallBudget
    <2>. QED
      BY <2>1, <2>2
  <1>4. NoConnectionAcrossModelCalls
    BY DEF IInv, StepsMatch, NoConnectionAcrossModelCalls
  <1>. QED
    BY <1>1, <1>2, <1>3, <1>4

\* No variable ever leaves its type.
THEOREM TypeCorrect == Spec => []TypeOK
  BY Invariance, PTL DEF IInv

\* An answer cites only distinct chunks retrieved for it that clear the bar
\* (validate_grounding and _resolve_sources).
THEOREM GroundedAnswers == Spec => []AnswersAreGrounded
  BY Invariance, InvImplies, PTL

\* The assistant refuses, and spends no model call, exactly when nothing
\* retrieved clears the bar (decide_answer_route).
THEOREM HonestRefusals == Spec => []RefusesOnlyWithoutEvidence
  BY Invariance, InvImplies, PTL

\* No sequence of replies makes a question cost more than its two retry
\* settings multiplied.
THEOREM BoundedCalls == Spec => []CallsAreBounded
  BY Invariance, InvImplies, PTL

\* No connection is held while the model or the embedding service is called.
THEOREM ShortRetrieval == Spec => []NoConnectionAcrossModelCalls
  BY Invariance, InvImplies, PTL

-----------------------------------------------------------------------------
(* The refinement of GroundedAnswerer.                                     *)

Bar == {c \in Chunks : Score[c] >= MinScore}
Seen == [q \in Questions |-> ToSet(evidence[q])]
Cited == [q \in Questions |-> ToSet(sources[q])]

\* A step that shows the questions nothing new.
LEMMA SilentStep ==
    ASSUME UNCHANGED <<library, evidence, sources, status>>
    PROVE  UNCHANGED Promise!abstractVars
  BY DEF Promise!abstractVars, Outcome

\* A question that ends without an answer or a refusal.
LEMMA FailedStep ==
    ASSUME TypeOK, StepsMatch, NEW q \in Questions, pc[q] # "done",
           NEW code \in Statuses \ {"200", "refusal"},
           Respond(q, code), UNCHANGED <<library, evidence>>
    PROVE  Promise!Failed(q)
  <1>1. /\ status[q] = "none" /\ status' = [status EXCEPT ![q] = code]
        /\ UNCHANGED <<library, evidence, sources>>
    BY DEF StepsMatch, Respond, Finish
  <1>2. Outcome[q] = "waiting" /\ Outcome' = [Outcome EXCEPT ![q] = "failed"]
    BY <1>1 DEF TypeOK, Outcome, Statuses
  <1>. QED
    BY <1>1, <1>2 DEF Promise!Failed, Promise!Settle

\* Every step is a step of GroundedAnswerer or leaves what it shows unchanged.
LEMMA StepSimulation ==
    IInv /\ [Next]_vars => [Promise!ANext]_(Promise!abstractVars)
  <1> SUFFICES ASSUME IInv, [Next]_vars
               PROVE  [Promise!ANext]_(Promise!abstractVars)
    OBVIOUS
  <1> USE DEF retrieval, generation
  <1>0. /\ TypeOK /\ TypeOK' /\ IsFiniteSet(library) /\ StepsMatch /\ EvidenceIsCleared
    BY NextType DEF IInv
  <1>1. ASSUME NEW q \in Questions, UNCHANGED library,
               \/ Receive(q) \/ EmbedQuestion(q) \/ Acquire(q) \/ Retrieve(q)
               \/ CloseScope(q) \/ StartRun(q) \/ Request(q) \/ RetryOutput(q)
               \/ RetryRun(q)
        PROVE  UNCHANGED Promise!abstractVars
    <2>1. UNCHANGED <<library, evidence, sources, status>>
      BY <1>1 DEF Receive, EmbedQuestion, Acquire, Retrieve, CloseScope, StartRun, Request,
                  RetryOutput, RetryRun, Goto
    <2>. QED
      BY <2>1, SilentStep
  <1>2. ASSUME NEW q \in Questions, UNCHANGED library,
               \/ Reject(q) \/ EmbedQuestionFails(q) \/ AcquireFails(q)
               \/ RetrieveFails(q) \/ OutputExhausted(q) \/ GiveUp(q) \/ FailFast(q)
        PROVE  Promise!ANext
    <2>1. PICK code \in Statuses \ {"200", "refusal"} :
              pc[q] # "done" /\ Respond(q, code) /\ UNCHANGED evidence
      BY <1>2 DEF Reject, EmbedQuestionFails, AcquireFails, RetrieveFails, OutputExhausted,
                  GiveUp, FailFast, WaitsForConnection, StatusOf, Statuses
    <2>. QED
      BY <1>0, <1>2, <2>1, FailedStep DEF Promise!ANext
  <1>3. ASSUME NEW q \in Questions, UNCHANGED library, Grade(q)
        PROVE  Promise!ANext
    <2>1. PICK t \in InOrderOf(hits[q], Cleared(q)) : evidence' = [evidence EXCEPT ![q] = t]
      BY <1>3 DEF Grade
    <2>2. /\ t \in Seq(Chunks) /\ ToSet(t) \subseteq Cleared(q)
          /\ t = <<>> <=> Cleared(q) = {}
      BY <1>0, GradedEvidence DEF EvidenceIsCleared
    <2>3. ToSet(t) \subseteq library \cap Bar /\ (ToSet(t) = {} <=> t = <<>>)
      BY <1>0, <2>2, NoElements DEF EvidenceIsCleared, Cleared, Bar, TypeOK
    <2>4. evidence[q] = <<>> /\ Seen[q] = {} /\ status[q] = "none" /\ Outcome[q] = "waiting"
      BY <1>0, <1>3 DEF StepsMatch, Generating, Grade, Seen, ToSet, Outcome
    <2>5. Seen' = [Seen EXCEPT ![q] = ToSet(t)]
      BY <1>0, <2>1 DEF TypeOK, Seen
    <2>6. CASE Cleared(q) # {} /\ Goto(q, "run") /\ UNCHANGED generation
      <3>1. UNCHANGED <<library, sources, Outcome>>
        BY <1>3, <2>6 DEF Goto, Outcome
      <3>2. Promise!See(q)
        BY <2>2, <2>3, <2>4, <2>5, <2>6, <3>1 DEF Promise!See, Seen, Bar
      <3>. QED
        BY <3>2 DEF Promise!ANext
    <2>7. CASE Cleared(q) = {} /\ Respond(q, "refusal")
      <3>1. evidence' = evidence
        BY <1>0, <2>1, <2>2, <2>4, <2>7 DEF TypeOK
      <3>2. UNCHANGED <<library, sources>> /\ status' = [status EXCEPT ![q] = "refusal"]
        BY <1>3, <2>7 DEF Respond, Finish
      <3>3. Outcome' = [Outcome EXCEPT ![q] = "refused"]
        BY <1>0, <3>2 DEF TypeOK, Outcome
      <3>4. Promise!Refused(q)
        BY <2>4, <3>1, <3>2, <3>3 DEF Promise!Refused, Promise!Settle, Seen
      <3>. QED
        BY <3>4 DEF Promise!ANext
    <2>. QED
      BY <1>3, <2>6, <2>7 DEF Grade
  <1>4. ASSUME NEW q \in Questions, UNCHANGED library, Answer(q)
        PROVE  Promise!ANext
    <2>1. PICK s \in ResolveSources(q) : sources' = [sources EXCEPT ![q] = s]
      BY <1>4 DEF Answer
    <2>2. s \in Seq(Chunks) /\ s # <<>> /\ ToSet(s) \subseteq ToSet(evidence[q])
      BY <1>0, <1>4, ResolvedCitations DEF Answer, EvidenceIsCleared
    <2>3. ToSet(s) # {}
      BY <2>2, NoElements
    <2>4. /\ status[q] = "none" /\ status' = [status EXCEPT ![q] = "200"]
          /\ UNCHANGED <<library, evidence>>
      BY <1>0, <1>4 DEF Answer, Finish, StepsMatch
    <2>5. Outcome[q] = "waiting" /\ Outcome' = [Outcome EXCEPT ![q] = "answered"]
      BY <1>0, <2>4 DEF TypeOK, Outcome
    <2>6. Cited' = [Cited EXCEPT ![q] = ToSet(s)]
      BY <1>0, <2>1 DEF TypeOK, Cited
    <2>7. Promise!Answered(q)
      BY <2>2, <2>3, <2>4, <2>5, <2>6 DEF Promise!Answered, Promise!Settle, Cited
    <2>. QED
      BY <2>7 DEF Promise!ANext
  <1>5. ASSUME NEW c \in Chunks, Ingested(c) PROVE Promise!ANext
    BY <1>5 DEF Ingested, Outcome, Promise!ANext, Promise!Stored
  <1>6. ASSUME Crash PROVE Promise!ANext
    <2>1. /\ status' = [q \in Questions |-> IF q \in InFlight THEN "lost" ELSE status[q]]
          /\ UNCHANGED <<library, evidence, sources>>
      BY <1>6 DEF Crash, LoseQuestions
    <2>2. /\ InFlight \in SUBSET Questions
          /\ \A q \in InFlight : status[q] = "none" /\ Outcome[q] = "waiting"
      BY <1>0 DEF InFlight, StepsMatch, Outcome
    <2>3. Outcome' = [q \in Questions |-> IF q \in InFlight THEN "failed" ELSE Outcome[q]]
      BY <2>1 DEF Outcome
    <2>4. Promise!Lost
      BY <2>1, <2>2, <2>3 DEF Promise!Lost
    <2>. QED
      BY <2>4 DEF Promise!ANext
  <1>7. CASE UNCHANGED vars
    BY <1>7, SilentStep DEF vars
  <1>. QED
    BY <1>1, <1>2, <1>3, <1>4, <1>5, <1>6, <1>7 DEF Next, Ask, Workflow, Failure

\* The retrying, failing workflow implements the one-look answerer.
THEOREM Refinement == Spec => AnswersAsPromised
  <1>1. Init => Promise!AInit
    BY DEF Init, Outcome, ToSet, Promise!AInit
  <1>. QED
    BY <1>1, Invariance, StepSimulation, PTL DEF Spec, AnswersAsPromised, Promise!ASpec
=============================================================================
