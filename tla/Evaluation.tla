------------------------------ MODULE Evaluation ------------------------------
(***************************************************************************)
(* What the evaluation command computes on a dataset it has ingested: it    *)
(* retrieves for every case, calibrates the relevance bar on the hybrid    *)
(* scores, and asks every question of the real workflow.  Cases run one    *)
(* after the other.  The dense and the lexical pass feed no later step: only *)
(* their metrics count, in EvaluationRun, which adds what the command does  *)
(* around all this.  The metrics of the answers are left out.               *)
(*                                                                         *)
(* Scores are even numbers, so that the next number stands for the next    *)
(* larger float, score + 1e-12.  The database does not change, so asking a *)
(* question retrieves what the first pass retrieved (HybridSearch).         *)
(***************************************************************************)
EXTENDS Integers, FiniteSets, Sequences, FiniteSetsExt, Functions

CONSTANTS
  CaseCount,   \* cases of the dataset
  Documents,   \* its documents
  Scores,      \* scores a hit can have
  MaxHits,     \* top_k of the evaluation
  Bar          \* the relevance bar of the workflow that is asked

ASSUME EvaluationAssumption ==
  /\ {CaseCount, MaxHits} \subseteq Nat \ {0}
  /\ Scores \subseteq Nat /\ IsFiniteSet(Scores) /\ \A s \in Scores : s % 2 = 0
  /\ IsFiniteSet(Documents) /\ Bar \in Nat

Cases == 1..CaseCount

VARIABLES
  relevant,    \* the documents that answer each case; none: unanswerable
  stage,       \* "retrieval", "calibration" or "generation"
  hits,        \* the hybrid hits of the cases retrieved so far
  rankings,    \* their documents, best first
  candidates,  \* the thresholds calibration has not tried
  best,        \* the best threshold so far and its recall, or NoThreshold
  observed     \* what the workflow did with the cases asked so far

evaluationVars == <<relevant, stage, hits, rankings, candidates, best, observed>>

NoThreshold == [threshold |-> -1, recall |-> -1]

Answerable == {c \in Cases : relevant[c] # {}}

EvaluationInit == /\ relevant \in [Cases -> SUBSET Documents]
        /\ stage = "retrieval" /\ hits = <<>> /\ rankings = <<>>
        /\ candidates = {} /\ best = NoThreshold
        /\ observed = <<>>

-----------------------------------------------------------------------------
(* Retrieval.                                                              *)

Hit == [document : Documents, score : Scores]

\* What a search may return: a list of chunks, best first; several chunks may
\* belong to one document.
HitLists == UNION {{h \in [1..n -> Hit] : \A i, j \in 1..n :
                      i < j => h[i].score >= h[j].score} : n \in 0..MaxHits}

\* A plausible slip: the documents of the chunks as they come.
EveryDocument(h) == [i \in DOMAIN h |-> h[i].document]

\* _unique_document_ids: the first occurrence of each document.
UniqueDocuments(h) ==
  LET firsts == {i \in DOMAIN h : \A j \in 1..(i - 1) : h[j].document # h[i].document}
  IN  [n \in 1..Cardinality(firsts) |->
         h[CHOOSE i \in firsts : Cardinality(firsts \cap 1..i) = n].document]

\* The rank of the first relevant document of a ranking, 0 for none.
FirstRelevant(c, ranking) ==
  LET found == {i \in DOMAIN ranking : ranking[i] \in relevant[c]}
  IN  IF found = {} THEN 0 ELSE Min(found)

\* The metrics over the answerable cases, in whole percents.
Mean(percents) ==
  IF Answerable = {} THEN 0
  ELSE SumFunction(percents) \div Cardinality(Answerable)

RecallAtK(r, k) ==
  LET Found(c) == {d \in relevant[c] : \E i \in DOMAIN r[c] : i <= k /\ r[c][i] = d}
  IN  Mean([c \in Answerable |->
              (100 * Cardinality(Found(c))) \div Cardinality(relevant[c])])

MeanReciprocalRank(r) ==
  Mean([c \in Answerable |->
          LET rank == FirstRelevant(c, r[c]) IN IF rank = 0 THEN 0 ELSE 100 \div rank])

Retrieve ==
  /\ stage = "retrieval" /\ Len(hits) < CaseCount
  /\ \E h \in HitLists : /\ hits' = Append(hits, h)
                         /\ rankings' = Append(rankings, UniqueDocuments(h))
  /\ UNCHANGED <<relevant, stage, candidates, best, observed>>

-----------------------------------------------------------------------------
(* Calibration.                                                            *)

ScoresOf(cases) == UNION {{hits[c][i].score : i \in DOMAIN hits[c]} : c \in cases}

\* A plausible slip: only scores that occur are tried.
OccurringThresholds == ScoresOf(Cases)

\* Every score, and the first number above the best unanswerable hit.
Thresholds ==
  LET unanswerable == ScoresOf(Cases \ Answerable)
  IN  ScoresOf(Cases) \cup (IF unanswerable = {} THEN {} ELSE {Max(unanswerable) + 1})

Calibrate ==
  /\ stage = "retrieval" /\ Len(hits) = CaseCount
  /\ candidates' = Thresholds
  /\ stage' = "calibration"
  /\ UNCHANGED <<relevant, hits, rankings, best, observed>>

Clears(c, threshold) == \E i \in DOMAIN hits[c] : hits[c][i].score >= threshold

FalsePositives(threshold) ==
  Cardinality({c \in Cases \ Answerable : Clears(c, threshold)})

\* The answerable cases with a relevant document at or above the threshold;
\* the code divides it by their number, which never changes.
Recall(threshold) ==
  Cardinality({c \in Answerable : \E i \in DOMAIN hits[c] :
                 hits[c][i].document \in relevant[c] /\ hits[c][i].score >= threshold})

\* The thresholds are tried from the largest down.
Consider ==
  /\ stage = "calibration" /\ candidates # {}
  /\ LET threshold == Max(candidates)
         candidate == [threshold |-> threshold, recall |-> Recall(threshold)]
     IN  /\ best' = IF /\ FalsePositives(threshold) = 0
                       /\ \/ best = NoThreshold
                          \/ candidate.recall > best.recall
                          \/ candidate.recall = best.recall /\ threshold > best.threshold
                    THEN candidate ELSE best
         /\ candidates' = candidates \ {threshold}
  /\ UNCHANGED <<relevant, stage, hits, rankings, observed>>

StartGeneration ==
  /\ stage = "calibration" /\ candidates = {}
  /\ stage' = "generation"
  /\ UNCHANGED <<relevant, hits, rankings, candidates, best, observed>>

-----------------------------------------------------------------------------
(* Generation.                                                             *)

\* The documents the workflow may cite: nonempty sets of those whose chunks
\* clear its bar, or none, a refusal, when there is no such chunk.
Citations(c) ==
  LET relevantHits == {i \in DOMAIN hits[c] : hits[c][i].score >= Bar}
      evidence == {hits[c][i].document : i \in relevantHits}
  IN  IF evidence = {} THEN {{}} ELSE (SUBSET evidence) \ {{}}

Ask ==
  /\ stage = "generation" /\ Len(observed) < CaseCount
  /\ \E cited \in Citations(Len(observed) + 1) :
       observed' = Append(observed, [refused |-> cited = {}, cited |-> cited])
  /\ UNCHANGED <<relevant, stage, hits, rankings, candidates, best>>

-----------------------------------------------------------------------------
(* Properties.                                                             *)

\* The type invariant; a ranking lists a document once.
EvaluationTypeOK ==
  /\ relevant \in [Cases -> SUBSET Documents]
  /\ stage \in {"retrieval", "calibration", "generation"}
  /\ Len(hits) <= CaseCount /\ \A c \in DOMAIN hits : hits[c] \in HitLists
  /\ Len(rankings) = Len(hits)
  /\ \A c \in DOMAIN rankings :
       /\ \A i \in DOMAIN rankings[c] : rankings[c][i] \in Documents
       /\ \A i, j \in DOMAIN rankings[c] : i # j => rankings[c][i] # rankings[c][j]
  /\ Len(observed) <= CaseCount

Calibrated == stage = "generation"

\* Any threshold at all, tried by calibration or not.
AnyThreshold == 0..(1 + Max(Scores))

\* Calibration finds the best threshold there is and not only the best it
\* tried: none that keeps every unanswerable case out lets more answerable
\* cases through, and it gives up only when nothing was retrieved.  Asked with
\* a bar that high, the workflow refuses every unanswerable case.
CalibrationIsBest ==
  Calibrated =>
    IF best = NoThreshold THEN ScoresOf(Cases) = {}
    ELSE /\ FalsePositives(best.threshold) = 0
         /\ best.recall = Recall(best.threshold)
         /\ \A t \in AnyThreshold :
              FalsePositives(t) = 0 => Recall(t) <= best.recall
         /\ Bar >= best.threshold =>
              \A c \in DOMAIN observed : c \notin Answerable => observed[c].refused

\* Hits are chunks, reciprocal ranks count documents: the rank of the first
\* relevant document is one more than the number of different documents whose
\* chunks came before its first chunk, however many chunks those were.
RankCountsDocuments ==
  \A c \in DOMAIN rankings :
    LET found == {i \in DOMAIN hits[c] : hits[c][i].document \in relevant[c]}
    IN  IF found = {} THEN FirstRelevant(c, rankings[c]) = 0
        ELSE \E first \in found :
               /\ \A i \in found : first <= i
               /\ FirstRelevant(c, rankings[c]) =
                    1 + Cardinality({hits[c][i].document : i \in 1..(first - 1)})
=============================================================================
