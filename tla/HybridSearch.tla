---------------------------- MODULE HybridSearch ----------------------------
(***************************************************************************)
(* One ranked search of the chunks: the SQL statements of PgVectorRetriever *)
(* as what PostgreSQL may answer.  A statement reads one snapshot, so it is *)
(* one action.  The embedding and the tsquery of the question are reduced  *)
(* to what the statement does with them: a distance for every chunk and a  *)
(* relevance for every chunk, 0 meaning that the tsquery does not match.   *)
(* Scores are exact fractions <<numerator, denominator>>; the numeric type  *)
(* of PostgreSQL keeps enough digits to order those of small ranks.        *)
(***************************************************************************)
EXTENDS Integers, FiniteSets, Sequences

CONSTANTS
  Chunks,       \* ids of the stored chunks; ids are ordered, so numbers
  Distances,    \* cosine distances a chunk can have
  Relevances,   \* ts_rank_cd values, 0 for a chunk that does not match
  FetchLimits,  \* values of KA_RETRIEVAL_FETCH_LIMIT
  RrfKs,        \* values of KA_RRF_K
  Limits,       \* values of top_k
  Bar,          \* KA_MIN_RELEVANCE_SCORE, as a fraction
  MaxSearches   \* bound: how often the same question is asked

ASSUME SearchAssumption ==
  /\ Chunks \subseteq Nat /\ IsFiniteSet(Chunks)
  /\ Distances \subseteq Nat /\ Relevances \subseteq Nat
  /\ FetchLimits \subseteq Nat \ {0} /\ RrfKs \subseteq Nat \ {0}
  /\ Limits \subseteq Nat \ {0}
  /\ Bar \in Nat \X (Nat \ {0})
  /\ MaxSearches \in Nat

Strategies == {"hybrid", "dense", "lexical"}

VARIABLES
  query,    \* the bound parameters and what the corpus makes of the question
  dense,    \* CTE dense: the rank of each chunk the vector leg found
  text,     \* CTE full_text: the rank of each chunk the full-text leg found
  answers   \* the chunk ids each search returned, best first

vars == <<query, dense, text, answers>>

NoRanks == [c \in {} |-> 0]

Queries == [strategy : Strategies, distance : [Chunks -> Distances],
            relevance : [Chunks -> Relevances], fetchLimit : FetchLimits,
            rrfK : RrfKs, limit : Limits,
            exact : BOOLEAN]  \* the planner scans the table, or the HNSW index

Init == /\ query \in Queries
        /\ dense = NoRanks /\ text = NoRanks
        /\ answers = <<>>

-----------------------------------------------------------------------------
(* ORDER BY, LIMIT and ROW_NUMBER.  An order is a set of pairs <<b, c>>: b  *)
(* must come before c.  Rows it leaves unordered may come in any order, so *)
(* each operator is the set of results PostgreSQL may give.                *)

TopN(rows, n, order) ==
  {S \in SUBSET rows :
     /\ Cardinality(S) <= n
     /\ S # rows => Cardinality(S) = n
     /\ \A b \in rows \ S, c \in S : <<b, c>> \notin order}

RowNumbers(S, order) ==
  {r \in [S -> 1..Cardinality(S)] :
     \A b, c \in S : b # c => /\ r[b] # r[c]
                              /\ <<b, c>> \in order => r[b] < r[c]}

Listings(S, order) ==
  {h \in [1..Cardinality(S) -> S] :
     \A i, j \in 1..Cardinality(S) :
       i < j => h[i] # h[j] /\ <<h[j], h[i]>> \notin order}

Pairs == Chunks \X Chunks

-----------------------------------------------------------------------------
(* The two legs.                                                           *)

Uses(strategies) == query.strategy \in strategies

\* dense_knn has no tiebreaker; the window over its survivors has one.
Nearer == {p \in Pairs : query.distance[p[1]] < query.distance[p[2]]}

\* A plausible slip: the window without the id tiebreaker.
NearerOnly == Nearer

NearerById == Nearer \cup {p \in Pairs : /\ query.distance[p[1]] = query.distance[p[2]]
                                         /\ p[1] < p[2]}

\* An approximate scan may miss neighbours or return fewer.
KnnSurvivors ==
  IF query.exact THEN TopN(Chunks, query.fetchLimit, Nearer)
           ELSE {S \in SUBSET Chunks : Cardinality(S) <= query.fetchLimit}

DenseLeg == UNION {RowNumbers(S, NearerById) : S \in KnnSurvivors}

Matches == {c \in Chunks : query.relevance[c] > 0}

MoreRelevant ==
  {p \in Pairs : \/ query.relevance[p[1]] > query.relevance[p[2]]
                 \/ query.relevance[p[1]] = query.relevance[p[2]] /\ p[1] < p[2]}

\* A plausible slip: the matches are bounded before they are ordered.
FullTextTopById ==
  TopN(Matches, query.fetchLimit, {p \in Pairs : p[1] < p[2]})

FullTextTop == TopN(Matches, query.fetchLimit, MoreRelevant)

TextLeg == UNION {RowNumbers(S, MoreRelevant) : S \in FullTextTop}

-----------------------------------------------------------------------------
(* Reciprocal rank fusion.                                                 *)

\* A plausible slip: COALESCE(rank, 0) inside the fraction.
ReciprocalOfZero(ranks, c) ==
  <<1, query.rrfK + IF c \in DOMAIN ranks THEN ranks[c] ELSE 0>>

Reciprocal(ranks, c) ==
  IF c \in DOMAIN ranks THEN <<1, query.rrfK + ranks[c]>> ELSE <<0, 1>>

Score(d, t, c) ==
  LET a == Reciprocal(d, c)  b == Reciprocal(t, c)
  IN  <<a[1] * b[2] + b[1] * a[2], a[2] * b[2]>>

Less(x, y) == x[1] * y[2] < y[1] * x[2]

\* FULL OUTER JOIN: what either leg found.
Fused(d, t) == DOMAIN d \cup DOMAIN t

\* ORDER BY score DESC, id
ByScore(d, t) ==
  {p \in Pairs : \/ Less(Score(d, t, p[2]), Score(d, t, p[1]))
                 \/ /\ ~Less(Score(d, t, p[1]), Score(d, t, p[2]))
                    /\ p[1] < p[2]}

Hits(d, t) == UNION {Listings(S, ByScore(d, t)) :
                       S \in TopN(Fused(d, t), query.limit, ByScore(d, t))}

\* PgVectorRetriever.retrieve: one statement, chosen by the strategy; a leg
\* the statement does not have finds nothing.
Search ==
  /\ Len(answers) < MaxSearches
  /\ \E d \in IF Uses({"hybrid", "dense"}) THEN DenseLeg ELSE {NoRanks},
        t \in IF Uses({"hybrid", "lexical"}) THEN TextLeg ELSE {NoRanks} :
       /\ dense' = d /\ text' = t
       /\ \E h \in Hits(d, t) : answers' = Append(answers, h)
  /\ UNCHANGED query

Next == Search

Spec == Init /\ [][Next]_vars

-----------------------------------------------------------------------------
(* Properties.                                                             *)

\* Both legs rank chunks from 1 without gaps beyond their size, and every
\* answer is a list of at most top_k chunks.
TypeOK ==
  /\ query \in Queries
  /\ \A ranks \in {dense, text} :
       /\ DOMAIN ranks \subseteq Chunks
       /\ \A c \in DOMAIN ranks : ranks[c] \in 1..query.fetchLimit
  /\ \A n \in DOMAIN answers : /\ answers[n] \in Seq(Chunks)
                               /\ Len(answers[n]) <= query.limit

Last == answers[Len(answers)]

InBothLegs(c) == c \in DOMAIN dense /\ c \in DOMAIN text

\* A chunk found by both legs is listed before every chunk that only one leg
\* found, as long as fetch_limit is at most rrf_k + 1: the worst score of a
\* consensus then still beats the best of a single leg.
ConsensusFirst ==
  answers # <<>> /\ query.fetchLimit <= query.rrfK + 1 =>
    \A i, j \in DOMAIN Last : InBothLegs(Last[i]) /\ ~InBothLegs(Last[j]) => i < j

\* What config.py says of min_relevance_score: when the bar is above the best
\* score of a single leg, 1 / (rrf_k + 1), a chunk that reaches it was found
\* by both legs.
BarNeedsConsensus ==
  Less(<<1, query.rrfK + 1>>, Bar) =>
    \A c \in DOMAIN dense \cup DOMAIN text :
      ~Less(Score(dense, text, c), Bar) => InBothLegs(c)

\* The rank of c among all chunks that match the words of the question.
RankOfAllMatches(c) == 1 + Cardinality({b \in Matches : <<b, c>> \in MoreRelevant})

\* Bounding the matches before they are ranked changes no rank: a chunk the
\* full-text leg keeps has the rank it has among all matches.
PrelimitKeepsRanks == \A c \in DOMAIN text : text[c] = RankOfAllMatches(c)

\* The index scan cannot choose: it is exact, and no two chunks at the same
\* distance are on the two sides of fetch_limit.
NoTieAtFetchLimit ==
  query.exact /\ \A S, T \in KnnSurvivors : S = T

\* The same question over the same chunks gets the same answer, whatever
\* order the index yields equal distances in, unless they are cut apart by
\* fetch_limit (the id tiebreakers of every window and of the final order).
SameQuestionSameAnswer ==
  Uses({"lexical"}) \/ NoTieAtFetchLimit =>
    \A m, n \in DOMAIN answers : answers[m] = answers[n]
=============================================================================
