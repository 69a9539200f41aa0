----------------------------- MODULE EvaluationRun -----------------------------
(***************************************************************************)
(* The evaluation command from its start to its exit, in each of its modes:  *)
(* it starts a database in a container, migrates it, opens its clients,     *)
(* ingests the dataset, evaluates (Evaluation), closes everything, compares *)
(* the metrics with a baseline and writes the report over the one of an     *)
(* earlier run.  Anything may fail or be interrupted.                      *)
(***************************************************************************)
EXTENDS Evaluation

CONSTANT Percents   \* the metrics a baseline may hold

ASSUME PercentsAssumption == Percents \subseteq 0..100

VARIABLES
  mode,      \* "none", then "deterministic", "live-retrieval" or "live-full"
  step,      \* where the command is
  open,      \* what it has started and not closed, in the order started
  stored,    \* documents of the dataset ingested
  report,    \* the metrics of each strategy evaluated, or NoReport
  baseline,  \* those compared with, or NoReport
  files      \* what the report files hold: the "earlier" content, that of "this"
             \* run, or what a write that failed has "cut" short

run == <<mode, step, open, stored, report, baseline, files>>
allVars == <<evaluationVars, run>>

Strategies == {"hybrid", "dense", "lexical"}

\* No strategy at all.
NoReport == [strategy \in {} |-> 0]

RunInit ==
  /\ EvaluationInit
  /\ mode = "none" /\ step = "start" /\ open = <<>> /\ stored = 0
  /\ report = NoReport /\ baseline = NoReport
  /\ files = [json |-> "earlier", md |-> "earlier"]

\* The dataset and what the evaluation kept are local to it.
Forget ==
  /\ relevant' = [c \in Cases |-> {}]
  /\ hits' = <<>> /\ rankings' = <<>> /\ candidates' = {} /\ best' = NoThreshold
  /\ observed' = <<>> /\ stage' = "retrieval"

Metrics(r) == [recall |-> RecallAtK(r, 5), mrr |-> MeanReciprocalRank(r)]

\* The metrics of a strategy that ranks every case in one of these ways.
MetricsOver(ways) == {Metrics(r) : r \in [Cases -> ways]}

-----------------------------------------------------------------------------
(* Up to the report.                                                       *)

\* lexical_rank: a list of the documents that share a word with the question.
LexicalRankings == {r \in UNION {[1..n -> Documents] : n \in 0..Cardinality(Documents)} :
                      IsInjective(r)}

Deterministic ==
  /\ step = "start"
  /\ mode' = "deterministic"
  /\ \E metrics \in MetricsOver(LexicalRankings) :
       report' = [strategy \in {"lexical"} |-> metrics]
  /\ Forget
  /\ step' = "gate"
  /\ UNCHANGED <<open, stored, baseline, files>>

Live ==
  /\ step = "start"
  /\ mode' \in {"live-retrieval", "live-full"}
  /\ step' = "container"
  /\ UNCHANGED <<evaluationVars, open, stored, report, baseline, files>>

\* The context managers, entered in this order.
Starts(what, next) ==
  /\ open' = Append(open, what)
  /\ step' = next
  /\ UNCHANGED <<evaluationVars, mode, stored, report, baseline, files>>

StartContainer == step = "container" /\ Starts("container", "migrate")

Migrate == /\ step = "migrate"
           /\ step' = "engine"
           /\ UNCHANGED <<evaluationVars, mode, open, stored, report, baseline, files>>

StartEngine == step = "engine" /\ Starts("engine", "embedding_client")

StartEmbeddingClient ==
  /\ step = "embedding_client"
  /\ Starts("embedding_client", IF mode = "live-full" THEN "llm_client" ELSE "ingest")

StartLlmClient == step = "llm_client" /\ Starts("llm_client", "ingest")

\* One document is chunked, embedded and saved, all in one transaction.
IngestDocument ==
  /\ step = "ingest" /\ stored < Cardinality(Documents)
  /\ stored' = stored + 1
  /\ UNCHANGED <<evaluationVars, mode, step, open, report, baseline, files>>

Ingested == /\ step = "ingest" /\ stored = Cardinality(Documents)
            /\ step' = "evaluate"
            /\ UNCHANGED <<evaluationVars, mode, open, stored, report, baseline, files>>

Evaluate ==
  /\ step = "evaluate"
  /\ \/ Retrieve \/ Calibrate \/ Consider
     \/ mode = "live-full" /\ (StartGeneration \/ Ask)
  /\ UNCHANGED run

\* What a strategy makes of the chunks it may find.
HitRankings == {UniqueDocuments(h) : h \in HitLists}

\* The dense and the lexical pass run on the same cases; nothing but the gate
\* and the report looks at what they find.
Evaluated ==
  /\ step = "evaluate"
  /\ \/ mode = "live-retrieval" /\ stage = "calibration" /\ candidates = {}
     \/ stage = "generation" /\ Len(observed) = CaseCount
  /\ \E others \in [Strategies \ {"hybrid"} -> MetricsOver(HitRankings)] :
       report' = [strategy \in Strategies |->
                    IF strategy = "hybrid" THEN Metrics(rankings) ELSE others[strategy]]
  /\ Forget
  /\ step' = "close"
  /\ UNCHANGED <<mode, open, stored, baseline, files>>

LiveSteps == {"container", "migrate", "engine", "embedding_client", "llm_client",
              "ingest", "evaluate"}

\* A plausible slip: the container is stopped where the engine is disposed of,
\* which a migration that fails does not reach.
FailBeforeFinally ==
  /\ step \in LiveSteps \cup {"start"}
  /\ step' = IF step = "migrate" THEN "failed" ELSE "close"
  /\ Forget
  /\ UNCHANGED <<mode, open, stored, report, baseline, files>>

\* The step raises, or the command is interrupted.
Fail ==
  /\ step \in LiveSteps \cup {"start"}
  /\ step' = "close"
  /\ Forget
  /\ UNCHANGED <<mode, open, stored, report, baseline, files>>

\* A context manager exits, the last one entered first; when that raises, the
\* ones around it exit all the same and the command fails.
Close ==
  /\ step = "close" /\ open # <<>>
  /\ open' = SubSeq(open, 1, Len(open) - 1)
  /\ report' \in {report, NoReport}
  /\ UNCHANGED <<evaluationVars, mode, step, stored, baseline, files>>

Closed ==
  /\ step = "close" /\ open = <<>>
  /\ step' = IF report = NoReport THEN "failed" ELSE "gate"
  /\ UNCHANGED <<evaluationVars, mode, open, stored, report, baseline, files>>

-----------------------------------------------------------------------------
(* The report.                                                             *)

Tolerance == 5

\* One metric is further below the baseline than tolerated.
Worse(current, expected) ==
  \/ current.recall < expected.recall - Tolerance
  \/ current.mrr < expected.mrr - Tolerance

\* In any of the strategies that both hold.
Regressed(current, expected) ==
  \E strategy \in DOMAIN current \cap DOMAIN expected :
    Worse(current[strategy], expected[strategy])

\* The file compared with holds the metrics of any strategies, or does not exist.
Baselines ==
  UNION {[strategies -> [recall : Percents, mrr : Percents]] : strategies \in SUBSET Strategies}

\* A plausible slip: only the strategy that the assistant uses is compared.
CompareHybrid ==
  /\ step = "gate"
  /\ \E expected \in Baselines :
       /\ baseline' = expected
       /\ step' = IF /\ "hybrid" \in DOMAIN report \cap DOMAIN expected
                     /\ Worse(report["hybrid"], expected["hybrid"])
                  THEN "failed" ELSE "json"
  /\ UNCHANGED <<evaluationVars, mode, open, stored, report, files>>

\* A regression ends the command.
CompareBaseline ==
  /\ step = "gate"
  /\ \E expected \in Baselines :
       /\ baseline' = expected
       /\ step' = IF Regressed(report, expected) THEN "failed" ELSE "json"
  /\ UNCHANGED <<evaluationVars, mode, open, stored, report, files>>

WriteJson ==
  /\ step = "json"
  /\ files' = [files EXCEPT !.json = "this"]
  /\ step' = "md"
  /\ UNCHANGED <<evaluationVars, mode, open, stored, report, baseline>>

WriteMarkdown ==
  /\ step = "md"
  /\ files' = [files EXCEPT !.md = "this"]
  /\ step' = "done"
  /\ UNCHANGED <<evaluationVars, mode, open, stored, report, baseline>>

\* The baseline cannot be read, the disk is full, or the command is interrupted.
\* write_text truncates the file before it writes: when it fails after that,
\* what the file held is lost.
WriteFails ==
  /\ \/ step = "gate" /\ UNCHANGED files
     \/ /\ step = "json"
        /\ \E content \in {"earlier", "cut"} : files' = [files EXCEPT !.json = content]
     \/ /\ step = "md"
        /\ \E content \in {"earlier", "cut"} : files' = [files EXCEPT !.md = content]
  /\ step' = "failed"
  /\ UNCHANGED <<evaluationVars, mode, open, stored, report, baseline>>

RunNext ==
  \/ Deterministic \/ Live \/ StartContainer \/ Migrate \/ StartEngine \/ StartEmbeddingClient
  \/ StartLlmClient \/ IngestDocument \/ Ingested \/ Evaluate \/ Evaluated \/ Fail \/ Close
  \/ Closed \/ CompareBaseline \/ WriteJson \/ WriteMarkdown \/ WriteFails

RunSpec == RunInit /\ [][RunNext]_allVars

-----------------------------------------------------------------------------
\* The type invariant.
RunTypeOK ==
  /\ mode \in {"none", "deterministic", "live-retrieval", "live-full"}
  /\ step \in LiveSteps \cup {"start", "close", "gate", "json", "md", "done", "failed"}
  /\ stored \in 0..Cardinality(Documents)
  /\ DOMAIN report \in {{}, {"lexical"}, Strategies} /\ baseline \in Baselines
  /\ files \in [{"json", "md"} -> {"earlier", "this", "cut"}]

\* A run that failed before the gate, or that is worse than its baseline in
\* recall or rank of any strategy that both hold, touches neither file of the
\* earlier run.  The markdown is touched only once the JSON of this run is
\* whole, and a run that ends well has replaced both.  That a write which fails
\* keeps the earlier content is not promised: it may leave the file cut short.
ReportsPassedTheGate ==
  /\ files.json # "earlier" => report # NoReport /\ ~Regressed(report, baseline)
  /\ files.md # "earlier" => files.json = "this"
  /\ step = "done" => files.json = "this" /\ files.md = "this"

\* However the command ends, in whatever step it failed or was interrupted, the
\* database container it started is stopped and its clients are closed, and
\* no report is compared or written before that.
NothingLeftRunning ==
  step \in {"gate", "json", "md", "done", "failed"} => open = <<>>
=============================================================================
