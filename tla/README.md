# Formal models of the knowledge assistant

TLA+ models of this repository's API: document ingestion, retrieval, question
answering, start-up and shutdown, and the evaluation command. TLC checks them on
small instances; TLAPS proves the most important properties for every instance.
Paths below are relative to `src/knowledge_assistant/` unless they start with
`docs/` or a file name of the repository's root.

- [1. The system](#1-the-system)
- [2. The modules and the code](#2-the-modules-and-the-code)
- [3. The runs](#3-the-runs)
- [4. Fairness](#4-fairness)
- [5. What is proved](#5-what-is-proved)
- [6. Where the code and its documentation disagree](#6-where-the-code-and-its-documentation-disagree)
- [7. What is not modelled](#7-what-is-not-modelled)
- [8. The plan](#8-the-plan)
- [9. Running it](#9-running-it)

## 1. The system

One Python process (FastAPI on one event loop), one PostgreSQL database with
pgvector behind one bounded connection pool, and two model services reached over
HTTP: an embedding provider (Ollama or OpenAI) and an LLM. All lasting state is in
the database; the process keeps only the pool, the HTTP clients and the locals of
the requests it is serving. Concurrency comes from the event loop: a request can be
overtaken by any other one at every `await`.

| Component | State | Operations | Talks to | What is hard | What makes it correct |
|---|---|---|---|---|---|
| Ingest use case, `knowledge_base/application/ingest.py` | locals of one upload: extracted text, content hash, chunks, vectors, document | extract, dedup check, chunk, embed, save, recover from the race | sessions, repository, chunking, embedder | two uploads of one content; a failure or crash between any two units of work; a COMMIT whose answer is lost | one document per content; a document is stored whole; a 200 or 201 is true for ever |
| Repository, `…/persistence/repository.py` | the `documents` and `chunks` tables | `save`, dedup query, list, count, get | PostgreSQL | the unique index makes an INSERT wait for another transaction | duplicate-key errors become the domain error the use case recovers from; outages become 503 |
| Sessions and pool, `platform/database/session.py`, `bootstrap.py` | connections lent out | open a scope, commit or roll back, close; `is_db_outage_error` | every use case | exhaustion, leaks, connections held across slow calls (ADR-0005) | no connection is held while a model is called; every scope gives its connection back |
| Chunking, `knowledge_base/domain/chunking.py` | the loop's `current`, `chunks`, paragraphs left | `chunk_text` | — | slices with a zero overlap, exact fits, the last sliver, runs of blanks | no text lost, overlap carried, sizes bounded, the loop ends |
| Embedding batches, `ingest.py` and `…/embeddings/*.py` | batch position, attempts, vectors so far | call, retry, give up, accept, refuse a batch | embedding service | short, long, reordered and mis-sized answers; retries | vector *i* is chunk *i*'s; every call has its reason: what is retried, how often, and when an upload is given up |
| Hybrid retrieval, `…/retrieval/pgvector.py` | none: one SQL statement | dense, lexical, hybrid search | PostgreSQL | ties, limits inside legs, approximate index, what a score means | ranks and order are determined; the relevance bar keeps its documented meaning |
| Reads, `knowledge_base/application/queries.py`, `…/http/router.py`, `main.py` | none; the client keeps its page | list a page, count, get one document, probe readiness | sessions, PostgreSQL | pages and totals are read at different moments; the session outlives the response | a walk misses nothing that was there when it began; what was shown once stays visible |
| Question answering, `assistant/…` | locals of one question: hits, evidence, reply | retrieve, grade, refuse or generate, validate, cite | retrieval scope, LLM | two retry layers, citations by number, the bar applied twice | every source was retrieved and cleared the bar; refusal exactly without evidence; bounded calls |
| Settings, bootstrap and lifespan, `config.py`, `bootstrap.py`, `main.py`, `platform/database/schema_meta.py`, `Dockerfile` | long-lived clients and engine; the configuration | migrate, validate, build, parity check, serve, close | PostgreSQL, Docker | outage during boot; refusal after resources exist; a cancelled shutdown | serves only the schema's language; tries to close everything; comes back |
| Telemetry, `platform/observability/telemetry.py` | providers and instrumentors | configure, instrument, shut down; spans and counters | collector | the flush comes after a close that may fail or be cancelled | a flush is lost only to a part that raises, a cancellation before it began or a kill |
| Migrations, `platform/database/migrations/` | schema revision, generated column, `schema_meta` | four upgrades, four downgrades | PostgreSQL | a copied fact that may go stale; several migrators that race | the schema is that of its revision, `schema_meta` describes the column |
| Evaluation, `evaluation/` | what it started, results per case, two report files | start a database, ingest, retrieve, calibrate, ask, compare, report | search and answer use cases, Docker | thresholds between occurring scores, chunks against documents, a failure in any step | the calibrated bar is the best there is; the report of an earlier run is touched only after the gate; nothing is left running |
| Everything else | — | schemas, correlation ids, extraction, logging | — | — | see section 7 |

`PROJECT.json` lists every component with its sources, and under `hazards`, at its
line, everything found in this code that tests would hardly reach.

## 2. The modules and the code

### IdempotentIngest and IngestDocument

`IdempotentIngest` is what ingestion promises a client: an upload atomically stores a
new document, is given the stored document of the same content, is refused, or fails;
a failed upload may still have stored its document (the client cannot know), but
never a second document of a content. A crash is a failure of everything in flight.

`IngestDocument` is the system that keeps this promise: concurrent uploads, the pool
and PostgreSQL. `pc` follows `IngestDocument.execute` statement by statement:

| Step | Code |
|---|---|
| `idle`, `extract` | router, metadata validation, extractor lookup and worker-thread extraction (`Receive`, `Reject`, `Extract`) |
| `dedup`, `dedup_end` | scope 1: summary by content hash, commit, close |
| `embed` | chunking, `_embed_in_batches`, building the `Document`; no connection (`EmbedBatches` and `ChunkText` have the detail) |
| `save`, `flush_chunks`, `commit`, `committing` | scope 2: the flush's two INSERTs, COMMIT on its way, COMMIT confirmed |
| `recover`, `recover_end` | scope 3: `_save_or_recover_from_race` re-reads the winner |

A session takes its connection at its first statement, so opening a scope and
acquiring (`Acquire`) are different moments. The database side is explicit: `rows` is
what a transaction has written, `committing` says that a COMMIT is on its way,
`documents` and `chunks` are what is committed. An INSERT waits while another open
transaction holds the same key (`Blocking`). When a connection breaks or the process
dies, the transaction stays open until the server commits it (only if COMMIT had been
sent) or aborts it. `DatabaseOutages` holds the doctrine all database calls share:
`IsDbOutageError` and the error table decide 503 or 500 for the families of
exceptions the code tells apart.

A document id is minted per upload, so the upload stands for its document. A retry by
a client is another upload of the same content.

### ChunkText

`chunk_text` one loop iteration per step. A character is its position and whether it
is blank, because length and blankness are all the algorithm looks at: a positive
number is a visible character, a negative one a blank, and 0 a newline inserted by a
join. Splitting a text into stripped paragraphs is the input, and `Stripped` is all
that is assumed of it: paragraphs are not empty, begin and end visibly, and no two
characters have one position. Actions: `Merge`,
`Overflow`, `HardSplit`, `Flush` of the remainder, `MergeSliver`, and wrapping in the
`ChunkText` value object, which refuses a blank chunk with `ValueError`.

### EmbedBatches

`_embed_in_batches` around either provider adapter around the service. A vector names
the text it embeds, so that one stored beside the wrong chunk shows; OpenAI's items
carry an index and come in any order. Retries, the retry predicate and the
cardinality and dimension checks are the code's; the service is external.

### HybridSearch

The three statements of `PgVectorRetriever` as what PostgreSQL may answer: `TopN` is
ORDER BY with LIMIT, `RowNumbers` a ROW_NUMBER window, `Fused` the FULL OUTER JOIN.
Rows an order leaves tied may come in any order, so each is a *set* of results. The
tokenizer, `ts_rank_cd` and the vectors are reduced to a relevance and a distance per
chunk. `query.exact` says whether the planner scans the table or the HNSW index; an
HNSW scan may miss any neighbour. Scores are exact fractions.

### ListDocuments

A client walks `GET /documents` while uploads commit. The page and the total are two
statements of one READ COMMITTED session, so two snapshots. `created_at` is taken
long before the commit, so a document can appear anywhere in the order. Nothing
deletes documents. The client is external: it asks for consecutive pages until the
last total is reached, and repeats a page that failed.

### GroundedAnswerer and AskQuestion

`GroundedAnswerer` is what chat promises: a question takes one look at the library; it
refuses when it saw nothing relevant, and only then; otherwise it answers citing
passages it saw; before the answer it may fail. No pool, no retries, no model.

`AskQuestion` is `POST /chat` for any number of concurrent questions: `EmbedQuestion`,
the retrieval scope (`Acquire`, `Retrieve`, `CloseScope`), the LangGraph nodes and the
conditional edge (`Grade`), and generation: tenacity (`StartRun`, `RetryRun`, `GiveUp`,
`FailFast`) around pydantic-ai's output retries (`Request`, `RetryOutput`,
`OutputExhausted`) around the model. A reply is an outcome, whether the answer is
blank, and the passage numbers it cites. `Rankings` is what `HybridSearch` returns to
it: at most `top_k` chunks of the library, best first. Uploads add to the library at
any moment and the process may die. The refinement maps a question's response to its
abstract outcome and its evidence and sources to the sets of their chunks.

### ReadDocuments and Service

`ReadDocuments` is `GET /documents`, `GET /documents/{id}` and `GET /health` through
the layers of `main.py`: the API key, the session of the request, the use case, and
the error handlers and the middleware, which turns whatever is left into a 500. A
dependency with `yield` is unwound before an error is answered and after a success is,
so after a 200 the connection stays lent until `Exit`. The probe opens a session of
its own, closes it first and answers 503 whatever went wrong. A page holds every
document here: `ListDocuments` is about pages.

`Service` composes `IngestDocument`, `AskQuestion` and `ReadDocuments` by INSTANCE: they
share `held`, the pool, and the committed tables; a crash takes the requests of all
three. `known` is a history variable: what some response had named when a read began.

### Startup

The life of the process. `Environments`, `ValidSettings`, `Dimension` and
`PassesGuards` translate the settings, their validators, the provider defaults and the
guards of `build_container`; a boot is then described by its language, whether
telemetry is on and the first fault it will meet (`FaultOf`), which decides what has
been created when it fails (`BuiltBefore`). `CreateApp` configures telemetry, `Build`
makes the container, `CheckParity` is ADR-0004, `Close`/`Closed` are `_close_resources`
under the shield of `aclose`, `Flush` is `TelemetryRuntime.shutdown` in its thread. A
resource that was built and not used holds no connection (`idle`).

The four migrations, up and down, are what they do to the revision, to the language of
`chunks.tsv` and to `schema_meta`. Alembic reads the revision (`ReadRevision`) before
it applies the pending ones in one transaction (`ApplyMigrations`) and fails when
another migration has moved the revision in between; `OtherMigrates` is another
replica or an operator who migrates, up or down and with any language, at any time.
The database goes away and comes back, the process is killed, and
`docker-compose.yml` restarts it.

### Evaluation and EvaluationRun

`Evaluation` is what the command computes: hybrid retrieval of every case,
`_unique_document_ids`, the two retrieval metrics in whole percents, the calibration
loop from the largest threshold down, and the workflow under a fixed bar. Scores are
even numbers so that "the next larger float" (`score + 1e-12`) is the next number. It
relies on `SameQuestionSameAnswer` of `HybridSearch` when it reuses the hits of the
first pass for the second.

`EvaluationRun` is the command around it, in its three modes: the container, the
migrations, the engine and the clients as the context managers they are, ingestion,
evaluation, closing in reverse order, the baseline gate and the two report files.
Every step may fail or be interrupted. A report holds recall and reciprocal rank of each
strategy that ran: lexical in the deterministic mode, hybrid, dense and lexical in the
live ones. The hybrid metrics are those of the rankings `Evaluation` found; nothing
else is done with the two other passes, so their metrics are any that some rankings of
the same cases give (`MetricsOver`). The gate (`CompareBaseline`) fails on one regression
in any strategy that the report and the baseline share. `write_text` truncates before it
writes: a write that fails may leave its file cut short (`WriteFails`).

Operators whose comment starts with "A plausible slip" are variants of the definition
beside them, as a mistake in that code would make it. `PROJECT.json` pairs every
checked property with a slip that breaks it, which shows that the property is not
true of everything. The types of a module's variables are its `TypeOK`
(`EvaluationTypeOK` and `RunTypeOK` for the evaluation, `ReadTypes` in `Service_proofs` for
the reads); they are proved, as a theorem of their own or within an inductive invariant
(section 5).

## 3. The runs

Every cfg checks its module for all behaviours within its bounds. Deadlock checking
is off wherever the system may stop: all requests answered, the text chunked, the
walk over. It is on in `Startup`, where the process restarts for ever.

| Run | Instance | What it shows |
|---|---|---|
| `IngestDocument` | 3 uploads, 2 of one content, pool of 2 | `OneDocumentPerContent`, `DocumentsAreWhole`, `AnswersAreTrue`, `RaceIsAlwaysRecovered` (409 is unreachable), `NoDefiniteAnswerWhileOpen`, the refinement `KeepsPromise`, and `EveryUploadEnds`, with every failure and crashes |
| `IngestDocument_pool_timeout` | the same with a pool of 1 | violation: a full pool is answered 500 (section 6) |
| `ChunkText` | up to 3 paragraphs of 1, 2, 4, 9 or 13 characters, solid or hollow; 13 pairs of parameters, 3 of them inconsistent | `NothingIsLost`, `ChunksOverlap`, `EveryChunkAddsText`, `ChunksAreBounded`, `FailsOnlyOnLongBlanks`, `EveryStepCounts`, `Terminates` |
| `ChunkText_errors` | up to 2 paragraphs of 1, 4 or 9 | violation: `ValueError` on a long run of blanks (section 6) |
| `EmbedBatches` | 0, 1, 3 or 5 texts in batches of 3, 3 attempts, both providers | `EmbeddingsMatchTexts`, `CallsAreAccountedFor` |
| `HybridSearch` | 3 chunks, 2 distances, 3 relevances, fetch limits 1 to 3, `rrf_k` 1 and 60, `top_k` 1, 2 and 5, exact and HNSW scans, the question asked twice | `PrelimitKeepsRanks`, `SameQuestionSameAnswer`, `ConsensusFirst`, `BarNeedsConsensus` |
| `ListDocuments` | 4 documents, 2 instants, page sizes 1 and 2, 1 failed request | `NoDocumentIsSkipped`, `RepeatsAreCommits`, `TotalCoversPage` |
| `AskQuestion` | 1 question, 3 chunks of which 2 clear the bar and that are stored at any time, `top_k` 2, 3 runs of 3 requests, crashes | `AnswersAreGrounded`, `RefusesOnlyWithoutEvidence`, `CallsAreBounded`, the refinement `AnswersAsPromised`, `EveryQuestionEnds` |
| `Service` | 2 uploads of one content, 1 question, 1 read of any kind, one connection for all, crashes | `NothingIsUnseen`, `ConnectionsOnlyInScopes`, `EveryRequestEnds` |
| `Startup` | 2 languages, every configuration, races of migrators, a shutdown cancelled up to twice | `SchemaMatchesRevision`, `NothingLeftOpen`, `FlushedUnlessCutShort`, `ServesOnlyItsLanguage`, `ServesInTheEnd` |
| `Startup_outage` | 2 languages, no cancellation | violation: an outage stops the boot (section 6) |
| `Evaluation` | the three modes, 2 cases, 2 documents, 2 scores, up to 3 hits, a bar at the higher score, baselines of any strategies with two values per metric | `CalibrationIsBest`, `RankCountsDocuments`, `ReportsPassedTheGate`, `NothingLeftRunning` |

Why the bounds are enough:

- *Ingestion.* Uploads interact through the index, pairwise, and through the pool.
  Two of one content give every race between two units of work, including a loser
  that waits for a winner which then crashes or fails; the third, of another content,
  is the bystander that must not be blocked for ever, and three on a pool of two fill
  it. The safety properties are proved for any number of each.
- *Chunking.* With `max_chars` of 3, 5 and 8, the lengths are below, at and above the
  limit, at the sliver floor, and long enough for several cuts of one paragraph;
  hollow paragraphs hold runs of blanks longer than a chunk. Three paragraphs are a
  chunk in the middle with a neighbour on both sides. `max_chars` of 1 and 2 are chunks
  no longer than the separator that a join inserts.
- *Embedding.* No batch, a partial one, a full one, and a full one before a partial
  one.
- *Search.* Three chunks are enough for a tie, a chunk in both legs, one in each
  leg only, and a limit that cuts. `rrf_k` of 1 puts `fetch_limit = 3` beyond
  `rrf_k + 1`, where `ConsensusFirst` no longer claims anything; 60 is the default.
- *Listing.* Four documents over pages of one or two with two instants: ties, several
  pages, and commits before, inside and after the part that was walked.
- *Questions.* Three runs of three requests are more than one retry in both layers;
  what the layers do does not depend on the other questions, so contention for the
  pool is left to `Service`.
- *Service.* One connection makes every pair of requests compete for it, and the two
  uploads also wait for each other's index entry; one read of any kind at any moment
  sees what the uploads and the question have shown. One run of one request per
  question, because the retry layers hold no connection (`ShortRetrieval`). `held`
  and the tables are all the components share, so a third request of a kind adds no
  new kind of wait.
- *Evaluation.* Two cases and two documents give answerable and unanswerable cases side
  by side and a document hit more than once; a baseline of 55 percent is met exactly at
  the tolerance by a metric of 50, one of 100 only by 100.
- *Start-up.* The configured, the column's and the recorded language can be three
  facts with two values; a migrator that has read a revision may find any other when it
  applies; two cancellations are the one the shield absorbs and one it
  does not. `MaxCancels` and the listing's `MaxFailures` are the only bounds that
  guards impose; all other counters are bounded by the code.

## 4. Fairness

- *Handlers* (`IngestDocument`, `AskQuestion`, `ReadDocuments`, and all three in
  `Service`): weak fairness of each request's own
  steps. The event loop runs every ready task, every provider call has an httpx timeout
  (`embedding_timeout_seconds`, `llm_timeout_seconds`) and a finite number of
  attempts. Failures, crashes, pool timeouts and arrivals are not fair, so the
  liveness properties do not lean on something going wrong or on new work.
- *PostgreSQL* (`IngestDocument`): weak fairness of resolving each transaction. A
  server commits a COMMIT it has received and rolls back when its client is gone.
- *Chunking*: weak fairness of the loop.
- *The process* (`Startup`): weak fairness of `Process`: Docker restarts the
  container (`restart: unless-stopped`) and each step returns. Shutdown,
  cancellation, outage, kills and other migrators are not fair; `ServesInTheEnd` assumes
  in its premise that from some point on the database is up, the configuration is
  right and fits the schema, and nobody kills the process.

Weak fairness of `Acquire` as part of a handler is enough although connections are
contended: in these instances a finite number of requests compete, each takes a
connection a finite number of times, so a waiting request cannot be overtaken for ever.

## 5. What is proved

All theorems hold for every value of the constants, from the named assumptions the
modules state about them (`ContentAssumption`, `PoolAssumption`, `TextsAssumption`,
`SearchAssumption`, …). None is about the size of an instance.

**IngestDocument_proofs.** The properties are not inductive: that a content has one
document says nothing of the transactions still open. `IInv` adds

1. `IndexIsExclusive`: rows committed *or* in an open transaction belong to one
   upload per content: this is what the wait in `Blocking` preserves;
2. `CommitsAreWhole`: a COMMIT is only on its way for a transaction that has written
   both the document and its chunks;
3. `StepsMatch`, `RowsMatch`: which steps hold a connection and which rows they have
   written, and that a transaction without a connection belongs to an upload that was
   told of a failure;
4. `LocalDocuments`: the document an upload is about to answer with, or has answered
   with, is stored; a loser of the race has a committed winner to find.

The proof that a step preserves `IInv` goes action by action. Theorems:
`TypeCorrect`, `Invariance`, `Idempotent`, `WholeDocuments`, `TrueAnswers`,
`NoConflict`, `ShortTransactions`, `DefiniteAnswers`. `OneCreation` follows from two of
them: when all uploads of a content succeed, one was told 201 and all of them were given
its document. `Refinement` shows that every step is a step of `IdempotentIngest` or
changes nothing that a client or a reader can see, with the responses as the only
mapped variable.

**Sequential_proofs** has the two computations nothing else interferes with, `ChunkText`
and the evaluation.

*Chunking.* The parameters are consistent inside the loop, and every chunk is within
`max_chars` until the sliver is merged (`IInv`). On top of it:

- `Ceiling`: no chunk is longer than `max_chars`, except that the last may be longer by a
  separator and less than the floor.
- `Progress`: every step moves the call on, reads a paragraph, or leaves strictly less to
  cut, the last because the overlap is shorter than the cut; this is why
  `overlap_chars < max_chars` is validated. It is the ranking from which `Terminates`
  follows.
- `TextIsKept`: the paragraphs still to be read are the end of the text, and every
  character of those already read is in `current` or in a chunk (`Kept`); joining,
  cutting, carrying the overlap and merging lose none (`JoinCharacters`,
  `CutCharacters`, `MergeCharacters`).
- `OverlapsEverywhere`: the chunks are linked, and so is the chunk being built
  (`Stitched`), through the hard split, whose head is longer than the overlap it starts
  with, and through the merge, which only lengthens a chunk at its end.
- `OnlyLongBlanksFail`: what is built ends visibly, and a run of blanks in it that is as
  long as a chunk is a run in a paragraph of the text (`BlanksMatch`): a run cannot go
  through a join, because paragraphs begin and end visibly, unless the chunk is as
  short as the separator itself.
- `EveryChunkIsNew`: the chunk being built is a repetition of at most the overlap and a
  separator, and text nobody has seen after it (`NewAfter` in `AddsMatch`). A cut of
  `max_chars` therefore takes some of the new text, and since characters do not repeat
  inside what is built (`Distinct`), what remains is new again.

*Evaluation.* `EvaluationInv` relates the lists of hits, the rankings made of them and
the search for a threshold.

- `RanksOfDocuments`: a ranking names the first hit of each document, in order
  (`RankNames`), so that the rank of a document is the number of documents that come up to
  it in the hits (`RankCounts`).
- `TheBestThreshold`: among the thresholds already tried, the best is kept
  (`BestOfTried`); and no threshold does better than all that are tried, because any
  number can be replaced by the smallest occurring score not below it without changing the
  recall or the false positives (`ThresholdsSuffice`). That it gives up
  only when nothing was retrieved is `SomeThreshold`: the number above the best unanswerable hit
  is always one without false positives.
- For the command: nothing is open outside the live steps and the closing (`Opened`); the
  files on disk are untouched until the gate is passed, then the JSON and the Markdown are
  written in this order, and a report past the gate is no worse than the baseline in
  any strategy they share (`Files`): `OnlyPassedReports`, `EverythingIsClosed`. What a
  failed write leaves in the file it was writing is not part of this: it may be lost.

Both need least and greatest elements of sets of numbers: `LeastNatural` takes them from
the well-foundedness of `<`, where induction is not available.

**HybridSearch_proofs.** `ConsensusIsFirst` and `TheBarNeedsConsensus` are arithmetic on
reciprocal ranks: two terms with ranks up to `fetch_limit` beat one with rank 1 when
`fetch_limit <= rrf_k + 1`, and a single term is at most `1 / (rrf_k + 1)`. The
invariant says that both legs give ranks in `1..fetch_limit` and that the last answer
is sorted by the scores of the legs it came from. `TypeCorrect` bounds the ranks and the
answers. Thanks to the tiebreakers on the id the windows and the final order are total
orders, so there is one top-N, one numbering and one listing of it: `SearchIsRepeatable`
follows from the legs being the same, and `PrelimitIsHarmless` because whatever precedes
one of the first `fetch_limit` matches is itself among them. `TheBestAreAnswered` is what
`Rankings` of `AskQuestion` and `HitLists` of `Evaluation` take a search to be: the best of
what the legs found, best first, each once, and complete unless it is full.

**AskQuestion_proofs.** The invariant says where a question can be with what it keeps:

1. `StepsMatch`: only a question at its retrieval holds a connection, no call is counted
   outside generation, and `evidence` is empty before `Grade` and nonempty while the
   model runs;
2. `EvidenceIsCleared`: the hits are in the library, the evidence is among the hits that
   clear the bar and without repetition, the sources are among the evidence; a question
   is answered exactly when it has sources, and refused only when nothing cleared;
3. `CallsMatch`: with `Budget(n) = n * (1 + OutputRetries)`, the calls are at most
   `Budget(runs - 1) + outputs` inside a run, with `runs <= MaxRetries` and
   `outputs <= 1 + OutputRetries`: the two retry layers' budgets, from which the product
   follows;
4. the library is finite, without which the positions of the citations could not be put
   in order.

Theorems: `TypeCorrect`, `GroundedAnswers`, `HonestRefusals`, `BoundedCalls`,
`ShortRetrieval`, and `Refinement`, which maps each step to one of `GroundedAnswerer`:
`Grade` to `See` or `Refused`, `Answer` to `Answered`, every failing response to
`Failed`, a crash to `Lost`, an upload to `Stored`, and everything else to a stutter.
`ListOfSet` and `OrderedList` say that putting a finite set in order yields each of its
elements once; `RankedChunks` and `ResolvedCitations` apply it to the hits and to the
cited evidence.

**EmbedBatches_proofs.** The invariant: the vectors kept are those of the texts before
`start`, in their order (`EmbeddedSoFar`); and for some `k`, `start` is `k` batches and the
calls are at most `MaxRetries * k`, plus the attempts at the batch at hand (`CallsMatch`).
`log` is a history: the code keeps no such list and no guard reads it. It ends with the
calls for the batch at hand, all transient failures but perhaps the last, after an
accepted answer to the batch before (`LogEnds`); so each call follows from the one before
it (`LogFollows`), and what the log ends with when an upload fails decides between 503 and
500: `CallsAreExplained`. The step that matters is `AcceptedVectors`: an answer that passes the two checks of the use
case has one vector per text. It is a counting argument: as many items as texts, with
distinct indices, are the items of all texts (`FullAnswer`); sorted by index they are in
the order of the texts (`SortedItems`), and so are increasing ones (`Increasing`). Theorems:
`TypeCorrect`, `VectorsStayWithTheirTexts`, `CallsAreExplained`.

**ListDocuments_proofs.** `Position(d)` is the number of documents listed before `d`; a
commit only makes it grow (`PositionGrows`). The invariant: a document of the start that
was not returned has a position at or beyond the offset (`StillToCome`), beyond the page
when the open request has left it out, and is counted by the total read after the page
(`LeftOut`). That `count` runs after `list_summaries` is what makes the last step true. For
the repeats, the documents at the first `offset` positions are as many as the rows skipped
(`FirstPositions`), and all of them that are of the start were returned. Theorems:
`TypeCorrect`, `WalkIsComplete`, `RepeatsAreBounded`, `TotalAgreesWithPage`.

**Startup_proofs.** `Running` says in which stages a resource can be open and a part of
telemetry on, and that the closing loop has closed whatever is before its index. From it
`FlushIsLostOnlyWhenCutShort` follows by the two ways a process can end: before it has
configured telemetry, with nothing on, or from `flushing`. The lemmas behind `SchemaIsThatOfItsRevision` (`UpgradeMatches`, `DowngradeMatches`,
`UpgradeToMatches`) go revision by revision: an upgrade or a downgrade of a schema that
is that of its revision gives one that is. Theorems: `SchemaIsThatOfItsRevision`,
`EverythingIsClosed`, `FlushIsLostOnlyWhenCutShort`, `OneLanguage`.

**Service_proofs.** A component by itself sees of the pool only the connections of its own
requests. `UploadSimulation` and `QuestionSimulation` show that in the process, with `held`
cut down to its own requests, each still takes only its own steps: taking a connection
from the shared pool is taking one from its share (`PoolIsKept`), and what it is refused
because *others* hold the pool it takes for a connection that could not be made, which
`session_scope` answers with the same status (`PoolTimeoutIsLikeAFailure`). So
`UploadsAsSpecified` and `QuestionsAsSpecified`: the composition implements
`IngestDocument` and `AskQuestion`, whence all that is proved of them holds of it, and with
them `IdempotentIngest` and `GroundedAnswerer`. For the reads, `ReadsMatch` says that what
was known when a read began is in the documents and in what it has found; a document that
some response has named is stored (by the uploads' `AnswersAreTrue` and the questions'
evidence), documents only grow, and therefore `ShownStaysVisible`. `ShortScopes`: the pool
is never overdrawn by any mix of requests, and nobody holds a connection outside a scope.
Assumed are the components' assumptions and `RequestsAssumption`: a request is of one kind.

**Only model-checked.** Liveness (`EveryUploadEnds`, `EveryQuestionEnds`,
`EveryRequestEnds`, `Terminates`, `ServesInTheEnd`) and everything about ENABLED is
outside what TLAPS proves here. Every other property of a passing run is proved.

## 6. Where the code and its documentation disagree

Three runs are expected to end in a violation, each of one sentence the repository
says of itself:

1. `IngestDocument_pool_timeout`. `platform/database/session.py:40-42` counts a
   pool-acquisition timeout as the outage `is_db_outage_error` exists for.
   SQLAlchemy raises `sqlalchemy.exc.TimeoutError`, which is none of the three types the
   predicate tests, so the client gets 500, not 503.
2. `ChunkText_errors`. `domain/chunking.py:43-44` gives inconsistent parameters as the
   only reason for `ValueError`. A run of blanks as long as a chunk inside a paragraph is
   cut into a blank chunk, which the value object refuses, and the upload fails.
   Chunks of two characters with an overlap of one, which `config.py:66-67` allows, can also
   be cut exactly at the separator of two newlines. `FailsOnlyOnLongBlanks` shows that
   there is no other cause.
3. `Startup_outage`. `platform/database/schema_meta.py:15-17` promises that an
   unreachable database only logs a warning at boot. A refused connection escapes as
   a bare `OSError` (`session.py:35-38` says so); only `OperationalError` is caught.

Smaller divergences, which the modelled behaviour makes visible without a run:

- `domain/chunking.py:16-17` says the sliver merge exceeds `max_chars` "by up to the
  floor"; the separator can make it the floor plus one, the bound `ChunksAreBounded`
  proves.
- `assistant/…/llm/pydantic_ai.py:26-29` and `:242-244` say that exhausted output retries
  propagate and stay 500; they become `InvalidModelOutputError`, a 502
  (`OutputExhausted`).
- `bootstrap.py:102-105` says that a cancelled shutdown keeps cleaning up to completion;
  after the first cancellation the close task is awaited without a shield, and a second
  one interrupts the close that is running (`CancelClose`). The remaining resources are
  still closed (`NothingLeftOpen`).
- 409 for a concurrent upload stays in the error table although it cannot happen while
  nothing deletes documents (`NoConflict`).
- `docs/07-observability.md:62-63` says that exporters flush during graceful shutdown.
  The code does not keep that in two cases: the first part of
  `TelemetryRuntime.shutdown` that raises, an uninstrumentation for instance, skips the
  later ones, the meter's and the tracer's flush being the last (`Flush`); and a
  cancellation that arrives before the flushing thread begins skips all of them, with
  no attempt made (`CancelFlush`). `FlushedUnlessCutShort` states what remains: outside
  these two and a SIGKILL every part that is on is taken down, also after a refused
  boot, a failed close or a cancelled one. No run refutes the sentence of the
  documentation; these lines are where it is recorded.
- `docs/04-testing-strategy.md:63-64` tells the reader to inspect the failing `case_id`
  when a metric regresses; the gate raises before the report with the cases is written,
  so the files on disk are still those of the earlier run (`ReportsPassedTheGate`).
- `bootstrap.py:241-242` explains the LLM timeout with the database session a slow call
  would hold; since ADR-0005 a question holds none then (`ShortRetrieval`).
- `bootstrap.py:275-276` validates before creating resources; a malformed database or
  embedding URL is met later, and the clients already created are dropped unclosed
  (`BuiltBefore`). They are idle and hold no connection.

## 7. What is not modelled

- *Spans, counters and log records*: they observe and decide nothing. The life cycle of
  the providers is in `Startup`.
- *Settings* by themselves: ranges and patterns of single variables are the assumptions
  of the modules that use them; the validators that relate variables are in `Startup`.
- *The comparison of API keys* and *correlation ids*: each request by itself, no shared
  state beyond a context variable. That a request is rejected, and what becomes of an
  exception nobody handles, is modelled.
- `/livez` touches nothing.
- *HTTP schemas and parsing*: an upload, a question or a read is accepted or rejected;
  the statuses of the error table are modelled where a use case gives them.
- *Extraction libraries*, the *tokenizer*, full-text ranking, vector arithmetic: reduced
  to an outcome or a number.
- `get_by_id` of the repository: nothing calls it.
- *Evaluation*: the metrics of abstention, citation validity, fact coverage and latency,
  and the wording of the reports; nothing is decided from them. Starting the container is
  one step: a container that was created but never became ready is left to the library
  that starts it, and `NothingLeftRunning` says nothing about it.
- *An embedding service that swaps a vector*: one left out and one made up in the same
  answer keep the count right, and without an index in the vector itself nothing in the
  code could notice. `Answers` leaves it out.
- *A migration after the parity check*: the language is checked once per boot, so
  `ServesOnlyItsLanguage` speaks of the schema at the check. One that is migrated to
  another language under a serving process is noticed at its next boot.
- *DDL locks* between two replicas that migrate at once: the second transaction fails
  or waits and then finds the revision moved; both are `ApplyMigrations` failing.
- *A second process* serving the same database: uploads of one content race in the
  index, which does not care where they come from; the pool is per process.

## 8. The plan

The order puts what loses or corrupts data first.

1. `IdempotentIngest`, `IngestDocument`, their refinement and proofs — done.
2. `ChunkText` and `EmbedBatches` with their proofs: the two steps `IngestDocument`
   abstracts to one — done.
3. `HybridSearch` with its proofs — done.
4. `GroundedAnswerer`, `AskQuestion`, their refinement and proofs — done.
5. `Startup` and `ListDocuments` with their proofs — done.
6. `ReadDocuments` and `Service`, the composition on one pool, with its proofs — done.
7. `Evaluation` and `EvaluationRun` with their proofs — done.

Still worth writing: *an embedder* that maps texts to vectors or fails, for
`EmbedBatches` to implement.

## 9. Running it

With TLC and the community modules on the path:

    tlc -config IngestDocument.cfg MCIngestDocument
    tlapm IngestDocument_proofs.tla

An `MC` module gives values to constants that a cfg cannot express; a run without one
uses its module directly. `PROJECT.json` lists runs, mutants, theorems, hazards and,
under `map`, the source lines of every definition.
