---------------------------- MODULE IngestDocument ----------------------------
(***************************************************************************)
(* Concurrent POST /documents requests against one connection pool and one *)
(* PostgreSQL database: knowledge_base/application/ingest.py with the      *)
(* repository, the session scope and the outage translation it runs in.    *)
(*                                                                         *)
(* An upload runs up to three short units of work (ADR-0005): the dedup    *)
(* check, the save, and the re-read that recovers from losing the race on  *)
(* the content_hash index.  A unit of work takes a pooled connection at    *)
(* its first statement and returns it when its session closes.             *)
(*                                                                         *)
(* The database side is what PostgreSQL does for these statements: an      *)
(* INSERT whose unique key is held by another open transaction waits for   *)
(* that transaction; a SELECT sees committed rows; a transaction whose     *)
(* client is gone is eventually rolled back, or committed if its COMMIT    *)
(* had been sent.  A document id is minted per upload, so the upload names *)
(* the document.                                                           *)
(***************************************************************************)
EXTENDS Integers, FiniteSets, DatabaseOutages

CONSTANTS
    Uploads,     \* the upload requests
    Contents,    \* the distinct extracted texts, by their SHA-256
    ContentOf,   \* the content each upload carries
    NoDocument,  \* Python's None where a document is expected
    PoolSize     \* connections the pool can hand out: pool_size + max_overflow

ASSUME ContentAssumption == ContentOf \in [Uploads -> Contents]
ASSUME NoDocumentAssumption == NoDocument \notin Uploads
ASSUME PoolAssumption == PoolSize \in Nat \ {0}

VARIABLES
    pc,          \* the step each upload is at
    answer,      \* the HTTP status of its response; "none" until it is sent
    document,    \* its local document: the existing one, its own, or None
    held,        \* the uploads holding a pooled connection
    rows,        \* the rows its open transaction has written
    committing,  \* the uploads whose COMMIT is on its way to the server
    documents,   \* the uploads whose document row is committed
    chunks       \* the uploads whose chunk rows are committed

database == <<rows, committing, documents, chunks>>
request == <<pc, answer, document, held>>
vars == <<pc, answer, document, held, rows, committing, documents, chunks>>

\* Where an upload is, in program order.  "dedup", "save" and "recover" open a
\* unit of work: the upload waits there until it holds a connection.
Opens == {"dedup", "save", "recover"}
DatabaseSteps ==
    Opens \cup {"dedup_end", "flush_chunks", "commit", "committing", "recover_end"}
SlowSteps == {"extract", "embed"}
Steps == {"idle", "done"} \cup SlowSteps \cup DatabaseSteps

Statuses == {"201", "200", "409", "rejected", "500", "503", "lost"}

SameContent(u, v) == ContentOf[u] = ContentOf[v]

\* The committed documents with the content of u: at most one, if the index works.
Stored(u) == {v \in documents : SameContent(u, v)}

\* What a summary query by content hash can return.
SummaryByContentHash(u) == IF Stored(u) = {} THEN {NoDocument} ELSE Stored(u)

\* The open transactions holding the index entry for the content of u.
Blocking(u) == {v \in Uploads \ {u} : rows[v] # "none" /\ SameContent(u, v)}

WaitsForConnection(u) == pc[u] \in Opens /\ u \notin held

PoolExhausted == Cardinality(held) >= PoolSize

Init ==
    /\ pc = [u \in Uploads |-> "idle"]
    /\ answer = [u \in Uploads |-> "none"]
    /\ document = [u \in Uploads |-> NoDocument]
    /\ held = {}
    /\ rows = [u \in Uploads |-> "none"]
    /\ committing = {}
    /\ documents = {}
    /\ chunks = {}

Goto(u, step) ==
    /\ pc' = [pc EXCEPT ![u] = step]
    /\ UNCHANGED answer

Respond(u, status) ==
    /\ pc' = [pc EXCEPT ![u] = "done"]
    /\ answer' = [answer EXCEPT ![u] = status]

Release(u) == held' = held \ {u}

-----------------------------------------------------------------------------
(* Before the database: the router's size check, the metadata check, the   *)
(* choice of an extractor, the extraction in a worker thread.              *)

Receive(u) ==
    /\ pc[u] = "idle"
    /\ Goto(u, "extract")
    /\ UNCHANGED <<document, held, database>>

\* 413, 415 or 422: too large, bad metadata, unsupported, unreadable or empty.
Reject(u) ==
    /\ pc[u] \in {"idle", "extract"}
    /\ Respond(u, "rejected")
    /\ UNCHANGED <<document, held, database>>

Extract(u) ==
    /\ pc[u] = "extract"
    /\ Goto(u, "dedup")
    /\ UNCHANGED <<document, held, database>>

-----------------------------------------------------------------------------
(* The pool.  A session connects at its first statement, not when it opens. *)

Acquire(u) ==
    /\ WaitsForConnection(u)
    /\ ~PoolExhausted
    /\ held' = held \cup {u}
    /\ UNCHANGED <<pc, answer, document, database>>

PoolTimeout(u) ==
    /\ WaitsForConnection(u)
    /\ PoolExhausted
    /\ Respond(u, StatusOf(PoolTimeoutError))
    /\ UNCHANGED <<document, held, database>>

ConnectFails(u) ==
    /\ WaitsForConnection(u)
    /\ ~PoolExhausted
    /\ \E exc \in ConnectErrors : Respond(u, StatusOf(exc))
    /\ UNCHANGED <<document, held, database>>

\* A plausible slip: the failing scope keeps its connection.
StatementFailsLeaks(u) ==
    /\ u \in held
    /\ \E exc \in DatabaseErrors : Respond(u, StatusOf(exc))
    /\ UNCHANGED <<document, held, database>>

\* The connection breaks under a statement.  What it had open stays on the
\* server, out of reach, until the server resolves it.
StatementFails(u) ==
    /\ u \in held
    /\ \E exc \in DatabaseErrors : Respond(u, StatusOf(exc))
    /\ Release(u)
    /\ UNCHANGED <<document, database>>

-----------------------------------------------------------------------------
(* Scope 1: is this content stored already?                                *)

Dedup(u) ==
    /\ pc[u] = "dedup" /\ u \in held
    /\ \E summary \in SummaryByContentHash(u) : document' = [document EXCEPT ![u] = summary]
    /\ Goto(u, "dedup_end")
    /\ UNCHANGED <<held, database>>

DedupEnd(u) ==
    /\ pc[u] = "dedup_end"
    /\ IF document[u] # NoDocument THEN Respond(u, "200") ELSE Goto(u, "embed")
    /\ Release(u)
    /\ UNCHANGED <<document, database>>

-----------------------------------------------------------------------------
(* Between scopes: chunk, embed (EmbedBatches has the calls), build.        *)

Embed(u) ==
    /\ pc[u] = "embed"
    /\ document' = [document EXCEPT ![u] = u]
    /\ Goto(u, "save")
    /\ UNCHANGED <<held, database>>

\* 503: provider unavailable.  500: a permanent provider error, a batch of the
\* wrong size or dimension, or a chunk the domain refuses.
EmbedFails(u) ==
    /\ pc[u] = "embed"
    /\ \E status \in {"503", "500"} : Respond(u, status)
    /\ UNCHANGED <<document, held, database>>

-----------------------------------------------------------------------------
(* Scope 2: one flush writes the document row, then the chunk rows.         *)

\* A plausible slip: no unique index on content_hash.
SaveDocumentUnchecked(u) ==
    /\ pc[u] = "save" /\ u \in held
    /\ rows' = [rows EXCEPT ![u] = "document"]
    /\ Goto(u, "flush_chunks")
    /\ UNCHANGED <<document, held, committing, documents, chunks>>

\* A plausible slip: the check sees open transactions too, and does not wait
\* for their outcome.
SaveDocumentNoWait(u) ==
    /\ pc[u] = "save" /\ u \in held
    /\ IF Stored(u) = {} /\ Blocking(u) = {}
       THEN /\ rows' = [rows EXCEPT ![u] = "document"]
            /\ Goto(u, "flush_chunks")
            /\ UNCHANGED held
       ELSE /\ Goto(u, "recover")
            /\ Release(u)
            /\ UNCHANGED rows
    /\ UNCHANGED <<document, committing, documents, chunks>>

\* A duplicate key rolls the transaction back and closes the scope.
SaveDocument(u) ==
    /\ pc[u] = "save" /\ u \in held
    /\ Blocking(u) = {}
    /\ IF Stored(u) = {}
       THEN /\ rows' = [rows EXCEPT ![u] = "document"]
            /\ Goto(u, "flush_chunks")
            /\ UNCHANGED held
       ELSE /\ Goto(u, "recover")
            /\ Release(u)
            /\ UNCHANGED rows
    /\ UNCHANGED <<document, committing, documents, chunks>>

\* A plausible slip: the document row is committed before its chunks are
\* written.
SaveChunksLate(u) ==
    /\ pc[u] = "flush_chunks"
    /\ rows' = [rows EXCEPT ![u] = "all"]
    /\ documents' = documents \cup {u}
    /\ Goto(u, "commit")
    /\ UNCHANGED <<document, held, committing, chunks>>

SaveChunks(u) ==
    /\ pc[u] = "flush_chunks"
    /\ rows' = [rows EXCEPT ![u] = "all"]
    /\ Goto(u, "commit")
    /\ UNCHANGED <<document, held, committing, documents, chunks>>

\* A statement of the flush is refused on a healthy connection: rolled back.
FlushFails(u) ==
    /\ pc[u] \in {"save", "flush_chunks"} /\ u \in held
    /\ rows' = [rows EXCEPT ![u] = "none"]
    /\ Respond(u, "500")
    /\ Release(u)
    /\ UNCHANGED <<document, committing, documents, chunks>>

\* A plausible slip: the response does not wait for the COMMIT.
CommitAnswersEarly(u) ==
    /\ pc[u] = "commit"
    /\ committing' = committing \cup {u}
    /\ Respond(u, "201")
    /\ Release(u)
    /\ UNCHANGED <<document, rows, documents, chunks>>

Commit(u) ==
    /\ pc[u] = "commit"
    /\ committing' = committing \cup {u}
    /\ Goto(u, "committing")
    /\ UNCHANGED <<document, held, rows, documents, chunks>>

\* The server has confirmed the COMMIT.
Committed(u) ==
    /\ pc[u] = "committing" /\ u \notin committing
    /\ Respond(u, "201")
    /\ Release(u)
    /\ UNCHANGED <<document, database>>

-----------------------------------------------------------------------------
(* Scope 3: the race is lost, fetch the winner.                            *)

Recover(u) ==
    /\ pc[u] = "recover" /\ u \in held
    /\ \E summary \in SummaryByContentHash(u) : document' = [document EXCEPT ![u] = summary]
    /\ Goto(u, "recover_end")
    /\ UNCHANGED <<held, database>>

\* A plausible slip: the loser reports the winner's document as created.
RecoverEndCreated(u) ==
    /\ pc[u] = "recover_end"
    /\ Respond(u, IF document[u] # NoDocument THEN "201" ELSE "409")
    /\ Release(u)
    /\ UNCHANGED <<document, database>>

\* No winner means the winner's transaction is gone too: 409, retry.
RecoverEnd(u) ==
    /\ pc[u] = "recover_end"
    /\ Respond(u, IF document[u] # NoDocument THEN "200" ELSE "409")
    /\ Release(u)
    /\ UNCHANGED <<document, database>>

-----------------------------------------------------------------------------
(* The server process dies: every request in flight is lost, the pool is   *)
(* gone, and what its connections had open is left to the database.        *)

InFlight == {u \in Uploads : pc[u] \notin {"idle", "done"}}

LoseUploads ==
    /\ pc' = [u \in Uploads |-> IF u \in InFlight THEN "done" ELSE pc[u]]
    /\ answer' = [u \in Uploads |-> IF u \in InFlight THEN "lost" ELSE answer[u]]
    /\ held' = {}
    /\ UNCHANGED <<document, database>>

Crash == InFlight # {} /\ LoseUploads

-----------------------------------------------------------------------------
(* PostgreSQL.                                                             *)

ServerCommit(u) ==
    /\ u \in committing
    /\ documents' = documents \cup {u}
    /\ chunks' = IF rows[u] = "all" THEN chunks \cup {u} ELSE chunks
    /\ rows' = [rows EXCEPT ![u] = "none"]
    /\ committing' = committing \ {u}
    /\ UNCHANGED request

\* A transaction whose client is gone.
ServerAbort(u) ==
    /\ rows[u] # "none" /\ u \notin held
    /\ rows' = [rows EXCEPT ![u] = "none"]
    /\ committing' = committing \ {u}
    /\ UNCHANGED <<request, documents, chunks>>

-----------------------------------------------------------------------------
Handler(u) ==
    \/ Extract(u) \/ Acquire(u) \/ Dedup(u) \/ DedupEnd(u) \/ Embed(u)
    \/ SaveDocument(u) \/ SaveChunks(u) \/ Commit(u) \/ Committed(u)
    \/ Recover(u) \/ RecoverEnd(u)

Failure(u) ==
    \/ Reject(u) \/ PoolTimeout(u) \/ ConnectFails(u) \/ StatementFails(u)
    \/ EmbedFails(u) \/ FlushFails(u)

Server(u) == ServerCommit(u) \/ ServerAbort(u)

Next ==
    \/ \E u \in Uploads : Receive(u) \/ Handler(u) \/ Failure(u) \/ Server(u)
    \/ Crash

Spec == Init /\ [][Next]_vars

\* The event loop runs every ready handler, every call it awaits is bounded by
\* a timeout, and the database resolves every transaction it is left with.
Fairness ==
    \A u \in Uploads : WF_vars(Handler(u)) /\ WF_vars(Server(u))

FairSpec == Spec /\ Fairness

-----------------------------------------------------------------------------
\* Every variable has its type.
TypeOK ==
    /\ pc \in [Uploads -> Steps]
    /\ answer \in [Uploads -> Statuses \cup {"none"}]
    /\ document \in [Uploads -> Uploads \cup {NoDocument}]
    /\ held \subseteq Uploads
    /\ rows \in [Uploads -> {"none", "document", "all"}]
    /\ committing \subseteq Uploads
    /\ documents \subseteq Uploads
    /\ chunks \subseteq Uploads

\* However uploads of the same content interleave, fail or are retried after
\* an ambiguous answer, at most one document of that content is ever stored.
OneDocumentPerContent ==
    \A u, v \in documents : SameContent(u, v) => u = v

\* A stored document has its chunks, and no chunks are stored without their
\* document: no failure between the two INSERTs is visible to a reader.
DocumentsAreWhole == documents = chunks

\* An upload answered 201 is stored as the document it was answered with; one
\* answered 200 was given another upload's stored document of its content.
AnswersAreTrue ==
    \A u \in Uploads :
        /\ answer[u] = "201" => u \in documents /\ document[u] = u
        /\ answer[u] = "200" =>
               /\ document[u] \in documents \ {u}
               /\ SameContent(u, document[u])

\* Losing the race never ends in 409: the index refuses a row only for one
\* that is committed, so the re-read in a fresh scope finds the winner.
RaceIsAlwaysRecovered == \A u \in Uploads : answer[u] # "409"

\* ADR-0005: no upload holds a connection while it extracts or embeds, and
\* none keeps one after it is answered.
ConnectionsOnlyInScopes ==
    \A u \in Uploads : u \in held => pc[u] \in DatabaseSteps

\* While the outcome of a transaction is open and nobody waits for it, its
\* upload has only been told that the server failed: no 201, 200 or 4xx can be
\* contradicted by a COMMIT or a rollback that happens after the answer.
NoDefiniteAnswerWhileOpen ==
    \A u \in Uploads :
        rows[u] # "none" /\ u \notin held => answer[u] \in {"500", "503", "lost"}

\* session.py:40-42: a pool-acquisition timeout is the "database overwhelmed"
\* signal, so an upload that gives up on a full pool is answered 503.
PoolTimeoutIsUnavailable ==
    [][\A u \in Uploads :
           WaitsForConnection(u) /\ PoolExhausted /\ answer'[u] # answer[u]
               => answer'[u] \in {"503", "lost"}]_vars

\* Every upload the server accepts is answered or lost to a crash: none waits
\* for ever on the pool, on the index or on another upload.
EveryUploadEnds ==
    \A u \in Uploads : pc[u] = "extract" ~> pc[u] = "done"

\* What a response carries, for the abstract specification.
Returned ==
    [u \in Uploads |->
        IF answer[u] \in {"200", "201"} THEN document[u] ELSE NoDocument]

Promise == INSTANCE IdempotentIngest WITH returned <- Returned

\* The concurrent, failing system does what IdempotentIngest promises.
KeepsPromise == Promise!ASpec
=============================================================================
