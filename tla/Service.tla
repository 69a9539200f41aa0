-------------------------------- MODULE Service --------------------------------
(***************************************************************************)
(* One process that serves uploads, questions and reads at once: the three  *)
(* components share the connection pool and the database, and a crash of    *)
(* the process takes all of them.                                           *)
(*                                                                         *)
(* A chunk stands for the document it belongs to, and a document for the    *)
(* upload that created it, so an upload is also the id in its response, in  *)
(* a list and in the source of an answer.                                   *)
(***************************************************************************)
EXTENDS Integers, FiniteSets, Sequences

CONSTANTS
    Uploads, Contents, ContentOf, NoDocument,                 \* see IngestDocument
    Questions, Score, MinScore, TopK, MaxRetries, OutputRetries,
    Replies,                                                  \* see AskQuestion
    Reads,                                                    \* see ReadDocuments
    PoolSize

ASSUME UploadsAssumption ==
    ContentOf \in [Uploads -> Contents] /\ NoDocument \notin Uploads
ASSUME PoolAssumption == PoolSize \in Nat \ {0}
ASSUME ScoreAssumption == Score \in [Uploads -> Nat]
ASSUME LimitsAssumption ==
    MinScore \in Nat /\ OutputRetries \in Nat /\ {TopK, MaxRetries} \subseteq Nat \ {0}

\* A request is of one kind, and neither route name is the id of a document.
ASSUME RequestsAssumption ==
    /\ Uploads \cap Questions = {} /\ Uploads \cap Reads = {} /\ Questions \cap Reads = {}
    /\ Uploads \cap {"list", "health", "nothing"} = {}

VARIABLES
    held, documents, chunks,                       \* the pool and the database
    upload, answer, document, rows, committing,    \* the uploads
    question, hits, evidence, runs, outputs, calls, reply, sources, status,
    read, asked, found, response,                  \* the reads
    known    \* history: the documents clients had been shown when each read began

shared == <<documents, chunks>>
uploads == <<upload, answer, document, rows, committing>>
questions == <<question, hits, evidence, runs, outputs, calls, reply, sources, status>>
reads == <<read, asked, found, response>>
vars == <<held, shared, uploads, questions, reads, known>>

Ingest == INSTANCE IngestDocument WITH pc <- upload

Chat == INSTANCE AskQuestion WITH
    pc <- question, library <- chunks, Chunks <- Uploads

Browse == INSTANCE ReadDocuments WITH
    pc <- read, answer <- response, Documents <- Uploads

ASSUME RepliesAssumption ==
    Replies \subseteq
        [outcome : {"payload", "unparseable", "unexpected"} \cup Chat!Transient \cup Chat!Permanent,
         answer : {"blank", "text"}, indices : Seq(Nat)]

Init ==
    /\ Ingest!Init /\ Chat!Init /\ Browse!Init
    /\ known = [r \in Reads |-> {}]

\* The documents that some response sent so far names.
Shown ==
    {document[u] : u \in {v \in Uploads : answer[v] \in {"200", "201"}}}
    \cup (UNION {Chat!ToSet(sources[q]) : q \in Questions})
    \cup (UNION {found[r] : r \in {s \in Reads : response[s] = "200"}})

UploadStep(u) ==
    /\ Ingest!Receive(u) \/ Ingest!Handler(u) \/ Ingest!Failure(u)
    /\ UNCHANGED <<questions, reads, known>>

QuestionStep(q) ==
    /\ Chat!Ask(q)
    /\ UNCHANGED <<shared, uploads, reads, known>>

ReadStep(r) ==
    /\ Browse!Read(r)
    /\ known' = IF read[r] = "idle" THEN [known EXCEPT ![r] = Shown] ELSE known
    /\ UNCHANGED <<chunks, uploads, questions>>

DatabaseStep(u) ==
    /\ Ingest!Server(u)
    /\ UNCHANGED <<questions, reads, known>>

InFlight == Ingest!InFlight \cup Chat!InFlight \cup Browse!InFlight

Crash ==
    /\ InFlight # {}
    /\ Ingest!LoseUploads /\ Chat!LoseQuestions /\ Browse!LoseReads
    /\ UNCHANGED known

Next ==
    \/ \E u \in Uploads : UploadStep(u) \/ DatabaseStep(u)
    \/ \E q \in Questions : QuestionStep(q)
    \/ \E r \in Reads : ReadStep(r)
    \/ Crash

Spec == Init /\ [][Next]_vars

\* The event loop runs every handler that can move, the calls they await are
\* bounded by timeouts, and the database resolves every transaction.
Fairness ==
    /\ \A u \in Uploads :
           /\ WF_vars(Ingest!Handler(u) /\ UNCHANGED <<questions, reads, known>>)
           /\ WF_vars(DatabaseStep(u))
    /\ \A q \in Questions :
           /\ WF_vars(Chat!Workflow(q) /\ UNCHANGED <<shared, uploads, reads, known>>)
    /\ \A r \in Reads :
           /\ WF_vars(Browse!Handler(r) /\ UNCHANGED <<chunks, uploads, questions, known>>)

FairSpec == Spec /\ Fairness

-----------------------------------------------------------------------------
\* Whatever a client has been shown, in the response to an upload, in a list,
\* in a document or as the source of an answer, every later list has and no
\* later request for it is answered 404.
NothingIsUnseen ==
    \A r \in Reads :
        /\ response[r] = "200" /\ asked[r] = "list" => known[r] \subseteq found[r]
        /\ response[r] = "404" => asked[r] \notin known[r]

\* ADR-0005 for the whole process: the pool is never overdrawn, and no request
\* keeps a connection while a document is extracted or embedded or a model is
\* called, or after it is over.
ConnectionsOnlyInScopes ==
    /\ Cardinality(held) <= PoolSize
    /\ Ingest!ConnectionsOnlyInScopes
    /\ Chat!NoConnectionAcrossModelCalls
    /\ Browse!ConnectionsOnlyInSessions

\* On a shared pool, with reads, uploads and questions waiting for each other's
\* connections and for each other's transactions, no request hangs: each client
\* sends one, and in the end none is in flight.
EveryRequestEnds == <>[](InFlight = {})
=============================================================================
