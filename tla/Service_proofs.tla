----------------------------- MODULE Service_proofs -----------------------------
(***************************************************************************)
(* The process as a whole, for any uploads, questions, reads and pool: the  *)
(* uploads and the questions do in it what they do alone, so that whatever  *)
(* is proved of IngestDocument and of AskQuestion holds of the composition, *)
(* and the reads never miss what a client has been shown.                   *)
(*                                                                         *)
(* Alone, a component sees of the pool the connections of its own requests. *)
(* That is fewer than are taken: what it is refused because others exhaust   *)
(* the pool, it takes for a failure to connect.                             *)
(***************************************************************************)
EXTENDS Service, FiniteSetTheorems, TLAPS

Uploading == INSTANCE IngestDocument_proofs WITH
    pc <- upload, held <- held \cap Uploads

Asking == INSTANCE AskQuestion_proofs WITH
    pc <- question, held <- held \cap Questions, library <- chunks, Chunks <- Uploads

-----------------------------------------------------------------------------
(* The pool.                                                               *)

\* The components count with the same Cardinality.
LEMMA OneCardinality ==
    ASSUME NEW S
    PROVE  /\ Ingest!Cardinality(S) = Cardinality(S)
           /\ Chat!Cardinality(S) = Cardinality(S)
           /\ Browse!Cardinality(S) = Cardinality(S)
           /\ Uploading!Cardinality(S) = Cardinality(S)
           /\ Asking!Cardinality(S) = Cardinality(S)
           /\ Asking!IsFiniteSet(S) = IsFiniteSet(S)
  BY DEF Cardinality, Ingest!Cardinality, Chat!Cardinality, Browse!Cardinality,
         Uploading!Cardinality, Asking!Cardinality, IsFiniteSet, Asking!IsFiniteSet

Requests == Uploads \cup Questions \cup Reads

\* The connections are those of requests, and no more than the pool has.
PoolIsKept ==
    /\ held \subseteq Requests
    /\ IsFiniteSet(held)
    /\ Cardinality(held) <= PoolSize

\* A step of x takes a connection, if there is one, returns its own, or leaves
\* the pool alone.
Takes(x) ==
    \/ held' = held
    \/ held' = held \ {x}
    \/ ~(Cardinality(held) >= PoolSize) /\ held' = held \cup {x}

\* An upload and its transaction take one connection at a time.
LEMMA UploadTakes ==
    ASSUME NEW u \in Uploads, UploadStep(u) \/ DatabaseStep(u)
    PROVE  Takes(u)
  BY OneCardinality
     DEF UploadStep, DatabaseStep, Takes, Ingest!Receive, Ingest!Handler, Ingest!Failure,
         Ingest!Server, Ingest!Extract, Ingest!Acquire, Ingest!Dedup, Ingest!DedupEnd,
         Ingest!Embed, Ingest!SaveDocument, Ingest!SaveChunks, Ingest!Commit,
         Ingest!Committed, Ingest!Recover, Ingest!RecoverEnd, Ingest!Reject,
         Ingest!PoolTimeout, Ingest!ConnectFails, Ingest!StatementFails,
         Ingest!EmbedFails, Ingest!FlushFails, Ingest!ServerCommit, Ingest!ServerAbort,
         Ingest!Release, Ingest!PoolExhausted, Ingest!request

\* So does a question.
LEMMA QuestionTakes ==
    ASSUME NEW q \in Questions, QuestionStep(q)
    PROVE  Takes(q)
  BY OneCardinality
     DEF QuestionStep, Takes, Chat!Ask, Chat!Receive, Chat!Workflow, Chat!Failure,
         Chat!EmbedQuestion, Chat!Acquire, Chat!Retrieve, Chat!CloseScope, Chat!Grade,
         Chat!StartRun, Chat!Request, Chat!RetryOutput, Chat!OutputExhausted,
         Chat!RetryRun, Chat!GiveUp, Chat!FailFast, Chat!Answer, Chat!Reject,
         Chat!EmbedQuestionFails, Chat!AcquireFails, Chat!RetrieveFails,
         Chat!PoolExhausted, Chat!retrieval

\* So does a read, which changes no document.
LEMMA ReadTakes ==
    ASSUME NEW r \in Reads, ReadStep(r)
    PROVE  Takes(r) /\ UNCHANGED documents
  BY OneCardinality
     DEF ReadStep, Takes, Browse!Read, Browse!Receive, Browse!Handler, Browse!Failure,
         Browse!Acquire, Browse!List, Browse!Count, Browse!Get, Browse!NotFound,
         Browse!Respond, Browse!Exit, Browse!Probe, Browse!Reject, Browse!AcquireFails,
         Browse!StatementFails, Browse!Release, Browse!PoolExhausted

\* So any step takes one, returns one or leaves them alone, and a crash
\* empties the pool.
LEMMA AnyoneTakes ==
    ASSUME [Next]_vars
    PROVE  held' \in {held, {}} \/ \E x \in Requests : Takes(x)
  BY UploadTakes, QuestionTakes, ReadTakes
     DEF Next, Crash, Ingest!LoseUploads, vars, Requests

\* The pool is empty at first.
LEMMA PoolInit == Init => PoolIsKept
  <1>1. IsFiniteSet({}) /\ Cardinality({}) = 0
    BY FS_EmptySet
  <1>. QED
    BY <1>1, PoolAssumption DEF Init, Ingest!Init, PoolIsKept

\* No step overdraws it.
LEMMA PoolNext == PoolIsKept /\ [Next]_vars => PoolIsKept'
  <1> SUFFICES ASSUME PoolIsKept, [Next]_vars PROVE PoolIsKept'
    OBVIOUS
  <1> USE DEF PoolIsKept
  <1>0. Cardinality(held) \in Nat /\ PoolSize \in Nat
    BY FS_CardinalityType, PoolAssumption
  <1>1. CASE held' = held
    BY <1>1
  <1>2. CASE held' = {}
    <2>1. IsFiniteSet({}) /\ Cardinality({}) = 0
      BY FS_EmptySet
    <2>. QED
      BY <1>0, <1>2, <2>1
  <1>3. ASSUME NEW x \in Requests, held' = held \ {x} PROVE PoolIsKept'
    <2>1. IsFiniteSet(held') /\ Cardinality(held') <= Cardinality(held)
      BY <1>3, FS_Subset
    <2>2. Cardinality(held') \in Nat
      BY <2>1, FS_CardinalityType
    <2>. QED
      BY <1>0, <1>3, <2>1, <2>2
  <1>4. ASSUME NEW x \in Requests, held' = held \cup {x}, ~(Cardinality(held) >= PoolSize)
        PROVE  PoolIsKept'
    <2>1. /\ IsFiniteSet(held')
          /\ Cardinality(held') = Cardinality(held) \/ Cardinality(held') = Cardinality(held) + 1
      BY <1>4, FS_AddElement
    <2>. QED
      BY <1>0, <1>4, <2>1
  <1>. QED
    BY <1>1, <1>2, <1>3, <1>4, AnyoneTakes DEF Takes
-----------------------------------------------------------------------------
(* The uploads.                                                            *)

\* What fails because others have the pool fails as a connection that cannot
\* be made does: the two have a response in common.
LEMMA PoolTimeoutIsLikeAFailure ==
    /\ Ingest!StatusOf(Ingest!PoolTimeoutError) = Uploading!StatusOf("DBAPIError")
    /\ "DBAPIError" \in Uploading!ConnectErrors
    /\ Uploading!PoolTimeoutError = Ingest!PoolTimeoutError
    /\ Uploading!ConnectErrors = Ingest!ConnectErrors
    /\ Uploading!DatabaseErrors = Ingest!DatabaseErrors
    /\ \A exc : Uploading!StatusOf(exc) = Ingest!StatusOf(exc)
  BY DEF Ingest!StatusOf, Uploading!StatusOf, Ingest!IsDbOutageError,
         Uploading!IsDbOutageError, Ingest!PoolTimeoutError, Uploading!PoolTimeoutError,
         Ingest!ConnectErrors, Uploading!ConnectErrors, Ingest!DatabaseErrors,
         Uploading!DatabaseErrors

\* A step of an upload that does not meet the size of the pool.
LEMMA UploadMoves ==
    ASSUME NEW u \in Uploads
    PROVE  /\ Ingest!Receive(u) => Uploading!Receive(u)
           /\ Ingest!Extract(u) => Uploading!Extract(u)
           /\ Ingest!Dedup(u) => Uploading!Dedup(u)
           /\ Ingest!DedupEnd(u) => Uploading!DedupEnd(u)
           /\ Ingest!Embed(u) => Uploading!Embed(u)
           /\ Ingest!SaveDocument(u) => Uploading!SaveDocument(u)
           /\ Ingest!SaveChunks(u) => Uploading!SaveChunks(u)
           /\ Ingest!Commit(u) => Uploading!Commit(u)
           /\ Ingest!Committed(u) => Uploading!Committed(u)
           /\ Ingest!Recover(u) => Uploading!Recover(u)
           /\ Ingest!RecoverEnd(u) => Uploading!RecoverEnd(u)
           /\ Ingest!Reject(u) => Uploading!Reject(u)
           /\ Ingest!StatementFails(u) => Uploading!StatementFails(u)
           /\ Ingest!EmbedFails(u) => Uploading!EmbedFails(u)
           /\ Ingest!FlushFails(u) => Uploading!FlushFails(u)
           /\ Ingest!ServerCommit(u) => Uploading!ServerCommit(u)
           /\ Ingest!ServerAbort(u) => Uploading!ServerAbort(u)
  <1> USE DEF Ingest!Goto, Uploading!Goto, Ingest!Respond, Uploading!Respond,
              Ingest!Release, Uploading!Release, Ingest!database, Uploading!database,
              Ingest!request, Uploading!request, Ingest!Stored, Uploading!Stored,
              Ingest!SameContent, Uploading!SameContent,
              Ingest!SummaryByContentHash, Uploading!SummaryByContentHash,
              Ingest!Blocking, Uploading!Blocking
  <1>1. Ingest!Receive(u) => Uploading!Receive(u)
    BY DEF Ingest!Receive, Uploading!Receive
  <1>2. Ingest!Extract(u) => Uploading!Extract(u)
    BY DEF Ingest!Extract, Uploading!Extract
  <1>3. Ingest!Dedup(u) => Uploading!Dedup(u)
    BY DEF Ingest!Dedup, Uploading!Dedup
  <1>4. Ingest!DedupEnd(u) => Uploading!DedupEnd(u)
    BY DEF Ingest!DedupEnd, Uploading!DedupEnd
  <1>5. Ingest!Embed(u) => Uploading!Embed(u)
    BY DEF Ingest!Embed, Uploading!Embed
  <1>6. Ingest!SaveDocument(u) => Uploading!SaveDocument(u)
    BY DEF Ingest!SaveDocument, Uploading!SaveDocument
  <1>7. Ingest!SaveChunks(u) => Uploading!SaveChunks(u)
    BY DEF Ingest!SaveChunks, Uploading!SaveChunks
  <1>8. Ingest!Commit(u) => Uploading!Commit(u)
    BY DEF Ingest!Commit, Uploading!Commit
  <1>9. Ingest!Committed(u) => Uploading!Committed(u)
    BY DEF Ingest!Committed, Uploading!Committed
  <1>10. Ingest!Recover(u) => Uploading!Recover(u)
    BY DEF Ingest!Recover, Uploading!Recover
  <1>11. Ingest!RecoverEnd(u) => Uploading!RecoverEnd(u)
    BY DEF Ingest!RecoverEnd, Uploading!RecoverEnd
  <1>12. Ingest!Reject(u) => Uploading!Reject(u)
    BY DEF Ingest!Reject, Uploading!Reject
  <1>13. Ingest!StatementFails(u) => Uploading!StatementFails(u)
    BY PoolTimeoutIsLikeAFailure DEF Ingest!StatementFails, Uploading!StatementFails
  <1>14. Ingest!EmbedFails(u) => Uploading!EmbedFails(u)
    BY DEF Ingest!EmbedFails, Uploading!EmbedFails
  <1>15. Ingest!FlushFails(u) => Uploading!FlushFails(u)
    BY DEF Ingest!FlushFails, Uploading!FlushFails
  <1>16. Ingest!ServerCommit(u) => Uploading!ServerCommit(u)
    BY DEF Ingest!ServerCommit, Uploading!ServerCommit
  <1>17. Ingest!ServerAbort(u) => Uploading!ServerAbort(u)
    BY DEF Ingest!ServerAbort, Uploading!ServerAbort
  <1>. QED
    BY ONLY <1>1, <1>2, <1>3, <1>4, <1>5, <1>6, <1>7, <1>8, <1>9, <1>10, <1>11, <1>12, <1>13,
       <1>14, <1>15, <1>16, <1>17

\* Within the process, the uploads do what IngestDocument says.
LEMMA UploadSimulation ==
    PoolIsKept /\ Uploading!IInv /\ [Next]_vars => [Uploading!Next]_(Uploading!vars)
  <1> SUFFICES ASSUME PoolIsKept, Uploading!IInv, [Next]_vars
               PROVE  [Uploading!Next]_(Uploading!vars)
    OBVIOUS
  <1>0. /\ Cardinality(held) \in Nat /\ PoolSize \in Nat
        /\ Cardinality(held \cap Uploads) \in Nat
        /\ Cardinality(held \cap Uploads) <= Cardinality(held)
    <2>1. IsFiniteSet(held \cap Uploads) /\ Cardinality(held \cap Uploads) <= Cardinality(held)
      BY FS_Subset DEF PoolIsKept
    <2>. QED
      BY <2>1, FS_CardinalityType, PoolAssumption DEF PoolIsKept
  <1>1. ASSUME NEW u \in Uploads, Ingest!Acquire(u) PROVE Uploading!Acquire(u)
    BY <1>0, <1>1, OneCardinality
       DEF Ingest!Acquire, Uploading!Acquire, Ingest!WaitsForConnection,
           Uploading!WaitsForConnection, Ingest!PoolExhausted, Uploading!PoolExhausted,
           Ingest!Opens, Uploading!Opens, Ingest!database, Uploading!database
  <1>2. ASSUME NEW u \in Uploads, Ingest!PoolTimeout(u) \/ Ingest!ConnectFails(u)
        PROVE  Uploading!PoolTimeout(u) \/ Uploading!ConnectFails(u)
    BY <1>0, <1>2, OneCardinality, PoolTimeoutIsLikeAFailure
       DEF Ingest!PoolTimeout, Uploading!PoolTimeout, Ingest!ConnectFails,
           Uploading!ConnectFails, Ingest!WaitsForConnection,
           Uploading!WaitsForConnection, Ingest!PoolExhausted, Uploading!PoolExhausted,
           Ingest!Opens, Uploading!Opens, Ingest!database, Uploading!database,
           Ingest!Respond, Uploading!Respond
  <1>3. ASSUME NEW u \in Uploads, UploadStep(u) \/ DatabaseStep(u) PROVE Uploading!Next
    BY <1>1, <1>2, <1>3, UploadMoves
       DEF UploadStep, DatabaseStep, Ingest!Handler, Uploading!Handler, Ingest!Failure,
           Uploading!Failure, Ingest!Server, Uploading!Server, Uploading!Next
  <1>4. ASSUME NEW x, x \notin Uploads, Takes(x), UNCHANGED <<shared, uploads>>
        PROVE  UNCHANGED Uploading!vars
    BY <1>4 DEF Takes, shared, uploads, Uploading!vars
  <1>5. ASSUME NEW q \in Questions, QuestionStep(q) PROVE UNCHANGED Uploading!vars
    BY <1>4, <1>5, QuestionTakes, RequestsAssumption DEF QuestionStep
  <1>6. ASSUME NEW r \in Reads, ReadStep(r) PROVE UNCHANGED Uploading!vars
    BY <1>4, <1>6, ReadTakes, RequestsAssumption DEF ReadStep, shared
  <1>7. CASE Crash
    <2>1. Ingest!InFlight = Uploading!InFlight
      BY DEF Ingest!InFlight, Uploading!InFlight
    <2>2. Uploading!LoseUploads
      BY <1>7, <2>1
         DEF Crash, Ingest!LoseUploads, Uploading!LoseUploads, Ingest!database,
             Uploading!database
    <2>3. CASE Uploading!InFlight # {}
      BY <2>2, <2>3 DEF Uploading!Crash, Uploading!Next
    <2>4. CASE Uploading!InFlight = {}
      <3>1. \A u \in Uploads : upload[u] \in {"idle", "done"}
        BY <2>4 DEF Uploading!InFlight
      <3>2. held \cap Uploads = {}
        BY <3>1
           DEF Uploading!IInv, Uploading!StepsMatch, Uploading!DatabaseSteps, Uploading!Opens
      <3>3. upload' = upload /\ answer' = answer
        BY <2>2, <2>4
           DEF Uploading!LoseUploads, Uploading!IInv, Uploading!TypeOK
      <3>. QED
        BY <2>2, <3>2, <3>3 DEF Uploading!LoseUploads, Uploading!database, Uploading!vars
    <2>. QED
      BY <2>3, <2>4
  <1>8. CASE UNCHANGED vars
    BY <1>8 DEF vars, shared, uploads, Uploading!vars
  <1>. QED
    BY <1>3, <1>5, <1>6, <1>7, <1>8 DEF Next
-----------------------------------------------------------------------------
(* The questions.                                                          *)

\* Lists, rankings and outages are the same for both.
LEMMA SameWords ==
    /\ \A s : Chat!ToSet(s) = Asking!ToSet(s)
    /\ \A s, S : Chat!InOrderOf(s, S) = Asking!InOrderOf(s, S)
    /\ Chat!Rankings = Asking!Rankings
    /\ \A q : Chat!Cleared(q) = Asking!Cleared(q)
    /\ \A q : Chat!ResolveSources(q) = Asking!ResolveSources(q)
    /\ \A q : Chat!Grounded(q) = Asking!Grounded(q)
    /\ \A q : Chat!InvalidOutput(q) = Asking!InvalidOutput(q)
    /\ \A outcome : Chat!IsTransient(outcome) = Asking!IsTransient(outcome)
    /\ Chat!Transient = Asking!Transient /\ Chat!Permanent = Asking!Permanent
    /\ Chat!NoReply = Asking!NoReply
    /\ Chat!ConnectErrors = Asking!ConnectErrors
    /\ Chat!DatabaseErrors = Asking!DatabaseErrors
    /\ Chat!PoolTimeoutError = Asking!PoolTimeoutError
    /\ \A exc : Chat!StatusOf(exc) = Asking!StatusOf(exc)
    /\ Chat!StatusOf(Chat!PoolTimeoutError) = Asking!StatusOf("DBAPIError")
    /\ "DBAPIError" \in Asking!ConnectErrors
  <1>1. /\ Chat!Transient = Asking!Transient /\ Chat!Permanent = Asking!Permanent
        /\ Chat!NoReply = Asking!NoReply
        /\ Chat!ConnectErrors = Asking!ConnectErrors
        /\ Chat!DatabaseErrors = Asking!DatabaseErrors
        /\ Chat!PoolTimeoutError = Asking!PoolTimeoutError
        /\ \A exc : Chat!StatusOf(exc) = Asking!StatusOf(exc)
        /\ Chat!StatusOf(Chat!PoolTimeoutError) = Asking!StatusOf("DBAPIError")
        /\ "DBAPIError" \in Asking!ConnectErrors
    BY DEF Chat!Transient, Asking!Transient, Chat!Permanent, Asking!Permanent,
           Chat!NoReply, Asking!NoReply, Chat!ConnectErrors, Asking!ConnectErrors,
           Chat!DatabaseErrors, Asking!DatabaseErrors, Chat!PoolTimeoutError,
           Asking!PoolTimeoutError, Chat!StatusOf, Asking!StatusOf,
           Chat!IsDbOutageError, Asking!IsDbOutageError
  <1>2. \A s : Chat!ToSet(s) = Asking!ToSet(s)
    BY DEF Chat!ToSet, Asking!ToSet
  <1>3. \A S : Chat!SetToSeqs(S) = Asking!SetToSeqs(S)
    BY OneCardinality DEF Chat!SetToSeqs, Asking!SetToSeqs
  <1>4. \A s, S : Chat!InOrderOf(s, S) = Asking!InOrderOf(s, S)
    BY <1>3 DEF Chat!InOrderOf, Asking!InOrderOf
  <1>5. Chat!Rankings = Asking!Rankings
    BY <1>3 DEF Chat!Rankings, Asking!Rankings
  <1>6. \A q : Chat!Cleared(q) = Asking!Cleared(q)
    BY <1>2 DEF Chat!Cleared, Asking!Cleared
  <1>7. \A q : Chat!ResolveSources(q) = Asking!ResolveSources(q)
    BY <1>2, <1>4 DEF Chat!ResolveSources, Asking!ResolveSources
  <1>8. /\ \A q : Chat!Grounded(q) = Asking!Grounded(q)
        /\ \A q : Chat!InvalidOutput(q) = Asking!InvalidOutput(q)
        /\ \A outcome : Chat!IsTransient(outcome) = Asking!IsTransient(outcome)
    BY <1>1 DEF Chat!Grounded, Asking!Grounded, Chat!InvalidOutput, Asking!InvalidOutput,
                Chat!IsTransient, Asking!IsTransient
  <1>. QED
    BY ONLY <1>1, <1>2, <1>4, <1>5, <1>6, <1>7, <1>8

\* A step of a question that does not meet the size of the pool.
LEMMA QuestionMoves ==
    ASSUME NEW q \in Questions
    PROVE  /\ Chat!Receive(q) => Asking!Receive(q)
           /\ Chat!EmbedQuestion(q) => Asking!EmbedQuestion(q)
           /\ Chat!Retrieve(q) => Asking!Retrieve(q)
           /\ Chat!CloseScope(q) => Asking!CloseScope(q)
           /\ Chat!Grade(q) => Asking!Grade(q)
           /\ Chat!StartRun(q) => Asking!StartRun(q)
           /\ Chat!Request(q) => Asking!Request(q)
           /\ Chat!RetryOutput(q) => Asking!RetryOutput(q)
           /\ Chat!OutputExhausted(q) => Asking!OutputExhausted(q)
           /\ Chat!RetryRun(q) => Asking!RetryRun(q)
           /\ Chat!GiveUp(q) => Asking!GiveUp(q)
           /\ Chat!FailFast(q) => Asking!FailFast(q)
           /\ Chat!Answer(q) => Asking!Answer(q)
           /\ Chat!Reject(q) => Asking!Reject(q)
           /\ Chat!EmbedQuestionFails(q) => Asking!EmbedQuestionFails(q)
           /\ Chat!RetrieveFails(q) => Asking!RetrieveFails(q)
  <1> USE SameWords
      DEF Chat!Goto, Asking!Goto, Chat!Finish, Asking!Finish, Chat!Forget, Asking!Forget,
          Chat!Respond, Asking!Respond, Chat!retrieval, Asking!retrieval,
          Chat!generation, Asking!generation
  <1>1. Chat!Receive(q) => Asking!Receive(q)
    BY DEF Chat!Receive, Asking!Receive
  <1>2. Chat!EmbedQuestion(q) => Asking!EmbedQuestion(q)
    BY DEF Chat!EmbedQuestion, Asking!EmbedQuestion
  <1>3. Chat!Retrieve(q) => Asking!Retrieve(q)
    BY DEF Chat!Retrieve, Asking!Retrieve
  <1>4. Chat!CloseScope(q) => Asking!CloseScope(q)
    BY DEF Chat!CloseScope, Asking!CloseScope
  <1>5. Chat!Grade(q) => Asking!Grade(q)
    BY DEF Chat!Grade, Asking!Grade
  <1>6. Chat!StartRun(q) => Asking!StartRun(q)
    BY DEF Chat!StartRun, Asking!StartRun
  <1>7. Chat!Request(q) => Asking!Request(q)
    BY DEF Chat!Request, Asking!Request
  <1>8. Chat!RetryOutput(q) => Asking!RetryOutput(q)
    BY DEF Chat!RetryOutput, Asking!RetryOutput
  <1>9. Chat!OutputExhausted(q) => Asking!OutputExhausted(q)
    BY DEF Chat!OutputExhausted, Asking!OutputExhausted
  <1>10. Chat!RetryRun(q) => Asking!RetryRun(q)
    BY DEF Chat!RetryRun, Asking!RetryRun
  <1>11. Chat!GiveUp(q) => Asking!GiveUp(q)
    BY DEF Chat!GiveUp, Asking!GiveUp
  <1>12. Chat!FailFast(q) => Asking!FailFast(q)
    BY DEF Chat!FailFast, Asking!FailFast
  <1>13. Chat!Answer(q) => Asking!Answer(q)
    BY DEF Chat!Answer, Asking!Answer
  <1>14. Chat!Reject(q) => Asking!Reject(q)
    BY DEF Chat!Reject, Asking!Reject
  <1>15. Chat!EmbedQuestionFails(q) => Asking!EmbedQuestionFails(q)
    BY DEF Chat!EmbedQuestionFails, Asking!EmbedQuestionFails
  <1>16. Chat!RetrieveFails(q) => Asking!RetrieveFails(q)
    BY DEF Chat!RetrieveFails, Asking!RetrieveFails
  <1>. QED
    BY ONLY <1>1, <1>2, <1>3, <1>4, <1>5, <1>6, <1>7, <1>8, <1>9, <1>10, <1>11, <1>12, <1>13,
       <1>14, <1>15, <1>16

\* Within the process, the questions do what AskQuestion says: an upload that
\* commits is what adds a chunk to their library.
LEMMA QuestionSimulation ==
    /\ PoolIsKept /\ Uploading!IInv /\ Asking!IInv /\ Asking!Forgotten /\ [Next]_vars
    => [Asking!Next]_(Asking!vars)
  <1> SUFFICES ASSUME PoolIsKept, Uploading!IInv, Asking!IInv, Asking!Forgotten, [Next]_vars
               PROVE  [Asking!Next]_(Asking!vars)
    OBVIOUS
  <1>0. /\ Cardinality(held) \in Nat /\ PoolSize \in Nat
        /\ Cardinality(held \cap Questions) \in Nat
        /\ Cardinality(held \cap Questions) <= Cardinality(held)
    <2>1. /\ IsFiniteSet(held \cap Questions)
          /\ Cardinality(held \cap Questions) <= Cardinality(held)
      BY FS_Subset DEF PoolIsKept
    <2>. QED
      BY <2>1, FS_CardinalityType, PoolAssumption DEF PoolIsKept
  <1>1. ASSUME NEW q \in Questions, Chat!Acquire(q) PROVE Asking!Acquire(q)
    BY <1>0, <1>1, OneCardinality
       DEF Chat!Acquire, Asking!Acquire, Chat!WaitsForConnection,
           Asking!WaitsForConnection, Chat!PoolExhausted, Asking!PoolExhausted,
           Chat!generation, Asking!generation
  <1>2. ASSUME NEW q \in Questions, Chat!AcquireFails(q) PROVE Asking!AcquireFails(q)
    <2>1. Chat!WaitsForConnection(q) => Asking!WaitsForConnection(q)
      BY DEF Chat!WaitsForConnection, Asking!WaitsForConnection
    <2>2. \A code : Chat!Respond(q, code) => Asking!Respond(q, code)
      BY SameWords DEF Chat!Respond, Asking!Respond, Chat!Finish, Asking!Finish, Chat!Forget,
                       Asking!Forget
    <2>3. UNCHANGED Asking!retrieval
      BY <1>2 DEF Chat!AcquireFails, Chat!retrieval, Asking!retrieval
    <2>4. Asking!PoolExhausted => Chat!PoolExhausted
      BY <1>0, OneCardinality DEF Chat!PoolExhausted, Asking!PoolExhausted
    <2>5. \E exc \in IF Asking!PoolExhausted THEN {Asking!PoolTimeoutError}
                     ELSE Asking!ConnectErrors : Asking!Respond(q, Asking!StatusOf(exc))
      BY <1>2, <2>2, <2>4, SameWords DEF Chat!AcquireFails
    <2>. QED
      BY <1>2, <2>1, <2>3, <2>5 DEF Chat!AcquireFails, Asking!AcquireFails
  <1>3. ASSUME NEW q \in Questions, QuestionStep(q) PROVE Asking!Next
    <2>1. UNCHANGED chunks
      BY <1>3 DEF QuestionStep, shared
    <2>. QED
      BY <1>1, <1>2, <1>3, <2>1, QuestionMoves
         DEF QuestionStep, Chat!Ask, Asking!Ask, Chat!Workflow, Asking!Workflow,
             Chat!Failure, Asking!Failure, Asking!Next
  <1>4. ASSUME NEW x, x \notin Questions, Takes(x)
        PROVE  (held \cap Questions)' = held \cap Questions
    BY <1>4 DEF Takes
  <1>5. ASSUME NEW u \in Uploads, UploadStep(u) \/ DatabaseStep(u)
        PROVE  [Asking!Next]_(Asking!vars)
    <2>1. UNCHANGED questions /\ (held \cap Questions)' = held \cap Questions
      BY <1>4, <1>5, UploadTakes, RequestsAssumption DEF UploadStep, DatabaseStep
    <2>2. chunks' = chunks \/ chunks' = chunks \cup {u}
      BY <1>5
         DEF UploadStep, DatabaseStep, Ingest!Receive, Ingest!Handler, Ingest!Failure,
             Ingest!Server, Ingest!Extract, Ingest!Acquire, Ingest!Dedup, Ingest!DedupEnd,
             Ingest!Embed, Ingest!SaveDocument, Ingest!SaveChunks, Ingest!Commit,
             Ingest!Committed, Ingest!Recover, Ingest!RecoverEnd, Ingest!Reject,
             Ingest!PoolTimeout, Ingest!ConnectFails, Ingest!StatementFails,
             Ingest!EmbedFails, Ingest!FlushFails, Ingest!ServerCommit, Ingest!ServerAbort,
             Ingest!database
    <2>3. CASE u \notin chunks /\ chunks' = chunks \cup {u}
      BY <2>1, <2>3
         DEF questions, Asking!Next, Asking!Ingested, Asking!retrieval, Asking!generation
    <2>4. CASE chunks' = chunks
      BY <2>1, <2>4 DEF questions, Asking!vars
    <2>. QED
      BY <2>2, <2>3, <2>4
  <1>6. ASSUME NEW r \in Reads, ReadStep(r) PROVE UNCHANGED Asking!vars
    BY <1>4, <1>6, ReadTakes, RequestsAssumption DEF ReadStep, questions, Asking!vars
  <1>7. CASE Crash
    <2>1. Chat!InFlight = Asking!InFlight
      BY DEF Chat!InFlight, Asking!InFlight
    <2>2. Asking!LoseQuestions /\ UNCHANGED chunks
      BY <1>7, <2>1, SameWords
         DEF Crash, Chat!LoseQuestions, Asking!LoseQuestions, Ingest!LoseUploads,
             Ingest!database
    <2>3. CASE Asking!InFlight # {}
      BY <2>2, <2>3 DEF Asking!Crash, Asking!Next
    <2>4. CASE Asking!InFlight = {}
      <3>1. \A q \in Questions : question[q] \in {"idle", "done"}
        BY <2>4 DEF Asking!InFlight
      <3>2. held \cap Questions = {}
        BY <3>1 DEF Asking!IInv, Asking!StepsMatch
      <3>3. question' = question /\ status' = status
        BY <2>2, <2>4 DEF Asking!LoseQuestions, Asking!IInv, Asking!TypeOK
      <3>4. runs' = runs /\ outputs' = outputs /\ calls' = calls /\ reply' = reply
        BY <2>2, <3>1
           DEF Asking!LoseQuestions, Asking!IInv, Asking!TypeOK, Asking!Forgotten
      <3>. QED
        BY <2>2, <3>2, <3>3, <3>4 DEF Asking!LoseQuestions, Asking!vars
    <2>. QED
      BY <2>3, <2>4
  <1>8. CASE UNCHANGED vars
    BY <1>8 DEF vars, shared, questions, Asking!vars
  <1>. QED
    BY <1>3, <1>5, <1>6, <1>7, <1>8 DEF Next
-----------------------------------------------------------------------------
(* The reads.                                                              *)

ReadTypes ==
    /\ read \in [Reads -> Browse!Steps]
    /\ asked \in [Reads -> Uploads \cup {"nothing", "list", "health"}]
    /\ found \in [Reads -> SUBSET Uploads]
    /\ response \in [Reads -> Browse!Statuses \cup {"none"}]
    /\ known \in [Reads -> SUBSET Uploads]

\* What a read knows and finds is stored; from its statement on, what it finds
\* answers for what was known when it began.
ReadsMatch ==
    \A r \in Reads :
        /\ found[r] \subseteq documents /\ known[r] \subseteq documents
        /\ response[r] = "none" <=> read[r] \notin {"exit", "done"}
        /\ read[r] = "second" => asked[r] = "list"
        /\ asked[r] = "list" /\ (read[r] \in {"second", "respond"} \/ response[r] = "200")
               => known[r] \subseteq found[r]
        /\ read[r] = "respond" /\ asked[r] \in known[r] => found[r] # {}
        /\ response[r] = "404" => asked[r] \notin known[r]
        /\ r \in held => read[r] \in {"first", "second", "respond", "exit"}

Inv ==
    /\ PoolIsKept
    /\ Uploading!IInv
    /\ Asking!IInv
    /\ Asking!Forgotten
    /\ ReadTypes
    /\ ReadsMatch

\* Whatever a response names is stored: an upload is answered with a stored
\* document, sources are chunks of stored documents, and reads find nothing else.
LEMMA ShownIsStored ==
    ASSUME Inv
    PROVE  Shown \subseteq documents /\ documents \subseteq Uploads
  <1>1. documents \subseteq Uploads /\ documents = chunks
    BY DEF Inv, Uploading!IInv, Uploading!TypeOK, Uploading!CommitsAreWhole
  <1>2. ASSUME NEW u \in Uploads, answer[u] \in {"200", "201"}
        PROVE  document[u] \in documents
    BY <1>2 DEF Inv, Uploading!IInv, Uploading!LocalDocuments, Uploading!Stored
  <1>3. ASSUME NEW q \in Questions PROVE Chat!ToSet(sources[q]) \subseteq documents
    <2>1. Asking!ToSet(sources[q]) \subseteq Asking!ToSet(evidence[q])
      BY DEF Inv, Asking!IInv, Asking!EvidenceIsCleared
    <2>2. /\ Asking!ToSet(evidence[q]) \subseteq Asking!Cleared(q)
          /\ Asking!ToSet(hits[q]) \subseteq chunks
      BY DEF Inv, Asking!IInv, Asking!EvidenceIsCleared
    <2>3. Asking!Cleared(q) \subseteq Asking!ToSet(hits[q])
      BY DEF Asking!Cleared
    <2>. QED
      BY <1>1, <2>1, <2>2, <2>3, SameWords
  <1>4. ASSUME NEW r \in Reads PROVE found[r] \subseteq documents
    BY DEF Inv, ReadsMatch
  <1> DEFINE Created == {document[u] : u \in {v \in Uploads : answer[v] \in {"200", "201"}}}
             Cited == UNION {Chat!ToSet(sources[q]) : q \in Questions}
             Listed == UNION {found[r] : r \in {s \in Reads : response[s] = "200"}}
  <1>5. Created \subseteq documents /\ Cited \subseteq documents /\ Listed \subseteq documents
    BY <1>2, <1>3, <1>4
  <1>6. Shown = Created \cup Cited \cup Listed
    BY DEF Shown
  <1> HIDE DEF Created, Cited, Listed
  <1>. QED
    BY <1>1, <1>5, <1>6

\* A step of another actor may only add documents.
LEMMA OthersKeepReads ==
    ASSUME ReadTypes, ReadsMatch, NEW x, x \notin Reads, Takes(x),
           UNCHANGED <<reads, known>>, documents \subseteq documents'
    PROVE  ReadTypes' /\ ReadsMatch'
  BY DEF ReadTypes, ReadsMatch, Takes, reads

\* What the uploads do to the documents is add to them.
LEMMA DocumentsGrow ==
    ASSUME NEW u \in Uploads, UploadStep(u) \/ DatabaseStep(u)
    PROVE  documents \subseteq documents' /\ UNCHANGED <<reads, known>>
  BY DEF UploadStep, DatabaseStep, Ingest!Receive, Ingest!Handler, Ingest!Failure,
         Ingest!Server, Ingest!Extract, Ingest!Acquire, Ingest!Dedup, Ingest!DedupEnd,
         Ingest!Embed, Ingest!SaveDocument, Ingest!SaveChunks, Ingest!Commit,
         Ingest!Committed, Ingest!Recover, Ingest!RecoverEnd, Ingest!Reject,
         Ingest!PoolTimeout, Ingest!ConnectFails, Ingest!StatementFails,
         Ingest!EmbedFails, Ingest!FlushFails, Ingest!ServerCommit, Ingest!ServerAbort,
         Ingest!database

\* A read goes on with what it knows.
LEMMA ReadsGoOn ==
    ASSUME Inv, NEW r \in Reads, ReadStep(r)
    PROVE  ReadTypes' /\ ReadsMatch'
  <1> USE DEF Browse!Goto, Browse!Send, Browse!Release, Browse!Steps, Browse!Statuses
  <1>0. /\ ReadTypes /\ ReadsMatch
        /\ Shown \subseteq documents /\ documents \subseteq Uploads
        /\ known' = IF read[r] = "idle" THEN [known EXCEPT ![r] = Shown] ELSE known
    BY ShownIsStored DEF Inv, ReadStep
  <1>1. CASE Browse!Receive(r)
    <2>1. ReadTypes'
      BY <1>0, <1>1 DEF ReadTypes, Browse!Receive
    <2>. QED
      BY <1>0, <1>1, <2>1 DEF ReadTypes, ReadsMatch, Browse!Receive
  <1>2. CASE Browse!Reject(r)
    <2>1. ReadTypes'
      BY <1>0, <1>2 DEF ReadTypes, Browse!Reject
    <2>. QED
      BY <1>0, <1>2, <2>1 DEF ReadTypes, ReadsMatch, Browse!Reject
  <1>3. CASE Browse!Acquire(r)
    BY <1>0, <1>3 DEF ReadTypes, ReadsMatch, Browse!Acquire, Browse!WaitsForConnection,
                      Browse!local
  <1>4. CASE Browse!List(r)
    <2>1. ReadTypes'
      BY <1>0, <1>4 DEF ReadTypes, Browse!List
    <2>. QED
      BY <1>0, <1>4, <2>1, RequestsAssumption DEF ReadTypes, ReadsMatch, Browse!List
  <1>5. CASE Browse!Count(r)
    <2>1. ReadTypes'
      BY <1>0, <1>5 DEF ReadTypes, Browse!Count
    <2>. QED
      BY <1>0, <1>5, <2>1, RequestsAssumption DEF ReadTypes, ReadsMatch, Browse!Count
  <1>6. CASE Browse!Get(r)
    <2>1. ReadTypes'
      BY <1>0, <1>6 DEF ReadTypes, Browse!Get
    <2>. QED
      BY <1>0, <1>6, <2>1, RequestsAssumption DEF ReadTypes, ReadsMatch, Browse!Get
  <1>7. CASE Browse!NotFound(r)
    <2>1. ReadTypes'
      BY <1>0, <1>7 DEF ReadTypes, Browse!NotFound
    <2>. QED
      BY <1>0, <1>7, <2>1 DEF ReadTypes, ReadsMatch, Browse!NotFound
  <1>8. CASE Browse!Respond(r)
    <2>1. ReadTypes'
      BY <1>0, <1>8 DEF ReadTypes, Browse!Respond
    <2>. QED
      BY <1>0, <1>8, <2>1 DEF ReadTypes, ReadsMatch, Browse!Respond
  <1>9. CASE Browse!Exit(r)
    <2>1. ReadTypes'
      BY <1>0, <1>9 DEF ReadTypes, Browse!Exit
    <2>. QED
      BY <1>0, <1>9, <2>1 DEF ReadTypes, ReadsMatch, Browse!Exit
  <1>10. CASE Browse!Probe(r)
    <2>1. ReadTypes'
      BY <1>0, <1>10 DEF ReadTypes, Browse!Probe
    <2>. QED
      BY <1>0, <1>10, <2>1, RequestsAssumption DEF ReadTypes, ReadsMatch, Browse!Probe
  <1>11. CASE Browse!AcquireFails(r) \/ Browse!StatementFails(r)
    <2>1. PICK code \in {"500", "503"} :
              /\ Browse!Send(r, code) /\ Browse!Goto(r, "done")
              /\ held' = held \ {r} \/ (r \notin held /\ held' = held)
              /\ UNCHANGED <<documents, asked, found>> /\ read[r] \in {"first", "second"}
      <3>1. ASSUME NEW exc PROVE Browse!FailedWith(r, exc) \in {"500", "503"}
        BY DEF Browse!FailedWith, Browse!StatusOf
      <3>2. CASE Browse!AcquireFails(r)
        BY <3>1, <3>2 DEF Browse!AcquireFails, Browse!WaitsForConnection
      <3>3. CASE Browse!StatementFails(r)
        BY <3>1, <3>3 DEF Browse!StatementFails
      <3>. QED
        BY <1>11, <3>2, <3>3
    <2>2. ReadTypes'
      BY <1>0, <2>1 DEF ReadTypes
    <2>. QED
      BY <1>0, <2>1, <2>2 DEF ReadTypes, ReadsMatch
  <1>. QED
    BY <1>1, <1>2, <1>3, <1>4, <1>5, <1>6, <1>7, <1>8, <1>9, <1>10, <1>11
       DEF ReadStep, Browse!Read, Browse!Handler, Browse!Failure

\* A crash answers nobody with anything but "lost".
LEMMA CrashKeepsReads ==
    ASSUME ReadTypes, ReadsMatch, Crash
    PROVE  ReadTypes' /\ ReadsMatch'
  <1>1. /\ read' = [r \in Reads |-> IF r \in Browse!InFlight THEN "done" ELSE read[r]]
        /\ response' = [r \in Reads |->
               IF r \in Browse!InFlight /\ response[r] = "none" THEN "lost" ELSE response[r]]
        /\ held' = {} /\ UNCHANGED <<documents, asked, found, known>>
    BY DEF Crash, Browse!LoseReads
  <1>2. ReadTypes'
    BY <1>1 DEF ReadTypes, Browse!Steps, Browse!Statuses
  <1>. QED
    BY <1>1, <1>2 DEF ReadTypes, ReadsMatch, Browse!InFlight

-----------------------------------------------------------------------------
(* The process.                                                            *)

\* At first nobody has asked for anything.
LEMMA InitInv == Init => Inv /\ Uploading!Init /\ Asking!Init
  <1> SUFFICES ASSUME Init PROVE Inv /\ Uploading!Init /\ Asking!Init
    OBVIOUS
  <1>1. Uploading!Init
    BY DEF Init, Ingest!Init, Uploading!Init
  <1>2. Asking!Init
    BY SameWords DEF Init, Ingest!Init, Chat!Init, Asking!Init
  <1>3. Uploading!IInv
    BY <1>1, Uploading!InitInv, UploadsAssumption, PoolAssumption
  <1>4. Asking!IInv
    BY <1>2, Asking!InitInv, SameWords, ScoreAssumption, PoolAssumption, LimitsAssumption,
       RepliesAssumption
  <1>5. Asking!Forgotten
    BY <1>2 DEF Asking!Init, Asking!Forgotten
  <1>6. ReadTypes /\ ReadsMatch
    BY DEF Init, Browse!Init, ReadTypes, ReadsMatch, Browse!Steps, Browse!Statuses
  <1>. QED
    BY <1>1, <1>2, <1>3, <1>4, <1>5, <1>6, PoolInit DEF Inv

\* Every step of the process is one of each component, and keeps the invariant.
LEMMA NextInv == Inv /\ [Next]_vars => Inv'
  <1> SUFFICES ASSUME Inv, [Next]_vars PROVE Inv'
    OBVIOUS
  <1>1. PoolIsKept'
    BY PoolNext DEF Inv
  <1>2. Uploading!IInv'
    BY UploadSimulation, Uploading!NextInv, UploadsAssumption, PoolAssumption DEF Inv
  <1>3. [Asking!Next]_(Asking!vars)
    BY QuestionSimulation DEF Inv
  <1>4. Asking!IInv'
    BY <1>3, Asking!NextInv, SameWords, ScoreAssumption, PoolAssumption, LimitsAssumption,
       RepliesAssumption DEF Inv
  <1>5. Asking!Forgotten'
    <2>1. Asking!TypeOK /\ Asking!Forgotten
      BY DEF Inv, Asking!IInv
    <2>. QED
      BY <1>3, <2>1, Asking!NextForgotten, SameWords, ScoreAssumption, PoolAssumption,
         LimitsAssumption, RepliesAssumption
  <1>6. ReadTypes' /\ ReadsMatch'
    <2>1. ASSUME NEW u \in Uploads, UploadStep(u) \/ DatabaseStep(u)
          PROVE  ReadTypes' /\ ReadsMatch'
      BY <2>1, UploadTakes, DocumentsGrow, OthersKeepReads, RequestsAssumption DEF Inv
    <2>2. ASSUME NEW q \in Questions, QuestionStep(q) PROVE ReadTypes' /\ ReadsMatch'
      BY <2>2, QuestionTakes, OthersKeepReads, RequestsAssumption
         DEF Inv, QuestionStep, shared
    <2>3. CASE UNCHANGED vars
      BY <2>3 DEF Inv, ReadTypes, ReadsMatch, vars, shared, reads
    <2>. QED
      BY <2>1, <2>2, <2>3, ReadsGoOn, CrashKeepsReads DEF Inv, Next
  <1>. QED
    BY <1>1, <1>2, <1>4, <1>5, <1>6 DEF Inv

\* The invariant holds in every reachable state of the process.
THEOREM Invariance == Spec => []Inv
  BY InitInv, NextInv, PTL DEF Spec

\* On one pool and beside questions and reads, the uploads behave as
\* IngestDocument says, and keep the promise of IdempotentIngest.
THEOREM UploadsAsSpecified == Spec => Uploading!Spec /\ Uploading!KeepsPromise
  <1>1. Inv /\ [Next]_vars => [Uploading!Next]_(Uploading!vars)
    BY UploadSimulation DEF Inv
  <1>2. Spec => Uploading!Spec
    BY <1>1, InitInv, Invariance, PTL DEF Spec, Uploading!Spec
  <1>3. Uploading!Spec => Uploading!KeepsPromise
    BY Uploading!Refinement, UploadsAssumption, PoolAssumption
  <1>. QED
    BY <1>2, <1>3

\* So do the questions, whose library is what the uploads commit: they behave as
\* AskQuestion says, and keep the promise of GroundedAnswerer.
THEOREM QuestionsAsSpecified == Spec => Asking!Spec /\ Asking!AnswersAsPromised
  <1>1. Inv /\ [Next]_vars => [Asking!Next]_(Asking!vars)
    BY QuestionSimulation DEF Inv
  <1>2. Spec => Asking!Spec
    BY <1>1, InitInv, Invariance, PTL DEF Spec, Asking!Spec
  <1>3. Asking!Spec => Asking!AnswersAsPromised
    BY Asking!Refinement, SameWords, ScoreAssumption, PoolAssumption, LimitsAssumption,
       RepliesAssumption
  <1>. QED
    BY <1>2, <1>3

\* What a client has been shown, by an upload, a list, a document or the source
\* of an answer, no later read misses.
THEOREM ShownStaysVisible == Spec => []NothingIsUnseen
  <1>1. Inv => NothingIsUnseen
    BY DEF Inv, ReadsMatch, NothingIsUnseen
  <1>. QED
    BY <1>1, Invariance, PTL

\* The pool is never overdrawn, and a connection is held only within a scope,
\* by whatever mix of requests.
THEOREM ShortScopes == Spec => []ConnectionsOnlyInScopes
  <1>1. Inv => ConnectionsOnlyInScopes
    <2> SUFFICES ASSUME Inv PROVE ConnectionsOnlyInScopes
      OBVIOUS
    <2>1. Ingest!ConnectionsOnlyInScopes
      BY DEF Inv, Uploading!IInv, Uploading!StepsMatch, Ingest!ConnectionsOnlyInScopes,
             Ingest!DatabaseSteps, Uploading!DatabaseSteps, Ingest!Opens, Uploading!Opens
    <2>2. Chat!NoConnectionAcrossModelCalls
      BY DEF Inv, Asking!IInv, Asking!StepsMatch, Chat!NoConnectionAcrossModelCalls
    <2>3. Browse!ConnectionsOnlyInSessions
      BY DEF Inv, ReadsMatch, Browse!ConnectionsOnlyInSessions
    <2>. QED
      BY <2>1, <2>2, <2>3 DEF Inv, PoolIsKept, ConnectionsOnlyInScopes
  <1>. QED
    BY <1>1, Invariance, PTL
=============================================================================
