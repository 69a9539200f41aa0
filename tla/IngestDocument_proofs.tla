------------------------- MODULE IngestDocument_proofs -------------------------
(***************************************************************************)
(* Theorems about IngestDocument for any set of uploads, any contents and  *)
(* any pool size.  The safety properties of the module are not inductive   *)
(* by themselves: they follow from IInv, which adds where each upload's    *)
(* connection, rows and local document can be at each step.                *)
(***************************************************************************)
EXTENDS IngestDocument, TLAPS

\* The failures after which a transaction may be left open on the server.
ServerFailures == {"500", "503", "lost"}

\* The index entry for a content belongs to one upload at a time, whether its
\* row is committed or still in an open transaction.
HoldsIndex(u) == rows[u] # "none" \/ u \in documents

IndexIsExclusive ==
    \A u, v \in Uploads :
        HoldsIndex(u) /\ HoldsIndex(v) /\ SameContent(u, v) => u = v

\* A COMMIT is only on its way for a transaction that wrote everything.
CommitsAreWhole ==
    /\ documents = chunks
    /\ \A u \in committing : rows[u] = "all"
    /\ \A u \in documents : rows[u] = "none"

\* An upload holds a connection exactly in the steps of an open unit of work,
\* and is answered exactly when it is done.
StepsMatch ==
    \A u \in Uploads :
        /\ answer[u] = "none" <=> pc[u] # "done"
        /\ u \in held => pc[u] \in DatabaseSteps
        /\ pc[u] \in DatabaseSteps \ Opens => u \in held

\* An upload that holds a connection has written the rows its step says; a
\* transaction without a connection belongs to an upload told of a failure.
RowsMatch ==
    \A u \in Uploads :
        /\ pc[u] = "flush_chunks" => rows[u] = "document" /\ u \notin committing
        /\ pc[u] = "commit" => rows[u] = "all" /\ u \notin committing
        /\ pc[u] = "committing" => u \in committing \/ u \in documents
        /\ pc[u] \notin {"flush_chunks", "commit", "committing", "done"} =>
               rows[u] = "none" /\ u \notin documents
        /\ pc[u] = "done" /\ rows[u] # "none" => answer[u] \in ServerFailures
        /\ pc[u] = "done" /\ u \in documents => answer[u] \in ServerFailures \cup {"201"}

\* The document an upload is about to answer with, or has answered with.
LocalDocuments ==
    \A u \in Uploads :
        /\ pc[u] \in {"save", "flush_chunks", "commit", "committing"} => document[u] = u
        /\ pc[u] = "dedup_end" => document[u] \in Stored(u) \cup {NoDocument}
        /\ pc[u] = "recover" => Stored(u) # {}
        /\ pc[u] = "recover_end" => document[u] \in Stored(u)
        /\ answer[u] = "201" => u \in documents /\ document[u] = u
        /\ answer[u] = "200" => document[u] \in Stored(u) /\ document[u] # u
        /\ answer[u] # "409"

IInv ==
    /\ TypeOK
    /\ IndexIsExclusive
    /\ CommitsAreWhole
    /\ StepsMatch
    /\ RowsMatch
    /\ LocalDocuments

-----------------------------------------------------------------------------
(* Type correctness.                                                       *)

\* Nothing has a value outside its type before the first request.
LEMMA InitType == Init => TypeOK
  BY DEF Init, TypeOK, Steps, Statuses

\* Every step keeps every variable in its type.
LEMMA NextType == TypeOK /\ [Next]_vars => TypeOK'
  <1> SUFFICES ASSUME TypeOK, [Next]_vars PROVE TypeOK'
    OBVIOUS
  <1> USE DEF TypeOK, Steps, Statuses, DatabaseSteps, Opens, SlowSteps, database, request
  <1>1. ASSUME NEW u \in Uploads, Receive(u) PROVE TypeOK'
    BY <1>1 DEF Receive, Goto
  <1>2. ASSUME NEW u \in Uploads, Extract(u) PROVE TypeOK'
    BY <1>2 DEF Extract, Goto
  <1>3. ASSUME NEW u \in Uploads, Acquire(u) PROVE TypeOK'
    BY <1>3 DEF Acquire, WaitsForConnection, PoolExhausted
  <1>4. ASSUME NEW u \in Uploads, Dedup(u) PROVE TypeOK'
    BY <1>4 DEF Dedup, Goto, SummaryByContentHash, Stored
  <1>5. ASSUME NEW u \in Uploads, DedupEnd(u) PROVE TypeOK'
    BY <1>5 DEF DedupEnd, Goto, Respond, Release
  <1>6. ASSUME NEW u \in Uploads, Embed(u) PROVE TypeOK'
    BY <1>6 DEF Embed, Goto
  <1>7. ASSUME NEW u \in Uploads, SaveDocument(u) PROVE TypeOK'
    BY <1>7 DEF SaveDocument, Goto, Release, Stored, Blocking
  <1>8. ASSUME NEW u \in Uploads, SaveChunks(u) PROVE TypeOK'
    BY <1>8 DEF SaveChunks, Goto
  <1>9. ASSUME NEW u \in Uploads, Commit(u) PROVE TypeOK'
    BY <1>9 DEF Commit, Goto
  <1>10. ASSUME NEW u \in Uploads, Committed(u) PROVE TypeOK'
    BY <1>10 DEF Committed, Respond, Release
  <1>11. ASSUME NEW u \in Uploads, Recover(u) PROVE TypeOK'
    BY <1>11 DEF Recover, Goto, SummaryByContentHash, Stored
  <1>12. ASSUME NEW u \in Uploads, RecoverEnd(u) PROVE TypeOK'
    BY <1>12 DEF RecoverEnd, Respond, Release
  <1>13. ASSUME NEW u \in Uploads, Reject(u) PROVE TypeOK'
    BY <1>13 DEF Reject, Respond
  <1>14. ASSUME NEW u \in Uploads, PoolTimeout(u) PROVE TypeOK'
    BY <1>14
       DEF PoolTimeout, Respond, WaitsForConnection, PoolExhausted, StatusOf,
           IsDbOutageError
  <1>15. ASSUME NEW u \in Uploads, ConnectFails(u) PROVE TypeOK'
    BY <1>15
       DEF ConnectFails, Respond, WaitsForConnection, PoolExhausted, StatusOf,
           IsDbOutageError
  <1>16. ASSUME NEW u \in Uploads, StatementFails(u) PROVE TypeOK'
    BY <1>16
       DEF StatementFails, Respond, Release, StatusOf, IsDbOutageError, DatabaseErrors
  <1>17. ASSUME NEW u \in Uploads, EmbedFails(u) PROVE TypeOK'
    BY <1>17 DEF EmbedFails, Respond
  <1>18. ASSUME NEW u \in Uploads, FlushFails(u) PROVE TypeOK'
    BY <1>18 DEF FlushFails, Respond, Release
  <1>19. ASSUME NEW u \in Uploads, ServerCommit(u) PROVE TypeOK'
    BY <1>19 DEF ServerCommit
  <1>20. ASSUME NEW u \in Uploads, ServerAbort(u) PROVE TypeOK'
    BY <1>20 DEF ServerAbort
  <1>21. ASSUME Crash PROVE TypeOK'
    BY <1>21 DEF Crash, LoseUploads, InFlight
  <1>22. CASE UNCHANGED vars
    BY <1>22 DEF vars
  <1>. QED
    BY <1>1, <1>2, <1>3, <1>4, <1>5, <1>6, <1>7, <1>8, <1>9, <1>10, <1>11, <1>12, <1>13,
       <1>14, <1>15, <1>16, <1>17, <1>18, <1>19, <1>20, <1>21, <1>22
       DEF Next, Handler, Failure, Server

\* The variables keep their types: no response has a status, and no local
\* variable a value, outside the ones the handler names.
THEOREM TypeCorrect == Spec => []TypeOK
  BY InitType, NextType, PTL DEF Spec

-----------------------------------------------------------------------------
(* The inductive invariant.                                                *)

\* Before the first request nothing is held, open or stored.
LEMMA InitInv == Init => IInv
  BY InitType, NoDocumentAssumption
     DEF Init, IInv, IndexIsExclusive, HoldsIndex, CommitsAreWhole, StepsMatch, RowsMatch,
         LocalDocuments, DatabaseSteps, Opens

\* Every step preserves the inductive invariant.
LEMMA NextInv == IInv /\ [Next]_vars => IInv'
  <1> SUFFICES ASSUME IInv, [Next]_vars PROVE IInv'
    OBVIOUS
  <1> USE NoDocumentAssumption DEF database, request, ServerFailures
  <1>0. TypeOK /\ TypeOK'
    BY NextType DEF IInv
  <1>1. ASSUME NEW u \in Uploads, Receive(u) PROVE IInv'
    <2>1. IndexIsExclusive' /\ CommitsAreWhole'
      BY <1>1 DEF IInv, Receive, IndexIsExclusive, HoldsIndex, CommitsAreWhole
    <2>2. StepsMatch'
      BY <1>0, <1>1 DEF IInv, TypeOK, Receive, Goto, StepsMatch, DatabaseSteps, Opens
    <2>3. RowsMatch'
      BY <1>0, <1>1
         DEF IInv, TypeOK, Receive, Goto, RowsMatch, StepsMatch, CommitsAreWhole,
             DatabaseSteps, Opens
    <2>4. LocalDocuments'
      BY <1>0, <1>1
         DEF IInv, TypeOK, Receive, Goto, LocalDocuments, RowsMatch, StepsMatch, Stored,
             SameContent, DatabaseSteps, Opens
    <2>. QED
      BY <1>0, <2>1, <2>2, <2>3, <2>4 DEF IInv
  <1>2. ASSUME NEW u \in Uploads, Extract(u) PROVE IInv'
    <2>1. IndexIsExclusive' /\ CommitsAreWhole'
      BY <1>2 DEF IInv, Extract, IndexIsExclusive, HoldsIndex, CommitsAreWhole
    <2>2. StepsMatch'
      BY <1>0, <1>2 DEF IInv, TypeOK, Extract, Goto, StepsMatch, DatabaseSteps, Opens
    <2>3. RowsMatch'
      BY <1>0, <1>2
         DEF IInv, TypeOK, Extract, Goto, RowsMatch, StepsMatch, CommitsAreWhole,
             DatabaseSteps, Opens
    <2>4. LocalDocuments'
      BY <1>0, <1>2
         DEF IInv, TypeOK, Extract, Goto, LocalDocuments, RowsMatch, StepsMatch, Stored,
             SameContent, DatabaseSteps, Opens
    <2>. QED
      BY <1>0, <2>1, <2>2, <2>3, <2>4 DEF IInv
  <1>3. ASSUME NEW u \in Uploads, Acquire(u) PROVE IInv'
    <2>1. IndexIsExclusive' /\ CommitsAreWhole'
      BY <1>3 DEF IInv, Acquire, IndexIsExclusive, HoldsIndex, CommitsAreWhole
    <2>2. StepsMatch'
      BY <1>0, <1>3
         DEF IInv, TypeOK, Acquire, WaitsForConnection, PoolExhausted, StepsMatch,
             DatabaseSteps, Opens
    <2>3. RowsMatch'
      BY <1>0, <1>3
         DEF IInv, TypeOK, Acquire, WaitsForConnection, PoolExhausted, RowsMatch,
             StepsMatch, CommitsAreWhole, DatabaseSteps, Opens
    <2>4. LocalDocuments'
      BY <1>0, <1>3
         DEF IInv, TypeOK, Acquire, WaitsForConnection, PoolExhausted, LocalDocuments,
             RowsMatch, StepsMatch, Stored, SameContent, DatabaseSteps, Opens
    <2>. QED
      BY <1>0, <2>1, <2>2, <2>3, <2>4 DEF IInv
  <1>4. ASSUME NEW u \in Uploads, Dedup(u) PROVE IInv'
    <2>1. IndexIsExclusive' /\ CommitsAreWhole'
      BY <1>4 DEF IInv, Dedup, IndexIsExclusive, HoldsIndex, CommitsAreWhole
    <2>2. StepsMatch'
      BY <1>0, <1>4
         DEF IInv, TypeOK, Dedup, Goto, SummaryByContentHash, Stored, StepsMatch,
             DatabaseSteps, Opens
    <2>3. RowsMatch'
      BY <1>0, <1>4
         DEF IInv, TypeOK, Dedup, Goto, SummaryByContentHash, Stored, RowsMatch,
             StepsMatch, CommitsAreWhole, DatabaseSteps, Opens
    <2>4. LocalDocuments'
      BY <1>0, <1>4
         DEF IInv, TypeOK, Dedup, Goto, SummaryByContentHash, Stored, LocalDocuments,
             RowsMatch, StepsMatch, SameContent, DatabaseSteps, Opens
    <2>. QED
      BY <1>0, <2>1, <2>2, <2>3, <2>4 DEF IInv
  <1>5. ASSUME NEW u \in Uploads, DedupEnd(u) PROVE IInv'
    <2>1. IndexIsExclusive' /\ CommitsAreWhole'
      BY <1>5 DEF IInv, DedupEnd, IndexIsExclusive, HoldsIndex, CommitsAreWhole
    <2>2. StepsMatch'
      BY <1>0, <1>5
         DEF IInv, TypeOK, DedupEnd, Goto, Respond, Release, StepsMatch, DatabaseSteps,
             Opens
    <2>3. RowsMatch'
      BY <1>0, <1>5
         DEF IInv, TypeOK, DedupEnd, Goto, Respond, Release, RowsMatch, StepsMatch,
             CommitsAreWhole, DatabaseSteps, Opens
    <2>4. LocalDocuments'
      BY <1>0, <1>5
         DEF IInv, TypeOK, DedupEnd, Goto, Respond, Release, LocalDocuments, RowsMatch,
             StepsMatch, Stored, SameContent, DatabaseSteps, Opens
    <2>. QED
      BY <1>0, <2>1, <2>2, <2>3, <2>4 DEF IInv
  <1>6. ASSUME NEW u \in Uploads, Embed(u) PROVE IInv'
    <2>1. IndexIsExclusive' /\ CommitsAreWhole'
      BY <1>6 DEF IInv, Embed, IndexIsExclusive, HoldsIndex, CommitsAreWhole
    <2>2. StepsMatch'
      BY <1>0, <1>6 DEF IInv, TypeOK, Embed, Goto, StepsMatch, DatabaseSteps, Opens
    <2>3. RowsMatch'
      BY <1>0, <1>6
         DEF IInv, TypeOK, Embed, Goto, RowsMatch, StepsMatch, CommitsAreWhole,
             DatabaseSteps, Opens
    <2>4. LocalDocuments'
      BY <1>0, <1>6
         DEF IInv, TypeOK, Embed, Goto, LocalDocuments, RowsMatch, StepsMatch, Stored,
             SameContent, DatabaseSteps, Opens
    <2>. QED
      BY <1>0, <2>1, <2>2, <2>3, <2>4 DEF IInv
  <1>7. ASSUME NEW u \in Uploads, SaveDocument(u) PROVE IInv'
    <2>1. IndexIsExclusive'
      BY <1>0, <1>7
         DEF IInv, TypeOK, SaveDocument, Goto, Release, Stored, Blocking,
             IndexIsExclusive, HoldsIndex, SameContent
    <2>2. CommitsAreWhole'
      BY <1>0, <1>7
         DEF IInv, TypeOK, SaveDocument, Goto, Release, Stored, Blocking,
             CommitsAreWhole, RowsMatch
    <2>3. StepsMatch'
      BY <1>0, <1>7
         DEF IInv, TypeOK, SaveDocument, Goto, Release, Stored, Blocking, StepsMatch,
             DatabaseSteps, Opens
    <2>4. RowsMatch'
      BY <1>0, <1>7
         DEF IInv, TypeOK, SaveDocument, Goto, Release, Stored, Blocking, RowsMatch,
             StepsMatch, CommitsAreWhole, DatabaseSteps, Opens
    <2>5. LocalDocuments'
      BY <1>0, <1>7
         DEF IInv, TypeOK, SaveDocument, Goto, Release, Stored, Blocking,
             LocalDocuments, RowsMatch, StepsMatch, SameContent, DatabaseSteps, Opens
    <2>. QED
      BY <1>0, <2>1, <2>2, <2>3, <2>4, <2>5 DEF IInv
  <1>8. ASSUME NEW u \in Uploads, SaveChunks(u) PROVE IInv'
    <2>1. IndexIsExclusive'
      BY <1>0, <1>8
         DEF IInv, TypeOK, SaveChunks, Goto, IndexIsExclusive, HoldsIndex, SameContent,
             RowsMatch
    <2>2. CommitsAreWhole'
      BY <1>0, <1>8 DEF IInv, TypeOK, SaveChunks, Goto, CommitsAreWhole, RowsMatch
    <2>3. StepsMatch'
      BY <1>0, <1>8 DEF IInv, TypeOK, SaveChunks, Goto, StepsMatch, DatabaseSteps, Opens
    <2>4. RowsMatch'
      BY <1>0, <1>8
         DEF IInv, TypeOK, SaveChunks, Goto, RowsMatch, StepsMatch, CommitsAreWhole,
             DatabaseSteps, Opens
    <2>5. LocalDocuments'
      BY <1>0, <1>8
         DEF IInv, TypeOK, SaveChunks, Goto, LocalDocuments, RowsMatch, StepsMatch,
             Stored, SameContent, DatabaseSteps, Opens
    <2>. QED
      BY <1>0, <2>1, <2>2, <2>3, <2>4, <2>5 DEF IInv
  <1>9. ASSUME NEW u \in Uploads, Commit(u) PROVE IInv'
    <2>1. IndexIsExclusive'
      BY <1>0, <1>9
         DEF IInv, TypeOK, Commit, Goto, IndexIsExclusive, HoldsIndex, SameContent
    <2>2. CommitsAreWhole'
      BY <1>0, <1>9 DEF IInv, TypeOK, Commit, Goto, CommitsAreWhole, RowsMatch
    <2>3. StepsMatch'
      BY <1>0, <1>9 DEF IInv, TypeOK, Commit, Goto, StepsMatch, DatabaseSteps, Opens
    <2>4. RowsMatch'
      BY <1>0, <1>9
         DEF IInv, TypeOK, Commit, Goto, RowsMatch, StepsMatch, CommitsAreWhole,
             DatabaseSteps, Opens
    <2>5. LocalDocuments'
      BY <1>0, <1>9
         DEF IInv, TypeOK, Commit, Goto, LocalDocuments, RowsMatch, StepsMatch, Stored,
             SameContent, DatabaseSteps, Opens
    <2>. QED
      BY <1>0, <2>1, <2>2, <2>3, <2>4, <2>5 DEF IInv
  <1>10. ASSUME NEW u \in Uploads, Committed(u) PROVE IInv'
    <2>1. IndexIsExclusive' /\ CommitsAreWhole'
      BY <1>10 DEF IInv, Committed, IndexIsExclusive, HoldsIndex, CommitsAreWhole
    <2>2. StepsMatch'
      BY <1>0, <1>10
         DEF IInv, TypeOK, Committed, Respond, Release, StepsMatch, DatabaseSteps, Opens
    <2>3. RowsMatch'
      BY <1>0, <1>10
         DEF IInv, TypeOK, Committed, Respond, Release, RowsMatch, StepsMatch,
             CommitsAreWhole, DatabaseSteps, Opens
    <2>4. LocalDocuments'
      BY <1>0, <1>10
         DEF IInv, TypeOK, Committed, Respond, Release, LocalDocuments, RowsMatch,
             StepsMatch, Stored, SameContent, DatabaseSteps, Opens
    <2>. QED
      BY <1>0, <2>1, <2>2, <2>3, <2>4 DEF IInv
  <1>11. ASSUME NEW u \in Uploads, Recover(u) PROVE IInv'
    <2>1. IndexIsExclusive' /\ CommitsAreWhole'
      BY <1>11 DEF IInv, Recover, IndexIsExclusive, HoldsIndex, CommitsAreWhole
    <2>2. StepsMatch'
      BY <1>0, <1>11
         DEF IInv, TypeOK, Recover, Goto, SummaryByContentHash, Stored, StepsMatch,
             DatabaseSteps, Opens
    <2>3. RowsMatch'
      BY <1>0, <1>11
         DEF IInv, TypeOK, Recover, Goto, SummaryByContentHash, Stored, RowsMatch,
             StepsMatch, CommitsAreWhole, DatabaseSteps, Opens
    <2>4. LocalDocuments'
      BY <1>0, <1>11
         DEF IInv, TypeOK, Recover, Goto, SummaryByContentHash, Stored, LocalDocuments,
             RowsMatch, StepsMatch, SameContent, DatabaseSteps, Opens
    <2>. QED
      BY <1>0, <2>1, <2>2, <2>3, <2>4 DEF IInv
  <1>12. ASSUME NEW u \in Uploads, RecoverEnd(u) PROVE IInv'
    <2>1. IndexIsExclusive' /\ CommitsAreWhole'
      BY <1>12 DEF IInv, RecoverEnd, IndexIsExclusive, HoldsIndex, CommitsAreWhole
    <2>2. StepsMatch'
      BY <1>0, <1>12
         DEF IInv, TypeOK, RecoverEnd, Respond, Release, StepsMatch, DatabaseSteps,
             Opens
    <2>3. RowsMatch'
      BY <1>0, <1>12
         DEF IInv, TypeOK, RecoverEnd, Respond, Release, RowsMatch, StepsMatch,
             CommitsAreWhole, DatabaseSteps, Opens
    <2>4. LocalDocuments'
      BY <1>0, <1>12
         DEF IInv, TypeOK, RecoverEnd, Respond, Release, LocalDocuments, RowsMatch,
             StepsMatch, Stored, SameContent, DatabaseSteps, Opens
    <2>. QED
      BY <1>0, <2>1, <2>2, <2>3, <2>4 DEF IInv
  <1>13. ASSUME NEW u \in Uploads, Reject(u) PROVE IInv'
    <2>1. IndexIsExclusive' /\ CommitsAreWhole'
      BY <1>13 DEF IInv, Reject, IndexIsExclusive, HoldsIndex, CommitsAreWhole
    <2>2. StepsMatch'
      BY <1>0, <1>13 DEF IInv, TypeOK, Reject, Respond, StepsMatch, DatabaseSteps, Opens
    <2>3. RowsMatch'
      BY <1>0, <1>13
         DEF IInv, TypeOK, Reject, Respond, RowsMatch, StepsMatch, CommitsAreWhole,
             DatabaseSteps, Opens
    <2>4. LocalDocuments'
      BY <1>0, <1>13
         DEF IInv, TypeOK, Reject, Respond, LocalDocuments, RowsMatch, StepsMatch,
             Stored, SameContent, DatabaseSteps, Opens
    <2>. QED
      BY <1>0, <2>1, <2>2, <2>3, <2>4 DEF IInv
  <1>14. ASSUME NEW u \in Uploads, PoolTimeout(u) PROVE IInv'
    <2>1. IndexIsExclusive' /\ CommitsAreWhole'
      BY <1>14 DEF IInv, PoolTimeout, IndexIsExclusive, HoldsIndex, CommitsAreWhole
    <2>2. StepsMatch'
      BY <1>0, <1>14
         DEF IInv, TypeOK, PoolTimeout, Respond, WaitsForConnection, PoolExhausted,
             StatusOf, IsDbOutageError, StepsMatch, DatabaseSteps, Opens
    <2>3. RowsMatch'
      BY <1>0, <1>14
         DEF IInv, TypeOK, PoolTimeout, Respond, WaitsForConnection, PoolExhausted,
             StatusOf, IsDbOutageError, RowsMatch, StepsMatch, CommitsAreWhole,
             DatabaseSteps, Opens
    <2>4. LocalDocuments'
      BY <1>0, <1>14
         DEF IInv, TypeOK, PoolTimeout, Respond, WaitsForConnection, PoolExhausted,
             StatusOf, IsDbOutageError, LocalDocuments, RowsMatch, StepsMatch, Stored,
             SameContent, DatabaseSteps, Opens
    <2>. QED
      BY <1>0, <2>1, <2>2, <2>3, <2>4 DEF IInv
  <1>15. ASSUME NEW u \in Uploads, ConnectFails(u) PROVE IInv'
    <2>1. IndexIsExclusive' /\ CommitsAreWhole'
      BY <1>15 DEF IInv, ConnectFails, IndexIsExclusive, HoldsIndex, CommitsAreWhole
    <2>2. StepsMatch'
      BY <1>0, <1>15
         DEF IInv, TypeOK, ConnectFails, Respond, WaitsForConnection, PoolExhausted,
             StatusOf, IsDbOutageError, StepsMatch, DatabaseSteps, Opens
    <2>3. RowsMatch'
      BY <1>0, <1>15
         DEF IInv, TypeOK, ConnectFails, Respond, WaitsForConnection, PoolExhausted,
             StatusOf, IsDbOutageError, RowsMatch, StepsMatch, CommitsAreWhole,
             DatabaseSteps, Opens
    <2>4. LocalDocuments'
      BY <1>0, <1>15
         DEF IInv, TypeOK, ConnectFails, Respond, WaitsForConnection, PoolExhausted,
             StatusOf, IsDbOutageError, LocalDocuments, RowsMatch, StepsMatch, Stored,
             SameContent, DatabaseSteps, Opens
    <2>. QED
      BY <1>0, <2>1, <2>2, <2>3, <2>4 DEF IInv
  <1>16. ASSUME NEW u \in Uploads, StatementFails(u) PROVE IInv'
    <2>1. IndexIsExclusive' /\ CommitsAreWhole'
      BY <1>16 DEF IInv, StatementFails, IndexIsExclusive, HoldsIndex, CommitsAreWhole
    <2>2. StepsMatch'
      BY <1>0, <1>16
         DEF IInv, TypeOK, StatementFails, Respond, Release, StatusOf, IsDbOutageError,
             DatabaseErrors, StepsMatch, DatabaseSteps, Opens
    <2>3. RowsMatch'
      BY <1>0, <1>16
         DEF IInv, TypeOK, StatementFails, Respond, Release, StatusOf, IsDbOutageError,
             DatabaseErrors, RowsMatch, StepsMatch, CommitsAreWhole, DatabaseSteps,
             Opens
    <2>4. LocalDocuments'
      BY <1>0, <1>16
         DEF IInv, TypeOK, StatementFails, Respond, Release, StatusOf, IsDbOutageError,
             DatabaseErrors, LocalDocuments, RowsMatch, StepsMatch, Stored, SameContent,
             DatabaseSteps, Opens
    <2>. QED
      BY <1>0, <2>1, <2>2, <2>3, <2>4 DEF IInv
  <1>17. ASSUME NEW u \in Uploads, EmbedFails(u) PROVE IInv'
    <2>1. IndexIsExclusive' /\ CommitsAreWhole'
      BY <1>17 DEF IInv, EmbedFails, IndexIsExclusive, HoldsIndex, CommitsAreWhole
    <2>2. StepsMatch'
      BY <1>0, <1>17
         DEF IInv, TypeOK, EmbedFails, Respond, StepsMatch, DatabaseSteps, Opens
    <2>3. RowsMatch'
      BY <1>0, <1>17
         DEF IInv, TypeOK, EmbedFails, Respond, RowsMatch, StepsMatch, CommitsAreWhole,
             DatabaseSteps, Opens
    <2>4. LocalDocuments'
      BY <1>0, <1>17
         DEF IInv, TypeOK, EmbedFails, Respond, LocalDocuments, RowsMatch, StepsMatch,
             Stored, SameContent, DatabaseSteps, Opens
    <2>. QED
      BY <1>0, <2>1, <2>2, <2>3, <2>4 DEF IInv
  <1>18. ASSUME NEW u \in Uploads, FlushFails(u) PROVE IInv'
    <2>1. IndexIsExclusive'
      BY <1>0, <1>18
         DEF IInv, TypeOK, FlushFails, Respond, Release, IndexIsExclusive, HoldsIndex,
             SameContent
    <2>2. CommitsAreWhole'
      BY <1>0, <1>18
         DEF IInv, TypeOK, FlushFails, Respond, Release, CommitsAreWhole, RowsMatch,
             StepsMatch
    <2>3. StepsMatch'
      BY <1>0, <1>18
         DEF IInv, TypeOK, FlushFails, Respond, Release, StepsMatch, DatabaseSteps,
             Opens
    <2>4. RowsMatch'
      BY <1>0, <1>18
         DEF IInv, TypeOK, FlushFails, Respond, Release, RowsMatch, StepsMatch,
             CommitsAreWhole, DatabaseSteps, Opens
    <2>5. LocalDocuments'
      BY <1>0, <1>18
         DEF IInv, TypeOK, FlushFails, Respond, Release, LocalDocuments, RowsMatch,
             StepsMatch, Stored, SameContent, DatabaseSteps, Opens
    <2>. QED
      BY <1>0, <2>1, <2>2, <2>3, <2>4, <2>5 DEF IInv
  <1>19. ASSUME NEW u \in Uploads, ServerCommit(u) PROVE IInv'
    <2>1. IndexIsExclusive'
      BY <1>0, <1>19
         DEF IInv, TypeOK, ServerCommit, IndexIsExclusive, HoldsIndex, SameContent,
             CommitsAreWhole
    <2>2. CommitsAreWhole'
      BY <1>0, <1>19 DEF IInv, TypeOK, ServerCommit, CommitsAreWhole
    <2>3. StepsMatch'
      BY <1>0, <1>19 DEF IInv, TypeOK, ServerCommit, StepsMatch, DatabaseSteps, Opens
    <2>4. RowsMatch'
      BY <1>0, <1>19
         DEF IInv, TypeOK, ServerCommit, RowsMatch, StepsMatch, CommitsAreWhole,
             DatabaseSteps, Opens
    <2>5. LocalDocuments'
      BY <1>0, <1>19
         DEF IInv, TypeOK, ServerCommit, LocalDocuments, RowsMatch, StepsMatch, Stored,
             SameContent, DatabaseSteps, Opens
    <2>. QED
      BY <1>0, <2>1, <2>2, <2>3, <2>4, <2>5 DEF IInv
  <1>20. ASSUME NEW u \in Uploads, ServerAbort(u) PROVE IInv'
    <2>1. IndexIsExclusive'
      BY <1>0, <1>20
         DEF IInv, TypeOK, ServerAbort, IndexIsExclusive, HoldsIndex, SameContent
    <2>2. CommitsAreWhole'
      BY <1>0, <1>20 DEF IInv, TypeOK, ServerAbort, CommitsAreWhole
    <2>3. StepsMatch'
      BY <1>0, <1>20 DEF IInv, TypeOK, ServerAbort, StepsMatch, DatabaseSteps, Opens
    <2>4. RowsMatch'
      BY <1>0, <1>20
         DEF IInv, TypeOK, ServerAbort, RowsMatch, StepsMatch, CommitsAreWhole,
             DatabaseSteps, Opens
    <2>5. LocalDocuments'
      BY <1>0, <1>20
         DEF IInv, TypeOK, ServerAbort, LocalDocuments, RowsMatch, StepsMatch, Stored,
             SameContent, DatabaseSteps, Opens
    <2>. QED
      BY <1>0, <2>1, <2>2, <2>3, <2>4, <2>5 DEF IInv
  <1>21. ASSUME Crash PROVE IInv'
    <2>1. IndexIsExclusive'
      BY <1>0, <1>21
         DEF IInv, TypeOK, Crash, LoseUploads, InFlight, IndexIsExclusive, HoldsIndex,
             SameContent
    <2>2. CommitsAreWhole'
      BY <1>0, <1>21 DEF IInv, TypeOK, Crash, LoseUploads, InFlight, CommitsAreWhole
    <2>3. StepsMatch'
      BY <1>0, <1>21
         DEF IInv, TypeOK, Crash, LoseUploads, InFlight, StepsMatch, DatabaseSteps, Opens
    <2>4. RowsMatch'
      BY <1>0, <1>21
         DEF IInv, TypeOK, Crash, LoseUploads, InFlight, RowsMatch, StepsMatch, CommitsAreWhole,
             DatabaseSteps, Opens
    <2>5. LocalDocuments'
      BY <1>0, <1>21
         DEF IInv, TypeOK, Crash, LoseUploads, InFlight, LocalDocuments, RowsMatch, StepsMatch,
             Stored, SameContent, DatabaseSteps, Opens
    <2>. QED
      BY <1>0, <2>1, <2>2, <2>3, <2>4, <2>5 DEF IInv
  <1>22. CASE UNCHANGED vars
    BY <1>22 DEF IInv, TypeOK, IndexIsExclusive, HoldsIndex, CommitsAreWhole, StepsMatch,
        RowsMatch, LocalDocuments, Stored, vars
  <1>. QED
    BY <1>1, <1>2, <1>3, <1>4, <1>5, <1>6, <1>7, <1>8, <1>9, <1>10, <1>11, <1>12, <1>13,
       <1>14, <1>15, <1>16, <1>17, <1>18, <1>19, <1>20, <1>21, <1>22
       DEF Next, Handler, Failure, Server

\* The pool, the open transactions and the committed rows agree with where
\* each upload is, in every state: what the theorems below follow from.
THEOREM Invariance == Spec => []IInv
  BY InitInv, NextInv, PTL DEF Spec
-----------------------------------------------------------------------------
(* What the invariant gives.                                               *)

\* The properties the model checker runs follow from the invariant.
LEMMA InvImplies ==
    IInv => /\ OneDocumentPerContent /\ DocumentsAreWhole /\ AnswersAreTrue
            /\ RaceIsAlwaysRecovered /\ ConnectionsOnlyInScopes
            /\ NoDefiniteAnswerWhileOpen
  <1> SUFFICES ASSUME IInv
               PROVE  /\ OneDocumentPerContent /\ DocumentsAreWhole /\ AnswersAreTrue
                      /\ RaceIsAlwaysRecovered /\ ConnectionsOnlyInScopes
                      /\ NoDefiniteAnswerWhileOpen
    OBVIOUS
  <1>1. OneDocumentPerContent
    BY DEF IInv, TypeOK, IndexIsExclusive, HoldsIndex, OneDocumentPerContent
  <1>2. DocumentsAreWhole
    BY DEF IInv, CommitsAreWhole, DocumentsAreWhole
  <1>3. AnswersAreTrue
    BY DEF IInv, LocalDocuments, Stored, AnswersAreTrue
  <1>4. RaceIsAlwaysRecovered
    BY DEF IInv, LocalDocuments, RaceIsAlwaysRecovered
  <1>5. ConnectionsOnlyInScopes
    BY DEF IInv, TypeOK, StepsMatch, ConnectionsOnlyInScopes
  <1>6. NoDefiniteAnswerWhileOpen
    BY DEF IInv, TypeOK, StepsMatch, RowsMatch, ServerFailures, DatabaseSteps, Opens,
           NoDefiniteAnswerWhileOpen
  <1>. QED
    BY <1>1, <1>2, <1>3, <1>4, <1>5, <1>6

\* At most one document per content is ever stored (the dedup race, ADR-0005).
THEOREM Idempotent == Spec => []OneDocumentPerContent
  BY Invariance, InvImplies, PTL

\* No reader ever sees a document without its chunks (atomic ingest, ADR-0005).
THEOREM WholeDocuments == Spec => []DocumentsAreWhole
  BY Invariance, InvImplies, PTL

\* A 201 names the caller's own stored document, a 200 another stored document
\* of the same content.
THEOREM TrueAnswers == Spec => []AnswersAreTrue
  BY Invariance, InvImplies, PTL

\* The 409 of ConcurrentIngestionError is unreachable while nothing deletes documents.
THEOREM NoConflict == Spec => []RaceIsAlwaysRecovered
  BY Invariance, InvImplies, PTL

\* The pool is never held across extraction, embedding or an answered request.
THEOREM ShortTransactions == Spec => []ConnectionsOnlyInScopes
  BY Invariance, InvImplies, PTL

\* A definite answer is never contradicted by a transaction resolved after it.
THEOREM DefiniteAnswers == Spec => []NoDefiniteAnswerWhileOpen
  BY Invariance, InvImplies, PTL

\* When every upload of a content succeeds, exactly one of them was told that
\* it created the document, and all of them were given that document.
OneCreatedOthersFound ==
    \A u \in Uploads :
        LET Alike == {v \in Uploads : SameContent(u, v)} IN
            (\A v \in Alike : answer[v] \in {"200", "201"}) =>
                \E w \in Alike :
                    /\ \A v \in Alike : document[v] = w
                    /\ {v \in Alike : answer[v] = "201"} = {w}

\* True answers about unique documents leave room for one creation only.
LEMMA OneCreated ==
    ASSUME OneDocumentPerContent, AnswersAreTrue, TypeOK
    PROVE  OneCreatedOthersFound
  <1> SUFFICES ASSUME NEW u \in Uploads,
                      \A v \in Uploads : SameContent(u, v) => answer[v] \in {"200", "201"}
               PROVE  \E w \in Uploads :
                          /\ SameContent(u, w)
                          /\ \A v \in Uploads : SameContent(u, v) => document[v] = w
                          /\ \A v \in Uploads :
                                 SameContent(u, v) => (answer[v] = "201" <=> v = w)
    BY DEF OneCreatedOthersFound
  <1>1. \A v \in Uploads : SameContent(u, v) =>
            /\ document[v] \in documents /\ SameContent(u, document[v])
            /\ answer[v] = "201" <=> document[v] = v
    BY DEF AnswersAreTrue, SameContent
  <1>2. documents \subseteq Uploads
    BY DEF TypeOK
  <1> DEFINE w == document[u]
  <1>3. w \in documents /\ SameContent(u, w)
    BY <1>1 DEF SameContent
  <1>4. \A v \in Uploads : SameContent(u, v) => document[v] = w
    BY <1>1, <1>2, <1>3 DEF OneDocumentPerContent, SameContent
  <1>5. \A v \in Uploads : SameContent(u, v) => (answer[v] = "201" <=> v = w)
    BY <1>1, <1>4
  <1>. QED
    BY <1>2, <1>3, <1>4, <1>5

\* The uploads of a content, when all succeed, agree on one document that one
\* of them created.
THEOREM OneCreation == Spec => []OneCreatedOthersFound
  BY Invariance, InvImplies, OneCreated, PTL DEF IInv

-----------------------------------------------------------------------------
(* The refinement of IdempotentIngest.                                     *)

\* A step that answers nobody shows nothing in the responses.
LEMMA SilentStep ==
    ASSUME TypeOK, StepsMatch, NEW u \in Uploads, answer' = answer,
           document' \in [Uploads -> Uploads \cup {NoDocument}],
           \A v \in Uploads \ {u} : document'[v] = document[v],
           pc[u] # "done" \/ document' = document
    PROVE  Returned' = Returned
  BY DEF TypeOK, StepsMatch, Returned

\* An answer shows the upload's local document if it is a success.
LEMMA ReplyStep ==
    ASSUME TypeOK, StepsMatch, NEW u \in Uploads, NEW status \in Statuses,
           pc[u] # "done", Respond(u, status), UNCHANGED <<document, documents>>
    PROVE  Promise!Reply(u, status,
               IF status \in {"200", "201"} THEN document[u] ELSE NoDocument)
  BY DEF TypeOK, StepsMatch, Respond, Returned, Promise!Reply

\* Every step is a step of IdempotentIngest or leaves what it shows unchanged.
LEMMA StepSimulation ==
    IInv /\ [Next]_vars => [Promise!ANext]_(Promise!abstractVars)
  <1> SUFFICES ASSUME IInv, [Next]_vars
               PROVE  [Promise!ANext]_(Promise!abstractVars)
    OBVIOUS
  <1> USE DEF database, request
  <1>0. TypeOK /\ TypeOK' /\ StepsMatch
    BY NextType DEF IInv
  <1>1. ASSUME NEW u \in Uploads,
               \/ Receive(u) \/ Extract(u) \/ Acquire(u) \/ Dedup(u) \/ Embed(u)
               \/ SaveDocument(u) \/ SaveChunks(u) \/ Commit(u) \/ Recover(u)
               \/ ServerAbort(u)
        PROVE  UNCHANGED Promise!abstractVars
    <2>1. answer' = answer /\ documents' = documents
      BY <1>1 DEF Receive, Extract, Acquire, Dedup, Embed, SaveDocument, SaveChunks, Commit,
                  Recover, ServerAbort, Goto
    <2>2. /\ \A v \in Uploads \ {u} : document'[v] = document[v]
          /\ pc[u] # "done" \/ document' = document
      BY <1>0, <1>1
         DEF TypeOK, Receive, Extract, Acquire, Dedup, Embed, SaveDocument, SaveChunks, Commit,
             Recover, ServerAbort
    <2>3. document' \in [Uploads -> Uploads \cup {NoDocument}]
      BY <1>0 DEF TypeOK
    <2>. QED
      BY <1>0, <2>1, <2>2, <2>3, SilentStep DEF Promise!abstractVars
  <1>2. ASSUME NEW u \in Uploads, DedupEnd(u) \/ RecoverEnd(u)
        PROVE  [Promise!ANext]_(Promise!abstractVars)
    <2>1. CASE answer' = answer
      <3>1. UNCHANGED <<document, documents>>
        BY <1>2 DEF DedupEnd, RecoverEnd
      <3>. QED
        BY <1>0, <2>1, <3>1 DEF Returned, Promise!abstractVars
    <2>2. CASE answer' # answer
      <3>1. /\ pc[u] # "done" /\ document[u] \in Stored(u) /\ u \notin documents
            /\ Respond(u, "200") /\ UNCHANGED <<document, documents>>
        BY <1>0, <1>2, <2>2, NoDocumentAssumption
           DEF IInv, TypeOK, LocalDocuments, RowsMatch, DedupEnd, RecoverEnd, Goto, Stored
      <3>2. Promise!Reply(u, "200", document[u])
        BY <1>0, <3>1, ReplyStep DEF Statuses
      <3>3. document[u] \in documents \ {u} /\ Promise!SameContent(u, document[u])
        BY <3>1 DEF Stored, SameContent, Promise!SameContent
      <3>. QED
        BY <3>2, <3>3 DEF Promise!ANext, Promise!Existing
    <2>. QED
      BY <2>1, <2>2
  <1>3. ASSUME NEW u \in Uploads, Committed(u) PROVE Promise!ANext
    <2>1. /\ pc[u] # "done" /\ u \in documents /\ document[u] = u
          /\ Respond(u, "201") /\ UNCHANGED <<document, documents>>
      BY <1>0, <1>3 DEF IInv, TypeOK, LocalDocuments, RowsMatch, Committed
    <2>2. Promise!Reply(u, "201", u)
      BY <1>0, <2>1, ReplyStep DEF Statuses
    <2>. QED
      BY <2>1, <2>2 DEF Promise!ANext, Promise!Created
  <1>4. ASSUME NEW u \in Uploads, Reject(u) PROVE Promise!ANext
    <2>1. /\ pc[u] # "done" /\ u \notin documents
          /\ Respond(u, "rejected") /\ UNCHANGED <<document, documents>>
      BY <1>0, <1>4 DEF IInv, RowsMatch, Reject
    <2>2. Promise!Reply(u, "rejected", NoDocument)
      BY <1>0, <2>1, ReplyStep DEF Statuses
    <2>. QED
      BY <2>1, <2>2 DEF Promise!ANext, Promise!Rejected
  <1>5. ASSUME NEW u \in Uploads,
               \/ PoolTimeout(u) \/ ConnectFails(u) \/ StatementFails(u)
               \/ EmbedFails(u) \/ FlushFails(u)
        PROVE  Promise!ANext
    <2>1. PICK status \in {"500", "503"} :
              /\ pc[u] # "done"
              /\ Respond(u, status) /\ UNCHANGED <<document, documents>>
      BY <1>0, <1>5
         DEF TypeOK, StepsMatch, DatabaseSteps, Opens, PoolTimeout, ConnectFails,
             StatementFails, EmbedFails, FlushFails, WaitsForConnection, StatusOf,
             IsDbOutageError
    <2>2. Promise!Reply(u, status, NoDocument)
      BY <1>0, <2>1, ReplyStep DEF Statuses
    <2>. QED
      BY <2>2 DEF Promise!ANext, Promise!Failed
  <1>6. ASSUME NEW u \in Uploads, ServerCommit(u) PROVE Promise!ANext
    <2>1. answer[u] \in Promise!Uncertain
      BY <1>0, <1>6
         DEF IInv, TypeOK, CommitsAreWhole, StepsMatch, RowsMatch, ServerFailures,
             ServerCommit, Promise!Uncertain
    <2>2. \A v \in documents : ~Promise!SameContent(u, v)
      BY <1>0, <1>6
         DEF IInv, TypeOK, CommitsAreWhole, IndexIsExclusive, HoldsIndex, SameContent,
             ServerCommit, Promise!SameContent
    <2>3. documents' = documents \cup {u} /\ UNCHANGED <<answer, Returned>>
      BY <1>6 DEF ServerCommit, Returned
    <2>. QED
      BY <2>1, <2>2, <2>3 DEF Promise!ANext, Promise!Store
  <1>7. ASSUME Crash PROVE Promise!ANext
    <2>1. /\ InFlight \in SUBSET Uploads
          /\ \A u \in InFlight : answer[u] = "none"
          /\ answer' = [u \in Uploads |-> IF u \in InFlight THEN "lost" ELSE answer[u]]
          /\ UNCHANGED <<document, documents>>
      BY <1>0, <1>7 DEF StepsMatch, Crash, LoseUploads, InFlight
    <2>2. Returned' = Returned
      BY <2>1 DEF Returned
    <2>. QED
      BY <2>1, <2>2 DEF Promise!ANext, Promise!Lost
  <1>8. CASE UNCHANGED vars
    BY <1>8 DEF vars, Returned, Promise!abstractVars
  <1>. QED
    BY <1>1, <1>2, <1>3, <1>4, <1>5, <1>6, <1>7, <1>8 DEF Next, Handler, Failure, Server

\* The concurrent system with its failures implements the atomic promise.
THEOREM Refinement == Spec => KeepsPromise
  <1>1. Init => Promise!AInit
    BY DEF Init, Returned, Promise!AInit
  <1>. QED
    BY <1>1, Invariance, StepSimulation, PTL DEF Spec, KeepsPromise, Promise!ASpec
=============================================================================
