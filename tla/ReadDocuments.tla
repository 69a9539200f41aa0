----------------------------- MODULE ReadDocuments -----------------------------
(***************************************************************************)
(* GET /documents, GET /documents/{id} and GET /health, as they pass       *)
(* through the HTTP stack: the correlation middleware, the API key, the     *)
(* request-scoped session, the use case and the error envelope.            *)
(*                                                                         *)
(* The session of the two document routes is a dependency with yield: an   *)
(* error unwinds it before the error is answered, but after a success its  *)
(* commit and its close come once the response has been sent.  The probe    *)
(* opens a session of its own and closes it before it answers.              *)
(*                                                                         *)
(* The order and the paging of a list are ListDocuments' subject: here a    *)
(* page holds every document.  Service shares the pool and the documents    *)
(* with the uploads and the questions.                                      *)
(***************************************************************************)
EXTENDS FiniteSets, Naturals, DatabaseOutages

CONSTANTS
    Reads,      \* the requests
    Documents,  \* the document ids a client may ask for
    PoolSize    \* connections the pool can hand out

VARIABLES
    documents,  \* the documents committed; uploads add to them
    held,       \* the requests holding a pooled connection
    pc,         \* the step each request is at
    asked,      \* "list", "health" or the id asked for; "nothing" before
    found,      \* the documents its statements returned
    answer      \* the HTTP status sent; "none" until then

local == <<pc, asked, found, answer>>
vars == <<documents, held, pc, asked, found, answer>>

Steps == {"idle", "first", "second", "respond", "exit", "done"}
Statuses == {"200", "404", "500", "503", "rejected", "lost"}

Init ==
    /\ documents = {}
    /\ held = {}
    /\ pc = [r \in Reads |-> "idle"]
    /\ asked = [r \in Reads |-> "nothing"]
    /\ found = [r \in Reads |-> {}]
    /\ answer = [r \in Reads |-> "none"]

Goto(r, step) == pc' = [pc EXCEPT ![r] = step]

Send(r, status) == answer' = [answer EXCEPT ![r] = status]

Release(r) == held' = held \ {r}

-----------------------------------------------------------------------------
\* The key and the parameters are in order; no session is touched before.
Receive(r) ==
    /\ pc[r] = "idle"
    /\ \E what \in {"list", "health"} \cup Documents : asked' = [asked EXCEPT ![r] = what]
    /\ Goto(r, "first")
    /\ UNCHANGED <<documents, held, found, answer>>

\* 401: no or a wrong API key.  422: a malformed id, a limit out of range.
Reject(r) ==
    /\ pc[r] = "idle"
    /\ Send(r, "rejected") /\ Goto(r, "done")
    /\ UNCHANGED <<documents, held, asked, found>>

WaitsForConnection(r) == pc[r] = "first" /\ r \notin held

PoolExhausted == Cardinality(held) >= PoolSize

\* A session connects at its first statement.
Acquire(r) ==
    /\ WaitsForConnection(r)
    /\ ~PoolExhausted
    /\ held' = held \cup {r}
    /\ UNCHANGED <<documents, local>>

\* The probe reports every failure as 503.  The routes answer 503 for an
\* outage; anything else survives every handler and becomes the middleware's 500.
FailedWith(r, exc) == IF asked[r] = "health" THEN "503" ELSE StatusOf(exc)

AcquireFails(r) ==
    /\ WaitsForConnection(r)
    /\ \E exc \in IF PoolExhausted THEN {PoolTimeoutError} ELSE ConnectErrors :
           Send(r, FailedWith(r, exc))
    /\ Goto(r, "done")
    /\ UNCHANGED <<documents, held, asked, found>>

\* A plausible slip: the failing session keeps its connection.
StatementFailsLeaks(r) ==
    /\ pc[r] \in {"first", "second"} /\ r \in held
    /\ \E exc \in DatabaseErrors : Send(r, FailedWith(r, exc))
    /\ Goto(r, "done")
    /\ UNCHANGED <<documents, held, asked, found>>

StatementFails(r) ==
    /\ pc[r] \in {"first", "second"} /\ r \in held
    /\ \E exc \in DatabaseErrors : Send(r, FailedWith(r, exc))
    /\ Goto(r, "done")
    /\ Release(r)
    /\ UNCHANGED <<documents, asked, found>>

-----------------------------------------------------------------------------
\* READ COMMITTED: each statement sees what is committed when it runs.
List(r) ==
    /\ pc[r] = "first" /\ r \in held /\ asked[r] = "list"
    /\ found' = [found EXCEPT ![r] = documents]
    /\ Goto(r, "second")
    /\ UNCHANGED <<documents, held, asked, answer>>

Count(r) ==
    /\ pc[r] = "second"
    /\ Goto(r, "respond")
    /\ UNCHANGED <<documents, held, asked, found, answer>>

Get(r) ==
    /\ pc[r] = "first" /\ r \in held /\ asked[r] \in Documents
    /\ found' = [found EXCEPT ![r] = {asked[r]} \cap documents]
    /\ Goto(r, "respond")
    /\ UNCHANGED <<documents, held, asked, answer>>

\* DocumentNotFoundError rolls the session back and closes it, then is answered.
NotFound(r) ==
    /\ pc[r] = "respond" /\ asked[r] \in Documents /\ found[r] = {}
    /\ Release(r)
    /\ Send(r, "404") /\ Goto(r, "done")
    /\ UNCHANGED <<documents, asked, found>>

\* The response is sent with the session still open.
Respond(r) ==
    /\ pc[r] = "respond" /\ (asked[r] = "list" \/ found[r] # {})
    /\ Send(r, "200") /\ Goto(r, "exit")
    /\ UNCHANGED <<documents, held, asked, found>>

\* The COMMIT of a transaction that only read: whether it fails, nobody sees.
Exit(r) ==
    /\ pc[r] = "exit"
    /\ Release(r)
    /\ Goto(r, "done")
    /\ UNCHANGED <<documents, asked, found, answer>>

Probe(r) ==
    /\ pc[r] = "first" /\ r \in held /\ asked[r] = "health"
    /\ Release(r)
    /\ Send(r, "200") /\ Goto(r, "done")
    /\ UNCHANGED <<documents, asked, found>>

-----------------------------------------------------------------------------
InFlight == {r \in Reads : pc[r] \notin {"idle", "done"}}

\* The process dies; a response that was sent stays sent.
LoseReads ==
    /\ pc' = [r \in Reads |-> IF r \in InFlight THEN "done" ELSE pc[r]]
    /\ answer' = [r \in Reads |->
           IF r \in InFlight /\ answer[r] = "none" THEN "lost" ELSE answer[r]]
    /\ held' = {}
    /\ UNCHANGED <<documents, asked, found>>

Handler(r) ==
    \/ Acquire(r) \/ List(r) \/ Count(r) \/ Get(r) \/ NotFound(r) \/ Respond(r)
    \/ Exit(r) \/ Probe(r)

Failure(r) == Reject(r) \/ AcquireFails(r) \/ StatementFails(r)

Read(r) == Receive(r) \/ Handler(r) \/ Failure(r)

-----------------------------------------------------------------------------
\* A connection is taken for the first statement and kept until the session
\* is unwound, which for a success is after the answer.
ConnectionsOnlyInSessions ==
    \A r \in Reads : r \in held => pc[r] \in {"first", "second", "respond", "exit"}
=============================================================================
