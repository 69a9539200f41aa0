------------------------------ MODULE AskQuestion ------------------------------
(***************************************************************************)
(* POST /chat: questions asked concurrently of one process.  The LangGraph *)
(* workflow retrieves, grades, and either refuses or generates; retrieval  *)
(* runs in a short database scope of its own (ADR-0005); generation is an  *)
(* LLM call that pydantic-ai repeats while the output is invalid and that  *)
(* tenacity repeats while the failure is transient.                        *)
(*                                                                         *)
(* A chunk is a model value with a score; what the model's answer tells    *)
(* apart is whether it parses, whether it is blank, and the indices cited. *)
(***************************************************************************)
EXTENDS Integers, Sequences, FiniteSets, SequencesExt, DatabaseOutages

CONSTANTS
    Questions,      \* the requests
    Chunks,         \* the chunks the knowledge base may come to hold
    Score,          \* the RRF score of each chunk
    MinScore,       \* KA_MIN_RELEVANCE_SCORE
    TopK,           \* KA_RETRIEVAL_TOP_K
    PoolSize,       \* connections the pool can hand out
    MaxRetries,     \* KA_LLM_MAX_RETRIES
    OutputRetries,  \* KA_LLM_OUTPUT_RETRIES
    Replies         \* what a model request may end in

ASSUME ScoreAssumption == Score \in [Chunks -> Nat]
ASSUME LimitsAssumption ==
    /\ MinScore \in Nat /\ OutputRetries \in Nat
    /\ {TopK, PoolSize, MaxRetries} \subseteq Nat \ {0}

Transient == {"timeout", "connection", "5xx", "429"}
Permanent == {"4xx", "other"}

\* An output that parses, with an answer and the numbers it cites, one that
\* does not, a response the agent can make nothing of, or a failure of the request.
ASSUME RepliesAssumption ==
    Replies \subseteq
        [outcome : {"payload", "unparseable", "unexpected"} \cup Transient \cup Permanent,
         answer : {"blank", "text"}, indices : Seq(Nat)]

VARIABLES
    library,   \* the chunks stored; uploads add to it (see IngestDocument)
    pc,        \* the step each question is at
    held,      \* the questions holding a pooled connection
    hits,      \* the chunks retrieved
    evidence,  \* the chunks that cleared the bar
    runs,      \* agent runs started: tenacity's attempts
    outputs,   \* model requests made in the current run
    calls,     \* model requests made for the question
    reply,     \* what the last model request ended in
    sources,   \* the chunks the answer cites
    status     \* "none", then an HTTP status, "refusal" for a 200 that refuses,
               \* "rejected" for a 401 or 422, or "lost" to a crash

retrieval == <<held, hits>>
generation == <<runs, outputs, calls, reply>>
vars == <<library, pc, held, hits, evidence, runs, outputs, calls, reply, sources, status>>

Steps == {"idle", "embed", "retrieve", "retrieved", "grade", "run", "request", "reply", "done"}

Statuses == {"200", "refusal", "rejected", "500", "502", "503", "lost"}

NoReply == [outcome |-> "none", answer |-> "blank", indices |-> <<>>]

CallBudget == MaxRetries * (1 + OutputRetries)

Init ==
    /\ library = {}
    /\ pc = [q \in Questions |-> "idle"]
    /\ held = {}
    /\ hits = [q \in Questions |-> <<>>]
    /\ evidence = [q \in Questions |-> <<>>]
    /\ runs = [q \in Questions |-> 0]
    /\ outputs = [q \in Questions |-> 0]
    /\ calls = [q \in Questions |-> 0]
    /\ reply = [q \in Questions |-> NoReply]
    /\ sources = [q \in Questions |-> <<>>]
    /\ status = [q \in Questions |-> "none"]

Goto(q, step) ==
    /\ pc' = [pc EXCEPT ![q] = step]
    /\ UNCHANGED <<sources, status>>

\* What the generator keeps is local to the request.
Forget(q) ==
    /\ runs' = [runs EXCEPT ![q] = 0]
    /\ outputs' = [outputs EXCEPT ![q] = 0]
    /\ calls' = [calls EXCEPT ![q] = 0]
    /\ reply' = [reply EXCEPT ![q] = NoReply]

Finish(q, code) ==
    /\ pc' = [pc EXCEPT ![q] = "done"]
    /\ status' = [status EXCEPT ![q] = code]
    /\ Forget(q)

Respond(q, code) == Finish(q, code) /\ UNCHANGED sources

-----------------------------------------------------------------------------
(* The use case.                                                           *)

Receive(q) ==
    /\ pc[q] = "idle"
    /\ Goto(q, "embed")
    /\ UNCHANGED <<retrieval, evidence, generation>>

\* No or a wrong API key; blank or too long a question; top_k out of range.
Reject(q) ==
    /\ pc[q] = "idle"
    /\ Respond(q, "rejected")
    /\ UNCHANGED <<retrieval, evidence>>

-----------------------------------------------------------------------------
(* Retrieval.  The scope is open but connects at its first statement, which *)
(* comes after the question is embedded.                                    *)

EmbedQuestion(q) ==
    /\ pc[q] = "embed"
    /\ Goto(q, "retrieve")
    /\ UNCHANGED <<retrieval, evidence, generation>>

\* 503: the provider is unreachable after retries.  500: it refuses, or does
\* not answer one vector for one question.
EmbedQuestionFails(q) ==
    /\ pc[q] = "embed"
    /\ \E code \in {"503", "500"} : Respond(q, code)
    /\ UNCHANGED <<retrieval, evidence>>

WaitsForConnection(q) == pc[q] = "retrieve" /\ q \notin held

PoolExhausted == Cardinality(held) >= PoolSize

Acquire(q) ==
    /\ WaitsForConnection(q)
    /\ ~PoolExhausted
    /\ held' = held \cup {q}
    /\ UNCHANGED <<pc, hits, evidence, generation, sources, status>>

\* The pool stays full, or connecting fails.
AcquireFails(q) ==
    /\ WaitsForConnection(q)
    /\ \E exc \in IF PoolExhausted THEN {PoolTimeoutError} ELSE ConnectErrors :
           Respond(q, StatusOf(exc))
    /\ UNCHANGED <<retrieval, evidence>>

\* The elements of S, each once, by their first place in the list s.
InOrderOf(s, S) ==
    {t \in SetToSeqs(S) :
        \A i, j \in DOMAIN t : i < j =>
            \E m \in DOMAIN s : s[m] = t[i] /\ \A n \in 1 .. m : s[n] # t[j]}

\* Best first and at most TopK: what the SQL of HybridSearch returns.
Rankings ==
    {s \in UNION {SetToSeqs(S) : S \in SUBSET library} :
        /\ Len(s) <= TopK
        /\ \A i, j \in DOMAIN s : i < j => Score[s[i]] >= Score[s[j]]}

Retrieve(q) ==
    /\ pc[q] = "retrieve" /\ q \in held
    /\ \E ranking \in Rankings : hits' = [hits EXCEPT ![q] = ranking]
    /\ Goto(q, "retrieved")
    /\ UNCHANGED <<held, evidence, generation>>

\* The statement, or the COMMIT that ends the scope, fails.
RetrieveFails(q) ==
    /\ pc[q] \in {"retrieve", "retrieved"} /\ q \in held
    /\ \E exc \in DatabaseErrors : Respond(q, StatusOf(exc))
    /\ held' = held \ {q}
    /\ UNCHANGED <<hits, evidence>>

\* A plausible slip: the session lives until the answer is generated.
CloseScopeLater(q) ==
    /\ pc[q] = "retrieved"
    /\ Goto(q, "grade")
    /\ UNCHANGED <<retrieval, evidence, generation>>

CloseScope(q) ==
    /\ pc[q] = "retrieved"
    /\ held' = held \ {q}
    /\ Goto(q, "grade")
    /\ UNCHANGED <<hits, evidence, generation>>

-----------------------------------------------------------------------------
(* Grading and the conditional edge.                                        *)

Cleared(q) == {c \in ToSet(hits[q]) : Score[c] >= MinScore}

\* A plausible slip: the evidence is not filtered, only the route is decided by the bar.
GradeKeepsAll(q) ==
    /\ pc[q] = "grade"
    /\ evidence' = [evidence EXCEPT ![q] = hits[q]]
    /\ UNCHANGED retrieval
    /\ \/ Cleared(q) # {} /\ Goto(q, "run") /\ UNCHANGED generation
       \/ Cleared(q) = {} /\ Respond(q, "refusal")

\* A plausible slip: filtered or not, the evidence goes to the model.
GradeAlwaysGenerates(q) ==
    /\ pc[q] = "grade"
    /\ \E relevant \in InOrderOf(hits[q], Cleared(q)) :
           evidence' = [evidence EXCEPT ![q] = relevant]
    /\ Goto(q, "run")
    /\ UNCHANGED <<retrieval, generation>>

Grade(q) ==
    /\ pc[q] = "grade"
    /\ \E relevant \in InOrderOf(hits[q], Cleared(q)) :
           evidence' = [evidence EXCEPT ![q] = relevant]
    /\ UNCHANGED retrieval
    /\ \/ Cleared(q) # {} /\ Goto(q, "run") /\ UNCHANGED generation
       \/ Cleared(q) = {} /\ Respond(q, "refusal")

-----------------------------------------------------------------------------
(* Generation: tenacity around pydantic-ai around the model.                *)

StartRun(q) ==
    /\ pc[q] = "run"
    /\ runs' = [runs EXCEPT ![q] = @ + 1]
    /\ outputs' = [outputs EXCEPT ![q] = 0]
    /\ Goto(q, "request")
    /\ UNCHANGED <<retrieval, evidence, calls, reply>>

Request(q) ==
    /\ pc[q] = "request"
    /\ \E r \in Replies : reply' = [reply EXCEPT ![q] = r]
    /\ outputs' = [outputs EXCEPT ![q] = @ + 1]
    /\ calls' = [calls EXCEPT ![q] = @ + 1]
    /\ Goto(q, "reply")
    /\ UNCHANGED <<retrieval, evidence, runs>>

\* AnswerPayload's schema, then validate_grounding.
Grounded(q) ==
    /\ reply[q].outcome = "payload"
    /\ reply[q].answer # "blank"
    /\ reply[q].indices # <<>>
    /\ \A i \in DOMAIN reply[q].indices : reply[q].indices[i] \in 1 .. Len(evidence[q])

InvalidOutput(q) == reply[q].outcome \in {"payload", "unparseable"} /\ ~Grounded(q)

\* The model is told what was wrong and asked again, in the same run.
RetryOutput(q) ==
    /\ pc[q] = "reply"
    /\ InvalidOutput(q)
    /\ outputs[q] <= OutputRetries
    /\ reply' = [reply EXCEPT ![q] = NoReply]
    /\ Goto(q, "request")
    /\ UNCHANGED <<retrieval, evidence, runs, outputs, calls>>

\* UnexpectedModelBehavior, which the agent raises at once for a response it can
\* make nothing of, becomes InvalidModelOutputError.
OutputExhausted(q) ==
    /\ pc[q] = "reply"
    /\ \/ InvalidOutput(q) /\ outputs[q] > OutputRetries
       \/ reply[q].outcome = "unexpected"
    /\ Respond(q, "502")
    /\ UNCHANGED <<retrieval, evidence>>

IsTransient(outcome) == outcome \in Transient

\* A plausible slip: the attempts of a run that failed on its output are not counted.
RetryRunUncounted(q) ==
    /\ pc[q] = "reply"
    /\ IsTransient(reply[q].outcome)
    /\ runs[q] < MaxRetries \/ outputs[q] > 1
    /\ reply' = [reply EXCEPT ![q] = NoReply]
    /\ Goto(q, "run")
    /\ UNCHANGED <<retrieval, evidence, runs, outputs, calls>>

\* A plausible slip: the whole workflow is retried, retrieval included.
RetryFromTheTop(q) ==
    /\ pc[q] = "reply"
    /\ IsTransient(reply[q].outcome)
    /\ runs[q] < MaxRetries
    /\ reply' = [reply EXCEPT ![q] = NoReply]
    /\ Goto(q, "embed")
    /\ UNCHANGED <<retrieval, evidence, runs, outputs, calls>>

\* The whole run starts again, output retries included.
RetryRun(q) ==
    /\ pc[q] = "reply"
    /\ IsTransient(reply[q].outcome)
    /\ runs[q] < MaxRetries
    /\ reply' = [reply EXCEPT ![q] = NoReply]
    /\ Goto(q, "run")
    /\ UNCHANGED <<retrieval, evidence, runs, outputs, calls>>

\* A plausible slip: the last attempt is neither retried nor raised.
GiveUpTooLate(q) ==
    /\ pc[q] = "reply"
    /\ IsTransient(reply[q].outcome)
    /\ runs[q] > MaxRetries
    /\ Respond(q, "503")
    /\ UNCHANGED <<retrieval, evidence>>

\* GenerationUnavailableError.
GiveUp(q) ==
    /\ pc[q] = "reply"
    /\ IsTransient(reply[q].outcome)
    /\ runs[q] >= MaxRetries
    /\ Respond(q, "503")
    /\ UNCHANGED <<retrieval, evidence>>

FailFast(q) ==
    /\ pc[q] = "reply"
    /\ reply[q].outcome \in Transient \cup Permanent
    /\ ~IsTransient(reply[q].outcome)
    /\ Respond(q, "500")
    /\ UNCHANGED <<retrieval, evidence>>

\* The cited numbers, each once and in the order cited, as chunks.
ResolveSources(q) ==
    {[i \in DOMAIN cited |-> evidence[q][cited[i]]] :
        cited \in InOrderOf(reply[q].indices, ToSet(reply[q].indices))}

Answer(q) ==
    /\ pc[q] = "reply"
    /\ Grounded(q)
    /\ \E resolved \in ResolveSources(q) : sources' = [sources EXCEPT ![q] = resolved]
    /\ Finish(q, "200")
    /\ UNCHANGED <<retrieval, evidence>>

-----------------------------------------------------------------------------
(* Around the questions: the process may die, and uploads add chunks.       *)

InFlight == {q \in Questions : pc[q] \notin {"idle", "done"}}

LoseQuestions ==
    /\ pc' = [q \in Questions |-> IF q \in InFlight THEN "done" ELSE pc[q]]
    /\ status' = [q \in Questions |-> IF q \in InFlight THEN "lost" ELSE status[q]]
    /\ held' = {}
    /\ runs' = [q \in Questions |-> 0]
    /\ outputs' = [q \in Questions |-> 0]
    /\ calls' = [q \in Questions |-> 0]
    /\ reply' = [q \in Questions |-> NoReply]
    /\ UNCHANGED <<hits, evidence, sources>>

Crash == InFlight # {} /\ LoseQuestions /\ UNCHANGED library

Ingested(c) ==
    /\ library' = library \cup {c}
    /\ UNCHANGED <<pc, retrieval, evidence, generation, sources, status>>

-----------------------------------------------------------------------------
Workflow(q) ==
    \/ EmbedQuestion(q) \/ Acquire(q) \/ Retrieve(q) \/ CloseScope(q) \/ Grade(q)
    \/ StartRun(q) \/ Request(q) \/ RetryOutput(q) \/ OutputExhausted(q)
    \/ RetryRun(q) \/ GiveUp(q) \/ FailFast(q) \/ Answer(q)

Failure(q) ==
    Reject(q) \/ EmbedQuestionFails(q) \/ AcquireFails(q) \/ RetrieveFails(q)

\* Questions read the library and never change it.
Ask(q) == Receive(q) \/ Workflow(q) \/ Failure(q)

Next ==
    \/ \E q \in Questions : Ask(q) /\ UNCHANGED library
    \/ \E c \in Chunks \ library : Ingested(c)
    \/ Crash

Spec == Init /\ [][Next]_vars

\* Every call the workflow awaits is bounded by a timeout, and the event loop
\* runs every request that is ready.
FairSpec ==
    Spec /\ \A q \in Questions : WF_vars(Workflow(q) /\ UNCHANGED library)

-----------------------------------------------------------------------------
\* The type invariant.
TypeOK ==
    /\ library \subseteq Chunks
    /\ pc \in [Questions -> Steps]
    /\ held \subseteq Questions
    /\ hits \in [Questions -> Seq(Chunks)] /\ evidence \in [Questions -> Seq(Chunks)]
    /\ runs \in [Questions -> Nat] /\ outputs \in [Questions -> Nat]
    /\ calls \in [Questions -> Nat]
    /\ reply \in [Questions -> Replies \cup {NoReply}]
    /\ sources \in [Questions -> Seq(Chunks)]
    /\ status \in [Questions -> Statuses \cup {"none"}]

\* An affirmative answer cites at least one chunk, each one once, and only
\* chunks that were retrieved for this question and cleared the bar; nothing
\* else carries sources.
AnswersAreGrounded ==
    \A q \in Questions :
        /\ status[q] = "200" <=> sources[q] # <<>>
        /\ ToSet(sources[q]) \subseteq Cleared(q)
        /\ IsInjective(sources[q])

\* The assistant refuses exactly when no chunk retrieved clears the bar, and
\* then spends no model call; with evidence it never refuses.
RefusesOnlyWithoutEvidence ==
    \A q \in Questions :
        /\ status[q] = "refusal" => Cleared(q) = {}
        /\ calls[q] > 0 => Cleared(q) # {}

\* ADR-0005: a question holds a connection while its SQL runs, never while a
\* provider is called and never after it is answered.
NoConnectionAcrossModelCalls ==
    \A q \in Questions : q \in held => pc[q] \in {"retrieve", "retrieved"}

\* The two retry layers multiply and no more: a question costs at most
\* MaxRetries runs of 1 + OutputRetries requests.
CallsAreBounded == \A q \in Questions : calls[q] <= CallBudget

\* Every question received is answered: none waits for ever on the pool, and
\* no sequence of model replies keeps one retrying.
EveryQuestionEnds ==
    \A q \in Questions : pc[q] = "embed" ~> pc[q] = "done"

\* How a question stands, for the abstract specification.
Outcome ==
    [q \in Questions |->
        CASE status[q] = "none" -> "waiting"
          [] status[q] = "200" -> "answered"
          [] status[q] = "refusal" -> "refused"
          [] OTHER -> "failed"]

Promise == INSTANCE GroundedAnswerer WITH
    Relevant <- {c \in Chunks : Score[c] >= MinScore},
    outcome <- Outcome,
    evidence <- [q \in Questions |-> ToSet(evidence[q])],
    sources <- [q \in Questions |-> ToSet(sources[q])]

\* The retrying, failing workflow does what GroundedAnswerer promises.
AnswersAsPromised == Promise!ASpec
=============================================================================
