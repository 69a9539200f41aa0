----------------------------- MODULE EmbedBatches -----------------------------
(***************************************************************************)
(* Embedding the chunks of one upload: the batch loop of IngestDocument    *)
(* (_embed_in_batches), the provider adapters (Ollama and OpenAI) with     *)
(* their retries, and the embedding service they call, which may be slow,  *)
(* unreachable, misconfigured, or answer with too few or too many vectors, *)
(* vectors of the wrong size, or items out of order.                       *)
(*                                                                         *)
(* A text is its position in the upload and a vector names the text it     *)
(* embeds, so that a vector stored beside the wrong chunk shows.           *)
(***************************************************************************)
EXTENDS Integers, Sequences, FiniteSets, SequencesExt

CONSTANTS
    TextCounts,    \* the numbers of chunks an upload may have
    BatchSize,     \* KA_EMBEDDING_BATCH_SIZE
    MaxRetries     \* attempts the adapters make per batch

ASSUME TextCountsAssumption == TextCounts \subseteq Nat
ASSUME BatchSizeAssumption == BatchSize \in Nat \ {0}
ASSUME MaxRetriesAssumption == MaxRetries \in Nat \ {0}

VARIABLES
    pc,          \* "batch", "call", "reply", "done" or "failed"
    provider,    \* the adapter in use, never assigned
    texts,       \* how many texts there are, never assigned
    start,       \* the texts before the current batch
    attempts,    \* calls made for the current batch
    log,         \* the calls made for the upload: for which batch, and the outcome
    reply,       \* what the last call ended in
    embeddings,  \* the vectors accepted so far
    status       \* the HTTP status the failure becomes

vars == <<pc, provider, texts, start, attempts, log, reply, embeddings, status>>

\* The failures of a call, as the adapters' retry predicate classifies them.
Transient == {"timeout", "connection", "5xx", "429"}
Permanent == {"4xx", "malformed"}

\* Dimensions of a vector, against the configured one.
Dimensions == {"configured", "other", "empty"}

NoReply == [outcome |-> "none", data |-> <<>>]

CallsPerUpload(n) == MaxRetries * ((n + BatchSize - 1) \div BatchSize)

Init ==
    /\ pc = "batch"
    /\ provider \in {"ollama", "openai"}
    /\ texts \in TextCounts
    /\ start = 0
    /\ attempts = 0
    /\ log = <<>>
    /\ reply = NoReply
    /\ embeddings = <<>>
    /\ status = "none"

\* texts[start : start + batch_size]
Batch ==
    [i \in 1 .. IF start + BatchSize <= texts THEN BatchSize ELSE texts - start |-> start + i]

NextBatch ==
    /\ pc = "batch"
    /\ pc' = IF start < texts THEN "call" ELSE "done"
    /\ attempts' = 0
    /\ UNCHANGED <<provider, texts, start, log, reply, embeddings, status>>

-----------------------------------------------------------------------------
(* The service.  An item is the index of a text in the batch and a vector; *)
(* index 0 is a vector too many.                                           *)

Items(answered, odd, dimension) ==
    {[index |-> i, text |-> IF i = 0 THEN 0 ELSE Batch[i],
      dimension |-> IF i = odd THEN dimension ELSE "configured"] : i \in answered}

InOrder(items) ==
    \A i, j \in DOMAIN items : i < j => items[i].index < items[j].index

\* The service answers for any of the inputs, or with one vector too many, one
\* vector possibly of a wrong dimension; Ollama in the order of the inputs,
\* OpenAI in any order.  It does not leave one out and make another up.
Answers ==
    LET Inputs == DOMAIN Batch
    IN  UNION {{[outcome |-> "ok", data |-> s] :
                   s \in {t \in SetToSeqs(Items(answered, odd, dimension)) :
                              provider = "ollama" => InOrder(t)}} :
               answered \in (SUBSET Inputs) \cup {Inputs \cup {0}},
               odd \in Inputs, dimension \in Dimensions}

Call ==
    /\ pc = "call"
    /\ reply' \in Answers \cup [outcome : Transient \cup Permanent, data : {<<>>}]
    /\ attempts' = attempts + 1
    /\ log' = Append(log, [start |-> start, outcome |-> reply'.outcome])
    /\ pc' = "reply"
    /\ UNCHANGED <<provider, texts, start, embeddings, status>>

-----------------------------------------------------------------------------
(* The adapter.                                                            *)

\* A plausible slip: every 4xx is permanent.
IsTransientOnServer(outcome) == outcome \in Transient \ {"429"}

IsTransient(outcome) == outcome \in Transient

Retry ==
    /\ pc = "reply"
    /\ IsTransient(reply.outcome)
    /\ attempts < MaxRetries
    /\ pc' = "call"
    /\ UNCHANGED <<provider, texts, start, attempts, log, reply, embeddings, status>>

Fail(code) ==
    /\ pc' = "failed"
    /\ status' = code
    /\ UNCHANGED <<provider, texts, start, attempts, log, reply, embeddings>>

\* EmbeddingProviderUnavailableError
GiveUp ==
    /\ pc = "reply"
    /\ IsTransient(reply.outcome)
    /\ attempts = MaxRetries
    /\ Fail("503")

\* The error propagates as it is.
FailFast ==
    /\ pc = "reply"
    /\ reply.outcome # "ok" /\ ~IsTransient(reply.outcome)
    /\ Fail("500")

\* A plausible slip: the order the service answered in.
VectorsAsAnswered(data) ==
    [i \in DOMAIN data |-> [text |-> data[i].text, dimension |-> data[i].dimension]]

\* The k-th of the items sorted by index is the one after k - 1 others.
SortedByIndex(data) ==
    [k \in DOMAIN data |->
        CHOOSE x \in ToSet(data) :
            Cardinality({y \in ToSet(data) : y.index < x.index}) = k - 1]

\* Ollama's vectors come as they are, OpenAI's items are sorted by index.
Vectors(data) ==
    LET ordered == IF provider = "openai" THEN SortedByIndex(data) ELSE data
    IN  [i \in DOMAIN ordered |-> [text |-> ordered[i].text, dimension |-> ordered[i].dimension]]

-----------------------------------------------------------------------------
(* The use case.                                                           *)

\* EmbeddingBatchCardinalityError, EmbeddingDimensionMismatchError, and the
\* ValueError of an empty EmbeddingVector.
Acceptable(vectors) ==
    /\ Len(vectors) = Len(Batch)
    /\ \A i \in DOMAIN vectors : vectors[i].dimension = "configured"

Accept ==
    /\ pc = "reply" /\ reply.outcome = "ok"
    /\ Acceptable(Vectors(reply.data))
    /\ embeddings' = embeddings \o Vectors(reply.data)
    /\ start' = start + BatchSize
    /\ pc' = "batch"
    /\ UNCHANGED <<provider, texts, attempts, log, reply, status>>

Refuse ==
    /\ pc = "reply" /\ reply.outcome = "ok"
    /\ ~Acceptable(Vectors(reply.data))
    /\ Fail("500")

Next == NextBatch \/ Call \/ Retry \/ GiveUp \/ FailFast \/ Accept \/ Refuse

Spec == Init /\ [][Next]_vars

-----------------------------------------------------------------------------
\* The type invariant.
TypeOK ==
    /\ pc \in {"batch", "call", "reply", "done", "failed"}
    /\ provider \in {"ollama", "openai"}
    /\ texts \in TextCounts
    /\ start \in Nat /\ attempts \in 0 .. MaxRetries
    /\ log \in Seq([start : Nat, outcome : {"ok"} \cup Transient \cup Permanent])
    /\ reply.outcome \in {"none", "ok"} \cup Transient \cup Permanent
    /\ embeddings \in Seq([text : 1 .. texts, dimension : {"configured"}])
    /\ status \in {"none", "500", "503"}

\* embeddings[i] is the vector of chunk i, of the configured dimension, however
\* the service ordered, dropped or padded its answers and whatever was retried.
EmbeddingsMatchTexts ==
    /\ \A i \in DOMAIN embeddings :
           embeddings[i] = [text |-> i, dimension |-> "configured"]
    /\ pc = "done" => Len(embeddings) = texts

\* Every call of an upload has its reason.  A transient failure is followed by
\* a call for the same batch, an accepted answer by one for the next batch, and
\* anything else by no call at all; no batch is asked for more than MaxRetries
\* times.  The upload fails with 503 exactly when MaxRetries calls in a row, all
\* for one batch, failed transiently, with 500 after any other failure at
\* once; it succeeds only after the last batch was answered; and it costs at
\* most MaxRetries calls per batch.
CallsAreAccountedFor ==
    /\ log # <<>> => log[1].start = 0
    /\ \A i \in 1 .. Len(log) - 1 :
           \/ log[i].outcome \in Transient /\ log[i + 1].start = log[i].start
           \/ log[i].outcome = "ok" /\ log[i + 1].start = log[i].start + BatchSize
    /\ \A i \in DOMAIN log : i > MaxRetries => log[i - MaxRetries].start # log[i].start
    /\ pc = "failed" =>
           \/ /\ status = "503" /\ Len(log) >= MaxRetries
              /\ \A i \in Len(log) - MaxRetries + 1 .. Len(log) :
                     log[i] \in [start : {start}, outcome : Transient]
           \/ status = "500" /\ log # <<>> /\ log[Len(log)].outcome \notin Transient
    /\ pc = "done" /\ log # <<>> =>
           log[Len(log)].outcome = "ok" /\ log[Len(log)].start + BatchSize >= texts
    /\ pc = "done" /\ log = <<>> => texts = 0
    /\ Len(log) <= CallsPerUpload(texts)
=============================================================================
