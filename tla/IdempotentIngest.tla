---------------------------- MODULE IdempotentIngest ----------------------------
(***************************************************************************)
(* What POST /documents promises, without saying how: uploads of the same  *)
(* content share one stored document.  A document becomes visible in one   *)
(* step; an upload is answered 201 only once its own document is stored,   *)
(* and 200 only with a stored document of the same content.  An answer     *)
(* that reports a server-side failure promises nothing either way: the     *)
(* document may still turn out to be stored.  IngestDocument implements    *)
(* this specification.                                                     *)
(***************************************************************************)
CONSTANTS
    Uploads,     \* the upload requests; each mints its own document id
    Contents,    \* the distinct contents (SHA-256 of the extracted text)
    ContentOf,   \* the content each upload carries
    NoDocument   \* "no document": the value of a response without a body

VARIABLES
    documents,   \* the uploads whose document is stored
    answer,      \* the status each upload was answered with
    returned     \* the document each answer carries

abstractVars == <<documents, answer, returned>>

SameContent(u, v) == ContentOf[u] = ContentOf[v]

\* Answers after which the client cannot tell whether its document is stored.
Uncertain == {"none", "500", "503", "lost"}

AInit ==
    /\ documents = {}
    /\ answer = [u \in Uploads |-> "none"]
    /\ returned = [u \in Uploads |-> NoDocument]

Reply(u, status, document) ==
    /\ answer[u] = "none"
    /\ answer' = [answer EXCEPT ![u] = status]
    /\ returned' = [returned EXCEPT ![u] = document]
    /\ UNCHANGED documents

\* The document of u becomes visible, whole, unless its content is stored already.
Store(u) ==
    /\ answer[u] \in Uncertain
    /\ \A v \in documents : ~SameContent(u, v)
    /\ documents' = documents \cup {u}
    /\ UNCHANGED <<answer, returned>>

Created(u) == u \in documents /\ Reply(u, "201", u)

Existing(u) ==
    \E v \in documents \ {u} : SameContent(u, v) /\ Reply(u, "200", v)

Rejected(u) == u \notin documents /\ Reply(u, "rejected", NoDocument)

Failed(u) ==
    \E status \in {"500", "503", "lost"} : Reply(u, status, NoDocument)

\* A crash of the server loses every request it was serving.
Lost ==
    \E S \in SUBSET Uploads :
        /\ \A u \in S : answer[u] = "none"
        /\ answer' = [u \in Uploads |-> IF u \in S THEN "lost" ELSE answer[u]]
        /\ UNCHANGED <<documents, returned>>

ANext ==
    \/ \E u \in Uploads :
           Store(u) \/ Created(u) \/ Existing(u) \/ Rejected(u) \/ Failed(u)
    \/ Lost

ASpec == AInit /\ [][ANext]_abstractVars
=============================================================================
