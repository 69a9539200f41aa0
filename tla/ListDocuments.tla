---------------------------- MODULE ListDocuments ----------------------------
(***************************************************************************)
(* A client walks GET /documents page by page while uploads commit.  A     *)
(* request holds one session, READ COMMITTED: the page and the total are    *)
(* two statements and see two snapshots.  A document gets its created_at in *)
(* the process that ingests it, before its transaction commits, so it may  *)
(* appear anywhere in the order and not only on top.  The API deletes no    *)
(* document.  The client is external: it asks for consecutive pages and    *)
(* stops at the total, or asks again when a request fails.                 *)
(***************************************************************************)
EXTENDS Integers, FiniteSets, Sequences

CONSTANTS
  Documents,   \* ids of the documents that may be stored; ids are ordered
  Instants,    \* values created_at can have; several documents may share one
  PageSizes,   \* values of the limit parameter
  MaxFailures  \* bound: requests that fail during the walk

ASSUME ListAssumption ==
  /\ Documents \subseteq Nat /\ IsFiniteSet(Documents)
  /\ Instants \subseteq Nat /\ PageSizes \subseteq Nat \ {0}
  /\ MaxFailures \in Nat

VARIABLES
  created,   \* created_at of each committed document
  request,   \* 0: none open; otherwise the step the open request is at
  read,      \* what the open request has read: items and total
  limit,     \* the page size of the walk
  offset,    \* items the client has skipped so far
  walked,    \* what the walk has returned so far, page after page
  total,     \* the total of the last response, or Unknown
  atStart,   \* documents that were committed when the walk began
  failures   \* requests that have failed

vars == <<created, request, read, limit, offset, walked, total, atStart, failures>>
client == <<limit, offset, walked, total, atStart>>

Unknown == -1
Committed == DOMAIN created

Nothing == [items |-> <<>>, total |-> Unknown]

Init == /\ \E S \in SUBSET Documents : created \in [S -> Instants]
        /\ atStart = Committed
        /\ request = 0 /\ read = Nothing
        /\ limit \in PageSizes /\ offset = 0
        /\ walked = <<>> /\ total = Unknown
        /\ failures = 0

-----------------------------------------------------------------------------
\* The commit of an upload; created_at was taken some time before.
Commit(d) ==
  /\ d \notin Committed
  /\ \E at \in Instants :
       created' = [e \in Committed \cup {d} |-> IF e = d THEN at ELSE created[e]]
  /\ UNCHANGED <<request, read, client, failures>>

\* The walk has what the last total promised.
WalkIsOver == total # Unknown /\ offset >= total

\* The client asks for the next page.
Ask ==
  /\ request = 0 /\ ~WalkIsOver
  /\ request' = 1
  /\ UNCHANGED <<created, read, client, failures>>

\* A plausible slip: the order without the id tiebreaker.
NewerOnly(d, e) == created[d] > created[e]

\* ORDER BY created_at DESC, id
Newer(d, e) == \/ created[d] > created[e]
               \/ created[d] = created[e] /\ d < e

\* The orders PostgreSQL may list the documents in; Newer leaves it one.
Listings ==
  {s \in [1..Cardinality(Committed) -> Committed] :
     \A i, j \in DOMAIN s : i < j => s[i] # s[j] /\ ~Newer(s[j], s[i])}

\* The rows of s after the first skip ones, at most limit of them.
Rows(s, skip) ==
  SubSeq(s, skip + 1, IF skip + limit < Len(s) THEN skip + limit ELSE Len(s))

\* A plausible slip: an offset that starts one row early.
PageEarly(s) == Rows(s, IF offset = 0 THEN 0 ELSE offset - 1)

\* LIMIT and OFFSET
Page(s) == Rows(s, offset)

\* A plausible slip: the total is read before the page.
CountFirst == <<"count", "list">>

\* ListDocuments.execute: list_summaries, then count.
Statements == <<"list", "count">>

\* The next statement of the open request, on a snapshot of its own.
Execute ==
  /\ request \in DOMAIN Statements
  /\ IF Statements[request] = "list"
       THEN \E s \in Listings : read' = [read EXCEPT !.items = Page(s)]
       ELSE read' = [read EXCEPT !.total = Cardinality(Committed)]
  /\ request' = request + 1
  /\ UNCHANGED <<created, client, failures>>

\* The response, and the client's next offset.
Respond ==
  /\ request = 3
  /\ walked' = walked \o read.items
  /\ total' = read.total
  /\ offset' = offset + limit
  /\ request' = 0 /\ read' = Nothing
  /\ UNCHANGED <<created, limit, atStart, failures>>

\* The database is away at a statement or at the commit of the session: an
\* error response, and the client keeps its place.
Unavailable ==
  /\ request # 0 /\ failures < MaxFailures
  /\ request' = 0 /\ read' = Nothing
  /\ failures' = failures + 1
  /\ UNCHANGED <<created, client>>

Next == \/ \E d \in Documents : Commit(d)
        \/ Ask \/ Execute \/ Respond \/ Unavailable

Spec == Init /\ [][Next]_vars

-----------------------------------------------------------------------------
(* Properties.                                                             *)

Returned == {walked[i] : i \in DOMAIN walked}

\* Committed documents have a created_at and never disappear; a request reads
\* its page before its total; what the client collected are documents.
TypeOK ==
  /\ Committed \subseteq Documents
  /\ \A d \in Committed : created[d] \in Instants
  /\ atStart \subseteq Committed
  /\ request \in 0..3 /\ limit \in PageSizes /\ offset \in Nat
  /\ walked \in Seq(Committed) /\ total \in Nat \cup {Unknown}
  /\ read \in [items : Seq(Committed), total : Nat \cup {Unknown}]
  /\ Len(read.items) <= limit
  /\ failures \in 0..MaxFailures

\* A walk that ends has returned every document there was when it began,
\* whatever was committed between its pages and between the two statements
\* of a page.
NoDocumentIsSkipped == WalkIsOver => atStart \subseteq Returned

\* A document comes twice in a walk only because another one was committed
\* ahead of it: there are no more repeats than commits during the walk.
RepeatsAreCommits ==
  Len(walked) - Cardinality(Returned) <= Cardinality(Committed \ atStart)

\* The total of a response never contradicts its page: it counts at least the
\* items up to the end of a page that has any.
TotalCoversPage ==
  request = 3 /\ read.items # <<>> => read.total >= offset + Len(read.items)
=============================================================================
