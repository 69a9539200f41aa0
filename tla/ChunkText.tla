------------------------------- MODULE ChunkText -------------------------------
(***************************************************************************)
(* knowledge_base/domain/chunking.py: chunk_text as the loop it is, one    *)
(* step per iteration.  A text is a sequence of stripped, non-empty        *)
(* paragraphs and a paragraph a sequence of characters; what the algorithm *)
(* can tell apart is how long a string is and whether it is blank, so a    *)
(* character is an integer: k > 0 the k-th visible one, -k a blank at      *)
(* position k, and 0 a newline that the algorithm itself inserts.          *)
(***************************************************************************)
EXTENDS Integers, Sequences

CONSTANTS
    Texts,       \* the texts to chunk
    Parameters   \* the pairs <<max_chars, overlap_chars>> to chunk them with

\* What splitting at empty lines and stripping make of a string; no two of its
\* characters are at one position.
Stripped(t) ==
    /\ t \in Seq(Seq(Int))
    /\ \A p \in DOMAIN t : t[p] # <<>> /\ t[p][1] > 0 /\ t[p][Len(t[p])] > 0
    /\ \A p, q \in DOMAIN t : \A i \in DOMAIN t[p], j \in DOMAIN t[q] :
           /\ t[p][i] # 0
           /\ t[p][i] = t[q][j] => p = q /\ i = j

ASSUME TextsAssumption == \A t \in Texts : Stripped(t)
ASSUME ParametersAssumption == Parameters \subseteq Int \X Int

VARIABLES
    pc,             \* "start", "paragraphs", "sliver", "wrap", "done" or "value_error"
    text,           \* the text, never assigned
    max_chars,      \* the parameters, never assigned
    overlap_chars,
    paragraphs,     \* the paragraphs still to read
    current,        \* the chunk being built
    chunks          \* the chunks built so far

input == <<text, max_chars, overlap_chars>>
vars == <<pc, text, max_chars, overlap_chars, paragraphs, current, chunks>>

SliverFraction == 4
SliverFloor == max_chars \div SliverFraction

Join(s, t) == s \o <<0, 0>> \o t

Blank(s) == \A i \in DOMAIN s : s[i] <= 0

\* A plausible slip: one character too many.
CarriedOneMore(s) ==
    IF overlap_chars + 1 >= Len(s) THEN s
    ELSE SubSeq(s, Len(s) - overlap_chars, Len(s))

\* s[-overlap_chars:] if overlap_chars else ""
Carried(s) ==
    IF overlap_chars >= Len(s) THEN s
    ELSE SubSeq(s, Len(s) - overlap_chars + 1, Len(s))

ConsistentParameters ==
    max_chars > 0 /\ overlap_chars >= 0 /\ overlap_chars < max_chars

Init ==
    /\ pc = "start"
    /\ text \in Texts
    /\ \E p \in Parameters : max_chars = p[1] /\ overlap_chars = p[2]
    /\ paragraphs = text
    /\ current = <<>>
    /\ chunks = <<>>

Start ==
    /\ pc = "start"
    /\ pc' = IF ~ConsistentParameters THEN "value_error"
             ELSE IF text = <<>> THEN "done" ELSE "paragraphs"
    /\ UNCHANGED <<input, paragraphs, current, chunks>>

Candidate == IF current = <<>> THEN Head(paragraphs) ELSE Join(current, Head(paragraphs))

ReadsParagraph ==
    pc = "paragraphs" /\ paragraphs # <<>> /\ Len(current) <= max_chars

Merge ==
    /\ ReadsParagraph
    /\ Len(Candidate) <= max_chars
    /\ current' = Candidate
    /\ paragraphs' = Tail(paragraphs)
    /\ UNCHANGED <<pc, input, chunks>>

\* A plausible slip: a paragraph that does not fit starts a chunk with no
\* context of the last one.
OverflowNoContext ==
    /\ ReadsParagraph
    /\ Len(Candidate) > max_chars
    /\ chunks' = IF current = <<>> THEN chunks ELSE Append(chunks, current)
    /\ current' = Head(paragraphs)
    /\ paragraphs' = Tail(paragraphs)
    /\ UNCHANGED <<pc, input>>

\* A plausible slip: an empty chunk is closed like any other.
OverflowPushesEmpty ==
    /\ ReadsParagraph
    /\ Len(Candidate) > max_chars
    /\ chunks' = Append(chunks, current)
    /\ current' = IF current = <<>> \/ overlap_chars = 0 THEN Head(paragraphs)
                  ELSE Join(Carried(current), Head(paragraphs))
    /\ paragraphs' = Tail(paragraphs)
    /\ UNCHANGED <<pc, input>>

\* A paragraph that does not fit closes the chunk and starts the next with
\* the trailing context of the closed one.
Overflow ==
    /\ ReadsParagraph
    /\ Len(Candidate) > max_chars
    /\ chunks' = IF current = <<>> THEN chunks ELSE Append(chunks, current)
    /\ current' = IF current = <<>> \/ overlap_chars = 0 THEN Head(paragraphs)
                  ELSE Join(Carried(current), Head(paragraphs))
    /\ paragraphs' = Tail(paragraphs)
    /\ UNCHANGED <<pc, input>>

\* A plausible slip: the cut resumes one character late when there is no
\* overlap.
HardSplitSkips ==
    /\ pc = "paragraphs" /\ Len(current) > max_chars
    /\ LET head == SubSeq(current, 1, max_chars) IN
           /\ chunks' = Append(chunks, head)
           /\ current' = Carried(head) \o SubSeq(current, max_chars + 2, Len(current))
    /\ UNCHANGED <<pc, input, paragraphs>>

\* A plausible slip: a chunk of exactly max_chars is cut too.
HardSplitFull ==
    /\ pc = "paragraphs" /\ Len(current) >= max_chars
    /\ LET head == SubSeq(current, 1, max_chars) IN
           /\ chunks' = Append(chunks, head)
           /\ current' = Carried(head) \o SubSeq(current, max_chars + 1, Len(current))
    /\ UNCHANGED <<pc, input, paragraphs>>

\* A plausible slip: a blank piece is skipped without moving past it.
HardSplitSkipsBlank ==
    /\ pc = "paragraphs" /\ Len(current) > max_chars
    /\ LET head == SubSeq(current, 1, max_chars) IN
           IF Blank(head) THEN UNCHANGED <<chunks, current>>
           ELSE /\ chunks' = Append(chunks, head)
                /\ current' = Carried(head) \o SubSeq(current, max_chars + 1, Len(current))
    /\ UNCHANGED <<pc, input, paragraphs>>

\* One iteration of the while loop: a chunk too long is cut at max_chars.
HardSplit ==
    /\ pc = "paragraphs" /\ Len(current) > max_chars
    /\ LET head == SubSeq(current, 1, max_chars) IN
           /\ chunks' = Append(chunks, head)
           /\ current' = Carried(head) \o SubSeq(current, max_chars + 1, Len(current))
    /\ UNCHANGED <<pc, input, paragraphs>>

Flush ==
    /\ pc = "paragraphs" /\ paragraphs = <<>> /\ Len(current) <= max_chars
    /\ chunks' = IF current = <<>> THEN chunks ELSE Append(chunks, current)
    /\ pc' = "sliver"
    /\ UNCHANGED <<input, paragraphs, current>>

\* A plausible slip: the floor itself counts as a sliver.
HasSliverAtFloor ==
    Len(chunks) >= 2 /\ Len(chunks[Len(chunks)]) <= SliverFloor

HasSliver ==
    Len(chunks) >= 2 /\ Len(chunks[Len(chunks)]) < SliverFloor

MergeSliver ==
    /\ pc = "sliver"
    /\ LET n == Len(chunks) IN
           chunks' = IF HasSliver
                     THEN Append(SubSeq(chunks, 1, n - 2), Join(chunks[n - 1], chunks[n]))
                     ELSE chunks
    /\ pc' = "wrap"
    /\ UNCHANGED <<input, paragraphs, current>>

\* ChunkText refuses a blank string.
Wrap ==
    /\ pc = "wrap"
    /\ pc' = IF \E i \in DOMAIN chunks : Blank(chunks[i]) THEN "value_error" ELSE "done"
    /\ UNCHANGED <<input, paragraphs, current, chunks>>

Next == Start \/ Merge \/ Overflow \/ HardSplit \/ Flush \/ MergeSliver \/ Wrap

Spec == Init /\ [][Next]_vars

\* A function that is called runs: nothing in the loop waits.
FairSpec == Spec /\ WF_vars(Next)

-----------------------------------------------------------------------------
\* Every variable has its type.
TypeOK ==
    /\ pc \in {"start", "paragraphs", "sliver", "wrap", "done", "value_error"}
    /\ text \in Seq(Seq(Int)) /\ paragraphs \in Seq(Seq(Int))
    /\ max_chars \in Int /\ overlap_chars \in Int
    /\ current \in Seq(Int) /\ chunks \in Seq(Seq(Int))

\* The characters read so far are in a chunk or in the one being built: the
\* splits, the overlap and the sliver merge lose no text.
NothingIsLost ==
    LET Characters(s) == {s[i] : i \in DOMAIN s}
        read == SubSeq(text, 1, Len(text) - Len(paragraphs))
    IN  \A i \in DOMAIN read :
            Characters(read[i]) \subseteq
                Characters(current) \cup UNION {Characters(chunks[j]) : j \in DOMAIN chunks}

\* chunking.py:12-15: every chunk starts with the last overlap_chars characters
\* of the one before, on the paragraph path and on the hard split.
ChunksOverlap ==
    pc = "done" =>
        \A i \in 1 .. Len(chunks) - 1 :
            LET tail == Carried(chunks[i])
            IN  SubSeq(chunks[i + 1], 1, Len(tail)) = tail

\* With room for the overlap, the separator and more, every chunk holds text
\* that no chunk before it holds: no embedding is spent on a pure repetition.
EveryChunkAddsText ==
    pc = "done" /\ overlap_chars + 2 < max_chars =>
        \A i \in DOMAIN chunks :
            \E k \in DOMAIN chunks[i] :
                /\ chunks[i][k] # 0
                /\ \A j \in 1 .. i - 1 : \A l \in DOMAIN chunks[j] :
                       chunks[j][l] # chunks[i][k]

\* Every chunk fits max_chars, except the last, which the sliver merge may
\* lengthen by a separator and less than the floor.
ChunksAreBounded ==
    \A i \in DOMAIN chunks :
        \/ Len(chunks[i]) <= max_chars
        \/ /\ pc \notin {"start", "paragraphs", "sliver"}
           /\ i = Len(chunks)
           /\ Len(chunks[i]) <= max_chars + SliverFloor + 1

HasLongBlanks ==
    \E i \in DOMAIN text : \E k \in 0 .. Len(text[i]) - max_chars :
        \A l \in 1 .. max_chars : text[i][k + l] < 0

\* A call with consistent parameters fails only on a paragraph with a run of
\* at least max_chars blanks, or when a chunk is as short as the separator and
\* the overlap lets the cut fall on it.
FailsOnlyOnLongBlanks ==
    pc = "value_error" /\ ConsistentParameters =>
        HasLongBlanks \/ (max_chars = 2 /\ overlap_chars = 1)

\* Every step counts: the call moves on, or reads a paragraph, or cuts the chunk
\* it builds shorter.  So no step can be taken for ever: the loop of the hard
\* split ends because the overlap is shorter than the cut.
Stages == [start |-> 0, paragraphs |-> 1, sliver |-> 2, wrap |-> 3, done |-> 4,
           value_error |-> 4]

EveryStepCounts ==
    [][\/ Stages[pc'] > Stages[pc]
       \/ pc' = pc /\ Len(paragraphs') < Len(paragraphs)
       \/ pc' = pc /\ paragraphs' = paragraphs /\ Len(current') < Len(current)]_vars

\* Chunking ends, with chunks or with a ValueError.
Terminates == <>(pc \in {"done", "value_error"})

\* chunking.py:43-44: ValueError is raised if the parameters are inconsistent.
RaisesOnlyOnParameters == pc = "value_error" => ~ConsistentParameters
=============================================================================
