------------------------------ MODULE MCChunkText ------------------------------
(* All texts of up to MaxParagraphs paragraphs whose lengths are in Lengths,
   each paragraph solid or blank between its first and last characters.      *)
EXTENDS ChunkText, FiniteSetsExt

CONSTANTS Lengths, MaxParagraphs

MCParameters == {<<1, 0>>, <<2, 0>>, <<2, 1>>, <<3, 0>>, <<3, 1>>, <<3, 2>>, <<5, 2>>,
                 <<8, 0>>, <<8, 3>>, <<8, 7>>, <<0, 0>>, <<3, 3>>, <<3, -1>>}

\* A paragraph of n characters whose first is the k-th of the text.
Paragraph(k, n, hollow) ==
    [i \in 1 .. n |-> IF hollow /\ 1 < i /\ i < n THEN -(k + i) ELSE k + i]

Shapes == UNION {[1 .. n -> Lengths \X BOOLEAN] : n \in 0 .. MaxParagraphs}

TextOf(shape) ==
    [p \in DOMAIN shape |->
        Paragraph(MapThenSumSet(LAMBDA q : shape[q][1], 1 .. p - 1), shape[p][1], shape[p][2])]

MCTexts == {TextOf(shape) : shape \in Shapes}
=============================================================================
