------------------------------- MODULE MCService -------------------------------
(* Two uploads of one content, a question and a read on a pool of one.      *)
EXTENDS Service, TLC

CONSTANTS u1, u2, c1, q1, r1

OneContent == u1 :> c1 @@ u2 :> c1
BothClear == u1 :> 2 @@ u2 :> 2

\* The model answers from the first passage, answers nonsense, or times out.
FewReplies ==
    {[outcome |-> "payload", answer |-> "text", indices |-> <<1>>],
     [outcome |-> "unparseable", answer |-> "blank", indices |-> <<>>],
     [outcome |-> "timeout", answer |-> "blank", indices |-> <<>>]}
=============================================================================
