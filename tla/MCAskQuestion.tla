---------------------------- MODULE MCAskQuestion ----------------------------
(* Three chunks: two that clear the bar and tie, one below it.             *)
EXTENDS AskQuestion, TLC

CONSTANTS q1, a, b, c

Scores == a :> 3 @@ b :> 3 @@ c :> 1

\* Every kind of failure and of output, with any numbers up to one too many.
EveryReply ==
    [outcome : {"payload"}, answer : {"blank", "text"},
     indices : {<<>>, <<0>>, <<1>>, <<2>>, <<1, 1>>, <<2, 1>>, <<1, 3>>}]
    \cup [outcome : {"unparseable", "unexpected"} \cup Transient \cup Permanent,
          answer : {"blank"}, indices : {<<>>}]
=============================================================================
