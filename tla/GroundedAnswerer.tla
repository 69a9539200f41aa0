--------------------------- MODULE GroundedAnswerer ---------------------------
(***************************************************************************)
(* What POST /chat promises, without the pool, the retries or the model.   *)
(* For each question the assistant takes one look at the library as it is. *)
(* If nothing relevant is there it refuses, and only then; otherwise it    *)
(* answers, and every passage it cites is among what it saw.  At any point *)
(* before the answer the question may fail.                                *)
(***************************************************************************)
CONSTANTS
    Questions,  \* the questions
    Relevant    \* the passages that clear the bar

VARIABLES
    library,    \* the passages stored: it only grows
    outcome,    \* "waiting", "refused", "answered" or "failed"
    evidence,   \* the relevant passages each question saw
    sources     \* the passages its answer cites

abstractVars == <<library, outcome, evidence, sources>>

AInit ==
    /\ library = {}
    /\ outcome = [q \in Questions |-> "waiting"]
    /\ evidence = [q \in Questions |-> {}]
    /\ sources = [q \in Questions |-> {}]

Settle(q, result) ==
    /\ outcome[q] = "waiting"
    /\ outcome' = [outcome EXCEPT ![q] = result]

\* One look; some of what is relevant may be missed, what is seen is there.
See(q) ==
    /\ outcome[q] = "waiting" /\ evidence[q] = {}
    /\ \E seen \in SUBSET (library \cap Relevant) :
           /\ seen # {}
           /\ evidence' = [evidence EXCEPT ![q] = seen]
    /\ UNCHANGED <<library, outcome, sources>>

Refused(q) ==
    /\ evidence[q] = {}
    /\ Settle(q, "refused")
    /\ UNCHANGED <<library, evidence, sources>>

Answered(q) ==
    /\ Settle(q, "answered")
    /\ \E cited \in SUBSET evidence[q] :
           /\ cited # {}
           /\ sources' = [sources EXCEPT ![q] = cited]
    /\ UNCHANGED <<library, evidence>>

Failed(q) ==
    /\ Settle(q, "failed")
    /\ UNCHANGED <<library, evidence, sources>>

\* The process dies under any number of questions at once.
Lost ==
    /\ \E gone \in SUBSET Questions :
           /\ \A q \in gone : outcome[q] = "waiting"
           /\ outcome' = [q \in Questions |-> IF q \in gone THEN "failed" ELSE outcome[q]]
    /\ UNCHANGED <<library, evidence, sources>>

Stored ==
    /\ library \subseteq library'
    /\ UNCHANGED <<outcome, evidence, sources>>

ANext ==
    \/ \E q \in Questions : See(q) \/ Refused(q) \/ Answered(q) \/ Failed(q)
    \/ Lost \/ Stored

ASpec == AInit /\ [][ANext]_abstractVars
=============================================================================
