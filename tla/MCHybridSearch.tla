---------------------------- MODULE MCHybridSearch ---------------------------
(***************************************************************************)
(* HybridSearch for TLC: the relevance bar that Settings has by default.   *)
(***************************************************************************)
EXTENDS HybridSearch

\* 0.028
DefaultBar == <<28, 1000>>
=============================================================================
