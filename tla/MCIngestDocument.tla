--------------------------- MODULE MCIngestDocument ---------------------------
(* Three uploads, two of which carry the same content.                     *)
EXTENDS IngestDocument, TLC

CONSTANTS u1, u2, u3, c1, c2

TwoAlike == u1 :> c1 @@ u2 :> c1 @@ u3 :> c2
=============================================================================
