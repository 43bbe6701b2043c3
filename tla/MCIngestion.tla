----------------------------- MODULE MCIngestion -----------------------------
(* Instances of Ingestion for TLC.                                         *)
EXTENDS Ingestion, TLC

CONSTANTS x1, x2, b1, b2

\* b1 has an accepted and a rejected record, b2 an accepted one.
MixedAccepted == (b1 :> {x1}) @@ (b2 :> {x2})
OneAccepted == b1 :> {x1}

OutputSymmetry == Permutations(Segment) \cup Permutations(DeadLetter)

=============================================================================
