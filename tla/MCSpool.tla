------------------------------ MODULE MCSpool -------------------------------
(* Instances of Spool for TLC. *)
EXTENDS Spool, TLC, FiniteSetsExt

CONSTANTS b1, b2, b3

\* Frames of different lengths, so that an extent may fall inside a frame.
MCSize == [b \in Batch |-> IF b = b3 THEN 1 ELSE 2]
MCTotal == [S \in SUBSET Batch |-> FoldSet(LAMBDA b, n : n + MCSize[b], 0, S)]

Symmetry == Permutations(Batch \ {b3})

=============================================================================
