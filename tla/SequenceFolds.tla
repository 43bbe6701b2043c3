---------------------------- MODULE SequenceFolds ----------------------------
(***************************************************************************)
(* The loops over sequences of the catalog and of normalisation, from the  *)
(* folds of Folds and FiniteSetsExt.  SequencesExt has the same operators, *)
(* but every definition of it is part of each proof obligation of a module *)
(* that extends it.                                                        *)
(***************************************************************************)
EXTENDS Integers, Sequences, FiniteSets, FiniteSetsExt, Folds, Functions, TLC

\* What Step makes of start at each index of seq in turn.
FoldIndices(Step(_, _), start, seq) ==
    MapThenFoldSet(LAMBDA i, reached : Step(reached, i), start, LAMBDA i : i, Max, DOMAIN seq)

\* What Step makes of start with each element of seq in turn.
FoldElements(Step(_, _), start, seq) ==
    FoldIndices(LAMBDA reached, i : Step(reached, seq[i]), start, seq)

\* The elements of S in the order Less.
Ordered(S, Less(_, _)) == SortSeq(FoldSet(LAMBDA x, seq : Append(seq, x), <<>>, S), Less)
=============================================================================
