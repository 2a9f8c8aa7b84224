---------------------------- MODULE MCSourceState ----------------------------
(***************************************************************************)
(* Instances of SourceState: one collection at a time, as the loop of a    *)
(* source runs them, and two at a time, as a refresh beside a tick or a    *)
(* job beside its successor.                                               *)
(***************************************************************************)
EXTENDS SourceState, TLC

CONSTANTS r1, r2

OneRun  == {r1}
TwoRuns == {r1, r2}

Symmetry == Permutations(TwoRuns)
=============================================================================
