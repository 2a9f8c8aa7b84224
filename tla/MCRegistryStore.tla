--------------------------- MODULE MCRegistryStore ---------------------------
(***************************************************************************)
(* Two handlers, three changes and three inodes: the file, the one a power *)
(* cut brings back, and the temporary file. Handlers, changes and inodes   *)
(* are alike.                                                              *)
(***************************************************************************)
EXTENDS RegistryStore, TLC

CONSTANTS w1, w2, c1, c2, c3, i1, i2, i3

TwoWriters   == {w1, w2}
ThreeChanges == {c1, c2, c3}
ThreeInodes  == {i1, i2, i3}

Alike == Permutations(TwoWriters) \cup Permutations(ThreeChanges) \cup Permutations(ThreeInodes)
=============================================================================
