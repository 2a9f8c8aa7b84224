--------------------------- MODULE MCLoginThrottle ---------------------------
(* Three clients, a table for two, and two handlers. As by default the     *)
(* first lock is as long as the window; the longest is half as long again. *)
EXTENDS LoginThrottle, TLC

CONSTANTS s1, s2, s3, h1, h2

MCSources  == {s1, s2, s3}
MCCheckers == {h1, h2}

Symmetric == Permutations(MCSources) \cup Permutations(MCCheckers)
=============================================================================
