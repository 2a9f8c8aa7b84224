------------------------------ MODULE MCSessions ------------------------------
(* Two handlers, two passwords besides the initial one, a full table at    *)
(* two sessions and at one code.                                           *)
EXTENDS Sessions, TLC

CONSTANTS h1, h2, p1, p2

MCHandlers  == {h1, h2}
MCPasswords == {p1, p2}

Symmetric == Permutations(MCHandlers) \cup Permutations(MCPasswords)
=============================================================================
