------------------------------ MODULE MCStreams -------------------------------
(***************************************************************************)
(* In: one source whose entry can change while it is being attached, and a *)
(* name for the old subscription beside the new one. Out: two viewers      *)
(* suffice to have one leave while another one is being sent to and to see *)
(* a slow one beside a quick one; three events overflow a buffer of two.   *)
(***************************************************************************)
EXTENDS Streams

CONSTANTS s1, v1, v2, x1, x2, h1, h2, j, p1, a, b

OneSource   == {s1}
TwoVersions == {v1, v2}
TwoSubs     == {x1, x2}
TwoHandlers == {h1, h2}
TheJanitor  == {j}

OnePublisher == {p1}
TwoViewers   == {a, b}
=============================================================================
