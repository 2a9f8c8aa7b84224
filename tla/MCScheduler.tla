----------------------------- MODULE MCScheduler -----------------------------
(***************************************************************************)
(* The instances of Scheduler that TLC checks. Two jobs of one source let  *)
(* a cancelled one linger while its successor polls and compete with it    *)
(* for the only slot, as the jobs of two sources would. One handler is     *)
(* enough for what the ticks and Stop do; two are needed for two Syncs to  *)
(* meet, since main is done with its own before a request is accepted.     *)
(***************************************************************************)
EXTENDS Scheduler, TLC

CONSTANTS s1, v1, v2, absent, j1, j2, nojob, main, h1, h2, nobody

OneSource   == {s1}
TwoVersions == {v1, v2}
TwoJobs     == {j1, j2}
OneHandler  == {h1}
TwoHandlers == {h1, h2}

(* Nothing tells the handlers, the jobs or the versions apart.             *)
Alike == Permutations(TwoHandlers) \cup Permutations(TwoJobs) \cup Permutations(TwoVersions)
=============================================================================
