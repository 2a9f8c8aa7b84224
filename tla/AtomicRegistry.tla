--------------------------- MODULE AtomicRegistry ---------------------------
(***************************************************************************)
(* What the registry promises to its callers: a change takes effect in     *)
(* memory at once, the file holds at every moment the whole registry of    *)
(* some moment, and a restart comes back with the file, or with the file   *)
(* it replaced when the replacement had not reached the flash yet.         *)
(* Contents are sets of changes: each PUT or DELETE is one.                *)
(***************************************************************************)
EXTENDS Naturals

CONSTANT Changes  (* The identities of changes.                             *)

VARIABLES
  memory,    (* The changes visible to the process.                         *)
  saving,    (* The contents that a Save under way writes: one or none.     *)
  file,      (* The changes in registry.json.                               *)
  flash      (* The changes in the registry.json a power cut leaves behind. *)

vars == <<memory, saving, file, flash>>

Init == memory = {} /\ saving = {} /\ file = {} /\ flash = {}

Change(c) ==
  /\ c \notin memory
  /\ memory' = memory \cup {c}
  /\ UNCHANGED <<saving, file, flash>>

Begin == saving = {} /\ saving' = {memory} /\ UNCHANGED <<memory, file, flash>>

Save == file' \in saving /\ saving' = {} /\ UNCHANGED <<memory, flash>>

GiveUp == saving' = {} /\ UNCHANGED <<memory, file, flash>>

Settle == flash' = file /\ UNCHANGED <<memory, saving, file>>

Restart ==
  /\ \E survivor \in {file, flash} : memory' = survivor /\ file' = survivor /\ flash' = survivor
  /\ saving' = {}

Next == (\E c \in Changes : Change(c)) \/ Begin \/ Save \/ GiveUp \/ Settle \/ Restart

Spec == Init /\ [][Next]_vars
=============================================================================
