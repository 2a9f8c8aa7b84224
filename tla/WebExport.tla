------------------------------ MODULE WebExport ------------------------------
(***************************************************************************)
(* The export of the embedded web files, webui.Export of                   *)
(* internal/webui/export.go, run by the init script before it starts the   *)
(* service. The files are written in place one after the other, files of   *)
(* another version are pruned, and a marker with the fingerprint of the    *)
(* version comes last. The exporter may be killed, or fail, between any two*)
(* of these steps, and another version of the package, newer or older, may *)
(* be installed at any time.                                               *)
(*                                                                         *)
(* A tree gives each file its bytes, or Gone. The fingerprint hashes names,*)
(* lengths and contents, so here it is the tree itself.                    *)
(***************************************************************************)
EXTENDS Naturals

CONSTANTS
  Files,       (* The names below the export directory.                     *)
  Bytes,       (* The contents a file may have.                             *)
  Gone,        (* No such file.                                             *)
  Torn,        (* A file that was truncated and not written in full.        *)
  NoMarker,    (* No marker, or one that is no fingerprint.                 *)
  Index,       (* index.html                                                *)
  MaxVersion,  (* Bound: the versions that are released.                    *)
  Tree         (* The web files that are embedded in each version.          *)

Versions == 1 .. MaxVersion
Trees    == [Files -> Bytes \cup {Gone}]

ASSUME WebExportAssumption ==
  /\ MaxVersion \in Nat \ {0}
  /\ Tree \in [Versions -> Trees]
  /\ Index \in Files /\ \A v \in Versions : Tree[v][Index] # Gone
  /\ {Gone, Torn} \cap Bytes = {} /\ Gone # Torn
  /\ NoMarker \notin Trees

VARIABLES
  binary,      (* The version that is installed.                            *)
  dir,         (* The files in the export directory.                        *)
  marker,      (* The fingerprint in .wrtdeck-web.                          *)
  step,        (* The exporter: idle, write, fill, prune, mark.             *)
  mine,        (* The version of the exporter.                              *)
  todo,        (* The files it has still to write, the first of them open   *)
               (* when step is "fill".                                      *)
  replaced,    (* Auxiliary: the trees in whose place another was installed.*)
  cut          (* Auxiliary: an export was stopped, and none ended since.   *)

exporter   == <<step, mine, todo>>
past       == <<replaced, cut>>
exportVars == <<binary, dir, marker, exporter, past>>

ExportInit ==
  /\ binary = 1
  /\ dir = [f \in Files |-> Gone]
  /\ marker = NoMarker
  /\ step = "idle"
  /\ mine = 1
  /\ todo = {}
  /\ replaced = {}
  /\ cut = FALSE

-----------------------------------------------------------------------------
(* list_files: the names in the tree of a version.                         *)
Listed(v) == {f \in Files : Tree[v][f] # Gone}

(* The marker is of this version and the entry file is there.              *)
UpToDate(v) == marker = Tree[v] /\ dir[Index] # Gone

(* Export begins, unless what is there counts as complete.                 *)
ExportBegins ==
  /\ step = "idle"
  /\ ~UpToDate(binary)
  /\ step' = "write"
  /\ mine' = binary
  /\ todo' = Listed(binary)
  /\ UNCHANGED <<binary, dir, marker, past>>

(* WriteFile truncates the file first; the files come in any order here,   *)
(* alphabetically in the code ...                                          *)
Truncate(f) ==
  /\ step = "write"
  /\ f \in todo
  /\ dir' = [dir EXCEPT ![f] = Torn]
  /\ step' = "fill"
  /\ UNCHANGED <<binary, marker, mine, todo, past>>

(* ... and then writes it.                                                 *)
Fill(f) ==
  /\ step = "fill"
  /\ f \in todo
  /\ dir[f] = Torn
  /\ dir' = [dir EXCEPT ![f] = Tree[mine][f]]
  /\ todo' = todo \ {f}
  /\ step' = "write"
  /\ UNCHANGED <<binary, marker, mine, past>>

(* The loop is over, prune walks the directory.                            *)
PruneBegins ==
  /\ step = "write"
  /\ todo = {}
  /\ step' = "prune"
  /\ UNCHANGED <<binary, dir, marker, mine, todo, past>>

Surplus == {f \in Files \ Listed(mine) : dir[f] # Gone}

Prune(f) ==
  /\ step = "prune"
  /\ f \in Surplus
  /\ dir' = [dir EXCEPT ![f] = Gone]
  /\ UNCHANGED <<binary, marker, exporter, past>>

(* Mutant of Mark: the marker is written before the surplus files go.      *)
MarkEarly ==
  /\ step = "prune"
  /\ marker' = Tree[mine]
  /\ step' = "idle"
  /\ cut' = FALSE
  /\ UNCHANGED <<binary, dir, mine, todo, replaced>>

(* Last, the marker.                                                       *)
Mark ==
  /\ step = "prune"
  /\ Surplus = {}
  /\ marker' = Tree[mine]
  /\ step' = "idle"
  /\ cut' = FALSE
  /\ UNCHANGED <<binary, dir, mine, todo, replaced>>

(* The exporter is killed, or an open, a write or a remove fails; at the   *)
(* end it may leave a marker that is cut short.                            *)
ExportStops ==
  /\ step # "idle"
  /\ step' = "idle"
  /\ marker' \in IF step = "prune" /\ Surplus = {} THEN {marker, NoMarker} ELSE {marker}
  /\ cut' = TRUE
  /\ UNCHANGED <<binary, dir, mine, todo, replaced>>

(* The package is upgraded or put back to an older version; an exporter    *)
(* that runs keeps its own files.                                          *)
Install(v) ==
  /\ v # binary
  /\ binary' = v
  /\ replaced' = IF Tree[v] = Tree[binary] THEN replaced ELSE replaced \cup {Tree[binary]}
  /\ UNCHANGED <<dir, marker, exporter, cut>>

ExportStep ==
  \/ ExportBegins \/ PruneBegins \/ Mark
  \/ \E f \in Files : Truncate(f) \/ Fill(f) \/ Prune(f)

ExportNext == ExportStep \/ ExportStops \/ \E v \in Versions : Install(v)

ExportSpec == ExportInit /\ [][ExportNext]_exportVars

-----------------------------------------------------------------------------
ExportTypeOK ==
  /\ binary \in Versions /\ mine \in Versions
  /\ dir \in [Files -> Bytes \cup {Gone, Torn}]
  /\ marker \in Trees \cup {NoMarker}
  /\ step \in {"idle", "write", "fill", "prune"}
  /\ todo \subseteq Listed(mine)
  /\ replaced \subseteq Trees /\ cut \in BOOLEAN

(* A directory that the next export will leave alone has exactly the files *)
(* of the installed version, whatever exports of which versions were cut   *)
(* short before (Export, prune). One case is out of the marker's reach: web*)
(* files that were replaced are installed again, and the export of those   *)
(* that had taken their place began and did not reach its end.             *)
ExportedIsWhole ==
  UpToDate(binary) =>
    dir = Tree[binary] \/ (Tree[binary] \in replaced /\ (cut \/ step # "idle"))
=============================================================================
