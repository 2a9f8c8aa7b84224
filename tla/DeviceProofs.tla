------------------------------ MODULE DeviceProofs ------------------------------
(***************************************************************************)
(* Theorems about Device and its parts, for any number of files, versions, *)
(* short-lived processes, tokens, failures and requests: the exported web  *)
(* files (WebExport), the start of the service among the processes that    *)
(* share its files (Startup), and the requests to it (Requests).           *)
(***************************************************************************)
EXTENDS Device, TLAPS

-----------------------------------------------------------------------------
(* WebExport: an export directory that counts as complete is complete.     *)

(* The marker is of the installed files or of some they have replaced; the *)
(* directory is what it says, or an export has begun since, which the      *)
(* exporter does only when the marker is of replaced files.                *)
MarkerIsEarned ==
  marker # NoMarker =>
    /\ marker = Tree[binary] \/ marker \in replaced
    /\ dir = marker \/ (marker \in replaced /\ (cut \/ step # "idle"))
    /\ step # "idle" => marker \in replaced

(* What an exporter writes is installed, or was replaced while it ran.     *)
MineIsKnown == Tree[mine] = Tree[binary] \/ Tree[mine] \in replaced

(* What the exporter has written is what it meant to write.                *)
Written ==
  /\ step # "idle" => \A f \in Listed(mine) \ todo : dir[f] = Tree[mine][f]
  /\ step = "prune" => todo = {}

ExportInv == ExportTypeOK /\ MarkerIsEarned /\ MineIsKnown /\ Written

-----------------------------------------------------------------------------
(* The invariant implies the property.                                     *)
LEMMA WholeByInv == ExportInv => ExportedIsWhole
<1> SUFFICES ASSUME ExportInv, UpToDate(binary)
             PROVE  dir = Tree[binary] \/ (Tree[binary] \in replaced /\ (cut \/ step # "idle"))
  BY DEF ExportedIsWhole
<1>1. marker = Tree[binary] /\ marker # NoMarker
  BY WebExportAssumption DEF WebExportAssumption, ExportInv, ExportTypeOK, UpToDate
<1> QED BY <1>1 DEF ExportInv, MarkerIsEarned

LEMMA InvInitially == ExportInit => ExportInv
<1> SUFFICES ASSUME ExportInit PROVE ExportInv
  OBVIOUS
<1>1. ExportTypeOK
  <2>1. binary \in Versions /\ mine \in Versions
    BY WebExportAssumption DEF WebExportAssumption, ExportInit, Versions
  <2>2. dir \in [Files -> Bytes \cup {Gone, Torn}]
    BY DEF ExportInit
  <2>3. todo = {} /\ replaced = {} /\ cut = FALSE /\ step = "idle" /\ marker = NoMarker
    BY DEF ExportInit
  <2> QED BY <2>1, <2>2, <2>3 DEF ExportTypeOK
<1> QED BY <1>1 DEF ExportInit, ExportInv, MarkerIsEarned, MineIsKnown, Written

(* An exporter begins only where the marker is missing, of replaced files, *)
(* or vouches for a directory without its entry file.                      *)
LEMMA InvBegins == ExportInv /\ ExportBegins => ExportInv'
<1> SUFFICES ASSUME ExportInv, ExportBegins PROVE ExportInv'
  OBVIOUS
<1> USE DEF ExportInv, ExportBegins, past
<1>1. ExportTypeOK'
  BY WebExportAssumption DEF WebExportAssumption, ExportTypeOK, Versions, Listed
<1>2. MarkerIsEarned'
  <2> SUFFICES ASSUME marker # NoMarker PROVE marker \in replaced
    BY DEF MarkerIsEarned
  <2>1. CASE marker # Tree[binary]
    BY <2>1 DEF MarkerIsEarned
  <2>2. CASE marker = Tree[binary]
    <3>1. dir[Index] = Gone /\ Tree[binary][Index] # Gone
      BY <2>2, WebExportAssumption DEF WebExportAssumption, UpToDate, ExportTypeOK
    <3> QED BY <2>2, <3>1 DEF MarkerIsEarned
  <2> QED BY <2>1, <2>2
<1>3. MineIsKnown'
  BY DEF MineIsKnown
<1>4. Written'
  BY DEF Written, Listed
<1> QED BY <1>1, <1>2, <1>3, <1>4

(* Truncating, filling and pruning keep what was written.                  *)
LEMMA InvWrites ==
  ASSUME ExportInv, NEW f \in Files, Truncate(f) \/ Fill(f) \/ Prune(f)
  PROVE  ExportInv'
<1> USE DEF ExportInv
<1>0. /\ step # "idle" /\ step' # "idle"
      /\ UNCHANGED <<marker, binary, mine, replaced, cut>>
  BY DEF Truncate, Fill, Prune, exporter, past
<1>1. ExportTypeOK'
  <2>1. \A g \in Listed(mine) : Tree[mine][g] \in Bytes
    BY WebExportAssumption DEF WebExportAssumption, Listed, Trees, ExportTypeOK
  <2> QED BY <1>0, <2>1 DEF ExportTypeOK, Truncate, Fill, Prune, exporter, Listed
<1>2. MarkerIsEarned'
  BY <1>0 DEF MarkerIsEarned
<1>3. MineIsKnown'
  BY <1>0 DEF MineIsKnown
<1>4. Written'
  BY <1>0 DEF Written, Truncate, Fill, Prune, exporter, Surplus, Listed, ExportTypeOK
<1> QED BY <1>1, <1>2, <1>3, <1>4

(* When the marker is written, the directory is the tree of its version.   *)
LEMMA InvMark == ExportInv /\ Mark => ExportInv'
<1> SUFFICES ASSUME ExportInv, Mark PROVE ExportInv'
  OBVIOUS
<1> USE DEF ExportInv, Mark
<1>1. mine \in Versions /\ Tree[mine] \in Trees
  BY WebExportAssumption DEF WebExportAssumption, ExportTypeOK
<1>2. dir = Tree[mine]
  <2>1. \A f \in Files : dir[f] = Tree[mine][f]
    BY DEF Written, Surplus, Listed
  <2> QED BY <1>1, <2>1 DEF Trees, ExportTypeOK
<1>3. ExportTypeOK'
  BY <1>1 DEF ExportTypeOK
<1>4. MarkerIsEarned'
  BY <1>1, <1>2 DEF MarkerIsEarned, MineIsKnown
<1> QED BY <1>3, <1>4 DEF MineIsKnown, Written

LEMMA InvStops == ExportInv /\ ExportStops => ExportInv'
<1> SUFFICES ASSUME ExportInv, ExportStops PROVE ExportInv'
  OBVIOUS
<1>1. marker' \in {marker, NoMarker}
  BY DEF ExportStops
<1>2. MarkerIsEarned'
  BY <1>1 DEF ExportInv, MarkerIsEarned, ExportStops
<1>3. ExportTypeOK'
  BY <1>1 DEF ExportInv, ExportTypeOK, ExportStops
<1> QED BY <1>2, <1>3 DEF ExportInv, MineIsKnown, Written, ExportStops

(* What is replaced is remembered.                                         *)
LEMMA InvInstall ==
  ASSUME ExportInv, NEW v \in Versions, Install(v)
  PROVE  ExportInv'
<1> USE DEF ExportInv, Install, exporter
<1>1. ExportTypeOK'
  BY WebExportAssumption DEF WebExportAssumption, Versions, ExportTypeOK
<1>2. Tree[v] = Tree[binary] \/ Tree[binary] \in replaced'
  OBVIOUS
<1>3. replaced \subseteq replaced' /\ binary' = v /\ UNCHANGED <<marker, dir, step, mine, todo, cut>>
  OBVIOUS
<1>4. MarkerIsEarned'
  BY <1>2, <1>3 DEF MarkerIsEarned
<1>5. MineIsKnown'
  BY <1>2, <1>3 DEF MineIsKnown
<1> QED BY <1>1, <1>3, <1>4, <1>5 DEF Written, Listed

LEMMA InvPruneBegins == ExportInv /\ PruneBegins => ExportInv'
BY DEF ExportInv, PruneBegins, ExportTypeOK, MarkerIsEarned, MineIsKnown, Written, past

LEMMA InvIsInductive == ExportInv /\ [ExportNext]_exportVars => ExportInv'
<1> SUFFICES ASSUME ExportInv, [ExportNext]_exportVars PROVE ExportInv'
  OBVIOUS
<1>1. CASE ExportBegins
  BY <1>1, InvBegins
<1>2. CASE PruneBegins
  BY <1>2, InvPruneBegins
<1>3. CASE Mark
  BY <1>3, InvMark
<1>4. CASE \E f \in Files : Truncate(f) \/ Fill(f) \/ Prune(f)
  BY <1>4, InvWrites
<1>5. CASE ExportStops
  BY <1>5, InvStops
<1>6. CASE \E v \in Versions : Install(v)
  BY <1>6, InvInstall
<1>7. CASE UNCHANGED exportVars
  BY <1>7 DEF ExportInv, ExportTypeOK, MarkerIsEarned, MineIsKnown, Written, exportVars, exporter, past
<1> QED
  BY <1>1, <1>2, <1>3, <1>4, <1>5, <1>6, <1>7 DEF ExportNext, ExportStep

-----------------------------------------------------------------------------
(* The inductive invariant of the export.                                  *)
THEOREM ExportInvariant == ExportSpec => []ExportInv
BY InvInitially, InvIsInductive, PTL DEF ExportSpec

(* Every reachable state of the export is well typed.                      *)
THEOREM ExportTypeCorrect == ExportSpec => []ExportTypeOK
<1>1. ExportInv => ExportTypeOK
  BY DEF ExportInv
<1> QED BY <1>1, ExportInvariant, PTL

(* What the next export leaves alone has exactly the files of the          *)
(* installed version, whatever exports of whatever versions were cut short *)
(* before, for any releases and any order of upgrades and downgrades. The  *)
(* only exception is that of ExportedIsWhole: replaced files that return   *)
(* before the export of their successor has reached its end (Export).      *)
THEOREM CompleteIsWhole == ExportSpec => []ExportedIsWhole
BY WholeByInv, ExportInvariant, PTL

-----------------------------------------------------------------------------
(* Startup: the files are whole when they are read.                        *)

(* Secrets that were loaded have a token.                                  *)
Loaded == {s \in Secrets : s.token # 0}

(* Each file holds, and is replaced by, texts of its own kind.             *)
Kinds ==
  \A d \in {file, tmp} :
    /\ d["config"] \in {Sample, Missing, Empty, Mixed}
    /\ d["secrets"] \in Loaded \cup {Missing, Empty, Mixed}

(* What a process holds, by where it is.                                   *)
Holds(p) ==
  /\ mem[p] \in Loaded \cup {NoSecrets}
  /\ pc[p] # "write" => save[p].at = "closed"
  /\ InSave(p) =>
       IF save[p].of = "config"
         THEN save[p].then = "secrets"
         ELSE mem[p] # NoSecrets /\ save[p].then \in {"cert", "loaded", "down", "up"}
  /\ pc[p] \in {"cert", "crtfill", "key", "keyfill", "pair", "listen", "up"} => mem[p] # NoSecrets
  /\ pc[p] = "loaded" /\ job[p] # "gateway" => mem[p] # NoSecrets

ShapeInv == StartupTypeOK /\ Kinds /\ \A p \in Procs : Holds(p)

(* As long as no two Saves overlapped, whoever has opened a temporary file *)
(* is alone with it, and a file that was renamed is whole.                 *)
Writing(p) == pc[p] \in {"write", "rename"}

SaveInv ==
  ~overlapped =>
    /\ \A f \in Saved : ~Unreadable(f)
    /\ \A p, q \in Procs : Writing(p) /\ Writing(q) /\ save[p].of = save[q].of => p = q
    /\ \A p \in Procs : pc[p] = "write" => save[p].at = "tmp" /\ tmp[save[p].of] = Empty
    /\ \A p \in Procs : pc[p] = "rename" => tmp[save[p].of] = Snapshot(p)

(* As long as the service was not stopped inside writing the key, a key is *)
(* whole and comes after a whole certificate.                              *)
PairInv ==
  ~keyCut =>
    /\ key # "none" => crt = "new"
    /\ key = Empty => pc[Service] = "keyfill"
    /\ pc[Service] = "crtfill" => key = "none"
    /\ pc[Service] = "key" => crt = "new" /\ key = "none"
    /\ pc[Service] = "keyfill" => crt = "new"
    /\ pc[Service] = "pair" => crt = "new" /\ key = "new"

(* The inductive invariant of the start.                                   *)
StartInv == ShapeInv /\ SaveInv /\ PairInv

(* What a process may do.                                                  *)
Acts(p) ==
  \/ ReadConfig(p) \/ ReadSecrets(p) \/ SecretsRefused(p) \/ Open(p) \/ Write(p) \/ Rename(p)
  \/ RenameFails(p) \/ SetPassword(p) \/ CallFails(p) \/ Killed(p)
  \/ (\E j \in Jobs : Launch(p, j)) \/ (\E late \in {0, 1} : Used(p, late))
  \/ p = Service /\ (EnsureSelfSigned \/ LoadPair \/ Listen)

LEMMA NextActs == StartupNext => \E p \in Procs : Acts(p)
  BY DEF StartupNext, ProcStep, Acts, Procs

-----------------------------------------------------------------------------
LEMMA StartInit == StartupInit => StartInv
<1> SUFFICES ASSUME StartupInit PROVE StartInv
  OBVIOUS
<1> USE StartupAssumption DEF StartupInit, Saved
<1>1. PICK kept \in {Missing, [token |-> 1, password |-> "none"], [token |-> 1, password |-> "own"]} :
        /\ file = [f \in Saved |-> IF f = "secrets" THEN kept ELSE Missing]
        /\ tokens = IF kept = Missing THEN 0 ELSE 1
  OBVIOUS
<1>2. kept \in Loaded \cup {Missing}
  BY <1>1 DEF Loaded, Secrets
<1>3. Kinds
  BY <1>1, <1>2 DEF Kinds
<1>4. NoSave \in [of : Saved, at : {"closed", "tmp", "file", "gone"}, then : Places]
  BY DEF NoSave, Places
<1>5. StartupTypeOK
  <2>1. file \in [Saved -> Data] /\ tmp \in [Saved -> Data]
    BY <1>1, <1>2 DEF Data, Loaded
  <2>2. tokens \in 0 .. MaxTokens /\ failures \in 0 .. MaxFailures
    BY <1>1
  <2>3. /\ pc \in [Procs -> Places] /\ job \in [Procs -> Jobs \cup {"none"}]
        /\ mem \in [Procs -> Secrets \cup {NoSecrets}]
        /\ save \in [Procs -> [of : Saved, at : {"closed", "tmp", "file", "gone"}, then : Places]]
    BY <1>4 DEF Places
  <2> QED
    BY <2>1, <2>2, <2>3 DEF StartupTypeOK
<1>6. \A p \in Procs : Holds(p)
  BY DEF Holds, InSave, NoSave
<1>7. SaveInv
  BY <1>1, <1>2 DEF SaveInv, Unreadable, Writing, Loaded, Procs
<1>8. PairInv
  BY DEF PairInv, Procs
<1> QED
  BY <1>3, <1>5, <1>6, <1>7, <1>8 DEF StartInv, ShapeInv

(* The text a Save writes is of the kind of its file.                      *)
LEMMA SnapshotIsWhole ==
  ASSUME ShapeInv, NEW p \in Procs, InSave(p)
  PROVE  /\ Snapshot(p) \in IF save[p].of = "config" THEN {Sample} ELSE Loaded
         /\ Snapshot(p) \notin {Missing, Empty, Mixed}
         /\ Snapshot(p) \in Data
<1>1. save[p].of \in Saved /\ mem[p] \in Loaded \cup {NoSecrets}
  BY DEF ShapeInv, StartupTypeOK, Holds
<1>2. save[p].of = "secrets" => mem[p] \in Loaded
  BY <1>1 DEF ShapeInv, Holds
<1> QED
  BY <1>1, <1>2, StartupAssumption DEF Snapshot, Loaded, Data, Saved

(* The fields of a process after a step, and the types of all the others.  *)
Turns(p, l, j, m, s) ==
  /\ pc' = [pc EXCEPT ![p] = l] /\ job' = [job EXCEPT ![p] = j]
  /\ mem' = [mem EXCEPT ![p] = m] /\ save' = [save EXCEPT ![p] = s]

SaveRecord == [of : Saved, at : {"closed", "tmp", "file", "gone"}, then : Places]

Globals ==
  /\ crt \in {"none", Empty, "new"} /\ key \in {"none", Empty, "new"}
  /\ tokens \in 0 .. MaxTokens /\ failures \in 0 .. MaxFailures
  /\ raced \in BOOLEAN /\ overlapped \in BOOLEAN /\ keyCut \in BOOLEAN

(* A step that writes no file and changes one process only, which does not *)
(* end up inside a Save with the temporary file open: it keeps both the    *)
(* shape and what is known of files and Saves.                             *)
LEMMA OneMoves ==
  ASSUME ShapeInv, SaveInv, NEW p \in Procs, UNCHANGED <<file, tmp, overlapped>>,
         NEW l \in Places \ {"write", "rename"}, NEW j \in Jobs \cup {"none"},
         NEW m \in Loaded \cup {NoSecrets}, NEW s \in SaveRecord,
         Turns(p, l, j, m, s), Globals', Holds(p)'
  PROVE  ShapeInv' /\ SaveInv'
<1> USE DEF Turns
<1>1. StartupTypeOK'
  BY DEF ShapeInv, StartupTypeOK, Globals, Loaded, SaveRecord
<1>2. Kinds'
  BY DEF ShapeInv, Kinds
<1>3. ASSUME NEW q \in Procs, q # p
      PROVE  /\ pc'[q] = pc[q] /\ job'[q] = job[q] /\ mem'[q] = mem[q] /\ save'[q] = save[q]
             /\ Holds(q)'
  BY <1>3 DEF ShapeInv, StartupTypeOK, Holds, InSave
<1>4. ShapeInv'
  BY <1>1, <1>2, <1>3 DEF ShapeInv
<1>5. SaveInv'
  <2>1. pc'[p] = l
    BY DEF ShapeInv, StartupTypeOK
  <2>2. \A q \in Procs : Writing(q)' => q # p /\ Writing(q)
    BY <1>3, <2>1 DEF Writing
  <2>3. \A q \in Procs : q # p => Snapshot(q)' = Snapshot(q)
    BY <1>3 DEF Snapshot
  <2> QED
    BY <1>3, <2>1, <2>2, <2>3 DEF SaveInv, Writing, Unreadable
<1> QED
  BY <1>4, <1>5

LEMMA SaveRecords ==
  /\ NoSave \in SaveRecord
  /\ \A f \in Saved, l \in Places : [of |-> f, at |-> "closed", then |-> l] \in SaveRecord
  BY DEF NoSave, Saved, Places, SaveRecord

LEMMA Types ==
  ASSUME ShapeInv, NEW p \in Procs
  PROVE  /\ pc \in [Procs -> Places] /\ job \in [Procs -> Jobs \cup {"none"}]
         /\ mem \in [Procs -> Loaded \cup {NoSecrets}] /\ save \in [Procs -> SaveRecord]
         /\ Turns(p, pc[p], job[p], mem[p], save[p]) <=> UNCHANGED process
         /\ pc[p] \in Places /\ job[p] \in Jobs \cup {"none"} /\ mem[p] \in Loaded \cup {NoSecrets}
         /\ save[p] \in SaveRecord /\ Globals /\ Holds(p)
         /\ file \in [Saved -> Data] /\ tmp \in [Saved -> Data]
<1>1. /\ pc \in [Procs -> Places] /\ job \in [Procs -> Jobs \cup {"none"}]
      /\ save \in [Procs -> SaveRecord] /\ mem \in [Procs -> Loaded \cup {NoSecrets}]
  BY DEF ShapeInv, StartupTypeOK, Holds, SaveRecord
<1> QED
  BY <1>1 DEF ShapeInv, StartupTypeOK, Globals, Turns, process

(* A process that ends holds nothing.                                      *)
LEMMA EndKeeps ==
  ASSUME ShapeInv, SaveInv, NEW p \in Procs, Ends(p), UNCHANGED <<disk, pair, tokens, raced, overlapped>>,
         failures' \in 0 .. MaxFailures, keyCut' \in BOOLEAN
  PROVE  ShapeInv' /\ SaveInv'
<1>1. Turns(p, "down", "none", NoSecrets, NoSave)
  BY DEF Ends, Goto, Turns
<1>2. Holds(p)'
  BY <1>1, Types DEF Turns, Holds, InSave, NoSave
<1>3. Globals' /\ UNCHANGED <<file, tmp, overlapped>>
  BY Types DEF Globals, pair, disk
<1>4. "down" \in Places \ {"write", "rename"}
  BY DEF Places
<1> QED
  BY <1>1, <1>2, <1>3, <1>4, SaveRecords, OneMoves

(* One that goes on after an error holds no file open.                     *)
LEMMA ErrKeeps ==
  ASSUME ShapeInv, SaveInv, NEW p \in Procs, Errs(p), InSave(p) \/ pc[p] = "secrets",
         UNCHANGED <<disk, pair, tokens, history>>, failures' \in 0 .. MaxFailures
  PROVE  ShapeInv' /\ SaveInv'
<1> DEFINE l == GoesOn(p)
           j == IF l = "down" THEN "none" ELSE job[p]
           m == IF l = "up" THEN mem[p] ELSE NoSecrets
<1>1. Turns(p, l, j, m, NoSave)
  BY Types DEF Errs, Goto, Turns
<1>2. l \in {"up", "loaded", "down"} /\ l \in Places \ {"write", "rename"}
  BY DEF GoesOn, Places
<1>3. j \in Jobs \cup {"none"} /\ m \in Loaded \cup {NoSecrets}
  BY Types
<1>4. l = "up" => mem[p] # NoSecrets
  BY Types DEF GoesOn, Serving, Holds
<1>5. l = "loaded" => job[p] = "gateway"
  BY DEF GoesOn
<1>6. pc'[p] = l /\ job'[p] = j /\ mem'[p] = m /\ save'[p] = NoSave
  BY <1>1, Types DEF Turns
<1>7. Holds(p)'
  <2> HIDE DEF l
  <2> QED
    BY <1>2, <1>3, <1>4, <1>5, <1>6 DEF Holds, InSave, NoSave
<1>8. Globals' /\ UNCHANGED <<file, tmp, overlapped>>
  BY Types DEF Globals, pair, disk, history
<1> HIDE DEF l, j, m
<1> QED
  BY <1>1, <1>2, <1>3, <1>7, <1>8, SaveRecords, OneMoves

(* The steps that touch no file.                                           *)
LEMMA QuietPreserves ==
  ASSUME ShapeInv, SaveInv, NEW p \in Procs,
         \/ ReadConfig(p) \/ ReadSecrets(p) \/ SecretsRefused(p) \/ RenameFails(p) \/ SetPassword(p)
         \/ EnsureSelfSigned \/ LoadPair \/ CallFails(p) \/ Killed(p) \/ Listen
         \/ (\E j \in Jobs : Launch(p, j)) \/ (\E late \in {0, 1} : Used(p, late))
  PROVE  ShapeInv' /\ SaveInv'
<1>a. Globals /\ Service \in Procs
  BY Types DEF Procs
<1>1. CASE ReadConfig(p)
  <2>1. CASE Unreadable("config") /\ Ends(p)
    BY <1>1, <1>a, <2>1, EndKeeps DEF ReadConfig, history, Globals
  <2>2. ASSUME NEW l \in {"open", "secrets"}, NEW r \in SaveRecord,
               r = save[p] \/ r = [of |-> "config", at |-> "closed", then |-> "secrets"],
               l = "open" => r.of = "config" /\ r.then = "secrets",
               Turns(p, l, job[p], mem[p], r)
        PROVE  ShapeInv' /\ SaveInv'
    <3>1. pc[p] = "config" /\ UNCHANGED <<disk, pair, tokens, failures, history>>
      BY <1>1 DEF ReadConfig
    <3>2. Globals' /\ UNCHANGED <<file, tmp, overlapped>>
      BY <1>a, <3>1 DEF Globals, pair, disk, history
    <3>3. pc'[p] = l /\ job'[p] = job[p] /\ mem'[p] = mem[p] /\ save'[p] = r
      BY <2>2, Types DEF Turns
    <3>4. Holds(p)'
      BY <2>2, <3>1, <3>3, Types DEF Holds, InSave
    <3>5. l \in Places \ {"write", "rename"}
      BY DEF Places
    <3> QED
      BY <2>2, <3>2, <3>4, <3>5, Types, OneMoves
  <2>3. CASE BeginSave(p, "config", "secrets") /\ UNCHANGED <<job, mem>>
    <3> DEFINE r == [of |-> "config", at |-> "closed", then |-> "secrets"]
    <3>1. Turns(p, "open", job[p], mem[p], r)
      BY <2>3, Types DEF BeginSave, Goto, Turns
    <3>2. r \in SaveRecord /\ r.of = "config" /\ r.then = "secrets"
      BY SaveRecords DEF Saved, Places
    <3> HIDE DEF r
    <3> QED
      BY <2>2, <3>1, <3>2 DEF r
  <2>4. CASE Goto(p, "secrets") /\ UNCHANGED <<job, mem, save>>
    <3>1. Turns(p, "secrets", job[p], mem[p], save[p])
      BY <2>4, Types DEF Goto, Turns
    <3> QED
      BY <2>2, <3>1, Types
  <2> QED
    BY <1>1, <2>1, <2>3, <2>4 DEF ReadConfig
<1>2. CASE ReadSecrets(p)
  <2> DEFINE c == file["secrets"]
             l == Ready(p)
  <2>1. c \in Loaded \cup {Missing}
    BY <1>2 DEF ReadSecrets, ShapeInv, Kinds, Unreadable
  <2>2. Completed(c) \in Loaded /\ Completed(c) # NoSecrets
    <3>1. c = Missing => tokens + 1 \in 1 .. MaxTokens
      BY <1>2, <1>a, StartupAssumption DEF ReadSecrets, Globals
    <3>2. Completed(c) \in Loaded
      BY <2>1, <3>1, StartupAssumption DEF Completed, Loaded, Secrets
    <3> QED
      BY <3>2, StartupAssumption DEF Loaded
  <2>3. UNCHANGED <<disk, pair, job, failures, overlapped, keyCut>> /\ mem' = [mem EXCEPT ![p] = Completed(c)]
    BY <1>2 DEF ReadSecrets
  <2>4. tokens' \in 0 .. MaxTokens /\ raced' \in BOOLEAN
    BY <1>2, <1>a, StartupAssumption DEF ReadSecrets, Globals
  <2>5. Globals' /\ UNCHANGED <<file, tmp, overlapped>>
    BY <1>a, <2>3, <2>4 DEF Globals, pair, disk
  <2>6. l \in {"cert", "loaded"} /\ l \in Places \ {"write", "rename"} /\ "open" \in Places \ {"write", "rename"}
    BY DEF Ready, Places
  <2> HIDE DEF l
  <2>7. CASE Goto(p, l) /\ UNCHANGED save
    <3>1. Turns(p, l, job[p], Completed(c), save[p])
      BY <2>3, <2>7, Types DEF Goto, Turns
    <3>2. pc'[p] = l /\ mem'[p] = Completed(c) /\ save'[p] = save[p] /\ pc[p] = "secrets"
      BY <1>2, <3>1, Types DEF Turns, ReadSecrets
    <3>3. Holds(p)'
      BY <2>2, <2>6, <3>2, Types DEF Holds, InSave
    <3> QED
      BY <2>2, <2>5, <2>6, <3>1, <3>3, Types, OneMoves
  <2>8. CASE BeginSave(p, "secrets", l)
    <3> DEFINE r == [of |-> "secrets", at |-> "closed", then |-> l]
    <3>1. Turns(p, "open", job[p], Completed(c), r)
      BY <2>3, <2>8, Types DEF BeginSave, Goto, Turns
    <3>2. r \in SaveRecord /\ r.of = "secrets" /\ r.at = "closed" /\ r.then = l
      BY <2>6, SaveRecords DEF Saved
    <3> HIDE DEF r
    <3>3. pc'[p] = "open" /\ mem'[p] = Completed(c) /\ save'[p] = r
      BY <3>1, Types DEF Turns
    <3>4. Holds(p)'
      BY <2>2, <2>6, <3>2, <3>3 DEF Holds, InSave
    <3> QED
      BY <2>2, <2>5, <2>6, <3>1, <3>2, <3>4, Types, OneMoves
  <2> QED
    BY <1>2, <2>7, <2>8 DEF ReadSecrets, l
<1>3. CASE SecretsRefused(p)
  BY <1>3, <1>a, ErrKeeps DEF SecretsRefused, Globals
<1>4. CASE RenameFails(p)
  BY <1>4, <1>a, ErrKeeps DEF RenameFails, InSave, Globals
<1>5. CASE CallFails(p)
  BY <1>5, <1>a, ErrKeeps, StartupAssumption DEF CallFails, Globals
<1>6. CASE Killed(p)
  BY <1>6, <1>a, EndKeeps, StartupAssumption DEF Killed, Globals
<1>7. CASE \E late \in {0, 1} : Used(p, late)
  BY <1>7, <1>a, EndKeeps, StartupAssumption DEF Used, Globals, history
<1>8. CASE SetPassword(p)
  <2> DEFINE m == [mem[p] EXCEPT !.password = "own"]
  <2>1. mem[p] \in Loaded /\ UNCHANGED <<disk, pair, job, tokens, failures, history>>
    BY <1>8, Types DEF SetPassword, Holds
  <2>2. m \in Loaded /\ m # NoSecrets
    BY <2>1, StartupAssumption DEF Loaded, Secrets
  <2>3. PICK l \in {"down", "up"} : BeginSave(p, "secrets", l)
    BY <1>8 DEF SetPassword
  <2> DEFINE r == [of |-> "secrets", at |-> "closed", then |-> l]
  <2>4. Turns(p, "open", job[p], m, r)
    BY <1>8, <2>1, <2>3, Types DEF SetPassword, BeginSave, Goto, Turns
  <2>5. r \in SaveRecord /\ r.of = "secrets" /\ r.at = "closed" /\ r.then = l
    BY SaveRecords DEF Saved, Places
  <2>6. Globals' /\ UNCHANGED <<file, tmp, overlapped>>
    BY <1>a, <2>1 DEF Globals, pair, disk, history
  <2> HIDE DEF r, m
  <2>7. pc'[p] = "open" /\ mem'[p] = m /\ save'[p] = r
    BY <2>4, Types DEF Turns
  <2>8. Holds(p)'
    BY <2>2, <2>5, <2>7 DEF Holds, InSave
  <2>9. "open" \in Places \ {"write", "rename"}
    BY DEF Places
  <2> QED
    BY <2>2, <2>4, <2>5, <2>6, <2>8, <2>9, Types, OneMoves
<1>9. ASSUME NEW l \in Places \ {"write", "rename"}, pc' = [pc EXCEPT ![Service] = l],
             l \notin {"open", "loaded"}, mem[Service] # NoSecrets, save[Service].at = "closed",
             UNCHANGED <<disk, job, mem, save, tokens, failures, history>>,
             crt' \in {"none", Empty, "new"}, key' \in {"none", Empty, "new"}
      PROVE  ShapeInv' /\ SaveInv'
  <2>1. Turns(Service, l, job[Service], mem[Service], save[Service])
    BY <1>9, <1>a, Types DEF Turns
  <2>2. Globals' /\ UNCHANGED <<file, tmp, overlapped>>
    BY <1>9, <1>a DEF Globals, disk, history
  <2>3. pc'[Service] = l
    BY <1>9, <1>a, Types
  <2>4. Holds(Service)'
    BY <1>9, <1>a, <2>3, Types DEF Holds, InSave
  <2> QED
    BY <1>a, <2>1, <2>2, <2>4, Types, OneMoves
<1>b. pc[Service] \in {"cert", "crtfill", "key", "keyfill", "pair", "listen"} =>
        mem[Service] # NoSecrets /\ save[Service].at = "closed"
  BY <1>a, Types DEF Holds
<1>10. CASE EnsureSelfSigned
  <2>1. PICK l \in {"cert", "crtfill", "key", "keyfill"}, n \in {"crtfill", "key", "keyfill", "pair"},
             c \in {"none", Empty, "new"}, k \in {"none", Empty, "new"} :
          /\ pc[Service] = l /\ crt' = c /\ key' = k /\ pc' = [pc EXCEPT ![Service] = n]
          /\ UNCHANGED <<disk, job, mem, save, tokens, failures, history>>
    BY <1>10, <1>a, Zenon DEF EnsureSelfSigned, Certify, Goto, Globals
  <2>2. n \in Places \ {"write", "rename"} /\ n \notin {"open", "loaded"}
    BY DEF Places
  <2> QED
    BY <1>9, <1>b, <2>1, <2>2
<1>11. CASE LoadPair
  <2>1. CASE Ends(Service)
    BY <1>11, <1>a, <2>1, EndKeeps DEF LoadPair, history, Globals
  <2>2. CASE Goto(Service, "listen") /\ UNCHANGED <<job, mem, save>>
    <3>1. "listen" \in Places \ {"write", "rename"} /\ pc[Service] = "pair"
          /\ UNCHANGED <<disk, job, mem, save, tokens, failures, history>> /\ pc' = [pc EXCEPT ![Service] = "listen"]
          /\ crt' = crt /\ key' = key
      BY <1>11, <2>2 DEF LoadPair, Goto, Places, pair
    <3> QED
      BY <1>9, <1>a, <1>b, <3>1 DEF Globals
  <2> QED
    BY <1>11, <2>1, <2>2 DEF LoadPair
<1>12. CASE Listen
  <2>1. "up" \in Places \ {"write", "rename"} /\ pc[Service] = "listen"
        /\ UNCHANGED <<disk, job, mem, save, tokens, failures, history>> /\ pc' = [pc EXCEPT ![Service] = "up"]
        /\ crt' = crt /\ key' = key
    BY <1>12 DEF Listen, Goto, Places, pair
  <2> QED
    BY <1>9, <1>a, <1>b, <2>1 DEF Globals
<1>13. CASE \E j \in Jobs : Launch(p, j)
  <2>1. PICK j \in Jobs : Launch(p, j)
    BY <1>13
  <2>2. Turns(p, "config", j, mem[p], save[p])
    BY <2>1, Types DEF Launch, Goto, Turns
  <2>3. Globals' /\ UNCHANGED <<file, tmp, overlapped>>
    BY <1>a, <2>1 DEF Launch, Globals, disk, pair, history
  <2>4. pc'[p] = "config" /\ mem'[p] = mem[p] /\ save'[p] = save[p] /\ pc[p] = "down"
    BY <2>1, <2>2, Types DEF Turns, Launch
  <2>5. Holds(p)'
    BY <2>4, Types DEF Holds, InSave
  <2>6. "config" \in Places \ {"write", "rename"} /\ j \in Jobs \cup {"none"}
    BY DEF Places
  <2> QED
    BY <2>2, <2>3, <2>5, <2>6, Types, OneMoves
<1> QED
  BY <1>1, <1>2, <1>3, <1>4, <1>5, <1>6, <1>7, <1>8, <1>10, <1>11, <1>12, <1>13

(* Open: the temporary file is nobody else's, or the Saves overlap.        *)
LEMMA OpenPreserves ==
  ASSUME ShapeInv, SaveInv, NEW p \in Procs, Open(p)
  PROVE  ShapeInv' /\ SaveInv'
<1> DEFINE f == save[p].of
<1>1. f \in Saved /\ Empty \in Data
  BY Types DEF SaveRecord, Data
<1>2. /\ pc[p] = "open" /\ pc' = [pc EXCEPT ![p] = "write"] /\ tmp' = [tmp EXCEPT ![f] = Empty]
      /\ save' = [save EXCEPT ![p].at = "tmp"] /\ UNCHANGED <<file, pair, job, mem, tokens, failures, raced, keyCut>>
      /\ overlapped' = (overlapped \/ \E q \in Procs \ {p} : Writing(q) /\ save[q].of = f)
  BY DEF Open, Goto, Writing
<1>3. /\ save' \in [Procs -> SaveRecord] /\ save'[p] = [save[p] EXCEPT !.at = "tmp"]
      /\ save'[p].of = f /\ save'[p].at = "tmp" /\ save'[p].then = save[p].then
  BY <1>2, Types DEF SaveRecord
<1>4. pc' \in [Procs -> Places] /\ pc'[p] = "write"
  BY <1>2, Types DEF Places
<1>5. \A q \in Procs : q # p => pc'[q] = pc[q] /\ save'[q] = save[q]
  BY <1>2, Types
<1>6. StartupTypeOK'
  <2>1. tmp' \in [Saved -> Data] /\ overlapped' \in BOOLEAN
    BY <1>1, <1>2, Types DEF Globals
  <2> QED
    BY <1>2, <1>3, <1>4, <2>1 DEF ShapeInv, StartupTypeOK, SaveRecord, pair
<1>7. Kinds'
  BY <1>1, <1>2, Types DEF ShapeInv, Kinds, Saved
<1>8. \A q \in Procs : Holds(q)'
  <2>1. Holds(p)'
    BY <1>2, <1>3, <1>4, Types DEF Holds, InSave
  <2>2. ASSUME NEW q \in Procs, q # p PROVE Holds(q)'
    BY <1>2, <1>5, <2>2, Types DEF Holds, InSave
  <2> QED
    BY <2>1, <2>2
<1>9. SaveInv'
  <2> SUFFICES ASSUME ~overlapped' PROVE SaveInv'
    BY DEF SaveInv
  <2>1. ~overlapped /\ \A q \in Procs : q # p /\ Writing(q) => save[q].of # f
    BY <1>2
  <2>2. \A g \in Saved : ~Unreadable(g)'
    BY <1>2, <2>1 DEF SaveInv, Unreadable
  <2>3. \A q \in Procs : q # p /\ Writing(q)' =>
          /\ Writing(q) /\ save'[q].of # f /\ save[q].of \in Saved
          /\ tmp'[save'[q].of] = tmp[save[q].of] /\ Snapshot(q)' = Snapshot(q)
    BY <1>2, <1>5, <2>1, Types DEF Writing, Snapshot, SaveRecord
  <2>4. tmp'[f] = Empty
    BY <1>1, <1>2, Types
  <2>5. ASSUME NEW q \in Procs, NEW r \in Procs,
               Writing(q)', Writing(r)', save'[q].of = save'[r].of
        PROVE  q = r
    <3>1. save'[p].of = f
      BY <1>3
    <3>2. q # p => Writing(q) /\ save'[q].of # f /\ save'[q].of = save[q].of
      BY <1>5, <2>3, <2>5
    <3>3. r # p => Writing(r) /\ save'[r].of # f /\ save'[r].of = save[r].of
      BY <1>5, <2>3, <2>5
    <3>4. q # p /\ r # p => q = r
      BY <2>1, <2>5, <3>2, <3>3 DEF SaveInv
    <3> QED
      BY <2>5, <3>1, <3>2, <3>3, <3>4
  <2>6. \A q \in Procs : pc'[q] = "write" => save'[q].at = "tmp" /\ tmp'[save'[q].of] = Empty
    BY <1>3, <1>5, <2>1, <2>3, <2>4 DEF SaveInv, Writing
  <2>7. \A q \in Procs : pc'[q] = "rename" => tmp'[save'[q].of] = Snapshot(q)'
    BY <1>4, <1>5, <2>1, <2>3 DEF SaveInv, Writing
  <2> QED
    BY <2>2, <2>5, <2>6, <2>7 DEF SaveInv
<1> QED
  BY <1>6, <1>7, <1>8, <1>9 DEF ShapeInv

(* Write: the text goes where the open file is by now.                     *)
LEMMA WritePreserves ==
  ASSUME ShapeInv, SaveInv, NEW p \in Procs, Write(p)
  PROVE  ShapeInv' /\ SaveInv'
<1> DEFINE f == save[p].of
<1>1. f \in Saved /\ InSave(p)
  BY Types DEF SaveRecord, Write, InSave
<1>2. /\ pc[p] = "write" /\ pc' = [pc EXCEPT ![p] = "rename"]
      /\ save' = [save EXCEPT ![p].at = "closed"] /\ UNCHANGED <<pair, job, mem, tokens, failures, history>>
  BY DEF Write, Goto
<1>3. \/ save[p].at = "tmp" /\ (\E d \in {Snapshot(p), Mixed} : tmp' = [tmp EXCEPT ![f] = d]) /\ file' = file
      \/ save[p].at = "file" /\ (\E d \in {Snapshot(p), Mixed} : file' = [file EXCEPT ![f] = d]) /\ tmp' = tmp
      \/ save[p].at = "gone" /\ file' = file /\ tmp' = tmp
  BY DEF Write, Over, disk
<1>4. /\ save' \in [Procs -> SaveRecord] /\ save'[p].of = f /\ save'[p].at = "closed"
      /\ save'[p].then = save[p].then
  BY <1>2, Types DEF SaveRecord
<1>5. pc' \in [Procs -> Places] /\ pc'[p] = "rename"
  BY <1>2, Types DEF Places
<1>6. \A q \in Procs : q # p => pc'[q] = pc[q] /\ save'[q] = save[q]
  BY <1>2, Types
<1>7. /\ Snapshot(p) \in IF f = "config" THEN {Sample} ELSE Loaded
      /\ Snapshot(p) \in Data /\ Mixed \in Data
  BY <1>1, SnapshotIsWhole DEF Data
<1>8. StartupTypeOK'
  <2>1. tmp' \in [Saved -> Data] /\ file' \in [Saved -> Data]
    BY <1>1, <1>3, <1>7, Types
  <2> QED
    BY <1>2, <1>4, <1>5, <2>1 DEF ShapeInv, StartupTypeOK, SaveRecord, pair, history
<1>9. Kinds'
  BY <1>1, <1>3, <1>7, Types DEF ShapeInv, Kinds, Saved
<1>10. \A q \in Procs : Holds(q)'
  <2>1. Holds(p)'
    BY <1>2, <1>4, <1>5, Types DEF Holds, InSave
  <2>2. ASSUME NEW q \in Procs, q # p PROVE Holds(q)'
    BY <1>2, <1>6, <2>2, Types DEF Holds, InSave
  <2> QED
    BY <2>1, <2>2
<1>11. SaveInv'
  <2> SUFFICES ASSUME ~overlapped' PROVE SaveInv'
    BY DEF SaveInv
  <2>1. ~overlapped /\ save[p].at = "tmp" /\ tmp[f] = Empty
    BY <1>2 DEF SaveInv, history
  <2>2. \A q \in Procs : q # p /\ Writing(q) => save[q].of # f
    BY <1>2, <2>1 DEF SaveInv, Writing
  <2>3. file' = file /\ tmp' = [tmp EXCEPT ![f] = Snapshot(p)]
    BY <2>1, <1>1, StartupAssumption DEF Write, Over
  <2>4. \A g \in Saved : ~Unreadable(g)'
    BY <2>1, <2>3 DEF SaveInv, Unreadable
  <2>5. \A q \in Procs : Snapshot(q)' = Snapshot(q)
    BY <1>2, <1>4, <1>6 DEF Snapshot
  <2>6. \A q \in Procs : q # p /\ Writing(q)' =>
          /\ Writing(q) /\ save'[q].of # f /\ save[q].of \in Saved
          /\ tmp'[save'[q].of] = tmp[save[q].of]
    BY <1>6, <2>2, <2>3, Types DEF Writing, SaveRecord
  <2>7. tmp'[f] = Snapshot(p)
    BY <1>1, <2>3, Types
  <2>8. \A q, r \in Procs : Writing(q)' /\ Writing(r)' /\ save'[q].of = save'[r].of => q = r
    BY <1>4, <1>6, <2>1, <2>6 DEF SaveInv
  <2>9. \A q \in Procs : pc'[q] = "write" => save'[q].at = "tmp" /\ tmp'[save'[q].of] = Empty
    BY <1>5, <1>6, <2>1, <2>6 DEF SaveInv, Writing
  <2>10. \A q \in Procs : pc'[q] = "rename" => tmp'[save'[q].of] = Snapshot(q)'
    BY <1>4, <1>6, <2>1, <2>5, <2>6, <2>7 DEF SaveInv, Writing
  <2> QED
    BY <2>4, <2>8, <2>9, <2>10 DEF SaveInv
<1> QED
  BY <1>8, <1>9, <1>10, <1>11 DEF ShapeInv

(* Rename: the file is now what the temporary file was.                    *)
LEMMA RenamePreserves ==
  ASSUME ShapeInv, SaveInv, NEW p \in Procs, Rename(p)
  PROVE  ShapeInv' /\ SaveInv'
<1> DEFINE f == save[p].of
           l == save[p].then
<1>1. f \in Saved /\ InSave(p) /\ l \in Places
  BY Types DEF SaveRecord, Rename, InSave
<1>2. /\ pc[p] = "rename" /\ pc' = [pc EXCEPT ![p] = l] /\ tmp[f] # Missing
      /\ file' = [file EXCEPT ![f] = tmp[f]] /\ tmp' = [tmp EXCEPT ![f] = Missing]
      /\ UNCHANGED <<pair, tokens, failures, history>>
  BY DEF Rename, Goto
<1>3. /\ mem' = [mem EXCEPT ![p] = IF l = "down" THEN NoSecrets ELSE mem[p]]
      /\ job' = [job EXCEPT ![p] = IF l = "down" THEN "none" ELSE job[p]]
  BY Types DEF Rename
<1>4. save' = [Moved(f) EXCEPT ![p] = NoSave]
  BY DEF Rename
<1>5. \A q \in Procs : /\ Moved(f)[q] \in SaveRecord
                       /\ Moved(f)[q].of = save[q].of /\ Moved(f)[q].then = save[q].then
                       /\ save[q].at = "closed" => Moved(f)[q].at = "closed"
                       /\ save[q].of # f => Moved(f)[q] = save[q]
  BY Types DEF Moved, SaveRecord
<1>6. save' \in [Procs -> SaveRecord] /\ save'[p] = NoSave
  BY <1>4, <1>5, SaveRecords DEF Moved
<1>7. \A q \in Procs : q # p =>
        /\ pc'[q] = pc[q] /\ mem'[q] = mem[q] /\ job'[q] = job[q] /\ save'[q] = Moved(f)[q]
  BY <1>2, <1>3, <1>4, Types DEF Moved
<1>8. /\ pc' \in [Procs -> Places] /\ pc'[p] = l
      /\ mem'[p] = (IF l = "down" THEN NoSecrets ELSE mem[p])
      /\ mem' \in [Procs -> Loaded \cup {NoSecrets}] /\ job' \in [Procs -> Jobs \cup {"none"}]
      /\ job'[p] = (IF l = "down" THEN "none" ELSE job[p])
  BY <1>1, <1>2, <1>3, Types
<1>9. StartupTypeOK'
  <2>1. tmp' \in [Saved -> Data] /\ file' \in [Saved -> Data]
    BY <1>1, <1>2, Types DEF Data
  <2>2. mem' \in [Procs -> Secrets \cup {NoSecrets}]
    BY <1>8 DEF Loaded
  <2> QED
    BY <1>2, <1>6, <1>8, <2>1, <2>2 DEF ShapeInv, StartupTypeOK, SaveRecord, pair, history
<1>10. Kinds'
  BY <1>1, <1>2, Types DEF ShapeInv, Kinds, Saved
<1>11. \A q \in Procs : Holds(q)'
  <2>1. Holds(p)'
    <3>1. IF f = "config" THEN l = "secrets" ELSE mem[p] # NoSecrets /\ l \in {"cert", "loaded", "down", "up"}
      BY <1>1, Types DEF Holds
    <3>2. mem'[p] \in Loaded \cup {NoSecrets}
      BY <1>8
    <3> HIDE DEF f, l
    <3> QED
      BY <1>6, <1>8, <3>1, <3>2 DEF Holds, InSave, NoSave
  <2>2. ASSUME NEW q \in Procs, q # p PROVE Holds(q)'
    BY <1>5, <1>7, <2>2, Types DEF Holds, InSave
  <2> QED
    BY <2>1, <2>2
<1>12. SaveInv'
  <2> SUFFICES ASSUME ~overlapped' PROVE SaveInv'
    BY DEF SaveInv
  <2>1. ~overlapped /\ tmp[f] = Snapshot(p)
    BY <1>2 DEF SaveInv, history
  <2>2. \A q \in Procs : q # p /\ Writing(q) => save[q].of # f
    BY <1>2, <2>1 DEF SaveInv, Writing
  <2>3. tmp[f] \notin {Empty, Mixed}
    BY <1>1, <2>1, SnapshotIsWhole
  <2>4. \A g \in Saved : ~Unreadable(g)'
    BY <1>2, <2>1, <2>3, Types DEF SaveInv, Unreadable
  <2>5. l \notin {"write", "rename"}
    BY <1>1, Types DEF Holds
  <2>6. \A q \in Procs : Writing(q)' =>
          /\ q # p /\ Writing(q) /\ save'[q] = save[q] /\ save[q].of \in Saved
          /\ tmp'[save[q].of] = tmp[save[q].of] /\ pc'[q] = pc[q] /\ mem'[q] = mem[q]
    BY <1>2, <1>5, <1>7, <1>8, <2>2, <2>5, Types DEF Writing, SaveRecord
  <2>7. \A q \in Procs : Writing(q)' => Snapshot(q)' = Snapshot(q)
    BY <2>6 DEF Snapshot
  <2> QED
    BY <2>1, <2>4, <2>6, <2>7 DEF SaveInv, Writing
<1> QED
  BY <1>9, <1>10, <1>11, <1>12 DEF ShapeInv

-----------------------------------------------------------------------------
(* Steps that leave the pair alone, and the service outside of it.         *)
LEMMA PairKept ==
  ASSUME PairInv, UNCHANGED pair, keyCut' \in BOOLEAN, keyCut => keyCut',
         \/ pc'[Service] = pc[Service]
         \/ /\ pc'[Service] \notin {"crtfill", "key", "keyfill", "pair"}
            /\ pc[Service] = "keyfill" => keyCut'
  PROVE  PairInv'
  BY DEF PairInv, pair

LEMMA PairPreserves ==
  ASSUME ShapeInv, PairInv, NEW p \in Procs, Acts(p)
  PROVE  PairInv'
<1>a. Service \in Procs /\ Holds(Service) /\ pc \in [Procs -> Places] /\ Globals /\ save[p] \in SaveRecord
  BY Types DEF Procs
<1>1. CASE EnsureSelfSigned
  <2>1. keyCut' = keyCut
    BY <1>1 DEF EnsureSelfSigned, Certify, history
  <2> SUFFICES ASSUME ~keyCut PROVE PairInv'
    BY <2>1 DEF PairInv
  <2>2. CASE Certify("cert", HasPair, crt, key, "pair")
    BY <1>a, <2>1, <2>2 DEF Certify, Goto, HasPair, PairInv, Globals
  <2>3. CASE Certify("cert", ~HasPair, Empty, key, "crtfill")
    BY <1>a, <2>1, <2>3, StartupAssumption DEF Certify, Goto, HasPair, PairInv, Globals
  <2>4. CASE Certify("crtfill", TRUE, "new", key, "key")
    BY <1>a, <2>1, <2>4, StartupAssumption DEF Certify, Goto, PairInv
  <2>5. CASE Certify("key", TRUE, crt, Empty, "keyfill")
    BY <1>a, <2>1, <2>5, StartupAssumption DEF Certify, Goto, PairInv
  <2>6. CASE Certify("keyfill", TRUE, crt, "new", "pair")
    BY <1>a, <2>1, <2>6, StartupAssumption DEF Certify, Goto, PairInv
  <2> QED
    BY <1>1, <2>2, <2>3, <2>4, <2>5, <2>6 DEF EnsureSelfSigned
<1>2. CASE Killed(p)
  <2>1. p = Service => pc'[Service] = "down" /\ (pc[Service] = "keyfill" => keyCut')
    BY <1>2, <1>a DEF Killed, Ends, Goto
  <2>2. p # Service => pc'[Service] = pc[Service]
    BY <1>2, <1>a DEF Killed, Ends, Goto
  <2>3. UNCHANGED pair /\ keyCut' \in BOOLEAN /\ (keyCut => keyCut')
    BY <1>2, <1>a DEF Killed, Globals
  <2> QED
    BY <2>1, <2>2, <2>3, PairKept
<1>3. CASE LoadPair \/ Listen
  <2>1. UNCHANGED pair /\ keyCut' = keyCut /\ pc[Service] # "keyfill" /\ pc'[Service] \in {"down", "listen", "up"}
    BY <1>3, <1>a DEF LoadPair, Listen, Ends, Goto, history
  <2> QED
    BY <1>a, <2>1, PairKept DEF Globals
<1>4. ASSUME NEW l \in {"down", "config", "secrets", "open", "write", "rename", "loaded", "cert", "up"},
             pc' = [pc EXCEPT ![p] = l], pc[p] # "keyfill", UNCHANGED pair, keyCut' = keyCut
      PROVE  PairInv'
  <2>1. pc'[Service] = pc[Service] \/ (pc'[Service] = l /\ pc[Service] # "keyfill")
    BY <1>4, <1>a
  <2> QED
    BY <1>4, <1>a, <2>1, PairKept DEF Globals
<1>5. CASE ReadConfig(p)
  BY <1>4, <1>5 DEF ReadConfig, Ends, BeginSave, Goto, history
<1>6. CASE ReadSecrets(p)
  BY <1>4, <1>6 DEF ReadSecrets, Ready, BeginSave, Goto
<1>7. CASE SecretsRefused(p) \/ RenameFails(p) \/ CallFails(p)
  BY <1>4, <1>7 DEF SecretsRefused, RenameFails, CallFails, Errs, GoesOn, Goto, InSave, history
<1>8. CASE SetPassword(p)
  BY <1>4, <1>8 DEF SetPassword, BeginSave, Goto, history
<1>9. CASE Open(p) \/ Write(p)
  BY <1>4, <1>9 DEF Open, Write, Goto, history
<1>10. CASE Rename(p)
  <2>1. save[p].then \in {"secrets", "cert", "loaded", "down", "up"}
    BY <1>10, Types DEF Rename, Holds, InSave
  <2> QED
    BY <1>4, <1>10, <2>1 DEF Rename, Goto, history
<1>11. CASE (\E j \in Jobs : Launch(p, j)) \/ (\E late \in {0, 1} : Used(p, late))
  BY <1>4, <1>11 DEF Launch, Used, Ends, Goto, history
<1> QED
  BY <1>1, <1>2, <1>3, <1>5, <1>6, <1>7, <1>8, <1>9, <1>10, <1>11 DEF Acts

LEMMA ActsPreserve ==
  ASSUME StartInv, NEW p \in Procs, Acts(p)
  PROVE  StartInv'
<1>1. ShapeInv' /\ SaveInv'
  BY QuietPreserves, OpenPreserves, WritePreserves, RenamePreserves DEF StartInv, Acts
<1> QED
  BY <1>1, PairPreserves DEF StartInv

LEMMA StartPreserved == StartInv /\ [StartupNext]_startupVars => StartInv'
<1>1. ASSUME StartInv, NEW p \in Procs, Acts(p) PROVE StartInv'
  BY <1>1, ActsPreserve
<1>2. ASSUME StartInv, UNCHANGED startupVars PROVE StartInv'
  BY <1>2 DEF StartInv, ShapeInv, SaveInv, PairInv, StartupTypeOK, Kinds, Holds, InSave, Writing, Snapshot,
              Unreadable, startupVars, disk, pair, process, history
<1> QED
  BY <1>1, <1>2, NextActs

LEMMA StartImplies == StartInv => NoStartIsRefused
<1> SUFFICES ASSUME StartInv PROVE NoStartIsRefused
  OBVIOUS
<1>1. ASSUME NEW p \in Procs, pc[p] = "rename", tmp[save[p].of] = Missing PROVE overlapped
  BY <1>1, SnapshotIsWhole DEF StartInv, SaveInv, InSave
<1>2. ASSUME NEW p \in Procs, NEW f \in Saved, Unreadable(f) PROVE overlapped
  BY <1>2 DEF StartInv, SaveInv
<1>3. pc[Service] = "pair" /\ ~(crt = "new" /\ key = "new") => keyCut
  BY DEF StartInv, PairInv
<1> QED
  BY <1>1, <1>2, <1>3 DEF NoStartIsRefused

(* The inductive invariant holds throughout.                               *)
THEOREM StartInvariant == StartupSpec => []StartInv
  BY StartInit, StartPreserved, PTL DEF StartupSpec

(* No kill, failing call or other process on the same files keeps the      *)
(* service from starting, but for Saves that overlapped and a kill inside  *)
(* writing the key (ensure_self_signed, Save of secrets.go and config.go). *)
THEOREM StartsAreNotRefused == StartupSpec => []NoStartIsRefused
  BY StartInvariant, StartImplies, PTL

-----------------------------------------------------------------------------
(* Requests: one token at a time, and who asks for a code.                 *)

(* A token is in use: a process has it in memory, or it is in the file, or *)
(* it is about to be.                                                      *)
Saves(p) == InSave(p) /\ save[p].of = "secrets"

(* Until a process that has no secrets in memory reads the file, and a file*)
(* is missing only as long as whoever generated the token saves it.        *)
Fresh(p) ==
  /\ pc[p] \in {"down", "config", "secrets"} \/ (InSave(p) /\ save[p].of = "config") => mem[p] = NoSecrets
  /\ file["secrets"] = Missing /\ mem[p] # NoSecrets => Saves(p) /\ save[p].then # "up"

(* One token is in use, unless two processes generated one at once. What an*)
(* earlier process left in the temporary file does not count before        *)
(* somebody saves.                                                         *)
InUse(n) ==
  /\ \A p \in Procs : mem[p] # NoSecrets => mem[p].token = n
  /\ file["secrets"] \in Secrets => file["secrets"].token = n
  /\ tmp["secrets"] \in Secrets /\ (file["secrets"] # Missing \/ \E p \in Procs : Writing(p) /\ save[p].of = "secrets")
       => tmp["secrets"].token = n

TokenInv == ~raced => \E n \in 0 .. MaxTokens : InUse(n)

(* What the gateway has in hand is what it made of the request.            *)
CallOf(t) ==
  call[t] # NoCall =>
    /\ pc[t] = "loaded" /\ job[t] = "gateway"
    /\ call[t].path # "handoff" /\ call[t].peer = "loopback"
    /\ call[t].from \in Addresses /\ call[t].forwarded = <<call[t].from>>
    /\ call[t].token # 0 => mem[t] # NoSecrets /\ call[t].token = mem[t].token

CallInv == call = [t \in Tools |-> call[t]] /\ \A t \in Tools : CallOf(t)

(* The inductive invariant of the requests, on top of that of the start.   *)
PanelInv == (\A p \in Procs : Fresh(p)) /\ TokenInv /\ CallInv

-----------------------------------------------------------------------------
(* A step of one process leaves the others where they are, and no file goes*)
(* away.                                                                   *)
Alone(p) ==
  /\ \A q \in Procs \ {p} : /\ pc'[q] = pc[q] /\ mem'[q] = mem[q] /\ job'[q] = job[q]
                            /\ save'[q].of = save[q].of /\ save'[q].then = save[q].then
  /\ file'["secrets"] = Missing => file["secrets"] = Missing

LEMMA ActsAlone ==
  ASSUME ShapeInv, NEW p \in Procs, Acts(p)
  PROVE  Alone(p)
<1>a. /\ file \in [Saved -> Data] /\ Saved = {"config", "secrets"} /\ Kinds
      /\ \A q \in Procs : save[q] \in SaveRecord
  BY Types DEF Saved, ShapeInv
<1>b. ASSUME UNCHANGED file,
             \A q \in Procs \ {p} : /\ pc'[q] = pc[q] /\ mem'[q] = mem[q] /\ job'[q] = job[q] /\ save'[q] = save[q]
      PROVE  Alone(p)
  BY <1>b DEF Alone
<1>1. CASE ReadConfig(p)
  BY <1>1, <1>b, Types DEF ReadConfig, Ends, BeginSave, Goto, disk
<1>2. CASE ReadSecrets(p)
  BY <1>2, <1>b, Types DEF ReadSecrets, BeginSave, Goto, disk
<1>3. CASE SecretsRefused(p) \/ RenameFails(p) \/ CallFails(p)
  BY <1>3, <1>b, Types DEF SecretsRefused, RenameFails, CallFails, Errs, Goto, disk
<1>4. CASE SetPassword(p)
  BY <1>4, <1>b, Types DEF SetPassword, BeginSave, Goto, disk
<1>5. CASE Killed(p) \/ \E late \in {0, 1} : Used(p, late)
  BY <1>5, <1>b, Types DEF Killed, Used, Ends, Goto, disk
<1>6. CASE \E j \in Jobs : Launch(p, j)
  BY <1>6, <1>b, Types DEF Launch, Goto, disk
<1>7. CASE p = Service /\ (EnsureSelfSigned \/ LoadPair \/ Listen)
  BY <1>7, <1>b, Types DEF EnsureSelfSigned, Certify, LoadPair, Listen, Ends, Goto, disk
<1>8. CASE Open(p)
  BY <1>8, <1>b, Types DEF Open, Goto
<1>9. CASE Write(p)
  <2>1. \A q \in Procs \ {p} : /\ pc'[q] = pc[q] /\ mem'[q] = mem[q] /\ job'[q] = job[q] /\ save'[q] = save[q]
    BY <1>9, Types DEF Write, Goto
  <2>2. Snapshot(p) # Missing /\ Mixed # Missing
    BY <1>9, SnapshotIsWhole, StartupAssumption DEF Write, InSave
  <2>3. file'["secrets"] = Missing => file["secrets"] = Missing
    BY <1>9, <1>a, <2>2 DEF Write, Over, disk
  <2> QED
    BY <2>1, <2>3 DEF Alone
<1>10. CASE Rename(p)
  <2> DEFINE f == save[p].of
  <2>1. \A q \in Procs \ {p} : save'[q] = Moved(f)[q]
    BY <1>10, Types DEF Rename, Moved
  <2>2. \A q \in Procs \ {p} : save'[q].of = save[q].of /\ save'[q].then = save[q].then
    BY <1>a, <2>1 DEF Moved, SaveRecord
  <2>3. \A q \in Procs \ {p} : pc'[q] = pc[q] /\ mem'[q] = mem[q] /\ job'[q] = job[q]
    BY <1>10, Types DEF Rename, Goto
  <2>4. file'["secrets"] = Missing => file["secrets"] = Missing
    BY <1>10, <1>a DEF Rename
  <2> QED
    BY <2>2, <2>3, <2>4 DEF Alone
<1> QED
  BY <1>1, <1>2, <1>3, <1>4, <1>5, <1>6, <1>7, <1>8, <1>9, <1>10 DEF Acts

(* What the steps of a process make of its secrets, but for those that read*)
(* or write the file.                                                      *)
Holding(p) ==
  /\ UNCHANGED <<file, tmp, raced>>
  /\ mem'[p] # NoSecrets => mem[p] # NoSecrets /\ mem'[p].token = mem[p].token
  /\ ~Writing(p)'
  /\ Fresh(p)'

LEMMA ActsHold ==
  ASSUME ShapeInv, NEW p \in Procs, Acts(p), Fresh(p)
  PROVE  Holding(p) \/ ReadSecrets(p) \/ Open(p) \/ Write(p) \/ Rename(p)
<1>a. /\ pc \in [Procs -> Places] /\ job \in [Procs -> Jobs \cup {"none"}]
      /\ mem \in [Procs -> Loaded \cup {NoSecrets}] /\ save \in [Procs -> SaveRecord]
      /\ Holds(p) /\ save[p] \in SaveRecord
  BY Types
<1>1. CASE Ends(p) /\ UNCHANGED <<file, tmp, raced>>
  BY <1>1, <1>a DEF Ends, Goto, Holding, Fresh, Writing
<1>2. CASE Errs(p) /\ UNCHANGED <<file, tmp, raced>> /\ (InSave(p) \/ pc[p] = "secrets")
  <2>1. pc'[p] = GoesOn(p) /\ mem'[p] = (IF GoesOn(p) = "up" THEN mem[p] ELSE NoSecrets)
    BY <1>2, <1>a DEF Errs, Goto
  <2>2. GoesOn(p) \in {"up", "loaded", "down"}
    BY DEF GoesOn
  <2>3. GoesOn(p) = "up" => InSave(p) /\ save[p].then = "up"
    BY <1>2 DEF GoesOn, Serving, InSave
  <2> QED
    BY <1>2, <2>1, <2>2, <2>3 DEF Holding, Fresh, Writing, InSave
<1>3. ASSUME NEW l \in {"config", "secrets", "cert", "crtfill", "key", "keyfill", "pair", "listen", "up"},
             UNCHANGED <<file, tmp, raced, mem, save>>, pc' = [pc EXCEPT ![p] = l],
             pc[p] \notin {"open", "write", "rename"},
             l \in {"config", "secrets"} => mem[p] = NoSecrets
      PROVE  Holding(p)
  <2>1. pc'[p] = l /\ mem'[p] = mem[p] /\ save'[p] = save[p]
    BY <1>3, <1>a
  <2>2. file'["secrets"] = Missing /\ mem'[p] # NoSecrets => FALSE
    BY <1>3, <2>1 DEF Fresh, Saves, InSave
  <2> QED
    BY <1>3, <2>1, <2>2 DEF Holding, Fresh, Writing, InSave
<1>4. CASE ReadConfig(p)
  <2>1. pc[p] = "config" /\ mem[p] = NoSecrets /\ UNCHANGED <<file, tmp, raced>>
    BY <1>4 DEF ReadConfig, Fresh, disk, history
  <2>2. CASE BeginSave(p, "config", "secrets") /\ UNCHANGED <<job, mem>>
    <3>1. pc'[p] = "open" /\ mem'[p] = NoSecrets
      BY <2>1, <2>2, <1>a DEF BeginSave, Goto
    <3> QED
      BY <2>1, <3>1 DEF Holding, Fresh, Writing
  <2>3. CASE Goto(p, "secrets") /\ UNCHANGED <<job, mem, save>>
    BY <1>3, <2>1, <2>3 DEF Goto
  <2> QED
    BY <1>1, <1>4, <2>1, <2>2, <2>3 DEF ReadConfig
<1>5. CASE SecretsRefused(p) \/ RenameFails(p) \/ CallFails(p)
  BY <1>2, <1>5 DEF SecretsRefused, RenameFails, CallFails, InSave, disk, history
<1>6. CASE SetPassword(p)
  <2>1. mem[p] # NoSecrets /\ pc[p] \in {"loaded", "up"} /\ mem[p] \in Loaded /\ UNCHANGED <<file, tmp, raced>>
    BY <1>6, <1>a DEF SetPassword, Holds, disk, history
  <2>2. /\ pc'[p] = "open" /\ save'[p].of = "secrets"
        /\ mem'[p] = [mem[p] EXCEPT !.password = "own"]
    BY <1>6, <1>a DEF SetPassword, BeginSave, Goto
  <2>3. mem'[p].token = mem[p].token
    BY <2>1, <2>2 DEF Loaded, Secrets
  <2>4. file["secrets"] # Missing
    BY <2>1 DEF Fresh, Saves, InSave
  <2> QED
    BY <2>1, <2>2, <2>3, <2>4 DEF Holding, Fresh, Writing, InSave
<1>7. CASE Killed(p) \/ \E late \in {0, 1} : Used(p, late)
  BY <1>1, <1>7 DEF Killed, Used, disk, history
<1>8. CASE \E j \in Jobs : Launch(p, j)
  BY <1>3, <1>8 DEF Launch, Goto, disk, history, Fresh
<1>9. CASE p = Service /\ EnsureSelfSigned
  <2>1. PICK l \in {"cert", "crtfill", "key", "keyfill"}, n \in {"crtfill", "key", "keyfill", "pair"} :
          pc[p] = l /\ pc' = [pc EXCEPT ![p] = n] /\ UNCHANGED <<file, tmp, raced, mem, save>>
    BY <1>9, Zenon DEF EnsureSelfSigned, Certify, Goto, disk, history
  <2> QED
    BY <1>3, <2>1
<1>10. CASE p = Service /\ LoadPair
  BY <1>1, <1>3, <1>10 DEF LoadPair, Goto, disk, history
<1>11. CASE p = Service /\ Listen
  BY <1>3, <1>11 DEF Listen, Goto, disk, history
<1> QED
  BY <1>4, <1>5, <1>6, <1>7, <1>8, <1>9, <1>10, <1>11 DEF Acts

LEMMA TokensPreserved ==
  ASSUME ShapeInv, NEW p \in Procs, Acts(p), \A q \in Procs : Fresh(q), TokenInv
  PROVE  (\A q \in Procs : Fresh(q)') /\ TokenInv'
<1>a. Alone(p)
  BY ActsAlone
<1>0. Holding(p) \/ ReadSecrets(p) \/ Open(p) \/ Write(p) \/ Rename(p)
  BY ActsHold
<1>b. /\ \A q \in Procs : mem[q] \in Loaded \cup {NoSecrets} /\ Holds(q)
      /\ mem \in [Procs -> Loaded \cup {NoSecrets}] /\ save \in [Procs -> SaveRecord]
      /\ pc \in [Procs -> Places] /\ Globals /\ Kinds
      /\ file \in [Saved -> Data] /\ tmp \in [Saved -> Data] /\ "secrets" \in Saved
  BY Types DEF ShapeInv, Saved
<1>c. ASSUME NEW q \in Procs, q # p PROVE Fresh(q)'
  BY <1>a, <1>c DEF Alone, Fresh, Saves, InSave
<1>d. \A q \in Procs : Writing(q) /\ save[q].of = "secrets" => mem[q] # NoSecrets
  BY <1>b DEF Writing, Holds, InSave
<1>e. \A q \in Procs \ {p} : Writing(q)' /\ save'[q].of = "secrets" => Writing(q) /\ save[q].of = "secrets"
  BY <1>a DEF Alone, Writing
<1>1. CASE Holding(p)
  <2>1. ASSUME NEW n \in 0 .. MaxTokens, InUse(n) PROVE InUse(n)'
    BY <1>1, <1>a, <1>e, <2>1 DEF Holding, Alone, InUse
  <2> QED
    BY <1>1, <1>c, <2>1 DEF Holding, TokenInv
<1>2. CASE ReadSecrets(p)
  <2> DEFINE c == file["secrets"]
  <2>1. /\ c \in Loaded \cup {Missing} /\ pc[p] = "secrets"
        /\ mem'[p] = Completed(c) /\ UNCHANGED <<file, tmp>>
        /\ c = Missing => tokens + 1 \in 0 .. MaxTokens
    BY <1>2, <1>b, StartupAssumption DEF ReadSecrets, Kinds, Unreadable, disk, Globals
  <2>2. mem'[p] = Completed(c) /\ Completed(c).token = IF c = Missing THEN tokens + 1 ELSE c.token
    BY <2>1 DEF Completed, Loaded
  <2>3. c = Missing => pc'[p] = "open" /\ save'[p].of = "secrets" /\ save'[p].then = Ready(p)
    <3>1. c = Missing => Completed(c) \in Secrets
      BY <2>1 DEF Completed, Secrets
    <3>2. c = Missing => Completed(c) # c
      BY <3>1, StartupAssumption
    <3> QED
      BY <1>2, <1>b, <3>2 DEF ReadSecrets, BeginSave, Goto
  <2>4. pc'[p] \in {"open", "cert", "loaded"} /\ (pc'[p] = "open" => save'[p].of = "secrets")
    BY <1>2, <1>b DEF ReadSecrets, BeginSave, Goto, Ready
  <2>5. Fresh(p)'
    BY <2>1, <2>3, <2>4 DEF Fresh, Saves, InSave, Ready
  <2>6. ASSUME ~raced' PROVE \E n \in 0 .. MaxTokens : InUse(n)'
    <3>1. ~raced /\ (c = Missing => \A q \in Procs \ {p} : mem[q] = NoSecrets)
      BY <1>2, <2>6 DEF ReadSecrets
    <3>2. PICK n \in 0 .. MaxTokens : InUse(n)
      BY <3>1 DEF TokenInv
    <3>3. CASE c = Missing
      <4>1. \A q \in Procs : ~(Writing(q)' /\ save'[q].of = "secrets")
        BY <1>d, <1>e, <2>4, <3>1, <3>3 DEF Writing
      <4>2. PICK m \in 0 .. MaxTokens : m = tokens + 1
        BY <2>1, <3>3
      <4>3. \A q \in Procs : mem'[q] # NoSecrets => mem'[q].token = m
        BY <1>a, <2>2, <3>1, <3>3, <4>2 DEF Alone
      <4>4. InUse(m)'
        BY <2>1, <3>3, <4>1, <4>3, StartupAssumption DEF InUse
      <4> QED
        BY <4>4
    <3>4. CASE c # Missing
      <4>1. c \in Secrets /\ c.token = n
        BY <2>1, <3>2, <3>4 DEF InUse, Loaded
      <4>2. InUse(n)'
        BY <1>a, <2>1, <2>2, <3>2, <3>4, <4>1 DEF InUse, Alone
      <4> QED
        BY <4>2
    <3> QED
      BY <3>3, <3>4
  <2> QED
    BY <1>c, <2>5, <2>6 DEF TokenInv
<1>3. CASE Open(p)
  <2>1. /\ pc[p] = "open" /\ pc'[p] = "write" /\ UNCHANGED <<file, mem, raced>>
        /\ save'[p].of = save[p].of /\ save'[p].then = save[p].then
        /\ tmp' = [tmp EXCEPT ![save[p].of] = Empty]
    BY <1>3, <1>b DEF Open, Goto, SaveRecord
  <2>2. Fresh(p)'
    BY <2>1 DEF Fresh, Saves, InSave
  <2>3. tmp'["secrets"] \in Secrets => tmp'["secrets"] = tmp["secrets"] /\ save[p].of # "secrets"
    BY <1>b, <2>1, StartupAssumption
  <2>4. ASSUME NEW n \in 0 .. MaxTokens, InUse(n) PROVE InUse(n)'
    BY <1>e, <2>1, <2>3, <2>4 DEF InUse
  <2> QED
    BY <1>c, <2>1, <2>2, <2>4 DEF TokenInv
<1>4. CASE Write(p)
  <2>1. /\ pc[p] = "write" /\ pc'[p] = "rename" /\ UNCHANGED <<mem, raced>>
        /\ save'[p].of = save[p].of /\ save'[p].then = save[p].then
    BY <1>4, <1>b DEF Write, Goto, SaveRecord, history
  <2>2. Fresh(p)'
    BY <1>a, <2>1 DEF Fresh, Saves, InSave, Alone
  <2>3. save[p].of = "secrets" => Snapshot(p) = mem[p] /\ mem[p] # NoSecrets
    BY <1>d, <2>1 DEF Snapshot, Writing
  <2>4. /\ file'["secrets"] = file["secrets"] \/ (save[p].of = "secrets" /\ file'["secrets"] \in {mem[p], Mixed})
        /\ tmp'["secrets"] = tmp["secrets"] \/ (save[p].of = "secrets" /\ tmp'["secrets"] \in {mem[p], Mixed})
    <3> DEFINE f == save[p].of
    <3>1. \A old : Over(old, Snapshot(p)) \subseteq {Snapshot(p), Mixed}
      BY DEF Over
    <3>2. \/ UNCHANGED <<file, tmp>>
          \/ \E d \in {Snapshot(p), Mixed} : UNCHANGED file /\ tmp' = [tmp EXCEPT ![f] = d]
          \/ \E d \in {Snapshot(p), Mixed} : UNCHANGED tmp /\ file' = [file EXCEPT ![f] = d]
      BY <1>4, <3>1 DEF Write, disk
    <3> HIDE DEF f
    <3>3. f = "secrets" => Snapshot(p) = mem[p]
      BY <2>3 DEF f
    <3>4. ASSUME NEW d \in {Snapshot(p), Mixed}, NEW old, NEW new, old \in [Saved -> Data],
                 new = [old EXCEPT ![f] = d]
          PROVE  new["secrets"] = old["secrets"] \/ (f = "secrets" /\ new["secrets"] \in {mem[p], Mixed})
      BY <3>3, <3>4 DEF Saved
    <3>5. file \in [Saved -> Data] /\ tmp \in [Saved -> Data]
      BY <1>b
    <3> QED
      BY <3>2, <3>4, <3>5 DEF f
  <2>5. ASSUME NEW n \in 0 .. MaxTokens, InUse(n) PROVE InUse(n)'
    <3>1. /\ Mixed \notin Secrets /\ Mixed # Missing
          /\ save[p].of = "secrets" => Writing(p) /\ mem[p].token = n
      BY <2>1, <2>3, <2>5, StartupAssumption DEF InUse, Writing
    <3>2. file'["secrets"] \in Secrets => file'["secrets"].token = n
      BY <2>4, <2>5, <3>1 DEF InUse
    <3>3. /\ tmp'["secrets"] \in Secrets
          /\ file'["secrets"] # Missing \/ \E q \in Procs : (Writing(q) /\ save[q].of = "secrets")'
          => tmp'["secrets"].token = n
      <4>1. CASE save[p].of = "secrets"
        BY <2>4, <2>5, <3>1, <4>1 DEF InUse
      <4>2. CASE save[p].of # "secrets"
        <5>1. tmp'["secrets"] = tmp["secrets"] /\ file'["secrets"] = file["secrets"]
          BY <2>4, <4>2
        <5>2. \A q \in Procs : (Writing(q) /\ save[q].of = "secrets")' => Writing(q) /\ save[q].of = "secrets"
          BY <1>e, <2>1, <4>2
        <5> QED
          BY <2>5, <5>1, <5>2 DEF InUse
      <4> QED
        BY <4>1, <4>2
    <3> QED
      BY <2>1, <2>5, <3>2, <3>3 DEF InUse
  <2> QED
    BY <1>c, <2>1, <2>2, <2>5 DEF TokenInv
<1>5. CASE Rename(p)
  <2> DEFINE f == save[p].of
             l == save[p].then
  <2>1. /\ pc[p] = "rename" /\ pc'[p] = l /\ UNCHANGED raced /\ tmp[f] # Missing
        /\ file' = [file EXCEPT ![f] = tmp[f]] /\ tmp' = [tmp EXCEPT ![f] = Missing]
        /\ mem'[p] = IF l = "down" THEN NoSecrets ELSE mem[p]
    BY <1>5, <1>b DEF Rename, Goto, history
  <2>2. f \in Saved /\ (IF f = "config" THEN l = "secrets" /\ mem[p] = NoSecrets
                         ELSE l \in {"cert", "loaded", "down", "up"})
    BY <1>b, <2>1 DEF Holds, InSave, Fresh, SaveRecord
  <2>3. file'["secrets"] = Missing => f = "config" /\ file["secrets"] = Missing
    BY <1>b, <2>1, <2>2 DEF Saved
  <2> HIDE DEF f, l
  <2>4. Fresh(p)'
    BY <2>1, <2>2, <2>3 DEF Fresh, Saves, InSave, Saved
  <2>5. ~Writing(p)'
    BY <2>1, <2>2 DEF Writing, Saved
  <2>6. ASSUME NEW n \in 0 .. MaxTokens, InUse(n) PROVE InUse(n)'
    <3>1. \A q \in Procs : mem'[q] # NoSecrets => mem'[q].token = n
      BY <1>a, <2>1, <2>6 DEF InUse, Alone
    <3>2. CASE f = "secrets"
      <4>1. file'["secrets"] = tmp["secrets"] /\ tmp'["secrets"] = Missing /\ Writing(p) /\ save[p].of = "secrets"
        BY <1>b, <2>1, <3>2 DEF f, Writing
      <4> QED
        BY <2>6, <3>1, <4>1, StartupAssumption DEF InUse
    <3>3. CASE f = "config"
      <4>1. file'["secrets"] = file["secrets"] /\ tmp'["secrets"] = tmp["secrets"]
        BY <1>b, <2>1, <3>3
      <4> QED
        BY <1>e, <2>5, <2>6, <3>1, <4>1 DEF InUse
    <3> QED
      BY <2>2, <3>2, <3>3 DEF Saved
  <2> QED
    BY <1>c, <2>1, <2>4, <2>6 DEF TokenInv
<1> QED
  BY <1>0, <1>1, <1>2, <1>3, <1>4, <1>5

(* A process that has a request in hand does nothing but forward it.       *)
LEMMA CallKept ==
  ASSUME CallInv, NEW p \in Procs, Alone(p), call' = [t \in Tools |-> IF t = p THEN NoCall ELSE call[t]]
  PROVE  CallInv'
<1>1. ASSUME NEW t \in Tools PROVE CallOf(t)'
  <2>1. CASE t = p
    BY <2>1 DEF CallOf
  <2>2. CASE t # p
    BY <2>2 DEF CallInv, CallOf, Alone, Procs
  <2> QED
    BY <2>1, <2>2
<1> QED
  BY <1>1 DEF CallInv

LEMMA CallsPreserved ==
  ASSUME ShapeInv, CallInv, RequestsNext
  PROVE  CallInv' /\ ((\E p \in Procs : Acts(p)) \/ UNCHANGED startupVars)
<1>a. Service \in Procs /\ Service \notin Tools /\ Tools \subseteq Procs
  BY StartupAssumption DEF Procs
<1>b. ASSUME NEW p \in Procs, Acts(p), UNCHANGED call, p \in Tools => call[p] = NoCall
      PROVE  CallInv' /\ \E q \in Procs : Acts(q)
  <2>1. call' = [t \in Tools |-> IF t = p THEN NoCall ELSE call[t]]
    BY <1>b DEF CallInv
  <2> QED
    BY <1>b, <2>1, ActsAlone, CallKept
<1>c. ASSUME NEW p \in Procs, Acts(p), call' = [t \in Tools |-> IF t = p THEN NoCall ELSE call[t]]
      PROVE  CallInv' /\ \E q \in Procs : Acts(q)
  BY <1>c, ActsAlone, CallKept
<1>d. ASSUME NEW t \in Tools, ~(pc[t] = "loaded" /\ job[t] = "gateway")
      PROVE  call[t] = NoCall
  BY <1>d DEF CallInv, CallOf
<1>1. ASSUME NEW p \in Procs, Elsewhere(ProcStep(p)) PROVE CallInv' /\ \E q \in Procs : Acts(q)
  <2>1. ProcStep(p) /\ UNCHANGED call
    BY <1>1 DEF Elsewhere
  <2>2. Acts(p)
    BY <2>1 DEF ProcStep, Acts
  <2>3. p \in Tools => ~(pc[p] = "loaded" /\ job[p] = "gateway")
    BY <1>a, <2>1 DEF ProcStep, ReadConfig, ReadSecrets, SecretsRefused, Open, Write, Rename, RenameFails, SetPassword
  <2> QED
    BY <1>b, <1>d, <2>1, <2>2, <2>3
<1>2. ASSUME NEW p \in Procs, Elsewhere(CallFails(p)) PROVE CallInv' /\ \E q \in Procs : Acts(q)
  BY <1>2, <1>b, <1>d DEF Elsewhere, CallFails, InSave, Acts
<1>3. ASSUME NEW p \in Procs, NEW j \in Jobs, Launch(p, j), UNCHANGED call
      PROVE  CallInv' /\ \E q \in Procs : Acts(q)
  BY <1>3, <1>b, <1>d DEF Launch, Acts
<1>4. ASSUME NEW p \in Procs, Stopped(p) PROVE CallInv' /\ \E q \in Procs : Acts(q)
  BY <1>4, <1>c DEF Stopped, Acts
<1>5. CASE ComesUp \/ ChangePassword
  <2>1. Acts(Service) /\ UNCHANGED call
    BY <1>5 DEF ComesUp, ChangePassword, Acts
  <2> QED
    BY <1>a, <1>b, <2>1
<1>6. ASSUME NEW d \in DirectCalls, DirectRequest(d) PROVE CallInv' /\ UNCHANGED startupVars
  <2>1. UNCHANGED <<startupVars, call>>
    BY <1>6 DEF DirectRequest
  <2>2. UNCHANGED <<pc, job, mem, call>>
    BY <2>1 DEF startupVars, process
  <2> QED
    BY <2>1, <2>2 DEF CallInv, CallOf
<1>7. ASSUME NEW t \in Tools, EnterPanel(t) \/ AskForCode(t) \/ Deny(t)
      PROVE  CallInv' /\ \E q \in Procs : Acts(q)
  <2>1. CASE EnterPanel(t)
    BY <1>a, <1>3, <2>1 DEF EnterPanel, Jobs
  <2>2. CASE AskForCode(t)
    <3>1. Used(t, 0) /\ job[t] = "print" /\ UNCHANGED call
      BY <2>2 DEF AskForCode
    <3> QED
      BY <1>a, <1>b, <1>d, <3>1 DEF Acts
  <2>3. CASE Deny(t)
    <3>1. Used(t, 0) /\ call[t] = NoCall /\ UNCHANGED call
      BY <2>3 DEF Deny
    <3> QED
      BY <1>a, <1>b, <3>1 DEF Acts
  <2> QED
    BY <1>7, <2>1, <2>2, <2>3
<1>8. ASSUME NEW t \in Tools, Forward(t) \/ ForwardTimesOut(t)
      PROVE  CallInv' /\ \E q \in Procs : Acts(q)
  <2>1. PICK late \in {0, 1} : Used(t, late) /\ call' = [call EXCEPT ![t] = NoCall]
    BY <1>8 DEF Forward, ForwardTimesOut
  <2>2. Acts(t)
    BY <2>1 DEF Acts
  <2>3. call' = [s \in Tools |-> IF s = t THEN NoCall ELSE call[s]]
    BY <2>1 DEF CallInv
  <2> QED
    BY <1>a, <1>c, <2>2, <2>3
<1>9. ASSUME NEW t \in Tools, NEW b \in BrowserCalls, ReadRequest(t, b)
      PROVE  CallInv' /\ UNCHANGED startupVars
  <2> DEFINE c == [path |-> b.path, host |-> b.host, origin |-> b.origin, from |-> b.from, peer |-> "loopback",
                   forwarded |-> MarkProxied(b), real |-> "none", viahost |-> TRUE, token |-> Injected(t, b), code |-> code,
                   session |-> IF b.bearer THEN session ELSE 0]
  <2>1. /\ pc[t] = "loaded" /\ job[t] = "gateway" /\ Forwards(b) /\ UNCHANGED startupVars
        /\ call' = [call EXCEPT ![t] = c]
    BY <1>9 DEF ReadRequest
  <2>2. UNCHANGED <<pc, job, mem>>
    BY <2>1 DEF startupVars, process
  <2>3. /\ c.path # "handoff" /\ c.peer = "loopback" /\ c.from \in Addresses /\ c.forwarded = <<c.from>>
        /\ c.token # 0 => mem[t] # NoSecrets /\ c.token = mem[t].token
    BY <2>1, RequestsAssumption DEF Forwards, BrowserCall, MarkProxied, Injected
  <2> HIDE DEF c
  <2>4. call' = [s \in Tools |-> IF s = t THEN c ELSE call[s]]
    BY <2>1 DEF CallInv
  <2>5. ASSUME NEW s \in Tools PROVE CallOf(s)'
    <3>1. CASE s = t
      BY <2>1, <2>2, <2>3, <2>4, <3>1 DEF CallOf
    <3>2. CASE s # t
      BY <2>2, <2>4, <3>2 DEF CallInv, CallOf
    <3> QED
      BY <3>1, <3>2
  <2> QED
    BY <2>1, <2>4, <2>5 DEF CallInv
<1> QED
  BY <1>1, <1>2, <1>3, <1>4, <1>5, <1>6, <1>7, <1>8, <1>9, <1>a DEF RequestsNext, RequestStep, Elsewhere

(* The inductive invariant of the panel: of the start and of the requests. *)
ServiceInv == StartInv /\ PanelInv

LEMMA ServiceInit == RequestsInit => ServiceInv
<1> SUFFICES ASSUME RequestsInit PROVE ServiceInv
  OBVIOUS
<1>1. StartInv /\ StartupInit
  BY StartInit DEF RequestsInit
<1>2. CallInv
  BY DEF RequestsInit, CallInv, CallOf
<1>3. \A p \in Procs : mem[p] = NoSecrets /\ pc[p] = "down"
  BY <1>1 DEF StartupInit
<1>4. \A p \in Procs : Fresh(p)
  BY <1>3 DEF Fresh
<1>5. tmp["secrets"] = Missing /\ (file["secrets"] \in Secrets => file["secrets"].token = 1)
  BY <1>1, StartupAssumption DEF StartupInit, Saved
<1>6. InUse(1)
  BY <1>3, <1>5, StartupAssumption DEF InUse
<1>7. 1 \in 0 .. MaxTokens
  BY StartupAssumption
<1> QED
  BY <1>1, <1>2, <1>4, <1>6, <1>7 DEF ServiceInv, PanelInv, TokenInv

LEMMA ServicePreserved == ServiceInv /\ [RequestsNext]_requestVars => ServiceInv'
<1> SUFFICES ASSUME ServiceInv, [RequestsNext]_requestVars PROVE ServiceInv'
  OBVIOUS
<1>a. ShapeInv /\ PanelInv
  BY DEF ServiceInv, StartInv
<1>1. ASSUME UNCHANGED startupVars, CallInv' PROVE ServiceInv'
  <2>1. StartInv'
    BY <1>1, StartPreserved DEF ServiceInv
  <2>2. UNCHANGED <<pc, mem, save, file, tmp, raced>>
    BY <1>1 DEF startupVars, process, disk, history
  <2>3. (\A p \in Procs : Fresh(p)')
    BY <1>a, <2>2 DEF PanelInv, Fresh, Saves, InSave
  <2>4. TokenInv'
    BY <1>a, <2>2 DEF PanelInv, TokenInv, InUse, Writing
  <2> QED
    BY <1>1, <2>1, <2>3, <2>4 DEF ServiceInv, PanelInv
<1>2. ASSUME NEW p \in Procs, Acts(p), CallInv' PROVE ServiceInv'
  <2>1. (\A q \in Procs : Fresh(q)') /\ TokenInv'
    BY <1>a, <1>2, TokensPreserved DEF PanelInv
  <2>2. StartInv'
    BY <1>2, ActsPreserve DEF ServiceInv
  <2> QED
    BY <1>2, <2>1, <2>2 DEF ServiceInv, PanelInv
<1>3. CASE RequestsNext
  BY <1>a, <1>1, <1>2, <1>3, CallsPreserved DEF PanelInv
<1>4. CASE UNCHANGED requestVars
  <2>1. UNCHANGED startupVars /\ UNCHANGED <<pc, job, mem, call>>
    BY <1>4 DEF requestVars, startupVars, process
  <2>2. CallInv'
    BY <1>a, <2>1 DEF PanelInv, CallInv, CallOf
  <2> QED
    BY <1>1, <2>1, <2>2
<1> QED
  BY <1>3, <1>4

(* The least of the reasons to refuse a request is one of them.            *)
LEMMA LeastRefusal ==
  ASSUME NEW S \in SUBSET (1 .. 8), S # {}
  PROVE  Min(S) \in S
<1>1. \E x \in S : \A y \in S : x <= y
  <2> DEFINE Least(x) == x \in S /\ \A y \in S : x <= y
  <2>1. 1 \in S => Least(1)
    OBVIOUS
  <2>2. 1 \notin S /\ 2 \in S => Least(2)
    OBVIOUS
  <2>3. 1 \notin S /\ 2 \notin S /\ 3 \in S => Least(3)
    OBVIOUS
  <2>4. S \cap 1 .. 3 = {} /\ 4 \in S => Least(4)
    OBVIOUS
  <2>5. S \cap 1 .. 4 = {} /\ 5 \in S => Least(5)
    OBVIOUS
  <2>6. S \cap 1 .. 5 = {} /\ 6 \in S => Least(6)
    OBVIOUS
  <2>7. S \cap 1 .. 6 = {} /\ 7 \in S => Least(7)
    OBVIOUS
  <2>8. S \cap 1 .. 7 = {} => Least(8)
    <3>1. \A x \in 1 .. 8 : x = 8 \/ x \in 1 .. 7
      OBVIOUS
    <3>2. S \cap 1 .. 7 = {} => \A x \in S : x = 8
      BY <3>1
    <3>3. S \cap 1 .. 7 = {} => 8 \in S
      BY <3>2
    <3> QED
      BY <3>2, <3>3
  <2>9. \E x \in 1 .. 8 : Least(x)
    <3> HIDE DEF Least
    <3> QED
      BY <2>1, <2>2, <2>3, <2>4, <2>5, <2>6, <2>7, <2>8
  <2> QED
    BY <2>9
<1> QED
  BY <1>1 DEF Min

LEMMA AnswerIsOfAReason ==
  ASSUME NEW c
  PROVE  \/ Answer(c) = "ok" /\ \A i \in 1 .. 8 : ~Checks(c)[i].refuses
         \/ \E i \in 1 .. 8 : Checks(c)[i].refuses /\ Answer(c) = Checks(c)[i].as
<1> DEFINE refusals == {i \in DOMAIN Checks(c) : Checks(c)[i].refuses}
<1>1. DOMAIN Checks(c) = 1 .. 8
  BY DEF Checks
<1>2. refusals \in SUBSET (1 .. 8)
  BY <1>1
<1>3. CASE refusals = {}
  BY <1>1, <1>3 DEF Answer
<1>4. CASE refusals # {}
  <2>1. Min(refusals) \in refusals
    BY <1>2, <1>4, LeastRefusal
  <2>2. Answer(c) = Checks(c)[Min(refusals)].as
    BY <1>4 DEF Answer
  <2> QED
    BY <1>1, <2>1, <2>2
<1> QED
  BY <1>3, <1>4

(* Who has the token of the service is not sent away as a stranger, and who*)
(* gets a code is a caller on the device.                                  *)
LEMMA TokenIsTaken ==
  ASSUME NEW c, IsApiToken(c)
  PROVE  Answer(c) # "unauthorized"
<1>1. Checks(c)[3].refuses = (NeedsLogin(c.path) /\ ~IsApiToken(c) /\ ~IsSession(c))
  BY DEF Checks
<1>2. \A i \in 1 .. 8 : i # 3 => Checks(c)[i].as # "unauthorized"
  BY DEF Checks
<1> QED
  BY <1>1, <1>2, AnswerIsOfAReason

LEMMA CodeIsForTheDevice ==
  ASSUME NEW c, c.path = "handoff", Answer(c) = "ok"
  PROVE  MayHandOff(c)
<1>1. Checks(c)[5].refuses = (c.path = "handoff" /\ ~MayHandOff(c))
  BY DEF Checks
<1>2. \A i \in 1 .. 8 : Checks(c)[i].as # "ok"
  BY DEF Checks
<1>3. ~Checks(c)[5].refuses
  BY <1>2, AnswerIsOfAReason
<1> QED
  BY <1>1, <1>3

(* Between a browser and the service there is only the gateway.            *)
LEMMA ClientOfTheGateway ==
  ASSUME NEW c, c.peer = "loopback", c.from \in Addresses, c.forwarded = <<c.from>>
  PROVE  ClientIP(c) = IF "loopback" \in Trusted THEN c.from ELSE "loopback"
<1> DEFINE legible == {i \in DOMAIN c.forwarded : c.forwarded[i] \in Addresses}
           hops    == {i \in legible : c.forwarded[i] \notin Trusted}
<1>1. DOMAIN c.forwarded = {1} /\ c.forwarded[1] = c.from
  OBVIOUS
<1>2. legible = {1} /\ hops = IF c.from \in Trusted THEN {} ELSE {1}
  BY <1>1
<1>3. Max({1}) = 1
  BY DEF Max
<1>4. Told(c) =
        CASE hops # {}                     -> c.forwarded[Max(hops)]
          [] hops = {} /\ 1 \in legible    -> c.forwarded[1]
          [] hops = {} /\ 1 \notin legible -> c.real
  BY DEF Told
<1> HIDE DEF legible, hops
<1>5. Told(c) = c.from
  BY <1>1, <1>2, <1>3, <1>4
<1> QED
  BY <1>5 DEF ClientIP

LEMMA ServiceImplies ==
  ServiceInv => NoStartIsRefused /\ CredentialsAgree /\ CodesStayOnTheDevice /\ GatewayKeepsTheClient
<1> SUFFICES ASSUME ServiceInv
             PROVE  NoStartIsRefused /\ CredentialsAgree /\ CodesStayOnTheDevice /\ GatewayKeepsTheClient
  OBVIOUS
<1>a. StartInv /\ ShapeInv /\ PanelInv /\ CallInv
  BY DEF ServiceInv, StartInv, PanelInv
<1>1. NoStartIsRefused
  BY <1>a, StartImplies
<1>2. CredentialsAgree
  <2> SUFFICES ASSUME ~raced, ~Unreadable("secrets")
               PROVE  /\ \A p \in Procs : mem[p] # NoSecrets /\ ~InSave(p) => mem[p].token = file["secrets"].token
                      /\ \A t \in Forwarding : call[t].token # 0 /\ Serving => Answer(call[t]) # "unauthorized"
    BY DEF CredentialsAgree
  <2>1. PICK n \in 0 .. MaxTokens : InUse(n)
    BY <1>a DEF PanelInv, TokenInv
  <2>2. ASSUME NEW p \in Procs, mem[p] # NoSecrets, ~InSave(p)
        PROVE  mem[p].token = file["secrets"].token
    <3>1. file["secrets"] # Missing
      BY <1>a, <2>2 DEF PanelInv, Fresh, Saves
    <3>2. file["secrets"] \in Secrets
      BY <1>a, <3>1 DEF ShapeInv, Kinds, Loaded, Unreadable
    <3> QED
      BY <2>1, <2>2, <3>2 DEF InUse
  <2>3. ASSUME NEW t \in Forwarding, call[t].token # 0, Serving
        PROVE  Answer(call[t]) # "unauthorized"
    <3>1. t \in Procs /\ Service \in Procs /\ mem[t] # NoSecrets /\ call[t].token = mem[t].token
      BY <1>a, <2>3 DEF CallInv, CallOf, Forwarding, Procs
    <3>2. mem[Service] # NoSecrets
      <4>1. Holds(Service)
        BY <1>a, <3>1, Types
      <4>2. Fresh(Service)
        BY <1>a, <3>1 DEF PanelInv
      <4> QED
        BY <2>3, <4>1, <4>2 DEF Serving, Holds
    <3>3. IsApiToken(call[t])
      BY <2>1, <2>3, <3>1, <3>2 DEF InUse, IsApiToken
    <3> QED
      BY <3>3, TokenIsTaken
  <2> QED
    BY <2>2, <2>3
<1>3. CodesStayOnTheDevice
  <2> SUFFICES ASSUME NEW c \in {Sent(d) : d \in DirectCalls} \cup {call[t] : t \in Forwarding},
                      c.path = "handoff", Answer(c) = "ok"
               PROVE  c.from = "loopback"
    BY DEF CodesStayOnTheDevice
  <2>1. ~ArrivedViaProxy(c) /\ c.peer = "loopback"
    BY CodeIsForTheDevice DEF MayHandOff
  <2>2. ASSUME NEW d \in DirectCalls, c = Sent(d) PROVE c.from = "loopback"
    BY <2>1, <2>2, RequestsAssumption DEF Sent, ArrivedViaProxy
  <2>3. ASSUME NEW t \in Forwarding, c = call[t] PROVE FALSE
    BY <1>a, <2>3 DEF CallInv, CallOf, Forwarding
  <2> QED
    BY <2>2, <2>3
<1>4. GatewayKeepsTheClient
  BY <1>a, ClientOfTheGateway DEF GatewayKeepsTheClient, CallInv, CallOf, Forwarding
<1> QED
  BY <1>1, <1>2, <1>3, <1>4

-----------------------------------------------------------------------------
(* The device as a whole.                                                  *)
DeviceInv == ExportInv /\ ServiceInv

THEOREM DeviceInvariant == DeviceSpec => []DeviceInv
<1>1. DeviceInit => DeviceInv
  BY InvInitially, ServiceInit DEF DeviceInit, DeviceInv
<1>2. DeviceInv /\ [DeviceNext]_deviceVars => DeviceInv'
  <2> SUFFICES ASSUME DeviceInv, [DeviceNext]_deviceVars PROVE DeviceInv'
    OBVIOUS
  <2>1. [ExportNext]_exportVars /\ [RequestsNext]_requestVars
    BY DEF DeviceNext, deviceVars
  <2> QED
    BY <2>1, InvIsInductive, ServicePreserved DEF DeviceInv
<1> QED
  BY <1>1, <1>2, PTL DEF DeviceSpec

(* The same for the device as a whole: what is exported and counts as      *)
(* complete is complete.                                                   *)
THEOREM DeviceExportsAreWhole == DeviceSpec => []ExportedIsWhole
<1>1. DeviceInv => ExportedIsWhole
  BY WholeByInv DEF DeviceInv
<1> QED
  BY <1>1, DeviceInvariant, PTL

(* With requests coming in, too, no start is refused but for the two       *)
(* reasons (Save of secrets.go and config.go, ensure_self_signed).         *)
THEOREM DeviceComesBack == DeviceSpec => []NoStartIsRefused
<1>1. DeviceInv => NoStartIsRefused
  BY ServiceImplies DEF DeviceInv
<1> QED
  BY <1>1, DeviceInvariant, PTL

(* Whatever is saved, killed and started again, the token that a process   *)
(* has loaded is the one of the file and the one that the service takes    *)
(* (LoadSecrets, authorize of gateway.go, require_login).                  *)
THEOREM TokensAgree == DeviceSpec => []CredentialsAgree
<1>1. DeviceInv => CredentialsAgree
  BY ServiceImplies DEF DeviceInv
<1> QED
  BY <1>1, DeviceInvariant, PTL

(* A login code is issued to a caller on the device only, whoever connects *)
(* through the gateway or a reverse proxy (session.go, remote.go).         *)
THEOREM CodesAreForTheDevice == DeviceSpec => []CodesStayOnTheDevice
<1>1. DeviceInv => CodesStayOnTheDevice
  BY ServiceImplies DEF DeviceInv
<1> QED
  BY <1>1, DeviceInvariant, PTL

(* The service takes a request that the gateway forwards for one of the    *)
(* browser if auth.trusted_proxies holds the loopback, and for one of the  *)
(* device itself if not, which is the default (mark_proxied of gateway.go, *)
(* client_ip).                                                             *)
THEOREM ClientsAreKept == DeviceSpec => []GatewayKeepsTheClient
<1>1. DeviceInv => GatewayKeepsTheClient
  BY ServiceImplies DEF DeviceInv
<1> QED
  BY <1>1, DeviceInvariant, PTL

===============================================================================
