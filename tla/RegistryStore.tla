---------------------------- MODULE RegistryStore ----------------------------
(***************************************************************************)
(* The registry of internal/registry/store.go: Put and Delete change the   *)
(* map under the lock and then Save writes the file outside of it, by way  *)
(* of one temporary name shared by all of them. The file system is modelled*)
(* from how Save uses it: names that refer to inodes, data that reaches    *)
(* the flash with fsync or whenever the kernel pleases, a rename that is   *)
(* atomic but takes effect on flash later, and power cuts at any moment.   *)
(*                                                                         *)
(* Contents are sets of changes, as in AtomicRegistry.                     *)
(***************************************************************************)
EXTENDS Naturals, FiniteSets

CONSTANTS
  Writers,     (* Handlers that can be inside Put or Delete at one time.    *)
  Changes,     (* Bound: the changes that are made.                         *)
  Inodes,      (* Inodes of the directory.                                  *)
  NoFile,      (* The name does not exist.                                  *)
  Empty,       (* A file of length zero.                                    *)
  Garbage,     (* A file that is not valid JSON.                            *)
  DiskFails    (* Whether open, write, fsync, close or rename may fail.     *)

Contents   == SUBSET Changes
Unreadable == {Empty, Garbage}

ASSUME RegistryStoreAssumption ==
  /\ NoFile \notin Inodes
  /\ Empty # Garbage /\ \A c \in Contents : c \notin Unreadable
  /\ DiskFails \in BOOLEAN

VARIABLES
  memory,      (* s.entries.                                                *)
  pc,          (* Where each writer is in Put or Delete and in Save.        *)
  snapshot,    (* The JSON it marshalled.                                   *)
  fd,          (* The inode of its open file.                               *)
  tmp,         (* The inode of registry.json.tmp.                           *)
  file,        (* The inode of registry.json.                               *)
  flashFile,   (* The inode of registry.json that a power cut leaves.       *)
  data,        (* What a read of the inode returns.                         *)
  flashData,   (* What the last fsync of the inode made durable.            *)
  up,          (* FALSE once Load has refused the file: no service starts.  *)
  answered,    (* Auxiliary: the changes in the files of Saves that answered*)
               (* without an error, but for those a power cut has undone.   *)
  overlapped   (* Auxiliary: a Save has begun during another, which nothing *)
               (* in the code prevents.                                     *)

storeVars == <<memory, pc, snapshot>>
diskVars  == <<fd, tmp, file, flashFile, data, flashData>>
past      == <<answered, overlapped>>
registryVars == <<storeVars, diskVars, up, past>>

RegistryInit ==
  /\ memory = {}
  /\ pc = [w \in Writers |-> "idle"]
  /\ snapshot = [w \in Writers |-> {}]
  /\ fd = [w \in Writers |-> NoFile]
  /\ tmp = NoFile
  /\ file = NoFile
  /\ flashFile = NoFile
  /\ data = [i \in Inodes |-> Empty]
  /\ flashData = [i \in Inodes |-> Empty]
  /\ up = TRUE
  /\ answered = {}
  /\ overlapped = FALSE

InSave(w) == pc[w] \notin {"idle", "changed"}

Moves(w, from, to) == up /\ pc[w] = from /\ pc' = [pc EXCEPT ![w] = to]

-----------------------------------------------------------------------------
(* Put or Delete: the map is changed under the lock.                       *)
Change(w, c) ==
  /\ Moves(w, "idle", "changed")
  /\ c \notin memory
  /\ memory' = memory \cup {c}
  /\ UNCHANGED <<snapshot, diskVars, up, past>>

(* Save copies the map under the read lock and marshals it.                *)
Snapshot(w) ==
  /\ Moves(w, "changed", "snapped")
  /\ snapshot' = [snapshot EXCEPT ![w] = memory]
  /\ overlapped' = (overlapped \/ \E v \in Writers : InSave(v))
  /\ UNCHANGED <<memory, diskVars, up, answered>>

Unused(i) == i \notin {tmp, file, flashFile} /\ \A w \in Writers : fd[w] # i

(* OpenFile with O_CREATE and O_TRUNC: a temporary file that exists is     *)
(* emptied, also when another Save has it open.                            *)
Open(w) ==
  /\ Moves(w, "snapped", "opened")
  /\ \E i \in Inodes :
       /\ IF tmp = NoFile THEN Unused(i) ELSE i = tmp
       /\ tmp' = i
       /\ fd' = [fd EXCEPT ![w] = i]
       /\ data' = [data EXCEPT ![i] = Empty]
       /\ flashData' = IF tmp = NoFile THEN [flashData EXCEPT ![i] = Empty] ELSE flashData
  /\ UNCHANGED <<memory, snapshot, file, flashFile, up, past>>

(* Write at offset zero: over the data of another Save it leaves that      *)
(* data's tail when it is the shorter one.                                 *)
Write(w) ==
  /\ Moves(w, "opened", "written")
  /\ LET old == data[fd[w]] IN
       \E new \in IF old \in {Empty, snapshot[w]} THEN {snapshot[w]} ELSE {snapshot[w], Garbage} :
         data' = [data EXCEPT ![fd[w]] = new]
  /\ UNCHANGED <<memory, snapshot, fd, tmp, file, flashFile, flashData, up, past>>

(* Mutant of Fsync: the data is left in the page cache.                    *)
FsyncForgotten(w) ==
  /\ Moves(w, "written", "synced")
  /\ UNCHANGED <<memory, snapshot, diskVars, up, past>>

Fsync(w) ==
  /\ Moves(w, "written", "synced")
  /\ flashData' = [flashData EXCEPT ![fd[w]] = data[fd[w]]]
  /\ UNCHANGED <<memory, snapshot, fd, tmp, file, flashFile, data, up, past>>

Close(w) ==
  /\ Moves(w, "synced", "closed")
  /\ fd' = [fd EXCEPT ![w] = NoFile]
  /\ UNCHANGED <<memory, snapshot, tmp, file, flashFile, data, flashData, up, past>>

(* The temporary name takes over the file name. The handler answers 200.   *)
Rename(w) ==
  /\ Moves(w, "closed", "idle")
  /\ tmp # NoFile
  /\ file' = tmp
  /\ tmp' = NoFile
  /\ answered' = answered \cup snapshot[w]
  /\ UNCHANGED <<memory, snapshot, fd, flashFile, data, flashData, up, overlapped>>

(* Mutant of CallFails: an error on the way does not keep Save from        *)
(* renaming what it has written so far.                                    *)
CallFailsButRenames(w) ==
  /\ up
  /\ DiskFails /\ pc[w] \in {"opened", "written", "synced"}
  /\ file' = tmp
  /\ tmp' = NoFile
  /\ pc' = [pc EXCEPT ![w] = "idle"]
  /\ fd' = [fd EXCEPT ![w] = NoFile]
  /\ UNCHANGED <<memory, snapshot, flashFile, data, flashData, up, past>>

(* Mutant of CallFails: the error is lost and the handler answers 200.     *)
CallFailsUnnoticed(w) ==
  /\ up
  /\ InSave(w)
  /\ DiskFails \/ (pc[w] = "closed" /\ tmp = NoFile)
  /\ pc' = [pc EXCEPT ![w] = "idle"]
  /\ fd' = [fd EXCEPT ![w] = NoFile]
  /\ answered' = answered \cup snapshot[w]
  /\ UNCHANGED <<memory, snapshot, tmp, file, flashFile, data, flashData, up, overlapped>>

(* Any of these calls fails, or another Save has taken the temporary name  *)
(* away: Save returns the error with the file closed, the handler answers  *)
(* 500, and the memory keeps the change.                                   *)
CallFails(w) ==
  /\ up
  /\ InSave(w)
  /\ DiskFails \/ (pc[w] = "closed" /\ tmp = NoFile)
  /\ pc' = [pc EXCEPT ![w] = "idle"]
  /\ fd' = [fd EXCEPT ![w] = NoFile]
  /\ UNCHANGED <<memory, snapshot, tmp, file, flashFile, data, flashData, up, past>>

-----------------------------------------------------------------------------
(* The kernel writes back data nobody waits for, or the directory.         *)
WriteBack(i) ==
  /\ flashData[i] # data[i]
  /\ flashData' = [flashData EXCEPT ![i] = data[i]]
  /\ UNCHANGED <<storeVars, fd, tmp, file, flashFile, data, up, past>>

WriteBackNames ==
  /\ flashFile # file
  /\ flashFile' = file
  /\ UNCHANGED <<storeVars, fd, tmp, file, data, flashData, up, past>>

(* The start after a kill or a power cut: Load reads the file, and the     *)
(* service does not start when it is not valid JSON. The temporary file    *)
(* stays behind, or does not.                                              *)
StartsWith(survivor, cache) ==
  /\ up
  /\ file' = survivor /\ flashFile' = survivor
  /\ data' = cache /\ flashData' = cache
  /\ tmp' \in {tmp, NoFile}
  /\ up' = (survivor = NoFile \/ cache[survivor] \notin Unreadable)
  /\ memory' = IF survivor = NoFile \/ ~up' THEN {} ELSE cache[survivor]
  /\ pc' = [w \in Writers |-> "idle"]
  /\ snapshot' = [w \in Writers |-> {}]
  /\ fd' = [w \in Writers |-> NoFile]
  /\ UNCHANGED overlapped

(* A kill leaves the page cache as it is ...                               *)
Killed == StartsWith(file, data) /\ UNCHANGED answered

(* ... and after a power cut what was not written back is gone.            *)
PowerCut ==
  \E survivor \in {file, flashFile}, cache \in {data, flashData} :
    StartsWith(survivor, cache) /\ answered' = answered \cap memory'

RegistryNext ==
  \/ \E w \in Writers :
       \/ \E c \in Changes : Change(w, c)
       \/ Snapshot(w) \/ Open(w) \/ Write(w) \/ Fsync(w) \/ Close(w) \/ Rename(w) \/ CallFails(w)
  \/ \E i \in Inodes : WriteBack(i)
  \/ WriteBackNames
  \/ Killed \/ PowerCut

RegistrySpec == RegistryInit /\ [][RegistryNext]_registryVars

-----------------------------------------------------------------------------
(* What Load makes of a name.                                              *)
Loaded(i, cache) == IF i = NoFile \/ cache[i] \in Unreadable THEN {} ELSE cache[i]

(* Types, and that a Save has its file open exactly between open and close.*)
RegistryTypeOK ==
  /\ memory \in Contents
  /\ pc \in [Writers -> {"idle", "changed", "snapped", "opened", "written", "synced", "closed"}]
  /\ snapshot \in [Writers -> Contents]
  /\ fd \in [Writers -> Inodes \cup {NoFile}]
  /\ {tmp, file, flashFile} \subseteq Inodes \cup {NoFile}
  /\ data \in [Inodes -> Unreadable \cup Contents]
  /\ flashData \in [Inodes -> Unreadable \cup Contents]
  /\ up \in BOOLEAN
  /\ answered \in Contents
  /\ overlapped \in BOOLEAN
  /\ \A w \in Writers : fd[w] # NoFile <=> pc[w] \in {"opened", "written", "synced"}

(* No kill, power cut or failing call leaves a registry that the next start*)
(* refuses: writing a temporary file, fsync and rename "avoid that a power *)
(* cut breaks it" (Save, and ARCHITECTURE section 12). The exception is a  *)
(* Save during another. The types are checked with it.                     *)
RegistryAlwaysLoads == RegistryTypeOK /\ (~overlapped => up)

(* Put "writes an entry and saves it at once": what a handler was told is  *)
(* saved stays in the file, whatever other handlers change meanwhile,      *)
(* whichever Saves fail later and however often the service is killed, but *)
(* for a Save during another, and for a power cut before the directory was *)
(* written back.                                                           *)
AnsweredIsSaved == ~overlapped => answered \subseteq Loaded(file, data)

(* As long as no Save begins during another, the store is the atomic       *)
(* registry.                                                               *)
Atomic == INSTANCE AtomicRegistry WITH
  saving <- {snapshot[w] : w \in {v \in Writers : InSave(v)}},
  file <- Loaded(file, data), flash <- Loaded(flashFile, flashData)

ImplementsAtomicRegistry == Atomic!Init /\ [][~overlapped' => Atomic!Next]_Atomic!vars
=============================================================================
