------------------------------- MODULE Startup -------------------------------
(***************************************************************************)
(* The start of the program, run of cmd/wrtdeck/main.go, from the          *)
(* configuration to the first request: config.Load and LoadSecrets of      *)
(* internal/config, certs.Prepare of internal/certs. The service shares    *)
(* its data directory with short-lived processes of the same program that  *)
(* load, and may generate and save, the same files: -print-token,          *)
(* -reset-password and -gateway.                                           *)
(*                                                                         *)
(* A file is saved by truncating and writing <file>.tmp and renaming it.   *)
(* All processes use the same temporary name: what one of them holds open  *)
(* may be renamed by another before it is written. Power cuts are left to  *)
(* RegistryStore; here a process is killed, or one of its calls fails.     *)
(***************************************************************************)
EXTENDS Naturals

CONSTANTS
  Service,     (* The process that procd keeps running.                     *)
  Tools,       (* The short-lived processes.                                *)
  NoSecrets,   (* A process that has not loaded the secrets.                *)
  Missing,     (* What a file holds that is not there.                      *)
  Sample,      (* The configuration that is written when there is none.     *)
  Empty,       (* A file that was truncated.                                *)
  Mixed,       (* A file with the writes of two processes over one another. *)
  MaxTokens,   (* Bound: the tokens that are generated.                     *)
  MaxFailures  (* Bound: the kills and the calls that fail.                 *)

Procs   == {Service} \cup Tools
Jobs    == {"serve", "print", "reset", "gateway"}
Places  == {"down", "config", "secrets", "open", "write", "rename", "loaded",
            "cert", "crtfill", "key", "keyfill", "pair", "listen", "up"}
Saved   == {"config", "secrets"}
Secrets == [token : 0 .. MaxTokens, password : {"none", "initial", "own"}]
Data    == Secrets \cup {Sample, Missing, Empty, Mixed}

ASSUME StartupAssumption ==
  /\ Service \notin Tools /\ NoSecrets \notin Secrets
  /\ {Sample, Missing, Empty, Mixed} \cap Secrets = {}
  /\ Sample \notin {Missing, Empty, Mixed} /\ Missing \notin {Empty, Mixed} /\ Empty \notin {"none", "new"}
  /\ MaxTokens \in Nat \ {0} /\ MaxFailures \in Nat

VARIABLES
  file,        (* What each saved file holds ...                            *)
  tmp,         (* ... and its temporary file.                               *)
  crt, key,    (* The self-signed pair: each is "none", Empty or "new".     *)
  pc,          (* Where each process is.                                    *)
  job,         (* What it was started for.                                  *)
  mem,         (* The secrets in its memory.                                *)
  save,        (* The Save it is in: which file, where the inode that it    *)
               (* holds open is by now, and where the process goes on.      *)
  tokens,      (* The tokens generated so far.                              *)
  failures,    (* The kills and failures so far.                            *)
  raced,       (* History: two processes generated a token at once.         *)
  overlapped,  (* History: two Saves had one temporary file open.           *)
  keyCut       (* History: the service was stopped inside writing the key.  *)

disk        == <<file, tmp>>
pair        == <<crt, key>>
process     == <<pc, job, mem, save>>
history     == <<raced, overlapped, keyCut>>
startupVars == <<disk, pair, process, tokens, failures, history>>

Unreadable(f) == file[f] \in {Empty, Mixed}
InSave(p)     == pc[p] \in {"open", "write", "rename"}
Serving       == pc[Service] = "up" \/ (InSave(Service) /\ save[Service].then = "up")
NoSave        == [of |-> "config", at |-> "closed", then |-> "down"]

(* A new device, one that keeps the secrets of a version without passwords,*)
(* or one that has run before.                                             *)
StartupInit ==
  /\ \E kept \in {Missing, [token |-> 1, password |-> "none"], [token |-> 1, password |-> "own"]} :
       /\ file = [f \in Saved |-> IF f = "secrets" THEN kept ELSE Missing]
       /\ tokens = IF kept = Missing THEN 0 ELSE 1
  /\ tmp = [f \in Saved |-> Missing]
  /\ crt = "none" /\ key = "none"
  /\ pc = [p \in Procs |-> "down"]
  /\ job = [p \in Procs |-> "none"]
  /\ mem = [p \in Procs |-> NoSecrets]
  /\ save = [p \in Procs |-> NoSave]
  /\ failures = 0
  /\ raced = FALSE /\ overlapped = FALSE /\ keyCut = FALSE

-----------------------------------------------------------------------------
Goto(p, l)          == pc' = [pc EXCEPT ![p] = l]
BeginSave(p, f, l)  == /\ Goto(p, "open")
                       /\ save' = [save EXCEPT ![p] = [of |-> f, at |-> "closed", then |-> l]]

(* A process ends.                                                         *)
Ends(p) ==
  /\ Goto(p, "down")
  /\ job' = [job EXCEPT ![p] = "none"]
  /\ mem' = [mem EXCEPT ![p] = NoSecrets]
  /\ save' = [save EXCEPT ![p] = NoSave]

(* What an error leads to: a handler of the service reports it, the gateway*)
(* goes on without a token, every other process ends with it.              *)
GoesOn(p) == IF p = Service /\ Serving THEN "up" ELSE IF job[p] = "gateway" THEN "loaded" ELSE "down"

Errs(p) ==
  /\ Goto(p, GoesOn(p))
  /\ job' = IF GoesOn(p) = "down" THEN [job EXCEPT ![p] = "none"] ELSE job
  /\ mem' = IF GoesOn(p) = "up" THEN mem ELSE [mem EXCEPT ![p] = NoSecrets]
  /\ save' = [save EXCEPT ![p] = NoSave]

Launch(p, j) ==
  /\ pc[p] = "down"
  /\ (p = Service) <=> (j = "serve")
  /\ Goto(p, "config")
  /\ job' = [job EXCEPT ![p] = j]
  /\ UNCHANGED <<disk, pair, mem, save, tokens, failures, history>>

(* The gateway does not write a configuration: without a file it takes the *)
(* defaults (load_gateway_config).                                         *)
TakesDefaults(p) == file["config"] = Missing /\ job[p] = "gateway"

(* config.Load writes a sample when there is no file.                      *)
ReadConfig(p) ==
  /\ pc[p] = "config"
  /\ \/ /\ Unreadable("config")
        /\ Ends(p)
     \/ /\ file["config"] = Missing /\ ~TakesDefaults(p)
        /\ BeginSave(p, "config", "secrets")
        /\ UNCHANGED <<job, mem>>
     \/ /\ file["config"] = Sample \/ TakesDefaults(p)
        /\ Goto(p, "secrets")
        /\ UNCHANGED <<job, mem, save>>
  /\ UNCHANGED <<disk, pair, tokens, failures, history>>

(* Where a process goes once it has the secrets.                           *)
Ready(p) == IF job[p] = "serve" THEN "cert" ELSE "loaded"

(* The secrets of a file, completed with what it lacks.                    *)
Completed(c) ==
  [token    |-> IF c = Missing \/ c.token = 0 THEN tokens + 1 ELSE c.token,
   password |-> IF c = Missing \/ c.password = "none" THEN "initial" ELSE c.password]

(* LoadSecrets: what is missing is generated and saved. gateway_token looks*)
(* for the file first and never creates it.                                *)
ReadSecrets(p) ==
  LET c == file["secrets"] IN
  /\ pc[p] = "secrets"
  /\ ~Unreadable("secrets")
  /\ c = Missing => job[p] # "gateway" /\ tokens < MaxTokens
  /\ mem' = [mem EXCEPT ![p] = Completed(c)]
  /\ IF Completed(c) = c
       THEN Goto(p, Ready(p)) /\ UNCHANGED save
       ELSE BeginSave(p, "secrets", Ready(p))
  /\ tokens' = IF c = Missing THEN tokens + 1 ELSE tokens
  /\ raced' = (raced \/ (c = Missing /\ \E q \in Procs \ {p} : mem[q] # NoSecrets))
  /\ UNCHANGED <<disk, pair, job, failures, overlapped, keyCut>>

SecretsRefused(p) ==
  /\ pc[p] = "secrets"
  /\ Unreadable("secrets") \/ (file["secrets"] = Missing /\ job[p] = "gateway")
  /\ Errs(p)
  /\ UNCHANGED <<disk, pair, tokens, failures, history>>

(* Mutant of SetPassword: the token is replaced along with the password.   *)
SetPasswordAnew(p) ==
  /\ \/ pc[p] = "loaded" /\ job[p] = "reset" /\ BeginSave(p, "secrets", "down")
     \/ p = Service /\ pc[p] = "up" /\ BeginSave(p, "secrets", "up")
  /\ tokens < MaxTokens
  /\ mem' = [mem EXCEPT ![p] = [token |-> tokens + 1, password |-> "own"]]
  /\ tokens' = tokens + 1
  /\ UNCHANGED <<disk, pair, job, failures, history>>

(* reset_password, once the secrets are loaded; and, in the service, the   *)
(* change of the password by a handler.                                    *)
SetPassword(p) ==
  /\ \/ pc[p] = "loaded" /\ job[p] = "reset" /\ BeginSave(p, "secrets", "down")
     \/ p = Service /\ pc[p] = "up" /\ BeginSave(p, "secrets", "up")
  /\ mem' = [mem EXCEPT ![p].password = "own"]
  /\ UNCHANGED <<disk, pair, job, tokens, failures, history>>

-----------------------------------------------------------------------------
Snapshot(p) == IF save[p].of = "config" THEN Sample ELSE mem[p]

(* WriteFile opens the temporary file and truncates it, whoever's it is ...*)
Open(p) ==
  LET f == save[p].of IN
  /\ pc[p] = "open"
  /\ tmp' = [tmp EXCEPT ![f] = Empty]
  /\ save' = [save EXCEPT ![p].at = "tmp"]
  /\ overlapped' = (overlapped \/ \E q \in Procs \ {p} : pc[q] \in {"write", "rename"} /\ save[q].of = f)
  /\ Goto(p, "write")
  /\ UNCHANGED <<file, pair, job, mem, tokens, failures, raced, keyCut>>

(* What a file holds when a text is written into it: over another text that*)
(* was written since it was truncated, the rest of a longer one remains.   *)
Over(old, text) == IF old \in {Empty, text} THEN {text} ELSE {text, Mixed}

(* ... and writes it, wherever it has been renamed to.                     *)
Write(p) ==
  LET f == save[p].of IN
  /\ pc[p] = "write"
  /\ \/ /\ save[p].at = "tmp"
        /\ \E d \in Over(tmp[f], Snapshot(p)) : tmp' = [tmp EXCEPT ![f] = d]
        /\ UNCHANGED file
     \/ /\ save[p].at = "file"
        /\ \E d \in Over(file[f], Snapshot(p)) : file' = [file EXCEPT ![f] = d]
        /\ UNCHANGED tmp
     \/ /\ save[p].at = "gone"
        /\ UNCHANGED disk
  /\ Goto(p, "rename")
  /\ save' = [save EXCEPT ![p].at = "closed"]
  /\ UNCHANGED <<pair, job, mem, tokens, failures, history>>

(* Where the other processes' open files are after the temporary file of f *)
(* has replaced the file.                                                  *)
Moved(f) ==
  [q \in Procs |->
     IF save[q].of # f THEN save[q]
     ELSE [save[q] EXCEPT !.at = CASE @ = "tmp" -> "file" [] @ = "file" -> "gone" [] OTHER -> @]]

(* Rename fails when another process has taken the temporary file away.    *)
Rename(p) ==
  LET f == save[p].of IN
  /\ pc[p] = "rename"
  /\ tmp[f] # Missing
  /\ file' = [file EXCEPT ![f] = tmp[f]]
  /\ tmp' = [tmp EXCEPT ![f] = Missing]
  /\ Goto(p, save[p].then)
  /\ IF save[p].then = "down"
       THEN mem' = [mem EXCEPT ![p] = NoSecrets] /\ job' = [job EXCEPT ![p] = "none"]
       ELSE UNCHANGED <<mem, job>>
  /\ save' = [Moved(f) EXCEPT ![p] = NoSave]
  /\ UNCHANGED <<pair, tokens, failures, history>>

RenameFails(p) ==
  /\ pc[p] = "rename"
  /\ tmp[save[p].of] = Missing
  /\ Errs(p)
  /\ UNCHANGED <<disk, pair, tokens, failures, history>>

-----------------------------------------------------------------------------
(* Mutant of HasPair: either file is taken for the pair.                   *)
HasEither == crt # "none" \/ key # "none"

(* ensure_self_signed keeps a pair that is there, broken or not.           *)
HasPair == crt # "none" /\ key # "none"

(* certs.Prepare: the certificate is written in place, then the key; last  *)
(* the pair is loaded.                                                     *)
Certify(l, there, c, k, next) ==
  /\ pc[Service] = l
  /\ there
  /\ crt' = c
  /\ key' = k
  /\ Goto(Service, next)
  /\ UNCHANGED <<disk, job, mem, save, tokens, failures, history>>

EnsureSelfSigned ==
  \/ Certify("cert", HasPair, crt, key, "pair")
  \/ Certify("cert", ~HasPair, Empty, key, "crtfill")
  \/ Certify("crtfill", TRUE, "new", key, "key")
  \/ Certify("key", TRUE, crt, Empty, "keyfill")
  \/ Certify("keyfill", TRUE, crt, "new", "pair")

LoadPair ==
  /\ pc[Service] = "pair"
  /\ IF crt = "new" /\ key = "new"
       THEN Goto(Service, "listen") /\ UNCHANGED <<job, mem, save>>
       ELSE Ends(Service)
  /\ UNCHANGED <<disk, pair, tokens, failures, history>>

(* The listener is bound and the requests are answered.                    *)
Listen ==
  /\ pc[Service] = "listen"
  /\ Goto(Service, "up")
  /\ UNCHANGED <<disk, pair, job, mem, save, tokens, failures, history>>

-----------------------------------------------------------------------------
(* A tool has used the secrets, and ends; late counts as a failure.        *)
Used(t, late) ==
  /\ pc[t] = "loaded"
  /\ failures + late <= MaxFailures
  /\ failures' = failures + late
  /\ Ends(t)
  /\ UNCHANGED <<disk, pair, tokens, history>>

(* A process is killed, or stopped by a signal, anywhere; or it fails while*)
(* it writes the pair of certificates or listens.                          *)
Killed(p) ==
  /\ pc[p] # "down"
  /\ failures < MaxFailures
  /\ failures' = failures + 1
  /\ keyCut' = (keyCut \/ pc[p] = "keyfill")
  /\ Ends(p)
  /\ UNCHANGED <<disk, pair, tokens, raced, overlapped>>

(* A system call of Save fails.                                            *)
CallFails(p) ==
  /\ InSave(p)
  /\ failures < MaxFailures
  /\ failures' = failures + 1
  /\ Errs(p)
  /\ UNCHANGED <<disk, pair, tokens, history>>

ProcStep(p) ==
  \/ ReadConfig(p) \/ ReadSecrets(p) \/ SecretsRefused(p) \/ Open(p) \/ Write(p) \/ Rename(p) \/ RenameFails(p)
  \/ p \in Tools /\ SetPassword(p)
  \/ p = Service /\ (EnsureSelfSigned \/ LoadPair)

StartupNext ==
  \/ \E p \in Procs : ProcStep(p) \/ CallFails(p) \/ Killed(p)
  \/ \E p \in Procs, j \in Jobs : Launch(p, j)
  \/ \E t \in Tools, late \in {0, 1} : Used(t, late)
  \/ Listen \/ SetPassword(Service)

StartupSpec == StartupInit /\ [][StartupNext]_startupVars

-----------------------------------------------------------------------------
StartupTypeOK ==
  /\ file \in [Saved -> Data] /\ tmp \in [Saved -> Data]
  /\ crt \in {"none", Empty, "new"} /\ key \in {"none", Empty, "new"}
  /\ pc \in [Procs -> Places] /\ job \in [Procs -> Jobs \cup {"none"}]
  /\ mem \in [Procs -> Secrets \cup {NoSecrets}]
  /\ save \in [Procs -> [of : Saved, at : {"closed", "tmp", "file", "gone"}, then : Places]]
  /\ tokens \in 0 .. MaxTokens /\ failures \in 0 .. MaxFailures
  /\ raced \in BOOLEAN /\ overlapped \in BOOLEAN /\ keyCut \in BOOLEAN

(* A start is refused for what an earlier one left behind, or another one  *)
(* is doing, only if two Saves overlapped or the service was stopped inside*)
(* writing the key: no other kill or failure keeps the device from coming  *)
(* back (ensure_self_signed and Save of secrets.go and config.go).         *)
NoStartIsRefused ==
  /\ \A p \in Procs, f \in Saved : pc[p] = f /\ Unreadable(f) => overlapped
  /\ \A p \in Procs : pc[p] = "rename" /\ tmp[save[p].of] = Missing => overlapped
  /\ pc[Service] = "pair" /\ ~(crt = "new" /\ key = "new") => keyCut
=============================================================================
