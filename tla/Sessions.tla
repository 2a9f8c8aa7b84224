------------------------------- MODULE Sessions -------------------------------
(***************************************************************************)
(* Who is logged in (internal/api/session.go, session_store.go, with_auth  *)
(* in middleware.go) and by which password (internal/config/secrets.go):   *)
(* the session table and the table of one-time login codes, each with its  *)
(* lock, the password in memory and in the secrets file, which -reset-     *)
(* password of another process writes too. Checking a password, changing   *)
(* it, saving it and clearing or issuing sessions are steps of their own,  *)
(* because no lock spans them. LoginThrottle decides who may try.          *)
(*                                                                         *)
(* Tokens and codes are random and never drawn twice: numbers in order.    *)
(***************************************************************************)
EXTENDS Naturals, FiniteSets, Functions

CONSTANTS
  Handlers,    (* Names for goroutines, and for the resetting process.      *)
  Passwords,   (* Passwords that CheckPasswordStrength accepts.             *)
  Default,     (* DefaultPassword, which it does not.                       *)
  None,        (* No temporary file.                                        *)
  SessionMax,  (* session_max.                                              *)
  SessionTTL,  (* session_ttl.                                              *)
  CodeMax,     (* handoff_max.                                              *)
  CodeTTL,     (* handoff_ttl.                                              *)
  MaxTokens,   (* Bound: sessions issued.                                   *)
  MaxCodes,    (* Bound: codes issued.                                      *)
  MaxChanges,  (* Bound: passwords set.                                     *)
  MaxTime      (* Bound: ticks of the clock.                                *)

ASSUME SessionsAssumption ==
  /\ {SessionMax, CodeMax} \subseteq Nat \ {0}
  /\ {SessionTTL, CodeTTL, MaxTokens, MaxCodes, MaxChanges, MaxTime} \subseteq Nat
  /\ Default \notin Passwords

VARIABLES
  now,         (* time.Now().                                               *)
  secrets,     (* Password and MustChangePassword in memory.                *)
  file, tmp,   (* ... in the secrets file and in its temporary file.        *)
  sessions,    (* s.sessions.items, a function on tokens.                   *)
  codes,       (* s.handoffs.items, a function on codes: when they expire.  *)
  task,        (* What each handler is doing.                               *)
  tokens,      (* Tokens drawn so far.                                      *)
  drawn,       (* Codes drawn so far.                                       *)
  changes,     (* Passwords set so far, here or by the resetting process.   *)
  redeemed,    (* Auxiliary: how often each code was redeemed.              *)
  apart,       (* Auxiliary: no two writers of the file have overlapped,    *)
               (* and no other process has written it, since the start.     *)
  saved        (* Auxiliary: every Save since the start has succeeded.      *)

vars == <<now, secrets, file, tmp, sessions, codes, task, tokens, drawn, changes, redeemed,
          apart, saved>>

Idle    == [pc |-> "idle"]
Initial == [password |-> Default, must |-> TRUE]

(* The first start has written the initial password (LoadSecrets).         *)
Init ==
  /\ now = 0
  /\ secrets = Initial
  /\ file = Initial
  /\ tmp = None
  /\ sessions = <<>>
  /\ codes = <<>>
  /\ task = [h \in Handlers |-> Idle]
  /\ tokens = 0
  /\ drawn = 0
  /\ changes = 0
  /\ redeemed = [c \in 1 .. MaxCodes |-> 0]
  /\ apart = TRUE
  /\ saved = TRUE

-----------------------------------------------------------------------------
Keys(table) == DOMAIN table
Without(table, keys) == Restrict(table, Keys(table) \ keys)
With(table, key, entry) == [k \in Keys(table) \cup {key} |-> IF k = key THEN entry ELSE table[k]]

(* lookup and prune remove what has expired: an entry is good up to and    *)
(* including the moment it expires.                                        *)
Live(table) == Restrict(table, {k \in Keys(table) : now <= table[k].expires})

Oldest(table) == {k \in Keys(table) : \A o \in Keys(table) : table[k].created <= table[o].created}

(* Mutant of Room: the check for a full table is off by one.               *)
RoomLate(table, max) ==
  IF Cardinality(Keys(table)) <= max THEN {table} ELSE {Without(table, {k}) : k \in Oldest(table)}

(* The tables after drop_oldest has made room, if it had to: among equally *)
(* old entries the order of the map decides. All entries of a table live   *)
(* equally long, so the oldest code is the one that expires first.         *)
Room(table, max) ==
  IF Cardinality(Keys(table)) < max THEN {table} ELSE {Without(table, {k}) : k \in Oldest(table)}

(* Save takes its copy of the secrets.                                     *)
Copies(h, content) ==
  task' = [task EXCEPT ![h] = [pc |-> "write", kind |-> "change", byToken |-> @.byToken, content |-> content]]

(* Handlers that are inside Save.                                          *)
Writers == {h \in Handlers : task[h].pc \in {"set", "snapshot", "write", "rename"}}

Goes(h, next) == task' = [task EXCEPT ![h] = next]

Tick ==
  /\ now < MaxTime
  /\ now' = now + 1
  /\ UNCHANGED <<secrets, file, tmp, sessions, codes, task, tokens, drawn, changes, redeemed,
                 apart, saved>>

-----------------------------------------------------------------------------
(* handle_session_login: the password is right.                            *)
Login(h) ==
  /\ task[h].pc = "idle"
  /\ Goes(h, [pc |-> "issue"])
  /\ UNCHANGED <<now, secrets, file, tmp, sessions, codes, tokens, drawn, changes, redeemed,
                 apart, saved>>

(* session_store.issue, the last step of a login, of a redemption and of a *)
(* change of password. A session remembers which password was good then.   *)
Issue(h) ==
  /\ task[h].pc = "issue"
  /\ tokens < MaxTokens
  /\ tokens' = tokens + 1
  /\ \E table \in Room(Live(sessions), SessionMax) :
       sessions' = With(table, tokens', [created |-> now, expires |-> now + SessionTTL,
                                         password |-> secrets.password])
  /\ Goes(h, Idle)
  /\ UNCHANGED <<now, secrets, file, tmp, codes, drawn, changes, redeemed, apart, saved>>

(* lookup, by with_auth for every request: what has expired goes.          *)
Lookup ==
  /\ sessions' = Live(sessions)
  /\ UNCHANGED <<now, secrets, file, tmp, codes, task, tokens, drawn, changes, redeemed,
                 apart, saved>>

(* handle_session_logout after with_auth: lookup, then revoke.             *)
Logout(t) ==
  /\ t \in Keys(Live(sessions))
  /\ sessions' = Without(Live(sessions), {t})
  /\ UNCHANGED <<now, secrets, file, tmp, codes, task, tokens, drawn, changes, redeemed,
                 apart, saved>>

(* handoff_store.issue: the tables it may leave.                           *)
WithCode(c) ==
  {With(table, c, [created |-> now, expires |-> now + CodeTTL]) : table \in Room(Live(codes), CodeMax)}

(* handle_session_handoff, for a caller on the device itself.              *)
IssueCode ==
  /\ drawn < MaxCodes
  /\ drawn' = drawn + 1
  /\ codes' \in WithCode(drawn + 1)
  /\ UNCHANGED <<now, secrets, file, tmp, sessions, task, tokens, changes, redeemed, apart, saved>>

(* handoff_store.redeem: the code is found and removed under the lock.     *)
Spend(c) == c \in Keys(Live(codes)) /\ codes' = Without(Live(codes), {c})

(* handle_session_redeem: the session follows.                             *)
Redeem(h, c) ==
  /\ task[h].pc = "idle"
  /\ Spend(c)
  /\ redeemed' = [redeemed EXCEPT ![c] = @ + 1]
  /\ Goes(h, [pc |-> "issue"])
  /\ UNCHANGED <<now, secrets, file, tmp, sessions, tokens, drawn, changes, apart, saved>>

-----------------------------------------------------------------------------
(* handle_session_password: the caller shows a session or the API token    *)
(* and the current password, and the new one is strong and another one.    *)
Change(h, byToken, p) ==
  /\ task[h].pc = "idle"
  /\ byToken \/ Live(sessions) # <<>>
  /\ p \in Passwords \ {secrets.password}
  /\ changes < MaxChanges
  /\ Goes(h, [pc |-> "set", kind |-> "change", byToken |-> byToken, password |-> p])
  /\ apart' = (apart /\ Writers = {})
  /\ sessions' = IF byToken THEN sessions ELSE Live(sessions)
  /\ UNCHANGED <<now, secrets, file, tmp, codes, tokens, drawn, changes, redeemed, saved>>

(* SetPassword, under the lock of the secrets.                             *)
SetPassword(h) ==
  /\ task[h].pc = "set"
  /\ changes < MaxChanges
  /\ changes' = changes + 1
  /\ secrets' = [password |-> task[h].password, must |-> FALSE]
  /\ Goes(h, [task[h] EXCEPT !.pc = "snapshot"])
  /\ UNCHANGED <<now, file, tmp, sessions, codes, tokens, drawn, redeemed, apart, saved>>

(* Mutant of Snapshot: what was loaded at the start is saved again.        *)
SnapshotOfFile(h) ==
  /\ task[h].pc = "snapshot"
  /\ Copies(h, file)
  /\ UNCHANGED <<now, secrets, file, tmp, sessions, codes, tokens, drawn, changes, redeemed,
                 apart, saved>>

(* Save, first its copy of the secrets ...                                 *)
Snapshot(h) ==
  /\ task[h].pc = "snapshot"
  /\ Copies(h, secrets)
  /\ UNCHANGED <<now, secrets, file, tmp, sessions, codes, tokens, drawn, changes, redeemed,
                 apart, saved>>

(* ... then the temporary file, whose name all writers share ...           *)
WriteTmp(h) ==
  /\ task[h].pc = "write"
  /\ tmp' = task[h].content
  /\ Goes(h, [task[h] EXCEPT !.pc = "rename"])
  /\ UNCHANGED <<now, secrets, file, sessions, codes, tokens, drawn, changes, redeemed,
                 apart, saved>>

(* ... and its renaming.                                                   *)
Rename(h) ==
  /\ task[h].pc = "rename"
  /\ tmp # None
  /\ file' = tmp
  /\ tmp' = None
  /\ Goes(h, IF task[h].kind = "reset" THEN Idle ELSE [task[h] EXCEPT !.pc = "clear"])
  /\ UNCHANGED <<now, secrets, sessions, codes, tokens, drawn, changes, redeemed, apart, saved>>

(* Save fails: the disk is full, or another Save took the temporary file.  *)
(* The answer is 500 and the sessions stay.                                *)
SaveFails(h) ==
  /\ task[h].pc \in {"write", "rename"}
  /\ Goes(h, Idle)
  /\ saved' = FALSE
  /\ UNCHANGED <<now, secrets, file, tmp, sessions, codes, tokens, drawn, changes, redeemed, apart>>

(* Mutant of Clear: only what has expired goes.                            *)
ClearExpired(h) ==
  /\ task[h].pc = "clear"
  /\ sessions' = Live(sessions)
  /\ Goes(h, IF task[h].byToken THEN Idle ELSE [pc |-> "issue"])
  /\ UNCHANGED <<now, secrets, file, tmp, codes, tokens, drawn, changes, redeemed, apart, saved>>

(* All sessions end; a caller that had one is given a new one.             *)
Clear(h) ==
  /\ task[h].pc = "clear"
  /\ sessions' = <<>>
  /\ Goes(h, IF task[h].byToken THEN Idle ELSE [pc |-> "issue"])
  /\ UNCHANGED <<now, secrets, file, tmp, codes, tokens, drawn, changes, redeemed, apart, saved>>

(* wrtdeck -reset-password, a process of its own: LoadSecrets and          *)
(* SetPassword in its memory, then Save. The service learns nothing of it. *)
Reset(h, p) ==
  /\ task[h].pc = "idle"
  /\ changes < MaxChanges
  /\ changes' = changes + 1
  /\ Goes(h, [pc |-> "write", kind |-> "reset", content |-> [password |-> p, must |-> FALSE]])
  /\ apart' = FALSE
  /\ UNCHANGED <<now, secrets, file, tmp, sessions, codes, tokens, drawn, redeemed, saved>>

(* The service restarts, whatever was under way (LoadSecrets), and with it *)
(* the device or not: only then does a resetting process end too.          *)
Restart ==
  /\ secrets' = file
  /\ sessions' = <<>>
  /\ codes' = <<>>
  /\ \E spared \in SUBSET {h \in Writers : task[h].kind = "reset"} :
       /\ task' = [h \in Handlers |-> IF h \in spared THEN task[h] ELSE Idle]
       /\ apart' = (spared = {})
  /\ saved' = TRUE
  /\ UNCHANGED <<now, file, tmp, tokens, drawn, changes, redeemed>>

Next ==
  \/ Tick \/ Lookup \/ IssueCode \/ Restart
  \/ \E t \in 1 .. tokens : Logout(t)
  \/ \E h \in Handlers :
       \/ Login(h) \/ Issue(h)
       \/ \E c \in 1 .. drawn : Redeem(h, c)
       \/ \E p \in Passwords : Reset(h, p) \/ \E byToken \in BOOLEAN : Change(h, byToken, p)
       \/ SetPassword(h) \/ Snapshot(h) \/ WriteTmp(h) \/ Rename(h) \/ SaveFails(h) \/ Clear(h)

Spec == Init /\ [][Next]_vars

-----------------------------------------------------------------------------
Content == [password : Passwords \cup {Default}, must : BOOLEAN]

TypeOK ==
  /\ now \in 0 .. MaxTime
  /\ secrets \in Content /\ file \in Content /\ tmp \in Content \cup {None}
  /\ tokens \in 0 .. MaxTokens /\ Keys(sessions) \subseteq 1 .. tokens
  /\ drawn \in 0 .. MaxCodes /\ Keys(codes) \subseteq 1 .. drawn
  /\ changes \in 0 .. MaxChanges
  /\ \A t \in Keys(sessions) :
       sessions[t] \in [created : 0 .. now, expires : Nat, password : Passwords \cup {Default}]
  /\ \A c \in Keys(codes) : codes[c] \in [created : 0 .. now, expires : Nat]
  /\ \A h \in Handlers :
       task[h].pc \in {"idle", "issue", "set", "snapshot", "write", "rename", "clear"}
  /\ apart \in BOOLEAN /\ saved \in BOOLEAN

(* However many log in or ask for codes between two requests, both tables  *)
(* keep to their limits ("so that memory is not eaten up"), and a login    *)
(* code buys one session, however many redeem it at once ("used once, it   *)
(* is void", handoff_store.redeem). The types are checked with it.         *)
TablesAreKept ==
  /\ TypeOK
  /\ Cardinality(Keys(sessions)) <= SessionMax
  /\ Cardinality(Keys(codes)) <= CodeMax
  /\ \A c \in Keys(redeemed) : redeemed[c] <= 1

(* Nobody is logged out but for a reason: the session has expired, its     *)
(* owner left, the password was changed, the service restarted, or the     *)
(* table was full and no session was older. The one just issued stays.     *)
EndsForAReason ==
  /\ \A t \in Keys(sessions) \ Keys(sessions') :
       \/ now > sessions[t].expires
       \/ Logout(t) \/ Restart \/ \E h \in Handlers : Clear(h)
       \/ Cardinality(Keys(Live(sessions))) = SessionMax /\ t \in Oldest(Live(sessions))
  /\ tokens' # tokens => tokens' \in Keys(sessions')

SessionsEndForAReason == [][EndsForAReason]_vars

(* When no change is under way, every session was issued while the present *)
(* password was good already ("all existing sessions end at once",        *)
(* handle_session_password), unless a Save has failed: then the password   *)
(* has changed in memory and the sessions have stayed.                     *)
ChangeEndsSessions ==
  saved /\ (\A h \in Handlers : task[h].pc \in {"idle", "issue"} \/ task[h].kind = "reset") =>
    \A t \in Keys(sessions) : sessions[t].password = secrets.password

(* The flag of the initial password is set with the initial password and   *)
(* with no other, in memory, in the file a restart reads and in the one    *)
(* that will replace it: nobody is told to change a password just chosen,  *)
(* and the initial one opens nothing else, whatever is cut short.          *)
FlagMeansInitial ==
  \A c \in {secrets, file} \cup ({tmp} \ {None}) : c.must <=> c.password = Default

(* When nobody is writing and every Save succeeded, a restart reads the    *)
(* password that was set last: changes of it that do not overlap survive   *)
(* a restart once they are answered (SetPassword, Save).                   *)
SecretsAreKept ==
  /\ FlagMeansInitial
  /\ apart /\ saved /\ Writers = {} => file = secrets
=============================================================================
