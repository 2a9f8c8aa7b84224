----------------------------- MODULE AccessProofs -----------------------------
(***************************************************************************)
(* Theorems about who may log in and who is logged in: about Sessions, for *)
(* every number of handlers and passwords, every limit and every lifetime, *)
(* and about LoginThrottle, for every set of sources, every limit and      *)
(* every length of the windows and locks.                                  *)
(***************************************************************************)
EXTENDS Sessions, LoginThrottle, FiniteSetTheorems, TLAPS

(* What a handler may be doing, with the values it carries along.          *)
Changing == [pc : {"set", "snapshot"}, kind : {"change"}, byToken : BOOLEAN,
             password : Passwords]
Saving   == [pc : {"write", "rename", "clear"}, kind : {"change"}, byToken : BOOLEAN,
             content : Content]
Resetting == [pc : {"write", "rename"}, kind : {"reset"}, content : Content]
Tasks == {Idle, [pc |-> "issue"]} \cup Changing \cup Saving \cup Resetting

TaskInv == task \in [Handlers -> Tasks]

(* A code that can be redeemed was not, and codes and tokens are drawn in  *)
(* order.                                                                  *)
CodeInv ==
  /\ redeemed \in [1 .. MaxCodes -> 0 .. 1]
  /\ \A c \in Keys(codes) : redeemed[c] = 0
  /\ \A c \in 1 .. MaxCodes : c > drawn => redeemed[c] = 0

SizeInv ==
  /\ Cardinality(Keys(sessions)) <= SessionMax
  /\ Cardinality(Keys(codes)) <= CodeMax

SessionInv == TypeOK /\ TaskInv /\ CodeInv /\ SizeInv

-----------------------------------------------------------------------------
LEMMA SessionsInit == Init => SessionInv
<1> SUFFICES ASSUME Init PROVE SessionInv
  OBVIOUS
<1> USE SessionsAssumption
<1>1. Keys(sessions) = {} /\ Keys(codes) = {}
  BY DEF Init, Keys
<1>2. TypeOK
  BY <1>1 DEF Init, TypeOK, Initial, Content, Idle
<1>3. TaskInv
  BY DEF Init, TaskInv, Tasks
<1>4. CodeInv
  BY <1>1 DEF Init, CodeInv
<1>5. SizeInv
  BY <1>1, FS_EmptySet DEF SizeInv
<1> QED
  BY <1>2, <1>3, <1>4, <1>5 DEF SessionInv

(* The keys of what is left of a table.                                    *)
LEMMA KeysOfRest ==
  ASSUME NEW table, NEW keys
  PROVE  /\ Keys(Without(table, keys)) = Keys(table) \ keys
         /\ \A k \in Keys(table) \ keys : Without(table, keys)[k] = table[k]
  BY DEF Keys, Without, Restrict

LEMMA KeysOfLive ==
  ASSUME NEW table
  PROVE  /\ Keys(Live(table)) = {k \in Keys(table) : now <= table[k].expires}
         /\ \A k \in Keys(Live(table)) : Live(table)[k] = table[k]
  BY DEF Keys, Live, Restrict

LEMMA KeysWithEntry ==
  ASSUME NEW table, NEW key, NEW entry
  PROVE  /\ Keys(With(table, key, entry)) = Keys(table) \cup {key}
         /\ With(table, key, entry)[key] = entry
         /\ \A k \in Keys(table) \ {key} : With(table, key, entry)[k] = table[k]
  BY DEF Keys, With

(* drop_oldest removes no more than it must and leaves room for one entry. *)
LEMMA RoomForOne ==
  ASSUME NEW table, NEW max \in Nat \ {0}, IsFiniteSet(Keys(table)),
         Cardinality(Keys(table)) <= max, NEW rest \in Room(table, max), NEW key, NEW entry
  PROVE  /\ Keys(rest) \subseteq Keys(table)
         /\ \A k \in Keys(rest) : rest[k] = table[k]
         /\ Cardinality(Keys(With(rest, key, entry))) <= max
         /\ \A k \in Keys(table) \ Keys(rest) : Cardinality(Keys(table)) = max /\ k \in Oldest(table)
<1>card. Cardinality(Keys(table)) \in Nat
  BY FS_CardinalityType
<1>1. CASE Cardinality(Keys(table)) < max
  <2>1. rest = table
    BY <1>1 DEF Room
  <2>2. Cardinality(Keys(table) \cup {key}) <= max
    BY <1>1, <1>card, FS_AddElement
  <2> QED
    BY <2>1, <2>2, KeysWithEntry
<1>2. CASE ~(Cardinality(Keys(table)) < max)
  <2>1. PICK k \in Oldest(table) : rest = Without(table, {k})
    BY <1>2 DEF Room
  <2>2. k \in Keys(table) /\ Cardinality(Keys(table)) = max
    BY <2>1, <1>2, <1>card DEF Oldest
  <2>3. Keys(rest) = Keys(table) \ {k} /\ \A o \in Keys(rest) : rest[o] = table[o]
    BY <2>1, KeysOfRest
  <2>4. IsFiniteSet(Keys(rest)) /\ Cardinality(Keys(rest)) = max - 1
    BY <2>2, <2>3, FS_RemoveElement
  <2>5. Cardinality(Keys(rest) \cup {key}) <= max
    <3>1. Cardinality(Keys(rest)) \in Nat /\ Cardinality(Keys(rest)) + 1 = max
      BY <2>4, FS_CardinalityType
    <3>2. \/ Cardinality(Keys(rest) \cup {key}) = Cardinality(Keys(rest))
          \/ Cardinality(Keys(rest) \cup {key}) = Cardinality(Keys(rest)) + 1
      BY <2>4, FS_AddElement
    <3> QED
      BY <3>1, <3>2
  <2> QED
    BY <2>1, <2>2, <2>3, <2>5, KeysWithEntry
<1> QED
  BY <1>1, <1>2

(* What has expired is no more than the table was.                         *)
LEMMA LiveIsSmaller ==
  ASSUME NEW table, NEW max \in Nat, IsFiniteSet(Keys(table)), Cardinality(Keys(table)) <= max
  PROVE  /\ IsFiniteSet(Keys(Live(table))) /\ Keys(Live(table)) \subseteq Keys(table)
         /\ Cardinality(Keys(Live(table))) <= max
<1>1. Keys(Live(table)) \subseteq Keys(table)
  BY KeysOfLive
<1>2. /\ IsFiniteSet(Keys(Live(table)))
      /\ Cardinality(Keys(Live(table))) <= Cardinality(Keys(table))
  BY <1>1, FS_Subset
<1> QED
  BY <1>1, <1>2, FS_CardinalityType

-----------------------------------------------------------------------------
(* Both tables are finite.                                                 *)
LEMMA TablesAreFinite ==
  ASSUME TypeOK
  PROVE  IsFiniteSet(Keys(sessions)) /\ IsFiniteSet(Keys(codes))
<1>1. tokens \in Nat /\ drawn \in Nat
  BY SessionsAssumption DEF TypeOK
<1>2. IsFiniteSet(1 .. tokens) /\ IsFiniteSet(1 .. drawn)
  BY <1>1, FS_Interval
<1> QED
  BY <1>2, FS_Subset DEF TypeOK

(* What each step does to the table of sessions: it takes entries out, or  *)
(* issues one more.                                                        *)
Shrinks == /\ Keys(sessions') \subseteq Keys(sessions)
           /\ \A t \in Keys(sessions') : sessions'[t] = sessions[t]

LEMMA ShrinkingIsSafe ==
  ASSUME SessionInv, Shrinks, now' = now, tokens' = tokens
  PROVE  /\ Keys(sessions') \subseteq 1 .. tokens'
         /\ \A t \in Keys(sessions') :
              sessions'[t] \in [created : 0 .. now', expires : Nat, password : Passwords \cup {Default}]
         /\ Cardinality(Keys(sessions')) <= SessionMax
<1>1. IsFiniteSet(Keys(sessions))
  BY TablesAreFinite DEF SessionInv
<1>2. Cardinality(Keys(sessions')) <= Cardinality(Keys(sessions))
  BY <1>1, FS_Subset DEF Shrinks
<1>3. IsFiniteSet(Keys(sessions'))
  BY <1>1, FS_Subset DEF Shrinks
<1>4. Cardinality(Keys(sessions')) <= SessionMax
  BY <1>1, <1>2, <1>3, FS_CardinalityType, SessionsAssumption DEF SessionInv, SizeInv
<1> QED
  BY <1>4 DEF SessionInv, TypeOK, Shrinks

(* The same for the table of codes.                                        *)
CodesShrink == /\ Keys(codes') \subseteq Keys(codes)
               /\ \A c \in Keys(codes') : codes'[c] = codes[c]

LEMMA ShrinkingCodesIsSafe ==
  ASSUME SessionInv, CodesShrink, now' = now, drawn' = drawn
  PROVE  /\ Keys(codes') \subseteq 1 .. drawn'
         /\ \A c \in Keys(codes') : codes'[c] \in [created : 0 .. now', expires : Nat]
         /\ Cardinality(Keys(codes')) <= CodeMax
<1>1. IsFiniteSet(Keys(codes))
  BY TablesAreFinite DEF SessionInv
<1>2. Cardinality(Keys(codes')) <= Cardinality(Keys(codes))
  BY <1>1, FS_Subset DEF CodesShrink
<1>3. IsFiniteSet(Keys(codes'))
  BY <1>1, FS_Subset DEF CodesShrink
<1>4. Cardinality(Keys(codes')) <= CodeMax
  BY <1>1, <1>2, <1>3, FS_CardinalityType, SessionsAssumption DEF SessionInv, SizeInv
<1> QED
  BY <1>4 DEF SessionInv, TypeOK, CodesShrink

(* What issuing a session does to the table: what has expired goes, and no *)
(* more than the oldest entry of a full one.                               *)
LEMMA IssueMakesRoom ==
  ASSUME SessionInv, NEW h \in Handlers, Issue(h)
  PROVE  /\ tokens' \in Keys(sessions')
         /\ sessions'[tokens'] = [created |-> now, expires |-> now + SessionTTL,
                                  password |-> secrets.password]
         /\ Keys(sessions') \subseteq Keys(sessions) \cup {tokens'}
         /\ \A t \in Keys(sessions') \ {tokens'} : sessions'[t] = sessions[t]
         /\ Cardinality(Keys(sessions')) <= SessionMax
         /\ \A t \in Keys(sessions) \ Keys(sessions') :
              \/ now > sessions[t].expires
              \/ Cardinality(Keys(Live(sessions))) = SessionMax /\ t \in Oldest(Live(sessions))
<1> DEFINE new == [created |-> now, expires |-> now + SessionTTL, password |-> secrets.password]
<1>1. PICK table \in Room(Live(sessions), SessionMax) : sessions' = With(table, tokens', new)
  BY DEF Issue
<1> HIDE DEF new
<1>2. /\ IsFiniteSet(Keys(Live(sessions))) /\ Keys(Live(sessions)) \subseteq Keys(sessions)
      /\ Cardinality(Keys(Live(sessions))) <= SessionMax
  BY TablesAreFinite, LiveIsSmaller, SessionsAssumption DEF SessionInv, SizeInv
<1>3. /\ Keys(table) \subseteq Keys(Live(sessions))
      /\ \A k \in Keys(table) : table[k] = Live(sessions)[k]
      /\ Cardinality(Keys(With(table, tokens', new))) <= SessionMax
      /\ \A k \in Keys(Live(sessions)) \ Keys(table) :
           Cardinality(Keys(Live(sessions))) = SessionMax /\ k \in Oldest(Live(sessions))
  BY <1>1, <1>2, RoomForOne, SessionsAssumption
<1>4. /\ Keys(sessions') = Keys(table) \cup {tokens'}
      /\ sessions'[tokens'] = new
      /\ \A k \in Keys(table) \ {tokens'} : sessions'[k] = table[k]
  BY <1>1, KeysWithEntry
<1>5. \A k \in Keys(sessions) : k \in Keys(Live(sessions)) \/ ~(now <= sessions[k].expires)
  BY KeysOfLive
<1>6. \A k \in Keys(Live(sessions)) : Live(sessions)[k] = sessions[k]
  BY KeysOfLive
<1>7. \A k \in Keys(sessions) : ~(now <= sessions[k].expires) => now > sessions[k].expires
  BY SessionsAssumption DEF SessionInv, TypeOK
<1> QED
  BY <1>1, <1>2, <1>3, <1>4, <1>5, <1>6, <1>7 DEF new

LEMMA CodeIssueMakesRoom ==
  ASSUME SessionInv, IssueCode
  PROVE  /\ drawn' \in Keys(codes')
         /\ codes'[drawn'] = [created |-> now, expires |-> now + CodeTTL]
         /\ Keys(codes') \subseteq Keys(codes) \cup {drawn'}
         /\ \A c \in Keys(codes') \ {drawn'} : codes'[c] = codes[c]
         /\ Cardinality(Keys(codes')) <= CodeMax
<1> DEFINE new == [created |-> now, expires |-> now + CodeTTL]
<1>1. PICK table \in Room(Live(codes), CodeMax) : codes' = With(table, drawn', new)
  BY DEF IssueCode, WithCode
<1> HIDE DEF new
<1>2. /\ IsFiniteSet(Keys(Live(codes))) /\ Keys(Live(codes)) \subseteq Keys(codes)
      /\ Cardinality(Keys(Live(codes))) <= CodeMax
  BY TablesAreFinite, LiveIsSmaller, SessionsAssumption DEF SessionInv, SizeInv
<1>3. /\ Keys(table) \subseteq Keys(Live(codes))
      /\ \A k \in Keys(table) : table[k] = Live(codes)[k]
      /\ Cardinality(Keys(With(table, drawn', new))) <= CodeMax
  BY <1>1, <1>2, RoomForOne, SessionsAssumption
<1>4. /\ Keys(codes') = Keys(table) \cup {drawn'}
      /\ codes'[drawn'] = new
      /\ \A k \in Keys(table) \ {drawn'} : codes'[k] = table[k]
  BY <1>1, KeysWithEntry
<1>5. \A k \in Keys(Live(codes)) : Live(codes)[k] = codes[k]
  BY KeysOfLive
<1> QED
  BY <1>1, <1>2, <1>3, <1>4, <1>5 DEF new

-----------------------------------------------------------------------------
(* The kinds of tasks, as far as the actions ask.                          *)
LEMMA TaskKinds ==
  ASSUME NEW t \in Tasks
  PROVE  /\ t.pc \in {"idle", "issue", "set", "snapshot", "write", "rename", "clear"}
         /\ t.pc = "idle" => t = Idle
         /\ t.pc \in {"set", "snapshot"} => t \in Changing
         /\ t.pc \in {"write", "rename"} => t \in Saving \cup Resetting
         /\ t.pc = "clear" => t \in Saving
  BY DEF Tasks, Idle, Changing, Saving, Resetting

LEMMA TasksPreserved == SessionInv /\ [Next]_vars => TaskInv'
<1> SUFFICES ASSUME SessionInv, [Next]_vars PROVE TaskInv'
  OBVIOUS
<1>typed. /\ task \in [Handlers -> Tasks] /\ secrets \in Content
  BY DEF SessionInv, TaskInv, TypeOK
<1>0. ASSUME NEW h \in Handlers, NEW next \in Tasks, Goes(h, next) PROVE TaskInv'
  BY <1>0, <1>typed DEF Goes, TaskInv
<1>const. Idle \in Tasks /\ [pc |-> "issue"] \in Tasks
  BY DEF Tasks
<1>1. ASSUME NEW h \in Handlers, Login(h) \/ Issue(h) \/ (\E c \in 1 .. drawn : Redeem(h, c)) \/ SaveFails(h) \/ Clear(h)
      PROVE  TaskInv'
  BY <1>1, <1>0, <1>const DEF Login, Issue, Redeem, SaveFails, Clear
<1>2. ASSUME NEW h \in Handlers, NEW byToken \in BOOLEAN, NEW p \in Passwords, Change(h, byToken, p)
      PROVE  TaskInv'
  <2>1. [pc |-> "set", kind |-> "change", byToken |-> byToken, password |-> p] \in Tasks
    BY DEF Tasks, Changing
  <2> QED
    BY <1>0, <1>2, <2>1 DEF Change
<1>3. ASSUME NEW h \in Handlers, SetPassword(h) PROVE TaskInv'
  <2>1. task[h] \in Changing
    BY <1>3, <1>typed, TaskKinds DEF SetPassword
  <2>2. [task[h] EXCEPT !.pc = "snapshot"] \in Tasks
    BY <2>1 DEF Changing, Tasks
  <2> QED
    BY <1>0, <1>3, <2>2 DEF SetPassword
<1>4. ASSUME NEW h \in Handlers, Snapshot(h) PROVE TaskInv'
  <2>1. task[h] \in Changing
    BY <1>4, <1>typed, TaskKinds DEF Snapshot
  <2>2. [pc |-> "write", kind |-> "change", byToken |-> task[h].byToken, content |-> secrets] \in Tasks
    BY <2>1, <1>typed DEF Changing, Saving, Tasks
  <2> QED
    BY <1>4, <2>2, <1>typed DEF Snapshot, Copies, TaskInv
<1>5. ASSUME NEW h \in Handlers, WriteTmp(h) PROVE TaskInv'
  <2>1. task[h] \in Saving \cup Resetting
    BY <1>5, <1>typed, TaskKinds DEF WriteTmp
  <2>2. [task[h] EXCEPT !.pc = "rename"] \in Tasks
    BY <2>1 DEF Saving, Resetting, Tasks
  <2> QED
    BY <1>0, <1>5, <2>2 DEF WriteTmp
<1>6. ASSUME NEW h \in Handlers, Rename(h) PROVE TaskInv'
  <2>1. task[h] \in Saving \cup Resetting
    BY <1>6, <1>typed, TaskKinds DEF Rename
  <2>2. task[h].kind # "reset" => [task[h] EXCEPT !.pc = "clear"] \in Tasks
    BY <2>1 DEF Saving, Resetting, Tasks
  <2> QED
    BY <1>0, <1>6, <2>2, <1>const DEF Rename
<1>7. ASSUME NEW h \in Handlers, NEW p \in Passwords, Reset(h, p) PROVE TaskInv'
  <2>1. [pc |-> "write", kind |-> "reset", content |-> [password |-> p, must |-> FALSE]] \in Tasks
    BY DEF Tasks, Resetting, Content
  <2> QED
    BY <1>0, <1>7, <2>1 DEF Reset
<1>8. CASE Restart
  BY <1>8, <1>typed, <1>const DEF Restart, TaskInv
<1>9. CASE Tick \/ Lookup \/ IssueCode \/ (\E t \in 1 .. tokens : Logout(t)) \/ UNCHANGED vars
  BY <1>9 DEF Tick, Lookup, IssueCode, Logout, vars, SessionInv, TaskInv
<1> QED
  BY <1>1, <1>2, <1>3, <1>4, <1>5, <1>6, <1>7, <1>8, <1>9 DEF Next

(* The scalars keep their types.                                           *)
Scalars ==
  /\ now \in 0 .. MaxTime
  /\ secrets \in Content /\ file \in Content /\ tmp \in Content \cup {None}
  /\ tokens \in 0 .. MaxTokens /\ drawn \in 0 .. MaxCodes /\ changes \in 0 .. MaxChanges
  /\ apart \in BOOLEAN /\ saved \in BOOLEAN

LEMMA ScalarsPreserved == SessionInv /\ [Next]_vars => Scalars'
<1> SUFFICES ASSUME SessionInv, [Next]_vars PROVE Scalars'
  OBVIOUS
<1>typed. Scalars /\ task \in [Handlers -> Tasks]
  BY DEF SessionInv, TypeOK, TaskInv, Scalars
<1> USE SessionsAssumption
<1>1. ASSUME NEW h \in Handlers,
             Login(h) \/ (\E c \in 1 .. drawn : Redeem(h, c)) \/ SaveFails(h) \/ Clear(h) \/ Snapshot(h)
      PROVE  Scalars'
  <2>1. /\ UNCHANGED <<now, secrets, file, tmp, tokens, drawn, changes, apart>>
        /\ saved' \in {saved, FALSE}
    BY <1>1 DEF Login, Redeem, SaveFails, Clear, Snapshot
  <2> QED
    BY <2>1, <1>typed DEF Scalars
<1>2. ASSUME NEW h \in Handlers, Issue(h) PROVE Scalars'
  BY <1>2, <1>typed DEF Issue, Scalars
<1>2a. ASSUME NEW h \in Handlers, NEW byToken \in BOOLEAN, NEW p \in Passwords, Change(h, byToken, p)
      PROVE  Scalars'
  <2>1. UNCHANGED <<now, secrets, file, tmp, tokens, drawn, changes, saved>>
    BY <1>2a DEF Change
  <2>2. apart' \in BOOLEAN
    BY <1>2a DEF Change
  <2> QED
    BY <2>1, <2>2, <1>typed DEF Scalars
<1>2b. ASSUME NEW h \in Handlers, NEW p \in Passwords, Reset(h, p) PROVE Scalars'
  <2>1. UNCHANGED <<now, secrets, file, tmp, tokens, drawn, saved>>
    BY <1>2b DEF Reset
  <2>2. changes' \in 0 .. MaxChanges /\ apart' \in BOOLEAN
    <3>1. changes < MaxChanges /\ changes' = changes + 1 /\ apart' = FALSE
      BY <1>2b DEF Reset
    <3>2. changes' \in 0 .. MaxChanges
      BY <3>1, <1>typed DEF Scalars
    <3> QED
      BY <3>1, <3>2
  <2> QED
    BY <2>1, <2>2, <1>typed DEF Scalars
<1>3. ASSUME NEW h \in Handlers, SetPassword(h) PROVE Scalars'
  <2>1. task[h].password \in Passwords
    BY <1>3, <1>typed, TaskKinds DEF SetPassword, Changing
  <2>2. [password |-> task[h].password, must |-> FALSE] \in Content
    BY <2>1 DEF Content
  <2> QED
    BY <1>3, <2>2, <1>typed DEF SetPassword, Scalars
<1>4. ASSUME NEW h \in Handlers, WriteTmp(h) PROVE Scalars'
  <2>1. task[h].content \in Content
    BY <1>4, <1>typed, TaskKinds DEF WriteTmp, Saving, Resetting
  <2> QED
    BY <1>4, <2>1, <1>typed DEF WriteTmp, Scalars
<1>5. ASSUME NEW h \in Handlers, Rename(h) PROVE Scalars'
  BY <1>5, <1>typed DEF Rename, Scalars
<1>6. CASE Restart
  BY <1>6, <1>typed DEF Restart, Scalars
<1>7. CASE Tick \/ IssueCode
  BY <1>7, <1>typed DEF Tick, IssueCode, Scalars
<1>8. CASE Lookup \/ (\E t \in 1 .. tokens : Logout(t)) \/ UNCHANGED vars
  <2>1. UNCHANGED <<now, secrets, file, tmp, tokens, drawn, changes, apart, saved>>
    BY <1>8 DEF Lookup, Logout, vars
  <2> QED
    BY <2>1, <1>typed DEF Scalars
<1> QED
  BY <1>1, <1>2, <1>2a, <1>2b, <1>3, <1>4, <1>5, <1>6, <1>7, <1>8 DEF Next

(* The table of sessions keeps its keys, its entries and its limit.        *)
SessionTable ==
  /\ Keys(sessions) \subseteq 1 .. tokens
  /\ \A t \in Keys(sessions) :
       sessions[t] \in [created : 0 .. now, expires : Nat, password : Passwords \cup {Default}]
  /\ Cardinality(Keys(sessions)) <= SessionMax

LEMMA SessionTablePreserved == SessionInv /\ [Next]_vars => SessionTable'
<1> SUFFICES ASSUME SessionInv, [Next]_vars PROVE SessionTable'
  OBVIOUS
<1> USE SessionsAssumption
<1>typed. /\ SessionTable /\ tokens \in Nat /\ now \in Nat /\ secrets \in Content
  BY DEF SessionInv, SizeInv, TypeOK, SessionTable
<1>0. ASSUME Shrinks, now' = now, tokens' = tokens PROVE SessionTable'
  BY <1>0, ShrinkingIsSafe DEF SessionTable
<1>none. ASSUME sessions' = <<>> PROVE Shrinks
  BY <1>none DEF Shrinks, Keys
<1>same. ASSUME sessions' = sessions PROVE Shrinks
  BY <1>same DEF Shrinks
<1>live. ASSUME sessions' = Live(sessions) PROVE Shrinks
  BY <1>live, KeysOfLive DEF Shrinks
<1>1. ASSUME NEW h \in Handlers, Issue(h) PROVE SessionTable'
  <2>1. /\ tokens' = tokens + 1 /\ now' = now
    BY <1>1 DEF Issue
  <2>2. [created |-> now, expires |-> now + SessionTTL, password |-> secrets.password]
          \in [created : 0 .. now', expires : Nat, password : Passwords \cup {Default}]
    BY <2>1, <1>typed DEF Content
  <2>3. Keys(sessions') \subseteq 1 .. tokens'
    BY <1>1, <2>1, <1>typed, IssueMakesRoom DEF SessionTable
  <2>4. ASSUME NEW t \in Keys(sessions')
        PROVE  sessions'[t] \in [created : 0 .. now', expires : Nat, password : Passwords \cup {Default}]
    <3>1. CASE t = tokens'
      BY <1>1, <3>1, <2>2, IssueMakesRoom
    <3>2. CASE t # tokens'
      BY <1>1, <3>2, <2>1, <2>4, <1>typed, IssueMakesRoom DEF SessionTable
    <3> QED
      BY <3>1, <3>2
  <2>5. Cardinality(Keys(sessions')) <= SessionMax
    BY <1>1, IssueMakesRoom
  <2> QED
    BY <2>3, <2>4, <2>5 DEF SessionTable
<1>2. CASE Lookup
  BY <1>2, <1>0, <1>live DEF Lookup
<1>3. ASSUME NEW t \in 1 .. tokens, Logout(t) PROVE SessionTable'
  <2>1. Shrinks
    BY <1>3, KeysOfLive, KeysOfRest DEF Logout, Shrinks
  <2> QED
    BY <1>3, <1>0, <2>1 DEF Logout
<1>4. ASSUME NEW h \in Handlers, NEW byToken \in BOOLEAN, NEW p \in Passwords, Change(h, byToken, p)
      PROVE  SessionTable'
  BY <1>4, <1>0, <1>live, <1>same DEF Change
<1>5. ASSUME NEW h \in Handlers, Clear(h) PROVE SessionTable'
  BY <1>5, <1>0, <1>none DEF Clear
<1>6. CASE Restart
  BY <1>6, <1>0, <1>none DEF Restart
<1>7. CASE Tick
  BY <1>7, <1>typed DEF Tick, SessionTable
<1>8. CASE IssueCode \/ UNCHANGED vars
  BY <1>8, <1>0, <1>same DEF IssueCode, vars
<1>9. ASSUME NEW h \in Handlers,
             \/ Login(h) \/ (\E c \in 1 .. drawn : Redeem(h, c)) \/ (\E p \in Passwords : Reset(h, p))
             \/ SetPassword(h) \/ Snapshot(h) \/ WriteTmp(h) \/ Rename(h) \/ SaveFails(h)
      PROVE  SessionTable'
  <2>1. sessions' = sessions /\ now' = now /\ tokens' = tokens
    BY <1>9 DEF Login, Redeem, Reset, SetPassword, Snapshot, WriteTmp, Rename, SaveFails
  <2> QED
    BY <2>1, <1>0, <1>same
<1> QED
  BY <1>1, <1>2, <1>3, <1>4, <1>5, <1>6, <1>7, <1>8, <1>9 DEF Next

(* The table of codes keeps its keys, its entries and its limit, and the   *)
(* codes in it have not been redeemed.                                     *)
CodeTable ==
  /\ Keys(codes) \subseteq 1 .. drawn
  /\ \A c \in Keys(codes) : codes[c] \in [created : 0 .. now, expires : Nat]
  /\ Cardinality(Keys(codes)) <= CodeMax
  /\ CodeInv

LEMMA CodeTablePreserved == SessionInv /\ [Next]_vars => CodeTable'
<1> SUFFICES ASSUME SessionInv, [Next]_vars PROVE CodeTable'
  OBVIOUS
<1> USE SessionsAssumption
<1>typed. /\ CodeTable /\ drawn \in 0 .. MaxCodes /\ now \in Nat
  BY DEF SessionInv, SizeInv, TypeOK, CodeTable
<1>0. ASSUME CodesShrink, now' = now, drawn' = drawn, redeemed' = redeemed PROVE CodeTable'
  <2>1. CodeInv'
    BY <1>0, <1>typed DEF CodeTable, CodeInv, CodesShrink
  <2> QED
    BY <1>0, <2>1, ShrinkingCodesIsSafe DEF CodeTable
<1>1. CASE IssueCode
  <2>1. /\ drawn' = drawn + 1 /\ drawn < MaxCodes /\ now' = now /\ redeemed' = redeemed
    BY <1>1 DEF IssueCode
  <2>2. [created |-> now, expires |-> now + CodeTTL] \in [created : 0 .. now', expires : Nat]
    BY <2>1, <1>typed
  <2>3. Keys(codes') \subseteq 1 .. drawn'
    BY <1>1, <2>1, <1>typed, CodeIssueMakesRoom DEF CodeTable
  <2>4. ASSUME NEW c \in Keys(codes') PROVE codes'[c] \in [created : 0 .. now', expires : Nat]
    <3>1. CASE c = drawn'
      BY <1>1, <3>1, <2>2, CodeIssueMakesRoom
    <3>2. CASE c # drawn'
      BY <1>1, <3>2, <2>1, <2>4, <1>typed, CodeIssueMakesRoom DEF CodeTable
    <3> QED
      BY <3>1, <3>2
  <2>5. Cardinality(Keys(codes')) <= CodeMax
    BY <1>1, CodeIssueMakesRoom
  <2>6. CodeInv'
    <3>1. redeemed[drawn'] = 0
      BY <2>1, <1>typed DEF CodeTable, CodeInv
    <3>2. \A c \in Keys(codes') : redeemed'[c] = 0
      BY <1>1, <3>1, <2>1, <1>typed, CodeIssueMakesRoom DEF CodeTable, CodeInv
    <3> QED
      BY <3>2, <2>1, <1>typed DEF CodeTable, CodeInv
  <2> QED
    BY <2>3, <2>4, <2>5, <2>6 DEF CodeTable
<1>2. ASSUME NEW h \in Handlers, NEW c \in 1 .. drawn, Redeem(h, c) PROVE CodeTable'
  <2>1. /\ c \in Keys(Live(codes)) /\ codes' = Without(Live(codes), {c})
        /\ redeemed' = [redeemed EXCEPT ![c] = @ + 1] /\ now' = now /\ drawn' = drawn
    BY <1>2 DEF Redeem, Spend
  <2>2. CodesShrink /\ c \in Keys(codes) /\ c \notin Keys(codes')
    BY <2>1, KeysOfLive, KeysOfRest DEF CodesShrink
  <2>3. CodeInv'
    <3>1. redeemed \in [1 .. MaxCodes -> 0 .. 1] /\ redeemed[c] = 0 /\ c \in 1 .. MaxCodes
      BY <2>2, <1>typed DEF CodeTable, CodeInv
    <3>2. redeemed' \in [1 .. MaxCodes -> 0 .. 1]
      BY <2>1, <3>1
    <3>3. \A o \in Keys(codes') : redeemed'[o] = 0
      <4> TAKE o \in Keys(codes')
      <4>1. o \in Keys(codes) /\ o # c
        BY <2>2 DEF CodesShrink
      <4>2. o \in 1 .. MaxCodes /\ redeemed[o] = 0
        BY <4>1, <1>typed DEF CodeTable, CodeInv
      <4> QED
        BY <4>1, <4>2, <2>1, <3>1
    <3>4. \A o \in 1 .. MaxCodes : o > drawn' => redeemed'[o] = 0
      BY <2>1, <3>1, <1>typed DEF CodeTable, CodeInv
    <3> QED
      BY <3>2, <3>3, <3>4 DEF CodeInv
  <2> QED
    BY <2>1, <2>2, <2>3, ShrinkingCodesIsSafe DEF CodeTable
<1>3. CASE Restart
  <2>1. CodesShrink
    BY <1>3 DEF Restart, CodesShrink, Keys
  <2> QED
    BY <1>3, <1>0, <2>1 DEF Restart
<1>4. CASE Tick
  BY <1>4, <1>typed DEF Tick, CodeTable, CodeInv
<1>5. CASE Lookup \/ (\E t \in 1 .. tokens : Logout(t)) \/ UNCHANGED vars
  <2>1. codes' = codes /\ now' = now /\ drawn' = drawn /\ redeemed' = redeemed
    BY <1>5 DEF Lookup, Logout, vars
  <2> QED
    BY <2>1, <1>0 DEF CodesShrink
<1>6. ASSUME NEW h \in Handlers,
             \/ Login(h) \/ Issue(h) \/ SetPassword(h) \/ Snapshot(h) \/ WriteTmp(h) \/ Rename(h)
             \/ SaveFails(h) \/ Clear(h)
             \/ \E p \in Passwords : Reset(h, p) \/ \E byToken \in BOOLEAN : Change(h, byToken, p)
      PROVE  CodeTable'
  <2>1. codes' = codes /\ now' = now /\ drawn' = drawn /\ redeemed' = redeemed
    BY <1>6 DEF Login, Issue, SetPassword, Snapshot, WriteTmp, Rename, SaveFails, Clear, Reset, Change
  <2> QED
    BY <2>1, <1>0 DEF CodesShrink
<1> QED
  BY <1>1, <1>2, <1>3, <1>4, <1>5, <1>6 DEF Next

LEMMA SessionsPreserved == SessionInv /\ [Next]_vars => SessionInv'
<1> SUFFICES ASSUME SessionInv, [Next]_vars PROVE SessionInv'
  OBVIOUS
<1>1. TaskInv' /\ Scalars' /\ SessionTable' /\ CodeTable'
  BY TasksPreserved, ScalarsPreserved, SessionTablePreserved, CodeTablePreserved
<1>2. \A h \in Handlers :
        task'[h].pc \in {"idle", "issue", "set", "snapshot", "write", "rename", "clear"}
  BY <1>1, TaskKinds DEF TaskInv
<1>3. TypeOK'
  BY <1>1, <1>2 DEF Scalars, SessionTable, CodeTable, TypeOK
<1> QED
  BY <1>1, <1>3 DEF SessionInv, SizeInv, SessionTable, CodeTable

(* The tables are what they are declared to be and within their limits.    *)
THEOREM SessionsInvariant == Spec => []SessionInv
  BY SessionsInit, SessionsPreserved, PTL DEF Spec

(* Both tables keep to their limits, and no login code is redeemed twice,  *)
(* however many handlers log in, ask and redeem at once (session_store).   *)
THEOREM TablesStayBounded == Spec => []TablesAreKept
<1>1. SessionInv => TablesAreKept
  <2> SUFFICES ASSUME SessionInv PROVE TablesAreKept
    OBVIOUS
  <2>1. \A c \in Keys(redeemed) : redeemed[c] <= 1
    BY DEF SessionInv, CodeInv, Keys
  <2> QED
    BY <2>1 DEF SessionInv, SizeInv, TablesAreKept
<1> QED
  BY <1>1, SessionsInvariant, PTL

-----------------------------------------------------------------------------
(* Every step that takes a session away has a reason to.                   *)
LEMMA StepsEndForAReason == SessionInv /\ [Next]_vars => [EndsForAReason]_vars
<1> SUFFICES ASSUME SessionInv, Next PROVE EndsForAReason
  OBVIOUS
<1>live. ASSUME NEW t \in Keys(sessions), t \notin Keys(Live(sessions)) PROVE now > sessions[t].expires
  BY <1>live, KeysOfLive, SessionsAssumption DEF SessionInv, TypeOK
<1>0. ASSUME tokens' = tokens, Keys(Live(sessions)) \subseteq Keys(sessions') PROVE EndsForAReason
  BY <1>0, <1>live DEF EndsForAReason
<1>same. ASSUME sessions' = sessions PROVE Keys(Live(sessions)) \subseteq Keys(sessions')
  BY <1>same, KeysOfLive
<1>1. ASSUME NEW h \in Handlers, Issue(h) PROVE EndsForAReason
  BY <1>1, IssueMakesRoom DEF EndsForAReason
<1>2. ASSUME NEW t \in 1 .. tokens, Logout(t) PROVE EndsForAReason
  <2>1. tokens' = tokens /\ Keys(sessions') = Keys(Live(sessions)) \ {t}
    BY <1>2, KeysOfRest DEF Logout
  <2> QED
    BY <1>2, <2>1, <1>live DEF EndsForAReason
<1>3. ASSUME NEW h \in Handlers, Clear(h) PROVE EndsForAReason
  <2>1. tokens' = tokens
    BY <1>3 DEF Clear
  <2> QED
    BY <1>3, <2>1 DEF EndsForAReason
<1>4. CASE Restart
  <2>1. tokens' = tokens
    BY <1>4 DEF Restart
  <2> QED
    BY <1>4, <2>1 DEF EndsForAReason
<1>5. ASSUME NEW h \in Handlers, NEW byToken \in BOOLEAN, NEW p \in Passwords, Change(h, byToken, p)
      PROVE  EndsForAReason
  BY <1>5, <1>0, <1>same DEF Change
<1>6. CASE Lookup
  BY <1>6, <1>0 DEF Lookup
<1>7. CASE Tick \/ IssueCode
  BY <1>7, <1>0, <1>same DEF Tick, IssueCode
<1>8. ASSUME NEW h \in Handlers,
             \/ Login(h) \/ (\E c \in 1 .. drawn : Redeem(h, c)) \/ (\E p \in Passwords : Reset(h, p))
             \/ SetPassword(h) \/ Snapshot(h) \/ WriteTmp(h) \/ Rename(h) \/ SaveFails(h)
      PROVE  EndsForAReason
  <2>1. sessions' = sessions /\ tokens' = tokens
    BY <1>8 DEF Login, Redeem, Reset, SetPassword, Snapshot, WriteTmp, Rename, SaveFails
  <2> QED
    BY <2>1, <1>0, <1>same
<1> QED
  BY <1>1, <1>2, <1>3, <1>4, <1>5, <1>6, <1>7, <1>8 DEF Next

(* Nobody is logged out without a reason, whatever handlers, requests and  *)
(* restarts come between, and a session just issued is in the table.       *)
THEOREM NobodyIsLoggedOut == Spec => SessionsEndForAReason
  BY SessionsInvariant, StepsEndForAReason, PTL DEF Spec, SessionsEndForAReason

-----------------------------------------------------------------------------
(* A change of password is past SetPassword and has not cleared the        *)
(* sessions yet.                                                           *)
WillClear(h) == task[h].pc \in {"snapshot", "write", "rename", "clear"} /\ task[h].kind = "change"

(* As long as every Save succeeds, sessions are those of the password that *)
(* is good, or somebody is about to clear them.                            *)
PasswordInv ==
  saved => \/ \A t \in Keys(sessions) : sessions[t].password = secrets.password
           \/ \E h \in Handlers : WillClear(h)

LEMMA PasswordPreserved == SessionInv /\ PasswordInv /\ [Next]_vars => PasswordInv'
<1> SUFFICES ASSUME SessionInv, PasswordInv, [Next]_vars, saved' PROVE PasswordInv'
  BY DEF PasswordInv
<1>typed. task \in [Handlers -> Tasks]
  BY DEF SessionInv, TaskInv
<1>kind. \A h \in Handlers : task[h].pc \in {"snapshot", "clear"} => task[h].kind = "change"
  BY <1>typed, TaskKinds DEF Changing, Saving
<1>0. ASSUME Shrinks, secrets' = secrets, saved' = saved, \A h \in Handlers : WillClear(h) => WillClear(h)'
      PROVE  PasswordInv'
  BY <1>0 DEF PasswordInv, Shrinks
<1>same. ASSUME sessions' = sessions PROVE Shrinks
  BY <1>same DEF Shrinks
<1>live. ASSUME sessions' = Live(sessions) PROVE Shrinks
  BY <1>live, KeysOfLive DEF Shrinks
<1>goes. ASSUME NEW h \in Handlers, ~WillClear(h), \A g \in Handlers \ {h} : task'[g] = task[g]
         PROVE  \A g \in Handlers : WillClear(g) => WillClear(g)'
  BY <1>goes DEF WillClear
<1>1. ASSUME NEW h \in Handlers, Issue(h) PROVE PasswordInv'
  <2>1. secrets' = secrets /\ saved' = saved
    BY <1>1 DEF Issue
  <2>2. \A g \in Handlers : WillClear(g) => WillClear(g)'
    BY <1>1, <1>goes, <1>typed DEF Issue, Goes, WillClear
  <2>3. ASSUME \A t \in Keys(sessions) : sessions[t].password = secrets.password, NEW t \in Keys(sessions')
        PROVE  sessions'[t].password = secrets.password
    BY <1>1, <2>3, IssueMakesRoom
  <2> QED
    BY <2>1, <2>2, <2>3 DEF PasswordInv
<1>2. ASSUME NEW t \in 1 .. tokens, Logout(t) PROVE PasswordInv'
  <2>1. Shrinks
    <3>1. sessions' = Without(Live(sessions), {t})
      BY <1>2 DEF Logout
    <3>2. /\ Keys(sessions') \subseteq Keys(Live(sessions))
          /\ \A k \in Keys(sessions') : sessions'[k] = Live(sessions)[k]
      BY <3>1, KeysOfRest
    <3> QED
      BY <3>2, KeysOfLive DEF Shrinks
  <2> QED
    BY <1>2, <2>1, <1>0 DEF Logout, WillClear
<1>3. ASSUME NEW h \in Handlers, Clear(h) PROVE PasswordInv'
  BY <1>3 DEF Clear, PasswordInv, Keys
<1>4. CASE Restart
  BY <1>4 DEF Restart, PasswordInv, Keys
<1>5. ASSUME NEW h \in Handlers, SetPassword(h) PROVE PasswordInv'
  <2>1. task'[h] = [task[h] EXCEPT !.pc = "snapshot"] /\ task[h] \in Changing
    BY <1>5, <1>typed, TaskKinds DEF SetPassword, Goes
  <2>2. WillClear(h)'
    BY <2>1 DEF WillClear, Changing
  <2> QED
    BY <2>2 DEF PasswordInv
<1>6. ASSUME NEW h \in Handlers, Snapshot(h) \/ WriteTmp(h) \/ Rename(h) PROVE PasswordInv'
  <2>1. /\ sessions' = sessions /\ secrets' = secrets /\ saved' = saved
        /\ \A g \in Handlers \ {h} : task'[g] = task[g]
    BY <1>6, <1>typed DEF Snapshot, Copies, WriteTmp, Rename, Goes
  <2>2. WillClear(h) => WillClear(h)'
    <3>1. CASE Snapshot(h)
      BY <3>1, <1>typed DEF Snapshot, Copies, WillClear
    <3>2. CASE WriteTmp(h)
      <4>1. task[h] \in Saving \cup Resetting /\ task'[h] = [task[h] EXCEPT !.pc = "rename"]
        BY <3>2, <1>typed, TaskKinds DEF WriteTmp, Goes
      <4> QED
        BY <4>1 DEF WillClear, Saving, Resetting
    <3>3. CASE Rename(h)
      <4>1. /\ task[h] \in Saving \cup Resetting
            /\ task[h].kind # "reset" => task'[h] = [task[h] EXCEPT !.pc = "clear"]
        BY <3>3, <1>typed, TaskKinds DEF Rename, Goes
      <4> QED
        BY <4>1 DEF WillClear, Saving, Resetting
    <3> QED
      BY <1>6, <3>1, <3>2, <3>3
  <2>3. \A g \in Handlers : WillClear(g) => WillClear(g)'
    BY <2>1, <2>2 DEF WillClear
  <2> QED
    BY <2>1, <2>3, <1>0, <1>same
<1>7. ASSUME NEW h \in Handlers,
             \/ Login(h) \/ (\E c \in 1 .. drawn : Redeem(h, c))
             \/ \E p \in Passwords : Reset(h, p) \/ \E byToken \in BOOLEAN : Change(h, byToken, p)
      PROVE  PasswordInv'
  <2>1. /\ secrets' = secrets /\ saved' = saved /\ task[h].pc = "idle"
        /\ sessions' = sessions \/ sessions' = Live(sessions)
        /\ \A g \in Handlers \ {h} : task'[g] = task[g]
    BY <1>7, <1>typed DEF Login, Redeem, Reset, Change, Goes
  <2>2. ~WillClear(h)
    BY <2>1 DEF WillClear
  <2>3. \A g \in Handlers : WillClear(g) => WillClear(g)'
    BY <2>1, <2>2, <1>goes
  <2> QED
    BY <2>1, <2>3, <1>0, <1>same, <1>live
<1>8. ASSUME NEW h \in Handlers, SaveFails(h) PROVE FALSE
  BY <1>8 DEF SaveFails
<1>9. CASE Tick \/ Lookup \/ IssueCode \/ UNCHANGED vars
  <2>1. /\ secrets' = secrets /\ saved' = saved /\ task' = task
        /\ sessions' = sessions \/ sessions' = Live(sessions)
    BY <1>9 DEF Tick, Lookup, IssueCode, vars
  <2> QED
    BY <2>1, <1>0, <1>same, <1>live DEF WillClear
<1> QED
  BY <1>1, <1>2, <1>3, <1>4, <1>5, <1>6, <1>7, <1>8, <1>9 DEF Next

(* Once a change of password is through, no session of the old password is *)
(* left, if saving it succeeded (handle_session_password).                 *)
THEOREM OldSessionsEnd == Spec => []ChangeEndsSessions
<1>1. Init => PasswordInv
  BY DEF Init, PasswordInv, Keys
<1>2. SessionInv /\ PasswordInv => ChangeEndsSessions
  <2> SUFFICES ASSUME SessionInv, PasswordInv, saved,
                      \A h \in Handlers : task[h].pc \in {"idle", "issue"} \/ task[h].kind = "reset"
               PROVE  \A t \in Keys(sessions) : sessions[t].password = secrets.password
    BY DEF ChangeEndsSessions
  <2>1. \A h \in Handlers : ~WillClear(h)
    BY DEF WillClear
  <2> QED
    BY <2>1 DEF PasswordInv
<1> QED
  BY <1>1, <1>2, PasswordPreserved, SessionsInvariant, PTL DEF Spec

-----------------------------------------------------------------------------
(* The flag of the initial password, also in what is about to be written.  *)
Flagged(c) == c.must <=> c.password = Default

FlagInv ==
  /\ FlagMeansInitial
  /\ \A h \in Handlers : task[h].pc \in {"write", "rename"} => Flagged(task[h].content)

(* While nobody has written beside another one, at most one handler writes,*)
(* it is one of the service, and, if every Save succeeded, its content is  *)
(* what is in memory: in the temporary file when it is going to rename it, *)
(* and in the file when nobody writes.                                     *)
FileInv ==
  apart =>
    /\ \A g, h \in Writers : g = h
    /\ \A h \in Writers : task[h].kind = "change"
    /\ saved =>
         /\ Writers = {} => file = secrets
         /\ \A h \in Handlers : task[h].pc \in {"write", "rename"} => task[h].content = secrets
         /\ \A h \in Handlers : task[h].pc = "rename" => tmp = secrets

LEMMA FlagPreserved == SessionInv /\ FlagInv /\ [Next]_vars => FlagInv'
<1> SUFFICES ASSUME SessionInv, FlagInv, [Next]_vars PROVE FlagInv'
  OBVIOUS
<1>typed. task \in [Handlers -> Tasks] /\ tmp \in Content \cup {None}
  BY DEF SessionInv, TaskInv, TypeOK
<1>flags. /\ Flagged(secrets) /\ Flagged(file) /\ (tmp # None => Flagged(tmp))
          /\ \A h \in Handlers : task[h].pc \in {"write", "rename"} => Flagged(task[h].content)
  BY DEF FlagInv, FlagMeansInitial, Flagged
<1>suff. ASSUME Flagged(secrets)', Flagged(file)', tmp' # None => Flagged(tmp)',
                \A h \in Handlers : task'[h].pc \in {"write", "rename"} => Flagged(task'[h].content)
         PROVE  FlagInv'
  BY <1>suff DEF FlagInv, FlagMeansInitial, Flagged
<1>new. \A p \in Passwords : Flagged([password |-> p, must |-> FALSE])
  BY SessionsAssumption DEF Flagged
<1>0. ASSUME secrets' = secrets, file' = file, tmp' = tmp,
             \A h \in Handlers : task'[h].pc \in {"write", "rename"} => task'[h] = task[h]
      PROVE  FlagInv'
  BY <1>0, <1>flags, <1>suff DEF Flagged
<1>1. ASSUME NEW h \in Handlers,
             \/ Login(h) \/ Issue(h) \/ (\E c \in 1 .. drawn : Redeem(h, c)) \/ SaveFails(h) \/ Clear(h)
             \/ \E p \in Passwords, byToken \in BOOLEAN : Change(h, byToken, p)
      PROVE  FlagInv'
  <2>1. /\ secrets' = secrets /\ file' = file /\ tmp' = tmp
        /\ \A g \in Handlers \ {h} : task'[g] = task[g]
        /\ task'[h].pc \notin {"write", "rename"}
    BY <1>1, <1>typed DEF Login, Issue, Redeem, SaveFails, Clear, Change, Goes, Idle
  <2> QED
    BY <2>1, <1>0
<1>2. ASSUME NEW h \in Handlers, SetPassword(h) PROVE FlagInv'
  <2>1. /\ file' = file /\ tmp' = tmp /\ task[h] \in Changing
        /\ secrets' = [password |-> task[h].password, must |-> FALSE]
        /\ task' = [task EXCEPT ![h] = [task[h] EXCEPT !.pc = "snapshot"]]
    BY <1>2, <1>typed, TaskKinds DEF SetPassword, Goes
  <2>2. Flagged(secrets)'
    BY <2>1, <1>new DEF Changing, Flagged
  <2>3. task'[h].pc = "snapshot" /\ \A g \in Handlers \ {h} : task'[g] = task[g]
    BY <2>1, <1>typed DEF Changing
  <2> QED
    BY <2>1, <2>2, <2>3, <1>flags, <1>suff DEF Flagged
<1>3. ASSUME NEW h \in Handlers, Snapshot(h) PROVE FlagInv'
  <2>1. /\ UNCHANGED <<secrets, file, tmp>> /\ task'[h].content = secrets
        /\ \A g \in Handlers \ {h} : task'[g] = task[g]
    BY <1>3, <1>typed DEF Snapshot, Copies
  <2> QED
    BY <2>1, <1>flags, <1>suff DEF Flagged
<1>4. ASSUME NEW h \in Handlers, WriteTmp(h) PROVE FlagInv'
  <2>1. /\ UNCHANGED <<secrets, file>> /\ tmp' = task[h].content /\ task[h].pc = "write"
        /\ task' = [task EXCEPT ![h] = [task[h] EXCEPT !.pc = "rename"]]
        /\ task[h] \in Saving \cup Resetting
    BY <1>4, <1>typed, TaskKinds DEF WriteTmp, Goes
  <2>2. task'[h].content = task[h].content /\ \A g \in Handlers \ {h} : task'[g] = task[g]
    BY <2>1, <1>typed DEF Saving, Resetting
  <2>3. Flagged(task[h].content)
    BY <2>1, <1>flags
  <2> QED
    BY <2>1, <2>2, <2>3, <1>flags, <1>suff DEF Flagged
<1>5. ASSUME NEW h \in Handlers, Rename(h) PROVE FlagInv'
  <2>1. /\ secrets' = secrets /\ file' = tmp /\ tmp # None /\ tmp' = None
        /\ task' = [task EXCEPT ![h] =
                      IF task[h].kind = "reset" THEN Idle ELSE [task[h] EXCEPT !.pc = "clear"]]
        /\ task[h] \in Saving \cup Resetting
    BY <1>5, <1>typed, TaskKinds DEF Rename, Goes
  <2>2. task'[h].pc \in {"idle", "clear"} /\ \A g \in Handlers \ {h} : task'[g] = task[g]
    BY <2>1, <1>typed DEF Saving, Resetting, Idle
  <2> QED
    BY <2>1, <2>2, <1>flags, <1>suff DEF Flagged
<1>6. ASSUME NEW h \in Handlers, NEW p \in Passwords, Reset(h, p) PROVE FlagInv'
  <2>1. /\ UNCHANGED <<secrets, file, tmp>> /\ task'[h].content = [password |-> p, must |-> FALSE]
        /\ \A g \in Handlers \ {h} : task'[g] = task[g]
    BY <1>6, <1>typed DEF Reset, Goes
  <2> QED
    BY <2>1, <1>new, <1>flags, <1>suff DEF Flagged
<1>7. CASE Restart
  <2>1. /\ secrets' = file /\ UNCHANGED <<file, tmp>>
        /\ \A h \in Handlers : task'[h] \in {task[h], Idle}
    BY <1>7 DEF Restart
  <2>2. \A h \in Handlers : task'[h].pc \in {"write", "rename"} => task'[h] = task[h]
    BY <2>1 DEF Idle
  <2> QED
    BY <2>1, <2>2, <1>flags, <1>suff DEF Flagged
<1>8. CASE Tick \/ Lookup \/ IssueCode \/ (\E t \in 1 .. tokens : Logout(t)) \/ UNCHANGED vars
  BY <1>8, <1>0 DEF Tick, Lookup, IssueCode, Logout, vars
<1> QED
  BY <1>1, <1>2, <1>3, <1>4, <1>5, <1>6, <1>7, <1>8 DEF Next

LEMMA FilePreserved == SessionInv /\ FileInv /\ [Next]_vars => FileInv'
<1> SUFFICES ASSUME SessionInv, FileInv, [Next]_vars, apart' PROVE FileInv'
  BY DEF FileInv
<1> DEFINE InSave == {"set", "snapshot", "write", "rename"}
<1>typed. task \in [Handlers -> Tasks]
  BY DEF SessionInv, TaskInv
<1>now. \A h \in Handlers : h \in Writers <=> task[h].pc \in InSave
  BY DEF Writers
<1>next. /\ \A h \in Handlers : h \in Writers' <=> task'[h].pc \in InSave
         /\ Writers' \subseteq Handlers
  BY DEF Writers
<1> HIDE DEF InSave
<1>0. ASSUME UNCHANGED <<secrets, file, tmp, apart, saved>>,
             \A h \in Handlers : task'[h] = task[h] \/ (task[h].pc \notin InSave /\ task'[h].pc \notin InSave)
      PROVE  FileInv'
  <2>1. Writers' = Writers
    BY <1>0 DEF Writers, InSave
  <2> QED
    BY <1>0, <2>1, <1>now, <1>next DEF FileInv, InSave
<1>one. ASSUME apart, NEW h \in Handlers, task[h].pc \in InSave
        PROVE  /\ \A g \in Handlers \ {h} : task[g].pc \notin InSave
               /\ task[h].kind = "change"
  BY <1>one, <1>now DEF FileInv
<1>1. ASSUME NEW h \in Handlers,
             Login(h) \/ Issue(h) \/ (\E c \in 1 .. drawn : Redeem(h, c)) \/ Clear(h)
      PROVE  FileInv'
  <2>1. /\ UNCHANGED <<secrets, file, tmp, apart, saved>>
        /\ \A g \in Handlers \ {h} : task'[g] = task[g]
        /\ task[h].pc \in {"idle", "issue", "clear"} /\ task'[h] \in {Idle, [pc |-> "issue"]}
    BY <1>1, <1>typed DEF Login, Issue, Redeem, Clear, Goes
  <2>2. task[h].pc \notin InSave /\ task'[h].pc \notin InSave
    BY <2>1 DEF Idle, InSave
  <2> QED
    BY <2>1, <2>2, <1>0
<1>2. ASSUME NEW h \in Handlers, NEW byToken \in BOOLEAN, NEW p \in Passwords, Change(h, byToken, p)
      PROVE  FileInv'
  <2>1. /\ Writers = {} /\ task'[h].pc = "set" /\ task'[h].kind = "change"
        /\ \A g \in Handlers \ {h} : task'[g] = task[g]
    BY <1>2, <1>typed DEF Change, Goes
  <2>2. \A g \in Handlers \ {h} : task'[g].pc \notin InSave
    BY <2>1, <1>now
  <2>3. Writers' = {h}
    BY <2>1, <2>2, <1>next DEF InSave
  <2> QED
    BY <2>1, <2>2, <2>3 DEF FileInv, InSave
<1>3. ASSUME NEW h \in Handlers, SetPassword(h) \/ Snapshot(h) PROVE FileInv'
  <2>1. /\ apart' = apart /\ task[h].pc \in {"set", "snapshot"}
        /\ \A g \in Handlers \ {h} : task'[g] = task[g]
    BY <1>3, <1>typed DEF SetPassword, Snapshot, Copies, Goes
  <2>2. \A g \in Handlers \ {h} : task'[g].pc \notin InSave
    BY <2>1, <1>one DEF InSave
  <2>3. \/ task'[h].pc = "snapshot" /\ task'[h].kind = "change"
        \/ task'[h].pc = "write" /\ task'[h].kind = "change" /\ task'[h].content = secrets /\ secrets' = secrets
    <3>1. CASE SetPassword(h)
      <4>1. task[h] \in Changing /\ task'[h] = [task[h] EXCEPT !.pc = "snapshot"]
        BY <3>1, <1>typed, TaskKinds DEF SetPassword, Goes
      <4> QED
        BY <4>1 DEF Changing
    <3>2. CASE Snapshot(h)
      BY <3>2, <1>typed DEF Snapshot, Copies
    <3> QED
      BY <1>3, <3>1, <3>2
  <2>4. Writers' = {h}
    BY <2>2, <2>3, <1>next DEF InSave
  <2> QED
    BY <2>2, <2>3, <2>4 DEF FileInv, InSave
<1>4. ASSUME NEW h \in Handlers, WriteTmp(h) PROVE FileInv'
  <2>1. /\ UNCHANGED <<secrets, file, apart, saved>> /\ tmp' = task[h].content
        /\ task[h].pc = "write" /\ task[h] \in Saving \cup Resetting
        /\ task' = [task EXCEPT ![h] = [task[h] EXCEPT !.pc = "rename"]]
    BY <1>4, <1>typed, TaskKinds DEF WriteTmp, Goes
  <2>2. /\ task'[h].pc = "rename" /\ task'[h].kind = task[h].kind /\ task'[h].content = task[h].content
        /\ \A g \in Handlers \ {h} : task'[g] = task[g]
    BY <2>1, <1>typed DEF Saving, Resetting
  <2>3. /\ \A g \in Handlers \ {h} : task'[g].pc \notin InSave
        /\ task[h].kind = "change"
    BY <2>1, <2>2, <1>one DEF InSave
  <2>4. Writers' = {h}
    BY <2>2, <2>3, <1>next DEF InSave
  <2>5. saved => task[h].content = secrets
    BY <2>1 DEF FileInv
  <2> QED
    BY <2>1, <2>2, <2>3, <2>4, <2>5 DEF FileInv, InSave
<1>5. ASSUME NEW h \in Handlers, Rename(h) PROVE FileInv'
  <2>1. /\ UNCHANGED <<secrets, apart, saved>> /\ file' = tmp
        /\ task[h].pc = "rename" /\ task[h] \in Saving \cup Resetting
        /\ task' = [task EXCEPT ![h] =
                      IF task[h].kind = "reset" THEN Idle ELSE [task[h] EXCEPT !.pc = "clear"]]
    BY <1>5, <1>typed, TaskKinds DEF Rename, Goes
  <2>2. task'[h].pc \in {"idle", "clear"} /\ \A g \in Handlers \ {h} : task'[g] = task[g]
    BY <2>1, <1>typed DEF Saving, Resetting, Idle
  <2>3. \A g \in Handlers : task'[g].pc \notin InSave
    BY <2>1, <2>2, <1>one DEF InSave
  <2>4. saved => tmp = secrets
    BY <2>1 DEF FileInv
  <2>5. Writers' = {}
    BY <2>3, <1>next
  <2> QED
    BY <2>1, <2>3, <2>4, <2>5 DEF FileInv, InSave
<1>6. ASSUME NEW h \in Handlers, SaveFails(h) PROVE FileInv'
  <2>1. /\ apart' = apart /\ saved' = FALSE /\ task'[h] = Idle
        /\ \A g \in Handlers \ {h} : task'[g] = task[g]
    BY <1>6, <1>typed DEF SaveFails, Goes
  <2>2. \A g \in Writers' : g \in Writers /\ task'[g] = task[g]
    BY <2>1, <1>now, <1>next DEF Idle, InSave
  <2> QED
    BY <2>1, <2>2 DEF FileInv
<1>7. ASSUME NEW h \in Handlers, NEW p \in Passwords, Reset(h, p) PROVE FALSE
  BY <1>7 DEF Reset
<1>8. CASE Restart
  <2>1. secrets' = file /\ file' = file /\ \A h \in Handlers : task'[h] = Idle
    BY <1>8 DEF Restart
  <2>2. \A h \in Handlers : task'[h].pc \notin InSave
    BY <2>1 DEF Idle, InSave
  <2>3. Writers' = {}
    BY <2>2, <1>next
  <2> QED
    BY <2>1, <2>2, <2>3 DEF FileInv, InSave
<1>9. CASE Tick \/ Lookup \/ IssueCode \/ (\E t \in 1 .. tokens : Logout(t)) \/ UNCHANGED vars
  BY <1>9, <1>0 DEF Tick, Lookup, IssueCode, Logout, vars
<1> QED
  BY <1>1, <1>2, <1>3, <1>4, <1>5, <1>6, <1>7, <1>8, <1>9 DEF Next

(* A restart reads the password that was set last, when nobody was writing *)
(* and every Save succeeded, and the flag of the initial password goes with*)
(* it and no other (SetPassword, Save, LoadSecrets).                       *)
THEOREM SecretsSurvive == Spec => []SecretsAreKept
<1>1. Init => FlagInv /\ FileInv
  <2> SUFFICES ASSUME Init PROVE FlagInv /\ FileInv
    OBVIOUS
  <2>1. \A h \in Handlers : task[h].pc = "idle"
    BY DEF Init, Idle
  <2>2. Writers = {}
    BY <2>1 DEF Writers
  <2> QED
    BY <2>1, <2>2 DEF Init, Initial, FlagInv, FlagMeansInitial, FileInv
<1>2. FlagInv /\ FileInv => SecretsAreKept
  BY DEF FlagInv, FileInv, SecretsAreKept
<1> QED
  BY <1>1, <1>2, FlagPreserved, FilePreserved, SessionsInvariant, PTL DEF Spec

-----------------------------------------------------------------------------
(* Failures that are remembered: of one window each has a number of its    *)
(* own; an earlier window has ended, by the time it is counted from, when  *)
(* a failure of a later one happens; and the first failure of a window     *)
(* began its attempt shortly before, unless it is the oldest remembered.   *)
InOrder(f, g, window) ==
  /\ f.time <= g.time /\ f.first + window < g.time
  /\ g.nth = 1 => g.time <= g.first + CheckTime

Orderly(failures, limit, window, time) ==
  /\ failures \subseteq [age : Nat, nth : 1 .. limit - 1, first : Nat, time : Nat]
  /\ \A f \in failures : f.time <= time /\ time <= f.time + window
  /\ \A f, g \in failures : f.age = g.age /\ f.nth = g.nth => f = g
  /\ \A f, g \in failures : f.age > g.age => InOrder(f, g, window)
  /\ \A f \in failures, a \in Nat : a < f.age => \E g \in failures : g.age = a /\ g.nth = 1

(* What a record counts are the failures of the window that counts now.    *)
CountedBy(failures, record) ==
  /\ record.fails = 0 => failures = {}
  /\ \A f \in failures : f.age = 0 => f.first = record.first /\ f.nth <= record.fails

(* The window of all failures is over.                                     *)
OverBy(failures, window, time) == \A f \in failures : f.age = 0 => f.first + window < time

AttemptInv ==
  \A h \in Checkers : attempt[h] # NoAttempt =>
    attempt[h].at <= clock /\ clock <= attempt[h].at + CheckTime

SourceInv(s) ==
  /\ Orderly(recent[s], MaxFails, Window, clock)
  /\ IF s \in Known(by_ip) THEN CountedBy(recent[s], by_ip[s]) ELSE OverBy(recent[s], Window, clock)

GateInv ==
  /\ Orderly(everyone, GlobalFails, GlobalWindow, clock)
  /\ CountedBy(everyone, global)

ThrottleInv == LimitsHold /\ AttemptInv /\ (\A s \in Sources : SourceInv(s)) /\ GateInv

-----------------------------------------------------------------------------
(* No more than three windows are remembered at a time: the first of the   *)
(* middle ones would be older than a window.                               *)
LEMMA ThreeWindows ==
  ASSUME NEW failures, NEW limit \in Nat \ {0}, NEW window \in Nat, NEW time \in Nat,
         2 * CheckTime <= window, CheckTime \in Nat,
         Orderly(failures, limit, window, time), NEW f \in failures
  PROVE  f.age <= 2
<1> SUFFICES ASSUME f.age > 2 PROVE FALSE
  BY DEF Orderly
<1>1. PICK g2 \in failures : g2.age = 2 /\ g2.nth = 1
  BY DEF Orderly
<1>2. PICK g1 \in failures : g1.age = 1 /\ g1.nth = 1
  BY DEF Orderly
<1>3. PICK g0 \in failures : g0.age = 0 /\ g0.nth = 1
  BY DEF Orderly
<1>4. InOrder(f, g2, window) /\ InOrder(g2, g1, window) /\ InOrder(g1, g0, window)
  BY <1>1, <1>2, <1>3 DEF Orderly
<1>5. /\ f.time \in Nat /\ g2.time \in Nat /\ g1.time \in Nat /\ g0.time \in Nat
      /\ f.first \in Nat /\ g2.first \in Nat /\ g1.first \in Nat /\ g0.first \in Nat
      /\ g0.time <= time /\ time <= f.time + window
  BY <1>1, <1>2, <1>3 DEF Orderly
<1> QED
  BY <1>1, <1>2, <1>4, <1>5 DEF InOrder

LEMMA BurstIsBounded ==
  ASSUME NEW failures, NEW limit \in Nat \ {0}, NEW window \in Nat, NEW time \in Nat,
         2 * CheckTime <= window, CheckTime \in Nat,
         Orderly(failures, limit, window, time)
  PROVE  IsFiniteSet(failures) /\ Cardinality(failures) <= Burst(limit)
<1> DEFINE places == (0 .. 2) \X (1 .. limit - 1)
           place == [f \in failures |-> <<f.age, f.nth>>]
<1>0. \A f \in failures : f.age <= 2
  BY ThreeWindows
<1>1. \A f \in failures : f.age \in 0 .. 2 /\ f.nth \in 1 .. limit - 1
  BY <1>0 DEF Orderly
<1>2. place \in [failures -> places]
  BY <1>1
<1>3. \A f, g \in failures : place[f] = place[g] => f = g
  BY DEF Orderly
<1>4. place \in Injection(failures, places)
  BY <1>2, <1>3 DEF Injection, IsInjective
<1>5. /\ IsFiniteSet(0 .. 2) /\ Cardinality(0 .. 2) = 3
      /\ IsFiniteSet(1 .. limit - 1) /\ Cardinality(1 .. limit - 1) = limit - 1
  <2>1. IsFiniteSet(0 .. 2) /\ Cardinality(0 .. 2) = 3
    <3>1. ASSUME NEW n \in Nat PROVE IsFiniteSet(0 .. n) /\ Cardinality(0 .. n) = n + 1
      <4>1. /\ IsFiniteSet(0 .. n)
            /\ Cardinality(0 .. n) = IF 0 > n THEN 0 ELSE n - 0 + 1
        BY FS_Interval
      <4> QED
        BY <4>1
    <3>2. IsFiniteSet(0 .. 2) /\ Cardinality(0 .. 2) = 2 + 1
      BY <3>1, Zenon
    <3> QED
      BY <3>2
  <2>2. /\ IsFiniteSet(1 .. limit - 1)
        /\ Cardinality(1 .. limit - 1) = IF 1 > limit - 1 THEN 0 ELSE limit - 1 - 1 + 1
    BY FS_Interval
  <2> QED
    BY <2>1, <2>2
<1>6. IsFiniteSet(places) /\ Cardinality(places) = 3 * (limit - 1)
  BY <1>5, FS_Product
<1> HIDE DEF place, places
<1>7. IsFiniteSet(failures) /\ Cardinality(failures) <= Cardinality(places)
  BY <1>4, <1>6, FS_Injection
<1> QED
  BY <1>6, <1>7 DEF Burst

(* What is left of the failures when some are no longer within the window. *)
LEMMA TimePassesOrderly ==
  ASSUME NEW failures, NEW limit \in Nat \ {0}, NEW window \in Nat, NEW time \in Nat,
         Orderly(failures, limit, window, time)
  PROVE  /\ Orderly(Within(failures, window, time + 1), limit, window, time + 1)
         /\ Within(failures, window, time + 1) \subseteq failures
<1> DEFINE left == Within(failures, window, time + 1)
<1>1. left \subseteq failures /\ \A f \in failures : f \in left <=> time + 1 <= f.time + window
  BY DEF Within
<1> HIDE DEF left
<1>2. \A f \in left : f.time <= time + 1 /\ time + 1 <= f.time + window
  BY <1>1 DEF Orderly
<1>3. ASSUME NEW f \in left, NEW a \in Nat, a < f.age PROVE \E g \in left : g.age = a /\ g.nth = 1
  <2>1. PICK g \in failures : g.age = a /\ g.nth = 1
    BY <1>1, <1>3 DEF Orderly
  <2>2. InOrder(f, g, window)
    BY <1>1, <1>3, <2>1 DEF Orderly
  <2>3. g \in left
    BY <1>1, <1>2, <2>2 DEF Orderly, InOrder
  <2> QED
    BY <2>1, <2>3
<1>4. Orderly(left, limit, window, time + 1)
  BY <1>1, <1>2, <1>3 DEF Orderly
<1> QED
  BY <1>1, <1>4 DEF left

(* One more failure: it opens a window, or it is one more of the window    *)
(* that counts, or it ends all of them.                                    *)
LEMMA OneMoreFailure ==
  ASSUME NEW failures, NEW limit \in Nat \ {0}, NEW window \in Nat, clock \in Nat,
         CheckTime \in Nat, Orderly(failures, limit, window, clock),
         NEW after, after.fails \in 0 .. limit - 1, after.first \in Nat,
         \/ after.fails = 0
         \/ /\ after.fails = 1
            /\ \/ failures = {}
               \/ clock <= after.first + CheckTime /\ OverBy(failures, window, clock)
         \/ /\ after.fails > 1
            /\ \A f \in failures : f.age = 0 => f.first = after.first /\ f.nth < after.fails
  PROVE  /\ Orderly(Noted(failures, after), limit, window, clock)
         /\ CountedBy(Noted(failures, after), after)
<1> DEFINE new == [age |-> 0, nth |-> after.fails, first |-> after.first, time |-> clock]
           noted == Noted(failures, after)
<1>past. \A f \in failures : f.age > 0 => f.first + window < clock
  <2> SUFFICES ASSUME NEW f \in failures, f.age > 0 PROVE f.first + window < clock
    OBVIOUS
  <2>1. PICK g \in failures : g.age = 0 /\ g.nth = 1
    BY DEF Orderly
  <2>2. InOrder(f, g, window)
    BY <2>1 DEF Orderly
  <2>3. f.first \in Nat /\ g.time \in Nat /\ g.time <= clock
    BY <2>1 DEF Orderly
  <2> QED
    BY <2>2, <2>3 DEF InOrder
<1>1. CASE after.fails = 0
  <2>1. noted = {}
    BY <1>1 DEF Noted
  <2> HIDE DEF noted
  <2>2. Orderly(noted, limit, window, clock) /\ CountedBy(noted, after)
    BY <2>1 DEF Orderly, CountedBy
  <2> QED
    BY <2>2 DEF noted
<1>new. /\ new.age = 0 /\ new.nth = after.fails /\ new.first = after.first /\ new.time = clock
        /\ after.fails # 0 => new \in [age : Nat, nth : 1 .. limit - 1, first : Nat, time : Nat]
  OBVIOUS
<1>2. CASE after.fails = 1
  <2> DEFINE older == Older(failures)
  <2>1. noted = {new} \cup older
    BY <1>2 DEF Noted
  <2>2. \A o \in older : \E f \in failures :
          /\ o \in [age : Nat, nth : 1 .. limit - 1, first : Nat, time : Nat]
          /\ o.age = f.age + 1 /\ o.nth = f.nth /\ o.first = f.first /\ o.time = f.time
          /\ o = [age |-> f.age + 1, nth |-> f.nth, first |-> f.first, time |-> f.time]
    BY DEF Older, Orderly
  <2>3. \A f \in failures : \E o \in older : o.age = f.age + 1 /\ o.nth = f.nth
    <3> SUFFICES ASSUME NEW f \in failures PROVE \E o \in older : o.age = f.age + 1 /\ o.nth = f.nth
      OBVIOUS
    <3>1. [f EXCEPT !.age = @ + 1] \in older
      BY DEF Older
    <3>2. /\ [f EXCEPT !.age = @ + 1].age = f.age + 1
          /\ [f EXCEPT !.age = @ + 1].nth = f.nth
      BY DEF Orderly
    <3> QED
      BY <3>1, <3>2
  <2> HIDE DEF older, new, noted
  <2>4. \A o \in older : o.age \in Nat /\ o.age > 0
    BY <2>2 DEF Orderly
  <2>5. noted \subseteq [age : Nat, nth : 1 .. limit - 1, first : Nat, time : Nat]
    BY <2>1, <2>2, <1>new, <1>2
  <2>6. \A f \in noted : f.time <= clock /\ clock <= f.time + window
    <3>1. \A o \in older : o.time <= clock /\ clock <= o.time + window
      BY <2>2 DEF Orderly
    <3>2. new.time <= clock /\ clock <= new.time + window
      BY <1>new
    <3> QED
      BY <2>1, <3>1, <3>2
  <2>7. \A f, g \in noted : f.age = g.age /\ f.nth = g.nth => f = g
    <3>1. \A f, g \in older : f.age = g.age /\ f.nth = g.nth => f = g
      <4> SUFFICES ASSUME NEW f \in older, NEW g \in older, f.age = g.age, f.nth = g.nth PROVE f = g
        OBVIOUS
      <4>1. PICK e \in failures :
              /\ f.age = e.age + 1 /\ f.nth = e.nth
              /\ f = [age |-> e.age + 1, nth |-> e.nth, first |-> e.first, time |-> e.time]
        BY <2>2
      <4>2. PICK d \in failures :
              /\ g.age = d.age + 1 /\ g.nth = d.nth
              /\ g = [age |-> d.age + 1, nth |-> d.nth, first |-> d.first, time |-> d.time]
        BY <2>2
      <4>3. e.age \in Nat /\ d.age \in Nat
        BY DEF Orderly
      <4>4. e.age = d.age /\ e.nth = d.nth
        <5>1. e.age + 1 = d.age + 1 /\ e.nth = d.nth
          BY <4>1, <4>2
        <5> QED
          BY <4>3, <5>1
      <4>5. e = d
        BY <4>4 DEF Orderly
      <4> QED
        BY <4>1, <4>2, <4>5
    <3> QED
      BY <3>1, <2>1, <2>4, <1>new
  <2>8. ASSUME NEW f \in noted, NEW g \in noted, f.age > g.age PROVE InOrder(f, g, window)
    <3>1. f \in older
      BY <2>8, <2>1, <2>4, <1>new, <2>5
    <3>2. PICK e \in failures : f.age = e.age + 1 /\ f.nth = e.nth /\ f.first = e.first /\ f.time = e.time
      BY <2>2, <3>1
    <3>e. e.age \in Nat /\ e.time \in Nat /\ e.first \in Nat /\ e.time <= clock
      BY DEF Orderly
    <3>3. CASE g \in older
      <4>1. PICK d \in failures : g.age = d.age + 1 /\ g.nth = d.nth /\ g.first = d.first /\ g.time = d.time
        BY <2>2, <3>3
      <4>2. d.age \in Nat /\ e.age > d.age
        BY <4>1, <3>2, <3>e, <2>8 DEF Orderly
      <4>3. InOrder(e, d, window)
        BY <4>2 DEF Orderly
      <4> QED
        BY <4>3, <3>2, <4>1 DEF InOrder
    <3>4. CASE g = new
      <4>1. /\ clock <= after.first + CheckTime /\ OverBy(failures, window, clock)
        BY <1>2, <3>2
      <4>2. e.first + window < clock
        BY <4>1, <3>e, <1>past DEF OverBy
      <4> QED
        BY <4>1, <4>2, <3>2, <3>e, <3>4, <1>new DEF InOrder
    <3> QED
      BY <3>3, <3>4, <2>1
  <2>9. ASSUME NEW f \in noted, NEW a \in Nat, a < f.age PROVE \E g \in noted : g.age = a /\ g.nth = 1
    <3>1. CASE a = 0
      BY <3>1, <2>1, <1>new, <1>2
    <3>2. CASE a > 0
      <4>1. f \in older
        BY <2>9, <2>1, <1>new
      <4>2. PICK e \in failures : f.age = e.age + 1
        BY <2>2, <4>1
      <4>3. e.age \in Nat /\ a - 1 \in Nat /\ a - 1 < e.age
        BY <4>2, <3>2, <2>9 DEF Orderly
      <4>4. PICK d \in failures : d.age = a - 1 /\ d.nth = 1
        BY <4>3 DEF Orderly
      <4>5. PICK o \in older : o.age = d.age + 1 /\ o.nth = d.nth
        BY <2>3
      <4> QED
        BY <4>4, <4>5, <2>1
    <3> QED
      BY <3>1, <3>2
  <2>10. Orderly(noted, limit, window, clock)
    BY <2>5, <2>6, <2>7, <2>8, <2>9 DEF Orderly
  <2>11. CountedBy(noted, after)
    BY <2>1, <2>4, <1>new, <1>2 DEF CountedBy
  <2> QED
    BY <2>10, <2>11 DEF noted
<1>3. CASE after.fails > 1
  <2>1. noted = {new} \cup failures
    BY <1>3 DEF Noted
  <2> HIDE DEF new, noted
  <2>2. \A f \in failures : f.age = 0 => f.first = after.first /\ f.nth < after.fails
    BY <1>3
  <2>3. noted \subseteq [age : Nat, nth : 1 .. limit - 1, first : Nat, time : Nat]
    BY <2>1, <1>new, <1>3 DEF Orderly
  <2>4. \A f \in noted : f.time <= clock /\ clock <= f.time + window
    <3>1. new.time <= clock /\ clock <= new.time + window
      BY <1>new
    <3> QED
      BY <2>1, <3>1 DEF Orderly
  <2>5. \A f, g \in noted : f.age = g.age /\ f.nth = g.nth => f = g
    <3>1. \A f \in failures : ~(f.age = new.age /\ f.nth = new.nth)
      BY <2>2, <1>new DEF Orderly
    <3> QED
      BY <3>1, <2>1 DEF Orderly
  <2>6. ASSUME NEW f \in noted, NEW g \in noted, f.age > g.age PROVE InOrder(f, g, window)
    <3>1. f \in failures /\ f.age \in Nat /\ g.age \in Nat
      BY <2>6, <2>1, <1>new, <2>3
    <3>2. CASE g \in failures
      BY <2>6, <3>1, <3>2 DEF Orderly
    <3>3. CASE g = new
      <4>1. f.first + window < clock /\ f.time <= clock
        BY <3>1, <3>3, <2>6, <1>new, <1>past DEF Orderly
      <4> QED
        BY <4>1, <3>3, <1>new, <1>3 DEF InOrder
    <3> QED
      BY <3>2, <3>3, <2>1
  <2>7. ASSUME NEW f \in noted, NEW a \in Nat, a < f.age PROVE \E g \in noted : g.age = a /\ g.nth = 1
    <3>1. f \in failures
      BY <2>7, <2>1, <1>new
    <3> QED
      BY <3>1, <2>7, <2>1 DEF Orderly
  <2>8. Orderly(noted, limit, window, clock)
    BY <2>3, <2>4, <2>5, <2>6, <2>7 DEF Orderly
  <2>9. CountedBy(noted, after)
    <3>1. \A f \in failures : f.age = 0 => f.first = after.first /\ f.nth <= after.fails
      BY <2>2, <1>3 DEF Orderly
    <3> QED
      BY <3>1, <2>1, <1>new, <1>3 DEF CountedBy
  <2> QED
    BY <2>8, <2>9 DEF noted
<1> QED
  BY <1>1, <1>2, <1>3

-----------------------------------------------------------------------------
(* No lock is longer than throttle_max_lock.                               *)
LEMMA LocksAreShort ==
  ASSUME NEW streak \in Nat
  PROVE  Lock(streak + 1) \in 0 .. MaxLock
<1> DEFINE power == IF streak + 1 > 7 THEN 6 ELSE streak + 1 - 1
<1>1. power \in 0 .. 6
  OBVIOUS
<1>2. 2 ^ power \in Nat
  <2>1. /\ 2 ^ 0 \in Nat /\ 2 ^ 1 \in Nat /\ 2 ^ 2 \in Nat /\ 2 ^ 3 \in Nat
        /\ 2 ^ 4 \in Nat /\ 2 ^ 5 \in Nat /\ 2 ^ 6 \in Nat
    OBVIOUS
  <2>2. power \in {0, 1, 2, 3, 4, 5, 6}
    BY <1>1
  <2> HIDE DEF power
  <2> QED
    BY <2>1, <2>2
<1> HIDE DEF power
<1>3. LockFor \in Nat /\ MaxLock \in Nat
  BY ThrottleAssumption
<1>4. LockFor * 2 ^ power \in Nat
  BY <1>2, <1>3
<1>5. Lock(streak + 1) = IF LockFor * 2 ^ power > MaxLock THEN MaxLock ELSE LockFor * 2 ^ power
  BY DEF Lock, power
<1> QED
  BY <1>3, <1>4, <1>5

(* A failure is counted, or it locks.                                      *)
LEMMA CountingAFailure ==
  ASSUME NEW record \in Record, NEW at \in Nat, clock \in Nat, at <= clock,
         record.until <= clock + MaxLock
  PROVE  LET after == Counted(record, at) IN
         /\ after \in Record
         /\ after.until <= clock + MaxLock
         /\ \/ after.fails = 0
            \/ after.fails = 1 /\ after.first = at /\ Lapsed(record, at)
            \/ ~Lapsed(record, at) /\ after.first = record.first /\ after.fails = record.fails + 1
<1> DEFINE after == Counted(record, at)
           fails == IF Lapsed(record, at) THEN 1 ELSE record.fails + 1
           first == IF Lapsed(record, at) THEN at ELSE record.first
<1> USE ThrottleAssumption
<1>1. /\ fails \in Nat \ {0} /\ first \in Nat /\ record.streak \in Nat /\ record.until \in Nat
      /\ record = [fails |-> record.fails, first |-> record.first, streak |-> record.streak, until |-> record.until]
  BY DEF Record
<1>2. CASE fails < MaxFails
  <2>1. after = [fails |-> fails, first |-> first, streak |-> record.streak, until |-> record.until]
    BY <1>2, <1>1 DEF Counted, Record
  <2>2. fails \in 0 .. MaxFails - 1
    BY <1>1, <1>2
  <2>3. after \in Record
    BY <1>1, <2>1, <2>2 DEF Record
  <2> QED
    BY <2>1, <2>3
<1>3. CASE ~(fails < MaxFails)
  <2>1. after = [fails |-> 0, first |-> at, streak |-> record.streak + 1,
                 until |-> at + Lock(record.streak + 1)]
    BY <1>3 DEF Counted
  <2>2. Lock(record.streak + 1) \in 0 .. MaxLock
    BY <1>1, LocksAreShort
  <2>3. at + Lock(record.streak + 1) \in Nat /\ at + Lock(record.streak + 1) <= clock + MaxLock
    BY <2>2
  <2>4. after \in Record
    BY <1>1, <2>1, <2>3 DEF Record
  <2> QED
    BY <2>1, <2>3, <2>4
<1> QED
  BY <1>2, <1>3

Gate == [fails : 0 .. GlobalFails - 1, first : Nat, until : Nat]

LEMMA CountingForTheGate ==
  ASSUME NEW g \in Gate, NEW at \in Nat, clock \in Nat, at <= clock,
         g.until <= clock + GlobalLock
  PROVE  LET after == CountGlobal(g, at) IN
         /\ after \in Gate
         /\ after.until <= clock + GlobalLock
         /\ \/ after.fails = 0
            \/ after.fails = 1 /\ after.first = at /\ at > g.first + GlobalWindow
            \/ after.first = g.first /\ after.fails = g.fails + 1
<1> DEFINE after == CountGlobal(g, at)
           lapsed == at > g.first + GlobalWindow
           fails == IF lapsed THEN 1 ELSE g.fails + 1
           first == IF lapsed THEN at ELSE g.first
<1> USE ThrottleAssumption
<1>1. /\ fails \in Nat \ {0} /\ first \in Nat /\ g.until \in Nat
      /\ g = [fails |-> g.fails, first |-> g.first, until |-> g.until]
  BY DEF Gate
<1>2. CASE fails < GlobalFails
  <2>1. after = [fails |-> fails, first |-> first, until |-> g.until]
    BY <1>2, <1>1 DEF CountGlobal, Gate
  <2>2. fails \in 0 .. GlobalFails - 1
    BY <1>1, <1>2
  <2>3. after \in Gate
    BY <1>1, <2>1, <2>2 DEF Gate
  <2> QED
    BY <2>1, <2>3
<1>3. CASE ~(fails < GlobalFails)
  <2>1. after = [fails |-> 0, first |-> at, until |-> at + GlobalLock]
    BY <1>3 DEF CountGlobal
  <2>2. at + GlobalLock \in Nat /\ at + GlobalLock <= clock + GlobalLock
    OBVIOUS
  <2>3. after \in Gate
    BY <2>1, <2>2 DEF Gate
  <2> QED
    BY <2>1, <2>2, <2>3
<1> QED
  BY <1>2, <1>3

(* evict_oldest leaves room for one source more, and what it keeps as it   *)
(* was.                                                                    *)
LEMMA KnownAfterForget ==
  ASSUME NEW t, NEW sources
  PROVE  /\ Known(Forget(t, sources)) = Known(t) \ sources
         /\ \A s \in Known(t) \ sources : Forget(t, sources)[s] = t[s]
  BY DEF Known, Forget, Restrict

LEMMA RoomForASource ==
  ASSUME NEW t, NEW at, IsFiniteSet(Known(t)), Cardinality(Known(t)) <= MaxSources,
         NEW rest \in MakeRoom(t, at), NEW s
  PROVE  /\ Known(rest) \subseteq Known(t)
         /\ \A x \in Known(rest) : rest[x] = t[x]
         /\ Cardinality(Known(rest) \cup {s}) <= MaxSources
<1> DEFINE live == Forget(t, {x \in Known(t) : Expired(t[x], at)})
<1> USE ThrottleAssumption
<1>card. Cardinality(Known(t)) \in Nat
  BY FS_CardinalityType
<1>0. ASSUME IsFiniteSet(Known(rest)), Cardinality(Known(rest)) < MaxSources
      PROVE  Cardinality(Known(rest) \cup {s}) <= MaxSources
  <2>1. Cardinality(Known(rest)) \in Nat
    BY <1>0, FS_CardinalityType
  <2>2. \/ Cardinality(Known(rest) \cup {s}) = Cardinality(Known(rest))
        \/ Cardinality(Known(rest) \cup {s}) = Cardinality(Known(rest)) + 1
    BY <1>0, FS_AddElement
  <2> QED
    BY <1>0, <2>1, <2>2
<1>1. CASE ~(Cardinality(Known(t)) >= MaxSources)
  <2>1. rest = t
    BY <1>1 DEF MakeRoom
  <2>2. Cardinality(Known(t)) < MaxSources
    BY <1>1, <1>card
  <2> QED
    BY <2>1, <2>2, <1>0
<1>2. CASE Cardinality(Known(t)) >= MaxSources
  <2>1. rest \in EvictOldest(t, at)
    BY <1>2 DEF MakeRoom
  <2>2. Known(live) \subseteq Known(t) /\ \A x \in Known(live) : live[x] = t[x]
    BY KnownAfterForget
  <2>3. IsFiniteSet(Known(live)) /\ Cardinality(Known(live)) <= Cardinality(Known(t))
    BY <2>2, FS_Subset
  <2>4. Cardinality(Known(live)) \in Nat
    BY <2>3, FS_CardinalityType
  <2>5. CASE Cardinality(Known(live)) < MaxSources
    <3>1. rest = live
      BY <2>1, <2>5 DEF EvictOldest
    <3> HIDE DEF live
    <3> QED
      BY <3>1, <2>2, <2>3, <2>5, <1>0
  <2>6. CASE ~(Cardinality(Known(live)) < MaxSources)
    <3>1. PICK x \in Known(live) : rest = Forget(live, {x})
      BY <2>1, <2>6 DEF EvictOldest
    <3> HIDE DEF live
    <3>2. Known(rest) = Known(live) \ {x} /\ \A y \in Known(rest) : rest[y] = live[y]
      BY <3>1, KnownAfterForget
    <3>3. IsFiniteSet(Known(rest)) /\ Cardinality(Known(rest)) = Cardinality(Known(live)) - 1
      <4>1. /\ IsFiniteSet(Known(live) \ {x})
            /\ Cardinality(Known(live) \ {x}) = Cardinality(Known(live)) - 1
        BY <3>1, <2>3, FS_RemoveElement
      <4> QED
        BY <4>1, <3>2
    <3>4. Cardinality(Known(rest)) < MaxSources
      BY <3>3, <2>3, <2>4, <1>card
    <3> QED
      BY <3>2, <3>3, <3>4, <2>2, <1>0
  <2> QED
    BY <2>5, <2>6
<1> QED
  BY <1>1, <1>2

-----------------------------------------------------------------------------
LEMMA ThrottleStarts == ThrottleInit => ThrottleInv
<1> SUFFICES ASSUME ThrottleInit PROVE ThrottleInv
  OBVIOUS
<1> USE ThrottleAssumption
<1>1. Known(by_ip) = {} /\ Cardinality(Known(by_ip)) = 0
  BY FS_EmptySet DEF ThrottleInit, Known
<1>2. ThrottleTypeOK
  BY <1>1 DEF ThrottleInit, ThrottleTypeOK, Start
<1>3. LimitsHold
  BY <1>1, <1>2 DEF ThrottleInit, LimitsHold, Start
<1>4. AttemptInv
  BY DEF ThrottleInit, AttemptInv
<1>5. \A s \in Sources : SourceInv(s)
  BY <1>1 DEF ThrottleInit, SourceInv, Orderly, OverBy
<1>6. GateInv
  BY DEF ThrottleInit, GateInv, Orderly, CountedBy
<1> QED
  BY <1>3, <1>4, <1>5, <1>6 DEF ThrottleInv

(* Orderly failures are failures, whatever the limit.                      *)
LEMMA OrderlyFailures ==
  ASSUME NEW failures, NEW limit \in Nat, NEW window, NEW time, Orderly(failures, limit, window, time)
  PROVE  failures \subseteq Failure
  BY DEF Orderly, Failure

(* A handler that checks a password began not long ago.                    *)
LEMMA Checking ==
  ASSUME ThrottleInv, NEW h \in Checkers, attempt[h].pc = "check"
  PROVE  /\ attempt[h].source \in Sources /\ attempt[h].at \in Nat
         /\ attempt[h].at <= clock /\ clock <= attempt[h].at + CheckTime
         /\ clock \in Nat
<1>1. attempt[h] \in {NoAttempt} \cup [pc : {"check"}, source : Sources, at : Nat]
  BY DEF ThrottleInv, LimitsHold, ThrottleTypeOK
<1>2. attempt[h] # NoAttempt
  BY DEF NoAttempt
<1>3. clock \in Nat
  BY ThrottleAssumption DEF ThrottleInv, LimitsHold, ThrottleTypeOK, Start
<1> QED
  BY <1>1, <1>2, <1>3 DEF ThrottleInv, AttemptInv

LEMMA TicksAreSafe == ThrottleInv /\ ClockTicks => ThrottleInv'
<1> SUFFICES ASSUME ThrottleInv, ClockTicks PROVE ThrottleInv'
  OBVIOUS
<1> USE ThrottleAssumption
<1>types. /\ ThrottleTypeOK /\ clock \in Nat /\ clock' = clock + 1 /\ clock < Start + MaxTicks
          /\ UNCHANGED <<by_ip, global, attempt>> /\ Start \in Nat
  BY DEF ThrottleInv, LimitsHold, ThrottleTypeOK, ClockTicks, Start
<1>1. \A s \in Sources :
        /\ Orderly(recent'[s], MaxFails, Window, clock')
        /\ recent'[s] \subseteq recent[s]
  <2> SUFFICES ASSUME NEW s \in Sources
               PROVE  /\ Orderly(recent'[s], MaxFails, Window, clock')
                      /\ recent'[s] \subseteq recent[s]
    OBVIOUS
  <2>1. recent'[s] = Within(recent[s], Window, clock + 1)
    BY <1>types DEF ClockTicks
  <2>2. Orderly(recent[s], MaxFails, Window, clock)
    BY DEF ThrottleInv, SourceInv
  <2> QED
    BY <1>types, <2>1, <2>2, TimePassesOrderly
<1>2. Orderly(everyone', GlobalFails, GlobalWindow, clock') /\ everyone' \subseteq everyone
  <2>1. everyone' = Within(everyone, GlobalWindow, clock + 1)
    BY <1>types DEF ClockTicks
  <2>2. Orderly(everyone, GlobalFails, GlobalWindow, clock)
    BY DEF ThrottleInv, GateInv
  <2> QED
    BY <1>types, <2>1, <2>2, TimePassesOrderly
<1>3. \A s \in Sources : SourceInv(s)'
  <2> SUFFICES ASSUME NEW s \in Sources PROVE SourceInv(s)'
    OBVIOUS
  <2>0. SourceInv(s) /\ Known(by_ip)' = Known(by_ip)
    BY <1>types DEF ThrottleInv
  <2>1. CASE s \in Known(by_ip)
    <3>1. CountedBy(recent'[s], by_ip'[s])
      BY <2>0, <2>1, <1>1, <1>types DEF SourceInv, CountedBy
    <3> QED
      BY <3>1, <2>0, <2>1, <1>1 DEF SourceInv
  <2>2. CASE s \notin Known(by_ip)
    <3>1. \A f \in recent[s] : f.first \in Nat /\ (f.age = 0 => f.first + Window < clock)
      BY <2>0, <2>2 DEF SourceInv, OverBy, Orderly
    <3>2. OverBy(recent'[s], Window, clock')
      BY <3>1, <1>1, <1>types DEF OverBy
    <3> QED
      BY <3>2, <2>0, <2>2, <1>1 DEF SourceInv
  <2> QED
    BY <2>1, <2>2
<1>4. GateInv'
  <2>1. CountedBy(everyone', global')
    BY <1>2, <1>types DEF ThrottleInv, GateInv, CountedBy
  <2> QED
    BY <2>1, <1>2 DEF GateInv
<1>5. AttemptInv'
  <2> SUFFICES ASSUME NEW h \in Checkers, attempt[h] # NoAttempt
               PROVE  attempt[h].at <= clock' /\ clock' <= attempt[h].at + CheckTime
    BY <1>types DEF AttemptInv
  <2>1. attempt[h] \in [pc : {"check"}, source : Sources, at : Nat]
    BY <1>types DEF ThrottleTypeOK
  <2>2. clock < attempt[h].at + CheckTime /\ attempt[h].at <= clock
    BY <2>1 DEF ClockTicks, ThrottleInv, AttemptInv
  <2> QED
    BY <2>1, <2>2, <1>types
<1>6. ThrottleTypeOK'
  <2>1. clock' \in Start .. Start + MaxTicks
    BY <1>types DEF ThrottleTypeOK
  <2>2. recent' \in [Sources -> SUBSET Failure]
    <3>1. \A s \in Sources : recent'[s] \subseteq Failure
      BY <1>1, <1>types DEF ThrottleTypeOK
    <3>2. recent' = [s \in Sources |-> recent'[s]]
      BY DEF ClockTicks
    <3> QED
      BY <3>1, <3>2
  <2>3. everyone' \in SUBSET Failure
    BY <1>2, <1>types DEF ThrottleTypeOK
  <2> QED
    BY <2>1, <2>2, <2>3, <1>types DEF ThrottleTypeOK
<1>7. LimitsHold'
  <2>1. \A s \in Known(by_ip) : by_ip[s].until \in Nat
    BY <1>types DEF ThrottleTypeOK, Record
  <2>2. global.until \in Nat
    BY <1>types DEF ThrottleTypeOK
  <2>3. /\ \A s \in Known(by_ip) : by_ip[s].until <= clock + MaxLock
        /\ global.until <= clock + GlobalLock /\ Cardinality(Known(by_ip)) <= MaxSources
    BY DEF ThrottleInv, LimitsHold
  <2>4. /\ \A s \in Known(by_ip) : by_ip[s].until <= clock + 1 + MaxLock
        /\ global.until <= clock + 1 + GlobalLock
    BY <2>1, <2>2, <2>3, <1>types
  <2> QED
    BY <2>3, <2>4, <1>6, <1>types DEF LimitsHold
<1> QED
  BY <1>3, <1>4, <1>5, <1>7 DEF ThrottleInv

LEMMA AllowingIsSafe ==
  ASSUME ThrottleInv, NEW h \in Checkers, NEW s \in Sources, Allow(h, s)
  PROVE  ThrottleInv'
<1> USE ThrottleAssumption
<1>types. /\ ThrottleTypeOK /\ clock \in Nat
          /\ UNCHANGED <<clock, global, recent, everyone>>
          /\ IsFiniteSet(Known(by_ip)) /\ Cardinality(Known(by_ip)) \in Nat
  <2>1. ThrottleTypeOK /\ clock \in Nat
    BY DEF ThrottleInv, LimitsHold, ThrottleTypeOK, Start
  <2>2. IsFiniteSet(Known(by_ip))
    BY <2>1, FS_Subset DEF ThrottleTypeOK
  <2> QED
    BY <2>1, <2>2, FS_CardinalityType DEF Allow
<1>1. /\ Known(by_ip') \subseteq Known(by_ip)
      /\ \A x \in Known(by_ip') : by_ip'[x] = by_ip[x]
      /\ \A x \in Known(by_ip) \ Known(by_ip') : Lapsed(by_ip[x], clock)
  BY KnownAfterForget DEF Allow
<1>2. attempt' = [attempt EXCEPT ![h] = [pc |-> "check", source |-> s, at |-> clock]]
  BY DEF Allow
<1>3. ThrottleTypeOK'
  BY <1>types, <1>1, <1>2 DEF ThrottleTypeOK
<1>4. LimitsHold'
  <2>1. Cardinality(Known(by_ip')) <= Cardinality(Known(by_ip)) /\ Cardinality(Known(by_ip')) \in Nat
    <3>1. IsFiniteSet(Known(by_ip')) /\ Cardinality(Known(by_ip')) <= Cardinality(Known(by_ip))
      BY <1>types, <1>1, FS_Subset
    <3> QED
      BY <3>1, FS_CardinalityType
  <2>2. Cardinality(Known(by_ip')) <= MaxSources
    BY <2>1, <1>types DEF ThrottleInv, LimitsHold
  <2> QED
    BY <2>2, <1>3, <1>1, <1>types DEF ThrottleInv, LimitsHold
<1>5. AttemptInv'
  <2>1. attempt'[h].at = clock /\ clock <= clock + CheckTime
    BY <1>types, <1>2 DEF ThrottleTypeOK
  <2>2. \A g \in Checkers \ {h} : attempt'[g] = attempt[g]
    BY <1>types, <1>2 DEF ThrottleTypeOK
  <2> QED
    BY <2>1, <2>2, <1>types DEF ThrottleInv, AttemptInv
<1>6. \A x \in Sources : SourceInv(x)'
  <2> SUFFICES ASSUME NEW x \in Sources PROVE SourceInv(x)'
    OBVIOUS
  <2>0. SourceInv(x) /\ recent'[x] = recent[x] /\ clock' = clock
    BY <1>types DEF ThrottleInv
  <2>1. CASE x \in Known(by_ip) /\ x \notin Known(by_ip')
    <3>1. Lapsed(by_ip[x], clock) /\ CountedBy(recent[x], by_ip[x]) /\ by_ip[x].first \in Nat
      BY <2>0, <2>1, <1>1, <1>types DEF SourceInv, ThrottleTypeOK, Record
    <3>2. OverBy(recent[x], Window, clock)
      BY <3>1, <1>types DEF CountedBy, OverBy, Lapsed
    <3> QED
      BY <3>2, <2>0, <2>1 DEF SourceInv
  <2>2. CASE x \in Known(by_ip')
    BY <2>0, <2>2, <1>1 DEF SourceInv
  <2>3. CASE x \notin Known(by_ip)
    BY <2>0, <2>3, <1>1 DEF SourceInv
  <2> QED
    BY <2>1, <2>2, <2>3
<1>7. GateInv'
  BY <1>types DEF ThrottleInv, GateInv
<1> QED
  BY <1>4, <1>5, <1>6, <1>7 DEF ThrottleInv

(* The record of a source after a failure, in a table that was made room   *)
(* in or not, is in step with what is remembered of it.                    *)
LEMMA FailuresOfTheSource ==
  ASSUME ThrottleInv, NEW s \in Sources, NEW at \in Nat, at <= clock, clock <= at + CheckTime,
         NEW table, Known(table) \subseteq Known(by_ip),
         \A x \in Known(table) : table[x] = by_ip[x]
  PROVE  LET fresh == [fails |-> 0, first |-> at, streak |-> 0, until |-> 0]
             after == Counted(IF s \in Known(table) THEN table[s] ELSE fresh, at)
             kept  == IF s \in Known(by_ip) \ Known(table) THEN {} ELSE recent[s]
         IN  /\ after \in Record /\ after.until <= clock + MaxLock
             /\ Orderly(Noted(kept, after), MaxFails, Window, clock)
             /\ CountedBy(Noted(kept, after), after)
<1> DEFINE fresh == [fails |-> 0, first |-> at, streak |-> 0, until |-> 0]
           before == IF s \in Known(table) THEN table[s] ELSE fresh
           after == Counted(before, at)
           kept  == IF s \in Known(by_ip) \ Known(table) THEN {} ELSE recent[s]
<1> USE ThrottleAssumption
<1>types. ThrottleTypeOK /\ clock \in Nat
  BY DEF ThrottleInv, LimitsHold, ThrottleTypeOK, Start
<1>1. fresh \in Record /\ fresh.until <= clock + MaxLock /\ fresh.fails = 0 /\ fresh.first = at
  BY <1>types DEF Record
<1>2. before \in Record /\ before.until <= clock + MaxLock
  <2>1. CASE s \in Known(table)
    BY <2>1, <1>types DEF ThrottleTypeOK, ThrottleInv, LimitsHold
  <2>2. CASE s \notin Known(table)
    BY <2>2, <1>1
  <2> QED
    BY <2>1, <2>2
<1>3. /\ s \in Known(table) => CountedBy(kept, before)
      /\ s \notin Known(table) => before = fresh /\ OverBy(kept, Window, clock)
      /\ Orderly(kept, MaxFails, Window, clock)
  <2>1. SourceInv(s)
    BY DEF ThrottleInv
  <2>2. Orderly({}, MaxFails, Window, clock) /\ OverBy({}, Window, clock)
    BY DEF Orderly, OverBy
  <2>3. CASE s \in Known(table)
    BY <2>1, <2>3 DEF SourceInv
  <2>4. CASE s \notin Known(table)
    BY <2>1, <2>2, <2>4 DEF SourceInv
  <2> QED
    BY <2>3, <2>4
<1> HIDE DEF fresh, before, kept
<1>4. /\ after \in Record
      /\ after.until <= clock + MaxLock
      /\ \/ after.fails = 0
         \/ after.fails = 1 /\ after.first = at /\ Lapsed(before, at)
         \/ ~Lapsed(before, at) /\ after.first = before.first /\ after.fails = before.fails + 1
  BY <1>2, <1>types, CountingAFailure
<1> HIDE DEF after
<1>5. /\ after.fails \in 0 .. MaxFails - 1 /\ after.first \in Nat
      /\ before.fails \in Nat /\ before.first \in Nat
  BY <1>2, <1>4 DEF Record
<1>6. \/ after.fails = 0
      \/ /\ after.fails = 1
         /\ \/ kept = {}
            \/ clock <= after.first + CheckTime /\ OverBy(kept, Window, clock)
      \/ /\ after.fails > 1
         /\ \A f \in kept : f.age = 0 => f.first = after.first /\ f.nth < after.fails
  <2>1. CASE s \notin Known(table)
    <3>1. ~Lapsed(fresh, at)
      BY <1>1 DEF Lapsed
    <3>2. after.fails = 0 \/ (after.fails = 1 /\ after.first = at)
      BY <3>1, <2>1, <1>1, <1>3, <1>4
    <3> QED
      BY <3>2, <2>1, <1>3
  <2>2. CASE s \in Known(table)
    <3>1. CASE after.fails = 1 /\ after.first = at /\ Lapsed(before, at)
      <4>1. \A f \in kept : f.age = 0 => f.first = before.first
        BY <2>2, <1>3 DEF CountedBy
      <4>2. before.first + Window < clock
        BY <3>1, <1>5, <1>types DEF Lapsed
      <4>3. OverBy(kept, Window, clock)
        BY <4>1, <4>2 DEF OverBy
      <4> QED
        BY <3>1, <4>3
    <3>2. CASE after.first = before.first /\ after.fails = before.fails + 1
      <4>1. CASE before.fails = 0
        BY <4>1, <3>2, <2>2, <1>3 DEF CountedBy
      <4>2. CASE before.fails > 0
        <5>1. after.fails > 1
          BY <4>2, <3>2, <1>5
        <5>2. \A f \in kept : f.nth \in Nat
          BY <1>3 DEF Orderly
        <5>3. \A f \in kept : f.age = 0 => f.first = after.first /\ f.nth < after.fails
          BY <5>2, <3>2, <2>2, <1>3, <1>5 DEF CountedBy
        <5> QED
          BY <5>1, <5>3
      <4> QED
        BY <4>1, <4>2, <1>5
    <3> QED
      BY <3>1, <3>2, <1>4
  <2> QED
    BY <2>1, <2>2
<1>7. Orderly(Noted(kept, after), MaxFails, Window, clock) /\ CountedBy(Noted(kept, after), after)
  BY <1>3, <1>5, <1>6, <1>types, OneMoreFailure
<1> QED
  BY <1>4, <1>7 DEF after, before, kept, fresh

LEMMA FailuresOfAll ==
  ASSUME ThrottleInv, NEW at \in Nat, at <= clock, clock <= at + CheckTime
  PROVE  LET after == CountGlobal(global, at) IN
         /\ after \in Gate /\ after.until <= clock + GlobalLock
         /\ Orderly(Noted(everyone, after), GlobalFails, GlobalWindow, clock)
         /\ CountedBy(Noted(everyone, after), after)
<1> DEFINE after == CountGlobal(global, at)
<1> USE ThrottleAssumption
<1>types. /\ clock \in Nat /\ global \in Gate /\ global.until <= clock + GlobalLock
          /\ Orderly(everyone, GlobalFails, GlobalWindow, clock) /\ CountedBy(everyone, global)
  BY DEF ThrottleInv, LimitsHold, ThrottleTypeOK, Start, Gate, GateInv
<1>1. /\ after \in Gate
      /\ after.until <= clock + GlobalLock
      /\ \/ after.fails = 0
         \/ after.fails = 1 /\ after.first = at /\ at > global.first + GlobalWindow
         \/ after.first = global.first /\ after.fails = global.fails + 1
  BY <1>types, CountingForTheGate
<1> HIDE DEF after
<1>2. /\ after.fails \in 0 .. GlobalFails - 1 /\ after.first \in Nat
      /\ global.fails \in Nat /\ global.first \in Nat
  BY <1>types, <1>1 DEF Gate
<1>3. \/ after.fails = 0
      \/ /\ after.fails = 1
         /\ \/ everyone = {}
            \/ clock <= after.first + CheckTime /\ OverBy(everyone, GlobalWindow, clock)
      \/ /\ after.fails > 1
         /\ \A f \in everyone : f.age = 0 => f.first = after.first /\ f.nth < after.fails
  <2>1. CASE after.fails = 1 /\ after.first = at /\ at > global.first + GlobalWindow
    <3>1. \A f \in everyone : f.age = 0 => f.first = global.first
      BY <1>types DEF CountedBy
    <3>2. global.first + GlobalWindow < clock
      BY <2>1, <1>2, <1>types
    <3>3. OverBy(everyone, GlobalWindow, clock)
      BY <3>1, <3>2 DEF OverBy
    <3> QED
      BY <2>1, <3>3
  <2>2. CASE after.first = global.first /\ after.fails = global.fails + 1
    <3>1. CASE global.fails = 0
      BY <3>1, <2>2, <1>types DEF CountedBy
    <3>2. CASE global.fails > 0
      <4>1. after.fails > 1
        BY <3>2, <2>2, <1>2
      <4>2. \A f \in everyone : f.nth \in Nat
        BY <1>types DEF Orderly
      <4>3. \A f \in everyone : f.age = 0 => f.first = after.first /\ f.nth < after.fails
        BY <4>2, <2>2, <1>types, <1>2 DEF CountedBy
      <4> QED
        BY <4>1, <4>3
    <3> QED
      BY <3>1, <3>2, <1>2
  <2> QED
    BY <2>1, <2>2, <1>1
<1>4. /\ Orderly(Noted(everyone, after), GlobalFails, GlobalWindow, clock)
      /\ CountedBy(Noted(everyone, after), after)
  BY <1>2, <1>3, <1>types, OneMoreFailure
<1> QED
  BY <1>1, <1>4 DEF after

LEMMA FailingIsSafe ==
  ASSUME ThrottleInv, NEW h \in Checkers, Fail(h)
  PROVE  ThrottleInv'
<1> USE ThrottleAssumption
<1> DEFINE s  == attempt[h].source
           at == attempt[h].at
           fresh == [fails |-> 0, first |-> at, streak |-> 0, until |-> 0]
<1>types. ThrottleTypeOK /\ clock \in Nat /\ clock' = clock
  BY DEF ThrottleInv, LimitsHold, ThrottleTypeOK, Start, Fail
<1>0. /\ s \in Sources /\ at \in Nat /\ at <= clock /\ clock <= at + CheckTime
      /\ attempt' = [attempt EXCEPT ![h] = NoAttempt]
  BY Checking DEF Fail
<1>finite. IsFiniteSet(Known(by_ip)) /\ Cardinality(Known(by_ip)) <= MaxSources
  BY <1>types, FS_Subset DEF ThrottleTypeOK, ThrottleInv, LimitsHold
<1>1. PICK table \in MakeRoom(by_ip, at) :
        LET after == Counted(IF s \in Known(table) THEN table[s] ELSE fresh, at)
        IN  /\ by_ip' = [x \in Known(table) \cup {s} |-> IF x = s THEN after ELSE table[x]]
            /\ recent' = [x \in Sources |->
                 LET kept == IF x \in Known(by_ip) \ Known(table) THEN {} ELSE recent[x]
                 IN  IF x = s THEN Noted(kept, after) ELSE kept]
  BY DEF Fail
<1>2. /\ Known(table) \subseteq Known(by_ip)
      /\ \A x \in Known(table) : table[x] = by_ip[x]
      /\ Cardinality(Known(table) \cup {s}) <= MaxSources
  BY <1>1, <1>finite, RoomForASource
<1> DEFINE after == Counted(IF s \in Known(table) THEN table[s] ELSE fresh, at)
           kept(x) == IF x \in Known(by_ip) \ Known(table) THEN {} ELSE recent[x]
<1>3. /\ after \in Record /\ after.until <= clock + MaxLock
      /\ Orderly(Noted(kept(s), after), MaxFails, Window, clock)
      /\ CountedBy(Noted(kept(s), after), after)
  BY <1>0, <1>2, FailuresOfTheSource
<1>4. /\ global' = CountGlobal(global, at) /\ everyone' = Noted(everyone, global')
      /\ global' \in Gate /\ global'.until <= clock + GlobalLock
      /\ Orderly(everyone', GlobalFails, GlobalWindow, clock)
      /\ CountedBy(everyone', global')
  <2>1. global' = CountGlobal(global, at) /\ everyone' = Noted(everyone, CountGlobal(global, at))
    BY DEF Fail
  <2> QED
    BY <2>1, <1>0, FailuresOfAll
<1>5. /\ Known(by_ip') = Known(table) \cup {s} /\ by_ip'[s] = after
      /\ \A x \in Known(table) \ {s} : by_ip'[x] = by_ip[x]
      /\ recent' = [x \in Sources |-> IF x = s THEN Noted(kept(s), after) ELSE kept(x)]
  <2>1. Known(by_ip') = Known(table) \cup {s} /\ by_ip'[s] = after
    BY <1>1 DEF Known
  <2>2. \A x \in Known(table) \ {s} : by_ip'[x] = by_ip[x]
    BY <1>1, <1>2 DEF Known
  <2>3. recent' = [x \in Sources |-> IF x = s THEN Noted(kept(s), after) ELSE kept(x)]
    BY <1>1
  <2> QED
    BY <2>1, <2>2, <2>3
<1> HIDE DEF after, s, at, fresh
<1>6. \A x \in Sources : SourceInv(x)'
  <2> SUFFICES ASSUME NEW x \in Sources PROVE SourceInv(x)'
    OBVIOUS
  <2>1. CASE x = s
    <3>1. recent'[x] = Noted(kept(s), after) /\ x \in Known(by_ip') /\ by_ip'[x] = after
      BY <2>1, <1>5
    <3> QED
      BY <3>1, <1>3, <1>types, <2>1 DEF SourceInv
  <2>2. CASE x # s
    <3>0. SourceInv(x) /\ recent'[x] = kept(x)
      BY <2>2, <1>5 DEF ThrottleInv
    <3>1. CASE x \in Known(table)
      <4>1. recent'[x] = recent[x] /\ x \in Known(by_ip) /\ x \in Known(by_ip') /\ by_ip'[x] = by_ip[x]
        BY <3>0, <3>1, <2>2, <1>2, <1>5
      <4> QED
        BY <4>1, <3>0, <1>types DEF SourceInv
    <3>2. CASE x \notin Known(table)
      <4>1. x \notin Known(by_ip')
        BY <3>2, <2>2, <1>5
      <4>2. Orderly(recent'[x], MaxFails, Window, clock) /\ OverBy(recent'[x], Window, clock)
        <5>1. CASE x \in Known(by_ip)
          <6>1. recent'[x] = {}
            BY <5>1, <3>0, <3>2
          <6> QED
            BY <6>1 DEF Orderly, OverBy
        <5>2. CASE x \notin Known(by_ip)
          BY <5>2, <3>0 DEF SourceInv
        <5> QED
          BY <5>1, <5>2
      <4> QED
        BY <4>1, <4>2, <1>types DEF SourceInv
    <3> QED
      BY <3>1, <3>2
  <2> QED
    BY <2>1, <2>2
<1>7. GateInv'
  BY <1>4, <1>types DEF GateInv
<1>8. AttemptInv'
  <2>1. attempt'[h] = NoAttempt /\ \A g \in Checkers \ {h} : attempt'[g] = attempt[g]
    BY <1>0, <1>types DEF ThrottleTypeOK
  <2> QED
    BY <2>1, <1>types DEF ThrottleInv, AttemptInv
<1>9. ThrottleTypeOK'
  <2>1. Known(by_ip') \subseteq Sources /\ \A x \in Known(by_ip') : by_ip'[x] \in Record
    BY <1>0, <1>2, <1>3, <1>5, <1>types DEF ThrottleTypeOK
  <2>2. recent' \in [Sources -> SUBSET Failure]
    <3>1. \A x \in Sources : recent'[x] \subseteq Failure
      BY <1>6, OrderlyFailures DEF SourceInv
    <3> QED
      BY <3>1, <1>5
  <2>3. everyone' \in SUBSET Failure
    BY <1>4, OrderlyFailures
  <2>4. attempt' \in [Checkers -> {NoAttempt} \cup [pc : {"check"}, source : Sources, at : Nat]]
    BY <1>0, <1>types DEF ThrottleTypeOK
  <2> QED
    BY <2>1, <2>2, <2>3, <2>4, <1>4, <1>types DEF ThrottleTypeOK, Gate
<1>10. LimitsHold'
  <2>1. \A x \in Known(by_ip') : by_ip'[x].until <= clock + MaxLock
    BY <1>2, <1>3, <1>5 DEF ThrottleInv, LimitsHold
  <2> QED
    BY <2>1, <1>2, <1>4, <1>5, <1>9, <1>types DEF LimitsHold
<1> QED
  BY <1>6, <1>7, <1>8, <1>10 DEF ThrottleInv

LEMMA SucceedingIsSafe ==
  ASSUME ThrottleInv, NEW h \in Checkers, Succeed(h)
  PROVE  ThrottleInv'
<1> USE ThrottleAssumption
<1>types. /\ ThrottleTypeOK /\ clock \in Nat
          /\ UNCHANGED <<clock, global, everyone>>
          /\ IsFiniteSet(Known(by_ip)) /\ Cardinality(Known(by_ip)) \in Nat
  <2>1. ThrottleTypeOK /\ clock \in Nat
    BY DEF ThrottleInv, LimitsHold, ThrottleTypeOK, Start
  <2>2. IsFiniteSet(Known(by_ip))
    BY <2>1, FS_Subset DEF ThrottleTypeOK
  <2> QED
    BY <2>1, <2>2, FS_CardinalityType DEF Succeed
<1>0. PICK s \in Sources : s = attempt[h].source
  BY Checking DEF Succeed
<1>1. /\ Known(by_ip') = Known(by_ip) \ {s}
      /\ \A x \in Known(by_ip') : by_ip'[x] = by_ip[x]
      /\ recent' = [recent EXCEPT ![s] = {}]
      /\ attempt' = [attempt EXCEPT ![h] = NoAttempt]
  BY <1>0, KnownAfterForget DEF Succeed
<1>2. ThrottleTypeOK'
  <2>1. recent' \in [Sources -> SUBSET Failure]
    BY <1>1, <1>types DEF ThrottleTypeOK
  <2>2. attempt' \in [Checkers -> {NoAttempt} \cup [pc : {"check"}, source : Sources, at : Nat]]
    BY <1>1, <1>types DEF ThrottleTypeOK
  <2> QED
    BY <2>1, <2>2, <1>1, <1>types DEF ThrottleTypeOK
<1>3. LimitsHold'
  <2>1. Cardinality(Known(by_ip')) <= Cardinality(Known(by_ip)) /\ Cardinality(Known(by_ip')) \in Nat
    <3>1. IsFiniteSet(Known(by_ip')) /\ Cardinality(Known(by_ip')) <= Cardinality(Known(by_ip))
      BY <1>types, <1>1, FS_Subset
    <3> QED
      BY <3>1, FS_CardinalityType
  <2>2. Cardinality(Known(by_ip')) <= MaxSources
    BY <2>1, <1>types DEF ThrottleInv, LimitsHold
  <2> QED
    BY <2>2, <1>2, <1>1, <1>types DEF ThrottleInv, LimitsHold
<1>4. AttemptInv'
  <2>1. attempt'[h] = NoAttempt /\ \A g \in Checkers \ {h} : attempt'[g] = attempt[g]
    BY <1>1, <1>types DEF ThrottleTypeOK
  <2> QED
    BY <2>1, <1>types DEF ThrottleInv, AttemptInv
<1>5. \A x \in Sources : SourceInv(x)'
  <2> SUFFICES ASSUME NEW x \in Sources PROVE SourceInv(x)'
    OBVIOUS
  <2>1. CASE x = s
    <3>1. recent'[x] = {} /\ x \notin Known(by_ip')
      BY <2>1, <1>1, <1>types DEF ThrottleTypeOK
    <3> QED
      BY <3>1 DEF SourceInv, Orderly, OverBy
  <2>2. CASE x # s
    <3>1. /\ SourceInv(x) /\ recent'[x] = recent[x] /\ (x \in Known(by_ip') <=> x \in Known(by_ip))
          /\ x \in Known(by_ip') => by_ip'[x] = by_ip[x]
      BY <2>2, <1>1, <1>types DEF ThrottleTypeOK, ThrottleInv
    <3> QED
      BY <3>1, <1>types DEF SourceInv
  <2> QED
    BY <2>1, <2>2
<1>6. GateInv'
  BY <1>types DEF ThrottleInv, GateInv
<1> QED
  BY <1>3, <1>4, <1>5, <1>6 DEF ThrottleInv

LEMMA GivingUpIsSafe ==
  ASSUME ThrottleInv, NEW h \in Checkers, GiveUp(h)
  PROVE  ThrottleInv'
<1>1. /\ UNCHANGED <<clock, by_ip, global, recent, everyone>> /\ ThrottleTypeOK
      /\ attempt' = [attempt EXCEPT ![h] = NoAttempt]
  BY DEF GiveUp, ThrottleInv, LimitsHold
<1>2. attempt' \in [Checkers -> {NoAttempt} \cup [pc : {"check"}, source : Sources, at : Nat]]
  BY <1>1 DEF ThrottleTypeOK
<1>3. ThrottleTypeOK'
  BY <1>1, <1>2 DEF ThrottleTypeOK
<1>4. LimitsHold'
  BY <1>1, <1>3 DEF ThrottleInv, LimitsHold
<1>5. AttemptInv'
  <2>1. attempt'[h] = NoAttempt /\ \A g \in Checkers \ {h} : attempt'[g] = attempt[g]
    BY <1>1 DEF ThrottleTypeOK
  <2> QED
    BY <2>1, <1>1 DEF ThrottleInv, AttemptInv
<1>6. GateInv' /\ \A s \in Sources : SourceInv(s)'
  BY <1>1 DEF ThrottleInv, GateInv, SourceInv
<1> QED
  BY <1>4, <1>5, <1>6 DEF ThrottleInv

LEMMA ThrottlePreserved == ThrottleInv /\ [ThrottleNext]_throttleVars => ThrottleInv'
<1> SUFFICES ASSUME ThrottleInv, [ThrottleNext]_throttleVars PROVE ThrottleInv'
  OBVIOUS
<1>1. CASE UNCHANGED throttleVars
  <2>1. UNCHANGED <<clock, by_ip, global, attempt, recent, everyone>>
    BY <1>1 DEF throttleVars
  <2>2. LimitsHold'
    BY <2>1 DEF ThrottleInv, LimitsHold, ThrottleTypeOK
  <2>3. AttemptInv' /\ GateInv' /\ \A s \in Sources : SourceInv(s)'
    BY <2>1 DEF ThrottleInv, AttemptInv, GateInv, SourceInv
  <2> QED
    BY <2>2, <2>3 DEF ThrottleInv
<1> QED
  BY <1>1, TicksAreSafe, AllowingIsSafe, FailingIsSafe, SucceedingIsSafe, GivingUpIsSafe DEF ThrottleNext

THEOREM ThrottleInvariant == ThrottleSpec => []ThrottleInv
  BY ThrottleStarts, ThrottlePreserved, PTL DEF ThrottleSpec

(* However many addresses try at once, the table of sources stays within   *)
(* its limit, and no lock reaches further than throttle_max_lock, or       *)
(* throttle_global_lock, from now (Fail, EvictOldest, count_global).       *)
THEOREM LimitsAreKept == ThrottleSpec => []LimitsHold
<1>1. ThrottleInv => LimitsHold
  BY DEF ThrottleInv
<1> QED
  BY <1>1, ThrottleInvariant, PTL

(* No source, nor all of them together, fails more often within a window   *)
(* than three windows count without being locked (Allow, Fail).            *)
THEOREM BurstsEndInALock == ThrottleSpec => []BurstsAreLocked
<1>1. ThrottleInv => BurstsAreLocked
  <2> SUFFICES ASSUME ThrottleInv PROVE BurstsAreLocked
    OBVIOUS
  <2> USE ThrottleAssumption
  <2>0. clock \in Nat
    BY DEF ThrottleInv, LimitsHold, ThrottleTypeOK, Start
  <2>1. ASSUME NEW failures, NEW limit \in Nat \ {0}, NEW window \in Nat,
               2 * CheckTime <= window, Orderly(failures, limit, window, clock)
        PROVE  Cardinality(Within(failures, window, clock)) <= Burst(limit)
    <3>1. Within(failures, window, clock) = failures
      BY <2>1 DEF Within, Orderly
    <3> QED
      BY <3>1, <2>0, <2>1, BurstIsBounded
  <2>2. \A s \in Sources : Cardinality(Within(recent[s], Window, clock)) <= Burst(MaxFails)
    BY <2>1 DEF ThrottleInv, SourceInv
  <2>3. Cardinality(Within(everyone, GlobalWindow, clock)) <= Burst(GlobalFails)
    BY <2>1 DEF ThrottleInv, GateInv
  <2> QED
    BY <2>2, <2>3 DEF BurstsAreLocked
<1> QED
  BY <1>1, ThrottleInvariant, PTL

=============================================================================
