---------------------------- MODULE LoginThrottle ----------------------------
(***************************************************************************)
(* The limits on password attempts (internal/api/throttle.go) under the    *)
(* handlers that use them, login and password change (session.go): Allow,  *)
(* then the slow comparison of the password without a lock, then Fail or   *)
(* Succeed with the time read before Allow. Every call of the throttle     *)
(* holds its lock throughout and is one step.                              *)
(***************************************************************************)
EXTENDS Naturals, FiniteSets, Functions

CONSTANTS
  Sources,       (* Clients: addresses after normalize_source.              *)
  Checkers,      (* Names for goroutines that check a password.             *)
  MaxFails,      (* login_max_attempts, t.max.                              *)
  LockFor,       (* t.lock_for, the first lock.                             *)
  Window,        (* throttle_window.                                        *)
  MaxLock,       (* throttle_max_lock.                                      *)
  GlobalFails,   (* throttle_global_fails.                                  *)
  GlobalWindow,  (* throttle_global_window.                                 *)
  GlobalLock,    (* throttle_global_lock.                                   *)
  MaxSources,    (* throttle_max_sources.                                   *)
  CheckTime,     (* Bound: ticks that comparing a password takes; it is     *)
                 (* milliseconds, the windows are minutes.                  *)
  MaxTicks       (* Bound: ticks of the clock.                              *)

ASSUME ThrottleAssumption ==
  /\ {MaxFails, LockFor, Window, MaxLock, GlobalFails, GlobalWindow,
      GlobalLock, MaxSources} \subseteq Nat \ {0}
  /\ MaxTicks \in Nat
  /\ CheckTime \in Nat /\ 2 * CheckTime <= Window /\ 2 * CheckTime <= GlobalWindow
  /\ IsFiniteSet(Sources)

VARIABLES
  clock,      (* time.Now().                                                *)
  by_ip,      (* t.by_ip, a function on the sources it knows.               *)
  global,     (* t.global.                                                  *)
  attempt,    (* What each handler is doing.                                *)
  recent,     (* Auxiliary: the failures of each source within the last     *)
              (* window and since its last lock, success or eviction.       *)
  everyone    (* Auxiliary: the failures of all of them within the last     *)
              (* global window and since the gate was last closed.          *)

throttleVars == <<clock, by_ip, global, attempt, recent, everyone>>

(* The zero time lies longer ago than every window.                        *)
Start == 1 + Window + GlobalWindow

NoAttempt == [pc |-> "idle"]

ThrottleInit ==
  /\ clock = Start
  /\ by_ip = <<>>
  /\ global = [fails |-> 0, first |-> 0, until |-> 0]
  /\ attempt = [h \in Checkers |-> NoAttempt]
  /\ recent = [s \in Sources |-> {}]
  /\ everyone = {}

-----------------------------------------------------------------------------
Known(t) == DOMAIN t

(* Mutant of Lapsed: counted from the end of the last lock.                *)
LapsedSinceLock(record, at) == at > record.until + Window

(* The counting window of a record is over.                                *)
Lapsed(record, at) == at > record.first + Window

(* Neither locked nor counting any more.                                   *)
Expired(record, at) == at > record.until /\ Lapsed(record, at)

Forget(t, sources) == Restrict(t, Known(t) \ sources)

(* evict_oldest: what has expired goes; failing that, the source that has  *)
(* been counting for the longest time, any of them when several have.      *)
EvictOldest(t, at) ==
  LET live == Forget(t, {s \in Known(t) : Expired(t[s], at)}) IN
  IF Cardinality(Known(live)) < MaxSources
    THEN {live}
    ELSE {Forget(live, {s}) :
            s \in {x \in Known(live) : \A y \in Known(live) : live[x].first <= live[y].first}}

(* Mutant of MakeRoom: one source too many.                                *)
MakeRoomLate(t, at) == IF Cardinality(Known(t)) > MaxSources THEN EvictOldest(t, at) ELSE {t}

(* The tables Fail may go on with.                                         *)
MakeRoom(t, at) == IF Cardinality(Known(t)) >= MaxSources THEN EvictOldest(t, at) ELSE {t}

(* How long the streak-th lock in a row lasts.                             *)
Lock(streak) ==
  LET backoff == LockFor * 2 ^ (IF streak > 7 THEN 6 ELSE streak - 1)
  IN  IF backoff > MaxLock THEN MaxLock ELSE backoff

(* The record of a source after one more failure: counted, or locked.      *)
Counted(record, at) ==
  LET fails == IF Lapsed(record, at) THEN 1 ELSE record.fails + 1
      first == IF Lapsed(record, at) THEN at ELSE record.first
  IN  IF fails < MaxFails
        THEN [record EXCEPT !.fails = fails, !.first = first]
        ELSE [fails |-> 0, first |-> at, streak |-> record.streak + 1,
              until |-> at + Lock(record.streak + 1)]

(* count_global.                                                           *)
CountGlobal(g, at) ==
  LET lapsed == at > g.first + GlobalWindow
      fails  == IF lapsed THEN 1 ELSE g.fails + 1
  IN  IF fails < GlobalFails
        THEN [g EXCEPT !.fails = fails, !.first = IF lapsed THEN at ELSE @]
        ELSE [fails |-> 0, first |-> at, until |-> at + GlobalLock]

(* A failure is remembered with the window that counted it (its age: 0 is  *)
(* the window that counts now, 1 the one before), as the nth of it, with   *)
(* the time the window is counted from and the time it happened. One that  *)
(* is the first of its window makes all others older; a lock ends them.    *)
Older(failures) == {[f EXCEPT !.age = @ + 1] : f \in failures}

Noted(failures, after) ==
  IF after.fails = 0 THEN {}
  ELSE {[age |-> 0, nth |-> after.fails, first |-> after.first, time |-> clock]}
         \cup IF after.fails = 1 THEN Older(failures) ELSE failures

(* The failures within the last length ticks.                              *)
Within(failures, length, time) == {f \in failures : time <= f.time + length}

-----------------------------------------------------------------------------
ClockTicks ==
  /\ clock < Start + MaxTicks
  /\ \A h \in Checkers : attempt[h].pc = "check" => clock < attempt[h].at + CheckTime
  /\ clock' = clock + 1
  /\ recent' = [s \in Sources |-> Within(recent[s], Window, clock')]
  /\ everyone' = Within(everyone, GlobalWindow, clock')
  /\ UNCHANGED <<by_ip, global, attempt>>

(* Allow lets an attempt through and forgets a record that has lapsed.     *)
Allow(h, s) ==
  /\ attempt[h].pc = "idle"
  /\ clock >= global.until
  /\ s \in Known(by_ip) => clock >= by_ip[s].until
  /\ by_ip' = IF s \in Known(by_ip) /\ Lapsed(by_ip[s], clock)
                THEN Forget(by_ip, {s}) ELSE by_ip
  /\ attempt' = [attempt EXCEPT ![h] = [pc |-> "check", source |-> s, at |-> clock]]
  /\ UNCHANGED <<clock, global, recent, everyone>>

(* The password was wrong.                                                 *)
Fail(h) ==
  /\ attempt[h].pc = "check"
  /\ LET s  == attempt[h].source
         at == attempt[h].at
     IN  /\ \E table \in MakeRoom(by_ip, at) :
              LET fresh == [fails |-> 0, first |-> at, streak |-> 0, until |-> 0]
                  after == Counted(IF s \in Known(table) THEN table[s] ELSE fresh, at)
              IN  /\ by_ip' = [x \in Known(table) \cup {s} |-> IF x = s THEN after ELSE table[x]]
                  /\ recent' = [x \in Sources |->
                       LET kept == IF x \in Known(by_ip) \ Known(table) THEN {} ELSE recent[x]
                       IN  IF x = s THEN Noted(kept, after) ELSE kept]
         /\ global' = CountGlobal(global, at)
         /\ everyone' = Noted(everyone, global')
  /\ attempt' = [attempt EXCEPT ![h] = NoAttempt]
  /\ UNCHANGED clock

(* The password was right, and so was the rest of the request.             *)
Succeed(h) ==
  /\ attempt[h].pc = "check"
  /\ by_ip' = Forget(by_ip, {attempt[h].source})
  /\ recent' = [recent EXCEPT ![attempt[h].source] = {}]
  /\ attempt' = [attempt EXCEPT ![h] = NoAttempt]
  /\ UNCHANGED <<clock, global, everyone>>

(* A password change with the right password but a new one that is weak,   *)
(* the same, or cannot be saved: neither Fail nor Succeed is called.       *)
GiveUp(h) ==
  /\ attempt[h].pc = "check"
  /\ attempt' = [attempt EXCEPT ![h] = NoAttempt]
  /\ UNCHANGED <<clock, by_ip, global, recent, everyone>>

ThrottleNext ==
  \/ ClockTicks
  \/ \E h \in Checkers :
       \/ \E s \in Sources : Allow(h, s)
       \/ Fail(h) \/ Succeed(h) \/ GiveUp(h)

ThrottleSpec == ThrottleInit /\ [][ThrottleNext]_throttleVars

-----------------------------------------------------------------------------
Record  == [fails : 0 .. MaxFails - 1, first : Nat, streak : Nat, until : Nat]
Failure == [age : Nat, nth : Nat \ {0}, first : Nat, time : Nat]

ThrottleTypeOK ==
  /\ clock \in Start .. Start + MaxTicks
  /\ Known(by_ip) \subseteq Sources
  /\ \A s \in Known(by_ip) : by_ip[s] \in Record
  /\ global \in [fails : 0 .. GlobalFails - 1, first : Nat, until : Nat]
  /\ attempt \in [Checkers -> {NoAttempt} \cup [pc : {"check"}, source : Sources, at : Nat]]
  /\ recent \in [Sources -> SUBSET Failure]
  /\ everyone \in SUBSET Failure

(* However many addresses try, the table stays within its limit ("the      *)
(* limit on the size of the table", throttle_max_sources): Fail makes room *)
(* before it adds a source, whatever other handlers added since Allow. And *)
(* nobody is shut out for longer than throttle_max_lock from now, however  *)
(* long a streak of locks is ("so that the owner is not shut out for       *)
(* good"), nor by others for longer than throttle_global_lock. The types   *)
(* are checked with it.                                                    *)
LimitsHold ==
  /\ ThrottleTypeOK
  /\ Cardinality(Known(by_ip)) <= MaxSources
  /\ \A s \in Known(by_ip) : by_ip[s].until <= clock + MaxLock
  /\ global.until <= clock + GlobalLock

(* Failures a span as long as a window may see: windows are fixed, not     *)
(* sliding, so it may see the end of one and the next one almost whole;    *)
(* and attempts are counted at the time they began, so that a slow one may *)
(* open a window whose time runs from before the last failures of the one  *)
(* before it, and there may be three of them.                              *)
Burst(limit) == 3 * (limit - 1)

(* No source fails more often than that within any span of a window's      *)
(* length without being locked, unless its record was evicted or it        *)
(* succeeded in between ("a source that fails so many times is locked",    *)
(* throttle.go:11; Allow, Fail); nor do all sources together without       *)
(* closing the gate for everybody (count_global).                          *)
BurstsAreLocked ==
  /\ \A s \in Sources : Cardinality(Within(recent[s], Window, clock)) <= Burst(MaxFails)
  /\ Cardinality(Within(everyone, GlobalWindow, clock)) <= Burst(GlobalFails)

=============================================================================
