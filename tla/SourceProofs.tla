------------------------------ MODULE SourceProofs ------------------------------
(***************************************************************************)
(* Theorems about what is kept of the sources: about SourceState, for every*)
(* number of collections, every length of the history and every bound of   *)
(* the clock; and about RegistryStore, for every number of handlers, of    *)
(* changes and of inodes, as long as no Save begins during another: from   *)
(* then on nothing holds, as they share the temporary file (README,        *)
(* divergence 2).                                                          *)
(***************************************************************************)
EXTENDS SourceState, RegistryStore, TLAPS

(* What a run is about to write, by what it is and how far.                *)
FinalInv ==
  \A r \in Runs :
    /\ At(r, "frame") =>
         /\ run[r].final # None
         /\ run[r].final.status = IF run[r].kind = "waiting" THEN "waiting" ELSE "running"
    /\ run[r].pc \in {"failed", "commit", "append"} =>
         /\ run[r].final # None
         /\ run[r].final.status \in {"ok", "error"}
         /\ run[r].kind = "lost" => run[r].final.status = "error"
    /\ run[r].kind = "waiting" => run[r].pc \in {"idle", "check", "begin", "frame"}

(* The inductive invariant of what a source shows.                         *)
ShowInv == TypeOK /\ FinalInv /\ RunningHasARun

-----------------------------------------------------------------------------
LEMMA IdleIsARun == Idle \in Run
  BY DEF Idle, Run

(* A history never grows beyond its limit, and keeps its newest sample.    *)
LEMMA NewestKeepsTheNewest ==
  ASSUME NEW h \in Seq(State), h # <<>>, Len(h) <= Limit + 1, Limit > 0
  PROVE  /\ Newest(h) \in Seq(State)
         /\ Len(Newest(h)) <= Limit
         /\ Newest(h) # <<>>
         /\ Newest(h)[Len(Newest(h))] = h[Len(h)]
<1>1. CASE Len(h) <= Limit
  <2>1. Newest(h) = h
    BY <1>1, SourceStateAssumption DEF Newest
  <2> QED
    BY <1>1, <2>1
<1>2. CASE Len(h) = Limit + 1
  <2>1. Newest(h) = SubSeq(h, 2, Len(h))
    BY <1>2, SourceStateAssumption DEF Newest
  <2>2. Newest(h) \in Seq(State) /\ Len(Newest(h)) = Limit
    BY <1>2, <2>1, SourceStateAssumption
  <2>3. Newest(h)[Limit] = h[Len(h)]
    BY <1>2, <2>1, SourceStateAssumption
  <2> QED
    BY <2>2, <2>3
<1> QED
  BY <1>1, <1>2, SourceStateAssumption

LEMMA ShowInit == Init => ShowInv
<1> SUFFICES ASSUME Init PROVE ShowInv
  OBVIOUS
<1>1. run \in [Runs -> Run]
  BY IdleIsARun DEF Init
<1>2. history \in Seq(State) /\ Len(history) <= Limit
  BY SourceStateAssumption DEF Init
<1>3. TypeOK
  <2>1. clock \in 0 .. MaxClock /\ aged \in 0 .. clock /\ latest \in 0 .. MaxClock
    BY SourceStateAssumption DEF Init
  <2>2. /\ {registered, pushed, polled, apart, flapped} \subseteq BOOLEAN
        /\ sweep = "idle" /\ deleter = "idle" /\ st = None
    BY Zenon DEF Init
  <2> QED
    BY <1>1, <1>2, <2>1, <2>2, Zenon DEF TypeOK
<1>4. FinalInv /\ RunningHasARun
  BY DEF Init, FinalInv, RunningHasARun, At, Idle
<1> QED
  BY <1>3, <1>4 DEF ShowInv

LEMMA FrameIsAState ==
  ASSUME TypeOK, NEW kind
  PROVE  /\ Frame(kind) \in State
         /\ Frame(kind).status = IF kind = "waiting" THEN "waiting" ELSE "running"
         /\ Frame(kind).value = Reading
  BY SourceStateAssumption DEF TypeOK, Frame, Reading, State, Status

(* What begins: a poll or a refresh, a message, or a mark.                 *)
Begins(r) == \E kind \in {"poll", "refresh", "message"} \cup Marks,
                where \in {"check", "begin", "collect"} :
               /\ kind = "waiting" => where # "collect"
               /\ Starts(r, kind, where)

LEMMA WhatBegins ==
  ASSUME NEW r \in Runs,
         \/ \E kind \in {"poll", "refresh"} : RunStarts(r, kind)
         \/ MessageArrives(r) \/ MarkError(r) \/ MarkWaiting(r) \/ Reconnected(r)
  PROVE  Begins(r)
  BY DEF Begins, RunStarts, MessageArrives, MarkError, MarkWaiting, Reconnected, Marks

(* Only these steps change what a run is about to write.                   *)
LEMMA FinalPreserved == ShowInv /\ [Next]_vars => FinalInv'
<1> SUFFICES ASSUME ShowInv, [Next]_vars PROVE FinalInv'
  OBVIOUS
<1> USE NoneAssumption DEF ShowInv, TypeOK, FinalInv, At, Step
<1>1. ASSUME NEW r \in Runs, Begins(r) PROVE FinalInv'
  BY <1>1 DEF Begins, Starts, Idle
<1>12. ASSUME NEW r \in Runs, ReconnectChecks(r) PROVE FinalInv'
  BY <1>12 DEF ReconnectChecks, Run
<1>2. ASSUME NEW r \in Runs, ContextEnds(r) PROVE FinalInv'
  BY <1>2 DEF ContextEnds, Run
<1>3. ASSUME NEW r \in Runs, RunReadsPrevious(r) PROVE FinalInv'
  <2>1. /\ Frame(run[r].kind) # None
        /\ Frame(run[r].kind).status = IF run[r].kind = "waiting" THEN "waiting" ELSE "running"
    BY FrameIsAState
  <2> QED
    BY <1>3, <2>1 DEF RunReadsPrevious, Run
<1>4. ASSUME NEW r \in Runs, RunShowsRunning(r) PROVE FinalInv'
  BY <1>4 DEF RunShowsRunning, Shown, Run
<1>5. ASSUME NEW r \in Runs, CollectSucceeds(r) PROVE FinalInv'
  <2>1. [status |-> "ok", value |-> clock + 1, at |-> clock + 1] # None
    BY <1>5, SourceStateAssumption DEF CollectSucceeds, State, Status
  <2> QED
    BY <1>5, <2>1 DEF CollectSucceeds, Run
<1>6. ASSUME NEW r \in Runs, CollectFails(r) PROVE FinalInv'
  <2>1. [status |-> "error", value |-> 0, at |-> clock + 1] # None
    BY <1>6, SourceStateAssumption DEF CollectFails, State, Status
  <2> QED
    BY <1>6, <2>1 DEF CollectFails, Run
<1>7. ASSUME NEW r \in Runs, StoreError(r) PROVE FinalInv'
  <2>1. [run[r].final EXCEPT !.value = Reading] # None
    <3>1. run[r].final \in State
      BY <1>7 DEF StoreError, Run
    <3>2. Reading \in 0 .. MaxClock
      BY SourceStateAssumption DEF Reading, State
    <3> QED
      BY <3>1, <3>2 DEF State
  <2>2. run'[r].final = [run[r].final EXCEPT !.value = Reading]
    BY <1>7 DEF StoreError, Run
  <2>3. run'[r].final.status = run[r].final.status
    BY <2>2, <1>7 DEF StoreError, Run, State
  <2> QED
    BY <1>7, <2>1, <2>2, <2>3 DEF StoreError, Run
<1>8. ASSUME NEW r \in Runs, CommitSets(r) PROVE FinalInv'
  BY <1>8 DEF CommitSets, Run
<1>9. ASSUME NEW r \in Runs, CommitAppends(r) PROVE FinalInv'
  BY <1>9 DEF CommitAppends, Run
<1>10. CASE UNCHANGED run
  BY <1>10
<1>11. ASSUME Age \/ SweepFinds \/ SweepMarks \/ DeleteEntry \/ DeleteNotSaved \/ DeleteState
               \/ DeleteHistory \/ PutEntry \/ Sync \/ UNCHANGED vars
       PROVE  UNCHANGED run
  BY <1>11 DEF Age, SweepFinds, SweepMarks, DeleteEntry, DeleteNotSaved, DeleteState, DeleteHistory,
     PutEntry, Sync, vars
<1> QED
  BY <1>1, <1>2, <1>3, <1>4, <1>5, <1>6, <1>7, <1>8, <1>9, <1>10, <1>11, <1>12, WhatBegins DEF Next, RunStep

(* Moving a run on, and giving it a result, keep it well typed.            *)
LEMMA RunStaysTyped ==
  ASSUME run \in [Runs -> Run], NEW r \in Runs,
         NEW x \in {"idle", "check", "begin", "frame", "collect", "failed", "commit", "append"},
         NEW f \in State \cup {None}
  PROVE  /\ [run EXCEPT ![r].pc = x] \in [Runs -> Run]
         /\ [run EXCEPT ![r].pc = x, ![r].final = f] \in [Runs -> Run]
<1>1. [run[r] EXCEPT !.pc = x] \in Run /\ [run[r] EXCEPT !.pc = x, !.final = f] \in Run
  BY DEF Run
<1>2. [run EXCEPT ![r].pc = x] = [run EXCEPT ![r] = [run[r] EXCEPT !.pc = x]]
  OBVIOUS
<1>3. [run EXCEPT ![r].pc = x, ![r].final = f]
        = [run EXCEPT ![r] = [run[r] EXCEPT !.pc = x, !.final = f]]
  BY DEF Run
<1> QED
  BY <1>1, <1>2, <1>3

LEMMA TypePreserved == ShowInv /\ [Next]_vars => TypeOK'
<1> SUFFICES ASSUME ShowInv, [Next]_vars PROVE TypeOK'
  OBVIOUS
<1> USE SourceStateAssumption DEF ShowInv, TypeOK, At, Step
<1>1. CASE UNCHANGED vars
  BY <1>1 DEF vars
<1>2. ASSUME NEW r \in Runs, Begins(r) PROVE TypeOK'
  <2>1. PICK kind \in {"poll", "refresh", "message"} \cup Marks,
             where \in {"check", "begin", "collect"} : Starts(r, kind, where)
    BY <1>2 DEF Begins
  <2>2. [Idle EXCEPT !.pc = where, !.kind = kind] \in Run
    BY <2>1 DEF Idle, Run
  <2>3. run' \in [Runs -> Run]
    BY <2>1, <2>2 DEF Starts
  <2>4. apart' \in BOOLEAN /\ flapped' \in BOOLEAN
    BY <2>1 DEF Starts, Quiet
  <2> QED
    BY <2>1, <2>3, <2>4 DEF Starts
<1>17. ASSUME NEW r \in Runs, ReconnectChecks(r) PROVE TypeOK'
  <2>1. PICK x \in {"begin", "idle"} : run' = [run EXCEPT ![r].pc = x]
    BY <1>17 DEF ReconnectChecks
  <2>2. run' \in [Runs -> Run]
    BY <2>1, RunStaysTyped, NoneAssumption
  <2> QED
    BY <1>17, <2>2 DEF ReconnectChecks
<1>3. ASSUME NEW r \in Runs, ContextEnds(r) PROVE TypeOK'
  BY <1>3 DEF ContextEnds, Run
<1>4. ASSUME NEW r \in Runs, RunReadsPrevious(r) PROVE TypeOK'
  <2>1. Frame(run[r].kind) \in State
    BY FrameIsAState
  <2> QED
    BY <1>4, <2>1, RunStaysTyped DEF RunReadsPrevious
<1>5. ASSUME NEW r \in Runs, RunShowsRunning(r) PROVE TypeOK'
  <2>1. run[r].final \in State
    BY <1>5 DEF RunShowsRunning, Run, FinalInv
  <2>2. PICK x \in {"idle", "collect"} : run' = [run EXCEPT ![r].pc = x]
    BY <1>5 DEF RunShowsRunning, Shown
  <2>3. run' \in [Runs -> Run]
    BY <2>1, <2>2, RunStaysTyped
  <2> QED
    BY <1>5, <2>1, <2>3 DEF RunShowsRunning
<1>6. ASSUME NEW r \in Runs, CollectSucceeds(r) PROVE TypeOK'
  <2>1. [status |-> "ok", value |-> clock + 1, at |-> clock + 1] \in State
    BY <1>6 DEF CollectSucceeds, State, Status
  <2>2. run' \in [Runs -> Run]
    BY <1>6, <2>1, RunStaysTyped DEF CollectSucceeds
  <2>3. clock' \in 0 .. MaxClock /\ aged' \in 0 .. clock'
    BY <1>6 DEF CollectSucceeds
  <2> QED
    BY <1>6, <2>2, <2>3 DEF CollectSucceeds
<1>7. ASSUME NEW r \in Runs, CollectFails(r) PROVE TypeOK'
  <2>1. [status |-> "error", value |-> 0, at |-> clock + 1] \in State
    BY <1>7 DEF CollectFails, State, Status
  <2>2. run' \in [Runs -> Run]
    BY <1>7, <2>1, RunStaysTyped DEF CollectFails
  <2>3. clock' \in 0 .. MaxClock /\ aged' \in 0 .. clock'
    BY <1>7 DEF CollectFails
  <2> QED
    BY <1>7, <2>2, <2>3 DEF CollectFails
<1>8. ASSUME NEW r \in Runs, StoreError(r) PROVE TypeOK'
  <2>1. run[r].final \in State
    BY <1>8 DEF StoreError, Run, FinalInv
  <2>2. Reading \in 0 .. MaxClock
    BY DEF Reading, State
  <2>3. [run[r].final EXCEPT !.value = Reading] \in State
    BY <2>1, <2>2 DEF State
  <2>4. run' = [run EXCEPT ![r].pc = "commit",
                           ![r].final = [run[r].final EXCEPT !.value = Reading]]
    BY <1>8 DEF StoreError, Run
  <2>5. run' \in [Runs -> Run]
    BY <2>3, <2>4, RunStaysTyped
  <2> QED
    BY <1>8, <2>5 DEF StoreError
<1>9. ASSUME NEW r \in Runs, CommitSets(r) PROVE TypeOK'
  <2>1. run[r].final \in State
    BY <1>9 DEF CommitSets, Run, FinalInv
  <2> QED
    BY <1>9, <2>1, RunStaysTyped DEF CommitSets, State
<1>10. ASSUME NEW r \in Runs, CommitAppends(r) PROVE TypeOK'
  <2>1. run[r].final \in State
    BY <1>10 DEF CommitAppends, Run, FinalInv
  <2>2. Append(history, run[r].final) \in Seq(State) \ {<<>>}
    BY <2>1
  <2>3. Len(Append(history, run[r].final)) <= Limit + 1
    BY <2>1
  <2>4. run' \in [Runs -> Run]
    BY <1>10, <2>1, RunStaysTyped DEF CommitAppends
  <2>5. history' \in Seq(State) /\ Len(history') <= Limit
    <3>1. CASE Limit = 0
      BY <1>10, <3>1 DEF CommitAppends
    <3>2. CASE Limit > 0
      BY <1>10, <2>2, <2>3, <3>2, NewestKeepsTheNewest DEF CommitAppends
    <3> QED
      BY <3>1, <3>2
  <2> QED
    BY <1>10, <2>4, <2>5 DEF CommitAppends
<1>11. CASE Age \/ SweepFinds
  BY <1>11 DEF Age, SweepFinds
<1>12. CASE SweepMarks
  <2>1. st' \in State \cup {None}
    BY <1>12 DEF SweepMarks, State, Status
  <2> QED
    BY <1>12, <2>1 DEF SweepMarks
<1>13. CASE DeleteEntry \/ DeleteNotSaved
  BY <1>13 DEF DeleteEntry, DeleteNotSaved, Quiet
<1>14. CASE DeleteHistory
  BY <1>14 DEF DeleteHistory
<1>15. CASE DeleteState
  <2>1. latest' \in 0 .. MaxClock
    BY <1>15 DEF DeleteState
  <2> QED
    BY <1>15, <2>1 DEF DeleteState
<1>16. CASE PutEntry \/ Sync
  BY <1>16 DEF PutEntry, Sync
<1> QED
  BY <1>1, <1>2, <1>3, <1>4, <1>5, <1>6, <1>7, <1>8, <1>9, <1>10, <1>11, <1>12, <1>13, <1>14,
     <1>15, <1>16, <1>17, WhatBegins DEF Next, RunStep

(* Whoever shows "running" goes on to commit, and only a commit, a sweep   *)
(* or a deletion replaces it.                                              *)
LEMMA RunningPreserved == ShowInv /\ [Next]_vars => RunningHasARun'
<1> SUFFICES ASSUME ShowInv, [Next]_vars PROVE RunningHasARun'
  OBVIOUS
<1> USE NoneAssumption DEF ShowInv, TypeOK, RunningHasARun, At, Step
<1>1. ASSUME UNCHANGED <<st, run>> PROVE RunningHasARun'
  BY <1>1
<1>2. ASSUME NEW r \in Runs, Begins(r) PROVE RunningHasARun'
  BY <1>2 DEF Begins, Starts, Idle, Run
<1>13. ASSUME NEW r \in Runs, ReconnectChecks(r) PROVE RunningHasARun'
  BY <1>13 DEF ReconnectChecks, Run
<1>3. ASSUME NEW r \in Runs, ContextEnds(r) PROVE RunningHasARun'
  BY <1>3 DEF ContextEnds, Run
<1>4. ASSUME NEW r \in Runs, RunReadsPrevious(r) PROVE RunningHasARun'
  BY <1>4 DEF RunReadsPrevious, Run
<1>5. ASSUME NEW r \in Runs, RunShowsRunning(r) PROVE RunningHasARun'
  BY <1>5 DEF RunShowsRunning, Shown, Run, FinalInv
<1>6. ASSUME NEW r \in Runs, CollectSucceeds(r) \/ CollectFails(r) PROVE RunningHasARun'
  BY <1>6 DEF CollectSucceeds, CollectFails, Run
<1>7. ASSUME NEW r \in Runs, StoreError(r) PROVE RunningHasARun'
  BY <1>7 DEF StoreError, Run
<1>8. ASSUME NEW r \in Runs, CommitSets(r) PROVE RunningHasARun'
  BY <1>8 DEF CommitSets, FinalInv
<1>9. ASSUME NEW r \in Runs, CommitAppends(r) PROVE RunningHasARun'
  BY <1>9 DEF CommitAppends, Run
<1>10. CASE SweepMarks
  BY <1>10 DEF SweepMarks, State
<1>11. CASE DeleteState
  BY <1>11 DEF DeleteState
<1>12. ASSUME Age \/ SweepFinds \/ DeleteEntry \/ DeleteNotSaved \/ DeleteHistory \/ PutEntry
               \/ Sync \/ UNCHANGED vars
       PROVE  UNCHANGED <<st, run>>
  BY <1>12 DEF Age, SweepFinds, DeleteEntry, DeleteNotSaved, DeleteHistory, PutEntry, Sync, vars
<1> QED
  BY <1>1, <1>2, <1>3, <1>4, <1>5, <1>6, <1>7, <1>8, <1>9, <1>10, <1>11, <1>12, <1>13, WhatBegins
  DEF Next, RunStep

(* The invariant of what a source shows holds throughout.                  *)
THEOREM ShowInvariant == Spec => []ShowInv
<1>1. ShowInv /\ [Next]_vars => ShowInv'
  BY TypePreserved, FinalPreserved, RunningPreserved DEF ShowInv
<1> QED
  BY ShowInit, <1>1, PTL DEF Spec

(* State, history and runs always have their types; in particular no       *)
(* history outgrows history_limit (Append, history.go).                    *)
THEOREM StateTypeCorrect == Spec => []TypeOK
  BY ShowInvariant, PTL DEF ShowInv

(* No card is left spinning: "running" always has a collection that will   *)
(* replace it (RunSource, commit).                                         *)
THEOREM NoCardIsLeftSpinning == Spec => []RunningHasARun
  BY ShowInvariant, PTL DEF ShowInv

-----------------------------------------------------------------------------
(* Beside a run there are no deletion and, but for marks, no other run:    *)
(* if none began beside another one, there is only one.                    *)
Alone ==
  /\ \A q, r \in Runs :
       ~At(q, "idle") /\ ~At(r, "idle") =>
         q = r \/ (flapped /\ run[q].kind \in Marks /\ run[r].kind \in Marks)
  /\ ~Quiet => registered /\ deleter = "idle"

(* The last reading is in the cache, and in whatever will replace it.      *)
Carried ==
  /\ latest = IF st = None THEN 0 ELSE st.value
  /\ \A r \in Runs :
       At(r, "frame") \/ (At(r, "commit") /\ run[r].final.status = "error")
         => run[r].final.value = latest

Agrees(sample, state) ==
  /\ sample.at = state.at
  /\ sample.value = state.value
  /\ sample.status = state.status \/ (sample.status = "ok" /\ state.status = "stale")

(* No run has shown anything so far.                                       *)
Undisturbed == \A r \in Runs : run[r].pc \in {"idle", "check", "begin", "frame"}

(* The sample that is newest, or about to be, agrees with the cached state,*)
(* and its value is the last reading.                                      *)
Sampled ==
  /\ \A r \in Runs : At(r, "append") => st # None /\ Agrees(run[r].final, st)
  /\ Undisturbed /\ st # None /\ Limit > 0 /\ st.status # "waiting" =>
       history # <<>> /\ Agrees(history[Len(history)], st)
  /\ Limit > 0 /\ deleter # "cleared" /\ (\A r \in Runs : ~At(r, "append")) =>
       history = <<>> \/ history[Len(history)].value = latest

(* What a deletion has cleared so far.                                     *)
Cleared ==
  /\ deleter = "cleared" => st = None
  /\ ~registered /\ deleter = "idle" => st = None /\ history = <<>>

ApartInv == apart => Alone /\ Carried /\ (~flapped => Sampled) /\ Cleared

LEMMA ApartInit == Init => ApartInv
  BY DEF Init, ApartInv, Alone, Carried, Sampled, Cleared, At, Quiet, Idle

LEMMA ApartPreserved == ShowInv /\ ApartInv /\ [Next]_vars => ApartInv'
<1> SUFFICES ASSUME ShowInv, ApartInv, [Next]_vars, apart'
             PROVE  Alone' /\ Carried' /\ (~flapped' => Sampled') /\ Cleared'
  BY DEF ApartInv
<1> DEFINE Kept == Alone' /\ Carried' /\ (~flapped' => Sampled') /\ Cleared'
<1> USE SourceStateAssumption, NoneAssumption
    DEF ShowInv, TypeOK, FinalInv, ApartInv, Alone, Carried, Sampled, Cleared, Undisturbed,
        At, Step, Quiet, Marks
<1>1. CASE UNCHANGED vars
  BY <1>1 DEF vars
<1>2. ASSUME NEW r \in Runs, Begins(r)
      PROVE  Kept
  <2>1. PICK kind \in {"poll", "refresh", "message"} \cup Marks,
             where \in {"check", "begin", "collect"} : Starts(r, kind, where)
    BY <1>2 DEF Begins
  <2>2. /\ UNCHANGED <<registered, st, history, deleter, latest>>
        /\ apart /\ registered /\ deleter = "idle"
        /\ flapped' = (flapped \/ ~Quiet)
        /\ \A q \in Runs : run[q].pc = "idle" \/ {kind, run[q].kind} \subseteq Marks
    BY <2>1 DEF Starts
  <2>3. /\ run'[r].pc = where /\ run'[r].kind = kind
        /\ \A q \in Runs \ {r} : run'[q] = run[q]
    BY <2>1 DEF Starts, Idle
  <2>4. run[r].pc = "idle"
    BY <2>1 DEF Starts
  <2>5. Alone' /\ Cleared'
    <3>1. ASSUME NEW q \in Runs, NEW p \in Runs, run'[q].pc # "idle", run'[p].pc # "idle", q # p
          PROVE  flapped' /\ run'[q].kind \in Marks /\ run'[p].kind \in Marks
      <4>1. ~Quiet
        BY <3>1, <2>3
      <4>2. flapped'
        BY <4>1, <2>2
      <4> QED
        BY <2>2, <2>3, <2>4, <3>1, <4>2
    <3> QED
      BY <2>2, <3>1
  <2>6. Carried'
    BY <2>2, <2>3
  <2>7. ~flapped' => Sampled'
    BY <2>2, <2>3, <2>4
  <2> QED
    BY <2>5, <2>6, <2>7
<1>17. ASSUME NEW r \in Runs, ReconnectChecks(r)
      PROVE  Kept
  BY <1>17 DEF ReconnectChecks, Run
<1>3. ASSUME NEW r \in Runs, ContextEnds(r)
      PROVE  Kept
  BY <1>3 DEF ContextEnds, Run
<1>4. ASSUME NEW r \in Runs, RunReadsPrevious(r)
      PROVE  Kept
  <2>1. Reading = latest
    BY <1>4 DEF RunReadsPrevious, Reading
  <2>2. Frame(run[r].kind).value = latest
    BY <2>1, FrameIsAState
  <2>3. run'[r].final.value = latest /\ run'[r].pc = "frame"
    BY <1>4, <2>2 DEF RunReadsPrevious, Run
  <2> QED
    BY <1>4, <2>3 DEF RunReadsPrevious, Run
<1>5. ASSUME NEW r \in Runs, RunShowsRunning(r)
      PROVE  Kept
  BY <1>5 DEF RunShowsRunning, Shown, Run
<1>6. ASSUME NEW r \in Runs, CollectSucceeds(r)
      PROVE  Kept
  BY <1>6 DEF CollectSucceeds, Run
<1>7. ASSUME NEW r \in Runs, CollectFails(r)
      PROVE  Kept
  BY <1>7 DEF CollectFails, Run
<1>8. ASSUME NEW r \in Runs, StoreError(r)
      PROVE  Kept
  <2>1. Reading = latest
    BY <1>8 DEF StoreError, Reading
  <2>2. run[r].final \in State
    BY <1>8 DEF StoreError, Run
  <2>3. run'[r].final = [run[r].final EXCEPT !.value = latest] /\ run'[r].pc = "commit"
    BY <1>8, <2>1 DEF StoreError, Run
  <2>4. run'[r].final.value = latest
    BY <2>2, <2>3 DEF State
  <2>5. /\ \A q \in Runs \ {r} : run'[q] = run[q]
        /\ run'[r].kind = run[r].kind /\ run[r].pc = "failed"
        /\ UNCHANGED <<registered, st, history, deleter, latest, apart, flapped>>
    <3>1. run' = [run EXCEPT ![r].pc = "commit",
                             ![r].final = [run[r].final EXCEPT !.value = Reading]]
      BY <1>8 DEF StoreError, Run
    <3>2. run'[r].kind = run[r].kind
      BY <3>1 DEF Run
    <3>3. \A q \in Runs \ {r} : run'[q] = run[q]
      BY <3>1
    <3> QED
      BY <1>8, <3>2, <3>3 DEF StoreError
  <2>6. Alone' /\ Cleared'
    BY <2>3, <2>5
  <2>7. Carried'
    <3>1. latest' = IF st' = None THEN 0 ELSE st'.value
      BY <2>5
    <3>2. ASSUME NEW q \in Runs, run'[q].pc \in {"frame", "commit"},
                 run'[q].pc = "commit" => run'[q].final.status = "error"
          PROVE  run'[q].final.value = latest'
      BY <2>4, <2>5, <3>2
    <3> QED
      BY <3>1, <3>2
  <2>8. ~flapped' => Sampled'
    BY <2>3, <2>5
  <2> QED
    BY <2>6, <2>7, <2>8
<1>9. ASSUME NEW r \in Runs, CommitSets(r)
      PROVE  Kept
  <2>1. run[r].final \in State /\ run[r].final.status \in {"ok", "error"}
    BY <1>9 DEF CommitSets, Run
  <2>2. run'[r].pc = "append" /\ run'[r].final = run[r].final /\ st' = run[r].final
    BY <1>9 DEF CommitSets, Run
  <2>3. /\ \A q \in Runs \ {r} : run'[q] = run[q]
        /\ run'[r].kind = run[r].kind
        /\ UNCHANGED <<registered, history, deleter, apart, flapped>>
        /\ run[r].pc = "commit"
    BY <1>9 DEF CommitSets, Run
  <2>4. run[r].kind # "waiting" /\ (run[r].final.status = "ok" => run[r].kind \notin Marks)
    BY <2>3
  <2>5. latest' = st'.value
    BY <1>9, <2>1 DEF CommitSets
  <2>6. run[r].final.status = "error" => latest' = latest
    BY <1>9 DEF CommitSets
  <2>7. Alone' /\ Cleared'
    BY <2>2, <2>3
  <2>8. Carried'
    <3>1. CASE run[r].final.status = "error"
      BY <2>1, <2>2, <2>3, <2>5, <2>6, <3>1
    <3>2. CASE run[r].final.status = "ok"
      <4>1. \A q \in Runs \ {r} : run[q].pc = "idle"
        BY <2>3, <2>4, <3>2
      <4> QED
        BY <2>1, <2>2, <2>3, <2>5, <4>1
    <3> QED
      BY <2>1, <3>1, <3>2
  <2>9. ~flapped' => Sampled'
    <3> SUFFICES ASSUME ~flapped' PROVE Sampled'
      OBVIOUS
    <3>1. \A q \in Runs \ {r} : run[q].pc = "idle"
      BY <2>3
    <3>2. st' # None /\ Agrees(run'[r].final, st')
      BY <2>1, <2>2 DEF Agrees
    <3> QED
      BY <2>2, <2>3, <3>1, <3>2
  <2> QED
    BY <2>7, <2>8, <2>9
<1>10. ASSUME NEW r \in Runs, CommitAppends(r)
      PROVE  Kept
  <2>1. run[r].final \in State /\ registered /\ deleter = "idle"
    BY <1>10 DEF CommitAppends, Run
  <2>2. Append(history, run[r].final) \in Seq(State) \ {<<>>}
    BY <2>1
  <2>3. /\ Len(Append(history, run[r].final)) <= Limit + 1
        /\ Append(history, run[r].final)[Len(Append(history, run[r].final))] = run[r].final
    BY <2>1
  <2>4. Limit > 0 => history' # <<>> /\ history'[Len(history')] = run[r].final
    <3>1. Limit > 0 => history' = Newest(Append(history, run[r].final))
      BY <1>10 DEF CommitAppends
    <3> HIDE DEF TypeOK, FinalInv, Alone, Carried, Sampled, Cleared, At, Step, Quiet
    <3> QED
      BY <3>1, <2>2, <2>3, NewestKeepsTheNewest
  <2>5. ASSUME ~flapped' PROVE Sampled'
    <3>1. st # None /\ Agrees(run[r].final, st)
      BY <1>10, <2>5 DEF CommitAppends
    <3>2. \A q \in Runs : run'[q].pc = "idle"
      BY <1>10, <2>5 DEF CommitAppends, Run
    <3> QED
      BY <1>10, <2>4, <3>1, <3>2 DEF CommitAppends, Agrees
  <2>6. Alone' /\ Carried' /\ Cleared'
    BY <1>10, <2>1 DEF CommitAppends, Run
  <2> QED
    BY <2>5, <2>6
<1>11. CASE Age \/ SweepFinds \/ Sync
  <2>1. UNCHANGED <<registered, st, history, run, deleter, latest, apart, flapped>>
    BY <1>11 DEF Age, SweepFinds, Sync
  <2> QED
    BY <2>1
<1>12. CASE SweepMarks
  <2>1. UNCHANGED <<registered, history, run, deleter, latest, apart, flapped>>
    BY <1>12 DEF SweepMarks
  <2>2. st' = None <=> st = None
    <3>1. st # None => [st EXCEPT !.status = "stale"] \in State
      BY DEF State, Status
    <3> QED
      BY <3>1, <1>12 DEF SweepMarks
  <2>3. st # None => st'.at = st.at /\ st'.value = st.value
    BY <1>12 DEF SweepMarks, State
  <2>4. st # None => st'.status = st.status \/ (st.status = "ok" /\ st'.status = "stale")
    BY <1>12 DEF SweepMarks, State
  <2>5. ASSUME NEW s, st # None, Agrees(s, st) PROVE Agrees(s, st')
    BY <2>3, <2>4, <2>5 DEF Agrees
  <2>6. ~flapped' => Sampled'
    BY <2>1, <2>2, <2>4, <2>5
  <2> QED
    BY <2>1, <2>2, <2>3, <2>6
<1>13. CASE DeleteEntry \/ DeleteNotSaved
  BY <1>13 DEF DeleteEntry, DeleteNotSaved
<1>14. CASE DeleteState
  BY <1>14 DEF DeleteState
<1>15. CASE DeleteHistory
  BY <1>15 DEF DeleteHistory
<1>16. CASE PutEntry
  BY <1>16 DEF PutEntry
<1> QED
  BY <1>1, <1>2, <1>3, <1>4, <1>5, <1>6, <1>7, <1>8, <1>9, <1>10, <1>11, <1>12, <1>13, <1>14,
     <1>15, <1>16, <1>17, WhatBegins DEF Next, RunStep

(* What holds of readings, samples and leftovers while nothing overlaps.   *)
THEOREM ApartInvariant == Spec => []ApartInv
  BY ApartInit, ApartPreserved, ShowInvariant, PTL DEF Spec

(* The cached reading is the last successful one: neither a frame shown    *)
(* while collecting nor an error or the sweep replaces it (RunSource).     *)
THEOREM ReadingsAreCarried == Spec => []ReadingIsTheLatest
<1>1. ApartInv => ReadingIsTheLatest
  BY DEF ApartInv, Carried, ReadingIsTheLatest
<1> QED
  BY <1>1, ApartInvariant, PTL

(* Between collections the newest sample is the cached state (commit).     *)
THEOREM HistoryAgrees == Spec => []HistoryEndsWithTheState
<1>1. ApartInv /\ TypeOK => HistoryEndsWithTheState
  BY NoneAssumption DEF TypeOK, ApartInv, Carried, Sampled, Cleared, Undisturbed, Agrees,
     HistoryEndsWithTheState, At, Quiet
<1> QED
  BY <1>1, ApartInvariant, StateTypeCorrect, PTL

(* A deletion that nothing overlapped leaves neither state nor samples     *)
(* (handle_registry_delete).                                               *)
THEOREM DeletionIsComplete == Spec => []DeletedLeavesNothing
<1>1. ApartInv => DeletedLeavesNothing
  BY DEF ApartInv, Cleared, DeletedLeavesNothing
<1> QED
  BY <1>1, ApartInvariant, PTL

-----------------------------------------------------------------------------
(* A name that exists and can be loaded has its data on flash.             *)
Durable(i) == i # NoFile => data[i] \notin Unreadable /\ flashData[i] = data[i]

(* Who saves has the temporary file, with what it has written so far.      *)
TmpOf(w) ==
  /\ pc[w] \in {"opened", "written", "synced", "closed"} => tmp # NoFile
  /\ fd[w] # NoFile => fd[w] = tmp
  /\ pc[w] = "opened" => data[tmp] = Empty
  /\ pc[w] \in {"written", "synced", "closed"} => data[tmp] = snapshot[w]
  /\ pc[w] \in {"synced", "closed"} => flashData[tmp] = data[tmp]

(* What it writes has everything that was answered, and the memory has it. *)
SnapshotOf(w) == InSave(w) => answered \subseteq snapshot[w] /\ snapshot[w] \subseteq memory

(* One Save at a time: its own steps, and what the others do meanwhile.    *)
OneSaves == \A v, w \in Writers : InSave(v) /\ InSave(w) => v = w

SoloInv ==
  /\ up
  /\ OneSaves
  /\ Durable(file) /\ Durable(flashFile)
  /\ tmp # NoFile => tmp \notin {file, flashFile}
  /\ answered \subseteq memory /\ answered \subseteq Loaded(file, data)
  /\ \A w \in Writers : TmpOf(w) /\ SnapshotOf(w)

(* The inductive invariant of the store.                                   *)
StoreInv == RegistryTypeOK /\ (~overlapped => SoloInv)

-----------------------------------------------------------------------------
LEMMA StoreInit == RegistryInit => StoreInv
  BY RegistryStoreAssumption
  DEF RegistryInit, StoreInv, SoloInv, OneSaves, RegistryTypeOK, Durable, TmpOf, SnapshotOf, InSave, Loaded, Contents,
      Unreadable

(* A step of a writer, and one of the kernel or the power.                 *)
WriterStep(w) ==
  \/ \E c \in Changes : Change(w, c)
  \/ Snapshot(w) \/ Open(w) \/ Write(w) \/ Fsync(w) \/ Close(w) \/ Rename(w) \/ CallFails(w)

SystemStep == (\E i \in Inodes : WriteBack(i)) \/ WriteBackNames \/ Killed \/ PowerCut

LEMMA TypesKept ==
  ASSUME RegistryTypeOK, (\E w \in Writers : WriterStep(w)) \/ SystemStep
  PROVE  RegistryTypeOK'
<1> USE RegistryStoreAssumption
    DEF RegistryTypeOK, Contents, Unreadable, Moves, InSave, past, storeVars, diskVars
<1>1. ASSUME NEW w \in Writers, NEW c \in Changes, Change(w, c) PROVE RegistryTypeOK'
  BY <1>1 DEF Change
<1>2. ASSUME NEW w \in Writers, Snapshot(w) PROVE RegistryTypeOK'
  BY <1>2 DEF Snapshot
<1>3. ASSUME NEW w \in Writers, Open(w) PROVE RegistryTypeOK'
  BY <1>3 DEF Open
<1>4. ASSUME NEW w \in Writers, Write(w) PROVE RegistryTypeOK'
  BY <1>4 DEF Write
<1>5. ASSUME NEW w \in Writers, Fsync(w) PROVE RegistryTypeOK'
  BY <1>5 DEF Fsync
<1>6. ASSUME NEW w \in Writers, Close(w) PROVE RegistryTypeOK'
  BY <1>6 DEF Close
<1>7. ASSUME NEW w \in Writers, Rename(w) PROVE RegistryTypeOK'
  BY <1>7 DEF Rename
<1>8. ASSUME NEW w \in Writers, CallFails(w) PROVE RegistryTypeOK'
  BY <1>8 DEF CallFails
<1>9. ASSUME NEW i \in Inodes, WriteBack(i) PROVE RegistryTypeOK'
  BY <1>9 DEF WriteBack
<1>10. CASE WriteBackNames
  BY <1>10 DEF WriteBackNames
<1>11. ASSUME NEW survivor \in {file, flashFile}, NEW cache \in {data, flashData}, StartsWith(survivor, cache),
              answered' \subseteq answered
       PROVE  RegistryTypeOK'
  BY <1>11 DEF StartsWith
<1>12. CASE Killed
  BY <1>11, <1>12 DEF Killed
<1>13. CASE PowerCut
  BY <1>11, <1>13 DEF PowerCut
<1> QED
  BY <1>1, <1>2, <1>3, <1>4, <1>5, <1>6, <1>7, <1>8, <1>9, <1>10, <1>12, <1>13 DEF WriterStep, SystemStep

(* What a step without an overlap does to the invariant and the registry.  *)
Kept == SoloInv' /\ [Atomic!Next]_Atomic!vars

(* The contents being saved.                                               *)
Saving == {snapshot[w] : w \in {v \in Writers : InSave(v)}}

LEMMA SavingOf ==
  ASSUME OneSaves, NEW w \in Writers, InSave(w)
  PROVE  Saving = {snapshot[w]}
  BY DEF Saving, OneSaves

LEMMA WriterKeeps ==
  ASSUME RegistryTypeOK, SoloInv, NEW w \in Writers, WriterStep(w), ~overlapped'
  PROVE  Kept
<1> USE RegistryStoreAssumption
    DEF RegistryTypeOK, SoloInv, OneSaves, Durable, TmpOf, SnapshotOf, Loaded, InSave,
        Contents, Unreadable, Moves, past, storeVars, diskVars, Kept, Atomic!vars
<1>1. ASSUME NEW c \in Changes, Change(w, c) PROVE Kept
  BY <1>1 DEF Change, Atomic!Next, Atomic!Change
<1>2. CASE Snapshot(w)
  <2>1. /\ \A v \in Writers : ~InSave(v)
        /\ \A v \in Writers : InSave(v)' <=> v = w
        /\ snapshot'[w] = memory
        /\ UNCHANGED <<memory, tmp, file, flashFile, data, flashData, fd, up, answered>>
    BY <1>2 DEF Snapshot
  <2>2. SoloInv'
    BY <1>2, <2>1 DEF Snapshot
  <2>3. Saving = {} /\ Saving' = {memory}
    BY <2>1 DEF Saving
  <2>4. Atomic!Begin
    BY <2>1, <2>3 DEF Atomic!Begin, Saving
  <2> QED
    BY <2>2, <2>4 DEF Atomic!Next
<1>3. CASE Open(w)
  BY <1>3 DEF Open, Unused
<1>4. CASE Write(w)
  BY <1>4 DEF Write
<1>5. CASE Fsync(w)
  BY <1>5 DEF Fsync
<1>6. CASE Close(w)
  BY <1>6 DEF Close
<1>7. CASE Rename(w)
  BY <1>7 DEF Rename, Atomic!Next, Atomic!Save
<1>8. CASE CallFails(w)
  BY <1>8 DEF CallFails, Atomic!Next, Atomic!GiveUp
<1> QED
  BY <1>1, <1>2, <1>3, <1>4, <1>5, <1>6, <1>7, <1>8 DEF WriterStep

(* The start after a kill or a power cut. In the page cache or on flash, a *)
(* name has the same data.                                                 *)
LEMMA StartKeeps ==
  ASSUME RegistryTypeOK, SoloInv, NEW survivor \in {file, flashFile}, NEW cache \in {data, flashData},
         StartsWith(survivor, cache), answered' \subseteq Loaded(survivor, cache)
  PROVE  SoloInv' /\ Atomic!Restart
<1> USE RegistryStoreAssumption
    DEF RegistryTypeOK, SoloInv, Durable, Loaded, Contents, Unreadable
<1>1. survivor # NoFile => /\ survivor \in Inodes /\ cache[survivor] = data[survivor]
                           /\ data[survivor] \in SUBSET Changes /\ data[survivor] \notin {Empty, Garbage}
  OBVIOUS
<1>2. /\ up' /\ memory' = Loaded(survivor, cache)
      /\ Loaded(file, data)' = Loaded(survivor, cache)
      /\ Loaded(flashFile, flashData)' = Loaded(survivor, cache)
  BY <1>1 DEF StartsWith
<1>3. \A w \in Writers : ~InSave(w)' /\ fd'[w] = NoFile /\ pc'[w] = "idle"
  BY DEF StartsWith, InSave
<1>4. SoloInv'
  BY <1>1, <1>2, <1>3 DEF StartsWith, OneSaves, TmpOf, SnapshotOf
<1>5. Loaded(survivor, cache) \in {Loaded(file, data), Loaded(flashFile, flashData)}
  BY <1>1
<1> QED
  BY <1>2, <1>3, <1>4, <1>5 DEF Atomic!Restart

(* The kernel, kills and power cuts.                                       *)
LEMMA SystemKeeps ==
  ASSUME RegistryTypeOK, SoloInv, SystemStep
  PROVE  Kept
<1> USE RegistryStoreAssumption
    DEF RegistryTypeOK, SoloInv, OneSaves, Durable, TmpOf, SnapshotOf, InSave, Loaded,
        Contents, Unreadable, past, storeVars, Kept, Atomic!vars
<1>1. ASSUME NEW i \in Inodes, WriteBack(i) PROVE Kept
  BY <1>1 DEF WriteBack
<1>2. CASE WriteBackNames
  BY <1>2 DEF WriteBackNames, Atomic!Next, Atomic!Settle
<1>3. CASE Killed
  BY <1>3, StartKeeps DEF Killed, Atomic!Next
<1>4. CASE PowerCut
  <2>1. PICK survivor \in {file, flashFile}, cache \in {data, flashData} :
          StartsWith(survivor, cache) /\ answered' = answered \cap memory'
    BY <1>4 DEF PowerCut
  <2>2. answered' \subseteq Loaded(survivor, cache)
    BY <2>1 DEF StartsWith
  <2> QED
    BY <2>1, <2>2, StartKeeps DEF Atomic!Next
<1> QED
  BY <1>1, <1>2, <1>3, <1>4 DEF SystemStep

LEMMA StoreStep ==
  ASSUME StoreInv, [RegistryNext]_registryVars
  PROVE  StoreInv' /\ (~overlapped' => [Atomic!Next]_Atomic!vars)
<1>1. CASE UNCHANGED registryVars
  BY <1>1 DEF registryVars, storeVars, diskVars, past, StoreInv, SoloInv, OneSaves, RegistryTypeOK, Durable, TmpOf,
     SnapshotOf, InSave, Loaded, Atomic!vars
<1>2. CASE RegistryNext
  <2>1. (\E w \in Writers : WriterStep(w)) \/ SystemStep
    BY <1>2 DEF RegistryNext, WriterStep, SystemStep
  <2>2. RegistryTypeOK'
    BY <2>1, TypesKept DEF StoreInv
  <2>3. ~overlapped' => ~overlapped
    BY <2>1 DEF WriterStep, SystemStep, Change, Snapshot, Open, Write, Fsync, Close, Rename, CallFails,
       WriteBack, WriteBackNames, Killed, PowerCut, StartsWith, past
  <2>4. ~overlapped' => Kept
    BY <2>1, <2>3, WriterKeeps, SystemKeeps DEF StoreInv
  <2> QED
    BY <2>2, <2>4 DEF StoreInv, Kept
<1> QED
  BY <1>1, <1>2

(* No power cut, kill or failing call leaves a registry that the next      *)
(* start refuses, unless a Save began during another (Save, Load).         *)
THEOREM RegistrySurvives == RegistrySpec => []RegistryAlwaysLoads
<1>1. StoreInv /\ [RegistryNext]_registryVars => StoreInv'
  BY StoreStep
<1>2. StoreInv => RegistryAlwaysLoads
  BY DEF StoreInv, SoloInv, RegistryAlwaysLoads
<1> QED
  BY StoreInit, <1>1, <1>2, PTL DEF RegistrySpec

(* Put and Delete, saved call by call while others change the registry,    *)
(* are the changes of a registry that is replaced as a whole, as long as no*)
(* Save begins during another: the step that matters is the rename.        *)
THEOREM StoreIsAtomic == RegistrySpec => ImplementsAtomicRegistry
<1>1. StoreInv /\ [RegistryNext]_registryVars => StoreInv' /\ [~overlapped' => Atomic!Next]_Atomic!vars
  BY StoreStep
<1>2. RegistryInit => Atomic!Init
  BY DEF RegistryInit, Atomic!Init, Loaded, InSave
<1> QED
  BY StoreInit, <1>1, <1>2, PTL DEF RegistrySpec, ImplementsAtomicRegistry

(* What a handler was told is saved is in the file and stays there, however*)
(* many other handlers change the registry, fail to save it or are killed, *)
(* unless a Save began during another; a power cut may undo it as long as  *)
(* the directory is not written back (Put, Delete, Save).                  *)
THEOREM AnswersAreKept == RegistrySpec => []AnsweredIsSaved
<1>1. StoreInv /\ [RegistryNext]_registryVars => StoreInv'
  BY StoreStep
<1>2. StoreInv => AnsweredIsSaved
  BY DEF StoreInv, SoloInv, AnsweredIsSaved
<1> QED
  BY StoreInit, <1>1, <1>2, PTL DEF RegistrySpec
=============================================================================
