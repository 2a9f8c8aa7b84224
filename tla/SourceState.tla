----------------------------- MODULE SourceState -----------------------------
(***************************************************************************)
(* What happens to the cached state and the sample history of one source,  *)
(* polled or pushed: RunSource, ApplyMessage and the marks of an MQTT      *)
(* subscription, with store_error and commit (internal/engine/executor.go, *)
(* subscriber.go); the refresh handler that starts RunSource with the      *)
(* context of its request, the sweep of the janitor (scheduler.go) and the *)
(* DELETE handler. The state cache and the history each have a lock of     *)
(* their own, so every call on them is one step and nothing longer is.     *)
(* Sources do not interact here, and each keeps its transport.             *)
(*                                                                         *)
(* The clock counts the outcomes, of collections, messages and failed      *)
(* subscriptions: it is the time stamp of a state and, with a reading, the *)
(* reading as well.                                                        *)
(***************************************************************************)
EXTENDS Naturals, Sequences

CONSTANTS
  Runs,        (* Names for goroutines that write the state of the source.  *)
  None,        (* No entry in the state cache.                              *)
  Limit,       (* history_limit.                                            *)
  Deletable,   (* Whether the entry may be deleted and registered again.    *)
  SaveFails,   (* Whether a DELETE may fail to save what it has done.       *)
  MaxClock     (* Bound: outcomes.                                          *)

ASSUME SourceStateAssumption ==
  Limit \in Nat /\ {Deletable, SaveFails} \subseteq BOOLEAN /\ MaxClock \in Nat

VARIABLES
  registered,  (* The registry has the entry.                               *)
  pushed,      (* It subscribes to an MQTT topic; it is polled otherwise.   *)
  polled,      (* The scheduler has a job for it, or the manager a          *)
               (* subscription.                                             *)
  st,          (* states.items[id].                                         *)
  history,     (* history.items[id].                                        *)
  clock,       (* time.Now(), counted in outcomes.                          *)
  aged,        (* States stamped up to here are three intervals old.        *)
  run,         (* The goroutines: RunSource, a message, a mark.             *)
  sweep,       (* The janitor: idle, or between Get and MarkStale.          *)
  deleter,     (* The DELETE handler: idle, deleted, cleared.               *)
  latest,      (* Auxiliary: the reading of the last successful commit.     *)
  apart,       (* Auxiliary: so far no goroutine began while another one or *)
               (* a deletion of the entry was under way, but for marks      *)
               (* beside marks; no deletion during one; and all deletions   *)
               (* were saved.                                               *)
  flapped      (* Auxiliary: a goroutine began beside another one.          *)

vars == <<registered, pushed, polled, st, history, clock, aged, run, sweep, deleter, latest, apart, flapped>>

Status == {"running", "waiting", "ok", "error", "stale"}
Marks  == {"lost", "waiting"}
State  == [status : Status, value : 0 .. MaxClock, at : 0 .. MaxClock]
Idle   == [pc |-> "idle", kind |-> "poll", done |-> FALSE, final |-> None]

ASSUME NoneAssumption == None \notin State

Init ==
  /\ registered = TRUE
  /\ pushed \in BOOLEAN
  /\ polled = TRUE
  /\ st = None
  /\ history = <<>>
  /\ clock = 0
  /\ aged = 0
  /\ run = [r \in Runs |-> Idle]
  /\ sweep = "idle"
  /\ deleter = "idle"
  /\ latest = 0
  /\ apart = TRUE
  /\ flapped = FALSE

-----------------------------------------------------------------------------
(* The value a new state takes over from the cached one.                   *)
Reading == IF st = None THEN 0 ELSE st.value

At(r, pc) == run[r].pc = pc

(* No collection is under way.                                             *)
Quiet == \A r \in Runs : At(r, "idle")

Step(r, pc) == run' = [run EXCEPT ![r].pc = pc]

Starts(r, kind, pc) ==
  /\ At(r, "idle")
  /\ clock < MaxClock
  /\ run' = [run EXCEPT ![r] = [Idle EXCEPT !.pc = pc, !.kind = kind]]
  /\ apart' = (apart /\ registered /\ deleter = "idle"
               /\ \A q \in Runs : At(q, "idle") \/ {kind, run[q].kind} \subseteq Marks)
  /\ flapped' = (flapped \/ ~Quiet)
  /\ UNCHANGED <<registered, pushed, polled, st, history, clock, aged, sweep, deleter, latest>>

(* A tick of the loop, or RefreshSource, which looks the entry up: the     *)
(* context is the one of the job or the one of the HTTP request.           *)
RunStarts(r, kind) ==
  /\ ~pushed
  /\ IF kind = "poll" THEN polled ELSE registered
  /\ Starts(r, kind, "begin")

(* The handler of a subscription takes one message at a time, and drops    *)
(* others. A message of a cancelled subscription may still be under way.   *)
MessageArrives(r) ==
  /\ pushed /\ polled
  /\ \A q \in Runs : At(q, "idle") \/ run[q].kind # "message" \/ run[q].done
  /\ Starts(r, "message", "collect")

(* MarkSourceError: attach failed, or OnConnectionChange was told that the *)
(* connection is lost. Every change is told by a goroutine of its own, in  *)
(* any order.                                                              *)
MarkError(r) == pushed /\ polled /\ Starts(r, "lost", "collect")

(* MarkSourceWaiting: attach is through ...                                *)
MarkWaiting(r) == pushed /\ polled /\ Starts(r, "waiting", "begin")

(* ... or OnConnectionChange was told that the connection is back, and     *)
(* looks at the status first.                                              *)
Reconnected(r) == pushed /\ polled /\ Starts(r, "waiting", "check")

ReconnectChecks(r) ==
  /\ At(r, "check")
  /\ Step(r, IF st # None /\ st.status \in {"error", "stale"} THEN "begin" ELSE "idle")
  /\ UNCHANGED <<registered, pushed, polled, st, history, clock, aged, sweep, deleter, latest, apart, flapped>>

(* The context of a run ends: Sync cancelled the job or the subscription,  *)
(* or the handler of the refresh has answered 202, which ends the request. *)
ContextEnds(r) ==
  /\ ~At(r, "idle")
  /\ run[r].kind \notin Marks
  /\ ~run[r].done
  /\ run' = [run EXCEPT ![r].done = TRUE]
  /\ UNCHANGED <<registered, pushed, polled, st, history, clock, aged, sweep, deleter, latest, apart, flapped>>

(* What is shown while collecting, or while waiting for a message, keeps   *)
(* the reading of the previous state.                                      *)
Frame(kind) ==
  IF kind = "waiting"
    THEN [status |-> "waiting", value |-> Reading, at |-> clock]
    ELSE [status |-> "running", value |-> Reading, at |-> IF st = None THEN clock ELSE st.at]

RunReadsPrevious(r) ==
  /\ At(r, "begin")
  /\ run' = [run EXCEPT ![r].pc = "frame", ![r].final = Frame(run[r].kind)]
  /\ UNCHANGED <<registered, pushed, polled, st, history, clock, aged, sweep, deleter, latest, apart, flapped>>

(* A mark is done when it is shown.                                        *)
Shown(r) == Step(r, IF run[r].kind = "waiting" THEN "idle" ELSE "collect")

(* Mutant of RunShowsRunning: the frame does not carry the last reading.   *)
RunShowsEmpty(r) ==
  /\ At(r, "frame")
  /\ st' = [run[r].final EXCEPT !.value = 0]
  /\ Shown(r)
  /\ UNCHANGED <<registered, pushed, polled, history, clock, aged, sweep, deleter, latest, apart, flapped>>

RunShowsRunning(r) ==
  /\ At(r, "frame")
  /\ st' = run[r].final
  /\ Shown(r)
  /\ UNCHANGED <<registered, pushed, polled, history, clock, aged, sweep, deleter, latest, apart, flapped>>

(* collect succeeds, which takes a context that is still alive, or the     *)
(* reading is extracted from a message.                                    *)
CollectSucceeds(r) ==
  /\ At(r, "collect")
  /\ run[r].kind # "lost"
  /\ run[r].kind = "message" \/ ~run[r].done
  /\ clock < MaxClock
  /\ clock' = clock + 1
  /\ run' = [run EXCEPT ![r].pc = "commit",
                        ![r].final = [status |-> "ok", value |-> clock + 1, at |-> clock + 1]]
  /\ UNCHANGED <<registered, pushed, polled, st, history, aged, sweep, deleter, latest, apart, flapped>>

(* Rendering, transport or extraction fails, or the context has ended; and *)
(* a mark of a lost connection has nothing but an error to tell.           *)
CollectFails(r) ==
  /\ At(r, "collect")
  /\ clock < MaxClock
  /\ clock' = clock + 1
  /\ run' = [run EXCEPT ![r].pc = "failed",
                        ![r].final = [status |-> "error", value |-> 0, at |-> clock + 1]]
  /\ UNCHANGED <<registered, pushed, polled, st, history, aged, sweep, deleter, latest, apart, flapped>>

(* store_error reads the cached reading into the error.                    *)
StoreError(r) ==
  /\ At(r, "failed")
  /\ run' = [run EXCEPT ![r].pc = "commit", ![r].final.value = Reading]
  /\ UNCHANGED <<registered, pushed, polled, st, history, clock, aged, sweep, deleter, latest, apart, flapped>>

(* Mutant of CommitSets: a failed collection leaves the cache alone.       *)
CommitSkipsErrors(r) ==
  /\ At(r, "commit")
  /\ st' = IF run[r].final.status = "ok" THEN run[r].final ELSE st
  /\ latest' = IF run[r].final.status = "ok" THEN run[r].final.value ELSE latest
  /\ Step(r, "append")
  /\ UNCHANGED <<registered, pushed, polled, history, clock, aged, sweep, deleter, apart, flapped>>

(* commit: the state first ...                                             *)
CommitSets(r) ==
  /\ At(r, "commit")
  /\ st' = run[r].final
  /\ latest' = IF run[r].final.status = "ok" THEN run[r].final.value ELSE latest
  /\ Step(r, "append")
  /\ UNCHANGED <<registered, pushed, polled, history, clock, aged, sweep, deleter, apart, flapped>>

(* The last Limit samples of a history.                                    *)
Newest(h) == IF Len(h) > Limit THEN SubSeq(h, Len(h) - Limit + 1, Len(h)) ELSE h

(* ... the sample after it, the oldest one making room.                    *)
CommitAppends(r) ==
  /\ At(r, "append")
  /\ history' = IF Limit = 0 THEN history ELSE Newest(Append(history, run[r].final))
  /\ Step(r, "idle")
  /\ UNCHANGED <<registered, pushed, polled, st, clock, aged, sweep, deleter, latest, apart, flapped>>

-----------------------------------------------------------------------------
(* Three polling intervals pass.                                           *)
Age ==
  /\ aged < clock
  /\ aged' = clock
  /\ UNCHANGED <<registered, pushed, polled, st, history, clock, run, sweep, deleter, latest, apart, flapped>>

(* sweep takes a copy of an "ok" state that is too old ...                 *)
SweepFinds ==
  /\ sweep = "idle"
  /\ registered
  /\ st # None
  /\ st.status = "ok"
  /\ st.at <= aged
  /\ sweep' = "found"
  /\ UNCHANGED <<registered, pushed, polled, st, history, clock, aged, run, deleter, latest, apart, flapped>>

(* Mutant of SweepMarks: whatever state is there becomes stale.            *)
SweepMarksAny ==
  /\ sweep = "found"
  /\ st' = IF st # None THEN [st EXCEPT !.status = "stale"] ELSE st
  /\ sweep' = "idle"
  /\ UNCHANGED <<registered, pushed, polled, history, clock, aged, run, deleter, latest, apart, flapped>>

(* ... and MarkStale marks what is cached by then, if that is "ok".        *)
SweepMarks ==
  /\ sweep = "found"
  /\ st' = IF st # None /\ st.status = "ok" THEN [st EXCEPT !.status = "stale"] ELSE st
  /\ sweep' = "idle"
  /\ UNCHANGED <<registered, pushed, polled, history, clock, aged, run, deleter, latest, apart, flapped>>

(* The DELETE handler: the entry, its state, its history, in this order.   *)
DeleteEntry ==
  /\ Deletable
  /\ deleter = "idle"
  /\ registered
  /\ registered' = FALSE
  /\ deleter' = "deleted"
  /\ apart' = (apart /\ Quiet)
  /\ UNCHANGED <<pushed, polled, st, history, clock, aged, run, sweep, latest, flapped>>

(* The entry is gone but could not be saved: the handler answers 500 and   *)
(* neither clears anything nor calls Sync.                                 *)
DeleteNotSaved ==
  /\ Deletable /\ SaveFails
  /\ registered
  /\ registered' = FALSE
  /\ apart' = FALSE
  /\ UNCHANGED <<pushed, polled, st, history, clock, aged, run, sweep, deleter, latest, flapped>>

DeleteState ==
  /\ deleter = "deleted"
  /\ st' = None
  /\ latest' = 0
  /\ deleter' = "cleared"
  /\ UNCHANGED <<registered, pushed, polled, history, clock, aged, run, sweep, apart, flapped>>

(* Mutant of DeleteHistory: only the state is cleared.                     *)
DeleteKeepsHistory ==
  /\ deleter = "cleared"
  /\ deleter' = "idle"
  /\ UNCHANGED <<registered, pushed, polled, st, history, clock, aged, run, sweep, latest, apart, flapped>>

DeleteHistory ==
  /\ deleter = "cleared"
  /\ history' = <<>>
  /\ deleter' = "idle"
  /\ UNCHANGED <<registered, pushed, polled, st, clock, aged, run, sweep, latest, apart, flapped>>

(* A PUT registers the ID again.                                           *)
PutEntry ==
  /\ ~registered
  /\ registered' = TRUE
  /\ UNCHANGED <<pushed, polled, st, history, clock, aged, run, sweep, deleter, latest, apart, flapped>>

(* The Sync of this handler, or of another one.                            *)
Sync ==
  /\ polled # registered
  /\ polled' = registered
  /\ UNCHANGED <<registered, pushed, st, history, clock, aged, run, sweep, deleter, latest, apart, flapped>>

RunStep(r) ==
  \/ ReconnectChecks(r) \/ RunReadsPrevious(r) \/ RunShowsRunning(r)
  \/ CollectSucceeds(r) \/ CollectFails(r) \/ StoreError(r)
  \/ CommitSets(r) \/ CommitAppends(r)

Next ==
  \/ \E r \in Runs :
       \/ \E kind \in {"poll", "refresh"} : RunStarts(r, kind)
       \/ MessageArrives(r) \/ MarkError(r) \/ MarkWaiting(r) \/ Reconnected(r)
       \/ ContextEnds(r)
       \/ RunStep(r)
  \/ Age \/ SweepFinds \/ SweepMarks
  \/ DeleteEntry \/ DeleteState \/ DeleteHistory \/ DeleteNotSaved \/ PutEntry \/ Sync

Spec == Init /\ [][Next]_vars

-----------------------------------------------------------------------------
Run == [pc : {"idle", "check", "begin", "frame", "collect", "failed", "commit", "append"},
        kind : {"poll", "refresh", "message"} \cup Marks, done : BOOLEAN, final : State \cup {None}]

TypeOK ==
  /\ registered \in BOOLEAN /\ pushed \in BOOLEAN /\ polled \in BOOLEAN
  /\ st \in State \cup {None}
  /\ history \in Seq(State) /\ Len(history) <= Limit
  /\ clock \in 0 .. MaxClock
  /\ aged \in 0 .. clock
  /\ run \in [Runs -> Run]
  /\ sweep \in {"idle", "found"}
  /\ deleter \in {"idle", "deleted", "cleared"}
  /\ latest \in 0 .. MaxClock
  /\ apart \in BOOLEAN /\ flapped \in BOOLEAN

(* A source shown as "running" has a collection under way that is still    *)
(* going to write its outcome, whatever refreshes, sweeps and deletions    *)
(* interleave with it: no card is left spinning.                           *)
RunningHasARun ==
  st # None /\ st.status = "running" =>
    \E r \in Runs : run[r].pc \in {"collect", "failed", "commit"}

(* As long as no reading was on its way beside anything else (apart), the  *)
(* cached reading is the last one: neither the frame shown while collecting*)
(* or waiting nor an error or a sweep replaces it ("this frame keeps the   *)
(* last reading", RunSource), in whatever order the connection of a pushed *)
(* source is reported as lost and as back. Overlapping readings do.        *)
ReadingIsTheLatest == apart /\ st # None => st.value = latest

(* With nothing under way the newest sample is the cached state, except    *)
(* that the sweep may have made it stale since, and that a source that     *)
(* waits has left no sample but kept the reading: state and history are    *)
(* written under different locks, one after the other (commit).            *)
HistoryEndsWithTheState ==
  apart /\ ~flapped /\ Quiet /\ st # None /\ Limit > 0 =>
    IF st.status = "waiting"
      THEN history = <<>> \/ history[Len(history)].value = st.value
      ELSE /\ history # <<>>
           /\ LET newest == history[Len(history)] IN
                /\ newest.at = st.at /\ newest.value = st.value
                /\ newest.status = st.status \/ (newest.status = "ok" /\ st.status = "stale")

(* An entry that was deleted has no samples ("clears the samples of a      *)
(* source, called when its entry is deleted", state/history.go) and no     *)
(* cached state, unless a collection overlapped the deletion: it writes    *)
(* both again, and nothing clears them any more.                           *)
DeletedLeavesNothing ==
  apart /\ Quiet /\ ~registered /\ deleter = "idle" => st = None /\ history = <<>>

(* "RefreshSource triggers a refresh of a source at once, asynchronously": *)
(* the collection is not cut short by the end of the request that asked    *)
(* for it.                                                                 *)
RefreshOutlivesItsRequest ==
  \A r \in Runs : run[r].kind = "refresh" /\ At(r, "collect") => ~run[r].done
=============================================================================
