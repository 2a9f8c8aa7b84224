------------------------------ MODULE Scheduler ------------------------------
(***************************************************************************)
(* The polling scheduler of internal/engine/scheduler.go: Start, Sync, the *)
(* loop and tick of one polling goroutine per source, the worker pool they *)
(* share, and Stop; together with the registry handlers that change the    *)
(* registry and then call Sync. A refresh calls RunSource without a loop, a*)
(* slot or a flag: it is a run of module SourceState and nothing here.     *)
(*                                                                         *)
(* A polling goroutine (source_job in the code) is a member of Jobs, taken *)
(* from a finite set and reused once its loop and its collections are      *)
(* gone. What a collection does to the state cache is module SourceState.  *)
(***************************************************************************)
EXTENDS Naturals, FiniteSets

CONSTANTS
  Sources,     (* The IDs of the source entries.                            *)
  Versions,    (* The fingerprints of an enabled, polled configuration.     *)
  Absent,      (* No such entry, or one that is disabled or subscribes.     *)
  Jobs,        (* Names for source_job values.                              *)
  NoJob,       (* "No key in s.jobs".                                       *)
  Main,        (* The goroutine that runs Start and Stop.                   *)
  Handlers,    (* The HTTP handlers that can be active at one time.         *)
  Nobody,      (* s.mu is free.                                             *)
  Workers      (* The capacity of source_workers.                           *)

Callers == Handlers \cup {Main}
Config  == Versions \cup {Absent}

ASSUME SchedulerAssumption ==
  /\ IsFiniteSet(Jobs)
  /\ NoJob \notin Jobs
  /\ Main \notin Handlers
  /\ Nobody \notin Callers
  /\ Absent \notin Versions
  /\ Workers \in Nat \ {0}

VARIABLES
  registry,    (* What ListByKind and Get return for each source.           *)
  dirty,       (* Auxiliary: sources whose change was not saved and so not  *)
               (* followed by a Sync, and that no later Sync has listed.    *)
  phase,       (* How far Main is: boot, starting, serving, shutdown,       *)
               (* stopping, draining, stopped.                              *)
  ctx,         (* s.ctx: none, live or done.                                *)
  mu,          (* The holder of s.mu.                                       *)
  pc,          (* What each caller is doing: idle, accepted, changed, sync. *)
  wanted,      (* The wanted map of the sync_jobs that holds s.mu.          *)
  jobs,        (* s.jobs.                                                   *)
  source,      (* job.entry.ID.                                             *)
  version,     (* job.fingerprint.                                          *)
  cancelled,   (* job.cancel was called.                                    *)
  loop,        (* The loop goroutine: none, tick, claimed, wait.            *)
  running,     (* job.running.                                              *)
  collecting,  (* Goroutines of the job inside RunSource.                   *)
  returning,   (* Goroutines of the job between the two deferred statements.*)
  slots,       (* Tokens in source_workers.                                 *)
  janitor      (* The janitor goroutine: none, on, exited.                  *)

registryVars == <<registry, dirty>>
mainVars     == <<phase, ctx, janitor>>
syncVars     == <<mu, pc, wanted, jobs>>
jobVars      == <<source, version, cancelled>>
loopVars     == <<loop, running, collecting, returning, slots>>
vars == <<registryVars, mainVars, syncVars, jobVars, loopVars>>

-----------------------------------------------------------------------------
Wants(c) == c \in Versions

(* The context of a job is derived from s.ctx.                             *)
JobDone(j) == cancelled[j] \/ ctx = "done"

(* A name no goroutine uses any more.                                      *)
Free(j) == loop[j] = "none" /\ collecting[j] = 0 /\ returning[j] = 0

(* Mutant of UpToDate: any job of the source will do.                      *)
UpToDateByPresence(s) == jobs[s] # NoJob /\ Wants(wanted[s])

(* sync_jobs keeps the job of a source whose entry has the same fingerprint.*)
UpToDate(s) == jobs[s] # NoJob /\ Wants(wanted[s]) /\ version[jobs[s]] = wanted[s]

Init ==
  /\ registry \in [Sources -> Config]
  /\ dirty = {}
  /\ phase = "boot"
  /\ ctx = "none"
  /\ mu = Nobody
  /\ pc = [c \in Callers |-> "idle"]
  /\ wanted = [s \in Sources |-> Absent]
  /\ jobs = [s \in Sources |-> NoJob]
  /\ source \in [Jobs -> Sources]
  /\ version \in [Jobs -> Versions]
  /\ cancelled = [j \in Jobs |-> FALSE]
  /\ loop = [j \in Jobs |-> "none"]
  /\ running = [j \in Jobs |-> FALSE]
  /\ collecting = [j \in Jobs |-> 0]
  /\ returning = [j \in Jobs |-> 0]
  /\ slots = 0
  /\ janitor = "none"

-----------------------------------------------------------------------------
(* Start: the context is created under s.mu, then Main calls Sync.         *)
Start ==
  /\ phase = "boot"
  /\ mu = Nobody
  /\ phase' = "starting"
  /\ ctx' = "live"
  /\ pc' = [pc EXCEPT ![Main] = "changed"]
  /\ UNCHANGED <<registryVars, janitor, mu, wanted, jobs, jobVars, loopVars>>

(* Start returns: the janitor runs, and main goes on to serve HTTP.        *)
StartReturns ==
  /\ phase = "starting"
  /\ pc[Main] = "idle"
  /\ phase' = "serving"
  /\ janitor' = "on"
  /\ UNCHANGED <<registryVars, ctx, syncVars, jobVars, loopVars>>

(* SIGINT or SIGTERM ends the parent context; the server goes on for now.  *)
Signal ==
  /\ phase = "serving"
  /\ ctx = "live"
  /\ ctx' = "done"
  /\ UNCHANGED <<registryVars, phase, janitor, syncVars, jobVars, loopVars>>

(* http.Server.Shutdown, or a failed Serve: nothing new is accepted. It    *)
(* returns when the handlers are done or its five seconds are over.        *)
Shutdown ==
  /\ phase = "serving"
  /\ phase' = "shutdown"
  /\ UNCHANGED <<registryVars, ctx, janitor, syncVars, jobVars, loopVars>>

(* Stop takes the job map under s.mu and leaves an empty one.              *)
StopTakesJobs ==
  /\ phase = "shutdown"
  /\ mu = Nobody
  /\ phase' = "stopping"
  /\ jobs' = [s \in Sources |-> NoJob]
  /\ UNCHANGED <<registryVars, ctx, janitor, mu, pc, wanted, jobVars, loopVars>>

(* Mutant of StopCancels: Stop waits without having cancelled anything.    *)
StopForgetsToCancel ==
  /\ phase = "stopping"
  /\ phase' = "draining"
  /\ UNCHANGED <<registryVars, ctx, janitor, syncVars, jobVars, loopVars>>

(* Stop cancels s.ctx, which ends the context of every job; cancelling the *)
(* taken jobs one by one after that changes nothing.                       *)
StopCancels ==
  /\ phase = "stopping"
  /\ phase' = "draining"
  /\ ctx' = "done"
  /\ UNCHANGED <<registryVars, janitor, syncVars, jobVars, loopVars>>

(* wg.Wait returns: the counter is zero, so Stop returns.                  *)
StopReturns ==
  /\ phase = "draining"
  /\ janitor = "exited"
  /\ \A j \in Jobs : loop[j] = "none"
  /\ phase' = "stopped"
  /\ UNCHANGED <<registryVars, ctx, janitor, syncVars, jobVars, loopVars>>

JanitorExits ==
  /\ janitor = "on"
  /\ ctx = "done"
  /\ janitor' = "exited"
  /\ UNCHANGED <<registryVars, phase, ctx, syncVars, jobVars, loopVars>>

-----------------------------------------------------------------------------
(* A PUT or DELETE request reaches its handler.                            *)
Accept(h) ==
  /\ phase = "serving"
  /\ pc[h] = "idle"
  /\ pc' = [pc EXCEPT ![h] = "accepted"]
  /\ UNCHANGED <<registryVars, mainVars, mu, wanted, jobs, jobVars, loopVars>>

(* The handler refuses the request: bad JSON, Validate, a changed kind, or *)
(* a DELETE of an unknown ID.                                              *)
Refuse(h) ==
  /\ pc[h] = "accepted"
  /\ pc' = [pc EXCEPT ![h] = "idle"]
  /\ UNCHANGED <<registryVars, mainVars, mu, wanted, jobs, jobVars, loopVars>>

(* Mutant of Change: the handler answers without calling Sync.             *)
ChangeWithoutSync(h, s, c) ==
  /\ pc[h] = "accepted"
  /\ registry' = [registry EXCEPT ![s] = c]
  /\ pc' = [pc EXCEPT ![h] = "idle"]
  /\ UNCHANGED <<dirty, mainVars, mu, wanted, jobs, jobVars, loopVars>>

(* store.Put or store.Delete changes the memory and saves it.              *)
Change(h, s, c) ==
  /\ pc[h] = "accepted"
  /\ registry' = [registry EXCEPT ![s] = c]
  /\ pc' = [pc EXCEPT ![h] = "changed"]
  /\ UNCHANGED <<dirty, mainVars, mu, wanted, jobs, jobVars, loopVars>>

(* The memory is changed but Save fails: the handler answers 500 and never *)
(* reaches after_registry_change.                                          *)
ChangeNotSaved(h, s, c) ==
  /\ pc[h] = "accepted"
  /\ registry' = [registry EXCEPT ![s] = c]
  /\ dirty' = dirty \cup {s}
  /\ pc' = [pc EXCEPT ![h] = "idle"]
  /\ UNCHANGED <<mainVars, mu, wanted, jobs, jobVars, loopVars>>

-----------------------------------------------------------------------------
(* sync_jobs: under s.mu it lists the registry, then cancels and starts    *)
(* jobs one at a time; handlers and loops go on meanwhile.                 *)
SyncLists(c) ==
  /\ pc[c] = "changed"
  /\ mu = Nobody
  /\ mu' = c
  /\ pc' = [pc EXCEPT ![c] = "sync"]
  /\ wanted' = registry
  /\ dirty' = {}
  /\ UNCHANGED <<registry, mainVars, jobs, jobVars, loopVars>>

(* Mutant of SyncCancels: the key is deleted, the job is not cancelled.    *)
SyncForgetsToCancel(c, s) ==
  /\ pc[c] = "sync"
  /\ jobs[s] # NoJob
  /\ ~UpToDate(s)
  /\ jobs' = [jobs EXCEPT ![s] = NoJob]
  /\ UNCHANGED <<registryVars, mainVars, mu, pc, wanted, jobVars, loopVars>>

SyncCancels(c, s) ==
  /\ pc[c] = "sync"
  /\ jobs[s] # NoJob
  /\ ~UpToDate(s)
  /\ cancelled' = [cancelled EXCEPT ![jobs[s]] = TRUE]
  /\ jobs' = [jobs EXCEPT ![s] = NoJob]
  /\ UNCHANGED <<registryVars, mainVars, mu, pc, wanted, source, version, loopVars>>

SyncStarts(c, s, j) ==
  /\ pc[c] = "sync"
  /\ Wants(wanted[s])
  /\ jobs[s] = NoJob
  /\ \A t \in Sources : jobs[t] = NoJob \/ UpToDate(t)
  /\ Free(j)
  /\ \A t \in Sources : jobs[t] # j
  /\ jobs' = [jobs EXCEPT ![s] = j]
  /\ source' = [source EXCEPT ![j] = s]
  /\ version' = [version EXCEPT ![j] = wanted[s]]
  /\ cancelled' = [cancelled EXCEPT ![j] = FALSE]
  /\ loop' = [loop EXCEPT ![j] = "tick"]
  /\ running' = [running EXCEPT ![j] = FALSE]
  /\ UNCHANGED <<registryVars, mainVars, mu, pc, wanted, collecting, returning, slots>>

SyncReturns(c) ==
  /\ pc[c] = "sync"
  /\ \A s \in Sources : IF Wants(wanted[s]) THEN UpToDate(s) ELSE jobs[s] = NoJob
  /\ mu' = Nobody
  /\ pc' = [pc EXCEPT ![c] = "idle"]
  /\ UNCHANGED <<registryVars, mainVars, wanted, jobs, jobVars, loopVars>>

-----------------------------------------------------------------------------
(* tick: running.CompareAndSwap(false, true), or give up.                  *)
TickClaims(j) ==
  /\ loop[j] = "tick"
  /\ ~running[j]
  /\ running' = [running EXCEPT ![j] = TRUE]
  /\ loop' = [loop EXCEPT ![j] = "claimed"]
  /\ UNCHANGED <<registryVars, mainVars, syncVars, jobVars, collecting, returning, slots>>

TickSkips(j) ==
  /\ loop[j] = "tick"
  /\ running[j]
  /\ loop' = [loop EXCEPT ![j] = "wait"]
  /\ UNCHANGED <<registryVars, mainVars, syncVars, jobVars, running, collecting, returning, slots>>

(* Mutant of TickCollects: the slot is counted but not waited for.         *)
TickCollectsAnyway(j) ==
  /\ loop[j] = "claimed"
  /\ slots' = slots + 1
  /\ collecting' = [collecting EXCEPT ![j] = @ + 1]
  /\ loop' = [loop EXCEPT ![j] = "wait"]
  /\ UNCHANGED <<registryVars, mainVars, syncVars, jobVars, running, returning>>

(* The non-blocking send on source_workers: a free slot starts RunSource.  *)
TickCollects(j) ==
  /\ loop[j] = "claimed"
  /\ slots < Workers
  /\ slots' = slots + 1
  /\ collecting' = [collecting EXCEPT ![j] = @ + 1]
  /\ loop' = [loop EXCEPT ![j] = "wait"]
  /\ UNCHANGED <<registryVars, mainVars, syncVars, jobVars, running, returning>>

TickFindsPoolFull(j) ==
  /\ loop[j] = "claimed"
  /\ slots = Workers
  /\ running' = [running EXCEPT ![j] = FALSE]
  /\ loop' = [loop EXCEPT ![j] = "wait"]
  /\ UNCHANGED <<registryVars, mainVars, syncVars, jobVars, collecting, returning, slots>>

(* The select of loop: the ticker may win even when the context is done.   *)
LoopTicks(j) ==
  /\ loop[j] = "wait"
  /\ loop' = [loop EXCEPT ![j] = "tick"]
  /\ UNCHANGED <<registryVars, mainVars, syncVars, jobVars, running, collecting, returning, slots>>

LoopExits(j) ==
  /\ loop[j] = "wait"
  /\ JobDone(j)
  /\ loop' = [loop EXCEPT ![j] = "none"]
  /\ UNCHANGED <<registryVars, mainVars, syncVars, jobVars, running, collecting, returning, slots>>

(* RunSource returned; the deferred function frees the slot first ...      *)
CollectReturns(j) ==
  /\ collecting[j] > 0
  /\ collecting' = [collecting EXCEPT ![j] = @ - 1]
  /\ returning' = [returning EXCEPT ![j] = @ + 1]
  /\ slots' = slots - 1
  /\ UNCHANGED <<registryVars, mainVars, syncVars, jobVars, loop, running>>

(* Mutant of CollectClears: the running flag is never cleared.             *)
CollectKeepsTheFlag(j) ==
  /\ returning[j] > 0
  /\ returning' = [returning EXCEPT ![j] = @ - 1]
  /\ UNCHANGED <<registryVars, mainVars, syncVars, jobVars, loop, running, collecting, slots>>

(* ... and the running flag after it.                                      *)
CollectClears(j) ==
  /\ returning[j] > 0
  /\ returning' = [returning EXCEPT ![j] = @ - 1]
  /\ running' = [running EXCEPT ![j] = FALSE]
  /\ UNCHANGED <<registryVars, mainVars, syncVars, jobVars, loop, collecting, slots>>

-----------------------------------------------------------------------------
MainStep ==
  Start \/ StartReturns \/ Signal \/ Shutdown \/ StopTakesJobs \/ StopCancels \/ StopReturns

Handle(h) ==
  \/ Accept(h)
  \/ Refuse(h)
  \/ \E s \in Sources, c \in Config : Change(h, s, c) \/ ChangeNotSaved(h, s, c)

Sync(c) ==
  \/ SyncLists(c)
  \/ \E s \in Sources : SyncCancels(c, s) \/ \E j \in Jobs : SyncStarts(c, s, j)
  \/ SyncReturns(c)

Tick(j) == TickClaims(j) \/ TickSkips(j) \/ TickCollects(j) \/ TickFindsPoolFull(j)

Next ==
  \/ MainStep
  \/ JanitorExits
  \/ \E h \in Handlers : Handle(h)
  \/ \E c \in Callers : Sync(c)
  \/ \E j \in Jobs : Tick(j) \/ LoopTicks(j) \/ LoopExits(j) \/ CollectReturns(j) \/ CollectClears(j)

Spec == Init /\ [][Next]_vars

(* Goroutines that can run do run; every collection ends, because every    *)
(* transport has a timeout. Requests and signals are not fair.             *)
(* LoopExits needs strong fairness: the select picks at random among the   *)
(* ready cases, and the ticker is not ready at every turn.                 *)
Fairness ==
  /\ WF_vars(Start \/ StartReturns \/ StopTakesJobs \/ StopCancels \/ StopReturns)
  /\ WF_vars(JanitorExits)
  /\ \A c \in Callers : SF_vars(Sync(c))
  /\ \A j \in Jobs :
       /\ WF_vars(Tick(j) \/ LoopTicks(j))
       /\ SF_vars(LoopExits(j))
       /\ WF_vars(CollectReturns(j) \/ CollectClears(j))

FairSpec == Spec /\ Fairness

-----------------------------------------------------------------------------
TypeOK ==
  /\ registry \in [Sources -> Config]
  /\ dirty \subseteq Sources
  /\ phase \in {"boot", "starting", "serving", "shutdown", "stopping", "draining", "stopped"}
  /\ ctx \in {"none", "live", "done"}
  /\ mu \in Callers \cup {Nobody}
  /\ pc \in [Callers -> {"idle", "accepted", "changed", "sync"}]
  /\ wanted \in [Sources -> Config]
  /\ jobs \in [Sources -> Jobs \cup {NoJob}]
  /\ source \in [Jobs -> Sources]
  /\ version \in [Jobs -> Versions]
  /\ cancelled \in [Jobs -> BOOLEAN]
  /\ loop \in [Jobs -> {"none", "tick", "claimed", "wait"}]
  /\ running \in [Jobs -> BOOLEAN]
  /\ collecting \in [Jobs -> Nat]
  /\ returning \in [Jobs -> Nat]
  /\ slots \in Nat
  /\ janitor \in {"none", "on", "exited"}

Collecting == {j \in Jobs : collecting[j] > 0}

(* One polling goroutine never has two collections under way, although the *)
(* slot comes back before the flag is cleared and the ticker may fire at   *)
(* any of these moments (tick, scheduler.go).                              *)
OneCollectionPerJob == \A j \in Jobs : collecting[j] + returning[j] <= 1

(* A set running flag has an owner that is going to clear it: the tick that*)
(* claimed it, or the collection it started. A flag left behind would      *)
(* silence the source for as long as its configuration stays the same.     *)
RunningFlagHasAnOwner ==
  \A j \in Jobs : running[j] => loop[j] = "claimed" \/ collecting[j] + returning[j] > 0

(* Whatever the ticks do, the collections the loops start fit the worker   *)
(* pool, and each of them holds exactly one of its slots: no slot is lost  *)
(* when a tick gives up, and none is given back twice.                     *)
PoolBoundsPolling == slots = Cardinality(Collecting) /\ slots <= Workers

(* So much of the limits of the pool holds in spite of the two steps of the*)
(* deferred function (tick): each loop takes at most one slot, and the     *)
(* slots taken are the collections under way.                              *)
CollectionsFitThePool == OneCollectionPerJob /\ PoolBoundsPolling

(* A loop nobody will ever cancel is still in the job map, as the job of   *)
(* its source: Sync and Stop can reach every polling goroutine. Stop alone *)
(* takes the map away for the moment before it cancels them all.           *)
NoLoopIsLost ==
  \A j \in Jobs : loop[j] # "none" /\ ~JobDone(j) =>
    phase = "stopping" \/ jobs[source[j]] = j

(* A new configuration does not wait for the collection of the old one, so *)
(* two collections of a source may overlap. But all of them except one     *)
(* belong to jobs whose context has ended: a source is never polled by two *)
(* live jobs, which would double its rate and never stop doing so.         *)
OnlySupersededOverlaps ==
  \A i, j \in Jobs :
    /\ i # j
    /\ source[i] = source[j]
    /\ collecting[i] + returning[i] > 0
    /\ collecting[j] + returning[j] > 0
    /\ phase # "stopping"
    => JobDone(i) \/ JobDone(j)

Polled(s) ==
  /\ jobs[s] # NoJob
  /\ source[jobs[s]] = s
  /\ version[jobs[s]] = registry[s]
  /\ ctx = "live" => loop[jobs[s]] # "none" /\ ~cancelled[jobs[s]]

(* Between requests the polling goroutines are those the registry asks for,*)
(* with its latest configuration, however the Syncs of concurrent handlers *)
(* interleaved: each lists the registry under the lock it applies it with. *)
(* A change that could not be saved is not followed by a Sync (dirty).     *)
RegistryConverged ==
  phase \in {"serving", "shutdown"} /\ (\A c \in Callers : pc[c] \notin {"changed", "sync"}) =>
    \A s \in Sources \ dirty : IF Wants(registry[s]) THEN Polled(s) ELSE jobs[s] = NoJob

(* A source that is deleted, disabled or turned into a subscription and is *)
(* left alone after that is polled no more once the Syncs are through.     *)
RemovedSourceFallsSilent ==
  \A s \in Sources :
    <>[](~Wants(registry[s]) /\ s \notin dirty) =>
      <>[](\A j \in Jobs : source[j] = s => Free(j))

(* Stop returns: it waits for loops that all see their context end, even   *)
(* when a late handler starts a few more of them meanwhile.                *)
StopCompletes == phase = "stopping" ~> phase = "stopped"

(* With a slot for every job no source is forgotten: one that stays enabled*)
(* is collected again and again until the service is told to stop. A flag  *)
(* left set after a collection or a skipped tick would end that.           *)
PollingGoesOn ==
  \A s \in Sources, v \in Versions :
    <>[](registry[s] = v /\ s \notin dirty /\ phase = "serving" /\ ctx = "live") =>
      []<>(\E j \in Jobs : source[j] = s /\ version[j] = v /\ collecting[j] > 0)
=============================================================================
