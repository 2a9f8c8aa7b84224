--------------------------- MODULE SchedulerProofs ---------------------------
(***************************************************************************)
(* Theorems about Scheduler, for every number of sources, versions, jobs,  *)
(* handlers and workers.                                                   *)
(***************************************************************************)
EXTENDS Scheduler, FiniteSetTheorems, TLAPS

(* Where the flag of a job stands: set exactly while the tick that claimed *)
(* it decides, or while the collection it started is in flight; never both.*)
FlagInv ==
  \A j \in Jobs :
    /\ collecting[j] + returning[j] <= 1
    /\ running[j] <=> (loop[j] = "claimed" \/ collecting[j] + returning[j] > 0)
    /\ loop[j] = "claimed" => collecting[j] + returning[j] = 0

(* The inductive invariant of the ticks and collections.                   *)
PoolInv == TypeOK /\ FlagInv /\ PoolBoundsPolling

(* s.mu is held by the caller that is inside sync_jobs.                    *)
MutexInv == \A c \in Callers : pc[c] = "sync" <=> mu = c

(* A job in the map belongs to its source, is not cancelled, and its loop  *)
(* runs unless the scheduler was told to stop; one that runs is in the map.*)
JobMapInv ==
  /\ phase = "boot" => ctx = "none"
  /\ \A s \in Sources : jobs[s] # NoJob =>
       /\ source[jobs[s]] = s
       /\ ~cancelled[jobs[s]]
       /\ loop[jobs[s]] # "none" \/ ctx = "done"
  /\ NoLoopIsLost

Matches(s) ==
  IF Wants(registry[s]) THEN jobs[s] # NoJob /\ version[jobs[s]] = registry[s]
  ELSE jobs[s] = NoJob

(* When no change waits for its Sync, the one under way has listed the     *)
(* registry as it is now, and when there is none the jobs match it.        *)
ConvergeInv ==
  phase \in {"starting", "serving", "shutdown"} /\ (\A c \in Callers : pc[c] # "changed") =>
    \A s \in Sources \ dirty :
      IF mu = Nobody THEN Matches(s) ELSE wanted[s] = registry[s]

(* The inductive invariant of Sync, Start and Stop.                        *)
SyncInv == TypeOK /\ MutexInv /\ JobMapInv /\ ConvergeInv

-----------------------------------------------------------------------------
LEMMA CollectingFinite == IsFiniteSet(Collecting) /\ Cardinality(Collecting) \in Nat
  BY SchedulerAssumption, FS_Subset, FS_CardinalityType DEF Collecting

(* A slot is taken while somebody collects.                                *)
LEMMA CollectingTakesASlot ==
  ASSUME PoolBoundsPolling, NEW j \in Jobs, collecting[j] > 0
  PROVE  slots > 0
  BY CollectingFinite, FS_EmptySet DEF PoolBoundsPolling, Collecting

(* The initial states satisfy the invariant.                               *)
LEMMA PoolInit == Init => PoolInv
<1> SUFFICES ASSUME Init PROVE PoolInv
  OBVIOUS
<1>1. TypeOK
  BY SchedulerAssumption DEF Init, TypeOK, Config, Callers
<1>2. FlagInv
  BY DEF Init, FlagInv
<1>3. PoolBoundsPolling
  <2>1. Collecting = {}
    BY DEF Init, Collecting
  <2> QED
    BY <2>1, FS_EmptySet, SchedulerAssumption DEF Init, PoolBoundsPolling
<1> QED
  BY <1>1, <1>2, <1>3 DEF PoolInv

-----------------------------------------------------------------------------
(* Type correctness is preserved; that slots stays a natural number needs  *)
(* the rest of the invariant.                                              *)
LEMMA TypePreserved == PoolInv /\ [Next]_vars => TypeOK'
<1> SUFFICES ASSUME PoolInv, [Next]_vars PROVE TypeOK'
  OBVIOUS
<1> USE DEF PoolInv, TypeOK, registryVars, mainVars, syncVars, jobVars, loopVars
<1>1. CASE UNCHANGED vars
  BY <1>1 DEF vars
<1>2. CASE Start
  BY <1>2 DEF Start, Callers
<1>3. CASE StartReturns
  BY <1>3 DEF StartReturns
<1>4. CASE Signal
  BY <1>4 DEF Signal
<1>5. CASE Shutdown
  BY <1>5 DEF Shutdown
<1>6. CASE StopTakesJobs
  BY <1>6 DEF StopTakesJobs
<1>7. CASE StopCancels
  BY <1>7 DEF StopCancels
<1>8. CASE StopReturns
  BY <1>8 DEF StopReturns
<1>9. CASE JanitorExits
  BY <1>9 DEF JanitorExits
<1>10. ASSUME NEW h \in Handlers, Accept(h) PROVE TypeOK'
  BY <1>10 DEF Accept, Callers
<1>11. ASSUME NEW h \in Handlers, Refuse(h) PROVE TypeOK'
  BY <1>11 DEF Refuse, Callers
<1>12. ASSUME NEW h \in Handlers, NEW s \in Sources, NEW c \in Config, Change(h, s, c)
       PROVE  TypeOK'
  BY <1>12 DEF Change, Callers
<1>13. ASSUME NEW h \in Handlers, NEW s \in Sources, NEW c \in Config, ChangeNotSaved(h, s, c)
       PROVE  TypeOK'
  BY <1>13 DEF ChangeNotSaved, Callers
<1>14. ASSUME NEW c \in Callers, SyncLists(c) PROVE TypeOK'
  BY <1>14 DEF SyncLists
<1>15. ASSUME NEW c \in Callers, NEW s \in Sources, SyncCancels(c, s) PROVE TypeOK'
  BY <1>15 DEF SyncCancels
<1>16. ASSUME NEW c \in Callers, NEW s \in Sources, NEW j \in Jobs, SyncStarts(c, s, j)
       PROVE  TypeOK'
  BY <1>16 DEF SyncStarts, Wants
<1>17. ASSUME NEW c \in Callers, SyncReturns(c) PROVE TypeOK'
  BY <1>17 DEF SyncReturns
<1>18. ASSUME NEW j \in Jobs, Tick(j) PROVE TypeOK'
  <2>1. CASE TickClaims(j)
    BY <2>1 DEF TickClaims
  <2>2. CASE TickSkips(j)
    BY <2>2 DEF TickSkips
  <2>3. CASE TickCollects(j)
    BY <2>3 DEF TickCollects
  <2>4. CASE TickFindsPoolFull(j)
    BY <2>4 DEF TickFindsPoolFull
  <2> QED
    BY <1>18, <2>1, <2>2, <2>3, <2>4 DEF Tick
<1>19. ASSUME NEW j \in Jobs, LoopTicks(j) \/ LoopExits(j) PROVE TypeOK'
  BY <1>19 DEF LoopTicks, LoopExits
<1>20. ASSUME NEW j \in Jobs, CollectReturns(j) PROVE TypeOK'
  BY <1>20, CollectingTakesASlot DEF CollectReturns
<1>21. ASSUME NEW j \in Jobs, CollectClears(j) PROVE TypeOK'
  BY <1>21 DEF CollectClears
<1> QED
  BY <1>1, <1>2, <1>3, <1>4, <1>5, <1>6, <1>7, <1>8, <1>9, <1>10, <1>11, <1>12, <1>13,
     <1>14, <1>15, <1>16, <1>17, <1>18, <1>19, <1>20, <1>21
     DEF Next, MainStep, Handle, Sync

-----------------------------------------------------------------------------
(* Only these steps touch the flags, the collections and the slots.        *)
LEMMA FlagPreserved == PoolInv /\ [Next]_vars => FlagInv'
<1> SUFFICES ASSUME PoolInv, [Next]_vars PROVE FlagInv'
  OBVIOUS
<1> USE DEF PoolInv, TypeOK, FlagInv
<1>1. ASSUME UNCHANGED <<loop, running, collecting, returning>> PROVE FlagInv'
  BY <1>1
<1>2. ASSUME NEW c \in Callers, NEW s \in Sources, NEW j \in Jobs, SyncStarts(c, s, j)
      PROVE  FlagInv'
  BY <1>2 DEF SyncStarts, Free
<1>3. ASSUME NEW j \in Jobs, TickClaims(j) PROVE FlagInv'
  <2>1. ASSUME NEW i \in Jobs, i # j
        PROVE  UNCHANGED <<loop[i], running[i], collecting[i], returning[i]>>
    BY <1>3, <2>1 DEF TickClaims
  <2>2. /\ collecting'[j] + returning'[j] = 0
        /\ running'[j] /\ loop'[j] = "claimed"
    BY <1>3 DEF TickClaims
  <2> QED
    BY <2>1, <2>2
<1>4. ASSUME NEW j \in Jobs, TickSkips(j) PROVE FlagInv'
  BY <1>4 DEF TickSkips
<1>5. ASSUME NEW j \in Jobs, TickCollects(j) PROVE FlagInv'
  BY <1>5 DEF TickCollects
<1>6. ASSUME NEW j \in Jobs, TickFindsPoolFull(j) PROVE FlagInv'
  BY <1>6 DEF TickFindsPoolFull
<1>7. ASSUME NEW j \in Jobs, LoopTicks(j) PROVE FlagInv'
  BY <1>7 DEF LoopTicks
<1>8. ASSUME NEW j \in Jobs, LoopExits(j) PROVE FlagInv'
  BY <1>8 DEF LoopExits
<1>9. ASSUME NEW j \in Jobs, CollectReturns(j) PROVE FlagInv'
  BY <1>9 DEF CollectReturns
<1>10. ASSUME NEW j \in Jobs, CollectClears(j) PROVE FlagInv'
  BY <1>10 DEF CollectClears
<1>11. ASSUME UNCHANGED loopVars PROVE FlagInv'
  BY <1>1, <1>11 DEF loopVars
<1>12. CASE UNCHANGED vars
  BY <1>11, <1>12 DEF vars
<1>13. ASSUME MainStep \/ JanitorExits PROVE UNCHANGED loopVars
  BY <1>13 DEF MainStep, JanitorExits, Start, StartReturns, Signal, Shutdown, StopTakesJobs,
     StopCancels, StopReturns
<1>14. ASSUME NEW h \in Handlers, Handle(h) PROVE UNCHANGED loopVars
  BY <1>14 DEF Handle, Accept, Refuse, Change, ChangeNotSaved
<1>15. ASSUME NEW c \in Callers, SyncLists(c) \/ SyncReturns(c) PROVE UNCHANGED loopVars
  BY <1>15 DEF SyncLists, SyncReturns
<1>16. ASSUME NEW c \in Callers, NEW s \in Sources, SyncCancels(c, s) PROVE UNCHANGED loopVars
  BY <1>16 DEF SyncCancels
<1> QED
  BY <1>2, <1>3, <1>4, <1>5, <1>6, <1>7, <1>8, <1>9, <1>10, <1>11, <1>12, <1>13, <1>14, <1>15,
     <1>16 DEF Next, Sync, Tick

-----------------------------------------------------------------------------
(* A slot is taken with the collection it is for and given back with it.   *)
LEMMA PoolPreserved == PoolInv /\ [Next]_vars => PoolBoundsPolling'
<1> SUFFICES ASSUME PoolInv, [Next]_vars PROVE PoolBoundsPolling'
  OBVIOUS
<1> USE DEF PoolInv
<1>1. ASSUME UNCHANGED <<collecting, slots>> PROVE PoolBoundsPolling'
  BY <1>1 DEF PoolBoundsPolling, Collecting
<1>2. ASSUME NEW j \in Jobs, TickCollects(j) PROVE PoolBoundsPolling'
  <2>1. j \notin Collecting /\ Collecting' = Collecting \cup {j}
    BY <1>2 DEF TickCollects, Collecting, FlagInv, TypeOK
  <2>2. Cardinality(Collecting') = Cardinality(Collecting) + 1
    BY <2>1, CollectingFinite, FS_AddElement
  <2> QED
    BY <1>2, <2>2, CollectingFinite, SchedulerAssumption DEF TickCollects, PoolBoundsPolling
<1>3. ASSUME NEW j \in Jobs, CollectReturns(j) PROVE PoolBoundsPolling'
  <2>1. j \in Collecting /\ Collecting' = Collecting \ {j}
    BY <1>3 DEF CollectReturns, Collecting, FlagInv, TypeOK
  <2>2. Cardinality(Collecting') = Cardinality(Collecting) - 1
    BY <2>1, CollectingFinite, FS_RemoveElement
  <2> QED
    BY <1>3, <2>2, CollectingFinite, SchedulerAssumption DEF CollectReturns, PoolBoundsPolling
<1>4. CASE UNCHANGED vars
  BY <1>1, <1>4 DEF vars, loopVars
<1>5. ASSUME MainStep \/ JanitorExits PROVE UNCHANGED <<collecting, slots>>
  BY <1>5 DEF MainStep, JanitorExits, Start, StartReturns, Signal, Shutdown, StopTakesJobs,
     StopCancels, StopReturns, loopVars
<1>6. ASSUME NEW h \in Handlers, Handle(h) PROVE UNCHANGED <<collecting, slots>>
  BY <1>6 DEF Handle, Accept, Refuse, Change, ChangeNotSaved, loopVars
<1>7. ASSUME NEW c \in Callers, Sync(c) PROVE UNCHANGED <<collecting, slots>>
  BY <1>7 DEF Sync, SyncLists, SyncCancels, SyncStarts, SyncReturns, loopVars
<1>8. ASSUME NEW j \in Jobs,
             TickClaims(j) \/ TickSkips(j) \/ TickFindsPoolFull(j) \/ LoopTicks(j)
               \/ LoopExits(j) \/ CollectClears(j)
      PROVE  UNCHANGED <<collecting, slots>>
  BY <1>8 DEF TickClaims, TickSkips, TickFindsPoolFull, LoopTicks, LoopExits, CollectClears
<1> QED
  BY <1>1, <1>2, <1>3, <1>4, <1>5, <1>6, <1>7, <1>8 DEF Next, Tick

(* The invariant of the ticks and collections holds throughout.            *)
THEOREM PoolInvariant == Spec => []PoolInv
<1>1. PoolInv /\ [Next]_vars => PoolInv'
  BY TypePreserved, FlagPreserved, PoolPreserved DEF PoolInv
<1> QED
  BY PoolInit, <1>1, PTL DEF Spec

(* The variables of the scheduler always have their types; in particular   *)
(* no slot of source_workers is given back that was not taken.             *)
THEOREM TypeCorrect == Spec => []TypeOK
  BY PoolInvariant, PTL DEF PoolInv

(* A polling goroutine never has two collections under way, and those of   *)
(* all of them fit the worker pool, slot for slot (tick).                  *)
THEOREM PollingIsBounded == Spec => []CollectionsFitThePool
<1>1. PoolInv => CollectionsFitThePool
  BY DEF PoolInv, FlagInv, OneCollectionPerJob, CollectionsFitThePool
<1> QED
  BY <1>1, PoolInvariant, PTL

(* No source is silenced by a running flag that nobody will clear (tick).  *)
THEOREM FlagsAreCleared == Spec => []RunningFlagHasAnOwner
<1>1. PoolInv => RunningFlagHasAnOwner
  BY DEF PoolInv, FlagInv, RunningFlagHasAnOwner
<1> QED
  BY <1>1, PoolInvariant, PTL

-----------------------------------------------------------------------------
LEMMA SyncInit == Init => SyncInv
<1> SUFFICES ASSUME Init PROVE SyncInv
  OBVIOUS
<1>1. TypeOK
  BY PoolInit DEF PoolInv
<1>2. MutexInv
  BY SchedulerAssumption DEF Init, MutexInv
<1>3. JobMapInv
  BY DEF Init, JobMapInv, NoLoopIsLost
<1>4. ConvergeInv
  BY DEF Init, ConvergeInv
<1> QED
  BY <1>1, <1>2, <1>3, <1>4 DEF SyncInv

(* The lock is passed on correctly: Start and Stop need it to be free.     *)
LEMMA MutexPreserved == SyncInv /\ [Next]_vars => MutexInv'
<1> SUFFICES ASSUME SyncInv, [Next]_vars PROVE MutexInv'
  OBVIOUS
<1> USE SchedulerAssumption DEF SyncInv, TypeOK, MutexInv
<1>1. ASSUME UNCHANGED <<pc, mu>> PROVE MutexInv'
  BY <1>1
<1>2. CASE Start
  BY <1>2 DEF Start, Callers
<1>3. ASSUME NEW h \in Handlers, Handle(h) PROVE MutexInv'
  BY <1>3 DEF Handle, Accept, Refuse, Change, ChangeNotSaved, Callers
<1>4. ASSUME NEW c \in Callers, SyncLists(c) PROVE MutexInv'
  BY <1>4 DEF SyncLists
<1>5. ASSUME NEW c \in Callers, SyncReturns(c) PROVE MutexInv'
  BY <1>5 DEF SyncReturns
<1>6. ASSUME StartReturns \/ Signal \/ Shutdown \/ StopTakesJobs \/ StopCancels \/ StopReturns
               \/ JanitorExits
      PROVE  UNCHANGED <<pc, mu>>
  BY <1>6 DEF StartReturns, Signal, Shutdown, StopTakesJobs, StopCancels, StopReturns,
     JanitorExits, syncVars
<1>7. ASSUME NEW c \in Callers, NEW s \in Sources, NEW j \in Jobs, SyncStarts(c, s, j)
      PROVE  UNCHANGED <<pc, mu>>
  BY <1>7 DEF SyncStarts
<1>8. ASSUME NEW c \in Callers, NEW s \in Sources, SyncCancels(c, s) PROVE UNCHANGED <<pc, mu>>
  BY <1>8 DEF SyncCancels
<1>9. ASSUME NEW j \in Jobs,
             Tick(j) \/ LoopTicks(j) \/ LoopExits(j) \/ CollectReturns(j) \/ CollectClears(j)
      PROVE  UNCHANGED <<pc, mu>>
  BY <1>9 DEF Tick, TickClaims, TickSkips, TickCollects, TickFindsPoolFull, LoopTicks, LoopExits,
     CollectReturns, CollectClears, syncVars
<1>10. CASE UNCHANGED vars
  BY <1>1, <1>10 DEF vars, syncVars
<1> QED
  BY <1>1, <1>2, <1>3, <1>4, <1>5, <1>6, <1>7, <1>8, <1>9, <1>10 DEF Next, MainStep, Sync

-----------------------------------------------------------------------------
(* Cancelling, starting and stopping keep every loop within reach.         *)
LEMMA JobMapPreserved == SyncInv /\ [Next]_vars => JobMapInv'
<1> SUFFICES ASSUME SyncInv, [Next]_vars PROVE JobMapInv'
  OBVIOUS
<1> USE SchedulerAssumption DEF SyncInv, TypeOK, JobMapInv, NoLoopIsLost, JobDone
<1>1. ASSUME UNCHANGED <<phase, ctx, jobs, source, cancelled, loop>> PROVE JobMapInv'
  BY <1>1
<1>2. CASE Start
  BY <1>2 DEF Start, jobVars, loopVars
<1>3. CASE StartReturns
  BY <1>3 DEF StartReturns, syncVars, jobVars, loopVars
<1>4. CASE Signal
  BY <1>4 DEF Signal, syncVars, jobVars, loopVars
<1>5. CASE Shutdown
  BY <1>5 DEF Shutdown, syncVars, jobVars, loopVars
<1>6. CASE StopTakesJobs
  BY <1>6 DEF StopTakesJobs, jobVars, loopVars
<1>7. CASE StopCancels
  BY <1>7 DEF StopCancels, syncVars, jobVars, loopVars
<1>8. CASE StopReturns
  BY <1>8 DEF StopReturns, syncVars, jobVars, loopVars
<1>9. ASSUME NEW c \in Callers, NEW s \in Sources, SyncCancels(c, s) PROVE JobMapInv'
  BY <1>9 DEF SyncCancels, mainVars, loopVars
<1>10. ASSUME NEW c \in Callers, NEW s \in Sources, NEW j \in Jobs, SyncStarts(c, s, j)
       PROVE  JobMapInv'
  BY <1>10 DEF SyncStarts, Free, mainVars
<1>11. ASSUME NEW j \in Jobs, loop[j] # "none", loop' = [loop EXCEPT ![j] = loop'[j]],
              loop'[j] # "none", UNCHANGED <<phase, ctx, jobs, source, cancelled>>
       PROVE  JobMapInv'
  BY <1>11
<1>12. ASSUME NEW j \in Jobs, TickClaims(j) PROVE JobMapInv'
  BY <1>11, <1>12 DEF TickClaims, mainVars, syncVars, jobVars
<1>13. ASSUME NEW j \in Jobs, TickSkips(j) PROVE JobMapInv'
  BY <1>11, <1>13 DEF TickSkips, mainVars, syncVars, jobVars
<1>14. ASSUME NEW j \in Jobs, TickCollects(j) PROVE JobMapInv'
  BY <1>11, <1>14 DEF TickCollects, mainVars, syncVars, jobVars
<1>15. ASSUME NEW j \in Jobs, TickFindsPoolFull(j) PROVE JobMapInv'
  BY <1>11, <1>15 DEF TickFindsPoolFull, mainVars, syncVars, jobVars
<1>16. ASSUME NEW j \in Jobs, LoopTicks(j) PROVE JobMapInv'
  BY <1>11, <1>16 DEF LoopTicks, mainVars, syncVars, jobVars
<1>17. ASSUME NEW j \in Jobs, LoopExits(j) PROVE JobMapInv'
  BY <1>17 DEF LoopExits, mainVars, syncVars, jobVars
<1>18. ASSUME NEW j \in Jobs, CollectReturns(j) \/ CollectClears(j)
       PROVE  UNCHANGED <<phase, ctx, jobs, source, cancelled, loop>>
  BY <1>18 DEF CollectReturns, CollectClears, mainVars, syncVars, jobVars
<1>19. ASSUME NEW h \in Handlers, Handle(h)
       PROVE  UNCHANGED <<phase, ctx, jobs, source, cancelled, loop>>
  BY <1>19 DEF Handle, Accept, Refuse, Change, ChangeNotSaved, mainVars, jobVars, loopVars
<1>20. ASSUME NEW c \in Callers, SyncLists(c) \/ SyncReturns(c)
       PROVE  UNCHANGED <<phase, ctx, jobs, source, cancelled, loop>>
  BY <1>20 DEF SyncLists, SyncReturns, mainVars, jobVars, loopVars
<1>21. ASSUME JanitorExits PROVE UNCHANGED <<phase, ctx, jobs, source, cancelled, loop>>
  BY <1>21 DEF JanitorExits, syncVars, jobVars, loopVars
<1>22. CASE UNCHANGED vars
  BY <1>1, <1>22 DEF vars, mainVars, syncVars, jobVars, loopVars
<1> QED
  BY <1>1, <1>2, <1>3, <1>4, <1>5, <1>6, <1>7, <1>8, <1>9, <1>10, <1>12, <1>13, <1>14, <1>15,
     <1>16, <1>17, <1>18, <1>19, <1>20, <1>21, <1>22 DEF Next, MainStep, Sync, Tick

(* Each Sync applies the registry it has listed under the lock.            *)
LEMMA ConvergePreserved == SyncInv /\ [Next]_vars => ConvergeInv'
<1> SUFFICES ASSUME SyncInv, [Next]_vars PROVE ConvergeInv'
  OBVIOUS
<1> USE SchedulerAssumption DEF SyncInv, TypeOK, ConvergeInv, Matches, Wants
<1>1. ASSUME UNCHANGED <<registry, dirty, phase, mu, pc, wanted, jobs, version>>
      PROVE  ConvergeInv'
  BY <1>1
<1>2. CASE Start
  BY <1>2 DEF Start, Callers
<1>3. CASE StartReturns
  BY <1>3 DEF StartReturns, registryVars, syncVars, jobVars
<1>4. CASE Shutdown
  BY <1>4 DEF Shutdown, registryVars, syncVars, jobVars
<1>5. ASSUME StopTakesJobs \/ StopCancels \/ StopReturns PROVE ConvergeInv'
  BY <1>5 DEF StopTakesJobs, StopCancels, StopReturns
<1>6. ASSUME NEW h \in Handlers, Accept(h) \/ Refuse(h) PROVE ConvergeInv'
  BY <1>6 DEF Accept, Refuse, registryVars, mainVars, jobVars, Callers
<1>7. ASSUME NEW h \in Handlers, NEW s \in Sources, NEW v \in Config, Change(h, s, v)
      PROVE  ConvergeInv'
  BY <1>7 DEF Change, Callers
<1>8. ASSUME NEW h \in Handlers, NEW s \in Sources, NEW v \in Config, ChangeNotSaved(h, s, v)
      PROVE  ConvergeInv'
  BY <1>8 DEF ChangeNotSaved, mainVars, jobVars, Callers
<1>9. ASSUME NEW c \in Callers, SyncLists(c) PROVE ConvergeInv'
  BY <1>9 DEF SyncLists
<1>10. ASSUME NEW c \in Callers, NEW s \in Sources, SyncCancels(c, s) PROVE ConvergeInv'
  BY <1>10 DEF SyncCancels, MutexInv, registryVars, mainVars
<1>11. ASSUME NEW c \in Callers, NEW s \in Sources, NEW j \in Jobs, SyncStarts(c, s, j)
       PROVE  ConvergeInv'
  BY <1>11 DEF SyncStarts, MutexInv, registryVars, mainVars
<1>12. ASSUME NEW c \in Callers, SyncReturns(c) PROVE ConvergeInv'
  BY <1>12 DEF SyncReturns, UpToDate, MutexInv, registryVars, mainVars, jobVars
<1>13. ASSUME Signal \/ JanitorExits
       PROVE  UNCHANGED <<registry, dirty, phase, mu, pc, wanted, jobs, version>>
  BY <1>13 DEF Signal, JanitorExits, registryVars, syncVars, jobVars
<1>14. ASSUME NEW j \in Jobs,
              Tick(j) \/ LoopTicks(j) \/ LoopExits(j) \/ CollectReturns(j) \/ CollectClears(j)
       PROVE  UNCHANGED <<registry, dirty, phase, mu, pc, wanted, jobs, version>>
  BY <1>14 DEF Tick, TickClaims, TickSkips, TickCollects, TickFindsPoolFull, LoopTicks, LoopExits,
     CollectReturns, CollectClears, registryVars, mainVars, syncVars, jobVars
<1>15. CASE UNCHANGED vars
  BY <1>1, <1>15 DEF vars, registryVars, mainVars, syncVars, jobVars
<1> QED
  BY <1>1, <1>2, <1>3, <1>4, <1>5, <1>6, <1>7, <1>8, <1>9, <1>10, <1>11, <1>12, <1>13, <1>14, <1>15 DEF Next, MainStep, Handle, Sync

(* The invariant of Start, Sync and Stop holds throughout.                 *)
THEOREM SyncInvariant == Spec => []SyncInv
<1>1. SyncInv /\ TypeOK' /\ [Next]_vars => SyncInv'
  BY MutexPreserved, JobMapPreserved, ConvergePreserved DEF SyncInv
<1> QED
  BY SyncInit, <1>1, TypeCorrect, PTL DEF Spec

(* Sync and Stop can reach every polling goroutine that is still to stop.  *)
THEOREM LoopsStayInReach == Spec => []NoLoopIsLost
<1>1. SyncInv => NoLoopIsLost
  BY DEF SyncInv, JobMapInv
<1> QED
  BY <1>1, SyncInvariant, PTL

(* However the Syncs of concurrent handlers interleave, between requests   *)
(* the polling goroutines are those the registry asks for.                 *)
THEOREM JobsConverge == Spec => []RegistryConverged
<1>1. SyncInv => RegistryConverged
  <2> SUFFICES ASSUME SyncInv, phase \in {"serving", "shutdown"},
                      \A c \in Callers : pc[c] \notin {"changed", "sync"},
                      NEW s \in Sources \ dirty
               PROVE  IF Wants(registry[s]) THEN Polled(s) ELSE jobs[s] = NoJob
    BY DEF RegistryConverged
  <2>1. mu = Nobody
    BY DEF SyncInv, TypeOK, MutexInv
  <2>2. Matches(s)
    BY <2>1 DEF SyncInv, ConvergeInv
  <2> QED
    BY <2>2 DEF Matches, Polled, SyncInv, JobMapInv
<1> QED
  BY <1>1, SyncInvariant, PTL

-----------------------------------------------------------------------------
(* A collection whose loop is gone belongs to a job whose context ended.   *)
LingerInv ==
  \A j \in Jobs : collecting[j] + returning[j] > 0 => loop[j] # "none" \/ JobDone(j)

LEMMA LingerPreserved == PoolInv /\ SyncInv /\ LingerInv /\ [Next]_vars => LingerInv'
<1> SUFFICES ASSUME PoolInv, SyncInv, LingerInv, [Next]_vars PROVE LingerInv'
  OBVIOUS
<1> USE SchedulerAssumption DEF PoolInv, SyncInv, TypeOK, LingerInv, JobDone
<1>1. ASSUME UNCHANGED <<ctx, cancelled, loop, collecting, returning>> PROVE LingerInv'
  BY <1>1
<1>2. CASE Start
  BY <1>2 DEF Start, JobMapInv, jobVars, loopVars
<1>3. CASE Signal \/ StopCancels
  BY <1>3 DEF Signal, StopCancels, jobVars, loopVars
<1>4. ASSUME NEW c \in Callers, NEW s \in Sources, SyncCancels(c, s) PROVE LingerInv'
  BY <1>4 DEF SyncCancels, mainVars, loopVars
<1>5. ASSUME NEW c \in Callers, NEW s \in Sources, NEW j \in Jobs, SyncStarts(c, s, j)
      PROVE  LingerInv'
  BY <1>5 DEF SyncStarts, mainVars
<1>6. ASSUME NEW j \in Jobs, TickClaims(j) PROVE LingerInv'
  BY <1>6 DEF TickClaims, mainVars, jobVars
<1>7. ASSUME NEW j \in Jobs, TickSkips(j) PROVE LingerInv'
  BY <1>7 DEF TickSkips, mainVars, jobVars
<1>8. ASSUME NEW j \in Jobs, TickCollects(j) PROVE LingerInv'
  BY <1>8 DEF TickCollects, mainVars, jobVars
<1>9. ASSUME NEW j \in Jobs, TickFindsPoolFull(j) PROVE LingerInv'
  BY <1>9 DEF TickFindsPoolFull, mainVars, jobVars
<1>10. ASSUME NEW j \in Jobs, LoopTicks(j) PROVE LingerInv'
  BY <1>10 DEF LoopTicks, mainVars, jobVars
<1>11. ASSUME NEW j \in Jobs, LoopExits(j) PROVE LingerInv'
  BY <1>11 DEF LoopExits, mainVars, jobVars
<1>12. ASSUME NEW j \in Jobs, CollectReturns(j) PROVE LingerInv'
  BY <1>12 DEF CollectReturns, mainVars, jobVars
<1>13. ASSUME NEW j \in Jobs, CollectClears(j) PROVE LingerInv'
  BY <1>13 DEF CollectClears, mainVars, jobVars
<1>14. ASSUME StartReturns \/ Shutdown \/ StopTakesJobs \/ StopReturns \/ JanitorExits
       PROVE  UNCHANGED <<ctx, cancelled, loop, collecting, returning>>
  BY <1>14 DEF StartReturns, Shutdown, StopTakesJobs, StopReturns, JanitorExits, jobVars, loopVars
<1>15. ASSUME NEW h \in Handlers, Handle(h)
       PROVE  UNCHANGED <<ctx, cancelled, loop, collecting, returning>>
  BY <1>15 DEF Handle, Accept, Refuse, Change, ChangeNotSaved, mainVars, jobVars, loopVars
<1>16. ASSUME NEW c \in Callers, SyncLists(c) \/ SyncReturns(c)
       PROVE  UNCHANGED <<ctx, cancelled, loop, collecting, returning>>
  BY <1>16 DEF SyncLists, SyncReturns, mainVars, jobVars, loopVars
<1>17. CASE UNCHANGED vars
  BY <1>1, <1>17 DEF vars, mainVars, jobVars, loopVars
<1> QED
  BY <1>1, <1>2, <1>3, <1>4, <1>5, <1>6, <1>7, <1>8, <1>9, <1>10, <1>11, <1>12, <1>13, <1>14,
     <1>15, <1>16, <1>17 DEF Next, MainStep, Sync, Tick

(* Of the collections of one source under way at one time, all but one are *)
(* leftovers of a configuration that was replaced (start_job, sync_jobs).  *)
THEOREM OverlapsAreLeftovers == Spec => []OnlySupersededOverlaps
<1>1. Init => LingerInv
  BY DEF Init, LingerInv
<1>2. PoolInv /\ SyncInv /\ LingerInv => OnlySupersededOverlaps
  BY DEF PoolInv, SyncInv, TypeOK, JobMapInv, NoLoopIsLost, LingerInv, OnlySupersededOverlaps
<1> QED
  BY <1>1, <1>2, PoolInvariant, SyncInvariant, LingerPreserved, PTL DEF Spec
=============================================================================
