--------------------------- MODULE SubscriberProofs ---------------------------
(***************************************************************************)
(* Theorems about Subscriber, for every number of sources, fingerprints,   *)
(* subscriptions and callers.                                              *)
(***************************************************************************)
EXTENDS Subscriber, TLAPS

(* The subs a caller has in hand: those it will attach and the one it      *)
(* attaches.                                                               *)
Hand(c) == pending[c] \cup {at[c]}

(* A caller has a sub at hand exactly while it attaches it, and nothing    *)
(* left to do when it is through.                                          *)
AttachInv ==
  \A c \in Callers :
    /\ at[c] # NoSub <=> pc[c] \in {"asking", "granted", "refused"}
    /\ pc[c] = "granted" => granted[at[c]]
    /\ pc[c] \in {"idle", "changed"} => pending[c] = {} /\ cancels[c] = {}

(* Nobody else has what it has in hand, which is neither held nor due.     *)
AloneInv ==
  /\ \A c, d \in Callers, x \in Subs : x \in Hand(c) /\ x \in Hand(d) => c = d
  /\ \A c \in Callers : at[c] \notin pending[c]
  /\ \A x \in Subs : held[x] => ~Busy(x)
  /\ \A x \in Subs : retry[x] => ~Busy(x) /\ ~held[x]

(* An active sub belongs to its source, and the pool has it while it is    *)
(* held. What is about to be cancelled is held and not active any more.    *)
ActiveInv ==
  /\ \A s \in Live : source[active[s]] = s /\ version[active[s]] # Absent
  /\ \A s \in Live : held[active[s]] => granted[active[s]]
  /\ \A c \in Callers : \A x \in cancels[c] : held[x] /\ ~IsActive(x)
  /\ \A x \in stopping : held[x]
  /\ stopping # {} => closed
  /\ closed => Live = {}

(* The inductive invariant of the manager.                                 *)
SubInv == NoForgottenSubscription /\ AttachInv /\ AloneInv /\ ActiveInv

-----------------------------------------------------------------------------
LEMMA SubInit == Init => SubInv
<1> SUFFICES ASSUME Init PROVE SubInv
  OBVIOUS
<1> USE SubscriberAssumption DEF Init
<1>1. TypeOK
  BY DEF TypeOK
<1>2. Live = {} /\ \A x \in Subs : ~Busy(x)
  BY DEF Live, Busy
<1>3. AttachInv /\ AloneInv
  BY <1>2 DEF AttachInv, AloneInv, Hand
<1>4. ActiveInv
  BY <1>2 DEF ActiveInv
<1> QED
  BY <1>1, <1>2, <1>3, <1>4 DEF SubInv, NoForgottenSubscription

(* The source for which a new sub is made is the one it is stored for.     *)
LEMMA OwnerIs ==
  ASSUME NEW f \in Names, NEW s \in Missing
  PROVE  (CHOOSE t \in Missing : f[t] = f[s]) = s
<1>1. \E t \in Missing : f[t] = f[s]
  OBVIOUS
<1>2. \A t \in Missing : f[t] = f[s] => t = s
  BY DEF Names
<1> QED
  BY <1>1, <1>2

(* What Sync under the lock makes of the table.                             *)
LEMMA DecidesWhat ==
  ASSUME TypeOK, NEW h \in Handlers, NEW f \in Names, SyncDecides(h, f)
  PROVE  /\ \A s \in Missing : f[s] \in Subs /\ Free(f[s]) /\ active'[s] = f[s]
                               /\ source'[f[s]] = s /\ version'[f[s]] = registry[s]
         /\ \A s \in Sources \ Missing : active'[s] = IF Outdated(s) THEN NoSub ELSE active[s]
         /\ \A x \in Subs : ~Free(x) => source'[x] = source[x] /\ version'[x] = version[x]
                                        /\ held'[x] = held[x] /\ retry'[x] = retry[x]
         /\ \A x \in Subs : (\E s \in Missing : f[s] = x) => ~held'[x] /\ ~retry'[x]
         /\ \A x \in Subs : (held'[x] => held[x]) /\ (retry'[x] => retry[x])
         /\ pending' = [pending EXCEPT ![h] = {f[s] : s \in Missing}]
         /\ cancels' = [cancels EXCEPT ![h] = {active[s] : s \in {t \in Sources : Outdated(t) /\ held[active[t]]}}]
         /\ pc' = [pc EXCEPT ![h] = "working"] /\ pc[h] = "changed" /\ ~closed /\ dirty' = {}
         /\ UNCHANGED <<registry, closed, granted, at, stopping>>
         /\ TypeOK'
<1>1. \A s \in Missing : f[s] \in Subs /\ Free(f[s]) /\ s \in Sources /\ registry[s] \in Versions
  BY DEF Names, Missing, TypeOK
<1>2. \A s \in Missing : (CHOOSE t \in Missing : f[t] = f[s]) = s
  BY OwnerIs
<1> DEFINE New == {f[s] : s \in Missing}
<1>3. /\ active' = [s \in Sources |->
           IF s \in Missing THEN f[s] ELSE IF Outdated(s) THEN NoSub ELSE active[s]]
      /\ source' = [x \in Subs |-> IF x \in New THEN CHOOSE s \in Missing : f[s] = x ELSE source[x]]
      /\ version' = [x \in Subs |-> IF x \in New THEN registry[CHOOSE s \in Missing : f[s] = x] ELSE version[x]]
      /\ held' = [x \in Subs |-> held[x] /\ x \notin New]
      /\ retry' = [x \in Subs |-> retry[x] /\ x \notin New]
      /\ pending' = [pending EXCEPT ![h] = New]
      /\ cancels' = [cancels EXCEPT ![h] = {active[s] : s \in {t \in Sources : Outdated(t) /\ held[active[t]]}}]
      /\ pc' = [pc EXCEPT ![h] = "working"] /\ pc[h] = "changed" /\ ~closed /\ dirty' = {}
      /\ UNCHANGED <<registry, closed, granted, at, stopping>>
  BY DEF SyncDecides, At, Goto
<1>4. \A s \in Missing : active'[s] = f[s] /\ source'[f[s]] = s /\ version'[f[s]] = registry[s]
  BY <1>1, <1>2, <1>3
<1>5. \A s \in Sources \ Missing : active'[s] = IF Outdated(s) THEN NoSub ELSE active[s]
  BY <1>3
<1>6. \A x \in Subs : x \notin New => source'[x] = source[x] /\ version'[x] = version[x]
                                      /\ held'[x] = held[x] /\ retry'[x] = retry[x]
  BY <1>3 DEF TypeOK
<1>7. \A x \in Subs : ~Free(x) => x \notin New
  BY <1>1
<1>8. \A x \in Subs : x \in New => ~held'[x] /\ ~retry'[x]
  BY <1>3
<1>9. TypeOK'
  <2>1. New \subseteq Subs /\ h \in Callers
    BY <1>1 DEF Callers
  <2>2. active' \in [Sources -> Subs \cup {NoSub}]
    BY <1>1, <1>3 DEF TypeOK
  <2>3. \A x \in New : \E s \in Missing : x = f[s] /\ (CHOOSE t \in Missing : f[t] = x) = s
    BY <1>2
  <2>4. source' \in [Subs -> Sources] /\ version' \in [Subs -> Versions \cup {Absent}]
    BY <1>1, <1>3, <2>3 DEF TypeOK
  <2>5. held' \in [Subs -> BOOLEAN] /\ retry' \in [Subs -> BOOLEAN]
    BY <1>3
  <2>6. {active[s] : s \in {t \in Sources : Outdated(t) /\ held[active[t]]}} \subseteq Subs
    BY DEF Outdated, TypeOK
  <2>7. cancels' \in [Callers -> SUBSET Subs] /\ pending' \in [Callers -> SUBSET Subs]
    BY <1>3, <2>1, <2>6 DEF TypeOK
  <2>8. pc' \in [Callers -> {"idle", "changed", "working", "asking", "granted", "refused"}]
    BY <1>3, <2>1 DEF TypeOK
  <2> QED
    BY <1>3, <2>2, <2>4, <2>5, <2>7, <2>8 DEF TypeOK
<1>10. \A x \in Subs : (held'[x] => held[x]) /\ (retry'[x] => retry[x])
  BY <1>3
<1>11. \A x \in Subs : (\E s \in Missing : f[s] = x) => x \in New
  OBVIOUS
<1> HIDE DEF New
<1> QED
  BY <1>1, <1>3, <1>4, <1>5, <1>6, <1>7, <1>8, <1>9, <1>10, <1>11 DEF New

LEMMA SyncPreserves ==
  ASSUME SubInv, NEW h \in Handlers, NEW f \in Names, SyncDecides(h, f)
  PROVE  SubInv'
<1> DEFINE New == {f[s] : s \in Missing}
<1>1. /\ \A s \in Missing : f[s] \in Subs /\ Free(f[s]) /\ active'[s] = f[s] /\ source'[f[s]] = s
                              /\ version'[f[s]] # Absent
      /\ \A s \in Sources \ Missing : active'[s] = IF Outdated(s) THEN NoSub ELSE active[s]
      /\ \A x \in Subs : ~Free(x) => source'[x] = source[x] /\ version'[x] = version[x]
                                     /\ held'[x] = held[x] /\ retry'[x] = retry[x]
      /\ \A x \in Subs : x \in New => ~held'[x] /\ ~retry'[x]
      /\ \A x \in Subs : (held'[x] => held[x]) /\ (retry'[x] => retry[x])
      /\ pending' = [pending EXCEPT ![h] = New]
      /\ cancels' = [cancels EXCEPT ![h] = {active[s] : s \in {t \in Sources : Outdated(t) /\ held[active[t]]}}]
      /\ pc' = [pc EXCEPT ![h] = "working"] /\ pc[h] = "changed" /\ ~closed /\ dirty' = {}
      /\ UNCHANGED <<registry, closed, granted, at, stopping>>
      /\ TypeOK /\ TypeOK'
  <2>1. TypeOK
    BY DEF SubInv, NoForgottenSubscription
  <2> QED
    BY <2>1, DecidesWhat DEF Missing
<1>2. h \in Callers /\ at[h] = NoSub /\ pending[h] = {} /\ cancels[h] = {}
  BY <1>1 DEF Callers, SubInv, AttachInv
<1>3. \A c \in Callers : c # h => pc'[c] = pc[c] /\ pending'[c] = pending[c] /\ cancels'[c] = cancels[c]
  BY <1>1 DEF TypeOK
<1>4. pc'[h] = "working" /\ pending'[h] = New
      /\ cancels'[h] = {active[s] : s \in {t \in Sources : Outdated(t) /\ held[active[t]]}}
  BY <1>1, <1>2 DEF TypeOK
<1>5. \A x \in New : x \in Subs /\ ~IsActive(x) /\ ~Busy(x) /\ ~granted[x] /\ x \notin stopping
                     /\ \A c \in Callers : x \notin cancels[c]
  BY <1>1 DEF Free, Busy
<1>6. \A s \in Sources : active'[s] # NoSub => (s \in Missing /\ active'[s] = f[s] /\ active'[s] \in New)
                                           \/ (active'[s] = active[s] /\ s \in Live /\ ~Outdated(s))
  BY <1>1 DEF Live
<1>7. \A s \in Live : active[s] \in Subs /\ ~Free(active[s]) /\ active[s] \notin New
  BY <1>1, <1>5 DEF Live, Free, IsActive, TypeOK
<1>8. \A x \in Subs : Busy(x)' <=> Busy(x) \/ x \in New
  BY <1>1, <1>2, <1>3, <1>4 DEF Busy
<1> HIDE DEF New
<1>9. NoForgottenSubscription'
  BY <1>1, <1>6, <1>7, <1>8 DEF NoForgottenSubscription, SubInv, Live
<1>10. AttachInv'
  BY <1>1, <1>2, <1>3, <1>4 DEF AttachInv, SubInv
<1>11. AloneInv'
  <2>1. \A c, d \in Callers, x \in Subs : x \in Hand(c)' /\ x \in Hand(d)' => c = d
    BY <1>1, <1>2, <1>3, <1>4, <1>5 DEF AloneInv, SubInv, Hand, Busy
  <2>2. \A c \in Callers : at'[c] \notin pending'[c]
    BY <1>1, <1>2, <1>3, <1>4, <1>5, SubscriberAssumption DEF AloneInv, SubInv
  <2>3. \A x \in Subs : held'[x] => ~Busy(x)'
    BY <1>1, <1>8 DEF AloneInv, SubInv
  <2>4. \A x \in Subs : retry'[x] => ~Busy(x)' /\ ~held'[x]
    BY <1>1, <1>8 DEF AloneInv, SubInv
  <2> QED
    BY <2>1, <2>2, <2>3, <2>4 DEF AloneInv
<1>12. ActiveInv'
  <2>1. \A s \in Live' : source'[active'[s]] = s /\ version'[active'[s]] # Absent
    BY <1>1, <1>6, <1>7 DEF ActiveInv, SubInv, Live
  <2>2. \A s \in Live' : held'[active'[s]] => granted'[active'[s]]
    BY <1>1, <1>6, <1>7 DEF ActiveInv, SubInv, Live
  <2>3. \A c \in Callers : \A x \in cancels'[c] : held'[x] /\ ~IsActive(x)'
    <3>1. ASSUME NEW c \in Callers, c # h, NEW x \in cancels[c] PROVE held'[x] /\ ~IsActive(x)'
      <4>1. x \in Subs /\ ~Free(x) /\ held[x] /\ ~IsActive(x) /\ x \notin New
        BY <1>1, <1>5, <3>1 DEF Free, ActiveInv, SubInv, TypeOK
      <4> QED
        BY <1>1, <1>6, <4>1, SubscriberAssumption DEF IsActive
    <3>2. ASSUME NEW s \in Sources, Outdated(s), NEW x, x = active[s], held[x]
          PROVE  held'[x] /\ ~IsActive(x)'
      <4>1. s \in Live /\ x # NoSub
        BY <3>2 DEF Live, Outdated
      <4>2. held'[x]
        BY <1>1, <1>7, <3>2, <4>1
      <4>3. ASSUME NEW t \in Sources, active'[t] = x PROVE FALSE
        <5>1. active[t] = x /\ t \in Live /\ ~Outdated(t)
          BY <1>6, <1>7, <3>2, <4>1, <4>3
        <5>2. t = s
          BY <3>2, <4>1, <5>1 DEF ActiveInv, SubInv
        <5> QED
          BY <3>2, <5>1, <5>2
      <4> QED
        BY <4>2, <4>3 DEF IsActive
    <3>3. \A x \in cancels'[h] : \E s \in Sources : Outdated(s) /\ x = active[s] /\ held[x]
      BY <1>4
    <3> QED
      BY <1>3, <3>1, <3>2, <3>3
  <2>4. \A x \in stopping' : held'[x]
    BY <1>1 DEF ActiveInv, SubInv
  <2>5. (stopping' # {} => closed') /\ (closed' => Live' = {})
    BY <1>1 DEF ActiveInv, SubInv
  <2> QED
    BY <2>1, <2>2, <2>3, <2>4, <2>5 DEF ActiveInv
<1> QED
  BY <1>9, <1>10, <1>11, <1>12 DEF SubInv

(* The steps of a caller outside of Sync.                                  *)
LEMMA CallPreserves ==
  ASSUME SubInv, NEW c \in Callers, RetryBegins(c) \/ Work(c)
  PROVE  SubInv'
<1> USE SubscriberAssumption
    DEF SubInv, NoForgottenSubscription, TypeOK, AttachInv, AloneInv, ActiveInv, Live, Busy, IsActive,
        Hand, At, Goto, subVars, registryVars
<1>1. CASE RetryBegins(c)
  BY <1>1 DEF RetryBegins
<1>2. ASSUME NEW x \in Subs, CallsCancel(c, x) PROVE SubInv'
  BY <1>2 DEF CallsCancel
<1>3. ASSUME NEW x \in Subs, AttachBegins(c, x) PROVE SubInv'
  BY <1>3 DEF AttachBegins
<1>4. CASE WorkDone(c)
  BY <1>4 DEF WorkDone
<1>5. CASE PoolGrants(c)
  BY <1>5 DEF PoolGrants
<1>6. CASE PoolRefuses(c)
  BY <1>6 DEF PoolRefuses
<1>7. CASE AttachStores(c)
  <2>1. at[c] \in Subs /\ granted[at[c]] /\ pc'[c] = "working" /\ at'[c] = NoSub
    BY <1>7 DEF AttachStores
  <2>2. \A d \in Callers : d # c => at[d] # at[c] /\ at[c] \notin pending[d]
    BY <2>1
  <2>3. ~held[at[c]] /\ ~retry[at[c]] /\ at[c] \notin pending[c]
    BY <2>1
  <2>4. CASE closed
    <3>1. /\ granted' = [granted EXCEPT ![at[c]] = FALSE] /\ UNCHANGED <<held, retry>>
          /\ pc' = [pc EXCEPT ![c] = "working"] /\ at' = [at EXCEPT ![c] = NoSub]
          /\ UNCHANGED <<registryVars, active, closed, source, version, cancels, pending, stopping>>
      BY <1>7, <2>4 DEF AttachStores
    <3>2. NoForgottenSubscription'
      BY <2>4, <3>1
    <3>3. AttachInv'
      BY <2>1, <2>2, <3>1
    <3>4. \A x \in Subs : Busy(x)' => Busy(x)
      BY <3>1
    <3>5. \A d \in Callers, x \in Subs : x \in Hand(d)' => x \in Hand(d)
      BY <3>1
    <3>6. \A d \in Callers : at'[d] \notin pending'[d]
      BY <3>1
    <3>7. AloneInv'
      BY <3>1, <3>4, <3>5, <3>6
    <3>8. ActiveInv'
      BY <2>4, <3>1
    <3> QED
      BY <3>2, <3>3, <3>7, <3>8
  <2>5. CASE ~closed
    <3>1. /\ held' = [held EXCEPT ![at[c]] = TRUE] /\ retry' = [retry EXCEPT ![at[c]] = FALSE]
          /\ granted' = granted /\ pc' = [pc EXCEPT ![c] = "working"] /\ at' = [at EXCEPT ![c] = NoSub]
          /\ UNCHANGED <<registryVars, active, closed, source, version, cancels, pending, stopping>>
      BY <1>7, <2>5 DEF AttachStores
    <3>2. TypeOK'
      BY <3>1
    <3>3. \A x \in Subs : Busy(x)' <=> Busy(x) /\ x # at[c]
      BY <2>1, <2>2, <2>3, <3>1
    <3>4. \A x \in Subs : x # at[c] => held'[x] = held[x] /\ retry'[x] = retry[x]
      BY <3>1
    <3>5. held'[at[c]] /\ ~retry'[at[c]]
      BY <2>1, <3>1
    <3>6. NoForgottenSubscription'
      BY <2>1, <3>1, <3>2, <3>3, <3>4, <3>5
    <3>7. AttachInv'
      BY <2>1, <3>1
    <3>8. AloneInv'
      <4>1. \A d \in Callers, x \in Subs : x \in Hand(d)' => x \in Hand(d)
        BY <3>1
      <4>2. \A d \in Callers : at'[d] \notin pending'[d]
        BY <3>1
      <4>3. \A d, e \in Callers, x \in Subs : x \in Hand(d)' /\ x \in Hand(e)' => d = e
        BY <4>1
      <4>4. \A x \in Subs : held'[x] => ~Busy(x)'
        BY <3>3, <3>4
      <4>5. \A x \in Subs : retry'[x] => ~Busy(x)' /\ ~held'[x]
        BY <3>3, <3>4, <3>5
      <4> QED
        BY <4>2, <4>3, <4>4, <4>5
    <3>9. ActiveInv'
      BY <2>1, <3>1, <3>4, <3>5
    <3> QED
      BY <3>6, <3>7, <3>8, <3>9
  <2> QED
    BY <2>4, <2>5
<1>8. CASE AttachFails(c)
  BY <1>8 DEF AttachFails
<1> QED
  BY <1>1, <1>2, <1>3, <1>4, <1>5, <1>6, <1>7, <1>8 DEF Work, Attach

(* The changes of the registry, and Stop.                                  *)
LEMMA OthersPreserve ==
  ASSUME SubInv,
         \/ \E h \in Handlers :
              \/ SyncRefused(h)
              \/ \E s \in Sources, v \in Versions \cup {Absent} : Change(h, s, v) \/ ChangeNotSaved(h, s, v)
         \/ Stop \/ (\E x \in Subs : StopCancels(x)) \/ UNCHANGED vars
  PROVE  SubInv'
<1> USE SubscriberAssumption
    DEF SubInv, NoForgottenSubscription, TypeOK, AttachInv, AloneInv, ActiveInv, Live, Busy, IsActive,
        Hand, At, Goto, subVars, registryVars, callVars, Callers
<1>1. ASSUME NEW h \in Handlers, SyncRefused(h) PROVE SubInv'
  BY <1>1 DEF SyncRefused
<1>2. ASSUME NEW h \in Handlers, NEW s \in Sources, NEW v \in Versions \cup {Absent},
             Change(h, s, v) \/ ChangeNotSaved(h, s, v)
      PROVE  SubInv'
  <2>1. CASE Change(h, s, v)
    BY <2>1 DEF Change
  <2>2. CASE ChangeNotSaved(h, s, v)
    BY <2>2 DEF ChangeNotSaved
  <2> QED
    BY <1>2, <2>1, <2>2
<1>3. CASE Stop
  BY <1>3 DEF Stop
<1>4. ASSUME NEW x \in Subs, StopCancels(x) PROVE SubInv'
  BY <1>4 DEF StopCancels
<1>5. CASE UNCHANGED vars
  BY <1>5 DEF vars
<1> QED
  BY <1>1, <1>2, <1>3, <1>4, <1>5

LEMMA SubPreserved == SubInv /\ [Next]_vars => SubInv'
  BY SyncPreserves, CallPreserves, OthersPreserve DEF Next, Sync, SyncBegins

(* The inductive invariant holds throughout.                               *)
THEOREM ManagerInvariant == Spec => []SubInv
  BY SubInit, SubPreserved, PTL DEF Spec

(* However Sync, Retry, refusals and Stop interleave, no active            *)
(* subscription is forgotten: it is being attached, held, or due for a     *)
(* retry (attach, fail, Retry).                                            *)
THEOREM NothingIsForgotten == Spec => []NoForgottenSubscription
  BY ManagerInvariant, PTL DEF SubInv

-----------------------------------------------------------------------------
LEMMA FollowsPreserved ==
  ASSUME SubInv, SubInv', ActiveFollowsRegistry, [Next]_vars
  PROVE  ActiveFollowsRegistry'
<1>a. TypeOK /\ TypeOK'
  BY DEF SubInv, NoForgottenSubscription
<1>1. ASSUME NEW h \in Handlers, NEW f \in Names, SyncDecides(h, f) PROVE ActiveFollowsRegistry'
  <2>1. ASSUME NEW s \in Missing
        PROVE  /\ registry'[s] # Absent /\ active'[s] # NoSub
               /\ source'[active'[s]] = s /\ version'[active'[s]] = registry'[s]
    BY <1>1, <1>a, <2>1, DecidesWhat, SubscriberAssumption DEF Missing
  <2>2. ASSUME NEW s \in Sources \ Missing, registry[s] # Absent
        PROVE  /\ active'[s] # NoSub /\ source'[active'[s]] = s
               /\ version'[active'[s]] = registry'[s]
    <3>1. active[s] # NoSub /\ ~Outdated(s) /\ active[s] \in Subs /\ ~Free(active[s])
          /\ version[active[s]] = registry[s] /\ source[active[s]] = s
      BY <1>a, <2>2 DEF Missing, Outdated, TypeOK, Free, IsActive, SubInv, ActiveInv, Live
    <3> QED
      BY <1>1, <1>a, <2>2, <3>1, DecidesWhat
  <2>3. ASSUME NEW s \in Sources \ Missing, registry[s] = Absent
        PROVE  active'[s] = NoSub
    <3>1. active[s] = NoSub \/ Outdated(s)
      BY <1>a, <2>3, SubscriberAssumption DEF Outdated, TypeOK, SubInv, ActiveInv, Live
    <3> QED
      BY <1>1, <1>a, <2>3, <3>1, DecidesWhat
  <2>4. registry' = registry /\ Missing \subseteq Sources
    BY <1>1, <1>a, DecidesWhat DEF Missing
  <2> QED
    BY <2>1, <2>2, <2>3, <2>4 DEF ActiveFollowsRegistry
<1>2. ASSUME NEW h \in Handlers, SyncRefused(h) PROVE ActiveFollowsRegistry'
  BY <1>2 DEF SyncRefused, ActiveFollowsRegistry, subVars
<1>3. ASSUME NEW h \in Handlers, NEW s \in Sources, NEW v \in Versions \cup {Absent}, Change(h, s, v)
      PROVE  ActiveFollowsRegistry'
  <2>1. h \in Callers /\ pc'[h] = "changed"
    BY <1>3, <1>a DEF Change, Goto, TypeOK, Callers
  <2> QED
    BY <2>1 DEF ActiveFollowsRegistry, At
<1>8. ASSUME NEW h \in Handlers, NEW s \in Sources, NEW v \in Versions \cup {Absent},
             ChangeNotSaved(h, s, v)
      PROVE  ActiveFollowsRegistry'
  <2>1. /\ dirty' = dirty \cup {s} /\ \A t \in Sources : t # s => registry'[t] = registry[t]
        /\ UNCHANGED <<active, closed, source, version, pc>>
    BY <1>8, <1>a DEF ChangeNotSaved, TypeOK, subVars, callVars
  <2> QED
    BY <2>1 DEF ActiveFollowsRegistry, At
<1>4. ASSUME UNCHANGED <<registryVars, active, closed, source, version>>,
             \A h \in Handlers : At(h, "changed") => At(h, "changed")'
      PROVE  ActiveFollowsRegistry'
  BY <1>4 DEF ActiveFollowsRegistry, registryVars
<1>5. ASSUME NEW c \in Callers, RetryBegins(c) \/ Work(c) PROVE ActiveFollowsRegistry'
  <2>1. pc[c] # "changed" /\ UNCHANGED <<registryVars, active, closed, source, version>>
        /\ \A d \in Callers : d # c => pc'[d] = pc[d]
    BY <1>5, <1>a DEF RetryBegins, Work, CallsCancel, AttachBegins, WorkDone, Attach, PoolGrants, PoolRefuses,
                     AttachStores, AttachFails, At, Goto, subVars, TypeOK, registryVars
  <2> QED
    BY <1>4, <2>1 DEF At, Callers
<1>6. CASE Stop
  BY <1>6 DEF Stop, ActiveFollowsRegistry
<1>7. CASE (\E x \in Subs : StopCancels(x)) \/ UNCHANGED vars
  BY <1>4, <1>7 DEF StopCancels, At, subVars, callVars, vars
<1> QED
  BY <1>1, <1>2, <1>3, <1>5, <1>6, <1>7, <1>8 DEF Next, Sync, SyncBegins

(* When every Sync is through, what is active is what the registry asks    *)
(* for, in its latest configuration, but for the sources whose last change *)
(* failed to be saved and so was not followed by a Sync (Sync,             *)
(* handle_registry_put, handle_registry_delete).                           *)
THEOREM SubscriptionsFollow == Spec => []ActiveFollowsRegistry
<1>1. Init => ActiveFollowsRegistry
  BY SubscriberAssumption DEF Init, ActiveFollowsRegistry, At, Callers
<1> QED
  BY <1>1, ManagerInvariant, FollowsPreserved, PTL DEF Spec

=============================================================================
