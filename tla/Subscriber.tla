------------------------------ MODULE Subscriber ------------------------------
(***************************************************************************)
(* The life of the MQTT subscriptions of internal/engine/subscriber.go:    *)
(* Sync after each change of the registry, Retry from the janitor, Stop.   *)
(* Each decides under m.mu what to do and then calls the pool without it;  *)
(* attach takes m.mu again to store the cancel function it was given.      *)
(*                                                                         *)
(* A mqtt_sub is a member of Subs, reused once nothing refers to it. The   *)
(* pool grants or refuses a subscription and forgets it when its cancel    *)
(* function is called (module MqttPool says how far that is true). What    *)
(* arrives on a subscription and what it shows are not in this module.     *)
(***************************************************************************)
EXTENDS Naturals, FiniteSets

CONSTANTS
  Sources,     (* The IDs of the source entries.                            *)
  Versions,    (* The fingerprints of an enabled, subscribing entry.        *)
  Absent,      (* No entry, a disabled one or one that is polled.           *)
  Subs,        (* Names for mqtt_sub values.                                *)
  NoSub,       (* "No key in m.active".                                     *)
  Handlers,    (* The HTTP handlers that change the registry and call Sync. *)
  Janitors     (* The janitor goroutine of the scheduler, or no one.        *)

Callers == Handlers \cup Janitors

ASSUME SubscriberAssumption ==
  /\ Absent \notin Versions
  /\ NoSub \notin Subs
  /\ Handlers # {} /\ Handlers \cap Janitors = {}

VARIABLES
  registry,    (* What ListByKind returns.                                  *)
  dirty,       (* Auxiliary: sources whose change was not saved and so not  *)
               (* followed by a Sync, and that no later Sync has listed.    *)
  active,      (* m.active.                                                 *)
  closed,      (* m.closed.                                                 *)
  source,      (* sub.id.                                                   *)
  version,     (* sub.fingerprint, which no name has before its first sub.    *)
  held,        (* sub.cancel is the pool's, not the empty placeholder.      *)
  retry,       (* sub.next_try is set.                                      *)
  granted,     (* The pool has the subscription.                            *)
  pc,          (* The caller: idle, changed, working, asking, granted,      *)
               (* refused.                                                  *)
  cancels,     (* The cancel functions it has collected, by their subs.     *)
  pending,     (* The subs it has yet to attach.                            *)
  at,          (* The sub it attaches.                                      *)
  stopping     (* The cancel functions Stop has collected.                  *)

registryVars == <<registry, dirty>>
subVars      == <<source, version, held, retry>>
callVars     == <<pc, cancels, pending, at>>
vars == <<registryVars, active, closed, subVars, granted, callVars, stopping>>

Init ==
  /\ registry \in [Sources -> Versions \cup {Absent}]
  /\ dirty = {}
  /\ active = [s \in Sources |-> NoSub]
  /\ closed = FALSE
  /\ source \in [Subs -> Sources]
  /\ version = [x \in Subs |-> Absent]
  /\ held = [x \in Subs |-> FALSE]
  /\ retry = [x \in Subs |-> FALSE]
  /\ granted = [x \in Subs |-> FALSE]
  /\ pc = [c \in Callers |-> IF c \in Handlers THEN "changed" ELSE "idle"]
  /\ cancels = [c \in Callers |-> {}]
  /\ pending = [c \in Callers |-> {}]
  /\ at = [c \in Callers |-> NoSub]
  /\ stopping = {}

At(c, l) == pc[c] = l
Goto(c, l) == pc' = [pc EXCEPT ![c] = l]

IsActive(x) == \E s \in Sources : active[s] = x
Live == {s \in Sources : active[s] # NoSub}

(* A name nothing refers to.                                               *)
Free(x) ==
  /\ ~IsActive(x)
  /\ ~granted[x]
  /\ x \notin stopping
  /\ \A c \in Callers : x \notin cancels[c] \cup pending[c] \cup {at[c]}

(* Bound: an entry changes with a Sync to follow only while there are names*)
(* left for the subs of that Sync and of those that are still to begin.    *)
EnoughNames ==
  LET coming == {h \in Handlers : At(h, "changed")}
  IN  Cardinality({x \in Subs : Free(x)}) >= Cardinality(Sources) * (Cardinality(coming) + 1)

-----------------------------------------------------------------------------
(* A handler stores a new entry, changes it or deletes it.                 *)
Change(h, s, v) ==
  /\ h \in Handlers
  /\ At(h, "idle")
  /\ EnoughNames
  /\ registry' = [registry EXCEPT ![s] = v]
  /\ Goto(h, "changed")
  /\ UNCHANGED <<dirty, active, closed, subVars, granted, cancels, pending, at, stopping>>

(* The memory is changed but Save fails: the handler answers 500 and never *)
(* reaches after_registry_change, nor Sync.                                *)
ChangeNotSaved(h, s, v) ==
  /\ h \in Handlers
  /\ At(h, "idle")
  /\ registry' = [registry EXCEPT ![s] = v]
  /\ dirty' = dirty \cup {s}
  /\ UNCHANGED <<active, closed, subVars, granted, callVars, stopping>>

(* Sync after Stop does nothing.                                           *)
SyncRefused(h) ==
  /\ At(h, "changed")
  /\ closed
  /\ Goto(h, "idle")
  /\ UNCHANGED <<registryVars, active, closed, subVars, granted, cancels, pending, at, stopping>>

Outdated(s) == active[s] # NoSub /\ version[active[s]] # registry[s]

(* Mutant of Missing: a changed entry is dropped and not subscribed anew.  *)
MissingByPresence == {s \in Sources : registry[s] # Absent /\ active[s] = NoSub}

(* The sources that get a new mqtt_sub.                                    *)
Missing == {s \in Sources : registry[s] # Absent /\ (active[s] = NoSub \/ Outdated(s))}

(* Sync under m.mu: f names the new mqtt_sub of each missing source, with  *)
(* an empty cancel as placeholder. The cancel functions of outdated subs   *)
(* are collected as they are now.                                          *)
SyncDecides(h, f) ==
  /\ At(h, "changed")
  /\ ~closed
  /\ active' = [s \in Sources |->
       IF s \in Missing THEN f[s] ELSE IF Outdated(s) THEN NoSub ELSE active[s]]
  /\ LET new == {f[s] : s \in Missing}
         owner(x) == CHOOSE s \in Missing : f[s] = x
     IN  /\ source'  = [x \in Subs |-> IF x \in new THEN owner(x) ELSE source[x]]
         /\ version' = [x \in Subs |-> IF x \in new THEN registry[owner(x)] ELSE version[x]]
         /\ held'    = [x \in Subs |-> held[x] /\ x \notin new]
         /\ retry'   = [x \in Subs |-> retry[x] /\ x \notin new]
         /\ pending' = [pending EXCEPT ![h] = new]
  /\ cancels' =
       [cancels EXCEPT ![h] = {active[s] : s \in {t \in Sources : Outdated(t) /\ held[active[t]]}}]
  /\ dirty' = {}
  /\ Goto(h, "working")
  /\ UNCHANGED <<registry, closed, granted, at, stopping>>

(* The injective choices of free names.                                    *)
Names == {f \in [Missing -> {x \in Subs : Free(x)}] : \A s, t \in Missing : f[s] = f[t] => s = t}

SyncBegins(h) == \E f \in Names : SyncDecides(h, f)

(* Retry under m.mu: it takes all subs whose time has come.                *)
RetryBegins(c) ==
  /\ c \in Janitors
  /\ At(c, "idle")
  /\ ~closed
  /\ \E due \in SUBSET {x \in Subs : IsActive(x) /\ retry[x]} \ {{}} :
       /\ retry' = [x \in Subs |-> retry[x] /\ x \notin due]
       /\ pending' = [pending EXCEPT ![c] = due]
  /\ Goto(c, "working")
  /\ UNCHANGED <<registryVars, active, closed, source, version, held, granted, cancels, at, stopping>>

(* Sync calls the collected cancel functions ...                           *)
CallsCancel(c, x) ==
  /\ At(c, "working")
  /\ x \in cancels[c]
  /\ cancels' = [cancels EXCEPT ![c] = @ \ {x}]
  /\ granted' = [granted EXCEPT ![x] = FALSE]
  /\ UNCHANGED <<registryVars, active, closed, subVars, pc, pending, at, stopping>>

(* ... and then attaches the new subs, one by one.                         *)
AttachBegins(c, x) ==
  /\ At(c, "working")
  /\ cancels[c] = {}
  /\ x \in pending[c]
  /\ pending' = [pending EXCEPT ![c] = @ \ {x}]
  /\ at' = [at EXCEPT ![c] = x]
  /\ Goto(c, "asking")
  /\ UNCHANGED <<registryVars, active, closed, subVars, granted, cancels, stopping>>

WorkDone(c) ==
  /\ At(c, "working")
  /\ cancels[c] = {}
  /\ pending[c] = {}
  /\ Goto(c, "idle")
  /\ UNCHANGED <<registryVars, active, closed, subVars, granted, cancels, pending, at, stopping>>

(* The pool grants the subscription and returns its cancel function ...    *)
PoolGrants(c) ==
  /\ At(c, "asking")
  /\ granted' = [granted EXCEPT ![at[c]] = TRUE]
  /\ Goto(c, "granted")
  /\ UNCHANGED <<registryVars, active, closed, subVars, cancels, pending, at, stopping>>

(* ... or the rendering, the pool or the broker refuses it.                *)
PoolRefuses(c) ==
  /\ At(c, "asking")
  /\ Goto(c, "refused")
  /\ UNCHANGED <<registryVars, active, closed, subVars, granted, cancels, pending, at, stopping>>

(* Under m.mu: keep the cancel function, or call it when Stop came first.  *)
AttachStores(c) ==
  /\ At(c, "granted")
  /\ IF closed
       THEN granted' = [granted EXCEPT ![at[c]] = FALSE] /\ UNCHANGED <<held, retry>>
       ELSE /\ held' = [held EXCEPT ![at[c]] = TRUE]
            /\ retry' = [retry EXCEPT ![at[c]] = FALSE]
            /\ granted' = granted
  /\ Goto(c, "working")
  /\ at' = [at EXCEPT ![c] = NoSub]
  /\ UNCHANGED <<registryVars, active, closed, source, version, cancels, pending, stopping>>

(* Mutant of AttachFails: the failure is shown, the retry not scheduled.   *)
AttachGivesUp(c) ==
  /\ At(c, "refused")
  /\ Goto(c, "working")
  /\ at' = [at EXCEPT ![c] = NoSub]
  /\ UNCHANGED <<registryVars, active, closed, subVars, granted, cancels, pending, stopping>>

(* fail: the retry is scheduled under m.mu.                                *)
AttachFails(c) ==
  /\ At(c, "refused")
  /\ retry' = [retry EXCEPT ![at[c]] = TRUE]
  /\ Goto(c, "working")
  /\ at' = [at EXCEPT ![c] = NoSub]
  /\ UNCHANGED <<registryVars, active, closed, source, version, held, granted, cancels, pending,
                 stopping>>

-----------------------------------------------------------------------------
(* Stop takes the active subs and their cancel functions under m.mu ...    *)
Stop ==
  /\ ~closed
  /\ closed' = TRUE
  /\ stopping' = {x \in Subs : IsActive(x) /\ held[x]}
  /\ active' = [s \in Sources |-> NoSub]
  /\ UNCHANGED <<registryVars, subVars, granted, callVars>>

(* ... and calls them after that.                                          *)
StopCancels(x) ==
  /\ x \in stopping
  /\ stopping' = stopping \ {x}
  /\ granted' = [granted EXCEPT ![x] = FALSE]
  /\ UNCHANGED <<registryVars, active, closed, subVars, callVars>>

-----------------------------------------------------------------------------
Attach(c) == PoolGrants(c) \/ PoolRefuses(c) \/ AttachStores(c) \/ AttachFails(c)

Work(c) ==
  \/ \E x \in Subs : CallsCancel(c, x) \/ AttachBegins(c, x)
  \/ WorkDone(c)
  \/ Attach(c)

Sync(h) == SyncRefused(h) \/ SyncBegins(h)

Next ==
  \/ \E h \in Handlers :
       \/ Sync(h)
       \/ \E s \in Sources, v \in Versions \cup {Absent} :
            Change(h, s, v) \/ ChangeNotSaved(h, s, v)
  \/ \E c \in Callers : RetryBegins(c) \/ Work(c)
  \/ Stop
  \/ \E x \in Subs : StopCancels(x)

Spec == Init /\ [][Next]_vars

-----------------------------------------------------------------------------
TypeOK ==
  /\ registry \in [Sources -> Versions \cup {Absent}]
  /\ dirty \subseteq Sources
  /\ active \in [Sources -> Subs \cup {NoSub}]
  /\ closed \in BOOLEAN
  /\ source \in [Subs -> Sources]
  /\ version \in [Subs -> Versions \cup {Absent}]
  /\ held \in [Subs -> BOOLEAN]
  /\ retry \in [Subs -> BOOLEAN]
  /\ granted \in [Subs -> BOOLEAN]
  /\ pc \in [Callers -> {"idle", "changed", "working", "asking", "granted", "refused"}]
  /\ cancels \in [Callers -> SUBSET Subs]
  /\ pending \in [Callers -> SUBSET Subs]
  /\ at \in [Callers -> Subs \cup {NoSub}]
  /\ stopping \subseteq Subs

Busy(x) == \E c \in Callers : x \in pending[c] \cup {at[c]}

(* No active subscription is forgotten: somebody is attaching it, or it is *)
(* held, or its retry is scheduled (Retry clears next_try before it asks   *)
(* again, fail sets it). Otherwise the source would stay silent until its  *)
(* configuration changes, because Sync takes it for subscribed. The types  *)
(* are checked with it.                                                    *)
NoForgottenSubscription ==
  /\ TypeOK
  /\ \A s \in Live : LET x == active[s] IN Busy(x) \/ (held[x] /\ granted[x]) \/ retry[x]

(* When every Sync is through, the active subscriptions are those the      *)
(* registry asks for, with its latest configuration. A change that could   *)
(* not be saved is not followed by a Sync of its own (dirty).              *)
ActiveFollowsRegistry ==
  ~closed /\ (\A h \in Handlers : ~At(h, "changed")) =>
    \A s \in Sources \ dirty :
      IF registry[s] = Absent THEN active[s] = NoSub
      ELSE active[s] # NoSub /\ source[active[s]] = s /\ version[active[s]] = registry[s]

Idle == \A c \in Callers : At(c, "idle")

(* "The set of subscriptions is kept equal to the registry; additions,     *)
(* changes and disabling converge here" (Sync): between calls the pool has *)
(* no subscription but those of active sources. A leaked one keeps feeding *)
(* its source from a topic that was removed or changed.                    *)
NoOrphan == Idle /\ stopping = {} => \A x \in Subs : granted[x] => IsActive(x)

(* A source that stays subscribing is subscribed in the end, however often *)
(* the broker refused it before.                                           *)
RefusedIsRetried ==
  \A s \in Sources, v \in Versions :
    <>[](registry[s] = v /\ s \notin dirty /\ ~closed) =>
      <>(\E x \in Subs : active[s] = x /\ granted[x] /\ held[x])
=============================================================================
