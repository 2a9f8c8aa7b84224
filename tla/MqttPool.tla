------------------------------- MODULE MqttPool -------------------------------
(***************************************************************************)
(* The connection pool of internal/transport/mqttpool.go, for the requests *)
(* that share one connection key: Subscribe and the cancel it returns,     *)
(* Publish, the idle timer that retires a connection nobody subscribes on, *)
(* and Close. Each step is what happens under one lock, p.mu or c.mu, or   *)
(* one call of the client under a connection.                              *)
(*                                                                         *)
(* The client (internal/mqtt) is seen through the calls the pool makes:    *)
(* SetSubscriptions keeps the set it is given, also when it reports an     *)
(* error, and reports none after Close. Module MqttSubs says what it does  *)
(* with the set. Timers are slow: a callback is over before the connection *)
(* lives through another mqtt_idle_timeout.                                *)
(***************************************************************************)
EXTENDS Naturals, FiniteSets

CONSTANTS
  Subscribers,   (* Callers of Subscribe and of the cancel it returns.      *)
  Publishers,    (* Callers of Publish.                                     *)
  Conns,         (* Names for the mqtt_conn values dialed.                  *)
  NoConn,        (* No connection under the key.                            *)
  SetMayFail     (* Can SetSubscriptions report an error?                   *)

Callers == Subscribers \cup Publishers

ASSUME MqttPoolAssumption ==
  /\ NoConn \notin Conns
  /\ IsFiniteSet(Conns)
  /\ SetMayFail \in BOOLEAN

VARIABLES
  current,       (* p.conns[key].                                           *)
  poolClosed,    (* p.closed.                                               *)
  closing,       (* The connections Close has taken and not yet shut down.  *)
  dialed,        (* The connections made so far.                            *)
  closed,        (* c.closed.                                               *)
  subs,          (* The subscribers with an entry in c.subs.                *)
  idle,          (* c.idle: nil, armed, or stale once its timer went off.   *)
  reaper,        (* The callback of the timer: none, fired, reaping,        *)
                 (* forgotten.                                              *)
  wanted,        (* The set the client was given last.                      *)
  dead,          (* The client was closed.                                  *)
  pc,            (* What each caller does.                                  *)
  conn,          (* The connection it does that with.                       *)
  desired        (* The set it has read from c.subs and will pass on.       *)

poolVars   == <<current, poolClosed, closing, dialed>>
connVars   == <<closed, subs, idle, reaper>>
clientVars == <<wanted, dead>>
callVars   == <<pc, conn, desired>>
vars == <<poolVars, connVars, clientVars, callVars>>

Init ==
  /\ current = NoConn
  /\ poolClosed = FALSE
  /\ closing = {}
  /\ dialed = {}
  /\ closed = [c \in Conns |-> FALSE]
  /\ subs = [c \in Conns |-> {}]
  /\ idle = [c \in Conns |-> "nil"]
  /\ reaper = [c \in Conns |-> "none"]
  /\ wanted = [c \in Conns |-> {}]
  /\ dead = [c \in Conns |-> FALSE]
  /\ pc = [u \in Callers |-> "out"]
  /\ conn = [u \in Callers |-> NoConn]
  /\ desired = [u \in Callers |-> {}]

At(u, l) == pc[u] = l
Goto(u, l) == pc' = [pc EXCEPT ![u] = l]

-----------------------------------------------------------------------------
(* get_or_create: the connection under the key, its idle timer stopped.    *)
TakeConn(u) ==
  /\ At(u, "out")
  /\ ~poolClosed
  /\ current # NoConn
  /\ idle' = [idle EXCEPT ![current] = "nil"]
  /\ conn' = [conn EXCEPT ![u] = current]
  /\ Goto(u, "got")
  /\ UNCHANGED <<poolVars, closed, subs, reaper, clientVars, desired>>

(* get_or_create: there is none, dial makes one.                           *)
DialConn(u, c) ==
  /\ At(u, "out")
  /\ ~poolClosed
  /\ current = NoConn
  /\ c \in Conns \ dialed
  /\ current' = c
  /\ dialed' = dialed \cup {c}
  /\ conn' = [conn EXCEPT ![u] = c]
  /\ Goto(u, "got")
  /\ UNCHANGED <<poolClosed, closing, connVars, clientVars, desired>>

(* Publish waits for the connection and sends, or fails.                   *)
PublishEnds(u) ==
  /\ u \in Publishers
  /\ At(u, "got")
  /\ Goto(u, "arming")
  /\ UNCHANGED <<poolVars, connVars, clientVars, conn, desired>>

(* add_subscription: refused on a closed connection, else recorded.        *)
AddSubscription(u) ==
  /\ u \in Subscribers
  /\ At(u, "got")
  /\ IF closed[conn[u]]
       THEN Goto(u, "arming") /\ UNCHANGED <<subs, desired>>
       ELSE /\ subs' = [subs EXCEPT ![conn[u]] = @ \cup {u}]
            /\ desired' = [desired EXCEPT ![u] = subs[conn[u]] \cup {u}]
            /\ Goto(u, "setting")
  /\ UNCHANGED <<poolVars, closed, idle, reaper, clientVars, conn>>

(* client.SetSubscriptions(desired), after c.mu was released.              *)
SetSubscriptions(u) ==
  /\ At(u, "setting")
  /\ wanted' = [wanted EXCEPT ![conn[u]] = desired[u]]
  /\ \/ Goto(u, "subscribed")
     \/ SetMayFail /\ ~dead[conn[u]] /\ Goto(u, "undoing")
  /\ UNCHANGED <<poolVars, connVars, dead, conn, desired>>

(* It reported an error: the entry is deleted again.                       *)
UndoSubscription(u) ==
  /\ At(u, "undoing")
  /\ subs' = [subs EXCEPT ![conn[u]] = @ \ {u}]
  /\ Goto(u, "arming")
  /\ UNCHANGED <<poolVars, closed, idle, reaper, clientVars, conn, desired>>

(* The cancel Subscribe returned; the first call of it counts.             *)
RemoveSubscription(u) ==
  /\ At(u, "subscribed")
  /\ subs' = [subs EXCEPT ![conn[u]] = @ \ {u}]
  /\ desired' = [desired EXCEPT ![u] = subs[conn[u]] \ {u}]
  /\ Goto(u, "unsetting")
  /\ UNCHANGED <<poolVars, closed, idle, reaper, clientVars, conn>>

(* client.SetSubscriptions(desired) in remove_subscription, error ignored. *)
UnsetSubscription(u) ==
  /\ At(u, "unsetting")
  /\ wanted' = [wanted EXCEPT ![conn[u]] = desired[u]]
  /\ Goto(u, "arming")
  /\ UNCHANGED <<poolVars, connVars, dead, conn, desired>>

(* arm_idle: a timer, unless there is one or the connection is in use.     *)
ArmIdle(u) ==
  /\ At(u, "arming")
  /\ LET c == conn[u]
     IN  idle' = IF closed[c] \/ subs[c] # {} \/ idle[c] # "nil"
                   THEN idle ELSE [idle EXCEPT ![c] = "armed"]
  /\ Goto(u, "out")
  /\ conn' = [conn EXCEPT ![u] = NoConn]
  /\ UNCHANGED <<poolVars, closed, subs, reaper, clientVars, desired>>

-----------------------------------------------------------------------------
(* The timer goes off; Stop comes too late from here on.                   *)
TimerFires(c) ==
  /\ idle[c] = "armed"
  /\ reaper[c] = "none"
  /\ idle' = [idle EXCEPT ![c] = "stale"]
  /\ reaper' = [reaper EXCEPT ![c] = "fired"]
  /\ UNCHANGED <<poolVars, closed, subs, clientVars, callVars>>

(* The callback asks, under c.mu, whether there are subscriptions.         *)
ReaperLooks(c) ==
  /\ reaper[c] = "fired"
  /\ reaper' = [reaper EXCEPT ![c] = IF subs[c] = {} THEN "reaping" ELSE "none"]
  /\ UNCHANGED <<poolVars, closed, subs, idle, clientVars, callVars>>

(* Mutant of Forget: the connection stays in the table while it is closed. *)
ForgetNothing(c) ==
  /\ reaper[c] = "reaping"
  /\ reaper' = [reaper EXCEPT ![c] = "forgotten"]
  /\ UNCHANGED <<poolVars, closed, subs, idle, clientVars, callVars>>

(* pool.forget(key): whatever is under the key goes.                       *)
Forget(c) ==
  /\ reaper[c] = "reaping"
  /\ current' = NoConn
  /\ reaper' = [reaper EXCEPT ![c] = "forgotten"]
  /\ UNCHANGED <<poolClosed, closing, dialed, closed, subs, idle, clientVars, callVars>>

(* shutdown by the callback.                                               *)
ReaperShutsDown(c) ==
  /\ reaper[c] = "forgotten"
  /\ reaper' = [reaper EXCEPT ![c] = "none"]
  /\ closed' = [closed EXCEPT ![c] = TRUE]
  /\ idle' = [idle EXCEPT ![c] = "nil"]
  /\ UNCHANGED <<poolVars, subs, clientVars, callVars>>

(* client.Close, the rest of shutdown.                                     *)
ClientCloses(c) ==
  /\ closed[c]
  /\ ~dead[c]
  /\ dead' = [dead EXCEPT ![c] = TRUE]
  /\ UNCHANGED <<poolVars, connVars, wanted, callVars>>

(* Mutant of ClosePool: the connections it takes are not remembered.       *)
ClosePoolDropsThem ==
  /\ ~poolClosed
  /\ poolClosed' = TRUE
  /\ current' = NoConn
  /\ UNCHANGED <<closing, dialed, connVars, clientVars, callVars>>

(* Close takes the table, and shuts the connections down after that.       *)
ClosePool ==
  /\ ~poolClosed
  /\ poolClosed' = TRUE
  /\ closing' = {c \in Conns : c = current}
  /\ current' = NoConn
  /\ UNCHANGED <<dialed, connVars, clientVars, callVars>>

CloseShutsDown(c) ==
  /\ c \in closing
  /\ closing' = closing \ {c}
  /\ closed' = [closed EXCEPT ![c] = TRUE]
  /\ idle' = IF closed[c] THEN idle ELSE [idle EXCEPT ![c] = "nil"]
  /\ UNCHANGED <<current, poolClosed, dialed, subs, reaper, clientVars, callVars>>

-----------------------------------------------------------------------------
Enter(u) == TakeConn(u) \/ \E c \in Conns : DialConn(u, c)

Proceed(u) ==
  \/ PublishEnds(u)
  \/ AddSubscription(u)
  \/ SetSubscriptions(u)
  \/ UndoSubscription(u)
  \/ UnsetSubscription(u)
  \/ ArmIdle(u)

Background(c) ==
  TimerFires(c) \/ ReaperLooks(c) \/ Forget(c) \/ ReaperShutsDown(c)
    \/ ClientCloses(c) \/ CloseShutsDown(c)

Next ==
  \/ \E u \in Callers : Enter(u) \/ Proceed(u) \/ RemoveSubscription(u)
  \/ \E c \in Conns : Background(c)
  \/ ClosePool

Spec == Init /\ [][Next]_vars

(* A call that has begun goes on and timers go off. Nobody has to call.    *)
FairSpec ==
  /\ Spec
  /\ \A u \in Callers : WF_vars(Proceed(u))
  /\ \A c \in Conns : WF_vars(Background(c))

-----------------------------------------------------------------------------
CallerStates ==
  {"out", "got", "setting", "subscribed", "undoing", "unsetting", "arming"}

TypeOK ==
  /\ current \in Conns \cup {NoConn}
  /\ poolClosed \in BOOLEAN
  /\ closing \subseteq Conns
  /\ dialed \subseteq Conns
  /\ closed \in [Conns -> BOOLEAN]
  /\ subs \in [Conns -> SUBSET Subscribers]
  /\ idle \in [Conns -> {"nil", "armed", "stale"}]
  /\ reaper \in [Conns -> {"none", "fired", "reaping", "forgotten"}]
  /\ wanted \in [Conns -> SUBSET Subscribers]
  /\ dead \in [Conns -> BOOLEAN]
  /\ pc \in [Callers -> CallerStates]
  /\ conn \in [Callers -> Conns \cup {NoConn}]
  /\ desired \in [Callers -> SUBSET Subscribers]

(* Every connection ever dialed is the one in the table of an open pool,   *)
(* neither closed nor dead, or it is closed, or about to be closed by      *)
(* whoever took it out of the table: no interleaving of requests, timers   *)
(* and Close hands out a closed connection (get_or_create) or leaves a     *)
(* socket behind, and one key has at most one connection that stays. The   *)
(* types are checked with it.                                              *)
ConnsAreAccountedFor ==
  /\ TypeOK
  /\ current # NoConn => ~closed[current] /\ ~dead[current]
  /\ \A c \in dialed :
       \/ current = c /\ ~poolClosed
       \/ closed[c]
       \/ reaper[c] = "forgotten"
       \/ c \in closing

Quiet(c) == \A u \in Callers : conn[u] = c => At(u, "subscribed")

(* Between calls the client of an open connection has been given exactly   *)
(* the subscriptions registered on it: "registers a subscription and makes *)
(* the broker converge at once" (add_subscription).                        *)
WantedFollowsSubs ==
  \A c \in Conns : Quiet(c) /\ ~closed[c] => wanted[c] = subs[c]

(* Close leaves no connection open, whatever else is going on.             *)
CloseRetiresAll == poolClosed ~> \A c \in dialed : dead[c]
=============================================================================
