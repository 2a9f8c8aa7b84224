------------------------------- MODULE MqttSubs -------------------------------
(***************************************************************************)
(* The subscriptions of one MQTT client: SetSubscriptions and reconcile of *)
(* internal/mqtt/subscribe.go, with the connection loop (run, attach,      *)
(* detach, Close) of client.go and wait of publish.go. The broker is       *)
(* external: it keeps a clean session per connection, handles SUBSCRIBE    *)
(* and UNSUBSCRIBE in order and answers each of them.                      *)
(*                                                                         *)
(* A topic is a number, so that sort.Strings is the order of numbers; all  *)
(* have the same QoS. The client waits a second or more before it connects *)
(* again: a caller that was woken by the end of a connection is done by    *)
(* then, and an acknowledged topic has reached applied.                    *)
(***************************************************************************)
EXTENDS Naturals, Sequences, FiniteSets

CONSTANTS
  Topics,      (* Topic filters, as numbers in their sorting order.         *)
  Rejected,    (* Those the broker refuses with 0x80.                       *)
  Setters,     (* Callers of SetSubscriptions.                              *)
  Run,         (* The goroutine of run, which reconciles once per connection*)
  Nobody,      (* reconcile_mu is free; nobody waits for the reply.         *)
  MaxConns,    (* Bound: connections made.                                  *)
  MaxWire      (* Bound: packets on their way to the broker.                *)

Callers == Setters \cup {Run}

ASSUME MqttSubsAssumption ==
  /\ Topics \subseteq Nat
  /\ Rejected \subseteq Topics
  /\ Run \notin Setters
  /\ Nobody \notin Callers
  /\ MaxConns \in Nat
  /\ MaxWire \in Nat \ {0}

VARIABLES
  closed,      (* c.closed, and the context of run is done.                 *)
  run,         (* run: dialing, attached, reconciling, reading, returned.   *)
  conns,       (* Connections so far.                                       *)
  link,        (* c.conn # nil, and c.link is open.                         *)
  alive,       (* The TCP connection works.                                 *)
  readDone,    (* read_loop has returned.                                   *)
  wanted,      (* c.wanted.                                                 *)
  applied,     (* c.applied.                                                *)
  mu,          (* The holder of reconcile_mu.                               *)
  pc,          (* idle, locking, looking, sending, subscribing,             *)
               (* unsubscribing.                                            *)
  add,         (* The lists reconcile works on.                             *)
  remove,
  reply,       (* What has come for the packet it waits for: none, ok,      *)
               (* refused.                                                  *)
  restored,    (* Auxiliary: the last reconcile reported no error, and was  *)
               (* on this connection.                                       *)
  givenUp,     (* Auxiliary: the topics of requests on this connection that *)
               (* were not answered within ack_timeout.                     *)
  wire,        (* External: the packets on their way to the broker.         *)
  session      (* External: the subscriptions of the connection's session.  *)

runVars  == <<closed, run, conns>>
linkVars == <<link, alive, readDone>>
topicVars == <<wanted, applied>>
callVars == <<mu, pc, add, remove, reply>>
brokerVars == <<wire, session>>
auxVars == <<restored, givenUp>>
vars == <<runVars, linkVars, topicVars, callVars, auxVars, brokerVars>>

Init ==
  /\ closed = FALSE
  /\ run = "dialing"
  /\ conns = 0
  /\ link = FALSE /\ alive = FALSE /\ readDone = FALSE
  /\ wanted = {} /\ applied = {}
  /\ mu = Nobody
  /\ pc = [c \in Callers |-> "idle"]
  /\ add = {} /\ remove = {}
  /\ reply = "none"
  /\ restored = TRUE
  /\ givenUp = {}
  /\ wire = <<>> /\ session = {}

At(c, l) == pc[c] = l
Goto(c, l) == pc' = [pc EXCEPT ![c] = l]
First(S) == CHOOSE t \in S : \A u \in S : t <= u

-----------------------------------------------------------------------------
(* The backoff gives the callers of the last connection time to return.    *)
NobodyLingers == \A c \in Callers : pc[c] \in {"idle", "locking", "looking"}

(* Mutant of Attach: what was applied on the last connection still counts. *)
AttachKeepsApplied ==
  /\ run = "dialing"
  /\ ~closed
  /\ NobodyLingers
  /\ conns < MaxConns
  /\ conns' = conns + 1
  /\ run' = "attached"
  /\ link' = TRUE /\ alive' = TRUE /\ readDone' = FALSE
  /\ restored' = FALSE /\ givenUp' = {}
  /\ wire' = <<>> /\ session' = {}
  /\ UNCHANGED <<closed, topicVars, callVars>>

(* dial succeeds, attach resets applied, read_loop starts.                 *)
Attach ==
  /\ run = "dialing"
  /\ ~closed
  /\ NobodyLingers
  /\ conns < MaxConns
  /\ conns' = conns + 1
  /\ run' = "attached"
  /\ link' = TRUE /\ alive' = TRUE /\ readDone' = FALSE
  /\ applied' = {}
  /\ restored' = FALSE /\ givenUp' = {}
  /\ wire' = <<>> /\ session' = {}
  /\ UNCHANGED <<closed, wanted, callVars>>

(* Close came between dial and attach, or ctx ends: run returns.           *)
RunReturns ==
  /\ run = "dialing"
  /\ closed
  /\ run' = "returned"
  /\ UNCHANGED <<closed, conns, linkVars, topicVars, callVars, auxVars, brokerVars>>

(* run calls reconcile, and goes on when it returns.                       *)
RunReconciles ==
  /\ run = "attached"
  /\ run' = "reconciling"
  /\ Goto(Run, "locking")
  /\ UNCHANGED <<closed, conns, linkVars, topicVars, mu, add, remove, reply, auxVars, brokerVars>>

RunReads ==
  /\ run = "reconciling"
  /\ At(Run, "idle")
  /\ run' = "reading"
  /\ UNCHANGED <<closed, conns, linkVars, topicVars, callVars, auxVars, brokerVars>>

(* External: the connection breaks.                                        *)
Break ==
  /\ alive
  /\ alive' = FALSE
  /\ wire' = <<>>
  /\ UNCHANGED <<runVars, link, readDone, topicVars, callVars, auxVars, session>>

(* read_loop fails to read, or finds the connection gone.                  *)
ReadEnds ==
  /\ run \in {"attached", "reconciling", "reading"}
  /\ ~alive
  /\ ~readDone
  /\ readDone' = TRUE
  /\ UNCHANGED <<runVars, link, alive, topicVars, callVars, auxVars, brokerVars>>

(* run takes the result of read_loop and detaches; then the backoff.       *)
Detach ==
  /\ run = "reading"
  /\ readDone
  /\ run' = "dialing"
  /\ link' = FALSE
  /\ applied' = {}
  /\ UNCHANGED <<closed, conns, alive, readDone, wanted, callVars, auxVars, brokerVars>>

(* Client.Close: the context ends, the connection is detached and closed.  *)
Close ==
  /\ ~closed
  /\ closed' = TRUE
  /\ link' = FALSE /\ alive' = FALSE
  /\ applied' = {}
  /\ wire' = <<>>
  /\ UNCHANGED <<run, conns, readDone, wanted, callVars, auxVars, session>>

-----------------------------------------------------------------------------
(* SetSubscriptions: the wanted set is replaced, then reconcile is called. *)
SetSubscriptions(c, S) ==
  /\ c \in Setters
  /\ At(c, "idle")
  /\ wanted' = S
  /\ Goto(c, "locking")
  /\ UNCHANGED <<runVars, linkVars, applied, mu, add, remove, reply, auxVars, brokerVars>>

(* reconcile: reconcile_mu ...                                             *)
Lock(c) ==
  /\ At(c, "locking")
  /\ mu = Nobody
  /\ mu' = c
  /\ Goto(c, "looking")
  /\ UNCHANGED <<runVars, linkVars, topicVars, add, remove, reply, auxVars, brokerVars>>

(* The reconcile of c is over, with or without an error.                   *)
Return(c, ok) ==
  /\ mu' = Nobody
  /\ Goto(c, "idle")
  /\ restored' = ok

(* ... and, under c.mu, the difference of the sets.                        *)
LookOffline(c) ==
  /\ At(c, "looking")
  /\ ~link
  /\ Return(c, restored)
  /\ UNCHANGED <<runVars, linkVars, topicVars, add, remove, reply, brokerVars, givenUp>>

(* Mutant of Look: topics that are no longer wanted stay subscribed.       *)
LookForNewOnly(c) ==
  /\ At(c, "looking")
  /\ link
  /\ add' = wanted \ applied
  /\ remove' = {}
  /\ Goto(c, "sending")
  /\ UNCHANGED <<runVars, linkVars, topicVars, mu, reply, auxVars, brokerVars>>

Look(c) ==
  /\ At(c, "looking")
  /\ link
  /\ add' = wanted \ applied
  /\ remove' = applied \ wanted
  /\ Goto(c, "sending")
  /\ UNCHANGED <<runVars, linkVars, topicVars, mu, reply, auxVars, brokerVars>>

(* The next packet in the order of the lists: SUBSCRIBEs first.            *)
NextPacket(c) ==
  [ask |-> IF add # {} THEN "subscribe" ELSE "unsubscribe",
   topic |-> First(IF add # {} THEN add ELSE remove), from |-> c]

(* register and send succeed; what is sent into a broken connection is lost*)
Send(c) ==
  /\ At(c, "sending")
  /\ add \cup remove # {}
  /\ link
  /\ Len(wire) < MaxWire
  /\ reply' = "none"
  /\ wire' = IF alive THEN Append(wire, NextPacket(c)) ELSE wire
  /\ Goto(c, IF add # {} THEN "subscribing" ELSE "unsubscribing")
  /\ UNCHANGED <<runVars, linkVars, topicVars, mu, add, remove, auxVars, session>>

(* There is no connection any more, or writing to a broken one fails.      *)
SendFails(c) ==
  /\ At(c, "sending")
  /\ add \cup remove # {}
  /\ ~alive
  /\ Return(c, FALSE)
  /\ UNCHANGED <<runVars, linkVars, topicVars, add, remove, reply, brokerVars, givenUp>>

(* Both lists are done.                                                    *)
Reconciled(c) ==
  /\ At(c, "sending")
  /\ add \cup remove = {}
  /\ Return(c, TRUE)
  /\ UNCHANGED <<runVars, linkVars, topicVars, add, remove, reply, brokerVars, givenUp>>

(* External: the broker handles a packet and answers.                      *)
BrokerAnswers ==
  /\ alive
  /\ wire # <<>>
  /\ LET p == Head(wire)
         refused == p.ask = "subscribe" /\ p.topic \in Rejected
     IN  /\ session' = IF p.ask = "unsubscribe" THEN session \ {p.topic}
                       ELSE IF refused THEN session ELSE session \cup {p.topic}
         /\ reply' = IF p.from = Nobody THEN reply
                     ELSE IF refused THEN "refused" ELSE "ok"
  /\ wire' = Tail(wire)
  /\ UNCHANGED <<runVars, linkVars, topicVars, mu, pc, add, remove, auxVars>>

(* Mutant of Subscribed: the code of the SUBACK is not looked at.          *)
SubscribedAnyway(c) ==
  /\ At(c, "subscribing")
  /\ reply # "none"
  /\ applied' = applied \cup {First(add)}
  /\ add' = add \ {First(add)}
  /\ Goto(c, "sending")
  /\ UNCHANGED <<runVars, linkVars, wanted, mu, remove, reply, auxVars, brokerVars>>

(* The SUBACK arrives and the topic counts as applied.                     *)
Subscribed(c) ==
  /\ At(c, "subscribing")
  /\ reply = "ok"
  /\ applied' = applied \cup {First(add)}
  /\ add' = add \ {First(add)}
  /\ Goto(c, "sending")
  /\ UNCHANGED <<runVars, linkVars, wanted, mu, remove, reply, auxVars, brokerVars>>

(* The SUBACK says no: reconcile gives up.                                 *)
SubscribeRefused(c) ==
  /\ At(c, "subscribing")
  /\ reply = "refused"
  /\ Return(c, FALSE)
  /\ UNCHANGED <<runVars, linkVars, topicVars, add, remove, reply, brokerVars, givenUp>>

Unsubscribed(c) ==
  /\ At(c, "unsubscribing")
  /\ reply = "ok"
  /\ applied' = applied \ {First(remove)}
  /\ remove' = remove \ {First(remove)}
  /\ Goto(c, "sending")
  /\ UNCHANGED <<runVars, linkVars, wanted, mu, add, reply, auxVars, brokerVars>>

Waiting(c) == pc[c] \in {"subscribing", "unsubscribing"}

(* A late answer finds nobody waiting for its packet identifier.           *)
Orphaned == [i \in DOMAIN wire |-> [wire[i] EXCEPT !.from = Nobody]]

(* wait: the link is closed, or the context of the client is done.         *)
Woken(c) ==
  /\ Waiting(c)
  /\ ~link
  /\ Return(c, FALSE)
  /\ wire' = Orphaned
  /\ UNCHANGED <<runVars, linkVars, topicVars, add, remove, reply, session, givenUp>>

(* wait: ten seconds have passed; the answer may come later, or have come  *)
(* by the time the select looks, which takes any of what is ready.         *)
TimesOut(c) ==
  /\ Waiting(c)
  /\ Return(c, FALSE)
  /\ givenUp' = givenUp \cup {NextPacket(c).topic}
  /\ wire' = Orphaned
  /\ UNCHANGED <<runVars, linkVars, topicVars, add, remove, reply, session>>

-----------------------------------------------------------------------------
RunStep == Attach \/ RunReturns \/ RunReconciles \/ RunReads \/ ReadEnds \/ Detach

Reconcile(c) ==
  \/ LookOffline(c) \/ Look(c)
  \/ Send(c) \/ SendFails(c) \/ Reconciled(c)
  \/ Subscribed(c) \/ SubscribeRefused(c) \/ Unsubscribed(c)
  \/ Woken(c) \/ TimesOut(c)

Next ==
  \/ RunStep
  \/ Break
  \/ Close
  \/ BrokerAnswers
  \/ \E c \in Setters, S \in SUBSET Topics : SetSubscriptions(c, S)
  \/ \E c \in Callers : Lock(c) \/ Reconcile(c)

Spec == Init /\ [][Next]_vars

(* Goroutines run on, the broker answers, a mutex is handed to each who    *)
(* waits for it. Connections need not break, nobody needs to call.         *)
FairSpec ==
  /\ Spec
  /\ WF_vars(RunStep)
  /\ WF_vars(BrokerAnswers)
  /\ \A c \in Callers : SF_vars(Lock(c)) /\ WF_vars(Reconcile(c))

-----------------------------------------------------------------------------
Packets == [ask : {"subscribe", "unsubscribe"}, topic : Topics, from : Callers \cup {Nobody}]

TypeOK ==
  /\ closed \in BOOLEAN
  /\ run \in {"dialing", "attached", "reconciling", "reading", "returned"}
  /\ conns \in 0 .. MaxConns
  /\ link \in BOOLEAN /\ alive \in BOOLEAN /\ readDone \in BOOLEAN
  /\ wanted \subseteq Topics /\ applied \subseteq Topics
  /\ mu \in Callers \cup {Nobody}
  /\ pc \in [Callers -> {"idle", "locking", "looking", "sending", "subscribing", "unsubscribing"}]
  /\ \A c \in Callers : pc[c] \notin {"idle", "locking"} <=> mu = c
  /\ add \subseteq Topics /\ remove \subseteq Topics
  /\ reply \in {"none", "ok", "refused"}
  /\ restored \in BOOLEAN /\ givenUp \subseteq Topics
  /\ wire \in Seq(Packets)
  /\ session \subseteq Topics

(* "applied holds the subscriptions confirmed on the current connection"   *)
(* (Client): with nobody at work, it has what the broker's session has,    *)
(* whatever connections, refusals and callers came before. A topic that is *)
(* in applied but not there is never subscribed again while the connection *)
(* lasts; one that is there but not in applied is never given up. Only     *)
(* requests that were not answered in time leave their topics in doubt: an *)
(* UNSUBACK that comes too late does that. The types are checked with it.  *)
AppliedIsAcknowledged ==
  TypeOK /\ (alive /\ mu = Nobody => applied \ givenUp = session \ givenUp)

(* Between calls, when the last reconcile on this connection reported no   *)
(* error, the broker has exactly the wanted topics, whichever call set them*)
(* and whichever did the work: the caller that comes last finds it done.   *)
SessionFollowsWanted ==
  alive /\ restored /\ (\A c \in Callers : At(c, "idle")) =>
    session \ givenUp = wanted \ givenUp /\ applied = wanted

(* "The client keeps the connection alive and restores the subscriptions   *)
(* by itself" (Client): on a connection that lasts, with a broker that     *)
(* answers in time, a topic that stays wanted and that the broker accepts  *)
(* is subscribed, whatever became of the connections before and of topics  *)
(* that come after it. One the broker refuses holds up all that come after *)
(* it, until it is wanted no more.                                         *)
HealthyTopicsRestored ==
  \A t \in Topics \ Rejected :
    <>[](t \in wanted /\ alive /\ link /\ givenUp = {} /\ (\A r \in wanted \cap Rejected : r > t)) =>
      <>[](t \in session)
=============================================================================
