----------------------------- MODULE MqttPublish -----------------------------
(***************************************************************************)
(* Publishing and receiving over one MQTT client: Publish with the table   *)
(* of pending requests (internal/mqtt/publish.go), the read loop that      *)
(* answers and resolves packets (session.go), and what connecting,         *)
(* disconnecting and Close do to them (client.go). The broker is external: *)
(* one clean session per connection, in-order delivery, both QoS           *)
(* handshakes; it may repeat a PUBLISH it has no answer for.               *)
(*                                                                         *)
(* As in MqttSubs, the client waits a second or more before it connects    *)
(* again, so that the callers of the last connection are done by then.     *)
(***************************************************************************)
EXTENDS Naturals, Sequences, FiniteSets, Functions

CONSTANTS
  Senders,     (* Callers of Publish.                                       *)
  MaxId,       (* The largest packet identifier, 65535.                     *)
  MaxCalls,    (* Bound: calls of Publish.                                  *)
  MaxIn,       (* Bound: messages the broker sends.                         *)
  MaxConns,    (* Bound: connections made.                                  *)
  MaxWire      (* Bound: packets under way when another message is sent.    *)

ASSUME MqttPublishAssumption ==
  /\ MaxId \in Nat \ {0}
  /\ {MaxCalls, MaxIn, MaxConns, MaxWire} \subseteq Nat

VARIABLES
  shut,        (* c.closed.                                                 *)
  link,        (* c.conn # nil, and c.link is open.                         *)
  alive,       (* The TCP connection works.                                 *)
  conns,       (* Connections so far.                                       *)
  nextId,      (* c.next_id.                                                *)
  pending,     (* c.pending: the codes in the channel of each identifier.   *)
  inbound,     (* c.inbound_qos2.                                           *)
  call,        (* What each publisher is doing, and for which message.      *)
  calls,       (* Messages published so far: they are numbered.             *)
  honest,      (* Auxiliary: Publish with QoS 1 or 2 has returned without   *)
               (* an error only for messages the broker had passed on.      *)
  received,    (* Auxiliary: how often OnMessage was given each message.    *)
  toBroker,    (* External: the two directions of the connection.           *)
  toClient,
  stored,      (* External: messages the broker holds until their PUBREL.   *)
  delivered,   (* External: how often it passed on each message.            *)
  sending,     (* External: the message it is sending, and how far it is.   *)
  sent         (* External: messages it has sent so far.                    *)

linkVars    == <<shut, link, alive, conns>>
tableVars   == <<nextId, pending>>
messageVars == <<call, calls, honest>>
brokerVars  == <<stored, delivered, sending, sent>>
publishVars == <<linkVars, tableVars, inbound, messageVars, received, toBroker, toClient, brokerVars>>

Messages == 1 .. MaxCalls
Incoming == 1 .. MaxIn
NoCall   == [pc |-> "idle"]
Silent   == [pc |-> "silent"]

PublishInit ==
  /\ shut = FALSE /\ link = FALSE /\ alive = FALSE
  /\ conns = 0
  /\ nextId = 0 /\ pending = <<>>
  /\ inbound = {}
  /\ call = [p \in Senders |-> NoCall]
  /\ calls = 0
  /\ honest = TRUE
  /\ received = [m \in Incoming |-> 0]
  /\ toBroker = <<>> /\ toClient = <<>>
  /\ stored = <<>>
  /\ delivered = [n \in Messages |-> 0]
  /\ sending = Silent
  /\ sent = 0

-----------------------------------------------------------------------------
With(table, id, value) == [i \in DOMAIN table \cup {id} |-> IF i = id THEN value ELSE table[i]]

(* Only a PUBLISH has a QoS, and an identifier only with QoS 1 or 2.       *)
Packet(type, id, n) == [type |-> type, qos |-> 0, id |-> id, n |-> n]
Publish(qos, id, n) == [type |-> "publish", qos |-> qos, id |-> id, n |-> n]

Does(p, pc) == call[p].pc = pc
Moves(p, pc) == call' = [call EXCEPT ![p].pc = pc]

(* Publish returns, and its deferred unregister has run.                   *)
Return(p, result) ==
  /\ honest' = (honest /\ (result = "ok" /\ call[p].qos > 0 => delivered[call[p].n] = 1))
  /\ call' = [call EXCEPT ![p] = NoCall]

Unregister(p) == pending' = Restrict(pending, DOMAIN pending \ {call[p].id})

(* send: over a connection that is broken the packet is lost, and whether  *)
(* the writer notices is open.                                             *)
Sends(packet) == toBroker' = IF alive THEN Append(toBroker, packet) ELSE toBroker

(* The callers of the last connection have returned.                       *)
NobodyLingers == \A p \in Senders : call[p].pc \in {"idle", "awaiting", "register"}

-----------------------------------------------------------------------------
(* dial, handshake and attach; the broker starts a new session.            *)
Attach ==
  /\ ~shut /\ ~link
  /\ NobodyLingers
  /\ conns < MaxConns
  /\ conns' = conns + 1
  /\ link' = TRUE /\ alive' = TRUE
  /\ UNCHANGED <<shut, tableVars, inbound, messageVars, received, toBroker, toClient, brokerVars>>

(* External: the connection breaks, and the session with it.               *)
Break ==
  /\ alive
  /\ alive' = FALSE
  /\ toBroker' = <<>> /\ toClient' = <<>>
  /\ stored' = <<>>
  /\ sending' = Silent
  /\ UNCHANGED <<shut, link, conns, tableVars, inbound, messageVars, received, delivered, sent>>

(* Mutant of Detach: identifiers of the old session are still taken for    *)
(* seen.                                                                   *)
DetachKeepsInbound ==
  /\ link' = FALSE /\ alive' = FALSE
  /\ pending' = <<>>
  /\ toBroker' = <<>> /\ toClient' = <<>>
  /\ stored' = <<>>
  /\ sending' = Silent
  /\ UNCHANGED <<shut, conns, nextId, inbound, messageVars, received, delivered, sent>>

(* detach: both tables are emptied and the link channel is closed.         *)
Detach ==
  /\ link' = FALSE /\ alive' = FALSE
  /\ pending' = <<>>
  /\ inbound' = {}
  /\ toBroker' = <<>> /\ toClient' = <<>>
  /\ stored' = <<>>
  /\ sending' = Silent
  /\ UNCHANGED <<shut, conns, nextId, messageVars, received, delivered, sent>>

(* read_loop ends and run calls detach.                                    *)
ReadEnds == link /\ ~alive /\ Detach

(* Close: no connection is made any more, who waits for one is woken.      *)
CloseBegins ==
  /\ ~shut
  /\ shut' = TRUE
  /\ UNCHANGED <<link, alive, conns, tableVars, inbound, messageVars, received, toBroker,
                 toClient, brokerVars>>

(* ... and the one there is goes.                                          *)
CloseDetaches == shut /\ link /\ Detach

-----------------------------------------------------------------------------
(* After Close it would return at once (Awaited).                          *)
PublishBegins(p, qos) ==
  /\ Does(p, "idle")
  /\ ~shut
  /\ calls < MaxCalls
  /\ calls' = calls + 1
  /\ call' = [call EXCEPT ![p] = [pc |-> "awaiting", qos |-> qos, id |-> 0, n |-> calls + 1]]
  /\ UNCHANGED <<linkVars, tableVars, inbound, honest, received, toBroker, toClient, brokerVars>>

(* Mutant of Awaited: only a connection wakes who waits for one.           *)
AwaitedConnected(p) ==
  /\ Does(p, "awaiting")
  /\ ~shut /\ link
  /\ Moves(p, IF call[p].qos = 0 THEN "send" ELSE "register")
  /\ UNCHANGED <<linkVars, tableVars, inbound, calls, honest, received, toBroker, toClient, brokerVars>>

(* AwaitConnection finds the client closed or connected.                   *)
Awaited(p) ==
  /\ Does(p, "awaiting")
  /\ \/ shut /\ Return(p, "error")
     \/ ~shut /\ link /\ Moves(p, IF call[p].qos = 0 THEN "send" ELSE "register") /\ UNCHANGED honest
  /\ UNCHANGED <<linkVars, tableVars, inbound, calls, received, toBroker, toClient, brokerVars>>

(* Identifiers in the order in which register tries them; 0 is skipped.    *)
Nth(i) == ((nextId + i - 1) % MaxId) + 1

(* Mutant of Fresh: an identifier that is waited for is taken again.       *)
FreshOrBusy == {Nth(1)}

(* The next identifier nobody waits for.                                   *)
Fresh ==
  {Nth(i) : i \in {k \in 1 .. MaxId :
     Nth(k) \notin DOMAIN pending /\ \A j \in 1 .. k - 1 : Nth(j) \in DOMAIN pending}}

(* What is on its way to an answer, and the answers: the broker has its    *)
(* own identifiers for what it sends.                                      *)
Asks(packet)    == packet.type = "pubrel" \/ (packet.type = "publish" /\ packet.qos > 0)
Answers(packet) == packet.type \in {"puback", "pubrec", "pubcomp"}

(* The last use of these identifiers is not over for the broker.           *)
Owed == DOMAIN stored
          \cup {toBroker[i].id : i \in {j \in DOMAIN toBroker : Asks(toBroker[j])}}
          \cup {toClient[i].id : i \in {j \in DOMAIN toClient : Answers(toClient[j])}}

(* register. With 65535 identifiers the answer to the last use of one has  *)
(* come long before its next use.                                          *)
Register(p) ==
  /\ Does(p, "register")
  /\ \/ /\ ~link
        /\ Return(p, "error")
        /\ UNCHANGED tableVars
     \/ /\ link /\ Fresh = {}
        /\ Return(p, "error")
        /\ UNCHANGED tableVars
     \/ /\ link
        /\ \E id \in Fresh \ Owed :
             /\ nextId' = id
             /\ pending' = With(pending, id, <<>>)
             /\ call' = [call EXCEPT ![p] = [pc |-> "send", qos |-> @.qos, id |-> id, n |-> @.n]]
        /\ UNCHANGED honest
  /\ UNCHANGED <<linkVars, inbound, calls, received, toBroker, toClient, brokerVars>>

(* The PUBLISH is written; with QoS 0 that is all.                         *)
Send(p) ==
  /\ Does(p, "send")
  /\ link
  /\ Len(toBroker) < MaxWire
  /\ Sends(Publish(call[p].qos, call[p].id, call[p].n))
  /\ IF call[p].qos = 0
       THEN Return(p, "ok")
       ELSE Moves(p, "wait") /\ UNCHANGED honest
  /\ UNCHANGED <<linkVars, tableVars, inbound, calls, received, toClient, brokerVars>>

SendFails(p) ==
  /\ Does(p, "send")
  /\ ~link \/ ~alive
  /\ Return(p, "error")
  /\ Unregister(p)
  /\ UNCHANGED <<linkVars, nextId, inbound, calls, received, toBroker, toClient, brokerVars>>

HasCode(p) == call[p].id \in DOMAIN pending /\ pending[call[p].id] # <<>>

(* Mutant of Answered: the first answer is the last one.                   *)
AnsweredOnce(p) ==
  /\ Does(p, "wait")
  /\ HasCode(p)
  /\ Return(p, "ok")
  /\ Unregister(p)
  /\ UNCHANGED <<linkVars, nextId, inbound, calls, received, toBroker, toClient, brokerVars>>

(* wait takes the first answer: that is all for QoS 1.                     *)
Answered(p) ==
  /\ Does(p, "wait")
  /\ HasCode(p)
  /\ LET code == Head(pending[call[p].id]) IN
     IF call[p].qos = 1
       THEN Return(p, IF code = 0 THEN "ok" ELSE "error") /\ Unregister(p)
       ELSE /\ Moves(p, "complete")
            /\ pending' = [pending EXCEPT ![call[p].id] = Tail(@)]
            /\ UNCHANGED honest
  /\ UNCHANGED <<linkVars, nextId, inbound, calls, received, toBroker, toClient, brokerVars>>

(* The second one, for QoS 2, must be PUBCOMP.                             *)
Completed(p) ==
  /\ Does(p, "complete")
  /\ HasCode(p)
  /\ Return(p, IF Head(pending[call[p].id]) = 2 THEN "ok" ELSE "error")
  /\ Unregister(p)
  /\ UNCHANGED <<linkVars, nextId, inbound, calls, received, toBroker, toClient, brokerVars>>

(* wait finds the link closed, or none.                                    *)
Woken(p) ==
  /\ call[p].pc \in {"wait", "complete"}
  /\ ~link
  /\ Return(p, "error")
  /\ Unregister(p)
  /\ UNCHANGED <<linkVars, nextId, inbound, calls, received, toBroker, toClient, brokerVars>>

(* The context of the caller ends, or ack_timeout is over.                 *)
TimesOut(p) ==
  /\ call[p].pc \in {"awaiting", "wait", "complete"}
  /\ Return(p, "error")
  /\ Unregister(p)
  /\ UNCHANGED <<linkVars, nextId, inbound, calls, received, toBroker, toClient, brokerVars>>

-----------------------------------------------------------------------------
(* The packet the read loop has read.                                      *)
Reads(type) == link /\ alive /\ toClient # <<>> /\ Head(toClient).type = type

(* deliver: the answer goes to whoever waits, if the channel has room.     *)
Deliver(id, code) ==
  pending' = IF id \in DOMAIN pending /\ Len(pending[id]) < 2
               THEN [pending EXCEPT ![id] = Append(@, code)] ELSE pending

(* PUBACK and PUBCOMP: resolve.                                            *)
ReadAck ==
  /\ \/ Reads("puback")  /\ Deliver(Head(toClient).id, 0)
     \/ Reads("pubcomp") /\ Deliver(Head(toClient).id, 2)
  /\ toClient' = Tail(toClient)
  /\ UNCHANGED <<linkVars, nextId, inbound, messageVars, received, toBroker, brokerVars>>

(* handle_pubrec: PUBREL whoever asked, then the answer.                   *)
ReadPubrec ==
  /\ Reads("pubrec")
  /\ Sends(Packet("pubrel", Head(toClient).id, 0))
  /\ Deliver(Head(toClient).id, 1)
  /\ toClient' = Tail(toClient)
  /\ UNCHANGED <<linkVars, nextId, inbound, messageVars, received, brokerVars>>

(* handle_publish: the answer first, then OnMessage, unless a message of   *)
(* QoS 2 with this identifier is waiting for its PUBREL.                   *)
ReadPublish ==
  /\ Reads("publish")
  /\ LET packet == Head(toClient)
         again  == packet.qos = 2 /\ packet.id \in inbound
     IN  /\ IF packet.qos = 0
              THEN UNCHANGED toBroker
              ELSE Sends(Packet(IF packet.qos = 1 THEN "puback" ELSE "pubrec", packet.id, packet.n))
         /\ inbound' = IF packet.qos = 2 THEN inbound \cup {packet.id} ELSE inbound
         /\ received' = IF again THEN received ELSE [received EXCEPT ![packet.n] = @ + 1]
  /\ toClient' = Tail(toClient)
  /\ UNCHANGED <<linkVars, tableVars, messageVars, brokerVars>>

(* handle_pubrel: the identifier is free for another message.              *)
ReadPubrel ==
  /\ Reads("pubrel")
  /\ inbound' = inbound \ {Head(toClient).id}
  /\ Sends(Packet("pubcomp", Head(toClient).id, Head(toClient).n))
  /\ toClient' = Tail(toClient)
  /\ UNCHANGED <<linkVars, tableVars, messageVars, received, brokerVars>>

-----------------------------------------------------------------------------
(* External: the broker takes a message, or an answer to one of its own.   *)
BrokerReads ==
  /\ alive /\ toBroker # <<>>
  /\ LET packet == Head(toBroker)
         held   == packet.id \in DOMAIN stored
         reply(type) == toClient' = Append(toClient, Packet(type, packet.id, packet.n))
         passes(n)   == delivered' = [delivered EXCEPT ![n] = @ + 1]
     IN  \/ /\ packet.type = "publish" /\ packet.qos = 0
            /\ passes(packet.n)
            /\ UNCHANGED <<toClient, stored, sending>>
         \/ /\ packet.type = "publish" /\ packet.qos = 1
            /\ passes(packet.n) /\ reply("puback")
            /\ UNCHANGED <<stored, sending>>
         \/ /\ packet.type = "publish" /\ packet.qos = 2
            /\ stored' = With(stored, packet.id, packet.n)
            /\ reply("pubrec")
            /\ UNCHANGED <<delivered, sending>>
         \/ /\ packet.type = "pubrel"
            /\ IF held THEN passes(stored[packet.id]) ELSE UNCHANGED delivered
            /\ stored' = Restrict(stored, DOMAIN stored \ {packet.id})
            /\ reply("pubcomp")
            /\ UNCHANGED sending
         \/ /\ packet.type \in {"puback", "pubcomp"}
            /\ sending' = Silent
            /\ UNCHANGED <<toClient, stored, delivered>>
         \/ /\ packet.type = "pubrec"
            /\ IF sending.pc = "sent"
                 THEN sending' = [sending EXCEPT !.pc = "released"] /\ reply("pubrel")
                 ELSE UNCHANGED <<sending, toClient>>
            /\ UNCHANGED <<stored, delivered>>
  /\ toBroker' = Tail(toBroker)
  /\ UNCHANGED <<linkVars, tableVars, inbound, messageVars, received, sent>>

(* External: the broker sends its next message; those of QoS 1 and 2 have  *)
(* identifier 1.                                                           *)
BrokerSends(qos) ==
  /\ alive
  /\ sending = Silent
  /\ sent < MaxIn
  /\ Len(toClient) < MaxWire
  /\ sent' = sent + 1
  /\ sending' = IF qos = 0 THEN Silent ELSE [pc |-> "sent", n |-> sent + 1, qos |-> qos]
  /\ toClient' = Append(toClient, Publish(qos, 1, sent + 1))
  /\ UNCHANGED <<linkVars, tableVars, inbound, messageVars, received, toBroker, stored, delivered>>

(* External: ... and sends it again, before it has an answer.              *)
BrokerRepeats ==
  /\ alive
  /\ sending.pc = "sent" /\ sending.qos = 2
  /\ Len(toClient) + Len(toBroker) <= MaxWire
  /\ toClient' = Append(toClient, Publish(2, 1, sending.n))
  /\ UNCHANGED <<linkVars, tableVars, inbound, messageVars, received, toBroker, brokerVars>>

CallStep(p) ==
  \/ Awaited(p) \/ Register(p) \/ Send(p) \/ SendFails(p)
  \/ Answered(p) \/ Completed(p) \/ Woken(p)

PublishNext ==
  \/ Attach \/ Break \/ ReadEnds \/ CloseBegins \/ CloseDetaches
  \/ \E p \in Senders :
       (\E qos \in 0 .. 2 : PublishBegins(p, qos)) \/ CallStep(p) \/ TimesOut(p)
  \/ ReadAck \/ ReadPubrec \/ ReadPublish \/ ReadPubrel
  \/ BrokerReads \/ (\E qos \in 0 .. 2 : BrokerSends(qos)) \/ BrokerRepeats

(* Calls go on when they can, and Close ends. Neither timeouts nor answers *)
(* are relied upon.                                                        *)
Fairness ==
  /\ \A p \in Senders : WF_publishVars(CallStep(p))
  /\ WF_publishVars(CloseDetaches)

PublishSpec == PublishInit /\ [][PublishNext]_publishVars /\ Fairness

-----------------------------------------------------------------------------
PublishTypeOK ==
  /\ shut \in BOOLEAN /\ link \in BOOLEAN /\ alive \in BOOLEAN /\ (alive => link)
  /\ nextId \in 0 .. MaxId
  /\ DOMAIN pending \subseteq 1 .. MaxId
  /\ \A id \in DOMAIN pending : pending[id] \in Seq(0 .. 2) /\ Len(pending[id]) <= 2
  /\ inbound \subseteq {1}
  /\ \A p \in Senders :
       call[p].pc \in {"idle", "awaiting", "register", "send", "wait", "complete"}
  /\ honest \in BOOLEAN
  /\ received \in [Incoming -> Nat] /\ delivered \in [Messages -> Nat]

Registered == {p \in Senders : call[p].pc \in {"send", "wait", "complete"} /\ call[p].qos > 0}

(* On a connection the table has the identifiers of the calls under way    *)
(* and nothing else, and no two calls share one, however identifiers wrap  *)
(* around and calls end by answers, timeouts and disconnections (register, *)
(* unregister, detach): nobody gets another's answer, nothing is left. The *)
(* types are checked with it.                                              *)
TableIsTheCalls ==
  /\ PublishTypeOK
  /\ link => DOMAIN pending = {call[p].id : p \in Registered}
  /\ link => \A p, q \in Registered : call[p].id = call[q].id => p = q

(* Publish with QoS 1 or 2 returns without an error only after the broker  *)
(* has taken the message over, and one of QoS 2 is passed on once at most, *)
(* whatever Publish returned.                                              *)
OkMeansDelivered == honest /\ \A n \in Messages : delivered[n] <= 1

(* A message of QoS 2 reaches OnMessage once at most, although the broker  *)
(* repeats it, and has reached it when the broker is told so: an identifier*)
(* used again does not swallow the next message (handle_publish, detach).  *)
IncomingOnce ==
  [][/\ \A m \in Incoming :
          received'[m] # received[m] /\ sending.pc # "silent" /\ sending.qos = 2 => received[m] = 0
     /\ sending.pc = "released" /\ sending' = Silent /\ alive' => received[sending.n] = 1]_publishVars

(* After Close every call of Publish returns, without waiting for its      *)
(* timeout or context ("wakes all callers", Close; wait returns at once    *)
(* when the link is closed).                                               *)
CloseWakesCallers == shut ~> \A p \in Senders : Does(p, "idle")
=============================================================================
