------------------------------ MODULE MqttProofs ------------------------------
(***************************************************************************)
(* Theorems about MqttPool, for every number of callers and connections,   *)
(* and about MqttPublish, for every number of senders, identifiers and     *)
(* messages.                                                               *)
(***************************************************************************)
EXTENDS MqttPool, MqttPublish, TLAPS

(* Of a connection that was never dialed nothing is known.                 *)
Untouched ==
  \A c \in Conns \ dialed :
    ~closed[c] /\ ~dead[c] /\ reaper[c] = "none" /\ idle[c] = "nil"

(* Calls use connections that were dialed.                                 *)
CallsHaveConns ==
  \A u \in Callers : conn[u] \in dialed \/ (conn[u] = NoConn /\ pc[u] = "out")

(* A closed pool has no table; Close takes connections only by closing it. *)
TableOfThePool ==
  /\ poolClosed => current = NoConn
  /\ closing # {} => poolClosed
  /\ closing \subseteq dialed

(* The connection in the table is open, and nobody is shutting it down.    *)
CurrentIsOpen ==
  current # NoConn =>
    /\ current \in dialed
    /\ ~closed[current] /\ ~dead[current]
    /\ reaper[current] # "forgotten"

(* A timer runs, and its callback is under way, only for the connection in *)
(* the table, so that forget, which takes whatever is under the key, never *)
(* takes another one; a closed pool has none to take.                      *)
TimersAreForCurrent ==
  \A c \in Conns :
    (idle[c] = "armed" /\ reaper[c] = "none") \/ reaper[c] \in {"fired", "reaping"}
      => c = current \/ poolClosed

DeadIsClosed == \A c \in Conns : dead[c] => closed[c]

(* The inductive invariant of the pool.                                    *)
PoolInv ==
  /\ ConnsAreAccountedFor
  /\ Untouched /\ CallsHaveConns /\ TableOfThePool /\ CurrentIsOpen
  /\ TimersAreForCurrent /\ DeadIsClosed

-----------------------------------------------------------------------------
LEMMA PoolInit == Init => PoolInv
  BY MqttPoolAssumption
  DEF Init, PoolInv, ConnsAreAccountedFor, TypeOK, Untouched, CallsHaveConns, TableOfThePool,
      CurrentIsOpen, TimersAreForCurrent, DeadIsClosed, CallerStates

(* The steps of a caller that touch no connection but its own.             *)
LEMMA CallPreserves ==
  ASSUME PoolInv, NEW u \in Callers,
         \/ TakeConn(u) \/ PublishEnds(u) \/ AddSubscription(u) \/ SetSubscriptions(u)
         \/ UndoSubscription(u) \/ RemoveSubscription(u) \/ UnsetSubscription(u) \/ ArmIdle(u)
  PROVE  PoolInv'
<1> USE MqttPoolAssumption
    DEF PoolInv, ConnsAreAccountedFor, TypeOK, Untouched, CallsHaveConns, TableOfThePool,
        CurrentIsOpen, TimersAreForCurrent, DeadIsClosed, CallerStates, At, Goto,
        poolVars, connVars, clientVars
<1>1. CASE TakeConn(u)
  BY <1>1 DEF TakeConn
<1>2. CASE PublishEnds(u)
  BY <1>2 DEF PublishEnds
<1>3. CASE AddSubscription(u)
  BY <1>3 DEF AddSubscription
<1>4. CASE SetSubscriptions(u)
  BY <1>4 DEF SetSubscriptions
<1>5. CASE UndoSubscription(u)
  BY <1>5 DEF UndoSubscription
<1>6. CASE RemoveSubscription(u)
  BY <1>6 DEF RemoveSubscription
<1>7. CASE UnsetSubscription(u)
  BY <1>7 DEF UnsetSubscription
<1>8. CASE ArmIdle(u)
  BY <1>8 DEF ArmIdle
<1> QED
  BY <1>1, <1>2, <1>3, <1>4, <1>5, <1>6, <1>7, <1>8

(* A new connection comes when the table is empty, so no timer is running. *)
LEMMA DialPreserves ==
  ASSUME PoolInv, NEW u \in Callers, NEW c \in Conns, DialConn(u, c)
  PROVE  PoolInv'
<1> USE MqttPoolAssumption
    DEF PoolInv, ConnsAreAccountedFor, TypeOK, Untouched, CallsHaveConns, TableOfThePool,
        CurrentIsOpen, TimersAreForCurrent, DeadIsClosed, CallerStates, At, Goto,
        connVars, clientVars
<1> QED
  BY DEF DialConn

(* Timers and their callbacks, and Close.                                  *)
LEMMA BackgroundPreserves ==
  ASSUME PoolInv, NEW c \in Conns, Background(c) PROVE PoolInv'
<1> USE MqttPoolAssumption
    DEF PoolInv, ConnsAreAccountedFor, TypeOK, Untouched, CallsHaveConns, TableOfThePool,
        CurrentIsOpen, TimersAreForCurrent, DeadIsClosed, poolVars, connVars, clientVars, callVars
<1>1. CASE TimerFires(c)
  BY <1>1 DEF TimerFires
<1>2. CASE ReaperLooks(c)
  BY <1>2 DEF ReaperLooks
<1>3. CASE Forget(c)
  BY <1>3 DEF Forget
<1>4. CASE ReaperShutsDown(c)
  BY <1>4 DEF ReaperShutsDown
<1>5. CASE ClientCloses(c)
  BY <1>5 DEF ClientCloses
<1>6. CASE CloseShutsDown(c)
  BY <1>6 DEF CloseShutsDown
<1> QED
  BY <1>1, <1>2, <1>3, <1>4, <1>5, <1>6 DEF Background

LEMMA ClosePreserves == ASSUME PoolInv, ClosePool PROVE PoolInv'
  BY MqttPoolAssumption
  DEF ClosePool, PoolInv, ConnsAreAccountedFor, TypeOK, Untouched, CallsHaveConns, TableOfThePool,
      CurrentIsOpen, TimersAreForCurrent, DeadIsClosed, connVars, clientVars, callVars

LEMMA StutterPreserves == ASSUME PoolInv, UNCHANGED vars PROVE PoolInv'
  BY DEF vars, poolVars, connVars, clientVars, callVars, PoolInv, ConnsAreAccountedFor, TypeOK,
      Untouched, CallsHaveConns, TableOfThePool, CurrentIsOpen, TimersAreForCurrent, DeadIsClosed

(* The inductive invariant holds throughout.                               *)
THEOREM PoolInvariant == Spec => []PoolInv
<1>1. PoolInv /\ [Next]_vars => PoolInv'
  BY CallPreserves, DialPreserves, BackgroundPreserves, ClosePreserves, StutterPreserves
  DEF Next, Enter, Proceed
<1> QED
  BY PoolInit, <1>1, PTL DEF Spec

(* No interleaving of requests, timers and Close hands out a connection    *)
(* that is closed, or leaves one open that nobody is going to close        *)
(* (get_or_create, the callback of arm_idle, Close).                       *)
THEOREM NoConnIsLost == Spec => []ConnsAreAccountedFor
  BY PoolInvariant, PTL DEF PoolInv

-----------------------------------------------------------------------------
(* MqttPublish. Messages are followed by their number n, handshakes by     *)
(* their identifier: a number is in one place at a time, and an identifier *)
(* is asked about or answered by one packet at a time.                     *)

(* Calls under way, those whose PUBLISH is not written, and the values of  *)
(* call.                                                                   *)
Calling == {p \in Senders : call[p].pc # "idle"}
Unsent  == {p \in Senders : call[p].pc \in {"awaiting", "register", "send"}}
Steps   == {"awaiting", "register", "send", "wait", "complete"}
Packets == [type : {"publish", "puback", "pubrec", "pubrel", "pubcomp"}, qos : 0 .. 2,
            id : 0 .. MaxId, n : Nat]
Calls(m) == {NoCall} \cup [pc : Steps, qos : 0 .. 2, id : 0 .. MaxId, n : 1 .. m]

(* Types, and what goes with a connection: without one the tables are      *)
(* empty, and a connection that is broken carries nothing.                 *)
LinkInv ==
  /\ PublishTypeOK
  /\ calls \in 0 .. MaxCalls /\ sent \in 0 .. MaxIn
  /\ toBroker \in Seq(Packets) /\ toClient \in Seq(Packets)
  /\ call \in [Senders -> Calls(calls)]
  /\ \A p \in Calling : /\ call[p].id # 0 <=> p \in Registered
                        /\ call[p].pc \in {"register", "wait", "complete"} => call[p].qos > 0
  /\ DOMAIN stored \subseteq 1 .. MaxId
  /\ \A id \in DOMAIN stored : stored[id] \in 1 .. calls
  /\ sending \in {Silent} \cup [pc : {"sent", "released"}, n : 1 .. sent, qos : 1 .. 2]
  /\ ~link => ~alive /\ DOMAIN pending = {} /\ inbound = {}
  /\ ~alive => toBroker = <<>> /\ toClient = <<>> /\ DOMAIN stored = {} /\ sending = Silent

(* A message is with its call, on its way, held by the broker or passed    *)
(* on, and only one of these.                                              *)
NumberInv ==
  /\ \A i \in DOMAIN toBroker : toBroker[i].type = "publish" =>
       /\ toBroker[i].n \in 1 .. calls /\ delivered[toBroker[i].n] = 0
       /\ toBroker[i].qos > 0 => toBroker[i].id # 0
       /\ \A id \in DOMAIN stored : stored[id] # toBroker[i].n
  /\ \A i, j \in DOMAIN toBroker :
       toBroker[i].type = "publish" /\ toBroker[j].type = "publish" /\ toBroker[i].n = toBroker[j].n => i = j
  /\ \A id \in DOMAIN stored : delivered[stored[id]] = 0
  /\ \A id, jd \in DOMAIN stored : stored[id] = stored[jd] => id = jd
  /\ \A n \in Messages : delivered[n] <= 1 /\ (n > calls => delivered[n] = 0)
  /\ \A p, q \in Calling : call[p].n = call[q].n => p = q
  /\ \A p \in Unsent :
       /\ delivered[call[p].n] = 0
       /\ \A i \in DOMAIN toBroker : toBroker[i].type = "publish" => toBroker[i].n # call[p].n
       /\ \A id \in DOMAIN stored : stored[id] # call[p].n

(* Of each handshake that the client began one packet is under way; what   *)
(* the broker is asked to release, it holds.                               *)
TokenInv ==
  /\ \A i, j \in DOMAIN toBroker :
       Asks(toBroker[i]) /\ Asks(toBroker[j]) /\ toBroker[i].id = toBroker[j].id => i = j
  /\ \A i, j \in DOMAIN toClient :
       Answers(toClient[i]) /\ Answers(toClient[j]) /\ toClient[i].id = toClient[j].id => i = j
  /\ \A i \in DOMAIN toBroker, j \in DOMAIN toClient :
       Asks(toBroker[i]) /\ Answers(toClient[j]) => toBroker[i].id # toClient[j].id
  /\ \A i \in DOMAIN toBroker : toBroker[i].type = "pubrel" => toBroker[i].id \in DOMAIN stored
  /\ \A i \in DOMAIN toClient : toClient[i].type = "pubrec" => toClient[i].id \in DOMAIN stored

(* TableIsTheCalls, and for each call that is registered: its identifier   *)
(* means its own message everywhere, and nobody says it is done before the *)
(* message is passed on.                                                   *)
CallInv ==
  /\ link => DOMAIN pending = {call[p].id : p \in Registered}
  /\ link => \A p, q \in Registered : call[p].id = call[q].id => p = q
  /\ \A p \in Registered :
       /\ call[p].pc = "send" => call[p].id \notin Owed
       /\ \A i \in DOMAIN toBroker :
            toBroker[i].type = "publish" /\ Asks(toBroker[i]) /\ toBroker[i].id = call[p].id
              => toBroker[i].n = call[p].n
       /\ call[p].id \in DOMAIN stored => stored[call[p].id] = call[p].n
       /\ \A i \in DOMAIN toClient :
            toClient[i].type \in {"puback", "pubcomp"} /\ toClient[i].id = call[p].id
              => delivered[call[p].n] = 1
       /\ call[p].id \in DOMAIN pending => \A c \in DOMAIN pending[call[p].id] :
            pending[call[p].id][c] # 1 => delivered[call[p].n] = 1

(* What the broker sends with QoS 2, and without.                          *)
Copy(packet) == packet.type = "publish" /\ packet.qos = 2 /\ packet.id = 1 /\ packet.n = sending.n
Plain(packet) == packet.type = "publish" /\ packet.qos # 2

(* The phases of a message that the broker sends with QoS 1 or 2: none is  *)
(* being sent; one of QoS 1 is, or one of QoS 2, as often as the broker    *)
(* likes; its PUBREL is under way, behind the copies; its PUBCOMP is.      *)
Resting ==
  /\ sending = Silent /\ inbound = {}
  /\ \A i \in DOMAIN toClient : ~Asks(toClient[i])
  /\ \A i \in DOMAIN toBroker : ~Answers(toBroker[i])

SentOnce ==
  /\ sending.pc = "sent" /\ sending.qos = 1 /\ inbound = {}
  /\ \A i \in DOMAIN toClient : Asks(toClient[i]) => toClient[i].type = "publish" /\ toClient[i].qos = 1
  /\ \A i \in DOMAIN toBroker : Answers(toBroker[i]) => toBroker[i].type = "puback"
  /\ \A i, j \in DOMAIN toClient : Asks(toClient[i]) /\ Asks(toClient[j]) => i = j
  /\ \A i, j \in DOMAIN toBroker : Answers(toBroker[i]) /\ Answers(toBroker[j]) => i = j
  /\ \A i \in DOMAIN toClient, j \in DOMAIN toBroker : ~(Asks(toClient[i]) /\ Answers(toBroker[j]))

SentTwice ==
  /\ sending.pc = "sent" /\ sending.qos = 2
  /\ received[sending.n] = IF inbound = {} THEN 0 ELSE 1
  /\ \A i \in DOMAIN toClient : Asks(toClient[i]) => Copy(toClient[i])
  /\ \A i \in DOMAIN toBroker : Answers(toBroker[i]) =>
       toBroker[i].type = "pubrec" /\ toBroker[i].id = 1 /\ inbound = {1}

Releasing ==
  /\ sending.pc = "released" /\ sending.qos = 2 /\ received[sending.n] = 1 /\ inbound = {1}
  /\ \E k \in DOMAIN toClient :
       /\ toClient[k].type = "pubrel" /\ toClient[k].id = 1
       /\ \A i \in DOMAIN toClient : Asks(toClient[i]) => i = k \/ (i < k /\ Copy(toClient[i]))
  /\ \A i \in DOMAIN toBroker : Answers(toBroker[i]) => toBroker[i].type = "pubrec"

Released ==
  /\ sending.pc = "released" /\ sending.qos = 2 /\ received[sending.n] = 1 /\ inbound = {}
  /\ \A i \in DOMAIN toClient : ~Asks(toClient[i])
  /\ \E k \in DOMAIN toBroker :
       /\ toBroker[k].type = "pubcomp"
       /\ \A i \in DOMAIN toBroker : Answers(toBroker[i]) =>
            i = k \/ (i < k /\ toBroker[i].type = "pubrec")

Phases == Resting \/ SentOnce \/ SentTwice \/ Releasing \/ Released

(* A PUBLISH of QoS 0 or 1 on its way is the only one of its message, and  *)
(* OnMessage has been given neither that nor one that is not sent yet.     *)
Uncounted ==
  /\ \A i \in DOMAIN toClient : Plain(toClient[i]) =>
       /\ toClient[i].n \in 1 .. sent /\ received[toClient[i].n] = 0
       /\ sending # Silent /\ sending.qos = 2 => toClient[i].n # sending.n
  /\ \A i, j \in DOMAIN toClient :
       Plain(toClient[i]) /\ Plain(toClient[j]) /\ toClient[i].n = toClient[j].n => i = j
  /\ \A m \in Incoming : m > sent => received[m] = 0

ReceiveInv == Uncounted /\ (~alive \/ Phases)

(* The inductive invariant of publishing and receiving.                    *)
PublishInv == LinkInv /\ NumberInv /\ TokenInv /\ CallInv /\ honest /\ ReceiveInv

-----------------------------------------------------------------------------
(* Sequences of packets.                                                   *)
LEMMA NoPackets == <<>> \in Seq(Packets) /\ DOMAIN <<>> = {}
  OBVIOUS

LEMMA TailOf ==
  ASSUME NEW S, NEW s \in Seq(S), s # <<>>
  PROVE  /\ Head(s) \in S /\ Tail(s) \in Seq(S)
         /\ 1 \in DOMAIN s /\ Head(s) = s[1]
         /\ \A i \in DOMAIN Tail(s) : i \in Nat /\ i # 0 /\ i + 1 \in DOMAIN s /\ Tail(s)[i] = s[i + 1]
         /\ \A i \in DOMAIN s : i \in Nat /\ (i # 1 => i - 1 \in DOMAIN Tail(s))
  OBVIOUS

LEMMA AppendTo ==
  ASSUME NEW S, NEW s \in Seq(S), NEW x \in S
  PROVE  /\ Append(s, x) \in Seq(S)
         /\ DOMAIN Append(s, x) = DOMAIN s \cup {Len(s) + 1}
         /\ Len(s) \in Nat
         /\ \A i \in DOMAIN s : i \in Nat /\ i < Len(s) + 1 /\ Append(s, x)[i] = s[i]
         /\ Append(s, x)[Len(s) + 1] = x
  OBVIOUS

(* A call that has begun goes on to another step.                          *)
LEMMA Moving ==
  ASSUME LinkInv, NEW p \in Calling, NEW step \in Steps, Moves(p, step)
  PROVE  /\ call' \in [Senders -> Calls(calls)]
         /\ p \in Senders
         /\ call'[p].pc = step /\ call'[p].qos = call[p].qos
         /\ call'[p].id = call[p].id /\ call'[p].n = call[p].n
         /\ \A q \in Senders : q # p => call'[q] = call[q]
  <1>1. p \in Senders /\ call[p].pc # "idle" /\ call \in [Senders -> Calls(calls)]
    BY DEF LinkInv, Calling
  <1>2. call[p] \in [pc : Steps, qos : 0 .. 2, id : 0 .. MaxId, n : 1 .. calls]
    BY <1>1 DEF Calls, NoCall
  <1>3. call' = [call EXCEPT ![p].pc = step]
    BY DEF Moves
  <1> QED
    BY <1>1, <1>2, <1>3 DEF Calls

(* ... or returns.                                                         *)
LEMMA Returning ==
  ASSUME LinkInv, NEW p \in Senders, NEW result, Return(p, result)
  PROVE  /\ call' \in [Senders -> Calls(calls)]
         /\ call'[p] = NoCall /\ call'[p].pc = "idle"
         /\ \A q \in Senders : q # p => call'[q] = call[q]
  BY DEF LinkInv, Return, Calls, NoCall

(* The table of pending requests: unregister, With and deliver.            *)
LEMMA Unregistering ==
  ASSUME LinkInv, NEW p \in Senders, Unregister(p)
  PROVE  /\ DOMAIN pending' = DOMAIN pending \ {call[p].id}
         /\ \A id \in DOMAIN pending' : pending'[id] = pending[id]
  BY DEF Unregister, Restrict

LEMMA Delivering ==
  ASSUME LinkInv, NEW id, NEW code \in 0 .. 2, Deliver(id, code)
  PROVE  /\ DOMAIN pending' = DOMAIN pending
         /\ \A k \in DOMAIN pending :
              /\ pending'[k] \in Seq(0 .. 2) /\ Len(pending'[k]) <= 2
              /\ \A c \in DOMAIN pending'[k] :
                   \/ c \in DOMAIN pending[k] /\ pending'[k][c] = pending[k][c]
                   \/ k = id /\ pending'[k][c] = code
  <1>1. \A k \in DOMAIN pending : pending[k] \in Seq(0 .. 2) /\ Len(pending[k]) <= 2
    BY DEF LinkInv, PublishTypeOK
  <1>2. CASE id \in DOMAIN pending /\ Len(pending[id]) < 2
    <2>1. pending' = [pending EXCEPT ![id] = Append(@, code)]
      BY <1>2 DEF Deliver
    <2>2. pending'[id] = Append(pending[id], code) /\ DOMAIN pending' = DOMAIN pending
      BY <2>1, <1>2
    <2>3. pending[id] \in Seq(0 .. 2)
      BY <1>1, <1>2
    <2>4. /\ pending'[id] \in Seq(0 .. 2)
          /\ Len(pending'[id]) = Len(pending[id]) + 1
          /\ \A c \in DOMAIN pending'[id] :
               (c \in DOMAIN pending[id] /\ pending'[id][c] = pending[id][c]) \/ pending'[id][c] = code
      BY <2>2, <2>3
    <2>5. Len(pending'[id]) <= 2
      BY <2>3, <2>4, <1>2
    <2>6. \A k \in DOMAIN pending : k # id => pending'[k] = pending[k]
      BY <2>1
    <2> QED
      BY <1>1, <2>2, <2>4, <2>5, <2>6
  <1>3. CASE ~(id \in DOMAIN pending /\ Len(pending[id]) < 2)
    BY <1>1, <1>3 DEF Deliver
  <1> QED
    BY <1>2, <1>3

-----------------------------------------------------------------------------
(* What the steps of a caller leave of LinkInv to be shown.                *)
LEMMA LinkByCall ==
  ASSUME LinkInv, NEW p \in Senders,
         UNCHANGED <<linkVars, inbound, received, toClient, brokerVars>>,
         toBroker' \in Seq(Packets), ~alive => toBroker' = <<>>,
         calls' \in calls .. MaxCalls, nextId' \in 0 .. MaxId, honest' \in BOOLEAN,
         call' \in [Senders -> Calls(calls')],
         \A q \in Senders : q # p => call'[q] = call[q],
         p \in Calling' => /\ call'[p].id # 0 <=> p \in Registered'
                           /\ call'[p].pc \in {"register", "wait", "complete"} => call'[p].qos > 0,
         DOMAIN pending' \subseteq 1 .. MaxId,
         \A id \in DOMAIN pending' : pending'[id] \in Seq(0 .. 2) /\ Len(pending'[id]) <= 2,
         ~link => DOMAIN pending' = {}
  PROVE  LinkInv'
  <1>1. PublishTypeOK'
    <2>1. \A q \in Senders : call'[q].pc \in {"idle", "awaiting", "register", "send", "wait", "complete"}
      BY DEF Calls, NoCall, Steps
    <2> QED
      BY <2>1 DEF PublishTypeOK, LinkInv, linkVars, brokerVars
  <1>2. calls' \in 0 .. MaxCalls /\ sent' \in 0 .. MaxIn
    BY MqttPublishAssumption DEF LinkInv, brokerVars
  <1>3. toBroker' \in Seq(Packets) /\ toClient' \in Seq(Packets)
    BY DEF LinkInv
  <1>4. \A q \in Calling' : /\ call'[q].id # 0 <=> q \in Registered'
                            /\ call'[q].pc \in {"register", "wait", "complete"} => call'[q].qos > 0
    BY DEF LinkInv, Calling, Registered
  <1>5. \A id \in DOMAIN stored' : stored'[id] \in 1 .. calls'
    <2>1. calls \in Nat /\ calls' \in Nat /\ calls <= calls'
      BY MqttPublishAssumption DEF LinkInv
    <2> QED
      BY <2>1 DEF LinkInv, brokerVars
  <1>6. ~link' => ~alive' /\ DOMAIN pending' = {} /\ inbound' = {}
    BY DEF LinkInv, linkVars
  <1>7. ~alive' => toBroker' = <<>> /\ toClient' = <<>> /\ DOMAIN stored' = {} /\ sending' = Silent
    BY DEF LinkInv, linkVars, brokerVars
  <1>8. sending' \in {Silent} \cup [pc : {"sent", "released"}, n : 1 .. sent', qos : 1 .. 2]
    BY DEF LinkInv, brokerVars
  <1>9. DOMAIN stored' \subseteq 1 .. MaxId
    BY DEF LinkInv, brokerVars
  <1> QED
    BY <1>1, <1>2, <1>3, <1>4, <1>5, <1>6, <1>7, <1>8, <1>9 DEF LinkInv

(* A call that returns, its entry of the table removed or not.             *)
LEMMA LinkByReturn ==
  ASSUME LinkInv, NEW p \in Senders, NEW result, Return(p, result),
         Unregister(p) \/ UNCHANGED pending,
         UNCHANGED <<linkVars, nextId, inbound, calls, received, toBroker, toClient, brokerVars>>
  PROVE  LinkInv'
  <1>1. /\ call' \in [Senders -> Calls(calls)] /\ call'[p].pc = "idle"
        /\ \A q \in Senders : q # p => call'[q] = call[q]
    BY Returning
  <1>2. /\ DOMAIN pending' \subseteq DOMAIN pending
        /\ \A id \in DOMAIN pending' : pending'[id] = pending[id]
    BY Unregistering
  <1>3. honest' \in BOOLEAN
    BY DEF Return
  <1>4. calls' = calls /\ calls' \in calls .. MaxCalls /\ nextId' \in 0 .. MaxId
    BY MqttPublishAssumption DEF LinkInv, PublishTypeOK
  <1>5. toBroker' \in Seq(Packets) /\ (~alive => toBroker' = <<>>)
    BY DEF LinkInv
  <1>6. p \notin Calling'
    BY <1>1 DEF Calling
  <1>7. /\ DOMAIN pending' \subseteq 1 .. MaxId
        /\ \A id \in DOMAIN pending' : pending'[id] \in Seq(0 .. 2) /\ Len(pending'[id]) <= 2
        /\ ~link => DOMAIN pending' = {}
    BY <1>2 DEF LinkInv, PublishTypeOK
  <1> QED
    BY <1>1, <1>3, <1>4, <1>5, <1>6, <1>7, LinkByCall

(* A call that goes on to a step that suits it.                            *)
LEMMA LinkByMove ==
  ASSUME LinkInv, NEW p \in Calling, NEW step \in Steps, Moves(p, step),
         step \in {"register", "wait", "complete"} => call[p].qos > 0,
         step \in {"send", "wait", "complete"} /\ call[p].qos > 0 <=> p \in Registered,
         UNCHANGED <<linkVars, nextId, inbound, calls, honest, received, toClient, brokerVars>>,
         toBroker' \in Seq(Packets), ~alive => toBroker' = <<>>,
         DOMAIN pending' = DOMAIN pending,
         \A id \in DOMAIN pending' : pending'[id] \in Seq(0 .. 2) /\ Len(pending'[id]) <= 2
  PROVE  LinkInv'
  <1>1. /\ call' \in [Senders -> Calls(calls)] /\ p \in Senders
        /\ call'[p].pc = step /\ call'[p].qos = call[p].qos /\ call'[p].id = call[p].id
        /\ \A q \in Senders : q # p => call'[q] = call[q]
    BY Moving
  <1>2. call'[p].id # 0 <=> p \in Registered'
    BY <1>1 DEF LinkInv, Registered
  <1>3. calls' = calls /\ calls' \in calls .. MaxCalls /\ nextId' \in 0 .. MaxId /\ honest' \in BOOLEAN
    BY MqttPublishAssumption DEF LinkInv, PublishTypeOK
  <1>4. DOMAIN pending' \subseteq 1 .. MaxId /\ (~link => DOMAIN pending' = {})
    BY DEF LinkInv, PublishTypeOK
  <1>5. UNCHANGED <<linkVars, inbound, received, toClient, brokerVars>>
    OBVIOUS
  <1> QED
    BY <1>1, <1>2, <1>3, <1>4, <1>5, LinkByCall

-----------------------------------------------------------------------------
(* LinkInv, action by action.                                              *)
LEMMA LinkConnects ==
  ASSUME LinkInv, Attach \/ Break \/ Detach \/ CloseBegins
  PROVE  LinkInv'
  <1>1. <<>> \in Seq(Packets) /\ DOMAIN <<>> = {}
    BY NoPackets
  <1>2. Calling' = Calling /\ Registered' = Registered
    BY DEF Attach, Break, Detach, CloseBegins, messageVars, Calling, Registered
  <1>3. PublishTypeOK'
    <2>1. /\ nextId' = nextId /\ call' = call /\ honest' = honest /\ received' = received
          /\ delivered' = delivered /\ (pending' = pending \/ pending' = <<>>) /\ (inbound' = inbound \/ inbound' = {})
      BY DEF Attach, Break, Detach, CloseBegins, tableVars, messageVars, brokerVars
    <2>2. shut' \in BOOLEAN /\ link' \in BOOLEAN /\ alive' \in BOOLEAN /\ (alive' => link')
      <3>1. shut \in BOOLEAN /\ link \in BOOLEAN /\ alive \in BOOLEAN /\ (alive => link)
        BY DEF LinkInv, PublishTypeOK
      <3>2. CASE Attach
        BY <3>1, <3>2 DEF Attach
      <3>3. CASE Break
        BY <3>1, <3>3 DEF Break
      <3>4. CASE Detach
        BY <3>1, <3>4 DEF Detach
      <3>5. CASE CloseBegins
        BY <3>1, <3>5 DEF CloseBegins
      <3> QED
        BY <3>2, <3>3, <3>4, <3>5
    <2> QED
      BY <1>1, <2>1, <2>2 DEF LinkInv, PublishTypeOK
  <1>4. CASE Attach
    BY <1>2, <1>3, <1>4 DEF LinkInv, Attach, tableVars, messageVars, brokerVars
  <1>5. CASE Break
    BY <1>1, <1>2, <1>3, <1>5 DEF LinkInv, Break, tableVars, messageVars
  <1>6. CASE Detach
    BY <1>1, <1>2, <1>3, <1>6 DEF LinkInv, Detach, messageVars
  <1>7. CASE CloseBegins
    BY <1>2, <1>3, <1>7 DEF LinkInv, CloseBegins, tableVars, messageVars, brokerVars
  <1> QED
    BY <1>4, <1>5, <1>6, <1>7

LEMMA LinkBegins ==
  ASSUME LinkInv, NEW p \in Senders, NEW qos \in 0 .. 2, PublishBegins(p, qos)
  PROVE  LinkInv'
  <1> DEFINE new == [pc |-> "awaiting", qos |-> qos, id |-> 0, n |-> calls + 1]
  <1>1. calls' = calls + 1 /\ calls' \in calls .. MaxCalls /\ calls \in Nat
    BY MqttPublishAssumption DEF LinkInv, PublishBegins
  <1>2. call' = [call EXCEPT ![p] = new]
    BY DEF PublishBegins
  <1>3. new \in Calls(calls')
    BY <1>1, MqttPublishAssumption DEF Calls, Steps
  <1>4. \A x \in Calls(calls) : x \in Calls(calls')
    BY <1>1 DEF Calls
  <1>5. call \in [Senders -> Calls(calls)]
    BY DEF LinkInv
  <1>6. call' \in [Senders -> Calls(calls')] /\ call'[p] = new /\ \A q \in Senders : q # p => call'[q] = call[q]
    BY <1>2, <1>3, <1>4, <1>5
  <1>7. call'[p].pc = "awaiting" /\ call'[p].id = 0
    BY <1>6
  <1>8. p \notin Registered'
    BY <1>7 DEF Registered
  <1>9. UNCHANGED <<linkVars, tableVars, inbound, honest, received, toBroker, toClient, brokerVars>>
    BY DEF PublishBegins
  <1>10. toBroker' \in Seq(Packets) /\ (~alive => toBroker' = <<>>) /\ nextId' \in 0 .. MaxId /\ honest' \in BOOLEAN
    BY <1>9 DEF LinkInv, PublishTypeOK, tableVars
  <1>11. /\ DOMAIN pending' \subseteq 1 .. MaxId
         /\ \A id \in DOMAIN pending' : pending'[id] \in Seq(0 .. 2) /\ Len(pending'[id]) <= 2
         /\ ~link => DOMAIN pending' = {}
    BY <1>9 DEF LinkInv, PublishTypeOK, tableVars
  <1> QED
    BY <1>1, <1>6, <1>7, <1>8, <1>9, <1>10, <1>11, LinkByCall

LEMMA LinkAwaited ==
  ASSUME LinkInv, NEW p \in Senders, Awaited(p)
  PROVE  LinkInv'
  <1>1. CASE Return(p, "error")
    BY <1>1, LinkByReturn DEF Awaited, tableVars
  <1>2. CASE Moves(p, IF call[p].qos = 0 THEN "send" ELSE "register") /\ UNCHANGED honest
    <2>1. p \in Calling /\ p \notin Registered /\ call[p].pc = "awaiting"
      BY DEF Awaited, Does, Calling, Registered
    <2>2. call[p].qos \in 0 .. 2
      BY <2>1 DEF LinkInv, Calls, NoCall, Calling
    <2>3. UNCHANGED <<linkVars, nextId, inbound, calls, honest, received, toClient, brokerVars>>
      BY <1>2 DEF Awaited, tableVars
    <2>4. toBroker' \in Seq(Packets) /\ (~alive => toBroker' = <<>>)
      BY DEF LinkInv, Awaited
    <2>5. /\ DOMAIN pending' = DOMAIN pending
          /\ \A id \in DOMAIN pending' : pending'[id] \in Seq(0 .. 2) /\ Len(pending'[id]) <= 2
      BY DEF LinkInv, PublishTypeOK, Awaited, tableVars
    <2>6. CASE call[p].qos = 0
      <3>1. Moves(p, "send")
        BY <1>2, <2>6
      <3> QED
        BY <2>1, <2>2, <2>3, <2>4, <2>5, <2>6, <3>1, LinkByMove DEF Steps
    <2>7. CASE call[p].qos # 0
      <3>1. Moves(p, "register")
        BY <1>2, <2>7
      <3> QED
        BY <2>1, <2>2, <2>3, <2>4, <2>5, <2>7, <3>1, LinkByMove DEF Steps
    <2> QED
      BY <2>6, <2>7
  <1> QED
    BY <1>1, <1>2 DEF Awaited

LEMMA LinkRegister ==
  ASSUME LinkInv, NEW p \in Senders, Register(p)
  PROVE  LinkInv'
  <1>1. UNCHANGED <<linkVars, inbound, calls, received, toBroker, toClient, brokerVars>>
    BY DEF Register
  <1>2. CASE Return(p, "error") /\ UNCHANGED tableVars
    BY <1>1, <1>2, LinkByReturn DEF tableVars
  <1>3. ASSUME NEW id \in Fresh, nextId' = id, pending' = With(pending, id, <<>>), link,
               call' = [call EXCEPT ![p] = [pc |-> "send", qos |-> @.qos, id |-> id, n |-> @.n]],
               UNCHANGED honest
        PROVE  LinkInv'
    <2>1. id \in 1 .. MaxId
      <3>1. PICK i \in 1 .. MaxId : id = Nth(i)
        BY DEF Fresh
      <3>2. MaxId \in Nat /\ MaxId > 0 /\ nextId \in Nat /\ i \in Nat /\ i > 0
        BY MqttPublishAssumption DEF LinkInv, PublishTypeOK
      <3>3. nextId + i - 1 \in Nat
        BY <3>2
      <3>4. (nextId + i - 1) % MaxId \in 0 .. MaxId - 1
        BY <3>2, <3>3
      <3> QED
        BY <3>1, <3>2, <3>4 DEF Nth
    <2>2. call[p].pc = "register" /\ p \in Calling
      BY DEF Register, Does, Calling
    <2>3. call[p] \in [pc : Steps, qos : 0 .. 2, id : 0 .. MaxId, n : 1 .. calls] /\ call[p].qos > 0
      BY <2>2 DEF LinkInv, Calls, NoCall
    <2> DEFINE new == [pc |-> "send", qos |-> call[p].qos, id |-> id, n |-> call[p].n]
    <2>4. call'[p] = new /\ \A q \in Senders : q # p => call'[q] = call[q]
      BY <1>3 DEF LinkInv
    <2>5. call' \in [Senders -> Calls(calls)]
      <3>1. new \in Calls(calls)
        <4>1. id \in 0 .. MaxId
          BY <2>1, MqttPublishAssumption
        <4> QED
          BY <2>3, <4>1 DEF Calls, Steps
      <3>2. call \in [Senders -> Calls(calls)]
        BY DEF LinkInv
      <3>3. call' = [call EXCEPT ![p] = new]
        BY <1>3
      <3> QED
        BY <3>1, <3>2, <3>3
    <2>6. call'[p].pc = "send" /\ call'[p].qos > 0 /\ call'[p].id = id
      BY <2>3, <2>4
    <2>7. p \in Registered' /\ id # 0
      BY <2>1, <2>6 DEF Registered
    <2>8. DOMAIN pending' = DOMAIN pending \cup {id} /\ pending'[id] = <<>>
          /\ \A k \in DOMAIN pending : k # id => pending'[k] = pending[k]
      BY <1>3 DEF With
    <2>9. /\ DOMAIN pending' \subseteq 1 .. MaxId
          /\ \A k \in DOMAIN pending' : pending'[k] \in Seq(0 .. 2) /\ Len(pending'[k]) <= 2
      <3>1. <<>> \in Seq(0 .. 2) /\ Len(<<>>) <= 2
        OBVIOUS
      <3> QED
        BY <2>1, <2>8, <3>1 DEF LinkInv, PublishTypeOK
    <2>10. calls' = calls /\ calls' \in calls .. MaxCalls /\ nextId' \in 0 .. MaxId /\ honest' \in BOOLEAN
      BY <1>1, <1>3, <2>1, MqttPublishAssumption DEF LinkInv, PublishTypeOK
    <2>11. toBroker' \in Seq(Packets) /\ (~alive => toBroker' = <<>>)
      BY <1>1 DEF LinkInv
    <2>12. UNCHANGED <<linkVars, inbound, received, toClient, brokerVars>>
      BY <1>1
    <2> QED
      BY <1>3, <2>4, <2>5, <2>6, <2>7, <2>9, <2>10, <2>11, <2>12, LinkByCall
  <1> QED
    BY <1>2, <1>3 DEF Register

LEMMA CallFields ==
  ASSUME LinkInv, NEW p \in Senders, call[p].pc # "idle"
  PROVE  /\ p \in Calling
         /\ call[p] \in [pc : Steps, qos : 0 .. 2, id : 0 .. MaxId, n : 1 .. calls]
  BY DEF LinkInv, Calling, Calls, NoCall

LEMMA LinkSend ==
  ASSUME LinkInv, NEW p \in Senders, Send(p)
  PROVE  LinkInv'
  <1>1. UNCHANGED <<linkVars, tableVars, inbound, calls, received, toClient, brokerVars>> /\ call[p].pc = "send"
    BY DEF Send, Does
  <1>2. /\ p \in Calling
        /\ call[p] \in [pc : Steps, qos : 0 .. 2, id : 0 .. MaxId, n : 1 .. calls]
    BY <1>1, CallFields
  <1> DEFINE packet == Publish(call[p].qos, call[p].id, call[p].n)
  <1>3. packet \in Packets
    BY <1>2, MqttPublishAssumption DEF Publish, Packets, LinkInv
  <1>4. Sends(packet)
    BY DEF Send
  <1>5. toBroker' \in Seq(Packets) /\ (~alive => toBroker' = <<>>)
    BY <1>3, <1>4, AppendTo DEF Sends, LinkInv
  <1>6. calls' = calls /\ calls' \in calls .. MaxCalls /\ nextId' \in 0 .. MaxId
    BY <1>1, MqttPublishAssumption DEF LinkInv, PublishTypeOK, tableVars
  <1>7. /\ DOMAIN pending' \subseteq 1 .. MaxId
        /\ \A k \in DOMAIN pending' : pending'[k] \in Seq(0 .. 2) /\ Len(pending'[k]) <= 2
        /\ ~link => DOMAIN pending' = {}
    BY <1>1 DEF LinkInv, PublishTypeOK, tableVars
  <1>8. CASE call[p].qos = 0
    <2>1. Return(p, "ok")
      BY <1>8 DEF Send
    <2>2. /\ call' \in [Senders -> Calls(calls)] /\ call'[p].pc = "idle"
          /\ \A q \in Senders : q # p => call'[q] = call[q]
      BY <2>1, Returning
    <2>3. honest' \in BOOLEAN
      BY <2>1 DEF Return
    <2>4. p \notin Calling'
      BY <2>2 DEF Calling
    <2> QED
      BY <1>1, <1>5, <1>6, <1>7, <2>2, <2>3, <2>4, LinkByCall
  <1>9. CASE call[p].qos # 0
    <2>1. Moves(p, "wait") /\ UNCHANGED honest
      BY <1>9 DEF Send
    <2>2. call[p].qos > 0
      BY <1>2, <1>9
    <2>3. p \in Registered
      BY <1>1, <2>2 DEF Registered
    <2>4. UNCHANGED <<linkVars, nextId, inbound, calls, honest, received, toClient, brokerVars>>
      BY <1>1, <2>1 DEF tableVars
    <2>5. DOMAIN pending' = DOMAIN pending
      BY <1>1 DEF tableVars
    <2> QED
      BY <1>2, <1>5, <1>7, <2>1, <2>2, <2>3, <2>4, <2>5, LinkByMove DEF Steps
  <1> QED
    BY <1>8, <1>9

LEMMA LinkAnswered ==
  ASSUME LinkInv, NEW p \in Senders, Answered(p)
  PROVE  LinkInv'
  <1>1. UNCHANGED <<linkVars, nextId, inbound, calls, received, toBroker, toClient, brokerVars>> /\ call[p].pc = "wait"
    BY DEF Answered, Does
  <1>2. /\ p \in Calling
        /\ call[p] \in [pc : Steps, qos : 0 .. 2, id : 0 .. MaxId, n : 1 .. calls]
    BY <1>1, CallFields
  <1>3. CASE call[p].qos = 1
    <2>1. PICK result : Return(p, result) /\ Unregister(p)
      BY <1>3 DEF Answered
    <2> QED
      BY <1>1, <2>1, LinkByReturn
  <1>4. CASE call[p].qos # 1
    <2>1. Moves(p, "complete") /\ pending' = [pending EXCEPT ![call[p].id] = Tail(@)] /\ UNCHANGED honest
      BY <1>4 DEF Answered
    <2>2. call[p].id \in DOMAIN pending /\ pending[call[p].id] # <<>>
      BY DEF Answered, HasCode
    <2>3. pending[call[p].id] \in Seq(0 .. 2) /\ Len(pending[call[p].id]) <= 2
      BY <2>2 DEF LinkInv, PublishTypeOK
    <2>4. Tail(pending[call[p].id]) \in Seq(0 .. 2) /\ Len(Tail(pending[call[p].id])) <= 2
      BY <2>2, <2>3
    <2>5. /\ DOMAIN pending' = DOMAIN pending
          /\ \A k \in DOMAIN pending' : pending'[k] \in Seq(0 .. 2) /\ Len(pending'[k]) <= 2
      BY <2>1, <2>2, <2>4 DEF LinkInv, PublishTypeOK
    <2>6. call[p].qos > 0
      BY <1>1, <1>2 DEF LinkInv
    <2>7. p \in Registered
      BY <1>1, <2>6 DEF Registered
    <2>8. toBroker' \in Seq(Packets) /\ (~alive => toBroker' = <<>>)
      BY <1>1 DEF LinkInv
    <2>9. UNCHANGED <<linkVars, nextId, inbound, calls, honest, received, toClient, brokerVars>>
      BY <1>1, <2>1
    <2> QED
      BY <1>2, <2>1, <2>5, <2>6, <2>7, <2>8, <2>9, LinkByMove DEF Steps
  <1> QED
    BY <1>3, <1>4

LEMMA LinkReturns ==
  ASSUME LinkInv, NEW p \in Senders, SendFails(p) \/ Completed(p) \/ Woken(p) \/ TimesOut(p)
  PROVE  LinkInv'
  <1>1. \E result : Return(p, result)
    BY DEF SendFails, Completed, Woken, TimesOut
  <1>2. Unregister(p)
    BY DEF SendFails, Completed, Woken, TimesOut
  <1>3. UNCHANGED <<linkVars, nextId, inbound, calls, received, toBroker, toClient, brokerVars>>
    BY DEF SendFails, Completed, Woken, TimesOut
  <1> QED
    BY <1>1, <1>2, <1>3, LinkByReturn

-----------------------------------------------------------------------------
(* What the packets that are read or sent leave of LinkInv to be shown.    *)
LEMMA LinkByPacket ==
  ASSUME LinkInv, alive, UNCHANGED <<linkVars, nextId, messageVars>>,
         toBroker' \in Seq(Packets), toClient' \in Seq(Packets),
         DOMAIN pending' = DOMAIN pending,
         \A id \in DOMAIN pending' : pending'[id] \in Seq(0 .. 2) /\ Len(pending'[id]) <= 2,
         inbound' \subseteq {1},
         received' \in [Incoming -> Nat], delivered' \in [Messages -> Nat],
         DOMAIN stored' \subseteq 1 .. MaxId,
         \A id \in DOMAIN stored' : stored'[id] \in 1 .. calls,
         sent' \in 0 .. MaxIn,
         sending' \in {Silent} \cup [pc : {"sent", "released"}, n : 1 .. sent', qos : 1 .. 2]
  PROVE  LinkInv'
  <1>1. shut' = shut /\ link' = link /\ alive' = alive /\ call' = call /\ calls' = calls /\ honest' = honest
    BY DEF linkVars, messageVars
  <1>2. link /\ alive
    BY DEF LinkInv, PublishTypeOK
  <1>3. PublishTypeOK'
    BY <1>1, <1>2 DEF LinkInv, PublishTypeOK
  <1>4. Calling' = Calling /\ Registered' = Registered
    BY <1>1 DEF Calling, Registered
  <1> QED
    BY <1>1, <1>2, <1>3, <1>4 DEF LinkInv

LEMMA PacketTypes ==
  ASSUME NEW id \in 0 .. MaxId, NEW n \in Nat,
         NEW type \in {"puback", "pubrec", "pubrel", "pubcomp"}
  PROVE  Packet(type, id, n) \in Packets
  BY DEF Packet, Packets

LEMMA PublishTypes ==
  ASSUME NEW qos \in 0 .. 2, NEW id \in 0 .. MaxId, NEW n \in Nat
  PROVE  Publish(qos, id, n) \in Packets
  BY DEF Publish, Packets

LEMMA LinkReadAck ==
  ASSUME LinkInv, ReadAck
  PROVE  LinkInv'
  <1>1. PICK code \in {0, 2} : Deliver(Head(toClient).id, code)
    BY DEF ReadAck
  <1>2. alive /\ toClient # <<>> /\ toClient \in Seq(Packets)
    BY DEF ReadAck, Reads, LinkInv
  <1>3. toClient' \in Seq(Packets)
    BY <1>2, TailOf DEF ReadAck
  <1>4. /\ DOMAIN pending' = DOMAIN pending
        /\ \A k \in DOMAIN pending : pending'[k] \in Seq(0 .. 2) /\ Len(pending'[k]) <= 2
    BY <1>1, Delivering
  <1>5. UNCHANGED <<linkVars, nextId, messageVars>>
    BY DEF ReadAck
  <1>6. UNCHANGED <<inbound, received, toBroker, stored, delivered, sending, sent>>
    BY DEF ReadAck, brokerVars
  <1> QED
    BY <1>2, <1>3, <1>4, <1>5, <1>6, LinkByPacket DEF LinkInv, PublishTypeOK

LEMMA LinkReadPubrec ==
  ASSUME LinkInv, ReadPubrec
  PROVE  LinkInv'
  <1>1. alive /\ toClient # <<>> /\ toClient \in Seq(Packets) /\ toBroker \in Seq(Packets)
    BY DEF ReadPubrec, Reads, LinkInv
  <1>2. toClient' \in Seq(Packets) /\ Head(toClient) \in Packets
    BY <1>1, TailOf DEF ReadPubrec
  <1>3. toBroker' = Append(toBroker, Packet("pubrel", Head(toClient).id, 0))
    BY <1>1 DEF ReadPubrec, Sends
  <1>4. Packet("pubrel", Head(toClient).id, 0) \in Packets
    BY <1>2, PacketTypes DEF Packets
  <1>5. toBroker' \in Seq(Packets)
    BY <1>1, <1>3, <1>4, AppendTo
  <1>6. /\ DOMAIN pending' = DOMAIN pending
        /\ \A k \in DOMAIN pending : pending'[k] \in Seq(0 .. 2) /\ Len(pending'[k]) <= 2
    BY Delivering DEF ReadPubrec
  <1>7. UNCHANGED <<linkVars, nextId, messageVars>>
    BY DEF ReadPubrec
  <1>8. UNCHANGED <<inbound, received, stored, delivered, sending, sent>>
    BY DEF ReadPubrec, brokerVars
  <1> QED
    BY <1>1, <1>2, <1>5, <1>6, <1>7, <1>8, LinkByPacket DEF LinkInv, PublishTypeOK

LEMMA LinkReadPubrel ==
  ASSUME LinkInv, ReadPubrel
  PROVE  LinkInv'
  <1>1. alive /\ toClient # <<>> /\ toClient \in Seq(Packets) /\ toBroker \in Seq(Packets)
    BY DEF ReadPubrel, Reads, LinkInv
  <1>2. toClient' \in Seq(Packets) /\ Head(toClient) \in Packets
    BY <1>1, TailOf DEF ReadPubrel
  <1> DEFINE answer == Packet("pubcomp", Head(toClient).id, Head(toClient).n)
  <1>3. toBroker' = Append(toBroker, answer)
    BY <1>1 DEF ReadPubrel, Sends
  <1>4. answer \in Packets
    BY <1>2, PacketTypes DEF Packets
  <1>5. toBroker' \in Seq(Packets)
    BY <1>1, <1>3, <1>4, AppendTo
  <1>6. inbound' \subseteq {1}
    BY DEF LinkInv, PublishTypeOK, ReadPubrel
  <1>7. UNCHANGED <<linkVars, nextId, messageVars>>
    BY DEF ReadPubrel, tableVars
  <1>8. UNCHANGED <<pending, received, stored, delivered, sending, sent>>
    BY DEF ReadPubrel, brokerVars, tableVars
  <1> QED
    BY <1>1, <1>2, <1>5, <1>6, <1>7, <1>8, LinkByPacket DEF LinkInv, PublishTypeOK

(* A copy of the message of QoS 2 that the broker is sending.              *)
LEMMA CopyRead ==
  ASSUME LinkInv, ReceiveInv, alive, NEW i \in DOMAIN toClient,
         toClient[i].type = "publish", toClient[i].qos = 2
  PROVE  Copy(toClient[i]) /\ (SentTwice \/ Releasing) /\ sending.n \in 1 .. sent
  <1>1. Asks(toClient[i])
    BY DEF Asks
  <1>2. Resting \/ SentOnce \/ SentTwice \/ Releasing \/ Released
    BY DEF ReceiveInv, Phases
  <1>3. ~Resting /\ ~Released
    BY <1>1 DEF Resting, Released
  <1>4. ~SentOnce
    BY <1>1 DEF SentOnce
  <1>5. CASE SentTwice
    BY <1>1, <1>5 DEF SentTwice, LinkInv, Silent
  <1>6. CASE Releasing
    BY <1>1, <1>6 DEF Releasing, LinkInv, Silent
  <1> QED
    BY <1>2, <1>3, <1>4, <1>5, <1>6

LEMMA LinkReadPublish ==
  ASSUME LinkInv, ReceiveInv, ReadPublish
  PROVE  LinkInv'
  <1> DEFINE packet == Head(toClient)
             answer == Packet(IF packet.qos = 1 THEN "puback" ELSE "pubrec", packet.id, packet.n)
  <1>1. alive /\ toClient # <<>> /\ toClient \in Seq(Packets) /\ toBroker \in Seq(Packets) /\ packet.type = "publish"
    BY DEF ReadPublish, Reads, LinkInv
  <1>2. toClient' \in Seq(Packets) /\ packet \in Packets /\ 1 \in DOMAIN toClient /\ packet = toClient[1]
    BY <1>1, TailOf DEF ReadPublish
  <1>3. answer \in Packets
    BY <1>2, PacketTypes DEF Packets
  <1>4. toBroker' = toBroker \/ toBroker' = Append(toBroker, answer)
    BY <1>1 DEF ReadPublish, Sends
  <1>5. toBroker' \in Seq(Packets)
    BY <1>1, <1>3, <1>4, AppendTo
  <1>6. packet.n \in Incoming /\ (packet.qos = 2 => packet.id = 1)
    <2>1. sent \in 0 .. MaxIn /\ MaxIn \in Nat
      BY MqttPublishAssumption DEF LinkInv
    <2>2. CASE packet.qos = 2
      BY <1>1, <1>2, <2>1, <2>2, CopyRead DEF Copy, Incoming
    <2>3. CASE packet.qos # 2
      BY <1>1, <1>2, <2>1, <2>3 DEF ReceiveInv, Uncounted, Plain, Incoming
    <2> QED
      BY <2>2, <2>3
  <1>7. inbound' \subseteq {1}
    BY <1>6 DEF LinkInv, PublishTypeOK, ReadPublish
  <1>8. received' \in [Incoming -> Nat]
    BY <1>6 DEF LinkInv, PublishTypeOK, ReadPublish
  <1>9. UNCHANGED <<linkVars, nextId, messageVars>>
    BY DEF ReadPublish, tableVars
  <1>10. UNCHANGED <<pending, stored, delivered, sending, sent>>
    BY DEF ReadPublish, brokerVars, tableVars
  <1> QED
    BY <1>1, <1>2, <1>5, <1>7, <1>8, <1>9, <1>10, LinkByPacket DEF LinkInv, PublishTypeOK

LEMMA LinkBrokerSends ==
  ASSUME LinkInv, (\E qos \in 0 .. 2 : BrokerSends(qos)) \/ BrokerRepeats
  PROVE  LinkInv'
  <1>1. UNCHANGED <<linkVars, nextId, messageVars>> /\ UNCHANGED <<pending, inbound, received, toBroker, stored, delivered>>
    BY DEF BrokerSends, BrokerRepeats, tableVars, brokerVars
  <1>2. alive /\ toClient \in Seq(Packets) /\ sent \in 0 .. MaxIn /\ MaxIn \in Nat /\ 1 \in 0 .. MaxId
    BY MqttPublishAssumption DEF LinkInv, BrokerSends, BrokerRepeats
  <1>3. ASSUME NEW qos \in 0 .. 2, BrokerSends(qos)
        PROVE  /\ toClient' \in Seq(Packets) /\ sent' \in 0 .. MaxIn
               /\ sending' \in {Silent} \cup [pc : {"sent", "released"}, n : 1 .. sent', qos : 1 .. 2]
    <2>1. Publish(qos, 1, sent + 1) \in Packets
      BY <1>2, PublishTypes
    <2>2. sent' = sent + 1 /\ sent' \in 1 .. MaxIn
      BY <1>2, <1>3 DEF BrokerSends
    <2>3. toClient' \in Seq(Packets)
      BY <1>2, <1>3, <2>1, AppendTo DEF BrokerSends
    <2>4. sending' = Silent \/ (qos # 0 /\ sending' = [pc |-> "sent", n |-> sent + 1, qos |-> qos])
      BY <1>3 DEF BrokerSends
    <2> QED
      BY <1>2, <2>2, <2>3, <2>4
  <1>4. ASSUME BrokerRepeats
        PROVE  /\ toClient' \in Seq(Packets) /\ sent' \in 0 .. MaxIn
               /\ sending' \in {Silent} \cup [pc : {"sent", "released"}, n : 1 .. sent', qos : 1 .. 2]
    <2>1. sending.n \in Nat
      BY <1>2, <1>4 DEF LinkInv, BrokerRepeats, Silent
    <2>2. Publish(2, 1, sending.n) \in Packets
      BY <1>2, <2>1, PublishTypes
    <2> QED
      BY <1>2, <1>4, <2>2, AppendTo DEF LinkInv, BrokerRepeats, brokerVars
  <1> QED
    BY <1>1, <1>2, <1>3, <1>4, LinkByPacket DEF LinkInv, PublishTypeOK

-----------------------------------------------------------------------------
(* The cases of BrokerReads.                                               *)
First == Head(toBroker)
Replies(type) == toClient' = Append(toClient, Packet(type, First.id, First.n))
Passes(n)     == delivered' = [delivered EXCEPT ![n] = @ + 1]

Takes0 == /\ First.type = "publish" /\ First.qos = 0
          /\ Passes(First.n)
          /\ UNCHANGED <<toClient, stored, sending>>
Takes1 == /\ First.type = "publish" /\ First.qos = 1
          /\ Passes(First.n) /\ Replies("puback")
          /\ UNCHANGED <<stored, sending>>
Takes2 == /\ First.type = "publish" /\ First.qos = 2
          /\ stored' = With(stored, First.id, First.n) /\ Replies("pubrec")
          /\ UNCHANGED <<delivered, sending>>
Releases == /\ First.type = "pubrel" /\ Replies("pubcomp")
            /\ IF First.id \in DOMAIN stored THEN Passes(stored[First.id]) ELSE UNCHANGED delivered
            /\ stored' = Restrict(stored, DOMAIN stored \ {First.id})
            /\ UNCHANGED sending
Finishes == /\ First.type \in {"puback", "pubcomp"}
            /\ sending' = Silent
            /\ UNCHANGED <<toClient, stored, delivered>>
Hears == /\ First.type = "pubrec" /\ sending.pc = "sent"
         /\ sending' = [sending EXCEPT !.pc = "released"] /\ Replies("pubrel")
         /\ UNCHANGED <<stored, delivered>>
HearsAgain == /\ First.type = "pubrec" /\ sending.pc # "sent"
              /\ UNCHANGED <<toClient, stored, delivered, sending>>

LEMMA BrokerCases ==
  ASSUME LinkInv, BrokerReads
  PROVE  /\ alive /\ toBroker # <<>> /\ toBroker \in Seq(Packets) /\ toBroker' = Tail(toBroker)
         /\ First \in Packets /\ First = toBroker[1] /\ 1 \in DOMAIN toBroker
         /\ toBroker' \in Seq(Packets) /\ toClient \in Seq(Packets)
         /\ UNCHANGED <<linkVars, nextId, pending, inbound, messageVars, received, sent>>
         /\ Takes0 \/ Takes1 \/ Takes2 \/ Releases \/ Finishes \/ Hears \/ HearsAgain
  <1>1. alive /\ toBroker # <<>> /\ toBroker \in Seq(Packets) /\ toBroker' = Tail(toBroker) /\ toClient \in Seq(Packets)
    BY DEF BrokerReads, LinkInv
  <1>2. First \in Packets /\ First = toBroker[1] /\ 1 \in DOMAIN toBroker /\ toBroker' \in Seq(Packets)
    BY <1>1, TailOf DEF First
  <1>3. UNCHANGED <<linkVars, nextId, pending, inbound, messageVars, received, sent>>
    BY DEF BrokerReads, tableVars
  <1>4. Takes0 \/ Takes1 \/ Takes2 \/ Releases \/ Finishes \/ Hears \/ HearsAgain
    BY DEF BrokerReads, Takes0, Takes1, Takes2, Releases, Finishes, Hears, HearsAgain, First, Replies, Passes
  <1> QED
    BY <1>1, <1>2, <1>3, <1>4

LEMMA LinkBrokerReads ==
  ASSUME LinkInv, NumberInv, TokenInv, BrokerReads
  PROVE  LinkInv'
  <1>1. /\ alive /\ toBroker # <<>> /\ toBroker' \in Seq(Packets) /\ toClient \in Seq(Packets)
        /\ First \in Packets /\ First = toBroker[1] /\ 1 \in DOMAIN toBroker
        /\ UNCHANGED <<linkVars, nextId, pending, inbound, messageVars, received, sent>>
    BY BrokerCases
  <1>2. \A type \in {"puback", "pubrec", "pubrel", "pubcomp"} : Replies(type) => toClient' \in Seq(Packets)
    <2> TAKE type \in {"puback", "pubrec", "pubrel", "pubcomp"}
    <2>1. Packet(type, First.id, First.n) \in Packets
      BY <1>1, PacketTypes DEF Packets
    <2> QED
      BY <1>1, <2>1, AppendTo DEF Replies
  <1>3. delivered \in [Messages -> Nat] /\ calls \in 0 .. MaxCalls /\ MaxCalls \in Nat
    BY MqttPublishAssumption DEF LinkInv, PublishTypeOK
  <1>4. \A n \in 1 .. calls : Passes(n) => delivered' \in [Messages -> Nat]
    BY <1>3 DEF Passes, Messages
  <1>5. First.type = "publish" => First.n \in 1 .. calls
    BY <1>1 DEF NumberInv
  <1>6. \A id \in DOMAIN stored : stored[id] \in 1 .. calls /\ id \in 1 .. MaxId
    BY DEF LinkInv
  <1>7. sending \in {Silent} \cup [pc : {"sent", "released"}, n : 1 .. sent, qos : 1 .. 2]
    BY DEF LinkInv
  <1>8. /\ toClient' \in Seq(Packets) /\ delivered' \in [Messages -> Nat]
        /\ DOMAIN stored' \subseteq 1 .. MaxId /\ \A id \in DOMAIN stored' : stored'[id] \in 1 .. calls
        /\ sending' \in {Silent} \cup [pc : {"sent", "released"}, n : 1 .. sent, qos : 1 .. 2]
    <2>1. CASE Takes0
      BY <1>1, <1>3, <1>4, <1>5, <1>6, <1>7, <2>1 DEF Takes0
    <2>2. CASE Takes1
      BY <1>1, <1>2, <1>3, <1>4, <1>5, <1>6, <1>7, <2>2 DEF Takes1
    <2>3. CASE Takes2
      <3>1. First.id \in 1 .. MaxId
        BY <1>1, <2>3, MqttPublishAssumption DEF NumberInv, Takes2, Packets
      <3> QED
        BY <1>1, <1>2, <1>3, <1>5, <1>6, <1>7, <2>3, <3>1 DEF Takes2, With
    <2>4. CASE Releases
      BY <1>1, <1>2, <1>3, <1>4, <1>6, <1>7, <2>4 DEF Releases, Restrict
    <2>5. CASE Finishes
      BY <1>1, <1>3, <1>6, <1>7, <2>5 DEF Finishes
    <2>6. CASE Hears
      <3>1. sending \in [pc : {"sent", "released"}, n : 1 .. sent, qos : 1 .. 2]
        BY <1>7, <2>6 DEF Hears, Silent
      <3>2. sending' = [sending EXCEPT !.pc = "released"]
        BY <2>6 DEF Hears
      <3>3. sending' \in [pc : {"sent", "released"}, n : 1 .. sent, qos : 1 .. 2]
        BY <3>1, <3>2
      <3> QED
        BY <1>1, <1>2, <1>3, <1>6, <2>6, <3>3 DEF Hears
    <2>7. CASE HearsAgain
      BY <1>1, <1>3, <1>6, <1>7, <2>7 DEF HearsAgain
    <2> QED
      BY <2>1, <2>2, <2>3, <2>4, <2>5, <2>6, <2>7, BrokerCases
  <1> QED
    BY <1>1, <1>8, LinkByPacket DEF LinkInv, PublishTypeOK

-----------------------------------------------------------------------------
(* A direction of the connection before and after a step: d packets were   *)
(* taken from its head, and new has the one that was added at its end.     *)
Follows(s, t, d, new) ==
  \A i \in DOMAIN t : /\ i \in Nat
                      /\ (i + d \in DOMAIN s /\ t[i] = s[i + d]) \/ (i = Len(t) /\ t[i] \in new)

LEMMA FollowsSame ==
  ASSUME NEW S, NEW s \in Seq(S)
  PROVE  Follows(s, s, 0, {})
  BY DEF Follows

LEMMA FollowsTail ==
  ASSUME NEW S, NEW s \in Seq(S), s # <<>>
  PROVE  Follows(s, Tail(s), 1, {})
  BY TailOf DEF Follows

LEMMA FollowsAppend ==
  ASSUME NEW S, NEW s \in Seq(S), NEW x
  PROVE  Follows(s, Append(s, x), 0, {x})
  BY DEF Follows

(* NumberInv: packets that are read or sent and are not a PUBLISH; steps   *)
(* of a call; then action by action.                                       *)
LEMMA NumbersByPacket ==
  ASSUME NumberInv, NEW d \in Nat, NEW new, Follows(toBroker, toBroker', d, new),
         \A x \in new : x.type # "publish",
         UNCHANGED <<stored, delivered, calls, call>>
  PROVE  NumberInv'
  <1>1. \A i \in DOMAIN toBroker' : toBroker'[i].type = "publish" =>
          i \in Nat /\ i + d \in DOMAIN toBroker /\ toBroker'[i] = toBroker[i + d]
    BY DEF Follows
  <1>2. \A i, j \in DOMAIN toBroker' :
          toBroker'[i].type = "publish" /\ toBroker'[j].type = "publish" /\ toBroker'[i].n = toBroker'[j].n => i = j
    <2> SUFFICES ASSUME NEW i \in DOMAIN toBroker', NEW j \in DOMAIN toBroker',
                        toBroker'[i].type = "publish", toBroker'[j].type = "publish",
                        toBroker'[i].n = toBroker'[j].n
                 PROVE  i = j
      OBVIOUS
    <2>1. i + d = j + d
      BY <1>1 DEF NumberInv
    <2>2. i \in Nat /\ j \in Nat
      BY <1>1
    <2> QED
      BY <2>1, <2>2
  <1>3. Calling' = Calling /\ Unsent' = Unsent
    BY DEF Calling, Unsent
  <1> QED
    BY <1>1, <1>2, <1>3 DEF NumberInv

LEMMA NumbersByCall ==
  ASSUME NumberInv, UNCHANGED <<toBroker, stored, delivered, calls>>,
         \A q \in Calling' : q \in Calling /\ call'[q].n = call[q].n,
         \A q \in Unsent' : q \in Unsent
  PROVE  NumberInv'
  <1>1. \A q \in Unsent' : q \in Calling'
    BY DEF Unsent, Calling
  <1> QED
    BY <1>1 DEF NumberInv

LEMMA NumbersReturn ==
  ASSUME LinkInv, NumberInv, NEW p \in Senders, NEW result, Return(p, result),
         UNCHANGED <<toBroker, stored, delivered, calls>>
  PROVE  NumberInv'
  <1>1. call'[p].pc = "idle" /\ \A q \in Senders : q # p => call'[q] = call[q]
    BY Returning
  <1>2. \A q \in Calling' : q \in Calling /\ call'[q].n = call[q].n
    BY <1>1 DEF Calling
  <1>3. \A q \in Unsent' : q \in Unsent
    BY <1>1 DEF Unsent
  <1> QED
    BY <1>2, <1>3, NumbersByCall

LEMMA NumbersMove ==
  ASSUME LinkInv, NumberInv, NEW p \in Calling, NEW step \in Steps, Moves(p, step),
         step \in {"send", "register"} => p \in Unsent, step # "awaiting",
         UNCHANGED <<toBroker, stored, delivered, calls>>
  PROVE  NumberInv'
  <1>1. /\ call'[p].pc = step /\ call'[p].n = call[p].n
        /\ \A q \in Senders : q # p => call'[q] = call[q]
    BY Moving
  <1>2. \A q \in Calling' : q \in Calling /\ call'[q].n = call[q].n
    BY <1>1 DEF Calling
  <1>3. \A q \in Unsent' : q \in Unsent
    BY <1>1 DEF Unsent
  <1> QED
    BY <1>2, <1>3, NumbersByCall

LEMMA NumbersConnect ==
  ASSUME NumberInv, Attach \/ Break \/ Detach \/ CloseBegins
  PROVE  NumberInv'
  <1>1. delivered' = delivered /\ calls' = calls /\ call' = call
    BY DEF Attach, Break, Detach, CloseBegins, brokerVars, messageVars
  <1>2. (toBroker' = toBroker /\ stored' = stored) \/ (toBroker' = <<>> /\ stored' = <<>>)
    BY DEF Attach, Break, Detach, CloseBegins, brokerVars, messageVars
  <1>3. DOMAIN <<>> = {}
    BY NoPackets
  <1>4. Calling' = Calling /\ Unsent' = Unsent
    BY <1>1 DEF Calling, Unsent
  <1> QED
    BY <1>1, <1>2, <1>3, <1>4 DEF NumberInv

LEMMA NumbersBegin ==
  ASSUME LinkInv, NumberInv, NEW p \in Senders, NEW qos \in 0 .. 2, PublishBegins(p, qos)
  PROVE  NumberInv'
  <1>1. calls' = calls + 1 /\ calls' \in Messages /\ calls \in Nat
    BY MqttPublishAssumption DEF LinkInv, PublishBegins, Messages
  <1>2. UNCHANGED <<toBroker, stored, delivered>>
    BY DEF PublishBegins, brokerVars
  <1>3. call'[p].n = calls + 1 /\ call'[p].pc = "awaiting" /\ \A q \in Senders : q # p => call'[q] = call[q]
    BY DEF PublishBegins, LinkInv
  <1>4. \A q \in Calling : q \in Senders /\ call[q].n \in 1 .. calls
    BY CallFields DEF Calling
  <1>5. \A q \in Calling' : q = p \/ (q \in Calling /\ call'[q].n = call[q].n)
    BY <1>3 DEF Calling
  <1>6. \A q \in Unsent' : q = p \/ (q \in Unsent /\ call'[q].n = call[q].n)
    BY <1>3 DEF Unsent
  <1>7. \A id \in DOMAIN stored : stored[id] \in 1 .. calls
    BY DEF LinkInv
  <1>8. \A q, r \in Calling' : call'[q].n = call'[r].n => q = r
    BY <1>1, <1>3, <1>4, <1>5 DEF NumberInv
  <1>9. \A q \in Unsent' :
          /\ delivered'[call'[q].n] = 0
          /\ \A i \in DOMAIN toBroker' : toBroker'[i].type = "publish" => toBroker'[i].n # call'[q].n
          /\ \A id \in DOMAIN stored' : stored'[id] # call'[q].n
    <2> TAKE q \in Unsent'
    <2>1. CASE q = p
      BY <1>1, <1>2, <1>3, <1>7, <2>1 DEF NumberInv
    <2>2. CASE q # p
      BY <1>2, <1>6, <2>2 DEF NumberInv
    <2> QED
      BY <2>1, <2>2
  <1>10. \A n \in Messages : delivered'[n] <= 1 /\ (n > calls' => delivered'[n] = 0)
    BY <1>1, <1>2 DEF NumberInv, Messages
  <1>11. \A i \in DOMAIN toBroker' : toBroker'[i].type = "publish" => toBroker'[i].n \in 1 .. calls'
    BY <1>1, <1>2 DEF NumberInv
  <1> QED
    BY <1>2, <1>8, <1>9, <1>10, <1>11 DEF NumberInv

LEMMA NumbersSend ==
  ASSUME LinkInv, NumberInv, NEW p \in Senders, Send(p)
  PROVE  NumberInv'
  <1>1. call[p].pc = "send" /\ p \in Calling /\ p \in Unsent
    BY DEF Send, Does, Calling, Unsent
  <1>2. call[p] \in [pc : Steps, qos : 0 .. 2, id : 0 .. MaxId, n : 1 .. calls]
    BY <1>1, CallFields
  <1> DEFINE packet == Publish(call[p].qos, call[p].id, call[p].n)
  <1>3. packet.type = "publish" /\ packet.qos = call[p].qos /\ packet.id = call[p].id /\ packet.n = call[p].n
    BY DEF Publish
  <1>4. UNCHANGED <<stored, delivered, calls>>
    BY DEF Send, brokerVars
  <1>5. /\ \A q \in Calling' : q \in Calling /\ call'[q].n = call[q].n
        /\ \A q \in Unsent' : q \in Unsent /\ q # p
    <2>1. CASE Return(p, "ok")
      <3>1. call'[p].pc = "idle" /\ \A q \in Senders : q # p => call'[q] = call[q]
        BY <2>1, Returning
      <3> QED
        BY <3>1 DEF Calling, Unsent
    <2>2. CASE Moves(p, "wait")
      <3>1. call'[p].pc = "wait" /\ call'[p].n = call[p].n /\ \A q \in Senders : q # p => call'[q] = call[q]
        BY <1>1, <2>2, Moving DEF Steps
      <3> QED
        BY <1>1, <3>1 DEF Calling, Unsent
    <2> QED
      BY <2>1, <2>2 DEF Send
  <1>6. Unsent' \subseteq Calling'
    BY DEF Unsent, Calling
  <1>7. CASE ~alive
    <2>1. toBroker' = toBroker
      BY <1>7 DEF Send, Sends
    <2> QED
      BY <1>4, <1>5, <2>1, NumbersByCall
  <1>8. CASE alive
    <2>1. toBroker' = Append(toBroker, packet) /\ toBroker \in Seq(Packets)
      BY <1>8 DEF Send, Sends, LinkInv
    <2>2. packet \in Packets
      BY <1>2, PublishTypes
    <2>3. /\ DOMAIN toBroker' = DOMAIN toBroker \cup {Len(toBroker) + 1}
          /\ \A i \in DOMAIN toBroker : toBroker'[i] = toBroker[i]
          /\ toBroker'[Len(toBroker) + 1] = packet
      BY <2>1, <2>2, AppendTo
    <2> HIDE DEF packet
    <2>4. \A i \in DOMAIN toBroker' : toBroker'[i].type = "publish" =>
            /\ toBroker'[i].n \in 1 .. calls' /\ delivered'[toBroker'[i].n] = 0
            /\ toBroker'[i].qos > 0 => toBroker'[i].id # 0
            /\ \A id \in DOMAIN stored' : stored'[id] # toBroker'[i].n
      <3>1. packet.qos > 0 => packet.id # 0
        BY <1>1, <1>3 DEF LinkInv, Registered
      <3>2. packet.n \in 1 .. calls /\ delivered[packet.n] = 0 /\ \A id \in DOMAIN stored : stored[id] # packet.n
        BY <1>1, <1>2, <1>3 DEF NumberInv
      <3> QED
        BY <1>4, <2>3, <3>1, <3>2 DEF NumberInv
    <2>5. \A i, j \in DOMAIN toBroker' :
            toBroker'[i].type = "publish" /\ toBroker'[j].type = "publish" /\ toBroker'[i].n = toBroker'[j].n => i = j
      BY <1>1, <1>3, <2>3 DEF NumberInv
    <2>6. \A q \in Unsent' :
            /\ delivered'[call'[q].n] = 0
            /\ \A i \in DOMAIN toBroker' : toBroker'[i].type = "publish" => toBroker'[i].n # call'[q].n
            /\ \A id \in DOMAIN stored' : stored'[id] # call'[q].n
      <3> TAKE q \in Unsent'
      <3>1. q \in Unsent /\ q # p /\ call'[q].n = call[q].n /\ q \in Calling
        BY <1>5, <1>6
      <3>2. packet.n # call[q].n
        BY <1>1, <1>3, <3>1 DEF NumberInv
      <3> QED
        BY <1>4, <2>3, <3>1, <3>2 DEF NumberInv
    <2>7. \A q, r \in Calling' : call'[q].n = call'[r].n => q = r
      BY <1>5 DEF NumberInv
    <2> QED
      BY <1>4, <2>4, <2>5, <2>6, <2>7 DEF NumberInv
  <1> QED
    BY <1>7, <1>8

(* One message passed on, or stored instead of under way.                  *)
LEMMA NumbersPass ==
  ASSUME LinkInv, NumberInv, NEW m \in 1 .. calls, Passes(m), delivered[m] = 0,
         NEW d \in Nat, Follows(toBroker, toBroker', d, {}),
         \A i \in DOMAIN toBroker' : toBroker'[i].type = "publish" => toBroker'[i].n # m,
         \A p \in Unsent : call[p].n # m,
         DOMAIN stored' \subseteq DOMAIN stored,
         \A id \in DOMAIN stored' : stored'[id] = stored[id] /\ stored[id] # m,
         UNCHANGED <<calls, call>>
  PROVE  NumberInv'
  <1>1. calls \in 0 .. MaxCalls /\ MaxCalls \in Nat /\ delivered \in [Messages -> Nat]
    BY MqttPublishAssumption DEF LinkInv, PublishTypeOK
  <1>2. m \in Messages
    BY <1>1 DEF Messages
  <1>3. delivered'[m] = 1 /\ \A n \in Messages : n # m => delivered'[n] = delivered[n]
    BY <1>1, <1>2 DEF Passes
  <1>4. 1 .. calls \subseteq Messages
    BY <1>1 DEF Messages
  <1>5. \A i \in DOMAIN toBroker' : toBroker'[i].type = "publish" =>
          i \in Nat /\ i + d \in DOMAIN toBroker /\ toBroker'[i] = toBroker[i + d]
    BY DEF Follows
  <1>6. \A i, j \in DOMAIN toBroker' :
          toBroker'[i].type = "publish" /\ toBroker'[j].type = "publish" /\ toBroker'[i].n = toBroker'[j].n => i = j
    <2> SUFFICES ASSUME NEW i \in DOMAIN toBroker', NEW j \in DOMAIN toBroker',
                        toBroker'[i].type = "publish", toBroker'[j].type = "publish",
                        toBroker'[i].n = toBroker'[j].n
                 PROVE  i = j
      OBVIOUS
    <2>1. i + d = j + d
      BY <1>5 DEF NumberInv
    <2>2. i \in Nat /\ j \in Nat
      BY <1>5
    <2> QED
      BY <2>1, <2>2
  <1>7. Calling' = Calling /\ Unsent' = Unsent
    BY DEF Calling, Unsent
  <1>8. \A n \in Messages : delivered'[n] <= 1 /\ (n > calls' => delivered'[n] = 0)
    BY <1>1, <1>2, <1>3 DEF NumberInv
  <1>9. \A i \in DOMAIN toBroker' : toBroker'[i].type = "publish" =>
          /\ toBroker'[i].n \in 1 .. calls' /\ delivered'[toBroker'[i].n] = 0
          /\ toBroker'[i].qos > 0 => toBroker'[i].id # 0
          /\ \A id \in DOMAIN stored' : stored'[id] # toBroker'[i].n
    BY <1>3, <1>4, <1>5 DEF NumberInv
  <1>10. \A id \in DOMAIN stored' : delivered'[stored'[id]] = 0
    BY <1>3, <1>4 DEF NumberInv, LinkInv
  <1>11. \A p \in Unsent' :
           /\ delivered'[call'[p].n] = 0
           /\ \A i \in DOMAIN toBroker' : toBroker'[i].type = "publish" => toBroker'[i].n # call'[p].n
           /\ \A id \in DOMAIN stored' : stored'[id] # call'[p].n
    <2> TAKE p \in Unsent'
    <2>1. p \in Unsent /\ call'[p] = call[p] /\ p \in Senders /\ call[p].pc # "idle"
      BY <1>7 DEF Unsent
    <2>2. call[p].n \in Messages
      BY <1>4, <2>1, CallFields
    <2> QED
      BY <1>3, <1>5, <2>1, <2>2 DEF NumberInv
  <1>12. /\ \A id, jd \in DOMAIN stored' : stored'[id] = stored'[jd] => id = jd
         /\ \A p, q \in Calling' : call'[p].n = call'[q].n => p = q
    BY <1>7 DEF NumberInv
  <1> QED
    BY <1>6, <1>8, <1>9, <1>10, <1>11, <1>12 DEF NumberInv

LEMMA NumbersBroker ==
  ASSUME LinkInv, NumberInv, TokenInv, BrokerReads
  PROVE  NumberInv'
  <1>1. /\ toBroker # <<>> /\ toBroker \in Seq(Packets) /\ toBroker' = Tail(toBroker)
        /\ First = toBroker[1] /\ 1 \in DOMAIN toBroker
        /\ call' = call /\ calls' = calls
    BY BrokerCases DEF messageVars
  <1>2. /\ Follows(toBroker, toBroker', 1, {})
        /\ \A i \in DOMAIN toBroker' : i + 1 \in DOMAIN toBroker /\ i + 1 # 1 /\ toBroker'[i] = toBroker[i + 1]
    BY <1>1, FollowsTail, TailOf
  <1>3. First.type = "publish" =>
          /\ First.n \in 1 .. calls /\ delivered[First.n] = 0
          /\ \A i \in DOMAIN toBroker' : toBroker'[i].type = "publish" => toBroker'[i].n # First.n
          /\ \A id \in DOMAIN stored : stored[id] # First.n
          /\ \A p \in Unsent : call[p].n # First.n
    BY <1>1, <1>2 DEF NumberInv
  <1>4. CASE First.type = "publish" /\ Passes(First.n) /\ UNCHANGED stored
    BY <1>1, <1>2, <1>3, <1>4, NumbersPass
  <1>5. CASE Takes2
    <2>1. /\ DOMAIN stored' = DOMAIN stored \cup {First.id} /\ stored'[First.id] = First.n
          /\ \A id \in DOMAIN stored : id # First.id => stored'[id] = stored[id]
          /\ delivered' = delivered
      BY <1>5 DEF Takes2, With
    <2>2. First.type = "publish"
      BY <1>5 DEF Takes2
    <2>3. \A i \in DOMAIN toBroker' : toBroker'[i].type = "publish" =>
            /\ toBroker'[i].n \in 1 .. calls' /\ delivered'[toBroker'[i].n] = 0
            /\ toBroker'[i].qos > 0 => toBroker'[i].id # 0
            /\ \A id \in DOMAIN stored' : stored'[id] # toBroker'[i].n
      BY <1>1, <1>2, <1>3, <2>1, <2>2 DEF NumberInv
    <2>4. \A i, j \in DOMAIN toBroker' :
            toBroker'[i].type = "publish" /\ toBroker'[j].type = "publish" /\ toBroker'[i].n = toBroker'[j].n => i = j
      <3> SUFFICES ASSUME NEW i \in DOMAIN toBroker', NEW j \in DOMAIN toBroker',
                          toBroker'[i].type = "publish", toBroker'[j].type = "publish",
                          toBroker'[i].n = toBroker'[j].n
                   PROVE  i = j
        OBVIOUS
      <3>1. i + 1 = j + 1
        BY <1>2 DEF NumberInv
      <3>2. i \in Nat /\ j \in Nat
        BY <1>2 DEF Follows
      <3> QED
        BY <3>1, <3>2
    <2>5. Calling' = Calling /\ Unsent' = Unsent
      BY <1>1 DEF Calling, Unsent
    <2>6. \A p \in Unsent' :
            /\ delivered'[call'[p].n] = 0
            /\ \A i \in DOMAIN toBroker' : toBroker'[i].type = "publish" => toBroker'[i].n # call'[p].n
            /\ \A id \in DOMAIN stored' : stored'[id] # call'[p].n
      BY <1>1, <1>2, <1>3, <2>1, <2>2, <2>5 DEF NumberInv
    <2>7. \A id \in DOMAIN stored' : delivered'[stored'[id]] = 0
      BY <1>3, <2>1, <2>2 DEF NumberInv
    <2>8. \A id, jd \in DOMAIN stored' : stored'[id] = stored'[jd] => id = jd
      BY <1>3, <2>1, <2>2 DEF NumberInv
    <2> QED
      BY <1>1, <2>1, <2>3, <2>4, <2>5, <2>6, <2>7, <2>8 DEF NumberInv
  <1>6. CASE Releases
    <2>1. First.id \in DOMAIN stored /\ Passes(stored[First.id])
      BY <1>1, <1>6 DEF Releases, TokenInv
    <2> DEFINE m == stored[First.id]
    <2>2. m \in 1 .. calls /\ delivered[m] = 0
      BY <2>1 DEF LinkInv, NumberInv
    <2>3. /\ DOMAIN stored' \subseteq DOMAIN stored
          /\ \A id \in DOMAIN stored' : stored'[id] = stored[id] /\ id # First.id
      BY <1>6 DEF Releases, Restrict
    <2>4. \A id \in DOMAIN stored' : stored'[id] = stored[id] /\ stored[id] # m
      BY <2>1, <2>3 DEF NumberInv
    <2>5. /\ \A i \in DOMAIN toBroker' : toBroker'[i].type = "publish" => toBroker'[i].n # m
          /\ \A p \in Unsent : call[p].n # m
      BY <1>2, <2>1 DEF NumberInv
    <2> QED
      BY <1>1, <1>2, <2>1, <2>2, <2>3, <2>4, <2>5, NumbersPass
  <1>7. CASE UNCHANGED <<stored, delivered>>
    BY <1>1, <1>2, <1>7, NumbersByPacket
  <1> QED
    BY <1>4, <1>5, <1>6, <1>7, BrokerCases DEF Takes0, Takes1, Finishes, Hears, HearsAgain

LEMMA NumbersRead ==
  ASSUME LinkInv, NumberInv, ReadAck \/ ReadPubrec \/ ReadPublish \/ ReadPubrel
  PROVE  NumberInv'
  <1>1. UNCHANGED <<stored, delivered, calls, call>> /\ toBroker \in Seq(Packets) /\ alive
    BY DEF ReadAck, ReadPubrec, ReadPublish, ReadPubrel, Reads, messageVars, brokerVars, LinkInv
  <1>2. toBroker' = toBroker \/ \E x : toBroker' = Append(toBroker, x) /\ x.type # "publish"
    BY <1>1 DEF ReadAck, ReadPubrec, ReadPublish, ReadPubrel, Sends, Packet
  <1>3. CASE toBroker' = toBroker
    <2>1. Follows(toBroker, toBroker', 0, {})
      BY <1>1, <1>3, FollowsSame
    <2> QED
      BY <1>1, <2>1, NumbersByPacket
  <1>4. CASE \E x : toBroker' = Append(toBroker, x) /\ x.type # "publish"
    <2>1. PICK x : toBroker' = Append(toBroker, x) /\ x.type # "publish"
      BY <1>4
    <2>2. Follows(toBroker, toBroker', 0, {x})
      BY <1>1, <2>1, FollowsAppend
    <2> QED
      BY <1>1, <2>1, <2>2, NumbersByPacket
  <1> QED
    BY <1>2, <1>3, <1>4

LEMMA NumbersBrokerSends ==
  ASSUME LinkInv, NumberInv, (\E qos \in 0 .. 2 : BrokerSends(qos)) \/ BrokerRepeats
  PROVE  NumberInv'
  <1>1. UNCHANGED <<stored, delivered, calls, call, toBroker>> /\ toBroker \in Seq(Packets)
    BY DEF BrokerSends, BrokerRepeats, messageVars, brokerVars, LinkInv
  <1>2. Follows(toBroker, toBroker', 0, {})
    BY <1>1, FollowsSame
  <1> QED
    BY <1>1, <1>2, NumbersByPacket

-----------------------------------------------------------------------------
(* TokenInv: what the packets that are read or sent leave to be shown;     *)
(* then action by action.                                                  *)
LEMMA TokensByPacket ==
  ASSUME TokenInv, NEW d \in Nat, NEW e \in Nat, NEW new, NEW fresh,
         Follows(toBroker, toBroker', d, new), Follows(toClient, toClient', e, fresh),
         \A x \in new : Asks(x) =>
           /\ \A i \in DOMAIN toBroker : Asks(toBroker[i]) => toBroker[i].id # x.id
           /\ \A i \in DOMAIN toClient' : Answers(toClient'[i]) => toClient'[i].id # x.id
           /\ x.type = "pubrel" => x.id \in DOMAIN stored',
         \A x \in fresh : Answers(x) =>
           /\ \A i \in DOMAIN toClient : Answers(toClient[i]) => toClient[i].id # x.id
           /\ \A i \in DOMAIN toBroker' : Asks(toBroker'[i]) => toBroker'[i].id # x.id
           /\ x.type = "pubrec" => x.id \in DOMAIN stored',
         \A id \in DOMAIN stored \ DOMAIN stored' :
           /\ \A i \in DOMAIN toBroker' : Asks(toBroker'[i]) => toBroker'[i].id # id
           /\ \A i \in DOMAIN toClient' : toClient'[i].type = "pubrec" => toClient'[i].id # id
  PROVE  TokenInv'
  <1>1. \A i \in DOMAIN toBroker' :
          /\ i \in Nat
          /\ \/ i + d \in DOMAIN toBroker /\ toBroker'[i] = toBroker[i + d]
             \/ i = Len(toBroker') /\ toBroker'[i] \in new
    BY DEF Follows
  <1>2. \A i \in DOMAIN toClient' :
          /\ i \in Nat
          /\ \/ i + e \in DOMAIN toClient /\ toClient'[i] = toClient[i + e]
             \/ i = Len(toClient') /\ toClient'[i] \in fresh
    BY DEF Follows
  <1>3. ASSUME NEW i \in DOMAIN toBroker', NEW j \in DOMAIN toBroker',
               Asks(toBroker'[i]), Asks(toBroker'[j]), toBroker'[i].id = toBroker'[j].id
        PROVE  i = j
    <2>1. CASE (i + d \in DOMAIN toBroker /\ toBroker'[i] = toBroker[i + d])
               /\ (j + d \in DOMAIN toBroker /\ toBroker'[j] = toBroker[j + d])
      <3>1. i + d = j + d
        BY <1>3, <2>1 DEF TokenInv
      <3> QED
        BY <1>1, <3>1
    <2>2. CASE i = Len(toBroker') /\ j = Len(toBroker')
      BY <2>2
    <2> QED
      BY <1>1, <1>3, <2>1, <2>2
  <1>4. ASSUME NEW i \in DOMAIN toClient', NEW j \in DOMAIN toClient',
               Answers(toClient'[i]), Answers(toClient'[j]), toClient'[i].id = toClient'[j].id
        PROVE  i = j
    <2>1. CASE (i + e \in DOMAIN toClient /\ toClient'[i] = toClient[i + e])
               /\ (j + e \in DOMAIN toClient /\ toClient'[j] = toClient[j + e])
      <3>1. i + e = j + e
        BY <1>4, <2>1 DEF TokenInv
      <3> QED
        BY <1>2, <3>1
    <2>2. CASE i = Len(toClient') /\ j = Len(toClient')
      BY <2>2
    <2> QED
      BY <1>2, <1>4, <2>1, <2>2
  <1>5. \A i \in DOMAIN toBroker', j \in DOMAIN toClient' :
          Asks(toBroker'[i]) /\ Answers(toClient'[j]) => toBroker'[i].id # toClient'[j].id
    BY <1>1, <1>2 DEF TokenInv
  <1>6. \A i \in DOMAIN toBroker' : toBroker'[i].type = "pubrel" => toBroker'[i].id \in DOMAIN stored'
    BY <1>1 DEF TokenInv, Asks
  <1>7. \A i \in DOMAIN toClient' : toClient'[i].type = "pubrec" => toClient'[i].id \in DOMAIN stored'
    BY <1>2 DEF TokenInv, Answers
  <1> QED
    BY <1>3, <1>4, <1>5, <1>6, <1>7 DEF TokenInv

LEMMA TokensStay ==
  ASSUME TokenInv, UNCHANGED <<toBroker, toClient, stored>>
  PROVE  TokenInv'
  BY DEF TokenInv

LEMMA TokensConnect ==
  ASSUME TokenInv, Attach \/ Break \/ Detach \/ CloseBegins
  PROVE  TokenInv'
  <1>1. UNCHANGED <<toBroker, toClient, stored>> \/ (toBroker' = <<>> /\ toClient' = <<>>)
    BY DEF Attach, Break, Detach, CloseBegins, brokerVars
  <1>2. DOMAIN <<>> = {}
    BY NoPackets
  <1> QED
    BY <1>1, <1>2, TokensStay DEF TokenInv

LEMMA TokensSend ==
  ASSUME LinkInv, TokenInv, CallInv, NEW p \in Senders, Send(p)
  PROVE  TokenInv'
  <1> DEFINE packet == Publish(call[p].qos, call[p].id, call[p].n)
  <1>1. packet.type = "publish" /\ packet.qos = call[p].qos /\ packet.id = call[p].id
    BY DEF Publish
  <1>2. toClient' = toClient /\ stored' = stored /\ toBroker \in Seq(Packets) /\ toClient \in Seq(Packets)
    BY DEF Send, brokerVars, LinkInv
  <1>3. toBroker' = toBroker \/ toBroker' = Append(toBroker, packet)
    BY DEF Send, Sends
  <1>4. Asks(packet) => call[p].id \notin Owed
    BY <1>1 DEF Asks, CallInv, Registered, Send, Does
  <1>5. Asks(packet) =>
          /\ \A i \in DOMAIN toBroker : Asks(toBroker[i]) => toBroker[i].id # packet.id
          /\ \A i \in DOMAIN toClient' : Answers(toClient'[i]) => toClient'[i].id # packet.id
    BY <1>1, <1>2, <1>4 DEF Owed
  <1>6. CASE toBroker' = toBroker
    BY <1>2, <1>6, TokensStay
  <1>7. CASE toBroker' = Append(toBroker, packet)
    <2>1. Follows(toBroker, toBroker', 0, {packet}) /\ Follows(toClient, toClient', 0, {})
      BY <1>2, <1>7, FollowsAppend, FollowsSame
    <2>2. packet.type # "pubrel"
      BY <1>1
    <2> HIDE DEF packet
    <2>3. \A x \in {packet} : Asks(x) =>
            /\ \A i \in DOMAIN toBroker : Asks(toBroker[i]) => toBroker[i].id # x.id
            /\ \A i \in DOMAIN toClient' : Answers(toClient'[i]) => toClient'[i].id # x.id
            /\ x.type = "pubrel" => x.id \in DOMAIN stored'
      BY <1>5, <2>2
    <2>4. DOMAIN stored \ DOMAIN stored' = {}
      BY <1>2
    <2> QED
      BY <2>1, <2>3, <2>4, TokensByPacket
  <1> QED
    BY <1>3, <1>6, <1>7

LEMMA TokensRead ==
  ASSUME LinkInv, TokenInv, ReadAck \/ ReadPubrec \/ ReadPublish \/ ReadPubrel
  PROVE  TokenInv'
  <1>1. /\ stored' = stored /\ toBroker \in Seq(Packets) /\ toClient \in Seq(Packets)
        /\ toClient # <<>> /\ toClient' = Tail(toClient) /\ alive
    BY DEF ReadAck, ReadPubrec, ReadPublish, ReadPubrel, Reads, messageVars, brokerVars, LinkInv
  <1>2. /\ Head(toClient) = toClient[1] /\ 1 \in DOMAIN toClient
        /\ \A i \in DOMAIN toClient' : i + 1 \in DOMAIN toClient /\ i + 1 # 1 /\ toClient'[i] = toClient[i + 1]
    BY <1>1, TailOf
  <1>3. Follows(toClient, toClient', 1, {})
    BY <1>1, FollowsTail
  <1>4. DOMAIN stored \ DOMAIN stored' = {}
    BY <1>1
  <1>5. CASE toBroker' = toBroker
    <2>1. Follows(toBroker, toBroker', 0, {})
      BY <1>1, <1>5, FollowsSame
    <2> QED
      BY <1>3, <1>4, <2>1, TokensByPacket
  <1>6. ASSUME NEW x, toBroker' = Append(toBroker, x), ~Asks(x)
        PROVE  TokenInv'
    <2>1. Follows(toBroker, toBroker', 0, {x})
      BY <1>1, <1>6, FollowsAppend
    <2> QED
      BY <1>3, <1>4, <1>6, <2>1, TokensByPacket
  <1>7. CASE ReadPubrec
    <2> DEFINE x == Packet("pubrel", Head(toClient).id, 0)
    <2>1. toBroker' = Append(toBroker, x)
      BY <1>1, <1>7 DEF ReadPubrec, Sends
    <2>2. Follows(toBroker, toBroker', 0, {x})
      BY <1>1, <2>1, FollowsAppend
    <2>3. toClient[1].type = "pubrec" /\ Answers(toClient[1]) /\ x.id = toClient[1].id /\ toClient[1].id \in DOMAIN stored'
      BY <1>1, <1>2, <1>7 DEF ReadPubrec, Reads, Answers, Packet, TokenInv
    <2> HIDE DEF x
    <2>4. \A i \in DOMAIN toBroker : Asks(toBroker[i]) => toBroker[i].id # x.id
      BY <1>2, <2>3 DEF TokenInv
    <2>5. \A i \in DOMAIN toClient' : Answers(toClient'[i]) => toClient'[i].id # x.id
      BY <1>2, <2>3 DEF TokenInv
    <2>6. \A z \in {x} : Asks(z) =>
            /\ \A i \in DOMAIN toBroker : Asks(toBroker[i]) => toBroker[i].id # z.id
            /\ \A i \in DOMAIN toClient' : Answers(toClient'[i]) => toClient'[i].id # z.id
            /\ z.type = "pubrel" => z.id \in DOMAIN stored'
      BY <2>3, <2>4, <2>5
    <2> QED
      BY <1>3, <1>4, <2>2, <2>6, TokensByPacket
  <1>8. toBroker' = toBroker \/ ReadPubrec \/ \E x : toBroker' = Append(toBroker, x) /\ ~Asks(x)
    BY <1>1 DEF ReadAck, ReadPubrec, ReadPublish, ReadPubrel, Sends, Packet, Asks
  <1> QED
    BY <1>5, <1>6, <1>7, <1>8

LEMMA TokensBrokerSends ==
  ASSUME LinkInv, TokenInv, (\E qos \in 0 .. 2 : BrokerSends(qos)) \/ BrokerRepeats
  PROVE  TokenInv'
  <1>1. /\ toBroker' = toBroker /\ stored' = stored
        /\ toBroker \in Seq(Packets) /\ toClient \in Seq(Packets)
    BY DEF BrokerSends, BrokerRepeats, brokerVars, LinkInv
  <1>2. PICK x : toClient' = Append(toClient, x) /\ ~Answers(x)
    BY DEF BrokerSends, BrokerRepeats, Publish, Answers
  <1>3. Follows(toBroker, toBroker', 0, {}) /\ Follows(toClient, toClient', 0, {x})
    BY <1>1, <1>2, FollowsSame, FollowsAppend
  <1>4. DOMAIN stored \ DOMAIN stored' = {}
    BY <1>1
  <1> QED
    BY <1>2, <1>3, <1>4, TokensByPacket

LEMMA TokensBroker ==
  ASSUME LinkInv, TokenInv, BrokerReads
  PROVE  TokenInv'
  <1>1. /\ toBroker # <<>> /\ toBroker \in Seq(Packets) /\ toBroker' = Tail(toBroker)
        /\ First = toBroker[1] /\ 1 \in DOMAIN toBroker /\ toClient \in Seq(Packets)
    BY BrokerCases
  <1>2. /\ Follows(toBroker, toBroker', 1, {})
        /\ \A i \in DOMAIN toBroker' : i + 1 \in DOMAIN toBroker /\ i + 1 # 1 /\ toBroker'[i] = toBroker[i + 1]
    BY <1>1, FollowsTail, TailOf
  <1>3. Asks(First) =>
          /\ \A i \in DOMAIN toBroker' : Asks(toBroker'[i]) => toBroker'[i].id # First.id
          /\ \A i \in DOMAIN toClient : Answers(toClient[i]) => toClient[i].id # First.id
    BY <1>1, <1>2 DEF TokenInv
  <1>4. CASE toClient' = toClient /\ stored' = stored
    <2>1. Follows(toClient, toClient', 0, {}) /\ DOMAIN stored \ DOMAIN stored' = {}
      BY <1>1, <1>4, FollowsSame
    <2> QED
      BY <1>2, <2>1, TokensByPacket
  <1>5. ASSUME NEW type \in {"puback", "pubrec", "pubcomp"}, Replies(type), Asks(First),
               type = "pubrec" => First.id \in DOMAIN stored',
               DOMAIN stored \ DOMAIN stored' \subseteq (IF type = "pubcomp" THEN {First.id} ELSE {})
        PROVE  TokenInv'
    <2> DEFINE x == Packet(type, First.id, First.n)
    <2>1. toClient' = Append(toClient, x) /\ x.type = type /\ x.id = First.id
      BY <1>5 DEF Replies, Packet
    <2> HIDE DEF x
    <2>2. Follows(toClient, toClient', 0, {x})
      BY <1>1, <2>1, FollowsAppend
    <2>3. \A z \in {x} : Answers(z) =>
            /\ \A i \in DOMAIN toClient : Answers(toClient[i]) => toClient[i].id # z.id
            /\ \A i \in DOMAIN toBroker' : Asks(toBroker'[i]) => toBroker'[i].id # z.id
            /\ z.type = "pubrec" => z.id \in DOMAIN stored'
      BY <1>3, <1>5, <2>1
    <2>4. \A id \in DOMAIN stored \ DOMAIN stored' :
            /\ \A i \in DOMAIN toBroker' : Asks(toBroker'[i]) => toBroker'[i].id # id
            /\ \A i \in DOMAIN toClient' : toClient'[i].type = "pubrec" => toClient'[i].id # id
      <3> TAKE id \in DOMAIN stored \ DOMAIN stored'
      <3>1. type = "pubcomp" /\ id = First.id
        BY <1>5
      <3>2. \A i \in DOMAIN toClient' : toClient'[i] = x \/ (i \in DOMAIN toClient /\ toClient'[i] = toClient[i])
        BY <1>1, <2>1
      <3> QED
        BY <1>3, <1>5, <2>1, <3>1, <3>2 DEF Answers
    <2> QED
      BY <1>2, <2>2, <2>3, <2>4, TokensByPacket
  <1>6. ASSUME Replies("pubrel"), stored' = stored
        PROVE  TokenInv'
    <2> DEFINE x == Packet("pubrel", First.id, First.n)
    <2>1. toClient' = Append(toClient, x) /\ ~Answers(x)
      BY <1>6 DEF Replies, Packet, Answers
    <2> HIDE DEF x
    <2>2. Follows(toClient, toClient', 0, {x}) /\ DOMAIN stored \ DOMAIN stored' = {}
      BY <1>1, <1>6, <2>1, FollowsAppend
    <2> QED
      BY <1>2, <2>1, <2>2, TokensByPacket
  <1> QED
    BY <1>4, <1>5, <1>6, BrokerCases
       DEF Takes0, Takes1, Takes2, Releases, Finishes, Hears, HearsAgain, Asks, With, Restrict

-----------------------------------------------------------------------------
(* What is known of one registered call.                                   *)
CallOf(p) ==
  /\ call[p].pc = "send" => call[p].id \notin Owed
  /\ \A i \in DOMAIN toBroker :
       toBroker[i].type = "publish" /\ Asks(toBroker[i]) /\ toBroker[i].id = call[p].id
         => toBroker[i].n = call[p].n
  /\ call[p].id \in DOMAIN stored => stored[call[p].id] = call[p].n
  /\ \A i \in DOMAIN toClient :
       toClient[i].type \in {"puback", "pubcomp"} /\ toClient[i].id = call[p].id
         => delivered[call[p].n] = 1
  /\ call[p].id \in DOMAIN pending => \A c \in DOMAIN pending[call[p].id] :
       pending[call[p].id][c] # 1 => delivered[call[p].n] = 1

LEMMA CallsSplit ==
  CallInv <=> /\ link => DOMAIN pending = {call[p].id : p \in Registered}
              /\ link => \A p, q \in Registered : call[p].id = call[q].id => p = q
              /\ \A p \in Registered : CallOf(p)
  BY DEF CallInv, CallOf

(* CallInv, action by action.                                              *)
LEMMA CallsConnect ==
  ASSUME LinkInv, CallInv, Attach \/ Break \/ Detach \/ CloseBegins
  PROVE  CallInv'
  <1>1. call' = call /\ delivered' = delivered /\ Registered' = Registered
    BY DEF Attach, Break, Detach, CloseBegins, messageVars, brokerVars, Registered
  <1>2. DOMAIN <<>> = {}
    BY NoPackets
  <1>3. CASE Attach
    <2>1. Registered = {}
      BY <1>3 DEF Attach, NobodyLingers, Registered
    <2>2. DOMAIN pending' = {}
      BY <1>3 DEF Attach, LinkInv, tableVars
    <2> QED
      BY <1>1, <2>1, <2>2 DEF CallInv
  <1>4. CASE Break
    <2>1. /\ toBroker' = <<>> /\ toClient' = <<>> /\ stored' = <<>> /\ pending' = pending /\ link' = link
      BY <1>4 DEF Break, tableVars
    <2>2. Owed' = {}
      BY <1>2, <2>1 DEF Owed
    <2>3. \A p \in Registered : CallOf(p)'
      BY <1>1, <1>2, <2>1, <2>2, CallsSplit DEF CallOf
    <2> QED
      BY <1>1, <2>1, <2>3 DEF CallInv, CallOf
  <1>5. CASE Detach
    <2>1. /\ toBroker' = <<>> /\ toClient' = <<>> /\ stored' = <<>> /\ pending' = <<>> /\ ~link'
      BY <1>5 DEF Detach, tableVars
    <2>2. Owed' = {}
      BY <1>2, <2>1 DEF Owed
    <2> QED
      BY <1>1, <1>2, <2>1, <2>2 DEF CallInv
  <1>6. CASE CloseBegins
    <2>1. UNCHANGED <<toBroker, toClient, stored, pending, link>>
      BY <1>6 DEF CloseBegins, tableVars, brokerVars
    <2>2. Owed' = Owed
      BY <2>1 DEF Owed
    <2> QED
      BY <1>1, <2>1, <2>2 DEF CallInv
  <1> QED
    BY <1>3, <1>4, <1>5, <1>6

LEMMA CallsBegin ==
  ASSUME LinkInv, CallInv, NEW p \in Senders, NEW qos \in 0 .. 2, PublishBegins(p, qos)
  PROVE  CallInv'
  <1>1. UNCHANGED <<toBroker, toClient, stored, delivered, pending, link>>
    BY DEF PublishBegins, brokerVars, tableVars, linkVars
  <1>2. call'[p].pc = "awaiting" /\ call[p].pc = "idle" /\ \A q \in Senders : q # p => call'[q] = call[q]
    BY DEF PublishBegins, Does, LinkInv
  <1>3. Registered' = Registered /\ \A q \in Registered : call'[q] = call[q]
    BY <1>2 DEF Registered
  <1>4. Owed' = Owed
    BY <1>1 DEF Owed
  <1>5. {call'[q].id : q \in Registered'} = {call[q].id : q \in Registered}
    BY <1>3
  <1>6. \A q \in Registered' : CallOf(q)'
    BY <1>1, <1>3, <1>4, CallsSplit DEF CallOf
  <1>7. link' => DOMAIN pending' = {call'[q].id : q \in Registered'}
    BY <1>1, <1>5 DEF CallInv
  <1>8. link' => \A q, r \in Registered' : call'[q].id = call'[r].id => q = r
    BY <1>1, <1>3 DEF CallInv
  <1> QED
    BY <1>6, <1>7, <1>8 DEF CallInv, CallOf

LEMMA CallsReturn ==
  ASSUME LinkInv, CallInv, NEW p \in Calling, NEW result, Return(p, result),
         Unregister(p) \/ (p \notin Registered /\ UNCHANGED pending),
         UNCHANGED <<link, toBroker, toClient, stored, delivered>>
  PROVE  CallInv'
  <1>1. p \in Senders /\ call'[p].pc = "idle" /\ \A q \in Senders : q # p => call'[q] = call[q]
    BY Returning DEF Calling
  <1>2. /\ Registered' = Registered \ {p}
        /\ \A q \in Registered' : q \in Registered /\ q # p /\ call'[q] = call[q]
    BY <1>1 DEF Registered
  <1>3. Owed' = Owed
    BY DEF Owed
  <1>4. /\ DOMAIN pending' \subseteq DOMAIN pending
        /\ \A id \in DOMAIN pending' : pending'[id] = pending[id]
    BY <1>1, Unregistering
  <1>5. link => DOMAIN pending' = {call'[q].id : q \in Registered'}
    <2>1. CASE p \in Registered
      <3>1. DOMAIN pending' = DOMAIN pending \ {call[p].id}
        BY <1>1, <2>1, Unregistering
      <3> QED
        BY <1>2, <2>1, <3>1 DEF CallInv
    <2>2. CASE p \notin Registered
      <3>1. call[p].id = 0 /\ 0 \notin DOMAIN pending
        BY <2>2 DEF LinkInv, PublishTypeOK
      <3>2. pending' = pending \/ DOMAIN pending' = DOMAIN pending \ {call[p].id}
        BY <1>1, Unregistering
      <3>3. DOMAIN pending' = DOMAIN pending
        BY <3>1, <3>2
      <3>4. {call'[q].id : q \in Registered'} = {call[q].id : q \in Registered}
        BY <1>2, <2>2
      <3> QED
        BY <3>3, <3>4 DEF CallInv
    <2> QED
      BY <2>1, <2>2
  <1>6. \A q \in Registered' : CallOf(q)'
    BY <1>2, <1>3, <1>4, CallsSplit DEF CallOf
  <1>7. link => \A q, r \in Registered' : call'[q].id = call'[r].id => q = r
    BY <1>2 DEF CallInv
  <1> QED
    BY <1>5, <1>6, <1>7 DEF CallInv, CallOf

LEMMA CallsMove ==
  ASSUME LinkInv, CallInv, NEW p \in Calling, NEW step \in Steps, Moves(p, step),
         step \in {"send", "wait", "complete"} /\ call[p].qos > 0 <=> p \in Registered,
         p \in Registered => step # "send",
         UNCHANGED <<link, toBroker, toClient, stored, delivered>>,
         DOMAIN pending' = DOMAIN pending,
         \A id \in DOMAIN pending : \A c \in DOMAIN pending'[id] :
           \E o \in DOMAIN pending[id] : pending'[id][c] = pending[id][o]
  PROVE  CallInv'
  <1>1. /\ p \in Senders
        /\ call'[p].pc = step /\ call'[p].qos = call[p].qos /\ call'[p].id = call[p].id
        /\ call'[p].n = call[p].n
        /\ \A q \in Senders : q # p => call'[q] = call[q]
    BY Moving
  <1>2. Registered' = Registered
    BY <1>1 DEF Registered
  <1>3. \A q \in Registered : /\ call'[q].id = call[q].id /\ call'[q].n = call[q].n
                              /\ call'[q].pc = "send" => call[q].pc = "send"
    BY <1>1 DEF Registered
  <1>4. Owed' = Owed
    BY DEF Owed
  <1>5. {call'[q].id : q \in Registered'} = {call[q].id : q \in Registered}
    BY <1>2, <1>3
  <1>6. ASSUME NEW q \in Registered'
        PROVE  CallOf(q)'
    <2>1. /\ call'[q].id = call[q].id /\ call'[q].n = call[q].n
          /\ call'[q].pc = "send" => call[q].pc = "send"
          /\ CallOf(q)
      BY <1>2, <1>3, CallsSplit
    <2>2. call[q].id \in DOMAIN pending => \A c \in DOMAIN pending'[call[q].id] :
            pending'[call[q].id][c] # 1 => delivered[call[q].n] = 1
      BY <2>1 DEF CallOf
    <2> QED
      BY <1>4, <2>1, <2>2 DEF CallOf
  <1>7. link => \A q, r \in Registered' : call'[q].id = call'[r].id => q = r
    BY <1>2, <1>3 DEF CallInv
  <1>8. link' => DOMAIN pending' = {call'[q].id : q \in Registered'}
    BY <1>5 DEF CallInv
  <1> QED
    BY <1>6, <1>7, <1>8 DEF CallInv, CallOf

LEMMA CallsRegister ==
  ASSUME LinkInv, NumberInv, CallInv, NEW p \in Senders, Register(p)
  PROVE  CallInv'
  <1>1. UNCHANGED <<link, toBroker, toClient, stored, delivered>>
    BY DEF Register, linkVars, brokerVars
  <1>2. call[p].pc = "register" /\ p \in Calling /\ p \notin Registered
    BY DEF Register, Does, Calling, Registered
  <1>3. CASE Return(p, "error") /\ UNCHANGED tableVars
    BY <1>1, <1>2, <1>3, CallsReturn DEF tableVars
  <1>4. ASSUME NEW id \in Fresh \ Owed, pending' = With(pending, id, <<>>), link,
               call' = [call EXCEPT ![p] = [pc |-> "send", qos |-> @.qos, id |-> id, n |-> @.n]]
        PROVE  CallInv'
    <2>1. /\ call'[p].pc = "send" /\ call'[p].qos = call[p].qos /\ call'[p].id = id
          /\ \A q \in Senders : q # p => call'[q] = call[q]
      BY <1>4 DEF LinkInv
    <2>2. call[p].qos > 0
      BY <1>2 DEF LinkInv
    <2>3. Registered' = Registered \cup {p} /\ \A q \in Registered : q # p /\ call'[q] = call[q]
      BY <1>2, <2>1, <2>2 DEF Registered
    <2>4. id \notin DOMAIN pending
      BY <1>4 DEF Fresh
    <2>5. /\ DOMAIN pending' = DOMAIN pending \cup {id} /\ pending'[id] = <<>>
          /\ \A k \in DOMAIN pending : pending'[k] = pending[k]
      BY <1>4, <2>4 DEF With
    <2>6. Owed' = Owed
      BY <1>1 DEF Owed
    <2>7. CallOf(p)'
      <3>1. /\ \A i \in DOMAIN toBroker : Asks(toBroker[i]) => toBroker[i].id # id
            /\ \A i \in DOMAIN toClient : Answers(toClient[i]) => toClient[i].id # id
            /\ id \notin DOMAIN stored
        BY <1>4 DEF Owed
      <3>2. \A i \in DOMAIN toClient : toClient[i].type \in {"puback", "pubcomp"} => toClient[i].id # id
        BY <3>1 DEF Answers
      <3>3. \A c \in DOMAIN pending'[id] : FALSE
        BY <2>5, NoPackets
      <3>4. id \notin Owed'
        BY <1>4, <2>6
      <3> QED
        BY <1>1, <2>1, <3>1, <3>2, <3>3, <3>4 DEF CallOf
    <2>8. ASSUME NEW q \in Registered
          PROVE  CallOf(q)'
      <3>1. CallOf(q) /\ call'[q] = call[q] /\ call[q].id \in DOMAIN pending
        BY <1>4, <2>3, CallsSplit
      <3> QED
        BY <1>1, <2>5, <2>6, <3>1 DEF CallOf
    <2>9. DOMAIN pending' = {call'[q].id : q \in Registered'}
      <3>1. DOMAIN pending = {call[q].id : q \in Registered}
        BY <1>4 DEF CallInv
      <3> QED
        BY <2>1, <2>3, <2>5, <3>1
    <2>10. \A q, r \in Registered' : call'[q].id = call'[r].id => q = r
      <3>1. \A q \in Registered : call[q].id \in DOMAIN pending /\ call[q].id # id
        BY <1>4, <2>4 DEF CallInv
      <3> QED
        BY <1>4, <2>1, <2>3, <3>1 DEF CallInv
    <2> QED
      BY <2>3, <2>7, <2>8, <2>9, <2>10 DEF CallInv, CallOf
  <1> QED
    BY <1>3, <1>4 DEF Register

LEMMA CallsSend ==
  ASSUME LinkInv, CallInv, NEW p \in Senders, Send(p)
  PROVE  CallInv'
  <1>1. call[p].pc = "send" /\ p \in Calling /\ link
    BY DEF Send, Does, Calling
  <1>2. UNCHANGED <<link, toClient, stored, delivered, pending>> /\ toBroker \in Seq(Packets)
    BY DEF Send, linkVars, tableVars, brokerVars, LinkInv
  <1> DEFINE packet == Publish(call[p].qos, call[p].id, call[p].n)
  <1>3. packet.type = "publish" /\ packet.qos = call[p].qos /\ packet.id = call[p].id /\ packet.n = call[p].n
    BY DEF Publish
  <1>4. call[p].qos \in 0 .. 2 /\ (call[p].qos > 0 <=> p \in Registered)
    BY <1>1, CallFields DEF Registered
  <1>5. /\ Asks(packet) <=> p \in Registered
        /\ \A i \in DOMAIN toBroker' :
             toBroker'[i] = packet \/ (i \in DOMAIN toBroker /\ toBroker'[i] = toBroker[i])
    <2>1. toBroker' = toBroker \/ toBroker' = Append(toBroker, packet)
      BY DEF Send, Sends
    <2> QED
      BY <1>2, <1>3, <1>4, <2>1 DEF Asks
  <1> HIDE DEF packet
  <1>6. /\ Registered' = Registered
        /\ \A q \in Registered : /\ call'[q].id = call[q].id /\ call'[q].n = call[q].n
                                 /\ call'[q].pc = "send" => call[q].pc = "send" /\ q # p
    <2>1. CASE call[p].qos = 0
      <3>1. call'[p].pc = "idle" /\ \A q \in Senders : q # p => call'[q] = call[q]
        BY <2>1, Returning DEF Send
      <3> QED
        BY <1>4, <2>1, <3>1 DEF Registered
    <2>2. CASE call[p].qos # 0
      <3>1. /\ call'[p].pc = "wait" /\ call'[p].qos = call[p].qos /\ call'[p].id = call[p].id
            /\ call'[p].n = call[p].n
            /\ \A q \in Senders : q # p => call'[q] = call[q]
        BY <1>1, <2>2, Moving DEF Send, Steps
      <3> QED
        BY <1>1, <3>1 DEF Registered
    <2> QED
      BY <2>1, <2>2
  <1>7. {call'[q].id : q \in Registered'} = {call[q].id : q \in Registered}
    BY <1>6
  <1>8. \A x \in Owed' : x \in Owed \/ (p \in Registered /\ x = call[p].id)
    BY <1>2, <1>3, <1>5 DEF Owed
  <1>9. ASSUME NEW q \in Registered'
        PROVE  CallOf(q)'
    <2>1. /\ q \in Registered /\ CallOf(q)
          /\ call'[q].id = call[q].id /\ call'[q].n = call[q].n
          /\ call'[q].pc = "send" => call[q].pc = "send" /\ q # p
      BY <1>6, CallsSplit
    <2>2. p \in Registered /\ q # p => call[p].id # call[q].id
      BY <1>1, <2>1 DEF CallInv
    <2>3. call'[q].pc = "send" => call'[q].id \notin Owed'
      BY <1>8, <2>1, <2>2 DEF CallOf
    <2>4. ASSUME NEW i \in DOMAIN toBroker', toBroker'[i].type = "publish", Asks(toBroker'[i]),
                 toBroker'[i].id = call[q].id
          PROVE  toBroker'[i].n = call[q].n
      <3>1. CASE toBroker'[i] = packet
        BY <1>3, <1>5, <2>2, <2>4, <3>1
      <3>2. CASE i \in DOMAIN toBroker /\ toBroker'[i] = toBroker[i]
        BY <2>1, <2>4, <3>2 DEF CallOf
      <3> QED
        BY <1>5, <3>1, <3>2
    <2> QED
      BY <1>2, <2>1, <2>3, <2>4 DEF CallOf
  <1>10. link' => DOMAIN pending' = {call'[q].id : q \in Registered'}
    BY <1>2, <1>7 DEF CallInv
  <1>11. link' => \A q, r \in Registered' : call'[q].id = call'[r].id => q = r
    BY <1>2, <1>6 DEF CallInv
  <1> QED
    BY <1>9, <1>10, <1>11 DEF CallInv, CallOf

(* What the packets that are read or sent leave of CallInv to be shown.    *)
LEMMA CallsByPacket ==
  ASSUME CallInv, NEW d \in Nat, NEW e \in Nat, NEW new, NEW fresh,
         Follows(toBroker, toBroker', d, new), Follows(toClient, toClient', e, fresh),
         \A x \in new : x.type # "publish",
         \A x \in fresh : x.type \in {"puback", "pubcomp"} =>
           \A p \in Registered : x.id = call[p].id => delivered'[call[p].n] = 1,
         \A p \in Registered : delivered[call[p].n] = 1 => delivered'[call[p].n] = 1,
         \A id \in DOMAIN stored' :
           \/ id \in DOMAIN stored /\ stored'[id] = stored[id]
           \/ \A p \in Registered : id = call[p].id => stored'[id] = call[p].n,
         DOMAIN pending' = DOMAIN pending,
         \A p \in Registered : call[p].id \in DOMAIN pending =>
           \A c \in DOMAIN pending'[call[p].id] :
             \/ c \in DOMAIN pending[call[p].id] /\ pending'[call[p].id][c] = pending[call[p].id][c]
             \/ pending'[call[p].id][c] # 1 => delivered'[call[p].n] = 1,
         Owed' \subseteq Owed, UNCHANGED <<link, call>>
  PROVE  CallInv'
  <1>1. Registered' = Registered
    BY DEF Registered
  <1>2. ASSUME NEW p \in Registered
        PROVE  CallOf(p)'
    <2>1. CallOf(p)
      BY CallsSplit
    <2>2. \A i \in DOMAIN toBroker' :
            toBroker'[i].type = "publish" => i + d \in DOMAIN toBroker /\ toBroker'[i] = toBroker[i + d]
      BY DEF Follows
    <2>3. \A i \in DOMAIN toClient' :
            (i + e \in DOMAIN toClient /\ toClient'[i] = toClient[i + e]) \/ toClient'[i] \in fresh
      BY DEF Follows
    <2>4. \A i \in DOMAIN toBroker' :
            toBroker'[i].type = "publish" /\ Asks(toBroker'[i]) /\ toBroker'[i].id = call[p].id
              => toBroker'[i].n = call[p].n
      BY <2>1, <2>2 DEF CallOf
    <2>5. \A i \in DOMAIN toClient' :
            toClient'[i].type \in {"puback", "pubcomp"} /\ toClient'[i].id = call[p].id
              => delivered'[call[p].n] = 1
      BY <2>1, <2>3 DEF CallOf
    <2>6. call[p].id \in DOMAIN stored' => stored'[call[p].id] = call[p].n
      BY <2>1 DEF CallOf
    <2>7. call[p].id \in DOMAIN pending' => \A c \in DOMAIN pending'[call[p].id] :
            pending'[call[p].id][c] # 1 => delivered'[call[p].n] = 1
      BY <2>1 DEF CallOf
    <2>8. call[p].pc = "send" => call[p].id \notin Owed'
      BY <2>1 DEF CallOf
    <2> QED
      BY <2>4, <2>5, <2>6, <2>7, <2>8 DEF CallOf
  <1>3. {call'[q].id : q \in Registered'} = {call[q].id : q \in Registered}
    BY <1>1
  <1>4. link' => DOMAIN pending' = {call'[q].id : q \in Registered'}
    BY <1>3 DEF CallInv
  <1>5. link' => \A q, r \in Registered' : call'[q].id = call'[r].id => q = r
    BY <1>1 DEF CallInv
  <1> QED
    BY <1>1, <1>2, <1>4, <1>5 DEF CallInv, CallOf

(* No identifier is owed that was not: the other half of a handshake       *)
(* answers.                                                                *)
LEMMA OwedByPacket ==
  ASSUME NEW d \in Nat, NEW e \in Nat, NEW new, NEW fresh,
         Follows(toBroker, toBroker', d, new), Follows(toClient, toClient', e, fresh),
         \A x \in new : Asks(x) => x.id \in Owed,
         \A x \in fresh : Answers(x) => x.id \in Owed,
         DOMAIN stored' \subseteq Owed
  PROVE  Owed' \subseteq Owed
  <1>1. \A i \in DOMAIN toBroker' : Asks(toBroker'[i]) => toBroker'[i].id \in Owed
    <2> TAKE i \in DOMAIN toBroker'
    <2>1. CASE i + d \in DOMAIN toBroker /\ toBroker'[i] = toBroker[i + d]
      BY <2>1 DEF Owed
    <2> QED
      BY <2>1 DEF Follows
  <1>2. \A i \in DOMAIN toClient' : Answers(toClient'[i]) => toClient'[i].id \in Owed
    <2> TAKE i \in DOMAIN toClient'
    <2>1. CASE i + e \in DOMAIN toClient /\ toClient'[i] = toClient[i + e]
      BY <2>1 DEF Owed
    <2> QED
      BY <2>1 DEF Follows
  <1>3. Owed' = DOMAIN stored'
                  \cup {toBroker'[i].id : i \in {j \in DOMAIN toBroker' : Asks(toBroker'[j])}}
                  \cup {toClient'[i].id : i \in {j \in DOMAIN toClient' : Answers(toClient'[j])}}
    BY DEF Owed
  <1> QED
    BY <1>1, <1>2, <1>3

LEMMA CallsRead ==
  ASSUME LinkInv, CallInv, ReadAck \/ ReadPubrec \/ ReadPublish \/ ReadPubrel
  PROVE  CallInv'
  <1>1. /\ stored' = stored /\ delivered' = delivered /\ link' = link /\ call' = call
        /\ toBroker \in Seq(Packets) /\ toClient \in Seq(Packets)
        /\ toClient # <<>> /\ toClient' = Tail(toClient) /\ alive
    BY DEF ReadAck, ReadPubrec, ReadPublish, ReadPubrel, Reads, messageVars, brokerVars, linkVars, LinkInv
  <1>2. Head(toClient) = toClient[1] /\ 1 \in DOMAIN toClient
    BY <1>1, TailOf
  <1>3. Follows(toClient, toClient', 1, {})
    BY <1>1, FollowsTail
  <1>4. PICK new : /\ Follows(toBroker, toBroker', 0, new)
                   /\ \A x \in new : x.type # "publish" /\ (Asks(x) => x.id \in Owed)
    <2>1. CASE toBroker' = toBroker
      BY <1>1, <2>1, FollowsSame
    <2>2. ASSUME NEW x, toBroker' = Append(toBroker, x), x.type # "publish", Asks(x) => x.id \in Owed
          PROVE  \E new : /\ Follows(toBroker, toBroker', 0, new)
                          /\ \A z \in new : z.type # "publish" /\ (Asks(z) => z.id \in Owed)
      <3>1. Follows(toBroker, toBroker', 0, {x})
        BY <1>1, <2>2, FollowsAppend
      <3> QED
        BY <2>2, <3>1
    <2>3. ReadPubrec => toClient[1].id \in Owed
      BY <1>1, <1>2 DEF ReadPubrec, Reads, Answers, Owed
    <2>4. toBroker' = toBroker
          \/ \E x : toBroker' = Append(toBroker, x) /\ x.type # "publish" /\ (Asks(x) => x.id \in Owed)
      BY <1>1, <1>2, <2>3 DEF ReadAck, ReadPubrec, ReadPublish, ReadPubrel, Sends, Packet, Asks
    <2> QED
      BY <2>1, <2>2, <2>4
  <1>5. Owed' \subseteq Owed
    <2>1. DOMAIN stored' \subseteq Owed
      BY <1>1 DEF Owed
    <2> QED
      BY <1>3, <1>4, <2>1, OwedByPacket
  <1>6. /\ DOMAIN pending' = DOMAIN pending
        /\ \A p \in Registered : call[p].id \in DOMAIN pending =>
             \A c \in DOMAIN pending'[call[p].id] :
               \/ c \in DOMAIN pending[call[p].id] /\ pending'[call[p].id][c] = pending[call[p].id][c]
               \/ (pending'[call[p].id][c] # 1 => delivered'[call[p].n] = 1)
    <2>1. CASE ReadAck
      <3>1. PICK code \in {0, 2} : Deliver(toClient[1].id, code)
        BY <1>2, <2>1 DEF ReadAck
      <3>2. toClient[1].type \in {"puback", "pubcomp"}
        BY <1>2, <2>1 DEF ReadAck, Reads
      <3>3. \A p \in Registered : toClient[1].id = call[p].id => delivered'[call[p].n] = 1
        BY <1>1, <1>2, <3>2, CallsSplit DEF CallOf
      <3> QED
        BY <3>1, <3>3, Delivering
    <2>2. CASE ReadPubrec
      <3>1. Deliver(toClient[1].id, 1)
        BY <1>2, <2>2 DEF ReadPubrec
      <3> QED
        BY <3>1, Delivering
    <2>3. CASE ReadPublish \/ ReadPubrel
      <3>1. pending' = pending
        BY <2>3 DEF ReadPublish, ReadPubrel, tableVars
      <3> QED
        BY <3>1
    <2> QED
      BY <2>1, <2>2, <2>3
  <1>7. \A id \in DOMAIN stored' : id \in DOMAIN stored /\ stored'[id] = stored[id]
    BY <1>1
  <1> QED
    BY <1>1, <1>3, <1>4, <1>5, <1>6, <1>7, CallsByPacket

LEMMA CallsBrokerSends ==
  ASSUME LinkInv, CallInv, (\E qos \in 0 .. 2 : BrokerSends(qos)) \/ BrokerRepeats
  PROVE  CallInv'
  <1>1. /\ toBroker' = toBroker /\ stored' = stored /\ delivered' = delivered
        /\ link' = link /\ call' = call /\ pending' = pending
        /\ toBroker \in Seq(Packets) /\ toClient \in Seq(Packets)
    BY DEF BrokerSends, BrokerRepeats, brokerVars, linkVars, tableVars, messageVars, LinkInv
  <1>2. PICK x : toClient' = Append(toClient, x) /\ x.type = "publish"
    BY DEF BrokerSends, BrokerRepeats, Publish
  <1>3. Follows(toBroker, toBroker', 0, {}) /\ Follows(toClient, toClient', 0, {x})
    BY <1>1, <1>2, FollowsSame, FollowsAppend
  <1>4. DOMAIN stored' \subseteq Owed /\ ~Answers(x)
    BY <1>1, <1>2 DEF Owed, Answers
  <1>5. Owed' \subseteq Owed
    BY <1>3, <1>4, OwedByPacket
  <1>6. \A id \in DOMAIN stored' : id \in DOMAIN stored /\ stored'[id] = stored[id]
    BY <1>1
  <1> QED
    BY <1>1, <1>2, <1>3, <1>5, <1>6, CallsByPacket

LEMMA CallsBroker ==
  ASSUME LinkInv, NumberInv, TokenInv, CallInv, BrokerReads
  PROVE  CallInv'
  <1>1. /\ toBroker # <<>> /\ toBroker \in Seq(Packets) /\ toBroker' = Tail(toBroker)
        /\ First = toBroker[1] /\ 1 \in DOMAIN toBroker /\ toClient \in Seq(Packets)
        /\ link' = link /\ call' = call /\ pending' = pending
    BY BrokerCases DEF linkVars, messageVars
  <1>2. Follows(toBroker, toBroker', 1, {})
    BY <1>1, FollowsTail
  <1>3. Asks(First) => First.id \in Owed
    BY <1>1 DEF Owed
  <1>4. \A p \in Registered : /\ CallOf(p) /\ call[p].n \in Messages
                              /\ First.type = "publish" /\ Asks(First) /\ First.id = call[p].id => First.n = call[p].n
    <2> TAKE p \in Registered
    <2>1. p \in Senders /\ call[p].pc # "idle" /\ CallOf(p)
      BY CallsSplit DEF Registered
    <2>2. call[p].n \in Messages
      BY <2>1, CallFields, MqttPublishAssumption DEF Messages, LinkInv
    <2> QED
      BY <1>1, <2>1, <2>2 DEF CallOf
  <1>5. ASSUME NEW m \in 1 .. calls, Passes(m), delivered[m] = 0
        PROVE  delivered'[m] = 1 /\ \A p \in Registered : delivered[call[p].n] = 1 => delivered'[call[p].n] = 1
    <2>1. delivered \in [Messages -> Nat] /\ m \in Messages
      BY MqttPublishAssumption DEF LinkInv, PublishTypeOK, Messages
    <2>2. delivered'[m] = 1 /\ \A n \in Messages : n # m => delivered'[n] = delivered[n]
      BY <1>5, <2>1 DEF Passes
    <2> QED
      BY <1>4, <1>5, <2>2
  <1>6. First.type = "publish" => First.n \in 1 .. calls /\ delivered[First.n] = 0
    BY <1>1 DEF NumberInv
  <1>7. /\ DOMAIN pending' = DOMAIN pending
        /\ \A p \in Registered : call[p].id \in DOMAIN pending =>
             \A c \in DOMAIN pending'[call[p].id] :
               c \in DOMAIN pending[call[p].id] /\ pending'[call[p].id][c] = pending[call[p].id][c]
    BY <1>1
  <1>8. ASSUME NEW fresh, Follows(toClient, toClient', 0, fresh),
               \A x \in fresh : Answers(x) => Asks(First) /\ x.id = First.id,
               \A x \in fresh : x.type \in {"puback", "pubcomp"} =>
                 \A p \in Registered : x.id = call[p].id => delivered'[call[p].n] = 1,
               \A p \in Registered : delivered[call[p].n] = 1 => delivered'[call[p].n] = 1,
               \A id \in DOMAIN stored' :
                 \/ id \in DOMAIN stored /\ stored'[id] = stored[id]
                 \/ /\ id = First.id /\ Asks(First)
                    /\ \A p \in Registered : id = call[p].id => stored'[id] = call[p].n
        PROVE  CallInv'
    <2>1. DOMAIN stored' \subseteq Owed
      BY <1>3, <1>8 DEF Owed
    <2>2. Owed' \subseteq Owed
      BY <1>2, <1>3, <1>8, <2>1, OwedByPacket
    <2> QED
      BY <1>1, <1>2, <1>7, <1>8, <2>2, CallsByPacket
  <1>9. \A type \in {"puback", "pubrec", "pubrel", "pubcomp"} : Replies(type) =>
          /\ Follows(toClient, toClient', 0, {Packet(type, First.id, First.n)})
          /\ Packet(type, First.id, First.n).type = type
          /\ Packet(type, First.id, First.n).id = First.id
    BY <1>1, FollowsAppend DEF Replies, Packet
  <1>10. CASE Takes0
    <2>1. Follows(toClient, toClient', 0, {}) /\ stored' = stored
      BY <1>1, <1>10, FollowsSame DEF Takes0
    <2>2. \A p \in Registered : delivered[call[p].n] = 1 => delivered'[call[p].n] = 1
      BY <1>5, <1>6, <1>10 DEF Takes0
    <2> QED
      BY <1>8, <2>1, <2>2
  <1>11. CASE Takes1
    <2> DEFINE x == Packet("puback", First.id, First.n)
    <2>1. Follows(toClient, toClient', 0, {x}) /\ stored' = stored /\ x.type = "puback" /\ x.id = First.id
      BY <1>9, <1>11 DEF Takes1
    <2>2. /\ delivered'[First.n] = 1
          /\ \A p \in Registered : delivered[call[p].n] = 1 => delivered'[call[p].n] = 1
      BY <1>5, <1>6, <1>11 DEF Takes1
    <2>3. Asks(First)
      BY <1>11 DEF Takes1, Asks
    <2> HIDE DEF x
    <2>4. \A z \in {x} : z.type \in {"puback", "pubcomp"} =>
            \A p \in Registered : z.id = call[p].id => delivered'[call[p].n] = 1
      BY <1>4, <1>11, <2>1, <2>2, <2>3 DEF Takes1
    <2>5. \A z \in {x} : Answers(z) => Asks(First) /\ z.id = First.id
      BY <2>1, <2>3
    <2> QED
      BY <1>8, <2>1, <2>2, <2>4, <2>5
  <1>12. CASE Takes2
    <2> DEFINE x == Packet("pubrec", First.id, First.n)
    <2>1. Follows(toClient, toClient', 0, {x}) /\ delivered' = delivered /\ x.type = "pubrec" /\ x.id = First.id
      BY <1>9, <1>12 DEF Takes2
    <2>2. Asks(First) /\ First.type = "publish"
      BY <1>12 DEF Takes2, Asks
    <2>3. /\ DOMAIN stored' = DOMAIN stored \cup {First.id} /\ stored'[First.id] = First.n
          /\ \A id \in DOMAIN stored : id # First.id => stored'[id] = stored[id]
      BY <1>12 DEF Takes2, With
    <2> HIDE DEF x
    <2>4. \A id \in DOMAIN stored' :
            \/ id \in DOMAIN stored /\ stored'[id] = stored[id]
            \/ /\ id = First.id /\ Asks(First)
               /\ \A p \in Registered : id = call[p].id => stored'[id] = call[p].n
      BY <1>4, <2>2, <2>3
    <2>5. \A z \in {x} : Answers(z) => Asks(First) /\ z.id = First.id
      BY <2>1, <2>2
    <2> QED
      BY <1>8, <2>1, <2>4, <2>5
  <1>13. CASE Releases
    <2> DEFINE x == Packet("pubcomp", First.id, First.n)
    <2>1. Follows(toClient, toClient', 0, {x}) /\ x.type = "pubcomp" /\ x.id = First.id
      BY <1>9, <1>13 DEF Releases
    <2>2. Asks(First)
      BY <1>13 DEF Releases, Asks
    <2>3. First.id \in DOMAIN stored /\ Passes(stored[First.id])
      BY <1>1, <1>13 DEF Releases, TokenInv
    <2>4. stored[First.id] \in 1 .. calls /\ delivered[stored[First.id]] = 0
      BY <2>3 DEF LinkInv, NumberInv
    <2>5. /\ delivered'[stored[First.id]] = 1
          /\ \A p \in Registered : delivered[call[p].n] = 1 => delivered'[call[p].n] = 1
      BY <1>5, <2>3, <2>4
    <2>6. \A id \in DOMAIN stored' : id \in DOMAIN stored /\ stored'[id] = stored[id]
      BY <1>13 DEF Releases, Restrict
    <2> HIDE DEF x
    <2>7. \A z \in {x} : z.type \in {"puback", "pubcomp"} =>
            \A p \in Registered : z.id = call[p].id => delivered'[call[p].n] = 1
      BY <1>4, <2>1, <2>3, <2>5 DEF CallOf
    <2>8. \A z \in {x} : Answers(z) => Asks(First) /\ z.id = First.id
      BY <2>1, <2>2
    <2> QED
      BY <1>8, <2>1, <2>5, <2>6, <2>7, <2>8
  <1>14. CASE Finishes \/ HearsAgain
    <2>1. Follows(toClient, toClient', 0, {}) /\ stored' = stored /\ delivered' = delivered
      BY <1>1, <1>14, FollowsSame DEF Finishes, HearsAgain
    <2> QED
      BY <1>8, <2>1
  <1>15. CASE Hears
    <2> DEFINE x == Packet("pubrel", First.id, First.n)
    <2>1. /\ Follows(toClient, toClient', 0, {x}) /\ stored' = stored /\ delivered' = delivered
          /\ x.type = "pubrel"
      BY <1>9, <1>15 DEF Hears
    <2> HIDE DEF x
    <2>2. \A z \in {x} : ~Answers(z) /\ z.type \notin {"puback", "pubcomp"}
      BY <2>1 DEF Answers
    <2> QED
      BY <1>8, <2>1, <2>2
  <1> QED
    BY <1>10, <1>11, <1>12, <1>13, <1>14, <1>15, BrokerCases

LEMMA CallsReturns ==
  ASSUME LinkInv, CallInv, NEW p \in Senders, SendFails(p) \/ Completed(p) \/ Woken(p) \/ TimesOut(p)
  PROVE  CallInv'
  <1>1. p \in Calling /\ Unregister(p) /\ \E result : Return(p, result)
    BY DEF SendFails, Completed, Woken, TimesOut, Does, Calling
  <1>2. UNCHANGED <<link, toBroker, toClient, stored, delivered>>
    BY DEF SendFails, Completed, Woken, TimesOut, linkVars, brokerVars
  <1> QED
    BY <1>1, <1>2, CallsReturn

LEMMA CallsAwaited ==
  ASSUME LinkInv, CallInv, NEW p \in Senders, Awaited(p)
  PROVE  CallInv'
  <1>1. p \in Calling /\ p \notin Registered /\ call[p].pc = "awaiting"
    BY DEF Awaited, Does, Calling, Registered
  <1>2. UNCHANGED <<link, toBroker, toClient, stored, delivered, pending>>
    BY DEF Awaited, linkVars, tableVars, brokerVars
  <1>3. CASE Return(p, "error")
    BY <1>1, <1>2, <1>3, CallsReturn
  <1>4. CASE Moves(p, IF call[p].qos = 0 THEN "send" ELSE "register")
    <2>1. call[p].qos \in 0 .. 2
      BY <1>1, CallFields
    <2>2. \A id \in DOMAIN pending : \A c \in DOMAIN pending'[id] :
            \E o \in DOMAIN pending[id] : pending'[id][c] = pending[id][o]
      BY <1>2
    <2>3. CASE call[p].qos = 0
      <3>1. Moves(p, "send")
        BY <1>4, <2>3
      <3> QED
        BY <1>1, <1>2, <2>2, <2>3, <3>1, CallsMove DEF Steps
    <2>4. CASE call[p].qos # 0
      <3>1. Moves(p, "register")
        BY <1>4, <2>4
      <3> QED
        BY <1>1, <1>2, <2>2, <3>1, CallsMove DEF Steps
    <2> QED
      BY <2>3, <2>4
  <1> QED
    BY <1>3, <1>4 DEF Awaited

LEMMA CallsAnswered ==
  ASSUME LinkInv, CallInv, NEW p \in Senders, Answered(p)
  PROVE  CallInv'
  <1>1. p \in Calling /\ call[p].pc = "wait"
    BY DEF Answered, Does, Calling
  <1>2. UNCHANGED <<link, toBroker, toClient, stored, delivered>>
    BY DEF Answered, linkVars, brokerVars
  <1>3. CASE call[p].qos = 1
    <2>1. Unregister(p) /\ \E result : Return(p, result)
      BY <1>3 DEF Answered
    <2> QED
      BY <1>1, <1>2, <2>1, CallsReturn
  <1>4. CASE call[p].qos # 1
    <2>1. Moves(p, "complete") /\ pending' = [pending EXCEPT ![call[p].id] = Tail(@)]
      BY <1>4 DEF Answered
    <2>2. call[p].id \in DOMAIN pending /\ pending[call[p].id] # <<>>
      BY DEF Answered, HasCode
    <2>3. pending[call[p].id] \in Seq(0 .. 2)
      BY <2>2 DEF LinkInv, PublishTypeOK
    <2>4. \A c \in DOMAIN Tail(pending[call[p].id]) :
            c + 1 \in DOMAIN pending[call[p].id] /\ Tail(pending[call[p].id])[c] = pending[call[p].id][c + 1]
      BY <2>2, <2>3, TailOf
    <2>5. /\ DOMAIN pending' = DOMAIN pending /\ pending'[call[p].id] = Tail(pending[call[p].id])
          /\ \A id \in DOMAIN pending : id # call[p].id => pending'[id] = pending[id]
      BY <2>1, <2>2
    <2>6. \A id \in DOMAIN pending : \A c \in DOMAIN pending'[id] :
            \E o \in DOMAIN pending[id] : pending'[id][c] = pending[id][o]
      BY <2>4, <2>5
    <2>7. call[p].qos > 0 /\ p \in Registered
      BY <1>1 DEF LinkInv, Registered, Calling
    <2> QED
      BY <1>1, <1>2, <2>1, <2>5, <2>6, <2>7, CallsMove DEF Steps
  <1> QED
    BY <1>3, <1>4

-----------------------------------------------------------------------------
(* The steps of a caller that leave the connection alone.                  *)
Waits(p) == Awaited(p) \/ Register(p) \/ SendFails(p) \/ Answered(p) \/ Completed(p) \/ Woken(p) \/ TimesOut(p)

LEMMA WaitsUnchanged ==
  ASSUME NEW p \in Senders, Waits(p)
  PROVE  /\ p \in Calling
         /\ UNCHANGED <<linkVars, inbound, calls, received, toBroker, toClient, brokerVars>>
         /\ UNCHANGED <<stored, delivered, sending, sent>>
  <1>1. CASE Awaited(p)
    BY <1>1 DEF Awaited, Does, Calling, brokerVars
  <1>2. CASE Register(p)
    BY <1>2 DEF Register, Does, Calling, brokerVars
  <1>3. CASE SendFails(p) \/ Answered(p) \/ Completed(p)
    BY <1>3 DEF SendFails, Answered, Completed, Does, Calling, brokerVars
  <1>4. CASE Woken(p) \/ TimesOut(p)
    BY <1>4 DEF Woken, TimesOut, Calling, brokerVars
  <1> QED
    BY <1>1, <1>2, <1>3, <1>4 DEF Waits

LEMMA LinkWaits ==
  ASSUME LinkInv, NEW p \in Senders, Waits(p)
  PROVE  LinkInv'
  BY LinkAwaited, LinkRegister, LinkAnswered, LinkReturns DEF Waits

LEMMA CallsWait ==
  ASSUME LinkInv, NumberInv, CallInv, NEW p \in Senders, Waits(p)
  PROVE  CallInv'
  BY CallsAwaited, CallsRegister, CallsAnswered, CallsReturns DEF Waits

LEMMA TokensWait ==
  ASSUME TokenInv, NEW p \in Senders, Waits(p)
  PROVE  TokenInv'
  BY WaitsUnchanged, TokensStay

LEMMA NumbersWait ==
  ASSUME LinkInv, NumberInv, NEW p \in Senders, Waits(p)
  PROVE  NumberInv'
  <1>1. p \in Calling /\ UNCHANGED <<toBroker, stored, delivered, calls>>
    BY WaitsUnchanged
  <1>2. ASSUME NEW result, Return(p, result)
        PROVE  NumberInv'
    BY <1>1, <1>2, NumbersReturn
  <1>3. ASSUME NEW step \in {"send", "register", "complete"}, Moves(p, step), step = "complete" \/ p \in Unsent
        PROVE  NumberInv'
    BY <1>1, <1>3, NumbersMove DEF Steps
  <1>4. CASE Awaited(p)
    <2>1. p \in Unsent
      BY <1>4 DEF Awaited, Does, Unsent
    <2>2. Return(p, "error") \/ Moves(p, "send") \/ Moves(p, "register")
      BY <1>4 DEF Awaited
    <2> QED
      BY <1>2, <1>3, <2>1, <2>2
  <1>5. CASE Register(p)
    <2>1. call[p].pc = "register"
      BY <1>5 DEF Register, Does
    <2>2. ASSUME NEW id, call' = [call EXCEPT ![p] = [pc |-> "send", qos |-> @.qos, id |-> id, n |-> @.n]]
          PROVE  NumberInv'
      <3>1. call'[p].pc = "send" /\ call'[p].n = call[p].n /\ \A q \in Senders : q # p => call'[q] = call[q]
        BY <2>2 DEF LinkInv
      <3>2. \A q \in Calling' : q \in Calling /\ call'[q].n = call[q].n
        BY <1>1, <3>1 DEF Calling
      <3>3. \A q \in Unsent' : q \in Unsent
        BY <2>1, <3>1 DEF Unsent
      <3> QED
        BY <1>1, <3>2, <3>3, NumbersByCall
    <2> QED
      BY <1>2, <1>5, <2>2 DEF Register
  <1>6. CASE Answered(p)
    BY <1>2, <1>3, <1>6 DEF Answered
  <1>7. CASE SendFails(p) \/ Completed(p) \/ Woken(p) \/ TimesOut(p)
    BY <1>2, <1>7 DEF SendFails, Completed, Woken, TimesOut
  <1> QED
    BY <1>4, <1>5, <1>6, <1>7 DEF Waits

(* A call with QoS 1 or 2 returns without an error only when the message   *)
(* has been passed on.                                                     *)
LEMMA HonestWaits ==
  ASSUME LinkInv, CallInv, honest, NEW p \in Senders, Waits(p)
  PROVE  honest'
  <1>1. ASSUME NEW result, Return(p, result), result = "ok" => delivered[call[p].n] = 1
        PROVE  honest'
    BY <1>1 DEF Return
  <1>2. ASSUME HasCode(p), p \in Registered, Head(pending[call[p].id]) # 1
        PROVE  delivered[call[p].n] = 1
    <2>1. call[p].id \in DOMAIN pending /\ pending[call[p].id] # <<>>
      BY <1>2 DEF HasCode
    <2>2. pending[call[p].id] \in Seq(0 .. 2)
      BY <2>1 DEF LinkInv, PublishTypeOK
    <2>3. 1 \in DOMAIN pending[call[p].id] /\ Head(pending[call[p].id]) = pending[call[p].id][1]
      BY <2>1, <2>2, TailOf
    <2> QED
      BY <1>2, <2>1, <2>3, CallsSplit DEF CallOf
  <1>3. call[p].pc \in {"wait", "complete"} => p \in Registered
    BY DEF LinkInv, Registered, Calling
  <1>4. CASE Awaited(p)
    BY <1>1, <1>4 DEF Awaited
  <1>5. CASE Register(p)
    BY <1>1, <1>5 DEF Register
  <1>6. CASE Answered(p)
    <2>1. CASE call[p].qos = 1
      <3>1. HasCode(p) /\ p \in Registered /\ Return(p, IF Head(pending[call[p].id]) = 0 THEN "ok" ELSE "error")
        BY <1>3, <1>6, <2>1 DEF Answered, Does
      <3> QED
        BY <1>1, <1>2, <3>1
    <2>2. CASE call[p].qos # 1
      BY <1>6, <2>2 DEF Answered
    <2> QED
      BY <2>1, <2>2
  <1>7. CASE Completed(p)
    <2>1. HasCode(p) /\ p \in Registered /\ Return(p, IF Head(pending[call[p].id]) = 2 THEN "ok" ELSE "error")
      BY <1>3, <1>7 DEF Completed, Does
    <2> QED
      BY <1>1, <1>2, <2>1
  <1>8. CASE SendFails(p) \/ Woken(p) \/ TimesOut(p)
    BY <1>1, <1>8 DEF SendFails, Woken, TimesOut
  <1> QED
    BY <1>4, <1>5, <1>6, <1>7, <1>8 DEF Waits

LEMMA HonestSend ==
  ASSUME honest, NEW p \in Senders, Send(p)
  PROVE  honest'
  <1>1. CASE call[p].qos = 0
    <2>1. Return(p, "ok")
      BY <1>1 DEF Send
    <2>2. ~(call[p].qos > 0)
      BY <1>1
    <2> QED
      BY <2>1, <2>2, Zenon DEF Return
  <1>2. CASE call[p].qos # 0
    BY <1>2 DEF Send
  <1> QED
    BY <1>1, <1>2

-----------------------------------------------------------------------------
(* Nothing but what the phases leave open has come or gone.                *)
LEMMA PhasesKeep ==
  ASSUME LinkInv, Phases, NEW d \in Nat, NEW e \in Nat,
         \A i \in DOMAIN toClient' : /\ i \in Nat
                                     /\ Asks(toClient'[i]) => i + e \in DOMAIN toClient /\ toClient'[i] = toClient[i + e],
         \A i \in DOMAIN toClient : /\ i \in Nat
                                    /\ Asks(toClient[i]) => i - e \in DOMAIN toClient' /\ toClient'[i - e] = toClient[i],
         \A i \in DOMAIN toBroker' : /\ i \in Nat
                                     /\ Answers(toBroker'[i]) => i + d \in DOMAIN toBroker /\ toBroker'[i] = toBroker[i + d],
         \A i \in DOMAIN toBroker : /\ i \in Nat
                                    /\ Answers(toBroker[i]) /\ toBroker[i].type # "pubrec"
                                         => i - d \in DOMAIN toBroker' /\ toBroker'[i - d] = toBroker[i],
         sending' = sending, inbound' = inbound,
         sending # Silent /\ sending.qos = 2 => received'[sending.n] = received[sending.n]
  PROVE  Phases'
  <1>1. CASE Resting
    BY <1>1 DEF Resting, Phases
  <1>2. CASE SentOnce
    <2>1. ASSUME NEW i \in DOMAIN toClient', NEW j \in DOMAIN toClient', Asks(toClient'[i]), Asks(toClient'[j])
          PROVE  i = j
      <3>1. i + e = j + e
        BY <1>2, <2>1 DEF SentOnce
      <3>2. i \in Nat /\ j \in Nat
        OBVIOUS
      <3> QED
        BY <3>1, <3>2
    <2>2. ASSUME NEW i \in DOMAIN toBroker', NEW j \in DOMAIN toBroker', Answers(toBroker'[i]), Answers(toBroker'[j])
          PROVE  i = j
      <3>1. i + d = j + d
        BY <1>2, <2>2 DEF SentOnce
      <3>2. i \in Nat /\ j \in Nat
        OBVIOUS
      <3> QED
        BY <3>1, <3>2
    <2>3. SentOnce'
      BY <1>2, <2>1, <2>2 DEF SentOnce
    <2> QED
      BY <2>3 DEF Phases
  <1>3. CASE SentTwice
    <2>1. sending # Silent
      BY <1>3 DEF SentTwice, Silent
    <2>2. SentTwice'
      BY <1>3, <2>1 DEF SentTwice, Copy
    <2> QED
      BY <2>2 DEF Phases
  <1>4. CASE Releasing
    <2>1. sending # Silent
      BY <1>4 DEF Releasing, Silent
    <2>2. PICK k \in DOMAIN toClient :
            /\ toClient[k].type = "pubrel" /\ toClient[k].id = 1
            /\ \A i \in DOMAIN toClient : Asks(toClient[i]) => i = k \/ (i < k /\ Copy(toClient[i]))
      BY <1>4 DEF Releasing
    <2>3. Asks(toClient[k])
      BY <2>2 DEF Asks
    <2>4. k - e \in DOMAIN toClient' /\ toClient'[k - e] = toClient[k] /\ k \in Nat
      BY <2>3
    <2>5. \A i \in DOMAIN toClient' : Asks(toClient'[i]) =>
            i = k - e \/ (i < k - e /\ toClient'[i].type = "publish" /\ toClient'[i].qos = 2
                          /\ toClient'[i].id = 1 /\ toClient'[i].n = sending'.n)
      <3> SUFFICES ASSUME NEW i \in DOMAIN toClient', Asks(toClient'[i])
                   PROVE  i = k - e \/ (i < k - e /\ toClient'[i].type = "publish" /\ toClient'[i].qos = 2
                                        /\ toClient'[i].id = 1 /\ toClient'[i].n = sending'.n)
        OBVIOUS
      <3>1. i \in Nat /\ i + e \in DOMAIN toClient /\ toClient'[i] = toClient[i + e]
        OBVIOUS
      <3>2. i + e = k \/ (i + e < k /\ Copy(toClient[i + e]))
        BY <2>2, <3>1
      <3>3. i + e = k => i = k - e
        BY <2>4, <3>1
      <3>4. i + e < k => i < k - e
        BY <2>4, <3>1
      <3> QED
        BY <3>1, <3>2, <3>3, <3>4 DEF Copy
    <2>6. \A i \in DOMAIN toBroker' : Answers(toBroker'[i]) => toBroker'[i].type = "pubrec"
      BY <1>4 DEF Releasing
    <2>7. sending'.pc = "released" /\ sending'.qos = 2 /\ received'[sending'.n] = 1 /\ inbound' = {1}
      BY <1>4, <2>1 DEF Releasing
    <2>8. Releasing'
      BY <2>2, <2>4, <2>5, <2>6, <2>7 DEF Releasing, Copy
    <2> QED
      BY <2>8 DEF Phases
  <1>5. CASE Released
    <2>1. sending # Silent
      BY <1>5 DEF Released, Silent
    <2>2. PICK k \in DOMAIN toBroker :
            /\ toBroker[k].type = "pubcomp"
            /\ \A i \in DOMAIN toBroker : Answers(toBroker[i]) => i = k \/ (i < k /\ toBroker[i].type = "pubrec")
      BY <1>5 DEF Released
    <2>3. Answers(toBroker[k])
      BY <2>2 DEF Answers
    <2>4. k - d \in DOMAIN toBroker' /\ toBroker'[k - d] = toBroker[k] /\ k \in Nat
      BY <2>2, <2>3
    <2>5. \A i \in DOMAIN toBroker' : Answers(toBroker'[i]) =>
            i = k - d \/ (i < k - d /\ toBroker'[i].type = "pubrec")
      <3> SUFFICES ASSUME NEW i \in DOMAIN toBroker', Answers(toBroker'[i])
                   PROVE  i = k - d \/ (i < k - d /\ toBroker'[i].type = "pubrec")
        OBVIOUS
      <3>1. i \in Nat /\ i + d \in DOMAIN toBroker /\ toBroker'[i] = toBroker[i + d]
        OBVIOUS
      <3>2. i + d = k \/ (i + d < k /\ toBroker[i + d].type = "pubrec")
        BY <2>2, <3>1
      <3>3. i + d = k => i = k - d
        BY <2>4, <3>1
      <3>4. i + d < k => i < k - d
        BY <2>4, <3>1
      <3> QED
        BY <3>1, <3>2, <3>3, <3>4
    <2>6. \A i \in DOMAIN toClient' : ~Asks(toClient'[i])
      BY <1>5 DEF Released
    <2>7. sending'.pc = "released" /\ sending'.qos = 2 /\ received'[sending'.n] = 1 /\ inbound' = {}
      BY <1>5, <2>1 DEF Released
    <2>8. Released'
      BY <2>2, <2>4, <2>5, <2>6, <2>7 DEF Released
    <2> QED
      BY <2>8 DEF Phases
  <1> QED
    BY <1>1, <1>2, <1>3, <1>4, <1>5 DEF Phases

(* Uncounted: what the packets that are read or sent leave to be shown.    *)
LEMMA UncountedByPacket ==
  ASSUME LinkInv, Uncounted, NEW e \in Nat, NEW fresh, Follows(toClient, toClient', e, fresh),
         sent' \in sent .. MaxIn,
         \A x \in fresh : Plain(x) =>
           /\ x.n \in 1 .. sent' /\ received'[x.n] = 0
           /\ sending' # Silent /\ sending'.qos = 2 => x.n # sending'.n
           /\ \A i \in DOMAIN toClient : Plain(toClient[i]) => toClient[i].n # x.n,
         \A i \in DOMAIN toClient' : Plain(toClient'[i]) => received'[toClient'[i].n] = 0,
         \A i \in DOMAIN toClient : Plain(toClient[i]) /\ sending' # Silent /\ sending'.qos = 2 =>
           toClient[i].n # sending'.n,
         \A m \in Incoming : m > sent' => received'[m] = 0
  PROVE  Uncounted'
  <1>1. \A i \in DOMAIN toClient' :
          /\ i \in Nat
          /\ \/ i + e \in DOMAIN toClient /\ toClient'[i] = toClient[i + e]
             \/ i = Len(toClient') /\ toClient'[i] \in fresh
    BY DEF Follows
  <1>2. sent \in Nat /\ sent' \in Nat /\ sent <= sent'
    BY MqttPublishAssumption DEF LinkInv
  <1>3. \A i \in DOMAIN toClient' : Plain(toClient'[i]) =>
          /\ toClient'[i].n \in 1 .. sent' /\ received'[toClient'[i].n] = 0
          /\ sending' # Silent /\ sending'.qos = 2 => toClient'[i].n # sending'.n
    <2> TAKE i \in DOMAIN toClient'
    <2>1. CASE i + e \in DOMAIN toClient /\ toClient'[i] = toClient[i + e]
      BY <1>2, <2>1 DEF Uncounted
    <2>2. CASE toClient'[i] \in fresh
      BY <2>2
    <2> QED
      BY <1>1, <2>1, <2>2
  <1>4. ASSUME NEW i \in DOMAIN toClient', NEW j \in DOMAIN toClient',
               Plain(toClient'[i]), Plain(toClient'[j]), toClient'[i].n = toClient'[j].n
        PROVE  i = j
    <2>1. CASE (i + e \in DOMAIN toClient /\ toClient'[i] = toClient[i + e])
               /\ (j + e \in DOMAIN toClient /\ toClient'[j] = toClient[j + e])
      <3>1. i + e = j + e
        BY <1>4, <2>1 DEF Uncounted
      <3> QED
        BY <1>1, <3>1
    <2>2. CASE i = Len(toClient') /\ j = Len(toClient')
      BY <2>2
    <2> QED
      BY <1>1, <1>4, <2>1, <2>2
  <1> QED
    BY <1>3, <1>4 DEF Uncounted, Plain

(* The steps of a caller, and those that only tell the broker something.   *)
LEMMA ReceiveStays ==
  ASSUME LinkInv, ReceiveInv, UNCHANGED <<alive, toClient, received, inbound, sending, sent>>,
         \/ toBroker' = toBroker
         \/ \E x : toBroker' = Append(toBroker, x) /\ ~Answers(x)
  PROVE  ReceiveInv'
  <1>1. toBroker \in Seq(Packets) /\ toClient \in Seq(Packets)
    BY DEF LinkInv
  <1>2. Uncounted'
    BY DEF ReceiveInv, Uncounted, Plain
  <1>3. ASSUME Phases
        PROVE  Phases'
    <2>1. \A i \in DOMAIN toClient' :
            i \in Nat /\ i + 0 \in DOMAIN toClient /\ toClient'[i] = toClient[i + 0]
      BY <1>1
    <2>2. \A i \in DOMAIN toClient :
            i \in Nat /\ i - 0 \in DOMAIN toClient' /\ toClient'[i - 0] = toClient[i]
      BY <1>1
    <2>3. \A i \in DOMAIN toBroker' :
            i \in Nat /\ (Answers(toBroker'[i]) => i + 0 \in DOMAIN toBroker /\ toBroker'[i] = toBroker[i + 0])
      BY <1>1
    <2>4. \A i \in DOMAIN toBroker :
            i \in Nat /\ i - 0 \in DOMAIN toBroker' /\ toBroker'[i - 0] = toBroker[i]
      BY <1>1
    <2> QED
      BY <1>3, <2>1, <2>2, <2>3, <2>4, PhasesKeep
  <1> QED
    BY <1>2, <1>3 DEF ReceiveInv

LEMMA ReceiveConnects ==
  ASSUME LinkInv, ReceiveInv, Attach \/ Break \/ Detach \/ CloseBegins
  PROVE  ReceiveInv'
  <1>1. received' = received /\ sent' = sent
    BY DEF Attach, Break, Detach, CloseBegins, brokerVars
  <1>2. DOMAIN <<>> = {}
    BY NoPackets
  <1>3. CASE Attach
    <2>1. /\ toClient' = <<>> /\ toBroker' = <<>> /\ sending' = Silent /\ inbound' = {}
      BY <1>3 DEF Attach, LinkInv, brokerVars
    <2>2. Resting'
      BY <1>2, <2>1 DEF Resting
    <2>3. Uncounted'
      BY <1>1, <1>2, <2>1 DEF ReceiveInv, Uncounted
    <2> QED
      BY <2>2, <2>3 DEF ReceiveInv, Phases
  <1>4. CASE Break \/ Detach
    <2>1. toClient' = <<>> /\ ~alive'
      BY <1>4 DEF Break, Detach
    <2>2. Uncounted'
      BY <1>1, <1>2, <2>1 DEF ReceiveInv, Uncounted
    <2> QED
      BY <2>1, <2>2 DEF ReceiveInv
  <1>5. CASE CloseBegins
    <2>1. UNCHANGED <<alive, toClient, toBroker, received, inbound, sending, sent>>
      BY <1>5 DEF CloseBegins, brokerVars
    <2> QED
      BY <2>1, ReceiveStays
  <1> QED
    BY <1>3, <1>4, <1>5

LEMMA ReceiveCalls ==
  ASSUME LinkInv, ReceiveInv, NEW p \in Senders,
         Waits(p) \/ Send(p) \/ \E qos \in 0 .. 2 : PublishBegins(p, qos)
  PROVE  ReceiveInv'
  <1>1. CASE Waits(p)
    <2>1. UNCHANGED <<alive, toClient, toBroker, received, inbound, sending, sent>>
      BY <1>1, WaitsUnchanged DEF linkVars
    <2> QED
      BY <2>1, ReceiveStays
  <1>2. CASE Send(p)
    <2>1. UNCHANGED <<alive, toClient, received, inbound, sending, sent>>
      BY <1>2 DEF Send, linkVars, brokerVars
    <2>2. toBroker' = toBroker \/ \E x : toBroker' = Append(toBroker, x) /\ ~Answers(x)
      BY <1>2 DEF Send, Sends, Publish, Answers
    <2> QED
      BY <2>1, <2>2, ReceiveStays
  <1>3. CASE \E qos \in 0 .. 2 : PublishBegins(p, qos)
    <2>1. UNCHANGED <<alive, toClient, toBroker, received, inbound, sending, sent>>
      BY <1>3 DEF PublishBegins, linkVars, brokerVars
    <2> QED
      BY <2>1, ReceiveStays
  <1> QED
    BY <1>1, <1>2, <1>3

(* The packets to the client once the first is read.                       *)
LEMMA ClientTail ==
  ASSUME LinkInv, toClient # <<>>, toClient' = Tail(toClient)
  PROVE  /\ toBroker \in Seq(Packets) /\ toClient \in Seq(Packets)
         /\ 1 \in DOMAIN toClient /\ toClient[1] = Head(toClient) /\ toClient[1] \in Packets
         /\ Follows(toClient, toClient', 1, {})
         /\ \A i \in DOMAIN toClient' :
              i \in Nat /\ i + 1 # 1 /\ i + 1 \in DOMAIN toClient /\ toClient'[i] = toClient[i + 1]
         /\ \A i \in DOMAIN toClient :
              i \in Nat /\ (i # 1 => i - 1 \in DOMAIN toClient' /\ toClient'[i - 1] = toClient[i])
  <1>1. toBroker \in Seq(Packets) /\ toClient \in Seq(Packets)
    BY DEF LinkInv
  <1> QED
    BY <1>1, TailOf, FollowsTail

(* The head is nothing that a phase is about.                              *)
LEMMA PhasesRead ==
  ASSUME LinkInv, Phases, toClient # <<>>, toClient' = Tail(toClient), ~Asks(toClient[1]),
         \/ toBroker' = toBroker
         \/ \E x : toBroker' = Append(toBroker, x) /\ ~Answers(x),
         sending' = sending, inbound' = inbound,
         sending # Silent /\ sending.qos = 2 => received'[sending.n] = received[sending.n]
  PROVE  Phases'
  <1>1. toBroker \in Seq(Packets)
    BY DEF LinkInv
  <1>2. \A i \in DOMAIN toClient' :
          i \in Nat /\ (Asks(toClient'[i]) => i + 1 \in DOMAIN toClient /\ toClient'[i] = toClient[i + 1])
    BY ClientTail
  <1>3. \A i \in DOMAIN toClient :
          i \in Nat /\ (Asks(toClient[i]) => i - 1 \in DOMAIN toClient' /\ toClient'[i - 1] = toClient[i])
    BY ClientTail
  <1>4. /\ \A i \in DOMAIN toBroker' :
             i \in Nat /\ (Answers(toBroker'[i]) => i + 0 \in DOMAIN toBroker /\ toBroker'[i] = toBroker[i + 0])
        /\ \A i \in DOMAIN toBroker :
             /\ i \in Nat
             /\ Answers(toBroker[i]) /\ toBroker[i].type # "pubrec"
                  => i - 0 \in DOMAIN toBroker' /\ toBroker'[i - 0] = toBroker[i]
    <2>1. CASE toBroker' = toBroker
      BY <1>1, <2>1
    <2>2. CASE \E x : toBroker' = Append(toBroker, x) /\ ~Answers(x)
      <3>1. PICK x : toBroker' = Append(toBroker, x) /\ ~Answers(x)
        BY <2>2
      <3> QED
        BY <1>1, <3>1
    <2> QED
      BY <2>1, <2>2
  <1>5. 0 \in Nat /\ 1 \in Nat
    OBVIOUS
  <1> QED
    BY <1>2, <1>3, <1>4, <1>5, PhasesKeep

(* A packet that is not a PUBLISH, or a copy that is not given on.         *)
LEMMA UncountedRead ==
  ASSUME LinkInv, ReceiveInv, toClient # <<>>, toClient' = Tail(toClient),
         UNCHANGED <<sending, sent>>,
         \/ received' = received
         \/ /\ toClient[1].n \in 1 .. sent
            /\ received' = [received EXCEPT ![toClient[1].n] = @ + 1]
            /\ Plain(toClient[1]) \/ (Copy(toClient[1]) /\ sending # Silent /\ sending.qos = 2)
  PROVE  Uncounted'
  <1>1. \A i \in DOMAIN toClient' : Plain(toClient'[i]) => received'[toClient'[i].n] = 0
    <2> SUFFICES ASSUME NEW i \in DOMAIN toClient', Plain(toClient'[i])
                 PROVE  received'[toClient'[i].n] = 0
      OBVIOUS
    <2>1. i + 1 # 1 /\ i + 1 \in DOMAIN toClient /\ toClient'[i] = toClient[i + 1] /\ 1 \in DOMAIN toClient
      BY ClientTail
    <2>2. /\ toClient'[i].n \in 1 .. sent /\ received[toClient'[i].n] = 0
          /\ sending # Silent /\ sending.qos = 2 => toClient'[i].n # sending.n
          /\ Plain(toClient[1]) => toClient'[i].n # toClient[1].n
      BY <2>1 DEF ReceiveInv, Uncounted
    <2>3. toClient'[i].n # toClient[1].n \/ received' = received
      BY <2>2 DEF Copy
    <2>4. toClient'[i].n \in Incoming
      BY <2>2, MqttPublishAssumption DEF LinkInv, Incoming
    <2> QED
      BY <2>2, <2>3, <2>4 DEF LinkInv, PublishTypeOK
  <1>2. \A m \in Incoming : m > sent' => received'[m] = 0
    <2>1. sent \in Nat
      BY MqttPublishAssumption DEF LinkInv
    <2> QED
      BY <2>1 DEF ReceiveInv, Uncounted, LinkInv, PublishTypeOK
  <1>3. Follows(toClient, toClient', 1, {}) /\ sent' \in sent .. MaxIn
    BY ClientTail, MqttPublishAssumption DEF LinkInv
  <1>4. \A i \in DOMAIN toClient : Plain(toClient[i]) /\ sending' # Silent /\ sending'.qos = 2 =>
          toClient[i].n # sending'.n
    BY DEF ReceiveInv, Uncounted
  <1> QED
    BY <1>1, <1>2, <1>3, <1>4, UncountedByPacket DEF ReceiveInv

(* ReceiveInv, action by action.                                           *)
LEMMA ReceiveAnswer ==
  ASSUME LinkInv, ReceiveInv, ReadAck \/ ReadPubrec
  PROVE  ReceiveInv'
  <1>1. /\ toClient # <<>> /\ toClient' = Tail(toClient) /\ alive /\ alive' = alive
        /\ UNCHANGED <<received, inbound, sending, sent>>
    BY DEF ReadAck, ReadPubrec, Reads, linkVars, brokerVars
  <1>2. toClient[1].type \in {"puback", "pubcomp", "pubrec"}
    BY <1>1, ClientTail DEF ReadAck, ReadPubrec, Reads
  <1>3. toBroker' = toBroker \/ \E x : toBroker' = Append(toBroker, x) /\ ~Answers(x)
    BY DEF ReadAck, ReadPubrec, Sends, Packet, Answers
  <1>4. ~Asks(toClient[1])
    BY <1>2 DEF Asks
  <1>5. Phases'
    BY <1>1, <1>3, <1>4, PhasesRead DEF ReceiveInv
  <1>6. Uncounted'
    BY <1>1, UncountedRead
  <1> QED
    BY <1>5, <1>6 DEF ReceiveInv

LEMMA ReceivePubrel ==
  ASSUME LinkInv, ReceiveInv, ReadPubrel
  PROVE  ReceiveInv'
  <1> DEFINE x == Packet("pubcomp", Head(toClient).id, Head(toClient).n)
  <1>1. /\ toClient # <<>> /\ toClient' = Tail(toClient) /\ alive /\ alive' = alive
        /\ UNCHANGED <<received, sending, sent>>
        /\ toBroker' = Append(toBroker, x) /\ toBroker \in Seq(Packets) /\ x.type = "pubcomp"
    BY DEF ReadPubrel, Reads, linkVars, brokerVars, Sends, Packet, LinkInv
  <1>2. toClient[1].type = "pubrel" /\ inbound' = inbound \ {toClient[1].id} /\ 1 \in DOMAIN toClient
    BY <1>1, ClientTail DEF ReadPubrel, Reads
  <1> HIDE DEF x
  <1>3. Asks(toClient[1])
    BY <1>2 DEF Asks
  <1>4. Releasing
    BY <1>1, <1>2, <1>3 DEF ReceiveInv, Phases, Resting, SentOnce, SentTwice, Released, Copy
  <1>5. PICK k \in DOMAIN toClient :
          /\ toClient[k].type = "pubrel" /\ toClient[k].id = 1
          /\ \A i \in DOMAIN toClient : Asks(toClient[i]) => i = k \/ (i < k /\ Copy(toClient[i]))
    BY <1>4 DEF Releasing
  <1>6. k = 1
    BY <1>2, <1>3, <1>5 DEF Copy
  <1>7. inbound' = {}
    BY <1>2, <1>4, <1>5, <1>6 DEF Releasing
  <1>8. \A i \in DOMAIN toClient' : ~Asks(toClient'[i])
    <2> TAKE i \in DOMAIN toClient'
    <2>1. i \in Nat /\ i + 1 # 1 /\ i + 1 \in DOMAIN toClient /\ toClient'[i] = toClient[i + 1]
      BY <1>1, ClientTail
    <2>2. ~(i + 1 < 1)
      BY <2>1
    <2> QED
      BY <1>5, <1>6, <2>1, <2>2
  <1>9. /\ Len(toBroker) + 1 \in DOMAIN toBroker' /\ toBroker'[Len(toBroker) + 1] = x
        /\ \A i \in DOMAIN toBroker' : i = Len(toBroker) + 1
             \/ (i < Len(toBroker) + 1 /\ i \in DOMAIN toBroker /\ toBroker'[i] = toBroker[i])
    BY <1>1
  <1>10. \A i \in DOMAIN toBroker : Answers(toBroker[i]) => toBroker[i].type = "pubrec"
    BY <1>4 DEF Releasing
  <1>11. \A i \in DOMAIN toBroker' : Answers(toBroker'[i]) =>
           i = Len(toBroker) + 1 \/ (i < Len(toBroker) + 1 /\ toBroker'[i].type = "pubrec")
    BY <1>9, <1>10
  <1>12. sending'.pc = "released" /\ sending'.qos = 2 /\ received'[sending'.n] = 1
    BY <1>1, <1>4 DEF Releasing
  <1>13. Released'
    BY <1>1, <1>7, <1>8, <1>9, <1>11, <1>12 DEF Released
  <1>14. Uncounted'
    BY <1>1, UncountedRead
  <1> QED
    BY <1>13, <1>14 DEF ReceiveInv, Phases

LEMMA ReceivePublish ==
  ASSUME LinkInv, ReceiveInv, ReadPublish
  PROVE  ReceiveInv'
  <1> DEFINE packet == toClient[1]
             x == Packet(IF packet.qos = 1 THEN "puback" ELSE "pubrec", packet.id, packet.n)
             again == packet.qos = 2 /\ packet.id \in inbound
  <1>1. /\ toClient # <<>> /\ toClient' = Tail(toClient) /\ alive /\ alive' = alive
        /\ UNCHANGED <<sending, sent>> /\ toBroker \in Seq(Packets)
    BY DEF ReadPublish, Reads, linkVars, brokerVars, LinkInv
  <1>2. packet = Head(toClient) /\ 1 \in DOMAIN toClient /\ packet.type = "publish" /\ packet \in Packets
    BY <1>1, ClientTail DEF ReadPublish, Reads
  <1>3. /\ packet.qos # 0 => toBroker' = Append(toBroker, x)
        /\ packet.qos = 0 => toBroker' = toBroker
        /\ inbound' = IF packet.qos = 2 THEN inbound \cup {packet.id} ELSE inbound
        /\ received' = IF again THEN received ELSE [received EXCEPT ![packet.n] = @ + 1]
    BY <1>1, <1>2 DEF ReadPublish, Sends
  <1>4. x.type = (IF packet.qos = 1 THEN "puback" ELSE "pubrec") /\ x.id = packet.id
    BY DEF Packet
  <1>5. packet.qos \in 0 .. 2
    BY <1>2 DEF Packets
  <1> HIDE DEF packet, x
  <1>6. sent \in Nat /\ 1 .. sent \subseteq Incoming /\ received \in [Incoming -> Nat] /\ inbound \subseteq {1}
    BY MqttPublishAssumption DEF LinkInv, PublishTypeOK, Incoming
  <1>7. CASE packet.qos = 2
    <2>1. Copy(packet) /\ (SentTwice \/ Releasing) /\ sending.n \in 1 .. sent
      BY <1>1, <1>2, <1>7, CopyRead DEF packet
    <2>2. packet.id = 1 /\ packet.n = sending.n /\ sending # Silent /\ sending.qos = 2
      BY <2>1 DEF Copy, SentTwice, Releasing, Silent
    <2>3. inbound' = {1}
      BY <1>3, <1>6, <1>7, <2>2
    <2>4. received'[sending.n] = 1
      <3>1. received[sending.n] = IF inbound = {} THEN 0 ELSE 1
        BY <2>1 DEF SentTwice, Releasing
      <3>2. again <=> inbound # {}
        BY <1>6, <1>7, <2>2
      <3> QED
        BY <1>3, <1>6, <2>1, <2>2, <3>1, <3>2
    <2>5. toBroker' = Append(toBroker, x) /\ x.type = "pubrec" /\ x.id = 1
      BY <1>3, <1>4, <1>7, <2>2
    <2>6. \A i \in DOMAIN toBroker' : toBroker'[i] = x \/ (i \in DOMAIN toBroker /\ toBroker'[i] = toBroker[i])
      BY <1>1, <2>5
    <2>7. \A i \in DOMAIN toClient' : i \in Nat /\ i + 1 \in DOMAIN toClient /\ toClient'[i] = toClient[i + 1]
      BY <1>1, ClientTail
    <2>8. ASSUME SentTwice
          PROVE  Phases'
      <3>1. \A i \in DOMAIN toClient' : Asks(toClient'[i]) =>
              /\ toClient'[i].type = "publish" /\ toClient'[i].qos = 2 /\ toClient'[i].id = 1
              /\ toClient'[i].n = sending'.n
        BY <1>1, <2>7, <2>8 DEF SentTwice, Copy
      <3>2. \A i \in DOMAIN toBroker' : Answers(toBroker'[i]) =>
              toBroker'[i].type = "pubrec" /\ toBroker'[i].id = 1
        BY <2>5, <2>6, <2>8 DEF SentTwice
      <3>3. sending'.pc = "sent" /\ sending'.qos = 2 /\ received'[sending'.n] = 1 /\ inbound' # {}
        BY <1>1, <2>3, <2>4, <2>8 DEF SentTwice
      <3>4. SentTwice'
        BY <2>3, <3>1, <3>2, <3>3 DEF SentTwice, Copy
      <3> QED
        BY <3>4 DEF Phases
    <2>9. ASSUME Releasing
          PROVE  Phases'
      <3>1. PICK k \in DOMAIN toClient :
              /\ toClient[k].type = "pubrel" /\ toClient[k].id = 1
              /\ \A i \in DOMAIN toClient : Asks(toClient[i]) => i = k \/ (i < k /\ Copy(toClient[i]))
        BY <2>9 DEF Releasing
      <3>2. k # 1 /\ k \in Nat /\ k - 1 \in DOMAIN toClient' /\ toClient'[k - 1] = toClient[k]
        <4>1. k # 1
          BY <1>2, <3>1 DEF packet
        <4> QED
          BY <1>1, <4>1, ClientTail
      <3>3. \A i \in DOMAIN toClient' : Asks(toClient'[i]) =>
              i = k - 1 \/ (i < k - 1 /\ toClient'[i].type = "publish" /\ toClient'[i].qos = 2
                            /\ toClient'[i].id = 1 /\ toClient'[i].n = sending'.n)
        <4> SUFFICES ASSUME NEW i \in DOMAIN toClient', Asks(toClient'[i])
                     PROVE  i = k - 1 \/ (i < k - 1 /\ toClient'[i].type = "publish" /\ toClient'[i].qos = 2
                                          /\ toClient'[i].id = 1 /\ toClient'[i].n = sending'.n)
          OBVIOUS
        <4>1. i \in Nat /\ i + 1 \in DOMAIN toClient /\ toClient'[i] = toClient[i + 1]
          BY <2>7
        <4>2. i + 1 = k \/ (i + 1 < k /\ Copy(toClient[i + 1]))
          BY <3>1, <4>1
        <4>3. (i + 1 = k => i = k - 1) /\ (i + 1 < k => i < k - 1)
          BY <3>2, <4>1
        <4> QED
          BY <1>1, <4>1, <4>2, <4>3 DEF Copy
      <3>4. \A i \in DOMAIN toBroker' : Answers(toBroker'[i]) => toBroker'[i].type = "pubrec"
        BY <2>5, <2>6, <2>9 DEF Releasing
      <3>5. sending'.pc = "released" /\ sending'.qos = 2 /\ received'[sending'.n] = 1
        BY <1>1, <2>4, <2>9 DEF Releasing
      <3>6. Releasing'
        BY <2>3, <3>1, <3>2, <3>3, <3>4, <3>5 DEF Releasing, Copy
      <3> QED
        BY <3>6 DEF Phases
    <2>10. Uncounted'
      <3>1. received' = received \/ received' = [received EXCEPT ![packet.n] = @ + 1]
        BY <1>3
      <3> QED
        BY <1>1, <2>1, <2>2, <3>1, UncountedRead DEF packet
    <2> QED
      BY <2>1, <2>8, <2>9, <2>10 DEF ReceiveInv
  <1>8. CASE packet.qos # 2
    <2>1. Plain(packet) /\ packet.n \in 1 .. sent
      BY <1>1, <1>2, <1>8 DEF ReceiveInv, Uncounted, Plain, packet
    <2>2. inbound' = inbound /\ received' = [received EXCEPT ![packet.n] = @ + 1]
      BY <1>3, <1>8
    <2>3. Uncounted'
      BY <1>1, <2>1, <2>2, UncountedRead DEF packet
    <2>4. sending # Silent /\ sending.qos = 2 => received'[sending.n] = received[sending.n]
      <3>1. sending # Silent /\ sending.qos = 2 => packet.n # sending.n /\ sending.n \in Incoming
        BY <1>2, <1>6, <2>1 DEF ReceiveInv, Uncounted, LinkInv, packet
      <3> QED
        BY <1>6, <2>2, <3>1
    <2>5. CASE packet.qos = 0
      <3>1. ~Asks(packet)
        BY <1>2, <2>5 DEF Asks
      <3>2. Phases'
        BY <1>1, <1>3, <2>2, <2>4, <2>5, <3>1, PhasesRead DEF ReceiveInv, packet
      <3> QED
        BY <2>3, <3>2 DEF ReceiveInv
    <2>6. CASE packet.qos = 1
      <3>1. Asks(packet)
        BY <1>2, <2>6 DEF Asks
      <3>2. SentOnce
        BY <1>1, <1>2, <2>6, <3>1 DEF ReceiveInv, Phases, Resting, SentTwice, Releasing, Released, Copy, packet
      <3>3. toBroker' = Append(toBroker, x) /\ x.type = "puback"
        BY <1>3, <1>4, <2>6
      <3>4. \A i \in DOMAIN toBroker : ~Answers(toBroker[i])
        BY <1>2, <3>1, <3>2 DEF SentOnce, packet
      <3>5. \A i \in DOMAIN toBroker' : Answers(toBroker'[i]) => i = Len(toBroker) + 1 /\ toBroker'[i] = x
        BY <1>1, <3>3, <3>4
      <3>6. \A i \in DOMAIN toClient' : ~Asks(toClient'[i])
        BY <1>1, <1>2, <3>1, <3>2, ClientTail DEF SentOnce, packet
      <3>7. sending'.pc = "sent" /\ sending'.qos = 1 /\ inbound' = {}
        BY <1>1, <2>2, <3>2 DEF SentOnce
      <3>8. SentOnce'
        BY <3>3, <3>5, <3>6, <3>7 DEF SentOnce
      <3> QED
        BY <2>3, <3>8 DEF ReceiveInv, Phases
    <2> QED
      BY <1>5, <1>8, <2>5, <2>6
  <1> QED
    BY <1>7, <1>8

LEMMA ReceiveBrokerSends ==
  ASSUME LinkInv, ReceiveInv, NEW qos \in 0 .. 2, BrokerSends(qos)
  PROVE  ReceiveInv'
  <1> DEFINE x == Publish(qos, 1, sent + 1)
  <1>1. /\ alive /\ sending = Silent /\ sent' = sent + 1 /\ toClient' = Append(toClient, x)
        /\ sending' = IF qos = 0 THEN Silent ELSE [pc |-> "sent", n |-> sent + 1, qos |-> qos]
        /\ UNCHANGED <<alive, inbound, received, toBroker>>
        /\ toClient \in Seq(Packets) /\ toBroker \in Seq(Packets)
    BY DEF BrokerSends, linkVars, LinkInv
  <1>2. sent \in Nat /\ sent + 1 \in Incoming /\ sent' \in sent .. MaxIn
    BY <1>1, MqttPublishAssumption DEF LinkInv, BrokerSends, Incoming
  <1>3. Resting
    BY <1>1 DEF ReceiveInv, Phases, SentOnce, SentTwice, Releasing, Released, Silent
  <1>4. x.type = "publish" /\ x.qos = qos /\ x.id = 1 /\ x.n = sent + 1
    BY DEF Publish
  <1> HIDE DEF x
  <1>5. received[sent + 1] = 0 /\ \A i \in DOMAIN toClient : Plain(toClient[i]) => toClient[i].n # sent + 1
    BY <1>2 DEF ReceiveInv, Uncounted
  <1>6. /\ Len(toClient) \in Nat
        /\ \A i \in DOMAIN toClient' : \/ i = Len(toClient) + 1 /\ toClient'[i] = x
                                       \/ i \in DOMAIN toClient /\ toClient'[i] = toClient[i]
    BY <1>1
  <1>7. Uncounted'
    <2>1. Follows(toClient, toClient', 0, {x})
      BY <1>1, FollowsAppend
    <2>2. sending' # Silent /\ sending'.qos = 2 => qos = 2 /\ sending'.n = sent + 1
      BY <1>1
    <2>3. \A z \in {x} : Plain(z) =>
            /\ z.n \in 1 .. sent' /\ received'[z.n] = 0
            /\ sending' # Silent /\ sending'.qos = 2 => z.n # sending'.n
            /\ \A i \in DOMAIN toClient : Plain(toClient[i]) => toClient[i].n # z.n
      BY <1>1, <1>2, <1>4, <1>5, <2>2 DEF Plain
    <2>4. \A i \in DOMAIN toClient' : Plain(toClient'[i]) => received'[toClient'[i].n] = 0
      BY <1>1, <1>4, <1>5, <1>6 DEF ReceiveInv, Uncounted
    <2>5. \A i \in DOMAIN toClient : Plain(toClient[i]) /\ sending' # Silent /\ sending'.qos = 2 =>
            toClient[i].n # sending'.n
      BY <1>5, <2>2
    <2>6. \A m \in Incoming : m > sent' => received'[m] = 0
      BY <1>1, <1>2 DEF ReceiveInv, Uncounted, Incoming
    <2> QED
      BY <1>2, <2>1, <2>3, <2>4, <2>5, <2>6, UncountedByPacket DEF ReceiveInv
  <1>8. \A i \in DOMAIN toClient' : Asks(toClient'[i]) => i = Len(toClient) + 1 /\ toClient'[i] = x /\ qos > 0
    BY <1>3, <1>4, <1>6 DEF Resting, Asks
  <1>9. \A i \in DOMAIN toBroker' : ~Answers(toBroker'[i])
    BY <1>1, <1>3 DEF Resting
  <1>10. inbound' = {}
    BY <1>1, <1>3 DEF Resting
  <1>11. CASE qos = 0
    <2>1. Resting'
      BY <1>1, <1>8, <1>9, <1>10, <1>11 DEF Resting
    <2> QED
      BY <1>7, <2>1 DEF ReceiveInv, Phases
  <1>12. CASE qos = 1
    <2>1. sending'.pc = "sent" /\ sending'.qos = 1
      BY <1>1, <1>12
    <2>2. SentOnce'
      BY <1>4, <1>8, <1>9, <1>10, <1>12, <2>1 DEF SentOnce
    <2> QED
      BY <1>7, <2>2 DEF ReceiveInv, Phases
  <1>13. CASE qos = 2
    <2>1. sending'.pc = "sent" /\ sending'.qos = 2 /\ sending'.n = sent + 1 /\ received'[sending'.n] = 0
      BY <1>1, <1>5, <1>13
    <2>2. SentTwice'
      BY <1>4, <1>8, <1>9, <1>10, <1>13, <2>1 DEF SentTwice, Copy
    <2> QED
      BY <1>7, <2>2 DEF ReceiveInv, Phases
  <1> QED
    BY <1>11, <1>12, <1>13

LEMMA ReceiveRepeats ==
  ASSUME LinkInv, ReceiveInv, BrokerRepeats
  PROVE  ReceiveInv'
  <1> DEFINE x == Publish(2, 1, sending.n)
  <1>1. /\ alive /\ sending.pc = "sent" /\ sending.qos = 2 /\ toClient' = Append(toClient, x)
        /\ UNCHANGED <<alive, inbound, received, toBroker, sending, sent>>
        /\ toClient \in Seq(Packets)
    BY DEF BrokerRepeats, linkVars, brokerVars, LinkInv
  <1>2. SentTwice
    BY <1>1 DEF ReceiveInv, Phases, Resting, SentOnce, Releasing, Released, Silent
  <1>3. Copy(x) /\ x.type = "publish" /\ x.qos = 2 /\ x.id = 1 /\ x.n = sending.n
    BY DEF Publish, Copy
  <1> HIDE DEF x
  <1>4. \A i \in DOMAIN toClient' : toClient'[i] = x \/ (i \in DOMAIN toClient /\ toClient'[i] = toClient[i])
    BY <1>1
  <1>5. \A i \in DOMAIN toClient' : Asks(toClient'[i]) => Copy(toClient'[i])
    BY <1>2, <1>3, <1>4 DEF SentTwice
  <1>6. SentTwice'
    BY <1>1, <1>2, <1>5 DEF SentTwice, Copy
  <1>7. Uncounted'
    <2>1. Follows(toClient, toClient', 0, {x}) /\ sent' \in sent .. MaxIn
      BY <1>1, FollowsAppend, MqttPublishAssumption DEF LinkInv
    <2>2. ~Plain(x)
      BY <1>3 DEF Plain
    <2>3. \A i \in DOMAIN toClient' : Plain(toClient'[i]) => received'[toClient'[i].n] = 0
      BY <1>1, <1>4, <2>2 DEF ReceiveInv, Uncounted
    <2>4. \A i \in DOMAIN toClient : Plain(toClient[i]) /\ sending' # Silent /\ sending'.qos = 2 =>
            toClient[i].n # sending'.n
      BY <1>1 DEF ReceiveInv, Uncounted
    <2>5. \A m \in Incoming : m > sent' => received'[m] = 0
      BY <1>1 DEF ReceiveInv, Uncounted
    <2> QED
      BY <2>1, <2>2, <2>3, <2>4, <2>5, UncountedByPacket DEF ReceiveInv
  <1> QED
    BY <1>6, <1>7 DEF ReceiveInv, Phases

(* The packet that the broker reads leaves the phase, or ends it.          *)
LEMMA PhasesBroker ==
  ASSUME LinkInv, Phases, BrokerReads
  PROVE  Phases'
  <1>1. /\ toBroker # <<>> /\ toBroker \in Seq(Packets) /\ toBroker' = Tail(toBroker)
        /\ First = toBroker[1] /\ 1 \in DOMAIN toBroker /\ toClient \in Seq(Packets)
        /\ inbound' = inbound /\ received' = received
    BY BrokerCases
  <1>2. \A i \in DOMAIN toBroker' :
          i \in Nat /\ i + 1 # 1 /\ ~(i + 1 < 1) /\ i + 1 \in DOMAIN toBroker /\ toBroker'[i] = toBroker[i + 1]
    BY <1>1, TailOf
  <1>3. \A i \in DOMAIN toBroker :
          i \in Nat /\ (i # 1 => i - 1 \in DOMAIN toBroker' /\ toBroker'[i - 1] = toBroker[i])
    BY <1>1, TailOf
  <1>4. ASSUME sending' = sending, ~Answers(First) \/ First.type = "pubrec",
               toClient' = toClient \/ \E x : toClient' = Append(toClient, x) /\ ~Asks(x)
        PROVE  Phases'
    <2>1. /\ \A i \in DOMAIN toClient' :
               /\ i \in Nat
               /\ Asks(toClient'[i]) => i + 0 \in DOMAIN toClient /\ toClient'[i] = toClient[i + 0]
          /\ \A i \in DOMAIN toClient :
               /\ i \in Nat
               /\ Asks(toClient[i]) => i - 0 \in DOMAIN toClient' /\ toClient'[i - 0] = toClient[i]
      <3>1. CASE toClient' = toClient
        BY <1>1, <3>1
      <3>2. CASE \E x : toClient' = Append(toClient, x) /\ ~Asks(x)
        <4>1. PICK x : toClient' = Append(toClient, x) /\ ~Asks(x)
          BY <3>2
        <4> QED
          BY <1>1, <4>1
      <3> QED
        BY <1>4, <3>1, <3>2
    <2>2. \A i \in DOMAIN toBroker' :
            /\ i \in Nat
            /\ Answers(toBroker'[i]) => i + 1 \in DOMAIN toBroker /\ toBroker'[i] = toBroker[i + 1]
      BY <1>2
    <2>3. \A i \in DOMAIN toBroker :
            /\ i \in Nat
            /\ Answers(toBroker[i]) /\ toBroker[i].type # "pubrec"
                 => i - 1 \in DOMAIN toBroker' /\ toBroker'[i - 1] = toBroker[i]
      BY <1>1, <1>3, <1>4
    <2>4. 0 \in Nat /\ 1 \in Nat
      OBVIOUS
    <2> QED
      BY <1>1, <1>4, <2>1, <2>2, <2>3, <2>4, PhasesKeep
  <1>5. CASE Takes0 \/ Takes1 \/ Takes2 \/ Releases
    <2>1. sending' = sending /\ ~Answers(First)
      BY <1>5 DEF Takes0, Takes1, Takes2, Releases, Answers
    <2>2. toClient' = toClient \/ \E x : toClient' = Append(toClient, x) /\ ~Asks(x)
      BY <1>5 DEF Takes0, Takes1, Takes2, Releases, Replies, Packet, Asks
    <2> QED
      BY <1>4, <2>1, <2>2
  <1>6. CASE HearsAgain
    <2>1. sending' = sending /\ First.type = "pubrec" /\ toClient' = toClient
      BY <1>6 DEF HearsAgain
    <2> QED
      BY <1>4, <2>1
  <1>7. CASE Finishes
    <2>1. First.type \in {"puback", "pubcomp"} /\ sending' = Silent /\ toClient' = toClient
      BY <1>7 DEF Finishes
    <2>2. Answers(First)
      BY <2>1 DEF Answers
    <2>3. SentOnce \/ Released
      BY <1>1, <2>1, <2>2 DEF Phases, Resting, SentTwice, Releasing
    <2>4. inbound = {} /\ \A i \in DOMAIN toClient : ~Asks(toClient[i])
      BY <1>1, <2>2, <2>3 DEF SentOnce, Released
    <2>5. ASSUME NEW i \in DOMAIN toBroker'
          PROVE  ~Answers(toBroker'[i])
      <3>1. i + 1 # 1 /\ ~(i + 1 < 1) /\ i + 1 \in DOMAIN toBroker /\ toBroker'[i] = toBroker[i + 1]
        BY <1>2
      <3>2. CASE SentOnce
        BY <1>1, <2>2, <3>1, <3>2 DEF SentOnce
      <3>3. CASE Released
        <4>1. PICK k \in DOMAIN toBroker :
                \A j \in DOMAIN toBroker : Answers(toBroker[j]) => j = k \/ (j < k /\ toBroker[j].type = "pubrec")
          BY <3>3 DEF Released
        <4>2. k = 1
          BY <1>1, <2>1, <2>2, <4>1
        <4> QED
          BY <3>1, <4>1, <4>2
      <3> QED
        BY <2>3, <3>2, <3>3
    <2>6. Resting'
      BY <1>1, <2>1, <2>4, <2>5 DEF Resting
    <2> QED
      BY <2>6 DEF Phases
  <1>8. CASE Hears
    <2> DEFINE x == Packet("pubrel", First.id, First.n)
    <2>1. /\ First.type = "pubrec" /\ sending.pc = "sent"
          /\ sending' = [sending EXCEPT !.pc = "released"] /\ toClient' = Append(toClient, x)
          /\ x.type = "pubrel" /\ x.id = First.id
      BY <1>8 DEF Hears, Replies, Packet
    <2> HIDE DEF x
    <2>2. Answers(First)
      BY <2>1 DEF Answers
    <2>3. SentTwice
      BY <1>1, <2>1, <2>2 DEF Phases, Resting, SentOnce, Releasing, Released
    <2>4. First.id = 1 /\ inbound = {1} /\ received[sending.n] = 1
      BY <1>1, <2>2, <2>3 DEF SentTwice
    <2>5. sending \in [pc : {"sent", "released"}, n : 1 .. sent, qos : 1 .. 2]
      BY <2>1 DEF LinkInv, Silent
    <2>6. sending'.pc = "released" /\ sending'.qos = 2 /\ sending'.n = sending.n
      BY <2>1, <2>3, <2>5 DEF SentTwice
    <2>7. /\ Len(toClient) + 1 \in DOMAIN toClient' /\ toClient'[Len(toClient) + 1] = x
          /\ \A i \in DOMAIN toClient' : i = Len(toClient) + 1
               \/ (i < Len(toClient) + 1 /\ i \in DOMAIN toClient /\ toClient'[i] = toClient[i])
      BY <1>1, <2>1
    <2>8. \A i \in DOMAIN toClient' : Asks(toClient'[i]) => i = Len(toClient) + 1
            \/ (i < Len(toClient) + 1 /\ toClient'[i].type = "publish" /\ toClient'[i].qos = 2
                /\ toClient'[i].id = 1 /\ toClient'[i].n = sending'.n)
      BY <2>3, <2>6, <2>7 DEF SentTwice, Copy
    <2>9. \A i \in DOMAIN toBroker' : Answers(toBroker'[i]) => toBroker'[i].type = "pubrec"
      BY <1>2, <2>3 DEF SentTwice
    <2>10. toClient'[Len(toClient) + 1].type = "pubrel" /\ toClient'[Len(toClient) + 1].id = 1
      BY <2>1, <2>4, <2>7
    <2>11. Releasing'
      BY <1>1, <2>4, <2>6, <2>7, <2>8, <2>9, <2>10 DEF Releasing, Copy
    <2> QED
      BY <2>11 DEF Phases
  <1> QED
    BY <1>5, <1>6, <1>7, <1>8, BrokerCases

LEMMA ReceiveBroker ==
  ASSUME LinkInv, ReceiveInv, BrokerReads
  PROVE  ReceiveInv'
  <1>1. alive /\ toClient \in Seq(Packets) /\ UNCHANGED <<received, sent>>
    BY BrokerCases
  <1>2. Phases'
    BY <1>1, PhasesBroker DEF ReceiveInv
  <1>3. sending' = sending \/ sending' = Silent \/ (sending'.n = sending.n /\ sending'.qos = sending.qos /\ sending # Silent)
    <2>1. CASE Hears
      <3>1. sending \in [pc : {"sent", "released"}, n : 1 .. sent, qos : 1 .. 2]
        BY <2>1 DEF Hears, LinkInv, Silent
      <3> QED
        BY <2>1, <3>1 DEF Hears, Silent
    <2> QED
      BY <2>1, BrokerCases DEF Takes0, Takes1, Takes2, Releases, Finishes, HearsAgain
  <1>4. toClient' = toClient \/ \E x : toClient' = Append(toClient, x) /\ ~Plain(x)
    BY BrokerCases DEF Takes0, Takes1, Takes2, Releases, Finishes, Hears, HearsAgain, Replies, Packet, Plain
  <1>5. PICK fresh : Follows(toClient, toClient', 0, fresh) /\ \A x \in fresh : ~Plain(x)
    <2>1. CASE toClient' = toClient
      BY <1>1, <2>1, FollowsSame
    <2>2. CASE \E x : toClient' = Append(toClient, x) /\ ~Plain(x)
      <3>1. PICK x : toClient' = Append(toClient, x) /\ ~Plain(x)
        BY <2>2
      <3>2. Follows(toClient, toClient', 0, {x})
        BY <1>1, <3>1, FollowsAppend
      <3> QED
        BY <3>1, <3>2
    <2> QED
      BY <1>4, <2>1, <2>2
  <1>6. \A i \in DOMAIN toClient' : Plain(toClient'[i]) => received'[toClient'[i].n] = 0
    <2> SUFFICES ASSUME NEW i \in DOMAIN toClient', Plain(toClient'[i])
                 PROVE  received'[toClient'[i].n] = 0
      OBVIOUS
    <2>1. i + 0 \in DOMAIN toClient /\ toClient'[i] = toClient[i + 0]
      BY <1>5 DEF Follows
    <2> QED
      BY <1>1, <2>1 DEF ReceiveInv, Uncounted
  <1>7. \A i \in DOMAIN toClient : Plain(toClient[i]) /\ sending' # Silent /\ sending'.qos = 2 =>
          toClient[i].n # sending'.n
    BY <1>3 DEF ReceiveInv, Uncounted
  <1>8. sent' \in sent .. MaxIn
    BY <1>1, MqttPublishAssumption DEF LinkInv
  <1>9. \A m \in Incoming : m > sent' => received'[m] = 0
    BY <1>1 DEF ReceiveInv, Uncounted
  <1>10. Uncounted'
    BY <1>5, <1>6, <1>7, <1>8, <1>9, UncountedByPacket DEF ReceiveInv
  <1> QED
    BY <1>2, <1>10 DEF ReceiveInv

-----------------------------------------------------------------------------
(* The three facts of the induction.                                       *)
LEMMA PublishInitially == PublishInit => PublishInv
  <1> SUFFICES ASSUME PublishInit
               PROVE  PublishInv
    OBVIOUS
  <1>1. <<>> \in Seq(Packets) /\ DOMAIN <<>> = {}
    BY NoPackets
  <1>2. /\ toBroker = <<>> /\ toClient = <<>> /\ DOMAIN stored = {} /\ DOMAIN pending = {}
        /\ calls = 0 /\ sent = 0 /\ sending = Silent /\ inbound = {} /\ honest = TRUE
        /\ shut = FALSE /\ link = FALSE /\ alive = FALSE /\ nextId = 0
    BY <1>1 DEF PublishInit
  <1>3. MaxId \in Nat /\ MaxCalls \in Nat /\ MaxIn \in Nat
    BY MqttPublishAssumption
  <1>4. call = [p \in Senders |-> NoCall] /\ \A p \in Senders : call[p] = NoCall /\ call[p].pc = "idle"
    BY DEF PublishInit, NoCall
  <1>5. Calling = {} /\ Registered = {} /\ Unsent = {}
    BY <1>4 DEF Calling, Registered, Unsent
  <1>6. /\ received = [m \in Incoming |-> 0] /\ delivered = [n \in Messages |-> 0]
        /\ received \in [Incoming -> Nat] /\ delivered \in [Messages -> Nat]
    BY DEF PublishInit
  <1>7. PublishTypeOK
    <2>1. shut \in BOOLEAN /\ link \in BOOLEAN /\ alive \in BOOLEAN /\ (alive => link) /\ honest \in BOOLEAN
      BY <1>2
    <2>2. /\ nextId \in 0 .. MaxId
          /\ DOMAIN pending \subseteq 1 .. MaxId
          /\ \A id \in DOMAIN pending : pending[id] \in Seq(0 .. 2) /\ Len(pending[id]) <= 2
          /\ inbound \subseteq {1}
      BY <1>2, <1>3
    <2>3. \A p \in Senders :
            call[p].pc \in {"idle", "awaiting", "register", "send", "wait", "complete"}
      BY <1>4
    <2> QED
      BY <1>6, <2>1, <2>2, <2>3 DEF PublishTypeOK
  <1>8. LinkInv
    <2>1. call \in [Senders -> Calls(calls)]
      BY <1>4 DEF Calls
    <2> QED
      BY <1>1, <1>2, <1>3, <1>5, <1>7, <2>1 DEF LinkInv
  <1>9. NumberInv
    BY <1>1, <1>2, <1>5, <1>6 DEF NumberInv
  <1>10. TokenInv
    BY <1>1, <1>2 DEF TokenInv
  <1>11. CallInv
    BY <1>2, <1>5 DEF CallInv
  <1>12. ReceiveInv
    BY <1>1, <1>2, <1>6 DEF ReceiveInv, Uncounted
  <1> QED
    BY <1>2, <1>8, <1>9, <1>10, <1>11, <1>12 DEF PublishInv

LEMMA PublishStutters ==
  ASSUME PublishInv, UNCHANGED publishVars
  PROVE  PublishInv'
  <1>1. /\ UNCHANGED <<shut, link, alive, conns, nextId, pending, inbound, call, calls, honest>>
        /\ UNCHANGED <<received, toBroker, toClient, stored, delivered, sending, sent>>
    BY DEF publishVars, linkVars, tableVars, messageVars, brokerVars
  <1>2. Calling' = Calling /\ Registered' = Registered /\ Unsent' = Unsent /\ Owed' = Owed
    BY <1>1 DEF Calling, Registered, Unsent, Owed
  <1>3. LinkInv'
    BY <1>1, <1>2 DEF PublishInv, LinkInv, PublishTypeOK
  <1>4. NumberInv'
    BY <1>1, <1>2 DEF PublishInv, NumberInv
  <1>5. TokenInv'
    BY <1>1, TokensStay DEF PublishInv
  <1>6. CallInv'
    BY <1>1, <1>2 DEF PublishInv, CallInv
  <1>7. ReceiveInv'
    BY <1>1, ReceiveStays DEF PublishInv
  <1> QED
    BY <1>1, <1>3, <1>4, <1>5, <1>6, <1>7 DEF PublishInv

LEMMA PublishStep == PublishInv /\ [PublishNext]_publishVars => PublishInv'
  <1> SUFFICES ASSUME PublishInv, [PublishNext]_publishVars
               PROVE  PublishInv'
    OBVIOUS
  <1>1. LinkInv /\ NumberInv /\ TokenInv /\ CallInv /\ honest /\ ReceiveInv
    BY DEF PublishInv
  <1>2. CASE Attach \/ Break \/ ReadEnds \/ CloseBegins \/ CloseDetaches
    <2>1. Attach \/ Break \/ Detach \/ CloseBegins
      BY <1>2 DEF ReadEnds, CloseDetaches
    <2>2. honest'
      BY <1>1, <2>1 DEF Attach, Break, Detach, CloseBegins, messageVars
    <2> QED
      BY <1>1, <2>1, <2>2, LinkConnects, NumbersConnect, TokensConnect, CallsConnect, ReceiveConnects
         DEF PublishInv
  <1>3. ASSUME NEW p \in Senders, NEW qos \in 0 .. 2, PublishBegins(p, qos)
        PROVE  PublishInv'
    <2>1. TokenInv' /\ honest'
      <3>1. UNCHANGED <<toBroker, toClient, stored, honest>>
        BY <1>3 DEF PublishBegins, brokerVars
      <3> QED
        BY <1>1, <3>1, TokensStay
    <2> QED
      BY <1>1, <1>3, <2>1, LinkBegins, NumbersBegin, CallsBegin, ReceiveCalls DEF PublishInv
  <1>4. ASSUME NEW p \in Senders, Send(p)
        PROVE  PublishInv'
    BY <1>1, <1>4, LinkSend, NumbersSend, TokensSend, CallsSend, HonestSend, ReceiveCalls DEF PublishInv
  <1>5. ASSUME NEW p \in Senders, Waits(p)
        PROVE  PublishInv'
    BY <1>1, <1>5, LinkWaits, NumbersWait, TokensWait, CallsWait, HonestWaits, ReceiveCalls DEF PublishInv
  <1>6. CASE ReadAck \/ ReadPubrec \/ ReadPublish \/ ReadPubrel
    <2>1. LinkInv'
      BY <1>1, <1>6, LinkReadAck, LinkReadPubrec, LinkReadPublish, LinkReadPubrel
    <2>2. ReceiveInv'
      BY <1>1, <1>6, ReceiveAnswer, ReceivePublish, ReceivePubrel
    <2>3. honest'
      BY <1>1, <1>6 DEF ReadAck, ReadPubrec, ReadPublish, ReadPubrel, messageVars
    <2> QED
      BY <1>1, <1>6, <2>1, <2>2, <2>3, NumbersRead, TokensRead, CallsRead DEF PublishInv
  <1>7. CASE BrokerReads
    <2>1. honest'
      BY <1>1, <1>7 DEF BrokerReads, messageVars
    <2> QED
      BY <1>1, <1>7, <2>1, LinkBrokerReads, NumbersBroker, TokensBroker, CallsBroker, ReceiveBroker
         DEF PublishInv
  <1>8. CASE (\E qos \in 0 .. 2 : BrokerSends(qos)) \/ BrokerRepeats
    <2>1. honest'
      BY <1>1, <1>8 DEF BrokerSends, BrokerRepeats, messageVars
    <2> QED
      BY <1>1, <1>8, <2>1, LinkBrokerSends, NumbersBrokerSends, TokensBrokerSends, CallsBrokerSends,
         ReceiveBrokerSends, ReceiveRepeats DEF PublishInv
  <1>9. CASE UNCHANGED publishVars
    BY <1>9, PublishStutters
  <1> QED
    BY <1>2, <1>3, <1>4, <1>5, <1>6, <1>7, <1>8, <1>9 DEF PublishNext, CallStep, Waits

LEMMA PublishAlways == PublishSpec => []PublishInv
  BY PublishInitially, PublishStep, PTL DEF PublishSpec

(* TableIsTheCalls, types included: on a connection every identifier of    *)
(* the table (c.pending) is that of one call of Publish under way, and no  *)
(* two calls have the same one.                                            *)
THEOREM PendingIsTheCalls == PublishSpec => []TableIsTheCalls
  <1>1. PublishInv => TableIsTheCalls
    BY DEF PublishInv, LinkInv, CallInv, TableIsTheCalls
  <1> QED
    BY <1>1, PublishAlways, PTL

(* OkMeansDelivered: a call of Publish with QoS 1 or 2 that returns nil    *)
(* has been passed on, and no message is passed on twice.                  *)
THEOREM PublishTellsTheTruth == PublishSpec => []OkMeansDelivered
  <1>1. PublishInv => OkMeansDelivered
    BY DEF PublishInv, NumberInv, OkMeansDelivered
  <1> QED
    BY <1>1, PublishAlways, PTL

(* Only ReadPublish gives OnMessage a message; the broker releases a       *)
(* message only when that was done.                                        *)
LEMMA GivenOnce ==
  ASSUME PublishInv, PublishNext, NEW m \in Incoming, received'[m] # received[m]
  PROVE  received[m] = 0
  <1>1. ReadPublish
    <2>1. received' # received
      OBVIOUS
    <2>2. \A p \in Senders : Waits(p) => received' = received
      BY WaitsUnchanged
    <2>3. \A p \in Senders : ~Waits(p) /\ ~Send(p) /\ \A qos \in 0 .. 2 : ~PublishBegins(p, qos)
      BY <2>1, <2>2 DEF Send, PublishBegins
    <2>4. ~BrokerReads /\ ~BrokerRepeats /\ \A qos \in 0 .. 2 : ~BrokerSends(qos)
      BY <2>1 DEF BrokerReads, BrokerSends, BrokerRepeats
    <2>5. ~ReadAck /\ ~ReadPubrec /\ ~ReadPubrel
      BY <2>1 DEF ReadAck, ReadPubrec, ReadPubrel
    <2>6. ~Attach /\ ~Break /\ ~Detach /\ ~CloseBegins
      BY <2>1 DEF Attach, Break, Detach, CloseBegins
    <2> QED
      BY <2>3, <2>4, <2>5, <2>6 DEF PublishNext, CallStep, Waits, ReadEnds, CloseDetaches
  <1> DEFINE packet == toClient[1]
  <1>2. LinkInv /\ ReceiveInv /\ alive /\ toClient # <<>> /\ toClient' = Tail(toClient)
    BY <1>1 DEF PublishInv, ReadPublish, Reads
  <1>3. packet = Head(toClient) /\ 1 \in DOMAIN toClient /\ packet.type = "publish"
    BY <1>1, <1>2, ClientTail DEF ReadPublish, Reads
  <1>4. received' = IF packet.qos = 2 /\ packet.id \in inbound THEN received
                    ELSE [received EXCEPT ![packet.n] = @ + 1]
    BY <1>1, <1>3 DEF ReadPublish
  <1>5. m = packet.n /\ ~(packet.qos = 2 /\ packet.id \in inbound)
    BY <1>2, <1>4 DEF LinkInv, PublishTypeOK
  <1>6. CASE packet.qos = 2
    <2>1. Copy(packet) /\ (SentTwice \/ Releasing)
      BY <1>2, <1>3, <1>6, CopyRead
    <2>2. packet.id = 1 /\ packet.n = sending.n /\ 1 \notin inbound
      BY <1>5, <1>6, <2>1 DEF Copy
    <2>3. inbound = {}
      BY <1>2, <2>2 DEF LinkInv, PublishTypeOK
    <2> QED
      BY <1>5, <2>1, <2>2, <2>3 DEF SentTwice, Releasing
  <1>7. CASE packet.qos # 2
    BY <1>2, <1>3, <1>5, <1>7 DEF ReceiveInv, Uncounted, Plain
  <1> QED
    BY <1>6, <1>7

LEMMA ReleasedIsGiven ==
  ASSUME PublishInv, sending.pc = "released"
  PROVE  received[sending.n] = 1
  <1>1. LinkInv /\ ReceiveInv /\ sending # Silent
    BY DEF PublishInv, Silent
  <1>2. Phases
    BY <1>1 DEF ReceiveInv, LinkInv
  <1> QED
    BY <1>1, <1>2 DEF Phases, Resting, SentOnce, SentTwice, Releasing, Released

(* IncomingOnce: OnMessage is given a message of QoS 2 once, however often *)
(* the broker repeats it, and before the broker is told that it was.       *)
THEOREM IncomingOnceHolds == PublishSpec => IncomingOnce
  <1>1. PublishInv /\ [PublishNext]_publishVars =>
          [/\ \A m \in Incoming :
                received'[m] # received[m] /\ sending.pc # "silent" /\ sending.qos = 2 => received[m] = 0
           /\ sending.pc = "released" /\ sending' = Silent /\ alive' => received[sending.n] = 1]_publishVars
    <2>1. PublishInv /\ PublishNext => \A m \in Incoming : received'[m] # received[m] => received[m] = 0
      BY GivenOnce
    <2>2. PublishInv => (sending.pc = "released" => received[sending.n] = 1)
      BY ReleasedIsGiven
    <2> QED
      BY <2>1, <2>2
  <1> QED
    BY <1>1, PublishAlways, PTL DEF PublishSpec, IncomingOnce
=============================================================================
