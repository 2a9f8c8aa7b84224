------------------------------- MODULE HubProofs -------------------------------
(***************************************************************************)
(* Theorems about Hub, for every number of publishers and viewers and      *)
(* every size of the buffer.                                               *)
(***************************************************************************)
EXTENDS Hub, TLAPS

(* What the lock protects: the viewers a publisher has still to try are in *)
(* the map, and those in the map are open, can be taken out again by their *)
(* handler and have one that is going to do so.                            *)
MapInv ==
  /\ \A p \in Publishers : left[p] # {} => sending[p] # None
  /\ \A p \in Publishers : left[p] \subseteq subs
  /\ \A v \in subs : ~chClosed[v] /\ cancel[v] /\ stage[v] \in {"writing", "streaming", "leaving"}

HubInv == HubTypeOK /\ MapInv

(* The steps of a handler that change nothing but where it is.             *)
Passes(v) == Heartbeat(v) \/ WriteReturns(v) \/ SeesClose(v) \/ Disconnect(v)

-----------------------------------------------------------------------------
LEMMA HubInitially == HubInit => HubInv
<1> SUFFICES ASSUME HubInit PROVE HubInv
  OBVIOUS
<1>1. /\ <<>> \in Seq(1 .. MaxEvents)
      /\ Len(<<>>) <= Buffer
  BY HubAssumption
<1>2. HubTypeOK
  <2>1. buf \in [Viewers -> Seq(1 .. MaxEvents)] /\ seen \in [Viewers -> Seq(1 .. MaxEvents)]
    BY <1>1 DEF HubInit
  <2>2. \A v \in Viewers : Len(buf[v]) <= Buffer
    BY <1>1 DEF HubInit
  <2>3. published \in 0 .. MaxEvents
    BY HubAssumption DEF HubInit
  <2> QED
    BY <2>1, <2>2, <2>3 DEF HubInit, HubTypeOK
<1>3. MapInv
  BY DEF HubInit, MapInv
<1> QED
  BY <1>2, <1>3 DEF HubInv

(* While nobody holds the read lock no publisher has anything to send.     *)
LEMMA UnlockedSendsNothing ==
  ASSUME MapInv, ~Locked, NEW p \in Publishers
  PROVE  left[p] = {}
  BY DEF MapInv, Locked

LEMMA HubTypePreserved == HubInv /\ [HubNext]_hubVars => HubTypeOK'
<1> SUFFICES ASSUME HubInv, [HubNext]_hubVars PROVE HubTypeOK'
  OBVIOUS
<1> USE HubAssumption DEF HubInv, HubTypeOK, viewVars, pubVars, In, Becomes
<1>1. ASSUME NEW p \in Publishers, PublishBegins(p) PROVE HubTypeOK'
  BY <1>1 DEF PublishBegins
<1>2. ASSUME NEW p \in Publishers, NEW v \in Viewers, PublishSends(p, v) PROVE HubTypeOK'
  <2>1. sending[p] \in 1 .. MaxEvents
    BY <1>2 DEF PublishSends, MapInv
  <2>2. ASSUME Len(buf[v]) < Buffer
        PROVE  /\ Append(buf[v], sending[p]) \in Seq(1 .. MaxEvents)
               /\ Len(Append(buf[v], sending[p])) <= Buffer
    BY <2>1, <2>2
  <2>3. buf' \in [Viewers -> Seq(1 .. MaxEvents)] /\ \A w \in Viewers : Len(buf'[w]) <= Buffer
    BY <1>2, <2>2 DEF PublishSends
  <2> QED
    BY <1>2, <2>3 DEF PublishSends
<1>3. ASSUME NEW p \in Publishers, PublishReturns(p) PROVE HubTypeOK'
  BY <1>3 DEF PublishReturns
<1>4. ASSUME NEW v \in Viewers, Connect(v) PROVE HubTypeOK'
  BY <1>4 DEF Connect
<1>5. ASSUME NEW v \in Viewers, Subscribe(v) PROVE HubTypeOK'
  BY <1>5 DEF Subscribe
<1>6. ASSUME NEW v \in Viewers, Receive(v) PROVE HubTypeOK'
  <2>1. /\ Tail(buf[v]) \in Seq(1 .. MaxEvents)
        /\ Len(Tail(buf[v])) <= Buffer
        /\ Head(buf[v]) \in 1 .. MaxEvents
    BY <1>6 DEF Receive
  <2>2. Append(seen[v], Head(buf[v])) \in Seq(1 .. MaxEvents)
    BY <2>1
  <2> QED
    BY <1>6, <2>1, <2>2 DEF Receive
<1>7. ASSUME NEW v \in Viewers, Passes(v) PROVE HubTypeOK'
  BY <1>7 DEF Passes, Heartbeat, WriteReturns, SeesClose, Disconnect
<1>8. ASSUME NEW v \in Viewers, Unsubscribe(v) PROVE HubTypeOK'
  BY <1>8 DEF Unsubscribe
<1>9. ASSUME NEW v \in Viewers, CloseChannel(v) PROVE HubTypeOK'
  BY <1>9 DEF CloseChannel
<1>10. CASE Close
  BY <1>10 DEF Close
<1>11. CASE UNCHANGED hubVars
  BY <1>11 DEF hubVars
<1> QED
  BY <1>1, <1>2, <1>3, <1>4, <1>5, <1>6, <1>7, <1>8, <1>9, <1>10, <1>11
     DEF HubNext, PublishStep, ViewStep, Passes

LEMMA MapPreserved == HubInv /\ [HubNext]_hubVars => MapInv'
<1> SUFFICES ASSUME HubInv, [HubNext]_hubVars PROVE MapInv'
  OBVIOUS
<1> USE HubAssumption DEF HubInv, MapInv, HubTypeOK, viewVars, pubVars, In, Becomes
<1>1. ASSUME NEW p \in Publishers, PublishBegins(p) PROVE MapInv'
  BY <1>1 DEF PublishBegins
<1>2. ASSUME NEW p \in Publishers, NEW v \in Viewers, PublishSends(p, v) PROVE MapInv'
  BY <1>2 DEF PublishSends
<1>3. ASSUME NEW p \in Publishers, PublishReturns(p) PROVE MapInv'
  BY <1>3 DEF PublishReturns
<1>4. ASSUME NEW v \in Viewers, Connect(v) PROVE MapInv'
  BY <1>4 DEF Connect
<1>5. ASSUME NEW v \in Viewers, Subscribe(v) PROVE MapInv'
  <2>1. \A p \in Publishers : left'[p] = {}
    BY <1>5, UnlockedSendsNothing DEF Subscribe
  <2>2. CASE shut
    BY <1>5, <2>1, <2>2 DEF Subscribe
  <2>3. CASE ~shut
    <3>1. subs' = subs \cup {v} /\ ~chClosed'[v] /\ cancel'[v] /\ stage'[v] = "writing"
      BY <1>5, <2>3 DEF Subscribe
    <3>2. \A w \in Viewers \ {v} :
            chClosed'[w] = chClosed[w] /\ cancel'[w] = cancel[w] /\ stage'[w] = stage[w]
      BY <1>5 DEF Subscribe
    <3> QED
      BY <2>1, <3>1, <3>2
  <2> QED
    BY <2>2, <2>3
<1>6. ASSUME NEW v \in Viewers, Receive(v) PROVE MapInv'
  BY <1>6 DEF Receive
<1>7. ASSUME NEW v \in Viewers, Passes(v) PROVE MapInv'
  BY <1>7 DEF Passes, Heartbeat, WriteReturns, SeesClose, Disconnect
<1>8. ASSUME NEW v \in Viewers, Unsubscribe(v) PROVE MapInv'
  BY <1>8, UnlockedSendsNothing DEF Unsubscribe
<1>9. ASSUME NEW v \in Viewers, CloseChannel(v) PROVE MapInv'
  BY <1>9 DEF CloseChannel
<1>10. CASE Close
  BY <1>10, UnlockedSendsNothing DEF Close
<1>11. CASE UNCHANGED hubVars
  BY <1>11 DEF hubVars
<1> QED
  BY <1>1, <1>2, <1>3, <1>4, <1>5, <1>6, <1>7, <1>8, <1>9, <1>10, <1>11
     DEF HubNext, PublishStep, ViewStep, Passes

(* The map and the lock are consistent throughout.                         *)
THEOREM HubInvariant == HubSpec => []HubInv
<1>1. HubInv /\ [HubNext]_hubVars => HubInv'
  BY HubTypePreserved, MapPreserved DEF HubInv
<1> QED
  BY HubInitially, <1>1, PTL DEF HubSpec

(* The variables of the hub always have their types; no buffer overruns.   *)
THEOREM HubTypeCorrect == HubSpec => []HubTypeOK
  BY HubInvariant, PTL DEF HubInv

(* Publish never sends on a closed channel, whoever unsubscribes or closes *)
(* the hub meanwhile, and browsers that come and go leave nothing in the   *)
(* map (Publish, Subscribe, Close, handle_events).                         *)
THEOREM PublishIsSafe == HubSpec => []MapOutlivesNoStream
<1>1. HubInv => MapOutlivesNoStream
  BY DEF HubInv, MapInv, NoSendOnClosedChannel, GoneIsForgotten, MapOutlivesNoStream
<1> QED
  BY <1>1, HubInvariant, PTL

-----------------------------------------------------------------------------
(* What has reached a viewer, or waits for it in its channel.              *)
Got(v) == seen[v] \o buf[v]

(* Events are numbered as they come: what a viewer got was published, no   *)
(* two publishers send the same event, a publisher still has to try only   *)
(* those who have not got its event, and one that is alone has the latest. *)
OrderInv ==
  /\ \A p \in Publishers : sending[p] # None => sending[p] \in 1 .. published
  /\ \A p, q \in Publishers : sending[p] = sending[q] /\ sending[p] # None => p = q
  /\ (\A p, q \in Publishers : p = q) => \A p \in Publishers : sending[p] \in {None, published}
  /\ \A v \in Viewers : \A i \in DOMAIN Got(v) : Got(v)[i] \in 1 .. published
  /\ \A p \in Publishers : \A v \in left[p] : \A i \in DOMAIN Got(v) : Got(v)[i] # sending[p]
  /\ SeenInOrder

(* Taking an event out of the channel and writing it changes nothing of    *)
(* what the viewer got.                                                    *)
LEMMA TakenIsMoved ==
  ASSUME NEW s \in Seq(Nat), NEW t \in Seq(Nat), t # <<>>
  PROVE  Append(s, Head(t)) \o Tail(t) = s \o t
  OBVIOUS

(* ... and a send puts the event at its end.                               *)
LEMMA SentIsAppended ==
  ASSUME NEW s \in Seq(Nat), NEW t \in Seq(Nat), NEW e \in Nat
  PROVE  s \o Append(t, e) = Append(s \o t, e)
  OBVIOUS

(* Where the parts of a concatenation are found in it.                     *)
LEMMA PartsOfConcat ==
  ASSUME NEW s \in Seq(Nat), NEW t \in Seq(Nat)
  PROVE  /\ Len(s \o t) = Len(s) + Len(t)
         /\ \A i \in 1 .. Len(s) : (s \o t)[i] = s[i]
         /\ \A i \in 1 .. Len(t) : (s \o t)[i + Len(s)] = t[i]
  OBVIOUS

(* The new end of a sequence does not disturb the order of the rest.       *)
LEMMA AppendKeepsOrder ==
  ASSUME NEW s \in Seq(Nat), NEW e \in Nat
  PROVE  /\ Distinct(s) /\ (\A i \in DOMAIN s : s[i] # e) => Distinct(Append(s, e))
         /\ Increasing(s) /\ (\A i \in DOMAIN s : s[i] < e) => Increasing(Append(s, e))
  BY DEF Distinct, Increasing

LEMMA OrderInit == HubInit => OrderInv
<1> SUFFICES ASSUME HubInit PROVE OrderInv
  OBVIOUS
<1>1. \A v \in Viewers : Got(v) = <<>>
  BY DEF HubInit, Got
<1> QED
  BY <1>1 DEF HubInit, OrderInv, SeenInOrder, Got, Distinct, Increasing

(* A step that moves no event keeps the order.                             *)
LEMMA OrderUndisturbed ==
  ASSUME HubInv, OrderInv, UNCHANGED <<sending, published>>,
         \A p \in Publishers : left'[p] \subseteq left[p],
         \A v \in Viewers : seen'[v] \o buf'[v] = Got(v)
  PROVE  OrderInv'
<1>1. \A v \in Viewers : Got(v)' = Got(v)
  BY DEF Got
<1>2. SeenInOrder'
  BY <1>1 DEF OrderInv, SeenInOrder, Got
<1>3. \A v \in Viewers : \A i \in DOMAIN Got(v)' : Got(v)'[i] \in 1 .. published'
  BY <1>1 DEF OrderInv
<1>4. \A p \in Publishers : \A v \in left'[p] : \A i \in DOMAIN Got(v)' : Got(v)'[i] # sending'[p]
  <2> TAKE p \in Publishers
  <2> TAKE v \in left'[p]
  <2>1. v \in left[p] /\ v \in Viewers
    BY DEF HubInv, HubTypeOK
  <2>2. Got(v)' = Got(v)
    BY <1>1, <2>1
  <2>3. \A i \in DOMAIN Got(v) : Got(v)[i] # sending[p]
    BY <2>1 DEF OrderInv
  <2> QED
    BY <2>2, <2>3
<1>5. /\ \A p \in Publishers : sending'[p] # None => sending'[p] \in 1 .. published'
      /\ \A p, q \in Publishers : sending'[p] = sending'[q] /\ sending'[p] # None => p = q
      /\ (\A p, q \in Publishers : p = q) => \A p \in Publishers : sending'[p] \in {None, published'}
  BY DEF OrderInv
<1> QED
  BY <1>2, <1>3, <1>4, <1>5 DEF OrderInv

LEMMA OrderPreserved == HubInv /\ OrderInv /\ [HubNext]_hubVars => OrderInv'
<1> SUFFICES ASSUME HubInv, OrderInv, [HubNext]_hubVars PROVE OrderInv'
  OBVIOUS
<1>types. /\ buf \in [Viewers -> Seq(1 .. MaxEvents)] /\ seen \in [Viewers -> Seq(1 .. MaxEvents)]
          /\ sending \in [Publishers -> (1 .. MaxEvents) \cup {None}]
          /\ left \in [Publishers -> SUBSET Viewers] /\ published \in Nat /\ None \notin Nat
          /\ MaxEvents \in Nat
  BY HubAssumption DEF HubInv, HubTypeOK
<1>got. \A v \in Viewers : Got(v) \in Seq(Nat)
  <2> TAKE v \in Viewers
  <2>1. seen[v] \in Seq(Nat) /\ buf[v] \in Seq(Nat)
    BY <1>types
  <2> QED
    BY <2>1 DEF Got
<1>1. ASSUME NEW p \in Publishers, PublishBegins(p) PROVE OrderInv'
  <2>1. \A v \in Viewers : Got(v)' = Got(v)
    BY <1>1 DEF PublishBegins, viewVars, Got
  <2>2. SeenInOrder'
    BY <2>1 DEF OrderInv, SeenInOrder, Got
  <2>3. /\ published' = published + 1
        /\ sending' = [sending EXCEPT ![p] = published + 1]
        /\ left' = [left EXCEPT ![p] = subs]
    BY <1>1 DEF PublishBegins
  <2>4. \A v \in Viewers : \A i \in DOMAIN Got(v) : Got(v)[i] \in 1 .. published
    BY DEF OrderInv
  <2>5. \A q \in Publishers : sending[q] # None => sending[q] \in 1 .. published
    BY DEF OrderInv
  <2>6. subs \subseteq Viewers
    BY DEF HubInv, HubTypeOK
  <2>7. \A q \in Publishers : sending'[q] # None => sending'[q] \in 1 .. published'
    BY <2>3, <2>5, <1>types
  <2>8. \A q, r \in Publishers : sending'[q] = sending'[r] /\ sending'[q] # None => q = r
    BY <2>3, <2>5, <1>types DEF OrderInv
  <2>9. (\A q, r \in Publishers : q = r) => \A q \in Publishers : sending'[q] \in {None, published'}
    BY <2>3, <1>types
  <2>10. \A v \in Viewers : \A i \in DOMAIN Got(v)' : Got(v)'[i] \in 1 .. published'
    BY <2>1, <2>3, <2>4, <1>types
  <2>11. \A q \in Publishers : \A v \in left'[q] :
           \A i \in DOMAIN Got(v)' : Got(v)'[i] # sending'[q]
    <3> TAKE q \in Publishers
    <3> TAKE v \in left'[q]
    <3>1. v \in Viewers
      BY <2>3, <2>6, <1>types
    <3>2. CASE q = p
      BY <3>1, <3>2, <2>1, <2>3, <2>4, <1>types
    <3>3. CASE q # p
      BY <3>1, <3>3, <2>1, <2>3, <1>types DEF OrderInv
    <3> QED
      BY <3>2, <3>3
  <2> QED
    BY <2>2, <2>7, <2>8, <2>9, <2>10, <2>11 DEF OrderInv
<1>2. ASSUME NEW p \in Publishers, NEW v \in Viewers, PublishSends(p, v) PROVE OrderInv'
  <2>1. sending[p] \in 1 .. published /\ v \in left[p]
    BY <1>2 DEF PublishSends, HubInv, MapInv, OrderInv
  <2>2. /\ left' = [left EXCEPT ![p] = @ \ {v}]
        /\ sending' = sending /\ published' = published /\ seen' = seen
    BY <1>2 DEF PublishSends, viewVars
  <2>3. \A i \in DOMAIN Got(v) : Got(v)[i] # sending[p]
    BY <2>1 DEF OrderInv
  <2>4. CASE buf' = buf
    BY <2>2, <2>4, <1>types, OrderUndisturbed DEF Got
  <2>5. CASE buf' = [buf EXCEPT ![v] = Append(@, sending[p])]
    <3>1. Got(v)' = Append(Got(v), sending[p])
      <4>1. seen[v] \in Seq(Nat) /\ buf[v] \in Seq(Nat) /\ sending[p] \in Nat
        BY <1>types, <2>1
      <4>2. Got(v)' = seen[v] \o Append(buf[v], sending[p])
        BY <2>2, <2>5, <1>types DEF Got
      <4>3. seen[v] \o Append(buf[v], sending[p]) = Append(seen[v] \o buf[v], sending[p])
        BY <4>1, SentIsAppended
      <4> QED
        BY <4>2, <4>3 DEF Got
    <3>2. \A w \in Viewers \ {v} : Got(w)' = Got(w)
      BY <2>2, <2>5, <1>types DEF Got
    <3>3. \A i \in DOMAIN Got(v)' :
            \/ i \in DOMAIN Got(v) /\ Got(v)'[i] = Got(v)[i]
            \/ Got(v)'[i] = sending[p]
      BY <3>1, <1>got
    <3>4. \A w \in Viewers : \A i \in DOMAIN Got(w)' : Got(w)'[i] \in 1 .. published'
      BY <3>2, <3>3, <2>1, <2>2 DEF OrderInv
    <3>5. \A q \in Publishers : \A w \in left'[q] :
            \A i \in DOMAIN Got(w)' : Got(w)'[i] # sending'[q]
      <4> TAKE q \in Publishers
      <4> TAKE w \in left'[q]
      <4>1. w \in Viewers /\ w \in left[q] /\ (q = p => w # v)
        BY <2>2, <1>types
      <4>2. sending[q] = sending[p] => q = p
        BY <2>1, <1>types DEF OrderInv
      <4>3. \A i \in DOMAIN Got(w) : Got(w)[i] # sending[q]
        BY <4>1 DEF OrderInv
      <4> QED
        BY <4>1, <4>2, <4>3, <3>2, <3>3, <2>2
    <3>6. SeenInOrder'
      <4>1. \A w \in Viewers \ {v} :
              /\ Distinct(Got(w)')
              /\ (\A q, r \in Publishers : q = r) => Increasing(Got(w)')
        BY <3>2 DEF OrderInv, SeenInOrder, Got
      <4>2. Distinct(Got(v)')
        <5>1. Distinct(Got(v))
          BY DEF OrderInv, SeenInOrder, Got
        <5>2. Got(v) \in Seq(Nat) /\ sending[p] \in Nat
          BY <1>got, <2>1, <1>types
        <5> QED
          BY <3>1, <2>3, <5>1, <5>2, AppendKeepsOrder
      <4>3. (\A q, r \in Publishers : q = r) => Increasing(Got(v)')
        <5> HAVE \A q, r \in Publishers : q = r
        <5>1. sending[p] = published
          BY <2>1, <1>types DEF OrderInv
        <5>2. \A i \in DOMAIN Got(v) : Got(v)[i] < sending[p]
          <6> TAKE i \in DOMAIN Got(v)
          <6>1. Got(v)[i] \in 1 .. published /\ Got(v)[i] # sending[p]
            BY <2>3 DEF OrderInv
          <6> QED
            BY <6>1, <5>1, <1>types
        <5>3. Increasing(Got(v))
          BY DEF OrderInv, SeenInOrder, Got
        <5>4. Got(v) \in Seq(Nat) /\ sending[p] \in Nat
          BY <1>got, <2>1, <1>types
        <5> QED
          BY <3>1, <5>2, <5>3, <5>4, AppendKeepsOrder
      <4>4. \A w \in Viewers : Got(w)' = seen'[w] \o buf'[w]
        BY DEF Got
      <4> QED
        BY <4>1, <4>2, <4>3, <4>4 DEF SeenInOrder
    <3>7. /\ \A q \in Publishers : sending'[q] # None => sending'[q] \in 1 .. published'
          /\ \A q, r \in Publishers : sending'[q] = sending'[r] /\ sending'[q] # None => q = r
          /\ (\A q, r \in Publishers : q = r) =>
               \A q \in Publishers : sending'[q] \in {None, published'}
      BY <2>2 DEF OrderInv
    <3> QED
      BY <3>4, <3>5, <3>6, <3>7 DEF OrderInv
  <2> QED
    BY <1>2, <2>4, <2>5 DEF PublishSends
<1>3. ASSUME NEW p \in Publishers, PublishReturns(p) PROVE OrderInv'
  <2>1. /\ sending' = [sending EXCEPT ![p] = None] /\ left[p] = {}
        /\ UNCHANGED <<left, published, seen, buf>>
    BY <1>3 DEF PublishReturns, viewVars
  <2>2. \A v \in Viewers : Got(v)' = Got(v)
    BY <2>1 DEF Got
  <2>3. SeenInOrder'
    BY <2>1 DEF OrderInv, SeenInOrder
  <2> QED
    BY <2>1, <2>2, <2>3, <1>types DEF OrderInv
<1>4. ASSUME NEW v \in Viewers, Connect(v) \/ Subscribe(v) PROVE OrderInv'
  <2>1. /\ UNCHANGED <<sending, left, published>>
        /\ \/ Subscribe(v) /\ buf' = [buf EXCEPT ![v] = <<>>] /\ seen' = seen
           \/ Connect(v) /\ seen' = [seen EXCEPT ![v] = <<>>] /\ buf' = buf
    BY <1>4 DEF Connect, Subscribe, pubVars
  <2>2. \A w \in Viewers \ {v} : Got(w)' = Got(w)
    BY <2>1, <1>types DEF Got
  <2>3. \E d \in Nat : /\ Len(Got(v)') + d <= Len(Got(v))
                       /\ \A i \in DOMAIN Got(v)' : Got(v)'[i] = Got(v)[i + d]
                       /\ Got(v)' \in Seq(Nat)
    <3>1. seen[v] \in Seq(Nat) /\ buf[v] \in Seq(Nat)
      BY <1>types
    <3>2. CASE Subscribe(v)
      <4>1. Got(v)' = seen[v]
        BY <2>1, <3>1, <3>2, <1>types, <1>4 DEF Got, Subscribe, Connect, In
      <4>2. /\ Len(Got(v)) = Len(seen[v]) + Len(buf[v])
            /\ \A i \in 1 .. Len(seen[v]) : Got(v)[i] = seen[v][i]
        BY <3>1, PartsOfConcat DEF Got
      <4>3. DOMAIN seen[v] = 1 .. Len(seen[v]) /\ Len(buf[v]) \in Nat /\ Len(seen[v]) \in Nat
        BY <3>1
      <4>4. Len(Got(v)) \in Nat /\ Got(v)' \in Seq(Nat)
        BY <4>1, <3>1, <1>got
      <4>5. Len(Got(v)') <= Len(Got(v))
        <5>1. Len(Got(v)') = Len(seen[v])
          BY <4>1
        <5>2. \A a, b \in Nat : a <= a + b
          OBVIOUS
        <5>3. Len(seen[v]) <= Len(seen[v]) + Len(buf[v])
          BY <5>2, <4>3
        <5> QED
          BY <5>1, <5>3, <4>2
      <4>6. \A i \in DOMAIN Got(v)' : i + 0 = i /\ Got(v)'[i] = Got(v)[i]
        <5>1. DOMAIN Got(v)' = 1 .. Len(seen[v])
          BY <4>1, <4>3
        <5>2. \A i \in 1 .. Len(seen[v]) : i + 0 = i
          BY <4>3
        <5> QED
          BY <5>1, <5>2, <4>1, <4>2
      <4>7. Len(Got(v)') + 0 = Len(Got(v)') /\ 0 \in Nat
        BY <4>4
      <4> QED
        BY <4>4, <4>5, <4>6, <4>7
    <3>3. CASE Connect(v)
      <4>1. Got(v)' = buf[v]
        BY <2>1, <3>1, <3>3, <1>types, <1>4 DEF Got, Subscribe, Connect, In
      <4>2. /\ Len(Got(v)) = Len(seen[v]) + Len(buf[v])
            /\ \A i \in 1 .. Len(buf[v]) : Got(v)[i + Len(seen[v])] = buf[v][i]
        BY <3>1, PartsOfConcat DEF Got
      <4>3. DOMAIN buf[v] = 1 .. Len(buf[v]) /\ Len(buf[v]) \in Nat /\ Len(seen[v]) \in Nat
        BY <3>1
      <4>4. Len(Got(v)') + Len(seen[v]) <= Len(Got(v))
        BY <4>1, <4>2, <4>3, <3>1
      <4>5. \A i \in DOMAIN Got(v)' : Got(v)'[i] = Got(v)[i + Len(seen[v])]
        BY <4>1, <4>2, <4>3, <3>1
      <4>6. Got(v)' \in Seq(Nat) /\ Len(seen[v]) \in Nat
        BY <4>1, <4>3, <3>1
      <4> QED
        BY <4>4, <4>5, <4>6
    <3> QED
      BY <1>4, <3>2, <3>3
  <2>4. PICK d \in Nat : /\ Len(Got(v)') + d <= Len(Got(v))
                        /\ \A i \in DOMAIN Got(v)' : Got(v)'[i] = Got(v)[i + d]
                        /\ Got(v)' \in Seq(Nat)
    BY <2>3
  <2>5. \A i \in DOMAIN Got(v)' : i + d \in DOMAIN Got(v) /\ Got(v)'[i] = Got(v)[i + d]
    BY <2>4, <1>got
  <2>6. /\ Distinct(Got(v)')
        /\ (\A p, q \in Publishers : p = q) => Increasing(Got(v)')
    <3>1. /\ Distinct(Got(v))
          /\ (\A p, q \in Publishers : p = q) => Increasing(Got(v))
      BY DEF OrderInv, SeenInOrder, Got
    <3>2. DOMAIN Got(v)' \subseteq Nat /\ DOMAIN Got(v) \subseteq Nat
      BY <2>4, <1>got
    <3>3. \A i, j \in DOMAIN Got(v)' : (i < j <=> i + d < j + d) /\ (i = j <=> i + d = j + d)
      BY <3>2
    <3> HIDE DEF Got
    <3> QED
      BY <3>1, <3>3, <2>5 DEF Distinct, Increasing
  <2>7. SeenInOrder'
    BY <2>2, <2>6 DEF OrderInv, SeenInOrder, Got
  <2>8. \A w \in Viewers : \A i \in DOMAIN Got(w)' : \E j \in DOMAIN Got(w) : Got(w)'[i] = Got(w)[j]
    BY <2>2, <2>5
  <2>9. \A w \in Viewers : \A i \in DOMAIN Got(w)' : Got(w)'[i] \in 1 .. published'
    BY <2>1, <2>8 DEF OrderInv
  <2>10. \A p \in Publishers : \A w \in left'[p] :
           \A i \in DOMAIN Got(w)' : Got(w)'[i] # sending'[p]
    BY <2>1, <2>8, <1>types DEF OrderInv
  <2>11. /\ \A p \in Publishers : sending'[p] # None => sending'[p] \in 1 .. published'
         /\ \A p, q \in Publishers : sending'[p] = sending'[q] /\ sending'[p] # None => p = q
         /\ (\A p, q \in Publishers : p = q) =>
              \A p \in Publishers : sending'[p] \in {None, published'}
    BY <2>1 DEF OrderInv
  <2> QED
    BY <2>7, <2>9, <2>10, <2>11 DEF OrderInv
<1>5. ASSUME NEW v \in Viewers, Receive(v) PROVE OrderInv'
  <2>1. /\ UNCHANGED <<sending, left, published>>
        /\ seen' = [seen EXCEPT ![v] = Append(@, Head(buf[v]))]
        /\ buf' = [buf EXCEPT ![v] = Tail(@)] /\ buf[v] # <<>>
    BY <1>5 DEF Receive, pubVars
  <2>2. seen'[v] \o buf'[v] = seen[v] \o buf[v]
    <3>1. seen[v] \in Seq(Nat) /\ buf[v] \in Seq(Nat)
      BY <1>types
    <3>2. Append(seen[v], Head(buf[v])) \o Tail(buf[v]) = seen[v] \o buf[v]
      BY <2>1, <3>1, TakenIsMoved
    <3> QED
      BY <2>1, <3>2, <1>types
  <2>3. \A w \in Viewers : seen'[w] \o buf'[w] = Got(w)
    BY <2>1, <2>2, <1>types DEF Got
  <2> QED
    BY <2>1, <2>3, OrderUndisturbed
<1>6. ASSUME NEW v \in Viewers, Passes(v) \/ Unsubscribe(v) \/ CloseChannel(v)
      PROVE  OrderInv'
  BY <1>6, OrderUndisturbed
     DEF Passes, Heartbeat, WriteReturns, SeesClose, Disconnect, Unsubscribe, CloseChannel, pubVars,
         Got
<1>7. CASE Close
  BY <1>7, OrderUndisturbed DEF Close, pubVars, viewVars, Got
<1>8. CASE UNCHANGED hubVars
  BY <1>8, OrderUndisturbed DEF hubVars, pubVars, viewVars, Got
<1> QED
  BY <1>1, <1>2, <1>3, <1>4, <1>5, <1>6, <1>7, <1>8 DEF HubNext, PublishStep, ViewStep, Passes

(* No viewer gets an event twice, and none, from a single publisher, gets  *)
(* them out of order, whatever is dropped (Publish, handle_events).        *)
THEOREM EventsArriveInOrder == HubSpec => []SeenInOrder
<1>1. OrderInv => SeenInOrder
  BY DEF OrderInv
<1> QED
  BY <1>1, OrderInit, OrderPreserved, HubInvariant, PTL DEF HubSpec
=============================================================================
