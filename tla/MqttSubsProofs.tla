---------------------------- MODULE MqttSubsProofs ----------------------------
(***************************************************************************)
(* Theorems about MqttSubs, for every set of topics, whichever of them the *)
(* broker refuses, and every number of callers, connections and packets    *)
(* under way.                                                              *)
(***************************************************************************)
EXTENDS MqttSubs, WellFoundedInduction, TLAPS

(* A caller works on its lists; it has been called and has not looked.     *)
Works(c)  == pc[c] \in {"sending", "subscribing", "unsubscribing"}
Called(c) == pc[c] \in {"locking", "looking"}

(* The topic whose turn it is.                                             *)
Asked == First(IF add # {} THEN add ELSE remove)

(* There is a connection while it works, and run reconciles only then.     *)
LinkInv ==
  /\ alive => link /\ ~readDone
  /\ run # "reconciling" => At(Run, "idle")

(* The lists are what is left to do.                                       *)
ListsInv ==
  \A c \in Callers :
    /\ At(c, "subscribing") => add # {}
    /\ At(c, "unsubscribing") => add = {} /\ remove # {}
    /\ Works(c) /\ alive => add \cap applied = {} /\ remove \subseteq applied

(* Somebody waits for the last packet under way, or nobody, and nobody for *)
(* those before it.                                                        *)
WireInv ==
  alive => \A i \in DOMAIN wire :
    IF wire[i].from = Nobody
      THEN wire[i].topic \in givenUp
      ELSE /\ i = Len(wire) /\ reply = "none"
           /\ Waiting(wire[i].from) /\ wire[i] = NextPacket(wire[i].from)

(* The broker has done what was asked for last, and applied will follow.   *)
Done(t) == (\E c \in Callers : Waiting(c)) /\ reply = "ok" /\ t = Asked

AgreeInv ==
  alive => \A t \in Topics \ givenUp :
    /\ Done(t) => (t \in session <=> t \notin applied)
    /\ ~Done(t) => (t \in session <=> t \in applied)

(* With nobody called, what is left to do is all there is to do.           *)
FollowInv ==
  alive =>
    /\ restored /\ (\A c \in Callers : At(c, "idle")) => applied = wanted
    /\ (\E c \in Callers : Works(c)) /\ (\A c \in Callers : ~Called(c)) =>
         add = wanted \ applied /\ remove = applied \ wanted

(* The inductive invariant of the subscriptions.                           *)
SubsInv == TypeOK /\ LinkInv /\ ListsInv /\ WireInv /\ AgreeInv /\ FollowInv

-----------------------------------------------------------------------------
(* The first of some topics is one of them.                                *)
LEMMA FirstIsOne ==
  ASSUME NEW S, S \subseteq Nat, S # {}
  PROVE  First(S) \in S
<1> DEFINE R == {ss \in Nat \X Nat : ss[1] < ss[2]}
<1>1. IsWellFoundedOn(R, Nat)
  BY NatLessThanWellFounded DEF OpToRel
<1>2. \A m, n \in Nat : m < n => <<m, n>> \in R
  OBVIOUS
<1> HIDE DEF R
<1>3. PICK t \in S : \A u \in S : ~ (<<u, t>> \in R)
  BY <1>1, WFMin
<1>4. \A u \in S : ~(u < t)
  BY <1>2, <1>3
<1>5. \A u \in S : t <= u
  BY <1>4
<1> QED
  BY <1>5 DEF First

(* Whoever waits has a topic to wait for.                                  *)
LEMMA AskedIsATopic ==
  ASSUME TypeOK, ListsInv, NEW c \in Callers, Works(c), add \cup remove # {}
  PROVE  /\ Asked \in Topics
         /\ add # {} => Asked \in add
         /\ add = {} => Asked \in remove
<1>1. add \subseteq Nat /\ remove \subseteq Nat
  BY MqttSubsAssumption DEF TypeOK
<1>2. add # {} => Asked \in add
  BY <1>1, FirstIsOne DEF Asked
<1>3. add = {} => Asked \in remove
  BY <1>1, FirstIsOne DEF Asked
<1> QED
  BY <1>2, <1>3 DEF TypeOK

LEMMA SubsInit == Init => SubsInv
<1> SUFFICES ASSUME Init PROVE SubsInv
  OBVIOUS
<1> USE MqttSubsAssumption DEF Init
<1>1. TypeOK
  <2>1. \A c \in Callers : pc[c] \notin {"idle", "locking"} <=> mu = c
    OBVIOUS
  <2>2. wire \in Seq(Packets)
    OBVIOUS
  <2>3. pc \in [Callers -> {"idle", "locking", "looking", "sending", "subscribing", "unsubscribing"}]
    OBVIOUS
  <2>4. conns \in 0 .. MaxConns
    OBVIOUS
  <2> QED
    BY <2>1, <2>2, <2>3, <2>4 DEF TypeOK
<1>2. LinkInv
  BY DEF LinkInv, At, Callers
<1>3. ListsInv
  BY DEF ListsInv, At, Works
<1>4. WireInv /\ AgreeInv /\ FollowInv
  BY DEF WireInv, AgreeInv, FollowInv
<1> QED
  BY <1>1, <1>2, <1>3, <1>4 DEF SubsInv

-----------------------------------------------------------------------------
(* A caller that moves, and the mutex with it.                             *)
LEMMA Moving ==
  ASSUME TypeOK, NEW c \in Callers, NEW l, Goto(c, l)
  PROVE  pc'[c] = l /\ \A d \in Callers \ {c} : pc'[d] = pc[d]
  BY DEF TypeOK, Goto

LEMMA HoldersPreserved ==
  ASSUME TypeOK, NEW c \in Callers, NEW l, Goto(c, l),
         l \in {"idle", "locking", "looking", "sending", "subscribing", "unsubscribing"},
         \/ mu' = mu /\ (l \notin {"idle", "locking"} <=> mu = c)
         \/ mu = Nobody /\ mu' = c /\ l \notin {"idle", "locking"}
         \/ mu = c /\ mu' = Nobody /\ l \in {"idle", "locking"}
  PROVE  /\ pc' \in [Callers -> {"idle", "locking", "looking", "sending", "subscribing", "unsubscribing"}]
         /\ mu' \in Callers \cup {Nobody}
         /\ \A d \in Callers : pc'[d] \notin {"idle", "locking"} <=> mu' = d
<1>1. pc'[c] = l /\ \A d \in Callers \ {c} : pc'[d] = pc[d]
  BY Moving
<1>2. \A d \in Callers : pc[d] \notin {"idle", "locking"} <=> mu = d
  BY DEF TypeOK
<1>3. pc' \in [Callers -> {"idle", "locking", "looking", "sending", "subscribing", "unsubscribing"}]
  BY DEF TypeOK, Goto
<1>4. mu' \in Callers \cup {Nobody}
  BY DEF TypeOK
<1>5. \A d \in Callers : pc'[d] \notin {"idle", "locking"} <=> mu' = d
  BY <1>1, <1>2, MqttSubsAssumption
<1> QED
  BY <1>3, <1>4, <1>5

(* Only the holder of the mutex works.                                     *)
LEMMA OneWorks ==
  ASSUME TypeOK, NEW c \in Callers, Works(c) \/ At(c, "looking")
  PROVE  mu = c /\ \A d \in Callers : (Works(d) \/ At(d, "looking")) => d = c
  BY DEF TypeOK, Works, At

(* Packets that were sent before, and are waited for by nobody.            *)
LEMMA OrphanedPackets ==
  ASSUME wire \in Seq(Packets)
  PROVE  /\ Orphaned \in Seq(Packets) /\ DOMAIN Orphaned = DOMAIN wire
         /\ \A i \in DOMAIN wire : Orphaned[i].from = Nobody /\ Orphaned[i].topic = wire[i].topic
<1>1. \A i \in DOMAIN wire : wire[i] \in Packets
  OBVIOUS
<1>2. \A i \in DOMAIN wire :
        /\ [wire[i] EXCEPT !.from = Nobody] \in Packets
        /\ [wire[i] EXCEPT !.from = Nobody].from = Nobody
        /\ [wire[i] EXCEPT !.from = Nobody].topic = wire[i].topic
  BY <1>1 DEF Packets
<1>3. DOMAIN wire = 1 .. Len(wire) /\ Len(wire) \in Nat
  OBVIOUS
<1>4. Orphaned \in [1 .. Len(wire) -> Packets]
  BY <1>2, <1>3 DEF Orphaned
<1>5. Orphaned \in Seq(Packets)
  BY <1>3, <1>4
<1> QED
  BY <1>2, <1>5 DEF Orphaned

LEMMA PacketsOnTheWire ==
  ASSUME TypeOK, NEW i \in DOMAIN wire
  PROVE  /\ wire[i] \in Packets /\ wire[i].topic \in Topics /\ wire[i].from \in Callers \cup {Nobody}
         /\ i \in 1 .. Len(wire) /\ Len(wire) \in Nat
<1>1. wire \in Seq(Packets)
  BY DEF TypeOK
<1>2. wire[i] \in Packets /\ i \in 1 .. Len(wire) /\ Len(wire) \in Nat
  BY <1>1
<1> QED
  BY <1>2 DEF Packets

(* Without a working connection the rest of the invariant waits.           *)
LEMMA WithoutAConnection ==
  ASSUME TypeOK', ~alive', run' # "reconciling" => At(Run, "idle")',
         \A c \in Callers : /\ At(c, "subscribing")' => add' # {}
                            /\ At(c, "unsubscribing")' => add' = {} /\ remove' # {}
  PROVE  SubsInv'
  BY DEF SubsInv, LinkInv, ListsInv, WireInv, AgreeInv, FollowInv

(* The connection loop.                                                    *)
LEMMA RunKeeps ==
  ASSUME SubsInv, RunStep \/ Break \/ Close
  PROVE  SubsInv'
<1> USE MqttSubsAssumption
<1>types. TypeOK /\ LinkInv /\ ListsInv /\ WireInv /\ AgreeInv /\ FollowInv
  BY DEF SubsInv
<1>0. ASSUME UNCHANGED <<link, alive, topicVars, callVars, auxVars, brokerVars, closed, conns>>,
             run' \in {"dialing", "attached", "reconciling", "reading", "returned"},
             readDone' \in BOOLEAN, readDone' => ~alive, run' # "reconciling" => At(Run, "idle")
      PROVE  SubsInv'
  <2>1. TypeOK'
    BY <1>0, <1>types DEF TypeOK, topicVars, callVars, auxVars, brokerVars
  <2>2. LinkInv'
    BY <1>0, <1>types DEF LinkInv, callVars, At
  <2>3. ListsInv' /\ FollowInv'
    BY <1>0, <1>types DEF ListsInv, FollowInv, topicVars, callVars, auxVars, At, Works, Called
  <2>4. WireInv'
    BY <1>0, <1>types DEF WireInv, callVars, auxVars, brokerVars, Waiting, NextPacket
  <2>5. AgreeInv'
    BY <1>0, <1>types DEF AgreeInv, Done, Asked, topicVars, callVars, auxVars, brokerVars, Waiting
  <2> QED
    BY <2>1, <2>2, <2>3, <2>4, <2>5 DEF SubsInv
<1>1. CASE Attach
  <2>1. /\ ~closed /\ closed' = closed /\ run' = "attached" /\ conns' = conns + 1 /\ conns < MaxConns
        /\ link' /\ alive' /\ link' = TRUE /\ alive' = TRUE /\ readDone' = FALSE /\ applied' = {}
        /\ restored' = FALSE /\ givenUp' = {} /\ wire' = <<>> /\ session' = {}
        /\ UNCHANGED <<wanted, mu, pc, add, remove, reply>>
        /\ \A c \in Callers : pc[c] \in {"idle", "locking", "looking"}
        /\ run = "dialing"
    BY <1>1 DEF Attach, callVars, NobodyLingers
  <2>2. TypeOK'
    <3>1. wire' \in Seq(Packets)
      BY <2>1
    <3>2. conns' \in 0 .. MaxConns
      BY <2>1, <1>types DEF TypeOK
    <3> QED
      BY <2>1, <3>1, <3>2, <1>types DEF TypeOK
  <2>3. LinkInv' /\ ListsInv'
    BY <2>1, <1>types DEF LinkInv, ListsInv, At, Works
  <2>4. WireInv'
    BY <2>1 DEF WireInv
  <2>5. AgreeInv'
    BY <2>1 DEF AgreeInv, Done, Waiting
  <2>6. FollowInv'
    BY <2>1 DEF FollowInv, Works
  <2> QED
    BY <2>2, <2>3, <2>4, <2>5, <2>6 DEF SubsInv
<1>2. CASE RunReturns
  BY <1>2, <1>0, <1>types DEF RunReturns, linkVars, LinkInv, TypeOK
<1>3. CASE RunReconciles
  <2>1. /\ run = "attached" /\ run' = "reconciling" /\ Goto(Run, "locking") /\ Run \in Callers
        /\ UNCHANGED <<closed, conns, link, alive, readDone, wanted, applied, mu, add, remove, reply,
                       restored, givenUp, wire, session>>
    BY <1>3 DEF RunReconciles, linkVars, topicVars, auxVars, brokerVars, Callers
  <2>2. At(Run, "idle") /\ mu # Run
    BY <2>1, <1>types DEF LinkInv, TypeOK, At
  <2>3. pc'[Run] = "locking" /\ \A d \in Callers \ {Run} : pc'[d] = pc[d]
    BY <2>1, <1>types, Moving
  <2>4. /\ pc' \in [Callers -> {"idle", "locking", "looking", "sending", "subscribing", "unsubscribing"}]
        /\ mu' \in Callers \cup {Nobody}
        /\ \A d \in Callers : pc'[d] \notin {"idle", "locking"} <=> mu' = d
    BY <2>1, <2>2, <1>types, HoldersPreserved
  <2>5. TypeOK'
    BY <2>1, <2>4, <1>types DEF TypeOK
  <2>6. LinkInv' /\ ListsInv'
    BY <2>1, <2>2, <2>3, <1>types DEF LinkInv, ListsInv, At, Works
  <2>7. \A d \in Callers : Waiting(d)' <=> Waiting(d)
    BY <2>2, <2>3 DEF Waiting, At
  <2>8. WireInv'
    <3>1. \A i \in DOMAIN wire : wire[i].from # Nobody => wire[i].from \in Callers
      BY <1>types, PacketsOnTheWire
    <3>2. \A d : NextPacket(d)' = NextPacket(d)
      BY <2>1 DEF NextPacket
    <3> QED
      BY <2>1, <2>7, <3>1, <3>2, <1>types DEF WireInv
  <2>9. AgreeInv'
    BY <2>1, <2>7, <1>types DEF AgreeInv, Done, Asked
  <2>10. FollowInv'
    BY <2>1, <2>3 DEF FollowInv, At, Called
  <2> QED
    BY <2>5, <2>6, <2>8, <2>9, <2>10 DEF SubsInv
<1>4. CASE RunReads
  BY <1>4, <1>0, <1>types DEF RunReads, linkVars, LinkInv, TypeOK
<1>5. CASE ReadEnds
  BY <1>5, <1>0, <1>types DEF ReadEnds, runVars, LinkInv, TypeOK
<1>6. ASSUME Detach \/ Break \/ Close PROVE SubsInv'
  <2>1. /\ alive' = FALSE /\ link' \in BOOLEAN /\ closed' \in BOOLEAN /\ readDone' = readDone
        /\ run' \in {run, "dialing"} /\ (run = "reconciling" => run' = run)
        /\ applied' \in {applied, {}} /\ wire' \in {wire, <<>>}
        /\ UNCHANGED <<conns, wanted, mu, pc, add, remove, reply, restored, givenUp, session>>
    <3>1. CASE Detach
      BY <3>1, <1>types DEF Detach, LinkInv, TypeOK, callVars, auxVars, brokerVars
    <3>2. CASE Break
      BY <3>2, <1>types DEF Break, TypeOK, runVars, topicVars, callVars, auxVars
    <3>3. CASE Close
      BY <3>3, <1>types DEF Close, TypeOK, callVars, auxVars
    <3> QED
      BY <1>6, <3>1, <3>2, <3>3
  <2>2. TypeOK'
    <3>1. wire' \in Seq(Packets)
      <4>1. wire \in Seq(Packets) /\ <<>> \in Seq(Packets)
        BY <1>types DEF TypeOK
      <4> QED
        BY <2>1, <4>1
    <3> QED
      BY <2>1, <3>1, <1>types DEF TypeOK
  <2>3. run' # "reconciling" => At(Run, "idle")'
    BY <2>1, <1>types DEF LinkInv, At
  <2>4. \A c \in Callers : /\ At(c, "subscribing")' => add' # {}
                           /\ At(c, "unsubscribing")' => add' = {} /\ remove' # {}
    BY <2>1, <1>types DEF ListsInv, At
  <2> QED
    BY <2>1, <2>2, <2>3, <2>4, WithoutAConnection
<1> QED
  BY <1>1, <1>2, <1>3, <1>4, <1>5, <1>6 DEF RunStep

-----------------------------------------------------------------------------
(* A call of SetSubscriptions, and the mutex.                              *)
LEMMA CallKeeps ==
  ASSUME SubsInv, NEW c \in Callers, (\E S \in SUBSET Topics : SetSubscriptions(c, S)) \/ Lock(c)
  PROVE  SubsInv'
<1> USE MqttSubsAssumption
<1>types. TypeOK /\ LinkInv /\ ListsInv /\ WireInv /\ AgreeInv /\ FollowInv
  BY DEF SubsInv
<1>1. /\ UNCHANGED <<closed, run, conns, link, alive, readDone, applied, add, remove, reply,
                     restored, givenUp, wire, session>>
      /\ wanted' \subseteq Topics
      /\ \/ /\ c \in Setters /\ pc[c] = "idle" /\ mu' = mu /\ Goto(c, "locking")
         \/ /\ pc[c] = "locking" /\ mu = Nobody /\ mu' = c /\ Goto(c, "looking")
  <2>1. ASSUME NEW S \in SUBSET Topics, SetSubscriptions(c, S) PROVE <1>1!:
    BY <2>1 DEF SetSubscriptions, runVars, linkVars, auxVars, brokerVars, At
  <2>2. ASSUME Lock(c) PROVE <1>1!:
    BY <2>2, <1>types DEF Lock, runVars, linkVars, topicVars, auxVars, brokerVars, At, TypeOK
  <2> QED
    BY <2>1, <2>2
<1>2. /\ pc'[c] \in {"locking", "looking"} /\ \A d \in Callers \ {c} : pc'[d] = pc[d]
      /\ pc[c] \in {"idle", "locking"} /\ (pc[c] = "idle" => c # Run)
  BY <1>1, <1>types, Moving
<1>3. /\ pc' \in [Callers -> {"idle", "locking", "looking", "sending", "subscribing", "unsubscribing"}]
      /\ mu' \in Callers \cup {Nobody}
      /\ \A d \in Callers : pc'[d] \notin {"idle", "locking"} <=> mu' = d
  <2>1. pc[c] \in {"idle", "locking"} => mu # c
    BY <1>types DEF TypeOK
  <2>2. CASE pc[c] = "idle" /\ mu' = mu /\ Goto(c, "locking")
    BY <2>1, <2>2, <1>types, HoldersPreserved
  <2>3. CASE pc[c] = "locking" /\ mu = Nobody /\ mu' = c /\ Goto(c, "looking")
    BY <2>1, <2>3, <1>types, HoldersPreserved
  <2> QED
    BY <1>1, <2>2, <2>3
<1>4. TypeOK'
  BY <1>1, <1>3, <1>types DEF TypeOK
<1>5. LinkInv' /\ ListsInv'
  <2>1. pc[Run] = "idle" => pc'[Run] = "idle"
    BY <1>2 DEF Callers
  <2>2. LinkInv'
    BY <1>1, <2>1, <1>types DEF LinkInv, At
  <2>3. ListsInv'
    BY <1>1, <1>2, <1>types DEF ListsInv, At, Works
  <2> QED
    BY <2>2, <2>3
<1>6. \A d \in Callers : Waiting(d)' <=> Waiting(d)
  BY <1>2 DEF Waiting
<1>7. WireInv'
  <2>1. \A i \in DOMAIN wire : wire[i].from # Nobody => wire[i].from \in Callers
    BY <1>types, PacketsOnTheWire
  <2>2. \A d : NextPacket(d)' = NextPacket(d)
    BY <1>1 DEF NextPacket
  <2> QED
    BY <1>1, <1>6, <2>1, <2>2, <1>types DEF WireInv
<1>8. AgreeInv'
  BY <1>1, <1>6, <1>types DEF AgreeInv, Done, Asked
<1>9. FollowInv'
  BY <1>1, <1>2 DEF FollowInv, At, Called
<1> QED
  BY <1>4, <1>5, <1>7, <1>8, <1>9 DEF SubsInv

(* Nobody waits while the holder of the mutex is elsewhere, or after the   *)
(* answer: then nobody waits for a packet either.                          *)
LEMMA NobodyIsAnswered ==
  ASSUME SubsInv, alive, NEW c \in Callers,
         \/ At(c, "looking") \/ At(c, "sending") \/ reply # "none"
  PROVE  \A i \in DOMAIN wire : wire[i].from = Nobody /\ wire[i].topic \in givenUp
<1> SUFFICES ASSUME NEW i \in DOMAIN wire, wire[i].from # Nobody PROVE FALSE
  BY DEF SubsInv, WireInv
<1>1. reply = "none" /\ Waiting(wire[i].from) /\ wire[i].from \in Callers
  BY PacketsOnTheWire DEF SubsInv, WireInv
<1>2. CASE At(c, "looking") \/ At(c, "sending")
  <2>1. Works(c) \/ At(c, "looking")
    BY <1>2 DEF Works, At
  <2>2. Works(wire[i].from)
    BY <1>1 DEF Works, Waiting
  <2>3. wire[i].from = c
    BY <1>1, <2>1, <2>2, OneWorks DEF SubsInv
  <2> QED
    BY <1>1, <1>2, <2>3 DEF Waiting, At
<1> QED
  BY <1>1, <1>2

(* reconcile returns.                                                      *)
LEMMA Returning ==
  ASSUME SubsInv, NEW c \in Callers, NEW ok \in BOOLEAN, Works(c) \/ At(c, "looking"),
         Return(c, ok), UNCHANGED <<runVars, linkVars, topicVars, add, remove, reply, session>>,
         wire' \in Seq(Packets), givenUp' \subseteq Topics
  PROVE  /\ TypeOK' /\ LinkInv' /\ ListsInv'
         /\ \A d \in Callers : ~Works(d)' /\ ~Waiting(d)'
         /\ pc'[c] = "idle" /\ \A d \in Callers \ {c} : pc'[d] = pc[d]
         /\ ~alive => SubsInv'
<1> USE MqttSubsAssumption
<1>types. TypeOK /\ LinkInv /\ ListsInv
  BY DEF SubsInv
<1>1. mu = c /\ \A d \in Callers \ {c} : ~Works(d)
  BY <1>types, OneWorks
<1>2. pc'[c] = "idle" /\ \A d \in Callers \ {c} : pc'[d] = pc[d]
  BY <1>types, Moving DEF Return
<1>3. TypeOK'
  <2>1. /\ pc' \in [Callers -> {"idle", "locking", "looking", "sending", "subscribing", "unsubscribing"}]
        /\ mu' \in Callers \cup {Nobody}
        /\ \A d \in Callers : pc'[d] \notin {"idle", "locking"} <=> mu' = d
    BY <1>1, <1>types, HoldersPreserved DEF Return
  <2> QED
    BY <2>1, <1>types DEF TypeOK, Return, runVars, linkVars, topicVars
<1>4. \A d \in Callers : ~Works(d)' /\ ~Waiting(d)'
  BY <1>1, <1>2 DEF Works, Waiting
<1>5. LinkInv'
  <2>1. pc[Run] = "idle" => pc'[Run] = "idle"
    BY <1>2 DEF Callers
  <2> QED
    BY <2>1, <1>types DEF LinkInv, At, runVars, linkVars
<1>6. ListsInv'
  BY <1>4 DEF ListsInv, At, Works
<1>7. ~alive => SubsInv'
  BY <1>3, <1>5, <1>6, WithoutAConnection DEF LinkInv, ListsInv, linkVars
<1> QED
  BY <1>2, <1>3, <1>4, <1>5, <1>6, <1>7

LEMMA ReturnKeeps ==
  ASSUME SubsInv, NEW c \in Callers,
         LookOffline(c) \/ SendFails(c) \/ Reconciled(c) \/ SubscribeRefused(c) \/ Woken(c) \/ TimesOut(c)
  PROVE  SubsInv'
<1> USE MqttSubsAssumption
<1>types. TypeOK /\ LinkInv /\ ListsInv /\ WireInv /\ AgreeInv /\ FollowInv /\ wire \in Seq(Packets)
  BY DEF SubsInv, TypeOK
<1>1. CASE LookOffline(c) \/ SendFails(c) \/ Woken(c)
  <2>1. PICK ok \in BOOLEAN : Return(c, ok)
    BY <1>1, <1>types DEF LookOffline, SendFails, Woken, TypeOK
  <2>2. /\ Works(c) \/ At(c, "looking")
        /\ UNCHANGED <<runVars, linkVars, topicVars, add, remove, reply, session, givenUp>>
        /\ wire' \in {wire, Orphaned} /\ ~alive
    BY <1>1, <1>types DEF LookOffline, SendFails, Woken, Works, Waiting, At, brokerVars, LinkInv
  <2>3. wire' \in Seq(Packets) /\ givenUp' \subseteq Topics
    BY <2>2, <1>types, OrphanedPackets DEF TypeOK
  <2> QED
    BY <2>1, <2>2, <2>3, Returning
<1>2. CASE Reconciled(c)
  <2>1. /\ Return(c, TRUE) /\ At(c, "sending") /\ add = {} /\ remove = {}
        /\ UNCHANGED <<runVars, linkVars, topicVars, add, remove, reply, session, wire, givenUp>>
    BY <1>2 DEF Reconciled, brokerVars
  <2>2. Works(c) /\ ~Called(c) /\ wire' \in Seq(Packets) /\ givenUp' \subseteq Topics
    BY <2>1, <1>types DEF Works, At, TypeOK, Called
  <2>3. /\ TypeOK' /\ LinkInv' /\ ListsInv'
        /\ \A d \in Callers : ~Works(d)' /\ ~Waiting(d)'
        /\ pc'[c] = "idle" /\ \A d \in Callers \ {c} : pc'[d] = pc[d]
        /\ ~alive => SubsInv'
    BY <2>1, <2>2, Returning
  <2>4. CASE alive
    <3>1. WireInv'
      BY <2>1, <2>4, NobodyIsAnswered DEF WireInv
    <3>2. \A d \in Callers : ~Waiting(d)
      BY <2>1, <2>2, <1>types, OneWorks DEF Works, Waiting, At
    <3>3. AgreeInv'
      BY <2>1, <2>3, <2>4, <3>2, <1>types DEF AgreeInv, Done, topicVars
    <3>4. FollowInv'
      <4>1. ASSUME \A d \in Callers : At(d, "idle")' PROVE applied = wanted
        <5>1. \A d \in Callers : ~Called(d)
          BY <4>1, <2>2, <2>3 DEF At, Called
        <5>2. wanted \ applied = {} /\ applied \ wanted = {}
          BY <5>1, <2>1, <2>2, <2>4, <1>types DEF FollowInv
        <5> QED
          BY <5>2
      <4> QED
        BY <4>1, <2>1, <2>3 DEF FollowInv, topicVars
    <3> QED
      BY <2>3, <3>1, <3>3, <3>4 DEF SubsInv
  <2> QED
    BY <2>3, <2>4
<1>3. CASE SubscribeRefused(c)
  <2>1. /\ Return(c, FALSE) /\ At(c, "subscribing") /\ reply = "refused"
        /\ UNCHANGED <<runVars, linkVars, topicVars, add, remove, reply, session, wire, givenUp>>
    BY <1>3 DEF SubscribeRefused, brokerVars
  <2>2. Works(c) /\ wire' \in Seq(Packets) /\ givenUp' \subseteq Topics
    BY <2>1, <1>types DEF Works, At, TypeOK
  <2>3. /\ TypeOK' /\ LinkInv' /\ ListsInv'
        /\ \A d \in Callers : ~Works(d)' /\ ~Waiting(d)'
        /\ ~alive => SubsInv'
    BY <2>1, <2>2, Returning
  <2>4. CASE alive
    <3>1. WireInv'
      BY <2>1, <2>4, NobodyIsAnswered DEF WireInv
    <3>2. AgreeInv'
      BY <2>1, <2>3, <2>4, <1>types DEF AgreeInv, Done, topicVars
    <3>3. FollowInv'
      BY <2>1, <2>3 DEF FollowInv, Return
    <3> QED
      BY <2>3, <3>1, <3>2, <3>3 DEF SubsInv
  <2> QED
    BY <2>3, <2>4
<1>4. CASE TimesOut(c)
  <2>1. /\ Return(c, FALSE) /\ Waiting(c) /\ wire' = Orphaned
        /\ givenUp' = givenUp \cup {Asked}
        /\ UNCHANGED <<runVars, linkVars, topicVars, add, remove, reply, session>>
    BY <1>4 DEF TimesOut, NextPacket, Asked
  <2>2. Works(c) /\ add \cup remove # {}
    BY <2>1, <1>types DEF Works, At, Waiting, ListsInv
  <2>3. wire' \in Seq(Packets) /\ givenUp' \subseteq Topics
    BY <2>1, <2>2, <1>types, OrphanedPackets, AskedIsATopic DEF TypeOK
  <2>4. /\ TypeOK' /\ LinkInv' /\ ListsInv'
        /\ \A d \in Callers : ~Works(d)' /\ ~Waiting(d)'
        /\ ~alive => SubsInv'
    BY <2>1, <2>2, <2>3, Returning
  <2>5. CASE alive
    <3>1. \A i \in DOMAIN wire : wire[i].topic \in givenUp \cup {Asked}
      <4>1. \A d : NextPacket(d).topic = Asked
        BY DEF NextPacket, Asked
      <4> QED
        BY <4>1, <2>5, <1>types DEF WireInv
    <3>2. WireInv'
      BY <2>1, <3>1, <1>types, OrphanedPackets DEF WireInv
    <3>3. AgreeInv'
      BY <2>1, <2>4, <2>5, <1>types DEF AgreeInv, Done, topicVars
    <3>4. FollowInv'
      BY <2>1, <2>4 DEF FollowInv, Return
    <3> QED
      BY <2>4, <3>2, <3>3, <3>4 DEF SubsInv
  <2> QED
    BY <2>4, <2>5
<1> QED
  BY <1>1, <1>2, <1>3, <1>4

(* Under the lock reconcile sees what is left to do, and asks for the first*)
(* of it.                                                                  *)
LEMMA LookKeeps ==
  ASSUME SubsInv, NEW c \in Callers, Look(c) PROVE SubsInv'
<1> USE MqttSubsAssumption
<1>types. TypeOK /\ LinkInv /\ ListsInv /\ WireInv /\ AgreeInv /\ FollowInv
  BY DEF SubsInv
<1>1. /\ At(c, "looking") /\ add' = wanted \ applied /\ remove' = applied \ wanted /\ Goto(c, "sending")
      /\ UNCHANGED <<closed, run, conns, link, alive, readDone, wanted, applied, mu, reply,
                     restored, givenUp, wire, session>>
  BY DEF Look, runVars, linkVars, topicVars, auxVars, brokerVars
<1>2. mu = c /\ \A d \in Callers : Works(d) => d = c
  BY <1>1, <1>types, OneWorks
<1>3. pc'[c] = "sending" /\ \A d \in Callers \ {c} : pc'[d] = pc[d]
  BY <1>1, <1>types, Moving
<1>4. \A d \in Callers : ~Waiting(d) /\ ~Waiting(d)' /\ (d # c => ~Works(d)')
  BY <1>1, <1>2, <1>3 DEF Waiting, At, Works
<1>5. TypeOK'
  <2>1. /\ pc' \in [Callers -> {"idle", "locking", "looking", "sending", "subscribing", "unsubscribing"}]
        /\ mu' \in Callers \cup {Nobody}
        /\ \A d \in Callers : pc'[d] \notin {"idle", "locking"} <=> mu' = d
    BY <1>1, <1>2, <1>types, HoldersPreserved
  <2> QED
    BY <1>1, <2>1, <1>types DEF TypeOK
<1>6. LinkInv'
  <2>1. pc[Run] = "idle" => pc'[Run] = "idle"
    BY <1>1, <1>3 DEF Callers, At
  <2> QED
    BY <1>1, <2>1, <1>types DEF LinkInv, At
<1>7. ListsInv'
  BY <1>1, <1>3, <1>4 DEF ListsInv, At, Works, Waiting
<1>8. WireInv'
  BY <1>1, NobodyIsAnswered DEF WireInv
<1>9. AgreeInv'
  BY <1>1, <1>4, <1>types DEF AgreeInv, Done
<1>10. FollowInv'
  BY <1>1, <1>3 DEF FollowInv, At
<1> QED
  BY <1>5, <1>6, <1>7, <1>8, <1>9, <1>10 DEF SubsInv

LEMMA SendKeeps ==
  ASSUME SubsInv, NEW c \in Callers, Send(c) PROVE SubsInv'
<1> USE MqttSubsAssumption
<1>types. TypeOK /\ LinkInv /\ ListsInv /\ WireInv /\ AgreeInv /\ FollowInv
  BY DEF SubsInv
<1> DEFINE l == IF add # {} THEN "subscribing" ELSE "unsubscribing"
<1>1. /\ At(c, "sending") /\ add \cup remove # {} /\ reply' = "none" /\ Goto(c, l)
      /\ wire' = IF alive THEN Append(wire, NextPacket(c)) ELSE wire
      /\ UNCHANGED <<closed, run, conns, link, alive, readDone, wanted, applied, mu, add, remove,
                     restored, givenUp, session>>
  BY DEF Send, runVars, linkVars, topicVars, auxVars
<1>2. mu = c /\ Works(c) /\ \A d \in Callers : Works(d) => d = c
  BY <1>1, <1>types, OneWorks DEF Works, At
<1>3. pc'[c] = l /\ \A d \in Callers \ {c} : pc'[d] = pc[d]
  BY <1>1, <1>types, Moving
<1>4. /\ \A d \in Callers : ~Waiting(d) /\ (Works(d)' <=> Works(d))
      /\ Waiting(c)' /\ \A d \in Callers : Called(d)' <=> Called(d)
  BY <1>1, <1>2, <1>3 DEF Waiting, At, Works, Called
<1>packet. NextPacket(c) \in Packets /\ NextPacket(c).from = c
  <2>1. Asked \in Topics
    BY <1>1, <1>2, <1>types, AskedIsATopic
  <2> QED
    BY <2>1 DEF NextPacket, Asked, Packets
<1>wire. wire \in Seq(Packets) /\ wire' \in Seq(Packets)
  <2>1. wire \in Seq(Packets)
    BY <1>types DEF TypeOK
  <2>2. Append(wire, NextPacket(c)) \in Seq(Packets)
    BY <2>1, <1>packet
  <2> QED
    BY <1>1, <2>1, <2>2
<1>5. TypeOK'
  <2>1. /\ pc' \in [Callers -> {"idle", "locking", "looking", "sending", "subscribing", "unsubscribing"}]
        /\ mu' \in Callers \cup {Nobody}
        /\ \A d \in Callers : pc'[d] \notin {"idle", "locking"} <=> mu' = d
    BY <1>1, <1>2, <1>types, HoldersPreserved
  <2> QED
    BY <1>1, <1>wire, <2>1, <1>types DEF TypeOK
<1>6. LinkInv'
  <2>1. pc[Run] = "idle" => pc'[Run] = "idle"
    BY <1>1, <1>3 DEF Callers, At
  <2> QED
    BY <1>1, <2>1, <1>types DEF LinkInv, At
<1>7. ListsInv'
  <2>1. \A d \in Callers : d # c => ~Works(d)'
    BY <1>2, <1>4
  <2> QED
    BY <1>1, <1>2, <1>3, <2>1, <1>types DEF ListsInv, At, Works
<1>8. WireInv'
  <2> SUFFICES ASSUME alive, NEW i \in DOMAIN wire'
               PROVE  IF wire'[i].from = Nobody
                        THEN wire'[i].topic \in givenUp
                        ELSE /\ i = Len(wire') /\ reply' = "none"
                             /\ pc'[wire'[i].from] \in {"subscribing", "unsubscribing"}
                             /\ wire'[i] = NextPacket(wire'[i].from)
    BY <1>1 DEF WireInv, NextPacket, Waiting
  <2>1. /\ wire' = Append(wire, NextPacket(c)) /\ Len(wire') = Len(wire) + 1 /\ Len(wire) \in Nat
        /\ i \in 1 .. Len(wire) + 1
    BY <1>1, <1>wire, <1>packet
  <2>2. CASE i \in 1 .. Len(wire)
    <3>1. wire'[i] = wire[i] /\ i \in DOMAIN wire
      BY <2>1, <2>2, <1>wire, <1>packet
    <3> QED
      BY <3>1, <1>1, NobodyIsAnswered
  <2>3. CASE i = Len(wire) + 1
    <3>1. wire'[i] = NextPacket(c)
      BY <2>1, <2>3, <1>wire, <1>packet
    <3>2. pc'[c] \in {"subscribing", "unsubscribing"}
      BY <1>3
    <3> QED
      BY <3>1, <3>2, <2>1, <2>3, <1>1, <1>packet, MqttSubsAssumption
  <2> QED
    BY <2>1, <2>2, <2>3
<1>9. AgreeInv'
  BY <1>1, <1>4, <1>types DEF AgreeInv, Done
<1>10. FollowInv'
  <2>1. \E d \in Callers : ~At(d, "idle")'
    BY <1>3 DEF At
  <2> QED
    BY <2>1, <1>1, <1>4, <1>types DEF FollowInv
<1> QED
  BY <1>5, <1>6, <1>7, <1>8, <1>9, <1>10 DEF SubsInv

(* The answer it waited for has come: applied follows the session.         *)
LEMMA AnswerKeeps ==
  ASSUME SubsInv, NEW c \in Callers, Subscribed(c) \/ Unsubscribed(c) PROVE SubsInv'
<1> USE MqttSubsAssumption
<1>types. TypeOK /\ LinkInv /\ ListsInv /\ WireInv /\ AgreeInv /\ FollowInv
  BY DEF SubsInv
<1>1. /\ Waiting(c) /\ reply = "ok" /\ Goto(c, "sending")
      /\ UNCHANGED <<closed, run, conns, link, alive, readDone, wanted, mu, reply,
                     restored, givenUp, wire, session>>
      /\ \/ /\ add # {} /\ applied' = applied \cup {Asked} /\ add' = add \ {Asked} /\ remove' = remove
         \/ /\ add = {} /\ remove # {} /\ applied' = applied \ {Asked}
            /\ remove' = remove \ {Asked} /\ add' = add
  <2>1. CASE Subscribed(c)
    BY <2>1, <1>types DEF Subscribed, runVars, linkVars, auxVars, brokerVars, At, Waiting, ListsInv, Asked
  <2>2. CASE Unsubscribed(c)
    BY <2>2, <1>types DEF Unsubscribed, runVars, linkVars, auxVars, brokerVars, At, Waiting, ListsInv, Asked
  <2> QED
    BY <2>1, <2>2
<1>2. mu = c /\ Works(c) /\ \A d \in Callers : Works(d) => d = c
  BY <1>1, <1>types, OneWorks DEF Works, Waiting
<1>3. pc'[c] = "sending" /\ \A d \in Callers \ {c} : pc'[d] = pc[d]
  BY <1>1, <1>types, Moving
<1>4. /\ \A d \in Callers : ~Waiting(d)' /\ (Works(d)' <=> Works(d))
      /\ \A d \in Callers : Called(d)' <=> Called(d)
  BY <1>1, <1>2, <1>3 DEF Waiting, At, Works, Called
<1>asked. Asked \in Topics /\ (add # {} => Asked \in add) /\ (add = {} => Asked \in remove)
  BY <1>1, <1>2, <1>types, AskedIsATopic
<1>5. TypeOK'
  <2>1. /\ pc' \in [Callers -> {"idle", "locking", "looking", "sending", "subscribing", "unsubscribing"}]
        /\ mu' \in Callers \cup {Nobody}
        /\ \A d \in Callers : pc'[d] \notin {"idle", "locking"} <=> mu' = d
    BY <1>1, <1>2, <1>types, HoldersPreserved
  <2> QED
    BY <1>1, <1>asked, <2>1, <1>types DEF TypeOK
<1>6. LinkInv'
  <2>1. pc[Run] = "idle" => pc'[Run] = "idle"
    BY <1>1, <1>3 DEF Callers, Waiting
  <2> QED
    BY <1>1, <2>1, <1>types DEF LinkInv, At
<1> HIDE DEF Asked
<1>left. alive => add \cap applied = {} /\ remove \subseteq applied
  BY <1>2, <1>types DEF ListsInv
<1>7. ListsInv'
  <2>1. \A d \in Callers : Works(d)' => pc'[d] = "sending"
    BY <1>2, <1>3, <1>4
  <2>2. alive' => add' \cap applied' = {} /\ remove' \subseteq applied'
    <3>1. alive => add \cap remove = {}
      BY <1>left
    <3> QED
      BY <3>1, <1>1, <1>left, <1>asked
  <2> QED
    BY <2>1, <2>2 DEF ListsInv, At, Works
<1>8. WireInv'
  BY <1>1, NobodyIsAnswered DEF WireInv
<1>9. AgreeInv'
  <2> SUFFICES ASSUME alive, NEW t \in Topics \ givenUp PROVE t \in session <=> t \in applied'
    BY <1>1, <1>4 DEF AgreeInv, Done
  <2>1. CASE t = Asked
    <3>1. Done(t)
      BY <2>1, <1>1 DEF Done
    <3>2. t \in session <=> t \notin applied
      BY <3>1, <1>types DEF AgreeInv
    <3> QED
      BY <2>1, <3>2, <1>1, <1>left, <1>asked
  <2>2. CASE t # Asked
    <3>1. t \in session <=> t \in applied
      BY <2>2, <1>types DEF AgreeInv, Done
    <3> QED
      BY <2>2, <3>1, <1>1
  <2> QED
    BY <2>1, <2>2
<1>10. FollowInv'
  <2>1. \E d \in Callers : ~At(d, "idle")'
    BY <1>3 DEF At
  <2>2. ASSUME alive, \A d \in Callers : ~Called(d)'
        PROVE  add' = wanted \ applied' /\ remove' = applied' \ wanted
    <3>1. add = wanted \ applied /\ remove = applied \ wanted
      BY <2>2, <1>2, <1>4, <1>types DEF FollowInv
    <3> QED
      BY <3>1, <1>1, <1>asked
  <2> QED
    BY <2>1, <2>2, <1>1 DEF FollowInv
<1> QED
  BY <1>5, <1>6, <1>7, <1>8, <1>9, <1>10 DEF SubsInv

(* The broker takes the first packet under way.                            *)
LEMMA BrokerKeeps ==
  ASSUME SubsInv, BrokerAnswers PROVE SubsInv'
<1> USE MqttSubsAssumption
<1>types. TypeOK /\ LinkInv /\ ListsInv /\ WireInv /\ AgreeInv /\ FollowInv
  BY DEF SubsInv
<1> DEFINE p == wire[1]
           refused == p.ask = "subscribe" /\ p.topic \in Rejected
<1>wire. wire \in Seq(Packets) /\ wire # <<>>
  BY <1>types DEF TypeOK, BrokerAnswers
<1>0. Head(wire) = p /\ 1 \in DOMAIN wire
  BY <1>wire
<1>1. /\ alive /\ wire' = Tail(wire)
      /\ session' = IF p.ask = "unsubscribe" THEN session \ {p.topic}
                    ELSE IF refused THEN session ELSE session \cup {p.topic}
      /\ reply' = IF p.from = Nobody THEN reply ELSE IF refused THEN "refused" ELSE "ok"
      /\ UNCHANGED <<closed, run, conns, link, alive, readDone, wanted, applied, mu, pc, add, remove,
                     restored, givenUp>>
  BY <1>0 DEF BrokerAnswers, runVars, linkVars, topicVars, auxVars
<1>2. /\ Len(wire) \in Nat \ {0} /\ wire' \in Seq(Packets) /\ Len(wire') = Len(wire) - 1
      /\ \A i \in DOMAIN wire' : i + 1 \in DOMAIN wire /\ wire'[i] = wire[i + 1]
  BY <1>1, <1>wire
<1>3. /\ p.topic \in Topics /\ p.from \in Callers \cup {Nobody}
      /\ p.ask \in {"subscribe", "unsubscribe"}
  BY <1>0, <1>types, PacketsOnTheWire DEF Packets
<1>4. TypeOK'
  BY <1>1, <1>2, <1>3, <1>types DEF TypeOK
<1>5. LinkInv' /\ ListsInv' /\ FollowInv'
  BY <1>1, <1>types DEF LinkInv, ListsInv, FollowInv, At, Works, Called
<1>6. CASE p.from = Nobody
  <2>1. p.topic \in givenUp /\ reply' = reply
    BY <1>0, <1>1, <1>6, <1>types DEF WireInv
  <2>2. WireInv'
    <3> SUFFICES ASSUME NEW i \in DOMAIN wire'
                 PROVE  IF wire'[i].from = Nobody
                          THEN wire'[i].topic \in givenUp
                          ELSE /\ i = Len(wire') /\ reply = "none"
                               /\ Waiting(wire'[i].from) /\ wire'[i] = NextPacket(wire'[i].from)
      BY <1>1, <2>1 DEF WireInv, NextPacket, Waiting
    <3>1. i + 1 \in DOMAIN wire /\ wire'[i] = wire[i + 1] /\ i \in Nat
      BY <1>2
    <3>2. i + 1 = Len(wire) => i = Len(wire')
      BY <1>2, <3>1
    <3> QED
      BY <3>1, <3>2, <1>1, <1>types DEF WireInv
  <2>3. AgreeInv'
    <3>1. \A t \in Topics \ givenUp : t \in session' <=> t \in session
      BY <1>1, <2>1
    <3> QED
      BY <1>1, <2>1, <3>1, <1>types DEF AgreeInv, Done, Waiting, Asked
  <2> QED
    BY <1>4, <1>5, <2>2, <2>3 DEF SubsInv
<1>7. CASE p.from # Nobody
  <2>1. /\ Len(wire) = 1 /\ reply = "none" /\ Waiting(p.from) /\ p = NextPacket(p.from)
        /\ p.from \in Callers
    BY <1>0, <1>1, <1>3, <1>7, <1>types DEF WireInv
  <2>2. wire' = <<>>
    BY <2>1, <1>2
  <2>3. WireInv'
    BY <2>2 DEF WireInv
  <2>4. /\ p.topic = Asked /\ p.ask = IF add # {} THEN "subscribe" ELSE "unsubscribe"
    BY <2>1 DEF NextPacket, Asked
  <2>5. Works(p.from) /\ add \cup remove # {}
    BY <2>1, <1>types DEF Works, Waiting, ListsInv, At
  <2>6. /\ add # {} => Asked \in add
        /\ add = {} => Asked \in remove
        /\ add \cap applied = {} /\ remove \subseteq applied
    BY <2>1, <2>5, <1>1, <1>types, AskedIsATopic DEF ListsInv
  <2>7. AgreeInv'
    <3> SUFFICES ASSUME NEW t \in Topics \ givenUp
                 PROVE  /\ Done(t)' => (t \in session' <=> t \notin applied)
                        /\ ~Done(t)' => (t \in session' <=> t \in applied)
      BY <1>1 DEF AgreeInv
    <3>1. t \in session <=> t \in applied
      BY <2>1, <1>1, <1>types DEF AgreeInv, Done
    <3>2. Done(t)' <=> (reply' = "ok" /\ t = Asked)
      BY <2>1, <1>1 DEF Done, Waiting, Asked
    <3>3. CASE t # Asked
      BY <3>1, <3>2, <3>3, <2>4, <1>1
    <3>4. CASE t = Asked
      <4>1. CASE add # {}
        BY <4>1, <3>1, <3>2, <3>4, <2>4, <2>6, <1>1, <1>7
      <4>2. CASE add = {}
        BY <4>2, <3>1, <3>2, <3>4, <2>4, <2>6, <1>1, <1>7
      <4> QED
        BY <4>1, <4>2
    <3> QED
      BY <3>3, <3>4
  <2> QED
    BY <1>4, <1>5, <2>3, <2>7 DEF SubsInv
<1> QED
  BY <1>6, <1>7

-----------------------------------------------------------------------------
LEMMA SubsPreserved == SubsInv /\ [Next]_vars => SubsInv'
<1> SUFFICES ASSUME SubsInv, [Next]_vars PROVE SubsInv'
  OBVIOUS
<1>1. CASE UNCHANGED vars
  <2>1. UNCHANGED <<closed, run, conns, link, alive, readDone, wanted, applied, mu, pc, add, remove,
                    reply, restored, givenUp, wire, session>>
    BY <1>1 DEF vars, runVars, linkVars, topicVars, callVars, auxVars, brokerVars
  <2>2. TypeOK'
    BY <2>1 DEF SubsInv, TypeOK
  <2>3. LinkInv' /\ ListsInv' /\ FollowInv'
    BY <2>1 DEF SubsInv, LinkInv, ListsInv, FollowInv, At, Works, Called
  <2>4. WireInv' /\ AgreeInv'
    BY <2>1 DEF SubsInv, WireInv, AgreeInv, Done, Asked, Waiting, NextPacket
  <2> QED
    BY <2>2, <2>3, <2>4 DEF SubsInv
<1>2. CASE RunStep \/ Break \/ Close
  BY <1>2, RunKeeps
<1>3. CASE BrokerAnswers
  BY <1>3, BrokerKeeps
<1>4. ASSUME NEW c \in Setters, NEW S \in SUBSET Topics, SetSubscriptions(c, S) PROVE SubsInv'
  BY <1>4, CallKeeps DEF Callers
<1>5. ASSUME NEW c \in Callers, Lock(c) \/ Reconcile(c) PROVE SubsInv'
  BY <1>5, CallKeeps, ReturnKeeps, LookKeeps, SendKeeps, AnswerKeeps DEF Reconcile
<1> QED
  BY <1>1, <1>2, <1>3, <1>4, <1>5 DEF Next

(* SubsInv holds in every state of the client and its broker.              *)
THEOREM SubscriptionsInvariant == Spec => []SubsInv
  BY SubsInit, SubsPreserved, PTL DEF Spec

(* What the client takes for subscribed is what the broker has, but for    *)
(* requests that were not answered in time (reconcile, attach, detach).    *)
THEOREM AppliedFollowsTheBroker == Spec => []AppliedIsAcknowledged
<1>1. SubsInv => AppliedIsAcknowledged
  <2> SUFFICES ASSUME SubsInv, alive, mu = Nobody PROVE applied \ givenUp = session \ givenUp
    BY DEF SubsInv, AppliedIsAcknowledged
  <2>1. applied \subseteq Topics /\ session \subseteq Topics
    BY DEF SubsInv, TypeOK
  <2>2. \A c \in Callers : ~Waiting(c)
    BY MqttSubsAssumption DEF SubsInv, TypeOK, Waiting
  <2>3. \A t \in Topics \ givenUp : t \in session <=> t \in applied
    BY <2>2 DEF SubsInv, AgreeInv, Done
  <2> QED
    BY <2>1, <2>3
<1> QED
  BY <1>1, SubscriptionsInvariant, PTL

(* Once a reconcile has succeeded and everyone has returned, the broker has*)
(* exactly the wanted topics (SetSubscriptions, reconcile).                *)
THEOREM BrokerHasTheWanted == Spec => []SessionFollowsWanted
<1>1. SubsInv => SessionFollowsWanted
  <2> SUFFICES ASSUME SubsInv, alive, restored, \A c \in Callers : At(c, "idle")
               PROVE  session \ givenUp = wanted \ givenUp /\ applied = wanted
    BY DEF SessionFollowsWanted
  <2>1. applied = wanted
    BY DEF SubsInv, FollowInv
  <2>2. \A c \in Callers : ~Waiting(c)
    BY DEF At, Waiting
  <2>3. \A t \in Topics \ givenUp : t \in session <=> t \in applied
    BY <2>2 DEF SubsInv, AgreeInv, Done
  <2>4. applied \subseteq Topics /\ session \subseteq Topics
    BY DEF SubsInv, TypeOK
  <2> QED
    BY <2>1, <2>3, <2>4
<1> QED
  BY <1>1, SubscriptionsInvariant, PTL

=============================================================================
