------------------------------- MODULE Streams --------------------------------
(***************************************************************************)
(* What flows into the service and out of it for as long as it runs: the   *)
(* MQTT subscriptions, whose messages change the state of sources, and the *)
(* event streams of browsers, which are told of every change. Neither      *)
(* waits for the other nor reads its state (Publish does not block), so the*)
(* one or the other is looked at, as in Device.                            *)
(***************************************************************************)
EXTENDS Subscriber, Hub

VARIABLE part  (* Which of the two.                                        *)

streamVars == <<part, vars, hubVars>>

(* While the streams are looked at no source subscribes to anything.       *)
StreamsInit ==
  /\ part \in {"in", "out"}
  /\ Init
  /\ HubInit
  /\ part = "out" => \A s \in Sources : registry[s] = Absent

Incoming(action) == part = "in" /\ action /\ UNCHANGED <<part, hubVars>>
Outgoing(action) == part = "out" /\ action /\ UNCHANGED <<part, vars>>

StreamsNext == Incoming(Next) \/ Outgoing(HubNext)

(* Calls that have begun go on, the janitor comes round, and a broker that *)
(* is asked again and again agrees at last.                                *)
SubscriberFairness ==
  /\ \A c \in Callers :
       /\ WF_streamVars(Incoming(Sync(c)))
       /\ WF_streamVars(Incoming(Work(c)))
       /\ SF_streamVars(Incoming(PoolGrants(c)))
  /\ \A c \in Janitors : WF_streamVars(Incoming(RetryBegins(c)))
  /\ \A x \in Subs : WF_streamVars(Incoming(StopCancels(x)))

(* Goroutines run on; browsers come and go as they like, and read or do    *)
(* not read (WriteReturns is not fair). A handler that waits for the lock  *)
(* gets it, however many publishers pass it: RWMutex lets no new reader in *)
(* while a writer waits.                                                   *)
HubFairness ==
  /\ \A p \in Publishers : WF_streamVars(Outgoing(PublishStep(p)))
  /\ \A v \in Viewers : SF_streamVars(Outgoing(ViewStep(v)))

StreamsSpec == StreamsInit /\ [][StreamsNext]_streamVars /\ SubscriberFairness /\ HubFairness
=============================================================================
