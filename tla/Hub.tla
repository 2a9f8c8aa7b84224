--------------------------------- MODULE Hub ---------------------------------
(***************************************************************************)
(* The event hub of internal/state/hub.go with the SSE handlers of         *)
(* internal/api/sse.go that subscribe to it: publishers hold the read lock *)
(* and send without blocking, one channel after the other; a handler's     *)
(* cancel takes its channel out under the lock and closes it after that;   *)
(* Close takes all of them out and closes them under the lock.             *)
(***************************************************************************)
EXTENDS Naturals, Sequences, FiniteSets

CONSTANTS
  Publishers,  (* Goroutines that can be inside Publish at one time.       *)
  Viewers,     (* SSE handlers that can be active at one time.             *)
  Buffer,      (* subscriber_buffer.                                       *)
  None,        (* The publisher is not inside Publish.                     *)
  MaxEvents    (* Bound: events published.                                 *)

ASSUME HubAssumption ==
  Buffer \in Nat \ {0} /\ MaxEvents \in Nat /\ None \notin Nat

VARIABLES
  shut,        (* h.closed.                                                *)
  subs,        (* The viewers whose channel is in h.subs.                  *)
  buf,         (* What is in the channel of a viewer.                      *)
  chClosed,    (* The channel of a viewer was closed.                      *)
  stage,       (* The SSE handler: idle, opening, writing, streaming,      *)
               (* leaving, closing, panicked.                              *)
  cancel,      (* The cancel it holds is not the empty one.                *)
  sending,     (* The event each publisher sends; it holds the read lock.  *)
  left,        (* The viewers it has not tried yet.                        *)
  published,   (* Events so far; an event is its number.                   *)
  seen         (* The events written to the browser of a viewer, in order. *)

viewVars == <<stage, cancel, seen>>
pubVars  == <<sending, left, published>>
hubVars  == <<shut, subs, buf, chClosed, viewVars, pubVars>>

HubInit ==
  /\ shut = FALSE
  /\ subs = {}
  /\ buf = [v \in Viewers |-> <<>>]
  /\ chClosed = [v \in Viewers |-> FALSE]
  /\ stage = [v \in Viewers |-> "idle"]
  /\ cancel = [v \in Viewers |-> FALSE]
  /\ sending = [p \in Publishers |-> None]
  /\ left = [p \in Publishers |-> {}]
  /\ published = 0
  /\ seen = [v \in Viewers |-> <<>>]

(* h.mu: any number of publishers, or one of the others.                   *)
Locked == \E p \in Publishers : sending[p] # None

In(v, l)      == stage[v] = l
Becomes(v, l) == stage' = [stage EXCEPT ![v] = l]

-----------------------------------------------------------------------------
(* Publish: read lock, and nothing to do once the hub is closed.           *)
PublishBegins(p) ==
  /\ sending[p] = None
  /\ ~shut
  /\ published < MaxEvents
  /\ published' = published + 1
  /\ sending' = [sending EXCEPT ![p] = published + 1]
  /\ left' = [left EXCEPT ![p] = subs]
  /\ UNCHANGED <<shut, subs, buf, chClosed, viewVars>>

(* The non-blocking send to one subscriber.                                *)
PublishSends(p, v) ==
  /\ v \in left[p]
  /\ left' = [left EXCEPT ![p] = @ \ {v}]
  /\ buf' = IF Len(buf[v]) < Buffer THEN [buf EXCEPT ![v] = Append(@, sending[p])] ELSE buf
  /\ UNCHANGED <<shut, subs, chClosed, viewVars, sending, published>>

(* All subscribers were tried: the read lock is released.                  *)
PublishReturns(p) ==
  /\ sending[p] # None
  /\ left[p] = {}
  /\ sending' = [sending EXCEPT ![p] = None]
  /\ UNCHANGED <<shut, subs, buf, chClosed, viewVars, left, published>>

-----------------------------------------------------------------------------
(* handle_events: the browser connects.                                    *)
Connect(v) ==
  /\ In(v, "idle")
  /\ Becomes(v, "opening")
  /\ seen' = [seen EXCEPT ![v] = <<>>]
  /\ UNCHANGED <<shut, subs, buf, chClosed, cancel, pubVars>>

(* Subscribe: a new channel, or a closed one with an empty cancel. The     *)
(* handler goes on to write the hello frame.                               *)
Subscribe(v) ==
  /\ In(v, "opening")
  /\ ~Locked
  /\ Becomes(v, "writing")
  /\ subs' = IF shut THEN subs ELSE subs \cup {v}
  /\ buf' = [buf EXCEPT ![v] = <<>>]
  /\ chClosed' = [chClosed EXCEPT ![v] = shut]
  /\ cancel' = [cancel EXCEPT ![v] = ~shut]
  /\ UNCHANGED <<shut, seen, pubVars>>

(* Mutant of Receive: the newest buffered event overtakes the others.      *)
ReceiveNewest(v) ==
  /\ In(v, "streaming")
  /\ buf[v] # <<>>
  /\ Becomes(v, "writing")
  /\ seen' = [seen EXCEPT ![v] = Append(@, buf[v][Len(buf[v])])]
  /\ buf' = [buf EXCEPT ![v] = SubSeq(@, 1, Len(@) - 1)]
  /\ UNCHANGED <<shut, subs, chClosed, cancel, pubVars>>

(* The loop takes an event and starts to write it out.                     *)
Receive(v) ==
  /\ In(v, "streaming")
  /\ buf[v] # <<>>
  /\ Becomes(v, "writing")
  /\ seen' = [seen EXCEPT ![v] = Append(@, Head(buf[v]))]
  /\ buf' = [buf EXCEPT ![v] = Tail(@)]
  /\ UNCHANGED <<shut, subs, chClosed, cancel, pubVars>>

(* The heartbeat is due: a comment is written, no event taken.             *)
Heartbeat(v) ==
  /\ In(v, "streaming")
  /\ Becomes(v, "writing")
  /\ UNCHANGED <<shut, subs, buf, chClosed, cancel, seen, pubVars>>

(* The write of hello, event or heartbeat returns. It may never do so: the *)
(* server sets no WriteTimeout, and a browser may leave the connection     *)
(* open without reading from it.                                           *)
WriteReturns(v) ==
  /\ In(v, "writing")
  /\ Becomes(v, "streaming")
  /\ UNCHANGED <<shut, subs, buf, chClosed, cancel, seen, pubVars>>

(* Mutant of SeesClose: a closed channel does not end the loop.            *)
SeesCloseAndGoesOn(v) ==
  /\ In(v, "streaming")
  /\ chClosed[v]
  /\ buf[v] = <<>>
  /\ UNCHANGED hubVars

(* The loop finds its channel closed and drained.                          *)
SeesClose(v) ==
  /\ In(v, "streaming")
  /\ chClosed[v]
  /\ buf[v] = <<>>
  /\ Becomes(v, "leaving")
  /\ UNCHANGED <<shut, subs, buf, chClosed, cancel, seen, pubVars>>

(* The browser is gone: the request context ends, or the write fails.      *)
Disconnect(v) ==
  /\ In(v, "streaming") \/ In(v, "writing")
  /\ Becomes(v, "leaving")
  /\ UNCHANGED <<shut, subs, buf, chClosed, cancel, seen, pubVars>>

(* Mutant of Unsubscribe: the channel is closed before it is taken out.    *)
ClosesFirst(v) ==
  /\ In(v, "leaving")
  /\ chClosed' = [chClosed EXCEPT ![v] = TRUE]
  /\ IF cancel[v]
       THEN Becomes(v, "closing") /\ subs' = subs
       ELSE Becomes(v, "idle") /\ subs' = subs
  /\ UNCHANGED <<shut, buf, cancel, seen, pubVars>>

(* The deferred cancel: out of the map under the lock ...                  *)
Unsubscribe(v) ==
  /\ In(v, "leaving")
  /\ IF cancel[v]
       THEN ~Locked /\ subs' = subs \ {v} /\ Becomes(v, "closing")
       ELSE subs' = subs /\ Becomes(v, "idle")
  /\ UNCHANGED <<shut, buf, chClosed, cancel, seen, pubVars>>

(* ... and closed after it; closing a closed channel panics.               *)
CloseChannel(v) ==
  /\ In(v, "closing")
  /\ Becomes(v, IF chClosed[v] THEN "panicked" ELSE "idle")
  /\ chClosed' = [chClosed EXCEPT ![v] = TRUE]
  /\ UNCHANGED <<shut, subs, buf, cancel, seen, pubVars>>

(* Hub.Close, when main returns.                                           *)
Close ==
  /\ ~shut
  /\ ~Locked
  /\ shut' = TRUE
  /\ subs' = {}
  /\ chClosed' = [v \in Viewers |-> chClosed[v] \/ v \in subs]
  /\ UNCHANGED <<buf, viewVars, pubVars>>

PublishStep(p) == PublishReturns(p) \/ \E v \in Viewers : PublishSends(p, v)
ViewStep(v) == Subscribe(v) \/ Receive(v) \/ SeesClose(v) \/ Unsubscribe(v) \/ CloseChannel(v)

HubNext ==
  \/ \E p \in Publishers : PublishBegins(p) \/ PublishStep(p)
  \/ \E v \in Viewers :
       Connect(v) \/ ViewStep(v) \/ Heartbeat(v) \/ WriteReturns(v) \/ Disconnect(v)
  \/ Close

HubSpec == HubInit /\ [][HubNext]_hubVars

-----------------------------------------------------------------------------
HubTypeOK ==
  /\ shut \in BOOLEAN
  /\ subs \subseteq Viewers
  /\ buf \in [Viewers -> Seq(1 .. MaxEvents)]
  /\ \A v \in Viewers : Len(buf[v]) <= Buffer
  /\ chClosed \in [Viewers -> BOOLEAN]
  /\ stage \in [Viewers -> {"idle", "opening", "writing", "streaming", "leaving", "closing",
                         "panicked"}]
  /\ cancel \in [Viewers -> BOOLEAN]
  /\ sending \in [Publishers -> (1 .. MaxEvents) \cup {None}]
  /\ left \in [Publishers -> SUBSET Viewers]
  /\ published \in 0 .. MaxEvents
  /\ seen \in [Viewers -> Seq(1 .. MaxEvents)]

(* No publisher sends on a closed channel, which would panic in whatever   *)
(* goroutine publishes: a channel leaves the map before it is closed, and  *)
(* it leaves the map under the lock the publishers hold.                   *)
NoSendOnClosedChannel ==
  \A p \in Publishers : \A v \in left[p] : v \in subs /\ ~chClosed[v]

(* A handler that has returned is not in the map any more: browsers that   *)
(* come and go do not pile up.                                             *)
GoneIsForgotten == \A v \in subs : stage[v] \in {"writing", "streaming", "leaving"}

(* The map is exactly as long-lived as the streams: nobody is in it whose  *)
(* channel may be closed under a publisher, and nobody who has returned    *)
(* (Subscribe and its cancel against Publish and Close).                   *)
MapOutlivesNoStream == NoSendOnClosedChannel /\ GoneIsForgotten

Increasing(s) == \A i, j \in DOMAIN s : i < j => s[i] < s[j]
Distinct(s)   == \A i, j \in DOMAIN s : s[i] = s[j] => i = j

(* A browser gets each event at most once, also when publishers overlap,   *)
(* and, from one publisher at a time, in the order of publication: events  *)
(* may be missing, never swapped or repeated (Publish, handle_events).     *)
SeenInOrder ==
  \A v \in Viewers :
    /\ Distinct(seen[v] \o buf[v])
    /\ (\A p, q \in Publishers : p = q) => Increasing(seen[v] \o buf[v])

Stalled(v) == stage[v] = "writing"
Open(v)    == stage[v] \in {"writing", "streaming", "leaving", "closing"}

(* Closing the hub ends every stream, also one that is opened at that      *)
(* moment or later, and one that has still a buffer to drain, unless its   *)
(* browser keeps it in a write for good: Close does not interrupt a write  *)
(* (handle_events, Close). A handler that panics on the second close ends  *)
(* too: net/http recovers and drops the connection.                        *)
CloseEndsStreams == \A v \in Viewers : (shut ~> ~Open(v)) \/ <>[]Stalled(v)
=============================================================================
