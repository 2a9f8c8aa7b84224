------------------------------- MODULE Device --------------------------------
(***************************************************************************)
(* What the init script brings up on a device: the exported web files, and *)
(* the service with the requests to it. The two share no state, so the one *)
(* or the other is looked at, and nothing is lost that a property of either*)
(* could see.                                                              *)
(***************************************************************************)
EXTENDS WebExport, Requests

VARIABLE part  (* Which of the two.                                        *)

deviceVars == <<part, exportVars, requestVars>>

DeviceInit == part \in {"files", "panel"} /\ ExportInit /\ RequestsInit

DeviceNext ==
  /\ UNCHANGED part
  /\ \/ part = "files" /\ ExportNext /\ UNCHANGED requestVars
     \/ part = "panel" /\ RequestsNext /\ UNCHANGED exportVars

InPanel(action) == part = "panel" /\ action /\ UNCHANGED <<part, exportVars>>

(* Every process runs, procd starts the service again (five times an hour; *)
(* MaxFailures is less), and a user who wants to enter the panel from LuCI *)
(* tries again and again among all other processes that are started.       *)
Redeems(b) == b.path = "redeem" /\ b.host = "ok" /\ b.origin = "same"

Fairness ==
  /\ WF_deviceVars(InPanel(Elsewhere(ProcStep(Service) \/ Launch(Service, "serve")) \/ ComesUp))
  /\ \A t \in Tools :
       /\ WF_deviceVars(InPanel(
            \/ Elsewhere(ProcStep(t)) \/ AskForCode(t) \/ Forward(t) \/ Deny(t)
            \/ \E b \in BrowserCalls : ReadRequest(t, b)))
       /\ SF_deviceVars(InPanel(EnterPanel(t)))
       /\ SF_deviceVars(InPanel(code # 0 /\ Elsewhere(Launch(t, "gateway"))))
       /\ SF_deviceVars(InPanel(code # 0 /\ \E b \in BrowserCalls : Redeems(b) /\ ReadRequest(t, b)))

DeviceSpec == DeviceInit /\ [][DeviceNext]_deviceVars /\ Fairness

(* The way into the panel from LuCI leads to a session in the run of the   *)
(* service that is up, whatever processes were killed, calls failed and    *)
(* answers were lost before, with the same three exceptions.               *)
HandoffSucceeds ==
  part = "panel" ~> (Serving /\ session = boot) \/ raced \/ overlapped \/ keyCut
=============================================================================
