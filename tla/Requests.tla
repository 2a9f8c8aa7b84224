------------------------------ MODULE Requests -------------------------------
(***************************************************************************)
(* Requests to the service, beside its start: the CGI gateway              *)
(* (internal/gateway), one short-lived process per request that runs on    *)
(* the device and forwards it; the layers of the HTTP server               *)
(* (internal/api/middleware.go, remote.go); and the way into the panel from*)
(* LuCI, where the rpcd shell asks for a login code with the API token and *)
(* the browser redeems it. Sessions has the handlers in detail and many    *)
(* browsers, LoginThrottle the limits; here there is one browser, and a    *)
(* code or a session is the run of the service that issued it.             *)
(***************************************************************************)
EXTENDS Startup, Sequences, FiniteSetsExt

CONSTANTS
  BrowserCalls, (* What the browser asks of the device's web server.        *)
  DirectCalls,  (* What arrives at the listener of the panel itself.        *)
  Trusted,      (* The addresses in auth.trusted_proxies.                   *)
  NoCall        (* A process that forwards nothing.                         *)

(* from: who asks. peer: the other end of the connection that arrives.     *)
(* forwarded, real, viahost: X-Forwarded-For, X-Real-Ip ("none": without)  *)
(* and whether there is an X-Forwarded-Host. luci: a LuCI session that is  *)
(* logged in. bearer: the browser sends its session along.                 *)
Addresses == {"loopback", "lan", "wan"}
Paths     == {"health", "login", "redeem", "handoff", "me", "password", "dashboard", "registry", "page"}
Writes    == {"login", "redeem", "handoff", "password", "registry"}
BrowserCall ==
  [path : Paths, host : {"ok", "bad"}, origin : {"none", "same", "cross"},
   from : Addresses, luci : BOOLEAN, bearer : BOOLEAN]

(* arrived_via_proxy: one of the headers is there, whatever it says.       *)
ArrivedViaProxy(c) == c.forwarded # <<>> \/ c.real # "none" \/ c.viahost

(* Who asks without a proxy is the other end himself; a proxy leaves one of*)
(* its marks.                                                              *)
ASSUME RequestsAssumption ==
  /\ BrowserCalls \subseteq BrowserCall
  /\ \A c \in DirectCalls : c.path \in Paths /\ c.from \in Addresses /\ c.peer \in Addresses
  /\ \A c \in DirectCalls : ~ArrivedViaProxy(c) => c.from = c.peer
  /\ Trusted \subseteq Addresses

VARIABLES
  boot,        (* The runs of the service that came to serve.               *)
  code,        (* The run that issued the code the browser holds, 0: none.  *)
  live,        (* The service holds a code that was not redeemed.           *)
  session,     (* The run that issued the browser's session, 0: none.       *)
  call         (* The request each gateway forwards.                        *)

browser     == <<code, session>>
tables      == <<boot, live>>
requestVars == <<startupVars, browser, tables, call>>

RequestsInit ==
  /\ StartupInit
  /\ boot = 0 /\ code = 0 /\ live = FALSE /\ session = 0
  /\ call = [t \in Tools |-> NoCall]

-----------------------------------------------------------------------------
(* client_ip: what a trusted proxy tells of the client, and that is the    *)
(* nearest address that is no trusted proxy, or else the first one, or     *)
(* X-Real-Ip; without a trusted proxy, or when it tells nothing, the peer. *)
Told(c) ==
  LET legible == {i \in DOMAIN c.forwarded : c.forwarded[i] \in Addresses}
      hops    == {i \in legible : c.forwarded[i] \notin Trusted} IN
  CASE hops # {}                     -> c.forwarded[Max(hops)]
    [] hops = {} /\ 1 \in legible    -> c.forwarded[1]
    [] hops = {} /\ 1 \notin legible -> c.real

ClientIP(c) == IF c.peer \in Trusted /\ Told(c) \in Addresses THEN Told(c) ELSE c.peer

IsPrivate(a) == a # "wan"

MustChange       == mem[Service].password = "initial"
IsApiToken(c)    == c.token # 0 /\ c.token = mem[Service].token
IsSession(c)     == c.session # 0 /\ c.session = boot

(* Mutant of NeedsLogin: the redemption of a code is not open.             *)
NeedsLoginToRedeem(path) == path \notin {"health", "login", "page"}

NeedsLogin(path) == path \notin {"health", "login", "redeem", "page"}

(* Mutant of MayHandOff: only the address of the connection is looked at.  *)
MayHandOffLocally(c) == c.peer = "loopback"

(* A code is issued to a caller on the device that came without a proxy.   *)
MayHandOff(c) == ~ArrivedViaProxy(c) /\ c.peer = "loopback"

(* What may refuse a request, in the order of the layers and the handlers. *)
Checks(c) ==
  << [refuses |-> c.host = "bad", as |-> "invalid_host"],
     [refuses |-> c.path \in Writes /\ c.origin = "cross", as |-> "cross_origin_forbidden"],
     [refuses |-> NeedsLogin(c.path) /\ ~IsApiToken(c) /\ ~IsSession(c), as |-> "unauthorized"],
     [refuses |-> NeedsLogin(c.path) /\ ~IsApiToken(c) /\ MustChange /\ c.path \notin {"me", "password"},
      as |-> "password_change_required"],
     [refuses |-> c.path = "handoff" /\ ~MayHandOff(c), as |-> "remote_not_allowed"],
     [refuses |-> c.path = "redeem" /\ c.origin # "same", as |-> "cross_origin"],
     [refuses |-> c.path = "redeem" /\ ~(live /\ c.code = boot), as |-> "bad_code"],
     [refuses |-> c.path = "login" /\ MustChange /\ ~IsPrivate(ClientIP(c)), as |-> "setup_required"] >>

Answer(c) ==
  LET refusals == {i \in DOMAIN Checks(c) : Checks(c)[i].refuses} IN
  IF refusals = {} THEN "ok" ELSE Checks(c)[Min(refusals)].as

(* What a request changes in the service ...                               *)
Handled(c) ==
  /\ live' = ((live /\ ~(c.path = "redeem" /\ Answer(c) = "ok")) \/ (c.path = "handoff" /\ Answer(c) = "ok"))
  /\ UNCHANGED boot

(* ... and its answer in the browser: a code is given up when it was tried,*)
(* a session when it is refused (bootstrap and api.ts of the front end).   *)
Received(c, answer) ==
  /\ code' = CASE c.path = "redeem"                     -> 0
               [] c.path = "handoff" /\ answer = "ok"   -> boot
               [] OTHER                                 -> code
  /\ session' = CASE c.path \in {"login", "redeem"} /\ answer = "ok" -> boot
                  [] answer = "unauthorized" /\ c.session # 0         -> 0
                  [] OTHER                                            -> session

-----------------------------------------------------------------------------
(* A request at the listener: from the LAN, or through a reverse proxy.    *)
Sent(d) ==
  [path |-> d.path, host |-> d.host, origin |-> d.origin, from |-> d.from, peer |-> d.peer,
   forwarded |-> d.forwarded, real |-> d.real, viahost |-> d.viahost, token |-> 0, code |-> code, session |-> IF d.bearer THEN session ELSE 0]

DirectRequest(d) ==
  LET c == Sent(d) IN
  /\ Serving
  /\ Handled(c)
  /\ Received(c, Answer(c))
  /\ UNCHANGED <<startupVars, call>>

(* LuCI's shell wants a code: with secrets there it prints the token ...   *)
EnterPanel(t) ==
  /\ file["secrets"] # Missing
  /\ Launch(t, "print")
  /\ UNCHANGED <<browser, tables, call>>

(* ... and asks with it, as a caller on the device.                        *)
AskForCode(t) ==
  LET c == [path |-> "handoff", host |-> "ok", origin |-> "none", from |-> "loopback", peer |-> "loopback",
            forwarded |-> <<>>, real |-> "none", viahost |-> FALSE, token |-> mem[t].token, code |-> 0, session |-> 0] IN
  /\ job[t] = "print"
  /\ Used(t, 0)
  /\ IF Serving THEN Handled(c) /\ Received(c, Answer(c)) ELSE UNCHANGED <<browser, tables>>
  /\ UNCHANGED call

(* The gateway forwards the API, but for the codes.                        *)
Forwards(b) == b.path \notin {"page", "handoff"}

(* authorize: a request without credentials gets the API token when LuCI   *)
(* vouches for the browser.                                                *)
Injected(t, b) ==
  IF ~(b.bearer /\ session # 0) /\ b.luci /\ mem[t] # NoSecrets THEN mem[t].token ELSE 0

(* Mutant of MarkProxied: only the host is passed on.                      *)
MarkProxiedHost(b) == <<>>

(* mark_proxied leaves a trace of the browser, beside X-Forwarded-Host.    *)
MarkProxied(b) == <<b.from>>

ReadRequest(t, b) ==
  /\ pc[t] = "loaded"
  /\ job[t] = "gateway"
  /\ call[t] = NoCall
  /\ Forwards(b)
  /\ call' = [call EXCEPT ![t] =
       [path |-> b.path, host |-> b.host, origin |-> b.origin, from |-> b.from, peer |-> "loopback",
        forwarded |-> MarkProxied(b), real |-> "none", viahost |-> TRUE, token |-> Injected(t, b), code |-> code,
        session |-> IF b.bearer THEN session ELSE 0]]
  /\ UNCHANGED <<startupVars, browser, tables>>

Deny(t) ==
  /\ job[t] = "gateway"
  /\ call[t] = NoCall
  /\ \E b \in BrowserCalls : ~Forwards(b)
  /\ Used(t, 0)
  /\ UNCHANGED <<browser, tables, call>>

(* The request is forwarded and its answer passed on; with the service down*)
(* the gateway answers for it.                                             *)
Forward(t) ==
  LET c == call[t] IN
  /\ c # NoCall
  /\ Used(t, 0)
  /\ IF Serving THEN Handled(c) /\ Received(c, Answer(c)) ELSE UNCHANGED tables /\ Received(c, "upstream_unreachable")
  /\ call' = [call EXCEPT ![t] = NoCall]

(* The answer comes after the timeout of the gateway: the service has done *)
(* what was asked, the browser does not know.                              *)
ForwardTimesOut(t) ==
  LET c == call[t] IN
  /\ c # NoCall
  /\ Serving
  /\ Used(t, 1)
  /\ Handled(c)
  /\ Received(c, "upstream_unreachable")
  /\ call' = [call EXCEPT ![t] = NoCall]

(* The browser changes the password in its session and gets a new one.     *)
ChangePassword ==
  /\ session = boot
  /\ SetPassword(Service)
  /\ UNCHANGED <<browser, tables, call>>

(* The service comes up with empty tables.                                 *)
ComesUp ==
  /\ Listen
  /\ boot' = boot + 1
  /\ live' = FALSE
  /\ UNCHANGED <<browser, call>>

(* What the processes do without touching a request.                       *)
Elsewhere(action) == action /\ UNCHANGED <<browser, tables, call>>

Stopped(p) ==
  /\ Killed(p)
  /\ call' = [t \in Tools |-> IF t = p THEN NoCall ELSE call[t]]
  /\ UNCHANGED <<browser, tables>>

RequestStep(t) ==
  \/ EnterPanel(t) \/ AskForCode(t) \/ Forward(t) \/ ForwardTimesOut(t) \/ Deny(t)
  \/ \E b \in BrowserCalls : ReadRequest(t, b)

RequestsNext ==
  \/ \E p \in Procs : Elsewhere(ProcStep(p)) \/ Elsewhere(CallFails(p)) \/ Stopped(p)
  \/ \E p \in Procs, j \in Jobs : Elsewhere(Launch(p, j))
  \/ ComesUp \/ ChangePassword
  \/ \E t \in Tools : RequestStep(t)
  \/ \E d \in DirectCalls : DirectRequest(d)

-----------------------------------------------------------------------------
Forwarding == {t \in Tools : call[t] # NoCall}

(* All processes that have loaded the secrets hold the token of the file,  *)
(* so that a request with the token that the gateway injected is not taken *)
(* for one of a stranger, whatever was saved and restarted in between. The *)
(* exception is a first start at which two processes generated tokens.     *)
CredentialsAgree ==
  ~raced /\ ~Unreadable("secrets") =>
    /\ \A p \in Procs : mem[p] # NoSecrets /\ ~InSave(p) => mem[p].token = file["secrets"].token
    /\ \A t \in Forwarding : call[t].token # 0 /\ Serving => Answer(call[t]) # "unauthorized"

(* Codes are issued to callers on the device only ("登录码只能由设备本机   *)
(* 申请", session.go), though gateway and reverse proxies connect from it. *)
CodesStayOnTheDevice ==
  Serving =>
    \A c \in {Sent(d) : d \in DirectCalls} \cup {call[t] : t \in Forwarding} :
      c.path = "handoff" /\ Answer(c) = "ok" => c.from = "loopback"

(* Behind the gateway the service knows the browser if it trusts the       *)
(* loopback as a proxy: the limits of the login count per browser. Else,   *)
(* and so by default, every browser is the device itself to client_ip.     *)
GatewayKeepsTheClient ==
  \A t \in Forwarding : ClientIP(call[t]) = IF "loopback" \in Trusted THEN call[t].from ELSE "loopback"
=============================================================================
