------------------------------ MODULE MCDevice -------------------------------
(***************************************************************************)
(* A service, one tool at a time, three files in four versions of which    *)
(* the first two have the same, and the requests that can be told apart.   *)
(***************************************************************************)
EXTENDS Device

CONSTANTS t1, index, js, css, x, y

OneTool == {t1}
Three   == {index, js, css}

(* js goes and css comes with version 3, and css goes again with version 4;*)
(* version 2 is version 1 again.                                           *)
Released ==
  LET old == [f \in Three |-> IF f = css THEN Gone ELSE x]
      new == [f \in Three |-> IF f = js THEN Gone ELSE y]
      newer == [f \in Three |-> IF f = index THEN x ELSE Gone]
  IN  <<old, old, new, newer>>

Browser(path, luci, bearer) ==
  [path |-> path, host |-> "ok", origin |-> "same", from |-> "lan", luci |-> luci, bearer |-> bearer]

ThroughTheGateway ==
  { Browser("redeem", FALSE, FALSE), Browser("dashboard", TRUE, TRUE), Browser("handoff", TRUE, TRUE),
    [Browser("redeem", FALSE, FALSE) EXCEPT !.origin = "cross"],
    [Browser("login", FALSE, FALSE) EXCEPT !.from = "wan"] }

Direct(path, from, peer, forwarded) ==
  [path |-> path, host |-> "ok", origin |-> "same", from |-> from, peer |-> peer, forwarded |-> forwarded,
   real |-> "none", viahost |-> FALSE, bearer |-> TRUE]

(* A reverse proxy on the device marks what it passes on with one header or*)
(* the other.                                                              *)
AtTheListener ==
  { Direct("handoff", "lan", "lan", <<>>), Direct("handoff", "wan", "loopback", <<"wan">>),
    [Direct("handoff", "lan", "loopback", <<>>) EXCEPT !.viahost = TRUE],
    Direct("redeem", "lan", "lan", <<>>), Direct("login", "wan", "loopback", <<"lan", "wan", "garbage">>),
    [Direct("login", "wan", "loopback", <<"garbage">>) EXCEPT !.real = "wan"],
    [Direct("me", "lan", "lan", <<>>) EXCEPT !.host = "bad"] }
=============================================================================
