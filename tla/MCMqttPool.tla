------------------------------ MODULE MCMqttPool ------------------------------
(***************************************************************************)
(* Instances of MqttPool. Two callers and two connections are enough for   *)
(* one caller to use a connection while the timer armed by the other one   *)
(* retires it, and to dial its successor meanwhile.                        *)
(***************************************************************************)
EXTENDS MqttPool

CONSTANTS a, b, c1, c2

OneSubscriber  == {a}
TwoSubscribers == {a, b}
TwoConns       == {c1, c2}
=============================================================================
