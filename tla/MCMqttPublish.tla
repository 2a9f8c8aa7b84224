---------------------------- MODULE MCMqttPublish ----------------------------
(* Two publishers and three calls share one identifier: it is in use, and  *)
(* used again.                                                             *)
EXTENDS MqttPublish

CONSTANTS p1, p2

MCSenders == {p1, p2}
=============================================================================
