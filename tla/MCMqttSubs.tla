------------------------------ MODULE MCMqttSubs ------------------------------
(***************************************************************************)
(* Instances of MqttSubs. The broker refuses the second of two topics: the *)
(* first is subscribed in spite of it, on each of two connections of which *)
(* one is lost; two setters let one do the work of the other.              *)
(***************************************************************************)
EXTENDS MqttSubs

CONSTANTS a, b

TwoTopics   == {1, 2}
SecondTopic == {2}
TwoSetters  == {a, b}
=============================================================================
