------------------------------- MODULE MCMqtt -------------------------------
(***************************************************************************)
(* Instances of Mqtt.  The broker has one identifier, which the client     *)
(* uses too.                                                               *)
(***************************************************************************)
EXTENDS Mqtt

MCBrokerId == {2}
=============================================================================
